SPECIFICATION Spec
CONSTANTS
  BITS = 4
  total_pages = 6
  MaxCount = 3
  NONE = NONE
  Dir = {0, 1}
  Index = {0, 1}
  Frame = {8, 9}
  JUNK = JUNK
INVARIANTS BitmapIsOwnership RefusesOnlyWhenFull TablesAreOwned
PROPERTIES NoPageTwice OneTranslationAtATime
