----------------------------- MODULE Pages_proofs -----------------------------
(***************************************************************************)
(* For every word width, memory size, number of tables and run length: the *)
(* variables keep their types, the bitmap and the counter say who owns the *)
(* pages, no page is given out twice or refused while there is one, and a  *)
(* call changes the translation of its own page only.                      *)
(*                                                                         *)
(* One invariant, IInv, carries all of it.  The bitmap is exact because a  *)
(* page has one word and one bit (the arithmetic lemmas); hence what the   *)
(* searches find is free, hence a new table is no page that somebody       *)
(* writes to.  The counter stays in range because it is a cardinality.     *)
(***************************************************************************)
EXTENDS PageTables, FiniteSetTheorems, WellFoundedInduction, TLAPS

------------------------------------------------------------------------------
\* A page is a word and a bit.

LEMMA Division ==
  ASSUME NEW a \in Nat, NEW b \in Nat \ {0}
  PROVE  /\ a \div b \in Nat /\ a % b \in 0..(b - 1)
         /\ (a \div b) * b + (a % b) = a
OBVIOUS

LEMMA ProductOrder ==
  ASSUME NEW b \in Nat \ {0}, NEW v \in Int, NEW w \in Int, v < w
  PROVE  v * b + b <= w * b
<1>1. PICK d \in Nat : w = v + 1 + d
  <2>1. w - v - 1 \in Nat /\ w = v + 1 + (w - v - 1)
    OBVIOUS
  <2> QED
    BY <2>1
<1>2. w * b = v * b + b + d * b
  BY <1>1
<1>3. d * b \in Nat
  OBVIOUS
<1> QED
  BY <1>2, <1>3

LEMMA WordOfPage ==
  ASSUME NEW p \in Page
  PROVE  /\ p \div BITS \in Word /\ p % BITS \in Bit
         /\ (p \div BITS) * BITS + (p % BITS) = p
<1> DEFINE w == p \div BITS
           t == total_pages + BITS - 1
           n == t \div BITS
<1>1. /\ w \in Nat /\ p % BITS \in Bit
      /\ w * BITS + (p % BITS) = p
  <2>1. p \in Nat /\ BITS \in Nat \ {0}
    BY PagesAssumption DEF Page
  <2> QED
    BY <2>1, Division DEF Bit
<1>2. n \in Nat /\ t % BITS \in 0..(BITS - 1) /\ n * BITS + (t % BITS) = t
  BY Division, PagesAssumption
<1>3. w < n
  <2>1. SUFFICES ASSUME n <= w PROVE FALSE
    BY <1>1, <1>2
  <2>2. n * BITS <= w * BITS
    <3>1. CASE n = w
      BY <3>1, <1>1, PagesAssumption
    <3>2. CASE n < w
      BY <3>2, <1>1, <1>2, ProductOrder, PagesAssumption
    <3> QED
      BY <2>1, <3>1, <3>2, <1>1, <1>2
  <2>3. w * BITS \in Int /\ n * BITS \in Int
    BY <1>1, <1>2, PagesAssumption
  <2> HIDE DEF w, n
  <2> QED
    BY <2>2, <2>3, <1>1, <1>2, PagesAssumption DEF Page, Bit
<1> QED
  BY <1>1, <1>2, <1>3 DEF Word

LEMMA OneWordOneBit ==
  ASSUME NEW w \in Word, NEW b \in Bit, NEW v \in Word, NEW c \in Bit,
         w * BITS + b = v * BITS + c
  PROVE  w = v /\ b = c
<1>1. w \in Int /\ v \in Int /\ w * BITS \in Int /\ v * BITS \in Int
  BY PagesAssumption DEF Word
<1>2. ~(w < v)
  <2>1. SUFFICES ASSUME w < v PROVE FALSE
    OBVIOUS
  <2>2. w * BITS + BITS <= v * BITS
    BY <2>1, <1>1, ProductOrder, PagesAssumption
  <2> QED
    BY <2>2, <1>1, PagesAssumption DEF Bit
<1>3. ~(v < w)
  <2>1. SUFFICES ASSUME v < w PROVE FALSE
    OBVIOUS
  <2>2. v * BITS + BITS <= w * BITS
    BY <2>1, <1>1, ProductOrder, PagesAssumption
  <2> QED
    BY <2>2, <1>1, PagesAssumption DEF Bit
<1>4. w = v
  BY <1>1, <1>2, <1>3
<1> QED
  BY <1>4, <1>1 DEF Bit

LEMMA PlaceIsNatural ==
  ASSUME NEW w \in Word, NEW b \in Bit
  PROVE  w * BITS + b \in Nat
BY PagesAssumption DEF Word, Bit

LEMMA LeastProperties ==
  ASSUME NEW S, S \subseteq Nat, S # {}
  PROVE  Least(S) \in S /\ \A y \in S : Least(S) <= y
<1> DEFINE R == {ss \in Nat \X Nat : ss[1] < ss[2]}
<1>1. IsWellFoundedOn(R, Nat)
  BY NatLessThanWellFounded DEF OpToRel
<1>2. PICK x \in S : \A y \in S : <<y, x>> \notin R
  <2> HIDE DEF R
  <2> QED
    BY <1>1, WFMin
<1>3. ASSUME NEW y \in S PROVE x <= y
  <2>1. x \in Nat /\ y \in Nat /\ <<y, x>> \in Nat \X Nat
    OBVIOUS
  <2>2. ~(<<y, x>>[1] < <<y, x>>[2])
    BY <1>2, <2>1
  <2> QED
    BY <2>1, <2>2
<1> QED
  BY <1>3 DEF Least
------------------------------------------------------------------------------
\* What the searches find.

LEMMA TestBitIsOwned ==
  ASSUME PagesTypeOK, BitsAreOwnership, NEW p \in Page
  PROVE  pmm_test_bit(pmm_bitmap, p) <=> owner[p] # FREE
<1>1. p \div BITS \in Word /\ p % BITS \in Bit
      /\ (p \div BITS) * BITS + (p % BITS) = p
  BY WordOfPage
<1>2. ~(p >= total_pages)
  BY PagesAssumption DEF Page
<1>3. p % BITS \in pmm_bitmap[p \div BITS] <=> (p >= total_pages \/ owner[p] # FREE)
  BY <1>1 DEF BitsAreOwnership
<1> QED
  BY <1>2, <1>3 DEF pmm_test_bit

LEMMA CandidateProperties ==
  ASSUME PagesTypeOK, NEW w \in Word, pmm_bitmap[w] # Bit
  PROVE  \E b \in Bit : /\ b \notin pmm_bitmap[w]
                        /\ Candidate(pmm_bitmap, w) = w * BITS + b
                        /\ \A c \in Bit \ pmm_bitmap[w] : b <= c
<1> DEFINE S == Bit \ pmm_bitmap[w]
<1>1. pmm_bitmap[w] \subseteq Bit
  BY DEF PagesTypeOK
<1>2. S \subseteq Nat /\ S # {}
  <2>1. Bit \subseteq Nat
    BY DEF Bit
  <2> QED
    BY <1>1, <2>1
<1>3. Least(S) \in S /\ \A c \in S : Least(S) <= c
  <2> HIDE DEF S
  <2> QED
    BY <1>2, LeastProperties
<1> QED
  BY <1>3 DEF Candidate

LEMMA FoundPageIsFree ==
  ASSUME PagesTypeOK, BitsAreOwnership
  PROVE  \/ /\ FirstFreePage(pmm_bitmap) = NONE
            /\ \A p \in Page : owner[p] # FREE
         \/ /\ FirstFreePage(pmm_bitmap) # NONE
            /\ FirstFreePage(pmm_bitmap) \in Page
            /\ owner[FirstFreePage(pmm_bitmap)] = FREE
<1> DEFINE words == {w \in Word : pmm_bitmap[w] # Bit
                                  /\ Candidate(pmm_bitmap, w) < total_pages}
<1>1. CASE words = {}
  <2>1. FirstFreePage(pmm_bitmap) = NONE
    BY <1>1 DEF FirstFreePage
  <2>2. ASSUME NEW p \in Page, owner[p] = FREE PROVE FALSE
    <3> DEFINE w == p \div BITS
    <3>1. w \in Word /\ p % BITS \in Bit /\ w * BITS + (p % BITS) = p
      BY WordOfPage
    <3>2. p % BITS \notin pmm_bitmap[w]
      BY <2>2, TestBitIsOwned DEF pmm_test_bit
    <3> HIDE DEF w
    <3>3. pmm_bitmap[w] # Bit
      BY <3>1, <3>2
    <3>4. PICK b \in Bit : /\ Candidate(pmm_bitmap, w) = w * BITS + b
                           /\ \A c \in Bit \ pmm_bitmap[w] : b <= c
      BY <3>1, <3>3, CandidateProperties
    <3>5. w * BITS \in Int /\ b \in Int /\ b <= p % BITS /\ p % BITS \in Int
      BY <3>1, <3>2, <3>4, PagesAssumption DEF Word, Bit
    <3>6. w * BITS + b <= p
      BY <3>1, <3>5
    <3>7. w * BITS + b < total_pages
      BY <3>5, <3>6, PagesAssumption DEF Page
    <3> QED
      BY <1>1, <3>1, <3>3, <3>4, <3>7
  <2> QED
    BY <2>1, <2>2
<1>2. CASE words # {}
  <2> DEFINE w == Least(words)
  <2>1. words \subseteq Nat
    BY DEF Word
  <2>2. w \in words
    <3> HIDE DEF words
    <3> QED
      BY <1>2, <2>1, LeastProperties
  <2>3. FirstFreePage(pmm_bitmap) = Candidate(pmm_bitmap, w)
    BY <1>2 DEF FirstFreePage
  <2> HIDE DEF w
  <2>4. PICK b \in Bit : /\ b \notin pmm_bitmap[w]
                         /\ Candidate(pmm_bitmap, w) = w * BITS + b
    BY <2>2, CandidateProperties
  <2>5. w * BITS + b \in Nat /\ w * BITS + b < total_pages
    BY <2>2, <2>4, PlaceIsNatural
  <2>6. w * BITS + b \in Page /\ w * BITS + b # NONE
    BY <2>5, PagesAssumption DEF Page
  <2>7. owner[w * BITS + b] = FREE
    BY <2>2, <2>4, <2>5, PagesAssumption DEF BitsAreOwnership
  <2> QED
    BY <2>3, <2>4, <2>6, <2>7
<1> QED
  BY <1>1, <1>2

LEMMA RunMeansFree ==
  ASSUME PagesTypeOK, BitsAreOwnership, NEW n \in Nat, NEW p \in Page
  PROVE  p \in Runs(pmm_bitmap, n)
           <=> n > 0 /\ p + n <= total_pages
               /\ \A q \in p..(p + n - 1) : q \in Page /\ owner[q] = FREE
<1>1. p + n <= total_pages => \A q \in p..(p + n - 1) : q \in Page
  BY PagesAssumption DEF Page
<1>2. \A q \in Page : pmm_test_bit(pmm_bitmap, q) <=> owner[q] # FREE
  BY TestBitIsOwned
<1> QED
  BY <1>1, <1>2 DEF Runs

LEMMA FoundRunIsFree ==
  ASSUME PagesTypeOK, BitsAreOwnership, NEW n \in Nat, Runs(pmm_bitmap, n) # {}
  PROVE  LET p == Least(Runs(pmm_bitmap, n))
         IN  /\ n > 0 /\ p \in Page /\ p + n <= total_pages
             /\ \A q \in p..(p + n - 1) : q \in Page /\ owner[q] = FREE
<1>1. Runs(pmm_bitmap, n) \subseteq Page /\ Page \subseteq Nat
  BY DEF Runs, Page
<1>2. Least(Runs(pmm_bitmap, n)) \in Runs(pmm_bitmap, n)
  BY <1>1, LeastProperties
<1> QED
  BY <1>1, <1>2, RunMeansFree

------------------------------------------------------------------------------
\* What a call does to the bitmap, the counter and the owners.

LEMMA PagesAreFinite ==
  ASSUME NEW S, S \subseteq Page
  PROVE  IsFiniteSet(S) /\ Cardinality(S) \in 0..total_pages
<1>1. IsFiniteSet(Page) /\ Cardinality(Page) = total_pages
  BY FS_Interval, PagesAssumption DEF Page
<1>2. IsFiniteSet(S) /\ Cardinality(S) <= total_pages
  BY <1>1, FS_Subset
<1> QED
  BY <1>2, FS_CardinalityType, PagesAssumption

FreeOnes == {p \in Page : owner[p] = FREE}

LEMMA TakeIsGive ==
  ASSUME PagesTypeOK, BitmapIsOwnership,
         NEW p \in Page, NEW n \in Nat, n > 0, p + n <= total_pages,
         \A q \in p..(p + n - 1) : q \in Page /\ owner[q] = FREE,
         NEW who \in Owner, Take(p, n, who)
  PROVE  /\ PagesTypeOK' /\ BitmapIsOwnership'
         /\ Frames!Give(p, n, who)
<1> DEFINE pages == p..(p + n - 1)
<1>1. /\ pmm_bitmap' = SetBits(pmm_bitmap, pages)
      /\ pmm_free_pages_count' = pmm_free_pages_count - n
      /\ owner' = [q \in Page |-> IF q \in pages THEN who ELSE owner[q]]
  BY DEF Take
<1>2. pages \subseteq Page /\ who # FREE /\ \A q \in pages : owner[q] = FREE
  BY DEF Owner, FREE
<1>3. IsFiniteSet(pages) /\ Cardinality(pages) = n
  <2>1. p \in Int /\ p + n - 1 \in Int /\ ~(p > p + n - 1) /\ (p + n - 1) - p + 1 = n
    BY DEF Page
  <2> QED
    BY <2>1, FS_Interval
<1> HIDE DEF pages
<1>4. owner' \in [Page -> Owner \cup {FREE}]
  BY <1>1 DEF PagesTypeOK
<1>5. pmm_bitmap' \in [Word -> SUBSET Bit]
  BY <1>1 DEF PagesTypeOK, SetBits
<1>6. BitsAreOwnership'
  <2> SUFFICES ASSUME NEW w \in Word, NEW b \in Bit
               PROVE  b \in pmm_bitmap'[w]
                        <=> (w * BITS + b >= total_pages \/ owner'[w * BITS + b] # FREE)
    BY DEF BitsAreOwnership
  <2>1. b \in pmm_bitmap'[w] <=> (b \in pmm_bitmap[w] \/ w * BITS + b \in pages)
    BY <1>1 DEF SetBits
  <2>2. b \in pmm_bitmap[w]
          <=> (w * BITS + b >= total_pages \/ owner[w * BITS + b] # FREE)
    BY DEF BitmapIsOwnership, BitsAreOwnership
  <2>3. ~(w * BITS + b >= total_pages) => w * BITS + b \in Page
    BY PlaceIsNatural, PagesAssumption DEF Page
  <2> QED
    BY <1>1, <1>2, <2>1, <2>2, <2>3
<1>7. FreeOnes' = FreeOnes \ pages /\ FreeOnes \cap pages = pages
  BY <1>1, <1>2 DEF FreeOnes
<1>8. CountIsExact' /\ pmm_free_pages_count' \in 0..total_pages
  <2>1. IsFiniteSet(FreeOnes) /\ FreeOnes' \subseteq Page
    BY PagesAreFinite, <1>7 DEF FreeOnes
  <2>2. Cardinality(FreeOnes') = Cardinality(FreeOnes) - n
    BY <2>1, <1>3, <1>7, FS_Difference
  <2>3. pmm_free_pages_count = Cardinality(FreeOnes)
    BY DEF BitmapIsOwnership, CountIsExact, FreeOnes
  <2>4. pmm_free_pages_count' = Cardinality(FreeOnes')
    BY <1>1, <2>2, <2>3
  <2>5. Cardinality(FreeOnes') \in 0..total_pages
    BY <2>1, PagesAreFinite
  <2> QED
    BY <2>4, <2>5 DEF CountIsExact, FreeOnes
<1>9. Frames!Give(p, n, who)
  BY <1>1 DEF Frames!Give, Frames!IsFreeRun, Frames!Page, Page, pages
<1> QED
  BY <1>4, <1>5, <1>6, <1>8, <1>9 DEF PagesTypeOK, BitmapIsOwnership

LEMMA FreeIsTakeBack ==
  ASSUME PagesTypeOK, BitmapIsOwnership,
         NEW first \in Nat, NEW n \in Nat, pmm_free_pages(first, n)
  PROVE  /\ PagesTypeOK' /\ BitmapIsOwnership'
         /\ Frames!TakeBack("client")
<1> DEFINE pages == Released(first, n)
<1>1. /\ \A p \in first..(first + n - 1) : p \in Page => owner[p] \in {FREE, "client"}
      /\ pmm_bitmap' = ClearBits(pmm_bitmap, pages)
      /\ pmm_free_pages_count' = pmm_free_pages_count + Cardinality(pages)
      /\ owner' = [p \in Page |-> IF p \in pages THEN FREE ELSE owner[p]]
  BY DEF pmm_free_pages
<1>2. pages \subseteq Page /\ \A p \in pages : owner[p] = "client"
  BY <1>1, TestBitIsOwned DEF Released, BitmapIsOwnership
<1> HIDE DEF pages
<1>3. IsFiniteSet(pages)
  BY <1>2, PagesAreFinite
<1>4. owner' \in [Page -> Owner \cup {FREE}]
  BY <1>1 DEF PagesTypeOK
<1>5. pmm_bitmap' \in [Word -> SUBSET Bit]
  BY <1>1 DEF PagesTypeOK, ClearBits
<1>6. BitsAreOwnership'
  <2> SUFFICES ASSUME NEW w \in Word, NEW b \in Bit
               PROVE  b \in pmm_bitmap'[w]
                        <=> (w * BITS + b >= total_pages \/ owner'[w * BITS + b] # FREE)
    BY DEF BitsAreOwnership
  <2>1. b \in pmm_bitmap'[w] <=> (b \in pmm_bitmap[w] /\ w * BITS + b \notin pages)
    BY <1>1 DEF ClearBits
  <2>2. b \in pmm_bitmap[w]
          <=> (w * BITS + b >= total_pages \/ owner[w * BITS + b] # FREE)
    BY DEF BitmapIsOwnership, BitsAreOwnership
  <2>3. w * BITS + b \in Page <=> ~(w * BITS + b >= total_pages)
    BY PlaceIsNatural, PagesAssumption DEF Page
  <2> QED
    BY <1>1, <1>2, <2>1, <2>2, <2>3
<1>7. FreeOnes' = FreeOnes \cup pages /\ FreeOnes \cap pages = {}
  BY <1>1, <1>2 DEF FreeOnes, FREE
<1>8. CountIsExact' /\ pmm_free_pages_count' \in 0..total_pages
  <2>1. IsFiniteSet(FreeOnes) /\ FreeOnes' \subseteq Page
    BY <1>2, <1>7, PagesAreFinite DEF FreeOnes
  <2>2. Cardinality(FreeOnes') = Cardinality(FreeOnes) + Cardinality(pages) - 0
    BY <2>1, <1>3, <1>7, FS_Union, FS_EmptySet
  <2>3. pmm_free_pages_count = Cardinality(FreeOnes)
    BY DEF BitmapIsOwnership, CountIsExact, FreeOnes
  <2>4. Cardinality(FreeOnes) \in Int /\ Cardinality(pages) \in Int
    BY <2>1, <1>3, FS_CardinalityType
  <2>5. pmm_free_pages_count' = Cardinality(FreeOnes')
    BY <1>1, <2>2, <2>3, <2>4
  <2>6. Cardinality(FreeOnes') \in 0..total_pages
    BY <2>1, PagesAreFinite
  <2> QED
    BY <2>5, <2>6 DEF CountIsExact, FreeOnes
<1>9. Frames!TakeBack("client")
  BY <1>1, <1>2, <1>4 DEF Frames!TakeBack, Frames!Page, Page
<1> QED
  BY <1>4, <1>5, <1>6, <1>8, <1>9 DEF PagesTypeOK, BitmapIsOwnership
------------------------------------------------------------------------------
\* The invariant.

IInv == TablesTypeOK /\ BitmapIsOwnership /\ TablesAreOwned

LEMMA InitHolds ==
  ASSUME Init
  PROVE  IInv
<1>1. pmm_init /\ page_dir = [d \in Dir |-> NONE]
      /\ memory = [p \in Page |-> [i \in Index |-> JUNK]]
  BY DEF Init
<1>2. PagesTypeOK
  BY <1>1, PagesAssumption DEF pmm_init, PagesTypeOK, Padding
<1>3. BitsAreOwnership
  <2> SUFFICES ASSUME NEW w \in Word, NEW b \in Bit
               PROVE  b \in pmm_bitmap[w]
                        <=> (w * BITS + b >= total_pages \/ owner[w * BITS + b] # FREE)
    BY DEF BitsAreOwnership
  <2>1. b \in pmm_bitmap[w] <=> w * BITS + b >= total_pages
    BY <1>1 DEF pmm_init, Padding
  <2>2. ~(w * BITS + b >= total_pages) => w * BITS + b \in Page
    BY PlaceIsNatural, PagesAssumption DEF Page
  <2> QED
    BY <1>1, <2>1, <2>2 DEF pmm_init
<1>4. CountIsExact
  <2>1. {p \in Page : owner[p] = FREE} = Page
    BY <1>1 DEF pmm_init
  <2>2. Cardinality(Page) = total_pages
    BY FS_Interval, PagesAssumption DEF Page
  <2> QED
    BY <1>1, <2>1, <2>2 DEF pmm_init, CountIsExact
<1>5. page_dir \in [Dir -> Page \cup {NONE}]
      /\ memory \in [Page -> [Index -> Frame \cup {NONE, JUNK}]]
  BY <1>1
<1>6. TablesAreOwned
  BY <1>1 DEF TablesAreOwned
<1> QED
  BY <1>2, <1>3, <1>4, <1>5, <1>6 DEF IInv, TablesTypeOK, BitmapIsOwnership

\* A page that holds a table is not given to anybody else.
TablesKept == \A p \in Page : owner[p] = "table" => owner'[p] = "table"

LEMMA AllocKeepsTables ==
  ASSUME IInv, NEW p \in Page, NEW n \in Nat, NEW who \in Owner,
         Frames!Give(p, n, who)
  PROVE  TablesKept
BY DEF TablesKept, Frames!Give, Frames!IsFreeRun, Frames!Page, Page, FREE

LEMMA FreeKeepsTables ==
  ASSUME Frames!TakeBack("client")
  PROVE  TablesKept
BY DEF TablesKept, Frames!TakeBack, Frames!Page, Page

LEMMA TablesStayOwned ==
  ASSUME IInv, TablesKept, page_dir' = page_dir
  PROVE  TablesAreOwned'
<1>1. \A d \in Dir : page_dir[d] # NONE => page_dir[d] \in Page
  BY DEF IInv, TablesTypeOK
<1> QED
  BY <1>1 DEF IInv, TablesAreOwned, TablesKept

LEMMA AllocOnePage ==
  ASSUME IInv, NEW who \in Owner, pmm_alloc_page(who)
  PROVE  \/ /\ FirstFreePage(pmm_bitmap) = NONE
            /\ UNCHANGED pmmVars
         \/ /\ FirstFreePage(pmm_bitmap) \in Page
            /\ owner[FirstFreePage(pmm_bitmap)] = FREE
            /\ PagesTypeOK' /\ BitmapIsOwnership'
            /\ Frames!Give(FirstFreePage(pmm_bitmap), 1, who)
<1> DEFINE p == FirstFreePage(pmm_bitmap)
<1>1. PagesTypeOK /\ BitsAreOwnership /\ BitmapIsOwnership
  BY DEF IInv, TablesTypeOK, BitmapIsOwnership
<1>2. CASE p = NONE
  BY <1>2 DEF pmm_alloc_page
<1>3. CASE p # NONE
  <2>1. p \in Page /\ owner[p] = FREE
    BY <1>1, <1>3, FoundPageIsFree
  <2>2. Take(p, 1, who)
    BY <1>3 DEF pmm_alloc_page
  <2> HIDE DEF p
  <2>3. p + 1 <= total_pages /\ \A q \in p..(p + 1 - 1) : q \in Page /\ owner[q] = FREE
    BY <2>1, PagesAssumption DEF Page
  <2>4. PagesTypeOK' /\ BitmapIsOwnership' /\ Frames!Give(p, 1, who)
    BY <1>1, <2>1, <2>2, <2>3, TakeIsGive
  <2> QED
    BY <2>1, <2>4 DEF p
<1> QED
  BY <1>2, <1>3

LEMMA AllocRun ==
  ASSUME IInv, NEW n \in Nat, NEW who \in Owner, pmm_alloc_pages(n, who)
  PROVE  \/ UNCHANGED pmmVars
         \/ /\ PagesTypeOK' /\ BitmapIsOwnership'
            /\ \E p \in Page : /\ n > 0 /\ p + n <= total_pages
                               /\ Frames!Give(p, n, who)
<1> DEFINE runs == Runs(pmm_bitmap, n)
           p == Least(runs)
<1>1. PagesTypeOK /\ BitsAreOwnership /\ BitmapIsOwnership
  BY DEF IInv, TablesTypeOK, BitmapIsOwnership
<1>2. CASE runs = {}
  BY <1>2 DEF pmm_alloc_pages
<1>3. CASE runs # {}
  <2>1. /\ n > 0 /\ p \in Page /\ p + n <= total_pages
        /\ \A q \in p..(p + n - 1) : q \in Page /\ owner[q] = FREE
    BY <1>1, <1>3, FoundRunIsFree
  <2>2. Take(p, n, who)
    BY <1>3 DEF pmm_alloc_pages
  <2> HIDE DEF p
  <2>3. PagesTypeOK' /\ BitmapIsOwnership' /\ Frames!Give(p, n, who)
    BY <1>1, <2>1, <2>2, TakeIsGive
  <2> QED
    BY <2>1, <2>3
<1> QED
  BY <1>2, <1>3

LEMMA ClientStep ==
  ASSUME IInv, pmmNext
  PROVE  /\ PagesTypeOK' /\ BitmapIsOwnership' /\ TablesKept
         /\ Frames!StoreNext \/ UNCHANGED owner
<1> USE DEF IInv, TablesTypeOK
<1>0. ASSUME UNCHANGED pmmVars
      PROVE  PagesTypeOK' /\ BitmapIsOwnership' /\ TablesKept /\ UNCHANGED owner
  BY <1>0 DEF pmmVars, PagesTypeOK, BitmapIsOwnership, BitsAreOwnership, CountIsExact,
              TablesKept
<1>1. "client" \in Owner
  BY DEF Owner
<1>2. ASSUME NEW p \in Page, NEW n \in Nat, n > 0, p + n <= total_pages,
             Frames!Give(p, n, "client")
      PROVE  TablesKept /\ Frames!StoreNext
  <2>1. TablesKept
    BY <1>1, <1>2, AllocKeepsTables
  <2>2. n \in 1..total_pages
    BY <1>2, PagesAssumption DEF Page
  <2> QED
    BY <1>1, <1>2, <2>1, <2>2 DEF Frames!StoreNext, Frames!Page, Page
<1>3. CASE pmm_alloc_page("client")
  <2>1. CASE UNCHANGED pmmVars
    BY <2>1, <1>0
  <2>2. CASE /\ FirstFreePage(pmm_bitmap) \in Page
             /\ PagesTypeOK' /\ BitmapIsOwnership'
             /\ Frames!Give(FirstFreePage(pmm_bitmap), 1, "client")
    <3> DEFINE p == FirstFreePage(pmm_bitmap)
    <3>1. p \in Page /\ p + 1 <= total_pages /\ Frames!Give(p, 1, "client")
      BY <2>2, PagesAssumption DEF Page
    <3> HIDE DEF p
    <3>2. TablesKept /\ Frames!StoreNext
      BY <1>2, <3>1
    <3> QED
      BY <2>2, <3>2
  <2> QED
    BY <1>1, <1>3, <2>1, <2>2, AllocOnePage
<1>4. CASE \E n \in 0..MaxCount : pmm_alloc_pages(n, "client")
  <2>1. PICK n \in 0..MaxCount : pmm_alloc_pages(n, "client")
    BY <1>4
  <2>2. n \in Nat
    OBVIOUS
  <2>3. CASE UNCHANGED pmmVars
    BY <2>3, <1>0
  <2>4. CASE /\ PagesTypeOK' /\ BitmapIsOwnership'
             /\ \E p \in Page : /\ n > 0 /\ p + n <= total_pages
                                /\ Frames!Give(p, n, "client")
    BY <2>4, <2>2, <1>2
  <2> QED
    BY <1>1, <2>1, <2>2, <2>3, <2>4, AllocRun
<1>5. CASE \E first \in 0..total_pages, n \in 0..MaxCount : pmm_free_pages(first, n)
  <2>1. PICK first \in 0..total_pages, n \in 0..MaxCount : pmm_free_pages(first, n)
    BY <1>5
  <2>2. first \in Nat /\ n \in Nat
    OBVIOUS
  <2>3. PagesTypeOK' /\ BitmapIsOwnership' /\ Frames!TakeBack("client")
    BY <2>1, <2>2, FreeIsTakeBack
  <2>4. TablesKept
    BY <2>3, FreeKeepsTables
  <2>5. Frames!StoreNext
    BY <1>1, <2>3 DEF Frames!StoreNext
  <2> QED
    BY <2>3, <2>4, <2>5
<1> QED
  BY <1>3, <1>4, <1>5 DEF pmmNext
------------------------------------------------------------------------------
\* The calls of the page tables.

Translation == [v \in Virt |-> vmm_get_phys(page_dir, memory, v)]

LEMMA TablePage ==
  ASSUME IInv, NEW d \in Dir, page_dir[d] # NONE
  PROVE  /\ page_dir[d] \in Page /\ owner[page_dir[d]] = "table"
         /\ \A e \in Dir : page_dir[e] = page_dir[d] => e = d
BY DEF IInv, TablesTypeOK, TablesAreOwned

\* One entry of a table that is there.
LEMMA WriteEntry ==
  ASSUME IInv, NEW v \in Virt, NEW frame \in Frame \cup {NONE},
         page_dir[v[1]] # NONE, UNCHANGED <<page_dir, pmmVars>>,
         memory' = [memory EXCEPT ![page_dir[v[1]]][v[2]] = frame]
  PROVE  IInv' /\ Translation' = [Translation EXCEPT ![v] = frame]
<1>1. v[1] \in Dir /\ v[2] \in Index /\ v = <<v[1], v[2]>>
  BY DEF Virt
<1>2. /\ page_dir[v[1]] \in Page
      /\ \A e \in Dir : page_dir[e] = page_dir[v[1]] => e = v[1]
  BY <1>1, TablePage
<1>3. memory \in [Page -> [Index -> Frame \cup {NONE, JUNK}]]
      /\ page_dir \in [Dir -> Page \cup {NONE}]
  BY DEF IInv, TablesTypeOK
<1>4. memory' \in [Page -> [Index -> Frame \cup {NONE, JUNK}]]
  BY <1>1, <1>2, <1>3
<1>5. IInv'
  BY <1>3, <1>4 DEF IInv, TablesTypeOK, PagesTypeOK, BitmapIsOwnership, BitsAreOwnership,
                    CountIsExact, TablesAreOwned, pmmVars
<1>6. ASSUME NEW u \in Virt
      PROVE  vmm_get_phys(page_dir, memory', u)
               = IF u = v THEN frame ELSE vmm_get_phys(page_dir, memory, u)
  <2>1. u[1] \in Dir /\ u[2] \in Index /\ u = <<u[1], u[2]>>
    BY DEF Virt
  <2>2. CASE u[1] = v[1]
    BY <2>1, <2>2, <1>1, <1>2, <1>3 DEF vmm_get_phys
  <2>3. CASE u[1] # v[1]
    BY <2>1, <2>3, <1>1, <1>2, <1>3 DEF vmm_get_phys
  <2> QED
    BY <2>2, <2>3
<1> QED
  BY <1>5, <1>6 DEF Translation

\* The first entry of a new table.
LEMMA NewTable ==
  ASSUME IInv, NEW v \in Virt, NEW frame \in Frame, NEW new \in Page,
         page_dir[v[1]] = NONE, owner[new] = FREE,
         PagesTypeOK', BitmapIsOwnership', Frames!Give(new, 1, "table"),
         page_dir' = [page_dir EXCEPT ![v[1]] = new],
         memory' = [memory EXCEPT ![new] = [CleanTable(new) EXCEPT ![v[2]] = frame]]
  PROVE  IInv' /\ Translation' = [Translation EXCEPT ![v] = frame]
<1>1. v[1] \in Dir /\ v[2] \in Index /\ v = <<v[1], v[2]>>
  BY DEF Virt
<1>2. memory \in [Page -> [Index -> Frame \cup {NONE, JUNK}]]
      /\ page_dir \in [Dir -> Page \cup {NONE}]
  BY DEF IInv, TablesTypeOK
<1>3. memory' \in [Page -> [Index -> Frame \cup {NONE, JUNK}]]
      /\ page_dir' \in [Dir -> Page \cup {NONE}]
  BY <1>1, <1>2 DEF CleanTable
<1>4. new # NONE
  BY PagesAssumption DEF Page
<1>5. \A e \in Dir : page_dir[e] # NONE => page_dir[e] # new
  BY TablePage DEF FREE
<1>6. owner' = [p \in Page |-> IF p = new THEN "table" ELSE owner[p]]
  <2>1. new \in Int /\ new..(new + 1 - 1) = {new}
    BY DEF Page
  <2> QED
    BY <2>1 DEF Frames!Give, Frames!Page, Page
<1>7. TablesAreOwned'
  <2>1. \A e \in Dir : page_dir'[e] = IF e = v[1] THEN new ELSE page_dir[e]
    BY <1>1, <1>2
  <2>2. ASSUME NEW e \in Dir, page_dir'[e] # NONE PROVE owner'[page_dir'[e]] = "table"
    BY <2>1, <2>2, <1>2, <1>6, TablePage
  <2>3. ASSUME NEW d \in Dir, NEW e \in Dir, d # e, page_dir'[d] # NONE
        PROVE  page_dir'[d] # page_dir'[e]
    BY <2>1, <2>3, <1>5, TablePage
  <2> QED
    BY <2>2, <2>3 DEF TablesAreOwned
<1>8. ASSUME NEW u \in Virt
      PROVE  vmm_get_phys(page_dir', memory', u)
               = IF u = v THEN frame ELSE vmm_get_phys(page_dir, memory, u)
  <2>1. u[1] \in Dir /\ u[2] \in Index /\ u = <<u[1], u[2]>>
    BY DEF Virt
  <2>2. CASE u[1] = v[1]
    <3>1. page_dir'[u[1]] = new /\ memory'[new] = [CleanTable(new) EXCEPT ![v[2]] = frame]
      BY <2>2, <1>1, <1>2
    <3>2. memory'[new][u[2]] = IF u[2] = v[2] THEN frame ELSE NONE
      BY <3>1, <2>1, <1>1 DEF CleanTable
    <3>3. u = v <=> u[2] = v[2]
      BY <2>1, <2>2, <1>1
    <3>4. vmm_get_phys(page_dir, memory, u) = NONE
      BY <2>2 DEF vmm_get_phys
    <3> QED
      BY <3>1, <3>2, <3>3, <3>4, <1>4 DEF vmm_get_phys
  <2>3. CASE u[1] # v[1]
    BY <2>1, <2>3, <1>1, <1>2, <1>5 DEF vmm_get_phys
  <2> QED
    BY <2>2, <2>3
<1>9. Translation' = [Translation EXCEPT ![v] = frame]
  BY <1>8 DEF Translation
<1> QED
  BY <1>3, <1>7, <1>9 DEF IInv, TablesTypeOK

\* Other pages may change as they like.
LEMMA TablesUntouched ==
  ASSUME IInv, page_dir' = page_dir,
         \A p \in Page : owner[p] = "table" => memory'[p] = memory[p]
  PROVE  Translation' = Translation
<1>1. ASSUME NEW u \in Virt
      PROVE  vmm_get_phys(page_dir, memory', u) = vmm_get_phys(page_dir, memory, u)
  <2>1. u[1] \in Dir
    BY DEF Virt
  <2> QED
    BY <2>1, TablePage DEF vmm_get_phys
<1> QED
  BY <1>1 DEF Translation

LEMMA StutterIsHarmless ==
  ASSUME IInv, UNCHANGED <<tableVars, pmmVars>>
  PROVE  IInv' /\ Translation' = Translation
BY DEF IInv, TablesTypeOK, PagesTypeOK, BitmapIsOwnership, BitsAreOwnership, CountIsExact,
       TablesAreOwned, pmmVars, tableVars, Translation

StoreStep == Frames!StoreNext \/ UNCHANGED owner
\* vmm_map: the entry, or silence when there is no page for its table.
Entered(v, frame) ==
  \/ Translation' = [Translation EXCEPT ![v] = frame]
  \/ /\ ~\E p \in Page : owner[p] = FREE
     /\ Translation[v] = NONE
     /\ Translation' = Translation

LEMMA MapStep ==
  ASSUME IInv, NEW v \in Virt, NEW frame \in Frame, vmm_map(v, frame)
  PROVE  IInv' /\ StoreStep /\ Entered(v, frame)
<1> DEFINE new == FirstFreePage(pmm_bitmap)
<1>1. CASE /\ page_dir[v[1]] # NONE
           /\ memory' = [memory EXCEPT ![page_dir[v[1]]][v[2]] = frame]
           /\ UNCHANGED <<page_dir, pmmVars>>
  <2>1. IInv' /\ Translation' = [Translation EXCEPT ![v] = frame]
    BY <1>1, WriteEntry
  <2>2. UNCHANGED owner
    BY <1>1 DEF pmmVars
  <2> QED
    BY <2>1, <2>2 DEF StoreStep, Entered
<1>2. CASE /\ page_dir[v[1]] = NONE /\ new # NONE
           /\ pmm_alloc_page("table")
           /\ page_dir' = [page_dir EXCEPT ![v[1]] = new]
           /\ memory' = [memory EXCEPT ![new] = [CleanTable(new) EXCEPT ![v[2]] = frame]]
  <2>1. "table" \in Owner
    BY DEF Owner
  <2>2. /\ new \in Page /\ owner[new] = FREE
        /\ PagesTypeOK' /\ BitmapIsOwnership' /\ Frames!Give(new, 1, "table")
    BY <1>2, <2>1, AllocOnePage
  <2>3. new + 1 <= total_pages /\ 1 \in 1..total_pages
    BY <2>2, PagesAssumption DEF Page
  <2> HIDE DEF new
  <2>4. IInv' /\ Translation' = [Translation EXCEPT ![v] = frame]
    BY <1>2, <2>2, NewTable
  <2>5. Frames!StoreNext
    BY <2>1, <2>2, <2>3 DEF Frames!StoreNext, Frames!Page, Page
  <2> QED
    BY <2>4, <2>5 DEF StoreStep, Entered
<1>3. CASE page_dir[v[1]] = NONE /\ new = NONE /\ UNCHANGED <<tableVars, pmmVars>>
  <2>1. IInv' /\ Translation' = Translation /\ UNCHANGED owner
    BY <1>3, StutterIsHarmless DEF pmmVars
  <2>2. \A p \in Page : owner[p] # FREE
    BY <1>3, FoundPageIsFree DEF IInv, TablesTypeOK, BitmapIsOwnership
  <2>3. Translation[v] = NONE
    BY <1>3 DEF Translation, vmm_get_phys
  <2> QED
    BY <2>1, <2>2, <2>3 DEF StoreStep, Entered
<1> QED
  BY <1>1, <1>2, <1>3 DEF vmm_map

LEMMA UnmapStep ==
  ASSUME IInv, NEW v \in Virt, vmm_unmap(v)
  PROVE  IInv' /\ StoreStep /\ Translation' = [Translation EXCEPT ![v] = NONE]
<1>1. CASE page_dir[v[1]] # NONE
  <2>1. /\ memory' = [memory EXCEPT ![page_dir[v[1]]][v[2]] = NONE]
        /\ UNCHANGED <<page_dir, pmmVars>>
    BY <1>1 DEF vmm_unmap
  <2>2. IInv' /\ Translation' = [Translation EXCEPT ![v] = NONE]
    BY <1>1, <2>1, WriteEntry
  <2> QED
    BY <2>1, <2>2 DEF StoreStep, pmmVars
<1>2. CASE page_dir[v[1]] = NONE
  <2>1. UNCHANGED <<tableVars, pmmVars>>
    BY <1>2 DEF vmm_unmap, tableVars
  <2>2. IInv' /\ Translation' = Translation /\ UNCHANGED owner
    BY <2>1, StutterIsHarmless DEF pmmVars
  <2>3. [Translation EXCEPT ![v] = NONE] = Translation
    BY <1>2 DEF Translation, vmm_get_phys
  <2> QED
    BY <2>2, <2>3 DEF StoreStep
<1> QED
  BY <1>1, <1>2

LEMMA ScribbleStep ==
  ASSUME IInv, NEW p \in Page, Scribble(p)
  PROVE  IInv' /\ StoreStep /\ Translation' = Translation
<1>1. /\ owner[p] = "client" /\ UNCHANGED <<page_dir, pmmVars>>
      /\ memory' = [memory EXCEPT ![p] = [i \in Index |-> JUNK]]
  BY DEF Scribble
<1>2. IInv'
  BY <1>1 DEF IInv, TablesTypeOK, PagesTypeOK, BitmapIsOwnership, BitsAreOwnership,
              CountIsExact, TablesAreOwned, pmmVars
<1>3. \A q \in Page : owner[q] = "table" => memory'[q] = memory[q]
  BY <1>1 DEF IInv, TablesTypeOK
<1>4. Translation' = Translation
  BY <1>1, <1>3, TablesUntouched
<1> QED
  BY <1>1, <1>2, <1>4 DEF StoreStep, pmmVars

LEMMA AllocatorStep ==
  ASSUME IInv, pmmNext, UNCHANGED tableVars
  PROVE  IInv' /\ StoreStep /\ Translation' = Translation
<1>1. page_dir' = page_dir /\ memory' = memory
  BY DEF tableVars
<1>2. /\ PagesTypeOK' /\ BitmapIsOwnership' /\ TablesKept
      /\ Frames!StoreNext \/ UNCHANGED owner
  BY ClientStep
<1>3. IInv'
  <2>1. TablesAreOwned'
    BY <1>1, <1>2, TablesStayOwned
  <2> QED
    BY <1>1, <1>2, <2>1 DEF IInv, TablesTypeOK
<1>4. Translation' = Translation
  BY <1>1 DEF Translation
<1> QED
  BY <1>2, <1>3, <1>4 DEF StoreStep

LEMMA StepHolds ==
  ASSUME IInv, [Next]_vars
  PROVE  IInv' /\ StoreStep /\ (Space!SpaceNext \/ UNCHANGED <<Translation, call>>)
<1>1. CASE pmmNext /\ UNCHANGED tableVars /\ Called(<<>>)
  BY <1>1, AllocatorStep DEF Called, Space!SpaceNext, Space!SomethingElse, Translation
<1>2. ASSUME NEW v \in Virt, vmm_unmap(v), Called(<<"unmap", v>>)
      PROVE  IInv' /\ StoreStep /\ Space!SpaceNext
  <2>1. IInv' /\ StoreStep /\ Translation' = [Translation EXCEPT ![v] = NONE]
    BY <1>2, UnmapStep
  <2>2. Space!Unmap(v)
    BY <1>2, <2>1 DEF Called, Space!Unmap, Translation
  <2> QED
    BY <2>1, <2>2 DEF Space!SpaceNext
<1>3. ASSUME NEW v \in Virt, NEW frame \in Frame, vmm_map(v, frame),
             Called(<<"map", v, frame>>)
      PROVE  IInv' /\ StoreStep /\ Space!SpaceNext
  <2>1. IInv' /\ StoreStep /\ Entered(v, frame)
    BY <1>3, MapStep
  <2>2. Space!Map(v, frame)
    BY <1>3, <2>1 DEF Called, Entered, Space!Map, Translation
  <2> QED
    BY <2>1, <2>2 DEF Space!SpaceNext
<1>4. ASSUME NEW p \in Page, Scribble(p), Called(<<>>)
      PROVE  IInv' /\ StoreStep /\ Space!SpaceNext
  BY <1>4, ScribbleStep DEF Called, Space!SpaceNext, Space!SomethingElse, Translation
<1>5. CASE UNCHANGED vars
  BY <1>5, StutterIsHarmless DEF StoreStep, vars, pmmVars
<1> QED
  BY <1>1, <1>2, <1>3, <1>4, <1>5 DEF Next

\* The history variable only ever names calls.
CallOK ==
  \/ call = <<>>
  \/ \E v \in Virt : call = <<"unmap", v>> \/ \E frame \in Frame : call = <<"map", v, frame>>

LEMMA CallStep == CallOK /\ [Next]_vars => CallOK'
BY DEF CallOK, Next, Called, vars

------------------------------------------------------------------------------
\* The results.

LEMMA InvariantHolds == Spec => []IInv
<1>1. Init => IInv
  BY InitHolds
<1>2. IInv /\ [Next]_vars => IInv'
  BY StepHolds
<1> QED
  BY <1>1, <1>2, PTL DEF Spec

\* The words of the bitmap, the counter, the directory and the tables keep
\* their types: no call of pmm.c or vmm.c makes the counter of free pages
\* negative or larger than the memory, or enters a table that is no page.
THEOREM TypeCorrect == Spec => []TypeOK
<1>1. Init => CallOK
  BY DEF Init, CallOK
<1>2. IInv /\ CallOK => TypeOK
  BY DEF IInv, CallOK, TypeOK
<1> QED
  BY <1>1, <1>2, InvariantHolds, CallStep, PTL DEF Spec

\* pmm.c: whatever clients allocate and free, twice or with addresses that are
\* no memory, the bits and the counter agree with who owns the pages.
THEOREM BitmapCorrect == Spec => []BitmapIsOwnership
BY InvariantHolds, PTL DEF IInv

\* vmm.c: a table is on a page of its own, that the allocator keeps for it.
THEOREM TablesCorrect == Spec => []TablesAreOwned
BY InvariantHolds, PTL DEF IInv

\* pmm_alloc_page and pmm_alloc_pages report out of memory only when there is
\* no free page, or no run of n free pages.
THEOREM RefusalCorrect == Spec => []RefusesOnlyWhenFull
<1>1. IInv => RefusesOnlyWhenFull
  <2> SUFFICES ASSUME IInv PROVE RefusesOnlyWhenFull
    OBVIOUS
  <2>1. PagesTypeOK /\ BitsAreOwnership
    BY DEF IInv, TablesTypeOK, BitmapIsOwnership
  <2>2. FirstFreePage(pmm_bitmap) = NONE => \A p \in Page : owner[p] # FREE
    BY <2>1, FoundPageIsFree
  <2>3. ASSUME NEW n \in 1..MaxCount, NEW p \in Page, Frames!IsFreeRun(p, n)
        PROVE  Runs(pmm_bitmap, n) # {}
    <3>1. n \in Nat /\ n > 0 /\ p \in Nat
      BY DEF Page
    <3>2. \A q \in p..(p + n - 1) : q \in Page /\ owner[q] = FREE
      BY <2>3 DEF Frames!IsFreeRun, Frames!Page, Page
    <3>3. p + n <= total_pages
      <4>1. p + n - 1 \in p..(p + n - 1)
        BY <3>1
      <4> QED
        BY <3>1, <3>2, <4>1, PagesAssumption DEF Page
    <3>4. p \in Runs(pmm_bitmap, n)
      BY <2>1, <3>1, <3>2, <3>3, RunMeansFree
    <3> QED
      BY <3>4
  <2> QED
    BY <2>2, <2>3 DEF RefusesOnlyWhenFull
<1> QED
  BY <1>1, InvariantHolds, PTL

\* The bitmap of pmm.c implements the store of frames: no page is handed out
\* that somebody holds.
THEOREM AllocatorRefines == Spec => NoPageTwice
<1>1. Init => Frames!StoreInit
  BY DEF Init, pmm_init, Frames!StoreInit, Frames!Page, Page
<1>2. IInv /\ [Next]_vars => [Frames!StoreNext]_owner
  BY StepHolds DEF StoreStep
<1> QED
  BY <1>1, <1>2, InvariantHolds, PTL DEF Spec, NoPageTwice, Frames!StoreSpec

\* The two levels of tables of vmm.c implement one map of virtual pages to
\* frames: vmm_map and vmm_unmap change the entry of the page they are given, to
\* the frame they are given, no other call and no client changes any entry, and
\* vmm_map comes to nothing only where nothing was mapped and no page is free.
THEOREM TablesRefine == Spec => OneTranslationAtATime
<1>1. Init => Space!SpaceInit
  BY DEF Init, Space!SpaceInit, vmm_get_phys, Virt
<1>2. IInv /\ [Next]_vars => [Space!SpaceNext]_<<Translation, call>>
  BY StepHolds
<1> QED
  BY <1>1, <1>2, InvariantHolds, PTL
     DEF Spec, OneTranslationAtATime, Space!SpaceSpec, Translation
==============================================================================
