-------------------------------- MODULE Heap ---------------------------------
(***************************************************************************)
(* The kernel heap, kernel/mm/heap.c: first fit over a free list, with a   *)
(* header in front of each block and a footer behind it (boundary tags)    *)
(* from which kfree finds both neighbours.                                 *)
(*                                                                         *)
(* Addresses are offsets from heap_start.  hdr and ftr hold the tags the   *)
(* allocator has written and not yet merged away: reading a tag anywhere   *)
(* else, which in the code would be reading the client's data or a stale   *)
(* tag, is an error of the model.  The doubly linked free list is the      *)
(* sequence of the headers on it.  The kernel calls the heap from its one  *)
(* thread and never from an interrupt handler, so a call is one action.    *)
(***************************************************************************)
EXTENDS Integers, SequencesExt

CONSTANTS
  HDR_SIZE, FTR_SIZE,   \* 20 and 8 bytes in the source
  ALIGN, MIN_DATA,      \* 8, and the 16 of MIN_BLOCK
  HEAP_SIZE,            \* initial_size of heap_init
  WORD,                 \* 2^32: sizes are uint32_t
  Requests,             \* sizes that clients ask for
  NULL

MIN_BLOCK == HDR_SIZE + MIN_DATA + FTR_SIZE

ASSUME HeapAssumption ==
  /\ HDR_SIZE \in Nat \ {0} /\ FTR_SIZE \in Nat \ {0} /\ ALIGN \in Nat \ {0}
  /\ MIN_DATA \in Nat \ {0}
  /\ HEAP_SIZE \in Nat /\ HEAP_SIZE >= HDR_SIZE + FTR_SIZE
  /\ WORD \in Nat /\ HEAP_SIZE + MIN_BLOCK < WORD /\ WORD % ALIGN = 0
  /\ Requests \subseteq 0..(WORD - 1)
  /\ NULL \notin Int

VARIABLES
  heap,     \* [hdr, ftr, list]: all tags and the free list
  held,     \* what clients hold: pointer -> the size they asked for
  answer    \* the latest request and the pointer returned

vars == <<heap, held, answer>>

------------------------------------------------------------------------------
\* Reading and writing tags.

Tag(size, free) == [size |-> size, free |-> free]

get_footer(b, size) == b + HDR_SIZE + size

next_block(h, b) == get_footer(b, h.hdr[b].size) + FTR_SIZE

\* NULL for the first block; else found from the footer in front of b.
prev_block(h, b) ==
  IF b - FTR_SIZE < 0 THEN NULL
  ELSE b - FTR_SIZE - h.ftr[b - FTR_SIZE].size - HDR_SIZE

Set(f, x, y) == [z \in DOMAIN f \cup {x} |-> IF z = x THEN y ELSE f[z]]
Without(f, x) == [z \in DOMAIN f \ {x} |-> f[z]]

\* Header and footer of the block at b.
WriteTags(h, b, size, free) ==
  [h EXCEPT !.hdr = Set(@, b, Tag(size, free)),
            !.ftr = Set(@, get_footer(b, size), Tag(size, free))]

\* b is unlinked from where it is on the list.
fl_remove(h, b) ==
  LET i == CHOOSE j \in DOMAIN h.list : h.list[j] = b
  IN  [h EXCEPT !.list = RemoveAt(@, i)]

fl_add(h, b) == [h EXCEPT !.list = <<b>> \o @]

------------------------------------------------------------------------------
\* kmalloc

\* Mutant: rounds down.
AlignedDown(n) == (n \div ALIGN) * ALIGN

Aligned(n) == (((n + ALIGN - 1) % WORD) \div ALIGN) * ALIGN

\* Mutant: an exact fit does not count.
FitsStrict(h, need) ==
  {i \in DOMAIN h.list : h.hdr[h.list[i]].free /\ h.hdr[h.list[i]].size > need}

Fits(h, need) ==
  {i \in DOMAIN h.list : h.hdr[h.list[i]].free /\ h.hdr[h.list[i]].size >= need}

\* find_free: the first block on the list that fits.
find_free(h, need) ==
  IF Fits(h, need) = {} THEN NULL
  ELSE h.list[CHOOSE i \in Fits(h, need) : \A j \in Fits(h, need) : i <= j]

\* Mutant: the footer of the new block is not paid for.
SplitForgetsFooter(h, b, need) ==
  LET old == h.hdr[b].size
      rest == get_footer(b, need) + FTR_SIZE
      h1 == WriteTags(h, b, need, FALSE)
      h2 == WriteTags(h1, rest, old - need - HDR_SIZE, TRUE)
  IN  fl_add(h2, rest)

\* The tail of b beyond need becomes a free block of its own.
Split(h, b, need) ==
  LET old == h.hdr[b].size
      rest == get_footer(b, need) + FTR_SIZE
      h1 == WriteTags(h, b, need, FALSE)
      h2 == WriteTags(h1, rest, old - need - HDR_SIZE - FTR_SIZE, TRUE)
  IN  fl_add(h2, rest)

\* Mutant: splits without room for the new block's tags.
TakeBlockEager(h, b, need) ==
  LET h1 == fl_remove(h, b)
  IN  IF h.hdr[b].size >= need + MIN_DATA
      THEN Split(h1, b, need)
      ELSE WriteTags(h1, b, h.hdr[b].size, FALSE)

TakeBlock(h, b, need) ==
  LET h1 == fl_remove(h, b)
  IN  IF h.hdr[b].size >= need + MIN_BLOCK
      THEN Split(h1, b, need)
      ELSE WriteTags(h1, b, h.hdr[b].size, FALSE)

\* The header of the block that kmalloc(n) takes, or NULL.
Found(h, n) == IF n = 0 THEN NULL ELSE find_free(h, Aligned(n))

------------------------------------------------------------------------------
\* kfree

\* Block c, right behind b, is merged into b: b's header grows, c's footer is
\* rewritten, and the two tags between them are data from now on.
Absorb(h, b, c) ==
  LET size == h.hdr[b].size + HDR_SIZE + FTR_SIZE + h.hdr[c].size
      inner == get_footer(b, h.hdr[b].size)
  IN  WriteTags([h EXCEPT !.hdr = Without(@, c), !.ftr = Without(@, inner)],
                b, size, TRUE)

\* Mutant: the merged block stays on the list.
CoalesceNextKeepsListed(h, b) ==
  LET c == next_block(h, b)
  IN  IF c < HEAP_SIZE /\ h.hdr[c].free
      THEN Absorb(h, b, c)
      ELSE h

CoalesceNext(h, b) ==
  LET c == next_block(h, b)
  IN  IF c < HEAP_SIZE /\ h.hdr[c].free
      THEN Absorb(fl_remove(h, c), b, c)
      ELSE h

\* The last step of kfree puts on the list whichever block b is now part of.
CoalescePrev(h, b) ==
  LET p == prev_block(h, b)
  IN  IF p # NULL /\ h.hdr[p].free
      THEN fl_add(Absorb(fl_remove(h, p), p, b), p)
      ELSE fl_add(h, b)

FreeBlock(h, b) ==
  LET h1 == WriteTags(h, b, h.hdr[b].size, TRUE)
  IN  CoalescePrev(CoalesceNext(h1, b), b)

------------------------------------------------------------------------------
\* Calls.  Clients pass NULL or a pointer they hold; ptr - HDR_SIZE is its block.

Kmalloc(n) ==
  LET b == Found(heap, n)
  IN  \/ /\ b = NULL
         /\ answer' = [asked |-> n, ptr |-> NULL]
         /\ UNCHANGED <<heap, held>>
      \/ /\ b # NULL
         /\ heap' = TakeBlock(heap, b, Aligned(n))
         /\ held' = Set(held, b + HDR_SIZE, n)
         /\ answer' = [asked |-> n, ptr |-> b + HDR_SIZE]

Kfree(ptr) ==
  /\ heap' = FreeBlock(heap, ptr - HDR_SIZE)
  /\ held' = Without(held, ptr)
  /\ answer' = [asked |-> 0, ptr |-> NULL]

\* krealloc(NULL, n) is kmalloc(n) and krealloc(ptr, 0) is kfree(ptr).
KreallocInPlace(ptr, n) ==
  /\ n > 0
  /\ heap.hdr[ptr - HDR_SIZE].size >= n
  /\ held' = Set(held, ptr, n)
  /\ answer' = [asked |-> n, ptr |-> ptr]
  /\ UNCHANGED heap

KreallocMove(ptr, n) ==
  LET b == Found(heap, n)
  IN  /\ heap.hdr[ptr - HDR_SIZE].size < n
      /\ \/ /\ b = NULL
            /\ answer' = [asked |-> n, ptr |-> NULL]
            /\ UNCHANGED <<heap, held>>
         \/ /\ b # NULL
            /\ heap' = FreeBlock(TakeBlock(heap, b, Aligned(n)), ptr - HDR_SIZE)
            /\ held' = Set(Without(held, ptr), b + HDR_SIZE, n)
            /\ answer' = [asked |-> n, ptr |-> b + HDR_SIZE]

------------------------------------------------------------------------------
\* heap_init: one free block over the whole arena.
Init ==
  /\ heap = [hdr |-> [b \in {0} |-> Tag(HEAP_SIZE - HDR_SIZE - FTR_SIZE, TRUE)],
             ftr |-> [f \in {HEAP_SIZE - FTR_SIZE} |->
                       Tag(HEAP_SIZE - HDR_SIZE - FTR_SIZE, TRUE)],
             list |-> <<0>>]
  /\ held = [p \in {} |-> 0]
  /\ answer = [asked |-> 0, ptr |-> NULL]

Next ==
  \/ \E n \in Requests : Kmalloc(n)
  \/ \E ptr \in DOMAIN held : Kfree(ptr)
  \/ \E ptr \in DOMAIN held, n \in Requests :
       KreallocInPlace(ptr, n) \/ KreallocMove(ptr, n)

Spec == Init /\ [][Next]_vars

------------------------------------------------------------------------------
\* Properties.

Blocks == DOMAIN heap.hdr
FreeBlocks == {b \in Blocks : heap.hdr[b].free}
EndOf(b) == next_block(heap, b)

TypeOK ==
  /\ Blocks \subseteq 0..(HEAP_SIZE - 1)
  /\ heap.hdr \in [Blocks -> [size : Nat, free : BOOLEAN]]
  /\ heap.ftr \in [DOMAIN heap.ftr -> [size : Nat, free : BOOLEAN]]
  /\ heap.list \in Seq(Blocks)
  /\ DOMAIN held \subseteq Nat /\ held \in [DOMAIN held -> Nat]
  /\ answer \in [asked : Nat, ptr : Nat \cup {NULL}]

\* heap.c:34-50.  However blocks were split and merged, they tile the arena,
\* and the footer of each says what its header says: stepping from any block by
\* next_block or prev_block lands on the neighbouring header.
BlocksTile ==
  /\ 0 \in Blocks
  /\ \A b \in Blocks :
       /\ EndOf(b) = HEAP_SIZE \/ EndOf(b) \in Blocks
       /\ \A c \in Blocks : c > b => c >= EndOf(b)
  /\ DOMAIN heap.ftr = {EndOf(b) - FTR_SIZE : b \in Blocks}
  /\ \A b \in Blocks : heap.ftr[EndOf(b) - FTR_SIZE] = heap.hdr[b]

\* heap.c:188-210.  The free list holds every free block once and no other, and
\* kfree leaves no two neighbouring free blocks unmerged.
FreeListExact ==
  /\ \A b \in FreeBlocks : \E i \in DOMAIN heap.list : heap.list[i] = b
  /\ \A i \in DOMAIN heap.list : heap.list[i] \in FreeBlocks
  /\ \A i, j \in DOMAIN heap.list : heap.list[i] = heap.list[j] => i = j
  /\ \A b \in FreeBlocks : EndOf(b) \notin FreeBlocks

\* heap.c:110-176.  Every pointer handed out and not yet freed is the data of a
\* used block of its own, at least as long as was asked for, and no used block
\* is without an owner.
ClientsOwnBlocks ==
  /\ {p - HDR_SIZE : p \in DOMAIN held} = Blocks \ FreeBlocks
  /\ \A p \in DOMAIN held : heap.hdr[p - HDR_SIZE].size >= held[p]

\* The chunks clients may use, as the abstract allocator sees them.
Chunks == [p \in {b + HDR_SIZE : b \in Blocks \ FreeBlocks} |-> heap.hdr[p - HDR_SIZE].size]

Abstract == INSTANCE Allocator
              WITH ARENA <- HEAP_SIZE, BEFORE <- HDR_SIZE, BEHIND <- FTR_SIZE,
                   Round <- Aligned, live <- Chunks

\* No overlap, no chunk too short, none moved behind its owner's back, and no
\* request refused while a hole is long enough for it.
ImplementsAllocator == Abstract!AllocatorSpec

==============================================================================
