-------------------------------- MODULE Pages ---------------------------------
(***************************************************************************)
(* The physical page allocator, kernel/mm/pmm.c: a bitmap of words in which *)
(* a set bit is a used page, and a counter of the free pages beside it.     *)
(*                                                                          *)
(* An address is the number of its page counted from pmm_base_addr.  A word *)
(* is the set of its bits that are set.  The kernel calls the allocator     *)
(* from its one thread only, so a call is one action.                       *)
(***************************************************************************)
EXTENDS Integers, FiniteSets

CONSTANTS
  BITS,           \* bits of a word: 32 in the source
  total_pages,    \* pmm_total_pages
  MaxCount,       \* bound: the longest run that clients ask for
  NONE            \* the address 0 that means out of memory

ASSUME PagesAssumption ==
  /\ BITS \in Nat \ {0} /\ total_pages \in Nat \ {0} /\ MaxCount \in Nat
  /\ NONE \notin Int

VARIABLES
  pmm_bitmap,              \* word -> its set bits
  pmm_free_pages_count,
  owner                    \* auxiliary: page -> the owner the calls have given it

pmmVars == <<pmm_bitmap, pmm_free_pages_count, owner>>

Page == 0..(total_pages - 1)
Bit == 0..(BITS - 1)
Word == 0..(((total_pages + BITS - 1) \div BITS) - 1)

FREE == "free"
Owner == {"client", "table"}

------------------------------------------------------------------------------

pmm_test_bit(map, p) == p % BITS \in map[p \div BITS]

\* The bits of the last word that stand for no page are set for good.
Padding(w) == {b \in Bit : w * BITS + b >= total_pages}

pmm_init ==
  /\ pmm_bitmap = [w \in Word |-> Padding(w)]
  /\ pmm_free_pages_count = total_pages
  /\ owner = [p \in Page |-> FREE]

Least(S) == CHOOSE x \in S : \A y \in S : x <= y

FreePages(map) == {p \in Page : ~pmm_test_bit(map, p)}

\* The page of the lowest clear bit of the first word that has one, if it is a
\* page.
Candidate(map, w) == w * BITS + Least(Bit \ map[w])

\* Mutant: the number of words is rounded down.
FirstFreeWhole(map) ==
  LET words == {w \in Word : map[w] # Bit /\ (w + 1) * BITS <= total_pages}
  IN  IF words = {} THEN NONE ELSE Candidate(map, Least(words))

FirstFreePage(map) ==
  LET words == {w \in Word : map[w] # Bit /\ Candidate(map, w) < total_pages}
  IN  IF words = {} THEN NONE ELSE Candidate(map, Least(words))

\* Mutant: the count of consecutive free pages is not reset by a used one.
RunsGapped(map, n) ==
  {p \in Page : n > 0 /\ p + n <= total_pages /\ ~pmm_test_bit(map, p)
                /\ ~pmm_test_bit(map, p + n - 1)}

\* Where n consecutive free pages start: the loop over the pages stops at the
\* first such place, and never when n = 0.
Runs(map, n) ==
  {p \in Page : n > 0 /\ p + n <= total_pages
                /\ \A q \in p..(p + n - 1) : ~pmm_test_bit(map, q)}

SetBits(map, pages) ==
  [w \in Word |-> map[w] \cup {b \in Bit : w * BITS + b \in pages}]

\* Mutant: the mask is not inverted.
ClearOthers(map, pages) ==
  [w \in Word |-> map[w] \cap {b \in Bit : w * BITS + b \in pages}]

ClearBits(map, pages) ==
  [w \in Word |-> map[w] \ {b \in Bit : w * BITS + b \in pages}]

\* who gets the n pages from p on.
Take(p, n, who) ==
  LET pages == p..(p + n - 1)
  IN  /\ pmm_bitmap' = SetBits(pmm_bitmap, pages)
      /\ pmm_free_pages_count' = pmm_free_pages_count - n
      /\ owner' = [q \in Page |-> IF q \in pages THEN who ELSE owner[q]]

------------------------------------------------------------------------------

pmm_alloc_page(who) ==
  LET p == FirstFreePage(pmm_bitmap)
  IN  IF p = NONE THEN UNCHANGED pmmVars ELSE Take(p, 1, who)

pmm_alloc_pages(n, who) ==
  LET runs == Runs(pmm_bitmap, n)
  IN  IF runs = {} THEN UNCHANGED pmmVars ELSE Take(Least(runs), n, who)

\* What the loop of pmm_free_pages really frees: addresses outside memory and
\* pages that are free already are passed over.
Released(first, n) ==
  {p \in first..(first + n - 1) : p \in Page /\ pmm_test_bit(pmm_bitmap, p)}

\* Clients may free what they hold, once more what nobody holds, or addresses
\* that are not memory of this allocator; never what another owner holds.
pmm_free_pages(first, n) ==
  LET pages == Released(first, n)
  IN  /\ \A p \in first..(first + n - 1) : p \in Page => owner[p] \in {FREE, "client"}
      /\ pmm_bitmap' = ClearBits(pmm_bitmap, pages)
      /\ pmm_free_pages_count' = pmm_free_pages_count + Cardinality(pages)
      /\ owner' = [p \in Page |-> IF p \in pages THEN FREE ELSE owner[p]]

pmmNext ==
  \/ pmm_alloc_page("client")
  \/ \E n \in 0..MaxCount : pmm_alloc_pages(n, "client")
  \/ \E first \in 0..total_pages, n \in 0..MaxCount : pmm_free_pages(first, n)

PagesSpec == pmm_init /\ [][pmmNext]_pmmVars

------------------------------------------------------------------------------
\* Properties.

PagesTypeOK ==
  /\ pmm_bitmap \in [Word -> SUBSET Bit]
  /\ pmm_free_pages_count \in 0..total_pages
  /\ owner \in [Page -> Owner \cup {FREE}]

\* pmm.c:16-26, 30, 58, 64-71, 87.  After any sequence of calls, double frees and
\* frees of foreign addresses among them, a bit is set for exactly the pages
\* somebody holds, the bits that are no page stay set, and the counter, which four
\* functions keep beside the bitmap, is the number of free pages.
BitsAreOwnership ==
  \A w \in Word, b \in Bit :
    b \in pmm_bitmap[w] <=> (w * BITS + b >= total_pages \/ owner[w * BITS + b] # FREE)
CountIsExact == pmm_free_pages_count = Cardinality({p \in Page : owner[p] = FREE})
BitmapIsOwnership == BitsAreOwnership /\ CountIsExact

Frames == INSTANCE FrameStore

\* pmm.c:50-92.  No page is handed out that somebody holds.
NoPageTwice == Frames!StoreSpec

\* pmm.c:50-64, 74-92.  Out of memory means just that: the search through the
\* words fails only when nobody's page is left, the search for a run only when
\* there is no such run, at the boundaries of words too.
RefusesOnlyWhenFull ==
  /\ FirstFreePage(pmm_bitmap) = NONE => \A p \in Page : owner[p] # FREE
  /\ \A n \in 1..MaxCount :
       Runs(pmm_bitmap, n) = {} => ~\E p \in Page : Frames!IsFreeRun(p, n)
==============================================================================
