------------------------------ MODULE FrameStore ------------------------------
(***************************************************************************)
(* What the page allocator promises, whatever the bitmap: a page has one   *)
(* owner at a time, pages come in runs, and a request is refused only when *)
(* no run of free pages is long enough.                                    *)
(***************************************************************************)
EXTENDS Integers

CONSTANTS total_pages, Owner, FREE

VARIABLE owner      \* page -> who has it

Page == 0..(total_pages - 1)

IsFreeRun(start, n) == \A p \in start..(start + n - 1) : p \in Page /\ owner[p] = FREE

StoreInit == owner = [p \in Page |-> FREE]

\* n > 0 pages from start on go to who.
Give(start, n, who) ==
  /\ IsFreeRun(start, n)
  /\ owner' = [p \in Page |-> IF p \in start..(start + n - 1) THEN who ELSE owner[p]]

\* who gives back some pages and nothing else changes.
TakeBack(who) ==
  /\ owner' \in [Page -> Owner \cup {FREE}]
  /\ \A p \in Page : owner'[p] # owner[p] => owner[p] = who /\ owner'[p] = FREE

StoreNext ==
  \E who \in Owner :
    \/ TakeBack(who)
    \/ \E start \in Page, n \in 1..total_pages : Give(start, n, who)

StoreSpec == StoreInit /\ [][StoreNext]_owner
==============================================================================
