------------------------------ MODULE Allocator ------------------------------
(***************************************************************************)
(* What kmalloc, krealloc and kfree promise, whatever the data structure:  *)
(* live chunks never overlap, each holds at least what was asked for, a    *)
(* chunk moves or disappears only by its owner's call, and a request is    *)
(* refused only when no hole between the live chunks is long enough.       *)
(***************************************************************************)
EXTENDS Integers

CONSTANTS
  ARENA,        \* length of the arena; addresses are 0..ARENA-1
  BEFORE,       \* bookkeeping in front of every chunk
  BEHIND,       \* and behind it
  Round(_),     \* the length reserved for a request
  NULL

VARIABLES
  live,     \* pointer of each live chunk -> its length
  answer    \* the latest request and the pointer it got

allocatorVars == <<live, answer>>

\* All addresses a chunk occupies, bookkeeping included.
Span(p, length) == (p - BEFORE)..(p + length + BEHIND - 1)

Taken == UNION {Span(p, live[p]) : p \in DOMAIN live}

HoleFor(n) ==
  \E a \in 0..(ARENA - 1) :
    LET hole == a..(a + BEFORE + Round(n) + BEHIND - 1)
    IN  hole \subseteq (0..(ARENA - 1)) \ Taken

AllocatorInit ==
  /\ live = [p \in {} |-> 0]
  /\ answer = [asked |-> 0, ptr |-> NULL]

\* live' is the live chunks but those at Gone, and one new one for n.
Place(n, Gone) ==
  LET p == answer'.ptr
  IN  /\ p # NULL
      /\ answer'.asked = n
      /\ p \notin DOMAIN live
      /\ DOMAIN live' = (DOMAIN live \ Gone) \cup {p}
      /\ \A q \in DOMAIN live \ Gone : live'[q] = live[q]
      /\ live'[p] >= n
      /\ Span(p, live'[p]) \subseteq (0..(ARENA - 1)) \ Taken

Grant == Place(answer'.asked, {})

Refuse ==
  /\ answer'.ptr = NULL
  /\ answer'.asked = 0 \/ ~HoleFor(answer'.asked)
  /\ UNCHANGED live

Release ==
  /\ \E p \in DOMAIN live : live' = [q \in DOMAIN live \ {p} |-> live[q]]
  /\ answer' = [asked |-> 0, ptr |-> NULL]

\* krealloc: in place when the chunk is long enough, else a new chunk.
Keep ==
  /\ answer'.ptr \in DOMAIN live
  /\ live[answer'.ptr] >= answer'.asked
  /\ UNCHANGED live

Move == \E p \in DOMAIN live : Place(answer'.asked, {p})

AllocatorNext == Grant \/ Refuse \/ Release \/ Keep \/ Move

AllocatorSpec == AllocatorInit /\ [][AllocatorNext]_allocatorVars

==============================================================================
