------------------------------- MODULE UserHeap --------------------------------
(***************************************************************************)
(* malloc, calloc, realloc and free of a program (apps/sdk/libc/stdlib.c)  *)
(* on the break that the kernel keeps for it (sbrk of libc/unistd.c and    *)
(* sys_brk of kernel/syscall/syscall.c), as functions on an arena a:       *)
(*   base, brk, limit  the segment, in bytes from the start of the image   *)
(*   size              the size field of every header, by its address      *)
(*   free              the list g_free, by headers' addresses              *)
(*   mem               what the words of eight bytes hold, as far as these *)
(*                     operations write them: a client's value or HEADER   *)
(* Sizes wrap at MOD, 2^32 in the code.  Addresses are those of headers.   *)
(***************************************************************************)
EXTENDS Integers, Sequences, FiniteSets, SequencesExt, Functions

CONSTANT MOD

ASSUME ModAssumption == MOD \in Nat \ 0..63 /\ MOD % 8 = 0

MHDR_SZ == 8
MIN_SPLIT == MHDR_SZ + 16
NULL == -1        \* no block; also sbrk's (char *)-1
HEADER == "header"

\* No break at all is a segment of base and limit 0.
NewArena(base, limit) ==
  [base |-> base, brk |-> base, limit |-> limit, size |-> <<>>, free |-> <<>>, mem |-> <<>>]

\* The break after brk(addr), NULL if it is refused.  Asking for it, with 0, is
\* refused where there is no segment, and is a.brk elsewhere.
sys_brk(a, addr) ==
  IF a.limit = 0 \/ a.base = 0 \/ addr \notin a.base..a.limit THEN NULL ELSE addr

\* The increment is an intptr_t: from half of MOD on it lowers the break.
Signed(x) == IF x < MOD \div 2 THEN x ELSE x - MOD
sbrk(a, increment) == sys_brk(a, a.brk + Signed(increment))

Rounded(n) == LET m == (n + 7) % MOD IN m - (m % 8)
Total(n) == (MHDR_SZ + Rounded(n)) % MOD

Words(from, bytes) == {from + 8 * i : i \in 0..((bytes + 7) \div 8) - 1}

\* v in every word of a set, over what mem holds elsewhere.
Stored(mem, words, v) == [w \in DOMAIN mem \cup words |-> IF w \in words THEN v ELSE mem[w]]
SetHeader(a, h, size) ==
  [a EXCEPT !.size = [x \in DOMAIN @ \cup {h} |-> IF x = h THEN size ELSE @[x]],
            !.mem = Stored(@, {h}, HEADER)]

morecore(a, total) ==
  LET top == sbrk(a, total)
  IN  IF top = NULL THEN [a |-> a, h |-> NULL]
      ELSE [a |-> SetHeader([a EXCEPT !.brk = top], a.brk, total), h |-> a.brk]

\* The first block of the list that is large enough, or 0.
FirstFit(a, total) == SelectInSeq(a.free, LAMBDA h : a.size[h] >= total)

\* Mutant: the header is forgotten where the rest is split off.
TakeShort(a, i, total) ==
  LET h == a.free[i]
      sp == h + total - MHDR_SZ
  IN  IF a.size[h] < total + MIN_SPLIT
      THEN [a |-> [a EXCEPT !.free = RemoveAt(@, i)], h |-> h]
      ELSE [a |-> SetHeader(SetHeader([a EXCEPT !.free[i] = sp], sp, a.size[h] - total), h, total),
            h |-> h]

\* The i-th block of the list; a rest that is worth it takes its place there.
Take(a, i, total) ==
  LET h == a.free[i]
      sp == h + total
  IN  IF a.size[h] < total + MIN_SPLIT
      THEN [a |-> [a EXCEPT !.free = RemoveAt(@, i)], h |-> h]
      ELSE [a |-> SetHeader(SetHeader([a EXCEPT !.free[i] = sp], sp, a.size[h] - total), h, total),
            h |-> h]

\* A block that morecore has just made is never larger than what was asked for,
\* so the code's second split never happens.
malloc(a, n) ==
  IF n = 0 \/ Total(n) < Rounded(n) THEN [a |-> a, h |-> NULL]
  ELSE IF FirstFit(a, Total(n)) # 0 THEN Take(a, FirstFit(a, Total(n)), Total(n))
  ELSE morecore(a, Total(n))

\* Freed blocks are never joined.
free(a, h) == SetHeader([a EXCEPT !.free = <<h>> \o @], h, a.size[h])

calloc(a, nmemb, size) ==
  IF nmemb # 0 /\ size > (MOD - 1) \div nmemb THEN [a |-> a, h |-> NULL]
  ELSE LET r == malloc(a, nmemb * size)
       IN  IF r.h = NULL THEN r
           ELSE [r EXCEPT !.a.mem = Stored(@, Words(r.h + MHDR_SZ, nmemb * size), "zero")]

\* memcpy of the old block's bytes to the new one.
Copied(a, from, to, bytes) ==
  [a EXCEPT !.mem = [w \in DOMAIN @ \cup Words(to, bytes) |->
     IF w \notin Words(to, bytes) THEN @[w]
     ELSE IF from + (w - to) \in DOMAIN @ THEN @[from + (w - to)] ELSE "unknown"]]

realloc(a, h, size) ==
  LET oldsz == a.size[h] - MHDR_SZ
      r == malloc(a, size)
      bytes == IF oldsz < size THEN oldsz ELSE size
  IN  IF size = 0 THEN [a |-> free(a, h), h |-> NULL]
      ELSE IF Rounded(size) <= oldsz THEN [a |-> a, h |-> h]
      ELSE IF r.h = NULL THEN r
      ELSE [a |-> free(Copied(r.a, h + MHDR_SZ, r.h + MHDR_SZ, bytes), h), h |-> r.h]

==============================================================================
