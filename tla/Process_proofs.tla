---------------------------- MODULE Process_proofs ----------------------------
(***************************************************************************)
(* For every size of the image, the programs and their requests: the words *)
(* of a program's blocks keep what it wrote, and the loader answers with   *)
(* the program's own exit code.                                            *)
(*                                                                         *)
(* ArenaOK(a): the blocks lie apart between base and break, and the list   *)
(* has each of its blocks once.  LiveOK(a, blocks): the program's blocks   *)
(* are none of the list's, large enough, and hold their words.  The lemmas *)
(* follow an arbitrary arena through malloc, free and the stores into one  *)
(* block; the steps of the specification put these together.               *)
(***************************************************************************)
EXTENDS Process, SequenceTheorems, WellFoundedInduction, TLAPS

------------------------------------------------------------------------------
\* Sequences and numbers.

LEMMA SequenceFacts ==
  ASSUME NEW S, NEW s \in Seq(S)
  PROVE  /\ Len(s) \in Nat /\ DOMAIN s = 1..Len(s)
         /\ \A i \in 1..Len(s) : s[i] \in S
  OBVIOUS

LEMMA RemoveAtProperties ==
  ASSUME NEW S, NEW s \in Seq(S), NEW k \in 1..Len(s)
  PROVE  /\ RemoveAt(s, k) \in Seq(S) /\ Len(RemoveAt(s, k)) = Len(s) - 1
         /\ \A i \in 1..Len(s) - 1 : RemoveAt(s, k)[i] = s[IF i < k THEN i ELSE i + 1]
<1> DEFINE u == SubSeq(s, 1, k - 1)
           v == SubSeq(s, k + 1, Len(s))
<1>0. Len(s) \in Nat /\ k \in Nat /\ 1 <= k /\ k <= Len(s)
  OBVIOUS
<1>1. u \in Seq(S) /\ Len(u) = k - 1 /\ \A i \in 1..k - 1 : u[i] = s[i]
  OBVIOUS
<1>2. v \in Seq(S) /\ Len(v) = Len(s) - k /\ \A i \in 1..Len(s) - k : v[i] = s[i + k]
  OBVIOUS
<1> HIDE DEF u, v
<1>3. /\ u \o v \in Seq(S) /\ Len(u \o v) = Len(u) + Len(v)
      /\ \A i \in 1..Len(u) + Len(v) :
           (u \o v)[i] = IF i <= Len(u) THEN u[i] ELSE v[i - Len(u)]
  BY <1>1, <1>2, ConcatProperties
<1>4. Len(u) + Len(v) = Len(s) - 1
  BY <1>0, <1>1, <1>2
<1>5. ASSUME NEW i \in 1..Len(s) - 1
      PROVE  (u \o v)[i] = s[IF i < k THEN i ELSE i + 1]
  <2>1. CASE i < k
    <3>1. i \in 1..k - 1 /\ i <= Len(u) /\ i \in 1..Len(u) + Len(v)
      BY <2>1, <1>0, <1>1, <1>4
    <3> QED
      BY <3>1, <2>1, <1>1, <1>3
  <2>2. CASE ~(i < k)
    <3>1. /\ i - (k - 1) \in 1..Len(s) - k /\ ~(i <= Len(u)) /\ i \in 1..Len(u) + Len(v)
          /\ i - (k - 1) + k = i + 1
      BY <2>2, <1>0, <1>1, <1>4
    <3>2. (u \o v)[i] = v[i - (k - 1)]
      BY <3>1, <1>1, <1>3
    <3> QED
      BY <3>1, <3>2, <2>2, <1>2
  <2> QED
    BY <2>1, <2>2
<1> QED
  BY <1>3, <1>4, <1>5 DEF RemoveAt, u, v

LEMMA LeastExists ==
  ASSUME NEW S, S \subseteq Nat, S # {}
  PROVE  \E x \in S : \A y \in S : x <= y
<1> DEFINE R == {ss \in Nat \X Nat : ss[1] < ss[2]}
<1>1. IsWellFoundedOn(R, Nat)
  BY NatLessThanWellFounded DEF OpToRel
<1>2. PICK x \in S : \A y \in S : <<y, x>> \notin R
  <2> HIDE DEF R
  <2> QED
    BY <1>1, WFMin
<1>3. ASSUME NEW y \in S PROVE x <= y
  <2>1. x \in Nat /\ y \in Nat /\ <<y, x>> \in Nat \X Nat
    OBVIOUS
  <2>2. ~(<<y, x>>[1] < <<y, x>>[2])
    BY <1>2, <2>1
  <2> QED
    BY <2>1, <2>2
<1> QED
  BY <1>3

LEMMA Division ==
  ASSUME NEW m \in Nat
  PROVE  /\ m % 8 \in 0..7 /\ m \div 8 \in Nat /\ m - (m % 8) = 8 * (m \div 8)
         /\ m - (m % 8) \in Nat /\ m - 7 <= m - (m % 8) /\ m - (m % 8) <= m
  OBVIOUS

\* Sizes are rounded up to eights, and to nothing where that wraps.
LEMMA RoundedFacts ==
  ASSUME NEW n \in 0..MOD - 1
  PROVE  /\ Rounded(n) \in Nat
         /\ Wraps(n) => Rounded(n) = 0
         /\ ~Wraps(n) => /\ Rounded(n) = 8 * ((n + 7) \div 8) /\ (n + 7) \div 8 \in Nat
                         /\ n <= Rounded(n) /\ Rounded(n) <= n + 7
<1>1. MOD \in Nat /\ MOD > 63 /\ n \in Nat /\ n < MOD
  BY ModAssumption
<1>2. CASE Wraps(n)
  <2> DEFINE m == n + 7 - MOD
  <2>1. m \in 0..6 /\ n + 7 = MOD + m /\ MOD > m
    BY <1>1, <1>2 DEF Wraps
  <2>2. (n + 7) % MOD = m
    <3> HIDE DEF m
    <3> QED
      BY <1>1, <2>1
  <2> HIDE DEF m
  <2>3. m % 8 = m
    BY <2>1
  <2>4. Rounded(n) = 0
    BY <2>1, <2>2, <2>3 DEF Rounded
  <2> QED
    BY <1>2, <2>4
<1>3. CASE ~Wraps(n)
  <2> DEFINE m == n + 7
  <2>1. m \in Nat /\ m < MOD
    BY <1>1, <1>3 DEF Wraps
  <2> HIDE DEF m
  <2>2. m % MOD = m
    BY <1>1, <2>1
  <2>3. Rounded(n) = m - (m % 8)
    BY <2>2 DEF Rounded, m
  <2>4. /\ m % 8 \in 0..7 /\ m \div 8 \in Nat /\ m - (m % 8) = 8 * (m \div 8)
        /\ m - (m % 8) \in Nat /\ m - 7 <= m - (m % 8) /\ m - (m % 8) <= m
    BY <2>1, Division
  <2>5. m - 7 = n
    BY <1>1 DEF m
  <2> QED
    BY <1>3, <2>3, <2>4, <2>5 DEF m
<1> QED
  BY <1>2, <1>3

LEMMA TotalFacts ==
  ASSUME NEW n \in 0..MOD - 1, Sane(n) \/ Wraps(n)
  PROVE  /\ Total(n) = 8 + Rounded(n) /\ Total(n) \in Nat /\ Rounded(n) \in Nat
         /\ Total(n) >= 8 /\ Signed(Total(n)) = Total(n)
<1>1. MOD \in Nat /\ MOD > 63 /\ n \in Nat
  BY ModAssumption
<1>2. MOD \div 2 \in Nat /\ MOD \div 2 <= MOD /\ MOD \div 2 > 8
  BY <1>1
<1>3. Rounded(n) \in Nat /\ 8 + Rounded(n) < MOD \div 2
  <2>1. CASE Wraps(n)
    BY <1>1, <1>2, <2>1, RoundedFacts
  <2>2. CASE ~Wraps(n)
    BY <1>1, <1>2, <2>2, RoundedFacts DEF Sane, MHDR_SZ
  <2> QED
    BY <2>1, <2>2
<1> DEFINE m == 8 + Rounded(n)
<1>4. m \in Nat /\ m < MOD /\ m < MOD \div 2 /\ m >= 8
  BY <1>1, <1>2, <1>3
<1> HIDE DEF m
<1>5. m % MOD = m
  BY <1>1, <1>4
<1>6. Total(n) = m
  BY <1>5 DEF Total, MHDR_SZ, m
<1>7. Signed(m) = m
  BY <1>4 DEF Signed
<1> QED
  BY <1>3, <1>4, <1>6, <1>7 DEF m

LEMMA WordsIn ==
  ASSUME NEW h \in Nat, NEW n \in Nat, NEW w \in Words(h + MHDR_SZ, n)
  PROVE  w \in Nat /\ h + 8 <= w /\ w + 8 <= h + 8 + 8 * ((n + 7) \div 8)
<1> DEFINE k == (n + 7) \div 8
<1>1. k \in Nat
  OBVIOUS
<1> HIDE DEF k
<1>2. PICK i \in 0..k - 1 : w = h + 8 + 8 * i
  BY DEF Words, MHDR_SZ, k
<1> QED
  BY <1>1, <1>2 DEF k

\* What a client uses of its block lies in it, behind the header.
LEMMA PayloadIn ==
  ASSUME NEW h \in Nat, NEW n \in 0..MOD - 1, NEW w \in Payload(h, n)
  PROVE  ~Wraps(n) /\ w \in Nat /\ h + 8 <= w /\ w + 8 <= h + 8 + Rounded(n)
<1>1. ~Wraps(n) /\ w \in Words(h + MHDR_SZ, n) /\ n \in Nat
  BY ModAssumption DEF Payload
<1>2. Rounded(n) = 8 * ((n + 7) \div 8)
  BY <1>1, RoundedFacts
<1> QED
  BY <1>1, <1>2, WordsIn

------------------------------------------------------------------------------
\* The arena.

Blocks(a) == DOMAIN a.size

IsArena(a) ==
  a = [base |-> a.base, brk |-> a.brk, limit |-> a.limit, size |-> a.size,
       free |-> a.free, mem |-> a.mem]

Apart(a) ==
  \A g, h \in Blocks(a) : g # h => g + a.size[g] <= h \/ h + a.size[h] <= g

ListOK(a) ==
  /\ a.free \in Seq(Blocks(a))
  /\ \A i, j \in 1..Len(a.free) : a.free[i] = a.free[j] => i = j

Listed(a, h) == \E i \in 1..Len(a.free) : a.free[i] = h

ArenaOK(a) ==
  /\ IsArena(a)
  /\ a.base \in Nat /\ a.brk \in Nat /\ a.limit \in Nat
  /\ a.base <= a.brk /\ a.brk <= a.limit
  /\ Blocks(a) \subseteq Nat
  /\ \A h \in Blocks(a) :
       a.size[h] \in Nat /\ a.size[h] >= 8 /\ a.base <= h /\ h + a.size[h] <= a.brk
  /\ Apart(a)
  /\ ListOK(a)

Fits(a, h, n) == n \in 0..MOD - 1 /\ (Wraps(n) \/ Rounded(n) + 8 <= a.size[h])

Holds(a, h, n, v) == \A w \in Payload(h, n) : w \in DOMAIN a.mem /\ a.mem[w] = v

LiveOK(a, blocks) ==
  \A h \in DOMAIN blocks :
    /\ h \in Blocks(a) /\ ~Listed(a, h)
    /\ Fits(a, h, blocks[h].n) /\ Holds(a, h, blocks[h].n, blocks[h].v)

LEMMA BlockFacts ==
  ASSUME NEW a, ArenaOK(a), NEW h \in Blocks(a)
  PROVE  /\ h \in Nat /\ a.size[h] \in Nat /\ a.size[h] >= 8
         /\ a.base <= h /\ h + a.size[h] <= a.brk
  BY DEF ArenaOK

\* Outside the block h, words are as they were.
Elsewhere(a, b, h) ==
  \A w \in Nat : (w < h \/ h + a.size[h] <= w) /\ w \in DOMAIN a.mem
    => w \in DOMAIN b.mem /\ b.mem[w] = a.mem[w]

\* A client's words are not in another block.
LEMMA PayloadElsewhere ==
  ASSUME NEW a, ArenaOK(a), NEW g \in Blocks(a), NEW h \in Blocks(a), g # h,
         NEW n, Fits(a, g, n), NEW w \in Payload(g, n)
  PROVE  w \in Nat /\ (w < h \/ h + a.size[h] <= w)
<1>1. /\ g \in Nat /\ h \in Nat /\ a.size[g] \in Nat /\ a.size[h] \in Nat
  BY BlockFacts
<1>2. g + a.size[g] <= h \/ h + a.size[h] <= g
  BY DEF ArenaOK, Apart
<1>3. n \in 0..MOD - 1 /\ (Wraps(n) \/ Rounded(n) + 8 <= a.size[g])
  BY DEF Fits
<1>4. ~Wraps(n) /\ w \in Nat /\ g + 8 <= w /\ w + 8 <= g + 8 + Rounded(n)
  BY <1>1, <1>3, PayloadIn
<1>5. Rounded(n) \in Nat
  BY <1>3, RoundedFacts
<1> QED
  BY <1>1, <1>2, <1>3, <1>4, <1>5

\* Stores into a block that is not the client's leave the client's words.
LEMMA StoreKeepsLive ==
  ASSUME NEW a, ArenaOK(a), NEW blocks, LiveOK(a, blocks),
         NEW h \in Blocks(a), h \notin DOMAIN blocks,
         NEW b, b.size = a.size, b.free = a.free, Elsewhere(a, b, h)
  PROVE  LiveOK(b, blocks)
<1> SUFFICES ASSUME NEW g \in DOMAIN blocks
             PROVE  /\ g \in Blocks(b) /\ ~Listed(b, g)
                    /\ Fits(b, g, blocks[g].n) /\ Holds(b, g, blocks[g].n, blocks[g].v)
  BY DEF LiveOK
<1>1. /\ g \in Blocks(a) /\ ~Listed(a, g) /\ g # h
      /\ Fits(a, g, blocks[g].n) /\ Holds(a, g, blocks[g].n, blocks[g].v)
  BY DEF LiveOK
<1>2. g \in Blocks(b) /\ ~Listed(b, g) /\ Fits(b, g, blocks[g].n)
  BY <1>1 DEF Blocks, Listed, Fits
<1>3. ASSUME NEW w \in Payload(g, blocks[g].n)
      PROVE  w \in DOMAIN b.mem /\ b.mem[w] = blocks[g].v
  <2>1. w \in Nat /\ (w < h \/ h + a.size[h] <= w)
    BY <1>1, PayloadElsewhere
  <2>2. w \in DOMAIN a.mem /\ a.mem[w] = blocks[g].v
    BY <1>1 DEF Holds
  <2> QED
    BY <2>1, <2>2 DEF Elsewhere
<1> QED
  BY <1>2, <1>3 DEF Holds

LEMMA StoreArena ==
  ASSUME NEW a, ArenaOK(a), NEW m, NEW b, b = [a EXCEPT !.mem = m]
  PROVE  /\ b.base = a.base /\ b.brk = a.brk /\ b.limit = a.limit
         /\ b.size = a.size /\ b.free = a.free /\ b.mem = m
         /\ ArenaOK(b)
<1>1. b = [base |-> a.base, brk |-> a.brk, limit |-> a.limit, size |-> a.size,
           free |-> a.free, mem |-> m]
  BY DEF ArenaOK, IsArena
<1>2. /\ b.base = a.base /\ b.brk = a.brk /\ b.limit = a.limit
      /\ b.size = a.size /\ b.free = a.free /\ b.mem = m
  BY <1>1
<1>3. IsArena(b)
  BY <1>1, <1>2 DEF IsArena
<1>4. ArenaOK(b)
  BY <1>2, <1>3 DEF ArenaOK, Blocks, Apart, ListOK
<1> QED
  BY <1>2, <1>4

LEMMA RelistIs ==
  ASSUME NEW a, IsArena(a), NEW t
  PROVE  LET b == [a EXCEPT !.free = t]
         IN  /\ b.base = a.base /\ b.brk = a.brk /\ b.limit = a.limit
             /\ b.size = a.size /\ b.free = t /\ b.mem = a.mem
             /\ IsArena(b) /\ Blocks(b) = Blocks(a)
<1> DEFINE b == [a EXCEPT !.free = t]
<1>1. b = [base |-> a.base, brk |-> a.brk, limit |-> a.limit, size |-> a.size,
           free |-> t, mem |-> a.mem]
  BY DEF IsArena
<1>2. /\ b.base = a.base /\ b.brk = a.brk /\ b.limit = a.limit
      /\ b.size = a.size /\ b.free = t /\ b.mem = a.mem
  BY <1>1
<1>3. IsArena(b)
  BY <1>1, <1>2 DEF IsArena
<1> HIDE DEF b
<1> QED
  BY <1>2, <1>3 DEF b, Blocks

LEMMA SetHeaderIs ==
  ASSUME NEW a, IsArena(a), NEW h, NEW size
  PROVE  LET b == SetHeader(a, h, size)
         IN  /\ b.base = a.base /\ b.brk = a.brk /\ b.limit = a.limit /\ b.free = a.free
             /\ Blocks(b) = Blocks(a) \cup {h}
             /\ \A x \in Blocks(a) \cup {h} : b.size[x] = IF x = h THEN size ELSE a.size[x]
             /\ DOMAIN b.mem = DOMAIN a.mem \cup {h}
             /\ \A w \in DOMAIN a.mem : w # h => b.mem[w] = a.mem[w]
             /\ IsArena(b)
<1> DEFINE b == SetHeader(a, h, size)
           f == [x \in DOMAIN a.size \cup {h} |-> IF x = h THEN size ELSE a.size[x]]
           m == Stored(a.mem, {h}, HEADER)
<1>1. b = [a EXCEPT !.size = f, !.mem = m]
  BY DEF SetHeader
<1>2. /\ DOMAIN f = DOMAIN a.size \cup {h}
      /\ \A x \in DOMAIN a.size \cup {h} : f[x] = IF x = h THEN size ELSE a.size[x]
  OBVIOUS
<1>3. DOMAIN m = DOMAIN a.mem \cup {h} /\ \A w \in DOMAIN a.mem : w # h => m[w] = a.mem[w]
  BY DEF Stored
<1> HIDE DEF b, f, m
<1>4. b = [base |-> a.base, brk |-> a.brk, limit |-> a.limit, size |-> f, free |-> a.free, mem |-> m]
  BY <1>1 DEF IsArena
<1>5. /\ b.base = a.base /\ b.brk = a.brk /\ b.limit = a.limit /\ b.free = a.free
      /\ b.size = f /\ b.mem = m
  BY <1>4
<1>6. IsArena(b)
  BY <1>4, <1>5 DEF IsArena
<1> QED
  BY <1>2, <1>3, <1>5, <1>6 DEF b, Blocks

\* Clients do not notice what happens to headers and other blocks.
LEMMA LiveCarries ==
  ASSUME NEW a, NEW blocks, LiveOK(a, blocks), NEW b,
         \A g \in DOMAIN blocks :
           /\ g \in Blocks(b) /\ ~Listed(b, g) /\ b.size[g] = a.size[g]
           /\ \A w \in Payload(g, blocks[g].n) :
                w \in DOMAIN a.mem => w \in DOMAIN b.mem /\ b.mem[w] = a.mem[w]
  PROVE  LiveOK(b, blocks)
<1> SUFFICES ASSUME NEW g \in DOMAIN blocks
             PROVE  Fits(b, g, blocks[g].n) /\ Holds(b, g, blocks[g].n, blocks[g].v)
  BY DEF LiveOK
<1>1. Fits(a, g, blocks[g].n) /\ Holds(a, g, blocks[g].n, blocks[g].v)
  BY DEF LiveOK
<1> QED
  BY <1>1 DEF Fits, Holds

\* What malloc's answer promises for blocks of at least total bytes.
Gives(a, r, total, blocks) ==
  /\ ArenaOK(r.a) /\ LiveOK(r.a, blocks)
  /\ r.h = NULL => r.a = a
  /\ r.h # NULL =>
       /\ r.h \in Blocks(r.a) /\ ~Listed(r.a, r.h) /\ r.h \notin DOMAIN blocks
       /\ r.a.size[r.h] >= total
       /\ \A g \in DOMAIN blocks : r.a.size[g] = a.size[g]

LEMMA MorecoreGives ==
  ASSUME NEW a, ArenaOK(a), NEW blocks, LiveOK(a, blocks),
         NEW total \in Nat, total >= 8, Signed(total) = total
  PROVE  Gives(a, morecore(a, total), total, blocks)
<1> DEFINE top == sbrk(a, total)
           q == a.brk
           raised == [a EXCEPT !.brk = top]
           b == SetHeader(raised, q, total)
<1>1. /\ IsArena(a) /\ a.base \in Nat /\ q \in Nat /\ a.limit \in Nat
      /\ a.base <= q /\ q <= a.limit /\ ListOK(a) /\ Apart(a) /\ Blocks(a) \subseteq Nat
  BY DEF ArenaOK
<1>2. CASE top = NULL
  <2>1. morecore(a, total) = [a |-> a, h |-> NULL]
    BY <1>2 DEF morecore
  <2> QED
    BY <2>1 DEF Gives
<1>3. CASE top # NULL
  <2>1. morecore(a, total) = [a |-> b, h |-> q]
    BY <1>3 DEF morecore
  <2>2. top = q + total /\ top <= a.limit /\ top \in Nat
    BY <1>1, <1>3 DEF sbrk, sys_brk
  <2> HIDE DEF top
  <2>3. /\ raised = [base |-> a.base, brk |-> top, limit |-> a.limit, size |-> a.size,
                     free |-> a.free, mem |-> a.mem]
    BY <1>1 DEF IsArena
  <2>4. /\ raised.base = a.base /\ raised.brk = top /\ raised.limit = a.limit
        /\ raised.size = a.size /\ raised.free = a.free /\ raised.mem = a.mem
    BY <2>3
  <2>5. IsArena(raised)
    BY <2>3, <2>4 DEF IsArena
  <2> HIDE DEF raised
  <2>6. /\ b.base = a.base /\ b.brk = top /\ b.limit = a.limit /\ b.free = a.free
        /\ Blocks(b) = Blocks(a) \cup {q}
        /\ \A x \in Blocks(a) \cup {q} : b.size[x] = IF x = q THEN total ELSE a.size[x]
        /\ DOMAIN b.mem = DOMAIN a.mem \cup {q}
        /\ \A w \in DOMAIN a.mem : w # q => b.mem[w] = a.mem[w]
        /\ IsArena(b)
    BY <2>4, <2>5, SetHeaderIs DEF Blocks
  <2> HIDE DEF b, q
  <2>7. \A h \in Blocks(a) : /\ h \in Nat /\ a.size[h] \in Nat /\ a.size[h] >= 8
                             /\ a.base <= h /\ h + a.size[h] <= q
    BY BlockFacts DEF q
  <2>8. q \notin Blocks(a)
    BY <2>7
  <2>9. ListOK(b) /\ \A g : Listed(b, g) <=> Listed(a, g)
    <3>1. a.free \in Seq(Blocks(b))
      <4>1. a.free \in Seq(Blocks(a)) /\ Blocks(a) \subseteq Blocks(b)
        BY <1>1, <2>6 DEF ListOK
      <4> QED
        BY <4>1
    <3> QED
      BY <1>1, <2>6, <3>1 DEF ListOK, Listed
  <2>10. Apart(b)
    <3> SUFFICES ASSUME NEW g \in Blocks(b), NEW h \in Blocks(b), g # h
                 PROVE  g + b.size[g] <= h \/ h + b.size[h] <= g
      BY DEF Apart
    <3>1. CASE g # q /\ h # q
      BY <1>1, <2>6, <3>1 DEF Apart
    <3>2. CASE g = q
      BY <2>6, <2>7, <3>2
    <3>3. CASE h = q
      BY <2>6, <2>7, <3>3
    <3> QED
      BY <3>1, <3>2, <3>3
  <2>11. ArenaOK(b)
    <3>1. \A h \in Blocks(b) :
            b.size[h] \in Nat /\ b.size[h] >= 8 /\ b.base <= h /\ h + b.size[h] <= b.brk
      <4> SUFFICES ASSUME NEW h \in Blocks(b)
                   PROVE  b.size[h] \in Nat /\ b.size[h] >= 8 /\ b.base <= h /\ h + b.size[h] <= b.brk
        OBVIOUS
      <4>1. CASE h = q
        BY <1>1, <2>2, <2>6, <4>1 DEF q
      <4>2. CASE h # q
        BY <1>1, <2>2, <2>6, <2>7, <4>2 DEF q
      <4> QED
        BY <4>1, <4>2
    <3>2. b.base <= b.brk /\ b.brk <= b.limit /\ Blocks(b) \subseteq Nat
      BY <1>1, <2>2, <2>6 DEF q
    <3> QED
      BY <1>1, <2>2, <2>6, <2>9, <2>10, <3>1, <3>2 DEF ArenaOK
  <2>12. LiveOK(b, blocks) /\ q \notin DOMAIN blocks
         /\ \A g \in DOMAIN blocks : b.size[g] = a.size[g]
    <3>1. \A g \in DOMAIN blocks : g \in Blocks(a) /\ ~Listed(a, g) /\ g # q
                                  /\ Fits(a, g, blocks[g].n)
      BY <2>8 DEF LiveOK
    <3>2. ASSUME NEW g \in DOMAIN blocks, NEW w \in Payload(g, blocks[g].n) PROVE w # q
      <4> DEFINE n == blocks[g].n
      <4>1. n \in 0..MOD - 1 /\ (Wraps(n) \/ Rounded(n) + 8 <= a.size[g])
        BY <3>1 DEF Fits
      <4> HIDE DEF n
      <4>2. g \in Nat /\ a.size[g] \in Nat /\ g + a.size[g] <= q
        BY <2>7, <3>1
      <4>3. ~Wraps(n) /\ w \in Nat /\ w + 8 <= g + 8 + Rounded(n) /\ Rounded(n) \in Nat
        BY <4>1, <4>2, PayloadIn, RoundedFacts DEF n
      <4> QED
        BY <1>1, <4>1, <4>2, <4>3 DEF q
    <3>3. LiveOK(b, blocks)
      BY <2>6, <2>9, <3>1, <3>2, LiveCarries
    <3> QED
      BY <2>6, <3>1, <3>3
  <2>13. ~Listed(b, q)
    <3>1. \A i \in 1..Len(a.free) : a.free[i] \in Blocks(a)
      BY <1>1, SequenceFacts DEF ListOK
    <3> QED
      BY <2>8, <2>9, <3>1 DEF Listed
  <2>14. q # NULL
    BY <1>1 DEF NULL, q
  <2>15. q \in Blocks(b) /\ b.size[q] >= total
    BY <2>6
  <2> QED
    BY <2>1, <2>11, <2>12, <2>13, <2>14, <2>15 DEF Gives
<1> QED
  BY <1>2, <1>3

\* Unlinking a block whole.
LEMMA WholeGives ==
  ASSUME NEW a, ArenaOK(a), NEW blocks, LiveOK(a, blocks), NEW i \in 1..Len(a.free),
         NEW total \in Nat, a.size[a.free[i]] >= total,
         a.size[a.free[i]] < total + MIN_SPLIT
  PROVE  Gives(a, Take(a, i, total), total, blocks)
<1> DEFINE l == a.free
           h == l[i]
           t == RemoveAt(l, i)
           b == [a EXCEPT !.free = t]
           At(j) == IF j < i THEN j ELSE j + 1
<1>1. Take(a, i, total) = [a |-> b, h |-> h]
  BY DEF Take
<1>2. IsArena(a) /\ l \in Seq(Blocks(a)) /\ \A j, k \in 1..Len(l) : l[j] = l[k] => j = k
  BY DEF ArenaOK, ListOK
<1>3. b = [base |-> a.base, brk |-> a.brk, limit |-> a.limit, size |-> a.size,
           free |-> t, mem |-> a.mem]
  BY <1>2 DEF IsArena
<1>4. /\ b.base = a.base /\ b.brk = a.brk /\ b.limit = a.limit
      /\ b.size = a.size /\ b.free = t /\ b.mem = a.mem
  BY <1>3
<1>5. IsArena(b)
  BY <1>3, <1>4 DEF IsArena
<1> HIDE DEF b, l
<1>6. i \in 1..Len(l) /\ Len(l) \in Nat
  BY <1>2 DEF l
<1>7. /\ t \in Seq(Blocks(a)) /\ Len(t) = Len(l) - 1
      /\ \A j \in 1..Len(l) - 1 : t[j] = l[At(j)]
  BY <1>2, <1>6, RemoveAtProperties
<1>8. \A j \in 1..Len(l) - 1 : At(j) \in 1..Len(l) /\ At(j) # i
  BY <1>6
<1>9. \A j, k \in 1..Len(l) - 1 : At(j) = At(k) => j = k
  BY <1>6
<1> HIDE DEF t, At
<1>10. ListOK(b)
  BY <1>2, <1>4, <1>7, <1>8, <1>9 DEF ListOK, Blocks
<1>11. ~Listed(b, h) /\ \A g : Listed(b, g) => Listed(a, g)
  <2> SUFFICES ASSUME NEW g, Listed(b, g) PROVE Listed(a, g) /\ g # h
    OBVIOUS
  <2>1. PICK j \in 1..Len(l) - 1 : t[j] = g
    BY <1>4, <1>7 DEF Listed
  <2>2. g = l[At(j)] /\ At(j) \in 1..Len(l) /\ At(j) # i
    BY <1>7, <1>8, <2>1
  <2> QED
    BY <1>2, <1>6, <2>2 DEF Listed, l
<1>12. h \in Blocks(a) /\ Listed(a, h)
  BY <1>2, <1>6 DEF Listed, l
<1> HIDE DEF h
<1>13. ArenaOK(b)
  BY <1>4, <1>5, <1>10 DEF ArenaOK, Blocks, Apart
<1>14. LiveOK(b, blocks) /\ h \notin DOMAIN blocks
  BY <1>4, <1>11, <1>12 DEF LiveOK, Blocks, Fits, Holds
<1>15. h # NULL
  <2>1. h \in Nat
    BY <1>12, BlockFacts
  <2> QED
    BY <2>1 DEF NULL
<1> QED
  BY <1>1, <1>4, <1>11, <1>12, <1>13, <1>14, <1>15 DEF Gives, Blocks, h, l

\* Splitting a block: its rest takes its place in the list.
LEMMA SplitGives ==
  ASSUME NEW a, ArenaOK(a), NEW blocks, LiveOK(a, blocks), NEW i \in 1..Len(a.free),
         NEW total \in Nat, total >= 8, a.size[a.free[i]] >= total + MIN_SPLIT
  PROVE  Gives(a, Take(a, i, total), total, blocks)
<1> DEFINE l == a.free
           h == l[i]
           z == a.size[h]
           sp == h + total
           t == [l EXCEPT ![i] = sp]
           a1 == [a EXCEPT !.free[i] = sp]
           a2 == SetHeader(a1, sp, z - total)
           b == SetHeader(a2, h, total)
<1>1. Take(a, i, total) = [a |-> b, h |-> h]
  <2>1. z \in Nat
    <3>1. h \in Blocks(a)
      BY SequenceFacts DEF ArenaOK, ListOK
    <3> HIDE DEF h
    <3> QED
      BY <3>1, BlockFacts
  <2>2. ~(z < total + MIN_SPLIT)
    BY <2>1 DEF MIN_SPLIT, MHDR_SZ
  <2> QED
    BY <2>2 DEF Take
<1>2. /\ IsArena(a) /\ l \in Seq(Blocks(a)) /\ \A j, k \in 1..Len(l) : l[j] = l[k] => j = k
      /\ Apart(a)
  BY DEF ArenaOK, ListOK
<1>3. a1 = [a EXCEPT !.free = t]
  OBVIOUS
<1> HIDE DEF t, a1
<1>4. /\ a1.base = a.base /\ a1.brk = a.brk /\ a1.limit = a.limit
      /\ a1.size = a.size /\ a1.free = t /\ a1.mem = a.mem /\ Blocks(a1) = Blocks(a)
  BY <1>2, <1>3, RelistIs
<1>5. IsArena(a1)
  BY <1>2, <1>3, RelistIs
<1> HIDE DEF l
<1>6. i \in 1..Len(l) /\ Len(l) \in Nat /\ h \in Blocks(a) /\ Listed(a, h)
  BY <1>2, SequenceFacts DEF Listed, l
<1> HIDE DEF h
<1>7. /\ h \in Nat /\ z \in Nat /\ z >= total + 24 /\ a.base <= h /\ h + z <= a.brk
  BY <1>6, BlockFacts DEF MIN_SPLIT, MHDR_SZ, h, l
<1> HIDE DEF z
<1>8. /\ a2.base = a.base /\ a2.brk = a.brk /\ a2.limit = a.limit /\ a2.free = t
      /\ Blocks(a2) = Blocks(a) \cup {sp}
      /\ \A x \in Blocks(a) \cup {sp} : a2.size[x] = IF x = sp THEN z - total ELSE a.size[x]
      /\ DOMAIN a2.mem = DOMAIN a.mem \cup {sp}
      /\ \A w \in DOMAIN a.mem : w # sp => a2.mem[w] = a.mem[w]
      /\ IsArena(a2)
  BY <1>4, <1>5, SetHeaderIs
<1> HIDE DEF a2
<1>9. /\ b.base = a2.base /\ b.brk = a2.brk /\ b.limit = a2.limit /\ b.free = a2.free
      /\ Blocks(b) = Blocks(a2) \cup {h}
      /\ \A x \in Blocks(a2) \cup {h} : b.size[x] = IF x = h THEN total ELSE a2.size[x]
      /\ DOMAIN b.mem = DOMAIN a2.mem \cup {h}
      /\ \A w \in DOMAIN a2.mem : w # h => b.mem[w] = a2.mem[w]
      /\ IsArena(b)
  BY <1>8, SetHeaderIs
<1> HIDE DEF b
<1>10. sp \in Nat /\ sp > h /\ sp < h + z
  BY <1>7
<1>11. sp \notin Blocks(a)
  <2> SUFFICES ASSUME sp \in Blocks(a) PROVE FALSE
    OBVIOUS
  <2>1. sp \in Nat /\ a.size[sp] \in Nat /\ a.size[sp] >= 8
    BY BlockFacts
  <2>2. h + z <= sp \/ sp + a.size[sp] <= h
    BY <1>2, <1>6, <1>10 DEF Apart, z
  <2> HIDE DEF sp
  <2> QED
    BY <1>7, <1>10, <2>1, <2>2
<1>sp. sp = h + total
  OBVIOUS
<1> HIDE DEF sp
<1>12. Blocks(b) = Blocks(a) \cup {sp}
  BY <1>6, <1>8, <1>9
<1>13. /\ b.size[h] = total /\ b.size[sp] = z - total
       /\ \A x \in Blocks(a) : x # h => b.size[x] = a.size[x]
  BY <1>6, <1>8, <1>9, <1>10, <1>11
<1>14. \A w \in DOMAIN a.mem : w # h /\ w # sp => w \in DOMAIN b.mem /\ b.mem[w] = a.mem[w]
  BY <1>8, <1>9
<1>15. \A x \in Blocks(a) : /\ x \in Nat /\ a.size[x] \in Nat /\ a.size[x] >= 8
                            /\ a.base <= x /\ x + a.size[x] <= a.brk
  BY BlockFacts
<1>16. ListOK(b) /\ ~Listed(b, h) /\ \A g \in Blocks(a) : Listed(b, g) => Listed(a, g)
  <2>1. l \in Seq(Blocks(b)) /\ sp \in Blocks(b)
    <3>1. Blocks(a) \subseteq Blocks(b)
      BY <1>12
    <3> QED
      BY <1>2, <1>12, <3>1
  <2>2. /\ t \in Seq(Blocks(b)) /\ Len(t) = Len(l)
        /\ \A j \in 1..Len(l) : t[j] = IF j = i THEN sp ELSE l[j]
    BY <1>6, <2>1, ExceptSeq DEF t
  <2>3. \A j \in 1..Len(l) : l[j] \in Blocks(a) /\ l[j] # sp
    BY <1>2, <1>11, SequenceFacts
  <2>4. b.free = t /\ l[i] = h /\ h # sp
    BY <1>6, <1>8, <1>9, <1>11 DEF h
  <2>5. \A j, k \in 1..Len(t) : t[j] = t[k] => j = k
    BY <1>2, <1>6, <2>2, <2>3
  <2>6. ListOK(b)
    BY <2>2, <2>4, <2>5 DEF ListOK
  <2>7. \A j \in 1..Len(t) : t[j] # h
    BY <1>2, <1>6, <2>2, <2>4
  <2>8. \A g \in Blocks(a) : Listed(b, g) => Listed(a, g)
    BY <1>11, <2>2, <2>4 DEF Listed, l
  <2> QED
    BY <2>4, <2>6, <2>7, <2>8 DEF Listed
<1>17. Apart(b)
  <2> SUFFICES ASSUME NEW g \in Blocks(b), NEW k \in Blocks(b), g # k
               PROVE  g + b.size[g] <= k \/ k + b.size[k] <= g
    BY DEF Apart
  <2>1. ASSUME NEW x \in Blocks(a), x # h
        PROVE  /\ x + b.size[x] <= h \/ h + b.size[h] <= x
               /\ x + b.size[x] <= sp \/ sp + b.size[sp] <= x
    <3>1. x + a.size[x] <= h \/ h + z <= x
      BY <1>2, <1>6, <2>1 DEF Apart, z
    <3>2. x \in Nat /\ a.size[x] \in Nat /\ b.size[x] = a.size[x]
      BY <1>13, <1>15, <2>1
    <3> QED
      BY <1>7, <1>10, <1>13, <1>sp, <3>1, <3>2
  <2>2. h + b.size[h] <= sp
    BY <1>7, <1>10, <1>13, <1>sp
  <2>3. CASE g \in Blocks(a) /\ k \in Blocks(a)
    <3>1. CASE g # h /\ k # h
      BY <1>2, <1>13, <2>3, <3>1 DEF Apart
    <3>2. CASE g = h
      BY <2>1, <2>3, <3>2
    <3>3. CASE k = h
      BY <2>1, <2>3, <3>3
    <3> QED
      BY <3>1, <3>2, <3>3
  <2>4. CASE g = sp
    BY <1>12, <2>1, <2>2, <2>4
  <2>5. CASE k = sp
    BY <1>12, <2>1, <2>2, <2>5
  <2> QED
    BY <1>12, <2>3, <2>4, <2>5
<1>18. ArenaOK(b)
  <2>1. ASSUME NEW x \in Blocks(b)
        PROVE  /\ x \in Nat /\ b.size[x] \in Nat /\ b.size[x] >= 8
               /\ b.base <= x /\ x + b.size[x] <= b.brk
    <3>0. a.base \in Nat /\ a.brk \in Nat /\ b.base = a.base /\ b.brk = a.brk
      BY <1>8, <1>9 DEF ArenaOK
    <3>1. CASE x = h
      BY <1>7, <1>13, <3>0, <3>1
    <3>2. CASE x = sp
      BY <1>7, <1>10, <1>13, <1>sp, <3>0, <3>2
    <3>3. CASE x \in Blocks(a) /\ x # h
      BY <1>13, <1>15, <3>0, <3>3
    <3> QED
      BY <1>12, <3>1, <3>2, <3>3
  <2>2. /\ b.base \in Nat /\ b.brk \in Nat /\ b.limit \in Nat
        /\ b.base <= b.brk /\ b.brk <= b.limit
    BY <1>8, <1>9 DEF ArenaOK
  <2> QED
    BY <1>9, <1>16, <1>17, <2>1, <2>2 DEF ArenaOK
<1>19. LiveOK(b, blocks) /\ h \notin DOMAIN blocks
       /\ \A g \in DOMAIN blocks : b.size[g] = a.size[g]
  <2>1. \A g \in DOMAIN blocks : g \in Blocks(a) /\ ~Listed(a, g) /\ g # h
                                /\ Fits(a, g, blocks[g].n)
    BY <1>6 DEF LiveOK
  <2>2. ASSUME NEW g \in DOMAIN blocks, NEW w \in Payload(g, blocks[g].n)
        PROVE  w # h /\ w # sp
    <3>1. w \in Nat /\ (w < h \/ h + a.size[h] <= w)
      BY <1>6, <2>1, PayloadElsewhere
    <3> QED
      BY <1>7, <1>10, <3>1 DEF z
  <2>3. LiveOK(b, blocks)
    BY <1>12, <1>13, <1>14, <1>16, <2>1, <2>2, LiveCarries
  <2> QED
    BY <1>13, <2>1, <2>3
<1>20. h # NULL /\ b.size[h] >= total /\ h \in Blocks(b)
  BY <1>6, <1>7, <1>12, <1>13 DEF NULL
<1> QED
  BY <1>1, <1>16, <1>18, <1>19, <1>20 DEF Gives

LEMMA MinProperties ==
  ASSUME NEW S, S \subseteq Nat, S # {}
  PROVE  Min(S) \in S
  BY LeastExists DEF Min

LEMMA FirstFitProperties ==
  ASSUME NEW a, ArenaOK(a), NEW total \in Nat, FirstFit(a, total) # 0
  PROVE  FirstFit(a, total) \in 1..Len(a.free) /\ a.size[a.free[FirstFit(a, total)]] >= total
<1> DEFINE I == {i \in 1..Len(a.free) : a.size[a.free[i]] >= total}
<1>1. Len(a.free) \in Nat
  BY DEF ArenaOK, ListOK
<1>2. FirstFit(a, total) = IF I # {} THEN Min(I) ELSE 0
  BY DEF FirstFit, SelectInSeq
<1>3. I \subseteq Nat
  BY <1>1
<1> HIDE DEF I
<1>4. I # {} /\ FirstFit(a, total) \in I
  BY <1>2, <1>3, MinProperties
<1> QED
  BY <1>4 DEF I

LEMMA MallocGives ==
  ASSUME NEW a, ArenaOK(a), NEW blocks, LiveOK(a, blocks),
         NEW n \in 0..MOD - 1, Sane(n) \/ Wraps(n)
  PROVE  Gives(a, malloc(a, n), 8 + Rounded(n), blocks)
<1> DEFINE total == Total(n)
           i == FirstFit(a, total)
<1>1. /\ total = 8 + Rounded(n) /\ total \in Nat /\ total >= 8 /\ Signed(total) = total
      /\ Rounded(n) \in Nat
  BY TotalFacts
<1>2. CASE n = 0
  BY <1>2 DEF malloc, Gives
<1>3. CASE n # 0 /\ i = 0
  <2>1. malloc(a, n) = morecore(a, total)
    BY <1>1, <1>3 DEF malloc
  <2> QED
    BY <1>1, <2>1, MorecoreGives
<1>4. CASE n # 0 /\ i # 0
  <2>1. malloc(a, n) = Take(a, i, total)
    BY <1>1, <1>4 DEF malloc
  <2> HIDE DEF total
  <2>2. i \in 1..Len(a.free) /\ a.size[a.free[i]] >= total
    BY <1>1, <1>4, FirstFitProperties
  <2> HIDE DEF i
  <2>3. a.size[a.free[i]] \in Nat
    <3>1. a.free[i] \in Blocks(a)
      BY <2>2, SequenceFacts DEF ArenaOK, ListOK
    <3> QED
      BY <3>1, BlockFacts
  <2>4. a.size[a.free[i]] < total + MIN_SPLIT \/ a.size[a.free[i]] >= total + MIN_SPLIT
    BY <1>1, <2>3 DEF MIN_SPLIT, MHDR_SZ
  <2>5. Gives(a, Take(a, i, total), total, blocks)
    BY <1>1, <2>2, <2>4, WholeGives, SplitGives
  <2> QED
    BY <1>1, <2>1, <2>5
<1> QED
  BY <1>2, <1>3, <1>4

\* free puts a block on the list; what its client kept there is its own affair.
LEMMA FreeKeeps ==
  ASSUME NEW a, ArenaOK(a), NEW blocks, LiveOK(a, blocks),
         NEW h \in Blocks(a), ~Listed(a, h), h \notin DOMAIN blocks
  PROVE  /\ ArenaOK(free(a, h)) /\ LiveOK(free(a, h), blocks)
         /\ Blocks(free(a, h)) = Blocks(a)
         /\ \A g \in Blocks(a) : free(a, h).size[g] = a.size[g]
         /\ \A g \in Blocks(a) : Listed(free(a, h), g) => Listed(a, g) \/ g = h
         /\ Elsewhere(a, free(a, h), h)
<1> DEFINE l == a.free
           t == <<h>> \o l
           a1 == [a EXCEPT !.free = t]
           b == SetHeader(a1, h, a.size[h])
<1>0. free(a, h) = b
  BY DEF free
<1>1. /\ IsArena(a) /\ l \in Seq(Blocks(a)) /\ \A j, k \in 1..Len(l) : l[j] = l[k] => j = k
      /\ Apart(a)
  BY DEF ArenaOK, ListOK
<1>2. a1 = [a EXCEPT !.free = t]
  OBVIOUS
<1> HIDE DEF t, a1
<1>3. /\ a1.base = a.base /\ a1.brk = a.brk /\ a1.limit = a.limit
      /\ a1.size = a.size /\ a1.free = t /\ a1.mem = a.mem /\ Blocks(a1) = Blocks(a)
  BY <1>1, <1>2, RelistIs
<1>4. IsArena(a1)
  BY <1>1, <1>2, RelistIs
<1>5. /\ b.base = a.base /\ b.brk = a.brk /\ b.limit = a.limit /\ b.free = t
      /\ Blocks(b) = Blocks(a) \cup {h}
      /\ \A x \in Blocks(a) \cup {h} : b.size[x] = IF x = h THEN a.size[h] ELSE a.size[x]
      /\ DOMAIN b.mem = DOMAIN a.mem \cup {h}
      /\ \A w \in DOMAIN a.mem : w # h => b.mem[w] = a.mem[w]
      /\ IsArena(b)
  BY <1>3, <1>4, SetHeaderIs
<1> HIDE DEF b
<1>6. Blocks(b) = Blocks(a) /\ \A g \in Blocks(a) : b.size[g] = a.size[g]
  BY <1>5
<1>7. /\ t \in Seq(Blocks(a)) /\ Len(t) = Len(l) + 1 /\ t[1] = h /\ Len(l) \in Nat
      /\ \A j \in 1..Len(t) : j # 1 => j - 1 \in 1..Len(l) /\ t[j] = l[j - 1]
  BY <1>1 DEF t
<1>8. \A j \in 1..Len(l) : l[j] # h
  BY DEF Listed
<1> HIDE DEF t
<1>9. ListOK(b)
  <2>1. \A j, k \in 1..Len(t) : t[j] = t[k] => j = k
    <3> SUFFICES ASSUME NEW j \in 1..Len(t), NEW k \in 1..Len(t), t[j] = t[k] PROVE j = k
      OBVIOUS
    <3>1. j \in Int /\ k \in Int
      BY <1>7
    <3>2. CASE j # 1 /\ k # 1
      <4>1. j - 1 = k - 1
        BY <1>1, <1>7, <3>2
      <4> QED
        BY <3>1, <4>1
    <3>3. CASE j = 1 \/ k = 1
      BY <1>7, <1>8, <3>3
    <3> QED
      BY <3>2, <3>3
  <2> QED
    BY <1>5, <1>6, <1>7, <2>1 DEF ListOK
<1>10. \A g \in Blocks(a) : Listed(b, g) => Listed(a, g) \/ g = h
  <2> SUFFICES ASSUME NEW g, Listed(b, g), g # h PROVE Listed(a, g)
    OBVIOUS
  <2>1. PICK j \in 1..Len(t) : t[j] = g
    BY <1>5 DEF Listed
  <2> QED
    BY <1>7, <2>1 DEF Listed, l
<1>11. ArenaOK(b)
  <2>1. Apart(b)
    BY <1>1, <1>6 DEF Apart
  <2> QED
    BY <1>5, <1>6, <1>9, <2>1 DEF ArenaOK
<1>12. Elsewhere(a, b, h)
  <2>1. h \in Nat /\ a.size[h] \in Nat /\ a.size[h] >= 8
    BY BlockFacts
  <2>2. \A w \in Nat : w < h \/ h + a.size[h] <= w => w # h
    BY <2>1
  <2> QED
    BY <1>5, <2>2 DEF Elsewhere
<1>13. LiveOK(b, blocks)
  <2>1. \A g \in DOMAIN blocks : /\ g \in Blocks(a) /\ ~Listed(a, g) /\ g # h
                                /\ Fits(a, g, blocks[g].n)
    BY DEF LiveOK
  <2>2. ASSUME NEW g \in DOMAIN blocks, NEW w \in Payload(g, blocks[g].n), w \in DOMAIN a.mem
        PROVE  w \in DOMAIN b.mem /\ b.mem[w] = a.mem[w]
    <3>1. w \in Nat /\ (w < h \/ h + a.size[h] <= w)
      BY <2>1, PayloadElsewhere
    <3> QED
      BY <1>12, <2>2, <3>1 DEF Elsewhere
  <2> QED
    BY <1>6, <1>10, <2>1, <2>2, LiveCarries
<1> QED
  BY <1>0, <1>6, <1>10, <1>11, <1>12, <1>13

------------------------------------------------------------------------------
\* A client's block.

\* A block that is neither the list's nor a client's becomes a client's: the
\* stores fill in what does not hold the value yet.
LEMMA FillKeeps ==
  ASSUME NEW a, ArenaOK(a), NEW blocks, LiveOK(a, blocks),
         NEW h \in Blocks(a), ~Listed(a, h), h \notin DOMAIN blocks,
         NEW n, Fits(a, h, n), NEW v,
         NEW X, \A w \in X : w \in Nat /\ h <= w /\ w < h + a.size[h],
         \A w \in Payload(h, n) : w \in X \/ (w \in DOMAIN a.mem /\ a.mem[w] = v)
  PROVE  LET b == [a EXCEPT !.mem = Stored(@, X, v)]
         IN  ArenaOK(b) /\ LiveOK(b, With(blocks, h, n, v))
<1> DEFINE m == Stored(a.mem, X, v)
           b == [a EXCEPT !.mem = m]
           more == With(blocks, h, n, v)
<1>1. DOMAIN m = DOMAIN a.mem \cup X /\ \A w \in DOMAIN m : m[w] = IF w \in X THEN v ELSE a.mem[w]
  BY DEF Stored
<1> HIDE DEF m
<1>b. b = [a EXCEPT !.mem = m] /\ b = [a EXCEPT !.mem = Stored(@, X, v)]
  BY DEF m
<1> HIDE DEF b
<1>2. b.size = a.size /\ b.free = a.free /\ b.mem = m /\ ArenaOK(b)
  BY <1>b, StoreArena
<1>3. Elsewhere(a, b, h)
  <2>1. h \in Nat /\ a.size[h] \in Nat
    BY BlockFacts
  <2>2. \A w \in Nat : w < h \/ h + a.size[h] <= w => w \notin X
    BY <2>1
  <2> QED
    BY <1>1, <1>2, <2>2 DEF Elsewhere
<1>4. LiveOK(b, blocks)
  BY <1>2, <1>3, StoreKeepsLive
<1>5. Fits(b, h, n) /\ Holds(b, h, n, v) /\ h \in Blocks(b) /\ ~Listed(b, h)
  BY <1>1, <1>2 DEF Fits, Holds, Blocks, Listed
<1>6. /\ DOMAIN more = DOMAIN blocks \cup {h}
      /\ more[h].n = n /\ more[h].v = v
      /\ \A x \in DOMAIN blocks : more[x] = blocks[x]
  BY DEF With
<1> HIDE DEF more
<1>7. LiveOK(b, more)
  BY <1>4, <1>5, <1>6 DEF LiveOK
<1> QED
  BY <1>2, <1>7, <1>b DEF more

LEMMA WithoutFacts ==
  ASSUME NEW h
  PROVE  /\ DOMAIN Without(h) = DOMAIN live \ {h}
         /\ \A x \in DOMAIN live \ {h} : Without(h)[x] = live[x]
         /\ \A a : LiveOK(a, live) => LiveOK(a, Without(h))
<1>1. /\ DOMAIN Without(h) = DOMAIN live \ {h}
      /\ \A x \in DOMAIN live \ {h} : Without(h)[x] = live[x]
  BY DEF Without, Restrict
<1> QED
  BY <1>1 DEF LiveOK

\* What is filled lies in the block.
LEMMA PayloadInBlock ==
  ASSUME NEW a, ArenaOK(a), NEW h \in Blocks(a), NEW n, Fits(a, h, n), NEW w \in Payload(h, n)
  PROVE  w \in Nat /\ h <= w /\ w < h + a.size[h]
<1>1. h \in Nat /\ a.size[h] \in Nat /\ n \in 0..MOD - 1 /\ (Wraps(n) \/ Rounded(n) + 8 <= a.size[h])
  BY BlockFacts DEF Fits
<1>2. ~Wraps(n) /\ w \in Nat /\ h + 8 <= w /\ w + 8 <= h + 8 + Rounded(n) /\ Rounded(n) \in Nat
  BY <1>1, PayloadIn, RoundedFacts
<1> QED
  BY <1>1, <1>2

------------------------------------------------------------------------------
\* The invariant.

\* What syscall.c keeps of an exit is this run's.
StatusOK ==
  running => /\ g_app_exit_requested => said = <<g_app_exit_code>>
             /\ ~g_app_exit_requested => said = <<>>

IInv == ArenaOK(arena) /\ LiveOK(arena, live) /\ StatusOK

LEMMA Numbers ==
  /\ MOD \in Nat /\ MOD > 63
  /\ \A n \in Requests : n \in 0..MOD - 1 /\ (Sane(n) \/ Wraps(n)) /\ (Sane(2 * n) \/ 2 * n >= MOD)
  BY ModAssumption, ProcessAssumption, RequestAssumption

LEMMA NewArenaOK ==
  ASSUME NEW base \in Nat, NEW limit \in Nat, base <= limit
  PROVE  ArenaOK(NewArena(base, limit)) /\ LiveOK(NewArena(base, limit), <<>>)
<1> DEFINE a == NewArena(base, limit)
<1>1. /\ a.base = base /\ a.brk = base /\ a.limit = limit /\ a.size = <<>> /\ a.free = <<>>
      /\ IsArena(a)
  BY DEF NewArena, IsArena
<1> HIDE DEF a
<1>2. Blocks(a) = {} /\ a.free \in Seq(Blocks(a)) /\ Len(a.free) = 0 /\ DOMAIN <<>> = {}
  BY <1>1 DEF Blocks
<1>3. ListOK(a) /\ Apart(a)
  BY <1>2 DEF ListOK, Apart
<1>4. ArenaOK(a)
  BY <1>1, <1>2, <1>3 DEF ArenaOK
<1>5. LiveOK(a, <<>>)
  BY <1>2 DEF LiveOK
<1> QED
  BY <1>4, <1>5 DEF a

LEMMA NoArenaOK == ArenaOK(NoArena) /\ LiveOK(NoArena, <<>>)
  BY NewArenaOK DEF NoArena

LEMMA HeapOfOK ==
  ASSUME NEW size \in ImageSizes
  PROVE  ArenaOK(HeapOf(size)) /\ LiveOK(HeapOf(size), <<>>)
<1> DEFINE k == (size + PAGE - 1) \div PAGE
           base == k * PAGE
<1>1. size \in Nat /\ size >= 1 /\ PAGE \in Nat \ {0} /\ E32_RUNTIME_MAX \in Nat
  BY ProcessAssumption
<1>2. k \in Nat
  <2> DEFINE m == size + PAGE - 1
  <2>1. m \in Nat
    BY <1>1
  <2> HIDE DEF m
  <2>2. m \div PAGE \in Nat
    BY <1>1, <2>1
  <2> QED
    BY <2>2 DEF m
<1>3. HeapOf(size) = IF base < E32_RUNTIME_MAX THEN NewArena(base, E32_RUNTIME_MAX) ELSE NoArena
  BY DEF HeapOf
<1> HIDE DEF k
<1>4. base \in Nat
  BY <1>1, <1>2
<1> HIDE DEF base
<1>5. base < E32_RUNTIME_MAX => base <= E32_RUNTIME_MAX
  BY <1>1, <1>4
<1> QED
  BY <1>1, <1>3, <1>4, <1>5, NewArenaOK, NoArenaOK

LEMMA InitKeeps == Init => IInv
  BY NoArenaOK DEF Init, IInv, StatusOK

LEMMA MallocKeeps ==
  ASSUME ArenaOK(arena), LiveOK(arena, live), NEW n \in Requests, NEW v, Malloc(n, v)
  PROVE  ArenaOK(arena') /\ LiveOK(arena', live')
<1> DEFINE r == malloc(arena, n)
           a == r.a
           h == r.h
<1>1. /\ arena' = IF h = NULL THEN a ELSE Filled(a, h, n, v)
      /\ live' = IF h = NULL THEN live ELSE With(live, h, n, v)
  BY DEF Malloc
<1>2. n \in 0..MOD - 1 /\ (Sane(n) \/ Wraps(n))
  BY Numbers
<1>3. Gives(arena, r, 8 + Rounded(n), live)
  BY <1>2, MallocGives
<1> HIDE DEF r
<1>4. CASE h = NULL
  BY <1>1, <1>3, <1>4 DEF Gives
<1>5. CASE h # NULL
  <2>1. /\ ArenaOK(a) /\ LiveOK(a, live)
        /\ h \in Blocks(a) /\ ~Listed(a, h) /\ h \notin DOMAIN live
        /\ a.size[h] >= 8 + Rounded(n)
    BY <1>3, <1>5 DEF Gives
  <2> HIDE DEF a, h
  <2>2. Fits(a, h, n)
    <3>1. a.size[h] \in Nat /\ Rounded(n) \in Nat
      BY <1>2, <2>1, BlockFacts, RoundedFacts
    <3>2. Rounded(n) + 8 <= a.size[h]
      BY <2>1, <3>1
    <3> QED
      BY <1>2, <3>2 DEF Fits
  <2>3. \A w \in Payload(h, n) : w \in Nat /\ h <= w /\ w < h + a.size[h]
    BY <2>1, <2>2, PayloadInBlock
  <2>4. /\ ArenaOK([a EXCEPT !.mem = Stored(@, Payload(h, n), v)])
        /\ LiveOK([a EXCEPT !.mem = Stored(@, Payload(h, n), v)], With(live, h, n, v))
    BY <2>1, <2>2, <2>3, FillKeeps
  <2> QED
    BY <1>1, <1>5, <2>4 DEF Filled
<1> QED
  BY <1>4, <1>5

LEMMA CallocKeeps ==
  ASSUME ArenaOK(arena), LiveOK(arena, live), NEW nmemb \in {0, 2}, NEW size \in Requests,
         Calloc(nmemb, size)
  PROVE  ArenaOK(arena') /\ LiveOK(arena', live')
<1> DEFINE n == nmemb * size
           r == calloc(arena, nmemb, size)
           m == malloc(arena, n)
           a == m.a
           h == m.h
<1>1. arena' = r.a /\ live' = IF r.h = NULL THEN live ELSE With(live, r.h, n, "zero")
  BY DEF Calloc
<1>2. CASE nmemb # 0 /\ size > (MOD - 1) \div nmemb
  <2>1. r = [a |-> arena, h |-> NULL]
    BY <1>2 DEF calloc
  <2> QED
    BY <1>1, <2>1
<1>3. CASE ~(nmemb # 0 /\ size > (MOD - 1) \div nmemb)
  <2>1. n \in 0..MOD - 1 /\ Sane(n)
    <3>1. MOD \in Nat /\ MOD > 63 /\ size \in 0..MOD - 1 /\ (Sane(2 * size) \/ 2 * size >= MOD)
      BY Numbers
    <3>2. CASE nmemb = 0
      <4>1. n = 0
        BY <3>1, <3>2
      <4>2. MOD \div 2 >= 16
        BY <3>1
      <4> QED
        BY <3>1, <4>1, <4>2 DEF Sane, MHDR_SZ
    <3>3. CASE nmemb = 2
      <4>1. n = 2 * size
        BY <3>3
      <4>2. 2 * ((MOD - 1) \div 2) <= MOD - 1 /\ (MOD - 1) \div 2 \in Int
        BY <3>1
      <4>3. size <= (MOD - 1) \div 2
        BY <1>3, <3>1, <3>3, <4>2
      <4>4. 2 * size <= MOD - 1
        BY <3>1, <4>2, <4>3
      <4> QED
        BY <3>1, <4>1, <4>4
    <3> QED
      BY <3>2, <3>3
  <2>2. r = IF h = NULL THEN m
            ELSE [m EXCEPT !.a.mem = Stored(@, Words(h + MHDR_SZ, n), "zero")]
    BY <1>3 DEF calloc
  <2> HIDE DEF n
  <2>3. Gives(arena, m, 8 + Rounded(n), live)
    BY <2>1, MallocGives
  <2>4. m = [a |-> a, h |-> h]
    BY DEF malloc, morecore, Take
  <2> HIDE DEF m, r
  <2>5. CASE h = NULL
    BY <1>1, <2>2, <2>3, <2>5 DEF Gives
  <2>6. CASE h # NULL
    <3> DEFINE b == [a EXCEPT !.mem = Stored(@, Words(h + MHDR_SZ, n), "zero")]
    <3>1. r = [m EXCEPT !.a = b]
      BY <2>2, <2>6
    <3>2. r.a = b /\ r.h = h
      <4> HIDE DEF a, h, b
      <4> QED
        BY <2>4, <3>1
    <3>3. /\ ArenaOK(a) /\ LiveOK(a, live)
          /\ h \in Blocks(a) /\ ~Listed(a, h) /\ h \notin DOMAIN live
          /\ a.size[h] >= 8 + Rounded(n)
      BY <2>3, <2>6 DEF Gives
    <3> HIDE DEF a, h
    <3>4. Fits(a, h, n)
      <4>1. a.size[h] \in Nat /\ Rounded(n) \in Nat
        BY <2>1, <3>3, BlockFacts, RoundedFacts
      <4>2. Rounded(n) + 8 <= a.size[h]
        BY <3>3, <4>1
      <4> QED
        BY <2>1, <4>2 DEF Fits
    <3>5. Payload(h, n) = Words(h + MHDR_SZ, n)
      <4>1. ~Wraps(n)
        <5>1. MOD \div 2 <= MOD - 20 /\ MOD \div 2 \in Nat /\ MOD \in Nat
          BY Numbers
        <5> QED
          BY <2>1, <5>1 DEF Sane, Wraps, MHDR_SZ
      <4> QED
        BY <4>1 DEF Payload
    <3>6. \A w \in Payload(h, n) : w \in Nat /\ h <= w /\ w < h + a.size[h]
      BY <3>3, <3>4, PayloadInBlock
    <3>7. ArenaOK(b) /\ LiveOK(b, With(live, h, n, "zero"))
      <4>1. /\ ArenaOK([a EXCEPT !.mem = Stored(@, Payload(h, n), "zero")])
            /\ LiveOK([a EXCEPT !.mem = Stored(@, Payload(h, n), "zero")], With(live, h, n, "zero"))
        BY <3>3, <3>4, <3>6, FillKeeps
      <4> QED
        BY <3>5, <4>1
    <3> HIDE DEF b
    <3> QED
      BY <1>1, <2>6, <3>2, <3>7 DEF n
  <2> QED
    BY <2>5, <2>6
<1> QED
  BY <1>2, <1>3

LEMMA FreeStepKeeps ==
  ASSUME ArenaOK(arena), LiveOK(arena, live), NEW h \in DOMAIN live
  PROVE  ArenaOK(free(arena, h)) /\ LiveOK(free(arena, h), Without(h))
<1>1. h \in Blocks(arena) /\ ~Listed(arena, h)
  BY DEF LiveOK
<1>2. LiveOK(arena, Without(h)) /\ h \notin DOMAIN Without(h)
  BY WithoutFacts
<1> QED
  BY <1>1, <1>2, FreeKeeps

\* What realloc copies it copies unaltered.
LEMMA CopyHolds ==
  ASSUME NEW a, IsArena(a), NEW from, NEW to, NEW bytes,
         NEW b, b = Copied(a, from, to, bytes),
         NEW w \in Words(to, bytes), from + (w - to) \in DOMAIN a.mem
  PROVE  w \in DOMAIN b.mem /\ b.mem[w] = a.mem[from + (w - to)]
<1> DEFINE words == Words(to, bytes)
           m == [x \in DOMAIN a.mem \cup words |->
                   IF x \notin words THEN a.mem[x]
                   ELSE IF from + (x - to) \in DOMAIN a.mem THEN a.mem[from + (x - to)] ELSE "unknown"]
<1>1. b = [a EXCEPT !.mem = m]
  BY DEF Copied
<1>2. w \in DOMAIN m /\ m[w] = a.mem[from + (w - to)]
  OBVIOUS
<1> HIDE DEF m
<1>3. b = [base |-> a.base, brk |-> a.brk, limit |-> a.limit, size |-> a.size,
           free |-> a.free, mem |-> m]
  BY <1>1 DEF IsArena
<1> QED
  BY <1>2, <1>3

\* It copies the words that both blocks have.
LEMMA CopyReaches ==
  ASSUME NEW h \in Nat, NEW q \in Nat, NEW old \in 0..MOD - 1, NEW n \in 0..MOD - 1,
         NEW bytes \in Nat, bytes = n \/ Wraps(old) \/ Rounded(old) <= bytes,
         NEW w, w \in Payload(q, n), w \in Payload(q, old)
  PROVE  /\ w \in Words(q + MHDR_SZ, bytes)
         /\ h + MHDR_SZ + (w - (q + MHDR_SZ)) \in Payload(h, old)
<1>2. /\ MOD \in Nat /\ old \in Nat /\ n \in Nat
      /\ ~Wraps(n) /\ ~Wraps(old)
      /\ w \in Words(q + MHDR_SZ, n) /\ w \in Words(q + MHDR_SZ, old)
  BY Numbers DEF Payload
<1>3. PICK i \in 0..((old + 7) \div 8) - 1 : w = q + MHDR_SZ + 8 * i
  BY <1>2 DEF Words
<1>4. PICK j \in 0..((n + 7) \div 8) - 1 : w = q + MHDR_SZ + 8 * j
  BY <1>2 DEF Words
<1>5. i = j /\ i \in Nat
  BY <1>3, <1>4 DEF MHDR_SZ
<1>6. i \in 0..((bytes + 7) \div 8) - 1
  <2>1. CASE bytes # n
    <3>1. old <= bytes
      <4>1. old <= Rounded(old) /\ Rounded(old) \in Nat
        BY <1>2, RoundedFacts
      <4> QED
        BY <1>2, <2>1, <4>1
    <3>2. (old + 7) \div 8 <= (bytes + 7) \div 8
      BY <1>2, <3>1
    <3> QED
      BY <1>2, <1>3, <3>2
  <2>2. CASE bytes = n
    BY <1>4, <1>5, <2>2
  <2> QED
    BY <2>1, <2>2
<1>7. w \in Words(q + MHDR_SZ, bytes)
  BY <1>3, <1>6 DEF Words
<1>8. h + MHDR_SZ + (w - (q + MHDR_SZ)) = h + MHDR_SZ + 8 * i
  BY <1>3, <1>5 DEF MHDR_SZ
<1>9. h + MHDR_SZ + 8 * i \in Payload(h, old)
  BY <1>2, <1>3 DEF Payload, Words
<1> QED
  BY <1>7, <1>8, <1>9

\* The copy is made inside the new block.
LEMMA CopyElsewhere ==
  ASSUME NEW a, ArenaOK(a), NEW from, NEW q \in Blocks(a), NEW n, Fits(a, q, n), ~Wraps(n),
         NEW bytes \in Nat, bytes <= n, NEW b, b = Copied(a, from, q + MHDR_SZ, bytes)
  PROVE  /\ ArenaOK(b) /\ b.size = a.size /\ b.free = a.free
         /\ Elsewhere(a, b, q)
<1> DEFINE to == q + MHDR_SZ
           words == Words(to, bytes)
           m == [x \in DOMAIN a.mem \cup words |->
                   IF x \notin words THEN a.mem[x]
                   ELSE IF from + (x - to) \in DOMAIN a.mem THEN a.mem[from + (x - to)] ELSE "unknown"]
<1>1. b = [a EXCEPT !.mem = m]
  BY DEF Copied
<1>2. \A w \in words : q <= w /\ w < q + a.size[q]
  <2> SUFFICES ASSUME NEW w \in words PROVE q <= w /\ w < q + a.size[q]
    OBVIOUS
  <2>1. /\ q \in Nat /\ a.size[q] \in Nat /\ n \in 0..MOD - 1 /\ MOD \in Nat
        /\ Rounded(n) + 8 <= a.size[q]
    BY BlockFacts, Numbers DEF Fits
  <2>2. Rounded(n) = 8 * ((n + 7) \div 8) /\ Rounded(n) \in Nat
    BY <2>1, RoundedFacts
  <2>3. w \in Nat /\ q + 8 <= w /\ w + 8 <= q + 8 + 8 * ((bytes + 7) \div 8)
    BY <2>1, WordsIn
  <2>4. (bytes + 7) \div 8 <= (n + 7) \div 8
    BY <2>1
  <2>5. (bytes + 7) \div 8 \in Nat /\ (n + 7) \div 8 \in Nat
    BY <2>1
  <2> DEFINE k == (bytes + 7) \div 8
             l == (n + 7) \div 8
  <2> HIDE DEF k, l, words
  <2> QED
    BY <2>1, <2>2, <2>3, <2>4, <2>5 DEF k, l
<1>3. \A w \in DOMAIN a.mem : w \notin words => w \in DOMAIN m /\ m[w] = a.mem[w]
  OBVIOUS
<1> HIDE DEF m, words
<1>4. b.mem = m /\ ArenaOK(b) /\ b.size = a.size /\ b.free = a.free
  BY <1>1, StoreArena
<1>5. Elsewhere(a, b, q)
  <2>1. q \in Nat /\ a.size[q] \in Nat
    BY BlockFacts
  <2>2. \A w \in Nat : w < q \/ q + a.size[q] <= w => w \notin words
    BY <1>2, <2>1
  <2> QED
    BY <1>3, <1>4, <2>2 DEF Elsewhere
<1> QED
  BY <1>4, <1>5

LEMMA ReallocKeeps ==
  ASSUME ArenaOK(arena), LiveOK(arena, live), NEW h \in DOMAIN live, NEW n \in Requests,
         Realloc(h, n)
  PROVE  ArenaOK(arena') /\ LiveOK(arena', live')
<1> DEFINE oldsz == arena.size[h] - MHDR_SZ
           r == realloc(arena, h, n)
           old == live[h].n
           v == live[h].v
           grown == Payload(r.h, n) \ Payload(r.h, old)
           rest == Without(h)
           a == r.a
           q == r.h
<1>1. \/ q = NULL /\ arena' = a /\ live' = IF n = 0 THEN rest ELSE live
      \/ /\ q # NULL /\ arena' = [a EXCEPT !.mem = Stored(@, grown, v)]
         /\ live' = With(rest, q, n, v)
  BY DEF Realloc
<1>2. /\ h \in Blocks(arena) /\ ~Listed(arena, h)
      /\ Fits(arena, h, old) /\ Holds(arena, h, old, v)
  BY DEF LiveOK
<1>3. /\ h \in Nat /\ arena.size[h] \in Nat /\ arena.size[h] >= 8 /\ h # NULL
      /\ oldsz = arena.size[h] - 8 /\ oldsz \in Nat
  BY <1>2, BlockFacts DEF NULL, MHDR_SZ
<1>4. n \in 0..MOD - 1 /\ (Sane(n) \/ Wraps(n)) /\ MOD \in Nat /\ n \in Nat
  BY Numbers
<1>5. Rounded(n) \in Nat
  BY <1>4, RoundedFacts
<1>6. LiveOK(arena, rest) /\ h \notin DOMAIN rest /\ DOMAIN rest \subseteq DOMAIN live
  BY WithoutFacts
<1>7. CASE n = 0
  <2>1. r = [a |-> free(arena, h), h |-> NULL]
    BY <1>7 DEF realloc
  <2>2. a = free(arena, h) /\ q = NULL
    BY <2>1
  <2> QED
    BY <1>1, <1>7, <2>2, FreeStepKeeps
<1>8. CASE n # 0 /\ Rounded(n) <= oldsz
  <2>1. r = [a |-> arena, h |-> h]
    BY <1>8 DEF realloc
  <2>2. a = arena /\ q = h
    BY <2>1
  <2>3. Fits(arena, h, n)
    BY <1>3, <1>4, <1>5, <1>8 DEF Fits
  <2>4. \A w \in Payload(h, n) : w \in Nat /\ h <= w /\ w < h + arena.size[h]
    BY <1>2, <2>3, PayloadInBlock
  <2>5. /\ \A w \in grown : w \in Nat /\ h <= w /\ w < h + arena.size[h]
        /\ \A w \in Payload(h, n) : w \in grown \/ (w \in DOMAIN arena.mem /\ arena.mem[w] = v)
    BY <1>2, <2>2, <2>4 DEF Holds
  <2> HIDE DEF grown, v, rest, r
  <2>6. /\ ArenaOK([arena EXCEPT !.mem = Stored(@, grown, v)])
        /\ LiveOK([arena EXCEPT !.mem = Stored(@, grown, v)], With(rest, h, n, v))
    BY <1>2, <1>6, <2>3, <2>5, FillKeeps
  <2> QED
    BY <1>1, <1>3, <2>2, <2>6
<1>9. CASE n # 0 /\ ~(Rounded(n) <= oldsz)
  <2> DEFINE g == malloc(arena, n)
             bytes == IF oldsz < n THEN oldsz ELSE n
             a1 == g.a
             p == g.h
             a2 == Copied(a1, h + MHDR_SZ, p + MHDR_SZ, bytes)
             a3 == free(a2, h)
  <2>1. r = IF p = NULL THEN g ELSE [a |-> a3, h |-> p]
    BY <1>9 DEF realloc
  <2>2. Gives(arena, g, 8 + Rounded(n), live)
    BY <1>4, MallocGives
  <2>3. CASE p = NULL
    <3>1. a = arena /\ q = NULL
      BY <2>1, <2>2, <2>3 DEF Gives
    <3> QED
      BY <1>1, <1>9, <3>1
  <2>4. CASE p # NULL
    <3>1. a = a3 /\ q = p
      BY <2>1, <2>4
    <3>2. /\ ArenaOK(a1) /\ LiveOK(a1, live)
          /\ p \in Blocks(a1) /\ ~Listed(a1, p) /\ p \notin DOMAIN live
          /\ a1.size[p] >= 8 + Rounded(n)
      BY <2>2, <2>4 DEF Gives
    <3> HIDE DEF g, r
    <3>3. ~Wraps(n)
      BY <1>3, <1>4, <1>9, RoundedFacts
    <3>4. Fits(a1, p, n) /\ p \in Nat /\ p # h
      <4>1. a1.size[p] \in Nat /\ p \in Nat
        BY <3>2, BlockFacts
      <4>2. Rounded(n) + 8 <= a1.size[p]
        BY <1>5, <3>2, <4>1
      <4> QED
        BY <1>4, <3>2, <4>1, <4>2 DEF Fits
    <3>5. bytes \in Nat /\ bytes <= n
      BY <1>3, <1>4
    <3> HIDE DEF a1, p, bytes
    <3>6. /\ ArenaOK(a2) /\ a2.size = a1.size /\ a2.free = a1.free
          /\ Elsewhere(a1, a2, p)
      BY <3>2, <3>3, <3>4, <3>5, CopyElsewhere
    <3>7. \A w \in Payload(p, n) : w \in Payload(p, old) => w \in DOMAIN a2.mem /\ a2.mem[w] = v
      <4>1. Holds(a1, h, old, v) /\ IsArena(a1)
        BY <3>2 DEF LiveOK, ArenaOK
      <4>2. old \in 0..MOD - 1 /\ (Wraps(old) \/ Rounded(old) <= oldsz)
        <5>1. old \in 0..MOD - 1 /\ (Wraps(old) \/ Rounded(old) + 8 <= arena.size[h])
          BY <1>2 DEF Fits
        <5>2. Rounded(old) \in Nat
          BY <5>1, RoundedFacts
        <5> QED
          BY <1>3, <5>1, <5>2
      <4> HIDE DEF v, old, oldsz
      <4>3. a2 = Copied(a1, h + MHDR_SZ, p + MHDR_SZ, bytes)
        OBVIOUS
      <4>4. bytes \in Nat /\ (bytes = n \/ Wraps(old) \/ Rounded(old) <= bytes)
        BY <3>5, <4>2 DEF bytes
      <4> HIDE DEF a2
      <4> SUFFICES ASSUME NEW w, w \in Payload(p, n), w \in Payload(p, old)
                   PROVE  w \in DOMAIN a2.mem /\ a2.mem[w] = v
        OBVIOUS
      <4> DEFINE from == h + MHDR_SZ
                 to == p + MHDR_SZ
      <4>5. w \in Words(to, bytes) /\ from + (w - to) \in Payload(h, old)
        BY <1>3, <1>4, <3>4, <4>2, <4>4, CopyReaches
      <4>6. a2 = Copied(a1, from, to, bytes)
        BY <4>3
      <4> HIDE DEF from, to
      <4>7. from + (w - to) \in DOMAIN a1.mem /\ a1.mem[from + (w - to)] = v
        BY <4>1, <4>5 DEF Holds
      <4> QED
        BY <4>1, <4>5, <4>6, <4>7, CopyHolds
    <3> HIDE DEF a2
    <3>8. LiveOK(a2, live)
      BY <3>2, <3>6, StoreKeepsLive
    <3>9. /\ h \in Blocks(a2) /\ ~Listed(a2, h) /\ LiveOK(a2, rest)
          /\ p \in Blocks(a2) /\ ~Listed(a2, p) /\ Fits(a2, p, n)
      <4>1. h \in Blocks(a2) /\ ~Listed(a2, h)
        BY <3>8 DEF LiveOK
      <4>2. p \in Blocks(a2) /\ ~Listed(a2, p) /\ Fits(a2, p, n)
        BY <3>2, <3>4, <3>6 DEF Blocks, Listed, Fits
      <4> QED
        BY <3>8, <4>1, <4>2, WithoutFacts
    <3> HIDE DEF rest
    <3>10. /\ ArenaOK(a3) /\ LiveOK(a3, rest) /\ Blocks(a3) = Blocks(a2)
           /\ \A x \in Blocks(a2) : a3.size[x] = a2.size[x]
           /\ \A x \in Blocks(a2) : Listed(a3, x) => Listed(a2, x) \/ x = h
           /\ Elsewhere(a2, a3, h)
      BY <1>6, <3>6, <3>9, FreeKeeps
    <3> HIDE DEF a3
    <3>11. p \in Blocks(a3) /\ ~Listed(a3, p) /\ Fits(a3, p, n) /\ p \notin DOMAIN rest
      <4>1. p \in Blocks(a3) /\ ~Listed(a3, p) /\ a3.size[p] = a2.size[p]
        BY <3>4, <3>9, <3>10
      <4>2. Fits(a3, p, n)
        BY <3>9, <4>1 DEF Fits
      <4> QED
        BY <1>6, <3>2, <4>1, <4>2
    <3>12. \A w \in Payload(p, n) : w \in Nat /\ p <= w /\ w < p + a3.size[p]
      BY <3>10, <3>11, PayloadInBlock
    <3>13. ASSUME NEW w \in Payload(p, n), w \in Payload(p, old)
           PROVE  w \in DOMAIN a3.mem /\ a3.mem[w] = v
      <4>1. w \in Nat /\ (w < h \/ h + a2.size[h] <= w)
        BY <3>4, <3>6, <3>9, PayloadElsewhere
      <4>2. w \in DOMAIN a2.mem /\ a2.mem[w] = v
        BY <3>7, <3>13
      <4> QED
        BY <3>10, <4>1, <4>2 DEF Elsewhere
    <3> DEFINE X == Payload(p, n) \ Payload(p, old)
    <3>14. /\ grown = X
           /\ \A w \in X : w \in Nat /\ p <= w /\ w < p + a3.size[p]
           /\ \A w \in Payload(p, n) : w \in X \/ (w \in DOMAIN a3.mem /\ a3.mem[w] = v)
      BY <3>1, <3>12, <3>13
    <3> HIDE DEF X, v
    <3>15. /\ ArenaOK([a3 EXCEPT !.mem = Stored(@, X, v)])
           /\ LiveOK([a3 EXCEPT !.mem = Stored(@, X, v)], With(rest, p, n, v))
      BY <3>10, <3>11, <3>14, FillKeeps
    <3> HIDE DEF grown
    <3> QED
      BY <1>1, <2>4, <3>1, <3>14, <3>15
  <2> QED
    BY <2>3, <2>4
<1> QED
  BY <1>7, <1>8, <1>9

LEMMA StepKeeps == IInv /\ [Next]_vars => IInv'
<1> SUFFICES ASSUME IInv, [Next]_vars PROVE IInv'
  OBVIOUS
<1>0. ArenaOK(arena) /\ LiveOK(arena, live) /\ StatusOK
  BY DEF IInv
<1>1. ASSUME ArenaOK(arena'), LiveOK(arena', live'), StatusOK' PROVE IInv'
  BY <1>1 DEF IInv, ArenaOK, LiveOK, IsArena, Blocks, Apart, ListOK, Listed, Fits, Holds
<1>2. ASSUME Quiet PROVE StatusOK'
  BY <1>0, <1>2 DEF Quiet, StatusOK
<1>3. ASSUME NEW size \in ImageSizes, Exec(size) PROVE IInv'
  <2>1. ArenaOK(arena') /\ LiveOK(arena', live')
    BY <1>3, HeapOfOK DEF Exec
  <2>2. StatusOK'
    BY <1>3 DEF Exec, syscall_app_begin, StatusOK
  <2> QED
    BY <1>1, <2>1, <2>2
<1>4. ASSUME NEW error, ExecFails(error) PROVE IInv'
  BY <1>0, <1>1, <1>4 DEF ExecFails, StatusOK
<1>5. ASSUME NEW code, sys_exit(code) PROVE IInv'
  BY <1>0, <1>1, <1>5 DEF sys_exit, StatusOK
<1>6. ASSUME NEW rc, Return(rc) PROVE IInv'
  BY <1>1, <1>6, NoArenaOK DEF Return, StatusOK
<1>7. ASSUME NEW n \in Requests, NEW v, Malloc(n, v) PROVE IInv'
  BY <1>0, <1>1, <1>2, <1>7, MallocKeeps DEF Malloc
<1>8. ASSUME NEW nmemb \in {0, 2}, NEW size \in Requests, Calloc(nmemb, size) PROVE IInv'
  BY <1>0, <1>1, <1>2, <1>8, CallocKeeps DEF Calloc
<1>9. ASSUME NEW h \in DOMAIN live, Free(h) PROVE IInv'
  <2>1. arena' = free(arena, h) /\ live' = Without(h) /\ Quiet
    BY <1>9 DEF Free
  <2> QED
    BY <1>0, <1>1, <1>2, <2>1, FreeStepKeeps
<1>10. ASSUME NEW h \in DOMAIN live, NEW n \in Requests, Realloc(h, n) PROVE IInv'
  BY <1>0, <1>1, <1>2, <1>10, ReallocKeeps DEF Realloc
<1>11. CASE UNCHANGED vars
  BY <1>0, <1>1, <1>11 DEF vars, StatusOK
<1> QED
  BY <1>3, <1>4, <1>5, <1>6, <1>7, <1>8, <1>9, <1>10, <1>11 DEF Next

LEMMA InvariantHolds == Spec => []IInv
  BY InitKeeps, StepKeeps, PTL DEF Spec

\* stdlib.c:31-103, unistd.c:31-63, syscall.c:242-253.  However a program
\* allocates, frees, splits and reallocates, in an image of any size, every
\* word of a block keeps what its owner wrote and lies below the break.
THEOREM ProgramsKeepTheirData == Spec => []DataKept
<1>1. IInv => DataKept
  <2> SUFFICES ASSUME IInv, NEW h \in DOMAIN live, NEW w \in Payload(h, live[h].n)
               PROVE  arena.mem[w] = live[h].v /\ w \in arena.base..arena.brk - 8
    BY DEF DataKept
  <2> DEFINE n == live[h].n
  <2>1. /\ ArenaOK(arena) /\ h \in Blocks(arena)
        /\ Fits(arena, h, n) /\ Holds(arena, h, n, live[h].v)
    BY DEF IInv, LiveOK
  <2>2. /\ h \in Nat /\ arena.size[h] \in Nat /\ arena.base <= h
        /\ h + arena.size[h] <= arena.brk /\ arena.base \in Nat /\ arena.brk \in Nat
    BY <2>1, BlockFacts DEF ArenaOK
  <2>3. n \in 0..MOD - 1 /\ (Wraps(n) \/ Rounded(n) + 8 <= arena.size[h])
    BY <2>1 DEF Fits
  <2>4. arena.mem[w] = live[h].v
    BY <2>1 DEF Holds
  <2> HIDE DEF n
  <2>5. /\ ~Wraps(n) /\ w \in Nat /\ h + 8 <= w /\ w + 8 <= h + 8 + Rounded(n)
        /\ Rounded(n) \in Nat
    BY <2>2, <2>3, PayloadIn, RoundedFacts DEF n
  <2>6. w \in arena.base..arena.brk - 8
    BY <2>2, <2>3, <2>5
  <2> QED
    BY <2>4, <2>6
<1> QED
  BY <1>1, InvariantHolds, PTL

\* e32_loader.c:68-78.  The answer for a program is the code it last passed to
\* exit, or what its entry returned, and never one that an earlier program left.
THEOREM StatusIsTheProgramsOwn == Spec => StatusIsOwn
<1>1. IInv /\ [Next]_vars => [running /\ ~running' => <<result'>> = said']_vars
  <2> SUFFICES ASSUME IInv, Next, running, ~running' PROVE <<result'>> = said'
    OBVIOUS
  <2>1. PICK rc : Return(rc)
    BY DEF Next, Exec, ExecFails, sys_exit, Malloc, Calloc, Free, Realloc, Quiet
  <2>2. /\ g_app_exit_requested => said = <<g_app_exit_code>>
        /\ ~g_app_exit_requested => said = <<>>
    BY DEF IInv, StatusOK
  <2>3. <<g_app_exit_code>> # <<>>
    OBVIOUS
  <2> QED
    BY <2>1, <2>2, <2>3 DEF Return
<1> QED
  BY <1>1, InvariantHolds, PTL DEF Spec, StatusIsOwn

==============================================================================
