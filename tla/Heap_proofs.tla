----------------------------- MODULE Heap_proofs ------------------------------
(***************************************************************************)
(* For every size of the arena, of the tags and of the requests: kmalloc,  *)
(* krealloc and kfree leave blocks that tile the arena and a free list     *)
(* that is exact, give each client a block of its own, and implement the   *)
(* allocator of abstract chunks.                                           *)
(*                                                                         *)
(* The lemmas are about an arbitrary heap h: what unlinking and linking do *)
(* to the list (Lists), what rewriting, splitting and absorbing tags do to *)
(* the blocks (Tiled), and from these what TakeBlock and FreeBlock do to   *)
(* both (Exact).  The steps of the specification then only relate the used *)
(* blocks to what clients hold.  That rounding does not wrap (NoWrap) is   *)
(* needed where a block's length is compared with what was asked for.      *)
(***************************************************************************)
EXTENDS Heap, SequenceTheorems, WellFoundedInduction, TLAPS

------------------------------------------------------------------------------
\* The free list: s lists each element of S once.

Lists(s, S) ==
  /\ s \in Seq(S)
  /\ \A x \in S : \E i \in 1..Len(s) : s[i] = x
  /\ \A i, j \in 1..Len(s) : s[i] = s[j] => i = j

LEMMA RemoveAtProperties ==
  ASSUME NEW S, NEW s \in Seq(S), NEW k \in 1..Len(s)
  PROVE  /\ RemoveAt(s, k) \in Seq(S) /\ Len(RemoveAt(s, k)) = Len(s) - 1
         /\ \A i \in 1..Len(s) - 1 : RemoveAt(s, k)[i] = s[IF i < k THEN i ELSE i + 1]
<1> DEFINE u == SubSeq(s, 1, k - 1)
           v == SubSeq(s, k + 1, Len(s))
<1>0. Len(s) \in Nat /\ k \in Nat /\ 1 <= k /\ k <= Len(s)
  OBVIOUS
<1>1. u \in Seq(S) /\ Len(u) = k - 1 /\ \A i \in 1..k - 1 : u[i] = s[i]
  OBVIOUS
<1>2. v \in Seq(S) /\ Len(v) = Len(s) - k /\ \A i \in 1..Len(s) - k : v[i] = s[i + k]
  OBVIOUS
<1> HIDE DEF u, v
<1>3. /\ u \o v \in Seq(S) /\ Len(u \o v) = Len(u) + Len(v)
      /\ \A i \in 1..Len(u) + Len(v) :
           (u \o v)[i] = IF i <= Len(u) THEN u[i] ELSE v[i - Len(u)]
  BY <1>1, <1>2, ConcatProperties
<1>4. Len(u) + Len(v) = Len(s) - 1
  BY <1>0, <1>1, <1>2
<1>5. ASSUME NEW i \in 1..Len(s) - 1
      PROVE  (u \o v)[i] = s[IF i < k THEN i ELSE i + 1]
  <2>1. CASE i < k
    <3>1. i \in 1..k - 1 /\ i <= Len(u) /\ i \in 1..Len(u) + Len(v)
      BY <2>1, <1>0, <1>1, <1>4
    <3> QED
      BY <3>1, <2>1, <1>1, <1>3
  <2>2. CASE ~(i < k)
    <3>1. /\ i - (k - 1) \in 1..Len(s) - k /\ ~(i <= Len(u)) /\ i \in 1..Len(u) + Len(v)
          /\ i - (k - 1) + k = i + 1
      BY <2>2, <1>0, <1>1, <1>4
    <3>2. (u \o v)[i] = v[i - (k - 1)]
      BY <3>1, <1>1, <1>3
    <3> QED
      BY <3>1, <3>2, <2>2, <1>2
  <2> QED
    BY <2>1, <2>2
<1> QED
  BY <1>3, <1>4, <1>5 DEF RemoveAt, u, v

LEMMA RemoveLists ==
  ASSUME NEW S, NEW s, Lists(s, S), NEW b \in S
  PROVE  Lists(RemoveAt(s, CHOOSE j \in DOMAIN s : s[j] = b), S \ {b})
<1> DEFINE k == CHOOSE j \in DOMAIN s : s[j] = b
           t == RemoveAt(s, k)
           At(i) == IF i < k THEN i ELSE i + 1
<1>1. s \in Seq(S) /\ DOMAIN s = 1..Len(s) /\ Len(s) \in Nat
  BY DEF Lists
<1>2. k \in 1..Len(s) /\ s[k] = b
  BY <1>1 DEF Lists
<1> HIDE DEF k
<1>3. /\ t \in Seq(S) /\ Len(t) = Len(s) - 1
      /\ \A i \in 1..Len(s) - 1 : t[i] = s[At(i)]
  BY <1>1, <1>2, RemoveAtProperties
<1> HIDE DEF t
<1>4. \A i \in 1..Len(s) - 1 : At(i) \in 1..Len(s) /\ At(i) # k
  BY <1>1, <1>2
<1>5. \A i, j \in 1..Len(s) - 1 : At(i) = At(j) => i = j
  BY <1>1, <1>2
<1>6. \A m \in 1..Len(s) : m # k => \E i \in 1..Len(s) - 1 : At(i) = m
  <2> SUFFICES ASSUME NEW m \in 1..Len(s), m # k
               PROVE  \E i \in 1..Len(s) - 1 : At(i) = m
    OBVIOUS
  <2>1. CASE m < k
    BY <2>1, <1>1, <1>2
  <2>2. CASE m > k
    <3>1. m - 1 \in 1..Len(s) - 1 /\ At(m - 1) = m
      BY <2>2, <1>1, <1>2
    <3> QED
      BY <3>1
  <2> QED
    BY <2>1, <2>2, <1>1, <1>2
<1> HIDE DEF At
<1>7. \A i \in 1..Len(t) : t[i] \in S \ {b}
  BY <1>1, <1>2, <1>3, <1>4 DEF Lists
<1>8. t \in Seq(S \ {b})
  <2>1. Len(t) \in Nat /\ t = [i \in 1..Len(t) |-> t[i]]
    BY <1>3
  <2> QED
    BY <2>1, <1>7
<1>9. \A x \in S \ {b} : \E i \in 1..Len(t) : t[i] = x
  <2> SUFFICES ASSUME NEW x \in S, x # b PROVE \E i \in 1..Len(t) : t[i] = x
    OBVIOUS
  <2>1. PICK m \in 1..Len(s) : s[m] = x
    BY DEF Lists
  <2>2. PICK i \in 1..Len(s) - 1 : At(i) = m
    BY <2>1, <1>2, <1>6
  <2> QED
    BY <2>1, <2>2, <1>3
<1>10. ASSUME NEW i \in 1..Len(t), NEW j \in 1..Len(t), t[i] = t[j] PROVE i = j
  <2>1. i \in 1..Len(s) - 1 /\ j \in 1..Len(s) - 1
    BY <1>3
  <2>2. s[At(i)] = s[At(j)] /\ At(i) \in 1..Len(s) /\ At(j) \in 1..Len(s)
    BY <2>1, <1>3, <1>4, <1>10
  <2>3. At(i) = At(j)
    BY <2>2 DEF Lists
  <2> QED
    BY <2>1, <2>3, <1>5
<1> QED
  BY <1>8, <1>9, <1>10 DEF Lists, t, k

LEMMA AddLists ==
  ASSUME NEW S, NEW s, Lists(s, S), NEW b, b \notin S
  PROVE  Lists(<<b>> \o s, S \cup {b})
<1> DEFINE t == <<b>> \o s
           T == S \cup {b}
<1>1. s \in Seq(S) /\ Len(s) \in Nat /\ \A i \in 1..Len(s) : s[i] \in S
  BY DEF Lists
<1>2. s \in Seq(T) /\ <<b>> \in Seq(T) /\ Len(<<b>>) = 1 /\ <<b>>[1] = b
  BY <1>1
<1>3. /\ t \in Seq(T) /\ Len(t) = 1 + Len(s)
      /\ \A i \in 1..1 + Len(s) : t[i] = IF i <= 1 THEN <<b>>[i] ELSE s[i - 1]
  BY <1>2, ConcatProperties
<1> HIDE DEF t
<1>4. t[1] = b /\ \A i \in 1..Len(s) : i + 1 \in 1..Len(t) /\ t[i + 1] = s[i]
  BY <1>1, <1>2, <1>3
<1>5. \A i \in 1..Len(t) : i = 1 \/ (i - 1 \in 1..Len(s) /\ t[i] = s[i - 1])
  BY <1>1, <1>3
<1>6. \A x \in T : \E i \in 1..Len(t) : t[i] = x
  <2>1. 1 \in 1..Len(t)
    BY <1>1, <1>3
  <2> QED
    BY <2>1, <1>4 DEF Lists
<1>7. ASSUME NEW i \in 1..Len(t), NEW j \in 1..Len(t), t[i] = t[j] PROVE i = j
  <2>1. i \in Int /\ j \in Int
    BY <1>1, <1>3
  <2>2. CASE i = 1
    BY <2>2, <1>1, <1>4, <1>5, <1>7
  <2>3. CASE j = 1
    BY <2>3, <1>1, <1>4, <1>5, <1>7
  <2>4. CASE i # 1 /\ j # 1
    <3>1. i - 1 \in 1..Len(s) /\ j - 1 \in 1..Len(s) /\ s[i - 1] = s[j - 1]
      BY <2>4, <1>5, <1>7
    <3>2. i - 1 = j - 1
      BY <3>1 DEF Lists
    <3> QED
      BY <3>2, <2>1
  <2> QED
    BY <2>2, <2>3, <2>4
<1> QED
  BY <1>3, <1>6, <1>7 DEF Lists, t
------------------------------------------------------------------------------
\* Blocks.

Tags == [size : Nat, free : BOOLEAN]

BlocksOf(h) == DOMAIN h.hdr
FreeOf(h) == {b \in BlocksOf(h) : h.hdr[b].free}

IsRecord(h) == h = [hdr |-> h.hdr, ftr |-> h.ftr, list |-> h.list]

\* The types of the tags and BlocksTile, of any heap.
Tiled(h) ==
  /\ IsRecord(h)
  /\ BlocksOf(h) \subseteq 0..HEAP_SIZE - 1
  /\ h.hdr \in [BlocksOf(h) -> Tags]
  /\ h.ftr \in [DOMAIN h.ftr -> Tags]
  /\ 0 \in BlocksOf(h)
  /\ \A b \in BlocksOf(h) : next_block(h, b) = HEAP_SIZE \/ next_block(h, b) \in BlocksOf(h)
  /\ \A b, c \in BlocksOf(h) : c > b => c >= next_block(h, b)
  /\ DOMAIN h.ftr = {next_block(h, b) - FTR_SIZE : b \in BlocksOf(h)}
  /\ \A b \in BlocksOf(h) : h.ftr[next_block(h, b) - FTR_SIZE] = h.hdr[b]

LEMMA ExceptFields ==
  ASSUME NEW x, NEW y, NEW z, NEW u, NEW v
  PROVE  LET r == [hdr |-> x, ftr |-> y, list |-> z]
         IN  /\ [r EXCEPT !.hdr = u, !.ftr = v] = [hdr |-> u, ftr |-> v, list |-> z]
             /\ [r EXCEPT !.list = u] = [hdr |-> x, ftr |-> y, list |-> u]
<1> DEFINE r == [hdr |-> x, ftr |-> y, list |-> z]
           g == [r EXCEPT !.hdr = u, !.ftr = v]
<1>1. [r EXCEPT !.list = u] = [hdr |-> x, ftr |-> y, list |-> u]
  OBVIOUS
<1>2. r \in [hdr : {x}, ftr : {y}, list : {z}]
  OBVIOUS
<1> HIDE DEF r
<1>3. g \in [hdr : {u}, ftr : {v}, list : {z}]
  BY <1>2
<1> HIDE DEF g
<1>4. g = [hdr |-> u, ftr |-> v, list |-> z]
  BY <1>3
<1> QED
  BY <1>1, <1>4 DEF r, g

LEMMA WriteTagsFields ==
  ASSUME NEW h, IsRecord(h), NEW b, NEW size, NEW free
  PROVE  LET g == WriteTags(h, b, size, free)
         IN  /\ IsRecord(g) /\ g.list = h.list
             /\ g.hdr = Set(h.hdr, b, Tag(size, free))
             /\ g.ftr = Set(h.ftr, get_footer(b, size), Tag(size, free))
<1> DEFINE u == Set(h.hdr, b, Tag(size, free))
           v == Set(h.ftr, get_footer(b, size), Tag(size, free))
<1>1. WriteTags(h, b, size, free) = [h EXCEPT !.hdr = u, !.ftr = v]
  BY DEF WriteTags
<1> HIDE DEF u, v
<1>2. WriteTags(h, b, size, free) = [hdr |-> u, ftr |-> v, list |-> h.list]
  BY <1>1, ExceptFields DEF IsRecord
<1> QED
  BY <1>2 DEF IsRecord, u, v

LEMMA ListFields ==
  ASSUME NEW h, IsRecord(h), NEW b,
         NEW i, i = CHOOSE j \in DOMAIN h.list : h.list[j] = b
  PROVE  /\ IsRecord(fl_remove(h, b)) /\ IsRecord(fl_add(h, b))
         /\ fl_remove(h, b).hdr = h.hdr /\ fl_remove(h, b).ftr = h.ftr
         /\ fl_add(h, b).hdr = h.hdr /\ fl_add(h, b).ftr = h.ftr
         /\ fl_remove(h, b).list = RemoveAt(h.list, i)
         /\ fl_add(h, b).list = <<b>> \o h.list
<1> DEFINE u == RemoveAt(h.list, i)
           v == <<b>> \o h.list
<1>1. fl_remove(h, b) = [h EXCEPT !.list = u] /\ fl_add(h, b) = [h EXCEPT !.list = v]
  BY DEF fl_remove, fl_add
<1> HIDE DEF u, v
<1>2. /\ fl_remove(h, b) = [hdr |-> h.hdr, ftr |-> h.ftr, list |-> u]
      /\ fl_add(h, b) = [hdr |-> h.hdr, ftr |-> h.ftr, list |-> v]
  BY <1>1, ExceptFields DEF IsRecord
<1> QED
  BY <1>2 DEF IsRecord, u, v

LEMMA WriteUsed ==
  ASSUME NEW h, IsRecord(h), NEW b, NEW size
  PROVE  LET g == WriteTags(h, b, size, FALSE)
         IN  /\ IsRecord(g) /\ g.list = h.list
             /\ g.hdr = Set(h.hdr, b, Tag(size, FALSE))
             /\ g.ftr = Set(h.ftr, get_footer(b, size), Tag(size, FALSE))
<1> DEFINE free == FALSE
<1>1. LET g == WriteTags(h, b, size, free)
      IN  /\ IsRecord(g) /\ g.list = h.list
          /\ g.hdr = Set(h.hdr, b, Tag(size, free))
          /\ g.ftr = Set(h.ftr, get_footer(b, size), Tag(size, free))
  <2> HIDE DEF free
  <2> QED
    BY WriteTagsFields
<1> QED
  BY <1>1

LEMMA WriteFree ==
  ASSUME NEW h, IsRecord(h), NEW b, NEW size
  PROVE  LET g == WriteTags(h, b, size, TRUE)
         IN  /\ IsRecord(g) /\ g.list = h.list
             /\ g.hdr = Set(h.hdr, b, Tag(size, TRUE))
             /\ g.ftr = Set(h.ftr, get_footer(b, size), Tag(size, TRUE))
<1> DEFINE free == TRUE
<1>1. LET g == WriteTags(h, b, size, free)
      IN  /\ IsRecord(g) /\ g.list = h.list
          /\ g.hdr = Set(h.hdr, b, Tag(size, free))
          /\ g.ftr = Set(h.ftr, get_footer(b, size), Tag(size, free))
  <2> HIDE DEF free
  <2> QED
    BY WriteTagsFields
<1> QED
  BY <1>1

\* next_block depends on the headers only.
LEMMA SameHeaders ==
  ASSUME NEW h, NEW g, Tiled(h), IsRecord(g), g.hdr = h.hdr, g.ftr = h.ftr
  PROVE  Tiled(g) /\ BlocksOf(g) = BlocksOf(h) /\ FreeOf(g) = FreeOf(h)
         /\ \A b \in BlocksOf(h) : next_block(g, b) = next_block(h, b)
BY DEF Tiled, BlocksOf, FreeOf, next_block

LEMMA BlockBounds ==
  ASSUME NEW h, Tiled(h), NEW b \in BlocksOf(h)
  PROVE  /\ b \in Nat /\ b < HEAP_SIZE /\ h.hdr[b].size \in Nat /\ h.hdr[b].free \in BOOLEAN
         /\ h.hdr[b] = Tag(h.hdr[b].size, h.hdr[b].free)
         /\ next_block(h, b) = b + HDR_SIZE + h.hdr[b].size + FTR_SIZE
         /\ next_block(h, b) \in Nat /\ next_block(h, b) <= HEAP_SIZE
         /\ b + HDR_SIZE + FTR_SIZE <= next_block(h, b)
<1>1. b \in Nat /\ b < HEAP_SIZE
  BY HeapAssumption DEF Tiled
<1>2. h.hdr[b] \in Tags
  BY DEF Tiled
<1>3. h.hdr[b].size \in Nat /\ h.hdr[b].free \in BOOLEAN
      /\ h.hdr[b] = Tag(h.hdr[b].size, h.hdr[b].free)
  BY <1>2 DEF Tags, Tag
<1>4. next_block(h, b) = b + HDR_SIZE + h.hdr[b].size + FTR_SIZE
  BY DEF next_block, get_footer
<1>5. next_block(h, b) <= HEAP_SIZE
  <2>1. \A c \in BlocksOf(h) : c \in Nat /\ c <= HEAP_SIZE
    BY HeapAssumption DEF Tiled
  <2>2. HEAP_SIZE <= HEAP_SIZE
    BY HeapAssumption
  <2> QED
    BY <2>1, <2>2 DEF Tiled
<1> QED
  BY <1>1, <1>3, <1>4, <1>5, HeapAssumption

LEMMA EndsDistinct ==
  ASSUME NEW h, Tiled(h), NEW b \in BlocksOf(h), NEW c \in BlocksOf(h), b # c
  PROVE  next_block(h, b) # next_block(h, c)
<1>1. b \in Nat /\ c \in Nat /\ next_block(h, b) > b /\ next_block(h, c) > c
      /\ next_block(h, b) \in Nat /\ next_block(h, c) \in Nat
  BY BlockBounds, HeapAssumption
<1>2. (c > b => c >= next_block(h, b)) /\ (b > c => b >= next_block(h, c))
  BY DEF Tiled
<1> QED
  BY <1>1, <1>2

Least(S) == CHOOSE x \in S : \A y \in S : x <= y

LEMMA LeastProperties ==
  ASSUME NEW S, S \subseteq Nat, S # {}
  PROVE  Least(S) \in S /\ \A y \in S : Least(S) <= y
<1> DEFINE R == {ss \in Nat \X Nat : ss[1] < ss[2]}
<1>1. IsWellFoundedOn(R, Nat)
  BY NatLessThanWellFounded DEF OpToRel
<1>2. PICK x \in S : \A y \in S : <<y, x>> \notin R
  <2> HIDE DEF R
  <2> QED
    BY <1>1, WFMin
<1>3. ASSUME NEW y \in S PROVE x <= y
  <2>1. x \in Nat /\ y \in Nat /\ <<y, x>> \in Nat \X Nat
    OBVIOUS
  <2>2. ~(<<y, x>>[1] < <<y, x>>[2])
    BY <1>2, <2>1
  <2> QED
    BY <2>1, <2>2
<1> QED
  BY <1>3 DEF Least

\* kfree finds the block in front from its footer.
LEMMA PrevBlock ==
  ASSUME NEW h, Tiled(h), NEW b \in BlocksOf(h)
  PROVE  IF b = 0 THEN prev_block(h, b) = NULL
         ELSE /\ prev_block(h, b) \in BlocksOf(h) /\ prev_block(h, b) # NULL
              /\ next_block(h, prev_block(h, b)) = b
<1>1. CASE b = 0
  BY <1>1, HeapAssumption DEF prev_block
<1>2. CASE b # 0
  <2> DEFINE S == {b - c : c \in {d \in BlocksOf(h) : d < b}}
             p == b - Least(S)
  <2>1. b \in Nat /\ b < HEAP_SIZE /\ \A c \in BlocksOf(h) : c \in Nat
    BY BlockBounds
  <2>2. S \subseteq Nat /\ S # {}
    <3>1. 0 \in BlocksOf(h) /\ 0 < b
      BY <2>1, <1>2 DEF Tiled
    <3> QED
      BY <2>1, <3>1
  <2>3. Least(S) \in S /\ \A y \in S : Least(S) <= y
    <3> HIDE DEF S
    <3> QED
      BY <2>2, LeastProperties
  <2>4. p \in BlocksOf(h) /\ p < b /\ p \in Nat
    BY <2>1, <2>3
  <2>5. ASSUME NEW c \in BlocksOf(h), c < b PROVE c <= p
    <3>1. Least(S) <= b - c
      BY <2>3, <2>5
    <3>2. Least(S) \in Nat /\ c \in Nat /\ b \in Nat
      BY <2>1, <2>2, <2>3
    <3> QED
      BY <3>1, <3>2
  <2> HIDE DEF p, S
  <2>6. next_block(h, p) = b
    <3>1. b >= next_block(h, p) /\ next_block(h, p) \in Nat /\ next_block(h, p) > p
      BY <2>1, <2>4, BlockBounds, HeapAssumption DEF Tiled
    <3>2. next_block(h, p) \in BlocksOf(h)
      BY <2>1, <2>4, <3>1, HeapAssumption DEF Tiled
    <3> QED
      BY <2>1, <2>4, <2>5, <3>1, <3>2
  <2>7. h.ftr[b - FTR_SIZE] = h.hdr[p]
    BY <2>4, <2>6 DEF Tiled
  <2>8. b = p + HDR_SIZE + h.hdr[p].size + FTR_SIZE /\ h.hdr[p].size \in Nat
    BY <2>4, <2>6, BlockBounds
  <2>9. prev_block(h, b) = p
    <3>1. ~(b - FTR_SIZE < 0)
      BY <2>1, <2>4, <2>8, HeapAssumption
    <3>2. prev_block(h, b) = b - FTR_SIZE - h.hdr[p].size - HDR_SIZE
      BY <2>7, <3>1 DEF prev_block
    <3> QED
      BY <2>1, <2>4, <2>8, <3>2, HeapAssumption
  <2> QED
    BY <1>2, <2>4, <2>6, <2>9, HeapAssumption
<1> QED
  BY <1>1, <1>2
------------------------------------------------------------------------------
\* What the three changes of the tags do to the blocks.

LEMMA EndOfTag ==
  ASSUME NEW g, NEW b, NEW size, NEW free, g.hdr[b] = Tag(size, free)
  PROVE  next_block(g, b) = b + HDR_SIZE + size + FTR_SIZE /\ g.hdr[b].free = free
BY DEF next_block, get_footer, Tag

LEMMA Retag ==
  ASSUME NEW h, Tiled(h), NEW b \in BlocksOf(h), NEW free \in BOOLEAN
  PROVE  LET g == WriteTags(h, b, h.hdr[b].size, free)
         IN  /\ Tiled(g) /\ g.list = h.list
             /\ BlocksOf(g) = BlocksOf(h)
             /\ g.hdr[b] = Tag(h.hdr[b].size, free)
             /\ \A c \in BlocksOf(h) : c # b => g.hdr[c] = h.hdr[c]
             /\ \A c \in BlocksOf(h) : next_block(g, c) = next_block(h, c)
<1> DEFINE size == h.hdr[b].size
           f == get_footer(b, size)
           t == Tag(size, free)
           g == WriteTags(h, b, size, free)
<1>1. size \in Nat /\ b \in Nat /\ next_block(h, b) = b + HDR_SIZE + size + FTR_SIZE
  BY BlockBounds
<1>2. f = next_block(h, b) - FTR_SIZE
  BY <1>1, HeapAssumption DEF get_footer
<1>3. t \in Tags
  BY <1>1 DEF Tag, Tags
<1>4. IsRecord(g) /\ g.list = h.list /\ g.hdr = Set(h.hdr, b, t) /\ g.ftr = Set(h.ftr, f, t)
  BY WriteTagsFields DEF Tiled
<1> HIDE DEF g, f, t
<1>12. h.hdr \in [DOMAIN h.hdr -> Tags] /\ h.ftr \in [DOMAIN h.ftr -> Tags]
  BY DEF Tiled, BlocksOf
<1>5. f \in DOMAIN h.ftr
  BY <1>2 DEF Tiled
<1>6. /\ BlocksOf(g) = BlocksOf(h) /\ g.hdr \in [BlocksOf(h) -> Tags]
      /\ g.hdr[b] = t
      /\ \A c \in BlocksOf(h) : c # b => g.hdr[c] = h.hdr[c]
  <2> DEFINE m == h.hdr
  <2>1. m \in [DOMAIN m -> Tags] /\ b \in DOMAIN m /\ g.hdr = Set(m, b, t)
    BY <1>4, <1>12 DEF BlocksOf
  <2> HIDE DEF m
  <2>2. g.hdr \in [DOMAIN m \cup {b} -> Tags] /\ g.hdr[b] = t
    BY <2>1, <1>3 DEF Set
  <2>3. \A c \in DOMAIN m : c # b => g.hdr[c] = m[c]
    BY <2>1, <1>3 DEF Set
  <2>4. DOMAIN m \cup {b} = DOMAIN m
    BY <2>1
  <2>5. DOMAIN g.hdr = DOMAIN m
    BY <2>2, <2>4
  <2> QED
    BY <2>2, <2>3, <2>4, <2>5 DEF BlocksOf, m
<1>7. /\ DOMAIN g.ftr = DOMAIN h.ftr /\ g.ftr \in [DOMAIN h.ftr -> Tags]
      /\ g.ftr[f] = t
      /\ \A d \in DOMAIN h.ftr : d # f => g.ftr[d] = h.ftr[d]
  <2> DEFINE m == h.ftr
  <2>1. m \in [DOMAIN m -> Tags] /\ f \in DOMAIN m /\ g.ftr = Set(m, f, t)
    BY <1>4, <1>5, <1>12
  <2> HIDE DEF m
  <2>2. g.ftr \in [DOMAIN m \cup {f} -> Tags] /\ g.ftr[f] = t
    BY <2>1, <1>3 DEF Set
  <2>3. \A c \in DOMAIN m : c # f => g.ftr[c] = m[c]
    BY <2>1, <1>3 DEF Set
  <2>4. DOMAIN m \cup {f} = DOMAIN m
    BY <2>1
  <2>5. DOMAIN g.ftr = DOMAIN m
    BY <2>2, <2>4
  <2> QED
    BY <2>2, <2>3, <2>4, <2>5 DEF m
<1>8. next_block(g, b) = next_block(h, b)
  BY <1>1, <1>6, EndOfTag DEF t
<1>9. \A c \in BlocksOf(h) : next_block(g, c) = next_block(h, c)
  BY <1>6, <1>8 DEF next_block
<1>10. ASSUME NEW c \in BlocksOf(h)
       PROVE  g.ftr[next_block(h, c) - FTR_SIZE] = g.hdr[c]
  <2>1. CASE c = b
    BY <2>1, <1>2, <1>6, <1>7
  <2>2. CASE c # b
    <3>1. next_block(h, c) # next_block(h, b) /\ next_block(h, c) \in Nat
          /\ next_block(h, b) \in Nat
      BY <2>2, EndsDistinct, BlockBounds
    <3>2. next_block(h, c) - FTR_SIZE # f
      BY <3>1, <1>2, HeapAssumption
    <3>3. next_block(h, c) - FTR_SIZE \in DOMAIN h.ftr
          /\ h.ftr[next_block(h, c) - FTR_SIZE] = h.hdr[c]
      BY DEF Tiled
    <3> QED
      BY <2>2, <3>2, <3>3, <1>6, <1>7
  <2> QED
    BY <2>1, <2>2
<1>11. Tiled(g)
  <2>1. BlocksOf(g) \subseteq 0..HEAP_SIZE - 1 /\ 0 \in BlocksOf(g)
    BY <1>6 DEF Tiled
  <2>2. /\ \A c \in BlocksOf(g) : next_block(g, c) = HEAP_SIZE
                                  \/ next_block(g, c) \in BlocksOf(g)
        /\ \A c, d \in BlocksOf(g) : d > c => d >= next_block(g, c)
    BY <1>6, <1>9 DEF Tiled
  <2>3. DOMAIN g.ftr = {next_block(g, c) - FTR_SIZE : c \in BlocksOf(g)}
    BY <1>6, <1>7, <1>9 DEF Tiled
  <2>4. \A c \in BlocksOf(g) : g.ftr[next_block(g, c) - FTR_SIZE] = g.hdr[c]
    BY <1>6, <1>9, <1>10
  <2> QED
    BY <1>4, <1>6, <1>7, <2>1, <2>2, <2>3, <2>4 DEF Tiled
<1> QED
  BY <1>4, <1>6, <1>9, <1>11 DEF g, t

LEMMA SplitBlocks ==
  ASSUME NEW h, Tiled(h), NEW b \in BlocksOf(h), NEW need \in Nat,
         h.hdr[b].size >= need + MIN_BLOCK
  PROVE  LET g == Split(h, b, need)
             rest == b + HDR_SIZE + need + FTR_SIZE
         IN  /\ Tiled(g) /\ g.list = <<rest>> \o h.list
             /\ rest \notin BlocksOf(h) /\ BlocksOf(g) = BlocksOf(h) \cup {rest}
             /\ g.hdr[b].size = need /\ ~g.hdr[b].free /\ g.hdr[rest].free
             /\ \A c \in BlocksOf(h) : c # b => g.hdr[c] = h.hdr[c]
             /\ next_block(g, b) = rest /\ next_block(g, rest) = next_block(h, b)
             /\ \A c \in BlocksOf(h) : c # b => next_block(g, c) = next_block(h, c)
<1> DEFINE old == h.hdr[b].size
           rest == b + HDR_SIZE + need + FTR_SIZE
           left == old - need - HDR_SIZE - FTR_SIZE
           t == Tag(need, FALSE)
           u == Tag(left, TRUE)
           f == get_footer(b, need)
           k == get_footer(rest, left)
           h1 == WriteTags(h, b, need, FALSE)
           h2 == WriteTags(h1, rest, left, TRUE)
           g == fl_add(h2, rest)
<1>1. /\ old \in Nat /\ b \in Nat /\ next_block(h, b) = b + HDR_SIZE + old + FTR_SIZE
      /\ next_block(h, b) <= HEAP_SIZE /\ next_block(h, b) \in Nat
      /\ HDR_SIZE \in Nat /\ FTR_SIZE \in Nat /\ HDR_SIZE > 0 /\ FTR_SIZE > 0
      /\ HEAP_SIZE \in Nat
  BY BlockBounds, HeapAssumption
<1>2. left \in Nat
  BY <1>1, HeapAssumption DEF MIN_BLOCK
<1>3. /\ rest \in Nat /\ b < rest /\ rest < next_block(h, b) /\ rest < HEAP_SIZE
      /\ rest + HDR_SIZE + left + FTR_SIZE = next_block(h, b)
      /\ f = rest - FTR_SIZE /\ k = next_block(h, b) - FTR_SIZE
  BY <1>1, <1>2 DEF get_footer
<1>4. Split(h, b, need) = g
  <2>1. get_footer(b, need) + FTR_SIZE = rest
    BY DEF get_footer
  <2> QED
    BY <2>1 DEF Split
<1>5. t \in Tags /\ u \in Tags
  BY <1>2 DEF Tags, Tag
<1> HIDE DEF rest, left, t, u, f, k
<1>14. /\ h.hdr \in [DOMAIN h.hdr -> Tags] /\ h.ftr \in [DOMAIN h.ftr -> Tags]
       /\ IsRecord(h)
  BY DEF Tiled, BlocksOf
<1>6. /\ IsRecord(g) /\ g.list = <<rest>> \o h.list
      /\ g.hdr = Set(Set(h.hdr, b, t), rest, u)
      /\ g.ftr = Set(Set(h.ftr, f, t), k, u)
  <2>1. IsRecord(h1) /\ h1.list = h.list /\ h1.hdr = Set(h.hdr, b, t) /\ h1.ftr = Set(h.ftr, f, t)
    BY <1>14, WriteUsed DEF t, f
  <2> HIDE DEF h1
  <2>2. IsRecord(h2) /\ h2.list = h1.list /\ h2.hdr = Set(h1.hdr, rest, u)
        /\ h2.ftr = Set(h1.ftr, k, u)
    <3>1. IsRecord(h1)
      BY <2>1
    <3> QED
      BY <3>1, WriteFree DEF u, k
  <2> HIDE DEF h2
  <2>3. IsRecord(g) /\ g.hdr = h2.hdr /\ g.ftr = h2.ftr /\ g.list = <<rest>> \o h2.list
    <3>1. IsRecord(h2)
      BY <2>2
    <3> QED
      BY <3>1, ListFields
  <2> HIDE DEF g
  <2> QED
    BY <2>1, <2>2, <2>3
<1> HIDE DEF g
<1>7. \A c \in BlocksOf(h) : c \in Nat /\ (c > b => c >= next_block(h, b))
  BY BlockBounds DEF Tiled
<1>8. rest \notin BlocksOf(h)
  BY <1>1, <1>3, <1>7
<1>9. /\ BlocksOf(g) = BlocksOf(h) \cup {rest}
      /\ g.hdr \in [BlocksOf(h) \cup {rest} -> Tags]
      /\ g.hdr[b] = t /\ g.hdr[rest] = u
      /\ \A c \in BlocksOf(h) : c # b => g.hdr[c] = h.hdr[c]
  <2> DEFINE m == Set(h.hdr, b, t)
  <2>1. /\ DOMAIN m = BlocksOf(h) /\ m \in [BlocksOf(h) -> Tags] /\ m[b] = t
        /\ \A c \in BlocksOf(h) : c # b => m[c] = h.hdr[c]
    <3> DEFINE n == h.hdr
    <3>1. n \in [DOMAIN n -> Tags] /\ b \in DOMAIN n
      BY <1>14 DEF BlocksOf
    <3> HIDE DEF n
    <3>2. DOMAIN n \cup {b} = DOMAIN n
      BY <3>1
    <3>3. /\ DOMAIN Set(n, b, t) = DOMAIN n /\ Set(n, b, t) \in [DOMAIN n -> Tags]
          /\ Set(n, b, t)[b] = t /\ \A c \in DOMAIN n : c # b => Set(n, b, t)[c] = n[c]
      BY <3>1, <3>2, <1>5 DEF Set
    <3> QED
      BY <3>3 DEF BlocksOf, n
  <2> HIDE DEF m
  <2>2. /\ DOMAIN Set(m, rest, u) = BlocksOf(h) \cup {rest}
        /\ Set(m, rest, u) \in [BlocksOf(h) \cup {rest} -> Tags]
        /\ Set(m, rest, u)[rest] = u
        /\ \A c \in BlocksOf(h) : c # rest => Set(m, rest, u)[c] = m[c]
    BY <2>1, <1>5 DEF Set
  <2> QED
    BY <1>6, <1>8, <2>1, <2>2 DEF BlocksOf, m
<1>10. /\ DOMAIN g.ftr = DOMAIN h.ftr \cup {f, k}
       /\ g.ftr \in [DOMAIN g.ftr -> Tags]
       /\ g.ftr[k] = u /\ (f # k => g.ftr[f] = t)
       /\ \A d \in DOMAIN h.ftr : d # f /\ d # k => g.ftr[d] = h.ftr[d]
  <2> DEFINE m == Set(h.ftr, f, t)
  <2>1. /\ DOMAIN m = DOMAIN h.ftr \cup {f} /\ m \in [DOMAIN h.ftr \cup {f} -> Tags] /\ m[f] = t
        /\ \A d \in DOMAIN h.ftr : d # f => m[d] = h.ftr[d]
    <3> DEFINE n == h.ftr
    <3>1. n \in [DOMAIN n -> Tags]
      BY <1>14
    <3> HIDE DEF n
    <3>2. /\ DOMAIN Set(n, f, t) = DOMAIN n \cup {f}
          /\ Set(n, f, t) \in [DOMAIN n \cup {f} -> Tags]
          /\ Set(n, f, t)[f] = t /\ \A d \in DOMAIN n : d # f => Set(n, f, t)[d] = n[d]
      BY <3>1, <1>5 DEF Set
    <3> QED
      BY <3>2 DEF n
  <2> HIDE DEF m
  <2>2. /\ DOMAIN Set(m, k, u) = DOMAIN h.ftr \cup {f} \cup {k}
        /\ Set(m, k, u) \in [DOMAIN h.ftr \cup {f} \cup {k} -> Tags]
        /\ Set(m, k, u)[k] = u
        /\ \A d \in DOMAIN h.ftr \cup {f} : d # k => Set(m, k, u)[d] = m[d]
    BY <2>1, <1>5 DEF Set
  <2> QED
    BY <1>6, <2>1, <2>2 DEF m
<1>11. /\ next_block(g, b) = rest /\ next_block(g, rest) = next_block(h, b)
       /\ \A c \in BlocksOf(h) : c # b => next_block(g, c) = next_block(h, c)
       /\ g.hdr[rest].free
  <2>1. next_block(g, b) = b + HDR_SIZE + need + FTR_SIZE
    <3>1. g.hdr[b].size = need
      BY <1>9 DEF t, Tag
    <3> QED
      BY <3>1 DEF next_block, get_footer
  <2>2. next_block(g, rest) = rest + HDR_SIZE + left + FTR_SIZE /\ g.hdr[rest].free
    <3>1. g.hdr[rest].size = left
      BY <1>9 DEF u, Tag
    <3>2. g.hdr[rest].free
      BY <1>9 DEF u, Tag
    <3> QED
      BY <3>1, <3>2 DEF next_block, get_footer
  <2>3. \A c \in BlocksOf(h) : c # b => next_block(g, c) = next_block(h, c)
    BY <1>9 DEF next_block
  <2> QED
    BY <1>3, <2>1, <2>2, <2>3 DEF rest
<1>12. \A c \in BlocksOf(h) : c # b => /\ next_block(h, c) # next_block(h, b)
                                       /\ next_block(h, c) # rest
  <2> SUFFICES ASSUME NEW c \in BlocksOf(h), c # b
               PROVE  next_block(h, c) # next_block(h, b) /\ next_block(h, c) # rest
    OBVIOUS
  <2>1. next_block(h, c) = HEAP_SIZE \/ next_block(h, c) \in BlocksOf(h)
    BY DEF Tiled
  <2>2. HEAP_SIZE # rest
    BY <1>1, <1>3
  <2> QED
    BY <2>1, <2>2, <1>8, EndsDistinct
<1>13. Tiled(g)
  <2>1. BlocksOf(g) \subseteq 0..HEAP_SIZE - 1 /\ 0 \in BlocksOf(g)
    BY <1>1, <1>3, <1>9 DEF Tiled
  <2>2. ASSUME NEW c \in BlocksOf(g)
        PROVE  next_block(g, c) = HEAP_SIZE \/ next_block(g, c) \in BlocksOf(g)
    BY <1>9, <1>11 DEF Tiled
  <2>3. ASSUME NEW c \in BlocksOf(g), NEW d \in BlocksOf(g), d > c
        PROVE  d >= next_block(g, c)
    <3>1. CASE c = b
      BY <3>1, <2>3, <1>1, <1>3, <1>7, <1>9, <1>11
    <3>2. CASE c = rest
      BY <3>2, <2>3, <1>1, <1>3, <1>7, <1>9, <1>11
    <3>3. CASE c # b /\ c # rest /\ d # rest
      BY <3>3, <2>3, <1>9, <1>11 DEF Tiled
    <3>4. CASE c # b /\ c # rest /\ d = rest
      <4>1. c \in BlocksOf(h) /\ c \in Nat /\ next_block(g, c) = next_block(h, c)
            /\ next_block(h, c) \in Nat
        BY <3>4, <1>7, <1>9, <1>11, BlockBounds
      <4>2. c < b
        BY <3>4, <2>3, <4>1, <1>1, <1>3, <1>7
      <4>3. b >= next_block(h, c)
        BY <4>1, <4>2 DEF Tiled
      <4> QED
        BY <3>4, <4>1, <4>3, <1>1, <1>3
    <3> QED
      BY <3>1, <3>2, <3>3, <3>4
  <2>4. DOMAIN g.ftr = {next_block(g, c) - FTR_SIZE : c \in BlocksOf(g)}
    <3>1. DOMAIN h.ftr = {next_block(h, c) - FTR_SIZE : c \in BlocksOf(h)}
      BY DEF Tiled
    <3>2. {next_block(g, c) - FTR_SIZE : c \in BlocksOf(g)}
            = {next_block(h, c) - FTR_SIZE : c \in BlocksOf(h)} \cup {rest - FTR_SIZE}
      BY <1>9, <1>11
    <3> QED
      BY <3>1, <3>2, <1>3, <1>10
  <2>5. ASSUME NEW c \in BlocksOf(g)
        PROVE  g.ftr[next_block(g, c) - FTR_SIZE] = g.hdr[c]
    <3>1. f # k
      BY <1>1, <1>3
    <3>2. CASE c = b
      BY <3>1, <3>2, <1>3, <1>9, <1>10, <1>11
    <3>3. CASE c = rest
      BY <3>3, <1>3, <1>9, <1>10, <1>11
    <3>4. CASE c # b /\ c # rest
      <4>1. /\ c \in BlocksOf(h) /\ next_block(g, c) = next_block(h, c)
            /\ next_block(h, c) \in Nat /\ g.hdr[c] = h.hdr[c]
        BY <3>4, <1>9, <1>11, BlockBounds
      <4>2. next_block(h, c) - FTR_SIZE # f /\ next_block(h, c) - FTR_SIZE # k
        BY <3>4, <4>1, <1>1, <1>3, <1>12
      <4>3. next_block(h, c) - FTR_SIZE \in DOMAIN h.ftr
            /\ h.ftr[next_block(h, c) - FTR_SIZE] = h.hdr[c]
        BY <4>1 DEF Tiled
      <4> QED
        BY <4>1, <4>2, <4>3, <1>10
    <3> QED
      BY <3>2, <3>3, <3>4
  <2> QED
    BY <1>6, <1>9, <1>10, <2>1, <2>2, <2>3, <2>4, <2>5 DEF Tiled
<1> QED
  <2>1. g.hdr[b].size = need
    BY <1>9 DEF t, Tag
  <2>2. ~g.hdr[b].free
    BY <1>9 DEF t, Tag
  <2> QED
    BY <1>4, <1>6, <1>8, <1>9, <1>11, <1>13, <2>1, <2>2 DEF rest, g
LEMMA AbsorbBlocks ==
  ASSUME NEW h, Tiled(h), NEW b \in BlocksOf(h), NEW c \in BlocksOf(h), c = next_block(h, b)
  PROVE  LET g == Absorb(h, b, c)
         IN  /\ Tiled(g) /\ g.list = h.list
             /\ BlocksOf(g) = BlocksOf(h) \ {c}
             /\ g.hdr[b].free /\ next_block(g, b) = next_block(h, c)
             /\ \A d \in BlocksOf(h) : d # b /\ d # c =>
                  g.hdr[d] = h.hdr[d] /\ next_block(g, d) = next_block(h, d)
<1> DEFINE size == h.hdr[b].size + HDR_SIZE + FTR_SIZE + h.hdr[c].size
           inner == get_footer(b, h.hdr[b].size)
           f == get_footer(b, size)
           u == Tag(size, TRUE)
           h1 == [h EXCEPT !.hdr = Without(@, c), !.ftr = Without(@, inner)]
           g == WriteTags(h1, b, size, TRUE)
<1>1. /\ b \in Nat /\ h.hdr[b].size \in Nat /\ c = b + HDR_SIZE + h.hdr[b].size + FTR_SIZE
      /\ c \in Nat /\ h.hdr[c].size \in Nat
      /\ next_block(h, c) = c + HDR_SIZE + h.hdr[c].size + FTR_SIZE
      /\ next_block(h, c) \in Nat
      /\ HDR_SIZE \in Nat /\ FTR_SIZE \in Nat /\ HDR_SIZE > 0 /\ FTR_SIZE > 0
  BY BlockBounds, HeapAssumption
<1>2. /\ size \in Nat /\ b < c /\ c < next_block(h, c)
      /\ inner = c - FTR_SIZE /\ f = next_block(h, c) - FTR_SIZE
      /\ b + HDR_SIZE + size + FTR_SIZE = next_block(h, c)
  BY <1>1 DEF get_footer
<1>3. u \in Tags
  BY <1>2 DEF Tags, Tag
<1>4. Absorb(h, b, c) = g
  BY DEF Absorb
<1> HIDE DEF size, inner, f, u
<1>5. /\ h.hdr \in [DOMAIN h.hdr -> Tags] /\ h.ftr \in [DOMAIN h.ftr -> Tags]
      /\ IsRecord(h)
  BY DEF Tiled, BlocksOf
<1>6. /\ IsRecord(g) /\ g.list = h.list
      /\ g.hdr = Set(Without(h.hdr, c), b, u) /\ g.ftr = Set(Without(h.ftr, inner), f, u)
  <2> DEFINE x == Without(h.hdr, c)
             y == Without(h.ftr, inner)
  <2>1. h1 = [h EXCEPT !.hdr = x, !.ftr = y]
    OBVIOUS
  <2> HIDE DEF h1, x, y
  <2>2. h1 = [hdr |-> x, ftr |-> y, list |-> h.list]
    BY <2>1, <1>5, ExceptFields DEF IsRecord
  <2>3. IsRecord(h1) /\ h1.list = h.list /\ h1.hdr = x /\ h1.ftr = y
    BY <2>2 DEF IsRecord
  <2>4. IsRecord(g) /\ g.list = h1.list /\ g.hdr = Set(h1.hdr, b, u)
        /\ g.ftr = Set(h1.ftr, f, u)
    <3>1. IsRecord(h1)
      BY <2>3
    <3> QED
      BY <3>1, WriteFree DEF u, f
  <2> HIDE DEF g
  <2> QED
    BY <2>3, <2>4 DEF x, y
<1> HIDE DEF h1, g
<1>7. /\ BlocksOf(g) = BlocksOf(h) \ {c} /\ g.hdr \in [BlocksOf(g) -> Tags]
      /\ g.hdr[b] = u
      /\ \A d \in BlocksOf(h) : d # b /\ d # c => g.hdr[d] = h.hdr[d]
  <2> DEFINE m == h.hdr
  <2>1. m \in [DOMAIN m -> Tags] /\ b \in DOMAIN m /\ b # c
        /\ g.hdr = Set(Without(m, c), b, u)
    BY <1>1, <1>2, <1>5, <1>6 DEF BlocksOf
  <2> HIDE DEF m
  <2>2. (DOMAIN m \ {c}) \cup {b} = DOMAIN m \ {c}
    BY <2>1
  <2>3. /\ DOMAIN g.hdr = DOMAIN m \ {c} /\ g.hdr \in [DOMAIN m \ {c} -> Tags]
        /\ g.hdr[b] = u /\ \A d \in DOMAIN m : d # b /\ d # c => g.hdr[d] = m[d]
    BY <2>1, <2>2, <1>3 DEF Set, Without
  <2> QED
    BY <2>3 DEF BlocksOf, m
<1>8. f \in DOMAIN h.ftr /\ f # inner
  BY <1>1, <1>2 DEF Tiled
<1>9. /\ DOMAIN g.ftr = DOMAIN h.ftr \ {inner} /\ g.ftr \in [DOMAIN g.ftr -> Tags]
      /\ g.ftr[f] = u
      /\ \A d \in DOMAIN h.ftr : d # f /\ d # inner => g.ftr[d] = h.ftr[d]
  <2> DEFINE m == h.ftr
  <2>1. m \in [DOMAIN m -> Tags] /\ f \in DOMAIN m /\ f # inner
        /\ g.ftr = Set(Without(m, inner), f, u)
    BY <1>5, <1>6, <1>8
  <2> HIDE DEF m
  <2>2. (DOMAIN m \ {inner}) \cup {f} = DOMAIN m \ {inner}
    BY <2>1
  <2>3. /\ DOMAIN g.ftr = DOMAIN m \ {inner} /\ g.ftr \in [DOMAIN m \ {inner} -> Tags]
        /\ g.ftr[f] = u /\ \A d \in DOMAIN m : d # f /\ d # inner => g.ftr[d] = m[d]
    BY <2>1, <2>2, <1>3 DEF Set, Without
  <2> QED
    BY <2>3 DEF m
<1>10. next_block(g, b) = next_block(h, c) /\ g.hdr[b].free
  <2>1. g.hdr[b].size = size
    BY <1>7 DEF u, Tag
  <2>2. g.hdr[b].free
    BY <1>7 DEF u, Tag
  <2>3. next_block(g, b) = b + HDR_SIZE + size + FTR_SIZE
    BY <2>1 DEF next_block, get_footer
  <2> QED
    BY <1>2, <2>2, <2>3
<1>11. \A d \in BlocksOf(h) : d # b /\ d # c => next_block(g, d) = next_block(h, d)
  BY <1>7 DEF next_block
<1>12. \A d \in BlocksOf(h) : d # b /\ d # c => /\ next_block(h, d) # next_block(h, c)
                                                /\ next_block(h, d) # c
  BY EndsDistinct
<1>13. Tiled(g)
  <2>1. BlocksOf(g) \subseteq 0..HEAP_SIZE - 1 /\ 0 \in BlocksOf(g)
    BY <1>1, <1>2, <1>7 DEF Tiled
  <2>2. ASSUME NEW d \in BlocksOf(g)
        PROVE  next_block(g, d) = HEAP_SIZE \/ next_block(g, d) \in BlocksOf(g)
    <3>1. CASE d = b
      <4>1. next_block(h, c) # c
        BY <1>1, <1>2
      <4> QED
        BY <3>1, <4>1, <1>7, <1>10 DEF Tiled
    <3>2. CASE d # b
      BY <3>2, <1>7, <1>11, <1>12 DEF Tiled
    <3> QED
      BY <3>1, <3>2
  <2>3. ASSUME NEW d \in BlocksOf(g), NEW e \in BlocksOf(g), e > d
        PROVE  e >= next_block(g, d)
    <3>1. d \in BlocksOf(h) /\ e \in BlocksOf(h) /\ d # c /\ e # c
      BY <1>7
    <3>2. CASE d = b
      <4>1. e >= c
        BY <3>1, <3>2, <2>3 DEF Tiled
      <4>2. e \in Nat
        BY <3>1, BlockBounds
      <4>3. e > c
        BY <3>1, <4>1, <4>2, <1>1
      <4>4. e >= next_block(h, c)
        BY <3>1, <4>3 DEF Tiled
      <4> QED
        BY <3>2, <4>4, <1>10
    <3>3. CASE d # b
      BY <3>1, <3>3, <2>3, <1>11 DEF Tiled
    <3> QED
      BY <3>2, <3>3
  <2>4. DOMAIN g.ftr = {next_block(g, d) - FTR_SIZE : d \in BlocksOf(g)}
    <3>1. DOMAIN h.ftr = {next_block(h, d) - FTR_SIZE : d \in BlocksOf(h)}
      BY DEF Tiled
    <3>2. ASSUME NEW x \in DOMAIN g.ftr
          PROVE  \E d \in BlocksOf(g) : x = next_block(g, d) - FTR_SIZE
      <4>1. PICK d \in BlocksOf(h) : x = next_block(h, d) - FTR_SIZE
        BY <3>1, <1>9
      <4>2. d # b
        BY <4>1, <1>2, <1>9
      <4>3. CASE d = c
        BY <4>1, <4>3, <1>1, <1>2, <1>7, <1>10
      <4>4. CASE d # c
        BY <4>1, <4>2, <4>4, <1>7, <1>11
      <4> QED
        BY <4>3, <4>4
    <3>3. ASSUME NEW d \in BlocksOf(g)
          PROVE  next_block(g, d) - FTR_SIZE \in DOMAIN g.ftr
      <4>1. CASE d = b
        BY <4>1, <1>2, <1>8, <1>9, <1>10
      <4>2. CASE d # b
        <5>1. /\ d \in BlocksOf(h) /\ d # c /\ next_block(g, d) = next_block(h, d)
              /\ next_block(h, d) # c /\ next_block(h, d) \in Nat
          BY <4>2, <1>7, <1>11, <1>12, BlockBounds
        <5>2. next_block(h, d) - FTR_SIZE # inner
          BY <5>1, <1>1, <1>2
        <5> QED
          BY <5>1, <5>2, <3>1, <1>9
      <4> QED
        BY <4>1, <4>2
    <3> QED
      BY <3>2, <3>3
  <2>5. ASSUME NEW d \in BlocksOf(g)
        PROVE  g.ftr[next_block(g, d) - FTR_SIZE] = g.hdr[d]
    <3>1. CASE d = b
      BY <3>1, <1>2, <1>7, <1>9, <1>10
    <3>2. CASE d # b
      <4>1. /\ d \in BlocksOf(h) /\ d # c /\ next_block(g, d) = next_block(h, d)
            /\ next_block(h, d) # c /\ next_block(h, d) \in Nat /\ g.hdr[d] = h.hdr[d]
            /\ next_block(h, d) # next_block(h, c)
        BY <3>2, <1>7, <1>11, <1>12, BlockBounds
      <4>2. next_block(h, d) - FTR_SIZE # inner /\ next_block(h, d) - FTR_SIZE # f
        BY <4>1, <1>1, <1>2
      <4>3. next_block(h, d) - FTR_SIZE \in DOMAIN h.ftr
            /\ h.ftr[next_block(h, d) - FTR_SIZE] = h.hdr[d]
        BY <4>1 DEF Tiled
      <4> QED
        BY <4>1, <4>2, <4>3, <1>9
    <3> QED
      BY <3>1, <3>2
  <2> QED
    BY <1>6, <1>7, <1>9, <2>1, <2>2, <2>3, <2>4, <2>5 DEF Tiled
<1> QED
  BY <1>4, <1>6, <1>7, <1>10, <1>11, <1>13 DEF g
------------------------------------------------------------------------------
\* What kmalloc and kfree do to the blocks and to the list.

UsedOf(h) == BlocksOf(h) \ FreeOf(h)

\* BlocksTile and FreeListExact, of any heap.
Exact(h) ==
  /\ Tiled(h)
  /\ Lists(h.list, FreeOf(h))
  /\ \A b \in FreeOf(h) : next_block(h, b) \notin FreeOf(h)

\* The same in the middle of kfree: b is free, but not yet on the list and not
\* yet merged with its neighbours.
Pending(h, b) ==
  /\ Tiled(h)
  /\ b \in FreeOf(h)
  /\ Lists(h.list, FreeOf(h) \ {b})
  /\ \A c \in FreeOf(h) \ {b} : next_block(h, c) \notin FreeOf(h) \ {b}

\* Used blocks are the same blocks after the call.
KeepsUsed(h, g, S) ==
  /\ UsedOf(g) = S
  /\ \A c \in UsedOf(h) \cap S : g.hdr[c] = h.hdr[c]

LEMMA FirstFit ==
  ASSUME NEW h, Exact(h), NEW need \in Nat, find_free(h, need) # NULL
  PROVE  find_free(h, need) \in FreeOf(h) /\ h.hdr[find_free(h, need)].size >= need
<1> DEFINE F == Fits(h, need)
<1>1. F \subseteq DOMAIN h.list /\ \A i \in F : h.hdr[h.list[i]].size >= need
  BY DEF Fits
<1>2. /\ DOMAIN h.list \subseteq Nat
      /\ \A i \in DOMAIN h.list : h.list[i] \in FreeOf(h)
  BY DEF Exact, Lists
<1>3. F # {} /\ find_free(h, need) = h.list[Least(F)]
  BY DEF find_free, Least
<1> HIDE DEF F
<1>4. Least(F) \in F
  <2>1. F \subseteq Nat
    BY <1>1, <1>2
  <2> QED
    BY <2>1, <1>3, LeastProperties
<1> QED
  BY <1>1, <1>2, <1>3, <1>4

LEMMA FlRemove ==
  ASSUME NEW h, Tiled(h), NEW S, Lists(h.list, S), NEW b \in S
  PROVE  LET g == fl_remove(h, b)
         IN  /\ Tiled(g) /\ BlocksOf(g) = BlocksOf(h) /\ FreeOf(g) = FreeOf(h)
             /\ g.hdr = h.hdr /\ Lists(g.list, S \ {b})
             /\ \A c \in BlocksOf(h) : next_block(g, c) = next_block(h, c)
<1> DEFINE g == fl_remove(h, b)
<1>1. IsRecord(h)
  BY DEF Tiled
<1>2. /\ IsRecord(g) /\ g.hdr = h.hdr /\ g.ftr = h.ftr
      /\ g.list = RemoveAt(h.list, CHOOSE j \in DOMAIN h.list : h.list[j] = b)
  <2>1. IsRecord(g) /\ g.hdr = h.hdr /\ g.ftr = h.ftr
    BY <1>1, ListFields
  <2>2. g.list = RemoveAt(h.list, CHOOSE j \in DOMAIN h.list : h.list[j] = b)
    BY <1>1, ListFields, Zenon
  <2> QED
    BY <2>1, <2>2
<1> HIDE DEF g
<1>3. Tiled(g) /\ BlocksOf(g) = BlocksOf(h) /\ FreeOf(g) = FreeOf(h)
      /\ \A c \in BlocksOf(h) : next_block(g, c) = next_block(h, c)
  BY <1>2, SameHeaders
<1>4. Lists(g.list, S \ {b})
  <2> DEFINE l == h.list
  <2>1. Lists(l, S) /\ g.list = RemoveAt(l, CHOOSE j \in DOMAIN l : l[j] = b)
    BY <1>2
  <2> HIDE DEF l
  <2> QED
    BY <2>1, RemoveLists
<1> QED
  BY <1>2, <1>3, <1>4 DEF g

LEMMA FlAdd ==
  ASSUME NEW h, Tiled(h), NEW S, Lists(h.list, S), NEW b, b \notin S
  PROVE  LET g == fl_add(h, b)
         IN  /\ Tiled(g) /\ BlocksOf(g) = BlocksOf(h) /\ FreeOf(g) = FreeOf(h)
             /\ g.hdr = h.hdr /\ Lists(g.list, S \cup {b})
             /\ \A c \in BlocksOf(h) : next_block(g, c) = next_block(h, c)
<1> DEFINE g == fl_add(h, b)
<1>1. IsRecord(h)
  BY DEF Tiled
<1>2. IsRecord(g) /\ g.hdr = h.hdr /\ g.ftr = h.ftr /\ g.list = <<b>> \o h.list
  BY <1>1, ListFields
<1> HIDE DEF g
<1>3. Tiled(g) /\ BlocksOf(g) = BlocksOf(h) /\ FreeOf(g) = FreeOf(h)
      /\ \A c \in BlocksOf(h) : next_block(g, c) = next_block(h, c)
  BY <1>2, SameHeaders
<1>4. Lists(g.list, S \cup {b})
  BY <1>2, AddLists
<1> QED
  BY <1>2, <1>3, <1>4 DEF g

\* A block that is taken whole, and one that is given back.
LEMMA RetagUsed ==
  ASSUME NEW h, Tiled(h), NEW b \in BlocksOf(h)
  PROVE  LET g == WriteTags(h, b, h.hdr[b].size, FALSE)
         IN  /\ Tiled(g) /\ g.list = h.list
             /\ BlocksOf(g) = BlocksOf(h) /\ FreeOf(g) = FreeOf(h) \ {b}
             /\ g.hdr[b].size = h.hdr[b].size
             /\ \A c \in BlocksOf(h) : c # b => g.hdr[c] = h.hdr[c]
             /\ \A c \in BlocksOf(h) : next_block(g, c) = next_block(h, c)
<1> DEFINE free == FALSE
           g == WriteTags(h, b, h.hdr[b].size, free)
<1>1. free \in BOOLEAN
  OBVIOUS
<1>2. /\ Tiled(g) /\ g.list = h.list /\ BlocksOf(g) = BlocksOf(h)
      /\ g.hdr[b] = Tag(h.hdr[b].size, free)
      /\ \A c \in BlocksOf(h) : c # b => g.hdr[c] = h.hdr[c]
      /\ \A c \in BlocksOf(h) : next_block(g, c) = next_block(h, c)
  <2> HIDE DEF free
  <2> QED
    BY <1>1, Retag
<1> HIDE DEF g
<1>3. g.hdr[b].size = h.hdr[b].size
  BY <1>2 DEF Tag
<1>4. ~g.hdr[b].free
  BY <1>2 DEF Tag
<1>5. FreeOf(g) = FreeOf(h) \ {b}
  BY <1>2, <1>4 DEF FreeOf
<1> QED
  BY <1>2, <1>3, <1>5 DEF g

LEMMA RetagFree ==
  ASSUME NEW h, Tiled(h), NEW b \in BlocksOf(h)
  PROVE  LET g == WriteTags(h, b, h.hdr[b].size, TRUE)
         IN  /\ Tiled(g) /\ g.list = h.list
             /\ BlocksOf(g) = BlocksOf(h) /\ FreeOf(g) = FreeOf(h) \cup {b}
             /\ \A c \in BlocksOf(h) : c # b => g.hdr[c] = h.hdr[c]
             /\ \A c \in BlocksOf(h) : next_block(g, c) = next_block(h, c)
<1> DEFINE free == TRUE
           g == WriteTags(h, b, h.hdr[b].size, free)
<1>1. free \in BOOLEAN
  OBVIOUS
<1>2. /\ Tiled(g) /\ g.list = h.list /\ BlocksOf(g) = BlocksOf(h)
      /\ g.hdr[b] = Tag(h.hdr[b].size, free)
      /\ \A c \in BlocksOf(h) : c # b => g.hdr[c] = h.hdr[c]
      /\ \A c \in BlocksOf(h) : next_block(g, c) = next_block(h, c)
  <2> HIDE DEF free
  <2> QED
    BY <1>1, Retag
<1> HIDE DEF g
<1>4. g.hdr[b].free
  BY <1>2 DEF Tag
<1>5. FreeOf(g) = FreeOf(h) \cup {b}
  BY <1>2, <1>4 DEF FreeOf
<1> QED
  BY <1>2, <1>5 DEF g

LEMMA TakeBlockProperties ==
  ASSUME NEW h, Exact(h), NEW b \in FreeOf(h), NEW need \in Nat, h.hdr[b].size >= need
  PROVE  LET g == TakeBlock(h, b, need)
         IN  /\ Exact(g) /\ KeepsUsed(h, g, UsedOf(h) \cup {b})
             /\ g.hdr[b].size >= need /\ g.hdr[b].size <= h.hdr[b].size
<1> DEFINE h1 == fl_remove(h, b)
           rest == b + HDR_SIZE + need + FTR_SIZE
<1>1. Tiled(h) /\ Lists(h.list, FreeOf(h)) /\ b \in BlocksOf(h)
  BY DEF Exact, FreeOf
<1>2. /\ Tiled(h1) /\ BlocksOf(h1) = BlocksOf(h) /\ FreeOf(h1) = FreeOf(h)
      /\ h1.hdr = h.hdr /\ Lists(h1.list, FreeOf(h) \ {b})
      /\ \A c \in BlocksOf(h) : next_block(h1, c) = next_block(h, c)
  BY <1>1, FlRemove
<1>3. TakeBlock(h, b, need) = IF h.hdr[b].size >= need + MIN_BLOCK
                              THEN Split(h1, b, need)
                              ELSE WriteTags(h1, b, h1.hdr[b].size, FALSE)
  BY <1>2 DEF TakeBlock
<1> HIDE DEF h1
<1>4. ASSUME NEW c \in FreeOf(h)
      PROVE  next_block(h, c) \notin FreeOf(h)
  BY DEF Exact
<1>5. CASE h.hdr[b].size >= need + MIN_BLOCK
  <2> DEFINE g == Split(h1, b, need)
  <2>1. /\ Tiled(g) /\ g.list = <<rest>> \o h1.list
        /\ rest \notin BlocksOf(h1) /\ BlocksOf(g) = BlocksOf(h1) \cup {rest}
        /\ g.hdr[b].size = need /\ ~g.hdr[b].free /\ g.hdr[rest].free
        /\ \A c \in BlocksOf(h1) : c # b => g.hdr[c] = h1.hdr[c]
        /\ next_block(g, b) = rest /\ next_block(g, rest) = next_block(h1, b)
        /\ \A c \in BlocksOf(h1) : c # b => next_block(g, c) = next_block(h1, c)
    <3>1. Tiled(h1) /\ b \in BlocksOf(h1) /\ h1.hdr[b].size >= need + MIN_BLOCK
      BY <1>1, <1>2, <1>5
    <3> QED
      BY <3>1, SplitBlocks
  <2> HIDE DEF g, rest
  <2>4. FreeOf(g) = (FreeOf(h) \ {b}) \cup {rest}
    BY <1>1, <1>2, <2>1 DEF FreeOf
  <2>5. Lists(g.list, FreeOf(g))
    <3>1. rest \notin FreeOf(h) \ {b}
      BY <1>2, <2>1 DEF FreeOf
    <3> QED
      BY <3>1, <1>2, <2>1, <2>4, AddLists
  <2>6. ASSUME NEW c \in BlocksOf(h) PROVE next_block(h, c) # rest
    <3>1. next_block(h, c) = HEAP_SIZE \/ next_block(h, c) \in BlocksOf(h)
      BY <1>1 DEF Tiled
    <3>2. HEAP_SIZE \notin BlocksOf(g)
      BY <2>1, HeapAssumption DEF Tiled
    <3> QED
      BY <3>1, <3>2, <1>2, <2>1
  <2>7. ASSUME NEW c \in FreeOf(g) PROVE next_block(g, c) \notin FreeOf(g)
    <3>1. CASE c = rest
      BY <3>1, <1>1, <1>2, <1>4, <2>1, <2>4, <2>6
    <3>2. CASE c # rest
      <4>1. c \in FreeOf(h) /\ c \in BlocksOf(h) /\ c # b
        BY <3>2, <2>4 DEF FreeOf
      <4>2. next_block(g, c) = next_block(h, c)
        BY <4>1, <1>2, <2>1
      <4> QED
        BY <4>1, <4>2, <1>4, <2>4, <2>6
    <3> QED
      BY <3>1, <3>2
  <2>8. UsedOf(g) = UsedOf(h) \cup {b}
    BY <1>1, <1>2, <2>1, <2>4 DEF UsedOf, FreeOf
  <2>9. \A c \in UsedOf(h) : g.hdr[c] = h.hdr[c]
    BY <1>2, <2>1 DEF UsedOf
  <2>10. g.hdr[b].size >= need /\ g.hdr[b].size <= h.hdr[b].size
    BY <2>1
  <2>11. TakeBlock(h, b, need) = g
    BY <1>3, <1>5 DEF g
  <2> QED
    BY <2>1, <2>5, <2>7, <2>8, <2>9, <2>10, <2>11 DEF Exact, KeepsUsed
<1>6. CASE ~(h.hdr[b].size >= need + MIN_BLOCK)
  <2> DEFINE g == WriteTags(h1, b, h1.hdr[b].size, FALSE)
  <2>1. /\ Tiled(g) /\ g.list = h1.list
        /\ BlocksOf(g) = BlocksOf(h1) /\ FreeOf(g) = FreeOf(h1) \ {b}
        /\ g.hdr[b].size = h1.hdr[b].size
        /\ \A c \in BlocksOf(h1) : c # b => g.hdr[c] = h1.hdr[c]
        /\ \A c \in BlocksOf(h1) : next_block(g, c) = next_block(h1, c)
    BY <1>1, <1>2, RetagUsed
  <2> HIDE DEF g
  <2>2. UsedOf(g) = UsedOf(h) \cup {b}
    BY <1>1, <1>2, <2>1 DEF UsedOf, FreeOf
  <2>3. \A c \in UsedOf(h) : g.hdr[c] = h.hdr[c]
    BY <1>2, <2>1 DEF UsedOf
  <2>4. \A c \in FreeOf(g) : next_block(g, c) \notin FreeOf(g)
    BY <1>2, <1>4, <2>1 DEF FreeOf
  <2>5. Lists(g.list, FreeOf(g))
    BY <1>2, <2>1
  <2>6. TakeBlock(h, b, need) = g
    BY <1>3, <1>6 DEF g
  <2>7. g.hdr[b].size >= need /\ g.hdr[b].size <= h.hdr[b].size
    <3>1. h.hdr[b].size \in Nat
      BY <1>1, BlockBounds
    <3> QED
      BY <3>1, <1>2, <2>1
  <2> QED
    BY <1>2, <2>1, <2>2, <2>3, <2>4, <2>5, <2>6, <2>7 DEF Exact, KeepsUsed
<1> QED
  BY <1>5, <1>6

LEMMA CoalesceNextProperties ==
  ASSUME NEW h, NEW b, Pending(h, b)
  PROVE  LET g == CoalesceNext(h, b)
         IN  /\ Pending(g, b) /\ next_block(g, b) \notin FreeOf(g)
             /\ KeepsUsed(h, g, UsedOf(h))
<1> DEFINE c == next_block(h, b)
           h1 == fl_remove(h, c)
<1>1. /\ Tiled(h) /\ b \in FreeOf(h) /\ b \in BlocksOf(h) /\ Lists(h.list, FreeOf(h) \ {b})
      /\ c \in Nat /\ b \in Nat /\ c > b /\ (c = HEAP_SIZE \/ c \in BlocksOf(h))
      /\ HEAP_SIZE \in Nat
  <2>1. Tiled(h) /\ b \in FreeOf(h) /\ b \in BlocksOf(h) /\ Lists(h.list, FreeOf(h) \ {b})
    BY DEF Pending, FreeOf
  <2>2. c \in Nat /\ b \in Nat /\ c > b
    BY <2>1, BlockBounds, HeapAssumption
  <2> QED
    BY <2>1, <2>2, HeapAssumption DEF Tiled
<1>2. ASSUME NEW d \in FreeOf(h), d # b
      PROVE  next_block(h, d) \notin FreeOf(h) \ {b}
  BY <1>2 DEF Pending
<1>3. CASE c < HEAP_SIZE /\ h.hdr[c].free
  <2> DEFINE g == Absorb(h1, b, c)
  <2>1. c \in BlocksOf(h) /\ c \in FreeOf(h) \ {b}
    BY <1>1, <1>3 DEF FreeOf
  <2>2. /\ Tiled(h1) /\ BlocksOf(h1) = BlocksOf(h) /\ FreeOf(h1) = FreeOf(h)
        /\ h1.hdr = h.hdr /\ Lists(h1.list, (FreeOf(h) \ {b}) \ {c})
        /\ \A d \in BlocksOf(h) : next_block(h1, d) = next_block(h, d)
    BY <1>1, <2>1, FlRemove
  <2>3. CoalesceNext(h, b) = g
    BY <1>3 DEF CoalesceNext
  <2> HIDE DEF h1
  <2>4. /\ Tiled(g) /\ g.list = h1.list /\ BlocksOf(g) = BlocksOf(h1) \ {c}
        /\ g.hdr[b].free /\ next_block(g, b) = next_block(h1, c)
        /\ \A d \in BlocksOf(h1) : d # b /\ d # c =>
             g.hdr[d] = h1.hdr[d] /\ next_block(g, d) = next_block(h1, d)
    <3>1. c = next_block(h1, b)
      BY <1>1, <2>2
    <3> QED
      BY <1>1, <2>1, <2>2, <3>1, AbsorbBlocks
  <2> HIDE DEF g
  <2>5. FreeOf(g) = FreeOf(h) \ {c}
    BY <1>1, <2>1, <2>2, <2>4 DEF FreeOf
  <2>6. UsedOf(g) = UsedOf(h)
    BY <2>1, <2>2, <2>4, <2>5 DEF UsedOf
  <2>7. \A d \in UsedOf(h) : g.hdr[d] = h.hdr[d]
    BY <1>1, <2>1, <2>2, <2>4 DEF UsedOf
  <2>8. next_block(g, b) \notin FreeOf(g)
    <3>1. next_block(h, c) \notin FreeOf(h) \ {b}
      BY <1>2, <2>1
    <3>2. next_block(h, c) # b
      <4>1. next_block(h, c) \in Nat /\ next_block(h, c) > c
        BY <1>1, <2>1, BlockBounds, HeapAssumption
      <4> QED
        BY <4>1, <1>1
    <3> QED
      BY <3>1, <3>2, <2>1, <2>2, <2>4, <2>5
  <2>9. ASSUME NEW d \in FreeOf(g) \ {b}
        PROVE  next_block(g, d) \notin FreeOf(g) \ {b}
    <3>1. d \in FreeOf(h) /\ d # b /\ d # c /\ d \in BlocksOf(h)
      BY <2>5 DEF FreeOf
    <3> QED
      BY <3>1, <1>2, <2>2, <2>4, <2>5
  <2>10. b \in FreeOf(g) /\ Lists(g.list, FreeOf(g) \ {b})
    <3>1. (FreeOf(h) \ {b}) \ {c} = FreeOf(g) \ {b}
      BY <2>5
    <3> QED
      BY <3>1, <1>1, <2>1, <2>2, <2>4, <2>5
  <2> QED
    BY <2>3, <2>4, <2>6, <2>7, <2>8, <2>9, <2>10 DEF Pending, KeepsUsed
<1>4. CASE ~(c < HEAP_SIZE /\ h.hdr[c].free)
  <2>1. CoalesceNext(h, b) = h
    BY <1>4 DEF CoalesceNext
  <2>2. c \notin FreeOf(h)
    <3>1. ASSUME c \in FreeOf(h) PROVE FALSE
      <4>1. c \in BlocksOf(h) /\ h.hdr[c].free
        BY <3>1 DEF FreeOf
      <4>2. c < HEAP_SIZE
        BY <4>1, <1>1, BlockBounds
      <4> QED
        BY <4>1, <4>2, <1>4
    <3> QED
      BY <3>1
  <2> QED
    BY <2>1, <2>2 DEF KeepsUsed
<1> QED
  BY <1>3, <1>4

LEMMA CoalescePrevProperties ==
  ASSUME NEW h, NEW b, Pending(h, b), next_block(h, b) \notin FreeOf(h)
  PROVE  LET g == CoalescePrev(h, b)
         IN  Exact(g) /\ KeepsUsed(h, g, UsedOf(h))
<1> DEFINE p == prev_block(h, b)
           h1 == fl_remove(h, p)
<1>1. /\ Tiled(h) /\ b \in FreeOf(h) /\ b \in BlocksOf(h)
      /\ Lists(h.list, FreeOf(h) \ {b})
  BY DEF Pending, FreeOf
<1>2. ASSUME NEW d \in FreeOf(h), d # b
      PROVE  next_block(h, d) \notin FreeOf(h) \ {b}
  BY <1>2 DEF Pending
<1>3. IF b = 0 THEN p = NULL
      ELSE p \in BlocksOf(h) /\ p # NULL /\ next_block(h, p) = b
  BY <1>1, PrevBlock
<1>4. CoalescePrev(h, b) = IF p # NULL /\ h.hdr[p].free
                           THEN fl_add(Absorb(h1, p, b), p) ELSE fl_add(h, b)
  BY DEF CoalescePrev
<1> HIDE DEF p
<1>5. CASE p # NULL /\ h.hdr[p].free
  <2> DEFINE h2 == Absorb(h1, p, b)
             g == fl_add(h2, p)
  <2>1. p \in BlocksOf(h) /\ next_block(h, p) = b /\ p \in FreeOf(h) /\ p # b
    <3>1. p \in BlocksOf(h) /\ next_block(h, p) = b /\ p \in FreeOf(h)
      BY <1>3, <1>5 DEF FreeOf
    <3>2. p \in Nat /\ b > p
      BY <3>1, <1>1, BlockBounds, HeapAssumption
    <3> QED
      BY <3>1, <3>2
  <2>2. /\ Tiled(h1) /\ BlocksOf(h1) = BlocksOf(h) /\ FreeOf(h1) = FreeOf(h)
        /\ h1.hdr = h.hdr /\ Lists(h1.list, (FreeOf(h) \ {b}) \ {p})
        /\ \A d \in BlocksOf(h) : next_block(h1, d) = next_block(h, d)
    <3>1. p \in FreeOf(h) \ {b}
      BY <2>1
    <3> QED
      BY <1>1, <3>1, FlRemove
  <2> HIDE DEF h1
  <2>3. /\ Tiled(h2) /\ h2.list = h1.list /\ BlocksOf(h2) = BlocksOf(h1) \ {b}
        /\ h2.hdr[p].free /\ next_block(h2, p) = next_block(h1, b)
        /\ \A d \in BlocksOf(h1) : d # p /\ d # b =>
             h2.hdr[d] = h1.hdr[d] /\ next_block(h2, d) = next_block(h1, d)
    <3>1. b = next_block(h1, p)
      BY <2>1, <2>2
    <3> QED
      BY <1>1, <2>1, <2>2, <3>1, AbsorbBlocks
  <2> HIDE DEF h2
  <2>4. FreeOf(h2) = FreeOf(h) \ {b}
    BY <1>1, <2>1, <2>2, <2>3 DEF FreeOf
  <2>5. /\ Tiled(g) /\ BlocksOf(g) = BlocksOf(h2) /\ FreeOf(g) = FreeOf(h2)
        /\ g.hdr = h2.hdr /\ Lists(g.list, ((FreeOf(h) \ {b}) \ {p}) \cup {p})
        /\ \A d \in BlocksOf(h2) : next_block(g, d) = next_block(h2, d)
    <3> DEFINE S == (FreeOf(h) \ {b}) \ {p}
    <3>1. Tiled(h2) /\ Lists(h2.list, S) /\ p \notin S
      BY <2>2, <2>3
    <3> HIDE DEF S
    <3>2. /\ Tiled(g) /\ BlocksOf(g) = BlocksOf(h2) /\ FreeOf(g) = FreeOf(h2)
          /\ g.hdr = h2.hdr /\ Lists(g.list, S \cup {p})
          /\ \A d \in BlocksOf(h2) : next_block(g, d) = next_block(h2, d)
      BY <3>1, FlAdd
    <3> QED
      BY <3>2 DEF S
  <2> HIDE DEF g
  <2>6. Lists(g.list, FreeOf(g))
    <3>1. ((FreeOf(h) \ {b}) \ {p}) \cup {p} = FreeOf(g)
      BY <2>1, <2>4, <2>5
    <3> QED
      BY <3>1, <2>5
  <2>7. ASSUME NEW d \in FreeOf(g) PROVE next_block(g, d) \notin FreeOf(g)
    <3>1. d \in FreeOf(h) /\ d # b /\ d \in BlocksOf(h) /\ d \in BlocksOf(h2)
      BY <2>4, <2>5 DEF FreeOf
    <3>2. CASE d = p
      BY <3>1, <3>2, <1>1, <2>2, <2>3, <2>4, <2>5
    <3>3. CASE d # p
      BY <3>1, <3>3, <1>2, <2>2, <2>3, <2>4, <2>5
    <3> QED
      BY <3>2, <3>3
  <2>8. UsedOf(g) = UsedOf(h)
    BY <1>1, <2>2, <2>3, <2>4, <2>5 DEF UsedOf
  <2>9. \A d \in UsedOf(h) : g.hdr[d] = h.hdr[d]
    BY <1>1, <2>1, <2>2, <2>3, <2>5 DEF UsedOf
  <2>10. CoalescePrev(h, b) = g
    BY <1>4, <1>5 DEF g, h2
  <2> QED
    BY <2>5, <2>6, <2>7, <2>8, <2>9, <2>10 DEF Exact, KeepsUsed
<1>6. CASE ~(p # NULL /\ h.hdr[p].free)
  <2> DEFINE g == fl_add(h, b)
  <2>1. /\ Tiled(g) /\ BlocksOf(g) = BlocksOf(h) /\ FreeOf(g) = FreeOf(h)
        /\ g.hdr = h.hdr /\ Lists(g.list, (FreeOf(h) \ {b}) \cup {b})
        /\ \A d \in BlocksOf(h) : next_block(g, d) = next_block(h, d)
    <3>1. b \notin FreeOf(h) \ {b}
      OBVIOUS
    <3> QED
      BY <1>1, <3>1, FlAdd
  <2> HIDE DEF g
  <2>2. ASSUME NEW d \in FreeOf(h), d # b PROVE next_block(h, d) # b
    <3>1. d \in BlocksOf(h) /\ h.hdr[d].free
      BY DEF FreeOf
    <3>2. CASE b = 0
      <4>1. next_block(h, d) \in Nat /\ d \in Nat /\ next_block(h, d) > d
        BY <3>1, <1>1, BlockBounds, HeapAssumption
      <4> QED
        BY <4>1, <3>2
    <3>3. CASE b # 0
      <4>1. p \in BlocksOf(h) /\ next_block(h, p) = b /\ d # p
        BY <3>1, <3>3, <1>3, <1>6
      <4> QED
        BY <4>1, <3>1, <1>1, EndsDistinct
    <3> QED
      BY <3>2, <3>3
  <2>3. ASSUME NEW d \in FreeOf(g) PROVE next_block(g, d) \notin FreeOf(g)
    <3>1. d \in FreeOf(h) /\ next_block(g, d) = next_block(h, d)
      BY <2>1 DEF FreeOf
    <3> QED
      BY <3>1, <1>2, <2>1, <2>2
  <2>4. Lists(g.list, FreeOf(g))
    <3>1. (FreeOf(h) \ {b}) \cup {b} = FreeOf(g)
      BY <1>1, <2>1
    <3> QED
      BY <3>1, <2>1
  <2>5. CoalescePrev(h, b) = g
    BY <1>4, <1>6 DEF g
  <2> QED
    BY <2>1, <2>3, <2>4, <2>5 DEF Exact, KeepsUsed, UsedOf
<1> QED
  BY <1>5, <1>6

LEMMA FreeBlockProperties ==
  ASSUME NEW h, Exact(h), NEW b \in UsedOf(h)
  PROVE  LET g == FreeBlock(h, b)
         IN  Exact(g) /\ KeepsUsed(h, g, UsedOf(h) \ {b})
<1> DEFINE h1 == WriteTags(h, b, h.hdr[b].size, TRUE)
           h2 == CoalesceNext(h1, b)
           g == CoalescePrev(h2, b)
<1>1. Tiled(h) /\ b \in BlocksOf(h) /\ b \notin FreeOf(h) /\ Lists(h.list, FreeOf(h))
      /\ \A c \in FreeOf(h) : next_block(h, c) \notin FreeOf(h)
  BY DEF Exact, UsedOf
<1>2. /\ Tiled(h1) /\ h1.list = h.list
      /\ BlocksOf(h1) = BlocksOf(h) /\ FreeOf(h1) = FreeOf(h) \cup {b}
      /\ \A c \in BlocksOf(h) : c # b => h1.hdr[c] = h.hdr[c]
      /\ \A c \in BlocksOf(h) : next_block(h1, c) = next_block(h, c)
  BY <1>1, RetagFree
<1>3. FreeBlock(h, b) = g
  BY DEF FreeBlock
<1> HIDE DEF h1
<1>4. FreeOf(h1) \ {b} = FreeOf(h)
  BY <1>1, <1>2
<1>5. Pending(h1, b)
  <2>1. \A c \in FreeOf(h1) \ {b} : next_block(h1, c) \notin FreeOf(h1) \ {b}
    BY <1>1, <1>2, <1>4 DEF FreeOf
  <2> QED
    BY <2>1, <1>1, <1>2, <1>4 DEF Pending
<1>6. /\ Pending(h2, b) /\ next_block(h2, b) \notin FreeOf(h2)
      /\ KeepsUsed(h1, h2, UsedOf(h1))
  BY <1>5, CoalesceNextProperties
<1> HIDE DEF h2
<1>7. Exact(g) /\ KeepsUsed(h2, g, UsedOf(h2))
  BY <1>6, CoalescePrevProperties
<1> HIDE DEF g
<1>8. UsedOf(h1) = UsedOf(h) \ {b} /\ \A c \in UsedOf(h1) : h1.hdr[c] = h.hdr[c]
  BY <1>1, <1>2 DEF UsedOf
<1> QED
  BY <1>3, <1>6, <1>7, <1>8 DEF KeepsUsed
------------------------------------------------------------------------------
\* The invariant.

HeldInv ==
  /\ DOMAIN held \subseteq Nat /\ held \in [DOMAIN held -> Nat]
  /\ {p - HDR_SIZE : p \in DOMAIN held} = UsedOf(heap)

AnswerInv == answer \in [asked : Nat, ptr : Nat \cup {NULL}]

IInv == Exact(heap) /\ HeldInv /\ AnswerInv

\* Every held block is as long as what was asked for, as far as rounding does
\* not wrap.
SizesInv == \A p \in DOMAIN held : heap.hdr[p - HDR_SIZE].size >= held[p]

NoWrap == \A n \in Requests : n + ALIGN - 1 < WORD

LEMMA Division ==
  ASSUME NEW a \in Nat, NEW b \in Nat \ {0}
  PROVE  /\ a \div b \in Nat /\ a % b \in 0..(b - 1)
         /\ (a \div b) * b + (a % b) = a
OBVIOUS

LEMMA SmallModulus ==
  ASSUME NEW a \in Nat, NEW b \in Nat \ {0}, a < b
  PROVE  a % b = a
<1> DEFINE q == a \div b
           r == a % b
<1>1. q \in Nat /\ r \in 0..(b - 1) /\ q * b + r = a
  BY Division
<1> HIDE DEF q, r
<1>2. q = 0
  <2>1. SUFFICES ASSUME q # 0 PROVE FALSE
    OBVIOUS
  <2>2. PICK d \in Nat : q = d + 1
    <3>1. q - 1 \in Nat /\ q = (q - 1) + 1
      BY <2>1, <1>1
    <3> QED
      BY <3>1
  <2>3. q * b = d * b + b /\ d * b \in Nat
    BY <2>2
  <2> QED
    BY <2>3, <1>1
<1>3. r = a
  BY <1>1, <1>2
<1> QED
  BY <1>3 DEF r

LEMMA AlignedProperties ==
  ASSUME NEW n \in Requests
  PROVE  /\ n \in Nat /\ Aligned(n) \in Nat
         /\ NoWrap => Aligned(n) >= n
<1> DEFINE a == (n + ALIGN - 1) % WORD
<1>1. n \in Nat /\ n + ALIGN - 1 \in Nat /\ WORD \in Nat \ {0} /\ ALIGN \in Nat \ {0}
  BY HeapAssumption
<1>2. a \in Nat /\ (n + ALIGN - 1 < WORD => a = n + ALIGN - 1)
  <2> DEFINE m == n + ALIGN - 1
  <2> HIDE DEF m
  <2>1. m \in Nat /\ a = m % WORD
    BY <1>1 DEF m
  <2>2. m % WORD \in 0..(WORD - 1) /\ (m < WORD => m % WORD = m)
    BY <2>1, <1>1, Division, SmallModulus
  <2> HIDE DEF a
  <2>3. a \in Nat /\ (m < WORD => a = m)
    BY <2>1, <2>2, <1>1
  <2> QED
    BY <2>3 DEF m
<1> HIDE DEF a
<1>3. /\ a \div ALIGN \in Nat /\ a % ALIGN \in 0..(ALIGN - 1)
      /\ (a \div ALIGN) * ALIGN + (a % ALIGN) = a
  BY <1>1, <1>2, Division
<1> DEFINE r == (a \div ALIGN) * ALIGN
<1>4. r \in Nat
  BY <1>1, <1>3
<1>5. Aligned(n) = r
  BY DEF Aligned, a
<1> HIDE DEF r
<1>6. r + (a % ALIGN) = a
  BY <1>3 DEF r
<1>7. NoWrap => n + ALIGN - 1 < WORD
  BY DEF NoWrap
<1> QED
  BY <1>1, <1>2, <1>3, <1>4, <1>5, <1>6, <1>7

LEMMA FoundBlock ==
  ASSUME IInv, NEW n \in Requests, Found(heap, n) # NULL
  PROVE  /\ n # 0 /\ Found(heap, n) \in FreeOf(heap) /\ Found(heap, n) \in Nat
         /\ heap.hdr[Found(heap, n)].size >= Aligned(n)
<1>1. n # 0 /\ Found(heap, n) = find_free(heap, Aligned(n))
  BY DEF Found
<1>2. Exact(heap) /\ Aligned(n) \in Nat
  BY AlignedProperties DEF IInv
<1>3. Found(heap, n) \in FreeOf(heap) /\ heap.hdr[Found(heap, n)].size >= Aligned(n)
  BY <1>1, <1>2, FirstFit
<1>4. Found(heap, n) \in Nat
  BY <1>3, <1>2, BlockBounds DEF Exact, FreeOf
<1> QED
  BY <1>1, <1>3, <1>4

\* A pointer that a client holds is the data of a used block, of no other.
LEMMA HeldBlock ==
  ASSUME IInv, NEW ptr \in DOMAIN held
  PROVE  /\ ptr \in Nat /\ ptr - HDR_SIZE \in UsedOf(heap)
         /\ held[ptr] \in Nat
         /\ {p - HDR_SIZE : p \in DOMAIN held \ {ptr}} = UsedOf(heap) \ {ptr - HDR_SIZE}
<1>1. /\ DOMAIN held \subseteq Nat /\ held[ptr] \in Nat
      /\ {p - HDR_SIZE : p \in DOMAIN held} = UsedOf(heap)
  BY DEF IInv, HeldInv
<1>2. \A p \in DOMAIN held : p # ptr => p - HDR_SIZE # ptr - HDR_SIZE
  BY <1>1, HeapAssumption
<1> QED
  BY <1>1, <1>2

LEMMA InitEstablishes == Init => IInv /\ SizesInv
<1> SUFFICES ASSUME Init PROVE IInv /\ SizesInv
  OBVIOUS
<1> DEFINE size == HEAP_SIZE - HDR_SIZE - FTR_SIZE
           t == Tag(size, TRUE)
<1>1. size \in Nat /\ t \in Tags
  BY HeapAssumption DEF Tags, Tag
<1>2. /\ heap.hdr = [b \in {0} |-> t] /\ heap.ftr = [f \in {HEAP_SIZE - FTR_SIZE} |-> t]
      /\ heap.list = <<0>> /\ IsRecord(heap)
      /\ held = [p \in {} |-> 0] /\ answer = [asked |-> 0, ptr |-> NULL]
  BY DEF Init, IsRecord
<1>3. next_block(heap, 0) = HEAP_SIZE
  <2>1. heap.hdr[0].size = size
    BY <1>2 DEF Tag
  <2> HIDE DEF size
  <2>2. next_block(heap, 0) = 0 + HDR_SIZE + size + FTR_SIZE
    BY <2>1 DEF next_block, get_footer
  <2> QED
    BY <1>1, <2>2, HeapAssumption DEF size
<1>4. heap.hdr[0].free
  BY <1>2 DEF Tag
<1> HIDE DEF t
<1>5. BlocksOf(heap) = {0} /\ FreeOf(heap) = {0} /\ UsedOf(heap) = {}
  BY <1>2, <1>4 DEF BlocksOf, FreeOf, UsedOf
<1>6. Tiled(heap)
  <2>1. BlocksOf(heap) \subseteq 0..HEAP_SIZE - 1
    BY <1>5, HeapAssumption
  <2>2. heap.hdr \in [BlocksOf(heap) -> Tags] /\ heap.ftr \in [DOMAIN heap.ftr -> Tags]
    BY <1>1, <1>2, <1>5
  <2>3. DOMAIN heap.ftr = {next_block(heap, b) - FTR_SIZE : b \in BlocksOf(heap)}
    BY <1>2, <1>3, <1>5
  <2>4. \A b \in BlocksOf(heap) : heap.ftr[next_block(heap, b) - FTR_SIZE] = heap.hdr[b]
    BY <1>2, <1>3, <1>5
  <2> QED
    BY <1>2, <1>3, <1>5, <2>1, <2>2, <2>3, <2>4, HeapAssumption DEF Tiled
<1>7. Lists(heap.list, FreeOf(heap))
  <2>1. heap.list \in Seq({0}) /\ Len(heap.list) = 1 /\ heap.list[1] = 0
    BY <1>2
  <2> QED
    BY <2>1, <1>5 DEF Lists
<1>8. Exact(heap)
  BY <1>3, <1>5, <1>6, <1>7, HeapAssumption DEF Exact
<1>9. HeldInv /\ SizesInv
  BY <1>2, <1>5 DEF HeldInv, SizesInv
<1>10. AnswerInv
  BY <1>2 DEF AnswerInv
<1> QED
  BY <1>8, <1>9, <1>10 DEF IInv

LEMMA KmallocKeeps ==
  ASSUME IInv, NEW n \in Requests, Kmalloc(n)
  PROVE  IInv' /\ (NoWrap /\ SizesInv => SizesInv')
<1> DEFINE b == Found(heap, n)
<1>1. n \in Nat /\ Aligned(n) \in Nat /\ (NoWrap => Aligned(n) >= n)
  BY AlignedProperties
<1>2. Exact(heap) /\ HeldInv /\ AnswerInv
  BY DEF IInv
<1>3. CASE b = NULL
  <2>1. answer' = [asked |-> n, ptr |-> NULL] /\ heap' = heap /\ held' = held
    BY <1>3 DEF Kmalloc
  <2>2. AnswerInv'
    BY <2>1, <1>1 DEF AnswerInv
  <2> QED
    BY <2>1, <2>2, <1>2 DEF IInv, HeldInv, SizesInv
<1>4. CASE b # NULL
  <2>1. b \in FreeOf(heap) /\ b \in Nat /\ heap.hdr[b].size >= Aligned(n)
    BY <1>4, FoundBlock
  <2> HIDE DEF b
  <2>2. /\ heap' = TakeBlock(heap, b, Aligned(n))
        /\ held' = Set(held, b + HDR_SIZE, n)
        /\ answer' = [asked |-> n, ptr |-> b + HDR_SIZE]
    BY <1>4 DEF Kmalloc, b
  <2>3. /\ Exact(heap)' /\ KeepsUsed(heap, heap', UsedOf(heap) \cup {b})
        /\ heap'.hdr[b].size >= Aligned(n)
    BY <2>1, <2>2, <1>1, <1>2, TakeBlockProperties
  <2>4. AnswerInv'
    BY <2>1, <2>2, <1>1, HeapAssumption DEF AnswerInv
  <2>5. /\ DOMAIN held \subseteq Nat /\ held \in [DOMAIN held -> Nat]
        /\ {p - HDR_SIZE : p \in DOMAIN held} = UsedOf(heap)
    BY <1>2 DEF HeldInv
  <2> DEFINE q == b + HDR_SIZE
  <2>6. q \in Nat /\ q - HDR_SIZE = b
    BY <2>1, HeapAssumption
  <2>7. /\ DOMAIN held' = DOMAIN held \cup {q} /\ held' \in [DOMAIN held' -> Nat]
        /\ held'[q] = n
        /\ \A p \in DOMAIN held : p # q => held'[p] = held[p]
    BY <2>2, <2>5, <1>1 DEF Set
  <2> HIDE DEF q
  <2>8. UsedOf(heap)' = UsedOf(heap) \cup {b}
        /\ \A c \in UsedOf(heap) : heap'.hdr[c] = heap.hdr[c]
    BY <2>3 DEF KeepsUsed
  <2>9. {p - HDR_SIZE : p \in DOMAIN held'} = UsedOf(heap) \cup {b}
    <3>1. \A p \in DOMAIN held' : p - HDR_SIZE \in UsedOf(heap) \cup {b}
      BY <2>5, <2>6, <2>7
    <3>2. \A c \in UsedOf(heap) \cup {b} : \E p \in DOMAIN held' : c = p - HDR_SIZE
      BY <2>5, <2>6, <2>7
    <3> QED
      BY <3>1, <3>2
  <2>10. HeldInv'
    BY <2>5, <2>6, <2>7, <2>8, <2>9 DEF HeldInv
  <2>11. ASSUME NoWrap, SizesInv, NEW p \in DOMAIN held'
         PROVE  heap'.hdr[p - HDR_SIZE].size >= held'[p]
    <3>1. CASE p = q
      <4>1. heap'.hdr[b].size \in Nat
        <5>1. b \in BlocksOf(heap')
          BY <2>8 DEF UsedOf
        <5> QED
          BY <5>1, <2>3, BlockBounds DEF Exact
      <4>2. heap'.hdr[b].size >= n
        BY <4>1, <2>3, <2>11, <1>1
      <4>3. p - HDR_SIZE = b /\ held'[p] = n
        BY <3>1, <2>6, <2>7
      <4> QED
        BY <4>2, <4>3
    <3>2. CASE p # q
      <4>1. p \in DOMAIN held /\ p - HDR_SIZE \in UsedOf(heap)
        BY <3>2, <2>5, <2>7
      <4>2. heap.hdr[p - HDR_SIZE].size >= held[p]
        BY <4>1, <2>11 DEF SizesInv
      <4> QED
        BY <4>1, <4>2, <3>2, <2>7, <2>8
    <3> QED
      BY <3>1, <3>2
  <2> QED
    BY <2>3, <2>4, <2>10, <2>11 DEF IInv, SizesInv
<1> QED
  BY <1>3, <1>4

LEMMA KfreeKeeps ==
  ASSUME IInv, NEW ptr \in DOMAIN held, Kfree(ptr)
  PROVE  IInv' /\ (SizesInv => SizesInv')
<1> DEFINE b == ptr - HDR_SIZE
<1>1. /\ heap' = FreeBlock(heap, b) /\ held' = Without(held, ptr)
      /\ answer' = [asked |-> 0, ptr |-> NULL]
  BY DEF Kfree
<1>2. /\ ptr \in Nat /\ b \in UsedOf(heap)
      /\ {p - HDR_SIZE : p \in DOMAIN held \ {ptr}} = UsedOf(heap) \ {b}
  BY HeldBlock
<1> HIDE DEF b
<1>3. Exact(heap) /\ DOMAIN held \subseteq Nat /\ held \in [DOMAIN held -> Nat]
  BY DEF IInv, HeldInv
<1>4. Exact(heap)' /\ KeepsUsed(heap, heap', UsedOf(heap) \ {b})
  BY <1>1, <1>2, <1>3, FreeBlockProperties
<1>5. UsedOf(heap)' = UsedOf(heap) \ {b}
      /\ \A c \in UsedOf(heap) \ {b} : heap'.hdr[c] = heap.hdr[c]
  BY <1>4 DEF KeepsUsed
<1>6. /\ DOMAIN held' = DOMAIN held \ {ptr} /\ held' \in [DOMAIN held' -> Nat]
      /\ \A p \in DOMAIN held' : held'[p] = held[p]
  BY <1>1, <1>3 DEF Without
<1>7. HeldInv'
  BY <1>2, <1>3, <1>5, <1>6 DEF HeldInv
<1>8. AnswerInv'
  BY <1>1 DEF AnswerInv
<1>9. ASSUME SizesInv, NEW p \in DOMAIN held'
      PROVE  heap'.hdr[p - HDR_SIZE].size >= held'[p]
  <2>1. p \in DOMAIN held \ {ptr} /\ p - HDR_SIZE \in UsedOf(heap) \ {b}
    BY <1>2, <1>6
  <2>2. heap.hdr[p - HDR_SIZE].size >= held[p]
    BY <2>1, <1>9 DEF SizesInv
  <2> QED
    BY <2>1, <2>2, <1>5, <1>6
<1> QED
  BY <1>4, <1>7, <1>8, <1>9 DEF IInv, SizesInv

LEMMA ReallocInPlaceKeeps ==
  ASSUME IInv, NEW ptr \in DOMAIN held, NEW n \in Requests, KreallocInPlace(ptr, n)
  PROVE  IInv' /\ (SizesInv => SizesInv')
<1>1. /\ heap.hdr[ptr - HDR_SIZE].size >= n /\ heap' = heap
      /\ held' = Set(held, ptr, n) /\ answer' = [asked |-> n, ptr |-> ptr]
  BY DEF KreallocInPlace
<1>2. n \in Nat /\ ptr \in Nat
  BY AlignedProperties, HeldBlock
<1>3. /\ DOMAIN held \subseteq Nat /\ held \in [DOMAIN held -> Nat]
      /\ {p - HDR_SIZE : p \in DOMAIN held} = UsedOf(heap)
  BY DEF IInv, HeldInv
<1>4. DOMAIN held \cup {ptr} = DOMAIN held
  OBVIOUS
<1>5. /\ DOMAIN held' = DOMAIN held /\ held' \in [DOMAIN held' -> Nat]
      /\ held'[ptr] = n /\ \A p \in DOMAIN held : p # ptr => held'[p] = held[p]
  BY <1>1, <1>2, <1>3, <1>4 DEF Set
<1>6. HeldInv'
  BY <1>1, <1>3, <1>5 DEF HeldInv
<1>7. AnswerInv'
  BY <1>1, <1>2 DEF AnswerInv
<1>8. SizesInv => SizesInv'
  BY <1>1, <1>5 DEF SizesInv
<1> QED
  BY <1>1, <1>6, <1>7, <1>8 DEF IInv

LEMMA ReallocMoveKeeps ==
  ASSUME IInv, NEW ptr \in DOMAIN held, NEW n \in Requests, KreallocMove(ptr, n)
  PROVE  IInv' /\ (NoWrap /\ SizesInv => SizesInv')
<1> DEFINE b == Found(heap, n)
           d == ptr - HDR_SIZE
           h1 == TakeBlock(heap, b, Aligned(n))
<1>1. n \in Nat /\ Aligned(n) \in Nat /\ (NoWrap => Aligned(n) >= n)
  BY AlignedProperties
<1>2. /\ Exact(heap) /\ HeldInv /\ AnswerInv
      /\ DOMAIN held \subseteq Nat /\ held \in [DOMAIN held -> Nat]
  BY DEF IInv, HeldInv
<1>3. CASE b = NULL
  <2>1. answer' = [asked |-> n, ptr |-> NULL] /\ heap' = heap /\ held' = held
    BY <1>3 DEF KreallocMove
  <2>2. AnswerInv'
    BY <2>1, <1>1 DEF AnswerInv
  <2> QED
    BY <2>1, <2>2, <1>2 DEF IInv, HeldInv, SizesInv
<1>4. CASE b # NULL
  <2>1. b \in FreeOf(heap) /\ b \in Nat /\ heap.hdr[b].size >= Aligned(n)
    BY <1>4, FoundBlock
  <2>2. /\ heap' = FreeBlock(h1, d)
        /\ held' = Set(Without(held, ptr), b + HDR_SIZE, n)
        /\ answer' = [asked |-> n, ptr |-> b + HDR_SIZE]
    BY <1>4 DEF KreallocMove
  <2>3. /\ ptr \in Nat /\ d \in UsedOf(heap)
        /\ {p - HDR_SIZE : p \in DOMAIN held \ {ptr}} = UsedOf(heap) \ {d}
    BY HeldBlock
  <2> HIDE DEF b, d
  <2>4. Exact(h1) /\ KeepsUsed(heap, h1, UsedOf(heap) \cup {b}) /\ h1.hdr[b].size >= Aligned(n)
    BY <2>1, <1>1, <1>2, TakeBlockProperties
  <2> HIDE DEF h1
  <2>5. UsedOf(h1) = UsedOf(heap) \cup {b} /\ \A c \in UsedOf(heap) : h1.hdr[c] = heap.hdr[c]
    BY <2>4 DEF KeepsUsed
  <2>6. b # d
    BY <2>1, <2>3 DEF UsedOf
  <2>7. Exact(heap)' /\ KeepsUsed(h1, heap', UsedOf(h1) \ {d})
    <3>1. d \in UsedOf(h1)
      BY <2>3, <2>5
    <3> QED
      BY <3>1, <2>2, <2>4, FreeBlockProperties
  <2>8. /\ UsedOf(heap)' = (UsedOf(heap) \ {d}) \cup {b}
        /\ heap'.hdr[b] = h1.hdr[b]
        /\ \A c \in UsedOf(heap) \ {d} : heap'.hdr[c] = heap.hdr[c]
    BY <2>5, <2>6, <2>7 DEF KeepsUsed
  <2>9. AnswerInv'
    BY <2>1, <2>2, <1>1, HeapAssumption DEF AnswerInv
  <2> DEFINE q == b + HDR_SIZE
  <2>10. q \in Nat /\ q - HDR_SIZE = b
    BY <2>1, HeapAssumption
  <2>11. /\ DOMAIN held' = (DOMAIN held \ {ptr}) \cup {q}
         /\ held' \in [DOMAIN held' -> Nat]
         /\ held'[q] = n
         /\ \A p \in DOMAIN held \ {ptr} : p # q => held'[p] = held[p]
    BY <2>2, <1>1, <1>2 DEF Set, Without
  <2> HIDE DEF q
  <2>12. {p - HDR_SIZE : p \in DOMAIN held'} = (UsedOf(heap) \ {d}) \cup {b}
    <3>1. \A p \in DOMAIN held' : p - HDR_SIZE \in (UsedOf(heap) \ {d}) \cup {b}
      BY <2>3, <2>10, <2>11
    <3>2. \A c \in (UsedOf(heap) \ {d}) \cup {b} :
            \E p \in DOMAIN held' : c = p - HDR_SIZE
      BY <2>3, <2>10, <2>11
    <3> QED
      BY <3>1, <3>2
  <2>13. HeldInv'
    BY <1>2, <2>8, <2>10, <2>11, <2>12 DEF HeldInv
  <2>14. ASSUME NoWrap, SizesInv, NEW p \in DOMAIN held'
         PROVE  heap'.hdr[p - HDR_SIZE].size >= held'[p]
    <3>1. CASE p = q
      <4>1. h1.hdr[b].size \in Nat
        <5>1. b \in BlocksOf(h1)
          BY <2>5 DEF UsedOf
        <5> QED
          BY <5>1, <2>4, BlockBounds DEF Exact
      <4>2. heap'.hdr[b].size >= n
        BY <4>1, <2>4, <2>8, <2>14, <1>1
      <4>3. p - HDR_SIZE = b /\ held'[p] = n
        BY <3>1, <2>10, <2>11
      <4> QED
        BY <4>2, <4>3
    <3>2. CASE p # q
      <4>1. p \in DOMAIN held \ {ptr} /\ p - HDR_SIZE \in UsedOf(heap) \ {d}
        BY <3>2, <2>3, <2>11
      <4>2. heap.hdr[p - HDR_SIZE].size >= held[p]
        BY <4>1, <2>14 DEF SizesInv
      <4> QED
        BY <4>1, <4>2, <3>2, <2>8, <2>11
    <3> QED
      BY <3>1, <3>2
  <2> QED
    BY <2>7, <2>9, <2>13, <2>14 DEF IInv, SizesInv
<1> QED
  BY <1>3, <1>4

LEMMA StepKeeps == IInv /\ [Next]_vars => IInv' /\ (NoWrap /\ SizesInv => SizesInv')
<1> SUFFICES ASSUME IInv, [Next]_vars
             PROVE  IInv' /\ (NoWrap /\ SizesInv => SizesInv')
  OBVIOUS
<1>1. CASE \E n \in Requests : Kmalloc(n)
  BY <1>1, KmallocKeeps
<1>2. CASE \E ptr \in DOMAIN held : Kfree(ptr)
  BY <1>2, KfreeKeeps
<1>3. CASE \E ptr \in DOMAIN held, n \in Requests : KreallocInPlace(ptr, n)
  BY <1>3, ReallocInPlaceKeeps
<1>4. CASE \E ptr \in DOMAIN held, n \in Requests : KreallocMove(ptr, n)
  BY <1>4, ReallocMoveKeeps
<1>5. CASE UNCHANGED vars
  BY <1>5 DEF vars, IInv, HeldInv, AnswerInv, SizesInv
<1> QED
  BY <1>1, <1>2, <1>3, <1>4, <1>5 DEF Next

LEMMA InvariantHolds == Spec => []IInv
BY InitEstablishes, StepKeeps, PTL DEF Spec

------------------------------------------------------------------------------
\* Results.

LEMMA InvariantImplies == IInv => TypeOK /\ BlocksTile /\ FreeListExact
<1> SUFFICES ASSUME IInv PROVE TypeOK /\ BlocksTile /\ FreeListExact
  OBVIOUS
<1>1. Tiled(heap) /\ Lists(heap.list, FreeOf(heap))
      /\ \A b \in FreeOf(heap) : next_block(heap, b) \notin FreeOf(heap)
  BY DEF IInv, Exact
<1>2. BlocksOf(heap) = Blocks /\ FreeOf(heap) = FreeBlocks
  BY DEF BlocksOf, Blocks, FreeOf, FreeBlocks
<1>3. BlocksTile
  BY <1>1, <1>2 DEF Tiled, BlocksTile, EndOf
<1>4. heap.list \in Seq(FreeBlocks) /\ DOMAIN heap.list = 1..Len(heap.list)
  BY <1>1, <1>2 DEF Lists
<1>5. FreeListExact
  <2> DEFINE l == heap.list
  <2>1. Lists(l, FreeBlocks) /\ DOMAIN l = 1..Len(l) /\ l \in Seq(FreeBlocks)
    BY <1>1, <1>2, <1>4
  <2> HIDE DEF l
  <2>2. \A b \in FreeBlocks : \E i \in DOMAIN l : l[i] = b
    BY <2>1 DEF Lists
  <2>3. \A i \in DOMAIN l : l[i] \in FreeBlocks
    BY <2>1
  <2>4. \A i, j \in DOMAIN l : l[i] = l[j] => i = j
    BY <2>1 DEF Lists
  <2>5. \A b \in FreeBlocks : EndOf(b) \notin FreeBlocks
    BY <1>1, <1>2 DEF EndOf
  <2> QED
    BY <2>2, <2>3, <2>4, <2>5 DEF FreeListExact, l
<1>6. heap.list \in Seq(Blocks)
  BY <1>4 DEF FreeBlocks
<1>7. TypeOK
  BY <1>1, <1>2, <1>6 DEF TypeOK, Tiled, Tags, IInv, HeldInv, AnswerInv
<1> QED
  BY <1>3, <1>5, <1>7

\* heap.c: the tags and the free list keep their types; a block starts inside
\* the arena and only its header is on the list.
THEOREM TypeCorrect == Spec => []TypeOK
BY InvariantHolds, InvariantImplies, PTL

\* heap.c: kmalloc, kfree and krealloc in any order leave blocks that tile the
\* arena, each with a footer equal to its header.
THEOREM BlocksAlwaysTile == Spec => []BlocksTile
BY InvariantHolds, InvariantImplies, PTL

\* heap.c: after each call the free list holds the free blocks, each once, and
\* no two of them are neighbours.
THEOREM FreeListCorrect == Spec => []FreeListExact
BY InvariantHolds, InvariantImplies, PTL

\* kmalloc and krealloc give each client a used block of its own that is long
\* enough, provided that no size is so large that rounding it up wraps.
THEOREM ClientsCorrect == ASSUME NoWrap PROVE Spec => []ClientsOwnBlocks
<1>1. IInv /\ SizesInv => ClientsOwnBlocks
  BY DEF IInv, HeldInv, SizesInv, ClientsOwnBlocks, UsedOf, BlocksOf, FreeOf, Blocks, FreeBlocks
<1>2. Init => IInv /\ SizesInv
  BY InitEstablishes
<1>3. (IInv /\ SizesInv) /\ [Next]_vars => (IInv /\ SizesInv)'
  BY StepKeeps
<1> QED
  BY <1>1, <1>2, <1>3, PTL DEF Spec
------------------------------------------------------------------------------
\* Refinement: what clients hold, seen as chunks.

BlockSpan(h, b) == b..(next_block(h, b) - 1)

LEMMA SpansDisjoint ==
  ASSUME NEW h, Tiled(h), NEW b \in BlocksOf(h)
  PROVE  /\ BlockSpan(h, b) \subseteq 0..HEAP_SIZE - 1
         /\ b \in BlockSpan(h, b)
         /\ \A c \in BlocksOf(h) : c # b => BlockSpan(h, b) \cap BlockSpan(h, c) = {}
<1>1. \A c \in BlocksOf(h) : /\ c \in Nat /\ next_block(h, c) \in Nat /\ c < next_block(h, c)
                             /\ next_block(h, c) <= HEAP_SIZE
  BY BlockBounds, HeapAssumption
<1>2. \A c, d \in BlocksOf(h) : d > c => d >= next_block(h, c)
  BY DEF Tiled
<1>3. BlockSpan(h, b) \subseteq 0..HEAP_SIZE - 1 /\ b \in BlockSpan(h, b)
  BY <1>1, HeapAssumption DEF BlockSpan
<1>4. ASSUME NEW c \in BlocksOf(h), c # b
      PROVE  BlockSpan(h, b) \cap BlockSpan(h, c) = {}
  <2>1. next_block(h, b) <= c \/ next_block(h, c) <= b
    BY <1>1, <1>2, <1>4
  <2> QED
    BY <2>1, <1>1 DEF BlockSpan
<1> QED
  BY <1>3, <1>4

\* Each address of the arena lies in a block.
LEMMA BlockAround ==
  ASSUME NEW h, Tiled(h), NEW x \in 0..HEAP_SIZE - 1
  PROVE  \E b \in BlocksOf(h) : x \in BlockSpan(h, b)
<1> DEFINE S == {x - c : c \in {d \in BlocksOf(h) : d <= x}}
           b == x - Least(S)
<1>1. x \in Nat /\ x < HEAP_SIZE /\ \A c \in BlocksOf(h) : c \in Nat
  BY BlockBounds, HeapAssumption
<1>2. S \subseteq Nat /\ S # {}
  <2>1. 0 \in BlocksOf(h) /\ 0 <= x
    BY <1>1 DEF Tiled
  <2> QED
    BY <1>1, <2>1
<1>3. Least(S) \in S /\ \A y \in S : Least(S) <= y
  <2> HIDE DEF S
  <2> QED
    BY <1>2, LeastProperties
<1>4. b \in BlocksOf(h) /\ b <= x /\ b \in Nat
  BY <1>1, <1>3
<1>5. ASSUME NEW c \in BlocksOf(h), c <= x PROVE c <= b
  <2>1. Least(S) <= x - c
    BY <1>3, <1>5
  <2>2. Least(S) \in Nat /\ c \in Nat
    BY <1>1, <1>2, <1>3
  <2> QED
    BY <1>1, <2>1, <2>2
<1> HIDE DEF b, S
<1>6. x < next_block(h, b)
  <2>1. next_block(h, b) \in Nat /\ b < next_block(h, b)
    BY <1>4, BlockBounds, HeapAssumption
  <2>2. next_block(h, b) = HEAP_SIZE \/ next_block(h, b) \in BlocksOf(h)
    BY <1>4 DEF Tiled
  <2> QED
    BY <1>1, <1>4, <1>5, <2>1, <2>2, HeapAssumption
<1>7. next_block(h, b) \in Nat
  BY <1>4, BlockBounds
<1> QED
  BY <1>1, <1>4, <1>6, <1>7 DEF BlockSpan

ChunkFacts ==
  /\ DOMAIN Chunks = {b + HDR_SIZE : b \in UsedOf(heap)}
  /\ \A b \in UsedOf(heap) : Chunks[b + HDR_SIZE] = heap.hdr[b].size
  /\ Chunks = [p \in DOMAIN Chunks |-> Chunks[p]]

LEMMA ChunksAre == Exact(heap) => ChunkFacts
<1> SUFFICES ASSUME Exact(heap) PROVE ChunkFacts
  OBVIOUS
<1>1. UsedOf(heap) = Blocks \ FreeBlocks
  BY DEF UsedOf, BlocksOf, FreeOf, Blocks, FreeBlocks
<1>2. \A b \in UsedOf(heap) : b \in Nat /\ (b + HDR_SIZE) - HDR_SIZE = b
  BY BlockBounds, HeapAssumption DEF UsedOf, Exact
<1>3. DOMAIN Chunks = {b + HDR_SIZE : b \in UsedOf(heap)}
  BY <1>1 DEF Chunks
<1>4. ASSUME NEW b \in UsedOf(heap) PROVE Chunks[b + HDR_SIZE] = heap.hdr[b].size
  <2> DEFINE q == b + HDR_SIZE
  <2>1. q - HDR_SIZE = b /\ q \in DOMAIN Chunks
    BY <1>2, <1>3
  <2> HIDE DEF q
  <2>2. Chunks[q] = heap.hdr[q - HDR_SIZE].size
    BY <2>1 DEF Chunks
  <2> QED
    BY <2>1, <2>2 DEF q
<1>5. Chunks = [p \in DOMAIN Chunks |-> Chunks[p]]
  BY DEF Chunks
<1> QED
  BY <1>3, <1>4, <1>5 DEF ChunkFacts

LEMMA ChunksAreNext == Exact(heap)' => ChunkFacts'
<1>1. Exact(heap) => ChunkFacts
  BY ChunksAre
<1> QED
  BY <1>1, PTL

LEMMA SpanOfBlock ==
  ASSUME NEW h, Tiled(h), NEW b \in BlocksOf(h)
  PROVE  Abstract!Span(b + HDR_SIZE, h.hdr[b].size) = BlockSpan(h, b)
<1>1. /\ b \in Nat /\ h.hdr[b].size \in Nat /\ HDR_SIZE \in Nat /\ FTR_SIZE \in Nat
      /\ next_block(h, b) = b + HDR_SIZE + h.hdr[b].size + FTR_SIZE
  BY BlockBounds, HeapAssumption
<1> DEFINE s == h.hdr[b].size
           p == b + HDR_SIZE
<1>2. p - HDR_SIZE = b /\ p + s + FTR_SIZE - 1 = next_block(h, b) - 1
  BY <1>1
<1> HIDE DEF p, s
<1>3. Abstract!Span(p, s) = BlockSpan(h, b)
  BY <1>2 DEF Abstract!Span, BlockSpan
<1> QED
  BY <1>3 DEF p, s

LEMMA TakenIsUsed ==
  ASSUME Exact(heap)
  PROVE  /\ \A b \in UsedOf(heap) : BlockSpan(heap, b) \subseteq Abstract!Taken
         /\ \A x \in Abstract!Taken : \E b \in UsedOf(heap) : x \in BlockSpan(heap, b)
<1>1. Tiled(heap) /\ UsedOf(heap) \subseteq BlocksOf(heap) /\ ChunkFacts
  BY ChunksAre DEF Exact, UsedOf
<1>2. \A b \in UsedOf(heap) :
        /\ b + HDR_SIZE \in DOMAIN Chunks
        /\ Abstract!Span(b + HDR_SIZE, Chunks[b + HDR_SIZE]) = BlockSpan(heap, b)
  BY <1>1, SpanOfBlock DEF ChunkFacts
<1>3. \A p \in DOMAIN Chunks : \E b \in UsedOf(heap) : p = b + HDR_SIZE
  BY <1>1 DEF ChunkFacts
<1> DEFINE W == {Abstract!Span(p, Chunks[p]) : p \in DOMAIN Chunks}
<1>4. Abstract!Taken = UNION W
  BY DEF Abstract!Taken
<1>5. \A b \in UsedOf(heap) : BlockSpan(heap, b) \in W
  BY <1>2
<1>6. \A w \in W : \E b \in UsedOf(heap) : w = BlockSpan(heap, b)
  BY <1>2, <1>3
<1> HIDE DEF W
<1> QED
  BY <1>4, <1>5, <1>6

\* A hole that is long enough lies in one free block, since no two of them are
\* neighbours.
LEMMA HoleIsInFreeBlock ==
  ASSUME Exact(heap), NEW length \in Nat, NEW a \in 0..HEAP_SIZE - 1,
         a..(a + HDR_SIZE + length + FTR_SIZE - 1)
           \subseteq (0..HEAP_SIZE - 1) \ Abstract!Taken
  PROVE  \E b \in FreeOf(heap) : heap.hdr[b].size >= length
<1> DEFINE last == a + HDR_SIZE + length + FTR_SIZE - 1
<1>0. /\ Tiled(heap) /\ a \in Nat /\ HDR_SIZE \in Nat /\ FTR_SIZE \in Nat
      /\ HDR_SIZE > 0 /\ HEAP_SIZE \in Nat /\ last \in Nat /\ a <= last
  BY HeapAssumption DEF Exact
<1>1. PICK b \in BlocksOf(heap) : a \in BlockSpan(heap, b)
  BY <1>0, BlockAround
<1> DEFINE e == next_block(heap, b)
<1>2. /\ b \in Nat /\ heap.hdr[b].size \in Nat
      /\ e = b + HDR_SIZE + heap.hdr[b].size + FTR_SIZE
      /\ e \in Nat /\ b <= a /\ a < e
  BY <1>0, <1>1, BlockBounds DEF BlockSpan
<1>3. b \in FreeOf(heap)
  <2>1. a \in a..last
    BY <1>0
  <2>2. a \notin Abstract!Taken
    BY <2>1
  <2> QED
    BY <1>1, <2>2, TakenIsUsed DEF UsedOf
<1>4. e > last
  <2>1. SUFFICES ASSUME e <= last PROVE FALSE
    BY <1>0, <1>2
  <2>2. e \in a..last
    BY <2>1, <1>0, <1>2
  <2>3. e \in 0..HEAP_SIZE - 1 /\ e \notin Abstract!Taken
    BY <2>2
  <2>4. e # HEAP_SIZE
    BY <2>3, <1>0
  <2>5. e \in BlocksOf(heap)
    BY <2>4, <1>0 DEF Tiled
  <2>6. e \notin FreeOf(heap)
    BY <1>3 DEF Exact
  <2>7. e \in BlockSpan(heap, e)
    <3> HIDE DEF e
    <3> QED
      BY <2>5, <1>0, SpansDisjoint
  <2> HIDE DEF e
  <2> QED
    BY <2>3, <2>5, <2>6, <2>7, TakenIsUsed DEF UsedOf
<1>5. heap.hdr[b].size >= length
  <2> DEFINE s == heap.hdr[b].size
  <2>1. s \in Nat /\ e = b + HDR_SIZE + s + FTR_SIZE
    BY <1>2
  <2> HIDE DEF s, e
  <2>2. s >= length
    BY <2>1, <1>0, <1>2, <1>4
  <2> QED
    BY <2>2 DEF s
<1> QED
  BY <1>3, <1>5

LEMMA RefusalIsDue ==
  ASSUME IInv, NEW n \in Requests, Found(heap, n) = NULL
  PROVE  n = 0 \/ ~Abstract!HoleFor(n)
<1> DEFINE need == Aligned(n)
<1>1. Exact(heap) /\ Aligned(n) \in Nat
  BY AlignedProperties DEF IInv
<1>2. SUFFICES ASSUME n # 0, Abstract!HoleFor(n) PROVE FALSE
  OBVIOUS
<1>3. find_free(heap, need) = NULL
  BY <1>2 DEF Found
<1>4. PICK a \in 0..(HEAP_SIZE - 1) :
        a..(a + HDR_SIZE + need + FTR_SIZE - 1) \subseteq (0..(HEAP_SIZE - 1)) \ Abstract!Taken
  BY <1>2 DEF Abstract!HoleFor
<1> HIDE DEF need
<1>5. PICK b \in FreeOf(heap) : heap.hdr[b].size >= need
  BY <1>1, <1>4, HoleIsInFreeBlock DEF need
<1>6. PICK i \in DOMAIN heap.list : heap.list[i] = b
  BY <1>1, <1>5 DEF Exact, Lists
<1>7. i \in Fits(heap, need)
  BY <1>5, <1>6 DEF Fits, FreeOf
<1>8. find_free(heap, need) \in FreeOf(heap)
  <2> DEFINE F == Fits(heap, need)
  <2>1. F \subseteq DOMAIN heap.list /\ F # {}
    BY <1>7 DEF Fits
  <2>2. DOMAIN heap.list \subseteq Nat /\ \A j \in DOMAIN heap.list : heap.list[j] \in FreeOf(heap)
    <3>1. Lists(heap.list, FreeOf(heap))
      BY <1>1 DEF Exact
    <3> DEFINE l == heap.list
    <3>2. l \in Seq(FreeOf(heap)) /\ DOMAIN l = 1..Len(l) /\ Len(l) \in Nat
      BY <3>1 DEF Lists
    <3> HIDE DEF l
    <3>3. DOMAIN l \subseteq Nat /\ \A j \in DOMAIN l : l[j] \in FreeOf(heap)
      BY <3>2
    <3> QED
      BY <3>3 DEF l
  <2>3. find_free(heap, need) = heap.list[Least(F)]
    BY <2>1 DEF find_free, Least
  <2> HIDE DEF F
  <2>4. F \subseteq Nat
    BY <2>1, <2>2
  <2>5. Least(F) \in F
    BY <2>1, <2>4, LeastProperties
  <2> QED
    BY <2>1, <2>2, <2>3, <2>5
<1>9. find_free(heap, need) \in Int
  BY <1>1, <1>8, BlockBounds DEF Exact, FreeOf
<1> QED
  BY <1>3, <1>9, HeapAssumption

\* A block that was free becomes the chunk of n, when the blocks D go.
LEMMA PlaceStep ==
  ASSUME IInv, NEW n \in Requests, NEW b \in FreeOf(heap), NEW D,
         D \subseteq UsedOf(heap), Exact(heap)',
         UsedOf(heap)' = (UsedOf(heap) \ D) \cup {b},
         \A c \in UsedOf(heap) \ D : heap'.hdr[c] = heap.hdr[c],
         heap'.hdr[b].size >= n, heap'.hdr[b].size <= heap.hdr[b].size,
         answer' = [asked |-> n, ptr |-> b + HDR_SIZE]
  PROVE  Abstract!Place(n, {c + HDR_SIZE : c \in D})
<1> DEFINE p == b + HDR_SIZE
           Gone == {c + HDR_SIZE : c \in D}
<1>1. Exact(heap) /\ Tiled(heap) /\ b \in BlocksOf(heap) /\ b \notin UsedOf(heap)
  BY DEF IInv, Exact, UsedOf, FreeOf
<1>2. ChunkFacts /\ ChunkFacts'
  BY <1>1, ChunksAre, ChunksAreNext
<1>3. \A c \in UsedOf(heap) : c \in Nat
  BY <1>1, BlockBounds DEF UsedOf
<1>4. p \in Nat /\ b \in Nat
  BY <1>1, BlockBounds, HeapAssumption
<1>5. \A c, d \in Nat : c + HDR_SIZE = d + HDR_SIZE => c = d
  BY HeapAssumption
<1>6. p # NULL /\ answer'.ptr = p /\ answer'.asked = n
  BY <1>4, HeapAssumption
<1>7. p \notin DOMAIN Chunks
  BY <1>1, <1>2, <1>3, <1>4, <1>5 DEF ChunkFacts
<1>8. DOMAIN Chunks' = (DOMAIN Chunks \ Gone) \cup {p}
  <2>1. DOMAIN Chunks' = {c + HDR_SIZE : c \in (UsedOf(heap) \ D) \cup {b}}
    BY <1>2 DEF ChunkFacts
  <2>2. DOMAIN Chunks = {c + HDR_SIZE : c \in UsedOf(heap)}
    BY <1>2 DEF ChunkFacts
  <2>3. ASSUME NEW c \in UsedOf(heap) PROVE c + HDR_SIZE \in Gone <=> c \in D
    BY <1>3, <1>5
  <2> QED
    BY <2>1, <2>2, <2>3
<1>9. ASSUME NEW q \in DOMAIN Chunks \ Gone PROVE Chunks'[q] = Chunks[q]
  <2>1. PICK c \in UsedOf(heap) : q = c + HDR_SIZE
    BY <1>2 DEF ChunkFacts
  <2>2. c \notin D /\ c \in UsedOf(heap)'
    BY <2>1
  <2>3. Chunks'[q] = heap'.hdr[c].size /\ Chunks[q] = heap.hdr[c].size
    BY <1>2, <2>1, <2>2 DEF ChunkFacts
  <2> QED
    BY <2>2, <2>3
<1>10. Chunks'[p] = heap'.hdr[b].size
  BY <1>2 DEF ChunkFacts
<1>11. Abstract!Span(p, heap'.hdr[b].size) \subseteq (0..(HEAP_SIZE - 1)) \ Abstract!Taken
  <2> DEFINE s == heap'.hdr[b].size
             t == heap.hdr[b].size
  <2>1. b \in BlocksOf(heap') /\ Tiled(heap')
    BY DEF UsedOf, Exact
  <2>2. s \in Nat /\ t \in Nat /\ s <= t
    BY <1>1, <2>1, BlockBounds
  <2> HIDE DEF s, t, p
  <2>3. Abstract!Span(p, s) \subseteq Abstract!Span(p, t)
    BY <1>4, <2>2, HeapAssumption DEF Abstract!Span
  <2>4. Abstract!Span(p, t) = BlockSpan(heap, b)
    BY <1>1, SpanOfBlock DEF p, t
  <2>5. BlockSpan(heap, b) \subseteq 0..HEAP_SIZE - 1
    BY <1>1, SpansDisjoint
  <2>6. ASSUME NEW x \in BlockSpan(heap, b), x \in Abstract!Taken PROVE FALSE
    <3>1. PICK c \in UsedOf(heap) : x \in BlockSpan(heap, c)
      BY <1>1, <2>6, TakenIsUsed
    <3>2. c # b /\ c \in BlocksOf(heap)
      BY <3>1, <1>1 DEF UsedOf
    <3> QED
      BY <1>1, <2>6, <3>1, <3>2, SpansDisjoint
  <2> QED
    BY <2>3, <2>4, <2>5, <2>6 DEF s
<1> HIDE DEF p, Gone
<1>12. Chunks'[p] >= n
  BY <1>10
<1>13. Abstract!Span(p, Chunks'[p]) \subseteq (0..(HEAP_SIZE - 1)) \ Abstract!Taken
  BY <1>10, <1>11
<1>14. Abstract!Place(n, Gone)
  BY <1>6, <1>7, <1>8, <1>9, <1>12, <1>13 DEF Abstract!Place
<1> QED
  BY <1>14 DEF Gone

LEMMA KmallocRefines ==
  ASSUME IInv, NoWrap, NEW n \in Requests, Kmalloc(n)
  PROVE  Abstract!AllocatorNext
<1> DEFINE b == Found(heap, n)
<1>1. n \in Nat /\ Aligned(n) \in Nat /\ Aligned(n) >= n
  BY AlignedProperties
<1>2. CASE b = NULL
  <2>1. answer' = [asked |-> n, ptr |-> NULL] /\ heap' = heap
    BY <1>2 DEF Kmalloc
  <2>2. Chunks' = Chunks
    BY <2>1 DEF Chunks, Blocks, FreeBlocks
  <2>3. Abstract!HoleFor(answer'.asked) => Abstract!HoleFor(n)
    BY <2>1
  <2>4. Abstract!Refuse
    BY <1>2, <2>1, <2>2, <2>3, RefusalIsDue DEF Abstract!Refuse
  <2> QED
    BY <2>4 DEF Abstract!AllocatorNext
<1>3. CASE b # NULL
  <2>1. b \in FreeOf(heap) /\ b \in Nat /\ heap.hdr[b].size >= Aligned(n)
    BY <1>3, FoundBlock
  <2> HIDE DEF b
  <2>2. heap' = TakeBlock(heap, b, Aligned(n)) /\ answer' = [asked |-> n, ptr |-> b + HDR_SIZE]
    BY <1>3 DEF Kmalloc, b
  <2>3. /\ Exact(heap)' /\ KeepsUsed(heap, heap', UsedOf(heap) \cup {b})
        /\ heap'.hdr[b].size >= Aligned(n) /\ heap'.hdr[b].size <= heap.hdr[b].size
    BY <2>1, <2>2, <1>1, TakeBlockProperties DEF IInv
  <2>4. UsedOf(heap)' = (UsedOf(heap) \ {}) \cup {b}
        /\ \A c \in UsedOf(heap) \ {} : heap'.hdr[c] = heap.hdr[c]
    BY <2>3 DEF KeepsUsed
  <2>5. heap'.hdr[b].size >= n
    <3>1. b \in BlocksOf(heap') /\ Tiled(heap')
      BY <2>3, <2>4 DEF UsedOf, Exact
    <3>2. heap'.hdr[b].size \in Nat
      BY <3>1, BlockBounds
    <3> QED
      BY <3>2, <2>3, <1>1
  <2>6. Abstract!Place(n, {c + HDR_SIZE : c \in {}})
    BY <2>1, <2>2, <2>3, <2>4, <2>5, PlaceStep
  <2>7. {c + HDR_SIZE : c \in {}} = {} /\ answer'.asked = n
    BY <2>2
  <2>8. Abstract!Place(answer'.asked, {})
    BY <2>6, <2>7
  <2> QED
    BY <2>8 DEF Abstract!Grant, Abstract!AllocatorNext
<1> QED
  BY <1>2, <1>3

LEMMA KfreeRefines ==
  ASSUME IInv, NEW ptr \in DOMAIN held, Kfree(ptr)
  PROVE  Abstract!AllocatorNext
<1> DEFINE b == ptr - HDR_SIZE
<1>1. heap' = FreeBlock(heap, b) /\ answer' = [asked |-> 0, ptr |-> NULL]
  BY DEF Kfree
<1>2. ptr \in Nat /\ b \in UsedOf(heap) /\ ptr = b + HDR_SIZE
  BY HeldBlock, HeapAssumption
<1> HIDE DEF b
<1>3. Exact(heap) /\ Exact(heap)' /\ KeepsUsed(heap, heap', UsedOf(heap) \ {b})
  BY <1>1, <1>2, FreeBlockProperties DEF IInv
<1>4. ChunkFacts /\ ChunkFacts'
  BY <1>3, ChunksAre, ChunksAreNext
<1>5. UsedOf(heap)' = UsedOf(heap) \ {b}
      /\ \A c \in UsedOf(heap) \ {b} : heap'.hdr[c] = heap.hdr[c]
  BY <1>3 DEF KeepsUsed
<1>6. \A c \in UsedOf(heap) : c # b => c + HDR_SIZE # ptr
  BY <1>2, <1>3, BlockBounds, HeapAssumption DEF UsedOf, Exact
<1>7. DOMAIN Chunks' = DOMAIN Chunks \ {ptr} /\ ptr \in DOMAIN Chunks
  <2>1. DOMAIN Chunks' = {c + HDR_SIZE : c \in UsedOf(heap) \ {b}}
    BY <1>4, <1>5 DEF ChunkFacts
  <2>2. DOMAIN Chunks = {c + HDR_SIZE : c \in UsedOf(heap)}
    BY <1>4 DEF ChunkFacts
  <2> QED
    BY <2>1, <2>2, <1>2, <1>6
<1>8. ASSUME NEW q \in DOMAIN Chunks' PROVE Chunks'[q] = Chunks[q]
  <2>1. PICK c \in UsedOf(heap)' : q = c + HDR_SIZE
    BY <1>4 DEF ChunkFacts
  <2> QED
    BY <2>1, <1>4, <1>5 DEF ChunkFacts
<1>9. Chunks' = [q \in DOMAIN Chunks \ {ptr} |-> Chunks[q]]
  <2>1. Chunks' = [q \in DOMAIN Chunks' |-> Chunks'[q]]
    BY <1>4 DEF ChunkFacts
  <2> QED
    BY <2>1, <1>7, <1>8
<1>10. Abstract!Release
  BY <1>1, <1>7, <1>9 DEF Abstract!Release
<1> QED
  BY <1>10 DEF Abstract!AllocatorNext

LEMMA ReallocInPlaceRefines ==
  ASSUME IInv, NEW ptr \in DOMAIN held, NEW n \in Requests, KreallocInPlace(ptr, n)
  PROVE  Abstract!AllocatorNext
<1> DEFINE b == ptr - HDR_SIZE
<1>1. heap.hdr[b].size >= n /\ heap' = heap /\ answer' = [asked |-> n, ptr |-> ptr]
  BY DEF KreallocInPlace
<1>2. ptr \in Nat /\ b \in UsedOf(heap) /\ ptr = b + HDR_SIZE
  BY HeldBlock, HeapAssumption
<1> HIDE DEF b
<1>3. ChunkFacts
  BY ChunksAre DEF IInv
<1>4. ptr \in DOMAIN Chunks /\ Chunks[ptr] >= n
  BY <1>1, <1>2, <1>3 DEF ChunkFacts
<1>5. Chunks' = Chunks
  BY <1>1 DEF Chunks, Blocks, FreeBlocks
<1>6. Abstract!Keep
  BY <1>1, <1>4, <1>5 DEF Abstract!Keep
<1> QED
  BY <1>6 DEF Abstract!AllocatorNext

LEMMA ReallocMoveRefines ==
  ASSUME IInv, NoWrap, NEW ptr \in DOMAIN held, NEW n \in Requests, KreallocMove(ptr, n)
  PROVE  Abstract!AllocatorNext
<1> DEFINE b == Found(heap, n)
           d == ptr - HDR_SIZE
           h1 == TakeBlock(heap, b, Aligned(n))
<1>1. n \in Nat /\ Aligned(n) \in Nat /\ Aligned(n) >= n
  BY AlignedProperties
<1>2. CASE b = NULL
  <2>1. answer' = [asked |-> n, ptr |-> NULL] /\ heap' = heap
    BY <1>2 DEF KreallocMove
  <2>2. Chunks' = Chunks
    BY <2>1 DEF Chunks, Blocks, FreeBlocks
  <2>3. Abstract!HoleFor(answer'.asked) => Abstract!HoleFor(n)
    BY <2>1
  <2>4. Abstract!Refuse
    BY <1>2, <2>1, <2>2, <2>3, RefusalIsDue DEF Abstract!Refuse
  <2> QED
    BY <2>4 DEF Abstract!AllocatorNext
<1>3. CASE b # NULL
  <2>1. b \in FreeOf(heap) /\ b \in Nat /\ heap.hdr[b].size >= Aligned(n)
    BY <1>3, FoundBlock
  <2>2. heap' = FreeBlock(h1, d) /\ answer' = [asked |-> n, ptr |-> b + HDR_SIZE]
    BY <1>3 DEF KreallocMove
  <2>3. ptr \in Nat /\ d \in UsedOf(heap) /\ ptr = d + HDR_SIZE
    BY HeldBlock, HeapAssumption
  <2> HIDE DEF b, d
  <2>4. /\ Exact(h1) /\ KeepsUsed(heap, h1, UsedOf(heap) \cup {b})
        /\ h1.hdr[b].size >= Aligned(n) /\ h1.hdr[b].size <= heap.hdr[b].size
    BY <2>1, <1>1, TakeBlockProperties DEF IInv
  <2> HIDE DEF h1
  <2>5. UsedOf(h1) = UsedOf(heap) \cup {b} /\ \A c \in UsedOf(heap) : h1.hdr[c] = heap.hdr[c]
    BY <2>4 DEF KeepsUsed
  <2>6. b # d
    BY <2>1, <2>3 DEF UsedOf
  <2>7. Exact(heap)' /\ KeepsUsed(h1, heap', UsedOf(h1) \ {d})
    <3>1. d \in UsedOf(h1)
      BY <2>3, <2>5
    <3> QED
      BY <3>1, <2>2, <2>4, FreeBlockProperties
  <2>8. /\ UsedOf(heap)' = (UsedOf(heap) \ {d}) \cup {b}
        /\ heap'.hdr[b] = h1.hdr[b]
        /\ \A c \in UsedOf(heap) \ {d} : heap'.hdr[c] = heap.hdr[c]
    BY <2>5, <2>6, <2>7 DEF KeepsUsed
  <2>9. heap'.hdr[b].size >= n /\ heap'.hdr[b].size <= heap.hdr[b].size
    <3>1. b \in BlocksOf(h1) /\ Tiled(h1)
      BY <2>4, <2>5 DEF UsedOf, Exact
    <3>2. h1.hdr[b].size \in Nat
      BY <3>1, BlockBounds
    <3>3. h1.hdr[b].size >= n
      BY <3>2, <2>4, <1>1
    <3> QED
      BY <3>3, <2>4, <2>8
  <2>10. Abstract!Place(n, {c + HDR_SIZE : c \in {d}})
    <3>1. {d} \subseteq UsedOf(heap)
      BY <2>3
    <3> QED
      BY <3>1, <2>1, <2>2, <2>7, <2>8, <2>9, PlaceStep
  <2>11. {c + HDR_SIZE : c \in {d}} = {ptr} /\ answer'.asked = n
    BY <2>2, <2>3
  <2>12. ptr \in DOMAIN Chunks
    BY <2>3, ChunksAre DEF IInv, ChunkFacts
  <2>13. Abstract!Place(answer'.asked, {ptr})
    BY <2>10, <2>11
  <2> QED
    BY <2>12, <2>13 DEF Abstract!Move, Abstract!AllocatorNext
<1> QED
  BY <1>2, <1>3

\* kmalloc, krealloc and kfree implement the allocator of abstract chunks, under
\* the same proviso: no chunks overlap, none moves but by its owner's call, and
\* a request is refused only when no hole is long enough.
THEOREM HeapRefines == ASSUME NoWrap PROVE Spec => ImplementsAllocator
<1>1. Init => Abstract!AllocatorInit
  <2> SUFFICES ASSUME Init PROVE Abstract!AllocatorInit
    OBVIOUS
  <2>1. IInv /\ answer = [asked |-> 0, ptr |-> NULL] /\ held = [p \in {} |-> 0]
    BY InitEstablishes DEF Init
  <2>2. UsedOf(heap) = {}
    BY <2>1 DEF IInv, HeldInv
  <2>3. Chunks = [p \in {} |-> 0]
    BY <2>1, <2>2, ChunksAre DEF IInv, ChunkFacts
  <2> QED
    BY <2>1, <2>3 DEF Abstract!AllocatorInit
<1>2. ASSUME IInv, [Next]_vars
      PROVE  [Abstract!AllocatorNext]_(Abstract!allocatorVars)
  <2>1. CASE \E n \in Requests : Kmalloc(n)
    BY <1>2, <2>1, KmallocRefines
  <2>2. CASE \E ptr \in DOMAIN held : Kfree(ptr)
    BY <1>2, <2>2, KfreeRefines
  <2>3. CASE \E ptr \in DOMAIN held, n \in Requests : KreallocInPlace(ptr, n)
    BY <1>2, <2>3, ReallocInPlaceRefines
  <2>4. CASE \E ptr \in DOMAIN held, n \in Requests : KreallocMove(ptr, n)
    BY <1>2, <2>4, ReallocMoveRefines
  <2>5. CASE UNCHANGED vars
    <3>1. Chunks' = Chunks /\ answer' = answer
      BY <2>5 DEF vars, Chunks, Blocks, FreeBlocks
    <3> QED
      BY <3>1 DEF Abstract!allocatorVars
  <2> QED
    BY <1>2, <2>1, <2>2, <2>3, <2>4, <2>5 DEF Next
<1> QED
  BY <1>1, <1>2, InvariantHolds, PTL DEF Spec, ImplementsAllocator, Abstract!AllocatorSpec
==============================================================================
