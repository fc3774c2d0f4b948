---------------------------- MODULE Fat32_proofs ----------------------------
(***************************************************************************)
(* Proofs about Fat32: the volume stays typed, and the chains of its files *)
(* stay sound, for every size of volume, sector, directory sector and table *)
(* of open files.                                                          *)
(*                                                                         *)
(* The invariant IInv says that there are chains ch, one for each place    *)
(* that a directory entry can be at, and paths home, that explain the disk: *)
(* the allocation table holds the chains and they share no cluster (Laid), *)
(* every entry says where its chain starts and is no longer than it, but   *)
(* those of files being written (Told), the chains of directories are      *)
(* directory sectors without an entry behind an end (Housed), every entry  *)
(* is in a directory and no two have one path (Tree).  Together: Vol.  Each *)
(* open file is one of a chain's (FileOK), and a writer has it alone       *)
(* (Files).                                                                *)
(*                                                                         *)
(* A call is followed write by write.  Between writes chains may belong to *)
(* nobody: SPARE and MORE have those.  Leads and Turn say what a call on   *)
(* paths and a call on a descriptor lead to; Keeps what others see of it.  *)
(***************************************************************************)
EXTENDS Fat32, FiniteSetTheorems, SequenceTheorems, WellFoundedInduction, TLAPS

\* Where the recursions over a chain or over bytes start and what comes of them.
Start(t, f) == IF f.first # 0 THEN [t |-> t, c |-> f.first, full |-> FALSE] ELSE Taken(t)
Reached(t, f, x) == [t |-> x.t, c |-> x.c, full |-> x.full, first |-> Start(t, f).c]
ReadStart(d, f) == [t |-> <<d>>, f |-> f, out |-> <<>>, short |-> FALSE]
WriteStart(d, f) == [t |-> <<d>>, f |-> f, n |-> 0, short |-> FALSE]

------------------------------------------------------------------------------
\* Induction and recursion.

\* A set of numbers that is not empty has a least one.
LEMMA LeastExists ==
  ASSUME NEW S, S \subseteq Nat, S # {}
  PROVE  \E x \in S : \A y \in S : x <= y
<1> DEFINE R == {ss \in Nat \X Nat : ss[1] < ss[2]}
<1>1. IsWellFoundedOn(R, Nat)
  BY NatLessThanWellFounded DEF OpToRel
<1>2. PICK x \in S : \A y \in S : <<y, x>> \notin R
  <2> HIDE DEF R
  <2> QED
    BY <1>1, WFMin
<1>3. ASSUME NEW y \in S PROVE x <= y
  <2>1. x \in Nat /\ y \in Nat /\ <<y, x>> \in Nat \X Nat
    OBVIOUS
  <2>2. ~(<<y, x>>[1] < <<y, x>>[2])
    BY <1>2, <2>1
  <2> QED
    BY <2>1, <2>2
<1> QED
  BY <1>3

\* Induction up to N.
LEMMA RangeInduction ==
  ASSUME NEW N \in Nat, NEW T, 0 \in T, \A n \in 1..N : n - 1 \in T => n \in T
  PROVE  0..N \subseteq T
<1> SUFFICES ASSUME 0..N \ T # {}
             PROVE  FALSE
  OBVIOUS
<1> DEFINE S == 0..N \ T
<1>1. PICK x \in S : \A y \in S : x <= y
  <2>1. S \subseteq Nat
    OBVIOUS
  <2> HIDE DEF S
  <2> QED
    BY <2>1, LeastExists DEF S
<1>2. x # 0 /\ x \in 1..N
  BY <1>1
<1>3. x - 1 \in 0..N /\ x - 1 \notin S
  BY <1>1, <1>2
<1>4. x - 1 \in T
  BY <1>3
<1> QED
  BY <1>1, <1>2, <1>4

\* The function that Walk is defined by exists, and so for the others.
LEMMA WalkRuns ==
  ASSUME NEW d, NEW c, NEW n \in Nat
  PROVE  \E p : /\ p[0] = c
                /\ \A k \in 1..n : p[k] = NextOf(d, p[k - 1])
                /\ Walk(d, c, n) = p[n]
<1> DEFINE Run(q, m) == q = [k \in 0..m |-> IF k = 0 THEN c ELSE NextOf(d, q[k - 1])]
           T == {m \in 0..n : \E q : Run(q, m)}
<1>0. n \in Nat
  OBVIOUS
<1>1. 0 \in T
  <2> DEFINE q == [k \in 0..0 |-> c]
  <2>1. q = [k \in 0..0 |-> IF k = 0 THEN c ELSE NextOf(d, q[k - 1])]
    <3>1. \A k \in 0..0 : k = 0
      OBVIOUS
    <3> QED
      BY <3>1
  <2> HIDE DEF q
  <2> QED
    BY <1>0, <2>1
<1>2. \A m \in 1..n : m - 1 \in T => m \in T
  <2> TAKE m \in 1..n
  <2> HAVE m - 1 \in T
  <2>1. m \in Nat /\ m - 1 \in Nat /\ m \in 0..n
    BY <1>0
  <2>2. PICK q : Run(q, m - 1)
    OBVIOUS
  <2> DEFINE z == NextOf(d, q[m - 1])
             r == [k \in 0..m |-> IF k = m THEN z ELSE q[k]]
  <2>3. DOMAIN r = 0..m /\ r[m] = z /\ \A k \in 0..m - 1 : r[k] = q[k]
    <3> HIDE DEF z
    <3> QED
      BY <2>1
  <2>4. q[0] = c /\ \A k \in 1..m - 1 : q[k] = NextOf(d, q[k - 1])
    BY <2>1, <2>2
  <2>5. r = [k \in 0..m |-> IF k = 0 THEN c ELSE NextOf(d, r[k - 1])]
    <3>1. \A k \in 0..m : r[k] = IF k = 0 THEN c ELSE NextOf(d, r[k - 1])
      <4> TAKE k \in 0..m
      <4>1. CASE k = 0
        <5>1. r[0] = q[0]
          BY <2>1, <2>3
        <5> QED
          BY <2>4, <4>1, <5>1
      <4>2. CASE k \in 1..m - 1
        <5>1. k # 0 /\ k \in 0..m - 1 /\ k - 1 \in 0..m - 1
          BY <2>1, <4>2
        <5>2. r[k] = q[k] /\ r[k - 1] = q[k - 1]
          BY <2>3, <5>1
        <5> HIDE DEF r
        <5> QED
          BY <2>4, <4>2, <5>1, <5>2
      <4>3. CASE k = m
        <5>1. k # 0 /\ m - 1 \in 0..m - 1
          BY <2>1, <4>3
        <5>2. r[m - 1] = q[m - 1]
          BY <2>3, <5>1
        <5>3. r[m] = z
          BY <2>3
        <5> HIDE DEF r
        <5>4. r[k] = NextOf(d, r[k - 1])
          BY <4>3, <5>2, <5>3
        <5> QED
          BY <5>1, <5>4
      <4> QED
        BY <2>1, <4>1, <4>2, <4>3
    <3>2. r = [k \in 0..m |-> r[k]]
      BY <2>3
    <3> HIDE DEF r
    <3> QED
      BY <3>1, <3>2
  <2> HIDE DEF r
  <2> QED
    BY <2>1, <2>5
<1>3. \E q : Run(q, n)
  <2>1. 0..n \subseteq T
    <3> HIDE DEF T
    <3> QED
      BY <1>0, <1>1, <1>2, RangeInduction
  <2> QED
    BY <1>0, <2>1
<1> DEFINE p == CHOOSE q : Run(q, n)
<1>4. Run(p, n)
  BY <1>3
<1>5. Walk(d, c, n) = p[n]
  BY DEF Walk
<1> HIDE DEF p
<1>6. p[0] = c /\ \A k \in 1..n : p[k] = NextOf(d, p[k - 1])
  BY <1>0, <1>4
<1> QED
  BY <1>5, <1>6

\* Chain.
LEMMA ChainRuns ==
  ASSUME NEW d, NEW c \in Cluster
  PROVE  \E p : /\ p[0] = <<c>>
                /\ \A k \in 1..(total_clusters - 1) : p[k] = Longer(d, p[k - 1])
                /\ Chain(d, c) = p[total_clusters - 1]
<1> DEFINE Run(q, m) == q = [k \in 0..m |-> IF k = 0 THEN <<c>> ELSE Longer(d, q[k - 1])]
           T == {m \in 0..(total_clusters - 1) : \E q : Run(q, m)}
<1>0. (total_clusters - 1) \in Nat
  BY Fat32Assumption
<1>1. 0 \in T
  <2> DEFINE q == [k \in 0..0 |-> <<c>>]
  <2>1. q = [k \in 0..0 |-> IF k = 0 THEN <<c>> ELSE Longer(d, q[k - 1])]
    <3>1. \A k \in 0..0 : k = 0
      OBVIOUS
    <3> QED
      BY <3>1
  <2> HIDE DEF q
  <2> QED
    BY <1>0, <2>1
<1>2. \A m \in 1..(total_clusters - 1) : m - 1 \in T => m \in T
  <2> TAKE m \in 1..(total_clusters - 1)
  <2> HAVE m - 1 \in T
  <2>1. m \in Nat /\ m - 1 \in Nat /\ m \in 0..(total_clusters - 1)
    BY <1>0
  <2>2. PICK q : Run(q, m - 1)
    OBVIOUS
  <2> DEFINE z == Longer(d, q[m - 1])
             r == [k \in 0..m |-> IF k = m THEN z ELSE q[k]]
  <2>3. DOMAIN r = 0..m /\ r[m] = z /\ \A k \in 0..m - 1 : r[k] = q[k]
    <3> HIDE DEF z
    <3> QED
      BY <2>1
  <2>4. q[0] = <<c>> /\ \A k \in 1..m - 1 : q[k] = Longer(d, q[k - 1])
    BY <2>1, <2>2
  <2>5. r = [k \in 0..m |-> IF k = 0 THEN <<c>> ELSE Longer(d, r[k - 1])]
    <3>1. \A k \in 0..m : r[k] = IF k = 0 THEN <<c>> ELSE Longer(d, r[k - 1])
      <4> TAKE k \in 0..m
      <4>1. CASE k = 0
        <5>1. r[0] = q[0]
          BY <2>1, <2>3
        <5> QED
          BY <2>4, <4>1, <5>1
      <4>2. CASE k \in 1..m - 1
        <5>1. k # 0 /\ k \in 0..m - 1 /\ k - 1 \in 0..m - 1
          BY <2>1, <4>2
        <5>2. r[k] = q[k] /\ r[k - 1] = q[k - 1]
          BY <2>3, <5>1
        <5> HIDE DEF r
        <5> QED
          BY <2>4, <4>2, <5>1, <5>2
      <4>3. CASE k = m
        <5>1. k # 0 /\ m - 1 \in 0..m - 1
          BY <2>1, <4>3
        <5>2. r[m - 1] = q[m - 1]
          BY <2>3, <5>1
        <5>3. r[m] = z
          BY <2>3
        <5> HIDE DEF r
        <5>4. r[k] = Longer(d, r[k - 1])
          BY <4>3, <5>2, <5>3
        <5> QED
          BY <5>1, <5>4
      <4> QED
        BY <2>1, <4>1, <4>2, <4>3
    <3>2. r = [k \in 0..m |-> r[k]]
      BY <2>3
    <3> HIDE DEF r
    <3> QED
      BY <3>1, <3>2
  <2> HIDE DEF r
  <2> QED
    BY <2>1, <2>5
<1>3. \E q : Run(q, (total_clusters - 1))
  <2>1. 0..(total_clusters - 1) \subseteq T
    <3> HIDE DEF T
    <3> QED
      BY <1>0, <1>1, <1>2, RangeInduction
  <2> QED
    BY <1>0, <2>1
<1> DEFINE p == CHOOSE q : Run(q, (total_clusters - 1))
<1>4. Run(p, (total_clusters - 1))
  BY <1>3
<1>5. Chain(d, c) = p[total_clusters - 1]
  BY DEF Chain
<1> HIDE DEF p
<1>6. p[0] = <<c>> /\ \A k \in 1..(total_clusters - 1) : p[k] = Longer(d, p[k - 1])
  BY <1>0, <1>4
<1> QED
  BY <1>5, <1>6

\* FreeChain.
LEMMA FreeRuns ==
  ASSUME NEW t, NEW c
  PROVE  \E p : /\ p[0] = [t |-> t, c |-> c]
                /\ \A k \in 1..(total_clusters + 1) : p[k] = FreeLink(p[k - 1])
                /\ FreeChain(t, c) = p[total_clusters + 1].t
<1> DEFINE Run(q, m) == q = [k \in 0..m |-> IF k = 0 THEN [t |-> t, c |-> c] ELSE FreeLink(q[k - 1])]
           T == {m \in 0..(total_clusters + 1) : \E q : Run(q, m)}
<1>0. (total_clusters + 1) \in Nat
  BY Fat32Assumption
<1>1. 0 \in T
  <2> DEFINE q == [k \in 0..0 |-> [t |-> t, c |-> c]]
  <2>1. q = [k \in 0..0 |-> IF k = 0 THEN [t |-> t, c |-> c] ELSE FreeLink(q[k - 1])]
    <3>1. \A k \in 0..0 : k = 0
      OBVIOUS
    <3> QED
      BY <3>1
  <2> HIDE DEF q
  <2> QED
    BY <1>0, <2>1
<1>2. \A m \in 1..(total_clusters + 1) : m - 1 \in T => m \in T
  <2> TAKE m \in 1..(total_clusters + 1)
  <2> HAVE m - 1 \in T
  <2>1. m \in Nat /\ m - 1 \in Nat /\ m \in 0..(total_clusters + 1)
    BY <1>0
  <2>2. PICK q : Run(q, m - 1)
    OBVIOUS
  <2> DEFINE z == FreeLink(q[m - 1])
             r == [k \in 0..m |-> IF k = m THEN z ELSE q[k]]
  <2>3. DOMAIN r = 0..m /\ r[m] = z /\ \A k \in 0..m - 1 : r[k] = q[k]
    <3> HIDE DEF z
    <3> QED
      BY <2>1
  <2>4. q[0] = [t |-> t, c |-> c] /\ \A k \in 1..m - 1 : q[k] = FreeLink(q[k - 1])
    BY <2>1, <2>2
  <2>5. r = [k \in 0..m |-> IF k = 0 THEN [t |-> t, c |-> c] ELSE FreeLink(r[k - 1])]
    <3>1. \A k \in 0..m : r[k] = IF k = 0 THEN [t |-> t, c |-> c] ELSE FreeLink(r[k - 1])
      <4> TAKE k \in 0..m
      <4>1. CASE k = 0
        <5>1. r[0] = q[0]
          BY <2>1, <2>3
        <5> QED
          BY <2>4, <4>1, <5>1
      <4>2. CASE k \in 1..m - 1
        <5>1. k # 0 /\ k \in 0..m - 1 /\ k - 1 \in 0..m - 1
          BY <2>1, <4>2
        <5>2. r[k] = q[k] /\ r[k - 1] = q[k - 1]
          BY <2>3, <5>1
        <5> HIDE DEF r
        <5> QED
          BY <2>4, <4>2, <5>1, <5>2
      <4>3. CASE k = m
        <5>1. k # 0 /\ m - 1 \in 0..m - 1
          BY <2>1, <4>3
        <5>2. r[m - 1] = q[m - 1]
          BY <2>3, <5>1
        <5>3. r[m] = z
          BY <2>3
        <5> HIDE DEF r
        <5>4. r[k] = FreeLink(r[k - 1])
          BY <4>3, <5>2, <5>3
        <5> QED
          BY <5>1, <5>4
      <4> QED
        BY <2>1, <4>1, <4>2, <4>3
    <3>2. r = [k \in 0..m |-> r[k]]
      BY <2>3
    <3> HIDE DEF r
    <3> QED
      BY <3>1, <3>2
  <2> HIDE DEF r
  <2> QED
    BY <2>1, <2>5
<1>3. \E q : Run(q, (total_clusters + 1))
  <2>1. 0..(total_clusters + 1) \subseteq T
    <3> HIDE DEF T
    <3> QED
      BY <1>0, <1>1, <1>2, RangeInduction
  <2> QED
    BY <1>0, <2>1
<1> DEFINE p == CHOOSE q : Run(q, (total_clusters + 1))
<1>4. Run(p, (total_clusters + 1))
  BY <1>3
<1>5. FreeChain(t, c) = p[total_clusters + 1].t
  BY DEF FreeChain
<1> HIDE DEF p
<1>6. p[0] = [t |-> t, c |-> c] /\ \A k \in 1..(total_clusters + 1) : p[k] = FreeLink(p[k - 1])
  BY <1>0, <1>4
<1> QED
  BY <1>5, <1>6

\* fat32_resolve.
LEMMA ResolveRuns ==
  ASSUME NEW d, NEW path, Len(path) \in Nat
  PROVE  \E p : /\ p[0] = FoundRoot
                /\ \A k \in 1..Len(path) : p[k] = Below(d, p[k - 1], path[k])
                /\ fat32_resolve(d, path) = p[Len(path)]
<1> DEFINE Run(q, m) == q = [k \in 0..m |-> IF k = 0 THEN FoundRoot ELSE Below(d, q[k - 1], path[k])]
           T == {m \in 0..Len(path) : \E q : Run(q, m)}
<1>0. Len(path) \in Nat
  OBVIOUS
<1>1. 0 \in T
  <2> DEFINE q == [k \in 0..0 |-> FoundRoot]
  <2>1. q = [k \in 0..0 |-> IF k = 0 THEN FoundRoot ELSE Below(d, q[k - 1], path[k])]
    <3>1. \A k \in 0..0 : k = 0
      OBVIOUS
    <3> QED
      BY <3>1
  <2> HIDE DEF q
  <2> QED
    BY <1>0, <2>1
<1>2. \A m \in 1..Len(path) : m - 1 \in T => m \in T
  <2> TAKE m \in 1..Len(path)
  <2> HAVE m - 1 \in T
  <2>1. m \in Nat /\ m - 1 \in Nat /\ m \in 0..Len(path)
    BY <1>0
  <2>2. PICK q : Run(q, m - 1)
    OBVIOUS
  <2> DEFINE z == Below(d, q[m - 1], path[m])
             r == [k \in 0..m |-> IF k = m THEN z ELSE q[k]]
  <2>3. DOMAIN r = 0..m /\ r[m] = z /\ \A k \in 0..m - 1 : r[k] = q[k]
    <3> HIDE DEF z
    <3> QED
      BY <2>1
  <2>4. q[0] = FoundRoot /\ \A k \in 1..m - 1 : q[k] = Below(d, q[k - 1], path[k])
    BY <2>1, <2>2
  <2>5. r = [k \in 0..m |-> IF k = 0 THEN FoundRoot ELSE Below(d, r[k - 1], path[k])]
    <3>1. \A k \in 0..m : r[k] = IF k = 0 THEN FoundRoot ELSE Below(d, r[k - 1], path[k])
      <4> TAKE k \in 0..m
      <4>1. CASE k = 0
        <5>1. r[0] = q[0]
          BY <2>1, <2>3
        <5> QED
          BY <2>4, <4>1, <5>1
      <4>2. CASE k \in 1..m - 1
        <5>1. k # 0 /\ k \in 0..m - 1 /\ k - 1 \in 0..m - 1
          BY <2>1, <4>2
        <5>2. r[k] = q[k] /\ r[k - 1] = q[k - 1]
          BY <2>3, <5>1
        <5> HIDE DEF r
        <5> QED
          BY <2>4, <4>2, <5>1, <5>2
      <4>3. CASE k = m
        <5>1. k # 0 /\ m - 1 \in 0..m - 1
          BY <2>1, <4>3
        <5>2. r[m - 1] = q[m - 1]
          BY <2>3, <5>1
        <5>3. r[m] = z
          BY <2>3
        <5> HIDE DEF r
        <5>4. r[k] = Below(d, r[k - 1], path[k])
          BY <4>3, <5>2, <5>3
        <5> QED
          BY <5>1, <5>4
      <4> QED
        BY <2>1, <4>1, <4>2, <4>3
    <3>2. r = [k \in 0..m |-> r[k]]
      BY <2>3
    <3> HIDE DEF r
    <3> QED
      BY <3>1, <3>2
  <2> HIDE DEF r
  <2> QED
    BY <2>1, <2>5
<1>3. \E q : Run(q, Len(path))
  <2>1. 0..Len(path) \subseteq T
    <3> HIDE DEF T
    <3> QED
      BY <1>0, <1>1, <1>2, RangeInduction
  <2> QED
    BY <1>0, <2>1
<1> DEFINE p == CHOOSE q : Run(q, Len(path))
<1>4. Run(p, Len(path))
  BY <1>3
<1>5. fat32_resolve(d, path) = p[Len(path)]
  BY DEF fat32_resolve
<1> HIDE DEF p
<1>6. p[0] = FoundRoot /\ \A k \in 1..Len(path) : p[k] = Below(d, p[k - 1], path[k])
  BY <1>0, <1>4
<1> QED
  BY <1>5, <1>6

\* Reach.
LEMMA ReachRuns ==
  ASSUME NEW t, NEW f, NEW n \in Nat, n = f.pos \div SECTOR
  PROVE  \E p : /\ p[0] = Start(t, f)
                /\ \A k \in 1..n : p[k] = Grow(p[k - 1])
                /\ Reach(t, f) = Reached(t, f, p[n])
<1> DEFINE Run(q, m) == q = [k \in 0..m |-> IF k = 0 THEN Start(t, f) ELSE Grow(q[k - 1])]
           T == {m \in 0..n : \E q : Run(q, m)}
<1>0. n \in Nat
  OBVIOUS
<1>1. 0 \in T
  <2> DEFINE q == [k \in 0..0 |-> Start(t, f)]
  <2>1. q = [k \in 0..0 |-> IF k = 0 THEN Start(t, f) ELSE Grow(q[k - 1])]
    <3>1. \A k \in 0..0 : k = 0
      OBVIOUS
    <3> QED
      BY <3>1
  <2> HIDE DEF q
  <2> QED
    BY <1>0, <2>1
<1>2. \A m \in 1..n : m - 1 \in T => m \in T
  <2> TAKE m \in 1..n
  <2> HAVE m - 1 \in T
  <2>1. m \in Nat /\ m - 1 \in Nat /\ m \in 0..n
    BY <1>0
  <2>2. PICK q : Run(q, m - 1)
    OBVIOUS
  <2> DEFINE z == Grow(q[m - 1])
             r == [k \in 0..m |-> IF k = m THEN z ELSE q[k]]
  <2>3. DOMAIN r = 0..m /\ r[m] = z /\ \A k \in 0..m - 1 : r[k] = q[k]
    <3> HIDE DEF z
    <3> QED
      BY <2>1
  <2>4. q[0] = Start(t, f) /\ \A k \in 1..m - 1 : q[k] = Grow(q[k - 1])
    BY <2>1, <2>2
  <2>5. r = [k \in 0..m |-> IF k = 0 THEN Start(t, f) ELSE Grow(r[k - 1])]
    <3>1. \A k \in 0..m : r[k] = IF k = 0 THEN Start(t, f) ELSE Grow(r[k - 1])
      <4> TAKE k \in 0..m
      <4>1. CASE k = 0
        <5>1. r[0] = q[0]
          BY <2>1, <2>3
        <5> QED
          BY <2>4, <4>1, <5>1
      <4>2. CASE k \in 1..m - 1
        <5>1. k # 0 /\ k \in 0..m - 1 /\ k - 1 \in 0..m - 1
          BY <2>1, <4>2
        <5>2. r[k] = q[k] /\ r[k - 1] = q[k - 1]
          BY <2>3, <5>1
        <5> HIDE DEF r
        <5> QED
          BY <2>4, <4>2, <5>1, <5>2
      <4>3. CASE k = m
        <5>1. k # 0 /\ m - 1 \in 0..m - 1
          BY <2>1, <4>3
        <5>2. r[m - 1] = q[m - 1]
          BY <2>3, <5>1
        <5>3. r[m] = z
          BY <2>3
        <5> HIDE DEF r
        <5>4. r[k] = Grow(r[k - 1])
          BY <4>3, <5>2, <5>3
        <5> QED
          BY <5>1, <5>4
      <4> QED
        BY <2>1, <4>1, <4>2, <4>3
    <3>2. r = [k \in 0..m |-> r[k]]
      BY <2>3
    <3> HIDE DEF r
    <3> QED
      BY <3>1, <3>2
  <2> HIDE DEF r
  <2> QED
    BY <2>1, <2>5
<1>3. \E q : Run(q, n)
  <2>1. 0..n \subseteq T
    <3> HIDE DEF T
    <3> QED
      BY <1>0, <1>1, <1>2, RangeInduction
  <2> QED
    BY <1>0, <2>1
<1> DEFINE p == CHOOSE q : Run(q, n)
<1>4. Run(p, n)
  BY <1>3
<1>5. Reach(t, f) = Reached(t, f, p[n])
  BY DEF Reach, Reached, Start
<1> HIDE DEF p
<1>6. p[0] = Start(t, f) /\ \A k \in 1..n : p[k] = Grow(p[k - 1])
  BY <1>0, <1>4
<1> QED
  BY <1>5, <1>6

\* ReadOutcome.
LEMMA ReadRuns ==
  ASSUME NEW d, NEW f, NEW count, NEW n \in Nat, ~(f.pos >= f.size),
         n = IF f.pos + count > f.size THEN f.size - f.pos ELSE count
  PROVE  \E p : /\ p[0] = ReadStart(d, f)
                /\ \A k \in 1..n : p[k] = ReadByte(p[k - 1])
                /\ ReadOutcome(d, f, count) = p[n]
<1> DEFINE Run(q, m) == q = [k \in 0..m |-> IF k = 0 THEN ReadStart(d, f) ELSE ReadByte(q[k - 1])]
           T == {m \in 0..n : \E q : Run(q, m)}
<1>0. n \in Nat
  OBVIOUS
<1>1. 0 \in T
  <2> DEFINE q == [k \in 0..0 |-> ReadStart(d, f)]
  <2>1. q = [k \in 0..0 |-> IF k = 0 THEN ReadStart(d, f) ELSE ReadByte(q[k - 1])]
    <3>1. \A k \in 0..0 : k = 0
      OBVIOUS
    <3> QED
      BY <3>1
  <2> HIDE DEF q
  <2> QED
    BY <1>0, <2>1
<1>2. \A m \in 1..n : m - 1 \in T => m \in T
  <2> TAKE m \in 1..n
  <2> HAVE m - 1 \in T
  <2>1. m \in Nat /\ m - 1 \in Nat /\ m \in 0..n
    BY <1>0
  <2>2. PICK q : Run(q, m - 1)
    OBVIOUS
  <2> DEFINE z == ReadByte(q[m - 1])
             r == [k \in 0..m |-> IF k = m THEN z ELSE q[k]]
  <2>3. DOMAIN r = 0..m /\ r[m] = z /\ \A k \in 0..m - 1 : r[k] = q[k]
    <3> HIDE DEF z
    <3> QED
      BY <2>1
  <2>4. q[0] = ReadStart(d, f) /\ \A k \in 1..m - 1 : q[k] = ReadByte(q[k - 1])
    BY <2>1, <2>2
  <2>5. r = [k \in 0..m |-> IF k = 0 THEN ReadStart(d, f) ELSE ReadByte(r[k - 1])]
    <3>1. \A k \in 0..m : r[k] = IF k = 0 THEN ReadStart(d, f) ELSE ReadByte(r[k - 1])
      <4> TAKE k \in 0..m
      <4>1. CASE k = 0
        <5>1. r[0] = q[0]
          BY <2>1, <2>3
        <5> QED
          BY <2>4, <4>1, <5>1
      <4>2. CASE k \in 1..m - 1
        <5>1. k # 0 /\ k \in 0..m - 1 /\ k - 1 \in 0..m - 1
          BY <2>1, <4>2
        <5>2. r[k] = q[k] /\ r[k - 1] = q[k - 1]
          BY <2>3, <5>1
        <5> HIDE DEF r
        <5> QED
          BY <2>4, <4>2, <5>1, <5>2
      <4>3. CASE k = m
        <5>1. k # 0 /\ m - 1 \in 0..m - 1
          BY <2>1, <4>3
        <5>2. r[m - 1] = q[m - 1]
          BY <2>3, <5>1
        <5>3. r[m] = z
          BY <2>3
        <5> HIDE DEF r
        <5>4. r[k] = ReadByte(r[k - 1])
          BY <4>3, <5>2, <5>3
        <5> QED
          BY <5>1, <5>4
      <4> QED
        BY <2>1, <4>1, <4>2, <4>3
    <3>2. r = [k \in 0..m |-> r[k]]
      BY <2>3
    <3> HIDE DEF r
    <3> QED
      BY <3>1, <3>2
  <2> HIDE DEF r
  <2> QED
    BY <2>1, <2>5
<1>3. \E q : Run(q, n)
  <2>1. 0..n \subseteq T
    <3> HIDE DEF T
    <3> QED
      BY <1>0, <1>1, <1>2, RangeInduction
  <2> QED
    BY <1>0, <2>1
<1> DEFINE p == CHOOSE q : Run(q, n)
<1>4. Run(p, n)
  BY <1>3
<1>5. ReadOutcome(d, f, count) = p[n]
  BY DEF ReadOutcome, ReadStart
<1> HIDE DEF p
<1>6. p[0] = ReadStart(d, f) /\ \A k \in 1..n : p[k] = ReadByte(p[k - 1])
  BY <1>0, <1>4
<1> QED
  BY <1>5, <1>6

\* WriteOutcome.
LEMMA WriteRuns ==
  ASSUME NEW d, NEW f, NEW bytes, Len(bytes) \in Nat
  PROVE  \E p : /\ p[0] = WriteStart(d, f)
                /\ \A k \in 1..Len(bytes) : p[k] = WriteByte(p[k - 1], bytes[k])
                /\ WriteOutcome(d, f, bytes) = p[Len(bytes)]
<1> DEFINE Run(q, m) == q = [k \in 0..m |-> IF k = 0 THEN WriteStart(d, f) ELSE WriteByte(q[k - 1], bytes[k])]
           T == {m \in 0..Len(bytes) : \E q : Run(q, m)}
<1>0. Len(bytes) \in Nat
  OBVIOUS
<1>1. 0 \in T
  <2> DEFINE q == [k \in 0..0 |-> WriteStart(d, f)]
  <2>1. q = [k \in 0..0 |-> IF k = 0 THEN WriteStart(d, f) ELSE WriteByte(q[k - 1], bytes[k])]
    <3>1. \A k \in 0..0 : k = 0
      OBVIOUS
    <3> QED
      BY <3>1
  <2> HIDE DEF q
  <2> QED
    BY <1>0, <2>1
<1>2. \A m \in 1..Len(bytes) : m - 1 \in T => m \in T
  <2> TAKE m \in 1..Len(bytes)
  <2> HAVE m - 1 \in T
  <2>1. m \in Nat /\ m - 1 \in Nat /\ m \in 0..Len(bytes)
    BY <1>0
  <2>2. PICK q : Run(q, m - 1)
    OBVIOUS
  <2> DEFINE z == WriteByte(q[m - 1], bytes[m])
             r == [k \in 0..m |-> IF k = m THEN z ELSE q[k]]
  <2>3. DOMAIN r = 0..m /\ r[m] = z /\ \A k \in 0..m - 1 : r[k] = q[k]
    <3> HIDE DEF z
    <3> QED
      BY <2>1
  <2>4. q[0] = WriteStart(d, f) /\ \A k \in 1..m - 1 : q[k] = WriteByte(q[k - 1], bytes[k])
    BY <2>1, <2>2
  <2>5. r = [k \in 0..m |-> IF k = 0 THEN WriteStart(d, f) ELSE WriteByte(r[k - 1], bytes[k])]
    <3>1. \A k \in 0..m : r[k] = IF k = 0 THEN WriteStart(d, f) ELSE WriteByte(r[k - 1], bytes[k])
      <4> TAKE k \in 0..m
      <4>1. CASE k = 0
        <5>1. r[0] = q[0]
          BY <2>1, <2>3
        <5> QED
          BY <2>4, <4>1, <5>1
      <4>2. CASE k \in 1..m - 1
        <5>1. k # 0 /\ k \in 0..m - 1 /\ k - 1 \in 0..m - 1
          BY <2>1, <4>2
        <5>2. r[k] = q[k] /\ r[k - 1] = q[k - 1]
          BY <2>3, <5>1
        <5> HIDE DEF r
        <5> QED
          BY <2>4, <4>2, <5>1, <5>2
      <4>3. CASE k = m
        <5>1. k # 0 /\ m - 1 \in 0..m - 1
          BY <2>1, <4>3
        <5>2. r[m - 1] = q[m - 1]
          BY <2>3, <5>1
        <5>3. r[m] = z
          BY <2>3
        <5> HIDE DEF r
        <5>4. r[k] = WriteByte(r[k - 1], bytes[k])
          BY <4>3, <5>2, <5>3
        <5> QED
          BY <5>1, <5>4
      <4> QED
        BY <2>1, <4>1, <4>2, <4>3
    <3>2. r = [k \in 0..m |-> r[k]]
      BY <2>3
    <3> HIDE DEF r
    <3> QED
      BY <3>1, <3>2
  <2> HIDE DEF r
  <2> QED
    BY <2>1, <2>5
<1>3. \E q : Run(q, Len(bytes))
  <2>1. 0..Len(bytes) \subseteq T
    <3> HIDE DEF T
    <3> QED
      BY <1>0, <1>1, <1>2, RangeInduction
  <2> QED
    BY <1>0, <2>1
<1> DEFINE p == CHOOSE q : Run(q, Len(bytes))
<1>4. Run(p, Len(bytes))
  BY <1>3
<1>5. WriteOutcome(d, f, bytes) = p[Len(bytes)]
  BY DEF WriteOutcome, WriteStart
<1> HIDE DEF p
<1>6. p[0] = WriteStart(d, f) /\ \A k \in 1..Len(bytes) : p[k] = WriteByte(p[k - 1], bytes[k])
  BY <1>0, <1>4
<1> QED
  BY <1>5, <1>6

------------------------------------------------------------------------------
\* Chains: ch[o] is the sequence of clusters of o, and no cluster is in two
\* places.

\* The first cluster of a chain, 0 for an empty one.
First(s) == IF s = <<>> THEN 0 ELSE s[1]

\* The link of its i-th cluster.
Link1(fat, s, i) == fat[s[i]] = IF i < Len(s) THEN s[i + 1] ELSE EOC

\* The table holds the chains, and they share no cluster.
Laid(fat, ch) ==
  /\ \A o \in DOMAIN ch : ch[o] \in Seq(Cluster)
  /\ \A o \in DOMAIN ch : \A i \in 1..Len(ch[o]) : Link1(fat, ch[o], i)
  /\ \A o, p \in DOMAIN ch : \A i \in 1..Len(ch[o]), j \in 1..Len(ch[p]) :
       ch[o][i] = ch[p][j] => o = p /\ i = j

\* What a link can be, and the tables.
Links == {0, EOC} \cup Cluster
Fats == [Cluster -> Links]

\* The sizes of a volume.
LEMMA Constants ==
  /\ total_clusters \in Nat /\ total_clusters >= 1 /\ SLOTS \in Nat /\ SLOTS >= 2
  /\ SECTOR \in Nat /\ SECTOR >= 1 /\ MAX_OPEN_FILES \in Nat /\ MAX_OPEN_FILES >= 1
BY Fat32Assumption

\* The numbers of clusters, and those that are none.
LEMMA ClusterFacts ==
  /\ Cluster \subseteq Nat /\ 0 \notin Cluster /\ EOC \notin Cluster /\ EOC # 0
  /\ EOC \in Nat /\ root_cluster \in Cluster /\ IsFiniteSet(Cluster)
  /\ Cardinality(Cluster) = total_clusters
<1>1. total_clusters \in Nat /\ total_clusters >= 1
  BY Constants
<1>2. IsFiniteSet(Cluster) /\ Cardinality(Cluster) = total_clusters
  BY <1>1, FS_Interval DEF Cluster
<1>3. Cluster \subseteq Nat /\ 0 \notin Cluster /\ EOC \notin Cluster /\ EOC # 0 /\ EOC \in Nat
  BY <1>1 DEF Cluster, EOC
<1>4. root_cluster \in Cluster
  BY <1>1 DEF Cluster, root_cluster
<1> QED
  BY <1>2, <1>3, <1>4

\* What is known of the elements of a sequence.
LEMMA SeqElement ==
  ASSUME NEW S, NEW s \in Seq(S)
  PROVE  /\ Len(s) \in Nat /\ DOMAIN s = 1..Len(s) /\ (s = <<>> <=> Len(s) = 0)
         /\ \A i \in 1..Len(s) : s[i] \in S
BY EmptySeq, LenProperties, ElementOfSeq

\* What is known of one of the chains.
LEMMA LaidFacts ==
  ASSUME NEW fat, NEW ch, Laid(fat, ch), NEW o \in DOMAIN ch
  PROVE  /\ ch[o] \in Seq(Cluster) /\ Len(ch[o]) \in Nat /\ DOMAIN ch[o] = 1..Len(ch[o])
         /\ ch[o] = <<>> <=> Len(ch[o]) = 0
         /\ \A i \in 1..Len(ch[o]) : ch[o][i] \in Cluster
         /\ \A i \in 1..Len(ch[o]) : Link1(fat, ch[o], i)
<1>1. ch[o] \in Seq(Cluster) /\ \A i \in 1..Len(ch[o]) : Link1(fat, ch[o], i)
  BY DEF Laid
<1> QED
  BY <1>1, SeqElement

\* Chains share no cluster.
LEMMA LaidApart ==
  ASSUME NEW fat, NEW ch, Laid(fat, ch), NEW o \in DOMAIN ch, NEW p \in DOMAIN ch,
         NEW i \in 1..Len(ch[o]), NEW j \in 1..Len(ch[p]), ch[o][i] = ch[p][j]
  PROVE  o = p /\ i = j
BY DEF Laid

\* A chain has no cluster twice, and no more than there are.
LEMMA LaidShort ==
  ASSUME NEW fat, NEW ch, Laid(fat, ch), NEW o \in DOMAIN ch
  PROVE  /\ Len(ch[o]) <= total_clusters
         /\ IsFiniteSet(Range(ch[o])) /\ Cardinality(Range(ch[o])) = Len(ch[o])
<1> DEFINE s == ch[o]
           n == Len(s)
           S == 1..n
           f == [i \in S |-> s[i]]
<1>1. n \in Nat /\ DOMAIN s = S /\ \A i \in S : s[i] \in Cluster
  BY LaidFacts
<1>2. \A i, j \in S : s[i] = s[j] => i = j
  BY LaidApart
<1> HIDE DEF s, n
<1>3. IsFiniteSet(S) /\ Cardinality(S) = n
  <2>1. 1 \in Int /\ n \in Int /\ (IF 1 > n THEN 0 ELSE n - 1 + 1) = n
    BY <1>1
  <2> QED
    BY <2>1, FS_Interval
<1> HIDE DEF S
<1>4. f \in Injection(S, Cluster)
  BY <1>1, <1>2 DEF Injection, IsInjective
<1>5. n <= total_clusters
  <2> HIDE DEF f
  <2> QED
    BY <1>3, <1>4, ClusterFacts, FS_Injection
<1>6. f \in Bijection(S, Range(s))
  <2>1. f \in [S -> Range(s)]
    BY <1>1 DEF Range
  <2>2. \A y \in Range(s) : \E i \in S : f[i] = y
    BY <1>1 DEF Range
  <2> QED
    BY <1>2, <2>1, <2>2 DEF Bijection, Injection, Surjection, IsInjective
<1>7. ExistsBijection(S, Range(s))
  BY <1>6 DEF ExistsBijection
<1>8. IsFiniteSet(Range(s)) /\ Cardinality(Range(s)) = n
  BY <1>3, <1>7, FS_Bijection
<1> QED
  BY <1>5, <1>8 DEF s, n

\* The first n elements of a sequence.
LEMMA HeadPart ==
  ASSUME NEW S, NEW s \in Seq(S), NEW n \in 0..Len(s)
  PROVE  /\ SubSeq(s, 1, n) \in Seq(S) /\ Len(SubSeq(s, 1, n)) = n
         /\ \A i \in 1..n : SubSeq(s, 1, n)[i] = s[i]
<1>1. Len(s) \in Nat /\ \A i \in 1..Len(s) : s[i] \in S
  BY SeqElement
<1>2. n \in Nat /\ 1 \in Int /\ n \in Int /\ \A i \in 1..n : s[i] \in S
  BY <1>1
<1>3. /\ SubSeq(s, 1, n) \in Seq(S)
      /\ Len(SubSeq(s, 1, n)) = IF 1 <= n THEN n - 1 + 1 ELSE 0
      /\ \A i \in 1..n - 1 + 1 : SubSeq(s, 1, n)[i] = s[1 + i - 1]
  BY <1>2, SubSeqProperties
<1> QED
  BY <1>2, <1>3

\* One element more.
LEMMA AppendPart ==
  ASSUME NEW S, NEW s \in Seq(S), NEW n \in 1..Len(s)
  PROVE  /\ SubSeq(s, 1, n - 1) \in Seq(S) /\ s[n] \in S
         /\ Append(SubSeq(s, 1, n - 1), s[n]) = SubSeq(s, 1, n)
<1> DEFINE a == SubSeq(s, 1, n - 1)
           b == SubSeq(s, 1, n)
           x == s[n]
<1>1. Len(s) \in Nat /\ x \in S
  BY SeqElement
<1>2. n \in 0..Len(s) /\ n - 1 \in 0..Len(s) /\ n \in Nat
  BY <1>1
<1>3. a \in Seq(S) /\ Len(a) = n - 1 /\ \A i \in 1..n - 1 : a[i] = s[i]
  BY <1>2, HeadPart
<1>4. b \in Seq(S) /\ Len(b) = n /\ \A i \in 1..n : b[i] = s[i]
  BY <1>2, HeadPart
<1> HIDE DEF a, b
<1>5. /\ Append(a, x) \in Seq(S) /\ Len(Append(a, x)) = n
      /\ \A i \in 1..n : Append(a, x)[i] = b[i]
  <2> HIDE DEF x
  <2>1. Append(a, x) \in Seq(S) /\ Len(Append(a, x)) = n
    BY <1>1, <1>2, <1>3, AppendProperties
  <2>2. \A i \in 1..n : Append(a, x)[i] = IF i <= n - 1 THEN a[i] ELSE x
    BY <1>1, <1>2, <1>3, AppendProperties
  <2> QED
    BY <1>2, <1>3, <1>4, <2>1, <2>2 DEF x
<1>6. Append(a, x) = b
  BY <1>4, <1>5, SeqEqual
<1> QED
  BY <1>1, <1>3, <1>6 DEF a, b

\* Chain follows a chain to its end.
LEMMA ChainIs ==
  ASSUME NEW d, NEW ch, Laid(d.fat, ch), NEW o \in DOMAIN ch
  PROVE  Chain(d, First(ch[o])) = ch[o]
<1> DEFINE s == ch[o]
           n == Len(s)
           part(k) == SubSeq(s, 1, IF k + 1 <= n THEN k + 1 ELSE n)
           N == total_clusters - 1
<1>1. /\ s \in Seq(Cluster) /\ n \in Nat /\ (s = <<>> <=> n = 0) /\ n <= total_clusters
      /\ \A i \in 1..n : s[i] \in Cluster /\ Link1(d.fat, s, i)
  BY LaidFacts, LaidShort
<1>2. N \in Nat
  BY Constants
<1> HIDE DEF s, n
<1>3. CASE s = <<>>
  <2>1. First(s) = 0 /\ First(s) \notin Cluster
    BY <1>3, ClusterFacts DEF First
  <2>2. Chain(d, First(s)) = <<>>
    BY <2>1 DEF Chain
  <2> QED
    BY <1>3, <2>2 DEF s
<1>4. CASE s # <<>>
  <2>1. n >= 1 /\ First(s) = s[1] /\ s[1] \in Cluster
    BY <1>1, <1>4 DEF First
  <2>2. PICK p : /\ p[0] = <<s[1]>>
                 /\ \A k \in 1..N : p[k] = Longer(d, p[k - 1])
                 /\ Chain(d, s[1]) = p[N]
    BY <2>1, ChainRuns
  <2> DEFINE T == {k \in 0..N : p[k] = part(k)}
  <2>3. 0 \in T
    <3>1. SubSeq(s, 1, 1) \in Seq(Cluster) /\ Len(SubSeq(s, 1, 1)) = 1 /\ SubSeq(s, 1, 1)[1] = s[1]
      BY <1>1, <2>1, HeadPart
    <3>2. <<s[1]>> \in Seq(Cluster) /\ Len(<<s[1]>>) = 1 /\ <<s[1]>>[1] = s[1]
      BY <2>1
    <3>3. SubSeq(s, 1, 1) = <<s[1]>>
      <4> DEFINE a == SubSeq(s, 1, 1)
                 b == <<s[1]>>
      <4>1. a \in Seq(Cluster) /\ b \in Seq(Cluster) /\ Len(a) = Len(b) /\ \A i \in 1..Len(a) : a[i] = b[i]
        BY <3>1, <3>2
      <4> HIDE DEF a, b
      <4>2. a = b
        BY <4>1, SeqEqual
      <4> QED
        BY <4>2 DEF a, b
    <3>4. part(0) = SubSeq(s, 1, 1)
      BY <2>1
    <3>5. p[0] = part(0)
      BY <2>2, <3>3, <3>4
    <3> HIDE DEF part
    <3> QED
      BY <1>2, <3>5
  <2>4. \A k \in 1..N : k - 1 \in T => k \in T
    <3> TAKE k \in 1..N
    <3> HAVE k - 1 \in T
    <3>1. k \in Nat /\ k >= 1 /\ k \in 0..N /\ p[k] = Longer(d, p[k - 1]) /\ p[k - 1] = part(k - 1)
      BY <1>2, <2>2
    <3> DEFINE m == IF k <= n THEN k ELSE n
               a == SubSeq(s, 1, m)
    <3>2. m \in 1..n /\ part(k - 1) = a
      BY <1>1, <2>1, <3>1
    <3>3. a \in Seq(Cluster) /\ Len(a) = m /\ a[m] = s[m]
      BY <1>1, <3>2, HeadPart
    <3>4. Last(a) = s[m]
      BY <3>3 DEF Last
    <3>5. d.fat[s[m]] = IF m < n THEN s[m + 1] ELSE EOC
      BY <1>1, <3>2 DEF Link1, n
    <3> HIDE DEF m, a
    <3>6. CASE k + 1 <= n
      <4>1. m = k /\ m < n /\ m + 1 \in 1..n
        BY <1>1, <3>1, <3>6 DEF m
      <4>2. d.fat[s[m]] = s[m + 1] /\ s[m + 1] \in Cluster
        BY <1>1, <3>5, <4>1
      <4>3. p[k] = Append(a, s[m + 1])
        BY <3>1, <3>2, <3>4, <4>2 DEF Longer
      <4>4. Append(SubSeq(s, 1, (m + 1) - 1), s[m + 1]) = SubSeq(s, 1, m + 1)
        BY <1>1, <4>1, AppendPart DEF n
      <4>5. (m + 1) - 1 = m /\ part(k) = SubSeq(s, 1, m + 1)
        BY <3>1, <3>6, <4>1
      <4> QED
        BY <3>1, <4>3, <4>4, <4>5 DEF a
    <3>7. CASE ~(k + 1 <= n)
      <4>1. m = n /\ ~(m < n) /\ part(k) = a
        BY <1>1, <3>1, <3>7 DEF m, a
      <4>2. d.fat[s[m]] = EOC
        BY <3>5, <4>1
      <4>3. p[k] = a
        BY <3>1, <3>2, <3>4, <4>2, ClusterFacts DEF Longer
      <4> QED
        BY <3>1, <4>1, <4>3
    <3> QED
      BY <3>6, <3>7
  <2>5. p[N] = part(N)
    <3>1. 0..N \subseteq T
      <4> HIDE DEF T, N
      <4> QED
        BY <1>2, <2>3, <2>4, RangeInduction
    <3> QED
      BY <1>2, <3>1
  <2>6. part(N) = SubSeq(s, 1, n)
    BY <1>1, <1>2, Constants
  <2>7. SubSeq(s, 1, n) = s
    BY <1>1, SubSeqFull DEF n
  <2> QED
    BY <2>1, <2>2, <2>5, <2>6, <2>7 DEF s
<1> QED
  BY <1>3, <1>4

\* Walk counts along it.
LEMMA WalkIs ==
  ASSUME NEW d, NEW ch, Laid(d.fat, ch), NEW o \in DOMAIN ch, NEW i \in Nat, i < Len(ch[o])
  PROVE  Walk(d, First(ch[o]), i) = ch[o][i + 1]
<1> DEFINE s == ch[o]
           n == Len(s)
<1>1. /\ s \in Seq(Cluster) /\ n \in Nat /\ (s = <<>> <=> n = 0)
      /\ \A k \in 1..n : s[k] \in Cluster /\ Link1(d.fat, s, k)
  BY LaidFacts
<1> HIDE DEF s
<1>2. First(s) = s[1]
  BY <1>1 DEF First, s
<1>3. PICK p : /\ p[0] = s[1]
               /\ \A k \in 1..i : p[k] = NextOf(d, p[k - 1])
               /\ Walk(d, s[1], i) = p[i]
  BY WalkRuns
<1> DEFINE T == {k \in 0..i : p[k] = s[k + 1]}
<1>4. 0 \in T
  BY <1>3
<1>5. \A k \in 1..i : k - 1 \in T => k \in T
  <2> TAKE k \in 1..i
  <2> HAVE k - 1 \in T
  <2>1. k \in 1..n /\ k < n /\ p[k - 1] = s[k] /\ k \in 0..i
    BY <1>1 DEF s
  <2>2. s[k] \in Cluster /\ d.fat[s[k]] = s[k + 1]
    BY <1>1, <2>1 DEF Link1
  <2>3. p[k] = s[k + 1]
    BY <1>3, <2>1, <2>2 DEF NextOf
  <2> QED
    BY <2>1, <2>3
<1>6. 0..i \subseteq T
  <2> HIDE DEF T
  <2> QED
    BY <1>4, <1>5, RangeInduction
<1> QED
  BY <1>2, <1>3, <1>6 DEF s

\* f with v at x.
Put(f, x, v) == [f EXCEPT ![x] = v]

\* A function changed at one place.
LEMMA PutFacts ==
  ASSUME NEW f, NEW x, NEW v
  PROVE  /\ DOMAIN Put(f, x, v) = DOMAIN f
         /\ x \in DOMAIN f => Put(f, x, v)[x] = v
         /\ \A y \in DOMAIN f : y # x => Put(f, x, v)[y] = f[y]
BY DEF Put

\* An allocation table changed at one place.
LEMMA PutFats ==
  ASSUME NEW fat \in Fats, NEW c \in Cluster, NEW v \in Links
  PROVE  /\ Put(fat, c, v) \in Fats /\ Put(fat, c, v)[c] = v
         /\ \A b \in Cluster : b # c => Put(fat, c, v)[b] = fat[b]
BY DEF Put, Fats, Links

\* Who can own a chain: an entry, the root directory, and nobody, of whom there
\* are two.
ROOT == <<0, 0>>
SPARE == <<0, 1>>
MORE == <<0, 2>>

\* The places of directory entries, all owners, and their chains.
Place == Cluster \X (1..SLOTS)
Key == Place \cup {ROOT, SPARE, MORE}
Chains == [Key -> Seq(Cluster)]

\* A chain is replaced.
LEMMA PutChains ==
  ASSUME NEW ch \in Chains, NEW x \in Key, NEW s \in Seq(Cluster)
  PROVE  /\ Put(ch, x, s) \in Chains /\ DOMAIN ch = Key
         /\ Put(ch, x, s)[x] = s
         /\ \A y \in Key : y # x => Put(ch, x, s)[y] = ch[y]
BY DEF Put, Chains

\* A chain replaced by itself.
LEMMA PutSame ==
  ASSUME NEW ch \in Chains, NEW x
  PROVE  Put(ch, x, ch[x]) = ch
BY DEF Put, Chains

\* The owners differ.
LEMMA KeyFacts ==
  /\ ROOT \in Key /\ SPARE \in Key /\ ROOT # SPARE
  /\ MORE \in Key /\ ROOT # MORE /\ SPARE # MORE /\ MORE \notin Place
  /\ ROOT \notin Place /\ SPARE \notin Place /\ Place \subseteq Key
BY ClusterFacts DEF Key, Place, ROOT, SPARE, MORE

\* A free cluster is in no chain.
LEMMA FreeApart ==
  ASSUME NEW fat, NEW ch, Laid(fat, ch), NEW c, fat[c] = 0, NEW o \in DOMAIN ch, NEW i \in 1..Len(ch[o])
  PROVE  ch[o][i] # c
<1>1. Link1(fat, ch[o], i) /\ Len(ch[o]) \in Nat /\ \A j \in 1..Len(ch[o]) : ch[o][j] \in Cluster
  BY LaidFacts
<1>2. CASE i < Len(ch[o])
  <2>1. i + 1 \in 1..Len(ch[o])
    BY <1>1, <1>2
  <2> QED
    BY <1>1, <1>2, <2>1, ClusterFacts DEF Link1
<1>3. CASE ~(i < Len(ch[o]))
  BY <1>1, <1>3, ClusterFacts DEF Link1
<1> QED
  BY <1>2, <1>3

\* Laid from its parts.
LEMMA LaidBy ==
  ASSUME NEW fat, NEW ch,
         \A o \in DOMAIN ch : ch[o] \in Seq(Cluster),
         \A o \in DOMAIN ch : \A i \in 1..Len(ch[o]) : Link1(fat, ch[o], i),
         \A o, p \in DOMAIN ch : \A i \in 1..Len(ch[o]), j \in 1..Len(ch[p]) :
           ch[o][i] = ch[p][j] => o = p /\ i = j
  PROVE  Laid(fat, ch)
BY DEF Laid

\* Chains of one cluster and of none.
LEMMA OneCluster ==
  ASSUME NEW c \in Cluster
  PROVE  /\ <<c>> \in Seq(Cluster) /\ Len(<<c>>) = 1 /\ <<c>>[1] = c /\ <<c>> # <<>>
         /\ <<>> \in Seq(Cluster) /\ Len(<<>>) = 0 /\ First(<<c>>) = c /\ First(<<>>) = 0
         /\ \A i \in 1..Len(<<c>>) : i = 1
BY DEF First

\* A chain is forgotten.
LEMMA LaidDrop ==
  ASSUME NEW fat, NEW ch, Laid(fat, ch), NEW x \in DOMAIN ch
  PROVE  Laid(fat, Put(ch, x, <<>>))
<1> DEFINE e == <<>>
           new == Put(ch, x, e)
<1>1. e \in Seq(Cluster) /\ Len(e) = 0
  BY EmptySeq
<1> HIDE DEF e
<1>2. DOMAIN new = DOMAIN ch /\ new[x] = e /\ \A o \in DOMAIN ch : o # x => new[o] = ch[o]
  BY PutFacts
<1> HIDE DEF new
<1>3. \A o \in DOMAIN new : \A i \in 1..Len(new[o]) : o # x
  BY <1>1, <1>2
<1>4. \A o \in DOMAIN new : new[o] \in Seq(Cluster)
  BY <1>1, <1>2, LaidFacts
<1>5. \A o \in DOMAIN new : \A i \in 1..Len(new[o]) : Link1(fat, new[o], i)
  BY <1>2, <1>3, LaidFacts
<1>6. \A o, p \in DOMAIN new : \A i \in 1..Len(new[o]), j \in 1..Len(new[p]) :
        new[o][i] = new[p][j] => o = p /\ i = j
  BY <1>2, <1>3, LaidApart
<1>7. Laid(fat, new)
  BY <1>4, <1>5, <1>6, LaidBy
<1> QED
  BY <1>7 DEF new, e

\* A chain goes to another owner.
LEMMA LaidMove ==
  ASSUME NEW fat, NEW ch, Laid(fat, ch), NEW x \in DOMAIN ch, NEW y \in DOMAIN ch, x # y
  PROVE  Laid(fat, Put(Put(ch, x, ch[y]), y, <<>>))
<1> DEFINE e == <<>>
           mid == Put(ch, x, ch[y])
           new == Put(mid, y, e)
           Was(o) == IF o = x THEN y ELSE o
<1>1. e \in Seq(Cluster) /\ Len(e) = 0
  BY EmptySeq
<1> HIDE DEF e
<1>2. DOMAIN mid = DOMAIN ch /\ mid[x] = ch[y] /\ \A o \in DOMAIN ch : o # x => mid[o] = ch[o]
  BY PutFacts
<1> HIDE DEF mid
<1>3. DOMAIN new = DOMAIN ch /\ new[y] = e /\ \A o \in DOMAIN ch : o # y => new[o] = mid[o]
  BY <1>2, PutFacts
<1> HIDE DEF new
<1>4. \A o \in DOMAIN ch : o # y => new[o] = ch[Was(o)] /\ Was(o) \in DOMAIN ch
  BY <1>2, <1>3
<1>5. \A o, p \in DOMAIN ch : o # y /\ p # y /\ Was(o) = Was(p) => o = p
  OBVIOUS
<1> HIDE DEF Was
<1>6. \A o \in DOMAIN new : \A i \in 1..Len(new[o]) : o # y
  BY <1>1, <1>3
<1>0. \A o \in DOMAIN ch : ch[o] \in Seq(Cluster)
  BY LaidFacts
<1>7. \A o \in DOMAIN new : new[o] \in Seq(Cluster)
  BY <1>0, <1>1, <1>3, <1>4
<1>8. \A o \in DOMAIN new : \A i \in 1..Len(new[o]) : Link1(fat, new[o], i)
  BY <1>3, <1>4, <1>6, LaidFacts
<1>9. \A o, p \in DOMAIN new : \A i \in 1..Len(new[o]), j \in 1..Len(new[p]) :
        new[o][i] = new[p][j] => o = p /\ i = j
  BY <1>3, <1>4, <1>5, <1>6, LaidApart
<1>10. Laid(fat, new)
  BY <1>7, <1>8, <1>9, LaidBy
<1> QED
  BY <1>10 DEF new, mid, e

\* A free cluster becomes a chain of its own.
LEMMA LaidAlloc ==
  ASSUME NEW fat \in Fats, NEW ch, Laid(fat, ch), NEW x \in DOMAIN ch, NEW c \in Cluster, fat[c] = 0
  PROVE  Laid(Put(fat, c, EOC), Put(ch, x, <<c>>))
<1> DEFINE q == <<c>>
           new == Put(ch, x, q)
           fat1 == Put(fat, c, EOC)
<1>1. q \in Seq(Cluster) /\ Len(q) = 1 /\ q[1] = c /\ \A i \in 1..Len(q) : i = 1
  BY OneCluster
<1> HIDE DEF q
<1>2. DOMAIN new = DOMAIN ch /\ new[x] = q /\ \A o \in DOMAIN ch : o # x => new[o] = ch[o]
  BY PutFacts
<1>0. EOC \in Links
  BY DEF Links
<1>3. fat1[c] = EOC /\ \A b \in Cluster : b # c => fat1[b] = fat[b]
  BY <1>0, PutFats
<1> HIDE DEF new, fat1
<1>4. \A o \in DOMAIN ch : \A i \in 1..Len(ch[o]) : ch[o][i] # c /\ ch[o][i] \in Cluster
  BY FreeApart, LaidFacts
<1>5. \A o \in DOMAIN new : new[o] \in Seq(Cluster)
  BY <1>1, <1>2, LaidFacts
<1>6. \A o \in DOMAIN new : \A i \in 1..Len(new[o]) : Link1(fat1, new[o], i)
  <2> TAKE o \in DOMAIN new
  <2> TAKE i \in 1..Len(new[o])
  <2>1. CASE o = x
    <3>0. new[o] = q /\ i \in 1..Len(q)
      BY <1>2, <2>1
    <3>1. i = 1 /\ Len(new[o]) = 1 /\ new[o][1] = c
      BY <1>1, <3>0
    <3> QED
      BY <1>3, <3>1 DEF Link1
  <2>2. CASE o # x
    <3>1. new[o] = ch[o] /\ Link1(fat, ch[o], i) /\ ch[o][i] # c /\ ch[o][i] \in Cluster
      BY <1>2, <1>4, <2>2, LaidFacts
    <3> QED
      BY <1>3, <3>1 DEF Link1
  <2> QED
    BY <2>1, <2>2
<1>7. \A o, p \in DOMAIN new : \A i \in 1..Len(new[o]), j \in 1..Len(new[p]) :
        new[o][i] = new[p][j] => o = p /\ i = j
  <2> TAKE o, p \in DOMAIN new
  <2> TAKE i \in 1..Len(new[o]), j \in 1..Len(new[p])
  <2> HAVE new[o][i] = new[p][j]
  <2>1. CASE o = x /\ p = x
    BY <1>1, <1>2, <2>1
  <2>2. CASE o # x /\ p # x
    <3>1. /\ o \in DOMAIN ch /\ p \in DOMAIN ch /\ i \in 1..Len(ch[o]) /\ j \in 1..Len(ch[p])
          /\ ch[o][i] = ch[p][j]
      BY <1>2, <2>2
    <3> QED
      BY <3>1, LaidApart
  <2>3. CASE o = x /\ p # x
    <3>1. i \in 1..Len(q) /\ new[o][i] = q[i] /\ q[i] = c
      BY <1>1, <1>2, <2>3
    <3>2. p \in DOMAIN ch /\ j \in 1..Len(ch[p]) /\ new[p][j] = ch[p][j]
      BY <1>2, <2>3
    <3> QED
      BY <1>4, <3>1, <3>2
  <2>4. CASE o # x /\ p = x
    <3>1. j \in 1..Len(q) /\ new[p][j] = q[j] /\ q[j] = c
      BY <1>1, <1>2, <2>4
    <3>2. o \in DOMAIN ch /\ i \in 1..Len(ch[o]) /\ new[o][i] = ch[o][i]
      BY <1>2, <2>4
    <3> QED
      BY <1>4, <3>1, <3>2
  <2> QED
    BY <2>1, <2>2, <2>3, <2>4
<1>8. Laid(fat1, new)
  BY <1>5, <1>6, <1>7, LaidBy
<1> QED
  BY <1>8 DEF new, fat1, q

\* A chain of one is linked behind another.
LEMMA LaidJoin ==
  ASSUME NEW fat \in Fats, NEW ch, Laid(fat, ch), NEW o \in DOMAIN ch, NEW x \in DOMAIN ch, x # o,
         ch[o] # <<>>, NEW c \in Cluster, ch[x] = <<c>>
  PROVE  /\ Laid(Put(fat, ch[o][Len(ch[o])], c), Put(Put(ch, o, Append(ch[o], c)), x, <<>>))
         /\ Append(ch[o], c) \in Seq(Cluster) /\ Len(Append(ch[o], c)) = Len(ch[o]) + 1
         /\ \A i \in 1..Len(ch[o]) : Append(ch[o], c)[i] = ch[o][i]
         /\ Append(ch[o], c)[Len(ch[o]) + 1] = c
<1> DEFINE s == ch[o]
           n == Len(s)
           u == Append(s, c)
           e == <<>>
           mid == Put(ch, o, u)
           new == Put(mid, x, e)
           fat1 == Put(fat, s[n], c)
<1>1. s \in Seq(Cluster) /\ n \in Nat /\ n >= 1 /\ n \in 1..n /\ s[n] \in Cluster
  BY LaidFacts
<1>2. ch[x][1] = c /\ 1 \in 1..Len(ch[x])
  BY OneCluster
<1>3. e \in Seq(Cluster) /\ Len(e) = 0
  BY EmptySeq
<1> HIDE DEF s, e
<1>4. /\ u \in Seq(Cluster) /\ Len(u) = n + 1 /\ u[n + 1] = c
      /\ \A i \in 1..n : u[i] = s[i]
  BY <1>1, AppendProperties
<1> HIDE DEF u
<1>5. DOMAIN mid = DOMAIN ch /\ mid[o] = u /\ \A p \in DOMAIN ch : p # o => mid[p] = ch[p]
  BY PutFacts
<1> HIDE DEF mid
<1>6. /\ DOMAIN new = DOMAIN ch /\ new[x] = e /\ new[o] = u
      /\ \A p \in DOMAIN ch : p # x /\ p # o => new[p] = ch[p]
  BY <1>5, PutFacts
<1>0. c \in Links
  BY DEF Links
<1>7. fat1[s[n]] = c /\ \A b \in Cluster : b # s[n] => fat1[b] = fat[b]
  BY <1>0, <1>1, PutFats
<1> HIDE DEF new, fat1
<1>8. \A p \in DOMAIN new : \A i \in 1..Len(new[p]) : p # x
  BY <1>3, <1>6
<1>9. \A p \in DOMAIN new : new[p] \in Seq(Cluster)
  BY <1>3, <1>4, <1>6, LaidFacts
\* Where an element of the new chains was before.
<1>10. \A i \in 1..Len(u) : IF i = n + 1 THEN u[i] = ch[x][1] ELSE i \in 1..Len(ch[o]) /\ u[i] = ch[o][i]
  BY <1>1, <1>2, <1>4 DEF s
<1>11. fat[c] = EOC /\ c # s[n]
  <2>1. Link1(fat, ch[x], 1) /\ Len(ch[x]) = 1
    BY <1>2, LaidFacts, OneCluster
  <2>2. ch[x][1] # ch[o][n]
    BY <1>1, <1>2, LaidApart DEF s
  <2> QED
    BY <1>2, <2>1, <2>2 DEF Link1, s
<1>12. \A p \in DOMAIN new : \A i \in 1..Len(new[p]) : Link1(fat1, new[p], i)
  <2> TAKE p \in DOMAIN new
  <2> TAKE i \in 1..Len(new[p])
  <2>1. CASE p # o
    <3>1. p # x /\ new[p] = ch[p] /\ p \in DOMAIN ch /\ i \in 1..Len(ch[p])
      BY <1>6, <1>8, <2>1
    <3>2. Link1(fat, ch[p], i) /\ ch[p][i] \in Cluster
      BY <3>1, LaidFacts
    <3>3. ch[p][i] # ch[o][n]
      BY <1>1, <2>1, <3>1, LaidApart DEF s
    <3> QED
      BY <1>7, <3>1, <3>2, <3>3 DEF Link1, s
  <2>2. CASE p = o /\ i = n + 1
    <3>1. new[p][i] = c /\ ~(i < Len(new[p]))
      BY <1>1, <1>4, <1>6, <2>2
    <3> QED
      BY <1>7, <1>11, <3>1 DEF Link1
  <2>3. CASE p = o /\ i = n
    <3>1. new[p][i] = s[n] /\ i < Len(new[p]) /\ new[p][i + 1] = c
      BY <1>1, <1>4, <1>6, <2>3
    <3> QED
      BY <1>7, <3>1 DEF Link1
  <2>4. CASE p = o /\ i # n + 1 /\ i # n
    <3>1. i \in 1..n /\ i + 1 \in 1..n /\ i < n /\ i < Len(new[p])
      BY <1>1, <1>4, <1>6, <2>4
    <3>2. new[p][i] = s[i] /\ new[p][i + 1] = s[i + 1]
      BY <1>4, <1>6, <2>4, <3>1
    <3>3. Link1(fat, ch[o], i) /\ ch[o][i] \in Cluster /\ ch[o][i] # ch[o][n]
      BY <1>1, <3>1, LaidFacts, LaidApart DEF s
    <3> QED
      BY <1>7, <3>1, <3>2, <3>3 DEF Link1, s
  <2> QED
    BY <2>1, <2>2, <2>3, <2>4
<1>13. \A p, r \in DOMAIN new : \A i \in 1..Len(new[p]), j \in 1..Len(new[r]) :
        new[p][i] = new[r][j] => p = r /\ i = j
  <2> TAKE p, r \in DOMAIN new
  <2> TAKE i \in 1..Len(new[p]), j \in 1..Len(new[r])
  <2> HAVE new[p][i] = new[r][j]
  <2>1. p # x /\ r # x /\ p \in DOMAIN ch /\ r \in DOMAIN ch
    BY <1>6, <1>8
  <2>2. CASE p # o /\ r # o
    BY <1>6, <2>1, <2>2, LaidApart
  <2>3. CASE p = o /\ r = o
    <3>1. i \in 1..Len(u) /\ j \in 1..Len(u) /\ u[i] = u[j]
      BY <1>6, <2>3
    <3>2. CASE i = n + 1 /\ j = n + 1
      BY <2>3, <3>2
    <3>3. CASE i = n + 1 /\ j # n + 1
      BY <1>2, <1>10, <3>1, <3>3, LaidApart
    <3>4. CASE i # n + 1 /\ j = n + 1
      BY <1>2, <1>10, <3>1, <3>4, LaidApart
    <3>5. CASE i # n + 1 /\ j # n + 1
      BY <1>10, <2>3, <3>1, <3>5, LaidApart
    <3> QED
      BY <3>2, <3>3, <3>4, <3>5
  <2>4. CASE p = o /\ r # o
    <3>1. i \in 1..Len(u) /\ u[i] = ch[r][j] /\ j \in 1..Len(ch[r])
      BY <1>6, <2>1, <2>4
    <3> QED
      BY <1>2, <1>10, <2>1, <2>4, <3>1, LaidApart
  <2>5. CASE p # o /\ r = o
    <3>1. j \in 1..Len(u) /\ ch[p][i] = u[j] /\ i \in 1..Len(ch[p])
      BY <1>6, <2>1, <2>5
    <3> QED
      BY <1>2, <1>10, <2>1, <2>5, <3>1, LaidApart
  <2> QED
    BY <2>2, <2>3, <2>4, <2>5
<1>14. Laid(fat1, new)
  BY <1>9, <1>12, <1>13, LaidBy
<1> QED
  BY <1>4, <1>14 DEF new, mid, fat1, u, e, s

\* The first cluster of a chain is set free.
LEMMA LaidTail ==
  ASSUME NEW fat \in Fats, NEW ch, Laid(fat, ch), NEW x \in DOMAIN ch, ch[x] # <<>>
  PROVE  /\ Laid(Put(fat, ch[x][1], 0), Put(ch, x, Tail(ch[x])))
         /\ ch[x][1] \in Cluster /\ Len(Tail(ch[x])) = Len(ch[x]) - 1
         /\ fat[ch[x][1]] = IF Tail(ch[x]) = <<>> THEN EOC ELSE First(Tail(ch[x]))
<1> DEFINE s == ch[x]
           n == Len(s)
           u == Tail(s)
           new == Put(ch, x, u)
           fat1 == Put(fat, s[1], 0)
<1>1. s \in Seq(Cluster) /\ n \in Nat /\ n >= 1 /\ 1 \in 1..n /\ s[1] \in Cluster
  BY LaidFacts
<1>2. u \in Seq(Cluster) /\ Len(u) = n - 1 /\ \A i \in 1..Len(u) : u[i] = s[i + 1]
  BY <1>1, HeadTailProperties
<1>3. u = <<>> <=> Len(u) = 0
  BY <1>2, SeqElement
<1> HIDE DEF s, u
<1>4. DOMAIN new = DOMAIN ch /\ new[x] = u /\ \A o \in DOMAIN ch : o # x => new[o] = ch[o]
  BY PutFacts
<1>0. 0 \in Links
  BY DEF Links
<1>5. \A b \in Cluster : b # s[1] => fat1[b] = fat[b]
  BY <1>0, <1>1, PutFats
<1> HIDE DEF new, fat1
<1>6. \A o \in DOMAIN new : new[o] \in Seq(Cluster)
  BY <1>2, <1>4, LaidFacts
\* Where an element was before.
<1>7. \A o \in DOMAIN new : \A i \in 1..Len(new[o]) :
        \E k \in 1..Len(ch[o]) : /\ k = (IF o = x THEN i + 1 ELSE i)
                                 /\ new[o][i] = ch[o][k] /\ ch[o][k] # s[1]
  <2> TAKE o \in DOMAIN new
  <2> TAKE i \in 1..Len(new[o])
  <2>1. CASE o = x
    <3>1. i + 1 \in 1..Len(ch[x]) /\ new[x][i] = ch[x][i + 1] /\ i + 1 # 1
      BY <1>1, <1>2, <1>4, <2>1 DEF s
    <3>2. ch[x][i + 1] # ch[x][1]
      BY <1>1, <3>1, LaidApart DEF s
    <3> QED
      BY <2>1, <3>1, <3>2 DEF s
  <2>2. CASE o # x
    <3>1. o \in DOMAIN ch /\ i \in 1..Len(ch[o]) /\ new[o][i] = ch[o][i]
      BY <1>4, <2>2
    <3>2. ch[o][i] # ch[x][1]
      BY <1>1, <2>2, <3>1, LaidApart DEF s
    <3> QED
      BY <2>2, <3>1, <3>2 DEF s
  <2> QED
    BY <2>1, <2>2
<1>8. \A o \in DOMAIN new : \A i \in 1..Len(new[o]) : Link1(fat1, new[o], i)
  <2> TAKE o \in DOMAIN new
  <2> TAKE i \in 1..Len(new[o])
  <2>1. CASE o = x
    <3>1. i + 1 \in 1..Len(ch[x]) /\ new[x][i] = ch[x][i + 1] /\ ch[x][i + 1] # s[1]
      BY <1>7, <2>1
    <3>2. Link1(fat, ch[x], i + 1) /\ ch[x][i + 1] \in Cluster
      BY <3>1, LaidFacts
    <3>3. i \in Nat /\ Len(new[x]) = Len(ch[x]) - 1 /\ Len(ch[x]) \in Nat
      BY <1>1, <1>2, <1>4, <2>1 DEF s
    <3>4. CASE i < Len(new[x])
      <4>1. i + 1 \in 1..Len(u) /\ new[x][i + 1] = ch[x][(i + 1) + 1] /\ i + 1 < Len(ch[x])
        BY <1>2, <1>4, <2>1, <3>3, <3>4 DEF s
      <4> QED
        BY <1>5, <2>1, <3>1, <3>2, <3>4, <4>1 DEF Link1
    <3>5. CASE ~(i < Len(new[x]))
      <4>1. ~(i + 1 < Len(ch[x]))
        BY <3>3, <3>5
      <4> QED
        BY <1>5, <2>1, <3>1, <3>2, <3>5, <4>1 DEF Link1
    <3> QED
      BY <3>4, <3>5
  <2>2. CASE o # x
    <3>1. o \in DOMAIN ch /\ new[o] = ch[o] /\ ch[o][i] # s[1] /\ i \in 1..Len(ch[o])
      BY <1>4, <1>7, <2>2
    <3>2. Link1(fat, ch[o], i) /\ ch[o][i] \in Cluster
      BY <3>1, LaidFacts
    <3> QED
      BY <1>5, <3>1, <3>2 DEF Link1
  <2> QED
    BY <2>1, <2>2
<1>9. \A o, p \in DOMAIN new : \A i \in 1..Len(new[o]), j \in 1..Len(new[p]) :
        new[o][i] = new[p][j] => o = p /\ i = j
  <2> TAKE o, p \in DOMAIN new
  <2> TAKE i \in 1..Len(new[o]), j \in 1..Len(new[p])
  <2> HAVE new[o][i] = new[p][j]
  <2>1. PICK k \in 1..Len(ch[o]) : k = (IF o = x THEN i + 1 ELSE i) /\ new[o][i] = ch[o][k]
    BY <1>7
  <2>2. PICK m \in 1..Len(ch[p]) : m = (IF p = x THEN j + 1 ELSE j) /\ new[p][j] = ch[p][m]
    BY <1>7
  <2>0. o \in DOMAIN ch /\ p \in DOMAIN ch /\ ch[o][k] = ch[p][m]
    BY <1>4, <2>1, <2>2
  <2>3. o = p /\ k = m
    BY <2>0, LaidApart
  <2> QED
    BY <2>1, <2>2, <2>3
<1>10. Laid(fat1, new)
  BY <1>6, <1>8, <1>9, LaidBy
<1>11. fat[s[1]] = IF u = <<>> THEN EOC ELSE First(u)
  <2>1. Link1(fat, ch[x], 1)
    BY <1>1, LaidFacts DEF s
  <2>2. CASE u = <<>>
    <3>0. Len(u) = 0 /\ n = 1
      BY <1>1, <1>2, <1>3, <2>2
    <3>1. ~(1 < Len(ch[x]))
      BY <3>0 DEF s
    <3> QED
      BY <2>1, <2>2, <3>1 DEF Link1, s
  <2>3. CASE u # <<>>
    <3>1. 1 < Len(ch[x]) /\ u[1] = s[2]
      BY <1>1, <1>2, <1>3, <2>3 DEF s
    <3> QED
      BY <2>1, <2>3, <3>1 DEF Link1, s, First
  <2> QED
    BY <2>2, <2>3
<1> QED
  BY <1>1, <1>2, <1>10, <1>11 DEF new, fat1, u, s

------------------------------------------------------------------------------
\* Histories of disks.

\* A disk has an allocation table and sectors.
PlainDisk(d) == d.fat \in Fats /\ DOMAIN d.sec = Cluster
                /\ d = [fat |-> d.fat, sec |-> d.sec]

\* The disks that a call has left so far.
Hist(t) ==
  /\ t # <<>>
  /\ \E S : t \in Seq(S) /\ \A x \in S : PlainDisk(x)

\* The last disk of a history, and every other.
LEMMA HistFacts ==
  ASSUME NEW t, Hist(t)
  PROVE  /\ PlainDisk(Last(t)) /\ Len(t) \in Nat /\ Len(t) >= 1 /\ DOMAIN t = 1..Len(t)
         /\ \A i \in DOMAIN t : PlainDisk(t[i])
<1>1. PICK S : t \in Seq(S) /\ \A x \in S : PlainDisk(x)
  BY DEF Hist
<1>2. Len(t) \in Nat /\ DOMAIN t = 1..Len(t) /\ Len(t) # 0 /\ \A i \in 1..Len(t) : t[i] \in S
  BY <1>1, SeqElement DEF Hist
<1>3. Last(t) = t[Len(t)] /\ Len(t) \in 1..Len(t)
  BY <1>2 DEF Last
<1> QED
  BY <1>1, <1>2, <1>3

\* A call starts with a history of one disk.
LEMMA HistOne ==
  ASSUME NEW d, PlainDisk(d)
  PROVE  Hist(<<d>>) /\ Last(<<d>>) = d
<1> DEFINE t == <<d>>
           S == {d}
<1>1. t \in Seq(S) /\ t # <<>> /\ Len(t) = 1 /\ t[1] = d /\ \A x \in S : PlainDisk(x)
  OBVIOUS
<1> HIDE DEF t, S
<1>2. Hist(t) /\ Last(t) = d
  BY <1>1 DEF Hist, Last
<1> QED
  BY <1>2 DEF t

\* A sector write adds a disk.
LEMMA HistMore ==
  ASSUME NEW t, Hist(t), NEW d, PlainDisk(d)
  PROVE  Hist(Append(t, d)) /\ Last(Append(t, d)) = d
<1> DEFINE u == Append(t, d)
<1>1. PICK S : t \in Seq(S) /\ \A x \in S : PlainDisk(x)
  BY DEF Hist
<1> DEFINE T == S \cup {d}
<1>2. t \in Seq(T) /\ d \in T /\ \A x \in T : PlainDisk(x)
  <2>1. Len(t) \in Nat /\ \A i \in 1..Len(t) : t[i] \in T
    BY <1>1, SeqElement
  <2>2. t \in Seq(T)
    BY <1>1, <2>1
  <2> QED
    BY <1>1, <2>2
<1> HIDE DEF T
<1>3. Len(t) \in Nat
  BY <1>2, SeqElement
<1>4. u \in Seq(T) /\ Len(u) = Len(t) + 1 /\ u[Len(t) + 1] = d
  BY <1>2, <1>3, AppendProperties
<1>5. u # <<>>
  BY <1>3, <1>4, SeqElement
<1> HIDE DEF u
<1>6. Hist(u)
  BY <1>2, <1>4, <1>5 DEF Hist
<1>7. Last(u) = d
  BY <1>4 DEF Last
<1> QED
  BY <1>6, <1>7 DEF u

\* A link is written.
LEMMA SetEntry ==
  ASSUME NEW t, Hist(t), NEW c \in Cluster, NEW v \in Links
  PROVE  /\ Hist(fat_set_entry(t, c, v))
         /\ Last(fat_set_entry(t, c, v)).fat = Put(Last(t).fat, c, v)
         /\ Last(fat_set_entry(t, c, v)).sec = Last(t).sec
<1> DEFINE d == Last(t)
           e == [d EXCEPT !.fat[c] = v]
<1>1. PlainDisk(d)
  BY HistFacts
<1> HIDE DEF d
<1>2. d = [fat |-> d.fat, sec |-> d.sec] /\ d.fat \in Fats /\ DOMAIN d.sec = Cluster
  BY <1>1 DEF PlainDisk
<1>3. e.fat = Put(d.fat, c, v) /\ e.sec = d.sec /\ e = [fat |-> e.fat, sec |-> e.sec]
  BY <1>2 DEF Put
<1> HIDE DEF e
<1>4. Put(d.fat, c, v) \in Fats
  BY <1>2, PutFats
<1>5. PlainDisk(e)
  BY <1>2, <1>3, <1>4 DEF PlainDisk
<1>6. Hist(Append(t, e)) /\ Last(Append(t, e)) = e
  BY <1>5, HistMore
<1>7. fat_set_entry(t, c, v) = Append(t, e)
  BY DEF fat_set_entry, d, e
<1> QED
  BY <1>3, <1>6, <1>7 DEF d

\* A sector is written.
LEMMA WriteSector ==
  ASSUME NEW t, Hist(t), NEW c \in Cluster, NEW s
  PROVE  /\ Hist(write_sector(t, c, s))
         /\ Last(write_sector(t, c, s)).fat = Last(t).fat
         /\ Last(write_sector(t, c, s)).sec = Put(Last(t).sec, c, s)
<1> DEFINE d == Last(t)
           e == [d EXCEPT !.sec[c] = s]
<1>1. PlainDisk(d)
  BY HistFacts
<1> HIDE DEF d
<1>2. d = [fat |-> d.fat, sec |-> d.sec] /\ d.fat \in Fats /\ DOMAIN d.sec = Cluster
  BY <1>1 DEF PlainDisk
<1>3. e.fat = d.fat /\ e.sec = Put(d.sec, c, s) /\ e = [fat |-> e.fat, sec |-> e.sec]
  BY <1>2 DEF Put
<1> HIDE DEF e
<1>4. DOMAIN Put(d.sec, c, s) = Cluster
  BY <1>2, PutFacts
<1>5. PlainDisk(e)
  BY <1>2, <1>3, <1>4 DEF PlainDisk
<1>6. Hist(Append(t, e)) /\ Last(Append(t, e)) = e
  BY <1>5, HistMore
<1>7. write_sector(t, c, s) = Append(t, e)
  BY DEF write_sector, d, e
<1> QED
  BY <1>3, <1>6, <1>7 DEF d

\* The minimum of a set of numbers.
LEMMA MinIs ==
  ASSUME NEW S, S \subseteq Nat, S # {}
  PROVE  Min(S) \in S /\ \A x \in S : Min(S) <= x
<1>1. \E m \in S : \A x \in S : m <= x
  BY LeastExists
<1> QED
  BY <1>1 DEF Min

\* The free cluster that is found.
LEMMA FirstFreeIs ==
  ASSUME NEW d, FirstFree(d) # 0
  PROVE  FirstFree(d) \in Cluster /\ d.fat[FirstFree(d)] = 0
<1> DEFINE free == {c \in Cluster : d.fat[c] = 0}
<1>1. free # {} /\ FirstFree(d) = Min(free)
  BY DEF FirstFree
<1>2. free \subseteq Nat
  BY ClusterFacts
<1> HIDE DEF free
<1>3. FirstFree(d) \in free
  BY <1>1, <1>2, MinIs
<1> QED
  BY <1>3 DEF free

\* None is found only if there is none.
LEMMA NoneFree ==
  ASSUME NEW d, FirstFree(d) = 0, NEW c \in Cluster
  PROVE  d.fat[c] # 0
<1> DEFINE free == {b \in Cluster : d.fat[b] = 0}
<1>1. SUFFICES ASSUME d.fat[c] = 0 PROVE FALSE
  OBVIOUS
<1>2. c \in free
  BY <1>1
<1>3. FirstFree(d) = Min(free)
  BY <1>2 DEF FirstFree
<1>4. free \subseteq Nat /\ free # {} /\ 0 \notin free
  BY <1>2, ClusterFacts
<1> HIDE DEF free
<1> QED
  BY <1>3, <1>4, MinIs

\* Marking it.
LEMMA AllocIs ==
  ASSUME NEW t, Hist(t), NEW c, c = FirstFree(Last(t)), c # 0
  PROVE  /\ Hist(fat_alloc_cluster(t)) /\ c \in Cluster /\ Last(t).fat[c] = 0
         /\ Last(fat_alloc_cluster(t)).fat = Put(Last(t).fat, c, EOC)
         /\ Last(fat_alloc_cluster(t)).sec = Last(t).sec
<1>1. c \in Cluster /\ Last(t).fat[c] = 0
  BY FirstFreeIs
<1>2. fat_alloc_cluster(t) = fat_set_entry(t, c, EOC)
  BY DEF fat_alloc_cluster
<1>3. EOC \in Links
  BY DEF Links
<1>4. /\ Hist(fat_set_entry(t, c, EOC))
      /\ Last(fat_set_entry(t, c, EOC)).fat = Put(Last(t).fat, c, EOC)
      /\ Last(fat_set_entry(t, c, EOC)).sec = Last(t).sec
  BY <1>1, <1>3, SetEntry
<1> QED
  BY <1>1, <1>2, <1>4

\* A chain whose owner has it no more is marked free from its head on.
LEMMA FreeChainIs ==
  ASSUME NEW t, Hist(t), NEW ch, ch \in Chains, Laid(Last(t).fat, ch), NEW x \in Key
  PROVE  LET u == FreeChain(t, First(ch[x]))
         IN  /\ Hist(u) /\ Last(u).sec = Last(t).sec
             /\ Laid(Last(u).fat, Put(ch, x, <<>>))
             /\ ch[x] # <<>> => Last(u).fat[ch[x][1]] = 0 /\ ch[x][1] \in Cluster
<1> DEFINE s == ch[x]
           n == Len(s)
           N == total_clusters + 1
           rest(k) == SubSeq(s, k + 1, n)
<1>1. /\ s \in Seq(Cluster) /\ n \in Nat /\ (s = <<>> <=> n = 0) /\ n <= total_clusters
      /\ \A i \in 1..n : s[i] \in Cluster
      /\ DOMAIN ch = Key
  BY LaidFacts, LaidShort, PutChains DEF Chains
<1>2. N \in Nat /\ N > n
  BY <1>1, Constants
<1>3. PICK p : /\ p[0] = [t |-> t, c |-> First(s)]
               /\ \A k \in 1..N : p[k] = FreeLink(p[k - 1])
               /\ FreeChain(t, First(s)) = p[N].t
  BY FreeRuns
\* After k steps the first k clusters are free.
<1> DEFINE Now(k, v, c) ==
             /\ Hist(v) /\ Last(v).sec = Last(t).sec
             /\ \E r \in Seq(Cluster) :
                  /\ Laid(Last(v).fat, Put(ch, x, r))
                  /\ Len(r) = (IF k <= n THEN n - k ELSE 0)
                  /\ IF r = <<>> THEN c \notin Cluster ELSE c = r[1]
             /\ k > 0 /\ n > 0 => Last(v).fat[s[1]] = 0
             /\ k = 0 => c = First(s)
           T == {k \in 0..N : Now(k, p[k].t, p[k].c)}
<1>4. 0 \in T
  <2>1. p[0].t = t /\ p[0].c = First(s)
    BY <1>3
  <2>2. Put(ch, x, s) = ch
    BY PutSame
  <2>3. IF s = <<>> THEN First(s) \notin Cluster ELSE First(s) = s[1]
    BY ClusterFacts DEF First
  <2>4. Len(s) = IF 0 <= n THEN n - 0 ELSE 0
    BY <1>1
  <2> HIDE DEF s, n
  <2>5. Now(0, t, First(s))
    BY <1>1, <2>2, <2>3, <2>4 DEF s
  <2> HIDE DEF Now
  <2> QED
    BY <1>2, <2>1, <2>5
<1>5. \A k \in 1..N : k - 1 \in T => k \in T
  <2> TAKE k \in 1..N
  <2> HAVE k - 1 \in T
  <2> DEFINE v == p[k - 1].t
             c == p[k - 1].c
             q == p[k - 1]
  <2> HIDE DEF Now
  <2>0. Now(k - 1, v, c)
    OBVIOUS
  <2>1. Now(k - 1, v, c) /\ p[k] = FreeLink(q) /\ q.t = v /\ q.c = c /\ k \in 0..N /\ k \in Nat /\ k >= 1
    BY <1>2, <1>3, <2>0
  <2> USE DEF Now
  <2> HIDE DEF v, c, q, T
  <2>2. PICK r \in Seq(Cluster) :
          /\ Laid(Last(v).fat, Put(ch, x, r))
          /\ Len(r) = (IF k - 1 <= n THEN n - (k - 1) ELSE 0)
          /\ IF r = <<>> THEN c \notin Cluster ELSE c = r[1]
    BY <2>1
  <2>3. /\ Hist(v) /\ Last(v).sec = Last(t).sec
        /\ k - 1 > 0 /\ n > 0 => Last(v).fat[s[1]] = 0
        /\ k - 1 = 0 => c = First(s)
    BY <2>1
  <2>4. Len(r) \in Nat /\ (r = <<>> <=> Len(r) = 0)
    BY SeqElement
  <2> HIDE DEF s, n
  <2>5. CASE r = <<>>
    <3>1. p[k] = q
      BY <2>1, <2>2, <2>5 DEF FreeLink
    <3>2. Len(r) = IF k <= n THEN n - k ELSE 0
      BY <1>1, <2>1, <2>2, <2>4, <2>5
    <3>3. k > 0 /\ n > 0 => Last(v).fat[s[1]] = 0
      BY <1>1, <2>1, <2>2, <2>3, <2>4, <2>5
    <3>4. Now(k, v, c)
      BY <2>1, <2>2, <2>3, <2>5, <3>2, <3>3
    <3> HIDE DEF Now
    <3> QED
      BY <2>1, <3>1, <3>4 DEF T
  <2>6. CASE r # <<>>
    <3> DEFINE ch1 == Put(ch, x, r)
               w == fat_set_entry(v, c, 0)
               r1 == Tail(r)
    <3>1. DOMAIN ch1 = Key /\ ch1[x] = r /\ c = r[1]
      BY <1>1, <2>2, <2>6, PutFacts
    <3> HIDE DEF ch1
    <3>2. Last(v).fat \in Fats
      BY <2>3, HistFacts DEF PlainDisk
    <3>3. /\ Laid(Put(Last(v).fat, c, 0), Put(ch1, x, r1)) /\ c \in Cluster
          /\ Len(r1) = Len(r) - 1
          /\ Last(v).fat[c] = IF r1 = <<>> THEN EOC ELSE First(r1)
      BY <2>2, <2>6, <3>1, <3>2, LaidTail DEF ch1
    <3>4. 0 \in Links
      BY DEF Links
    <3>5. Hist(w) /\ Last(w).fat = Put(Last(v).fat, c, 0) /\ Last(w).sec = Last(v).sec
      BY <2>3, <3>3, <3>4, SetEntry
    <3>6. p[k].t = w /\ p[k].c = Last(v).fat[c]
      BY <2>1, <3>3 DEF FreeLink
    <3> HIDE DEF w
    <3>7. r1 \in Seq(Cluster)
      BY <2>6, HeadTailProperties
    <3>8. Put(ch1, x, r1) = Put(ch, x, r1)
      BY DEF ch1, Put
    <3> HIDE DEF r1
    <3>9. Len(r1) = IF k <= n THEN n - k ELSE 0
      BY <1>1, <2>1, <2>2, <2>4, <2>6, <3>3
    <3>10. IF r1 = <<>> THEN Last(v).fat[c] \notin Cluster ELSE Last(v).fat[c] = r1[1]
      BY <3>3, ClusterFacts DEF First
    <3>11. n > 0 => Last(w).fat[s[1]] = 0
      <4>1. CASE k = 1 /\ n > 0
        <5>1. Last(w).fat[c] = 0
          BY <3>2, <3>3, <3>4, <3>5, PutFats
        <5>2. c = s[1]
          BY <1>1, <2>1, <2>3, <4>1 DEF First
        <5> QED
          BY <5>1, <5>2
      <4>2. CASE k # 1 /\ n > 0
        <5>1. Last(v).fat[s[1]] = 0 /\ s[1] \in Cluster
          BY <1>1, <2>1, <2>3, <4>2
        <5>2. Last(w).fat[s[1]] = 0
          BY <3>2, <3>3, <3>4, <3>5, <5>1, PutFats
        <5> QED
          BY <5>2
      <4> QED
        BY <2>1, <4>1, <4>2
    <3>12. Now(k, w, Last(v).fat[c])
      BY <2>1, <2>3, <3>3, <3>5, <3>7, <3>8, <3>9, <3>10, <3>11
    <3> HIDE DEF Now
    <3> QED
      BY <2>1, <3>6, <3>12 DEF T
  <2> QED
    BY <2>5, <2>6
<1>6. N \in T
  <2> HIDE DEF T, N
  <2>1. 0..N \subseteq T
    BY <1>2, <1>4, <1>5, RangeInduction
  <2> QED
    BY <1>2, <2>1
<1>7. Now(N, p[N].t, p[N].c)
  BY <1>6
<1> QED
  <2> DEFINE u == p[N].t
  <2>1. PICK r \in Seq(Cluster) : Laid(Last(u).fat, Put(ch, x, r)) /\ Len(r) = 0
    BY <1>1, <1>2, <1>7
  <2>2. r = <<>>
    BY <2>1, SeqElement
  <2>3. Hist(u) /\ Last(u).sec = Last(t).sec /\ (n > 0 => Last(u).fat[s[1]] = 0)
    BY <1>2, <1>7, Constants
  <2> QED
    BY <1>1, <1>3, <2>1, <2>2, <2>3

------------------------------------------------------------------------------
\* Volumes.

\* Every name of an entry that the driver made or found.
Names == Premade \cup UNION {Range(p) : p \in Path}

\* A slot, the slots of a sector, and the sectors of a disk are what the driver or
\* the image tools write.
SlotOK(x) ==
  \/ x = END \/ x = DELETED
  \/ \E n \in Names \cup Dots, dir \in BOOLEAN : \E first, size :
         x = Dirent(n, dir, first, size)

SlotsOK(f) == DOMAIN f = 1..SLOTS /\ \A j \in 1..SLOTS : SlotOK(f[j])

SectorOK(s) == (\E b : s = Bytes(b)) \/ (\E f : SlotsOK(f) /\ s = Slots(f))

Sectors(d) == \A c \in Cluster : SectorOK(d.sec[c])

\* The places of the entries that files and directories have, in sectors that
\* were written as slots, and of the directories among them.
Entry(x) == x.mark = "used" /\ x.name \notin Dots
Used(d) == {x \in Place : d.sec[x[1]].kind = "dir" /\ Entry(At(d, x))}
Folder(d) == {ROOT} \cup {x \in Used(d) : At(d, x).dir}

\* An entry knows its chain, unless a file that is being written knows better.
Tells(d, ch, x) ==
  /\ At(d, x).first = First(ch[x])
  /\ At(d, x).size \in Nat /\ At(d, x).size <= Len(ch[x]) * SECTOR

Told(d, ch, w) == \A x \in Used(d) : (x \in w /\ ~At(d, x).dir) \/ Tells(d, ch, x)

\* The chains of directories hold slots; no entry is behind an end.
Before(a, b, i, j) == a < i \/ (a = i /\ b <= j)

Order(d, s) ==
  \A a, i \in 1..Len(s) : \A b, j \in 1..SLOTS :
    Before(a, b, i, j) /\ At(d, <<s[a], b>>) = END => <<s[i], j>> \notin Used(d)

Housed(d, ch) ==
  \A k \in Folder(d) : /\ \A i \in 1..Len(ch[k]) : d.sec[ch[k][i]].kind = "dir"
                       /\ Order(d, ch[k])

\* home[x] is the path that leads to the entry at x.
In(ch, x, k) == \E i \in 1..Len(ch[k]) : ch[k][i] = x[1]

Tree(d, ch, home) ==
  /\ home \in [Key -> Seq(Names)] /\ home[ROOT] = <<>>
  /\ \A x \in Used(d) : \E k \in Folder(d) :
       In(ch, x, k) /\ home[x] = Append(home[k], At(d, x).name)
  /\ \A x, y \in Used(d) : home[x] = home[y] => x = y
  /\ \A x \in Used(d) : home[x] \in Path \/ Len(home[x]) = 1

\* Disk d is a volume of chains ch and paths home; w are the entries that may lag
\* behind files being written.
Vol(d, ch, home, w) ==
  /\ PlainDisk(d) /\ Sectors(d)
  /\ ch \in Chains /\ Laid(d.fat, ch) /\ First(ch[ROOT]) = root_cluster
  /\ Told(d, ch, w) /\ Housed(d, ch) /\ Tree(d, ch, home)

\* What a slot can be.
LEMMA SlotFacts ==
  /\ \A n, dir, first, size :
       LET x == Dirent(n, dir, first, size)
       IN  /\ x.mark = "used" /\ x.name = n /\ x.dir = dir /\ x.first = first /\ x.size = size
           /\ x # END /\ x # DELETED
  /\ ~Entry(END) /\ ~Entry(DELETED) /\ END # DELETED /\ SlotOK(END) /\ SlotOK(DELETED)
  /\ END.mark # "used" /\ DELETED.mark # "used"
<1>1. ASSUME NEW n, NEW dir, NEW first, NEW size
      PROVE  LET x == Dirent(n, dir, first, size)
             IN  /\ x.mark = "used" /\ x.name = n /\ x.dir = dir /\ x.first = first /\ x.size = size
                 /\ x # END /\ x # DELETED
  <2> DEFINE x == Dirent(n, dir, first, size)
  <2>1. x.mark = "used" /\ x.name = n /\ x.dir = dir /\ x.first = first /\ x.size = size
    BY DEF Dirent
  <2>2. END.mark = "end" /\ DELETED.mark = "deleted"
    BY DEF END, DELETED
  <2> QED
    BY <2>1, <2>2
<1>2. END.mark = "end" /\ DELETED.mark = "deleted"
  BY DEF END, DELETED
<1>3. SlotOK(END) /\ SlotOK(DELETED)
  BY DEF SlotOK
<1> QED
  BY <1>1, <1>2, <1>3 DEF Entry

\* The kinds of sectors.
LEMMA SectorFacts ==
  ASSUME NEW s
  PROVE  /\ SlotsOK(s) => SectorOK(Slots(s))
         /\ SectorOK(Bytes(s))
         /\ Slots(s).kind = "dir" /\ Slots(s).slot = s
         /\ Bytes(s).kind = "data" /\ Bytes(s).byte = s
BY DEF SectorOK, Slots, Bytes

\* A sector with slots.
LEMMA DirSector ==
  ASSUME NEW s, SectorOK(s), s.kind = "dir"
  PROVE  SlotsOK(s.slot) /\ s = Slots(s.slot)
<1>1. CASE \E b : s = Bytes(b)
  BY <1>1, SectorFacts
<1>2. CASE \E f : SlotsOK(f) /\ s = Slots(f)
  BY <1>2, SectorFacts
<1> QED
  BY <1>1, <1>2 DEF SectorOK

\* Places.
LEMMA PlaceFacts ==
  /\ \A x \in Place : x[1] \in Cluster /\ x[2] \in 1..SLOTS /\ x = <<x[1], x[2]>>
  /\ \A c \in Cluster, j \in 1..SLOTS : <<c, j>> \in Place /\ <<c, j>>[1] = c /\ <<c, j>>[2] = j
BY DEF Place

\* Entries are at places, and have an entry's fields.
LEMMA UsedFacts ==
  ASSUME NEW d, Sectors(d), NEW x \in Used(d)
  PROVE  /\ x \in Place /\ x \in Key /\ x # ROOT /\ x # SPARE /\ x # MORE
         /\ At(d, x).mark = "used" /\ At(d, x).name \in Names \ Dots /\ At(d, x).dir \in BOOLEAN
         /\ d.sec[x[1]].kind = "dir"
         /\ \E first, size : At(d, x) = Dirent(At(d, x).name, At(d, x).dir, first, size)
<1>1. /\ x \in Place /\ Entry(At(d, x)) /\ x[1] \in Cluster /\ x[2] \in 1..SLOTS
      /\ d.sec[x[1]].kind = "dir"
  BY PlaceFacts DEF Used
<1>2. d.sec[x[1]].kind = "dir" /\ At(d, x) = d.sec[x[1]].slot[x[2]]
  BY <1>1 DEF At
<1>3. SlotsOK(d.sec[x[1]].slot)
  BY <1>1, <1>2, DirSector DEF Sectors
<1>4. SlotOK(At(d, x)) /\ At(d, x) # END /\ At(d, x) # DELETED
  BY <1>1, <1>2, <1>3, SlotFacts DEF SlotsOK
<1>5. PICK n \in Names \cup Dots, dir \in BOOLEAN :
        \E first, size : At(d, x) = Dirent(n, dir, first, size)
  BY <1>4 DEF SlotOK
<1>6. At(d, x).name = n /\ At(d, x).dir = dir
  BY <1>5, SlotFacts
<1>7. n \in Names
  BY <1>1, <1>6 DEF Entry
<1> QED
  BY <1>1, <1>2, <1>5, <1>6, <1>7, KeyFacts DEF Entry

\* Directories.
LEMMA FolderFacts ==
  ASSUME NEW d, Sectors(d), NEW k \in Folder(d)
  PROVE  /\ k \in Key /\ k # SPARE /\ k # MORE
         /\ k # ROOT => k \in Used(d) /\ At(d, k).dir
<1>1. k = ROOT \/ (k \in Used(d) /\ At(d, k).dir)
  BY DEF Folder
<1> QED
  BY <1>1, KeyFacts, UsedFacts

\* The same sectors show the same entries.
LEMMA SameSectors ==
  ASSUME NEW d, NEW e, e.sec = d.sec
  PROVE  /\ \A x : At(e, x) = At(d, x)
         /\ Used(e) = Used(d) /\ Folder(e) = Folder(d)
         /\ Sectors(d) => Sectors(e)
<1>1. \A x : At(e, x) = At(d, x)
  BY DEF At
<1>2. Used(e) = Used(d)
  BY <1>1 DEF Used
<1> QED
  BY <1>1, <1>2 DEF Folder, Sectors

\* No entry stands in a cluster of anything but a directory.
LEMMA EntryHome ==
  ASSUME NEW d, NEW ch, NEW home, NEW w, Vol(d, ch, home, w), NEW x \in Key, x \notin Folder(d),
         NEW i \in 1..Len(ch[x]), NEW y \in Used(d)
  PROVE  y[1] # ch[x][i]
<1>1. PICK k \in Folder(d) : In(ch, y, k)
  BY DEF Vol, Tree
<1>2. PICK j \in 1..Len(ch[k]) : ch[k][j] = y[1]
  BY <1>1 DEF In
<1>3. k \in Key /\ k # x /\ DOMAIN ch = Key /\ Laid(d.fat, ch)
  BY FolderFacts, <1>1 DEF Vol, Chains
<1> QED
  BY <1>2, <1>3, LaidApart

\* The allocation table changes under a volume, and with it chains of no
\* directory: those of nobody, and those whose entries may lag.
LEMMA VolFat ==
  ASSUME NEW d, NEW ch, NEW home, NEW w, Vol(d, ch, home, w),
         NEW e, PlainDisk(e), e.sec = d.sec,
         NEW ch2 \in Chains, Laid(e.fat, ch2),
         \A k \in Folder(d) : ch2[k] = ch[k],
         \A x \in Used(d) : ch2[x] = ch[x] \/ x \in w
  PROVE  Vol(e, ch2, home, w)
<1>1. /\ \A x : At(e, x) = At(d, x)
      /\ Used(e) = Used(d) /\ Folder(e) = Folder(d) /\ Sectors(e)
  BY SameSectors DEF Vol
<1>2. First(ch2[ROOT]) = root_cluster
  BY DEF Vol, Folder
<1>3. Told(e, ch2, w)
  <2> SUFFICES ASSUME NEW x \in Used(d) PROVE (x \in w /\ ~At(d, x).dir) \/ Tells(e, ch2, x)
    BY <1>1 DEF Told
  <2>1. (x \in w /\ ~At(d, x).dir) \/ Tells(d, ch, x)
    BY DEF Vol, Told
  <2>2. CASE x \in Folder(d)
    <3>1. ch2[x] = ch[x]
      BY <2>2
    <3> QED
      BY <1>1, <2>1, <3>1 DEF Tells
  <2>3. CASE x \notin Folder(d)
    <3>1. ~At(d, x).dir
      BY <2>3 DEF Folder
    <3>2. CASE x \in w
      BY <3>1, <3>2
    <3>3. CASE ch2[x] = ch[x]
      BY <1>1, <2>1, <3>3 DEF Tells
    <3> QED
      BY <3>2, <3>3
  <2> QED
    BY <2>2, <2>3
<1>4. Housed(e, ch2)
  <2> SUFFICES ASSUME NEW k \in Folder(d)
               PROVE  /\ \A i \in 1..Len(ch2[k]) : e.sec[ch2[k][i]].kind = "dir"
                      /\ Order(e, ch2[k])
    BY <1>1 DEF Housed
  <2>1. ch2[k] = ch[k]
    OBVIOUS
  <2>2. Order(d, ch[k]) /\ \A i \in 1..Len(ch[k]) : d.sec[ch[k][i]].kind = "dir"
    BY DEF Vol, Housed
  <2> QED
    BY <1>1, <2>1, <2>2 DEF Order
<1>5. Tree(e, ch2, home)
  <2>1. \A x \in Used(d) : \A k \in Folder(d) : In(ch2, x, k) <=> In(ch, x, k)
    BY DEF In
  <2> QED
    BY <1>1, <2>1 DEF Vol, Tree
<1> QED
  BY <1>1, <1>2, <1>3, <1>4, <1>5 DEF Vol

\* More entries may lag.
LEMMA VolMore ==
  ASSUME NEW d, NEW ch, NEW home, NEW w, Vol(d, ch, home, w), NEW v,
         \A x \in Used(d) : x \in w /\ ~At(d, x).dir => x \in v \/ Tells(d, ch, x)
  PROVE  Vol(d, ch, home, v)
<1>1. Told(d, ch, v)
  BY DEF Vol, Told
<1> QED
  BY <1>1 DEF Vol

\* A sector without entries.
Quiet(s) == SectorOK(s) /\ (s.kind = "dir" => \A j \in 1..SLOTS : ~Entry(s.slot[j]))

\* Volumes with the same entries in the same places.
SameTree(d, e) == Used(e) = Used(d) /\ \A x \in Used(d) : At(e, x) = At(d, x)

\* A sector without entries is written to a chain of no directory.
LEMMA VolSector ==
  ASSUME NEW d, NEW ch, NEW home, NEW w, Vol(d, ch, home, w),
         NEW x \in Key, x \notin Folder(d), NEW n \in 1..Len(ch[x]),
         NEW s, Quiet(s),
         NEW e, PlainDisk(e), e.fat = d.fat, e.sec = Put(d.sec, ch[x][n], s)
  PROVE  Vol(e, ch, home, w) /\ SameTree(d, e) /\ Folder(e) = Folder(d)
<1> DEFINE c == ch[x][n]
<1>0. DOMAIN ch = Key /\ Laid(d.fat, ch) /\ Sectors(d)
  BY DEF Vol, Chains
<1>1. c \in Cluster /\ DOMAIN d.sec = Cluster
  BY <1>0, LaidFacts DEF Vol, PlainDisk
<1>2. e.sec[c] = s /\ \A b \in Cluster : b # c => e.sec[b] = d.sec[b]
  BY <1>1, PutFacts
<1>3. \A y \in Used(d) : y[1] # c
  BY EntryHome
<1> HIDE DEF c
<1>4. \A y \in Place : y[1] # c => At(e, y) = At(d, y)
  BY <1>2, PlaceFacts DEF At
<1>5. \A y \in Place : y[1] = c => ~(e.sec[y[1]].kind = "dir" /\ Entry(At(e, y)))
  BY <1>2, PlaceFacts DEF At, Quiet
<1>6. SameTree(d, e)
  <2>1. \A y \in Place : y[1] # c => e.sec[y[1]].kind = d.sec[y[1]].kind
    BY <1>2, PlaceFacts
  <2>2. \A y \in Place : y \in Used(e) <=> y \in Used(d)
    BY <1>3, <1>4, <1>5, <2>1 DEF Used
  <2>3. Used(e) = Used(d)
    BY <2>2 DEF Used
  <2> QED
    BY <1>3, <1>4, <2>3 DEF SameTree, Used
<1>7. Folder(e) = Folder(d)
  BY <1>6 DEF SameTree, Folder
<1>8. Sectors(e)
  BY <1>0, <1>1, <1>2 DEF Sectors, Quiet
<1>9. Told(e, ch, w)
  BY <1>6 DEF SameTree, Told, Tells, Vol
\* Clusters of directories.
<1>10. \A k \in Folder(d) : k \in Key /\ \A i \in 1..Len(ch[k]) : ch[k][i] # c /\ ch[k][i] \in Cluster
  <2> SUFFICES ASSUME NEW k \in Folder(d), NEW i \in 1..Len(ch[k])
               PROVE  k \in Key /\ ch[k][i] # c /\ ch[k][i] \in Cluster
    BY <1>0, FolderFacts
  <2>1. k \in Key /\ k # x
    BY <1>0, FolderFacts
  <2> QED
    BY <1>0, <2>1, LaidApart, LaidFacts DEF c
<1>11. Housed(e, ch)
  <2> SUFFICES ASSUME NEW k \in Folder(d)
               PROVE  /\ \A i \in 1..Len(ch[k]) : e.sec[ch[k][i]].kind = "dir"
                      /\ Order(e, ch[k])
    BY <1>7 DEF Housed
  <2>1. Order(d, ch[k]) /\ \A i \in 1..Len(ch[k]) : d.sec[ch[k][i]].kind = "dir"
    BY DEF Vol, Housed
  <2>2. \A i \in 1..Len(ch[k]) : e.sec[ch[k][i]].kind = "dir"
    BY <1>2, <1>10, <2>1
  <2>3. \A i \in 1..Len(ch[k]), j \in 1..SLOTS : At(e, <<ch[k][i], j>>) = At(d, <<ch[k][i], j>>)
    BY <1>4, <1>10, PlaceFacts
  <2>4. Used(e) = Used(d)
    BY <1>6 DEF SameTree
  <2> QED
    BY <2>1, <2>2, <2>3, <2>4 DEF Order
<1>12. Tree(e, ch, home)
  BY <1>6, <1>7 DEF SameTree, Tree, Vol
<1> QED
  BY <1>6, <1>7, <1>8, <1>9, <1>11, <1>12 DEF Vol

\* One slot of a volume changes.
SlotPut(d, e, x, v) ==
  /\ PlainDisk(e) /\ Sectors(e) /\ e.fat = d.fat
  /\ At(e, x) = v /\ e.sec[x[1]].kind = "dir"
  /\ \A y \in Place : y # x => At(e, y) = At(d, y)
  /\ \A c \in Cluster : e.sec[c].kind = d.sec[c].kind

\* Writing it.
LEMMA PutSlotIs ==
  ASSUME NEW t, Hist(t), Sectors(Last(t)), NEW x \in Place, Last(t).sec[x[1]].kind = "dir",
         NEW v, SlotOK(v)
  PROVE  Hist(PutSlot(t, x, v)) /\ SlotPut(Last(t), Last(PutSlot(t, x, v)), x, v)
<1> DEFINE d == Last(t)
           c == x[1]
           s == d.sec[c]
           f == [s.slot EXCEPT ![x[2]] = v]
           u == write_sector(t, c, Slots(f))
           e == Last(u)
<1>1. PutSlot(t, x, v) = u
  BY DEF PutSlot
<1>2. c \in Cluster /\ x[2] \in 1..SLOTS /\ x = <<c, x[2]>>
  BY PlaceFacts
<1>3. /\ Hist(u) /\ e.fat = d.fat /\ e.sec = Put(d.sec, c, Slots(f))
  BY <1>2, WriteSector
<1>4. PlainDisk(d) /\ PlainDisk(e)
  BY <1>3, HistFacts
<1>5. SlotsOK(s.slot) /\ s.kind = "dir"
  BY <1>2, DirSector DEF Sectors
<1> HIDE DEF d, s, u, e
<1>6. /\ SlotsOK(f) /\ f[x[2]] = v /\ \A j \in 1..SLOTS : j # x[2] => f[j] = s.slot[j]
  BY <1>2, <1>5 DEF SlotsOK
<1> HIDE DEF f
<1>7. e.sec[c] = Slots(f) /\ \A b \in Cluster : b # c => e.sec[b] = d.sec[b]
  BY <1>2, <1>3, <1>4, PutFacts DEF PlainDisk
<1>8. Sectors(e)
  BY <1>6, <1>7, SectorFacts DEF Sectors, d
<1>9. At(e, x) = v
  BY <1>2, <1>6, <1>7, SectorFacts DEF At
<1>10. ASSUME NEW y \in Place, y # x
       PROVE  At(e, y) = At(d, y)
  <2>1. y[1] \in Cluster /\ y[2] \in 1..SLOTS /\ y = <<y[1], y[2]>>
    BY PlaceFacts
  <2>2. CASE y[1] = c
    <3>1. y[2] # x[2]
      BY <1>2, <1>10, <2>1, <2>2
    <3>2. At(e, y) = f[y[2]]
      BY <1>7, <2>2, SectorFacts DEF At
    <3>3. At(d, y) = s.slot[y[2]]
      BY <1>5, <2>2 DEF At, s
    <3> QED
      BY <1>6, <2>1, <3>1, <3>2, <3>3
  <2>3. CASE y[1] # c
    BY <1>7, <2>1, <2>3 DEF At
  <2> QED
    BY <2>2, <2>3
<1>11. \A b \in Cluster : e.sec[b].kind = d.sec[b].kind
  BY <1>5, <1>7, SectorFacts DEF s
<1>12. SlotPut(d, e, x, v)
  BY <1>2, <1>3, <1>4, <1>5, <1>8, <1>9, <1>10, <1>11 DEF SlotPut, s
<1> QED
  BY <1>1, <1>3, <1>12 DEF d, e

\* Slots that show what they showed.
LEMMA SlotPutFacts ==
  ASSUME NEW d, NEW e, NEW x \in Place, NEW v, SlotPut(d, e, x, v)
  PROVE  /\ \A y \in Place : y # x => (y \in Used(e) <=> y \in Used(d)) /\ At(e, y) = At(d, y)
         /\ x \in Used(e) <=> Entry(v)
         /\ \A y \in Key : y # x => (y \in Folder(e) <=> y \in Folder(d))
<1>1. /\ \A y \in Place : y # x => (y \in Used(e) <=> y \in Used(d)) /\ At(e, y) = At(d, y)
      /\ x \in Used(e) <=> Entry(v)
  BY PlaceFacts DEF SlotPut, Used
<1>2. \A y \in Used(d) : y \in Place
  BY DEF Used
<1>3. \A y \in Used(e) : y \in Place
  BY DEF Used
<1>4. \A y \in Key : y # x => (y \in Folder(e) <=> y \in Folder(d))
  BY <1>1, <1>2, <1>3 DEF Folder
<1> QED
  BY <1>1, <1>4

\* An entry is deleted: one of a file, or of a directory without entries.
LEMMA VolRemove ==
  ASSUME NEW d, NEW ch, NEW home, NEW w, Vol(d, ch, home, w), NEW x \in Used(d),
         x \in Folder(d) => \A y \in Used(d) : ~In(ch, y, x),
         NEW e, SlotPut(d, e, x, DELETED)
  PROVE  /\ Vol(e, ch, home, w) /\ Used(e) = Used(d) \ {x}
         /\ \A y \in Used(e) : At(e, y) = At(d, y)
         /\ Folder(e) = Folder(d) \ {x}
<1>1. /\ x \in Place /\ Sectors(d) /\ Sectors(e) /\ x # ROOT
  BY UsedFacts DEF Vol, SlotPut
<1>2. /\ \A y \in Place : y # x => (y \in Used(e) <=> y \in Used(d)) /\ At(e, y) = At(d, y)
      /\ x \notin Used(e)
  BY <1>1, SlotPutFacts, SlotFacts
<1>3. Used(e) = Used(d) \ {x} /\ \A y \in Used(e) : At(e, y) = At(d, y)
  <2>1. Used(e) \subseteq Place /\ Used(d) \subseteq Place
    BY DEF Used
  <2> QED
    BY <1>2, <2>1
<1>4. Folder(e) = Folder(d) \ {x}
  BY <1>1, <1>3 DEF Folder
<1>5. Told(e, ch, w)
  BY <1>3 DEF Told, Tells, Vol
<1>6. Housed(e, ch)
  <2> SUFFICES ASSUME NEW k \in Folder(e)
               PROVE  /\ \A i \in 1..Len(ch[k]) : e.sec[ch[k][i]].kind = "dir"
                      /\ Order(e, ch[k])
    BY DEF Housed
  <2>1. Order(d, ch[k]) /\ \A i \in 1..Len(ch[k]) : d.sec[ch[k][i]].kind = "dir"
    BY <1>4 DEF Vol, Housed
  <2>2. k \in Key /\ DOMAIN ch = Key /\ Laid(d.fat, ch)
    BY <1>4, <1>1, FolderFacts DEF Vol, Chains
  <2>3. \A i \in 1..Len(ch[k]) : ch[k][i] \in Cluster
    BY <2>2, LaidFacts
  <2>4. \A i \in 1..Len(ch[k]) : e.sec[ch[k][i]].kind = "dir"
    BY <2>1, <2>3 DEF SlotPut
  <2>5. \A i \in 1..Len(ch[k]), j \in 1..SLOTS :
          At(e, <<ch[k][i], j>>) = END => At(d, <<ch[k][i], j>>) = END
    BY <1>2, <2>3, PlaceFacts, SlotFacts DEF SlotPut
  <2>6. Order(e, ch[k])
    BY <1>3, <2>1, <2>5 DEF Order
  <2> QED
    BY <2>4, <2>6
<1>7. Tree(e, ch, home)
  <2>1. Tree(d, ch, home)
    BY DEF Vol
  <2>2. ASSUME NEW y \in Used(e)
        PROVE  \E k \in Folder(e) : In(ch, y, k) /\ home[y] = Append(home[k], At(e, y).name)
    <3>1. PICK k \in Folder(d) : In(ch, y, k) /\ home[y] = Append(home[k], At(d, y).name)
      BY <1>3, <2>1 DEF Tree
    <3>2. k # x
      BY <1>3, <3>1
    <3> QED
      BY <1>3, <1>4, <3>1, <3>2
  <2> QED
    BY <1>3, <2>1, <2>2 DEF Tree
<1> QED
  BY <1>3, <1>4, <1>5, <1>6, <1>7 DEF Vol, SlotPut

\* An entry v that is up to date for the file at x.
UpToDate(d, ch, x, v) ==
  /\ ~At(d, x).dir /\ ~v.dir /\ v.mark = "used" /\ v.name = At(d, x).name
  /\ v.first = First(ch[x]) /\ v.size \in Nat /\ v.size <= Len(ch[x]) * SECTOR

\* The entry of a file is brought up to date.
LEMMA VolUpdate ==
  ASSUME NEW d, NEW ch, NEW home, NEW w, Vol(d, ch, home, w), NEW x \in Used(d),
         NEW e, NEW v, SlotPut(d, e, x, v), UpToDate(d, ch, x, v)
  PROVE  /\ Vol(e, ch, home, w \ {x}) /\ Used(e) = Used(d)
         /\ \A y \in Used(d) : y # x => At(e, y) = At(d, y)
         /\ Folder(e) = Folder(d) /\ ~At(e, x).dir
<1>0. /\ ~At(d, x).dir /\ ~v.dir /\ v.mark = "used" /\ v.name = At(d, x).name
      /\ v.first = First(ch[x]) /\ v.size \in Nat /\ v.size <= Len(ch[x]) * SECTOR
  BY DEF UpToDate
<1>1. /\ x \in Place /\ Sectors(d) /\ Sectors(e) /\ x # ROOT /\ At(d, x).name \notin Dots
  BY UsedFacts DEF Vol, SlotPut
<1>2. /\ \A y \in Place : y # x => (y \in Used(e) <=> y \in Used(d)) /\ At(e, y) = At(d, y)
      /\ x \in Used(e) /\ At(e, x) = v
  BY <1>0, <1>1, SlotPutFacts DEF Entry, SlotPut
<1>3. /\ Used(e) = Used(d) /\ \A y \in Used(d) : y # x => At(e, y) = At(d, y)
      /\ \A y \in Used(d) : At(e, y).name = At(d, y).name
  <2>1. Used(e) \subseteq Place /\ Used(d) \subseteq Place
    BY DEF Used
  <2>a. \A y \in Place : y \in Used(e) <=> y \in Used(d)
    BY <1>2
  <2>2. Used(e) = Used(d)
    BY <2>1, <2>a
  <2>3. \A y \in Used(d) : y # x => At(e, y) = At(d, y)
    BY <1>2, <2>1
  <2> QED
    BY <1>0, <1>2, <2>2, <2>3
<1>4. Folder(e) = Folder(d)
  BY <1>0, <1>1, <1>2, <1>3 DEF Folder
<1>5. Told(e, ch, w \ {x})
  BY <1>0, <1>2, <1>3 DEF Told, Tells, Vol
<1>6. Housed(e, ch)
  <2> SUFFICES ASSUME NEW k \in Folder(d)
               PROVE  /\ \A i \in 1..Len(ch[k]) : e.sec[ch[k][i]].kind = "dir"
                      /\ Order(e, ch[k])
    BY <1>4 DEF Housed
  <2>1. Order(d, ch[k]) /\ \A i \in 1..Len(ch[k]) : d.sec[ch[k][i]].kind = "dir"
    BY DEF Vol, Housed
  <2>2. k \in Key /\ DOMAIN ch = Key /\ Laid(d.fat, ch)
    BY <1>1, FolderFacts DEF Vol, Chains
  <2>3. \A i \in 1..Len(ch[k]) : ch[k][i] \in Cluster
    BY <2>2, LaidFacts
  <2>4. \A i \in 1..Len(ch[k]) : e.sec[ch[k][i]].kind = "dir"
    BY <2>1, <2>3 DEF SlotPut
  <2>5. v # END
    BY <1>0, SlotFacts
  <2>6. \A i \in 1..Len(ch[k]), j \in 1..SLOTS :
          At(e, <<ch[k][i], j>>) = END => At(d, <<ch[k][i], j>>) = END
    BY <1>2, <2>3, <2>5, PlaceFacts
  <2>7. Order(e, ch[k])
    BY <1>3, <2>1, <2>6 DEF Order
  <2> QED
    BY <2>4, <2>7
<1>7. Tree(e, ch, home)
  BY <1>3, <1>4 DEF Tree, Vol
<1> QED
  BY <1>0, <1>2, <1>3, <1>4, <1>5, <1>6, <1>7 DEF Vol, SlotPut

\* The chain of y goes to x.
Moved(ch, y, x) == IF x = y THEN ch ELSE Put(Put(ch, x, ch[y]), y, <<>>)

\* It is moved without touching the others.
LEMMA MovedFacts ==
  ASSUME NEW fat, NEW ch \in Chains, Laid(fat, ch), NEW x \in Key, NEW y \in Key
  PROVE  /\ Moved(ch, y, x) \in Chains /\ Laid(fat, Moved(ch, y, x))
         /\ Moved(ch, y, x)[x] = ch[y]
         /\ \A z \in Key : z # x /\ z # y => Moved(ch, y, x)[z] = ch[z]
<1>1. CASE x = y
  BY <1>1 DEF Moved
<1>2. CASE x # y
  <2> DEFINE q == <<>>
             one == Put(ch, x, ch[y])
             two == Put(one, y, q)
  <2>1. DOMAIN ch = Key /\ ch[y] \in Seq(Cluster) /\ q \in Seq(Cluster)
    BY EmptySeq DEF Chains
  <2>2. Laid(fat, two)
    BY <1>2, <2>1, LaidMove
  <2> HIDE DEF q
  <2>3. one \in Chains /\ one[x] = ch[y] /\ \A z \in Key : z # x => one[z] = ch[z]
    BY <2>1, PutChains
  <2> HIDE DEF one
  <2>4. two \in Chains /\ \A z \in Key : z # y => two[z] = one[z]
    BY <2>1, <2>3, PutChains
  <2>5. Moved(ch, y, x) = two
    BY <1>2 DEF Moved, two, one, q
  <2> QED
    BY <1>2, <2>2, <2>3, <2>4, <2>5
<1> QED
  BY <1>1, <1>2

\* The chain of a new directory: slots, and no entry among them.
Bare(d, s) ==
  \A i \in 1..Len(s) : /\ d.sec[s[i]].kind = "dir"
                       /\ \A j \in 1..SLOTS : <<s[i], j>> \notin Used(d)

\* An entry v comes to place x, the slot b of the a-th cluster of directory k,
\* and the chain of y with it; no end is in front of it.
Coming(d, ch, home, k, a, b, x, y, v, p) ==
  /\ k \in Folder(d) /\ a \in 1..Len(ch[k]) /\ b \in 1..SLOTS
  /\ x = <<ch[k][a], b>> /\ x \notin Used(d)
  /\ \A i \in 1..Len(ch[k]), j \in 1..SLOTS :
       Before(i, j, a, b) /\ At(d, <<ch[k][i], j>>) = END => i = a /\ j = b
  /\ y \in Key /\ y \notin Used(d) /\ y # ROOT
  /\ v.mark = "used" /\ v.name \in Names \ Dots /\ v.dir \in BOOLEAN
  /\ v.first = First(ch[y]) /\ v.size \in Nat /\ v.size <= Len(ch[y]) * SECTOR
  /\ v.dir => Bare(d, ch[y]) /\ y # x
  /\ p = Append(home[k], v.name) /\ p \in Path
  /\ \A o \in Used(d) : home[o] # p

\* The volume has the entry then.
LEMMA VolAdd ==
  ASSUME NEW d, NEW ch, NEW home, NEW w, Vol(d, ch, home, w),
         NEW k, NEW a, NEW b, NEW x, NEW y, NEW v, NEW p, Coming(d, ch, home, k, a, b, x, y, v, p),
         NEW e, SlotPut(d, e, x, v)
  PROVE  /\ Vol(e, Moved(ch, y, x), Put(home, x, p), w)
         /\ Used(e) = Used(d) \cup {x} /\ \A o \in Used(d) : At(e, o) = At(d, o) /\ o # x /\ o # y
<1>a. k \in Folder(d) /\ a \in 1..Len(ch[k]) /\ b \in 1..SLOTS
  BY DEF Coming
<1>b. x = <<ch[k][a], b>> /\ x \notin Used(d)
  BY DEF Coming
<1>c. \A i \in 1..Len(ch[k]), j \in 1..SLOTS :
        Before(i, j, a, b) /\ At(d, <<ch[k][i], j>>) = END => i = a /\ j = b
  BY DEF Coming
<1>d. /\ y \in Key /\ y \notin Used(d) /\ y # ROOT
      /\ v.mark = "used" /\ v.name \in Names \ Dots /\ v.dir \in BOOLEAN
      /\ v.first = First(ch[y]) /\ v.size \in Nat /\ v.size <= Len(ch[y]) * SECTOR
      /\ v.dir => Bare(d, ch[y]) /\ y # x
  BY DEF Coming
<1>e. p = Append(home[k], v.name) /\ p \in Path /\ \A o \in Used(d) : home[o] # p
  BY DEF Coming
<1> USE <1>a, <1>b, <1>c, <1>d, <1>e
<1> DEFINE ch2 == Moved(ch, y, x)
           home2 == Put(home, x, p)
<1>1. /\ Sectors(d) /\ Sectors(e) /\ ch \in Chains /\ Laid(d.fat, ch) /\ DOMAIN ch = Key
      /\ Laid(e.fat, ch) /\ k \in Key /\ Tree(d, ch, home)
  BY FolderFacts DEF Vol, SlotPut, Chains
<1>2. ch[k][a] \in Cluster /\ x \in Place /\ x \in Key /\ x # ROOT /\ x[1] = ch[k][a] /\ x[2] = b
  <2>1. ch[k][a] \in Cluster
    BY <1>1, LaidFacts
  <2> QED
    BY <2>1, PlaceFacts, KeyFacts
<1>3. /\ \A o \in Place : o # x => (o \in Used(e) <=> o \in Used(d)) /\ At(e, o) = At(d, o)
      /\ x \in Used(e) /\ At(e, x) = v
  <2>1. Entry(v)
    BY DEF Entry
  <2>2. At(e, x) = v
    BY DEF SlotPut
  <2> QED
    BY ONLY <1>2, <2>1, <2>2, SlotPut(d, e, x, v), SlotPutFacts
<1>4. /\ Used(e) = Used(d) \cup {x}
      /\ \A o \in Used(d) : At(e, o) = At(d, o) /\ o # x /\ o # y /\ o \in Key
  <2>1. Used(e) \subseteq Place /\ Used(d) \subseteq Place
    BY DEF Used
  <2> QED
    BY <1>2, <1>3, <2>1, KeyFacts
<1>5. Folder(e) = IF v.dir THEN Folder(d) \cup {x} ELSE Folder(d)
  BY <1>3, <1>4 DEF Folder
<1>6. /\ ch2 \in Chains /\ Laid(e.fat, ch2) /\ ch2[x] = ch[y]
      /\ \A o \in Key : o # x /\ o # y => ch2[o] = ch[o]
  <2> HIDE DEF ch2, home2
  <2>1. ch \in Chains /\ Laid(e.fat, ch) /\ x \in Key /\ y \in Key
    BY <1>1, <1>2
  <2> DEFINE fat == e.fat
             z == x
  <2> HIDE DEF fat, z
  <2>3. ch \in Chains /\ Laid(fat, ch) /\ z \in Key /\ y \in Key
    BY <2>1 DEF fat, z
  <2>4. /\ Moved(ch, y, z) \in Chains /\ Laid(fat, Moved(ch, y, z))
        /\ Moved(ch, y, z)[z] = ch[y]
        /\ \A o \in Key : o # z /\ o # y => Moved(ch, y, z)[o] = ch[o]
    BY ONLY <2>3, MovedFacts
  <2>2. /\ Moved(ch, y, x) \in Chains /\ Laid(e.fat, Moved(ch, y, x))
        /\ Moved(ch, y, x)[x] = ch[y]
        /\ \A o \in Key : o # x /\ o # y => Moved(ch, y, x)[o] = ch[o]
    BY <2>4 DEF fat, z
  <2> QED
    BY <2>2 DEF ch2
<1> HIDE DEF ch2
<1>7. \A o \in Folder(d) : o \in Key /\ o # x /\ o # y /\ ch2[o] = ch[o]
  <2> SUFFICES ASSUME NEW o \in Folder(d) PROVE o \in Key /\ o # x /\ o # y
    BY <1>6
  <2> QED
    BY <1>1, <1>2, <1>4, FolderFacts
<1>8. First(ch2[ROOT]) = root_cluster
  BY <1>7 DEF Vol, Folder
<1>9. Told(e, ch2, w)
  <2>1. Tells(e, ch2, x)
    BY <1>3, <1>6 DEF Tells
  <2>2. \A o \in Used(d) : ch2[o] = ch[o]
    BY <1>4, <1>6
  <2> QED
    BY <1>4, <2>1, <2>2 DEF Told, Tells, Vol
<1>10. Housed(e, ch2)
  <2> SUFFICES ASSUME NEW o \in Folder(e)
               PROVE  /\ \A i \in 1..Len(ch2[o]) : e.sec[ch2[o][i]].kind = "dir"
                      /\ Order(e, ch2[o])
    BY DEF Housed
  <2>1. CASE o \in Folder(d)
    <3>1. Order(d, ch[o]) /\ \A i \in 1..Len(ch[o]) : d.sec[ch[o][i]].kind = "dir"
      BY <2>1 DEF Vol, Housed
    <3>2. o \in Key /\ ch2[o] = ch[o]
      BY <1>7, <2>1
    <3>3. \A i \in 1..Len(ch[o]) : ch[o][i] \in Cluster
      BY <1>1, <3>2, LaidFacts
    <3>4. \A i \in 1..Len(ch[o]) : e.sec[ch[o][i]].kind = "dir"
      BY <3>1, <3>3 DEF SlotPut
    <3>5. Order(e, ch[o])
      <4> SUFFICES ASSUME NEW i \in 1..Len(ch[o]), NEW m \in 1..Len(ch[o]),
                          NEW j \in 1..SLOTS, NEW n \in 1..SLOTS,
                          Before(i, j, m, n), At(e, <<ch[o][i], j>>) = END
                   PROVE  <<ch[o][m], n>> \notin Used(e)
        BY DEF Order
      <4>1. v # END
        BY SlotFacts
      <4> DEFINE z == <<ch[o][i], j>>
                 z2 == <<ch[o][m], n>>
      <4>2. z \in Place /\ z2 \in Place
        BY <3>3, PlaceFacts
      <4> HIDE DEF z
      <4>3. z # x /\ At(d, z) = END
        BY <1>3, <4>1, <4>2 DEF z
      <4>4. z2 \notin Used(d)
        BY <3>1, <4>3 DEF Order, z
      <4>5. z2 # x
        <5> SUFFICES ASSUME z2 = x PROVE FALSE
          OBVIOUS
        <5>1. ch[o][m] = ch[k][a] /\ n = b
          BY <1>2, <4>2, PlaceFacts
        <5>2. o = k /\ m = a
          BY <1>1, <3>2, <5>1, LaidApart
        <5>3. i = a /\ j = b
          BY <4>3, <5>1, <5>2 DEF z
        <5> QED
          BY <4>3, <5>2, <5>3 DEF z
      <4> QED
        BY <1>4, <4>4, <4>5
    <3> QED
      BY <3>2, <3>4, <3>5
  <2>2. CASE o \notin Folder(d)
    <3>1. o = x /\ v.dir /\ ch2[o] = ch[y] /\ Bare(d, ch[y])
      BY <1>5, <1>6, <2>2
    <3>2. \A i \in 1..Len(ch[y]) : ch[y][i] \in Cluster
      BY <1>1, LaidFacts
    <3>3. y \notin Folder(d)
      BY <1>7
    <3>4. \A i \in 1..Len(ch[y]) : ch[y][i] # ch[k][a]
      BY <1>1, <3>3, LaidApart
    <3>5. \A i \in 1..Len(ch[y]) : e.sec[ch[y][i]].kind = "dir"
      BY <3>1, <3>2 DEF SlotPut, Bare
    <3>6. \A i \in 1..Len(ch[y]), j \in 1..SLOTS : <<ch[y][i], j>> \notin Used(e)
      BY <1>2, <1>4, <3>1, <3>2, <3>4, PlaceFacts DEF Bare
    <3> QED
      BY <3>1, <3>5, <3>6 DEF Order
  <2> QED
    BY <2>1, <2>2
<1>11. Tree(e, ch2, home2)
  <2>1. home \in [Key -> Seq(Names)] /\ home[k] \in Seq(Names) /\ home[ROOT] = <<>>
    BY <1>1 DEF Tree
  <2>2. p \in Seq(Names)
    BY <2>1, AppendProperties
  <2>3. /\ home2 \in [Key -> Seq(Names)] /\ home2[x] = p
        /\ \A o \in Key : o # x => home2[o] = home[o]
    BY <1>2, <2>1, <2>2 DEF Put
  <2> HIDE DEF home2
  <2>4. Folder(d) \subseteq Folder(e) /\ \A o \in Folder(d) : home2[o] = home[o]
    BY <1>5, <1>7, <2>3
  <2>5. \A o \in Used(d) : home2[o] = home[o]
    BY <1>4, <2>3
  <2>6. ASSUME NEW o \in Used(e)
        PROVE  \E f \in Folder(e) : In(ch2, o, f) /\ home2[o] = Append(home2[f], At(e, o).name)
    <3>1. CASE o = x
      <4>1. In(ch2, x, k)
        BY <1>2, <1>7 DEF In
      <4> QED
        BY <1>3, <2>3, <2>4, <3>1, <4>1
    <3>2. CASE o # x
      <4>1. o \in Used(d) /\ At(e, o) = At(d, o)
        BY <1>4, <3>2
      <4>2. PICK f \in Folder(d) : In(ch, o, f) /\ home[o] = Append(home[f], At(d, o).name)
        BY <1>1, <4>1 DEF Tree
      <4>3. In(ch2, o, f)
        BY <1>7, <4>2 DEF In
      <4> QED
        BY <2>4, <2>5, <4>1, <4>2, <4>3
    <3> QED
      BY <3>1, <3>2
  <2>7. \A o, z \in Used(e) : home2[o] = home2[z] => o = z
    BY <1>1, <1>4, <2>3, <2>5 DEF Tree
  <2>8. \A o \in Used(e) : home2[o] \in Path \/ Len(home2[o]) = 1
    BY <1>1, <1>4, <2>3, <2>5 DEF Tree
  <2>9. home2[ROOT] = <<>>
    BY <1>2, <2>1, <2>3, KeyFacts
  <2> QED
    BY <2>3, <2>6, <2>7, <2>8, <2>9 DEF Tree
<1>12. Vol(e, ch2, home2, w)
  BY <1>6, <1>8, <1>9, <1>10, <1>11 DEF Vol, SlotPut
<1> QED
  BY <1>4, <1>12 DEF ch2

------------------------------------------------------------------------------
\* Scanning.

\* The j-th slot of the directory with chain s.
Loc(s, j) == <<s[((j - 1) \div SLOTS) + 1], ((j - 1) % SLOTS) + 1>>

\* Positions, and what they are positions of.
LEMMA Positions ==
  ASSUME NEW n \in Nat
  PROVE  /\ \A j \in 1..n * SLOTS :
              /\ ((j - 1) \div SLOTS) + 1 \in 1..n /\ ((j - 1) % SLOTS) + 1 \in 1..SLOTS
              /\ j = ((j - 1) \div SLOTS) * SLOTS + ((j - 1) % SLOTS) + 1
         /\ \A a \in 1..n, b \in 1..SLOTS :
              LET j == (a - 1) * SLOTS + b
              IN  /\ j \in 1..n * SLOTS
                  /\ ((j - 1) \div SLOTS) + 1 = a /\ ((j - 1) % SLOTS) + 1 = b
<1>1. SLOTS \in Nat /\ SLOTS >= 2
  BY Constants
<1>2. ASSUME NEW j \in 1..n * SLOTS
      PROVE  /\ ((j - 1) \div SLOTS) + 1 \in 1..n /\ ((j - 1) % SLOTS) + 1 \in 1..SLOTS
             /\ j = ((j - 1) \div SLOTS) * SLOTS + ((j - 1) % SLOTS) + 1
  <2> DEFINE q == (j - 1) \div SLOTS
             r == (j - 1) % SLOTS
  <2>1. j \in Nat /\ j >= 1 /\ j - 1 \in Nat /\ j <= n * SLOTS
    BY <1>1
  <2>2. q \in Nat /\ r \in 0..SLOTS - 1 /\ j - 1 = SLOTS * q + r
    BY <1>1, <2>1
  <2> HIDE DEF q, r
  <2>3. q < n
    <3> SUFFICES ASSUME q >= n PROVE FALSE
      BY <2>2
    <3>1. q * SLOTS >= n * SLOTS
      BY <1>1, <2>2
    <3> QED
      BY <1>1, <2>1, <2>2, <3>1
  <2>4. q + 1 \in 1..n /\ r + 1 \in 1..SLOTS /\ j = q * SLOTS + r + 1
    BY <1>1, <2>1, <2>2, <2>3
  <2> QED
    BY <2>4 DEF q, r
<1>3. ASSUME NEW a \in 1..n, NEW b \in 1..SLOTS
      PROVE  LET j == (a - 1) * SLOTS + b
             IN  /\ j \in 1..n * SLOTS
                 /\ ((j - 1) \div SLOTS) + 1 = a /\ ((j - 1) % SLOTS) + 1 = b
  <2> DEFINE j == (a - 1) * SLOTS + b
             k == j - 1
  <2>1. a - 1 \in Nat /\ b - 1 \in 0..SLOTS - 1
    BY <1>1
  <2>2. k = SLOTS * (a - 1) + (b - 1)
    BY <1>1
  <2>3. (a - 1) * SLOTS <= (n - 1) * SLOTS /\ (a - 1) * SLOTS >= 0
    BY <1>1
  <2>4. j \in 1..n * SLOTS
    <3>1. (n - 1) * SLOTS = n * SLOTS - SLOTS /\ (n - 1) * SLOTS \in Int /\ (a - 1) * SLOTS \in Int /\ n * SLOTS \in Int
      BY <1>1
    <3> DEFINE u == (a - 1) * SLOTS
               v == n * SLOTS
    <3> HIDE DEF u, v
    <3>2. u \in Int /\ v \in Int /\ u >= 0 /\ u <= v - SLOTS
      BY <2>3, <3>1 DEF u, v
    <3>3. u + b \in 1..v
      BY <1>1, <3>2
    <3> QED
      BY <3>3 DEF u, v
  <2>5. k \div SLOTS = a - 1 /\ k % SLOTS = b - 1
    <3> DEFINE q == a - 1
               r == b - 1
    <3> HIDE DEF k, q, r
    <3>1. q \in Nat /\ r \in 0..SLOTS - 1 /\ k = SLOTS * q + r
      BY <2>1, <2>2 DEF q, r
    <3>2. k \div SLOTS = q /\ k % SLOTS = r
      BY <1>1, <3>1
    <3> QED
      BY <3>2 DEF q, r
  <2> HIDE DEF k
  <2>6. (k \div SLOTS) + 1 = a /\ (k % SLOTS) + 1 = b
    BY <2>1, <2>5
  <2> QED
    BY <2>4, <2>6 DEF k
<1> QED
  BY <1>2, <1>3

\* The positions of a directory: every slot of its chain, in order.
LEMMA LocFacts ==
  ASSUME NEW s \in Seq(Cluster)
  PROVE  /\ \A j \in 1..Len(s) * SLOTS :
              \E a \in 1..Len(s), b \in 1..SLOTS : j = (a - 1) * SLOTS + b /\ Loc(s, j) = <<s[a], b>>
         /\ \A a \in 1..Len(s), b \in 1..SLOTS :
              /\ (a - 1) * SLOTS + b \in 1..Len(s) * SLOTS
              /\ Loc(s, (a - 1) * SLOTS + b) = <<s[a], b>>
<1> DEFINE n == Len(s)
<1>1. SLOTS \in Nat /\ SLOTS >= 2 /\ n \in Nat
  BY Constants, SeqElement
<1> HIDE DEF n
<1>2. ASSUME NEW j \in 1..n * SLOTS
      PROVE  \E a \in 1..n, b \in 1..SLOTS : j = (a - 1) * SLOTS + b /\ Loc(s, j) = <<s[a], b>>
  <2> DEFINE q == (j - 1) \div SLOTS
             r == (j - 1) % SLOTS
  <2>1. q + 1 \in 1..n /\ r + 1 \in 1..SLOTS /\ j = q * SLOTS + r + 1
    BY <1>1, Positions
  <2>2. Loc(s, j) = <<s[q + 1], r + 1>>
    BY DEF Loc
  <2> HIDE DEF q, r
  <2>3. q \in Int /\ r \in Int
    BY <1>1, <2>1 DEF q, r
  <2> DEFINE a == q + 1
             b == r + 1
  <2>4. j = (a - 1) * SLOTS + b
    <3>1. a - 1 = q
      BY <2>3
    <3>2. q * SLOTS \in Int
      BY <1>1, <2>3
    <3> DEFINE z == q * SLOTS
    <3> HIDE DEF z
    <3>3. j = z + b
      BY <2>1, <2>3, <3>2 DEF z
    <3> QED
      BY <3>1, <3>3 DEF z
  <2> QED
    BY <2>1, <2>2, <2>4
<1>3. ASSUME NEW a \in 1..n, NEW b \in 1..SLOTS
      PROVE  (a - 1) * SLOTS + b \in 1..n * SLOTS /\ Loc(s, (a - 1) * SLOTS + b) = <<s[a], b>>
  <2> DEFINE j == (a - 1) * SLOTS + b
  <2>1. j \in 1..n * SLOTS /\ ((j - 1) \div SLOTS) + 1 = a /\ ((j - 1) % SLOTS) + 1 = b
    BY <1>1, Positions
  <2> HIDE DEF j
  <2>2. Loc(s, j) = <<s[a], b>>
    BY <2>1 DEF Loc
  <2> QED
    BY <2>1, <2>2 DEF j
<1> QED
  BY <1>2, <1>3 DEF n

\* One position is before another as its cluster and its slot are.
LEMMA BeforeIs ==
  ASSUME NEW a \in Nat, NEW i \in Nat, NEW b \in 1..SLOTS, NEW j \in 1..SLOTS
  PROVE  Before(a, b, i, j) <=> (a - 1) * SLOTS + b <= (i - 1) * SLOTS + j
<1>1. SLOTS \in Nat /\ SLOTS >= 2
  BY Constants
<1>2. CASE a = i
  <2> DEFINE u == (a - 1) * SLOTS
  <2>1. u \in Int
    BY <1>1
  <2> HIDE DEF u
  <2>2. u + b <= u + j <=> b <= j
    BY <1>1, <2>1
  <2> QED
    BY <1>2, <2>2 DEF Before, u
<1>3. ASSUME NEW x \in Nat, NEW y \in Nat, NEW m \in 1..SLOTS, NEW n \in 1..SLOTS, x < y
      PROVE  (x - 1) * SLOTS + m < (y - 1) * SLOTS + n
  <2>1. (x - 1) * SLOTS + SLOTS = x * SLOTS /\ x * SLOTS <= (y - 1) * SLOTS
    BY <1>1, <1>3
  <2> DEFINE u == (x - 1) * SLOTS
             v == (y - 1) * SLOTS
             z == x * SLOTS
  <2>2. u \in Int /\ v \in Int /\ z \in Int
    BY <1>1
  <2> HIDE DEF u, v, z
  <2>3. u + SLOTS = z /\ z <= v
    BY <2>1 DEF u, v, z
  <2>4. u + m < v + n
    BY <1>1, <2>2, <2>3
  <2> QED
    BY <2>4 DEF u, v
<1>4. CASE a < i
  <2>1. (a - 1) * SLOTS + b < (i - 1) * SLOTS + j
    BY <1>3, <1>4
  <2>2. (a - 1) * SLOTS + b \in Int /\ (i - 1) * SLOTS + j \in Int
    BY <1>1
  <2> QED
    BY <1>4, <2>1, <2>2 DEF Before
<1>5. CASE i < a
  <2>1. (i - 1) * SLOTS + j < (a - 1) * SLOTS + b
    BY <1>3, <1>5
  <2>2. (a - 1) * SLOTS + b \in Int /\ (i - 1) * SLOTS + j \in Int
    BY <1>1
  <2> QED
    BY <1>5, <2>1, <2>2 DEF Before
<1> QED
  BY <1>2, <1>4, <1>5

\* The slots that a directory is scanned through.
LEMMA SlotsOfIs ==
  ASSUME NEW d, NEW ch, Laid(d.fat, ch), NEW o \in DOMAIN ch
  PROVE  /\ SlotsOf(d, First(ch[o])) = [j \in 1..Len(ch[o]) * SLOTS |-> Loc(ch[o], j)]
         /\ DOMAIN SlotsOf(d, First(ch[o])) = 1..Len(ch[o]) * SLOTS
         /\ \A j \in 1..Len(ch[o]) * SLOTS : SlotsOf(d, First(ch[o]))[j] = Loc(ch[o], j)
<1>1. Chain(d, First(ch[o])) = ch[o]
  BY ChainIs
<1>2. SlotsOf(d, First(ch[o])) = [j \in 1..Len(ch[o]) * SLOTS |-> Loc(ch[o], j)]
  BY <1>1 DEF SlotsOf, Loc
<1> QED
  BY <1>2

\* The slot at x bears the name.
Match(d, x, name) == At(d, x).mark = "used" /\ At(d, x).name = name

\* What a search finds.
LEMMA SearchFound ==
  ASSUME NEW d, NEW slots, NEW n, DOMAIN slots = 1..n, NEW name, Search(d, slots, name).found
  PROVE  \E j \in 1..n : /\ Search(d, slots, name).de = slots[j]
                         /\ Search(d, slots, name).entry = At(d, slots[j])
                         /\ Match(d, slots[j], name)
<1> DEFINE hits == {k \in DOMAIN slots : /\ At(d, slots[k]).mark = "used"
                                         /\ At(d, slots[k]).name = name
                                         /\ \A j \in 1..k : At(d, slots[j]) # END}
           m == Min(hits)
           r == [found |-> TRUE, de |-> slots[m], entry |-> At(d, slots[m])]
<1>1. Search(d, slots, name) = IF hits = {} THEN NOTFOUND ELSE r
  BY DEF Search
<1>2. ~NOTFOUND.found
  BY DEF NOTFOUND
<1>3. hits \subseteq 1..n /\ hits \subseteq Nat
  OBVIOUS
<1>4. r.de = slots[m] /\ r.entry = At(d, slots[m])
  OBVIOUS
<1> HIDE DEF r
<1>5. hits # {} /\ Search(d, slots, name) = r
  <2> HIDE DEF hits
  <2> QED
    BY <1>1, <1>2
<1>6. m \in hits
  <2> HIDE DEF hits
  <2> QED
    BY <1>3, <1>5, MinIs
<1>7. m \in 1..n /\ Match(d, slots[m], name)
  <2> HIDE DEF m
  <2> QED
    BY <1>3, <1>6 DEF Match
<1> HIDE DEF hits, m
<1> QED
  BY <1>4, <1>5, <1>7

\* What a search misses.
LEMMA SearchMissed ==
  ASSUME NEW d, NEW slots, NEW n, DOMAIN slots = 1..n, NEW name, ~Search(d, slots, name).found,
         NEW k \in 1..n, \A j \in 1..k : At(d, slots[j]) # END
  PROVE  ~Match(d, slots[k], name)
<1> DEFINE hits == {i \in DOMAIN slots : /\ At(d, slots[i]).mark = "used"
                                         /\ At(d, slots[i]).name = name
                                         /\ \A j \in 1..i : At(d, slots[j]) # END}
           m == Min(hits)
           r == [found |-> TRUE, de |-> slots[m], entry |-> At(d, slots[m])]
<1>1. Search(d, slots, name) = IF hits = {} THEN NOTFOUND ELSE r
  BY DEF Search
<1>2. r.found
  OBVIOUS
<1>3. hits = {}
  <2> HIDE DEF hits, r
  <2> QED
    BY <1>1, <1>2
<1> QED
  BY <1>3 DEF Match

\* Looking a name up in a directory of a volume.
LEMMA LookFound ==
  ASSUME NEW d, NEW ch, NEW home, NEW w, Vol(d, ch, home, w), NEW k \in Folder(d), NEW name,
         name \notin Dots, find_in_dir(d, First(ch[k]), name).found
  PROVE  LET r == find_in_dir(d, First(ch[k]), name)
         IN  /\ r.de \in Used(d) /\ r.entry = At(d, r.de) /\ At(d, r.de).name = name
             /\ home[r.de] = Append(home[k], name)
<1> DEFINE s == ch[k]
           n == Len(s) * SLOTS
           slots == SlotsOf(d, First(s))
           r == find_in_dir(d, First(s), name)
<1>1. DOMAIN ch = Key /\ k \in Key /\ Laid(d.fat, ch) /\ Tree(d, ch, home)
  BY FolderFacts DEF Vol, Chains
<1>2. s \in Seq(Cluster) /\ \A i \in 1..Len(s) : s[i] \in Cluster
  BY <1>1, LaidFacts
<1>3. DOMAIN slots = 1..n /\ \A j \in 1..n : slots[j] = Loc(s, j)
  <2>1. k \in DOMAIN ch /\ Laid(d.fat, ch)
    BY <1>1
  <2> QED
    BY <2>1, SlotsOfIs
<1>4. r = Search(d, slots, name)
  BY DEF find_in_dir
<1> HIDE DEF slots, n, s, r
<1>5. r.found
  BY DEF r, s
<1>6. PICK j \in 1..n : r.de = slots[j] /\ r.entry = At(d, slots[j]) /\ Match(d, slots[j], name)
  BY <1>3, <1>4, <1>5, SearchFound
<1>7. PICK a \in 1..Len(s), b \in 1..SLOTS : Loc(s, j) = <<s[a], b>>
  BY <1>2, <1>6, LocFacts DEF n
<1> DEFINE x == <<s[a], b>>
<1>8. x \in Place /\ x[1] = s[a]
  BY <1>2, PlaceFacts
<1>9. r.de = x
  BY <1>3, <1>6, <1>7
<1> HIDE DEF x
<1>10. r.entry = At(d, x) /\ Match(d, x, name)
  BY <1>6, <1>9
<1>11. x \in Used(d) /\ At(d, x).name = name
  BY <1>1, <1>8, <1>10 DEF Used, Entry, Match, Vol, Housed, s
<1>12. PICK f \in Folder(d) : In(ch, x, f) /\ home[x] = Append(home[f], At(d, x).name)
  BY <1>1, <1>11 DEF Tree
<1>13. PICK i \in 1..Len(ch[f]) : ch[f][i] = s[a]
  BY <1>8, <1>12 DEF In
<1>14. f \in Key
  BY <1>12, FolderFacts DEF Vol
<1>15. f = k
  BY <1>1, <1>13, <1>14, LaidApart DEF s
<1> QED
  BY <1>9, <1>10, <1>11, <1>12, <1>15 DEF r, s

\* What is there is found.
LEMMA LookFinds ==
  ASSUME NEW d, NEW ch, NEW home, NEW w, Vol(d, ch, home, w), NEW k \in Folder(d),
         NEW x \in Used(d), In(ch, x, k), home[x] = Append(home[k], At(d, x).name)
  PROVE  LET r == find_in_dir(d, First(ch[k]), At(d, x).name)
         IN  r.found /\ r.de = x /\ r.entry = At(d, x)
<1> DEFINE s == ch[k]
           n == Len(s) * SLOTS
           slots == SlotsOf(d, First(s))
           name == At(d, x).name
           r == find_in_dir(d, First(s), name)
<1>1. DOMAIN ch = Key /\ k \in Key /\ Laid(d.fat, ch) /\ Tree(d, ch, home) /\ Order(d, s)
  BY FolderFacts DEF Vol, Chains, Housed
<1>2. s \in Seq(Cluster) /\ Len(s) \in Nat /\ \A i \in 1..Len(s) : s[i] \in Cluster
  BY <1>1, LaidFacts
<1>3. DOMAIN slots = 1..n /\ \A j \in 1..n : slots[j] = Loc(s, j)
  <2>1. k \in DOMAIN ch /\ Laid(d.fat, ch)
    BY <1>1
  <2> QED
    BY <2>1, SlotsOfIs
<1>4. r = Search(d, slots, name)
  BY DEF find_in_dir
<1>5. x \in Place /\ At(d, x).mark = "used" /\ name \notin Dots
  BY UsedFacts DEF Vol
<1>6. PICK a \in 1..Len(s) : s[a] = x[1]
  BY DEF In
<1> DEFINE b == x[2]
           m == (a - 1) * SLOTS + b
<1>7. b \in 1..SLOTS /\ x = <<s[a], b>>
  BY <1>5, <1>6, PlaceFacts
<1>8. m \in 1..n /\ Loc(s, m) = x
  BY <1>2, <1>7, LocFacts
<1> HIDE DEF slots, r, name
<1>9. ASSUME NEW j \in 1..m PROVE At(d, slots[j]) # END
  <2>1. j \in 1..n /\ m \in Nat
    BY <1>8, <1>2, Constants
  <2> HIDE DEF n
  <2>2. slots[j] = Loc(s, j)
    BY <1>3, <2>1
  <2>3. PICK e \in 1..Len(s), f \in 1..SLOTS : j = (e - 1) * SLOTS + f /\ Loc(s, j) = <<s[e], f>>
    <3>1. j \in 1..Len(s) * SLOTS
      BY <2>1 DEF n
    <3> HIDE DEF s
    <3> QED
      BY <1>2, <3>1, LocFacts
  <2>4. a \in Nat /\ e \in Nat
    BY <1>2
  <2>5. (e - 1) * SLOTS + f <= (a - 1) * SLOTS + b
    BY <2>1, <2>3
  <2>6. Before(e, f, a, b)
    BY <1>7, <2>4, <2>5, BeforeIs
  <2>7. <<s[a], b>> \in Used(d)
    BY <1>7
  <2> HIDE DEF s, b
  <2>8. At(d, <<s[e], f>>) # END
    BY <1>1, <1>7, <2>6, <2>7 DEF Order
  <2> QED
    BY <2>2, <2>3, <2>8
<1>10. slots[m] = x /\ Match(d, x, name)
  BY <1>3, <1>5, <1>8 DEF Match, name
<1>11. r.found
  <2> SUFFICES ASSUME ~r.found PROVE FALSE
    OBVIOUS
  <2> HIDE DEF m, n
  <2>1. ~Match(d, slots[m], name)
    BY <1>3, <1>4, <1>8, <1>9, SearchMissed
  <2> QED
    BY <1>10, <2>1
<1>12. r.de \in Used(d) /\ r.entry = At(d, r.de) /\ home[r.de] = Append(home[k], name)
  BY <1>5, <1>11, LookFound DEF r
<1>13. r.de = x
  BY <1>1, <1>12 DEF Tree, name
<1> QED
  BY <1>11, <1>12, <1>13 DEF r, name, s

\* A path is resolved name by name.
LEMMA ResolveStep ==
  ASSUME NEW d, NEW S, NEW p \in Seq(S), NEW x \in S
  PROVE  /\ fat32_resolve(d, Append(p, x)) = Below(d, fat32_resolve(d, p), x)
         /\ fat32_resolve(d, <<>>) = FoundRoot
<1> DEFINE u == Append(p, x)
           n == Len(p)
<1>1. /\ n \in Nat /\ u \in Seq(S) /\ Len(u) = n + 1 /\ u[n + 1] = x
      /\ \A i \in 1..n : u[i] = p[i]
  BY AppendProperties, SeqElement
<1>2. PICK f : /\ f[0] = FoundRoot
               /\ \A k \in 1..n : f[k] = Below(d, f[k - 1], p[k])
               /\ fat32_resolve(d, p) = f[n]
  BY <1>1, ResolveRuns
<1> HIDE DEF u
<1>3. Len(u) \in Nat
  BY <1>1
<1>4. PICK g : /\ g[0] = FoundRoot
               /\ \A k \in 1..Len(u) : g[k] = Below(d, g[k - 1], u[k])
               /\ fat32_resolve(d, u) = g[Len(u)]
  BY <1>3, ResolveRuns
<1> HIDE DEF n
<1> DEFINE T == {k \in 0..n : f[k] = g[k]}
<1>5. 0 \in T
  BY <1>1, <1>2, <1>4
<1>6. \A k \in 1..n : k - 1 \in T => k \in T
  <2> TAKE k \in 1..n
  <2> HAVE k - 1 \in T
  <2>1. k \in 1..Len(u) /\ u[k] = p[k] /\ f[k - 1] = g[k - 1] /\ k \in 0..n
    BY <1>1
  <2>2. g[k] = Below(d, g[k - 1], u[k]) /\ f[k] = Below(d, f[k - 1], p[k])
    BY <1>2, <1>4, <2>1
  <2> QED
    BY <2>1, <2>2
<1>7. f[n] = g[n]
  <2> HIDE DEF T
  <2>1. 0..n \subseteq T
    BY <1>1, <1>5, <1>6, RangeInduction
  <2> QED
    BY <1>1, <2>1 DEF T
<1>8. fat32_resolve(d, u) = Below(d, g[n], x)
  <2>1. n + 1 \in 1..Len(u) /\ (n + 1) - 1 = n
    BY <1>1
  <2> QED
    BY <1>1, <1>4, <2>1
<1>9. fat32_resolve(d, <<>>) = FoundRoot
  <2> DEFINE q == <<>>
  <2>1. Len(q) = 0 /\ Len(q) \in Nat
    BY EmptySeq
  <2> HIDE DEF q
  <2>2. fat32_resolve(d, q) = FoundRoot
    BY <2>1, ResolveRuns
  <2> QED
    BY <2>2 DEF q
<1> QED
  BY <1>2, <1>7, <1>8, <1>9 DEF u, n

\* What an answer stands for.
Stands(d, home, path, r) ==
  r.found => /\ home[r.de] = path
             /\ \/ r = FoundRoot
                \/ r.de \in Used(d) /\ r.entry = At(d, r.de)

\* A directory that is found.
LEMMA StandsFolder ==
  ASSUME NEW d, NEW ch, NEW home, NEW w, Vol(d, ch, home, w), NEW path, NEW r,
         Stands(d, home, path, r), r.found, r.entry.dir
  PROVE  r.de \in Folder(d) /\ r.entry.first = First(ch[r.de]) /\ home[r.de] = path
<1>1. CASE r = FoundRoot
  <2>1. r.de = ROOT
    BY <1>1 DEF FoundRoot, ROOT
  <2>2. r.entry.first = root_cluster
    BY <1>1 DEF FoundRoot, Dirent
  <2> QED
    BY <2>1, <2>2 DEF Stands, Vol, Folder
<1>2. CASE r.de \in Used(d) /\ r.entry = At(d, r.de)
  <2>1. r.de \in Folder(d)
    BY <1>2 DEF Folder
  <2>2. Tells(d, ch, r.de)
    BY <1>2 DEF Vol, Told
  <2> QED
    BY <1>2, <2>1, <2>2 DEF Tells, Stands
<1> QED
  BY <1>1, <1>2 DEF Stands

\* The root directory is found.
LEMMA StandsRoot ==
  ASSUME NEW d, NEW ch, NEW home, Tree(d, ch, home)
  PROVE  Stands(d, home, <<>>, FoundRoot) /\ FoundRoot.found /\ FoundRoot.entry.dir /\ FoundRoot.de = ROOT
<1>1. FoundRoot.found /\ FoundRoot.de = ROOT
  BY DEF FoundRoot, ROOT
<1>2. FoundRoot.entry.dir
  BY DEF FoundRoot, Dirent
<1>3. home[ROOT] = <<>>
  BY DEF Tree
<1>4. Stands(d, home, <<>>, FoundRoot)
  BY <1>1, <1>3 DEF Stands
<1> QED
  BY <1>1, <1>2, <1>4

\* A dotless path that is found leads where it says.
LEMMA ResolveSound ==
  ASSUME NEW d, NEW ch, NEW home, NEW w, Vol(d, ch, home, w),
         NEW path \in Seq(Names), \A i \in 1..Len(path) : path[i] \notin Dots
  PROVE  Stands(d, home, path, fat32_resolve(d, path))
<1> DEFINE n == Len(path)
           part(k) == SubSeq(path, 1, k)
<1>1. n \in Nat /\ Tree(d, ch, home)
  BY SeqElement DEF Vol
<1>2. PICK p : /\ p[0] = FoundRoot
               /\ \A k \in 1..n : p[k] = Below(d, p[k - 1], path[k])
               /\ fat32_resolve(d, path) = p[n]
  BY <1>1, ResolveRuns
<1> DEFINE T == {k \in 0..n : Stands(d, home, part(k), p[k])}
<1>3. 0 \in T
  <2>1. part(0) = <<>>
    <3>1. 0 \in 0..Len(path)
      BY <1>1
    <3>2. part(0) \in Seq(Names) /\ Len(part(0)) = 0
      BY <3>1, HeadPart
    <3> HIDE DEF part
    <3> QED
      BY <3>2, SeqElement
  <2>2. Stands(d, home, <<>>, p[0])
    BY <1>1, <1>2, StandsRoot
  <2> QED
    <3>1. 0 \in 0..n
      BY <1>1
    <3>2. Stands(d, home, part(0), p[0])
      BY <2>1, <2>2
    <3> HIDE DEF n, part
    <3> QED
      BY <3>1, <3>2
<1>4. \A k \in 1..n : k - 1 \in T => k \in T
  <2> TAKE k \in 1..n
  <2> HAVE k - 1 \in T
  <2> DEFINE r == p[k - 1]
             q == p[k]
  <2>1. Stands(d, home, part(k - 1), r) /\ q = Below(d, r, path[k]) /\ k \in 0..n
    BY <1>1, <1>2
  <2> HIDE DEF r, q, part
  <2> SUFFICES ASSUME q.found PROVE Stands(d, home, part(k), q)
    BY <2>1 DEF q, Stands
  <2>2. r.found /\ r.entry.dir /\ q = find_in_dir(d, r.entry.first, path[k])
    BY <2>1 DEF Below, NOTFOUND
  <2>3. r.de \in Folder(d) /\ r.entry.first = First(ch[r.de]) /\ home[r.de] = part(k - 1)
    BY <2>1, <2>2, StandsFolder
  <2> DEFINE f == r.de
  <2> HIDE DEF f
  <2>4. f \in Folder(d) /\ q = find_in_dir(d, First(ch[f]), path[k]) /\ home[f] = part(k - 1)
    BY <2>2, <2>3 DEF f
  <2>5. path[k] \notin Dots
    OBVIOUS
  <2>6. q.de \in Used(d) /\ q.entry = At(d, q.de) /\ home[q.de] = Append(part(k - 1), path[k])
    BY <2>4, <2>5, LookFound
  <2>7. Append(part(k - 1), path[k]) = part(k)
    BY AppendPart DEF part
  <2> QED
    BY <2>6, <2>7 DEF Stands
<1>5. n \in T
  <2> HIDE DEF T
  <2>1. 0..n \subseteq T
    BY <1>1, <1>3, <1>4, RangeInduction
  <2> QED
    BY <1>1, <2>1
<1>6. part(n) = path
  BY SubSeqFull
<1> QED
  BY <1>2, <1>5, <1>6

\* The path of an entry is found.
LEMMA ResolveFinds ==
  ASSUME NEW d, NEW ch, NEW home, NEW w, Vol(d, ch, home, w), NEW x \in Used(d)
  PROVE  LET r == fat32_resolve(d, home[x]) IN r.found /\ r.de = x /\ r.entry = At(d, x)
<1> DEFINE Finds(y) == LET r == fat32_resolve(d, home[y]) IN r.found /\ r.de = y /\ r.entry = At(d, y)
           n == Len(home[x])
           T == {k \in 0..n : \A y \in Used(d) : Len(home[y]) <= k => Finds(y)}
<1>1. /\ Tree(d, ch, home) /\ Sectors(d)
      /\ home \in [Key -> Seq(Names)] /\ home[ROOT] = <<>>
      /\ \A y \in Used(d) : home[y] \in Seq(Names) /\ Len(home[y]) \in Nat
  <2>1. Tree(d, ch, home) /\ Sectors(d)
    BY DEF Vol
  <2>2. \A y \in Used(d) : y \in Key
    BY <2>1, UsedFacts
  <2>3. home \in [Key -> Seq(Names)] /\ home[ROOT] = <<>>
    BY <2>1 DEF Tree
  <2>4. \A y \in Used(d) : home[y] \in Seq(Names)
    BY <2>2, <2>3
  <2> QED
    BY <2>1, <2>3, <2>4, SeqElement
<1>2. ASSUME NEW y \in Used(d)
      PROVE  \E k \in Folder(d) : /\ In(ch, y, k) /\ home[y] = Append(home[k], At(d, y).name)
                                  /\ home[k] \in Seq(Names) /\ Len(home[k]) = Len(home[y]) - 1
                                  /\ At(d, y).name \in Names
  <2>1. PICK k \in Folder(d) : In(ch, y, k) /\ home[y] = Append(home[k], At(d, y).name)
    BY <1>1 DEF Tree
  <2>2. k \in Key /\ At(d, y).name \in Names
    BY <1>1, FolderFacts, UsedFacts
  <2>3. home[k] \in Seq(Names)
    BY <1>1, <2>2
  <2>4. Len(home[k]) \in Nat /\ Len(Append(home[k], At(d, y).name)) = Len(home[k]) + 1
    BY <2>2, <2>3, SeqElement, AppendProperties
  <2>5. Len(home[k]) = Len(home[y]) - 1
    BY <2>1, <2>4
  <2> QED
    BY <2>1, <2>2, <2>3, <2>5
<1>3. 0 \in T
  <2>1. \A y \in Used(d) : ~(Len(home[y]) <= 0)
    <3> SUFFICES ASSUME NEW y \in Used(d) PROVE Len(home[y]) >= 1
      BY <1>1
    <3>1. PICK k \in Folder(d) : home[k] \in Seq(Names) /\ Len(home[k]) = Len(home[y]) - 1
      BY <1>2
    <3>2. Len(home[k]) \in Nat
      BY <3>1, SeqElement
    <3> QED
      BY <1>1, <3>1, <3>2
  <2>2. n \in Nat
    BY <1>1
  <2> HIDE DEF Finds
  <2> QED
    BY <2>1, <2>2
<1>4. \A m \in 1..n : m - 1 \in T => m \in T
  <2> TAKE m \in 1..n
  <2> HAVE m - 1 \in T
  <2>1. m \in 0..n /\ \A y \in Used(d) : Len(home[y]) <= m - 1 => Finds(y)
    BY <1>1
  <2> SUFFICES ASSUME NEW y \in Used(d), Len(home[y]) <= m PROVE Finds(y)
    BY <2>1
  <2>2. PICK k \in Folder(d) : /\ In(ch, y, k) /\ home[y] = Append(home[k], At(d, y).name)
                               /\ home[k] \in Seq(Names) /\ Len(home[k]) = Len(home[y]) - 1
                               /\ At(d, y).name \in Names
    BY <1>2
  <2> DEFINE r == fat32_resolve(d, home[k])
             name == At(d, y).name
  <2>3. r.found /\ r.entry.dir /\ r.entry.first = First(ch[k])
    <3>1. CASE k = ROOT
      <4>1. r = FoundRoot
        BY <1>1, <2>2, <3>1, ResolveStep
      <4>2. Stands(d, home, <<>>, r) /\ r.found /\ r.entry.dir /\ r.de = k
        BY <1>1, <3>1, <4>1, StandsRoot
      <4> HIDE DEF r
      <4>3. r.entry.first = First(ch[r.de])
        BY <4>2, StandsFolder
      <4> QED
        BY <4>2, <4>3
    <3>2. CASE k # ROOT
      <4>1. k \in Used(d) /\ At(d, k).dir
        BY <1>1, <3>2, FolderFacts
      <4>2. Len(home[k]) <= m - 1
        BY <1>1, <2>2
      <4>3. Finds(k)
        BY <2>1, <4>1, <4>2
      <4>4. Tells(d, ch, k)
        BY <4>1 DEF Vol, Told
      <4> QED
        BY <4>1, <4>3, <4>4 DEF Tells
    <3> QED
      BY <3>1, <3>2
  <2>4. fat32_resolve(d, home[y]) = Below(d, r, name)
    BY <2>2, ResolveStep
  <2> HIDE DEF r
  <2>5. fat32_resolve(d, home[y]) = find_in_dir(d, First(ch[k]), name)
    BY <2>3, <2>4 DEF Below
  <2>6. LET q == find_in_dir(d, First(ch[k]), name) IN q.found /\ q.de = y /\ q.entry = At(d, y)
    BY <2>2, LookFinds
  <2> QED
    BY <2>5, <2>6
<1>5. Finds(x)
  <2>1. n \in Nat
    BY <1>1
  <2> HIDE DEF T, n, Finds
  <2>2. 0..n \subseteq T
    BY <1>3, <1>4, <2>1, RangeInduction
  <2>3. n \in T
    BY <2>1, <2>2
  <2>4. \A y \in Used(d) : Len(home[y]) <= n => Finds(y)
    BY <2>3 DEF T
  <2>5. Len(home[x]) <= n
    BY <2>1 DEF n
  <2> QED
    BY <2>4, <2>5
<1> QED
  BY <1>5

\* The paths of clients.
LEMMA PathFacts ==
  ASSUME NEW path \in Path
  PROVE  /\ path \in Seq(Names) /\ path # <<>> /\ \A i \in 1..Len(path) : path[i] \notin Dots
         /\ Front(path) \in Seq(Names) /\ \A i \in 1..Len(Front(path)) : Front(path)[i] \notin Dots
         /\ Last(path) \in Names \ Dots /\ path = Append(Front(path), Last(path))
<1>1. path # <<>> /\ path \in Seq(Range(path) \ Dots)
  BY Fat32Assumption
<1>2. Range(path) \subseteq Names
  BY DEF Names
<1> DEFINE S == Names \ Dots
           n == Len(path)
           f == SubSeq(path, 1, n - 1)
<1>3. n \in Nat /\ n # 0 /\ \A i \in 1..n : path[i] \in S
  BY <1>1, <1>2, SeqElement
<1>4. path \in Seq(S)
  BY <1>1, <1>3
<1>5. n \in 1..n /\ n - 1 \in 0..n
  BY <1>3
<1>6. f \in Seq(S) /\ path[n] \in S /\ Append(f, path[n]) = SubSeq(path, 1, n)
  BY <1>4, <1>5, AppendPart
<1>7. SubSeq(path, 1, n) = path
  BY <1>4, SubSeqFull
<1>8. Front(path) = f /\ Last(path) = path[n]
  BY DEF Front, Last
<1> HIDE DEF f
<1>9. Len(f) \in Nat /\ \A i \in 1..Len(f) : f[i] \in S
  BY <1>6, SeqElement
<1>10. f \in Seq(Names) /\ path \in Seq(Names)
  BY <1>3, <1>4, <1>6, <1>9
<1> QED
  BY <1>1, <1>3, <1>6, <1>7, <1>8, <1>9, <1>10

\* A path that is found.
LEMMA PathFound ==
  ASSUME NEW d, NEW ch, NEW home, NEW w, Vol(d, ch, home, w), NEW path \in Path,
         fat32_resolve(d, path).found
  PROVE  LET r == fat32_resolve(d, path)
         IN  r.de \in Used(d) /\ r.entry = At(d, r.de) /\ home[r.de] = path
<1> DEFINE r == fat32_resolve(d, path)
<1>1. /\ path \in Seq(Names) /\ path # <<>> /\ \A i \in 1..Len(path) : path[i] \notin Dots
  BY PathFacts
<1>2. Stands(d, home, path, r)
  BY <1>1, ResolveSound
<1> HIDE DEF r
<1>3. r # FoundRoot
  <2>1. home[ROOT] = <<>> /\ FoundRoot.de = ROOT
    <3>1. Tree(d, ch, home)
      BY DEF Vol
    <3>2. FoundRoot.de = ROOT
      BY DEF FoundRoot, ROOT
    <3> QED
      BY <3>1, <3>2 DEF Tree
  <2> QED
    BY <1>1, <1>2, <2>1 DEF Stands, r
<1> QED
  BY <1>2, <1>3 DEF Stands, r

\* A path that is not found is no entry's.
LEMMA PathMissed ==
  ASSUME NEW d, NEW ch, NEW home, NEW w, Vol(d, ch, home, w), NEW path,
         ~fat32_resolve(d, path).found, NEW x \in Used(d)
  PROVE  home[x] # path
BY ResolveFinds

\* The directory that a path is in.
LEMMA ParentIs ==
  ASSUME NEW d, NEW ch, NEW home, NEW w, Vol(d, ch, home, w), NEW path \in Path,
         path_parent_cluster(d, path) # 0
  PROVE  \E k \in Folder(d) : /\ First(ch[k]) = path_parent_cluster(d, path)
                              /\ path = Append(home[k], Last(path))
<1> DEFINE f == Front(path)
           r == fat32_resolve(d, f)
<1>1. /\ f \in Seq(Names) /\ \A i \in 1..Len(f) : f[i] \notin Dots
      /\ path = Append(f, Last(path))
  BY PathFacts
<1>2. path_parent_cluster(d, path) = IF r.found /\ r.entry.dir THEN r.entry.first ELSE 0
  BY DEF path_parent_cluster
<1> HIDE DEF f
<1>3. Stands(d, home, f, r)
  BY <1>1, ResolveSound
<1> HIDE DEF r
<1>4. r.found /\ r.entry.dir /\ path_parent_cluster(d, path) = r.entry.first
  BY <1>2
<1>5. r.de \in Folder(d) /\ r.entry.first = First(ch[r.de]) /\ home[r.de] = f
  BY <1>3, <1>4, StandsFolder
<1> QED
  BY <1>1, <1>4, <1>5

------------------------------------------------------------------------------
\* Adding an entry.

\* What happens to the chains of others: they may grow.
Grows(s, u) == First(s) = First(u) /\ Len(s) <= Len(u) /\ \A i \in 1..Len(s) : u[i] = s[i]

\* From d to e all entries but those in X stay, and their chains at most grow.
Keeps(d, ch, e, ch2, X) ==
  \A x \in Used(d) \ X : x \in Used(e) /\ At(e, x) = At(d, x) /\ Grows(ch[x], ch2[x])

\* Chains grow into themselves, and on.
LEMMA GrowsOn ==
  /\ \A s \in Seq(Cluster) : Grows(s, s)
  /\ \A s, u, v \in Seq(Cluster) : Grows(s, u) /\ Grows(u, v) => Grows(s, v)
<1>1. \A s \in Seq(Cluster) : Len(s) \in Nat
  BY SeqElement
<1>2. \A s \in Seq(Cluster) : Grows(s, s)
  BY <1>1 DEF Grows
<1>3. ASSUME NEW s \in Seq(Cluster), NEW u \in Seq(Cluster), NEW v \in Seq(Cluster),
             Grows(s, u), Grows(u, v)
      PROVE  Grows(s, v)
  <2>1. Len(s) \in Nat /\ Len(u) \in Nat /\ Len(v) \in Nat
    BY <1>1
  <2>2. \A i \in 1..Len(s) : i \in 1..Len(u)
    BY <1>3, <2>1 DEF Grows
  <2> QED
    BY <1>3, <2>1, <2>2 DEF Grows
<1> QED
  BY <1>2, <1>3

\* What keeps the entries twice keeps them.
LEMMA KeepsOn ==
  ASSUME NEW d, NEW ch \in Chains, NEW e, NEW ch2 \in Chains, NEW f, NEW ch3 \in Chains, NEW X,
         Keeps(d, ch, e, ch2, X), Keeps(e, ch2, f, ch3, X)
  PROVE  Keeps(d, ch, f, ch3, X)
<1> SUFFICES ASSUME NEW x \in Used(d) \ X
             PROVE  x \in Used(f) /\ At(f, x) = At(d, x) /\ Grows(ch[x], ch3[x])
  BY DEF Keeps
<1>1. x \in Used(e) \ X /\ At(e, x) = At(d, x) /\ Grows(ch[x], ch2[x])
  BY DEF Keeps
<1>2. x \in Used(f) /\ At(f, x) = At(e, x) /\ Grows(ch2[x], ch3[x])
  BY <1>1 DEF Keeps
<1>3. x \in Key
  BY KeyFacts DEF Used
<1>4. ch[x] \in Seq(Cluster) /\ ch2[x] \in Seq(Cluster) /\ ch3[x] \in Seq(Cluster)
  BY <1>3 DEF Chains
<1> QED
  BY <1>1, <1>2, <1>4, GrowsOn

\* The same entries with the same chains.
LEMMA KeepsSame ==
  ASSUME NEW d, NEW ch \in Chains, NEW e, NEW ch2 \in Chains, NEW X,
         \A x \in Used(d) \ X : x \in Used(e) /\ At(e, x) = At(d, x) /\ ch2[x] = ch[x]
  PROVE  Keeps(d, ch, e, ch2, X)
<1>1. \A x \in Used(d) : x \in Key
  BY KeyFacts DEF Used
<1>2. \A x \in Used(d) : Grows(ch[x], ch[x])
  BY <1>1, GrowsOn DEF Chains
<1> QED
  BY <1>2 DEF Keeps

\* A sector of ends.
LEMMA ZeroesQuiet ==
  /\ Quiet(Zeroes) /\ Zeroes.kind = "dir"
  /\ \A d, c, j : d.sec[c] = Zeroes /\ c \in Cluster /\ j \in 1..SLOTS =>
       At(d, <<c, j>>) = END
<1> DEFINE f == [i \in 1..SLOTS |-> END]
<1>1. SlotsOK(f) /\ \A i \in 1..SLOTS : f[i] = END
  BY SlotFacts DEF SlotsOK
<1>2. Zeroes = Slots(f)
  BY DEF Zeroes
<1> HIDE DEF f
<1>3. Zeroes.kind = "dir" /\ Zeroes.slot = f /\ SectorOK(Zeroes)
  BY <1>1, <1>2, SectorFacts
<1>4. \A j \in 1..SLOTS : ~Entry(Zeroes.slot[j])
  BY <1>1, <1>3, SlotFacts
<1>5. ASSUME NEW d, NEW c \in Cluster, NEW j \in 1..SLOTS, d.sec[c] = Zeroes
      PROVE  At(d, <<c, j>>) = END
  <2> DEFINE x == <<c, j>>
  <2>1. x[1] = c /\ x[2] = j
    OBVIOUS
  <2> HIDE DEF x
  <2>2. At(d, x) = END
    BY <1>1, <1>3, <1>5, <2>1 DEF At
  <2> QED
    BY <2>2 DEF x
<1> QED
  BY <1>3, <1>4, <1>5 DEF Quiet

\* A chain of a bare cluster is linked behind the chain of a directory.
LEMMA VolExtend ==
  ASSUME NEW d, NEW ch, NEW home, NEW w, Vol(d, ch, home, w),
         NEW k \in Folder(d), ch[k] # <<>>, NEW c \in Cluster, ch[MORE] = <<c>>,
         d.sec[c].kind = "dir",
         NEW e, PlainDisk(e), e.sec = d.sec, e.fat = Put(d.fat, ch[k][Len(ch[k])], c)
  PROVE  LET ch2 == Put(Put(ch, k, Append(ch[k], c)), MORE, <<>>)
         IN  /\ Vol(e, ch2, home, w) /\ Used(e) = Used(d) /\ Folder(e) = Folder(d)
             /\ \A x : At(e, x) = At(d, x)
             /\ ch2[k] = Append(ch[k], c) /\ Len(ch2[k]) = Len(ch[k]) + 1
             /\ ch2[k][Len(ch[k]) + 1] = c /\ \A i \in 1..Len(ch[k]) : ch2[k][i] = ch[k][i]
             /\ \A x \in Key : x # k /\ x # MORE => ch2[x] = ch[x]
             /\ Keeps(d, ch, e, ch2, {})
<1> DEFINE q == <<>>
           s == ch[k]
           u == Append(s, c)
           mid == Put(ch, k, u)
           ch2 == Put(mid, MORE, q)
<1>1. /\ Sectors(d) /\ ch \in Chains /\ Laid(d.fat, ch) /\ DOMAIN ch = Key /\ k \in Key
      /\ k # MORE /\ k # SPARE /\ d.fat \in Fats /\ MORE \in Key /\ MORE \notin Used(d)
      /\ MORE \notin Folder(d)
  BY FolderFacts, KeyFacts DEF Vol, Chains, PlainDisk, Used
<1>2. /\ Laid(e.fat, ch2)
      /\ u \in Seq(Cluster) /\ Len(u) = Len(s) + 1
      /\ \A i \in 1..Len(s) : u[i] = s[i]
      /\ u[Len(s) + 1] = c
  <2> DEFINE m == MORE
             fat == d.fat
  <2> HIDE DEF m, fat
  <2>1. /\ fat \in Fats /\ Laid(fat, ch) /\ k \in DOMAIN ch /\ m \in DOMAIN ch /\ m # k
        /\ ch[k] # <<>> /\ c \in Cluster /\ ch[m] = <<c>>
    BY <1>1 DEF m, fat
  <2>2. /\ Laid(Put(fat, ch[k][Len(ch[k])], c), Put(Put(ch, k, Append(ch[k], c)), m, <<>>))
        /\ Append(ch[k], c) \in Seq(Cluster) /\ Len(Append(ch[k], c)) = Len(ch[k]) + 1
        /\ \A i \in 1..Len(ch[k]) : Append(ch[k], c)[i] = ch[k][i]
        /\ Append(ch[k], c)[Len(ch[k]) + 1] = c
    BY <2>1, LaidJoin
  <2> QED
    BY <2>2 DEF m, fat
<1>3. s \in Seq(Cluster) /\ Len(s) \in Nat /\ Len(s) >= 1 /\ q \in Seq(Cluster)
  <2>1. s \in Seq(Cluster)
    BY <1>1 DEF Chains
  <2> QED
    BY <2>1, SeqElement, EmptySeq
<1> HIDE DEF q, u
<1>4. mid \in Chains /\ mid[k] = u /\ \A x \in Key : x # k => mid[x] = ch[x]
  BY <1>1, <1>2, PutChains
<1> HIDE DEF mid
<1>5. /\ ch2 \in Chains /\ ch2[k] = u
      /\ \A x \in Key : x # k /\ x # MORE => ch2[x] = ch[x]
  BY <1>1, <1>3, <1>4, PutChains
<1> HIDE DEF ch2
<1>6. /\ \A x : At(e, x) = At(d, x)
      /\ Used(e) = Used(d) /\ Folder(e) = Folder(d) /\ Sectors(e)
  BY <1>1, SameSectors
<1>7. First(u) = First(s)
  <2>1. s # <<>> /\ u # <<>> /\ u[1] = s[1]
    BY <1>2, <1>3, EmptySeq
  <2> QED
    BY <2>1 DEF First
<1>8. \A x \in Used(d) : x \in Key /\ Grows(ch[x], ch2[x])
  <2> SUFFICES ASSUME NEW x \in Used(d) PROVE x \in Key /\ Grows(ch[x], ch2[x])
    OBVIOUS
  <2>1. x \in Key /\ x # MORE
    BY <1>1, UsedFacts
  <2>2. CASE x = k
    BY <1>2, <1>3, <1>5, <1>7, <2>1, <2>2 DEF Grows
  <2>3. CASE x # k
    <3>1. ch2[x] = ch[x] /\ ch[x] \in Seq(Cluster)
      BY <1>1, <1>5, <2>1, <2>3 DEF Chains
    <3> QED
      BY <2>1, <3>1, GrowsOn
  <2> QED
    BY <2>2, <2>3
<1>9. Keeps(d, ch, e, ch2, {})
  BY <1>6, <1>8 DEF Keeps
<1>10. First(ch2[ROOT]) = root_cluster
  <2>1. First(ch[ROOT]) = root_cluster /\ ROOT # MORE /\ ROOT \in Key
    BY KeyFacts DEF Vol
  <2> QED
    BY <1>5, <1>7, <2>1 DEF s
<1>11. Told(e, ch2, w)
  <2> SUFFICES ASSUME NEW x \in Used(d), Tells(d, ch, x) PROVE Tells(e, ch2, x)
    BY <1>6 DEF Told, Vol
  <2>1. Grows(ch[x], ch2[x]) /\ ch[x] \in Seq(Cluster) /\ ch2[x] \in Seq(Cluster)
    BY <1>1, <1>5, <1>8 DEF Chains
  <2>2. Len(ch[x]) \in Nat /\ Len(ch2[x]) \in Nat
    BY <2>1, SeqElement
  <2> DEFINE a == Len(ch[x])
             b == Len(ch2[x])
             z == At(d, x).size
  <2> HIDE DEF a, b, z
  <2>3. a \in Nat /\ b \in Nat /\ a <= b /\ z \in Nat /\ z <= a * SECTOR
    BY <2>1, <2>2 DEF a, b, z, Grows, Tells
  <2>4. a * SECTOR <= b * SECTOR /\ a * SECTOR \in Int /\ b * SECTOR \in Int
    BY <2>3, Constants
  <2>5. z <= b * SECTOR
    BY <2>3, <2>4
  <2> QED
    BY <1>6, <2>1, <2>3, <2>5 DEF Tells, Grows, b, z
<1>12. Housed(e, ch2)
  <2> SUFFICES ASSUME NEW f \in Folder(d)
               PROVE  /\ \A i \in 1..Len(ch2[f]) : d.sec[ch2[f][i]].kind = "dir"
                      /\ Order(e, ch2[f])
    BY <1>6 DEF Housed
  <2>1. Order(d, ch[f]) /\ \A i \in 1..Len(ch[f]) : d.sec[ch[f][i]].kind = "dir"
    BY DEF Vol, Housed
  <2>2. f \in Key /\ f # MORE
    BY <1>1, FolderFacts
  <2>3. CASE f # k
    BY <1>5, <1>6, <2>1, <2>2, <2>3 DEF Order
  <2>4. CASE f = k
    <3>1. ch2[f] = u
      BY <1>5, <2>4
    <3>2. \A i \in 1..Len(u) : i \in 1..Len(s) \/ i = Len(s) + 1
      BY <1>2, <1>3
    <3>3. \A i \in 1..Len(u) : d.sec[u[i]].kind = "dir"
      BY <1>2, <2>1, <2>4, <3>2 DEF s
    <3>4. \A j \in 1..SLOTS : <<c, j>> \notin Used(d)
      <4>1. ch[MORE][1] = c /\ 1 \in 1..Len(ch[MORE])
        BY OneCluster
      <4>2. \A y \in Used(d) : y[1] # c
        BY <1>1, <4>1, EntryHome
      <4> QED
        BY <4>2, PlaceFacts
    <3>5. Order(d, u)
      <4> SUFFICES ASSUME NEW a \in 1..Len(u), NEW i \in 1..Len(u),
                          NEW b \in 1..SLOTS, NEW j \in 1..SLOTS,
                          Before(a, b, i, j), At(d, <<u[a], b>>) = END
                   PROVE  <<u[i], j>> \notin Used(d)
        BY DEF Order
      <4>1. CASE i = Len(s) + 1
        BY <1>2, <3>4, <4>1
      <4>2. CASE i # Len(s) + 1
        <5>1. i \in 1..Len(s)
          BY <3>2, <4>2
        <5>2. a \in 1..Len(s)
          BY <1>2, <1>3, <5>1 DEF Before
        <5>3. u[a] = s[a] /\ u[i] = s[i]
          BY <1>2, <5>1, <5>2
        <5>4. Order(d, s)
          BY <2>1, <2>4
        <5> QED
          BY <5>1, <5>2, <5>3, <5>4 DEF Order
      <4> QED
        BY <4>1, <4>2
    <3>6. Order(e, u)
      BY <1>6, <3>5 DEF Order
    <3> QED
      BY <3>1, <3>3, <3>6
  <2> QED
    BY <2>3, <2>4
<1>13. Tree(e, ch2, home)
  <2>1. Tree(d, ch, home)
    BY DEF Vol
  <2>2. \A x \in Used(d) : \A f \in Folder(d) : In(ch, x, f) => In(ch2, x, f)
    <3> SUFFICES ASSUME NEW x \in Used(d), NEW f \in Folder(d), In(ch, x, f) PROVE In(ch2, x, f)
      OBVIOUS
    <3>1. f \in Key /\ f # MORE
      BY <1>1, FolderFacts
    <3>2. PICK i \in 1..Len(ch[f]) : ch[f][i] = x[1]
      BY DEF In
    <3>3. CASE f = k
      <4>1. i \in 1..Len(u) /\ u[i] = x[1]
        BY <1>2, <1>3, <3>2, <3>3 DEF s
      <4> QED
        BY <1>5, <3>3, <4>1 DEF In
    <3>4. CASE f # k
      BY <1>5, <3>1, <3>2, <3>4 DEF In
    <3> QED
      BY <3>3, <3>4
  <2> QED
    BY <1>6, <2>1, <2>2 DEF Tree
<1>14. Vol(e, ch2, home, w)
  BY <1>2, <1>5, <1>6, <1>10, <1>11, <1>12, <1>13 DEF Vol
<1> QED
  BY <1>2, <1>5, <1>6, <1>9, <1>14 DEF ch2, mid, u, q, s

\* An entry v for the chain of y that may come to directory k.
Fits(d, ch, home, k, y, v) ==
  /\ k \in Folder(d) /\ ch[k] # <<>>
  /\ y \in Key \ {ROOT, MORE} /\ y \notin Used(d)
  /\ SlotOK(v) /\ v.mark = "used" /\ v.name \in Names \ Dots /\ v.dir \in BOOLEAN
  /\ v.first = First(ch[y]) /\ v.size \in Nat /\ v.size <= Len(ch[y]) * SECTOR
  /\ v.dir => y = SPARE /\ Bare(d, ch[y])
  /\ Append(home[k], v.name) \in Path
  /\ \A o \in Used(d) : home[o] # Append(home[k], v.name)

\* The first free slot of directory k: no end is in front of it.
FirstSpot(d, s, a, b) ==
  /\ a \in 1..Len(s) /\ b \in 1..SLOTS
  /\ At(d, <<s[a], b>>) \in {END, DELETED}
  /\ \A i \in 1..Len(s), j \in 1..SLOTS :
       Before(i, j, a, b) /\ At(d, <<s[i], j>>) = END => i = a /\ j = b

\* The first free slot is where the scan of the slots finds it, if there is one.
LEMMA FirstSpotIs ==
  ASSUME NEW d, NEW ch \in Chains, Laid(d.fat, ch), NEW k \in Key
  PROVE  LET slots == SlotsOf(d, First(ch[k]))
             free == FreeSlots(d, slots)
         IN  IF free = {}
             THEN \A i \in 1..Len(ch[k]), j \in 1..SLOTS : At(d, <<ch[k][i], j>>) \notin {END, DELETED}
             ELSE \E a, b : FirstSpot(d, ch[k], a, b) /\ slots[Min(free)] = <<ch[k][a], b>>
<1> DEFINE s == ch[k]
           slots == SlotsOf(d, First(s))
           free == FreeSlots(d, slots)
           n == Len(s) * SLOTS
           m == Min(free)
<1>1. s \in Seq(Cluster) /\ Len(s) \in Nat /\ k \in DOMAIN ch
  BY SeqElement DEF Chains
<1>2. DOMAIN slots = 1..n /\ \A j \in 1..n : slots[j] = Loc(s, j)
  BY <1>1, SlotsOfIs
<1>3. free \subseteq 1..n /\ \A j \in 1..n : j \in free <=> At(d, Loc(s, j)) \in {END, DELETED}
  BY <1>2 DEF FreeSlots
<1> HIDE DEF slots, free, s
<1>4. \A i \in 1..Len(s), j \in 1..SLOTS :
        LET x == (i - 1) * SLOTS + j
        IN  /\ x \in 1..n
            /\ x \in free <=> At(d, <<s[i], j>>) \in {END, DELETED}
  <2> TAKE i \in 1..Len(s), j \in 1..SLOTS
  <2> DEFINE x == (i - 1) * SLOTS + j
  <2>1. x \in 1..n /\ Loc(s, x) = <<s[i], j>>
    BY <1>1, LocFacts
  <2> HIDE DEF x, n
  <2>2. x \in 1..n /\ (x \in free <=> At(d, <<s[i], j>>) \in {END, DELETED})
    BY <1>3, <2>1
  <2> QED
    BY <2>2 DEF x
<1>5. CASE free = {}
  <2>1. \A i \in 1..Len(s), j \in 1..SLOTS : At(d, <<s[i], j>>) \notin {END, DELETED}
    BY <1>4, <1>5
  <2> QED
    BY <1>5, <2>1 DEF s, slots, free
<1>6. CASE free # {}
  <2>1. free \subseteq Nat
    BY <1>3
  <2>2. m \in free /\ \A x \in free : m <= x
    BY <1>6, <2>1, MinIs
  <2>3. m \in 1..n /\ slots[m] = Loc(s, m) /\ At(d, Loc(s, m)) \in {END, DELETED}
    BY <1>2, <1>3, <2>2
  <2> HIDE DEF m
  <2>4. PICK a \in 1..Len(s), b \in 1..SLOTS : m = (a - 1) * SLOTS + b /\ Loc(s, m) = <<s[a], b>>
    BY <1>1, <2>3, LocFacts
  <2>5. ASSUME NEW i \in 1..Len(s), NEW j \in 1..SLOTS, Before(i, j, a, b),
               At(d, <<s[i], j>>) = END
        PROVE  i = a /\ j = b
    <3> DEFINE x == (i - 1) * SLOTS + j
    <3>1. x \in 1..n /\ x \in free
      BY <1>4, <2>5
    <3>2. m <= x
      BY <2>2, <3>1
    <3>3. a \in Nat /\ i \in Nat /\ b \in Nat /\ j \in Nat
      BY <1>1, Constants
    <3>4. (a - 1) * SLOTS + b <= (i - 1) * SLOTS + j
      BY <2>4, <3>2
    <3>5. Before(a, b, i, j)
      BY <3>3, <3>4, BeforeIs
    <3> QED
      BY <2>5, <3>3, <3>5 DEF Before
  <2>6. FirstSpot(d, s, a, b)
    BY <2>3, <2>4, <2>5 DEF FirstSpot
  <2> QED
    BY <1>6, <2>3, <2>4, <2>6 DEF s, slots, free, m
<1> QED
  BY <1>5, <1>6

\* There is an entry that was not there, of path p.
New(d, e, home, p, dir) == \E x \in Used(e) \ Used(d) : home[x] = p /\ At(e, x).dir = dir

\* An entry in the first free slot.
LEMMA AddInPlace ==
  ASSUME NEW t, Hist(t), NEW ch, NEW home, NEW w, Vol(Last(t), ch, home, w),
         NEW k, NEW y, NEW v, Fits(Last(t), ch, home, k, y, v),
         NEW a, NEW b, FirstSpot(Last(t), ch[k], a, b)
  PROVE  LET u == PutSlot(t, <<ch[k][a], b>>, v)
         IN  /\ Hist(u)
             /\ \E ch2, home2 :
                  /\ Vol(Last(u), ch2, home2, w) /\ Keeps(Last(t), ch, Last(u), ch2, {})
                  /\ New(Last(t), Last(u), home2, Append(home[k], v.name), v.dir)
<1> DEFINE d == Last(t)
           x == <<ch[k][a], b>>
           u == PutSlot(t, x, v)
           e == Last(u)
           p == Append(home[k], v.name)
<1> HIDE DEF d
<1>1. Vol(d, ch, home, w) /\ Fits(d, ch, home, k, y, v) /\ FirstSpot(d, ch[k], a, b)
  BY DEF d
<1>2. /\ Sectors(d) /\ ch \in Chains /\ Laid(d.fat, ch) /\ k \in Folder(d) /\ k \in Key
      /\ k \in DOMAIN ch /\ Housed(d, ch)
  <2>1. Sectors(d) /\ ch \in Chains /\ Laid(d.fat, ch) /\ k \in Folder(d) /\ Housed(d, ch)
    BY <1>1 DEF Vol, Fits
  <2> QED
    BY <2>1, FolderFacts DEF Chains
<1>3. a \in 1..Len(ch[k]) /\ b \in 1..SLOTS
  BY <1>1 DEF FirstSpot
<1>4. ch[k][a] \in Cluster
  BY <1>2, <1>3, LaidFacts
<1>5. x \in Place /\ x[1] = ch[k][a] /\ d.sec[x[1]].kind = "dir"
  BY <1>2, <1>3, <1>4, PlaceFacts DEF Housed
<1>6. x \notin Used(d)
  BY <1>1, SlotFacts DEF FirstSpot, Used
<1> HIDE DEF u, x, p, e
<1>7. Hist(u) /\ SlotPut(d, e, x, v)
  BY <1>1, <1>2, <1>5, PutSlotIs DEF u, e, d, Fits
<1>8. y \in Key /\ y \notin Used(d) /\ (v.dir => y # x)
  BY <1>1, <1>5, KeyFacts DEF Fits
<1>11. Coming(d, ch, home, k, a, b, x, y, v, p)
  BY <1>1, <1>2, <1>3, <1>5, <1>6, <1>8 DEF Coming, Fits, FirstSpot, x, p
<1> DEFINE ch2 == Moved(ch, y, x)
           home2 == Put(home, x, p)
<1>12. /\ Vol(e, ch2, home2, w)
       /\ Used(e) = Used(d) \cup {x} /\ \A o \in Used(d) : At(e, o) = At(d, o) /\ o # x /\ o # y
  BY <1>1, <1>7, <1>11, VolAdd
<1>13. \A o \in Used(d) : ch2[o] = ch[o]
  <2>1. x \in Key /\ \A o \in Used(d) : o \in Key
    BY <1>5, KeyFacts DEF Used
  <2> QED
    BY <1>2, <1>8, <1>12, <2>1, MovedFacts
<1>17. home2[x] = p
  <2>1. x \in Key /\ DOMAIN home = Key
    BY <1>1, <1>5, KeyFacts DEF Vol, Tree
  <2> QED
    BY <2>1, PutFacts
<1>18. New(d, e, home2, p, v.dir)
  BY <1>6, <1>7, <1>12, <1>17 DEF New, SlotPut
<1> HIDE DEF ch2, home2
<1>14. ch2 \in Chains
  BY <1>12 DEF Vol
<1>15. Keeps(d, ch, e, ch2, {})
  BY <1>2, <1>12, <1>13, <1>14, KeepsSame
<1>16. Hist(u) /\ \E ch3, home3 : /\ Vol(e, ch3, home3, w) /\ Keeps(d, ch, e, ch3, {})
                                 /\ New(d, e, home3, p, v.dir)
  BY <1>7, <1>12, <1>15, <1>18
<1> QED
  BY <1>16 DEF u, e, x, d, p

\* A cluster for a chain of its own.
LEMMA AllocSound ==
  ASSUME NEW t, Hist(t), NEW ch, NEW home, NEW w, Vol(Last(t), ch, home, w),
         NEW x \in Key, x \notin Folder(Last(t)), x \in Used(Last(t)) => x \in w,
         NEW c, c = FirstFree(Last(t)), c # 0
  PROVE  LET u == fat_alloc_cluster(t)
             ch2 == Put(ch, x, <<c>>)
         IN  /\ Hist(u) /\ Vol(Last(u), ch2, home, w) /\ c \in Cluster
             /\ Last(u).sec = Last(t).sec /\ ch2[x] = <<c>>
             /\ \A y \in Key : y # x => ch2[y] = ch[y]
<1> DEFINE d == Last(t)
           u == fat_alloc_cluster(t)
           q == <<c>>
           ch2 == Put(ch, x, q)
           e == Last(u)
<1>1. /\ Hist(u) /\ c \in Cluster /\ d.fat[c] = 0
      /\ e.fat = Put(d.fat, c, EOC) /\ e.sec = d.sec
  BY AllocIs
<1> HIDE DEF d, u, e
<1>2. Vol(d, ch, home, w) /\ x \notin Folder(d) /\ (x \in Used(d) => x \in w)
  BY DEF d
<1>3. ch \in Chains /\ Laid(d.fat, ch) /\ DOMAIN ch = Key /\ d.fat \in Fats
  BY <1>2 DEF Vol, Chains, PlainDisk
<1>4. Laid(e.fat, ch2)
  BY <1>1, <1>3, LaidAlloc
<1>5. q \in Seq(Cluster)
  BY <1>1, OneCluster
<1> HIDE DEF q
<1>6. ch2 \in Chains /\ ch2[x] = q /\ \A y \in Key : y # x => ch2[y] = ch[y]
  BY <1>3, <1>5, PutChains
<1> HIDE DEF ch2
<1>7. PlainDisk(e)
  BY <1>1, HistFacts DEF e
<1>8. \A k \in Folder(d) : ch2[k] = ch[k]
  <2> SUFFICES ASSUME NEW k \in Folder(d) PROVE k \in Key /\ k # x
    BY <1>6
  <2> QED
    BY <1>2, FolderFacts DEF Vol
<1>9. \A y \in Used(d) : ch2[y] = ch[y] \/ y \in w
  <2>1. \A y \in Used(d) : y \in Key
    BY KeyFacts DEF Used
  <2> QED
    BY <1>2, <1>6, <2>1
<1>10. Vol(e, ch2, home, w)
  BY <1>1, <1>2, <1>4, <1>6, <1>7, <1>8, <1>9, VolFat
<1> QED
  BY <1>1, <1>6, <1>10 DEF d, u, e, ch2, q

\* A full directory is extended, and the entry put in front of its new cluster.
LEMMA AddExtending ==
  ASSUME NEW t, Hist(t), NEW ch, NEW home, NEW w, Vol(Last(t), ch, home, w),
         NEW k, NEW y, NEW v, Fits(Last(t), ch, home, k, y, v),
         \A i \in 1..Len(ch[k]), j \in 1..SLOTS :
           At(Last(t), <<ch[k][i], j>>) \notin {END, DELETED},
         NEW n, n = FirstFree(Last(t)), n # 0
  PROVE  LET t2 == fat_set_entry(fat_alloc_cluster(t), ch[k][Len(ch[k])], n)
             u == PutSlot(write_sector(t2, n, Zeroes), <<n, 1>>, v)
         IN  /\ Hist(u)
             /\ \E ch2, home2 :
                  /\ Vol(Last(u), ch2, home2, w) /\ Keeps(Last(t), ch, Last(u), ch2, {})
                  /\ New(Last(t), Last(u), home2, Append(home[k], v.name), v.dir)
<1> DEFINE d == Last(t)
           last == ch[k][Len(ch[k])]
           t1 == fat_alloc_cluster(t)
           d1 == Last(t1)
           t2 == fat_set_entry(t1, last, n)
           t3 == write_sector(t2, n, Zeroes)
           d3 == Last(t3)
           u == PutSlot(t3, <<n, 1>>, v)
           q == <<n>>
           ch1 == Put(ch, MORE, q)
           d2 == [fat |-> d1.fat, sec |-> Put(d1.sec, n, Zeroes)]
           ch2 == Put(Put(ch1, k, Append(ch1[k], n)), MORE, <<>>)
<1>1. /\ Vol(d, ch, home, w) /\ Fits(d, ch, home, k, y, v) /\ n = FirstFree(d)
      /\ \A i \in 1..Len(ch[k]), j \in 1..SLOTS : At(d, <<ch[k][i], j>>) \notin {END, DELETED}
  OBVIOUS
<1> HIDE DEF d
<1>2. /\ Sectors(d) /\ ch \in Chains /\ Laid(d.fat, ch) /\ k \in Folder(d) /\ k \in Key
      /\ DOMAIN ch = Key /\ ch[k] # <<>> /\ k # MORE
  <2>1. Sectors(d) /\ ch \in Chains /\ Laid(d.fat, ch) /\ k \in Folder(d) /\ ch[k] # <<>>
    BY <1>1 DEF Vol, Fits
  <2> QED
    BY <2>1, FolderFacts DEF Chains
<1>3. MORE \in Key /\ MORE \notin Folder(d) /\ MORE \notin Used(d)
  BY KeyFacts DEF Used, Folder
<1>4. /\ Hist(t1) /\ Vol(d1, ch1, home, w) /\ n \in Cluster
      /\ d1.sec = d.sec /\ ch1[MORE] = q
      /\ \A x \in Key : x # MORE => ch1[x] = ch[x]
  BY <1>1, <1>3, AllocSound DEF d
<1> HIDE DEF t1, d1, ch1
<1>5. d1.fat \in Fats /\ DOMAIN d1.sec = Cluster
  BY <1>4 DEF Vol, PlainDisk
<1>6. d2.fat = d1.fat /\ d2.sec = Put(d1.sec, n, Zeroes) /\ PlainDisk(d2)
  <2>1. DOMAIN Put(d1.sec, n, Zeroes) = Cluster
    BY <1>5, PutFacts
  <2> QED
    BY <1>5, <2>1 DEF PlainDisk
<1> HIDE DEF d2
<1>7. Used(d1) = Used(d) /\ Folder(d1) = Folder(d) /\ \A x : At(d1, x) = At(d, x)
  BY <1>4, SameSectors
<1>8. q[1] = n /\ 1 \in 1..Len(q) /\ Quiet(Zeroes)
  BY ZeroesQuiet
<1>9. Vol(d2, ch1, home, w) /\ SameTree(d1, d2) /\ Folder(d2) = Folder(d1)
  <2> DEFINE m == MORE
  <2> HIDE DEF m, q
  <2>1. /\ Vol(d1, ch1, home, w) /\ m \in Key /\ m \notin Folder(d1) /\ 1 \in 1..Len(ch1[m])
        /\ Quiet(Zeroes) /\ PlainDisk(d2) /\ d2.fat = d1.fat
        /\ d2.sec = Put(d1.sec, ch1[m][1], Zeroes)
    BY <1>3, <1>4, <1>6, <1>7, <1>8 DEF m
  <2> QED
    BY <2>1, VolSector
<1>10. d2.sec[n] = Zeroes /\ \A c \in Cluster : c # n => d2.sec[c] = d.sec[c]
  BY <1>4, <1>5, <1>6, PutFacts
<1>11. last \in Cluster /\ ch1[k] = ch[k]
  <2>1. Len(ch[k]) \in 1..Len(ch[k])
    BY <1>2, LaidFacts
  <2> QED
    BY <1>2, <1>4, <2>1, LaidFacts
<1>12. Hist(t3) /\ d3.fat = Put(d1.fat, last, n) /\ d3.sec = d2.sec
  <2>1. n \in Links
    BY <1>4 DEF Links
  <2>2. Hist(t2) /\ Last(t2).fat = Put(d1.fat, last, n) /\ Last(t2).sec = d1.sec
    BY <1>4, <1>11, <2>1, SetEntry DEF d1
  <2> HIDE DEF t2
  <2>3. /\ Hist(t3) /\ d3.fat = Last(t2).fat /\ d3.sec = Put(Last(t2).sec, n, Zeroes)
    BY <1>4, <2>2, WriteSector
  <2> QED
    BY <1>6, <2>2, <2>3
<1>13. PlainDisk(d3)
  BY <1>12, HistFacts
<1> HIDE DEF t2, t3, d3, last, u
<1> DEFINE L == Len(ch[k])
<1>14. /\ Vol(d3, ch2, home, w) /\ Used(d3) = Used(d2) /\ Folder(d3) = Folder(d2)
       /\ \A x : At(d3, x) = At(d2, x)
       /\ Len(ch2[k]) = L + 1 /\ ch2[k][L + 1] = n /\ \A i \in 1..L : ch2[k][i] = ch[k][i]
       /\ \A x \in Key : x # k /\ x # MORE => ch2[x] = ch1[x]
       /\ Keeps(d2, ch1, d3, ch2, {})
  <2>1. /\ Vol(d2, ch1, home, w) /\ k \in Folder(d2) /\ ch1[k] # <<>> /\ n \in Cluster
        /\ ch1[MORE] = <<n>> /\ d2.sec[n].kind = "dir"
        /\ PlainDisk(d3) /\ d3.sec = d2.sec /\ d3.fat = Put(d2.fat, ch1[k][Len(ch1[k])], n)
    BY <1>2, <1>4, <1>6, <1>7, <1>9, <1>10, <1>11, <1>12, <1>13, ZeroesQuiet DEF last
  <2>2. /\ Vol(d3, ch2, home, w) /\ Used(d3) = Used(d2) /\ Folder(d3) = Folder(d2)
        /\ \A x : At(d3, x) = At(d2, x)
        /\ Len(ch2[k]) = Len(ch1[k]) + 1 /\ ch2[k][Len(ch1[k]) + 1] = n
        /\ \A i \in 1..Len(ch1[k]) : ch2[k][i] = ch1[k][i]
        /\ \A x \in Key : x # k /\ x # MORE => ch2[x] = ch1[x]
        /\ Keeps(d2, ch1, d3, ch2, {})
    BY <2>1, VolExtend
  <2> HIDE DEF ch2
  <2> QED
    BY <1>11, <2>2
<1> HIDE DEF ch2
<1>15. L \in Nat /\ \A i \in 1..L : ch[k][i] \in Cluster
  BY <1>2, LaidFacts
<1>16. FirstSpot(d3, ch2[k], L + 1, 1)
  <2> HIDE DEF L
  <2>1. 1 \in 1..SLOTS /\ L + 1 \in 1..Len(ch2[k])
    BY <1>14, <1>15, Constants
  <2>2. At(d3, <<ch2[k][L + 1], 1>>) \in {END, DELETED}
    BY <1>4, <1>10, <1>14, <2>1, ZeroesQuiet
  <2>3. ASSUME NEW i \in 1..Len(ch2[k]), NEW j \in 1..SLOTS,
               Before(i, j, L + 1, 1), At(d3, <<ch2[k][i], j>>) = END
        PROVE  i = L + 1 /\ j = 1
    <3>1. CASE i \in 1..L
      <4> DEFINE x == <<ch[k][i], j>>
      <4>1. ch2[k][i] = ch[k][i] /\ At(d3, x) = At(d2, x) /\ ch[k][i] \in Cluster
        BY <1>14, <1>15, <3>1
      <4>2. At(d, x) # END
        BY <1>1, <3>1 DEF L
      <4>3. ch[k][i] = n
        <5> SUFFICES ASSUME ch[k][i] # n PROVE FALSE
          OBVIOUS
        <5>1. d2.sec[ch[k][i]] = d.sec[ch[k][i]]
          BY <1>10, <4>1
        <5>2. x[1] = ch[k][i]
          OBVIOUS
        <5> HIDE DEF x
        <5>3. At(d2, x) = At(d, x)
          BY <5>1, <5>2 DEF At
        <5> QED
          BY <2>3, <4>1, <4>2, <5>3 DEF x
      <4>4. k \in Key /\ MORE \in Key /\ Laid(d1.fat, ch1) /\ DOMAIN ch1 = Key
        BY <1>2, <1>3, <1>4 DEF Vol, Chains
      <4>5. i \in 1..Len(ch1[k]) /\ ch1[k][i] = n /\ 1 \in 1..Len(ch1[MORE]) /\ ch1[MORE][1] = n
        BY <1>4, <1>8, <1>11, <3>1, <4>3 DEF L
      <4>6. k = MORE
        BY <4>4, <4>5, LaidApart
      <4> QED
        BY <1>2, <4>6
    <3>2. CASE i \notin 1..L
      <4>1. i = L + 1
        BY <1>14, <1>15, <3>2
      <4> QED
        BY <1>15, <2>3, <4>1 DEF Before
    <3> QED
      BY <3>1, <3>2
  <2> QED
    BY <2>1, <2>2, <2>3 DEF FirstSpot
<1>17. Used(d3) = Used(d) /\ Folder(d3) = Folder(d)
  BY <1>7, <1>9, <1>14 DEF SameTree
<1>18. Fits(d3, ch2, home, k, y, v)
  <2>1. y \in Key \ {ROOT, MORE} /\ y \notin Used(d) /\ y # k
    BY <1>1, <1>2 DEF Fits, Folder
  <2>2. ch2[y] = ch[y]
    BY <1>4, <1>14, <2>1
  <2>3. ch2[k] # <<>>
    BY <1>14, <1>15, EmptySeq
  <2>4. v.dir => y = SPARE /\ Bare(d3, ch2[y])
    <3> SUFFICES ASSUME v.dir PROVE y = SPARE /\ Bare(d3, ch[y])
      BY <2>2
    <3>1. y = SPARE /\ Bare(d, ch[y])
      BY <1>1 DEF Fits
    <3>2. \A i \in 1..Len(ch[y]) : ch[y][i] \in Cluster
      BY <1>2, <2>1, LaidFacts
    <3>3. \A c \in Cluster : d.sec[c].kind = "dir" => d3.sec[c].kind = "dir"
      BY <1>10, <1>12, ZeroesQuiet
    <3> QED
      BY <1>17, <3>1, <3>2, <3>3 DEF Bare
  <2> QED
    BY <1>1, <1>17, <2>1, <2>2, <2>3, <2>4 DEF Fits
<1>19. /\ Hist(u)
       /\ \E ch3, home3 : /\ Vol(Last(u), ch3, home3, w) /\ Keeps(d3, ch2, Last(u), ch3, {})
                          /\ New(d3, Last(u), home3, Append(home[k], v.name), v.dir)
  <2> DEFINE a == L + 1
             b == 1
             z == PutSlot(t3, <<ch2[k][a], b>>, v)
  <2>1. FirstSpot(d3, ch2[k], a, b)
    BY <1>16
  <2>2. u = z
    BY <1>14 DEF u
  <2> HIDE DEF a, b, L
  <2>3. /\ Hist(z)
        /\ \E ch3, home3 : /\ Vol(Last(z), ch3, home3, w) /\ Keeps(d3, ch2, Last(z), ch3, {})
                           /\ New(d3, Last(z), home3, Append(home[k], v.name), v.dir)
    BY <1>12, <1>14, <1>18, <2>1, AddInPlace DEF d3
  <2> QED
    BY <2>2, <2>3
<1>20. PICK ch3, home3 : /\ Vol(Last(u), ch3, home3, w) /\ Keeps(d3, ch2, Last(u), ch3, {})
                         /\ New(d3, Last(u), home3, Append(home[k], v.name), v.dir)
  BY <1>19
<1>22. New(d, Last(u), home3, Append(home[k], v.name), v.dir)
  BY <1>17, <1>20 DEF New
<1>21. Keeps(d, ch, Last(u), ch3, {})
  <2>1. ch1 \in Chains /\ ch2 \in Chains /\ ch3 \in Chains
    BY <1>4, <1>14, <1>20 DEF Vol
  <2>2. \A x \in Used(d) : /\ x \in Used(d2) /\ At(d2, x) = At(d, x)
                           /\ ch1[x] = ch[x]
    <3>1. \A x \in Used(d) : x \in Key /\ x # MORE
      BY <1>3, KeyFacts DEF Used
    <3> QED
      BY <1>4, <1>7, <1>9, <3>1 DEF SameTree
  <2>3. Keeps(d, ch, d2, ch1, {})
    BY <1>2, <2>1, <2>2, KeepsSame
  <2>4. Keeps(d, ch, d3, ch2, {})
    BY <1>2, <1>14, <2>1, <2>3, KeepsOn
  <2> QED
    BY <1>2, <1>20, <2>1, <2>4, KeepsOn
<1> QED
  BY <1>19, <1>20, <1>21, <1>22 DEF u, t3, t2, t1, last, d

\* Adding an entry: it is there, or nothing happened.
LEMMA AddIs ==
  ASSUME NEW t, Hist(t), NEW ch, NEW home, NEW w, Vol(Last(t), ch, home, w),
         NEW k, NEW y, NEW v, Fits(Last(t), ch, home, k, y, v)
  PROVE  LET r == dir_add_entry(t, First(ch[k]), v)
         IN  /\ Hist(r.t) /\ r.ok \in BOOLEAN /\ DOMAIN r = {"t", "ok"}
             /\ r.ok => \E ch2, home2 : /\ Vol(Last(r.t), ch2, home2, w)
                                        /\ Keeps(Last(t), ch, Last(r.t), ch2, {})
                                        /\ New(Last(t), Last(r.t), home2, Append(home[k], v.name), v.dir)
             /\ ~r.ok => r.t = t
<1> DEFINE d == Last(t)
           s == ch[k]
           slots == SlotsOf(d, First(s))
           free == FreeSlots(d, slots)
           n == FirstFree(d)
           r == dir_add_entry(t, First(s), v)
           Done(z) == /\ Hist(z)
                      /\ \E ch2, home2 :
                           /\ Vol(Last(z), ch2, home2, w) /\ Keeps(d, ch, Last(z), ch2, {})
                           /\ New(d, Last(z), home2, Append(home[k], v.name), v.dir)
<1>1. r = IF free # {} THEN [t |-> PutSlot(t, slots[Min(free)], v), ok |-> TRUE]
          ELSE ExtendDir(t, slots[Len(slots)][1], n, v)
  BY DEF dir_add_entry, Add
<1> HIDE DEF r
<1>2. /\ ch \in Chains /\ Laid(d.fat, ch) /\ k \in Key /\ s # <<>> /\ DOMAIN ch = Key
  <2>1. Sectors(d) /\ ch \in Chains /\ Laid(d.fat, ch) /\ k \in Folder(d) /\ s # <<>>
    BY DEF Vol, Fits
  <2> QED
    BY <2>1, FolderFacts DEF Chains
<1>3. CASE free # {}
  <2> DEFINE z == PutSlot(t, slots[Min(free)], v)
  <2>1. \E a, b : FirstSpot(d, s, a, b) /\ slots[Min(free)] = <<s[a], b>>
    <3>1. IF free = {}
          THEN \A i \in 1..Len(s), j \in 1..SLOTS : At(d, <<s[i], j>>) \notin {END, DELETED}
          ELSE \E a, b : FirstSpot(d, s, a, b) /\ slots[Min(free)] = <<s[a], b>>
      BY <1>2, FirstSpotIs
    <3> HIDE DEF free, slots, s, d
    <3> QED
      BY <1>3, <3>1
  <2>2. PICK a, b : FirstSpot(d, s, a, b) /\ slots[Min(free)] = <<s[a], b>>
    BY <2>1
  <2>3. Done(PutSlot(t, <<s[a], b>>, v))
    BY <2>2, AddInPlace
  <2>4. Done(z)
    BY <2>2, <2>3
  <2>5. r = [t |-> z, ok |-> TRUE]
    BY <1>1, <1>3
  <2> HIDE DEF z
  <2>6. r.t = z /\ r.ok = TRUE /\ DOMAIN r = {"t", "ok"}
    BY <2>5
  <2> QED
    BY <2>4, <2>6 DEF r
<1>4. CASE free = {}
  <2>1. /\ s \in Seq(Cluster) /\ Len(s) \in Nat /\ Len(s) \in 1..Len(s)
    BY <1>2, LaidFacts
  <2>2. slots[Len(slots)][1] = s[Len(s)]
    <3> DEFINE m == Len(s) * SLOTS
               a == Len(s)
    <3>1. DOMAIN slots = 1..m /\ slots = [j \in 1..m |-> Loc(s, j)]
      BY <1>2, SlotsOfIs
    <3>2. SLOTS \in 1..SLOTS /\ a \in 1..Len(s) /\ SLOTS \in Nat
      BY <2>1, Constants
    <3>3. (a - 1) * SLOTS + SLOTS \in 1..m /\ Loc(s, (a - 1) * SLOTS + SLOTS) = <<s[a], SLOTS>>
      BY <2>1, <3>2, LocFacts
    <3>4. (a - 1) * SLOTS + SLOTS = m
      BY <2>1, <3>2
    <3>5. m \in Nat /\ m \in 1..m
      BY <2>1, <3>2, <3>3, <3>4
    <3> HIDE DEF m, slots
    <3>6. Len(slots) = m /\ slots[m] = Loc(s, m)
      BY <3>1, <3>5
    <3> QED
      BY <3>3, <3>4, <3>6
  <2>3. r = ExtendDir(t, s[Len(s)], n, v)
    BY <1>1, <1>4, <2>2
  <2>4. CASE n = 0
    <3>1. r = [t |-> t, ok |-> FALSE]
      BY <2>3, <2>4 DEF ExtendDir
    <3>2. r.t = t /\ r.ok = FALSE /\ DOMAIN r = {"t", "ok"}
      BY <3>1
    <3> QED
      BY <3>2 DEF r
  <2>5. CASE n # 0
    <3> DEFINE z == PutSlot(write_sector(fat_set_entry(fat_alloc_cluster(t), s[Len(s)], n), n, Zeroes), <<n, 1>>, v)
    <3>1. r = [t |-> z, ok |-> TRUE]
      BY <2>3, <2>5 DEF ExtendDir
    <3>2. \A i \in 1..Len(s), j \in 1..SLOTS : At(d, <<s[i], j>>) \notin {END, DELETED}
      BY <1>2, <1>4, FirstSpotIs
    <3> HIDE DEF free, slots
    <3>3. Done(z)
      BY <2>5, <3>2, AddExtending
    <3> HIDE DEF z
    <3>4. r.t = z /\ r.ok = TRUE /\ DOMAIN r = {"t", "ok"}
      BY <3>1
    <3> QED
      BY <3>3, <3>4 DEF r
  <2> QED
    BY <2>4, <2>5
<1> QED
  BY <1>3, <1>4

------------------------------------------------------------------------------
\* Calls on paths.

\* A history t leads from volume d to a volume with d's entries but those in X.
Leads(d, ch, t, w, X) ==
  Hist(t) /\ \E ch2, home2 : Vol(Last(t), ch2, home2, w) /\ Keeps(d, ch, Last(t), ch2, X)

\* It has a new one there.
Brings(d, ch, t, w, path) ==
  \E ch2, home2 : /\ Vol(Last(t), ch2, home2, w) /\ Keeps(d, ch, Last(t), ch2, {})
                  /\ New(d, Last(t), home2, path, FALSE)

\* Nothing happened.
LEMMA LeadsNowhere ==
  ASSUME NEW d, NEW ch, NEW home, NEW w, Vol(d, ch, home, w), NEW X
  PROVE  Leads(d, ch, <<d>>, w, X)
<1>1. Hist(<<d>>) /\ Last(<<d>>) = d
  BY HistOne DEF Vol
<1>2. ch \in Chains
  BY DEF Vol
<1>3. Keeps(d, ch, d, ch, X)
  BY <1>2, KeepsSame
<1> DEFINE t == <<d>>
<1>4. Hist(t) /\ Last(t) = d
  BY <1>1
<1> HIDE DEF t
<1>5. Leads(d, ch, t, w, X)
  BY <1>3, <1>4 DEF Leads
<1> QED
  BY <1>5 DEF t

\* A new entry, for what the spare chain holds.
LEMMA FitsNew ==
  ASSUME NEW d, NEW ch, NEW home, NEW w, Vol(d, ch, home, w),
         NEW path \in Path, \A x \in Used(d) : home[x] # path,
         NEW k \in Folder(d), ch[k] # <<>>, path = Append(home[k], Last(path)),
         NEW dir \in BOOLEAN, dir => Bare(d, ch[SPARE]),
         NEW c, c = First(ch[SPARE])
  PROVE  Fits(d, ch, home, k, SPARE, Dirent(Last(path), dir, c, 0))
<1> DEFINE v == Dirent(Last(path), dir, c, 0)
           name == Last(path)
<1>1. name \in Names \ Dots
  BY PathFacts
<1>2. v.mark = "used" /\ v.name = name /\ v.dir = dir /\ v.first = c /\ v.size = 0
  BY SlotFacts
<1>3. SlotOK(v)
  BY <1>1 DEF SlotOK
<1>4. SPARE \in Key \ {ROOT, MORE} /\ SPARE \notin Used(d)
  BY KeyFacts DEF Used
<1>5. Len(ch[SPARE]) \in Nat
  BY <1>4, LaidFacts DEF Vol, Chains
<1>6. 0 \in Nat /\ 0 <= Len(ch[SPARE]) * SECTOR
  <2> DEFINE n == Len(ch[SPARE])
  <2>1. n \in Nat /\ SECTOR \in Nat
    BY <1>5, Constants
  <2> HIDE DEF n
  <2>2. 0 <= n * SECTOR
    BY <2>1
  <2> QED
    BY <2>2 DEF n
<1> HIDE DEF v, name
<1>7. Append(home[k], v.name) = path
  BY <1>2 DEF name
<1> QED
  BY <1>1, <1>2, <1>3, <1>4, <1>6, <1>7 DEF Fits, v, name

\* The fresh cluster goes back.
LEMMA GiveBack ==
  ASSUME NEW t, Hist(t), NEW ch, NEW home, NEW w, Vol(Last(t), ch, home, w),
         NEW c \in Cluster, ch[SPARE] = <<c>>
  PROVE  LET u == fat_set_entry(t, c, 0)
         IN  /\ Hist(u) /\ Last(u).sec = Last(t).sec
             /\ Vol(Last(u), Put(ch, SPARE, <<>>), home, w)
<1> DEFINE d == Last(t)
           u == fat_set_entry(t, c, 0)
           e == Last(u)
           q == <<c>>
           none == <<>>
           ch2 == Put(ch, SPARE, none)
<1>1. /\ ch \in Chains /\ DOMAIN ch = Key /\ Laid(d.fat, ch) /\ d.fat \in Fats
      /\ SPARE \in Key /\ SPARE \notin Folder(d) /\ SPARE \notin Used(d)
  BY KeyFacts DEF Vol, Chains, PlainDisk, Folder, Used
<1>2. /\ q[1] = c /\ q # <<>> /\ Tail(q) = none /\ none \in Seq(Cluster)
  BY OneCluster
<1>3. Laid(Put(d.fat, c, 0), ch2)
  <2> HIDE DEF q, none, d
  <2>1. ch[SPARE] = q
    BY DEF q
  <2>2. Laid(Put(d.fat, ch[SPARE][1], 0), Put(ch, SPARE, Tail(ch[SPARE])))
    BY <1>1, <1>2, <2>1, LaidTail
  <2> QED
    BY <1>2, <2>1, <2>2
<1>4. Hist(u) /\ e.fat = Put(d.fat, c, 0) /\ e.sec = d.sec
  BY SetEntry DEF Links
<1>5. PlainDisk(e)
  BY <1>4, HistFacts
<1>6. ch2 \in Chains /\ \A y \in Key : y # SPARE => ch2[y] = ch[y]
  <2>1. ch \in Chains /\ SPARE \in Key /\ none \in Seq(Cluster)
    BY <1>1, <1>2
  <2> HIDE DEF none
  <2> QED
    BY <2>1, PutChains
<1> HIDE DEF u, e, d, ch2, none
<1>7. Vol(d, ch, home, w)
  BY DEF d
<1>8. \A k \in Folder(d) : ch2[k] = ch[k]
  BY <1>1, <1>6, <1>7, FolderFacts DEF Vol
<1>9. \A x \in Used(d) : ch2[x] = ch[x] \/ x \in w
  BY <1>1, <1>6, KeyFacts DEF Used
<1>10. Vol(e, ch2, home, w)
  BY <1>3, <1>4, <1>5, <1>6, <1>7, <1>8, <1>9, VolFat
<1> QED
  BY <1>4, <1>10 DEF u, e, d, ch2, none

\* An open that creates.
LEMMA CreateLeads ==
  ASSUME NEW d, NEW ch, NEW home, NEW w, Vol(d, ch, home, w), NEW path \in Path,
         ~fat32_resolve(d, path).found
  PROVE  LET r == Create(d, path)
         IN  /\ Leads(d, ch, r.t, w, {}) /\ r.ok \in BOOLEAN
             /\ r.ok => Brings(d, ch, r.t, w, path)
<1> DEFINE r == Create(d, path)
           dir == path_parent_cluster(d, path)
           c == FirstFree(d)
           t == <<d>>
           t1 == fat_alloc_cluster(t)
           d1 == Last(t1)
           v == Dirent(Last(path), FALSE, c, 0)
           a == dir_add_entry(t1, dir, v)
<1>1. r = IF dir = 0 \/ c = 0 THEN [t |-> t, ok |-> FALSE] ELSE OrGiveBack(a, c)
  BY DEF Create, CreateIn
<1>2. Leads(d, ch, t, w, {})
  BY LeadsNowhere
<1>3. Hist(t) /\ Last(t) = d /\ c = FirstFree(Last(t))
  BY HistOne DEF Vol
<1> HIDE DEF r, t
<1>4. CASE dir = 0 \/ c = 0
  <2>1. r = [t |-> t, ok |-> FALSE]
    BY <1>1, <1>4
  <2>2. r.t = t /\ r.ok = FALSE
    BY <2>1
  <2> QED
    BY <1>2, <2>2 DEF r
<1>5. CASE dir # 0 /\ c # 0
  <2> DEFINE q == <<c>>
             ch1 == Put(ch, SPARE, q)
  <2>1. PICK k \in Folder(d) : First(ch[k]) = dir /\ path = Append(home[k], Last(path))
    BY <1>5, ParentIs
  <2>2. SPARE \in Key /\ SPARE \notin Folder(d) /\ SPARE \notin Used(d) /\ SPARE # ROOT /\ SPARE # MORE
    BY KeyFacts DEF Used, Folder
  <2>3. /\ Hist(t1) /\ Vol(d1, ch1, home, w) /\ c \in Cluster /\ d1.sec = d.sec
        /\ ch1[SPARE] = q /\ \A y \in Key : y # SPARE => ch1[y] = ch[y]
    <3> HIDE DEF c
    <3>1. Vol(Last(t), ch, home, w) /\ SPARE \notin Folder(Last(t)) /\ SPARE \notin Used(Last(t)) /\ c # 0
      BY <1>3, <1>5, <2>2
    <3>2. Hist(t1) /\ Vol(d1, ch1, home, w) /\ c \in Cluster /\ d1.sec = Last(t).sec
          /\ ch1[SPARE] = q /\ \A y \in Key : y # SPARE => ch1[y] = ch[y]
      BY <1>3, <2>2, <3>1, AllocSound
    <3> QED
      BY <1>3, <3>2
  <2>4. First(q) = c /\ First(<<>>) = 0
    BY <2>3, OneCluster
  <2> HIDE DEF c, ch1, q, d1, t1
  <2>5. Used(d1) = Used(d) /\ Folder(d1) = Folder(d) /\ \A x : At(d1, x) = At(d, x)
    BY <2>3, SameSectors
  <2>6. k \in Key /\ k # SPARE /\ ch1[k] = ch[k]
    BY <2>1, <2>3, FolderFacts DEF Vol
  <2>7. ch1[k] # <<>> /\ First(ch1[k]) = dir
    BY <1>5, <2>1, <2>4, <2>6
  <2>8. Fits(d1, ch1, home, k, SPARE, v)
    <3>1. \A x \in Used(d1) : home[x] # path
      BY <2>5, PathMissed
    <3>2. k \in Folder(d1) /\ c = First(ch1[SPARE])
      BY <2>1, <2>3, <2>4, <2>5
    <3>3. FALSE \in BOOLEAN
      OBVIOUS
    <3> QED
      BY <2>1, <2>3, <2>7, <3>1, <3>2, <3>3, FitsNew
  <2> HIDE DEF v, dir
  <2>9. /\ Hist(a.t) /\ a.ok \in BOOLEAN /\ DOMAIN a = {"t", "ok"}
        /\ a.ok => \E ch2, home2 : /\ Vol(Last(a.t), ch2, home2, w)
                                   /\ Keeps(d1, ch1, Last(a.t), ch2, {})
                                   /\ New(d1, Last(a.t), home2, path, FALSE)
        /\ ~a.ok => a.t = t1
    <3> DEFINE b == dir_add_entry(t1, First(ch1[k]), v)
    <3>1. /\ Hist(b.t) /\ b.ok \in BOOLEAN /\ DOMAIN b = {"t", "ok"}
          /\ b.ok => \E ch2, home2 : /\ Vol(Last(b.t), ch2, home2, w)
                                     /\ Keeps(Last(t1), ch1, Last(b.t), ch2, {})
                                     /\ New(Last(t1), Last(b.t), home2, Append(home[k], v.name), v.dir)
          /\ ~b.ok => b.t = t1
      BY <2>3, <2>8, AddIs DEF d1
    <3>2. a = b
      BY <2>7
    <3>3. Append(home[k], v.name) = path /\ v.dir = FALSE
      BY <2>1 DEF v, Dirent
    <3> QED
      BY <3>1, <3>2, <3>3 DEF d1
  <2> HIDE DEF a
  <2>10. ch \in Chains /\ ch1 \in Chains
    BY <2>3 DEF Vol
  <2>11. Keeps(d, ch, d1, ch1, {})
    <3>1. \A x \in Used(d) : x \in Used(d1) /\ At(d1, x) = At(d, x) /\ ch1[x] = ch[x]
      BY <2>2, <2>3, <2>5, KeyFacts DEF Used
    <3> QED
      BY <2>10, <3>1, KeepsSame
  <2>12. r = OrGiveBack(a, c)
    BY <1>1, <1>5
  <2>13. CASE a.ok
    <3>1. r = a
      BY <2>12, <2>13 DEF OrGiveBack
    <3>2. PICK ch2, home2 : /\ Vol(Last(a.t), ch2, home2, w) /\ Keeps(d1, ch1, Last(a.t), ch2, {})
                            /\ New(d1, Last(a.t), home2, path, FALSE)
      BY <2>9, <2>13
    <3>3. ch2 \in Chains
      BY <3>2 DEF Vol
    <3>4. Keeps(d, ch, Last(a.t), ch2, {})
      BY <2>10, <2>11, <3>2, <3>3, KeepsOn
    <3>5. New(d, Last(a.t), home2, path, FALSE)
      BY <2>5, <3>2 DEF New
    <3> QED
      BY <2>9, <3>1, <3>2, <3>4, <3>5 DEF Leads, Brings, r
  <2>14. CASE ~a.ok
    <3> DEFINE u == fat_set_entry(t1, c, 0)
               none == <<>>
               ch2 == Put(ch1, SPARE, none)
    <3>1. r.t = u /\ r.ok \in BOOLEAN /\ ~r.ok
      <4>1. r = [a EXCEPT !.t = fat_set_entry(@, c, 0)] /\ a.t = t1
        BY <2>9, <2>12, <2>14 DEF OrGiveBack
      <4> QED
        BY <2>9, <2>14, <4>1
    <3>2. ch1[SPARE] = <<c>>
      BY <2>3 DEF q
    <3>3. Hist(u) /\ Last(u).sec = d1.sec /\ Vol(Last(u), ch2, home, w)
      BY <2>3, <3>2, GiveBack DEF d1
    <3>4. ch2 \in Chains /\ \A x \in Key : x # SPARE => ch2[x] = ch1[x]
      <4>1. none \in Seq(Cluster)
        OBVIOUS
      <4> HIDE DEF none
      <4> QED
        BY <2>2, <2>10, <4>1, PutChains
    <3> HIDE DEF u, ch2
    <3>5. Used(Last(u)) = Used(d1) /\ \A x : At(Last(u), x) = At(d1, x)
      BY <3>3, SameSectors
    <3>6. \A x \in Used(d) : x \in Used(Last(u)) /\ At(Last(u), x) = At(d, x) /\ ch2[x] = ch[x]
      BY <2>2, <2>3, <2>5, <3>4, <3>5, KeyFacts DEF Used
    <3>7. Keeps(d, ch, Last(u), ch2, {})
      BY <2>10, <3>4, <3>6, KeepsSame
    <3> QED
      BY <3>1, <3>3, <3>7 DEF Leads, r
  <2> QED
    BY <2>9, <2>13, <2>14
<1> QED
  BY <1>4, <1>5

\* The first two entries of a new directory, those of itself and its parent.
DotSlots(c, dir) ==
  [i \in 1..SLOTS |-> CASE i = 1 -> Dirent(".", TRUE, c, 0)
                        [] i = 2 -> Dirent("..", TRUE, dir, 0)
                        [] OTHER -> END]

\* Neither is one of a file or a directory in it.
LEMMA DotsQuiet ==
  ASSUME NEW c, NEW dir
  PROVE  Quiet(Slots(DotSlots(c, dir))) /\ Slots(DotSlots(c, dir)).kind = "dir"
<1> DEFINE f == DotSlots(c, dir)
<1>1. \A j \in 1..SLOTS : \/ f[j] = Dirent(".", TRUE, c, 0)
                          \/ f[j] = Dirent("..", TRUE, dir, 0)
                          \/ f[j] = END
  <2> SUFFICES ASSUME NEW j \in 1..SLOTS
               PROVE  \/ f[j] = Dirent(".", TRUE, c, 0)
                      \/ f[j] = Dirent("..", TRUE, dir, 0)
                      \/ f[j] = END
    OBVIOUS
  <2>1. CASE j = 1
    BY <2>1 DEF DotSlots
  <2>2. CASE j = 2
    BY <2>2 DEF DotSlots
  <2>3. CASE j # 1 /\ j # 2
    BY <2>3 DEF DotSlots
  <2> QED
    BY <2>1, <2>2, <2>3
<1>2. DOMAIN f = 1..SLOTS
  BY DEF DotSlots
<1> HIDE DEF f
<1>3. "." \in Names \cup Dots /\ ".." \in Names \cup Dots /\ TRUE \in BOOLEAN
  BY DEF Dots
<1>4. SlotOK(Dirent(".", TRUE, c, 0)) /\ SlotOK(Dirent("..", TRUE, dir, 0)) /\ SlotOK(END)
  BY <1>3 DEF SlotOK
<1>5. ~Entry(Dirent(".", TRUE, c, 0)) /\ ~Entry(Dirent("..", TRUE, dir, 0)) /\ ~Entry(END)
  <2>1. Dirent(".", TRUE, c, 0).name = "." /\ Dirent("..", TRUE, dir, 0).name = ".."
    BY DEF Dirent
  <2> QED
    BY <2>1, SlotFacts DEF Entry, Dots
<1>6. SlotsOK(f) /\ \A j \in 1..SLOTS : ~Entry(f[j])
  BY <1>1, <1>2, <1>4, <1>5 DEF SlotsOK
<1> QED
  BY <1>6, SectorFacts DEF Quiet, f

\* A new directory.
LEMMA MkdirLeads ==
  ASSUME NEW d, NEW ch, NEW home, NEW w, Vol(d, ch, home, w), NEW path \in Path
  PROVE  LET r == MkdirOutcome(d, path)
         IN  Leads(d, ch, r.t, w, {}) /\ r.ok \in BOOLEAN
<1> DEFINE r == MkdirOutcome(d, path)
           dir == path_parent_cluster(d, path)
           c == FirstFree(d)
           t == <<d>>
           t1 == fat_alloc_cluster(t)
           d1 == Last(t1)
           s == Slots(DotSlots(c, dir))
           t2 == write_sector(t1, c, Zeroes)
           d2 == Last(t2)
           t3 == write_sector(t2, c, s)
           d3 == Last(t3)
           v == Dirent(Last(path), TRUE, c, 0)
           a == dir_add_entry(t3, dir, v)
<1>1. r = IF fat32_resolve(d, path).found \/ dir = 0 \/ c = 0 THEN [t |-> t, ok |-> FALSE] ELSE a
  BY DEF MkdirOutcome, DotSlots
<1>2. Leads(d, ch, t, w, {})
  BY LeadsNowhere
<1>3. Hist(t) /\ Last(t) = d /\ c = FirstFree(Last(t))
  BY HistOne DEF Vol
<1>4. Quiet(s) /\ s.kind = "dir"
  BY DotsQuiet
<1> HIDE DEF r, t, s
<1>5. CASE fat32_resolve(d, path).found \/ dir = 0 \/ c = 0
  <2>1. r = [t |-> t, ok |-> FALSE]
    BY <1>1, <1>5
  <2>2. r.t = t /\ r.ok \in BOOLEAN
    BY <2>1
  <2> QED
    BY <1>2, <2>2 DEF r
<1>6. CASE ~(fat32_resolve(d, path).found \/ dir = 0 \/ c = 0)
  <2> DEFINE q == <<c>>
             ch1 == Put(ch, SPARE, q)
  <2>1. PICK k \in Folder(d) : First(ch[k]) = dir /\ path = Append(home[k], Last(path))
    BY <1>6, ParentIs
  <2>2. SPARE \in Key /\ SPARE \notin Folder(d) /\ SPARE \notin Used(d) /\ SPARE # ROOT /\ SPARE # MORE
    BY KeyFacts DEF Used, Folder
  <2>3. /\ Hist(t1) /\ Vol(d1, ch1, home, w) /\ c \in Cluster /\ d1.sec = d.sec
        /\ ch1[SPARE] = q /\ \A y \in Key : y # SPARE => ch1[y] = ch[y]
    <3> HIDE DEF c
    <3>1. Vol(Last(t), ch, home, w) /\ SPARE \notin Folder(Last(t)) /\ SPARE \notin Used(Last(t)) /\ c # 0
      BY <1>3, <1>6, <2>2
    <3>2. Hist(t1) /\ Vol(d1, ch1, home, w) /\ c \in Cluster /\ d1.sec = Last(t).sec
          /\ ch1[SPARE] = q /\ \A y \in Key : y # SPARE => ch1[y] = ch[y]
      BY <1>3, <2>2, <3>1, AllocSound
    <3> QED
      BY <1>3, <3>2
  <2>4. First(q) = c /\ First(<<>>) = 0 /\ q[1] = c /\ 1 \in 1..Len(q) /\ \A i \in 1..Len(q) : i = 1
    BY <2>3, OneCluster
  <2> HIDE DEF c, ch1, q, d1, t1
  <2>5. Used(d1) = Used(d) /\ Folder(d1) = Folder(d) /\ \A x : At(d1, x) = At(d, x)
    BY <2>3, SameSectors
  <2>6. /\ Hist(t2) /\ d2.fat = d1.fat /\ d2.sec = Put(d1.sec, c, Zeroes)
        /\ Hist(t3) /\ d3.fat = d2.fat /\ d3.sec = Put(d2.sec, c, s)
    <3>1. Hist(t2) /\ d2.fat = d1.fat /\ d2.sec = Put(d1.sec, c, Zeroes)
      BY <2>3, WriteSector DEF d1
    <3> HIDE DEF t2
    <3>2. Hist(t3) /\ d3.fat = d2.fat /\ d3.sec = Put(d2.sec, c, s)
      BY <2>3, <3>1, WriteSector
    <3> QED
      BY <3>1, <3>2
  <2>7. PlainDisk(d2) /\ PlainDisk(d3)
    <3> HIDE DEF t2, t3
    <3> QED
      BY <2>6, HistFacts
  <2> HIDE DEF t2, t3, d2, d3
  <2> DEFINE m == SPARE
  <2>8. m \in Key /\ 1 \in 1..Len(ch1[m]) /\ c = ch1[m][1] /\ m \notin Folder(d1)
    BY <2>2, <2>3, <2>4, <2>5
  <2>9. m = SPARE
    OBVIOUS
  <2> HIDE DEF m
  <2>10. Vol(d2, ch1, home, w) /\ SameTree(d1, d2) /\ Folder(d2) = Folder(d1)
    <3>1. d2.sec = Put(d1.sec, ch1[m][1], Zeroes)
      BY <2>6, <2>8
    <3> QED
      BY <2>3, <2>6, <2>7, <2>8, <3>1, ZeroesQuiet, VolSector
  <2>11. Vol(d3, ch1, home, w) /\ SameTree(d2, d3) /\ Folder(d3) = Folder(d2)
    <3>1. d3.sec = Put(d2.sec, ch1[m][1], s) /\ m \notin Folder(d2)
      BY <2>6, <2>8, <2>10
    <3> QED
      BY <1>4, <2>6, <2>7, <2>8, <2>10, <3>1, VolSector
  <2>12. Used(d3) = Used(d) /\ Folder(d3) = Folder(d) /\ \A x \in Used(d) : At(d3, x) = At(d, x)
    BY <2>5, <2>10, <2>11 DEF SameTree
  <2>13. k \in Key /\ k # SPARE /\ ch1[k] = ch[k] /\ ch1[k] # <<>> /\ First(ch1[k]) = dir
    <3>1. k \in Key /\ k # SPARE
      BY <2>1, FolderFacts DEF Vol
    <3>2. ch1[k] = ch[k]
      BY <2>3, <3>1
    <3> QED
      BY <1>6, <2>1, <2>4, <3>1, <3>2
  <2>14. Bare(d3, ch1[SPARE])
    <3>1. \A y \in Used(d3) : y[1] # c
      <4>1. m \notin Folder(d3)
        BY <2>8, <2>10, <2>11
      <4> QED
        BY <2>8, <2>11, <4>1, EntryHome
    <3>2. d3.sec[c] = s
      <4>1. DOMAIN d2.sec = Cluster
        BY <2>7 DEF PlainDisk
      <4> QED
        BY <2>3, <2>6, <4>1, PutFacts
    <3>3. \A i \in 1..Len(q) : q[i] = c
      BY <2>4
    <3>4. \A j \in 1..SLOTS : <<c, j>> \notin Used(d3)
      BY <3>1
    <3>5. Bare(d3, q)
      BY <1>4, <3>2, <3>3, <3>4 DEF Bare
    <3> QED
      BY <2>3, <3>5
  <2>15. Fits(d3, ch1, home, k, SPARE, v)
    <3>1. \A x \in Used(d3) : home[x] # path
      BY <1>6, <2>12, PathMissed
    <3>2. k \in Folder(d3) /\ c = First(ch1[SPARE])
      BY <2>1, <2>3, <2>4, <2>12
    <3>3. TRUE \in BOOLEAN
      OBVIOUS
    <3> QED
      BY <2>1, <2>11, <2>13, <2>14, <3>1, <3>2, <3>3, FitsNew
  <2> HIDE DEF v, dir
  <2>16. /\ Hist(a.t) /\ a.ok \in BOOLEAN /\ DOMAIN a = {"t", "ok"}
         /\ a.ok => \E ch2, home2 : /\ Vol(Last(a.t), ch2, home2, w)
                                    /\ Keeps(d3, ch1, Last(a.t), ch2, {})
         /\ ~a.ok => a.t = t3
    <3> DEFINE b == dir_add_entry(t3, First(ch1[k]), v)
    <3>1. /\ Hist(b.t) /\ b.ok \in BOOLEAN /\ DOMAIN b = {"t", "ok"}
          /\ b.ok => \E ch2, home2 : /\ Vol(Last(b.t), ch2, home2, w)
                                     /\ Keeps(Last(t3), ch1, Last(b.t), ch2, {})
          /\ ~b.ok => b.t = t3
      BY <2>6, <2>11, <2>15, AddIs DEF d3
    <3>2. a = b
      BY <2>13
    <3> QED
      BY <3>1, <3>2 DEF d3
  <2> HIDE DEF a
  <2>17. ch \in Chains /\ ch1 \in Chains
    BY <2>3 DEF Vol
  <2>18. Keeps(d, ch, d3, ch1, {})
    <3>1. \A x \in Used(d) : x \in Used(d3) /\ At(d3, x) = At(d, x) /\ ch1[x] = ch[x]
      BY <2>2, <2>3, <2>12, KeyFacts DEF Used
    <3> QED
      BY <2>17, <3>1, KeepsSame
  <2>19. r = a
    BY <1>1, <1>6
  <2>20. CASE a.ok
    <3>1. PICK ch2, home2 : Vol(Last(a.t), ch2, home2, w) /\ Keeps(d3, ch1, Last(a.t), ch2, {})
      BY <2>16, <2>20
    <3>2. ch2 \in Chains
      BY <3>1 DEF Vol
    <3>3. Keeps(d, ch, Last(a.t), ch2, {})
      BY <2>17, <2>18, <3>1, <3>2, KeepsOn
    <3> QED
      BY <2>16, <2>19, <3>1, <3>3 DEF Leads, r
  <2>21. CASE ~a.ok
    BY <2>6, <2>11, <2>16, <2>18, <2>19, <2>21 DEF Leads, r, d3
  <2> QED
    BY <2>16, <2>20, <2>21
<1> QED
  BY <1>5, <1>6

\* The entry of a file or of an empty directory goes.
LEMMA RemoveEntry ==
  ASSUME NEW d, NEW ch, NEW home, NEW w, Vol(d, ch, home, w), NEW x \in Used(d),
         x \in Folder(d) => \A y \in Used(d) : ~In(ch, y, x)
  PROVE  LET u == PutSlot(<<d>>, x, DELETED)
         IN  /\ Hist(u) /\ Vol(Last(u), ch, home, w)
             /\ Used(Last(u)) = Used(d) \ {x} /\ Folder(Last(u)) = Folder(d) \ {x}
             /\ \A y \in Used(d) \ {x} : At(Last(u), y) = At(d, y)
<1> DEFINE t == <<d>>
           u == PutSlot(t, x, DELETED)
           e == Last(u)
<1>1. Hist(t) /\ Last(t) = d /\ Sectors(d)
  BY HistOne DEF Vol
<1>2. x \in Place /\ d.sec[x[1]].kind = "dir"
  BY <1>1, UsedFacts
<1> HIDE DEF t
<1>3. Hist(u) /\ SlotPut(d, e, x, DELETED)
  <2>1. Sectors(Last(t)) /\ Last(t).sec[x[1]].kind = "dir"
    BY <1>1, <1>2
  <2>2. Hist(u) /\ SlotPut(Last(t), Last(u), x, DELETED)
    BY <1>1, <1>2, <2>1, SlotFacts, PutSlotIs
  <2> QED
    BY <1>1, <2>2
<1> HIDE DEF u
<1>4. /\ Vol(e, ch, home, w) /\ Used(e) = Used(d) \ {x}
      /\ \A y \in Used(e) : At(e, y) = At(d, y)
      /\ Folder(e) = Folder(d) \ {x}
  BY <1>3, VolRemove
<1> QED
  BY <1>3, <1>4 DEF u, t

\* A delete.
LEMMA DeleteLeads ==
  ASSUME NEW d, NEW ch, NEW home, NEW w, Vol(d, ch, home, w), NEW path \in Path,
         NEW x, x = fat32_resolve(d, path).de,
         fat32_resolve(d, path).found => x \notin w,
         fat32_resolve(d, path).found /\ x \in Folder(d) => \A y \in Used(d) : ~In(ch, y, x)
  PROVE  LET r == DeleteOutcome(d, path)
         IN  /\ Leads(d, ch, r.t, w, {x}) /\ r.ok \in BOOLEAN
             /\ ~fat32_resolve(d, path).found => r.t = <<d>>
<1> DEFINE r == DeleteOutcome(d, path)
           z == fat32_resolve(d, path)
           t == PutSlot(<<d>>, x, DELETED)
           u == FreeChain(t, z.entry.first)
<1>1. r = IF ~z.found THEN [t |-> <<d>>, ok |-> FALSE] ELSE [t |-> u, ok |-> TRUE]
  BY DEF DeleteOutcome
<1>2. Leads(d, ch, <<d>>, w, {x})
  BY LeadsNowhere
<1> HIDE DEF r, u
<1>3. CASE ~z.found
  <2>1. r = [t |-> <<d>>, ok |-> FALSE]
    BY <1>1, <1>3
  <2>2. r.t = <<d>> /\ r.ok \in BOOLEAN
    BY <2>1
  <2> QED
    BY <1>2, <2>2 DEF r
<1>4. CASE z.found
  <2> DEFINE none == <<>>
             ch2 == Put(ch, x, none)
             d1 == Last(t)
             e == Last(u)
  <2>1. x \in Used(d) /\ z.entry = At(d, x)
    BY <1>4, PathFound
  <2>2. x \in Key /\ ch \in Chains /\ DOMAIN ch = Key
    BY <2>1, UsedFacts DEF Vol, Chains
  <2>3. z.entry.first = First(ch[x])
    BY <1>4, <2>1 DEF Vol, Told, Tells
  <2>4. /\ Hist(t) /\ Vol(d1, ch, home, w)
        /\ Used(d1) = Used(d) \ {x} /\ Folder(d1) = Folder(d) \ {x}
        /\ \A y \in Used(d) \ {x} : At(d1, y) = At(d, y)
    BY <1>4, <2>1, RemoveEntry
  <2> HIDE DEF t, z
  <2>5. Hist(u) /\ e.sec = d1.sec /\ Laid(e.fat, ch2)
    <3> DEFINE n == FreeChain(t, First(ch[x]))
    <3>1. Laid(Last(t).fat, ch)
      BY <2>4 DEF Vol
    <3>2. Hist(n) /\ Last(n).sec = Last(t).sec /\ Laid(Last(n).fat, ch2)
      BY <2>2, <2>4, <3>1, FreeChainIs
    <3>3. n = u
      BY <2>3 DEF u
    <3> QED
      BY <3>2, <3>3
  <2>6. none \in Seq(Cluster)
    OBVIOUS
  <2> HIDE DEF none
  <2>7. ch2 \in Chains /\ \A y \in Key : y # x => ch2[y] = ch[y]
    BY <2>2, <2>6, PutChains
  <2>8. PlainDisk(e)
    BY <2>5, HistFacts
  <2> HIDE DEF ch2, d1, e
  <2>9. \A k \in Folder(d1) : ch2[k] = ch[k]
    BY <2>4, <2>7, FolderFacts DEF Vol
  <2>10. \A y \in Used(d1) : ch2[y] = ch[y] \/ y \in w
    BY <2>4, <2>7, KeyFacts DEF Used
  <2>11. Vol(e, ch2, home, w)
    BY <2>4, <2>5, <2>7, <2>8, <2>9, <2>10, VolFat
  <2>12. Used(e) = Used(d1) /\ \A y : At(e, y) = At(d1, y)
    BY <2>5, SameSectors
  <2>13. \A y \in Used(d) \ {x} : y \in Used(e) /\ At(e, y) = At(d, y) /\ ch2[y] = ch[y]
    BY <2>4, <2>7, <2>12, KeyFacts DEF Used
  <2>14. Keeps(d, ch, e, ch2, {x})
    BY <2>2, <2>7, <2>13, KeepsSame
  <2>15. r = [t |-> u, ok |-> TRUE]
    BY <1>1, <1>4
  <2>16. r.t = u /\ r.ok \in BOOLEAN
    BY <2>15
  <2>17. Leads(d, ch, u, w, {x})
    BY <2>5, <2>11, <2>14 DEF Leads, e
  <2> QED
    BY <1>4, <2>16, <2>17 DEF r, z
<1> QED
  BY <1>3, <1>4

\* An entry under another name.
Rename(e, m) == [e EXCEPT !.name = m]

\* It is the same but for that.
LEMMA Renamed ==
  ASSUME NEW n, NEW dir, NEW first, NEW size, NEW m
  PROVE  Rename(Dirent(n, dir, first, size), m) = Dirent(m, dir, first, size)
BY DEF Dirent, Rename

\* A rename.
LEMMA RenameLeads ==
  ASSUME NEW d, NEW ch, NEW home, NEW w, Vol(d, ch, home, w), NEW old \in Path, NEW new \in Path,
         NEW x, x = fat32_resolve(d, old).de,
         fat32_resolve(d, old).found => x \notin w /\ ~At(d, x).dir,
         ~fat32_resolve(d, new).found
  PROVE  LET r == RenameOutcome(d, old, new)
         IN  /\ Leads(d, ch, r.t, w, {x}) /\ r.ok \in BOOLEAN
             /\ ~fat32_resolve(d, old).found => r.t = <<d>>
<1> DEFINE r == RenameOutcome(d, old, new)
           z == fat32_resolve(d, old)
           dir == path_parent_cluster(d, new)
           t == PutSlot(<<d>>, x, DELETED)
           name == Last(new)
           v == [z.entry EXCEPT !.name = name]
           a == dir_add_entry(t, dir, v)
<1>1. r = IF ~z.found \/ dir = 0 THEN [t |-> <<d>>, ok |-> FALSE] ELSE a
  BY DEF RenameOutcome
<1>2. Leads(d, ch, <<d>>, w, {x})
  BY LeadsNowhere
<1> HIDE DEF r
<1>3. CASE ~z.found \/ dir = 0
  <2>1. r = [t |-> <<d>>, ok |-> FALSE]
    BY <1>1, <1>3
  <2>2. r.t = <<d>> /\ r.ok \in BOOLEAN
    BY <2>1
  <2> QED
    BY <1>2, <2>2 DEF r
<1>4. CASE z.found /\ dir # 0
  <2> DEFINE d1 == Last(t)
  <2>1. x \in Used(d) /\ z.entry = At(d, x) /\ x \notin w /\ ~At(d, x).dir
    BY <1>4, PathFound
  <2>2. /\ x \in Key /\ x # ROOT /\ x # SPARE /\ x # MORE /\ ch \in Chains
        /\ At(d, x).mark = "used" /\ At(d, x).dir = FALSE
        /\ \E first, size : At(d, x) = Dirent(At(d, x).name, At(d, x).dir, first, size)
    BY <2>1, UsedFacts DEF Vol
  <2>3. Tells(d, ch, x)
    BY <2>1 DEF Vol, Told
  <2>4. x \notin Folder(d)
    BY <2>1, <2>2, KeyFacts DEF Folder
  <2>5. /\ Hist(t) /\ Vol(d1, ch, home, w)
        /\ Used(d1) = Used(d) \ {x} /\ Folder(d1) = Folder(d) \ {x}
        /\ \A y \in Used(d) \ {x} : At(d1, y) = At(d, y)
    BY <2>1, <2>4, RemoveEntry
  <2>6. PICK k \in Folder(d) : First(ch[k]) = dir /\ new = Append(home[k], Last(new))
    BY <1>4, ParentIs
  <2>7. name \in Names \ Dots
    BY PathFacts
  <2>8. PICK first, size : At(d, x) = Dirent(At(d, x).name, FALSE, first, size)
    BY <2>2
  <2> HIDE DEF name, z
  <2>9. v = Dirent(name, FALSE, first, size)
    <3> DEFINE g == FALSE
    <3>1. PICK n : z.entry = Dirent(n, g, first, size)
      BY <2>1, <2>8
    <3>2. v = Rename(z.entry, name)
      BY DEF Rename
    <3> HIDE DEF g, v
    <3>3. v = Dirent(name, g, first, size)
      BY <3>1, <3>2, Renamed
    <3> QED
      BY <3>3 DEF g
  <2>10. v.mark = "used" /\ v.name = name /\ v.dir = FALSE /\ v.first = first /\ v.size = size /\ SlotOK(v)
    <3>1. SlotOK(v)
      BY <2>7, <2>9 DEF SlotOK
    <3> HIDE DEF v
    <3> QED
      BY <2>9, <3>1 DEF Dirent
  <2>11. first = First(ch[x]) /\ size \in Nat /\ size <= Len(ch[x]) * SECTOR
    <3>1. At(d, x).first = first /\ At(d, x).size = size
      BY <2>8 DEF Dirent
    <3> QED
      BY <2>3, <3>1 DEF Tells
  <2> HIDE DEF v, t, d1, dir
  <2>12. ch[k] # <<>>
    BY <1>4, <2>6 DEF First
  <2>13. Fits(d1, ch, home, k, x, v)
    <3>1. k \in Folder(d1) /\ x \in Key \ {ROOT, MORE} /\ x \notin Used(d1)
      BY <2>2, <2>4, <2>5, <2>6
    <3>2. Append(home[k], v.name) = new
      BY <2>6, <2>10 DEF name
    <3>3. \A o \in Used(d1) : home[o] # new
      BY <2>5, PathMissed
    <3> QED
      BY <2>7, <2>10, <2>11, <2>12, <3>1, <3>2, <3>3 DEF Fits
  <2>14. /\ Hist(a.t) /\ a.ok \in BOOLEAN /\ DOMAIN a = {"t", "ok"}
         /\ a.ok => \E ch2, home2 : /\ Vol(Last(a.t), ch2, home2, w)
                                    /\ Keeps(d1, ch, Last(a.t), ch2, {})
         /\ ~a.ok => a.t = t
    <3> DEFINE b == dir_add_entry(t, First(ch[k]), v)
    <3>1. /\ Hist(b.t) /\ b.ok \in BOOLEAN /\ DOMAIN b = {"t", "ok"}
          /\ b.ok => \E ch2, home2 : /\ Vol(Last(b.t), ch2, home2, w)
                                     /\ Keeps(Last(t), ch, Last(b.t), ch2, {})
          /\ ~b.ok => b.t = t
      BY <2>5, <2>13, AddIs DEF d1
    <3>2. a = b
      BY <2>6
    <3> QED
      BY <3>1, <3>2 DEF d1
  <2> HIDE DEF a
  <2>15. r = a
    BY <1>1, <1>4
  <2>16. CASE a.ok
    <3>1. PICK ch2, home2 : Vol(Last(a.t), ch2, home2, w) /\ Keeps(d1, ch, Last(a.t), ch2, {})
      BY <2>14, <2>16
    <3>2. Keeps(d, ch, Last(a.t), ch2, {x})
      BY <2>5, <3>1 DEF Keeps
    <3> QED
      BY <1>4, <2>14, <2>15, <3>1, <3>2 DEF Leads, r, z
  <2>17. CASE ~a.ok
    <3>1. Keeps(d, ch, d1, ch, {x})
      BY <2>2, <2>5, KeepsSame
    <3> QED
      BY <1>4, <2>5, <2>14, <2>15, <2>17, <3>1 DEF Leads, r, d1, z
  <2> QED
    BY <2>14, <2>16, <2>17
<1> QED
  BY <1>3, <1>4

------------------------------------------------------------------------------
\* Open files.

\* The fields of a descriptor.
Fields == {"used", "first", "size", "pos", "writable", "de", "buf", "dirty", "lba"}

\* A descriptor f that is open, of an entry of d whose chain is ch[f.de].
FileOK(d, ch, f) ==
  /\ DOMAIN f = Fields /\ f.used = TRUE
  /\ f.writable \in BOOLEAN /\ f.dirty \in BOOLEAN
  /\ f.de \in Used(d) /\ f.first = First(ch[f.de])
  /\ f.size \in Nat /\ f.size <= Len(ch[f.de]) * SECTOR
  /\ f.pos \in Nat /\ f.pos <= f.size
  /\ f.lba = EOC \/ \E i \in 1..Len(ch[f.de]) : f.lba = ch[f.de][i]
  /\ f.writable => ~At(d, f.de).dir
  /\ f.dirty => f.writable /\ f.lba # EOC

\* The entries that may lag while f is open.
Own(f) == IF f.writable THEN {f.de} ELSE {}

\* What a call on f leads to from volume d: s has the history and the file.
Turn(d, ch, w, f, s) ==
  /\ Hist(s.t) /\ {"t", "f"} \subseteq DOMAIN s
  /\ s.f.de = f.de /\ s.f.writable = f.writable
  /\ \E ch2, home2 : /\ Vol(Last(s.t), ch2, home2, w)
                     /\ Keeps(d, ch, Last(s.t), ch2, Own(f))
                     /\ FileOK(Last(s.t), ch2, s.f)

\* Other descriptors keep in order.
LEMMA FileKept ==
  ASSUME NEW d, NEW ch \in Chains, NEW e, NEW ch2 \in Chains, NEW X, Keeps(d, ch, e, ch2, X),
         Sectors(d), NEW f, FileOK(d, ch, f), f.de \notin X
  PROVE  FileOK(e, ch2, f)
<1> DEFINE s == ch[f.de]
           u == ch2[f.de]
<1>1. /\ f.de \in Used(e) /\ At(e, f.de) = At(d, f.de) /\ Grows(s, u) /\ f.de \in Key
  BY UsedFacts DEF Keeps, FileOK
<1>2. Len(s) \in Nat /\ Len(u) \in Nat /\ SECTOR \in Nat
  BY <1>1, Constants DEF Chains
<1>3. First(s) = First(u) /\ Len(s) <= Len(u) /\ \A i \in 1..Len(s) : u[i] = s[i]
  BY <1>1 DEF Grows
<1>4. f.size \in Nat /\ f.size <= Len(s) * SECTOR /\ f.first = First(s)
  BY DEF FileOK
<1>5. f.lba = EOC \/ \E i \in 1..Len(s) : f.lba = s[i]
  BY DEF FileOK
<1> HIDE DEF s, u
<1>6. Len(s) * SECTOR <= Len(u) * SECTOR
  <2> DEFINE m == Len(s)
             n == Len(u)
  <2>1. m \in Nat /\ n \in Nat /\ m <= n
    BY <1>2, <1>3
  <2> HIDE DEF m, n
  <2>2. m * SECTOR <= n * SECTOR
    BY <1>2, <2>1
  <2> QED
    BY <2>2 DEF m, n
<1>7. Len(s) * SECTOR \in Nat /\ Len(u) * SECTOR \in Nat
  BY <1>2
<1>8. f.size <= Len(u) * SECTOR
  BY <1>4, <1>6, <1>7
<1>9. f.lba = EOC \/ \E i \in 1..Len(u) : f.lba = u[i]
  BY <1>2, <1>3, <1>5
<1> QED
  BY <1>1, <1>3, <1>4, <1>8, <1>9 DEF FileOK, u

\* A call starts where it is.
LEMMA TurnStart ==
  ASSUME NEW d, NEW ch, NEW home, NEW w, Vol(d, ch, home, w), NEW f, FileOK(d, ch, f),
         NEW s, {"t", "f"} \subseteq DOMAIN s, s.t = <<d>>, s.f = f
  PROVE  Turn(d, ch, w, f, s)
<1>1. Hist(<<d>>) /\ Last(<<d>>) = d /\ ch \in Chains
  BY HistOne DEF Vol
<1>2. Keeps(d, ch, d, ch, Own(f))
  BY <1>1, KeepsSame
<1>3. Hist(s.t) /\ Last(s.t) = d
  BY <1>1
<1> QED
  BY <1>2, <1>3 DEF Turn

\* A call goes on from where it is.
LEMMA TurnOn ==
  ASSUME NEW d, NEW ch \in Chains, NEW w, NEW f, NEW s, Turn(d, ch, w, f, s), NEW z,
         \A ch2, home2 : Vol(Last(s.t), ch2, home2, w) /\ FileOK(Last(s.t), ch2, s.f)
                         => Turn(Last(s.t), ch2, w, s.f, z)
  PROVE  Turn(d, ch, w, f, z)
<1>1. PICK ch2, home2 : /\ Vol(Last(s.t), ch2, home2, w)
                        /\ Keeps(d, ch, Last(s.t), ch2, Own(f))
                        /\ FileOK(Last(s.t), ch2, s.f)
  BY DEF Turn
<1>2. Turn(Last(s.t), ch2, w, s.f, z)
  BY <1>1
<1>3. Own(s.f) = Own(f) /\ s.f.de = f.de /\ s.f.writable = f.writable
  BY DEF Turn, Own
<1>4. PICK ch3, home3 : /\ Vol(Last(z.t), ch3, home3, w)
                        /\ Keeps(Last(s.t), ch2, Last(z.t), ch3, Own(s.f))
                        /\ FileOK(Last(z.t), ch3, z.f)
  BY <1>2 DEF Turn
<1>5. ch2 \in Chains /\ ch3 \in Chains
  BY <1>1, <1>4 DEF Vol
<1>6. Keeps(d, ch, Last(z.t), ch3, Own(f))
  BY <1>1, <1>3, <1>4, <1>5, KeepsOn
<1> QED
  BY <1>2, <1>3, <1>4, <1>6 DEF Turn

\* Only the descriptor changes.
LEMMA TurnFile ==
  ASSUME NEW d, NEW ch, NEW w, NEW f, NEW s, Turn(d, ch, w, f, s),
         NEW z, {"t", "f"} \subseteq DOMAIN z, z.t = s.t,
         z.f.de = s.f.de, z.f.writable = s.f.writable,
         \A e, ch2 : FileOK(e, ch2, s.f) => FileOK(e, ch2, z.f)
  PROVE  Turn(d, ch, w, f, z)
BY DEF Turn

\* The cached sector is written back.
LEMMA FlushTurn ==
  ASSUME NEW s, Hist(s.t), {"t", "f"} \subseteq DOMAIN s,
         NEW ch, NEW home, NEW w, Vol(Last(s.t), ch, home, w), FileOK(Last(s.t), ch, s.f)
  PROVE  LET z == Flush(s)
         IN  /\ Hist(z.t) /\ DOMAIN z = DOMAIN s /\ Last(z.t).fat = Last(s.t).fat
             /\ Vol(Last(z.t), ch, home, w) /\ SameTree(Last(s.t), Last(z.t))
             /\ FileOK(Last(z.t), ch, z.f) /\ z.f.dirty = FALSE
             /\ \A x \in Fields \ {"dirty"} : z.f[x] = s.f[x]
<1> DEFINE d == Last(s.t)
           z == Flush(s)
           f == s.f
<1>1. CASE ~f.dirty
  <2>1. z = s
    BY <1>1 DEF Flush
  <2>2. f.dirty = FALSE
    BY <1>1 DEF FileOK
  <2>3. SameTree(d, d)
    BY DEF SameTree
  <2> HIDE DEF z, d
  <2> QED
    BY <2>1, <2>2, <2>3 DEF z, d
<1>2. CASE f.dirty
  <2> DEFINE t == write_sector(s.t, f.lba, Bytes(f.buf))
             g == [f EXCEPT !.dirty = FALSE]
             e == Last(t)
             x == f.de
             b == Bytes(f.buf)
  <2>1. z.t = t /\ z.f = g /\ DOMAIN z = DOMAIN s
    <3>1. z = [s EXCEPT !.t = write_sector(@, s.f.lba, Bytes(s.f.buf)), !.f.dirty = FALSE]
      BY <1>2 DEF Flush
    <3> HIDE DEF z
    <3> QED
      BY <3>1
  <2>2. /\ DOMAIN f = Fields /\ f.writable /\ f.lba # EOC /\ x \in Used(d)
        /\ ~At(d, x).dir /\ \E i \in 1..Len(ch[x]) : f.lba = ch[x][i]
    BY <1>2 DEF FileOK
  <2>3. PICK i \in 1..Len(ch[x]) : f.lba = ch[x][i]
    BY <2>2
  <2>4. x \in Key /\ x \notin Folder(d)
    <3>1. x \in Key /\ x # ROOT
      BY <2>2, UsedFacts DEF Vol
    <3> QED
      BY <2>2, <3>1 DEF Folder
  <2>5. f.lba \in Cluster
    BY <2>3, <2>4, LaidFacts DEF Vol, Chains
  <2>6. Hist(t) /\ e.fat = d.fat /\ e.sec = Put(d.sec, f.lba, b)
    <3> HIDE DEF b
    <3> QED
      BY <2>5, WriteSector DEF b
  <2>7. PlainDisk(e)
    BY <2>6, HistFacts
  <2>8. Quiet(b)
    <3>1. b.kind = "data" /\ SectorOK(b)
      BY SectorFacts
    <3> QED
      BY <3>1 DEF Quiet
  <2> HIDE DEF z, d, t, e, b, f, x
  <2>9. Vol(e, ch, home, w) /\ SameTree(d, e) /\ Folder(e) = Folder(d)
    <3>1. Vol(d, ch, home, w) /\ e.sec = Put(d.sec, ch[x][i], b)
      BY <2>3, <2>6 DEF d
    <3> QED
      BY <2>4, <2>6, <2>7, <2>8, <3>1, VolSector
  <2>10. /\ DOMAIN g = Fields /\ g.dirty = FALSE
         /\ \A y \in Fields \ {"dirty"} : g[y] = f[y]
    BY <2>2 DEF Fields
  <2>11. /\ g.used = f.used /\ g.first = f.first /\ g.size = f.size /\ g.pos = f.pos
         /\ g.writable = f.writable /\ g.de = f.de /\ g.lba = f.lba
    BY <2>10 DEF Fields
  <2> HIDE DEF g
  <2>12. FileOK(e, ch, g)
    <3>1. FileOK(d, ch, f)
      BY DEF d, f
    <3>2. f.de \in Used(d) /\ f.de \in Used(e) /\ At(e, f.de) = At(d, f.de)
      BY <2>9, <3>1 DEF SameTree, FileOK
    <3> QED
      BY <2>10, <2>11, <3>1, <3>2 DEF FileOK
  <2> QED
    BY <2>1, <2>6, <2>9, <2>10, <2>12 DEF z, d, e, f
<1> QED
  BY <1>1, <1>2

\* A cluster of the file becomes the cached one.
LEMMA CacheTurn ==
  ASSUME NEW s, Hist(s.t), {"t", "f"} \subseteq DOMAIN s,
         NEW ch, NEW home, NEW w, Vol(Last(s.t), ch, home, w), FileOK(Last(s.t), ch, s.f),
         NEW c, \E i \in 1..Len(ch[s.f.de]) : c = ch[s.f.de][i]
  PROVE  LET z == Cache(s, c)
         IN  /\ Hist(z.t) /\ DOMAIN z = DOMAIN s /\ Last(z.t).fat = Last(s.t).fat
             /\ Vol(Last(z.t), ch, home, w) /\ SameTree(Last(s.t), Last(z.t))
             /\ FileOK(Last(z.t), ch, z.f) /\ z.f.lba = c
             /\ \A x \in Fields \ {"dirty", "buf", "lba"} : z.f[x] = s.f[x]
<1> DEFINE d == Last(s.t)
           z == Cache(s, c)
           f == s.f
<1>1. CASE f.lba = c
  <2>1. z = s
    BY <1>1 DEF Cache
  <2>2. SameTree(d, d)
    BY DEF SameTree
  <2> HIDE DEF z, d
  <2> QED
    BY <1>1, <2>1, <2>2 DEF z, d
<1>2. CASE f.lba # c
  <2> DEFINE s1 == Flush(s)
             g == s1.f
             b == AsBytes(Last(s1.t).sec[c])
             h1 == [g EXCEPT !.buf = b]
             h == [h1 EXCEPT !.lba = c]
             e == Last(s1.t)
  <2>1. /\ Hist(s1.t) /\ DOMAIN s1 = DOMAIN s /\ e.fat = d.fat
        /\ Vol(e, ch, home, w) /\ SameTree(d, e)
        /\ FileOK(e, ch, g) /\ g.dirty = FALSE
        /\ \A x \in Fields \ {"dirty"} : g[x] = f[x]
    BY FlushTurn
  <2>2. z = [s1 EXCEPT !.f.buf = b, !.f.lba = c]
    BY <1>2 DEF Cache
  <2> HIDE DEF z, s1, b
  <2>3. z.t = s1.t /\ z.f = h /\ DOMAIN z = DOMAIN s1
    BY <2>1, <2>2
  <2> HIDE DEF d, e, f, g
  <2>4. DOMAIN g = Fields
    BY <2>1 DEF FileOK
  <2>5. DOMAIN h = Fields /\ h.lba = c /\ \A x \in Fields \ {"buf", "lba"} : h[x] = g[x]
    <3>1. DOMAIN h1 = Fields /\ \A x \in Fields \ {"buf"} : h1[x] = g[x]
      BY <2>4
    <3> HIDE DEF h1
    <3> QED
      BY <3>1 DEF Fields
  <2> HIDE DEF h, h1
  <2>6. /\ h.used = g.used /\ h.first = g.first /\ h.size = g.size /\ h.pos = g.pos
        /\ h.writable = g.writable /\ h.de = g.de /\ h.dirty = g.dirty
    BY <2>5 DEF Fields
  <2>7. g.de = f.de
    BY <2>1 DEF Fields
  <2>8. FileOK(e, ch, h)
    <3>1. \E i \in 1..Len(ch[h.de]) : h.lba = ch[h.de][i]
      BY <2>5, <2>6, <2>7 DEF f
    <3> QED
      BY <2>1, <2>5, <2>6, <3>1 DEF FileOK
  <2>9. \A x \in Fields \ {"dirty", "buf", "lba"} : h[x] = f[x]
    BY <2>1, <2>5
  <2> QED
    BY <2>1, <2>3, <2>5, <2>8, <2>9 DEF z, d, e, f
<1> QED
  BY <1>1, <1>2

\* A step that leaves the entries and the chains is a turn.
LEMMA TurnSame ==
  ASSUME NEW s, NEW ch, NEW home, NEW w, Vol(Last(s.t), ch, home, w),
         NEW z, Hist(z.t), {"t", "f"} \subseteq DOMAIN z,
         z.f.de = s.f.de, z.f.writable = s.f.writable,
         Vol(Last(z.t), ch, home, w), SameTree(Last(s.t), Last(z.t)), FileOK(Last(z.t), ch, z.f)
  PROVE  Turn(Last(s.t), ch, w, s.f, z)
<1>1. ch \in Chains
  BY DEF Vol
<1>2. Keeps(Last(s.t), ch, Last(z.t), ch, Own(s.f))
  BY <1>1, KeepsSame DEF SameTree
<1> QED
  BY <1>2 DEF Turn

\* Positions in a chain.
LEMMA Sector ==
  ASSUME NEW pos \in Nat, NEW n \in Nat, pos < n * SECTOR
  PROVE  pos \div SECTOR \in Nat /\ pos \div SECTOR < n
<1> DEFINE q == pos \div SECTOR
           r == pos % SECTOR
<1>1. SECTOR \in Nat /\ SECTOR >= 1
  BY Constants
<1>2. q \in Nat /\ r \in 0..(SECTOR - 1) /\ pos = q * SECTOR + r
  BY <1>1
<1> HIDE DEF q, r
<1>3. SUFFICES ASSUME q >= n PROVE FALSE
  BY <1>2 DEF q
<1>4. q * SECTOR >= n * SECTOR
  BY <1>1, <1>2, <1>3
<1>5. q * SECTOR \in Nat /\ n * SECTOR \in Nat
  BY <1>1, <1>2
<1> QED
  BY <1>2, <1>4, <1>5

\* A byte is read, or found missing.
LEMMA ReadByteTurn ==
  ASSUME NEW s, Hist(s.t), {"t", "f"} \subseteq DOMAIN s,
         NEW ch, NEW home, NEW w, Vol(Last(s.t), ch, home, w), FileOK(Last(s.t), ch, s.f),
         s.f.pos < s.f.size
  PROVE  LET z == ReadByte(s)
         IN  /\ Turn(Last(s.t), ch, w, s.f, z)
             /\ z.f.size = s.f.size /\ z.f.pos <= s.f.pos + 1
<1> DEFINE d == Last(s.t)
           f == s.f
           x == f.de
           q == f.pos \div SECTOR
           c == Walk(d, f.first, q)
           z == ReadByte(s)
<1>1. /\ DOMAIN ch = Key /\ Laid(d.fat, ch) /\ x \in Used(d) /\ x \in Key
      /\ f.first = First(ch[x]) /\ Len(ch[x]) \in Nat
      /\ f.size \in Nat /\ f.pos \in Nat /\ f.size <= Len(ch[x]) * SECTOR
  <2>1. x \in Used(d) /\ x \in Key
    BY UsedFacts DEF FileOK, Vol
  <2> QED
    BY <2>1, LaidFacts DEF FileOK, Vol, Chains
<1>2. q \in Nat /\ q < Len(ch[x])
  <2> DEFINE n == Len(ch[x])
             p == f.pos
  <2>1. n * SECTOR \in Nat
    BY <1>1, Constants
  <2>2. p < n * SECTOR /\ p \in Nat /\ n \in Nat
    BY <1>1, <2>1
  <2> HIDE DEF n, p
  <2>3. p \div SECTOR \in Nat /\ p \div SECTOR < n
    BY <2>2, Sector
  <2> QED
    BY <2>3 DEF n, p
<1> HIDE DEF q
<1>3. c = ch[x][q + 1] /\ q + 1 \in 1..Len(ch[x])
  BY <1>1, <1>2, WalkIs
<1>4. z = ReadAt(s, c)
  BY DEF ReadByte, q
<1> HIDE DEF c, z
<1>5. CASE c = EOC \/ s.short
  <2>1. z = [s EXCEPT !.short = TRUE]
    BY <1>4, <1>5 DEF ReadAt
  <2>2. z.t = s.t /\ z.f = s.f /\ DOMAIN z = DOMAIN s
    BY <2>1
  <2>3. SameTree(d, d)
    BY DEF SameTree
  <2>4. Turn(Last(s.t), ch, w, s.f, z)
    BY <2>2, <2>3, TurnSame
  <2>5. f.pos <= f.pos + 1
    BY <1>1
  <2> QED
    BY <2>2, <2>4, <2>5 DEF z
<1>6. CASE ~(c = EOC \/ s.short)
  <2> DEFINE u == Cache(s, c)
             g == u.f
             e == Last(u.t)
             h == [g EXCEPT !.pos = @ + 1]
  <2>1. /\ Hist(u.t) /\ DOMAIN u = DOMAIN s
        /\ Vol(e, ch, home, w) /\ SameTree(d, e)
        /\ FileOK(e, ch, g) /\ g.lba = c
        /\ \A y \in Fields \ {"dirty", "buf", "lba"} : g[y] = f[y]
    BY <1>3, CacheTurn
  <2>2. z = [u EXCEPT !.f.pos = @ + 1, !.out = Append(@, u.f.buf[u.f.pos % SECTOR])]
    BY <1>4, <1>6 DEF ReadAt, GetByte
  <2> HIDE DEF u
  <2>3. z.t = u.t /\ z.f = h /\ DOMAIN z = DOMAIN u
    BY <2>1, <2>2
  <2> HIDE DEF g, e
  <2>4. g.pos = f.pos /\ g.size = f.size /\ g.de = f.de /\ g.writable = f.writable /\ DOMAIN g = Fields
    BY <2>1 DEF FileOK, Fields
  <2>5. DOMAIN h = Fields /\ h.pos = f.pos + 1 /\ \A y \in Fields \ {"pos"} : h[y] = g[y]
    BY <2>4 DEF Fields
  <2> HIDE DEF h
  <2>6. /\ h.used = g.used /\ h.first = g.first /\ h.size = g.size /\ h.lba = g.lba
        /\ h.writable = g.writable /\ h.de = g.de /\ h.dirty = g.dirty
    BY <2>5 DEF Fields
  <2>7. h.pos \in Nat /\ h.pos <= h.size
    BY <1>1, <2>4, <2>5, <2>6
  <2>8. FileOK(e, ch, h)
    BY <2>1, <2>5, <2>6, <2>7 DEF FileOK
  <2>9. Turn(Last(s.t), ch, w, s.f, z)
    BY <2>1, <2>3, <2>4, <2>6, <2>8, TurnSame DEF e
  <2>10. h.pos <= f.pos + 1
    BY <1>1, <2>5
  <2> QED
    BY <2>3, <2>4, <2>6, <2>9, <2>10 DEF z
<1> QED
  BY <1>5, <1>6

\* The step from wherever the call is.
LEMMA ReadStep ==
  ASSUME NEW d, NEW ch \in Chains, NEW w, NEW f, NEW s, Turn(d, ch, w, f, s), s.f.pos < s.f.size
  PROVE  LET z == ReadByte(s)
         IN  Turn(d, ch, w, f, z) /\ z.f.size = s.f.size /\ z.f.pos <= s.f.pos + 1
<1> DEFINE z == ReadByte(s)
<1>1. Hist(s.t) /\ {"t", "f"} \subseteq DOMAIN s
  BY DEF Turn
<1>2. \A ch2, home2 : Vol(Last(s.t), ch2, home2, w) /\ FileOK(Last(s.t), ch2, s.f)
        => Turn(Last(s.t), ch2, w, s.f, z) /\ z.f.size = s.f.size /\ z.f.pos <= s.f.pos + 1
  BY <1>1, ReadByteTurn
<1>3. \E ch2, home2 : Vol(Last(s.t), ch2, home2, w) /\ FileOK(Last(s.t), ch2, s.f)
  BY DEF Turn
<1> HIDE DEF z
<1>4. Turn(d, ch, w, f, z)
  BY <1>2, TurnOn
<1> QED
  BY <1>2, <1>3, <1>4 DEF z

\* A read.
LEMMA ReadTurn ==
  ASSUME NEW d, NEW ch, NEW home, NEW w, Vol(d, ch, home, w), NEW f, FileOK(d, ch, f),
         NEW count \in Nat
  PROVE  Turn(d, ch, w, f, ReadOutcome(d, f, count))
<1> DEFINE start == ReadStart(d, f)
           n == IF f.pos + count > f.size THEN f.size - f.pos ELSE count
<1>1. Turn(d, ch, w, f, start)
  <2>1. start.t = <<d>> /\ start.f = f /\ {"t", "f"} \subseteq DOMAIN start
    BY DEF ReadStart
  <2> QED
    BY <2>1, TurnStart
<1>2. f.pos \in Nat /\ f.size \in Nat /\ f.pos <= f.size
  BY DEF FileOK
<1>3. CASE f.pos >= f.size
  <2>1. ReadOutcome(d, f, count) = start
    BY <1>3 DEF ReadOutcome, ReadStart
  <2> QED
    BY <1>1, <2>1
<1>4. CASE ~(f.pos >= f.size)
  <2>1. n \in Nat /\ f.pos + n <= f.size
    BY <1>2, <1>4
  <2> HIDE DEF n
  <2>2. \E p : /\ p[0] = ReadStart(d, f)
               /\ \A k \in 1..n : p[k] = ReadByte(p[k - 1])
               /\ ReadOutcome(d, f, count) = p[n]
    BY <1>4, <2>1, ReadRuns DEF n
  <2>3. PICK p : /\ p[0] = start
                 /\ \A k \in 1..n : p[k] = ReadByte(p[k - 1])
                 /\ ReadOutcome(d, f, count) = p[n]
    BY <2>2
  <2> DEFINE T == {k \in 0..n : /\ Turn(d, ch, w, f, p[k]) /\ p[k].f.size = f.size
                                /\ p[k].f.pos <= f.pos + k /\ p[k].f.pos \in Nat}
  <2>4. 0 \in T
    <3>1. start.f = f
      BY DEF ReadStart
    <3>2. f.pos <= f.pos + 0
      BY <1>2
    <3> HIDE DEF start
    <3> QED
      BY <1>1, <1>2, <2>1, <2>3, <3>1, <3>2
  <2>5. ASSUME NEW k \in 1..n, k - 1 \in T PROVE k \in T
    <3> DEFINE s == p[k - 1]
               z == p[k]
    <3>1. /\ Turn(d, ch, w, f, s) /\ s.f.size = f.size
          /\ s.f.pos <= f.pos + (k - 1) /\ s.f.pos \in Nat
      BY <2>5
    <3>2. s.f.pos < s.f.size
      BY <1>2, <2>1, <3>1
    <3>3. z = ReadByte(s) /\ ch \in Chains
      BY <2>3 DEF Vol
    <3> HIDE DEF s, z
    <3>4. Turn(d, ch, w, f, z) /\ z.f.size = s.f.size /\ z.f.pos <= s.f.pos + 1
      BY <3>1, <3>2, <3>3, ReadStep
    <3>5. z.f.pos \in Nat
      BY <3>4 DEF Turn, FileOK
    <3>6. z.f.pos <= f.pos + k
      BY <1>2, <2>1, <3>1, <3>4, <3>5
    <3> QED
      BY <3>1, <3>4, <3>5, <3>6 DEF z
  <2> HIDE DEF T
  <2>6. 0..n \subseteq T
    BY <2>1, <2>4, <2>5, RangeInduction
  <2>7. n \in T
    BY <2>1, <2>6
  <2> QED
    BY <2>3, <2>7 DEF T
<1> QED
  BY <1>3, <1>4

\* Where a byte of the file with chain ch[x] goes: r is what Reach answers.
Reaches(d, ch, home, w, x, pos, r) ==
  /\ Hist(r.t) /\ Last(r.t).sec = d.sec
  /\ \E ch2 : /\ Vol(Last(r.t), ch2, home, w)
              /\ \A y \in Key \ {x, SPARE} : ch2[y] = ch[y]
              /\ Len(ch[x]) <= Len(ch2[x]) /\ \A i \in 1..Len(ch[x]) : ch2[x][i] = ch[x][i]
              /\ r.first = First(ch2[x])
              /\ \/ r.full
                 \/ /\ \E i \in 1..Len(ch2[x]) : r.c = ch2[x][i]
                    /\ pos < Len(ch2[x]) * SECTOR

\* A volume that is only used.
LEMMA ReachesHere ==
  ASSUME NEW t, Hist(t), NEW ch, NEW home, NEW w, Vol(Last(t), ch, home, w), NEW x \in Key,
         NEW pos, NEW r, r.t = t, r.first = First(ch[x]),
         \/ r.full
         \/ (\E i \in 1..Len(ch[x]) : r.c = ch[x][i]) /\ pos < Len(ch[x]) * SECTOR
  PROVE  Reaches(Last(t), ch, home, w, x, pos, r)
<1>1. Len(ch[x]) \in Nat
  BY LaidFacts DEF Vol, Chains
<1>2. Len(ch[x]) <= Len(ch[x])
  BY <1>1
<1> QED
  BY <1>2 DEF Reaches

\* An empty file gets its first cluster.
LEMMA ReachFirst ==
  ASSUME NEW t, Hist(t), NEW ch, NEW home, NEW w, Vol(Last(t), ch, home, w), NEW x \in Key,
         x \notin Folder(Last(t)), x \in w, ch[x] = <<>>,
         NEW r, NEW c, c = FirstFree(Last(t)), r.t = fat_alloc_cluster(t), r.c = c,
         r.full = (c = 0), r.first = c
  PROVE  Reaches(Last(t), ch, home, w, x, 0, r)
<1> DEFINE d == Last(t)
<1>1. First(<<>>) = 0
  BY DEF First
<1>2. CASE c = 0
  <2>1. r.t = t
    BY <1>2 DEF fat_alloc_cluster
  <2>2. r.full
    BY <1>2
  <2>3. r.first = First(ch[x])
    BY <1>1, <1>2
  <2> QED
    BY <2>1, <2>2, <2>3, ReachesHere
<1>3. CASE c # 0
  <2> DEFINE u == fat_alloc_cluster(t)
             q == <<c>>
             ch2 == Put(ch, x, q)
  <2>1. /\ Hist(u) /\ Vol(Last(u), ch2, home, w) /\ c \in Cluster
        /\ Last(u).sec = d.sec /\ ch2[x] = q
        /\ \A y \in Key : y # x => ch2[y] = ch[y]
    BY <1>3, AllocSound
  <2>2. Len(q) = 1 /\ q[1] = c /\ First(q) = c /\ Len(ch[x]) = 0
    BY <2>1, OneCluster
  <2> HIDE DEF u, q, ch2
  <2>3. \E i \in 1..Len(ch2[x]) : c = ch2[x][i]
    BY <2>1, <2>2
  <2>4. 0 < Len(ch2[x]) * SECTOR /\ Len(ch[x]) <= Len(ch2[x])
    BY <2>1, <2>2, Constants
  <2>5. \A i \in 1..Len(ch[x]) : ch2[x][i] = ch[x][i]
    BY <2>2
  <2>6. r.t = u /\ r.first = First(ch2[x]) /\ r.c = c
    BY <2>1, <2>2 DEF u
  <2>7. \A y \in Key \ {x, SPARE} : ch2[y] = ch[y]
    BY <2>1
  <2> HIDE DEF d
  <2>8. Reaches(d, ch, home, w, x, 0, r)
    BY <2>1, <2>3, <2>4, <2>5, <2>6, <2>7 DEF Reaches
  <2> QED
    BY <2>8 DEF d
<1> QED
  BY <1>2, <1>3

\* A chain gets another cluster.
LEMMA ReachMore ==
  ASSUME NEW t, Hist(t), NEW ch, NEW home, NEW w, Vol(Last(t), ch, home, w), NEW x \in Key,
         x \notin Folder(Last(t)), x \in w, x # SPARE, ch[x] # <<>>,
         NEW pos, pos < (Len(ch[x]) + 1) * SECTOR,
         NEW c, c = FirstFree(Last(t)), c # 0,
         NEW r, r.t = fat_set_entry(fat_alloc_cluster(t), ch[x][Len(ch[x])], c), r.c = c,
         r.first = First(ch[x])
  PROVE  Reaches(Last(t), ch, home, w, x, pos, r)
<1> DEFINE d == Last(t)
           t1 == fat_alloc_cluster(t)
           d1 == Last(t1)
           q == <<c>>
           none == <<>>
           ch1 == Put(ch, SPARE, q)
           last == ch[x][Len(ch[x])]
           u == fat_set_entry(t1, last, c)
           e == Last(u)
           m == SPARE
<1>1. SPARE \in Key /\ SPARE \notin Folder(d) /\ SPARE \notin Used(d)
  BY KeyFacts DEF Used, Folder
<1>2. /\ Hist(t1) /\ Vol(d1, ch1, home, w) /\ c \in Cluster
      /\ d1.sec = d.sec /\ ch1[SPARE] = q
      /\ \A y \in Key : y # SPARE => ch1[y] = ch[y]
  BY <1>1, AllocSound
<1> HIDE DEF d, t1, d1, q, ch1, m, none
<1>3. /\ m \in Key /\ m \notin Folder(d) /\ m \notin Used(d) /\ ch1[m] = q /\ x # m
      /\ \A y \in Key : y # m => ch1[y] = ch[y]
  BY <1>1, <1>2 DEF m
<1>4. /\ ch1 \in Chains /\ DOMAIN ch1 = Key /\ Laid(d1.fat, ch1) /\ d1.fat \in Fats
      /\ ch \in Chains /\ DOMAIN ch = Key
  BY <1>2 DEF Vol, Chains, PlainDisk, d
<1>5. ch1[x] = ch[x] /\ ch1[x] # <<>> /\ Len(ch[x]) \in Nat /\ Len(ch[x]) >= 1
  <2>1. ch1[x] = ch[x] /\ ch1[x] # <<>>
    BY <1>3
  <2>2. Len(ch1[x]) \in Nat /\ Len(ch1[x]) # 0
    BY <1>4, <2>1, LaidFacts
  <2> QED
    BY <2>1, <2>2
<1>6. last \in Cluster
  BY <1>4, <1>5, LaidFacts
<1>7. Hist(u) /\ e.fat = Put(d1.fat, last, c) /\ e.sec = d1.sec
  <2>1. c \in Links
    BY <1>2 DEF Links
  <2> HIDE DEF last
  <2> QED
    BY <1>2, <1>6, <2>1, SetEntry DEF d1
<1>8. PlainDisk(e)
  BY <1>7, HistFacts
<1> HIDE DEF e, u
<1> DEFINE s == Append(ch1[x], c)
           ch3 == Put(ch1, x, s)
           ch2 == Put(ch3, m, none)
           L == Len(ch[x])
<1>9. /\ Laid(e.fat, ch2) /\ s \in Seq(Cluster) /\ Len(s) = L + 1
      /\ \A i \in 1..L : s[i] = ch[x][i]
      /\ s[L + 1] = c
  <2> DEFINE fat == d1.fat
  <2> HIDE DEF fat
  <2>1. /\ fat \in Fats /\ Laid(fat, ch1) /\ x \in DOMAIN ch1 /\ m \in DOMAIN ch1 /\ m # x
        /\ ch1[x] # <<>> /\ c \in Cluster /\ ch1[m] = <<c>>
    BY <1>2, <1>3, <1>4, <1>5 DEF fat, q
  <2>2. /\ Laid(Put(fat, ch1[x][Len(ch1[x])], c), Put(Put(ch1, x, Append(ch1[x], c)), m, <<>>))
        /\ Append(ch1[x], c) \in Seq(Cluster) /\ Len(Append(ch1[x], c)) = Len(ch1[x]) + 1
        /\ \A i \in 1..Len(ch1[x]) : Append(ch1[x], c)[i] = ch1[x][i]
        /\ Append(ch1[x], c)[Len(ch1[x]) + 1] = c
    BY <2>1, LaidJoin
  <2> QED
    BY <1>5, <1>7, <2>2 DEF none, fat
<1>10. none \in Seq(Cluster)
  BY DEF none
<1> HIDE DEF s
<1>11. ch3 \in Chains /\ ch3[x] = s /\ \A y \in Key : y # x => ch3[y] = ch1[y]
  BY <1>4, <1>9, PutChains
<1> HIDE DEF ch3
<1>12. ch2 \in Chains /\ \A y \in Key : y # m => ch2[y] = ch3[y]
  BY <1>3, <1>10, <1>11, PutChains
<1> HIDE DEF ch2, L
<1>13. \A y \in Key \ {x, m} : ch2[y] = ch[y]
  BY <1>3, <1>11, <1>12
<1>14. ch2[x] = s
  BY <1>3, <1>11, <1>12
<1>15. Used(d1) = Used(d) /\ Folder(d1) = Folder(d)
  BY <1>2, SameSectors
<1>16. \A k \in Folder(d1) : ch2[k] = ch1[k]
  <2> SUFFICES ASSUME NEW k \in Folder(d1) PROVE ch2[k] = ch1[k]
    OBVIOUS
  <2>1. k \in Key
    BY <1>2, FolderFacts DEF Vol
  <2>2. k # x /\ k # m
    BY <1>3, <1>15 DEF d
  <2> QED
    BY <1>3, <1>13, <2>1, <2>2
<1>17. \A y \in Used(d1) : ch2[y] = ch1[y] \/ y \in w
  BY <1>3, <1>13, <1>15, KeyFacts DEF Used
<1>18. Vol(e, ch2, home, w)
  BY <1>2, <1>7, <1>8, <1>9, <1>12, <1>16, <1>17, VolFat
<1>19. L \in Nat /\ L >= 1
  BY <1>5 DEF L
<1>20. r.first = First(ch2[x])
  <2>1. r.first = ch[x][1]
    BY <1>5 DEF First
  <2>2. s[1] = ch[x][1] /\ s # <<>>
    BY <1>9, <1>19
  <2> QED
    BY <1>14, <2>1, <2>2 DEF First
<1>21. (\E i \in 1..Len(ch2[x]) : r.c = ch2[x][i]) /\ pos < Len(ch2[x]) * SECTOR
  BY <1>9, <1>14, <1>19 DEF L
<1>22. L <= Len(ch2[x]) /\ \A i \in 1..L : ch2[x][i] = ch[x][i]
  BY <1>9, <1>14, <1>19
<1>23. r.t = u /\ e.sec = d.sec
  BY <1>2, <1>7 DEF u, t1
<1>24. Reaches(d, ch, home, w, x, pos, r)
  BY <1>7, <1>13, <1>18, <1>20, <1>21, <1>22, <1>23 DEF Reaches, L, m, e
<1> QED
  BY <1>24 DEF d

\* Sectors that are reached.
LEMMA SectorEnd ==
  ASSUME NEW pos \in Nat, NEW n \in Nat, n = pos \div SECTOR
  PROVE  /\ pos < (n + 1) * SECTOR
         /\ \A m \in Nat : n < m => pos < m * SECTOR
         /\ \A m \in Nat : pos <= m * SECTOR => n <= m
<1>1. SECTOR \in Nat /\ SECTOR >= 1
  BY Constants
<1>2. pos % SECTOR \in 0..(SECTOR - 1) /\ pos = n * SECTOR + (pos % SECTOR)
  BY <1>1
<1> DEFINE r == pos % SECTOR
<1>3. r \in 0..(SECTOR - 1) /\ pos = n * SECTOR + r
  BY <1>2
<1> HIDE DEF r
<1>4. n * SECTOR \in Nat /\ (n + 1) * SECTOR = n * SECTOR + SECTOR
  BY <1>1
<1>5. pos < (n + 1) * SECTOR
  BY <1>1, <1>3, <1>4
<1>6. ASSUME NEW m \in Nat, n < m PROVE pos < m * SECTOR
  <2>1. (n + 1) * SECTOR <= m * SECTOR
    BY <1>1, <1>6
  <2>2. m * SECTOR \in Nat /\ (n + 1) * SECTOR \in Nat
    BY <1>1
  <2> QED
    BY <1>5, <2>1, <2>2
<1>7. ASSUME NEW m \in Nat, pos <= m * SECTOR PROVE n <= m
  <2> SUFFICES ASSUME n > m PROVE FALSE
    OBVIOUS
  <2>1. (m + 1) * SECTOR <= n * SECTOR
    BY <1>1
  <2>2. (m + 1) * SECTOR = m * SECTOR + SECTOR /\ m * SECTOR \in Nat
    BY <1>1
  <2> QED
    BY <1>1, <1>3, <1>4, <1>7, <2>1, <2>2
<1> QED
  BY <1>5, <1>6, <1>7

\* A cluster that is there.
Spot(t, c) == [t |-> t, c |-> c, full |-> FALSE]

\* What a step of Reach's recursion is, at a cluster of the chain.
LEMMA GrowIs ==
  ASSUME NEW t, NEW c, NEW r, r = Grow(Spot(t, c)),
         NEW n, n = FirstFree(Last(t))
  PROVE  /\ Last(t).fat[c] # EOC => r = Spot(t, Last(t).fat[c])
         /\ Last(t).fat[c] = EOC =>
              /\ n = 0 => r.t = t /\ r.full
              /\ n # 0 => r.t = fat_set_entry(fat_alloc_cluster(t), c, n) /\ r.c = n
<1> DEFINE r0 == Spot(t, c)
           new == Taken(t)
<1>1. r0.t = t /\ r0.c = c /\ r0.full = FALSE
  BY DEF Spot
<1>2. r = IF Last(t).fat[c] # EOC THEN [r0 EXCEPT !.c = Last(t).fat[c]] ELSE Link(c, new)
  BY <1>1 DEF Grow
<1>3. new = [t |-> fat_alloc_cluster(t), c |-> n, full |-> n = 0]
  BY DEF Taken
<1>4. CASE Last(t).fat[c] # EOC
  BY <1>2, <1>4 DEF Spot
<1>5. CASE Last(t).fat[c] = EOC
  <2>1. r = Link(c, new)
    BY <1>2, <1>5
  <2> HIDE DEF new
  <2>2. CASE n = 0
    <3>1. new.full /\ fat_alloc_cluster(t) = t
      BY <1>3, <2>2 DEF fat_alloc_cluster
    <3>2. r = new /\ r.t = t
      BY <1>3, <2>1, <3>1 DEF Link
    <3> QED
      BY <1>5, <2>2, <3>1, <3>2
  <2>3. CASE n # 0
    <3>1. ~new.full /\ new.c = n
      BY <1>3, <2>3
    <3>2. r = [new EXCEPT !.t = fat_set_entry(@, c, new.c)]
      BY <2>1, <3>1 DEF Link
    <3>3. r.t = fat_set_entry(fat_alloc_cluster(t), c, n) /\ r.c = n
      BY <1>3, <3>1, <3>2
    <3> QED
      BY <1>5, <2>3, <3>3
  <2> QED
    BY <2>2, <2>3
<1> QED
  BY <1>4, <1>5

\* Reaching for a byte in a file or right behind it.
LEMMA ReachIs ==
  ASSUME NEW t, Hist(t), NEW ch, NEW home, NEW w, Vol(Last(t), ch, home, w),
         NEW x \in Used(Last(t)), ~At(Last(t), x).dir, x \in w,
         NEW f, f.first = First(ch[x]), f.pos \in Nat, f.pos <= Len(ch[x]) * SECTOR
  PROVE  Reaches(Last(t), ch, home, w, x, f.pos, Reach(t, f))
<1> DEFINE d == Last(t)
           n == f.pos \div SECTOR
           s == ch[x]
           L == Len(s)
           r == Reach(t, f)
<1>1. x \in Key /\ x # ROOT /\ x # SPARE /\ x \notin Folder(d)
  <2>1. x \in Key /\ x # ROOT /\ x # SPARE
    BY UsedFacts DEF Vol
  <2> QED
    BY <2>1 DEF Folder
<1>2. /\ Laid(d.fat, ch) /\ DOMAIN ch = Key /\ L \in Nat /\ (s = <<>> <=> L = 0)
      /\ \A i \in 1..L : s[i] \in Cluster /\ Link1(d.fat, s, i)
  <2>1. Laid(d.fat, ch) /\ DOMAIN ch = Key
    BY DEF Vol, Chains
  <2> QED
    BY <1>1, <2>1, LaidFacts
<1>3. n \in Nat
  BY Constants
<1>4. PICK p : /\ p[0] = Start(t, f)
               /\ \A k \in 1..n : p[k] = Grow(p[k - 1])
               /\ r = Reached(t, f, p[n])
  BY <1>3, ReachRuns
<1>5. /\ f.pos < (n + 1) * SECTOR
      /\ n < L => f.pos < L * SECTOR
      /\ n <= L
  BY <1>2, <1>3, SectorEnd
<1>6. r.t = p[n].t /\ r.c = p[n].c /\ r.full = p[n].full /\ r.first = Start(t, f).c
  BY <1>4 DEF Reached
<1> HIDE DEF n, r, s, L
<1>7. CASE s = <<>>
  <2> DEFINE c == FirstFree(d)
  <2>1. f.first = 0
    BY <1>7 DEF First, s
  <2>2. n = 0 /\ f.pos = 0
    <3>1. L = 0
      BY <1>2, <1>7
    <3>2. L * SECTOR = 0
      BY <3>1, Constants
    <3> QED
      BY <1>3, <1>5, <3>1, <3>2 DEF L, s
  <2>3. Start(t, f) = [t |-> fat_alloc_cluster(t), c |-> c, full |-> c = 0]
    BY <2>1 DEF Start, Taken
  <2>4. r.t = fat_alloc_cluster(t) /\ r.c = c /\ r.full = (c = 0) /\ r.first = c
    BY <1>4, <1>6, <2>2, <2>3
  <2>5. c = FirstFree(Last(t)) /\ ch[x] = <<>> /\ x \notin Folder(Last(t))
    BY <1>1, <1>7 DEF s
  <2> HIDE DEF c, d
  <2>6. Reaches(Last(t), ch, home, w, x, 0, r)
    BY <1>1, <2>4, <2>5, ReachFirst
  <2> QED
    BY <2>2, <2>6 DEF r
<1>8. CASE s # <<>>
  <2> DEFINE At1(k) == Spot(t, s[k + 1])
  <2>1. L >= 1 /\ f.first = s[1] /\ f.first # 0
    <3>1. L >= 1 /\ f.first = s[1]
      BY <1>2, <1>8 DEF First, s
    <3>2. s[1] \in Cluster
      BY <1>2, <3>1
    <3> QED
      BY <3>1, <3>2, ClusterFacts
  <2>2. Start(t, f) = At1(0)
    BY <2>1 DEF Start, Spot
  <2> DEFINE T == {k \in 0..n : k < L => p[k] = At1(k)}
  <2>3. 0 \in T
    BY <1>3, <1>4, <2>2
  <2>4. ASSUME NEW k \in 1..n, k - 1 \in T PROVE k \in T
    <3> SUFFICES ASSUME k < L PROVE p[k] = At1(k)
      BY <1>3
    <3>1. p[k - 1] = Spot(t, s[k])
      <4>1. k - 1 < L /\ (k - 1) + 1 = k
        BY <1>2, <1>3
      <4> QED
        BY <2>4, <4>1
    <3>2. k \in 1..L /\ k + 1 \in 1..L
      BY <1>2, <1>3
    <3>3. d.fat[s[k]] = s[k + 1] /\ s[k + 1] \in Cluster
      BY <1>2, <3>2 DEF Link1, L
    <3>4. d.fat[s[k]] # EOC
      BY <3>3, ClusterFacts
    <3> DEFINE c == s[k]
    <3>5. p[k] = Grow(Spot(t, c))
      BY <1>4, <3>1
    <3> HIDE DEF c
    <3>6. p[k] = Spot(t, d.fat[c])
      <4> DEFINE g == p[k]
                 z == FirstFree(Last(t))
      <4>1. g = Grow(Spot(t, c)) /\ z = FirstFree(Last(t))
        BY <3>5
      <4>2. Last(t).fat[c] # EOC
        BY <3>4 DEF c
      <4> HIDE DEF z, g, d
      <4>3. g = Spot(t, Last(t).fat[c])
        BY <4>1, <4>2, GrowIs
      <4> QED
        BY <4>3 DEF g, d
    <3> QED
      BY <3>3, <3>6 DEF c
  <2>5. 0..n \subseteq T
    <3> HIDE DEF T
    <3> QED
      BY <1>3, <2>3, <2>4, RangeInduction
  <2>6. \A k \in 0..n : k < L => p[k] = At1(k)
    BY <2>5
  <2>7. r.first = First(ch[x])
    BY <1>6, <2>1, <2>2 DEF Spot
  <2>8. CASE n < L
    <3>1. p[n] = At1(n)
      BY <1>3, <2>6, <2>8
    <3>2. r.t = t /\ r.c = s[n + 1] /\ n + 1 \in 1..L
      BY <1>2, <1>3, <1>6, <2>8, <3>1 DEF Spot
    <3>3. (\E i \in 1..Len(ch[x]) : r.c = ch[x][i]) /\ f.pos < Len(ch[x]) * SECTOR
      BY <1>5, <2>8, <3>2 DEF s, L
    <3>4. Reaches(Last(t), ch, home, w, x, f.pos, r)
      BY <1>1, <2>7, <3>2, <3>3, ReachesHere
    <3> QED
      BY <3>4 DEF r
  <2>9. CASE n = L
    <3> DEFINE c == s[L]
               z == FirstFree(d)
    <3>1. p[n - 1] = Spot(t, c)
      <4>1. n - 1 \in 0..n /\ n - 1 < L /\ (n - 1) + 1 = L
        BY <1>2, <1>3, <2>1, <2>9
      <4> QED
        BY <2>6, <4>1
    <3>2. p[n] = Grow(Spot(t, c))
      <4>1. n \in 1..n
        BY <1>3, <2>1, <2>9
      <4> QED
        BY <1>4, <3>1, <4>1
    <3>3. d.fat[c] = EOC
      <4>1. L \in 1..L
        BY <1>2, <2>1
      <4> QED
        BY <1>2, <4>1 DEF Link1, L
    <3> HIDE DEF c
    <3>4. /\ z = 0 => p[n].t = t /\ p[n].full
          /\ z # 0 => p[n].t = fat_set_entry(fat_alloc_cluster(t), c, z) /\ p[n].c = z
      <4> DEFINE g == p[n]
      <4>1. g = Grow(Spot(t, c)) /\ z = FirstFree(Last(t))
        BY <3>2
      <4>2. Last(t).fat[c] = EOC
        BY <3>3
      <4> HIDE DEF z, g, d
      <4>3. /\ z = 0 => g.t = t /\ g.full
            /\ z # 0 => g.t = fat_set_entry(fat_alloc_cluster(t), c, z) /\ g.c = z
        BY <4>1, <4>2, GrowIs
      <4> QED
        BY <4>3 DEF g
    <3> HIDE DEF z
    <3>5. CASE z = 0
      <4>1. r.t = t /\ r.full
        BY <1>6, <3>4, <3>5
      <4>2. Reaches(Last(t), ch, home, w, x, f.pos, r)
        BY <1>1, <2>7, <4>1, ReachesHere
      <4> QED
        BY <4>2 DEF r
    <3>6. CASE z # 0
      <4> DEFINE pos == f.pos
      <4>1. r.t = fat_set_entry(fat_alloc_cluster(t), ch[x][Len(ch[x])], z) /\ r.c = z
        BY <1>6, <3>4, <3>6 DEF c, s, L
      <4>2. pos < (Len(ch[x]) + 1) * SECTOR
        BY <1>5, <2>9 DEF s, L
      <4>3. z = FirstFree(Last(t)) /\ ch[x] # <<>> /\ x \notin Folder(Last(t))
        BY <1>1, <1>8 DEF s, z
      <4> HIDE DEF pos, d
      <4>4. Reaches(Last(t), ch, home, w, x, pos, r)
        BY <1>1, <2>7, <3>6, <4>1, <4>2, <4>3, ReachMore
      <4> QED
        BY <4>4 DEF r, pos
    <3> QED
      BY <3>5, <3>6
  <2> QED
    BY <1>2, <1>3, <1>5, <2>8, <2>9
<1> QED
  BY <1>7, <1>8

\* A byte goes into the cached sector, and the file ends behind it at least.
LEMMA PutByteIs ==
  ASSUME NEW s, {"t", "f"} \subseteq DOMAIN s, NEW e, NEW ch, FileOK(e, ch, s.f), NEW b,
         s.f.writable, s.f.lba # EOC, s.f.pos < Len(ch[s.f.de]) * SECTOR
  PROVE  LET z == PutByte(s, b)
         IN  /\ {"t", "f"} \subseteq DOMAIN z /\ z.t = s.t /\ FileOK(e, ch, z.f)
             /\ z.f.de = s.f.de /\ z.f.writable = s.f.writable
<1> DEFINE f == s.f
           z == PutByte(s, b)
           size == IF f.pos + 1 > f.size THEN f.pos + 1 ELSE f.size
           k == f.pos % SECTOR
           f1 == [f EXCEPT !.buf = [@ EXCEPT ![k] = b]]
           f2 == [f1 EXCEPT !.dirty = TRUE]
           f3 == [f2 EXCEPT !.pos = @ + 1]
           f4 == [f3 EXCEPT !.size = IF s.f.pos + 1 > @ THEN s.f.pos + 1 ELSE @]
<1>1. z.t = s.t /\ z.f = f4 /\ DOMAIN z = DOMAIN s
  <2>1. z = [s EXCEPT !.f.buf[s.f.pos % SECTOR] = b, !.f.dirty = TRUE, !.f.pos = @ + 1,
                      !.n = @ + 1, !.f.size = IF s.f.pos + 1 > @ THEN s.f.pos + 1 ELSE @]
    BY DEF PutByte
  <2> HIDE DEF z
  <2> QED
    BY <2>1
<1> HIDE DEF z
<1>2. DOMAIN f = Fields
  BY DEF FileOK
<1>3. DOMAIN f1 = Fields /\ \A x \in Fields \ {"buf"} : f1[x] = f[x]
  BY <1>2
<1> HIDE DEF f1
<1>4. DOMAIN f2 = Fields /\ f2.dirty = TRUE /\ \A x \in Fields \ {"dirty"} : f2[x] = f1[x]
  BY <1>3 DEF Fields
<1> HIDE DEF f2
<1>5. DOMAIN f3 = Fields /\ f3.pos = f2.pos + 1 /\ \A x \in Fields \ {"pos"} : f3[x] = f2[x]
  BY <1>4 DEF Fields
<1>6. f2.pos = f.pos /\ f2.size = f.size
  BY <1>3, <1>4 DEF Fields
<1> HIDE DEF f3
<1>7. f3.size = f.size /\ f3.pos = f.pos + 1
  BY <1>5, <1>6 DEF Fields
<1>8. DOMAIN f4 = Fields /\ f4.size = size /\ \A x \in Fields \ {"size"} : f4[x] = f3[x]
  BY <1>5, <1>7 DEF Fields
<1> HIDE DEF f4
<1>9. /\ f4.used = f.used /\ f4.first = f.first /\ f4.lba = f.lba /\ f4.de = f.de
      /\ f4.writable = f.writable
  <2>1. \A x \in Fields \ {"buf", "dirty", "pos", "size"} : f4[x] = f[x]
    BY <1>3, <1>4, <1>5, <1>8
  <2> HIDE DEF f
  <2> QED
    BY <2>1 DEF Fields
<1>10. f4.pos = f.pos + 1 /\ f4.dirty = TRUE /\ f4.size = size
  BY <1>4, <1>5, <1>7, <1>8 DEF Fields
<1>11. f.pos \in Nat /\ f.size \in Nat /\ f.size <= Len(ch[f.de]) * SECTOR
       /\ f.pos < Len(ch[f.de]) * SECTOR
  BY DEF FileOK
<1>12. f4.size \in Nat /\ f4.pos \in Nat /\ f4.pos <= f4.size
  BY <1>10, <1>11
<1>13. f4.size <= Len(ch[f.de]) * SECTOR
  <2> DEFINE m == Len(ch[f.de]) * SECTOR
  <2>1. f.pos < m /\ f.size <= m
    BY <1>11
  <2>2. Int = Int /\ (m \in Int => f4.size <= m)
    <3> HIDE DEF m
    <3> QED
      BY <1>10, <1>11, <2>1
  <2>3. m \in Int
    BY <1>11, Constants DEF FileOK
  <2> QED
    BY <2>2, <2>3
<1>14. FileOK(e, ch, f4)
  BY <1>8, <1>9, <1>10, <1>12, <1>13 DEF FileOK
<1> QED
  BY <1>1, <1>9, <1>14 DEF z, f

\* A byte is written, or finds no room.
LEMMA WriteByteTurn ==
  ASSUME NEW s, Hist(s.t), {"t", "f"} \subseteq DOMAIN s,
         NEW ch, NEW home, NEW w, Vol(Last(s.t), ch, home, w), FileOK(Last(s.t), ch, s.f),
         s.f.writable, s.f.de \in w, NEW b
  PROVE  Turn(Last(s.t), ch, w, s.f, WriteByte(s, b))
<1> DEFINE d == Last(s.t)
           f == s.f
           x == f.de
           r == Reach(s.t, f)
           e == Last(r.t)
           here == [s EXCEPT !.t = r.t, !.f.first = r.first]
           g == [f EXCEPT !.first = r.first]
           z == WriteByte(s, b)
<1>1. /\ x \in Used(d) /\ ~At(d, x).dir /\ x \in Key /\ x # SPARE /\ ch \in Chains
      /\ Len(ch[x]) \in Nat /\ DOMAIN f = Fields
      /\ f.first = First(ch[x]) /\ f.pos \in Nat /\ f.size \in Nat
      /\ f.size <= Len(ch[x]) * SECTOR /\ f.pos <= f.size /\ f.used = TRUE
      /\ f.lba = EOC \/ \E i \in 1..Len(ch[x]) : f.lba = ch[x][i]
      /\ f.writable \in BOOLEAN /\ f.dirty \in BOOLEAN
      /\ f.dirty => f.writable /\ f.lba # EOC
  <2>1. x \in Used(d) /\ x \in Key /\ x # SPARE
    BY UsedFacts DEF FileOK, Vol
  <2> QED
    BY <2>1, LaidFacts DEF FileOK, Vol, Chains
<1>2. f.pos <= Len(ch[x]) * SECTOR
  <2> DEFINE m == Len(ch[x]) * SECTOR
  <2>1. m \in Nat /\ f.size <= m
    BY <1>1, Constants
  <2> HIDE DEF m
  <2>2. f.pos <= m
    BY <1>1, <2>1
  <2> QED
    BY <2>2 DEF m
<1>3. Reaches(d, ch, home, w, x, f.pos, r)
  <2> DEFINE t == s.t
  <2>1. Hist(t) /\ Vol(Last(t), ch, home, w) /\ x \in Used(Last(t)) /\ ~At(Last(t), x).dir
    BY <1>1
  <2> HIDE DEF t, x, f
  <2>2. x \in w
    BY DEF x, f
  <2>3. Reaches(Last(t), ch, home, w, x, f.pos, Reach(t, f))
    BY <1>1, <1>2, <2>1, <2>2, ReachIs
  <2> QED
    BY <2>3 DEF t
<1>4. z = IF s.short \/ r.full THEN [here EXCEPT !.short = TRUE] ELSE PutByte(Cache(here, r.c), b)
  BY DEF WriteByte, WriteAt
<1> HIDE DEF z
<1>5. here.t = r.t /\ here.f = g /\ DOMAIN here = DOMAIN s
  OBVIOUS
<1>6. Hist(r.t) /\ e.sec = d.sec
  BY <1>3 DEF Reaches
<1>7. PICK ch2 : /\ Vol(e, ch2, home, w)
                 /\ \A y \in Key \ {x, SPARE} : ch2[y] = ch[y]
                 /\ Len(ch[x]) <= Len(ch2[x]) /\ \A i \in 1..Len(ch[x]) : ch2[x][i] = ch[x][i]
                 /\ r.first = First(ch2[x])
                 /\ \/ r.full
                    \/ /\ \E i \in 1..Len(ch2[x]) : r.c = ch2[x][i]
                       /\ f.pos < Len(ch2[x]) * SECTOR
  BY <1>3 DEF Reaches
<1>8. ch2 \in Chains /\ Len(ch2[x]) \in Nat
  <2>1. ch2 \in Chains
    BY <1>7 DEF Vol
  <2> QED
    BY <1>1, <2>1 DEF Chains
<1> HIDE DEF here, r
<1>9. DOMAIN g = Fields /\ g.first = r.first /\ \A y \in Fields \ {"first"} : g[y] = f[y]
  BY <1>1 DEF Fields
<1> HIDE DEF g
<1>10. /\ g.used = f.used /\ g.size = f.size /\ g.pos = f.pos /\ g.lba = f.lba
       /\ g.writable = f.writable /\ g.de = f.de /\ g.dirty = f.dirty
  BY <1>9 DEF Fields
<1>11. Used(e) = Used(d) /\ \A y : At(e, y) = At(d, y)
  BY <1>6, SameSectors
<1>12. FileOK(e, ch2, g)
  <2>1. g.size <= Len(ch2[x]) * SECTOR
    <3> DEFINE m == Len(ch[x])
               n == Len(ch2[x])
    <3>1. m \in Nat /\ n \in Nat /\ m <= n /\ f.size <= m * SECTOR
      BY <1>1, <1>7, <1>8
    <3> HIDE DEF m, n
    <3>2. m * SECTOR <= n * SECTOR /\ m * SECTOR \in Nat /\ n * SECTOR \in Nat
      BY <3>1, Constants
    <3>3. f.size <= n * SECTOR
      BY <1>1, <3>1, <3>2
    <3> QED
      BY <1>10, <3>3 DEF n
  <2>2. g.lba = EOC \/ \E i \in 1..Len(ch2[x]) : g.lba = ch2[x][i]
    BY <1>1, <1>7, <1>8, <1>10
  <2>3. g.first = First(ch2[x]) /\ g.de = x
    BY <1>7, <1>9, <1>10
  <2> HIDE DEF x, e, d, f
  <2> QED
    BY <1>1, <1>9, <1>10, <1>11, <2>1, <2>2, <2>3 DEF FileOK
<1>13. Keeps(d, ch, e, ch2, {x})
  <2>1. \A y \in Used(d) \ {x} : y \in Used(e) /\ At(e, y) = At(d, y) /\ ch2[y] = ch[y]
    <3>1. \A y \in Used(d) : y \in Key /\ y # SPARE
      BY KeyFacts DEF Used
    <3> QED
      BY <1>7, <1>11, <3>1
  <2> QED
    BY <1>1, <1>8, <2>1, KeepsSame
<1>14. Own(f) = {x}
  BY DEF Own
<1> HIDE DEF f, x, e, d
<1>15. CASE s.short \/ r.full
  <2>1. z = [here EXCEPT !.short = TRUE]
    BY <1>4, <1>15
  <2>2. z.t = r.t /\ z.f = g /\ {"t", "f"} \subseteq DOMAIN z
    BY <1>5, <2>1
  <2> QED
    BY <1>6, <1>7, <1>10, <1>12, <1>13, <1>14, <2>2 DEF Turn, e, d, f, z
<1>16. CASE ~(s.short \/ r.full)
  <2> DEFINE u == Cache(here, r.c)
             c == r.c
             e2 == Last(u.t)
  <2>1. \E i \in 1..Len(ch2[here.f.de]) : c = ch2[here.f.de][i]
    BY <1>5, <1>7, <1>10, <1>16 DEF x
  <2>2. /\ Hist(here.t) /\ {"t", "f"} \subseteq DOMAIN here /\ Vol(Last(here.t), ch2, home, w)
        /\ FileOK(Last(here.t), ch2, here.f)
    BY <1>5, <1>6, <1>7, <1>12 DEF e
  <2> HIDE DEF c
  <2>3. /\ Hist(u.t) /\ DOMAIN u = DOMAIN here
        /\ Vol(e2, ch2, home, w) /\ SameTree(Last(here.t), e2)
        /\ FileOK(e2, ch2, u.f) /\ u.f.lba = c
        /\ \A y \in Fields \ {"dirty", "buf", "lba"} : u.f[y] = here.f[y]
    <3> DEFINE v == Cache(here, c)
    <3>1. /\ Hist(v.t) /\ DOMAIN v = DOMAIN here
          /\ Vol(Last(v.t), ch2, home, w) /\ SameTree(Last(here.t), Last(v.t))
          /\ FileOK(Last(v.t), ch2, v.f) /\ v.f.lba = c
          /\ \A y \in Fields \ {"dirty", "buf", "lba"} : v.f[y] = here.f[y]
      BY <2>1, <2>2, CacheTurn
    <3>2. u = v
      BY DEF c
    <3> HIDE DEF u, v
    <3> QED
      BY <3>1, <3>2
  <2> HIDE DEF u
  <2>4. u.f.de = f.de /\ u.f.writable = f.writable /\ u.f.pos = f.pos
    BY <1>5, <1>10, <2>3 DEF Fields
  <2>5. c # EOC
    <3>1. PICK i \in 1..Len(ch2[x]) : c = ch2[x][i]
      BY <1>7, <1>16 DEF c
    <3>2. c \in Cluster
      BY <1>1, <1>7, <3>1, LaidFacts DEF Vol, Chains
    <3> QED
      BY <3>2, ClusterFacts
  <2>6. f.writable /\ u.f.pos < Len(ch2[u.f.de]) * SECTOR
    BY <1>7, <1>16, <2>4 DEF f, x
  <2>7. z = PutByte(u, b)
    BY <1>4, <1>16 DEF u
  <2> HIDE DEF e2
  <2>8. /\ {"t", "f"} \subseteq DOMAIN z /\ z.t = u.t /\ FileOK(e2, ch2, z.f)
        /\ z.f.de = u.f.de /\ z.f.writable = u.f.writable
    <3> DEFINE v == PutByte(u, b)
    <3>1. {"t", "f"} \subseteq DOMAIN u
      BY <1>5, <2>3
    <3>2. /\ {"t", "f"} \subseteq DOMAIN v /\ v.t = u.t /\ FileOK(e2, ch2, v.f)
          /\ v.f.de = u.f.de /\ v.f.writable = u.f.writable
      BY <2>3, <2>4, <2>5, <2>6, <3>1, PutByteIs
    <3> QED
      BY <2>7, <3>2
  <2>9. Last(here.t) = e
    BY <1>5 DEF e
  <2>10. Keeps(e, ch2, e2, ch2, {x})
    BY <1>8, <2>3, <2>9, KeepsSame DEF SameTree
  <2>11. Keeps(d, ch, e2, ch2, {x})
    BY <1>1, <1>8, <1>13, <2>10, KeepsOn
  <2>12. Turn(d, ch, w, f, z)
    BY <1>14, <2>3, <2>4, <2>8, <2>11 DEF Turn, e2
  <2> QED
    BY <2>12 DEF d, f, z
<1> QED
  BY <1>15, <1>16

\* A write.
LEMMA WriteTurn ==
  ASSUME NEW d, NEW ch, NEW home, NEW w, Vol(d, ch, home, w), NEW f, FileOK(d, ch, f),
         f.writable, f.de \in w, NEW bytes, Len(bytes) \in Nat
  PROVE  Turn(d, ch, w, f, WriteOutcome(d, f, bytes))
<1> DEFINE start == WriteStart(d, f)
           n == Len(bytes)
<1>1. Turn(d, ch, w, f, start)
  <2>1. start.t = <<d>> /\ start.f = f /\ {"t", "f"} \subseteq DOMAIN start
    BY DEF WriteStart
  <2> QED
    BY <2>1, TurnStart
<1>2. PICK p : /\ p[0] = start
               /\ \A k \in 1..n : p[k] = WriteByte(p[k - 1], bytes[k])
               /\ WriteOutcome(d, f, bytes) = p[n]
  BY WriteRuns
<1> DEFINE T == {k \in 0..n : Turn(d, ch, w, f, p[k])}
<1>3. 0 \in T
  BY <1>1, <1>2
<1>4. ASSUME NEW k \in 1..n, k - 1 \in T PROVE k \in T
  <2> DEFINE s == p[k - 1]
             z == p[k]
             b == bytes[k]
  <2>1. Turn(d, ch, w, f, s) /\ z = WriteByte(s, b) /\ ch \in Chains
    BY <1>2, <1>4 DEF Vol
  <2> HIDE DEF s, z, b
  <2>2. /\ Hist(s.t) /\ {"t", "f"} \subseteq DOMAIN s
        /\ s.f.de \in w /\ s.f.writable
    BY <2>1 DEF Turn
  <2>3. \A ch2, home2 : Vol(Last(s.t), ch2, home2, w) /\ FileOK(Last(s.t), ch2, s.f)
          => Turn(Last(s.t), ch2, w, s.f, z)
    BY <2>1, <2>2, WriteByteTurn
  <2>4. Turn(d, ch, w, f, z)
    BY <2>1, <2>3, TurnOn
  <2> QED
    BY <2>4 DEF z
<1> HIDE DEF T, n
<1>5. 0..n \subseteq T
  BY <1>3, <1>4, RangeInduction DEF n
<1>6. n \in T
  BY <1>5 DEF n
<1> QED
  BY <1>2, <1>6 DEF T

\* An entry with another size and another first cluster.
Sized(e, size, first) == [[e EXCEPT !.size = size] EXCEPT !.first = first]

\* It is the same but for these.
LEMMA SizedIs ==
  ASSUME NEW n, NEW dir, NEW first, NEW size, NEW first2, NEW size2
  PROVE  Sized(Dirent(n, dir, first, size), size2, first2) = Dirent(n, dir, first2, size2)
<1> DEFINE e == Dirent(n, dir, first, size)
           e1 == [e EXCEPT !.size = size2]
<1>1. e1 = Dirent(n, dir, first, size2)
  BY DEF Dirent
<1>2. Sized(e, size2, first2) = [Dirent(n, dir, first, size2) EXCEPT !.first = first2]
  BY <1>1 DEF Sized
<1>3. [Dirent(n, dir, first, size2) EXCEPT !.first = first2] = Dirent(n, dir, first2, size2)
  BY DEF Dirent
<1> QED
  BY <1>2, <1>3

\* A close: what a writer knew goes into its entry.
LEMMA CloseLeads ==
  ASSUME NEW d, NEW ch, NEW home, NEW w, Vol(d, ch, home, w), NEW f, FileOK(d, ch, f)
  PROVE  Leads(d, ch, CloseOutcome(d, f), w \ Own(f), Own(f))
<1> DEFINE s == [t |-> <<d>>, f |-> f]
           t == Flush(s).t
           x == f.de
           e == Last(t)
           v == [At(e, x) EXCEPT !.size = f.size, !.first = f.first]
           u == PutSlot(t, x, v)
<1>1. CloseOutcome(d, f) = IF f.writable THEN u ELSE t
  BY DEF CloseOutcome
<1>2. /\ Hist(s.t) /\ {"t", "f"} \subseteq DOMAIN s /\ Last(s.t) = d /\ s.f = f
  <2>1. Hist(<<d>>) /\ Last(<<d>>) = d
    BY HistOne DEF Vol
  <2> QED
    BY <2>1
<1> HIDE DEF s
<1>3. /\ Hist(t) /\ Vol(e, ch, home, w) /\ SameTree(d, e)
  <2> DEFINE z == Flush(s)
  <2>1. Vol(Last(s.t), ch, home, w) /\ FileOK(Last(s.t), ch, s.f)
    BY <1>2
  <2>2. Hist(z.t) /\ Vol(Last(z.t), ch, home, w) /\ SameTree(Last(s.t), Last(z.t))
    BY <1>2, <2>1, FlushTurn
  <2> QED
    BY <1>2, <2>2
<1> HIDE DEF t
<1>4. ch \in Chains
  BY DEF Vol
<1>5. CASE ~f.writable
  <2>1. Own(f) = {} /\ w \ {} = w
    BY <1>5 DEF Own
  <2>2. Keeps(d, ch, e, ch, {})
    BY <1>3, <1>4, KeepsSame DEF SameTree
  <2>3. Leads(d, ch, t, w, {})
    BY <1>3, <2>2 DEF Leads
  <2> QED
    BY <1>1, <1>5, <2>1, <2>3
<1>6. CASE f.writable
  <2> DEFINE c == Last(u)
  <2>1. Own(f) = {x}
    BY <1>6 DEF Own
  <2>2. /\ x \in Used(d) /\ ~At(d, x).dir /\ f.first = First(ch[x])
        /\ f.size \in Nat /\ f.size <= Len(ch[x]) * SECTOR
    BY <1>6 DEF FileOK
  <2>3. x \in Used(e) /\ At(e, x) = At(d, x)
    BY <1>3, <2>2 DEF SameTree
  <2>4. /\ x \in Place /\ e.sec[x[1]].kind = "dir" /\ At(e, x).name \in Names \ Dots
        /\ At(e, x).dir = FALSE
        /\ \E first, size : At(e, x) = Dirent(At(e, x).name, At(e, x).dir, first, size)
    BY <1>3, <2>2, <2>3, UsedFacts DEF Vol
  <2> DEFINE g == FALSE
             name == At(e, x).name
  <2>5. PICK first, size : At(e, x) = Dirent(name, g, first, size)
    BY <2>4
  <2>6. v = Sized(At(e, x), f.size, f.first)
    BY DEF Sized
  <2> HIDE DEF g, v, name
  <2>7. v = Dirent(name, g, f.first, f.size)
    BY <2>5, <2>6, SizedIs
  <2>8. v.mark = "used" /\ v.name = name /\ v.dir = g /\ v.first = f.first /\ v.size = f.size
    BY <2>7 DEF Dirent
  <2>9. SlotOK(v)
    <3>1. g \in BOOLEAN /\ name \in Names \cup Dots
      BY <2>4 DEF g, name
    <3> QED
      BY <2>7, <3>1 DEF SlotOK
  <2> HIDE DEF x
  <2>10. Hist(u) /\ SlotPut(e, c, x, v)
    BY <1>3, <2>4, <2>9, PutSlotIs DEF Vol
  <2> HIDE DEF u, c, e
  <2>11. ~v.dir /\ ~At(e, x).dir /\ v.name = At(e, x).name
    BY <2>4, <2>8 DEF g, name
  <2>12. /\ Vol(c, ch, home, w \ {x}) /\ Used(c) = Used(e)
         /\ \A y \in Used(e) : y # x => At(c, y) = At(e, y)
    <3>1. Vol(e, ch, home, w) /\ x \in Used(e) /\ UpToDate(e, ch, x, v)
      BY <1>3, <2>2, <2>3, <2>8, <2>11 DEF UpToDate
    <3> QED
      BY <2>10, <3>1, VolUpdate
  <2>13. \A y \in Used(d) \ {x} : y \in Used(c) /\ At(c, y) = At(d, y) /\ ch[y] = ch[y]
    BY <1>3, <2>12 DEF SameTree
  <2>14. Keeps(d, ch, c, ch, {x})
    BY <1>4, <2>13, KeepsSame
  <2>15. Leads(d, ch, u, w \ {x}, {x})
    BY <2>10, <2>12, <2>14 DEF Leads, c
  <2> QED
    BY <1>1, <1>6, <2>1, <2>15
<1> QED
  BY <1>5, <1>6

\* The file of a chain, cut down to nothing: its chain goes and a fresh cluster
\* comes, which there is since the chain's are free.
LEMMA TruncateTurn ==
  ASSUME NEW t, Hist(t), NEW ch, NEW home, NEW w, Vol(Last(t), ch, home, w),
         NEW f, FileOK(Last(t), ch, f), f.writable, f.de \in w, f.lba = EOC
  PROVE  Turn(Last(t), ch, w, f, Truncate(t, f))
<1> DEFINE d == Last(t)
           x == f.de
           t1 == FreeChain(t, f.first)
           d1 == Last(t1)
           none == <<>>
           ch1 == Put(ch, x, none)
           c == FirstFree(d1)
           z == Truncate(t, f)
           u == fat_alloc_cluster(t1)
           e == Last(u)
           first == IF c = 0 THEN f.first ELSE c
           g1 == [f EXCEPT !.first = first]
           g2 == [g1 EXCEPT !.size = 0]
           g == [g2 EXCEPT !.pos = 0]
<1>1. /\ DOMAIN f = Fields /\ x \in Used(d) /\ ~At(d, x).dir /\ f.first = First(ch[x])
      /\ f.used = TRUE /\ f.writable = TRUE /\ f.dirty = FALSE
  BY DEF FileOK
<1>2. x \in Key /\ x # ROOT /\ x \notin Folder(d) /\ ch \in Chains /\ DOMAIN ch = Key
  <2>1. x \in Key /\ x # ROOT
    BY <1>1, UsedFacts DEF Vol
  <2> QED
    BY <1>1, <2>1 DEF Folder, Vol, Chains
<1>3. z = [t |-> u, f |-> [f EXCEPT !.first = IF c = 0 THEN @ ELSE c, !.size = 0, !.pos = 0]]
  BY DEF Truncate
<1>4. z.t = u /\ z.f = g /\ {"t", "f"} \subseteq DOMAIN z
  <2>1. [f EXCEPT !.first = IF c = 0 THEN @ ELSE c, !.size = 0, !.pos = 0] = g
    <3> HIDE DEF c, x
    <3> QED
      BY <1>1 DEF Fields
  <2> HIDE DEF z, u, g
  <2> QED
    BY <1>3, <2>1
<1> HIDE DEF z
<1>5. /\ Hist(t1) /\ d1.sec = d.sec /\ Laid(d1.fat, ch1)
      /\ ch[x] # <<>> => d1.fat[ch[x][1]] = 0 /\ ch[x][1] \in Cluster
  <2> DEFINE n == FreeChain(t, First(ch[x]))
  <2>1. Laid(Last(t).fat, ch)
    BY DEF Vol
  <2>2. /\ Hist(n) /\ Last(n).sec = Last(t).sec /\ Laid(Last(n).fat, ch1)
        /\ ch[x] # <<>> => Last(n).fat[ch[x][1]] = 0 /\ ch[x][1] \in Cluster
    BY <1>2, <2>1, FreeChainIs
  <2>3. n = t1
    BY <1>1
  <2> HIDE DEF n, t1
  <2> QED
    BY <2>2, <2>3
<1>6. none \in Seq(Cluster) /\ First(none) = 0 /\ Len(none) = 0
  BY DEF First
<1> HIDE DEF none, t1, d, x
<1>7. Vol(d, ch, home, w) /\ Last(t) = d
  BY DEF d
<1>8. ch1 \in Chains /\ ch1[x] = none /\ \A y \in Key : y # x => ch1[y] = ch[y]
  <2>1. ch \in Chains /\ x \in Key /\ none \in Seq(Cluster)
    BY <1>2, <1>6
  <2> QED
    BY <2>1, PutChains
<1>9. PlainDisk(d1)
  BY <1>5, HistFacts
<1> HIDE DEF ch1, d1
<1>10. Vol(d1, ch1, home, w) /\ Used(d1) = Used(d) /\ Folder(d1) = Folder(d) /\ \A y : At(d1, y) = At(d, y)
  <2>1. \A k \in Folder(d) : ch1[k] = ch[k]
    BY <1>2, <1>7, <1>8, FolderFacts DEF Vol
  <2>2. \A y \in Used(d) : ch1[y] = ch[y] \/ y \in w
    BY <1>2, <1>8, KeyFacts DEF Used, x
  <2>3. Vol(d1, ch1, home, w)
    BY <1>5, <1>7, <1>8, <1>9, <2>1, <2>2, VolFat
  <2> QED
    BY <1>5, <2>3, SameSectors
<1>11. \E ch2 : /\ Hist(u) /\ Vol(e, ch2, home, w) /\ e.sec = d1.sec
                /\ \A y \in Key : y # x => ch2[y] = ch1[y]
                /\ first = First(ch2[x]) /\ Len(ch2[x]) \in Nat
  <2>1. CASE c = 0
    <3>1. u = t1 /\ e = d1
      BY <2>1 DEF fat_alloc_cluster, d1
    <3>2. ch[x] = <<>>
      <4> SUFFICES ASSUME ch[x] # <<>> PROVE FALSE
        OBVIOUS
      <4> QED
        BY <1>5, <2>1, NoneFree
    <3>3. first = First(ch1[x]) /\ Len(ch1[x]) = 0
      BY <1>1, <1>6, <1>8, <2>1, <3>2 DEF none, x
    <3> HIDE DEF u, e, first
    <3> QED
      BY <1>5, <1>10, <3>1, <3>3
  <2>2. CASE c # 0
    <3> DEFINE q == <<c>>
               ch2 == Put(ch1, x, q)
               v == fat_alloc_cluster(t1)
    <3>1. /\ Hist(t1) /\ Vol(Last(t1), ch1, home, w) /\ x \in Key /\ x \notin Folder(Last(t1))
          /\ x \in w /\ c = FirstFree(Last(t1))
      BY <1>2, <1>5, <1>10 DEF d1, x
    <3> HIDE DEF c
    <3>2. /\ Hist(v) /\ Vol(Last(v), ch2, home, w) /\ c \in Cluster
          /\ Last(v).sec = Last(t1).sec /\ ch2[x] = q
          /\ \A y \in Key : y # x => ch2[y] = ch1[y]
      BY <2>2, <3>1, AllocSound
    <3>3. Len(q) = 1 /\ First(q) = c
      BY <3>2, OneCluster
    <3> HIDE DEF ch2, q
    <3>4. first = First(ch2[x]) /\ Len(ch2[x]) \in Nat
      BY <2>2, <3>2, <3>3
    <3> HIDE DEF first
    <3> QED
      BY <3>2, <3>4 DEF d1
  <2> QED
    BY <2>1, <2>2
<1> HIDE DEF u, e, first
<1>12. PICK ch2 : /\ Hist(u) /\ Vol(e, ch2, home, w) /\ e.sec = d1.sec
                  /\ \A y \in Key : y # x => ch2[y] = ch1[y]
                  /\ first = First(ch2[x]) /\ Len(ch2[x]) \in Nat
  BY <1>11
<1>13. Used(e) = Used(d) /\ \A y : At(e, y) = At(d, y)
  BY <1>10, <1>12, SameSectors
<1>14. /\ DOMAIN g = Fields /\ g.first = first /\ g.size = 0 /\ g.pos = 0
       /\ g.used = f.used /\ g.writable = f.writable /\ g.de = f.de /\ g.dirty = f.dirty
       /\ g.lba = f.lba
  <2>1. DOMAIN g1 = Fields /\ g1.first = first /\ \A y \in Fields \ {"first"} : g1[y] = f[y]
    BY <1>1 DEF Fields
  <2> HIDE DEF g1
  <2>2. DOMAIN g2 = Fields /\ g2.size = 0 /\ \A y \in Fields \ {"size"} : g2[y] = g1[y]
    BY <2>1 DEF Fields
  <2> HIDE DEF g2
  <2>3. DOMAIN g = Fields /\ g.pos = 0 /\ \A y \in Fields \ {"pos"} : g[y] = g2[y]
    BY <2>2 DEF Fields
  <2> HIDE DEF g
  <2>4. \A y \in Fields \ {"first", "size", "pos"} : g[y] = f[y]
    BY <2>1, <2>2, <2>3
  <2>5. g.first = g2.first /\ g2.first = g1.first /\ g.size = g2.size
    BY <2>2, <2>3 DEF Fields
  <2>6. g.first = first /\ g.size = 0
    BY <2>1, <2>2, <2>5
  <2> QED
    BY <2>3, <2>4, <2>6 DEF Fields
<1> HIDE DEF g
<1>15. FileOK(e, ch2, g)
  <2>1. 0 <= Len(ch2[x]) * SECTOR
    <3> DEFINE n == Len(ch2[x])
    <3>1. n \in Nat
      BY <1>12
    <3> HIDE DEF n
    <3>2. 0 <= n * SECTOR
      BY <3>1, Constants
    <3> QED
      BY <3>2 DEF n
  <2>2. g.de = x
    BY <1>14 DEF x
  <2> QED
    BY <1>1, <1>12, <1>13, <1>14, <2>1, <2>2 DEF FileOK
<1>16. Keeps(d, ch, e, ch2, {x})
  <2>1. \A y \in Used(d) \ {x} : y \in Used(e) /\ At(e, y) = At(d, y) /\ ch2[y] = ch[y]
    BY <1>8, <1>12, <1>13, KeyFacts DEF Used
  <2>2. ch2 \in Chains
    BY <1>12 DEF Vol
  <2> QED
    BY <1>2, <2>1, <2>2, KeepsSame
<1>17. Own(f) = {x}
  BY DEF Own, x
<1>18. Turn(d, ch, w, f, z)
  BY <1>4, <1>12, <1>14, <1>15, <1>16, <1>17 DEF Turn, e
<1> QED
  BY <1>18 DEF d, z

------------------------------------------------------------------------------
\* The table of open files.

\* The entries of files that are open for writing.
Writers(table) == {table[fd].de : fd \in {ge \in Fd : table[ge].used /\ table[ge].writable}}

\* Every descriptor is in order, and a writer has its file for itself.
Files(d, ch, table) ==
  /\ DOMAIN table = Fd
  /\ \A fd \in Fd : table[fd] = FREE \/ FileOK(d, ch, table[fd])
  /\ \A fd, ge \in Fd : /\ table[fd].used /\ table[ge].used /\ table[fd].writable
                        /\ table[fd].de = table[ge].de
                        => fd = ge

\* The volume and the descriptors.
Sound(d, table) ==
  \E ch, home : Vol(d, ch, home, Writers(table)) /\ Files(d, ch, table)

\* A descriptor of a table that is used is in order.
LEMMA UsedFile ==
  ASSUME NEW d, NEW ch, NEW table, Files(d, ch, table), NEW fd \in Fd, table[fd].used
  PROVE  FileOK(d, ch, table[fd])
<1>1. table[fd] = FREE \/ FileOK(d, ch, table[fd])
  BY DEF Files
<1>2. FREE.used = FALSE
  BY DEF FREE
<1> QED
  BY <1>1, <1>2

\* One descriptor changes, and the volume with it.
LEMMA SetFile ==
  ASSUME NEW d, NEW ch, NEW table, Files(d, ch, table), NEW fd \in Fd,
         NEW e, NEW ch2, NEW g,
         \A ge \in Fd \ {fd} : table[ge].used => FileOK(e, ch2, table[ge]),
         g = FREE \/ FileOK(e, ch2, g),
         \A ge \in Fd \ {fd} : /\ g.used /\ table[ge].used
                               /\ g.writable \/ table[ge].writable
                               => table[ge].de # g.de
  PROVE  Files(e, ch2, Put(table, fd, g))
<1> DEFINE next == Put(table, fd, g)
<1>1. DOMAIN table = Fd
  BY DEF Files
<1>2. DOMAIN next = Fd /\ next[fd] = g /\ \A ge \in Fd : ge # fd => next[ge] = table[ge]
  BY <1>1, PutFacts
<1> HIDE DEF next
<1>3. ASSUME NEW ge \in Fd PROVE next[ge] = FREE \/ FileOK(e, ch2, next[ge])
  <2>1. CASE ge = fd
    BY <1>2, <2>1
  <2>2. CASE ge # fd
    <3>1. next[ge] = table[ge]
      BY <1>2, <2>2
    <3>2. table[ge] = FREE \/ table[ge].used = TRUE
      BY DEF Files, FileOK
    <3> QED
      BY <2>2, <3>1, <3>2
  <2> QED
    BY <2>1, <2>2
<1>4. ASSUME NEW a \in Fd, NEW b \in Fd, next[a].used, next[b].used, next[a].writable,
             next[a].de = next[b].de
      PROVE  a = b
  <2> SUFFICES ASSUME a # b PROVE FALSE
    OBVIOUS
  <2>1. CASE a = fd
    BY <1>2, <1>4, <2>1
  <2>2. CASE b = fd
    BY <1>2, <1>4, <2>2
  <2>3. CASE a # fd /\ b # fd
    <3>1. next[a] = table[a] /\ next[b] = table[b]
      BY <1>2, <2>3
    <3> QED
      BY <1>4, <3>1 DEF Files
  <2> QED
    BY <2>1, <2>2, <2>3
<1> QED
  BY <1>2, <1>3, <1>4 DEF Files, next

\* Who is open for writing then.
LEMMA WritersSet ==
  ASSUME NEW table, DOMAIN table = Fd, NEW fd \in Fd, NEW g
  PROVE  Writers(Put(table, fd, g)) =
           {x \in Writers(table) : \E ge \in Fd \ {fd} : /\ table[ge].used /\ table[ge].writable
                                                        /\ table[ge].de = x}
           \cup {x \in {g.de} : g.used /\ g.writable}
<1> DEFINE next == Put(table, fd, g)
           A == {x \in Writers(table) : \E ge \in Fd \ {fd} : /\ table[ge].used /\ table[ge].writable
                                                             /\ table[ge].de = x}
           B == {x \in {g.de} : g.used /\ g.writable}
<1>1. next[fd] = g /\ \A ge \in Fd : ge # fd => next[ge] = table[ge]
  BY PutFacts
<1> HIDE DEF next
<1>2. ASSUME NEW x \in Writers(next) PROVE x \in A \cup B
  <2>1. PICK ge \in Fd : next[ge].used /\ next[ge].writable /\ next[ge].de = x
    BY DEF Writers
  <2>2. CASE ge = fd
    BY <1>1, <2>1, <2>2
  <2>3. CASE ge # fd
    <3>1. table[ge].used /\ table[ge].writable /\ table[ge].de = x
      BY <1>1, <2>1, <2>3
    <3>2. x \in Writers(table)
      BY <3>1 DEF Writers
    <3> QED
      BY <2>3, <3>1, <3>2
  <2> QED
    BY <2>2, <2>3
<1>3. ASSUME NEW x \in A PROVE x \in Writers(next)
  <2>1. PICK ge \in Fd \ {fd} : table[ge].used /\ table[ge].writable /\ table[ge].de = x
    OBVIOUS
  <2>2. next[ge] = table[ge]
    BY <1>1
  <2> QED
    BY <2>1, <2>2 DEF Writers
<1>4. ASSUME NEW x \in B PROVE x \in Writers(next)
  BY <1>1 DEF Writers
<1> HIDE DEF A, B
<1>5. Writers(next) = A \cup B
  BY <1>2, <1>3, <1>4
<1> QED
  BY <1>5 DEF next, A, B

\* A call on an open file leaves all in order.
LEMMA TurnSound ==
  ASSUME NEW d, NEW ch, NEW home, NEW table, Vol(d, ch, home, Writers(table)), Files(d, ch, table),
         NEW fd \in Fd, table[fd].used,
         NEW s, Turn(d, ch, Writers(table), table[fd], s)
  PROVE  Hist(s.t) /\ Sound(Last(s.t), Put(table, fd, s.f))
<1> DEFINE f == table[fd]
           g == s.f
           e == Last(s.t)
           w == Writers(table)
           next == Put(table, fd, g)
<1>1. Hist(s.t) /\ g.de = f.de /\ g.writable = f.writable
  BY DEF Turn
<1>2. PICK ch2, home2 : /\ Vol(e, ch2, home2, w) /\ Keeps(d, ch, e, ch2, Own(f))
                        /\ FileOK(e, ch2, g)
  BY DEF Turn
<1>3. FileOK(d, ch, f) /\ DOMAIN table = Fd
  BY UsedFile DEF Files
<1>4. ch \in Chains /\ ch2 \in Chains /\ Sectors(d)
  BY <1>2 DEF Vol
<1>5. \A ge \in Fd \ {fd} : /\ table[ge].used /\ (f.writable \/ table[ge].writable)
                            => table[ge].de # f.de
  BY DEF Files
<1>6. g.used = TRUE /\ f.used = TRUE
  BY <1>2, <1>3 DEF FileOK
<1> HIDE DEF e, g
<1>7. \A ge \in Fd \ {fd} : table[ge].used => FileOK(e, ch2, table[ge])
  <2> SUFFICES ASSUME NEW ge \in Fd \ {fd}, table[ge].used PROVE FileOK(e, ch2, table[ge])
    OBVIOUS
  <2> DEFINE h == table[ge]
  <2>1. FileOK(d, ch, h)
    BY UsedFile
  <2>2. h.de \notin Own(f)
    BY <1>5 DEF Own
  <2> HIDE DEF h
  <2>3. FileOK(e, ch2, h)
    BY <1>2, <1>4, <2>1, <2>2, FileKept
  <2> QED
    BY <2>3 DEF h
<1>8. Files(e, ch2, next)
  <2>1. \A ge \in Fd \ {fd} : /\ g.used /\ table[ge].used
                              /\ g.writable \/ table[ge].writable
                              => table[ge].de # g.de
    BY <1>1, <1>5
  <2> QED
    BY <1>2, <1>7, <2>1, SetFile
<1>9. Writers(next) = w
  <2>1. Writers(next) = {x \in w : \E ge \in Fd \ {fd} : /\ table[ge].used /\ table[ge].writable
                                                         /\ table[ge].de = x}
                        \cup {x \in {g.de} : g.used /\ g.writable}
    BY <1>3, WritersSet
  <2>2. \A x : x \in w <=> \E ge \in Fd : table[ge].used /\ table[ge].writable /\ table[ge].de = x
    BY DEF Writers
  <2> HIDE DEF w, next
  <2>3. \A x : x \in w <=> x \in Writers(next)
    BY <1>1, <1>6, <2>1, <2>2
  <2> QED
    BY <2>3
<1>10. Sound(e, next)
  BY <1>2, <1>8, <1>9 DEF Sound
<1> QED
  BY <1>1, <1>10 DEF e, g

\* A close leaves all in order.
LEMMA CloseSound ==
  ASSUME NEW d, NEW ch, NEW home, NEW table, Vol(d, ch, home, Writers(table)), Files(d, ch, table),
         NEW fd \in Fd, table[fd].used
  PROVE  LET t == CloseOutcome(d, table[fd])
         IN  Hist(t) /\ Sound(Last(t), Put(table, fd, FREE))
<1> DEFINE f == table[fd]
           t == CloseOutcome(d, f)
           e == Last(t)
           w == Writers(table)
           next == Put(table, fd, FREE)
<1>1. FileOK(d, ch, f) /\ DOMAIN table = Fd
  BY UsedFile DEF Files
<1>2. Leads(d, ch, t, w \ Own(f), Own(f))
  BY <1>1, CloseLeads
<1>3. Hist(t)
  BY <1>2 DEF Leads
<1>4. PICK ch2, home2 : Vol(e, ch2, home2, w \ Own(f)) /\ Keeps(d, ch, e, ch2, Own(f))
  BY <1>2 DEF Leads
<1>5. ch \in Chains /\ ch2 \in Chains /\ Sectors(d)
  BY <1>4 DEF Vol
<1>6. \A ge \in Fd \ {fd} : /\ table[ge].used /\ (f.writable \/ table[ge].writable)
                            => table[ge].de # f.de
  BY DEF Files
<1> HIDE DEF e, t
<1>7. \A ge \in Fd \ {fd} : table[ge].used => FileOK(e, ch2, table[ge])
  <2> SUFFICES ASSUME NEW ge \in Fd \ {fd}, table[ge].used PROVE FileOK(e, ch2, table[ge])
    OBVIOUS
  <2> DEFINE h == table[ge]
  <2>1. FileOK(d, ch, h)
    BY UsedFile
  <2>2. h.de \notin Own(f)
    BY <1>6 DEF Own
  <2> HIDE DEF h
  <2>3. FileOK(e, ch2, h)
    BY <1>4, <1>5, <2>1, <2>2, FileKept
  <2> QED
    BY <2>3 DEF h
<1>8. FREE.used = FALSE
  BY DEF FREE
<1> DEFINE g == FREE
<1>9. g = FREE /\ g.used = FALSE
  BY <1>8
<1> HIDE DEF g
<1>10. Files(e, ch2, Put(table, fd, g))
  BY <1>7, <1>9, SetFile
<1>11. Writers(Put(table, fd, g)) = w \ Own(f)
  <2> DEFINE z == Put(table, fd, g)
  <2>1. Writers(z) = {x \in w : \E ge \in Fd \ {fd} : /\ table[ge].used /\ table[ge].writable
                                                      /\ table[ge].de = x}
                     \cup {x \in {g.de} : g.used /\ g.writable}
    BY <1>1, WritersSet
  <2>2. \A x : x \in w <=> \E ge \in Fd : table[ge].used /\ table[ge].writable /\ table[ge].de = x
    BY DEF Writers
  <2>3. \A x : x \in Own(f) <=> f.writable /\ x = f.de
    BY DEF Own
  <2> HIDE DEF w, z
  <2>4. \A x : x \in w \ Own(f) <=> x \in Writers(z)
    BY <1>6, <1>9, <2>1, <2>2, <2>3
  <2> QED
    BY <2>4 DEF z
<1>12. Sound(e, Put(table, fd, g))
  BY <1>4, <1>10, <1>11 DEF Sound
<1> QED
  BY <1>3, <1>9, <1>12 DEF e, t

\* So does a call on paths, of entries that no descriptor has.
LEMMA LeadsSound ==
  ASSUME NEW d, NEW ch, NEW home, NEW table, Vol(d, ch, home, Writers(table)), Files(d, ch, table),
         NEW t, NEW X, Leads(d, ch, t, Writers(table), X),
         \A fd \in Fd : table[fd].used => table[fd].de \notin X
  PROVE  Hist(t) /\ Sound(Last(t), table)
<1> DEFINE e == Last(t)
<1>1. PICK ch2, home2 : Vol(e, ch2, home2, Writers(table)) /\ Keeps(d, ch, e, ch2, X)
  BY DEF Leads
<1>2. ch \in Chains /\ ch2 \in Chains /\ Sectors(d)
  BY <1>1 DEF Vol
<1> HIDE DEF e
<1>3. \A fd \in Fd : table[fd] = FREE \/ FileOK(e, ch2, table[fd])
  <2> SUFFICES ASSUME NEW fd \in Fd, table[fd] # FREE PROVE FileOK(e, ch2, table[fd])
    OBVIOUS
  <2> DEFINE f == table[fd]
  <2>1. FileOK(d, ch, f)
    BY DEF Files
  <2>2. f.de \notin X
    BY <2>1 DEF FileOK
  <2> HIDE DEF f
  <2>3. FileOK(e, ch2, f)
    BY <1>1, <1>2, <2>1, <2>2, FileKept
  <2> QED
    BY <2>3 DEF f
<1>4. Files(e, ch2, table)
  BY <1>3 DEF Files
<1> QED
  BY <1>1, <1>4 DEF Sound, Leads, e

------------------------------------------------------------------------------
\* Opening.

\* The file r that a path resolves to is one that may be opened in this mode:
\* a writer gets it for itself.
Openable(d, table, r, mode) ==
  /\ \A fd \in Fd : table[fd].used /\ table[fd].de = r.de
                    => ~Writes(mode) /\ ~table[fd].writable
  /\ Writes(mode) => ~At(d, r.de).dir

\* The file at path is there and may be opened.
Ready(d, table, path, mode) ==
  LET r == fat32_resolve(d, path)
  IN  r.found /\ Openable(d, table, r, mode)

\* The descriptors stay in order while the volume gains entries.
LEMMA FilesKept ==
  ASSUME NEW d, NEW ch \in Chains, NEW e, NEW ch2 \in Chains, NEW X, Keeps(d, ch, e, ch2, X),
         Sectors(d), NEW table, Files(d, ch, table),
         \A fd \in Fd : table[fd].used => table[fd].de \notin X
  PROVE  Files(e, ch2, table)
<1>1. \A fd \in Fd : table[fd] = FREE \/ FileOK(e, ch2, table[fd])
  <2> SUFFICES ASSUME NEW fd \in Fd, table[fd] # FREE PROVE FileOK(e, ch2, table[fd])
    OBVIOUS
  <2> DEFINE f == table[fd]
  <2>1. FileOK(d, ch, f)
    BY DEF Files
  <2>2. f.de \notin X
    BY <2>1 DEF FileOK
  <2> HIDE DEF f
  <2>3. FileOK(e, ch2, f)
    BY <2>1, <2>2, FileKept
  <2> QED
    BY <2>3 DEF f
<1> QED
  BY <1>1 DEF Files

\* The entry that a create brings is found under its path, is a file's, and no
\* descriptor had it.
LEMMA BroughtReady ==
  ASSUME NEW d, NEW ch, NEW home, NEW table, Vol(d, ch, home, Writers(table)), Files(d, ch, table),
         NEW t, NEW path, Brings(d, ch, t, Writers(table), path), NEW mode
  PROVE  Sound(Last(t), table) /\ Ready(Last(t), table, path, mode)
<1> DEFINE e == Last(t)
           w == Writers(table)
           r == fat32_resolve(e, path)
<1>1. PICK ch2, home2 : /\ Vol(e, ch2, home2, w) /\ Keeps(d, ch, e, ch2, {})
                        /\ New(d, e, home2, path, FALSE)
  BY DEF Brings
<1>2. PICK x \in Used(e) \ Used(d) : home2[x] = path /\ At(e, x).dir = FALSE
  BY <1>1 DEF New
<1> HIDE DEF e
<1>3. r.found /\ r.de = x
  BY <1>1, <1>2, ResolveFinds
<1>4. ch \in Chains /\ ch2 \in Chains /\ Sectors(d)
  BY <1>1 DEF Vol
<1>5. Files(e, ch2, table)
  <2> DEFINE X == {}
  <2>1. Keeps(d, ch, e, ch2, X) /\ \A fd \in Fd : table[fd].used => table[fd].de \notin X
    BY <1>1
  <2> HIDE DEF X
  <2> QED
    BY <1>4, <2>1, FilesKept
<1>6. \A fd \in Fd : table[fd].used => table[fd].de # x
  <2> SUFFICES ASSUME NEW fd \in Fd, table[fd].used PROVE table[fd].de # x
    OBVIOUS
  <2>1. FileOK(d, ch, table[fd])
    BY UsedFile
  <2>2. table[fd].de \in Used(d)
    BY <2>1 DEF FileOK
  <2> QED
    BY <1>2, <2>2
<1>7. Ready(e, table, path, mode)
  BY <1>2, <1>3, <1>6 DEF Ready, Openable
<1> QED
  BY <1>1, <1>5, <1>7 DEF Sound, e

\* An open makes the file first if it must.
LEMMA EnsureReady ==
  ASSUME NEW d, NEW ch, NEW home, NEW table, Vol(d, ch, home, Writers(table)), Files(d, ch, table),
         NEW path \in Path, NEW mode,
         fat32_resolve(d, path).found => Openable(d, table, fat32_resolve(d, path), mode)
  PROVE  LET m == Ensure(d, path, mode)
         IN  /\ Hist(m.t) /\ Sound(Last(m.t), table)
             /\ m.ok => Ready(Last(m.t), table, path, mode)
<1> DEFINE m == Ensure(d, path, mode)
           w == Writers(table)
<1>1. CASE ~fat32_resolve(d, path).found /\ Writes(mode)
  <2>1. m = Create(d, path)
    BY <1>1 DEF Ensure
  <2>2. Leads(d, ch, m.t, w, {}) /\ (m.ok => Brings(d, ch, m.t, w, path))
    BY <1>1, <2>1, CreateLeads
  <2> HIDE DEF m
  <2>3. Hist(m.t) /\ Sound(Last(m.t), table)
    <3> DEFINE X == {}
               t == m.t
    <3>1. Leads(d, ch, t, w, X) /\ \A fd \in Fd : table[fd].used => table[fd].de \notin X
      BY <2>2
    <3> HIDE DEF X, t
    <3>2. Hist(t) /\ Sound(Last(t), table)
      BY <3>1, LeadsSound
    <3> QED
      BY <3>2 DEF t
  <2>4. m.ok => Ready(Last(m.t), table, path, mode)
    <3> DEFINE t == m.t
    <3>1. m.ok => Brings(d, ch, t, w, path)
      BY <2>2
    <3> HIDE DEF t
    <3>2. m.ok => Ready(Last(t), table, path, mode)
      BY <3>1, BroughtReady
    <3> QED
      BY <3>2 DEF t
  <2> QED
    BY <2>3, <2>4 DEF m
<1>2. CASE ~(~fat32_resolve(d, path).found /\ Writes(mode))
  <2>1. m.t = <<d>> /\ m.ok = fat32_resolve(d, path).found
    BY <1>2 DEF Ensure
  <2>2. Hist(m.t) /\ Last(m.t) = d
    BY <2>1, HistOne DEF Vol
  <2> HIDE DEF m
  <2>3. Sound(d, table)
    BY DEF Sound
  <2>4. m.ok => Ready(d, table, path, mode)
    BY <2>1 DEF Ready
  <2> QED
    BY <2>2, <2>3, <2>4 DEF m
<1> QED
  BY <1>1, <1>2

\* A descriptor for a file that is there.
LEMMA NewFileOK ==
  ASSUME NEW d, NEW ch, NEW home, NEW w, Vol(d, ch, home, w),
         NEW r, r.de \in Used(d), r.entry = At(d, r.de), r.de \notin w, NEW mode,
         Writes(mode) => ~At(d, r.de).dir
  PROVE  LET f == NewFile(r, mode)
         IN  /\ FileOK(d, ch, f) /\ f.de = r.de /\ f.writable = Writes(mode) /\ f.lba = EOC
             /\ f.used = TRUE
<1> DEFINE f == NewFile(r, mode)
           x == r.de
<1>1. Tells(d, ch, x)
  BY DEF Vol, Told
<1>2. /\ DOMAIN f = Fields /\ f.used = TRUE /\ f.first = r.entry.first /\ f.size = r.entry.size
      /\ f.pos = (IF mode = "append" THEN r.entry.size ELSE 0) /\ f.writable = Writes(mode)
      /\ f.de = r.de /\ f.dirty = FALSE /\ f.lba = EOC
  BY DEF NewFile, Fields
<1>3. Writes(mode) \in BOOLEAN
  BY DEF Writes
<1> HIDE DEF f
<1>4. f.size \in Nat /\ f.size <= Len(ch[x]) * SECTOR /\ f.first = First(ch[x])
  BY <1>1, <1>2 DEF Tells
<1>5. f.pos \in Nat /\ f.pos <= f.size
  BY <1>2, <1>4
<1>6. FileOK(d, ch, f)
  BY <1>2, <1>3, <1>4, <1>5 DEF FileOK
<1> QED
  BY <1>2, <1>6 DEF f

\* The file that a call leaves goes into a free descriptor.
LEMMA OpenedSound ==
  ASSUME NEW d, NEW ch, NEW home, NEW table, Vol(d, ch, home, Writers(table)), Files(d, ch, table),
         NEW fd \in Fd, ~table[fd].used,
         NEW f, f.used = TRUE,
         \A ge \in Fd : table[ge].used /\ table[ge].de = f.de => ~f.writable /\ ~table[ge].writable,
         NEW s, Turn(d, ch, Writers(table) \cup Own(f), f, s)
  PROVE  Hist(s.t) /\ Sound(Last(s.t), Put(table, fd, s.f))
<1> DEFINE g == s.f
           e == Last(s.t)
           w == Writers(table)
           next == Put(table, fd, g)
<1>1. Hist(s.t) /\ g.de = f.de /\ g.writable = f.writable
  BY DEF Turn
<1>2. PICK ch2, home2 : /\ Vol(e, ch2, home2, w \cup Own(f)) /\ Keeps(d, ch, e, ch2, Own(f))
                        /\ FileOK(e, ch2, g)
  BY DEF Turn
<1>3. DOMAIN table = Fd
  BY DEF Files
<1>4. ch \in Chains /\ ch2 \in Chains /\ Sectors(d)
  BY <1>2 DEF Vol
<1>5. \A ge \in Fd : table[ge].used => table[ge].de \notin Own(f)
  BY DEF Own
<1>6. g.used = TRUE
  BY <1>2 DEF FileOK
<1> HIDE DEF e, g
<1>7. \A ge \in Fd \ {fd} : table[ge].used => FileOK(e, ch2, table[ge])
  <2> SUFFICES ASSUME NEW ge \in Fd \ {fd}, table[ge].used PROVE FileOK(e, ch2, table[ge])
    OBVIOUS
  <2> DEFINE h == table[ge]
  <2>1. FileOK(d, ch, h)
    BY UsedFile
  <2>2. h.de \notin Own(f)
    BY <1>5
  <2> HIDE DEF h
  <2>3. FileOK(e, ch2, h)
    BY <1>2, <1>4, <2>1, <2>2, FileKept
  <2> QED
    BY <2>3 DEF h
<1>8. Files(e, ch2, next)
  <2>1. \A ge \in Fd \ {fd} : /\ g.used /\ table[ge].used
                              /\ g.writable \/ table[ge].writable
                              => table[ge].de # g.de
    BY <1>1
  <2> QED
    BY <1>2, <1>7, <2>1, SetFile
<1>9. Writers(next) = w \cup Own(f)
  <2>1. Writers(next) = {x \in w : \E ge \in Fd \ {fd} : /\ table[ge].used /\ table[ge].writable
                                                         /\ table[ge].de = x}
                        \cup {x \in {g.de} : g.used /\ g.writable}
    BY <1>3, WritersSet
  <2>2. \A x : x \in w <=> \E ge \in Fd : table[ge].used /\ table[ge].writable /\ table[ge].de = x
    BY DEF Writers
  <2>3. \A x : x \in Own(f) <=> f.writable /\ x = f.de
    BY DEF Own
  <2> HIDE DEF w, next
  <2>4. \A x : x \in w \cup Own(f) <=> x \in Writers(next)
    BY <1>1, <1>6, <2>1, <2>2, <2>3
  <2> QED
    BY <2>4
<1>10. Sound(e, next)
  BY <1>2, <1>8, <1>9 DEF Sound
<1> QED
  BY <1>1, <1>10 DEF e, g

\* An open leaves all in order.
LEMMA InstallSound ==
  ASSUME NEW made, NEW table, NEW path \in Path, NEW mode,
         Hist(made.t), Sound(Last(made.t), table),
         made.ok => Ready(Last(made.t), table, path, mode)
  PROVE  LET o == Install(made, table, path, mode)
         IN  Hist(o.t) /\ Sound(Last(o.t), o.table)
<1> DEFINE o == Install(made, table, path, mode)
           t == made.t
           d == Last(t)
           r == fat32_resolve(d, path)
           w == Writers(table)
<1>1. PICK ch, home : Vol(d, ch, home, w) /\ Files(d, ch, table)
  BY DEF Sound
<1>2. CASE ~made.ok \/ FreeFds(table) = {}
  <2>1. o.t = t /\ o.table = table
    BY <1>2 DEF Install
  <2> HIDE DEF o
  <2> QED
    BY <2>1 DEF o
<1>3. CASE ~(~made.ok \/ FreeFds(table) = {})
  <2> DEFINE fd == Min(FreeFds(table))
             f == NewFile(r, mode)
             s == IF Truncates(mode) THEN Truncate(t, f) ELSE [t |-> t, f |-> f]
  <2>1. o.t = s.t /\ o.table = Put(table, fd, s.f)
    BY <1>3 DEF Install, Put
  <2>2. fd \in Fd /\ ~table[fd].used
    <3>1. FreeFds(table) \subseteq Fd /\ \A x \in FreeFds(table) : ~table[x].used
      BY DEF FreeFds
    <3>2. Fd \subseteq Nat
      BY Constants DEF Fd
    <3> DEFINE S == FreeFds(table)
    <3>3. S \subseteq Nat /\ S # {}
      BY <1>3, <3>1, <3>2
    <3> HIDE DEF S
    <3>4. Min(S) \in S
      BY <3>3, MinIs
    <3> QED
      BY <3>1, <3>4 DEF S
  <2>3. r.found /\ Openable(d, table, r, mode)
    BY <1>3 DEF Ready
  <2>4. r.de \in Used(d) /\ r.entry = At(d, r.de)
    BY <1>1, <2>3, PathFound
  <2>5. r.de \notin w
    BY <2>3 DEF Openable, Writers
  <2>6. Writes(mode) => ~At(d, r.de).dir
    BY <2>3 DEF Openable
  <2> HIDE DEF r, d, fd
  <2>7. /\ FileOK(d, ch, f) /\ f.de = r.de /\ f.writable = Writes(mode) /\ f.lba = EOC
        /\ f.used = TRUE
    BY <1>1, <2>4, <2>5, <2>6, NewFileOK
  <2> HIDE DEF f
  <2>8. \A ge \in Fd : table[ge].used /\ table[ge].de = f.de => ~f.writable /\ ~table[ge].writable
    BY <2>3, <2>7 DEF Openable
  <2> DEFINE v == w \cup Own(f)
  <2>9. Vol(d, ch, home, v)
    <3>1. \A x \in Used(d) : x \in w /\ ~At(d, x).dir => x \in v \/ Tells(d, ch, x)
      OBVIOUS
    <3> HIDE DEF v, w
    <3> QED
      BY <1>1, <3>1, VolMore
  <2>10. Turn(d, ch, v, f, s)
    <3>1. CASE Truncates(mode)
      <4>1. s = Truncate(t, f)
        BY <3>1
      <4>2. f.writable /\ f.de \in v
        BY <2>7, <3>1 DEF Truncates, Writes, Own
      <4> HIDE DEF s, v
      <4> QED
        BY <2>7, <2>9, <4>1, <4>2, TruncateTurn DEF d
    <3>2. CASE ~Truncates(mode)
      <4>1. s.t = t /\ s.f = f /\ DOMAIN s = {"t", "f"}
        BY <3>2
      <4>2. ch \in Chains
        BY <1>1 DEF Vol
      <4>3. Keeps(d, ch, d, ch, Own(f))
        BY <4>2, KeepsSame
      <4> HIDE DEF s, v
      <4> QED
        BY <2>7, <2>9, <4>1, <4>3 DEF Turn, d
    <3> QED
      BY <3>1, <3>2
  <2> HIDE DEF s
  <2>11. Hist(s.t) /\ Sound(Last(s.t), Put(table, fd, s.f))
    BY <1>1, <2>2, <2>7, <2>8, <2>10, OpenedSound
  <2> HIDE DEF o
  <2> QED
    BY <2>1, <2>11 DEF o
<1> QED
  BY <1>2, <1>3

\* The two together.
LEMMA OpenSound ==
  ASSUME NEW d, NEW table, Sound(d, table), NEW path \in Path, NEW mode,
         fat32_resolve(d, path).found => Openable(d, table, fat32_resolve(d, path), mode)
  PROVE  LET o == OpenOutcome(d, table, path, mode)
         IN  Hist(o.t) /\ Sound(Last(o.t), o.table)
<1> DEFINE m == Ensure(d, path, mode)
<1>1. PICK ch, home : Vol(d, ch, home, Writers(table)) /\ Files(d, ch, table)
  BY DEF Sound
<1>2. /\ Hist(m.t) /\ Sound(Last(m.t), table)
      /\ m.ok => Ready(Last(m.t), table, path, mode)
  BY <1>1, EnsureReady
<1> HIDE DEF m
<1>3. LET o == Install(m, table, path, mode)
      IN  Hist(o.t) /\ Sound(Last(o.t), o.table)
  BY <1>2, InstallSound
<1> QED
  BY <1>3 DEF OpenOutcome, m

------------------------------------------------------------------------------
\* Seeking, and what clients may do.

\* A seek moves the position within the file.
LEMMA SeekTurn ==
  ASSUME NEW d, NEW ch, NEW home, NEW w, Vol(d, ch, home, w), NEW f, FileOK(d, ch, f),
         NEW pos \in Nat, pos <= f.size
  PROVE  Turn(d, ch, w, f, [t |-> <<d>>, f |-> Put(f, "pos", pos)])
<1> DEFINE s == [t |-> <<d>>, f |-> f]
           g == Put(f, "pos", pos)
           z == [t |-> <<d>>, f |-> g]
<1>1. s.t = <<d>> /\ s.f = f /\ {"t", "f"} \subseteq DOMAIN s
  OBVIOUS
<1>2. z.t = <<d>> /\ z.f = g /\ {"t", "f"} \subseteq DOMAIN z
  OBVIOUS
<1>3. DOMAIN f = Fields
  BY DEF FileOK
<1>4. DOMAIN g = Fields /\ g.pos = pos /\ \A x \in Fields : x # "pos" => g[x] = f[x]
  <2>1. "pos" \in DOMAIN f
    BY <1>3 DEF Fields
  <2> QED
    BY <1>3, <2>1, PutFacts
<1>5. /\ g.used = f.used /\ g.writable = f.writable /\ g.dirty = f.dirty /\ g.de = f.de
      /\ g.first = f.first /\ g.size = f.size /\ g.lba = f.lba
  BY <1>4 DEF Fields
<1> HIDE DEF g, s, z
<1>6. Turn(d, ch, w, f, s)
  BY <1>1, TurnStart
<1>7. \A e, ch2 : FileOK(e, ch2, f) => FileOK(e, ch2, g)
  BY <1>4, <1>5 DEF FileOK
<1>8. Turn(d, ch, w, f, z)
  BY <1>1, <1>2, <1>5, <1>6, <1>7, TurnFile
<1> QED
  BY <1>8 DEF z, g

\* Where clients seek to.
LEMMA ClampIs ==
  ASSUME NEW n \in Int, NEW f, f.size \in Nat
  PROVE  Clamp(n, f) \in Nat /\ Clamp(n, f) <= f.size
BY DEF Clamp

\* The entry that the view has of path p.
Sight(d, table, p) ==
  LET at == fat32_resolve(d, p)
      f == Effective(table, at)
  IN  [path |-> p, de |-> at.de, dir |-> at.entry.dir, uses |-> Range(Chain(d, f.first)),
       bytes |-> IF at.entry.dir THEN <<>> ELSE ContentOf(d, f)]

Sights(d) == {p \in Path : fat32_resolve(d, p).found}

\* The fields of an entry, each by itself.
LEMMA SightIs ==
  ASSUME NEW d, NEW table, NEW p
  PROVE  LET at == fat32_resolve(d, p)
             f == Effective(table, at)
             x == Sight(d, table, p)
         IN  /\ x.path = p /\ x.de = at.de /\ x.dir = at.entry.dir
             /\ x.uses = Range(Chain(d, f.first))
             /\ x.bytes = IF at.entry.dir THEN <<>> ELSE ContentOf(d, f)
BY DEF Sight

\* The view's entries are those of the paths that lead to something.
LEMMA EntriesAre ==
  ASSUME NEW d, NEW table
  PROVE  Entries(d, table) = {Sight(d, table, p) : p \in Sights(d)}
<1> DEFINE at(p) == [path |-> p, at |-> fat32_resolve(d, p)]
           Of(x) == LET f == Effective(table, x.at)
                    IN  [path |-> x.path, de |-> x.at.de, dir |-> x.at.entry.dir,
                         uses |-> Range(Chain(d, f.first)),
                         bytes |-> IF x.at.entry.dir THEN <<>> ELSE ContentOf(d, f)]
<1>1. \A p : Of(at(p)) = Sight(d, table, p) /\ at(p).at = fat32_resolve(d, p)
  BY DEF Sight
<1>2. Found(d) = {x \in {at(p) : p \in Path} : x.at.found}
  BY DEF Found
<1>3. Entries(d, table) = {Of(x) : x \in Found(d)}
  BY DEF Entries
<1> HIDE DEF at, Of
<1>4. Found(d) = {at(p) : p \in Sights(d)}
  BY <1>1, <1>2 DEF Sights
<1> QED
  BY <1>1, <1>3, <1>4

\* What the view shows of descriptors and of the tree.
LEMMA ViewFacts ==
  ASSUME NEW d, NEW table
  PROVE  LET v == View(d, table)
         IN  /\ DOMAIN v.tree = {p \in Path : fat32_resolve(d, p).found}
             /\ \A p \in DOMAIN v.tree :
                  LET r == fat32_resolve(d, p)
                  IN  /\ v.tree[p].dir = r.entry.dir
                      /\ v.tree[p].bytes = IF r.entry.dir THEN <<>>
                                           ELSE ContentOf(d, Effective(table, r))
                      /\ v.uses[p] = Range(Chain(d, Effective(table, r).first))
             /\ \A fd \in Fd : table[fd].used => v.fds[fd].open
             /\ \A fd \in Fd, p \in DOMAIN v.tree :
                  table[fd].used /\ fat32_resolve(d, p).de = table[fd].de =>
                    /\ v.fds[fd].path \in DOMAIN v.tree
                    /\ fat32_resolve(d, v.fds[fd].path).de = table[fd].de
             /\ v.root = Range(Chain(d, root_cluster))
<1> DEFINE entries == Entries(d, table)
           S(p) == Sight(d, table, p)
           present == {x.path : x \in entries}
           The(p) == CHOOSE x \in entries : x.path = p
           With(de) == CHOOSE x \in entries : x.de = de
           tree == [p \in present |-> [dir |-> The(p).dir, bytes |-> The(p).bytes]]
           uses == [p \in present |-> The(p).uses]
           root == Range(Chain(d, root_cluster))
           fds == [fd \in Fd |->
                    IF ~table[fd].used THEN [open |-> FALSE]
                    ELSE [open |-> TRUE, path |-> With(table[fd].de).path,
                          pos |-> table[fd].pos, writable |-> table[fd].writable]]
           lost == {c \in Cluster : d.fat[c] # 0} \ (UNION {x.uses : x \in entries} \cup root)
           v == View(d, table)
<1>1. v = [tree |-> tree, fds |-> fds, uses |-> uses, root |-> root, lost |-> lost]
  BY DEF View
<1>2. v.tree = tree /\ v.fds = fds /\ v.root = root /\ v.uses = uses
  BY <1>1
<1>3. entries = {S(p) : p \in Sights(d)}
  BY EntriesAre
<1> HIDE DEF v, lost, entries
<1>4. \A fd \in Fd : table[fd].used => fds[fd].open /\ fds[fd].path = With(table[fd].de).path
  OBVIOUS
<1>5. \A p \in present : tree[p].dir = The(p).dir /\ tree[p].bytes = The(p).bytes /\ uses[p] = The(p).uses
  OBVIOUS
<1>6. DOMAIN tree = present
  OBVIOUS
<1>7. \A p : S(p).path = p /\ S(p).de = fat32_resolve(d, p).de
  BY SightIs
<1> HIDE DEF tree, uses, fds, S
<1>8. present = Sights(d)
  BY <1>3, <1>7
<1>9. \A p \in present : The(p) = S(p)
  <2> TAKE p \in present
  <2>1. S(p) \in entries /\ S(p).path = p
    BY <1>3, <1>7, <1>8
  <2>2. The(p) \in entries /\ The(p).path = p
    BY <2>1
  <2> HIDE DEF The
  <2> QED
    BY <1>3, <1>7, <2>2
<1> HIDE DEF The
<1>10. \A p \in present :
         LET r == fat32_resolve(d, p)
         IN  /\ v.tree[p].dir = r.entry.dir
             /\ v.tree[p].bytes = IF r.entry.dir THEN <<>> ELSE ContentOf(d, Effective(table, r))
             /\ v.uses[p] = Range(Chain(d, Effective(table, r).first))
  BY <1>2, <1>5, <1>9, SightIs DEF S
<1>11. ASSUME NEW fd \in Fd, NEW p \in present, table[fd].used,
              fat32_resolve(d, p).de = table[fd].de
       PROVE  /\ v.fds[fd].path \in present
              /\ fat32_resolve(d, v.fds[fd].path).de = table[fd].de
  <2> DEFINE de == table[fd].de
  <2>1. S(p) \in entries /\ S(p).de = de
    BY <1>3, <1>7, <1>8, <1>11
  <2> HIDE DEF de
  <2>2. With(de) \in entries /\ With(de).de = de
    BY <2>1
  <2> HIDE DEF With
  <2>3. PICK q \in Sights(d) : With(de) = S(q)
    BY <1>3, <2>2
  <2>4. v.fds[fd].path = q /\ fat32_resolve(d, q).de = de
    BY <1>2, <1>4, <1>7, <1>11, <2>2, <2>3 DEF de
  <2> QED
    BY <1>8, <2>4 DEF de
<1>12. DOMAIN v.tree = present /\ present = {p \in Path : fat32_resolve(d, p).found}
  BY <1>2, <1>6, <1>8 DEF Sights
<1>13. \A fd \in Fd : table[fd].used => v.fds[fd].open
  BY <1>2, <1>4
<1>14. v.root = Range(Chain(d, root_cluster))
  BY <1>2
<1> HIDE DEF present
<1> QED
  BY <1>10, <1>11, <1>12, <1>13, <1>14 DEF v

\* A descriptor of the entry that a path leads to is open on the path.
LEMMA OpenOnPath ==
  ASSUME view = View(disk, file_table),
         NEW ch, NEW home, Vol(disk, ch, home, Writers(file_table)),
         NEW path \in Path, fat32_resolve(disk, path).found,
         NEW fd \in Fd, file_table[fd].used, file_table[fd].de = fat32_resolve(disk, path).de
  PROVE  fd \in OpenOn(path)
<1> DEFINE v == View(disk, file_table)
           q == v.fds[fd].path
           x == fat32_resolve(disk, path).de
<1>1. DOMAIN v.tree = {p \in Path : fat32_resolve(disk, p).found}
  BY ViewFacts
<1>2. path \in DOMAIN v.tree
  BY <1>1
<1>3. v.fds[fd].open /\ q \in DOMAIN v.tree /\ fat32_resolve(disk, q).de = file_table[fd].de
  <2> HIDE DEF x
  <2> QED
    BY <1>2, ViewFacts DEF x
<1>4. q \in Path /\ fat32_resolve(disk, q).found
  BY <1>1, <1>3
<1> HIDE DEF v, q
<1>5. home[x] = path
  BY PathFound
<1>6. home[fat32_resolve(disk, q).de] = q
  BY <1>4, PathFound
<1>7. q = path
  BY <1>3, <1>5, <1>6
<1> QED
  BY <1>3, <1>7 DEF OpenOn, v, q

\* A file that is found is in the view's tree.
LEMMA InTree ==
  ASSUME view = View(disk, file_table), NEW path \in Path
  PROVE  /\ path \in DOMAIN view.tree <=> fat32_resolve(disk, path).found
         /\ IsDir(path) <=> fat32_resolve(disk, path).found /\ fat32_resolve(disk, path).entry.dir
<1>1. path \in DOMAIN view.tree <=> fat32_resolve(disk, path).found
  BY ViewFacts
<1>2. path \in DOMAIN view.tree => view.tree[path].dir = fat32_resolve(disk, path).entry.dir
  BY ViewFacts
<1> QED
  BY <1>1, <1>2 DEF IsDir

\* Clients open what may be opened.
LEMMA MayOpenIs ==
  ASSUME view = View(disk, file_table), Sound(disk, file_table), NEW path \in Path, NEW mode,
         MayOpen(path, mode), fat32_resolve(disk, path).found
  PROVE  Openable(disk, file_table, fat32_resolve(disk, path), mode)
<1> DEFINE r == fat32_resolve(disk, path)
<1>1. PICK ch, home : Vol(disk, ch, home, Writers(file_table)) /\ Files(disk, ch, file_table)
  BY DEF Sound
<1>2. ASSUME NEW fd \in Fd, file_table[fd].used, file_table[fd].de = r.de
      PROVE  ~Writes(mode) /\ ~file_table[fd].writable
  <2>1. fd \in OpenOn(path)
    BY <1>1, <1>2, OpenOnPath
  <2> QED
    BY <2>1 DEF MayOpen
<1>3. ASSUME Writes(mode) PROVE ~At(disk, r.de).dir
  <2>1. ~IsDir(path)
    BY <1>3 DEF MayOpen
  <2>2. ~r.entry.dir
    BY <2>1, InTree
  <2>3. r.entry = At(disk, r.de)
    BY <1>1, PathFound
  <2> QED
    BY <2>2, <2>3
<1> QED
  BY <1>2, <1>3 DEF Openable

\* What no descriptor is open on, no descriptor has.
LEMMA NotOpen ==
  ASSUME view = View(disk, file_table),
         NEW ch, NEW home, Vol(disk, ch, home, Writers(file_table)),
         NEW path \in Path, fat32_resolve(disk, path).found, OpenOn(path) = {},
         NEW x, x = fat32_resolve(disk, path).de
  PROVE  /\ x \notin Writers(file_table)
         /\ \A fd \in Fd : file_table[fd].used => file_table[fd].de # x
<1>1. \A fd \in Fd : file_table[fd].used => file_table[fd].de # x
  <2> SUFFICES ASSUME NEW fd \in Fd, file_table[fd].used, file_table[fd].de = x PROVE FALSE
    OBVIOUS
  <2>1. fd \in OpenOn(path)
    BY OpenOnPath
  <2> QED
    BY <2>1
<1> QED
  BY <1>1 DEF Writers

\* The paths of sequences that are one longer.
LEMMA PrefixOf ==
  ASSUME NEW S, NEW s \in Seq(S), NEW x
  PROVE  Len(Append(s, x)) > Len(s) /\ IsPrefix(s, Append(s, x))
<1> DEFINE u == Append(s, x)
           T == S \cup {x}
           n == Len(s)
           a == SubSeq(s, 1, n)
           b == SubSeq(u, 1, n)
<1>1. s \in Seq(T) /\ u \in Seq(T) /\ Len(u) = n + 1 /\ n \in Nat /\ \A i \in 1..n : u[i] = s[i]
  <2>1. s \in Seq(T) /\ x \in T
    BY SeqElement
  <2> QED
    BY <2>1
<1>2. n \in 0..Len(s) /\ n \in 0..Len(u)
  BY <1>1
<1> HIDE DEF u, T
<1>3. a \in Seq(T) /\ Len(a) = n /\ \A i \in 1..n : a[i] = s[i]
  BY <1>1, <1>2, HeadPart
<1>4. b \in Seq(T) /\ Len(b) = n /\ \A i \in 1..n : b[i] = u[i]
  BY <1>1, <1>2, HeadPart
<1> HIDE DEF a, b
<1>5. a = b
  <2>1. DOMAIN a = 1..n /\ DOMAIN b = 1..n
    BY <1>3, <1>4
  <2>2. \A i \in 1..n : a[i] = b[i]
    BY <1>1, <1>3, <1>4
  <2> QED
    BY <1>3, <1>4, <1>1, <2>1, <2>2
<1> QED
  BY <1>1, <1>5 DEF IsPrefix, u, a, b

\* A directory that looks empty is.
LEMMA EmptyDirIs ==
  ASSUME view = View(disk, file_table),
         NEW ch, NEW home, NEW w, Vol(disk, ch, home, w),
         NEW path \in Path, fat32_resolve(disk, path).found,
         NEW x, x = fat32_resolve(disk, path).de, x \in Folder(disk), IsEmptyDir(path),
         NEW y \in Used(disk)
  PROVE  ~In(ch, y, x)
<1> SUFFICES ASSUME In(ch, y, x) PROVE FALSE
  OBVIOUS
<1>1. PICK k \in Folder(disk) : In(ch, y, k) /\ home[y] = Append(home[k], At(disk, y).name)
  BY DEF Vol, Tree
<1>2. k = x
  <2>1. PICK i \in 1..Len(ch[k]) : ch[k][i] = y[1]
    BY <1>1 DEF In
  <2>2. PICK j \in 1..Len(ch[x]) : ch[x][j] = y[1]
    BY DEF In
  <2>3. k \in Key /\ x \in Key /\ DOMAIN ch = Key /\ Laid(disk.fat, ch)
    BY FolderFacts DEF Vol, Chains
  <2> QED
    BY <2>1, <2>2, <2>3, LaidApart
<1>3. home[x] = path
  BY PathFound
<1> DEFINE n == At(disk, y).name
           z == home[y]
<1>4. z = Append(path, n)
  BY <1>1, <1>2, <1>3
<1>5. path \in Seq(Names) /\ path # <<>>
  BY PathFacts
<1> HIDE DEF n
<1>6. Len(Append(path, n)) > Len(path) /\ IsPrefix(path, Append(path, n))
  BY <1>5, PrefixOf
<1>7. Len(path) \in Nat /\ Len(path) # 0
  BY <1>5, SeqElement
<1>8. z \in Path \/ Len(z) = 1
  BY DEF Vol, Tree
<1>9. z \in Path
  <2>1. Len(Append(path, n)) = Len(path) + 1
    BY <1>5, <1>7
  <2> QED
    BY <1>4, <1>7, <1>8, <2>1
<1>10. fat32_resolve(disk, z).found
  BY ResolveFinds
<1> HIDE DEF z
<1>11. z \in DOMAIN view.tree
  BY <1>9, <1>10, InTree
<1> QED
  BY <1>4, <1>6, <1>11 DEF IsEmptyDir

------------------------------------------------------------------------------
\* The invariant and the calls.

\* The volume is in order under the open files, until the power has failed.
IInv ==
  /\ PlainDisk(disk) /\ view = View(disk, file_table)
  /\ Sound(disk, file_table) \/ (~Up /\ file_table = NoFiles)

\* A call whose outcome is in order, and every power cut in it.
LEMMA FinishKeeps ==
  ASSUME NEW o, NEW on, NEW truncates, Finish(o, on, truncates),
         Hist(o.t), Sound(Last(o.t), o.table)
  PROVE  IInv'
<1>1. CASE /\ disk' = Last(o.t)
           /\ file_table' = o.table
           /\ result' = o.answer
           /\ view' = View(Last(o.t), o.table)
  <2>1. PlainDisk(Last(o.t))
    BY HistFacts
  <2> DEFINE e == Last(o.t)
             table == o.table
  <2>2. PlainDisk(e) /\ Sound(e, table) /\ disk' = e /\ file_table' = table /\ view' = View(e, table)
    BY <1>1, <2>1
  <2> HIDE DEF e, table
  <2>3. Sound(disk', file_table') /\ PlainDisk(disk') /\ view' = View(disk', file_table')
    BY <2>2
  <2> QED
    BY <2>3 DEF IInv
<1>2. CASE /\ \E i \in DOMAIN o.t : disk' = o.t[i] /\ view' = View(o.t[i], NoFiles)
           /\ file_table' = NoFiles
           /\ result' = [op |-> "cut", on |-> on,
                         during |-> IF truncates THEN "truncation" ELSE o.answer.op]
  <2>1. PICK i \in DOMAIN o.t : disk' = o.t[i] /\ view' = View(o.t[i], NoFiles)
    BY <1>2
  <2>2. PlainDisk(disk')
    BY <2>1, HistFacts
  <2>3. view' = View(disk', file_table')
    BY <1>2, <2>1
  <2>4. ~Up'
    BY <1>2 DEF Up
  <2> QED
    BY <1>2, <2>2, <2>3, <2>4 DEF IInv
<1> QED
  BY <1>1, <1>2 DEF Finish

\* A call on descriptor fd.
LEMMA FileKeeps ==
  ASSUME IInv, NEW fd \in Fd, InUse(fd), NEW s, NEW answer, NEW on, NEW truncates,
         Finish(OnFile(fd, s.t, s.f, answer), on, truncates),
         \A ch, home : Vol(disk, ch, home, Writers(file_table)) /\ FileOK(disk, ch, file_table[fd])
                       => Turn(disk, ch, Writers(file_table), file_table[fd], s)
  PROVE  IInv'
<1> DEFINE o == OnFile(fd, s.t, s.f, answer)
<1>1. o.t = s.t /\ o.table = Put(file_table, fd, s.f)
  BY DEF OnFile, Put
<1>2. Sound(disk, file_table) /\ file_table[fd].used
  BY DEF IInv, InUse
<1>3. PICK ch, home : Vol(disk, ch, home, Writers(file_table)) /\ Files(disk, ch, file_table)
  BY <1>2 DEF Sound
<1>4. FileOK(disk, ch, file_table[fd])
  BY <1>2, <1>3, UsedFile
<1>5. Turn(disk, ch, Writers(file_table), file_table[fd], s)
  BY <1>3, <1>4
<1>6. Hist(s.t) /\ Sound(Last(s.t), Put(file_table, fd, s.f))
  BY <1>2, <1>3, <1>5, TurnSound
<1> HIDE DEF o
<1>7. Hist(o.t) /\ Sound(Last(o.t), o.table)
  BY <1>1, <1>6
<1>8. Finish(o, on, truncates)
  BY DEF o
<1> QED
  BY <1>7, <1>8, FinishKeeps

\* A call on paths that leads to a volume without the entries in X.
LEMMA PathKeeps ==
  ASSUME NEW op, NEW r, NEW on, NEW truncates, Finish(OnPath(op, r), on, truncates),
         NEW ch, NEW home, Vol(disk, ch, home, Writers(file_table)), Files(disk, ch, file_table),
         NEW X, Leads(disk, ch, r.t, Writers(file_table), X),
         \A fd \in Fd : file_table[fd].used => file_table[fd].de \notin X
  PROVE  IInv'
<1> DEFINE o == OnPath(op, r)
           t == r.t
<1>1. o.t = t /\ o.table = file_table
  BY DEF OnPath
<1>2. Leads(disk, ch, t, Writers(file_table), X)
  OBVIOUS
<1> HIDE DEF t, o
<1>3. Hist(t) /\ Sound(Last(t), file_table)
  BY <1>2, LeadsSound
<1>4. Hist(o.t) /\ Sound(Last(o.t), o.table)
  BY <1>1, <1>3
<1>5. Finish(o, on, truncates)
  BY DEF o
<1> QED
  BY <1>4, <1>5, FinishKeeps

\* Open.
LEMMA OpenKeeps ==
  ASSUME IInv, NEW path \in Path, NEW mode, fat32_open(path, mode)
  PROVE  IInv'
<1> DEFINE o == OpenOutcome(disk, file_table, path, mode)
<1>1. Sound(disk, file_table) /\ view = View(disk, file_table) /\ MayOpen(path, mode)
      /\ Finish(o, {path}, Truncates(mode))
  BY DEF IInv, fat32_open
<1>2. fat32_resolve(disk, path).found => Openable(disk, file_table, fat32_resolve(disk, path), mode)
  BY <1>1, MayOpenIs
<1>3. Hist(o.t) /\ Sound(Last(o.t), o.table)
  BY <1>1, <1>2, OpenSound
<1> HIDE DEF o
<1> DEFINE on == {path}
           truncates == Truncates(mode)
<1>4. Finish(o, on, truncates)
  BY <1>1
<1> HIDE DEF on, truncates
<1> QED
  BY <1>3, <1>4, FinishKeeps

\* Close.
LEMMA CloseKeeps ==
  ASSUME IInv, NEW fd \in Fd, fat32_close(fd)
  PROVE  IInv'
<1> DEFINE t == CloseOutcome(disk, file_table[fd])
           answer == Answer("close", 0, <<>>)
           o == OnFile(fd, t, FREE, answer)
           on == {}
           truncates == FALSE
<1>1. Sound(disk, file_table) /\ file_table[fd].used /\ Finish(o, on, truncates)
  BY DEF IInv, fat32_close, InUse
<1>2. PICK ch, home : Vol(disk, ch, home, Writers(file_table)) /\ Files(disk, ch, file_table)
  BY <1>1 DEF Sound
<1>3. Hist(t) /\ Sound(Last(t), Put(file_table, fd, FREE))
  BY <1>1, <1>2, CloseSound
<1> HIDE DEF t, answer, on, truncates
<1>4. o.t = t /\ o.table = Put(file_table, fd, FREE)
  BY DEF OnFile, Put
<1> HIDE DEF o
<1>5. Hist(o.t) /\ Sound(Last(o.t), o.table)
  BY <1>3, <1>4
<1> QED
  BY <1>1, <1>5, FinishKeeps

\* Read.
LEMMA ReadKeeps ==
  ASSUME IInv, NEW fd \in Fd, NEW count \in Counts, fat32_read(fd, count)
  PROVE  IInv'
<1> DEFINE f == file_table[fd]
           x == ReadOutcome(disk, f, count)
           answer == Answer("read", Len(x.out), x.out)
           on == {}
           truncates == FALSE
<1>1. InUse(fd) /\ Finish(OnFile(fd, x.t, x.f, answer), on, truncates)
  BY DEF fat32_read
<1>2. count \in Nat
  BY Fat32Assumption
<1>3. \A ch, home : Vol(disk, ch, home, Writers(file_table)) /\ FileOK(disk, ch, f)
                    => Turn(disk, ch, Writers(file_table), f, x)
  <2> SUFFICES ASSUME NEW ch, NEW home, Vol(disk, ch, home, Writers(file_table)),
                      FileOK(disk, ch, f)
               PROVE  Turn(disk, ch, Writers(file_table), f, x)
    OBVIOUS
  <2> HIDE DEF f
  <2> QED
    BY <1>2, ReadTurn
<1> HIDE DEF x, answer, on, truncates
<1> QED
  BY <1>1, <1>3, FileKeeps

\* Write.
LEMMA WriteKeeps ==
  ASSUME IInv, NEW fd \in Fd, NEW bytes \in Strings, fat32_write(fd, bytes)
  PROVE  IInv'
<1> DEFINE f == file_table[fd]
           on == {}
           truncates == FALSE
<1>1. InUse(fd)
  BY DEF fat32_write
<1>2. CASE f.writable
  <2> DEFINE x == WriteOutcome(disk, f, bytes)
             answer == Answer("write", x.n, <<>>)
  <2>1. Finish(OnFile(fd, x.t, x.f, answer), on, truncates)
    BY <1>2 DEF fat32_write
  <2>2. Len(bytes) \in Nat
    BY Fat32Assumption, SeqElement
  <2>3. f.de \in Writers(file_table)
    BY <1>1, <1>2 DEF InUse, Writers
  <2>4. \A ch, home : Vol(disk, ch, home, Writers(file_table)) /\ FileOK(disk, ch, f)
                      => Turn(disk, ch, Writers(file_table), f, x)
    <3> SUFFICES ASSUME NEW ch, NEW home, Vol(disk, ch, home, Writers(file_table)),
                        FileOK(disk, ch, f)
                 PROVE  Turn(disk, ch, Writers(file_table), f, x)
      OBVIOUS
    <3> DEFINE w == Writers(file_table)
    <3>1. Vol(disk, ch, home, w) /\ f.de \in w
      BY <2>3
    <3> HIDE DEF f, w
    <3>2. Turn(disk, ch, w, f, x)
      BY <1>2, <2>2, <3>1, WriteTurn
    <3> QED
      BY <3>2 DEF w
  <2> HIDE DEF x, answer, on, truncates
  <2> QED
    BY <1>1, <2>1, <2>4, FileKeeps
<1>3. CASE ~f.writable
  <2> DEFINE x == [t |-> <<disk>>, f |-> f]
             answer == Answer("write", -1, <<>>)
  <2>1. Finish(OnFile(fd, x.t, x.f, answer), on, truncates)
    BY <1>3 DEF fat32_write
  <2>2. \A ch, home : Vol(disk, ch, home, Writers(file_table)) /\ FileOK(disk, ch, f)
                      => Turn(disk, ch, Writers(file_table), f, x)
    <3> SUFFICES ASSUME NEW ch, NEW home, Vol(disk, ch, home, Writers(file_table)),
                        FileOK(disk, ch, f)
                 PROVE  Turn(disk, ch, Writers(file_table), f, x)
      OBVIOUS
    <3>1. x.t = <<disk>> /\ x.f = f /\ {"t", "f"} \subseteq DOMAIN x
      OBVIOUS
    <3> HIDE DEF f, x
    <3> QED
      BY <3>1, TurnStart
  <2> HIDE DEF x, answer, on, truncates
  <2> QED
    BY <1>1, <2>1, <2>2, FileKeeps
<1> QED
  BY <1>2, <1>3

\* Seek.
LEMMA SeekKeeps ==
  ASSUME IInv, NEW fd \in Fd, NEW seek \in Seeks, fat32_seek(fd, seek[1], seek[2])
  PROVE  IInv'
<1> DEFINE f == file_table[fd]
           whence == seek[1]
           offset == seek[2]
           base == CASE whence = "SET" -> 0 [] whence = "CUR" -> f.pos [] OTHER -> f.size
           pos == Clamp(base + offset, f)
           x == [t |-> <<disk>>, f |-> Put(f, "pos", pos)]
           answer == Answer("seek", pos, <<>>)
           on == {}
           truncates == FALSE
<1>1. InUse(fd)
  BY DEF fat32_seek
<1>2. Finish(OnFile(fd, x.t, x.f, answer), on, truncates)
  <2>1. x.t = <<disk>> /\ x.f = [f EXCEPT !.pos = pos]
    BY DEF Put
  <2> QED
    BY <2>1 DEF fat32_seek
<1>3. offset \in Int
  BY Fat32Assumption
<1>4. \A ch, home : Vol(disk, ch, home, Writers(file_table)) /\ FileOK(disk, ch, f)
                    => Turn(disk, ch, Writers(file_table), f, x)
  <2> SUFFICES ASSUME NEW ch, NEW home, Vol(disk, ch, home, Writers(file_table)),
                      FileOK(disk, ch, f)
               PROVE  Turn(disk, ch, Writers(file_table), f, x)
    OBVIOUS
  <2>1. f.pos \in Nat /\ f.size \in Nat
    BY DEF FileOK
  <2>2. base \in Int
    BY <2>1
  <2> DEFINE n == base + offset
  <2>3. n \in Int
    BY <1>3, <2>2
  <2> HIDE DEF n, f
  <2>4. Clamp(n, f) \in Nat /\ Clamp(n, f) <= f.size
    BY <2>1, <2>3, ClampIs
  <2>5. pos \in Nat /\ pos <= f.size
    BY <2>4 DEF n
  <2> HIDE DEF pos
  <2> QED
    BY <2>5, SeekTurn
<1> HIDE DEF x, answer, on, truncates
<1> QED
  BY <1>1, <1>2, <1>4, FileKeeps

\* Make a directory.
LEMMA MkdirKeeps ==
  ASSUME IInv, NEW path \in Path, fat32_mkdir(path)
  PROVE  IInv'
<1> DEFINE r == MkdirOutcome(disk, path)
           op == "mkdir"
           on == {path}
           truncates == FALSE
           X == {}
           w == Writers(file_table)
<1>1. Sound(disk, file_table) /\ Finish(OnPath(op, r), on, truncates)
  BY DEF IInv, fat32_mkdir
<1>2. PICK ch, home : Vol(disk, ch, home, w) /\ Files(disk, ch, file_table)
  BY <1>1 DEF Sound
<1>3. Leads(disk, ch, r.t, w, X)
  <2> HIDE DEF w
  <2> QED
    BY <1>2, MkdirLeads
<1>4. \A fd \in Fd : file_table[fd].used => file_table[fd].de \notin X
  OBVIOUS
<1> HIDE DEF r, op, on, truncates, X
<1> QED
  BY <1>1, <1>2, <1>3, <1>4, PathKeeps

\* A call that does nothing for want of a file.
LEMMA NothingKeeps ==
  ASSUME NEW op, NEW r, NEW on, NEW truncates, Finish(OnPath(op, r), on, truncates),
         NEW ch, NEW home, Vol(disk, ch, home, Writers(file_table)), Files(disk, ch, file_table),
         r.t = <<disk>>
  PROVE  IInv'
<1> DEFINE X == {}
           w == Writers(file_table)
           t == <<disk>>
<1>1. Leads(disk, ch, t, w, X)
  <2> HIDE DEF X, w
  <2> QED
    BY LeadsNowhere DEF w
<1>2. \A fd \in Fd : file_table[fd].used => file_table[fd].de \notin X
  OBVIOUS
<1> HIDE DEF X, t
<1>3. Leads(disk, ch, r.t, w, X)
  BY <1>1 DEF t
<1> QED
  BY <1>2, <1>3, PathKeeps

\* Delete.
LEMMA DeleteKeeps ==
  ASSUME IInv, NEW path \in Path, fat32_delete(path)
  PROVE  IInv'
<1> DEFINE r == DeleteOutcome(disk, path)
           op == "delete"
           on == {path}
           truncates == FALSE
           x == fat32_resolve(disk, path).de
           X == {x}
           w == Writers(file_table)
<1>1. /\ Sound(disk, file_table) /\ view = View(disk, file_table) /\ MayDelete(path)
      /\ Finish(OnPath(op, r), on, truncates)
  BY DEF IInv, fat32_delete
<1>2. PICK ch, home : Vol(disk, ch, home, w) /\ Files(disk, ch, file_table)
  BY <1>1 DEF Sound
<1>3. CASE fat32_resolve(disk, path).found
  <2>1. OpenOn(path) = {} /\ (IsDir(path) => IsEmptyDir(path))
    BY <1>1 DEF MayDelete
  <2>2. x \notin w /\ \A fd \in Fd : file_table[fd].used => file_table[fd].de # x
    BY <1>1, <1>2, <1>3, <2>1, NotOpen
  <2>3. ASSUME x \in Folder(disk), NEW y \in Used(disk) PROVE ~In(ch, y, x)
    <3>1. x \in Used(disk) /\ fat32_resolve(disk, path).entry = At(disk, x)
      BY <1>2, <1>3, PathFound
    <3>2. At(disk, x).dir
      BY <2>3, <3>1, FolderFacts, <1>2, UsedFacts DEF Vol
    <3>3. IsEmptyDir(path)
      BY <1>1, <1>3, <2>1, <3>1, <3>2, InTree
    <3> HIDE DEF w
    <3> QED
      BY <1>1, <1>2, <1>3, <2>3, <3>3, EmptyDirIs
  <2>4. Leads(disk, ch, r.t, w, X)
    <3> HIDE DEF w
    <3>1. /\ x = fat32_resolve(disk, path).de
          /\ fat32_resolve(disk, path).found => x \notin w
          /\ fat32_resolve(disk, path).found /\ x \in Folder(disk)
             => \A y \in Used(disk) : ~In(ch, y, x)
      BY <2>2, <2>3
    <3> HIDE DEF x
    <3> QED
      BY <1>2, <3>1, DeleteLeads
  <2>5. \A fd \in Fd : file_table[fd].used => file_table[fd].de \notin X
    BY <2>2
  <2> HIDE DEF r, op, on, truncates, X
  <2> QED
    BY <1>1, <1>2, <2>4, <2>5, PathKeeps
<1>4. CASE ~fat32_resolve(disk, path).found
  <2>1. r.t = <<disk>>
    BY <1>4 DEF DeleteOutcome
  <2> HIDE DEF r, op, on, truncates
  <2> QED
    BY <1>1, <1>2, <2>1, NothingKeeps
<1> QED
  BY <1>3, <1>4

\* Rename.
LEMMA RenameKeeps ==
  ASSUME IInv, NEW old \in Path, NEW new \in Path, fat32_rename(old, new)
  PROVE  IInv'
<1> DEFINE r == RenameOutcome(disk, old, new)
           op == "rename"
           on == {old, new}
           truncates == FALSE
           x == fat32_resolve(disk, old).de
           X == {x}
           w == Writers(file_table)
<1>1. /\ Sound(disk, file_table) /\ view = View(disk, file_table) /\ MayRename(old, new)
      /\ Finish(OnPath(op, r), on, truncates)
  BY DEF IInv, fat32_rename
<1>2. PICK ch, home : Vol(disk, ch, home, w) /\ Files(disk, ch, file_table)
  BY <1>1 DEF Sound
<1>3. CASE fat32_resolve(disk, old).found
  <2>1. OpenOn(old) = {} /\ ~IsDir(old) /\ new \notin DOMAIN view.tree
    BY <1>1 DEF MayRename
  <2>2. x \notin w /\ \A fd \in Fd : file_table[fd].used => file_table[fd].de # x
    BY <1>1, <1>2, <1>3, <2>1, NotOpen
  <2>3. ~At(disk, x).dir
    <3>1. fat32_resolve(disk, old).entry = At(disk, x)
      BY <1>2, <1>3, PathFound
    <3> QED
      BY <1>1, <1>3, <2>1, <3>1, InTree
  <2>4. ~fat32_resolve(disk, new).found
    BY <1>1, <2>1, InTree
  <2>5. Leads(disk, ch, r.t, w, X)
    <3> HIDE DEF w
    <3>1. /\ x = fat32_resolve(disk, old).de
          /\ fat32_resolve(disk, old).found => x \notin w /\ ~At(disk, x).dir
      BY <2>2, <2>3
    <3> HIDE DEF x
    <3> QED
      BY <1>2, <2>4, <3>1, RenameLeads
  <2>6. \A fd \in Fd : file_table[fd].used => file_table[fd].de \notin X
    BY <2>2
  <2> HIDE DEF r, op, on, truncates, X
  <2> QED
    BY <1>1, <1>2, <2>5, <2>6, PathKeeps
<1>4. CASE ~fat32_resolve(disk, old).found
  <2>1. r.t = <<disk>>
    BY <1>4 DEF RenameOutcome
  <2> HIDE DEF r, op, on, truncates
  <2> QED
    BY <1>1, <1>2, <2>1, NothingKeeps
<1> QED
  BY <1>3, <1>4

------------------------------------------------------------------------------
\* The volume of the image tools.

\* A volume whose only entry, if any, is that of an empty file in the first slot
\* of the root directory.
Blank(d, v) ==
  /\ PlainDisk(d) /\ Sectors(d) /\ d.sec[root_cluster].kind = "dir"
  /\ d.fat[root_cluster] = EOC
  /\ v = END \/ \E n \in Premade : v = Dirent(n, FALSE, 0, 0)
  /\ At(d, <<root_cluster, 1>>) = v
  /\ \A y \in Place : y # <<root_cluster, 1>> /\ d.sec[y[1]].kind = "dir" => At(d, y) = END

\* No chains at all.
Nobody == [k \in Key |-> <<>>]

\* It is one.
LEMMA BlankVol ==
  ASSUME NEW d, NEW v, Blank(d, v)
  PROVE  \E ch, home : Vol(d, ch, home, {})
<1> DEFINE s == <<root_cluster>>
           x == <<root_cluster, 1>>
           ch == Put(Nobody, ROOT, s)
           p == <<v.name>>
           home == IF Entry(v) THEN Put(Nobody, x, p) ELSE Nobody
           w == {}
<1>1. /\ s \in Seq(Cluster) /\ Len(s) = 1 /\ s[1] = root_cluster /\ s # <<>>
      /\ <<>> \in Seq(Cluster) /\ Len(<<>>) = 0 /\ First(s) = root_cluster /\ First(<<>>) = 0
      /\ \A i \in 1..Len(s) : i = 1
  BY OneCluster, ClusterFacts
<1>2. x \in Place /\ x[1] = root_cluster /\ x[2] = 1
  <2>1. root_cluster \in Cluster /\ 1 \in 1..SLOTS
    BY ClusterFacts, Constants
  <2> QED
    BY <2>1, PlaceFacts
<1>3. Nobody \in Chains /\ \A k \in Key : Nobody[k] = <<>>
  <2> DEFINE e == <<>>
  <2>1. e \in Seq(Cluster)
    BY <1>1
  <2>2. Nobody = [k \in Key |-> e]
    BY DEF Nobody
  <2> HIDE DEF e
  <2>3. Nobody \in Chains /\ \A k \in Key : Nobody[k] = e
    BY <2>1, <2>2 DEF Chains
  <2> QED
    BY <2>3 DEF e
<1> HIDE DEF s
<1>4. ch \in Chains /\ ch[ROOT] = s /\ \A k \in Key : k # ROOT => ch[k] = <<>>
  BY <1>1, <1>3, KeyFacts, PutChains
<1>5. DOMAIN ch = Key
  BY <1>4 DEF Chains
<1> HIDE DEF ch
<1>6. \A y \in Used(d) : y = x /\ Entry(v) /\ At(d, y) = v
  <2> SUFFICES ASSUME NEW y \in Used(d) PROVE y = x /\ Entry(v) /\ At(d, y) = v
    OBVIOUS
  <2>1. y \in Place /\ d.sec[y[1]].kind = "dir" /\ Entry(At(d, y))
    BY DEF Used
  <2>2. At(d, y) # END
    BY <2>1, SlotFacts
  <2> QED
    BY <2>1, <2>2 DEF Blank
<1>7. ASSUME Entry(v)
      PROVE  /\ v.mark = "used" /\ v.name \in Names /\ v.name \notin Dots /\ v.dir = FALSE
             /\ v.first = 0 /\ v.size = 0 /\ v # END
  <2>1. v # END
    BY <1>7, SlotFacts
  <2>2. PICK n \in Premade : v = Dirent(n, FALSE, 0, 0)
    BY <2>1 DEF Blank
  <2>3. v.mark = "used" /\ v.name = n /\ v.dir = FALSE /\ v.first = 0 /\ v.size = 0
    BY <2>2 DEF Dirent
  <2> QED
    BY <1>7, <2>1, <2>3 DEF Entry, Names
<1>8. Folder(d) = {ROOT}
  BY <1>6, <1>7 DEF Folder
<1>9. Laid(d.fat, ch)
  <2> DEFINE fat == d.fat
  <2>1. \A k \in Key : \A i \in 1..Len(ch[k]) : k = ROOT /\ i = 1 /\ ch[k] = s
    <3> SUFFICES ASSUME NEW k \in Key, NEW i \in 1..Len(ch[k]) PROVE k = ROOT /\ i = 1 /\ ch[k] = s
      OBVIOUS
    <3>1. CASE k = ROOT
      BY <1>1, <1>4, <3>1
    <3>2. CASE k # ROOT
      <4>1. Len(ch[k]) = 0
        BY <1>1, <1>4, <3>2
      <4> QED
        BY <4>1
    <3> QED
      BY <3>1, <3>2
  <2>2. \A k \in DOMAIN ch : ch[k] \in Seq(Cluster)
    BY <1>4, <1>5 DEF Chains
  <2>3. \A k \in DOMAIN ch : \A i \in 1..Len(ch[k]) : Link1(fat, ch[k], i)
    <3> SUFFICES ASSUME NEW k \in Key, NEW i \in 1..Len(ch[k]) PROVE Link1(fat, ch[k], i)
      BY <1>5
    <3>1. ch[k] = s /\ i = 1
      BY <2>1
    <3>2. fat[s[1]] = EOC /\ ~(1 < Len(s))
      BY <1>1 DEF Blank
    <3> QED
      BY <3>1, <3>2 DEF Link1
  <2>4. \A k, q \in DOMAIN ch : \A i \in 1..Len(ch[k]), j \in 1..Len(ch[q]) :
          ch[k][i] = ch[q][j] => k = q /\ i = j
    BY <1>5, <2>1
  <2> HIDE DEF fat
  <2>5. Laid(fat, ch)
    BY <2>2, <2>3, <2>4, LaidBy
  <2> QED
    BY <2>5 DEF fat
<1>10. Told(d, ch, w)
  <2> SUFFICES ASSUME NEW y \in Used(d) PROVE Tells(d, ch, y)
    BY DEF Told
  <2>1. y = x /\ Entry(v) /\ At(d, y) = v
    BY <1>6
  <2>2. v.first = 0 /\ v.size = 0
    BY <1>7, <2>1
  <2>3. y \in Key /\ y # ROOT
    BY <1>2, <2>1, KeyFacts
  <2>4. ch[y] = <<>>
    BY <1>4, <2>3
  <2>5. First(ch[y]) = 0 /\ Len(ch[y]) = 0
    BY <1>1, <2>4
  <2>6. 0 \in Nat /\ 0 <= 0 * SECTOR
    BY Constants
  <2> QED
    BY <2>1, <2>2, <2>5, <2>6 DEF Tells
<1>11. Housed(d, ch)
  <2> SUFFICES ASSUME NEW k \in Folder(d)
               PROVE  /\ \A i \in 1..Len(ch[k]) : d.sec[ch[k][i]].kind = "dir"
                      /\ Order(d, ch[k])
    BY DEF Housed
  <2>1. ch[k] = s
    BY <1>4, <1>8
  <2>2. \A i \in 1..Len(s) : d.sec[s[i]].kind = "dir"
    BY <1>1 DEF Blank
  <2>3. Order(d, s)
    <3> SUFFICES ASSUME NEW a \in 1..Len(s), NEW i \in 1..Len(s), NEW b \in 1..SLOTS, NEW j \in 1..SLOTS,
                        Before(a, b, i, j), At(d, <<s[a], b>>) = END, <<s[i], j>> \in Used(d)
                 PROVE  FALSE
      BY DEF Order
    <3>1. a = 1 /\ i = 1
      BY <1>1
    <3>2. b <= j
      BY <3>1 DEF Before
    <3>3. <<s[i], j>> = x /\ Entry(v)
      BY <1>6
    <3>4. j = 1
      BY <3>3
    <3>5. b = 1
      BY <3>2, <3>4, Constants
    <3>6. At(d, x) = END
      BY <1>1, <3>1, <3>5
    <3> QED
      BY <1>7, <3>3, <3>6 DEF Blank
  <2> QED
    BY <2>1, <2>2, <2>3
<1>12. Tree(d, ch, home)
  <2>1. /\ home \in [Key -> Seq(Names)] /\ home[ROOT] = <<>>
        /\ Entry(v) => home[x] = p
    <3> DEFINE e == <<>>
    <3>1. Nobody = [k \in Key |-> e] /\ e \in Seq(Names)
      BY DEF Nobody
    <3>2. CASE ~Entry(v)
      <4>1. home = Nobody
        BY <3>2
      <4> HIDE DEF home, e, p
      <4>2. Nobody \in [Key -> Seq(Names)] /\ Nobody[ROOT] = e
        BY <3>1, KeyFacts
      <4> QED
        BY <3>2, <4>1, <4>2 DEF e
    <3>3. CASE Entry(v)
      <4>1. home = Put(Nobody, x, p)
        BY <3>3
      <4>2. p \in Seq(Names)
        BY <1>7, <3>3
      <4>3. x \in Key /\ x # ROOT
        BY <1>2, KeyFacts
      <4> HIDE DEF home, e, p, x
      <4>4. Nobody \in [Key -> Seq(Names)] /\ Nobody[ROOT] = e /\ DOMAIN Nobody = Key
        BY <3>1, KeyFacts
      <4>5. home = [Nobody EXCEPT ![x] = p]
        BY <4>1 DEF Put
      <4>6. home \in [Key -> Seq(Names)] /\ home[ROOT] = e /\ home[x] = p
        BY <4>2, <4>3, <4>4, <4>5, KeyFacts
      <4> QED
        BY <4>6 DEF e
    <3> QED
      BY <3>2, <3>3
  <2> HIDE DEF home
  <2>2. \A y \in Used(d) : \E k \in Folder(d) :
          In(ch, y, k) /\ home[y] = Append(home[k], At(d, y).name)
    <3> SUFFICES ASSUME NEW y \in Used(d)
                 PROVE  In(ch, y, ROOT) /\ home[y] = Append(home[ROOT], At(d, y).name)
      BY <1>8
    <3>1. y = x /\ Entry(v) /\ At(d, y) = v
      BY <1>6
    <3>2. In(ch, y, ROOT)
      BY <1>1, <1>2, <1>4, <3>1 DEF In
    <3>3. Append(<<>>, v.name) = p
      OBVIOUS
    <3> QED
      BY <2>1, <3>1, <3>2, <3>3
  <2>3. \A y, z \in Used(d) : home[y] = home[z] => y = z
    BY <1>6
  <2>4. \A y \in Used(d) : Len(home[y]) = 1
    <3>1. Len(p) = 1
      OBVIOUS
    <3> QED
      BY <1>6, <2>1, <3>1
  <2> QED
    BY <2>1, <2>2, <2>3, <2>4 DEF Tree
<1>13. First(ch[ROOT]) = root_cluster
  BY <1>1, <1>4
<1> HIDE DEF home, w
<1>14. Vol(d, ch, home, w)
  BY <1>4, <1>9, <1>10, <1>11, <1>12, <1>13 DEF Vol, Blank
<1> QED
  BY <1>14 DEF w

\* The first disk.
LEMMA InitBlank ==
  ASSUME Init
  PROVE  \E v : Blank(disk, v)
<1> DEFINE junk == Bytes(Junk)
           c1 == root_cluster
           Fresh(s) == [fat |-> [c \in Cluster |-> IF c = c1 THEN EOC ELSE 0],
                        sec |-> [c \in Cluster |-> IF c = c1 THEN s ELSE junk]]
<1>1. PICK root \in {Zeroes} \cup {PutFirst(Zeroes, Dirent(n, FALSE, 0, 0)) : n \in Premade} :
        disk = Fresh(root)
  BY DEF Init
<1>2. \E f, v : /\ root = Slots(f) /\ DOMAIN f = 1..SLOTS /\ f[1] = v
                /\ \A j \in 1..SLOTS : j # 1 => f[j] = END
                /\ v = END \/ \E n \in Premade : v = Dirent(n, FALSE, 0, 0)
  <2> DEFINE e == END
             z == [i \in 1..SLOTS |-> e]
  <2>1. Zeroes = Slots(z) /\ Zeroes.slot = z
    <3>1. Zeroes = Slots(z)
      BY DEF Zeroes
    <3> HIDE DEF z
    <3> QED
      BY <3>1, SectorFacts
  <2>2. 1 \in 1..SLOTS
    BY Constants
  <2> HIDE DEF e
  <2>3. DOMAIN z = 1..SLOTS /\ \A j \in 1..SLOTS : z[j] = e
    OBVIOUS
  <2> HIDE DEF z
  <2>4. CASE root = Zeroes
    BY <2>1, <2>2, <2>3, <2>4 DEF e
  <2>5. CASE root # Zeroes
    <3>1. PICK n \in Premade : root = PutFirst(Zeroes, Dirent(n, FALSE, 0, 0))
      BY <1>1, <2>5
    <3> DEFINE v == Dirent(n, FALSE, 0, 0)
               f == Put(z, 1, v)
    <3>2. root = Slots(f)
      BY <2>1, <3>1 DEF PutFirst, Put
    <3>3. \E m \in Premade : v = Dirent(m, FALSE, 0, 0)
      OBVIOUS
    <3> HIDE DEF v
    <3>4. DOMAIN f = 1..SLOTS /\ f[1] = v /\ \A j \in 1..SLOTS : j # 1 => f[j] = e
      BY <2>2, <2>3 DEF Put
    <3> HIDE DEF f
    <3> QED
      BY <3>2, <3>3, <3>4 DEF e
  <2> QED
    BY <2>4, <2>5
<1>3. PICK f, v : /\ root = Slots(f) /\ DOMAIN f = 1..SLOTS /\ f[1] = v
                  /\ \A j \in 1..SLOTS : j # 1 => f[j] = END
                  /\ v = END \/ \E n \in Premade : v = Dirent(n, FALSE, 0, 0)
  BY <1>2
<1>4. junk.kind = "data" /\ SectorOK(junk)
  BY SectorFacts
<1> HIDE DEF junk
<1> DEFINE fat == [c \in Cluster |-> IF c = c1 THEN EOC ELSE 0]
           sec == [c \in Cluster |-> IF c = c1 THEN root ELSE junk]
<1>5. disk = [fat |-> fat, sec |-> sec]
  BY <1>1
<1>6. c1 \in Cluster
  BY ClusterFacts
<1>7. fat \in Fats /\ fat[c1] = EOC
  <2>1. EOC \in Links /\ 0 \in Links
    BY DEF Links
  <2> QED
    BY <1>6, <2>1 DEF Fats
<1>8. DOMAIN sec = Cluster /\ sec[c1] = root /\ \A c \in Cluster : c # c1 => sec[c] = junk
  BY <1>6
<1> HIDE DEF fat, sec, c1
<1>9. disk.fat = fat /\ disk.sec = sec
  BY <1>5
<1>10. PlainDisk(disk)
  BY <1>5, <1>7, <1>8, <1>9 DEF PlainDisk
<1>11. root.kind = "dir" /\ root.slot = f
  BY <1>3, SectorFacts
<1>12. SectorOK(root)
  <2>1. SlotOK(END) /\ SlotOK(v)
    <3>1. CASE v = END
      BY <3>1, SlotFacts
    <3>2. CASE v # END
      <4>1. PICK n \in Premade : v = Dirent(n, FALSE, 0, 0)
        BY <1>3, <3>2
      <4>2. n \in Names \cup Dots /\ FALSE \in BOOLEAN
        BY DEF Names
      <4> DEFINE dir == FALSE
                 z == 0
      <4>3. v = Dirent(n, dir, z, z) /\ dir \in BOOLEAN
        BY <4>1
      <4> HIDE DEF dir, z
      <4> QED
        BY <4>2, <4>3, SlotFacts DEF SlotOK
    <3> QED
      BY <3>1, <3>2
  <2>2. SlotsOK(f)
    BY <1>3, <2>1 DEF SlotsOK
  <2> QED
    BY <1>3, <2>2, SectorFacts
<1>13. Sectors(disk)
  BY <1>4, <1>8, <1>9, <1>12 DEF Sectors
<1>14. At(disk, <<c1, 1>>) = v
  BY <1>3, <1>8, <1>9, <1>11 DEF At
<1>15. \A y \in Place : y # <<c1, 1>> /\ disk.sec[y[1]].kind = "dir" => At(disk, y) = END
  <2> SUFFICES ASSUME NEW y \in Place, y # <<c1, 1>>, disk.sec[y[1]].kind = "dir"
               PROVE  At(disk, y) = END
    OBVIOUS
  <2>1. y[1] \in Cluster /\ y[2] \in 1..SLOTS /\ y = <<y[1], y[2]>>
    BY PlaceFacts
  <2>2. CASE y[1] = c1
    <3>1. y[2] # 1
      BY <2>1, <2>2
    <3> QED
      BY <1>3, <1>8, <1>9, <1>11, <2>1, <2>2, <3>1 DEF At
  <2>3. CASE y[1] # c1
    BY <1>4, <1>8, <1>9, <2>1, <2>3
  <2> QED
    BY <2>2, <2>3
<1>16. c1 = root_cluster
  BY DEF c1
<1> QED
  BY <1>3, <1>7, <1>8, <1>9, <1>10, <1>11, <1>13, <1>14, <1>15, <1>16 DEF Blank

\* The first state is in order.
LEMMA InitIInv == Init => IInv
<1> SUFFICES ASSUME Init PROVE IInv
  OBVIOUS
<1>1. PICK v : Blank(disk, v)
  BY InitBlank
<1>2. PICK ch, home : Vol(disk, ch, home, {})
  BY <1>1, BlankVol
<1>3. file_table = NoFiles /\ view = View(disk, file_table)
  BY DEF Init
<1>4. DOMAIN file_table = Fd /\ \A fd \in Fd : file_table[fd] = FREE /\ file_table[fd].used = FALSE
  BY <1>3 DEF NoFiles, FREE
<1>5. Writers(file_table) = {}
  BY <1>4 DEF Writers
<1>6. Files(disk, ch, file_table)
  BY <1>4 DEF Files
<1>7. Vol(disk, ch, home, Writers(file_table))
  BY <1>2, <1>5
<1> QED
  BY <1>3, <1>6, <1>7 DEF IInv, Sound, Vol

\* Every step keeps it so.
LEMMA NextIInv == IInv /\ [Next]_vars => IInv'
<1> SUFFICES ASSUME IInv, [Next]_vars PROVE IInv'
  OBVIOUS
<1>1. CASE UNCHANGED vars
  <2>1. disk' = disk /\ file_table' = file_table /\ result' = result /\ view' = view
    BY <1>1 DEF vars
  <2> QED
    BY <2>1 DEF IInv, Up
<1>2. CASE \E path \in Path : \E mode \in Mode : fat32_open(path, mode)
  BY <1>2, OpenKeeps
<1>3. CASE \E path \in Path : fat32_delete(path)
  BY <1>3, DeleteKeeps
<1>4. CASE \E path \in Path : \E new \in Path : fat32_rename(path, new)
  BY <1>4, RenameKeeps
<1>5. CASE \E path \in Dirs : fat32_mkdir(path)
  <2>1. Dirs \subseteq Path
    BY Fat32Assumption
  <2> QED
    BY <1>5, <2>1, MkdirKeeps
<1>6. CASE \E fd \in Fd : fat32_close(fd)
  BY <1>6, CloseKeeps
<1>7. CASE \E fd \in Fd : \E count \in Counts : fat32_read(fd, count)
  BY <1>7, ReadKeeps
<1>8. CASE \E fd \in Fd : \E seek \in Seeks : fat32_seek(fd, seek[1], seek[2])
  BY <1>8, SeekKeeps
<1>9. CASE \E fd \in Fd : \E bytes \in Strings : fat32_write(fd, bytes)
  BY <1>9, WriteKeeps
<1>10. \/ UNCHANGED vars
       \/ \E path \in Path : \E mode \in Mode : fat32_open(path, mode)
       \/ \E path \in Path : fat32_delete(path)
       \/ \E path \in Path : \E new \in Path : fat32_rename(path, new)
       \/ \E path \in Dirs : fat32_mkdir(path)
       \/ \E fd \in Fd : fat32_close(fd)
       \/ \E fd \in Fd : \E count \in Counts : fat32_read(fd, count)
       \/ \E fd \in Fd : \E seek \in Seeks : fat32_seek(fd, seek[1], seek[2])
       \/ \E fd \in Fd : \E bytes \in Strings : fat32_write(fd, bytes)
  BY Zenon DEF Next
<1>11. CASE ~UNCHANGED vars
  BY <1>2, <1>3, <1>4, <1>5, <1>6, <1>7, <1>8, <1>9, <1>10, <1>11
<1> QED
  BY <1>1, <1>11

------------------------------------------------------------------------------
\* What the invariant says.

\* The sizes that a chain allows are within the volume.
LEMMA SizeBound ==
  ASSUME NEW size \in Nat, NEW n \in Nat, size <= n * SECTOR, n <= total_clusters
  PROVE  size <= total_clusters * SECTOR
<1>1. SECTOR \in Nat /\ total_clusters \in Nat
  BY Constants
<1>2. n * SECTOR <= total_clusters * SECTOR
  BY <1>1
<1>3. n * SECTOR \in Nat /\ total_clusters * SECTOR \in Nat
  BY <1>1
<1> QED
  BY <1>2, <1>3

\* Then the table of chains, the positions and the caches are what they may be.
LEMMA IInvTypeOK == IInv => TypeOK
<1> SUFFICES ASSUME IInv PROVE TypeOK
  OBVIOUS
<1>1. disk.fat \in [Cluster -> {0, EOC} \cup Cluster] /\ DOMAIN disk.sec = Cluster
  BY DEF IInv, PlainDisk, Fats, Links
<1>2. ASSUME NEW fd \in Fd, file_table[fd].used
      PROVE  LET f == file_table[fd]
             IN  /\ f.first \in {0} \cup Cluster
                 /\ f.pos \in 0..f.size /\ f.size <= total_clusters * SECTOR
                 /\ f.lba \in Cluster \cup {EOC}
                 /\ f.dirty => f.writable /\ f.lba # EOC
  <2> DEFINE f == file_table[fd]
  <2>1. Sound(disk, file_table)
    <3>1. CASE file_table = NoFiles
      BY <1>2, <3>1 DEF NoFiles, FREE
    <3>2. CASE file_table # NoFiles
      BY <3>2 DEF IInv
    <3> QED
      BY <3>1, <3>2
  <2>2. PICK ch, home : Vol(disk, ch, home, Writers(file_table)) /\ Files(disk, ch, file_table)
    BY <2>1 DEF Sound
  <2>3. FileOK(disk, ch, f)
    BY <1>2, <2>2, UsedFile
  <2> HIDE DEF f
  <2> DEFINE s == ch[f.de]
  <2>4. f.de \in Key /\ Laid(disk.fat, ch) /\ DOMAIN ch = Key
    BY <2>2, <2>3, UsedFacts DEF FileOK, Vol, Chains
  <2>5. Len(s) \in Nat /\ (s = <<>> <=> Len(s) = 0) /\ \A i \in 1..Len(s) : s[i] \in Cluster
    BY <2>4, LaidFacts
  <2>6. Len(s) <= total_clusters
    BY <2>4, LaidShort
  <2>7. /\ f.first = First(s) /\ f.size \in Nat /\ f.size <= Len(s) * SECTOR
        /\ f.pos \in Nat /\ f.pos <= f.size
        /\ f.lba = EOC \/ \E i \in 1..Len(s) : f.lba = s[i]
        /\ f.dirty => f.writable /\ f.lba # EOC
    BY <2>3 DEF FileOK
  <2> HIDE DEF s
  <2>8. f.first \in {0} \cup Cluster
    BY <2>5, <2>7 DEF First
  <2>9. f.pos \in 0..f.size
    BY <2>7
  <2>10. f.size <= total_clusters * SECTOR
    BY <2>5, <2>6, <2>7, SizeBound
  <2>11. f.lba \in Cluster \cup {EOC}
    BY <2>5, <2>7
  <2> QED
    BY <2>7, <2>8, <2>9, <2>10, <2>11 DEF f
<1> QED
  BY <1>1, <1>2 DEF TypeOK

\* What an entry or, while it is being written, its descriptor says of a file.
LEMMA EffectiveIs ==
  ASSUME NEW d, NEW ch, NEW home, NEW table, Vol(d, ch, home, Writers(table)), Files(d, ch, table),
         NEW r, r.de \in Used(d), r.entry = At(d, r.de)
  PROVE  LET f == Effective(table, r)
         IN  /\ f.first = First(ch[r.de]) /\ f.size \in Nat
             /\ f.size <= Len(ch[r.de]) * SECTOR
<1> DEFINE writer == {fd \in Fd : table[fd].used /\ table[fd].writable /\ table[fd].de = r.de}
           f == Effective(table, r)
<1>1. CASE writer = {}
  <2>1. r.de \notin Writers(table)
    BY <1>1 DEF Writers
  <2>2. Tells(d, ch, r.de)
    BY <2>1 DEF Vol, Told
  <2>3. f = [first |-> r.entry.first, size |-> r.entry.size, lba |-> EOC]
    BY <1>1 DEF Effective
  <2>4. f.first = r.entry.first /\ f.size = r.entry.size
    BY <2>3
  <2> HIDE DEF f
  <2> QED
    BY <2>2, <2>4 DEF Tells, f
<1>2. CASE writer # {}
  <2> DEFINE fd == CHOOSE x \in writer : TRUE
  <2>1. f = table[fd]
    BY <1>2 DEF Effective
  <2>2. fd \in writer
    BY <1>2
  <2> HIDE DEF fd, f
  <2>3. fd \in Fd /\ table[fd].used /\ table[fd].de = r.de
    BY <2>2
  <2>4. FileOK(d, ch, table[fd])
    BY <2>3, UsedFile
  <2> QED
    BY <2>1, <2>3, <2>4 DEF FileOK, f
<1> QED
  BY <1>1, <1>2

\* The length of what a file holds.
LEMMA ContentLen ==
  ASSUME NEW d, NEW f, f.size \in Nat
  PROVE  Len(ContentOf(d, f)) = f.size
<1> DEFINE b == ContentOf(d, f)
           S == {b[i] : i \in 1..f.size}
<1>1. DOMAIN b = 1..f.size /\ b = [i \in 1..f.size |-> b[i]]
  BY DEF ContentOf
<1> HIDE DEF b
<1>2. \A i \in 1..f.size : b[i] \in S
  OBVIOUS
<1> HIDE DEF S
<1>3. b \in [1..f.size -> S]
  BY <1>1, <1>2
<1>4. b \in Seq(S)
  BY <1>3
<1>5. Len(b) \in Nat /\ DOMAIN b = 1..Len(b)
  BY <1>4, SeqElement
<1>6. Len(b) = f.size
  BY <1>1, <1>5
<1> QED
  BY <1>6 DEF b

\* The chain of a file of the view, and how much it holds.
LEMMA FileChain ==
  ASSUME view = View(disk, file_table),
         NEW ch, NEW home, Vol(disk, ch, home, Writers(file_table)), Files(disk, ch, file_table),
         NEW p \in DOMAIN view.tree
  PROVE  \E x \in Used(disk) :
           /\ home[x] = p /\ view.uses[p] = Range(ch[x])
           /\ Len(view.tree[p].bytes) <= Len(ch[x]) * SECTOR
<1> DEFINE r == fat32_resolve(disk, p)
           x == r.de
           f == Effective(file_table, r)
           s == ch[x]
<1>1. p \in Path /\ r.found
  BY ViewFacts
<1>2. x \in Used(disk) /\ r.entry = At(disk, x) /\ home[x] = p
  BY <1>1, PathFound
<1>3. /\ view.tree[p].bytes = IF r.entry.dir THEN <<>> ELSE ContentOf(disk, f)
      /\ view.uses[p] = Range(Chain(disk, f.first))
  BY ViewFacts
<1> HIDE DEF r
<1>4. f.first = First(s) /\ f.size \in Nat /\ f.size <= Len(s) * SECTOR
  BY <1>2, EffectiveIs
<1>5. x \in DOMAIN ch /\ Laid(disk.fat, ch)
  BY <1>2, UsedFacts DEF Vol, Chains
<1> HIDE DEF x, f
<1>6. Chain(disk, First(s)) = s
  BY <1>5, ChainIs
<1>7. view.uses[p] = Range(s)
  BY <1>3, <1>4, <1>6
<1>8. Len(s) \in Nat
  BY <1>5, LaidFacts
<1> DEFINE b == view.tree[p].bytes
<1>9. Len(b) <= Len(s) * SECTOR
  <2> HIDE DEF s
  <2>1. CASE r.entry.dir
    <3>1. b = <<>>
      BY <1>3, <2>1
    <3>2. Len(<<>>) = 0 /\ 0 <= Len(s) * SECTOR
      BY <1>8, Constants
    <3> QED
      BY <3>1, <3>2
  <2>2. CASE ~r.entry.dir
    <3>1. b = ContentOf(disk, f)
      BY <1>3, <2>2
    <3>2. Len(ContentOf(disk, f)) = f.size
      BY <1>4, ContentLen
    <3> QED
      BY <1>4, <3>1, <3>2
  <2> QED
    BY <2>1, <2>2
<1> QED
  BY <1>2, <1>7, <1>9

\* The clusters in a chain's range.
LEMMA InRange ==
  ASSUME NEW S, NEW s \in Seq(S), NEW c \in Range(s)
  PROVE  \E i \in 1..Len(s) : s[i] = c
BY SeqElement DEF Range

\* And no cluster serves two files, or is free while a file has it; each file
\* has clusters for all its bytes.
LEMMA IInvChainsSound == IInv => ChainsSound
<1> SUFFICES ASSUME IInv, Up PROVE ChainsSound
  BY DEF ChainsSound
<1> DEFINE files == DOMAIN view.tree
           uses == view.uses
           w == Writers(file_table)
<1>1. view = View(disk, file_table)
  BY DEF IInv
<1>2. PICK ch, home : Vol(disk, ch, home, w) /\ Files(disk, ch, file_table)
  BY DEF IInv, Sound
<1>3. /\ Laid(disk.fat, ch) /\ DOMAIN ch = Key
      /\ First(ch[ROOT]) = root_cluster
      /\ \A x \in Key : ch[x] \in Seq(Cluster)
  BY <1>2 DEF Vol, Chains
<1>4. \A p \in files : \E x \in Used(disk) :
        /\ home[x] = p /\ uses[p] = Range(ch[x])
        /\ Len(view.tree[p].bytes) <= Len(ch[x]) * SECTOR
  BY <1>1, <1>2, FileChain
<1>5. \A x \in Used(disk) : x \in Key /\ x # ROOT
  BY <1>2, UsedFacts DEF Vol
<1>6. view.root = Range(ch[ROOT])
  <2>1. view.root = Range(Chain(disk, root_cluster))
    BY <1>1, ViewFacts
  <2>2. Chain(disk, First(ch[ROOT])) = ch[ROOT]
    BY <1>3, KeyFacts, ChainIs
  <2> QED
    BY <1>3, <2>1, <2>2
<1> DEFINE fat == disk.fat
<1>7. Laid(fat, ch)
  BY <1>3
<1> HIDE DEF files, uses, w, fat
<1>8. ASSUME NEW x \in Key, NEW y \in Key, x # y PROVE Range(ch[x]) \cap Range(ch[y]) = {}
  <2> SUFFICES ASSUME NEW c \in Range(ch[x]), c \in Range(ch[y]) PROVE FALSE
    OBVIOUS
  <2>1. PICK i \in 1..Len(ch[x]) : ch[x][i] = c
    BY <1>3, InRange
  <2>2. PICK j \in 1..Len(ch[y]) : ch[y][j] = c
    BY <1>3, InRange
  <2> QED
    BY <1>3, <1>7, <1>8, <2>1, <2>2, LaidApart
<1>9. ASSUME NEW p \in files, NEW q \in files, p # q PROVE uses[p] \cap uses[q] = {}
  <2>1. PICK x \in Used(disk) : home[x] = p /\ uses[p] = Range(ch[x])
    BY <1>4
  <2>2. PICK y \in Used(disk) : home[y] = q /\ uses[q] = Range(ch[y])
    BY <1>4
  <2>3. x # y
    BY <1>9, <2>1, <2>2
  <2> QED
    BY <1>5, <1>8, <2>1, <2>2, <2>3
<1>10. ASSUME NEW p \in files
       PROVE  /\ uses[p] \cap view.root = {}
              /\ \A c \in uses[p] : fat[c] # 0
              /\ Cardinality(uses[p]) * SECTOR >= Len(view.tree[p].bytes)
  <2>1. PICK x \in Used(disk) : /\ home[x] = p /\ uses[p] = Range(ch[x])
                                /\ Len(view.tree[p].bytes) <= Len(ch[x]) * SECTOR
    BY <1>4
  <2>2. x \in Key /\ x # ROOT /\ x \in DOMAIN ch
    BY <1>3, <1>5
  <2>3. uses[p] \cap view.root = {}
    BY <1>6, <1>8, <2>1, <2>2, KeyFacts
  <2>4. ASSUME NEW c \in uses[p] PROVE fat[c] # 0
    <3>1. PICK i \in 1..Len(ch[x]) : ch[x][i] = c
      BY <1>3, <2>1, <2>2, InRange
    <3>2. Link1(fat, ch[x], i) /\ Len(ch[x]) \in Nat /\ \A j \in 1..Len(ch[x]) : ch[x][j] \in Cluster
      BY <1>7, <2>2, LaidFacts
    <3>3. i < Len(ch[x]) => i + 1 \in 1..Len(ch[x])
      BY <3>2
    <3> QED
      BY <3>1, <3>2, <3>3, ClusterFacts DEF Link1
  <2>5. Cardinality(uses[p]) = Len(ch[x])
    BY <1>7, <2>1, <2>2, LaidShort
  <2> DEFINE m == Len(view.tree[p].bytes)
             n == Len(ch[x]) * SECTOR
  <2>6. m <= n /\ n = Cardinality(uses[p]) * SECTOR
    BY <2>1, <2>5
  <2>7. Cardinality(uses[p]) * SECTOR >= m
    <3> HIDE DEF m
    <3> QED
      BY <2>6
  <2> QED
    BY <2>3, <2>4, <2>7
<1> QED
  BY <1>9, <1>10 DEF ChainsSound, files, uses, fat

------------------------------------------------------------------------------
\* The invariant and the theorems.

\* The invariant holds in every state.
LEMMA SpecIInv == Spec => []IInv
<1>1. Init => IInv
  BY InitIInv
<1>2. IInv /\ [Next]_vars => IInv'
  BY NextIInv
<1> QED
  BY <1>1, <1>2, PTL DEF Spec

\* fat32.c:112-153, 445-733.  On a volume of any size, with any number of
\* descriptors and through every interleaving of their calls and power cut in
\* them: the links of the allocation table are clusters, ends or free, positions
\* stay within files, no file outgrows the volume, and what is cached is a
\* cluster; only a writer's cache is ever dirty.
THEOREM VolumeTyped == Spec => []TypeOK
<1>1. Spec => []IInv
  BY SpecIInv
<1>2. IInv => TypeOK
  BY IInvTypeOK
<1> QED
  BY <1>1, <1>2, PTL

\* fat32.c:157-166, 496-512, 598-654, 800-819.  While files grow, shrink, come
\* and go under several descriptors, no cluster serves two files or a file and
\* the root directory, no file reaches a free cluster, and each has clusters for
\* all its bytes.
THEOREM ChainsStaySound == Spec => []ChainsSound
<1>1. Spec => []IInv
  BY SpecIInv
<1>2. IInv => ChainsSound
  BY IInvChainsSound
<1> QED
  BY <1>1, <1>2, PTL

==============================================================================
