----------------------------- MODULE Shell_proofs ------------------------------
(***************************************************************************)
(* Whatever is typed, aliased, scripted, redirected, copied or installed,  *)
(* and wherever it fails: the descriptors that the shell has open are      *)
(* those that calls in progress hold, and the scripts in progress are      *)
(* counted.                                                                *)
(*                                                                         *)
(* The count of descriptors alone says nothing of which call closes which. *)
(* Sound(stack, open, scripts) adds that no two calls hold the same one    *)
(* and that an unpacking call stands on the installation whose package it  *)
(* reads, which fails with it.  Pop and Push say that a call that returns  *)
(* with its descriptors closed, and one that starts with new ones, keep    *)
(* this, and every step is made of those two.                              *)
(***************************************************************************)
EXTENDS Shell, FiniteSetTheorems, SequenceTheorems, WellFoundedInduction, TLAPS

Fields(f) ==
  /\ "k" \in DOMAIN f
  /\ f.k \in {"redirect", "write"} => "fd" \in DOMAIN f
  /\ f.k = "copy" => {"fi", "fo"} \subseteq DOMAIN f /\ f.fi # f.fo
  /\ f.k = "install" => "fi" \in DOMAIN f
  /\ f.k = "unpack" => {"fi", "fo"} \subseteq DOMAIN f

\* f may stand on the stack s.
StandsOn(f, s) == f.k = "unpack" => s # <<>> /\ s[1].k = "install" /\ s[1].fi = f.fi

Frames(s) == {s[i] : i \in DOMAIN s}
HeldBy(s) == UNION {Holds(s[i]) : i \in DOMAIN s}
ScriptsOf(s) == {i \in DOMAIN s : s[i].k = "script"}

Apart(s) == \A i, j \in DOMAIN s : i # j => Holds(s[i]) \cap Holds(s[j]) = {}
Shaped(s) ==
  /\ \A i \in DOMAIN s : Fields(s[i])
  /\ \A i \in DOMAIN s : s[i].k = "unpack" =>
       i + 1 \in DOMAIN s /\ s[i + 1].k = "install" /\ s[i + 1].fi = s[i].fi

Sound(s, open, scripts) ==
  /\ s \in Seq(Frames(s))
  /\ Shaped(s) /\ Apart(s)
  /\ open = HeldBy(s) /\ open \subseteq 0..MAX_OPEN_FILES - 1
  /\ scripts = Cardinality(ScriptsOf(s))

IInv ==
  /\ Sound(ctl, fds, sh.script_depth)
  /\ "script_depth" \in DOMAIN sh
  /\ sh.script_depth <= SHELL_SCRIPT_DEPTH

------------------------------------------------------------------------------
\* Stacks of frames.

Counted(f) == IF f.k = "script" THEN 1 ELSE 0

LEMMA HoldsOf ==
  ASSUME NEW f
  PROVE  /\ f.k \in {"redirect", "write"} => Holds(f) = {f.fd}
         /\ f.k = "copy" => Holds(f) = {f.fi, f.fo}
         /\ f.k = "install" => Holds(f) = {f.fi}
         /\ f.k = "unpack" => Holds(f) = {f.fo}
         /\ f.k \notin {"redirect", "write", "copy", "install", "unpack"} => Holds(f) = {}
BY DEF Holds

\* The stack s is the frame s[1] on the stack t.
On1(s, t) == Len(s) = Len(t) + 1 /\ \A i \in 1..Len(t) : t[i] = s[i + 1]

LEMMA StackLength ==
  ASSUME NEW S, NEW s \in Seq(S)
  PROVE  Len(s) \in Nat /\ DOMAIN s = 1..Len(s) /\ (s = <<>> <=> Len(s) = 0)
OBVIOUS

LEMMA ScriptsFinite ==
  ASSUME NEW S, NEW s \in Seq(S)
  PROVE  IsFiniteSet(ScriptsOf(s)) /\ Cardinality(ScriptsOf(s)) \in Nat
<1>1. Len(s) \in Nat /\ DOMAIN s = 1..Len(s)
  BY StackLength
<1>2. IsFiniteSet(1..Len(s))
  BY <1>1, FS_Interval, SMT
<1>3. ScriptsOf(s) \in SUBSET (1..Len(s))
  BY <1>1 DEF ScriptsOf
<1>4. IsFiniteSet(ScriptsOf(s))
  BY <1>2, <1>3, FS_Subset
<1> QED
  BY <1>4, FS_CardinalityType

LEMMA HeldByStack ==
  ASSUME NEW S, NEW s \in Seq(S), NEW t \in Seq(S), On1(s, t)
  PROVE  HeldBy(s) = Holds(s[1]) \cup HeldBy(t)
<1>1. /\ Len(s) \in Nat /\ DOMAIN s = 1..Len(s)
      /\ Len(t) \in Nat /\ DOMAIN t = 1..Len(t) /\ Len(s) = Len(t) + 1
  BY StackLength DEF On1
<1>2. ASSUME NEW x, x \in HeldBy(s) PROVE x \in Holds(s[1]) \cup HeldBy(t)
  <2>1. PICK i \in 1..Len(s) : x \in Holds(s[i])
    BY <1>1, <1>2 DEF HeldBy
  <2>2. CASE i = 1
    BY <2>1, <2>2
  <2>3. CASE i # 1
    <3>1. i - 1 \in 1..Len(t) /\ i - 1 + 1 = i
      BY <1>1, <2>3
    <3>2. t[i - 1] = s[i]
      BY <3>1 DEF On1
    <3> QED
      BY <1>1, <2>1, <3>1, <3>2 DEF HeldBy
  <2> QED
    BY <2>2, <2>3
<1>3. ASSUME NEW x, x \in HeldBy(t) PROVE x \in HeldBy(s)
  <2>1. PICK i \in 1..Len(t) : x \in Holds(t[i])
    BY <1>1, <1>3 DEF HeldBy
  <2>2. i + 1 \in 1..Len(s) /\ t[i] = s[i + 1]
    BY <1>1 DEF On1
  <2> QED
    BY <1>1, <2>1, <2>2 DEF HeldBy
<1>4. 1 \in DOMAIN s
  BY <1>1
<1>5. Holds(s[1]) \subseteq HeldBy(s)
  BY <1>4 DEF HeldBy
<1> QED
  BY <1>2, <1>3, <1>5

LEMMA ScriptsOfStack ==
  ASSUME NEW S, NEW s \in Seq(S), NEW t \in Seq(S), On1(s, t)
  PROVE  Cardinality(ScriptsOf(s)) = Cardinality(ScriptsOf(t)) + Counted(s[1])
<1> DEFINE A == ScriptsOf(t)
           B == {i \in ScriptsOf(s) : i # 1}
           up == [i \in A |-> i + 1]
<1>1. /\ Len(s) \in Nat /\ DOMAIN s = 1..Len(s)
      /\ Len(t) \in Nat /\ DOMAIN t = 1..Len(t) /\ Len(s) = Len(t) + 1
  BY StackLength DEF On1
<1>2. A \subseteq Nat /\ B \subseteq Nat
  BY <1>1 DEF ScriptsOf
<1>3. ASSUME NEW i \in A PROVE i + 1 \in B
  BY <1>1 DEF ScriptsOf, On1
<1>4. ASSUME NEW j \in B PROVE \E i \in A : up[i] = j
  <2>1. j - 1 \in 1..Len(t) /\ j - 1 + 1 = j
    BY <1>1 DEF ScriptsOf
  <2>2. t[j - 1] = s[j]
    BY <2>1 DEF On1
  <2>3. j - 1 \in A
    BY <1>1, <2>1, <2>2 DEF ScriptsOf
  <2> QED
    BY <2>1, <2>3
<1>5. up \in [A -> B] /\ \A i \in A : up[i] = i + 1
  BY <1>3
<1> HIDE DEF up, A, B
<1>6. ASSUME NEW i \in A, NEW j \in A, up[i] = up[j] PROVE i = j
  BY <1>2, <1>5, <1>6
<1>7. up \in Bijection(A, B)
  BY <1>4, <1>5, <1>6 DEF Bijection, Injection, Surjection, IsInjective
<1>8. IsFiniteSet(A) /\ Cardinality(A) \in Nat
  BY ScriptsFinite DEF A
<1>9. IsFiniteSet(B) /\ Cardinality(B) = Cardinality(A)
  <2>1. ExistsBijection(A, B)
    BY <1>7 DEF ExistsBijection
  <2> QED
    BY <1>8, <2>1, FS_Bijection
<1>10. CASE s[1].k = "script"
  <2>1. ScriptsOf(s) = B \cup {1} /\ 1 \notin B
    BY <1>1, <1>10 DEF ScriptsOf, B
  <2>2. Cardinality(B \cup {1}) = Cardinality(B) + 1
    BY <1>9, <2>1, FS_AddElement
  <2> QED
    BY <1>9, <1>10, <2>1, <2>2 DEF Counted, A
<1>11. CASE s[1].k # "script"
  <2>1. ScriptsOf(s) = B
    BY <1>11 DEF ScriptsOf, B
  <2> QED
    BY <1>8, <1>9, <1>11, <2>1 DEF Counted, A
<1> QED
  BY <1>10, <1>11

\* A stack is sound with a frame on it when it is without.
LEMMA SoundOn1 ==
  ASSUME NEW S, NEW s \in Seq(S), NEW t \in Seq(S), On1(s, t),
         NEW open, NEW scripts, Sound(t, open, scripts),
         Fields(s[1]), StandsOn(s[1], t),
         Holds(s[1]) \subseteq (0..MAX_OPEN_FILES - 1) \ open
  PROVE  Sound(s, open \cup Holds(s[1]), scripts + Counted(s[1]))
<1>1. /\ Len(s) \in Nat /\ DOMAIN s = 1..Len(s)
      /\ Len(t) \in Nat /\ DOMAIN t = 1..Len(t) /\ Len(s) = Len(t) + 1
      /\ t = <<>> <=> Len(t) = 0
  BY StackLength DEF On1
<1>2. ASSUME NEW i \in 1..Len(s), i # 1
      PROVE  i - 1 \in 1..Len(t) /\ i - 1 + 1 = i /\ t[i - 1] = s[i]
  BY <1>1, <1>2 DEF On1
<1>3. /\ Shaped(t) /\ Apart(t) /\ open = HeldBy(t) /\ open \subseteq 0..MAX_OPEN_FILES - 1
      /\ scripts = Cardinality(ScriptsOf(t))
  BY DEF Sound
<1>4. s \in Seq(Frames(s))
  BY <1>1 DEF Frames
<1>5. Shaped(s)
  <2>1. ASSUME NEW i \in 1..Len(s) PROVE Fields(s[i])
    <3>1. CASE i = 1
      BY <3>1
    <3>2. CASE i # 1
      BY <1>1, <1>2, <1>3, <3>2 DEF Shaped
    <3> QED
      BY <3>1, <3>2
  <2>2. ASSUME NEW i \in 1..Len(s), s[i].k = "unpack"
        PROVE  i + 1 \in 1..Len(s) /\ s[i + 1].k = "install" /\ s[i + 1].fi = s[i].fi
    <3>1. CASE i = 1
      <4>1. Len(t) # 0 /\ t[1].k = "install" /\ t[1].fi = s[1].fi
        BY <1>1, <2>2, <3>1 DEF StandsOn
      <4>2. 1 \in 1..Len(t) /\ t[1] = s[2] /\ 2 \in 1..Len(s)
        BY <1>1, <4>1 DEF On1
      <4> QED
        BY <3>1, <4>1, <4>2
    <3>2. CASE i # 1
      <4> DEFINE h == i - 1
      <4>0. h \in DOMAIN t /\ h + 1 = i /\ t[h] = s[i]
        BY <1>1, <1>2, <3>2
      <4> HIDE DEF h
      <4>1. /\ i \in 1..Len(t) /\ t[i].k = "install" /\ t[i].fi = s[i].fi
        <5>1. h + 1 \in DOMAIN t /\ t[h + 1].k = "install" /\ t[h + 1].fi = t[h].fi
          BY <1>3, <2>2, <4>0 DEF Shaped
        <5> QED
          BY <1>1, <4>0, <5>1
      <4>2. t[i] = s[i + 1] /\ i + 1 \in 1..Len(s)
        BY <1>1, <4>1 DEF On1
      <4> QED
        BY <1>2, <3>2, <4>1, <4>2
    <3> QED
      BY <3>1, <3>2
  <2> QED
    BY <1>1, <2>1, <2>2 DEF Shaped
<1>6. HeldBy(s) = open \cup Holds(s[1])
  BY <1>3, HeldByStack
<1>7. ASSUME NEW i \in 1..Len(t) PROVE Holds(t[i]) \cap Holds(s[1]) = {}
  <2>1. Holds(t[i]) \subseteq open
    BY <1>1, <1>3 DEF HeldBy
  <2> QED
    BY <2>1
<1>8. Apart(s)
  <2>1. ASSUME NEW i \in 1..Len(s), NEW j \in 1..Len(s), i # j
        PROVE  Holds(s[i]) \cap Holds(s[j]) = {}
    <3>1. CASE i = 1
      BY <1>2, <1>7, <2>1, <3>1
    <3>2. CASE j = 1
      BY <1>2, <1>7, <2>1, <3>2
    <3>3. CASE i # 1 /\ j # 1
      <4>1. i - 1 # j - 1 /\ i - 1 \in DOMAIN t /\ j - 1 \in DOMAIN t
        BY <1>1, <1>2, <2>1, <3>3
      <4>2. Holds(t[i - 1]) \cap Holds(t[j - 1]) = {}
        BY <1>3, <4>1 DEF Apart
      <4> QED
        BY <1>2, <3>3, <4>2
    <3> QED
      BY <3>1, <3>2, <3>3
  <2> QED
    BY <1>1, <2>1 DEF Apart
<1>9. scripts + Counted(s[1]) = Cardinality(ScriptsOf(s))
  BY <1>3, ScriptsOfStack
<1>10. open \cup Holds(s[1]) \subseteq 0..MAX_OPEN_FILES - 1
  BY <1>3
<1> QED
  BY <1>4, <1>5, <1>6, <1>8, <1>9, <1>10 DEF Sound

\* And without its top frame when it is with it.
LEMMA SoundOff1 ==
  ASSUME NEW S, NEW s \in Seq(S), NEW t \in Seq(S), On1(s, t),
         NEW open, NEW scripts, Sound(s, open, scripts)
  PROVE  /\ Sound(t, open \ Holds(s[1]), scripts - Counted(s[1]))
         /\ Holds(s[1]) \subseteq open
         /\ Fields(s[1]) /\ StandsOn(s[1], t)
<1>1. /\ Len(s) \in Nat /\ DOMAIN s = 1..Len(s) /\ 1 \in DOMAIN s
      /\ Len(t) \in Nat /\ DOMAIN t = 1..Len(t) /\ Len(s) = Len(t) + 1
      /\ t = <<>> <=> Len(t) = 0
  BY StackLength, SMT DEF On1
<1>2. ASSUME NEW i \in 1..Len(t)
      PROVE  i + 1 \in DOMAIN s /\ i + 1 # 1 /\ t[i] = s[i + 1]
  BY <1>1 DEF On1
<1>3. /\ Shaped(s) /\ Apart(s) /\ open = HeldBy(s) /\ open \subseteq 0..MAX_OPEN_FILES - 1
      /\ scripts = Cardinality(ScriptsOf(s))
  BY DEF Sound
<1>4. t \in Seq(Frames(t))
  BY <1>1 DEF Frames
<1>5. Shaped(t)
  <2>1. ASSUME NEW i \in 1..Len(t) PROVE Fields(t[i])
    BY <1>2, <1>3 DEF Shaped
  <2>2. ASSUME NEW i \in 1..Len(t), t[i].k = "unpack"
        PROVE  i + 1 \in 1..Len(t) /\ t[i + 1].k = "install" /\ t[i + 1].fi = t[i].fi
    <3>1. i + 1 + 1 \in DOMAIN s /\ s[i + 1 + 1].k = "install" /\ s[i + 1 + 1].fi = s[i + 1].fi
      BY <1>2, <1>3, <2>2 DEF Shaped
    <3>2. i + 1 \in 1..Len(t)
      BY <1>1, <3>1
    <3> QED
      BY <1>2, <3>1, <3>2
  <2> QED
    BY <1>1, <2>1, <2>2 DEF Shaped
<1>6. open = Holds(s[1]) \cup HeldBy(t)
  BY <1>3, HeldByStack
<1>7. Holds(s[1]) \cap HeldBy(t) = {}
  <2>1. ASSUME NEW i \in 1..Len(t) PROVE Holds(t[i]) \cap Holds(s[1]) = {}
    BY <1>1, <1>2, <1>3 DEF Apart
  <2> QED
    BY <1>1, <2>1 DEF HeldBy
<1>8. open \ Holds(s[1]) = HeldBy(t) /\ open \ Holds(s[1]) \subseteq 0..MAX_OPEN_FILES - 1
  BY <1>3, <1>6, <1>7
<1>9. Apart(t)
  <2>1. ASSUME NEW i \in 1..Len(t), NEW j \in 1..Len(t), i # j
        PROVE  Holds(t[i]) \cap Holds(t[j]) = {}
    <3>1. i + 1 # j + 1
      BY <1>1, <2>1
    <3> QED
      BY <1>2, <1>3, <3>1 DEF Apart
  <2> QED
    BY <1>1, <2>1 DEF Apart
<1>10. scripts - Counted(s[1]) = Cardinality(ScriptsOf(t))
  <2>1. Cardinality(ScriptsOf(s)) = Cardinality(ScriptsOf(t)) + Counted(s[1])
    BY ScriptsOfStack
  <2>2. Cardinality(ScriptsOf(t)) \in Nat
    BY ScriptsFinite
  <2>3. Counted(s[1]) \in Nat
    BY DEF Counted
  <2> QED
    BY <1>3, <2>1, <2>2, <2>3
<1>11. Fields(s[1])
  BY <1>1, <1>3 DEF Shaped
<1>12. StandsOn(s[1], t)
  <2>1. ASSUME s[1].k = "unpack" PROVE t # <<>> /\ t[1].k = "install" /\ t[1].fi = s[1].fi
    <3>1. 2 \in DOMAIN s /\ s[2].k = "install" /\ s[2].fi = s[1].fi
      <4>1. 1 + 1 \in DOMAIN s /\ s[1 + 1].k = "install" /\ s[1 + 1].fi = s[1].fi
        BY <1>1, <1>3, <2>1, Zenon DEF Shaped
      <4>2. 1 + 1 = 2
        OBVIOUS
      <4> QED
        BY <4>1, <4>2, Zenon
    <3>2. 1 \in 1..Len(t)
      BY <1>1, <3>1
    <3> QED
      BY <1>1, <1>2, <3>1, <3>2
  <2> QED
    BY <2>1 DEF StandsOn
<1> QED
  BY <1>4, <1>5, <1>6, <1>8, <1>9, <1>10, <1>11, <1>12 DEF Sound

\* A call that returns: its descriptors go, the others stay.
LEMMA Pop ==
  ASSUME NEW s, NEW open, NEW scripts, Sound(s, open, scripts), s # <<>>
  PROVE  /\ Sound(Tail(s), open \ Holds(Head(s)), scripts - Counted(Head(s)))
         /\ Holds(Head(s)) \subseteq open
         /\ Fields(Head(s)) /\ StandsOn(Head(s), Tail(s))
<1> DEFINE S == Frames(s)
<1>1. s \in Seq(S)
  BY DEF Sound
<1> HIDE DEF S
<1>2. /\ Tail(s) \in Seq(S) /\ Len(Tail(s)) = Len(s) - 1
      /\ \A i \in 1..Len(Tail(s)) : Tail(s)[i] = s[i + 1]
  BY <1>1, HeadTailProperties
<1>3. Len(s) \in Nat
  BY <1>1
<1>4. On1(s, Tail(s))
  BY <1>2, <1>3 DEF On1
<1>5. Head(s) = s[1]
  BY <1>1
<1> QED
  BY <1>1, <1>2, <1>4, <1>5, SoundOff1

\* A call that starts, with descriptors that were free.
LEMMA Push ==
  ASSUME NEW s, NEW open, NEW scripts, Sound(s, open, scripts), NEW f,
         Fields(f), StandsOn(f, s), Holds(f) \subseteq (0..MAX_OPEN_FILES - 1) \ open
  PROVE  /\ Sound(<<f>> \o s, open \cup Holds(f), scripts + Counted(f))
         /\ <<f>> \o s # <<>> /\ (<<f>> \o s)[1] = f
<1> DEFINE S == Frames(s) \cup {f}
           one == <<f>>
<1>1. s \in Seq(S) /\ one \in Seq(S) /\ Len(one) = 1 /\ one[1] = f
  <2>1. s \in Seq(Frames(s))
    BY DEF Sound
  <2> QED
    BY <2>1
<1>2. Len(s) \in Nat
  BY <1>1
<1> HIDE DEF S, one
<1>3. /\ one \o s \in Seq(S) /\ Len(one \o s) = 1 + Len(s)
      /\ \A i \in 1..1 + Len(s) : (one \o s)[i] = IF i <= 1 THEN one[i] ELSE s[i - 1]
  <2>1. /\ one \o s \in Seq(S) /\ Len(one \o s) = Len(one) + Len(s)
        /\ \A i \in 1..Len(one) + Len(s) : (one \o s)[i] = IF i <= Len(one) THEN one[i] ELSE s[i - Len(one)]
    BY <1>1, ConcatProperties
  <2> QED
    BY <1>1, <2>1
<1>4. (one \o s)[1] = f /\ \A i \in 1..Len(s) : (one \o s)[i + 1] = s[i]
  BY <1>1, <1>2, <1>3
<1>5. On1(one \o s, s) /\ one \o s # <<>>
  BY <1>1, <1>2, <1>3, <1>4 DEF On1
<1>6. Sound(one \o s, open \cup Holds(f), scripts + Counted(f))
  <2> DEFINE u == one \o s
  <2>1. u \in Seq(S) /\ u[1] = f /\ On1(u, s)
    BY <1>3, <1>4, <1>5
  <2> HIDE DEF u
  <2>2. Sound(u, open \cup Holds(u[1]), scripts + Counted(u[1]))
    BY <1>1, <2>1, SoundOn1
  <2> QED
    BY <2>1, <2>2 DEF u
<1> QED
  BY <1>4, <1>5, <1>6 DEF one

LEMMA TwoFrames ==
  ASSUME NEW S, NEW s \in Seq(S), NEW f, NEW g
  PROVE  <<f, g>> \o s = <<f>> \o (<<g>> \o s)
<1> DEFINE T == S \cup {f, g}
<1>1. s \in Seq(T) /\ <<f>> \in Seq(T) /\ <<g>> \in Seq(T)
  OBVIOUS
<1>2. <<f, g>> = <<f>> \o <<g>>
  <2> DEFINE u == <<f>>
             v == <<g>>
             w == <<f, g>>
  <2>1. /\ u \in Seq(T) /\ Len(u) = 1 /\ u[1] = f
        /\ v \in Seq(T) /\ Len(v) = 1 /\ v[1] = g
        /\ w \in Seq(T) /\ Len(w) = 2 /\ w[1] = f /\ w[2] = g
    OBVIOUS
  <2> HIDE DEF u, v, w, T
  <2>2. /\ u \o v \in Seq(T) /\ Len(u \o v) = Len(u) + Len(v)
        /\ \A i \in 1..Len(u) + Len(v) : (u \o v)[i] = IF i <= Len(u) THEN u[i] ELSE v[i - Len(u)]
    BY <2>1, ConcatProperties
  <2>3. Len(u \o v) = 2 /\ (u \o v)[1] = f /\ (u \o v)[2] = g
    BY <2>1, <2>2
  <2>4. \A i \in 1..Len(w) : w[i] = (u \o v)[i]
    BY <2>1, <2>3
  <2>5. w = u \o v
    BY <2>1, <2>2, <2>3, <2>4, SeqEqual
  <2> QED
    BY <2>5 DEF u, v, w
<1> HIDE DEF T
<1> QED
  BY <1>1, <1>2, ConcatAssociative

------------------------------------------------------------------------------
\* Descriptors.

LEMMA LeastExists ==
  ASSUME NEW S, S \subseteq Nat, S # {}
  PROVE  \E x \in S : \A y \in S : x <= y
<1> DEFINE R == {ss \in Nat \X Nat : ss[1] < ss[2]}
<1>1. IsWellFoundedOn(R, Nat)
  BY NatLessThanWellFounded DEF OpToRel
<1>2. PICK x \in S : \A y \in S : <<y, x>> \notin R
  <2> HIDE DEF R
  <2> QED
    BY <1>1, WFMin
<1>3. ASSUME NEW y \in S PROVE x <= y
  <2>1. x \in Nat /\ y \in Nat /\ <<y, x>> \in Nat \X Nat
    OBVIOUS
  <2>2. ~(<<y, x>>[1] < <<y, x>>[2])
    BY <1>2, <2>1
  <2> QED
    BY <2>1, <2>2
<1> QED
  BY <1>3

LEMMA FreeDescriptor ==
  ASSUME NEW open
  PROVE  LowestFree(open) = NoFd \/ LowestFree(open) \in (0..MAX_OPEN_FILES - 1) \ open
<1> DEFINE free == (0..MAX_OPEN_FILES - 1) \ open
<1>1. free \subseteq Nat
  BY VolumeAssumption
<1>2. LowestFree(open) = IF free = {} THEN NoFd ELSE Min(free)
  BY DEF LowestFree
<1> HIDE DEF free
<1>3. free # {} => Min(free) \in free
  BY <1>1, LeastExists DEF Min
<1> QED
  BY <1>2, <1>3 DEF free

LEMMA NoFdIsNone == NoFd \notin 0..MAX_OPEN_FILES - 1
BY DEF NoFd

\* An opened descriptor was free.
LEMMA Opened ==
  ASSUME NEW t, NEW c, NEW taken, NEW path, NEW mode
  PROVE  \/ fat32_open(t, c, taken, path, mode).fd = NoFd
         \/ fat32_open(t, c, taken, path, mode).fd \in (0..MAX_OPEN_FILES - 1) \ taken
<1> DEFINE fd == fat32_open(t, c, taken, path, mode).fd
<1>1. fd = NoFd \/ fd = LowestFree(taken)
  BY DEF fat32_open
<1> HIDE DEF fd
<1>2. LowestFree(taken) = NoFd \/ LowestFree(taken) \in (0..MAX_OPEN_FILES - 1) \ taken
  BY FreeDescriptor
<1>3. fd = NoFd \/ fd \in (0..MAX_OPEN_FILES - 1) \ taken
  BY <1>1, <1>2, Zenon
<1> QED
  BY <1>3 DEF fd

------------------------------------------------------------------------------
\* Steps.

\* Frames that hold nothing and are not counted.
PlainKind(k) == k \notin {"redirect", "write", "copy", "install", "unpack", "script"}
Plain(f) == "k" \in DOMAIN f /\ PlainKind(f.k)

KeepsDepth == sh'.script_depth = sh.script_depth /\ "script_depth" \in DOMAIN sh'

LEMMA PlainFrame ==
  ASSUME NEW f, PlainKind(f.k)
  PROVE  Holds(f) = {} /\ Counted(f) = 0
BY HoldsOf DEF PlainKind, Counted

LEMMA CountIsNat ==
  ASSUME NEW s, NEW open, NEW scripts, Sound(s, open, scripts)
  PROVE  scripts \in Nat /\ open \subseteq 0..MAX_OPEN_FILES - 1
BY ScriptsFinite DEF Sound

LEMMA PushPlain ==
  ASSUME NEW s, NEW open, NEW scripts, Sound(s, open, scripts), NEW f, Plain(f)
  PROVE  Sound(<<f>> \o s, open, scripts)
<1>1. Holds(f) = {} /\ Counted(f) = 0
  BY PlainFrame DEF Plain
<1>2. Fields(f) /\ StandsOn(f, s)
  BY DEF Plain, PlainKind, Fields, StandsOn
<1>3. open \cup Holds(f) = open /\ scripts + Counted(f) = scripts
  BY <1>1, CountIsNat
<1> QED
  BY <1>1, <1>2, <1>3, Push

LEMMA PushTwo ==
  ASSUME NEW s, NEW open, NEW scripts, Sound(s, open, scripts), NEW f, NEW g
  PROVE  <<f, g>> \o s = <<f>> \o (<<g>> \o s)
BY TwoFrames DEF Sound

LEMMA TopPopped ==
  ASSUME IInv, ctl # <<>>
  PROVE  /\ Sound(Rest, fds \ Holds(Top), sh.script_depth - Counted(Top))
         /\ Holds(Top) \subseteq fds /\ Fields(Top) /\ StandsOn(Top, Rest)
BY Pop DEF IInv, Rest, Top

LEMMA PlainPopped ==
  ASSUME IInv, ctl # <<>>, PlainKind(Top.k)
  PROVE  Sound(Rest, fds, sh.script_depth)
<1>1. Holds(Top) = {} /\ Counted(Top) = 0
  BY PlainFrame
<1>2. sh.script_depth \in Nat
  BY CountIsNat DEF IInv
<1>3. fds \ Holds(Top) = fds /\ sh.script_depth - Counted(Top) = sh.script_depth
  BY <1>1, <1>2
<1> QED
  BY <1>3, TopPopped

LEMMA NextSound ==
  ASSUME Sound(ctl', fds', sh'.script_depth), "script_depth" \in DOMAIN sh',
         sh'.script_depth <= SHELL_SCRIPT_DEPTH
  PROVE  IInv'
BY DEF IInv, Sound, Shaped, Apart, Frames, HeldBy, ScriptsOf, Fields, Holds

LEMMA KeptSound ==
  ASSUME IInv, Sound(ctl', fds', sh.script_depth), KeepsDepth
  PROVE  IInv'
BY NextSound DEF IInv, KeepsDepth

\* A call that holds nothing returns, or calls without opening a file.
LEMMA PlainReturn ==
  ASSUME IInv, ctl # <<>>, PlainKind(Top.k), ctl' = Rest, fds' = fds, KeepsDepth
  PROVE  IInv'
BY PlainPopped, KeptSound

LEMMA PlainCall ==
  ASSUME IInv, ctl # <<>>, PlainKind(Top.k), NEW f, Plain(f), ctl' = <<f>> \o Rest,
         fds' = fds, KeepsDepth
  PROVE  IInv'
BY PlainPopped, PushPlain, KeptSound

LEMMA PlainCallTwo ==
  ASSUME IInv, ctl # <<>>, PlainKind(Top.k), NEW f, Plain(f), NEW g, Plain(g),
         ctl' = <<f, g>> \o Rest, fds' = fds, KeepsDepth
  PROVE  IInv'
<1>1. Sound(Rest, fds, sh.script_depth)
  BY PlainPopped
<1>2. Sound(<<f>> \o (<<g>> \o Rest), fds, sh.script_depth)
  BY <1>1, PushPlain
<1> QED
  BY <1>1, <1>2, PushTwo, KeptSound

LEMMA Depth ==
  ASSUME IInv
  PROVE  /\ UNCHANGED sh => KeepsDepth
         /\ \A code : sh' = Exits(sh, code) => KeepsDepth
BY DEF IInv, KeepsDepth, Exits

LEMMA PlainMade ==
  /\ \A line : Plain(Line(line))
  /\ \A cmd : Plain(Cmd(cmd))
  /\ \A path : Plain(ScriptCall(path))
  /\ Plain(Zero) /\ Plain([k |-> "main"]) /\ Plain([k |-> "program"])
  /\ \A op \in {"&&", "||", "|"} : \A line : Plain(After(op, line))
BY DEF Plain, PlainKind, Line, Cmd, ScriptCall, Zero, After

\* The call in progress goes on with the same descriptors.
LEMMA GoesOn ==
  ASSUME IInv, ctl # <<>>, NEW f, Fields(f), StandsOn(f, Rest),
         Holds(f) = Holds(Top), Counted(f) = Counted(Top)
  PROVE  /\ Sound(<<f>> \o Rest, fds, sh.script_depth)
         /\ <<f>> \o Rest # <<>> /\ (<<f>> \o Rest)[1] = f
<1>1. /\ Sound(Rest, fds \ Holds(Top), sh.script_depth - Counted(Top))
      /\ Holds(Top) \subseteq fds
  BY TopPopped
<1>2. sh.script_depth \in Nat /\ fds \subseteq 0..MAX_OPEN_FILES - 1
  BY CountIsNat DEF IInv
<1>3. Counted(Top) \in Nat
  BY DEF Counted
<1>4. sh.script_depth - Counted(Top) + Counted(Top) = sh.script_depth
  BY <1>2, <1>3
<1>5. (fds \ Holds(Top)) \cup Holds(Top) = fds /\ Holds(f) \subseteq (0..MAX_OPEN_FILES - 1) \ (fds \ Holds(Top))
  BY <1>1, <1>2
<1>6. /\ Sound(<<f>> \o Rest, (fds \ Holds(Top)) \cup Holds(f), sh.script_depth - Counted(Top) + Counted(f))
      /\ <<f>> \o Rest # <<>> /\ (<<f>> \o Rest)[1] = f
  BY <1>1, <1>5, Push
<1> QED
  BY <1>4, <1>5, <1>6

\* It returns, its descriptors closed.
LEMMA Returns ==
  ASSUME IInv, ctl # <<>>, Top.k # "script", ctl' = Rest, fds' = fds \ Holds(Top), KeepsDepth
  PROVE  IInv'
<1>1. sh.script_depth - Counted(Top) = sh.script_depth
  BY CountIsNat DEF IInv, Counted
<1> QED
  BY <1>1, TopPopped, KeptSound

\* A call that holds nothing makes way for one with descriptors just opened.
LEMMA Starts ==
  ASSUME IInv, ctl # <<>>, PlainKind(Top.k), NEW f, Fields(f), f.k \notin {"script", "unpack"},
         Holds(f) \subseteq (0..MAX_OPEN_FILES - 1) \ fds
  PROVE  Sound(<<f>> \o Rest, fds \cup Holds(f), sh.script_depth)
<1>1. Sound(Rest, fds, sh.script_depth)
  BY PlainPopped
<1>2. StandsOn(f, Rest) /\ Counted(f) = 0
  BY DEF StandsOn, Counted
<1>3. Sound(<<f>> \o Rest, fds \cup Holds(f), sh.script_depth + Counted(f))
  BY <1>1, <1>2, Push
<1>4. sh.script_depth + Counted(f) = sh.script_depth
  BY <1>1, <1>2, CountIsNat
<1> QED
  BY <1>3, <1>4

LEMMA FilesBounded ==
  ASSUME IInv
  PROVE  fds \subseteq 0..MAX_OPEN_FILES - 1
BY CountIsNat DEF IInv

\* What a call opens is free whatever programs have left open; opened and closed
\* again it leaves the others.
LEMMA OpenedHere ==
  ASSUME IInv, NEW t, NEW c, NEW path, NEW mode
  PROVE  LET r == fat32_open(t, c, Taken, path, mode)
         IN  /\ r.fd = NoFd \/ r.fd \in (0..MAX_OPEN_FILES - 1) \ fds
             /\ Closed(fds \cup {r.fd}, r.fd) = fds
<1> DEFINE r == fat32_open(t, c, Taken, path, mode)
<1>1. r.fd = NoFd \/ r.fd \in (0..MAX_OPEN_FILES - 1) \ Taken
  BY Opened
<1> HIDE DEF r
<1>2. fds \subseteq Taken /\ fds \subseteq 0..MAX_OPEN_FILES - 1
  BY FilesBounded DEF Taken
<1>3. r.fd = NoFd \/ r.fd \in (0..MAX_OPEN_FILES - 1) \ fds
  BY <1>1, <1>2
<1>4. r.fd \notin fds
  BY <1>2, <1>3, NoFdIsNone
<1> QED
  BY <1>3, <1>4 DEF Closed, r

LEMMA LinesKeep ==
  ASSUME IInv, Lines
  PROVE  IInv'
<1> USE Depth
<1>1. CASE Split
  <2>1. PICK op \in {"&&", "||", "|"} : \E first, second :
          ctl' = <<Line(first), After(op, second)>> \o Rest
    BY <1>1 DEF Split, Calls
  <2>2. ctl # <<>> /\ PlainKind(Top.k) /\ fds' = fds /\ KeepsDepth
    BY <1>1 DEF Split, On, Calls, SameFiles, PlainKind
  <2> QED
    BY <2>1, <2>2, PlainMade, PlainCallTwo
<1>2. CASE SecondHalf
  <2>1. ctl # <<>> /\ PlainKind(Top.k) /\ fds' = fds /\ KeepsDepth
    BY <1>2 DEF SecondHalf, On, Calls, Return, SameFiles, PlainKind
  <2>2. ctl' = Rest \/ ctl' = <<Line(Top.line)>> \o Rest
    BY <1>2 DEF SecondHalf, Calls, Return
  <2> QED
    BY <2>1, <2>2, PlainMade, PlainCall, PlainReturn
<1>3. CASE PlainCommand
  <2>1. ctl # <<>> /\ PlainKind(Top.k) /\ fds' = fds /\ KeepsDepth
    BY <1>3 DEF PlainCommand, OneCommand, On, Calls, SameFiles, PlainKind
  <2>2. ctl' = <<Cmd(TheCommand)>> \o Rest
    BY <1>3 DEF PlainCommand, Calls
  <2> QED
    BY <2>1, <2>2, PlainMade, PlainCall
<1>4. CASE Redirected
  <2> DEFINE path == Resolved(TheCommand.out)
             mode == IF TheCommand.append THEN "append" ELSE "trunc"
             r == fat32_open(d, cap, Taken, path, mode)
             f == [k |-> "redirect", fd |-> r.fd]
  <2>1. ctl # <<>> /\ PlainKind(Top.k) /\ KeepsDepth
    BY <1>4 DEF Redirected, OneCommand, On, Calls, ReturnCode, PlainKind
  <2>2. \/ ctl' = Rest /\ fds' = fds
        \/ r.fd # NoFd /\ fds' = fds \cup {r.fd} /\ ctl' = <<Cmd(TheCommand), f>> \o Rest
    BY <1>4 DEF Redirected, Calls, ReturnCode
  <2>3. r.fd = NoFd \/ r.fd \in (0..MAX_OPEN_FILES - 1) \ fds
    BY OpenedHere
  <2>4. Holds(f) = {r.fd} /\ f.k = "redirect" /\ Fields(f)
    BY HoldsOf DEF Fields
  <2> HIDE DEF r, f
  <2>5. CASE ctl' = Rest /\ fds' = fds
    BY <2>1, <2>5, PlainReturn
  <2>6. CASE r.fd # NoFd /\ fds' = fds \cup {r.fd} /\ ctl' = <<Cmd(TheCommand), f>> \o Rest
    <3>1. Sound(<<f>> \o Rest, fds', sh.script_depth)
      BY <2>1, <2>3, <2>4, <2>6, Starts
    <3>2. Sound(<<Cmd(TheCommand)>> \o (<<f>> \o Rest), fds', sh.script_depth)
      BY <3>1, PlainMade, PushPlain
    <3>3. ctl' = <<Cmd(TheCommand)>> \o (<<f>> \o Rest)
      BY <2>1, <2>6, PlainPopped, PushTwo
    <3> QED
      BY <2>1, <3>2, <3>3, KeptSound
  <2> QED
    BY <2>2, <2>5, <2>6
<1>5. CASE RedirectEnds
  <2>1. ctl # <<>> /\ Top.k = "redirect" /\ ctl' = Rest /\ fds' = fds \ {Top.fd} /\ KeepsDepth
    BY <1>5 DEF RedirectEnds, On, Return, Closed
  <2>2. Holds(Top) = {Top.fd}
    BY <2>1, HoldsOf
  <2> QED
    BY <2>1, <2>2, Returns
<1> QED
  BY <1>1, <1>2, <1>3, <1>4, <1>5 DEF Lines

\* The commands that neither keep a descriptor nor call.
Simple ==
  \/ QuietOne \/ ReadOne \/ False \/ cd \/ touch \/ mkdir \/ rm \/ mv \/ exit \/ export
  \/ set \/ unset \/ alias \/ unalias_ \/ Unknown

LEMMA SimpleReturns ==
  ASSUME IInv, Simple
  PROVE  ctl # <<>> /\ Top.k = "cmd" /\ ctl' = Rest /\ fds' = fds
<1> DEFINE r(word, mode) == fat32_open(d, cap, Taken, Resolved(word), mode)
<1>1. \A word, mode : Closed(fds \cup {r(word, mode).fd}, r(word, mode).fd) = fds
  BY OpenedHere
<1>2. CASE QuietOne \/ False \/ cd \/ mkdir \/ rm \/ mv \/ exit
  BY <1>2 DEF QuietOne, False, cd, mkdir, rm, mv, exit, Runs, On, ReturnCode, SameFiles
<1>3. CASE export \/ set \/ unset \/ alias \/ unalias_
  BY <1>3 DEF export, set, unset, alias, unalias_, Runs, On, Tables, SameFiles
<1>4. CASE Unknown
  BY <1>4 DEF Unknown, On, ReturnCode, SameFiles
<1>5. CASE ReadOne
  <2>1. fds' = Closed(fds \cup {r(Args[1], "read").fd}, r(Args[1], "read").fd)
    BY <1>5 DEF ReadOne
  <2> QED
    BY <1>1, <1>5, <2>1 DEF ReadOne, On, ReturnCode
<1>6. CASE touch
  <2>1. fds' = Closed(fds \cup {r(Args[1], "append").fd}, r(Args[1], "append").fd)
    BY <1>6 DEF touch
  <2> QED
    BY <1>1, <1>6, <2>1 DEF touch, Runs, On, ReturnCode
<1> QED
  BY <1>2, <1>3, <1>4, <1>5, <1>6 DEF Simple

LEMMA SimpleDepth ==
  ASSUME IInv, Simple
  PROVE  KeepsDepth
<1>1. CASE QuietOne \/ ReadOne \/ False \/ touch \/ mkdir \/ rm \/ mv \/ Unknown
  BY <1>1, Depth DEF QuietOne, ReadOne, False, touch, mkdir, rm, mv, Unknown, ReturnCode
<1>2. "script_depth" \in DOMAIN sh
  BY DEF IInv
<1>3. CASE cd \/ exit
  BY <1>2, <1>3 DEF cd, exit, Exits, KeepsDepth
<1>4. CASE export \/ set \/ unset \/ alias \/ unalias_
  BY <1>2, <1>4 DEF export, set, unset, alias, unalias_, Tables, Exits, KeepsDepth
<1> QED
  BY <1>1, <1>3, <1>4 DEF Simple

LEMMA SimpleKeep ==
  ASSUME IInv, Simple
  PROVE  IInv'
<1>1. ctl # <<>> /\ Top.k = "cmd" /\ ctl' = Rest /\ fds' = fds /\ KeepsDepth
  BY SimpleReturns, SimpleDepth
<1>2. PlainKind(Top.k)
  BY <1>1 DEF PlainKind
<1> QED
  BY <1>1, <1>2, PlainReturn

LEMMA CpKeeps ==
  ASSUME IInv, cp
  PROVE  IInv'
<1> DEFINE from == Resolved(Args[1])
           to == Resolved(Args[2])
           i == fat32_open(d, cap, Taken, from, "read")
           open == fds \cup {i.fd}
           o == fat32_open(d, cap, open \cup strays, to, "trunc")
           f == [k |-> "copy", fi |-> i.fd, fo |-> o.fd, to |-> to,
                 rest |-> IF IsFile(o.d, from) THEN o.d[from].text ELSE <<>>]
<1>1. ctl # <<>> /\ PlainKind(Top.k) /\ KeepsDepth
  BY Depth DEF cp, Runs, On, PlainKind, ReturnCode, Calls
<1>2. \/ ctl' = Rest /\ fds' = fds
      \/ i.fd # NoFd /\ ctl' = Rest /\ fds' = Closed(open, i.fd)
      \/ i.fd # NoFd /\ o.fd # NoFd /\ fds' = open \cup {o.fd} /\ ctl' = <<f>> \o Rest
  BY DEF cp, ReturnCode, Calls, SameFiles, Refused
<1>3. /\ i.fd = NoFd \/ i.fd \in (0..MAX_OPEN_FILES - 1) \ fds
      /\ Closed(open, i.fd) = fds
  BY OpenedHere
<1>4. ASSUME i.fd # NoFd
      PROVE  o.fd = NoFd \/ o.fd \in (0..MAX_OPEN_FILES - 1) \ open
  <2>1. o.fd = NoFd \/ o.fd \in (0..MAX_OPEN_FILES - 1) \ (open \cup strays)
    BY Opened
  <2> HIDE DEF o, open
  <2> QED
    BY <2>1
<1>5. f.k = "copy" /\ f.fi = i.fd /\ f.fo = o.fd /\ {"k", "fi", "fo"} \subseteq DOMAIN f
  OBVIOUS
<1>6. Holds(f) = {i.fd, o.fd}
  BY <1>5, HoldsOf
<1> HIDE DEF i, o, f
<1>7. CASE ctl' = Rest /\ fds' = fds
  BY <1>1, <1>7, PlainReturn
<1>8. CASE ctl' = Rest /\ fds' = Closed(open, i.fd)
  BY <1>1, <1>3, <1>8, PlainReturn
<1>9. CASE i.fd # NoFd /\ o.fd # NoFd /\ fds' = open \cup {o.fd} /\ ctl' = <<f>> \o Rest
  <2>1. Fields(f)
    BY <1>4, <1>5, <1>9 DEF Fields
  <2>2. Holds(f) \subseteq (0..MAX_OPEN_FILES - 1) \ fds /\ fds' = fds \cup Holds(f)
    BY <1>3, <1>4, <1>6, <1>9
  <2>3. Sound(<<f>> \o Rest, fds', sh.script_depth)
    BY <1>1, <1>5, <2>1, <2>2, Starts
  <2> QED
    BY <1>1, <1>9, <2>3, KeptSound
<1> QED
  BY <1>2, <1>7, <1>8, <1>9

LEMMA WriteKeeps ==
  ASSUME IInv, write
  PROVE  IInv'
<1> DEFINE path == Resolved(Args[1])
           r == fat32_open(d, cap, Taken, path, IF Len(Args) > 1 THEN "append" ELSE "trunc")
           f == [k |-> "write", fd |-> r.fd, to |-> path]
<1>1. ctl # <<>> /\ PlainKind(Top.k) /\ KeepsDepth
  BY Depth DEF write, Runs, On, PlainKind, ReturnCode, Calls
<1>2. \/ ctl' = Rest /\ fds' = fds
      \/ r.fd # NoFd /\ fds' = fds \cup {r.fd} /\ ctl' = <<f>> \o Rest
  BY DEF write, ReturnCode, Calls
<1>3. r.fd = NoFd \/ r.fd \in (0..MAX_OPEN_FILES - 1) \ fds
  BY OpenedHere
<1>4. Holds(f) = {r.fd} /\ f.k = "write" /\ Fields(f)
  BY HoldsOf DEF Fields
<1> HIDE DEF r, f
<1>5. CASE ctl' = Rest /\ fds' = fds
  BY <1>1, <1>5, PlainReturn
<1>6. CASE r.fd # NoFd /\ fds' = fds \cup {r.fd} /\ ctl' = <<f>> \o Rest
  <2>1. Sound(<<f>> \o Rest, fds', sh.script_depth)
    BY <1>1, <1>3, <1>4, <1>6, Starts
  <2> QED
    BY <1>1, <1>6, <2>1, KeptSound
<1> QED
  BY <1>2, <1>5, <1>6

LEMMA InstallKeeps ==
  ASSUME IInv, Install
  PROVE  IInv'
<1> DEFINE path == Resolved(Args[1])
           r == fat32_open(d, cap, Taken, path, "read")
           text == IF IsFile(d, path) THEN d[path].text ELSE <<>>
           cfg == pass_load_cfg(text)
           dest == mkdir_p(d, path_resolve(<<>>, cfg.dest))
           f == [k |-> "install", fi |-> r.fd, path |-> path, text |-> text, pos |-> 2,
                 files |-> NFiles[text[1]], dest |-> cfg.dest]
<1>1. ctl # <<>> /\ PlainKind(Top.k) /\ KeepsDepth
  BY Depth DEF Install, Runs, On, PlainKind, ReturnCode, Calls
<1>2. \/ ctl' = Rest /\ fds' = Closed(fds \cup {r.fd}, r.fd)
      \/ r.fd # NoFd /\ fds' = fds \cup {r.fd} /\ ctl' = <<f, Zero>> \o Rest
  BY DEF Install, ReturnCode, Calls
<1>3. /\ r.fd = NoFd \/ r.fd \in (0..MAX_OPEN_FILES - 1) \ fds
      /\ Closed(fds \cup {r.fd}, r.fd) = fds
  BY OpenedHere
<1>4. Holds(f) = {r.fd} /\ f.k = "install" /\ Fields(f)
  BY HoldsOf DEF Fields
<1> HIDE DEF r, f
<1>5. CASE ctl' = Rest /\ fds' = Closed(fds \cup {r.fd}, r.fd)
  BY <1>1, <1>3, <1>5, PlainReturn
<1>6. CASE r.fd # NoFd /\ fds' = fds \cup {r.fd} /\ ctl' = <<f, Zero>> \o Rest
  <2>1. Sound(Rest, fds, sh.script_depth)
    BY <1>1, PlainPopped
  <2>2. Sound(<<Zero>> \o Rest, fds, sh.script_depth)
    BY <2>1, PlainMade, PushPlain
  <2>3. StandsOn(f, <<Zero>> \o Rest) /\ Counted(f) = 0
    BY <1>4 DEF StandsOn, Counted
  <2>4. Sound(<<f>> \o (<<Zero>> \o Rest), fds \cup Holds(f), sh.script_depth + Counted(f))
    BY <1>3, <1>4, <1>6, <2>2, <2>3, Push
  <2>5. sh.script_depth + Counted(f) = sh.script_depth
    BY <2>1, <2>3, CountIsNat
  <2>6. ctl' = <<f>> \o (<<Zero>> \o Rest)
    BY <1>6, <2>1, PushTwo
  <2> QED
    BY <1>1, <1>4, <1>6, <2>4, <2>5, <2>6, KeptSound
<1> QED
  BY <1>2, <1>5, <1>6

LEMMA CommandsKeep ==
  ASSUME IInv, Commands
  PROVE  IInv'
<1>1. CASE Alias
  <2>1. PICK line : ctl' = <<Line(line)>> \o Rest
    BY <1>1 DEF Alias, Calls
  <2>2. ctl # <<>> /\ PlainKind(Top.k) /\ fds' = fds /\ KeepsDepth
    BY <1>1, Depth DEF Alias, On, Calls, SameFiles, PlainKind
  <2> QED
    BY <2>1, <2>2, PlainMade, PlainCall
<1>2. CASE source
  <2>1. ctl' = <<ScriptCall(Resolved(Args[1])), Zero>> \o Rest
    BY <1>2 DEF source, Calls
  <2>2. ctl # <<>> /\ PlainKind(Top.k) /\ fds' = fds /\ KeepsDepth
    BY <1>2, Depth DEF source, Runs, On, Calls, SameFiles, PlainKind
  <2> QED
    BY <2>1, <2>2, PlainMade, PlainCallTwo
<1>3. CASE Script
  <2>1. ctl' = <<ScriptCall(Resolved(<<Name>>))>> \o Rest
    BY <1>3 DEF Script, Calls
  <2>2. ctl # <<>> /\ PlainKind(Top.k) /\ fds' = fds /\ KeepsDepth
    BY <1>3, Depth DEF Script, On, Calls, SameFiles, PlainKind
  <2> QED
    BY <2>1, <2>2, PlainMade, PlainCall
<1>4. CASE Program
  <2> DEFINE f == [k |-> "program"]
  <2>1. ctl' = Rest \/ ctl' = <<f>> \o Rest
    BY <1>4 DEF Program, ReturnCode, Calls
  <2>2. ctl # <<>> /\ PlainKind(Top.k) /\ fds' = fds /\ KeepsDepth
    BY <1>4, Depth DEF Program, On, ReturnCode, Calls, SameFiles, PlainKind
  <2>3. Plain(f)
    BY PlainMade
  <2> HIDE DEF f
  <2> QED
    BY <2>1, <2>2, <2>3, PlainReturn, PlainCall
<1> QED
  BY <1>1, <1>2, <1>3, <1>4, SimpleKeep, CpKeeps, WriteKeeps, InstallKeeps DEF Commands, Simple

------------------------------------------------------------------------------
\* Scripts.

LEMMA RunScriptKeeps ==
  ASSUME IInv, RunScript
  PROVE  IInv'
<1> DEFINE r == fat32_open(d, cap, Taken, Top.path, "read")
           f == [k |-> "script", lines |-> d[Top.path].text]
<1>1. ctl # <<>> /\ PlainKind(Top.k)
  BY DEF RunScript, On, PlainKind
<1>2. Closed(fds \cup {r.fd}, r.fd) = fds
  BY OpenedHere
<1>3. \/ ctl' = Rest /\ UNCHANGED sh /\ (fds' = fds \/ fds' = Closed(fds \cup {r.fd}, r.fd))
      \/ /\ ctl' = <<f>> \o Rest /\ fds' = Closed(fds \cup {r.fd}, r.fd)
         /\ ~(sh.script_depth >= SHELL_SCRIPT_DEPTH)
         /\ sh' = [sh EXCEPT !.script_depth = @ + 1]
  BY DEF RunScript, Return, SameFiles
<1>4. fds' = fds
  BY <1>2, <1>3
<1>5. f.k = "script" /\ "k" \in DOMAIN f
  OBVIOUS
<1> HIDE DEF f
<1>6. CASE ctl' = Rest /\ UNCHANGED sh
  BY <1>1, <1>4, <1>6, Depth, PlainReturn
<1>7. CASE /\ ctl' = <<f>> \o Rest /\ ~(sh.script_depth >= SHELL_SCRIPT_DEPTH)
           /\ sh' = [sh EXCEPT !.script_depth = @ + 1]
  <2>1. Holds(f) = {} /\ Counted(f) = 1 /\ Fields(f) /\ StandsOn(f, Rest)
    BY <1>5, HoldsOf DEF Counted, Fields, StandsOn
  <2>2. Sound(Rest, fds, sh.script_depth)
    BY <1>1, PlainPopped
  <2>3. Sound(<<f>> \o Rest, fds \cup Holds(f), sh.script_depth + Counted(f))
    BY <2>1, <2>2, Push
  <2>4. sh'.script_depth = sh.script_depth + 1 /\ "script_depth" \in DOMAIN sh'
    BY <1>7 DEF IInv
  <2>5. sh.script_depth + 1 <= SHELL_SCRIPT_DEPTH
    BY <1>7, <2>2, CountIsNat, ShellAssumption
  <2>6. fds \cup Holds(f) = fds'
    BY <1>4, <2>1
  <2> QED
    BY <1>7, <2>1, <2>3, <2>4, <2>5, <2>6, NextSound
<1> QED
  BY <1>3, <1>6, <1>7

LEMMA ScriptLineKeeps ==
  ASSUME IInv, ScriptLine
  PROVE  IInv'
<1> DEFINE f == [Top EXCEPT !.lines = NextLines(@)]
<1>1. PICK line : ctl' = <<Line(line), f>> \o Rest
  BY DEF ScriptLine, Calls
<1>2. ctl # <<>> /\ Top.k = "script" /\ fds' = fds /\ KeepsDepth
  BY Depth DEF ScriptLine, On, Calls, SameFiles
<1>3. "k" \in DOMAIN Top
  BY <1>2, TopPopped DEF Fields
<1>4. f.k = "script" /\ "k" \in DOMAIN f
  BY <1>2, <1>3
<1> HIDE DEF f
<1>5. /\ Fields(f) /\ StandsOn(f, Rest)
      /\ Holds(f) = Holds(Top) /\ Counted(f) = Counted(Top)
  BY <1>2, <1>4, HoldsOf DEF Fields, StandsOn, Counted
<1>6. Sound(<<f>> \o Rest, fds, sh.script_depth)
  BY <1>2, <1>5, GoesOn
<1>7. Sound(<<Line(line)>> \o (<<f>> \o Rest), fds, sh.script_depth)
  BY <1>6, PlainMade, PushPlain
<1>8. ctl' = <<Line(line)>> \o (<<f>> \o Rest)
  BY <1>1, <1>2, TopPopped, PushTwo
<1> QED
  BY <1>2, <1>7, <1>8, KeptSound

LEMMA ScriptEndsKeeps ==
  ASSUME IInv, ScriptEnds
  PROVE  IInv'
<1>1. /\ ctl # <<>> /\ Top.k = "script" /\ fds' = fds /\ ctl' = Rest
      /\ sh' = [sh EXCEPT !.script_depth = @ - 1]
  BY DEF ScriptEnds, On, SameFiles
<1>2. Holds(Top) = {} /\ Counted(Top) = 1
  BY <1>1, HoldsOf DEF Counted
<1>3. Sound(Rest, fds \ Holds(Top), sh.script_depth - Counted(Top))
  BY <1>1, TopPopped
<1>4. sh'.script_depth = sh.script_depth - 1 /\ "script_depth" \in DOMAIN sh'
  BY <1>1 DEF IInv
<1>5. sh.script_depth \in Nat /\ sh.script_depth <= SHELL_SCRIPT_DEPTH
  BY CountIsNat DEF IInv
<1>6. sh.script_depth - 1 <= SHELL_SCRIPT_DEPTH
  BY <1>5, ShellAssumption
<1>7. fds \ Holds(Top) = fds'
  BY <1>1, <1>2
<1> QED
  BY <1>1, <1>2, <1>3, <1>4, <1>6, <1>7, NextSound

------------------------------------------------------------------------------
\* Copies, texts and installations.

LEMMA CopyKeeps ==
  ASSUME IInv, CopyBlock \/ CopyEnds
  PROVE  IInv'
<1>1. ctl # <<>> /\ Top.k = "copy" /\ KeepsDepth
  BY Depth DEF CopyBlock, CopyEnds, On, Calls, ReturnCode
<1>2. Holds(Top) = {Top.fi, Top.fo} /\ Fields(Top)
  BY <1>1, HoldsOf, TopPopped
<1>3. CASE CopyBlock
  <2> DEFINE f == [Top EXCEPT !.rest = Tail(@)]
  <2>1. ctl' = <<f>> \o Rest /\ fds' = fds
    BY <1>3 DEF CopyBlock, Calls
  <2>2. {"k", "fi", "fo"} \subseteq DOMAIN Top /\ Top.fi # Top.fo
    BY <1>1, <1>2 DEF Fields
  <2>3. f.k = "copy" /\ {"k", "fi", "fo"} \subseteq DOMAIN f /\ f.fi = Top.fi /\ f.fo = Top.fo
    BY <1>1, <2>2
  <2> HIDE DEF f
  <2>4. /\ Fields(f) /\ StandsOn(f, Rest)
        /\ Holds(f) = Holds(Top) /\ Counted(f) = Counted(Top)
    BY <1>1, <1>2, <2>2, <2>3, HoldsOf DEF Fields, StandsOn, Counted
  <2> QED
    BY <1>1, <2>1, <2>4, GoesOn, KeptSound
<1>4. CASE CopyEnds
  <2>1. ctl' = Rest /\ fds' = fds \ Holds(Top)
    BY <1>2, <1>4 DEF CopyEnds, ReturnCode, Closed
  <2> QED
    BY <1>1, <2>1, Returns
<1> QED
  BY <1>3, <1>4

LEMMA InstallFileKeeps ==
  ASSUME IInv, InstallFile
  PROVE  IInv'
<1> DEFINE pos == Top.pos
           entry == EntryOf[Top.text[pos]]
           out == join_dest(Top.dest, entry.name)
           dir == mkdir_p(d, Front(out))
           r == fat32_open(dir.d, cap, Taken, out, "trunc")
           next == [Top EXCEPT !.pos = pos + 1 + entry.size, !.files = @ - 1]
           f == [k |-> "unpack", fi |-> Top.fi, fo |-> r.fd, out |-> out, size |-> entry.size,
                 data |-> Data(Top.text, pos)]
<1>1. ctl # <<>> /\ Top.k = "install" /\ KeepsDepth
  BY Depth DEF InstallFile, On, Calls, InstallFails, Return
<1>2. \/ ctl' = Rest /\ fds' = Closed(fds, Top.fi)
      \/ ctl' = <<next>> \o Rest /\ fds' = fds
      \/ r.fd # NoFd /\ fds' = fds \cup {r.fd} /\ ctl' = <<f, next>> \o Rest
  BY DEF InstallFile, Calls, InstallFails, Return, SameFiles
<1>3. Holds(Top) = {Top.fi} /\ {"k", "fi"} \subseteq DOMAIN Top
  BY <1>1, HoldsOf, TopPopped DEF Fields
<1>4. next.k = "install" /\ {"k", "fi"} \subseteq DOMAIN next /\ next.fi = Top.fi
  BY <1>1, <1>3
<1>5. r.fd = NoFd \/ r.fd \in (0..MAX_OPEN_FILES - 1) \ fds
  BY OpenedHere
<1>6. Holds(f) = {r.fd} /\ f.k = "unpack" /\ f.fi = Top.fi /\ Fields(f)
  BY HoldsOf DEF Fields
<1> HIDE DEF next, f, r
<1>7. /\ Fields(next) /\ StandsOn(next, Rest)
      /\ Holds(next) = Holds(Top) /\ Counted(next) = Counted(Top)
  BY <1>1, <1>3, <1>4, HoldsOf DEF Fields, StandsOn, Counted
<1>8. /\ Sound(<<next>> \o Rest, fds, sh.script_depth)
      /\ <<next>> \o Rest # <<>> /\ (<<next>> \o Rest)[1] = next
  BY <1>1, <1>7, GoesOn
<1>9. CASE ctl' = Rest /\ fds' = Closed(fds, Top.fi)
  BY <1>1, <1>3, <1>9, Returns DEF Closed
<1>10. CASE ctl' = <<next>> \o Rest /\ fds' = fds
  BY <1>1, <1>8, <1>10, KeptSound
<1>11. CASE r.fd # NoFd /\ fds' = fds \cup {r.fd} /\ ctl' = <<f, next>> \o Rest
  <2>1. StandsOn(f, <<next>> \o Rest) /\ Counted(f) = 0
    BY <1>4, <1>6, <1>8 DEF StandsOn, Counted
  <2>2. Sound(<<f>> \o (<<next>> \o Rest), fds \cup Holds(f), sh.script_depth + Counted(f))
    BY <1>5, <1>6, <1>8, <1>11, <2>1, Push
  <2>3. sh.script_depth + Counted(f) = sh.script_depth
    BY <1>8, <2>1, CountIsNat
  <2>4. ctl' = <<f>> \o (<<next>> \o Rest)
    BY <1>1, <1>11, TopPopped, PushTwo
  <2> QED
    BY <1>1, <1>6, <1>11, <2>2, <2>3, <2>4, KeptSound
<1> QED
  BY <1>2, <1>9, <1>10, <1>11

\* The call that cannot write fails, and the installation it stands on with it.
LEMMA UnpackKeeps ==
  ASSUME IInv, UnpackBlock \/ UnpackEnds
  PROVE  IInv'
<1> DEFINE f == [Top EXCEPT !.data = Tail(@), !.size = @ - 1]
<1>1. ctl # <<>> /\ Top.k = "unpack" /\ KeepsDepth
  BY Depth DEF UnpackBlock, UnpackEnds, On, Calls, Return
<1>2. \/ fds' = Closed(Closed(fds, Top.fo), Top.fi) /\ ctl' = Tail(Rest)
      \/ fds' = fds /\ ctl' = <<f>> \o Rest
      \/ fds' = Closed(fds, Top.fo) /\ ctl' = Rest
  BY DEF UnpackBlock, UnpackEnds, Calls, Return
<1>3. /\ Holds(Top) = {Top.fo} /\ Counted(Top) = 0 /\ Fields(Top) /\ StandsOn(Top, Rest)
      /\ Sound(Rest, fds \ Holds(Top), sh.script_depth - Counted(Top))
  BY <1>1, HoldsOf, TopPopped DEF Counted
<1>4. CASE fds' = Closed(Closed(fds, Top.fo), Top.fi) /\ ctl' = Tail(Rest)
  <2>1. Rest # <<>> /\ Rest[1].k = "install" /\ Rest[1].fi = Top.fi
    BY <1>1, <1>3 DEF StandsOn
  <2>2. Head(Rest) = Rest[1]
    BY <2>1, <1>3 DEF Sound
  <2>3. Holds(Head(Rest)) = {Top.fi} /\ Counted(Head(Rest)) = 0
    BY <2>1, <2>2, HoldsOf DEF Counted
  <2>4. Sound(Tail(Rest), (fds \ Holds(Top)) \ Holds(Head(Rest)),
              (sh.script_depth - Counted(Top)) - Counted(Head(Rest)))
    BY <1>3, <2>1, Pop
  <2>5. (sh.script_depth - Counted(Top)) - Counted(Head(Rest)) = sh.script_depth
    BY <1>3, <2>3, CountIsNat DEF IInv
  <2>6. fds' = (fds \ Holds(Top)) \ Holds(Head(Rest))
    BY <1>3, <1>4, <2>3 DEF Closed
  <2> QED
    BY <1>1, <1>4, <2>4, <2>5, <2>6, KeptSound
<1>5. CASE fds' = fds /\ ctl' = <<f>> \o Rest
  <2>1. {"k", "fi", "fo"} \subseteq DOMAIN Top
    BY <1>1, <1>3 DEF Fields
  <2>2. f.k = "unpack" /\ {"k", "fi", "fo"} \subseteq DOMAIN f /\ f.fi = Top.fi /\ f.fo = Top.fo
    BY <1>1, <2>1
  <2> HIDE DEF f
  <2>3. /\ Fields(f) /\ StandsOn(f, Rest)
        /\ Holds(f) = Holds(Top) /\ Counted(f) = Counted(Top)
    BY <1>1, <1>3, <2>2, HoldsOf DEF Fields, StandsOn, Counted
  <2> QED
    BY <1>1, <1>5, <2>3, GoesOn, KeptSound
<1>6. CASE fds' = Closed(fds, Top.fo) /\ ctl' = Rest
  BY <1>1, <1>3, <1>6, Returns DEF Closed
<1> QED
  BY <1>2, <1>4, <1>5, <1>6

LEMMA CallsKeep ==
  ASSUME IInv, Calls_
  PROVE  IInv'
<1>1. CASE ZeroEnds
  <2>1. ctl # <<>> /\ PlainKind(Top.k) /\ ctl' = Rest /\ fds' = fds /\ KeepsDepth
    BY <1>1, Depth DEF ZeroEnds, On, PlainKind, ReturnCode, SameFiles
  <2> QED
    BY <2>1, PlainReturn
<1>2. CASE InstallEnds
  <2>1. ctl # <<>> /\ Top.k = "install" /\ ctl' = Rest /\ fds' = Closed(fds, Top.fi) /\ KeepsDepth
    BY <1>2, Depth DEF InstallEnds, On, Return
  <2>2. Holds(Top) = {Top.fi}
    BY <2>1, HoldsOf
  <2> QED
    BY <2>1, <2>2, Returns DEF Closed
<1>3. CASE LineEnds
  <2>1. ctl # <<>> /\ PlainKind(Top.k) /\ ctl' = Rest /\ fds' = fds
    BY <1>3 DEF LineEnds, On, PlainKind, SameFiles
  <2>2. KeepsDepth
    BY <1>3 DEF LineEnds, IInv, KeepsDepth
  <2> QED
    BY <2>1, <2>2, PlainReturn
<1> QED
  BY <1>1, <1>2, <1>3, CopyKeeps, RunScriptKeeps, ScriptLineKeeps, ScriptEndsKeeps,
     InstallFileKeeps, UnpackKeeps DEF Calls_

------------------------------------------------------------------------------
\* The user.

LEMMA EnterKeeps ==
  ASSUME IInv, NEW frame, Plain(frame), Enter(frame)
  PROVE  IInv'
<1> DEFINE main == [k |-> "main"]
<1>1. ctl = <<>> /\ ctl' = <<frame, main>> /\ fds' = fds /\ KeepsDepth
  BY Depth DEF Enter, SameFiles
<1>2. Sound(ctl, fds, sh.script_depth)
  BY DEF IInv
<1>3. Plain(main)
  BY PlainMade
<1> HIDE DEF main
<1>4. Sound(<<frame>> \o (<<main>> \o ctl), fds, sh.script_depth)
  BY <1>2, <1>3, PushPlain
<1>5. <<frame, main>> = <<frame, main>> \o ctl
  BY <1>1
<1>6. ctl' = <<frame>> \o (<<main>> \o ctl)
  BY <1>1, <1>2, <1>5, PushTwo
<1> QED
  BY <1>1, <1>4, <1>6, KeptSound

LEMMA Unmoved ==
  ASSUME IInv, ctl' = ctl, fds' = fds, KeepsDepth
  PROVE  IInv'
<1>1. Sound(ctl', fds', sh.script_depth)
  BY DEF IInv
<1> QED
  BY <1>1, KeptSound

LEMMA UserKeeps ==
  ASSUME IInv, User
  PROVE  IInv'
<1>1. ASSUME NEW correct \in BOOLEAN, Login(correct) PROVE IInv'
  <2>1. ctl' = ctl /\ fds' = fds
    BY <1>1 DEF Login, SameFiles
  <2>2. KeepsDepth
    BY <1>1 DEF Login, IInv, KeepsDepth
  <2> QED
    BY <2>1, <2>2, Unmoved
<1>2. ASSUME NEW line, Enter(Line(line)) PROVE IInv'
  BY <1>2, PlainMade, EnterKeeps
<1>3. ASSUME NEW cmd, Enter(Cmd(cmd)) PROVE IInv'
  BY <1>3, PlainMade, EnterKeeps
<1>4. CASE WriteLine
  BY <1>4, Depth, Unmoved DEF WriteLine
<1>5. CASE WriteDot
  <2>1. ctl # <<>> /\ Top.k = "write" /\ ctl' = Rest /\ fds' = Closed(fds, Top.fd) /\ KeepsDepth
    BY <1>5, Depth DEF WriteDot, On, ReturnCode
  <2>2. Holds(Top) = {Top.fd}
    BY <2>1, HoldsOf
  <2> QED
    BY <2>1, <2>2, Returns DEF Closed
<1> QED
  BY <1>1, <1>2, <1>3, <1>4, <1>5 DEF User

\* A program's own descriptors are none of the shell's.
LEMMA ProgramKeeps ==
  ASSUME IInv, TheProgram
  PROVE  IInv'
<1>1. CASE ProgramOpens \/ ProgramCloses \/ ProgramSaves \/ ProgramRemoves
  <2>1. ctl' = ctl /\ fds' = fds /\ UNCHANGED sh
    BY <1>1 DEF ProgramOpens, ProgramCloses, ProgramSaves, ProgramRemoves, CallsKernel
  <2> QED
    BY <2>1, Depth, Unmoved
<1>2. CASE ProgramReturns
  <2>1. ctl # <<>> /\ PlainKind(Top.k) /\ ctl' = Rest /\ fds' = fds /\ KeepsDepth
    BY <1>2, Depth DEF ProgramReturns, Running, On, PlainKind, ReturnCode, SameFiles
  <2> QED
    BY <2>1, PlainReturn
<1> QED
  BY <1>1, <1>2 DEF TheProgram

LEMMA InitSound == Init => IInv
<1> SUFFICES ASSUME Init PROVE IInv
  OBVIOUS
<1>1. ctl = <<>> /\ fds = {}
  BY DEF Init
<1>2. sh.script_depth = 0 /\ "script_depth" \in DOMAIN sh
  BY DEF Init, NewShell
<1>3. ScriptsOf(ctl) = {} /\ HeldBy(ctl) = {}
  BY <1>1 DEF ScriptsOf, HeldBy
<1>4. Shaped(ctl) /\ Apart(ctl) /\ ctl \in Seq(Frames(ctl))
  BY <1>1 DEF Shaped, Apart
<1>5. Cardinality({}) = 0
  BY FS_EmptySet
<1>6. Sound(ctl, fds, sh.script_depth)
  BY <1>1, <1>2, <1>3, <1>4, <1>5 DEF Sound
<1> QED
  BY <1>2, <1>6, ShellAssumption DEF IInv

LEMMA StepKeeps == IInv /\ [Next]_vars => IInv'
<1> SUFFICES ASSUME IInv, [Next]_vars PROVE IInv'
  OBVIOUS
<1>1. CASE Over \/ UNCHANGED vars
  BY <1>1, Depth, Unmoved DEF Over, vars
<1> QED
  BY <1>1, LinesKeep, CommandsKeep, CallsKeep, UserKeeps, ProgramKeeps DEF Next, Step

LEMMA InvariantHolds == Spec => []IInv
BY InitSound, StepKeeps, PTL DEF Spec

\* shell.c:945-983, 1382-1401, 1558-1613, ins_pkg.c:185-325: for every set of
\* lines, scripts, packages and disks, and every number of descriptors, whatever
\* runs, nests and fails leaves no descriptor of the shell's open and the scripts
\* counted.
THEOREM CommandsCloseTheirFiles == Spec => []FramesHoldAll
<1>1. IInv => FramesHoldAll
  BY DEF IInv, FramesHoldAll, Sound, HeldBy, ScriptsOf
<1> QED
  BY <1>1, InvariantHolds, PTL

==============================================================================
