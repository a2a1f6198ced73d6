------------------------------- MODULE Folding --------------------------------
(***************************************************************************)
(* FoldLeft of SequencesExt, with its operator as a constant of the        *)
(* module: an instance gives an operator, and with it the lemmas on how a  *)
(* fold goes from one element to the next. FoldLeft is defined over the    *)
(* subsets of the positions of a sequence, and the lemmas hold for         *)
(* sequences of any length.                                                *)
(***************************************************************************)
EXTENDS Integers, Sequences, WellFoundedInduction, TLAPS

CONSTANT Op(_, _)

Largest(S) == CHOOSE x \in S : \A y \in S : x >= y

FromLeft(base, seq) ==
    LET iter[s \in SUBSET DOMAIN seq] ==
            IF s = {} THEN base
            ELSE Op(iter[s \ {Largest(s)}], seq[Largest(s)])
    IN  iter[DOMAIN seq]

(* Complete induction, for a set instead of a predicate.                   *)
LEMMA InductionOverSet ==
    ASSUME NEW S, 0 \in S, \A n \in Nat : n \in S => n + 1 \in S
    PROVE  Nat \subseteq S
<1> DEFINE T == Nat \ S
<1>1. SUFFICES ASSUME T # {} PROVE FALSE
  OBVIOUS
<1>2. PICK x \in T : \A y \in T : ~(<<y, x>> \in OpToRel(<, Nat))
  <2>1. T \subseteq Nat
    OBVIOUS
  <2> HIDE DEF T
  <2> QED BY <1>1, <2>1, WFMin, NatLessThanWellFounded
<1>3. x \in Nat \ {0}
  OBVIOUS
<1>4. x - 1 \in T
  BY <1>3
<1>5. <<x - 1, x>> \in OpToRel(<, Nat)
  BY <1>3 DEF OpToRel
<1> QED BY <1>2, <1>4, <1>5

(* A set of numbers up to n that is not empty has a largest.               *)
LEMMA MaxIsThere ==
    ASSUME NEW n \in Nat, NEW s \in SUBSET (1 .. n), s # {}
    PROVE  Largest(s) \in s /\ \A y \in s : Largest(s) >= y
<1> DEFINE S == {k \in Nat : \A t \in SUBSET (1 .. k) :
                    t # {} => \E x \in t : \A y \in t : x >= y}
<1>1. 0 \in S
  <2>1. 1 .. 0 = {}
    OBVIOUS
  <2> QED BY <2>1
<1>2. ASSUME NEW k \in Nat, k \in S PROVE k + 1 \in S
  <2>1. ASSUME NEW t \in SUBSET (1 .. k + 1), t # {}
        PROVE  \E x \in t : \A y \in t : x >= y
    <3>1. CASE k + 1 \in t
      BY <3>1
    <3>2. CASE k + 1 \notin t
      BY <1>2, <3>2, <2>1
    <3> QED BY <3>1, <3>2
  <2> QED BY <2>1
<1>3. n \in S
  <2> HIDE DEF S
  <2> QED BY <1>1, <1>2, InductionOverSet
<1>4. \E x \in s : \A y \in s : x >= y
  BY <1>3
<1> QED BY <1>4 DEF Largest

----------------------------------------------------------------------------
(* What is reached after each element of a sequence.                       *)
Steps(h, base, seq) ==
    /\ h[0] = base
    /\ \A k \in 0 .. Len(seq) - 1 : h[k + 1] = Op(h[k], seq[k + 1])

(* The function that FoldLeft chooses.                                     *)
IsIter(g, base, seq) ==
    g = [s \in SUBSET DOMAIN seq |->
            IF s = {} THEN base ELSE Op(g[s \ {Largest(s)}], seq[Largest(s)])]

(* There is a function that folds the subsets of the positions of a        *)
(* sequence.                                                               *)
LEMMA LeftIsThere ==
    ASSUME NEW base, NEW S, NEW seq \in Seq(S)
    PROVE  \E g : IsIter(g, base, seq)
<1> DEFINE P(k, g) == g = [s \in SUBSET (1 .. k) |->
                IF s = {} THEN base ELSE Op(g[s \ {Largest(s)}], seq[Largest(s)])]
           T == {k \in Nat : \E g : P(k, g)}
<1>1. 0 \in T
  <2> DEFINE g == [s \in SUBSET (1 .. 0) |-> base]
  <2>1. P(0, g)
    OBVIOUS
  <2> QED BY <2>1
<1>2. ASSUME NEW k \in Nat, k \in T PROVE k + 1 \in T
  <2>1. PICK g : P(k, g)
    BY <1>2
  <2> DEFINE gg == [s \in SUBSET (1 .. k + 1) |->
                    IF k + 1 \in s THEN Op(g[s \ {k + 1}], seq[k + 1]) ELSE g[s]]
  <2>2. ASSUME NEW s \in SUBSET (1 .. k + 1)
        PROVE  gg[s] = IF s = {} THEN base ELSE Op(gg[s \ {Largest(s)}], seq[Largest(s)])
    <3>1. CASE k + 1 \in s
      <4>1. Largest(s) = k + 1
        <5>1. k + 1 \in Nat /\ s # {} /\ \A y \in s : y \in Nat /\ y <= k + 1
          BY <3>1
        <5>2. Largest(s) \in s /\ Largest(s) >= k + 1
          BY <5>1, <3>1, MaxIsThere
        <5>3. Largest(s) \in Nat /\ Largest(s) <= k + 1
          BY <5>1, <5>2
        <5> QED BY <5>2, <5>3
      <4>2. gg[s \ {k + 1}] = g[s \ {k + 1}]
        OBVIOUS
      <4> QED BY <3>1, <4>1, <4>2
    <3>2. CASE s = {}
      BY <3>2, <2>1
    <3>3. CASE k + 1 \notin s /\ s # {}
      <4>1. s \in SUBSET (1 .. k)
        BY <3>3
      <4>2. gg[s] = g[s] /\ gg[s \ {Largest(s)}] = g[s \ {Largest(s)}]
        BY <3>3
      <4>3. g[s] = Op(g[s \ {Largest(s)}], seq[Largest(s)])
        BY <4>1, <3>3, <2>1
      <4> QED BY <3>3, <4>2, <4>3
    <3> QED BY <3>1, <3>2, <3>3
  <2>3. P(k + 1, gg)
    <3> DEFINE right == [s \in SUBSET (1 .. k + 1) |->
                    IF s = {} THEN base ELSE Op(gg[s \ {Largest(s)}], seq[Largest(s)])]
    <3>1. \A s \in SUBSET (1 .. k + 1) : gg[s] = right[s]
      <4> HIDE DEF gg
      <4> QED BY <2>2
    <3>2. DOMAIN gg = SUBSET (1 .. k + 1) /\ DOMAIN right = SUBSET (1 .. k + 1)
      OBVIOUS
    <3>3. gg = [s \in DOMAIN gg |-> gg[s]] /\ right = [s \in DOMAIN right |-> right[s]]
      OBVIOUS
    <3>4. gg = right
      <4> HIDE DEF gg, right
      <4> QED BY <3>1, <3>2, <3>3
    <3> QED BY <3>4
  <2>4. \E f : P(k + 1, f)
    <3> HIDE DEF gg, P
    <3> QED BY <2>3
  <2> HIDE DEF P
  <2> QED BY <2>4
<1>3. Len(seq) \in T
  <2> HIDE DEF T
  <2> QED BY <1>1, <1>2, InductionOverSet
<1>4. DOMAIN seq = 1 .. Len(seq)
  OBVIOUS
<1> QED BY <1>3, <1>4 DEF IsIter

(* FoldLeft takes one step for each element, in their order.               *)
LEMMA LeftSteps ==
    ASSUME NEW base, NEW S, NEW seq \in Seq(S)
    PROVE  \E h : Steps(h, base, seq) /\ FromLeft(base, seq) = h[Len(seq)]
<1> DEFINE iter == CHOOSE g : IsIter(g, base, seq)
           h == [k \in 0 .. Len(seq) |-> iter[1 .. k]]
<1>1. IsIter(iter, base, seq)
  BY LeftIsThere
<1>2. FromLeft(base, seq) = iter[DOMAIN seq]
  BY DEF FromLeft, IsIter
<1>3. Len(seq) \in Nat /\ DOMAIN seq = 1 .. Len(seq)
  OBVIOUS
<1>4. h[0] = base
  <2>1. 1 .. 0 = {}
    OBVIOUS
  <2> HIDE DEF iter
  <2> QED BY <1>1, <1>3, <2>1 DEF IsIter
<1>5. ASSUME NEW k \in 0 .. Len(seq) - 1 PROVE h[k + 1] = Op(h[k], seq[k + 1])
  <2>1. k \in Nat /\ k + 1 \in 0 .. Len(seq) /\ 1 .. k + 1 \in SUBSET DOMAIN seq
    BY <1>3
  <2>2. Largest(1 .. k + 1) = k + 1
    <3> DEFINE s == 1 .. k + 1
    <3>1. /\ s \in SUBSET (1 .. k + 1) /\ k + 1 \in Nat /\ k + 1 \in s
          /\ \A y \in s : y \in Nat /\ y <= k + 1
      BY <2>1
    <3> HIDE DEF s
    <3>2. Largest(s) \in s /\ Largest(s) >= k + 1
      BY <3>1, MaxIsThere
    <3>3. Largest(s) \in Nat /\ Largest(s) <= k + 1
      BY <3>1, <3>2
    <3> QED BY <2>1, <3>2, <3>3 DEF s
  <2>3. (1 .. k + 1) \ {k + 1} = 1 .. k /\ 1 .. k + 1 # {}
    <3> HIDE DEF iter, h
    <3>1. \A y : y \in (1 .. k + 1) \ {k + 1} <=> y \in 1 .. k
      BY <2>1
    <3>2. (1 .. k + 1) \ {k + 1} = 1 .. k
      <4> DEFINE A == (1 .. k + 1) \ {k + 1}
                 B == 1 .. k
      <4>1. \A y : y \in A <=> y \in B
        BY <3>1
      <4> HIDE DEF A, B
      <4>2. A = B
        BY <4>1
      <4> QED BY <4>2 DEF A, B
    <3>3. k + 1 \in 1 .. k + 1
      BY <2>1
    <3> QED BY <3>2, <3>3
  <2>4. iter[1 .. k + 1] = Op(iter[1 .. k], seq[k + 1])
    <3> HIDE DEF iter
    <3> QED BY <1>1, <2>1, <2>2, <2>3 DEF IsIter
  <2> HIDE DEF iter
  <2> QED BY <2>1, <2>4
<1> HIDE DEF iter
<1>6. FromLeft(base, seq) = h[Len(seq)]
  BY <1>2, <1>3
<1> HIDE DEF h
<1>7. Steps(h, base, seq)
  BY <1>4, <1>5 DEF Steps
<1> QED BY <1>6, <1>7

(* Two ways of counting the same steps agree.                              *)
LEMMA StepsAgree ==
    ASSUME NEW base, NEW S, NEW s \in Seq(S), NEW T, NEW t \in Seq(T), NEW g, NEW h,
           NEW n \in Nat, n <= Len(s), n <= Len(t), \A k \in 1 .. n : s[k] = t[k],
           Steps(g, base, s), Steps(h, base, t)
    PROVE  g[n] = h[n]
<1> DEFINE A == {k \in Nat : k <= n => g[k] = h[k]}
<1>1. 0 \in A
  BY DEF Steps
<1>2. ASSUME NEW k \in Nat, k \in A PROVE k + 1 \in A
  <2>1. CASE k + 1 <= n
    <3>1. k \in 0 .. Len(s) - 1 /\ k \in 0 .. Len(t) - 1 /\ k + 1 \in 1 .. n
      BY <2>1
    <3>2. g[k + 1] = Op(g[k], s[k + 1]) /\ h[k + 1] = Op(h[k], t[k + 1])
      BY <3>1 DEF Steps
    <3> QED BY <1>2, <2>1, <3>1, <3>2
  <2>2. CASE ~(k + 1 <= n)
    BY <2>2
  <2> QED BY <2>1, <2>2
<1>3. n \in A
  <2> HIDE DEF A
  <2> QED BY <1>1, <1>2, InductionOverSet
<1> QED BY <1>3

(* Nothing changes nothing.                                                *)
LEMMA LeftEmpty == \A base : FromLeft(base, <<>>) = base
<1> TAKE base
<1>1. PICK h : Steps(h, base, <<>>) /\ FromLeft(base, <<>>) = h[0]
  <2>1. <<>> \in Seq({}) /\ Len(<<>>) = 0
    OBVIOUS
  <2>2. \E h : Steps(h, base, <<>>) /\ FromLeft(base, <<>>) = h[Len(<<>>)]
    BY <2>1, LeftSteps
  <2> QED BY <2>1, <2>2, Zenon
<1> QED BY <1>1 DEF Steps

(* The last element is taken last, and the first first.                    *)
LEMMA LeftAppend ==
    ASSUME NEW base, NEW S, NEW seq \in Seq(S), NEW x \in S
    PROVE  FromLeft(base, Append(seq, x)) = Op(FromLeft(base, seq), x)
<1> DEFINE n == Len(seq)
           all == Append(seq, x)
<1>1. all \in Seq(S) /\ Len(all) = n + 1 /\ all[n + 1] = x /\ n \in Nat
      /\ \A k \in 1 .. n : all[k] = seq[k]
  OBVIOUS
<1> HIDE DEF all, n
<1>2. PICK g : Steps(g, base, seq) /\ FromLeft(base, seq) = g[n]
  BY LeftSteps DEF n
<1>3. PICK h : Steps(h, base, all) /\ FromLeft(base, all) = h[n + 1]
  BY <1>1, LeftSteps
<1>4. h[n + 1] = Op(h[n], x)
  <2>1. n \in 0 .. Len(all) - 1
    BY <1>1
  <2> QED BY <1>1, <1>3, <2>1 DEF Steps
<1>5. g[n] = h[n]
  <2>1. n <= Len(seq) /\ n <= Len(all) /\ \A k \in 1 .. n : seq[k] = all[k]
    BY <1>1 DEF n
  <2>2. Steps(g, base, seq) /\ Steps(h, base, all)
    BY <1>2, <1>3
  <2> QED BY <1>1, <2>1, <2>2, StepsAgree
<1> QED BY <1>2, <1>3, <1>4, <1>5 DEF all

(* To fold two sequences behind each other is to fold one and go on with   *)
(* the other.                                                              *)
LEMMA LeftConcat ==
    ASSUME NEW base, NEW S, NEW s \in Seq(S), NEW t \in Seq(S)
    PROVE  FromLeft(base, s \o t) = FromLeft(FromLeft(base, s), t)
<1> DEFINE A == {k \in Nat : \A u \in Seq(S) :
                    Len(u) = k => FromLeft(base, s \o u) = FromLeft(FromLeft(base, s), u)}
<1>1. 0 \in A
  <2>1. ASSUME NEW u \in Seq(S), Len(u) = 0
        PROVE  FromLeft(base, s \o u) = FromLeft(FromLeft(base, s), u)
    <3>1. u = <<>> /\ s \o u = s
      BY <2>1
    <3> QED BY <3>1, LeftEmpty
  <2> QED BY <2>1
<1>2. ASSUME NEW k \in Nat, k \in A PROVE k + 1 \in A
  <2>1. ASSUME NEW u \in Seq(S), Len(u) = k + 1
        PROVE  FromLeft(base, s \o u) = FromLeft(FromLeft(base, s), u)
    <3> DEFINE v == SubSeq(u, 1, k)
               x == u[k + 1]
    <3>1. v \in Seq(S) /\ Len(v) = k /\ x \in S
      BY <2>1
    <3>2. u = Append(v, x)
      BY <2>1, <3>1
    <3>3. s \o u = Append(s \o v, x) /\ s \o v \in Seq(S)
      BY <3>1, <3>2
    <3> HIDE DEF v, x
    <3>4. FromLeft(base, s \o u) = Op(FromLeft(base, s \o v), x)
      <4>1. FromLeft(base, Append(s \o v, x)) = Op(FromLeft(base, s \o v), x)
        BY <3>1, <3>3, LeftAppend
      <4> QED BY <4>1, <3>3
    <3>5. FromLeft(FromLeft(base, s), u) = Op(FromLeft(FromLeft(base, s), v), x)
      BY <3>1, <3>2, LeftAppend
    <3>6. FromLeft(base, s \o v) = FromLeft(FromLeft(base, s), v)
      BY <1>2, <3>1
    <3> QED BY <3>4, <3>5, <3>6
  <2> QED BY <2>1
<1>3. Len(t) \in A
  <2> HIDE DEF A
  <2> QED BY <1>1, <1>2, InductionOverSet
<1> QED BY <1>3

(* The first element is taken first.                                       *)
LEMMA LeftCons ==
    ASSUME NEW base, NEW S, NEW x \in S, NEW t \in Seq(S)
    PROVE  FromLeft(base, <<x>> \o t) = FromLeft(Op(base, x), t)
<1>1. <<x>> \in Seq(S) /\ <<x>> = Append(<<>>, x) /\ <<>> \in Seq(S)
  OBVIOUS
<1>2. FromLeft(base, Append(<<>>, x)) = Op(FromLeft(base, <<>>), x)
  BY <1>1, LeftAppend
<1>3. FromLeft(base, <<x>>) = Op(base, x)
  BY <1>1, <1>2, LeftEmpty
<1>4. FromLeft(base, <<x>> \o t) = FromLeft(FromLeft(base, <<x>>), t)
  <2> DEFINE s == <<x>>
  <2>1. s \in Seq(S)
    OBVIOUS
  <2> HIDE DEF s
  <2>2. FromLeft(base, s \o t) = FromLeft(FromLeft(base, s), t)
    BY <2>1, LeftConcat
  <2> QED BY <2>2 DEF s
<1> QED BY <1>3, <1>4

(* What every step keeps, all together keep.                               *)
LEMMA LeftType ==
    ASSUME NEW B, NEW base \in B, NEW S, NEW seq \in Seq(S),
           \A b \in B, x \in S : Op(b, x) \in B
    PROVE  FromLeft(base, seq) \in B
<1>1. PICK h : Steps(h, base, seq) /\ FromLeft(base, seq) = h[Len(seq)]
  BY LeftSteps
<1> DEFINE A == {k \in Nat : k <= Len(seq) => h[k] \in B}
<1>2. 0 \in A
  BY <1>1 DEF Steps
<1>3. ASSUME NEW k \in Nat, k \in A PROVE k + 1 \in A
  <2>1. CASE k + 1 <= Len(seq)
    <3>1. k \in 0 .. Len(seq) - 1 /\ seq[k + 1] \in S /\ k <= Len(seq)
      BY <2>1
    <3> QED BY <1>1, <1>3, <3>1 DEF Steps
  <2>2. CASE ~(k + 1 <= Len(seq))
    BY <2>2
  <2> QED BY <2>1, <2>2
<1>4. Len(seq) \in A
  <2> HIDE DEF A
  <2> QED BY <1>2, <1>3, InductionOverSet
<1> QED BY <1>1, <1>4
=============================================================================
