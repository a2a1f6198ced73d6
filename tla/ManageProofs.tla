----------------------------- MODULE ManageProofs -----------------------------
(***************************************************************************)
(* Facts about the lists and the operations of module LoadBalance, and the *)
(* theorems about module Balancer, for any finite set of hosts and any     *)
(* thresholds that meet the assumptions.  Then the theorems about module   *)
(* Manage, for any set of modules too, and any losses, pushes and changes  *)
(* of the DNS table.  Last, the agent implements RouteCache.               *)
(***************************************************************************)
EXTENDS Manage, Balancer, SequenceTheorems, FiniteSetTheorems, TLAPS

----------------------------------------------------------------------------
(* One balancer.                                                           *)

(* Moving the front of a list to its end keeps its elements.               *)
LEMMA RotateKeeps ==
    ASSUME NEW l \in Seq(Hosts), l # <<>>, NoRepeat(l)
    PROVE  /\ Rotate(l) \in Seq(Hosts)
           /\ NoRepeat(Rotate(l))
           /\ Elems(Rotate(l)) = Elems(l)
<1> DEFINE t == Tail(l)
           r == Rotate(l)
<1>1. /\ Len(l) \in Nat \ {0} /\ l[1] \in Hosts /\ Head(l) = l[1]
      /\ t \in Seq(Hosts) /\ Len(t) = Len(l) - 1
      /\ \A i \in 1 .. Len(t) : t[i] = l[i + 1]
  BY EmptySeq, HeadTailProperties, ElementOfSeq
<1>2. /\ r \in Seq(Hosts) /\ Len(r) = Len(l)
      /\ \A i \in 1 .. Len(l) : r[i] = IF i = Len(l) THEN l[1] ELSE l[i + 1]
  <2> HIDE DEF t
  <2>1. r = Append(t, l[1])
    BY <1>1 DEF Rotate, t
  <2>2. /\ r \in Seq(Hosts) /\ Len(r) = Len(t) + 1
        /\ \A i \in 1 .. Len(t) : r[i] = t[i]
        /\ r[Len(t) + 1] = l[1]
    <3> HIDE DEF r
    <3> QED  BY <1>1, <2>1
  <2> HIDE DEF r
  <2> QED  BY <1>1, <2>2
<1> HIDE DEF t, r
<1>3. NoRepeat(r)
  <2>1. SUFFICES ASSUME NEW i \in 1 .. Len(l), NEW j \in 1 .. Len(l), r[i] = r[j]
                 PROVE  i = j
    BY <1>2 DEF NoRepeat
  <2>2. \A a, b \in 1 .. Len(l) : l[a] = l[b] => a = b
    BY DEF NoRepeat
  <2>3. ASSUME NEW a \in 1 .. Len(l), NEW b \in 1 .. Len(l),
                r[a] = r[b], a = Len(l), b # Len(l)
         PROVE  FALSE
    <3>1. b + 1 \in 1 .. Len(l) /\ 1 \in 1 .. Len(l) /\ b + 1 # 1
      BY <1>1, <2>3
    <3>2. r[a] = l[1] /\ r[b] = l[b + 1]
      BY <1>2, <2>3
    <3>3. l[1] = l[b + 1]
      BY <2>3, <3>2
    <3> QED  BY <2>2, <3>1, <3>3
  <2>6. i = Len(l) <=> j = Len(l)
    BY <2>1, <2>3
  <2>4. CASE i = Len(l)
    BY <2>6, <2>4
  <2>5. CASE i # Len(l)
    <3>1. i + 1 \in 1 .. Len(l) /\ j + 1 \in 1 .. Len(l)
      BY <1>1, <2>6, <2>5
    <3>2. l[i + 1] = l[j + 1]
      BY <1>2, <2>1, <2>6, <2>5
    <3> QED  BY <1>1, <2>2, <3>1, <3>2
  <2> QED  BY <2>4, <2>5
<1>4. Elems(r) \subseteq Elems(l)
  BY <1>1, <1>2 DEF Elems
<1>5. ASSUME NEW i \in 1 .. Len(l) PROVE l[i] \in Elems(r)
  <2>1. CASE i = 1
    BY <1>1, <1>2, <2>1 DEF Elems
  <2>2. CASE i # 1
    <3>1. i - 1 \in 1 .. Len(r) /\ r[i - 1] = l[i]
      BY <1>1, <1>2, <2>2
    <3> QED  BY <3>1 DEF Elems
  <2> QED  BY <2>1, <2>2
<1> QED  BY <1>2, <1>3, <1>4, <1>5 DEF Elems, r

(* Adding a host at the end of a list that does not hold it.               *)
LEMMA AppendAdds ==
    ASSUME NEW l \in Seq(Hosts), NoRepeat(l), NEW h \in Hosts, h \notin Elems(l)
    PROVE  /\ Append(l, h) \in Seq(Hosts)
           /\ NoRepeat(Append(l, h))
           /\ Elems(Append(l, h)) = Elems(l) \cup {h}
<1> DEFINE a == Append(l, h)
<1>1. /\ a \in Seq(Hosts) /\ Len(l) \in Nat /\ Len(a) = Len(l) + 1
      /\ \A i \in 1 .. Len(l) : a[i] = l[i]
      /\ a[Len(l) + 1] = h
  OBVIOUS
<1>2. \A i \in 1 .. Len(l) : l[i] # h
  BY DEF Elems
<1>3. NoRepeat(a)
  BY <1>1, <1>2 DEF NoRepeat
<1>4. Elems(a) \subseteq Elems(l) \cup {h}
  BY <1>1 DEF Elems
<1>5. Elems(l) \cup {h} \subseteq Elems(a)
  BY <1>1 DEF Elems
<1> QED  BY <1>1, <1>3, <1>4, <1>5

(* Removing one host from a list.                                          *)
LEMMA WithoutRemoves ==
    ASSUME NEW l \in Seq(Hosts), NoRepeat(l), NEW h \in Hosts
    PROVE  /\ Without(l, h) \in Seq(Hosts)
           /\ NoRepeat(Without(l, h))
           /\ Elems(Without(l, h)) = Elems(l) \ {h}
<1>1. CASE h \notin Elems(l)
  BY <1>1 DEF Without
<1>2. CASE h \in Elems(l)
  <2> DEFINE k == CHOOSE i \in 1 .. Len(l) : l[i] = h
             p == SubSeq(l, 1, k - 1)
             q == SubSeq(l, k + 1, Len(l))
             w == p \o q
  <2>1. k \in 1 .. Len(l) /\ l[k] = h
    BY <1>2 DEF Elems
  <2>2. Len(l) \in Nat /\ \A i \in 1 .. Len(l) : l[i] \in Hosts
    BY LenProperties, ElementOfSeq
  <2> HIDE DEF k
  <2>3. /\ p \in Seq(Hosts) /\ Len(p) = k - 1
        /\ \A i \in 1 .. k - 1 : p[i] = l[i]
    <3>1. \A i \in 1 .. k - 1 : l[i] \in Hosts
      BY <2>1, <2>2
    <3> QED  BY <2>1, <2>2, <3>1, SubSeqProperties
  <2>4. /\ q \in Seq(Hosts) /\ Len(q) = Len(l) - k
        /\ \A i \in 1 .. Len(l) - k : q[i] = l[k + i]
    <3>1. \A i \in k + 1 .. Len(l) : l[i] \in Hosts
      BY <2>1, <2>2
    <3> QED  BY <2>1, <2>2, <3>1, SubSeqProperties
  <2> HIDE DEF p, q
  <2>5. /\ w \in Seq(Hosts) /\ Len(w) = Len(l) - 1
        /\ \A i \in 1 .. Len(l) - 1 : w[i] = IF i < k THEN l[i] ELSE l[i + 1]
    <3>1. /\ w \in Seq(Hosts) /\ Len(w) = Len(p) + Len(q)
          /\ \A i \in 1 .. Len(p) + Len(q) :
                w[i] = IF i <= Len(p) THEN p[i] ELSE q[i - Len(p)]
      BY <2>3, <2>4, ConcatProperties
    <3>2. Len(p) + Len(q) = Len(l) - 1
      BY <2>1, <2>2, <2>3, <2>4
    <3>3. ASSUME NEW i \in 1 .. Len(l) - 1
          PROVE  w[i] = IF i < k THEN l[i] ELSE l[i + 1]
      <4>1. CASE i < k
        BY <2>1, <2>2, <2>3, <3>1, <3>2, <4>1
      <4>2. CASE ~(i < k)
        <5>1. i - (k - 1) \in 1 .. Len(l) - k /\ k + (i - (k - 1)) = i + 1
          BY <2>1, <2>2, <4>2
        <5>2. w[i] = q[i - (k - 1)]
          BY <2>1, <2>2, <2>3, <3>1, <3>2, <4>2
        <5> QED  BY <2>4, <4>2, <5>1, <5>2
      <4> QED  BY <4>1, <4>2
    <3> QED  BY <3>1, <3>2, <3>3
  <2> HIDE DEF w
  <2>6. NoRepeat(w)
    BY <2>1, <2>2, <2>5 DEF NoRepeat
  <2>7. ASSUME NEW i \in 1 .. Len(w) PROVE w[i] \in Elems(l) \ {h}
    <3>1. CASE i < k
      BY <2>1, <2>2, <2>5, <3>1 DEF Elems, NoRepeat
    <3>2. CASE ~(i < k)
      <4>1. i + 1 \in 1 .. Len(l) /\ i + 1 # k /\ w[i] = l[i + 1]
        BY <2>1, <2>2, <2>5, <3>2
      <4> QED  BY <2>1, <4>1 DEF Elems, NoRepeat
    <3> QED  BY <3>1, <3>2
  <2>8. ASSUME NEW i \in 1 .. Len(l), l[i] # h PROVE l[i] \in Elems(w)
    <3>1. CASE i < k
      BY <2>1, <2>2, <2>5, <3>1 DEF Elems
    <3>2. CASE ~(i < k)
      <4>1. i - 1 \in 1 .. Len(w) /\ ~(i - 1 < k) /\ w[i - 1] = l[i]
        BY <2>1, <2>2, <2>5, <2>8, <3>2
      <4> QED  BY <4>1 DEF Elems
    <3> QED  BY <3>1, <3>2
  <2>9. Elems(w) = Elems(l) \ {h}
    BY <2>7, <2>8 DEF Elems
  <2>10. Without(l, h) = w
    BY <1>2 DEF Without, w, p, q, k
  <2> QED  BY <2>5, <2>6, <2>9, <2>10
<1> QED  BY <1>1, <1>2

(* Two lists without a common host, one after the other.                   *)
LEMMA ConcatAdds ==
    ASSUME NEW l \in Seq(Hosts), NoRepeat(l), NEW m \in Seq(Hosts), NoRepeat(m),
           Elems(l) \cap Elems(m) = {}
    PROVE  /\ l \o m \in Seq(Hosts)
           /\ NoRepeat(l \o m)
           /\ Elems(l \o m) = Elems(l) \cup Elems(m)
<1> DEFINE c == l \o m
<1>1. /\ Len(l) \in Nat /\ Len(m) \in Nat
      /\ c \in Seq(Hosts) /\ Len(c) = Len(l) + Len(m)
      /\ \A i \in 1 .. Len(l) + Len(m) :
            c[i] = IF i <= Len(l) THEN l[i] ELSE m[i - Len(l)]
  BY ConcatProperties, LenProperties
<1> HIDE DEF c
<1>2. \A i \in 1 .. Len(l), j \in 1 .. Len(m) : l[i] # m[j]
  BY DEF Elems
<1>3. NoRepeat(c)
  <2>1. SUFFICES ASSUME NEW i \in 1 .. Len(c), NEW j \in 1 .. Len(c), c[i] = c[j]
                 PROVE  i = j
    BY DEF NoRepeat
  <2>2. CASE i <= Len(l) /\ j <= Len(l)
    BY <1>1, <2>1, <2>2 DEF NoRepeat
  <2>3. CASE i > Len(l) /\ j > Len(l)
    <3>1. i - Len(l) \in 1 .. Len(m) /\ j - Len(l) \in 1 .. Len(m)
      BY <1>1, <2>3
    <3>2. m[i - Len(l)] = m[j - Len(l)]
      BY <1>1, <2>1, <2>3
    <3>3. i - Len(l) = j - Len(l)
      BY <3>1, <3>2 DEF NoRepeat
    <3> QED  BY <1>1, <3>3
  <2>4. CASE i <= Len(l) /\ j > Len(l)
    <3>1. i \in 1 .. Len(l) /\ j - Len(l) \in 1 .. Len(m)
      BY <1>1, <2>4
    <3>2. c[i] = l[i] /\ c[j] = m[j - Len(l)]
      BY <1>1, <2>4
    <3>. QED BY <1>2, <2>1, <3>1, <3>2
  <2>5. CASE i > Len(l) /\ j <= Len(l)
    <3>1. j \in 1 .. Len(l) /\ i - Len(l) \in 1 .. Len(m)
      BY <1>1, <2>5
    <3>2. c[j] = l[j] /\ c[i] = m[i - Len(l)]
      BY <1>1, <2>5
    <3>. QED BY <1>2, <2>1, <3>1, <3>2
  <2> QED  BY <1>1, <2>2, <2>3, <2>4, <2>5
<1>4. ASSUME NEW i \in 1 .. Len(c) PROVE c[i] \in Elems(l) \cup Elems(m)
  <2>1. CASE i <= Len(l)
    BY <1>1, <2>1 DEF Elems
  <2>2. CASE ~(i <= Len(l))
    <3>1. i - Len(l) \in 1 .. Len(m) /\ c[i] = m[i - Len(l)]
      BY <1>1, <2>2
    <3> QED  BY <3>1 DEF Elems
  <2> QED  BY <2>1, <2>2
<1>5. Elems(l) \subseteq Elems(c)
  BY <1>1 DEF Elems
<1>6. ASSUME NEW j \in 1 .. Len(m) PROVE m[j] \in Elems(c)
  <2> DEFINE i == Len(l) + j
  <2>1. i \in 1 .. Len(c) /\ ~(i <= Len(l)) /\ i - Len(l) = j
    BY <1>1
  <2>2. c[i] = m[j]
    BY <1>1, <2>1
  <2> QED  BY <2>1, <2>2 DEF Elems
<1>7. Elems(c) = Elems(l) \cup Elems(m)
  BY <1>4, <1>5, <1>6 DEF Elems
<1> QED  BY <1>1, <1>3, <1>7 DEF c

(* The orders of a set of hosts are the lists that hold exactly that set.  *)
LEMMA OrdersAreLists ==
    ASSUME NEW S \in SUBSET Hosts, NEW s \in Orders(S)
    PROVE  s \in Seq(Hosts) /\ NoRepeat(s) /\ Elems(s) = S
<1>1. IsFiniteSet(S) /\ Cardinality(S) \in Nat
  BY HostAssumption, FS_Subset, FS_CardinalityType
<1>2. s \in [1 .. Cardinality(S) -> S] /\ Elems(s) = S
      /\ \A i, j \in DOMAIN s : s[i] = s[j] => i = j
  BY DEF Orders
<1>3. s \in Seq(Hosts) /\ Len(s) = Cardinality(S)
  BY <1>1, <1>2
<1> QED  BY <1>2, <1>3 DEF NoRepeat

LEMMA RemaindersRemove ==
    ASSUME NEW l \in Seq(Hosts), NEW S, NEW s \in Remainders(l, S)
    PROVE  s \in Seq(Hosts) /\ NoRepeat(s) /\ Elems(s) = Elems(l) \ S
<1>1. Elems(l) \in SUBSET Hosts
  BY ElementOfSeq DEF Elems
<1>2. Elems(l) \ S \in SUBSET Hosts /\ s \in Orders(Elems(l) \ S)
  BY <1>1 DEF Remainders
<1> QED  BY <1>2, OrdersAreLists

LEMMA ElemsAreHosts ==
    ASSUME NEW l \in Seq(Hosts)
    PROVE  Elems(l) \subseteq Hosts
BY ElementOfSeq DEF Elems

----------------------------------------------------------------------------
(* The statistics keep their type.                                         *)
LEMMA AdjustedInfoType ==
    ASSUME NEW hi \in HostInfoType, NEW ok \in BOOLEAN
    PROVE  AdjustedInfo(hi, ok) \in HostInfoType
<1>1. IdleInfo \in HostInfoType /\ OverloadInfo \in HostInfoType
  BY CountAssumption DEF IdleInfo, OverloadInfo, HostInfoType
<1>2. CountCall(hi, ok) \in HostInfoType
  <2>1. /\ hi.vsucc + 1 \in Nat /\ hi.rsucc + 1 \in Nat /\ hi.continSucc + 1 \in Nat
        /\ hi.verr + 1 \in Nat /\ hi.rerr + 1 \in Nat /\ hi.continErr + 1 \in Nat
    BY DEF HostInfoType
  <2>2. CountSuccess(hi) \in HostInfoType
    BY <2>1, Zenon DEF CountSuccess, HostInfoType
  <2>3. CountFailure(hi) \in HostInfoType
    BY <2>1 DEF CountFailure, HostInfoType
  <2> QED  BY <2>2, <2>3 DEF CountCall
<1>3. \A c \in HostInfoType : WindowInfo(c) \in HostInfoType
  BY <1>1 DEF WindowInfo
<1> HIDE DEF HostInfoType
<1> QED  BY <1>1, <1>2, <1>3, Zenon DEF AdjustedInfo

LEMMA NewInfoType == NewInfo \in HostInfoType
BY CountAssumption DEF NewInfo, IdleInfo, HostInfoType

(* A new object is well placed: both lists and the map are empty.          *)
LEMMA NewKeeps ==
    ASSUME NEW cnt \in Nat
    PROVE  NewBalancer(cnt) \in BalancerType /\ WellPlaced(NewBalancer(cnt))
<1> DEFINE b == NewBalancer(cnt)
<1>1. b \in BalancerType
  BY NewInfoType, EmptySeq DEF NewBalancer, BalancerType
<1>2. Len(<<>>) = 0 /\ Elems(<<>>) = {} /\ NoRepeat(<<>>)
  BY DEF Elems, NoRepeat
<1>3. b.idle = <<>> /\ b.over = <<>> /\ b.hostMap = {} /\ b.freed = {}
  BY DEF NewBalancer
<1> QED  BY <1>1, <1>2, <1>3 DEF WellPlaced, Live

(* choiceOneHost only rotates a list.                                      *)
LEMMA ChoiceKeeps ==
    ASSUME NEW b \in BalancerType, WellPlaced(b), ~ChoiceIsUndefined(b)
    PROVE  ChoiceOneHost(b) \in BalancerType /\ WellPlaced(ChoiceOneHost(b))
<1> DEFINE n == ChoiceOneHost(b)
<1>1. /\ b.idle \in Seq(Hosts) /\ NoRepeat(b.idle)
      /\ b.over \in Seq(Hosts) /\ NoRepeat(b.over)
      /\ b.accessCnt \in Nat
  BY DEF BalancerType, WellPlaced
<1>2. CASE Refuses(b)
  BY <1>1, <1>2 DEF ChoiceOneHost, Refused, BalancerType, WellPlaced, Live
<1>3. CASE ~Refuses(b) /\ Probes(b)
  <2>1. b.over # <<>>
    BY <1>3 DEF ChoiceIsUndefined
  <2>2. n = [b EXCEPT !.accessCnt = 0, !.over = Rotate(b.over)]
    BY <1>3 DEF ChoiceOneHost, Probed
  <2> DEFINE r == Rotate(b.over)
  <2>3. r \in Seq(Hosts) /\ NoRepeat(r) /\ Elems(r) = Elems(b.over)
    BY <1>1, <2>1, RotateKeeps
  <2> HIDE DEF r, n
  <2>4. /\ n.idle = b.idle /\ n.over = r /\ n.info = b.info
        /\ n.hostMap = b.hostMap /\ n.freed = b.freed
    BY <2>2 DEF BalancerType, r
  <2>5. n \in BalancerType
    BY <1>1, <2>2, <2>3 DEF BalancerType, r
  <2>6. WellPlaced(n)
    BY <2>3, <2>4 DEF WellPlaced, Live
  <2> QED  BY <2>5, <2>6 DEF n
<1>4. CASE ~Refuses(b) /\ ~Probes(b)
  <2>1. b.idle # <<>>
    BY <1>1, <1>4, ProbeAssumption DEF Refuses, Probes
  <2> DEFINE c == IF b.over = <<>> THEN b.accessCnt ELSE b.accessCnt + 1
  <2>2. n = [b EXCEPT !.accessCnt = c, !.idle = Rotate(b.idle)] /\ c \in Nat
    BY <1>1, <1>4 DEF ChoiceOneHost, Served
  <2> HIDE DEF c
  <2> DEFINE r == Rotate(b.idle)
  <2>3. r \in Seq(Hosts) /\ NoRepeat(r) /\ Elems(r) = Elems(b.idle)
    BY <1>1, <2>1, RotateKeeps
  <2> HIDE DEF r, n
  <2>4. /\ n.over = b.over /\ n.idle = r /\ n.info = b.info
        /\ n.hostMap = b.hostMap /\ n.freed = b.freed
    BY <2>2 DEF BalancerType, r
  <2>5. n \in BalancerType
    BY <1>1, <2>2, <2>3 DEF BalancerType, r
  <2>6. WellPlaced(n)
    BY <2>3, <2>4 DEF WellPlaced, Live
  <2> QED  BY <2>5, <2>6 DEF n
<1> QED  BY <1>2, <1>3, <1>4

(* adjustHostWhereTo moves a host exactly when its flag changes.           *)
LEMMA AdjustKeeps ==
    ASSUME NEW b \in BalancerType, WellPlaced(b), NEW h \in Hosts,
           NEW ok \in BOOLEAN, ~AdjustIsUndefined(b, h)
    PROVE  /\ AdjustHostWhereTo(b, h, ok) \in BalancerType
           /\ WellPlaced(AdjustHostWhereTo(b, h, ok))
<1> DEFINE n == AdjustHostWhereTo(b, h, ok)
           hi == AdjustedInfo(b.info[h], ok)
<1>1. CASE h \notin b.hostMap
  BY <1>1 DEF AdjustHostWhereTo
<1>2. CASE h \in b.hostMap
  <2>1. /\ b.idle \in Seq(Hosts) /\ NoRepeat(b.idle)
        /\ b.over \in Seq(Hosts) /\ NoRepeat(b.over)
        /\ b.info \in [Hosts -> HostInfoType]
        /\ b.hostMap \subseteq Hosts /\ b.freed \subseteq b.hostMap
    BY DEF BalancerType, WellPlaced
  <2>2. hi \in HostInfoType /\ b.info[h] \in HostInfoType
    BY <2>1, AdjustedInfoType
  <2> HIDE DEF hi
  <2>3. h \in Live(b)
    BY <1>2 DEF AdjustIsUndefined, Live
  <2>4. CASE hi.overload = b.info[h].overload
    <3>1. n = [b EXCEPT !.info[h] = hi]
      BY <1>2, <2>4 DEF AdjustHostWhereTo, hi, BalancerType
    <3>2. n \in BalancerType
      BY <2>1, <2>2, <3>1 DEF BalancerType
    <3>3. /\ n.idle = b.idle /\ n.over = b.over /\ Live(n) = Live(b)
          /\ n.hostMap = b.hostMap /\ n.freed = b.freed
          /\ \A g \in Hosts : n.info[g].overload = b.info[g].overload
      BY <2>1, <2>2, <2>4, <3>1 DEF BalancerType, Live
    <3>4. Live(b) \subseteq Hosts
      BY <2>1 DEF Live
    <3> QED  BY <3>2, <3>3, <3>4 DEF WellPlaced
  <2>5. CASE hi.overload /\ ~b.info[h].overload
    <3>1. n = [b EXCEPT !.info[h] = hi, !.idle = Without(b.idle, h),
                        !.over = Append(b.over, h)]
      BY <1>2, <2>5 DEF AdjustHostWhereTo, hi
    <3>2. h \notin Elems(b.over)
      BY <2>5 DEF WellPlaced
    <3> DEFINE a == Append(b.over, h)
               w == Without(b.idle, h)
    <3>3. a \in Seq(Hosts) /\ NoRepeat(a) /\ Elems(a) = Elems(b.over) \cup {h}
      BY <2>1, <3>2, AppendAdds
    <3>4. w \in Seq(Hosts) /\ NoRepeat(w) /\ Elems(w) = Elems(b.idle) \ {h}
      BY <2>1, WithoutRemoves
    <3> HIDE DEF a, w, n
    <3>5. n \in BalancerType
      BY <2>1, <2>2, <3>1, <3>3, <3>4 DEF BalancerType, a, w
    <3>6. /\ n.idle = w /\ n.over = a
          /\ Live(n) = Live(b) /\ n.hostMap = b.hostMap /\ n.freed = b.freed
          /\ n.info[h] = hi
          /\ \A g \in Hosts \ {h} : n.info[g] = b.info[g]
      BY <2>1, <2>2, <2>5, <3>1 DEF BalancerType, Live, a, w
    <3>7. Live(b) \subseteq Hosts
      BY <2>1 DEF Live
    <3>8. WellPlaced(n)
      BY <2>3, <2>5, <3>3, <3>4, <3>6, <3>7 DEF WellPlaced
    <3> QED  BY <3>5, <3>8 DEF n
  <2>6. CASE ~hi.overload /\ b.info[h].overload
    <3>1. n = [b EXCEPT !.info[h] = hi, !.idle = Append(b.idle, h),
                        !.over = Without(b.over, h)]
      BY <1>2, <2>6 DEF AdjustHostWhereTo, hi
    <3>2. h \notin Elems(b.idle)
      BY <2>6 DEF WellPlaced
    <3> DEFINE a == Append(b.idle, h)
               w == Without(b.over, h)
    <3>3. a \in Seq(Hosts) /\ NoRepeat(a) /\ Elems(a) = Elems(b.idle) \cup {h}
      BY <2>1, <3>2, AppendAdds
    <3>4. w \in Seq(Hosts) /\ NoRepeat(w) /\ Elems(w) = Elems(b.over) \ {h}
      BY <2>1, WithoutRemoves
    <3> HIDE DEF a, w, n
    <3>5. n \in BalancerType
      BY <2>1, <2>2, <3>1, <3>3, <3>4 DEF BalancerType, a, w
    <3>6. /\ n.idle = a /\ n.over = w
          /\ Live(n) = Live(b) /\ n.hostMap = b.hostMap /\ n.freed = b.freed
          /\ n.info[h] = hi
          /\ \A g \in Hosts \ {h} : n.info[g] = b.info[g]
      BY <2>1, <2>2, <2>6, <3>1 DEF BalancerType, Live, a, w
    <3>7. Live(b) \subseteq Hosts
      BY <2>1 DEF Live
    <3>8. WellPlaced(n)
      BY <2>3, <2>6, <3>3, <3>4, <3>6, <3>7 DEF WellPlaced
    <3> QED  BY <3>5, <3>8 DEF n
  <2> QED  BY <2>2, <2>4, <2>5, <2>6 DEF HostInfoType
<1> QED  BY <1>1, <1>2

(* updateLocalHostsFromDns adds live hosts to the idle list and deletes    *)
(* hosts that are live, each from the list it is in.                       *)
LEMMA UpdateKeeps ==
    ASSUME NEW b \in BalancerType, WellPlaced(b), NEW rsp \in SUBSET Hosts,
           NEW n \in UpdateLocalHostsFromDns(b, rsp)
    PROVE  n \in BalancerType /\ WellPlaced(n)
<1>1. PICK added \in Orders(rsp \ b.hostMap) :
            n \in DeleteHosts(AddHosts(b, added), Missing(b, rsp))
  BY DEF UpdateLocalHostsFromDns
<1> DEFINE S == Missing(b, rsp)
           a == AddHosts(b, added)
<1>2. /\ b.idle \in Seq(Hosts) /\ NoRepeat(b.idle)
      /\ b.over \in Seq(Hosts) /\ NoRepeat(b.over)
      /\ b.info \in [Hosts -> HostInfoType]
      /\ b.hostMap \subseteq Hosts /\ b.freed \subseteq b.hostMap
  BY DEF BalancerType, WellPlaced
<1>3. added \in Seq(Hosts) /\ NoRepeat(added) /\ Elems(added) = rsp \ b.hostMap
  BY OrdersAreLists
<1> DEFINE q == b.idle \o added
<1>4. q \in Seq(Hosts) /\ NoRepeat(q) /\ Elems(q) = Elems(b.idle) \cup Elems(added)
  <2>1. Elems(b.idle) \cap Elems(added) = {}
    BY <1>3 DEF WellPlaced, Live
  <2> QED  BY <1>2, <1>3, <2>1, ConcatAdds
<1> HIDE DEF q, a, S
<1> DEFINE g == [h \in Hosts |-> IF h \in Elems(added) THEN NewInfo ELSE b.info[h]]
<1>5. g \in [Hosts -> HostInfoType]
  BY <1>2, NewInfoType
<1> HIDE DEF g
<1>6. a = [b EXCEPT !.hostMap = b.hostMap \cup Elems(added), !.info = g, !.idle = q]
  BY DEF a, q, g, AddHosts
<1>7. /\ a.hostMap = b.hostMap \cup rsp /\ a.freed = b.freed
      /\ a.info = g /\ a.idle = q /\ a.over = b.over
  BY <1>3, <1>6 DEF BalancerType
<1>8. a \in BalancerType
  <2>1. b.hostMap \cup Elems(added) \in SUBSET Hosts
    BY <1>2, <1>3
  <2> QED  BY <1>4, <1>5, <1>6, <2>1 DEF BalancerType
<1> DEFINE f == [h \in Hosts |-> IF h \in S THEN NewInfo ELSE a.info[h]]
<1>9. f \in [Hosts -> HostInfoType]
  BY <1>5, <1>7, NewInfoType
<1>10. PICK i \in Remainders(a.idle, S), o \in Remainders(a.over, S) :
            n = [a EXCEPT !.freed = a.freed \cup S, !.info = f, !.idle = i, !.over = o]
  <2>1. n \in DeleteHosts(a, S)
    BY <1>1 DEF S, a
  <2> DEFINE D(x, y) ==
          [a EXCEPT !.freed = a.freed \cup S, !.info = f, !.idle = x, !.over = y]
  <2>2. DeleteHosts(a, S) =
          {D(x, y) : x \in Remainders(a.idle, S), y \in Remainders(a.over, S)}
    BY DEF DeleteHosts
  <2> HIDE DEF f, D
  <2>3. \E x \in Remainders(a.idle, S), y \in Remainders(a.over, S) : n = D(x, y)
    BY <2>1, <2>2
  <2> QED  BY <2>3 DEF D
<1>11. /\ i \in Seq(Hosts) /\ NoRepeat(i) /\ Elems(i) = Elems(q) \ S
       /\ o \in Seq(Hosts) /\ NoRepeat(o) /\ Elems(o) = Elems(b.over) \ S
  BY <1>2, <1>4, <1>7, RemaindersRemove
<1>12. S \subseteq b.hostMap /\ S \cap rsp = {} /\ b.hostMap \ S \subseteq rsp
  BY DEF S, Missing
<1>13. \A h \in Hosts : f[h] = IF h \in rsp \ b.hostMap \/ h \in S
                              THEN NewInfo ELSE b.info[h]
  BY <1>3, <1>7 DEF g
<1> HIDE DEF f
<1>14. n \in BalancerType
  <2>1. a.freed \cup S \in SUBSET Hosts
    BY <1>2, <1>7, <1>12
  <2> QED  BY <1>8, <1>9, <1>10, <1>11, <2>1 DEF BalancerType
<1>15. /\ n.hostMap = b.hostMap \cup rsp /\ n.freed = b.freed \cup S
       /\ n.idle = i /\ n.over = o /\ n.info = f
  BY <1>7, <1>8, <1>10 DEF BalancerType
<1>16. ~NewInfo.overload
  BY DEF NewInfo, IdleInfo
<1>17. Live(n) = (Live(b) \ S) \cup (rsp \ b.hostMap) /\ n.freed \subseteq n.hostMap
  BY <1>2, <1>12, <1>15 DEF Live
<1>18. Elems(i) = {h \in Live(n) : ~n.info[h].overload}
  <2>1. Elems(i) = ({h \in Live(b) : ~b.info[h].overload} \cup (rsp \ b.hostMap)) \ S
    BY <1>3, <1>4, <1>11 DEF WellPlaced
  <2> QED  BY <1>2, <1>12, <1>13, <1>15, <1>16, <1>17, <2>1 DEF Live
<1>19. Elems(o) = {h \in Live(n) : n.info[h].overload}
  <2>1. Elems(o) = {h \in Live(b) : b.info[h].overload} \ S
    BY <1>11 DEF WellPlaced
  <2> QED  BY <1>2, <1>12, <1>13, <1>15, <1>16, <1>17, <2>1 DEF Live
<1> QED  BY <1>11, <1>14, <1>15, <1>17, <1>18, <1>19 DEF WellPlaced

(* What an update leaves: the keys and the deleted objects grow, hosts of  *)
(* the answer without a key start anew, and those it misses are cleared.   *)
LEMMA UpdateEffect ==
    ASSUME NEW b \in BalancerType, NEW rsp \in SUBSET Hosts,
           NEW n \in UpdateLocalHostsFromDns(b, rsp)
    PROVE  /\ n.hostMap = b.hostMap \cup rsp
           /\ n.freed = b.freed \cup Missing(b, rsp)
           /\ n.accessCnt = b.accessCnt
           /\ \A h \in Hosts :
                 n.info[h] = IF h \in Missing(b, rsp) \/ h \in rsp \ b.hostMap
                             THEN NewInfo ELSE b.info[h]
<1>1. PICK added \in Orders(rsp \ b.hostMap) :
            n \in DeleteHosts(AddHosts(b, added), Missing(b, rsp))
  BY DEF UpdateLocalHostsFromDns
<1> DEFINE a == AddHosts(b, added)
           S == Missing(b, rsp)
           f == [g \in Hosts |-> IF g \in S THEN NewInfo ELSE a.info[g]]
           D(x, y) == [a EXCEPT !.freed = a.freed \cup S, !.info = f,
                                !.idle = x, !.over = y]
<1>2. Elems(added) = rsp \ b.hostMap
  BY OrdersAreLists
<1>3. /\ a.hostMap = b.hostMap \cup rsp /\ a.freed = b.freed
      /\ a.accessCnt = b.accessCnt
      /\ \A g \in Hosts : a.info[g] = IF g \in rsp \ b.hostMap THEN NewInfo
                                       ELSE b.info[g]
  BY <1>2 DEF AddHosts, BalancerType
<1>4. a = [b EXCEPT !.hostMap = a.hostMap, !.info = a.info, !.idle = a.idle]
  BY DEF AddHosts, BalancerType
<1>5. DeleteHosts(a, S) =
        {D(x, y) : x \in Remainders(a.idle, S), y \in Remainders(a.over, S)}
  BY DEF DeleteHosts
<1>6. n \in DeleteHosts(a, S)
  BY <1>1
<1> HIDE DEF D, a, S
<1>7. \E x \in Remainders(a.idle, S), y \in Remainders(a.over, S) : n = D(x, y)
  BY <1>5, <1>6
<1> HIDE DEF f
<1>8. /\ n.hostMap = a.hostMap /\ n.freed = a.freed \cup S /\ n.info = f
      /\ n.accessCnt = a.accessCnt
  BY <1>4, <1>7 DEF D, BalancerType
<1>. QED BY <1>3, <1>8 DEF f, S

(* So the live hosts after an update: those the answer still names, and    *)
(* those it names that had no key.                                         *)
LEMMA LiveAfterUpdate ==
    ASSUME NEW b \in BalancerType, WellPlaced(b), NEW rsp \in SUBSET Hosts,
           NEW n \in UpdateLocalHostsFromDns(b, rsp)
    PROVE  Live(n) = (Live(b) \cap rsp) \cup (rsp \ b.hostMap)
<1>1. b.freed \subseteq b.hostMap
  BY DEF WellPlaced
<1>. QED BY <1>1, UpdateEffect DEF Live, Missing

(* No other operation makes a host live or deletes one.                    *)
LEMMA ChoiceLive ==
    ASSUME NEW b \in BalancerType
    PROVE  /\ ChoiceOneHost(b).hostMap = b.hostMap
           /\ Live(ChoiceOneHost(b)) = Live(b)
BY DEF ChoiceOneHost, Refused, Probed, Served, BalancerType, Live

LEMMA AdjustLive ==
    ASSUME NEW b \in BalancerType, NEW h, NEW ok
    PROVE  /\ AdjustHostWhereTo(b, h, ok).hostMap = b.hostMap
           /\ Live(AdjustHostWhereTo(b, h, ok)) = Live(b)
BY DEF AdjustHostWhereTo, BalancerType, Live

LEMMA ExpireLive ==
    ASSUME NEW b \in BalancerType, NEW h
    PROVE  LET n == [b EXCEPT !.info[h].expired = TRUE]
           IN  n.hostMap = b.hostMap /\ Live(n) = Live(b)
BY DEF BalancerType, Live

(* A timeout changes no flag and moves no host.                            *)
LEMMA ExpireKeeps ==
    ASSUME NEW b \in BalancerType, WellPlaced(b), NEW h \in Hosts
    PROVE  LET n == [b EXCEPT !.info[h].expired = TRUE]
           IN  n \in BalancerType /\ WellPlaced(n) /\ n.hostMap = b.hostMap
<1> DEFINE n == [b EXCEPT !.info[h].expired = TRUE]
           hi == [b.info[h] EXCEPT !.expired = TRUE]
<1>1. b.info[h] \in HostInfoType
  BY DEF BalancerType
<1>2. hi \in HostInfoType /\ hi.overload = b.info[h].overload
  BY <1>1 DEF HostInfoType
<1>3. n = [b EXCEPT !.info[h] = hi]
  BY DEF BalancerType
<1> HIDE DEF hi, n
<1>4. n \in BalancerType
  <2>1. [b.info EXCEPT ![h] = hi] \in [Hosts -> HostInfoType]
    BY <1>1, <1>2 DEF BalancerType
  <2> QED  BY <1>3, <2>1 DEF BalancerType
<1>5. /\ n.idle = b.idle /\ n.over = b.over /\ n.freed = b.freed
      /\ n.hostMap = b.hostMap
      /\ \A g \in Hosts : n.info[g].overload = b.info[g].overload
  BY <1>2, <1>3 DEF BalancerType
<1>6. Live(b) \subseteq Hosts
  BY DEF BalancerType, Live
<1>7. WellPlaced(n)
  BY <1>5, <1>6 DEF WellPlaced, Live
<1> QED  BY <1>4, <1>5, <1>7 DEF n

----------------------------------------------------------------------------
(* The inductive invariant is the type and the placement of the hosts; it  *)
(* then keeps what the statistics of a live host satisfy.                  *)
BalancerInv == BalancerTypeOK /\ ListsPlaceHosts

USE DEF Answer, BecomesUndefined, GetHost

LEMMA InitBalancer == BalancerInit => BalancerInv
<1>1. 0 .. ProbeNum \subseteq Nat /\ ProbeNum \in 0 .. ProbeNum
  BY ProbeAssumption
<1> QED  BY <1>1, NewKeeps DEF BalancerInit, BalancerInv, BalancerTypeOK, ListsPlaceHosts

LEMMA ChoiceInv ==
    ASSUME BalancerInv, GetHostRefused \/ GetHostProbed \/ GetHostServed
    PROVE  BalancerInv'
<1>1. /\ lb' = ChoiceOneHost(lb) /\ reply' = ChosenHost(lb) /\ undefined' = undefined
      /\ gap' = 0 \/ CountGap
  BY DEF GetHostRefused, GetHostProbed, GetHostServed
<1>2. ~ChoiceIsUndefined(lb)
  <2>1. lb.accessCnt \in Nat
    BY DEF BalancerInv, BalancerTypeOK, BalancerType
  <2>2. Refuses(lb) => ~Probes(lb)
    BY <2>1, ProbeAssumption DEF Refuses, Probes
  <2> QED  BY <2>2 DEF GetHostRefused, GetHostProbed, GetHostServed,
                       ChoiceIsUndefined, Serves
<1>3. lb' \in BalancerType /\ WellPlaced(lb)'
  BY <1>1, <1>2, ChoiceKeeps DEF BalancerInv, BalancerTypeOK, ListsPlaceHosts
<1>4. gap' \in 0 .. ProbeNum
  BY <1>1, ProbeAssumption DEF CountGap, BalancerInv, BalancerTypeOK
<1>5. ChosenHost(lb) \in Hosts \cup {NoHost}
  <2>1. /\ lb.over \in Seq(Hosts) /\ lb.idle \in Seq(Hosts) /\ lb.accessCnt \in Nat
    BY DEF BalancerInv, BalancerTypeOK, BalancerType
  <2>2. lb.over # <<>> => Head(lb.over) \in Hosts
    BY <2>1, HeadTailProperties
  <2>3. lb.idle # <<>> => Head(lb.idle) \in Hosts
    BY <2>1, HeadTailProperties
  <2>4. Probes(lb) => lb.over # <<>>
    BY <1>2 DEF ChoiceIsUndefined
  <2>5. ~Refuses(lb) /\ ~Probes(lb) => lb.idle # <<>>
    BY <2>1, ProbeAssumption DEF Refuses, Probes
  <2> QED  BY <2>2, <2>3, <2>4, <2>5 DEF ChosenHost
<1> QED  BY <1>1, <1>3, <1>4, <1>5 DEF BalancerInv, BalancerTypeOK, ListsPlaceHosts

LEMMA ReportInv ==
    ASSUME BalancerInv, NEW h \in Hosts, NEW ok \in BOOLEAN, Report(h, ok)
    PROVE  BalancerInv'
<1>1. lb' \in BalancerType /\ WellPlaced(lb)'
  BY AdjustKeeps DEF BalancerInv, BalancerTypeOK, ListsPlaceHosts, Report
<1> QED  BY <1>1 DEF BalancerInv, BalancerTypeOK, ListsPlaceHosts, Report

LEMMA UpdateInv ==
    ASSUME BalancerInv, NEW rsp \in Answers, Update(rsp)
    PROVE  BalancerInv'
<1>1. rsp \in SUBSET Hosts /\ lb' \in UpdateLocalHostsFromDns(lb, rsp)
  BY DEF Answers, Update
<1>2. lb' \in BalancerType /\ WellPlaced(lb)'
  BY <1>1, UpdateKeeps DEF BalancerInv, BalancerTypeOK, ListsPlaceHosts
<1> QED  BY <1>2 DEF BalancerInv, BalancerTypeOK, ListsPlaceHosts, Update

LEMMA HostExpiresInv ==
    ASSUME BalancerInv, NEW h \in Hosts, HostExpires(h)
    PROVE  BalancerInv'
<1>1. lb' = [lb EXCEPT !.info[h].expired = TRUE]
  BY DEF HostExpires
<1>2. lb' \in BalancerType /\ WellPlaced(lb')
  BY <1>1, ExpireKeeps DEF BalancerInv, BalancerTypeOK, ListsPlaceHosts
<1> QED  BY <1>2 DEF BalancerInv, BalancerTypeOK, ListsPlaceHosts, HostExpires

LEMMA UndefinedInv ==
    ASSUME BalancerInv, BecomesUndefined
    PROVE  BalancerInv'
BY DEF BalancerInv, BalancerTypeOK, ListsPlaceHosts

LEMMA NextBalancer == BalancerInv /\ [BalancerNext]_balancerVars => BalancerInv'
<1> SUFFICES ASSUME BalancerInv, [BalancerNext]_balancerVars PROVE BalancerInv'
  OBVIOUS
<1>1. CASE GetHostRefused \/ GetHostProbed \/ GetHostServed
  BY <1>1, ChoiceInv
<1>2. CASE \E h \in Hosts, ok \in BOOLEAN : Report(h, ok)
  BY <1>2, ReportInv
<1>3. CASE \E rsp \in Answers : Update(rsp)
  BY <1>3, UpdateInv
<1>4. CASE \E h \in Hosts : HostExpires(h)
  BY <1>4, HostExpiresInv
<1>5. CASE BecomesUndefined
  BY <1>5, UndefinedInv
<1>6. CASE UNCHANGED balancerVars
  BY <1>6 DEF balancerVars, BalancerInv, BalancerTypeOK, ListsPlaceHosts
<1> QED  BY <1>1, <1>2, <1>3, <1>4, <1>5, <1>6
         DEF BalancerNext, GetHostUndefined, ReportUndefined, UpdateUndefined, GetRouteUndefined

(* Types are kept in every execution.                                      *)
THEOREM BalancerTypeCorrect == BalancerSpec => []BalancerTypeOK
<1>1. BalancerInv => BalancerTypeOK
  BY DEF BalancerInv
<1> QED  BY <1>1, InitBalancer, NextBalancer, PTL DEF BalancerSpec

(* Whatever is reported, asked and answered, in any order and number, each *)
(* live host is in exactly the list its _overload flag names, once.        *)
THEOREM ListsCorrect == BalancerSpec => []ListsPlaceHosts
<1>1. BalancerInv => ListsPlaceHosts
  BY DEF BalancerInv
<1> QED  BY <1>1, InitBalancer, NextBalancer, PTL DEF BalancerSpec

----------------------------------------------------------------------------
(* What holds of the statistics of every live host.                        *)
Sound(hi) == ~VerdictIsDue(hi) /\ CountersMatch(hi)

AllSound == \A h \in Live(lb) : Sound(lb.info[h])

LEMMA FreshSound == Sound(IdleInfo) /\ Sound(OverloadInfo) /\ Sound(NewInfo)
<1>1. /\ 0 * ErrDen = 0 /\ 0 * SuccDen = 0
      /\ ErrNum * (InitSucc + 0) >= 0 /\ SuccNum * (0 + InitErr) >= 0
  <2>1. \A m, n \in Nat : m * n \in Nat
    OBVIOUS
  <2> QED  BY <2>1, CountAssumption, RateAssumption
<1> QED  BY <1>1, CountAssumption, RateAssumption
         DEF Sound, VerdictIsDue, CountersMatch, FailsTooOften, SucceedsEnough,
             IdleInfo, OverloadInfo, NewInfo

LEMMA GrowingTotal ==
    ASSUME NEW k \in Nat, NEW v \in Nat, NEW e \in Nat
    PROVE  /\ k * (v + e) <= k * (v + 1 + e)
           /\ k * (v + e) <= k * (v + (e + 1))
<1>1. k * (v + 1 + e) = k * (v + e) + k /\ k * (v + (e + 1)) = k * (v + e) + k
  OBVIOUS
<1>2. k * (v + e) \in Nat
  OBVIOUS
<1> QED  BY <1>1, <1>2

(* Counting a call keeps the counters matched.                             *)
LEMMA CountMatch ==
    ASSUME NEW hi \in HostInfoType, CountersMatch(hi), NEW ok \in BOOLEAN
    PROVE  CountersMatch(CountCall(hi, ok))
<1>1. CASE ok
  BY <1>1, CountAssumption
  DEF CountCall, CountSuccess, CountersMatch, HostInfoType
<1>2. CASE ~ok
  BY <1>2, CountAssumption
  DEF CountCall, CountFailure, CountersMatch, HostInfoType
<1> QED  BY <1>1, <1>2

(* A call that leads to no verdict leaves none due: a success cannot make  *)
(* an idle host fail too often, nor a failure an overloaded one succeed    *)
(* enough, because it only adds to the total.                              *)
LEMMA CountSettles ==
    ASSUME NEW hi \in HostInfoType, Sound(hi), NEW ok \in BOOLEAN,
           ~MustOverload(CountCall(hi, ok), ok), ~MayIdle(CountCall(hi, ok), ok)
    PROVE  ~VerdictIsDue(CountCall(hi, ok))
<1> DEFINE c == CountCall(hi, ok)
<1>1. /\ hi.vsucc \in Nat /\ hi.verr \in Nat /\ hi.continSucc \in Nat
      /\ hi.continErr \in Nat /\ hi.overload \in BOOLEAN
  BY DEF HostInfoType
<1>2. CASE ok /\ ~hi.overload
  <2>1. /\ c.verr = hi.verr /\ c.vsucc = hi.vsucc + 1 /\ c.continErr = 0
        /\ ~c.overload
    BY <1>2 DEF CountCall, CountSuccess, HostInfoType
  <2>2. hi.verr * ErrDen <= ErrNum * (hi.vsucc + hi.verr)
    <3>1. hi.verr * ErrDen \in Nat /\ ErrNum * (hi.vsucc + hi.verr) \in Nat
      BY <1>1, RateAssumption
    <3> QED  BY <1>1, <1>2, <3>1 DEF Sound, VerdictIsDue, FailsTooOften
  <2>3. ErrNum * (hi.vsucc + hi.verr) <= ErrNum * (hi.vsucc + 1 + hi.verr)
    BY <1>1, RateAssumption, GrowingTotal
  <2>4. /\ hi.verr * ErrDen \in Nat /\ ErrNum * (hi.vsucc + hi.verr) \in Nat
        /\ ErrNum * (hi.vsucc + 1 + hi.verr) \in Nat
    BY <1>1, RateAssumption
  <2>5. ~FailsTooOften(c)
    BY <2>1, <2>2, <2>3, <2>4 DEF FailsTooOften
  <2> QED  BY <2>1, <2>5, CountAssumption DEF VerdictIsDue
<1>3. CASE ~ok /\ hi.overload
  <2>1. /\ c.vsucc = hi.vsucc /\ c.verr = hi.verr + 1 /\ c.continSucc = 0
        /\ c.overload
    BY <1>3 DEF CountCall, CountFailure, HostInfoType
  <2>2. hi.vsucc * SuccDen <= SuccNum * (hi.vsucc + hi.verr)
    <3>1. hi.vsucc * SuccDen \in Nat /\ SuccNum * (hi.vsucc + hi.verr) \in Nat
      BY <1>1, RateAssumption
    <3> QED  BY <1>1, <1>3, <3>1 DEF Sound, VerdictIsDue, SucceedsEnough
  <2>3. SuccNum * (hi.vsucc + hi.verr) <= SuccNum * (hi.vsucc + (hi.verr + 1))
    BY <1>1, RateAssumption, GrowingTotal
  <2>4. /\ hi.vsucc * SuccDen \in Nat /\ SuccNum * (hi.vsucc + hi.verr) \in Nat
        /\ SuccNum * (hi.vsucc + (hi.verr + 1)) \in Nat
    BY <1>1, RateAssumption
  <2>5. ~SucceedsEnough(c)
    BY <2>1, <2>2, <2>3, <2>4 DEF SucceedsEnough
  <2> QED  BY <2>1, <2>5, CountAssumption DEF VerdictIsDue
<1>4. CASE ok /\ hi.overload
  <2>1. c.overload
    BY <1>4 DEF CountCall, CountSuccess, HostInfoType
  <2> QED  BY <1>4, <2>1 DEF MayIdle, VerdictIsDue
<1>5. CASE ~ok /\ ~hi.overload
  <2>1. ~c.overload
    BY <1>5 DEF CountCall, CountFailure, HostInfoType
  <2> QED  BY <1>5, <2>1 DEF MustOverload, VerdictIsDue
<1> QED  BY <1>1, <1>2, <1>3, <1>4, <1>5

LEMMA AdjustSound ==
    ASSUME NEW hi \in HostInfoType, Sound(hi), NEW ok \in BOOLEAN
    PROVE  Sound(AdjustedInfo(hi, ok))
<1> DEFINE c == CountCall(hi, ok)
<1>1. CountersMatch(c)
  BY CountMatch DEF Sound
<1>2. ~MustOverload(c, ok) /\ ~MayIdle(c, ok) => Sound(c)
  BY <1>1, CountSettles DEF Sound
<1> HIDE DEF c
<1>3. Sound(c) => Sound(WindowInfo(c))
  BY FreshSound DEF WindowInfo
<1>4. AdjustedInfo(hi, ok) = IF MustOverload(c, ok) THEN OverloadInfo
                             ELSE IF MayIdle(c, ok) THEN IdleInfo ELSE WindowInfo(c)
  BY DEF AdjustedInfo, c
<1> QED  BY <1>2, <1>3, <1>4, FreshSound, Zenon

LEMMA ReportSound ==
    ASSUME BalancerInv, AllSound, NEW h \in Hosts, NEW ok \in BOOLEAN, Report(h, ok)
    PROVE  AllSound'
<1>1. /\ lb \in BalancerType /\ lb.info[h] \in HostInfoType
      /\ lb' = AdjustHostWhereTo(lb, h, ok) /\ ~AdjustIsUndefined(lb, h)
  BY DEF BalancerInv, BalancerTypeOK, BalancerType, Report
<1>2. CASE h \notin lb.hostMap
  BY <1>1, <1>2 DEF AdjustHostWhereTo, AllSound
<1>3. CASE h \in lb.hostMap
  <2> DEFINE hi == AdjustedInfo(lb.info[h], ok)
  <2>1. h \in Live(lb) /\ Sound(hi)
    BY <1>1, <1>3, AdjustSound DEF AdjustIsUndefined, Live, AllSound
  <2> HIDE DEF hi
  <2>2. /\ lb'.info = [lb.info EXCEPT ![h] = hi]
        /\ lb'.hostMap = lb.hostMap /\ lb'.freed = lb.freed
    BY <1>1, <1>3 DEF AdjustHostWhereTo, hi, BalancerType
  <2>3. Live(lb)' = Live(lb) /\ Live(lb) \subseteq Hosts
    BY <1>1, <2>2 DEF Live, BalancerType
  <2>4. \A g \in Hosts : lb'.info[g] = IF g = h THEN hi ELSE lb.info[g]
    BY <1>1, <2>2 DEF BalancerType
  <2> QED  BY <2>1, <2>3, <2>4 DEF AllSound
<1> QED  BY <1>2, <1>3

LEMMA UpdateSound ==
    ASSUME BalancerInv, AllSound, NEW rsp \in Answers, Update(rsp)
    PROVE  AllSound'
<1>1. /\ lb \in BalancerType /\ WellPlaced(lb) /\ rsp \in SUBSET Hosts
      /\ lb' \in UpdateLocalHostsFromDns(lb, rsp)
  BY DEF BalancerInv, BalancerTypeOK, ListsPlaceHosts, Answers, Update
<1>2. Live(lb)' = (Live(lb) \cap rsp) \cup (rsp \ lb.hostMap)
  BY <1>1, LiveAfterUpdate
<1>3. ASSUME NEW g \in Live(lb)' PROVE Sound(lb'.info[g])
  <2>1. /\ g \in Hosts
        /\ lb'.info[g] = IF g \in Missing(lb, rsp) \/ g \in rsp \ lb.hostMap
                         THEN NewInfo ELSE lb.info[g]
    BY <1>1, <1>2, UpdateEffect
  <2>2. CASE g \in rsp \ lb.hostMap
    BY <2>1, <2>2, FreshSound
  <2>3. CASE g \in Live(lb) \cap rsp
    <3>1. lb'.info[g] = lb.info[g]
      BY <2>1, <2>3 DEF Live, Missing
    <3> QED  BY <2>3, <3>1 DEF AllSound
  <2> QED  BY <1>2, <2>2, <2>3
<1> QED  BY <1>3 DEF AllSound

LEMMA ExpireSound ==
    ASSUME BalancerInv, AllSound, NEW h \in Hosts, HostExpires(h)
    PROVE  AllSound'
<1>1. /\ lb' = [lb EXCEPT !.info[h].expired = TRUE] /\ lb \in BalancerType
      /\ lb.info[h] \in HostInfoType /\ h \in Live(lb)
  BY DEF HostExpires, BalancerInv, BalancerTypeOK, BalancerType
<1> DEFINE hi == [lb.info[h] EXCEPT !.expired = TRUE]
<1>2. Sound(hi)
  <2>1. Sound(lb.info[h])
    BY <1>1 DEF AllSound
  <2>2. /\ hi.vsucc = lb.info[h].vsucc /\ hi.verr = lb.info[h].verr
        /\ hi.rsucc = lb.info[h].rsucc /\ hi.rerr = lb.info[h].rerr
        /\ hi.continSucc = lb.info[h].continSucc
        /\ hi.continErr = lb.info[h].continErr
        /\ hi.overload = lb.info[h].overload
    BY <1>1 DEF HostInfoType
  <2> HIDE DEF hi
  <2>3. VerdictIsDue(hi) = VerdictIsDue(lb.info[h])
    BY <2>2 DEF VerdictIsDue, FailsTooOften, SucceedsEnough
  <2>4. CountersMatch(hi)
    BY <2>1, <2>2 DEF Sound, CountersMatch
  <2> QED  BY <2>1, <2>3, <2>4 DEF Sound
<1> HIDE DEF hi
<1>3. /\ lb'.hostMap = lb.hostMap /\ lb'.freed = lb.freed
      /\ \A g \in Hosts : lb'.info[g] = IF g = h THEN hi ELSE lb.info[g]
  BY <1>1 DEF hi, BalancerType
<1>4. Live(lb)' = Live(lb) /\ Live(lb) \subseteq Hosts
  BY <1>1, <1>3 DEF Live, BalancerType
<1> QED  BY <1>2, <1>3, <1>4 DEF AllSound

LEMMA ChoiceSound ==
    ASSUME BalancerInv, AllSound, GetHostRefused \/ GetHostProbed \/ GetHostServed
    PROVE  AllSound'
<1>1. lb' = ChoiceOneHost(lb) /\ lb \in BalancerType
  BY DEF GetHostRefused, GetHostProbed, GetHostServed, BalancerInv, BalancerTypeOK
<1>2. lb'.info = lb.info /\ lb'.hostMap = lb.hostMap /\ lb'.freed = lb.freed
  BY <1>1 DEF ChoiceOneHost, Refused, Probed, Served, BalancerType
<1> QED  BY <1>2 DEF AllSound, Live

LEMMA NextSound == BalancerInv /\ AllSound /\ [BalancerNext]_balancerVars => AllSound'
<1> SUFFICES ASSUME BalancerInv, AllSound, [BalancerNext]_balancerVars PROVE AllSound'
  OBVIOUS
<1>1. CASE GetHostRefused \/ GetHostProbed \/ GetHostServed
  BY <1>1, ChoiceSound
<1>2. CASE \E h \in Hosts, ok \in BOOLEAN : Report(h, ok)
  BY <1>2, ReportSound
<1>3. CASE \E rsp \in Answers : Update(rsp)
  BY <1>3, UpdateSound
<1>4. CASE \E h \in Hosts : HostExpires(h)
  BY <1>4, ExpireSound
<1>5. CASE BecomesUndefined \/ UNCHANGED balancerVars
  BY <1>5 DEF balancerVars, AllSound
<1> QED  BY <1>1, <1>2, <1>3, <1>4, <1>5
         DEF BalancerNext, GetHostUndefined, ReportUndefined, UpdateUndefined, GetRouteUndefined

LEMMA InitSound == BalancerInit => AllSound
BY DEF BalancerInit, NewBalancer, AllSound, Live

(* A host is never left in service past its thresholds, nor kept out of it *)
(* once it has earned its way back.                                        *)
THEOREM VerdictsAreTaken == BalancerSpec => []NoVerdictPending
<1>1. AllSound => NoVerdictPending
  BY DEF AllSound, Sound, NoVerdictPending
<1> QED  BY <1>1, InitBalancer, InitSound, NextBalancer, NextSound, PTL DEF BalancerSpec

(* The virtual and the real counters never drift apart.                    *)
THEOREM CountersCorrect == BalancerSpec => []CountersAgree
<1>1. AllSound => CountersAgree
  BY DEF AllSound, Sound, CountersAgree
<1> QED  BY <1>1, InitBalancer, InitSound, NextBalancer, NextSound, PTL DEF BalancerSpec

----------------------------------------------------------------------------
(* _access_cnt never runs ahead of the requests made since the last try.   *)
CountLags == gap < ProbeNum => lb.accessCnt <= gap

LEMMA NextLags == BalancerInv /\ CountLags /\ [BalancerNext]_balancerVars => CountLags'
<1> SUFFICES ASSUME BalancerInv, CountLags, [BalancerNext]_balancerVars PROVE CountLags'
  OBVIOUS
<1>1. lb.accessCnt \in Nat /\ gap \in 0 .. ProbeNum /\ lb \in BalancerType
  BY DEF BalancerInv, BalancerTypeOK, BalancerType
<1>2. CASE GetHostRefused
  <2>1. lb' = [lb EXCEPT !.accessCnt = lb.accessCnt + 1] /\ CountGap
    BY <1>2 DEF GetHostRefused, ChoiceOneHost, Refused
  <2> QED  BY <1>1, <2>1, ProbeAssumption DEF CountLags, CountGap, BalancerType
<1>3. CASE GetHostProbed
  <2>1. lb' = [lb EXCEPT !.accessCnt = 0, !.over = Rotate(lb.over)]
    BY <1>1, <1>3, ProbeAssumption DEF GetHostProbed, ChoiceOneHost, Probed, Refuses, Probes
  <2>2. gap' = 0 /\ lb'.accessCnt = 0
    BY <1>1, <1>3, <2>1 DEF GetHostProbed, BalancerType
  <2> QED  BY <2>2 DEF CountLags
<1>4. CASE GetHostServed
  <2>1. /\ lb' = [lb EXCEPT !.accessCnt = IF lb.over = <<>> THEN lb.accessCnt
                                          ELSE lb.accessCnt + 1,
                            !.idle = Rotate(lb.idle)]
        /\ CountGap
    BY <1>4 DEF GetHostServed, ChoiceOneHost, Served, Serves, Refuses
  <2>2. lb'.accessCnt <= lb.accessCnt + 1
    BY <1>1, <2>1 DEF BalancerType
  <2>3. lb'.accessCnt \in Nat
    BY <1>1, <2>1 DEF BalancerType
  <2> QED  BY <1>1, <2>1, <2>2, <2>3, ProbeAssumption DEF CountLags, CountGap
<1>5. ASSUME lb'.accessCnt = lb.accessCnt, gap' = gap PROVE CountLags'
  BY <1>5 DEF CountLags
<1>6. ASSUME NEW h \in Hosts, NEW ok \in BOOLEAN, Report(h, ok) PROVE CountLags'
  BY <1>1, <1>5, <1>6 DEF Report, AdjustHostWhereTo, BalancerType
<1>7. ASSUME NEW rsp \in Answers, Update(rsp) PROVE CountLags'
  <2>1. rsp \in SUBSET Hosts /\ lb' \in UpdateLocalHostsFromDns(lb, rsp)
    BY <1>7 DEF Answers, Update
  <2>2. lb'.accessCnt = lb.accessCnt
    BY <1>1, <2>1, UpdateEffect
  <2> QED  BY <1>5, <1>7, <2>2 DEF Update
<1>8. ASSUME NEW h \in Hosts, HostExpires(h) PROVE CountLags'
  BY <1>1, <1>5, <1>8 DEF HostExpires, BalancerType
<1>9. CASE BecomesUndefined \/ UNCHANGED balancerVars
  BY <1>5, <1>9 DEF balancerVars
<1> QED  BY <1>2, <1>3, <1>4, <1>6, <1>7, <1>8, <1>9
         DEF BalancerNext, GetHostUndefined, ReportUndefined, UpdateUndefined, GetRouteUndefined

(* Two tries of overloaded hosts are at least ProbeNum requests apart.     *)
THEOREM RationingCorrect == BalancerSpec => ProbesAreRationed
<1>1. BalancerInit => CountLags
  BY ProbeAssumption DEF BalancerInit, CountLags
<1>2. BalancerInv /\ CountLags /\ [BalancerNext]_balancerVars => [GetHostProbed => gap = ProbeNum]_balancerVars
  <2> SUFFICES ASSUME BalancerInv, CountLags, GetHostProbed PROVE gap = ProbeNum
    OBVIOUS
  <2>1. lb.accessCnt \in Nat /\ gap \in 0 .. ProbeNum
    BY DEF BalancerInv, BalancerTypeOK, BalancerType
  <2>2. lb.accessCnt >= ProbeNum
    BY DEF GetHostProbed, Probes
  <2> QED  BY <2>1, <2>2, ProbeAssumption DEF CountLags
<1> QED  BY <1>1, <1>2, InitBalancer, NextBalancer, NextLags, PTL DEF BalancerSpec, ProbesAreRationed

----------------------------------------------------------------------------
(* A success decides nothing by itself, and the window check it leads to   *)
(* finds too many failures only if there was one before.                   *)
LEMMA SuccessVerdict ==
    ASSUME WindowNum > 0, NEW hi \in HostInfoType,
           ~hi.overload, AdjustedInfo(hi, TRUE).overload
    PROVE  hi.expired /\ hi.rerr > 0
<1> DEFINE c == CountCall(hi, TRUE)
<1>1. /\ hi.rsucc \in Nat /\ hi.rerr \in Nat
      /\ ~c.overload /\ c.rsucc = hi.rsucc + 1 /\ c.rerr = hi.rerr
      /\ c.expired = hi.expired
  BY DEF CountCall, CountSuccess, HostInfoType
<1> HIDE DEF c
<1>2. ~MustOverload(c, TRUE) /\ ~MayIdle(c, TRUE)
  BY <1>1 DEF MustOverload, MayIdle
<1>3. AdjustedInfo(hi, TRUE) = WindowInfo(c)
  BY <1>2 DEF AdjustedInfo, c
<1>4. c.expired /\ CheckWindow(c)
  <2>1. WindowInfo(c).overload
    BY <1>3
  <2>2. ~IdleInfo.overload
    BY DEF IdleInfo
  <2>. QED BY <1>1, <2>1, <2>2, Zenon DEF WindowInfo
<1>5. hi.rerr # 0
  <2> SUFFICES ASSUME hi.rerr = 0 PROVE FALSE
    OBVIOUS
  <2>1. 0 * WindowDen >= WindowNum * (hi.rsucc + 1 + 0)
    BY <1>1, <1>4 DEF CheckWindow
  <2>2. 0 * WindowDen = 0
    BY RateAssumption
  <2>3. \A m, n \in Nat \ {0} : m * n \in Nat \ {0}
    OBVIOUS
  <2>4. WindowNum * (hi.rsucc + 1) \in Nat \ {0}
    BY <1>1, <2>3, RateAssumption
  <2>. QED BY <1>1, <2>1, <2>2, <2>4
<1>. QED BY <1>1, <1>4, <1>5

(* A successful call is the reason to take a host out of service only      *)
(* through a window that also holds a failed call (the code's rate         *)
(* WINDOW_ERR_RATE is above zero).                                         *)
THEOREM SuccessIsHarmless == WindowNum > 0 /\ BalancerSpec => SuccessDoesNotOverload
<1>1. ASSUME WindowNum > 0, BalancerInv, NEW h \in Live(lb), Report(h, TRUE),
             ~lb.info[h].overload, lb'.info[h].overload
      PROVE  lb.info[h].expired /\ lb.info[h].rerr > 0
  <2>1. /\ h \in lb.hostMap /\ h \in Hosts /\ lb.info[h] \in HostInfoType
        /\ lb \in BalancerType
    BY <1>1 DEF Live, BalancerInv, BalancerTypeOK, BalancerType
  <2>2. lb' = AdjustHostWhereTo(lb, h, TRUE)
    BY <1>1 DEF Report
  <2>3. lb'.info[h] = AdjustedInfo(lb.info[h], TRUE)
    BY <2>1, <2>2 DEF AdjustHostWhereTo, BalancerType
  <2>. QED BY <1>1, <2>1, <2>3, SuccessVerdict
<1>2. CASE ~(WindowNum > 0)
  BY <1>2, PTL
<1>3. CASE WindowNum > 0
  <2>1. BalancerInv => [\A h \in Live(lb) :
                  /\ Report(h, TRUE)
                  /\ ~lb.info[h].overload
                  /\ lb'.info[h].overload
                  => lb.info[h].expired /\ lb.info[h].rerr > 0]_balancerVars
    BY <1>1, <1>3
  <2>. QED BY <2>1, InitBalancer, NextBalancer, PTL DEF BalancerSpec, SuccessDoesNotOverload
<1>. QED BY <1>2, <1>3

----------------------------------------------------------------------------
(* The balancers of all modules.                                           *)

Reasons == {"no", "null connection", "front of an empty list",
            "deleted host read", "host deleted twice"}

(* A module without an object has the status a new object starts with.     *)
UnknownMeansPulling == \A m \in Mods \ known : status[m] = "PULLING"

(* The inductive invariant: types, placement, and the assertion itself.    *)
Inv == TypeOK /\ BalancersPlaceHosts /\ EmptyMeansPulling /\ UnknownMeansPulling

LEMMA NewLbPlaced ==
    /\ NewLb \in BalancerType /\ WellPlaced(NewLb)
    /\ \A cnt \in 0 .. ProbeNum :
          NewBalancer(cnt) \in BalancerType /\ WellPlaced(NewBalancer(cnt))
<1>1. 0 .. ProbeNum \subseteq Nat /\ 0 \in Nat
  BY ProbeAssumption
<1> QED  BY <1>1, NewKeeps DEF NewLb

LEMMA InitInv == Init => Inv
BY NewLbPlaced, ManageAssumption
DEF Init, Inv, TypeOK, BalancersPlaceHosts, EmptyMeansPulling, UnknownMeansPulling

(* Pull and RefreshIfOld keep the types they touch and only ever set       *)
(* PULLING.                                                                *)
LEMMA PullType ==
    ASSUME Inv, NEW m \in Mods, Pull(m) \/ NoPull
    PROVE  /\ requests' \in [Mods -> Nat]
           /\ status' \in [Mods -> {"PULLING", "NEW"}]
           /\ broken' \in Reasons
           /\ \A n \in Mods : status[n] = "PULLING" => status'[n] = "PULLING"
<1>1. /\ requests \in [Mods -> Nat] /\ status \in [Mods -> {"PULLING", "NEW"}]
      /\ broken \in Reasons
  BY DEF Inv, TypeOK, Reasons
<1>2. CASE Pull(m) /\ link[DnsPeer] = "up"
  <2>1. /\ requests' = [requests EXCEPT ![m] = requests[m] + 1]
        /\ status' = [status EXCEPT ![m] = "PULLING"] /\ broken' = broken
    BY <1>2 DEF Pull
  <2>2. requests[m] + 1 \in Nat
    BY <1>1
  <2> QED  BY <1>1, <2>1, <2>2
<1>3. CASE Pull(m) /\ link[DnsPeer] # "up"
  BY <1>1, <1>3 DEF Pull, Reasons
<1>4. CASE NoPull
  BY <1>1, <1>4 DEF NoPull
<1> QED  BY <1>2, <1>3, <1>4

(* One more, or one fewer, copy of a message under way.                    *)
LEMMA CopiesType ==
    ASSUME Inv, NEW m \in Mods, NEW S \in SUBSET Hosts,
           \/ answers' = [answers EXCEPT ![m][S] = @ + 1]
           \/ answers[m][S] > 0 /\ answers' = [answers EXCEPT ![m][S] = @ - 1]
    PROVE  answers' \in [Mods -> [SUBSET Hosts -> Nat]]
<1>1. answers \in [Mods -> [SUBSET Hosts -> Nat]] /\ answers[m][S] \in Nat
  <2>1. answers \in [Mods -> [SUBSET Hosts -> Nat]]
    BY DEF Inv, TypeOK
  <2> QED  BY <2>1
<1>2. PICK k \in Nat : answers' = [answers EXCEPT ![m][S] = k]
  <2>1. answers[m][S] + 1 \in Nat
    BY <1>1
  <2>2. answers[m][S] > 0 => answers[m][S] - 1 \in Nat
    BY <1>1
  <2> QED  BY <2>1, <2>2
<1> DEFINE f == [answers[m] EXCEPT ![S] = k]
<1>3. f \in [SUBSET Hosts -> Nat]
  BY <1>1
<1>4. answers' = [answers EXCEPT ![m] = f]
  BY <1>1, <1>2
<1> HIDE DEF f
<1> QED  BY <1>1, <1>3, <1>4

LEMMA FirstRequestInv ==
    ASSUME Inv, NEW m \in Mods, FirstRequest(m)
    PROVE  Inv'
<1>1. PICK cnt \in 0 .. ProbeNum : lbs' = [lbs EXCEPT ![m] = NewBalancer(cnt)]
  BY DEF FirstRequest
<1>2. NewBalancer(cnt) \in BalancerType /\ WellPlaced(NewBalancer(cnt))
  BY NewLbPlaced
<1>3. /\ requests' \in [Mods -> Nat] /\ status' \in [Mods -> {"PULLING", "NEW"}]
      /\ broken' \in Reasons
      /\ \A n \in Mods : status[n] = "PULLING" => status'[n] = "PULLING"
  BY PullType DEF FirstRequest
<1>4. status[m] = "PULLING"
  BY DEF Inv, UnknownMeansPulling, FirstRequest
<1>5. TypeOK'
  BY <1>1, <1>2, <1>3 DEF FirstRequest, Environment, Inv, TypeOK, Reasons
<1>6. BalancersPlaceHosts'
  BY <1>1, <1>2 DEF Inv, TypeOK, BalancersPlaceHosts
<1>7. EmptyMeansPulling' /\ UnknownMeansPulling'
  BY <1>1, <1>3, <1>4 DEF FirstRequest, Inv, TypeOK, EmptyMeansPulling, UnknownMeansPulling
<1> QED  BY <1>5, <1>6, <1>7 DEF Inv

(* A step that replaces the balancer of m by a well placed one with no     *)
(* fewer hosts in its map, and never turns PULLING into NEW.               *)
LEMMA ReplaceInv ==
    ASSUME Inv, NEW m \in known, NEW b \in BalancerType, WellPlaced(b),
           Empty(b) => Empty(lbs[m]),
           lbs' = [lbs EXCEPT ![m] = b], known' = known,
           \A n \in Mods : status[n] = "PULLING" => status'[n] = "PULLING"
    PROVE  /\ lbs' \in [Mods -> BalancerType] /\ BalancersPlaceHosts'
           /\ EmptyMeansPulling' /\ UnknownMeansPulling'
<1>1. m \in Mods /\ lbs \in [Mods -> BalancerType] /\ known \subseteq Mods
  BY DEF Inv, TypeOK
<1>2. lbs' \in [Mods -> BalancerType] /\ BalancersPlaceHosts'
  BY <1>1 DEF Inv, BalancersPlaceHosts
<1>3. \A n \in known : Empty(lbs'[n]) => Empty(lbs[n])
  BY <1>1
<1> QED  BY <1>1, <1>2, <1>3 DEF Inv, EmptyMeansPulling, UnknownMeansPulling

LEMMA GetTheBestHostInv ==
    ASSUME Inv, NEW m \in Mods, GetTheBestHost(m)
    PROVE  Inv'
<1>1. CASE ChoiceIsUndefined(lbs[m])
  BY <1>1 DEF GetTheBestHost, Undefined, Environment, Inv, TypeOK, Reasons,
              BalancersPlaceHosts, EmptyMeansPulling, UnknownMeansPulling
<1>2. CASE ~ChoiceIsUndefined(lbs[m])
  <2> DEFINE b == ChoiceOneHost(lbs[m])
  <2>1. /\ lbs' = [lbs EXCEPT ![m] = b]
        /\ Pull(m) \/ NoPull
        /\ known' = known /\ stale' = stale /\ Environment /\ m \in known
        /\ ~Empty(lbs[m])
    BY <1>2 DEF GetTheBestHost, RefreshIfOld
  <2>2. lbs[m] \in BalancerType /\ WellPlaced(lbs[m])
    BY DEF Inv, TypeOK, BalancersPlaceHosts
  <2>3. b \in BalancerType /\ WellPlaced(b)
    BY <1>2, <2>2, ChoiceKeeps
  <2>4. b.hostMap = lbs[m].hostMap
    BY <2>2, ChoiceLive
  <2>5. Empty(b) => Empty(lbs[m])
    BY <2>4 DEF Empty
  <2>6. /\ requests' \in [Mods -> Nat] /\ status' \in [Mods -> {"PULLING", "NEW"}]
        /\ broken' \in Reasons
        /\ \A n \in Mods : status[n] = "PULLING" => status'[n] = "PULLING"
    BY <2>1, PullType
  <2> HIDE DEF b
  <2>7. /\ lbs' \in [Mods -> BalancerType] /\ BalancersPlaceHosts'
        /\ EmptyMeansPulling' /\ UnknownMeansPulling'
    <3>1. \A n \in Mods : status[n] = "PULLING" => status'[n] = "PULLING"
      BY <2>6
    <3>2. lbs' = [lbs EXCEPT ![m] = b] /\ known' = known /\ m \in known
      BY <2>1
    <3> QED  BY <2>3, <2>5, <3>1, <3>2, ReplaceInv
  <2>8. TypeOK'
    BY <2>1, <2>6, <2>7 DEF Environment, Inv, TypeOK, Reasons
  <2> QED  BY <2>7, <2>8 DEF Inv
<1> QED  BY <1>1, <1>2

LEMMA GetRouteInv ==
    ASSUME Inv, NEW m \in Mods, GetRoute(m)
    PROVE  Inv'
<1>1. CASE GetAllIsUndefined(lbs[m])
  BY <1>1 DEF GetRoute, Undefined, Environment, Inv, TypeOK, Reasons,
              BalancersPlaceHosts, EmptyMeansPulling, UnknownMeansPulling
<1>2. CASE ~GetAllIsUndefined(lbs[m])
  <2>1. /\ Pull(m) \/ NoPull
        /\ known' = known /\ stale' = stale /\ lbs' = lbs /\ Environment
    BY <1>2 DEF GetRoute, RefreshIfOld
  <2>2. /\ requests' \in [Mods -> Nat] /\ status' \in [Mods -> {"PULLING", "NEW"}]
        /\ broken' \in Reasons
        /\ \A n \in Mods : status[n] = "PULLING" => status'[n] = "PULLING"
    BY <2>1, PullType
  <2>3. TypeOK'
    BY <2>1, <2>2 DEF Environment, Inv, TypeOK, Reasons
  <2>4. BalancersPlaceHosts' /\ EmptyMeansPulling' /\ UnknownMeansPulling'
    BY <2>1, <2>2 DEF Inv, TypeOK, BalancersPlaceHosts, EmptyMeansPulling,
                      UnknownMeansPulling
  <2> QED  BY <2>3, <2>4 DEF Inv
<1> QED  BY <1>1, <1>2

LEMMA ReportHostInv ==
    ASSUME Inv, NEW m \in Mods, NEW h \in Hosts, NEW ok \in BOOLEAN,
           ReportHost(m, h, ok)
    PROVE  Inv'
<1>1. CASE AdjustIsUndefined(lbs[m], h)
  BY <1>1 DEF ReportHost, Undefined, Environment, Inv, TypeOK, Reasons,
              BalancersPlaceHosts, EmptyMeansPulling, UnknownMeansPulling
<1>2. CASE ~AdjustIsUndefined(lbs[m], h)
  <2> DEFINE b == AdjustHostWhereTo(lbs[m], h, ok)
  <2>1. /\ lbs' = [lbs EXCEPT ![m] = b] /\ m \in known
        /\ known' = known /\ status' = status /\ stale' = stale
        /\ requests' = requests /\ Environment
        /\ broken' \in {"null connection", "no"}
    BY <1>2 DEF ReportHost
  <2>2. lbs[m] \in BalancerType /\ WellPlaced(lbs[m])
    BY DEF Inv, TypeOK, BalancersPlaceHosts
  <2>3. b \in BalancerType /\ WellPlaced(b)
    BY <1>2, <2>2, AdjustKeeps
  <2>4. b.hostMap = lbs[m].hostMap
    BY <2>2 DEF AdjustHostWhereTo, BalancerType
  <2>5. Empty(b) => Empty(lbs[m])
    BY <2>4 DEF Empty
  <2> HIDE DEF b
  <2>6. /\ lbs' \in [Mods -> BalancerType] /\ BalancersPlaceHosts'
        /\ EmptyMeansPulling' /\ UnknownMeansPulling'
    BY <2>1, <2>3, <2>5, ReplaceInv
  <2>7. TypeOK'
    BY <2>1, <2>6 DEF Environment, Inv, TypeOK
  <2> QED  BY <2>6, <2>7 DEF Inv
<1> QED  BY <1>1, <1>2

LEMMA ReceiveType ==
    ASSUME Inv, NEW m \in Mods, NEW S \in SUBSET Hosts, Receive(m, S)
    PROVE  /\ answers' \in [Mods -> [SUBSET Hosts -> Nat]]
           /\ UNCHANGED <<link, requests, table, followed, changes>>
<1>1. answers[m][S] > 0 /\ answers' = [answers EXCEPT ![m][S] = @ - 1]
  BY DEF Receive
<1> QED  BY <1>1, CopiesType DEF Receive

LEMMA ReceiveHostsInv ==
    ASSUME Inv, NEW m \in Mods, NEW S \in SUBSET Hosts, ReceiveHosts(m, S)
    PROVE  Inv'
<1>1. /\ answers' \in [Mods -> [SUBSET Hosts -> Nat]]
      /\ UNCHANGED <<link, requests, table, followed, changes>>
      /\ m \in known /\ S # {}
  BY ReceiveType DEF ReceiveHosts
<1>2. CASE UpdateIsUndefined(lbs[m], S)
  BY <1>1, <1>2 DEF ReceiveHosts, agent, Inv, TypeOK,
     BalancersPlaceHosts, EmptyMeansPulling, UnknownMeansPulling
<1>3. CASE ~UpdateIsUndefined(lbs[m], S)
  <2>1. PICK b \in UpdateLocalHostsFromDns(lbs[m], S) :
             lbs' = [lbs EXCEPT ![m] = b]
    BY <1>3 DEF ReceiveHosts
  <2>2. /\ status' = [status EXCEPT ![m] = "NEW"]
        /\ stale' = [stale EXCEPT ![m] = FALSE]
        /\ known' = known /\ broken' = broken
    BY <1>3 DEF ReceiveHosts
  <2>3. lbs[m] \in BalancerType /\ WellPlaced(lbs[m])
    BY DEF Inv, TypeOK, BalancersPlaceHosts
  <2>4. b \in BalancerType /\ WellPlaced(b)
    BY <2>3, UpdateKeeps
  <2>5. TypeOK'
    BY <1>1, <2>1, <2>2, <2>4 DEF Inv, TypeOK
  <2>6. BalancersPlaceHosts'
    BY <2>1, <2>4 DEF Inv, TypeOK, BalancersPlaceHosts
  <2>7. ~Empty(b)
    BY <1>1, <2>3, UpdateEffect DEF Empty
  <2>8. EmptyMeansPulling' /\ UnknownMeansPulling'
    BY <1>1, <2>1, <2>2, <2>7
    DEF Inv, TypeOK, EmptyMeansPulling, UnknownMeansPulling
  <2> QED  BY <2>5, <2>6, <2>8 DEF Inv
<1> QED  BY <1>2, <1>3

LEMMA ReceiveNoneInv ==
    ASSUME Inv, NEW m \in Mods, ReceiveNone(m)
    PROVE  Inv'
<1>1. /\ answers' \in [Mods -> [SUBSET Hosts -> Nat]]
      /\ UNCHANGED <<link, requests, table, followed, changes>>
  BY ReceiveType DEF ReceiveNone
<1>2. TypeOK' /\ BalancersPlaceHosts'
  BY <1>1, NewLbPlaced DEF ReceiveNone, Inv, TypeOK, BalancersPlaceHosts
<1>3. EmptyMeansPulling' /\ UnknownMeansPulling'
  BY DEF ReceiveNone, Inv, TypeOK, EmptyMeansPulling, UnknownMeansPulling
<1> QED  BY <1>2, <1>3 DEF Inv

LEMMA ExpireInv ==
    ASSUME Inv, NEW m \in Mods, NEW h \in Hosts, Expire(m, h)
    PROVE  Inv'
<1> DEFINE b == [lbs[m] EXCEPT !.info[h].expired = TRUE]
<1>1. /\ lbs' = [lbs EXCEPT ![m] = b] /\ m \in known /\ h \in Hosts
      /\ known' = known /\ status' = status /\ stale' = stale
      /\ requests' = requests /\ broken' = broken /\ Environment
  BY DEF Expire, Inv, TypeOK
<1>2. lbs[m] \in BalancerType /\ WellPlaced(lbs[m])
  BY DEF Inv, TypeOK, BalancersPlaceHosts
<1>3. b \in BalancerType /\ WellPlaced(b) /\ b.hostMap = lbs[m].hostMap
  BY <1>2, ExpireKeeps
<1> HIDE DEF b
<1>4. Empty(b) => Empty(lbs[m])
  BY <1>3 DEF Empty
<1>5. /\ lbs' \in [Mods -> BalancerType] /\ BalancersPlaceHosts'
      /\ EmptyMeansPulling' /\ UnknownMeansPulling'
  BY <1>1, <1>3, <1>4, ReplaceInv
<1>6. TypeOK'
  BY <1>1, <1>5 DEF Environment, Inv, TypeOK
<1> QED  BY <1>5, <1>6 DEF Inv

(* The steps that leave every balancer and its status alone.               *)
LEMMA OtherInv ==
    ASSUME Inv, UNCHANGED <<known, lbs, status>>, TypeOK'
    PROVE  Inv'
BY DEF Inv, BalancersPlaceHosts, EmptyMeansPulling, UnknownMeansPulling

LEMMA NextInv == Inv /\ [Next]_vars => Inv'
<1> SUFFICES ASSUME Inv, [Next]_vars PROVE Inv'
  OBVIOUS
<1>1. ASSUME NEW m \in Mods, FirstRequest(m) PROVE Inv'
  BY <1>1, FirstRequestInv
<1>2. ASSUME NEW m \in Mods, GetTheBestHost(m) PROVE Inv'
  BY <1>2, GetTheBestHostInv
<1>3. ASSUME NEW m \in Mods, GetRoute(m) PROVE Inv'
  BY <1>3, GetRouteInv
<1>4. ASSUME NEW m \in Mods, NEW h \in Hosts, NEW ok \in BOOLEAN, ReportHost(m, h, ok)
      PROVE  Inv'
  BY <1>4, ReportHostInv
<1>5. ASSUME NEW m \in Mods, NEW S \in SUBSET Hosts, DnsClientMessage(m, S)
      PROVE  Inv'
  <2>1. CASE ReceiveIgnored(m, S)
    <3>1. /\ answers' \in [Mods -> [SUBSET Hosts -> Nat]]
          /\ UNCHANGED <<link, requests, table, followed, changes>>
      BY <2>1, ReceiveType DEF ReceiveIgnored
    <3> QED  BY <2>1, <3>1, OtherInv DEF ReceiveIgnored, agent, Inv, TypeOK
  <2>2. CASE ReceiveNone(m)
    BY <2>2, ReceiveNoneInv
  <2>3. CASE ReceiveHosts(m, S)
    BY <2>3, ReceiveHostsInv
  <2> QED  BY <1>5, <2>1, <2>2, <2>3 DEF DnsClientMessage
<1>6. ASSUME NEW m \in Mods, GrowOld(m) PROVE Inv'
  BY <1>6, OtherInv DEF GrowOld, Environment, Inv, TypeOK
<1>7. ASSUME NEW m \in Mods, NEW h \in Hosts, Expire(m, h) PROVE Inv'
  BY <1>7, ExpireInv
<1>8. ASSUME NEW p \in Peers, Connect(p) PROVE Inv'
  BY <1>8, OtherInv DEF Connect, agent, Inv, TypeOK
<1>9. CASE CloseDns
  BY <1>9, OtherInv DEF CloseDns, agent, Inv, TypeOK
<1>10. CASE CloseReporter
  BY <1>10, OtherInv DEF CloseReporter, agent, Inv, TypeOK
<1>11. ASSUME NEW m \in Mods, DnsAnswer(m) PROVE Inv'
  <2>1. table[m] \in SUBSET Hosts
    BY DEF Inv, TypeOK
  <2>2. answers' = [answers EXCEPT ![m][table[m]] = @ + 1]
    BY <1>11 DEF DnsAnswer
  <2>3. answers' \in [Mods -> [SUBSET Hosts -> Nat]]
    BY <2>1, <2>2, CopiesType
  <2>4. requests' \in [Mods -> Nat]
    <3>1. /\ requests \in [Mods -> Nat] /\ requests[m] > 0
          /\ requests' = [requests EXCEPT ![m] = @ - 1]
      BY <1>11 DEF DnsAnswer, Inv, TypeOK
    <3>2. requests[m] - 1 \in Nat
      BY <3>1
    <3> QED  BY <3>1, <3>2
  <2>5. TypeOK'
    BY <1>11, <2>3, <2>4 DEF DnsAnswer, agent, Inv, TypeOK
  <2> QED  BY <1>11, <2>5, OtherInv DEF DnsAnswer, agent
<1>12. ASSUME NEW m \in Mods, NEW S \in SUBSET Hosts, DnsChange(m, S) PROVE Inv'
  <2>1. \/ answers' = [answers EXCEPT ![m][S] = @ + 1]
        \/ answers' = answers
    BY <1>12 DEF DnsChange
  <2>2. answers' = answers => answers' \in [Mods -> [SUBSET Hosts -> Nat]]
    BY DEF Inv, TypeOK
  <2>3. answers' \in [Mods -> [SUBSET Hosts -> Nat]]
    BY <2>1, <2>2, CopiesType DEF Inv, TypeOK
  <2>4. table' \in [Mods -> SUBSET Hosts] /\ changes' \in Nat
    <3>1. /\ table' = [table EXCEPT ![m] = S] /\ changes' = changes + 1
          /\ table \in [Mods -> SUBSET Hosts] /\ changes \in Nat
      BY <1>12 DEF DnsChange, Inv, TypeOK
    <3> QED  BY <3>1
  <2>5. TypeOK'
    BY <1>12, <2>3, <2>4 DEF DnsChange, agent, Inv, TypeOK
  <2> QED  BY <1>12, <2>5, OtherInv DEF DnsChange, agent
<1>13. CASE UNCHANGED vars
  BY <1>13 DEF vars, Inv, TypeOK, BalancersPlaceHosts, EmptyMeansPulling,
               UnknownMeansPulling
<1> QED
  BY <1>1, <1>2, <1>3, <1>4, <1>5, <1>6, <1>7, <1>8, <1>9, <1>10, <1>11, <1>12, <1>13
  DEF Next, AgentStep

(* Types are kept in every execution.                                      *)
THEOREM TypeCorrect == Spec => []TypeOK
<1>1. Inv => TypeOK
  BY DEF Inv
<1> QED  BY <1>1, InitInv, NextInv, PTL DEF Spec

(* Every balancer of the agent keeps each live host in one list, its own.  *)
THEOREM PlacementCorrect == Spec => []BalancersPlaceHosts
<1>1. Inv => BalancersPlaceHosts
  BY DEF Inv
<1> QED  BY <1>1, InitInv, NextInv, PTL DEF Spec

(* The assertion in getTheBestHost cannot fail.                            *)
THEOREM AssertionHolds == Spec => []EmptyMeansPulling
<1>1. Inv => EmptyMeansPulling
  BY DEF Inv
<1> QED  BY <1>1, InitInv, NextInv, PTL DEF Spec

----------------------------------------------------------------------------
(* While the link lasts a pull stays under way until it ends.  Only a      *)
(* message for m takes a copy of an answer for m, and it ends the pull.    *)
LEMMA NextUnderWay ==
    ASSUME Inv, PullingIsUnderWay, [Next]_vars
    PROVE  PullingIsUnderWay'
<1> SUFFICES ASSUME Running', NEW n \in known', status'[n] = "PULLING",
                    link'[DnsPeer] # "closed"
             PROVE  UnderWay(n)'
  BY DEF PullingIsUnderWay
<1>1. /\ requests \in [Mods -> Nat] /\ answers \in [Mods -> [SUBSET Hosts -> Nat]]
      /\ status \in [Mods -> {"PULLING", "NEW"}] /\ known \subseteq Mods
      /\ table \in [Mods -> SUBSET Hosts]
  BY DEF Inv, TypeOK
<1>Link. link \in [Peers -> {"connecting", "up", "closed"}] /\ DnsPeer \in Peers
       /\ DnsPeer # ReporterPeer
  BY ManageAssumption DEF Inv, TypeOK, Peers
<1>NoClose. ~CloseDns
  BY <1>Link DEF CloseDns
<1>StillUp. link[DnsPeer] # "closed"
  <2>1. CASE link' = link
    BY <2>1
  <2>2. ASSUME NEW p \in Peers, Connect(p) PROVE link[DnsPeer] # "closed"
    BY <1>Link, <2>2 DEF Connect
  <2>3. CASE CloseReporter
    BY <1>Link, <2>3 DEF CloseReporter
  <2>4. CASE AgentStep
    BY <2>1, <2>4
    DEF AgentStep, FirstRequest, GetTheBestHost, GetRoute, ReportHost, DnsClientMessage,
        ReceiveIgnored, ReceiveNone, ReceiveHosts, Receive, GrowOld, Expire, Environment
  <2>5. ASSUME NEW m \in Mods, DnsAnswer(m) \/ \E S \in SUBSET Hosts : DnsChange(m, S)
        PROVE  link[DnsPeer] # "closed"
    BY <2>1, <2>5 DEF DnsAnswer, DnsChange
  <2>6. CASE UNCHANGED vars
    BY <2>1, <2>6 DEF vars
  <2> QED  BY <1>NoClose, <2>2, <2>3, <2>4, <2>5, <2>6 DEF Next
<1>2. n \in known /\ Running /\ status[n] = "PULLING" => UnderWay(n)
  BY <1>StillUp DEF PullingIsUnderWay
<1>3. ASSUME NEW m \in Mods, Pull(m) \/ NoPull, Running, answers' = answers,
             known' = known \/ (known' = known \cup {m} /\ Pull(m))
      PROVE  UnderWay(n)'
  <2>1. CASE Pull(m)
    <3>1. /\ requests' = [requests EXCEPT ![m] = requests[m] + 1]
          /\ status' = [status EXCEPT ![m] = "PULLING"]
      BY <2>1 DEF Pull, Running
    <3>2. CASE n = m
      <4>1. requests[m] + 1 > 0 /\ requests'[m] = requests[m] + 1
        BY <1>1, <3>1
      <4> QED  BY <3>2, <4>1 DEF UnderWay
    <3>3. CASE n # m
      <4>1. n \in known /\ status[n] = "PULLING" /\ requests'[n] = requests[n]
        BY <1>1, <1>3, <3>1, <3>3
      <4> QED  BY <1>2, <1>3, <4>1 DEF UnderWay
    <3> QED  BY <3>2, <3>3
  <2>2. CASE NoPull /\ known' = known
    BY <1>2, <1>3, <2>2 DEF NoPull, UnderWay
  <2> QED  BY <1>3, <2>1, <2>2
<1>4. ASSUME UNCHANGED <<known, status, requests, answers>>, Running
      PROVE  UnderWay(n)'
  BY <1>2, <1>4 DEF UnderWay
<1>5. ASSUME NEW m \in Mods, NEW S \in SUBSET Hosts, DnsClientMessage(m, S)
      PROVE  UnderWay(n)'
  <2>1. /\ Receive(m, S) /\ Running
        /\ answers' = [answers EXCEPT ![m][S] = @ - 1] /\ requests' = requests
    BY <1>5 DEF DnsClientMessage, ReceiveIgnored, ReceiveNone, ReceiveHosts, Receive
  <2>2. n # m
    <3>1. CASE ReceiveIgnored(m, S)
      BY <3>1 DEF ReceiveIgnored, agent
    <3>2. CASE ReceiveNone(m)
      BY <3>2 DEF ReceiveNone
    <3>3. CASE ReceiveHosts(m, S)
      BY <1>1, <3>3 DEF ReceiveHosts, Running
    <3> QED  BY <1>5, <3>1, <3>2, <3>3 DEF DnsClientMessage
  <2>3. n \in known /\ status[n] = "PULLING"
    <3>1. n \in known
      BY <1>5 DEF DnsClientMessage, ReceiveIgnored, ReceiveNone, ReceiveHosts, agent
    <3>2. status' = status \/ \E v \in {"PULLING", "NEW"} : status' = [status EXCEPT ![m] = v]
      BY <1>5 DEF DnsClientMessage, ReceiveIgnored, ReceiveNone, ReceiveHosts, agent
    <3> QED  BY <1>1, <2>2, <3>1, <3>2
  <2>4. answers'[n] = answers[n]
    BY <1>1, <2>1, <2>2, <2>3
  <2> QED  BY <1>2, <2>1, <2>3, <2>4 DEF UnderWay
<1>6. ASSUME NEW m \in Mods, DnsAnswer(m) PROVE UnderWay(n)'
  <2>1. /\ answers' = [answers EXCEPT ![m][table[m]] = @ + 1]
        /\ requests' = [requests EXCEPT ![m] = @ - 1]
        /\ known' = known /\ status' = status /\ Running
    BY <1>6 DEF DnsAnswer, agent
  <2>2. CASE n = m
    <3>1. table[m] \in SUBSET Hosts
      BY <1>1
    <3>2. answers[m] \in [SUBSET Hosts -> Nat] /\ answers[m][table[m]] \in Nat
      BY <1>1, <3>1
    <3>3. answers'[m][table[m]] > 0
      BY <1>1, <2>1, <3>1, <3>2
    <3> QED  BY <2>2, <3>1, <3>3 DEF UnderWay
  <2>3. CASE n # m
    <3>1. answers'[n] = answers[n] /\ requests'[n] = requests[n]
      BY <1>1, <2>1, <2>3
    <3> QED  BY <1>2, <2>1, <3>1 DEF UnderWay
  <2> QED  BY <2>2, <2>3
<1>7. ASSUME NEW m \in Mods, NEW S \in SUBSET Hosts, DnsChange(m, S)
      PROVE  UnderWay(n)'
  <2>1. /\ known' = known /\ status' = status /\ requests' = requests /\ Running
        /\ \/ answers' = answers
           \/ answers' = [answers EXCEPT ![m][S] = @ + 1]
    BY <1>7 DEF DnsChange, agent
  <2>2. UnderWay(n)
    BY <1>2, <2>1
  <2>3. ASSUME NEW T \in SUBSET Hosts, answers[n][T] > 0 PROVE answers'[n][T] > 0
    <3>1. n \in Mods /\ answers[m][S] \in Nat /\ answers[n] \in [SUBSET Hosts -> Nat]
      <4>1. answers[m] \in [SUBSET Hosts -> Nat] /\ n \in Mods
        BY <1>1, <2>1
      <4> QED  BY <1>1, <4>1
    <3>2. CASE n = m /\ T = S
      BY <1>1, <2>1, <2>3, <3>1, <3>2
    <3>3. CASE ~(n = m /\ T = S)
      BY <1>1, <2>1, <2>3, <3>1, <3>3
    <3> QED  BY <3>2, <3>3
  <2> QED  BY <2>1, <2>2, <2>3 DEF UnderWay
<1>8. ASSUME NEW m \in Mods, FirstRequest(m) PROVE UnderWay(n)'
  BY <1>3, <1>8 DEF FirstRequest, Environment
<1>9. ASSUME NEW m \in Mods, GetTheBestHost(m) \/ GetRoute(m) PROVE UnderWay(n)'
  BY <1>3, <1>9 DEF GetTheBestHost, GetRoute, RefreshIfOld, Undefined, Environment, Running
<1>10. ASSUME NEW m \in Mods, NEW h \in Hosts, NEW ok \in BOOLEAN, ReportHost(m, h, ok)
       PROVE  UnderWay(n)'
  BY <1>4, <1>10 DEF ReportHost, Undefined, Environment, Running
<1>11. ASSUME NEW m \in Mods,
              GrowOld(m) \/ \E h \in Hosts : Expire(m, h)
       PROVE  UnderWay(n)'
  BY <1>4, <1>11 DEF GrowOld, Expire, Environment
<1>12. ASSUME NEW p \in Peers, Connect(p) PROVE UnderWay(n)'
  BY <1>4, <1>12 DEF Connect, agent
<1>13. CASE UNCHANGED vars
  BY <1>4, <1>13 DEF vars, Running
<1>14. CASE CloseReporter
  BY <1>4, <1>14 DEF CloseReporter, agent
<1> QED
  BY <1>5, <1>6, <1>7, <1>8, <1>9, <1>10, <1>11, <1>12, <1>13, <1>NoClose, <1>14
  DEF Next, AgentStep

(* While the link to DNS lasts, a module that is PULLING has a request or  *)
(* an answer under way.                                                    *)
THEOREM PullingCorrect == Spec => []PullingIsUnderWay
<1>1. Init => PullingIsUnderWay
  BY DEF Init, PullingIsUnderWay
<1>2. Inv /\ PullingIsUnderWay /\ [Next]_vars => PullingIsUnderWay'
  BY NextUnderWay
<1> QED  BY <1>1, <1>2, InitInv, NextInv, PTL DEF Spec

----------------------------------------------------------------------------
(* The agent as a RouteCache.                                              *)

(* A module that is forgotten or new has no host.                          *)
UnknownIsEmpty == \A m \in Mods \ known : lbs[m].hostMap = {}

LEMMA NewLbIsEmpty ==
    /\ NewLb.hostMap = {} /\ Live(NewLb) = {} /\ NewLb.freed = {}
    /\ \A cnt : LET b == NewBalancer(cnt)
                IN  b.hostMap = {} /\ Live(b) = {} /\ b.freed = {}
BY DEF NewLb, NewBalancer, Live

(* The deleted hosts are those of the map that are not live.               *)
LEMMA FreedAreNotLive ==
    ASSUME Inv, NEW m \in Mods
    PROVE  lbs[m].freed = lbs[m].hostMap \ Live(lbs[m])
BY DEF Inv, BalancersPlaceHosts, WellPlaced, Live

LEMMA InitEmpty == Init => UnknownIsEmpty
BY NewLbIsEmpty DEF Init, UnknownIsEmpty

(* The balancer of m is replaced by one with the same hosts.               *)
LEMMA SameHosts ==
    ASSUME Inv, NEW m \in Mods, NEW b, b.hostMap = lbs[m].hostMap, Live(b) = Live(lbs[m]),
           lbs' = [lbs EXCEPT ![m] = b]
    PROVE  \A n \in Mods : /\ lbs'[n].hostMap = lbs[n].hostMap
                           /\ Live(lbs'[n]) = Live(lbs[n])
<1>1. lbs \in [Mods -> BalancerType]
  BY DEF Inv, TypeOK
<1>. QED BY <1>1

(* What a call or a timeout does to the hosts: nothing.                    *)
LEMMA CallHosts ==
    ASSUME Inv, NEW m \in Mods,
           \/ GetTheBestHost(m) \/ GetRoute(m) \/ GrowOld(m)
           \/ \E h \in Hosts, ok \in BOOLEAN : ReportHost(m, h, ok)
           \/ \E h \in Hosts : Expire(m, h)
    PROVE  /\ known' = known /\ Environment
           /\ \A n \in Mods : /\ lbs'[n].hostMap = lbs[n].hostMap
                              /\ Live(lbs'[n]) = Live(lbs[n])
<1>1. lbs[m] \in BalancerType
  BY DEF Inv, TypeOK
<1>2. CASE lbs' = lbs /\ known' = known /\ Environment
  BY <1>2
<1>3. CASE GetTheBestHost(m)
  <2>1. CASE ChoiceIsUndefined(lbs[m])
    BY <1>2, <1>3, <2>1 DEF GetTheBestHost, Undefined
  <2>2. CASE ~ChoiceIsUndefined(lbs[m])
    <3>1. /\ lbs' = [lbs EXCEPT ![m] = ChoiceOneHost(lbs[m])]
          /\ known' = known /\ Environment
      BY <1>3, <2>2 DEF GetTheBestHost
    <3>. QED BY <1>1, <3>1, ChoiceLive, SameHosts
  <2>. QED BY <2>1, <2>2
<1>4. CASE GetRoute(m)
  BY <1>2, <1>4 DEF GetRoute, Undefined
<1>5. CASE GrowOld(m)
  BY <1>2, <1>5 DEF GrowOld
<1>6. ASSUME NEW h \in Hosts, NEW ok \in BOOLEAN, ReportHost(m, h, ok)
      PROVE  /\ known' = known /\ Environment
             /\ \A n \in Mods : /\ lbs'[n].hostMap = lbs[n].hostMap
                                /\ Live(lbs'[n]) = Live(lbs[n])
  <2>1. CASE AdjustIsUndefined(lbs[m], h)
    BY <1>2, <1>6, <2>1 DEF ReportHost, Undefined
  <2>2. CASE ~AdjustIsUndefined(lbs[m], h)
    <3>1. /\ lbs' = [lbs EXCEPT ![m] = AdjustHostWhereTo(lbs[m], h, ok)]
          /\ known' = known /\ Environment
      BY <1>6, <2>2 DEF ReportHost
    <3>. QED BY <1>1, <3>1, AdjustLive, SameHosts
  <2>. QED BY <2>1, <2>2
<1>7. ASSUME NEW h \in Hosts, Expire(m, h)
      PROVE  /\ known' = known /\ Environment
             /\ \A n \in Mods : /\ lbs'[n].hostMap = lbs[n].hostMap
                                /\ Live(lbs'[n]) = Live(lbs[n])
  <2> DEFINE b == [lbs[m] EXCEPT !.info[h].expired = TRUE]
  <2>1. lbs' = [lbs EXCEPT ![m] = b] /\ known' = known /\ Environment
    BY <1>7 DEF Expire, Inv, TypeOK
  <2>2. b.hostMap = lbs[m].hostMap /\ Live(b) = Live(lbs[m])
    BY <1>1, ExpireLive
  <2> HIDE DEF b
  <2>. QED BY <2>1, <2>2, SameHosts
<1>. QED BY <1>3, <1>4, <1>5, <1>6, <1>7

LEMMA NextEmpty == Inv /\ UnknownIsEmpty /\ [Next]_vars => UnknownIsEmpty'
<1> SUFFICES ASSUME Inv, UnknownIsEmpty, [Next]_vars PROVE UnknownIsEmpty'
  OBVIOUS
<1>0. lbs \in [Mods -> BalancerType] /\ known \subseteq Mods
  BY DEF Inv, TypeOK
<1> USE DEF UnknownIsEmpty
<1>1. CASE UNCHANGED <<known, lbs>>
  BY <1>1
<1>2. ASSUME NEW m \in Mods, FirstRequest(m) PROVE UnknownIsEmpty'
  <2>1. known' = known \cup {m} /\ \A n \in Mods : n # m => lbs'[n] = lbs[n]
    BY <1>0, <1>2 DEF FirstRequest
  <2>. QED BY <2>1
<1>3. ASSUME NEW m \in Mods,
             \/ GetTheBestHost(m) \/ GetRoute(m) \/ GrowOld(m)
             \/ \E h \in Hosts, ok \in BOOLEAN : ReportHost(m, h, ok)
             \/ \E h \in Hosts : Expire(m, h)
      PROVE  UnknownIsEmpty'
  BY <1>3, CallHosts
<1>4. ASSUME NEW m \in Mods, ReceiveNone(m) PROVE UnknownIsEmpty'
  <2>1. /\ lbs'[m].hostMap = {} /\ known' = known \ {m}
        /\ \A n \in Mods : n # m => lbs'[n] = lbs[n]
    BY <1>0, <1>4, NewLbIsEmpty DEF ReceiveNone
  <2>. QED BY <2>1
<1>5. ASSUME NEW m \in Mods, NEW S \in SUBSET Hosts, ReceiveHosts(m, S)
      PROVE  UnknownIsEmpty'
  <2>1. /\ m \in known /\ known' = known
        /\ \A n \in Mods : n # m => lbs'[n] = lbs[n]
    BY <1>0, <1>5 DEF ReceiveHosts, agent
  <2>. QED BY <2>1
<1>6. ASSUME NEW m \in Mods, NEW S \in SUBSET Hosts,
             ReceiveIgnored(m, S) \/ DnsChange(m, S)
      PROVE  UnknownIsEmpty'
  BY <1>1, <1>6 DEF ReceiveIgnored, DnsChange, agent
<1>7. ASSUME NEW m \in Mods, DnsAnswer(m) PROVE UnknownIsEmpty'
  BY <1>1, <1>7 DEF DnsAnswer, agent
<1>8. ASSUME NEW p \in Peers, Connect(p) PROVE UnknownIsEmpty'
  BY <1>1, <1>8 DEF Connect, agent
<1>9. CASE CloseDns \/ CloseReporter \/ UNCHANGED vars
  BY <1>1, <1>9 DEF CloseDns, CloseReporter, agent, vars
<1>. QED
  BY <1>2, <1>3, <1>4, <1>5, <1>6, <1>7, <1>8, <1>9
  DEF Next, AgentStep, DnsClientMessage

----------------------------------------------------------------------------
(* What the agent does to the phases and to the hosts served, as steps of  *)
(* RouteCache.                                                             *)
(*                                                                         *)
(* The phase and the hosts of one module change.                           *)
LEMMA OneChanges ==
    ASSUME NEW m \in Mods, NEW v, NEW S, NEW D,
           \A n \in Mods : n # m =>
              /\ n \in known' <=> n \in known
              /\ status'[n] = status[n] /\ lbs'[n] = lbs[n],
           v = (IF m \notin known' THEN "unknown"
                ELSE IF status'[m] = "PULLING" THEN "pulling" ELSE "ready"),
           S = Live(lbs'[m]), D = lbs'[m].freed
    PROVE  /\ Phase' = [Phase EXCEPT ![m] = v]
           /\ ServedHosts' = [ServedHosts EXCEPT ![m] = S]
           /\ DroppedHosts' = [DroppedHosts EXCEPT ![m] = D]
<1>1. Phase' = [Phase EXCEPT ![m] = v]
  BY DEF Phase
<1>2. ServedHosts' = [ServedHosts EXCEPT ![m] = S]
  BY DEF ServedHosts
<1>3. DroppedHosts' = [DroppedHosts EXCEPT ![m] = D]
  BY DEF DroppedHosts
<1>. QED BY <1>1, <1>2, <1>3

(* A call or a timeout leaves the hosts as they are.                       *)
LEMMA HostsStay ==
    ASSUME Inv, Inv',
           \A n \in Mods : /\ lbs'[n].hostMap = lbs[n].hostMap
                           /\ Live(lbs'[n]) = Live(lbs[n])
    PROVE  UNCHANGED <<ServedHosts, DroppedHosts>>
<1>1. \A n \in Mods : /\ lbs[n].freed = lbs[n].hostMap \ Live(lbs[n])
                      /\ lbs'[n].freed = lbs'[n].hostMap \ Live(lbs'[n])
  BY FreedAreNotLive DEF Inv, BalancersPlaceHosts, WellPlaced, Live
<1>. QED BY <1>1 DEF ServedHosts, DroppedHosts

LEMMA PromiseInit == Init => Promise!Init
BY NewLbIsEmpty DEF Init, Promise!Init, Phase, ServedHosts, DroppedHosts

(* A call on a known module asks for a refresh or changes nothing.         *)
LEMMA CallIsRefresh ==
    ASSUME Inv, Inv', NEW m \in Mods, GetTheBestHost(m) \/ GetRoute(m)
    PROVE  [Promise!Next]_(Promise!cacheVars)
<1>0. status \in [Mods -> {"PULLING", "NEW"}]
  BY DEF Inv, TypeOK
<1>1. /\ m \in known /\ known' = known /\ UNCHANGED <<ServedHosts, DroppedHosts>>
  BY CallHosts, HostsStay DEF GetTheBestHost, GetRoute
<1>2. status' = status \/ (IsOld(m) /\ status' = [status EXCEPT ![m] = "PULLING"])
  BY DEF GetTheBestHost, GetRoute, Undefined, RefreshIfOld, NoPull, Pull
<1>3. CASE status' = status
  BY <1>1, <1>3 DEF Promise!cacheVars, Phase
<1>4. CASE IsOld(m) /\ status' = [status EXCEPT ![m] = "PULLING"]
  <2>1. Phase' = [Phase EXCEPT ![m] = "pulling"] /\ Phase[m] = "ready"
    BY <1>0, <1>1, <1>4 DEF IsOld, Phase
  <2>2. Promise!Refresh(m)
    BY <1>1, <2>1 DEF Promise!Refresh
  <2>. QED BY <2>2 DEF Promise!Next
<1>. QED BY <1>2, <1>3, <1>4

LEMMA FirstRequestIsAsk ==
    ASSUME Inv, Inv', UnknownIsEmpty, NEW m \in Mods, FirstRequest(m)
    PROVE  Promise!Ask(m)
<1>0. /\ status \in [Mods -> {"PULLING", "NEW"}] /\ lbs \in [Mods -> BalancerType]
  BY DEF Inv, TypeOK
<1>1. /\ m \notin known /\ known' = known \cup {m}
      /\ \A n \in Mods : n # m => lbs'[n] = lbs[n]
      /\ lbs'[m].hostMap = {} /\ Live(lbs'[m]) = {}
  BY <1>0, NewLbIsEmpty DEF FirstRequest
<1>2. status[m] = "PULLING" /\ status' = status
  <2>1. status[m] = "PULLING"
    BY <1>1 DEF Inv, UnknownMeansPulling
  <2>. QED BY <1>0, <2>1 DEF FirstRequest, Pull
<1>3. lbs[m].hostMap = {} /\ Live(lbs[m]) = {}
  BY <1>1 DEF UnknownIsEmpty, Live
<1>4. Phase' = [Phase EXCEPT ![m] = "pulling"] /\ Phase[m] = "unknown"
  BY <1>1, <1>2 DEF Phase
<1>5. UNCHANGED <<ServedHosts, DroppedHosts>>
  BY <1>1, <1>3, HostsStay
<1>. QED BY <1>4, <1>5 DEF Promise!Ask

(* An answer drops the live hosts it lacks; those dropped before it keep   *)
(* their key in the map and are not added again (LoadBalance.cc:124-166).  *)
LEMMA AnswerFills ==
    ASSUME Inv, NEW m \in Mods, NEW S \in SUBSET Hosts, ReceiveHosts(m, S)
    PROVE  [Promise!Next]_(Promise!cacheVars)
<1>0. /\ status \in [Mods -> {"PULLING", "NEW"}] /\ lbs \in [Mods -> BalancerType]
      /\ lbs[m] \in BalancerType /\ WellPlaced(lbs[m])
  BY DEF Inv, TypeOK, BalancersPlaceHosts
<1>1. m \in known /\ S # {}
  BY DEF ReceiveHosts
<1>2. CASE UpdateIsUndefined(lbs[m], S)
  BY <1>2 DEF ReceiveHosts, agent, Promise!cacheVars, Phase, ServedHosts, DroppedHosts
<1>3. CASE ~UpdateIsUndefined(lbs[m], S)
  <2>1. PICK b \in UpdateLocalHostsFromDns(lbs[m], S) : lbs' = [lbs EXCEPT ![m] = b]
    BY <1>3 DEF ReceiveHosts
  <2>2. known' = known /\ status' = [status EXCEPT ![m] = "NEW"]
    BY <1>3 DEF ReceiveHosts
  <2>3. /\ Live(b) = S \ lbs[m].freed
        /\ b.freed = lbs[m].freed \cup (Live(lbs[m]) \ S)
    <3>1. lbs[m].freed \subseteq lbs[m].hostMap
      BY <1>0 DEF WellPlaced
    <3>2. /\ b.hostMap = lbs[m].hostMap \cup S
          /\ b.freed = lbs[m].freed \cup (lbs[m].hostMap \ S)
      BY <1>0, UpdateEffect DEF Missing
    <3>3. lbs[m].freed \subseteq S
      BY <1>3, <3>1 DEF UpdateIsUndefined, Missing
    <3>. QED BY <3>1, <3>2, <3>3 DEF Live
  <2>4. lbs'[m] = b /\ \A n \in Mods : n # m => lbs'[n] = lbs[n]
    BY <1>0, <2>1
  <2>5. /\ Phase' = [Phase EXCEPT ![m] = "ready"]
        /\ ServedHosts' = [ServedHosts EXCEPT ![m] = S \ lbs[m].freed]
        /\ DroppedHosts' = [DroppedHosts EXCEPT ![m] =
                                lbs[m].freed \cup (Live(lbs[m]) \ S)]
    BY <1>0, <1>1, <2>2, <2>3, <2>4, OneChanges
  <2>6. /\ Phase[m] # "unknown" /\ ServedHosts[m] = Live(lbs[m])
        /\ DroppedHosts[m] = lbs[m].freed
    BY <1>1 DEF Phase, ServedHosts, DroppedHosts
  <2>7. Promise!Fill(m, S)
    BY <1>1, <2>5, <2>6 DEF Promise!Fill
  <2>. QED BY <2>7 DEF Promise!Next
<1>. QED BY <1>2, <1>3

LEMMA NoneForgets ==
    ASSUME Inv, NEW m \in Mods, ReceiveNone(m)
    PROVE  Promise!Forget(m)
<1>1. /\ status \in [Mods -> {"PULLING", "NEW"}] /\ lbs \in [Mods -> BalancerType]
  BY DEF Inv, TypeOK
<1>2. /\ known' = known \ {m} /\ m \in known
      /\ lbs' = [lbs EXCEPT ![m] = NewLb] /\ status' = [status EXCEPT ![m] = "PULLING"]
  BY DEF ReceiveNone
<1>3. /\ Phase' = [Phase EXCEPT ![m] = "unknown"]
      /\ ServedHosts' = [ServedHosts EXCEPT ![m] = {}]
      /\ DroppedHosts' = [DroppedHosts EXCEPT ![m] = {}]
  BY <1>1, <1>2, NewLbIsEmpty, OneChanges
<1>4. Phase[m] # "unknown"
  BY <1>2 DEF Phase
<1>. QED BY <1>3, <1>4 DEF Promise!Forget

LEMMA PromiseStep ==
    ASSUME Inv, Inv', UnknownIsEmpty, [Next]_vars
    PROVE  [Promise!Next]_(Promise!cacheVars)
<1>1. ASSUME NEW m \in Mods, FirstRequest(m) PROVE [Promise!Next]_(Promise!cacheVars)
  BY <1>1, FirstRequestIsAsk DEF Promise!Next
<1>2. ASSUME NEW m \in Mods, GetTheBestHost(m) \/ GetRoute(m)
      PROVE  [Promise!Next]_(Promise!cacheVars)
  BY <1>2, CallIsRefresh
<1>3. ASSUME NEW m \in Mods,
             \/ GrowOld(m)
             \/ \E h \in Hosts, ok \in BOOLEAN : ReportHost(m, h, ok)
             \/ \E h \in Hosts : Expire(m, h)
      PROVE  [Promise!Next]_(Promise!cacheVars)
  <2>1. known' = known /\ UNCHANGED <<ServedHosts, DroppedHosts>>
    BY <1>3, CallHosts, HostsStay
  <2>2. status' = status
    BY <1>3 DEF GrowOld, ReportHost, Undefined, Expire
  <2>. QED BY <2>1, <2>2 DEF Promise!cacheVars, Phase
<1>4. ASSUME NEW m \in Mods, NEW S \in SUBSET Hosts, ReceiveHosts(m, S)
      PROVE  [Promise!Next]_(Promise!cacheVars)
  BY <1>4, AnswerFills
<1>5. ASSUME NEW m \in Mods, ReceiveNone(m) PROVE [Promise!Next]_(Promise!cacheVars)
  BY <1>5, NoneForgets DEF Promise!Next
<1>6. CASE UNCHANGED <<known, lbs, status>>
  BY <1>6 DEF Promise!cacheVars, Phase, ServedHosts, DroppedHosts
<1>7. ASSUME NEW m \in Mods, NEW S \in SUBSET Hosts,
             ReceiveIgnored(m, S) \/ DnsChange(m, S)
      PROVE  UNCHANGED <<known, lbs, status>>
  BY <1>7 DEF ReceiveIgnored, DnsChange, agent
<1>8. ASSUME NEW m \in Mods, DnsAnswer(m) PROVE UNCHANGED <<known, lbs, status>>
  BY <1>8 DEF DnsAnswer, agent
<1>9. ASSUME NEW p \in Peers, Connect(p) PROVE UNCHANGED <<known, lbs, status>>
  BY <1>9 DEF Connect, agent
<1>10. CASE CloseDns \/ CloseReporter \/ UNCHANGED vars
  BY <1>6, <1>10 DEF CloseDns, CloseReporter, agent, vars
<1>. QED
  BY <1>1, <1>2, <1>3, <1>4, <1>5, <1>6, <1>7, <1>8, <1>9, <1>10
  DEF Next, AgentStep, DnsClientMessage

(* The agent is a route cache, through late, repeated and empty answers,   *)
(* pushes, dropped hosts, refreshes and lost links: only an answer with    *)
(* hosts makes a module ready, callers are given all the hosts it names    *)
(* but those dropped before, and only an empty answer makes the agent      *)
(* forget (Manage.cc:21-153, LoadBalance.cc:124-171).                      *)
THEOREM AgentIsACache == Spec => KeepsPromise
<1>1. Inv /\ UnknownIsEmpty /\ Inv' /\ [Next]_vars => [Promise!Next]_(Promise!cacheVars)
  BY PromiseStep
<1>2. Spec => [](Inv /\ UnknownIsEmpty)
  BY InitInv, InitEmpty, NextInv, NextEmpty, PTL DEF Spec
<1>3. Spec => KeepsPromise
  BY <1>1, <1>2, PromiseInit, PTL DEF Spec, KeepsPromise, Promise!Spec
<1>. QED BY <1>3
=============================================================================
