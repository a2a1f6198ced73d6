---------------------------- MODULE LoadBalance ----------------------------
(***************************************************************************)
(* The methods of class LoadBalance, as operators on the record that holds *)
(* one object's host state:                                                *)
(*                                                                         *)
(*   accessCnt    _access_cnt, counted up to ProbeNum                      *)
(*   hostMap      the keys of _hostMap                                     *)
(*   freed        the keys whose HostInfo was deleted while the key stayed *)
(*                in _hostMap: the map still holds the dangling pointer    *)
(*   info         the HostInfo of every key                                *)
(*   idle, over   _idleList and _overloadList, of pointers                 *)
(*                                                                         *)
(* A key never has two objects, because only a key missing from _hostMap   *)
(* gets a new one, so a host stands for its key and for its object alike.  *)
(* A call whose behaviour is undefined (a deleted object is read or        *)
(* deleted again, an empty list is asked for its front) is singled out by  *)
(* an ...IsUndefined operator; the other operators say nothing about it.   *)
(***************************************************************************)
EXTENDS HostInfo, Sequences, FiniteSets

CONSTANTS
    Hosts,        \* the (ip, port) keys the DNS service may return
    NoHost,       \* no host: what a refused request is answered with
    ProbeNum      \* PROBE_NUM: requests between two tries of an overloaded host

ASSUME HostAssumption == IsFiniteSet(Hosts) /\ NoHost \notin Hosts
ASSUME ProbeAssumption == ProbeNum \in Nat \ {0}

Elems(l) == {l[i] : i \in 1 .. Len(l)}

(* std::list::remove.  A pointer occurs at most once in a list, so         *)
(* removing every occurrence is removing the only one.                     *)
Without(l, h) ==
    IF h \in Elems(l)
    THEN LET i == CHOOSE i \in 1 .. Len(l) : l[i] = h
         IN  SubSeq(l, 1, i - 1) \o SubSeq(l, i + 1, Len(l))
    ELSE l

Rotate_keepsFront(l) == l

Rotate(l) == Append(Tail(l), Head(l))

(* The sequences that list each element of S once.                         *)
Orders(S) ==
    {s \in [1 .. Cardinality(S) -> S] :
        Elems(s) = S /\ \A i, j \in DOMAIN s : s[i] = s[j] => i = j}

NoRepeat(l) == \A i, j \in 1 .. Len(l) : l[i] = l[j] => i = j

(* A new object.  _access_cnt has no initialiser: cnt is whatever was in   *)
(* memory, and every value from ProbeNum up acts alike.                    *)
NewBalancer(cnt) ==
    [accessCnt |-> cnt, hostMap |-> {}, freed |-> {},
     info |-> [h \in Hosts |-> NewInfo], idle |-> <<>>, over |-> <<>>]

Live(b) == b.hostMap \ b.freed

BalancerType ==
    [accessCnt : Nat, hostMap : SUBSET Hosts, freed : SUBSET Hosts,
     info : [Hosts -> HostInfoType], idle : Seq(Hosts), over : Seq(Hosts)]

(* Every live object is in exactly one list, once: the one _overload names.*)
WellPlaced(b) ==
    /\ NoRepeat(b.idle) /\ NoRepeat(b.over)
    /\ Elems(b.idle) = {h \in Live(b) : ~b.info[h].overload}
    /\ Elems(b.over) = {h \in Live(b) : b.info[h].overload}
    /\ b.freed \subseteq b.hostMap

Empty(b) == b.hostMap = {}

----------------------------------------------------------------------------
(* choiceOneHost: refuse, probe an overloaded host, or serve an idle one.  *)

Refuses(b) == b.idle = <<>> /\ b.accessCnt < ProbeNum

Probes(b) == b.accessCnt >= ProbeNum /\ (b.idle = <<>> \/ b.over # <<>>)

Serves(b) == b.idle # <<>> /\ ~Probes(b)

ChoiceIsUndefined(b) == Probes(b) /\ b.over = <<>>

Refused(b) == [b EXCEPT !.accessCnt = @ + 1]

Probed_keepsCount(b) == [b EXCEPT !.over = Rotate(@)]

Probed(b) == [b EXCEPT !.accessCnt = 0, !.over = Rotate(@)]

Served(b) ==
    [b EXCEPT !.accessCnt = IF b.over = <<>> THEN @ ELSE @ + 1,
              !.idle = Rotate(@)]

ChosenHost(b) ==
    IF Refuses(b) THEN NoHost ELSE IF Probes(b) THEN Head(b.over) ELSE Head(b.idle)

ChoiceOneHost(b) ==
    IF Refuses(b) THEN Refused(b) ELSE IF Probes(b) THEN Probed(b) ELSE Served(b)

(* getAllHosts reads every object the map points to.                       *)
GetAllHosts(b) == b.hostMap

GetAllIsUndefined(b) == b.freed # {}

----------------------------------------------------------------------------
(* adjustHostWhereTo: count the call, decide, move between the lists.      *)

AdjustIsUndefined(b, h) == h \in b.freed

AdjustHostWhereTo(b, h, ok) ==
    IF h \notin b.hostMap THEN b
    ELSE LET hi == AdjustedInfo(b.info[h], ok)
             moved == hi.overload # b.info[h].overload
         IN  [b EXCEPT
                !.info[h] = hi,
                !.idle = IF ~moved THEN @
                         ELSE IF hi.overload THEN Without(@, h) ELSE Append(@, h),
                !.over = IF ~moved THEN @
                         ELSE IF hi.overload THEN Append(@, h) ELSE Without(@, h)]

----------------------------------------------------------------------------
(* updateLocalHostsFromDns(rsp): rsp is the set of keys in the answer.  A  *)
(* key missing from _hostMap gets an object at the end of the idle list,   *)
(* in the order of the answer, which may be any.  A key missing from the   *)
(* answer loses its object and its place in a list, and keeps its entry    *)
(* in _hostMap.                                                            *)

Missing(b, rsp) == b.hostMap \ rsp

UpdateIsUndefined(b, rsp) == Missing(b, rsp) \cap b.freed # {}

(* What is left of list l once the elements of S are removed, in the order *)
(* of l: a set with one member, so that the members can be reasoned about  *)
(* without the recursion behind SelectSeq.                                 *)
Remainders(l, S) ==
    {s \in Orders(Elems(l) \ S) :
        \A i, j \in DOMAIN s : i < j =>
            \E p, q \in DOMAIN l : p < q /\ l[p] = s[i] /\ l[q] = s[j]}

AddHosts(b, added) ==
    [b EXCEPT !.hostMap = @ \cup Elems(added),
              !.info = [h \in Hosts |-> IF h \in Elems(added) THEN NewInfo ELSE @[h]],
              !.idle = @ \o added]

DeleteHosts_idleOnly(b, S) ==
    {[b EXCEPT !.freed = b.freed \cup S, !.idle = i] : i \in Remainders(b.idle, S)}

(* The results of deleting the hosts of S: one member.  Nothing can be     *)
(* said of a deleted object, and its statistics are cleared.               *)
DeleteHosts(b, S) ==
    {[b EXCEPT !.freed = b.freed \cup S,
               !.info = [h \in Hosts |-> IF h \in S THEN NewInfo ELSE b.info[h]],
               !.idle = i, !.over = o] :
        i \in Remainders(b.idle, S), o \in Remainders(b.over, S)}

UpdateLocalHostsFromDns(b, rsp) ==
    UNION {DeleteHosts(AddHosts(b, added), Missing(b, rsp)) :
              added \in Orders(rsp \ b.hostMap)}

=============================================================================
