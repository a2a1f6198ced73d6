------------------------------ MODULE Balancer ------------------------------
(***************************************************************************)
(* One LoadBalance object under the calls class Manage makes of it.  Every *)
(* call holds Manage::_mutex, so every call is one step.                   *)
(*                                                                         *)
(*   lb       the object's host state (module LoadBalance)                 *)
(*   reply    what the last step answered: the host choiceOneHost chose,   *)
(*            NoHost when it refused, Silent when nothing was chosen       *)
(*   gap      history: requests since an overloaded host was last tried,   *)
(*            counted up to ProbeNum                                       *)
(*   undefined  a call whose behaviour is undefined was made.  The program *)
(*            may do anything from then on and the model stops: what the   *)
(*            properties say, they say of executions up to that call.      *)
(***************************************************************************)
EXTENDS LoadBalance

CONSTANTS
    Silent,       \* the last step chose no host
    MaxReports    \* bound: calls reported on a host in one window

ASSUME SilentAssumption == Silent \notin Hosts /\ Silent # NoHost

VARIABLES lb, reply, gap, undefined

balancerVars == <<lb, reply, gap, undefined>>

BalancerInit ==
    /\ \E cnt \in 0 .. ProbeNum : lb = NewBalancer(cnt)
    /\ reply = Silent
    /\ gap = ProbeNum
    /\ undefined = FALSE

BecomesUndefined ==
    /\ undefined' = TRUE
    /\ UNCHANGED <<lb, reply, gap>>

Answer(h) ==
    /\ reply' = h
    /\ UNCHANGED undefined

CountGap == gap' = IF gap = ProbeNum THEN gap ELSE gap + 1

----------------------------------------------------------------------------
(* Manage::getTheBestHost -> choiceOneHost, which is only called on an     *)
(* object with hosts.                                                      *)

GetHost == ~undefined /\ ~Empty(lb)

GetHostRefused ==
    /\ GetHost /\ Refuses(lb)
    /\ lb' = ChoiceOneHost(lb)
    /\ Answer(ChosenHost(lb))
    /\ CountGap

GetHostProbed ==
    /\ GetHost /\ Probes(lb) /\ ~ChoiceIsUndefined(lb)
    /\ lb' = ChoiceOneHost(lb)
    /\ Answer(ChosenHost(lb))
    /\ gap' = 0

GetHostServed ==
    /\ GetHost /\ Serves(lb)
    /\ lb' = ChoiceOneHost(lb)
    /\ Answer(ChosenHost(lb))
    /\ CountGap

GetHostUndefined == GetHost /\ ChoiceIsUndefined(lb) /\ BecomesUndefined

(* Manage::reportHost -> adjustHostWhereTo for any host a caller names.    *)
Report(h, ok) ==
    /\ ~undefined
    /\ ~AdjustIsUndefined(lb, h)
    /\ h \in lb.hostMap => lb.info[h].rsucc + lb.info[h].rerr < MaxReports
    /\ lb' = AdjustHostWhereTo(lb, h, ok)
    /\ reply' = Silent
    /\ UNCHANGED <<gap, undefined>>

ReportUndefined(h) == ~undefined /\ AdjustIsUndefined(lb, h) /\ BecomesUndefined

(* Manage::updateLocalHostsMap -> updateLocalHostsFromDns, for an answer   *)
(* that names at least one host.                                           *)
Update(rsp) ==
    /\ ~undefined
    /\ ~UpdateIsUndefined(lb, rsp)
    /\ lb' \in UpdateLocalHostsFromDns(lb, rsp)
    /\ reply' = Silent
    /\ UNCHANGED <<gap, undefined>>

UpdateUndefined(rsp) == ~undefined /\ UpdateIsUndefined(lb, rsp) /\ BecomesUndefined

(* Manage::getRoute -> getAllHosts changes nothing unless it is undefined. *)
GetRouteUndefined == ~undefined /\ GetAllIsUndefined(lb) /\ BecomesUndefined

(* Time passes IDLE_TIMEOUT or OVERLOAD_TIMEOUT for a host.                *)
HostExpires(h) ==
    /\ ~undefined
    /\ h \in Live(lb) /\ ~lb.info[h].expired
    /\ lb' = [lb EXCEPT !.info[h].expired = TRUE]
    /\ reply' = Silent
    /\ UNCHANGED <<gap, undefined>>

Answers == SUBSET Hosts \ {{}}

BalancerNext ==
    \/ GetHostRefused
    \/ GetHostProbed
    \/ GetHostServed
    \/ GetHostUndefined
    \/ \E h \in Hosts, ok \in BOOLEAN : Report(h, ok)
    \/ \E h \in Hosts : ReportUndefined(h)
    \/ \E rsp \in Answers : Update(rsp)
    \/ \E rsp \in Answers : UpdateUndefined(rsp)
    \/ GetRouteUndefined
    \/ \E h \in Hosts : HostExpires(h)

BalancerSpec == BalancerInit /\ [][BalancerNext]_balancerVars

(* Callers keep asking: the only scheduling the progress property needs.   *)
FairBalancerSpec ==
    BalancerSpec /\ WF_balancerVars(GetHostRefused \/ GetHostProbed \/ GetHostServed)

----------------------------------------------------------------------------
(* Each variable has its type, and the two lists hold only hosts.          *)
BalancerTypeOK ==
    /\ lb \in BalancerType
    /\ reply \in Hosts \cup {NoHost, Silent}
    /\ gap \in 0 .. ProbeNum
    /\ undefined \in BOOLEAN

(* Every live object is in exactly one of the two lists, once, in the list *)
(* its _overload flag names, whatever calls, reports and DNS answers have  *)
(* moved it about; no deleted object is in either.  adjustHostWhereTo and  *)
(* updateLocalHostsFromDns each choose the list to remove from by the flag.*)
ListsPlaceHosts == WellPlaced(lb)

(* A host stays in service only while its statistics allow it: an idle     *)
(* host fails at most at ERR_RATE and fewer than CONTIN_ERR_LIMIT times in *)
(* a row, an overloaded one has not earned its way back.  The decision is  *)
(* taken on failures (successes) only, so the invariant also says that a   *)
(* call of the other kind never needs one.                                 *)
VerdictIsDue(hi) ==
    IF hi.overload
    THEN SucceedsEnough(hi) \/ hi.continSucc >= ContinSuccLimit
    ELSE FailsTooOften(hi) \/ hi.continErr >= ContinErrLimit

NoVerdictPending == \A h \in Live(lb) : ~VerdictIsDue(lb.info[h])

(* The virtual counters the verdicts use and the real counters reported to *)
(* the reporter service move together: they differ by the seed the last    *)
(* setIdle or setOverload planted.                                         *)
CountersMatch(hi) ==
    /\ hi.vsucc = hi.rsucc + (IF hi.overload THEN 0 ELSE InitSucc)
    /\ hi.verr = hi.rerr + (IF hi.overload THEN InitErr ELSE 0)
    /\ hi.continSucc <= hi.rsucc /\ hi.continErr <= hi.rerr
    /\ hi.continSucc = 0 \/ hi.continErr = 0

CountersAgree == \A h \in Live(lb) : CountersMatch(lb.info[h])

(* An overloaded host is tried at most once in ProbeNum + 1 requests, even *)
(* when the lists empty and fill between the tries: _access_cnt may only   *)
(* lag behind the requests made since the last try.                        *)
ProbesAreRationed == [][GetHostProbed => gap = ProbeNum]_balancerVars

(* A successful call is never the reason a host is taken out of service,   *)
(* except by the window check on calls that failed before it.              *)
SuccessDoesNotOverload ==
    [][\A h \in Live(lb) :
          /\ Report(h, TRUE)
          /\ ~lb.info[h].overload
          /\ lb'.info[h].overload
          => lb.info[h].expired /\ lb.info[h].rerr > 0]_balancerVars

(* The virtual successes of a host without calls are there "so that a few  *)
(* failures just after the start do not count as overload" (HostInfo.h:9): *)
(* its first failed call overloads it only if the thresholds say so.       *)
FirstFailureIsForgiven ==
    [][\A h \in Live(lb) :
          /\ Report(h, FALSE)
          /\ lb.info[h] = NewInfo
          /\ ~MustOverload(CountFailure(NewInfo), FALSE)
          => ~lb'.info[h].overload]_balancerVars

(* No host is forgotten by the rotation: while callers keep asking, a live *)
(* host, idle or overloaded, is given out in the end unless a report moves *)
(* it to the other list, DNS drops it, or the behaviour is undefined.      *)
HostsTakeTurns ==
    \A h \in Hosts :
        /\ h \in Elems(lb.over) ~> reply = h \/ h \notin Elems(lb.over) \/ undefined
        /\ h \in Elems(lb.idle) ~> reply = h \/ h \notin Elems(lb.idle) \/ undefined
=============================================================================
