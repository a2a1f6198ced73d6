------------------------------- MODULE Manage -------------------------------
(***************************************************************************)
(* The agent: class Manage with the balancer of every module it was asked  *)
(* about, driven by three kinds of threads - the server's loop, which runs *)
(* the callers' requests, and the loops of DnsClient and RepoterClient -   *)
(* together with the DNS service on the other end of the DnsClient link.   *)
(*                                                                         *)
(* Every method of Manage holds _mutex throughout, so every request and    *)
(* every answer is one step; what interleaves is the order of requests,    *)
(* answers and pushes.  The DNS service answers from a pool of workers and *)
(* pushes from another thread, so messages of the link reach the agent in  *)
(* any order.  The link is opened once and never again: no code reconnects.*)
(***************************************************************************)
EXTENDS LoadBalance

CONSTANTS
    Mods,          \* the (modid, cmdid) pairs callers ask for
    DnsPeer, ReporterPeer,     \* the two services the agent connects to
    LinksMayClose, \* may an established connection be lost?
    MaxCalls,      \* bound: calls reported on a host in one window
    MaxChanges     \* bound: changes of the DNS table

ASSUME ManageAssumption ==
    /\ LinksMayClose \in BOOLEAN
    /\ DnsPeer # ReporterPeer
    /\ MaxChanges \in Nat

Peers == {DnsPeer, ReporterPeer}

VARIABLES
    known,      \* the keys of _loadbalances
    lbs,        \* lbs[m]: host state of the balancer of m
    status,     \* status[m]: its _status
    stale,      \* stale[m]: more than UPDATE_TIMEOUT since _lastUpdateTime
    link,       \* link[p]: the connection of the client of p
    requests,   \* requests[m]: GetRouteRequests for m not answered yet
    answers,    \* answers[m][S]: GetRouteResponses naming S, under way
    table,      \* table[m]: the hosts of m in the DNS service
    followed,   \* the modules the agent's connection subscribed to
    changes,    \* changes of the table so far
    broken      \* "no", or why the behaviour of the agent is undefined

agent == <<known, lbs, status, stale>>
vars == <<known, lbs, status, stale, link, requests, answers,
          table, followed, changes, broken>>

Running == broken = "no"

NewLb == NewBalancer(0)

Init ==
    /\ known = {}
    /\ lbs = [m \in Mods |-> NewLb]
    /\ status = [m \in Mods |-> "PULLING"]
    /\ stale = [m \in Mods |-> FALSE]
    /\ link = [p \in Peers |-> "connecting"]
    /\ requests = [m \in Mods |-> 0]
    /\ answers = [m \in Mods |-> [S \in SUBSET Hosts |-> 0]]
    /\ table \in [Mods -> SUBSET Hosts]
    /\ followed = {}
    /\ changes = 0
    /\ broken = "no"

----------------------------------------------------------------------------
(* pullHostFromDns uses the client's connection unchecked: before it is    *)
(* established and after it is lost the pointer is null.  Otherwise the    *)
(* request goes out and the status tells.                                  *)
Pull(m) ==
    IF link[DnsPeer] = "up"
    THEN /\ requests' = [requests EXCEPT ![m] = @ + 1]
         /\ status' = [status EXCEPT ![m] = "PULLING"]
         /\ UNCHANGED broken
    ELSE /\ broken' = "null connection"
         /\ UNCHANGED <<requests, status>>

NoPull == UNCHANGED <<requests, status, broken>>

(* Variants X_mistake stand in for X in a mutation run only (see HostInfo).*)
IsOld_whilePulling(m) == status[m] = "PULLING" /\ stale[m]

(* The refresh at the end of getRoute and getTheBestHost.                  *)
IsOld(m) == status[m] = "NEW" /\ stale[m]

RefreshIfOld(m) == IF IsOld(m) THEN Pull(m) ELSE NoPull

Undefined(why) ==
    /\ broken' = why
    /\ UNCHANGED <<known, lbs, status, stale, requests>>

Environment == UNCHANGED <<link, answers, table, followed, changes>>

(* getRoute and getTheBestHost on a module not in _loadbalances: the new   *)
(* object is in the map before the request is sent.                        *)
FirstRequest(m) ==
    /\ Running /\ m \notin known
    /\ known' = known \cup {m}
    /\ \E cnt \in 0 .. ProbeNum : lbs' = [lbs EXCEPT ![m] = NewBalancer(cnt)]
    /\ stale' = [stale EXCEPT ![m] = FALSE]
    /\ Pull(m)
    /\ Environment

(* getTheBestHost on a module with hosts.  Without any (it is being        *)
(* pulled) the answer is RET_NOEXIST and nothing changes.                  *)
GetTheBestHost(m) ==
    /\ Running /\ m \in known /\ ~Empty(lbs[m])
    /\ IF ChoiceIsUndefined(lbs[m])
       THEN Undefined("front of an empty list")
       ELSE /\ lbs' = [lbs EXCEPT ![m] = ChoiceOneHost(@)]
            /\ RefreshIfOld(m)
            /\ UNCHANGED <<known, stale>>
    /\ Environment

(* getRoute on a known module reads every host object.                     *)
GetRoute(m) ==
    /\ Running /\ m \in known
    /\ IF GetAllIsUndefined(lbs[m])
       THEN Undefined("deleted host read")
       ELSE RefreshIfOld(m) /\ UNCHANGED <<known, lbs, stale>>
    /\ Environment

(* reportHost adjusts the host, then sends the statistics of every listed  *)
(* host to the reporter, through another connection used unchecked.        *)
ReportHost(m, h, ok) ==
    /\ Running /\ m \in known
    /\ h \in lbs[m].hostMap => lbs[m].info[h].rsucc + lbs[m].info[h].rerr < MaxCalls
    /\ IF AdjustIsUndefined(lbs[m], h)
       THEN Undefined("deleted host read")
       ELSE /\ lbs' = [lbs EXCEPT ![m] = AdjustHostWhereTo(@, h, ok)]
            /\ broken' = IF ~Empty(lbs[m]) /\ link[ReporterPeer] # "up"
                         THEN "null connection" ELSE "no"
            /\ UNCHANGED <<known, status, stale, requests>>
    /\ Environment

(* updateLocalHostsMap, run by the DnsClient thread for every message: an  *)
(* answer for a module that was dropped since is ignored, an answer        *)
(* without hosts drops the module.                                         *)
Receive(m, S) ==
    /\ Running /\ answers[m][S] > 0
    /\ answers' = [answers EXCEPT ![m][S] = @ - 1]
    /\ UNCHANGED <<link, requests, table, followed, changes>>

ReceiveIgnored(m, S) ==
    /\ Receive(m, S) /\ m \notin known
    /\ UNCHANGED <<agent, broken>>

ReceiveNone_keeps(m) ==
    /\ Receive(m, {}) /\ m \in known
    /\ status' = [status EXCEPT ![m] = "NEW"]
    /\ stale' = [stale EXCEPT ![m] = FALSE]
    /\ UNCHANGED <<known, lbs, broken>>

ReceiveNone(m) ==
    /\ Receive(m, {}) /\ m \in known
    /\ known' = known \ {m}
    /\ lbs' = [lbs EXCEPT ![m] = NewLb]
    /\ status' = [status EXCEPT ![m] = "PULLING"]
    /\ stale' = [stale EXCEPT ![m] = FALSE]
    /\ UNCHANGED broken

ReceiveHosts_keepsPulling(m, S) ==
    /\ Receive(m, S) /\ m \in known /\ S # {}
    /\ ~UpdateIsUndefined(lbs[m], S)
    /\ \E b \in UpdateLocalHostsFromDns(lbs[m], S) : lbs' = [lbs EXCEPT ![m] = b]
    /\ stale' = [stale EXCEPT ![m] = FALSE]
    /\ UNCHANGED <<known, status, broken>>

ReceiveHosts(m, S) ==
    /\ Receive(m, S) /\ m \in known /\ S # {}
    /\ IF UpdateIsUndefined(lbs[m], S)
       THEN broken' = "host deleted twice" /\ UNCHANGED agent
       ELSE /\ \E b \in UpdateLocalHostsFromDns(lbs[m], S) :
                   lbs' = [lbs EXCEPT ![m] = b]
            /\ status' = [status EXCEPT ![m] = "NEW"]
            /\ stale' = [stale EXCEPT ![m] = FALSE]
            /\ UNCHANGED <<known, broken>>

DnsClientMessage(m, S) ==
    ReceiveIgnored(m, S) \/ (S = {} /\ ReceiveNone(m)) \/ ReceiveHosts(m, S)

(* Time: UPDATE_TIMEOUT passes for a module, IDLE_TIMEOUT or               *)
(* OVERLOAD_TIMEOUT for a host.                                            *)
GrowOld(m) ==
    /\ Running /\ m \in known /\ status[m] = "NEW" /\ ~stale[m]
    /\ stale' = [stale EXCEPT ![m] = TRUE]
    /\ UNCHANGED <<known, lbs, status, requests, broken>> /\ Environment

Expire(m, h) ==
    /\ Running /\ m \in known /\ h \in Live(lbs[m]) /\ ~lbs[m].info[h].expired
    /\ lbs' = [lbs EXCEPT ![m].info[h].expired = TRUE]
    /\ UNCHANGED <<known, status, stale, requests, broken>> /\ Environment

----------------------------------------------------------------------------
(* The connections of DnsClient and RepoterClient.  The messages of a lost *)
(* connection are lost with it, and DNS drops its subscriptions.           *)
Connect(p) ==
    /\ Running /\ link[p] = "connecting"
    /\ link' = [link EXCEPT ![p] = "up"]
    /\ UNCHANGED <<agent, requests, answers, table, followed, changes, broken>>

CloseDns ==
    /\ LinksMayClose /\ Running /\ link[DnsPeer] = "up"
    /\ link' = [link EXCEPT ![DnsPeer] = "closed"]
    /\ requests' = [m \in Mods |-> 0]
    /\ answers' = [m \in Mods |-> [S \in SUBSET Hosts |-> 0]]
    /\ followed' = {}
    /\ UNCHANGED <<agent, table, changes, broken>>

CloseReporter ==
    /\ LinksMayClose /\ Running /\ link[ReporterPeer] = "up"
    /\ link' = [link EXCEPT ![ReporterPeer] = "closed"]
    /\ UNCHANGED <<agent, requests, answers, table, followed, changes, broken>>

DnsAnswer_silentWhenEmpty(m) ==
    /\ Running /\ requests[m] > 0
    /\ requests' = [requests EXCEPT ![m] = @ - 1]
    /\ answers' = IF table[m] = {} THEN answers
                  ELSE [answers EXCEPT ![m][table[m]] = @ + 1]
    /\ followed' = followed \cup {m}
    /\ UNCHANGED <<agent, link, table, changes, broken>>

(* DNS subscribes the connection to the module and a worker answers with   *)
(* the hosts the table names when it reads it.                             *)
DnsAnswer(m) ==
    /\ Running /\ requests[m] > 0
    /\ requests' = [requests EXCEPT ![m] = @ - 1]
    /\ answers' = [answers EXCEPT ![m][table[m]] = @ + 1]
    /\ followed' = followed \cup {m}
    /\ UNCHANGED <<agent, link, table, changes, broken>>

(* An administrator changes the hosts of a module.  DNS pushes the change  *)
(* to a subscriber, or misses it (see DnsRoute).                           *)
DnsChange(m, S) ==
    /\ Running /\ changes < MaxChanges
    /\ S # table[m]
    /\ table' = [table EXCEPT ![m] = S]
    /\ changes' = changes + 1
    /\ \/ m \in followed
          /\ answers' = [answers EXCEPT ![m][S] = @ + 1]
       \/ UNCHANGED answers
    /\ UNCHANGED <<agent, link, requests, followed, broken>>

AgentStep ==
    \E m \in Mods :
        \/ FirstRequest(m) \/ GetTheBestHost(m) \/ GetRoute(m)
        \/ \E h \in Hosts, ok \in BOOLEAN : ReportHost(m, h, ok)
        \/ \E S \in SUBSET Hosts : DnsClientMessage(m, S)
        \/ GrowOld(m)
        \/ \E h \in Hosts : Expire(m, h)

Next ==
    \/ AgentStep
    \/ \E p \in Peers : Connect(p)
    \/ CloseDns
    \/ CloseReporter
    \/ \E m \in Mods : DnsAnswer(m)
    \/ \E m \in Mods, S \in SUBSET Hosts : DnsChange(m, S)

Spec == Init /\ [][Next]_vars

(* What runs without anyone's help: the two threads' connect, the DNS      *)
(* workers, the DnsClient loop, and the clock.                             *)
SystemFairness ==
    /\ \A p \in Peers : WF_vars(Connect(p))
    /\ \A m \in Mods : WF_vars(DnsAnswer(m)) /\ WF_vars(GrowOld(m))
    /\ \A m \in Mods, S \in SUBSET Hosts : WF_vars(DnsClientMessage(m, S))

(* Callers that keep asking for a host.                                    *)
CallerFairness ==
    \A m \in Mods : WF_vars(FirstRequest(m)) /\ WF_vars(GetTheBestHost(m))

FairSpec == Spec /\ SystemFairness /\ CallerFairness

----------------------------------------------------------------------------
(* Each variable has its type.                                             *)
TypeOK ==
    /\ known \in SUBSET Mods
    /\ lbs \in [Mods -> BalancerType]
    /\ status \in [Mods -> {"PULLING", "NEW"}]
    /\ stale \in [Mods -> BOOLEAN]
    /\ link \in [Peers -> {"connecting", "up", "closed"}]
    /\ requests \in [Mods -> Nat]
    /\ answers \in [Mods -> [SUBSET Hosts -> Nat]]
    /\ table \in [Mods -> SUBSET Hosts]
    /\ followed \in SUBSET Mods
    /\ changes \in Nat
    /\ broken \in {"no", "null connection", "front of an empty list",
                   "deleted host read", "host deleted twice"}

(* The assertion of getTheBestHost (Manage.cc:80): a module without hosts  *)
(* is being pulled, through every mix of answers, empty answers, pushes    *)
(* and repeated pulls.                                                     *)
EmptyMeansPulling == \A m \in known : Empty(lbs[m]) => status[m] = "PULLING"

(* Every balancer of the agent keeps its hosts where they belong.          *)
BalancersPlaceHosts == \A m \in Mods : WellPlaced(lbs[m])

(* While the link lasts, PULLING means that a request or an answer that    *)
(* will end it is under way (LoadBalance.h:56): pushes, late answers to    *)
(* earlier requests and re-created modules must not use it up.             *)
UnderWay(m) == requests[m] > 0 \/ \E S \in SUBSET Hosts : answers[m][S] > 0

PullingIsUnderWay ==
    Running /\ link[DnsPeer] # "closed" =>
        \A m \in known : status[m] = "PULLING" => UnderWay(m)

(* A pull ends: with hosts, or with the module forgotten, or with the link.*)
PullsEnd ==
    \A m \in Mods :
        (m \in known /\ status[m] = "PULLING")
            ~> (m \notin known \/ status[m] = "NEW" \/ ~Running
                  \/ link[DnsPeer] = "closed")

(* When callers keep asking, the refresh after UPDATE_TIMEOUT makes the    *)
(* agent notice again and again what DNS names, even if pushes are missed  *)
(* and answers overtake each other: what it serves are the hosts of the    *)
(* table without those it deleted earlier.  Only a lost link ends this.    *)
Noticed(m) ==
    IF m \in known THEN Live(lbs[m]) = table[m] \ lbs[m].freed ELSE table[m] = {}

UpdatesAreNoticed ==
    \A m \in Mods : []<>(Noticed(m) \/ ~Running \/ link[DnsPeer] = "closed")

(* The refresh is there "so that the load balancing does not miss an       *)
(* update of the dnsserver" (Manage.cc:44): what is served is again and    *)
(* again all that DNS names.                                               *)
UpdatesAreServed ==
    \A m \in Mods :
        []<>(~Running \/ IF m \in known THEN Live(lbs[m]) = table[m] ELSE table[m] = {})

(* The agent keeps the promise of RouteCache, through late, repeated and   *)
(* empty answers, pushes, dropped hosts, refreshes and lost links.         *)
Phase ==
    [m \in Mods |-> IF m \notin known THEN "unknown"
                    ELSE IF status[m] = "PULLING" THEN "pulling" ELSE "ready"]

ServedHosts == [m \in Mods |-> Live(lbs[m])]

DroppedHosts == [m \in Mods |-> lbs[m].freed]

Promise == INSTANCE RouteCache WITH
    phase <- Phase, hosts <- ServedHosts, dropped <- DroppedHosts

KeepsPromise == Promise!Spec
=============================================================================
