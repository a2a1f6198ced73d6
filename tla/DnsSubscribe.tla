---------------------------- MODULE DnsSubscribe ----------------------------
(***************************************************************************)
(* Subscriptions and pushes of the DNS service: classes DnsService and     *)
(* DnsSubscribe, run by the thread of gLoop (connections, requests and the *)
(* periodic route check) and by the workers of _threadpool (answers and    *)
(* pushes).                                                                *)
(*                                                                         *)
(* _bookListLock and _pushListLock are held where the fields loop and at   *)
(* say so, see BookLocked and PushLocked: a call that takes and releases a *)
(* lock without waiting for another one is a single step.  _onClient,      *)
(* _clientMap and _pushList are used by both kinds of threads, in part     *)
(* without a lock; each single access is one step here, and what           *)
(* simultaneous accesses can do to the trees behind them is not modelled.  *)
(*                                                                         *)
(* Connections are numbered by their descriptor.  No code closes a         *)
(* descriptor, so a number is never used again.  The hosts of a module are *)
(* represented by the number of their version.                             *)
(***************************************************************************)
EXTENDS Integers, Sequences, FiniteSets

CONSTANTS
    NumClients,      \* bound: connections made
    NumMods,         \* the modules are 1 .. NumMods
    Workers,         \* the threads of _threadpool
    ClientsMayLeave, \* may an agent disconnect?
    MaxChecks,       \* bound: checks of the database that load the route table
    MaxRequests      \* bound: GetRouteRequests

ASSUME SizeAssumption ==
    NumClients \in Nat /\ NumMods \in Nat /\ MaxChecks \in Nat /\ MaxRequests \in Nat
ASSUME ChoiceAssumption == ClientsMayLeave \in BOOLEAN

Clients == 1 .. NumClients
Mods == 1 .. NumMods

VARIABLES
    conn,       \* conn[c]: "new", "up" (in _onClient and _clientMap) or "closed"
    asked,      \* asked[c]: _requesModLog[c]
    book,       \* book[m]: _bookList[m]
    pushList,   \* pushList[c]: _pushList[c], {} when c is not a key
    route,      \* route[m]: version of the hosts of m in _routeDataMapA
    loop,       \* what the loop does: "free", "publish" or "booked"
    changeMods, \* the modules being published
    tasks,      \* the queue of _threadpool
    work,       \* work[w]: what worker w is doing
    got,        \* got[c][m]: version last sent to c for m, 0 for none
    requests,   \* requests made so far
    checks,     \* checks made so far
    broken      \* a push found no connection behind its descriptor

(* History, which no guard reads.                                          *)
VARIABLES
    announced,  \* announced[m]: version of m when it was last published
    late,       \* clients that connected while a worker was between copying
                \* the online clients and sorting _pushList
    missed      \* <<c, m>>: the announced hosts of m got lost on their way to
                \* c, by an erased entry or by an older answer sent after them

history == <<announced, late, missed>>
vars == <<conn, asked, book, pushList, route, loop, changeMods, tasks, work,
          got, requests, checks, broken, history>>

(* Maps and sets are iterated in the order of their keys.                  *)
Firsts(pairs) ==
    {p \in pairs : \A q \in pairs : p[1] < q[1] \/ (p[1] = q[1] /\ p[2] <= q[2])}

Idle == [at |-> "idle", online |-> {}, todo |-> {}, gone |-> {}, hosts |-> 0]

PushTask == <<>>
AnswerTask(c, m) == <<c, m>>
Tasks == {PushTask} \cup (Clients \X Mods)

Init ==
    /\ conn = [c \in Clients |-> "new"]
    /\ asked = [c \in Clients |-> {}]
    /\ book = [m \in Mods |-> {}]
    /\ pushList = [c \in Clients |-> {}]
    /\ route = [m \in Mods |-> 1]
    /\ loop = "free"
    /\ changeMods = {}
    /\ tasks = <<>>
    /\ work = [w \in Workers |-> Idle]
    /\ got = [c \in Clients |-> [m \in Mods |-> 0]]
    /\ requests = 0
    /\ checks = 0
    /\ broken = FALSE
    /\ announced = [m \in Mods |-> 1]
    /\ late = {}
    /\ missed = {}

PoolIsIdle == tasks = <<>> /\ \A w \in Workers : work[w] = Idle

Quiet == loop = "free" /\ PoolIsIdle

(* publish holds _bookListLock while it waits for _pushListLock, and       *)
(* makePublishMap holds _pushListLock until it has unsubscribed everybody. *)
BookLocked == loop = "booked"
PushLocked == \E w \in Workers : work[w].at = "unsubscribe"

----------------------------------------------------------------------------
(* The loop thread.                                                        *)

OnConnection(c) ==
    /\ loop = "free" /\ ~broken
    /\ conn[c] = "new" /\ \A d \in Clients : d < c => conn[d] # "new"
    /\ conn' = [conn EXCEPT ![c] = "up"]
    /\ late' = IF \E w \in Workers : work[w].at = "filter" THEN late \cup {c} ELSE late
    /\ UNCHANGED <<asked, book, pushList, route, loop, changeMods, tasks, work,
                   got, requests, checks, broken, announced, missed>>

(* onClose forgets the connection; its subscriptions stay.                 *)
OnClose(c) ==
    /\ ClientsMayLeave
    /\ loop = "free" /\ ~broken
    /\ conn[c] = "up"
    /\ conn' = [conn EXCEPT ![c] = "closed"]
    /\ asked' = [asked EXCEPT ![c] = {}]
    /\ UNCHANGED <<book, pushList, route, loop, changeMods, tasks, work,
                   got, requests, checks, broken, history>>

(* msgGetRouteCB subscribes on the first request for a module; a worker    *)
(* answers every one.                                                      *)
MsgGetRouteCB(c, m) ==
    /\ loop = "free" /\ ~broken
    /\ conn[c] = "up" /\ requests < MaxRequests
    /\ requests' = requests + 1
    /\ asked' = [asked EXCEPT ![c] = @ \cup {m}]
    /\ book' = IF m \in asked[c] THEN book ELSE [book EXCEPT ![m] = @ \cup {c}]
    /\ tasks' = Append(tasks, AnswerTask(c, m))
    /\ UNCHANGED <<conn, pushList, route, loop, changeMods, work, got, checks, broken,
                   history>>

(* Mistakes the checked properties must notice: a variant X_mistake stands *)
(* in for X in a mutation run, and nothing else uses it.                   *)
Publish_withoutTask ==
    /\ loop = "booked" /\ ~PushLocked /\ ~broken
    /\ pushList' = [c \in Clients |-> pushList[c] \cup {m \in changeMods : c \in book[m]}]
    /\ changeMods' = {}
    /\ loop' = "free"
    /\ UNCHANGED <<conn, asked, book, route, tasks, work, got, requests, checks, broken,
                   history>>

(* A check loads the table: the hosts of the modules of S have changed.    *)
Load(S) ==
    /\ loop = "free" /\ ~broken
    /\ checks < MaxChecks /\ checks' = checks + 1
    /\ route' = [m \in Mods |-> IF m \in S THEN route[m] + 1 ELSE route[m]]

(* checkRouteChangesFunc saw a new version: the table is loaded, then the  *)
(* modules of P, perhaps none, are published.  Which modules it finds is   *)
(* the subject of module DnsRoute; here it may be any.                     *)
CheckRouteChanges(S, P) ==
    /\ Load(S)
    /\ changeMods' = P
    /\ loop' = "publish"
    /\ announced' = [m \in Mods |-> IF m \in P THEN route'[m] ELSE announced[m]]
    /\ missed' = {q \in missed : q[2] \notin P}
    /\ UNCHANGED <<conn, asked, book, pushList, tasks, work, got, requests, broken,
                   late>>

(* It saw none, and ten seconds have passed: the table is loaded, and      *)
(* nobody is told.                                                         *)
ReloadRoutes(S) ==
    /\ Load(S) /\ S # {}
    /\ UNCHANGED <<conn, asked, book, pushList, loop, changeMods, tasks, work, got,
                   requests, broken, history>>

LockBook ==
    /\ loop = "publish" /\ ~broken
    /\ loop' = "booked"
    /\ UNCHANGED <<conn, asked, book, pushList, route, changeMods, tasks, work,
                   got, requests, checks, broken, history>>

Publish ==
    /\ loop = "booked" /\ ~PushLocked /\ ~broken
    /\ pushList' = [c \in Clients |-> pushList[c] \cup {m \in changeMods : c \in book[m]}]
    /\ tasks' = Append(tasks, PushTask)
    /\ changeMods' = {}
    /\ loop' = "free"
    /\ UNCHANGED <<conn, asked, book, route, work, got, requests, checks, broken,
                   history>>

----------------------------------------------------------------------------
(* The workers.                                                            *)

Becomes(w, at, online, todo, gone, hosts) ==
    work' = [work EXCEPT ![w] =
                [at |-> at, online |-> online, todo |-> todo, gone |-> gone,
                 hosts |-> hosts]]

Take(w) ==
    /\ work[w] = Idle /\ tasks # <<>> /\ ~broken
    /\ tasks' = Tail(tasks)
    /\ IF Head(tasks) = PushTask
       THEN Becomes(w, "push", {}, {}, {}, 0)
       ELSE Becomes(w, "answer", {}, {Head(tasks)}, {}, 0)
    /\ UNCHANGED <<conn, asked, book, pushList, route, loop, changeMods, got,
                   requests, checks, broken, history>>

(* getHosts, for an answer and for a push.                                 *)
GetHosts(w) ==
    /\ work[w].at \in {"answer", "next"} /\ ~broken
    /\ \E p \in Firsts(work[w].todo) :
           Becomes(w, IF work[w].at = "answer" THEN "reply" ELSE "send",
                   {}, work[w].todo, {}, route[p[2]])
    /\ UNCHANGED <<conn, asked, book, pushList, route, loop, changeMods, tasks,
                   got, requests, checks, broken, history>>

(* The loop writes what the workers send in the order of their sends; what *)
(* is sent on a closed connection is lost.  With what is sent, the entries *)
(* of erased are given up.                                                 *)
Behind(p) == got[p[1]][p[2]] < announced[p[2]]

Sent(p, hosts, erased) ==
    IF conn[p[1]] = "up"
    THEN /\ got' = [got EXCEPT ![p[1]][p[2]] = hosts]
         /\ missed' = {q \in missed \cup erased \cup (IF Behind(p) THEN {} ELSE {p}) :
                           got'[q[1]][q[2]] < announced[q[2]]}
    ELSE UNCHANGED <<got, missed>>

(* End of threadPoolWorkTask, which holds the connection it answers.       *)
Reply(w) ==
    /\ work[w].at = "reply" /\ ~broken
    /\ \E p \in Firsts(work[w].todo) : Sent(p, work[w].hosts, {})
    /\ work' = [work EXCEPT ![w] = Idle]
    /\ UNCHANGED <<conn, asked, book, pushList, route, loop, changeMods, tasks,
                   requests, checks, broken, announced, late>>

(* pushChangeTask: a copy of the online clients, ...                       *)
GetAllOnlineClient(w) ==
    /\ work[w].at = "push" /\ ~broken
    /\ Becomes(w, "filter", {c \in Clients : conn[c] = "up"}, {}, {}, 0)
    /\ UNCHANGED <<conn, asked, book, pushList, route, loop, changeMods, tasks,
                   got, requests, checks, broken, history>>

(* ... makePublishMap, which takes _pushListLock and sorts _pushList by    *)
(* the copy, ...                                                           *)
Entries(S) == {p \in Clients \X Mods : p[1] \in S /\ p[2] \in pushList[p[1]]}

AfterFilter_dropsRest(w, todo) == work' = [work EXCEPT ![w] = Idle]

AfterFilter(w, todo) ==
    IF todo = {} THEN work' = [work EXCEPT ![w] = Idle]
    ELSE Becomes(w, "next", {}, todo, {}, 0)

MakePublishMap_branchesSwapped(w) ==
    /\ work[w].at = "filter" /\ ~PushLocked /\ ~broken
    /\ LET gone == Entries(work[w].online)
           todo == Entries(Clients \ work[w].online)
       IN  IF gone = {} THEN AfterFilter(w, todo)
           ELSE Becomes(w, "unsubscribe", {}, todo, gone, 0)
    /\ UNCHANGED <<conn, asked, book, pushList, route, loop, changeMods, tasks,
                   got, requests, checks, broken, history>>

MakePublishMap(w) ==
    /\ work[w].at = "filter" /\ ~PushLocked /\ ~broken
    /\ LET todo == Entries(work[w].online)
           gone == Entries(Clients \ work[w].online)
       IN  IF gone = {} THEN AfterFilter(w, todo)
           ELSE Becomes(w, "unsubscribe", {}, todo, gone, 0)
    /\ UNCHANGED <<conn, asked, book, pushList, route, loop, changeMods, tasks,
                   got, requests, checks, broken, history>>

(* ... unsubscribe for every entry of a client not in the copy, each time  *)
(* under _bookListLock; the entry itself stays in _pushList, ...           *)
Unsubscribe(w) ==
    /\ work[w].at = "unsubscribe" /\ ~BookLocked /\ ~broken
    /\ \E p \in Firsts(work[w].gone) :
           /\ book' = [book EXCEPT ![p[2]] = @ \ {p[1]}]
           /\ IF work[w].gone = {p} THEN AfterFilter(w, work[w].todo)
              ELSE Becomes(w, "unsubscribe", {}, work[w].todo, work[w].gone \ {p}, 0)
    /\ UNCHANGED <<conn, asked, pushList, route, loop, changeMods, tasks, got,
                   requests, checks, broken, history>>

(* ... and for every entry the message: _clientMap must still know the     *)
(* connection, then the client's whole entry is erased, without a lock.    *)
PushToClient(w) ==
    /\ work[w].at = "send" /\ ~broken
    /\ \E p \in Firsts(work[w].todo) :
           IF conn[p[1]] # "up"
           THEN broken' = TRUE /\ UNCHANGED <<got, pushList, work, missed>>
           ELSE /\ Sent(p, work[w].hosts, Entries({p[1]}) \ (work[w].todo \ {p}))
                /\ pushList' = [pushList EXCEPT ![p[1]] = {}]
                /\ AfterFilter(w, work[w].todo \ {p})
                /\ UNCHANGED broken
    /\ UNCHANGED <<conn, asked, book, route, loop, changeMods, tasks, requests,
                   checks, announced, late>>

WorkerStep(w) ==
    \/ Take(w) \/ GetHosts(w) \/ Reply(w) \/ GetAllOnlineClient(w)
    \/ MakePublishMap(w) \/ Unsubscribe(w) \/ PushToClient(w)

Next ==
    \/ \E c \in Clients : OnConnection(c) \/ OnClose(c)
    \/ \E c \in Clients, m \in Mods : MsgGetRouteCB(c, m)
    \/ \E S, P \in SUBSET Mods : CheckRouteChanges(S, P)
    \/ \E S \in SUBSET Mods : ReloadRoutes(S)
    \/ LockBook
    \/ Publish
    \/ \E w \in Workers : WorkerStep(w)

Spec == Init /\ [][Next]_vars

(* The loop finishes a publish it has begun as soon as it gets the locks,  *)
(* and every worker keeps working.                                         *)
FairSpec ==
    Spec /\ WF_vars(LockBook) /\ WF_vars(Publish)
         /\ \A w \in Workers : WF_vars(WorkerStep(w))

----------------------------------------------------------------------------
(* Each variable has its type.                                             *)
WorkType ==
    [at : {"idle", "push", "filter", "unsubscribe", "next", "send", "answer", "reply"},
     online : SUBSET Clients, todo : SUBSET (Clients \X Mods),
     gone : SUBSET (Clients \X Mods), hosts : Nat]

TypeOK ==
    /\ conn \in [Clients -> {"new", "up", "closed"}]
    /\ asked \in [Clients -> SUBSET Mods]
    /\ book \in [Mods -> SUBSET Clients]
    /\ pushList \in [Clients -> SUBSET Mods]
    /\ route \in [Mods -> Nat]
    /\ loop \in {"free", "publish", "booked"}
    /\ changeMods \in SUBSET Mods
    /\ tasks \in Seq(Tasks)
    /\ work \in [Workers -> WorkType]
    /\ got \in [Clients -> [Mods -> Nat]]
    /\ requests \in Nat
    /\ checks \in Nat
    /\ broken \in BOOLEAN
    /\ announced \in [Mods -> Nat]
    /\ late \in SUBSET Clients
    /\ missed \in SUBSET (Clients \X Mods)

(* A connected client stays on the book for every module it asked for,     *)
(* unless it connected between the copy of the online clients and the      *)
(* sorting of _pushList.  It is subscribed only once (DnsService.cc:84),   *)
(* so a subscription removed by mistake never comes back.                  *)
OnlineStaySubscribed ==
    \A c \in Clients \ late : conn[c] = "up" =>
        \A m \in asked[c] : c \in book[m]

(* The same without the exception: makePublishMap unsubscribes whom the    *)
(* copy does not hold because "the client has disconnected"                *)
(* (DnsSubscribe.cc:51).                                                   *)
ConnectedStaySubscribed ==
    \A c \in Clients : conn[c] = "up" =>
        \A m \in asked[c] : c \in book[m]

(* When no work is left, a connected client that asked for a module and is *)
(* still on its book was last sent hosts at least as new as those last     *)
(* published, however checks, pushes, answers and departures overlapped    *)
(* and with as many workers as there are: unless its entry was erased      *)
(* together with another push (DnsSubscribe.cc:119) or an older answer was *)
(* sent after them (DnsService.cc:120, 137), nothing else loses them.      *)
LatestIsSent ==
    ~broken /\ Quiet =>
        \A c \in Clients : conn[c] = "up" =>
            \A m \in asked[c] :
                c \in book[m] /\ <<c, m>> \notin missed => ~Behind(<<c, m>>)

(* The same without exceptions (Readme.md of DnsService, end: the newest   *)
(* hosts of a module are notified to its clients).                         *)
PublishedIsSent ==
    ~broken /\ Quiet =>
        \A c \in Clients : conn[c] = "up" => \A m \in asked[c] : ~Behind(<<c, m>>)

(* A client is only queued for pushes of modules it is or was subscribed   *)
(* to, and nobody is pushed or queued before connecting.                   *)
PushesWereAsked ==
    \A c \in Clients : conn[c] # "closed" =>
        /\ pushList[c] \subseteq asked[c]
        /\ \A m \in Mods : c \in book[m] => m \in asked[c]
        /\ \A w \in Workers, m \in Mods : <<c, m>> \in work[w].todo => m \in asked[c]

(* What a connected subscriber does not have yet of what was published is  *)
(* sent to it in the end, or it got lost in one of the ways LatestIsSent   *)
(* names, or its subscription did, or the service has stopped: the pool by *)
(* the missing connection, or loop and pool by each other's locks.         *)
Deadlocked == BookLocked /\ PushLocked

ChangesReachClients ==
    \A c \in Clients, m \in Mods :
        (conn[c] = "up" /\ m \in asked[c] /\ c \in book[m] /\ Behind(<<c, m>>))
            ~> (\/ conn[c] # "up" \/ ~Behind(<<c, m>>)
                \/ <<c, m>> \in missed \/ c \notin book[m]
                \/ broken \/ Deadlocked)

(* The periodic check of the database goes on (DnsRoute.cc:16): the loop   *)
(* always comes back from publishing.                                      *)
MonitoringGoesOn == []<>(loop = "free" \/ broken)

=============================================================================
