------------------------------ MODULE DnsProofs -------------------------------
(***************************************************************************)
(* What holds of the DNS service.  Of its subscriptions, for any number of *)
(* clients, modules, workers, checks and requests.  And of its route       *)
(* tables, for any modules and any number of changes made at any time: the *)
(* types, that hosts only move forward, and that a known version has been  *)
(* loaded and its changes published, or one of three steps lost a change.  *)
(***************************************************************************)
EXTENDS DnsSubscribe, DnsRoute, SequenceTheorems, TLAPS

----------------------------------------------------------------------------
(* Subscriptions.                                                          *)

(* The history variables are one conjunct of most steps' UNCHANGED.        *)
USE DEF history

(* What a queued answer is about was asked for, or its client has left.    *)
TasksWereAsked ==
    \A i \in 1 .. Len(tasks), c \in Clients, m \in Mods :
        tasks[i] = AnswerTask(c, m) /\ conn[c] # "closed" => m \in asked[c]

Inv == TypeOK /\ PushesWereAsked /\ TasksWereAsked

LEMMA InitInv == Init => Inv
<1> SUFFICES ASSUME Init PROVE Inv
  OBVIOUS
<1>1. Idle \in WorkType /\ Idle.todo = {}
  BY DEF Idle, WorkType
<1>2. tasks \in Seq(Tasks) /\ Len(tasks) = 0
  BY EmptySeq DEF Init
<1>3. TypeOK
  BY <1>1, <1>2 DEF Init, TypeOK
<1>4. PushesWereAsked
  BY <1>1 DEF Init, PushesWereAsked
<1>5. TasksWereAsked
  BY <1>2 DEF TasksWereAsked
<1> QED  BY <1>3, <1>4, <1>5 DEF Inv

(* Taking the first task leaves a queue of the others, in order.           *)
LEMMA TailTasks ==
    ASSUME tasks \in Seq(Tasks), tasks # <<>>
    PROVE  /\ Head(tasks) \in Tasks /\ Head(tasks) = tasks[1] /\ 1 \in 1 .. Len(tasks)
           /\ Tail(tasks) \in Seq(Tasks)
           /\ \A i \in 1 .. Len(Tail(tasks)) :
                 i + 1 \in 1 .. Len(tasks) /\ Tail(tasks)[i] = tasks[i + 1]
<1>1. /\ Len(tasks) \in Nat \ {0} /\ Head(tasks) = tasks[1]
      /\ Tail(tasks) \in Seq(Tasks) /\ Len(Tail(tasks)) = Len(tasks) - 1
      /\ \A i \in 1 .. Len(Tail(tasks)) : Tail(tasks)[i] = tasks[i + 1]
  BY EmptySeq, HeadTailProperties
<1>2. tasks[1] \in Tasks
  BY <1>1, ElementOfSeq
<1> QED  BY <1>1, <1>2

(* A queued task is the new one or one that was there.                     *)
LEMMA AppendTasks ==
    ASSUME tasks \in Seq(Tasks), NEW t \in Tasks
    PROVE  /\ Append(tasks, t) \in Seq(Tasks)
           /\ \A i \in 1 .. Len(Append(tasks, t)) :
                 \/ Append(tasks, t)[i] = t
                 \/ i \in 1 .. Len(tasks) /\ Append(tasks, t)[i] = tasks[i]
BY AppendProperties

(* What a worker turns to keeps the type and the promise of todo.          *)
LEMMA BecomesInv ==
    ASSUME Inv, NEW w \in Workers,
           NEW at \in {"idle", "push", "filter", "unsubscribe", "next", "send",
                       "answer", "reply"},
           NEW online \in SUBSET Clients, NEW todo \in SUBSET (Clients \X Mods),
           NEW gone \in SUBSET (Clients \X Mods), NEW hosts \in Nat,
           \A c \in Clients, m \in Mods :
               <<c, m>> \in todo /\ conn[c] # "closed" => m \in asked[c],
           Becomes(w, at, online, todo, gone, hosts), UNCHANGED <<conn, asked>>
    PROVE  /\ work' \in [Workers -> WorkType]
           /\ \A c \in Clients : conn'[c] # "closed" =>
                 \A v \in Workers, m \in Mods :
                     <<c, m>> \in work'[v].todo => m \in asked'[c]
BY DEF Inv, TypeOK, WorkType, Becomes, PushesWereAsked

LEMMA IdleInv ==
    ASSUME Inv, NEW w \in Workers, work' = [work EXCEPT ![w] = Idle],
           UNCHANGED <<conn, asked>>
    PROVE  /\ work' \in [Workers -> WorkType]
           /\ \A c \in Clients : conn'[c] # "closed" =>
                 \A v \in Workers, m \in Mods :
                     <<c, m>> \in work'[v].todo => m \in asked'[c]
BY DEF Inv, TypeOK, WorkType, Idle, PushesWereAsked

LEMMA NothingToDo ==
    ASSUME Inv, NEW w \in Workers, NEW at \in {"push", "filter"},
           NEW online \in SUBSET Clients,
           Becomes(w, at, online, {}, {}, 0), UNCHANGED <<conn, asked>>
    PROVE  /\ work' \in [Workers -> WorkType]
           /\ \A c \in Clients : conn'[c] # "closed" =>
                 \A v \in Workers, m \in Mods :
                     <<c, m>> \in work'[v].todo => m \in asked'[c]
BY DEF Inv, TypeOK, WorkType, Becomes, PushesWereAsked

(* The rest of a worker's list is still a list of what was asked for.      *)
LEMMA AfterFilterInv ==
    ASSUME Inv, NEW w \in Workers, NEW todo \in SUBSET (Clients \X Mods),
           \A c \in Clients, m \in Mods :
               <<c, m>> \in todo /\ conn[c] # "closed" => m \in asked[c],
           AfterFilter(w, todo), UNCHANGED <<conn, asked>>
    PROVE  /\ work' \in [Workers -> WorkType]
           /\ \A c \in Clients : conn'[c] # "closed" =>
                 \A v \in Workers, m \in Mods :
                     <<c, m>> \in work'[v].todo => m \in asked'[c]
<1>1. CASE todo = {}
  <2>1. work' = [work EXCEPT ![w] = Idle]
    BY <1>1 DEF AfterFilter
  <2> QED  BY <2>1, IdleInv
<1>2. CASE todo # {}
  <2>1. Becomes(w, "next", {}, todo, {}, 0)
    BY <1>2 DEF AfterFilter
  <2> QED  BY <2>1, BecomesInv
<1> QED  BY <1>1, <1>2

----------------------------------------------------------------------------
(* The steps of the loop thread.                                           *)

LEMMA ConnectionInv ==
    ASSUME Inv, NEW c \in Clients, OnConnection(c) \/ OnClose(c)
    PROVE  Inv'
<1>1. CASE OnConnection(c)
  <2>1. TypeOK'
    BY <1>1 DEF Inv, TypeOK, OnConnection
  <2> QED  BY <1>1, <2>1 DEF Inv, TypeOK, OnConnection, PushesWereAsked, TasksWereAsked
<1>2. CASE OnClose(c)
  <2>1. TypeOK'
    BY <1>2 DEF Inv, TypeOK, OnClose
  <2> QED  BY <1>2, <2>1 DEF Inv, TypeOK, OnClose, PushesWereAsked, TasksWereAsked
<1> QED  BY <1>1, <1>2

LEMMA RequestInv ==
    ASSUME Inv, NEW c \in Clients, NEW m \in Mods, MsgGetRouteCB(c, m)
    PROVE  Inv'
<1>1. TypeOK' /\ \A i \in 1 .. Len(tasks') :
          tasks'[i] = AnswerTask(c, m) \/ (i \in 1 .. Len(tasks) /\ tasks'[i] = tasks[i])
  <2>1. AnswerTask(c, m) \in Tasks
    BY DEF AnswerTask, Tasks
  <2>2. tasks \in Seq(Tasks) /\ tasks' = Append(tasks, AnswerTask(c, m))
    BY DEF Inv, TypeOK, MsgGetRouteCB
  <2>3. /\ tasks' \in Seq(Tasks)
        /\ \A i \in 1 .. Len(tasks') :
              tasks'[i] = AnswerTask(c, m) \/ (i \in 1 .. Len(tasks) /\ tasks'[i] = tasks[i])
    BY <2>1, <2>2, AppendTasks
  <2>4. asked' \in [Clients -> SUBSET Mods] /\ book' \in [Mods -> SUBSET Clients]
    BY DEF Inv, TypeOK, MsgGetRouteCB
  <2> QED  BY <2>3, <2>4 DEF Inv, TypeOK, MsgGetRouteCB
<1>2. PushesWereAsked'
  BY DEF Inv, TypeOK, MsgGetRouteCB, PushesWereAsked
<1>3. TasksWereAsked'
  <2>1. SUFFICES ASSUME NEW i \in 1 .. Len(tasks'), NEW d \in Clients, NEW k \in Mods,
                        tasks'[i] = AnswerTask(d, k), conn[d] # "closed"
                 PROVE  k \in asked'[d]
    BY DEF TasksWereAsked, MsgGetRouteCB, AnswerTask
  <2>2. m \in asked'[c] /\ asked[d] \subseteq asked'[d]
    BY DEF Inv, TypeOK, MsgGetRouteCB
  <2>3. CASE tasks'[i] = AnswerTask(c, m)
    BY <2>1, <2>2, <2>3 DEF AnswerTask
  <2>4. CASE i \in 1 .. Len(tasks) /\ tasks'[i] = tasks[i]
    BY <2>1, <2>2, <2>4 DEF Inv, TasksWereAsked
  <2> QED  BY <1>1, <2>3, <2>4
<1> QED  BY <1>1, <1>2, <1>3 DEF Inv

LEMMA PublishInv ==
    ASSUME Inv,
           \/ \E S, P \in SUBSET Mods : CheckRouteChanges(S, P)
           \/ \E S \in SUBSET Mods : ReloadRoutes(S)
           \/ LockBook
           \/ Publish
    PROVE  Inv'
<1>1. ASSUME NEW S \in SUBSET Mods, Load(S) PROVE route' \in [Mods -> Nat] /\ checks' \in Nat
  BY <1>1 DEF Inv, Load, TypeOK
<1>2. ASSUME NEW S \in SUBSET Mods, NEW P \in SUBSET Mods, CheckRouteChanges(S, P) PROVE Inv'
  <2>1. route' \in [Mods -> Nat] /\ checks' \in Nat
    BY <1>1, <1>2 DEF CheckRouteChanges
  <2>2. announced' \in [Mods -> Nat] /\ missed' \in SUBSET (Clients \X Mods)
    BY <1>2, <2>1 DEF Inv, TypeOK, CheckRouteChanges
  <2> QED  BY <1>2, <2>1, <2>2
           DEF Inv, CheckRouteChanges, Load, TypeOK, PushesWereAsked, TasksWereAsked
<1>3. ASSUME NEW S \in SUBSET Mods, ReloadRoutes(S) PROVE Inv'
  BY <1>1, <1>3 DEF Inv, ReloadRoutes, Load, TypeOK, PushesWereAsked, TasksWereAsked
<1>4. CASE LockBook
  BY <1>4 DEF Inv, LockBook, TypeOK, PushesWereAsked, TasksWereAsked
<1>5. CASE Publish
  <2>1. tasks \in Seq(Tasks) /\ PushTask \in Tasks /\ tasks' = Append(tasks, PushTask)
    BY <1>5 DEF Inv, TypeOK, Publish, Tasks
  <2>2. /\ tasks' \in Seq(Tasks)
        /\ \A i \in 1 .. Len(tasks') :
              tasks'[i] = PushTask \/ (i \in 1 .. Len(tasks) /\ tasks'[i] = tasks[i])
    BY <2>1, AppendTasks
  <2>3. TypeOK'
    BY <1>5, <2>2 DEF Inv, TypeOK, Publish
  <2>4. PushesWereAsked'
    BY <1>5 DEF Inv, TypeOK, Publish, PushesWereAsked
  <2>5. TasksWereAsked'
    <3>1. \A c \in Clients, m \in Mods : AnswerTask(c, m) # PushTask
      BY DEF AnswerTask, PushTask
    <3>2. SUFFICES ASSUME NEW i \in 1 .. Len(tasks'), NEW d \in Clients, NEW k \in Mods,
                          tasks'[i] = AnswerTask(d, k), conn[d] # "closed"
                   PROVE  k \in asked[d]
      BY <1>5 DEF Publish, TasksWereAsked, AnswerTask
    <3>3. i \in 1 .. Len(tasks) /\ tasks'[i] = tasks[i]
      BY <2>2, <3>1, <3>2
    <3> QED  BY <3>2, <3>3 DEF Inv, TasksWereAsked
  <2> QED  BY <2>3, <2>4, <2>5 DEF Inv
<1> QED  BY <1>2, <1>3, <1>4, <1>5

----------------------------------------------------------------------------
(* The steps of a worker.                                                  *)

LEMMA TakeInv == ASSUME Inv, NEW w \in Workers, Take(w) PROVE Inv'
<1>1. tasks \in Seq(Tasks) /\ tasks # <<>> /\ tasks' = Tail(tasks)
  BY DEF Inv, TypeOK, Take
<1>2. /\ Head(tasks) \in Tasks /\ Head(tasks) = tasks[1] /\ 1 \in 1 .. Len(tasks)
      /\ tasks' \in Seq(Tasks)
      /\ \A i \in 1 .. Len(tasks') :
            i + 1 \in 1 .. Len(tasks) /\ tasks'[i] = tasks[i + 1]
  BY <1>1, TailTasks
<1>3. UNCHANGED <<conn, asked>>
  BY DEF Take
<1>4. /\ work' \in [Workers -> WorkType]
      /\ \A c \in Clients : conn'[c] # "closed" =>
            \A v \in Workers, m \in Mods : <<c, m>> \in work'[v].todo => m \in asked'[c]
  <2>1. CASE Head(tasks) = PushTask
    <3>1. Becomes(w, "push", {}, {}, {}, 0)
      BY <2>1 DEF Take
    <3> QED  BY <1>3, <3>1, NothingToDo
  <2>2. CASE Head(tasks) # PushTask
    <3>1. Becomes(w, "answer", {}, {Head(tasks)}, {}, 0)
      BY <2>2 DEF Take
    <3>2. {Head(tasks)} \in SUBSET (Clients \X Mods)
      BY <1>2, <2>2 DEF Tasks
    <3>3. \A c \in Clients, m \in Mods :
              <<c, m>> \in {Head(tasks)} /\ conn[c] # "closed" => m \in asked[c]
      BY <1>2 DEF Inv, TasksWereAsked, AnswerTask
    <3> QED  BY <1>3, <3>1, <3>2, <3>3, BecomesInv
  <2> QED  BY <2>1, <2>2
<1>5. TasksWereAsked'
  BY <1>2, <1>3 DEF Inv, TasksWereAsked
<1> QED  BY <1>2, <1>4, <1>5 DEF Inv, TypeOK, PushesWereAsked, Take

(* What is sent, and what got lost with it.                                *)
LEMMA SentInv ==
    ASSUME Inv, NEW p \in Clients \X Mods, NEW hosts \in Nat,
           NEW erased \in SUBSET (Clients \X Mods), Sent(p, hosts, erased)
    PROVE  /\ got' \in [Clients -> [Mods -> Nat]]
           /\ missed' \in SUBSET (Clients \X Mods)
<1>1. p[1] \in Clients /\ p[2] \in Mods
  OBVIOUS
<1>2. CASE conn[p[1]] = "up"
  <2>1. /\ got' = [got EXCEPT ![p[1]][p[2]] = hosts]
        /\ missed' \subseteq missed \cup erased \cup {p}
    BY <1>2 DEF Sent
  <2> QED  BY <1>1, <2>1 DEF Inv, TypeOK
<1>3. CASE conn[p[1]] # "up"
  BY <1>3 DEF Sent, Inv, TypeOK
<1> QED  BY <1>2, <1>3

LEMMA AnswerInv ==
    ASSUME Inv, NEW w \in Workers,
           GetHosts(w) \/ Reply(w) \/ GetAllOnlineClient(w)
    PROVE  Inv'
<1>1. CASE GetHosts(w)
  <2>1. PICK p \in Firsts(work[w].todo) :
            Becomes(w, IF work[w].at = "answer" THEN "reply" ELSE "send",
                    {}, work[w].todo, {}, route[p[2]])
    BY <1>1 DEF GetHosts
  <2>2. work[w] \in WorkType /\ p \in Clients \X Mods /\ route[p[2]] \in Nat
    BY DEF Inv, TypeOK, WorkType, Firsts
  <2>3. /\ work' \in [Workers -> WorkType]
        /\ \A c \in Clients : conn'[c] # "closed" =>
              \A v \in Workers, m \in Mods : <<c, m>> \in work'[v].todo => m \in asked'[c]
    <3>1. work[w].todo \in SUBSET (Clients \X Mods)
      BY <2>2 DEF WorkType
    <3>2. \A c \in Clients, m \in Mods :
              <<c, m>> \in work[w].todo /\ conn[c] # "closed" => m \in asked[c]
      BY DEF Inv, PushesWereAsked
    <3>3. UNCHANGED <<conn, asked>>
      BY <1>1 DEF GetHosts
    <3>4. (IF work[w].at = "answer" THEN "reply" ELSE "send")
              \in {"idle", "push", "filter", "unsubscribe", "next", "send",
                   "answer", "reply"}
      OBVIOUS
    <3> QED  BY <2>1, <2>2, <3>1, <3>2, <3>3, <3>4, BecomesInv
  <2> QED  BY <1>1, <2>3 DEF Inv, TypeOK, PushesWereAsked, TasksWereAsked, GetHosts
<1>2. CASE Reply(w)
  <2>1. work' = [work EXCEPT ![w] = Idle] /\ UNCHANGED <<conn, asked>>
    BY <1>2 DEF Reply
  <2>2. PICK p \in Firsts(work[w].todo) : Sent(p, work[w].hosts, {})
    BY <1>2 DEF Reply
  <2>3. p \in Clients \X Mods /\ work[w].hosts \in Nat
    BY DEF Inv, TypeOK, WorkType, Firsts
  <2>4. got' \in [Clients -> [Mods -> Nat]] /\ missed' \in SUBSET (Clients \X Mods)
    BY <2>2, <2>3, SentInv
  <2>5. TypeOK'
    BY <1>2, <2>1, <2>4, IdleInv DEF Inv, TypeOK, Reply
  <2>6. PushesWereAsked'
    BY <1>2, <2>1, IdleInv DEF Inv, PushesWereAsked, Reply
  <2>7. TasksWereAsked'
    BY <1>2, <2>1 DEF Inv, TasksWereAsked, Reply
  <2> QED  BY <2>5, <2>6, <2>7 DEF Inv
<1>3. CASE GetAllOnlineClient(w)
  <2>1. /\ Becomes(w, "filter", {c \in Clients : conn[c] = "up"}, {}, {}, 0)
        /\ UNCHANGED <<conn, asked>>
        /\ {c \in Clients : conn[c] = "up"} \in SUBSET Clients
    BY <1>3 DEF GetAllOnlineClient
  <2>2. /\ work' \in [Workers -> WorkType]
        /\ \A c \in Clients : conn'[c] # "closed" =>
              \A v \in Workers, m \in Mods : <<c, m>> \in work'[v].todo => m \in asked'[c]
    BY <2>1, NothingToDo
  <2> QED  BY <1>3, <2>2
           DEF Inv, TypeOK, PushesWereAsked, TasksWereAsked, GetAllOnlineClient
<1> QED  BY <1>1, <1>2, <1>3

LEMMA FilterInv == ASSUME Inv, NEW w \in Workers, MakePublishMap(w) PROVE Inv'
<1> DEFINE todo == Entries(work[w].online)
           gone == Entries(Clients \ work[w].online)
<1>1. /\ todo \in SUBSET (Clients \X Mods) /\ gone \in SUBSET (Clients \X Mods)
      /\ \A c \in Clients, m \in Mods :
            <<c, m>> \in todo /\ conn[c] # "closed" => m \in asked[c]
  BY DEF Inv, PushesWereAsked, Entries
<1>2. UNCHANGED <<conn, asked>>
  BY DEF MakePublishMap
<1>3. /\ work' \in [Workers -> WorkType]
      /\ \A c \in Clients : conn'[c] # "closed" =>
            \A v \in Workers, m \in Mods : <<c, m>> \in work'[v].todo => m \in asked'[c]
  <2>1. CASE gone = {}
    <3>1. AfterFilter(w, todo)
      BY <2>1 DEF MakePublishMap
    <3> HIDE DEF todo
    <3> QED  BY <1>1, <1>2, <3>1, AfterFilterInv
  <2>2. CASE gone # {}
    <3>1. Becomes(w, "unsubscribe", {}, todo, gone, 0)
      BY <2>2 DEF MakePublishMap
    <3> HIDE DEF todo, gone
    <3> QED  BY <1>1, <1>2, <3>1, BecomesInv
  <2> QED  BY <2>1, <2>2
<1> QED  BY <1>3 DEF Inv, TypeOK, PushesWereAsked, TasksWereAsked, MakePublishMap

LEMMA UnsubscribeInv == ASSUME Inv, NEW w \in Workers, Unsubscribe(w) PROVE Inv'
<1>1. PICK p \in Firsts(work[w].gone) :
          /\ book' = [book EXCEPT ![p[2]] = @ \ {p[1]}]
          /\ IF work[w].gone = {p} THEN AfterFilter(w, work[w].todo)
             ELSE Becomes(w, "unsubscribe", {}, work[w].todo, work[w].gone \ {p}, 0)
  BY DEF Unsubscribe
<1>2. /\ work[w].todo \in SUBSET (Clients \X Mods)
      /\ work[w].gone \ {p} \in SUBSET (Clients \X Mods)
      /\ p \in Clients \X Mods
      /\ \A c \in Clients, m \in Mods :
            <<c, m>> \in work[w].todo /\ conn[c] # "closed" => m \in asked[c]
  BY DEF Inv, TypeOK, WorkType, Firsts, PushesWereAsked
<1>3. UNCHANGED <<conn, asked>>
  BY DEF Unsubscribe
<1>4. /\ work' \in [Workers -> WorkType]
      /\ \A c \in Clients : conn'[c] # "closed" =>
            \A v \in Workers, m \in Mods : <<c, m>> \in work'[v].todo => m \in asked'[c]
  <2>1. CASE work[w].gone = {p}
    BY <1>1, <1>2, <1>3, <2>1, AfterFilterInv
  <2>2. CASE work[w].gone # {p}
    <3>1. Becomes(w, "unsubscribe", {}, work[w].todo, work[w].gone \ {p}, 0)
      BY <1>1, <2>2
    <3> QED  BY <1>2, <1>3, <3>1, BecomesInv
  <2> QED  BY <2>1, <2>2
<1>5. /\ book' \in [Mods -> SUBSET Clients]
      /\ \A m \in Mods : book'[m] \subseteq book[m]
  BY <1>1, <1>2 DEF Inv, TypeOK
<1>6. TypeOK' /\ TasksWereAsked'
  BY <1>4, <1>5 DEF Inv, TypeOK, TasksWereAsked, Unsubscribe
<1>7. PushesWereAsked'
  BY <1>4, <1>5 DEF Inv, PushesWereAsked, Unsubscribe
<1> QED  BY <1>6, <1>7 DEF Inv

LEMMA PushToClientInv == ASSUME Inv, NEW w \in Workers, PushToClient(w) PROVE Inv'
<1>1. PICK p \in Firsts(work[w].todo) :
          IF conn[p[1]] # "up"
          THEN broken' = TRUE /\ UNCHANGED <<got, pushList, work, missed>>
          ELSE /\ Sent(p, work[w].hosts, Entries({p[1]}) \ (work[w].todo \ {p}))
               /\ pushList' = [pushList EXCEPT ![p[1]] = {}]
               /\ AfterFilter(w, work[w].todo \ {p})
               /\ UNCHANGED broken
  BY DEF PushToClient
<1>2. CASE conn[p[1]] # "up"
  BY <1>1, <1>2 DEF Inv, TypeOK, PushesWereAsked, TasksWereAsked, PushToClient
<1>3. CASE conn[p[1]] = "up"
  <2>1. /\ work[w].todo \ {p} \in SUBSET (Clients \X Mods)
        /\ p \in Clients \X Mods /\ work[w].hosts \in Nat
        /\ \A c \in Clients, m \in Mods :
              <<c, m>> \in work[w].todo \ {p} /\ conn[c] # "closed" => m \in asked[c]
    BY DEF Inv, TypeOK, WorkType, Firsts, PushesWereAsked
  <2>2. UNCHANGED <<conn, asked>>
    BY DEF PushToClient
  <2>3. /\ work' \in [Workers -> WorkType]
        /\ \A c \in Clients : conn'[c] # "closed" =>
              \A v \in Workers, m \in Mods : <<c, m>> \in work'[v].todo => m \in asked'[c]
    BY <1>1, <1>3, <2>1, <2>2, AfterFilterInv
  <2>4. got' \in [Clients -> [Mods -> Nat]] /\ missed' \in SUBSET (Clients \X Mods)
    <3>1. Entries({p[1]}) \ (work[w].todo \ {p}) \in SUBSET (Clients \X Mods)
      BY DEF Entries
    <3>2. Sent(p, work[w].hosts, Entries({p[1]}) \ (work[w].todo \ {p}))
      BY <1>1, <1>3
    <3> QED  BY <2>1, <3>1, <3>2, SentInv
  <2>5. /\ pushList' \in [Clients -> SUBSET Mods]
        /\ \A c \in Clients : pushList'[c] \subseteq pushList[c]
    BY <1>1, <1>3 DEF Inv, TypeOK
  <2>6. TypeOK' /\ TasksWereAsked'
    BY <1>1, <1>3, <2>3, <2>4, <2>5 DEF Inv, TypeOK, TasksWereAsked, PushToClient
  <2>7. PushesWereAsked'
    BY <2>3, <2>5 DEF Inv, PushesWereAsked, PushToClient
  <2> QED  BY <2>6, <2>7 DEF Inv
<1> QED  BY <1>2, <1>3

LEMMA NextInv == Inv /\ [Next]_vars => Inv'
<1> SUFFICES ASSUME Inv, [Next]_vars PROVE Inv'
  OBVIOUS
<1>1. ASSUME NEW w \in Workers, WorkerStep(w) PROVE Inv'
  BY <1>1, TakeInv, AnswerInv, FilterInv, UnsubscribeInv, PushToClientInv DEF WorkerStep
<1>2. CASE UNCHANGED vars
  BY <1>2 DEF Inv, TypeOK, PushesWereAsked, TasksWereAsked, vars
<1> QED  BY <1>1, <1>2, ConnectionInv, RequestInv, PublishInv DEF Next

(* The variables keep their types.                                         *)
THEOREM TypeCorrect == Spec => []TypeOK
<1>1. Inv => TypeOK
  BY DEF Inv
<1> QED  BY <1>1, InitInv, NextInv, PTL DEF Spec

(* However publishes, pushes, requests and departures interleave, nobody   *)
(* is booked, queued or about to be sent what it did not ask for.          *)
THEOREM OnlyAskedIsPushed == Spec => []PushesWereAsked
<1>1. Inv => PushesWereAsked
  BY DEF Inv
<1> QED  BY <1>1, InitInv, NextInv, PTL DEF Spec

----------------------------------------------------------------------------
(* Whom unsubscribe strikes.  When a worker sorts _pushList, a connected   *)
(* client is in its copy of the online clients unless it came after the    *)
(* copy was made; the others of _pushList have left for good.              *)
BookInv ==
    /\ \A c \in Clients : conn[c] = "new" => asked[c] = {}
    /\ \A w \in Workers, c \in Clients \ late :
          work[w].at = "filter" /\ conn[c] = "up" => c \in work[w].online
    /\ \A w \in Workers, c \in Clients \ late, m \in Mods :
          <<c, m>> \in work[w].gone => conn[c] = "closed"
    /\ OnlineStaySubscribed

LEMMA InitBook == Init => BookInv
BY DEF Init, BookInv, OnlineStaySubscribed, Idle

(* Steps of the loop thread.                                               *)
LEMMA LoopBook ==
    ASSUME Inv, BookInv,
           \/ \E c \in Clients : OnConnection(c) \/ OnClose(c)
           \/ \E c \in Clients, m \in Mods : MsgGetRouteCB(c, m)
           \/ \E S, P \in SUBSET Mods : CheckRouteChanges(S, P)
           \/ \E S \in SUBSET Mods : ReloadRoutes(S)
           \/ LockBook
           \/ Publish
    PROVE  BookInv'
<1>1. ASSUME NEW c \in Clients, OnConnection(c) PROVE BookInv'
  <2>1. \A d \in Clients : d # c => conn'[d] = conn[d]
    BY <1>1 DEF OnConnection, Inv, TypeOK
  <2>2. /\ conn[c] = "new" /\ conn'[c] = "up" /\ late \subseteq late'
        /\ UNCHANGED <<asked, book, work>>
    BY <1>1 DEF OnConnection, Inv, TypeOK
  <2>3. c \in late' \/ \A w \in Workers : work[w].at # "filter"
    BY <1>1 DEF OnConnection
  <2>4. ASSUME NEW w \in Workers, NEW d \in Clients \ late', work[w].at = "filter",
               conn'[d] = "up"
        PROVE  d \in work[w].online
    BY <2>1, <2>2, <2>3, <2>4 DEF BookInv
  <2> QED  BY <2>1, <2>2, <2>4 DEF BookInv, OnlineStaySubscribed
<1>2. ASSUME NEW c \in Clients, OnClose(c) PROVE BookInv'
  BY <1>2 DEF OnClose, BookInv, OnlineStaySubscribed, Inv, TypeOK
<1>3. ASSUME NEW c \in Clients, NEW m \in Mods, MsgGetRouteCB(c, m) PROVE BookInv'
  <2>1. \A d \in Clients \ late, k \in Mods :
            conn[d] = "up" /\ k \in asked'[d] => d \in book'[k]
    BY <1>3 DEF MsgGetRouteCB, BookInv, OnlineStaySubscribed, Inv, TypeOK
  <2> QED  BY <1>3, <2>1
           DEF MsgGetRouteCB, BookInv, OnlineStaySubscribed, Inv, TypeOK
<1>4. ASSUME NEW S \in SUBSET Mods, NEW P \in SUBSET Mods, CheckRouteChanges(S, P)
      PROVE  BookInv'
  BY <1>4 DEF CheckRouteChanges, BookInv, OnlineStaySubscribed
<1>5. ASSUME NEW S \in SUBSET Mods, ReloadRoutes(S) PROVE BookInv'
  BY <1>5 DEF ReloadRoutes, BookInv, OnlineStaySubscribed
<1>6. CASE LockBook
  BY <1>6 DEF LockBook, BookInv, OnlineStaySubscribed
<1>7. CASE Publish
  BY <1>7 DEF Publish, BookInv, OnlineStaySubscribed
<1> QED  BY <1>1, <1>2, <1>3, <1>4, <1>5, <1>6, <1>7

(* What the work of one worker turns to, field by field.                   *)
LEMMA BecomesTurns ==
    ASSUME Inv, NEW w \in Workers, NEW at, NEW online, NEW todo, NEW gone, NEW hosts,
           Becomes(w, at, online, todo, gone, hosts)
    PROVE  /\ work'[w].at = at /\ work'[w].online = online /\ work'[w].todo = todo
           /\ work'[w].gone = gone /\ work'[w].hosts = hosts
           /\ \A v \in Workers : v # w => work'[v] = work[v]
BY DEF Inv, TypeOK, Becomes

LEMMA AfterFilterTurns ==
    ASSUME Inv, NEW w \in Workers, NEW todo, AfterFilter(w, todo)
    PROVE  /\ work'[w].at \in {"idle", "next"} /\ work'[w].todo = todo
           /\ work'[w].gone = {}
           /\ todo # {} => work'[w].at = "next"
           /\ \A v \in Workers : v # w => work'[v] = work[v]
<1>1. CASE todo = {}
  BY <1>1 DEF Inv, TypeOK, AfterFilter, Idle
<1>2. CASE todo # {}
  <2>1. Becomes(w, "next", {}, todo, {}, 0)
    BY <1>2 DEF AfterFilter
  <2>. QED BY <1>2, <2>1, BecomesTurns
<1>. QED BY <1>1, <1>2

(* A worker that turns to something other than filtering and unsubscribing.*)
LEMMA TurnBook ==
    ASSUME BookInv, NEW w \in Workers,
           \A v \in Workers : v # w => work'[v] = work[v],
           work'[w].at # "filter", work'[w].gone \subseteq work[w].gone,
           UNCHANGED <<conn, asked, book, late>>
    PROVE  BookInv'
BY DEF BookInv, OnlineStaySubscribed

LEMMA WorkerBook ==
    ASSUME Inv, BookInv, NEW w \in Workers, WorkerStep(w)
    PROVE  BookInv'
<1>1. CASE Take(w)
  <2>1. /\ work'[w].at # "filter" /\ work'[w].gone = {}
        /\ \A v \in Workers : v # w => work'[v] = work[v]
    <3>1. CASE Head(tasks) = PushTask
      <4>1. Becomes(w, "push", {}, {}, {}, 0)
        BY <1>1, <3>1 DEF Take
      <4> QED  BY <4>1, BecomesTurns
    <3>2. CASE Head(tasks) # PushTask
      <4>1. Becomes(w, "answer", {}, {Head(tasks)}, {}, 0)
        BY <1>1, <3>2 DEF Take
      <4> QED  BY <4>1, BecomesTurns
    <3> QED  BY <3>1, <3>2
  <2> QED  BY <1>1, <2>1, TurnBook DEF Take
<1>2. CASE GetHosts(w)
  <2>1. PICK p \in Firsts(work[w].todo) :
            Becomes(w, IF work[w].at = "answer" THEN "reply" ELSE "send",
                    {}, work[w].todo, {}, route[p[2]])
    BY <1>2 DEF GetHosts
  <2>2. /\ work'[w].at # "filter" /\ work'[w].gone = {}
        /\ \A v \in Workers : v # w => work'[v] = work[v]
    BY <2>1, BecomesTurns
  <2> QED  BY <1>2, <2>2, TurnBook DEF GetHosts
<1>3. CASE Reply(w)
  <2>1. /\ work'[w].at # "filter" /\ work'[w].gone = {}
        /\ \A v \in Workers : v # w => work'[v] = work[v]
    BY <1>3 DEF Reply, Idle, Inv, TypeOK
  <2> QED  BY <1>3, <2>1, TurnBook DEF Reply
<1>4. CASE GetAllOnlineClient(w)
  <2>1. Becomes(w, "filter", {c \in Clients : conn[c] = "up"}, {}, {}, 0)
    BY <1>4 DEF GetAllOnlineClient
  <2>2. /\ work'[w].online = {c \in Clients : conn[c] = "up"} /\ work'[w].gone = {}
        /\ \A v \in Workers : v # w => work'[v] = work[v]
    BY <2>1, BecomesTurns
  <2> QED  BY <1>4, <2>2 DEF GetAllOnlineClient, BookInv, OnlineStaySubscribed
<1>5. CASE MakePublishMap(w)
  <2> DEFINE todo == Entries(work[w].online)
             gone == Entries(Clients \ work[w].online)
  <2>1. ASSUME NEW c \in Clients \ late, NEW m \in Mods, <<c, m>> \in gone
        PROVE  conn[c] = "closed"
    <3>1. c \notin work[w].online /\ m \in pushList[c] /\ work[w].at = "filter"
      BY <1>5, <2>1 DEF MakePublishMap, Entries
    <3>2. conn[c] # "up"
      BY <3>1 DEF BookInv
    <3>3. conn[c] # "new"
      BY <3>1 DEF BookInv, Inv, PushesWereAsked
    <3> QED  BY <3>2, <3>3 DEF Inv, TypeOK
  <2>2. IF gone = {} THEN AfterFilter(w, todo)
        ELSE Becomes(w, "unsubscribe", {}, todo, gone, 0)
    BY <1>5 DEF MakePublishMap
  <2> HIDE DEF todo, gone
  <2>3. /\ work'[w].at # "filter" /\ work'[w].gone \in {{}, gone}
        /\ \A v \in Workers : v # w => work'[v] = work[v]
    <3>1. CASE gone = {}
      BY <2>2, <3>1, AfterFilterTurns
    <3>2. CASE gone # {}
      BY <2>2, <3>2, BecomesTurns
    <3> QED  BY <3>1, <3>2
  <2>4. ASSUME NEW v \in Workers, NEW c \in Clients \ late, NEW m \in Mods,
               <<c, m>> \in work'[v].gone
        PROVE  conn[c] = "closed"
    BY <2>1, <2>3, <2>4 DEF BookInv
  <2> QED  BY <1>5, <2>3, <2>4 DEF MakePublishMap, BookInv, OnlineStaySubscribed
<1>6. CASE Unsubscribe(w)
  <2>1. PICK p \in Firsts(work[w].gone) :
            /\ book' = [book EXCEPT ![p[2]] = @ \ {p[1]}]
            /\ IF work[w].gone = {p} THEN AfterFilter(w, work[w].todo)
               ELSE Becomes(w, "unsubscribe", {}, work[w].todo, work[w].gone \ {p}, 0)
    BY <1>6 DEF Unsubscribe
  <2>2. /\ p \in Clients \X Mods /\ p = <<p[1], p[2]>> /\ p \in work[w].gone
        /\ p[1] \in late \/ conn[p[1]] = "closed"
    <3>1. p \in Clients \X Mods /\ p \in work[w].gone
      BY DEF Firsts, Inv, TypeOK, WorkType
    <3> QED  BY <3>1 DEF BookInv
  <2>3. /\ work'[w].at # "filter" /\ work'[w].gone \subseteq work[w].gone
        /\ \A v \in Workers : v # w => work'[v] = work[v]
    <3>1. CASE work[w].gone = {p}
      BY <2>1, <3>1, AfterFilterTurns
    <3>2. CASE work[w].gone # {p}
      BY <2>1, <3>2, BecomesTurns
    <3> QED  BY <3>1, <3>2
  <2>4. \A c \in Clients \ late, m \in Mods :
            conn[c] = "up" /\ c \in book[m] => c \in book'[m]
    BY <2>1, <2>2 DEF Inv, TypeOK
  <2>5. UNCHANGED <<conn, asked, late>>
    BY <1>6 DEF Unsubscribe
  <2>6. OnlineStaySubscribed'
    <3>1. SUFFICES ASSUME NEW c \in Clients \ late, conn[c] = "up", NEW m \in asked[c]
                   PROVE  c \in book'[m]
      BY <2>5 DEF OnlineStaySubscribed
    <3>2. m \in Mods /\ c \in book[m]
      BY <3>1 DEF Inv, TypeOK, BookInv, OnlineStaySubscribed
    <3> QED  BY <2>4, <3>1, <3>2
  <2> QED  BY <2>3, <2>5, <2>6 DEF BookInv
<1>7. CASE PushToClient(w)
  <2>1. PICK p \in Firsts(work[w].todo) :
            IF conn[p[1]] # "up" THEN UNCHANGED work
            ELSE AfterFilter(w, work[w].todo \ {p})
    BY <1>7 DEF PushToClient
  <2>2. UNCHANGED <<conn, asked, book, late>>
    BY <1>7 DEF PushToClient
  <2>3. CASE conn[p[1]] # "up"
    BY <2>1, <2>2, <2>3 DEF BookInv, OnlineStaySubscribed
  <2>4. CASE conn[p[1]] = "up"
    <3>1. /\ work'[w].at # "filter" /\ work'[w].gone = {}
          /\ \A v \in Workers : v # w => work'[v] = work[v]
      BY <2>1, <2>4, AfterFilterTurns
    <3> QED  BY <2>2, <3>1, TurnBook
  <2> QED  BY <2>3, <2>4
<1> QED  BY <1>1, <1>2, <1>3, <1>4, <1>5, <1>6, <1>7 DEF WorkerStep

LEMMA NextBook == ASSUME Inv, BookInv, [Next]_vars PROVE BookInv'
<1>1. CASE UNCHANGED vars
  BY <1>1 DEF BookInv, OnlineStaySubscribed, vars
<1> QED  BY <1>1, LoopBook, WorkerBook DEF Next

(* Whatever overlaps, only a client that connected between the copy of the *)
(* online clients and the sorting of _pushList can lose a subscription     *)
(* while it is connected (DnsSubscribe.cc:35-60).                          *)
THEOREM SubscriptionsLast == Spec => []OnlineStaySubscribed
<1>1. BookInv => OnlineStaySubscribed
  BY DEF BookInv
<1>2. Inv /\ BookInv /\ [Next]_vars => BookInv'
  BY NextBook
<1> QED  BY <1>1, <1>2, InitInv, InitBook, NextInv, PTL DEF Spec

----------------------------------------------------------------------------
(* Nothing a client waits for is forgotten but for the recorded ways.      *)
Queued(t) == \E i \in 1 .. Len(tasks) : tasks[i] = t

(* Worker w will still send c hosts of m as new as the published ones, or  *)
(* take c off the book of m.  What it has read may be too old by then.     *)
IsFresh(w, c, m) == <<c, m>> \in Firsts(work[w].todo) => work[w].hosts >= announced[m]

Carries(w, c, m) ==
    \/ work[w].at \in {"push", "filter"} /\ m \in pushList[c]
    \/ work[w].at \in {"answer", "next", "unsubscribe"} /\ <<c, m>> \in work[w].todo
    \/ work[w].at \in {"reply", "send"} /\ <<c, m>> \in work[w].todo /\ IsFresh(w, c, m)
    \/ work[w].at = "unsubscribe" /\ <<c, m>> \in work[w].gone

Settles(c, m) == ~Behind(<<c, m>>) \/ <<c, m>> \in missed

Due(c, m) ==
    \/ Settles(c, m)
    \/ loop # "free" /\ m \in changeMods
    \/ Queued(PushTask) /\ m \in pushList[c]
    \/ Queued(AnswerTask(c, m))
    \/ \E w \in Workers : Carries(w, c, m)

NoneIsForgotten ==
    \A c \in Clients : conn[c] = "up" =>
        \A m \in asked[c] : c \in book[m] => Due(c, m)

(* Only what the table holds was published, and an answer is about one     *)
(* module of one client.                                                   *)
DueInv ==
    /\ \A m \in Mods : announced[m] <= route[m]
    /\ \A w \in Workers : work[w].at \in {"answer", "reply"} =>
          \E p \in work[w].todo : work[w].todo = {p}
    /\ NoneIsForgotten

LEMMA InitDue == Init => DueInv
BY DEF Init, DueInv, NoneIsForgotten, Idle

LEMMA TailQueued ==
    ASSUME tasks \in Seq(Tasks), tasks # <<>>, tasks' = Tail(tasks)
    PROVE  \A t : Queued(t) => t = Head(tasks) \/ Queued(t)'
<1>1. /\ Len(tasks) \in Nat \ {0} /\ Head(tasks) = tasks[1]
      /\ Len(tasks') = Len(tasks) - 1
      /\ \A i \in 1 .. Len(tasks') : tasks'[i] = tasks[i + 1]
  BY EmptySeq, HeadTailProperties
<1>2. ASSUME NEW i \in 1 .. Len(tasks), i # 1
      PROVE  i - 1 \in 1 .. Len(tasks') /\ tasks'[i - 1] = tasks[i]
  <2>1. i - 1 \in 1 .. Len(tasks') /\ (i - 1) + 1 = i
    BY <1>1, <1>2
  <2>. QED BY <1>1, <2>1
<1>. QED BY <1>1, <1>2 DEF Queued

LEMMA AppendQueued ==
    ASSUME tasks \in Seq(Tasks), NEW t \in Tasks, tasks' = Append(tasks, t)
    PROVE  \A u : Queued(u) \/ u = t => Queued(u)'
<1>1. /\ Len(tasks) \in Nat /\ Len(tasks') = Len(tasks) + 1
      /\ tasks'[Len(tasks) + 1] = t
      /\ \A i \in 1 .. Len(tasks) : tasks'[i] = tasks[i]
  BY AppendProperties, LenProperties
<1>2. /\ Len(tasks) + 1 \in 1 .. Len(tasks')
      /\ \A i \in 1 .. Len(tasks) : i \in 1 .. Len(tasks')
  BY <1>1
<1>. QED BY <1>1, <1>2 DEF Queued

(* A list has at most one first pair.                                      *)
LEMMA OneIsFirst ==
    ASSUME NEW T \in SUBSET (Clients \X Mods), NEW p \in Firsts(T), NEW q \in Firsts(T)
    PROVE  p = q
<1>1. p \in Clients \X Mods /\ q \in Clients \X Mods /\ p \in T /\ q \in T
  BY DEF Firsts
<1>2. p[1] \in Int /\ q[1] \in Int /\ p[2] \in Int /\ q[2] \in Int
  BY <1>1 DEF Clients, Mods
<1>3. /\ p[1] < q[1] \/ (p[1] = q[1] /\ p[2] <= q[2])
      /\ q[1] < p[1] \/ (q[1] = p[1] /\ q[2] <= p[2])
  BY <1>1 DEF Firsts
<1>. QED BY <1>1, <1>2, <1>3

(* A single pair is the first.                                             *)
LEMMA SingleIsFirst ==
    ASSUME NEW p \in Clients \X Mods PROVE p \in Firsts({p})
BY DEF Firsts, Clients, Mods

(* What a send settles: what was settled, what it gives up, and its own    *)
(* pair unless an older version was needed and is still not there.         *)
LEMMA SentSettles ==
    ASSUME Inv, NEW p \in Clients \X Mods, NEW hosts \in Nat,
           NEW erased \in SUBSET (Clients \X Mods), Sent(p, hosts, erased),
           conn[p[1]] = "up", UNCHANGED announced
    PROVE  \A c \in Clients, m \in Mods :
              \/ Settles(c, m) \/ <<c, m>> \in erased
              \/ p = <<c, m>> /\ hosts >= announced[m]
              => Settles(c, m)'
<1>1. p[1] \in Clients /\ p[2] \in Mods /\ p = <<p[1], p[2]>>
  OBVIOUS
<1>2. /\ got' = [got EXCEPT ![p[1]][p[2]] = hosts]
      /\ \A q \in missed \cup erased \cup (IF Behind(p) THEN {} ELSE {p}) :
            got'[q[1]][q[2]] < announced[q[2]] => q \in missed'
  BY DEF Sent
<1>3. SUFFICES ASSUME NEW c \in Clients, NEW m \in Mods,
                      \/ Settles(c, m) \/ <<c, m>> \in erased
                      \/ p = <<c, m>> /\ hosts >= announced[m],
                      Behind(<<c, m>>)'
               PROVE  <<c, m>> \in missed'
  BY DEF Settles
<1>4. got'[c][m] < announced[m]
  BY <1>3 DEF Behind
<1>5. got'[c][m] = IF p = <<c, m>> THEN hosts ELSE got[c][m]
  BY <1>1, <1>2 DEF Inv, TypeOK
<1>6. CASE p = <<c, m>> /\ hosts >= announced[m]
  BY <1>4, <1>5, <1>6 DEF Inv, TypeOK
<1>7. CASE <<c, m>> \in missed \cup erased
  BY <1>2, <1>4, <1>7
<1>8. CASE ~Behind(<<c, m>>)
  <2>1. p = <<c, m>>
    BY <1>4, <1>5, <1>8 DEF Behind
  <2>. QED BY <1>2, <1>4, <1>8, <2>1
<1>. QED BY <1>3, <1>6, <1>7, <1>8 DEF Settles

(* A step of worker w that sends nothing and takes nothing off the queue.  *)
LEMMA DueKept ==
    ASSUME NEW c \in Clients, NEW m \in Mods, Due(c, m), NEW w \in Workers,
           UNCHANGED <<pushList, loop, changeMods, tasks, got, announced, missed>>,
           \A v \in Workers : v # w => work'[v] = work[v],
           Carries(w, c, m) => Due(c, m)'
    PROVE  Due(c, m)'
<1>1. CASE \E v \in Workers : Carries(v, c, m)
  <2>1. PICK v \in Workers : Carries(v, c, m)
    BY <1>1
  <2>2. CASE v # w
    BY <2>1, <2>2 DEF Due, Carries, IsFresh
  <2>. QED BY <2>1, <2>2
<1>. QED BY <1>1 DEF Due, Settles, Behind, Queued

----------------------------------------------------------------------------
(* The steps of a worker.                                                  *)
LEMMA TakeDue == ASSUME Inv, DueInv, NEW w \in Workers, Take(w) PROVE DueInv'
<1>1. /\ tasks \in Seq(Tasks) /\ tasks # <<>> /\ tasks' = Tail(tasks)
      /\ UNCHANGED <<conn, asked, book, pushList, route, loop, changeMods, got,
                     announced, missed>>
      /\ work[w].at = "idle"
  BY DEF Inv, TypeOK, Take, Idle
<1>2. \A t : Queued(t) => t = Head(tasks) \/ Queued(t)'
  BY <1>1, TailQueued
<1>3. /\ \A v \in Workers : v # w => work'[v] = work[v]
      /\ \/ /\ Head(tasks) = PushTask /\ work'[w].at = "push"
         \/ /\ Head(tasks) # PushTask /\ work'[w].at = "answer"
            /\ work'[w].todo = {Head(tasks)}
  <2>1. CASE Head(tasks) = PushTask
    <3>1. Becomes(w, "push", {}, {}, {}, 0)
      BY <2>1 DEF Take
    <3>. QED BY <2>1, <3>1, BecomesTurns
  <2>2. CASE Head(tasks) # PushTask
    <3>1. Becomes(w, "answer", {}, {Head(tasks)}, {}, 0)
      BY <2>2 DEF Take
    <3>. QED BY <2>2, <3>1, BecomesTurns
  <2>. QED BY <2>1, <2>2
<1>4. ASSUME NEW c \in Clients, NEW m \in Mods, Due(c, m) PROVE Due(c, m)'
  <2>1. CASE Queued(AnswerTask(c, m))
    <3>1. CASE AnswerTask(c, m) = Head(tasks)
      <4>1. AnswerTask(c, m) # PushTask /\ AnswerTask(c, m) = <<c, m>>
        BY DEF AnswerTask, PushTask
      <4>2. work'[w].at = "answer" /\ <<c, m>> \in work'[w].todo
        BY <1>3, <3>1, <4>1
      <4>. QED BY <4>2 DEF Due, Carries
    <3>2. CASE Queued(AnswerTask(c, m))'
      BY <3>2 DEF Due, AnswerTask
    <3>. QED BY <1>2, <2>1, <3>1, <3>2
  <2>2. CASE Queued(PushTask) /\ m \in pushList[c]
    <3>1. Queued(PushTask)' \/ work'[w].at = "push"
      BY <1>2, <1>3, <2>2
    <3>. QED BY <1>1, <2>2, <3>1 DEF Due, Carries
  <2>3. ASSUME NEW v \in Workers, Carries(v, c, m) PROVE Due(c, m)'
    <3>1. v # w
      BY <1>1, <2>3 DEF Carries
    <3>. QED BY <1>1, <1>3, <2>3, <3>1 DEF Due, Carries, IsFresh
  <2>4. CASE Settles(c, m) \/ (loop # "free" /\ m \in changeMods)
    BY <1>1, <2>4 DEF Due, Settles, Behind
  <2>. QED BY <1>4, <2>1, <2>2, <2>3, <2>4 DEF Due
<1>5. NoneIsForgotten'
  BY <1>1, <1>4 DEF Inv, TypeOK, DueInv, NoneIsForgotten
<1>6. \A v \in Workers : work'[v].at \in {"answer", "reply"} =>
          \E p \in work'[v].todo : work'[v].todo = {p}
  BY <1>3 DEF DueInv
<1>. QED BY <1>1, <1>5, <1>6 DEF DueInv

LEMMA GetHostsDue == ASSUME Inv, DueInv, NEW w \in Workers, GetHosts(w) PROVE DueInv'
<1>1. /\ UNCHANGED <<conn, asked, book, pushList, route, loop, changeMods, tasks, got,
                     announced, missed>>
      /\ work[w].at \in {"answer", "next"}
  BY DEF GetHosts
<1>2. PICK p \in Firsts(work[w].todo) :
        Becomes(w, IF work[w].at = "answer" THEN "reply" ELSE "send",
                {}, work[w].todo, {}, route[p[2]])
  BY DEF GetHosts
<1>3. /\ work'[w].at = IF work[w].at = "answer" THEN "reply" ELSE "send"
      /\ work'[w].todo = work[w].todo /\ work'[w].hosts = route[p[2]]
      /\ \A v \in Workers : v # w => work'[v] = work[v]
  BY <1>2, BecomesTurns
<1>4. ASSUME NEW c \in Clients, NEW m \in Mods, Carries(w, c, m) PROVE Due(c, m)'
  <2>1. <<c, m>> \in work[w].todo /\ work[w].todo \in SUBSET (Clients \X Mods)
    BY <1>1, <1>4 DEF Carries, Inv, TypeOK, WorkType
  <2>2. IsFresh(w, c, m)'
    <3>1. SUFFICES ASSUME <<c, m>> \in Firsts(work[w].todo)
                   PROVE  work'[w].hosts >= announced[m]
      BY <1>1, <1>3 DEF IsFresh
    <3>2. p = <<c, m>>
      BY <2>1, <3>1, OneIsFirst
    <3>. QED BY <1>3, <3>2 DEF DueInv, Inv, TypeOK
  <2>. QED BY <1>1, <1>3, <2>1, <2>2 DEF Due, Carries
<1>5. ASSUME NEW c \in Clients, NEW m \in Mods, Due(c, m) PROVE Due(c, m)'
  BY <1>1, <1>3, <1>4, <1>5, DueKept
<1>6. NoneIsForgotten'
  BY <1>1, <1>5 DEF Inv, TypeOK, DueInv, NoneIsForgotten
<1>7. \A v \in Workers : work'[v].at \in {"answer", "reply"} =>
          \E q \in work'[v].todo : work'[v].todo = {q}
  BY <1>1, <1>3 DEF DueInv
<1>. QED BY <1>1, <1>6, <1>7 DEF DueInv

LEMMA ReplyDue == ASSUME Inv, DueInv, NEW w \in Workers, Reply(w) PROVE DueInv'
<1>1. /\ UNCHANGED <<conn, asked, book, pushList, route, loop, changeMods, tasks,
                     announced>>
      /\ work[w].at = "reply" /\ work' = [work EXCEPT ![w] = Idle]
  BY DEF Reply
<1>2. PICK p \in Firsts(work[w].todo) : Sent(p, work[w].hosts, {})
  BY DEF Reply
<1>3. work'[w].at = "idle" /\ \A v \in Workers : v # w => work'[v] = work[v]
  BY <1>1 DEF Inv, TypeOK, Idle
<1>4. p \in Clients \X Mods /\ work[w].todo = {p} /\ work[w].hosts \in Nat
  BY <1>1 DEF Inv, TypeOK, WorkType, Firsts, DueInv
<1>5. ASSUME NEW c \in Clients, conn[c] = "up", NEW m \in Mods, Settles(c, m)
      PROVE  Settles(c, m)'
  <2>1. CASE conn[p[1]] = "up"
    <3>1. {} \in SUBSET (Clients \X Mods)
      OBVIOUS
    <3>. QED BY <1>1, <1>2, <1>4, <1>5, <2>1, <3>1, SentSettles
  <2>2. CASE conn[p[1]] # "up"
    BY <1>1, <1>2, <1>5, <2>2 DEF Sent, Settles, Behind
  <2>. QED BY <2>1, <2>2
<1>6. ASSUME NEW c \in Clients, conn[c] = "up", NEW m \in Mods, Carries(w, c, m)
      PROVE  Settles(c, m)'
  <2>1. p = <<c, m>> /\ IsFresh(w, c, m)
    BY <1>1, <1>4, <1>6 DEF Carries
  <2>2. work[w].hosts >= announced[m]
    BY <1>4, <2>1, SingleIsFirst DEF IsFresh
  <2>. QED BY <1>1, <1>2, <1>4, <1>6, <2>1, <2>2, SentSettles
<1>7. ASSUME NEW c \in Clients, conn[c] = "up", NEW m \in Mods, Due(c, m) PROVE Due(c, m)'
  <2>1. CASE Settles(c, m)
    BY <1>5, <1>7, <2>1 DEF Due
  <2>2. CASE \E v \in Workers : Carries(v, c, m)
    <3>1. PICK v \in Workers : Carries(v, c, m)
      BY <2>2
    <3>2. CASE v = w
      BY <1>6, <1>7, <3>1, <3>2 DEF Due
    <3>3. CASE v # w
      BY <1>1, <1>3, <3>1, <3>3 DEF Due, Carries, IsFresh
    <3>. QED BY <3>2, <3>3
  <2>. QED BY <1>1, <1>7, <2>1, <2>2 DEF Due, Queued
<1>8. NoneIsForgotten'
  BY <1>1, <1>7 DEF Inv, TypeOK, DueInv, NoneIsForgotten
<1>9. \A v \in Workers : work'[v].at \in {"answer", "reply"} =>
          \E q \in work'[v].todo : work'[v].todo = {q}
  BY <1>3 DEF DueInv
<1>. QED BY <1>1, <1>8, <1>9 DEF DueInv

LEMMA GetAllOnlineClientDue ==
    ASSUME Inv, DueInv, NEW w \in Workers, GetAllOnlineClient(w)
    PROVE  DueInv'
<1>1. /\ UNCHANGED <<conn, asked, book, pushList, route, loop, changeMods, tasks, got,
                     announced, missed>>
      /\ work[w].at = "push"
      /\ Becomes(w, "filter", {c \in Clients : conn[c] = "up"}, {}, {}, 0)
  BY DEF GetAllOnlineClient
<1>2. work'[w].at = "filter" /\ \A v \in Workers : v # w => work'[v] = work[v]
  BY <1>1, BecomesTurns
<1>3. ASSUME NEW c \in Clients, NEW m \in Mods, Due(c, m) PROVE Due(c, m)'
  <2>1. Carries(w, c, m) => Due(c, m)'
    BY <1>1, <1>2 DEF Due, Carries
  <2>. QED BY <1>1, <1>2, <1>3, <2>1, DueKept
<1>4. NoneIsForgotten'
  BY <1>1, <1>3 DEF Inv, TypeOK, DueInv, NoneIsForgotten
<1>. QED BY <1>1, <1>2, <1>4 DEF DueInv

(* Every entry of _pushList is listed for sending or for unsubscribing.    *)
LEMMA MakePublishMapDue ==
    ASSUME Inv, DueInv, NEW w \in Workers, MakePublishMap(w)
    PROVE  DueInv'
<1> DEFINE todo == Entries(work[w].online)
           gone == Entries(Clients \ work[w].online)
<1>1. /\ UNCHANGED <<conn, asked, book, pushList, route, loop, changeMods, tasks, got,
                     announced, missed>>
      /\ work[w].at = "filter"
      /\ IF gone = {} THEN AfterFilter(w, todo)
         ELSE Becomes(w, "unsubscribe", {}, todo, gone, 0)
  BY DEF MakePublishMap
<1>2. \A c \in Clients, m \in Mods :
          m \in pushList[c] => <<c, m>> \in todo \/ <<c, m>> \in gone
  BY DEF Entries
<1> HIDE DEF todo, gone
<1>3. /\ work'[w].todo = todo /\ \A v \in Workers : v # w => work'[v] = work[v]
      /\ IF gone = {} THEN /\ work'[w].at \in {"idle", "next"}
                           /\ todo # {} => work'[w].at = "next"
         ELSE work'[w].at = "unsubscribe" /\ work'[w].gone = gone
  <2>1. CASE gone = {}
    BY <1>1, <2>1, AfterFilterTurns
  <2>2. CASE gone # {}
    BY <1>1, <2>2, BecomesTurns
  <2>. QED BY <2>1, <2>2
<1>4. ASSUME NEW c \in Clients, NEW m \in Mods, Due(c, m) PROVE Due(c, m)'
  <2>1. ASSUME Carries(w, c, m) PROVE Due(c, m)'
    <3>1. <<c, m>> \in todo \/ <<c, m>> \in gone
      BY <1>1, <1>2, <2>1 DEF Carries
    <3>. QED BY <1>3, <3>1 DEF Due, Carries
  <2>. QED BY <1>1, <1>3, <1>4, <2>1, DueKept
<1>5. NoneIsForgotten'
  BY <1>1, <1>4 DEF Inv, TypeOK, DueInv, NoneIsForgotten
<1>6. work'[w].at \notin {"answer", "reply"}
  BY <1>3
<1>. QED BY <1>1, <1>3, <1>5, <1>6 DEF DueInv

(* Whom unsubscribe strikes is on the book no more, and waits for nothing. *)
LEMMA UnsubscribeDue ==
    ASSUME Inv, DueInv, NEW w \in Workers, Unsubscribe(w)
    PROVE  DueInv'
<1>1. /\ UNCHANGED <<conn, asked, pushList, route, loop, changeMods, tasks, got,
                     announced, missed>>
      /\ work[w].at = "unsubscribe"
  BY DEF Unsubscribe
<1>2. PICK p \in Firsts(work[w].gone) :
        /\ book' = [book EXCEPT ![p[2]] = @ \ {p[1]}]
        /\ IF work[w].gone = {p} THEN AfterFilter(w, work[w].todo)
           ELSE Becomes(w, "unsubscribe", {}, work[w].todo, work[w].gone \ {p}, 0)
  BY DEF Unsubscribe
<1>3. p \in Clients \X Mods /\ p = <<p[1], p[2]>>
  BY DEF Firsts, Inv, TypeOK, WorkType
<1>4. /\ work'[w].todo = work[w].todo /\ \A v \in Workers : v # w => work'[v] = work[v]
      /\ IF work[w].gone = {p} THEN /\ work'[w].at \in {"idle", "next"}
                                    /\ work[w].todo # {} => work'[w].at = "next"
         ELSE work'[w].at = "unsubscribe" /\ work'[w].gone = work[w].gone \ {p}
  <2>1. CASE work[w].gone = {p}
    BY <1>2, <2>1, AfterFilterTurns
  <2>2. CASE work[w].gone # {p}
    BY <1>2, <2>2, BecomesTurns
  <2>. QED BY <2>1, <2>2
<1>5. ASSUME NEW c \in Clients, NEW m \in Mods, c \in book'[m]
      PROVE  c \in book[m] /\ p # <<c, m>>
  BY <1>2, <1>3, <1>5 DEF Inv, TypeOK
<1>6. ASSUME NEW c \in Clients, NEW m \in Mods, p # <<c, m>>, Due(c, m) PROVE Due(c, m)'
  <2>1. Carries(w, c, m) => Due(c, m)'
    BY <1>1, <1>4, <1>6 DEF Due, Carries
  <2>. QED BY <1>1, <1>4, <1>6, <2>1, DueKept
<1>7. NoneIsForgotten'
  BY <1>1, <1>5, <1>6 DEF Inv, TypeOK, DueInv, NoneIsForgotten
<1>8. work'[w].at \notin {"answer", "reply"}
  BY <1>4
<1>. QED BY <1>1, <1>4, <1>7, <1>8 DEF DueInv

(* What is erased with a push is still on the worker's list, or recorded.  *)
LEMMA PushToClientDue ==
    ASSUME Inv, DueInv, NEW w \in Workers, PushToClient(w)
    PROVE  DueInv'
<1>1. /\ UNCHANGED <<conn, asked, book, route, loop, changeMods, tasks, announced>>
      /\ work[w].at = "send"
  BY DEF PushToClient
<1>2. PICK p \in Firsts(work[w].todo) :
          IF conn[p[1]] # "up"
          THEN broken' = TRUE /\ UNCHANGED <<got, pushList, work, missed>>
          ELSE /\ Sent(p, work[w].hosts, Entries({p[1]}) \ (work[w].todo \ {p}))
               /\ pushList' = [pushList EXCEPT ![p[1]] = {}]
               /\ AfterFilter(w, work[w].todo \ {p})
               /\ UNCHANGED broken
  BY DEF PushToClient
<1>3. CASE conn[p[1]] # "up"
  <2>1. UNCHANGED <<got, pushList, work, missed>>
    BY <1>2, <1>3
  <2>. QED BY <1>1, <2>1
       DEF DueInv, NoneIsForgotten, Due, Settles, Behind, Carries, IsFresh, Queued
<1>4. CASE conn[p[1]] = "up"
  <2> DEFINE rest == work[w].todo \ {p}
             erased == Entries({p[1]}) \ rest
  <2>1. /\ p \in Clients \X Mods /\ p = <<p[1], p[2]>> /\ p \in work[w].todo
        /\ work[w].hosts \in Nat /\ rest \in SUBSET (Clients \X Mods)
    BY DEF Inv, TypeOK, WorkType, Firsts
  <2>2. erased \in SUBSET (Clients \X Mods)
    BY DEF Entries
  <2>3. /\ Sent(p, work[w].hosts, erased) /\ AfterFilter(w, rest)
        /\ pushList' = [pushList EXCEPT ![p[1]] = {}]
    BY <1>2, <1>4
  <2>4. \A c \in Clients, m \in Mods : m \in pushList[c] =>
            m \in pushList'[c] \/ <<c, m>> \in rest \/ <<c, m>> \in erased
    BY <2>1, <2>3 DEF Entries, Inv, TypeOK
  <2>5. \A c \in Clients, m \in Mods : <<c, m>> \in work[w].todo => <<c, m>> \in rest \/ p = <<c, m>>
    OBVIOUS
  <2> HIDE DEF rest, erased
  <2>6. /\ work'[w].at \in {"idle", "next"} /\ work'[w].todo = rest
        /\ rest # {} => work'[w].at = "next"
        /\ \A v \in Workers : v # w => work'[v] = work[v]
    BY <2>3, AfterFilterTurns
  <2>7. \A c \in Clients, m \in Mods :
            \/ Settles(c, m) \/ <<c, m>> \in erased
            \/ p = <<c, m>> /\ work[w].hosts >= announced[m]
            => Settles(c, m)'
    BY <1>1, <1>4, <2>1, <2>2, <2>3, SentSettles
  <2>8. ASSUME NEW c \in Clients, NEW m \in Mods, <<c, m>> \in rest \/ <<c, m>> \in erased
        PROVE  Due(c, m)'
    BY <2>6, <2>7, <2>8 DEF Due, Carries
  <2>9. ASSUME NEW c \in Clients, NEW m \in Mods, Due(c, m) PROVE Due(c, m)'
    <3>1. CASE Settles(c, m)
      BY <2>7, <3>1 DEF Due
    <3>2. CASE Queued(PushTask) /\ m \in pushList[c]
      <4>1. m \in pushList'[c] => Due(c, m)'
        BY <1>1, <3>2 DEF Due, Queued, PushTask
      <4>. QED BY <2>4, <2>8, <3>2, <4>1
    <3>3. CASE Carries(w, c, m)
      <4>1. <<c, m>> \in work[w].todo /\ IsFresh(w, c, m)
        BY <1>1, <3>3 DEF Carries
      <4>2. CASE p = <<c, m>>
        <5>1. work[w].hosts >= announced[m]
          BY <4>1, <4>2 DEF IsFresh
        <5>. QED BY <2>7, <4>2, <5>1 DEF Due
      <4>. QED BY <2>5, <2>8, <4>1, <4>2
    <3>4. ASSUME NEW v \in Workers, v # w, Carries(v, c, m) PROVE Due(c, m)'
      <4>1. work'[v] = work[v]
        BY <2>6, <3>4
      <4>2. CASE m \in pushList[c] /\ work[v].at \in {"push", "filter"}
        <5>1. m \in pushList'[c] => Due(c, m)'
          BY <4>1, <4>2 DEF Due, Carries
        <5>. QED BY <2>4, <2>8, <4>2, <5>1
      <4>. QED BY <1>1, <3>4, <4>1, <4>2 DEF Due, Carries, IsFresh
    <3>5. CASE (loop # "free" /\ m \in changeMods) \/ Queued(AnswerTask(c, m))
      BY <1>1, <3>5 DEF Due, Queued, AnswerTask
    <3>. QED BY <2>9, <3>1, <3>2, <3>3, <3>4, <3>5 DEF Due
  <2>10. NoneIsForgotten'
    BY <1>1, <2>9 DEF Inv, TypeOK, DueInv, NoneIsForgotten
  <2>11. work'[w].at \notin {"answer", "reply"}
    BY <2>6
  <2>. QED BY <1>1, <2>6, <2>10, <2>11 DEF DueInv
<1>. QED BY <1>3, <1>4

----------------------------------------------------------------------------
(* The steps of the loop thread.                                           *)
LEMMA LoopDue ==
    ASSUME Inv, BookInv, DueInv,
           \/ \E c \in Clients : OnConnection(c) \/ OnClose(c)
           \/ \E c \in Clients, m \in Mods : MsgGetRouteCB(c, m)
           \/ \E S, P \in SUBSET Mods : CheckRouteChanges(S, P)
           \/ \E S \in SUBSET Mods : ReloadRoutes(S)
           \/ LockBook
           \/ Publish
    PROVE  DueInv'
<1>0. /\ conn \in [Clients -> {"new", "up", "closed"}] /\ tasks \in Seq(Tasks)
      /\ asked \in [Clients -> SUBSET Mods] /\ book \in [Mods -> SUBSET Clients]
      /\ route \in [Mods -> Nat] /\ announced \in [Mods -> Nat]
      /\ pushList \in [Clients -> SUBSET Mods]
  BY DEF Inv, TypeOK
<1> DEFINE Single == \A w \in Workers : work[w].at \in {"answer", "reply"} =>
                         \E p \in work[w].todo : work[w].todo = {p}
<1>1. Single /\ \A m \in Mods : announced[m] <= route[m]
  BY DEF DueInv
<1>2. ASSUME NEW d \in Clients, OnConnection(d) \/ OnClose(d) PROVE DueInv'
  <2>1. UNCHANGED <<book, pushList, route, loop, changeMods, tasks, work, got,
                    announced, missed>>
    BY <1>2 DEF OnConnection, OnClose
  <2>2. \A c \in Clients : conn'[c] = "up" /\ asked'[c] # {} =>
          conn[c] = "up" /\ asked'[c] = asked[c]
    BY <1>0, <1>2 DEF OnConnection, OnClose, BookInv
  <2>3. \A c \in Clients, m \in Mods : Due(c, m) => Due(c, m)'
    BY <2>1 DEF Due, Settles, Behind, Carries, IsFresh, Queued
  <2>4. NoneIsForgotten'
    BY <1>0, <2>1, <2>2, <2>3 DEF DueInv, NoneIsForgotten
  <2>. QED BY <1>1, <2>1, <2>4 DEF DueInv
<1>3. ASSUME NEW d \in Clients, NEW k \in Mods, MsgGetRouteCB(d, k) PROVE DueInv'
  <2>1. /\ UNCHANGED <<conn, pushList, route, loop, changeMods, work, got, announced,
                       missed>>
        /\ tasks' = Append(tasks, AnswerTask(d, k))
        /\ asked' = [asked EXCEPT ![d] = @ \cup {k}]
        /\ book' = book \/ book' = [book EXCEPT ![k] = @ \cup {d}]
    BY <1>3 DEF MsgGetRouteCB
  <2>2. AnswerTask(d, k) \in Tasks
    BY DEF AnswerTask, Tasks
  <2>3. \A t : Queued(t) \/ t = AnswerTask(d, k) => Queued(t)'
    BY <1>0, <2>1, <2>2, AppendQueued
  <2>4. \A c \in Clients, m \in Mods : Due(c, m) => Due(c, m)'
    <3>1. \A c \in Clients, m \in Mods :
            Queued(AnswerTask(c, m)) => Queued(AnswerTask(c, m))'
      BY <2>3 DEF AnswerTask
    <3>2. Queued(PushTask) => Queued(PushTask)'
      BY <2>3 DEF PushTask
    <3>. QED BY <2>1, <3>1, <3>2 DEF Due, Settles, Behind, Carries, IsFresh
  <2>5. Due(d, k)'
    BY <2>3 DEF Due, AnswerTask
  <2>6. ASSUME NEW c \in Clients, conn[c] = "up", NEW m \in asked'[c], c \in book'[m]
        PROVE  Due(c, m)'
    <3>1. CASE c = d /\ m = k
      BY <2>5, <3>1
    <3>2. CASE ~(c = d /\ m = k)
      <4>1. m \in asked[c] /\ c \in book[m]
        BY <1>0, <2>1, <2>6, <3>2
      <4>. QED BY <1>0, <2>4, <2>6, <4>1 DEF DueInv, NoneIsForgotten
    <3>. QED BY <3>1, <3>2
  <2>7. NoneIsForgotten'
    BY <2>1, <2>6 DEF NoneIsForgotten
  <2>. QED BY <1>1, <2>1, <2>7 DEF DueInv
<1>4. ASSUME NEW S \in SUBSET Mods, Load(S)
      PROVE  /\ loop = "free"
             /\ \A m \in Mods : announced[m] <= route'[m] /\ route'[m] \in Nat
  BY <1>0, <1>1, <1>4 DEF Load
<1>5. ASSUME NEW S \in SUBSET Mods, NEW P \in SUBSET Mods, CheckRouteChanges(S, P)
      PROVE  DueInv'
  <2>1. /\ UNCHANGED <<conn, asked, book, pushList, tasks, work, got>>
        /\ changeMods' = P /\ loop' = "publish" /\ loop = "free"
        /\ \A m \in Mods : announced[m] <= route'[m] /\ route'[m] \in Nat
        /\ announced' = [m \in Mods |-> IF m \in P THEN route'[m] ELSE announced[m]]
        /\ missed' = {q \in missed : q[2] \notin P}
    BY <1>4, <1>5 DEF CheckRouteChanges
  <2>2. ASSUME NEW c \in Clients, NEW m \in Mods, Due(c, m) PROVE Due(c, m)'
    <3>1. CASE m \in P
      BY <2>1, <3>1 DEF Due
    <3>2. CASE m \notin P
      <4>1. announced'[m] = announced[m] /\ (<<c, m>> \in missed => <<c, m>> \in missed')
        BY <2>1, <3>2
      <4>2. Settles(c, m) => Settles(c, m)'
        BY <2>1, <4>1 DEF Settles, Behind
      <4>3. \A w \in Workers : Carries(w, c, m) => Carries(w, c, m)'
        BY <2>1, <4>1 DEF Carries, IsFresh
      <4>. QED BY <2>1, <2>2, <4>2, <4>3 DEF Due, Queued
    <3>. QED BY <3>1, <3>2
  <2>3. NoneIsForgotten'
    BY <1>0, <2>1, <2>2 DEF DueInv, NoneIsForgotten
  <2>4. \A m \in Mods : announced'[m] <= route'[m]
    BY <2>1
  <2>. QED BY <1>1, <2>1, <2>3, <2>4 DEF DueInv
<1>6. ASSUME NEW S \in SUBSET Mods, ReloadRoutes(S) PROVE DueInv'
  <2>1. /\ UNCHANGED <<conn, asked, book, pushList, loop, changeMods, tasks, work, got,
                       announced, missed>>
        /\ \A m \in Mods : announced[m] <= route'[m]
    BY <1>4, <1>6 DEF ReloadRoutes
  <2>2. \A c \in Clients, m \in Mods : Due(c, m) => Due(c, m)'
    BY <2>1 DEF Due, Settles, Behind, Carries, IsFresh, Queued
  <2>3. NoneIsForgotten'
    BY <1>0, <2>1, <2>2 DEF DueInv, NoneIsForgotten
  <2>. QED BY <1>1, <2>1, <2>3 DEF DueInv
<1>7. CASE LockBook
  <2>1. /\ UNCHANGED <<conn, asked, book, pushList, route, changeMods, tasks, work, got,
                       announced, missed>>
        /\ loop' # "free"
    BY <1>7 DEF LockBook
  <2>2. \A c \in Clients, m \in Mods : Due(c, m) => Due(c, m)'
    BY <2>1 DEF Due, Settles, Behind, Carries, IsFresh, Queued
  <2>3. NoneIsForgotten'
    BY <1>0, <2>1, <2>2 DEF DueInv, NoneIsForgotten
  <2>. QED BY <1>1, <2>1, <2>3 DEF DueInv
<1>8. CASE Publish
  <2>1. /\ UNCHANGED <<conn, asked, book, route, work, got, announced, missed>>
        /\ tasks' = Append(tasks, PushTask)
        /\ pushList' = [c \in Clients |->
                          pushList[c] \cup {m \in changeMods : c \in book[m]}]
    BY <1>8 DEF Publish
  <2>2. PushTask \in Tasks
    BY DEF Tasks
  <2>3. \A t : Queued(t) \/ t = PushTask => Queued(t)'
    BY <1>0, <2>1, <2>2, AppendQueued
  <2>4. Queued(PushTask)'
    BY <2>3 DEF PushTask
  <2>5. ASSUME NEW c \in Clients, NEW m \in Mods, c \in book[m], Due(c, m) PROVE Due(c, m)'
    <3>1. m \in changeMods \/ m \in pushList[c] => m \in pushList'[c]
      BY <2>1, <2>5
    <3>2. CASE m \in pushList'[c]
      BY <2>4, <3>2 DEF Due, PushTask
    <3>3. CASE m \notin pushList'[c]
      <4>1. Queued(AnswerTask(c, m)) => Queued(AnswerTask(c, m))'
        BY <2>3 DEF AnswerTask
      <4>2. \A w \in Workers : Carries(w, c, m) => Carries(w, c, m)'
        BY <2>1, <3>1, <3>3 DEF Carries, IsFresh
      <4>. QED BY <2>1, <2>5, <3>1, <3>3, <4>1, <4>2 DEF Due, Settles, Behind
    <3>. QED BY <3>2, <3>3
  <2>6. NoneIsForgotten'
    BY <1>0, <2>1, <2>5 DEF DueInv, NoneIsForgotten
  <2>. QED BY <1>1, <2>1, <2>6 DEF DueInv
<1>. QED BY <1>2, <1>3, <1>5, <1>6, <1>7, <1>8

LEMMA NextDue == ASSUME Inv, BookInv, DueInv, [Next]_vars PROVE DueInv'
<1>1. ASSUME NEW w \in Workers, WorkerStep(w) PROVE DueInv'
  BY <1>1, TakeDue, GetHostsDue, ReplyDue, GetAllOnlineClientDue, MakePublishMapDue,
     UnsubscribeDue, PushToClientDue DEF WorkerStep
<1>2. CASE UNCHANGED vars
  BY <1>2 DEF vars, DueInv, NoneIsForgotten, Due, Settles, Behind, Carries, IsFresh,
              Queued
<1>. QED BY <1>1, <1>2, LoopDue DEF Next

(* With an idle pool and a loop that publishes nothing, nothing is to come.*)
LEMMA NothingComes ==
    ASSUME Quiet, NEW c \in Clients, NEW m \in Mods, Due(c, m)
    PROVE  Settles(c, m)
<1>1. \A w \in Workers : work[w].at = "idle"
  BY DEF Quiet, PoolIsIdle, Idle
<1>2. \A t : ~Queued(t)
  BY EmptySeq DEF Quiet, PoolIsIdle, Queued
<1>. QED BY <1>1, <1>2 DEF Due, Carries, Quiet

(* Whenever no work is left, a connected client was last sent what was     *)
(* last published of each module it is booked for, unless it got lost with *)
(* an erased entry or to an older answer: requests, answers, departures,   *)
(* checks and the steps of any number of pushes at once may interleave as  *)
(* they like (DnsService.cc:72-137, DnsSubscribe.cc:14-147).               *)
THEOREM NewestAreSent == Spec => []LatestIsSent
<1>1. Inv /\ DueInv => LatestIsSent
  <2> SUFFICES ASSUME Inv, DueInv, Quiet, NEW c \in Clients, conn[c] = "up",
                      NEW m \in asked[c], c \in book[m], <<c, m>> \notin missed
               PROVE  ~Behind(<<c, m>>)
    BY DEF LatestIsSent
  <2>1. m \in Mods /\ Due(c, m)
    BY DEF Inv, TypeOK, DueInv, NoneIsForgotten
  <2>. QED BY <2>1, NothingComes DEF Settles
<1>2. Inv /\ BookInv /\ [Next]_vars => BookInv'
  BY NextBook
<1>3. Inv /\ BookInv /\ DueInv /\ [Next]_vars => DueInv'
  BY NextDue
<1>. QED BY <1>1, <1>2, <1>3, InitInv, InitBook, InitDue, NextInv, PTL DEF Spec

----------------------------------------------------------------------------
(* Route tables.                                                           *)

(* Which snapshot of the data is in which map.  A snapshot is never newer  *)
(* than the data, and between loading and swapping B is not older than A.  *)
Snapshots ==
    /\ \A m \in RouteMods : mapA[m] <= data[m] /\ mapB[m] <= data[m]
    /\ \A m \in RouteMods : published[m] <= mapA[m]
    /\ step \in {"swap", "reswap"} => \A m \in RouteMods : mapA[m] <= mapB[m]

(* The constructor runs before any version is known.                       *)
Versions ==
    /\ step \in {"build", "clear"} => version = 0
    /\ dbVersion >= 1
    /\ version <= dbVersion
    /\ admin # "idle" => change # NoChange /\ change[2] >= dbVersion

RouteInv == RouteTypeOK /\ Snapshots /\ Versions

Changing(m) == admin # "idle" /\ change[1] = m

(* Unless a version was known before its change was complete, the hosts of *)
(* a module that nobody changes are loaded when the version is known.      *)
Fresh(m) ==
    version = dbVersion /\ ~Changing(m) =>
        \/ "known" \in hurt[m]
        \/ /\ step \in {"idle", "changes", "publish", "remove"} => mapA[m] = data[m]
           /\ step \in {"swap", "reswap"} => mapB[m] = data[m]

UpToDate == \A m \in RouteMods : Fresh(m)

(* Where a module stands whose hosts were not all published yet.  Its      *)
(* change is still being made; or it is made and the version not noticed,  *)
(* and the row outlives the check under way; or the check under way deals  *)
(* with it; or its change was hurt.                                        *)
BeingMade(m) ==
    /\ Changing(m)
    /\ admin = "version" => change \in rows \/ change[2] = version

Unnoticed(m) == \E r \in rows : r[1] = m /\ version < r[2] /\ r[2] <= dbVersion

Listed(m) == \E r \in rows : r[1] = m /\ r[2] >= version

DealtWith(m) ==
    \/ step = "load" /\ Listed(m)
    \/ step = "swap" /\ Listed(m) /\ mapB[m] = data[m]
    \/ step = "changes" /\ Listed(m) /\ mapA[m] = data[m]
    \/ step = "publish" /\ m \in changes /\ mapA[m] = data[m]

Accounted(m) ==
    \/ published[m] = data[m] \/ hurt[m] # {}
    \/ BeingMade(m) \/ Unnoticed(m) \/ DealtWith(m)

NoneIsMissed == step # "build" => \A m \in RouteMods : Accounted(m)

----------------------------------------------------------------------------
LEMMA RouteInitInv == RouteInit => RouteInv /\ UpToDate
BY RouteAssumption
DEF RouteInit, RouteInv, RouteTypeOK, Snapshots, Versions, UpToDate, Fresh, Changing, Steps, NoChange

(* The three ways are the only marks.                                      *)
LEMMA HurtsType ==
    ASSUME hurt \in [RouteMods -> SUBSET Ways], NEW S, NEW way \in Ways, Hurts(S, way)
    PROVE  /\ hurt' \in [RouteMods -> SUBSET Ways]
           /\ \A m \in RouteMods :
                 /\ hurt[m] \subseteq hurt'[m]
                 /\ m \in S /\ published[m] # data[m] => way \in hurt'[m]
BY DEF Hurts

LEMMA NextType == RouteTypeOK /\ [RouteNext]_routeVars => RouteTypeOK'
<1> SUFFICES ASSUME RouteTypeOK, [RouteNext]_routeVars PROVE RouteTypeOK'
  OBVIOUS
<1> USE RouteAssumption DEF RouteTypeOK, Steps, NoChange, database
<1>1. CASE RecordChange
  BY <1>1 DEF RecordChange
<1>2. CASE SetVersion
  <2>1. hurt' \in [RouteMods -> SUBSET Ways]
    BY <1>2, HurtsType DEF SetVersion, Ways
  <2>. QED BY <2>1, <1>2 DEF SetVersion
<1>3. ASSUME NEW m \in RouteMods, ChangeData(m) PROVE RouteTypeOK'
  <2>1. PICK stamp \in {dbVersion, dbVersion + 1} : change' = <<m, stamp>>
    BY <1>3 DEF ChangeData
  <2>2. change' \in RouteMods \X Nat /\ change' # NoChange
    BY <2>1
  <2>. QED BY <2>2, <1>3 DEF ChangeData
<1>4. CASE BuildRouteMapA
  BY <1>4 DEF BuildRouteMapA
<1>5. CASE RemoveAllChanges
  <2>1. hurt' \in [RouteMods -> SUBSET Ways]
    BY <1>5, HurtsType DEF RemoveAllChanges, Ways
  <2>. QED BY <2>1, <1>5 DEF RemoveAllChanges
<1>6. CASE LoadVersion
  <2>1. hurt' \in [RouteMods -> SUBSET Ways]
    BY <1>6, HurtsType DEF LoadVersion, Ways
  <2>. QED BY <2>1, <1>6 DEF LoadVersion
<1>7. CASE LoadAnyway
  BY <1>7 DEF LoadAnyway
<1>8. CASE LoadRouteMapB
  BY <1>8 DEF LoadRouteMapB
<1>9. CASE Swap
  BY <1>9 DEF Swap
<1>10. CASE LoadChanges
  BY <1>10 DEF LoadChanges
<1>11. CASE PublishChanges
  BY <1>11 DEF PublishChanges
<1>12. CASE RemoveChanges
  BY <1>12 DEF RemoveChanges
<1>13. CASE UNCHANGED routeVars
  BY <1>13 DEF routeVars
<1>. QED
  BY <1>1, <1>2, <1>3, <1>4, <1>5, <1>6, <1>7, <1>8, <1>9, <1>10, <1>11, <1>12, <1>13
  DEF RouteNext, Admin, Check

LEMMA NextSnapshots == RouteInv /\ [RouteNext]_routeVars => Snapshots'
<1> SUFFICES ASSUME RouteInv, [RouteNext]_routeVars PROVE Snapshots'
  OBVIOUS
<1> USE DEF RouteInv, RouteTypeOK, Steps, NoChange, database, Snapshots
<1>1. CASE RecordChange
  BY <1>1 DEF RecordChange
<1>2. CASE SetVersion
  BY <1>2 DEF SetVersion
<1>3. ASSUME NEW m \in RouteMods, ChangeData(m) PROVE Snapshots'
  <2>1. \A n \in RouteMods : data[n] <= data'[n]
    BY <1>3 DEF ChangeData
  <2>. QED BY <2>1, <1>3 DEF ChangeData
<1>4. CASE BuildRouteMapA
  BY <1>4 DEF BuildRouteMapA
<1>5. CASE RemoveAllChanges
  BY <1>5 DEF RemoveAllChanges
<1>6. CASE LoadVersion
  BY <1>6 DEF LoadVersion
<1>7. CASE LoadAnyway
  BY <1>7 DEF LoadAnyway
<1>8. CASE LoadRouteMapB
  BY <1>8 DEF LoadRouteMapB
<1>9. CASE Swap
  BY <1>9 DEF Swap
<1>10. CASE LoadChanges
  BY <1>10 DEF LoadChanges
<1>11. CASE PublishChanges
  BY <1>11 DEF PublishChanges
<1>12. CASE RemoveChanges
  BY <1>12 DEF RemoveChanges
<1>13. CASE UNCHANGED routeVars
  BY <1>13 DEF routeVars
<1>. QED
  BY <1>1, <1>2, <1>3, <1>4, <1>5, <1>6, <1>7, <1>8, <1>9, <1>10, <1>11, <1>12, <1>13
  DEF RouteNext, Admin, Check

LEMMA NextVersions == RouteInv /\ [RouteNext]_routeVars => Versions'
<1> SUFFICES ASSUME RouteInv, [RouteNext]_routeVars PROVE Versions'
  OBVIOUS
<1> USE DEF RouteInv, RouteTypeOK, Steps, NoChange, database, Versions
<1>1. CASE RecordChange
  BY <1>1 DEF RecordChange
<1>2. CASE SetVersion
  BY <1>2 DEF SetVersion
<1>3. ASSUME NEW m \in RouteMods, ChangeData(m) PROVE Versions'
  <2>1. PICK stamp \in {dbVersion, dbVersion + 1} : change' = <<m, stamp>>
    BY <1>3 DEF ChangeData
  <2>2. change' # NoChange /\ change'[2] >= dbVersion
    BY <2>1
  <2>. QED BY <2>2, <1>3 DEF ChangeData
<1>4. CASE BuildRouteMapA
  BY <1>4 DEF BuildRouteMapA
<1>5. CASE RemoveAllChanges
  BY <1>5 DEF RemoveAllChanges
<1>6. CASE LoadVersion
  BY <1>6 DEF LoadVersion
<1>7. CASE LoadAnyway
  BY <1>7 DEF LoadAnyway
<1>8. CASE LoadRouteMapB
  BY <1>8 DEF LoadRouteMapB
<1>9. CASE Swap
  BY <1>9 DEF Swap
<1>10. CASE LoadChanges
  BY <1>10 DEF LoadChanges
<1>11. CASE PublishChanges
  BY <1>11 DEF PublishChanges
<1>12. CASE RemoveChanges
  BY <1>12 DEF RemoveChanges
<1>13. CASE UNCHANGED routeVars
  BY <1>13 DEF routeVars
<1>. QED
  BY <1>1, <1>2, <1>3, <1>4, <1>5, <1>6, <1>7, <1>8, <1>9, <1>10, <1>11, <1>12, <1>13
  DEF RouteNext, Admin, Check

LEMMA NextUpToDate == RouteInv /\ UpToDate /\ [RouteNext]_routeVars => UpToDate'
<1> SUFFICES ASSUME RouteInv, UpToDate, [RouteNext]_routeVars, NEW m \in RouteMods
             PROVE  Fresh(m)'
  BY DEF UpToDate
<1>0. Fresh(m)
  BY DEF UpToDate
<1> USE DEF RouteInv, RouteTypeOK, Steps, NoChange, database, Versions, Fresh, Changing
<1>1. CASE RecordChange
  BY <1>0, <1>1 DEF RecordChange
<1>2. CASE SetVersion
  <2>1. change[2] \in Nat /\ change[2] >= dbVersion /\ dbVersion' = change[2] /\ version' = version
    BY <1>2 DEF SetVersion
  <2>2. CASE change[2] = version
    <3>1. version = dbVersion
      BY <2>1, <2>2
    <3>2. hurt[m] \subseteq hurt'[m]
          /\ (m = change[1] /\ published[m] # data[m] => "known" \in hurt'[m])
      BY <1>2, <2>2, HurtsType DEF SetVersion, Ways
    <3>3. CASE change[1] = m /\ published[m] = data[m]
      BY <3>3, <1>2 DEF SetVersion, Snapshots
    <3>4. CASE change[1] = m /\ published[m] # data[m]
      BY <3>2, <3>4
    <3>5. CASE change[1] # m
      BY <1>0, <1>2, <3>1, <3>2, <3>5 DEF SetVersion
    <3>. QED BY <3>3, <3>4, <3>5
  <2>3. CASE change[2] # version
    BY <2>1, <2>3
  <2>. QED BY <2>2, <2>3
<1>3. ASSUME NEW n \in RouteMods, ChangeData(n) PROVE Fresh(m)'
  <2>1. admin' # "idle" /\ change'[1] = n /\ admin = "idle"
    BY <1>3 DEF ChangeData
  <2>2. CASE m = n
    BY <2>1, <2>2
  <2>3. CASE m # n
    BY <1>0, <1>3, <2>1, <2>3 DEF ChangeData
  <2>. QED BY <2>2, <2>3
<1>4. CASE BuildRouteMapA
  BY <1>4 DEF BuildRouteMapA
<1>5. CASE RemoveAllChanges
  BY <1>5 DEF RemoveAllChanges
<1>6. CASE LoadVersion
  BY <1>6 DEF LoadVersion
<1>7. CASE LoadAnyway
  BY <1>0, <1>7 DEF LoadAnyway
<1>8. CASE LoadRouteMapB
  BY <1>8 DEF LoadRouteMapB
<1>9. CASE Swap
  BY <1>0, <1>9 DEF Swap
<1>10. CASE LoadChanges
  BY <1>0, <1>10 DEF LoadChanges
<1>11. CASE PublishChanges
  <2>1. CASE published'[m] = data[m]
    BY <2>1, <1>0, <1>11 DEF PublishChanges, Snapshots
  <2>2. CASE published'[m] # data[m]
    BY <2>2, <1>0, <1>11 DEF PublishChanges
  <2>. QED BY <2>1, <2>2
<1>12. CASE RemoveChanges
  BY <1>0, <1>12 DEF RemoveChanges
<1>13. CASE UNCHANGED routeVars
  BY <1>0, <1>13 DEF routeVars
<1>. QED
  BY <1>1, <1>2, <1>3, <1>4, <1>5, <1>6, <1>7, <1>8, <1>9, <1>10, <1>11, <1>12, <1>13
  DEF RouteNext, Admin, Check

(* A step loses no change: its row stays until its version is dealt with,  *)
(* or the step that loses it is one of the three ways.                     *)
LEMMA NextNoneIsMissed ==
    RouteInv /\ NoneIsMissed /\ [RouteNext]_routeVars => NoneIsMissed'
<1> SUFFICES ASSUME RouteInv, NoneIsMissed, [RouteNext]_routeVars,
                    step' # "build", NEW m \in RouteMods
             PROVE  Accounted(m)'
  BY DEF NoneIsMissed
<1>0. step # "build" => Accounted(m)
  BY DEF NoneIsMissed
<1> USE DEF RouteInv, RouteTypeOK, Versions, NoChange
<1> USE DEF Accounted, BeingMade, Changing, Unnoticed, Listed, DealtWith
<1>1. CASE RecordChange
  BY <1>0, <1>1 DEF RecordChange
<1>2. CASE SetVersion
  <2>1. /\ change \in RouteMods \X Nat /\ change[2] >= dbVersion /\ dbVersion' = change[2]
        /\ step' = step /\ version' = version /\ rows' = rows
        /\ published' = published /\ data' = data
    BY <1>2 DEF SetVersion
  <2>2. \A n \in RouteMods :
            /\ hurt[n] \subseteq hurt'[n]
            /\ change[2] = version /\ n = change[1] /\ published[n] # data[n]
                 => "known" \in hurt'[n]
    BY <1>2, HurtsType DEF SetVersion, Ways
  <2>3. CASE BeingMade(m)
    <3>1. change \in rows \/ change[2] = version
      BY <1>2, <2>3 DEF SetVersion
    <3>2. CASE change[2] = version
      BY <2>1, <2>2, <2>3, <3>2
    <3>3. CASE change \in rows /\ change[2] # version
      <4>1. version < change[2] /\ change[2] <= dbVersion'
        BY <2>1, <3>3
      <4>2. Unnoticed(m)'
        BY <2>1, <2>3, <3>3, <4>1
      <4>. QED BY <4>2
    <3>. QED BY <3>1, <3>2, <3>3
  <2>4. CASE Unnoticed(m)
    <3>1. PICK r \in rows : r[1] = m /\ version < r[2] /\ r[2] <= dbVersion
      BY <2>4
    <3>2. r[2] <= dbVersion'
      BY <2>1, <3>1
    <3>. QED BY <2>1, <3>1, <3>2
  <2>5. CASE published[m] = data[m] \/ hurt[m] # {} \/ DealtWith(m)
    BY <2>1, <2>2, <2>5, <1>2 DEF SetVersion
  <2>. QED BY <1>0, <2>1, <2>3, <2>4, <2>5
<1>3. ASSUME NEW n \in RouteMods, ChangeData(n) PROVE Accounted(m)'
  <2>1. admin = "idle" /\ admin' = "row" /\ change'[1] = n
    BY <1>3 DEF ChangeData
  <2>2. CASE m = n
    BY <2>1, <2>2
  <2>3. CASE m # n
    BY <1>0, <1>3, <2>1, <2>3 DEF ChangeData
  <2>. QED BY <2>2, <2>3
<1>4. CASE BuildRouteMapA
  BY <1>4 DEF BuildRouteMapA, database
<1>5. CASE RemoveAllChanges
  <2> DEFINE listed == {r[1] : r \in rows}
  <2>1. Hurts(listed, "started") /\ ((\E r \in rows : r[1] = m) => m \in listed)
    BY <1>5 DEF RemoveAllChanges
  <2> HIDE DEF listed
  <2>2. (\E r \in rows : r[1] = m) => published[m] = data[m] \/ hurt'[m] # {}
    BY <2>1, HurtsType DEF Ways
  <2>3. hurt[m] \subseteq hurt'[m]
    BY <1>5, HurtsType DEF RemoveAllChanges, Ways
  <2>4. /\ step = "clear" /\ published' = published /\ data' = data
        /\ admin' = admin /\ change' = change /\ version' = version
    BY <1>5 DEF RemoveAllChanges
  <2>. QED BY <1>0, <2>2, <2>3, <2>4
<1>6. CASE LoadVersion
  <2>1. /\ step' = "load" /\ version' = dbVersion /\ dbVersion # version /\ rows' = rows
        /\ step = "idle" /\ published' = published /\ data' = data
        /\ admin' = admin /\ change' = change /\ dbVersion' = dbVersion
    BY <1>6 DEF LoadVersion, database
  <2>2. hurt[m] \subseteq hurt'[m]
    BY <1>6, HurtsType DEF LoadVersion, Ways
  <2>3. CASE published[m] = data[m] \/ hurt[m] # {}
    BY <2>1, <2>2, <2>3
  <2>4. CASE BeingMade(m)
    <3>1. change \in RouteMods \X Nat /\ change[2] >= dbVersion /\ change[2] # version
      BY <2>1, <2>4
    <3>. QED BY <2>1, <2>4, <3>1
  <2>5. CASE Unnoticed(m) /\ published[m] # data[m]
    <3>1. PICK r \in rows : r[1] = m /\ version < r[2] /\ r[2] <= dbVersion
      BY <2>5
    <3>2. CASE \E q \in rows : q[1] = m /\ q[2] >= dbVersion
      BY <2>1, <3>2
    <3>3. CASE ~\E q \in rows : q[1] = m /\ q[2] >= dbVersion
      <4> DEFINE passed == {q[1] : q \in {p \in rows : version < p[2] /\ p[2] < dbVersion}}
                              \ {q[1] : q \in {p \in rows : p[2] >= dbVersion}}
      <4>1. r[2] < dbVersion
        BY <3>1, <3>3
      <4>2. m \in passed
        BY <3>1, <3>3, <4>1
      <4>3. Hurts(passed, "passed")
        BY <1>6 DEF LoadVersion
      <4> HIDE DEF passed
      <4>4. "passed" \in hurt'[m]
        BY <2>5, <4>2, <4>3, HurtsType DEF Ways
      <4>. QED BY <4>4
    <3>. QED BY <3>2, <3>3
  <2>. QED BY <1>0, <2>1, <2>3, <2>4, <2>5
<1>7. CASE LoadAnyway
  BY <1>0, <1>7 DEF LoadAnyway, database
<1>8. CASE LoadRouteMapB
  BY <1>0, <1>8 DEF LoadRouteMapB, database
<1>9. CASE Swap
  BY <1>0, <1>9 DEF Swap, database
<1>10. CASE LoadChanges
  <2>1. Listed(m) => m \in changes'
    BY <1>10 DEF LoadChanges
  <2>. QED BY <1>0, <1>10, <2>1 DEF LoadChanges, database
<1>11. CASE PublishChanges
  <2>1. ASSUME published[m] = data[m] \/ DealtWith(m)
        PROVE  published'[m] = data[m]
    <3>1. published[m] <= mapA[m] /\ mapA[m] <= data[m]
      BY DEF Snapshots
    <3>2. m \in changes => mapA[m] = data[m]
      BY <2>1, <3>1, <1>11 DEF PublishChanges
    <3>. QED BY <2>1, <3>2, <1>11 DEF PublishChanges
  <2>2. published'[m] # data[m] => hurt'[m] = hurt[m]
    BY <1>11 DEF PublishChanges
  <2>. QED BY <1>0, <1>11, <2>1, <2>2 DEF PublishChanges, database
<1>12. CASE RemoveChanges
  <2>1. \A r \in rows : r[2] > version => r \in rows'
    BY <1>12 DEF RemoveChanges
  <2>2. CASE published[m] = data[m] \/ hurt[m] # {}
    BY <2>2, <1>12 DEF RemoveChanges
  <2>3. CASE BeingMade(m)
    <3>1. change \in RouteMods \X Nat /\ change[2] >= version
      BY <2>3
    <3>2. change[2] # version => change[2] > version
      BY <3>1
    <3>. QED BY <2>1, <2>3, <3>2, <1>12 DEF RemoveChanges
  <2>4. CASE Unnoticed(m)
    BY <2>1, <2>4, <1>12 DEF RemoveChanges
  <2>. QED BY <1>0, <2>2, <2>3, <2>4, <1>12 DEF RemoveChanges
<1>13. CASE UNCHANGED routeVars
  BY <1>0, <1>13 DEF routeVars
<1>. QED
  BY <1>1, <1>2, <1>3, <1>4, <1>5, <1>6, <1>7, <1>8, <1>9, <1>10, <1>11, <1>12, <1>13
  DEF RouteNext, Admin, Check

LEMMA RouteNextInv == RouteInv /\ [RouteNext]_routeVars => RouteInv'
BY NextType, NextSnapshots, NextVersions DEF RouteInv

(* A step moves no host back: only swap changes what is served, and it     *)
(* serves a snapshot that is not older.                                    *)
LEMMA StepForward ==
    RouteInv /\ [RouteNext]_routeVars
        => [\A m \in RouteMods : mapA'[m] >= mapA[m] /\ published'[m] >= published[m]]_routeVars
<1> SUFFICES ASSUME RouteInv, RouteNext
             PROVE \A m \in RouteMods : mapA'[m] >= mapA[m] /\ published'[m] >= published[m]
  OBVIOUS
<1> USE DEF RouteInv, RouteTypeOK, Snapshots, database
<1>1. CASE Admin
  BY <1>1 DEF Admin, RecordChange, SetVersion, ChangeData
<1>2. CASE BuildRouteMapA
  BY <1>2 DEF BuildRouteMapA
<1>3. CASE Swap
  BY <1>3 DEF Swap
<1>4. CASE PublishChanges
  BY <1>4 DEF PublishChanges
<1>5. CASE RemoveAllChanges \/ LoadVersion \/ LoadAnyway
  BY <1>5 DEF RemoveAllChanges, LoadVersion, LoadAnyway
<1>6. CASE LoadRouteMapB \/ LoadChanges \/ RemoveChanges
  BY <1>6 DEF LoadRouteMapB, LoadChanges, RemoveChanges
<1>. QED BY <1>1, <1>2, <1>3, <1>4, <1>5, <1>6 DEF RouteNext, Check

----------------------------------------------------------------------------
(* The variables keep their types, whatever the administrators do.         *)
THEOREM RouteTypeCorrect == RouteSpec => []RouteTypeOK
<1>1. RouteInv => RouteTypeOK
  BY DEF RouteInv
<1>. QED BY RouteInitInv, RouteNextInv, <1>1, PTL DEF RouteSpec

(* The hosts served and published never go back to older ones, although    *)
(* the former map stays in memory as the next buffer (DnsRoute::swap).     *)
THEOREM MovesForward == RouteSpec => HostsMoveForward
BY RouteInitInv, RouteNextInv, StepForward, PTL DEF RouteSpec, HostsMoveForward

(* Between two checks a version that loadVersion knows has been loaded:    *)
(* the hosts served are the newest, however changes and the queries of a   *)
(* check interleave, unless the version was known before the change was    *)
(* complete, which takes two changes with an equal time stamp.             *)
THEOREM NewestAreServed == RouteSpec => []ServedHostsAreNewest
<1>1. UpToDate => ServedHostsAreNewest
  BY DEF UpToDate, Fresh, Changing, ServedHostsAreNewest, Settled
<1>. QED BY <1>1, NextUpToDate, RouteInitInv, RouteNextInv, PTL DEF RouteSpec

(* Whatever the administrators do, and when, a change whose version was    *)
(* dealt with has been published, or one of three steps lost it: the       *)
(* constructor's removeChanges(true), loadVersion moving past it, or a     *)
(* version known too early.  The check itself removes no row of a change   *)
(* it did not publish (DnsRoute::removeChanges).                           *)
THEOREM AllArePublished == RouteSpec => []ChangesArePublished
<1>1. RouteInv /\ NoneIsMissed => ChangesArePublished
  <2> SUFFICES ASSUME RouteInv, NoneIsMissed, Settled, NEW m \in RouteMods
               PROVE  published[m] = data[m] \/ hurt[m] # {}
    BY DEF ChangesArePublished
  <2>1. step = "idle" /\ admin = "idle" /\ version = dbVersion
    BY DEF Settled
  <2>2. Accounted(m)
    BY <2>1 DEF NoneIsMissed
  <2>3. ~Unnoticed(m)
    BY <2>1 DEF Unnoticed, RouteInv, RouteTypeOK
  <2>. QED BY <2>1, <2>2, <2>3 DEF Accounted, BeingMade, Changing, DealtWith
<1>2. RouteInit => NoneIsMissed
  BY DEF RouteInit, NoneIsMissed
<1>. QED BY <1>1, <1>2, NextNoneIsMissed, RouteInitInv, RouteNextInv, PTL DEF RouteSpec
=============================================================================
