------------------------------ MODULE TcpServer -----------------------------
(***************************************************************************)
(* TcpServer with its Acceptor and its EventLoopThreadPool.  The base loop *)
(* accepts; a connection lives on the base loop, or on one of the loops of *)
(* the IO threads.  There newConnection, on the base loop, and the         *)
(* connection's handlers, on its own, run at the same time: newConnection  *)
(* is a step for every assignment they can see.                            *)
(*                                                                         *)
(* No descriptor is ever closed.  broken says in what way the process      *)
(* breaks; the model then stops.                                           *)
(***************************************************************************)
EXTENDS Sockets, SequencesExt

CONSTANTS
    IoLoops,    \* the loops of the IO threads, in the order of their start
    Base,       \* the loop the server was made with
    FileLimits  \* the numbers of descriptors that are looked at

VARIABLES
    numThreads,
    loops,      \* _loops
    next,       \* _next, counted from 1
    starting,   \* where EventLoopThreadPool::start is: "next", "test", "sleep" or "done"
    born,       \* the thread it has started: "none", "running" or "published"
    files,      \* how many descriptors accept may make
    ghosts,     \* ghosts[l]: what loop l has of connections with descriptor -1
    stage,      \* stage[c]: how far newConnection is with c
    loopOf,     \* the loop of a connection
    connections,\* _connections
    watched,    \* connections whose channel is in an epoll
    called,     \* the callbacks of the user that were called
    erasing,    \* erasing[l]: what the loop's thread is taking out of _connections
    overtaken,  \* connections that ended before newConnection was done with them
    broken

poolVars == <<numThreads, loops, next, starting, born>>
connVars == <<stage, loopOf, connections, watched, called, erasing, overtaken, broken>>
descriptors == <<files, ghosts>>
serverVars == <<poolVars, connVars, descriptors>>

AllLoops == {Base} \cup {IoLoops[i] : i \in DOMAIN IoLoops}
NoOne == "no one"

ServerInit ==
    /\ numThreads \in 0 .. Len(IoLoops) /\ files \in FileLimits
    /\ loops = <<>> /\ next = 1
    /\ starting = "next" /\ born = "none"
    /\ stage = [c \in Clients |-> "none"]
    /\ loopOf = [c \in Clients |-> Base]
    /\ connections = {} /\ watched = {} /\ overtaken = {}
    /\ called = [c \in Clients |-> <<>>]
    /\ erasing = [l \in AllLoops |-> NoOne]
    /\ ghosts = [l \in AllLoops |-> "none"]
    /\ broken = {}

Runs == serving /\ broken = {}

----------------------------------------------------------------------------
(* EventLoopThreadPool::start and the threads.  What is done under the     *)
(* mutex of an EventLoopThread is one step.                                *)

StartThread ==
    /\ Runs /\ starting = "next"
    /\ IF Len(loops) < numThreads
       THEN starting' = "test" /\ born' = "running"
       ELSE starting' = "done" /\ UNCHANGED born
    /\ UNCHANGED <<numThreads, loops, next, connVars, descriptors, socketVars>>

(* Mistakes the checked properties must notice: a variant X_mistake stands *)
(* in for X in a mutation run, and nothing else uses it.                   *)
ThreadFunc_doesNotNotify ==
    /\ Runs /\ born = "running"
    /\ born' = "published"
    /\ UNCHANGED <<starting, numThreads, loops, next, connVars, descriptors, socketVars>>

(* The new thread publishes its loop and notifies.                         *)
ThreadFunc ==
    /\ Runs /\ born = "running"
    /\ born' = "published"
    /\ starting' = IF starting = "sleep" THEN "test" ELSE starting
    /\ UNCHANGED <<numThreads, loops, next, connVars, descriptors, socketVars>>

WakeUnasked ==
    /\ Runs /\ starting = "sleep"
    /\ starting' = "test"
    /\ UNCHANGED <<numThreads, loops, next, born, connVars, descriptors, socketVars>>

StartLoop ==
    /\ Runs /\ starting = "test"
    /\ IF born = "published"
       THEN /\ loops' = Append(loops, IoLoops[Len(loops) + 1])
            /\ starting' = "next" /\ born' = "none"
       ELSE starting' = "sleep" /\ UNCHANGED <<loops, born>>
    /\ UNCHANGED <<numThreads, next, connVars, descriptors, socketVars>>

NextLoop == IF loops = <<>> THEN Base ELSE loops[next]
Turn == IF loops = <<>> THEN next ELSE (next % Len(loops)) + 1

----------------------------------------------------------------------------
(* The base loop.                                                          *)

Making == {"made", "held", "listed", "hasUser", "hasCloser"}

(* A loop that is not in the midst of anything takes up the next event.    *)
Idle(l) ==
    /\ Runs /\ starting = "done" /\ erasing[l] = NoOne
    /\ l = Base => \A c \in Clients : stage[c] \notin Making

Accepted == {c \in Clients : link[c] = "accepted"}

AcceptAlone_tellsNoOne(c) ==
    /\ stage' = [stage EXCEPT ![c] = "told"]
    /\ connections' = connections \cup {c}
    /\ UNCHANGED <<called, overtaken>>

(* newConnection on the base loop alone: nothing can come between.         *)
AcceptAlone(c) ==
    /\ stage' = [stage EXCEPT ![c] = "told"]
    /\ connections' = connections \cup {c}
    /\ called' = [called EXCEPT ![c] = Append(@, "onConnection")]
    /\ UNCHANGED overtaken

Accept(c) ==
    /\ Idle(Base)
    /\ link[c] = "queued" /\ Cardinality(Accepted) < files
    /\ link' = [link EXCEPT ![c] = "accepted"]
    /\ loopOf' = [loopOf EXCEPT ![c] = NextLoop]
    /\ next' = Turn
    /\ watched' = watched \cup {c}
    /\ IF NextLoop = Base
       THEN AcceptAlone(c)
       ELSE /\ stage' = [stage EXCEPT ![c] = "made"]
            /\ UNCHANGED <<connections, called, overtaken>>
    /\ UNCHANGED <<numThreads, loops, starting, born, erasing, broken, descriptors>>
    /\ UNCHANGED <<unread, ended, serving>>

Erasing == \E l \in AllLoops : erasing[l] # NoOne

(* _connections is written while another thread writes it: undefined.      *)
MayClash == broken' \in {broken} \cup (IF Erasing THEN {broken \cup {"twoWriters"}} ELSE {})

(* accept has no descriptor left, and newConnection(-1) makes a connection *)
(* all the same: it takes a turn, is put into _connections, in the place   *)
(* of the former with this key, and its loop is to tell the user.          *)
AcceptFails ==
    /\ Idle(Base)
    /\ Cardinality(Accepted) = files /\ \E c \in Clients : link[c] = "queued"
    /\ ghosts' = [ghosts EXCEPT ![NextLoop] = IF NextLoop = Base THEN "told" ELSE "queued"]
    /\ next' = Turn
    /\ MayClash
    /\ UNCHANGED <<numThreads, loops, starting, born, files, socketVars>>
    /\ UNCHANGED <<stage, loopOf, connections, watched, called, erasing, overtaken>>

(* The functor connectEstablished of such a connection tells the user.     *)
TellOfGhost(l) ==
    /\ Idle(l) /\ ghosts[l] = "queued"
    /\ ghosts' = [ghosts EXCEPT ![l] = "told"]
    /\ UNCHANGED <<poolVars, connVars, files, socketVars>>

(* newConnection for a connection of an IO thread, after the constructor.  *)
GoOn(c) ==
    /\ Runs
    /\ \/ /\ stage[c] = "made" /\ stage' = [stage EXCEPT ![c] = "held"]
          /\ UNCHANGED <<connections, broken>>
       \/ /\ stage[c] = "held" /\ stage' = [stage EXCEPT ![c] = "listed"]
          /\ connections' = connections \cup {c}
          /\ MayClash
       \/ /\ stage[c] = "listed" /\ stage' = [stage EXCEPT ![c] = "hasUser"]
          /\ UNCHANGED <<connections, broken>>
       \/ /\ stage[c] = "hasUser" /\ stage' = [stage EXCEPT ![c] = "hasCloser"]
          /\ UNCHANGED <<connections, broken>>
       \/ /\ stage[c] = "hasCloser" /\ stage' = [stage EXCEPT ![c] = "queued"]
          /\ UNCHANGED <<connections, broken>>
    /\ UNCHANGED <<loopOf, watched, called, erasing, overtaken>>
    /\ UNCHANGED <<poolVars, descriptors, socketVars>>

----------------------------------------------------------------------------
(* The loop of a connection.                                               *)

HasUser(c) == stage[c] \in {"hasUser", "hasCloser", "queued", "told"}
HasCloser(c) == stage[c] \in {"hasCloser", "queued", "told"}

(* Messages in a row are told as one.                                      *)
Tell(c, callback) ==
    called' = [called EXCEPT ![c] =
                IF @ # <<>> /\ callback = "onMessage" /\ Last(@) = callback
                THEN @ ELSE Append(@, callback)]

(* The functor connectEstablished.                                         *)
ConnectEstablished(c) ==
    /\ Idle(loopOf[c]) /\ stage[c] = "queued"
    /\ stage' = [stage EXCEPT ![c] = "told"]
    /\ Tell(c, "onConnection")
    /\ UNCHANGED <<loopOf, connections, watched, erasing, overtaken, broken>>
    /\ UNCHANGED <<poolVars, descriptors, socketVars>>

(* handleRead with data: the user that is not set yet is called, and an    *)
(* object that nothing owns is asked for its owner.                        *)
HandleRead(c) ==
    /\ Idle(loopOf[c]) /\ c \in watched /\ c \in unread
    /\ unread' = unread \ {c}
    /\ IF HasUser(c)
       THEN Tell(c, "onMessage") /\ UNCHANGED broken
       ELSE broken' = broken \cup {"noUser"} /\ UNCHANGED called
    /\ UNCHANGED <<stage, loopOf, connections, watched, erasing, overtaken>>
    /\ UNCHANGED <<poolVars, descriptors, link, ended, serving>>

HandleClose_doesNotRemove(c) ==
    /\ Idle(loopOf[c]) /\ c \in watched /\ EndOfClient(c)
    /\ watched' = watched \ {c}
    /\ IF HasUser(c) THEN Tell(c, "onClose") ELSE UNCHANGED called
    /\ UNCHANGED <<erasing, overtaken, broken>>
    /\ UNCHANGED <<stage, loopOf, connections, poolVars, descriptors, socketVars>>

(* handleClose; removeConnection is its last call, if newConnection has    *)
(* come to set it.                                                         *)
HandleClose(c) ==
    /\ Idle(loopOf[c]) /\ c \in watched /\ EndOfClient(c)
    /\ watched' = watched \ {c}
    /\ IF HasUser(c) THEN Tell(c, "onClose") ELSE UNCHANGED called
    /\ IF HasCloser(c)
       THEN /\ erasing' = [erasing EXCEPT ![loopOf[c]] = c]
            /\ MayClash /\ UNCHANGED overtaken
       ELSE /\ overtaken' = overtaken \cup {c}
            /\ broken' = IF stage[c] = "made" THEN broken \cup {"noOwner"} ELSE broken
            /\ UNCHANGED erasing
    /\ UNCHANGED <<stage, loopOf, connections, poolVars, descriptors, socketVars>>

(* The end of removeConnection.                                            *)
RemoveConnection(l) ==
    /\ Runs /\ erasing[l] # NoOne
    /\ connections' = connections \ {erasing[l]}
    /\ erasing' = [erasing EXCEPT ![l] = NoOne]
    /\ UNCHANGED <<stage, loopOf, watched, called, overtaken, broken>>
    /\ UNCHANGED <<poolVars, descriptors, socketVars>>

----------------------------------------------------------------------------
(* The threads of the server.                                              *)
StartingStep == StartThread \/ StartLoop
BaseStep == \E c \in Clients : Accept(c) \/ GoOn(c)
ConnectionStep(c) == ConnectEstablished(c) \/ HandleRead(c) \/ HandleClose(c)

ServerNext ==
    \/ StartingStep \/ ThreadFunc \/ WakeUnasked \/ BaseStep \/ AcceptFails
    \/ \E c \in Clients : ConnectionStep(c)
    \/ \E l \in AllLoops : RemoveConnection(l) \/ TellOfGhost(l)
=============================================================================
