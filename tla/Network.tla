------------------------------- MODULE Network ------------------------------
(***************************************************************************)
(* A server and its clients, each in a process of its own.  Clients end or *)
(* are ended at any time, and so does the server; nothing connects again.  *)
(***************************************************************************)
EXTENDS Sockets

CONSTANTS IoLoops, Base, FileLimits

VARIABLES
    numThreads, loops, next, starting, born, files, ghosts, stage, loopOf,
    connections, watched, called, erasing, overtaken, broken,
    at, polled, connection, told

Server == INSTANCE TcpServer
Client == INSTANCE TcpClient

ASSUME NetworkAssumption ==
    IoLoops \in Seq(Server!AllLoops) /\ Server!NoOne \notin Clients

serverVars ==
    <<numThreads, loops, next, starting, born, files, ghosts, stage, loopOf,
      connections, watched, called, erasing, overtaken, broken>>
clientVars == <<at, polled, connection, told>>
vars == <<socketVars, serverVars, clientVars>>

Init == SocketsInit /\ Server!ServerInit /\ Client!ClientInit

ServerStep == serving /\ Server!ServerNext /\ UNCHANGED clientVars
ClientStep(c) == Client!ClientNext(c) /\ UNCHANGED serverVars
Kernel ==
    /\ ServerEnds \/ \E c \in Clients : Answer(c)
    /\ UNCHANGED <<serverVars, clientVars>>

Next == ServerStep \/ Kernel \/ \E c \in Clients : ClientStep(c)

Spec == Init /\ [][Next]_vars

OfServer(A) == A /\ UNCHANGED clientVars
OfClient(A) == A /\ UNCHANGED serverVars

(* Every thread runs.  epoll reports each descriptor that is ready, so no  *)
(* connection waits for another for ever, and the kernel answers a         *)
(* connect.  Nothing is assumed of wakeups without a signal, of what       *)
(* clients do, and of failing accepts.                                     *)
FairSpec ==
    /\ Spec
    /\ WF_vars(OfServer(Server!StartingStep)) /\ WF_vars(OfServer(Server!ThreadFunc))
    /\ WF_vars(OfServer(Server!BaseStep))
    /\ \A l \in Server!AllLoops : WF_vars(OfServer(Server!RemoveConnection(l)))
    /\ \A c \in Clients :
        /\ WF_vars(OfServer(Server!ConnectionStep(c)))
        /\ WF_vars(OfClient(Client!LoopOfClient(c)))
        /\ WF_vars(Answer(c) /\ UNCHANGED <<serverVars, clientVars>>)

----------------------------------------------------------------------------
(* onConnection, any onMessage, onClose, in this order and once each.      *)
InOrder(calls) ==
    \A i \in DOMAIN calls :
        /\ calls[i] = "onConnection" <=> i = 1
        /\ calls[i] = "onClose" => i = Len(calls)

OnceEach(calls) ==
    \A i, j \in DOMAIN calls : i < j =>
        /\ calls[i] = "onConnection" => calls[j] # "onConnection"
        /\ calls[i] = "onClose" => calls[j] = "onConnection"

(* Without IO threads the user is told of a connection, its messages and   *)
(* its end in this order, and nothing breaks; with them no message comes   *)
(* after the end, and neither end nor beginning is told twice.  Listed are *)
(* the connections that have not ended, and those that ended too early     *)
(* (TcpServer.cc:19-35, EventLoopThreadPool.cc:32-50).                     *)
ServerKeepsOrder ==
    /\ numThreads = 0 =>
        /\ broken = {} /\ overtaken = {}
        /\ \A c \in Clients : InOrder(called[c])
    /\ \A c \in Clients : OnceEach(called[c])
    /\ \A c \in connections :
        c \in watched \cup overtaken \/ \E l \in Server!AllLoops : erasing[l] = c

(* A connection() is there from the end of onConnection to onClose, and at *)
(* no other time (TcpClient.cc:23-46: it is set after onConnection has     *)
(* returned, and reset after onClose).                                     *)
ConnectionIsCurrent ==
    \A c \in Clients : c \in connection <=> told[c] = <<"onConnection">> /\ at[c] # "setting"

(* The user is told of a connection when it is "established" (TcpServer.cc *)
(* line 26), not of one that accept failed to make.                        *)
ToldIsEstablished == \A l \in Server!AllLoops : ghosts[l] # "told"

Over(c) == ~serving \/ broken # {} \/ c \in overtaken

(* A client that reaches the server's queue is told to the user, unless    *)
(* the descriptors are used up (EventLoopThreadPool.cc:22-30,              *)
(* EventLoopThread.cc:17-42, Acceptor.cc:41-61).                           *)
ClientsAreServed ==
    \A c \in Clients :
        link[c] = "queued" ~> \/ called[c] # <<>> \/ Over(c)
                              \/ Cardinality(Server!Accepted) = files

(* The end of either side is noticed by the other: the server forgets a    *)
(* client that has ended, and a client's user is told of the end of the    *)
(* server or of a refusal (TcpConnection.cc:16-45 and 68-79,               *)
(* Connector.cc:80-99).                                                    *)
EndsAreNoticed ==
    /\ \A c \in Clients :
        c \in ended /\ c \in connections ~> c \notin connections \/ Over(c)
    /\ \A c \in Clients :
        at[c] = "connecting" /\ Client!EndOfServer(c) ~> at[c] = "closed" \/ c \in ended
=============================================================================
