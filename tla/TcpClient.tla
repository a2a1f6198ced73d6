------------------------------ MODULE TcpClient -----------------------------
(***************************************************************************)
(* TcpClient with its Connector, one for every client, and the loop they   *)
(* run on.  connect() is called once: nothing in the library or in the     *)
(* services calls it again.                                                *)
(***************************************************************************)
EXTENDS Sockets

VARIABLES
    at,         \* at[c]: how far the connector and the connection are
    polled,     \* what epoll watches of the client's descriptor
    connection, \* clients whose _connection is not NULL
    told        \* the callbacks of the user that were called

clientVars == <<at, polled, connection, told>>

Stages == {"new", "started", "connecting", "givenUp", "setting", "open", "closed"}

ClientInit ==
    /\ at = [c \in Clients |-> "new"]
    /\ polled = [c \in Clients |-> "nothing"]
    /\ connection = {}
    /\ told = [c \in Clients |-> <<>>]

(* EPOLL_CTL_ADD of a descriptor that is watched already changes nothing.  *)
Watched(old, events) == IF old = "nothing" THEN events ELSE old

Runs(c, from, to) ==
    /\ c \notin ended
    /\ at[c] = from /\ at' = [at EXCEPT ![c] = to]

(* TcpClient::connect queues Connector::connect, or runs it.               *)
Start(c) ==
    /\ Runs(c, "new", "started")
    /\ UNCHANGED <<polled, connection, told, socketVars>>

(* connect() of the socket goes on in the background, or fails at once:    *)
(* then the descriptor is closed or not, and nothing more is done.         *)
Connect(c) ==
    /\ \/ /\ Runs(c, "started", "connecting")
          /\ polled' = [polled EXCEPT ![c] = Watched(@, "writing")]
          /\ link' = [link EXCEPT ![c] = "asked"]
       \/ Runs(c, "started", "givenUp") /\ UNCHANGED <<polled, link>>
    /\ UNCHANGED <<connection, told, unread, ended, serving>>

(* Mistakes the checked properties must notice: a variant X_mistake stands *)
(* in for X in a mutation run, and nothing else uses it.                   *)
HandleWrite_keepsChannel(c) ==
    /\ polled[c] = "writing" /\ CanBeWritten(c)
    /\ Runs(c, "connecting", "setting")
    /\ polled' = [polled EXCEPT ![c] = Watched(@, "reading")]
    /\ told' = [told EXCEPT ![c] = Append(@, "onConnection")]
    /\ UNCHANGED <<connection, socketVars>>

(* Connector::handleWrite, whether the socket is connected or not, up to   *)
(* TcpClient::newConnection and the user's onConnection in it.  The old    *)
(* channel has left epoll; it is destroyed by a functor that nothing else  *)
(* of the loop can come before.                                            *)
HandleWrite(c) ==
    /\ polled[c] = "writing" /\ CanBeWritten(c)
    /\ Runs(c, "connecting", "setting")
    /\ polled' = [polled EXCEPT ![c] = Watched("nothing", "reading")]
    /\ told' = [told EXCEPT ![c] = Append(@, "onConnection")]
    /\ UNCHANGED <<connection, socketVars>>

(* The rest of newConnection.                                              *)
SetConnection(c) ==
    /\ Runs(c, "setting", "open")
    /\ connection' = connection \cup {c}
    /\ UNCHANGED <<polled, told, socketVars>>

HandleClose_keepsConnection(c) ==
    /\ polled[c] = "reading" /\ EndOfServer(c)
    /\ Runs(c, "open", "closed")
    /\ polled' = [polled EXCEPT ![c] = "nothing"]
    /\ told' = [told EXCEPT ![c] = Append(@, "onClose")]
    /\ UNCHANGED <<connection, socketVars>>

(* The connection's handleClose, with TcpClient::removeConnection.         *)
HandleClose(c) ==
    /\ polled[c] = "reading" /\ EndOfServer(c)
    /\ Runs(c, "open", "closed")
    /\ polled' = [polled EXCEPT ![c] = "nothing"]
    /\ told' = [told EXCEPT ![c] = Append(@, "onClose")]
    /\ connection' = connection \ {c}
    /\ UNCHANGED socketVars

(* A thread of the client sends on connection().  Without one it ends the  *)
(* process; what it writes to a dead socket does so too (SIGPIPE), or is   *)
(* lost.                                                                   *)
Send(c) ==
    /\ c \notin ended /\ at[c] # "new"
    /\ \/ /\ c \in connection /\ ~EndOfServer(c)
          /\ unread' = unread \cup {c} /\ UNCHANGED ended
       \/ /\ c \notin connection \/ EndOfServer(c)
          /\ ended' = ended \cup {c} /\ UNCHANGED unread
    /\ UNCHANGED <<clientVars, link, serving>>

End(c) ==
    /\ at[c] # "new"
    /\ ended' = ended \cup {c}
    /\ UNCHANGED <<clientVars, link, unread, serving>>

(* What the looping thread of a client does.                               *)
LoopOfClient(c) == Connect(c) \/ HandleWrite(c) \/ SetConnection(c) \/ HandleClose(c)

ClientNext(c) == Start(c) \/ LoopOfClient(c) \/ Send(c) \/ End(c)
=============================================================================
