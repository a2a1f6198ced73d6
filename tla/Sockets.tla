------------------------------ MODULE Sockets -------------------------------
(***************************************************************************)
(* What the kernel does between the clients of a server and the server:    *)
(* one connection for every client.  Data carries no content here, only    *)
(* that there is some.                                                     *)
(***************************************************************************)
EXTENDS Naturals, Sequences, FiniteSets

CONSTANT Clients

VARIABLES
    link,       \* "none", "asked", "queued" for accept, "accepted" or "refused"
    unread,     \* clients with data that the server has not read
    ended,      \* clients whose process has ended
    serving     \* is the server's process alive?

socketVars == <<link, unread, ended, serving>>

SocketsInit ==
    /\ link = [c \in Clients |-> "none"]
    /\ unread = {} /\ ended = {}
    /\ serving = TRUE

(* A connection that was asked for is made or refused.  It is made in the  *)
(* queue of the listening socket, before the server accepts it.            *)
Answer(c) ==
    /\ link[c] = "asked"
    /\ \/ serving /\ link' = [link EXCEPT ![c] = "queued"]
       \/ link' = [link EXCEPT ![c] = "refused"]
    /\ UNCHANGED <<unread, ended, serving>>

ServerEnds == serving' = FALSE /\ UNCHANGED <<link, unread, ended>>

CanBeWritten(c) == link[c] \in {"queued", "accepted", "refused"}

(* The end of the peer, or a refusal, can be read as an end of file.       *)
EndOfServer(c) == link[c] = "refused" \/ (CanBeWritten(c) /\ ~serving)
EndOfClient(c) == c \in ended /\ c \notin unread
=============================================================================
