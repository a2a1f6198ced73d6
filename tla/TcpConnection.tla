---------------------------- MODULE TcpConnection ----------------------------
(***************************************************************************)
(* One connection a TcpServer has accepted: its TcpConnection and Channel, *)
(* the server program that handles its requests, on the looping thread or  *)
(* by handing them and the connection to a worker, and the peer at the     *)
(* other end of the socket.  The steps of the looping thread are the       *)
(* handlers of this connection's events and functors; what it does for     *)
(* other sockets leaves the connection alone.                              *)
(*                                                                         *)
(* A message is a head cell <<k, 0>> and body cells <<k, 1>>, <<k, 2>> ... *)
(* broken says that the process uses memory it has freed or that a call    *)
(* throws: the model stops.                                                *)
(***************************************************************************)
EXTENDS Buffer, FiniteSets

CONSTANTS
    InitialSize,    \* kInitialSize
    Lengths,        \* Lengths[k]: body length of the peer's k-th request
    MaxLength,      \* the longest valid body
    Replies,        \* Replies[k]: body length of the reply to request k
    ByWorker,       \* the requests a worker replies to
    Room            \* what the socket takes before the peer has read it

Requests == DOMAIN Lengths

ASSUME ConnectionAssumption ==
    /\ InitialSize \in Nat /\ MaxLength \in Nat /\ Room \in Nat \ {0}
    /\ Lengths \in Seq(Nat) /\ Replies \in [DOMAIN Lengths -> Nat]
    /\ ByWorker \subseteq DOMAIN Lengths

VARIABLES
    peer,       \* "open", "closed" (it has sent FIN) or "reset"
    next,       \* the cell the peer sends next
    arrived,    \* cells in the socket, not yet read
    wire,       \* all cells the socket has taken
    unread,     \* how many of those the peer has not read
    inBuf,      \* _inBuf
    outBuf,     \* _outBuf
    events,     \* _events of the channel
    registered, \* does epoll know the channel?
    at,         \* where the looping thread is
    todo,       \* the handlers handleEvent has yet to call
    handled,    \* the requests handled, whole
    accepted,   \* all cells sendInLoop was called with
    told,       \* has onWriteComplate been called since?
    pending,    \* functors for this connection
    running,    \* tempRuns, without the functors already called
    task,       \* task[k]: is a worker busy with request k?
    inMap,      \* is the connection in _connections?
    freed,      \* is the TcpConnection deleted?
    broken

socket == <<peer, next, arrived, wire, unread>>
output == <<wire, unread, outBuf, events, accepted, told, pending, broken>>
owners == <<task, inMap, freed>>
vars == <<peer, next, arrived, wire, unread, inBuf, outBuf, events, registered, at, todo,
          handled, accepted, told, pending, running, task, inMap, freed, broken>>

(* What newConnection leaves behind.                                       *)
Init ==
    /\ peer = "open" /\ next = <<1, 0>> /\ arrived = <<>> /\ wire = <<>> /\ unread = 0
    /\ inBuf = NewBuffer(InitialSize) /\ outBuf = NewBuffer(InitialSize)
    /\ events = {"in"} /\ registered = TRUE
    /\ at = "poll" /\ todo = <<>>
    /\ handled = <<>> /\ accepted = <<>> /\ told = FALSE
    /\ pending = <<>> /\ running = <<>>
    /\ task = [k \in Requests |-> "none"]
    /\ inMap = TRUE /\ freed = FALSE
    /\ broken = FALSE

Message(k, length) == [i \in 1 .. length + 1 |-> <<k, i - 1>>]

(* How the handlers pack a reply: the body, then the head before it.       *)
Pack(message) ==
    Readable(Prepend(AppendCells(NewBuffer(0), Tail(message)), <<Head(message)>>))

Reply == [k \in Requests |-> Pack(Message(k, Replies[k]))]

----------------------------------------------------------------------------
(* The peer.                                                               *)

PeerSends ==
    /\ ~broken /\ peer = "open" /\ next[1] \in Requests
    /\ arrived' = Append(arrived, next)
    /\ next' = IF next[2] = Lengths[next[1]] THEN <<next[1] + 1, 0>>
                                            ELSE <<next[1], next[2] + 1>>
    /\ UNCHANGED <<peer, wire, unread, inBuf, outBuf, events, registered, at, todo,
                   handled, accepted, told, pending, running, owners, broken>>

PeerReads ==
    /\ ~broken /\ peer = "open" /\ unread > 0
    /\ unread' = unread - 1
    /\ UNCHANGED <<peer, next, arrived, wire, inBuf, outBuf, events, registered, at,
                   todo, handled, accepted, told, pending, running, owners, broken>>

PeerEnds(how) ==
    /\ ~broken /\ peer # "reset" /\ peer # how
    /\ peer' = how
    /\ arrived' = IF how = "reset" THEN <<>> ELSE arrived
    /\ UNCHANGED <<next, wire, unread, inBuf, outBuf, events, registered, at, todo,
                   handled, accepted, told, pending, running, owners, broken>>

----------------------------------------------------------------------------
(* sendInLoop.  write takes what there is room for, and fails when there   *)
(* is none or the connection is reset: n = -1, and substr(-1) throws (or   *)
(* SIGPIPE ends the process, which does not ignore it).                    *)

CanWrite == peer # "reset" /\ unread < Room

WriteLength(cells) ==
    IF Len(cells) < Room - unread THEN Len(cells) ELSE Room - unread

Written(n, cells) == wire' = wire \o SubSeq(cells, 1, n) /\ unread' = unread + n

(* Mistakes the checked properties must notice: a variant X_mistake stands *)
(* in for X in a mutation run, and nothing else uses it.                   *)
AtOnce_overtakes(cells) == IF CanWrite THEN WriteLength(cells) ELSE 0

(* What sendInLoop writes itself: nothing while older cells wait.          *)
AtOnce(cells) == IF Readable(outBuf) = <<>> THEN WriteLength(cells) ELSE 0

EnableWriting_not(ev) == ev

EnableWriting(ev) == ev \cup {"out"}

Complete == <<"complete">>

SendInLoop(cells) ==
    \/ /\ Readable(outBuf) = <<>> /\ ~CanWrite
       /\ broken' = TRUE
       /\ UNCHANGED <<wire, unread, outBuf, events, accepted, told, pending>>
    \/ /\ Readable(outBuf) # <<>> \/ CanWrite
       /\ accepted' = accepted \o cells /\ told' = FALSE
       /\ Written(AtOnce(cells), cells)
       /\ IF AtOnce(cells) = Len(cells)
          THEN /\ outBuf' = RetrieveAll(outBuf)
               /\ pending' = Append(pending, Complete)
               /\ UNCHANGED events
          ELSE /\ outBuf' = AppendCells(outBuf,
                                SubSeq(cells, AtOnce(cells) + 1, Len(cells)))
               /\ events' = EnableWriting(events)
               /\ UNCHANGED pending
       /\ UNCHANGED broken

----------------------------------------------------------------------------
(* The looping thread.                                                     *)

At(place) == ~broken /\ at = place

Handling(handler) == At("event") /\ todo # <<>> /\ Head(todo) = handler

(* What epoll_wait reports, and the order in which handleEvent looks at    *)
(* it.  A channel that epoll does not know reports nothing.                *)
Handlers(in, out, hup) ==
      (IF hup /\ ~in THEN <<"close">> ELSE <<>>)
   \o (IF in THEN <<"read">> ELSE <<>>)
   \o (IF out THEN <<"write">> ELSE <<>>)

Poll ==
    LET in  == "in" \in events /\ (arrived # <<>> \/ peer # "open")
        out == "out" \in events /\ (unread < Room \/ peer = "reset")
        found == IF registered THEN Handlers(in, out, peer = "reset") ELSE <<>>
    IN  /\ At("poll") /\ (found # <<>> \/ pending # <<>>)
        /\ todo' = found
        /\ at' = "event"
        /\ UNCHANGED <<socket, inBuf, outBuf, events, registered, handled, accepted,
                       told, pending, running, owners, broken>>

(* handleRead: no cell means that the peer has closed; a reset fails.      *)
HandleRead ==
    LET n == ReadLength(inBuf, Len(arrived))
    IN  /\ Handling("read")
        /\ IF n > 0
           THEN /\ inBuf' = ReadFd(inBuf, SubSeq(arrived, 1, n))
                /\ arrived' = SubSeq(arrived, n + 1, Len(arrived))
                /\ at' = "message" /\ todo' = Tail(todo)
           ELSE /\ todo' = <<"close">> \o Tail(todo)
                /\ UNCHANGED <<inBuf, arrived, at>>
        /\ UNCHANGED <<peer, next, output, registered, handled, running, owners>>

(* onMessage of the server program: one request after the other, as long   *)
(* as the buffer holds a whole one.                                        *)
FrontLength == Lengths[Readable(inBuf)[1][1]]

FrontIsWhole_strictly ==
    /\ Readable(inBuf) # <<>>
    /\ FrontLength <= MaxLength
    /\ ReadableBytes(inBuf) > FrontLength + 1

FrontIsWhole ==
    /\ Readable(inBuf) # <<>>
    /\ FrontLength <= MaxLength
    /\ ReadableBytes(inBuf) >= FrontLength + 1

HandleRequest ==
    LET request == SubSeq(Readable(inBuf), 1, FrontLength + 1)
        k == request[1][1]
    IN  /\ At("message") /\ FrontIsWhole
        /\ inBuf' = Retrieve(Retrieve(inBuf, 1), FrontLength)
        /\ handled' = Append(handled, request)
        /\ IF k \in ByWorker
           THEN task' = [task EXCEPT ![k] = "given"] /\ UNCHANGED output
           ELSE SendInLoop(Reply[k]) /\ UNCHANGED task
        /\ UNCHANGED <<peer, next, arrived, registered, at, todo, running, inMap, freed>>

EndMessages ==
    /\ At("message") /\ ~FrontIsWhole
    /\ at' = "event"
    /\ UNCHANGED <<socket, inBuf, output, registered, todo, handled, running, owners>>

(* What handleWrite does once it has written what waited.                  *)
WriteCompleted_silently(functors) == functors

WriteCompleted(functors) == Append(functors, Complete)

DisableWriting_not(ev) == ev

DisableWriting(ev) == ev \ {"out"}

(* write fails when the peer has reset the connection since epoll_wait.    *)
HandleWrite ==
    LET n == WriteLength(Readable(outBuf))
    IN  /\ Handling("write")
        /\ todo' = Tail(todo)
        /\ \/ /\ "out" \notin events
              /\ UNCHANGED output
           \/ /\ "out" \in events /\ ~CanWrite
              /\ broken' \in BOOLEAN
              /\ UNCHANGED <<wire, unread, outBuf, events, accepted, told, pending>>
           \/ /\ "out" \in events /\ CanWrite
              /\ Written(n, Readable(outBuf))
              /\ outBuf' = Retrieve(outBuf, n)
              /\ IF n = ReadableBytes(outBuf)
                 THEN /\ events' = DisableWriting(events)
                      /\ pending' = WriteCompleted(pending)
                 ELSE UNCHANGED <<events, pending>>
              /\ UNCHANGED <<accepted, told, broken>>
        /\ UNCHANGED <<peer, next, arrived, inBuf, registered, at, handled, running, owners>>

(* The connection is deleted with its last owner, and its channel with it. *)
(* handleEvent goes on reading _revents of the deleted channel: it may     *)
(* find bits there that make it call another handler.                      *)
Unowned(tasks) == \A k \in Requests : tasks[k] \notin {"given", "sent"}

DeleteUnowned(rest) ==
    /\ freed' = (~inMap' /\ Unowned(task'))
    /\ todo' = IF freed' THEN <<>> ELSE rest
    /\ broken' \in IF freed' /\ at = "event" THEN BOOLEAN ELSE {FALSE}

(* handleClose and removeConnection.                                       *)
HandleClose ==
    /\ Handling("close")
    /\ events' = {} /\ registered' = FALSE
    /\ inMap' = FALSE
    /\ UNCHANGED <<socket, inBuf, outBuf, at, handled, accepted, told, pending, running,
                   task>>
    /\ DeleteUnowned(Tail(todo))

BeginFunctors ==
    /\ At("event") /\ todo = <<>>
    /\ running' = pending /\ pending' = <<>>
    /\ at' = "functors"
    /\ UNCHANGED <<socket, inBuf, outBuf, events, registered, todo, handled, accepted,
                   told, owners, broken>>

(* A functor holds a plain pointer to the connection.                      *)
RunFunctor ==
    /\ At("functors") /\ running # <<>>
    /\ running' = Tail(running)
    /\ \/ freed /\ broken' = TRUE
          /\ UNCHANGED <<wire, unread, outBuf, events, accepted, told, pending>>
       \/ /\ ~freed /\ Head(running) = Complete
          /\ told' = TRUE
          /\ UNCHANGED <<wire, unread, outBuf, events, accepted, pending, broken>>
       \/ /\ ~freed /\ Head(running) # Complete
          /\ SendInLoop(Reply[Head(running)[2]])
    /\ UNCHANGED <<peer, next, arrived, inBuf, registered, at, todo, handled, owners>>

EndFunctors ==
    /\ At("functors") /\ running = <<>>
    /\ at' = "poll"
    /\ UNCHANGED <<socket, inBuf, output, registered, todo, handled, running, owners>>

----------------------------------------------------------------------------
(* A worker: sends the reply from its own thread, which queues a functor,  *)
(* and then lets go of the connection.                                     *)

WorkerSends(k) ==
    /\ ~broken /\ task[k] = "given"
    /\ task' = [task EXCEPT ![k] = "sent"]
    /\ pending' = Append(pending, <<"send", k>>)
    /\ UNCHANGED <<socket, inBuf, outBuf, events, registered, at, todo, handled,
                   accepted, told, running, inMap, freed, broken>>

WorkerEnds(k) ==
    /\ ~broken /\ task[k] = "sent"
    /\ task' = [task EXCEPT ![k] = "done"]
    /\ UNCHANGED <<socket, inBuf, outBuf, events, registered, at, handled, accepted,
                   told, pending, running, inMap>>
    /\ DeleteUnowned(todo)

LoopStep ==
    \/ Poll \/ HandleRead \/ HandleRequest \/ EndMessages \/ HandleWrite \/ HandleClose
    \/ BeginFunctors \/ RunFunctor \/ EndFunctors

WorkerStep(k) == WorkerSends(k) \/ WorkerEnds(k)

Next ==
    \/ PeerSends \/ PeerReads \/ \E how \in {"closed", "reset"} : PeerEnds(how)
    \/ LoopStep
    \/ \E k \in Requests : WorkerStep(k)

Spec == Init /\ [][Next]_vars

(* The loop and the workers run; a peer that does not end the connection   *)
(* reads what it is sent.  Nothing makes it send or end.                   *)
FairSpec ==
    /\ Spec
    /\ WF_vars(LoopStep)
    /\ \A k \in Requests : WF_vars(WorkerStep(k))
    /\ WF_vars(PeerReads)

----------------------------------------------------------------------------
(* Each variable has its type.                                             *)
Cell == Requests \X Nat

Functors == {Complete} \cup {<<"send", k>> : k \in Requests}

TypeOK ==
    /\ peer \in {"open", "closed", "reset"} /\ next \in Nat \X Nat
    /\ arrived \in Seq(Cell) /\ wire \in Seq(Cell) /\ unread \in 0 .. Room
    /\ BufferOK(inBuf, Cell) /\ BufferOK(outBuf, Cell)
    /\ events \subseteq {"in", "out"} /\ registered \in BOOLEAN
    /\ at \in {"poll", "event", "message", "functors"}
    /\ todo \in Seq({"read", "write", "close"})
    /\ handled \in Seq(Seq(Cell)) /\ accepted \in Seq(Cell) /\ told \in BOOLEAN
    /\ pending \in Seq(Functors) /\ running \in Seq(Functors)
    /\ task \in [Requests -> {"none", "given", "sent", "done"}]
    /\ inMap \in BOOLEAN /\ freed \in BOOLEAN /\ broken \in BOOLEAN

(* However the peer's cells arrive and the buffer is refilled and moved,   *)
(* the server program gets the requests one by one, whole and in order.    *)
RequestsAreWhole ==
    \A j \in DOMAIN handled : handled[j] = Message(j, Lengths[j])

(* However writes are cut short and replies of handlers and workers come   *)
(* together, the socket gets what was sent, in order: a cell that is sent  *)
(* is on the wire or waits in the buffer, behind all cells sent before.    *)
RepliesAreInOrder == wire \o Readable(outBuf) = accepted

(* The channel asks for EPOLLOUT exactly while cells wait: otherwise they  *)
(* would wait forever, or the loop would spin.                             *)
WritingIsWatched == registered => ("out" \in events <=> Readable(outBuf) # <<>>)

(* When all is written, the program has been told or is about to be.       *)
CompletionIsTold ==
    accepted # <<>> /\ Readable(outBuf) = <<>> /\ ~broken =>
        told \/ \E i \in DOMAIN (running \o pending) : (running \o pending)[i] = Complete

(* What is sent over a connection that lasts is written to the end.        *)
Over == ~registered \/ broken \/ peer # "open"

RepliesAreWritten == Readable(outBuf) # <<>> ~> Readable(outBuf) = <<>> \/ Over

(* A request that has arrived whole, after valid ones only, is handled.    *)
RequestsAreHandled ==
    \A k \in Requests :
        next[1] > k /\ (\A j \in 1 .. k : Lengths[j] <= MaxLength)
            ~> Len(handled) >= k \/ Over
=============================================================================
