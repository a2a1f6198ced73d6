---------------------------- MODULE NetworkProofs ----------------------------
(***************************************************************************)
(* Proofs about module Network, for any clients and any number of IO       *)
(* threads and descriptors.                                                *)
(***************************************************************************)
EXTENDS Network, SequenceTheorems, TLAPS

Loops == Server!AllLoops
NoOne == Server!NoOne

Callbacks == {"onConnection", "onMessage", "onClose"}

ServerTypes ==
    /\ link \in [Clients -> {"none", "asked", "queued", "accepted", "refused"}]
    /\ stage \in [Clients -> {"none", "queued", "told"} \cup Server!Making]
    /\ loopOf \in [Clients -> Loops]
    /\ called \in [Clients -> Seq(Callbacks)]
    /\ erasing \in [Loops -> Clients \cup {NoOne}]
    /\ connections \subseteq Clients /\ watched \subseteq Clients

(* The pool never has more loops than threads, and _next is one of them.   *)
PoolInv ==
    /\ numThreads \in 0 .. Len(IoLoops) /\ loops \in Seq(Loops)
    /\ Len(loops) <= numThreads
    /\ starting \in {"test", "sleep"} => Len(loops) < numThreads
    /\ next \in Nat \ {0} /\ (next <= Len(loops) \/ next = 1)

(* A client connects once, and all about its connection begins with accept.*)
AcceptInv ==
    \A c \in Clients :
        /\ at[c] \in {"new", "started"} => link[c] = "none"
        /\ link[c] = "accepted" <=> stage[c] # "none"
        /\ stage[c] = "none" => called[c] = <<>> /\ c \notin watched \cup connections

(* What was told, and what may still be.                                   *)
Holds(calls, callback) == \E i \in 1 .. Len(calls) : calls[i] = callback

ToldInv ==
    \A c \in Clients :
        /\ OnceEach(called[c])
        /\ c \in watched => ~Holds(called[c], "onClose")
        /\ stage[c] # "told" => ~Holds(called[c], "onConnection")
        /\ stage[c] = "told" => called[c] # <<>>

(* A listed connection is in epoll, is being taken out, or ended too early.*)
ListInv ==
    /\ \A c \in Clients :
          stage[c] \in {"made", "held", "listed", "hasUser"} => c \in watched \cup overtaken
    /\ \A c \in connections :
          c \in watched \cup overtaken \/ \E l \in Loops : erasing[l] = c

(* Without IO threads newConnection and the handlers take turns.           *)
AloneInv ==
    numThreads = 0 =>
        /\ broken = {} /\ overtaken = {}
        /\ \A c \in Clients :
              stage[c] \in {"none", "told"} /\ loopOf[c] = Base /\ InOrder(called[c])
        /\ \A l \in Loops : erasing[l] # NoOne => l = Base

ServerInv ==
    /\ ServerTypes /\ PoolInv /\ AcceptInv /\ ToldInv /\ ListInv /\ AloneInv

(* How far a client is says what its user was told, and of what it has.    *)
ToldAt(stage_) ==
    IF stage_ \in {"setting", "open"} THEN <<"onConnection">>
    ELSE IF stage_ = "closed" THEN Append(<<"onConnection">>, "onClose") ELSE <<>>

ClientInv ==
    /\ at \in [Clients -> Client!Stages] /\ told \in [Clients -> Seq(Callbacks)]
    /\ connection \subseteq Clients
    /\ \A c \in Clients :
          /\ told[c] = ToldAt(at[c])
          /\ c \in connection <=> at[c] = "open"

----------------------------------------------------------------------------
(* Sequences of callbacks.                                                 *)

LEMMA CallFacts ==
    ASSUME NEW s \in Seq(Callbacks), NEW x \in Callbacks
    PROVE  /\ Append(s, x) \in Seq(Callbacks) /\ Append(s, x) # <<>>
           /\ Len(s) \in Nat /\ DOMAIN s = 1 .. Len(s)
           /\ Len(Append(s, x)) = Len(s) + 1 /\ DOMAIN Append(s, x) = 1 .. Len(s) + 1
           /\ \A i \in 1 .. Len(s) : Append(s, x)[i] = s[i]
           /\ Append(s, x)[Len(s) + 1] = x
<1> DEFINE a == Append(s, x)
<1>1. /\ a \in Seq(Callbacks) /\ Len(a) = Len(s) + 1 /\ Len(s) \in Nat
      /\ \A i \in 1 .. Len(s) : a[i] = s[i]
      /\ a[Len(s) + 1] = x
  BY AppendProperties, LenProperties
<1>2. DOMAIN s = 1 .. Len(s) /\ DOMAIN a = 1 .. Len(s) + 1
  BY <1>1, LenProperties
<1> HIDE DEF a
<1>3. a # <<>>
  BY <1>1, EmptySeq
<1>. QED BY <1>1, <1>2, <1>3 DEF a

LEMMA AppendHolds ==
    ASSUME NEW s \in Seq(Callbacks), NEW x \in Callbacks, NEW y
    PROVE  Holds(Append(s, x), y) => Holds(s, y) \/ x = y
<1>1. SUFFICES ASSUME NEW i \in 1 .. Len(Append(s, x)), Append(s, x)[i] = y, x # y
               PROVE  Holds(s, y)
  BY DEF Holds
<1>2. i \in 1 .. Len(s)
  BY <1>1, CallFacts
<1>. QED BY <1>1, <1>2, CallFacts DEF Holds

LEMMA AppendOnce ==
    ASSUME NEW s \in Seq(Callbacks), NEW x \in Callbacks, OnceEach(s),
           x = "onConnection" => ~Holds(s, "onConnection"),
           x # "onConnection" => ~Holds(s, "onClose")
    PROVE  OnceEach(Append(s, x))
<1> DEFINE a == Append(s, x)
<1>1. SUFFICES ASSUME NEW i \in 1 .. Len(s) + 1, NEW j \in 1 .. Len(s) + 1, i < j
               PROVE  /\ a[i] = "onConnection" => a[j] # "onConnection"
                      /\ a[i] = "onClose" => a[j] = "onConnection"
  BY CallFacts DEF OnceEach
<1>2. i \in 1 .. Len(s) /\ a[i] = s[i]
  BY <1>1, CallFacts
<1>3. CASE j \in 1 .. Len(s)
  BY <1>1, <1>2, <1>3, CallFacts DEF OnceEach
<1>4. CASE j \notin 1 .. Len(s)
  <2>1. a[j] = x
    BY <1>1, <1>4, CallFacts
  <2>. QED BY <1>2, <2>1 DEF Holds
<1>. QED BY <1>3, <1>4

LEMMA AppendInOrder ==
    ASSUME NEW s \in Seq(Callbacks), NEW x \in Callbacks, InOrder(s),
           x = "onConnection" <=> s = <<>>, ~Holds(s, "onClose")
    PROVE  InOrder(Append(s, x))
<1> DEFINE a == Append(s, x)
<1>1. SUFFICES ASSUME NEW i \in 1 .. Len(s) + 1
               PROVE  /\ a[i] = "onConnection" <=> i = 1
                      /\ a[i] = "onClose" => i = Len(s) + 1
  BY CallFacts DEF InOrder
<1>2. CASE i \in 1 .. Len(s)
  <2>1. a[i] = s[i]
    BY <1>2, CallFacts
  <2>. QED BY <1>2, <2>1, CallFacts DEF InOrder, Holds
<1>3. CASE i \notin 1 .. Len(s)
  <2>1. i = Len(s) + 1 /\ a[i] = x /\ Len(s) \in Nat
    BY <1>1, <1>3, CallFacts
  <2>2. s = <<>> <=> Len(s) = 0
    BY EmptySeq
  <2>. QED BY <2>1, <2>2
<1>. QED BY <1>2, <1>3

LEMMA NoCalls ==
    /\ <<>> \in Seq(Callbacks) /\ OnceEach(<<>>) /\ InOrder(<<>>)
    /\ \A y : ~Holds(<<>>, y)
BY EmptySeq DEF OnceEach, InOrder, Holds

----------------------------------------------------------------------------
LEMMA InitServer == Init => ServerInv
<1> SUFFICES ASSUME Init PROVE ServerInv
  OBVIOUS
<1> USE DEF Init, SocketsInit, Server!ServerInit, Client!ClientInit
<1>1. ServerTypes
  BY NoCalls DEF ServerTypes, Loops, NoOne, Server!AllLoops, Server!NoOne, Server!Making
<1>2. PoolInv
  <2>1. Len(IoLoops) \in Nat
    BY NetworkAssumption, LenProperties
  <2>2. loops \in Seq(Loops) /\ Len(loops) = 0
    BY EmptySeq
  <2>. QED BY <2>1, <2>2 DEF PoolInv
<1>3. AcceptInv
  BY DEF AcceptInv
<1>4. ToldInv
  BY NoCalls DEF ToldInv
<1>5. ListInv
  BY DEF ListInv
<1>6. AloneInv
  BY NoCalls DEF AloneInv, Loops, NoOne
<1>. QED BY <1>1, <1>2, <1>3, <1>4, <1>5, <1>6 DEF ServerInv

(* A step of EventLoopThreadPool::start or of a new thread.                *)
LEMMA PoolSteps ==
    ASSUME ServerInv,
           \/ Server!StartingStep \/ Server!ThreadFunc \/ Server!WakeUnasked,
           UNCHANGED clientVars
    PROVE  ServerInv'
<1>1. /\ UNCHANGED <<numThreads, next, stage, loopOf, connections, watched, called, erasing>>
      /\ UNCHANGED <<overtaken, broken, link, at>>
  BY DEF Server!StartingStep, Server!StartThread, Server!StartLoop, Server!ThreadFunc,
         Server!WakeUnasked, Server!connVars, Server!socketVars, clientVars
<1>2. PoolInv'
  <2>1. /\ Len(IoLoops) \in Nat /\ Len(loops) \in Nat /\ numThreads \in Nat
        /\ loops \in Seq(Loops) /\ next \in Nat
    BY NetworkAssumption, LenProperties DEF ServerInv, PoolInv
  <2>2. CASE Server!StartThread
    BY <1>1, <2>1, <2>2 DEF Server!StartThread, ServerInv, PoolInv
  <2>3. CASE Server!ThreadFunc \/ Server!WakeUnasked
    BY <1>1, <2>1, <2>3 DEF Server!ThreadFunc, Server!WakeUnasked, ServerInv, PoolInv
  <2>4. CASE Server!StartLoop
    <3>1. CASE born = "published"
      <4> DEFINE l == IoLoops[Len(loops) + 1]
      <4>1. Len(loops) < numThreads /\ numThreads <= Len(IoLoops)
        BY <2>1, <2>4 DEF Server!StartLoop, ServerInv, PoolInv
      <4>2. Len(loops) + 1 \in 1 .. Len(IoLoops)
        BY <2>1, <4>1
      <4>3. l \in Loops
        BY <4>2, NetworkAssumption, ElementOfSeq DEF Loops
      <4> HIDE DEF l
      <4>4. loops' = Append(loops, l) /\ starting' = "next"
        BY <2>4, <3>1 DEF Server!StartLoop, l
      <4>5. loops' \in Seq(Loops) /\ Len(loops') = Len(loops) + 1
        BY <2>1, <4>3, <4>4, AppendProperties
      <4>. QED BY <1>1, <2>1, <4>1, <4>4, <4>5 DEF ServerInv, PoolInv
    <3>2. CASE born # "published"
      BY <1>1, <2>1, <2>4, <3>2 DEF Server!StartLoop, ServerInv, PoolInv
    <3>. QED BY <3>1, <3>2
  <2>. QED BY <2>2, <2>3, <2>4 DEF Server!StartingStep
<1>. QED BY <1>1, <1>2
     DEF ServerInv, ServerTypes, AcceptInv, ToldInv, ListInv, AloneInv

LEMMA TurnFacts ==
    ASSUME PoolInv
    PROVE  /\ Server!NextLoop \in Loops
           /\ Server!Turn \in Nat \ {0} /\ (Server!Turn <= Len(loops) \/ Server!Turn = 1)
           /\ numThreads = 0 => Server!NextLoop = Base
<1>1. /\ Len(loops) \in Nat /\ loops \in Seq(Loops) /\ next \in Nat \ {0}
      /\ next <= Len(loops) \/ next = 1
  BY LenProperties DEF PoolInv
<1>2. CASE loops = <<>>
  BY <1>1, <1>2 DEF Server!NextLoop, Server!Turn, Loops, Server!AllLoops
<1>3. CASE loops # <<>>
  <2>1. Len(loops) # 0 /\ next \in 1 .. Len(loops)
    BY <1>1, <1>3, EmptySeq
  <2>2. loops[next] \in Loops
    BY <1>1, <2>1, ElementOfSeq
  <2>3. next % Len(loops) \in 0 .. Len(loops) - 1
    BY <1>1, <2>1
  <2>4. numThreads # 0
    BY <1>1, <2>1 DEF PoolInv
  <2>. QED BY <1>1, <1>3, <2>2, <2>3, <2>4 DEF Server!NextLoop, Server!Turn
<1>. QED BY <1>2, <1>3

(* newConnection, on the base loop alone or begun for an IO thread.        *)
LEMMA AcceptStep ==
    ASSUME ServerInv, NEW c \in Clients, Server!Accept(c), UNCHANGED clientVars
    PROVE  ServerInv'
<1> USE DEF ServerInv
<1>1. /\ link[c] = "queued" /\ link' = [link EXCEPT ![c] = "accepted"]
      /\ loopOf' = [loopOf EXCEPT ![c] = Server!NextLoop]
      /\ next' = Server!Turn /\ watched' = watched \cup {c}
      /\ UNCHANGED <<numThreads, loops, starting, born, erasing, broken, at>>
  BY DEF Server!Accept, clientVars
<1>2. stage[c] = "none" /\ called[c] = <<>> /\ c \notin watched \cup connections
  BY <1>1 DEF AcceptInv
<1>3. Server!NextLoop \in Loops /\ (numThreads = 0 => Server!NextLoop = Base)
  BY TurnFacts
<1>4. PoolInv'
  BY <1>1, TurnFacts DEF PoolInv
<1>5. CASE Server!NextLoop = Base
  <2>1. /\ stage' = [stage EXCEPT ![c] = "told"] /\ connections' = connections \cup {c}
        /\ called' = [called EXCEPT ![c] = Append(@, "onConnection")]
        /\ overtaken' = overtaken
    BY <1>5 DEF Server!Accept, Server!AcceptAlone
  <2>2. /\ Append(<<>>, "onConnection") \in Seq(Callbacks)
        /\ OnceEach(Append(<<>>, "onConnection")) /\ InOrder(Append(<<>>, "onConnection"))
        /\ ~Holds(Append(<<>>, "onConnection"), "onClose")
        /\ Append(<<>>, "onConnection") # <<>>
    <3>1. "onConnection" \in Callbacks /\ "onConnection" # "onClose"
      BY DEF Callbacks
    <3>. QED BY <3>1, NoCalls, CallFacts, AppendOnce, AppendInOrder, AppendHolds
  <2>3. called'[c] = Append(<<>>, "onConnection")
    BY <1>2, <2>1 DEF ServerTypes
  <2>4. ServerTypes'
    BY <1>1, <1>2, <1>3, <2>1, <2>2 DEF ServerTypes
  <2>5. AcceptInv'
    BY <1>1, <1>2, <2>1 DEF ServerTypes, AcceptInv
  <2>6. ToldInv'
    BY <1>1, <1>2, <2>1, <2>2, <2>3 DEF ServerTypes, ToldInv
  <2>7. ListInv'
    BY <1>1, <2>1 DEF ServerTypes, ListInv
  <2>8. AloneInv'
    BY <1>1, <1>3, <2>1, <2>2, <2>3 DEF ServerTypes, AloneInv
  <2>. QED BY <1>4, <2>4, <2>5, <2>6, <2>7, <2>8
<1>6. CASE Server!NextLoop # Base
  <2>1. stage' = [stage EXCEPT ![c] = "made"] /\ UNCHANGED <<connections, called, overtaken>>
    BY <1>6 DEF Server!Accept
  <2>2. numThreads # 0
    BY <1>3, <1>6
  <2>3. ServerTypes'
    BY <1>1, <1>3, <2>1 DEF ServerTypes, Server!Making
  <2>4. AcceptInv'
    BY <1>1, <2>1 DEF ServerTypes, AcceptInv
  <2>5. ToldInv'
    BY <1>1, <1>2, <2>1, NoCalls DEF ServerTypes, ToldInv
  <2>6. ListInv'
    BY <1>1, <2>1 DEF ServerTypes, ListInv
  <2>7. AloneInv'
    BY <1>1, <2>2 DEF AloneInv
  <2>. QED BY <1>4, <2>3, <2>4, <2>5, <2>6, <2>7
<1>. QED BY <1>5, <1>6

(* What may clash.  Alone, the base loop never does.                       *)
LEMMA ClashFacts ==
    ASSUME ServerInv, Server!MayClash, Server!Idle(Base)
    PROVE  numThreads = 0 => broken' = broken
BY DEF ServerInv, AloneInv, Server!MayClash, Server!Erasing, Server!Idle, Loops, NoOne

LEMMA AcceptFailsStep ==
    ASSUME ServerInv, Server!AcceptFails, UNCHANGED clientVars
    PROVE  ServerInv'
<1>1. /\ Server!Idle(Base) /\ next' = Server!Turn /\ Server!MayClash
      /\ UNCHANGED <<numThreads, loops, starting, link, stage, loopOf, connections, watched>>
      /\ UNCHANGED <<called, erasing, overtaken, at>>
  BY DEF Server!AcceptFails, Server!socketVars, clientVars
<1>2. PoolInv'
  BY <1>1, TurnFacts DEF ServerInv, PoolInv
<1>3. AloneInv'
  BY <1>1, ClashFacts DEF ServerInv, AloneInv
<1>. QED BY <1>1, <1>2, <1>3
     DEF ServerInv, ServerTypes, AcceptInv, ToldInv, ListInv

LEMMA GhostStep ==
    ASSUME ServerInv, NEW l \in Loops, Server!TellOfGhost(l), UNCHANGED clientVars
    PROVE  ServerInv'
BY DEF Server!TellOfGhost, Server!poolVars, Server!connVars, Server!socketVars, clientVars,
       ServerInv, ServerTypes, PoolInv, AcceptInv, ToldInv, ListInv, AloneInv

(* newConnection for a connection of an IO thread, one assignment.         *)
LEMMA GoOnStep ==
    ASSUME ServerInv, NEW c \in Clients, Server!GoOn(c), UNCHANGED clientVars
    PROVE  ServerInv'
<1> USE DEF ServerInv
<1>1. /\ UNCHANGED <<loopOf, watched, called, erasing, overtaken, link, at>>
      /\ UNCHANGED <<numThreads, loops, next, starting>>
  BY DEF Server!GoOn, Server!poolVars, Server!socketVars, clientVars
<1>2. PICK t \in Server!Making \cup {"queued"} : stage' = [stage EXCEPT ![c] = t]
  BY DEF Server!GoOn, Server!Making
<1>3. stage[c] \in Server!Making
  BY DEF Server!GoOn, Server!Making
<1>4. /\ connections' \in {connections, connections \cup {c}}
      /\ connections' # connections => stage[c] = "held"
  BY DEF Server!GoOn
<1>5. t \in {"made", "held", "listed", "hasUser"}
         => stage[c] \in {"made", "held", "listed", "hasUser"}
  BY <1>2 DEF Server!GoOn, Server!Making, ServerTypes
<1>6. numThreads # 0
  BY <1>3 DEF AloneInv, Server!Making
<1>7. ServerTypes'
  BY <1>1, <1>2, <1>4 DEF ServerTypes, Server!Making
<1>8. AcceptInv'
  BY <1>1, <1>2, <1>3, <1>4 DEF ServerTypes, AcceptInv, Server!Making
<1>9. ToldInv'
  BY <1>1, <1>2, <1>3 DEF ServerTypes, ToldInv, Server!Making
<1>10. ListInv'
  BY <1>1, <1>2, <1>3, <1>4, <1>5 DEF ServerTypes, ListInv
<1>11. PoolInv' /\ AloneInv'
  BY <1>1, <1>6 DEF PoolInv, AloneInv
<1>. QED BY <1>7, <1>8, <1>9, <1>10, <1>11

----------------------------------------------------------------------------
LEMMA TellFacts ==
    ASSUME ServerTypes, NEW c \in Clients, NEW callback \in Callbacks,
           Server!Tell(c, callback)
    PROVE  /\ called' \in [Clients -> Seq(Callbacks)]
           /\ \A d \in Clients : d # c => called'[d] = called[d]
           /\ \/ /\ called'[c] = called[c]
                 /\ called[c] # <<>> /\ callback = "onMessage"
              \/ called'[c] = Append(called[c], callback)
<1>1. called[c] \in Seq(Callbacks) /\ Append(called[c], callback) \in Seq(Callbacks)
  BY CallFacts DEF ServerTypes
<1>. QED BY <1>1 DEF ServerTypes, Server!Tell

LEMMA AloneStages ==
    ASSUME ServerInv, NEW c \in Clients, c \in watched, numThreads = 0
    PROVE  stage[c] = "told" /\ loopOf[c] = Base /\ broken = {} /\ overtaken = {}
BY DEF ServerInv, AcceptInv, AloneInv

LEMMA EstablishedStep ==
    ASSUME ServerInv, NEW c \in Clients, Server!ConnectEstablished(c), UNCHANGED clientVars
    PROVE  ServerInv'
<1> USE DEF ServerInv
<1>1. /\ stage[c] = "queued" /\ stage' = [stage EXCEPT ![c] = "told"]
      /\ Server!Tell(c, "onConnection")
      /\ UNCHANGED <<loopOf, connections, watched, erasing, overtaken, broken, link, at>>
      /\ UNCHANGED <<numThreads, loops, next, starting>>
  BY DEF Server!ConnectEstablished, Server!poolVars, Server!socketVars, clientVars
<1>2. "onConnection" \in Callbacks /\ called[c] \in Seq(Callbacks)
  BY DEF Callbacks, ServerTypes
<1>3. /\ called' \in [Clients -> Seq(Callbacks)]
      /\ \A d \in Clients : d # c => called'[d] = called[d]
      /\ called'[c] = Append(called[c], "onConnection")
  BY <1>1, <1>2, TellFacts
<1>4. /\ OnceEach(called'[c]) /\ called'[c] # <<>>
      /\ Holds(called'[c], "onClose") => Holds(called[c], "onClose")
  BY <1>1, <1>2, <1>3, AppendOnce, AppendHolds, CallFacts DEF ToldInv
<1>5. numThreads # 0
  BY <1>1 DEF AloneInv
<1>6. ServerTypes'
  BY <1>1, <1>3 DEF ServerTypes
<1>7. AcceptInv'
  BY <1>1, <1>3 DEF ServerTypes, AcceptInv
<1>8. ToldInv'
  BY <1>1, <1>3, <1>4 DEF ServerTypes, ToldInv
<1>9. ListInv'
  BY <1>1 DEF ServerTypes, ListInv
<1>10. PoolInv' /\ AloneInv'
  BY <1>1, <1>5 DEF PoolInv, AloneInv
<1>. QED BY <1>6, <1>7, <1>8, <1>9, <1>10

LEMMA ReadStep ==
    ASSUME ServerInv, NEW c \in Clients, Server!HandleRead(c), UNCHANGED clientVars
    PROVE  ServerInv'
<1> USE DEF ServerInv
<1>1. /\ c \in watched
      /\ UNCHANGED <<stage, loopOf, connections, watched, erasing, overtaken, link, at>>
      /\ UNCHANGED <<numThreads, loops, next, starting>>
  BY DEF Server!HandleRead, Server!poolVars, clientVars
<1>2. CASE ~Server!HasUser(c)
  <2>1. called' = called
    BY <1>2 DEF Server!HandleRead
  <2>2. numThreads # 0
    BY <1>1, <1>2, AloneStages DEF Server!HasUser
  <2>. QED BY <1>1, <2>1, <2>2
       DEF ServerTypes, PoolInv, AcceptInv, ToldInv, ListInv, AloneInv
<1>3. CASE Server!HasUser(c)
  <2>1. Server!Tell(c, "onMessage") /\ broken' = broken
    BY <1>3 DEF Server!HandleRead
  <2>2. "onMessage" \in Callbacks /\ called[c] \in Seq(Callbacks)
    BY DEF Callbacks, ServerTypes
  <2>3. /\ called' \in [Clients -> Seq(Callbacks)]
        /\ \A d \in Clients : d # c => called'[d] = called[d]
        /\ \/ called'[c] = called[c]
           \/ called'[c] = Append(called[c], "onMessage")
    BY <2>1, <2>2, TellFacts
  <2>4. ~Holds(called[c], "onClose")
    BY <1>1 DEF ToldInv
  <2>5. /\ OnceEach(called'[c])
        /\ called[c] # <<>> => called'[c] # <<>>
        /\ \A y \in {"onConnection", "onClose"} :
              Holds(called'[c], y) => Holds(called[c], y)
    <3>1. CASE called'[c] = called[c]
      BY <3>1 DEF ToldInv
    <3>2. CASE called'[c] = Append(called[c], "onMessage")
      BY <2>2, <2>4, <3>2, AppendOnce, AppendHolds, CallFacts DEF ToldInv
    <3>. QED BY <2>3, <3>1, <3>2
  <2>6. ServerTypes'
    BY <1>1, <2>3 DEF ServerTypes
  <2>7. AcceptInv'
    BY <1>1, <1>3, <2>3 DEF AcceptInv, Server!HasUser
  <2>8. ToldInv'
    BY <1>1, <2>3, <2>5 DEF ToldInv
  <2>9. ListInv'
    BY <1>1 DEF ListInv
  <2>10. ASSUME numThreads = 0 PROVE InOrder(called'[c])
    <3>1. stage[c] = "told" /\ called[c] # <<>> /\ InOrder(called[c])
      BY <1>1, <2>10, AloneStages DEF ToldInv, AloneInv
    <3>. QED BY <2>2, <2>3, <2>4, <3>1, AppendInOrder
  <2>11. PoolInv' /\ AloneInv'
    BY <1>1, <2>1, <2>3, <2>10 DEF PoolInv, AloneInv
  <2>. QED BY <2>6, <2>7, <2>8, <2>9, <2>11
<1>. QED BY <1>2, <1>3

LEMMA CloseStep ==
    ASSUME ServerInv, NEW c \in Clients, Server!HandleClose(c), UNCHANGED clientVars
    PROVE  ServerInv'
<1> USE DEF ServerInv
<1>1. /\ c \in watched /\ Server!Idle(loopOf[c]) /\ watched' = watched \ {c}
      /\ UNCHANGED <<stage, loopOf, connections, link, at, numThreads, loops, next, starting>>
  BY DEF Server!HandleClose, Server!poolVars, Server!socketVars, clientVars
<1>2. /\ "onClose" \in Callbacks /\ called[c] \in Seq(Callbacks)
      /\ ~Holds(called[c], "onClose") /\ loopOf[c] \in Loops
      /\ erasing[loopOf[c]] = NoOne
  BY <1>1 DEF Callbacks, ServerTypes, ToldInv, Server!Idle, NoOne
<1>3. /\ called' \in [Clients -> Seq(Callbacks)]
      /\ \A d \in Clients : d # c => called'[d] = called[d]
      /\ \/ called'[c] = called[c] /\ ~Server!HasUser(c)
         \/ called'[c] = Append(called[c], "onClose") /\ Server!HasUser(c)
  <2>1. CASE Server!HasUser(c)
    <3>1. Server!Tell(c, "onClose")
      BY <2>1 DEF Server!HandleClose
    <3>. QED BY <1>2, <2>1, <3>1, TellFacts
  <2>2. CASE ~Server!HasUser(c)
    <3>1. called' = called
      BY <2>2 DEF Server!HandleClose
    <3>. QED BY <2>2, <3>1 DEF ServerTypes
  <2>. QED BY <2>1, <2>2
<1>4. /\ OnceEach(called'[c])
      /\ called[c] # <<>> => called'[c] # <<>>
      /\ Holds(called'[c], "onConnection") => Holds(called[c], "onConnection")
  <2>1. CASE called'[c] = called[c]
    BY <2>1 DEF ToldInv
  <2>2. CASE called'[c] = Append(called[c], "onClose")
    BY <1>2, <2>2, AppendOnce, AppendHolds, CallFacts DEF ToldInv
  <2>. QED BY <1>3, <2>1, <2>2
<1>5. \/ /\ Server!HasCloser(c) /\ erasing' = [erasing EXCEPT ![loopOf[c]] = c]
         /\ Server!MayClash /\ overtaken' = overtaken
      \/ /\ ~Server!HasCloser(c) /\ erasing' = erasing
         /\ overtaken' = overtaken \cup {c}
  BY DEF Server!HandleClose
<1>6. ServerTypes'
  BY <1>1, <1>2, <1>3, <1>5 DEF ServerTypes
<1>7. AcceptInv'
  BY <1>1, <1>3 DEF AcceptInv, Server!HasUser
<1>8. ToldInv'
  BY <1>1, <1>3, <1>4 DEF ToldInv
<1>9. ListInv'
  <2>1. ASSUME NEW d \in Clients, stage[d] \in {"made", "held", "listed", "hasUser"}
        PROVE  d \in watched' \cup overtaken'
    BY <1>1, <1>5, <2>1 DEF ListInv, Server!HasCloser
  <2>2. ASSUME NEW d \in connections
        PROVE  d \in watched' \cup overtaken' \/ \E l \in Loops : erasing'[l] = d
    <3>1. CASE d = c
      BY <1>2, <1>5, <3>1 DEF ServerTypes
    <3>2. CASE d # c /\ d \in watched \cup overtaken
      BY <1>1, <1>5, <3>2
    <3>3. CASE d # c /\ d \notin watched \cup overtaken
      <4>1. PICK l \in Loops : erasing[l] = d
        BY <3>3 DEF ListInv
      <4>2. l # loopOf[c]
        BY <1>2, <2>2, <4>1, NetworkAssumption DEF ServerTypes, NoOne
      <4>. QED BY <1>5, <4>1, <4>2 DEF ServerTypes
    <3>. QED BY <3>1, <3>2, <3>3
  <2>. QED BY <1>1, <2>1, <2>2 DEF ListInv
<1>10. AloneInv'
  <2> SUFFICES ASSUME numThreads = 0
               PROVE  /\ broken' = {} /\ overtaken' = {}
                      /\ \A d \in Clients :
                            /\ stage[d] \in {"none", "told"} /\ loopOf[d] = Base
                            /\ InOrder(called'[d])
                      /\ \A l \in Loops : erasing'[l] # NoOne => l = Base
    BY <1>1 DEF AloneInv
  <2>1. stage[c] = "told" /\ loopOf[c] = Base /\ broken = {} /\ overtaken = {}
    BY <1>1, AloneStages
  <2>2. Server!HasCloser(c) /\ Server!HasUser(c)
    BY <2>1 DEF Server!HasCloser, Server!HasUser
  <2>3. /\ erasing' = [erasing EXCEPT ![Base] = c]
        /\ Server!MayClash /\ overtaken' = {}
    BY <1>5, <2>1, <2>2
  <2>4. broken' = {}
    BY <1>1, <2>1, <2>3, ClashFacts
  <2>5. InOrder(called'[c])
    <3>1. called[c] # <<>> /\ InOrder(called[c])
      BY <2>1 DEF ToldInv, AloneInv
    <3>2. called'[c] = Append(called[c], "onClose")
      BY <1>3, <2>2
    <3>. QED BY <1>2, <3>1, <3>2, AppendInOrder
  <2>. QED BY <1>3, <2>3, <2>4, <2>5 DEF AloneInv, ServerTypes
<1>. QED BY <1>1, <1>6, <1>7, <1>8, <1>9, <1>10 DEF PoolInv

(* The end of removeConnection.                                            *)
LEMMA RemoveStep ==
    ASSUME ServerInv, NEW l \in Loops, Server!RemoveConnection(l), UNCHANGED clientVars
    PROVE  ServerInv'
<1> USE DEF ServerInv
<1>1. /\ connections' = connections \ {erasing[l]}
      /\ erasing' = [erasing EXCEPT ![l] = NoOne]
      /\ UNCHANGED <<stage, loopOf, watched, called, overtaken, broken, link, at>>
      /\ UNCHANGED <<numThreads, loops, next, starting>>
  BY DEF Server!RemoveConnection, Server!poolVars, Server!socketVars, clientVars, NoOne
<1>2. ServerTypes'
  BY <1>1 DEF ServerTypes
<1>3. AcceptInv' /\ ToldInv' /\ PoolInv'
  BY <1>1 DEF AcceptInv, ToldInv, PoolInv
<1>4. ListInv'
  <2>1. ASSUME NEW d \in connections'
        PROVE  d \in watched \cup overtaken \/ \E k \in Loops : erasing'[k] = d
    <3>1. CASE d \notin watched \cup overtaken
      <4>1. PICK k \in Loops : erasing[k] = d
        BY <1>1, <2>1, <3>1 DEF ListInv
      <4>2. k # l
        BY <1>1, <2>1, <4>1
      <4>. QED BY <1>1, <4>1, <4>2 DEF ServerTypes
    <3>. QED BY <3>1
  <2>. QED BY <1>1, <2>1 DEF ListInv
<1>5. AloneInv'
  BY <1>1 DEF AloneInv, ServerTypes
<1>. QED BY <1>2, <1>3, <1>4, <1>5

----------------------------------------------------------------------------
(* What the kernel and the clients do to the server.                       *)
LEMMA LinkStep ==
    ASSUME ServerInv, UNCHANGED serverVars,
           link' \in [Clients -> {"none", "asked", "queued", "accepted", "refused"}],
           \A c \in Clients :
              /\ link'[c] = "accepted" <=> link[c] = "accepted"
              /\ at'[c] \in {"new", "started"} => link'[c] = "none"
    PROVE  ServerInv'
BY DEF serverVars, ServerInv, ServerTypes, PoolInv, AcceptInv, ToldInv, ListInv, AloneInv

LEMMA KernelStep == ASSUME ServerInv, Kernel PROVE ServerInv'
<1>1. UNCHANGED serverVars /\ at' = at
  BY DEF Kernel, clientVars
<1>2. CASE link' = link
  BY <1>1, <1>2, LinkStep DEF ServerInv, ServerTypes, AcceptInv
<1>3. ASSUME NEW c \in Clients, Answer(c) PROVE ServerInv'
  <2>1. link[c] = "asked"
    BY <1>3 DEF Answer
  <2>2. PICK s \in {"queued", "refused"} : link' = [link EXCEPT ![c] = s]
    BY <1>3 DEF Answer
  <2>. QED BY <1>1, <2>1, <2>2, LinkStep DEF ServerInv, ServerTypes, AcceptInv
<1>. QED BY <1>2, <1>3 DEF Kernel, ServerEnds

LEMMA ClientServerStep ==
    ASSUME ServerInv, ClientInv, NEW c \in Clients, ClientStep(c)
    PROVE  ServerInv'
<1>1. UNCHANGED serverVars
  BY DEF ClientStep
<1>2. CASE link' = link /\ \A d \in Clients :
             at'[d] \in {"new", "started"} => at[d] \in {"new", "started"}
  BY <1>1, <1>2, LinkStep DEF ServerInv, ServerTypes, AcceptInv
<1>3. CASE Client!Connect(c)
  <2>1. CASE link' = [link EXCEPT ![c] = "asked"] /\ at[c] = "started"
                /\ at' = [at EXCEPT ![c] = "connecting"]
    <3>1. link[c] = "none"
      BY <2>1 DEF ServerInv, AcceptInv
    <3>. QED BY <1>1, <2>1, <3>1, LinkStep
         DEF ServerInv, ServerTypes, AcceptInv, ClientInv
  <2>2. CASE link' = link /\ at' = [at EXCEPT ![c] = "givenUp"]
    BY <1>2, <2>2 DEF ClientInv
  <2>. QED BY <1>3, <2>1, <2>2 DEF Client!Connect, Client!Runs
<1>4. CASE Client!Start(c) \/ Client!HandleWrite(c) \/ Client!SetConnection(c)
             \/ Client!HandleClose(c)
  BY <1>2, <1>4 DEF Client!Start, Client!HandleWrite, Client!SetConnection,
                    Client!HandleClose, Client!Runs, Client!socketVars, ClientInv
<1>5. CASE Client!Send(c) \/ Client!End(c)
  BY <1>2, <1>5 DEF Client!Send, Client!End, Client!clientVars
<1>. QED BY <1>3, <1>4, <1>5 DEF ClientStep, Client!ClientNext, Client!LoopOfClient

LEMMA NextServer == ServerInv /\ ClientInv /\ [Next]_vars => ServerInv'
<1> SUFFICES ASSUME ServerInv, ClientInv, [Next]_vars PROVE ServerInv'
  OBVIOUS
<1>1. CASE ServerStep
  <2>1. Server!ServerNext /\ UNCHANGED clientVars
    BY <1>1 DEF ServerStep
  <2>2. CASE Server!StartingStep \/ Server!ThreadFunc \/ Server!WakeUnasked
    BY <2>1, <2>2, PoolSteps
  <2>3. CASE Server!BaseStep
    BY <2>1, <2>3, AcceptStep, GoOnStep DEF Server!BaseStep
  <2>4. CASE Server!AcceptFails
    BY <2>1, <2>4, AcceptFailsStep
  <2>5. CASE \E c \in Clients : Server!ConnectionStep(c)
    BY <2>1, <2>5, EstablishedStep, ReadStep, CloseStep DEF Server!ConnectionStep
  <2>6. CASE \E l \in Loops : Server!RemoveConnection(l) \/ Server!TellOfGhost(l)
    BY <2>1, <2>6, RemoveStep, GhostStep
  <2>. QED BY <2>1, <2>2, <2>3, <2>4, <2>5, <2>6 DEF Server!ServerNext, Loops
<1>2. CASE Kernel
  BY <1>2, KernelStep
<1>3. CASE \E c \in Clients : ClientStep(c)
  BY <1>3, ClientServerStep
<1>4. CASE UNCHANGED vars
  BY <1>4, LinkStep
  DEF vars, socketVars, clientVars, serverVars, ServerInv, ServerTypes, AcceptInv
<1>. QED BY <1>1, <1>2, <1>3, <1>4 DEF Next

----------------------------------------------------------------------------
LEMMA InitClient == Init => ClientInv
BY NoCalls DEF Init, Client!ClientInit, ClientInv, ToldAt, Client!Stages

LEMMA NextClient == ClientInv /\ [Next]_vars => ClientInv'
<1> SUFFICES ASSUME ClientInv, [Next]_vars PROVE ClientInv'
  OBVIOUS
<1>1. CASE UNCHANGED clientVars
  BY <1>1 DEF clientVars, ClientInv
<1>2. ASSUME NEW c \in Clients, ClientStep(c) PROVE ClientInv'
  <2>1. CASE Client!Send(c) \/ Client!End(c)
    BY <1>1, <2>1 DEF Client!Send, Client!End, Client!clientVars, clientVars
  <2>2. CASE Client!Start(c) \/ Client!Connect(c)
    <3>1. PICK t \in {"started", "connecting", "givenUp"} : at' = [at EXCEPT ![c] = t]
      BY <2>2 DEF Client!Start, Client!Connect, Client!Runs
    <3>2. at[c] \in {"new", "started"} /\ UNCHANGED <<connection, told>>
      BY <2>2 DEF Client!Start, Client!Connect, Client!Runs
    <3>. QED BY <3>1, <3>2 DEF ClientInv, ToldAt, Client!Stages
  <2>3. CASE Client!HandleWrite(c)
    <3>1. /\ at[c] = "connecting" /\ at' = [at EXCEPT ![c] = "setting"]
          /\ told' = [told EXCEPT ![c] = Append(@, "onConnection")]
          /\ connection' = connection
      BY <2>3 DEF Client!HandleWrite, Client!Runs
    <3>2. told[c] = <<>> /\ Append(<<>>, "onConnection") = <<"onConnection">>
      BY <3>1 DEF ClientInv, ToldAt
    <3>3. <<"onConnection">> \in Seq(Callbacks)
      BY DEF Callbacks
    <3>. QED BY <3>1, <3>2, <3>3 DEF ClientInv, ToldAt, Client!Stages
  <2>4. CASE Client!SetConnection(c)
    <3>1. /\ at[c] = "setting" /\ at' = [at EXCEPT ![c] = "open"]
          /\ connection' = connection \cup {c} /\ told' = told
      BY <2>4 DEF Client!SetConnection, Client!Runs
    <3>. QED BY <3>1 DEF ClientInv, ToldAt, Client!Stages
  <2>5. CASE Client!HandleClose(c)
    <3>1. /\ at[c] = "open" /\ at' = [at EXCEPT ![c] = "closed"]
          /\ told' = [told EXCEPT ![c] = Append(@, "onClose")]
          /\ connection' = connection \ {c}
      BY <2>5 DEF Client!HandleClose, Client!Runs
    <3>2. told[c] = <<"onConnection">>
      BY <3>1 DEF ClientInv, ToldAt
    <3>3. Append(<<"onConnection">>, "onClose") \in Seq(Callbacks)
      BY CallFacts DEF Callbacks
    <3>. QED BY <3>1, <3>2, <3>3 DEF ClientInv, ToldAt, Client!Stages
  <2>. QED BY <1>2, <2>1, <2>2, <2>3, <2>4, <2>5
       DEF ClientStep, Client!ClientNext, Client!LoopOfClient
<1>. QED BY <1>1, <1>2 DEF Next, ServerStep, Kernel, vars

LEMMA InvHolds == Spec => [](ServerInv /\ ClientInv)
BY InitServer, NextServer, InitClient, NextClient, PTL DEF Spec

(* The user of a server without IO threads hears of a connection, of its   *)
(* messages and of its end in this order, and nothing breaks; with any     *)
(* number of IO threads nobody hears of a beginning or an end twice, or of *)
(* a message after the end, and a listed connection is never forgotten     *)
(* unless it ended before it was listed (TcpServer.cc:19-45).              *)
THEOREM OrderCorrect == Spec => []ServerKeepsOrder
<1>1. ServerInv => ServerKeepsOrder
  BY DEF ServerInv, ToldInv, ListInv, AloneInv, ServerKeepsOrder, Loops
<1>. QED BY <1>1, InvHolds, PTL

(* connection() of a client is there exactly from the end of onConnection  *)
(* to onClose (TcpClient.cc:23-46).                                        *)
THEOREM ConnectionCorrect == Spec => []ConnectionIsCurrent
<1>1. ASSUME ClientInv PROVE ConnectionIsCurrent
  <2>1. ASSUME NEW c \in Clients
        PROVE  c \in connection <=> told[c] = <<"onConnection">> /\ at[c] # "setting"
    <3>1. Len(Append(<<"onConnection">>, "onClose")) = Len(<<"onConnection">>) + 1
      BY CallFacts DEF Callbacks
    <3>2. /\ <<"onConnection">> # <<>>
          /\ <<"onConnection">> # Append(<<"onConnection">>, "onClose")
      BY <3>1
    <3>. QED BY <1>1, <2>1, <3>2 DEF ClientInv, ToldAt
  <2>. QED BY <2>1 DEF ConnectionIsCurrent
<1>. QED BY <1>1, InvHolds, PTL
=============================================================================
