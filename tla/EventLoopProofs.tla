--------------------------- MODULE EventLoopProofs ---------------------------
(***************************************************************************)
(* What holds of an event loop for any number of threads, timers and       *)
(* calls, at any time.                                                     *)
(***************************************************************************)
EXTENDS EventLoop, SequenceTheorems, WellFoundedInduction, TLAPS

----------------------------------------------------------------------------
(* Facts about the operators of TimerQueue.                                *)

LEMMA EarliestExists ==
    ASSUME NEW q \in QueueType, q.due # {}
    PROVE  /\ Earliest(q) \in q.due
           /\ \A u \in q.due : q.stamp[Earliest(q)] <= q.stamp[u]
<1> DEFINE Stamps == {q.stamp[t] : t \in q.due}
<1>1. Stamps \subseteq Nat /\ Stamps # {}
  BY DEF QueueType
<1>2. PICK m \in Stamps : \A y \in Stamps : ~ (<<y, m>> \in OpToRel(<, Nat))
  BY <1>1, WFMin, NatLessThanWellFounded
<1>3. \A y \in Stamps : m <= y
  <2> TAKE y \in Stamps
  <2>1. m \in Nat /\ y \in Nat
    BY <1>1
  <2>2. y < m => <<y, m>> \in OpToRel(<, Nat)
    BY <2>1, SMT DEF OpToRel
  <2>3. ~(y < m)
    BY <1>2, <2>2
  <2> QED  BY <2>1, <2>3
<1>4. \E t \in q.due : \A u \in q.due : q.stamp[t] <= q.stamp[u]
  BY <1>3
<1> QED  BY <1>4 DEF Earliest

LEMMA AlarmAtType ==
    ASSUME NEW when \in Nat, NEW now \in Nat
    PROVE  AlarmAt(when, now) \in Nat /\ AlarmAt(when, now) >= now
BY DEF AlarmAt

(* A queue whose alarm goes off in time for every timer that waits.        *)
InTime(q, now) ==
    \A t \in q.due : q.alarm # Never /\ q.alarm <= AlarmAt(q.stamp[t], now)

LEMMA AddType ==
    ASSUME NEW q \in QueueType, NEW t \in Timers, NEW now \in Nat
    PROVE  /\ AddTimerInLoop(q, t, now) \in QueueType
           /\ AddTimerInLoop(q, t, now).due = q.due \cup {t}
           /\ AddTimerInLoop(q, t, now).stamp = q.stamp
<1>1. q.stamp[t] \in Nat
  BY DEF QueueType
<1> QED  BY <1>1, AlarmAtType DEF AddTimerInLoop, QueueType

LEMMA AddInTime ==
    ASSUME NEW q \in QueueType, NEW t \in Timers \ q.due, NEW now \in Nat \ {0},
           InTime(q, now)
    PROVE  InTime(AddTimerInLoop(q, t, now), now)
<1> DEFINE new == AddTimerInLoop(q, t, now)
<1>1. new.due = q.due \cup {t} /\ new.stamp = q.stamp
  BY AddType
<1>2. \A u \in Timers : q.stamp[u] \in Nat
  BY DEF QueueType
<1>3. CASE EarliestChanged(q, t)
  <2>1. new.alarm = AlarmAt(q.stamp[t], now)
    BY <1>3 DEF AddTimerInLoop, QueueType
  <2>2. \A u \in q.due : q.stamp[t] < q.stamp[u]
    BY <1>3 DEF EarliestChanged
  <2>3. q.due \subseteq Timers
    BY DEF QueueType
  <2> QED  BY <1>1, <1>2, <2>1, <2>2, <2>3 DEF InTime, AlarmAt, Never
<1>4. CASE ~EarliestChanged(q, t)
  <2>1. new.alarm = q.alarm
    BY <1>4 DEF AddTimerInLoop, QueueType
  <2>2. PICK u \in q.due : ~(q.stamp[t] < q.stamp[u])
    BY <1>4 DEF EarliestChanged
  <2>3. u \in Timers /\ q.alarm \in Nat
    BY DEF QueueType
  <2>4. q.alarm # Never /\ q.alarm <= AlarmAt(q.stamp[u], now)
    BY <2>2 DEF InTime
  <2>5. q.alarm <= AlarmAt(q.stamp[t], now)
    BY <1>2, <2>2, <2>3, <2>4 DEF AlarmAt
  <2> QED  BY <1>1, <2>1, <2>4, <2>5 DEF InTime
<1> QED  BY <1>3, <1>4

LEMMA ResetInTime ==
    ASSUME NEW q \in QueueType, NEW expired_ \in SUBSET Timers, NEW now \in Nat \ {0}
    PROVE  /\ Reset(q, expired_, now) \in QueueType
           /\ Reset(q, expired_, now).due = q.due \cup {t \in expired_ : Repeats(t)}
           /\ InTime(Reset(q, expired_, now), now)
<1> DEFINE mid == Restarted(q, expired_, now)
           new == Reset(q, expired_, now)
<1>1. /\ mid \in QueueType
      /\ mid.due = q.due \cup {t \in expired_ : Repeats(t)}
  <2>1. \A t \in Timers : now + Interval[t] \in Nat /\ q.stamp[t] \in Nat
    BY TimerAssumption DEF QueueType
  <2> QED  BY <2>1 DEF Restarted, QueueType
<1>2. CASE mid.due = {}
  BY <1>1, <1>2 DEF Reset, SetAlarm, InTime
<1>3. CASE mid.due # {}
  <2>1. /\ Earliest(mid) \in mid.due
        /\ \A u \in mid.due : mid.stamp[Earliest(mid)] <= mid.stamp[u]
    BY <1>1, <1>3, EarliestExists
  <2>2. \A u \in mid.due : mid.stamp[u] \in Nat
    BY <1>1 DEF QueueType
  <2> DEFINE first == mid.stamp[Earliest(mid)]
  <2>3. new = [mid EXCEPT !.alarm = AlarmAt(first, now)]
    BY <1>3 DEF Reset, SetAlarm
  <2>4. AlarmAt(first, now) \in Nat
    BY <2>1, <2>2, AlarmAtType
  <2>5. /\ new \in QueueType /\ new.due = mid.due /\ new.stamp = mid.stamp
        /\ new.alarm = AlarmAt(first, now)
    BY <1>1, <2>3, <2>4 DEF QueueType
  <2>6. \A u \in mid.due :
            AlarmAt(first, now) # Never /\ AlarmAt(first, now) <= AlarmAt(mid.stamp[u], now)
    BY <2>1, <2>2 DEF AlarmAt, Never
  <2> HIDE DEF first, new, mid
  <2>7. InTime(new, now)
    BY <2>5, <2>6 DEF InTime
  <2> QED  BY <1>1, <2>5, <2>7 DEF new, mid
<1> QED  BY <1>2, <1>3

LEMMA ExpiredType ==
    ASSUME NEW q \in QueueType, NEW now \in Nat
    PROVE  /\ GetExpired(q, now) \in QueueType
           /\ GetExpired(q, now).due = q.due \ Expired(q, now)
           /\ Expired(q, now) \subseteq q.due
BY DEF GetExpired, Expired, QueueType, Never
----------------------------------------------------------------------------
(* Types.                                                                  *)

LEMMA FunctorCases ==
    ASSUME NEW f \in Functors
    PROVE  /\ f[1] = "work" => f[2] \in Work
           /\ f[1] # "work" => f[2] \in Timers
           /\ f[1] \in {"add", "cancel"} => f = <<f[1], f[2]>>
BY DEF Functors

LEMMA RunCancelType ==
    ASSUME TypeOK, NEW t \in Timers, RunCancel(t)
    PROVE  /\ queue' \in QueueType /\ timer' \in [Timers -> {"new", "alive", "deleted"}]
           /\ cancelled' \subseteq Timers /\ broken' \in BOOLEAN /\ work' = work
BY DEF TypeOK, RunCancel, QueueType

LEMMA PushType ==
    ASSUME TypeOK, NEW p \in Threads, NEW f \in Functors, Push(p, f)
    PROVE  /\ pending' \in Seq(Functors)
           /\ caller' \in [Threads -> Functors \cup {Nothing, ToQuit}]
BY AppendProperties DEF TypeOK, Push

LEMMA CallType ==
    ASSUME TypeOK, NEW p \in Threads, Call(p)
    PROVE  TypeOK'
<1>1. ASSUME NEW w \in Work, QueueInLoop(p, w) PROVE TypeOK'
  <2>1. <<"work", w>> \in Functors
    BY DEF Functors
  <2> QED  BY <1>1, <2>1, PushType DEF QueueInLoop, TypeOK, timerVars
<1>2. ASSUME NEW w \in Work, RunInLoop(p, w) PROVE TypeOK'
  BY <1>2 DEF RunInLoop, RunWork, TypeOK, loopVars
<1>3. ASSUME NEW t \in Timers, AddTimer(p, t) PROVE TypeOK'
  <2>1. PICK delay \in IF Repeats(t) THEN {Interval[t]} ELSE 0 .. 1 :
            LET new == [queue EXCEPT !.stamp[t] = clock + delay]
            IN  IF IsInLoopThread(p)
                THEN /\ queue' = AddTimerInLoop(new, t, clock)
                     /\ UNCHANGED <<pending, caller>>
                ELSE queue' = new /\ Push(p, <<"add", t>>)
    BY <1>3 DEF AddTimer
  <2> DEFINE new == [queue EXCEPT !.stamp[t] = clock + delay]
  <2>2. new \in QueueType
    <3>1. clock + delay \in Nat
      BY TimerAssumption DEF TypeOK
    <3> QED  BY <3>1 DEF TypeOK, QueueType
  <2>3. <<"add", t>> \in Functors
    BY DEF Functors
  <2>4. /\ queue' \in QueueType /\ pending' \in Seq(Functors)
        /\ caller' \in [Threads -> Functors \cup {Nothing, ToQuit}]
    <3>1. CASE IsInLoopThread(p)
      BY <2>1, <2>2, <3>1, AddType DEF TypeOK
    <3>2. CASE ~IsInLoopThread(p)
      BY <2>1, <2>2, <2>3, <3>2, PushType
    <3> QED  BY <3>1, <3>2
  <2> QED  BY <1>3, <2>4 DEF AddTimer, TypeOK
<1>4. ASSUME NEW t \in Timers, CancelTimer(p, t) PROVE TypeOK'
  <2>1. <<"cancel", t>> \in Functors
    BY DEF Functors
  <2>2. CASE IsInLoopThread(p)
    BY <1>4, <2>2, RunCancelType DEF CancelTimer, TypeOK
  <2>3. CASE ~IsInLoopThread(p)
    BY <1>4, <2>1, <2>3, PushType DEF CancelTimer, TypeOK
  <2> QED  BY <2>2, <2>3
<1>5. ASSUME Quit(p) PROVE TypeOK'
  BY <1>5 DEF Quit, TypeOK, timerVars
<1> QED  BY <1>1, <1>2, <1>3, <1>4, <1>5 DEF Call

LEMMA HeadOfRunning ==
    ASSUME TypeOK, running # <<>>
    PROVE  /\ Head(running) \in Functors /\ Tail(running) \in Seq(Functors)
           /\ Len(running) \in Nat \ {0} /\ Head(running) = running[1]
           /\ Len(Tail(running)) = Len(running) - 1
           /\ \A i \in 1 .. Len(Tail(running)) : Tail(running)[i] = running[i + 1]
BY EmptySeq, HeadTailProperties DEF TypeOK

LEMMA RunFunctorType ==
    ASSUME TypeOK, RunFunctor
    PROVE  TypeOK'
<1> DEFINE f == Head(running)
<1>1. f \in Functors /\ Tail(running) \in Seq(Functors)
  BY HeadOfRunning DEF RunFunctor
<1>2. at' \in Places
  BY DEF RunFunctor, TypeOK, Places
<1>3. CASE f[1] = "work" /\ RunWork(Looper, f[2])
  <2>1. f[2] \in Work
    BY <1>1, <1>3, FunctorCases
  <2> QED  BY <1>1, <1>2, <1>3, <2>1, LoopAssumption DEF RunFunctor, RunWork, TypeOK
<1>4. CASE f[1] = "add" /\ RunAdd(f[2])
  <2>1. f[2] \in Timers
    BY <1>1, <1>4, FunctorCases
  <2>2. queue' \in QueueType
    BY <1>4, <2>1, AddType DEF RunAdd, TypeOK
  <2> QED  BY <1>1, <1>2, <1>4, <2>2 DEF RunFunctor, RunAdd, TypeOK
<1>5. CASE f[1] = "cancel" /\ RunCancel(f[2])
  <2>1. f[2] \in Timers
    BY <1>1, <1>5, FunctorCases
  <2> QED  BY <1>1, <1>2, <1>5, <2>1, RunCancelType DEF RunFunctor, TypeOK
<1> QED  BY <1>3, <1>4, <1>5 DEF RunFunctor, Execute

LEMMA ResetTimersType ==
    ASSUME TypeOK, ResetTimers
    PROVE  TypeOK'
<1>1. queue' \in QueueType
  <2>2. Restarted(queue, expired, clock) \in QueueType
    <3>1. \A t \in Timers : clock + Interval[t] \in Nat /\ queue.stamp[t] \in Nat
      BY TimerAssumption DEF QueueType, TypeOK
    <3> QED  BY <3>1 DEF Restarted, QueueType, TypeOK
  <2>3. \A q \in QueueType : SetAlarm(q, clock) \in QueueType
    <3> SUFFICES ASSUME NEW q \in QueueType, q.due # {}
                 PROVE  SetAlarm(q, clock) \in QueueType
      BY DEF SetAlarm
    <3>1. q.stamp[Earliest(q)] \in Nat
      BY EarliestExists DEF QueueType
    <3>2. AlarmAt(q.stamp[Earliest(q)], clock) \in Nat
      BY <3>1, AlarmAtType DEF TypeOK
    <3> QED  BY <3>2 DEF SetAlarm, QueueType
  <2> QED  BY <2>2, <2>3 DEF ResetTimers, Reset
<1> QED  BY <1>1 DEF ResetTimers, TypeOK, Places

LEMMA LoopType ==
    ASSUME TypeOK, LoopStep
    PROVE  TypeOK'
<1>1. CASE BeginLoop \/ TestQuit \/ HandleWakeup \/ HandleSocket \/ Return
  BY <1>1 DEF BeginLoop, TestQuit, HandleWakeup, HandleSocket, Return, TypeOK,
              Places, timerVars
<1>2. CASE PollReady
  BY <1>2 DEF PollReady, Poll, Ready, TypeOK, Places, timerVars
<1>3. CASE HandleTimers
  BY <1>3, ExpiredType DEF HandleTimers, TypeOK, Places, QueueType
<1>4. CASE ResetTimers
  BY <1>4, ResetTimersType
<1>5. ASSUME NEW t \in Timers, TimeOut(t) PROVE TypeOK'
  BY <1>5 DEF TimeOut, TypeOK, Places
<1>6. CASE BeginFunctors \/ EndFunctors
  BY <1>6 DEF BeginFunctors, EndFunctors, TypeOK, Places, timerVars
<1>7. CASE SwapFunctors
  BY <1>7, EmptySeq DEF SwapFunctors, TypeOK, Places, timerVars
<1>8. CASE RunFunctor
  BY <1>8, RunFunctorType
<1> QED
  BY <1>1, <1>2, <1>3, <1>4, <1>5, <1>6, <1>7, <1>8 DEF LoopStep

LEMMA TypeStep == TypeOK /\ [Next]_vars => TypeOK'
<1> SUFFICES ASSUME TypeOK, [Next]_vars PROVE TypeOK'
  OBVIOUS
<1>1. CASE Tick
  BY <1>1 DEF Tick, TypeOK, loopVars, timerVars
<1>2. CASE PollSocket
  BY <1>2 DEF PollSocket, Poll, Ready, TypeOK, Places, timerVars
<1>3. ASSUME NEW p \in Threads, Wakeup(p) PROVE TypeOK'
  BY <1>3 DEF Wakeup, MustWake, TypeOK, timerVars
<1>4. CASE UNCHANGED vars
  BY <1>4 DEF vars, TypeOK
<1> QED  BY <1>1, <1>2, <1>3, <1>4, LoopType, CallType DEF Next

LEMMA TypeInit == Init => TypeOK
<1> SUFFICES ASSUME Init PROVE TypeOK
  OBVIOUS
<1>1. NoTimers \in QueueType
  BY DEF NoTimers, QueueType, Never
<1>2. <<>> \in Seq(Functors)
  BY EmptySeq
<1> QED  BY <1>1, <1>2 DEF Init, TypeOK, Places

(* Every variable keeps its type.                                          *)
THEOREM TypeCorrect == Spec => []TypeOK
BY TypeInit, TypeStep, PTL DEF Spec

----------------------------------------------------------------------------
(* The loop does not sleep over work, when it is run by the thread that    *)
(* made it and that thread queues nothing before.                          *)

OthersWake == eventfd \/ \E p \in Threads \ {Looper} : caller[p] # Nothing

WakeInv ==
    /\ calling <=> at \in {"swap", "functors", "functor"}
    /\ caller[Looper] # Nothing => at \in UserCode
    /\ at = "start" => caller[Looper] \in {Nothing, ToQuit}
    /\ at \in {"start", "test", "poll", "functors", "functor"} /\ pending # <<>> =>
          OthersWake \/ caller[Looper] \notin {Nothing, ToQuit}
    /\ at = "poll" /\ quit => OthersWake

LEMMA FunctorsDiffer ==
    ASSUME NEW f \in Functors
    PROVE  f # Nothing /\ f # ToQuit
<1>1. PICK a, b : f = <<a, b>>
  BY DEF Functors
<1> QED  BY <1>1 DEF Nothing, ToQuit

(* A call leaves alone what decides about waking, or pushes a functor, or  *)
(* asks to quit.                                                           *)
LEMMA CallEffect ==
    ASSUME TypeOK, NEW p \in Threads, Call(p)
    PROVE  /\ MayCall(p) /\ UNCHANGED <<calling, eventfd, at>>
           /\ \/ UNCHANGED <<pending, caller, quit>>
              \/ /\ \E f \in Functors : Push(p, f)
                 /\ UNCHANGED quit
                 /\ Owner = Looper /\ p = Looper /\ at = "start" => QueuesEarly
              \/ caller' = [caller EXCEPT ![p] = ToQuit] /\ UNCHANGED pending
<1>1. ASSUME NEW w \in Work, QueueInLoop(p, w)
      PROVE  <<"work", w>> \in Functors
  BY DEF Functors
<1>2. ASSUME NEW t \in Timers
      PROVE  <<"add", t>> \in Functors /\ <<"cancel", t>> \in Functors
  BY DEF Functors
<1>3. CASE \E w \in Work : QueueInLoop(p, w) \/ RunInLoop(p, w)
  BY <1>1, <1>3 DEF QueueInLoop, RunInLoop, loopVars
<1>4. CASE \E t \in Timers : AddTimer(p, t)
  BY <1>2, <1>4 DEF AddTimer, IsInLoopThread
<1>5. CASE \E t \in Timers : CancelTimer(p, t)
  BY <1>2, <1>5 DEF CancelTimer, IsInLoopThread
<1>6. CASE Quit(p)
  BY <1>6 DEF Quit
<1> QED  BY <1>3, <1>4, <1>5, <1>6 DEF Call

LEMMA WakeCall ==
    ASSUME TypeOK, WakeInv, ~QueuesEarly, Owner = Looper, NEW p \in Threads, Call(p)
    PROVE  WakeInv'
<1>1. /\ caller \in [Threads -> Functors \cup {Nothing, ToQuit}] /\ Looper \in Threads
      /\ caller[p] = Nothing /\ (p = Looper => at \in UserCode)
      /\ UNCHANGED <<calling, eventfd, at>>
  BY CallEffect, LoopAssumption DEF TypeOK, MayCall
<1>2. ToQuit # Nothing
  BY DEF ToQuit, Nothing
<1>3. CASE UNCHANGED <<pending, caller, quit>>
  BY <1>1, <1>3 DEF WakeInv, OthersWake
<1>4. ASSUME NEW f \in Functors, Push(p, f), UNCHANGED quit,
             p = Looper => at # "start"
      PROVE  WakeInv'
  <2>1. f # Nothing /\ f # ToQuit /\ caller' = [caller EXCEPT ![p] = f]
    BY <1>4, FunctorsDiffer DEF Push
  <2>2. CASE p = Looper
    BY <1>1, <1>4, <2>1, <2>2 DEF WakeInv, OthersWake, UserCode
  <2>3. CASE p # Looper
    <3>1. OthersWake' /\ caller'[Looper] = caller[Looper]
      BY <1>1, <2>1, <2>3 DEF OthersWake
    <3> QED  BY <1>1, <1>4, <3>1 DEF WakeInv
  <2> QED  BY <2>2, <2>3
<1>5. CASE caller' = [caller EXCEPT ![p] = ToQuit] /\ UNCHANGED pending
  <2>1. CASE p = Looper
    <3>1. OthersWake' = OthersWake
      BY <1>1, <1>5, <2>1 DEF OthersWake
    <3> QED  BY <1>1, <1>2, <1>5, <2>1, <3>1 DEF WakeInv, UserCode
  <2>2. CASE p # Looper
    <3>1. OthersWake' /\ caller'[Looper] = caller[Looper]
      BY <1>1, <1>2, <1>5, <2>2 DEF OthersWake
    <3> QED  BY <1>1, <1>5, <3>1 DEF WakeInv
  <2> QED  BY <2>1, <2>2
<1> QED  BY <1>3, <1>4, <1>5, CallEffect

LEMMA WakeWakeup ==
    ASSUME TypeOK, WakeInv, Owner = Looper, NEW p \in Threads, Wakeup(p)
    PROVE  WakeInv'
<1>1. /\ caller \in [Threads -> Functors \cup {Nothing, ToQuit}] /\ Looper \in Threads
      /\ UNCHANGED <<calling, at, pending, quit>>
      /\ caller' = [caller EXCEPT ![p] = Nothing] /\ caller[p] # Nothing
      /\ eventfd' = (eventfd \/ MustWake(p))
  BY LoopAssumption DEF TypeOK, Wakeup
<1>2. CASE p # Looper
  <2>1. OthersWake' /\ caller'[Looper] = caller[Looper]
    BY <1>1, <1>2 DEF OthersWake, MustWake, IsInLoopThread
  <2> QED  BY <1>1, <2>1 DEF WakeInv
<1>3. CASE p = Looper
  <2>1. OthersWake => OthersWake'
    BY <1>1, <1>3 DEF OthersWake
  <2>2. caller[Looper] \notin {Nothing, ToQuit} /\ at = "functor" => OthersWake'
    BY <1>1, <1>3 DEF OthersWake, MustWake, WakeInv
  <2>3. at \in UserCode /\ at # "poll" /\ at # "test" /\ at # "functors"
    BY <1>1, <1>3 DEF WakeInv, UserCode
  <2> QED  BY <1>1, <1>3, <2>1, <2>2, <2>3 DEF WakeInv
<1> QED  BY <1>2, <1>3

LEMMA WakeLoop ==
    ASSUME TypeOK, WakeInv, LoopStep \/ PollSocket
    PROVE  WakeInv'
<1>1. caller[Looper] = Nothing /\ UNCHANGED caller
  BY DEF LoopStep, PollSocket, PollReady, Poll, BeginLoop, TestQuit, HandleWakeup,
         HandleSocket, HandleTimers, ResetTimers, Return, TimeOut, BeginFunctors,
         SwapFunctors, RunFunctor, EndFunctors, Looping
<1>2. CASE BeginLoop \/ TestQuit \/ PollReady \/ PollSocket
  BY <1>1, <1>2 DEF BeginLoop, TestQuit, PollReady, PollSocket, Poll, Looping, WakeInv,
                    OthersWake
<1>3. CASE HandleWakeup \/ HandleSocket \/ HandleTimers
  BY <1>1, <1>3 DEF HandleWakeup, HandleSocket, HandleTimers, Looping, WakeInv
<1>4. CASE ResetTimers \/ \E t \in Timers : TimeOut(t)
  BY <1>1, <1>4 DEF ResetTimers, TimeOut, Looping, WakeInv
<1>5. CASE Return
  BY <1>1, <1>5 DEF Return, Looping, WakeInv, OthersWake
<1>6. CASE BeginFunctors \/ EndFunctors
  BY <1>1, <1>6 DEF BeginFunctors, EndFunctors, Looping, WakeInv, OthersWake
<1>7. CASE SwapFunctors
  BY <1>1, <1>7 DEF SwapFunctors, Looping, WakeInv, OthersWake
<1>8. CASE RunFunctor
  BY <1>1, <1>8 DEF RunFunctor, Looping, WakeInv, OthersWake
<1>9. CASE LoopStep
  <2>1. \/ BeginLoop \/ TestQuit \/ PollReady \/ HandleWakeup \/ HandleSocket
        \/ HandleTimers \/ ResetTimers \/ Return \/ \E t \in Timers : TimeOut(t)
        \/ BeginFunctors \/ SwapFunctors \/ RunFunctor \/ EndFunctors
    BY <1>9 DEF LoopStep
  <2> QED  BY <2>1, <1>2, <1>3, <1>4, <1>5, <1>6, <1>7, <1>8
<1> QED  BY <1>2, <1>9

(* Whatever the order in which threads queue functors, ask to quit and     *)
(* write eventfd: when the loop is about to wait, it will be woken for     *)
(* what was queued and asked.                                              *)
THEOREM LoopIsWoken ==
    ASSUME Owner = Looper, ~QueuesEarly
    PROVE  Spec => []WorkWakesLoop
<1>1. Init => WakeInv
  <2> SUFFICES ASSUME Init PROVE WakeInv
    OBVIOUS
  <2>1. caller[Looper] = Nothing /\ pending = <<>> /\ calling = FALSE /\ at = "start"
    BY LoopAssumption DEF Init
  <2> QED  BY <2>1 DEF WakeInv, UserCode
<1>2. TypeOK /\ WakeInv /\ [Next]_vars => WakeInv'
  <2> SUFFICES ASSUME TypeOK, WakeInv, [Next]_vars PROVE WakeInv'
    OBVIOUS
  <2>1. CASE Tick \/ UNCHANGED vars
    BY <2>1 DEF Tick, vars, loopVars, WakeInv, OthersWake
  <2> QED  BY <2>1, WakeCall, WakeWakeup, WakeLoop DEF Next
<1>3. WakeInv => WorkWakesLoop
  <2> SUFFICES ASSUME WakeInv, at = "poll", pending # <<>> \/ quit PROVE Waking
    BY DEF WorkWakesLoop
  <2>1. caller[Looper] = Nothing
    BY DEF WakeInv, UserCode
  <2> QED  BY <2>1 DEF WakeInv, OthersWake, Waking
<1> QED  BY <1>1, <1>2, <1>3, TypeInit, TypeStep, PTL DEF Spec

----------------------------------------------------------------------------
(* Timers.  A timer that is to be added is alive and nowhere else yet, and *)
(* is added once; outside handleRead no expired timer is left over.        *)

All == running \o pending

AddsAreNew ==
    /\ \A i \in 1 .. Len(All), t \in Timers :
          All[i] = <<"add", t>> => timer[t] = "alive" /\ t \notin queue.due \cup expired
    /\ \A i \in 1 .. Len(All), j \in 1 .. Len(All) :
          All[i] = All[j] /\ All[i][1] = "add" => i = j

TimerInv ==
    /\ clock >= 1
    /\ at \notin {"timers", "callback"} => expired = {}
    /\ at \notin {"functors", "functor"} => running = <<>>
    /\ TimersAreAlive
    /\ AddsAreNew
    /\ AlarmIsSet

LEMMA AllType ==
    ASSUME TypeOK
    PROVE  /\ All \in Seq(Functors) /\ Len(All) \in Nat
           /\ Len(running) \in Nat /\ Len(pending) \in Nat
           /\ Len(All) = Len(running) + Len(pending)
           /\ \A i \in 1 .. Len(All) :
                 All[i] = IF i <= Len(running) THEN running[i] ELSE pending[i - Len(running)]
BY ConcatProperties, LenProperties DEF All, TypeOK

LEMMA ConcatAppend ==
    ASSUME NEW S, NEW r \in Seq(S), NEW p \in Seq(S), NEW f \in S
    PROVE  r \o Append(p, f) = Append(r \o p, f)
<1>1. <<f>> \in Seq(S)
  OBVIOUS
<1>2. Append(p, f) = p \o <<f>> /\ r \o p \in Seq(S)
  BY AppendIsConcat, ConcatProperties
<1>3. Append(r \o p, f) = (r \o p) \o <<f>>
  BY <1>2, AppendIsConcat
<1> QED  BY <1>1, <1>2, <1>3, ConcatAssociative

LEMMA AllPushed ==
    ASSUME TypeOK, NEW f \in Functors, pending' = Append(pending, f), UNCHANGED running
    PROVE  /\ Len(All') = Len(All) + 1
           /\ \A i \in 1 .. Len(All) : All'[i] = All[i]
           /\ All'[Len(All) + 1] = f
<1>1. All' = Append(All, f)
  BY ConcatAppend DEF All, TypeOK
<1>2. All \in Seq(Functors)
  BY AllType
<1>3. \A s \in Seq(Functors) :
        /\ Len(Append(s, f)) = Len(s) + 1
        /\ \A i \in 1 .. Len(s) : Append(s, f)[i] = s[i]
        /\ Append(s, f)[Len(s) + 1] = f
  BY AppendProperties
<1> QED  BY <1>1, <1>2, <1>3

LEMMA TailConcat ==
    ASSUME NEW S, NEW r \in Seq(S), NEW p \in Seq(S), r # <<>>
    PROVE  /\ Len(Tail(r) \o p) = Len(r \o p) - 1 /\ Len(r \o p) \in Nat \ {0}
           /\ (r \o p)[1] = Head(r)
           /\ \A i \in 1 .. Len(Tail(r) \o p) : (Tail(r) \o p)[i] = (r \o p)[i + 1]
<1> DEFINE t == Tail(r)
           a == r \o p
           b == t \o p
<1>1. /\ t \in Seq(S) /\ Len(t) = Len(r) - 1 /\ Len(r) \in Nat \ {0} /\ Len(p) \in Nat
      /\ \A i \in 1 .. Len(t) : t[i] = r[i + 1]
      /\ Head(r) = r[1]
  BY HeadTailProperties, EmptySeq, LenProperties
<1>2. /\ Len(a) = Len(r) + Len(p)
      /\ \A i \in 1 .. Len(r) + Len(p) :
            a[i] = IF i <= Len(r) THEN r[i] ELSE p[i - Len(r)]
  BY ConcatProperties
<1> HIDE DEF t
<1>3. /\ Len(b) = Len(t) + Len(p)
      /\ \A i \in 1 .. Len(t) + Len(p) :
            b[i] = IF i <= Len(t) THEN t[i] ELSE p[i - Len(t)]
  BY <1>1, ConcatProperties
<1> HIDE DEF a, b
<1>4. /\ Len(b) = Len(a) - 1 /\ Len(a) \in Nat \ {0} /\ a[1] = Head(r)
  BY <1>1, <1>2, <1>3
<1>5. ASSUME NEW i \in 1 .. Len(b) PROVE b[i] = a[i + 1]
  <2>1. CASE i <= Len(t)
    BY <1>1, <1>2, <1>3, <1>5, <2>1
  <2>2. CASE ~(i <= Len(t))
    <3>1. i \in Nat /\ ~(i + 1 <= Len(r)) /\ i + 1 - Len(r) = i - Len(t)
      BY <1>1, <1>3, <1>5, <2>2
    <3>2. b[i] = p[i - Len(t)] /\ a[i + 1] = p[i + 1 - Len(r)]
      BY <1>1, <1>2, <1>3, <1>5, <2>2, <3>1
    <3> QED  BY <3>1, <3>2
  <2> QED  BY <2>1, <2>2
<1> QED  BY <1>4, <1>5 DEF a, b, t

LEMMA AllRun ==
    ASSUME TypeOK, running # <<>>, running' = Tail(running), UNCHANGED pending
    PROVE  /\ Len(All) \in Nat \ {0} /\ Len(All') = Len(All) - 1 /\ All[1] = Head(running)
           /\ \A i \in 1 .. Len(All') : All'[i] = All[i + 1]
BY TailConcat DEF All, TypeOK

(* Pushing a functor that adds no timer, or adds a new one.                *)
LEMMA AddsPushed ==
    ASSUME TypeOK, AddsAreNew, NEW f \in Functors, pending' = Append(pending, f),
           UNCHANGED <<running, expired>>, queue'.due = queue.due,
           \A t \in Timers : timer[t] = "alive" => timer'[t] = "alive",
           \A t \in Timers : f = <<"add", t>> =>
               timer[t] = "new" /\ timer'[t] = "alive" /\ t \notin queue.due \cup expired
    PROVE  AddsAreNew'
<1>1. /\ Len(All) \in Nat /\ Len(All') = Len(All) + 1
      /\ \A i \in 1 .. Len(All) : All'[i] = All[i]
      /\ All'[Len(All) + 1] = f
  BY AllType, AllPushed
<1>2. ASSUME NEW i \in 1 .. Len(All'), NEW t \in Timers, All'[i] = <<"add", t>>
      PROVE  timer'[t] = "alive" /\ t \notin queue'.due \cup expired'
  <2>1. CASE i = Len(All) + 1
    BY <1>1, <1>2, <2>1
  <2>2. CASE i \in 1 .. Len(All)
    BY <1>1, <1>2, <2>2 DEF AddsAreNew
  <2> QED  BY <1>1, <2>1, <2>2
<1>3. ASSUME NEW i \in 1 .. Len(All), All[i] = f, f[1] = "add" PROVE FALSE
  <2>1. f[2] \in Timers /\ f = <<"add", f[2]>>
    BY <1>3, FunctorCases
  <2> QED  BY <1>3, <2>1 DEF AddsAreNew
<1>4. ASSUME NEW i \in 1 .. Len(All'), NEW j \in 1 .. Len(All'),
             All'[i] = All'[j], All'[i][1] = "add"
      PROVE  i = j
  <2>1. CASE i \in 1 .. Len(All) /\ j \in 1 .. Len(All)
    BY <1>1, <1>4, <2>1 DEF AddsAreNew
  <2>2. CASE i = Len(All) + 1 /\ j \in 1 .. Len(All)
    BY <1>1, <1>3, <1>4, <2>2
  <2>3. CASE j = Len(All) + 1 /\ i \in 1 .. Len(All)
    BY <1>1, <1>3, <1>4, <2>3
  <2> QED  BY <1>1, <2>1, <2>2, <2>3
<1> QED  BY <1>2, <1>4 DEF AddsAreNew

(* What leaves the functors alone, kills no timer that is to be added and  *)
(* puts none of them anywhere.                                             *)
LEMMA AddsKept ==
    ASSUME AddsAreNew, UNCHANGED All,
           \A t \in Timers : timer[t] = "alive" /\ t \notin queue.due \cup expired =>
               timer'[t] = "alive" /\ t \notin queue'.due \cup expired'
    PROVE  AddsAreNew'
BY DEF AddsAreNew

LEMMA AlarmIsInTime == AlarmIsSet <=> (at \notin {"timers", "callback"} => InTime(queue, clock))
BY DEF AlarmIsSet, InTime

(* cancelInLoop.                                                           *)
LEMMA CancelTimers ==
    ASSUME TypeOK, TimersAreAlive, NEW t \in Timers, RunCancel(t), UNCHANGED expired
    PROVE  /\ TimersAreAlive'
           /\ queue'.due \subseteq queue.due
           /\ queue'.alarm = queue.alarm /\ queue'.stamp = queue.stamp
           /\ \A u \in Timers : timer[u] = "alive" /\ u \notin queue.due \cup expired =>
                  timer'[u] = "alive" /\ u \notin queue'.due \cup expired'
<1>1. queue \in QueueType /\ timer \in [Timers -> {"new", "alive", "deleted"}]
      /\ expired \subseteq Timers /\ queue.due \subseteq Timers
  BY DEF TypeOK, QueueType
<1>2. CASE UNCHANGED <<queue, timer>>
  BY <1>2 DEF TimersAreAlive
<1>3. CASE /\ t \in queue.due /\ queue' = [queue EXCEPT !.due = @ \ {t}]
           /\ timer' = [timer EXCEPT ![t] = "deleted"]
  <2>1. queue'.due = queue.due \ {t} /\ queue'.alarm = queue.alarm
        /\ queue'.stamp = queue.stamp
    BY <1>1, <1>3 DEF QueueType
  <2> QED  BY <1>1, <1>3, <2>1 DEF TimersAreAlive
<1> QED  BY <1>2, <1>3 DEF RunCancel

(* addTimerInLoop, for a timer that is alive and nowhere yet.              *)
LEMMA AddTimers ==
    ASSUME TypeOK, clock >= 1, NEW q \in QueueType, NEW t \in Timers,
           queue' = AddTimerInLoop(q, t, clock),
           TimersAreAlive, timer'[t] = "alive", t \notin queue.due \cup expired,
           q.due = queue.due, q.alarm = queue.alarm,
           \A u \in Timers \ {t} : q.stamp[u] = queue.stamp[u] /\ timer'[u] = timer[u],
           UNCHANGED expired
    PROVE  /\ TimersAreAlive'
           /\ queue'.due = queue.due \cup {t}
           /\ InTime(queue, clock) => InTime(queue', clock)
<1>1. queue'.due = queue.due \cup {t}
  BY AddType DEF TypeOK
<1>2. TimersAreAlive'
  BY <1>1 DEF TimersAreAlive, TypeOK, QueueType
<1>3. ASSUME InTime(queue, clock) PROVE InTime(queue', clock)
  <2>1. queue.due \subseteq Timers \ {t}
    BY DEF TypeOK, QueueType
  <2>2. InTime(q, clock)
    BY <1>3, <2>1 DEF InTime
  <2> QED  BY <2>1, <2>2, AddInTime DEF TypeOK
<1> QED  BY <1>1, <1>2, <1>3

LEMMA InTimeLater ==
    ASSUME NEW q \in QueueType, NEW now \in Nat, InTime(q, now)
    PROVE  InTime(q, now + 1)
<1> SUFFICES ASSUME NEW t \in q.due
             PROVE  q.alarm # Never /\ q.alarm <= AlarmAt(q.stamp[t], now + 1)
  BY DEF InTime
<1>1. q.stamp[t] \in Nat /\ q.alarm \in Nat
  BY DEF QueueType
<1>2. q.alarm # Never /\ q.alarm <= AlarmAt(q.stamp[t], now)
  BY DEF InTime
<1> QED  BY <1>1, <1>2 DEF AlarmAt

LEMMA AddTimerInv ==
    ASSUME TypeOK, TimerInv, NEW p \in Threads, NEW t \in Timers, AddTimer(p, t)
    PROVE  TimerInv'
<1>1. PICK delay \in IF Repeats(t) THEN {Interval[t]} ELSE 0 .. 1 :
          LET new == [queue EXCEPT !.stamp[t] = clock + delay]
          IN  IF IsInLoopThread(p)
              THEN /\ queue' = AddTimerInLoop(new, t, clock)
                   /\ UNCHANGED <<pending, caller>>
              ELSE queue' = new /\ Push(p, <<"add", t>>)
  BY DEF AddTimer
<1> DEFINE new == [queue EXCEPT !.stamp[t] = clock + delay]
<1>2. /\ new \in QueueType /\ new.due = queue.due /\ new.alarm = queue.alarm
      /\ \A u \in Timers \ {t} : new.stamp[u] = queue.stamp[u]
  <2>1. clock + delay \in Nat
    BY TimerAssumption DEF TypeOK
  <2> QED  BY <2>1 DEF TypeOK, QueueType
<1>3. /\ timer[t] = "new" /\ timer' = [timer EXCEPT ![t] = "alive"]
      /\ UNCHANGED <<clock, at, running, expired>>
      /\ timer \in [Timers -> {"new", "alive", "deleted"}]
      /\ queue.due \subseteq Timers /\ expired \subseteq Timers
  BY DEF AddTimer, TypeOK, QueueType
<1>4. /\ t \notin queue.due \cup expired /\ timer'[t] = "alive"
      /\ \A u \in Timers \ {t} : timer'[u] = timer[u]
  BY <1>3 DEF TimerInv, TimersAreAlive
<1>5. CASE IsInLoopThread(p)
  <2>1. queue' = AddTimerInLoop(new, t, clock) /\ UNCHANGED pending
    BY <1>1, <1>5
  <2> HIDE DEF new
  <2>2. /\ TimersAreAlive' /\ queue'.due = queue.due \cup {t}
        /\ InTime(queue, clock) => InTime(queue', clock)
    BY <1>2, <1>3, <1>4, <2>1, AddTimers DEF TimerInv
  <2>3. AddsAreNew'
    <3>1. All' = All
      BY <1>3, <2>1 DEF All
    <3> QED  BY <1>3, <1>4, <2>2, <3>1 DEF TimerInv, AddsAreNew
  <2>4. AlarmIsSet'
    <3>1. at' \notin {"timers", "callback"} => InTime(queue', clock')
      BY <1>3, <2>2, AlarmIsInTime DEF TimerInv
    <3> QED  BY <3>1 DEF AlarmIsSet, InTime
  <2> QED  BY <1>3, <2>2, <2>3, <2>4 DEF TimerInv
<1>6. CASE ~IsInLoopThread(p)
  <2>1. queue' = new /\ pending' = Append(pending, <<"add", t>>)
    BY <1>1, <1>6 DEF Push
  <2>2. <<"add", t>> \in Functors
    BY DEF Functors
  <2>3. AddsAreNew'
    BY <1>2, <1>3, <1>4, <2>1, <2>2, AddsPushed DEF TimerInv
  <2>4. TimersAreAlive'
    BY <1>2, <1>3, <1>4, <2>1 DEF TimerInv, TimersAreAlive
  <2>5. AlarmIsSet'
    <3>1. queue.due \subseteq Timers \ {t}
      BY <1>3, <1>4
    <3> QED  BY <1>2, <1>3, <2>1, <3>1 DEF TimerInv, AlarmIsSet
  <2> QED  BY <1>3, <2>3, <2>4, <2>5 DEF TimerInv
<1> QED  BY <1>5, <1>6

LEMMA CancelTimerInv ==
    ASSUME TypeOK, TimerInv, NEW p \in Threads, NEW t \in Timers, CancelTimer(p, t)
    PROVE  TimerInv'
<1>1. UNCHANGED <<clock, at, running, expired>>
  BY DEF CancelTimer
<1>2. CASE IsInLoopThread(p)
  <2>1. RunCancel(t) /\ UNCHANGED pending
    BY <1>2 DEF CancelTimer
  <2>2. /\ TimersAreAlive' /\ queue'.due \subseteq queue.due
        /\ queue'.alarm = queue.alarm /\ queue'.stamp = queue.stamp
        /\ \A u \in Timers : timer[u] = "alive" /\ u \notin queue.due \cup expired =>
               timer'[u] = "alive" /\ u \notin queue'.due \cup expired'
    BY <1>1, <2>1, CancelTimers DEF TimerInv
  <2>3. AddsAreNew'
    BY <1>1, <2>1, <2>2, AddsKept DEF All, TimerInv
  <2>4. AlarmIsSet'
    BY <1>1, <2>2 DEF TimerInv, AlarmIsSet
  <2> QED  BY <1>1, <2>2, <2>3, <2>4 DEF TimerInv
<1>3. CASE ~IsInLoopThread(p)
  <2>1. /\ pending' = Append(pending, <<"cancel", t>>) /\ <<"cancel", t>> \in Functors
        /\ UNCHANGED <<queue, timer>>
    BY <1>3 DEF CancelTimer, Push, Functors
  <2>2. AddsAreNew'
    BY <1>1, <2>1, AddsPushed DEF TimerInv
  <2> QED  BY <1>1, <2>1, <2>2 DEF TimerInv, TimersAreAlive, AlarmIsSet
<1> QED  BY <1>2, <1>3

LEMMA CallTimerInv ==
    ASSUME TypeOK, TimerInv, NEW p \in Threads, Call(p)
    PROVE  TimerInv'
<1>1. ASSUME NEW w \in Work, QueueInLoop(p, w) PROVE TimerInv'
  <2>1. /\ pending' = Append(pending, <<"work", w>>) /\ <<"work", w>> \in Functors
        /\ UNCHANGED <<clock, at, running, timerVars>>
    BY <1>1 DEF QueueInLoop, Push, Functors
  <2>2. AddsAreNew'
    BY <2>1, AddsPushed DEF TimerInv, timerVars
  <2> QED  BY <2>1, <2>2 DEF TimerInv, TimersAreAlive, AlarmIsSet, timerVars
<1>2. ASSUME NEW w \in Work, RunInLoop(p, w) PROVE TimerInv'
  BY <1>2 DEF RunInLoop, RunWork, TimerInv, TimersAreAlive, AlarmIsSet, AddsAreNew,
              All, loopVars
<1>3. ASSUME Quit(p) PROVE TimerInv'
  BY <1>3 DEF Quit, TimerInv, TimersAreAlive, AlarmIsSet, AddsAreNew, All, timerVars
<1> QED  BY <1>1, <1>2, <1>3, AddTimerInv, CancelTimerInv DEF Call

LEMMA RunFunctorInv ==
    ASSUME TypeOK, TimerInv, RunFunctor
    PROVE  TimerInv'
<1> DEFINE f == Head(running)
<1>1. /\ at = "functors" /\ at' \in {"functors", "functor"} /\ running # <<>>
      /\ running' = Tail(running) /\ UNCHANGED <<clock, pending, expired>>
      /\ expired = {}
  BY DEF RunFunctor, Looping, TimerInv
<1>2. f \in Functors
  BY <1>1, HeadOfRunning
<1>3. /\ Len(All) \in Nat \ {0} /\ Len(All') = Len(All) - 1 /\ All[1] = f
      /\ \A i \in 1 .. Len(All') : All'[i] = All[i + 1]
  BY <1>1, AllRun
<1> HIDE DEF f
<1>4. ASSUME \A u \in Timers : /\ timer[u] = "alive" /\ u \notin queue.due \cup expired
                               /\ f # <<"add", u>>
                 => timer'[u] = "alive" /\ u \notin queue'.due \cup expired'
      PROVE  AddsAreNew'
  <2>1. ASSUME NEW i \in 1 .. Len(All'), NEW u \in Timers, All'[i] = <<"add", u>>
        PROVE  timer'[u] = "alive" /\ u \notin queue'.due \cup expired'
    <3>1. i + 1 \in 1 .. Len(All) /\ 1 \in 1 .. Len(All) /\ i + 1 # 1
      BY <1>3
    <3>2. All[i + 1] = <<"add", u>> /\ <<"add", u>>[1] = "add"
      BY <1>3, <2>1
    <3>3. f # <<"add", u>>
      BY <1>3, <3>1, <3>2 DEF TimerInv, AddsAreNew
    <3> QED  BY <1>4, <3>1, <3>2, <3>3 DEF TimerInv, AddsAreNew
  <2>2. ASSUME NEW i \in 1 .. Len(All'), NEW j \in 1 .. Len(All'),
               All'[i] = All'[j], All'[i][1] = "add"
        PROVE  i = j
    <3>1. i + 1 \in 1 .. Len(All) /\ j + 1 \in 1 .. Len(All)
      BY <1>3
    <3>2. i + 1 = j + 1
      BY <1>3, <2>2, <3>1 DEF TimerInv, AddsAreNew
    <3> QED  BY <3>2
  <2> QED  BY <2>1, <2>2 DEF AddsAreNew
<1>5. CASE f[1] = "work" /\ RunWork(Looper, f[2])
  <2>1. UNCHANGED <<queue, timer>>
    BY <1>5 DEF RunWork
  <2>2. AddsAreNew'
    BY <1>1, <1>4, <2>1
  <2> QED  BY <1>1, <2>1, <2>2 DEF TimerInv, TimersAreAlive, AlarmIsSet
<1>6. CASE f[1] = "add" /\ RunAdd(f[2])
  <2> DEFINE t == f[2]
  <2>1. t \in Timers /\ f = <<"add", t>>
    BY <1>2, <1>6, FunctorCases
  <2>2. queue' = AddTimerInLoop(queue, t, clock) /\ UNCHANGED timer
    BY <1>6 DEF RunAdd
  <2>3. timer[t] = "alive" /\ t \notin queue.due \cup expired
    BY <1>3, <2>1 DEF TimerInv, AddsAreNew
  <2>4. /\ TimersAreAlive' /\ queue'.due = queue.due \cup {t}
        /\ InTime(queue, clock) => InTime(queue', clock)
    BY <1>1, <2>1, <2>2, <2>3, AddTimers DEF TimerInv, TypeOK
  <2>5. AddsAreNew'
    BY <1>1, <1>4, <2>1, <2>2, <2>4
  <2>6. AlarmIsSet'
    BY <1>1, <2>4 DEF TimerInv, AlarmIsSet, InTime
  <2> QED  BY <1>1, <2>4, <2>5, <2>6 DEF TimerInv
<1>7. CASE f[1] = "cancel" /\ RunCancel(f[2])
  <2> DEFINE t == f[2]
  <2>1. t \in Timers
    BY <1>2, <1>7, FunctorCases
  <2>2. /\ TimersAreAlive' /\ queue'.due \subseteq queue.due
        /\ queue'.alarm = queue.alarm /\ queue'.stamp = queue.stamp
        /\ \A u \in Timers : timer[u] = "alive" /\ u \notin queue.due \cup expired =>
               timer'[u] = "alive" /\ u \notin queue'.due \cup expired'
    BY <1>1, <1>7, <2>1, CancelTimers DEF TimerInv
  <2>3. AddsAreNew'
    BY <1>4, <2>2
  <2>4. AlarmIsSet'
    BY <1>1, <2>2 DEF TimerInv, AlarmIsSet
  <2> QED  BY <1>1, <2>2, <2>3, <2>4 DEF TimerInv
<1> QED  BY <1>5, <1>6, <1>7 DEF RunFunctor, Execute, f

LEMMA HandleTimersInv ==
    ASSUME TypeOK, TimerInv, HandleTimers
    PROVE  TimerInv'
<1>1. /\ queue'.due = queue.due \ expired' /\ expired' \subseteq queue.due
      /\ at' = "timers" /\ expired = {} /\ UNCHANGED <<clock, running, pending, timer>>
      /\ at \notin {"functors", "functor"}
  BY ExpiredType DEF HandleTimers, Looping, TimerInv, TypeOK
<1>2. TimersAreAlive'
  BY <1>1 DEF TimerInv, TimersAreAlive
<1>3. AddsAreNew'
  <2>1. \A t \in Timers : timer[t] = "alive" /\ t \notin queue.due \cup expired =>
               timer'[t] = "alive" /\ t \notin queue'.due \cup expired'
    BY <1>1
  <2> QED  BY <1>1, <2>1, AddsKept DEF All, TimerInv
<1> QED  BY <1>1, <1>2, <1>3 DEF TimerInv, AlarmIsSet

(* reset puts back what repeats and deletes the rest.                      *)
LEMMA ResetTimersInv ==
    ASSUME TypeOK, TimerInv, ResetTimers
    PROVE  TimerInv'
<1>1. /\ queue' = Reset(queue, expired, clock) /\ expired' = {} /\ at' = "handle"
      /\ timer' = [t \in Timers |-> IF t \in expired /\ ~Repeats(t) THEN "deleted"
                                                                   ELSE timer[t]]
      /\ UNCHANGED <<clock, running, pending>> /\ at = "timers"
  BY DEF ResetTimers, Looping
<1>2. /\ queue'.due = queue.due \cup {t \in expired : Repeats(t)}
      /\ InTime(queue', clock)
  <2>1. queue \in QueueType /\ expired \in SUBSET Timers /\ clock \in Nat \ {0}
    BY DEF TypeOK, TimerInv
  <2> QED  BY <1>1, <2>1, ResetInTime
<1>3. queue.due \subseteq Timers /\ expired \subseteq Timers
  BY DEF TypeOK, QueueType
<1>4. TimersAreAlive'
  BY <1>1, <1>2, <1>3 DEF TimerInv, TimersAreAlive
<1>5. AddsAreNew'
  <2>1. \A t \in Timers : timer[t] = "alive" /\ t \notin queue.due \cup expired =>
               timer'[t] = "alive" /\ t \notin queue'.due \cup expired'
    BY <1>1, <1>2, <1>3
  <2> QED  BY <1>1, <2>1, AddsKept DEF All, TimerInv
<1>6. AlarmIsSet'
  BY <1>1, <1>2 DEF AlarmIsSet, InTime
<1> QED  BY <1>1, <1>4, <1>5, <1>6 DEF TimerInv

LEMMA SwapFunctorsInv ==
    ASSUME TypeOK, TimerInv, SwapFunctors
    PROVE  TimerInv'
<1>1. /\ running = <<>> /\ running' = pending /\ pending' = <<>>
      /\ at = "swap" /\ at' = "functors" /\ UNCHANGED <<clock, timerVars>>
  BY DEF SwapFunctors, Looping, TimerInv
<1>2. All' = All
  <2>1. pending \in Seq(Functors)
    BY DEF TypeOK
  <2>2. \A s \in Seq(Functors) : s \o <<>> = s /\ <<>> \o s = s
    BY ConcatEmptySeq
  <2> QED  BY <1>1, <2>1, <2>2 DEF All
<1>3. AddsAreNew'
  BY <1>1, <1>2 DEF TimerInv, AddsAreNew, timerVars
<1> QED  BY <1>1, <1>3 DEF TimerInv, TimersAreAlive, AlarmIsSet, timerVars

(* Steps that leave the timers and the functors alone.                     *)
LEMMA OtherStepsInv ==
    ASSUME TypeOK, TimerInv,
           UNCHANGED <<clock, queue, timer, expired, running, pending>>,
           at' \in {"timers", "callback"} <=> at \in {"timers", "callback"},
           at \in {"functors", "functor"} /\ at' \notin {"functors", "functor"} =>
               running = <<>>
    PROVE  TimerInv'
<1>1. AddsAreNew'
  BY DEF TimerInv, AddsAreNew, All
<1> QED  BY <1>1 DEF TimerInv, TimersAreAlive, AlarmIsSet

LEMMA LoopTimerInv ==
    ASSUME TypeOK, TimerInv, LoopStep
    PROVE  TimerInv'
<1>1. CASE BeginLoop \/ TestQuit \/ HandleWakeup \/ HandleSocket
  BY <1>1, OtherStepsInv DEF BeginLoop, TestQuit, HandleWakeup, HandleSocket, Looping,
                             timerVars
<1>2. CASE PollReady
  BY <1>2, OtherStepsInv DEF PollReady, Poll, Looping, timerVars
<1>3. CASE Return
  BY <1>3, OtherStepsInv DEF Return, Looping, timerVars
<1>4. ASSUME NEW t \in Timers, TimeOut(t) PROVE TimerInv'
  BY <1>4, OtherStepsInv DEF TimeOut, Looping
<1>5. CASE BeginFunctors \/ EndFunctors
  BY <1>5, OtherStepsInv DEF BeginFunctors, EndFunctors, Looping, timerVars
<1> QED
  BY <1>1, <1>2, <1>3, <1>4, <1>5, HandleTimersInv, ResetTimersInv, SwapFunctorsInv,
     RunFunctorInv DEF LoopStep

LEMMA TimerInit == Init => TimerInv
<1> SUFFICES ASSUME Init PROVE TimerInv
  OBVIOUS
<1>1. /\ clock = 1 /\ expired = {} /\ running = <<>> /\ pending = <<>>
      /\ queue.due = {}
  BY DEF Init, NoTimers
<1>2. Len(All) = 0
  BY <1>1, AllType, TypeInit, EmptySeq
<1> QED  BY <1>1, <1>2 DEF TimerInv, TimersAreAlive, AddsAreNew, AlarmIsSet

LEMMA TimerStep == TypeOK /\ TimerInv /\ [Next]_vars => TimerInv'
<1> SUFFICES ASSUME TypeOK, TimerInv, [Next]_vars PROVE TimerInv'
  OBVIOUS
<1>1. CASE Tick
  <2>1. clock' = clock + 1 /\ UNCHANGED <<loopVars, timerVars, pending>>
    BY <1>1 DEF Tick
  <2>2. AddsAreNew' /\ TimersAreAlive'
    BY <2>1 DEF TimerInv, AddsAreNew, TimersAreAlive, All, loopVars, timerVars
  <2>3. AlarmIsSet'
    <3>1. InTime(queue, clock) => InTime(queue, clock + 1)
      BY InTimeLater DEF TypeOK
    <3> QED  BY <2>1, <3>1 DEF TimerInv, AlarmIsSet, InTime, loopVars, timerVars
  <2> QED  BY <2>1, <2>2, <2>3 DEF TimerInv, TypeOK, loopVars, timerVars
<1>2. CASE PollSocket
  BY <1>2, OtherStepsInv DEF PollSocket, Poll, Looping, timerVars
<1>3. ASSUME NEW p \in Threads, Wakeup(p) PROVE TimerInv'
  BY <1>3, OtherStepsInv DEF Wakeup, timerVars
<1>4. CASE UNCHANGED vars
  BY <1>4, OtherStepsInv DEF vars
<1> QED  BY <1>1, <1>2, <1>3, <1>4, CallTimerInv, LoopTimerInv DEF Next

LEMMA TimersHold == Spec => []TimerInv
BY TypeInit, TypeStep, TimerInit, TimerStep, PTL DEF Spec

(* However timers are added, cancelled and restarted, and by whichever     *)
(* thread: a timer that waits or is about to be called exists.             *)
THEOREM TimersStayAlive == Spec => []TimersAreAlive
<1>1. TimerInv => TimersAreAlive
  BY DEF TimerInv
<1> QED  BY <1>1, TimersHold, PTL

(* ... and _timerfd goes off in time for every timer that waits.           *)
THEOREM AlarmCorrect == Spec => []AlarmIsSet
<1>1. TimerInv => AlarmIsSet
  BY DEF TimerInv
<1> QED  BY <1>1, TimersHold, PTL
=============================================================================
