------------------------------ MODULE EventLoop ------------------------------
(***************************************************************************)
(* One EventLoop with its TimerQueue and the threads that use it: the      *)
(* thread that loops, and others that queue functors, add and cancel       *)
(* timers, and quit.  The steps of the looping thread are those of loop()  *)
(* between two accesses to what the threads share.  User code runs inside  *)
(* the handlers of sockets and timers and inside functors; it makes any    *)
(* number of calls and returns.                                            *)
(*                                                                         *)
(* broken says that the code has used a timer after deleting it: whatever  *)
(* happens then is undefined, and the model stops.                         *)
(***************************************************************************)
EXTENDS TimerQueue, Sequences, FiniteSets

CONSTANTS
    Threads,    \* the threads that use the loop
    Looper,     \* the one that calls loop()
    Owner,      \* the one that constructed the EventLoop: _threadId
    MaxWork,    \* bound: functors of user code
    Cancels,    \* timers that may be cancelled
    QueuesEarly, \* may the looping thread queue functors before loop()?
    MaxCalls,   \* bound: calls made, of all kinds
    MaxTime     \* bound of the clock

ASSUME LoopAssumption ==
    /\ Looper \in Threads /\ Owner \in Threads
    /\ Threads \cap {"new", "queued"} = {}
    /\ Cancels \subseteq Timers /\ QueuesEarly \in BOOLEAN
    /\ MaxWork \in Nat /\ MaxCalls \in Nat /\ MaxTime \in Nat

(* Functors are numbered in the order in which they are made.              *)
Work == 1 .. MaxWork

VARIABLES
    clock,      \* the time
    quit,       \* _quit
    calling,    \* _callingPendingFunctors
    pending,    \* _pendingFunctors
    eventfd,    \* can _eventfd be read?
    queue,      \* _pTimerQueue
    at,         \* where the looping thread is
    active,     \* activeChannels not yet handled
    expired,    \* the list expired of TimerQueue::handleRead
    called,     \* those of them whose callback has been called
    running,    \* tempRuns, without the functors already called
    caller,     \* caller[p]: what p has not yet woken the loop for
    work,       \* work[w]: "new", "queued" or the thread that ran it
    timer,      \* timer[t]: "new", "alive" or "deleted"
    cancelled,  \* timers cancelInLoop was called for
    broken

loopVars == <<quit, calling, eventfd, at, active, running, caller>>
timerVars == <<queue, timer, cancelled, expired, called>>
vars == <<clock, quit, calling, pending, eventfd, queue, at, active, expired,
          called, running, caller, work, timer, cancelled, broken>>

(* What a thread may be about to wake the loop for, beside a functor.      *)
Nothing == <<>>
ToQuit == <<"quit">>

Init ==
    /\ clock = 1
    /\ quit = FALSE /\ calling = FALSE /\ pending = <<>> /\ eventfd = FALSE
    /\ queue = NoTimers
    /\ at = "start" /\ active = {} /\ expired = {} /\ called = {} /\ running = <<>>
    /\ caller = [p \in Threads |-> Nothing]
    /\ work = [w \in Work |-> "new"]
    /\ timer = [t \in Timers |-> "new"]
    /\ cancelled = {}
    /\ broken = FALSE

IsInLoopThread(p) == p = Owner

(* The looping thread is in user code before loop() and in callbacks.      *)
UserCode == {"start", "socket", "callback", "functor"}

CallsMade ==
    Cardinality({w \in Work : work[w] # "new"})
    + Cardinality({t \in Timers : timer[t] # "new"})
    + Cardinality(cancelled) + (IF quit THEN 1 ELSE 0)

MayCall(p) ==
    /\ ~broken /\ CallsMade < MaxCalls
    /\ caller[p] = Nothing
    /\ p = Looper => at \in UserCode

Tick ==
    /\ ~broken /\ clock < MaxTime
    /\ clock' = clock + 1
    /\ UNCHANGED <<loopVars, timerVars, pending, work, broken>>

----------------------------------------------------------------------------
(* What a functor does when thread p runs it.                              *)

RunWork(p, w) ==
    /\ work' = [work EXCEPT ![w] = p]
    /\ UNCHANGED <<queue, timer, cancelled, broken>>

RunAdd(t) ==
    /\ queue' = AddTimerInLoop(queue, t, clock)
    /\ UNCHANGED <<work, timer, cancelled, broken>>

(* Mistakes the checked properties must notice: a variant X_mistake stands *)
(* in for X in a mutation run, and nothing else uses it.                   *)
RunCancel_deletesAny(t) ==
    /\ cancelled' = cancelled \cup {t}
    /\ queue' = [queue EXCEPT !.due = @ \ {t}]
    /\ timer' = [timer EXCEPT ![t] = "deleted"]
    /\ UNCHANGED <<work, broken>>

(* cancelInLoop takes the stamp of the timer to find its entry, and after  *)
(* erasing the entry reads it once more to delete the timer.  A timer that *)
(* has expired is in no entry: nothing is done about it.                   *)
RunCancel(t) ==
    /\ cancelled' = cancelled \cup {t}
    /\ UNCHANGED work
    /\ \/ /\ timer[t] = "deleted"
          /\ broken' = TRUE
          /\ UNCHANGED <<queue, timer>>
       \/ /\ timer[t] = "alive" /\ t \in queue.due
          /\ queue' = [queue EXCEPT !.due = @ \ {t}]
          /\ timer' = [timer EXCEPT ![t] = "deleted"]
          /\ broken' \in BOOLEAN
       \/ /\ timer[t] = "alive" /\ t \notin queue.due
          /\ UNCHANGED <<queue, timer, broken>>

Execute(f) ==
    \/ f[1] = "work" /\ RunWork(Looper, f[2])
    \/ f[1] = "add" /\ RunAdd(f[2])
    \/ f[1] = "cancel" /\ RunCancel(f[2])

----------------------------------------------------------------------------
(* Calls of user code.  queueInLoop pushes under the lock and decides      *)
(* afterwards whether to wake the loop, which Wakeup does.                 *)

Push(p, f) ==
    /\ pending' = Append(pending, f)
    /\ caller' = [caller EXCEPT ![p] = f]

IsNext(w) == work[w] = "new" /\ \A v \in 1 .. w - 1 : work[v] # "new"

QueueInLoop(p, w) ==
    /\ MayCall(p) /\ IsNext(w)
    /\ p = Looper /\ at = "start" => QueuesEarly
    /\ Push(p, <<"work", w>>)
    /\ work' = [work EXCEPT ![w] = "queued"]
    /\ UNCHANGED <<clock, quit, calling, eventfd, at, active, running, timerVars, broken>>

(* For every other thread runInLoop is queueInLoop.                        *)
RunInLoop(p, w) ==
    /\ MayCall(p) /\ IsNext(w)
    /\ IsInLoopThread(p)
    /\ RunWork(p, w)
    /\ UNCHANGED <<clock, loopVars, pending, expired, called>>

(* addTimer: runAt and runAfter give any stamp, runEvery the first one.    *)
AddTimer(p, t) ==
    /\ MayCall(p) /\ timer[t] = "new"
    /\ timer' = [timer EXCEPT ![t] = "alive"]
    /\ \E delay \in IF Repeats(t) THEN {Interval[t]} ELSE 0 .. 1 :
          LET new == [queue EXCEPT !.stamp[t] = clock + delay]
          IN  IF IsInLoopThread(p)
              THEN /\ queue' = AddTimerInLoop(new, t, clock)
                   /\ UNCHANGED <<pending, caller>>
              ELSE queue' = new /\ Push(p, <<"add", t>>)
    /\ UNCHANGED <<clock, quit, calling, eventfd, at, active, running, work,
                   cancelled, expired, called, broken>>

(* A timer can be cancelled once addTimer has returned its TimerId.        *)
CancelTimer(p, t) ==
    /\ MayCall(p) /\ t \in Cancels \ cancelled /\ timer[t] # "new"
    /\ \A other \in Threads : caller[other] # <<"add", t>>
    /\ IF IsInLoopThread(p)
       THEN RunCancel(t) /\ UNCHANGED <<pending, caller>>
       ELSE /\ <<"cancel", t>> \notin {pending[i] : i \in DOMAIN pending}
            /\ Push(p, <<"cancel", t>>)
            /\ UNCHANGED <<work, queue, timer, cancelled, broken>>
    /\ UNCHANGED <<clock, quit, calling, eventfd, at, active, running, expired, called>>

Quit(p) ==
    /\ MayCall(p) /\ ~quit
    /\ quit' = TRUE
    /\ caller' = [caller EXCEPT ![p] = ToQuit]
    /\ UNCHANGED <<clock, calling, eventfd, at, active, running, pending, work,
                   timerVars, broken>>

MustWake_outsidersOnly(p) == ~IsInLoopThread(p)

MustWake_callingOnly(p) == caller[p] # ToQuit /\ calling

MustWake(p) ==
    \/ ~IsInLoopThread(p)
    \/ caller[p] # ToQuit /\ calling

Wakeup(p) ==
    /\ ~broken /\ caller[p] # Nothing
    /\ eventfd' = (eventfd \/ MustWake(p))
    /\ caller' = [caller EXCEPT ![p] = Nothing]
    /\ UNCHANGED <<clock, quit, calling, at, active, running, pending, work,
                   timerVars, broken>>

Call(p) ==
    \/ \E w \in Work : QueueInLoop(p, w) \/ RunInLoop(p, w)
    \/ \E t \in Timers : AddTimer(p, t) \/ CancelTimer(p, t)
    \/ Quit(p)

----------------------------------------------------------------------------
(* The looping thread.                                                     *)

Looping(place) == ~broken /\ at = place /\ caller[Looper] = Nothing

BeginLoop ==
    /\ Looping("start")
    /\ at' = "test"
    /\ UNCHANGED <<clock, quit, calling, eventfd, active, running, caller, pending,
                   work, timerVars, broken>>

TestQuit ==
    /\ Looping("test")
    /\ at' = IF quit THEN "ended" ELSE "poll"
    /\ UNCHANGED <<clock, quit, calling, eventfd, active, running, caller, pending,
                   work, timerVars, broken>>

(* epoll_wait sleeps until a channel is ready, and returns all that are.   *)
Ready ==
    {c \in {"wakeup", "timer"} :
        IF c = "wakeup" THEN eventfd ELSE Readable(queue, clock)}

Poll(channels) ==
    /\ Looping("poll")
    /\ channels # {}
    /\ active' = channels
    /\ at' = "handle"
    /\ UNCHANGED <<clock, quit, calling, eventfd, running, caller, pending, work,
                   timerVars, broken>>

PollReady == Ready # {} /\ Poll(Ready)

PollSocket == Poll(Ready \cup {"socket"})

HandleWakeup ==
    /\ Looping("handle") /\ "wakeup" \in active
    /\ eventfd' = FALSE
    /\ active' = active \ {"wakeup"}
    /\ UNCHANGED <<clock, quit, calling, at, running, caller, pending, work,
                   timerVars, broken>>

HandleSocket ==
    /\ Looping("handle") /\ "socket" \in active
    /\ active' = active \ {"socket"}
    /\ at' = "socket"
    /\ UNCHANGED <<clock, quit, calling, eventfd, running, caller, pending, work,
                   timerVars, broken>>

HandleTimers ==
    /\ Looping("handle") /\ "timer" \in active
    /\ active' = active \ {"timer"}
    /\ at' = "timers"
    /\ queue' = GetExpired(queue, clock)
    /\ expired' = Expired(queue, clock)
    /\ called' = {}
    /\ UNCHANGED <<clock, quit, calling, eventfd, running, caller, pending, work,
                   timer, cancelled, broken>>

(* The expired timers are called in the order of their stamps.             *)
TimeOut(t) ==
    /\ Looping("timers") /\ t \in expired \ called
    /\ \A u \in expired \ called : queue.stamp[t] <= queue.stamp[u]
    /\ called' = called \cup {t}
    /\ at' = "callback"
    /\ UNCHANGED <<clock, quit, calling, eventfd, active, running, caller, pending,
                   work, queue, timer, cancelled, expired, broken>>

ResetTimers ==
    /\ Looping("timers") /\ called = expired
    /\ queue' = Reset(queue, expired, clock)
    /\ timer' = [t \in Timers |-> IF t \in expired /\ ~Repeats(t) THEN "deleted"
                                                               ELSE timer[t]]
    /\ expired' = {} /\ called' = {}
    /\ at' = "handle"
    /\ UNCHANGED <<clock, quit, calling, eventfd, active, running, caller, pending,
                   work, cancelled, broken>>

(* User code returns to its caller.                                        *)
Return ==
    /\ \/ Looping("socket") /\ at' = "handle"
       \/ Looping("callback") /\ at' = "timers"
       \/ Looping("functor") /\ at' = "functors"
    /\ UNCHANGED <<clock, quit, calling, eventfd, active, running, caller, pending,
                   work, timerVars, broken>>

(* doPendingFunctors.                                                      *)
BeginFunctors ==
    /\ Looping("handle") /\ active = {}
    /\ calling' = TRUE
    /\ at' = "swap"
    /\ UNCHANGED <<clock, quit, eventfd, active, running, caller, pending, work,
                   timerVars, broken>>

SwapFunctors ==
    /\ Looping("swap")
    /\ running' = pending
    /\ pending' = <<>>
    /\ at' = "functors"
    /\ UNCHANGED <<clock, quit, calling, eventfd, active, caller, work, timerVars,
                   broken>>

RunFunctor ==
    /\ Looping("functors") /\ running # <<>>
    /\ Execute(Head(running))
    /\ running' = Tail(running)
    /\ at' = IF Head(running)[1] = "work" THEN "functor" ELSE at
    /\ UNCHANGED <<clock, quit, calling, eventfd, active, caller, pending, expired,
                   called>>

EndFunctors ==
    /\ Looping("functors") /\ running = <<>>
    /\ calling' = FALSE
    /\ at' = "test"
    /\ UNCHANGED <<clock, quit, eventfd, active, running, caller, pending, work,
                   timerVars, broken>>

LoopStep ==
    \/ BeginLoop \/ TestQuit \/ PollReady
    \/ HandleWakeup \/ HandleSocket \/ HandleTimers
    \/ ResetTimers \/ Return \/ \E t \in Timers : TimeOut(t)
    \/ BeginFunctors \/ SwapFunctors \/ RunFunctor \/ EndFunctors

Next ==
    \/ Tick
    \/ LoopStep \/ PollSocket
    \/ \E p \in Threads : Call(p) \/ Wakeup(p)

Spec == Init /\ [][Next]_vars

(* Time passes, the looping thread runs and every call is finished.        *)
(* Nothing makes sockets ready or user code call.                          *)
FairSpec ==
    /\ Spec
    /\ WF_vars(Tick)
    /\ WF_vars(LoopStep)
    /\ \A p \in Threads : WF_vars(Wakeup(p))

----------------------------------------------------------------------------
(* Each variable has its type.                                             *)
Functors == ({"work"} \X Work) \cup ({"add", "cancel"} \X Timers)

Places == {"start", "test", "poll", "handle", "socket", "timers", "callback",
           "swap", "functors", "functor", "ended"}

TypeOK ==
    /\ clock \in Nat
    /\ quit \in BOOLEAN /\ calling \in BOOLEAN /\ eventfd \in BOOLEAN
    /\ pending \in Seq(Functors) /\ running \in Seq(Functors)
    /\ queue \in QueueType
    /\ at \in Places
    /\ active \subseteq {"wakeup", "timer", "socket"}
    /\ expired \subseteq Timers /\ called \subseteq expired
    /\ caller \in [Threads -> Functors \cup {Nothing, ToQuit}]
    /\ work \in [Work -> {"new", "queued"} \cup Threads]
    /\ timer \in [Timers -> {"new", "alive", "deleted"}]
    /\ cancelled \subseteq Timers
    /\ broken \in BOOLEAN

(* The loop never goes to sleep over a functor or a request to quit:       *)
(* whatever the threads' order, eventfd can be read or a thread is just    *)
(* about to write it (queueInLoop and quit wake the loop only when it may  *)
(* be asleep, EventLoop.cc:55 and 42).                                     *)
Waking == eventfd \/ \E p \in Threads : caller[p] # Nothing

WorkWakesLoop == at = "poll" /\ (pending # <<>> \/ quit) => Waking

(* Outside TimerQueue::handleRead, _timerfd goes off in time for the       *)
(* earliest of all timers, whichever way they were added and restarted.    *)
AlarmIsSet ==
    at \notin {"timers", "callback"} =>
        \A t \in queue.due : /\ queue.alarm # Never
                             /\ queue.alarm <= AlarmAt(queue.stamp[t], clock)

(* Only timers that exist wait or are called: none is deleted before its   *)
(* turn, and none waits again while its callback is still to come.         *)
TimersAreAlive ==
    /\ \A t \in queue.due \cup expired : timer[t] = "alive"
    /\ queue.due \cap expired = {}

(* A cancelled timer is not restarted: reset says it restarts a timer that *)
(* repeats and was not cancelled (TimerQueue.cc:114).                      *)
CancelledStayCancelled == cancelled \cap queue.due = {}

(* Every functor that was queued is run, unless the loop is quit.          *)
Stopped == at = "ended" \/ broken

QueuedWorkRuns ==
    \A w \in Work : work[w] = "queued" ~> work[w] \in Threads \/ Stopped

(* Every timer that waits for a time that comes is called.                 *)
TimersGoOff ==
    \A t \in Timers :
        t \in queue.due /\ queue.stamp[t] <= MaxTime ~> t \notin queue.due \/ Stopped

(* A request to quit ends the loop.                                        *)
QuitEndsLoop == quit ~> Stopped
=============================================================================
