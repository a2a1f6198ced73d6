----------------------------- MODULE TimerQueue -----------------------------
(***************************************************************************)
(* Class TimerQueue: each method is an operator from the queue's state to  *)
(* the state it leaves behind.  An Entry of _pTimers is a pair of a stamp  *)
(* and a timer; the stamp of a timer only changes while it is out of the   *)
(* set, so the set is represented by its timers and their stamps.          *)
(***************************************************************************)
EXTENDS Integers

CONSTANTS
    Timers,     \* the Timer objects
    Interval    \* Interval[t]: _interval, 0 for a timer that fires once

ASSUME TimerAssumption == Interval \in [Timers -> Nat]

Never == 0

(* due: the timers of _pTimers; stamp[t]: _stamp; alarm: when _timerfd     *)
(* becomes readable, Never when it is not set.  Time starts at 1.          *)
QueueType == [due : SUBSET Timers, stamp : [Timers -> Nat], alarm : Nat]

NoTimers == [due |-> {}, stamp |-> [t \in Timers |-> 0], alarm |-> Never]

Repeats(t) == Interval[t] > 0

(* resetTimerfd: a time that has passed counts from now on.                *)
AlarmAt(when, now) == IF when < now THEN now ELSE when

(* insert: is the new timer earlier than all others?                       *)
EarliestChanged(q, t) == \A u \in q.due : q.stamp[t] < q.stamp[u]

(* Mistakes the checked properties must notice: a variant X_mistake stands *)
(* in for X in a mutation run, and nothing else uses it.                   *)
AddTimerInLoop_firstOnly(q, t, now) ==
    [q EXCEPT !.due = @ \cup {t},
              !.alarm = IF q.due = {} THEN AlarmAt(q.stamp[t], now) ELSE @]

AddTimerInLoop(q, t, now) ==
    [q EXCEPT !.due = @ \cup {t},
              !.alarm = IF EarliestChanged(q, t) THEN AlarmAt(q.stamp[t], now)
                                                 ELSE @]

Expired(q, now) == {t \in q.due : q.stamp[t] <= now}

Readable(q, now) == q.alarm # Never /\ q.alarm <= now

(* readTimerfd and getExpired.  An alarm that went off is off until it is  *)
(* set again; one that was set anew since epoll_wait is not read.          *)
GetExpired(q, now) ==
    [q EXCEPT !.due = @ \ Expired(q, now),
              !.alarm = IF Readable(q, now) THEN Never ELSE @]

Earliest(q) == CHOOSE t \in q.due : \A u \in q.due : q.stamp[t] <= q.stamp[u]

(* What reset inserts again.                                               *)
Restarted(q, expired, now) ==
    [q EXCEPT !.due = @ \cup {t \in expired : Repeats(t)},
              !.stamp = [t \in Timers |-> IF t \in expired /\ Repeats(t)
                                          THEN now + Interval[t] ELSE @[t]]]

SetAlarm(q, now) ==
    IF q.due = {} THEN q
    ELSE [q EXCEPT !.alarm = AlarmAt(q.stamp[Earliest(q)], now)]

Reset_noAlarm(q, expired, now) == Restarted(q, expired, now)

Reset(q, expired, now) == SetAlarm(Restarted(q, expired, now), now)
=============================================================================
