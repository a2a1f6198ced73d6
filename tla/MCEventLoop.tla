----------------------------- MODULE MCEventLoop -----------------------------
(* Finite instances of module EventLoop for TLC: a timer that fires once   *)
(* and one that repeats.                                                   *)
EXTENDS EventLoop

CONSTANTS once, every

MCTimers == {once, every}

MCInterval == [t \in Timers |-> IF t = every THEN 1 ELSE 0]
=============================================================================
