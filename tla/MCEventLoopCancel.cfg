\* A timer that repeats may be cancelled, by its own callback too; one thread.
SPECIFICATION Spec
CONSTANTS
    once = once
    every = every
    looper = looper
    Timers <- MCTimers
    Interval <- MCInterval
    Threads = {looper}
    Looper = looper
    Owner = looper
    MaxWork = 2
    Cancels = {every}
    QueuesEarly = FALSE
    MaxCalls = 3
    MaxTime = 3
INVARIANT CancelledStayCancelled
CHECK_DEADLOCK FALSE
