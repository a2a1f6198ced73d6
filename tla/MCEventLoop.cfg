\* One thread beside the one that loops; a timer that fires once, one that repeats.
SPECIFICATION FairSpec
CONSTANTS
    once = once
    every = every
    looper = looper
    user = user
    Timers <- MCTimers
    Interval <- MCInterval
    Threads = {looper, user}
    Looper = looper
    Owner = looper
    MaxWork = 2
    Cancels = {once}
    QueuesEarly = FALSE
    MaxCalls = 3
    MaxTime = 3
INVARIANT WorkWakesLoop
INVARIANT AlarmIsSet
INVARIANT TimersAreAlive
PROPERTY QueuedWorkRuns
PROPERTY TimersGoOff
PROPERTY QuitEndsLoop
CHECK_DEADLOCK FALSE
