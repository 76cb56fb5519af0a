\* Two threads arm two timers, after 1 ms (2 ticks) or at a point 1.5 ms (3
\* ticks) away: the truncation to milliseconds matters, and the nearer time
\* point can arrive while the tick thread sleeps for the later one.
CONSTANTS
    Clients    = {c1, c2}
    MaxTimers  = 2
    Delays     = {1}
    Points     = {3}
    Repeats    = {1}
    TicksPerMs = 2
    None       = None
SPECIFICATION Spec
INVARIANTS TypeOK NoOversleep AtMostOnePostAfterCancel
PROPERTIES RepeatAccounting QueuedFiringDone CancelledTimerLeaves DestructorReturns
