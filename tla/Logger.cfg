\* Two threads with two lines each and a queue of two places: it can be full
\* while a third line waits, and the ring wraps.  Files are split after every
\* second line, and one midnight may fall between reading the clock and
\* counting.  Threads may stop logging, so all may come to rest; a file that
\* does not open may end the process.
CONSTANTS
    Threads    = {a, b}
    Modes      = {TRUE, FALSE}
    MaxLines   = 2
    MaxDay     = 1
    QueueSize  = 2
    SplitLines = 2
    None       = None
SPECIFICATION Spec
INVARIANTS TypeOK NoSleepBesideLine ThreadOrderKept RotationKeepsUp
PROPERTIES InOrderOnce WriteLogReturns DestructorReturns
CHECK_DEADLOCK FALSE
