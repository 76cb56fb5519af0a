\* An asynchronous logger that nobody stops or even uses.
CONSTANTS
    Threads    = {a}
    Modes      = {TRUE}
    MaxLines   = 1
    MaxDay     = 0
    QueueSize  = 1
    SplitLines = 2
    None       = None
SPECIFICATION Spec
INVARIANT WriterEndsWhenStopped
CHECK_DEADLOCK FALSE
