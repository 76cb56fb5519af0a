\* As ServerStart, with two sub-loops and one call of start().
CONSTANTS
    Workers   = {u, v}
    MaxStarts = 1
    Garbage   = Garbage
    Idle      = Idle
SPECIFICATION Spec
INVARIANT EachLoopItsThread
CHECK_DEADLOCK FALSE
