\* Up to three sub-loops (none included) and two calls of start().  The server
\* may come to rest.
CONSTANTS
    Workers   = {u, v, w}
    MaxStarts = 2
    Garbage   = Garbage
    Idle      = Idle
SPECIFICATION Spec
INVARIANTS TypeOK MovedToLaterLoops
PROPERTY StartSettles
CHECK_DEADLOCK FALSE
