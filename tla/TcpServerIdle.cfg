\* One client that sends up to two messages; up to three of its timers expire,
\* on two pool threads, so that two evictions and the loop's own close of the
\* same connection can overlap.  All is at rest once the client is evicted.
CONSTANTS
    Conns      = {a}
    NumLoops   = 1
    Pool       = {p, q}
    Limits     = {1}
    MaxMsgs    = 2
    MaxExpired = 3
    Main       = main
    None       = None
SPECIFICATION Spec
INVARIANTS EvictionArmed
PROPERTY IdleConnectionClosed
CHECK_DEADLOCK FALSE
