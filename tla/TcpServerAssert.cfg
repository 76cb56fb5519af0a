\* One client; its timer may expire while an event of its socket is pending.
CONSTANTS
    Conns      = {a}
    NumLoops   = 1
    Pool       = {p}
    Limits     = {1}
    MaxMsgs    = 1
    MaxExpired = 1
    Main       = main
    None       = None
SPECIFICATION Spec
INVARIANT DispatchFindsEntry
CHECK_DEADLOCK FALSE
