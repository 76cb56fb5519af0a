\* One thread and one timer are enough: run_repeated(1 ms, 1) fires twice.
CONSTANTS
    Clients    = {c1}
    MaxTimers  = 1
    Delays     = {1}
    Points     = {3}
    Repeats    = {1}
    TicksPerMs = 2
    None       = None
SPECIFICATION Spec
INVARIANTS RepeatedAsAsked
