\* Two workers compete for the tasks of two posting threads while the pool may
\* be destroyed; with two tasks one can wait behind the other, be left for a
\* worker that comes back, or be dropped.
CONSTANTS
    Workers = {w1, w2}
    Posters = {p1, p2}
    Tasks   = {k1, k2}
    None    = None
SPECIFICATION Spec
INVARIANTS TypeOK NoSleeperBesideTask AtMostOneTaskAfterStop
PROPERTIES InOrderOnce PostedTaskFinishes DestructorReturns
CHECK_DEADLOCK FALSE
