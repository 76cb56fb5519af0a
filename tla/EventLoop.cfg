\* Threads: main constructs the loop, main or sub runs it, and a third thread
\* calls in, so that one caller's queueing can fall between the queueing and
\* the eventfd write of another.  Three tasks: a batch can hold two of them
\* while the third arrives.
CONSTANTS
    Threads    = {loop, main, other}
    LoopThread = loop
    Creators   = {loop, main}
    Tasks      = {k1, k2, k3}
    NoThread   = NoThread
SPECIFICATION Spec
INVARIANTS TypeOK NoLostTask OwnLoopRunsTasks
PROPERTIES InOrderOnce QueuedTaskRuns QuitStopsLoop
