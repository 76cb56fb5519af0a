\* Two connections share a pool with one chunk of each size: the next request
\* of a size makes a new chunk, and the limit can be met.  With four bytes one
\* client can outgrow a chunk of either buffer, and also the largest one; one
\* more is left for the other.  Clients may fall silent and the pool may end
\* the process.
CONSTANTS
    Conns         = {a, b}
    MaxBytes      = 4
    MaxTotal      = 5
    Caps          = {2, 3}
    InitNum       = 1
    MAX_POOL_SIZE = 9
SPECIFICATION Spec
SYMMETRY Symmetry
INVARIANTS TypeOK PoolAccounting OneHolder StreamIntact
CHECK_DEADLOCK FALSE
