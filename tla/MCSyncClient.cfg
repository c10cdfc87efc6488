\* SyncHandle and SyncHandleSet: the passing checks
CONSTANTS
    h1 = h1
    h2 = h2
    p1 = p1
    p2 = p2
    NoHandle = NoHandle
    Handles = {h1, h2}
    Peers = {p1, p2}
    MaxBody = 2
    MaxCompletes = 2
SYMMETRY SymHandles
INIT Init
NEXT Next
\* every handle may end up dropped or consumed: the caller is done with it
CHECK_DEADLOCK FALSE
INVARIANT NoUnreachablePanic
