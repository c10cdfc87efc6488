\* i1 is awaited with complete() (twice at most, a call may be dropped), i2 is read as a stream; i1 (narrow) is queued at
\* construction, i2 (wide) arrives through the inbox, both ReconcileOnce.
\* Both callers read their stream when not in complete().  Symmetry is not used (liveness).
CONSTANTS
    i1 = i1
    i2 = i2
    i3 = i3
    n1 = n1
    c1 = c1
    c2 = c2
    Intents = {i1, i2}
    Detached = {}
    Continuous = {}
    InitialQueue <- MCInitialQueue
    Namespaces = {n1}
    Cells = {c1, c2}
    InitSpec <- MCInitSpec
    AddSpecs = {}
    Unauthorised = Unauthorised
    SessionEvents <- MCSessionEvents
    NoNamespace = NoNamespace
    NoIntent = NoIntent
    EventCap = 1
    UpdateCap = 1
    MaxInputs = 2
    MaxUpdates = 1
    Readers = {i1, i2}
    Completers = {i1}
    MaxAttempts = 2
SPECIFICATION CFairSpec
INVARIANT VerdictMatchesEvents
PROPERTY ReconciledAllEndsComplete
