\* i1 queued at construction; i2 names no capability the store holds;
\* i3 is detached and wants the wide area.
CONSTANTS
    i1 = i1
    i2 = i2
    i3 = i3
    n1 = n1
    c1 = c1
    c2 = c2
    Intents = {i1, i2, i3}
    Detached = {i3}
    Continuous = {}
    InitialQueue <- MCInitialQueue
    Namespaces = {n1}
    Cells = {c1, c2}
    InitSpec <- MCInitSpecFail
    AddSpecs <- MCAddSpecsFail
    Unauthorised = Unauthorised
    SessionEvents <- MCSessionEvents
    NoNamespace = NoNamespace
    NoIntent = NoIntent
    EventCap = 1
    UpdateCap = 1
    MaxInputs = 3
    MaxUpdates = 1
    Readers = {}
SPECIFICATION Spec
INVARIANT NoCompleteLingers
INVARIANT DropSignalled
PROPERTY LifecycleRefinement
