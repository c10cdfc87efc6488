\* Both callers keep reading; a caller that split its handle may drop the
\* update sender first and the event stream later.
CONSTANTS
    i1 = i1
    i2 = i2
    i3 = i3
    n1 = n1
    c1 = c1
    c2 = c2
    Intents = {i1, i2}
    Detached = {}
    Continuous = {i2}
    InitialQueue <- MCInitialQueue
    Namespaces = {n1}
    Cells = {c1, c2}
    InitSpec <- MCInitSpec
    AddSpecs = {}
    Unauthorised = Unauthorised
    SessionEvents <- MCSessionEvents
    NoNamespace = NoNamespace
    NoIntent = NoIntent
    EventCap = 1
    UpdateCap = 1
    MaxInputs = 3
    MaxUpdates = 1
    Readers = {i1, i2}
SPECIFICATION FairSpec
PROPERTY DroppedHandleCancelled
