\* P6: i1's caller stops reading while i2's keeps reading; a full
\* channel of i1 holds the fan-out, and events for i2 stay in the inbox.
CONSTANTS
    i1 = i1
    i2 = i2
    i3 = i3
    n1 = n1
    c1 = c1
    c2 = c2
    Intents = {i1, i2}
    Detached = {}
    Continuous = {i2}
    InitialQueue <- MCInitialQueue
    Namespaces = {n1}
    Cells = {c1, c2}
    InitSpec <- MCInitSpec
    AddSpecs = {}
    Unauthorised = Unauthorised
    SessionEvents <- MCSessionEvents
    NoNamespace = NoNamespace
    NoIntent = NoIntent
    EventCap = 1
    UpdateCap = 1
    MaxInputs = 3
    MaxUpdates = 1
    Readers = {i2}
SPECIFICATION FairSpec
PROPERTY EventsReachReaders
