\* The race of an AddInterests update with the fan-out that completes its
\* intent: i1 (ReconcileOnce, {c1}) adds {c2} while Reconciled {c1} is
\* being delivered.
\* construction, i2 (Continuous, wide) arrives through the inbox.
CONSTANTS
    i1 = i1
    i2 = i2
    i3 = i3
    n1 = n1
    c1 = c1
    c2 = c2
    Intents = {i1, i2}
    Detached = {}
    Continuous = {i2}
    InitialQueue <- MCInitialQueue
    Namespaces = {n1}
    Cells = {c1, c2}
    InitSpec <- MCInitSpec
    AddSpecs <- MCAddSpecs
    Unauthorised = Unauthorised
    SessionEvents <- MCSessionEvents
    NoNamespace = NoNamespace
    NoIntent = NoIntent
    EventCap = 1
    UpdateCap = 1
    MaxInputs = 3
    MaxUpdates = 1
    Readers = {}
SPECIFICATION Spec
INVARIANT AcceptedInterestsApplied
