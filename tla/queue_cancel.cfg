SPECIFICATION Spec

CONSTANTS
    p1 = p1
    p2 = p2
    i1 = i1
    i2 = i2
    i3 = i3
    b1 = b1
    w1 = w1
    w2 = w2
    w3 = w3
    NoJob = NoJob
    Profiles = {p1}
    JobIds = {i1, i2}
    Backends = {b1}
    Workers = {w1, w2}
    BackendOf <- OneBackend
    Ephemeral <- SomeEphemeral
    MaxConcurrent <- OneSlot
    MaxDisconnectRetries = 0
    MaxDisconnects = 0
    MaxRestarts = 1
    MaxFaults = 0
    MaxUserCancels = 1
    MaxClientCancels = 1
    MaxUserRetries = 0

SYMMETRY WorkerSymmetry

INVARIANTS
    SlotHeld
    SlotOwned
    CapacityRespected
