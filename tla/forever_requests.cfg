SPECIFICATION Spec

CONSTANTS
    c1 = c1
    c2 = c2
    c3 = c3
    b1 = b1
    b2 = b2
    j1 = j1
    j2 = j2
    j3 = j3
    s1 = s1
    s2 = s2
    s3 = s3
    None = None
    Client = {c1, c2}
    Backend = {b1}
    Job = {j1}
    Socket = {s1, s2}
    MaxRequests = 1
    MaxWaiting = 1
    MaxPosts = 1
    MaxConcurrent <- OneSlot
    Limit <- LimitOne
    Rank <- IdOrder
    Steady = {c1}
    FaultSets <- ComingsAndGoings

SYMMETRY Interchangeable

INVARIANTS
    TypeOK
    PendingMatchesReservations
    OfferStands
    DepartedHoldsNothing
