CONSTANTS
    NumEq = 4
    Concurrency = 2
    Pick = {p1, p2}
    Request = {r1}
    Task = {1, 2, 3, 4, 5}
    Scenarios <- Circumstances
SPECIFICATION FairSpec
CHECK_DEADLOCK FALSE
INVARIANTS TypeOK CompletedIsCurrent DurableAgrees TasksAreTrue 
PROPERTIES EveryReadyEquationSettles
