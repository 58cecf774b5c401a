CONSTANTS
    w1 = w1  w2 = w2
    Orders = {"A"}
    Workers = {w1, w2}
    Quantity <- TwoEach
    Opening = 2
    BlockConfirm = TRUE
    ActiveIndex = TRUE
    Kinds = {"confirm", "cancel", "ship", "drop", "rebuild"}
    MaxRequests = 4
    MaxCrashes = 1
SPECIFICATION Spec
INVARIANTS FulfilledIsIssued NoConsumptionLost
PROPERTY RebuildRepairs
SYMMETRY WorkerSymmetry
CHECK_DEADLOCK FALSE
