CONSTANTS
    w1 = w1  w2 = w2
    Orders = {"A", "B"}
    Workers = {w1}
    Quantity <- TwoEach
    Opening = 3
    BlockConfirm = FALSE
    ActiveIndex = TRUE
    Kinds = {"confirm", "cancel", "ship", "drop", "backorder", "reverse", "rebuild"}
    MaxRequests = 5
    MaxCrashes = 0
SPECIFICATION Spec
INVARIANTS TypeOK RestIsConsistent ClosedReservesNothing
PROPERTIES ReservedFromStock ImplementsStockLevel
CHECK_DEADLOCK FALSE
