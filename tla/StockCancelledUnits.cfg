CONSTANTS
    w1 = w1  w2 = w2
    Orders = {"A"}
    Workers = {w1}
    Quantity <- TwoEach
    Opening = 2
    BlockConfirm = FALSE
    ActiveIndex = TRUE
    Kinds = {"confirm", "cancel", "ship", "drop", "backorder", "reverse", "rebuild"}
    MaxRequests = 4
    MaxCrashes = 0
SPECIFICATION Spec
INVARIANT ReservedIsOpen
CHECK_DEADLOCK FALSE
