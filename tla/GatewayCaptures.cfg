CONSTANTS
    Sessions = {"s1", "s2"}
    Invoices = {"inv"}
    Target <- OneInvoice
    Amount <- AllThatWasDue
    Total <- TwoInAll
    Events <- TwoCheckouts
    Copies = {1}
    Workers = {"w1", "w2"}
    MaxCrashes = 1
SPECIFICATION Spec
INVARIANTS TypeOK ProcessedIsBooked DueNeverTooLow
PROPERTIES ImplementsLifecycle EveryChargeSettles
CHECK_DEADLOCK FALSE
