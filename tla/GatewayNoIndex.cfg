CONSTANTS
    Sessions = {"s1"}
    Invoices = {"inv"}
    Target <- OneInvoice
    Amount <- AllThatWasDue
    Total <- TwoInAll
    Events <- BothSuccesses
    Copies = {1, 2}
    Workers = {"w1", "w2"}
    MaxCrashes = 0
SPECIFICATION Spec
INVARIANT OnePaymentPerCharge
CHECK_DEADLOCK FALSE
