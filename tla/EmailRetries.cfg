CONSTANTS
    m1 = m1  m2 = m2  p1 = p1  p2 = p2
    Mails = {m1, m2}
    Scheduled = {m1}
    Procs = {p1, p2}
    QueueAvailable = TRUE
    CancelAllowed = TRUE
    Attempts = 3
    MaxStalls = 1
    MaxFaults = 1
SPECIFICATION Spec
INVARIANTS TypeOK AtMostOneCall OutcomeIsReal CallAccounting
PROPERTY OutcomeIsFinal
SYMMETRY ProcSymmetry
CHECK_DEADLOCK FALSE
