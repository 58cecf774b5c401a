CONSTANTS
    m1 = m1  m2 = m2  p1 = p1  p2 = p2
    Mails = {m1, m2}
    Scheduled = {m1}
    Procs = {p1, p2}
    QueueAvailable = FALSE
    CancelAllowed = FALSE
    Attempts = 3
    MaxStalls = 1
    MaxFaults = 0
SPECIFICATION Spec
PROPERTY EveryMailIsDecided
CHECK_DEADLOCK FALSE
