CONSTANTS
    p1 = p1  p2 = p2  f1 = f1  f2 = f2
    Rows <- OneRow
    Drains = {"user", "timer"}
    Polls = {p1, p2}
    Flushes = {f1}
    MaxFaults = 0
    MaxTimeouts = 1
SPECIFICATION Spec
INVARIANT OneWriterPerCompany
CHECK_DEADLOCK FALSE
