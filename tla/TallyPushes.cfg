CONSTANTS
    p1 = p1  p2 = p2  f1 = f1  f2 = f2
    Rows <- OneRow
    Drains = {"user", "timer"}
    Polls = {p1, p2}
    Flushes = {f1}
    MaxFaults = 1
    MaxTimeouts = 2
SPECIFICATION Spec
INVARIANTS TypeOK ProcessedIsAnswered KeptUntilAnswered OutcomesAgree
PROPERTIES ImplementsClaimedWork EveryPushIsDecided
CHECK_DEADLOCK FALSE
