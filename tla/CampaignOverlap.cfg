CONSTANTS
    r1 = r1  r2 = r2  r3 = r3  s1 = s1  s2 = s2
    Recipients <- TwoRecipients
    Rejectable = {r2}
    Sends = {s1, s2}
    ChunkSize = 2
    SnapshotBatch = 2
    MaxAttempts = 1
    MaxStalls = 1
    InitialCredits = 3
    ForceOptions = {FALSE, TRUE}
    UserTargets = {}
    OrgSlots = 1
    PatientUser = FALSE
    MaxCrashes = 0
    MaxThrows = 1
    MaxAmdsFailures = 0
    MaxPolicyChanges = 1
    MaxChunks = 2
SPECIFICATION Spec
INVARIANTS ChunkRecordsFacts QueuedRowsWereSubmitted SentOnlyIfAccepted NoOverdraft
           SuppressedHadUnsubscribed
SYMMETRY SendSymmetry
CHECK_DEADLOCK FALSE
