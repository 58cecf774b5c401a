CONSTANTS
    r1 = r1  r2 = r2  r3 = r3  s1 = s1  s2 = s2
    Recipients <- ThreeRecipients
    Rejectable = {r3}
    Sends = {s1, s2}
    ChunkSize = 2
    SnapshotBatch = 2
    MaxAttempts = 3
    MaxStalls = 1
    InitialCredits = 9
    ForceOptions = {FALSE}
    UserTargets = {"cancelled"}
    OrgSlots = 1
    PatientUser = TRUE
    MaxCrashes = 2
    MaxThrows = 0
    MaxAmdsFailures = 2
    MaxPolicyChanges = 0
    MaxChunks = 9
SPECIFICATION Spec
INVARIANTS TypeOK CompletedCoversAudience StatsNeverOvercount CompletedSettlesCredits
PROPERTIES NeverResubmitQueued EverySendEnds
CHECK_DEADLOCK FALSE
