SPECIFICATION FairSpec
CONSTANTS
    NumJobs = 2
    Runs = {r1}
    Callers = {c1}
    Ops = {"cancel"}
    MaxConcurrent = 1
    MaxAttempts = 2
    FaultKinds = {"crash"}
    MaxFaults = 1
    MaxCopies = 1
    MaxLate = 1
    None = None
PROPERTIES
    Settles
    NoOrphanForever
