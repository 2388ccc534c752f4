SPECIFICATION Spec
CONSTANTS
    NumJobs = 2
    Runs = {r1, r2}
    Callers = {c1}
    Ops = {"cancel", "retry"}
    MaxConcurrent = 1
    MaxAttempts = 2
    FaultKinds = {"crash"}
    MaxFaults = 1
    MaxCopies = 1
    MaxLate = 100
    None = None
SYMMETRY Symmetry
VIEW WithoutLate
INVARIANTS
    TypeOK
    TransferLimit
    Tracked
    SpoolHeld
