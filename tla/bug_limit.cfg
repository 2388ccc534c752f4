SPECIFICATION Spec
CONSTANTS
    NumJobs = 3
    Runs = {r1, r2, r3, r4}
    Callers = {c1}
    Ops = {}
    MaxConcurrent = 2
    MaxAttempts = 2
    FaultKinds = {}
    MaxFaults = 0
    MaxCopies = 1
    MaxLate = 0
    None = None
SYMMETRY Symmetry
INVARIANTS
    TransferLimit
