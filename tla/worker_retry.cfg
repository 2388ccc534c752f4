SPECIFICATION Spec
CONSTANTS
    NumJobs = 1
    Runs = {r1, r2}
    Callers = {c1, c2}
    Ops = {"clear", "retry"}
    MaxConcurrent = 2
    MaxAttempts = 2
    FaultKinds = {"crash", "lostAnswer", "dbError"}
    MaxFaults = 2
    MaxCopies = 5
    MaxLate = 1
    None = None
SYMMETRY Symmetry
INVARIANTS
    AttemptsLeft
    OneCopyPerFault
PROPERTIES
    
    Lifecycle
