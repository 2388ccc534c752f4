SPECIFICATION MCSpec
CONSTANTS
    NumItems = 4
    Runs = {r1}
    PageSize = 1
    WriteChunk = 2
    MaxPages = 3
    DuringFull = {"add", "modify"}
    DuringNewest = {"add", "modify", "remove"}
    MaxChanges = 3
    Ops = {"start", "cancel"}
    FaultKinds = {"crash", "error"}
    MaxFaults = 1
    None = None
INVARIANTS
    TypeOK
    FindableAtRest
PROPERTIES
    NoFalseRemoval
    NoGhosts
