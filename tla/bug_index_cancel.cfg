SPECIFICATION Spec
CONSTANTS
    NumItems = 3
    Runs = {r1}
    PageSize = 1
    WriteChunk = 2
    MaxPages = 3
    DuringFull = {}
    DuringNewest = {}
    MaxChanges = 0
    Ops = {"start", "cancel"}
    FaultKinds = {}
    MaxFaults = 0
    None = None
PROPERTIES
    CanceledRemovesNone
