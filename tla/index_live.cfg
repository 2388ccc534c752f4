SPECIFICATION FairSpec
CONSTANTS
    NumItems = 3
    Runs = {r1}
    PageSize = 1
    WriteChunk = 2
    MaxPages = 3
    DuringFull = {"add", "modify", "remove"}
    DuringNewest = {"add", "modify", "remove"}
    MaxChanges = 2
    Ops = {"start", "cancel"}
    FaultKinds = {"crash", "error"}
    MaxFaults = 1
    None = None
PROPERTIES
    Converges
