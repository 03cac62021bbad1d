SPECIFICATION Spec
CONSTANTS
    FileSize = 9
    HeaderLen = 2
    Sizes = {4, 5}
    Sync = {TRUE, FALSE}
    MaxFile = 1
    MaxInstance = 1
    MaxWrites = 3
    KeysSet = {"system"}
    MaxEvents = 2
    Clearing = 1
INVARIANTS
    FilesInv
    ReadBack
    VariablesKept
CHECK_DEADLOCK FALSE
