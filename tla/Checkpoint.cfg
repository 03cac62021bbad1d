SPECIFICATION LiveSpec
CONSTANTS
    Node = {"S", "L", "A"}
    SM = {"a", "b"}
    SMOf <- MCSMOf
    StartAt <- MCStartAt
    Interval = 2
    Hold = 0
    Cleaners = {"S"}
    Replayers = {"S"}
    Faulty = {"S", "L"}
    MaxInstance = 3
    MaxEvents = 1
    SMList <- MCSMList
    BlocksOf <- MCBlocksOf
    Lead = 1
    MaxAsks = 2
INVARIANTS OnlyMinMissing RecoversWhole TransferInv
PROPERTIES SendsFrozen SendersEnd
CHECK_DEADLOCK FALSE
CONSTRAINT MCBound
