SPECIFICATION LiveSpec
CONSTANTS
    Node <- Three
    None = None
    SenderLead = 2
    ReceiverLead = 1
    Askers = {2, 3}
    CrashNodes = {2}
    Link <- StarLink
    MaxInstance = 4
    Setups <- FarOrBoth
INVARIANTS
    SenderInv
PROPERTIES
    SessionStable
    CatchesUp
CHECK_DEADLOCK FALSE
