SPECIFICATION LiveSpec
CONSTANTS
    a = a
    b = b
    f = f
    Node = {a, b, f}
    None = None
    Founders = {a}
    Newcomer = {b}
    FollowTo <- Follows
    Change <- Changes
    RestartNodes = {a, f}
    Gap = 1
    MaxLog = 3
    MaxRounds = 4
    MaxFaults = 1
INVARIANTS
    SameOrder
    NodeInv
PROPERTIES
    NewcomerLearns
    FollowerLearns
CHECK_DEADLOCK FALSE
