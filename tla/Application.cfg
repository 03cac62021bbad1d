SPECIFICATION LiveSpec
CONSTANTS
  Key = {k}
  None = None
  MaxSkips = 1
  Caller = {b1, b2}
  Batcher = Batcher
  Big = {}
  MaxSize = 3
  BatchCount = 3
  MaxBatched = 1
  User = {u}
  Plain = {b2}
  Other = Other
  UserTypes = {"write", "delete"}
  OtherTypes = {"write", "delete"}
  MaxPuts = 1
  MaxOther = 1
  MaxFaults = 1
INVARIANTS StoreIsLog UsersTold CallersTold
PROPERTIES CallsReturn
CHECK_DEADLOCK FALSE
