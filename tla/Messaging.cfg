SPECIFICATION LiveSpec
CONSTANTS
  MaxConn = 2
  HeadLen = 2
  BodyLen = 2
  Buffer = 2
  MaxMsg = 4
  MaxQueue = 0
  MaxMem = 2
  MaxInQ = 0
  MaxInMem = 0
  MaxUdpQ = 0
  MaxFaults = 1
  Datagrams = {2}
  Oversize = {1}
INVARIANTS FramesAligned HeardOnce LoopInv
PROPERTIES Drained
CHECK_DEADLOCK FALSE
