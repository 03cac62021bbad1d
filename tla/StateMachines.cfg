SPECIFICATION Spec
CONSTANTS
  a = a
  b = b
  c = c
  Node = {a, b, c}
  None = None
  Lease = 2
  Margin = 1
  Founders = {a, b}
  Change <- Changes
  Candidates = {a,b}
  Starters = {a}
  Senders = {c}
  Lagging = {b}
  Faulty = {a, b, c}
  Late = {a}
  Gap = 1
  MaxRetries = 1
  MaxLog = 4
  MaxRequests = 2
  MaxFaults = 1
  MaxSends = 1
  MaxLag = 1
INVARIANTS OneMaster VariablesAreLog NoLostChange
CHECK_DEADLOCK FALSE
