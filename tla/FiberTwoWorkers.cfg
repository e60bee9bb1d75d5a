SPECIFICATION FoundationsSpec
CONSTANTS
  MaxLen = 1
  MaxTerm = 1
  MaxSnap = 1
  Commands = {a}
  Key = {1}
  Value = {1}
  MaxLevel = 1
  Header = Header
  Null = Null
  NotFound = NotFound
  Popper = {r1}
  TimedPopper = {}
  Handler = {r1}
  MaxSize = 1
  Caller = {c1}
  None = None
  MaxCalls = 1
  MaxCrashes = 0
  RequestPieces = 1
  ReplyPieces = 1
  Worker = {w1, w2}
  Fiber = {f1}
  Busy = {}
  MaxOps = 1
  Bytes = {""}
  Int32 = {0}
  MaxEntries = 0
  MaxReplies = 1
  NodeNum = 1
  Second = 20
  Lag = 1
  MinElection = 6
INVARIANT TakesReady
CHECK_DEADLOCK FALSE
