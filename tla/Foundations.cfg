SPECIFICATION FoundationsSpec
CONSTANTS
  MaxLen = 3
  MaxTerm = 2
  MaxSnap = 1
  Commands = {a, b}
  Key = {1, 2, 3}
  Value = {1, 2, 3}
  MaxLevel = 2
  Header = Header
  Null = Null
  NotFound = NotFound
  Popper = {r1, r2}
  TimedPopper = {}
  Handler = {r1}
  MaxSize = 3
  Caller = {c1}
  None = None
  MaxCalls = 4
  MaxCrashes = 2
  RequestPieces = 1
  ReplyPieces = 1
  Worker = {w1}
  Fiber = {f1, f2}
  Busy = {f1}
  MaxOps = 2
  Bytes = {"", "x"}
  Int32 = {0, 1}
  MaxEntries = 2
  MaxReplies = 2
  NodeNum = 3
  Second = 20
  Lag = 1
  MinElection = 6
INVARIANTS
  MergeIsLoop
  HintIsLoop
  LevelsChained
  NoLostWakeup
  OwnReply
  ReplyComes
  ServedOnce
  OneSocket
  OneWait
  NothingLeft
  NothingHalfRead
  ReadsAsMerged
  OnlyRepliesCount
  ListsComplete
  NotCalledEarly
PROPERTIES
  IsMap
  PopEnds
  TimedPopEnds
  CallReturns
  RunsAgain
  StopReturns
CHECK_DEADLOCK FALSE
