SPECIFICATION UnconnectedSpec
CONSTANTS
  Caller = {c1, c2}
  None = None
  MaxCalls = 1
  MaxCrashes = 0
  RequestPieces = 1
  ReplyPieces = 1
INVARIANT ReplyComes
CHECK_DEADLOCK FALSE
