SPECIFICATION LateSpec
CONSTANTS
  s1 = s1
  s2 = s2
  c1 = c1
  c2 = c2
  k = k
  v1 = v1
  v2 = v2
  Server = {s1, s2}
  NoServer = NoServer
  FirstServer = s1
  MaxElections = 3
  Client = {c1, c2}
  Key = {k}
  NoValue = NoValue
  Script <- TwoWriters
  NextServer <- Other
  MaxAttempts <- ThreeAndTwo
  MaxLogIndex = 3
  SnapshotAt = {}
INVARIANTS
  AckedWritten
  StateIsLog
  ChannelOwned
CHECK_DEADLOCK FALSE
