SPECIFICATION LateSpec
CONSTANTS
  s1 = s1
  s2 = s2
  c1 = c1
  c2 = c2
  k = k
  v1 = v1
  v2 = v2
  Server = {s1, s2}
  NoServer = NoServer
  FirstServer = s1
  MaxElections = 1
  Client = {c1}
  Key = {k}
  NoValue = NoValue
  Script <- ReadThenPut
  NextServer <- Other
  MaxAttempts <- SixEach
  MaxLogIndex = 4
  SnapshotAt = {}
PROPERTY ExecutedOnce
CHECK_DEADLOCK FALSE
