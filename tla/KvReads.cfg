SPECIFICATION ReadsSpec
CONSTANTS
  s1 = s1
  s2 = s2
  c1 = c1
  c2 = c2
  k = k
  v1 = v1
  v2 = v2
  Server = {s1, s2}
  NoServer = NoServer
  FirstServer = s1
  MaxElections = 2
  Client = {c1, c2}
  Key = {k}
  NoValue = NoValue
  Script <- WriterReader
  NextServer <- Other
  MaxAttempts <- FourAndTwo
  MaxLogIndex = 3
  SnapshotAt = {3}
CONSTRAINT ReadsScope
INVARIANT FreshRead
PROPERTY NeverOlder
CHECK_DEADLOCK FALSE
