SPECIFICATION Spec
CONSTANTS
  s1 = s1
  s2 = s2
  s3 = s3
  Server = {s1, s2}
  Command = {a}
  NoVote = NoVote
  MaxElections <- OneEach
  MaxRounds <- TwoAndOne
  MaxLogIndex = 1
  SnapshotAt = {1}
INVARIANT PrevNotBelowSnapshot
CHECK_DEADLOCK FALSE
