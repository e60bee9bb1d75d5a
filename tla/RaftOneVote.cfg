SPECIFICATION Spec
CONSTANTS
  s1 = s1
  s2 = s2
  s3 = s3
  Server = {s1, s2}
  Command = {a}
  NoVote = NoVote
  MaxElections <- OneEach
  MaxRounds <- NoneEach
  MaxLogIndex = 0
  SnapshotAt = {}
PROPERTY OneVotePerTerm
