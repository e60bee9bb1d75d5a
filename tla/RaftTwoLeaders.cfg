SPECIFICATION Spec
CONSTANTS
  s1 = s1
  s2 = s2
  s3 = s3
  Server = {s1, s2}
  Command = {a, b}
  NoVote = NoVote
  MaxElections <- OneEach
  MaxRounds <- TwoAndOne
  MaxLogIndex = 2
  SnapshotAt = {1}
SYMMETRY CommandSymmetry
INVARIANTS
  TypeOK
  IndexChain
  IInv
  AssertionsHold
  MatchIndexSound
PROPERTY NeverBackwards
CHECK_DEADLOCK FALSE
