SPECIFICATION Spec
CONSTANTS
  s1 = s1
  s2 = s2
  s3 = s3
  Server = {s1, s2, s3}
  Command = {a}
  NoVote = NoVote
  MaxElections <- OnceS1S2
  MaxRounds <- TwoAndOne
  MaxLogIndex = 2
  SnapshotAt = {1}
CONSTRAINT LeadersScope
INVARIANTS
  FollowsLeader
  LeaderBacked
  MatchIndexSound
  CommitOnMajority
