------------------------------- MODULE MCRaft -------------------------------
(* Instances of Raft for TLC: two or three servers with budgets of elections  *)
(* and rounds per server.                                                      *)
EXTENDS RaftProperties, TLC

CONSTANTS s1, s2, s3

\* No definition names a command.
CommandSymmetry == Permutations(Command)

\* Budgets of elections and rounds.
NoneEach  == [i \in Server |-> 0]
OneEach   == [i \in Server |-> 1]
OnceS1S2  == [i \in Server |-> IF i = s3 THEN 0 ELSE 1]
TwoAndOne == [i \in Server |-> IF i = s1 THEN 2 ELSE IF i = s2 THEN 1 ELSE 0]

\* Three servers: s1 leads through two rounds and a snapshot; or s2 takes over, within
\* one round of s1, without a snapshot, and after an election of s1 in which nothing
\* was lost and the second vote came after the counter went back to 0.
Granted(j, votes) ==
  [src |-> s1, dst |-> j, election |-> 1, pc |-> "done", term |-> 1, lastIndex |-> 0,
   lastTerm |-> 0, replyTerm |-> 1, granted |-> TRUE, seen |-> votes]
Successor ==
  /\ {Granted(s2, 1), Granted(s3, 0)} \subseteq rv
  /\ Len(appendNums[s1]) <= 1
  /\ \A i \in Server : snapIndex[i] = 0
LeadersScope == Len(votedNum[s2]) > 0 => Successor
=============================================================================
