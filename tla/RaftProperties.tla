--------------------------- MODULE RaftProperties ---------------------------
(***************************************************************************)
(* What Raft promises, and what raft.cpp's comments and assertions say.    *)
(***************************************************************************)
EXTENDS Raft

Term == Nat
Index == Nat
Entries == Seq(LogEntry(Command))
Status == {"Follower", "Candidate", "Leader"}
Assertion == {"replyTerm", "leaderTwice", "nextIndex", "matchLog", "commandsDiffer",
              "sentToEnd", "appended", "commitInLog", "nextPastEnd", "commitPastEnd",
              "commitPastLog", "applyIndex", "snapshotLength"}

VoteThreads ==
  [src : Server, dst : Server, election : Nat,
   pc : {"call", "reply", "stepdown", "equal", "store", "test", "won", "lead", "reset", "done"},
   term : Term, lastIndex : Index, lastTerm : Term, replyTerm : Term, granted : BOOLEAN, seen : Nat]
AppendThreads ==
  [src : Server, dst : Server, round : Nat, pc : {"call", "reply", "counted"}, term : Term,
   prev : Index, prevTerm : Term, entries : Entries, commit : Index,
   replyTerm : Term, success : BOOLEAN, hint : Nat \cup {-100}]
SnapshotThreads ==
  [src : Server, dst : Server, round : Nat, pc : {"spawned", "call", "reply"},
   term : Term, index : Index, snapTerm : Term, replyTerm : Term]

\* Every variable has its type: the members of Raft and the threads' locals.
TypeOK ==
  /\ failed \in [Server -> SUBSET Assertion]
  /\ currentTerm \in [Server -> Term]
  /\ votedFor \in [Server -> Server \cup {NoVote}]
  /\ status \in [Server -> Status]
  /\ logs \in [Server -> Entries]
  /\ snapIndex \in [Server -> Index]
  /\ snapTerm \in [Server -> Term]
  /\ commitIndex \in [Server -> Index]
  /\ lastApplied \in [Server -> Index]
  /\ nextIndex \in [Server -> [Server -> Index]]
  /\ matchIndex \in [Server -> [Server -> Index]]
  /\ votedNum \in [Server -> Seq(Nat)]
  /\ appendNums \in [Server -> Seq(Nat)]
  /\ rv \subseteq VoteThreads
  /\ ae \subseteq AppendThreads
  /\ is \subseteq SnapshotThreads

\* The k-th entry kept after the snapshot is the one of index snapIndex + k, and
\* the indexes never cross: the snapshot is applied, what is applied is committed,
\* what is committed is in the log.  This is what the subscripts of m_logs in
\* getSlicesIndexFromLogIndex rely on.
LogIndexed(i) == \A k \in DOMAIN logs[i] : logs[i][k].index = snapIndex[i] + k
IndexChain ==
  \A i \in Server :
     /\ LogIndexed(i)
     /\ snapIndex[i] <= lastApplied[i]
     /\ lastApplied[i] <= commitIndex[i]
     /\ commitIndex[i] <= LastIndex(i)

\* The assertions of raft.cpp that do hold never fail: the ones on what was
\* appended, committed, applied, sent and cut (lines 79, 87, 183, 203, 346, 744,
\* 748 and 950).
AssertionsHold ==
  \A i \in Server :
     failed[i] \cap {"sentToEnd", "appended", "commitInLog", "nextPastEnd", "commitPastEnd",
                     "commitPastLog", "applyIndex", "snapshotLength"} = {}

\* m_matchIndex never claims more than the peer's log holds, however late, stale
\* or reordered the replies are.
MatchIndexSound ==
  \A i, j \in Server : Running(i) /\ Running(j) => matchIndex[i][j] <= LastIndex(j)

\* A commit index is never ahead of what a majority of the logs reaches: the
\* shared appendNums counter of a round cannot count a reply twice, nor replies
\* to rounds that sent less.
Holders(n) == {j \in Server : LastIndex(j) >= n}
CommitOnMajority ==
  \A i \in Server : commitIndex[i] > 0 => Cardinality(Holders(commitIndex[i])) >= Majority

\* A leader owes its status to one election: a majority of the cluster, itself
\* included, granted it, even with the increments of *votedNum racing.
Grants(i, e) == {t.dst : t \in {u \in rv : u.src = i /\ u.election = e /\ u.granted}}
LeaderBacked ==
  \A i \in Server : status[i] = "Leader" =>
     \E e \in DOMAIN votedNum[i] : Cardinality(Grants(i, e)) + 1 >= Majority

\* Indexes never move backwards: an index that Start returned is never given to
\* another command by the same node, and nothing is applied twice.
NeverBackwards ==
  [][\A i \in Server :
       /\ LastIndex(i)' >= LastIndex(i)
       /\ commitIndex'[i] >= commitIndex[i]
       /\ lastApplied'[i] >= lastApplied[i]
       /\ snapIndex'[i] >= snapIndex[i]]_vars

\* With no more than one candidate ever, however many elections it starts, all logs
\* agree wherever they overlap and none is ahead of the candidate's.
Candidates == {i \in Server : Len(votedNum[i]) > 0}
EntryAt(i, n) == logs[i][n - snapIndex[i]]
FollowsLeader ==
  \A i \in Server : Candidates = {i} =>
     \A j \in Server :
        /\ LastIndex(j) <= LastIndex(i)
        /\ \A n \in Max2(snapIndex[i], snapIndex[j]) + 1 .. LastIndex(j) :
              EntryAt(j, n) = EntryAt(i, n)

-----------------------------------------------------------------------------
(* The inductive invariant behind IndexChain and AssertionsHold: what the    *)
(* arguments and replies in flight say of the logs.                          *)

\* A thread's counter exists.
CountersExist ==
  /\ \A t \in rv : t.election \in DOMAIN votedNum[t.src]
  /\ \A m \in ae : m.round \in DOMAIN appendNums[m.src]

\* What was sent is in the sender's log and numbered from prev, and no hint asks
\* for more than prev.
AppendsInLog ==
  \A m \in ae :
     /\ m.prev + Len(m.entries) <= LastIndex(m.src)
     /\ \A k \in DOMAIN m.entries : m.entries[k].index = m.prev + k
     /\ m.hint <= m.prev

SnapshotsTaken == \A s \in is : s.index <= snapIndex[s.src]

\* A node never expects of a peer more than its own log.
PeersInLog ==
  \A i, j \in Server :
     /\ nextIndex[i][j] <= LastIndex(i) + 1
     /\ matchIndex[i][j] <= LastIndex(i)

\* All of it together; each step preserves it.
IInv ==
  /\ TypeOK
  /\ IndexChain
  /\ CountersExist
  /\ AppendsInLog
  /\ SnapshotsTaken
  /\ PeersInLog
  /\ AssertionsHold

-----------------------------------------------------------------------------
(* What the comments and assertions say and the code does not do. *)

\* raft.cpp:294: prev is never below the receiver's snapshot.
PrevNotBelowSnapshot == \A i \in Server : "matchLog" \notin failed[i]
\* raft.cpp:481 and 896: the vote of a term is used once.
OneVotePerTerm ==
  [][\A i \in Server : votedFor[i] # NoVote /\ currentTerm'[i] = currentTerm[i]
       => votedFor'[i] = votedFor[i]]_vars
=============================================================================
