-------------------------------- MODULE Raft --------------------------------
(***************************************************************************)
(* The consensus core, raft.cpp: every server is one process; RPCs run in  *)
(* threads of the calling process, one per peer and round.  A handler that *)
(* holds m_mtx is one step.  sendRequestVote runs without the mutex, so it *)
(* is split where it reads and writes the shared members.  An RPC whose    *)
(* thread never moves again is a lost message; a thread's reply is assumed *)
(* to be its own, which mprpcchannel.cpp does not ensure.                  *)
(* myAssert(false, ...) calls exit: the process of that server is gone.    *)
(***************************************************************************)
EXTENDS RaftLog, FiniteSets

CONSTANTS
  Server,       \* the processes of the cluster (m_peers with this node)
  Command,      \* client commands, Op.asString()
  NoVote,       \* the -1 of m_votedFor
  MaxElections, \* bound: doElection calls of each server
  MaxRounds,    \* bound: doHeartBeat rounds of each server
  MaxLogIndex,  \* bound: last index Start may create
  SnapshotAt    \* bound: indexes at which the KvServer asks for a snapshot

ASSUME ServerAssumption == IsFiniteSet(Server) /\ NoVote \notin Server
ASSUME BoundsAssumption ==
  /\ MaxElections \in [Server -> Nat]
  /\ MaxRounds \in [Server -> Nat]
  /\ MaxLogIndex \in Nat
  /\ SnapshotAt \subseteq Nat

VARIABLES
  failed,       \* assertions of the server's process that failed: {} while it runs
  currentTerm, votedFor, status,
  logs, snapIndex, snapTerm,
  commitIndex, lastApplied,
  nextIndex, matchIndex,
  votedNum,     \* votedNum[i][e]: the counter the threads of i's e-th election share
  appendNums,   \* appendNums[i][r]: the counter the threads of i's r-th round share
  rv, ae, is    \* the threads of sendRequestVote, sendAppendEntries, leaderSendSnapShot

electionVars == <<currentTerm, votedFor, status>>
logVars      == <<logs, snapIndex, snapTerm>>
applyVars    == <<commitIndex, lastApplied>>
leaderVars   == <<nextIndex, matchIndex>>
vars == <<failed, electionVars, logVars, applyVars, leaderVars, votedNum, appendNums, rv, ae, is>>

Majority == Cardinality(Server) \div 2 + 1
LastIndex(i) == LastLogIndex(logs[i], snapIndex[i])
LastTerm(i)  == LastLogTerm(logs[i], snapTerm[i])
Running(i)   == failed[i] = {}

\* myAssert: the name of the assertion when its condition is false.
Unless(cond, name) == IF cond THEN {} ELSE {name}
Exit(i, names) == failed' = [failed EXCEPT ![i] = names]

Min2(a, b) == IF a <= b THEN a ELSE b
Max2(a, b) == IF a >= b THEN a ELSE b

Init ==
  /\ failed = [i \in Server |-> {}]
  /\ currentTerm = [i \in Server |-> 0]
  /\ votedFor = [i \in Server |-> NoVote]
  /\ status = [i \in Server |-> "Follower"]
  /\ logs = [i \in Server |-> <<>>]
  /\ snapIndex = [i \in Server |-> 0]
  /\ snapTerm = [i \in Server |-> 0]
  /\ commitIndex = [i \in Server |-> 0]
  /\ lastApplied = [i \in Server |-> 0]
  /\ nextIndex = [i \in Server |-> [j \in Server |-> 0]]
  /\ matchIndex = [i \in Server |-> [j \in Server |-> 0]]
  /\ votedNum = [i \in Server |-> <<>>]
  /\ appendNums = [i \in Server |-> <<>>]
  /\ rv = {} /\ ae = {} /\ is = {}

-----------------------------------------------------------------------------
(* A thread at label pc; with no pc left it ends. *)
MoveRV(t, pc) == rv' = (rv \ {t}) \cup {[t EXCEPT !.pc = pc]}
EndRV(t)      == rv' = rv \ {t}

\* The election timer of i fires: a new term, a vote for itself, one thread per peer.
DoElection(i) ==
  /\ Running(i) /\ status[i] # "Leader"
  /\ Len(votedNum[i]) < MaxElections[i]
  /\ status' = [status EXCEPT ![i] = "Candidate"]
  /\ currentTerm' = [currentTerm EXCEPT ![i] = @ + 1]
  /\ votedFor' = [votedFor EXCEPT ![i] = i]
  /\ votedNum' = [votedNum EXCEPT ![i] = Append(@, 1)]
  /\ rv' = rv \cup
       {[src |-> i, dst |-> j, election |-> Len(votedNum[i]) + 1, pc |-> "call",
         term |-> currentTerm[i] + 1, lastIndex |-> LastIndex(i), lastTerm |-> LastTerm(i),
         replyTerm |-> 0, granted |-> FALSE, seen |-> 0] : j \in Server \ {i}}
  /\ UNCHANGED <<failed, logVars, applyVars, leaderVars, appendNums, ae, is>>

\* Adopting the term of a request, in every handler.
NewTerm(i, term) == term > currentTerm[i]
AdoptTerm(i, term) ==
  /\ currentTerm' = [currentTerm EXCEPT ![i] = term]
  /\ votedFor' = IF NewTerm(i, term) THEN [votedFor EXCEPT ![i] = NoVote] ELSE votedFor
  /\ status' = [status EXCEPT ![i] = "Follower"]

AnswerRV(t, term, granted) ==
  rv' = (rv \ {t}) \cup {[t EXCEPT !.pc = "reply", !.replyTerm = term, !.granted = granted]}

\* RequestVote grants every candidate whose log is up to date: it assigns
\* m_votedFor and never looks at it.
RequestVote(t) ==
  LET i == t.dst
      grant == UpToDate(logs[i], snapIndex[i], snapTerm[i], t.lastIndex, t.lastTerm)
  IN /\ t.pc = "call" /\ Running(i)
     /\ IF t.term < currentTerm[i]
        THEN AnswerRV(t, currentTerm[i], FALSE) /\ UNCHANGED electionVars
        ELSE /\ currentTerm' = [currentTerm EXCEPT ![i] = t.term]
             /\ status' = IF NewTerm(i, t.term) THEN [status EXCEPT ![i] = "Follower"] ELSE status
             /\ votedFor' = [votedFor EXCEPT ![i] = IF grant THEN t.src
                                                    ELSE IF NewTerm(i, t.term) THEN NoVote ELSE @]
             /\ AnswerRV(t, t.term, grant)
     /\ UNCHANGED <<failed, logVars, applyVars, leaderVars, votedNum, appendNums, ae, is>>

\* The two comparisons of the reply's term with m_currentTerm (no lock held).
VoteReplyTerm(t) ==
  LET i == t.src
  IN /\ t.pc = "reply" /\ Running(i)
     /\ CASE t.replyTerm > currentTerm[i] -> MoveRV(t, "stepdown")
          [] t.replyTerm < currentTerm[i] -> EndRV(t)
          [] OTHER                        -> MoveRV(t, "equal")
     /\ UNCHANGED <<failed, electionVars, logVars, applyVars, leaderVars, votedNum, appendNums, ae, is>>

\* The assignments come after the comparison: m_currentTerm may have moved on.
VoteStepDown(t) ==
  LET i == t.src
  IN /\ t.pc = "stepdown" /\ Running(i)
     /\ status' = [status EXCEPT ![i] = "Follower"]
     /\ currentTerm' = [currentTerm EXCEPT ![i] = t.replyTerm]
     /\ votedFor' = [votedFor EXCEPT ![i] = NoVote]
     /\ EndRV(t)
     /\ UNCHANGED <<failed, logVars, applyVars, leaderVars, votedNum, appendNums, ae, is>>

\* The assertion that the terms are equal, the vote, and the load of *votedNum.
VoteLoadMutant(t) ==
  /\ t.pc = "equal" /\ Running(t.src)
  /\ Exit(t.src, Unless(t.replyTerm = currentTerm[t.src], "replyTerm"))
  /\ rv' = (rv \ {t}) \cup {[t EXCEPT !.pc = "store", !.seen = votedNum[t.src][t.election]]}
  /\ UNCHANGED <<electionVars, logVars, applyVars, leaderVars, votedNum, appendNums, ae, is>>
VoteLoad(t) ==
  LET i == t.src
  IN /\ t.pc = "equal" /\ Running(i)
     /\ Exit(i, Unless(t.replyTerm = currentTerm[i], "replyTerm"))
     /\ rv' = (rv \ {t}) \cup
              (IF t.granted THEN {[t EXCEPT !.pc = "store", !.seen = votedNum[i][t.election]]} ELSE {})
     /\ UNCHANGED <<electionVars, logVars, applyVars, leaderVars, votedNum, appendNums, ae, is>>

\* The store of *votedNum + 1: an increment of another thread in between is lost.
VoteStore(t) ==
  /\ t.pc = "store" /\ Running(t.src)
  /\ votedNum' = [votedNum EXCEPT ![t.src][t.election] = t.seen + 1]
  /\ MoveRV(t, "test")
  /\ UNCHANGED <<failed, electionVars, logVars, applyVars, leaderVars, appendNums, ae, is>>

VoteTest(t) ==
  /\ t.pc = "test" /\ Running(t.src)
  /\ MoveRV(t, IF votedNum[t.src][t.election] < Majority THEN "done" ELSE "won")
  /\ UNCHANGED <<failed, electionVars, logVars, applyVars, leaderVars, votedNum, appendNums, ae, is>>

\* A majority: the counter is reset and the node must not be a leader already.
VoteWon(t) ==
  /\ t.pc = "won" /\ Running(t.src)
  /\ votedNum' = [votedNum EXCEPT ![t.src][t.election] = 0]
  /\ Exit(t.src, Unless(status[t.src] # "Leader", "leaderTwice"))
  /\ MoveRV(t, "lead")
  /\ UNCHANGED <<electionVars, logVars, applyVars, leaderVars, appendNums, ae, is>>

\* Leader of whatever term m_currentTerm holds by now.
BecomeLeader(t) ==
  /\ t.pc = "lead" /\ Running(t.src)
  /\ status' = [status EXCEPT ![t.src] = "Leader"]
  /\ MoveRV(t, "reset")
  /\ UNCHANGED <<failed, currentTerm, votedFor, logVars, applyVars, leaderVars, votedNum, appendNums, ae, is>>

\* nextIndex and matchIndex are reset after the status is visible.  The
\* doHeartBeat thread started here is a DoHeartBeat step of its own.
ResetPeers(t) ==
  LET i == t.src
  IN /\ t.pc = "reset" /\ Running(i)
     /\ nextIndex' = [nextIndex EXCEPT ![i] = [j \in Server |-> LastIndex(i) + 1]]
     /\ matchIndex' = [matchIndex EXCEPT ![i] = [j \in Server |-> 0]]
     /\ MoveRV(t, "done")
     /\ UNCHANGED <<failed, electionVars, logVars, applyVars, votedNum, appendNums, ae, is>>

-----------------------------------------------------------------------------
\* getPrevLogInfo: the index and term before the first entry sent to j.
PrevLogIndex(i, j) == nextIndex[i][j] - 1
PrevLogTerm(i, j) == TermAt(logs[i], snapIndex[i], snapTerm[i], PrevLogIndex(i, j))
Behind(i) == {j \in Server \ {i} : nextIndex[i][j] <= snapIndex[i]}

AppendArgs(i, j) ==
  [src |-> i, dst |-> j, round |-> Len(appendNums[i]) + 1, pc |-> "call", term |-> currentTerm[i],
   prev |-> PrevLogIndex(i, j), prevTerm |-> PrevLogTerm(i, j),
   entries |-> SubSeq(logs[i], nextIndex[i][j] - snapIndex[i], Len(logs[i])),
   commit |-> commitIndex[i], replyTerm |-> 0, success |-> FALSE, hint |-> 0]

\* One round: to every peer a snapshot thread or an append thread, all sharing one
\* counter.  Nothing is sent when an assertion fails: the first peer's does.
DoHeartBeat(i) ==
  LET peers  == Server \ {i}
      lagging == Behind(i)
      sends  == {AppendArgs(i, j) : j \in peers \ lagging}
      zero == {j \in peers : nextIndex[i][j] < 1}
      faults == UNION {Unless(m.prev + Len(m.entries) = LastIndex(i), "sentToEnd") : m \in sends}
  IN /\ Running(i) /\ status[i] = "Leader"
     /\ Len(appendNums[i]) < MaxRounds[i]
     /\ IF zero # {}
        THEN Exit(i, {"nextIndex"}) /\ UNCHANGED <<appendNums, ae, is>>
        ELSE /\ Exit(i, faults)
             /\ appendNums' = [appendNums EXCEPT ![i] = Append(@, 1)]
             /\ ae' = ae \cup sends
             /\ is' = is \cup
                  {[src |-> i, dst |-> j, round |-> Len(appendNums[i]) + 1, pc |-> "spawned",
                    term |-> 0, index |-> 0, snapTerm |-> 0, replyTerm |-> 0] : j \in lagging}
     /\ UNCHANGED <<electionVars, logVars, applyVars, leaderVars, votedNum, rv>>

AnswerAE(m, term, success, hint) ==
  ae' = (ae \ {m}) \cup {[m EXCEPT !.pc = "reply", !.replyTerm = term, !.success = success, !.hint = hint]}

\* AppendEntries1, branch by branch.  AtReceiver is what the branches share.
AtReceiver(m) == m.pc = "call" /\ Running(m.dst)
Fresh(m) == AtReceiver(m) /\ m.term >= currentTerm[m.dst]

RejectOldTermMutant(m) ==
  /\ AtReceiver(m) /\ m.term < currentTerm[m.dst]
  /\ AnswerAE(m, currentTerm[m.dst], FALSE, -1)
  /\ UNCHANGED <<failed, electionVars, logVars, applyVars>>
RejectOldTerm(m) ==
  /\ AtReceiver(m) /\ m.term < currentTerm[m.dst]
  /\ AnswerAE(m, currentTerm[m.dst], FALSE, -100)
  /\ UNCHANGED <<failed, electionVars, logVars, applyVars>>

RejectGap(m) ==
  /\ Fresh(m) /\ m.prev > LastIndex(m.dst)
  /\ AdoptTerm(m.dst, m.term)
  /\ AnswerAE(m, m.term, FALSE, LastIndex(m.dst) + 1)
  /\ UNCHANGED <<failed, logVars, applyVars>>

\* prev below the snapshot: the reply is prepared but nothing returns, and
\* matchLog asserts that prev is at least the snapshot's index.
FailBelowSnapshot(m) ==
  /\ Fresh(m) /\ m.prev < snapIndex[m.dst]
  /\ Exit(m.dst, {"matchLog"})
  /\ UNCHANGED <<electionVars, logVars, applyVars, ae>>

InLog(m) == Fresh(m) /\ m.prev \in snapIndex[m.dst] .. LastIndex(m.dst)
MatchLog(m) == m.prevTerm = TermAt(logs[m.dst], snapIndex[m.dst], snapTerm[m.dst], m.prev)

RejectMismatch(m) ==
  LET i == m.dst
  IN /\ InLog(m) /\ ~MatchLog(m)
     /\ AdoptTerm(i, m.term)
     /\ \E hint \in snapIndex[i] .. m.prev :
          /\ IsConflictHint(logs[i], snapIndex[i], snapTerm[i], m.prev, hint)
          /\ AnswerAE(m, m.term, FALSE, hint)
     /\ UNCHANGED <<failed, logVars, applyVars>>

FailCommandsDiffer(m) ==
  /\ InLog(m) /\ MatchLog(m)
  /\ CommandsDiffer(logs[m.dst], snapIndex[m.dst], m.prev, m.entries)
  /\ Exit(m.dst, {"commandsDiffer"})
  /\ UNCHANGED <<electionVars, logVars, applyVars, ae>>

AcceptEntries(m) ==
  LET i == m.dst
      merged == MergeSuffix(logs[i], snapIndex[i], m.prev, m.entries)
      last == LastLogIndex(merged, snapIndex[i])
      commit == IF m.commit > commitIndex[i] THEN Min2(m.commit, last) ELSE commitIndex[i]
  IN /\ InLog(m) /\ MatchLog(m)
     /\ ~CommandsDiffer(logs[i], snapIndex[i], m.prev, m.entries)
     /\ AdoptTerm(i, m.term)
     /\ logs' = [logs EXCEPT ![i] = merged]
     /\ commitIndex' = [commitIndex EXCEPT ![i] = commit]
     /\ Exit(i, Unless(last >= m.prev + Len(m.entries), "appended")
                \cup Unless(last >= commit, "commitInLog"))
     /\ AnswerAE(m, m.term, TRUE, 0)
     /\ UNCHANGED <<snapIndex, snapTerm, lastApplied>>

AppendEntries1(m) ==
  /\ \/ RejectOldTerm(m)
     \/ RejectGap(m)
     \/ FailBelowSnapshot(m)
     \/ RejectMismatch(m)
     \/ FailCommandsDiffer(m)
     \/ AcceptEntries(m)
  /\ UNCHANGED <<leaderVars, votedNum, appendNums, rv, is>>

\* sendAppendEntries after the RPC, under the mutex, branch by branch.
AtSender(m) == m.pc = "reply" /\ Running(m.src)

\* A higher term: step down.  (This path does not persist.)
AppendStepDown(m) ==
  /\ AtSender(m) /\ m.replyTerm > currentTerm[m.src]
  /\ status' = [status EXCEPT ![m.src] = "Follower"]
  /\ currentTerm' = [currentTerm EXCEPT ![m.src] = m.replyTerm]
  /\ votedFor' = [votedFor EXCEPT ![m.src] = NoVote]
  /\ ae' = ae \ {m}
  /\ UNCHANGED <<failed, applyVars, leaderVars, appendNums>>

AppendStale(m) ==
  /\ AtSender(m) /\ m.replyTerm <= currentTerm[m.src]
  /\ m.replyTerm < currentTerm[m.src] \/ status[m.src] # "Leader"
  /\ ae' = ae \ {m}
  /\ UNCHANGED <<failed, electionVars, applyVars, leaderVars, appendNums>>

Current(m) == AtSender(m) /\ m.replyTerm = currentTerm[m.src] /\ status[m.src] = "Leader"

AppendBackUp(m) ==
  /\ Current(m) /\ ~m.success
  /\ nextIndex' = IF m.hint = -100 THEN nextIndex
                  ELSE [nextIndex EXCEPT ![m.src][m.dst] = m.hint]
  /\ ae' = ae \ {m}
  /\ UNCHANGED <<failed, electionVars, applyVars, matchIndex, appendNums>>

\* The last entry sent is of this term: only then may the leader commit it.
OfCurrentTerm(m) == m.entries # <<>> /\ m.entries[Len(m.entries)].term = currentTerm[m.src]

\* Success is about the entries that were sent, not the log the sender has by now.
SentMutant(m) == LastIndex(m.src)
Sent(m) == m.prev + Len(m.entries)

AppendCounted(m) ==
  LET i == m.src
      match == Max2(matchIndex[i][m.dst], Sent(m))
      count == appendNums[i][m.round] + 1
      commit == IF count >= Majority /\ OfCurrentTerm(m) THEN Max2(commitIndex[i], Sent(m))
                ELSE commitIndex[i]
  IN /\ Current(m) /\ m.success
     /\ matchIndex' = [matchIndex EXCEPT ![i][m.dst] = match]
     /\ nextIndex' = [nextIndex EXCEPT ![i][m.dst] = match + 1]
     /\ appendNums' = [appendNums EXCEPT ![i][m.round] = IF count >= Majority THEN 0 ELSE count]
     /\ commitIndex' = [commitIndex EXCEPT ![i] = commit]
     /\ Exit(i, Unless(match + 1 <= LastIndex(i) + 1, "nextPastEnd")
                \cup Unless(commit <= LastIndex(i), "commitPastEnd"))
     /\ ae' = (ae \ {m}) \cup {[m EXCEPT !.pc = "counted"]}
     /\ UNCHANGED <<electionVars, lastApplied>>

SendAppendEntries(m) ==
  /\ AppendStepDown(m) \/ AppendStale(m) \/ AppendBackUp(m) \/ AppendCounted(m)
  /\ UNCHANGED <<logVars, votedNum, rv, is>>

-----------------------------------------------------------------------------
\* leaderSendSnapShot builds its arguments when it gets the mutex: the sender
\* may be no leader any more, and sends the term it has by then.
SendSnapshot(s) ==
  LET i == s.src
  IN /\ s.pc = "spawned" /\ Running(i)
     /\ is' = (is \ {s}) \cup
              {[s EXCEPT !.pc = "call", !.term = currentTerm[i],
                         !.index = snapIndex[i], !.snapTerm = snapTerm[i]]}
     /\ UNCHANGED <<failed, electionVars, logVars, applyVars, leaderVars, votedNum, appendNums, rv, ae>>

AnswerIS(s, term) == is' = (is \ {s}) \cup {[s EXCEPT !.pc = "reply", !.replyTerm = term]}

RejectSnapshot(s) ==
  /\ s.term < currentTerm[s.dst]
  /\ AnswerIS(s, currentTerm[s.dst])
  /\ UNCHANGED <<electionVars, logVars, applyVars>>

\* A snapshot no newer than the one it has: the reply's term is left at 0.
KnownSnapshot(s) ==
  /\ s.term >= currentTerm[s.dst] /\ s.index <= snapIndex[s.dst]
  /\ AdoptTerm(s.dst, s.term)
  /\ AnswerIS(s, 0)
  /\ UNCHANGED <<logVars, applyVars>>

AcceptSnapshot(s) ==
  LET i == s.dst
  IN /\ s.term >= currentTerm[i] /\ s.index > snapIndex[i]
     /\ AdoptTerm(i, s.term)
     /\ logs' = [logs EXCEPT ![i] = IF LastIndex(i) > s.index
                                    THEN DropThrough(@, snapIndex[i], s.index) ELSE <<>>]
     /\ snapIndex' = [snapIndex EXCEPT ![i] = s.index]
     /\ snapTerm' = [snapTerm EXCEPT ![i] = s.snapTerm]
     /\ commitIndex' = [commitIndex EXCEPT ![i] = Max2(@, s.index)]
     /\ lastApplied' = [lastApplied EXCEPT ![i] = Max2(@, s.index)]
     /\ AnswerIS(s, s.term)

InstallSnapshot(s) ==
  /\ s.pc = "call" /\ Running(s.dst)
  /\ RejectSnapshot(s) \/ KnownSnapshot(s) \/ AcceptSnapshot(s)
  /\ UNCHANGED <<failed, leaderVars, votedNum, appendNums, rv, ae>>

\* The RPC returns: with the receiver's reply, or, when the receiver's process is
\* gone, with the default reply of term 0 that an empty read parses to.
SnapshotReturned(s) == s.pc = "reply" \/ (s.pc = "call" /\ ~Running(s.dst))

SnapshotReply(s) ==
  LET i == s.src
  IN /\ SnapshotReturned(s) /\ Running(i)
     /\ is' = is \ {s}
     /\ \/ /\ status[i] # "Leader" \/ currentTerm[i] # s.term
           /\ UNCHANGED <<electionVars, leaderVars>>
        \/ /\ status[i] = "Leader" /\ currentTerm[i] = s.term /\ s.replyTerm > s.term
           /\ AdoptTerm(i, s.replyTerm)
           /\ UNCHANGED leaderVars
        \/ /\ status[i] = "Leader" /\ currentTerm[i] = s.term /\ s.replyTerm <= s.term
           /\ matchIndex' = [matchIndex EXCEPT ![i][s.dst] = s.index]
           /\ nextIndex' = [nextIndex EXCEPT ![i][s.dst] = s.index + 1]
           /\ UNCHANGED electionVars
     /\ UNCHANGED <<failed, logVars, applyVars, votedNum, appendNums, rv, ae>>

-----------------------------------------------------------------------------
\* The KvServer hands a client's command to its own node.
Start(i, c) ==
  /\ Running(i) /\ status[i] = "Leader"
  /\ LastIndex(i) < MaxLogIndex
  /\ logs' = [logs EXCEPT ![i] =
                Append(@, [index |-> LastIndex(i) + 1, term |-> currentTerm[i], command |-> c])]
  /\ UNCHANGED <<failed, electionVars, snapIndex, snapTerm, applyVars, leaderVars,
                 votedNum, appendNums, rv, ae, is>>

\* One turn of applierTicker: getApplyLogs takes every committed entry.
ApplierTicker(i) ==
  LET at(n) == n - snapIndex[i]
  IN /\ Running(i)
     /\ Exit(i, Unless(commitIndex[i] <= LastIndex(i), "commitPastLog")
                \cup UNION {Unless(at(n) \in DOMAIN logs[i] /\ logs[i][at(n)].index = n, "applyIndex") :
                             n \in lastApplied[i] + 1 .. commitIndex[i]})
     /\ lastApplied' = [lastApplied EXCEPT ![i] = Max2(@, commitIndex[i])]
     /\ UNCHANGED <<electionVars, logVars, commitIndex, leaderVars, votedNum, appendNums, rv, ae, is>>

\* The KvServer, having applied the command at n, replaces the log up to n.
Snapshot(i, n) ==
  LET kept == DropThrough(logs[i], snapIndex[i], n)
  IN /\ Running(i) /\ n <= lastApplied[i]
     /\ snapIndex[i] < n /\ n <= commitIndex[i]
     /\ snapIndex' = [snapIndex EXCEPT ![i] = n]
     /\ snapTerm' = [snapTerm EXCEPT ![i] = logs[i][n - snapIndex[i]].term]
     /\ logs' = [logs EXCEPT ![i] = kept]
     /\ lastApplied' = [lastApplied EXCEPT ![i] = Max2(@, n)]
     /\ Exit(i, Unless(n + Len(kept) = LastIndex(i), "snapshotLength"))
     /\ UNCHANGED <<electionVars, commitIndex, leaderVars, votedNum, appendNums, rv, ae, is>>

VoteThread(t) ==
  \/ RequestVote(t) \/ VoteReplyTerm(t) \/ VoteStepDown(t) \/ VoteLoad(t) \/ VoteStore(t)
  \/ VoteTest(t) \/ VoteWon(t) \/ BecomeLeader(t) \/ ResetPeers(t)
AppendThread(m) == AppendEntries1(m) \/ SendAppendEntries(m)
SnapshotThread(s) == SendSnapshot(s) \/ InstallSnapshot(s) \/ SnapshotReply(s)

Next ==
  \/ \E i \in Server : DoElection(i) \/ DoHeartBeat(i) \/ ApplierTicker(i)
  \/ \E i \in Server, c \in Command : Start(i, c)
  \/ \E i \in Server, n \in SnapshotAt : Snapshot(i, n)
  \/ \E t \in rv : VoteThread(t)
  \/ \E m \in ae : AppendThread(m)
  \/ \E s \in is : SnapshotThread(s)

Spec == Init /\ [][Next]_vars
=============================================================================
