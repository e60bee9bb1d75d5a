---------------------------- MODULE RaftService ----------------------------
(***************************************************************************)
(* The Raft that the KvServer is written against: the calls it makes and   *)
(* the channel it reads, over servers whose committed entries agree, as    *)
(* Raft promises.  (Raft models what raft.cpp does instead; here elections *)
(* and replication are one step each.)  As in raft.cpp a log never gets    *)
(* shorter (RaftProofs!Monotonic): entries are only overwritten.           *)
(***************************************************************************)
EXTENDS Integers, SequencesExt, Persister

CONSTANTS
  Server, NoServer,
  MaxElections   \* bound: changes of leader
ASSUME ServerAssumption == NoServer \notin Server

VARIABLES
  logs,        \* logs[s]: the commands in the log of s, from index 1 on
  chosen,      \* the committed commands, from index 1 on
  leader,      \* the server whose entries get committed
  elections,   \* how many there were
  leaders,     \* the servers whose status is Leader: deposed ones may not know yet
  lastApplied, \* lastApplied[s]: the last index applierTicker took
  taken,       \* taken[s]: what applierTicker took and has not pushed yet
  snapIndex,   \* m_lastSnapshotIncludeIndex
  snapshots,   \* the InstallSnapshot calls in flight
  pushes,      \* the threads of pushMsgToKvServer
  persister,   \* persister[s]: the node's files
  applyChan    \* applyChan[s]: the queue between the Raft and the KvServer of s

logVars   == <<logs, chosen, leader, leaders, elections>>
applyVars == <<lastApplied, taken, applyChan>>
snapVars  == <<snapIndex, snapshots, pushes, persister>>
raftVars  == <<logVars, applyVars, snapVars>>

CommandMsg(n, op) == [type |-> "command", index |-> n, op |-> op]
SnapshotMsg(n, data) == [type |-> "snapshot", index |-> n, data |-> data]

RaftInit ==
  /\ logs = [s \in Server |-> <<>>] /\ chosen = <<>>
  /\ leader = NoServer /\ leaders = {} /\ elections = 0
  /\ lastApplied = [s \in Server |-> 0]
  /\ taken = [s \in Server |-> <<>>]
  /\ snapIndex = [s \in Server |-> 0]
  /\ snapshots = {} /\ pushes = {}
  /\ persister = [s \in Server |-> NewPersister(NoData)]
  /\ applyChan = [s \in Server |-> <<>>]

\* The part of a log that stays when its first entries become `prefix'.
Overwritten(log, prefix) == prefix \o SubSeq(log, Len(prefix) + 1, Len(log))

\* A server that holds every committed entry wins an election.
Elect(s) ==
  /\ elections < MaxElections /\ elections' = elections + 1
  /\ leader # s /\ IsPrefix(chosen, logs[s])
  /\ leader' = s /\ leaders' = leaders \cup {s}
  /\ UNCHANGED <<logs, chosen, applyVars, snapVars>>

\* A peer accepts the leader's log, up to its end, if it has what the leader no
\* longer holds; a deposed leader learns that it is one.
ReplicateMutant(s) ==
  /\ leader \notin {s, NoServer}
  /\ IsPrefix(SubSeq(chosen, 1, snapIndex[leader]), logs[s])
  /\ logs' = [logs EXCEPT ![s] = logs[leader]]
  /\ leaders' = leaders \ {s}
  /\ UNCHANGED <<chosen, leader, elections, applyVars, snapVars>>
Replicate(s) ==
  /\ leader \notin {s, NoServer}
  /\ IsPrefix(SubSeq(chosen, 1, snapIndex[leader]), logs[s])
  /\ logs' = [logs EXCEPT ![s] = Overwritten(@, logs[leader])]
  /\ leaders' = leaders \ {s}
  /\ UNCHANGED <<chosen, leader, elections, applyVars, snapVars>>

\* The leader's next entry is committed.
Commit ==
  /\ leader # NoServer /\ Len(chosen) < Len(logs[leader])
  /\ chosen' = Append(chosen, logs[leader][Len(chosen) + 1])
  /\ UNCHANGED <<logs, leader, leaders, elections, applyVars, snapVars>>

\* applierTicker takes, under the mutex, every entry that it finds committed ...
GetApplyLogs(s) ==
  /\ taken[s] = <<>>
  /\ \E n \in lastApplied[s] + 1 .. Len(chosen) :
        /\ SubSeq(chosen, 1, n) = LongestCommonPrefix({chosen, logs[s]})
        /\ taken' = [taken EXCEPT ![s] = [k \in 1 .. n - lastApplied[s] |->
                       CommandMsg(lastApplied[s] + k, chosen[lastApplied[s] + k])]]
        /\ lastApplied' = [lastApplied EXCEPT ![s] = n]
  /\ UNCHANGED <<logVars, applyChan, snapVars>>

\* ... and pushes them, one by one, without it.
PushTaken(s) ==
  /\ taken[s] # <<>>
  /\ applyChan' = [applyChan EXCEPT ![s] = Append(@, Head(taken[s]))]
  /\ taken' = [taken EXCEPT ![s] = Tail(@)]
  /\ UNCHANGED <<logVars, lastApplied, snapVars>>

\* leaderSendSnapShot: what the Persister reads is what the peer gets.
SendSnapshot(s, d) ==
  /\ s \in leaders /\ s # d /\ snapIndex[s] > 0
  /\ snapshots' = snapshots \cup
       {[to |-> d, index |-> snapIndex[s], data |-> SnapshotRead(persister[s])]}
  /\ persister' = [persister EXCEPT ![s] = AfterReadSnapshot(@)]
  /\ UNCHANGED <<logVars, applyVars, snapIndex, pushes>>

\* InstallSnapshot pushes the snapshot to the KvServer and starts a thread that
\* pushes it again.
InstallSnapshot(m) ==
  /\ snapshots' = snapshots \ {m}
  /\ leaders' = leaders \ {m.to}
  /\ IF m.index <= snapIndex[m.to]
     THEN UNCHANGED <<logs, lastApplied, applyChan, snapIndex, pushes, persister>>
     ELSE /\ logs' = [logs EXCEPT ![m.to] = Overwritten(@, SubSeq(chosen, 1, m.index))]
          /\ lastApplied' = [lastApplied EXCEPT ![m.to] = IF @ < m.index THEN m.index ELSE @]
          /\ snapIndex' = [snapIndex EXCEPT ![m.to] = m.index]
          /\ applyChan' = [applyChan EXCEPT ![m.to] = Append(@, SnapshotMsg(m.index, m.data))]
          /\ pushes' = pushes \cup {m}
          /\ persister' = [persister EXCEPT ![m.to] = Save(@, Archive("members"), m.data)]
  /\ UNCHANGED <<chosen, leader, elections, taken>>

PushMsgToKvServer(m) ==
  /\ applyChan' = [applyChan EXCEPT ![m.to] = Append(@, SnapshotMsg(m.index, m.data))]
  /\ pushes' = pushes \ {m}
  /\ UNCHANGED <<logVars, lastApplied, taken, snapIndex, snapshots, persister>>

RaftNext ==
  \/ Commit
  \/ \E s \in Server : Elect(s) \/ Replicate(s) \/ GetApplyLogs(s) \/ PushTaken(s)
  \/ \E s, d \in Server : SendSnapshot(s, d)
  \/ \E m \in snapshots : InstallSnapshot(m)
  \/ \E m \in pushes : PushMsgToKvServer(m)

\* The calls of the KvServer, as parts of its own steps.  Start on a leader appends
\* the command and returns its index.
StartIndex(s) == Len(logs[s]) + 1
Start(s, op) ==
  /\ logs' = [logs EXCEPT ![s] = Append(@, op)]
  /\ UNCHANGED <<chosen, leader, leaders, elections, applyVars, snapVars>>

\* Snapshot saves the data and cuts the log at n, unless it is cut there already.
Snapshot(s, n, data) ==
  /\ IF snapIndex[s] >= n
     THEN UNCHANGED <<snapIndex, persister>>
     ELSE /\ snapIndex' = [snapIndex EXCEPT ![s] = n]
          /\ persister' = [persister EXCEPT ![s] = Save(@, Archive("members"), data)]
  /\ UNCHANGED <<logVars, applyVars, snapshots, pushes>>
=============================================================================
