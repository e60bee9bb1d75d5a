----------------------------- MODULE MCPersister -----------------------------
(***************************************************************************)
(* One node and its Persister: raft.cpp persists its members, the KvServer *)
(* has a snapshot saved, leaderSendSnapShot reads it back, and the process *)
(* may start again.                                                        *)
(***************************************************************************)
EXTENDS Persister

CONSTANT MaxTerm   \* bound: terms the node goes through

VARIABLES
  files,      \* the Persister
  currentTerm \* stands for the members that persistData archives
vars == <<files, currentTerm>>

Init == files = NewPersister(NoData) /\ currentTerm = 0

\* A new term, persisted.
Persist ==
  /\ currentTerm < MaxTerm
  /\ currentTerm' = currentTerm + 1
  /\ files' = SaveRaftState(files, Archive(currentTerm'))

\* Raft::Snapshot and InstallSnapshot save the members and a snapshot.
TakeSnapshot ==
  /\ files' = Save(files, Archive(currentTerm), Archive("kv"))
  /\ UNCHANGED currentTerm

SendSnapshot ==
  /\ files' = AfterReadSnapshot(files)
  /\ UNCHANGED currentTerm

\* A new process: the constructor of the Persister, then init and readPersist.
Restart ==
  /\ files' = NewPersister(files)
  /\ currentTerm' = IF RaftStateRead(files') = NoData THEN 0 ELSE currentTerm

Next == Persist \/ TakeSnapshot \/ SendSnapshot \/ Restart
Spec == Init /\ [][Next]_vars

\* raft.cpp:626: a node starts from the state it had saved.
RestartRestores == [][Restart => currentTerm' = currentTerm]_vars
=============================================================================
