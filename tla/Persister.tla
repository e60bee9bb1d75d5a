------------------------------ MODULE Persister ------------------------------
(***************************************************************************)
(* Persister.cpp: the two files of a node.  What is written to a file is   *)
(* the text of a boost archive, here the sequence of its words, of which   *)
(* `>>' reads one.  The members run under the Persister's mutex and the    *)
(* streams are closed, hence flushed, before their file is read.           *)
(***************************************************************************)
EXTENDS Naturals, Sequences

\* The words of an archive: its signature, then the data.
Archive(data) == <<"signature", data>>
NoData == <<>>

\* The constructor truncates both files of the node, whatever they hold.
NewPersister(old) == [raftState |-> NoData, snapshot |-> NoData, raftStateSize |-> 0]

\* clearRaftState, then the write and the size.
SaveRaftState(p, raftState) ==
  [p EXCEPT !.raftState = raftState, !.raftStateSize = Len(raftState)]

\* clearRaftStateAndSnapshot, then the two writes; the size stays cleared.
Save(p, raftState, snapshot) ==
  [p EXCEPT !.raftState = raftState, !.snapshot = snapshot, !.raftStateSize = 0]

\* `ifs >> snapshot': the first word, or nothing when the file is empty.
FirstWord(words) == IF words = NoData THEN NoData ELSE <<words[1]>>

\* ReadSnapshot returns the first word, and its DEFER reopens the file for
\* writing in the default mode, which truncates it.
SnapshotRead(p) == FirstWord(p.snapshot)
AfterReadSnapshot(p) == [p EXCEPT !.snapshot = NoData]

RaftStateRead(p) == FirstWord(p.raftState)
=============================================================================
