------------------------------ MODULE RaftLog ------------------------------
(***************************************************************************)
(* The pure functions of raft.cpp on a log whose prefix a snapshot has     *)
(* replaced.  A log is the sequence m_logs of the entries after the        *)
(* snapshot's last index `snap'; `snapTerm' is the term of that last       *)
(* entry.  Entries carry their own index, as the protobuf message does:    *)
(* that the index of the k-th one is snap + k is an invariant of Raft, not *)
(* an assumption here.                                                     *)
(***************************************************************************)
EXTENDS Integers, Sequences

LogEntry(Command) == [index : Nat, term : Nat, command : Command]

\* Operators called ...Mutant are the plausible bugs that the runs must notice in
\* place of the definition that follows them; nothing else uses them.

\* getLastLogIndex, getLastLogTerm: the last entry's, or the snapshot's.
LastLogIndexMutant(log, snap) == IF log = <<>> THEN 0 ELSE log[Len(log)].index
LastLogIndex(log, snap) == IF log = <<>> THEN snap ELSE log[Len(log)].index
LastLogTerm(log, snapTerm) == IF log = <<>> THEN snapTerm ELSE log[Len(log)].term

\* getLogTermFromLogIndex, for snap <= n <= the last index.
TermAt(log, snap, snapTerm, n) == IF n = snap THEN snapTerm ELSE log[n - snap].term

\* UpToDate: a candidate whose last entry is <<index, term>> may be voted for.
UpToDate(log, snap, snapTerm, index, term) ==
  \/ term > LastLogTerm(log, snapTerm)
  \/ term = LastLogTerm(log, snapTerm) /\ index >= LastLogIndex(log, snap)

\* What the entries `suffix', whose indexes follow `prev', find in the log at
\* their own index: position k of the log holds index snap + k.
InSuffix(snap, prev, suffix, k) == snap + k - prev \in DOMAIN suffix
Received(snap, prev, suffix, k) == suffix[snap + k - prev]

\* An entry of the suffix meets one of the same index and term and another
\* command: the loop of AppendEntries1 asserts that this never happens.
CommandsDiffer(log, snap, prev, suffix) ==
  \E k \in DOMAIN log :
     /\ InSuffix(snap, prev, suffix, k)
     /\ Received(snap, prev, suffix, k).term = log[k].term
     /\ Received(snap, prev, suffix, k).command # log[k].command

\* The log after the loop of AppendEntries1: an entry past the end is pushed,
\* one of another term is replaced where it stands, and whatever follows the
\* suffix stays (nothing is truncated).
MergeSuffixMutant(log, snap, prev, suffix) == SubSeq(log, 1, prev - snap) \o suffix
MergeSuffix(log, snap, prev, suffix) ==
  LET last == prev + Len(suffix) - snap
  IN [k \in 1 .. (IF last > Len(log) THEN last ELSE Len(log)) |->
        IF /\ InSuffix(snap, prev, suffix, k)
           /\ k > Len(log) \/ log[k].term # Received(snap, prev, suffix, k).term
        THEN Received(snap, prev, suffix, k)
        ELSE log[k]]

\* The updatenextindex of a mismatch at prev: one past the last index whose term
\* is not prev's, or prev when every index down to the snapshot has prev's term.
IsConflictHintMutant(log, snap, snapTerm, prev, hint) == hint = prev
IsConflictHint(log, snap, snapTerm, prev, hint) ==
  LET SameTerm(n) == TermAt(log, snap, snapTerm, n) = TermAt(log, snap, snapTerm, prev)
  IN \/ hint = prev /\ \A n \in snap .. prev : SameTerm(n)
     \/ /\ hint - 1 \in snap .. prev
        /\ ~SameTerm(hint - 1)
        /\ \A n \in hint .. prev : SameTerm(n)

\* What is left of the log when a snapshot takes its indexes up to n > snap.
DropThroughMutant(log, snap, n) == SubSeq(log, n - snap, Len(log))
DropThrough(log, snap, n) == SubSeq(log, n - snap + 1, Len(log))
=============================================================================
