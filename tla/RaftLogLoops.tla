---------------------------- MODULE RaftLogLoops ----------------------------
(***************************************************************************)
(* The two loops of AppendEntries1, turn by turn, against the operators of *)
(* RaftLog that Raft takes for them: on every log, cut by a snapshot or    *)
(* not, and every suffix that an AppendEntries can bring to it.            *)
(***************************************************************************)
EXTENDS RaftLog, FiniteSets

CONSTANTS MaxLen, MaxTerm, MaxSnap, Commands

ASSUME LoopAssumption == MaxLen \in Nat /\ MaxTerm \in Nat /\ MaxSnap \in Nat

VARIABLES log, snap, snapTerm, prev, suffix
inputs == <<log, snap, snapTerm, prev, suffix>>

\* Entries numbered from the index after `first', of any terms and commands.
Numbered(first) ==
  UNION {{[k \in 1 .. n |-> [index |-> first + k, term |-> tc[k][1], command |-> tc[k][2]]] :
            tc \in [1 .. n -> (1 .. MaxTerm) \X Commands]} : n \in 0 .. MaxLen}

\* The inputs are picked in three steps: the receiver's log, then prev, then the suffix.
InputsInit ==
  /\ snap \in 0 .. MaxSnap
  /\ snapTerm \in IF snap = 0 THEN {0} ELSE 1 .. MaxTerm
  /\ log = <<>> /\ prev = -1 /\ suffix = <<>>
PickLog ==
  /\ log = <<>> /\ prev = -1
  /\ log' \in Numbered(snap)
  /\ prev' \in snap .. LastLogIndex(log', snap)
  /\ UNCHANGED <<snap, snapTerm, suffix>>
PickSuffix ==
  /\ prev >= 0 /\ suffix = <<>>
  /\ suffix' \in Numbered(prev)
  /\ UNCHANGED <<snap, snapTerm, log, prev>>
InputsNext == PickLog \/ PickSuffix
InputsSpec == InputsInit /\ [][InputsNext]_inputs

-----------------------------------------------------------------------------
\* One turn of the loop over the entries; no turn follows an assertion that failed.
Turn(state, entry) ==
  LET at == entry.index - snap
  IN IF state.failed THEN state
     ELSE IF entry.index > LastLogIndex(state.log, snap)
     THEN [state EXCEPT !.log = Append(@, entry)]
     ELSE IF state.log[at].term = entry.term /\ state.log[at].command # entry.command
     THEN [state EXCEPT !.failed = TRUE]
     ELSE IF state.log[at].term # entry.term
     THEN [state EXCEPT !.log[at] = entry]
     ELSE state
MergeLoop ==
  LET loop[i \in 0 .. Len(suffix)] ==
        IF i = 0 THEN [log |-> log, failed |-> FALSE] ELSE Turn(loop[i - 1], suffix[i])
  IN loop[Len(suffix)]

\* The loop down from prev that looks for the first index of the conflicting term; it has
\* set prev before, and stays with that when it has passed the snapshot.
HintLoop ==
  LET down[n \in snap .. prev] ==
        IF TermAt(log, snap, snapTerm, n) # TermAt(log, snap, snapTerm, prev) THEN n + 1
        ELSE IF n = snap THEN prev ELSE down[n - 1]
  IN down[prev]

-----------------------------------------------------------------------------
\* The entry loop of AppendEntries1 fails its assertion exactly when CommandsDiffer,
\* and otherwise leaves MergeSuffix, whatever the overlap of log and suffix.
MergeIsLoop ==
  prev >= 0 =>
    /\ MergeLoop.failed <=> CommandsDiffer(log, snap, prev, suffix)
    /\ ~MergeLoop.failed => MergeLoop.log = MergeSuffix(log, snap, prev, suffix)

\* The hint the loop computes is the one and only IsConflictHint, and it is in
\* the range RejectMismatch looks for it in.
HintIsLoop ==
  prev >= 0 =>
    {h \in snap .. prev : IsConflictHint(log, snap, snapTerm, prev, h)} = {HintLoop}
=============================================================================
