----------------------------- MODULE RaftProofs -----------------------------
(***************************************************************************)
(* The proofs about Raft: one lemma per action that it preserves IInv,     *)
(* after lemmas on the log operators, and the theorems at the end.         *)
(***************************************************************************)
EXTENDS RaftProperties, TLAPS

-----------------------------------------------------------------------------
(* The log operators. *)

\* In a log numbered from its snapshot the last index is snapshot plus length.
LEMMA LastOfNumbered ==
  ASSUME NEW C, NEW log \in Seq(LogEntry(C)), NEW snap \in Nat,
         \A k \in DOMAIN log : log[k].index = snap + k
  PROVE  /\ LastLogIndex(log, snap) = snap + Len(log)
         /\ Len(log) \in Nat
<1>1. CASE log = <<>>
  BY <1>1 DEF LastLogIndex
<1>2. CASE log # <<>>
  <2>1. Len(log) \in Nat /\ Len(log) \in DOMAIN log
    BY <1>2
  <2> QED
    BY <1>2, <2>1 DEF LastLogIndex
<1> QED
  BY <1>1, <1>2

\* The merge of AppendEntries1 keeps the numbering, never shortens the log and
\* reaches the end of what was sent.
LEMMA MergeNumbered ==
  ASSUME NEW C, NEW log \in Seq(LogEntry(C)), NEW suffix \in Seq(LogEntry(C)),
         NEW snap \in Nat, NEW prev \in Nat,
         snap <= prev, prev <= snap + Len(log),
         \A k \in DOMAIN log : log[k].index = snap + k,
         \A k \in DOMAIN suffix : suffix[k].index = prev + k
  PROVE  LET merged == MergeSuffix(log, snap, prev, suffix)
         IN /\ merged \in Seq(LogEntry(C))
            /\ \A k \in DOMAIN merged : merged[k].index = snap + k
            /\ Len(merged) >= Len(log)
            /\ snap + Len(merged) >= prev + Len(suffix)
<1> DEFINE last == prev + Len(suffix) - snap
           size == IF last > Len(log) THEN last ELSE Len(log)
           merged == MergeSuffix(log, snap, prev, suffix)
<1>1. /\ Len(log) \in Nat /\ Len(suffix) \in Nat
      /\ DOMAIN log = 1 .. Len(log) /\ DOMAIN suffix = 1 .. Len(suffix)
  OBVIOUS
<1>2. last \in Int /\ size \in Nat /\ size >= Len(log) /\ size >= last
  BY <1>1
<1>3. ASSUME NEW k \in 1 .. size
      PROVE  /\ merged[k] \in LogEntry(C)
             /\ merged[k].index = snap + k
  <2>0. k <= Len(log) => k \in DOMAIN log
    BY <1>1, <1>2
  <2>1. merged[k] = IF /\ snap + k - prev \in DOMAIN suffix
                       /\ k > Len(log) \/ log[k].term # suffix[snap + k - prev].term
                    THEN suffix[snap + k - prev] ELSE log[k]
    BY <1>3 DEF MergeSuffix, InSuffix, Received
  <2> HIDE DEF merged
  <2>2. CASE snap + k - prev \in DOMAIN suffix
    <3>1. suffix[snap + k - prev] \in LogEntry(C) /\ suffix[snap + k - prev].index = snap + k
      <4>1. suffix[snap + k - prev].index = prev + (snap + k - prev)
        BY <2>2
      <4> QED
        BY <2>2, <4>1, <1>1
    <3>2. k <= Len(log) => log[k] \in LogEntry(C) /\ log[k].index = snap + k
      BY <2>0
    <3> QED
      BY <2>1, <2>2, <3>1, <3>2, <1>1, <1>2
  <2>3. CASE ~(snap + k - prev \in DOMAIN suffix)
    <3>1. k <= Len(log)
      BY <2>3, <1>1, <1>2
    <3>2. log[k] \in LogEntry(C) /\ log[k].index = snap + k
      BY <3>1, <2>0
    <3> QED
      BY <2>1, <2>3, <3>2
  <2> QED
    BY <2>2, <2>3
<1>4. merged = [k \in 1 .. size |-> merged[k]]
  BY DEF MergeSuffix
<1>5. merged \in Seq(LogEntry(C)) /\ Len(merged) = size /\ DOMAIN merged = 1 .. size
  <2> HIDE DEF merged, size
  <2>1. \A k \in 1 .. size : merged[k] \in LogEntry(C)
    BY <1>3
  <2>2. merged \in [1 .. size -> LogEntry(C)]
    BY <1>4, <2>1
  <2>3. size \in Nat
    BY <1>2
  <2> QED
    BY <2>2, <2>3
<1>6. \A k \in DOMAIN merged : merged[k].index = snap + k
  BY <1>3, <1>5
<1>7. snap + size >= prev + Len(suffix)
  BY <1>1, <1>2
<1> HIDE DEF merged, size, last
<1>8. Len(merged) >= Len(log) /\ snap + Len(merged) >= prev + Len(suffix)
  BY <1>2, <1>5, <1>7
<1> QED
  BY <1>5, <1>6, <1>8 DEF merged

\* Cutting the log at an index it holds, or at its end, keeps the numbering and the last index.
LEMMA DropNumbered ==
  ASSUME NEW C, NEW log \in Seq(LogEntry(C)), NEW snap \in Nat, NEW n \in Nat,
         snap <= n, n <= snap + Len(log),
         \A k \in DOMAIN log : log[k].index = snap + k
  PROVE  LET kept == DropThrough(log, snap, n)
         IN /\ kept \in Seq(LogEntry(C))
            /\ n + Len(kept) = snap + Len(log)
            /\ \A k \in DOMAIN kept : kept[k].index = n + k
<1> DEFINE kept == DropThrough(log, snap, n)
           size == snap + Len(log) - n
<1>1. Len(log) \in Nat /\ DOMAIN log = 1 .. Len(log)
  OBVIOUS
<1>2. kept = [k \in 1 .. size |-> log[n - snap + k]]
  BY <1>1 DEF DropThrough
<1>3. \A k \in 1 .. size : n - snap + k \in DOMAIN log
  BY <1>1
<1>4. \A k \in 1 .. size : log[n - snap + k] \in LogEntry(C)
  BY <1>1, <1>3
<1>5. kept \in Seq(LogEntry(C)) /\ Len(kept) = size /\ DOMAIN kept = 1 .. size
  <2>1. size \in Nat
    BY <1>1
  <2> HIDE DEF kept, size
  <2>2. kept \in [1 .. size -> LogEntry(C)]
    BY <1>2, <1>4
  <2> QED
    BY <2>1, <2>2
<1>6. \A k \in DOMAIN kept : kept[k].index = n + k
  <2> SUFFICES ASSUME NEW k \in DOMAIN kept PROVE kept[k].index = n + k
    OBVIOUS
  <2>1. kept[k] = log[n - snap + k]
    BY <1>2, <1>5
  <2>2. log[n - snap + k].index = snap + (n - snap + k)
    BY <1>3, <1>5
  <2>3. k \in Int
    BY <1>1, <1>5
  <2> QED
    BY <2>1, <2>2, <2>3
<1> QED
  BY <1>1, <1>5, <1>6

-----------------------------------------------------------------------------
(* Types of the threads. *)

\* A thread of sendRequestVote that moves to another label keeps the type of rv.
LEMMA VoteThreadMoves ==
  ASSUME TypeOK, NEW t \in rv,
         NEW pc \in {"call", "reply", "stepdown", "equal", "store", "test", "won", "lead", "reset", "done"},
         NEW n \in Nat
  PROVE  /\ t \in VoteThreads
         /\ [t EXCEPT !.pc = pc] \in VoteThreads
         /\ [t EXCEPT !.pc = pc, !.seen = n] \in VoteThreads
  BY DEF TypeOK, VoteThreads, Term, Index

\* The last entry's index and term have their type.
LEMMA LastTyped ==
  ASSUME TypeOK, NEW i \in Server
  PROVE  LastIndex(i) \in Nat /\ LastTerm(i) \in Nat
<1>1. logs[i] \in Seq(LogEntry(Command)) /\ snapIndex[i] \in Nat /\ snapTerm[i] \in Nat
  BY DEF TypeOK, Index, Term, Entries
<1>2. CASE logs[i] = <<>>
  BY <1>1, <1>2 DEF LastIndex, LastTerm, LastLogIndex, LastLogTerm
<1>3. CASE logs[i] # <<>>
  <2>1. Len(logs[i]) \in DOMAIN logs[i]
    BY <1>1, <1>3
  <2>2. logs[i][Len(logs[i])] \in LogEntry(Command)
    BY <1>1, <2>1
  <2> QED
    BY <1>3, <2>2 DEF LastIndex, LastTerm, LastLogIndex, LastLogTerm, LogEntry
<1> QED
  BY <1>2, <1>3

\* A step of an election leaves logs, indexes and the other threads alone.
ElectionOnly == UNCHANGED <<logVars, applyVars, leaderVars, appendNums, ae, is>>

\* A step of an election that gives its own members their types keeps all types.
LEMMA ElectionType ==
  ASSUME TypeOK, ElectionOnly,
         failed' \in [Server -> SUBSET Assertion],
         currentTerm' \in [Server -> Nat],
         votedFor' \in [Server -> Server \cup {NoVote}],
         status' \in [Server -> Status],
         votedNum' \in [Server -> Seq(Nat)],
         rv' \subseteq VoteThreads
  PROVE  TypeOK'
BY DEF TypeOK, ElectionOnly, logVars, applyVars, leaderVars, Term

\* doElection keeps the types, the threads it starts included.
LEMMA DoElectionType ==
  ASSUME IInv, NEW i \in Server, DoElection(i)
  PROVE  TypeOK'
<1> USE DEF IInv
<1>1. LastIndex(i) \in Nat /\ LastTerm(i) \in Nat
  BY LastTyped
<1>2. /\ currentTerm[i] \in Nat /\ votedNum[i] \in Seq(Nat)
      /\ currentTerm \in [Server -> Nat]
      /\ votedNum \in [Server -> Seq(Nat)]
      /\ votedFor \in [Server -> Server \cup {NoVote}]
      /\ status \in [Server -> Status]
      /\ rv \subseteq VoteThreads
  BY DEF TypeOK, Term
<1>3. rv' \subseteq VoteThreads
  <2> DEFINE new(j) == [src |-> i, dst |-> j, election |-> Len(votedNum[i]) + 1, pc |-> "call",
         term |-> currentTerm[i] + 1, lastIndex |-> LastIndex(i), lastTerm |-> LastTerm(i),
         replyTerm |-> 0, granted |-> FALSE, seen |-> 0]
  <2>1. ASSUME NEW j \in Server PROVE new(j) \in VoteThreads
    BY <1>1, <1>2 DEF VoteThreads, Index, Term
  <2>2. rv' = rv \cup {new(j) : j \in Server \ {i}}
    BY DEF DoElection
  <2> QED
    BY <1>2, <2>1, <2>2
<1>4. /\ failed' \in [Server -> SUBSET Assertion]
      /\ currentTerm' \in [Server -> Nat]
      /\ votedFor' \in [Server -> Server \cup {NoVote}]
      /\ status' \in [Server -> Status]
  BY <1>2 DEF TypeOK, DoElection, Status
<1>5. votedNum' \in [Server -> Seq(Nat)]
  BY <1>2 DEF DoElection
<1>6. ElectionOnly
  BY DEF DoElection, ElectionOnly
<1> QED
  BY <1>3, <1>4, <1>5, <1>6, ElectionType

\* RequestVote keeps the types: its reply carries a term and a vote.
LEMMA RequestVoteType ==
  ASSUME IInv, NEW t \in rv, RequestVote(t)
  PROVE  TypeOK'
<1> USE DEF IInv
<1>1. /\ t \in VoteThreads /\ t.src \in Server /\ t.dst \in Server /\ t.term \in Nat
      /\ currentTerm[t.dst] \in Nat
      /\ currentTerm \in [Server -> Nat]
      /\ votedFor \in [Server -> Server \cup {NoVote}]
      /\ status \in [Server -> Status]
      /\ rv \subseteq VoteThreads
  BY DEF TypeOK, VoteThreads, Term
<1> DEFINE i == t.dst
           grant == UpToDate(logs[i], snapIndex[i], snapTerm[i], t.lastIndex, t.lastTerm)
<1>2. grant \in BOOLEAN
  BY DEF UpToDate
<1>3. /\ currentTerm' \in [Server -> Nat]
      /\ status' \in [Server -> Status]
      /\ votedFor' \in [Server -> Server \cup {NoVote}]
  <2> HIDE DEF grant
  <2> QED
    BY <1>1 DEF RequestVote, Status, electionVars
<1>4. rv' \subseteq VoteThreads
  <2> HIDE DEF grant
  <2>1. AnswerRV(t, currentTerm[i], FALSE) \/ AnswerRV(t, t.term, grant)
    BY DEF RequestVote, grant
  <2>2. ASSUME NEW n \in Nat, NEW g \in BOOLEAN, AnswerRV(t, n, g)
        PROVE  rv' \subseteq VoteThreads
    <3>1. [t EXCEPT !.pc = "reply", !.replyTerm = n, !.granted = g] \in VoteThreads
      BY <1>1 DEF VoteThreads, Term
    <3> QED
      BY <1>1, <2>2, <3>1 DEF AnswerRV
  <2>3. CASE AnswerRV(t, currentTerm[i], FALSE)
    BY <1>1, <2>2, <2>3
  <2>4. CASE AnswerRV(t, t.term, grant)
    BY <1>1, <1>2, <2>2, <2>4
  <2> QED
    BY <2>1, <2>3, <2>4
<1>5. ElectionOnly /\ UNCHANGED <<failed, votedNum>>
  BY DEF RequestVote, ElectionOnly
<1> QED
  BY <1>3, <1>4, <1>5, ElectionType DEF TypeOK

\* The comparison of the reply's term only moves the thread.
LEMMA VoteReplyTermType ==
  ASSUME IInv, NEW t \in rv, VoteReplyTerm(t)
  PROVE  TypeOK'
<1>1. rv' \subseteq VoteThreads
  BY VoteThreadMoves DEF IInv, TypeOK, VoteReplyTerm, MoveRV, EndRV
<1> QED
  BY <1>1, ElectionType DEF IInv, TypeOK, VoteReplyTerm, ElectionOnly, electionVars, Term

\* Stepping down on a higher term keeps the types.
LEMMA VoteStepDownType ==
  ASSUME IInv, NEW t \in rv, VoteStepDown(t)
  PROVE  TypeOK'
<1>1. rv' \subseteq VoteThreads /\ t.src \in Server /\ t.replyTerm \in Nat
  BY DEF IInv, TypeOK, VoteStepDown, EndRV, VoteThreads, Term
<1> QED
  BY <1>1, ElectionType DEF IInv, TypeOK, VoteStepDown, ElectionOnly, Term, Status

\* The load of *votedNum keeps the types: the counter the thread read exists.
LEMMA VoteLoadType ==
  ASSUME IInv, NEW t \in rv, VoteLoad(t)
  PROVE  TypeOK'
<1>1. t \in VoteThreads /\ t.src \in Server /\ votedNum[t.src][t.election] \in Nat
  BY DEF IInv, TypeOK, VoteThreads, CountersExist
<1>2. rv' \subseteq VoteThreads
  BY <1>1, VoteThreadMoves DEF IInv, TypeOK, VoteLoad
<1>3. failed' \in [Server -> SUBSET Assertion]
  BY <1>1 DEF IInv, TypeOK, VoteLoad, Exit, Unless, Assertion
<1> QED
  BY <1>2, <1>3, ElectionType DEF IInv, TypeOK, VoteLoad, ElectionOnly, electionVars, Term

\* A function on 1 .. n is a sequence.
LEMMA FunctionIsSeq ==
  ASSUME NEW S, NEW n \in Nat, NEW g \in [1 .. n -> S]
  PROVE  g \in Seq(S)
OBVIOUS

\* An update of one counter keeps all of them, and their domains.
LEMMA CounterUpdate ==
  ASSUME NEW f \in [Server -> Seq(Nat)], NEW i \in Server, NEW e, NEW n \in Nat,
         NEW h, h = [f EXCEPT ![i][e] = n]
  PROVE  /\ h \in [Server -> Seq(Nat)]
         /\ \A j \in Server : DOMAIN h[j] = DOMAIN f[j]
<1> DEFINE s == f[i]
           g == [s EXCEPT ![e] = n]
<1>1. s \in Seq(Nat) /\ Len(s) \in Nat /\ s \in [1 .. Len(s) -> Nat]
  OBVIOUS
<1>2. g \in [1 .. Len(s) -> Nat]
  BY <1>1
<1>3. g \in Seq(Nat) /\ DOMAIN g = DOMAIN s
  <2>1. DOMAIN s = 1 .. Len(s) /\ DOMAIN g = 1 .. Len(s)
    BY <1>1
  <2>2. Len(s) \in Nat
    BY <1>1
  <2> HIDE DEF g, s
  <2>3. g \in Seq(Nat)
    BY <1>2, <2>2, FunctionIsSeq
  <2> QED
    BY <2>1, <2>3
<1>4. h = [f EXCEPT ![i] = g]
  OBVIOUS
<1> HIDE DEF g
<1> QED
  BY <1>3, <1>4

\* The store of *votedNum keeps the types.
LEMMA VoteStoreType ==
  ASSUME IInv, NEW t \in rv, VoteStore(t)
  PROVE  TypeOK'
<1>1. t.src \in Server /\ t.seen \in Nat
  BY DEF IInv, TypeOK, VoteThreads
<1>2. rv' \subseteq VoteThreads
  BY VoteThreadMoves DEF IInv, TypeOK, VoteStore, MoveRV
<1>3. votedNum' \in [Server -> Seq(Nat)]
  <2>1. votedNum \in [Server -> Seq(Nat)] /\ t.seen + 1 \in Nat
    BY <1>1 DEF IInv, TypeOK
  <2>2. votedNum' = [votedNum EXCEPT ![t.src][t.election] = t.seen + 1]
    BY DEF VoteStore
  <2> QED
    BY <1>1, <2>1, <2>2, CounterUpdate
<1> QED
  BY <1>2, <1>3, ElectionType DEF IInv, TypeOK, VoteStore, ElectionOnly, electionVars, Term

\* The test of *votedNum against the majority only moves the thread.
LEMMA VoteTestType ==
  ASSUME IInv, NEW t \in rv, VoteTest(t)
  PROVE  TypeOK'
<1>1. rv' \subseteq VoteThreads
  BY VoteThreadMoves DEF IInv, TypeOK, VoteTest, MoveRV
<1> QED
  BY <1>1, ElectionType DEF IInv, TypeOK, VoteTest, ElectionOnly, electionVars, Term

\* The reset of *votedNum and its assertion keep the types.
LEMMA VoteWonType ==
  ASSUME IInv, NEW t \in rv, VoteWon(t)
  PROVE  TypeOK'
<1>1. t.src \in Server
  BY DEF IInv, TypeOK, VoteThreads
<1>2. rv' \subseteq VoteThreads
  BY VoteThreadMoves DEF IInv, TypeOK, VoteWon, MoveRV
<1>3. votedNum' \in [Server -> Seq(Nat)]
  BY <1>1, CounterUpdate DEF IInv, TypeOK, VoteWon
<1>4. failed' \in [Server -> SUBSET Assertion]
  BY <1>1 DEF IInv, TypeOK, VoteWon, Exit, Unless, Assertion
<1> QED
  BY <1>2, <1>3, <1>4, ElectionType DEF IInv, TypeOK, VoteWon, ElectionOnly, electionVars, Term

\* Becoming leader keeps the types.
LEMMA BecomeLeaderType ==
  ASSUME IInv, NEW t \in rv, BecomeLeader(t)
  PROVE  TypeOK'
<1>1. rv' \subseteq VoteThreads
  BY VoteThreadMoves DEF IInv, TypeOK, BecomeLeader, MoveRV
<1> QED
  BY <1>1, ElectionType DEF IInv, TypeOK, BecomeLeader, ElectionOnly, Term, Status

\* ... and an election preserves the whole invariant, if its threads have counters
\* and no assertion of AssertionsHold fails.
SafelyFailed(f) ==
  \A i \in Server :
     f[i] \cap {"sentToEnd", "appended", "commitInLog", "nextPastEnd", "commitPastEnd",
                "commitPastLog", "applyIndex", "snapshotLength"} = {}

\* A step that leaves logs, indexes and the other threads alone preserves the rest of
\* the invariant once it keeps the types and the counters of the vote threads.
LEMMA ElectionPreserves ==
  ASSUME IInv, TypeOK', ElectionOnly, SafelyFailed(failed'),
         \A t \in rv' : t.election \in DOMAIN votedNum'[t.src]
  PROVE  IInv'
<1>1. IndexChain'
  BY DEF IInv, IndexChain, LogIndexed, LastIndex, ElectionOnly, logVars, applyVars
<1>2. CountersExist'
  BY DEF IInv, CountersExist, ElectionOnly
<1>3. AppendsInLog' /\ SnapshotsTaken' /\ PeersInLog'
  BY DEF IInv, AppendsInLog, SnapshotsTaken, PeersInLog, LastIndex, ElectionOnly, logVars, leaderVars
<1>4. AssertionsHold'
  BY DEF SafelyFailed, AssertionsHold
<1> QED
  BY <1>1, <1>2, <1>3, <1>4 DEF IInv

-----------------------------------------------------------------------------
(* The steps of an election preserve the invariant. *)

\* doElection preserves the invariant: its threads share the counter it appends.
LEMMA DoElectionInv ==
  ASSUME IInv, NEW i \in Server, DoElection(i)
  PROVE  IInv'
<1>1. TypeOK' /\ ElectionOnly /\ SafelyFailed(failed')
  BY DoElectionType DEF IInv, AssertionsHold, SafelyFailed, DoElection, ElectionOnly
<1>2. ASSUME NEW t \in rv' PROVE t.election \in DOMAIN votedNum'[t.src]
  <2>1. votedNum \in [Server -> Seq(Nat)] /\ Len(votedNum[i]) \in Nat
    BY DEF IInv, TypeOK
  <2>2. votedNum' = [votedNum EXCEPT ![i] = Append(votedNum[i], 1)]
    BY DEF DoElection
  <2>3. \A j \in Server : DOMAIN votedNum[j] \subseteq DOMAIN votedNum'[j]
    BY <2>1, <2>2
  <2>4. Len(votedNum[i]) + 1 \in DOMAIN votedNum'[i]
    BY <2>1, <2>2
  <2>5. CASE t \in rv
    BY <2>3, <2>5 DEF IInv, TypeOK, VoteThreads, CountersExist
  <2>6. CASE t \notin rv
    <3>1. t.election = Len(votedNum[i]) + 1 /\ t.src = i
      BY <2>6 DEF DoElection
    <3> QED
      BY <2>4, <3>1
  <2> QED
    BY <2>5, <2>6
<1> QED
  BY <1>1, <1>2, ElectionPreserves

\* A thread that moves or ends, its election's counter staying where it is.
LEMMA ThreadMoved ==
  ASSUME IInv, NEW t \in rv, NEW u, u.src = t.src, u.election = t.election,
         rv' \subseteq (rv \ {t}) \cup {u},
         \A j \in Server : DOMAIN votedNum'[j] = DOMAIN votedNum[j]
  PROVE  \A v \in rv' : v.election \in DOMAIN votedNum'[v.src]
<1>1. \A v \in rv : v.src \in Server /\ v.election \in DOMAIN votedNum[v.src]
  BY DEF IInv, TypeOK, VoteThreads, CountersExist
<1>2. \A v \in rv : v.election \in DOMAIN votedNum'[v.src]
  BY <1>1
<1> QED
  BY <1>2

\* RequestVote preserves the invariant.
LEMMA RequestVoteInv ==
  ASSUME IInv, NEW t \in rv, RequestVote(t)
  PROVE  IInv'
<1>1. TypeOK' /\ ElectionOnly /\ SafelyFailed(failed') /\ UNCHANGED votedNum
  BY RequestVoteType DEF IInv, AssertionsHold, SafelyFailed, RequestVote, ElectionOnly
<1>2. \A v \in rv' : v.election \in DOMAIN votedNum'[v.src]
  <2>1. PICK term, g : AnswerRV(t, term, g)
    BY DEF RequestVote
  <2> DEFINE u == [t EXCEPT !.pc = "reply", !.replyTerm = term, !.granted = g]
  <2>2. u.src = t.src /\ u.election = t.election
    BY DEF IInv, TypeOK, VoteThreads
  <2>3. rv' \subseteq (rv \ {t}) \cup {u}
    BY <2>1 DEF AnswerRV
  <2> QED
    BY <1>1, <2>2, <2>3, ThreadMoved
<1> QED
  BY <1>1, <1>2, ElectionPreserves

\* The unlocked steps of sendRequestVote up to the reset, which move one thread.
VoteStep(t) ==
  \/ VoteReplyTerm(t) \/ VoteStepDown(t) \/ VoteLoad(t) \/ VoteStore(t)
  \/ VoteTest(t) \/ VoteWon(t) \/ BecomeLeader(t)

\* Every step of sendRequestVote but ResetPeers preserves the invariant.
LEMMA VoteStepInv ==
  ASSUME IInv, NEW t \in rv, VoteStep(t)
  PROVE  IInv'
<1>1. TypeOK'
  BY VoteReplyTermType, VoteStepDownType, VoteLoadType, VoteStoreType, VoteTestType, VoteWonType,
     BecomeLeaderType DEF VoteStep
<1>2. ElectionOnly
  BY DEF VoteStep, ElectionOnly, VoteReplyTerm, VoteStepDown, VoteLoad, VoteStore, VoteTest,
         VoteWon, BecomeLeader
<1>3. t.src \in Server /\ failed \in [Server -> SUBSET Assertion]
  BY DEF IInv, TypeOK, VoteThreads
<1>4. SafelyFailed(failed')
  <2>1. CASE UNCHANGED failed
    BY <2>1 DEF IInv, AssertionsHold, SafelyFailed
  <2>2. CASE VoteLoad(t) \/ VoteWon(t)
    <3>1. PICK names \in SUBSET {"replyTerm", "leaderTwice"} :
             failed' = [failed EXCEPT ![t.src] = names]
      BY <2>2 DEF VoteLoad, VoteWon, Exit, Unless
    <3> QED
      BY <1>3, <3>1 DEF IInv, AssertionsHold, SafelyFailed
  <2> QED
    BY <2>1, <2>2 DEF VoteStep, VoteReplyTerm, VoteStepDown, VoteStore, VoteTest, BecomeLeader
<1>5. \A j \in Server : DOMAIN votedNum'[j] = DOMAIN votedNum[j]
  <2>1. CASE UNCHANGED votedNum
    BY <2>1
  <2>2. ASSUME NEW n \in Nat, votedNum' = [votedNum EXCEPT ![t.src][t.election] = n]
        PROVE  \A j \in Server : DOMAIN votedNum'[j] = DOMAIN votedNum[j]
    <3>1. votedNum \in [Server -> Seq(Nat)]
      BY DEF IInv, TypeOK
    <3> QED
      BY <1>3, <2>2, <3>1, CounterUpdate
  <2>3. CASE VoteStore(t)
    <3>1. t.seen + 1 \in Nat
      BY DEF IInv, TypeOK, VoteThreads
    <3> QED
      BY <2>2, <2>3, <3>1 DEF VoteStore
  <2>4. CASE VoteWon(t)
    BY <2>2, <2>4 DEF VoteWon
  <2> QED
    BY <2>1, <2>3, <2>4 DEF VoteStep, VoteReplyTerm, VoteStepDown, VoteLoad, VoteTest, BecomeLeader
<1>6. \A v \in rv' : v.election \in DOMAIN votedNum'[v.src]
  <2>1. t \in VoteThreads
    BY DEF IInv, TypeOK
  <2>2. CASE rv' \subseteq rv \ {t}
    BY <1>5, <2>2, ThreadMoved
  <2>3. ASSUME NEW pc, MoveRV(t, pc)
        PROVE  \A v \in rv' : v.election \in DOMAIN votedNum'[v.src]
    <3> DEFINE u == [t EXCEPT !.pc = pc]
    <3>1. u.src = t.src /\ u.election = t.election
      BY <2>1 DEF VoteThreads
    <3>2. rv' \subseteq (rv \ {t}) \cup {u}
      BY <2>3 DEF MoveRV
    <3> QED
      BY <1>5, <3>1, <3>2, ThreadMoved
  <2>4. CASE VoteLoad(t)
    <3> DEFINE u == [t EXCEPT !.pc = "store", !.seen = votedNum[t.src][t.election]]
    <3>1. u.src = t.src /\ u.election = t.election
      BY <2>1 DEF VoteThreads
    <3>2. rv' \subseteq (rv \ {t}) \cup {u}
      BY <2>4 DEF VoteLoad
    <3> QED
      BY <1>5, <3>1, <3>2, ThreadMoved
  <2> QED
    BY <2>2, <2>3, <2>4 DEF VoteStep, VoteReplyTerm, VoteStepDown, VoteStore, VoteTest,
       VoteWon, BecomeLeader, EndRV
<1> QED
  BY <1>1, <1>2, <1>4, <1>6, ElectionPreserves

-----------------------------------------------------------------------------
(* Facts about one server's log, in a state and after a step. *)

\* The numbers a log step calculates with: the last index is snapshot plus length, and
\* the four indexes of a node are in order.
LEMMA LogFacts ==
  ASSUME IInv, NEW i \in Server
  PROVE  /\ LastIndex(i) = snapIndex[i] + Len(logs[i])
         /\ Len(logs[i]) \in Nat /\ snapIndex[i] \in Nat /\ snapTerm[i] \in Nat
         /\ commitIndex[i] \in Nat /\ lastApplied[i] \in Nat /\ currentTerm[i] \in Nat
         /\ logs[i] \in Seq(LogEntry(Command))
         /\ \A k \in DOMAIN logs[i] : logs[i][k].index = snapIndex[i] + k
         /\ snapIndex[i] <= lastApplied[i] /\ lastApplied[i] <= commitIndex[i]
         /\ commitIndex[i] <= LastIndex(i)
<1>1. /\ logs[i] \in Seq(LogEntry(Command)) /\ snapIndex[i] \in Nat /\ snapTerm[i] \in Nat
      /\ commitIndex[i] \in Nat /\ lastApplied[i] \in Nat /\ currentTerm[i] \in Nat
  BY DEF IInv, TypeOK, Index, Term, Entries
<1>2. /\ \A k \in DOMAIN logs[i] : logs[i][k].index = snapIndex[i] + k
      /\ snapIndex[i] <= lastApplied[i] /\ lastApplied[i] <= commitIndex[i]
      /\ commitIndex[i] <= LastIndex(i)
  BY DEF IInv, IndexChain, LogIndexed
<1> QED
  BY <1>1, <1>2, LastOfNumbered DEF LastIndex

\* No index of any node moves backwards in this step.
Forward ==
  \A j \in Server :
     /\ LastIndex(j)' >= LastIndex(j)
     /\ commitIndex'[j] >= commitIndex[j]
     /\ lastApplied'[j] >= lastApplied[j]
     /\ snapIndex'[j] >= snapIndex[j]

\* A step that touches neither the logs nor the indexes moves nothing backwards.
LEMMA ForwardUnchanged ==
  ASSUME IInv, UNCHANGED <<logVars, applyVars>>
  PROVE  Forward
<1>1. ASSUME NEW j \in Server
      PROVE  LastIndex(j) \in Nat /\ commitIndex[j] \in Nat /\ lastApplied[j] \in Nat /\ snapIndex[j] \in Nat
  BY LogFacts, LastTyped DEF IInv
<1>2. ASSUME NEW j \in Server
      PROVE  /\ LastIndex(j)' = LastIndex(j) /\ commitIndex'[j] = commitIndex[j]
             /\ lastApplied'[j] = lastApplied[j] /\ snapIndex'[j] = snapIndex[j]
  BY DEF LastIndex, logVars, applyVars
<1> QED
  BY <1>1, <1>2 DEF Forward

\* A step of node i alone moves nothing backwards if nothing of i moves backwards.
LEMMA ForwardHere ==
  ASSUME IInv, NEW i \in Server,
         LastIndex(i)' >= LastIndex(i), commitIndex'[i] >= commitIndex[i],
         lastApplied'[i] >= lastApplied[i], snapIndex'[i] >= snapIndex[i],
         \A j \in Server \ {i} : UNCHANGED <<logs[j], snapIndex[j], commitIndex[j], lastApplied[j]>>
  PROVE  Forward
<1>1. ASSUME NEW j \in Server
      PROVE  LastIndex(j) \in Nat /\ commitIndex[j] \in Nat /\ lastApplied[j] \in Nat /\ snapIndex[j] \in Nat
  BY LogFacts, LastTyped DEF IInv
<1>2. ASSUME NEW j \in Server \ {i}
      PROVE  LastIndex(j)' = LastIndex(j)
  BY DEF LastIndex
<1> QED
  BY <1>1, <1>2 DEF Forward

\* The same of the state after a step.
LEMMA LastAfter ==
  ASSUME TypeOK', NEW i \in Server, LogIndexed(i)'
  PROVE  LastIndex(i)' = snapIndex'[i] + Len(logs'[i])
<1>1. logs'[i] \in Seq(LogEntry(Command)) /\ snapIndex'[i] \in Nat
  BY DEF TypeOK, Index, Entries
<1>2. \A k \in DOMAIN logs'[i] : logs'[i][k].index = snapIndex'[i] + k
  BY DEF LogIndexed
<1> QED
  BY <1>1, <1>2, LastOfNumbered DEF LastIndex

\* A new leader's reset of nextIndex and matchIndex preserves the invariant.
LEMMA ResetPeersInv ==
  ASSUME IInv, NEW t \in rv, ResetPeers(t)
  PROVE  IInv'
<1> DEFINE i == t.src
           u == [t EXCEPT !.pc = "done"]
<1>1. i \in Server /\ t \in VoteThreads
  BY DEF IInv, TypeOK, VoteThreads
<1>2. u \in VoteThreads /\ u.src = t.src /\ u.election = t.election
  BY <1>1 DEF VoteThreads
<1>3. rv' \subseteq VoteThreads /\ rv' \subseteq (rv \ {t}) \cup {u}
  BY <1>2 DEF ResetPeers, MoveRV, IInv, TypeOK
<1>4. LastIndex(i) \in Nat
  BY <1>1, LastTyped DEF IInv
<1>5. nextIndex' \in [Server -> [Server -> Nat]] /\ matchIndex' \in [Server -> [Server -> Nat]]
  <2>1. /\ nextIndex \in [Server -> [Server -> Nat]] /\ matchIndex \in [Server -> [Server -> Nat]]
        /\ nextIndex' = [nextIndex EXCEPT ![i] = [j \in Server |-> LastIndex(i) + 1]]
        /\ matchIndex' = [matchIndex EXCEPT ![i] = [j \in Server |-> 0]]
    BY DEF ResetPeers, IInv, TypeOK, Index
  <2>2. /\ [j \in Server |-> LastIndex(i) + 1] \in [Server -> Nat]
        /\ [j \in Server |-> 0] \in [Server -> Nat]
    BY <1>4
  <2> QED
    BY <1>1, <2>1, <2>2
<1>6. TypeOK'
  BY <1>3, <1>5 DEF ResetPeers, IInv, TypeOK, Index, electionVars, logVars, applyVars
<1>7. \A j \in Server : LastIndex(j)' = LastIndex(j)
  BY DEF ResetPeers, LastIndex, logVars
<1>8. IndexChain' /\ AssertionsHold' /\ AppendsInLog' /\ SnapshotsTaken'
  BY DEF ResetPeers, IInv, IndexChain, LogIndexed, LastIndex, AssertionsHold, AppendsInLog,
         SnapshotsTaken, logVars, applyVars
<1>9. CountersExist'
  <2>1. \A v \in rv' : v.election \in DOMAIN votedNum'[v.src]
    BY <1>2, <1>3, ThreadMoved DEF ResetPeers
  <2> QED
    BY <2>1 DEF ResetPeers, IInv, CountersExist
<1>10. PeersInLog'
  <2> SUFFICES ASSUME NEW k \in Server, NEW j \in Server
               PROVE  nextIndex'[k][j] <= LastIndex(k) + 1 /\ matchIndex'[k][j] <= LastIndex(k)
    BY <1>7 DEF PeersInLog
  <2>1. CASE k = i
    <3>1. nextIndex'[i] = [x \in Server |-> LastIndex(i) + 1] /\ matchIndex'[i] = [x \in Server |-> 0]
      BY <1>1 DEF ResetPeers, IInv, TypeOK
    <3>2. nextIndex'[i][j] = LastIndex(i) + 1 /\ matchIndex'[i][j] = 0
      BY <3>1
    <3> QED
      BY <1>4, <2>1, <3>2
  <2>2. CASE k # i
    BY <1>1, <2>2 DEF ResetPeers, IInv, TypeOK, Index, PeersInLog
  <2> QED
    BY <2>1, <2>2
<1> QED
  BY <1>6, <1>8, <1>9, <1>10 DEF IInv

-----------------------------------------------------------------------------
(* A round of the leader. *)

\* What AppendArgs sends to a peer that is not behind the snapshot.
LEMMA ArgsInLog ==
  ASSUME IInv, NEW i \in Server, NEW j \in Server,
         nextIndex[i][j] >= 1, nextIndex[i][j] > snapIndex[i]
  PROVE  LET m == AppendArgs(i, j)
         IN /\ m \in AppendThreads
            /\ m.src = i /\ m.round = Len(appendNums[i]) + 1
            /\ m.prev + Len(m.entries) = LastIndex(i)
            /\ \A k \in DOMAIN m.entries : m.entries[k].index = m.prev + k
            /\ m.hint <= m.prev
<1> DEFINE prev == nextIndex[i][j] - 1
           sent == DropThrough(logs[i], snapIndex[i], prev)
           m == AppendArgs(i, j)
<1>1. nextIndex[i][j] \in Nat /\ Len(appendNums[i]) \in Nat
  BY DEF IInv, TypeOK, Index
<1>2. prev \in Nat /\ snapIndex[i] <= prev /\ prev <= snapIndex[i] + Len(logs[i])
  BY <1>1, LogFacts DEF IInv, PeersInLog
<1>3. /\ sent \in Seq(LogEntry(Command))
      /\ prev + Len(sent) = LastIndex(i)
      /\ \A k \in DOMAIN sent : sent[k].index = prev + k
  <2>1. /\ logs[i] \in Seq(LogEntry(Command)) /\ snapIndex[i] \in Nat
        /\ \A k \in DOMAIN logs[i] : logs[i][k].index = snapIndex[i] + k
        /\ LastIndex(i) = snapIndex[i] + Len(logs[i])
    BY LogFacts
  <2> HIDE DEF prev
  <2> QED
    BY <1>2, <2>1, DropNumbered, ZenonT(40)
<1>4. PrevLogTerm(i, j) \in Nat
  <2>1. CASE prev = snapIndex[i]
    BY <2>1, LogFacts DEF PrevLogTerm, PrevLogIndex, TermAt
  <2>2. CASE prev # snapIndex[i]
    <3>1. prev - snapIndex[i] \in DOMAIN logs[i]
      BY <1>2, <2>2, LogFacts
    <3>2. logs[i][prev - snapIndex[i]] \in LogEntry(Command)
      BY <3>1, LogFacts
    <3> QED
      BY <2>2, <3>2 DEF PrevLogTerm, PrevLogIndex, TermAt, LogEntry
  <2> QED
    BY <2>1, <2>2
<1>5. m = [src |-> i, dst |-> j, round |-> Len(appendNums[i]) + 1, pc |-> "call",
           term |-> currentTerm[i], prev |-> prev, prevTerm |-> PrevLogTerm(i, j),
           entries |-> sent, commit |-> commitIndex[i], replyTerm |-> 0, success |-> FALSE, hint |-> 0]
  <2>1. nextIndex[i][j] - snapIndex[i] = prev - snapIndex[i] + 1
    BY <1>1, LogFacts
  <2> QED
    BY <2>1 DEF AppendArgs, PrevLogIndex, DropThrough
<1>6. m \in AppendThreads
  <2> HIDE DEF m, prev, sent
  <2> QED
    BY <1>1, <1>2, <1>3, <1>4, <1>5, LogFacts DEF AppendThreads, Index, Term, Entries
<1>7. m.src = i /\ m.round = Len(appendNums[i]) + 1 /\ m.prev = prev /\ m.entries = sent /\ m.hint = 0
  BY <1>5
<1> HIDE DEF m, prev, sent
<1> QED
  BY <1>2, <1>3, <1>6, <1>7 DEF m

\* A round preserves the invariant: what its threads carry is in the leader's log.
LEMMA DoHeartBeatInv ==
  ASSUME IInv, NEW i \in Server, DoHeartBeat(i)
  PROVE  IInv'
<1> DEFINE peers == Server \ {i}
           sends == {AppendArgs(i, j) : j \in peers \ Behind(i)}
           snaps == {[src |-> i, dst |-> j, round |-> Len(appendNums[i]) + 1, pc |-> "spawned",
                      term |-> 0, index |-> 0, snapTerm |-> 0, replyTerm |-> 0] : j \in Behind(i)}
           zero == {j \in peers : nextIndex[i][j] < 1}
           faults == UNION {Unless(m.prev + Len(m.entries) = LastIndex(i), "sentToEnd") : m \in sends}
<1>1. failed \in [Server -> SUBSET Assertion] /\ appendNums \in [Server -> Seq(Nat)]
  BY DEF IInv, TypeOK
<1>2. \A j \in Server : LastIndex(j)' = LastIndex(j)
  BY DEF DoHeartBeat, LastIndex, logVars
<1>3. IndexChain' /\ PeersInLog'
  BY DEF DoHeartBeat, IInv, IndexChain, PeersInLog, LogIndexed, LastIndex, logVars, applyVars, leaderVars
<1>4. CASE zero # {}
  <2>1. failed' = [failed EXCEPT ![i] = {"nextIndex"}] /\ UNCHANGED <<appendNums, ae, is>>
    BY <1>4 DEF DoHeartBeat, Exit
  <2>2. failed' \in [Server -> SUBSET Assertion] /\ AssertionsHold'
    BY <1>1, <2>1 DEF Assertion, AssertionsHold, IInv
  <2>3. TypeOK'
    BY <2>1, <2>2 DEF DoHeartBeat, IInv, TypeOK, electionVars, logVars, applyVars, leaderVars
  <2>4. CountersExist' /\ AppendsInLog' /\ SnapshotsTaken'
    BY <2>1, <1>2 DEF DoHeartBeat, IInv, CountersExist, AppendsInLog, SnapshotsTaken, LastIndex, logVars
  <2> QED
    BY <1>3, <2>2, <2>3, <2>4 DEF IInv
<1>5. CASE zero = {}
  <2>1. ASSUME NEW m \in sends
        PROVE  /\ m \in AppendThreads
               /\ m.src = i /\ m.round = Len(appendNums[i]) + 1
               /\ m.prev + Len(m.entries) = LastIndex(i)
               /\ \A k \in DOMAIN m.entries : m.entries[k].index = m.prev + k
               /\ m.hint <= m.prev
    <3>1. PICK j \in peers \ Behind(i) : m = AppendArgs(i, j)
      OBVIOUS
    <3>2. nextIndex[i][j] \in Nat /\ snapIndex[i] \in Nat
      BY LogFacts DEF IInv, TypeOK, Index
    <3>3. nextIndex[i][j] >= 1 /\ nextIndex[i][j] > snapIndex[i]
      BY <1>5, <3>2 DEF Behind
    <3> QED
      BY <3>1, <3>3, ArgsInLog
  <2> HIDE DEF sends, zero
  <2>2. failed' = [failed EXCEPT ![i] = {}]
    <3>1. faults = {}
      BY <2>1 DEF Unless
    <3> QED
      BY <1>5, <3>1 DEF DoHeartBeat, Exit, sends, zero
  <2>3. /\ appendNums' = [appendNums EXCEPT ![i] = Append(@, 1)]
        /\ ae' = ae \cup sends
        /\ is' = is \cup snaps
    BY <1>5 DEF DoHeartBeat, sends, zero
  <2>4. failed' \in [Server -> SUBSET Assertion] /\ AssertionsHold'
    BY <1>1, <2>2 DEF AssertionsHold, IInv
  <2>5. Len(appendNums[i]) \in Nat /\ snapIndex \in [Server -> Nat]
    BY <1>1 DEF IInv, TypeOK, Index
  <2>6. snaps \subseteq SnapshotThreads
    BY <2>5 DEF SnapshotThreads, Behind, Index, Term
  <2>7. TypeOK'
    <3>1. appendNums' \in [Server -> Seq(Nat)]
      BY <1>1, <2>3
    <3>2. ae' \subseteq AppendThreads /\ is' \subseteq SnapshotThreads
      BY <2>1, <2>3, <2>6 DEF IInv, TypeOK
    <3> QED
      BY <2>4, <3>1, <3>2 DEF DoHeartBeat, IInv, TypeOK, electionVars, logVars, applyVars, leaderVars
  <2>8. CountersExist'
    <3>1. /\ \A j \in Server : DOMAIN appendNums[j] \subseteq DOMAIN appendNums'[j]
          /\ Len(appendNums[i]) + 1 \in DOMAIN appendNums'[i]
      BY <1>1, <2>3
    <3>2. \A m \in ae' : m.round \in DOMAIN appendNums'[m.src]
      BY <2>1, <2>3, <3>1 DEF IInv, TypeOK, AppendThreads, CountersExist
    <3> QED
      BY <3>2 DEF DoHeartBeat, IInv, CountersExist
  <2>9. AppendsInLog'
    <3> SUFFICES ASSUME NEW m \in ae'
                 PROVE  /\ m.prev + Len(m.entries) <= LastIndex(m.src)
                        /\ \A k \in DOMAIN m.entries : m.entries[k].index = m.prev + k
                        /\ m.hint <= m.prev
      BY DEF DoHeartBeat, AppendsInLog, LastIndex, logVars
    <3>1. CASE m \in ae
      BY <3>1 DEF IInv, AppendsInLog
    <3>2. CASE m \in sends
      <4>1. LastIndex(i) \in Nat
        BY LastTyped DEF IInv
      <4> QED
        BY <2>1, <3>2, <4>1
    <3> QED
      BY <2>3, <3>1, <3>2
  <2>10. SnapshotsTaken'
    <3>1. \A s \in snaps : s.index <= snapIndex[s.src]
      BY <2>5
    <3> HIDE DEF snaps
    <3> QED
      BY <2>3, <3>1 DEF DoHeartBeat, IInv, SnapshotsTaken, logVars
  <2> QED
    BY <1>3, <2>4, <2>7, <2>8, <2>9, <2>10 DEF IInv
<1> QED
  BY <1>4, <1>5

-----------------------------------------------------------------------------
(* AppendEntries1 and sendAppendEntries. *)

\* Assertions outside AssertionsHold may fail.
HarmlessFailure == {"replyTerm", "leaderTwice", "nextIndex", "matchLog", "commandsDiffer"}

\* An assertion that AssertionsHold does not speak of may end a process.
LEMMA FailedHarmlessly ==
  ASSUME IInv, NEW i \in Server, NEW names \in SUBSET HarmlessFailure,
         failed' = [failed EXCEPT ![i] = names]
  PROVE  failed' \in [Server -> SUBSET Assertion] /\ AssertionsHold'
BY DEF IInv, TypeOK, AssertionsHold, HarmlessFailure, Assertion

\* Adopting a request's term keeps the types of the election's members.
LEMMA Adopted ==
  ASSUME IInv, NEW i \in Server, NEW term \in Nat, AdoptTerm(i, term)
  PROVE  /\ currentTerm' \in [Server -> Nat]
         /\ votedFor' \in [Server -> Server \cup {NoVote}]
         /\ status' \in [Server -> Status]
BY DEF AdoptTerm, IInv, TypeOK, Term, Status

\* An append thread replaced by one with the same arguments and a hint within
\* prev, or ended, while no log, index or counter changes.
LEMMA AppendMoved ==
  ASSUME IInv, NEW m \in ae, NEW u \in AppendThreads,
         u.src = m.src, u.round = m.round, u.prev = m.prev, u.entries = m.entries, u.hint <= m.prev,
         ae' \subseteq (ae \ {m}) \cup {u},
         failed' \in [Server -> SUBSET Assertion], AssertionsHold',
         currentTerm' \in [Server -> Nat],
         votedFor' \in [Server -> Server \cup {NoVote}],
         status' \in [Server -> Status],
         UNCHANGED <<logVars, applyVars, leaderVars, votedNum, appendNums, rv, is>>
  PROVE  IInv'
<1>1. TypeOK'
  BY DEF IInv, TypeOK, Term, logVars, applyVars, leaderVars
<1>2. IndexChain' /\ PeersInLog' /\ SnapshotsTaken'
  BY DEF IInv, IndexChain, PeersInLog, SnapshotsTaken, LogIndexed, LastIndex, logVars, applyVars, leaderVars
<1>3. CountersExist'
  BY DEF IInv, CountersExist
<1>4. AppendsInLog'
  BY DEF IInv, AppendsInLog, LastIndex, logVars
<1> QED
  BY <1>1, <1>2, <1>3, <1>4 DEF IInv

\* What the invariant says of one thread of sendAppendEntries.
LEMMA AppendThreadFacts ==
  ASSUME IInv, NEW m \in ae
  PROVE  /\ m \in AppendThreads
         /\ m.src \in Server /\ m.dst \in Server /\ m.term \in Nat /\ m.prev \in Nat
         /\ m.commit \in Nat /\ m.replyTerm \in Nat /\ m.hint \in Nat \cup {-100}
         /\ m.entries \in Seq(LogEntry(Command)) /\ Len(m.entries) \in Nat
         /\ m.prev + Len(m.entries) <= LastIndex(m.src)
         /\ \A k \in DOMAIN m.entries : m.entries[k].index = m.prev + k
         /\ m.hint <= m.prev
         /\ m.round \in DOMAIN appendNums[m.src]
<1>1. m \in AppendThreads
  BY DEF IInv, TypeOK
<1>2. m.entries \in Seq(LogEntry(Command))
  BY <1>1 DEF AppendThreads, Entries
<1> QED
  BY <1>1, <1>2 DEF AppendThreads, IInv, AppendsInLog, CountersExist, Index, Term

\* The reply of the receiver leaves the thread's arguments alone.
LEMMA Answered ==
  ASSUME IInv, NEW m \in ae, NEW term \in Nat, NEW success \in BOOLEAN, NEW hint \in Nat \cup {-100},
         AnswerAE(m, term, success, hint)
  PROVE  LET u == [m EXCEPT !.pc = "reply", !.replyTerm = term, !.success = success, !.hint = hint]
         IN /\ u \in AppendThreads
            /\ u.src = m.src /\ u.round = m.round /\ u.prev = m.prev /\ u.entries = m.entries /\ u.hint = hint
            /\ ae' \subseteq (ae \ {m}) \cup {u}
<1> DEFINE u == [m EXCEPT !.pc = "reply", !.replyTerm = term, !.success = success, !.hint = hint]
<1>1. m \in AppendThreads
  BY AppendThreadFacts
<1>2. /\ u \in AppendThreads
      /\ u.src = m.src /\ u.round = m.round /\ u.prev = m.prev /\ u.entries = m.entries /\ u.hint = hint
  BY <1>1 DEF AppendThreads, Term
<1>3. ae' \subseteq (ae \ {m}) \cup {u}
  BY DEF AnswerAE
<1> QED
  BY <1>2, <1>3

\* A branch of AppendEntries1 that only adopts the term and answers, with a hint no
\* greater than prev, preserves the invariant.
LEMMA RejectInv ==
  ASSUME IInv, NEW m \in ae, NEW term \in Nat, NEW hint \in Nat \cup {-100}, hint <= m.prev,
         AnswerAE(m, term, FALSE, hint),
         currentTerm' \in [Server -> Nat],
         votedFor' \in [Server -> Server \cup {NoVote}],
         status' \in [Server -> Status],
         UNCHANGED <<failed, logVars, applyVars, leaderVars, votedNum, appendNums, rv, is>>
  PROVE  IInv'
<1> DEFINE u == [m EXCEPT !.pc = "reply", !.replyTerm = term, !.success = FALSE, !.hint = hint]
<1>1. /\ u \in AppendThreads
      /\ u.src = m.src /\ u.round = m.round /\ u.prev = m.prev /\ u.entries = m.entries /\ u.hint = hint
      /\ ae' \subseteq (ae \ {m}) \cup {u}
  BY Answered
<1>2. failed' \in [Server -> SUBSET Assertion] /\ AssertionsHold'
  BY DEF IInv, TypeOK, AssertionsHold
<1> HIDE DEF u
<1> QED
  BY <1>1, <1>2, AppendMoved

\* An assertion outside AssertionsHold that ends the receiver, nothing else.
LEMMA FailInv ==
  ASSUME IInv, NEW m \in ae, NEW names \in SUBSET HarmlessFailure, Exit(m.dst, names),
         UNCHANGED <<electionVars, ae, logVars, applyVars, leaderVars, votedNum, appendNums, rv, is>>
  PROVE  IInv'
<1>1. failed' \in [Server -> SUBSET Assertion] /\ AssertionsHold'
  BY AppendThreadFacts, FailedHarmlessly DEF Exit
<1>2. /\ currentTerm' \in [Server -> Nat]
      /\ votedFor' \in [Server -> Server \cup {NoVote}]
      /\ status' \in [Server -> Status]
  BY DEF IInv, TypeOK, Term, electionVars
<1> QED
  BY <1>1, <1>2, AppendMoved, AppendThreadFacts

\* Logs that grow at the end, or are cut behind a newer snapshot: what the other
\* parts of the invariant say of the last index and the snapshot stays true.
LEMMA LogGrows ==
  ASSUME IInv, NEW i \in Server, IndexChain', TypeOK',
         LastIndex(i)' >= LastIndex(i), snapIndex'[i] >= snapIndex[i],
         \A j \in Server \ {i} : UNCHANGED <<logs[j], snapIndex[j]>>
  PROVE  /\ UNCHANGED leaderVars => PeersInLog'
         /\ UNCHANGED is => SnapshotsTaken'
         /\ \A m \in ae : m.prev + Len(m.entries) <= LastIndex(m.src)'
<1>1. \A j \in Server : LastIndex(j)' >= LastIndex(j) /\ snapIndex'[j] >= snapIndex[j]
  <2>1. \A j \in Server : LastIndex(j) \in Nat /\ snapIndex[j] \in Nat
    BY LastTyped, LogFacts DEF IInv
  <2> QED
    BY <2>1 DEF LastIndex
<1>2. \A j \in Server : LastIndex(j) \in Nat /\ LastIndex(j)' \in Nat /\ snapIndex[j] \in Nat /\ snapIndex'[j] \in Nat
  <2>1. \A j \in Server : LastIndex(j)' = snapIndex'[j] + Len(logs'[j])
    BY LastAfter DEF IndexChain
  <2>2. \A j \in Server : snapIndex'[j] \in Nat /\ logs'[j] \in Seq(LogEntry(Command))
    BY DEF TypeOK, Index, Entries
  <2> QED
    BY <2>1, <2>2, LastTyped, LogFacts DEF IInv
<1>3. UNCHANGED leaderVars => PeersInLog'
  <2> SUFFICES ASSUME UNCHANGED leaderVars, NEW k \in Server, NEW j \in Server
               PROVE  /\ nextIndex[k][j] <= LastIndex(k)' + 1
                      /\ matchIndex[k][j] <= LastIndex(k)'
    BY DEF PeersInLog, leaderVars
  <2>1. nextIndex[k][j] \in Nat /\ matchIndex[k][j] \in Nat
    BY DEF IInv, TypeOK, Index
  <2>2. nextIndex[k][j] <= LastIndex(k) + 1 /\ matchIndex[k][j] <= LastIndex(k)
    BY DEF IInv, PeersInLog
  <2> QED
    BY <1>1, <1>2, <2>1, <2>2
<1>4. UNCHANGED is => SnapshotsTaken'
  <2> SUFFICES ASSUME UNCHANGED is, NEW s \in is
               PROVE  s.index <= snapIndex'[s.src]
    BY DEF SnapshotsTaken
  <2>1. s.index \in Nat /\ s.src \in Server /\ s.index <= snapIndex[s.src]
    BY DEF IInv, TypeOK, SnapshotThreads, SnapshotsTaken, Index
  <2> QED
    BY <1>1, <1>2, <2>1
<1>5. ASSUME NEW m \in ae PROVE m.prev + Len(m.entries) <= LastIndex(m.src)'
  BY <1>1, <1>2, AppendThreadFacts
<1> QED
  BY <1>3, <1>4, <1>5

\* AppendEntries1: the five branches that change no log, then the one that does.
LEMMA RejectsInv ==
  ASSUME IInv, NEW m \in ae,
         \/ RejectOldTerm(m) \/ RejectGap(m) \/ FailBelowSnapshot(m)
         \/ RejectMismatch(m) \/ FailCommandsDiffer(m),
         UNCHANGED <<leaderVars, votedNum, appendNums, rv, is>>
  PROVE  IInv'
<1> DEFINE i == m.dst
           Typed == /\ currentTerm' \in [Server -> Nat]
                    /\ votedFor' \in [Server -> Server \cup {NoVote}]
                    /\ status' \in [Server -> Status]
<1>1. /\ i \in Server /\ m.term \in Nat /\ m.prev \in Nat
      /\ LastIndex(i) \in Nat /\ snapIndex[i] \in Nat /\ currentTerm[i] \in Nat
  BY AppendThreadFacts, LogFacts, LastTyped DEF IInv
<1>2. UNCHANGED electionVars => Typed
  BY DEF IInv, TypeOK, Term, electionVars
<1>3. AdoptTerm(i, m.term) => Typed
  BY <1>1, Adopted
<1>4. CASE RejectOldTerm(m)
  <2>1. /\ AnswerAE(m, currentTerm[i], FALSE, -100)
        /\ UNCHANGED <<failed, electionVars, logVars, applyVars, leaderVars, votedNum, appendNums, rv, is>>
    BY <1>4 DEF RejectOldTerm
  <2>2. -100 \in Nat \cup {-100} /\ -100 <= m.prev
    BY <1>1
  <2> QED
    BY <1>1, <1>2, <2>1, <2>2, RejectInv
<1>5. CASE RejectGap(m)
  <2>1. /\ AnswerAE(m, m.term, FALSE, LastIndex(i) + 1) /\ AdoptTerm(i, m.term)
        /\ UNCHANGED <<failed, logVars, applyVars, leaderVars, votedNum, appendNums, rv, is>>
    BY <1>5 DEF RejectGap
  <2>2. LastIndex(i) + 1 \in Nat \cup {-100} /\ LastIndex(i) + 1 <= m.prev
    BY <1>1, <1>5 DEF RejectGap
  <2> QED
    BY <1>1, <1>3, <2>1, <2>2, RejectInv
<1>6. CASE RejectMismatch(m)
  <2>1. PICK hint \in snapIndex[i] .. m.prev : AnswerAE(m, m.term, FALSE, hint)
    BY <1>6 DEF RejectMismatch
  <2>2. /\ AdoptTerm(i, m.term)
        /\ UNCHANGED <<failed, logVars, applyVars, leaderVars, votedNum, appendNums, rv, is>>
    BY <1>6 DEF RejectMismatch
  <2>3. hint \in Nat \cup {-100} /\ hint <= m.prev
    BY <1>1
  <2> QED
    BY <1>1, <1>3, <2>1, <2>2, <2>3, RejectInv
<1>7. CASE FailBelowSnapshot(m)
  BY <1>7, FailInv DEF FailBelowSnapshot, HarmlessFailure
<1>8. CASE FailCommandsDiffer(m)
  BY <1>8, FailInv DEF FailCommandsDiffer, HarmlessFailure
<1> QED
  BY <1>4, <1>5, <1>6, <1>7, <1>8

\* The branch of AppendEntries1 that merges the entries and moves the commit index.
LEMMA AcceptEntriesInv ==
  ASSUME IInv, NEW m \in ae, AcceptEntries(m),
         UNCHANGED <<leaderVars, votedNum, appendNums, rv, is>>
  PROVE  IInv' /\ Forward
<1> DEFINE i == m.dst
           merged == MergeSuffix(logs[i], snapIndex[i], m.prev, m.entries)
           last == LastLogIndex(merged, snapIndex[i])
           commit == IF m.commit > commitIndex[i] THEN Min2(m.commit, last) ELSE commitIndex[i]
           u == [m EXCEPT !.pc = "reply", !.replyTerm = m.term, !.success = TRUE, !.hint = 0]
<1>1. /\ i \in Server /\ m.term \in Nat /\ m.prev \in Nat /\ m.commit \in Nat
      /\ m.entries \in Seq(LogEntry(Command)) /\ Len(m.entries) \in Nat
      /\ \A k \in DOMAIN m.entries : m.entries[k].index = m.prev + k
  BY AppendThreadFacts
<1>2. snapIndex[i] <= m.prev /\ m.prev <= snapIndex[i] + Len(logs[i])
  BY <1>1, LogFacts DEF AcceptEntries, InLog
<1>3. /\ merged \in Seq(LogEntry(Command))
      /\ \A k \in DOMAIN merged : merged[k].index = snapIndex[i] + k
      /\ Len(merged) >= Len(logs[i])
      /\ snapIndex[i] + Len(merged) >= m.prev + Len(m.entries)
  <2>1. /\ logs[i] \in Seq(LogEntry(Command)) /\ snapIndex[i] \in Nat
        /\ \A k \in DOMAIN logs[i] : logs[i][k].index = snapIndex[i] + k
    BY <1>1, LogFacts
  <2> QED
    BY <1>1, <1>2, <2>1, MergeNumbered
<1> HIDE DEF merged
<1>4. last = snapIndex[i] + Len(merged) /\ Len(merged) \in Nat
  BY <1>1, <1>3, LogFacts, LastOfNumbered
<1>5. last >= LastIndex(i) /\ last >= m.prev + Len(m.entries) /\ last \in Nat
  BY <1>1, <1>3, <1>4, LogFacts
<1> HIDE DEF last
<1>6. commit \in Nat /\ commit <= last /\ commit >= commitIndex[i]
  BY <1>1, <1>5, LogFacts, SMTT(30) DEF Min2
<1> HIDE DEF commit
<1>7. /\ logs' = [logs EXCEPT ![i] = merged]
      /\ commitIndex' = [commitIndex EXCEPT ![i] = commit]
      /\ UNCHANGED <<snapIndex, snapTerm, lastApplied>>
      /\ AnswerAE(m, m.term, TRUE, 0)
      /\ AdoptTerm(i, m.term)
  BY DEF AcceptEntries, merged, last, commit
<1>8. failed' = [failed EXCEPT ![i] = {}]
  <2>1. Exit(i, Unless(last >= m.prev + Len(m.entries), "appended") \cup Unless(last >= commit, "commitInLog"))
    BY DEF AcceptEntries, merged, last, commit
  <2> QED
    BY <1>5, <1>6, <2>1 DEF Exit, Unless
<1>9. failed' \in [Server -> SUBSET Assertion] /\ AssertionsHold'
  BY <1>1, <1>8 DEF IInv, TypeOK, AssertionsHold
<1>10. /\ u \in AppendThreads
       /\ u.src = m.src /\ u.round = m.round /\ u.prev = m.prev /\ u.entries = m.entries /\ u.hint = 0
       /\ ae' \subseteq (ae \ {m}) \cup {u}
  BY <1>1, <1>7, Answered
<1> HIDE DEF u
<1>11. TypeOK'
  <2>1. logs' \in [Server -> Entries] /\ commitIndex' \in [Server -> Nat]
    BY <1>1, <1>3, <1>6, <1>7 DEF IInv, TypeOK, Entries, Index
  <2>2. ae' \subseteq AppendThreads
    BY <1>10 DEF IInv, TypeOK
  <2>3. /\ currentTerm' \in [Server -> Nat]
        /\ votedFor' \in [Server -> Server \cup {NoVote}]
        /\ status' \in [Server -> Status]
    BY <1>1, <1>7, Adopted
  <2> QED
    BY <1>7, <1>9, <2>1, <2>2, <2>3 DEF IInv, TypeOK, leaderVars, Term, Index
<1>12. IndexChain'
  <2> SUFFICES ASSUME NEW j \in Server
               PROVE  /\ LogIndexed(j)' /\ snapIndex'[j] <= lastApplied'[j]
                      /\ lastApplied'[j] <= commitIndex'[j] /\ commitIndex'[j] <= LastIndex(j)'
    BY DEF IndexChain
  <2>1. CASE j = i
    <3>1. logs'[i] = merged /\ commitIndex'[i] = commit /\ LastIndex(i)' = last
      BY <1>1, <1>7 DEF IInv, TypeOK, LastIndex, last
    <3>2. LogIndexed(i)'
      BY <1>3, <1>7, <3>1 DEF LogIndexed
    <3> QED
      BY <1>1, <1>6, <1>7, <2>1, <3>1, <3>2, LogFacts
  <2>2. CASE j # i
    <3>1. logs'[j] = logs[j] /\ commitIndex'[j] = commitIndex[j]
      BY <1>7, <2>2 DEF IInv, TypeOK
    <3> QED
      BY <1>7, <3>1 DEF IInv, IndexChain, LogIndexed, LastIndex
  <2> QED
    BY <2>1, <2>2
<1>13. /\ LastIndex(i)' >= LastIndex(i) /\ snapIndex'[i] >= snapIndex[i]
       /\ \A j \in Server \ {i} : UNCHANGED <<logs[j], snapIndex[j]>>
  <2>1. LastIndex(i)' = last
    BY <1>1, <1>7 DEF IInv, TypeOK, LastIndex, last
  <2>2. \A j \in Server \ {i} : UNCHANGED <<logs[j], snapIndex[j]>>
    BY <1>7 DEF IInv, TypeOK
  <2>3. snapIndex'[i] >= snapIndex[i]
    BY <1>1, <1>7, LogFacts
  <2> QED
    BY <1>5, <2>1, <2>2, <2>3
<1>14. /\ PeersInLog' /\ SnapshotsTaken'
       /\ \A n \in ae : n.prev + Len(n.entries) <= LastIndex(n.src)'
  BY <1>1, <1>11, <1>12, <1>13, LogGrows
<1>15. AppendsInLog'
  BY <1>1, <1>10, <1>14 DEF IInv, AppendsInLog
<1>16. CountersExist'
  BY <1>10 DEF IInv, CountersExist
<1>17. Forward
  <2>1. /\ commitIndex'[i] = commit /\ lastApplied'[i] = lastApplied[i]
        /\ \A j \in Server \ {i} : UNCHANGED <<commitIndex[j], lastApplied[j]>>
    BY <1>1, <1>7 DEF IInv, TypeOK
  <2>2. commitIndex'[i] >= commitIndex[i] /\ lastApplied'[i] >= lastApplied[i]
    BY <1>1, <1>6, <2>1, LogFacts
  <2>3. \A j \in Server \ {i} : UNCHANGED <<logs[j], snapIndex[j], commitIndex[j], lastApplied[j]>>
    BY <1>13, <2>1
  <2> QED
    BY <1>1, <1>13, <2>2, <2>3, ForwardHere
<1> QED
  BY <1>9, <1>11, <1>12, <1>14, <1>15, <1>16, <1>17 DEF IInv

\* Every branch of AppendEntries1 preserves the invariant.
LEMMA AppendEntries1Inv ==
  ASSUME IInv, NEW m \in ae, AppendEntries1(m)
  PROVE  IInv' /\ Forward
<1>1. CASE AcceptEntries(m)
  BY <1>1, AcceptEntriesInv DEF AppendEntries1
<1>2. CASE \/ RejectOldTerm(m) \/ RejectGap(m) \/ FailBelowSnapshot(m)
           \/ RejectMismatch(m) \/ FailCommandsDiffer(m)
  <2>1. UNCHANGED <<logVars, applyVars>>
    BY <1>2 DEF RejectOldTerm, RejectGap, FailBelowSnapshot, RejectMismatch, FailCommandsDiffer
  <2> QED
    BY <1>2, <2>1, RejectsInv, ForwardUnchanged DEF AppendEntries1
<1> QED
  BY <1>1, <1>2 DEF AppendEntries1

\* sendAppendEntries on a higher term or a stale reply: the thread ends without
\* touching what the node knows of its peers.
LEMMA EndsInv ==
  ASSUME IInv, NEW m \in ae, AppendStepDown(m) \/ AppendStale(m),
         UNCHANGED <<logVars, votedNum, rv, is>>
  PROVE  IInv'
<1>1. /\ currentTerm' \in [Server -> Nat]
      /\ votedFor' \in [Server -> Server \cup {NoVote}]
      /\ status' \in [Server -> Status]
  <2>1. m.replyTerm \in Nat
    BY AppendThreadFacts
  <2> QED
    BY <2>1 DEF AppendStepDown, AppendStale, IInv, TypeOK, Term, Status, electionVars
<1>2. failed' \in [Server -> SUBSET Assertion] /\ AssertionsHold'
  BY DEF AppendStepDown, AppendStale, IInv, TypeOK, AssertionsHold
<1>3. ae' \subseteq (ae \ {m}) \cup {m} /\ UNCHANGED <<applyVars, leaderVars, appendNums>>
  BY DEF AppendStepDown, AppendStale
<1>4. m \in AppendThreads /\ m.hint <= m.prev
  BY AppendThreadFacts
<1> QED
  BY <1>1, <1>2, <1>3, <1>4, AppendMoved

\* An update of what one node knows of one peer.
LEMMA RowUpdate ==
  ASSUME NEW f \in [Server -> [Server -> Nat]], NEW i \in Server, NEW j \in Server,
         NEW n \in Nat, NEW h, h = [f EXCEPT ![i][j] = n]
  PROVE  /\ h \in [Server -> [Server -> Nat]]
         /\ \A k, l \in Server : h[k][l] = IF k = i /\ l = j THEN n ELSE f[k][l]
<1> DEFINE row == f[i]
           new == [row EXCEPT ![j] = n]
<1>1. row \in [Server -> Nat]
  OBVIOUS
<1>2. new \in [Server -> Nat] /\ \A l \in Server : new[l] = IF l = j THEN n ELSE row[l]
  BY <1>1
<1>3. h = [f EXCEPT ![i] = new]
  OBVIOUS
<1> HIDE DEF new
<1> QED
  BY <1>2, <1>3

\* sendAppendEntries on a refusal: nextIndex goes to the hint, never past the log.
LEMMA AppendBackUpInv ==
  ASSUME IInv, NEW m \in ae, AppendBackUp(m), UNCHANGED <<logVars, votedNum, rv, is>>
  PROVE  IInv'
<1>1. /\ m.src \in Server /\ m.dst \in Server /\ m.hint \in Nat \cup {-100} /\ m.hint <= m.prev
      /\ m.prev \in Nat /\ Len(m.entries) \in Nat /\ m.prev + Len(m.entries) <= LastIndex(m.src)
      /\ LastIndex(m.src) \in Nat
  BY AppendThreadFacts, LastTyped DEF IInv
<1>2. nextIndex \in [Server -> [Server -> Nat]]
  BY DEF IInv, TypeOK, Index
<1>3. nextIndex' = nextIndex \/ (m.hint \in Nat /\ nextIndex' = [nextIndex EXCEPT ![m.src][m.dst] = m.hint])
  BY <1>1 DEF AppendBackUp
<1>4. /\ nextIndex' \in [Server -> [Server -> Nat]]
      /\ \A k, j \in Server :
           (nextIndex'[k][j] = nextIndex[k][j]) \/ (k = m.src /\ j = m.dst /\ nextIndex'[k][j] = m.hint)
  <2>1. CASE nextIndex' = nextIndex
    BY <1>2, <2>1
  <2>2. CASE m.hint \in Nat /\ nextIndex' = [nextIndex EXCEPT ![m.src][m.dst] = m.hint]
    BY <1>1, <1>2, <2>2, RowUpdate
  <2> QED
    BY <1>3, <2>1, <2>2
<1>5. TypeOK'
  BY <1>4 DEF AppendBackUp, IInv, TypeOK, Index, electionVars, logVars, applyVars
<1>6. \A j \in Server : LastIndex(j)' = LastIndex(j)
  BY DEF LastIndex, logVars
<1>7. PeersInLog'
  <2> SUFFICES ASSUME NEW k \in Server, NEW j \in Server
               PROVE  /\ nextIndex'[k][j] <= LastIndex(k) + 1
                      /\ matchIndex[k][j] <= LastIndex(k)
    BY <1>6 DEF PeersInLog, AppendBackUp
  <2>1. nextIndex[k][j] <= LastIndex(k) + 1 /\ matchIndex[k][j] <= LastIndex(k)
    BY DEF IInv, PeersInLog
  <2>2. CASE nextIndex'[k][j] = nextIndex[k][j]
    BY <2>1, <2>2
  <2>3. CASE k = m.src /\ j = m.dst /\ nextIndex'[k][j] = m.hint
    BY <1>1, <2>1, <2>3
  <2> QED
    BY <1>4, <2>2, <2>3
<1>8. IndexChain' /\ AssertionsHold' /\ CountersExist' /\ AppendsInLog' /\ SnapshotsTaken'
  BY DEF AppendBackUp, IInv, IndexChain, LogIndexed, LastIndex, AssertionsHold, CountersExist,
         AppendsInLog, SnapshotsTaken, logVars, applyVars
<1> QED
  BY <1>5, <1>7, <1>8 DEF IInv

\* sendAppendEntries on a success: what it makes of matchIndex, nextIndex and the
\* commit index is about entries the leader still has.
LEMMA AppendCountedInv ==
  ASSUME IInv, NEW m \in ae, AppendCounted(m), UNCHANGED <<logVars, votedNum, rv, is>>
  PROVE  IInv' /\ Forward
<1> DEFINE i == m.src
           match == Max2(matchIndex[i][m.dst], Sent(m))
           count == appendNums[i][m.round] + 1
           left == IF count >= Majority THEN 0 ELSE count
           commit == IF count >= Majority /\ OfCurrentTerm(m) THEN Max2(commitIndex[i], Sent(m))
                     ELSE commitIndex[i]
           u == [m EXCEPT !.pc = "counted"]
<1>1. /\ i \in Server /\ m.dst \in Server /\ m \in AppendThreads
      /\ Sent(m) \in Nat /\ Sent(m) <= LastIndex(i)
      /\ m.round \in DOMAIN appendNums[i]
      /\ LastIndex(i) \in Nat
  BY AppendThreadFacts, LastTyped DEF IInv, Sent
<1>2. /\ matchIndex \in [Server -> [Server -> Nat]] /\ nextIndex \in [Server -> [Server -> Nat]]
      /\ appendNums \in [Server -> Seq(Nat)] /\ commitIndex \in [Server -> Nat]
      /\ failed \in [Server -> SUBSET Assertion]
  BY DEF IInv, TypeOK, Index
<1>3. match \in Nat /\ match <= LastIndex(i)
  BY <1>1, <1>2 DEF Max2, IInv, PeersInLog
<1>4. left \in Nat
  <2> DEFINE s == appendNums[i]
  <2>0. s \in Seq(Nat) /\ m.round \in DOMAIN s
    BY <1>1, <1>2
  <2> HIDE DEF s
  <2>2. s[m.round] \in Nat
    BY <2>0
  <2>1. appendNums[i][m.round] \in Nat
    BY <2>2 DEF s
  <2> QED
    BY <2>1
<1>5. commit \in Nat /\ commit <= LastIndex(i) /\ commit >= commitIndex[i]
  <2> DEFINE c == commitIndex[i]
             sent == Sent(m)
             last == LastIndex(i)
  <2>1. c \in Nat /\ c <= last
    BY <1>1, LogFacts
  <2>2. sent \in Nat /\ sent <= last /\ last \in Nat
    BY <1>1
  <2>3. commit = c \/ commit = Max2(c, sent)
    OBVIOUS
  <2> HIDE DEF c, sent, last, commit
  <2>4. commit \in Nat /\ commit <= last /\ commit >= c
    BY <2>1, <2>2, <2>3 DEF Max2
  <2> QED
    BY <2>4 DEF c, last
<1>6. u \in AppendThreads /\ u.src = m.src /\ u.round = m.round /\ u.prev = m.prev /\ u.entries = m.entries /\ u.hint = m.hint
  BY <1>1 DEF AppendThreads
<1> HIDE DEF match, count, left, commit, u
<1>7. /\ matchIndex' = [matchIndex EXCEPT ![i][m.dst] = match]
      /\ nextIndex' = [nextIndex EXCEPT ![i][m.dst] = match + 1]
      /\ appendNums' = [appendNums EXCEPT ![i][m.round] = left]
      /\ commitIndex' = [commitIndex EXCEPT ![i] = commit]
      /\ ae' = (ae \ {m}) \cup {u}
      /\ UNCHANGED <<electionVars, lastApplied>>
  BY DEF AppendCounted, match, count, left, commit, u
<1>8. failed' = [failed EXCEPT ![i] = {}]
  <2>1. Exit(i, Unless(match + 1 <= LastIndex(i) + 1, "nextPastEnd") \cup Unless(commit <= LastIndex(i), "commitPastEnd"))
    BY DEF AppendCounted, match, count, commit
  <2>2. match + 1 <= LastIndex(i) + 1 /\ commit <= LastIndex(i)
    BY <1>1, <1>3, <1>5
  <2>3. Unless(match + 1 <= LastIndex(i) + 1, "nextPastEnd") = {} /\ Unless(commit <= LastIndex(i), "commitPastEnd") = {}
    BY <2>2 DEF Unless
  <2> QED
    BY <2>1, <2>3 DEF Exit
<1>9. failed' \in [Server -> SUBSET Assertion] /\ AssertionsHold'
  BY <1>1, <1>2, <1>8 DEF IInv, AssertionsHold
<1>10. /\ appendNums' \in [Server -> Seq(Nat)]
       /\ \A j \in Server : DOMAIN appendNums'[j] = DOMAIN appendNums[j]
  BY <1>1, <1>2, <1>4, <1>7, CounterUpdate
<1>17. /\ matchIndex' \in [Server -> [Server -> Nat]]
       /\ nextIndex' \in [Server -> [Server -> Nat]]
       /\ \A k, l \in Server :
            /\ matchIndex'[k][l] = IF k = i /\ l = m.dst THEN match ELSE matchIndex[k][l]
            /\ nextIndex'[k][l] = IF k = i /\ l = m.dst THEN match + 1 ELSE nextIndex[k][l]
  <2>1. match + 1 \in Nat
    BY <1>3
  <2>2. matchIndex' = [matchIndex EXCEPT ![i][m.dst] = match]
    BY <1>7
  <2>3. nextIndex' = [nextIndex EXCEPT ![i][m.dst] = match + 1]
    BY <1>7
  <2>4. /\ matchIndex' \in [Server -> [Server -> Nat]]
        /\ \A k, l \in Server : matchIndex'[k][l] = IF k = i /\ l = m.dst THEN match ELSE matchIndex[k][l]
    BY <1>1, <1>2, <1>3, <2>2, RowUpdate, ZenonT(40)
  <2>5. /\ nextIndex' \in [Server -> [Server -> Nat]]
        /\ \A k, l \in Server : nextIndex'[k][l] = IF k = i /\ l = m.dst THEN match + 1 ELSE nextIndex[k][l]
    BY <1>1, <1>2, <2>1, <2>3, RowUpdate, ZenonT(40)
  <2> QED
    BY <2>4, <2>5
<1>11. TypeOK'
  <2>1. matchIndex' \in [Server -> [Server -> Nat]] /\ nextIndex' \in [Server -> [Server -> Nat]]
    BY <1>17
  <2>2. ae' \subseteq AppendThreads
    BY <1>6, <1>7 DEF IInv, TypeOK
  <2>3. commitIndex' \in [Server -> Nat]
    BY <1>1, <1>2, <1>5, <1>7
  <2> QED
    BY <1>7, <1>9, <1>10, <2>1, <2>2, <2>3 DEF IInv, TypeOK, Index, electionVars, logVars
<1>12. \A j \in Server : LastIndex(j)' = LastIndex(j)
  BY DEF LastIndex, logVars
<1>13. PeersInLog'
  <2> SUFFICES ASSUME NEW k \in Server, NEW j \in Server
               PROVE  nextIndex'[k][j] <= LastIndex(k) + 1 /\ matchIndex'[k][j] <= LastIndex(k)
    BY <1>12 DEF PeersInLog
  <2>1. CASE k = i /\ j = m.dst
    BY <1>1, <1>3, <1>17, <2>1
  <2>2. CASE ~(k = i /\ j = m.dst)
    <3>1. nextIndex'[k][j] = nextIndex[k][j] /\ matchIndex'[k][j] = matchIndex[k][j]
      BY <1>17, <2>2
    <3> QED
      BY <3>1 DEF IInv, PeersInLog
  <2> QED
    BY <2>1, <2>2
<1>14. IndexChain'
  <2> SUFFICES ASSUME NEW j \in Server
               PROVE  /\ LogIndexed(j)' /\ snapIndex'[j] <= lastApplied'[j]
                      /\ lastApplied'[j] <= commitIndex'[j] /\ commitIndex'[j] <= LastIndex(j)'
    BY DEF IndexChain
  <2>1. commitIndex'[j] = IF j = i THEN commit ELSE commitIndex[j]
    BY <1>1, <1>2, <1>7
  <2> QED
    BY <1>5, <1>7, <1>12, <2>1, LogFacts DEF LogIndexed, logVars
<1>15. CountersExist'
  <2>1. ASSUME NEW n \in ae'
        PROVE  n.round \in DOMAIN appendNums'[n.src]
    <3>1. CASE n = u
      BY <1>1, <1>6, <1>10, <3>1
    <3>2. CASE n \in ae
      <4>1. n.src \in Server /\ n.round \in DOMAIN appendNums[n.src]
        BY <3>2, AppendThreadFacts DEF IInv, CountersExist
      <4> QED
        BY <1>10, <4>1
    <3> QED
      BY <1>7, <3>1, <3>2
  <2> QED
    BY <2>1 DEF IInv, CountersExist
<1>16. AppendsInLog' /\ SnapshotsTaken'
  BY <1>6, <1>7, <1>12 DEF IInv, AppendsInLog, SnapshotsTaken, LastIndex, logVars
<1>18. Forward
  <2>1. /\ \A j \in Server : commitIndex'[j] = IF j = i THEN commit ELSE commitIndex[j]
        /\ \A j \in Server : lastApplied'[j] = lastApplied[j]
        /\ \A j \in Server : snapIndex'[j] = snapIndex[j] /\ logs'[j] = logs[j]
    BY <1>1, <1>2, <1>7 DEF logVars
  <2>2. lastApplied[i] \in Nat /\ snapIndex[i] \in Nat /\ commitIndex[i] \in Nat
    BY <1>1, LogFacts
  <2>3. /\ LastIndex(i)' >= LastIndex(i) /\ commitIndex'[i] >= commitIndex[i]
        /\ lastApplied'[i] >= lastApplied[i] /\ snapIndex'[i] >= snapIndex[i]
    BY <1>1, <1>5, <1>12, <2>1, <2>2
  <2>4. \A j \in Server \ {i} : UNCHANGED <<logs[j], snapIndex[j], commitIndex[j], lastApplied[j]>>
    BY <2>1
  <2> QED
    BY <1>1, <2>3, <2>4, ForwardHere
<1> QED
  BY <1>9, <1>11, <1>13, <1>14, <1>15, <1>16, <1>18 DEF IInv

\* Every branch of sendAppendEntries preserves the invariant.
LEMMA SendAppendEntriesInv ==
  ASSUME IInv, NEW m \in ae, SendAppendEntries(m)
  PROVE  IInv' /\ Forward
<1>1. CASE AppendCounted(m)
  BY <1>1, AppendCountedInv DEF SendAppendEntries
<1>2. CASE AppendStepDown(m) \/ AppendStale(m) \/ AppendBackUp(m)
  <2>1. UNCHANGED <<logVars, applyVars>>
    BY <1>2 DEF SendAppendEntries, AppendStepDown, AppendStale, AppendBackUp
  <2> QED
    BY <1>2, <2>1, EndsInv, AppendBackUpInv, ForwardUnchanged DEF SendAppendEntries
<1> QED
  BY <1>1, <1>2 DEF SendAppendEntries

-----------------------------------------------------------------------------
(* The steps of a snapshot thread. *)

\* What the invariant says of one thread of leaderSendSnapShot.
LEMMA SnapshotThreadFacts ==
  ASSUME IInv, NEW s \in is
  PROVE  /\ s \in SnapshotThreads
         /\ s.src \in Server /\ s.dst \in Server
         /\ s.term \in Nat /\ s.index \in Nat /\ s.snapTerm \in Nat /\ s.replyTerm \in Nat
         /\ s.index <= snapIndex[s.src] /\ s.index <= LastIndex(s.src)
<1>1. s \in SnapshotThreads
  BY DEF IInv, TypeOK
<1>2. /\ s.src \in Server /\ s.dst \in Server
      /\ s.term \in Nat /\ s.index \in Nat /\ s.snapTerm \in Nat /\ s.replyTerm \in Nat
  BY <1>1 DEF SnapshotThreads, Index, Term
<1>3. s.index <= snapIndex[s.src]
  BY DEF IInv, SnapshotsTaken
<1>4. /\ LastIndex(s.src) = snapIndex[s.src] + Len(logs[s.src])
      /\ Len(logs[s.src]) \in Nat /\ snapIndex[s.src] \in Nat
  BY <1>2, LogFacts
<1> QED
  BY <1>1, <1>2, <1>3, <1>4

\* A snapshot thread that moves or ends, what it holds of its sender's snapshot
\* being taken already, while no log, index or counter changes.
LEMMA SnapshotMoved ==
  ASSUME IInv, NEW s \in is, NEW u \in SnapshotThreads, u.index <= snapIndex[u.src],
         is' \subseteq (is \ {s}) \cup {u},
         currentTerm' \in [Server -> Nat],
         votedFor' \in [Server -> Server \cup {NoVote}],
         status' \in [Server -> Status],
         UNCHANGED <<failed, logVars, applyVars, leaderVars, votedNum, appendNums, rv, ae>>
  PROVE  IInv'
<1>1. TypeOK'
  BY DEF IInv, TypeOK, Term, logVars, applyVars, leaderVars
<1>2. IndexChain' /\ PeersInLog' /\ AppendsInLog' /\ AssertionsHold' /\ CountersExist'
  BY DEF IInv, IndexChain, PeersInLog, AppendsInLog, AssertionsHold, CountersExist, LogIndexed,
         LastIndex, logVars, applyVars, leaderVars
<1>3. SnapshotsTaken'
  BY DEF IInv, SnapshotsTaken, logVars
<1> QED
  BY <1>1, <1>2, <1>3 DEF IInv

\* leaderSendSnapShot sends the snapshot it finds, whoever leads by then.
LEMMA SendSnapshotInv ==
  ASSUME IInv, NEW s \in is, SendSnapshot(s)
  PROVE  IInv'
<1> DEFINE u == [s EXCEPT !.pc = "call", !.term = currentTerm[s.src],
                          !.index = snapIndex[s.src], !.snapTerm = snapTerm[s.src]]
<1>1. s \in SnapshotThreads /\ s.src \in Server
  BY SnapshotThreadFacts
<1>2. currentTerm[s.src] \in Nat /\ snapIndex[s.src] \in Nat /\ snapTerm[s.src] \in Nat
  BY <1>1, LogFacts
<1>3. u \in SnapshotThreads /\ u.src = s.src /\ u.index = snapIndex[s.src]
  BY <1>1, <1>2 DEF SnapshotThreads, Index, Term
<1>4. is' = (is \ {s}) \cup {u}
  BY DEF SendSnapshot
<1>5. /\ currentTerm' \in [Server -> Nat]
      /\ votedFor' \in [Server -> Server \cup {NoVote}]
      /\ status' \in [Server -> Status]
  BY DEF SendSnapshot, electionVars, IInv, TypeOK, Term
<1>6. UNCHANGED <<failed, logVars, applyVars, leaderVars, votedNum, appendNums, rv, ae>>
  BY DEF SendSnapshot
<1> HIDE DEF u
<1>7. u.index <= snapIndex[u.src]
  BY <1>2, <1>3
<1> QED
  BY <1>3, <1>4, <1>5, <1>6, <1>7, SnapshotMoved

\* The receiver's reply leaves the thread's arguments alone.
LEMMA SnapshotAnswered ==
  ASSUME IInv, NEW s \in is, NEW term \in Nat, AnswerIS(s, term)
  PROVE  \E u \in SnapshotThreads : u.src = s.src /\ u.index = s.index /\ is' \subseteq (is \ {s}) \cup {u}
<1> DEFINE u == [s EXCEPT !.pc = "reply", !.replyTerm = term]
<1>1. u \in SnapshotThreads /\ u.src = s.src /\ u.index = s.index
  BY SnapshotThreadFacts DEF SnapshotThreads, Term
<1>2. is' \subseteq (is \ {s}) \cup {u}
  BY DEF AnswerIS
<1> HIDE DEF u
<1> QED
  BY <1>1, <1>2

\* The branch of InstallSnapshot that replaces the log up to the snapshot's index.
LEMMA AcceptSnapshotInv ==
  ASSUME IInv, NEW s \in is, AcceptSnapshot(s),
         UNCHANGED <<failed, leaderVars, votedNum, appendNums, rv, ae>>
  PROVE  IInv' /\ Forward
<1> DEFINE i == s.dst
           kept == IF LastIndex(i) > s.index THEN DropThrough(logs[i], snapIndex[i], s.index) ELSE <<>>
           commit == Max2(commitIndex[i], s.index)
           applied == Max2(lastApplied[i], s.index)
<1>1. /\ i \in Server /\ s.term \in Nat /\ s.index \in Nat /\ s.snapTerm \in Nat
      /\ s.index > snapIndex[i]
  BY SnapshotThreadFacts DEF AcceptSnapshot
<1>2. /\ logs[i] \in Seq(LogEntry(Command)) /\ snapIndex[i] \in Nat
      /\ commitIndex[i] \in Nat /\ lastApplied[i] \in Nat
      /\ \A k \in DOMAIN logs[i] : logs[i][k].index = snapIndex[i] + k
      /\ LastIndex(i) = snapIndex[i] + Len(logs[i]) /\ Len(logs[i]) \in Nat
      /\ lastApplied[i] <= commitIndex[i] /\ commitIndex[i] <= LastIndex(i)
  BY <1>1, LogFacts
<1>3. /\ kept \in Seq(LogEntry(Command)) /\ Len(kept) \in Nat
      /\ \A k \in DOMAIN kept : kept[k].index = s.index + k
      /\ s.index + Len(kept) >= LastIndex(i)
      /\ s.index + Len(kept) >= commitIndex[i]
  <2>1. CASE LastIndex(i) > s.index
    <3> DEFINE rest == DropThrough(logs[i], snapIndex[i], s.index)
    <3>1. snapIndex[i] <= s.index /\ s.index <= snapIndex[i] + Len(logs[i])
      BY <1>1, <1>2, <2>1
    <3>2. /\ logs[i] \in Seq(LogEntry(Command)) /\ snapIndex[i] \in Nat /\ s.index \in Nat
          /\ \A k \in DOMAIN logs[i] : logs[i][k].index = snapIndex[i] + k
      BY <1>1, <1>2
    <3>3. /\ rest \in Seq(LogEntry(Command))
          /\ s.index + Len(rest) = snapIndex[i] + Len(logs[i])
          /\ \A k \in DOMAIN rest : rest[k].index = s.index + k
      <4> HIDE DEF kept
      <4> QED
        BY <3>1, <3>2, DropNumbered
    <3>4. kept = rest
      BY <2>1
    <3> HIDE DEF kept, rest
    <3>5. Len(kept) \in Nat
      BY <3>3, <3>4
    <3> QED
      BY <1>1, <1>2, <3>3, <3>4, <3>5
  <2>2. CASE ~(LastIndex(i) > s.index)
    <3>1. kept = <<>>
      BY <2>2
    <3> HIDE DEF kept
    <3> QED
      BY <1>1, <1>2, <2>2, <3>1
  <2> QED
    BY <2>1, <2>2
<1>4. /\ commit \in Nat /\ applied \in Nat
      /\ s.index <= applied /\ applied <= commit /\ commit <= s.index + Len(kept)
  <2> HIDE DEF kept
  <2> QED
    BY <1>1, <1>2, <1>3 DEF Max2
<1> HIDE DEF kept, commit, applied
<1>5. /\ logs' = [logs EXCEPT ![i] = kept]
      /\ snapIndex' = [snapIndex EXCEPT ![i] = s.index]
      /\ snapTerm' = [snapTerm EXCEPT ![i] = s.snapTerm]
      /\ commitIndex' = [commitIndex EXCEPT ![i] = commit]
      /\ lastApplied' = [lastApplied EXCEPT ![i] = applied]
  BY DEF AcceptSnapshot, kept, commit, applied
<1>6. PICK u \in SnapshotThreads : u.src = s.src /\ u.index = s.index /\ is' \subseteq (is \ {s}) \cup {u}
  BY <1>1, SnapshotAnswered DEF AcceptSnapshot
<1>7. TypeOK'
  <2>1. /\ currentTerm' \in [Server -> Nat]
        /\ votedFor' \in [Server -> Server \cup {NoVote}]
        /\ status' \in [Server -> Status]
    BY <1>1, Adopted DEF AcceptSnapshot
  <2>2. /\ logs' \in [Server -> Entries] /\ snapIndex' \in [Server -> Nat]
        /\ snapTerm' \in [Server -> Nat] /\ commitIndex' \in [Server -> Nat]
        /\ lastApplied' \in [Server -> Nat]
    BY <1>1, <1>3, <1>4, <1>5 DEF IInv, TypeOK, Index, Term, Entries
  <2>3. is' \subseteq SnapshotThreads
    BY <1>6 DEF IInv, TypeOK
  <2> QED
    BY <2>1, <2>2, <2>3 DEF IInv, TypeOK, Index, Term, leaderVars
<1>8. /\ logs'[i] = kept /\ snapIndex'[i] = s.index /\ commitIndex'[i] = commit
      /\ lastApplied'[i] = applied
      /\ \A j \in Server \ {i} : UNCHANGED <<logs[j], snapIndex[j], commitIndex[j], lastApplied[j]>>
  BY <1>1, <1>5 DEF IInv, TypeOK
<1>9. LogIndexed(i)'
  BY <1>3, <1>8 DEF LogIndexed
<1>10. LastIndex(i)' = s.index + Len(kept)
  BY <1>1, <1>7, <1>8, <1>9, LastAfter
<1>11. IndexChain'
  <2> SUFFICES ASSUME NEW j \in Server
               PROVE  /\ LogIndexed(j)' /\ snapIndex'[j] <= lastApplied'[j]
                      /\ lastApplied'[j] <= commitIndex'[j] /\ commitIndex'[j] <= LastIndex(j)'
    BY DEF IndexChain
  <2>1. CASE j = i
    BY <1>4, <1>8, <1>9, <1>10, <2>1
  <2>2. CASE j # i
    BY <1>8, <2>2 DEF IInv, IndexChain, LogIndexed, LastIndex
  <2> QED
    BY <2>1, <2>2
<1>12. LastIndex(i)' >= LastIndex(i) /\ snapIndex'[i] >= snapIndex[i]
  BY <1>1, <1>2, <1>3, <1>8, <1>10
<1>13. /\ \A j \in Server : snapIndex'[j] \in Nat /\ snapIndex[j] \in Nat /\ snapIndex'[j] >= snapIndex[j]
       /\ \A t \in is : t.index \in Nat /\ t.src \in Server
  <2>1. \A j \in Server : snapIndex'[j] \in Nat /\ snapIndex[j] \in Nat
    BY <1>7 DEF IInv, TypeOK, Index
  <2>2. \A j \in Server : snapIndex'[j] >= snapIndex[j]
    BY <1>8, <1>12, <2>1
  <2> QED
    BY <2>1, <2>2, SnapshotThreadFacts
<1>14. SnapshotsTaken'
  <2> SUFFICES ASSUME NEW t \in is' PROVE t.index <= snapIndex'[t.src]
    BY DEF SnapshotsTaken
  <2>1. PICK v \in is : t.index = v.index /\ t.src = v.src
    BY <1>6
  <2>2. v.index <= snapIndex[v.src]
    BY DEF IInv, SnapshotsTaken
  <2> QED
    BY <1>13, <2>1, <2>2
<1>15. PeersInLog' /\ AppendsInLog'
  <2>1. /\ PeersInLog'
        /\ \A m \in ae : m.prev + Len(m.entries) <= LastIndex(m.src)'
    BY <1>1, <1>7, <1>8, <1>11, <1>12, LogGrows
  <2> QED
    BY <2>1 DEF IInv, AppendsInLog
<1>16. CountersExist' /\ AssertionsHold'
  BY DEF IInv, CountersExist, AssertionsHold
<1>17. Forward
  <2>1. commitIndex'[i] >= commitIndex[i] /\ lastApplied'[i] >= lastApplied[i]
    BY <1>1, <1>2, <1>8 DEF Max2, commit, applied
  <2> QED
    BY <1>1, <1>8, <1>12, <2>1, ForwardHere
<1> QED
  BY <1>7, <1>11, <1>14, <1>15, <1>16, <1>17 DEF IInv

\* Every branch of InstallSnapshot preserves the invariant.
LEMMA InstallSnapshotInv ==
  ASSUME IInv, NEW s \in is, InstallSnapshot(s)
  PROVE  IInv' /\ Forward
<1>1. CASE RejectSnapshot(s) \/ KnownSnapshot(s)
  <2>1. /\ s.dst \in Server /\ s.src \in Server /\ s.term \in Nat
        /\ currentTerm[s.dst] \in Nat /\ 0 \in Nat /\ s.index <= snapIndex[s.src]
    BY SnapshotThreadFacts, LogFacts
  <2>2. \E term \in Nat : AnswerIS(s, term)
    BY <1>1, <2>1 DEF RejectSnapshot, KnownSnapshot
  <2>3. PICK u \in SnapshotThreads : u.src = s.src /\ u.index = s.index /\ is' \subseteq (is \ {s}) \cup {u}
    BY <2>2, SnapshotAnswered
  <2>4. /\ currentTerm' \in [Server -> Nat]
        /\ votedFor' \in [Server -> Server \cup {NoVote}]
        /\ status' \in [Server -> Status]
    <3>1. CASE RejectSnapshot(s)
      BY <3>1 DEF RejectSnapshot, electionVars, IInv, TypeOK, Term
    <3>2. CASE KnownSnapshot(s)
      BY <2>1, <3>2, Adopted DEF KnownSnapshot
    <3> QED
      BY <1>1, <3>1, <3>2
  <2>5. UNCHANGED <<failed, logVars, applyVars, leaderVars, votedNum, appendNums, rv, ae>>
    BY <1>1 DEF InstallSnapshot, RejectSnapshot, KnownSnapshot
  <2>6. u.index <= snapIndex[u.src]
    BY <2>1, <2>3
  <2> QED
    BY <2>3, <2>4, <2>5, <2>6, SnapshotMoved, ForwardUnchanged
<1>2. CASE AcceptSnapshot(s)
  BY <1>2, AcceptSnapshotInv DEF InstallSnapshot
<1> QED
  BY <1>1, <1>2 DEF InstallSnapshot

\* The end of leaderSendSnapShot, a reply of term 0 included, preserves the invariant.
LEMMA SnapshotReplyInv ==
  ASSUME IInv, NEW s \in is, SnapshotReply(s)
  PROVE  IInv'
<1> DEFINE i == s.src
<1>1. /\ i \in Server /\ s.dst \in Server /\ s.replyTerm \in Nat /\ s.index \in Nat
      /\ s \in SnapshotThreads /\ s.index <= LastIndex(i) /\ s.index <= snapIndex[i]
      /\ LastIndex(i) \in Nat
  BY SnapshotThreadFacts, LastTyped DEF IInv
<1>2. /\ is' \subseteq is \ {s}
      /\ UNCHANGED <<failed, logVars, applyVars, votedNum, appendNums, rv, ae>>
  BY DEF SnapshotReply
<1>3. CASE UNCHANGED leaderVars
  <2>1. AdoptTerm(i, s.replyTerm) \/ UNCHANGED electionVars
    BY DEF SnapshotReply
  <2>2. /\ currentTerm' \in [Server -> Nat]
        /\ votedFor' \in [Server -> Server \cup {NoVote}]
        /\ status' \in [Server -> Status]
    <3>1. CASE AdoptTerm(i, s.replyTerm)
      BY <1>1, <3>1, Adopted
    <3>2. CASE UNCHANGED electionVars
      BY <3>2 DEF electionVars, IInv, TypeOK, Term
    <3> QED
      BY <2>1, <3>1, <3>2
  <2> QED
    BY <1>1, <1>2, <1>3, <2>2, SnapshotMoved
<1>4. CASE ~UNCHANGED leaderVars
  <2>1. /\ matchIndex' = [matchIndex EXCEPT ![i][s.dst] = s.index]
        /\ nextIndex' = [nextIndex EXCEPT ![i][s.dst] = s.index + 1]
        /\ UNCHANGED electionVars
    BY <1>4 DEF SnapshotReply, leaderVars
  <2>2. matchIndex \in [Server -> [Server -> Nat]] /\ nextIndex \in [Server -> [Server -> Nat]]
    BY DEF IInv, TypeOK, Index
  <2>3. s.index + 1 \in Nat
    BY <1>1
  <2>4. /\ matchIndex' \in [Server -> [Server -> Nat]]
        /\ \A k, l \in Server : matchIndex'[k][l] = IF k = i /\ l = s.dst THEN s.index ELSE matchIndex[k][l]
    BY <1>1, <2>1, <2>2, RowUpdate
  <2>5. /\ nextIndex' \in [Server -> [Server -> Nat]]
        /\ \A k, l \in Server : nextIndex'[k][l] = IF k = i /\ l = s.dst THEN s.index + 1 ELSE nextIndex[k][l]
    BY <1>1, <2>1, <2>2, <2>3, RowUpdate
  <2>6. TypeOK'
    <3>1. is' \subseteq SnapshotThreads
      BY <1>2 DEF IInv, TypeOK
    <3> QED
      BY <1>2, <2>1, <2>4, <2>5, <3>1 DEF IInv, TypeOK, Index, electionVars, logVars, applyVars
  <2>7. PeersInLog'
    <3> SUFFICES ASSUME NEW k \in Server, NEW j \in Server
                 PROVE  nextIndex'[k][j] <= LastIndex(k) + 1 /\ matchIndex'[k][j] <= LastIndex(k)
      BY <1>2 DEF PeersInLog, LastIndex, logVars
    <3>1. CASE k = i /\ j = s.dst
      BY <1>1, <2>4, <2>5, <3>1
    <3>2. CASE ~(k = i /\ j = s.dst)
      <4>1. nextIndex'[k][j] = nextIndex[k][j] /\ matchIndex'[k][j] = matchIndex[k][j]
        BY <2>4, <2>5, <3>2
      <4> QED
        BY <4>1 DEF IInv, PeersInLog
    <3> QED
      BY <3>1, <3>2
  <2>8. IndexChain' /\ AppendsInLog' /\ AssertionsHold' /\ CountersExist' /\ SnapshotsTaken'
    BY <1>2 DEF IInv, IndexChain, AppendsInLog, AssertionsHold, CountersExist, SnapshotsTaken,
           LogIndexed, LastIndex, logVars, applyVars
  <2> QED
    BY <2>6, <2>7, <2>8 DEF IInv
<1> QED
  BY <1>3, <1>4

-----------------------------------------------------------------------------
(* The node's own steps. *)

\* Start appends the entry of the next index.
LEMMA StartInv ==
  ASSUME IInv, NEW i \in Server, NEW c \in Command, Start(i, c)
  PROVE  IInv' /\ Forward
<1> DEFINE e == [index |-> LastIndex(i) + 1, term |-> currentTerm[i], command |-> c]
           log == Append(logs[i], e)
<1>1. /\ logs[i] \in Seq(LogEntry(Command)) /\ snapIndex[i] \in Nat
      /\ commitIndex[i] \in Nat /\ currentTerm[i] \in Nat
      /\ \A k \in DOMAIN logs[i] : logs[i][k].index = snapIndex[i] + k
      /\ LastIndex(i) = snapIndex[i] + Len(logs[i]) /\ Len(logs[i]) \in Nat
      /\ commitIndex[i] <= LastIndex(i)
  BY LogFacts
<1>2. e \in LogEntry(Command) /\ e.index = snapIndex[i] + Len(logs[i]) + 1
  BY <1>1 DEF LogEntry
<1> HIDE DEF e
<1>3. /\ log \in Seq(LogEntry(Command)) /\ Len(log) = Len(logs[i]) + 1
      /\ \A k \in DOMAIN log : log[k].index = snapIndex[i] + k
  <2> DEFINE l == logs[i]
  <2>1. l \in Seq(LogEntry(Command)) /\ Len(l) \in Nat /\ DOMAIN l = 1 .. Len(l)
    BY <1>1
  <2>2. log = Append(l, e) /\ \A k \in DOMAIN l : l[k].index = snapIndex[i] + k
    BY <1>1
  <2> HIDE DEF l, log
  <2>3. log \in Seq(LogEntry(Command)) /\ Len(log) = Len(l) + 1
    BY <1>2, <2>1, <2>2
  <2>4. /\ DOMAIN log = 1 .. Len(l) + 1
        /\ \A k \in 1 .. Len(l) : log[k] = l[k]
        /\ log[Len(l) + 1] = e
    BY <1>2, <2>1, <2>2
  <2>5. ASSUME NEW k \in DOMAIN log PROVE log[k].index = snapIndex[i] + k
    <3>1. CASE k \in 1 .. Len(l)
      BY <2>1, <2>2, <2>4, <3>1
    <3>2. CASE k = Len(l) + 1
      BY <1>1, <1>2, <2>1, <2>4, <3>2 DEF l
    <3> QED
      BY <2>1, <2>4, <3>1, <3>2
  <2> QED
    BY <2>3, <2>5 DEF l
<1>4. logs' = [logs EXCEPT ![i] = log]
  BY DEF Start, e
<1> HIDE DEF log
<1>5. TypeOK'
  <2>1. logs' \in [Server -> Entries]
    BY <1>3, <1>4 DEF IInv, TypeOK, Entries
  <2> QED
    BY <2>1 DEF Start, IInv, TypeOK, electionVars, applyVars, leaderVars
<1>6. logs'[i] = log /\ \A j \in Server \ {i} : UNCHANGED logs[j]
  BY <1>4 DEF IInv, TypeOK
<1>7. UNCHANGED <<snapIndex, applyVars, leaderVars, failed, votedNum, appendNums, rv, ae, is>>
  BY DEF Start
<1>8. LogIndexed(i)'
  BY <1>3, <1>6, <1>7 DEF LogIndexed
<1>9. LastIndex(i)' = LastIndex(i) + 1
  <2>1. LastIndex(i)' = snapIndex'[i] + Len(logs'[i])
    BY <1>5, <1>8, LastAfter
  <2> QED
    BY <1>1, <1>3, <1>6, <1>7, <2>1
<1>10. IndexChain'
  <2> SUFFICES ASSUME NEW j \in Server
               PROVE  /\ LogIndexed(j)' /\ snapIndex'[j] <= lastApplied'[j]
                      /\ lastApplied'[j] <= commitIndex'[j] /\ commitIndex'[j] <= LastIndex(j)'
    BY DEF IndexChain
  <2>1. CASE j = i
    <3>1. commitIndex[i] <= LastIndex(i) + 1
      BY <1>1
    <3>2. snapIndex[i] <= lastApplied[i] /\ lastApplied[i] <= commitIndex[i]
      BY LogFacts
    <3> QED
      BY <1>7, <1>8, <1>9, <2>1, <3>1, <3>2 DEF applyVars
  <2>2. CASE j # i
    BY <1>6, <1>7, <2>2 DEF IInv, IndexChain, LogIndexed, LastIndex, applyVars
  <2> QED
    BY <2>1, <2>2
<1>11. PeersInLog' /\ SnapshotsTaken' /\ AppendsInLog'
  <2>1. LastIndex(i)' >= LastIndex(i) /\ snapIndex'[i] >= snapIndex[i]
    BY <1>1, <1>7, <1>9
  <2>2. \A j \in Server \ {i} : UNCHANGED <<logs[j], snapIndex[j]>>
    BY <1>6, <1>7
  <2>3. /\ PeersInLog' /\ SnapshotsTaken'
        /\ \A m \in ae : m.prev + Len(m.entries) <= LastIndex(m.src)'
    BY <1>5, <1>7, <1>10, <2>1, <2>2, LogGrows
  <2> QED
    BY <1>7, <2>3 DEF IInv, AppendsInLog
<1>12. CountersExist' /\ AssertionsHold'
  BY <1>7 DEF IInv, CountersExist, AssertionsHold
<1>13. Forward
  <2>1. commitIndex'[i] >= commitIndex[i] /\ lastApplied'[i] >= lastApplied[i]
    BY <1>1, <1>7, LogFacts DEF applyVars
  <2>2. LastIndex(i)' >= LastIndex(i) /\ snapIndex'[i] >= snapIndex[i]
    BY <1>1, <1>7, <1>9
  <2>3. \A j \in Server \ {i} : UNCHANGED <<logs[j], snapIndex[j], commitIndex[j], lastApplied[j]>>
    BY <1>6, <1>7 DEF applyVars
  <2> QED
    BY <2>1, <2>2, <2>3, ForwardHere
<1> QED
  BY <1>5, <1>10, <1>11, <1>12, <1>13 DEF IInv

\* Every entry up to commitIndex is where its subscript says.
LEMMA ApplierTickerInv ==
  ASSUME IInv, NEW i \in Server, ApplierTicker(i)
  PROVE  IInv' /\ Forward
<1> DEFINE range == lastApplied[i] + 1 .. commitIndex[i]
           wrong(n) == Unless(n - snapIndex[i] \in DOMAIN logs[i] /\ logs[i][n - snapIndex[i]].index = n,
                              "applyIndex")
           applied == Max2(lastApplied[i], commitIndex[i])
<1>1. /\ logs[i] \in Seq(LogEntry(Command)) /\ snapIndex[i] \in Nat
      /\ commitIndex[i] \in Nat /\ lastApplied[i] \in Nat
      /\ \A k \in DOMAIN logs[i] : logs[i][k].index = snapIndex[i] + k
      /\ LastIndex(i) = snapIndex[i] + Len(logs[i]) /\ Len(logs[i]) \in Nat
      /\ snapIndex[i] <= lastApplied[i]
      /\ lastApplied[i] <= commitIndex[i] /\ commitIndex[i] <= LastIndex(i)
  BY LogFacts
<1>2. applied = commitIndex[i]
  BY <1>1 DEF Max2
<1>3. ASSUME NEW n \in range PROVE wrong(n) = {}
  <2>1. n - snapIndex[i] \in DOMAIN logs[i]
    BY <1>1
  <2>2. logs[i][n - snapIndex[i]].index = snapIndex[i] + (n - snapIndex[i])
    BY <1>1, <2>1
  <2>3. snapIndex[i] + (n - snapIndex[i]) = n
    BY <1>1
  <2> QED
    BY <2>1, <2>2, <2>3 DEF Unless
<1>4. failed' = [failed EXCEPT ![i] = {}]
  <2> DEFINE bad == UNION {wrong(n) : n \in range}
             late == Unless(commitIndex[i] <= LastIndex(i), "commitPastLog")
  <2>1. failed' = [failed EXCEPT ![i] = late \cup bad]
    BY DEF ApplierTicker, Exit
  <2>2. late = {}
    BY <1>1 DEF Unless
  <2>3. bad = {}
    <3> HIDE DEF wrong, range
    <3> QED
      BY <1>3
  <2> HIDE DEF bad, late
  <2> QED
    BY <2>1, <2>2, <2>3
<1>5. lastApplied' = [lastApplied EXCEPT ![i] = commitIndex[i]]
  BY <1>2 DEF ApplierTicker
<1>6. UNCHANGED <<electionVars, logVars, commitIndex, leaderVars, votedNum, appendNums, rv, ae, is>>
  BY DEF ApplierTicker
<1>7. failed' \in [Server -> SUBSET Assertion] /\ AssertionsHold'
  BY <1>4 DEF IInv, TypeOK, AssertionsHold
<1>8. TypeOK'
  BY <1>1, <1>5, <1>6, <1>7 DEF IInv, TypeOK, Index, electionVars, logVars, leaderVars
<1>9. IndexChain'
  <2> SUFFICES ASSUME NEW j \in Server
               PROVE  /\ LogIndexed(j)' /\ snapIndex'[j] <= lastApplied'[j]
                      /\ lastApplied'[j] <= commitIndex'[j] /\ commitIndex'[j] <= LastIndex(j)'
    BY DEF IndexChain
  <2>1. lastApplied'[j] = IF j = i THEN commitIndex[i] ELSE lastApplied[j]
    BY <1>5 DEF IInv, TypeOK
  <2>2. /\ LogIndexed(j)' /\ LastIndex(j)' = LastIndex(j)
        /\ UNCHANGED <<snapIndex[j], commitIndex[j]>>
    BY <1>6 DEF IInv, IndexChain, LogIndexed, LastIndex, logVars
  <2>3. /\ snapIndex[j] \in Nat /\ lastApplied[j] \in Nat /\ commitIndex[j] \in Nat
        /\ snapIndex[j] <= lastApplied[j] /\ lastApplied[j] <= commitIndex[j]
        /\ commitIndex[j] <= LastIndex(j)
    BY LogFacts
  <2> QED
    BY <1>1, <2>1, <2>2, <2>3
<1>10. PeersInLog' /\ AppendsInLog' /\ CountersExist' /\ SnapshotsTaken'
  BY <1>6 DEF IInv, PeersInLog, AppendsInLog, CountersExist, SnapshotsTaken, LastIndex, logVars, leaderVars
<1>11. Forward
  <2>1. \A j \in Server : lastApplied'[j] = IF j = i THEN commitIndex[i] ELSE lastApplied[j]
    BY <1>5 DEF IInv, TypeOK
  <2>2. \A j \in Server : LastIndex(j)' = LastIndex(j) /\ UNCHANGED <<logs[j], snapIndex[j], commitIndex[j]>>
    BY <1>6 DEF LastIndex, logVars
  <2>3. LastIndex(i) \in Nat
    BY LastTyped DEF IInv
  <2>4. /\ LastIndex(i)' >= LastIndex(i) /\ commitIndex'[i] >= commitIndex[i]
        /\ lastApplied'[i] >= lastApplied[i] /\ snapIndex'[i] >= snapIndex[i]
    BY <1>1, <2>1, <2>2, <2>3
  <2>5. \A j \in Server \ {i} : UNCHANGED <<logs[j], snapIndex[j], commitIndex[j], lastApplied[j]>>
    BY <2>1, <2>2
  <2> QED
    BY <2>4, <2>5, ForwardHere
<1> QED
  BY <1>7, <1>8, <1>9, <1>10, <1>11 DEF IInv

\* Snapshot cuts the log at an index that has been applied.
LEMMA SnapshotInv ==
  ASSUME IInv, NEW i \in Server, NEW n \in SnapshotAt, Snapshot(i, n)
  PROVE  IInv' /\ Forward
<1> DEFINE kept == DropThrough(logs[i], snapIndex[i], n)
           term == logs[i][n - snapIndex[i]].term
           applied == Max2(lastApplied[i], n)
<1>1. /\ logs[i] \in Seq(LogEntry(Command)) /\ snapIndex[i] \in Nat
      /\ commitIndex[i] \in Nat /\ lastApplied[i] \in Nat
      /\ \A k \in DOMAIN logs[i] : logs[i][k].index = snapIndex[i] + k
      /\ LastIndex(i) = snapIndex[i] + Len(logs[i]) /\ Len(logs[i]) \in Nat
      /\ lastApplied[i] <= commitIndex[i] /\ commitIndex[i] <= LastIndex(i)
  BY LogFacts
<1>2. n \in Nat /\ snapIndex[i] < n /\ n <= lastApplied[i] /\ n <= snapIndex[i] + Len(logs[i])
  BY <1>1, BoundsAssumption DEF Snapshot
<1>3. /\ kept \in Seq(LogEntry(Command))
      /\ n + Len(kept) = LastIndex(i)
      /\ \A k \in DOMAIN kept : kept[k].index = n + k
  <2>1. snapIndex[i] <= n
    BY <1>1, <1>2
  <2>3. /\ logs[i] \in Seq(LogEntry(Command)) /\ snapIndex[i] \in Nat /\ n \in Nat
        /\ n <= snapIndex[i] + Len(logs[i])
        /\ \A k \in DOMAIN logs[i] : logs[i][k].index = snapIndex[i] + k
    BY <1>1, <1>2
  <2>2. /\ kept \in Seq(LogEntry(Command))
        /\ n + Len(kept) = snapIndex[i] + Len(logs[i])
        /\ \A k \in DOMAIN kept : kept[k].index = n + k
    <3> DEFINE log == logs[i]
               snap == snapIndex[i]
    <3>1. /\ log \in Seq(LogEntry(Command)) /\ snap \in Nat /\ n \in Nat
          /\ snap <= n /\ n <= snap + Len(log)
          /\ \A k \in DOMAIN log : log[k].index = snap + k
      BY <2>1, <2>3
    <3> DEFINE rest == DropThrough(log, snap, n)
    <3> HIDE DEF kept, log, snap
    <3>3. /\ rest \in Seq(LogEntry(Command))
          /\ n + Len(rest) = snap + Len(log)
          /\ \A k \in DOMAIN rest : rest[k].index = n + k
      BY <3>1, DropNumbered
    <3> QED
      BY <3>3 DEF kept, log, snap
  <2> HIDE DEF kept
  <2> QED
    BY <1>1, <2>2
<1>4. term \in Nat
  <2>1. n - snapIndex[i] \in DOMAIN logs[i]
    BY <1>1, <1>2
  <2>2. logs[i][n - snapIndex[i]] \in LogEntry(Command)
    BY <1>1, <2>1
  <2> QED
    BY <2>2 DEF LogEntry
<1>5. applied = lastApplied[i]
  BY <1>1, <1>2 DEF Max2
<1> HIDE DEF kept, term, applied
<1>6. /\ logs' = [logs EXCEPT ![i] = kept]
      /\ snapIndex' = [snapIndex EXCEPT ![i] = n]
      /\ snapTerm' = [snapTerm EXCEPT ![i] = term]
      /\ lastApplied' = [lastApplied EXCEPT ![i] = applied]
      /\ UNCHANGED <<electionVars, commitIndex, leaderVars, votedNum, appendNums, rv, ae, is>>
  BY DEF Snapshot, kept, term, applied
<1>7. failed' = [failed EXCEPT ![i] = {}]
  <2>1. failed' = [failed EXCEPT ![i] = Unless(n + Len(kept) = LastIndex(i), "snapshotLength")]
    BY DEF Snapshot, Exit, kept
  <2>2. Unless(n + Len(kept) = LastIndex(i), "snapshotLength") = {}
    BY <1>3 DEF Unless
  <2> QED
    BY <2>1, <2>2
<1>8. failed' \in [Server -> SUBSET Assertion] /\ AssertionsHold'
  BY <1>7 DEF IInv, TypeOK, AssertionsHold
<1>9. TypeOK'
  <2>1. logs' \in [Server -> Entries] /\ snapIndex' \in [Server -> Nat] /\ snapTerm' \in [Server -> Nat]
        /\ lastApplied' \in [Server -> Nat]
    BY <1>1, <1>2, <1>3, <1>4, <1>5, <1>6 DEF IInv, TypeOK, Index, Term, Entries
  <2> QED
    BY <1>6, <1>8, <2>1 DEF IInv, TypeOK, Index, Term, electionVars, leaderVars
<1>10. /\ logs'[i] = kept /\ snapIndex'[i] = n /\ lastApplied'[i] = lastApplied[i]
       /\ UNCHANGED commitIndex[i]
       /\ \A j \in Server \ {i} : UNCHANGED <<logs[j], snapIndex[j], commitIndex[j], lastApplied[j]>>
  BY <1>5, <1>6 DEF IInv, TypeOK
<1>11. LogIndexed(i)'
  BY <1>3, <1>10 DEF LogIndexed
<1>12. LastIndex(i)' = LastIndex(i)
  BY <1>3, <1>9, <1>10, <1>11, LastAfter
<1>13. IndexChain'
  <2> SUFFICES ASSUME NEW j \in Server
               PROVE  /\ LogIndexed(j)' /\ snapIndex'[j] <= lastApplied'[j]
                      /\ lastApplied'[j] <= commitIndex'[j] /\ commitIndex'[j] <= LastIndex(j)'
    BY DEF IndexChain
  <2>1. CASE j = i
    BY <1>1, <1>2, <1>10, <1>11, <1>12, <2>1
  <2>2. CASE j # i
    BY <1>10, <2>2 DEF IInv, IndexChain, LogIndexed, LastIndex
  <2> QED
    BY <2>1, <2>2
<1>14. /\ LastIndex(i)' >= LastIndex(i) /\ snapIndex'[i] >= snapIndex[i]
       /\ commitIndex'[i] >= commitIndex[i] /\ lastApplied'[i] >= lastApplied[i]
  BY <1>1, <1>2, <1>10, <1>12
<1>15. PeersInLog' /\ SnapshotsTaken' /\ AppendsInLog'
  <2>1. /\ PeersInLog' /\ SnapshotsTaken'
        /\ \A m \in ae : m.prev + Len(m.entries) <= LastIndex(m.src)'
    BY <1>6, <1>9, <1>10, <1>13, <1>14, LogGrows
  <2> QED
    BY <1>6, <2>1 DEF IInv, AppendsInLog
<1>16. CountersExist'
  BY <1>6 DEF IInv, CountersExist
<1>17. Forward
  BY <1>10, <1>14, ForwardHere
<1> QED
  BY <1>8, <1>9, <1>13, <1>15, <1>16, <1>17 DEF IInv

-----------------------------------------------------------------------------
(* The theorems. *)

\* The invariant holds of a process that has just started.
LEMMA InitInv == Init => IInv
<1> SUFFICES ASSUME Init PROVE IInv
  OBVIOUS
<1>1. TypeOK
  BY DEF Init, TypeOK, Index, Term, Entries, Status
<1>2. \A i \in Server : LastIndex(i) = 0
  BY DEF Init, LastIndex, LastLogIndex
<1>3. IndexChain
  BY <1>2 DEF Init, IndexChain, LogIndexed
<1>4. CountersExist /\ AppendsInLog /\ SnapshotsTaken /\ AssertionsHold
  BY DEF Init, CountersExist, AppendsInLog, SnapshotsTaken, AssertionsHold
<1>5. PeersInLog
  BY <1>2 DEF Init, PeersInLog
<1> QED
  BY <1>1, <1>3, <1>4, <1>5 DEF IInv

\* Every step preserves the invariant and moves no index backwards.
LEMMA StepInv ==
  ASSUME IInv, [Next]_vars
  PROVE  IInv' /\ Forward
<1>1. ASSUME NEW i \in Server, DoElection(i) PROVE IInv' /\ Forward
  BY <1>1, DoElectionInv, ForwardUnchanged DEF DoElection
<1>2. ASSUME NEW i \in Server, DoHeartBeat(i) PROVE IInv' /\ Forward
  BY <1>2, DoHeartBeatInv, ForwardUnchanged DEF DoHeartBeat
<1>3. ASSUME NEW i \in Server, ApplierTicker(i) PROVE IInv' /\ Forward
  BY <1>3, ApplierTickerInv
<1>4. ASSUME NEW i \in Server, NEW c \in Command, Start(i, c) PROVE IInv' /\ Forward
  BY <1>4, StartInv
<1>5. ASSUME NEW i \in Server, NEW n \in SnapshotAt, Snapshot(i, n) PROVE IInv' /\ Forward
  BY <1>5, SnapshotInv
<1>6. ASSUME NEW t \in rv, RequestVote(t) PROVE IInv' /\ Forward
  BY <1>6, RequestVoteInv, ForwardUnchanged DEF RequestVote
<1>7. ASSUME NEW t \in rv, VoteStep(t) PROVE IInv' /\ Forward
  <2>1. UNCHANGED <<logVars, applyVars>>
    BY <1>7 DEF VoteStep, VoteReplyTerm, VoteStepDown, VoteLoad, VoteStore, VoteTest, VoteWon, BecomeLeader
  <2> QED
    BY <1>7, <2>1, VoteStepInv, ForwardUnchanged
<1>8. ASSUME NEW t \in rv, ResetPeers(t) PROVE IInv' /\ Forward
  BY <1>8, ResetPeersInv, ForwardUnchanged DEF ResetPeers
<1>9. ASSUME NEW m \in ae, AppendThread(m) PROVE IInv' /\ Forward
  BY <1>9, AppendEntries1Inv, SendAppendEntriesInv DEF AppendThread
<1>10. ASSUME NEW s \in is, SendSnapshot(s) PROVE IInv' /\ Forward
  BY <1>10, SendSnapshotInv, ForwardUnchanged DEF SendSnapshot
<1>11. ASSUME NEW s \in is, InstallSnapshot(s) PROVE IInv' /\ Forward
  BY <1>11, InstallSnapshotInv
<1>12. ASSUME NEW s \in is, SnapshotReply(s) PROVE IInv' /\ Forward
  BY <1>12, SnapshotReplyInv, ForwardUnchanged DEF SnapshotReply
<1>13. CASE UNCHANGED vars
  <2>1. UNCHANGED <<failed, electionVars, logVars, applyVars, leaderVars, votedNum, appendNums, rv, ae, is>>
    BY <1>13 DEF vars
  <2>2. IInv'
    BY <2>1 DEF IInv, TypeOK, IndexChain, LogIndexed, CountersExist, AppendsInLog, SnapshotsTaken,
            PeersInLog, AssertionsHold, LastIndex, electionVars, logVars, applyVars, leaderVars
  <2> QED
    BY <2>1, <2>2, ForwardUnchanged
<1> QED
  BY <1>1, <1>2, <1>3, <1>4, <1>5, <1>6, <1>7, <1>8, <1>9, <1>10, <1>11, <1>12, <1>13
  DEF Next, VoteThread, VoteStep, SnapshotThread

\* The inductive invariant holds in every reachable state, for every cluster,
\* every set of commands and every bound.
THEOREM Invariance == Spec => []IInv
<1>1. IInv /\ [Next]_vars => IInv'
  BY StepInv
<1> QED
  BY InitInv, <1>1, PTL DEF Spec

\* Raft's members and the threads' locals keep their types.
THEOREM TypeCorrect == Spec => []TypeOK
<1>1. IInv => TypeOK
  BY DEF IInv
<1> QED
  BY Invariance, <1>1, PTL

\* Every subscript getSlicesIndexFromLogIndex computes for an index between the
\* snapshot and the end of the log is that of the entry of this index, and the
\* snapshot, applied, commit and last indexes never cross.
THEOREM IndexSafety == Spec => []IndexChain
<1>1. IInv => IndexChain
  BY DEF IInv
<1> QED
  BY Invariance, <1>1, PTL

\* The eight assertions on what is appended, committed, applied, sent and cut
\* never end a process, however messages are lost, delayed or reordered.
THEOREM AssertionSafety == Spec => []AssertionsHold
<1>1. IInv => AssertionsHold
  BY DEF IInv
<1> QED
  BY Invariance, <1>1, PTL

\* No index of a node ever moves backwards: what Start promised keeps its place,
\* and no entry is applied twice.
THEOREM Monotonic == Spec => NeverBackwards
<1> DEFINE Ahead ==
       \A i \in Server :
          /\ LastIndex(i)' >= LastIndex(i)
          /\ commitIndex'[i] >= commitIndex[i]
          /\ lastApplied'[i] >= lastApplied[i]
          /\ snapIndex'[i] >= snapIndex[i]
<1>1. IInv /\ [Next]_vars => [Ahead]_vars
  BY StepInv DEF Forward
<1> HIDE DEF Ahead
<1>2. Spec => [][Ahead]_vars
  BY Invariance, <1>1, PTL DEF Spec
<1> QED
  BY <1>2 DEF NeverBackwards, Ahead
=============================================================================
