------------------------------ MODULE KvProofs ------------------------------
(***************************************************************************)
(* What the KvServer's clients and threads can rely on, whatever their     *)
(* number, their retries and the changes of leader: an acknowledged write  *)
(* is committed, and a queue of waitApplyCh has one owner.                 *)
(***************************************************************************)
EXTENDS KvProperties, TLAPS

-----------------------------------------------------------------------------
(* The inductive invariant. *)

\* Every request that a Clerk has made so far, and every value that may be stored.
Issued == UNION {{Operation(c, r) : r \in 1 .. clerks[c].request} : c \in Client}
Values == {NoValue} \cup UNION {{Script[c][r].value : r \in DOMAIN Script[c]} : c \in Client}

Err == {"", "OK", "ErrNoKey", "ErrWrongLeader"}
Clerks == [request : Nat, server : Server, calls : Nat, state : {"idle", "waiting"},
           err : Err, value : Values, seen : [Client -> Int]]
Waiting == {"create", "wait", "erase", "duplicate", "get"}
Threads == [op : Issued, call : Nat, server : Server, at : Waiting \cup {"start", "done"},
            index : Nat, err : Err, value : Values]

\* The Clerks go through their scripts; what is in a log was requested.
ClerksInv ==
  /\ clerks \in [Client -> Clerks]
  /\ \A c \in Client : 1 .. clerks[c].request \subseteq DOMAIN Script[c]
  /\ \A c \in Client : clerks[c].state = "waiting" => clerks[c].request > 0
LogsInv ==
  /\ logs \in [Server -> Seq(Issued)]
  /\ chosen \in Seq(Issued)
  /\ leader \in Server \cup {NoServer}

\* Threads are of calls that were made: the last one is for the current request.
ThreadsInv ==
  /\ handlers \subseteq Threads
  /\ kv \in [Server -> [Key -> Values]]
  /\ lastRequestId \in [Server -> [Client -> Nat]]
  /\ \A h \in handlers :
        LET clerk == clerks[h.op.client]
        IN h.call <= clerk.calls /\ (h.call = clerk.calls => h.op.request = clerk.request)

\* What the loop of a server is given was committed: on its way from Raft, ...
Sequence(q) == q \in Seq({q[x] : x \in DOMAIN q})
FromChosen(m) ==
  m.type \in {"command", "snapshot"}
    /\ (m.type = "command" => m.index \in DOMAIN chosen /\ m.op = chosen[m.index])
RaftInv ==
  /\ DOMAIN taken = Server /\ DOMAIN applyChan = Server
  /\ lastApplied \in [Server -> Nat] /\ snapIndex \in [Server -> Nat]
  /\ \A s \in Server :
        /\ lastApplied[s] <= Len(chosen) /\ snapIndex[s] <= Len(chosen)
        /\ Sequence(taken[s]) /\ Sequence(applyChan[s])
        /\ \A x \in DOMAIN taken[s] : FromChosen(taken[s][x]) /\ taken[s][x].type = "command"
        /\ \A x \in DOMAIN applyChan[s] : FromChosen(applyChan[s][x])
  /\ \A m \in snapshots \cup pushes : m.to \in Server /\ m.index \in 0 .. Len(chosen)

\* ... while it is executed, and when it wakes a thread.
LoopInv ==
  /\ DOMAIN loop = Server /\ DOMAIN waitApplyCh = Server
  /\ \A s \in Server :
        \/ loop[s] = Reading
        \/ \E n \in DOMAIN chosen, at \in {"execute", "snapshot", "send"} :
              loop[s] = [at |-> at, index |-> n, op |-> chosen[n]]
  /\ \A s \in Server : \A n \in DOMAIN waitApplyCh[s] :
        waitApplyCh[s][n] \in Seq({chosen[m] : m \in DOMAIN chosen})

\* The threads that wait at a server are at indexes of its log, no two at the same.
IndexesInv ==
  /\ \A h \in handlers : h.at \in Waiting => h.index \in DOMAIN logs[h.server]
  /\ \A g, h \in handlers :
        {g.at, h.at} \subseteq Waiting /\ g.server = h.server /\ g.index = h.index => g = h

\* A reply that ends a call, and a request id that ends a wait, are of a Get or of a
\* committed request, and so is every lower one.
Settled(c, r) == Writes(c, r) => \E n \in DOMAIN chosen : IsRequest(chosen[n], c, r)
RepliesInv ==
  /\ \A h \in handlers : h.at = "get" => h.op.type = "Get"
  /\ \A h \in handlers : h.at \in {"erase", "done"} /\ h.err # "ErrWrongLeader" =>
        Settled(h.op.client, h.op.request)
  /\ \A s \in Server, c \in Client : \A r \in 1 .. lastRequestId[s][c] : Settled(c, r)
  /\ \A c \in Client : \A r \in 1 .. Answered(c) : Settled(c, r)

KvInv ==
  ClerksInv /\ LogsInv /\ ThreadsInv /\ RaftInv /\ LoopInv /\ IndexesInv /\ RepliesInv

-----------------------------------------------------------------------------
(* What the steps have in common. *)

\* What is issued is a call of some Clerk's script.
LEMMA IssuedFacts ==
  ASSUME ClerksInv, NEW op \in Issued
  PROVE  /\ op.client \in Client /\ op.request \in 1 .. clerks[op.client].request
         /\ op.request \in Nat /\ clerks[op.client].request \in Nat
         /\ op.request \in DOMAIN Script[op.client]
         /\ op = Operation(op.client, op.request)
         /\ op.type = Script[op.client][op.request].type
         /\ op.key \in Key /\ op.value \in Values
<1>0. PICK c \in Client : \E r \in 1 .. clerks[c].request : op = Operation(c, r)
  BY DEF Issued
<1>1. PICK r \in 1 .. clerks[c].request : op = Operation(c, r)
  BY <1>0
<1>2. /\ op.client = c /\ op.request = r /\ op.type = Script[c][r].type
      /\ op.key = Script[c][r].key /\ op.value = Script[c][r].value
  BY <1>1 DEF Operation
<1>3. r \in DOMAIN Script[c] /\ clerks[c].request \in Nat
  BY DEF ClerksInv, Clerks
<1>4. op.key \in Key /\ op.value \in Values
  BY <1>2, <1>3, ScriptAssumption DEF Values
<1> QED
  BY <1>1, <1>2, <1>3, <1>4

\* A sequence of members of a set is one of members of a larger set.
LEMMA SeqOfMore ==
  ASSUME NEW S, NEW T, S \subseteq T, NEW q \in Seq(S)
  PROVE  q \in Seq(T)
OBVIOUS

\* Nothing that was issued or committed is lost, and no log gets shorter.
Grow ==
  /\ Issued \subseteq Issued'
  /\ Len(chosen) <= Len(chosen')
  /\ DOMAIN chosen \subseteq DOMAIN chosen'
  /\ \A n \in DOMAIN chosen : chosen'[n] = chosen[n]
  /\ \A s \in Server : DOMAIN logs[s] \subseteq DOMAIN logs'[s]

\* Overwriting the first entries of a log keeps it a log, and no shorter.
LEMMA OverwrittenLonger ==
  ASSUME NEW S, NEW log \in Seq(S), NEW prefix \in Seq(S)
  PROVE  Overwritten(log, prefix) \in Seq(S) /\ Len(Overwritten(log, prefix)) >= Len(log)
<1> DEFINE rest == SubSeq(log, Len(prefix) + 1, Len(log))
<1>1. rest \in Seq(S) /\ Len(rest) = IF Len(prefix) + 1 <= Len(log) THEN Len(log) - Len(prefix) ELSE 0
  OBVIOUS
<1>2. Overwritten(log, prefix) = prefix \o rest
  BY DEF Overwritten
<1> HIDE DEF rest
<1>3. prefix \o rest \in Seq(S) /\ Len(prefix \o rest) = Len(prefix) + Len(rest)
  BY <1>1
<1>4. Len(log) \in Nat /\ Len(prefix) \in Nat
  OBVIOUS
<1> QED
  BY <1>1, <1>2, <1>3, <1>4

\* A sequence that is no shorter has every index of the other.
LEMMA Longer ==
  ASSUME NEW S, NEW T, NEW p \in Seq(S), NEW q \in Seq(T), Len(p) <= Len(q)
  PROVE  DOMAIN p \subseteq DOMAIN q
OBVIOUS

-----------------------------------------------------------------------------
(* The Clerks, the logs, and what is committed. *)

\* One more RPC is for the current request or for the next of the script.
LEMMA Called ==
  ASSUME ClerksInv, NEW c \in Client, NEW r, NEW s \in Server, Call(c, r, s),
         \/ r = clerks[c].request /\ clerks[c].state = "waiting"
         \/ r = clerks[c].request + 1 /\ r \in DOMAIN Script[c]
  PROVE  /\ ClerksInv' /\ Issued \subseteq Issued'
         /\ clerks'[c].request = r /\ clerks'[c].calls = clerks[c].calls + 1
         /\ clerks'[c].state = "waiting"
         /\ clerks[c].request \in Nat /\ clerks[c].calls \in Nat
         /\ \A d \in Client \ {c} : clerks'[d] = clerks[d]
<1>1. clerks[c] \in Clerks /\ clerks \in [Client -> Clerks]
  BY DEF ClerksInv
<1>2. r \in Nat /\ clerks[c].calls + 1 \in Nat
  BY <1>1 DEF Clerks
<1>3. PICK seen \in [Client -> Int] :
        seen = IF r = clerks[c].request THEN clerks[c].seen ELSE [d \in Client |-> Answered(d)]
  <2>1. [d \in Client |-> Answered(d)] \in [Client -> Int]
    BY DEF Answered, ClerksInv, Clerks
  <2> QED
    BY <1>1, <2>1 DEF Clerks
<1> DEFINE new == [clerks[c] EXCEPT !.request = r, !.server = s, !.calls = @ + 1, !.state = "waiting",
                                    !.err = "", !.value = NoValue, !.seen = seen]
<1>4. new \in Clerks /\ new.request = r /\ new.calls = clerks[c].calls + 1 /\ new.state = "waiting"
  <2>1. NoValue \in Values
    BY DEF Values
  <2> QED
    BY <1>1, <1>2, <2>1 DEF Clerks, Err
<1>5. clerks' = [clerks EXCEPT ![c] = new]
  BY <1>3 DEF Call
<1> HIDE DEF new
<1>6. clerks' \in [Client -> Clerks] /\ clerks'[c] = new /\ \A d \in Client \ {c} : clerks'[d] = clerks[d]
  BY <1>1, <1>4, <1>5
<1>7. \A d \in Client : 1 .. clerks[d].request \subseteq 1 .. clerks'[d].request
  <2>1. clerks[c].request \in Nat /\ clerks[c].request <= r
    BY <1>1 DEF Clerks
  <2> QED
    BY <1>2, <1>4, <1>6, <2>1
<1>8. \A d \in Client : 1 .. clerks'[d].request \subseteq DOMAIN Script[d]
  <2>1. 1 .. r \subseteq DOMAIN Script[c]
    BY <1>1 DEF ClerksInv, Clerks
  <2> QED
    BY <1>4, <1>6, <2>1 DEF ClerksInv
<1>9. Issued \subseteq Issued'
  BY <1>7 DEF Issued, Operation
<1>10. \A d \in Client : clerks'[d].state = "waiting" => clerks'[d].request > 0
  <2>1. r > 0
    BY <1>1 DEF ClerksInv, Clerks
  <2> QED
    BY <1>4, <1>6, <2>1 DEF ClerksInv
<1> QED
  BY <1>1, <1>4, <1>6, <1>8, <1>9, <1>10 DEF ClerksInv, Clerks

\* An answer leaves the requests and ends the wait of one Clerk.
LEMMA AnsweredFacts ==
  ASSUME ClerksInv, ThreadsInv, NEW c \in Client, Answer(c)
  PROVE  /\ ClerksInv' /\ Issued' = Issued
         /\ clerks'[c].state = "idle" /\ clerks[c].state = "waiting"
         /\ \A d \in Client : clerks'[d].request = clerks[d].request /\ clerks'[d].calls = clerks[d].calls
         /\ \A d \in Client \ {c} : clerks'[d] = clerks[d]
<1>1. PICK h \in Replies(c) :
        clerks' = [clerks EXCEPT ![c].state = "idle", ![c].err = h.err, ![c].value = h.value]
  BY DEF Answer
<1>2. h \in Threads
  BY DEF Replies, ThreadsInv
<1> DEFINE new == [clerks[c] EXCEPT !.state = "idle", !.err = h.err, !.value = h.value]
<1>3. clerks' = [clerks EXCEPT ![c] = new]
  BY <1>1
<1>4. /\ new \in Clerks /\ new.state = "idle"
      /\ new.request = clerks[c].request /\ new.calls = clerks[c].calls
  BY <1>2 DEF ClerksInv, Clerks, Threads
<1> HIDE DEF new
<1>5. /\ clerks' \in [Client -> Clerks] /\ clerks'[c] = new
      /\ \A d \in Client \ {c} : clerks'[d] = clerks[d]
  BY <1>3, <1>4 DEF ClerksInv
<1>6. \A d \in Client : clerks'[d].request = clerks[d].request /\ clerks'[d].calls = clerks[d].calls
  BY <1>4, <1>5
<1>7. Issued' = Issued
  BY <1>6 DEF Issued, Operation
<1> QED
  BY <1>4, <1>5, <1>6, <1>7 DEF ClerksInv, Answer

\* A step that leaves the Clerks alone.
LEMMA ClerksStay ==
  ASSUME ClerksInv, UNCHANGED clerks
  PROVE  ClerksInv' /\ Issued' = Issued
BY DEF ClerksInv, Issued, Operation

\* The Clerks' steps.
LEMMA ClerksStep ==
  ASSUME ClerksInv, ThreadsInv, Next
  PROVE  ClerksInv' /\ Issued \subseteq Issued'
<1>1. CASE UNCHANGED clerks
  BY <1>1, ClerksStay
<1>2. ASSUME NEW c \in Client, NewRequest(c) \/ Answer(c) \/ Retry(c)
      PROVE  ClerksInv' /\ Issued \subseteq Issued'
  <2>0. clerks[c].server \in Server
    BY DEF ClerksInv, Clerks
  <2>1. CASE NewRequest(c)
    BY <2>0, <2>1, Called DEF NewRequest
  <2>2. CASE Answer(c)
    BY <2>2, AnsweredFacts
  <2>3. CASE Retry(c)
    <3>1. PICK d : /\ d \in {NextServer[clerks[c].server]} \cup ({clerks[c].server} \ up)
                   /\ Call(c, clerks[c].request, d)
      BY <2>3 DEF Retry
    <3>2. d \in Server
      BY <2>0, <3>1, ServersAssumption
    <3> QED
      BY <2>3, <3>1, <3>2, Called DEF Retry
  <2> QED
    BY <1>2, <2>1, <2>2, <2>3
<1> QED
  BY <1>1, <1>2
  DEF Next, KvNext, GetCommandFromRaft, PopMessage, Execute, GetSnapShotFromRaft,
      IfNeedToSendSnapShotCommand, SendMessageToWaitChan, HandlerStep, StartCommand, CreateChannel,
      PopCommand, TimeOut, CheckDuplicate, ExecuteGet, EraseChannel

\* A step that neither starts, copies nor commits an entry.
LEMMA LogsStay ==
  ASSUME LogsInv, Issued \subseteq Issued', UNCHANGED <<logs, chosen>>, leader' \in Server \cup {NoServer}
  PROVE  LogsInv' /\ Grow
<1>1. logs \in [Server -> Seq(Issued')] /\ chosen \in Seq(Issued')
  BY SeqOfMore DEF LogsInv
<1> QED
  BY <1>1 DEF LogsInv, Grow

\* A step that makes one log longer, or overwrites entries of it.
LEMMA LogWritten ==
  ASSUME LogsInv, UNCHANGED <<clerks, chosen, leader>>, Issued' = Issued,
         NEW s \in Server, NEW log \in Seq(Issued), Len(log) >= Len(logs[s]),
         logs' = [logs EXCEPT ![s] = log]
  PROVE  LogsInv' /\ Grow
<1>1. logs' \in [Server -> Seq(Issued)]
  BY DEF LogsInv
<1>2. DOMAIN logs[s] \subseteq DOMAIN log
  BY Longer DEF LogsInv
<1>3. \A t \in Server : DOMAIN logs[t] \subseteq DOMAIN logs'[t]
  BY <1>2 DEF LogsInv
<1>4. LogsInv'
  BY <1>1 DEF LogsInv
<1>5. Len(chosen) <= Len(chosen')
  BY DEF LogsInv
<1> QED
  BY <1>3, <1>4, <1>5 DEF Grow

\* The prefix of what is committed, up to an index that was.
LEMMA ChosenPrefix ==
  ASSUME LogsInv, NEW n \in 0 .. Len(chosen)
  PROVE  SubSeq(chosen, 1, n) \in Seq(Issued)
BY DEF LogsInv

\* Every step leaves what was issued and committed, and the length of the logs.
LEMMA LogsStep ==
  ASSUME KvInv, Next
  PROVE  ClerksInv' /\ LogsInv' /\ Grow
<1>0. ClerksInv' /\ Issued \subseteq Issued' /\ LogsInv
  BY ClerksStep DEF KvInv
<1> SUFFICES LogsInv' /\ Grow
  BY <1>0
<1>1. CASE UNCHANGED <<logs, chosen, leader>>
  BY <1>0, <1>1, LogsStay DEF LogsInv
<1>2. ASSUME UNCHANGED clerks PROVE Issued' = Issued
  BY <1>2, ClerksStay DEF KvInv
<1>3. ASSUME NEW s \in Server, Elect(s) PROVE LogsInv' /\ Grow
  BY <1>0, <1>3, LogsStay DEF Elect
<1>4. ASSUME NEW s \in Server, Replicate(s), UNCHANGED clerks PROVE LogsInv' /\ Grow
  <2>1. logs[s] \in Seq(Issued) /\ logs[leader] \in Seq(Issued)
    BY <1>0, <1>4 DEF LogsInv, Replicate
  <2>2. logs' = [logs EXCEPT ![s] = Overwritten(logs[s], logs[leader])]
    BY <1>4 DEF Replicate
  <2> QED
    BY <1>0, <1>2, <1>4, <2>1, <2>2, OverwrittenLonger, LogWritten DEF Replicate
<1>5. CASE Commit /\ UNCHANGED clerks
  <2>1. Len(chosen) + 1 \in DOMAIN logs[leader] /\ logs[leader] \in Seq(Issued) /\ chosen \in Seq(Issued)
    BY <1>0, <1>5 DEF Commit, LogsInv
  <2>2. logs[leader][Len(chosen) + 1] \in Issued
    BY <2>1
  <2>3. chosen' \in Seq(Issued) /\ Len(chosen') = Len(chosen) + 1
        /\ \A n \in DOMAIN chosen : n \in DOMAIN chosen' /\ chosen'[n] = chosen[n]
    BY <1>5, <2>1, <2>2 DEF Commit
  <2>4. LogsInv'
    BY <1>0, <1>2, <1>5, <2>3 DEF LogsInv, Commit
  <2> QED
    <3>1. Len(chosen) <= Len(chosen') /\ DOMAIN chosen \subseteq DOMAIN chosen'
      BY <2>1, <2>3
    <3>2. logs' = logs
      BY <1>5 DEF Commit
    <3> QED
      BY <1>2, <1>5, <2>3, <2>4, <3>1, <3>2 DEF Grow
<1>6. ASSUME NEW m \in snapshots, InstallSnapshot(m), UNCHANGED clerks PROVE LogsInv' /\ Grow
  <2>1. m.to \in Server /\ m.index \in 0 .. Len(chosen)
    BY DEF KvInv, RaftInv
  <2>2. CASE logs' = logs
    BY <1>1, <1>6, <2>2 DEF InstallSnapshot
  <2>3. CASE logs' = [logs EXCEPT ![m.to] = Overwritten(@, SubSeq(chosen, 1, m.index))]
    <3>1. logs[m.to] \in Seq(Issued) /\ SubSeq(chosen, 1, m.index) \in Seq(Issued)
      BY <1>0, <2>1, ChosenPrefix DEF LogsInv
    <3> QED
      BY <1>0, <1>2, <1>6, <2>1, <2>3, <3>1, OverwrittenLonger, LogWritten DEF InstallSnapshot
  <2> QED
    BY <1>6, <2>2, <2>3 DEF InstallSnapshot
<1>7. ASSUME NEW h \in handlers, StartCommand(h) PROVE LogsInv' /\ Grow
  <2>1. h.server \in Server /\ h.op \in Issued
    BY DEF KvInv, ThreadsInv, Threads
  <2>2. CASE raftVars' = raftVars
    BY <1>1, <2>2 DEF raftVars, logVars
  <2>3. CASE Start(h.server, h.op)
    <3>1. logs[h.server] \in Seq(Issued)
      BY <1>0, <2>1 DEF LogsInv
    <3>2. /\ Append(logs[h.server], h.op) \in Seq(Issued)
          /\ Len(Append(logs[h.server], h.op)) >= Len(logs[h.server])
      BY <2>1, <3>1
    <3> QED
      BY <1>0, <1>2, <1>7, <2>1, <2>3, <3>2, LogWritten DEF Start, StartCommand
  <2> QED
    BY <1>7, <2>2, <2>3 DEF StartCommand
<1>8. CASE RaftNext /\ UNCHANGED clerks
  BY <1>1, <1>3, <1>4, <1>5, <1>6, <1>8
  DEF RaftNext, GetApplyLogs, PushTaken, SendSnapshot, PushMsgToKvServer, logVars
<1>9. ASSUME NEW h \in handlers, HandlerStep(h) PROVE LogsInv' /\ Grow
  BY <1>1, <1>7, <1>9
  DEF HandlerStep, CreateChannel, PopCommand, TimeOut, CheckDuplicate, ExecuteGet, EraseChannel,
      raftVars, logVars
<1>10. ASSUME NEW c \in Client, NewRequest(c) \/ Answer(c) \/ Retry(c) PROVE LogsInv' /\ Grow
  BY <1>1, <1>10 DEF NewRequest, Answer, Retry, Call, raftVars, logVars
<1>11. ASSUME NEW s \in Server,
              \/ GetCommandFromRaft(s) \/ Execute(s) \/ GetSnapShotFromRaft(s)
              \/ IfNeedToSendSnapShotCommand(s) \/ SendMessageToWaitChan(s)
       PROVE  LogsInv' /\ Grow
  BY <1>1, <1>11
  DEF GetCommandFromRaft, PopMessage, Execute, GetSnapShotFromRaft,
      IfNeedToSendSnapShotCommand, Snapshot, SendMessageToWaitChan, raftVars, logVars
<1> QED
  BY <1>8, <1>9, <1>10, <1>11 DEF Next, KvNext

-----------------------------------------------------------------------------
(* The way from Raft to the loop of the KvServer. *)

\* A channel with one more message holds the old ones and that one.
LEMMA SequenceAppend ==
  ASSUME NEW q, Sequence(q), NEW m
  PROVE  /\ Sequence(Append(q, m))
         /\ \A x \in DOMAIN Append(q, m) : (x \in DOMAIN q /\ Append(q, m)[x] = q[x]) \/ Append(q, m)[x] = m
<1> DEFINE S == {q[x] : x \in DOMAIN q} \cup {m}
           p == Append(q, m)
<1>1. q \in Seq(S)
  BY DEF Sequence
<1> HIDE DEF S
<1>2. m \in S
  BY DEF S
<1>3. p \in Seq(S) /\ DOMAIN p = 1 .. Len(p) /\ Len(p) = Len(q) + 1 /\ DOMAIN q = 1 .. Len(q) /\ Len(q) \in Nat
  BY <1>1, <1>2
<1>4. \A x \in DOMAIN p : (x \in DOMAIN q /\ p[x] = q[x]) \/ p[x] = m
  <2> SUFFICES ASSUME NEW x \in DOMAIN p PROVE (x \in DOMAIN q /\ p[x] = q[x]) \/ p[x] = m
    OBVIOUS
  <2>1. x \in 1 .. Len(q) \/ x = Len(q) + 1
    BY <1>3
  <2> QED
    BY <1>1, <1>2, <1>3, <2>1
<1>5. Sequence(p)
  <2> HIDE DEF p
  <2> QED
    BY <1>3 DEF Sequence
<1> QED
  BY <1>4, <1>5

\* A channel without its first message holds the rest, one place earlier.
LEMMA SequenceTail ==
  ASSUME NEW q, Sequence(q), q # <<>>
  PROVE  /\ Sequence(Tail(q)) /\ 1 \in DOMAIN q /\ Head(q) = q[1]
         /\ Len(q) \in Nat /\ Len(Tail(q)) = Len(q) - 1
         /\ \A x \in DOMAIN Tail(q) : x + 1 \in DOMAIN q /\ Tail(q)[x] = q[x + 1]
<1> DEFINE S == {q[x] : x \in DOMAIN q}
           p == Tail(q)
<1>1. q \in Seq(S)
  BY DEF Sequence
<1> HIDE DEF S
<1>2. /\ p \in Seq(S) /\ 1 \in DOMAIN q /\ Head(q) = q[1] /\ Len(q) \in Nat /\ Len(p) = Len(q) - 1
      /\ \A x \in DOMAIN p : x + 1 \in DOMAIN q /\ p[x] = q[x + 1]
  BY <1>1
<1>3. Sequence(p)
  <2> HIDE DEF p
  <2> QED
    BY <1>2 DEF Sequence
<1> QED
  BY <1>2, <1>3

\* A function on 1 .. n is a sequence.
LEMMA FunctionIsSequence ==
  ASSUME NEW n \in Nat, NEW S, NEW q \in [1 .. n -> S]
  PROVE  q \in Seq(S)
OBVIOUS

\* What follows from the first four parts of the invariant in every step.
Step == KvInv /\ ClerksInv' /\ LogsInv' /\ Grow

\* A message keeps its origin, and the counts of entries stay comparable.
LEMMA FromChosenStays ==
  ASSUME Grow, NEW m, FromChosen(m)
  PROVE  FromChosen(m)'
BY DEF Grow, FromChosen

\* How much is committed, before and after a step.
LEMMA Counts ==
  ASSUME Step
  PROVE  Len(chosen) \in Nat /\ Len(chosen') \in Nat /\ Len(chosen) <= Len(chosen')
BY DEF Step, LogsInv, Grow

\* A step has to account for the queues it writes and for the indexes it moves.
LEMMA RaftKept ==
  ASSUME Step, DOMAIN taken' = Server, DOMAIN applyChan' = Server,
         lastApplied' \in [Server -> Nat], snapIndex' \in [Server -> Nat],
         \A s \in Server :
            /\ lastApplied'[s] = lastApplied[s] \/ lastApplied'[s] <= Len(chosen)
            /\ snapIndex'[s] = snapIndex[s] \/ snapIndex'[s] <= Len(chosen)
            /\ \/ taken'[s] = taken[s]
               \/ /\ Sequence(taken'[s])
                  /\ \A x \in DOMAIN taken'[s] : FromChosen(taken'[s][x]) /\ taken'[s][x].type = "command"
            /\ \/ applyChan'[s] = applyChan[s]
               \/ Sequence(applyChan'[s]) /\ \A x \in DOMAIN applyChan'[s] : FromChosen(applyChan'[s][x]),
         \A m \in snapshots' \cup pushes' :
            m \in snapshots \cup pushes \/ (m.to \in Server /\ m.index \in 0 .. Len(chosen))
  PROVE  RaftInv'
<1>0. Grow /\ RaftInv /\ Len(chosen) \in Nat /\ Len(chosen') \in Nat /\ Len(chosen) <= Len(chosen')
  BY Counts DEF Step, KvInv
<1>1. ASSUME NEW s \in Server
      PROVE  /\ lastApplied'[s] <= Len(chosen') /\ snapIndex'[s] <= Len(chosen')
             /\ Sequence(taken'[s]) /\ Sequence(applyChan'[s])
  <2>1. lastApplied'[s] \in Nat /\ snapIndex'[s] \in Nat
    OBVIOUS
  <2>2. lastApplied'[s] <= Len(chosen) /\ snapIndex'[s] <= Len(chosen)
    BY <1>0 DEF RaftInv
  <2> QED
    BY <1>0, <2>1, <2>2 DEF RaftInv
<1>2. ASSUME NEW s \in Server, NEW x \in DOMAIN taken'[s]
      PROVE  FromChosen(taken[s][x])' /\ taken'[s][x].type = "command"
  <2>1. PICK m : m = taken'[s][x]
    OBVIOUS
  <2>2. FromChosen(m) /\ m.type = "command"
    BY <1>0, <2>1 DEF RaftInv
  <2>3. FromChosen(m)'
    BY <1>0, <2>2, FromChosenStays
  <2> QED
    BY <2>1, <2>2, <2>3 DEF FromChosen
<1>3. ASSUME NEW s \in Server, NEW x \in DOMAIN applyChan'[s] PROVE FromChosen(applyChan[s][x])'
  <2>1. PICK m : m = applyChan'[s][x]
    OBVIOUS
  <2>2. FromChosen(m)
    BY <1>0, <2>1 DEF RaftInv
  <2>3. FromChosen(m)'
    BY <1>0, <2>2, FromChosenStays
  <2> QED
    BY <2>1, <2>3 DEF FromChosen
<1>4. ASSUME NEW m \in snapshots' \cup pushes' PROVE m.to \in Server /\ m.index \in 0 .. Len(chosen')
  <2>1. m.to \in Server /\ m.index \in 0 .. Len(chosen)
    BY <1>0 DEF RaftInv
  <2> QED
    BY <1>0, <2>1
<1>5. \A s \in Server : Sequence(taken[s])' /\ Sequence(applyChan[s])'
  BY <1>1 DEF Sequence
<1> QED
  BY <1>1, <1>2, <1>3, <1>4, <1>5 DEF RaftInv

\* A step of another part.
LEMMA RaftUnmoved ==
  ASSUME Step, UNCHANGED <<taken, applyChan, lastApplied, snapIndex, snapshots, pushes>>
  PROVE  RaftInv'
BY RaftKept DEF Step, KvInv, RaftInv

\* What applierTicker takes was committed, and lastApplied is its last index.
LEMMA GetApplyLogsInv ==
  ASSUME Step, NEW s \in Server, GetApplyLogs(s)
  PROVE  RaftInv'
<1>0. RaftInv /\ Len(chosen) \in Nat
  BY Counts DEF Step, KvInv
<1>1. PICK n \in lastApplied[s] + 1 .. Len(chosen) :
        /\ taken' = [taken EXCEPT ![s] = [k \in 1 .. n - lastApplied[s] |->
                       CommandMsg(lastApplied[s] + k, chosen[lastApplied[s] + k])]]
        /\ lastApplied' = [lastApplied EXCEPT ![s] = n]
  BY DEF GetApplyLogs
<1> DEFINE q == [k \in 1 .. n - lastApplied[s] |-> CommandMsg(lastApplied[s] + k, chosen[lastApplied[s] + k])]
<1>2. lastApplied[s] \in Nat /\ n \in Nat /\ n <= Len(chosen) /\ n - lastApplied[s] \in Nat
  BY <1>0 DEF RaftInv
<1>3. ASSUME NEW x \in 1 .. n - lastApplied[s]
      PROVE  FromChosen(q[x]) /\ q[x].type = "command"
  <2>1. /\ q[x].type = "command" /\ q[x].index = lastApplied[s] + x
        /\ q[x].op = chosen[lastApplied[s] + x]
    BY DEF CommandMsg
  <2>2. lastApplied[s] + x \in 1 .. Len(chosen)
    BY <1>0, <1>2
  <2>3. chosen \in Seq(Issued)
    BY DEF Step, KvInv, LogsInv
  <2> HIDE DEF q
  <2> QED
    BY <2>1, <2>2, <2>3 DEF FromChosen
<1>4. Sequence(q) /\ DOMAIN q = 1 .. n - lastApplied[s]
  <2>1. DOMAIN q = 1 .. n - lastApplied[s] /\ q = [x \in 1 .. n - lastApplied[s] |-> q[x]]
    OBVIOUS
  <2> HIDE DEF q
  <2>2. q \in [1 .. n - lastApplied[s] -> {q[x] : x \in DOMAIN q}]
    BY <2>1
  <2>3. q \in Seq({q[x] : x \in DOMAIN q})
    BY <1>2, <2>2, FunctionIsSequence
  <2> QED
    BY <2>1, <2>3 DEF Sequence
<1> HIDE DEF q
<1>5. taken' = [taken EXCEPT ![s] = q]
  BY <1>1 DEF q
<1>6. DOMAIN taken' = Server /\ taken'[s] = q /\ \A r \in Server \ {s} : taken'[r] = taken[r]
  BY <1>0, <1>5 DEF RaftInv
<1>7. /\ lastApplied' \in [Server -> Nat] /\ lastApplied'[s] = n
      /\ \A r \in Server \ {s} : lastApplied'[r] = lastApplied[r]
  BY <1>0, <1>1, <1>2 DEF RaftInv
<1> QED
  BY <1>0, <1>2, <1>3, <1>4, <1>6, <1>7, RaftKept DEF GetApplyLogs, snapVars, RaftInv

\* A message of the right origin at the end of the channel of one server.
LEMMA PushedInv ==
  ASSUME Step, NEW s \in Server, NEW m, FromChosen(m),
         applyChan' = [applyChan EXCEPT ![s] = Append(@, m)]
  PROVE  /\ DOMAIN applyChan' = Server
         /\ \A r \in Server :
               \/ applyChan'[r] = applyChan[r]
               \/ Sequence(applyChan'[r]) /\ \A x \in DOMAIN applyChan'[r] : FromChosen(applyChan'[r][x])
<1>1. RaftInv
  BY DEF Step, KvInv
<1>2. /\ DOMAIN applyChan' = Server /\ applyChan'[s] = Append(applyChan[s], m)
      /\ \A r \in Server \ {s} : applyChan'[r] = applyChan[r]
  BY <1>1 DEF RaftInv
<1>3. Sequence(applyChan'[s]) /\ \A x \in DOMAIN applyChan'[s] : FromChosen(applyChan'[s][x])
  BY <1>1, <1>2, SequenceAppend DEF RaftInv
<1> QED
  BY <1>2, <1>3

\* What it pushes, it had taken.
LEMMA PushTakenInv ==
  ASSUME Step, NEW s \in Server, PushTaken(s)
  PROVE  RaftInv'
<1>0. RaftInv
  BY DEF Step, KvInv
<1>1. /\ Sequence(Tail(taken[s])) /\ FromChosen(Head(taken[s]))
      /\ \A x \in DOMAIN Tail(taken[s]) : FromChosen(Tail(taken[s])[x]) /\ Tail(taken[s])[x].type = "command"
  BY <1>0, SequenceTail DEF RaftInv, PushTaken
<1>2. /\ DOMAIN taken' = Server /\ taken'[s] = Tail(taken[s])
      /\ \A r \in Server \ {s} : taken'[r] = taken[r]
  BY <1>0 DEF RaftInv, PushTaken
<1>3. applyChan' = [applyChan EXCEPT ![s] = Append(@, Head(taken[s]))]
  BY DEF PushTaken
<1> QED
  BY <1>0, <1>1, <1>2, <1>3, PushedInv, RaftKept DEF PushTaken, snapVars, RaftInv

\* A snapshot goes to a peer, is installed there, and is pushed to its KvServer.
LEMMA SnapshotMoveInv ==
  ASSUME Step,
         \/ \E s, d \in Server : SendSnapshot(s, d)
         \/ \E m \in snapshots : InstallSnapshot(m)
         \/ \E m \in pushes : PushMsgToKvServer(m)
  PROVE  RaftInv'
<1>0. RaftInv /\ Len(chosen) \in Nat
  BY Counts DEF Step, KvInv
<1>1. ASSUME NEW s \in Server, NEW d \in Server, SendSnapshot(s, d) PROVE RaftInv'
  <2> DEFINE new == [to |-> d, index |-> snapIndex[s], data |-> SnapshotRead(persister[s])]
  <2>1. new.to \in Server /\ new.index \in 0 .. Len(chosen)
    BY <1>0 DEF RaftInv
  <2>2. snapshots' = snapshots \cup {new}
    BY <1>1 DEF SendSnapshot
  <2> HIDE DEF new
  <2>3. \A m \in snapshots' \cup pushes' :
          m \in snapshots \cup pushes \/ (m.to \in Server /\ m.index \in 0 .. Len(chosen))
    BY <1>1, <2>1, <2>2 DEF SendSnapshot
  <2> QED
    BY <1>0, <1>1, <2>3, RaftKept DEF SendSnapshot, applyVars, RaftInv
<1>2. ASSUME NEW m, m.to \in Server, NEW n \in Nat
      PROVE  FromChosen(SnapshotMsg(n, m.data))
  BY DEF FromChosen, SnapshotMsg
<1>3. ASSUME NEW m \in snapshots, InstallSnapshot(m) PROVE RaftInv'
  <2>1. m.to \in Server /\ m.index \in 0 .. Len(chosen) /\ m.index \in Nat
    BY <1>0 DEF RaftInv
  <2>2. CASE UNCHANGED <<lastApplied, applyChan, snapIndex, pushes>>
    <3>1. snapshots' = snapshots \ {m} /\ taken' = taken
      BY <1>3 DEF InstallSnapshot
    <3> QED
      BY <1>0, <2>2, <3>1, RaftKept DEF RaftInv
  <2>3. CASE ~(m.index <= snapIndex[m.to])
    <3>1. /\ lastApplied' = [lastApplied EXCEPT ![m.to] = IF @ < m.index THEN m.index ELSE @]
          /\ snapIndex' = [snapIndex EXCEPT ![m.to] = m.index]
          /\ applyChan' = [applyChan EXCEPT ![m.to] = Append(@, SnapshotMsg(m.index, m.data))]
          /\ pushes' = pushes \cup {m} /\ snapshots' = snapshots \ {m} /\ taken' = taken
      BY <1>3, <2>3 DEF InstallSnapshot
    <3>2. /\ lastApplied' \in [Server -> Nat] /\ snapIndex' \in [Server -> Nat]
          /\ \A s \in Server : lastApplied'[s] = lastApplied[s] \/ lastApplied'[s] <= Len(chosen)
          /\ \A s \in Server : snapIndex'[s] = snapIndex[s] \/ snapIndex'[s] <= Len(chosen)
      BY <1>0, <2>1, <3>1 DEF RaftInv
    <3>3. /\ DOMAIN applyChan' = Server
          /\ \A r \in Server :
                \/ applyChan'[r] = applyChan[r]
                \/ Sequence(applyChan'[r]) /\ \A x \in DOMAIN applyChan'[r] : FromChosen(applyChan'[r][x])
      BY <1>2, <2>1, <3>1, PushedInv
    <3> QED
      BY <1>0, <2>1, <3>1, <3>2, <3>3, RaftKept DEF RaftInv
  <2> QED
    BY <1>3, <2>2, <2>3 DEF InstallSnapshot
<1>4. ASSUME NEW m \in pushes, PushMsgToKvServer(m) PROVE RaftInv'
  <2>1. m.to \in Server /\ m.index \in 0 .. Len(chosen) /\ m.index \in Nat
    BY <1>0 DEF RaftInv
  <2>2. /\ applyChan' = [applyChan EXCEPT ![m.to] = Append(@, SnapshotMsg(m.index, m.data))]
        /\ UNCHANGED <<lastApplied, taken, snapIndex, snapshots>> /\ pushes' = pushes \ {m}
    BY <1>4 DEF PushMsgToKvServer
  <2>3. /\ DOMAIN applyChan' = Server
        /\ \A r \in Server :
              \/ applyChan'[r] = applyChan[r]
              \/ Sequence(applyChan'[r]) /\ \A x \in DOMAIN applyChan'[r] : FromChosen(applyChan'[r][x])
    BY <1>2, <2>1, <2>2, PushedInv
  <2> QED
    BY <1>0, <2>2, <2>3, RaftKept DEF RaftInv
<1> QED
  BY <1>1, <1>3, <1>4

\* A message that the loop of a server takes off its channel.
LEMMA PoppedInv ==
  ASSUME Step, NEW s \in Server, PopMessage(s)
  PROVE  RaftInv' /\ FromChosen(Head(applyChan[s]))
<1>0. RaftInv
  BY DEF Step, KvInv
<1>1. /\ Sequence(Tail(applyChan[s])) /\ FromChosen(Head(applyChan[s]))
      /\ \A x \in DOMAIN Tail(applyChan[s]) : FromChosen(Tail(applyChan[s])[x])
  BY <1>0, SequenceTail DEF RaftInv, PopMessage
<1>2. /\ DOMAIN applyChan' = Server /\ applyChan'[s] = Tail(applyChan[s])
      /\ \A r \in Server \ {s} : applyChan'[r] = applyChan[r]
  BY <1>0 DEF RaftInv, PopMessage
<1> QED
  BY <1>0, <1>1, <1>2, RaftKept DEF PopMessage, snapVars, RaftInv

\* The states of the loop, and queues of committed commands.
Chosen == {chosen[m] : m \in DOMAIN chosen}
AtCommand(l) ==
  \E n \in DOMAIN chosen, at \in {"execute", "snapshot", "send"} :
     l = [at |-> at, index |-> n, op |-> chosen[n]]

\* A step that leaves the loop, or moves it to a committed command, and puts only committed
\* commands in the queues.
LEMMA LoopKept ==
  ASSUME Step, DOMAIN loop' = Server, DOMAIN waitApplyCh' = Server,
         \A s \in Server : loop'[s] = loop[s] \/ loop'[s] = Reading \/ AtCommand(loop'[s]),
         \A s \in Server : \A n \in DOMAIN waitApplyCh'[s] :
            \/ n \in DOMAIN waitApplyCh[s] /\ waitApplyCh'[s][n] = waitApplyCh[s][n]
            \/ waitApplyCh'[s][n] \in Seq(Chosen)
  PROVE  LoopInv'
<1>0. Grow /\ LoopInv
  BY DEF Step, KvInv
<1>1. Chosen \subseteq {chosen'[m] : m \in DOMAIN chosen'}
  BY <1>0 DEF Chosen, Grow
<1>2. ASSUME NEW s \in Server, NEW n \in DOMAIN waitApplyCh'[s]
      PROVE  waitApplyCh'[s][n] \in Seq({chosen'[m] : m \in DOMAIN chosen'})
  <2>1. waitApplyCh'[s][n] \in Seq(Chosen)
    BY <1>0 DEF LoopInv, Chosen
  <2> QED
    BY <1>1, <2>1, SeqOfMore
<1>3. ASSUME NEW s \in Server
      PROVE  \/ loop'[s] = Reading
             \/ \E n \in DOMAIN chosen', at \in {"execute", "snapshot", "send"} :
                   loop'[s] = [at |-> at, index |-> n, op |-> chosen'[n]]
  <2>1. CASE loop'[s] = Reading
    BY <2>1
  <2>2. CASE AtCommand(loop'[s])
    BY <1>0, <2>2 DEF AtCommand, Grow
  <2>3. CASE loop'[s] = loop[s]
    <3>1. loop[s] = Reading \/ AtCommand(loop[s])
      BY <1>0 DEF LoopInv, AtCommand
    <3> QED
      BY <2>1, <2>2, <2>3, <3>1
  <2> QED
    BY <2>1, <2>2, <2>3
<1>4. Reading' = Reading
  BY DEF Reading
<1> QED
  BY <1>2, <1>3, <1>4 DEF LoopInv

\* A step that leaves the loop and the queues.
LEMMA LoopUnmoved ==
  ASSUME Step, UNCHANGED <<loop, waitApplyCh>>
  PROVE  LoopInv'
BY LoopKept DEF Step, KvInv, LoopInv

\* The command that the loop is at, when it has one.
LEMMA LoopFacts ==
  ASSUME LoopInv, NEW s \in Server, loop[s].at # "pop"
  PROVE  /\ \E n \in DOMAIN chosen : /\ loop[s].index = n /\ loop[s].op = chosen[n]
                                     /\ \A at \in {"execute", "snapshot", "send"} :
                                          [loop[s] EXCEPT !.at = at] = [at |-> at, index |-> n, op |-> chosen[n]]
<1>1. loop[s] # Reading
  BY DEF Reading
<1>2. PICK n \in DOMAIN chosen, old \in {"execute", "snapshot", "send"} :
        loop[s] = [at |-> old, index |-> n, op |-> chosen[n]]
  BY <1>1 DEF LoopInv
<1> QED
  BY <1>2

\* The loop takes a command off the channel.
LEMMA GetCommandLoopInv ==
  ASSUME Step, NEW s \in Server, GetCommandFromRaft(s)
  PROVE  LoopInv'
<1> DEFINE message == Head(applyChan[s])
           executes == ~Duplicate(s, message.op) /\ message.op.type # "Get"
           at == IF executes THEN "execute" ELSE Executed(message.index)
<1>0. LoopInv /\ FromChosen(message)
  BY PoppedInv DEF Step, KvInv, GetCommandFromRaft
<1>1. at \in {"execute", "snapshot", "send"}
  BY DEF Executed
<1>2. waitApplyCh' = waitApplyCh /\ message.type = "command"
  BY DEF GetCommandFromRaft, PopMessage
<1>3. \/ loop' = loop
      \/ loop' = [loop EXCEPT ![s] = [at |-> at, index |-> message.index, op |-> message.op]]
  BY DEF GetCommandFromRaft
<1> HIDE DEF at, message
<1>4. AtCommand([at |-> at, index |-> message.index, op |-> message.op])
  BY <1>0, <1>1, <1>2 DEF FromChosen, AtCommand
<1>5. /\ DOMAIN loop' = Server
      /\ \A r \in Server : loop'[r] = loop[r] \/ AtCommand(loop'[r])
  BY <1>0, <1>3, <1>4 DEF LoopInv
<1> QED
  BY <1>0, <1>2, <1>5, LoopKept DEF LoopInv

\* The loop executes its command, or asks for a snapshot, and goes on with it.
LEMMA MovedLoopInv ==
  ASSUME Step, NEW s \in Server, Execute(s) \/ IfNeedToSendSnapShotCommand(s)
  PROVE  LoopInv'
<1>0. LoopInv
  BY DEF Step, KvInv
<1>1. PICK at \in {"execute", "snapshot", "send"} : loop' = [loop EXCEPT ![s].at = at]
  BY DEF Execute, IfNeedToSendSnapShotCommand, Executed
<1>2. loop[s].at # "pop" /\ waitApplyCh' = waitApplyCh
  BY DEF Execute, IfNeedToSendSnapShotCommand
<1>3. loop' = [loop EXCEPT ![s] = [loop[s] EXCEPT !.at = at]]
  BY <1>1
<1>4. AtCommand([loop[s] EXCEPT !.at = at])
  BY <1>0, <1>2, LoopFacts DEF AtCommand
<1>5. /\ DOMAIN loop' = Server
      /\ \A r \in Server : loop'[r] = loop[r] \/ AtCommand(loop'[r])
  BY <1>0, <1>3, <1>4 DEF LoopInv
<1> QED
  BY <1>0, <1>2, <1>5, LoopKept DEF LoopInv

\* The loop gives its command to the thread that waits for the index.
LEMMA SendMessageLoopInv ==
  ASSUME Step, NEW s \in Server, SendMessageToWaitChan(s)
  PROVE  LoopInv'
<1>0. LoopInv /\ loop[s].at # "pop"
  BY DEF Step, KvInv, SendMessageToWaitChan
<1>1. loop[s].op \in Chosen
  BY <1>0, LoopFacts DEF Chosen
<1>2. /\ DOMAIN loop' = Server
      /\ \A r \in Server : loop'[r] = loop[r] \/ loop'[r] = Reading
  BY <1>0 DEF LoopInv, SendMessageToWaitChan
<1>3. /\ DOMAIN waitApplyCh' = Server
      /\ \A r \in Server : \A n \in DOMAIN waitApplyCh'[r] :
            n \in DOMAIN waitApplyCh[r]
              /\ (waitApplyCh'[r][n] = waitApplyCh[r][n] \/ waitApplyCh'[r][n] \in Seq(Chosen))
  <2>1. CASE waitApplyCh' = waitApplyCh
    BY <1>0, <2>1 DEF LoopInv
  <2>2. CASE /\ loop[s].index \in DOMAIN waitApplyCh[s]
             /\ waitApplyCh' = [waitApplyCh EXCEPT ![s][loop[s].index] = Append(@, loop[s].op)]
    <3> DEFINE q == waitApplyCh[s][loop[s].index]
    <3>1. q \in Seq(Chosen)
      BY <1>0, <2>2 DEF LoopInv, Chosen
    <3> HIDE DEF q
    <3>2. Append(q, loop[s].op) \in Seq(Chosen)
      BY <1>1, <3>1
    <3> QED
      BY <1>0, <2>2, <3>2 DEF LoopInv, q
  <2> QED
    BY <2>1, <2>2 DEF SendMessageToWaitChan
<1> QED
  BY <1>0, <1>2, <1>3, LoopKept DEF LoopInv

\* The threads' steps on the queues.
LEMMA QueuesLoopInv ==
  ASSUME Step, NEW h \in handlers, CreateChannel(h) \/ PopCommand(h) \/ EraseChannel(h)
  PROVE  LoopInv'
<1> DEFINE s == h.server
           queues == waitApplyCh[s]
<1>0. LoopInv /\ loop' = loop /\ s \in Server
  BY DEF Step, KvInv, ThreadsInv, Threads, CreateChannel, PopCommand, EraseChannel
<1>1. \A n \in DOMAIN queues : queues[n] \in Seq(Chosen)
  BY <1>0 DEF LoopInv, Chosen
<1>2. <<>> \in Seq(Chosen)
  OBVIOUS
<1>3. PICK new : /\ waitApplyCh' = [waitApplyCh EXCEPT ![s] = new]
                 /\ \A n \in DOMAIN new : \/ n \in DOMAIN queues /\ new[n] = queues[n]
                                          \/ new[n] \in Seq(Chosen)
  <2>1. CASE CreateChannel(h)
    <3> DEFINE new == [n \in DOMAIN queues \cup {h.index} |-> IF n \in DOMAIN queues THEN queues[n] ELSE <<>>]
    <3>1. waitApplyCh' = [waitApplyCh EXCEPT ![s] = new]
      BY <2>1 DEF CreateChannel
    <3>2. \A n \in DOMAIN new : (n \in DOMAIN queues /\ new[n] = queues[n]) \/ new[n] \in Seq(Chosen)
      BY <1>2
    <3> QED
      BY <3>1, <3>2
  <2>2. CASE PopCommand(h)
    <3> DEFINE q == queues[h.index]
               new == [queues EXCEPT ![h.index] = Tail(q)]
    <3>1. waitApplyCh' = [waitApplyCh EXCEPT ![s] = new] /\ q # <<>> /\ h.index \in DOMAIN queues
      BY <2>2 DEF PopCommand
    <3>2. q \in Seq(Chosen)
      BY <1>1, <3>1
    <3> HIDE DEF q
    <3>3. Tail(q) \in Seq(Chosen)
      BY <3>1, <3>2
    <3>4. \A n \in DOMAIN new : (n \in DOMAIN queues /\ new[n] = queues[n]) \/ new[n] \in Seq(Chosen)
      BY <3>3
    <3> QED
      BY <3>1, <3>4
  <2>3. CASE EraseChannel(h)
    <3> DEFINE new == [n \in DOMAIN queues \ {h.index} |-> queues[n]]
    <3>1. waitApplyCh' = [waitApplyCh EXCEPT ![s] = new]
      BY <2>3 DEF EraseChannel
    <3>2. \A n \in DOMAIN new : n \in DOMAIN queues /\ new[n] = queues[n]
      OBVIOUS
    <3> QED
      BY <3>1, <3>2
  <2> QED
    BY <2>1, <2>2, <2>3
<1>4. /\ DOMAIN waitApplyCh' = Server /\ waitApplyCh'[s] = new
      /\ \A r \in Server \ {s} : waitApplyCh'[r] = waitApplyCh[r]
  BY <1>0, <1>3 DEF LoopInv
<1> QED
  BY <1>0, <1>3, <1>4, LoopKept DEF LoopInv

\* Every step keeps what the loop is given, and what it gives to the threads.
LEMMA RaftStep ==
  ASSUME Step, Next
  PROVE  RaftInv' /\ LoopInv'
<1>1. CASE /\ RaftNext /\ UNCHANGED <<up, kvVars, loop, waitApplyCh, handlers, clerks>>
  <2>1. LoopInv'
    BY <1>1, LoopUnmoved
  <2>2. ASSUME Commit \/ \E s \in Server : Elect(s) \/ Replicate(s) PROVE RaftInv'
    BY <2>2, RaftUnmoved DEF Commit, Elect, Replicate, applyVars, snapVars
  <2>3. RaftInv'
    BY <1>1, <2>2, GetApplyLogsInv, PushTakenInv, SnapshotMoveInv DEF RaftNext
  <2> QED
    BY <2>1, <2>3
<1>2. ASSUME NEW s \in Server, GetCommandFromRaft(s) PROVE RaftInv' /\ LoopInv'
  BY <1>2, PoppedInv, GetCommandLoopInv DEF GetCommandFromRaft
<1>3. ASSUME NEW s \in Server, GetSnapShotFromRaft(s) PROVE RaftInv' /\ LoopInv'
  BY <1>3, PoppedInv, LoopUnmoved DEF GetSnapShotFromRaft, PopMessage
<1>4. ASSUME NEW s \in Server, Execute(s) \/ SendMessageToWaitChan(s) PROVE RaftInv' /\ LoopInv'
  BY <1>4, RaftUnmoved, MovedLoopInv, SendMessageLoopInv
  DEF Execute, SendMessageToWaitChan, raftVars, applyVars, snapVars
<1>5. ASSUME NEW s \in Server, IfNeedToSendSnapShotCommand(s) PROVE RaftInv' /\ LoopInv'
  <2>1. RaftInv /\ LoopInv /\ chosen \in Seq(Issued) /\ loop[s].at # "pop"
    BY <1>5 DEF Step, KvInv, LogsInv, IfNeedToSendSnapShotCommand
  <2>2. loop[s].index \in Nat /\ loop[s].index <= Len(chosen)
    <3>1. loop[s].index \in DOMAIN chosen
      BY <2>1, LoopFacts
    <3> QED
      BY <2>1, <3>1
  <2>3. /\ UNCHANGED <<taken, applyChan, lastApplied, snapshots, pushes>>
        /\ snapIndex' = snapIndex \/ snapIndex' = [snapIndex EXCEPT ![s] = loop[s].index]
    BY <1>5 DEF IfNeedToSendSnapShotCommand, Snapshot, applyVars
  <2>4. snapIndex' \in [Server -> Nat] /\ \A r \in Server : snapIndex'[r] = snapIndex[r] \/ snapIndex'[r] <= Len(chosen)
    BY <2>1, <2>2, <2>3 DEF RaftInv
  <2>5. RaftInv'
    BY <2>1, <2>3, <2>4, RaftKept DEF RaftInv
  <2> QED
    BY <1>5, <2>5, MovedLoopInv
<1>6. ASSUME NEW h \in handlers, HandlerStep(h) PROVE RaftInv' /\ LoopInv'
  <2>1. RaftInv'
    BY <1>6, RaftUnmoved
    DEF HandlerStep, StartCommand, Start, CreateChannel, PopCommand, TimeOut, CheckDuplicate, ExecuteGet,
        EraseChannel, raftVars, applyVars, snapVars
  <2>2. LoopInv'
    BY <1>6, LoopUnmoved, QueuesLoopInv
    DEF HandlerStep, StartCommand, TimeOut, CheckDuplicate, ExecuteGet
  <2> QED
    BY <2>1, <2>2
<1>7. ASSUME NEW c \in Client, NewRequest(c) \/ Answer(c) \/ Retry(c) PROVE RaftInv' /\ LoopInv'
  BY <1>7, RaftUnmoved, LoopUnmoved DEF NewRequest, Answer, Retry, Call, raftVars, applyVars, snapVars
<1> QED
  BY <1>1, <1>2, <1>3, <1>4, <1>5, <1>6, <1>7 DEF Next, KvNext

-----------------------------------------------------------------------------
(* The threads. *)

\* What a thread becomes in one step of its own.  It waits at the index that Start
\* gave it, and ends with an answer only when its request is settled.
Turn(h, u) ==
  /\ u \in Threads
  /\ u.op = h.op /\ u.call = h.call /\ u.server = h.server
  /\ u.at \in Waiting =>
       \/ h.at \in Waiting /\ u.index = h.index
       \/ u.index = Len(logs[h.server]) + 1 /\ u.index \in DOMAIN logs'[h.server]
  /\ u.at = "get" => h.op.type = "Get"
  /\ u.at \in {"erase", "done"} /\ u.err # "ErrWrongLeader" => Settled(h.op.client, h.op.request)

\* A Get is settled, and so is what the server has found applied.
LEMMA SettledFacts ==
  ASSUME KvInv, NEW op \in Issued
  PROVE  /\ op.type = "Get" => Settled(op.client, op.request)
         /\ \A s \in Server : Duplicate(s, op) => Settled(op.client, op.request)
         /\ \A n \in DOMAIN chosen : SameRequest(chosen[n], op) => Settled(op.client, op.request)
<1>0. /\ op.client \in Client /\ op.request \in 1 .. clerks[op.client].request
      /\ op.request \in Nat /\ op.request >= 1
      /\ op.type = Script[op.client][op.request].type
  BY IssuedFacts DEF KvInv, ClerksInv, Clerks
<1>1. op.type = "Get" => Settled(op.client, op.request)
  BY <1>0 DEF Settled, Writes
<1>2. ASSUME NEW s \in Server, Duplicate(s, op) PROVE Settled(op.client, op.request)
  <2>1. lastRequestId[s][op.client] \in Nat
    BY <1>0 DEF KvInv, ThreadsInv
  <2>2. op.request \in 1 .. lastRequestId[s][op.client]
    BY <1>0, <1>2, <2>1 DEF Duplicate
  <2> QED
    BY <1>0, <2>2 DEF KvInv, RepliesInv
<1>3. \A n \in DOMAIN chosen : SameRequest(chosen[n], op) => Settled(op.client, op.request)
  BY DEF Settled, SameRequest, IsRequest
<1> QED
  BY <1>1, <1>2, <1>3

\* A thread that ends, with its reply or with nobody to give it to.
LEMMA Finished ==
  ASSUME KvInv, NEW h \in handlers, NEW err \in Err, Finish(h, err),
         err # "ErrWrongLeader" => Settled(h.op.client, h.op.request)
  PROVE  \/ handlers' = handlers \ {h}
         \/ \E u : Turn(h, u) /\ handlers' = (handlers \ {h}) \cup {u}
<1>0. h \in Threads
  BY DEF KvInv, ThreadsInv
<1>1. CASE Move(h, [h EXCEPT !.at = "done", !.err = err])
  <2> DEFINE u == [h EXCEPT !.at = "done", !.err = err]
  <2>1. /\ u \in Threads /\ u.at = "done" /\ u.err = err
        /\ u.op = h.op /\ u.call = h.call /\ u.server = h.server
    BY <1>0 DEF Threads, Waiting
  <2> HIDE DEF u
  <2>2. Turn(h, u)
    BY <2>1 DEF Turn, Waiting
  <2> QED
    BY <1>1, <2>2 DEF Move, u
<1> QED
  BY <1>1 DEF Finish

\* A thread that goes on, in the three places of the code that wait for nothing new.
LEMMA Kept ==
  ASSUME KvInv, NEW h \in handlers, h.at \in Waiting, NEW u \in Threads,
         u.op = h.op, u.call = h.call, u.server = h.server, u.index = h.index,
         u.at = "get" => h.op.type = "Get", u.at # "done",
         u.at = "erase" /\ u.err # "ErrWrongLeader" => Settled(h.op.client, h.op.request)
  PROVE  Turn(h, u)
BY DEF Turn

\* Every step of a thread.
LEMMA HandlerTurns ==
  ASSUME KvInv, NEW h \in handlers, HandlerStep(h)
  PROVE  \/ handlers' = handlers \ {h}
         \/ \E u : Turn(h, u) /\ handlers' = (handlers \ {h}) \cup {u}
<1>0. h \in Threads /\ h.op \in Issued /\ h.server \in Server /\ h.err \in Err
  BY DEF KvInv, ThreadsInv, Threads
<1> DEFINE Goal == \E u : Turn(h, u) /\ handlers' = (handlers \ {h}) \cup {u}
<1>1. CASE StartCommand(h)
  <2>1. CASE Finish(h, "ErrWrongLeader")
    BY <2>1, Finished DEF Err
  <2>2. CASE /\ Start(h.server, h.op)
             /\ Move(h, [h EXCEPT !.at = "create", !.index = StartIndex(h.server)])
    <3> DEFINE u == [h EXCEPT !.at = "create", !.index = StartIndex(h.server)]
    <3>1. logs[h.server] \in Seq(Issued) /\ logs \in [Server -> Seq(Issued)]
      BY <1>0 DEF KvInv, LogsInv
    <3>2. logs'[h.server] = Append(logs[h.server], h.op)
      BY <1>0, <2>2, <3>1 DEF Start
    <3>3. StartIndex(h.server) = Len(logs[h.server]) + 1 /\ StartIndex(h.server) \in Nat
          /\ StartIndex(h.server) \in DOMAIN logs'[h.server]
      BY <3>1, <3>2 DEF StartIndex
    <3>4. /\ u \in Threads /\ u.at = "create" /\ u.index = StartIndex(h.server)
          /\ u.op = h.op /\ u.call = h.call /\ u.server = h.server
      BY <1>0, <3>3 DEF Threads, Waiting
    <3> HIDE DEF u
    <3>5. Turn(h, u)
      BY <3>3, <3>4 DEF Turn
    <3> QED
      BY <2>2, <3>5 DEF Move, u
  <2> QED
    BY <1>1, <2>1, <2>2 DEF StartCommand
<1>2. ASSUME NEW at \in Waiting, h.at \in Waiting, Move(h, [h EXCEPT !.at = at]),
             at = "get" => h.op.type = "Get", at # "erase"
      PROVE  Goal
  <2> DEFINE u == [h EXCEPT !.at = at]
  <2>1. /\ u \in Threads /\ u.at = at /\ u.index = h.index
        /\ u.op = h.op /\ u.call = h.call /\ u.server = h.server
    BY <1>0 DEF Threads
  <2> HIDE DEF u
  <2>2. Turn(h, u)
    BY <1>2, <2>1, Kept DEF Waiting
  <2> QED
    BY <1>2, <2>2 DEF Move, u
<1>3. ASSUME NEW at \in {"duplicate", "erase"}, h.at \in Waiting, NEW err \in Err,
             Move(h, [h EXCEPT !.at = at, !.err = err]),
             err # "ErrWrongLeader" => Settled(h.op.client, h.op.request)
      PROVE  Goal
  <2> DEFINE u == [h EXCEPT !.at = at, !.err = err]
  <2>1. /\ u \in Threads /\ u.at = at /\ u.index = h.index /\ u.err = err
        /\ u.op = h.op /\ u.call = h.call /\ u.server = h.server
    BY <1>0 DEF Threads, Waiting
  <2> HIDE DEF u
  <2>2. Turn(h, u)
    BY <1>3, <2>1, Kept DEF Waiting
  <2> QED
    BY <1>3, <2>2 DEF Move, u
<1>4. CASE CreateChannel(h)
  BY <1>2, <1>4 DEF CreateChannel, Waiting
<1>5. CASE PopCommand(h)
  <2>1. h.at \in Waiting
    BY <1>5 DEF PopCommand, Waiting
  <2>2. CASE Returns(h, "ErrWrongLeader")
    BY <1>3, <2>1, <2>2 DEF Returns, Err
  <2>3. CASE h.op.type = "Get" /\ Move(h, [h EXCEPT !.at = "get"])
    BY <1>2, <2>1, <2>3 DEF Waiting
  <2>4. CASE Returns(h, "OK") /\ SameRequest(Head(waitApplyCh[h.server][h.index]), h.op)
    <3>1. /\ waitApplyCh[h.server][h.index] # <<>>
          /\ waitApplyCh[h.server][h.index] \in Seq({chosen[m] : m \in DOMAIN chosen})
      BY <1>0, <1>5 DEF PopCommand, KvInv, LoopInv
    <3>2. Head(waitApplyCh[h.server][h.index]) \in {chosen[m] : m \in DOMAIN chosen}
      BY <3>1
    <3>3. Settled(h.op.client, h.op.request)
      BY <1>0, <2>4, <3>2, SettledFacts
    <3> QED
      BY <1>3, <2>1, <2>4, <3>3 DEF Returns, Err
  <2> QED
    BY <1>5, <2>2, <2>3, <2>4 DEF PopCommand
<1>6. CASE TimeOut(h)
  <2>1. PICK at \in {"duplicate", "erase"} : Move(h, [h EXCEPT !.at = at, !.err = "ErrWrongLeader"])
    BY <1>6 DEF TimeOut
  <2> QED
    BY <1>3, <1>6, <2>1 DEF TimeOut, Waiting, Err
<1>7. CASE CheckDuplicate(h)
  <2>1. h.at \in Waiting
    BY <1>7 DEF CheckDuplicate, Waiting
  <2>2. CASE Returns(h, "ErrWrongLeader")
    BY <1>3, <2>1, <2>2 DEF Returns, Err
  <2>3. CASE h.op.type = "Get" /\ Move(h, [h EXCEPT !.at = "get"])
    BY <1>2, <2>1, <2>3 DEF Waiting
  <2>4. CASE Returns(h, "OK") /\ Duplicate(h.server, h.op)
    <3>1. Settled(h.op.client, h.op.request)
      BY <1>0, <2>4, SettledFacts
    <3> QED
      BY <1>3, <2>1, <2>4, <3>1 DEF Returns, Err
  <2> QED
    BY <1>7, <2>2, <2>3, <2>4 DEF CheckDuplicate
<1>8. CASE ExecuteGet(h)
  <2> DEFINE value == kv[h.server][h.op.key]
             err == IF value = NoValue THEN "ErrNoKey" ELSE "OK"
             u == [h EXCEPT !.at = "erase", !.value = value, !.err = err]
  <2>1. handlers' = (handlers \ {h}) \cup {u} /\ h.at = "get"
    BY <1>8 DEF ExecuteGet, Move
  <2>2. value \in Values /\ err \in Err
    <3>1. h.op.key \in Key
      BY <1>0, IssuedFacts DEF KvInv
    <3> QED
      BY <1>0, <3>1 DEF KvInv, ThreadsInv, Err
  <2>3. h.op.type = "Get"
    BY <2>1 DEF KvInv, RepliesInv
  <2>4. Settled(h.op.client, h.op.request)
    BY <1>0, <2>3, SettledFacts
  <2> HIDE DEF value, err
  <2>5. /\ u \in Threads /\ u.at = "erase" /\ u.index = h.index
        /\ u.op = h.op /\ u.call = h.call /\ u.server = h.server
    BY <1>0, <2>2 DEF Threads, Waiting
  <2> HIDE DEF u
  <2>6. Turn(h, u)
    BY <2>1, <2>4, <2>5, Kept DEF Waiting
  <2> QED
    BY <2>1, <2>6
<1>9. CASE EraseChannel(h)
  <2>1. Finish(h, h.err) /\ h.at = "erase"
    BY <1>9 DEF EraseChannel
  <2>2. h.err # "ErrWrongLeader" => Settled(h.op.client, h.op.request)
    BY <2>1 DEF KvInv, RepliesInv
  <2> QED
    BY <1>0, <2>1, <2>2, Finished
<1> QED
  BY <1>1, <1>4, <1>5, <1>6, <1>7, <1>8, <1>9 DEF HandlerStep

-----------------------------------------------------------------------------
(* What is settled. *)

\* What is committed stays so.
LEMMA SettledStays ==
  ASSUME Grow
  PROVE  \A c, r : Settled(c, r) => Settled(c, r)'
BY DEF Grow, Settled, IsRequest, Writes

\* Below a settled request of a Clerk every request was answered.
LEMMA EarlierSettled ==
  ASSUME KvInv, NEW op \in Issued, Settled(op.client, op.request)
  PROVE  \A r \in 1 .. op.request : Settled(op.client, r)
<1> DEFINE c == op.client
<1>1. c \in Client /\ op.request \in Nat /\ clerks[c].request \in Nat /\ op.request <= clerks[c].request
  BY IssuedFacts DEF KvInv
<1>2. Answered(c) \in Int /\ op.request - 1 <= Answered(c)
  BY <1>1 DEF Answered
<1>3. ASSUME NEW r \in 1 .. op.request PROVE Settled(c, r)
  <2>1. CASE r = op.request
    BY <2>1
  <2>2. CASE r # op.request
    <3>1. r \in 1 .. Answered(c)
      BY <1>1, <1>2, <2>2
    <3> QED
      BY <1>1, <3>1 DEF KvInv, RepliesInv
  <2> QED
    BY <2>1, <2>2
<1> QED
  BY <1>3

\* A Clerk's new call, or the same one again.
Calling(c, r, s) ==
  /\ Call(c, r, s) /\ handlers' \subseteq handlers \cup {Sent(c, r, s)}
  /\ \/ clerks[c].state = "idle" /\ r = clerks[c].request + 1 /\ r \in DOMAIN Script[c]
     \/ clerks[c].state = "waiting" /\ r = clerks[c].request
\* NewRequest and Retry are such calls.
LEMMA CallMade ==
  ASSUME ClerksInv, NEW c \in Client, NewRequest(c) \/ Retry(c)
  PROVE  \E s \in Server, r \in Nat : Calling(c, r, s)
<1>0. clerks[c].server \in Server /\ clerks[c].request \in Nat /\ clerks[c].request + 1 \in Nat
  BY DEF ClerksInv, Clerks
<1>1. CASE NewRequest(c)
  <2>1. Calling(c, clerks[c].request + 1, clerks[c].server)
    BY <1>1 DEF NewRequest, Calling
  <2> QED
    BY <1>0, <2>1
<1>2. CASE Retry(c)
  <2>1. PICK d : /\ d \in {NextServer[clerks[c].server]} \cup ({clerks[c].server} \ up)
                 /\ Call(c, clerks[c].request, d)
                 /\ handlers' = (handlers \ Replies(c)) \cup {Sent(c, clerks[c].request, d)}
    BY <1>2 DEF Retry
  <2>2. d \in Server
    BY <1>0, <2>1, ServersAssumption
  <2>3. Calling(c, clerks[c].request, d)
    BY <1>2, <2>1 DEF Retry, Calling
  <2> QED
    BY <1>0, <2>2, <2>3
<1> QED
  BY <1>1, <1>2

\* The request of a reply that ends a call, and every earlier one, is settled.
LEMMA AnsweredStep ==
  ASSUME Step, Next
  PROVE  \A c \in Client : \A r \in 1 .. Answered(c)' : Settled(c, r)
<1>0. KvInv /\ \A c \in Client : clerks[c].request \in Nat
  BY DEF Step, KvInv, ClerksInv, Clerks
<1>1. CASE UNCHANGED clerks
  BY <1>0, <1>1 DEF Answered, KvInv, RepliesInv
<1>2. ASSUME NEW c \in Client, NewRequest(c) \/ Retry(c)
      PROVE  \A d \in Client : Answered(d)' = Answered(d)
  <2>1. PICK s \in Server, r \in Nat : Calling(c, r, s)
    BY <1>0, <1>2, CallMade DEF KvInv
  <2>2. /\ clerks'[c].request = r /\ clerks'[c].state = "waiting"
        /\ \A d \in Client \ {c} : clerks'[d] = clerks[d]
    BY <1>0, <2>1, Called DEF KvInv, Calling
  <2> QED
    BY <1>0, <2>1, <2>2 DEF Answered, Calling
<1>3. ASSUME NEW c \in Client, Answer(c)
      PROVE  \A d \in Client : \A r \in 1 .. Answered(d)' : Settled(d, r)
  <2>1. PICK h \in Replies(c) : h.err # "ErrWrongLeader"
    BY <1>3 DEF Answer
  <2>2. h \in handlers /\ h.op \in Issued /\ h.op.client = c /\ h.at = "done" /\ h.op.request = clerks[c].request
    BY <1>0, <2>1 DEF Replies, Awaited, KvInv, ThreadsInv, Threads
  <2>3. Settled(c, h.op.request)
    BY <1>0, <2>1, <2>2 DEF KvInv, RepliesInv
  <2>4. \A r \in 1 .. clerks[c].request : Settled(c, r)
    BY <1>0, <2>2, <2>3, EarlierSettled
  <2>5. /\ clerks'[c].state = "idle" /\ clerks'[c].request = clerks[c].request
        /\ \A d \in Client \ {c} : clerks'[d] = clerks[d]
    BY <1>0, <1>3, AnsweredFacts DEF KvInv
  <2>6. \A d \in Client \ {c} : Answered(d)' = Answered(d)
    BY <2>5 DEF Answered
  <2>7. Answered(c)' = clerks[c].request
    BY <2>5 DEF Answered
  <2> QED
    BY <1>0, <2>4, <2>6, <2>7 DEF KvInv, RepliesInv
<1>4. \A c \in Client : \A r \in 1 .. Answered(c) : Settled(c, r)
  BY <1>0 DEF KvInv, RepliesInv
<1> QED
  BY <1>1, <1>2, <1>3, <1>4
  DEF Next, KvNext, GetCommandFromRaft, PopMessage, Execute, GetSnapShotFromRaft,
      IfNeedToSendSnapShotCommand, SendMessageToWaitChan, HandlerStep, StartCommand, CreateChannel,
      PopCommand, TimeOut, CheckDuplicate, ExecuteGet, EraseChannel

\* A request id that is assigned, and every lower one, is of a settled request.
LEMMA AppliedSettled ==
  ASSUME KvInv, NEW s \in Server, NEW op \in Issued, Settled(op.client, op.request),
         lastRequestId' = [lastRequestId EXCEPT ![s][op.client] = op.request]
  PROVE  /\ lastRequestId' \in [Server -> [Client -> Nat]]
         /\ \A t \in Server, c \in Client : \A r \in 1 .. lastRequestId'[t][c] : Settled(c, r)
<1>1. op.client \in Client /\ op.request \in Nat
  BY IssuedFacts DEF KvInv
<1>2. lastRequestId \in [Server -> [Client -> Nat]]
  BY DEF KvInv, ThreadsInv
<1>3. /\ lastRequestId' \in [Server -> [Client -> Nat]]
      /\ \A t \in Server, c \in Client :
            lastRequestId'[t][c] = lastRequestId[t][c] \/ (c = op.client /\ lastRequestId'[t][c] = op.request)
  BY <1>1, <1>2
<1>4. \A r \in 1 .. op.request : Settled(op.client, r)
  BY EarlierSettled
<1> QED
  BY <1>3, <1>4 DEF KvInv, RepliesInv

\* The data and the request ids that a step leaves.
LEMMA StoreStep ==
  ASSUME KvInv, Next
  PROVE  /\ kv' \in [Server -> [Key -> Values]]
         /\ lastRequestId' \in [Server -> [Client -> Nat]]
         /\ \A s \in Server, c \in Client : \A r \in 1 .. lastRequestId'[s][c] : Settled(c, r)
<1>0. kv \in [Server -> [Key -> Values]]
  BY DEF KvInv, ThreadsInv
<1>1. CASE UNCHANGED <<kv, lastRequestId>>
  BY <1>1 DEF KvInv, ThreadsInv, RepliesInv
<1>2. ASSUME NEW s \in Server, Execute(s)
      PROVE  /\ kv' \in [Server -> [Key -> Values]]
             /\ lastRequestId' \in [Server -> [Client -> Nat]]
             /\ \A t \in Server, c \in Client : \A r \in 1 .. lastRequestId'[t][c] : Settled(c, r)
  <2>1. PICK n \in DOMAIN chosen : loop[s].op = chosen[n]
    BY <1>2, LoopFacts DEF Execute, KvInv
  <2>2. loop[s].op \in Issued
    BY <2>1 DEF KvInv, LogsInv
  <2>3. Settled(loop[s].op.client, loop[s].op.request)
    BY <2>1, <2>2, SettledFacts DEF SameRequest
  <2>4. loop[s].op.key \in Key /\ loop[s].op.value \in Values
    BY <2>2, IssuedFacts DEF KvInv
  <2>5. kv' \in [Server -> [Key -> Values]]
    BY <1>0, <1>2, <2>4 DEF Execute
  <2>6. lastRequestId' = [lastRequestId EXCEPT ![s][loop[s].op.client] = loop[s].op.request]
    BY <1>2 DEF Execute
  <2> QED
    BY <2>2, <2>3, <2>5, <2>6, AppliedSettled
<1>3. ASSUME NEW h \in handlers, ExecuteGet(h)
      PROVE  /\ lastRequestId' \in [Server -> [Client -> Nat]]
             /\ \A t \in Server, c \in Client : \A r \in 1 .. lastRequestId'[t][c] : Settled(c, r)
  <2>1. h.op \in Issued /\ h.server \in Server
    BY DEF KvInv, ThreadsInv, Threads
  <2>2. Settled(h.op.client, h.op.request)
    BY <1>3, <2>1, SettledFacts DEF ExecuteGet, KvInv, RepliesInv
  <2>3. lastRequestId' = [lastRequestId EXCEPT ![h.server][h.op.client] = h.op.request]
    BY <1>3 DEF ExecuteGet
  <2> QED
    BY <2>1, <2>2, <2>3, AppliedSettled
<1>4. ASSUME NEW h \in handlers, ExecuteGet(h) PROVE kv' = kv
  BY <1>4 DEF ExecuteGet
<1>5. CASE RaftNext /\ UNCHANGED <<up, kvVars, loop, waitApplyCh, handlers, clerks>>
  BY <1>1, <1>5 DEF kvVars
<1>6. ASSUME NEW s \in Server,
             GetCommandFromRaft(s) \/ GetSnapShotFromRaft(s) \/ IfNeedToSendSnapShotCommand(s) \/ SendMessageToWaitChan(s)
      PROVE  UNCHANGED <<kv, lastRequestId>>
  BY <1>6 DEF GetCommandFromRaft, GetSnapShotFromRaft, IfNeedToSendSnapShotCommand, SendMessageToWaitChan, kvVars
<1>7. ASSUME NEW h \in handlers, HandlerStep(h), ~ExecuteGet(h) PROVE UNCHANGED <<kv, lastRequestId>>
  BY <1>7 DEF HandlerStep, StartCommand, CreateChannel, PopCommand, TimeOut, CheckDuplicate, EraseChannel, kvVars
<1>8. ASSUME NEW c \in Client, NewRequest(c) \/ Answer(c) \/ Retry(c) PROVE UNCHANGED <<kv, lastRequestId>>
  BY <1>8 DEF NewRequest, Answer, Retry, Call, kvVars
<1> QED
  BY <1>0, <1>1, <1>2, <1>3, <1>4, <1>5, <1>6, <1>7, <1>8 DEF Next, KvNext

-----------------------------------------------------------------------------
(* What the threads hold is kept. *)

\* A thread as its Clerk starts it.
Fresh(u) ==
  /\ u \in Threads' /\ u.at = "start"
  /\ u.call <= clerks'[u.op.client].calls
  /\ u.call = clerks'[u.op.client].calls => u.op.request = clerks'[u.op.client].request

\* What the threads rely on, apart from what each step says of the rest.
LEMMA ThreadsKept ==
  ASSUME Step, Next,
         \A u \in handlers' : u \in handlers \/ Fresh(u) \/ (\E h \in handlers : Turn(h, u) /\ UNCHANGED clerks),
         \A h \in handlers :
            LET clerk == clerks'[h.op.client]
            IN h.call <= clerk.calls /\ (h.call = clerk.calls => h.op.request = clerk.request)
  PROVE  ThreadsInv'
<1>0. KvInv /\ Grow
  BY DEF Step
<1>1. kv' \in [Server -> [Key -> Values]] /\ lastRequestId' \in [Server -> [Client -> Nat]]
  BY <1>0, StoreStep
<1>2. Threads \subseteq Threads'
  BY <1>0 DEF Threads, Grow
<1>3. handlers' \subseteq Threads'
  BY <1>0, <1>2 DEF KvInv, ThreadsInv, Turn, Fresh
<1>4. \A h \in handlers' :
        LET clerk == clerks'[h.op.client]
        IN h.call <= clerk.calls /\ (h.call = clerk.calls => h.op.request = clerk.request)
  <2> SUFFICES ASSUME NEW u \in handlers'
               PROVE  LET clerk == clerks'[u.op.client]
                      IN u.call <= clerk.calls /\ (u.call = clerk.calls => u.op.request = clerk.request)
    OBVIOUS
  <2>1. CASE u \in handlers
    BY <2>1
  <2>2. CASE Fresh(u)
    BY <2>2 DEF Fresh
  <2>3. ASSUME NEW h \in handlers, Turn(h, u), UNCHANGED clerks
        PROVE  LET clerk == clerks'[u.op.client]
               IN u.call <= clerk.calls /\ (u.call = clerk.calls => u.op.request = clerk.request)
    BY <2>3 DEF Turn
  <2> QED
    BY <2>1, <2>2, <2>3
<1>5. Values' = Values
  BY DEF Values
<1> QED
  BY <1>1, <1>3, <1>4, <1>5 DEF ThreadsInv

\* A thread that starts to wait does so at an index beyond those of the others.
LEMMA IndexesStep ==
  ASSUME Step,
         \/ \A u \in handlers' : u \in handlers \/ Fresh(u)
         \/ \E h \in handlers : \E u : Turn(h, u) /\ handlers' = (handlers \ {h}) \cup {u}
  PROVE  IndexesInv'
<1>0. IndexesInv /\ logs \in [Server -> Seq(Issued)] /\ handlers \subseteq Threads
      /\ \A s \in Server : DOMAIN logs[s] \subseteq DOMAIN logs'[s]
  BY DEF Step, KvInv, LogsInv, Grow, ThreadsInv
<1>1. CASE \A u \in handlers' : u \in handlers \/ Fresh(u)
  <2>1. \A u \in handlers' : u.at \in Waiting => u \in handlers
    BY <1>1 DEF Fresh, Waiting
  <2>2. \A h \in handlers' : h.at \in Waiting => h.index \in DOMAIN logs'[h.server]
    BY <1>0, <2>1 DEF IndexesInv, Threads
  <2>3. \A g, h \in handlers' : {g.at, h.at} \subseteq Waiting /\ g.server = h.server /\ g.index = h.index => g = h
    BY <1>0, <2>1 DEF IndexesInv
  <2> QED
    BY <2>2, <2>3 DEF IndexesInv, Waiting
<1>2. ASSUME NEW h \in handlers, NEW u, Turn(h, u), handlers' = (handlers \ {h}) \cup {u}
      PROVE  IndexesInv'
  <2>1. h.server \in Server /\ u.server = h.server /\ logs[h.server] \in Seq(Issued)
    BY <1>0, <1>2 DEF Turn, Threads
  <2>2. u.at \in Waiting => u.index \in DOMAIN logs'[u.server]
    <3>1. CASE h.at \in Waiting /\ u.index = h.index
      BY <1>0, <2>1, <3>1 DEF IndexesInv
    <3> QED
      BY <1>2, <2>1, <3>1 DEF Turn
  <2>3. ASSUME NEW g \in handlers \ {h}, {g.at, u.at} \subseteq Waiting, g.server = u.server, g.index = u.index
        PROVE  FALSE
    <3>1. g.index \in DOMAIN logs[h.server]
      BY <1>0, <2>1, <2>3 DEF IndexesInv
    <3>2. CASE h.at \in Waiting /\ u.index = h.index
      BY <1>0, <2>1, <2>3, <3>2 DEF IndexesInv
    <3>3. CASE u.index = Len(logs[h.server]) + 1
      BY <2>1, <2>3, <3>1, <3>3
    <3> QED
      BY <1>2, <2>3, <3>2, <3>3 DEF Turn
  <2>4. \A g \in handlers' : g.at \in Waiting => g.index \in DOMAIN logs'[g.server]
    BY <1>0, <1>2, <2>2 DEF IndexesInv, Threads
  <2>5. \A f, g \in handlers' : {f.at, g.at} \subseteq Waiting /\ f.server = g.server /\ f.index = g.index => f = g
    <3> SUFFICES ASSUME NEW f \in handlers', NEW g \in handlers',
                        {f.at, g.at} \subseteq Waiting, f.server = g.server, f.index = g.index, f # g
                 PROVE  FALSE
      OBVIOUS
    <3>1. CASE f \in handlers /\ g \in handlers
      BY <1>0, <3>1 DEF IndexesInv
    <3>2. CASE f = u
      BY <1>2, <2>3, <3>2
    <3>3. CASE g = u
      BY <1>2, <2>3, <3>3
    <3> QED
      BY <1>2, <3>1, <3>2, <3>3
  <2> QED
    BY <2>4, <2>5 DEF IndexesInv, Waiting
<1> QED
  BY <1>1, <1>2

\* What a reply, a request id or the end of a call says is settled.
LEMMA RepliesStep ==
  ASSUME Step, Next,
         \A u \in handlers' : u \in handlers \/ Fresh(u) \/ \E h \in handlers : Turn(h, u)
  PROVE  RepliesInv'
<1>0. KvInv /\ Grow
  BY DEF Step
<1>1. \A c, r : Settled(c, r) => Settled(c, r)'
  BY <1>0, SettledStays
<1>2. ASSUME NEW u \in handlers'
      PROVE  /\ u.at = "get" => u.op.type = "Get"
             /\ u.at \in {"erase", "done"} /\ u.err # "ErrWrongLeader" => Settled(u.op.client, u.op.request)
  <2>1. CASE u \in handlers
    BY <1>0, <2>1 DEF KvInv, RepliesInv
  <2>2. CASE Fresh(u)
    BY <2>2 DEF Fresh
  <2>3. ASSUME NEW h \in handlers, Turn(h, u)
        PROVE  /\ u.at = "get" => u.op.type = "Get"
               /\ u.at \in {"erase", "done"} /\ u.err # "ErrWrongLeader" => Settled(u.op.client, u.op.request)
    BY <2>3 DEF Turn
  <2> QED
    BY <2>1, <2>2, <2>3
<1>3. \A s \in Server, c \in Client : \A r \in 1 .. lastRequestId'[s][c] : Settled(c, r)
  BY <1>0, StoreStep
<1>4. \A c \in Client : \A r \in 1 .. Answered(c)' : Settled(c, r)
  BY AnsweredStep
<1>5. \A u \in handlers' : u.at \in {"erase", "done"} /\ u.err # "ErrWrongLeader" => Settled(u.op.client, u.op.request)'
  BY <1>1, <1>2
<1>6. \A s \in Server, c \in Client : \A r \in 1 .. lastRequestId'[s][c] : Settled(c, r)'
  BY <1>1, <1>3
<1>7. \A c \in Client : \A r \in 1 .. Answered(c)' : Settled(c, r)'
  BY <1>1, <1>4
<1> QED
  BY <1>2, <1>5, <1>6, <1>7 DEF RepliesInv

\* Every step, in these terms.
LEMMA ThreadsStep ==
  ASSUME Step, Next
  PROVE  ThreadsInv' /\ IndexesInv' /\ RepliesInv'
<1>0. KvInv /\ Grow /\ ClerksInv
  BY DEF Step, KvInv
<1> DEFINE Dated == \A h \in handlers :
                      LET clerk == clerks'[h.op.client]
                      IN h.call <= clerk.calls /\ (h.call = clerk.calls => h.op.request = clerk.request)
           Goal == ThreadsInv' /\ IndexesInv' /\ RepliesInv'
<1>1. UNCHANGED clerks => Dated
  BY <1>0 DEF KvInv, ThreadsInv
<1>2. ASSUME Dated, \A u \in handlers' : u \in handlers \/ Fresh(u) PROVE Goal
  BY <1>2, ThreadsKept, IndexesStep, RepliesStep
<1>3. CASE UNCHANGED <<handlers, clerks>>
  BY <1>1, <1>2, <1>3
<1>4. ASSUME NEW h \in handlers, HandlerStep(h) PROVE Goal
  <2>1. UNCHANGED clerks
    BY <1>4 DEF HandlerStep, StartCommand, CreateChannel, PopCommand, TimeOut, CheckDuplicate, ExecuteGet, EraseChannel
  <2>2. CASE handlers' = handlers \ {h}
    BY <1>1, <1>2, <2>1, <2>2
  <2>3. ASSUME NEW u, Turn(h, u), handlers' = (handlers \ {h}) \cup {u} PROVE Goal
    <3>1. \A v \in handlers' : v \in handlers \/ \E g \in handlers : Turn(g, v)
      BY <2>3
    <3> QED
      BY <1>1, <2>1, <2>3, <3>1, ThreadsKept, IndexesStep, RepliesStep
  <2> QED
    BY <1>0, <1>4, <2>2, <2>3, HandlerTurns
<1>5. ASSUME NEW c \in Client, Answer(c) PROVE Goal
  <2>1. \A d \in Client : clerks'[d].request = clerks[d].request /\ clerks'[d].calls = clerks[d].calls
    BY <1>0, <1>5, AnsweredFacts DEF KvInv
  <2>2. \A h \in handlers : h.op.client \in Client
    BY <1>0, IssuedFacts DEF KvInv, ThreadsInv, Threads
  <2>3. Dated
    BY <1>0, <2>1, <2>2 DEF KvInv, ThreadsInv
  <2>4. handlers' \subseteq handlers
    BY <1>5 DEF Answer
  <2> QED
    BY <1>2, <2>3, <2>4
<1>6. ASSUME NEW c \in Client, NewRequest(c) \/ Retry(c) PROVE Goal
  <2>1. PICK s \in Server, r \in Nat : Calling(c, r, s)
    BY <1>0, <1>6, CallMade
  <2>2. /\ ClerksInv' /\ clerks'[c].request = r /\ clerks'[c].calls = clerks[c].calls + 1
        /\ clerks[c].calls \in Nat
        /\ \A d \in Client \ {c} : clerks'[d] = clerks[d]
    BY <1>0, <2>1, Called DEF Calling
  <2>10. clerks'[c].state = "waiting" /\ clerks'[c].request > 0
    BY <1>0, <2>1, Called DEF Calling, ClerksInv
  <2>3. \A h \in handlers : h.op.client \in Client /\ h.call \in Nat
    BY <1>0, IssuedFacts DEF KvInv, ThreadsInv, Threads
  <2>4. Dated
    <3> SUFFICES ASSUME NEW h \in handlers
                 PROVE  LET clerk == clerks'[h.op.client]
                        IN h.call <= clerk.calls /\ (h.call = clerk.calls => h.op.request = clerk.request)
      OBVIOUS
    <3>1. h.op.client \in Client /\ h.call \in Nat /\ h.call <= clerks[h.op.client].calls
          /\ (h.call = clerks[h.op.client].calls => h.op.request = clerks[h.op.client].request)
      BY <1>0, <2>3 DEF KvInv, ThreadsInv
    <3> QED
      BY <2>2, <3>1
  <2> DEFINE u == Sent(c, r, s)
  <2>5. u = [op |-> Operation(c, r), call |-> clerks[c].calls + 1, server |-> s, at |-> "start",
             index |-> 0, err |-> "", value |-> NoValue]
    BY DEF Sent, Handler
  <2>6. Operation(c, r).client = c /\ Operation(c, r).request = r
    BY DEF Operation
  <2>7. Operation(c, r) \in Issued'
    <3>1. r \in 1 .. clerks'[c].request
      BY <2>2, <2>10
    <3> QED
      BY <3>1 DEF Issued, Operation
  <2> HIDE DEF u
  <2>8. u \in Threads'
    <3>1. clerks[c].calls + 1 \in Nat /\ NoValue \in Values /\ "" \in Err
      BY <2>2 DEF Values, Err
    <3> QED
      BY <2>5, <2>7, <3>1 DEF Threads, Values
  <2>9. Fresh(u)
    <3>1. u.at = "start" /\ u.op.client = c /\ u.op.request = r /\ u.call = clerks[c].calls + 1
      BY <2>5, <2>6
    <3> QED
      BY <2>2, <2>8, <3>1 DEF Fresh
  <2> QED
    BY <1>2, <2>1, <2>4, <2>9 DEF Calling, u
<1>7. ASSUME NEW s \in Server,
              \/ GetCommandFromRaft(s) \/ Execute(s) \/ GetSnapShotFromRaft(s)
              \/ IfNeedToSendSnapShotCommand(s) \/ SendMessageToWaitChan(s)
      PROVE  Goal
  BY <1>3, <1>7
  DEF GetCommandFromRaft, PopMessage, Execute, GetSnapShotFromRaft, IfNeedToSendSnapShotCommand,
      SendMessageToWaitChan
<1> QED
  BY <1>3, <1>4, <1>5, <1>6, <1>7 DEF Next, KvNext

-----------------------------------------------------------------------------
(* The invariant, and what it is for. *)

\* The first state: no requests, no threads, nothing in the logs.
LEMMA KvInvInit ==
  ASSUME Init
  PROVE  KvInv
<1>1. ClerksInv
  <2>1. [request |-> 0, server |-> FirstServer, calls |-> 0, state |-> "idle",
         err |-> "", value |-> NoValue, seen |-> [d \in Client |-> 0]] \in Clerks
    BY ServersAssumption DEF Clerks, Err, Values
  <2>2. \A c \in Client : clerks[c].request = 0 /\ clerks[c].state = "idle"
    BY DEF Init
  <2>3. clerks \in [Client -> Clerks]
    BY <2>1 DEF Init
  <2>4. 1 .. 0 = {}
    OBVIOUS
  <2> QED
    BY <2>2, <2>3, <2>4 DEF ClerksInv
<1>2. LogsInv
  <2>1. <<>> \in Seq(Issued)
    OBVIOUS
  <2> QED
    BY <2>1 DEF Init, RaftInit, LogsInv
<1>3. ThreadsInv
  BY DEF Init, ThreadsInv, Values
<1>4. RaftInv
  <2>1. Sequence(<<>>) /\ DOMAIN <<>> = {} /\ Len(<<>>) = 0
    BY DEF Sequence
  <2>2. /\ DOMAIN taken = Server /\ DOMAIN applyChan = Server
        /\ \A s \in Server : /\ taken[s] = <<>> /\ applyChan[s] = <<>>
                             /\ lastApplied[s] = 0 /\ snapIndex[s] = 0
        /\ lastApplied \in [Server -> Nat] /\ snapIndex \in [Server -> Nat]
        /\ snapshots = {} /\ pushes = {} /\ chosen = <<>>
    BY DEF Init, RaftInit
  <2> QED
    BY <2>1, <2>2 DEF RaftInv
<1>5. LoopInv
  <2>1. DOMAIN <<>> = {}
    OBVIOUS
  <2>2. /\ DOMAIN loop = Server /\ DOMAIN waitApplyCh = Server
        /\ \A s \in Server : loop[s] = Reading /\ waitApplyCh[s] = <<>>
    BY DEF Init
  <2> QED
    BY <2>1, <2>2 DEF LoopInv
<1>6. IndexesInv
  BY DEF Init, IndexesInv
<1>7. RepliesInv
  <2>1. \A c \in Client : Answered(c) = 0
    BY DEF Init, Answered
  <2>2. \A s \in Server, c \in Client : lastRequestId[s][c] = 0
    BY DEF Init
  <2>3. handlers = {}
    BY DEF Init
  <2>4. 1 .. 0 = {}
    OBVIOUS
  <2> QED
    BY <2>1, <2>2, <2>3, <2>4 DEF RepliesInv
<1> QED
  BY <1>1, <1>2, <1>3, <1>4, <1>5, <1>6, <1>7 DEF KvInv

\* A step in which nothing happens.
LEMMA KvInvStutter ==
  ASSUME KvInv, UNCHANGED vars
  PROVE  KvInv'
<1>1. /\ UNCHANGED <<logs, chosen, leader, leaders, elections, lastApplied, taken, applyChan>>
      /\ UNCHANGED <<snapIndex, snapshots, pushes, persister, up, kv, lastRequestId, lastSnapShot>>
      /\ UNCHANGED <<loop, waitApplyCh, handlers, clerks>>
  BY DEF vars, raftVars, logVars, applyVars, snapVars, kvVars
<1>2. Issued' = Issued /\ Values' = Values /\ Threads' = Threads /\ Clerks' = Clerks
  BY <1>1 DEF Issued, Values, Threads, Clerks
<1>3. ClerksInv' /\ LogsInv' /\ ThreadsInv'
  BY <1>1, <1>2 DEF KvInv, ClerksInv, LogsInv, ThreadsInv
<1>4. RaftInv' /\ LoopInv'
  <2>1. Grow
    BY <1>1, <1>2, LogsStay DEF KvInv, LogsInv
  <2>2. Step
    BY <1>3, <2>1 DEF Step
  <2> QED
    BY <1>1, <2>2, RaftUnmoved, LoopUnmoved
<1>5. IndexesInv' /\ RepliesInv'
  BY <1>1 DEF KvInv, IndexesInv, RepliesInv, Settled, Writes, IsRequest, Answered
<1> QED
  BY <1>3, <1>4, <1>5 DEF KvInv

\* The Clerks, the logs, the way from Raft to the loop, and the threads, together.
LEMMA KvInvariance == Spec => []KvInv
<1>1. Init => KvInv
  BY KvInvInit
<1>2. KvInv /\ [Next]_vars => KvInv'
  <2> SUFFICES ASSUME KvInv, [Next]_vars PROVE KvInv'
    OBVIOUS
  <2>1. CASE Next
    <3>1. Step
      BY <2>1, LogsStep DEF Step
    <3>2. RaftInv' /\ LoopInv'
      BY <2>1, <3>1, RaftStep
    <3>3. ThreadsInv' /\ IndexesInv' /\ RepliesInv'
      BY <2>1, <3>1, ThreadsStep
    <3> QED
      BY <3>1, <3>2, <3>3 DEF Step, KvInv
  <2>2. CASE UNCHANGED vars
    BY <2>2, KvInvStutter
  <2> QED
    BY <2>1, <2>2
<1> QED
  BY <1>1, <1>2, PTL DEF Spec

\* A thread of Get or PutAppend pops from, and then deletes, the queue that it made:
\* nobody else at its server waits at the index that Start gave it.
THEOREM QueueOwned == Spec => []ChannelOwned
<1>1. KvInv => ChannelOwned
  BY DEF KvInv, IndexesInv, ChannelOwned, Waiting
<1> QED
  BY <1>1, KvInvariance, PTL

\* A Put or an Append that the Clerk was told of is committed: whichever thread of
\* whichever attempt answered, after a pop or after a wait that timed out.
THEOREM AcknowledgedIsCommitted == Spec => []AckedWritten
<1>1. KvInv => AckedWritten
  BY DEF KvInv, RepliesInv, Settled, AckedWritten
<1> QED
  BY <1>1, KvInvariance, PTL
=============================================================================
