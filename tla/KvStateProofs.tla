----------------------------- MODULE KvStateProofs -----------------------------
(***************************************************************************)
(* That the data of every KvServer is what the committed commands make of  *)
(* an empty store, each taken once, and that reads are fresh, while there  *)
(* are no snapshots and no client writes after it has read: with either it *)
(* is not so (KvSnapshot.cfg, KvExecutedTwice.cfg).                        *)
(***************************************************************************)
EXTENDS KvProofs

-----------------------------------------------------------------------------
(* The inductive invariant. *)

\* No client writes after it has read.
WritesFirst ==
  \A c \in Client : \A r, q \in DOMAIN Script[c] : ~Writes(c, r) /\ Writes(c, q) => q < r

\* No snapshot is ever made, sent or pushed.
QuietInv ==
  /\ snapshots = {} /\ pushes = {}
  /\ \A s \in Server :
        /\ snapIndex[s] = 0 /\ lastSnapShot[s] = 0
        /\ loop[s].at # "snapshot"
        /\ \A x \in DOMAIN applyChan[s] : applyChan[s][x].type = "command"

\* The commands on their way to the loop of s are those behind the ones it was given,
\* with none left out and none twice; the one it executes is a write that was not found
\* a duplicate, and the one it is about to pass on was given.
Counted(s) ==
  /\ Given(s) \in Nat
  /\ \A x \in DOMAIN taken[s] : taken[s][x].index = lastApplied[s] - Len(taken[s]) + x
  /\ \A x \in DOMAIN applyChan[s] :
        applyChan[s][x].index = lastApplied[s] - Len(taken[s]) - Len(applyChan[s]) + x
  /\ loop[s].at = "execute" =>
        loop[s].index = Given(s) + 1 /\ ~Duplicate(s, loop[s].op) /\ loop[s].op.type # "Get"
  /\ loop[s].at = "send" => loop[s].index <= Given(s)

\* The first n commands hold the writes of client c up to its request r.
Covers(c, r, n) == \A q \in 1 .. r : Writes(c, q) => Reflects(c, q, n)

\* A Clerk's writes are committed in their order, first times taken.
Ordered == \A m \in DOMAIN chosen : Covers(chosen[m].client, chosen[m].request, m)

\* lastRequestId is at or past every write that the server was given, and at or past no
\* other.
Highest(s) ==
  /\ \A n \in 1 .. Given(s) :
        chosen[n].type # "Get" => chosen[n].request <= lastRequestId[s][chosen[n].client]
  /\ \A c \in Client : Covers(c, lastRequestId[s][c], Given(s))

\* What waits in a queue was given to the loop before; so were the writes of a Clerk whose
\* Get is about to be executed.
GivenTo(s) == {chosen[m] : m \in 1 .. Given(s)}
Passed(s) == \A n \in DOMAIN waitApplyCh[s] : waitApplyCh[s][n] \in Seq(GivenTo(s))
GetsCovered ==
  \A h \in handlers : h.at = "get" => Covers(h.op.client, h.op.request, Given(h.server))

\* v is the value of the last first write to k among the first n commands.
LastWritten(k, n, v) ==
  \/ WritesTo(k, n) = {} /\ v = NoValue
  \/ \E m \in WritesTo(k, n) : (\A l \in WritesTo(k, n) : l <= m) /\ v = chosen[m].value
Stored(s) == \A k \in Key : LastWritten(k, Given(s), kv[s][k])

StateInv ==
  /\ QuietInv /\ Ordered /\ GetsCovered
  /\ \A s \in Server : Counted(s) /\ Highest(s) /\ Stored(s) /\ Passed(s)

-----------------------------------------------------------------------------
(* The commands and what they leave. *)

\* The last write is the one that ValueAfter chooses.
LEMMA LastWrittenIs ==
  ASSUME NEW key, NEW n \in Nat, NEW v, LastWritten(key, n, v)
  PROVE  v = ValueAfter(key, n)
<1>0. WritesTo(key, n) \subseteq Int
  BY DEF WritesTo
<1>1. CASE WritesTo(key, n) = {} /\ v = NoValue
  BY <1>1 DEF ValueAfter
<1>2. ASSUME NEW m \in WritesTo(key, n), \A l \in WritesTo(key, n) : l <= m, v = chosen[m].value
      PROVE  v = ValueAfter(key, n)
  <2> DEFINE W == WritesTo(key, n)
             top == CHOOSE x \in W : \A l \in W : l <= x
  <2>1. top \in W /\ \A l \in W : l <= top
    BY <1>2
  <2>2. top = m
    BY <1>0, <1>2, <2>1
  <2>3. W # {}
    BY <1>2
  <2>4. ValueAfter(key, n) = chosen[top].value
    BY <2>3, Zenon DEF ValueAfter
  <2> HIDE DEF top
  <2> QED
    BY <1>2, <2>2, <2>4
<1> QED
  BY <1>1, <1>2 DEF LastWritten

\* Whether a committed command is the first of its request does not change.
LEMMA WritesStay ==
  ASSUME Step, NEW key, NEW n \in Nat, n <= Len(chosen), NEW v
  PROVE  LastWritten(key, n, v)' <=> LastWritten(key, n, v)
<1>0. Grow /\ chosen \in Seq(Issued) /\ Len(chosen) \in Nat
  BY DEF Step, KvInv, LogsInv
<1>1. \A m \in 1 .. n : m \in DOMAIN chosen /\ chosen'[m] = chosen[m]
  BY <1>0 DEF Grow
<1>2. \A m \in 1 .. n : First(m)' <=> First(m)
  <2> SUFFICES ASSUME NEW m \in 1 .. n PROVE First(m)' <=> First(m)
    OBVIOUS
  <2>1. \A l \in 1 .. m - 1 : chosen'[l] = chosen[l]
    BY <1>1
  <2>2. chosen'[m] = chosen[m]
    BY <1>1
  <2> QED
    BY <2>1, <2>2 DEF First, SameRequest
<1>3. WritesTo(key, n)' = WritesTo(key, n)
  BY <1>1, <1>2 DEF WritesTo
<1>4. WritesTo(key, n) \subseteq 1 .. n
  BY DEF WritesTo
<1> QED
  BY <1>1, <1>3, <1>4 DEF LastWritten

\* What one more command adds.
LEMMA WritesNext ==
  ASSUME NEW key, NEW n \in Nat
  PROVE  /\ WritesTo(key, n) \subseteq 1 .. n
         /\ First(n + 1) /\ chosen[n + 1].type # "Get" /\ chosen[n + 1].key = key =>
              WritesTo(key, n + 1) = WritesTo(key, n) \cup {n + 1}
         /\ ~(First(n + 1) /\ chosen[n + 1].type # "Get" /\ chosen[n + 1].key = key) =>
              WritesTo(key, n + 1) = WritesTo(key, n)
<1>1. 1 .. n + 1 = (1 .. n) \cup {n + 1}
  OBVIOUS
<1> QED
  BY <1>1 DEF WritesTo

\* What is committed was issued.
LEMMA ChosenFacts ==
  ASSUME KvInv, NEW n \in DOMAIN chosen
  PROVE  /\ chosen[n] \in Issued /\ n \in Nat /\ n > 0
         /\ chosen[n].client \in Client /\ chosen[n].key \in Key
         /\ chosen[n].request \in Nat /\ chosen[n].request > 0
         /\ chosen[n].request \in DOMAIN Script[chosen[n].client]
         /\ chosen[n].type = Script[chosen[n].client][chosen[n].request].type
         /\ chosen[n].type # "Get" <=> Writes(chosen[n].client, chosen[n].request)
<1>1. chosen[n] \in Issued /\ n \in Nat /\ n > 0
  BY DEF KvInv, LogsInv
<1> QED
  BY <1>1, IssuedFacts DEF KvInv, Writes

\* What was committed up to n is committed up to any higher index.
LEMMA CoversMore ==
  ASSUME NEW c, NEW r, NEW n \in Nat, NEW m \in Nat, n <= m, Covers(c, r, n)
  PROVE  Covers(c, r, m)
BY DEF Covers, Reflects

\* It stays so.
LEMMA CoversStays ==
  ASSUME Step, NEW n \in Nat, n <= Len(chosen)
  PROVE  /\ \A c, r : Reflects(c, r, n)' <=> Reflects(c, r, n)
         /\ \A c, r : Covers(c, r, n)' <=> Covers(c, r, n)
<1>1. \A m \in 1 .. n : chosen'[m] = chosen[m]
  BY DEF Step, KvInv, LogsInv, Grow
<1>2. \A c, r : Reflects(c, r, n)' <=> Reflects(c, r, n)
  BY <1>1 DEF Reflects, IsRequest
<1>3. \A c, r : Covers(c, r, n)' <=> Covers(c, r, n)
  BY <1>2 DEF Covers, Writes
<1> QED
  BY <1>2, <1>3

\* The writes of a Clerk that were answered are committed.
LEMMA AnsweredCovered ==
  ASSUME KvInv, NEW c \in Client
  PROVE  Covers(c, Answered(c), Len(chosen))
<1>1. DOMAIN chosen = 1 .. Len(chosen)
  BY DEF KvInv, LogsInv
<1>2. \A r \in 1 .. Answered(c) : Settled(c, r)
  BY DEF KvInv, RepliesInv
<1> QED
  BY <1>1, <1>2 DEF Covers, Reflects, Settled

\* Commit is the step that commits.
LEMMA CommitsOnly ==
  ASSUME Next
  PROVE  chosen' = chosen \/ (Commit /\ UNCHANGED <<kvVars, loop, waitApplyCh, handlers, clerks>>)
<1>1. CASE RaftNext /\ UNCHANGED <<kvVars, loop, waitApplyCh, handlers, clerks>>
  <2>1. Commit \/ chosen' = chosen
    BY <1>1 DEF RaftNext, Elect, Replicate, GetApplyLogs, PushTaken, SendSnapshot, InstallSnapshot,
                PushMsgToKvServer, logVars
  <2> QED
    BY <1>1, <2>1
<1>2. ASSUME NEW s \in Server,
              \/ GetCommandFromRaft(s) \/ Execute(s) \/ GetSnapShotFromRaft(s)
              \/ IfNeedToSendSnapShotCommand(s) \/ SendMessageToWaitChan(s)
      PROVE  chosen' = chosen
  BY <1>2
  DEF GetCommandFromRaft, PopMessage, Execute, GetSnapShotFromRaft, IfNeedToSendSnapShotCommand, Snapshot,
      SendMessageToWaitChan, raftVars, logVars
<1>3. ASSUME NEW h \in handlers, HandlerStep(h) PROVE chosen' = chosen
  BY <1>3
  DEF HandlerStep, StartCommand, Start, CreateChannel, PopCommand, TimeOut, CheckDuplicate, ExecuteGet,
      EraseChannel, raftVars, logVars
<1>4. ASSUME NEW c \in Client, NewRequest(c) \/ Answer(c) \/ Retry(c) PROVE chosen' = chosen
  BY <1>4 DEF NewRequest, Answer, Retry, Call, raftVars, logVars
<1> QED
  BY <1>1, <1>2, <1>3, <1>4 DEF Next, KvNext

\* A request is committed only once the writes before it are.
LEMMA OrderedStep ==
  ASSUME Step, Next, Ordered
  PROVE  Ordered'
<1>0. /\ KvInv /\ Grow /\ chosen \in Seq(Issued) /\ chosen' \in Seq(Issued') /\ ClerksInv'
      /\ Len(chosen) \in Nat /\ DOMAIN chosen = 1 .. Len(chosen)
  BY DEF Step, KvInv, LogsInv
<1>1. ASSUME NEW m \in DOMAIN chosen PROVE Covers(chosen[m].client, chosen[m].request, m)'
  <2>1. Covers(chosen[m].client, chosen[m].request, m)
    BY DEF Ordered
  <2>2. chosen'[m] = chosen[m] /\ m \in Nat /\ m <= Len(chosen)
    BY <1>0 DEF Grow
  <2>3. \A c, r : Covers(c, r, m)' <=> Covers(c, r, m)
    BY <2>2, CoversStays
  <2> QED
    BY <2>1, <2>2, <2>3
<1>2. CASE chosen' = chosen
  BY <1>1, <1>2 DEF Ordered
<1>3. CASE Commit /\ UNCHANGED <<kvVars, loop, waitApplyCh, handlers, clerks>>
  <2> DEFINE m == Len(chosen) + 1
             op == logs[leader][m]
  <2>1. chosen' = Append(chosen, op)
    BY <1>3 DEF Commit
  <2>2. DOMAIN chosen' = DOMAIN chosen \cup {m} /\ chosen'[m] = op /\ m \in 1 .. m
    BY <1>0, <2>1
  <2>3. op \in Issued
    <3>1. Issued' = Issued
      BY <1>3 DEF Issued, Operation
    <3>2. \A q \in Seq(Issued) : \A x \in DOMAIN q : q[x] \in Issued
      OBVIOUS
    <3>3. chosen' \in Seq(Issued) /\ m \in DOMAIN chosen' /\ chosen'[m] = op
      BY <1>0, <2>2, <3>1
    <3> HIDE DEF m, op
    <3> QED
      BY <3>2, <3>3
  <2>4. /\ op.client \in Client /\ op.request \in Nat
        /\ op.request <= clerks[op.client].request /\ clerks[op.client].request \in Nat
    BY <1>0, <2>3, IssuedFacts DEF KvInv
  <2>5. Covers(op.client, Answered(op.client), Len(chosen))
    BY <1>0, <2>4, AnsweredCovered
  <2>6. ASSUME NEW q \in 1 .. op.request, Writes(op.client, q)
        PROVE  \E l \in 1 .. m : IsRequest(chosen'[l], op.client, q)
    <3>1. CASE q = op.request
      BY <2>2, <3>1 DEF IsRequest
    <3>2. CASE q # op.request
      <4> HIDE DEF op
      <4>1. q \in 1 .. Answered(op.client)
        BY <2>4, <2>6, <3>2 DEF Answered
      <4>2. PICK l \in 1 .. Len(chosen) : IsRequest(chosen[l], op.client, q)
        BY <2>5, <2>6, <4>1 DEF Covers, Reflects
      <4>3. chosen'[l] = chosen[l] /\ l \in 1 .. m
        BY <1>0, <4>2 DEF Grow
      <4> QED
        BY <4>2, <4>3
    <3> QED
      BY <3>1, <3>2
  <2> HIDE DEF m, op
  <2>7. ASSUME NEW x \in DOMAIN chosen' PROVE Covers(chosen[x].client, chosen[x].request, x)'
    <3>1. CASE x \in DOMAIN chosen
      BY <1>1, <3>1
    <3>2. CASE x = m
      BY <2>2, <2>6, <3>2 DEF Covers, Reflects, Writes
    <3> QED
      BY <2>2, <3>1, <3>2
  <2> QED
    BY <2>7 DEF Ordered
<1> QED
  BY <1>2, <1>3, CommitsOnly

-----------------------------------------------------------------------------
(* What a step gives to the loop of a server. *)

\* Nothing; a Get or a duplicate, which it skips; or a write that it has executed.  Or a
\* handler executes a Get, which assigns the request id.
Still(s) == Given(s)' = Given(s) /\ kv'[s] = kv[s] /\ lastRequestId'[s] = lastRequestId[s]
Skipped(s) ==
  /\ Given(s)' = Given(s) + 1 /\ Given(s) + 1 \in DOMAIN chosen
  /\ Duplicate(s, chosen[Given(s) + 1]) \/ chosen[Given(s) + 1].type = "Get"
  /\ kv'[s] = kv[s] /\ lastRequestId'[s] = lastRequestId[s]
Applied(s) ==
  /\ Given(s)' = Given(s) + 1 /\ Given(s) + 1 \in DOMAIN chosen
  /\ ~Duplicate(s, chosen[Given(s) + 1]) /\ chosen[Given(s) + 1].type # "Get"
  /\ LET op == chosen[Given(s) + 1]
     IN /\ kv'[s] = [kv[s] EXCEPT ![op.key] = op.value]
        /\ lastRequestId'[s] = [lastRequestId[s] EXCEPT ![op.client] = op.request]
HasRead(s) ==
  /\ Given(s)' = Given(s) /\ kv'[s] = kv[s]
  /\ \E h \in handlers :
        /\ h.at = "get" /\ h.server = s
        /\ lastRequestId'[s] = [lastRequestId[s] EXCEPT ![h.op.client] = h.op.request]
Given1(s) == Counted(s)' /\ (Still(s) \/ Skipped(s) \/ Applied(s) \/ HasRead(s))

\* A server that the step does not touch.
Untouched(s) ==
  /\ taken'[s] = taken[s] /\ applyChan'[s] = applyChan[s] /\ lastApplied'[s] = lastApplied[s]
  /\ loop'[s] = loop[s] /\ kv'[s] = kv[s] /\ lastRequestId'[s] = lastRequestId[s]
LEMMA UntouchedStill ==
  ASSUME NEW s \in Server, Counted(s), Untouched(s)
  PROVE  Given1(s)
<1>1. Given(s)' = Given(s)
  BY DEF Untouched, Given
<1>2. \A op : Duplicate(s, op)' <=> Duplicate(s, op)
  BY DEF Untouched, Duplicate
<1>3. Counted(s)'
  BY <1>1, <1>2 DEF Counted, Untouched
<1> QED
  BY <1>1, <1>3 DEF Given1, Still, Untouched

\* The lengths, and where the loop is.
LEMMA CountFacts ==
  ASSUME KvInv, NEW s \in Server, Counted(s)
  PROVE  /\ Len(taken[s]) \in Nat /\ Len(applyChan[s]) \in Nat /\ lastApplied[s] \in Nat
         /\ Len(chosen) \in Nat /\ lastApplied[s] <= Len(chosen)
         /\ DOMAIN taken[s] = 1 .. Len(taken[s]) /\ DOMAIN applyChan[s] = 1 .. Len(applyChan[s])
         /\ Given(s) \in Nat /\ Given(s) <= Len(chosen)
         /\ loop[s].at = "execute" => Given(s) = lastApplied[s] - Len(taken[s]) - Len(applyChan[s]) - 1
         /\ loop[s].at # "execute" => Given(s) = lastApplied[s] - Len(taken[s]) - Len(applyChan[s])
<1>1. /\ Len(taken[s]) \in Nat /\ Len(applyChan[s]) \in Nat
      /\ DOMAIN taken[s] = 1 .. Len(taken[s]) /\ DOMAIN applyChan[s] = 1 .. Len(applyChan[s])
  <2>1. ASSUME NEW q, Sequence(q) PROVE Len(q) \in Nat /\ DOMAIN q = 1 .. Len(q)
    BY <2>1 DEF Sequence
  <2> QED
    BY <2>1 DEF KvInv, RaftInv
<1>2. lastApplied[s] \in Nat /\ lastApplied[s] <= Len(chosen) /\ Len(chosen) \in Nat
  BY DEF KvInv, RaftInv, LogsInv
<1>3. Given(s) \in Nat
  BY DEF Counted
<1>4. /\ loop[s].at = "execute" => Given(s) = lastApplied[s] - Len(taken[s]) - Len(applyChan[s]) - 1
      /\ loop[s].at # "execute" => Given(s) = lastApplied[s] - Len(taken[s]) - Len(applyChan[s])
  BY <1>1, <1>2 DEF Given
<1> QED
  BY <1>1, <1>2, <1>3, <1>4

\* applierTicker takes the commands that follow those it took before.
LEMMA GetApplyLogsCounted ==
  ASSUME Step, NEW s \in Server, Counted(s), GetApplyLogs(s),
         UNCHANGED <<loop, kv, lastRequestId>>
  PROVE  Given1(s) /\ \A t \in Server \ {s} : Untouched(t)
<1>0. KvInv /\ lastApplied \in [Server -> Nat] /\ DOMAIN taken = Server
  BY DEF Step, KvInv, RaftInv
<1>1. PICK n \in lastApplied[s] + 1 .. Len(chosen) :
        /\ taken' = [taken EXCEPT ![s] = [x \in 1 .. n - lastApplied[s] |->
                       CommandMsg(lastApplied[s] + x, chosen[lastApplied[s] + x])]]
        /\ lastApplied' = [lastApplied EXCEPT ![s] = n]
  BY DEF GetApplyLogs
<1>2. taken[s] = <<>> /\ applyChan' = applyChan
  BY DEF GetApplyLogs
<1>3. Len(taken[s]) = 0 /\ DOMAIN taken[s] = {}
  BY <1>2
<1> DEFINE new == [x \in 1 .. n - lastApplied[s] |-> CommandMsg(lastApplied[s] + x, chosen[lastApplied[s] + x])]
<1>4. taken'[s] = new /\ lastApplied'[s] = n /\ \A t \in Server \ {s} : taken'[t] = taken[t] /\ lastApplied'[t] = lastApplied[t]
  BY <1>0, <1>1
<1>5. n \in Nat /\ lastApplied[s] \in Nat /\ n - lastApplied[s] \in Nat /\ Len(applyChan[s]) \in Nat
  BY <1>0, <1>1, CountFacts
<1>6. Len(new) = n - lastApplied[s] /\ DOMAIN new = 1 .. n - lastApplied[s]
      /\ \A x \in DOMAIN new : new[x].index = lastApplied[s] + x
  BY <1>5 DEF CommandMsg
<1> HIDE DEF new
<1>7. Given(s)' = Given(s)
  BY <1>2, <1>3, <1>4, <1>5, <1>6 DEF Given
<1>8. \A x \in DOMAIN taken'[s] : taken'[s][x].index = lastApplied'[s] - Len(taken'[s]) + x
  BY <1>4, <1>5, <1>6
<1>9. lastApplied'[s] - Len(taken'[s]) = lastApplied[s] - Len(taken[s])
  BY <1>3, <1>4, <1>5, <1>6
<1>10. \A op : Duplicate(s, op)' <=> Duplicate(s, op)
  BY DEF Duplicate
<1>11. Counted(s)'
  BY <1>2, <1>7, <1>8, <1>9, <1>10 DEF Counted
<1> QED
  BY <1>2, <1>4, <1>7, <1>11 DEF Given1, Still, Untouched

\* It pushes them in their order.
LEMMA PushTakenCounted ==
  ASSUME Step, NEW s \in Server, Counted(s), PushTaken(s), UNCHANGED <<loop, kv, lastRequestId>>
  PROVE  Given1(s) /\ \A t \in Server \ {s} : Untouched(t)
<1>0. /\ KvInv /\ DOMAIN applyChan = Server /\ DOMAIN taken = Server /\ lastApplied' = lastApplied
      /\ Sequence(taken[s]) /\ Sequence(applyChan[s])
  BY DEF Step, KvInv, RaftInv, PushTaken
<1>1. /\ taken'[s] = Tail(taken[s]) /\ applyChan'[s] = Append(applyChan[s], Head(taken[s]))
      /\ \A t \in Server \ {s} : taken'[t] = taken[t] /\ applyChan'[t] = applyChan[t]
      /\ taken[s] # <<>>
  BY <1>0 DEF PushTaken
<1> DEFINE rest == Tail(taken[s])
           longer == Append(applyChan[s], Head(taken[s]))
           base == lastApplied[s] - Len(taken[s])
<1>2. /\ 1 \in DOMAIN taken[s] /\ Head(taken[s]) = taken[s][1]
      /\ Len(taken[s]) \in Nat /\ Len(rest) = Len(taken[s]) - 1
      /\ \A x \in DOMAIN rest : x + 1 \in DOMAIN taken[s] /\ rest[x] = taken[s][x + 1]
      /\ Sequence(rest)
  BY <1>0, <1>1, SequenceTail
<1>3. /\ Len(longer) = Len(applyChan[s]) + 1
      /\ \A x \in DOMAIN longer : \/ x \in DOMAIN applyChan[s] /\ longer[x] = applyChan[s][x]
                                  \/ x = Len(applyChan[s]) + 1 /\ longer[x] = Head(taken[s])
  <2> DEFINE S == {applyChan[s][x] : x \in DOMAIN applyChan[s]} \cup {Head(taken[s])}
  <2>1. applyChan[s] \in Seq(S) /\ Head(taken[s]) \in S
    <3>1. applyChan[s] \in Seq({applyChan[s][x] : x \in DOMAIN applyChan[s]})
      BY <1>0 DEF Sequence
    <3> QED
      BY <3>1
  <2> HIDE DEF S
  <2>2. \A x \in DOMAIN longer : x \in DOMAIN applyChan[s] \/ x = Len(applyChan[s]) + 1
    BY <2>1
  <2> QED
    BY <2>1, <2>2
<1>4. /\ lastApplied[s] \in Nat /\ Len(applyChan[s]) \in Nat /\ base \in Int
      /\ \A x \in DOMAIN rest : x \in Int
      /\ \A x \in DOMAIN applyChan[s] : x \in Int
  <2>1. DOMAIN rest \subseteq Int
    BY <1>2 DEF Sequence
  <2> QED
    BY <1>0, <2>1, CountFacts
<1> HIDE DEF rest, longer
<1>5. \A x \in DOMAIN taken[s] : taken[s][x].index = base + x
  BY DEF Counted
<1>6. \A x \in DOMAIN rest : rest[x].index = lastApplied[s] - Len(rest) + x
  <2> SUFFICES ASSUME NEW x \in DOMAIN rest PROVE rest[x].index = lastApplied[s] - Len(rest) + x
    OBVIOUS
  <2>1. rest[x].index = base + (x + 1)
    BY <1>2, <1>5
  <2>2. x \in Int /\ Len(rest) = Len(taken[s]) - 1 /\ Len(taken[s]) \in Nat /\ lastApplied[s] \in Nat
    BY <1>2, <1>4
  <2> QED
    BY <2>1, <2>2
<1>7. lastApplied[s] - Len(rest) - Len(longer) = lastApplied[s] - Len(taken[s]) - Len(applyChan[s])
  BY <1>2, <1>3, <1>4
<1>8. \A x \in DOMAIN longer : longer[x].index = lastApplied[s] - Len(rest) - Len(longer) + x
  <2> SUFFICES ASSUME NEW x \in DOMAIN longer
               PROVE  longer[x].index = lastApplied[s] - Len(taken[s]) - Len(applyChan[s]) + x
    BY <1>7
  <2>1. CASE x \in DOMAIN applyChan[s] /\ longer[x] = applyChan[s][x]
    BY <2>1 DEF Counted
  <2>2. CASE x = Len(applyChan[s]) + 1 /\ longer[x] = Head(taken[s])
    <3>1. longer[x].index = base + 1
      BY <1>2, <1>5, <2>2
    <3> QED
      BY <1>2, <1>4, <2>2, <3>1
  <2> QED
    BY <1>3, <2>1, <2>2
<1>9. Given(s)' = Given(s)
  BY <1>0, <1>1, <1>7 DEF Given, rest, longer
<1>10. \A op : Duplicate(s, op)' <=> Duplicate(s, op)
  BY DEF Duplicate
<1>11. Counted(s)'
  BY <1>0, <1>1, <1>6, <1>8, <1>9, <1>10 DEF Counted, rest, longer
<1> QED
  BY <1>0, <1>1, <1>9, <1>11 DEF Given1, Still, Untouched

\* The loop takes the next command, and executes it if it is not a duplicate.
LEMMA GetCommandCounted ==
  ASSUME Step, SnapshotAt = {}, QuietInv, NEW s \in Server, Counted(s), GetCommandFromRaft(s)
  PROVE  Given1(s) /\ \A t \in Server \ {s} : Untouched(t)
<1> DEFINE message == Head(applyChan[s])
           rest == Tail(applyChan[s])
           executes == ~Duplicate(s, message.op) /\ message.op.type # "Get"
           at == IF executes THEN "execute" ELSE Executed(message.index)
           new == [at |-> at, index |-> message.index, op |-> message.op]
<1>0. /\ KvInv /\ DOMAIN applyChan = Server /\ DOMAIN loop = Server
      /\ Sequence(applyChan[s]) /\ FromChosen(message)
      /\ applyChan[s] # <<>> /\ loop[s].at = "pop" /\ message.type = "command"
  BY PoppedInv DEF Step, KvInv, RaftInv, LoopInv, GetCommandFromRaft, PopMessage
<1>1. /\ UNCHANGED <<lastApplied, taken, kv, lastRequestId>>
      /\ applyChan'[s] = rest /\ \A t \in Server \ {s} : applyChan'[t] = applyChan[t]
  BY <1>0 DEF GetCommandFromRaft, PopMessage, kvVars
<1>2. /\ 1 \in DOMAIN applyChan[s] /\ message = applyChan[s][1]
      /\ Len(applyChan[s]) \in Nat /\ Len(rest) = Len(applyChan[s]) - 1
      /\ \A x \in DOMAIN rest : x + 1 \in DOMAIN applyChan[s] /\ rest[x] = applyChan[s][x + 1]
      /\ Sequence(rest)
  BY <1>0, SequenceTail
<1>3. /\ lastApplied[s] \in Nat /\ Len(taken[s]) \in Nat /\ Given(s) \in Nat
      /\ Given(s) = lastApplied[s] - Len(taken[s]) - Len(applyChan[s])
      /\ \A x \in DOMAIN rest : x \in Int
  <2>1. DOMAIN rest \subseteq Int
    BY <1>2 DEF Sequence
  <2> QED
    BY <1>0, <2>1, CountFacts
<1>4. message.index = Given(s) + 1 /\ message.index \in DOMAIN chosen /\ message.op = chosen[message.index]
  <2>1. message.index = lastApplied[s] - Len(taken[s]) - Len(applyChan[s]) + 1
    BY <1>2 DEF Counted
  <2> QED
    BY <1>0, <1>3, <2>1 DEF FromChosen
<1>6. loop' = [loop EXCEPT ![s] = new]
  <2>1. ~(message.index <= lastSnapShot[s])
    BY <1>3, <1>4 DEF QuietInv
  <2> QED
    BY <2>1 DEF GetCommandFromRaft
<1>7. at = IF executes THEN "execute" ELSE "send"
  BY DEF Executed
<1>8. /\ loop'[s].at = at /\ loop'[s].index = message.index /\ loop'[s].op = message.op
      /\ \A t \in Server \ {s} : loop'[t] = loop[t]
  BY <1>0, <1>6
<1>9. \A x \in DOMAIN rest : rest[x].index = lastApplied[s] - Len(taken[s]) - Len(rest) + x
  <2> SUFFICES ASSUME NEW x \in DOMAIN rest
               PROVE  rest[x].index = lastApplied[s] - Len(taken[s]) - Len(rest) + x
    OBVIOUS
  <2>1. rest[x].index = lastApplied[s] - Len(taken[s]) - Len(applyChan[s]) + (x + 1)
    BY <1>2 DEF Counted
  <2>2. /\ x \in Int /\ Len(rest) = Len(applyChan[s]) - 1 /\ Len(applyChan[s]) \in Nat
        /\ lastApplied[s] \in Nat /\ Len(taken[s]) \in Nat
    BY <1>2, <1>3
  <2> DEFINE base == lastApplied[s] - Len(taken[s])
  <2>3. base \in Int
    BY <2>2
  <2> HIDE DEF rest, base
  <2>4. \A l, m \in Int : m = l - 1 => base - l + (x + 1) = base - m + x
    BY <2>2, <2>3
  <2>5. Len(rest) \in Int /\ Len(applyChan[s]) \in Int
    BY <2>2
  <2>6. base - Len(applyChan[s]) + (x + 1) = base - Len(rest) + x
    BY <2>2, <2>4, <2>5
  <2> QED
    BY <2>1, <2>6 DEF base
<1>10. ~Duplicate(s, message.op) =>
         ~(loop'[s].op.request <= lastRequestId'[s][loop'[s].op.client])
  BY <1>1, <1>8 DEF Duplicate
<1>11. loop'[s].at = IF executes THEN "execute" ELSE "send"
  BY <1>7, <1>8
<1> HIDE DEF message, rest, at, executes
<1>12. CASE executes
  <2>0. /\ loop'[s].at = "execute" /\ ~(loop'[s].op.request <= lastRequestId'[s][loop'[s].op.client])
        /\ loop'[s].op.type # "Get"
    BY <1>8, <1>10, <1>11, <1>12 DEF executes
  <2>1. Given(s)' = Given(s)
    BY <1>1, <1>2, <1>3, <1>8, <2>0 DEF Given
  <2>2. Counted(s)'
    BY <1>1, <1>3, <1>4, <1>8, <1>9, <2>0, <2>1 DEF Counted, Duplicate
  <2> QED
    BY <1>1, <1>8, <2>1, <2>2 DEF Given1, Still, Untouched
<1>13. CASE ~executes
  <2>1. loop'[s].at = "send"
    BY <1>11, <1>13
  <2>2. Given(s)' = Given(s) + 1
    <3>1. /\ Len(applyChan'[s]) = Len(applyChan[s]) - 1 /\ Len(applyChan[s]) \in Nat
          /\ Len(taken[s]) \in Nat /\ lastApplied[s] \in Nat
          /\ lastApplied'[s] = lastApplied[s] /\ Len(taken'[s]) = Len(taken[s])
      BY <1>1, <1>2, <1>3
    <3> DEFINE base == lastApplied[s] - Len(taken[s])
    <3>2. base \in Int /\ Given(s) = base - Len(applyChan[s])
      BY <1>3
    <3>3. Given(s)' = lastApplied'[s] - Len(taken'[s]) - Len(applyChan'[s]) - 0
      BY <2>1 DEF Given
    <3>4. Given(s)' = base - (Len(applyChan[s]) - 1) - 0
      BY <3>1, <3>3
    <3> HIDE DEF base
    <3> QED
      BY <3>1, <3>2, <3>4
  <2>3. Counted(s)'
    BY <1>1, <1>3, <1>4, <1>8, <1>9, <2>1, <2>2 DEF Counted
  <2>4. Skipped(s)
    BY <1>1, <1>4, <1>13, <2>2 DEF Skipped, executes
  <2> QED
    BY <1>1, <1>8, <2>3, <2>4 DEF Given1, Untouched
<1> QED
  BY <1>12, <1>13

\* It has executed its command, or gives it to the thread that waits.
LEMMA LoopCounted ==
  ASSUME Step, SnapshotAt = {}, NEW s \in Server, Counted(s), Execute(s) \/ SendMessageToWaitChan(s)
  PROVE  Given1(s) /\ \A t \in Server \ {s} : Untouched(t)
<1>0. /\ KvInv /\ DOMAIN loop = Server /\ LoopInv
      /\ kv \in [Server -> [Key -> Values]] /\ lastRequestId \in [Server -> [Client -> Nat]]
  BY DEF Step, KvInv, LoopInv, ThreadsInv
<1>1. UNCHANGED <<lastApplied, taken, applyChan>>
  BY DEF Execute, SendMessageToWaitChan, raftVars, applyVars
<1>2. /\ lastApplied[s] \in Nat /\ Len(taken[s]) \in Nat /\ Len(applyChan[s]) \in Nat /\ Given(s) \in Nat
      /\ loop[s].at = "execute" => Given(s) = lastApplied[s] - Len(taken[s]) - Len(applyChan[s]) - 1
      /\ loop[s].at # "execute" => Given(s) = lastApplied[s] - Len(taken[s]) - Len(applyChan[s])
  BY <1>0, CountFacts
<1>3. CASE Execute(s)
  <2>1. PICK n \in DOMAIN chosen : loop[s].index = n /\ loop[s].op = chosen[n]
    BY <1>0, <1>3, LoopFacts DEF Execute
  <2>2. loop[s].at = "execute" /\ n = Given(s) + 1 /\ ~Duplicate(s, chosen[n]) /\ chosen[n].type # "Get"
    BY <1>3, <2>1 DEF Execute, Counted
  <2>3. loop' = [loop EXCEPT ![s].at = "send"]
    BY <1>3 DEF Execute, Executed
  <2>4. loop'[s].at = "send" /\ loop'[s].index = n /\ \A t \in Server \ {s} : loop'[t] = loop[t]
    <3>1. loop[s] # Reading
      BY <2>2 DEF Reading
    <3>2. \E x \in DOMAIN chosen, at \in {"execute", "snapshot", "send"} :
             loop[s] = [at |-> at, index |-> x, op |-> chosen[x]]
      BY <1>0, <3>1 DEF LoopInv
    <3> QED
      BY <1>0, <2>1, <2>3, <3>2
  <2>5. Given(s)' = Given(s) + 1
    BY <1>1, <1>2, <2>2, <2>4 DEF Given
  <2>6. /\ kv' = [kv EXCEPT ![s][loop[s].op.key] = loop[s].op.value]
        /\ lastRequestId' = [lastRequestId EXCEPT ![s][loop[s].op.client] = loop[s].op.request]
    BY <1>3 DEF Execute
  <2>7. /\ kv'[s] = [kv[s] EXCEPT ![chosen[n].key] = chosen[n].value]
        /\ lastRequestId'[s] = [lastRequestId[s] EXCEPT ![chosen[n].client] = chosen[n].request]
        /\ \A t \in Server \ {s} : kv'[t] = kv[t] /\ lastRequestId'[t] = lastRequestId[t]
    BY <1>0, <2>1, <2>6
  <2>8. Applied(s)
    BY <2>2, <2>5, <2>7 DEF Applied
  <2>9. Counted(s)'
    BY <1>1, <1>2, <2>2, <2>4, <2>5 DEF Counted
  <2> QED
    BY <1>1, <2>4, <2>7, <2>8, <2>9 DEF Given1, Untouched
<1>4. CASE SendMessageToWaitChan(s)
  <2>1. /\ loop[s].at = "send" /\ kv' = kv /\ lastRequestId' = lastRequestId
        /\ loop' = [loop EXCEPT ![s] = Reading]
    BY <1>4 DEF SendMessageToWaitChan, kvVars
  <2>2. loop'[s].at = "pop" /\ \A t \in Server \ {s} : loop'[t] = loop[t]
    BY <1>0, <2>1 DEF Reading
  <2>3. Given(s)' = Given(s)
    BY <1>1, <1>2, <2>1, <2>2 DEF Given
  <2>4. Counted(s)'
    BY <1>1, <2>2, <2>3 DEF Counted
  <2> QED
    BY <1>1, <2>1, <2>2, <2>3, <2>4 DEF Given1, Still, Untouched
<1> QED
  BY <1>3, <1>4

\* No step makes a snapshot, and no message is one.
LEMMA NoSnapshotStep ==
  ASSUME KvInv, QuietInv, Next
  PROVE  /\ ~\E s, d \in Server : SendSnapshot(s, d)
         /\ ~\E m \in snapshots : InstallSnapshot(m)
         /\ ~\E m \in pushes : PushMsgToKvServer(m)
         /\ ~\E s \in Server : GetSnapShotFromRaft(s) \/ IfNeedToSendSnapShotCommand(s)
<1>1. ~\E s, d \in Server : SendSnapshot(s, d)
  BY DEF QuietInv, SendSnapshot
<1>2. ~(\E m \in snapshots : InstallSnapshot(m)) /\ ~\E m \in pushes : PushMsgToKvServer(m)
  BY DEF QuietInv
<1>3. ASSUME NEW s \in Server, GetSnapShotFromRaft(s) PROVE FALSE
  <2>1. Sequence(applyChan[s]) /\ applyChan[s] # <<>> /\ Head(applyChan[s]).type = "snapshot"
    BY <1>3 DEF KvInv, RaftInv, GetSnapShotFromRaft, PopMessage
  <2>2. 1 \in DOMAIN applyChan[s] /\ Head(applyChan[s]) = applyChan[s][1]
    BY <2>1, SequenceTail
  <2> QED
    BY <2>1, <2>2 DEF QuietInv
<1>4. ~\E s \in Server : IfNeedToSendSnapShotCommand(s)
  BY DEF QuietInv, IfNeedToSendSnapShotCommand
<1> QED
  BY <1>1, <1>2, <1>3, <1>4

\* A Get that is executed leaves the command of the loop no duplicate: the writes that
\* its Clerk made before it were given to the loop, and it makes none after it.
LEMMA ExecuteGetCounted ==
  ASSUME Step, WritesFirst, GetsCovered, NEW h \in handlers, ExecuteGet(h),
         Counted(h.server), Highest(h.server)
  PROVE  Given1(h.server) /\ \A t \in Server \ {h.server} : Untouched(t)
<1> DEFINE s == h.server
           c == h.op.client
<1>0. /\ KvInv /\ h.op \in Issued /\ s \in Server /\ h.at = "get" /\ h.op.type = "Get"
      /\ lastRequestId \in [Server -> [Client -> Nat]] /\ LoopInv
  BY DEF Step, KvInv, ThreadsInv, Threads, RepliesInv, ExecuteGet
<1>1. /\ c \in Client /\ h.op.request \in Nat /\ h.op.request \in DOMAIN Script[c]
      /\ ~Writes(c, h.op.request)
  BY <1>0, IssuedFacts DEF KvInv, Writes
<1>2. /\ UNCHANGED <<lastApplied, taken, applyChan, loop, kv>>
      /\ lastRequestId' = [lastRequestId EXCEPT ![s][c] = h.op.request]
  BY DEF ExecuteGet, raftVars, applyVars
<1>3. /\ lastRequestId'[s] = [lastRequestId[s] EXCEPT ![c] = h.op.request]
      /\ \A t \in Server \ {s} : lastRequestId'[t] = lastRequestId[t]
  BY <1>0, <1>1, <1>2
<1>4. Given(s)' = Given(s)
  BY <1>2 DEF Given
<1> HIDE DEF s
<1>5. ASSUME loop[s].at = "execute" PROVE ~Duplicate(s, loop[s].op)'
  <2>1. PICK n \in DOMAIN chosen : loop[s].index = n /\ loop[s].op = chosen[n]
    BY <1>0, <1>5, LoopFacts
  <2>2. n = Given(s) + 1 /\ ~Duplicate(s, chosen[n]) /\ chosen[n].type # "Get" /\ Given(s) \in Nat
    BY <1>5, <2>1 DEF Counted, s
  <2> DEFINE op == chosen[n]
             w == op.request
  <2>3. /\ op.client \in Client /\ w \in Nat /\ w > 0 /\ w \in DOMAIN Script[op.client]
        /\ Writes(op.client, w)
    BY <1>0, <2>2, ChosenFacts
  <2>4. op.client # c
    <3> SUFFICES ASSUME op.client = c PROVE FALSE
      OBVIOUS
    <3>1. w < h.op.request
      BY <1>1, <2>3 DEF WritesFirst
    <3>2. Covers(c, h.op.request, Given(s))
      BY <1>0 DEF GetsCovered, s
    <3>3. w \in 1 .. h.op.request
      BY <1>1, <2>3, <3>1
    <3> HIDE DEF w, op
    <3>4. PICK m \in 1 .. Given(s) : IsRequest(chosen[m], c, w)
      BY <2>3, <3>2, <3>3 DEF Covers, Reflects
    <3>5. m \in DOMAIN chosen
      BY <1>0, <2>2, <3>4 DEF KvInv, LogsInv
    <3>6. chosen[m].client = c /\ chosen[m].request = w /\ chosen[m].type # "Get"
      BY <1>0, <2>3, <3>4, <3>5, ChosenFacts DEF IsRequest
    <3>7. w <= lastRequestId[s][c]
      BY <3>4, <3>6 DEF Highest, s
    <3> QED
      BY <2>2, <3>7 DEF Duplicate, w, op
  <2>5. lastRequestId'[s][op.client] = lastRequestId[s][op.client]
    BY <1>0, <1>3, <2>3, <2>4
  <2> QED
    BY <1>2, <2>1, <2>2, <2>5 DEF Duplicate
<1>6. Counted(s)'
  BY <1>2, <1>4, <1>5 DEF Counted, s
<1>7. HasRead(s)
  BY <1>0, <1>2, <1>3, <1>4 DEF HasRead, s
<1>8. \A t \in Server \ {s} : Untouched(t)
  BY <1>2, <1>3 DEF Untouched
<1> QED
  BY <1>6, <1>7, <1>8 DEF Given1, s

\* So what each server was given grows one command at a time.
LEMMA GivenStep ==
  ASSUME Step, Next, SnapshotAt = {}, WritesFirst, QuietInv, GetsCovered,
         \A s \in Server : Counted(s) /\ Highest(s)
  PROVE  \A s \in Server : Given1(s)
<1>0. KvInv
  BY DEF Step
<1>1. ASSUME UNCHANGED <<taken, applyChan, lastApplied, loop, kv, lastRequestId>>
      PROVE  \A s \in Server : Given1(s)
  BY <1>1, UntouchedStill DEF Untouched
<1>2. ASSUME NEW s \in Server, Given1(s) /\ \A t \in Server \ {s} : Untouched(t)
      PROVE  \A t \in Server : Given1(t)
  BY <1>2, UntouchedStill
<1>3. CASE RaftNext /\ UNCHANGED <<up, kvVars, loop, waitApplyCh, handlers, clerks>>
  <2>1. ASSUME NEW s \in Server, GetApplyLogs(s) PROVE \A t \in Server : Given1(t)
    BY <1>2, <1>3, <2>1, GetApplyLogsCounted DEF kvVars
  <2>2. ASSUME NEW s \in Server, PushTaken(s) PROVE \A t \in Server : Given1(t)
    BY <1>2, <1>3, <2>2, PushTakenCounted DEF kvVars
  <2>3. ASSUME NEW s \in Server, Elect(s) \/ Replicate(s) PROVE \A t \in Server : Given1(t)
    BY <1>1, <1>3, <2>3 DEF Elect, Replicate, applyVars, kvVars
  <2>4. CASE Commit
    BY <1>1, <1>3, <2>4 DEF Commit, applyVars, kvVars
  <2> QED
    BY <1>0, <1>3, <2>1, <2>2, <2>3, <2>4, NoSnapshotStep DEF RaftNext
<1>4. ASSUME NEW s \in Server, GetCommandFromRaft(s) PROVE \A t \in Server : Given1(t)
  BY <1>2, <1>4, GetCommandCounted
<1>5. ASSUME NEW s \in Server, Execute(s) \/ SendMessageToWaitChan(s) PROVE \A t \in Server : Given1(t)
  BY <1>2, <1>5, LoopCounted
<1>6. ASSUME NEW h \in handlers, HandlerStep(h), ~ExecuteGet(h) PROVE \A t \in Server : Given1(t)
  BY <1>1, <1>6
  DEF HandlerStep, StartCommand, Start, CreateChannel, PopCommand, TimeOut, CheckDuplicate, EraseChannel,
      raftVars, applyVars, kvVars
<1>8. ASSUME NEW h \in handlers, ExecuteGet(h) PROVE \A t \in Server : Given1(t)
  <2>1. h.server \in Server
    BY <1>0 DEF KvInv, ThreadsInv, Threads
  <2> QED
    BY <1>2, <1>8, <2>1, ExecuteGetCounted
<1>7. ASSUME NEW c \in Client, NewRequest(c) \/ Answer(c) \/ Retry(c) PROVE \A t \in Server : Given1(t)
  BY <1>1, <1>7 DEF NewRequest, Answer, Retry, Call, raftVars, applyVars, kvVars
<1> QED
  BY <1>0, <1>3, <1>4, <1>5, <1>6, <1>7, <1>8, NoSnapshotStep DEF Next, KvNext

-----------------------------------------------------------------------------
(* The invariant, and what it is for. *)

\* There are no snapshots, and there never will be.
LEMMA QuietStep ==
  ASSUME Step, Next, SnapshotAt = {}, QuietInv
  PROVE  QuietInv'
<1>0. /\ KvInv /\ DOMAIN loop = Server /\ DOMAIN applyChan = Server /\ DOMAIN taken = Server
  BY DEF Step, KvInv, LoopInv, RaftInv
<1>1. CASE UNCHANGED <<snapshots, pushes, snapIndex, lastSnapShot, loop, applyChan>>
  BY <1>1 DEF QuietInv
<1>2. ASSUME NEW s \in Server, PushTaken(s), UNCHANGED <<loop, kvVars>> PROVE QuietInv'
  <2>1. Sequence(taken[s]) /\ taken[s] # <<>> /\ Sequence(applyChan[s])
        /\ \A x \in DOMAIN taken[s] : taken[s][x].type = "command"
    BY <1>0, <1>2 DEF KvInv, RaftInv, PushTaken
  <2>2. Head(taken[s]).type = "command"
    BY <2>1, SequenceTail
  <2>3. \A x \in DOMAIN Append(applyChan[s], Head(taken[s])) :
           Append(applyChan[s], Head(taken[s]))[x].type = "command"
    BY <2>1, <2>2, SequenceAppend DEF QuietInv
  <2>4. /\ applyChan'[s] = Append(applyChan[s], Head(taken[s]))
        /\ \A t \in Server \ {s} : applyChan'[t] = applyChan[t]
    BY <1>0, <1>2 DEF PushTaken
  <2>5. UNCHANGED <<snapshots, pushes, snapIndex, lastSnapShot, loop>>
    BY <1>2 DEF PushTaken, snapVars, kvVars
  <2> QED
    BY <2>3, <2>4, <2>5 DEF QuietInv
<1>3. ASSUME NEW s \in Server, GetCommandFromRaft(s) PROVE QuietInv'
  <2>1. Sequence(applyChan[s]) /\ applyChan[s] # <<>>
    BY <1>0, <1>3 DEF KvInv, RaftInv, GetCommandFromRaft, PopMessage
  <2>2. \A x \in DOMAIN Tail(applyChan[s]) : Tail(applyChan[s])[x].type = "command"
    BY <2>1, SequenceTail DEF QuietInv
  <2>3. /\ applyChan'[s] = Tail(applyChan[s])
        /\ \A t \in Server \ {s} : applyChan'[t] = applyChan[t]
        /\ UNCHANGED <<snapshots, pushes, snapIndex, lastSnapShot>>
    BY <1>0, <1>3 DEF GetCommandFromRaft, PopMessage, snapVars, kvVars
  <2>4. PICK at \in {"execute", "send"} :
          \/ loop' = loop
          \/ loop' = [loop EXCEPT ![s] = [at |-> at, index |-> Head(applyChan[s]).index, op |-> Head(applyChan[s]).op]]
    BY <1>3 DEF GetCommandFromRaft, Executed
  <2>5. \A t \in Server : loop'[t].at # "snapshot"
    BY <1>0, <2>4 DEF QuietInv
  <2> QED
    BY <2>2, <2>3, <2>5 DEF QuietInv
<1>4. ASSUME NEW s \in Server, Execute(s) \/ SendMessageToWaitChan(s) PROVE QuietInv'
  <2>1. UNCHANGED <<snapshots, pushes, snapIndex, lastSnapShot, applyChan>>
    BY <1>4 DEF Execute, SendMessageToWaitChan, raftVars, applyVars, snapVars, kvVars
  <2>2. loop' = [loop EXCEPT ![s] = Reading] \/ (loop' = [loop EXCEPT ![s].at = "send"] /\ loop[s].at = "execute")
    BY <1>4 DEF Execute, SendMessageToWaitChan, Executed
  <2>3. CASE loop' = [loop EXCEPT ![s] = Reading]
    <3>1. \A t \in Server : loop'[t].at # "snapshot"
      BY <1>0, <2>3 DEF QuietInv, Reading
    <3> QED
      BY <2>1, <3>1 DEF QuietInv
  <2>4. CASE loop' = [loop EXCEPT ![s].at = "send"] /\ loop[s].at = "execute"
    <3>1. loop[s] # Reading
      BY <2>4 DEF Reading
    <3>2. \E x \in DOMAIN chosen, at \in {"execute", "snapshot", "send"} :
             loop[s] = [at |-> at, index |-> x, op |-> chosen[x]]
      BY <1>0, <3>1 DEF KvInv, LoopInv
    <3>3. \A t \in Server : loop'[t].at # "snapshot"
      BY <1>0, <2>4, <3>2 DEF QuietInv
    <3> QED
      BY <2>1, <3>3 DEF QuietInv
  <2> QED
    BY <2>2, <2>3, <2>4
<1>5. CASE RaftNext /\ UNCHANGED <<up, kvVars, loop, waitApplyCh, handlers, clerks>>
  <2>1. ASSUME Commit \/ \E s \in Server : Elect(s) \/ Replicate(s) \/ GetApplyLogs(s) PROVE QuietInv'
    BY <1>1, <1>5, <2>1 DEF Commit, Elect, Replicate, GetApplyLogs, applyVars, snapVars, kvVars
  <2> QED
    BY <1>0, <1>2, <1>5, <2>1, NoSnapshotStep DEF RaftNext
<1>6. ASSUME NEW h \in handlers, HandlerStep(h) PROVE QuietInv'
  BY <1>1, <1>6
  DEF HandlerStep, StartCommand, Start, CreateChannel, PopCommand, TimeOut, CheckDuplicate, ExecuteGet,
      EraseChannel, raftVars, applyVars, snapVars, kvVars
<1>7. ASSUME NEW c \in Client, NewRequest(c) \/ Answer(c) \/ Retry(c) PROVE QuietInv'
  BY <1>1, <1>7 DEF NewRequest, Answer, Retry, Call, raftVars, applyVars, snapVars, kvVars
<1> QED
  BY <1>0, <1>3, <1>4, <1>5, <1>6, <1>7, NoSnapshotStep DEF Next, KvNext

\* A write that is executed is the first of its request, one that is skipped is not: a
\* higher request of the Clerk is only committed behind it.
LEMMA FirstIsApplied ==
  ASSUME KvInv, NEW s \in Server, Highest(s), Given(s) \in Nat, Given(s) + 1 \in DOMAIN chosen,
         chosen[Given(s) + 1].type # "Get"
  PROVE  First(Given(s) + 1) <=> ~Duplicate(s, chosen[Given(s) + 1])
<1> DEFINE g == Given(s)
           n == g + 1
           op == chosen[n]
           last == lastRequestId[s][op.client]
<1>0. /\ op.client \in Client /\ op.request \in Nat /\ op.request > 0 /\ Writes(op.client, op.request)
      /\ \A l \in 1 .. g : l \in DOMAIN chosen
  <2>1. chosen \in Seq(Issued)
    BY DEF KvInv, LogsInv
  <2>2. \A l \in 1 .. g : l \in DOMAIN chosen
    BY <2>1
  <2> QED
    BY <2>2, ChosenFacts
<1>1. last \in Nat
  BY <1>0 DEF KvInv, ThreadsInv
<1> HIDE DEF g, op
<1>2. First(n) <=> \A l \in 1 .. g : ~SameRequest(chosen[l], op)
  <2>1. n - 1 = g
    BY DEF g
  <2> QED
    BY <2>1 DEF First, op
<1>3. ASSUME ~Duplicate(s, op), NEW l \in 1 .. g, SameRequest(chosen[l], op) PROVE FALSE
  <2>1. chosen[l].type # "Get"
    BY <1>0, <1>3, ChosenFacts DEF SameRequest
  <2>2. chosen[l].request <= lastRequestId[s][chosen[l].client]
    BY <2>1 DEF Highest, g
  <2>3. op.request <= last
    BY <1>3, <2>2 DEF SameRequest
  <2> QED
    BY <1>3, <2>3 DEF Duplicate
<1>4. ASSUME Duplicate(s, op) PROVE \E l \in 1 .. g : SameRequest(chosen[l], op)
  <2>1. op.request \in 1 .. last
    BY <1>0, <1>1, <1>4 DEF Duplicate
  <2>2. Covers(op.client, last, g)
    BY <1>0 DEF Highest, g
  <2>3. PICK l \in 1 .. g : IsRequest(chosen[l], op.client, op.request)
    BY <1>0, <2>1, <2>2 DEF Covers, Reflects
  <2> QED
    BY <2>3 DEF IsRequest, SameRequest
<1> QED
  BY <1>2, <1>3, <1>4 DEF g, op

\* lastRequestId goes on to be at or past the writes given, and no others.
LEMMA HighestStep ==
  ASSUME Step, WritesFirst, Ordered, GetsCovered, NEW s \in Server, Highest(s), Given(s) \in Nat,
         Given(s) <= Len(chosen), Given1(s)
  PROVE  Highest(s)'
<1> DEFINE g == Given(s)
           n == g + 1
           op == chosen[n]
<1>0. /\ Grow /\ KvInv /\ chosen \in Seq(Issued) /\ DOMAIN chosen = 1 .. Len(chosen)
      /\ lastRequestId \in [Server -> [Client -> Nat]]
  BY DEF Step, KvInv, LogsInv, ThreadsInv
<1>1. \A m \in 1 .. g : m \in DOMAIN chosen /\ chosen'[m] = chosen[m]
  BY <1>0 DEF Grow
\* What is to be shown: of the commands given, and of what lastRequestId says.
<1>2. ASSUME NEW m \in Nat, m <= Len(chosen), Given(s)' = m,
             \A l \in 1 .. m : chosen[l].type # "Get" => chosen[l].request <= lastRequestId'[s][chosen[l].client],
             \A c \in Client : Covers(c, lastRequestId'[s][c], m)
      PROVE  Highest(s)'
  <2>1. \A l \in 1 .. m : chosen'[l] = chosen[l]
    BY <1>0, <1>2 DEF Grow
  <2>2. \A c, r : Covers(c, r, m)' <=> Covers(c, r, m)
    BY <1>2, CoversStays
  <2> QED
    BY <1>2, <2>1, <2>2 DEF Highest
<1>3. CASE Still(s)
  BY <1>2, <1>3 DEF Still, Highest
<1>4. ASSUME n \in DOMAIN chosen
      PROVE  /\ n \in Nat /\ n <= Len(chosen) /\ op.client \in Client /\ op.request \in Nat
             /\ \A l \in 1 .. n : l \in 1 .. g \/ l = n
             /\ \A c, r : Covers(c, r, g) => Covers(c, r, n)
             /\ Covers(op.client, op.request, n)
  <2>1. n \in Nat /\ n <= Len(chosen) /\ op.client \in Client /\ op.request \in Nat
    BY <1>0, <1>4, ChosenFacts
  <2>2. \A c, r : Covers(c, r, g) => Covers(c, r, n)
    BY <2>1, CoversMore
  <2>3. Covers(op.client, op.request, n)
    BY <1>4 DEF Ordered
  <2> QED
    BY <2>1, <2>2, <2>3
<1>5. CASE Skipped(s)
  <2>1. /\ Given(s)' = n /\ n \in DOMAIN chosen /\ lastRequestId'[s] = lastRequestId[s]
        /\ op.request <= lastRequestId[s][op.client] \/ op.type = "Get"
    BY <1>5 DEF Skipped, Duplicate
  <2>2. \A l \in 1 .. n : chosen[l].type # "Get" => chosen[l].request <= lastRequestId'[s][chosen[l].client]
    BY <1>4, <2>1 DEF Highest
  <2>3. \A c \in Client : Covers(c, lastRequestId'[s][c], n)
    BY <1>4, <2>1 DEF Highest
  <2> HIDE DEF n
  <2> QED
    BY <1>2, <1>4, <2>1, <2>2, <2>3
<1>6. CASE Applied(s)
  <2>1. /\ Given(s)' = n /\ n \in DOMAIN chosen /\ ~(op.request <= lastRequestId[s][op.client])
        /\ lastRequestId'[s] = [lastRequestId[s] EXCEPT ![op.client] = op.request]
    BY <1>6 DEF Applied, Duplicate
  <2>2. /\ op.client \in Client /\ op.request \in Nat /\ lastRequestId[s] \in [Client -> Nat]
        /\ op.request > lastRequestId[s][op.client]
    BY <1>0, <1>4, <2>1
  <2>3. /\ lastRequestId'[s][op.client] = op.request
        /\ \A c \in Client \ {op.client} : lastRequestId'[s][c] = lastRequestId[s][c]
    BY <2>1, <2>2
  <2>4. \A l \in 1 .. n : chosen[l].type # "Get" => chosen[l].request <= lastRequestId'[s][chosen[l].client]
    <3> SUFFICES ASSUME NEW l \in 1 .. n, chosen[l].type # "Get"
                 PROVE  chosen[l].request <= lastRequestId'[s][chosen[l].client]
      OBVIOUS
    <3>1. CASE l = n
      BY <2>2, <2>3, <3>1
    <3>2. CASE l \in 1 .. g
      <4>1. l \in DOMAIN chosen
        BY <1>1, <3>2
      <4>2. chosen[l].client \in Client /\ chosen[l].request \in Nat
        BY <1>0, <4>1, ChosenFacts
      <4>3. chosen[l].request <= lastRequestId[s][chosen[l].client]
        BY <3>2 DEF Highest
      <4>4. CASE chosen[l].client # op.client
        BY <2>3, <4>2, <4>3, <4>4
      <4>5. CASE chosen[l].client = op.client
        <5>1. \A i, j, m \in Nat : i <= j /\ m > j => i <= m
          OBVIOUS
        <5>2. lastRequestId[s][op.client] \in Nat
          BY <2>2
        <5> HIDE DEF op
        <5> QED
          BY <2>2, <2>3, <4>2, <4>3, <4>5, <5>1, <5>2
      <4> QED
        BY <4>4, <4>5
    <3> QED
      BY <1>4, <2>1, <3>1, <3>2
  <2>5. \A c \in Client : Covers(c, lastRequestId'[s][c], n)
    <3> SUFFICES ASSUME NEW c \in Client PROVE Covers(c, lastRequestId'[s][c], n)
      OBVIOUS
    <3>1. CASE c = op.client
      BY <1>4, <2>1, <2>3, <3>1
    <3>2. CASE c # op.client
      BY <1>4, <2>1, <2>3, <3>2 DEF Highest
    <3> QED
      BY <3>1, <3>2
  <2> HIDE DEF n, op
  <2> QED
    BY <1>2, <1>4, <2>1, <2>4, <2>5
<1>7. ASSUME NEW h \in handlers, h.at = "get", h.server = s, Given(s)' = g,
             lastRequestId'[s] = [lastRequestId[s] EXCEPT ![h.op.client] = h.op.request]
      PROVE  Highest(s)'
  <2> DEFINE c == h.op.client
             r == h.op.request
  <2>1. /\ h.op \in Issued /\ h.op.type = "Get"
    BY <1>0, <1>7 DEF KvInv, ThreadsInv, Threads, RepliesInv
  <2>2. /\ c \in Client /\ r \in Nat /\ r \in DOMAIN Script[c] /\ ~Writes(c, r)
    BY <1>0, <2>1, IssuedFacts DEF KvInv, Writes
  <2>3. /\ lastRequestId'[s][c] = r
        /\ \A d \in Client \ {c} : lastRequestId'[s][d] = lastRequestId[s][d]
    BY <1>0, <1>7, <2>2
  <2>4. Covers(c, r, g)
    BY <1>7 DEF GetsCovered
  <2> HIDE DEF c, r
  <2>5. ASSUME NEW l \in 1 .. g, chosen[l].type # "Get"
        PROVE  chosen[l].request <= lastRequestId'[s][chosen[l].client]
    <3>1. /\ chosen[l].client \in Client /\ chosen[l].request \in Nat
          /\ chosen[l].request \in DOMAIN Script[chosen[l].client]
          /\ Writes(chosen[l].client, chosen[l].request)
      BY <1>0, <1>1, <2>5, ChosenFacts
    <3>2. CASE chosen[l].client = c
      <4>1. chosen[l].request < r
        BY <2>2, <3>1, <3>2 DEF WritesFirst
      <4> QED
        BY <2>2, <2>3, <3>1, <3>2, <4>1
    <3>3. CASE chosen[l].client # c
      BY <2>3, <2>5, <3>1, <3>3 DEF Highest
    <3> QED
      BY <3>2, <3>3
  <2>6. \A d \in Client : Covers(d, lastRequestId'[s][d], g)
    BY <2>3, <2>4 DEF Highest
  <2> QED
    BY <1>2, <1>7, <2>5, <2>6
<1>8. CASE HasRead(s)
  BY <1>7, <1>8 DEF HasRead
<1> QED
  BY <1>3, <1>5, <1>6, <1>8 DEF Given1

\* The data stays what the first writes among them make of it.
LEMMA StoredStep ==
  ASSUME Step, NEW s \in Server, Highest(s), Stored(s), Given(s) \in Nat,
         Given(s) <= Len(chosen), Given1(s)
  PROVE  Stored(s)'
<1> DEFINE g == Given(s)
           n == g + 1
           op == chosen[n]
<1>0. KvInv /\ kv \in [Server -> [Key -> Values]] /\ chosen \in Seq(Issued)
  BY DEF Step, KvInv, ThreadsInv, LogsInv
<1>1. ASSUME NEW key \in Key, NEW m \in Nat, m <= Len(chosen), Given(s)' = m,
             LastWritten(key, m, kv'[s][key])
      PROVE  LastWritten(key, Given(s), kv[s][key])'
  <2> DEFINE v == kv'[s][key]
  <2>1. \A w : LastWritten(key, m, w)' <=> LastWritten(key, m, w)
    BY <1>1, WritesStay
  <2> QED
    BY <1>1, <2>1 DEF LastWritten, WritesTo
<1>2. CASE Still(s) \/ HasRead(s)
  <2>1. \A key \in Key : LastWritten(key, g, kv'[s][key])
    BY <1>2 DEF Still, HasRead, Stored
  <2> QED
    BY <1>1, <1>2, <2>1 DEF Still, HasRead, Stored
<1>3. ASSUME n \in DOMAIN chosen
      PROVE  /\ n \in Nat /\ n <= Len(chosen) /\ op.key \in Key
             /\ op.type # "Get" => (First(n) <=> ~Duplicate(s, op))
  BY <1>0, <1>3, ChosenFacts, FirstIsApplied
<1>4. CASE Skipped(s)
  <2>1. /\ Given(s)' = n /\ n \in DOMAIN chosen /\ kv'[s] = kv[s]
        /\ Duplicate(s, op) \/ op.type = "Get"
    BY <1>4 DEF Skipped
  <2>2. ~(First(n) /\ op.type # "Get")
    BY <1>3, <2>1
  <2>3. \A key \in Key : LastWritten(key, n, kv'[s][key])
    <3> SUFFICES ASSUME NEW key \in Key PROVE LastWritten(key, n, kv[s][key])
      BY <2>1
    <3>1. WritesTo(key, n) = WritesTo(key, g)
      BY <2>2, WritesNext
    <3>2. LastWritten(key, g, kv[s][key])
      BY DEF Stored
    <3> HIDE DEF g, n
    <3> QED
      BY <3>1, <3>2 DEF LastWritten
  <2> HIDE DEF n, op
  <2> QED
    BY <1>1, <1>3, <2>1, <2>3 DEF Stored
<1>5. CASE Applied(s)
  <2>1. /\ Given(s)' = n /\ n \in DOMAIN chosen /\ ~Duplicate(s, op) /\ op.type # "Get"
        /\ kv'[s] = [kv[s] EXCEPT ![op.key] = op.value]
    BY <1>5 DEF Applied
  <2>2. First(n) /\ op.key \in Key /\ op.type # "Get"
    BY <1>3, <2>1
  <2>3. /\ kv'[s][op.key] = op.value
        /\ \A key \in Key \ {op.key} : kv'[s][key] = kv[s][key]
    BY <1>0, <2>1, <2>2
  <2>4. ASSUME NEW key \in Key PROVE LastWritten(key, n, kv'[s][key])
    <3>1. CASE key = op.key
      <4>1. WritesTo(key, n) = WritesTo(key, g) \cup {n} /\ WritesTo(key, g) \subseteq 1 .. g
        BY <2>2, <3>1, WritesNext
      <4>2. n \in WritesTo(key, n) /\ \A l \in WritesTo(key, n) : l <= n
        BY <4>1
      <4>3. kv'[s][key] = chosen[n].value
        BY <2>3, <3>1
      <4> HIDE DEF g, n, op
      <4> QED
        BY <4>2, <4>3 DEF LastWritten
    <3>2. CASE key # op.key
      <4>1. WritesTo(key, n) = WritesTo(key, g)
        BY <3>2, WritesNext
      <4>2. LastWritten(key, g, kv'[s][key])
        BY <2>3, <3>2 DEF Stored
      <4> HIDE DEF g, n, op
      <4> QED
        BY <4>1, <4>2 DEF LastWritten
    <3> QED
      BY <3>1, <3>2
  <2> HIDE DEF n, op
  <2> QED
    BY <1>1, <1>3, <2>1, <2>4 DEF Stored
<1> QED
  BY <1>2, <1>4, <1>5 DEF Given1

\* What a server was given does not become less.
LEMMA GivenGrows ==
  ASSUME Step, NEW s \in Server, Counted(s), Given1(s)
  PROVE  /\ Given(s) \in Nat /\ Given(s)' \in Nat /\ Given(s) <= Given(s)' /\ Given(s) <= Len(chosen)
         /\ GivenTo(s) \subseteq GivenTo(s)'
         /\ \A c, r : Covers(c, r, Given(s)) => Covers(c, r, Given(s))'
<1>0. KvInv /\ Grow /\ DOMAIN chosen = 1 .. Len(chosen)
  BY DEF Step, KvInv, LogsInv
<1>1. Given(s) \in Nat /\ Given(s) <= Len(chosen)
  BY <1>0, CountFacts
<1>2. Given(s)' \in Nat /\ Given(s) <= Given(s)'
  BY <1>1 DEF Given1, Still, Skipped, Applied, HasRead
<1>3. \A m \in 1 .. Given(s) : chosen'[m] = chosen[m] /\ m \in 1 .. Given(s)'
  BY <1>0, <1>1, <1>2 DEF Grow
<1>4. ASSUME NEW c, NEW r, Covers(c, r, Given(s)) PROVE Covers(c, r, Given(s))'
  BY <1>3, <1>4 DEF Covers, Reflects, IsRequest, Writes
<1> QED
  BY <1>1, <1>2, <1>3, <1>4 DEF GivenTo

\* A queue stays, is new and empty, loses its first command or gets that of the loop.
LEMMA QueuesMove ==
  ASSUME KvInv, Next, NEW s \in Server, NEW n \in DOMAIN waitApplyCh'[s]
  PROVE  \/ waitApplyCh'[s][n] = <<>>
         \/ /\ n \in DOMAIN waitApplyCh[s]
            /\ LET q == waitApplyCh[s][n]
               IN \/ waitApplyCh'[s][n] = q
                  \/ q # <<>> /\ waitApplyCh'[s][n] = Tail(q)
                  \/ loop[s].at = "send" /\ waitApplyCh'[s][n] = Append(q, loop[s].op)
<1>0. DOMAIN waitApplyCh = Server
  BY DEF KvInv, LoopInv
<1>1. CASE UNCHANGED waitApplyCh
  BY <1>1
<1>2. ASSUME NEW t \in Server, SendMessageToWaitChan(t), ~UNCHANGED waitApplyCh
      PROVE  /\ n \in DOMAIN waitApplyCh[s]
             /\ \/ waitApplyCh'[s][n] = waitApplyCh[s][n]
                \/ loop[s].at = "send" /\ waitApplyCh'[s][n] = Append(waitApplyCh[s][n], loop[s].op)
  <2>1. /\ waitApplyCh' = [waitApplyCh EXCEPT ![t][loop[t].index] = Append(@, loop[t].op)]
        /\ loop[t].at = "send"
    BY <1>2 DEF SendMessageToWaitChan
  <2> QED
    BY <1>0, <2>1
<1>3. ASSUME NEW h \in handlers, CreateChannel(h) \/ EraseChannel(h)
      PROVE  waitApplyCh'[s][n] = <<>> \/ (n \in DOMAIN waitApplyCh[s] /\ waitApplyCh'[s][n] = waitApplyCh[s][n])
  BY <1>0, <1>3 DEF CreateChannel, EraseChannel
<1>4. ASSUME NEW h \in handlers, PopCommand(h)
      PROVE  /\ n \in DOMAIN waitApplyCh[s]
             /\ \/ waitApplyCh'[s][n] = waitApplyCh[s][n]
                \/ waitApplyCh[s][n] # <<>> /\ waitApplyCh'[s][n] = Tail(waitApplyCh[s][n])
  <2>1. /\ waitApplyCh' = [waitApplyCh EXCEPT ![h.server][h.index] = Tail(@)]
        /\ waitApplyCh[h.server][h.index] # <<>>
    BY <1>4 DEF PopCommand
  <2> QED
    BY <1>0, <2>1
<1>5. ASSUME NEW t \in Server,
             GetCommandFromRaft(t) \/ Execute(t) \/ GetSnapShotFromRaft(t) \/ IfNeedToSendSnapShotCommand(t)
      PROVE  UNCHANGED waitApplyCh
  BY <1>5 DEF GetCommandFromRaft, PopMessage, Execute, GetSnapShotFromRaft, IfNeedToSendSnapShotCommand
<1>6. ASSUME NEW h \in handlers, StartCommand(h) \/ TimeOut(h) \/ CheckDuplicate(h) \/ ExecuteGet(h)
      PROVE  UNCHANGED waitApplyCh
  BY <1>6 DEF StartCommand, TimeOut, CheckDuplicate, ExecuteGet
<1>7. ASSUME NEW c \in Client, NewRequest(c) \/ Answer(c) \/ Retry(c) PROVE UNCHANGED waitApplyCh
  BY <1>7 DEF NewRequest, Answer, Retry, Call
<1> QED
  BY <1>1, <1>2, <1>3, <1>4, <1>5, <1>6, <1>7 DEF Next, KvNext, HandlerStep

\* The loop puts only what it was given into the queues.
LEMMA PassedStep ==
  ASSUME Step, Next, NEW s \in Server, Counted(s), Given1(s), Passed(s)
  PROVE  Passed(s)'
<1>0. KvInv /\ GivenTo(s) \subseteq GivenTo(s)'
  BY GivenGrows DEF Step
<1>1. ASSUME loop[s].at = "send" PROVE loop[s].op \in GivenTo(s)
  <2>1. PICK n \in DOMAIN chosen : loop[s].index = n /\ loop[s].op = chosen[n]
    BY <1>0, <1>1, LoopFacts DEF KvInv
  <2>2. n \in 1 .. Given(s)
    BY <1>0, <1>1, <2>1 DEF Counted, KvInv, LogsInv
  <2> QED
    BY <2>1, <2>2 DEF GivenTo
<1>2. ASSUME NEW n \in DOMAIN waitApplyCh'[s] PROVE waitApplyCh'[s][n] \in Seq(GivenTo(s))
  <2>1. CASE waitApplyCh'[s][n] = <<>>
    BY <2>1
  <2>2. ASSUME NEW q \in Seq(GivenTo(s)),
               \/ waitApplyCh'[s][n] = q
               \/ q # <<>> /\ waitApplyCh'[s][n] = Tail(q)
               \/ loop[s].at = "send" /\ waitApplyCh'[s][n] = Append(q, loop[s].op)
        PROVE  waitApplyCh'[s][n] \in Seq(GivenTo(s))
    BY <1>1, <2>2
  <2>3. \A m \in DOMAIN waitApplyCh[s] : waitApplyCh[s][m] \in Seq(GivenTo(s))
    BY DEF Passed
  <2> QED
    BY <1>0, <2>1, <2>2, <2>3, QueuesMove
<1>3. \A n \in DOMAIN waitApplyCh'[s] : waitApplyCh'[s][n] \in Seq(GivenTo(s)')
  BY <1>0, <1>2, SeqOfMore
<1> QED
  BY <1>3 DEF Passed

\* What a step of a thread means for its read: it reads when its command came out of its
\* queue, or when its request is not above lastRequestId, and it answers what it read.
GetTurn(h, u) ==
  /\ u.op = h.op /\ u.server = h.server
  /\ u.at = "get" =>
       \/ Duplicate(h.server, h.op)
       \/ \E n \in DOMAIN waitApplyCh[h.server] :
             /\ waitApplyCh[h.server][n] # <<>>
             /\ SameRequest(Head(waitApplyCh[h.server][n]), h.op)
  /\ u.at \in {"erase", "done"} /\ u.err # "ErrWrongLeader" /\ h.op.type = "Get" =>
       \/ h.at = "get" /\ u.value = kv[h.server][h.op.key]
       \/ h.at = "erase" /\ u.err = h.err /\ u.value = h.value
\* Every step of a thread is such a turn.
LEMMA GetTurns ==
  ASSUME KvInv, NEW h \in handlers, HandlerStep(h), NEW u \in handlers'
  PROVE  u \in handlers \/ GetTurn(h, u)
<1>0. h \in Threads
  BY DEF KvInv, ThreadsInv
<1>1. ASSUME NEW err, Finish(h, err), err = "ErrWrongLeader" \/ (h.at = "erase" /\ err = h.err)
      PROVE  u \in handlers \/ GetTurn(h, u)
  <2> DEFINE v == [h EXCEPT !.at = "done", !.err = err]
  <2>1. v.at = "done" /\ v.err = err /\ v.op = h.op /\ v.server = h.server /\ v.value = h.value
    BY <1>0 DEF Threads
  <2>2. handlers' = (handlers \ {h}) \cup {v} \/ handlers' = handlers \ {h}
    BY <1>1 DEF Finish, Move
  <2> HIDE DEF v
  <2>3. GetTurn(h, v)
    BY <1>1, <2>1 DEF GetTurn
  <2> QED
    BY <2>2, <2>3
<1>2. ASSUME Returns(h, "ErrWrongLeader") PROVE u \in handlers \/ GetTurn(h, u)
  BY <1>0, <1>2 DEF Returns, Move, GetTurn, Threads
<1>3. ASSUME Returns(h, "OK"), h.op.type # "Get" PROVE u \in handlers \/ GetTurn(h, u)
  BY <1>0, <1>3 DEF Returns, Move, GetTurn, Threads
<1>4. CASE StartCommand(h)
  <2>1. CASE Finish(h, "ErrWrongLeader")
    BY <1>1, <2>1
  <2>2. CASE Move(h, [h EXCEPT !.at = "create", !.index = StartIndex(h.server)])
    BY <1>0, <2>2 DEF Move, GetTurn, Threads
  <2> QED
    BY <1>4, <2>1, <2>2 DEF StartCommand
<1>5. CASE CreateChannel(h)
  BY <1>0, <1>5 DEF CreateChannel, Move, GetTurn, Threads
<1>6. CASE PopCommand(h)
  <2>1. ASSUME SameRequest(Head(waitApplyCh[h.server][h.index]), h.op), Move(h, [h EXCEPT !.at = "get"]),
               h.index \in DOMAIN waitApplyCh[h.server], waitApplyCh[h.server][h.index] # <<>>
        PROVE  u \in handlers \/ GetTurn(h, u)
    BY <1>0, <2>1 DEF Move, GetTurn, Threads
  <2> QED
    BY <1>2, <1>3, <1>6, <2>1 DEF PopCommand
<1>7. CASE TimeOut(h)
  BY <1>0, <1>7 DEF TimeOut, Move, GetTurn, Threads
<1>8. CASE CheckDuplicate(h)
  <2>1. ASSUME Duplicate(h.server, h.op), Move(h, [h EXCEPT !.at = "get"])
        PROVE  u \in handlers \/ GetTurn(h, u)
    BY <1>0, <2>1 DEF Move, GetTurn, Threads
  <2> QED
    BY <1>2, <1>3, <1>8, <2>1 DEF CheckDuplicate
<1>9. CASE ExecuteGet(h)
  BY <1>0, <1>9 DEF ExecuteGet, Move, GetTurn, Threads
<1>10. CASE EraseChannel(h)
  BY <1>1, <1>10 DEF EraseChannel
<1> QED
  BY <1>4, <1>5, <1>6, <1>7, <1>8, <1>9, <1>10 DEF HandlerStep

\* The threads after a step: the same, one that starts, or one that took a turn.
LEMMA ThreadMoves ==
  ASSUME KvInv, Next, NEW u \in handlers'
  PROVE  u \in handlers \/ u.at = "start" \/ \E h \in handlers : HandlerStep(h) /\ GetTurn(h, u)
<1>1. CASE UNCHANGED handlers
  BY <1>1
<1>2. ASSUME NEW h \in handlers, HandlerStep(h) PROVE u \in handlers \/ GetTurn(h, u)
  BY <1>2, GetTurns
<1>3. ASSUME NEW c \in Client, NewRequest(c) \/ Retry(c) PROVE u \in handlers \/ u.at = "start"
  <2>1. PICK s \in Server, r \in Nat : Calling(c, r, s)
    BY <1>3, CallMade DEF KvInv
  <2>2. Sent(c, r, s).at = "start"
    BY DEF Sent, Handler
  <2> QED
    BY <2>1, <2>2 DEF Calling
<1>4. ASSUME NEW c \in Client, Answer(c) PROVE u \in handlers
  BY <1>4 DEF Answer
<1>5. ASSUME NEW s \in Server,
              \/ GetCommandFromRaft(s) \/ Execute(s) \/ GetSnapShotFromRaft(s)
              \/ IfNeedToSendSnapShotCommand(s) \/ SendMessageToWaitChan(s)
      PROVE  UNCHANGED handlers
  BY <1>5
  DEF GetCommandFromRaft, PopMessage, Execute, GetSnapShotFromRaft, IfNeedToSendSnapShotCommand,
      SendMessageToWaitChan
<1> QED
  BY <1>1, <1>2, <1>3, <1>4, <1>5 DEF Next, KvNext

\* A thread that is about to read: its server was given its command, or holds its id.
LEMMA ReadsBehind ==
  ASSUME KvInv, NEW h \in handlers, NEW u, GetTurn(h, u), u.at = "get",
         Counted(h.server), Passed(h.server)
  PROVE  \/ Duplicate(h.server, h.op)
         \/ \E m \in 1 .. Given(h.server) : m \in DOMAIN chosen /\ SameRequest(chosen[m], h.op)
<1> DEFINE s == h.server
<1>0. s \in Server
  BY DEF KvInv, ThreadsInv, Threads
<1>1. ASSUME NEW n \in DOMAIN waitApplyCh[s], waitApplyCh[s][n] # <<>>,
             SameRequest(Head(waitApplyCh[s][n]), h.op)
      PROVE  \E m \in 1 .. Given(s) : m \in DOMAIN chosen /\ SameRequest(chosen[m], h.op)
  <2>1. waitApplyCh[s][n] \in Seq(GivenTo(s))
    BY <1>1 DEF Passed
  <2>2. Head(waitApplyCh[s][n]) \in GivenTo(s)
    BY <1>1, <2>1
  <2>3. PICK m \in 1 .. Given(s) : Head(waitApplyCh[s][n]) = chosen[m]
    BY <2>2 DEF GivenTo
  <2>4. m \in DOMAIN chosen
    BY <1>0, <2>3, CountFacts DEF KvInv, LogsInv
  <2> QED
    BY <1>1, <2>3, <2>4
<1> QED
  BY <1>1 DEF GetTurn

\* A Get is about to be executed only where the writes of its Clerk before it are.
LEMMA CoveredStep ==
  ASSUME Step, Next, Ordered, GetsCovered,
         \A s \in Server : Counted(s) /\ Highest(s) /\ Passed(s) /\ Given1(s)
  PROVE  GetsCovered'
<1>0. KvInv
  BY DEF Step
<1>1. ASSUME NEW u \in handlers', NEW h \in handlers, u.op = h.op, u.server = h.server,
             Covers(h.op.client, h.op.request, Given(h.server))
      PROVE  Covers(u.op.client, u.op.request, Given(u.server))'
  <2>1. h.server \in Server
    BY <1>0 DEF KvInv, ThreadsInv, Threads
  <2>2. \A c, r : Covers(c, r, Given(h.server)) => Covers(c, r, Given(h.server))'
    BY <2>1, GivenGrows
  <2> QED
    BY <1>1, <2>2
<1>2. ASSUME NEW u \in handlers', u.at = "get", NEW h \in handlers, GetTurn(h, u)
      PROVE  Covers(h.op.client, h.op.request, Given(h.server))
  <2> DEFINE s == h.server
             c == h.op.client
             r == h.op.request
  <2>1. s \in Server /\ h.op \in Issued /\ c \in Client /\ r \in Nat
    BY <1>0, IssuedFacts DEF KvInv, ThreadsInv, Threads
  <2>2. CASE Duplicate(s, h.op)
    <3>1. r <= lastRequestId[s][c] /\ lastRequestId[s][c] \in Nat /\ Covers(c, lastRequestId[s][c], Given(s))
      BY <1>0, <2>1, <2>2 DEF Duplicate, KvInv, ThreadsInv, Highest
    <3> QED
      BY <2>1, <3>1 DEF Covers
  <2>3. ASSUME NEW m \in 1 .. Given(s), m \in DOMAIN chosen, SameRequest(chosen[m], h.op)
        PROVE  Covers(c, r, Given(s))
    <3>1. Covers(c, r, m)
      BY <2>3 DEF Ordered, SameRequest
    <3>2. Given(s) \in Nat /\ m \in Nat /\ m <= Given(s)
      BY <2>1 DEF Counted
    <3> QED
      BY <3>1, <3>2, CoversMore
  <2> QED
    BY <1>0, <1>2, <2>1, <2>2, <2>3, ReadsBehind
<1>3. ASSUME NEW u \in handlers', u.at = "get" PROVE Covers(u.op.client, u.op.request, Given(u.server))'
  <2>1. CASE u \in handlers
    BY <1>1, <1>3, <2>1 DEF GetsCovered
  <2>2. ASSUME NEW h \in handlers, GetTurn(h, u) PROVE Covers(u.op.client, u.op.request, Given(u.server))'
    BY <1>1, <1>2, <1>3, <2>2 DEF GetTurn
  <2> QED
    BY <1>0, <1>3, <2>1, <2>2, ThreadMoves
<1> QED
  BY <1>3 DEF GetsCovered

\* The first state: no commands, no data.
LEMMA StateInit ==
  ASSUME Init
  PROVE  StateInv
<1>1. QuietInv
  <2>1. DOMAIN <<>> = {}
    OBVIOUS
  <2>2. /\ snapshots = {} /\ pushes = {}
        /\ \A s \in Server : snapIndex[s] = 0 /\ lastSnapShot[s] = 0 /\ loop[s] = Reading /\ applyChan[s] = <<>>
    BY DEF Init, RaftInit
  <2> QED
    BY <2>1, <2>2 DEF QuietInv, Reading
<1>2. Ordered
  <2>1. chosen = <<>>
    BY DEF Init, RaftInit
  <2>2. DOMAIN <<>> = {}
    OBVIOUS
  <2> QED
    BY <2>1, <2>2 DEF Ordered
<1>4. GetsCovered
  BY DEF Init, GetsCovered
<1>3. ASSUME NEW s \in Server PROVE Counted(s) /\ Highest(s) /\ Stored(s) /\ Passed(s)
  <2>1. /\ taken[s] = <<>> /\ applyChan[s] = <<>> /\ lastApplied[s] = 0 /\ loop[s].at = "pop"
        /\ waitApplyCh[s] = <<>>
        /\ \A c \in Client : lastRequestId[s][c] = 0
        /\ \A key \in Key : kv[s][key] = NoValue
    BY DEF Init, RaftInit, Reading
  <2>2. DOMAIN <<>> = {} /\ Len(<<>>) = 0
    OBVIOUS
  <2>3. Given(s) = 0
    <3>1. 0 - 0 - 0 - 0 = 0
      OBVIOUS
    <3>2. (IF loop[s].at = "execute" THEN 1 ELSE 0) = 0
      BY <2>1
    <3> QED
      BY <2>1, <2>2, <3>1, <3>2 DEF Given
  <2>4. 1 .. 0 = {}
    OBVIOUS
  <2>5. Counted(s)
    BY <2>1, <2>2, <2>3 DEF Counted
  <2>6. Highest(s)
    BY <2>1, <2>3, <2>4 DEF Highest, Covers
  <2>7. Stored(s)
    BY <2>1, <2>3, <2>4 DEF Stored, LastWritten, WritesTo
  <2>8. Passed(s)
    BY <2>1, <2>2 DEF Passed
  <2> QED
    BY <2>5, <2>6, <2>7, <2>8
<1> QED
  BY <1>1, <1>2, <1>3, <1>4 DEF StateInv

\* A step in which nothing happens.
LEMMA StateStutter ==
  ASSUME StateInv, UNCHANGED vars
  PROVE  StateInv'
<1>1. /\ UNCHANGED <<chosen, lastApplied, taken, applyChan, snapIndex, snapshots, pushes>>
      /\ UNCHANGED <<kv, lastRequestId, lastSnapShot, loop, waitApplyCh, handlers>>
  BY DEF vars, raftVars, logVars, applyVars, snapVars, kvVars
<1>2. \A c, r, n : Covers(c, r, n)' <=> Covers(c, r, n)
  BY <1>1 DEF Covers, Reflects, IsRequest, Writes
<1>3. \A s \in Server : Given(s)' = Given(s)
  BY <1>1 DEF Given
<1>4. QuietInv'
  BY <1>1 DEF StateInv, QuietInv
<1>5. Ordered'
  BY <1>1, <1>2 DEF StateInv, Ordered
<1>6. GetsCovered'
  BY <1>1, <1>2, Zenon DEF StateInv, GetsCovered, Given
<1>7. ASSUME NEW s \in Server PROVE Counted(s)' /\ Highest(s)' /\ Stored(s)' /\ Passed(s)'
  <2>1. Given(s)' = Given(s)
    BY <1>3
  <2>2. Counted(s) /\ Highest(s) /\ Stored(s) /\ Passed(s)
    BY DEF StateInv
  <2>3. Counted(s)'
    BY <1>1, <2>1, <2>2 DEF Counted, Duplicate
  <2>4. Highest(s)'
    BY <1>1, <1>2, <2>1, <2>2 DEF Highest
  <2>5. Stored(s)'
    BY <1>1, <2>1, <2>2 DEF Stored, LastWritten, WritesTo, First, SameRequest
  <2>6. Passed(s)'
    BY <1>1, <2>1, <2>2 DEF Passed, GivenTo
  <2> QED
    BY <2>3, <2>4, <2>5, <2>6
<1> QED
  BY <1>4, <1>5, <1>6, <1>7 DEF StateInv

\* Every other step.
LEMMA StateStep ==
  ASSUME SnapshotAt = {}, WritesFirst, Step, StateInv, Next
  PROVE  StateInv' /\ \A s \in Server : Given1(s)
<1>1. \A s \in Server : Given1(s)
  BY GivenStep DEF StateInv
<1>2. QuietInv' /\ Ordered' /\ GetsCovered'
  BY <1>1, QuietStep, OrderedStep, CoveredStep DEF StateInv
<1>3. ASSUME NEW s \in Server PROVE Counted(s)' /\ Highest(s)' /\ Stored(s)' /\ Passed(s)'
  <2>1. /\ Counted(s) /\ Highest(s) /\ Stored(s) /\ Passed(s) /\ Ordered /\ GetsCovered
        /\ Given(s) \in Nat /\ Given(s) <= Len(chosen)
    BY CountFacts DEF StateInv, Step
  <2>2. Counted(s)'
    BY <1>1 DEF Given1
  <2>3. Highest(s)' /\ Stored(s)' /\ Passed(s)'
    BY <1>1, <2>1, HighestStep, StoredStep, PassedStep
  <2> QED
    BY <2>2, <2>3
<1> QED
  BY <1>1, <1>2, <1>3 DEF StateInv

\* While no client writes after it has read, and there are no snapshots, the invariant holds.
LEMMA StateInvariance ==
  ASSUME SnapshotAt = {}, WritesFirst
  PROVE  Spec => []StateInv
<1>1. Init => StateInv
  BY StateInit
<1>2. KvInv /\ StateInv /\ [Next]_vars => StateInv'
  BY LogsStep, StateStep, StateStutter DEF Step
<1> QED
  BY <1>1, <1>2, KvInvariance, PTL DEF Spec

\* Every server's data is what the commands it was given, each taken once, make of an
\* empty store, however often a Clerk sends them and wherever they are committed: as
\* long as no Clerk writes after it has read, and no state is found too large.
THEOREM StateOfTheLog ==
  ASSUME SnapshotAt = {}, WritesFirst
  PROVE  Spec => []StateIsLog
<1>1. StateInv => StateIsLog
  <2> SUFFICES ASSUME StateInv, NEW s \in Server, NEW key \in Key
               PROVE  kv[s][key] = ValueAfter(key, Given(s))
    BY DEF StateIsLog
  <2>1. Given(s) \in Nat /\ LastWritten(key, Given(s), kv[s][key])
    BY DEF StateInv, Counted, Stored
  <2> QED
    BY <2>1, LastWrittenIs
<1> QED
  BY <1>1, StateInvariance, PTL

-----------------------------------------------------------------------------
(* What a read has seen. *)

\* The first n commands hold every write that was answered when the call of c began.
Seen(c, n) == \A d \in Client : Covers(d, clerks[c].seen[d], n)

\* h is a thread of its Clerk's latest call.
Current(h) == h.op.request = clerks[h.op.client].request

\* v is the value of key after some such number of commands.
FreshValue(c, key, v) == \E n \in 0 .. Len(chosen) : LastWritten(key, n, v) /\ Seen(c, n)

\* What was answered when a call began was committed by then; so the call's command is
\* behind it, and whoever was given that command, or has executed it, was given all of it.
CommandsInv ==
  /\ \A c \in Client : Seen(c, Len(chosen))
  /\ \A m \in DOMAIN chosen :
        chosen[m].request = clerks[chosen[m].client].request => Seen(chosen[m].client, m)
  /\ \A s \in Server, c \in Client :
        /\ lastRequestId[s][c] <= clerks[c].request
        /\ lastRequestId[s][c] = clerks[c].request => Seen(c, Given(s))
\* A thread is about to read behind it, and it and the Clerk end with what was read.
ReadsInv ==
  /\ \A h \in handlers : h.at = "get" /\ Current(h) => Seen(h.op.client, Given(h.server))
  /\ \A h \in handlers :
        h.at \in {"erase", "done"} /\ h.err # "ErrWrongLeader" /\ h.op.type = "Get" /\ Current(h) =>
          FreshValue(h.op.client, h.op.key, h.value)
  /\ \A c \in Client :
        LET clerk == clerks[c]
        IN clerk.state = "idle" /\ clerk.request > 0 /\ ~Writes(c, clerk.request) =>
             FreshValue(c, Script[c][clerk.request].key, clerk.value)

\* What a step does to a Clerk: it keeps its call, or makes the next one.
Same(c) == clerks'[c].request = clerks[c].request /\ clerks'[c].seen = clerks[c].seen
Newer(c) ==
  /\ clerks'[c].request = clerks[c].request + 1 /\ clerks'[c].seen = [d \in Client |-> Answered(d)]
  /\ UNCHANGED <<chosen, lastRequestId>>
  /\ \A u \in handlers' : u \in handlers \/ u.at = "start"
\* Its call is as before, is waited for, or has ended with the reply of a thread.
Replied(c) ==
  \/ clerks'[c] = clerks[c] \/ clerks'[c].state = "waiting"
  \/ \E h \in handlers :
        /\ h.at = "done" /\ h.err # "ErrWrongLeader" /\ h.op.client = c /\ Current(h)
        /\ clerks'[c].request = clerks[c].request /\ clerks'[c].value = h.value
Moves ==
  /\ Step /\ \A s \in Server : Given1(s)
  /\ \A u \in handlers' : u \in handlers \/ u.at = "start" \/ \E h \in handlers : GetTurn(h, u)
  /\ \A c \in Client : (Same(c) \/ Newer(c)) /\ Replied(c)

\* A call that is made again keeps what it has seen; the next call has seen what is
\* answered now; and a call ends with the reply of one of its threads.
LEMMA ClerkMoves ==
  ASSUME KvInv, Next, NEW c \in Client
  PROVE  (Same(c) \/ Newer(c)) /\ Replied(c)
<1>0. clerks \in [Client -> Clerks] /\ ClerksInv
  BY DEF KvInv, ClerksInv
<1>1. CASE UNCHANGED clerks
  BY <1>1 DEF Same, Replied
<1>2. ASSUME NEW d \in Client, Answer(d) PROVE Same(c) /\ Replied(c)
  <2>1. PICK h \in Replies(d) :
          /\ h.err # "ErrWrongLeader"
          /\ clerks' = [clerks EXCEPT ![d].state = "idle", ![d].err = h.err, ![d].value = h.value]
    BY <1>2 DEF Answer
  <2>2. /\ h \in handlers /\ h.at = "done" /\ h.op.client = d /\ Current(h)
    BY <1>0, <2>1 DEF Replies, Awaited, Current, KvInv, ThreadsInv
  <2>3. CASE c # d
    <3>1. clerks'[c] = clerks[c]
      BY <1>0, <2>1, <2>3
    <3> QED
      BY <3>1 DEF Same, Replied
  <2>4. CASE c = d
    <3>1. /\ clerks'[c].request = clerks[c].request /\ clerks'[c].seen = clerks[c].seen
          /\ clerks'[c].value = h.value
      BY <1>0, <2>1, <2>4 DEF Clerks
    <3> QED
      BY <2>1, <2>2, <2>4, <3>1 DEF Same, Replied
  <2> QED
    BY <2>3, <2>4
<1>3. ASSUME NEW d \in Client, NewRequest(d) \/ Retry(d) PROVE (Same(c) \/ Newer(c)) /\ Replied(c)
  <2>1. PICK s \in Server, r \in Nat : Calling(d, r, s)
    BY <1>0, <1>3, CallMade
  <2>2. /\ clerks'[d].request = r /\ clerks'[d].state = "waiting"
        /\ \A e \in Client \ {d} : clerks'[e] = clerks[e]
    BY <1>0, <2>1, Called DEF Calling
  <2>3. CASE c # d
    BY <2>2, <2>3 DEF Same, Replied
  <2>4. CASE c = d
    <3>1. clerks'[d].seen = IF r = clerks[d].request THEN clerks[d].seen ELSE [e \in Client |-> Answered(e)]
      <4>1. clerks' = [clerks EXCEPT ![d].request = r, ![d].server = s, ![d].calls = @ + 1,
                              ![d].state = "waiting", ![d].err = "", ![d].value = NoValue,
                              ![d].seen = IF r = clerks[d].request THEN @
                                          ELSE [e \in Client |-> Answered(e)]]
        BY <2>1 DEF Calling, Call
      <4> QED
        BY <1>0, <4>1 DEF Clerks
    <3>2. CASE r = clerks[d].request
      BY <2>2, <2>4, <3>1, <3>2 DEF Same, Replied
    <3>3. CASE r # clerks[d].request
      <4>1. r = clerks[d].request + 1
        BY <2>1, <3>3 DEF Calling
      <4>2. UNCHANGED <<chosen, lastRequestId>>
        BY <2>1 DEF Calling, Call, raftVars, logVars, kvVars
      <4>3. Sent(d, r, s).at = "start"
        BY DEF Sent, Handler
      <4>4. \A u \in handlers' : u \in handlers \/ u.at = "start"
        BY <2>1, <4>3 DEF Calling
      <4> QED
        BY <2>2, <2>4, <3>1, <3>3, <4>1, <4>2, <4>4 DEF Newer, Replied
    <3> QED
      BY <3>2, <3>3
  <2> QED
    BY <2>3, <2>4
<1>4. ASSUME NEW s \in Server,
              \/ GetCommandFromRaft(s) \/ Execute(s) \/ GetSnapShotFromRaft(s)
              \/ IfNeedToSendSnapShotCommand(s) \/ SendMessageToWaitChan(s)
      PROVE  UNCHANGED clerks
  BY <1>4
  DEF GetCommandFromRaft, PopMessage, Execute, GetSnapShotFromRaft, IfNeedToSendSnapShotCommand,
      SendMessageToWaitChan
<1>5. ASSUME NEW h \in handlers, HandlerStep(h) PROVE UNCHANGED clerks
  BY <1>5
  DEF HandlerStep, StartCommand, CreateChannel, PopCommand, TimeOut, CheckDuplicate, ExecuteGet, EraseChannel
<1> QED
  BY <1>1, <1>2, <1>3, <1>4, <1>5 DEF Next, KvNext

\* Every step is such a move.
LEMMA NextMoves ==
  ASSUME SnapshotAt = {}, WritesFirst, KvInv, StateInv, [Next]_vars
  PROVE  Moves
<1>1. CASE UNCHANGED vars
  <2>1. UNCHANGED <<taken, applyChan, lastApplied, loop, kv, lastRequestId, handlers, clerks, logs, chosen, leader>>
    BY <1>1 DEF vars, raftVars, logVars, applyVars, kvVars
  <2>2. \A s \in Server : Given1(s)
    BY <2>1, UntouchedStill DEF StateInv, Untouched
  <2>3. Issued' = Issued
    BY <2>1 DEF Issued
  <2>4. Step
    <3>1. ClerksInv'
      BY <2>1, ClerksStay DEF KvInv
    <3>2. LogsInv'
      BY <2>1, <2>3 DEF KvInv, LogsInv
    <3>3. Grow
      BY <2>1, <2>3 DEF KvInv, LogsInv, Grow
    <3> QED
      BY <3>1, <3>2, <3>3 DEF Step
  <2> QED
    BY <2>1, <2>2, <2>4 DEF Moves, Same, Replied
<1>2. CASE Next
  <2>1. Step
    BY <1>2, LogsStep DEF Step
  <2>2. \A s \in Server : Given1(s)
    BY <1>2, <2>1, StateStep
  <2>3. \A u \in handlers' : u \in handlers \/ u.at = "start" \/ \E h \in handlers : GetTurn(h, u)
    BY <1>2, ThreadMoves
  <2>4. \A c \in Client : (Same(c) \/ Newer(c)) /\ Replied(c)
    BY <1>2, ClerkMoves
  <2> QED
    BY <2>1, <2>2, <2>3, <2>4 DEF Moves
<1> QED
  BY <1>1, <1>2

\* What is held by the first n commands is held by more of them after the step.
LEMMA CoversGrow ==
  ASSUME Step, NEW n \in Nat, n <= Len(chosen), NEW l \in Nat, n <= l
  PROVE  \A c, r : Covers(c, r, n) => Covers(c, r, l)'
<1>1. \A m \in 1 .. n : m \in 1 .. l /\ chosen'[m] = chosen[m]
  BY DEF Step, KvInv, LogsInv, Grow
<1> QED
  BY <1>1 DEF Covers, Reflects, IsRequest, Writes

\* So a call that goes on has seen it there.
LEMMA SeenGrows ==
  ASSUME Step, NEW c \in Client, Same(c), NEW n \in Nat, n <= Len(chosen), Seen(c, n), NEW l \in Nat, n <= l
  PROVE  Seen(c, l)'
BY CoversGrow DEF Seen, Same

\* What a server was given, before and after.
LEMMA SeenGiven ==
  ASSUME Step, NEW c \in Client, Same(c), NEW s \in Server, Counted(s), Given1(s),
         NEW n \in Nat, n <= Given(s)', n <= Len(chosen), Seen(c, n)
  PROVE  Seen(c, Given(s))'
<1>1. PICK l \in Nat : Given(s)' = l
  BY GivenGrows
<1>2. n <= l
  BY <1>1
<1>3. \A d, r : Covers(d, r, n) => Covers(d, r, l)'
  BY <1>2, CoversGrow
<1>4. \A d \in Client : Covers(d, clerks[c].seen[d], n)
  BY DEF Seen
<1> QED
  BY <1>1, <1>3, <1>4 DEF Seen, Same

\* A value that was fresh for a call stays so.
LEMMA FreshGrows ==
  ASSUME Step, NEW c \in Client, Same(c), NEW key, NEW v, FreshValue(c, key, v)
  PROVE  FreshValue(c, key, v)'
<1>0. Len(chosen) \in Nat /\ Len(chosen') \in Nat /\ Len(chosen) <= Len(chosen')
  BY DEF Step, KvInv, LogsInv, Grow
<1>1. PICK n \in 0 .. Len(chosen) : LastWritten(key, n, v) /\ Seen(c, n)
  BY DEF FreshValue
<1>2. n \in Nat /\ n <= Len(chosen) /\ n \in 0 .. Len(chosen')
  BY <1>0
<1>3. LastWritten(key, n, v)'
  BY <1>1, <1>2, WritesStay
<1>4. Seen(c, n)'
  BY <1>1, <1>2, SeenGrows
<1> QED
  BY <1>2, <1>3, <1>4 DEF FreshValue

\* What is issued is not above its Clerk's request.
LEMMA IssuedLow ==
  ASSUME KvInv, NEW op \in Issued
  PROVE  /\ op.client \in Client /\ op.request \in Nat /\ op.request <= clerks[op.client].request
         /\ clerks[op.client].request \in Nat
BY IssuedFacts DEF KvInv

\* The commands and the request ids of the servers, one Clerk at a time.
LEMMA CommandsStep ==
  ASSUME Moves, StateInv, CommandsInv, ReadsInv
  PROVE  CommandsInv'
<1>0. /\ Step /\ KvInv /\ Grow /\ chosen \in Seq(Issued) /\ chosen' \in Seq(Issued')
      /\ Len(chosen) \in Nat /\ Len(chosen') \in Nat /\ Len(chosen) <= Len(chosen')
      /\ DOMAIN chosen = 1 .. Len(chosen) /\ DOMAIN chosen' = 1 .. Len(chosen')
  BY DEF Moves, Step, KvInv, LogsInv, Grow
<1>1. ASSUME NEW c \in Client PROVE Seen(c, Len(chosen))'
  <2>1. PICK l \in Nat : l = Len(chosen') /\ Len(chosen) <= l
    BY <1>0
  <2>2. \A d, r : Covers(d, r, Len(chosen)) => Covers(d, r, l)'
    BY <1>0, <2>1, CoversGrow
  <2>3. CASE Same(c)
    <3>1. \A d \in Client : Covers(d, clerks[c].seen[d], Len(chosen))
      BY DEF CommandsInv, Seen
    <3> QED
      BY <2>1, <2>2, <2>3, <3>1 DEF Seen, Same
  <2>4. CASE Newer(c)
    <3>1. \A d \in Client : Covers(d, Answered(d), Len(chosen))
      BY <1>0, AnsweredCovered
    <3>2. \A d \in Client : clerks'[c].seen[d] = Answered(d)
      BY <2>4 DEF Newer
    <3> QED
      BY <2>1, <2>2, <3>1, <3>2 DEF Seen
  <2> QED
    BY <2>3, <2>4 DEF Moves
<1>2. ASSUME NEW m \in DOMAIN chosen', NEW op, op = chosen'[m], op.request = clerks'[op.client].request
      PROVE  Seen(op.client, m)'
  <2> DEFINE c == op.client
  <2>1. op \in Issued' /\ m \in Nat /\ m > 0
    BY <1>0, <1>2
  <2>2. c \in Client
    BY <2>1 DEF Issued, Operation
  <2>3. CASE Same(c) /\ m \in DOMAIN chosen
    <3>1. chosen[m] = op /\ m <= Len(chosen)
      BY <1>0, <1>2, <2>3 DEF Grow
    <3>2. Seen(c, m)
      BY <1>2, <2>3, <3>1 DEF CommandsInv, Same
    <3> QED
      BY <1>0, <2>1, <2>2, <2>3, <3>1, <3>2, SeenGrows
  <2>4. CASE Same(c) /\ m \notin DOMAIN chosen
    <3>1. Len(chosen) <= m
      BY <1>0, <2>1, <2>4
    <3>2. Seen(c, Len(chosen))
      BY <2>2 DEF CommandsInv
    <3> QED
      BY <1>0, <2>1, <2>2, <2>4, <3>1, <3>2, SeenGrows
  <2>5. ASSUME Newer(c) PROVE FALSE
    <3>1. op \in Issued
      BY <1>0, <1>2, <2>5 DEF Newer
    <3> QED
      BY <1>0, <1>2, <2>5, <3>1, IssuedLow DEF Newer
  <2> QED
    BY <2>2, <2>3, <2>4, <2>5 DEF Moves
<1>3. ASSUME NEW s \in Server, NEW c \in Client
      PROVE  /\ lastRequestId'[s][c] <= clerks'[c].request
             /\ lastRequestId'[s][c] = clerks'[c].request => Seen(c, Given(s))'
  <2> DEFINE g == Given(s)
             n == g + 1
             op == chosen[n]
             Goal == /\ lastRequestId'[s][c] <= clerks'[c].request
                     /\ lastRequestId'[s][c] = clerks'[c].request => Seen(c, Given(s))'
  <2>0. /\ lastRequestId \in [Server -> [Client -> Nat]] /\ clerks[c].request \in Nat
        /\ lastRequestId[s][c] <= clerks[c].request /\ lastRequestId[s][c] \in Nat
    BY <1>0 DEF KvInv, ThreadsInv, ClerksInv, Clerks, CommandsInv
  <2>1. CASE Newer(c)
    BY <2>0, <2>1 DEF Newer
  <2>2. /\ g \in Nat /\ Given(s)' \in Nat /\ g <= Given(s)' /\ g <= Len(chosen)
        /\ Counted(s) /\ Given1(s)
    BY <1>0, GivenGrows DEF StateInv, Moves
  <2>3. ASSUME Same(c), lastRequestId'[s][c] = lastRequestId[s][c] PROVE Goal
    <3>1. lastRequestId[s][c] = clerks[c].request => Seen(c, g)
      BY DEF CommandsInv
    <3>2. Seen(c, g) => Seen(c, Given(s))'
      BY <1>0, <2>2, <2>3, SeenGiven
    <3> QED
      BY <2>0, <2>3, <3>1, <3>2 DEF Same
  <2>4. CASE Same(c) /\ Applied(s)
    <3>1. /\ Given(s)' = n /\ n \in DOMAIN chosen
          /\ lastRequestId'[s] = [lastRequestId[s] EXCEPT ![op.client] = op.request]
      BY <2>4 DEF Applied
    <3>2. /\ op.client \in Client /\ op.request \in Nat /\ op.request <= clerks[op.client].request
          /\ n \in Nat /\ n <= Len(chosen)
      BY <1>0, <2>2, <3>1, IssuedLow
    <3>3. CASE c # op.client
      BY <2>3, <2>4, <3>1, <3>3
    <3>4. CASE c = op.client
      <4>1. lastRequestId'[s][c] = op.request
        BY <2>0, <3>1, <3>2, <3>4
      <4>2. op.request = clerks[c].request => Seen(c, n)
        BY <3>1, <3>4 DEF CommandsInv
      <4>3. Seen(c, n) => Seen(c, Given(s))'
        BY <1>0, <2>2, <2>4, <3>1, <3>2, SeenGiven
      <4> HIDE DEF op, n
      <4> QED
        BY <2>4, <3>2, <3>4, <4>1, <4>2, <4>3 DEF Same
    <3> QED
      BY <3>3, <3>4
  <2>5. ASSUME Same(c), NEW h \in handlers, h.at = "get", h.server = s, 
               lastRequestId'[s] = [lastRequestId[s] EXCEPT ![h.op.client] = h.op.request]
        PROVE  Goal
    <3>1. /\ h.op \in Issued /\ h.op.client \in Client /\ h.op.request \in Nat
          /\ h.op.request <= clerks[h.op.client].request
      BY <1>0, IssuedLow DEF KvInv, ThreadsInv, Threads
    <3>2. CASE c # h.op.client
      BY <2>3, <2>5, <3>2
    <3>3. CASE c = h.op.client
      <4>1. lastRequestId'[s][c] = h.op.request
        BY <2>0, <2>5, <3>1, <3>3
      <4>2. h.op.request = clerks[c].request => Seen(c, g)
        BY <2>5, <3>3 DEF ReadsInv, Current
      <4>3. Seen(c, g) => Seen(c, Given(s))'
        BY <1>0, <2>2, <2>5, SeenGiven
      <4> QED
        BY <2>5, <3>1, <3>3, <4>1, <4>2, <4>3 DEF Same
    <3> QED
      BY <3>2, <3>3
  <2>6. CASE Same(c) /\ HasRead(s)
    BY <2>5, <2>6 DEF HasRead
  <2>7. CASE Same(c) /\ (Still(s) \/ Skipped(s))
    BY <2>3, <2>7 DEF Still, Skipped
  <2> QED
    BY <2>1, <2>2, <2>4, <2>6, <2>7 DEF Moves, Given1
<1>4. ASSUME NEW m \in DOMAIN chosen', chosen'[m].request = clerks'[chosen'[m].client].request
      PROVE  Seen(chosen[m].client, m)'
  BY <1>2, <1>4
<1> QED
  BY <1>1, <1>3, <1>4 DEF CommandsInv

\* A thread that is about to read for the latest call reads behind what that has seen.
LEMMA TurnSeen ==
  ASSUME KvInv, StateInv, CommandsInv, NEW h \in handlers, NEW u, GetTurn(h, u), u.at = "get", Current(h)
  PROVE  Seen(h.op.client, Given(h.server))
<1> DEFINE s == h.server
           c == h.op.client
           r == h.op.request
<1>0. /\ s \in Server /\ h.op \in Issued /\ c \in Client /\ r \in Nat /\ clerks[c].request = r
      /\ Counted(s) /\ Passed(s) /\ Given(s) \in Nat
  BY IssuedLow DEF KvInv, ThreadsInv, Threads, StateInv, Counted, Current
<1>1. CASE Duplicate(s, h.op)
  <2>1. lastRequestId[s][c] \in Nat /\ lastRequestId[s][c] <= r /\ r <= lastRequestId[s][c]
    BY <1>0, <1>1 DEF KvInv, ThreadsInv, CommandsInv, Duplicate
  <2>2. lastRequestId[s][c] = clerks[c].request
    BY <1>0, <2>1
  <2> QED
    BY <1>0, <2>2 DEF CommandsInv
<1>2. ASSUME NEW m \in 1 .. Given(s), m \in DOMAIN chosen, SameRequest(chosen[m], h.op)
      PROVE  Seen(c, Given(s))
  <2>1. Seen(c, m)
    BY <1>0, <1>2 DEF CommandsInv, SameRequest
  <2>2. m \in Nat /\ m <= Given(s)
    BY <1>0
  <2> QED
    BY <1>0, <2>1, <2>2, CoversMore DEF Seen
<1> QED
  BY <1>0, <1>1, <1>2, ReadsBehind

\* The threads that read and the Clerks that are answered.
LEMMA ReadsStep ==
  ASSUME Moves, StateInv, CommandsInv, ReadsInv
  PROVE  ReadsInv'
<1>0. /\ Step /\ KvInv /\ Len(chosen) \in Nat
      /\ \A s \in Server : Counted(s) /\ Given1(s) /\ Stored(s)
  BY DEF Moves, Step, KvInv, LogsInv, StateInv
\* A thread for its Clerk's latest call after the step was so before, or starts.
<1>1. ASSUME NEW u \in handlers', u.at # "start", u.op.request = clerks'[u.op.client].request
      PROVE  /\ u.op.client \in Client /\ Same(u.op.client)
             /\ \/ u \in handlers /\ Current(u)
                \/ \E h \in handlers : GetTurn(h, u) /\ Current(h)
  <2> DEFINE c == u.op.client
  <2>1. PICK h \in handlers : u.op = h.op /\ (u = h \/ GetTurn(h, u))
    BY <1>1 DEF Moves, GetTurn
  <2>2. /\ c \in Client /\ h.op.request \in Nat /\ h.op.request <= clerks[c].request
        /\ clerks[c].request \in Nat
    BY <1>0, <2>1, IssuedLow DEF KvInv, ThreadsInv, Threads
  <2>3. Same(c)
    <3>1. Same(c) \/ Newer(c)
      BY <2>2 DEF Moves
    <3>2. ASSUME Newer(c) PROVE FALSE
      <4>1. clerks'[c].request = clerks[c].request + 1
        BY <3>2 DEF Newer
      <4> QED
        BY <1>1, <2>1, <2>2, <4>1
    <3> QED
      BY <3>1, <3>2
  <2> QED
    BY <1>1, <2>1, <2>2, <2>3 DEF Same, Current
<1>2. ASSUME NEW u \in handlers', u.at = "get", u.op.request = clerks'[u.op.client].request
      PROVE  Seen(u.op.client, Given(u.server))'
  <2>1. u.op.client \in Client /\ Same(u.op.client)
    BY <1>1, <1>2
  <2>2. u.server \in Server /\ Seen(u.op.client, Given(u.server))
    <3>1. CASE u \in handlers /\ Current(u)
      BY <1>0, <1>2, <3>1 DEF ReadsInv, KvInv, ThreadsInv, Threads
    <3>2. ASSUME NEW h \in handlers, GetTurn(h, u), Current(h)
          PROVE  u.server \in Server /\ Seen(u.op.client, Given(u.server))
      <4>1. Seen(h.op.client, Given(h.server)) /\ h.server \in Server
        BY <1>0, <1>2, <3>2, TurnSeen DEF KvInv, ThreadsInv, Threads
      <4> QED
        BY <3>2, <4>1 DEF GetTurn
    <3> QED
      BY <1>1, <1>2, <3>1, <3>2
  <2>3. /\ Given(u.server) \in Nat /\ Given(u.server) <= Given(u.server)' /\ Given(u.server) <= Len(chosen)
    BY <1>0, <2>2, GivenGrows
  <2> QED
    BY <1>0, <2>1, <2>2, <2>3, SeenGiven
<1>3. ASSUME NEW u \in handlers', u.at \in {"erase", "done"}, u.err # "ErrWrongLeader", u.op.type = "Get",
             u.op.request = clerks'[u.op.client].request
      PROVE  FreshValue(u.op.client, u.op.key, u.value)'
  <2>1. u.op.client \in Client /\ Same(u.op.client)
    BY <1>1, <1>3
  <2>2. FreshValue(u.op.client, u.op.key, u.value)
    <3>1. CASE u \in handlers /\ Current(u)
      BY <1>3, <3>1 DEF ReadsInv
    <3>2. ASSUME NEW h \in handlers, GetTurn(h, u), Current(h)
          PROVE  FreshValue(u.op.client, u.op.key, u.value)
      <4>1. u.op = h.op /\ (\/ h.at = "get" /\ u.value = kv[h.server][h.op.key]
                            \/ h.at = "erase" /\ u.err = h.err /\ u.value = h.value)
        BY <1>3, <3>2 DEF GetTurn
      <4>2. CASE h.at = "get" /\ u.value = kv[h.server][h.op.key]
        <5>1. Seen(h.op.client, Given(h.server))
          BY <3>2, <4>2 DEF ReadsInv
        <5>2. h.server \in Server /\ h.op.key \in Key
          BY <1>0, IssuedFacts DEF KvInv, ThreadsInv, Threads
        <5>3. LastWritten(h.op.key, Given(h.server), kv[h.server][h.op.key])
          BY <1>0, <5>2 DEF Stored
        <5>4. Given(h.server) \in 0 .. Len(chosen)
          BY <1>0, <5>2, CountFacts
        <5> QED
          BY <4>1, <4>2, <5>1, <5>3, <5>4 DEF FreshValue
      <4>3. CASE h.at = "erase" /\ u.err = h.err /\ u.value = h.value
        BY <1>3, <3>2, <4>1, <4>3 DEF ReadsInv
      <4> QED
        BY <4>1, <4>2, <4>3
    <3> QED
      BY <1>1, <1>3, <3>1, <3>2
  <2> QED
    BY <1>0, <2>1, <2>2, FreshGrows
<1>4. ASSUME NEW c \in Client, clerks'[c].state = "idle", clerks'[c].request > 0,
             ~Writes(c, clerks'[c].request)
      PROVE  FreshValue(c, Script[c][clerks[c].request].key, clerks[c].value)'
  <2>1. CASE clerks'[c] = clerks[c]
    <3>1. Same(c)
      BY <2>1 DEF Same
    <3>2. FreshValue(c, Script[c][clerks[c].request].key, clerks[c].value)
      BY <1>4, <2>1 DEF ReadsInv
    <3>3. PICK k, v : k = Script[c][clerks[c].request].key /\ v = clerks[c].value
      OBVIOUS
    <3>4. FreshValue(c, k, v)'
      BY <1>0, <3>1, <3>2, <3>3, FreshGrows
    <3> QED
      BY <2>1, <3>3, <3>4
  <2>2. ASSUME NEW h \in handlers, h.at = "done", h.err # "ErrWrongLeader", h.op.client = c, Current(h),
               clerks'[c].request = clerks[c].request, clerks'[c].value = h.value
        PROVE  FreshValue(c, Script[c][clerks[c].request].key, clerks[c].value)'
    <3>1. /\ h.op.type = Script[c][clerks[c].request].type /\ h.op.key = Script[c][clerks[c].request].key
      BY <1>0, <2>2, IssuedFacts DEF KvInv, ThreadsInv, Threads, Current, Operation
    <3>2. FreshValue(c, h.op.key, h.value)
      BY <1>4, <2>2, <3>1 DEF ReadsInv, Writes
    <3>3. Same(c)
      <4>1. Same(c) \/ Newer(c)
        BY DEF Moves
      <4>2. ASSUME Newer(c) PROVE FALSE
        <5>1. clerks'[c].request = clerks[c].request + 1 /\ clerks[c].request \in Nat
          BY <1>0, <4>2 DEF Newer, KvInv, ClerksInv, Clerks
        <5> QED
          BY <2>2, <5>1
      <4> QED
        BY <4>1, <4>2
    <3>4. PICK k, v : k = h.op.key /\ v = h.value
      OBVIOUS
    <3>5. FreshValue(c, k, v)'
      BY <1>0, <3>2, <3>3, <3>4, FreshGrows
    <3> QED
      BY <2>2, <3>1, <3>4, <3>5
  <2> QED
    BY <1>4, <2>1, <2>2 DEF Moves, Replied
<1> QED
  BY <1>2, <1>3, <1>4 DEF ReadsInv, Current

\* The first state: no call has been made.
LEMMA SeenInit ==
  ASSUME Init
  PROVE  CommandsInv /\ ReadsInv
<1>1. /\ handlers = {} /\ chosen = <<>> /\ DOMAIN chosen = {}
      /\ \A c \in Client : clerks[c].request = 0 /\ clerks[c].seen = [d \in Client |-> 0]
      /\ \A s \in Server, c \in Client : lastRequestId[s][c] = 0
  <2>1. DOMAIN <<>> = {}
    OBVIOUS
  <2> QED
    BY <2>1 DEF Init, RaftInit
<1>2. \A n : \A c \in Client : Seen(c, n)
  <2>1. 1 .. 0 = {}
    OBVIOUS
  <2> QED
    BY <1>1, <2>1 DEF Seen, Covers
<1>3. CommandsInv
  BY <1>1, <1>2 DEF CommandsInv
<1>4. ReadsInv
  BY <1>1 DEF ReadsInv
<1> QED
  BY <1>3, <1>4

\* A Get that is answered returns the data after some number of committed commands, no
\* fewer than make up every write that anyone was told of before the Get began: whichever
\* server and whichever attempt answered, after a pop or after a wait that timed out.
THEOREM ReadsAreFresh ==
  ASSUME SnapshotAt = {}, WritesFirst
  PROVE  Spec => []FreshRead
<1>1. Init => CommandsInv /\ ReadsInv
  BY SeenInit
<1>2. KvInv /\ StateInv /\ CommandsInv /\ ReadsInv /\ [Next]_vars => CommandsInv' /\ ReadsInv'
  BY NextMoves, CommandsStep, ReadsStep
<1>3. KvInv /\ ReadsInv => FreshRead
  <2> SUFFICES ASSUME KvInv, ReadsInv, NEW c \in Client, clerks[c].state = "idle", clerks[c].request > 0,
                      ~Writes(c, clerks[c].request)
               PROVE  \E n \in 0 .. Len(chosen) :
                         /\ clerks[c].value = ValueAfter(Script[c][clerks[c].request].key, n)
                         /\ \A d \in Client : \A r \in 1 .. clerks[c].seen[d] : Writes(d, r) => Reflects(d, r, n)
    BY DEF FreshRead
  <2> DEFINE key == Script[c][clerks[c].request].key
             v == clerks[c].value
  <2>1. FreshValue(c, key, v)
    BY DEF ReadsInv
  <2>2. PICK n \in 0 .. Len(chosen) : LastWritten(key, n, v) /\ Seen(c, n)
    BY <2>1 DEF FreshValue
  <2>3. n \in Nat
    BY DEF KvInv, LogsInv
  <2> HIDE DEF key, v
  <2>4. v = ValueAfter(key, n)
    BY <2>2, <2>3, LastWrittenIs
  <2>5. \A d \in Client : \A r \in 1 .. clerks[c].seen[d] : Writes(d, r) => Reflects(d, r, n)
    BY <2>2 DEF Seen, Covers
  <2> QED
    BY <2>4, <2>5 DEF key, v
<1> QED
  BY <1>1, <1>2, <1>3, KvInvariance, StateInvariance, PTL DEF Spec

-----------------------------------------------------------------------------
(* That data does not go back. *)

\* A value tells which request wrote it.
TellApart ==
  \A c, d \in Client : \A r \in DOMAIN Script[c], q \in DOMAIN Script[d] :
     Writes(c, r) /\ Writes(d, q) =>
       /\ Script[c][r].value # NoValue
       /\ Script[c][r].value = Script[d][q].value => c = d /\ r = q

\* Then it tells at which index the request was first committed.
LEMMA WhereWritten ==
  ASSUME KvInv, TellApart, NEW m \in DOMAIN chosen, NEW n \in DOMAIN chosen, First(m), First(n),
         chosen[m].type # "Get", chosen[n].type # "Get", chosen[m].value = chosen[n].value
  PROVE  m = n /\ chosen[m].value # NoValue
<1>1. ASSUME NEW x \in DOMAIN chosen, chosen[x].type # "Get"
      PROVE  /\ chosen[x].client \in Client /\ chosen[x].request \in DOMAIN Script[chosen[x].client]
             /\ Writes(chosen[x].client, chosen[x].request)
             /\ chosen[x].value = Script[chosen[x].client][chosen[x].request].value
  <2>1. chosen[x] \in Issued
    BY <1>1, ChosenFacts
  <2>2. chosen[x] = Operation(chosen[x].client, chosen[x].request)
    BY <2>1, IssuedFacts DEF KvInv
  <2>3. \A c, r : Operation(c, r).value = Script[c][r].value
    BY DEF Operation
  <2>4. chosen[x].value = Script[chosen[x].client][chosen[x].request].value
    BY <2>2, <2>3
  <2> QED
    BY <1>1, <2>4, ChosenFacts
<1>2. SameRequest(chosen[m], chosen[n]) /\ SameRequest(chosen[n], chosen[m]) /\ chosen[m].value # NoValue
  BY <1>1 DEF TellApart, SameRequest
<1>3. m \in Nat /\ n \in Nat /\ m > 0 /\ n > 0
  BY ChosenFacts
<1>4. ~(m < n) /\ ~(n < m)
  <2>1. m < n => m \in 1 .. n - 1
    BY <1>3
  <2>2. n < m => n \in 1 .. m - 1
    BY <1>3
  <2> QED
    BY <1>2, <2>1, <2>2 DEF First
<1> QED
  BY <1>2, <1>3, <1>4

\* The data of a server never goes back to what an earlier command wrote: neither by a
\* request that is committed again, nor by a thread or a loop that is late.
THEOREM DataGoesForward ==
  ASSUME SnapshotAt = {}, WritesFirst, TellApart
  PROVE  Spec => NeverOlder
<1> DEFINE Forward == \A s \in Server, k \in Key :
             kv'[s][k] # kv[s][k] => \A m \in WrittenAt(s, k), n \in WrittenAt(s, k)' : m < n
<1>1. KvInv /\ StateInv /\ [Next]_vars => [Forward]_vars
  <2> SUFFICES ASSUME KvInv, StateInv, Next, NEW s \in Server, NEW k \in Key, kv'[s][k] # kv[s][k],
                      NEW m \in WrittenAt(s, k), NEW n \in WrittenAt(s, k)'
               PROVE  m < n
    OBVIOUS
  <2> DEFINE g == Given(s)
             op == chosen[g + 1]
  <2>1. Step /\ Highest(s) /\ Counted(s) /\ Stored(s) /\ g \in Nat /\ Given1(s)
    BY LogsStep, StateStep DEF Step, StateInv, Counted
  <2>2. Applied(s)
    BY <2>1 DEF Given1, Still, Skipped, HasRead
  <2>3. /\ g + 1 \in DOMAIN chosen /\ ~Duplicate(s, op) /\ op.type # "Get"
        /\ kv'[s] = [kv[s] EXCEPT ![op.key] = op.value]
    BY <2>2 DEF Applied
  <2>4. First(g + 1)
    BY <2>1, <2>3, FirstIsApplied
  <2>5. kv'[s][k] = op.value /\ op.key = k
    <3>1. kv[s] \in [Key -> Values]
      BY DEF KvInv, ThreadsInv
    <3> HIDE DEF op
    <3> QED
      BY <2>3, <3>1
  <2>6. chosen' = chosen
    BY CommitsOnly DEF kvVars
\* What is there now was written at g + 1.
  <2>7. n = g + 1
    <3>1. n \in DOMAIN chosen /\ First(n) /\ chosen[n].type # "Get" /\ chosen[n].value = op.value
      BY <2>5, <2>6 DEF WrittenAt, First
    <3> QED
      BY <2>3, <2>4, <3>1, WhereWritten
\* What was there before was written at most at g.
  <2>8. m \in 1 .. g
    <3>1. m \in DOMAIN chosen /\ First(m) /\ chosen[m].type # "Get" /\ chosen[m].value = kv[s][k]
      BY DEF WrittenAt
    <3>2. chosen[m].value # NoValue
      BY <3>1, WhereWritten
    <3>3. PICK l \in WritesTo(k, g) : kv[s][k] = chosen[l].value
      BY <2>1, <3>1, <3>2 DEF Stored, LastWritten
    <3>4. l \in 1 .. g /\ l \in DOMAIN chosen /\ First(l) /\ chosen[l].type # "Get"
      <4>1. l \in 1 .. g /\ First(l) /\ chosen[l].type # "Get"
        BY DEF WritesTo
      <4>2. l \in DOMAIN chosen
        BY <2>1, <4>1, CountFacts DEF KvInv, LogsInv
      <4> QED
        BY <4>1, <4>2
    <3> QED
      BY <3>1, <3>3, <3>4, WhereWritten
  <2> QED
    BY <2>1, <2>7, <2>8
<1> QED
  BY <1>1, KvInvariance, StateInvariance, PTL DEF Spec, NeverOlder
=============================================================================
