------------------------------ MODULE MCKvServer ------------------------------
(* Instances of KvServer for TLC: two servers, one key, scripts of a few calls. *)
EXTENDS KvProperties

CONSTANTS s1, s2, c1, c2, k, v1, v2

Other == [s \in Server |-> IF s = s1 THEN s2 ELSE s1]
CallOf(type, value) == [type |-> type, key |-> k, value |-> value]
Put(v) == CallOf("Put", v)
Get    == CallOf("Get", NoValue)

\* RPCs of each client.
OneEach  == [c \in Client |-> 1]
ThreeAndTwo == [c \in Client |-> IF c = c1 THEN 3 ELSE 2]
FourAndTwo == [c \in Client |-> IF c = c1 THEN 4 ELSE 2]
SixEach  == [c \in Client |-> 6]

\* Scripts: two writers; a writer and a reader; a reader that then writes; one Put.
TwoWriters   == [c \in Client |-> IF c = c1 THEN <<Put(v1)>> ELSE <<Put(v2)>>]
WriterReader == [c \in Client |-> IF c = c1 THEN <<Put(v1), Put(v2)>> ELSE <<Get>>]
ReadThenPut  == [c \in Client |-> <<Get, Put(v1)>>]
OnePut       == [c \in Client |-> <<Put(v1)>>]

\* s1 leads, nothing is in flight, no snapshot.
Quiet ==
  /\ leader = s1 /\ leaders = {s1} /\ elections = 1
  /\ taken = [s \in Server |-> <<>>]
  /\ snapIndex = [s \in Server |-> 0]
  /\ snapshots = {} /\ pushes = {}
  /\ persister = [s \in Server |-> NewPersister(NoData)]
  /\ applyChan = [s \in Server |-> <<>>]
  /\ up = Server
  /\ lastSnapShot = [s \in Server |-> 0]
  /\ loop = [s \in Server |-> Reading]
  /\ waitApplyCh = [s \in Server |-> << >>]

\* c1's connection broke while its first call was on its way to s1, s2 refused the
\* second try, and the third was served by s1.
First1 == Operation(c1, 1)
LateInit ==
  /\ Quiet
  /\ logs = [s \in Server |-> <<First1>>] /\ chosen = <<First1>>
  /\ lastApplied = [s \in Server |-> 1]
  /\ kv = [s \in Server |-> [key \in Key |-> First1.value]]
  /\ lastRequestId = [s \in Server |-> [c \in Client |->
                        IF c = c1 /\ (s = s1 \/ First1.type # "Get") THEN 1 ELSE 0]]
  /\ handlers = {Handler(c1, 1, 1, s1)}
  /\ clerks = [c \in Client |->
       [request |-> IF c = c1 THEN 1 ELSE 0, server |-> s1, calls |-> IF c = c1 THEN 3 ELSE 0,
        state |-> "idle", value |-> NoValue, seen |-> [d \in Client |-> 0],
        err |-> IF c # c1 THEN "" ELSE IF First1.type = "Get" THEN "ErrNoKey" ELSE "OK"]]
LateSpec == LateInit /\ [][Next]_vars

\* Two instances in one: from Init, c1 writes once while c2 reads and retries, with two
\* changes of leader; from LateInit, only c1 goes on, with one leader and a snapshot.
Reads == clerks[c1].calls <= 1 /\ \A s \in Server : Len(logs[s]) <= 2
WritesLate == clerks[c1].calls >= 3 /\ clerks[c2].calls = 0 /\ elections <= 1
ReadsScope == Reads \/ WritesLate
ReadsSpec == (Init \/ LateInit) /\ [][Next]_vars
=============================================================================
