----------------------------- MODULE KvProperties -----------------------------
(***************************************************************************)
(* What the KvServer promises its clients, given a Raft that keeps its     *)
(* promises, and what the comments of kvServer.cpp say.                    *)
(***************************************************************************)
EXTENDS KvServer

Writes(c, r) == Script[c][r].type # "Get"
IsRequest(op, c, r) == op.client = c /\ op.request = r

\* The first time a request is committed is the time it counts.
First(n) == \A m \in 1 .. n - 1 : ~SameRequest(chosen[m], chosen[n])
WritesTo(k, n) == {m \in 1 .. n : chosen[m].type # "Get" /\ chosen[m].key = k /\ First(m)}
ValueAfter(k, n) ==
  IF WritesTo(k, n) = {} THEN NoValue
  ELSE chosen[CHOOSE m \in WritesTo(k, n) : \A l \in WritesTo(k, n) : l <= m].value

\* How many commands the loop of s has been given, while there are no snapshots.
Given(s) == lastApplied[s] - Len(taken[s]) - Len(applyChan[s])
              - (IF loop[s].at = "execute" THEN 1 ELSE 0)

\* Every server's data is what the commands it was given, each taken once, make of
\* an empty store: servers given the same commands agree, whatever was retried,
\* overwritten in a log, or committed twice.
StateIsLog == \A s \in Server, k \in Key : kv[s][k] = ValueAfter(k, Given(s))

\* A write acknowledged to its client is committed, also when the acknowledgement
\* came from a wait that timed out, or from a thread of an earlier attempt.
AckedWritten ==
  \A c \in Client : \A r \in 1 .. Answered(c) :
     Writes(c, r) => \E n \in DOMAIN chosen : IsRequest(chosen[n], c, r)

\* A read returns the data after some number of committed commands, no fewer than
\* make up every write acknowledged to anyone before the read began.
Reflects(c, r, n) == \E m \in 1 .. n : IsRequest(chosen[m], c, r)
FreshRead ==
  \A c \in Client :
     LET clerk == clerks[c] IN
     clerk.state = "idle" /\ clerk.request > 0 /\ ~Writes(c, clerk.request) =>
       \E n \in 0 .. Len(chosen) :
          /\ clerk.value = ValueAfter(Script[c][clerk.request].key, n)
          /\ \A d \in Client : \A r \in 1 .. clerk.seen[d] : Writes(d, r) => Reflects(d, r, n)

\* The queue that a handler waits on, pops from and deletes is its own.
ChannelOwned ==
  \A g, h \in handlers :
     {g.at, h.at} \subseteq {"wait", "erase", "duplicate", "get"}
       /\ g.server = h.server /\ g.index = h.index => g = h

\* Data never goes back to that of an earlier command: not by a request committed
\* again, nor by old commands or a second copy of a snapshot that reach the channel
\* behind a snapshot.
WrittenAt(s, k) ==
  {m \in DOMAIN chosen : First(m) /\ chosen[m].type # "Get" /\ chosen[m].key = k
                          /\ chosen[m].value = kv[s][k]}
NeverOlder ==
  [][\A s \in Server, k \in Key :
       kv'[s][k] # kv[s][k] => \A m \in WrittenAt(s, k), n \in WrittenAt(s, k)' : m < n]_vars

-----------------------------------------------------------------------------
(* What the comments say and the code does not do. *)

\* kvServer.cpp:214: a command that was executed is not executed again.
ExecutedOnce == [][\A s \in Server : Execute(s) => First(loop[s].index)]_vars

\* kvServer.cpp:209: a command up to the snapshot's index is not executed because it
\* has been kept in the snapshot.
SnapshotKeeps ==
  \A s \in up, k \in Key : WritesTo(k, lastSnapShot[s]) # {} => kv[s][k] # NoValue
=============================================================================
