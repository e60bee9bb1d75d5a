------------------------------- MODULE KvServer -------------------------------
(***************************************************************************)
(* The key-value servers, kvServer.cpp, and their clients, clerk.cpp, over *)
(* RaftService.  Of each server: the loop that reads applyChan, and one    *)
(* thread per RPC, which outlives the Clerk's interest in it when the      *)
(* connection breaks.  A step is what one hold of m_mtx, of Raft's mutex   *)
(* or of a queue's does.                                                   *)
(***************************************************************************)
EXTENDS RaftService, FiniteSets

CONSTANTS
  Client, Key,
  NoValue,       \* a key that the skip list does not have
  Script,        \* Script[c]: the calls client c makes: [type, key, value]
  NextServer,    \* (server + 1) % m_servers.size()
  FirstServer,   \* m_recentLeaderId of a new Clerk
  MaxAttempts,   \* bound: RPCs of each client
  MaxLogIndex,   \* bound: last index Start may create
  SnapshotAt     \* the indexes at which the Raft state is found too large

ASSUME ScriptAssumption == \A c \in Client : \A r \in DOMAIN Script[c] : Script[c][r].key \in Key
ASSUME ServersAssumption == FirstServer \in Server /\ NextServer \in [Server -> Server]

VARIABLES
  up,               \* the servers whose process runs
  kv,               \* kv[s]: what the skip list maps keys to
  lastRequestId,    \* lastRequestId[s][c]: 0 when c is not in the map
  lastSnapShot,     \* m_lastSnapShotRaftLogIndex
  loop,             \* loop[s]: where ReadRaftApplyCommandLoop is, with its message
  waitApplyCh,      \* waitApplyCh[s][n]: the queue of index n, while it exists
  handlers,         \* the threads of Get and PutAppend
  clerks            \* clerks[c]: the request, the server, the RPCs made, the last reply; and,
                    \* for FreshRead only, the requests answered when this one was made

kvVars == <<kv, lastRequestId, lastSnapShot>>
vars == <<raftVars, up, kvVars, loop, waitApplyCh, handlers, clerks>>

SameRequest(a, b) == a.client = b.client /\ a.request = b.request
Operation(c, r) == [type |-> Script[c][r].type, key |-> Script[c][r].key,
                    value |-> Script[c][r].value, client |-> c, request |-> r]
Reading == [at |-> "pop"]

Init ==
  /\ RaftInit
  /\ up = Server
  /\ kv = [s \in Server |-> [k \in Key |-> NoValue]]
  /\ lastRequestId = [s \in Server |-> [c \in Client |-> 0]]
  /\ lastSnapShot = [s \in Server |-> 0]
  /\ loop = [s \in Server |-> Reading]
  /\ waitApplyCh = [s \in Server |-> << >>]
  /\ handlers = {}
  /\ clerks = [c \in Client |-> [request |-> 0, server |-> FirstServer, calls |-> 0, state |-> "idle",
                                 err |-> "", value |-> NoValue, seen |-> [d \in Client |-> 0]]]

-----------------------------------------------------------------------------
(* ReadRaftApplyCommandLoop *)

DuplicateMutant(s, op) == op.request < lastRequestId[s][op.client]
DuplicateMutant2(s, op) == op.request = lastRequestId[s][op.client]
Duplicate(s, op) == op.request <= lastRequestId[s][op.client]

PopMessage(s) ==
  /\ s \in up /\ loop[s].at = "pop" /\ applyChan[s] # <<>>
  /\ applyChan' = [applyChan EXCEPT ![s] = Tail(@)]
  /\ UNCHANGED <<logVars, lastApplied, taken, snapVars, handlers, clerks, waitApplyCh>>

\* What follows the execution, if there is one, of the command at index n.
Executed(n) == IF n \in SnapshotAt THEN "snapshot" ELSE "send"

\* A command the snapshot covers ends here; a duplicate is not executed, and a Get
\* in the log executes nothing.
GetCommandFromRaft(s) ==
  LET message == Head(applyChan[s])
      op == message.op
      executes == ~Duplicate(s, op) /\ op.type # "Get"
  IN /\ PopMessage(s) /\ message.type = "command"
     /\ loop' = IF message.index <= lastSnapShot[s] THEN loop
                ELSE [loop EXCEPT ![s] = [at |-> IF executes THEN "execute" ELSE Executed(message.index),
                                          index |-> message.index, op |-> op]]
     /\ UNCHANGED <<up, kvVars>>

\* Put and Append both call insert_set_element.
Execute(s) ==
  LET op == loop[s].op
  IN /\ s \in up /\ loop[s].at = "execute"
     /\ kv' = [kv EXCEPT ![s][op.key] = op.value]
     /\ lastRequestId' = [lastRequestId EXCEPT ![s][op.client] = op.request]
     /\ loop' = [loop EXCEPT ![s].at = Executed(loop[s].index)]
     /\ UNCHANGED <<raftVars, up, lastSnapShot, waitApplyCh, handlers, clerks>>

\* GetSnapShotFromRaft: an empty string installs nothing, and no archive ends at its
\* first word, so that parsing one throws and ends the process.
GetSnapShotFromRaft(s) ==
  LET message == Head(applyChan[s])
  IN /\ PopMessage(s) /\ message.type = "snapshot"
     /\ IF message.data = NoData
        THEN lastSnapShot' = [lastSnapShot EXCEPT ![s] = message.index] /\ UNCHANGED up
        ELSE up' = up \ {s} /\ UNCHANGED lastSnapShot
     /\ UNCHANGED <<kv, lastRequestId, loop>>

\* IfNeedToSendSnapShotCommand: the state is too large (m_maxRaftState).
IfNeedToSendSnapShotCommand(s) ==
  /\ s \in up /\ loop[s].at = "snapshot"
  /\ Snapshot(s, loop[s].index, Archive([kv |-> kv[s], lastRequestId |-> lastRequestId[s]]))
  /\ loop' = [loop EXCEPT ![s].at = "send"]
  /\ UNCHANGED <<up, kvVars, waitApplyCh, handlers, clerks>>

\* SendMessageToWaitChan: nobody waits for the index, or its queue gets the command.
SendMessageToWaitChan(s) ==
  /\ s \in up /\ loop[s].at = "send"
  /\ waitApplyCh' = IF loop[s].index \notin DOMAIN waitApplyCh[s] THEN waitApplyCh
                    ELSE [waitApplyCh EXCEPT ![s][loop[s].index] = Append(@, loop[s].op)]
  /\ loop' = [loop EXCEPT ![s] = Reading]
  /\ UNCHANGED <<raftVars, up, kvVars, handlers, clerks>>

-----------------------------------------------------------------------------
(* The handlers of Get and PutAppend *)

Move(h, moved) == handlers' = (handlers \ {h}) \cup {moved}
Returns(h, err) == Move(h, [h EXCEPT !.at = "erase", !.err = err])

\* The reply goes back if the Clerk still waits for this RPC.
Finish(h, err) ==
  IF h.call = clerks[h.op.client].calls THEN Move(h, [h EXCEPT !.at = "done", !.err = err])
  ELSE handlers' = handlers \ {h}

StartCommand(h) ==
  /\ h.server \in up /\ h.at = "start"
  /\ IF h.server \notin leaders
     THEN Finish(h, "ErrWrongLeader") /\ UNCHANGED raftVars
     ELSE /\ StartIndex(h.server) <= MaxLogIndex
          /\ Start(h.server, h.op)
          /\ Move(h, [h EXCEPT !.at = "create", !.index = StartIndex(h.server)])
  /\ UNCHANGED <<up, kvVars, loop, waitApplyCh, clerks>>

CreateChannel(h) ==
  LET queues == waitApplyCh[h.server]
  IN /\ h.server \in up /\ h.at = "create"
     /\ waitApplyCh' = [waitApplyCh EXCEPT ![h.server] =
                          [n \in DOMAIN queues \cup {h.index} |->
                             IF n \in DOMAIN queues THEN queues[n] ELSE <<>>]]
     /\ Move(h, [h EXCEPT !.at = "wait"])
     /\ UNCHANGED <<raftVars, up, kvVars, loop, clerks>>

\* What was popped may be another command, when a new leader overwrote this one.
PopCommandMutant(h) ==
  LET queue == waitApplyCh[h.server][h.index]
  IN /\ h.server \in up /\ h.at = "wait"
     /\ h.index \in DOMAIN waitApplyCh[h.server] /\ queue # <<>>
     /\ waitApplyCh' = [waitApplyCh EXCEPT ![h.server][h.index] = Tail(@)]
     /\ IF h.op.type = "Get" THEN Move(h, [h EXCEPT !.at = "get"]) ELSE Returns(h, "OK")
     /\ UNCHANGED <<raftVars, up, kvVars, loop, clerks>>
PopCommand(h) ==
  LET queue == waitApplyCh[h.server][h.index]
  IN /\ h.server \in up /\ h.at = "wait"
     /\ h.index \in DOMAIN waitApplyCh[h.server] /\ queue # <<>>
     /\ waitApplyCh' = [waitApplyCh EXCEPT ![h.server][h.index] = Tail(@)]
     /\ IF ~SameRequest(Head(queue), h.op) THEN Returns(h, "ErrWrongLeader")
        ELSE IF h.op.type = "Get" THEN Move(h, [h EXCEPT !.at = "get"])
        ELSE Returns(h, "OK")
     /\ UNCHANGED <<raftVars, up, kvVars, loop, clerks>>

\* CONSENSUS_TIMEOUT has passed; a Get asks Raft whether it leads before it looks at
\* the request id.  The wait may time out although the queue has just been filled.
TimeOut(h) ==
  /\ h.server \in up /\ h.at = "wait"
  /\ Move(h, [h EXCEPT !.at = IF h.op.type # "Get" \/ h.server \in leaders THEN "duplicate" ELSE "erase",
                       !.err = "ErrWrongLeader"])
  /\ UNCHANGED <<raftVars, up, kvVars, loop, waitApplyCh, clerks>>
CheckDuplicateMutant(h) ==
  /\ h.server \in up /\ h.at = "duplicate"
  /\ IF h.op.type = "Get" THEN Move(h, [h EXCEPT !.at = "get"])
     ELSE IF ~Duplicate(h.server, h.op) THEN Returns(h, "ErrWrongLeader")
     ELSE Returns(h, "OK")
  /\ UNCHANGED <<raftVars, up, kvVars, loop, waitApplyCh, clerks>>
CheckDuplicate(h) ==
  /\ h.server \in up /\ h.at = "duplicate"
  /\ IF ~Duplicate(h.server, h.op) THEN Returns(h, "ErrWrongLeader")
     ELSE IF h.op.type = "Get" THEN Move(h, [h EXCEPT !.at = "get"])
     ELSE Returns(h, "OK")
  /\ UNCHANGED <<raftVars, up, kvVars, loop, waitApplyCh, clerks>>

\* ExecuteGetOpOnKVDB reads the value and assigns the request id.
ExecuteGet(h) ==
  LET value == kv[h.server][h.op.key]
  IN /\ h.server \in up /\ h.at = "get"
     /\ lastRequestId' = [lastRequestId EXCEPT ![h.server][h.op.client] = h.op.request]
     /\ Move(h, [h EXCEPT !.at = "erase", !.value = value,
                          !.err = IF value = NoValue THEN "ErrNoKey" ELSE "OK"])
     /\ UNCHANGED <<raftVars, up, kv, lastSnapShot, loop, waitApplyCh, clerks>>

\* The queue of the index is erased and deleted.
EraseChannel(h) ==
  LET queues == waitApplyCh[h.server]
  IN /\ h.server \in up /\ h.at = "erase"
     /\ waitApplyCh' = [waitApplyCh EXCEPT ![h.server] =
                          [n \in DOMAIN queues \ {h.index} |-> queues[n]]]
     /\ Finish(h, h.err)
     /\ UNCHANGED <<raftVars, up, kvVars, loop, clerks>>

-----------------------------------------------------------------------------
(* The Clerks *)

Answered(c) == IF clerks[c].state = "idle" THEN clerks[c].request ELSE clerks[c].request - 1

\* The thread of c's n-th RPC, for request r.
Handler(c, r, n, s) ==
  [op |-> Operation(c, r), call |-> n, server |-> s, at |-> "start", index |-> 0,
   err |-> "", value |-> NoValue]

\* One more RPC, for request r, to server s.
Call(c, r, s) ==
  /\ clerks[c].calls < MaxAttempts[c]
  /\ clerks' = [clerks EXCEPT ![c].request = r, ![c].server = s, ![c].calls = @ + 1,
                              ![c].state = "waiting", ![c].err = "", ![c].value = NoValue,
                              ![c].seen = IF r = clerks[c].request THEN @
                                          ELSE [d \in Client |-> Answered(d)]]
  /\ UNCHANGED <<raftVars, up, kvVars, loop, waitApplyCh>>
Sent(c, r, s) == Handler(c, r, clerks[c].calls + 1, s)

\* A new call: the next request id, to the server that answered last.
NewRequest(c) ==
  LET r == clerks[c].request + 1
      s == clerks[c].server
  IN /\ clerks[c].state = "idle" /\ r \in DOMAIN Script[c]
     /\ Call(c, r, s)
     /\ handlers' = handlers \cup {Sent(c, r, s)}

\* The reply to the current RPC, if its thread has ended.
Awaited(c, h) == h.op.client = c /\ h.call = clerks[c].calls
Replies(c) == {h \in handlers : Awaited(c, h) /\ h.at = "done"}

\* OK or ErrNoKey end the call.
Answer(c) ==
  /\ clerks[c].state = "waiting"
  /\ \E h \in Replies(c) :
       /\ h.err # "ErrWrongLeader"
       /\ clerks' = [clerks EXCEPT ![c].state = "idle", ![c].err = h.err, ![c].value = h.value]
       /\ handlers' = handlers \ {h}
  /\ UNCHANGED <<raftVars, up, kvVars, loop, waitApplyCh>>

\* ErrWrongLeader came back, or the connection failed and the thread, if there is
\* one, goes on: the same request goes to the next server.  A server that is gone
\* may also answer with an empty reply, which sends the request to it again.
Retry(c) ==
  LET r == clerks[c].request
      s == clerks[c].server
  IN /\ clerks[c].state = "waiting"
     /\ \E d \in {NextServer[s]} \cup ({s} \ up) :
          /\ Call(c, r, d)
          /\ handlers' = (handlers \ Replies(c)) \cup {Sent(c, r, d)}

HandlerStep(h) ==
  \/ StartCommand(h) \/ CreateChannel(h) \/ PopCommand(h) \/ TimeOut(h)
  \/ CheckDuplicate(h) \/ ExecuteGet(h) \/ EraseChannel(h)

KvNext ==
  \/ \E s \in Server : GetCommandFromRaft(s) \/ Execute(s) \/ GetSnapShotFromRaft(s)
                       \/ IfNeedToSendSnapShotCommand(s) \/ SendMessageToWaitChan(s)
  \/ \E h \in handlers : HandlerStep(h)
  \/ \E c \in Client : NewRequest(c) \/ Answer(c) \/ Retry(c)

\* Raft's threads stop with the process, the messages to it are lost.
Next ==
  \/ KvNext
  \/ RaftNext /\ UNCHANGED <<up, kvVars, loop, waitApplyCh, handlers, clerks>>
Spec == Init /\ [][Next]_vars
=============================================================================
