# Verification of the Raft key-value store

This directory holds TLA+ models of the key-value store in `src/`: a Raft written in C++
(`raftCore/raft.cpp`), a key-value server on top of it (`raftCore/kvServer.cpp`), its clients
(`raftClerk/`), a skip list that stores the data, an RPC layer over protobuf and muduo (`rpc/`), and
a coroutine library that runs the timers (`fiber/`). TLC checks the models on small instances,
TLAPS proves theorems about the consensus core, the key-value
server, the skip list, the RPC channel, the queues between threads, the start of the processes and the
coroutines for every size. Paths below are relative to `src/src/`; its files are GBK-encoded, and comments are quoted
decoded.

## 1. The system

### Components, their state and operations

| component | state | operations |
|---|---|---|
| Raft core, `raftCore/raft.cpp` | `m_currentTerm`, `m_votedFor`, `m_status`, `m_logs`, snapshot index and term, `m_commitIndex`, `m_lastApplied`, `m_nextIndex`, `m_matchIndex`, all under `m_mtx` except where the code leaves it out; two counters shared by the threads of a round (`votedNum`, `appendNums`) | `doElection`, `RequestVote`, `sendRequestVote`, `doHeartBeat`, `AppendEntries1`, `sendAppendEntries`, `leaderSendSnapShot`, `InstallSnapshot`, `Start`, `Snapshot`, `applierTicker`, `init` |
| KvServer, `raftCore/kvServer.cpp` | the skip list, `m_lastRequestId` per client, `m_lastSnapShotRaftLogIndex`, `waitApplyCh` (a queue per log index) | RPC handlers `Get`, `PutAppend`; the loop that reads `applyChan` |
| Clerk, `raftClerk/clerk.cpp` | `m_requestId`, `m_recentLeaderId` | `Get`, `PutAppend`: retry the same request on the next server |
| Persister, `raftCore/Persister.cpp` | two files and the size of one | `Save`, `SaveRaftState`, `ReadSnapshot`, `ReadRaftState`, the constructor |
| Skip list, `skipList/include/skipList.h` | nodes with forward pointers on up to `_max_level` levels | `insert_element`, `delete_element`, `insert_set_element`, `search_element`, `dump_file`, `load_file` |
| RPC channel, `rpc/mprpcchannel.cpp` | `m_clientFd`, one socket shared by all threads that call the peer | `CallMethod`, `newConnect` |
| RPC provider, `rpc/rpcprovider.cpp` | registered services, muduo's connections | `NotifyService`, `Run`, `OnMessage`, `SendRpcResponse` |
| Messages and stubs, `raftRpcPro/`, `raftCore/raftRpcUtil.cpp`, `raftClerk/raftServerRpcUtil.cpp` | the fields of a message | serialise, parse, merge; one method per operation |
| Start, `example/raftCoreExample/raftKvDB.cpp`, the constructor of `KvServer`, `rpc/mprpcconfig.cpp` | `test.conf`, the list of peers | fork, write and read the file, sleep, `Raft::init` |
| LockQueue, `common/include/util.h` | a queue under a mutex and a condition variable | `Push`, `Pop`, `timeOutPop` |
| Coroutines, `fiber/` | `tasks_`, the two thread counts, `isStopped_`, `timers_`, `tickled_`, the pipe, events and `pendingEventCnt_`, the fibers' `state_` | `scheduler`, `run`, `idle`, `stop`, `addTimer`, `addEvent`, `cancelEvent`, `cancelAll`, `resume`, `yield` |
| Hooks, `fiber/hook.cpp` | `timer_info` of a call in progress | `sleep`, `usleep`, `nanosleep`, `do_io` (read, write, accept, ...), `close` |

### How they interact

A client's `Clerk` calls `Get` or `PutAppend` of a server over its RPC channel. The handler hands the
operation to `Raft::Start`, which appends it to the leader's log, and then waits on a queue of its own
for that log index. Raft servers call each other over channels of their own, in one detached thread
per peer and round; the handlers run in muduo's threads. What is committed goes from
`applierTicker`, or as a snapshot from `InstallSnapshot`, through `applyChan` to the KvServer's loop,
which executes it, may ask Raft to replace the log by a snapshot (`Raft::Snapshot`, saved by the
Persister), and wakes the handler that waits for that index. Two coroutines call `doElection` and
`doHeartBeat`.

### What is hard

* **Interleavings.** `sendRequestVote` reads and writes the shared members without the mutex; its
  threads share an unprotected counter. Replies are handled in threads, in any order, long after
  their arguments were built. The KvServer's handler, its loop and Raft's applier each see another
  moment. Threads share one socket per peer. A worker of the scheduler may fall asleep while a task is
  being queued for it.
* **Lost, delayed and reordered messages.** Any thread may be delayed for ever; an old
  `AppendEntries` may arrive after a snapshot has replaced the entries it speaks of.
* **Assertions that end the process.** `myAssert` calls `exit`.
* **Snapshots.** Log indexes and vector subscripts differ by the snapshot's index.
* **Partial failure.** A peer may crash at any point of a call; TCP tells the caller late, and in
  several ways. An end of stream looks like a reply.
* **Order by sleeping.** Nothing but `sleep` keeps a node from calling one that has not started.
* **Retries and timeouts.** The timer of a read races its event. A Clerk repeats a request whose answer it missed while the first attempt is
  still being served.

### What makes each component correct

* Raft: one vote and one leader per term, logs that agree where they overlap, committed entries on a
  majority and never lost, indexes that never cross or move backwards, no assertion that fails.
* KvServer and Clerk: a command is executed once (it is not, see ExecutedOnce), an acknowledged write is in the log, a read sees the
  writes acknowledged before it, servers that executed the same commands hold the same data, a
  handler's queue is its own.
* Persister: what was saved is read back, also after a restart.
* Skip list: it is a map; each level is a sorted sub-list of the one below, no pointer leads to a freed node.
* RPC channel: a caller gets its own reply or an error, a request is executed at most once, a call
  returns, a reconnect leaves no socket behind.
* Messages: a handler runs with the request that was sent, or not at all; a reply is one only when all of
  it has come.
* Start: a node that calls others knows all of them, and they are ready for the call.
* LockQueue: a consumer does not sleep while an item is left for it, and returns when it should.
* Coroutines: each fiber that waits is queued once when what it waits for comes, and runs again; `stop`
  returns, and nothing is left when it does.

## 2. The modules

| module | models | used by |
|---|---|---|
| `RaftLog` | the pure functions of `raft.cpp` on a log cut by a snapshot | `Raft`, `RaftLogLoops` |
| `Raft` | `raft.cpp`: one action per handler, per branch where a handler has several outcomes | `RaftProperties` |
| `RaftProperties` | what Raft promises, the inductive invariant, what comments say | `MCRaft`, `RaftProofs` |
| `RaftProofs` | the theorems about types, indexes, assertions and monotony of `Raft` | `RaftRoundProofs` |
| `RaftRoundProofs` | the theorems about the replies of a round: the votes behind a leader, `m_matchIndex` and commits; and about the logs under one candidate | |
| `Persister` | `Persister.cpp` as functions on two files and a size | `RaftService`, `MCPersister` |
| `RaftService` | the Raft that the KvServer is written against | `KvServer` |
| `KvServer` | `kvServer.cpp` and `clerk.cpp` | `KvProperties` |
| `KvProperties` | what clients are promised, what comments say | `MCKvServer`, `KvProofs` |
| `KvProofs` | the theorems about the queues of `KvServer` and acknowledged writes | `KvStateProofs` |
| `KvStateProofs` | the theorems about the data of `KvServer`, the log and what is read | |
| `KvMap` | the map that the KvServer keeps, as an abstract specification | `SkipList` |
| `SkipList` | `skipList.h`: nodes and their forward pointers | `SkipListProofs`, `MCFoundations` |
| `RaftLogLoops` | the loops of `AppendEntries1`, to compare `RaftLog` with | `FoundationsProofs`, `MCFoundations` |
| `LockQueue` | `LockQueue` of `util.h` | `FoundationsProofs`, `MCFoundations` |
| `RpcChannel` | `mprpcchannel.cpp`, and `OnMessage` and `SendRpcResponse` of `rpcprovider.cpp` | `FoundationsProofs`, `MCFoundations`, run `RpcShared` |
| `RpcMessages` | `raftRPC.pb.cc`, `kvServerRPC.pb.cc`, `rpcheader.pb.cc` and their headers, the stubs, the frame of `CallMethod`, the parsing and dispatch of `OnMessage` | `RpcMessagesProofs`, `MCFoundations` |
| `StartUp` | `raftKvDB.cpp`, the start in `kvServer.cpp`, `rpcprovider.cpp` and `mprpcconfig.cpp` | `FoundationsProofs`, `MCFoundations` |
| `IOManager` | `scheduler.cpp`, `iomanager.cpp`, `timer.cpp`, `fiber.cpp`, and sleep, read and close of `hook.cpp` | `IOManagerProofs`, `MCFoundations`, run `FiberTwoWorkers` |
| `FoundationsProofs` | the theorems about `RaftLogLoops`, `LockQueue`, `RpcChannel` and `StartUp` | |
| `SkipListProofs` | the theorems about `SkipList` | |
| `RpcMessagesProofs` | the theorems about `RpcMessages` | |
| `IOManagerProofs` | the theorems about `IOManager` | |
| `MCFoundations`, `MCRaft`, `MCPersister`, `MCKvServer` | instances for TLC | the runs |

Operators named `...Mutant` are plausible bugs in the definition that follows them. No specification
uses them; they are there to show that each property notices such a bug.

### Raft

Each variable is a member of `Raft` (`m_` dropped, `logs` is `m_logs`, `snapIndex` and `snapTerm` are
`m_lastSnapshotInclude...`) or a set of threads: `rv`, `ae` and `is` hold the threads of
`sendRequestVote`, `sendAppendEntries` and `leaderSendSnapShot` with their arguments, their label `pc`
and the reply they got. A message that is lost is a thread that never moves again, a late one is a
thread that moves late; two threads move in any order. `failed[i]` holds the names of the assertions
that ended process `i`; an ended process takes no further step.

A handler that holds `m_mtx` from its first access to its last is one step. `sendRequestVote` does not
hold it (the lock at line 520 is commented out), so it is eight: the comparisons of the terms, the
assignments of stepping down, the load and the store of `*votedNum`, the test, the reset of the
counter with its assertion, the assignment of `m_status`, the reset of the peers' indexes. Within these
steps the following was merged: the two comparisons of line 521 and 527 read `m_currentTerm` once; the
three stores of 522-524 are one step, and so is the loop of 547-551. The heartbeat thread that a new
leader starts is a `DoHeartBeat` step. The two timers only decide when `doElection` and `doHeartBeat` are
called, which the model leaves open. `Start`, `Snapshot` and `ApplierTicker` are what the KvServer and the
applier do.

`AppendEntries1` has one disjunct per outcome. The two loops in it, which merge a suffix and look back
for the first index of a term, are set-theoretic definitions in `RaftLog`; `RaftLogLoops` has the loops, and
theorems `MergeIsLoopHolds` and `HintIsLoopHolds` say that they compute the same.

### RaftService and KvServer

`KvServer` cannot be checked over `Raft` directly: the product is too large, and `raft.cpp` breaks its
promises (two leaders of one term, run `RaftOneVote`), so that every property of the KvServer would fail
for one reason. `RaftService` is the Raft its author had in mind: committed entries agree, a new leader
holds them all, a deposed leader goes on accepting commands until it hears of its successor. What is
taken over from `raft.cpp` is everything the KvServer can see: `Start` appends and returns the index
before anything is committed; logs never get shorter (theorem `Monotonic`), entries are overwritten in
place; `applierTicker` takes entries under the mutex and pushes them after it; `InstallSnapshot` pushes
the snapshot under the mutex and once more from a detached thread; snapshots come from the Persister, as
it returns them; `Snapshot` cuts the log. `index > m_commitIndex` in `Raft::Snapshot` is left out: the
KvServer asks for an index it was given (`IndexChain`).

`KvServer` keeps of each server the loop (`loop[s]`: reading, about to execute, about to take a snapshot,
about to wake), the data, `m_lastRequestId`, the queues, and one record per RPC thread in `handlers` with
its label. A step is one hold of a lock: `ifRequestDuplicate` and the execution are two steps, so are
`Start` and the creation of the queue, the pop and the execution of a Get, and the erasure of the queue.
Merged are `MakeSnapShot` and `Raft::Snapshot` (the data in an archive is never read back, see below) and
the wait that times out with the question to `GetState`. A timeout may come at any moment, also when the
queue has just been filled.

A Clerk whose connection breaks sends the request to the next server while its first thread goes on
(`call` numbers the RPCs: only the reply of the newest counts). `SnapshotAt` says at which indexes the
Raft state is found too large: its size is not modelled. An archive is its first word and the rest,
because `ifs >> snapshot` (`Persister.cpp:34`) reads one word: what `ReadSnapshot` returns is either
nothing or a word that no archive ends with, and `parseFromString` throws on it, which ends the process
(`up`). No snapshot that is pushed ever installs data, then, and `NeverOlder` says little yet about one that
is pushed twice.

### SkipList and KvMap

`SkipList` keeps the members and the nodes of one list in the record `list`: `forward[n][i]` is the
pointer of node `n` on level `i`, a node is named by its key. `Before` is the inner loop of the descent
that insert, delete and search share, `Update` the array it leaves; both are recursive functions along
the pointers, so a wrong pointer has its consequences. KvServer calls the list under its own mutex, also
`search_element` and `insert_set_element`, which take no lock or two: a call is one step. `call` is the
last call with its answer; `KvMap` has the same calls on a map, and `IsMap` says that each call does to
the contents of level 0, and answers, what `KvMap` says. `KvServer` uses that map. `load_file` inserts a
dump's keys with themselves as values (`skipList.h:246`): `KvMap!Load` leaves the values of new keys open,
and promises that it adds no other key and changes no value. In the program as it is, no snapshot that
holds data is ever read back (run `KvSnapshot`), so `load_file` is not reached with a dump.

### LockQueue

The lock is held from the first line of a call to its last, except inside the wait. So `Push` is one
step, `Pop` and `timeOutPop` are one step up to their wait (`Call`) and one after each wake-up (`Wake`),
and a thread that was woken may be overtaken by any other before it has the lock again. Wake-ups may be
spurious. `TimeOut` is also enabled for a thread that was notified: `wait_until` compares the clock
after it has the lock back, so `timeOutPop` may return false with an item in the queue. Of the contents
only the number counts here; `RaftService` and `KvServer` keep `applyChan` and the queues of
`waitApplyCh` as sequences.

### RpcChannel

`conns[k]` is the k-th socket: its requests and replies are sequences of pieces, because the code takes
what one system call returns for one message. `clientFd` is `m_clientFd`, read anew by every step that
the code reads it in. A step is a system call of `CallMethod` with what follows it: `StartCall` (the test
of `m_clientFd`), `NewConnect`, `Send` (the body of the loop at 82, whose failure closes and reconnects),
`Recv` (the start of the `recv`, from which on the thread is bound to that socket), and its three ends:
`TakeReply`, `EndOfStream` (0, which is not tested and parses as an empty reply) and `Broken` (-1).
`OnMessage` takes any number of pieces that have arrived and executes the first request if it is
complete; the rest is gone. `Crash` does what a kernel does with the sockets of a process that ended: a
reset where requests were unread, an end of stream elsewhere; a send to an ended stream works once and
is answered by a reset (`ResetArrives`). A service is one step from request to reply and two at the
provider (`OnMessage`, `SendRpcResponse`), between which it may crash.

### RpcMessages

`RpcChannel` is about when bytes arrive, `RpcMessages` about what is read from them. A message is a record
with the fields that its class has accessors for; `...Fields` is the layout that the generated `Clear`,
`_InternalParse`, `_InternalSerialize` and `MergeFrom` of a class repeat, and `InternalSerialize`,
`InternalParse` and `MergeFrom` are these functions for any layout. `Serialize` and `Parse` add what is done to
the entries of a message, each of which is a message of its own. A stream is a sequence of pieces, one per field that is
set: its number and its value in one of the forms of the wire format, `whole` unless it is cut. That is
where the hazards are: a field with its default value is not written, a field that comes twice counts the
second time, a piece of another class with the same number and form is taken for the own one. `Frame` is
what `CallMethod` puts together, `Dispatch` what `OnMessage` makes of a buffer: a set of at most one
handler with its request. `CutShort` takes away the end of what was sent, anywhere. One request is sent, or
up to `MaxReplies` replies of one service that arrive together. Lengths count pieces, not bytes: a piece of
which a byte is missing counts as there and fails to parse.

### StartUp

`main[i]` and `rpc[i]` are where the two threads of node `i` are, `due` when they go on; `parent` is the
process that forks the nodes. `Tick` moves the clock to the next moment something is due, but nothing that
waits is overtaken by more than `Lag`: that a thread runs within `Lag` of its time is the assumption that the
code's sleeps make. Election timers may run longer than `MinElection`. `file` is the set of lines of
`test.conf`, `Addresses` the loop that reads it, up to the first node without an address.

### IOManager

`workers[w].at` is where a worker is in `run` and `idle`: `Take`, `TakeNothing` and `GoIdle` are one pass
of `run`; `CheckTimers`, `CheckEvents` and `CheckQueue` are `stopping()` in the order it reads its
conditions; `EpollWait`, `ListExpired` and `Trigger` are the rest of `idle`. A task runs in steps that
touch the shared state: `BeginRead`, `TryRead`, `AddEvent`, `Yield` and `AfterWait` are `do_io`; `Sleep` and
`Yield` are `usleep`; `Close` is `close` with `cancelAll`; `RunWake` and `RunTimeout` are the callbacks of
the timers. Merged are the erasure of a task and the `tickle` after it, the queueing of several expired
callbacks or events (any order), and `cancelEvent` with the `scheduler` call inside it. Time is only the
order in which timers come due: `due` holds those whose time has come; whether a new timer becomes the
first one is open unless it is alone. Edge-triggered readiness is `events \cap data`. A fiber does one
operation, one in `Busy` up to `MaxOps`: a sleep, a read with or without timeout, or the close of
another's socket.

### MCFoundations

The parts that the upper modules take for granted do not interact with one another: `part` chooses
which of them moves, so that one run checks them all without a product of their states. It extends
`LockQueue` as `applyChan`, `RpcChannel`, `RpcMessages`, `StartUp`, `IOManager`, `SkipList` and
`RaftLogLoops`, and instantiates `LockQueue` once more, as a queue of `waitApplyCh`.

## 3. The runs

Passing runs end with "no error"; each of their properties also fails in the run when the mutant listed
for it in `PROJECT.json` replaces the definition.

| run | instance | shows |
|---|---|---|
| `Foundations` | logs and suffixes of up to 3 entries, 2 terms, 2 commands, snapshot at 0 or 1; lists of up to 3 keys, 3 values, heights 1 and 2; queues of up to 3 items with 2 consumers in `Pop`, 1 in `timeOutPop`; 1 thread with 4 calls, 2 crashes of its peer; 1 worker, 2 fibers with 2 and 1 operations; one request of each operation with up to 2 entries, or up to 2 replies, with byte fields empty or not and numbers 0 or 1; 3 nodes, units of 50 ms, a lag of one | `MergeIsLoop`, `HintIsLoop`: `MergeSuffix`, `CommandsDiffer` and `IsConflictHint` are what the loops compute; `LevelsChained`: each level is a sorted chain within the one below, no pointer dangles; `IsMap`: the list refines `KvMap`; `NoLostWakeup`, `PopEnds`, `TimedPopEnds`; `OwnReply`, `ReplyComes`, `ServedOnce`, `OneSocket`, `CallReturns`; `OneWait`, `NothingLeft`, `RunsAgain`, `StopReturns`; `NothingHalfRead`: a handler gets the request that was sent, never a part of it; `ReadsAsMerged`: replies that arrive together are read as merged; `OnlyRepliesCount`: what does not hold a whole AppendEntries reply is `Disconnected`; `ListsComplete`, `NotCalledEarly`: the sleeps keep the order of the start |
| `RaftLeaders` | 3 servers; s1 elected, 2 rounds, 2 entries, a snapshot at 1; or s1 then s2, 1 round each | while one node alone has stood for election, however often, every log agrees with its (`FollowsLeader`); a leader has a majority behind it (`LeaderBacked`); `MatchIndexSound`; a commit rests on a majority (`CommitOnMajority`), also while replies to a deposed leader arrive |
| `RaftTwoLeaders` | 2 servers, 1 election each, 2 and 1 rounds, 2 entries of 2 commands, a snapshot at 1 | `TypeOK`, `IndexChain`, the inductive invariant `IInv`, `AssertionsHold`, `MatchIndexSound`, `NeverBackwards` |
| `KvWrites` | 2 servers, 2 clients, a stuck first call, one retry, 3 leaders, 3 entries | `AckedWritten`, `StateIsLog`, `ChannelOwned` |
| `KvReads` | 2 servers; a writer and a reader that retries, 2 leaders, 2 entries; or a stuck first call and a second Put, a snapshot at 3, 1 leader | `FreshRead`, `NeverOlder` |
| `RaftOneVote` | 2 servers, 1 election each | violated: a vote is given twice in a term |
| `RaftMatchLog` | as `RaftTwoLeaders`, 1 entry | violated: a late AppendEntries ends a process whose snapshot is past its prev |
| `PersisterRestart` | 1 node, 2 terms | violated: the constructor empties the files before they are read |
| `KvExecutedTwice` | a stuck Get, a Put, 2 servers, 4 entries | violated: a Get's thread sets the request id back, a Put is executed twice |
| `KvSnapshot` | 1 Put, a snapshot at 1 | violated: the second snapshot sent is empty and the commands it should hold are skipped |
| `RpcShared` | 2 threads, 1 call each, a channel that is not connected, no crash | violated: both connect, and one waits on the socket that its request did not go to |
| `FiberTwoWorkers` | 2 workers, 1 fiber, 1 operation | violated: a fiber is queued by its timer before it has yielded |

**Bounds.** Every bound is a constant: elections and rounds per server, the last index `Start` may
create, RPCs per client, changes of leader. Three servers are the least with a majority that is not
everyone; one election and one or two rounds of each server are enough for replies of an earlier round, of
a deposed leader and of the same round to meet; with two entries and a snapshot at the first, the last
index, the snapshot's and the index between differ. In the KvServer runs two servers suffice because
commitment is a step of `RaftService`, and one key because the properties speak of one key at a time.
Three keys let a level have a first, an inner and a last node, and heights 1 and 2 let the top level fall, vanish and rise
by two at once (`get_random_level` never returns 0). Four calls let one meet the reset of the connection
that an earlier one met the end of, and a crash before, in and after a call; two crashes reset a
connection that replaced another. One caller is what a Clerk has per channel; Raft has more, which is
`RpcShared`. `RequestPieces` and `ReplyPieces` are 1 in the runs: each request arrives whole and each
reply fits the buffer of 1024 bytes. With two pieces `ReplyComes` (a request that arrives in two reads
is dropped) and `OwnReply` (the second half of a reply is the next call's) are violated in the model. One
worker is `FIBER_THREAD_NUM` (`config.h:18`); two fibers with two and one operations let a sleep, a read and
its timeout, and a close meet in one wait.

Two values of each kind tell a field that is set from one that is not, which is all the wire format
distinguishes; two entries and two replies make something come a second time. An entry's term and index are
never 0, as the first are 1 (`raft.cpp`). At the start, five delays of 50 ms may add up between two of three nodes, and
the shortest election timer is 300 ms (`config.h`): with more nodes or a longer lag `NotCalledEarly` fails,
as it would in the program, and with seven nodes `ListsComplete` does, because node 0 wakes up after 6 s.
With `Lag` scaled down (25 ms) both hold for up to six nodes.

**Scopes and initial states.** `LeadersScope` and `ReadsScope` are state constraints that cut one instance
down to the two scenarios in the table: the budgets of both at once would not finish. `LateSpec`, and
one of the two in `KvReads`, starts where a client's first call is still stuck at s1 after a later try was
served there, to spend the bounds on what comes after; that this is reachable was confirmed by checking
its negation as an invariant of `Spec`. The client is then out of the budget that got it there; its
later calls start from it. `UnconnectedSpec` leaves out the connection that a
constructor may have made: Raft connects its channels as it builds them (`raftRpcUtil.cpp:39`), and one
is unconnected if the peer did not listen during the four attempts and came up afterwards.

**Symmetry.** `RaftTwoLeaders` uses the symmetry of the two commands, which no definition names. Servers
and clients are told apart by the bounds, so their symmetry is not used.

**Deadlock.** `CHECK_DEADLOCK FALSE` stands where processes may have ended by an assertion
(`RaftTwoLeaders`, `RaftMatchLog`, ...), where all clients have made their calls and the budget is spent
(the `Kv...` runs, `RpcShared`), or where inputs are used up, queues are full or workers have exited
(`Foundations`, `FiberTwoWorkers`).

**Fairness.** The Raft and KvServer runs assume none: any thread may stop for ever, which is also how lost
messages and crashed peers are modelled. `Foundations` assumes weak fairness of

* a thread in a queue's call: it gets the lock again after a wake-up (`Wake`), and its deadline passes
  (`TimeOut`). Nobody has to push.
* each step of a call on the RPC channel (`CallerStep`), as threads run, and the provider's work while it
  is up. Nobody has to call, crash or restart; `CallReturns` holds although a crashed provider may stay
  away.
* each worker of the pool (`WorkerStep`) and the clock (`Elapse`). Data need not arrive, nobody has to
  schedule or to call `stop`. Since a fiber has at most `MaxOps` operations, its function ends; the
  program's two tickers loop for ever, so in it `stop` would not return.

### What the violations say

* `RaftOneVote`: `RequestVote` (`raft.cpp:909`) assigns `m_votedFor` without testing it. Two leaders of one
  term may follow, and entries of one index and term with different commands; the assertion of
  `raft.cpp:63-71` then ends a process.
* `RaftMatchLog`: the branch at `raft.cpp:48-52` lacks its `return`.
* `PersisterRestart`: `Persister.cpp:79` and `85` truncate the files that `Raft::init` reads next.
* `KvExecutedTwice`: `ExecuteGetOpOnKVDB` (`kvServer.cpp:36`) assigns the request id although it may be
  older than the one there.
* `KvSnapshot`: `ReadSnapshot` empties its file (`Persister.cpp:27`), and `kvServer.cpp:191` takes over the
  index of an empty snapshot.
* `RpcShared`: `CallMethod` tests, assigns and uses `m_clientFd` with no lock (`mprpcchannel.cpp:24-107`), and
  `raft.cpp` calls it from one thread per round and peer. In the trace both threads find -1; c1 connects and
  sends its request on socket 1, then c2's `newConnect` replaces the descriptor by socket 2, and c1 waits
  there. Socket 1 is never closed. Threads that share a connection from the start may lose a reply as well,
  in a longer trace: two requests that are taken in one buffer (`rpcprovider.cpp:122`), or two replies in
  one `recv`.
* `FiberTwoWorkers`: `usleep` calls `addTimer` before `yield` (`hook.cpp:177-179`). The program's own pool has
  one worker, where `OneWait` and the assertion hold; the library offers more.

Other assertions of `raft.cpp` fail in the model as well and are left out of `AssertionsHold`: line 312
(a heartbeat sees a new leader before `m_nextIndex` is reset), 530 (the term moves between comparison and
assertion) and 540 (two threads see the majority). An `Append` executes as a `Put` (`kvServer.cpp:22`).

## 4. The proofs

| module | theorem | statement |
|---|---|---|
| `RaftProofs` | `Invariance` | `Spec => []IInv` |
| `RaftProofs` | `TypeCorrect` | `Spec => []TypeOK` |
| `RaftProofs` | `IndexSafety` | `Spec => []IndexChain` |
| `RaftProofs` | `AssertionSafety` | `Spec => []AssertionsHold` |
| `RaftProofs` | `Monotonic` | `Spec => NeverBackwards` |
| `RaftRoundProofs` | `LeaderBackedHolds` | `Spec => []LeaderBacked` |
| `RaftRoundProofs` | `MatchIndexSafety` | `Spec => []MatchIndexSound` |
| `RaftRoundProofs` | `CommitSafety` | `Spec => []CommitOnMajority` |
| `RaftRoundProofs` | `OneCandidateLog` | `Spec => []FollowsLeader` |
| `KvProofs` | `QueueOwned` | `Spec => []ChannelOwned` |
| `KvProofs` | `AcknowledgedIsCommitted` | `Spec => []AckedWritten` |
| `KvStateProofs` | `StateOfTheLog` | `SnapshotAt = {}`, `WritesFirst` prove `Spec => []StateIsLog` |
| `KvStateProofs` | `ReadsAreFresh` | `SnapshotAt = {}`, `WritesFirst` prove `Spec => []FreshRead` |
| `KvStateProofs` | `DataGoesForward` | `SnapshotAt = {}`, `WritesFirst`, `TellApart` prove `Spec => NeverOlder` |
| `FoundationsProofs` | `MergeIsLoopHolds` | `InputsSpec => []MergeIsLoop` |
| `FoundationsProofs` | `HintIsLoopHolds` | `InputsSpec => []HintIsLoop` |
| `SkipListProofs` | `LevelsChainedHolds` | `ListSpec => []LevelsChained` |
| `SkipListProofs` | `ListIsMap` | `ListSpec => IsMap` |
| `FoundationsProofs` | `WakeupSafety` | `OneKind => (Spec => []NoLostWakeup)` |
| `FoundationsProofs` | `OwnReplyHolds` | `OneThread => (RpcSpec => []OwnReply)` |
| `FoundationsProofs` | `ReplyComesHolds` | `OneThread => (RpcSpec => []ReplyComes)` |
| `FoundationsProofs` | `ServedOnceHolds` | `OneThread => (RpcSpec => []ServedOnce)` |
| `FoundationsProofs` | `OneSocketHolds` | `OneThread => (RpcSpec => []OneSocket)` |
| `FoundationsProofs` | `ListsCompleteHolds` | `Clocked`, `EnoughSleep` prove `StartSpec => []ListsComplete` |
| `FoundationsProofs` | `NotCalledEarlyHolds` | `Clocked`, `EnoughSleep`, `EnoughElection` prove `StartSpec => []NotCalledEarly` |
| `IOManagerProofs` | `OneWaitHolds` | `OneWorker` proves `PoolSpec => []OneWait` |
| `IOManagerProofs` | `NothingLeftHolds` | `OneWorker` proves `PoolSpec => []NothingLeft` |
| `RpcMessagesProofs` | `NothingHalfReadHolds` | `WireSpec => []NothingHalfRead` |
| `RpcMessagesProofs` | `ReadsAsMergedHolds` | `WireSpec => []ReadsAsMerged` |
| `RpcMessagesProofs` | `OnlyRepliesCountHolds` | `WireSpec => []OnlyRepliesCount` |

The theorems about `Raft` hold for every finite set of servers, every set of commands and all bounds.
Their assumptions are those of module `Raft`: `Server` is finite and does not contain `NoVote`, and the
bounds have their types. Those about `KvServer` hold for every set of servers, of clients and of keys,
every script of the clients, and all bounds: `ScriptAssumption` says that what a script
names is a key, `ServersAssumption` that a Clerk's first and next server are servers, `ServerAssumption`
that `NoServer` is none.

**Raft: indexes and assertions.** `IndexChain` and `AssertionsHold` are not inductive. That an accepted `AppendEntries`
leaves the log long enough for its commit index needs to know what the message carries; that a counted
reply does not move `m_nextIndex` or `m_commitIndex` past the sender's log (the assertions at lines 183
and 203) needs to know that what was sent is still in the sender's log, which holds because logs never
get shorter: `RejectGap` and the conflict path only overwrite. `IInv` therefore adds

* `CountersExist`: the counter a thread shares exists;
* `AppendsInLog`: what a message carries is numbered from its prev and within its sender's log, and a hint
  is at most prev;
* `SnapshotsTaken`: the index of a snapshot in flight is one its sender has;
* `PeersInLog`: `m_nextIndex` and `m_matchIndex` are within the log, for every node, leader or not.

One lemma per action shows that it preserves `IInv` (`...Inv`), with lemmas on the types for the vote
threads (`...Type`), on the operators of `RaftLog` (`MergeNumbered`, `DropNumbered`, `LastOfNumbered`) and
on what a handler of its kind leaves alone (`AppendMoved`, `SnapshotMoved`, `ThreadMoved`, `LogGrows`).
`StepInv` puts them together along the disjuncts of `Next`; the theorems follow with PTL. `Monotonic`
takes its facts about each action from the same lemmas, and so do the proofs below, which know from it
that no index moves backwards in a step.

**Raft: votes.** A leader is made three unlocked steps after the counter was tested, and the counter itself
is loaded and stored with other threads in between. `ElectionInv` bounds it: `Counted` are the peers whose
threads have stored a vote in an election; the counter (`CounterSound`) and what a thread
has loaded and will store plus one (`SeenSound`) are at most their number plus the node's own vote, because
an increment may be lost in between but none is invented; there is one thread per peer and election
(`OneThreadEach`), so a store always adds a peer. A thread past the test (`WinnersBacked`) and a leader
(`LeadersBacked`) then have a majority. `*votedNum = 0` makes the counter fall, which the bound allows.
`LeaderBacked` speaks of one election of the leader's; which term the votes were given in is not part of
it, and cannot be (run `RaftOneVote`).

**Raft: replication.** A reply speaks of its receiver's log at another time than the one it is read at.
`ReplicaInv` says what stays true: a success means that the receiver's log reaches the last index sent
(`AnswersHeld`), an answer to a snapshot that it reaches the snapshot (`SnapshotsHeld`), and so does
`m_matchIndex` (`MatchHeld`); as logs never get shorter, no later step can undo it. For the commit it counts:
all threads of a round send the log up to one index (`SentTogether`), the counter of a round is at most
the number of peers that answered, plus one (`AppendNumsSound`), and an index that any node, message or
snapshot names as committed is within the log of a majority (`CommitsHeld`).

**Raft: the logs.** Conflicting entries are overwritten in place and nothing behind them is cut, so logs
agree only as far as one node's log is the source of all. `FollowInv` says so for a node `i` that alone
has stood for election (`Candidates` is a subset of `{i}`): every `AppendEntries` and snapshot in flight
is its own, what it carries is in its log (`SentFrom`), and every other log is a part of that
log (`Agrees`), where neither was cut by a snapshot. The induction needs the two invariants before it: that an accepted
suffix starts within the receiver's log (`ReplicaInv`), and that only a node with an election leads and
takes commands (`ElectionInv`). Two candidates break it, which is what `RaftOneVote` leads to.

**KvServer: queues and acknowledged writes.** A queue of `waitApplyCh` is made by a handler after
`Start` returned its index and the lock was given up, filled by the loop, popped and erased by the handler.
`KvInv` has `IndexesInv`: the indexes that the handlers of a server wait at are in its log, no two
the same, since each got its own from `Start` and logs never get shorter; `ChannelOwned` follows. For
`AckedWritten` the path from the log to the reply has to be followed: what Raft has taken and what is in
`applyChan` is committed (`RaftInv`), what the loop executes and what it puts into a queue too (`LoopInv`), so a
handler that finds its own request in its queue answers what is committed, and one that times
out and finds a duplicate does as well, because `lastRequestId` never exceeds what was committed
for that client (`RepliesInv`). The latter says of every request *up to* the id that it was committed, or is a Get: ids
of one client reach Raft in order, as a Clerk has one request under way (`ClerksInv`, `ThreadsInv`).
That a queue is shared or out of order does not matter to it: a wrong command in it is answered with
`ErrWrongLeader`.

**KvServer: the data.** `StateIsLog` says that a server's data is what the commands it was given leave, each
executed once. `StateInv` adds that the commands on their way to the loop are those behind the ones it was
given, none missing and none twice (`Counted`), that a client's request is committed only behind its
earlier writes (`Ordered`), that `lastRequestId` is at or past every write given and at or past no write that
was not (`Highest`), and that a key's value is that of the last first-time write to it (`Stored`), which is
`StateIsLog` without its CHOOSE. A handler that executes a Get assigns the request id, from another thread
than the loop's; that this does no harm needs to know that the server was given the client's writes
before the Get (`GetsCovered`), because what comes out of a queue was given before (`Passed`).

Two hypotheses are made, and both are needed: without `SnapshotAt = {}` a server may be given the empty
snapshot of run `KvSnapshot`, and without `WritesFirst` (no client writes after it has read) a
thread of an old Get sets the request id back and a Put is executed twice (run `KvExecutedTwice`). Run
`KvWrites` satisfies both, and so does the first half of `KvReads`, whose logs end before the snapshot at 3.

**KvServer: reads.** `FreshRead` compares what a Clerk is told with what was answered to anyone when its
call began (`seen`). That was committed by then, so the command of the call is behind it, and whichever
server was given that command, or holds the call's id in `lastRequestId`, was given all of it as well
(`CommandsInv`). A handler of the call reads only on such a server, whether its queue was filled or
its wait timed out, and what it read, and the Clerk's answer, stay the data after so many commands
(`ReadsInv`). Late handlers of the client's earlier calls do not count (`Current`): their answer goes to
nobody. With it `CommandsInv` and `ReadsInv` are inductive together; they are proved one Clerk at a time, which keeps its
call in the step (`Same`) or makes the next one (`Newer`).

`NeverOlder` follows from `StateInv`: data changes only by a write that is committed for the first time, and
what was there before is of an earlier one. As it speaks of values, it needs that a value tells which request wrote it
(`TellApart`), which is so in `KvReads`.

**RaftLog.** The operators that `Raft` takes for the two loops of `AppendEntries1` are proved to be what
the loops compute, for logs, snapshots and suffixes of any length and any terms and commands, as long as
entries are numbered in order (`LoopInv`; in `Raft` that is part of `IInv`). `MergeTurn` says what one
turn does to the log with the first entries merged in, `LoopSolved` that the states before and after the
first entry that fails the assertion solve the equation of the loop; `HintTurn` and `HintUnique` do the
same for the loop down the log, which finds the only index there is.

**SkipList.** `KeyAssumption` says that there are finitely many keys, which are numbers, and that the header
and the null pointer are not among them. `ListInv` has three parts: every node has a height (`HasNodes`),
every pointer leads to the next larger node that has its level, or to null (`Linked`), and the level, the count
and the values are those of the nodes (`Counted`). Under it the descent leaves each level at the last node
below the key (`BeforeIs`, `UpdateIs`), so what insert and delete write is again `Linked`
(`InsertedGood`, `DeletedGood`, where all levels of the node are unlinked: `UnlinkedIs`), and so
is what a load leaves (`LoadedGood`). `LevelsChained` follows since the chain along a level meets all its nodes
(`ChainIs`). For the refinement each call is compared with that of `KvMap` on the contents of level 0
(`CallMaps`).

A recursive function over numbers or along pointers is reasoned about by its equation: a solution exists
(given, or put together up to the first place where it would not), and what holds of it is shown at the
least, or the largest, place where it could fail.

**LockQueue.** `OneKind` says that any finite number of threads use `Pop`, or a single one `timeOutPop`,
as in the program. It is needed: a timed consumer that gives up as it is notified would leave another
one waiting next to an item. With `TypeOK`, `NoLostWakeup` is inductive: a push adds one item and, if a
thread waits, one woken thread (`PushWakes`); a thread that takes an item or goes to wait was either not
woken or takes one of both away (`TakeWakes`). `OneMoreWoken` counts the woken set with the library's facts
on cardinality.

**RpcChannel.** `OneThread` says that one thread has the channel to itself, as a Clerk's has, and that
requests and replies travel in one piece; both are needed (run `RpcShared`, and the bounds above). None of
the four properties is inductive: that a reply is this call's rests on what is under way on the socket.
`RpcInv` says so. Only the socket of `m_clientFd` is open and only there is anything under way
(`OthersQuiet`); between calls nothing is (`Before`); from the send to the return it is this call's
request, its execution or its reply, and only one of them, unless the other end has closed (`After`); and
a call whose request is not sent or not yet taken off the stream was not executed (`NotYetServed`). One
lemma per action (`...Keeps`) shows that it is preserved, `RpcStepInv` puts them together.

**RpcMessages.** The theorems hold for any values of the fields and any number of entries and of replies, with
no hypothesis. `WireInv` says what can be in the buffer: all that was written, or a beginning of it whose last piece
may lack its end (`Arrived`); a request is alone and the size of its header is there, replies are of one
service. It is kept by a call (`CallArrives`), a reply behind others (`ReplyArrives`) and a cut (`CutArrives`). The rest is
about the operators. `RoundTrip` is the induction over the fields of a class: whatever its layout, what
`InternalSerialize` writes are pieces of its fields, and `InternalParse` reads the same message from it, where
two fields never share a number and what is not written is what `Clear` leaves. `MessagesHold` says that
every message has the fields of its class, entries in their turn (`EntryBack`), so that it comes
back whole (`MessageBack`). For a request, the header is taken off first: a header that is all there names the
method and how many pieces follow (`HeaderIs`), of one that is cut no method is found, or the last
field, `args_size`, is missing and reads as 0, so that the arguments are taken to be none
(`HeaderPart`, `EmptyRequest`); `ReadString` then notices arguments that are short (`DispatchWhole`, `DispatchPart`).
For replies, reading one stream behind another goes on from the message that the first left (`ParseConcat`), and
that is to merge what the second says alone (`ParseMerges`), because a piece never holds a default value
(`IsSet`). Every piece of all that was written comes from one of the replies (`PiecesOfAll`); of those of
`raftRpc`, only that to `AppendEntries` has a fourth field, `AppState`, and writes it last (`FourthIsLast`), so a
stream that holds it holds the whole reply.

**StartUp.** The nodes share nothing but the file, so their order rests on the clock. `StartInv` keeps the
moments at which they were forked as a function that some reading of the past must allow (`\E forked :
Timed(forked)`; the model needs no variable for it): the forks are a second apart, plus at most `Lag` each
(`ForkedInTurn`); counted from its own fork, each node's RPC thread has written its two lines after at most
three steps that may be late (`RpcTimed`), and its constructor reaches the file after six
seconds and `Raft::init` after as many more as there are nodes behind it (`MainTimed`); no thread is more than
`Lag` behind (`Punctual`). Both hypotheses say how much time that leaves. `EnoughSleep` is
`(NodeNum - 1) * (Second + Lag) + 3 * Lag < 6 * Second`: the last node has written before the first one reads.
`EnoughElection` is `(NodeNum + 2) * Lag < MinElection`: what two nodes may be late by does not add up to the
shortest timer, as the sleep at `kvServer.cpp:138` otherwise makes up for the order of the forks. TLC finds
`ListsComplete` violated with seven nodes, where the first fails, and `NotCalledEarly` with three nodes
and a timer of exactly five times `Lag`, where the second does; the constants of `Foundations` satisfy both.
With no lag, the sleeps of the program are long enough for up to six nodes.

**IOManager.** `OneWorker` says that the pool has one thread, as the program's has (`FIBER_THREAD_NUM`); with two,
`OneWait` fails (run `FiberTwoWorkers`). Fibers, operations and the order of events are arbitrary.
`OneWait` counts the places a fiber is in: the queue, the worker's hand, the events and the timers that
schedule it. `WorkerInv` says that this number is what the fiber's state owes (`Owed`): one for a fiber that has
yielded or set what will wake it, none for one that runs, has ended or was never
scheduled. That a fiber sets its timer before it yields does no harm as long as no other worker
takes it, which is `FiberKept`: the fiber that runs is the worker's. The timeout of a read is a task that moves no fiber
unless its event is still there. `NothingLeft` needs what `stopping()` saw to stay true while it reads on
(`LookedAt`): timers, events and the queue are read one after the other, but the idle worker is the only one
that could fill them again, and `pendingEventCnt` is the number of events. One lemma per action
shows that it is kept; the lemmas at the beginning say what appending, taking the first and queueing a set
of fibers in any order do to the count (`CountConcat`, `CountTail`, `CountSet`).

TLC checked each of the inductive invariants on the constants of a run before it was proved.

**Only model-checked:** `FreshRead` and `NeverOlder` where a snapshot is made (the second half of `KvReads`).
**Out of the prover's reach:** liveness under fairness (`PopEnds`, `TimedPopEnds`, `CallReturns`, `RunsAgain`,
`StopReturns`) and `ENABLED`. Every invariant that a passing run checks is also a theorem.

## 5. Not modelled, and the plan

* Of the generated protobuf code: unknown fields, which the program keeps with a message and the model drops
  (requests have none, and no reply is sent on), arenas, `Swap`, reflection, descriptors and
  the constructors. The examples other than `raftKvDB.cpp`, among them `friend.pb.cc`, logging, the syntax of
  configuration files, the options and ports of `raftKvDB`, and the files CMake left in `bin/`.
  `leaderUpdateCommitIndex` (`raft.cpp:847-868`) is never called.
* A restart inside `Raft`: the Persister empties its files when it is constructed (run
  `PersisterRestart`), so a restarted node is an empty node with its old name, and no promise of Raft
  survives that.
* Of the fibers: `connect_with_timeout`, which waits like `do_io` for a WRITE event, accept and the writes
  (`do_io` again), `fcntl` and `ioctl`, the tables of descriptors and their growth, recurring and refreshed
  timers and clock rollover, `use_caller`, and tasks bound to a thread.
* Of TCP: a host that vanishes without closing its connections, and the reuse of descriptor numbers.

Plan, in this order:

1. Restart in `Raft` for a Persister as its comments want it: `persist()` at each place the code calls it
   and not at the others (stepping down, commit), and what a vote then promises.
2. Five servers: a stale suffix that decides an election (`raft.cpp:73`), from a constructed state.
