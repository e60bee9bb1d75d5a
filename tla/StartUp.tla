------------------------------- MODULE StartUp -------------------------------
(***************************************************************************)
(* How a cluster starts: raftKvDB forks one process per node, the RPC      *)
(* thread of each writes the node's address to a file, and the KvServer's  *)
(* constructor sleeps, reads the file, connects, sleeps again and starts   *)
(* Raft.  Nothing but these sleeps keeps the order.  Time is counted in    *)
(* parts of a second; a thread that is due runs at most Lag later.         *)
(* Operators called ...Mutant are plausible bugs for the runs to notice.    *)
(***************************************************************************)
EXTENDS Integers, Sequences, FiniteSetsExt

CONSTANTS NodeNum,       \* -n of raftCoreRun
          Second,        \* a second, in units of time
          Lag,           \* most that a thread is late for what it should do
          MinElection    \* minRandomizedElectionTime, rounded down

VARIABLES time,
          parent,        \* the node to fork next, and when
          rpc,           \* rpc[i]: where node i's RPC thread is, and since when
          main,          \* main[i]: where the constructor of node i is, and until when
          file,          \* the lines of test.conf: of which node, "ip" or "port"
          ipPortVt       \* ipPortVt[i]: what node i read: of each node, has it a port
startVars == <<time, parent, rpc, main, file, ipPortVt>>

Node == 0 .. NodeNum - 1
At(label, due) == [at |-> label, due |-> due]

\* raftKvDB's main has emptied the file.
StartInit ==
  /\ time = 0
  /\ parent = [next |-> 0, due |-> 0]
  /\ rpc = [i \in Node |-> At("none", 0)]
  /\ main = [i \in Node |-> At("none", 0)]
  /\ file = {}
  /\ ipPortVt = [i \in Node |-> <<>>]

\* fork, and sleep(1) in the parent.
Fork ==
  /\ parent.next < NodeNum /\ parent.due <= time
  /\ parent' = [next |-> parent.next + 1,
                due |-> IF parent.next + 1 < NodeNum THEN time + Second ELSE 0]
  /\ main' = [main EXCEPT ![parent.next] = At("forked", time)]
  /\ UNCHANGED <<time, rpc, file, ipPortVt>>

-----------------------------------------------------------------------------
(* KvServer::KvServer *)

Due(i, label) == main[i].at = label /\ main[i].due <= time

ConstructMutant(i) ==   \* waits for less than the start of the others takes
  /\ Due(i, "forked")
  /\ rpc' = [rpc EXCEPT ![i] = At("ip", time)]
  /\ main' = [main EXCEPT ![i] = At("sleeping", time + 2 * Second)]
  /\ UNCHANGED <<time, parent, file, ipPortVt>>
\* Start the RPC thread, and sleep(6) "to wait all other raft nodes start".
Construct(i) ==
  /\ Due(i, "forked")
  /\ rpc' = [rpc EXCEPT ![i] = At("ip", time)]
  /\ main' = [main EXCEPT ![i] = At("sleeping", time + 6 * Second)]
  /\ UNCHANGED <<time, parent, file, ipPortVt>>

\* LoadConfigFile and Load: whether a line of the file gives the node's "ip" or "port".
Load(i, key) == <<i, key>> \in file

\* The nodes from 0 up to the first of which there is no ip: a missing port reads as 0.
Addresses ==
  LET missing == {i \in 0 .. NodeNum : ~Load(i, "ip")}
  IN [i \in 1 .. Min(missing) |-> Load(i - 1, "port")]

ReadFileMutant(i) ==    \* each node sleeps as long
  /\ Due(i, "sleeping")
  /\ ipPortVt' = [ipPortVt EXCEPT ![i] = Addresses]
  /\ main' = [main EXCEPT ![i] = At("connected", time + Second * Len(ipPortVt'[i]))]
  /\ UNCHANGED <<time, parent, rpc, file>>
\* Read the file, connect to the others, which need not listen yet, and sleep until the
\* last node should have come as far: size() - me, unsigned.
ReadFile(i) ==
  /\ Due(i, "sleeping")
  /\ ipPortVt' = [ipPortVt EXCEPT ![i] = Addresses]
  /\ main' = [main EXCEPT ![i] =
       IF Len(ipPortVt'[i]) < i THEN At("asleep", 0)
       ELSE At("connected", time + Second * (Len(ipPortVt'[i]) - i))]
  /\ UNCHANGED <<time, parent, rpc, file>>

\* Raft::init, which sets m_persister and starts the election timer.
InitRaft(i) ==
  /\ Due(i, "connected")
  /\ main' = [main EXCEPT ![i] = At("running", time + MinElection)]
  /\ UNCHANGED <<time, parent, rpc, file, ipPortVt>>

\* The timer has run out, and votes are requested from every node of the list.  It may
\* run longer, and be set again.
DoElection(i) ==
  /\ Due(i, "running")
  /\ main' = [main EXCEPT ![i] = At("candidate", 0)]
  /\ UNCHANGED <<time, parent, rpc, file, ipPortVt>>

-----------------------------------------------------------------------------
(* RpcProvider::Run, after both services have been registered *)

RpcGoto(i, from, to) ==
  /\ rpc[i].at = from
  /\ rpc' = [rpc EXCEPT ![i] = At(to, IF to = "listening" THEN 0 ELSE time)]
WriteIp(i) ==
  /\ RpcGoto(i, "ip", "port") /\ file' = file \cup {<<i, "ip">>}
  /\ UNCHANGED <<time, parent, main, ipPortVt>>
WritePort(i) ==
  /\ RpcGoto(i, "port", "starting") /\ file' = file \cup {<<i, "port">>}
  /\ UNCHANGED <<time, parent, main, ipPortVt>>
Listen(i) ==
  /\ RpcGoto(i, "starting", "listening")
  /\ UNCHANGED <<time, parent, main, file, ipPortVt>>

-----------------------------------------------------------------------------
\* When the threads that only wait for time to pass should run.
Awaited ==
  {parent.due : p \in {p \in {parent} : p.next < NodeNum}}
    \cup {main[i].due : i \in {j \in Node : main[j].at \in {"forked", "sleeping", "connected"}}}
    \cup {rpc[i].due : i \in {j \in Node : rpc[j].at \in {"ip", "port", "starting"}}}
Timers == {main[i].due : i \in {j \in Node : main[j].at = "running"}}

\* Time passes, up to when something is due next, and never past what is late already.
Tick ==
  /\ \A due \in Awaited : time < due + Lag
  /\ LET next == {due \in Awaited \cup Timers : due > time}
     IN /\ next # {}
        /\ time' = IF \E due \in Awaited : due <= time THEN time + 1 ELSE Min(next)
  /\ UNCHANGED <<parent, rpc, main, file, ipPortVt>>

StartNext ==
  \/ Fork \/ Tick
  \/ \E i \in Node : Construct(i) \/ ReadFile(i) \/ InitRaft(i) \/ DoElection(i)
                     \/ WriteIp(i) \/ WritePort(i) \/ Listen(i)

StartSpec == StartInit /\ [][StartNext]_startVars

-----------------------------------------------------------------------------
\* kvServer.cpp:103: a node that has waited knows every other, with its port.  One that does
\* not would count its majorities over the nodes it knows.
ListsComplete ==
  \A i \in Node : main[i].at \in {"connected", "asleep", "running", "candidate"}
     => Len(ipPortVt[i]) = NodeNum /\ \A n \in DOMAIN ipPortVt[i] : ipPortVt[i][n]

\* No vote is requested from a node that listens already but has not run Raft::init: its
\* RequestVote would call persist() on a null m_persister.
NotCalledEarly ==
  \A i, j \in Node : main[i].at = "candidate" /\ j < Len(ipPortVt[i]) /\ rpc[j].at = "listening"
     => main[j].at \in {"running", "candidate"}
=============================================================================
