---------------------------- MODULE MCFoundations ----------------------------
(***************************************************************************)
(* What Raft, the KvServer and the Clerk take for granted about the code   *)
(* below them: the log operators of Raft against their loops, the skip     *)
(* list against a map, the queues between threads, one thread's calls over *)
(* a connection and the messages on it, and one worker's fibers.  They     *)
(* share nothing: `part' says which of them moves.                         *)
(***************************************************************************)
EXTENDS LockQueue, RpcChannel, StartUp, IOManager, SkipList, RaftLogLoops, RpcMessages

CONSTANT Handler

VARIABLES part,
          waitSize, waitAt

\* The queue that is extended is applyChan.  One loop pops from it, and here two for its
\* NotifyOne to choose from; a queue of waitApplyCh has one handler.
WaitApplyCh == INSTANCE LockQueue WITH Popper <- {}, TimedPopper <- Handler,
                                       size <- waitSize, at <- waitAt

QueueVars == <<vars, waitSize, waitAt>>

FoundationsInit ==
  /\ part \in {"list", "log", "queues", "rpc", "fibers", "wire", "start"}
  /\ ListInit
  /\ InputsInit /\ (part # "log" => snap = 0)
  /\ Init /\ WaitApplyCh!Init
  /\ RpcInit /\ (part # "rpc" => conns = <<>>)
  /\ PoolInit
  /\ WireInit
  /\ StartInit

FoundationsNext ==
  \/ /\ part = "list" /\ ListNext
     /\ UNCHANGED <<part, inputs, QueueVars, rpcVars, poolVars, wireVars, startVars>>
  \/ /\ part = "log" /\ InputsNext
     /\ UNCHANGED <<part, listVars, QueueVars, rpcVars, poolVars, wireVars, startVars>>
  \/ /\ part = "queues"
     /\ \/ Next /\ UNCHANGED <<waitSize, waitAt>>
        \/ WaitApplyCh!Next /\ UNCHANGED vars
     /\ UNCHANGED <<part, listVars, inputs, rpcVars, poolVars, wireVars, startVars>>
  \/ /\ part = "rpc" /\ RpcNext
     /\ UNCHANGED <<part, listVars, inputs, QueueVars, poolVars, wireVars, startVars>>
  \/ /\ part = "fibers" /\ PoolNext
     /\ UNCHANGED <<part, listVars, inputs, QueueVars, rpcVars, wireVars, startVars>>
  \/ /\ part = "wire" /\ WireNext
     /\ UNCHANGED <<part, listVars, inputs, QueueVars, rpcVars, poolVars, startVars>>
  \/ /\ part = "start" /\ StartNext
     /\ UNCHANGED <<part, listVars, inputs, QueueVars, rpcVars, poolVars, wireVars>>

\* The workers are alone to have something to do at first.
FoundationsFairness ==
  /\ Fairness /\ WaitApplyCh!Fairness /\ RpcFairness
  /\ part = "fibers" => PoolFairness

FoundationsSpec ==
  /\ FoundationsInit
  /\ [][FoundationsNext]_<<part, listVars, inputs, QueueVars, rpcVars, poolVars, wireVars,
                              startVars>>
  /\ FoundationsFairness

\* A handler that waits for its command returns, also when nobody commits it (LockQueue.tla).
TimedPopEnds == WaitApplyCh!PopEnds
=============================================================================
