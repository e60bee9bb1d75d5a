------------------------------ MODULE LockQueue ------------------------------
(***************************************************************************)
(* LockQueue of util.h: a queue under m_mutex and the condition variable   *)
(* m_condvariable.  The lock is released only inside a wait, so a call is   *)
(* one step up to its wait, and another after each wake-up.  Of m_queue    *)
(* only the length counts here; RaftService and KvServer keep its contents. *)
(* Operators called ...Mutant are plausible bugs for the runs to notice.    *)
(***************************************************************************)
EXTENDS Integers, FiniteSets

CONSTANTS Popper,       \* threads that call Pop
          TimedPopper,  \* threads that call timeOutPop
          MaxSize       \* bound on the length of the queue

VARIABLES size,         \* m_queue.size()
          at            \* at[c]: "out" of a call, "waiting", or "woken" and without the lock
vars == <<size, at>>

Consumer == Popper \cup TimedPopper
Waiting == {c \in Consumer : at[c] = "waiting"}
Woken   == {c \in Consumer : at[c] = "woken"}

Init == size = 0 /\ at = [c \in Consumer |-> "out"]

\* notify_one wakes one of the threads that wait, whichever, or nobody.
NotifyOne ==
  \/ Waiting = {} /\ UNCHANGED at
  \/ \E c \in Waiting : at' = [at EXCEPT ![c] = "woken"]

PushMutant == size < MaxSize /\ size' = size + 1 /\ UNCHANGED at
PushMutant2 ==   \* notify only when the queue was empty
  /\ size < MaxSize
  /\ size' = size + 1
  /\ IF size = 0 THEN NotifyOne ELSE UNCHANGED at
Push == size < MaxSize /\ size' = size + 1 /\ NotifyOne

\* With the lock: take the front, or wait for as long as there is none.
TakeOrWait(c) ==
  \/ size > 0 /\ size' = size - 1 /\ at' = [at EXCEPT ![c] = "out"]
  \/ size = 0 /\ at' = [at EXCEPT ![c] = "waiting"] /\ UNCHANGED size

Call(c) == at[c] = "out" /\ TakeOrWait(c)
Wake(c) == at[c] = "woken" /\ TakeOrWait(c)

\* A wait may end by itself.
Spurious(c) == at[c] = "waiting" /\ at' = [at EXCEPT ![c] = "woken"] /\ UNCHANGED size

\* wait_until compares the clock when it has the lock again: a thread that was notified
\* may find that it is late, and returns false although there is an item.
TimeOutMutant(c) ==   \* waits again, whatever wait_until returned
  at[c] = "waiting" /\ at' = [at EXCEPT ![c] = "woken"] /\ UNCHANGED size
TimeOut(c) == at[c] # "out" /\ at' = [at EXCEPT ![c] = "out"] /\ UNCHANGED size

Next ==
  \/ Push
  \/ \E c \in Consumer : Call(c) \/ Wake(c) \/ Spurious(c)
  \/ \E c \in TimedPopper : TimeOut(c)

Spec == Init /\ [][Next]_vars

\* A thread that was woken gets the lock and goes on; deadlines pass.
Fairness ==
  /\ \A c \in Consumer : WF_vars(Wake(c))
  /\ \A c \in TimedPopper : WF_vars(TimeOut(c))

-----------------------------------------------------------------------------
TypeOK == size \in Nat /\ at \in [Consumer -> {"out", "waiting", "woken"}]

\* While a thread waits, each item in the queue has a thread on its way to it: no
\* notification went to a thread that did not need it (util.h:69-84).
NoLostWakeup == Waiting # {} => size <= Cardinality(Woken)

\* A thread in Pop returns unless the queue runs dry, one in timeOutPop always.
PopEnds ==
  \A c \in Consumer :
     at[c] # "out" /\ (size > 0 \/ c \in TimedPopper)
       ~> at[c] = "out" \/ (size = 0 /\ c \in Popper)
=============================================================================
