------------------------------ MODULE IOManager ------------------------------
(***************************************************************************)
(* The coroutine scheduler of fiber/: worker threads that run the tasks of *)
(* one queue, and while it is empty an idle fiber that waits in epoll for  *)
(* events, timers and a pipe that tickle() writes to.  Fibers sleep and    *)
(* read through the hooks of hook.cpp; fiber f reads from socket f.  Time  *)
(* is the order in which timers fall due.                                  *)
(* Operators called ...Mutant are plausible bugs for the runs to notice.    *)
(***************************************************************************)
EXTENDS Integers, FiniteSets, SequencesExt

CONSTANTS Worker,     \* threads of the pool (FIBER_THREAD_NUM; the caller is not one)
          Fiber,      \* the functions that are scheduled, and the fibers that run them
          Busy,       \* those of them that sleep, read and close up to MaxOps times;
          MaxOps      \* the others do so once

VARIABLES tasks,            \* tasks_
          workers,          \* workers[w]: where w is in run() and idle(), and its task
          idleThreadCnt,    \* idleThreadCnt_
          activeThreadCnt,  \* activeThreadCnt_
          isStopped,        \* isStopped_
          timers, due,      \* timers_, and those of them whose time has come
          tickled,          \* tickled_
          pipe,             \* the pipe was written to since it was last read
          events,           \* the sockets with a READ event
          pendingEventCnt,  \* pendingEventCnt_
          data,             \* the sockets with something to read
          closed,           \* the sockets that were closed
          fibers            \* fibers[f]: state_, and where f is in its function
poolVars == <<tasks, workers, idleThreadCnt, activeThreadCnt, isStopped, timers, due, tickled,
          pipe, events, pendingEventCnt, data, closed, fibers>>

\* A task is a function to start, a fiber, or the callback of a timer: one that schedules
\* a sleeping fiber, or the timeout of the fiber's read number `op'.
Task(kind, f, op) == [kind |-> kind, fiber |-> f, op |-> op]
Start(f) == Task("start", f, 0)
Resume(f) == Task("fiber", f, 0)
WakeUp(f) == Task("wake", f, 0)
Timeout(f) == Task("timeout", f, fibers[f].op)

NoTask == Task("none", 0, 0)

Never == "never"   \* ~0ull
Soon  == "soon"
Max5s == "5 s"     \* MAX_TIMEOUT

PoolInit ==
  /\ tasks = <<>> /\ isStopped = FALSE
  /\ workers = [w \in Worker |-> [at |-> "take", task |-> NoTask, timeout |-> Never,
                                  ready |-> {}, piped |-> FALSE, idleEnded |-> FALSE]]
  /\ idleThreadCnt = 0 /\ activeThreadCnt = 0
  /\ timers = {} /\ due = {} /\ tickled = FALSE /\ pipe = FALSE
  /\ events = {} /\ pendingEventCnt = 0 /\ data = {} /\ closed = {}
  /\ fibers = [f \in Fiber |-> [state |-> "none", at |-> "run", op |-> 0, inRead |-> FALSE,
                                timed |-> FALSE, cancelled |-> FALSE]]

MoveTo(w, label) == workers' = [workers EXCEPT ![w].at = label]
Running(w) == workers[w].task.fiber
Ops(f) == IF f \in Busy THEN MaxOps ELSE 1
\* After a task: task.reset() and --activeThreadCnt_.
TaskDone(w) ==
  /\ workers' = [workers EXCEPT ![w].at = "take", ![w].task = NoTask]
  /\ activeThreadCnt' = activeThreadCnt - 1

\* tickle: nobody is written to unless somebody is idle.
Tickled(wanted) == pipe \/ (wanted /\ idleThreadCnt > 0)
\* scheduler(task) for each of s: it tickles when the queue was empty.
Scheduler(s) ==
  /\ tasks' = tasks \o s
  /\ pipe' = Tickled(tasks = <<>> /\ s # <<>>)
\* The fibers fs, queued one after the other.
Resumes(fs) == SetToSeqs({Resume(f) : f \in fs})
\* triggerEvent of a socket that has an event: the fiber is queued, the event is gone.
TriggerEvents(fds) ==
  /\ events' = events \ fds
  /\ pendingEventCnt' = pendingEventCnt - Cardinality(fds)

-----------------------------------------------------------------------------
(* Scheduler::run *)

\* An assertion: a fiber in the queue is READY.  The tasks of this code name no thread.
HeadReady == Head(tasks).kind = "fiber" => fibers[Head(tasks).fiber].state = "ready"
Take(w) ==
  /\ workers[w].at = "take" /\ tasks # <<>> /\ HeadReady
  /\ workers' = [workers EXCEPT ![w].at = "resume", ![w].task = Head(tasks)]
  /\ tasks' = Tail(tasks)
  /\ activeThreadCnt' = activeThreadCnt + 1
  /\ pipe' = Tickled(Len(tasks) > 1)
  /\ UNCHANGED <<idleThreadCnt, isStopped, timers, due, tickled, events, pendingEventCnt,
                 data, closed, fibers>>

\* Nothing to do: the worker ends if its idle fiber has, and else goes to idle.  A task
\* that is queued before it counts as idle tickles nobody.
TakeNothing(w) ==
  /\ workers[w].at = "take" /\ tasks = <<>>
  /\ MoveTo(w, IF workers[w].idleEnded THEN "exit" ELSE "toIdle")
  /\ UNCHANGED <<tasks, idleThreadCnt, activeThreadCnt, isStopped, timers, due, tickled, pipe,
                 events, pendingEventCnt, data, closed, fibers>>

GoIdle(w) ==
  /\ workers[w].at = "toIdle"
  /\ idleThreadCnt' = idleThreadCnt + 1
  /\ MoveTo(w, "timers")
  /\ UNCHANGED <<tasks, activeThreadCnt, isStopped, timers, due, tickled, pipe, events,
                 pendingEventCnt, data, closed, fibers>>

ResumeFiber(w) ==
  /\ workers[w].at = "resume" /\ workers[w].task.kind \in {"start", "fiber"}
  /\ MoveTo(w, "run")
  /\ fibers' = [fibers EXCEPT ![Running(w)].state = "running"]
  /\ UNCHANGED <<tasks, idleThreadCnt, activeThreadCnt, isStopped, timers, due, tickled, pipe,
                 events, pendingEventCnt, data, closed>>

\* The callback of sleep and usleep.
RunWake(w) ==
  /\ workers[w].at = "resume" /\ workers[w].task.kind = "wake"
  /\ TaskDone(w)
  /\ Scheduler(<<Resume(Running(w))>>)
  /\ UNCHANGED <<idleThreadCnt, isStopped, timers, due, tickled, events, pendingEventCnt,
                 data, closed, fibers>>

\* The callback of a read with a timeout: nothing once that read is over, as its
\* timer_info is gone.  cancelEvent queues the fiber if its event is still there.
Expires(task) ==
  fibers[task.fiber].inRead /\ fibers[task.fiber].op = task.op /\ ~fibers[task.fiber].cancelled
RunTimeoutMutant(w) ==   \* schedules the fiber itself
  /\ workers[w].at = "resume" /\ workers[w].task.kind = "timeout"
  /\ TaskDone(w)
  /\ IF Expires(workers[w].task)
     THEN /\ fibers' = [fibers EXCEPT ![Running(w)].cancelled = TRUE]
          /\ Scheduler(<<Resume(Running(w))>>)
          /\ TriggerEvents(events \cap {Running(w)})
     ELSE UNCHANGED <<tasks, pipe, events, pendingEventCnt, fibers>>
  /\ UNCHANGED <<idleThreadCnt, isStopped, timers, due, tickled, data, closed>>
RunTimeoutMutant2(w) ==  \* pendingEventCnt_ is not decremented
  /\ workers[w].at = "resume" /\ workers[w].task.kind = "timeout"
  /\ TaskDone(w)
  /\ LET cancels == IF Expires(workers[w].task) THEN events \cap {Running(w)} ELSE {}
     IN /\ \E s \in Resumes(cancels) : Scheduler(s)
        /\ events' = events \ cancels
        /\ fibers' = [fibers EXCEPT ![Running(w)].cancelled = @ \/ Expires(workers[w].task)]
  /\ UNCHANGED <<idleThreadCnt, isStopped, timers, due, tickled, data, closed,
                 pendingEventCnt>>
RunTimeout(w) ==
  /\ workers[w].at = "resume" /\ workers[w].task.kind = "timeout"
  /\ TaskDone(w)
  /\ LET cancels == IF Expires(workers[w].task) THEN events \cap {Running(w)} ELSE {}
     IN /\ \E s \in Resumes(cancels) : Scheduler(s)
        /\ TriggerEvents(cancels)
        /\ fibers' = [fibers EXCEPT ![Running(w)].cancelled = @ \/ Expires(workers[w].task)]
  /\ UNCHANGED <<idleThreadCnt, isStopped, timers, due, tickled, data, closed>>

-----------------------------------------------------------------------------
(* IOManager::idle *)

IdleOnly == <<tasks, activeThreadCnt, isStopped, timers, due, events, pendingEventCnt, data,
              closed, fibers>>

\* stopping() looks at the timers, the events and the queue, one after the other.
CheckTimers(w) ==
  /\ workers[w].at = "timers"
  /\ tickled' = FALSE
  /\ workers' = [workers EXCEPT ![w].at = IF timers = {} THEN "events" ELSE "wait",
                                ![w].timeout = IF timers = {} THEN Never ELSE Soon]
  /\ UNCHANGED <<idleThreadCnt, pipe, IdleOnly>>
CheckEventsMutant(w) ==   \* pendingEventCnt_ is forgotten
  /\ workers[w].at = "events"
  /\ MoveTo(w, "queue")
  /\ UNCHANGED <<idleThreadCnt, pipe, tickled, IdleOnly>>
CheckEvents(w) ==
  /\ workers[w].at = "events"
  /\ MoveTo(w, IF pendingEventCnt = 0 THEN "queue" ELSE "wait")
  /\ UNCHANGED <<idleThreadCnt, pipe, tickled, IdleOnly>>
CheckQueue(w) ==
  /\ workers[w].at = "queue"
  /\ IF isStopped /\ tasks = <<>> /\ activeThreadCnt = 0
     THEN /\ workers' = [workers EXCEPT ![w].at = "take", ![w].idleEnded = TRUE]
          /\ idleThreadCnt' = idleThreadCnt - 1
     ELSE MoveTo(w, "wait") /\ UNCHANGED idleThreadCnt
  /\ UNCHANGED <<pipe, tickled, IdleOnly>>

WaitTimeMutant(timeout) == timeout     \* no MAX_TIMEOUT
WaitTime(timeout) == IF timeout = Never THEN Max5s ELSE timeout
\* epoll_wait, at the latest when its time is over.  Edges are reported once.
Ready == events \cap data
EpollWait(w) ==
  /\ workers[w].at = "wait"
  /\ WaitTime(workers[w].timeout) = Never => pipe \/ Ready # {}
  /\ workers' = [workers EXCEPT ![w].at = "expire", ![w].timeout = Never,
                                ![w].ready = Ready, ![w].piped = pipe]
  /\ pipe' = FALSE
  /\ UNCHANGED <<idleThreadCnt, tickled, IdleOnly>>

\* listExpiredCb: the timers that are due leave, their callbacks are queued.
ListExpired(w) ==
  /\ workers[w].at = "expire"
  /\ MoveTo(w, "trigger")
  /\ \E s \in SetToSeqs(due) : Scheduler(s)
  /\ timers' = timers \ due /\ due' = {}
  /\ UNCHANGED <<idleThreadCnt, activeThreadCnt, isStopped, tickled, events, pendingEventCnt,
                 data, closed, fibers>>

\* A pipe that was reported is read empty, and the events that were reported and are
\* still there are triggered, in any order; the idle fiber yields.
Trigger(w) ==
  /\ workers[w].at = "trigger"
  /\ workers' = [workers EXCEPT ![w].at = "take", ![w].ready = {}, ![w].piped = FALSE]
  /\ LET fds == workers[w].ready \cap events
         tickles == tasks = <<>> /\ fds # {}
     IN /\ \E s \in Resumes(fds) : tasks' = tasks \o s
        /\ pipe' \in IF workers[w].piped THEN {FALSE, tickles} ELSE {pipe \/ tickles}
        /\ TriggerEvents(fds)
  /\ idleThreadCnt' = idleThreadCnt - 1
  /\ UNCHANGED <<activeThreadCnt, isStopped, timers, due, tickled, data, closed, fibers>>

-----------------------------------------------------------------------------
(* The fiber a worker runs: sleep, do_io, and its end. *)

Runs(w, label) ==
  workers[w].at = "run" /\ fibers[Running(w)].at = label
FiberOnly == <<idleThreadCnt, isStopped, due, data, closed>>

\* addTimer: a timer that becomes the first tickles, once between two looks at the timers.
AddTimer(t) ==
  /\ timers' = timers \cup {t}
  /\ \E front \in {timers = {}, TRUE} :
       /\ tickled' = (tickled \/ front)
       /\ pipe' = Tickled(front /\ ~tickled)

Sleep(w) ==
  /\ Runs(w, "run") /\ fibers[Running(w)].op < Ops(Running(w))
  /\ fibers' = [fibers EXCEPT ![Running(w)].at = "asleep", ![Running(w)].op = @ + 1]
  /\ AddTimer(WakeUp(Running(w)))
  /\ UNCHANGED <<tasks, workers, activeThreadCnt, events, pendingEventCnt, FiberOnly>>

BeginRead(w) ==
  /\ Runs(w, "run") /\ fibers[Running(w)].op < Ops(Running(w))
  /\ \E timed \in BOOLEAN :
       fibers' = [fibers EXCEPT ![Running(w)].at = "read", ![Running(w)].op = @ + 1,
                                ![Running(w)].inRead = TRUE, ![Running(w)].timed = timed]
  /\ UNCHANGED <<tasks, workers, activeThreadCnt, timers, tickled, pipe, events,
                 pendingEventCnt, FiberOnly>>

EndRead(f) ==
  fibers' = [fibers EXCEPT ![f].at = "run", ![f].inRead = FALSE, ![f].timed = FALSE,
                           ![f].cancelled = FALSE]

\* The system call: it returns what is there, fails on a closed socket, or returns EAGAIN,
\* and then a timer is set.  With one worker nobody closes the socket before the event.
TryRead(w) ==
  /\ Runs(w, "read")
  /\ LET f == Running(w) IN
     \/ /\ f \in closed \/ f \in data
        /\ data' = data \ {f}
        /\ EndRead(f)
        /\ UNCHANGED <<timers, tickled, pipe>>
     \/ /\ f \notin closed \cup data /\ UNCHANGED data
        /\ fibers' = [fibers EXCEPT ![f].at = "addEvent"]
        /\ IF fibers[f].timed THEN AddTimer(Timeout(f)) ELSE UNCHANGED <<timers, tickled, pipe>>
  /\ UNCHANGED <<tasks, workers, activeThreadCnt, idleThreadCnt, isStopped, due, events,
                 pendingEventCnt, closed>>

AddEvent(w) ==
  /\ Runs(w, "addEvent") /\ Running(w) \notin events
  /\ events' = events \cup {Running(w)}
  /\ pendingEventCnt' = pendingEventCnt + 1
  /\ fibers' = [fibers EXCEPT ![Running(w)].at = "waiting"]
  /\ UNCHANGED <<tasks, workers, activeThreadCnt, timers, tickled, pipe, FiberOnly>>

\* yield: back to run(), with the fiber READY; it goes on after its wait.
Yield(w) ==
  /\ \/ Runs(w, "asleep") /\ fibers' = [fibers EXCEPT ![Running(w)].state = "ready",
                                                      ![Running(w)].at = "run"]
     \/ Runs(w, "waiting") /\ fibers' = [fibers EXCEPT ![Running(w)].state = "ready",
                                                       ![Running(w)].at = "woken"]
  /\ TaskDone(w)
  /\ UNCHANGED <<tasks, timers, tickled, pipe, events, pendingEventCnt, FiberOnly>>

\* After the wait: cancel the timer, fail if it was the one to wake the fiber, or try again.
CancelTimer(f) == timers' = timers \ {Timeout(f)} /\ due' = due \ {Timeout(f)}
AfterWait(w) ==
  /\ Runs(w, "woken")
  /\ CancelTimer(Running(w))
  /\ \/ fibers[Running(w)].cancelled /\ EndRead(Running(w))
     \/ ~fibers[Running(w)].cancelled /\ fibers' = [fibers EXCEPT ![Running(w)].at = "read"]
  /\ UNCHANGED <<tasks, workers, activeThreadCnt, idleThreadCnt, isStopped, tickled, pipe,
                 events, pendingEventCnt, data, closed>>

\* close, of another fiber's socket: cancelAll triggers its event, and the read fails.
Close(w) ==
  /\ Runs(w, "run") /\ fibers[Running(w)].op < Ops(Running(w))
  /\ fibers' = [fibers EXCEPT ![Running(w)].op = @ + 1]
  /\ \E f \in Fiber \ (closed \cup {Running(w)}) :
       /\ closed' = closed \cup {f} /\ data' = data \ {f}
       /\ \E s \in Resumes(events \cap {f}) : Scheduler(s)
       /\ TriggerEvents(events \cap {f})
  /\ UNCHANGED <<workers, activeThreadCnt, idleThreadCnt, isStopped, timers, due, tickled>>

\* The function returns: MainFunc sets TERM and yields for the last time.
End(w) ==
  /\ Runs(w, "run")
  /\ fibers' = [fibers EXCEPT ![Running(w)].state = "term"]
  /\ TaskDone(w)
  /\ UNCHANGED <<tasks, timers, tickled, pipe, events, pendingEventCnt, FiberOnly>>

-----------------------------------------------------------------------------
(* The rest of the process, the clock and the network. *)

\* scheduler(f) from a thread outside the pool.
Schedule(f) ==
  /\ fibers[f].state = "none" /\ ~isStopped
  /\ fibers' = [fibers EXCEPT ![f].state = "ready"]
  /\ Scheduler(<<Start(f)>>)
  /\ UNCHANGED <<workers, idleThreadCnt, activeThreadCnt, isStopped, timers, due, tickled,
                 events, pendingEventCnt, data, closed>>

\* stop() up to where it joins the workers.
Stop ==
  /\ ~isStopped /\ isStopped' = TRUE
  /\ tickled' = FALSE
  /\ pipe' = Tickled(TRUE)
  /\ UNCHANGED <<tasks, workers, idleThreadCnt, activeThreadCnt, timers, due, events,
                 pendingEventCnt, data, closed, fibers>>

Elapse(t) ==
  /\ t \in timers \ due /\ due' = due \cup {t}
  /\ UNCHANGED <<tasks, workers, idleThreadCnt, activeThreadCnt, isStopped, timers, tickled,
                 pipe, events, pendingEventCnt, data, closed, fibers>>

Arrive(f) ==
  /\ f \notin data \cup closed /\ fibers[f].state \in {"ready", "running"}
  /\ data' = data \cup {f}
  /\ UNCHANGED <<tasks, workers, idleThreadCnt, activeThreadCnt, isStopped, timers, due,
                 tickled, pipe, events, pendingEventCnt, closed, fibers>>

-----------------------------------------------------------------------------
WorkerStep(w) ==
  \/ Take(w) \/ TakeNothing(w) \/ GoIdle(w) \/ ResumeFiber(w) \/ RunWake(w) \/ RunTimeout(w)
  \/ CheckTimers(w) \/ CheckEvents(w) \/ CheckQueue(w) \/ EpollWait(w)
  \/ ListExpired(w) \/ Trigger(w)
  \/ Sleep(w) \/ BeginRead(w) \/ TryRead(w) \/ AddEvent(w) \/ Yield(w) \/ AfterWait(w)
  \/ Close(w) \/ End(w)

PoolNext ==
  \/ \E w \in Worker : WorkerStep(w)
  \/ \E f \in Fiber : Schedule(f) \/ Arrive(f)
  \/ \E t \in timers : Elapse(t)
  \/ Stop

PoolSpec == PoolInit /\ [][PoolNext]_poolVars

\* Threads run, also the functions they run, and time passes.  Nobody has to schedule, to
\* stop, or to send anything.
PoolFairness ==
  /\ \A w \in Worker : WF_poolVars(WorkerStep(w))
  /\ WF_poolVars(\E t \in timers : Elapse(t))

-----------------------------------------------------------------------------
\* A fiber waits for a message that nobody has sent, without a timeout.
Blocked(f) == f \in events /\ f \notin data /\ ~fibers[f].timed

\* iomanager.cpp:236: what is scheduled, sleeps, or waits for an event or a timeout that
\* comes runs again, although a task may be queued when nobody can be tickled.
RunsAgain ==
  \A f \in Fiber :
     fibers[f].state = "ready" /\ ~Blocked(f) ~> fibers[f].state = "running" \/ Blocked(f)

\* A fiber that does not run is on its way in exactly one place, so that it is neither
\* lost nor resumed twice; one that runs is nowhere, until it sets its timer or event.
Waits(f) ==
  Cardinality({n \in DOMAIN tasks : tasks[n].fiber = f /\ tasks[n].kind # "timeout"})
    + Cardinality({w \in Worker : workers[w].at = "resume" /\ workers[w].task.fiber = f
                                    /\ workers[w].task.kind # "timeout"})
    + Cardinality({f} \cap events) + Cardinality({WakeUp(f)} \cap timers)
OneWait ==
  \A f \in Fiber :
     Waits(f) = IF fibers[f].state = "ready" THEN 1
                ELSE IF fibers[f].state = "running" /\ fibers[f].at \in {"asleep", "waiting"} THEN 1
                ELSE 0

\* stop() waits for everything: when the last worker has left, nothing is queued, no
\* timer is set, and every fiber has ended.
Exited == \A w \in Worker : workers[w].at = "exit"
NothingLeft ==
  Exited => tasks = <<>> /\ timers = {} /\ events = {}
              /\ \A f \in Fiber : fibers[f].state \in {"none", "term"}

\* stop() returns when no fiber waits for a message that does not come.
StopReturns == isStopped ~> Exited \/ \E f \in Fiber : Blocked(f)

\* scheduler.cpp:103: a fiber that is taken from the queue is READY.
TakesReady == \A w \in Worker : workers[w].at = "take" /\ tasks # <<>> => HeadReady
=============================================================================
