--------------------------- MODULE IOManagerProofs ---------------------------
(***************************************************************************)
(* With one worker, as the program has, no fiber is lost or queued twice,  *)
(* and nothing is left when the worker has ended: for any number of fibers *)
(* and any number of sleeps, reads and closes.                             *)
(***************************************************************************)
EXTENDS IOManager, FiniteSetTheorems, SequenceTheorems, TLAPS

\* The pool of the program (FIBER_THREAD_NUM), and fibers that can be counted.
OneWorker == IsFiniteSet(Fiber) /\ \E w : Worker = {w}

Tasks == [kind : {"start", "fiber", "wake", "timeout"}, fiber : Fiber, op : Nat]

\* A task that makes f run; its timeout only cancels its event.
Moves(task, f) == task.fiber = f /\ task.kind # "timeout"
Count(s, f) == Cardinality({n \in DOMAIN s : Moves(s[n], f)})

PoolType ==
  /\ tasks \in Seq(Tasks)
  /\ workers \in
       [Worker -> [at : {"take", "toIdle", "exit", "resume", "run", "timers", "events", "queue",
                         "wait", "expire", "trigger"},
                   task : Tasks \cup {NoTask}, timeout : {Never, Soon}, ready : SUBSET Fiber,
                   piped : BOOLEAN, idleEnded : BOOLEAN]]
  /\ isStopped \in BOOLEAN /\ pipe \in BOOLEAN
  /\ due \subseteq timers /\ timers \subseteq Tasks /\ IsFiniteSet(timers)
  /\ \A t \in timers : t.kind = "timeout" \/ t = WakeUp(t.fiber)
  /\ events \subseteq Fiber
  /\ fibers \in
       [Fiber -> [state : {"none", "ready", "running", "term"},
                  at : {"run", "asleep", "read", "addEvent", "waiting", "woken"}, op : Nat,
                  inRead : BOOLEAN, timed : BOOLEAN, cancelled : BOOLEAN]]

\* The fiber that runs is the worker's, and one that does not has yielded or not begun.
WorkersFiber ==
  /\ \A w \in Worker :
       /\ workers[w].at \in {"resume", "run"} => workers[w].task \in Tasks
       /\ workers[w].at = "run" => fibers[Running(w)].state = "running"
  /\ \A f \in Fiber :
       /\ fibers[f].state = "running" => \E w \in Worker : workers[w].at = "run" /\ Running(w) = f
       /\ fibers[f].state \in {"none", "ready"} => fibers[f].at \in {"run", "woken"}

\* What stopping() has looked at is still so, as only fibers set timers and events; and an
\* idle fiber that has ended leaves nothing to do, as nobody schedules after stop().
LookedAt ==
  \A w \in Worker :
     /\ workers[w].at \in {"events", "queue"} => timers = {}
     /\ workers[w].at = "queue" => events = {}
     /\ workers[w].at = "exit" => workers[w].idleEnded
     /\ workers[w].idleEnded => /\ workers[w].at \in {"take", "exit"} /\ isStopped
                                /\ tasks = <<>> /\ timers = {} /\ events = {}

PoolInv ==
  PoolType /\ WorkersFiber /\ OneWait /\ LookedAt /\ pendingEventCnt = Cardinality(events)

-----------------------------------------------------------------------------
(* Counting the tasks of a fiber in a sequence *)

\* The places of a sequence that count are finite in number.
LEMMA CountType ==
  ASSUME NEW S, NEW s \in Seq(S), NEW f
  PROVE  IsFiniteSet({n \in DOMAIN s : Moves(s[n], f)}) /\ Count(s, f) \in Nat
<1>1. IsFiniteSet(1 .. Len(s))
  BY FS_Interval
<1>2. {n \in DOMAIN s : Moves(s[n], f)} \subseteq 1 .. Len(s)
  OBVIOUS
<1>. QED  BY <1>1, <1>2, FS_Subset, FS_CardinalityType DEF Count

\* A bijection keeps the number.
LEMMA SameNumber ==
  ASSUME NEW S, NEW T, IsFiniteSet(S), NEW g \in [S -> T],
         \A x, y \in S : g[x] = g[y] => x = y, \A z \in T : \E x \in S : g[x] = z
  PROVE  IsFiniteSet(T) /\ Cardinality(T) = Cardinality(S)
<1>1. g \in Bijection(S, T)
  BY DEF Bijection, Injection, Surjection, IsInjective
<1>2. ExistsBijection(S, T)
  BY <1>1 DEF ExistsBijection
<1>. QED  BY <1>2, FS_Bijection

\* The tasks of two sequences add up.
LEMMA CountConcat ==
  ASSUME NEW S, NEW s \in Seq(S), NEW t \in Seq(S), NEW f
  PROVE  Count(s \o t, f) = Count(s, f) + Count(t, f)
<1>. DEFINE A == {n \in DOMAIN s : Moves(s[n], f)}
            B == {n \in DOMAIN t : Moves(t[n], f)}
            C == {n \in DOMAIN (s \o t) : Moves((s \o t)[n], f)}
            D == {n \in C : n > Len(s)}
<1>1. Len(s) \in Nat /\ Len(t) \in Nat /\ DOMAIN s = 1 .. Len(s) /\ DOMAIN t = 1 .. Len(t)
  OBVIOUS
<1>2. /\ DOMAIN (s \o t) = 1 .. Len(s) + Len(t)
      /\ \A n \in 1 .. Len(s) : (s \o t)[n] = s[n]
      /\ \A n \in 1 .. Len(t) : (s \o t)[n + Len(s)] = t[n]
  <2>1. s \o t \in Seq(S) /\ Len(s \o t) = Len(s) + Len(t)
        /\ \A n \in 1 .. Len(s) + Len(t) : (s \o t)[n] = IF n <= Len(s) THEN s[n] ELSE t[n - Len(s)]
    BY ConcatProperties
  <2>2. DOMAIN (s \o t) = 1 .. Len(s) + Len(t)
    BY <2>1
  <2>3. ASSUME NEW n \in 1 .. Len(t) PROVE (s \o t)[n + Len(s)] = t[n]
    <3>1. n + Len(s) \in 1 .. Len(s) + Len(t) /\ ~(n + Len(s) <= Len(s))
          /\ (n + Len(s)) - Len(s) = n
      BY <1>1
    <3>. QED  BY <2>1, <3>1
  <2>4. ASSUME NEW n \in 1 .. Len(s) PROVE (s \o t)[n] = s[n]
    <3>1. n \in 1 .. Len(s) + Len(t) /\ n <= Len(s)
      BY <1>1
    <3>. QED  BY <2>1, <3>1
  <2>. QED  BY <2>2, <2>3, <2>4
<1>3. A \cup D = C /\ A \cap D = {}
  BY <1>1, <1>2
<1>4. IsFiniteSet(A) /\ IsFiniteSet(B)
  BY CountType
<1>5. IsFiniteSet(D) /\ Cardinality(D) = Cardinality(B)
  <2>. DEFINE g == [n \in B |-> n + Len(s)]
  <2>1. g \in [B -> D]
    BY <1>1, <1>2
  <2>2. \A x, y \in B : g[x] = g[y] => x = y
    BY <1>1
  <2>3. ASSUME NEW z \in D PROVE \E x \in B : g[x] = z
    <3>1. z - Len(s) \in 1 .. Len(t) /\ (z - Len(s)) + Len(s) = z
      BY <1>1, <1>2
    <3>2. z - Len(s) \in B
      BY <1>1, <1>2, <3>1
    <3>. QED  BY <3>1, <3>2
  <2>. HIDE DEF g, B, D
  <2>. QED  BY <1>4, <2>1, <2>2, <2>3, SameNumber
<1>6. Cardinality(A \cup D) = Cardinality(A) + Cardinality(D) - Cardinality(A \cap D)
  BY <1>4, <1>5, FS_Union
<1>7. Cardinality(A) \in Nat /\ Cardinality(D) \in Nat /\ Cardinality({}) = 0
  BY <1>4, <1>5, FS_CardinalityType, FS_EmptySet
<1>8. Count(s, f) = Cardinality(A) /\ Count(t, f) = Cardinality(B) /\ Count(s \o t, f) = Cardinality(C)
  BY DEF Count
<1>. HIDE DEF A, B, C, D
<1>9. Cardinality(A \cap D) = 0 /\ Cardinality(C) = Cardinality(A \cup D)
  BY <1>3, <1>7
<1>10. Cardinality(A \cup D) = Cardinality(A) + Cardinality(D)
  BY <1>6, <1>7, <1>9
<1>. QED  BY <1>5, <1>8, <1>9, <1>10

\* A task alone counts once, or not.
LEMMA CountOne ==
  ASSUME NEW S, NEW t \in S, NEW f
  PROVE  Count(<<t>>, f) = IF Moves(t, f) THEN 1 ELSE 0
<1>1. CASE Moves(t, f)
  <2>1. {n \in DOMAIN <<t>> : Moves(<<t>>[n], f)} = {1}
    BY <1>1
  <2>. QED  BY <1>1, <2>1, FS_Singleton DEF Count
<1>2. CASE ~Moves(t, f)
  <2>1. {n \in DOMAIN <<t>> : Moves(<<t>>[n], f)} = {}
    BY <1>2
  <2>. QED  BY <1>2, <2>1, FS_EmptySet DEF Count
<1>. QED  BY <1>1, <1>2

\* What is taken from the front is no longer counted.
LEMMA CountTail ==
  ASSUME NEW S, NEW s \in Seq(S), s # <<>>, NEW f
  PROVE  /\ Head(s) \in S /\ Tail(s) \in Seq(S)
         /\ Count(s, f) = Count(Tail(s), f) + (IF Moves(Head(s), f) THEN 1 ELSE 0)
<1>1. Head(s) \in S /\ Tail(s) \in Seq(S) /\ <<Head(s)>> \in Seq(S)
  OBVIOUS
<1>2. s = <<Head(s)>> \o Tail(s)
  OBVIOUS
<1>3. Count(<<Head(s)>> \o Tail(s), f) = Count(<<Head(s)>>, f) + Count(Tail(s), f)
  BY <1>1, CountConcat
<1>4. Count(<<Head(s)>>, f) = IF Moves(Head(s), f) THEN 1 ELSE 0
  BY <1>1, CountOne
<1>5. Count(Tail(s), f) \in Nat
  BY <1>1, CountType
<1>6. Count(s, f) = Count(<<Head(s)>>, f) + Count(Tail(s), f)
  BY <1>2, <1>3, Zenon
<1>. QED  BY <1>1, <1>4, <1>5, <1>6

\* A set of tasks in any order counts as the set does.
LEMMA CountSet ==
  ASSUME NEW S, IsFiniteSet(S), NEW s \in SetToSeqs(S), NEW f
  PROVE  s \in Seq(S) /\ Count(s, f) = Cardinality({t \in S : Moves(t, f)})
<1>. DEFINE D == 1 .. Cardinality(S)
<1>1. Cardinality(S) \in Nat
  BY FS_CardinalityType
<1>2. s \in [D -> S] /\ \A i, j \in D : i # j => s[i] # s[j]
  BY DEF SetToSeqs
<1>3. s \in Seq(S) /\ DOMAIN s = D
  BY <1>1, <1>2
<1>4. IsFiniteSet(D) /\ Cardinality(D) = Cardinality(S)
  BY <1>1, FS_Interval
<1>5. s \in Surjection(D, S)
  <2>1. s \in Injection(D, S)
    BY <1>2 DEF Injection, IsInjective
  <2>. QED  BY <1>4, <2>1, FS_Injection
<1>6. \A z \in S : \E n \in D : s[n] = z
  BY <1>5 DEF Surjection
<1>. DEFINE P == {n \in D : Moves(s[n], f)}
            T == {t \in S : Moves(t, f)}
            g == [n \in P |-> s[n]]
<1>7. IsFiniteSet(P)
  BY <1>4, FS_Subset
<1>8. g \in [P -> T] /\ (\A x, y \in P : g[x] = g[y] => x = y) /\ (\A z \in T : \E x \in P : g[x] = z)
  BY <1>2, <1>6
<1>9. Count(s, f) = Cardinality(P)
  BY <1>3 DEF Count
<1>10. Cardinality(T) = Cardinality(P)
  <2>. HIDE DEF P, T, g
  <2>. QED  BY <1>7, <1>8, SameNumber
<1>. QED  BY <1>3, <1>9, <1>10

\* A fiber of the set is resumed once, and no other.
LEMMA CountResumes ==
  ASSUME OneWorker, NEW fs \in SUBSET Fiber, NEW s \in Resumes(fs), NEW f
  PROVE  s \in Seq(Tasks) /\ Count(s, f) = IF f \in fs THEN 1 ELSE 0
<1>. DEFINE S == {Resume(g) : g \in fs}
<1>1. \A g : Resume(g).fiber = g /\ Resume(g).kind = "fiber" /\ Resume(g).op = 0
             /\ Resume(g) = [kind |-> "fiber", fiber |-> g, op |-> 0]
  BY DEF Resume, Task
<1>2. S \subseteq Tasks
  BY <1>1 DEF Tasks
<1>3. IsFiniteSet(S)
  <2>1. IsFiniteSet(fs)
    BY FS_Subset DEF OneWorker
  <2>. DEFINE g == [h \in fs |-> Resume(h)]
  <2>2. g \in [fs -> S] /\ (\A x, y \in fs : g[x] = g[y] => x = y) /\ (\A z \in S : \E x \in fs : g[x] = z)
    BY <1>1
  <2>. HIDE DEF g, S
  <2>. QED  BY <2>1, <2>2, SameNumber
<1>4. s \in SetToSeqs(S)
  BY DEF Resumes
<1>5. s \in Seq(S) /\ Count(s, f) = Cardinality({t \in S : Moves(t, f)})
  <2>. HIDE DEF S
  <2>. QED  BY <1>3, <1>4, CountSet
<1>6. s \in Seq(Tasks)
  <2>. HIDE DEF S
  <2>. QED  BY <1>2, <1>5, SeqMonotonic
<1>7. {t \in S : Moves(t, f)} = IF f \in fs THEN {Resume(f)} ELSE {}
  BY <1>1 DEF Moves
<1>. HIDE DEF S
<1>. QED  BY <1>5, <1>6, <1>7, FS_Singleton, FS_EmptySet

\* Of the timers that fall due, one at most is to wake a fiber.
LEMMA CountExpired ==
  ASSUME PoolType, NEW s \in SetToSeqs(due), NEW f
  PROVE  s \in Seq(Tasks) /\ Count(s, f) = IF WakeUp(f) \in due THEN 1 ELSE 0
<1>1. IsFiniteSet(due) /\ due \subseteq Tasks /\ \A t \in due : t.kind = "timeout" \/ t = WakeUp(t.fiber)
  BY FS_Subset DEF PoolType
<1>2. s \in Seq(due) /\ Count(s, f) = Cardinality({t \in due : Moves(t, f)})
  BY <1>1, CountSet
<1>3. s \in Seq(Tasks)
  BY <1>1, <1>2, SeqMonotonic
<1>4. WakeUp(f).fiber = f /\ WakeUp(f).kind = "wake"
  BY DEF WakeUp, Task
<1>5. {t \in due : Moves(t, f)} = IF WakeUp(f) \in due THEN {WakeUp(f)} ELSE {}
  BY <1>1, <1>4 DEF Moves
<1>. QED  BY <1>2, <1>3, <1>5, FS_Singleton, FS_EmptySet

-----------------------------------------------------------------------------
(* Where a fiber waits, for one worker w *)

Is(b) == IF b THEN 1 ELSE 0
InHand(w, f) == workers[w].at = "resume" /\ Moves(workers[w].task, f)

\* A set with one element at most has as many as that.
LEMMA IsNumber ==
  ASSUME NEW x, NEW T \in SUBSET {x}
  PROVE  Cardinality(T) = Is(x \in T)
<1>1. T = IF x \in T THEN {x} ELSE {}
  OBVIOUS
<1>. QED  BY <1>1, FS_Singleton, FS_EmptySet DEF Is

\* The four places: the queue, the worker's hand, the events and the timers.
Places(w, f) ==
  Count(tasks, f) + Is(InHand(w, f)) + Is(f \in events) + Is(WakeUp(f) \in timers)

\* Waits counts them.
LEMMA WaitsIs ==
  ASSUME NEW w, Worker = {w}, NEW f
  PROVE  Waits(f) = Places(w, f)
<1>. DEFINE T == {v \in {w} : workers[v].at = "resume" /\ workers[v].task.fiber = f
                                /\ workers[v].task.kind # "timeout"}
<1>1. Cardinality(T) = Is(InHand(w, f))
  <2>1. T \in SUBSET {w} /\ (w \in T <=> InHand(w, f))
    BY DEF InHand, Moves
  <2>. HIDE DEF T
  <2>. QED  BY <2>1, IsNumber DEF Is
<1>2. Cardinality({f} \cap events) = Is(f \in events)
  BY IsNumber DEF Is
<1>3. Cardinality({WakeUp(f)} \cap timers) = Is(WakeUp(f) \in timers)
  BY IsNumber DEF Is
<1>4. Cardinality({n \in DOMAIN tasks : tasks[n].fiber = f /\ tasks[n].kind # "timeout"})
        = Count(tasks, f)
  BY DEF Count, Moves
<1>. QED  BY <1>1, <1>2, <1>3, <1>4 DEF Waits, Places

\* So it does after a step.
LEMMA WaitsIsNext ==
  ASSUME NEW w, Worker = {w}, NEW f
  PROVE  Waits(f)' = Places(w, f)'
<1>. DEFINE T == {v \in {w} : workers'[v].at = "resume" /\ workers'[v].task.fiber = f
                                /\ workers'[v].task.kind # "timeout"}
<1>1. Cardinality(T) = Is(InHand(w, f)')
  <2>1. T \in SUBSET {w} /\ (w \in T <=> InHand(w, f)')
    BY DEF InHand, Moves
  <2>. HIDE DEF T
  <2>. QED  BY <2>1, IsNumber DEF Is
<1>2. Cardinality({f} \cap events') = Is(f \in events')
  BY IsNumber DEF Is
<1>3. Cardinality({WakeUp(f)} \cap timers') = Is(WakeUp(f) \in timers')
  BY IsNumber DEF Is
<1>4. Cardinality({n \in DOMAIN tasks' : tasks'[n].fiber = f /\ tasks'[n].kind # "timeout"})
        = Count(tasks', f)
  BY DEF Count, Moves
<1>. QED  BY <1>1, <1>2, <1>3, <1>4 DEF Waits, Places, WakeUp, Task

-----------------------------------------------------------------------------
(* Types *)

Labels == {"take", "toIdle", "exit", "resume", "run", "timers", "events", "queue", "wait",
           "expire", "trigger"}
WorkerRecord == [at : Labels, task : Tasks \cup {NoTask}, timeout : {Never, Soon},
                 ready : SUBSET Fiber, piped : BOOLEAN, idleEnded : BOOLEAN]
FiberRecord == [state : {"none", "ready", "running", "term"},
                at : {"run", "asleep", "read", "addEvent", "waiting", "woken"}, op : Nat,
                inRead : BOOLEAN, timed : BOOLEAN, cancelled : BOOLEAN]

\* The types in terms of these.
LEMMA TypeParts ==
  PoolType <=> /\ tasks \in Seq(Tasks) /\ workers \in [Worker -> WorkerRecord]
               /\ isStopped \in BOOLEAN /\ pipe \in BOOLEAN
               /\ due \subseteq timers /\ timers \subseteq Tasks /\ IsFiniteSet(timers)
               /\ \A t \in timers : t.kind = "timeout" \/ t = WakeUp(t.fiber)
               /\ events \subseteq Fiber /\ fibers \in [Fiber -> FiberRecord]
BY DEF PoolType, WorkerRecord, FiberRecord, Labels

\* The tasks that name a fiber are tasks.
LEMMA TaskTypes ==
  ASSUME NEW f \in Fiber
  PROVE  /\ Start(f) \in Tasks /\ Resume(f) \in Tasks /\ WakeUp(f) \in Tasks
         /\ Start(f).fiber = f /\ Resume(f).fiber = f /\ WakeUp(f).fiber = f
         /\ Start(f).kind = "start" /\ Resume(f).kind = "fiber" /\ WakeUp(f).kind = "wake"
         /\ PoolType => Timeout(f) \in Tasks /\ Timeout(f).kind = "timeout"
BY DEF Start, Resume, WakeUp, Timeout, Task, Tasks, PoolType

\* A worker elsewhere is a worker, and so is one that is done with its task.
LEMMA AtType ==
  ASSUME workers \in [Worker -> WorkerRecord], NEW w \in Worker, NEW label \in Labels
  PROVE  /\ [workers EXCEPT ![w].at = label] \in [Worker -> WorkerRecord]
         /\ \A task \in Tasks \cup {NoTask} :
              [workers EXCEPT ![w].at = label, ![w].task = task] \in [Worker -> WorkerRecord]
         /\ [workers EXCEPT ![w].at = label, ![w].idleEnded = TRUE] \in [Worker -> WorkerRecord]
         /\ [workers EXCEPT ![w].at = label, ![w].ready = {}, ![w].piped = FALSE]
              \in [Worker -> WorkerRecord]
         /\ \A time \in {Never, Soon} :
              [workers EXCEPT ![w].at = label, ![w].timeout = time] \in [Worker -> WorkerRecord]
         /\ \A fs \in SUBSET Fiber, b \in BOOLEAN :
              [workers EXCEPT ![w].at = label, ![w].timeout = Never, ![w].ready = fs,
                              ![w].piped = b] \in [Worker -> WorkerRecord]
<1>1. [workers EXCEPT ![w].at = label] \in [Worker -> WorkerRecord]
  BY DEF WorkerRecord
<1>2. \A task \in Tasks \cup {NoTask} :
        [workers EXCEPT ![w].at = label, ![w].task = task] \in [Worker -> WorkerRecord]
  BY DEF WorkerRecord
<1>3. [workers EXCEPT ![w].at = label, ![w].idleEnded = TRUE] \in [Worker -> WorkerRecord]
  BY DEF WorkerRecord
<1>4. [workers EXCEPT ![w].at = label, ![w].ready = {}, ![w].piped = FALSE]
        \in [Worker -> WorkerRecord]
  BY DEF WorkerRecord
<1>5. \A time \in {Never, Soon} :
        [workers EXCEPT ![w].at = label, ![w].timeout = time] \in [Worker -> WorkerRecord]
  BY DEF WorkerRecord
<1>6. \A fs \in SUBSET Fiber, b \in BOOLEAN :
        [workers EXCEPT ![w].at = label, ![w].timeout = Never, ![w].ready = fs, ![w].piped = b]
          \in [Worker -> WorkerRecord]
  <2>. TAKE fs \in SUBSET Fiber, b \in BOOLEAN
  <2>1. PICK v : v = [workers EXCEPT ![w].at = label, ![w].timeout = Never]
    OBVIOUS
  <2>2. v \in [Worker -> WorkerRecord]
    BY <1>5, <2>1
  <2>3. [v EXCEPT ![w].ready = fs, ![w].piped = b] \in [Worker -> WorkerRecord]
    BY <2>2 DEF WorkerRecord
  <2>4. [workers EXCEPT ![w].at = label, ![w].timeout = Never, ![w].ready = fs, ![w].piped = b]
          = [v EXCEPT ![w].ready = fs, ![w].piped = b]
    BY <2>1
  <2>. QED  BY <2>3, <2>4
<1>. QED  BY <1>1, <1>2, <1>3, <1>4, <1>5, <1>6

\* What a step leaves alone keeps its type.
LEMMA SameTypes ==
  ASSUME PoolType
  PROVE  /\ UNCHANGED tasks => tasks' \in Seq(Tasks)
         /\ UNCHANGED workers => workers' \in [Worker -> WorkerRecord]
         /\ UNCHANGED isStopped => isStopped' \in BOOLEAN
         /\ \A wanted \in BOOLEAN : pipe' = Tickled(wanted) => pipe' \in BOOLEAN
         /\ UNCHANGED <<timers, due>> =>
              /\ due' \subseteq timers' /\ timers' \subseteq Tasks /\ IsFiniteSet(timers')
              /\ \A t \in timers' : t.kind = "timeout" \/ t = WakeUp(t.fiber)
         /\ UNCHANGED pipe => pipe' \in BOOLEAN
         /\ UNCHANGED events => events' \subseteq Fiber
         /\ UNCHANGED fibers => fibers' \in [Fiber -> FiberRecord]
BY TypeParts DEF Tickled

\* The types after a step in terms of the records.
LEMMA TypeNext ==
  ASSUME tasks' \in Seq(Tasks), workers' \in [Worker -> WorkerRecord], isStopped' \in BOOLEAN,
         pipe' \in BOOLEAN, due' \subseteq timers', timers' \subseteq Tasks, IsFiniteSet(timers'),
         \A t \in timers' : t.kind = "timeout" \/ t = WakeUp(t.fiber),
         events' \subseteq Fiber, fibers' \in [Fiber -> FiberRecord]
  PROVE  PoolType'
BY DEF PoolType, WorkerRecord, FiberRecord, Labels, WakeUp, Task

\* A step of the worker between tasks leaves the types.
LEMMA IdleType ==
  ASSUME PoolType, NEW w \in Worker,
         \/ Take(w) \/ TakeNothing(w) \/ GoIdle(w) \/ CheckTimers(w) \/ CheckEvents(w)
         \/ CheckQueue(w) \/ EpollWait(w)
  PROVE  PoolType'
<1>. USE DEF MoveTo, IdleOnly
<1>1. workers \in [Worker -> WorkerRecord]
  BY TypeParts
<1>2. CASE Take(w)
  <2>1. tasks \in Seq(Tasks) /\ tasks # <<>>
    BY <1>2, TypeParts DEF Take
  <2>2. Head(tasks) \in Tasks /\ Tail(tasks) \in Seq(Tasks)
    BY <2>1
  <2>3. workers' \in [Worker -> WorkerRecord]
    <3>1. workers' = [workers EXCEPT ![w].at = "resume", ![w].task = Head(tasks)]
      BY <1>2 DEF Take
    <3>2. "resume" \in Labels /\ Head(tasks) \in Tasks \cup {NoTask}
      BY <2>2 DEF Labels
    <3>. QED  BY <1>1, <3>1, <3>2, AtType
  <2>4. pipe' = Tickled(Len(tasks) > 1) /\ (Len(tasks) > 1) \in BOOLEAN
    BY <1>2 DEF Take
  <2>5. pipe' \in BOOLEAN
    BY <2>4, SameTypes
  <2>6. tasks' = Tail(tasks) /\ UNCHANGED <<isStopped, timers, due, events, fibers>>
    BY <1>2 DEF Take
  <2>. QED  BY <2>2, <2>3, <2>5, <2>6, SameTypes, TypeNext
<1>3. CASE \/ TakeNothing(w) \/ GoIdle(w) \/ CheckTimers(w) \/ CheckEvents(w) \/ CheckQueue(w)
  <2>1. \E label \in Labels :
          \/ workers' = [workers EXCEPT ![w].at = label]
          \/ workers' = [workers EXCEPT ![w].at = label, ![w].idleEnded = TRUE]
          \/ \E time \in {Never, Soon} :
               workers' = [workers EXCEPT ![w].at = label, ![w].timeout = time]
    <3>1. {"exit", "toIdle", "timers", "events", "queue", "wait", "take"} \subseteq Labels
      BY DEF Labels
    <3>2. CASE TakeNothing(w)
      BY <3>1, <3>2 DEF TakeNothing
    <3>3. CASE GoIdle(w)
      BY <3>1, <3>3 DEF GoIdle
    <3>4. CASE CheckTimers(w)
      BY <3>1, <3>4 DEF CheckTimers
    <3>5. CASE CheckEvents(w)
      BY <3>1, <3>5 DEF CheckEvents
    <3>6. CASE CheckQueue(w)
      BY <3>1, <3>6 DEF CheckQueue
    <3>. QED  BY <1>3, <3>2, <3>3, <3>4, <3>5, <3>6
  <2>2. workers' \in [Worker -> WorkerRecord]
    <3>1. PICK label \in Labels :
            \/ workers' = [workers EXCEPT ![w].at = label]
            \/ workers' = [workers EXCEPT ![w].at = label, ![w].idleEnded = TRUE]
            \/ \E time \in {Never, Soon} :
                 workers' = [workers EXCEPT ![w].at = label, ![w].timeout = time]
      BY <2>1
    <3>2. CASE workers' = [workers EXCEPT ![w].at = label]
      BY <1>1, <3>2, AtType
    <3>3. CASE workers' = [workers EXCEPT ![w].at = label, ![w].idleEnded = TRUE]
      BY <1>1, <3>3, AtType
    <3>4. CASE \E time \in {Never, Soon} :
                 workers' = [workers EXCEPT ![w].at = label, ![w].timeout = time]
      <4>1. PICK time \in {Never, Soon} :
              workers' = [workers EXCEPT ![w].at = label, ![w].timeout = time]
        BY <3>4
      <4>2. [workers EXCEPT ![w].at = label, ![w].timeout = time] \in [Worker -> WorkerRecord]
        BY <1>1, AtType
      <4>. QED  BY <4>1, <4>2
    <3>. QED  BY <3>1, <3>2, <3>3, <3>4
  <2>3. UNCHANGED <<tasks, isStopped, pipe, timers, due, events, fibers>>
    BY <1>3 DEF TakeNothing, GoIdle, CheckTimers, CheckEvents, CheckQueue
  <2>. QED  BY <2>2, <2>3, SameTypes, TypeNext
<1>4. CASE EpollWait(w)
  <2>2. workers' \in [Worker -> WorkerRecord]
    <3>1. workers' = [workers EXCEPT ![w].at = "expire", ![w].timeout = Never,
                                     ![w].ready = Ready, ![w].piped = pipe]
      BY <1>4 DEF EpollWait
    <3>2. "expire" \in Labels /\ Ready \in SUBSET Fiber /\ pipe \in BOOLEAN
      BY TypeParts DEF Labels, Ready
    <3>. QED  BY <1>1, <3>1, <3>2, AtType
  <2>. QED  BY <1>4, <2>2, SameTypes, TypeNext DEF EpollWait
<1>. QED  BY <1>2, <1>3, <1>4

\* A fiber with other values in its fields is a fiber.
LEMMA FiberSet ==
  ASSUME fibers \in [Fiber -> FiberRecord], NEW f \in Fiber
  PROVE  /\ \A state \in {"ready", "running", "term"} :
              [fibers EXCEPT ![f].state = state] \in [Fiber -> FiberRecord]
         /\ \A at \in {"run", "read", "addEvent", "waiting", "woken"} :
              [fibers EXCEPT ![f].at = at] \in [Fiber -> FiberRecord]
         /\ \A at \in {"run", "woken"} :
              [fibers EXCEPT ![f].state = "ready", ![f].at = at] \in [Fiber -> FiberRecord]
         /\ \A b \in BOOLEAN :
              [fibers EXCEPT ![f].cancelled = b] \in [Fiber -> FiberRecord]
         /\ [fibers EXCEPT ![f].op = @ + 1] \in [Fiber -> FiberRecord]
         /\ [fibers EXCEPT ![f].at = "asleep", ![f].op = @ + 1] \in [Fiber -> FiberRecord]
         /\ \A timed \in BOOLEAN :
              [fibers EXCEPT ![f].at = "read", ![f].op = @ + 1, ![f].inRead = TRUE,
                              ![f].timed = timed] \in [Fiber -> FiberRecord]
         /\ [fibers EXCEPT ![f].at = "run", ![f].inRead = FALSE, ![f].timed = FALSE,
                            ![f].cancelled = FALSE] \in [Fiber -> FiberRecord]
<1>1. \A state \in {"ready", "running", "term"} :
        [fibers EXCEPT ![f].state = state] \in [Fiber -> FiberRecord]
  BY DEF FiberRecord
<1>2. \A at \in {"run", "read", "addEvent", "waiting", "woken"} :
        [fibers EXCEPT ![f].at = at] \in [Fiber -> FiberRecord]
  BY DEF FiberRecord
<1>3. \A at \in {"run", "woken"} :
        [fibers EXCEPT ![f].state = "ready", ![f].at = at] \in [Fiber -> FiberRecord]
  BY DEF FiberRecord
<1>4. \A b \in BOOLEAN :
        [fibers EXCEPT ![f].cancelled = b] \in [Fiber -> FiberRecord]
  BY DEF FiberRecord
<1>5. [fibers EXCEPT ![f].op = @ + 1] \in [Fiber -> FiberRecord]
  BY DEF FiberRecord
<1>6. ASSUME NEW at \in {"asleep", "read"}
      PROVE  [fibers EXCEPT ![f].at = at, ![f].op = @ + 1] \in [Fiber -> FiberRecord]
  <2>1. PICK v : v = [fibers EXCEPT ![f].at = at]
    OBVIOUS
  <2>2. v \in [Fiber -> FiberRecord]
    BY <2>1 DEF FiberRecord
  <2>3. [fibers EXCEPT ![f].at = at, ![f].op = @ + 1] = [v EXCEPT ![f].op = @ + 1]
    BY <2>1
  <2>4. [v EXCEPT ![f].op = @ + 1] \in [Fiber -> FiberRecord]
    <3>1. v[f] \in FiberRecord
      BY <2>2
    <3>2. [v[f] EXCEPT !.op = @ + 1] \in FiberRecord
      BY <3>1 DEF FiberRecord
    <3>. QED  BY <2>2, <3>2
  <2>. QED  BY <2>3, <2>4
<1>7. \A timed \in BOOLEAN :
        [fibers EXCEPT ![f].at = "read", ![f].op = @ + 1, ![f].inRead = TRUE,
                        ![f].timed = timed] \in [Fiber -> FiberRecord]
  <2>. TAKE timed \in BOOLEAN
  <2>1. PICK v : v = [fibers EXCEPT ![f].at = "read", ![f].op = @ + 1]
    OBVIOUS
  <2>2. v \in [Fiber -> FiberRecord]
    BY <1>6, <2>1
  <2>3. [fibers EXCEPT ![f].at = "read", ![f].op = @ + 1, ![f].inRead = TRUE, ![f].timed = timed]
          = [v EXCEPT ![f].inRead = TRUE, ![f].timed = timed]
    BY <2>1
  <2>4. [v EXCEPT ![f].inRead = TRUE, ![f].timed = timed] \in [Fiber -> FiberRecord]
    <3>1. v[f] \in FiberRecord
      BY <2>2
    <3>2. [v[f] EXCEPT !.inRead = TRUE, !.timed = timed] \in FiberRecord
      BY <3>1 DEF FiberRecord
    <3>. QED  BY <2>2, <3>2
  <2>. QED  BY <2>3, <2>4
<1>8. [fibers EXCEPT ![f].at = "run", ![f].inRead = FALSE, ![f].timed = FALSE,
                      ![f].cancelled = FALSE] \in [Fiber -> FiberRecord]
  <2>1. PICK v : v = [fibers EXCEPT ![f].at = "run", ![f].inRead = FALSE]
    OBVIOUS
  <2>2. v \in [Fiber -> FiberRecord]
    BY <2>1 DEF FiberRecord
  <2>3. [fibers EXCEPT ![f].at = "run", ![f].inRead = FALSE, ![f].timed = FALSE,
                       ![f].cancelled = FALSE]
          = [v EXCEPT ![f].timed = FALSE, ![f].cancelled = FALSE]
    BY <2>1
  <2>4. [v EXCEPT ![f].timed = FALSE, ![f].cancelled = FALSE] \in [Fiber -> FiberRecord]
    BY <2>2 DEF FiberRecord
  <2>. QED  BY <2>3, <2>4
<1>. QED  BY <1>1, <1>2, <1>3, <1>4, <1>5, <1>6, <1>7, <1>8

-----------------------------------------------------------------------------
(* The invariant for the one worker w *)

\* The number of places where a fiber is to wait.
Owed(f) ==
  IF fibers[f].state = "ready" THEN 1
  ELSE IF fibers[f].state = "running" /\ fibers[f].at \in {"asleep", "waiting"} THEN 1 ELSE 0

HandKept(w) ==
  /\ workers[w].at \in {"resume", "run"} => workers[w].task \in Tasks
  /\ workers[w].at = "run" => fibers[Running(w)].state = "running"

FiberKept(w, f) ==
  /\ fibers[f].state = "running" => workers[w].at = "run" /\ Running(w) = f
  /\ fibers[f].state \in {"none", "ready"} => fibers[f].at \in {"run", "woken"}
  /\ Places(w, f) = Owed(f)

WorkerInv(w) ==
  /\ Worker = {w} /\ IsFiniteSet(Fiber)
  /\ PoolType /\ HandKept(w)
  /\ \A f \in Fiber : FiberKept(w, f)
  /\ LookedAt
  /\ pendingEventCnt = Cardinality(events)

\* It is the invariant of the pool.
LEMMA ForWorker ==
  ASSUME NEW w, Worker = {w}, IsFiniteSet(Fiber)
  PROVE  PoolInv <=> WorkerInv(w)
<1>1. WorkersFiber <=>
        /\ HandKept(w)
        /\ \A f \in Fiber :
             /\ fibers[f].state = "running" => workers[w].at = "run" /\ Running(w) = f
             /\ fibers[f].state \in {"none", "ready"} => fibers[f].at \in {"run", "woken"}
  BY DEF WorkersFiber, HandKept
<1>2. OneWait <=> \A f \in Fiber : Places(w, f) = Owed(f)
  <2>1. \A f \in Fiber : Waits(f) = Places(w, f)
    BY WaitsIs
  <2>. QED  BY <2>1 DEF OneWait, Owed
<1>. QED  BY <1>1, <1>2 DEF PoolInv, WorkerInv, FiberKept

\* So it is after a step.
LEMMA ForWorkerNext ==
  ASSUME NEW w, Worker = {w}, IsFiniteSet(Fiber)
  PROVE  PoolInv' <=> WorkerInv(w)'
<1>1. WorkersFiber' <=>
        /\ HandKept(w)'
        /\ \A f \in Fiber :
             /\ fibers'[f].state = "running" => workers'[w].at = "run" /\ Running(w)' = f
             /\ fibers'[f].state \in {"none", "ready"} => fibers'[f].at \in {"run", "woken"}
  BY DEF WorkersFiber, HandKept
<1>2. OneWait' <=> \A f \in Fiber : Places(w, f)' = Owed(f)'
  <2>1. \A f \in Fiber : Waits(f)' = Places(w, f)'
    BY WaitsIsNext
  <2>. QED  BY <2>1 DEF OneWait, Owed
<1>. QED  BY <1>1, <1>2 DEF PoolInv, WorkerInv, FiberKept

\* At the start no fiber is there.
LEMMA InitInv ==
  ASSUME NEW w, Worker = {w}, IsFiniteSet(Fiber), PoolInit
  PROVE  WorkerInv(w)
<1>1. PoolType
  <2>1. IsFiniteSet(timers)
    BY FS_EmptySet DEF PoolInit
  <2>2. workers \in [Worker -> WorkerRecord]
    BY DEF PoolInit, WorkerRecord, Labels
  <2>3. fibers \in [Fiber -> FiberRecord]
    BY DEF PoolInit, FiberRecord
  <2>4. tasks \in Seq(Tasks)
    BY DEF PoolInit
  <2>. QED  BY <2>1, <2>2, <2>3, <2>4, TypeParts DEF PoolInit
<1>2. HandKept(w) /\ LookedAt
  BY DEF PoolInit, HandKept, LookedAt
<1>3. ASSUME NEW f \in Fiber PROVE FiberKept(w, f)
  <2>1. Count(tasks, f) = 0
    <3>1. {n \in DOMAIN tasks : Moves(tasks[n], f)} = {}
      BY DEF PoolInit
    <3>. QED  BY <3>1, FS_EmptySet DEF Count
  <2>2. ~InHand(w, f) /\ f \notin events /\ WakeUp(f) \notin timers
    BY DEF PoolInit, InHand
  <2>3. Places(w, f) = 0
    BY <2>1, <2>2 DEF Places, Is
  <2>. QED  BY <2>3 DEF FiberKept, Owed, PoolInit
<1>4. pendingEventCnt = Cardinality(events)
  BY FS_EmptySet DEF PoolInit
<1>. QED  BY <1>1, <1>2, <1>3, <1>4 DEF WorkerInv

\* A fiber whose places and state stay is kept, when no fiber starts or stops to run.
LEMMA SameFiber ==
  ASSUME NEW w, NEW f, FiberKept(w, f), fibers'[f].state = fibers[f].state,
         fibers'[f].at = fibers[f].at,
         \/ fibers[f].state # "running"
         \/ workers'[w].at = workers[w].at /\ workers'[w].task = workers[w].task,
         Places(w, f)' = Places(w, f)
  PROVE  FiberKept(w, f)'
BY DEF FiberKept, Owed, Running

\* No fiber is in the worker's hand or run by it.
Between(w) == workers[w].at \notin {"resume", "run"}

\* A step between tasks that leaves queue, timers, events and fibers leaves what waits.
LEMMA BetweenKept ==
  ASSUME NEW w, WorkerInv(w), Between(w), Between(w)',
         UNCHANGED <<tasks, timers, events, fibers>>
  PROVE  HandKept(w)' /\ \A f \in Fiber : FiberKept(w, f)'
<1>1. HandKept(w)'
  BY DEF HandKept, Between
<1>2. ASSUME NEW f \in Fiber PROVE FiberKept(w, f)'
  <2>1. FiberKept(w, f)
    BY DEF WorkerInv
  <2>2. fibers[f].state # "running"
    BY <2>1 DEF FiberKept, Between
  <2>3. InHand(w, f) = FALSE /\ InHand(w, f)' = FALSE
    BY DEF InHand, Between
  <2>4. Is(InHand(w, f)) = Is(InHand(w, f)')
    BY <2>3, Zenon
  <2>5. Places(w, f)' = Places(w, f)
    BY <2>4, Zenon DEF Places, WakeUp, Task
  <2>. QED  BY <2>1, <2>2, <2>5, SameFiber
<1>. QED  BY <1>1, <1>2

\* The steps of the worker that take, wake and trigger nothing keep the invariant.
LEMMA IdleInv ==
  ASSUME NEW w, WorkerInv(w),
         \/ TakeNothing(w) \/ GoIdle(w) \/ CheckTimers(w) \/ CheckEvents(w)
         \/ CheckQueue(w) \/ EpollWait(w)
  PROVE  WorkerInv(w)'
<1>. USE DEF MoveTo, IdleOnly
<1>1. w \in Worker /\ Worker = {w} /\ IsFiniteSet(Fiber) /\ PoolType /\ LookedAt
      /\ pendingEventCnt = Cardinality(events)
  BY DEF WorkerInv
<1>2. workers \in [Worker -> WorkerRecord]
  BY <1>1, TypeParts
<1>3. PoolType'
  BY <1>1, IdleType
<1>4. UNCHANGED <<tasks, timers, events, fibers, isStopped, pendingEventCnt>>
  BY DEF TakeNothing, GoIdle, CheckTimers, CheckEvents, CheckQueue, EpollWait
<1>5. Between(w) /\ Between(w)'
  <2>1. CASE TakeNothing(w)
    BY <1>1, <1>2, <2>1 DEF TakeNothing, Between
  <2>2. CASE GoIdle(w)
    BY <1>1, <1>2, <2>2 DEF GoIdle, Between
  <2>3. CASE CheckTimers(w)
    BY <1>1, <1>2, <2>3 DEF CheckTimers, Between, WorkerRecord
  <2>4. CASE CheckEvents(w)
    BY <1>1, <1>2, <2>4 DEF CheckEvents, Between
  <2>5. CASE CheckQueue(w)
    BY <1>1, <1>2, <2>5 DEF CheckQueue, Between, WorkerRecord
  <2>6. CASE EpollWait(w)
    BY <1>1, <1>2, <2>6 DEF EpollWait, Between, WorkerRecord
  <2>. QED  BY <2>1, <2>2, <2>3, <2>4, <2>5, <2>6
<1>6. HandKept(w)' /\ \A f \in Fiber : FiberKept(w, f)'
  BY <1>4, <1>5, BetweenKept
<1>7. LookedAt'
  <2>1. CASE TakeNothing(w)
    BY <1>1, <1>2, <1>4, <2>1 DEF TakeNothing, LookedAt, WorkerRecord
  <2>2. CASE GoIdle(w)
    BY <1>1, <1>2, <1>4, <2>2 DEF GoIdle, LookedAt, WorkerRecord
  <2>3. CASE CheckTimers(w)
    BY <1>1, <1>2, <1>4, <2>3 DEF CheckTimers, LookedAt, WorkerRecord
  <2>4. CASE CheckEvents(w)
    <3>1. pendingEventCnt = 0 => events = {}
      <4>1. IsFiniteSet(events)
        BY <1>1, FS_Subset, TypeParts
      <4>. QED  BY <1>1, <4>1, FS_EmptySet
    <3>. QED  BY <1>1, <1>2, <1>4, <2>4, <3>1 DEF CheckEvents, LookedAt, WorkerRecord
  <2>5. CASE CheckQueue(w)
    BY <1>1, <1>2, <1>4, <2>5 DEF CheckQueue, LookedAt, WorkerRecord
  <2>6. CASE EpollWait(w)
    BY <1>1, <1>2, <1>4, <2>6 DEF EpollWait, LookedAt, WorkerRecord
  <2>. QED  BY <2>1, <2>2, <2>3, <2>4, <2>5, <2>6
<1>. QED  BY <1>1, <1>3, <1>4, <1>6, <1>7 DEF WorkerInv

\* What the invariant says of the worker and of a fiber.
LEMMA Facts ==
  ASSUME NEW w, WorkerInv(w)
  PROVE  /\ w \in Worker /\ Worker = {w} /\ IsFiniteSet(Fiber) /\ OneWorker
         /\ PoolType /\ tasks \in Seq(Tasks) /\ workers \in [Worker -> WorkerRecord]
         /\ fibers \in [Fiber -> FiberRecord] /\ workers[w] \in WorkerRecord
         /\ HandKept(w) /\ LookedAt /\ pendingEventCnt = Cardinality(events)
         /\ \A f \in Fiber : FiberKept(w, f) /\ fibers[f] \in FiberRecord /\ Count(tasks, f) \in Nat
BY TypeParts, CountType DEF WorkerInv, OneWorker

\* The task that is taken is in the worker's hand and no longer in the queue.
LEMMA TakeInv ==
  ASSUME NEW w, WorkerInv(w), Take(w)
  PROVE  WorkerInv(w)'
<1>1. PoolType'
  BY Facts, IdleType
<1>2. tasks # <<>> /\ tasks' = Tail(tasks) /\ workers[w].at = "take"
      /\ workers' = [workers EXCEPT ![w].at = "resume", ![w].task = Head(tasks)]
      /\ UNCHANGED <<timers, events, fibers, isStopped, pendingEventCnt>>
  BY DEF Take
<1>3. workers'[w].at = "resume" /\ workers'[w].task = Head(tasks)
      /\ workers'[w].idleEnded = workers[w].idleEnded
  BY <1>2, Facts DEF WorkerRecord
<1>4. Head(tasks) \in Tasks
  BY <1>2, Facts
<1>5. HandKept(w)'
  BY <1>3, <1>4 DEF HandKept
<1>6. ASSUME NEW f \in Fiber PROVE FiberKept(w, f)'
  <2>1. FiberKept(w, f) /\ Count(tasks, f) \in Nat
    BY Facts
  <2>2. fibers[f].state # "running"
    BY <1>2, <2>1 DEF FiberKept
  <2>3. Count(tasks, f) = Count(tasks', f) + Is(Moves(Head(tasks), f))
    BY <1>2, Facts, CountTail DEF Is
  <2>4. Count(tasks', f) \in Nat
    BY <1>1, CountType, TypeParts DEF PoolType
  <2>5. Is(InHand(w, f)) = 0 /\ Is(InHand(w, f)') = Is(Moves(Head(tasks), f))
    BY <1>2, <1>3 DEF InHand, Is
  <2>6. Is(f \in events') = Is(f \in events) /\ Is(WakeUp(f)' \in timers') = Is(WakeUp(f) \in timers)
    BY <1>2 DEF WakeUp, Task
  <2>7. Places(w, f) = Count(tasks, f) + Is(InHand(w, f)) + Is(f \in events) + Is(WakeUp(f) \in timers)
        /\ Places(w, f)' = Count(tasks', f) + Is(InHand(w, f)') + Is(f \in events') + Is(WakeUp(f)' \in timers')
    BY DEF Places
  <2>8. \A b : Is(b) \in Nat
    BY DEF Is
  <2>9. Places(w, f)' = Places(w, f)
    <3>. HIDE DEF Is, Places
    <3>1. PICK c, d, e, h, m \in Nat :
            c = Count(tasks, f) /\ d = Count(tasks', f) /\ e = Is(f \in events)
            /\ h = Is(WakeUp(f) \in timers) /\ m = Is(Moves(Head(tasks), f))
      BY <2>1, <2>4, <2>8
    <3>2. c = d + m /\ c + 0 + e + h = d + m + e + h
      BY <2>3, <3>1
    <3>. QED  BY <2>5, <2>6, <2>7, <3>1, <3>2
  <2>. QED  BY <1>2, <2>1, <2>2, <2>9, SameFiber
<1>7. LookedAt'
  BY <1>2, <1>3, Facts DEF LookedAt
<1>8. (pendingEventCnt = Cardinality(events))'
  BY <1>2, Facts
<1>. QED  BY <1>1, <1>5, <1>6, <1>7, <1>8, Facts DEF WorkerInv

\* The numbers that are added up, before a step and after it.
LEMMA PlacesAre ==
  ASSUME NEW w, WorkerInv(w), PoolType', NEW f \in Fiber
  PROVE  /\ Count(tasks, f) \in Nat /\ Count(tasks', f) \in Nat
         /\ Is(InHand(w, f)) \in Nat /\ Is(f \in events) \in Nat /\ Is(WakeUp(f) \in timers) \in Nat
         /\ Is(InHand(w, f)') \in Nat /\ Is(f \in events') \in Nat
         /\ Is(WakeUp(f) \in timers') \in Nat
         /\ Places(w, f) = Count(tasks, f) + Is(InHand(w, f)) + Is(f \in events)
                             + Is(WakeUp(f) \in timers)
         /\ Places(w, f)' = Count(tasks', f) + Is(InHand(w, f)') + Is(f \in events')
                              + Is(WakeUp(f) \in timers')
<1>1. Count(tasks, f) \in Nat
  BY Facts
<1>2. Count(tasks', f) \in Nat
  <2>1. tasks' \in Seq(Tasks)
    BY DEF PoolType
  <2>. QED  BY <2>1, CountType
<1>3. \A b : Is(b) \in Nat
  BY DEF Is
<1>4. WakeUp(f)' = WakeUp(f)
  BY DEF WakeUp, Task
<1>5. Places(w, f)' = Count(tasks', f) + Is(InHand(w, f)') + Is(f \in events')
                              + Is(WakeUp(f) \in timers')
  BY <1>4, Zenon DEF Places
<1>. QED  BY <1>1, <1>2, <1>3, <1>5 DEF Places

\* The fiber that is resumed was ready, and waits nowhere now.
LEMMA ResumeInv ==
  ASSUME NEW w, WorkerInv(w), ResumeFiber(w)
  PROVE  WorkerInv(w)'
<1>. DEFINE g == Running(w)
<1>1. workers[w].at = "resume" /\ workers[w].task \in Tasks /\ workers[w].task.kind \in {"start", "fiber"}
      /\ workers' = [workers EXCEPT ![w].at = "run"]
      /\ fibers' = [fibers EXCEPT ![g].state = "running"]
      /\ UNCHANGED <<tasks, timers, due, events, isStopped, pipe, pendingEventCnt>>
  BY Facts DEF ResumeFiber, MoveTo, HandKept
<1>2. g \in Fiber /\ g = workers[w].task.fiber
  BY <1>1 DEF Running, Tasks
<1>3. workers'[w].at = "run" /\ workers'[w].task = workers[w].task
      /\ workers'[w].idleEnded = workers[w].idleEnded
  BY <1>1, Facts DEF WorkerRecord
<1>4. fibers' \in [Fiber -> FiberRecord] /\ fibers'[g].state = "running" /\ fibers'[g].at = fibers[g].at
      /\ \A f \in Fiber : f # g => fibers'[f] = fibers[f]
  <2>1. fibers' \in [Fiber -> FiberRecord]
    BY <1>1, <1>2, Facts, FiberSet
  <2>. HIDE DEF g
  <2>. QED  BY <1>1, <1>2, <2>1, Facts DEF FiberRecord
<1>5. PoolType'
  <2>1. workers' \in [Worker -> WorkerRecord]
    <3>1. "run" \in Labels
      BY DEF Labels
    <3>. QED  BY <1>1, <3>1, Facts, AtType
  <2>. QED  BY <1>1, <1>4, <2>1, Facts, SameTypes, TypeNext
<1>6. HandKept(w)'
  BY <1>1, <1>2, <1>3, <1>4 DEF HandKept, Running
<1>. HIDE DEF g
<1>7. ASSUME NEW f \in Fiber PROVE FiberKept(w, f)'
  <2>1. FiberKept(w, f)
    BY Facts
  <2>2. fibers[f].state # "running"
    BY <1>1, <2>1 DEF FiberKept
  <2>3. Is(InHand(w, f)') = 0 /\ Is(InHand(w, f)) = Is(f = g)
    BY <1>1, <1>2, <1>3 DEF InHand, Is, Moves
  <2>4. Places(w, f)' = Places(w, f) - Is(f = g)
    <3>1. Count(tasks', f) = Count(tasks, f) /\ Is(f \in events') = Is(f \in events)
          /\ Is(WakeUp(f) \in timers') = Is(WakeUp(f) \in timers)
      BY <1>1, Zenon
    <3>. QED  BY <1>5, <2>3, <3>1, PlacesAre
  <2>5. CASE f # g
    <3>1. Places(w, f)' = Places(w, f)
      BY <1>5, <2>3, <2>4, <2>5, PlacesAre DEF Is
    <3>. QED  BY <1>4, <2>1, <2>2, <2>5, <3>1, SameFiber
  <2>6. CASE f = g
    <3>1. Is(f = g) = 1
      BY <2>6 DEF Is
    <3>2. Places(w, f) = Owed(f) /\ Places(w, f) >= 1
      BY <1>5, <2>1, <2>3, <3>1, PlacesAre DEF FiberKept
    <3>3. fibers[f].state = "ready" /\ fibers[f].at \in {"run", "woken"} /\ Owed(f) = 1
      BY <2>1, <2>2, <3>2 DEF Owed, FiberKept
    <3>4. Owed(f)' = 0
      BY <1>4, <2>6, <3>3 DEF Owed
    <3>5. Places(w, f)' = 0
      BY <2>4, <3>1, <3>2, <3>3
    <3>6. Running(w)' = f
      BY <1>2, <1>3, <2>6 DEF Running
    <3>. QED  BY <1>3, <1>4, <2>6, <3>3, <3>4, <3>5, <3>6 DEF FiberKept
  <2>. QED  BY <2>5, <2>6
<1>8. LookedAt'
  BY <1>1, <1>3, Facts DEF LookedAt
<1>9. (pendingEventCnt = Cardinality(events))'
  BY <1>1, Facts
<1>. QED  BY <1>5, <1>6, <1>7, <1>8, <1>9, Facts DEF WorkerInv

\* Fibers that move from the hand, the events or the timers to the queue are kept.
LEMMA QueuedKept ==
  ASSUME NEW w, WorkerInv(w), PoolType', NEW s \in Seq(Tasks), tasks' = tasks \o s,
         \/ workers[w].at # "run" /\ Between(w)'
         \/ UNCHANGED workers /\ workers[w].at = "run" /\ fibers'[Running(w)].state = "running",
         \A f \in Fiber : fibers'[f].state = fibers[f].state /\ fibers'[f].at = fibers[f].at,
         \A f \in Fiber : Count(s, f) + Is(f \in events') + Is(WakeUp(f) \in timers')
                            = Is(InHand(w, f)) + Is(f \in events) + Is(WakeUp(f) \in timers)
  PROVE  HandKept(w)' /\ \A f \in Fiber : FiberKept(w, f)'
<1>1. HandKept(w)'
  BY Facts DEF HandKept, Between, Running
<1>2. ASSUME NEW f \in Fiber PROVE FiberKept(w, f)'
  <2>1. FiberKept(w, f)
    BY Facts
  <2>2. Count(tasks', f) = Count(tasks, f) + Count(s, f) /\ Count(s, f) \in Nat
    <3>1. tasks \in Seq(Tasks)
      BY Facts
    <3>2. Count(tasks \o s, f) = Count(tasks, f) + Count(s, f)
      BY <3>1, CountConcat
    <3>3. Count(s, f) \in Nat
      BY CountType
    <3>. QED  BY <3>2, <3>3
  <2>3. Is(InHand(w, f)') = 0
    BY DEF InHand, Between, Is
  <2>4. Places(w, f)' = Places(w, f)
    <3>1. Count(s, f) + Is(f \in events') + Is(WakeUp(f) \in timers')
            = Is(InHand(w, f)) + Is(f \in events) + Is(WakeUp(f) \in timers)
      OBVIOUS
    <3>2. PICK c, d, e, h, i, k, m, n \in Nat :
            /\ c = Count(tasks, f) /\ d = Count(s, f) /\ e = Is(InHand(w, f))
            /\ h = Is(f \in events) /\ i = Is(WakeUp(f) \in timers)
            /\ k = Is(f \in events') /\ m = Is(WakeUp(f) \in timers') /\ n = Count(tasks', f)
      BY <2>2, PlacesAre
    <3>3. n = c + d /\ d + k + m = e + h + i
      BY <2>2, <3>1, <3>2
    <3>4. Places(w, f) = c + e + h + i
      BY <3>2, PlacesAre
    <3>5. Places(w, f)' = n + 0 + k + m
      BY <2>3, <3>2, PlacesAre
    <3>. QED  BY <3>3, <3>4, <3>5
  <2>5. \/ fibers[f].state # "running"
        \/ workers'[w].at = workers[w].at /\ workers'[w].task = workers[w].task
    BY <2>1 DEF FiberKept
  <2>. QED  BY <2>1, <2>4, <2>5, SameFiber
<1>. QED  BY <1>1, <1>2

\* A worker that was not in idle has not ended, and need not know what is queued.
LEMMA LookedElse ==
  ASSUME NEW w, WorkerInv(w),
         workers[w].at \notin {"take", "exit", "events", "queue"},
         workers'[w].at \notin {"events", "queue", "exit"},
         workers'[w].idleEnded = workers[w].idleEnded
  PROVE  LookedAt'
BY Facts DEF LookedAt

\* Queueing keeps the type of the queue and of the pipe.
LEMMA SchedulerType ==
  ASSUME PoolType, NEW s \in Seq(Tasks), Scheduler(s)
  PROVE  tasks' \in Seq(Tasks) /\ tasks' = tasks \o s /\ pipe' \in BOOLEAN
<1>1. tasks' = tasks \o s /\ pipe' = Tickled(tasks = <<>> /\ s # <<>>)
  BY DEF Scheduler
<1>2. tasks \in Seq(Tasks) /\ pipe \in BOOLEAN
  BY TypeParts
<1>3. tasks \o s \in Seq(Tasks)
  BY <1>2, ConcatProperties
<1>. QED  BY <1>1, <1>2, <1>3 DEF Tickled

\* A worker that is done with its task has none in its hand.
LEMMA TaskDoneIs ==
  ASSUME NEW w, WorkerInv(w), TaskDone(w)
  PROVE  /\ workers' \in [Worker -> WorkerRecord] /\ workers'[w].at = "take" /\ Between(w)'
         /\ workers'[w].idleEnded = workers[w].idleEnded
<1>1. workers' = [workers EXCEPT ![w].at = "take", ![w].task = NoTask] /\ "take" \in Labels
  BY DEF TaskDone, Labels
<1>2. workers' \in [Worker -> WorkerRecord]
  BY <1>1, Facts, AtType
<1>3. workers'[w].at = "take" /\ workers'[w].idleEnded = workers[w].idleEnded
  BY <1>1, Facts DEF WorkerRecord
<1>. QED  BY <1>2, <1>3 DEF Between

\* The callback of a sleep: what was in the hand to wake a fiber queues it.
LEMMA WakeInv ==
  ASSUME NEW w, WorkerInv(w), RunWake(w)
  PROVE  WorkerInv(w)'
<1>. DEFINE g == workers[w].task.fiber
<1>1. workers[w].at = "resume" /\ workers[w].task \in Tasks /\ workers[w].task.kind = "wake"
      /\ TaskDone(w) /\ Scheduler(<<Resume(g)>>)
      /\ UNCHANGED <<isStopped, timers, due, events, pendingEventCnt, fibers>>
  BY Facts DEF RunWake, HandKept, Running
<1>2. g \in Fiber /\ Resume(g) \in Tasks /\ Resume(g).fiber = g /\ Resume(g).kind = "fiber"
  BY <1>1, TaskTypes DEF Tasks
<1>3. <<Resume(g)>> \in Seq(Tasks)
  BY <1>2
<1>. HIDE DEF g
<1>4. PoolType'
  BY <1>1, <1>3, Facts, TaskDoneIs, SchedulerType, SameTypes, TypeNext
<1>5. ASSUME NEW f \in Fiber
      PROVE  Count(<<Resume(g)>>, f) + Is(f \in events') + Is(WakeUp(f) \in timers')
               = Is(InHand(w, f)) + Is(f \in events) + Is(WakeUp(f) \in timers)
  <2>1. Count(<<Resume(g)>>, f) = Is(f = g)
    BY <1>2, CountOne DEF Is, Moves
  <2>2. Is(InHand(w, f)) = Is(f = g)
    BY <1>1 DEF InHand, Moves, Is, g
  <2>3. Is(f \in events') = Is(f \in events) /\ Is(WakeUp(f) \in timers') = Is(WakeUp(f) \in timers)
    BY <1>1, Zenon
  <2>. QED  BY <2>1, <2>2, <2>3
<1>6. HandKept(w)' /\ \A f \in Fiber : FiberKept(w, f)'
  <2>1. tasks' = tasks \o <<Resume(g)>>
    BY <1>1 DEF Scheduler
  <2>2. workers[w].at # "run" /\ Between(w)'
    BY <1>1, TaskDoneIs
  <2>. QED  BY <1>1, <1>3, <1>4, <1>5, <2>1, <2>2, QueuedKept
<1>7. LookedAt'
  BY <1>1, TaskDoneIs, LookedElse
<1>8. (pendingEventCnt = Cardinality(events))'
  BY <1>1, Facts
<1>. QED  BY <1>4, <1>6, <1>7, <1>8, Facts DEF WorkerInv

\* The count of the events goes down by those that are triggered.
LEMMA Triggered ==
  ASSUME NEW w, WorkerInv(w), NEW fds \in SUBSET events, TriggerEvents(fds)
  PROVE  events' \subseteq Fiber /\ pendingEventCnt' = Cardinality(events')
<1>1. IsFiniteSet(events) /\ events \subseteq Fiber
  BY Facts, FS_Subset, TypeParts
<1>2. events' = events \ fds /\ pendingEventCnt' = pendingEventCnt - Cardinality(fds)
  BY DEF TriggerEvents
<1>3. Cardinality(events \ fds) = Cardinality(events) - Cardinality(events \cap fds)
  BY <1>1, FS_Difference
<1>4. events \cap fds = fds
  OBVIOUS
<1>. QED  BY <1>1, <1>2, <1>3, <1>4, Facts

\* The callback of a read's timeout: a fiber whose event it cancels goes to the queue.
LEMMA TimeoutInv ==
  ASSUME NEW w, WorkerInv(w), RunTimeout(w)
  PROVE  WorkerInv(w)'
<1>. DEFINE g == Running(w)
            cancels == IF Expires(workers[w].task) THEN events \cap {g} ELSE {}
<1>1. workers[w].at = "resume" /\ workers[w].task \in Tasks /\ workers[w].task.kind = "timeout"
      /\ TaskDone(w)
      /\ UNCHANGED <<isStopped, timers, due>>
  BY Facts DEF RunTimeout, HandKept
<1>2. TriggerEvents(cancels) /\ \E s \in Resumes(cancels) : Scheduler(s)
  BY DEF RunTimeout
<1>3. fibers' = [fibers EXCEPT ![g].cancelled = @ \/ Expires(workers[w].task)]
  BY DEF RunTimeout
<1>4. g \in Fiber
  BY <1>1 DEF Running, Tasks
<1>5. cancels \in SUBSET events /\ cancels \in SUBSET Fiber
  BY Facts, TypeParts
<1>6. fibers' \in [Fiber -> FiberRecord]
      /\ \A f \in Fiber : fibers'[f].state = fibers[f].state /\ fibers'[f].at = fibers[f].at
  <2>. HIDE DEF g
  <2>1. PICK b \in BOOLEAN : b = (fibers[g].cancelled \/ Expires(workers[w].task))
    OBVIOUS
  <2>2. fibers' = [fibers EXCEPT ![g].cancelled = b]
    BY <1>3, <2>1
  <2>3. fibers' \in [Fiber -> FiberRecord]
    BY <1>4, <2>2, Facts, FiberSet
  <2>. QED  BY <1>4, <2>2, <2>3, Facts DEF FiberRecord
<1>. HIDE DEF g, cancels
<1>7. PICK s \in Resumes(cancels) : Scheduler(s)
  BY <1>2
<1>8. s \in Seq(Tasks) /\ \A f \in Fiber : Count(s, f) = IF f \in cancels THEN 1 ELSE 0
  BY <1>5, <1>7, Facts, CountResumes
<1>9. tasks' \in Seq(Tasks) /\ tasks' = tasks \o s /\ pipe' \in BOOLEAN
  BY <1>7, <1>8, Facts, SchedulerType
<1>10. events' \subseteq Fiber /\ pendingEventCnt' = Cardinality(events') /\ events' = events \ cancels
  BY <1>2, <1>5, Triggered DEF TriggerEvents
<1>11. PoolType'
  BY <1>1, <1>6, <1>9, <1>10, Facts, TaskDoneIs, SameTypes, TypeNext
<1>12. ASSUME NEW f \in Fiber
       PROVE  Count(s, f) + Is(f \in events') + Is(WakeUp(f) \in timers')
                = Is(InHand(w, f)) + Is(f \in events) + Is(WakeUp(f) \in timers)
  <2>1. Count(s, f) = Is(f \in cancels)
    BY <1>8 DEF Is
  <2>2. Is(InHand(w, f)) = 0
    BY <1>1 DEF InHand, Moves, Is
  <2>3. Is(f \in events) = Is(f \in cancels) + Is(f \in events')
    BY <1>5, <1>10 DEF Is
  <2>4. Is(WakeUp(f) \in timers') = Is(WakeUp(f) \in timers) /\ Is(WakeUp(f) \in timers) \in Nat
        /\ Is(f \in cancels) \in Nat /\ Is(f \in events') \in Nat
    BY <1>1 DEF Is
  <2>. QED  BY <2>1, <2>2, <2>3, <2>4
<1>13. HandKept(w)' /\ \A f \in Fiber : FiberKept(w, f)'
  <2>1. workers[w].at # "run" /\ Between(w)'
    BY <1>1, TaskDoneIs
  <2>. QED  BY <1>6, <1>8, <1>9, <1>11, <1>12, <2>1, QueuedKept
<1>14. LookedAt'
  BY <1>1, TaskDoneIs, LookedElse
<1>. QED  BY <1>10, <1>11, <1>13, <1>14, Facts DEF WorkerInv

\* The timers that are due leave, and those that are to wake a fiber are in the queue.
LEMMA ExpiredInv ==
  ASSUME NEW w, WorkerInv(w), ListExpired(w)
  PROVE  WorkerInv(w)'
<1>1. workers[w].at = "expire" /\ workers' = [workers EXCEPT ![w].at = "trigger"]
      /\ timers' = timers \ due /\ due' = {}
      /\ UNCHANGED <<isStopped, events, pendingEventCnt, fibers>>
  BY DEF ListExpired, MoveTo
<1>2. PICK s \in SetToSeqs(due) : Scheduler(s)
  BY DEF ListExpired
<1>3. s \in Seq(Tasks) /\ \A f \in Fiber : Count(s, f) = IF WakeUp(f) \in due THEN 1 ELSE 0
  BY <1>2, Facts, CountExpired
<1>4. tasks' \in Seq(Tasks) /\ tasks' = tasks \o s /\ pipe' \in BOOLEAN
  BY <1>2, <1>3, Facts, SchedulerType
<1>5. workers' \in [Worker -> WorkerRecord] /\ workers'[w].at = "trigger"
      /\ workers'[w].idleEnded = workers[w].idleEnded
  <2>1. "trigger" \in Labels
    BY DEF Labels
  <2>2. workers' \in [Worker -> WorkerRecord]
    BY <1>1, <2>1, Facts, AtType
  <2>. QED  BY <1>1, <2>2, Facts DEF WorkerRecord
<1>6. due' \subseteq timers' /\ timers' \subseteq Tasks /\ IsFiniteSet(timers')
      /\ (\A t \in timers' : t.kind = "timeout" \/ t = WakeUp(t.fiber)) /\ due \subseteq timers
  <2>1. IsFiniteSet(timers) /\ timers' \subseteq timers
    BY <1>1, Facts, TypeParts
  <2>2. IsFiniteSet(timers')
    BY <2>1, FS_Subset
  <2>. QED  BY <1>1, <2>1, <2>2, Facts, TypeParts
<1>7. PoolType'
  BY <1>1, <1>4, <1>5, <1>6, Facts, SameTypes, TypeNext
<1>8. ASSUME NEW f \in Fiber
      PROVE  Count(s, f) + Is(f \in events') + Is(WakeUp(f) \in timers')
               = Is(InHand(w, f)) + Is(f \in events) + Is(WakeUp(f) \in timers)
  <2>1. Is(InHand(w, f)) = 0
    BY <1>1 DEF InHand, Is
  <2>2. Count(s, f) + Is(WakeUp(f) \in timers') = Is(WakeUp(f) \in timers)
    BY <1>1, <1>3, <1>6 DEF Is
  <2>3. Is(f \in events') = Is(f \in events) /\ Is(f \in events) \in Nat
        /\ Is(WakeUp(f) \in timers') \in Nat /\ Count(s, f) \in Nat
    BY <1>1, <1>3 DEF Is
  <2>. QED  BY <2>1, <2>2, <2>3
<1>9. HandKept(w)' /\ \A f \in Fiber : FiberKept(w, f)'
  <2>1. workers[w].at # "run" /\ Between(w)'
    BY <1>1, <1>5 DEF Between
  <2>. QED  BY <1>1, <1>3, <1>4, <1>7, <1>8, <2>1, QueuedKept
<1>10. LookedAt'
  BY <1>1, <1>5, LookedElse
<1>11. (pendingEventCnt = Cardinality(events))'
  BY <1>1, Facts
<1>. QED  BY <1>7, <1>9, <1>10, <1>11, Facts DEF WorkerInv

\* The events that were reported and are still there bring their fibers to the queue.
LEMMA TriggerInv ==
  ASSUME NEW w, WorkerInv(w), Trigger(w)
  PROVE  WorkerInv(w)'
<1>. DEFINE fds == workers[w].ready \cap events
<1>1. workers[w].at = "trigger"
      /\ workers' = [workers EXCEPT ![w].at = "take", ![w].ready = {}, ![w].piped = FALSE]
      /\ UNCHANGED <<isStopped, timers, due, fibers>>
  BY DEF Trigger
<1>2. TriggerEvents(fds) /\ \E s \in Resumes(fds) : tasks' = tasks \o s
  BY DEF Trigger
<1>3. fds \in SUBSET events /\ fds \in SUBSET Fiber
  BY Facts, TypeParts
<1>4. pipe' \in BOOLEAN
  <2>1. pipe \in BOOLEAN
    BY Facts, TypeParts
  <2>. QED  BY <2>1 DEF Trigger
<1>. HIDE DEF fds
<1>5. PICK s \in Resumes(fds) : tasks' = tasks \o s
  BY <1>2
<1>6. s \in Seq(Tasks) /\ \A f \in Fiber : Count(s, f) = IF f \in fds THEN 1 ELSE 0
  BY <1>3, <1>5, Facts, CountResumes
<1>7. tasks' \in Seq(Tasks)
  BY <1>5, <1>6, Facts, ConcatProperties
<1>8. events' \subseteq Fiber /\ pendingEventCnt' = Cardinality(events') /\ events' = events \ fds
  BY <1>2, <1>3, Triggered DEF TriggerEvents
<1>9. workers' \in [Worker -> WorkerRecord] /\ workers'[w].at = "take"
      /\ workers'[w].idleEnded = workers[w].idleEnded
  <2>1. "take" \in Labels
    BY DEF Labels
  <2>2. workers' \in [Worker -> WorkerRecord]
    <3>1. w \in Worker /\ workers \in [Worker -> WorkerRecord]
      BY Facts
    <3>2. [workers EXCEPT ![w].at = "take", ![w].ready = {}, ![w].piped = FALSE]
            \in [Worker -> WorkerRecord]
      BY <2>1, <3>1, AtType, Zenon
    <3>. QED  BY <1>1, <3>2, Zenon
  <2>. QED  BY <1>1, <2>2, Facts DEF WorkerRecord
<1>10. PoolType'
  BY <1>1, <1>4, <1>7, <1>8, <1>9, Facts, SameTypes, TypeNext
<1>11. ASSUME NEW f \in Fiber
       PROVE  Count(s, f) + Is(f \in events') + Is(WakeUp(f) \in timers')
                = Is(InHand(w, f)) + Is(f \in events) + Is(WakeUp(f) \in timers)
  <2>1. Count(s, f) = Is(f \in fds)
    BY <1>6 DEF Is
  <2>2. Is(InHand(w, f)) = 0
    BY <1>1 DEF InHand, Is
  <2>3. Is(f \in events) = Is(f \in fds) + Is(f \in events')
    BY <1>3, <1>8 DEF Is
  <2>4. Is(WakeUp(f) \in timers') = Is(WakeUp(f) \in timers) /\ Is(WakeUp(f) \in timers) \in Nat
        /\ Is(f \in fds) \in Nat /\ Is(f \in events') \in Nat
    BY <1>1 DEF Is
  <2>. QED  BY <2>1, <2>2, <2>3, <2>4
<1>12. HandKept(w)' /\ \A f \in Fiber : FiberKept(w, f)'
  <2>1. workers[w].at # "run" /\ Between(w)'
    BY <1>1, <1>9 DEF Between
  <2>. QED  BY <1>1, <1>5, <1>6, <1>10, <1>11, <2>1, QueuedKept
<1>13. LookedAt'
  BY <1>1, <1>9, LookedElse
<1>. QED  BY <1>8, <1>10, <1>12, <1>13, Facts DEF WorkerInv

\* What holds of the fiber that runs: it is the worker's, and it is where it is to wait.
LEMMA RunsIs ==
  ASSUME NEW w, WorkerInv(w), NEW label, Runs(w, label)
  PROVE  /\ workers[w].at = "run" /\ Running(w) \in Fiber
         /\ fibers[Running(w)].state = "running" /\ fibers[Running(w)].at = label
         /\ Places(w, Running(w)) = IF label \in {"asleep", "waiting"} THEN 1 ELSE 0
<1>1. workers[w].at = "run" /\ fibers[Running(w)].at = label
  BY DEF Runs
<1>2. Running(w) \in Fiber /\ fibers[Running(w)].state = "running"
  BY <1>1, Facts DEF HandKept, Running, Tasks
<1>3. FiberKept(w, Running(w))
  BY <1>2, Facts
<1>. QED  BY <1>1, <1>2, <1>3 DEF FiberKept, Owed

\* Close of another fiber's socket: that fiber goes to the queue if it had an event.
LEMMA CloseInv ==
  ASSUME NEW w, WorkerInv(w), Close(w)
  PROVE  WorkerInv(w)'
<1>. DEFINE g == Running(w)
<1>1. UNCHANGED <<workers, isStopped, timers, due>> /\ Runs(w, "run")
      /\ fibers' = [fibers EXCEPT ![g].op = @ + 1]
  BY DEF Close
<1>2. PICK h \in Fiber : /\ \E s \in Resumes(events \cap {h}) : Scheduler(s)
                         /\ TriggerEvents(events \cap {h})
  BY DEF Close
<1>. DEFINE fds == events \cap {h}
<1>3. g \in Fiber /\ workers[w].at = "run" /\ fibers[g].state = "running"
  BY <1>1, RunsIs
<1>. HIDE DEF g
<1>4. fibers' \in [Fiber -> FiberRecord]
      /\ \A f \in Fiber : fibers'[f].state = fibers[f].state /\ fibers'[f].at = fibers[f].at
  <2>1. fibers' \in [Fiber -> FiberRecord]
    BY <1>1, <1>3, Facts, FiberSet
  <2>. QED  BY <1>1, <1>3, <2>1, Facts DEF FiberRecord
<1>5. fds \in SUBSET events /\ fds \in SUBSET Fiber /\ TriggerEvents(fds)
  BY <1>2, Facts, TypeParts
<1>6. PICK s \in Resumes(fds) : Scheduler(s)
  BY <1>2
<1>. HIDE DEF fds
<1>7. s \in Seq(Tasks) /\ \A f \in Fiber : Count(s, f) = IF f \in fds THEN 1 ELSE 0
  BY <1>5, <1>6, Facts, CountResumes
<1>8. tasks' \in Seq(Tasks) /\ tasks' = tasks \o s /\ pipe' \in BOOLEAN
  BY <1>6, <1>7, Facts, SchedulerType
<1>9. events' \subseteq Fiber /\ pendingEventCnt' = Cardinality(events') /\ events' = events \ fds
  BY <1>5, Triggered DEF TriggerEvents
<1>10. PoolType'
  BY <1>1, <1>4, <1>8, <1>9, Facts, SameTypes, TypeNext
<1>11. ASSUME NEW f \in Fiber
       PROVE  Count(s, f) + Is(f \in events') + Is(WakeUp(f) \in timers')
                = Is(InHand(w, f)) + Is(f \in events) + Is(WakeUp(f) \in timers)
  <2>1. Count(s, f) = Is(f \in fds)
    BY <1>7 DEF Is
  <2>2. Is(InHand(w, f)) = 0
    BY <1>3 DEF InHand, Is
  <2>3. Is(f \in events) = Is(f \in fds) + Is(f \in events')
    BY <1>5, <1>9 DEF Is
  <2>4. Is(WakeUp(f) \in timers') = Is(WakeUp(f) \in timers) /\ Is(WakeUp(f) \in timers) \in Nat
        /\ Is(f \in fds) \in Nat /\ Is(f \in events') \in Nat
    BY <1>1 DEF Is
  <2>. QED  BY <2>1, <2>2, <2>3, <2>4
<1>12. HandKept(w)' /\ \A f \in Fiber : FiberKept(w, f)'
  <2>1. UNCHANGED workers /\ workers[w].at = "run" /\ fibers'[Running(w)].state = "running"
    BY <1>1, <1>3, <1>4 DEF g
  <2>. QED  BY <1>4, <1>7, <1>8, <1>10, <1>11, <2>1, QueuedKept
<1>13. LookedAt'
  BY <1>1, <1>3, LookedElse
<1>. QED  BY <1>9, <1>10, <1>12, <1>13, Facts DEF WorkerInv

\* The fiber that runs goes on: what it sets, it waits for, and the others are kept.
LEMMA RunnerKept ==
  ASSUME NEW w, WorkerInv(w), PoolType', UNCHANGED <<tasks, workers>>,
         workers[w].at = "run", NEW g \in Fiber, g = Running(w),
         \A f \in Fiber : f # g => /\ fibers'[f] = fibers[f]
                                   /\ Is(f \in events') = Is(f \in events)
                                   /\ Is(WakeUp(f) \in timers') = Is(WakeUp(f) \in timers),
         fibers'[g].state = "running",
         Is(g \in events') + Is(WakeUp(g) \in timers') + Owed(g)
           = Is(g \in events) + Is(WakeUp(g) \in timers) + Owed(g)'
  PROVE  HandKept(w)' /\ (\A f \in Fiber : FiberKept(w, f)') /\ LookedAt'
<1>1. workers'[w].at = "run" /\ workers'[w].task = workers[w].task /\ Running(w)' = g
      /\ workers'[w].idleEnded = workers[w].idleEnded
  BY DEF Running
<1>2. HandKept(w)'
  BY <1>1, Facts DEF HandKept
<1>3. ASSUME NEW f \in Fiber
      PROVE  Count(tasks', f) = Count(tasks, f) /\ Is(InHand(w, f)') = 0 /\ Is(InHand(w, f)) = 0
  BY <1>1, Zenon DEF InHand, Is
<1>4. ASSUME NEW f \in Fiber, f # g PROVE FiberKept(w, f)'
  <2>1. FiberKept(w, f) /\ fibers'[f] = fibers[f]
    BY <1>4, Facts
  <2>2. Is(f \in events') = Is(f \in events) /\ Is(WakeUp(f) \in timers') = Is(WakeUp(f) \in timers)
    BY <1>4
  <2>3. Places(w, f)' = Places(w, f)
    BY <1>3, <2>2, PlacesAre
  <2>. QED  BY <1>1, <2>1, <2>3, SameFiber
<1>5. FiberKept(w, g)'
  <2>1. Places(w, g) = Owed(g) /\ Owed(g) \in Nat /\ Owed(g)' \in Nat
    BY Facts DEF FiberKept, Owed
  <2>2. Places(w, g)' = Owed(g)'
    <3>1. PICK c, d, e, h, i, k, m \in Nat :
            /\ c = Count(tasks, g) /\ d = Is(g \in events) /\ e = Is(WakeUp(g) \in timers)
            /\ h = Is(g \in events') /\ i = Is(WakeUp(g) \in timers')
            /\ k = Owed(g) /\ m = Owed(g)'
      BY <2>1, PlacesAre
    <3>2. c + 0 + d + e = k
      BY <1>3, <2>1, <3>1, PlacesAre
    <3>3. h + i + k = d + e + m
      BY <3>1
    <3>4. Places(w, g)' = c + 0 + h + i
      BY <1>3, <3>1, PlacesAre
    <3>5. c + 0 + h + i = m
      BY <3>2, <3>3
    <3>. QED  BY <3>1, <3>4, <3>5
  <2>. QED  BY <1>1, <2>2 DEF FiberKept
<1>6. LookedAt'
  BY <1>1, LookedElse
<1>. QED  BY <1>2, <1>4, <1>5, <1>6

\* A timer more is a set of timers.
LEMMA AddTimerType ==
  ASSUME PoolType, NEW t \in Tasks, t.kind = "timeout" \/ t = WakeUp(t.fiber),
         AddTimer(t), UNCHANGED due
  PROVE  /\ timers' = timers \cup {t} /\ pipe' \in BOOLEAN
         /\ due' \subseteq timers' /\ timers' \subseteq Tasks /\ IsFiniteSet(timers')
         /\ \A u \in timers' : u.kind = "timeout" \/ u = WakeUp(u.fiber)
<1>1. timers' = timers \cup {t}
  BY DEF AddTimer
<1>2. pipe' \in BOOLEAN
  <2>1. pipe \in BOOLEAN
    BY TypeParts
  <2>. QED  BY <2>1 DEF AddTimer, Tickled
<1>3. IsFiniteSet(timers) /\ due \subseteq timers /\ timers \subseteq Tasks
      /\ \A u \in timers : u.kind = "timeout" \/ u = WakeUp(u.fiber)
  BY TypeParts
<1>4. IsFiniteSet(timers')
  BY <1>1, <1>3, FS_AddElement
<1>. QED  BY <1>1, <1>2, <1>3, <1>4

\* The hook of sleep: the fiber has a timer before it yields.
LEMMA SleepInv ==
  ASSUME NEW w, WorkerInv(w), Sleep(w)
  PROVE  WorkerInv(w)'
<1>1. Runs(w, "run")
  BY DEF Sleep
<1>2. PICK g \in Fiber : g = Running(w) /\ workers[w].at = "run" /\ fibers[g].state = "running"
                          /\ fibers[g].at = "run" /\ Places(w, g) = 0
  BY <1>1, RunsIs
<1>3. UNCHANGED <<tasks, workers, events, pendingEventCnt, isStopped, due>>
      /\ fibers' = [fibers EXCEPT ![g].at = "asleep", ![g].op = @ + 1] /\ AddTimer(WakeUp(g))
  BY <1>2 DEF Sleep, FiberOnly
<1>4. fibers' \in [Fiber -> FiberRecord]
  <2>1. fibers \in [Fiber -> FiberRecord]
    BY Facts
  <2>2. [fibers EXCEPT ![g].at = "asleep", ![g].op = @ + 1] \in [Fiber -> FiberRecord]
    BY <2>1, FiberSet
  <2>. QED  BY <1>3, <2>2, Zenon
<1>5. fibers'[g].state = "running" /\ fibers'[g].at = "asleep"
      /\ \A f \in Fiber : f # g => fibers'[f] = fibers[f]
  BY <1>2, <1>3, <1>4, Facts DEF FiberRecord
<1>6. WakeUp(g) \in Tasks /\ WakeUp(g).fiber = g
  BY <1>2, TaskTypes
<1>7. timers' = timers \cup {WakeUp(g)} /\ pipe' \in BOOLEAN
      /\ due' \subseteq timers' /\ timers' \subseteq Tasks /\ IsFiniteSet(timers')
      /\ \A t \in timers' : t.kind = "timeout" \/ t = WakeUp(t.fiber)
  BY <1>3, <1>6, Facts, AddTimerType
<1>8. PoolType'
  BY <1>3, <1>4, <1>7, Facts, SameTypes, TypeNext
<1>9. ASSUME NEW f \in Fiber, f # g
      PROVE  Is(f \in events') = Is(f \in events) /\ Is(WakeUp(f) \in timers') = Is(WakeUp(f) \in timers)
  <2>1. WakeUp(f) # WakeUp(g)
    BY <1>9 DEF WakeUp, Task
  <2>2. WakeUp(f) \in timers' <=> WakeUp(f) \in timers
    BY <1>7, <2>1
  <2>. QED  BY <1>3, <2>2 DEF Is
<1>10. Is(g \in events') + Is(WakeUp(g) \in timers') + Owed(g)
         = Is(g \in events) + Is(WakeUp(g) \in timers) + Owed(g)'
  <2>1. Owed(g) = 0 /\ Owed(g)' = 1
    BY <1>2, <1>5 DEF Owed
  <2>2. Is(WakeUp(g) \in timers) = 0
    BY <1>2, <1>8, PlacesAre
  <2>3. Is(WakeUp(g) \in timers') = 1
    BY <1>7 DEF Is
  <2>4. Is(g \in events') = Is(g \in events) /\ Is(g \in events) \in Nat
    BY <1>3 DEF Is
  <2>. QED  BY <2>1, <2>2, <2>3, <2>4
<1>11. HandKept(w)' /\ (\A f \in Fiber : FiberKept(w, f)') /\ LookedAt'
  BY <1>2, <1>3, <1>5, <1>8, <1>9, <1>10, RunnerKept
<1>12. (pendingEventCnt = Cardinality(events))'
  BY <1>3, Facts
<1>. QED  BY <1>8, <1>11, <1>12, Facts DEF WorkerInv

\* A fiber that runs and sets nothing but a timeout waits nowhere.
LEMMA RunnerGoes ==
  ASSUME NEW w, WorkerInv(w), PoolType',
         UNCHANGED <<tasks, workers, events, pendingEventCnt>>,
         workers[w].at = "run", NEW g \in Fiber, g = Running(w),
         \A f \in Fiber : f # g => fibers'[f] = fibers[f],
         \A f \in Fiber : WakeUp(f) \in timers' <=> WakeUp(f) \in timers,
         fibers[g].at \notin {"asleep", "waiting"}, fibers'[g].at \notin {"asleep", "waiting"},
         fibers[g].state = "running", fibers'[g].state = "running"
  PROVE  WorkerInv(w)'
<1>1. \A f \in Fiber : Is(WakeUp(f) \in timers') = Is(WakeUp(f) \in timers)
                       /\ Is(f \in events') = Is(f \in events)
  BY DEF Is
<1>2. Owed(g) = 0 /\ Owed(g)' = 0
  BY DEF Owed
<1>3. Is(g \in events') + Is(WakeUp(g) \in timers') + Owed(g)
        = Is(g \in events) + Is(WakeUp(g) \in timers) + Owed(g)'
  BY <1>1, <1>2
<1>4. HandKept(w)' /\ (\A f \in Fiber : FiberKept(w, f)') /\ LookedAt'
  BY <1>1, <1>3, RunnerKept
<1>5. (pendingEventCnt = Cardinality(events))'
  BY Facts
<1>. QED  BY <1>4, <1>5, Facts DEF WorkerInv

\* A read begins.
LEMMA BeginReadInv ==
  ASSUME NEW w, WorkerInv(w), BeginRead(w)
  PROVE  WorkerInv(w)'
<1>1. Runs(w, "run")
  BY DEF BeginRead
<1>2. PICK g \in Fiber : g = Running(w) /\ workers[w].at = "run" /\ fibers[g].state = "running"
                          /\ fibers[g].at = "run"
  BY <1>1, RunsIs
<1>3. UNCHANGED <<tasks, workers, events, pendingEventCnt, isStopped, timers, due, pipe>>
  BY DEF BeginRead, FiberOnly
<1>4. PICK timed \in BOOLEAN :
        fibers' = [fibers EXCEPT ![g].at = "read", ![g].op = @ + 1, ![g].inRead = TRUE,
                                 ![g].timed = timed]
  BY <1>2 DEF BeginRead
<1>5. fibers' \in [Fiber -> FiberRecord]
  <2>1. fibers \in [Fiber -> FiberRecord]
    BY Facts
  <2>2. [fibers EXCEPT ![g].at = "read", ![g].op = @ + 1, ![g].inRead = TRUE, ![g].timed = timed]
          \in [Fiber -> FiberRecord]
    BY <2>1, FiberSet
  <2>. QED  BY <1>4, <2>2, Zenon
<1>6. fibers'[g].state = "running" /\ fibers'[g].at = "read"
      /\ \A f \in Fiber : f # g => fibers'[f] = fibers[f]
  <2>1. PICK v : v = [fibers EXCEPT ![g].at = "read", ![g].op = @ + 1]
    OBVIOUS
  <2>2. DOMAIN v = Fiber /\ v[g].state = "running" /\ v[g].at = "read"
        /\ \A f \in Fiber : f # g => v[f] = fibers[f]
    BY <1>2, <2>1, Facts DEF FiberRecord
  <2>3. fibers' = [v EXCEPT ![g].inRead = TRUE, ![g].timed = timed]
    BY <1>4, <2>1
  <2>. QED  BY <2>2, <2>3
<1>7. PoolType'
  BY <1>3, <1>5, Facts, SameTypes, TypeNext
<1>8. \A f \in Fiber : WakeUp(f) \in timers' <=> WakeUp(f) \in timers
  BY <1>3
<1>. QED  BY <1>2, <1>3, <1>6, <1>7, <1>8, RunnerGoes

\* A read that ends: the fiber runs its function again.
LEMMA EndReadIs ==
  ASSUME PoolType, NEW g \in Fiber, EndRead(g)
  PROVE  /\ fibers' \in [Fiber -> FiberRecord]
         /\ fibers'[g].state = fibers[g].state /\ fibers'[g].at = "run"
         /\ \A f \in Fiber : f # g => fibers'[f] = fibers[f]
<1>1. fibers \in [Fiber -> FiberRecord]
  BY TypeParts
<1>2. [fibers EXCEPT ![g].at = "run", ![g].inRead = FALSE, ![g].timed = FALSE,
                     ![g].cancelled = FALSE] \in [Fiber -> FiberRecord]
  BY <1>1, FiberSet
<1>3. PICK v : v = [fibers EXCEPT ![g].at = "run", ![g].inRead = FALSE]
  OBVIOUS
<1>4. DOMAIN v = Fiber /\ v[g].state = fibers[g].state /\ v[g].at = "run"
      /\ \A f \in Fiber : f # g => v[f] = fibers[f]
  BY <1>1, <1>3 DEF FiberRecord
<1>5. fibers' = [v EXCEPT ![g].timed = FALSE, ![g].cancelled = FALSE]
  BY <1>3 DEF EndRead
<1>. QED  BY <1>2, <1>4, <1>5 DEF EndRead

\* A fiber that is elsewhere in its function.
LEMMA FiberAt ==
  ASSUME PoolType, NEW g \in Fiber, NEW at \in {"run", "read", "addEvent", "waiting", "woken"},
         fibers' = [fibers EXCEPT ![g].at = at]
  PROVE  /\ fibers' \in [Fiber -> FiberRecord]
         /\ fibers'[g].state = fibers[g].state /\ fibers'[g].at = at
         /\ \A f \in Fiber : f # g => fibers'[f] = fibers[f]
<1>1. fibers \in [Fiber -> FiberRecord]
  BY TypeParts
<1>2. fibers' \in [Fiber -> FiberRecord]
  BY <1>1, FiberSet
<1>. QED  BY <1>1, <1>2 DEF FiberRecord

\* The system call of a read, and the timer of one that finds nothing.
LEMMA TryReadInv ==
  ASSUME NEW w, WorkerInv(w), TryRead(w)
  PROVE  WorkerInv(w)'
<1>1. Runs(w, "read")
  BY DEF TryRead
<1>2. PICK g \in Fiber : g = Running(w) /\ workers[w].at = "run" /\ fibers[g].state = "running"
                          /\ fibers[g].at = "read"
  BY <1>1, RunsIs
<1>3. UNCHANGED <<tasks, workers, events, pendingEventCnt, isStopped, due>>
  BY DEF TryRead
<1>4. /\ fibers' \in [Fiber -> FiberRecord]
      /\ fibers'[g].state = "running" /\ fibers'[g].at \in {"run", "addEvent"}
      /\ \A f \in Fiber : f # g => fibers'[f] = fibers[f]
  <2>1. EndRead(g) \/ fibers' = [fibers EXCEPT ![g].at = "addEvent"]
    BY <1>2 DEF TryRead
  <2>2. CASE EndRead(g)
    BY <1>2, <2>2, Facts, EndReadIs
  <2>3. CASE fibers' = [fibers EXCEPT ![g].at = "addEvent"]
    BY <1>2, <2>3, Facts, FiberAt
  <2>. QED  BY <2>1, <2>2, <2>3
<1>5. /\ pipe' \in BOOLEAN
      /\ due' \subseteq timers' /\ timers' \subseteq Tasks /\ IsFiniteSet(timers')
      /\ \A t \in timers' : t.kind = "timeout" \/ t = WakeUp(t.fiber)
      /\ \A f \in Fiber : WakeUp(f) \in timers' <=> WakeUp(f) \in timers
  <2>1. UNCHANGED <<timers, pipe>> \/ AddTimer(Timeout(g))
    BY <1>2 DEF TryRead
  <2>2. CASE UNCHANGED <<timers, pipe>>
    BY <1>3, <2>2, Facts, SameTypes
  <2>3. CASE AddTimer(Timeout(g))
    <3>1. Timeout(g) \in Tasks /\ Timeout(g).kind = "timeout"
      BY <1>2, Facts, TaskTypes
    <3>2. timers' = timers \cup {Timeout(g)} /\ pipe' \in BOOLEAN
          /\ due' \subseteq timers' /\ timers' \subseteq Tasks /\ IsFiniteSet(timers')
          /\ \A t \in timers' : t.kind = "timeout" \/ t = WakeUp(t.fiber)
      BY <1>3, <2>3, <3>1, Facts, AddTimerType
    <3>3. \A f \in Fiber : WakeUp(f).kind = "wake"
      BY TaskTypes
    <3>. QED  BY <3>1, <3>2, <3>3
  <2>. QED  BY <2>1, <2>2, <2>3
<1>6. PoolType'
  BY <1>3, <1>4, <1>5, Facts, SameTypes, TypeNext
<1>. QED  BY <1>2, <1>3, <1>4, <1>5, <1>6, RunnerGoes

\* After the wait the timer of the read is gone.
LEMMA AfterWaitInv ==
  ASSUME NEW w, WorkerInv(w), AfterWait(w)
  PROVE  WorkerInv(w)'
<1>1. Runs(w, "woken")
  BY DEF AfterWait
<1>2. PICK g \in Fiber : g = Running(w) /\ workers[w].at = "run" /\ fibers[g].state = "running"
                          /\ fibers[g].at = "woken"
  BY <1>1, RunsIs
<1>3. UNCHANGED <<tasks, workers, events, pendingEventCnt, isStopped, pipe>>
      /\ timers' = timers \ {Timeout(g)} /\ due' = due \ {Timeout(g)}
  BY <1>2 DEF AfterWait, CancelTimer
<1>4. /\ fibers' \in [Fiber -> FiberRecord]
      /\ fibers'[g].state = "running" /\ fibers'[g].at \in {"run", "read"}
      /\ \A f \in Fiber : f # g => fibers'[f] = fibers[f]
  <2>1. EndRead(g) \/ fibers' = [fibers EXCEPT ![g].at = "read"]
    BY <1>2 DEF AfterWait
  <2>2. CASE EndRead(g)
    BY <1>2, <2>2, Facts, EndReadIs
  <2>3. CASE fibers' = [fibers EXCEPT ![g].at = "read"]
    BY <1>2, <2>3, Facts, FiberAt
  <2>. QED  BY <2>1, <2>2, <2>3
<1>5. /\ due' \subseteq timers' /\ timers' \subseteq Tasks /\ IsFiniteSet(timers')
      /\ \A t \in timers' : t.kind = "timeout" \/ t = WakeUp(t.fiber)
  <2>1. IsFiniteSet(timers) /\ timers' \subseteq timers
    BY <1>3, Facts, TypeParts
  <2>2. IsFiniteSet(timers')
    BY <2>1, FS_Subset
  <2>. QED  BY <1>3, <2>1, <2>2, Facts, TypeParts
<1>6. \A f \in Fiber : WakeUp(f) \in timers' <=> WakeUp(f) \in timers
  <2>1. Timeout(g).kind = "timeout"
    BY <1>2, Facts, TaskTypes
  <2>2. \A f \in Fiber : WakeUp(f).kind = "wake"
    BY TaskTypes
  <2>. QED  BY <1>3, <2>1, <2>2
<1>7. PoolType'
  BY <1>3, <1>4, <1>5, Facts, SameTypes, TypeNext
<1>. QED  BY <1>2, <1>3, <1>4, <1>6, <1>7, RunnerGoes

\* The event of a read that waits is counted.
LEMMA AddEventInv ==
  ASSUME NEW w, WorkerInv(w), AddEvent(w)
  PROVE  WorkerInv(w)'
<1>1. Runs(w, "addEvent")
  BY DEF AddEvent
<1>2. PICK g \in Fiber : g = Running(w) /\ workers[w].at = "run" /\ fibers[g].state = "running"
                          /\ fibers[g].at = "addEvent"
  BY <1>1, RunsIs
<1>3. UNCHANGED <<tasks, workers, isStopped, timers, due, pipe>> /\ g \notin events
      /\ events' = events \cup {g} /\ pendingEventCnt' = pendingEventCnt + 1
      /\ fibers' = [fibers EXCEPT ![g].at = "waiting"]
  BY <1>2 DEF AddEvent, FiberOnly
<1>4. fibers' \in [Fiber -> FiberRecord] /\ fibers'[g].state = "running"
      /\ fibers'[g].at = "waiting" /\ \A f \in Fiber : f # g => fibers'[f] = fibers[f]
  BY <1>2, <1>3, Facts, FiberAt
<1>5. events' \subseteq Fiber /\ pendingEventCnt' = Cardinality(events')
  <2>1. IsFiniteSet(events) /\ events \subseteq Fiber
    BY Facts, FS_Subset, TypeParts
  <2>2. Cardinality(events \cup {g}) = Cardinality(events) + 1
    BY <1>3, <2>1, FS_AddElement
  <2>. QED  BY <1>3, <2>1, <2>2, Facts
<1>6. PoolType'
  BY <1>3, <1>4, <1>5, Facts, SameTypes, TypeNext
<1>7. ASSUME NEW f \in Fiber, f # g
      PROVE  Is(f \in events') = Is(f \in events) /\ Is(WakeUp(f) \in timers') = Is(WakeUp(f) \in timers)
  BY <1>3, <1>7 DEF Is
<1>8. Is(g \in events') + Is(WakeUp(g) \in timers') + Owed(g)
        = Is(g \in events) + Is(WakeUp(g) \in timers) + Owed(g)'
  <2>1. Owed(g) = 0 /\ Owed(g)' = 1
    BY <1>2, <1>4 DEF Owed
  <2>2. Is(g \in events) = 0 /\ Is(g \in events') = 1
    BY <1>3 DEF Is
  <2>3. Is(WakeUp(g) \in timers') = Is(WakeUp(g) \in timers) /\ Is(WakeUp(g) \in timers) \in Nat
    BY <1>3 DEF Is
  <2>. QED  BY <2>1, <2>2, <2>3
<1>9. HandKept(w)' /\ (\A f \in Fiber : FiberKept(w, f)') /\ LookedAt'
  BY <1>2, <1>3, <1>4, <1>6, <1>7, <1>8, RunnerKept
<1>. QED  BY <1>5, <1>6, <1>9, Facts DEF WorkerInv

\* A fiber that is READY again, or at its end, waits in as many places as before.
LEMMA LeavesInv ==
  ASSUME NEW w, WorkerInv(w), TaskDone(w), workers[w].at = "run",
         UNCHANGED <<tasks, pipe, timers, due, events, pendingEventCnt, isStopped>>,
         NEW g \in Fiber, g = Running(w), fibers[g].state = "running",
         fibers' \in [Fiber -> FiberRecord], \A f \in Fiber : f # g => fibers'[f] = fibers[f],
         \/ fibers'[g].state = "ready" /\ fibers'[g].at \in {"run", "woken"}
         \/ fibers'[g].state = "term",
         Owed(g)' = Owed(g)
  PROVE  WorkerInv(w)'
<1>1. workers' \in [Worker -> WorkerRecord] /\ workers'[w].at = "take" /\ Between(w)'
      /\ workers'[w].idleEnded = workers[w].idleEnded
  BY TaskDoneIs
<1>2. PoolType'
  BY <1>1, Facts, SameTypes, TypeNext
<1>3. HandKept(w)'
  BY <1>1 DEF HandKept
<1>4. ASSUME NEW f \in Fiber PROVE FiberKept(w, f)'
  <2>1. Is(InHand(w, f)) = 0 /\ Is(InHand(w, f)') = 0
    BY <1>1 DEF InHand, Is
  <2>2. Count(tasks', f) = Count(tasks, f) /\ Is(f \in events') = Is(f \in events)
        /\ Is(WakeUp(f) \in timers') = Is(WakeUp(f) \in timers)
    BY Zenon
  <2>3. Places(w, f)' = Places(w, f)
    BY <1>2, <2>1, <2>2, PlacesAre
  <2>4. FiberKept(w, f)
    BY Facts
  <2>5. CASE f = g
    <3>1. Places(w, f)' = Owed(f)'
      BY <2>3, <2>4, <2>5 DEF FiberKept
    <3>. QED  BY <2>5, <3>1 DEF FiberKept
  <2>6. CASE f # g
    <3>1. fibers[f].state # "running"
      BY <2>4, <2>6 DEF FiberKept
    <3>. QED  BY <2>3, <2>4, <2>6, <3>1, SameFiber
  <2>. QED  BY <2>5, <2>6
<1>5. LookedAt'
  BY <1>1, LookedElse
<1>6. (pendingEventCnt = Cardinality(events))'
  BY Facts
<1>. QED  BY <1>2, <1>3, <1>4, <1>5, <1>6, Facts DEF WorkerInv

\* A fiber that yields has set what wakes it.
LEMMA YieldInv ==
  ASSUME NEW w, WorkerInv(w), Yield(w)
  PROVE  WorkerInv(w)'
<1>1. Runs(w, "asleep") \/ Runs(w, "waiting")
  BY DEF Yield
<1>2. PICK g \in Fiber : g = Running(w) /\ workers[w].at = "run" /\ fibers[g].state = "running"
                          /\ fibers[g].at \in {"asleep", "waiting"}
  BY <1>1, RunsIs
<1>3. UNCHANGED <<tasks, pipe, timers, due, events, pendingEventCnt, isStopped>> /\ TaskDone(w)
  BY DEF Yield, FiberOnly
<1>4. PICK at \in {"run", "woken"} : fibers' = [fibers EXCEPT ![g].state = "ready", ![g].at = at]
  BY <1>2 DEF Yield
<1>5. fibers' \in [Fiber -> FiberRecord]
  BY <1>4, Facts, FiberSet
<1>6. fibers'[g].state = "ready" /\ fibers'[g].at = at /\ \A f \in Fiber : f # g => fibers'[f] = fibers[f]
  BY <1>4, <1>5, Facts DEF FiberRecord
<1>7. Owed(g) = 1 /\ Owed(g)' = 1
  BY <1>2, <1>6 DEF Owed
<1>. QED  BY <1>2, <1>3, <1>5, <1>6, <1>7, LeavesInv

\* A fiber that ends waits nowhere.
LEMMA EndInv ==
  ASSUME NEW w, WorkerInv(w), End(w)
  PROVE  WorkerInv(w)'
<1>1. Runs(w, "run")
  BY DEF End
<1>2. PICK g \in Fiber : g = Running(w) /\ workers[w].at = "run" /\ fibers[g].state = "running"
                          /\ fibers[g].at = "run"
  BY <1>1, RunsIs
<1>3. UNCHANGED <<tasks, pipe, timers, due, events, pendingEventCnt, isStopped>> /\ TaskDone(w)
      /\ fibers' = [fibers EXCEPT ![g].state = "term"]
  BY <1>2 DEF End, FiberOnly
<1>4. fibers' \in [Fiber -> FiberRecord]
  BY <1>3, Facts, FiberSet
<1>5. fibers'[g].state = "term" /\ \A f \in Fiber : f # g => fibers'[f] = fibers[f]
  BY <1>3, <1>4, Facts DEF FiberRecord
<1>6. Owed(g) = 0 /\ Owed(g)' = 0
  BY <1>2, <1>5 DEF Owed
<1>. QED  BY <1>2, <1>3, <1>4, <1>5, <1>6, LeavesInv

\* A function that is scheduled from outside is queued once; nobody does after stop().
LEMMA ScheduleInv ==
  ASSUME NEW w, WorkerInv(w), NEW g \in Fiber, Schedule(g)
  PROVE  WorkerInv(w)'
<1>1. UNCHANGED <<workers, isStopped, timers, due, events, pendingEventCnt>> /\ ~isStopped
      /\ fibers[g].state = "none" /\ fibers' = [fibers EXCEPT ![g].state = "ready"]
      /\ Scheduler(<<Start(g)>>)
  BY DEF Schedule
<1>2. fibers' \in [Fiber -> FiberRecord]
  BY <1>1, Facts, FiberSet
<1>3. fibers'[g].state = "ready" /\ fibers'[g].at = fibers[g].at
      /\ \A f \in Fiber : f # g => fibers'[f] = fibers[f]
  BY <1>1, <1>2, Facts DEF FiberRecord
<1>4. Start(g) \in Tasks /\ Start(g).fiber = g /\ Start(g).kind = "start"
  BY TaskTypes
<1>5. <<Start(g)>> \in Seq(Tasks)
  BY <1>4
<1>6. tasks' \in Seq(Tasks) /\ tasks' = tasks \o <<Start(g)>> /\ pipe' \in BOOLEAN
  BY <1>1, <1>5, Facts, SchedulerType
<1>7. PoolType'
  BY <1>1, <1>2, <1>6, Facts, SameTypes, TypeNext
<1>8. ASSUME NEW f \in Fiber PROVE FiberKept(w, f)'
  <2>1. Count(tasks', f) = Count(tasks, f) + Is(f = g)
    <3>1. tasks \in Seq(Tasks)
      BY Facts
    <3>2. Count(tasks \o <<Start(g)>>, f) = Count(tasks, f) + Count(<<Start(g)>>, f)
      BY <1>5, <3>1, CountConcat
    <3>3. Count(<<Start(g)>>, f) = Is(f = g)
      BY <1>4, CountOne DEF Is, Moves
    <3>. QED  BY <1>6, <3>2, <3>3
  <2>2. Is(InHand(w, f)') = Is(InHand(w, f)) /\ Is(f \in events') = Is(f \in events)
        /\ Is(WakeUp(f) \in timers') = Is(WakeUp(f) \in timers)
    BY <1>1, Zenon DEF InHand, Moves
  <2>3. Is(f = g) \in Nat
    BY DEF Is
  <2>4. Places(w, f)' = Places(w, f) + Is(f = g)
    BY <1>7, <2>1, <2>2, <2>3, PlacesAre
  <2>5. FiberKept(w, f)
    BY Facts
  <2>6. CASE f = g
    <3>1. Owed(f) = 0 /\ Owed(f)' = 1 /\ Is(f = g) = 1
      BY <1>1, <1>3, <2>6 DEF Owed, Is
    <3>2. Places(w, f)' = Owed(f)'
      BY <2>4, <2>5, <3>1 DEF FiberKept
    <3>. QED  BY <1>1, <1>3, <2>5, <2>6, <3>2 DEF FiberKept
  <2>7. CASE f # g
    <3>1. Is(f = g) = 0
      BY <2>7 DEF Is
    <3>2. Places(w, f)' = Places(w, f)
      BY <1>7, <2>4, <3>1, PlacesAre
    <3>. QED  BY <1>1, <1>3, <2>5, <2>7, <3>2, SameFiber
  <2>. QED  BY <2>6, <2>7
<1>9. HandKept(w)'
  <2>1. workers[w].at = "run" => Running(w) # g /\ Running(w) \in Fiber
    BY <1>1, Facts DEF HandKept, Running, Tasks
  <2>. QED  BY <1>1, <1>3, <2>1, Facts DEF HandKept, Running
<1>10. LookedAt'
  BY <1>1, Facts DEF LookedAt
<1>11. (pendingEventCnt = Cardinality(events))'
  BY <1>1, Facts
<1>. QED  BY <1>7, <1>8, <1>9, <1>10, <1>11, Facts DEF WorkerInv

\* The stop, the clock and the network move no fiber.
LEMMA OutsideInv ==
  ASSUME NEW w, WorkerInv(w),
         Stop \/ (\E t \in timers : Elapse(t)) \/ (\E f \in Fiber : Arrive(f)) \/ UNCHANGED poolVars
  PROVE  WorkerInv(w)'
<1>1. UNCHANGED <<tasks, workers, timers, events, pendingEventCnt, fibers>>
  BY DEF Stop, Elapse, Arrive, poolVars
<1>2. due' \subseteq timers'
  BY <1>1, Facts, TypeParts DEF Stop, Elapse, Arrive, poolVars
<1>3. isStopped' \in BOOLEAN /\ (isStopped => isStopped')
  <2>1. isStopped \in BOOLEAN
    BY Facts, TypeParts
  <2>2. UNCHANGED isStopped \/ isStopped' = TRUE
    BY DEF Stop, Elapse, Arrive, poolVars
  <2>. QED  BY <2>1, <2>2
<1>4. pipe' \in BOOLEAN
  <2>1. pipe \in BOOLEAN
    BY Facts, TypeParts
  <2>. QED  BY <2>1 DEF Stop, Elapse, Arrive, poolVars, Tickled
<1>5. PoolType'
  <2>1. timers' \subseteq Tasks /\ IsFiniteSet(timers')
        /\ \A t \in timers' : t.kind = "timeout" \/ t = WakeUp(t.fiber)
    BY <1>1, Facts, TypeParts
  <2>. QED  BY <1>1, <1>2, <1>3, <1>4, <2>1, Facts, SameTypes, TypeNext
<1>6. HandKept(w)'
  BY <1>1, Facts DEF HandKept, Running
<1>7. ASSUME NEW f \in Fiber PROVE FiberKept(w, f)'
  <2>1. Places(w, f)' = Places(w, f)
    BY <1>1, Zenon DEF Places, InHand, Moves, WakeUp, Task
  <2>. QED  BY <1>1, <2>1, Facts, SameFiber
<1>8. LookedAt'
  BY <1>1, <1>3, Facts DEF LookedAt
<1>9. (pendingEventCnt = Cardinality(events))'
  BY <1>1, Facts
<1>. QED  BY <1>5, <1>6, <1>7, <1>8, <1>9, Facts DEF WorkerInv

-----------------------------------------------------------------------------
(* The results *)

\* Every step keeps the invariant.
LEMMA PoolStep ==
  ASSUME OneWorker, PoolInv, [PoolNext]_poolVars
  PROVE  PoolInv'
<1>1. PICK w : Worker = {w}
  BY DEF OneWorker
<1>2. IsFiniteSet(Fiber)
  BY DEF OneWorker
<1>3. WorkerInv(w)
  BY <1>1, <1>2, ForWorker
<1>4. ASSUME WorkerStep(w) PROVE WorkerInv(w)'
  <2>1. CASE Take(w)
    BY <1>3, <2>1, TakeInv
  <2>2. CASE ResumeFiber(w)
    BY <1>3, <2>2, ResumeInv
  <2>3. CASE RunWake(w)
    BY <1>3, <2>3, WakeInv
  <2>4. CASE RunTimeout(w)
    BY <1>3, <2>4, TimeoutInv
  <2>5. CASE ListExpired(w)
    BY <1>3, <2>5, ExpiredInv
  <2>6. CASE Trigger(w)
    BY <1>3, <2>6, TriggerInv
  <2>7. CASE Sleep(w)
    BY <1>3, <2>7, SleepInv
  <2>8. CASE BeginRead(w)
    BY <1>3, <2>8, BeginReadInv
  <2>9. CASE TryRead(w)
    BY <1>3, <2>9, TryReadInv
  <2>10. CASE AddEvent(w)
    BY <1>3, <2>10, AddEventInv
  <2>11. CASE Yield(w)
    BY <1>3, <2>11, YieldInv
  <2>12. CASE AfterWait(w)
    BY <1>3, <2>12, AfterWaitInv
  <2>13. CASE Close(w)
    BY <1>3, <2>13, CloseInv
  <2>14. CASE End(w)
    BY <1>3, <2>14, EndInv
  <2>15. CASE \/ TakeNothing(w) \/ GoIdle(w) \/ CheckTimers(w) \/ CheckEvents(w)
            \/ CheckQueue(w) \/ EpollWait(w)
    BY <1>3, <2>15, IdleInv
  <2>. QED  BY <1>4, <2>1, <2>2, <2>3, <2>4, <2>5, <2>6, <2>7,
               <2>8, <2>9, <2>10, <2>11, <2>12, <2>13, <2>14, <2>15 DEF WorkerStep
<1>5. ASSUME NEW f \in Fiber, Schedule(f) PROVE WorkerInv(w)'
  BY <1>3, <1>5, ScheduleInv
<1>6. ASSUME Stop \/ (\E t \in timers : Elapse(t)) \/ (\E f \in Fiber : Arrive(f))
             \/ UNCHANGED poolVars
      PROVE  WorkerInv(w)'
  BY <1>3, <1>6, OutsideInv
<1>7. WorkerInv(w)'
  BY <1>1, <1>4, <1>5, <1>6 DEF PoolNext
<1>. QED  BY <1>1, <1>2, <1>7, ForWorkerNext

\* The invariant holds always.
LEMMA PoolInvHolds == ASSUME OneWorker PROVE PoolSpec => []PoolInv
<1>1. PoolInit => PoolInv
  BY InitInv, ForWorker DEF OneWorker
<1>2. PoolInv /\ [PoolNext]_poolVars => PoolInv'
  BY PoolStep
<1>. QED  BY <1>1, <1>2, PTL DEF PoolSpec

\* With one worker and any number of fibers, sleeps, reads, closes and timeouts: a fiber
\* that does not run is on its way in exactly one of the queue, the worker's hand, the
\* timers and the events, so that it is neither lost nor resumed twice.
THEOREM OneWaitHolds == ASSUME OneWorker PROVE PoolSpec => []OneWait
<1>1. PoolInv => OneWait
  BY DEF PoolInv
<1>. QED  BY <1>1, PoolInvHolds, PTL

\* With one worker, stop() waits for everything: when the worker has left, no task, timer or
\* event is left, and every fiber that began has ended.
THEOREM NothingLeftHolds == ASSUME OneWorker PROVE PoolSpec => []NothingLeft
<1>1. ASSUME PoolInv, Exited PROVE tasks = <<>> /\ timers = {} /\ events = {}
                                    /\ \A f \in Fiber : fibers[f].state \in {"none", "term"}
  <2>1. PICK w : Worker = {w}
    BY DEF OneWorker
  <2>2. WorkerInv(w)
    BY <1>1, <2>1, ForWorker DEF OneWorker
  <2>3. workers[w].at = "exit"
    BY <1>1, <2>1 DEF Exited
  <2>4. tasks = <<>> /\ timers = {} /\ events = {}
    BY <2>1, <2>2, <2>3, Facts DEF LookedAt
  <2>5. ASSUME NEW f \in Fiber PROVE fibers[f].state \in {"none", "term"}
    <3>1. FiberKept(w, f) /\ fibers[f] \in FiberRecord
      BY <2>2, Facts
    <3>2. Count(tasks, f) = 0
      <4>1. {n \in DOMAIN tasks : Moves(tasks[n], f)} = {}
        BY <2>4
      <4>. QED  BY <4>1, FS_EmptySet DEF Count
    <3>3. Places(w, f) = 0
      BY <2>3, <2>4, <3>2 DEF Places, Is, InHand
    <3>. QED  BY <2>3, <3>1, <3>3 DEF FiberKept, Owed, FiberRecord
  <2>. QED  BY <2>4, <2>5
<1>2. PoolInv => NothingLeft
  BY <1>1 DEF NothingLeft
<1>. QED  BY <1>2, PoolInvHolds, PTL
=============================================================================
