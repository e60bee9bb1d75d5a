--------------------------- MODULE RaftRoundProofs ---------------------------
(***************************************************************************)
(* What the unlocked threads of a round count.  LeaderBacked: *votedNum is *)
(* never ahead of the votes they stored, so a node that becomes a leader   *)
(* has a majority behind it.  MatchIndexSound and CommitOnMajority: what a *)
(* reply says of its receiver's log stays true however late it comes, and  *)
(* *appendNums is never ahead of the peers that hold what the round sent.  *)
(* FollowsLeader: as long as one node alone stands for election, nothing   *)
(* but its log is ever sent, so that every log agrees with it although     *)
(* AppendEntries1 overwrites in place and cuts nothing.                    *)
(***************************************************************************)
EXTENDS RaftProofs, FiniteSetTheorems

-----------------------------------------------------------------------------
(* Elections: the inductive invariant. *)

\* A thread that has stored its vote stays in rv for ever; Counted are the
\* peers such threads of an election speak for.
Stored(t) == t.granted /\ t.pc \in {"test", "won", "lead", "reset", "done"}
Counted(i, e) == {t.dst : t \in {u \in rv : u.src = i /\ u.election = e /\ Stored(u)}}
Backed(i, e) == Cardinality(Counted(i, e)) + 1 >= Majority

\* One thread per peer and election.
OneThreadEach ==
  \A t, u \in rv : t.src = u.src /\ t.election = u.election /\ t.dst = u.dst => t = u

\* The counter starts at the node's own vote, and increments may be lost but never
\* invented: neither it nor a value loaded from it exceeds the votes stored.
CounterSound ==
  \A i \in Server : \A e \in DOMAIN votedNum[i] : votedNum[i][e] <= Cardinality(Counted(i, e)) + 1
SeenSound ==
  \A t \in rv : t.pc = "store" => t.granted /\ t.seen <= Cardinality(Counted(t.src, t.election)) + 1

\* A thread that saw a majority, and a leader, have one.
WinnersBacked == \A t \in rv : t.pc \in {"won", "lead", "reset"} => Backed(t.src, t.election)
LeadersBacked ==
  \A i \in Server : status[i] = "Leader" => \E e \in DOMAIN votedNum[i] : Backed(i, e)

ElectionInv == OneThreadEach /\ CounterSound /\ SeenSound /\ WinnersBacked /\ LeadersBacked

-----------------------------------------------------------------------------
(* Elections: what the steps have in common. *)

\* The peers an election counts are servers: finitely many.
LEMMA CountedFinite ==
  ASSUME TypeOK, NEW i, NEW e
  PROVE  /\ IsFiniteSet(Counted(i, e)) /\ Cardinality(Counted(i, e)) \in Nat
         /\ Majority \in Nat
<1>1. Counted(i, e) \subseteq Server
  BY DEF Counted, TypeOK, VoteThreads
<1>2. IsFiniteSet(Counted(i, e)) /\ Cardinality(Counted(i, e)) \in Nat
  BY <1>1, ServerAssumption, FS_Subset, FS_CardinalityType
<1>3. Cardinality(Server) \in Nat
  BY ServerAssumption, FS_CardinalityType
<1> QED
  BY <1>2, <1>3 DEF Majority

\* A stored vote is not forgotten by this step.
VotesKept ==
  \A t \in rv : Stored(t) =>
     \E u \in rv' : u.src = t.src /\ u.dst = t.dst /\ u.election = t.election /\ Stored(u)

\* Such a step leaves the majorities that elections have.
LEMMA CountedGrows ==
  ASSUME TypeOK, TypeOK', VotesKept, NEW i, NEW e
  PROVE  /\ Cardinality(Counted(i, e)) \in Nat /\ Cardinality(Counted(i, e)') \in Nat
         /\ Cardinality(Counted(i, e)) <= Cardinality(Counted(i, e)')
         /\ Backed(i, e) => Backed(i, e)'
<1>1. Counted(i, e) \subseteq Counted(i, e)'
  BY DEF VotesKept, Counted
<1>2. IsFiniteSet(Counted(i, e)') /\ Cardinality(Counted(i, e)') \in Nat
  <2>1. Counted(i, e)' \subseteq Server
    BY DEF Counted, TypeOK, VoteThreads
  <2> QED
    BY <2>1, ServerAssumption, FS_Subset, FS_CardinalityType
<1>3. Cardinality(Counted(i, e)) <= Cardinality(Counted(i, e)')
  BY <1>1, <1>2, FS_Subset
<1>4. Backed(i, e)' <=> Cardinality(Counted(i, e)') + 1 >= Majority
  BY DEF Backed
<1> QED
  BY <1>1, <1>2, <1>3, <1>4, CountedFinite DEF Backed

\* No step but BecomeLeader makes a leader.
NoNewLeader == \A i \in Server : status'[i] = "Leader" => status[i] = "Leader"

\* A step outside elections keeps the invariant.
LEMMA ElectionUnmoved ==
  ASSUME ElectionInv, UNCHANGED <<rv, votedNum>>, NoNewLeader
  PROVE  ElectionInv'
<1>1. \A i, e : Counted(i, e)' = Counted(i, e)
  BY DEF Counted
<1>2. \A i, e : Backed(i, e)' <=> Backed(i, e)
  BY <1>1 DEF Backed
<1>3. OneThreadEach' /\ CounterSound' /\ SeenSound'
  BY <1>1 DEF ElectionInv, OneThreadEach, CounterSound, SeenSound
<1>4. WinnersBacked' /\ LeadersBacked'
  BY <1>2 DEF ElectionInv, WinnersBacked, LeadersBacked, NoNewLeader
<1> QED
  BY <1>3, <1>4 DEF ElectionInv

\* A thread t that becomes u, or ends, keeps the invariant if u still stands for a
\* stored vote of t, what u carries is true, and so is what the step writes.
LEMMA MovePreserves ==
  ASSUME IInv, IInv', ElectionInv,
         NEW t \in rv, NEW u, u.src = t.src, u.dst = t.dst, u.election = t.election,
         rv \ {t} \subseteq rv', rv' \subseteq (rv \ {t}) \cup {u},
         Stored(t) => u \in rv' /\ Stored(u),
         u.pc = "store" => u.granted /\ u.seen <= Cardinality(Counted(t.src, t.election)) + 1,
         u.pc \in {"won", "lead", "reset"} => Backed(t.src, t.election),
         \A i \in Server :
            status'[i] = "Leader" => status[i] = "Leader" \/ (i = t.src /\ Backed(t.src, t.election)),
         \A i \in Server :
            /\ DOMAIN votedNum'[i] = DOMAIN votedNum[i]
            /\ \A e \in DOMAIN votedNum[i] :
                  \/ votedNum'[i][e] <= votedNum[i][e]
                  \/ votedNum'[i][e] <= Cardinality(Counted(i, e)') + 1
  PROVE  ElectionInv'
<1>1. TypeOK /\ TypeOK' /\ t.src \in Server
  BY DEF IInv, TypeOK, VoteThreads
<1>2. OneThreadEach'
  BY DEF ElectionInv, OneThreadEach
<1>3. VotesKept
  BY DEF VotesKept
<1>4. ASSUME NEW i, NEW e
      PROVE  /\ Cardinality(Counted(i, e)) \in Nat /\ Cardinality(Counted(i, e)') \in Nat
             /\ Cardinality(Counted(i, e)) <= Cardinality(Counted(i, e)')
             /\ Backed(i, e) => Backed(i, e)'
  BY <1>1, <1>3, CountedGrows
<1>5. CounterSound'
  <2> SUFFICES ASSUME NEW i \in Server, NEW e \in DOMAIN votedNum[i]
               PROVE  votedNum'[i][e] <= Cardinality(Counted(i, e)') + 1
    BY DEF CounterSound
  <2>1. votedNum[i][e] \in Nat /\ votedNum'[i][e] \in Nat
    <3>1. votedNum[i] \in Seq(Nat) /\ votedNum'[i] \in Seq(Nat) /\ e \in DOMAIN votedNum'[i]
      BY <1>1 DEF TypeOK
    <3> QED
      BY <3>1
  <2>2. votedNum[i][e] <= Cardinality(Counted(i, e)) + 1
    BY DEF ElectionInv, CounterSound
  <2> QED
    BY <1>4, <2>1, <2>2
<1>6. ASSUME NEW v \in rv', v.pc = "store"
      PROVE  v.granted /\ v.seen <= Cardinality(Counted(v.src, v.election)') + 1
  <2>1. v.granted /\ v.seen <= Cardinality(Counted(v.src, v.election)) + 1 /\ v.seen \in Nat
    <3>1. v.seen \in Nat
      BY <1>1 DEF TypeOK, VoteThreads
    <3>2. CASE v \in rv
      BY <1>6, <3>1, <3>2 DEF ElectionInv, SeenSound
    <3>3. CASE v = u
      BY <1>6, <3>1, <3>3
    <3> QED
      BY <3>2, <3>3
  <2> QED
    BY <1>4, <2>1
<1>7. ASSUME NEW v \in rv', v.pc \in {"won", "lead", "reset"}
      PROVE  Backed(v.src, v.election)'
  <2>1. CASE v \in rv
    BY <1>4, <1>7, <2>1 DEF ElectionInv, WinnersBacked
  <2>2. CASE v = u
    BY <1>4, <1>7, <2>2
  <2> QED
    BY <2>1, <2>2
<1>8. LeadersBacked'
  <2> SUFFICES ASSUME NEW i \in Server, status'[i] = "Leader"
               PROVE  \E e \in DOMAIN votedNum[i] : Backed(i, e)'
    BY DEF LeadersBacked
  <2>1. CASE status[i] = "Leader"
    BY <1>4, <2>1 DEF ElectionInv, LeadersBacked
  <2>2. CASE i = t.src /\ Backed(t.src, t.election)
    BY <1>4, <2>2 DEF IInv, CountersExist
  <2> QED
    BY <2>1, <2>2
<1>9. SeenSound'
  BY <1>6 DEF SeenSound
<1>10. WinnersBacked'
  BY <1>7 DEF WinnersBacked, Backed, Counted
<1> QED
  BY <1>2, <1>5, <1>8, <1>9, <1>10 DEF ElectionInv

-----------------------------------------------------------------------------
(* Elections: each step keeps the invariant. *)

\* doElection: its threads are the first of a new election, its counter is the own vote.
LEMMA DoElectionBacked ==
  ASSUME IInv, IInv', ElectionInv, NEW i \in Server, DoElection(i)
  PROVE  ElectionInv'
<1> DEFINE new(j) == [src |-> i, dst |-> j, election |-> Len(votedNum[i]) + 1, pc |-> "call",
                      term |-> currentTerm[i] + 1, lastIndex |-> LastIndex(i),
                      lastTerm |-> LastTerm(i), replyTerm |-> 0, granted |-> FALSE, seen |-> 0]
<1>1. rv' = rv \cup {new(j) : j \in Server \ {i}}
  BY DEF DoElection
<1>2. /\ votedNum \in [Server -> Seq(Nat)] /\ Len(votedNum[i]) \in Nat
      /\ votedNum' = [votedNum EXCEPT ![i] = Append(@, 1)]
      /\ status' = [status EXCEPT ![i] = "Candidate"] /\ status \in [Server -> Status]
  BY DEF IInv, TypeOK, DoElection
<1>3. ASSUME NEW t \in rv
      PROVE  t.src = i => t.election # Len(votedNum[i]) + 1
  <2>1. t.src = i => t.election \in 1 .. Len(votedNum[i])
    BY <1>2 DEF IInv, CountersExist
  <2> QED
    BY <1>2, <2>1
<1>4. \A v \in rv' : v \in rv \/ (\E j \in Server : v = new(j))
  BY <1>1
<1>5. OneThreadEach'
  <2> SUFFICES ASSUME NEW t \in rv', NEW v \in rv',
                      t.src = v.src, t.election = v.election, t.dst = v.dst
               PROVE  t = v
    BY DEF OneThreadEach
  <2>1. CASE t \in rv /\ v \in rv
    BY <2>1 DEF ElectionInv, OneThreadEach
  <2>2. CASE t \in rv /\ v \notin rv
    BY <1>3, <1>4, <2>2
  <2>3. CASE t \notin rv /\ v \in rv
    BY <1>3, <1>4, <2>3
  <2>4. CASE t \notin rv /\ v \notin rv
    <3>1. PICK j \in Server : t = new(j)
      BY <1>4, <2>4
    <3>2. PICK k \in Server : v = new(k)
      BY <1>4, <2>4
    <3>3. t.dst = j /\ v.dst = k
      BY <3>1, <3>2
    <3> QED
      BY <3>1, <3>2, <3>3
  <2> QED
    BY <2>1, <2>2, <2>3, <2>4
<1>6. VotesKept
  BY <1>1 DEF VotesKept
<1>7. ASSUME NEW k, NEW e
      PROVE  /\ Cardinality(Counted(k, e)) \in Nat /\ Cardinality(Counted(k, e)') \in Nat
             /\ Cardinality(Counted(k, e)) <= Cardinality(Counted(k, e)')
             /\ Backed(k, e) => Backed(k, e)'
  BY <1>6, CountedGrows DEF IInv
<1>8. CounterSound'
  <2> SUFFICES ASSUME NEW k \in Server, NEW e \in DOMAIN votedNum'[k]
               PROVE  votedNum'[k][e] <= Cardinality(Counted(k, e)') + 1
    BY DEF CounterSound
  <2>1. votedNum'[k][e] = 1 \/ (e \in DOMAIN votedNum[k] /\ votedNum'[k][e] = votedNum[k][e])
    BY <1>2
  <2>2. e \in DOMAIN votedNum[k] => votedNum[k][e] \in Nat
    BY <1>2
  <2>3. e \in DOMAIN votedNum[k] => votedNum[k][e] <= Cardinality(Counted(k, e)) + 1
    BY DEF ElectionInv, CounterSound
  <2> QED
    BY <1>7, <2>1, <2>2, <2>3
<1>9. SeenSound'
  <2> SUFFICES ASSUME NEW v \in rv', v.pc = "store"
               PROVE  v.granted /\ v.seen <= Cardinality(Counted(v.src, v.election)') + 1
    BY DEF SeenSound
  <2>1. v \in rv
    BY <1>4
  <2>2. v.seen \in Nat /\ v.granted /\ v.seen <= Cardinality(Counted(v.src, v.election)) + 1
    BY <2>1 DEF ElectionInv, SeenSound, IInv, TypeOK, VoteThreads
  <2> QED
    BY <1>7, <2>2
<1>10. WinnersBacked'
  <2> SUFFICES ASSUME NEW v \in rv', v.pc \in {"won", "lead", "reset"}
               PROVE  Backed(v.src, v.election)'
    BY DEF WinnersBacked, Backed, Counted
  <2>1. v \in rv
    BY <1>4
  <2> QED
    BY <1>7, <2>1 DEF ElectionInv, WinnersBacked
<1>11. LeadersBacked'
  <2> SUFFICES ASSUME NEW k \in Server, status'[k] = "Leader"
               PROVE  \E e \in DOMAIN votedNum'[k] : Backed(k, e)'
    BY DEF LeadersBacked
  <2>1. status[k] = "Leader"
    BY <1>2
  <2>2. PICK e \in DOMAIN votedNum[k] : Backed(k, e)
    BY <2>1 DEF ElectionInv, LeadersBacked
  <2>3. e \in DOMAIN votedNum'[k]
    BY <1>2
  <2> QED
    BY <1>7, <2>2, <2>3
<1> QED
  BY <1>5, <1>8, <1>9, <1>10, <1>11 DEF ElectionInv

\* A thread that moves to another label keeps its names.
LEMMA ThreadNames ==
  ASSUME TypeOK, NEW t \in rv, NEW pc, NEW n, NEW g
  PROVE  /\ LET u == [t EXCEPT !.pc = pc]
            IN u.src = t.src /\ u.dst = t.dst /\ u.election = t.election
               /\ u.pc = pc /\ u.granted = t.granted
         /\ LET u == [t EXCEPT !.pc = pc, !.seen = n]
            IN u.src = t.src /\ u.dst = t.dst /\ u.election = t.election
               /\ u.pc = pc /\ u.granted = t.granted /\ u.seen = n
         /\ LET u == [t EXCEPT !.pc = pc, !.replyTerm = n, !.granted = g]
            IN u.src = t.src /\ u.dst = t.dst /\ u.election = t.election /\ u.pc = pc
BY DEF TypeOK, VoteThreads

\* Before its vote is stored a thread may answer, move on and end.
LEMMA EarlyStepBacked ==
  ASSUME IInv, IInv', ElectionInv, NEW t \in rv,
         RequestVote(t) \/ VoteReplyTerm(t) \/ VoteStepDown(t)
  PROVE  ElectionInv'
<1>1. PICK u : /\ u.src = t.src /\ u.dst = t.dst /\ u.election = t.election
               /\ u.pc \in {"call", "reply", "stepdown", "equal"}
               /\ rv \ {t} \subseteq rv' /\ rv' \subseteq (rv \ {t}) \cup {u}
  <2>1. ASSUME NEW term, NEW g, t.pc = "call", AnswerRV(t, term, g)
        PROVE  \E u : /\ u.src = t.src /\ u.dst = t.dst /\ u.election = t.election
                      /\ u.pc \in {"call", "reply", "stepdown", "equal"}
                      /\ rv \ {t} \subseteq rv' /\ rv' \subseteq (rv \ {t}) \cup {u}
    <3> WITNESS [t EXCEPT !.pc = "reply", !.replyTerm = term, !.granted = g]
    <3> QED
      BY <2>1, ThreadNames DEF AnswerRV, IInv
  <2>2. ASSUME NEW pc \in {"stepdown", "equal"}, MoveRV(t, pc)
        PROVE  \E u : /\ u.src = t.src /\ u.dst = t.dst /\ u.election = t.election
                      /\ u.pc \in {"call", "reply", "stepdown", "equal"}
                      /\ rv \ {t} \subseteq rv' /\ rv' \subseteq (rv \ {t}) \cup {u}
    <3> WITNESS [t EXCEPT !.pc = pc]
    <3> QED
      BY <2>2, ThreadNames DEF MoveRV, IInv
  <2>3. ASSUME t.pc \in {"reply", "stepdown"}, EndRV(t)
        PROVE  \E u : /\ u.src = t.src /\ u.dst = t.dst /\ u.election = t.election
                      /\ u.pc \in {"call", "reply", "stepdown", "equal"}
                      /\ rv \ {t} \subseteq rv' /\ rv' \subseteq (rv \ {t}) \cup {u}
    <3> WITNESS t
    <3> QED
      BY <2>3 DEF EndRV
  <2>4. CASE RequestVote(t)
    BY <2>1, <2>4 DEF RequestVote
  <2>5. CASE VoteReplyTerm(t)
    BY <2>2, <2>3, <2>5 DEF VoteReplyTerm
  <2>6. CASE VoteStepDown(t)
    BY <2>3, <2>6 DEF VoteStepDown
  <2> QED
    BY <2>4, <2>5, <2>6
<1>2. ~Stored(t)
  BY DEF Stored, RequestVote, VoteReplyTerm, VoteStepDown
<1>3. votedNum' = votedNum
  BY DEF RequestVote, VoteReplyTerm, VoteStepDown
<1>4. NoNewLeader
  <2>1. status \in [Server -> Status]
    BY DEF IInv, TypeOK
  <2> QED
    BY <2>1 DEF NoNewLeader, RequestVote, VoteReplyTerm, VoteStepDown, electionVars
<1>5. \A i \in Server : \A e \in DOMAIN votedNum[i] : votedNum'[i][e] <= votedNum[i][e]
  BY <1>3 DEF IInv, TypeOK
<1> QED
  BY <1>1, <1>2, <1>3, <1>4, <1>5, MovePreserves DEF NoNewLeader

\* The load: what the thread has seen is no more than the counter.
LEMMA VoteLoadBacked ==
  ASSUME IInv, IInv', ElectionInv, NEW t \in rv, VoteLoad(t)
  PROVE  ElectionInv'
<1> DEFINE seen == votedNum[t.src][t.election]
           u == [t EXCEPT !.pc = "store", !.seen = seen]
<1>1. /\ u.src = t.src /\ u.dst = t.dst /\ u.election = t.election
      /\ u.pc = "store" /\ u.granted = t.granted /\ u.seen = seen
  BY ThreadNames DEF IInv
<1>2. seen <= Cardinality(Counted(t.src, t.election)) + 1
  BY DEF ElectionInv, CounterSound, IInv, TypeOK, VoteThreads, CountersExist
<1>3. ~Stored(t)
  BY DEF Stored, VoteLoad
<1>4. votedNum' = votedNum /\ status' = status
  BY DEF VoteLoad, electionVars
<1>5. \A i \in Server : \A e \in DOMAIN votedNum[i] : votedNum'[i][e] <= votedNum[i][e]
  BY <1>4 DEF IInv, TypeOK
<1>6. CASE t.granted
  <2>1. rv \ {t} \subseteq rv' /\ rv' \subseteq (rv \ {t}) \cup {u}
    BY <1>6 DEF VoteLoad
  <2> HIDE DEF u, seen
  <2> QED
    BY <1>1, <1>2, <1>3, <1>4, <1>5, <1>6, <2>1, MovePreserves
<1>7. CASE ~t.granted
  <2>1. rv \ {t} \subseteq rv' /\ rv' \subseteq (rv \ {t}) \cup {t} /\ t.pc = "equal"
    BY <1>7 DEF VoteLoad
  <2> QED
    BY <1>3, <1>4, <1>5, <2>1, MovePreserves
<1> QED
  BY <1>6, <1>7

\* The store: the peer of this thread was not counted yet, so the votes stored grow
\* with the counter even if it overwrites another thread's increment.
LEMMA VoteStoreBacked ==
  ASSUME IInv, IInv', ElectionInv, NEW t \in rv, VoteStore(t)
  PROVE  ElectionInv'
<1> DEFINE u == [t EXCEPT !.pc = "test"]
           i == t.src
           e == t.election
<1>1. /\ u.src = i /\ u.dst = t.dst /\ u.election = e
      /\ u.pc = "test" /\ u.granted = t.granted
  BY ThreadNames DEF IInv
<1>2. /\ t.granted /\ t.seen <= Cardinality(Counted(i, e)) + 1 /\ t.seen \in Nat
      /\ i \in Server /\ ~Stored(t)
  BY DEF ElectionInv, SeenSound, VoteStore, IInv, TypeOK, VoteThreads, Stored
<1>3. rv' = (rv \ {t}) \cup {u} /\ status' = status
  BY DEF VoteStore, MoveRV, electionVars
<1>4. u \in rv' /\ Stored(u)
  BY <1>1, <1>2, <1>3 DEF Stored
<1> HIDE DEF u
<1>5. t.dst \notin Counted(i, e)
  BY <1>2 DEF Counted, ElectionInv, OneThreadEach
<1>6. Counted(i, e)' = Counted(i, e) \cup {t.dst}
  BY <1>1, <1>2, <1>3, <1>4 DEF Counted
<1>7. /\ Cardinality(Counted(i, e)') = Cardinality(Counted(i, e)) + 1
      /\ Cardinality(Counted(i, e)) \in Nat
  BY <1>5, <1>6, CountedFinite, FS_AddElement DEF IInv
<1>8. votedNum \in [Server -> Seq(Nat)] /\ votedNum' = [votedNum EXCEPT ![i][e] = t.seen + 1]
  BY DEF VoteStore, IInv, TypeOK
<1>9. ASSUME NEW j \in Server
      PROVE  /\ DOMAIN votedNum'[j] = DOMAIN votedNum[j]
             /\ \A f \in DOMAIN votedNum[j] :
                   \/ votedNum'[j][f] <= votedNum[j][f]
                   \/ votedNum'[j][f] <= Cardinality(Counted(j, f)') + 1
  <2>1. DOMAIN votedNum'[j] = DOMAIN votedNum[j]
    BY <1>2, <1>8, CounterUpdate
  <2> SUFFICES ASSUME NEW f \in DOMAIN votedNum[j]
               PROVE  \/ votedNum'[j][f] <= votedNum[j][f]
                      \/ votedNum'[j][f] <= Cardinality(Counted(j, f)') + 1
    BY <2>1
  <2>2. CASE j = i /\ f = e
    <3>1. votedNum'[i][e] = t.seen + 1
      BY <1>2, <1>8, <2>2
    <3> QED
      BY <1>2, <1>7, <2>2, <3>1
  <2>3. CASE ~(j = i /\ f = e)
    <3>1. votedNum'[j][f] = votedNum[j][f] /\ votedNum[j][f] \in Nat
      BY <1>2, <1>8, <2>3
    <3> QED
      BY <3>1
  <2> QED
    BY <2>2, <2>3
<1> QED
  BY <1>1, <1>2, <1>3, <1>4, <1>9, MovePreserves

\* The test: a thread that sees a majority in the counter has one behind it.
LEMMA VoteTestBacked ==
  ASSUME IInv, IInv', ElectionInv, NEW t \in rv, VoteTest(t)
  PROVE  ElectionInv'
<1> DEFINE pc == IF votedNum[t.src][t.election] < Majority THEN "done" ELSE "won"
           u == [t EXCEPT !.pc = pc]
<1>1. /\ u.src = t.src /\ u.dst = t.dst /\ u.election = t.election
      /\ u.pc = pc /\ u.granted = t.granted
  BY ThreadNames DEF IInv
<1>2. pc = "won" => Backed(t.src, t.election)
  <2>1. votedNum[t.src][t.election] \in Nat
        /\ votedNum[t.src][t.election] <= Cardinality(Counted(t.src, t.election)) + 1
    <3>1. t.src \in Server /\ votedNum[t.src] \in Seq(Nat) /\ t.election \in DOMAIN votedNum[t.src]
      BY DEF IInv, TypeOK, VoteThreads, CountersExist
    <3>2. votedNum[t.src][t.election] \in Nat
      BY <3>1
    <3> QED
      BY <3>1, <3>2 DEF ElectionInv, CounterSound
  <2>2. Cardinality(Counted(t.src, t.election)) \in Nat /\ Majority \in Nat
    BY CountedFinite DEF IInv
  <2> QED
    BY <2>1, <2>2 DEF Backed
<1>3. rv' = (rv \ {t}) \cup {u} /\ status' = status /\ votedNum' = votedNum
  BY DEF VoteTest, MoveRV, electionVars
<1>4. \A i \in Server : \A e \in DOMAIN votedNum[i] : votedNum'[i][e] <= votedNum[i][e]
  BY <1>3 DEF IInv, TypeOK
<1>5. Stored(t) => Stored(u)
  BY <1>1 DEF Stored
<1>6. pc \in {"done", "won"}
  OBVIOUS
<1> HIDE DEF u, pc
<1> QED
  BY <1>1, <1>2, <1>3, <1>4, <1>5, <1>6, MovePreserves

\* The thread that won resets the counter, becomes leader and resets the peers: the
\* votes it won with are there in each of these steps.
LEMMA WinnerBacked ==
  ASSUME IInv, IInv', ElectionInv, NEW t \in rv, VoteWon(t) \/ BecomeLeader(t) \/ ResetPeers(t)
  PROVE  ElectionInv'
<1>1. PICK pc \in {"lead", "reset", "done"} : MoveRV(t, pc)
  BY DEF VoteWon, BecomeLeader, ResetPeers
<1> DEFINE u == [t EXCEPT !.pc = pc]
<1>2. /\ u.src = t.src /\ u.dst = t.dst /\ u.election = t.election
      /\ u.pc = pc /\ u.granted = t.granted
  BY ThreadNames DEF IInv
<1>3. rv' = (rv \ {t}) \cup {u} /\ t.src \in Server
  BY <1>1 DEF MoveRV, IInv, TypeOK, VoteThreads
<1>4. Backed(t.src, t.election)
  BY DEF ElectionInv, WinnersBacked, VoteWon, BecomeLeader, ResetPeers
<1>5. Stored(t) => Stored(u)
  BY <1>2 DEF Stored
<1>6. \A i \in Server : status'[i] = "Leader" => status[i] = "Leader" \/ i = t.src
  <2>1. status \in [Server -> Status]
    BY DEF IInv, TypeOK
  <2> QED
    BY <2>1 DEF VoteWon, BecomeLeader, ResetPeers, electionVars
<1>7. ASSUME NEW j \in Server
      PROVE  /\ DOMAIN votedNum'[j] = DOMAIN votedNum[j]
             /\ \A f \in DOMAIN votedNum[j] : votedNum'[j][f] <= votedNum[j][f]
  <2>1. votedNum \in [Server -> Seq(Nat)]
    BY DEF IInv, TypeOK
  <2>2. CASE votedNum' = votedNum
    <3>1. \A f \in DOMAIN votedNum[j] : votedNum[j][f] \in Nat
      BY <2>1
    <3> QED
      BY <2>2, <3>1
  <2>3. CASE votedNum' = [votedNum EXCEPT ![t.src][t.election] = 0]
    <3>1. DOMAIN votedNum'[j] = DOMAIN votedNum[j]
      BY <1>3, <2>1, <2>3, CounterUpdate
    <3>2. ASSUME NEW f \in DOMAIN votedNum[j]
          PROVE  votedNum'[j][f] \in {0, votedNum[j][f]} /\ votedNum[j][f] \in Nat
      BY <1>3, <2>1, <2>3
    <3> QED
      BY <3>1, <3>2
  <2> QED
    BY <2>2, <2>3 DEF VoteWon, BecomeLeader, ResetPeers
<1> HIDE DEF u
<1> QED
  BY <1>2, <1>3, <1>4, <1>5, <1>6, <1>7, MovePreserves

-----------------------------------------------------------------------------
(* Elections: all steps, and the theorem. *)

\* Every step keeps the invariant: only an election's own steps and changes of status
\* concern it, and outside elections a status only becomes that of a follower.
LEMMA ElectionStep ==
  ASSUME IInv, ElectionInv, [Next]_vars
  PROVE  ElectionInv'
<1> USE StepInv
<1>0. status \in [Server -> Status]
  BY DEF IInv, TypeOK
<1>1. CASE UNCHANGED <<rv, votedNum, status>>
  BY <1>1, ElectionUnmoved DEF NoNewLeader
<1>2. ASSUME NEW i \in Server, DoElection(i) PROVE ElectionInv'
  BY <1>2, DoElectionBacked
<1>3. ASSUME NEW t \in rv, VoteThread(t) PROVE ElectionInv'
  BY <1>3, EarlyStepBacked, VoteLoadBacked, VoteStoreBacked, VoteTestBacked, WinnerBacked DEF VoteThread
<1>4. ASSUME NEW m \in ae, AppendThread(m) PROVE ElectionInv'
  <2>1. UNCHANGED <<rv, votedNum>>
    BY <1>4 DEF AppendThread, AppendEntries1, SendAppendEntries
  <2>2. status' = status \/ (\E j \in Server : status' = [status EXCEPT ![j] = "Follower"])
    <3>1. m.src \in Server /\ m.dst \in Server
      BY DEF IInv, TypeOK, AppendThreads
    <3> QED
      BY <1>4, <3>1
      DEF AppendThread, AppendEntries1, SendAppendEntries, RejectOldTerm, RejectGap, FailBelowSnapshot,
          RejectMismatch, FailCommandsDiffer, AcceptEntries, AdoptTerm, AppendStepDown, AppendStale,
          AppendBackUp, AppendCounted, electionVars
  <2>3. NoNewLeader
    BY <1>0, <2>2 DEF NoNewLeader
  <2> QED
    BY <2>1, <2>3, ElectionUnmoved
<1>5. ASSUME NEW s \in is, SnapshotThread(s) PROVE ElectionInv'
  <2>1. UNCHANGED <<rv, votedNum>>
    BY <1>5 DEF SnapshotThread, SendSnapshot, InstallSnapshot, SnapshotReply
  <2>2. status' = status \/ (\E j \in Server : status' = [status EXCEPT ![j] = "Follower"])
    <3>1. s.src \in Server /\ s.dst \in Server
      BY DEF IInv, TypeOK, SnapshotThreads
    <3> QED
      BY <1>5, <3>1
      DEF SnapshotThread, SendSnapshot, InstallSnapshot, SnapshotReply, RejectSnapshot, KnownSnapshot,
          AcceptSnapshot, AdoptTerm, electionVars
  <2>3. NoNewLeader
    BY <1>0, <2>2 DEF NoNewLeader
  <2> QED
    BY <2>1, <2>3, ElectionUnmoved
<1> QED
  BY <1>1, <1>2, <1>3, <1>4, <1>5
  DEF Next, DoHeartBeat, ApplierTicker, Start, Snapshot, electionVars, vars

\* The invariant of elections holds in every reachable state.
LEMMA Elected == Spec => []ElectionInv
<1>1. Init => ElectionInv
  <2> SUFFICES ASSUME Init PROVE ElectionInv
    OBVIOUS
  <2>1. rv = {} /\ (\A i \in Server : votedNum[i] = <<>> /\ status[i] = "Follower")
    BY DEF Init
  <2> QED
    BY <2>1 DEF ElectionInv, OneThreadEach, CounterSound, SeenSound, WinnersBacked, LeadersBacked
<1>2. IInv /\ ElectionInv /\ [Next]_vars => ElectionInv'
  BY ElectionStep
<1> QED
  BY Invariance, <1>1, <1>2, PTL DEF Spec

\* A leader has a majority behind it, itself included, whatever the unlocked threads
\* of sendRequestVote do to the counter they share, and however many elections a node
\* starts before their replies arrive.
THEOREM LeaderBackedHolds == Spec => []LeaderBacked
<1>1. IInv /\ ElectionInv => LeaderBacked
  <2> SUFFICES ASSUME IInv, ElectionInv, NEW i \in Server, status[i] = "Leader"
               PROVE  \E e \in DOMAIN votedNum[i] : Cardinality(Grants(i, e)) + 1 >= Majority
    BY DEF LeaderBacked
  <2>1. PICK e \in DOMAIN votedNum[i] : Backed(i, e)
    BY DEF ElectionInv, LeadersBacked
  <2>2. Counted(i, e) \subseteq Grants(i, e) /\ Grants(i, e) \subseteq Server
    BY DEF Counted, Grants, Stored, IInv, TypeOK, VoteThreads
  <2>3. /\ Cardinality(Counted(i, e)) <= Cardinality(Grants(i, e))
        /\ Cardinality(Grants(i, e)) \in Nat
    BY <2>2, ServerAssumption, FS_Subset, FS_CardinalityType
  <2>4. Cardinality(Counted(i, e)) \in Nat /\ Majority \in Nat
    BY CountedFinite DEF IInv
  <2>5. Cardinality(Grants(i, e)) + 1 >= Majority
    BY <2>1, <2>3, <2>4 DEF Backed
  <2> QED
    BY <2>5
<1> QED
  BY Invariance, Elected, <1>1, PTL

-----------------------------------------------------------------------------
(* AppendEntries: the inductive invariant. *)

\* One thread per peer and round, never to the node itself; all of a round send the
\* log up to the same index.
OneAppendEach ==
  \A m, n \in ae : m.src = n.src /\ m.round = n.round /\ m.dst = n.dst => m = n
SentTogether ==
  \A m, n \in ae : m.src = n.src /\ m.round = n.round => Sent(m) = Sent(n)
ToPeers == \A m \in ae : m.dst # m.src

\* The peers that have been counted in a round, and the counter of the round.
Repliers(i, r) == {m.dst : m \in {n \in ae : n.src = i /\ n.round = r /\ n.pc = "counted"}}
AppendNumsSound ==
  \A i \in Server : \A r \in DOMAIN appendNums[i] :
     appendNums[i][r] <= Cardinality(Repliers(i, r)) + 1

RoundsInv == OneAppendEach /\ SentTogether /\ ToPeers /\ AppendNumsSound

\* A success means that the receiver holds what was sent, and so does an answer to a
\* snapshot that is not a rejection.
AnswersHeld ==
  \A m \in ae :
     /\ m.success => Sent(m) <= LastIndex(m.dst)
     /\ m.pc = "counted" => m.success
SnapshotsHeld ==
  \A s \in is : s.pc = "reply" /\ s.replyTerm <= s.term => s.index <= LastIndex(s.dst)
MatchHeld == \A i, j \in Server : Running(j) => matchIndex[i][j] <= LastIndex(j)

\* A majority holds index n, wherever it is known as committed.
Held(n) == n > 0 => Cardinality(Holders(n)) >= Majority
CommitsHeld ==
  /\ \A i \in Server : Held(commitIndex[i])
  /\ \A m \in ae : Held(m.commit)
  /\ \A s \in is : Held(s.index)

ReplicaInv == RoundsInv /\ AnswersHeld /\ SnapshotsHeld /\ MatchHeld /\ CommitsHeld

-----------------------------------------------------------------------------
(* AppendEntries: what the steps have in common. *)

\* The servers that hold an index, and those counted in a round, are finitely many.
LEMMA ServersFinite ==
  ASSUME NEW S, S \subseteq Server
  PROVE  IsFiniteSet(S) /\ Cardinality(S) \in Nat /\ Majority \in Nat
<1>1. IsFiniteSet(S) /\ Cardinality(S) \in Nat /\ Cardinality(Server) \in Nat
  BY ServerAssumption, FS_Subset, FS_CardinalityType
<1> QED
  BY <1>1 DEF Majority

\* A step from a state of both invariants: no index moves backwards, and a process
\* that has ended does not run again.
Advance ==
  /\ IInv /\ IInv' /\ ReplicaInv /\ Forward
  /\ \A j \in Server : Running(j)' => Running(j)

\* The numbers that the steps compare.
LEMMA NumbersBefore ==
  ASSUME IInv
  PROVE  /\ \A j \in Server : LastIndex(j) \in Nat /\ commitIndex[j] \in Nat /\ snapIndex[j] \in Nat
         /\ \A j, k \in Server : matchIndex[j][k] \in Nat
         /\ \A m \in ae : Sent(m) \in Nat /\ m.commit \in Nat /\ m.src \in Server /\ m.dst \in Server
         /\ \A s \in is : s.index \in Nat /\ s.src \in Server /\ s.dst \in Server
<1>1. \A j \in Server : LastIndex(j) \in Nat /\ commitIndex[j] \in Nat /\ snapIndex[j] \in Nat
  BY LogFacts, LastTyped DEF IInv
<1>2. \A j, k \in Server : matchIndex[j][k] \in Nat
  BY DEF IInv, TypeOK, Index
<1>3. \A m \in ae : Sent(m) \in Nat /\ m.commit \in Nat /\ m.src \in Server /\ m.dst \in Server
  BY AppendThreadFacts DEF Sent
<1>4. \A s \in is : s.index \in Nat /\ s.src \in Server /\ s.dst \in Server
  BY DEF IInv, TypeOK, SnapshotThreads, Index
<1> QED
  BY <1>1, <1>2, <1>3, <1>4

\* The last index of a node after the step is a number, too, at or past its snapshot
\* and its commit index.
LEMMA NumbersAfter ==
  ASSUME IInv', NEW j \in Server
  PROVE  /\ LastIndex(j)' \in Nat /\ commitIndex'[j] \in Nat /\ snapIndex'[j] \in Nat
         /\ snapIndex'[j] <= commitIndex'[j] /\ commitIndex'[j] <= LastIndex(j)'
<1>1. TypeOK' /\ LogIndexed(j)'
  BY DEF IInv, IndexChain
<1>2. /\ logs'[j] \in Seq(LogEntry(Command)) /\ snapIndex'[j] \in Nat
      /\ commitIndex'[j] \in Nat /\ lastApplied'[j] \in Nat
  BY <1>1 DEF TypeOK, Index, Entries
<1>3. LastIndex(j)' = snapIndex'[j] + Len(logs'[j])
  BY <1>1, LastAfter
<1>4. /\ snapIndex'[j] <= lastApplied'[j] /\ lastApplied'[j] <= commitIndex'[j]
      /\ commitIndex'[j] <= LastIndex(j)'
  BY DEF IInv, IndexChain
<1> QED
  BY <1>2, <1>3, <1>4

\* What a majority holds it goes on holding, and it holds every lower index.
LEMMA HeldGrows ==
  ASSUME IInv, IInv', Forward, NEW n \in Nat, NEW k \in Nat, k <= n, Held(n)
  PROVE  Held(k)'
<1>1. Holders(n) \subseteq Holders(k)'
  <2> SUFFICES ASSUME NEW j \in Server, LastIndex(j) >= n
               PROVE  LastIndex(j)' >= k
    BY DEF Holders
  <2>1. LastIndex(j) \in Nat /\ LastIndex(j)' \in Nat
    BY NumbersBefore, NumbersAfter
  <2>2. LastIndex(j)' >= LastIndex(j)
    BY DEF Forward
  <2> QED
    BY <2>1, <2>2
<1>2. Holders(k)' \subseteq Server
  BY DEF Holders
<1>3. IsFiniteSet(Holders(k)') /\ Cardinality(Holders(k)') \in Nat /\ Majority \in Nat
  BY <1>2, ServersFinite
<1>4. Cardinality(Holders(n)) <= Cardinality(Holders(k)') /\ Cardinality(Holders(n)) \in Nat
  BY <1>1, <1>3, FS_Subset, FS_CardinalityType
<1>5. Held(k)' <=> (k > 0 => Cardinality(Holders(k)') >= Majority)
  BY DEF Held
<1> QED
  BY <1>3, <1>4, <1>5 DEF Held

\* What AnswersHeld, SnapshotsHeld and CommitsHeld say of one thread.
AppendTrue(m) ==
  /\ m.success => Sent(m) <= LastIndex(m.dst)
  /\ m.pc = "counted" => m.success
  /\ Held(m.commit)
SnapshotTrue(s) ==
  /\ s.pc = "reply" /\ s.replyTerm <= s.term => s.index <= LastIndex(s.dst)
  /\ Held(s.index)

\* What was true of a thread that did not move stays true, so a step has to account
\* only for the threads it starts or moves and the members it writes.
LEMMA HeldKept ==
  ASSUME Advance,
         \A m \in ae' : m \in ae \/ AppendTrue(m)',
         \A s \in is' : s \in is \/ SnapshotTrue(s)',
         \A i, j \in Server :
            \/ matchIndex'[i][j] = matchIndex[i][j]
            \/ Running(j)' => matchIndex'[i][j] <= LastIndex(j)',
         \A i \in Server : commitIndex'[i] = commitIndex[i] \/ Held(commitIndex[i])'
  PROVE  AnswersHeld' /\ SnapshotsHeld' /\ MatchHeld' /\ CommitsHeld'
<1> USE DEF Advance
<1>1. \A j \in Server : /\ LastIndex(j) \in Nat /\ LastIndex(j)' \in Nat
                        /\ LastIndex(j)' >= LastIndex(j)
  BY NumbersBefore, NumbersAfter DEF Forward
<1>2. ASSUME NEW m \in ae' PROVE AppendTrue(m)'
  <2>1. CASE m \in ae
    <3>1. Sent(m) \in Nat /\ m.dst \in Server /\ m.commit \in Nat
      BY <2>1, NumbersBefore
    <3>2. /\ m.success => Sent(m) <= LastIndex(m.dst)
          /\ m.pc = "counted" => m.success
          /\ Held(m.commit)
      BY <2>1 DEF ReplicaInv, AnswersHeld, CommitsHeld
    <3>3. m.success => Sent(m) <= LastIndex(m.dst)'
      BY <1>1, <3>1, <3>2
    <3>4. Held(m.commit)'
      BY <3>1, <3>2, HeldGrows
    <3> QED
      BY <3>2, <3>3, <3>4 DEF AppendTrue
  <2> QED
    BY <2>1
<1>3. ASSUME NEW s \in is' PROVE SnapshotTrue(s)'
  <2>1. CASE s \in is
    <3>1. s.index \in Nat /\ s.dst \in Server
      BY <2>1, NumbersBefore
    <3>2. /\ s.pc = "reply" /\ s.replyTerm <= s.term => s.index <= LastIndex(s.dst)
          /\ Held(s.index)
      BY <2>1 DEF ReplicaInv, SnapshotsHeld, CommitsHeld
    <3>3. s.pc = "reply" /\ s.replyTerm <= s.term => s.index <= LastIndex(s.dst)'
      BY <1>1, <3>1, <3>2
    <3>4. Held(s.index)'
      BY <3>1, <3>2, HeldGrows
    <3> QED
      BY <3>3, <3>4 DEF SnapshotTrue
  <2> QED
    BY <2>1
<1>4. AnswersHeld'
  BY <1>2 DEF AnswersHeld, AppendTrue
<1>5. SnapshotsHeld'
  BY <1>3 DEF SnapshotsHeld, SnapshotTrue
<1>6. ASSUME NEW i \in Server, NEW j \in Server, Running(j)'
      PROVE  matchIndex'[i][j] <= LastIndex(j)'
  <2>1. matchIndex[i][j] \in Nat /\ matchIndex[i][j] <= LastIndex(j)
    BY <1>6, NumbersBefore DEF ReplicaInv, MatchHeld
  <2> QED
    BY <1>1, <1>6, <2>1
<1>7. MatchHeld'
  BY <1>6 DEF MatchHeld
<1>8. ASSUME NEW i \in Server PROVE Held(commitIndex[i])'
  <2>1. CASE commitIndex'[i] = commitIndex[i]
    <3>1. PICK n : n = commitIndex[i]
      OBVIOUS
    <3>2. n \in Nat /\ Held(n)
      BY <3>1, NumbersBefore DEF ReplicaInv, CommitsHeld
    <3>3. Held(n)' /\ n = commitIndex'[i]
      BY <2>1, <3>1, <3>2, HeldGrows
    <3> QED
      BY <3>3 DEF Held, Holders
  <2> QED
    BY <2>1
<1>9. CommitsHeld'
  <2>1. \A m \in ae' : Held(m.commit)'
    BY <1>2 DEF AppendTrue
  <2>2. \A s \in is' : Held(s.index)'
    BY <1>3 DEF SnapshotTrue
  <2> QED
    BY <1>8, <2>1, <2>2 DEF CommitsHeld, Held, Holders
<1> QED
  BY <1>4, <1>5, <1>7, <1>9

\* A step that starts, moves and counts no append thread keeps what RoundsInv says.
LEMMA RoundsUnmoved ==
  ASSUME RoundsInv, UNCHANGED <<ae, appendNums>>
  PROVE  RoundsInv'
BY DEF RoundsInv, OneAppendEach, SentTogether, ToPeers, AppendNumsSound, Repliers

\* A thread keeps the arguments it was started with.
SameArgs(m, u) ==
  /\ u.src = m.src /\ u.dst = m.dst /\ u.round = m.round
  /\ u.prev = m.prev /\ u.entries = m.entries /\ u.commit = m.commit

\* A thread not counted yet that moves or ends keeps RoundsInv if the counters stay
\* covered by the peers counted.
LEMMA RoundMoved ==
  ASSUME IInv, IInv', RoundsInv, NEW m \in ae, NEW u, SameArgs(m, u), m.pc # "counted",
         ae \ {m} \subseteq ae', ae' \subseteq (ae \ {m}) \cup {u},
         \A i \in Server :
            /\ DOMAIN appendNums'[i] = DOMAIN appendNums[i]
            /\ \A r \in DOMAIN appendNums[i] :
                  \/ appendNums'[i][r] = appendNums[i][r]
                  \/ appendNums'[i][r] <= Cardinality(Repliers(i, r)') + 1
  PROVE  RoundsInv'
<1>1. Sent(u) = Sent(m)
  BY DEF SameArgs, Sent
<1>2. \A n \in ae' : \E o \in ae : n.src = o.src /\ n.dst = o.dst /\ n.round = o.round /\ Sent(n) = Sent(o)
  BY <1>1 DEF SameArgs
<1>3. OneAppendEach'
  BY DEF RoundsInv, OneAppendEach, SameArgs
<1>4. SentTogether' /\ ToPeers'
  <2>1. \A n \in ae' : Sent(n)' = Sent(n)
    BY DEF Sent
  <2> QED
    BY <1>2, <2>1 DEF RoundsInv, SentTogether, ToPeers
<1>5. ASSUME NEW i \in Server, NEW r \in DOMAIN appendNums[i]
      PROVE  appendNums'[i][r] <= Cardinality(Repliers(i, r)') + 1
  <2>1. Repliers(i, r) \subseteq Repliers(i, r)'
    BY DEF Repliers
  <2>2. Repliers(i, r)' \subseteq Server
    <3>1. \A n \in ae' : n.dst \in Server
      BY DEF IInv, TypeOK, AppendThreads
    <3> QED
      BY <3>1 DEF Repliers
  <2>3. /\ Cardinality(Repliers(i, r)) \in Nat /\ Cardinality(Repliers(i, r)') \in Nat
        /\ Cardinality(Repliers(i, r)) <= Cardinality(Repliers(i, r)')
    BY <2>1, <2>2, ServersFinite, FS_Subset, FS_CardinalityType
  <2>4. CASE appendNums'[i][r] = appendNums[i][r]
    <3>1. appendNums[i][r] \in Nat
      <4>1. appendNums[i] \in Seq(Nat)
        BY DEF IInv, TypeOK
      <4> QED
        BY <4>1
    <3>2. appendNums[i][r] <= Cardinality(Repliers(i, r)) + 1
      BY DEF RoundsInv, AppendNumsSound
    <3> QED
      BY <2>3, <2>4, <3>1, <3>2
  <2> QED
    BY <2>4
<1>6. AppendNumsSound'
  BY <1>5 DEF AppendNumsSound
<1> QED
  BY <1>3, <1>4, <1>6 DEF RoundsInv

\* An assertion ends the process that evaluates it, which was running, and no step
\* of another process revives it.
LEMMA FailedStays ==
  ASSUME IInv, [Next]_vars
  PROVE  \A j \in Server : Running(j)' => Running(j)
<1>1. \/ failed' = failed
      \/ \E i \in Server : \E names : Running(i) /\ failed' = [failed EXCEPT ![i] = names]
  <2> DEFINE Ends == \/ failed' = failed
                     \/ \E i \in Server : \E names : Running(i) /\ failed' = [failed EXCEPT ![i] = names]
  <2>0. ASSUME NEW i \in Server, NEW names, Running(i), Exit(i, names) PROVE Ends
    BY <2>0 DEF Exit
  <2> HIDE DEF Ends
  <2>1. ASSUME NEW i \in Server, DoElection(i) PROVE Ends
    BY <2>1 DEF DoElection, Ends
  <2>2. ASSUME NEW i \in Server, DoHeartBeat(i) PROVE Ends
    BY <2>0, <2>2 DEF DoHeartBeat
  <2>3. ASSUME NEW i \in Server, ApplierTicker(i) PROVE Ends
    BY <2>0, <2>3 DEF ApplierTicker
  <2>4. ASSUME NEW i \in Server, NEW c \in Command, Start(i, c) PROVE Ends
    BY <2>4 DEF Start, Ends
  <2>5. ASSUME NEW i \in Server, NEW n \in SnapshotAt, Snapshot(i, n) PROVE Ends
    BY <2>0, <2>5 DEF Snapshot
  <2>6. ASSUME NEW t \in rv, VoteThread(t) PROVE Ends
    <3>1. t.src \in Server
      BY DEF IInv, TypeOK, VoteThreads
    <3>2. CASE VoteLoad(t) \/ VoteWon(t)
      BY <2>0, <3>1, <3>2 DEF VoteLoad, VoteWon
    <3> QED
      BY <2>6, <3>2 DEF VoteThread, RequestVote, VoteReplyTerm, VoteStepDown, VoteStore, VoteTest,
         BecomeLeader, ResetPeers, Ends
  <2>7. ASSUME NEW m \in ae, AppendThread(m) PROVE Ends
    <3>1. m.src \in Server /\ m.dst \in Server
      BY AppendThreadFacts
    <3>2. CASE FailBelowSnapshot(m) \/ FailCommandsDiffer(m) \/ AcceptEntries(m)
      BY <2>0, <3>1, <3>2 DEF FailBelowSnapshot, FailCommandsDiffer, AcceptEntries, InLog, Fresh, AtReceiver
    <3>3. CASE AppendCounted(m)
      BY <2>0, <3>1, <3>3 DEF AppendCounted, Current, AtSender
    <3> QED
      BY <2>7, <3>2, <3>3 DEF AppendThread, AppendEntries1, SendAppendEntries, RejectOldTerm, RejectGap,
         RejectMismatch, AppendStepDown, AppendStale, AppendBackUp, Ends
  <2>8. ASSUME NEW s \in is, SnapshotThread(s) PROVE Ends
    BY <2>8 DEF SnapshotThread, SendSnapshot, InstallSnapshot, SnapshotReply, Ends
  <2>9. CASE UNCHANGED vars
    BY <2>9 DEF vars, Ends
  <2>10. ASSUME Next PROVE Ends
    BY <2>1, <2>2, <2>3, <2>4, <2>5, <2>6, <2>7, <2>8, <2>10 DEF Next
  <2> QED
    BY <2>9, <2>10 DEF Ends
<1>2. failed \in [Server -> SUBSET Assertion]
  BY DEF IInv, TypeOK
<1> QED
  BY <1>1, <1>2 DEF Running

-----------------------------------------------------------------------------
(* AppendEntries: each step keeps the invariant. *)

\* Steps that concern neither threads of replication nor what they write.
LEMMA ReplicaUnmoved ==
  ASSUME Advance, UNCHANGED <<ae, is, appendNums, matchIndex, commitIndex>>
  PROVE  ReplicaInv'
<1>1. RoundsInv'
  BY RoundsUnmoved DEF Advance, ReplicaInv
<1>2. AnswersHeld' /\ SnapshotsHeld' /\ MatchHeld' /\ CommitsHeld'
  BY HeldKept
<1> QED
  BY <1>1, <1>2 DEF ReplicaInv

\* A new leader's reset of matchIndex.
LEMMA ResetPeersHeld ==
  ASSUME Advance, NEW t \in rv, ResetPeers(t)
  PROVE  ReplicaInv'
<1>1. UNCHANGED <<ae, is, appendNums, commitIndex>>
  BY DEF ResetPeers, applyVars
<1>2. RoundsInv'
  BY <1>1, RoundsUnmoved DEF Advance, ReplicaInv
<1>3. ASSUME NEW i \in Server, NEW j \in Server
      PROVE  matchIndex'[i][j] = matchIndex[i][j] \/ matchIndex'[i][j] = 0
  <2>1. /\ matchIndex' = [matchIndex EXCEPT ![t.src] = [k \in Server |-> 0]]
        /\ matchIndex \in [Server -> [Server -> Nat]]
    BY DEF ResetPeers, Advance, IInv, TypeOK, Index
  <2> QED
    BY <2>1
<1>4. \A j \in Server : 0 <= LastIndex(j)'
  BY NumbersAfter DEF Advance
<1>5. AnswersHeld' /\ SnapshotsHeld' /\ MatchHeld' /\ CommitsHeld'
  BY <1>1, <1>3, <1>4, HeldKept
<1> QED
  BY <1>2, <1>5 DEF ReplicaInv

\* The arguments of a thread that DoHeartBeat starts.
LEMMA ArgsSent ==
  ASSUME IInv, NEW i \in Server, NEW j \in Server \ {i},
         nextIndex[i][j] >= 1, nextIndex[i][j] > snapIndex[i]
  PROVE  LET m == AppendArgs(i, j)
         IN /\ m.src = i /\ m.dst = j /\ m.round = Len(appendNums[i]) + 1
            /\ Sent(m) = LastIndex(i)
            /\ m.pc = "call" /\ m.success = FALSE /\ m.commit = commitIndex[i]
<1> DEFINE m == AppendArgs(i, j)
<1>1. m.prev + Len(m.entries) = LastIndex(i)
  BY ArgsInLog
<1>2. /\ m.src = i /\ m.dst = j /\ m.round = Len(appendNums[i]) + 1
      /\ m.pc = "call" /\ m.success = FALSE /\ m.commit = commitIndex[i]
  BY DEF AppendArgs
<1> HIDE DEF m
<1>3. Sent(m) = LastIndex(i)
  BY <1>1 DEF Sent
<1> QED
  BY <1>2, <1>3 DEF m

\* A round: its threads are the first of that number and all send the whole log.
LEMMA DoHeartBeatHeld ==
  ASSUME Advance, NEW i \in Server, DoHeartBeat(i)
  PROVE  ReplicaInv'
<1> DEFINE r == Len(appendNums[i]) + 1
           peers == Server \ {i}
           sends == {AppendArgs(i, j) : j \in peers \ Behind(i)}
           zero == {j \in peers : nextIndex[i][j] < 1}
<1>0. IInv /\ ReplicaInv /\ UNCHANGED <<matchIndex, commitIndex>>
  BY DEF Advance, DoHeartBeat, leaderVars, applyVars
<1>1. CASE zero # {}
  BY <1>0, <1>1, ReplicaUnmoved DEF DoHeartBeat
<1>2. CASE zero = {}
  <2>1. /\ ae' = ae \cup sends
        /\ appendNums' = [appendNums EXCEPT ![i] = Append(@, 1)]
        /\ is' = is \cup {[src |-> i, dst |-> j, round |-> r, pc |-> "spawned",
                           term |-> 0, index |-> 0, snapTerm |-> 0, replyTerm |-> 0] : j \in Behind(i)}
    BY <1>2 DEF DoHeartBeat
  <2>2. ASSUME NEW m \in sends
        PROVE  /\ m.src = i /\ m.round = r /\ m.dst \in peers /\ m = AppendArgs(i, m.dst)
               /\ Sent(m) = LastIndex(i)
               /\ m.pc = "call" /\ m.success = FALSE /\ m.commit = commitIndex[i]
    <3>1. PICK j \in peers \ Behind(i) : m = AppendArgs(i, j)
      OBVIOUS
    <3>2. nextIndex[i][j] \in Nat /\ snapIndex[i] \in Nat
      BY <1>0 DEF IInv, TypeOK, Index
    <3>3. nextIndex[i][j] >= 1 /\ nextIndex[i][j] > snapIndex[i]
      BY <1>2, <3>2 DEF Behind
    <3>4. j \in Server \ {i}
      OBVIOUS
    <3> HIDE DEF r, peers, sends
    <3>5. LET a == AppendArgs(i, j)
          IN /\ a.src = i /\ a.dst = j /\ a.round = Len(appendNums[i]) + 1
             /\ Sent(a) = LastIndex(i)
             /\ a.pc = "call" /\ a.success = FALSE /\ a.commit = commitIndex[i]
      BY <1>0, <3>3, <3>4, ArgsSent
    <3> QED
      BY <3>1, <3>4, <3>5 DEF r, peers
  <2>3. ASSUME NEW m \in ae PROVE m.src = i => m.round # r
    <3>1. m.src = i => m.round \in DOMAIN appendNums[i]
      BY <1>0, AppendThreadFacts
    <3>2. appendNums[i] \in Seq(Nat)
      BY <1>0 DEF IInv, TypeOK
    <3> QED
      BY <3>1, <3>2
  <2> HIDE DEF sends, r
  <2>4. OneAppendEach'
    <3> SUFFICES ASSUME NEW m \in ae', NEW n \in ae', m.src = n.src, m.round = n.round, m.dst = n.dst
                 PROVE  m = n
      BY DEF OneAppendEach
    <3>1. CASE m \in ae /\ n \in ae
      BY <1>0, <3>1 DEF ReplicaInv, RoundsInv, OneAppendEach
    <3>2. CASE m \in sends /\ n \in sends
      BY <2>2, <3>2
    <3> QED
      BY <2>1, <2>2, <2>3, <3>1, <3>2
  <2>5. SentTogether' /\ ToPeers'
    <3>1. ASSUME NEW m \in ae', NEW n \in ae', m.src = n.src, m.round = n.round
          PROVE  Sent(m) = Sent(n)
      <4>1. CASE m \in ae /\ n \in ae
        BY <1>0, <3>1, <4>1 DEF ReplicaInv, RoundsInv, SentTogether
      <4>2. CASE m \in sends /\ n \in sends
        BY <2>2, <4>2
      <4> QED
        BY <2>1, <2>2, <2>3, <3>1, <4>1, <4>2
    <3>2. \A m \in ae' : m.dst # m.src
      BY <1>0, <2>1, <2>2 DEF ReplicaInv, RoundsInv, ToPeers
    <3>3. \A m \in ae' : Sent(m)' = Sent(m)
      BY DEF Sent
    <3> QED
      BY <3>1, <3>2, <3>3 DEF SentTogether, ToPeers
  <2>6. AppendNumsSound'
    <3> SUFFICES ASSUME NEW k \in Server, NEW q \in DOMAIN appendNums'[k]
                 PROVE  appendNums'[k][q] <= Cardinality(Repliers(k, q)') + 1
      BY DEF AppendNumsSound
    <3>1. appendNums \in [Server -> Seq(Nat)]
      BY <1>0 DEF IInv, TypeOK
    <3>2. Repliers(k, q)' = Repliers(k, q)
      <4>1. \A m \in sends : m.pc # "counted"
        BY <2>2
      <4> QED
        BY <2>1, <4>1 DEF Repliers
    <3>3. Repliers(k, q) \subseteq Server
      BY <1>0, NumbersBefore DEF Repliers
    <3>4. Cardinality(Repliers(k, q)) \in Nat
      BY <3>3, ServersFinite
    <3>5. \/ q \in DOMAIN appendNums[k] /\ appendNums'[k][q] = appendNums[k][q]
          \/ appendNums'[k][q] = 1
      BY <2>1, <3>1
    <3>6. q \in DOMAIN appendNums[k] => appendNums[k][q] <= Cardinality(Repliers(k, q)) + 1
      BY <1>0 DEF ReplicaInv, RoundsInv, AppendNumsSound
    <3> QED
      BY <3>2, <3>4, <3>5, <3>6
  <2>7. AnswersHeld' /\ SnapshotsHeld' /\ MatchHeld' /\ CommitsHeld'
    <3>1. PICK n : n = commitIndex[i]
      OBVIOUS
    <3>2. n \in Nat /\ Held(n)
      BY <1>0, <3>1, NumbersBefore DEF ReplicaInv, CommitsHeld
    <3>3. Held(n)'
      BY <3>2, HeldGrows DEF Advance
    <3>4. \A m \in sends : AppendTrue(m)'
      BY <2>2, <3>1, <3>3 DEF AppendTrue
    <3>5. \A s \in is' : s \in is \/ SnapshotTrue(s)'
      <4>1. \A s \in is' : s \in is \/ (s.pc = "spawned" /\ s.index = 0)
        BY <2>1
      <4>2. \A s : s.pc = "spawned" /\ s.index = 0 => SnapshotTrue(s)'
        BY DEF SnapshotTrue, Held
      <4> QED
        BY <4>1, <4>2
    <3>6. \A m \in ae' : m \in ae \/ AppendTrue(m)'
      BY <2>1, <3>4
    <3> QED
      BY <1>0, <3>5, <3>6, HeldKept
  <2> QED
    BY <2>4, <2>5, <2>6, <2>7 DEF ReplicaInv, RoundsInv
<1> QED
  BY <1>1, <1>2

\* A thread that is answered or ends: a success has to be true of the receiver's log.
LEMMA AppendTurnHeld ==
  ASSUME Advance, NEW m \in ae, m.pc # "counted",
         NEW u, SameArgs(m, u), u.pc # "counted",
         ae \ {m} \subseteq ae', ae' \subseteq (ae \ {m}) \cup {u},
         u = m \/ (u.success => Sent(m) <= LastIndex(m.dst)'),
         UNCHANGED <<is, appendNums, matchIndex>>,
         \A i \in Server : commitIndex'[i] = commitIndex[i] \/ Held(commitIndex[i])'
  PROVE  ReplicaInv'
<1>1. RoundsInv'
  BY RoundMoved DEF Advance, ReplicaInv
<1>2. Sent(u) = Sent(m) /\ u.dst = m.dst /\ u.commit = m.commit
  BY DEF Sent, SameArgs
<1>3. Held(u.commit)'
  <2>1. m.commit \in Nat /\ Held(m.commit)
    BY NumbersBefore DEF Advance, ReplicaInv, CommitsHeld
  <2> QED
    BY <1>2, <2>1, HeldGrows DEF Advance
<1>4. u = m \/ AppendTrue(u)'
  BY <1>2, <1>3 DEF AppendTrue, Sent
<1>5. \A n \in ae' : n \in ae \/ AppendTrue(n)'
  BY <1>4
<1>6. AnswersHeld' /\ SnapshotsHeld' /\ MatchHeld' /\ CommitsHeld'
  BY <1>5, HeldKept
<1> QED
  BY <1>1, <1>6 DEF ReplicaInv

\* The answer of the receiver leaves the arguments as they were.
LEMMA AnswerSame ==
  ASSUME IInv, NEW m \in ae, NEW term, NEW success, NEW hint, AnswerAE(m, term, success, hint)
  PROVE  \E u : /\ SameArgs(m, u) /\ u.pc = "reply" /\ u.success = success
                /\ ae' = (ae \ {m}) \cup {u}
<1> WITNESS [m EXCEPT !.pc = "reply", !.replyTerm = term, !.success = success, !.hint = hint]
<1> QED
  BY AppendThreadFacts DEF AnswerAE, SameArgs, AppendThreads

\* AppendEntries1: only the branch that merges answers with a success, and only this
\* branch moves the commit index, no further than the sender's.
LEMMA AppendEntries1Held ==
  ASSUME Advance, NEW m \in ae, AppendEntries1(m)
  PROVE  ReplicaInv'
<1>0. IInv /\ ReplicaInv /\ m.pc = "call" /\ UNCHANGED <<is, appendNums, matchIndex>>
  BY DEF Advance, AppendEntries1, leaderVars, RejectOldTerm, RejectGap, FailBelowSnapshot,
         RejectMismatch, FailCommandsDiffer, AcceptEntries, InLog, Fresh, AtReceiver
<1>1. CASE RejectOldTerm(m) \/ RejectGap(m) \/ RejectMismatch(m)
  <2>1. \E term, hint : AnswerAE(m, term, FALSE, hint)
    BY <1>1 DEF RejectOldTerm, RejectGap, RejectMismatch
  <2>2. PICK u : /\ SameArgs(m, u) /\ u.pc = "reply" /\ u.success = FALSE
                 /\ ae' = (ae \ {m}) \cup {u}
    BY <1>0, <2>1, AnswerSame
  <2>3. commitIndex' = commitIndex
    BY <1>1 DEF RejectOldTerm, RejectGap, RejectMismatch, applyVars
  <2> QED
    BY <1>0, <2>2, <2>3, AppendTurnHeld
<1>2. CASE FailBelowSnapshot(m) \/ FailCommandsDiffer(m)
  BY <1>0, <1>2, ReplicaUnmoved DEF FailBelowSnapshot, FailCommandsDiffer, applyVars
<1>3. CASE AcceptEntries(m)
  <2> DEFINE i == m.dst
             merged == MergeSuffix(logs[i], snapIndex[i], m.prev, m.entries)
             last == LastLogIndex(merged, snapIndex[i])
             commit == IF m.commit > commitIndex[i] THEN Min2(m.commit, last) ELSE commitIndex[i]
  <2>1. /\ i \in Server /\ m.commit \in Nat /\ commitIndex[i] \in Nat /\ Sent(m) \in Nat
        /\ Held(m.commit)
    BY <1>0, NumbersBefore DEF ReplicaInv, CommitsHeld
  <2>2. PICK u : /\ SameArgs(m, u) /\ u.pc = "reply" /\ u.success = TRUE
                 /\ ae' = (ae \ {m}) \cup {u}
    BY <1>0, <1>3, AnswerSame DEF AcceptEntries
  <2>3. LastIndex(i)' = last
    <3>1. logs' = [logs EXCEPT ![i] = merged] /\ snapIndex' = snapIndex
      BY <1>3 DEF AcceptEntries
    <3>2. logs'[i] = merged /\ snapIndex'[i] = snapIndex[i]
      BY <1>0, <2>1, <3>1 DEF IInv, TypeOK
    <3> QED
      BY <3>2 DEF LastIndex
  <2>4. Sent(m) <= LastIndex(i)'
    <3>1. failed' = [failed EXCEPT ![i] = Unless(last >= m.prev + Len(m.entries), "appended")
                                          \cup Unless(last >= commit, "commitInLog")]
      BY <1>3 DEF AcceptEntries, Exit
    <3>2. "appended" \notin failed'[i]
      BY <2>1 DEF Advance, IInv, AssertionsHold
    <3>3. failed \in [Server -> SUBSET Assertion]
      BY <1>0 DEF IInv, TypeOK
    <3>4. failed'[i] = Unless(last >= m.prev + Len(m.entries), "appended")
                       \cup Unless(last >= commit, "commitInLog")
      BY <2>1, <3>1, <3>3
    <3>5. last >= m.prev + Len(m.entries)
      BY <3>2, <3>4 DEF Unless
    <3> HIDE DEF last
    <3>6. LastIndex(i)' >= Sent(m)
      BY <2>3, <3>5 DEF Sent
    <3>7. LastIndex(i)' \in Nat
      BY <2>1, NumbersAfter DEF Advance
    <3> QED
      BY <2>1, <3>6, <3>7
  <2>5. ASSUME NEW k \in Server
        PROVE  commitIndex'[k] = commitIndex[k] \/ Held(commitIndex[k])'
    <3>1. commitIndex' = [commitIndex EXCEPT ![i] = commit]
      BY <1>3 DEF AcceptEntries
    <3>2. commitIndex \in [Server -> Nat]
      BY <1>0 DEF IInv, TypeOK, Index
    <3>3. CASE k = i /\ m.commit > commitIndex[i]
      <4>1. PICK n : n = Min2(m.commit, last)
        OBVIOUS
      <4>2. n = commitIndex'[k]
        BY <3>1, <3>2, <3>3, <4>1
      <4>3. n \in Nat
        BY <2>1, <3>3, <4>2, NumbersAfter DEF Advance
      <4>4. last \in Nat
        BY <2>1, <2>3, NumbersAfter DEF Advance
      <4>5. n <= m.commit
        <5> HIDE DEF last
        <5> QED
          BY <2>1, <4>1, <4>4 DEF Min2
      <4>6. Held(n)'
        BY <2>1, <4>3, <4>5, HeldGrows DEF Advance
      <4> QED
        BY <4>2, <4>6 DEF Held, Holders
    <3>4. CASE ~(k = i /\ m.commit > commitIndex[i])
      BY <3>1, <3>2, <3>4
    <3> QED
      BY <3>3, <3>4
  <2> QED
    BY <1>0, <2>2, <2>4, <2>5, AppendTurnHeld
<1> QED
  BY <1>1, <1>2, <1>3 DEF AppendEntries1

\* A success that is counted: the peers counted in the round, this one and the sender
\* itself all hold what the round sent, so a count that reaches the majority commits
\* what a majority holds.
LEMMA AppendCountedHeld ==
  ASSUME Advance, NEW m \in ae, AppendCounted(m), is' = is
  PROVE  ReplicaInv'
<1> DEFINE i == m.src
           r == m.round
           u == [m EXCEPT !.pc = "counted"]
           match == Max2(matchIndex[i][m.dst], Sent(m))
           count == appendNums[i][r] + 1
           left == IF count >= Majority THEN 0 ELSE count
           commit == IF count >= Majority /\ OfCurrentTerm(m) THEN Max2(commitIndex[i], Sent(m))
                     ELSE commitIndex[i]
<1>0. IInv /\ IInv' /\ ReplicaInv /\ RoundsInv /\ m.pc = "reply" /\ m.success
  BY DEF Advance, ReplicaInv, AppendCounted, Current, AtSender
<1>1. /\ i \in Server /\ m.dst \in Server /\ Sent(m) \in Nat /\ commitIndex[i] \in Nat
      /\ m \in AppendThreads /\ r \in DOMAIN appendNums[i] /\ Sent(m) <= LastIndex(i)
  BY <1>0, NumbersBefore, AppendThreadFacts DEF Sent
<1>2. /\ SameArgs(m, u) /\ u.pc = "counted" /\ u.success = m.success
      /\ ae' = (ae \ {m}) \cup {u}
  BY <1>1 DEF SameArgs, AppendThreads, AppendCounted
<1>3. /\ matchIndex' = [matchIndex EXCEPT ![i][m.dst] = match]
      /\ appendNums' = [appendNums EXCEPT ![i][r] = left]
      /\ commitIndex' = [commitIndex EXCEPT ![i] = commit]
  BY DEF AppendCounted
<1> HIDE DEF u, match, left, commit
<1>4. Repliers(i, r)' = Repliers(i, r) \cup {m.dst}
  BY <1>0, <1>2 DEF Repliers, SameArgs
<1>5. m.dst \notin Repliers(i, r)
  BY <1>0, <1>1 DEF Repliers, RoundsInv, OneAppendEach
<1>6. /\ Cardinality(Repliers(i, r)) \in Nat
      /\ Cardinality(Repliers(i, r)') = Cardinality(Repliers(i, r)) + 1
  <2>1. Repliers(i, r) \subseteq Server
    BY <1>0, NumbersBefore DEF Repliers
  <2> QED
    BY <1>4, <1>5, <2>1, ServersFinite, FS_AddElement
<1>7. appendNums[i][r] \in Nat /\ count <= Cardinality(Repliers(i, r)') + 1
  <2>1. appendNums[i] \in Seq(Nat)
    BY <1>0, <1>1 DEF IInv, TypeOK
  <2>2. appendNums[i][r] \in Nat
    BY <1>1, <2>1
  <2>3. appendNums[i][r] <= Cardinality(Repliers(i, r)) + 1
    BY <1>0, <1>1 DEF RoundsInv, AppendNumsSound
  <2> QED
    BY <1>6, <2>2, <2>3
<1>8. Sent(m) <= LastIndex(m.dst)
  BY <1>0 DEF ReplicaInv, AnswersHeld
<1>9. count >= Majority => Held(Sent(m))
  <2> DEFINE holders == Repliers(i, r) \cup {m.dst, i}
  <2>1. \A j \in holders : j \in Server /\ Sent(m) <= LastIndex(j)
    <3>1. ASSUME NEW n \in ae, n.src = i, n.round = r, n.pc = "counted"
          PROVE  n.dst \in Server /\ Sent(m) <= LastIndex(n.dst)
      BY <1>0, <3>1, NumbersBefore DEF ReplicaInv, AnswersHeld, RoundsInv, SentTogether
    <3> QED
      BY <1>1, <1>8, <3>1 DEF Repliers
  <2>2. holders \subseteq Holders(Sent(m))
    <3>1. \A j \in Server : LastIndex(j) \in Nat
      BY <1>0, NumbersBefore
    <3> QED
      BY <1>1, <2>1, <3>1 DEF Holders
  <2>3. i \notin Repliers(i, r) \cup {m.dst}
    BY <1>0 DEF Repliers, RoundsInv, ToPeers
  <2>4. Cardinality(holders) = Cardinality(Repliers(i, r)') + 1
    <3>1. Repliers(i, r)' \subseteq Server /\ holders = Repliers(i, r)' \cup {i} /\ i \notin Repliers(i, r)'
      BY <1>4, <2>1, <2>3
    <3> HIDE DEF holders
    <3> QED
      BY <3>1, ServersFinite, FS_AddElement
  <2>5. Holders(Sent(m)) \subseteq Server
    BY DEF Holders
  <2>6. /\ Cardinality(holders) <= Cardinality(Holders(Sent(m)))
        /\ Cardinality(Holders(Sent(m))) \in Nat /\ Majority \in Nat
    BY <2>2, <2>5, ServersFinite, FS_Subset
  <2> HIDE DEF holders
  <2> QED
    BY <1>6, <1>7, <2>4, <2>6 DEF Held
<1>10. RoundsInv'
  <2>1. \A j \in Server : DOMAIN appendNums'[j] = DOMAIN appendNums[j]
    <3>1. left \in Nat
      BY <1>7 DEF left
    <3>2. appendNums \in [Server -> Seq(Nat)]
      BY <1>0 DEF IInv, TypeOK
    <3> QED
      BY <1>1, <1>3, <3>1, <3>2, CounterUpdate
  <2>2. ASSUME NEW j \in Server, NEW q \in DOMAIN appendNums[j]
        PROVE  \/ appendNums'[j][q] = appendNums[j][q]
               \/ appendNums'[j][q] <= Cardinality(Repliers(j, q)') + 1
    <3>1. appendNums \in [Server -> Seq(Nat)]
      BY <1>0 DEF IInv, TypeOK
    <3>2. CASE j = i /\ q = r
      <4>1. appendNums'[i][r] = left
        BY <1>1, <1>3, <3>1
      <4>2. left <= Cardinality(Repliers(i, r)') + 1
        BY <1>6, <1>7 DEF left
      <4> QED
        BY <3>2, <4>1, <4>2
    <3>3. CASE ~(j = i /\ q = r)
      BY <1>1, <1>3, <3>1, <3>3
    <3> QED
      BY <3>2, <3>3
  <2> QED
    BY <1>0, <1>2, <2>1, <2>2, RoundMoved
<1>11. \A n \in ae' : n \in ae \/ AppendTrue(n)'
  <2>1. m.commit \in Nat /\ Held(m.commit)
    BY <1>0, NumbersBefore DEF ReplicaInv, CommitsHeld
  <2>2. Held(m.commit)'
    BY <1>0, <2>1, HeldGrows DEF Advance
  <2>3. Sent(m) <= LastIndex(m.dst)'
    <3>1. /\ LastIndex(m.dst) \in Nat /\ LastIndex(m.dst)' \in Nat
          /\ LastIndex(m.dst)' >= LastIndex(m.dst)
      BY <1>0, <1>1, NumbersBefore, NumbersAfter DEF Advance, Forward
    <3> QED
      BY <1>1, <1>8, <3>1
  <2>4. AppendTrue(u)'
    BY <1>0, <1>2, <2>2, <2>3 DEF AppendTrue, SameArgs, Sent
  <2> QED
    BY <1>2, <2>4
<1>12. ASSUME NEW k \in Server, NEW j \in Server
       PROVE  \/ matchIndex'[k][j] = matchIndex[k][j]
              \/ Running(j)' => matchIndex'[k][j] <= LastIndex(j)'
  <2>1. matchIndex \in [Server -> [Server -> Nat]]
    BY <1>0 DEF IInv, TypeOK, Index
  <2>2. CASE k = i /\ j = m.dst
    <3>1. matchIndex'[k][j] = match
      BY <1>1, <1>3, <2>1, <2>2
    <3>2. match = matchIndex[k][j] \/ match = Sent(m)
      BY <2>2 DEF match, Max2
    <3>3. Sent(m) <= LastIndex(j)'
      <4>1. /\ LastIndex(j) \in Nat /\ LastIndex(j)' \in Nat /\ LastIndex(j)' >= LastIndex(j)
        BY <1>0, NumbersBefore, NumbersAfter DEF Advance, Forward
      <4> QED
        BY <1>1, <1>8, <2>2, <4>1
    <3> QED
      BY <3>1, <3>2, <3>3
  <2>3. CASE ~(k = i /\ j = m.dst)
    BY <1>1, <1>3, <2>1, <2>3
  <2> QED
    BY <2>2, <2>3
<1>13. ASSUME NEW k \in Server
       PROVE  commitIndex'[k] = commitIndex[k] \/ Held(commitIndex[k])'
  <2>1. commitIndex \in [Server -> Nat]
    BY <1>0 DEF IInv, TypeOK, Index
  <2>2. CASE k = i /\ count >= Majority /\ commit = Sent(m)
    <3>1. PICK n : n = Sent(m)
      OBVIOUS
    <3>2. n \in Nat /\ Held(n)
      BY <1>1, <1>9, <2>2, <3>1
    <3>3. Held(n)' /\ n = commitIndex'[k]
      BY <1>0, <1>3, <2>1, <2>2, <3>1, <3>2, HeldGrows DEF Advance
    <3> QED
      BY <3>3 DEF Held, Holders
  <2>3. CASE k # i \/ commit = commitIndex[i]
    BY <1>1, <1>3, <2>1, <2>3
  <2> QED
    BY <2>2, <2>3 DEF commit, Max2
<1>14. AnswersHeld' /\ SnapshotsHeld' /\ MatchHeld' /\ CommitsHeld'
  BY <1>11, <1>12, <1>13, HeldKept
<1> QED
  BY <1>10, <1>14 DEF ReplicaInv

\* The other ways a reply is taken end the thread and write neither matchIndex nor
\* the commit index.
LEMMA SendAppendEntriesHeld ==
  ASSUME Advance, NEW m \in ae, SendAppendEntries(m)
  PROVE  ReplicaInv'
<1>1. CASE AppendStepDown(m) \/ AppendStale(m) \/ AppendBackUp(m)
  <2>1. /\ ae' = ae \ {m} /\ m.pc = "reply"
        /\ UNCHANGED <<is, appendNums, matchIndex, commitIndex>>
    BY <1>1 DEF SendAppendEntries, AppendStepDown, AppendStale, AppendBackUp, Current, AtSender,
       leaderVars, applyVars
  <2>2. SameArgs(m, m)
    BY DEF SameArgs
  <2> QED
    BY <2>1, <2>2, AppendTurnHeld
<1>2. CASE AppendCounted(m)
  BY <1>2, AppendCountedHeld DEF SendAppendEntries
<1> QED
  BY <1>1, <1>2 DEF SendAppendEntries

\* A snapshot thread that moves or ends; the append threads do not.
LEMMA SnapshotTurnHeld ==
  ASSUME Advance, NEW s \in is, UNCHANGED <<ae, appendNums>>,
         NEW v, is' \subseteq is \cup {v}, v \in is' => SnapshotTrue(v)',
         \A i, j \in Server :
            \/ matchIndex'[i][j] = matchIndex[i][j]
            \/ Running(j)' => matchIndex'[i][j] <= LastIndex(j)',
         \A i \in Server : commitIndex'[i] = commitIndex[i] \/ Held(commitIndex[i])'
  PROVE  ReplicaInv'
<1>1. RoundsInv'
  BY RoundsUnmoved DEF Advance, ReplicaInv
<1>2. AnswersHeld' /\ SnapshotsHeld' /\ MatchHeld' /\ CommitsHeld'
  BY HeldKept
<1> QED
  BY <1>1, <1>2 DEF ReplicaInv

\* A snapshot that is sent is one its sender has, so a majority holds its index.
LEMMA SendSnapshotHeld ==
  ASSUME Advance, NEW s \in is, SendSnapshot(s)
  PROVE  ReplicaInv'
<1> DEFINE i == s.src
           v == [s EXCEPT !.pc = "call", !.term = currentTerm[i],
                          !.index = snapIndex[i], !.snapTerm = snapTerm[i]]
<1>0. IInv /\ IInv' /\ ReplicaInv /\ s \in SnapshotThreads /\ i \in Server
  BY NumbersBefore DEF Advance, IInv, TypeOK
<1>1. v.pc = "call" /\ v.index = snapIndex[i]
  BY <1>0 DEF SnapshotThreads
<1>2. is' \subseteq is \cup {v} /\ UNCHANGED <<ae, appendNums, matchIndex, commitIndex>>
  BY DEF SendSnapshot, leaderVars, applyVars
<1>3. PICK n : n = snapIndex[i]
  OBVIOUS
<1>4. PICK c : c = commitIndex[i]
  OBVIOUS
<1>5. n \in Nat /\ c \in Nat /\ n <= c /\ Held(c)
  BY <1>0, <1>3, <1>4, LogFacts, NumbersBefore DEF ReplicaInv, CommitsHeld
<1>6. Held(n)'
  BY <1>0, <1>5, HeldGrows DEF Advance
<1> HIDE DEF v
<1>7. PICK w : w = v
  OBVIOUS
<1>8. w.pc = "call" /\ w.index = n
  BY <1>1, <1>3, <1>7
<1>9. SnapshotTrue(w)'
  BY <1>6, <1>8 DEF SnapshotTrue
<1> QED
  BY <1>2, <1>7, <1>9, SnapshotTurnHeld

\* InstallSnapshot: an answer that is no rejection says that the receiver's log
\* reaches the snapshot's index.
LEMMA InstallSnapshotHeld ==
  ASSUME Advance, NEW s \in is, InstallSnapshot(s)
  PROVE  ReplicaInv'
<1> DEFINE i == s.dst
<1>0. /\ IInv /\ IInv' /\ ReplicaInv /\ s \in SnapshotThreads
      /\ i \in Server /\ s.index \in Nat /\ s.term \in Nat /\ Held(s.index)
  BY NumbersBefore DEF Advance, IInv, TypeOK, SnapshotThreads, Term, ReplicaInv, CommitsHeld
<1>1. UNCHANGED <<ae, appendNums, matchIndex>>
  BY DEF InstallSnapshot, leaderVars
<1>2. Held(s.index)'
  BY <1>0, HeldGrows DEF Advance
<1>3. ASSUME NEW term, AnswerIS(s, term), term <= s.term => s.index <= LastIndex(i)'
      PROVE  \E v : is' \subseteq is \cup {v} /\ SnapshotTrue(v)'
  <2> DEFINE v == [s EXCEPT !.pc = "reply", !.replyTerm = term]
  <2>1. v.pc = "reply" /\ v.replyTerm = term /\ v.term = s.term /\ v.index = s.index /\ v.dst = i
    BY <1>0 DEF SnapshotThreads
  <2>2. is' \subseteq is \cup {v}
    BY <1>3 DEF AnswerIS
  <2> HIDE DEF v
  <2>3. PICK w : w = v
    OBVIOUS
  <2>4. SnapshotTrue(w)'
    BY <1>2, <1>3, <2>1, <2>3 DEF SnapshotTrue
  <2> QED
    BY <2>2, <2>3, <2>4
<1>4. CASE RejectSnapshot(s)
  <2>1. currentTerm[i] \in Nat
    BY <1>0, LogFacts
  <2>2. ~(currentTerm[i] <= s.term) /\ AnswerIS(s, currentTerm[i])
    BY <1>0, <1>4, <2>1 DEF RejectSnapshot
  <2>3. PICK v : is' \subseteq is \cup {v} /\ SnapshotTrue(v)'
    BY <1>3, <2>2
  <2> QED
    BY <1>1, <1>4, <2>3, SnapshotTurnHeld DEF RejectSnapshot, applyVars
<1>5. CASE KnownSnapshot(s)
  <2>1. s.index <= LastIndex(i)'
    <3>1. s.index <= snapIndex'[i] /\ UNCHANGED <<commitIndex, snapIndex>>
      BY <1>5 DEF KnownSnapshot, logVars, applyVars
    <3>2. /\ snapIndex'[i] \in Nat /\ commitIndex'[i] \in Nat /\ LastIndex(i)' \in Nat
          /\ snapIndex'[i] <= commitIndex'[i] /\ commitIndex'[i] <= LastIndex(i)'
      BY <1>0, NumbersAfter
    <3> QED
      BY <1>0, <3>1, <3>2
  <2>2. PICK v : is' \subseteq is \cup {v} /\ SnapshotTrue(v)'
    BY <1>3, <1>5, <2>1 DEF KnownSnapshot
  <2> QED
    BY <1>1, <1>5, <2>2, SnapshotTurnHeld DEF KnownSnapshot, applyVars
<1>6. CASE AcceptSnapshot(s)
  <2>1. snapIndex'[i] = s.index /\ commitIndex' = [commitIndex EXCEPT ![i] = Max2(@, s.index)]
    BY <1>0, <1>6 DEF AcceptSnapshot, IInv, TypeOK
  <2>2. s.index <= LastIndex(i)'
    <3>1. /\ snapIndex'[i] \in Nat /\ commitIndex'[i] \in Nat /\ LastIndex(i)' \in Nat
          /\ snapIndex'[i] <= commitIndex'[i] /\ commitIndex'[i] <= LastIndex(i)'
      BY <1>0, NumbersAfter
    <3> QED
      BY <1>0, <2>1, <3>1
  <2>3. PICK v : is' \subseteq is \cup {v} /\ SnapshotTrue(v)'
    BY <1>3, <1>6, <2>2 DEF AcceptSnapshot
  <2>4. ASSUME NEW k \in Server
        PROVE  commitIndex'[k] = commitIndex[k] \/ Held(commitIndex[k])'
    <3>1. commitIndex'[k] = commitIndex[k] \/ commitIndex'[k] = s.index
      BY <1>0, <2>1 DEF IInv, TypeOK, Max2
    <3> QED
      BY <1>2, <3>1 DEF Held, Holders
  <2> QED
    BY <1>1, <2>3, <2>4, SnapshotTurnHeld
<1> QED
  BY <1>4, <1>5, <1>6 DEF InstallSnapshot

\* The reply to a snapshot: a leader that takes it as installed is right, unless the
\* receiver has ended.
LEMMA SnapshotReplyHeld ==
  ASSUME Advance, NEW s \in is, SnapshotReply(s)
  PROVE  ReplicaInv'
<1>0. /\ IInv /\ IInv' /\ ReplicaInv /\ s.index \in Nat /\ s.src \in Server /\ s.dst \in Server
  BY NumbersBefore DEF Advance
<1>1. is' = is \ {s} /\ UNCHANGED <<ae, appendNums, commitIndex>>
  BY DEF SnapshotReply, applyVars
<1>2. ASSUME NEW i \in Server, NEW j \in Server
      PROVE  \/ matchIndex'[i][j] = matchIndex[i][j]
             \/ Running(j)' => matchIndex'[i][j] <= LastIndex(j)'
  <2>1. CASE matchIndex' = matchIndex
    BY <2>1
  <2>2. CASE s.replyTerm <= s.term /\ matchIndex' = [matchIndex EXCEPT ![s.src][s.dst] = s.index]
    <3>1. matchIndex'[i][j] = matchIndex[i][j] \/ (j = s.dst /\ matchIndex'[i][j] = s.index)
      BY <1>0, <2>2 DEF IInv, TypeOK
    <3>2. CASE s.pc = "reply"
      <4>1. s.index <= LastIndex(s.dst)
        BY <1>0, <2>2, <3>2 DEF ReplicaInv, SnapshotsHeld
      <4>2. /\ LastIndex(s.dst) \in Nat /\ LastIndex(s.dst)' \in Nat
            /\ LastIndex(s.dst)' >= LastIndex(s.dst)
        BY <1>0, NumbersBefore, NumbersAfter DEF Advance, Forward
      <4>3. s.index <= LastIndex(s.dst)'
        BY <1>0, <4>1, <4>2
      <4> QED
        BY <3>1, <4>3
    <3>3. CASE ~Running(s.dst)
      BY <1>0, <3>1, <3>3 DEF Advance
    <3> QED
      BY <3>2, <3>3 DEF SnapshotReply, SnapshotReturned
  <2> QED
    BY <2>1, <2>2 DEF SnapshotReply, leaderVars
<1>3. is' \subseteq is \cup {s} /\ s \notin is'
  BY <1>1
<1> QED
  BY <1>1, <1>2, <1>3, SnapshotTurnHeld

-----------------------------------------------------------------------------
(* AppendEntries: all steps, and the theorems. *)

\* Every step keeps the invariant.
LEMMA ReplicaStep ==
  ASSUME IInv, ReplicaInv, [Next]_vars
  PROVE  ReplicaInv'
<1>0. Advance
  BY StepInv, FailedStays DEF Advance
<1>1. CASE UNCHANGED <<ae, is, appendNums, matchIndex, commitIndex>>
  BY <1>0, <1>1, ReplicaUnmoved
<1>2. ASSUME NEW i \in Server, DoHeartBeat(i) PROVE ReplicaInv'
  BY <1>0, <1>2, DoHeartBeatHeld
<1>3. ASSUME NEW t \in rv, VoteThread(t) PROVE ReplicaInv'
  <2>1. CASE ResetPeers(t)
    BY <1>0, <2>1, ResetPeersHeld
  <2> QED
    BY <1>1, <1>3, <2>1
    DEF VoteThread, RequestVote, VoteReplyTerm, VoteStepDown, VoteLoad, VoteStore, VoteTest, VoteWon,
        BecomeLeader, leaderVars, applyVars
<1>4. ASSUME NEW m \in ae, AppendThread(m) PROVE ReplicaInv'
  BY <1>0, <1>4, AppendEntries1Held, SendAppendEntriesHeld DEF AppendThread
<1>5. ASSUME NEW s \in is, SnapshotThread(s) PROVE ReplicaInv'
  BY <1>0, <1>5, SendSnapshotHeld, InstallSnapshotHeld, SnapshotReplyHeld DEF SnapshotThread
<1> QED
  BY <1>1, <1>2, <1>3, <1>4, <1>5
  DEF Next, DoElection, ApplierTicker, Start, Snapshot, leaderVars, applyVars, vars

\* The invariant of replication holds in every reachable state.
LEMMA Replication == Spec => []ReplicaInv
<1>1. Init => ReplicaInv
  <2> SUFFICES ASSUME Init PROVE ReplicaInv
    OBVIOUS
  <2>1. /\ ae = {} /\ is = {}
        /\ \A i \in Server : appendNums[i] = <<>> /\ commitIndex[i] = 0
    BY DEF Init
  <2>2. MatchHeld
    <3>1. \A i, j \in Server : matchIndex[i][j] = 0 /\ LastIndex(j) = 0
      BY DEF Init, LastIndex, LastLogIndex
    <3> QED
      BY <3>1 DEF MatchHeld
  <2>3. RoundsInv
    BY <2>1 DEF RoundsInv, OneAppendEach, SentTogether, ToPeers, AppendNumsSound
  <2>4. AnswersHeld /\ SnapshotsHeld /\ CommitsHeld
    BY <2>1 DEF AnswersHeld, SnapshotsHeld, CommitsHeld, Held
  <2> QED
    BY <2>2, <2>3, <2>4 DEF ReplicaInv
<1>2. IInv /\ ReplicaInv /\ [Next]_vars => ReplicaInv'
  BY ReplicaStep
<1> QED
  BY Invariance, <1>1, <1>2, PTL DEF Spec

\* m_matchIndex of a peer that runs is an index its log reaches: stale, late and
\* reordered replies, a leader's reset and snapshots included.
THEOREM MatchIndexSafety == Spec => []MatchIndexSound
<1>1. ReplicaInv => MatchIndexSound
  BY DEF ReplicaInv, MatchHeld, MatchIndexSound
<1> QED
  BY Replication, <1>1, PTL

\* A commit index, of a leader or of a follower, is one that the logs of a majority
\* reach, for any number of servers, rounds in flight and leaders.
THEOREM CommitSafety == Spec => []CommitOnMajority
<1>1. ReplicaInv => CommitOnMajority
  BY DEF ReplicaInv, CommitsHeld, Held, CommitOnMajority
<1> QED
  BY Replication, <1>1, PTL

-----------------------------------------------------------------------------
(* Logs: the inductive invariant. *)

\* The entries in flight above the snapshot of node i are those of its log.
SentFrom(i, m) ==
  /\ m.src = i
  /\ \A k \in DOMAIN m.entries :
        m.prev + k > snapIndex[i] => m.entries[k] = EntryAt(i, m.prev + k)

\* The log of j is a part of that of i, where neither has been cut.
Agrees(i, j) ==
  /\ LastIndex(j) <= LastIndex(i)
  /\ \A n \in Max2(snapIndex[i], snapIndex[j]) + 1 .. LastIndex(j) : EntryAt(j, n) = EntryAt(i, n)

\* Node i alone sends anything, and never to itself.
Alone(i) ==
  /\ \A m \in ae : SentFrom(i, m)
  /\ \A s \in is : s.src = i /\ s.dst # i
  /\ \A j \in Server : Agrees(i, j)

FollowInv == \A i \in Server : Candidates \subseteq {i} => Alone(i)

-----------------------------------------------------------------------------
(* Logs: what the steps have in common. *)

\* A step from a state of the three invariants that leaves node i the only candidate.
Following(i) ==
  /\ IInv /\ IInv' /\ Forward /\ ElectionInv /\ ReplicaInv
  /\ Alone(i) /\ Candidates \subseteq {i}

\* The indexes that the steps compare, before and after.
LEMMA LogNumbers ==
  ASSUME IInv, IInv', Forward, NEW j \in Server
  PROVE  /\ LastIndex(j) \in Nat /\ LastIndex(j)' \in Nat /\ LastIndex(j) <= LastIndex(j)'
         /\ snapIndex[j] \in Nat /\ snapIndex'[j] \in Nat /\ snapIndex[j] <= snapIndex'[j]
         /\ snapIndex[j] <= LastIndex(j) /\ snapIndex'[j] <= LastIndex(j)'
<1>1. /\ LastIndex(j) \in Nat /\ snapIndex[j] \in Nat /\ snapIndex[j] <= LastIndex(j)
  BY LogFacts, NumbersBefore
<1>2. /\ LastIndex(j)' \in Nat /\ snapIndex'[j] \in Nat /\ snapIndex'[j] <= LastIndex(j)'
  BY NumbersAfter
<1>3. LastIndex(j)' >= LastIndex(j) /\ snapIndex'[j] >= snapIndex[j]
  BY DEF Forward
<1> QED
  BY <1>1, <1>2, <1>3

\* The entries that node i keeps in this step are those it had.
KeepsEntries(i) ==
  \A n \in snapIndex'[i] + 1 .. LastIndex(i) : EntryAt(i, n)' = EntryAt(i, n)

\* What node j holds after the step above both snapshots, it held before, or it is
\* what node i holds.
TakesEntries(i, j) ==
  /\ LastIndex(j)' <= LastIndex(i)
  /\ \A n \in Max2(snapIndex'[i], snapIndex'[j]) + 1 .. LastIndex(j)' :
        \/ EntryAt(j, n)' = EntryAt(i, n)
        \/ snapIndex[j] < n /\ n <= LastIndex(j) /\ EntryAt(j, n)' = EntryAt(j, n)

\* Under these conditions, and if what is sent in the step is node i's, the other
\* logs go on agreeing with that of node i.
LEMMA AloneKept ==
  ASSUME NEW i \in Server, Following(i), KeepsEntries(i),
         \A j \in Server \ {i} : TakesEntries(i, j),
         \A m \in ae' : \/ SentFrom(i, m)'
                        \/ \E o \in ae : m.src = o.src /\ m.prev = o.prev /\ m.entries = o.entries,
         \A s \in is' : s.src = i /\ s.dst # i
  PROVE  Alone(i)'
<1>0. IInv /\ IInv' /\ Forward
  BY DEF Following
<1>1. /\ LastIndex(i) \in Nat /\ LastIndex(i)' \in Nat /\ LastIndex(i) <= LastIndex(i)'
      /\ snapIndex[i] \in Nat /\ snapIndex'[i] \in Nat /\ snapIndex[i] <= snapIndex'[i]
  BY <1>0, LogNumbers
<1>2. ASSUME NEW m \in ae' PROVE SentFrom(i, m)'
  <2>1. CASE SentFrom(i, m)'
    BY <2>1
  <2>2. CASE \E o \in ae : m.src = o.src /\ m.prev = o.prev /\ m.entries = o.entries
    <3>1. PICK o \in ae : m.src = o.src /\ m.prev = o.prev /\ m.entries = o.entries
      BY <2>2
    <3>2. /\ o.src = i /\ o.prev \in Nat /\ o.entries \in Seq(LogEntry(Command))
          /\ o.prev + Len(o.entries) <= LastIndex(i)
          /\ \A k \in DOMAIN o.entries :
                o.prev + k > snapIndex[i] => o.entries[k] = EntryAt(i, o.prev + k)
      BY <1>0, AppendThreadFacts DEF Following, Alone, SentFrom
    <3>3. ASSUME NEW k \in DOMAIN m.entries, m.prev + k > snapIndex'[i]
          PROVE  m.entries[k] = EntryAt(i, m.prev + k)'
      <4>1. k \in 1 .. Len(o.entries)
        BY <3>1, <3>2
      <4>2. o.prev + k \in snapIndex'[i] + 1 .. LastIndex(i)
        BY <1>1, <3>1, <3>2, <3>3, <4>1
      <4>3. o.prev + k > snapIndex[i]
        BY <1>1, <4>2
      <4>4. m.entries[k] = EntryAt(i, o.prev + k)
        BY <3>1, <3>2, <4>3
      <4>5. PICK n : n = o.prev + k
        OBVIOUS
      <4>6. EntryAt(i, n)' = EntryAt(i, n)
        BY <4>2, <4>5 DEF KeepsEntries
      <4> QED
        BY <3>1, <4>4, <4>5, <4>6 DEF EntryAt
    <3> QED
      BY <3>1, <3>2, <3>3 DEF SentFrom
  <2> QED
    BY <2>1, <2>2
<1>3. ASSUME NEW j \in Server PROVE Agrees(i, j)'
  <2>1. CASE j = i
    BY <1>1, <2>1 DEF Agrees
  <2>2. CASE j # i
    <3>1. /\ LastIndex(j)' \in Nat /\ snapIndex[j] \in Nat /\ snapIndex'[j] \in Nat
          /\ snapIndex[j] <= snapIndex'[j] /\ LastIndex(j) \in Nat
      BY <1>0, LogNumbers
    <3>2. LastIndex(j)' <= LastIndex(i)'
      BY <1>1, <2>2, <3>1 DEF TakesEntries
    <3>3. ASSUME NEW n \in Max2(snapIndex'[i], snapIndex'[j]) + 1 .. LastIndex(j)'
          PROVE  EntryAt(j, n)' = EntryAt(i, n)'
      <4>1. n \in Nat /\ n > snapIndex'[i] /\ n > snapIndex'[j] /\ n <= LastIndex(j)'
        BY <1>1, <3>1 DEF Max2
      <4>2. n <= LastIndex(i)
        BY <1>1, <2>2, <3>1, <4>1 DEF TakesEntries
      <4>3. EntryAt(i, n)' = EntryAt(i, n)
        BY <1>1, <4>1, <4>2 DEF KeepsEntries
      <4>4. CASE EntryAt(j, n)' = EntryAt(i, n)
        BY <4>3, <4>4
      <4>5. CASE snapIndex[j] < n /\ n <= LastIndex(j) /\ EntryAt(j, n)' = EntryAt(j, n)
        <5>1. n \in Max2(snapIndex[i], snapIndex[j]) + 1 .. LastIndex(j)
          BY <1>1, <3>1, <4>1, <4>5 DEF Max2
        <5>2. EntryAt(j, n) = EntryAt(i, n)
          BY <5>1 DEF Following, Alone, Agrees
        <5> QED
          BY <4>3, <4>5, <5>2
      <4> QED
        BY <2>2, <4>4, <4>5 DEF TakesEntries
    <3> QED
      BY <3>2, <3>3 DEF Agrees
  <2> QED
    BY <2>1, <2>2
<1> QED
  BY <1>2, <1>3 DEF Alone

\* The entries of what is left of a sequence from a on.
LEMMA SuffixEntry ==
  ASSUME NEW S, NEW q \in Seq(S), NEW a \in 1 .. Len(q) + 1, NEW x \in 1 .. Len(q) - a + 1
  PROVE  SubSeq(q, a, Len(q))[x] = q[a + x - 1]
OBVIOUS

\* The first part of the log of j that a snapshot takes leaves the rest as it was.
LEMMA CutKept ==
  ASSUME IInv, IInv', NEW j \in Server, NEW n \in Nat,
         snapIndex[j] <= n, n <= LastIndex(j), snapIndex'[j] = n,
         logs'[j] = DropThrough(logs[j], snapIndex[j], n)
  PROVE  /\ LastIndex(j)' = LastIndex(j)
         /\ \A x \in n + 1 .. LastIndex(j) : EntryAt(j, x)' = EntryAt(j, x)
<1>1. /\ LastIndex(j) = snapIndex[j] + Len(logs[j]) /\ Len(logs[j]) \in Nat /\ snapIndex[j] \in Nat
      /\ logs[j] \in Seq(LogEntry(Command))
      /\ \A k \in DOMAIN logs[j] : logs[j][k].index = snapIndex[j] + k
  BY LogFacts
<1>2. LastIndex(j)' = snapIndex'[j] + Len(logs'[j])
  BY LastAfter DEF IInv, IndexChain
<1>3. LastIndex(j)' = LastIndex(j)
  <2> DEFINE log == logs[j]
             snap == snapIndex[j]
             rest == DropThrough(log, snap, n)
  <2>1. /\ log \in Seq(LogEntry(Command)) /\ snap \in Nat /\ snap <= n /\ n <= snap + Len(log)
        /\ \A k \in DOMAIN log : log[k].index = snap + k
    BY <1>1
  <2> HIDE DEF log, snap
  <2>2. /\ rest \in Seq(LogEntry(Command))
        /\ n + Len(rest) = snap + Len(log)
        /\ \A k \in DOMAIN rest : rest[k].index = n + k
    BY <2>1, DropNumbered
  <2> QED
    BY <1>1, <1>2, <2>2 DEF log, snap
<1>4. ASSUME NEW x \in n + 1 .. LastIndex(j) PROVE EntryAt(j, x)' = EntryAt(j, x)
  <2> DEFINE a == n - snapIndex[j] + 1
  <2>1. /\ x - n \in 1 .. Len(logs[j]) - a + 1 /\ a \in 1 .. Len(logs[j]) + 1
        /\ a + (x - n) - 1 = x - snapIndex[j]
    <3>1. LastIndex(j) \in Int /\ x \in Int /\ n + 1 <= x /\ x <= LastIndex(j)
      BY <1>1
    <3> QED
      BY <1>1, <3>1
  <2>2. logs'[j][x - n] = SubSeq(logs[j], a, Len(logs[j]))[x - n]
    BY DEF DropThrough
  <2> HIDE DEF a
  <2>3. logs'[j][x - n] = logs[j][x - snapIndex[j]]
    BY <1>1, <2>1, <2>2, SuffixEntry
  <2> QED
    BY <2>3 DEF EntryAt
<1> QED
  BY <1>3, <1>4

\* Another node's log, where the step leaves it or takes a prefix of it.
LEMMA OtherKept ==
  ASSUME NEW i \in Server, Following(i), NEW j \in Server,
         \/ logs'[j] = logs[j] /\ snapIndex'[j] = snapIndex[j]
         \/ /\ snapIndex[j] <= snapIndex'[j] /\ snapIndex'[j] <= LastIndex(j)
            /\ logs'[j] = DropThrough(logs[j], snapIndex[j], snapIndex'[j])
  PROVE  TakesEntries(i, j)
<1>1. IInv /\ IInv' /\ Forward /\ LastIndex(j) <= LastIndex(i)
  BY DEF Following, Alone, Agrees
<1>2. /\ LastIndex(j) \in Nat /\ snapIndex[j] \in Nat /\ snapIndex'[j] \in Nat
      /\ snapIndex'[i] \in Nat
  BY <1>1, LogNumbers
<1>3. /\ LastIndex(j)' = LastIndex(j) /\ snapIndex[j] <= snapIndex'[j]
      /\ \A x \in snapIndex'[j] + 1 .. LastIndex(j) : EntryAt(j, x)' = EntryAt(j, x)
  <2>1. CASE logs'[j] = logs[j] /\ snapIndex'[j] = snapIndex[j]
    BY <1>2, <2>1 DEF LastIndex, EntryAt
  <2>2. CASE /\ snapIndex[j] <= snapIndex'[j] /\ snapIndex'[j] <= LastIndex(j)
             /\ logs'[j] = DropThrough(logs[j], snapIndex[j], snapIndex'[j])
    <3>1. PICK n \in Nat : n = snapIndex'[j]
      BY <1>2
    <3> QED
      BY <1>1, <2>2, <3>1, CutKept
  <2> QED
    BY <2>1, <2>2
<1>4. ASSUME NEW n \in Max2(snapIndex'[i], snapIndex'[j]) + 1 .. LastIndex(j)'
      PROVE  snapIndex[j] < n /\ n <= LastIndex(j) /\ EntryAt(j, n)' = EntryAt(j, n)
  <2>1. n \in snapIndex'[j] + 1 .. LastIndex(j)
    BY <1>2, <1>3 DEF Max2
  <2> QED
    BY <1>2, <1>3, <2>1
<1> QED
  BY <1>1, <1>3, <1>4 DEF TakesEntries

\* What is sent in the step: node i's entries, or what was already in flight.
SendsOwn(i) ==
  /\ \A m \in ae' : \/ SentFrom(i, m)'
                    \/ \E o \in ae : m.src = o.src /\ m.prev = o.prev /\ m.entries = o.entries
  /\ \A s \in is' : s.src = i /\ s.dst # i

\* A step that leaves the logs alone.
LEMMA LogsUnmoved ==
  ASSUME NEW i \in Server, Following(i), UNCHANGED <<logs, snapIndex>>, SendsOwn(i)
  PROVE  Alone(i)'
<1>1. KeepsEntries(i)
  BY DEF KeepsEntries, EntryAt
<1>2. \A j \in Server : TakesEntries(i, j)
  BY OtherKept
<1> QED
  BY <1>1, <1>2, AloneKept DEF SendsOwn

\* A step of node j, which keeps its other threads and all that is in flight.
LEMMA InFlightKept ==
  ASSUME NEW i \in Server, Alone(i), UNCHANGED <<ae, is>>
  PROVE  SendsOwn(i)
BY DEF SendsOwn, Alone

-----------------------------------------------------------------------------
(* Logs: step by step. *)

\* Nobody else leads, so that nobody else starts a round or takes a command.
LEMMA LeaderAlone ==
  ASSUME NEW i \in Server, Following(i), NEW k \in Server, status[k] = "Leader"
  PROVE  k = i
<1>1. PICK e \in DOMAIN votedNum[k] : Backed(k, e)
  BY DEF Following, ElectionInv, LeadersBacked
<1>2. votedNum[k] \in Seq(Nat)
  BY DEF Following, IInv, TypeOK
<1>3. Len(votedNum[k]) > 0
  BY <1>1, <1>2
<1> QED
  BY <1>3 DEF Following, Candidates

\* Who has stood for election stays a candidate.
LEMMA CandidatesStay ==
  ASSUME IInv, [Next]_vars
  PROVE  Candidates \subseteq Candidates'
<1>0. votedNum \in [Server -> Seq(Nat)]
  BY DEF IInv, TypeOK
<1>1. CASE UNCHANGED votedNum
  BY <1>1 DEF Candidates
<1>2. ASSUME NEW i \in Server, DoElection(i) PROVE Candidates \subseteq Candidates'
  <2>1. \A k \in Server : Len(votedNum'[k]) >= Len(votedNum[k])
    BY <1>0, <1>2 DEF DoElection
  <2> QED
    BY <1>0, <2>1 DEF Candidates
<1>3. ASSUME NEW t \in rv, VoteStore(t) \/ VoteWon(t) PROVE Candidates \subseteq Candidates'
  <2>1. t.src \in Server /\ t.seen + 1 \in Nat
    BY DEF IInv, TypeOK, VoteThreads
  <2>2. PICK n \in Nat : votedNum' = [votedNum EXCEPT ![t.src][t.election] = n]
    BY <1>3, <2>1 DEF VoteStore, VoteWon
  <2>3. /\ votedNum' \in [Server -> Seq(Nat)]
        /\ \A k \in Server : DOMAIN votedNum'[k] = DOMAIN votedNum[k]
    BY <1>0, <2>1, <2>2, CounterUpdate
  <2>4. ASSUME NEW k \in Server PROVE Len(votedNum'[k]) = Len(votedNum[k])
    <3>1. votedNum[k] \in Seq(Nat) /\ votedNum'[k] \in Seq(Nat)
      BY <1>0, <2>3
    <3> QED
      BY <2>3, <3>1
  <2> QED
    BY <2>4 DEF Candidates
<1> QED
  BY <1>1, <1>2, <1>3
  DEF Next, VoteThread, RequestVote, VoteReplyTerm, VoteStepDown, VoteLoad, VoteTest, BecomeLeader,
      ResetPeers, DoHeartBeat, ApplierTicker, Start, Snapshot, AppendThread, AppendEntries1,
      SendAppendEntries, SnapshotThread, SendSnapshot, InstallSnapshot, SnapshotReply, vars

\* What a round sends are entries of the sender's log.
LEMMA ArgsFromLog ==
  ASSUME IInv, NEW i \in Server, NEW j \in Server,
         nextIndex[i][j] >= 1, nextIndex[i][j] > snapIndex[i]
  PROVE  SentFrom(i, AppendArgs(i, j))
<1> DEFINE m == AppendArgs(i, j)
           a == nextIndex[i][j] - snapIndex[i]
<1>1. /\ logs[i] \in Seq(LogEntry(Command)) /\ Len(logs[i]) \in Nat /\ snapIndex[i] \in Nat
      /\ LastIndex(i) = snapIndex[i] + Len(logs[i])
  BY LogFacts
<1>2. nextIndex[i][j] \in Nat /\ nextIndex[i][j] <= LastIndex(i) + 1
  BY DEF IInv, TypeOK, Index, PeersInLog
<1>3. a \in 1 .. Len(logs[i]) + 1
  BY <1>1, <1>2
<1>4. m.src = i /\ m.prev = nextIndex[i][j] - 1 /\ m.entries = SubSeq(logs[i], a, Len(logs[i]))
  BY DEF AppendArgs, PrevLogIndex
<1>5. ASSUME NEW k \in DOMAIN m.entries PROVE m.entries[k] = EntryAt(i, m.prev + k)
  <2>1. k \in 1 .. Len(logs[i]) - a + 1
    BY <1>1, <1>2, <1>3, <1>4
  <2>2. m.entries[k] = logs[i][a + k - 1]
    <3> HIDE DEF a, m
    <3> QED
      BY <1>1, <1>3, <1>4, <2>1, SuffixEntry
  <2>3. a + k - 1 = (m.prev + k) - snapIndex[i]
    BY <1>1, <1>2, <1>4, <2>1
  <2> QED
    BY <2>2, <2>3 DEF EntryAt
<1> QED
  BY <1>4, <1>5 DEF SentFrom

\* A round of node i sends its own entries and its own snapshot, to its peers.
LEMMA DoHeartBeatFollows ==
  ASSUME NEW i \in Server, Following(i), NEW k \in Server, DoHeartBeat(k)
  PROVE  Alone(i)'
<1>1. k = i
  BY LeaderAlone DEF DoHeartBeat
<1>2. IInv /\ UNCHANGED <<logs, snapIndex>>
  BY DEF Following, DoHeartBeat, logVars
<1>3. ASSUME NEW m \in ae', m \notin ae PROVE SentFrom(i, m)'
  <2>1. PICK j \in Server \ {i} :
          m = AppendArgs(i, j) /\ j \notin Behind(i) /\ nextIndex[i][j] >= 1
    <3>1. \A j \in Server : nextIndex[i][j] \in Nat
      BY <1>2 DEF IInv, TypeOK, Index
    <3>2. \E j \in Server \ {i} : m = AppendArgs(i, j) /\ j \notin Behind(i) /\ ~(nextIndex[i][j] < 1)
      BY <1>1, <1>3 DEF DoHeartBeat
    <3> QED
      BY <3>1, <3>2
  <2>2. nextIndex[i][j] > snapIndex[i]
    <3>1. nextIndex[i][j] \in Nat /\ snapIndex[i] \in Nat
      BY <1>2 DEF IInv, TypeOK, Index
    <3> QED
      BY <2>1, <3>1 DEF Behind
  <2>3. SentFrom(i, m)
    BY <1>2, <2>1, <2>2, ArgsFromLog
  <2> QED
    BY <1>2, <2>3 DEF SentFrom, EntryAt
<1>4. ASSUME NEW s \in is' PROVE s.src = i /\ s.dst # i
  <2>1. CASE s \in is
    BY <2>1 DEF Following, Alone
  <2>2. CASE s \notin is
    BY <1>1, <2>2 DEF DoHeartBeat, Behind
  <2> QED
    BY <2>1, <2>2
<1>5. SendsOwn(i)
  BY <1>3, <1>4 DEF SendsOwn
<1> QED
  BY <1>2, <1>5, LogsUnmoved

\* What a merge leaves at a position was there before, or was received.
LEMMA MergeTakes ==
  ASSUME NEW C, NEW log \in Seq(LogEntry(C)), NEW suffix \in Seq(LogEntry(C)),
         NEW snap \in Nat, NEW prev \in Nat, snap <= prev, prev <= snap + Len(log)
  PROVE  LET merged == MergeSuffix(log, snap, prev, suffix)
         IN /\ snap + Len(merged) \in {snap + Len(log), prev + Len(suffix)}
            /\ \A k \in DOMAIN merged :
                  \/ k \in DOMAIN log /\ merged[k] = log[k]
                  \/ InSuffix(snap, prev, suffix, k) /\ merged[k] = suffix[snap + k - prev]
<1> DEFINE last == prev + Len(suffix) - snap
           len == IF last > Len(log) THEN last ELSE Len(log)
           merged == MergeSuffix(log, snap, prev, suffix)
<1>1. Len(log) \in Nat /\ Len(suffix) \in Nat /\ len \in Nat /\ last \in Int
  OBVIOUS
<1>2. DOMAIN merged = 1 .. len
  BY DEF MergeSuffix
<1>3. \A k \in 1 .. len : merged[k] =
        IF InSuffix(snap, prev, suffix, k) /\ (k > Len(log) \/ log[k].term # Received(snap, prev, suffix, k).term)
        THEN Received(snap, prev, suffix, k) ELSE log[k]
  BY DEF MergeSuffix
<1>4. merged \in Seq({merged[k] : k \in 1 .. len})
  <2>1. merged \in [1 .. len -> {merged[k] : k \in 1 .. len}]
    BY <1>2 DEF MergeSuffix
  <2> HIDE DEF merged, len
  <2> QED
    BY <1>1, <2>1, FunctionIsSeq
<1>5. snap + Len(merged) \in {snap + Len(log), prev + Len(suffix)}
  <2>1. Len(merged) = len
    <3> HIDE DEF merged, len
    <3> QED
      BY <1>1, <1>2, <1>4
  <2> HIDE DEF merged
  <2> QED
    BY <1>1, <2>1
<1>6. ASSUME NEW k \in DOMAIN merged
      PROVE  \/ k \in DOMAIN log /\ merged[k] = log[k]
             \/ InSuffix(snap, prev, suffix, k) /\ merged[k] = suffix[snap + k - prev]
  <2>1. k \in 1 .. len
    BY <1>2
  <2>2. CASE k <= Len(log)
    <3>1. k \in DOMAIN log
      BY <1>1, <2>1, <2>2
    <3> QED
      BY <1>3, <2>1, <3>1 DEF Received
  <2>3. CASE k > Len(log)
    <3>1. snap + k - prev \in 1 .. Len(suffix)
      BY <1>1, <2>1, <2>3
    <3>2. InSuffix(snap, prev, suffix, k)
      BY <3>1 DEF InSuffix
    <3> HIDE DEF merged
    <3> QED
      BY <1>3, <2>1, <2>3, <3>2 DEF Received
  <2> QED
    BY <1>1, <2>1, <2>2, <2>3
<1> QED
  BY <1>5, <1>6

\* The thread of a request from node i, wherever it is.
LEMMA FromLeader ==
  ASSUME NEW i \in Server, Following(i), NEW m \in ae
  PROVE  /\ m.src = i /\ m.dst \in Server /\ m.dst # i
         /\ Sent(m) <= LastIndex(i)
BY AppendThreadFacts DEF Following, Alone, SentFrom, ReplicaInv, RoundsInv, ToPeers, Sent

\* An answer, or the end of a thread, sends nothing new.
LEMMA AnswerSends ==
  ASSUME NEW i \in Server, Following(i), NEW m \in ae,
         NEW u, SameArgs(m, u), ae' \subseteq ae \cup {u}, is' = is
  PROVE  SendsOwn(i)
BY DEF Following, Alone, SendsOwn, SameArgs

\* What the receiver accepts, it takes from node i.
LEMMA AcceptEntriesTakes ==
  ASSUME NEW i \in Server, Following(i), NEW m \in ae, AcceptEntries(m)
  PROVE  TakesEntries(i, m.dst)
<1> DEFINE j == m.dst
           log == logs[j]
           snap == snapIndex[j]
           merged == MergeSuffix(log, snap, m.prev, m.entries)
<1>1. /\ j \in Server /\ j # i /\ m.src = i /\ IInv /\ IInv' /\ Forward
      /\ m.prev + Len(m.entries) <= LastIndex(i) /\ LastIndex(j) <= LastIndex(i)
  BY FromLeader DEF Following, Sent, Alone, Agrees
<1>2. /\ m.prev \in Nat /\ m.entries \in Seq(LogEntry(Command)) /\ Len(m.entries) \in Nat
      /\ \A k \in DOMAIN m.entries : m.prev + k > snapIndex[i] => m.entries[k] = EntryAt(i, m.prev + k)
  BY <1>1, AppendThreadFacts DEF Following, Alone, SentFrom
<1>3. /\ LastIndex(j) = snap + Len(log) /\ log \in Seq(LogEntry(Command)) /\ snap \in Nat
      /\ Len(log) \in Nat /\ LastIndex(i) \in Nat /\ snapIndex[i] \in Nat /\ snapIndex'[i] \in Nat
      /\ snapIndex[i] <= snapIndex'[i]
  BY <1>1, LogFacts, LogNumbers
<1>4. /\ logs'[j] = merged /\ snapIndex'[j] = snap
      /\ snap <= m.prev /\ m.prev <= snap + Len(log)
  <2>1. m.prev \in snapIndex[j] .. LastIndex(j)
    BY DEF AcceptEntries, InLog
  <2>2. logs'[j] = merged /\ snapIndex' = snapIndex
    BY <1>1 DEF AcceptEntries, IInv, TypeOK
  <2> QED
    BY <1>3, <2>1, <2>2
<1>5. /\ snap + Len(merged) \in {snap + Len(log), m.prev + Len(m.entries)}
      /\ \A k \in DOMAIN merged :
            \/ k \in DOMAIN log /\ merged[k] = log[k]
            \/ InSuffix(snap, m.prev, m.entries, k) /\ merged[k] = m.entries[snap + k - m.prev]
  <2> DEFINE prev == m.prev
             suffix == m.entries
  <2>1. /\ prev \in Nat /\ suffix \in Seq(LogEntry(Command)) /\ log \in Seq(LogEntry(Command))
        /\ snap \in Nat /\ snap <= prev /\ prev <= snap + Len(log)
    BY <1>2, <1>3, <1>4
  <2> HIDE DEF prev, suffix, log, snap
  <2> QED
    BY <2>1, MergeTakes DEF prev, suffix
<1>6. LastIndex(j)' = snap + Len(merged)
  <2>1. LastIndex(j)' = snapIndex'[j] + Len(logs'[j])
    BY <1>1, LastAfter DEF IInv, IndexChain
  <2> QED
    BY <1>4, <2>1
<1>7. LastIndex(j)' <= LastIndex(i)
  BY <1>1, <1>2, <1>3, <1>5, <1>6
<1>8. ASSUME NEW n \in Max2(snapIndex'[i], snapIndex'[j]) + 1 .. LastIndex(j)'
      PROVE  \/ EntryAt(j, n)' = EntryAt(i, n)
             \/ snapIndex[j] < n /\ n <= LastIndex(j) /\ EntryAt(j, n)' = EntryAt(j, n)
  <2> DEFINE k == n - snap
  <2>1. n \in Int /\ snapIndex[i] < n /\ snap < n /\ n <= snap + Len(merged)
    <3>1. LastIndex(j)' \in Nat
      BY <1>1, LogNumbers
    <3> QED
      BY <1>3, <1>4, <1>6, <3>1 DEF Max2
  <2>2. k \in DOMAIN merged
    <3>1. merged \in Seq(LogEntry(Command))
      BY <1>1, <1>4 DEF IInv, TypeOK, Entries
    <3> HIDE DEF merged, snap
    <3> QED
      BY <1>3, <2>1, <3>1
  <2>3. EntryAt(j, n)' = merged[k]
    BY <1>4 DEF EntryAt
  <2>4. CASE k \in DOMAIN log /\ merged[k] = log[k]
    <3>1. n <= LastIndex(j)
      BY <1>3, <2>1, <2>4
    <3> QED
      BY <2>1, <2>3, <2>4, <3>1 DEF EntryAt
  <2>5. CASE InSuffix(snap, m.prev, m.entries, k) /\ merged[k] = m.entries[snap + k - m.prev]
    <3> DEFINE x == snap + k - m.prev
    <3>1. x \in DOMAIN m.entries
      BY <2>5 DEF InSuffix
    <3>2. m.prev + x = n
      BY <1>2, <1>3, <2>1
    <3> HIDE DEF x, k
    <3>3. m.entries[x] = EntryAt(i, n)
      BY <1>2, <2>1, <3>1, <3>2
    <3> QED
      BY <2>3, <2>5, <3>3 DEF x
  <2> HIDE DEF k
  <2> QED
    BY <1>5, <2>2, <2>4, <2>5
<1> QED
  BY <1>7, <1>8 DEF TakesEntries

\* Whatever the receiver answers, only the acceptance touches its log.
LEMMA AppendEntries1Follows ==
  ASSUME NEW i \in Server, Following(i), NEW m \in ae, AppendEntries1(m)
  PROVE  Alone(i)'
<1>1. is' = is /\ m.dst \in Server /\ m.dst # i
  BY FromLeader DEF AppendEntries1
<1>2. SendsOwn(i)
  <2>1. CASE ae' = ae
    BY <1>1, <2>1, InFlightKept DEF Following
  <2>2. ASSUME NEW term, NEW success, NEW hint, AnswerAE(m, term, success, hint) PROVE SendsOwn(i)
    <3>1. PICK u : SameArgs(m, u) /\ ae' = (ae \ {m}) \cup {u}
      BY <2>2, AnswerSame DEF Following
    <3> QED
      BY <1>1, <3>1, AnswerSends
  <2> QED
    BY <2>1, <2>2
    DEF AppendEntries1, RejectOldTerm, RejectGap, FailBelowSnapshot, RejectMismatch,
        FailCommandsDiffer, AcceptEntries
<1>3. CASE UNCHANGED <<logs, snapIndex>>
  BY <1>2, <1>3, LogsUnmoved
<1>4. CASE AcceptEntries(m)
  <2>1. /\ snapIndex' = snapIndex
        /\ \A j \in Server \ {m.dst} : logs'[j] = logs[j]
    BY <1>4 DEF AcceptEntries, Following, IInv, TypeOK
  <2>2. KeepsEntries(i)
    BY <1>1, <2>1 DEF KeepsEntries, EntryAt
  <2>3. \A j \in Server : TakesEntries(i, j)
    BY <1>4, <2>1, AcceptEntriesTakes, OtherKept
  <2> QED
    BY <1>2, <2>2, <2>3, AloneKept DEF SendsOwn
<1> QED
  BY <1>3, <1>4
  DEF AppendEntries1, RejectOldTerm, RejectGap, FailBelowSnapshot, RejectMismatch,
      FailCommandsDiffer, logVars

\* The sender's turn on the answer leaves the logs and sends nothing.
LEMMA SendAppendEntriesFollows ==
  ASSUME NEW i \in Server, Following(i), NEW m \in ae, SendAppendEntries(m)
  PROVE  Alone(i)'
<1>1. UNCHANGED <<logs, snapIndex, is>>
  BY DEF SendAppendEntries, logVars
<1>2. PICK u : SameArgs(m, u) /\ ae' \subseteq ae \cup {u}
  <2>1. SameArgs(m, m)
    BY DEF SameArgs
  <2>2. SameArgs(m, [m EXCEPT !.pc = "counted"])
    BY AppendThreadFacts DEF SameArgs, Following, AppendThreads
  <2> QED
    BY <2>1, <2>2
    DEF SendAppendEntries, AppendStepDown, AppendStale, AppendBackUp, AppendCounted
<1>3. SendsOwn(i)
  BY <1>1, <1>2, AnswerSends
<1> QED
  BY <1>1, <1>3, LogsUnmoved

\* The thread of a snapshot of node i goes from it to another node, in every step.
LEMMA SnapshotSends ==
  ASSUME NEW i \in Server, Following(i), NEW s \in is, SnapshotThread(s)
  PROVE  SendsOwn(i) /\ ae' = ae /\ s.src = i /\ s.dst \in Server /\ s.dst # i
<1>1. s.src = i /\ s.dst \in Server /\ s.dst # i /\ s \in SnapshotThreads
  BY SnapshotThreadFacts DEF Following, Alone
<1>2. ae' = ae
  BY DEF SnapshotThread, SendSnapshot, InstallSnapshot, SnapshotReply
<1>3. PICK v : v.src = s.src /\ v.dst = s.dst /\ is' \subseteq is \cup {v}
  <2>1. CASE SendSnapshot(s)
    <3> DEFINE v == [s EXCEPT !.pc = "call", !.term = currentTerm[s.src],
                              !.index = snapIndex[s.src], !.snapTerm = snapTerm[s.src]]
    <3>1. v.src = s.src /\ v.dst = s.dst
      BY <1>1 DEF SnapshotThreads
    <3>2. is' \subseteq is \cup {v}
      BY <2>1 DEF SendSnapshot
    <3> QED
      BY <3>1, <3>2
  <2>2. ASSUME NEW term, AnswerIS(s, term)
        PROVE  \E v : v.src = s.src /\ v.dst = s.dst /\ is' \subseteq is \cup {v}
    <3> DEFINE v == [s EXCEPT !.pc = "reply", !.replyTerm = term]
    <3>1. v.src = s.src /\ v.dst = s.dst
      BY <1>1 DEF SnapshotThreads
    <3>2. is' \subseteq is \cup {v}
      BY <2>2 DEF AnswerIS
    <3> QED
      BY <3>1, <3>2
  <2>3. CASE InstallSnapshot(s)
    BY <2>2, <2>3 DEF InstallSnapshot, RejectSnapshot, KnownSnapshot, AcceptSnapshot
  <2>4. CASE SnapshotReply(s)
    BY <2>4 DEF SnapshotReply
  <2> QED
    BY <2>1, <2>3, <2>4 DEF SnapshotThread
<1>4. SendsOwn(i)
  BY <1>1, <1>2, <1>3 DEF SendsOwn, Following, Alone
<1> QED
  BY <1>1, <1>2, <1>4

\* A receiver that takes a snapshot keeps what is above it, or nothing.
LEMMA AcceptSnapshotTakes ==
  ASSUME NEW i \in Server, Following(i), NEW s \in is, s.src = i, AcceptSnapshot(s)
  PROVE  TakesEntries(i, s.dst)
<1> DEFINE j == s.dst
<1>1. /\ j \in Server /\ s.index \in Nat /\ s.index <= snapIndex[i]
      /\ IInv /\ IInv' /\ Forward
  BY SnapshotThreadFacts DEF Following
<1>2. /\ snapIndex[i] <= LastIndex(i) /\ snapIndex[i] \in Nat /\ LastIndex(i) \in Nat
      /\ snapIndex[j] \in Nat /\ LastIndex(j) \in Nat /\ snapIndex'[i] \in Nat
  BY <1>1, LogNumbers DEF Following
<1>3. /\ snapIndex'[j] = s.index /\ s.index > snapIndex[j]
      /\ logs'[j] = IF LastIndex(j) > s.index THEN DropThrough(logs[j], snapIndex[j], s.index) ELSE <<>>
  BY <1>1 DEF AcceptSnapshot, IInv, TypeOK
<1>4. CASE LastIndex(j) > s.index
  <2>1. /\ snapIndex[j] <= snapIndex'[j] /\ snapIndex'[j] <= LastIndex(j)
        /\ logs'[j] = DropThrough(logs[j], snapIndex[j], snapIndex'[j])
    BY <1>1, <1>2, <1>3, <1>4
  <2> QED
    BY <1>1, <2>1, OtherKept
<1>5. CASE ~(LastIndex(j) > s.index)
  <2>1. LastIndex(j)' = s.index
    BY <1>3, <1>5 DEF LastIndex, LastLogIndex
  <2>2. LastIndex(j)' <= LastIndex(i)
    BY <1>1, <1>2, <2>1
  <2>3. Max2(snapIndex'[i], snapIndex'[j]) + 1 .. LastIndex(j)' = {}
    BY <1>1, <1>2, <1>3, <2>1 DEF Max2
  <2> QED
    BY <2>2, <2>3 DEF TakesEntries
<1> QED
  BY <1>4, <1>5

\* The steps of a snapshot's thread.
LEMMA SnapshotThreadFollows ==
  ASSUME NEW i \in Server, Following(i), NEW s \in is, SnapshotThread(s)
  PROVE  Alone(i)'
<1>1. SendsOwn(i) /\ s.src = i /\ s.dst \in Server /\ s.dst # i
  BY SnapshotSends
<1>2. CASE UNCHANGED <<logs, snapIndex>>
  BY <1>1, <1>2, LogsUnmoved
<1>3. CASE AcceptSnapshot(s)
  <2>1. \A j \in Server \ {s.dst} : logs'[j] = logs[j] /\ snapIndex'[j] = snapIndex[j]
    BY <1>3 DEF AcceptSnapshot, Following, IInv, TypeOK
  <2>2. KeepsEntries(i)
    BY <1>1, <2>1 DEF KeepsEntries, EntryAt
  <2>3. \A j \in Server : TakesEntries(i, j)
    BY <1>1, <1>3, <2>1, AcceptSnapshotTakes, OtherKept
  <2> QED
    BY <1>1, <2>2, <2>3, AloneKept DEF SendsOwn
<1> QED
  BY <1>2, <1>3
  DEF SnapshotThread, SendSnapshot, InstallSnapshot, RejectSnapshot, KnownSnapshot, SnapshotReply, logVars

\* Only node i takes commands, at the end of its log.
LEMMA StartFollows ==
  ASSUME NEW i \in Server, Following(i), NEW k \in Server, NEW c \in Command, Start(k, c)
  PROVE  Alone(i)'
<1>1. k = i
  BY LeaderAlone DEF Start
<1>2. /\ snapIndex' = snapIndex /\ (\A j \in Server \ {i} : logs'[j] = logs[j])
      /\ \E e : logs'[i] = Append(logs[i], e)
  BY <1>1 DEF Start, Following, IInv, TypeOK
<1>3. /\ logs[i] \in Seq(LogEntry(Command)) /\ snapIndex[i] \in Nat /\ Len(logs[i]) \in Nat
      /\ LastIndex(i) = snapIndex[i] + Len(logs[i])
  BY LogFacts DEF Following
<1>4. KeepsEntries(i)
  <2> SUFFICES ASSUME NEW n \in snapIndex'[i] + 1 .. LastIndex(i)
               PROVE  logs'[i][n - snapIndex[i]] = logs[i][n - snapIndex[i]]
    BY <1>2 DEF KeepsEntries, EntryAt
  <2>1. n - snapIndex[i] \in 1 .. Len(logs[i])
    BY <1>2, <1>3
  <2> QED
    BY <1>2, <1>3, <2>1
<1>5. \A j \in Server \ {i} : TakesEntries(i, j)
  BY <1>2, OtherKept
<1>6. SendsOwn(i)
  BY InFlightKept DEF Start, Following
<1> QED
  BY <1>4, <1>5, <1>6, AloneKept DEF SendsOwn

\* A node that replaces its log by a snapshot keeps what is above it.
LEMMA SnapshotFollows ==
  ASSUME NEW i \in Server, Following(i), NEW k \in Server, NEW n \in SnapshotAt, Snapshot(k, n)
  PROVE  Alone(i)'
<1>1. IInv /\ IInv' /\ n \in Nat /\ snapIndex[k] <= n /\ n <= LastIndex(k)
  <2>1. snapIndex[k] < n /\ n <= commitIndex[k] /\ n \in Nat
    BY BoundsAssumption DEF Snapshot
  <2>2. /\ commitIndex[k] \in Nat /\ commitIndex[k] <= LastIndex(k) /\ snapIndex[k] \in Nat
        /\ LastIndex(k) \in Nat
    BY LogFacts DEF Following
  <2> QED
    BY <2>1, <2>2 DEF Following
<1>2. /\ snapIndex'[k] = n /\ logs'[k] = DropThrough(logs[k], snapIndex[k], n)
      /\ \A j \in Server \ {k} : logs'[j] = logs[j] /\ snapIndex'[j] = snapIndex[j]
  BY <1>1 DEF Snapshot, IInv, TypeOK
<1>3. KeepsEntries(i)
  <2>1. CASE i = k
    BY <1>1, <1>2, <2>1, CutKept DEF KeepsEntries
  <2>2. CASE i # k
    BY <1>2, <2>2 DEF KeepsEntries, EntryAt
  <2> QED
    BY <2>1, <2>2
<1>4. \A j \in Server : TakesEntries(i, j)
  BY <1>1, <1>2, OtherKept
<1>5. SendsOwn(i)
  BY InFlightKept DEF Snapshot, Following
<1> QED
  BY <1>3, <1>4, <1>5, AloneKept DEF SendsOwn

-----------------------------------------------------------------------------
(* Logs: the theorem. *)

\* Each step preserves the invariant: it starts from a state with no other candidate.
LEMMA FollowStep ==
  ASSUME IInv, ElectionInv, ReplicaInv, FollowInv, [Next]_vars
  PROVE  FollowInv'
<1> SUFFICES ASSUME NEW i \in Server, Candidates' \subseteq {i} PROVE Alone(i)'
  BY DEF FollowInv
<1>1. Following(i)
  BY StepInv, CandidatesStay DEF Following, FollowInv
<1>2. CASE UNCHANGED <<logs, snapIndex, ae, is>>
  BY <1>1, <1>2, InFlightKept, LogsUnmoved DEF Following
<1>3. ASSUME NEW k \in Server, DoHeartBeat(k) PROVE Alone(i)'
  BY <1>1, <1>3, DoHeartBeatFollows
<1>4. ASSUME NEW k \in Server, NEW c \in Command, Start(k, c) PROVE Alone(i)'
  BY <1>1, <1>4, StartFollows
<1>5. ASSUME NEW k \in Server, NEW n \in SnapshotAt, Snapshot(k, n) PROVE Alone(i)'
  BY <1>1, <1>5, SnapshotFollows
<1>6. ASSUME NEW t \in rv, VoteThread(t) PROVE Alone(i)'
  BY <1>2, <1>6
  DEF VoteThread, RequestVote, VoteReplyTerm, VoteStepDown, VoteLoad, VoteStore, VoteTest, VoteWon,
      BecomeLeader, ResetPeers, logVars
<1>7. ASSUME NEW m \in ae, AppendThread(m) PROVE Alone(i)'
  BY <1>1, <1>7, AppendEntries1Follows, SendAppendEntriesFollows DEF AppendThread
<1>8. ASSUME NEW s \in is, SnapshotThread(s) PROVE Alone(i)'
  BY <1>1, <1>8, SnapshotThreadFollows
<1> QED
  BY <1>2, <1>3, <1>4, <1>5, <1>6, <1>7, <1>8
  DEF Next, DoElection, ApplierTicker, logVars, vars

\* As long as one node alone stands for election, however often, no log reaches
\* further than its log and every entry above both snapshots is the same in both:
\* the entries that the merge of AppendEntries1 leaves behind are never wrong ones.
THEOREM OneCandidateLog == Spec => []FollowsLeader
<1>1. Init => FollowInv
  <2> SUFFICES ASSUME Init, NEW i \in Server PROVE Alone(i)
    BY DEF FollowInv
  <2>1. ae = {} /\ is = {}
    BY DEF Init
  <2>2. \A j \in Server : LastIndex(j) = 0 /\ snapIndex[j] = 0
    BY DEF Init, LastIndex, LastLogIndex
  <2>3. \A j \in Server : Agrees(i, j)
    BY <2>2 DEF Agrees, Max2
  <2> QED
    BY <2>1, <2>3 DEF Alone
<1>2. IInv /\ ElectionInv /\ ReplicaInv /\ FollowInv /\ [Next]_vars => FollowInv'
  BY FollowStep
<1>3. FollowInv => FollowsLeader
  BY DEF FollowInv, Alone, Agrees, FollowsLeader
<1> QED
  BY Invariance, Elected, Replication, <1>1, <1>2, <1>3, PTL DEF Spec
=============================================================================
