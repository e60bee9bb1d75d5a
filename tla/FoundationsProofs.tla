-------------------------- MODULE FoundationsProofs --------------------------
(***************************************************************************)
(* What the rest takes for granted: no notification of a LockQueue is      *)
(* lost, a thread with a channel of its own gets its own reply or none,    *)
(* the sleeps of a start keep its order, and the operators on logs are the *)
(* loops of the code.  For any number of threads, of calls and crashes, of *)
(* nodes that the sleeps are long enough for, and for any logs.            *)
(***************************************************************************)
EXTENDS LockQueue, RpcChannel, StartUp, RaftLogLoops, FiniteSetTheorems, SequenceTheorems,
        WellFoundedInduction, TLAPS

-----------------------------------------------------------------------------
(* LockQueue: no notification is lost, as long as all threads of a queue call Pop, or *)
(* one thread alone calls timeOutPop.                                                 *)

\* How the program uses its queues.  A thread in timeOutPop that gives up as it is
\* notified would leave another waiting next to an item.
OneKind ==
  /\ IsFiniteSet(Popper) /\ IsFiniteSet(TimedPopper) /\ MaxSize \in Nat
  /\ TimedPopper = {} \/ (Popper = {} /\ \E c : TimedPopper = {c})

\* The woken threads are finite in number, so that they can be counted.
LEMMA WokenFinite == ASSUME OneKind PROVE IsFiniteSet(Woken) /\ Cardinality(Woken) \in Nat
<1>1. IsFiniteSet(Consumer)
  BY FS_Union DEF OneKind, Consumer
<1>2. Woken \subseteq Consumer
  BY DEF Woken
<1>. QED  BY <1>1, <1>2, FS_Subset, FS_CardinalityType

\* The types of the queue's length and of the threads' labels are kept.
LEMMA QueueType == ASSUME OneKind, TypeOK, [Next]_vars PROVE TypeOK'
<1>. USE DEF TypeOK
<1>1. CASE Push
  BY <1>1 DEF Push, NotifyOne, Waiting
<1>2. ASSUME NEW c \in Consumer, Call(c) \/ Wake(c) PROVE TypeOK'
  BY <1>2 DEF Call, Wake, TakeOrWait
<1>3. ASSUME NEW c \in Consumer, Spurious(c) PROVE TypeOK'
  BY <1>3 DEF Spurious
<1>4. ASSUME NEW c \in TimedPopper, TimeOut(c) PROVE TypeOK'
  BY <1>4 DEF TimeOut
<1>5. CASE UNCHANGED vars
  BY <1>5 DEF vars
<1>. QED  BY <1>1, <1>2, <1>3, <1>4, <1>5 DEF Next

\* A thread that is woken adds one to those on their way.
LEMMA OneMoreWoken ==
  ASSUME OneKind, TypeOK, NEW c \in Waiting, at' = [at EXCEPT ![c] = "woken"]
  PROVE  Cardinality(Woken') = Cardinality(Woken) + 1
<1>1. c \in Consumer /\ c \notin Woken
  BY DEF Waiting, Woken
<1>2. Woken' = Woken \cup {c}
  BY <1>1 DEF TypeOK, Woken
<1>. QED  BY <1>1, <1>2, WokenFinite, FS_AddElement

\* Push sends a thread after the item it adds, if one waits.
LEMMA PushWakes == ASSUME OneKind, TypeOK, NoLostWakeup, Push PROVE NoLostWakeup'
<1>1. CASE Waiting = {} /\ UNCHANGED at
  <2>1. Waiting' = {}
    BY <1>1 DEF Waiting
  <2>. QED  BY <2>1 DEF NoLostWakeup
<1>2. ASSUME NEW c \in Waiting, at' = [at EXCEPT ![c] = "woken"] PROVE NoLostWakeup'
  <2>1. size <= Cardinality(Woken)
    BY <1>2 DEF NoLostWakeup
  <2>2. Cardinality(Woken') = Cardinality(Woken) + 1
    BY <1>2, OneMoreWoken
  <2>3. size \in Nat /\ size' = size + 1 /\ Cardinality(Woken) \in Nat
    BY WokenFinite DEF Push, TypeOK
  <2>. QED  BY <2>1, <2>2, <2>3 DEF NoLostWakeup
<1>. QED  BY <1>1, <1>2 DEF Push, NotifyOne

\* A thread that comes by takes an item, and one that was woken takes the one it came for.
LEMMA TakeWakes ==
  ASSUME OneKind, TypeOK, NoLostWakeup, NEW c \in Consumer, Call(c) \/ Wake(c)
  PROVE  NoLostWakeup'
<1>1. TypeOK'
  BY QueueType DEF Next
<1>2. CASE size = 0 /\ UNCHANGED size
  <2>1. Cardinality(Woken') \in Nat
    <3>1. IsFiniteSet(Consumer) /\ Woken' \subseteq Consumer
      BY FS_Union DEF OneKind, Consumer, Woken
    <3>. QED  BY <3>1, FS_Subset, FS_CardinalityType
  <2>. QED  BY <1>2, <2>1 DEF NoLostWakeup
<1>3. CASE size > 0 /\ size' = size - 1 /\ at' = [at EXCEPT ![c] = "out"]
  <2>1. Waiting' = Waiting
    BY <1>3 DEF TypeOK, Waiting, Call, Wake
  <2>2. CASE Call(c)
    <3>1. Woken' = Woken
      BY <1>3, <2>2 DEF TypeOK, Woken, Call
    <3>. QED  BY <1>3, <2>1, <3>1, WokenFinite DEF NoLostWakeup, TypeOK
  <2>3. CASE Wake(c)
    <3>1. c \in Woken /\ Woken' = Woken \ {c}
      BY <1>3, <2>3 DEF TypeOK, Woken, Wake
    <3>2. Cardinality(Woken') = Cardinality(Woken) - 1
      BY <3>1, WokenFinite, FS_RemoveElement
    <3>. QED  BY <1>3, <2>1, <3>2, WokenFinite DEF NoLostWakeup, TypeOK
  <2>. QED  BY <2>2, <2>3
<1>. QED  BY <1>2, <1>3 DEF Call, Wake, TakeOrWait

\* A wait that ends by itself adds a thread, and no item.
LEMMA SpuriousWakes ==
  ASSUME OneKind, TypeOK, NoLostWakeup, NEW c \in Consumer, Spurious(c)
  PROVE  NoLostWakeup'
<1>1. c \in Waiting
  BY DEF Spurious, Waiting
<1>2. size <= Cardinality(Woken)
  BY <1>1 DEF NoLostWakeup
<1>3. Cardinality(Woken') = Cardinality(Woken) + 1
  BY <1>1, OneMoreWoken DEF Spurious
<1>4. size \in Nat /\ size' = size /\ Cardinality(Woken) \in Nat
  BY WokenFinite DEF Spurious, TypeOK
<1>. QED  BY <1>2, <1>3, <1>4 DEF NoLostWakeup

\* A thread that gives up is the only one.
LEMMA TimeOutWakes ==
  ASSUME OneKind, TypeOK, NEW c \in TimedPopper, TimeOut(c)
  PROVE  NoLostWakeup'
<1>1. Consumer = {c}
  BY DEF OneKind, Consumer
<1>2. Waiting' = {}
  BY <1>1 DEF Waiting, TimeOut, TypeOK
<1>. QED  BY <1>2 DEF NoLostWakeup

\* While a thread waits in a LockQueue there is a thread on its way to each item
\* (util.h:69-107), for every number of threads that use a queue the way the program does.
THEOREM WakeupSafety == OneKind => (Spec => []NoLostWakeup)
<1>. SUFFICES ASSUME OneKind PROVE Spec => []NoLostWakeup
  OBVIOUS
<1>1. Init => TypeOK /\ NoLostWakeup
  <2>. SUFFICES ASSUME Init PROVE TypeOK /\ NoLostWakeup
    OBVIOUS
  <2>1. TypeOK /\ Waiting = {}
    BY DEF Init, TypeOK, Waiting
  <2>. QED  BY <2>1 DEF NoLostWakeup
<1>2. TypeOK /\ NoLostWakeup /\ [Next]_vars => (TypeOK /\ NoLostWakeup)'
  <2>. SUFFICES ASSUME TypeOK, NoLostWakeup, [Next]_vars PROVE TypeOK' /\ NoLostWakeup'
    OBVIOUS
  <2>1. TypeOK'
    BY QueueType
  <2>2. CASE Push
    BY <2>1, <2>2, PushWakes
  <2>3. ASSUME NEW c \in Consumer, Call(c) \/ Wake(c) PROVE NoLostWakeup'
    BY <2>3, TakeWakes
  <2>4. ASSUME NEW c \in Consumer, Spurious(c) PROVE NoLostWakeup'
    BY <2>4, SpuriousWakes
  <2>5. ASSUME NEW c \in TimedPopper, TimeOut(c) PROVE NoLostWakeup'
    BY <2>5, TimeOutWakes
  <2>6. CASE UNCHANGED vars
    BY <2>1, <2>6 DEF vars, NoLostWakeup, Waiting, Woken
  <2>. QED  BY <2>1, <2>2, <2>3, <2>4, <2>5, <2>6 DEF Next
<1>. QED  BY <1>1, <1>2, PTL DEF Spec

-----------------------------------------------------------------------------
(* RpcChannel: what one thread can rely on when it has a channel of its own, as a Clerk  *)
(* has, and every message comes in one piece: its own reply or none, no request executed *)
(* twice, no socket left behind.                                                         *)

Messages == [caller : Caller, call : Nat]
Piece(message) == [message |-> message, piece |-> 1, of |-> 1]
Pieces == [message : Messages, piece : {1}, of : {1}]

\* How a Clerk uses its channel, and that None is none of the values it stands beside.
OneThread ==
  /\ \E c : Caller = {c}
  /\ RequestPieces = 1 /\ ReplyPieces = 1
  /\ None \notin Nat /\ None \notin Messages

Conns == [end : {"open", "closed", "resetting", "reset"}, open : BOOLEAN,
          requests : Seq(Pieces), handling : Messages \cup {None}, replies : Seq(Pieces)]
Threads == [at : {"idle", "connect", "send", "recv", "blocked"}, call : Nat, sock : Nat,
            result : {"", "reply", "failed"}, got : Seq(Messages)]

RpcTypeOK ==
  /\ conns \in Seq(Conns)
  /\ clientFd \in (DOMAIN conns) \cup {None}
  /\ threads \in [Caller -> Threads]
  /\ served \in Seq(Messages)

\* Nothing is under way on a connection.
Quiet(conn) == conn.requests = <<>> /\ conn.handling = None /\ conn.replies = <<>>
\* A message and nothing else is: as a request, in the service, or as a reply.
Requested(conn, m) ==
  conn.end = "open" /\ conn.requests = <<Piece(m)>> /\ conn.handling = None /\ conn.replies = <<>>
Handled(conn, m) ==
  conn.end = "open" /\ conn.requests = <<>> /\ conn.handling = m /\ conn.replies = <<>>
Replied(conn, m) ==
  conn.requests = <<>> /\ conn.handling = None /\ conn.replies = <<Piece(m)>>

\* Only the socket of m_clientFd is open, and only there is anything under way.
OthersQuiet == \A k \in DOMAIN conns : k # clientFd => ~conns[k].open /\ Quiet(conns[k])

\* Nothing is under way before a thread sends, or after its call.
Before(c) ==
  threads[c].at \in {"idle", "connect", "send"} =>
    /\ clientFd # None => Quiet(conns[clientFd])
    /\ threads[c].at = "connect" => clientFd = None

\* Its request is, from then on, unless the other end has closed.
After(c) ==
  threads[c].at \in {"recv", "blocked"} =>
    /\ clientFd # None
    /\ threads[c].at = "blocked" => threads[c].sock = clientFd
    /\ \/ Requested(conns[clientFd], Message(c))
       \/ Handled(conns[clientFd], Message(c))
       \/ Replied(conns[clientFd], Message(c))
       \/ conns[clientFd].end # "open" /\ Quiet(conns[clientFd])

\* What was executed is an earlier call, or the one whose request is gone from the stream.
NotYetServed(c) ==
  /\ \A n \in DOMAIN served : served[n].call <= threads[c].call
  /\ \/ threads[c].at \in {"connect", "send"}
     \/ /\ threads[c].at \in {"recv", "blocked"}
        /\ conns[clientFd].requests # <<>>
     => \A n \in DOMAIN served : served[n] # Message(c)

RpcInv ==
  /\ RpcTypeOK /\ OthersQuiet
  /\ \A c \in Caller : Before(c) /\ After(c) /\ NotYetServed(c)
  /\ ServedOnce /\ OwnReply

-----------------------------------------------------------------------------
\* What every step below uses: the one thread, and what the sequences are.
Known(c) ==
  /\ Caller = {c} /\ threads \in [Caller -> Threads] /\ threads[c] \in Threads
  /\ Message(c) \in Messages
  /\ Len(conns) \in Nat /\ DOMAIN conns = 1 .. Len(conns) /\ None \notin 1 .. Len(conns)
  /\ clientFd # None => clientFd \in 1 .. Len(conns) /\ conns[clientFd] \in Conns
  /\ \A k \in 1 .. Len(conns) : conns[k] \in Conns
  /\ Len(served) \in Nat /\ DOMAIN served = 1 .. Len(served)
  /\ \A n \in 1 .. Len(served) : served[n] \in Messages

\* They follow from the types.
LEMMA Facts ==
  ASSUME OneThread, RpcInv, NEW c \in Caller
  PROVE  Known(c)
<1>1. Caller = {c}
  BY DEF OneThread
<1>2. threads \in [Caller -> Threads] /\ threads[c] \in Threads
  BY DEF RpcInv, RpcTypeOK
<1>3. Message(c) \in Messages
  BY <1>2 DEF Message, Messages, Threads
<1>4. Len(conns) \in Nat /\ DOMAIN conns = 1 .. Len(conns)
  BY LenProperties DEF RpcInv, RpcTypeOK
<1>5. \A k \in 1 .. Len(conns) : conns[k] \in Conns
  BY ElementOfSeq DEF RpcInv, RpcTypeOK
<1>6. Len(served) \in Nat /\ DOMAIN served = 1 .. Len(served)
  BY LenProperties DEF RpcInv, RpcTypeOK
<1>7. \A n \in 1 .. Len(served) : served[n] \in Messages
  BY ElementOfSeq DEF RpcInv, RpcTypeOK
<1>8. None \notin 1 .. Len(conns)
  BY <1>4 DEF OneThread
<1>9. clientFd # None => clientFd \in 1 .. Len(conns) /\ conns[clientFd] \in Conns
  BY <1>4, <1>5 DEF RpcInv, RpcTypeOK
<1> QED
  BY <1>1, <1>2, <1>3, <1>4, <1>5, <1>6, <1>7, <1>8, <1>9 DEF Known

\* With one thread the invariant is about that thread.
LEMMA ForOneThread ==
  ASSUME NEW c \in Caller, Caller = {c}, RpcTypeOK', OthersQuiet', Before(c)', After(c)',
         NotYetServed(c)', ServedOnce',
         threads[c].at' = "idle" /\ threads[c].result' = "reply"
           => threads[c].got' \in {<<Message(c)>>', <<>>}
  PROVE  RpcInv'
BY DEF RpcInv, OwnReply

\* A message in one piece.
LEMMA OnePiece ==
  ASSUME NEW m \in Messages
  PROVE  /\ InPieces(m, 1) = <<Piece(m)>>
         /\ Piece(m) \in Pieces /\ <<Piece(m)>> \in Seq(Pieces)
         /\ Piece(m).message = m /\ <<Piece(m)>> # <<>>
<1>1. InPieces(m, 1) = <<Piece(m)>>
  BY DEF InPieces, Piece
<1>2. Piece(m) \in Pieces /\ Piece(m).message = m
  BY DEF Piece, Pieces
<1> QED
  BY <1>1, <1>2

\* When one connection changes, the others are what they were.
LEMMA OneChanges ==
  ASSUME conns \in Seq(Conns), NEW k \in 1 .. Len(conns), NEW conn \in Conns,
         conns' = [conns EXCEPT ![k] = conn]
  PROVE  /\ conns' \in Seq(Conns) /\ DOMAIN conns' = DOMAIN conns
         /\ conns'[k] = conn
         /\ \A j \in DOMAIN conns : j # k => conns'[j] = conns[j]
<1>1. /\ conns' \in Seq(Conns) /\ Len(conns') = Len(conns)
      /\ \A j \in 1 .. Len(conns) : conns'[j] = IF j = k THEN conn ELSE conns[j]
  BY ExceptSeq
<1>2. DOMAIN conns' = 1 .. Len(conns') /\ DOMAIN conns = 1 .. Len(conns)
  BY <1>1, LenProperties
<1> QED
  BY <1>1, <1>2

\* What the steps do to the thread.
LEMMA Moves ==
  ASSUME NEW c \in Caller, threads \in [Caller -> Threads], NEW t \in Threads,
         threads' = [threads EXCEPT ![c] = t]
  PROVE  threads' \in [Caller -> Threads] /\ threads'[c] = t
OBVIOUS

\* Going to another place in CallMethod changes nothing else of the thread.
LEMMA GotoMoves ==
  ASSUME NEW c \in Caller, threads \in [Caller -> Threads],
         NEW label \in {"idle", "connect", "send", "recv", "blocked"}, Goto(c, label)
  PROVE  /\ threads' \in [Caller -> Threads]
         /\ threads'[c].at = label
         /\ threads'[c].call = threads[c].call /\ Message(c)' = Message(c)
<1> DEFINE t == [threads[c] EXCEPT !.at = label]
<1>1. threads' = [threads EXCEPT ![c] = t]
  BY DEF Goto
<1>2. t \in Threads /\ t.at = label /\ t.call = threads[c].call
  BY DEF Threads
<1> HIDE DEF t
<1> QED
  BY <1>1, <1>2, Moves DEF Message

\* Returning changes its result and what it got, and not its call.
LEMMA ReturnMoves ==
  ASSUME NEW c \in Caller, threads \in [Caller -> Threads],
         NEW result \in {"reply", "failed"}, NEW got \in Seq(Messages), Return(c, result, got)
  PROVE  /\ threads' \in [Caller -> Threads]
         /\ threads'[c].at = "idle" /\ threads'[c].result = result /\ threads'[c].got = got
         /\ threads'[c].call = threads[c].call /\ Message(c)' = Message(c)
<1> DEFINE t == [threads[c] EXCEPT !.at = "idle", !.result = result, !.got = got]
<1>1. threads' = [threads EXCEPT ![c] = t]
  BY DEF Return
<1>2. /\ t \in Threads /\ t.at = "idle" /\ t.result = result /\ t.got = got
      /\ t.call = threads[c].call
  BY DEF Threads
<1> HIDE DEF t
<1> QED
  BY <1>1, <1>2, Moves DEF Message

\* A call that fails hands over nothing.
LEMMA FailMoves ==
  ASSUME NEW c \in Caller, threads \in [Caller -> Threads], Fail(c)
  PROVE  /\ threads' \in [Caller -> Threads]
         /\ threads'[c].at = "idle" /\ threads'[c].result = "failed"
         /\ threads'[c].call = threads[c].call /\ Message(c)' = Message(c)
BY ReturnMoves, EmptySeq DEF Fail

-----------------------------------------------------------------------------
\* A call starts with nothing under way, and no earlier call has its number.
LEMMA StartCallKeeps ==
  ASSUME OneThread, RpcInv, NEW c \in Caller, StartCall(c)
  PROVE  RpcInv'
<1>0. Known(c)
  BY Facts
<1> USE <1>0 DEF Known
<1> DEFINE label == IF clientFd = None THEN "connect" ELSE "send"
           t == [threads[c] EXCEPT !.at = label, !.call = @ + 1]
<1>10. threads' = [threads EXCEPT ![c] = t]
  BY DEF StartCall
<1>11. t \in Threads /\ t.at = label /\ t.call = threads[c].call + 1
  <2>1. label \in {"connect", "send"}
    OBVIOUS
  <2>2. threads[c].call \in Nat
    BY DEF Threads
  <2>3. threads[c].call + 1 \in Nat
    BY <2>2
  <2> HIDE DEF label
  <2> QED
    BY <2>1, <2>3 DEF Threads
<1> HIDE DEF t
<1>1. /\ threads' \in [Caller -> Threads]
      /\ threads'[c].at = label /\ threads'[c].call = threads[c].call + 1
  BY <1>10, <1>11, Moves
<1>2. RpcTypeOK' /\ OthersQuiet'
  BY <1>1 DEF StartCall, RpcInv, RpcTypeOK, OthersQuiet
<1>3. Before(c)' /\ After(c)'
  BY <1>1 DEF StartCall, RpcInv, Before, After
<1>4. \A n \in DOMAIN served : served[n].call < threads'[c].call
  <2>1. \A n \in DOMAIN served : served[n].call <= threads[c].call /\ served[n].call \in Nat
    BY DEF RpcInv, NotYetServed, Messages
  <2>2. threads[c].call \in Nat
    BY DEF Threads
  <2> QED
    BY <1>1, <2>1, <2>2
<1>5. NotYetServed(c)'
  <2>1. Message(c)'.call = threads'[c].call /\ threads'[c].call \in Nat
    BY <1>1 DEF Message, Threads
  <2>2. \A n \in DOMAIN served : served[n] # Message(c)' /\ served[n].call <= threads'[c].call
    BY <1>4, <2>1 DEF Messages
  <2> QED
    BY <2>2 DEF StartCall, NotYetServed
<1>6. ServedOnce'
  BY DEF StartCall, RpcInv, ServedOnce
<1> QED
  BY <1>1, <1>2, <1>3, <1>5, <1>6, ForOneThread

\* The thread connects only when it has no socket, so that none is lost.
LEMMA NewConnectKeeps ==
  ASSUME OneThread, RpcInv, NEW c \in Caller, NewConnect(c)
  PROVE  RpcInv'
<1>0. Known(c)
  BY Facts
<1> USE <1>0 DEF Known
<1>1. clientFd = None /\ threads[c].at = "connect"
  BY DEF NewConnect, RpcInv, Before
<1>2. /\ threads' \in [Caller -> Threads] /\ Message(c)' = Message(c)
      /\ threads'[c].call = threads[c].call
  BY GotoMoves, FailMoves DEF NewConnect
<1>3. NewConn \in Conns /\ Quiet(NewConn)
  BY EmptySeq DEF NewConn, Conns, Quiet
<1>4. served' = served /\ Message(c)' = Message(c)
  BY <1>2 DEF NewConnect
<1>5. ServedOnce'
  BY <1>4 DEF RpcInv, ServedOnce
<1>6. CASE threads'[c].at = "send" /\ conns' = Append(conns, NewConn) /\ clientFd' = Len(conns')
  <2>1. /\ conns' \in Seq(Conns) /\ Len(conns') = Len(conns) + 1
        /\ DOMAIN conns' = 1 .. Len(conns')
        /\ \A k \in 1 .. Len(conns) : conns'[k] = conns[k]
        /\ conns'[Len(conns')] = NewConn
    BY <1>3, <1>6, AppendProperties, LenProperties DEF RpcInv, RpcTypeOK
  <2>2. RpcTypeOK'
    BY <1>2, <1>4, <1>6, <2>1 DEF RpcInv, RpcTypeOK
  <2>3. OthersQuiet'
    BY <1>1, <1>6, <2>1 DEF RpcInv, OthersQuiet, Quiet
  <2>4. Before(c)' /\ After(c)'
    BY <1>3, <1>6, <2>1 DEF Before, After, Quiet
  <2>5. NotYetServed(c)'
    BY <1>1, <1>2, <1>4, <1>6 DEF RpcInv, NotYetServed
  <2> QED
    BY <1>5, <1>6, <2>2, <2>3, <2>4, <2>5, ForOneThread
<1>7. CASE /\ threads'[c].at = "idle" /\ threads'[c].result = "failed"
           /\ clientFd' = None /\ conns' = conns
  <2>1. RpcTypeOK' /\ OthersQuiet'
    BY <1>1, <1>2, <1>4, <1>7 DEF RpcInv, RpcTypeOK, OthersQuiet
  <2>2. Before(c)' /\ After(c)' /\ NotYetServed(c)'
    BY <1>2, <1>4, <1>7 DEF RpcInv, Before, After, NotYetServed
  <2> QED
    BY <1>5, <1>7, <2>1, <2>2, ForOneThread
<1> QED
  BY <1>6, <1>7, GotoMoves, FailMoves DEF NewConnect

\* The request goes on a quiet connection, or the connection is closed before the next.
LEMMA SendKeeps ==
  ASSUME OneThread, RpcInv, NEW c \in Caller, Send(c)
  PROVE  RpcInv'
<1>0. Known(c)
  BY Facts
<1> USE <1>0 DEF Known
<1>1. /\ threads[c].at = "send"
      /\ clientFd # None => Quiet(conns[clientFd])
  BY DEF Send, RpcInv, Before
<1>2. /\ threads' \in [Caller -> Threads] /\ Message(c)' = Message(c)
      /\ threads'[c].call = threads[c].call
      /\ threads'[c].at \in {"recv", "connect"}
  BY GotoMoves DEF Send, Sends
<1>3. served' = served
  BY DEF Send
<1>4. ServedOnce'
  BY <1>3 DEF RpcInv, ServedOnce
<1>5. NotYetServed(c)'
  BY <1>1, <1>2, <1>3 DEF RpcInv, NotYetServed
<1>6. ASSUME Sends(c)
      PROVE  RpcInv'
  <2>1. clientFd' = clientFd /\ clientFd \in 1 .. Len(conns) /\ threads'[c].at = "recv"
    BY <1>6 DEF Sends, Goto, RpcInv, RpcTypeOK
  <2>2. PICK conn \in Conns :
          /\ conns' = [conns EXCEPT ![clientFd] = conn]
          /\ Requested(conn, Message(c)) \/ (conn.end # "open" /\ Quiet(conn))
    <3>1. CASE /\ conns[clientFd].end = "open"
               /\ \E n \in 1 .. RequestPieces :
                    conns' = [conns EXCEPT ![clientFd].requests = @ \o InPieces(Message(c), n)]
      <4>1. conns' = [conns EXCEPT ![clientFd].requests = @ \o InPieces(Message(c), 1)]
        BY <3>1 DEF OneThread
      <4>2. conns[clientFd].requests \o InPieces(Message(c), 1) = <<Piece(Message(c))>>
        BY <1>1, <2>1, OnePiece, ConcatEmptySeq DEF Quiet
      <4> DEFINE conn == [conns[clientFd] EXCEPT !.requests = <<Piece(Message(c))>>]
      <4>3. conns' = [conns EXCEPT ![clientFd] = conn]
        BY <4>1, <4>2
      <4>4. conn \in Conns /\ Requested(conn, Message(c))
        BY <1>1, <2>1, <3>1, OnePiece DEF Conns, Quiet, Requested
      <4> HIDE DEF conn
      <4> QED
        BY <4>3, <4>4
    <3>2. CASE conns' = [conns EXCEPT ![clientFd].end = "resetting"]
      <4> DEFINE conn == [conns[clientFd] EXCEPT !.end = "resetting"]
      <4>1. conn \in Conns /\ conn.end # "open" /\ Quiet(conn)
        BY <1>1, <2>1 DEF Conns, Quiet
      <4> QED
        BY <3>2, <4>1
    <3> QED
      BY <1>6, <3>1, <3>2 DEF Sends
  <2>3. /\ conns' \in Seq(Conns) /\ DOMAIN conns' = DOMAIN conns
        /\ conns'[clientFd] = conn
        /\ \A j \in DOMAIN conns : j # clientFd => conns'[j] = conns[j]
    BY <2>1, <2>2, OneChanges DEF RpcInv, RpcTypeOK
  <2>4. RpcTypeOK' /\ OthersQuiet'
    BY <1>2, <1>3, <2>1, <2>3 DEF RpcInv, RpcTypeOK, OthersQuiet
  <2>5. Before(c)' /\ After(c)'
    BY <1>2, <2>1, <2>2, <2>3 DEF Before, After
  <2> QED
    BY <1>4, <1>5, <2>1, <2>4, <2>5, ForOneThread
<1>7. ASSUME CloseFd(conns), Goto(c, "connect")
      PROVE  RpcInv'
  <2>1. clientFd' = None /\ threads'[c].at = "connect"
    BY <1>7 DEF CloseFd, Goto, RpcInv, RpcTypeOK
  <2>2. /\ conns' \in Seq(Conns) /\ DOMAIN conns' = DOMAIN conns
        /\ \A k \in DOMAIN conns' : ~conns'[k].open /\ Quiet(conns'[k])
    <3>1. CASE clientFd = None
      BY <1>7, <3>1 DEF CloseFd, RpcInv, RpcTypeOK, OthersQuiet
    <3>2. CASE clientFd # None
      <4> DEFINE conn == [conns[clientFd] EXCEPT !.open = FALSE]
      <4>1. conn \in Conns /\ ~conn.open /\ Quiet(conn)
        BY <1>1, <3>2 DEF Conns, Quiet
      <4>2. conns' = [conns EXCEPT ![clientFd] = conn]
        BY <1>7, <3>2 DEF CloseFd
      <4>3. /\ conns' \in Seq(Conns) /\ DOMAIN conns' = DOMAIN conns /\ conns'[clientFd] = conn
            /\ \A j \in DOMAIN conns : j # clientFd => conns'[j] = conns[j]
        BY <3>2, <4>1, <4>2, OneChanges DEF RpcInv, RpcTypeOK
      <4> QED
        BY <4>1, <4>3 DEF RpcInv, OthersQuiet
    <3> QED
      BY <3>1, <3>2
  <2>3. RpcTypeOK' /\ OthersQuiet'
    BY <1>2, <1>3, <2>1, <2>2 DEF RpcInv, RpcTypeOK, OthersQuiet, Quiet
  <2>4. Before(c)' /\ After(c)'
    BY <2>1 DEF Before, After
  <2> QED
    BY <1>4, <1>5, <2>1, <2>3, <2>4, ForOneThread
<1> QED
  BY <1>6, <1>7 DEF Send
\* The thread waits on the socket it sent on.
LEMMA RecvKeeps ==
  ASSUME OneThread, RpcInv, NEW c \in Caller, Recv(c)
  PROVE  RpcInv'
<1>0. Known(c)
  BY Facts
<1> USE <1>0 DEF Known
<1>1. clientFd \in 1 .. Len(conns) /\ threads[c].at = "recv"
  BY DEF Recv, RpcInv, After
<1> DEFINE t == [threads[c] EXCEPT !.at = "blocked", !.sock = clientFd]
<1>2. threads' = [threads EXCEPT ![c] = t]
  BY <1>1 DEF Recv
<1>3. t \in Threads /\ t.at = "blocked" /\ t.sock = clientFd /\ t.call = threads[c].call
  <2>1. clientFd \in Nat
    BY <1>1
  <2> QED
    BY <2>1 DEF Threads
<1> HIDE DEF t
<1>4. /\ threads' \in [Caller -> Threads] /\ threads'[c].at = "blocked"
      /\ threads'[c].sock = clientFd /\ threads'[c].call = threads[c].call
  BY <1>2, <1>3, Moves
<1>5. Message(c)' = Message(c) /\ UNCHANGED <<clientFd, conns, served>>
  BY <1>4 DEF Message, Recv
<1>6. RpcTypeOK' /\ OthersQuiet'
  BY <1>4, <1>5 DEF RpcInv, RpcTypeOK, OthersQuiet
<1>7. Before(c)' /\ After(c)' /\ NotYetServed(c)'
  BY <1>1, <1>4, <1>5 DEF RpcInv, Before, After, NotYetServed
<1>8. ServedOnce'
  BY <1>5 DEF RpcInv, ServedOnce
<1> QED
  BY <1>4, <1>6, <1>7, <1>8, ForOneThread

\* What is left to take is the one reply, whole, and nothing is under way after it.
LEMMA TakeReplyKeeps ==
  ASSUME OneThread, RpcInv, NEW c \in Caller, TakeReply(c)
  PROVE  RpcInv'
<1>0. Known(c)
  BY Facts
<1> USE <1>0 DEF Known
<1>1. threads[c].at = "blocked" /\ threads[c].sock = clientFd /\ clientFd \in 1 .. Len(conns)
  BY DEF TakeReply, RpcInv, After
<1>2. PICK n \in 1 .. Len(conns[clientFd].replies) :
        LET taken == SubSeq(conns[clientFd].replies, 1, n) IN
        /\ conns' = [conns EXCEPT ![clientFd].replies = SubSeq(@, n + 1, Len(@))]
        /\ IF \A i \in 1 .. n : taken[i].of = 1
           THEN Return(c, "reply", [i \in 1 .. n |-> taken[i].message])
           ELSE Fail(c)
  BY <1>1 DEF TakeReply, Socket
<1>3. conns[clientFd].replies # <<>> /\ conns[clientFd].replies \in Seq(Pieces)
  BY <1>1, <1>2, EmptySeq DEF Conns
<1>4. Replied(conns[clientFd], Message(c))
  BY <1>1, <1>3 DEF RpcInv, After, Requested, Handled, Quiet
<1>5. n = 1 /\ conns[clientFd].replies = <<Piece(Message(c))>>
  BY <1>2, <1>4 DEF Replied
<1>6. SubSeq(<<Piece(Message(c))>>, 1, 1) = <<Piece(Message(c))>>
  BY OnePiece, SubSeqFull
<1>7. SubSeq(<<Piece(Message(c))>>, 2, 1) = <<>>
  BY SubSeqEmpty
<1>8. Return(c, "reply", <<Message(c)>>)
  <2>1. \A i \in 1 .. 1 : <<Piece(Message(c))>>[i].of = 1 /\ <<Piece(Message(c))>>[i].message = Message(c)
    BY DEF Piece
  <2>2. [i \in 1 .. 1 |-> <<Piece(Message(c))>>[i].message] = <<Message(c)>>
    BY <2>1
  <2> QED
    BY <1>2, <1>5, <1>6, <2>1, <2>2
<1>9. /\ threads' \in [Caller -> Threads] /\ threads'[c].at = "idle"
      /\ threads'[c].got = <<Message(c)>> /\ threads'[c].call = threads[c].call
      /\ Message(c)' = Message(c)
  <2>1. <<Message(c)>> \in Seq(Messages)
    OBVIOUS
  <2> QED
    BY <1>8, <2>1, ReturnMoves
<1> DEFINE conn == [conns[clientFd] EXCEPT !.replies = <<>>]
<1>10. conns' = [conns EXCEPT ![clientFd] = conn]
  <2>1. Len(conns[clientFd].replies) = 1 /\ n + 1 = 2
    BY <1>5
  <2>2. SubSeq(conns[clientFd].replies, n + 1, Len(conns[clientFd].replies)) = <<>>
    BY <1>5, <1>7, <2>1
  <2> QED
    BY <1>2, <2>2
<1>11. conn \in Conns /\ Quiet(conn) /\ (conn.open => conns[clientFd].open)
  BY <1>1, <1>4, EmptySeq DEF Conns, Quiet, Replied
<1> HIDE DEF conn
<1>12. /\ conns' \in Seq(Conns) /\ DOMAIN conns' = DOMAIN conns /\ conns'[clientFd] = conn
       /\ \A j \in DOMAIN conns : j # clientFd => conns'[j] = conns[j]
  BY <1>1, <1>10, <1>11, OneChanges DEF RpcInv, RpcTypeOK
<1>13. UNCHANGED <<clientFd, served>>
  BY DEF TakeReply
<1>14. RpcTypeOK' /\ OthersQuiet'
  BY <1>9, <1>12, <1>13 DEF RpcInv, RpcTypeOK, OthersQuiet
<1>15. Before(c)' /\ After(c)' /\ NotYetServed(c)'
  BY <1>9, <1>11, <1>12, <1>13 DEF RpcInv, Before, After, NotYetServed
<1>16. ServedOnce'
  BY <1>13 DEF RpcInv, ServedOnce
<1> QED
  BY <1>9, <1>14, <1>15, <1>16, ForOneThread

\* The end of the stream comes when nothing is under way.
LEMMA EndOfStreamKeeps ==
  ASSUME OneThread, RpcInv, NEW c \in Caller, EndOfStream(c)
  PROVE  RpcInv'
<1>0. Known(c)
  BY Facts
<1> USE <1>0 DEF Known
<1>1. Quiet(conns[clientFd]) /\ UNCHANGED <<clientFd, conns, served>>
  BY DEF EndOfStream, Socket, Ended, RpcInv, After, Requested, Handled, Replied
<1>2. Return(c, "reply", <<>>) /\ <<>> \in Seq(Messages)
  BY EmptySeq DEF EndOfStream
<1>3. /\ threads' \in [Caller -> Threads] /\ threads'[c].at = "idle"
      /\ threads'[c].got = <<>> /\ threads'[c].call = threads[c].call
      /\ Message(c)' = Message(c)
  BY <1>2, ReturnMoves
<1>4. RpcTypeOK' /\ OthersQuiet'
  BY <1>1, <1>3 DEF RpcInv, RpcTypeOK, OthersQuiet
<1>5. Before(c)' /\ After(c)' /\ NotYetServed(c)'
  BY <1>1, <1>3 DEF RpcInv, Before, After, NotYetServed
<1>6. ServedOnce'
  BY <1>1 DEF RpcInv, ServedOnce
<1> QED
  BY <1>3, <1>4, <1>5, <1>6, ForOneThread

\* So does a failed recv, and the socket is closed.
LEMMA BrokenKeeps ==
  ASSUME OneThread, RpcInv, NEW c \in Caller, Broken(c)
  PROVE  RpcInv'
<1>0. Known(c)
  BY Facts
<1> USE <1>0 DEF Known
<1>1. threads[c].sock = clientFd /\ clientFd \in 1 .. Len(conns)
  BY DEF Broken, RpcInv, After
<1>2. Quiet(conns[clientFd]) /\ served' = served
  <2>1. /\ conns[clientFd].end = "reset" /\ conns[clientFd].replies = <<>>
        /\ threads[c].at = "blocked" /\ served' = served
    BY <1>1 DEF Broken, Socket
  <2> QED
    BY <2>1 DEF RpcInv, After, Requested, Handled, Replied
<1>3. /\ threads' \in [Caller -> Threads] /\ threads'[c].at = "idle"
      /\ threads'[c].result = "failed" /\ threads'[c].call = threads[c].call
      /\ Message(c)' = Message(c)
  BY FailMoves DEF Broken
<1> DEFINE conn == [conns[clientFd] EXCEPT !.end = "closed", !.open = FALSE]
<1>4. conn \in Conns /\ Quiet(conn) /\ ~conn.open
  BY <1>1, <1>2 DEF Conns, Quiet
<1>5. clientFd' = None /\ conns' = [conns EXCEPT ![clientFd] = conn]
  BY <1>1 DEF Broken, CloseFd
<1> HIDE DEF conn
<1>6. /\ conns' \in Seq(Conns) /\ DOMAIN conns' = DOMAIN conns /\ conns'[clientFd] = conn
      /\ \A j \in DOMAIN conns : j # clientFd => conns'[j] = conns[j]
  BY <1>1, <1>4, <1>5, OneChanges DEF RpcInv, RpcTypeOK
<1>7. \A k \in DOMAIN conns' : ~conns'[k].open /\ Quiet(conns'[k])
  BY <1>4, <1>6 DEF RpcInv, OthersQuiet
<1>8. RpcTypeOK' /\ OthersQuiet'
  BY <1>2, <1>3, <1>5, <1>6, <1>7 DEF RpcInv, RpcTypeOK, OthersQuiet, Quiet
<1>9. Before(c)' /\ After(c)' /\ NotYetServed(c)'
  BY <1>2, <1>3, <1>5 DEF RpcInv, Before, After, NotYetServed
<1>10. ServedOnce'
  BY <1>2 DEF RpcInv, ServedOnce
<1> QED
  BY <1>3, <1>8, <1>9, <1>10, ForOneThread
-----------------------------------------------------------------------------
\* Only the thread's own request can be there, it is whole, and it was not executed before.
LEMMA OnMessageKeeps ==
  ASSUME OneThread, RpcInv, NEW c \in Caller, NEW k \in DOMAIN conns, OnMessage(k)
  PROVE  RpcInv'
<1>0. Known(c)
  BY Facts
<1> USE <1>0 DEF Known
<1>1. PICK n \in 1 .. Len(conns[k].requests) :
        LET buffer == SubSeq(conns[k].requests, 1, n)
            first == buffer[1].message
            rest == [conns EXCEPT ![k].requests = SubSeq(@, n + 1, Len(@))]
        IN IF StartsWhole(buffer)
           THEN /\ conns' = [rest EXCEPT ![k].handling = first]
                /\ served' = Append(served, first)
           ELSE conns' = rest /\ UNCHANGED served
  BY DEF OnMessage
<1>2. conns[k].requests # <<>> /\ conns[k] \in Conns
  BY <1>1, EmptySeq DEF Conns
<1>3. k = clientFd
  BY <1>2 DEF RpcInv, OthersQuiet, Quiet
<1>4. threads[c].at \in {"recv", "blocked"}
  BY <1>2, <1>3 DEF RpcInv, Before, Quiet, Threads
<1>5. Requested(conns[k], Message(c))
  BY <1>2, <1>3, <1>4 DEF RpcInv, After, Handled, Replied, Quiet
<1>6. conns[k].requests = <<Piece(Message(c))>> /\ n = 1
  BY <1>1, <1>5 DEF Requested
<1>7. SubSeq(conns[k].requests, 1, 1) = <<Piece(Message(c))>>
  BY <1>6, OnePiece, SubSeqFull
<1>8. SubSeq(conns[k].requests, n + 1, Len(conns[k].requests)) = <<>>
  <2>1. Len(conns[k].requests) = 1 /\ n + 1 = 2
    BY <1>6
  <2> QED
    BY <2>1, SubSeqEmpty
<1>9. StartsWhole(<<Piece(Message(c))>>)
  BY DEF StartsWhole, Piece
<1>10. <<Piece(Message(c))>>[1].message = Message(c)
  BY OnePiece
<1> DEFINE conn == [conns[k] EXCEPT !.requests = <<>>, !.handling = Message(c)]
<1>11. conns' = [conns EXCEPT ![k] = conn]
  BY <1>1, <1>6, <1>7, <1>8, <1>9, <1>10
<1>12. served' = Append(served, Message(c)) /\ UNCHANGED <<clientFd, threads>>
  BY <1>1, <1>6, <1>7, <1>9, <1>10 DEF OnMessage
<1>13. conn \in Conns /\ Handled(conn, Message(c))
  BY <1>2, <1>5, EmptySeq DEF Conns, Requested, Handled
<1> HIDE DEF conn
<1>14. /\ conns' \in Seq(Conns) /\ DOMAIN conns' = DOMAIN conns /\ conns'[k] = conn
       /\ \A j \in DOMAIN conns : j # k => conns'[j] = conns[j]
  BY <1>11, <1>13, OneChanges DEF RpcInv, RpcTypeOK
<1>15. /\ served' \in Seq(Messages) /\ DOMAIN served' = 1 .. Len(served) + 1
       /\ \A m \in 1 .. Len(served) : served'[m] = served[m]
       /\ served'[Len(served) + 1] = Message(c)
  BY <1>12, AppendProperties, LenProperties DEF RpcInv, RpcTypeOK
<1>16. RpcTypeOK' /\ OthersQuiet'
  BY <1>3, <1>12, <1>14, <1>15 DEF RpcInv, RpcTypeOK, OthersQuiet
<1>17. Before(c)' /\ After(c)'
  BY <1>3, <1>4, <1>12, <1>13, <1>14 DEF RpcInv, Before, After, Message
<1>18. \A m \in 1 .. Len(served) : served[m] # Message(c) /\ served[m].call <= threads[c].call
  BY <1>2, <1>3, <1>4 DEF RpcInv, NotYetServed
<1>19. NotYetServed(c)'
  <2>1. \A m \in DOMAIN served' : served'[m].call <= threads[c].call
    <3>1. Message(c).call = threads[c].call
      BY DEF Message
    <3>2. threads[c].call \in Nat
      BY DEF Threads
    <3> QED
      BY <1>15, <1>18, <3>1, <3>2
  <2>2. conns'[clientFd].requests = <<>>
    BY <1>3, <1>13, <1>14 DEF Handled
  <2> QED
    BY <1>4, <1>12, <2>1, <2>2 DEF NotYetServed
<1>20. ServedOnce'
  BY <1>15, <1>18 DEF RpcInv, ServedOnce
<1> QED
  BY <1>4, <1>12, <1>16, <1>17, <1>19, <1>20, ForOneThread

\* The reply is to the request that was executed.
LEMMA SendRpcResponseKeeps ==
  ASSUME OneThread, RpcInv, NEW c \in Caller, NEW k \in DOMAIN conns, SendRpcResponse(k)
  PROVE  RpcInv'
<1>0. Known(c)
  BY Facts
<1> USE <1>0 DEF Known
<1>1. conns[k].handling # None /\ conns[k] \in Conns /\ UNCHANGED <<clientFd, threads, served>>
  BY DEF SendRpcResponse
<1>2. k = clientFd
  BY <1>1 DEF RpcInv, OthersQuiet, Quiet
<1>3. threads[c].at \in {"recv", "blocked"}
  BY <1>1, <1>2 DEF RpcInv, Before, Quiet, Threads
<1>4. Handled(conns[k], Message(c))
  BY <1>1, <1>2, <1>3 DEF RpcInv, After, Requested, Replied, Quiet
<1>5. conns[k].replies \o InPieces(conns[k].handling, 1) = <<Piece(Message(c))>>
  BY <1>4, OnePiece, ConcatEmptySeq DEF Handled
<1> DEFINE conn == [conns[k] EXCEPT !.replies = <<Piece(Message(c))>>, !.handling = None]
<1>6. conns' = [conns EXCEPT ![k] = conn]
  <2>1. conns' = [conns EXCEPT ![k].replies = @ \o InPieces(conns[k].handling, 1),
                               ![k].handling = None]
    BY DEF SendRpcResponse, OneThread
  <2> QED
    BY <1>5, <2>1
<1>7. conn \in Conns /\ Replied(conn, Message(c))
  BY <1>1, <1>4, OnePiece DEF Conns, Handled, Replied
<1> HIDE DEF conn
<1>8. /\ conns' \in Seq(Conns) /\ DOMAIN conns' = DOMAIN conns /\ conns'[k] = conn
      /\ \A j \in DOMAIN conns : j # k => conns'[j] = conns[j]
  BY <1>6, <1>7, OneChanges DEF RpcInv, RpcTypeOK
<1>9. RpcTypeOK' /\ OthersQuiet'
  BY <1>1, <1>2, <1>8 DEF RpcInv, RpcTypeOK, OthersQuiet
<1>10. Before(c)' /\ After(c)'
  BY <1>1, <1>2, <1>3, <1>7, <1>8 DEF RpcInv, Before, After, Message
<1>11. NotYetServed(c)'
  BY <1>1, <1>2, <1>3, <1>7, <1>8 DEF RpcInv, NotYetServed, Replied
<1>12. ServedOnce'
  BY <1>1 DEF RpcInv, ServedOnce
<1> QED
  BY <1>1, <1>3, <1>9, <1>10, <1>11, <1>12, ForOneThread

\* A crash takes the request and what is executed with it, and leaves the reply.
LEMMA CrashKeeps ==
  ASSUME OneThread, RpcInv, NEW c \in Caller, Crash
  PROVE  RpcInv'
<1>0. Known(c)
  BY Facts
<1> USE <1>0 DEF Known
<1>1. UNCHANGED <<clientFd, threads, served>>
  BY DEF Crash
<1> DEFINE after(conn) ==
      IF conn.end # "open" THEN conn
      ELSE [conn EXCEPT !.end = IF conn.requests = <<>> THEN "closed" ELSE "reset",
                        !.requests = <<>>, !.handling = None]
<1>2. /\ DOMAIN conns' = DOMAIN conns
      /\ \A k \in DOMAIN conns : conns'[k] = after(conns[k])
      /\ conns' = [k \in 1 .. Len(conns) |-> after(conns[k])]
  BY DEF Crash
<1>3. ASSUME NEW conn \in Conns
      PROVE  /\ after(conn) \in Conns /\ after(conn).open = conn.open
             /\ after(conn).end # "open" /\ after(conn).replies = conn.replies
             /\ after(conn).requests \in {conn.requests, <<>>}
             /\ after(conn).handling \in {conn.handling, None}
             /\ conn.end = "open" => /\ after(conn).requests = <<>>
                                     /\ after(conn).handling = None
  BY EmptySeq DEF Conns
<1> HIDE DEF after
<1>4. conns' \in Seq(Conns)
  <2>1. conns' \in [1 .. Len(conns) -> Conns]
    BY <1>2, <1>3
  <2> QED
    BY <2>1, SeqDef
<1>5. RpcTypeOK'
  BY <1>1, <1>2, <1>4 DEF RpcInv, RpcTypeOK
<1>6. \A k \in DOMAIN conns : Quiet(conns[k]) => Quiet(conns'[k])
  BY <1>2, <1>3 DEF Quiet
<1>7. OthersQuiet'
  BY <1>1, <1>2, <1>3, <1>6 DEF RpcInv, OthersQuiet
<1>8. Before(c)'
  BY <1>1, <1>6 DEF RpcInv, Before
<1>9. After(c)'
  <2> SUFFICES ASSUME threads[c].at \in {"recv", "blocked"}
               PROVE  /\ clientFd # None
                      /\ threads[c].at = "blocked" => threads[c].sock = clientFd
                      /\ \/ Replied(conns'[clientFd], Message(c))
                         \/ conns'[clientFd].end # "open" /\ Quiet(conns'[clientFd])
    BY <1>1 DEF After, Message
  <2>1. clientFd \in 1 .. Len(conns) /\ (threads[c].at = "blocked" => threads[c].sock = clientFd)
    BY DEF RpcInv, After
  <2>2. CASE Requested(conns[clientFd], Message(c)) \/ Handled(conns[clientFd], Message(c))
    BY <1>2, <1>3, <2>1, <2>2 DEF Requested, Handled, Quiet
  <2>3. CASE Replied(conns[clientFd], Message(c))
    BY <1>2, <1>3, <2>1, <2>3 DEF Replied
  <2>4. CASE conns[clientFd].end # "open" /\ Quiet(conns[clientFd])
    BY <1>2, <1>3, <1>6, <2>1, <2>4
  <2> QED
    BY <2>1, <2>2, <2>3, <2>4 DEF RpcInv, After
<1>10. NotYetServed(c)'
  <2>1. threads[c].at \in {"recv", "blocked"} /\ conns'[clientFd].requests # <<>>
          => conns[clientFd].requests # <<>>
    BY <1>2, <1>3 DEF RpcInv, After
  <2> QED
    BY <1>1, <2>1 DEF RpcInv, NotYetServed, Message
<1>11. ServedOnce'
  BY <1>1 DEF RpcInv, ServedOnce
<1> QED
  BY <1>1, <1>5, <1>7, <1>8, <1>9, <1>10, <1>11, ForOneThread DEF RpcInv, OwnReply, Message

\* A reset arrives on a connection that the other end has closed.
LEMMA ResetArrivesKeeps ==
  ASSUME OneThread, RpcInv, NEW c \in Caller, NEW k \in DOMAIN conns, ResetArrives(k)
  PROVE  RpcInv'
<1>0. Known(c)
  BY Facts
<1> USE <1>0 DEF Known
<1> DEFINE conn == [conns[k] EXCEPT !.end = "reset"]
<1>1. /\ conns[k].end = "resetting" /\ conns' = [conns EXCEPT ![k] = conn]
      /\ UNCHANGED <<clientFd, threads, served>>
  BY DEF ResetArrives
<1>2. /\ conn \in Conns /\ conn.end = "reset" /\ conn.open = conns[k].open
      /\ conn.requests = conns[k].requests /\ conn.handling = conns[k].handling
      /\ conn.replies = conns[k].replies
  BY DEF Conns
<1> HIDE DEF conn
<1>3. /\ conns' \in Seq(Conns) /\ DOMAIN conns' = DOMAIN conns /\ conns'[k] = conn
      /\ \A j \in DOMAIN conns : j # k => conns'[j] = conns[j]
  BY <1>1, <1>2, OneChanges DEF RpcInv, RpcTypeOK
<1>4. RpcTypeOK' /\ OthersQuiet'
  BY <1>1, <1>2, <1>3 DEF RpcInv, RpcTypeOK, OthersQuiet, Quiet
<1>5. Before(c)'
  BY <1>1, <1>2, <1>3 DEF RpcInv, Before, Quiet
<1>6. After(c)'
  BY <1>1, <1>2, <1>3 DEF RpcInv, After, Message, Quiet, Requested, Handled, Replied
<1>7. NotYetServed(c)'
  BY <1>1, <1>2, <1>3 DEF RpcInv, NotYetServed, Message, After
<1>8. ServedOnce'
  BY <1>1 DEF RpcInv, ServedOnce
<1> QED
  BY <1>1, <1>4, <1>5, <1>6, <1>7, <1>8, ForOneThread DEF RpcInv, OwnReply, Message

\* Every step but these leaves all of it alone.
LEMMA OthersKeep ==
  ASSUME RpcInv, UNCHANGED <<clientFd, conns, threads, served>>
  PROVE  RpcInv'
BY DEF RpcInv, RpcTypeOK, OthersQuiet, Before, After, NotYetServed, ServedOnce, OwnReply, Message

-----------------------------------------------------------------------------
\* It holds at the start, connected or not.
LEMMA RpcInitInv ==
  ASSUME OneThread, RpcInit
  PROVE  RpcInv
<1>1. PICK c \in Caller : Caller = {c}
  BY DEF OneThread
<1>2. NewConn \in Conns /\ Quiet(NewConn)
  BY EmptySeq DEF NewConn, Conns, Quiet
<1>3. /\ conns \in Seq(Conns) /\ clientFd \in (DOMAIN conns) \cup {None}
      /\ \A k \in DOMAIN conns : k = clientFd /\ conns[k] = NewConn
  <2>1. CASE conns = <<>>
    <3>1. <<>> \in Seq(Conns) /\ DOMAIN <<>> = {}
      BY EmptySeq, LenProperties
    <3>2. clientFd = None
      BY <2>1 DEF RpcInit
    <3> QED
      BY <2>1, <3>1, <3>2
  <2>2. CASE conns = <<NewConn>>
    <3>1. <<NewConn>> \in Seq(Conns) /\ DOMAIN <<NewConn>> = {1} /\ <<NewConn>>[1] = NewConn
      BY <1>2
    <3>2. <<NewConn>> # <<>> /\ clientFd = 1
      BY <2>2 DEF RpcInit
    <3> QED
      BY <2>2, <3>1, <3>2
  <2> QED
    BY <2>1, <2>2 DEF RpcInit
<1>4. served = <<>> /\ served \in Seq(Messages) /\ DOMAIN served = {}
  <2>1. DOMAIN <<>> = {}
    OBVIOUS
  <2>2. served = <<>>
    BY DEF RpcInit
  <2>3. <<>> \in Seq(Messages)
    BY EmptySeq
  <2> QED
    BY <2>1, <2>2, <2>3
<1>5. threads \in [Caller -> Threads] /\ threads[c].at = "idle" /\ threads[c].result = ""
  BY EmptySeq DEF RpcInit, Threads
<1>6. RpcTypeOK /\ OthersQuiet
  BY <1>3, <1>4, <1>5 DEF RpcTypeOK, OthersQuiet
<1>7. Before(c) /\ After(c) /\ NotYetServed(c)
  BY <1>2, <1>3, <1>4, <1>5, <1>6 DEF RpcTypeOK, Before, After, NotYetServed
<1>8. ServedOnce /\ OwnReply
  BY <1>1, <1>4, <1>5 DEF ServedOnce, OwnReply
<1> QED
  BY <1>1, <1>6, <1>7, <1>8 DEF RpcInv

\* Every step keeps it.
LEMMA RpcStepInv ==
  ASSUME OneThread, RpcInv, [RpcNext]_rpcVars
  PROVE  RpcInv'
<1>1. PICK c \in Caller : Caller = {c}
  BY DEF OneThread
<1>2. CASE StartCall(c)
  BY <1>2, StartCallKeeps
<1>3. CASE NewConnect(c)
  BY <1>3, NewConnectKeeps
<1>4. CASE Send(c)
  BY <1>4, SendKeeps
<1>5. CASE Recv(c)
  BY <1>5, RecvKeeps
<1>6. CASE TakeReply(c)
  BY <1>6, TakeReplyKeeps
<1>7. CASE EndOfStream(c)
  BY <1>7, EndOfStreamKeeps
<1>8. CASE Broken(c)
  BY <1>8, BrokenKeeps
<1>9. ASSUME NEW k \in DOMAIN conns, OnMessage(k)
      PROVE  RpcInv'
  BY <1>9, OnMessageKeeps
<1>10. ASSUME NEW k \in DOMAIN conns, SendRpcResponse(k)
       PROVE  RpcInv'
  BY <1>10, SendRpcResponseKeeps
<1>11. ASSUME NEW k \in DOMAIN conns, ResetArrives(k)
       PROVE  RpcInv'
  BY <1>11, ResetArrivesKeeps
<1>12. CASE Crash
  BY <1>12, CrashKeeps
<1>13. CASE Restart \/ UNCHANGED rpcVars
  BY <1>13, OthersKeep DEF Restart, rpcVars
<1> QED
  BY <1>1, <1>2, <1>3, <1>4, <1>5, <1>6, <1>7, <1>8, <1>9, <1>10, <1>11, <1>12, <1>13
     DEF RpcNext, CallerStep

\* What is under way on the socket a thread waits on is its own call.
LEMMA InvReplyComes ==
  ASSUME OneThread, RpcInv
  PROVE  ReplyComes
<1> SUFFICES ASSUME NEW c \in Caller, threads[c].at = "blocked", Socket(c).end = "open"
             PROVE  Pending(c)
  BY DEF ReplyComes
<1>1. Known(c)
  BY Facts
<1>2. Socket(c) = conns[clientFd]
  BY DEF Socket, RpcInv, After
<1>3. \/ Requested(Socket(c), Message(c)) \/ Handled(Socket(c), Message(c))
      \/ Replied(Socket(c), Message(c))
  BY <1>2 DEF RpcInv, After
<1>4. DOMAIN <<Piece(Message(c))>> = {1} /\ <<Piece(Message(c))>>[1].message = Message(c)
  BY DEF Piece
<1> QED
  BY <1>3, <1>4 DEF Pending, Requested, Handled, Replied

\* The invariant implies that no other socket is open.
LEMMA InvOneSocket ==
  ASSUME RpcInv
  PROVE  OneSocket
BY DEF RpcInv, OthersQuiet, OneSocket

-----------------------------------------------------------------------------
\* The invariant of a channel that one thread has to itself.
THEOREM RpcInvariant == OneThread => (RpcSpec => []RpcInv)
<1> SUFFICES ASSUME OneThread
             PROVE  RpcSpec => []RpcInv
  OBVIOUS
<1>1. RpcInit => RpcInv
  BY RpcInitInv
<1>2. RpcInv /\ [RpcNext]_rpcVars => RpcInv'
  BY RpcStepInv
<1> QED
  BY <1>1, <1>2, PTL DEF RpcSpec

\* CallMethod never parses the reply to an earlier call, however many failed before it: the
\* socket whose reply is not taken is never used again.
THEOREM OwnReplyHolds == OneThread => (RpcSpec => []OwnReply)
<1>1. RpcInv => OwnReply
  BY DEF RpcInv
<1> QED
  BY <1>1, RpcInvariant, PTL

\* A thread that waits in recv on a connection that is up has its reply coming.
THEOREM ReplyComesHolds == OneThread => (RpcSpec => []ReplyComes)
<1> SUFFICES ASSUME OneThread
             PROVE  RpcSpec => []ReplyComes
  OBVIOUS
<1>1. RpcInv => ReplyComes
  BY InvReplyComes
<1> QED
  BY <1>1, RpcInvariant, PTL

\* The loop around send executes no call twice, whatever the provider's crashes.
THEOREM ServedOnceHolds == OneThread => (RpcSpec => []ServedOnce)
<1>1. RpcInv => ServedOnce
  BY DEF RpcInv
<1> QED
  BY <1>1, RpcInvariant, PTL

\* Reconnecting leaks no socket.
THEOREM OneSocketHolds == OneThread => (RpcSpec => []OneSocket)
<1>1. RpcInv => OneSocket
  BY InvOneSocket
<1> QED
  BY <1>1, RpcInvariant, PTL

-----------------------------------------------------------------------------
(* StartUp: the sleeps of a start keep its order. *)

\* The bounds have their types.
Clocked == NodeNum \in Nat /\ Second \in Nat /\ Lag \in Nat /\ MinElection \in Nat

\* sleep(6) is longer than it takes from the first node's fork until the last one has
\* written its lines, which is three steps of its threads after its own.
EnoughSleep == (NodeNum - 1) * (Second + Lag) + 3 * Lag < 6 * Second

\* The shortest election timer is longer than all delays that may add up between two nodes.
EnoughElection == (NodeNum + 2) * Lag < MinElection

\* Types, without those of the lists.
StartType ==
  /\ time \in Nat
  /\ parent \in [next : 0 .. NodeNum, due : Nat]
  /\ rpc \in [Node -> [at : {"none", "ip", "port", "starting", "listening"}, due : Nat]]
  /\ main \in [Node -> [at : {"none", "forked", "sleeping", "connected", "asleep", "running",
                              "candidate"},
                        due : Nat]]
  /\ file \subseteq Node \X {"ip", "port"}
  /\ ipPortVt \in [Node -> Seq(BOOLEAN)]

\* No thread that waits for time to pass is later than Lag.
Punctual ==
  /\ parent.next < NodeNum => time <= parent.due + Lag
  /\ \A i \in Node :
       /\ main[i].at \in {"forked", "sleeping", "connected"} => time <= main[i].due + Lag
       /\ rpc[i].at \in {"ip", "port", "starting"} => time <= rpc[i].due + Lag

\* The nodes are forked one after the other, each at forked[i].
ForkedInTurn(forked) ==
  /\ \A i \in Node : main[i].at # "none" <=> i < parent.next
  /\ 0 < parent.next /\ parent.next < NodeNum
       => parent.due = forked[parent.next - 1] + Second
  /\ \A i \in Node : i < parent.next => forked[i] <= time
  /\ \A i, j \in Node : i <= j /\ j < parent.next
       => /\ forked[i] + (j - i) * Second <= forked[j]
          /\ forked[j] <= forked[i] + (j - i) * (Second + Lag)

\* Since then node i's RPC thread has come as far as the clock allows, and its lines are there.
RpcTimed(i, forked) ==
  /\ rpc[i].at = "none" <=> main[i].at \in {"none", "forked"}
  /\ rpc[i].at = "ip" => rpc[i].due <= forked[i] + Lag
  /\ rpc[i].at = "port" => rpc[i].due <= forked[i] + 2 * Lag
  /\ rpc[i].at \in {"port", "starting", "listening"} => Load(i, "ip")
  /\ rpc[i].at \in {"starting", "listening"} => Load(i, "port")

\* So has its constructor.
Slept(i, forked) == forked[i] + 6 * Second
Connects(i, forked) == Slept(i, forked) + Second * (NodeNum - i)
MainTimed(i, forked) ==
  /\ main[i].at = "forked" => main[i].due = forked[i]
  /\ main[i].at = "sleeping" =>
       Slept(i, forked) <= main[i].due /\ main[i].due <= Slept(i, forked) + Lag
  /\ main[i].at = "connected" =>
       Connects(i, forked) <= main[i].due /\ main[i].due <= Connects(i, forked) + 2 * Lag
  /\ main[i].at # "asleep"
  /\ main[i].at = "running" => Connects(i, forked) + MinElection <= main[i].due
  /\ main[i].at = "candidate" => Connects(i, forked) + MinElection <= time

Timed(forked) ==
  /\ ForkedInTurn(forked)
  /\ \A i \in Node : RpcTimed(i, forked) /\ MainTimed(i, forked)

StartInv ==
  /\ StartType /\ Punctual /\ ListsComplete
  /\ \E forked \in [Node -> Int] : Timed(forked)

-----------------------------------------------------------------------------
(* Numbers *)

\* A set of numbers has a least one, and Min finds it.
LEMMA MinLeast ==
  ASSUME NEW S \in SUBSET Nat, S # {}
  PROVE  Min(S) \in S /\ \A n \in S : Min(S) <= n
<1>. DEFINE R == OpToRel(<, Nat)
<1>1. IsWellFoundedOn(R, Nat)
  BY NatLessThanWellFounded
<1>2. \A m, n \in Nat : m < n => <<m, n>> \in R
  BY DEF OpToRel
<1>. HIDE DEF R
<1>3. \E m \in S : \A n \in S : ~(<<n, m>> \in R)
  BY <1>1, WFMin
<1>4. PICK m \in S : \A n \in S : ~(<<n, m>> \in R)
  BY <1>3
<1>5. \A n \in S : ~(n < m)
  BY <1>2, <1>4
<1>6. \E l \in S : \A n \in S : l <= n
  BY <1>4, <1>5
<1>7. Min(S) = CHOOSE l \in S : \A n \in S : l <= n
  BY DEF Min
<1>. QED  BY <1>6, <1>7, Zenon

\* More of the same step is no less.
LEMMA TimesGrows == \A m, n, k \in Nat : m <= n => m * k <= n * k
<1>. SUFFICES ASSUME NEW m \in Nat, NEW n \in Nat, NEW k \in Nat, m <= n PROVE m * k <= n * k
  OBVIOUS
<1>1. PICK d \in Nat : n = m + d
  <2>1. n - m \in Nat /\ n = m + (n - m)
    OBVIOUS
  <2>. QED  BY <2>1
<1>2. n * k = m * k + d * k
  BY <1>1
<1>3. d * k \in Nat /\ m * k \in Nat
  OBVIOUS
<1>. QED  BY <1>2, <1>3

\* One step more, and one step nearer.
LEMMA OneMore == \A n, k \in Int : (n + 1) * k = n * k + k
OBVIOUS

\* How far two of n nodes are apart.
LEMMA Apart ==
  ASSUME NEW i \in Nat, NEW j \in Nat, NEW n \in Nat, i <= j, j < n
  PROVE  j - i \in Nat /\ n - 1 \in Nat /\ j - i <= n - 1
<1>1. PICK d \in Nat : j = i + d
  <2>1. j - i \in Nat /\ j = i + (j - i)
    OBVIOUS
  <2>. QED  BY <2>1
<1>2. j - i = d
  BY <1>1
<1>3. d <= n - 1 /\ n - 1 \in Nat
  BY <1>1
<1>. QED  BY <1>2, <1>3

\* No node is forked later than the ones after the first take.
LEMMA ForkedWithin ==
  ASSUME Clocked, StartType, NEW forked \in [Node -> Int], ForkedInTurn(forked),
         NEW i \in Node, NEW j \in Node, i < parent.next, j < parent.next
  PROVE  forked[j] <= forked[i] + (NodeNum - 1) * (Second + Lag)
<1>1. i \in Nat /\ j \in Nat /\ i < NodeNum /\ j < NodeNum /\ forked[i] \in Int /\ forked[j] \in Int
  BY DEF Node, Clocked
<1>2. Second \in Nat /\ Second + Lag \in Nat /\ NodeNum - 1 \in Nat
  BY <1>1 DEF Clocked
<1>3. CASE i <= j
  <2>1. forked[j] <= forked[i] + (j - i) * (Second + Lag)
    BY <1>3 DEF ForkedInTurn
  <2>2. j - i \in Nat /\ j - i <= NodeNum - 1
    BY <1>1, <1>3, Apart DEF Clocked
  <2>3. (j - i) * (Second + Lag) <= (NodeNum - 1) * (Second + Lag)
    BY <2>2, <1>2, TimesGrows
  <2>4. (j - i) * (Second + Lag) \in Int /\ (NodeNum - 1) * (Second + Lag) \in Int
    BY <1>2, <2>2
  <2>. QED  BY <2>1, <2>3, <2>4, <1>1
<1>4. CASE j <= i
  <2>1. forked[j] + (i - j) * Second <= forked[i]
    BY <1>4 DEF ForkedInTurn
  <2>2. i - j \in Nat
    BY <1>1, <1>4
  <2>3. (i - j) * Second \in Nat /\ (NodeNum - 1) * (Second + Lag) \in Nat
    BY <1>2, <2>2
  <2>. QED  BY <2>1, <2>3, <1>1
<1>. QED  BY <1>1, <1>3, <1>4

-----------------------------------------------------------------------------
(* What a node finds that has slept *)

\* Six seconds after the fork of node i, every node has been forked and its lines are there.
LEMMA AllWritten ==
  ASSUME Clocked, EnoughSleep, StartType, Punctual,
         NEW forked \in [Node -> Int], Timed(forked),
         NEW i \in Node, i < parent.next, Slept(i, forked) <= time
  PROVE  /\ parent.next = NodeNum
         /\ \A j \in Node : /\ main[j].at \notin {"none", "forked"}
                            /\ Load(j, "ip") /\ Load(j, "port")
<1>. DEFINE span == (NodeNum - 1) * (Second + Lag)
<1>0. ForkedInTurn(forked)
  BY DEF Timed
<1>1. i \in Nat /\ i < NodeNum /\ parent.next \in 0 .. NodeNum /\ parent.due \in Nat /\ time \in Nat
      /\ forked[i] \in Int /\ Second \in Nat /\ Lag \in Nat /\ NodeNum \in Nat
  BY DEF Node, Clocked, StartType
<1>2. span \in Nat /\ span + 3 * Lag < 6 * Second /\ forked[i] + 6 * Second <= time
  BY <1>1 DEF EnoughSleep, Slept
<1>3. parent.next = NodeNum
  <2>. SUFFICES ASSUME parent.next < NodeNum PROVE FALSE
    BY <1>1
  <2>1. time <= parent.due + Lag /\ parent.due = forked[parent.next - 1] + Second
    BY <1>0, <1>1 DEF Punctual, ForkedInTurn
  <2>. DEFINE l == parent.next - 1
  <2>2. l \in Node /\ i <= l /\ l < parent.next /\ l + 1 < NodeNum
    BY <1>1 DEF Node
  <2>3. forked[l] <= forked[i] + (l - i) * (Second + Lag) /\ forked[l] \in Int
    BY <1>0, <2>2 DEF ForkedInTurn
  <2>4. l - i \in Nat /\ (l - i) + 1 \in Nat /\ (l - i) + 1 <= NodeNum - 1 /\ NodeNum - 1 \in Nat
    <3>1. l \in Nat /\ l + 1 \in Nat /\ i <= l + 1
      BY <1>1, <2>2 DEF Node
    <3>. HIDE DEF l
    <3>2. l - i \in Nat
      BY <1>1, <2>2, <3>1, Apart
    <3>3. (l + 1) - i <= NodeNum - 1 /\ NodeNum - 1 \in Nat
      BY <1>1, <2>2, <3>1, Apart
    <3>4. (l + 1) - i = (l - i) + 1
      BY <1>1, <3>1
    <3>. QED  BY <3>2, <3>3, <3>4
  <2>5. ((l - i) + 1) * (Second + Lag) <= span
    BY <1>1, <2>4, TimesGrows
  <2>6. ((l - i) + 1) * (Second + Lag) = (l - i) * (Second + Lag) + (Second + Lag)
    BY <1>1, <2>4, OneMore
  <2>7. (l - i) * (Second + Lag) \in Int
    BY <1>1, <2>4
  <2>8. time <= forked[l] + Second + Lag
    BY <1>1, <2>1, <2>3
  <2>. HIDE DEF span, l
  <2>. QED  BY <1>1, <1>2, <2>3, <2>5, <2>6, <2>7, <2>8
<1>4. ASSUME NEW j \in Node
      PROVE  main[j].at \notin {"none", "forked"} /\ Load(j, "ip") /\ Load(j, "port")
  <2>1. j < parent.next /\ forked[j] \in Int
    BY <1>1, <1>3 DEF Node
  <2>2. forked[j] <= forked[i] + span
    BY <1>0, <2>1, ForkedWithin
  <2>3. forked[j] + 3 * Lag < time
    <3>. HIDE DEF span
    <3>. QED  BY <1>1, <1>2, <2>1, <2>2
  <2>4. RpcTimed(j, forked) /\ MainTimed(j, forked) /\ main[j].at # "none"
    BY <1>0, <2>1 DEF Timed, ForkedInTurn
  <2>5. rpc[j].at \in {"none", "ip", "port", "starting", "listening"} /\ rpc[j].due \in Nat
        /\ main[j].due \in Nat
    BY DEF StartType
  <2>6. main[j].at # "forked"
    BY <1>1, <2>1, <2>3, <2>4, <2>5 DEF MainTimed, Punctual
  <2>7. rpc[j].at # "none"
    BY <2>4, <2>6 DEF RpcTimed
  <2>8. rpc[j].at # "ip" /\ rpc[j].at # "port"
    BY <1>1, <2>1, <2>3, <2>4, <2>5 DEF RpcTimed, Punctual
  <2>. QED  BY <2>4, <2>5, <2>6, <2>7, <2>8 DEF RpcTimed
<1>. QED  BY <1>3, <1>4

\* What it reads then is a list of all nodes, with their ports.
LEMMA AddressesComplete ==
  ASSUME Clocked, StartType, \A j \in Node : Load(j, "ip") /\ Load(j, "port")
  PROVE  Addresses = [n \in 1 .. NodeNum |-> TRUE]
<1>. DEFINE missing == {i \in 0 .. NodeNum : ~Load(i, "ip")}
<1>1. missing = {NodeNum}
  <2>1. ~Load(NodeNum, "ip")
    BY DEF Load, StartType, Node, Clocked
  <2>. QED  BY <2>1 DEF Clocked, Node
<1>2. NodeNum \in Nat
  BY DEF Clocked
<1>3. Min(missing) = NodeNum
  BY <1>1, <1>2, MinLeast
<1>4. Addresses = [n \in 1 .. Min(missing) |-> Load(n - 1, "port")]
  BY DEF Addresses
<1>5. \A n \in 1 .. NodeNum : Load(n - 1, "port") = TRUE
  <2>. SUFFICES ASSUME NEW n \in 1 .. NodeNum PROVE Load(n - 1, "port")
    BY DEF Load
  <2>1. n - 1 \in Node
    BY <1>2 DEF Node
  <2>. QED  BY <2>1
<1>. HIDE DEF missing
<1>. QED  BY <1>3, <1>4, <1>5

-----------------------------------------------------------------------------
(* Steps of one node *)

\* A node's own step keeps everything that is not about its threads.
LEMMA NodeKeeps ==
  ASSUME Clocked, StartInv, NEW forked \in [Node -> Int], Timed(forked), NEW i \in Node,
         UNCHANGED <<time, parent>>, StartType', main'[i].at # "none", main[i].at # "none",
         \A j \in Node \ {i} : main'[j] = main[j] /\ rpc'[j] = rpc[j]
                                 /\ ipPortVt'[j] = ipPortVt[j],
         file \subseteq file',
         RpcTimed(i, forked)', MainTimed(i, forked)',
         main'[i].at \in {"forked", "sleeping", "connected"} => time <= main'[i].due + Lag,
         rpc'[i].at \in {"ip", "port", "starting"} => time <= rpc'[i].due + Lag,
         main'[i].at \in {"connected", "asleep", "running", "candidate"}
           => Len(ipPortVt'[i]) = NodeNum /\ \A n \in DOMAIN ipPortVt'[i] : ipPortVt'[i][n]
  PROVE  StartInv'
<1>1. ForkedInTurn(forked)'
  BY DEF Timed, ForkedInTurn
<1>2. ASSUME NEW j \in Node PROVE RpcTimed(j, forked)' /\ MainTimed(j, forked)'
  <2>1. CASE j # i
    BY <2>1 DEF Timed, RpcTimed, MainTimed, Load, Connects, Slept
  <2>. QED  BY <2>1
<1>3. Punctual'
  <2>1. Punctual
    BY DEF StartInv
  <2>2. parent'.next < NodeNum => time' <= parent'.due + Lag
    BY <2>1 DEF Punctual
  <2>3. ASSUME NEW j \in Node
        PROVE  /\ main'[j].at \in {"forked", "sleeping", "connected"} => time' <= main'[j].due + Lag
               /\ rpc'[j].at \in {"ip", "port", "starting"} => time' <= rpc'[j].due + Lag
    BY <2>1 DEF Punctual
  <2>. QED  BY <2>2, <2>3 DEF Punctual
<1>4. ListsComplete'
  BY DEF StartInv, ListsComplete
<1>. QED  BY <1>1, <1>2, <1>3, <1>4 DEF StartInv, Timed

\* What is known of a node that has been forked.
LEMMA NodeFacts ==
  ASSUME Clocked, StartInv, NEW forked \in [Node -> Int], Timed(forked), NEW i \in Node
  PROVE  /\ time \in Nat /\ Second \in Nat /\ Lag \in Nat /\ MinElection \in Nat
         /\ forked[i] \in Int /\ main[i].due \in Nat /\ rpc[i].due \in Nat
         /\ Slept(i, forked) \in Int /\ Slept(i, forked) = forked[i] + 6 * Second
         /\ Connects(i, forked) \in Int
         /\ Connects(i, forked) = Slept(i, forked) + Second * (NodeNum - i)
         /\ Second * (NodeNum - i) \in Nat
         /\ i \in Nat /\ NodeNum \in Nat /\ NodeNum - i \in Nat
         /\ i < parent.next <=> main[i].at # "none"
         /\ i < parent.next => forked[i] <= time
         /\ RpcTimed(i, forked) /\ MainTimed(i, forked)
         /\ main[i].at \in {"forked", "sleeping", "connected"} => time <= main[i].due + Lag
         /\ rpc[i].at \in {"ip", "port", "starting"} => time <= rpc[i].due + Lag
<1>1. StartType /\ Punctual /\ ForkedInTurn(forked)
  BY DEF StartInv, Timed
<1>2. /\ time \in Nat /\ Second \in Nat /\ Lag \in Nat /\ MinElection \in Nat
      /\ forked[i] \in Int /\ main[i].due \in Nat /\ rpc[i].due \in Nat
      /\ i \in Nat /\ NodeNum \in Nat /\ i < NodeNum
  BY <1>1 DEF StartType, Clocked, Node
<1>3. NodeNum - i \in Nat
  BY <1>2
<1>4. Second * (NodeNum - i) \in Nat
  BY <1>2, <1>3
<1>5. Slept(i, forked) \in Int /\ Slept(i, forked) = forked[i] + 6 * Second
  BY <1>2 DEF Slept
<1>6. Connects(i, forked) \in Int /\ Connects(i, forked) = Slept(i, forked) + Second * (NodeNum - i)
  BY <1>4, <1>5 DEF Connects
<1>7. /\ i < parent.next <=> main[i].at # "none"
      /\ i < parent.next => forked[i] <= time
  BY <1>1 DEF ForkedInTurn
<1>8. /\ main[i].at \in {"forked", "sleeping", "connected"} => time <= main[i].due + Lag
      /\ rpc[i].at \in {"ip", "port", "starting"} => time <= rpc[i].due + Lag
  BY <1>1 DEF Punctual
<1>9. RpcTimed(i, forked) /\ MainTimed(i, forked)
  BY DEF Timed
<1>. QED  BY <1>2, <1>3, <1>4, <1>5, <1>6, <1>7, <1>8, <1>9

\* The constructor starts the RPC thread and goes to sleep for six seconds.
LEMMA ConstructInv ==
  ASSUME Clocked, StartInv, NEW i \in Node, Construct(i) PROVE StartInv'
<1>1. PICK forked \in [Node -> Int] : Timed(forked)
  BY DEF StartInv
<1>2. StartType
  BY DEF StartInv
<1>3. main'[i] = At("sleeping", time + 6 * Second) /\ rpc'[i] = At("ip", time)
      /\ \A j \in Node \ {i} : main'[j] = main[j] /\ rpc'[j] = rpc[j]
  BY <1>2 DEF Construct, StartType
<1>4. main'[i].at = "sleeping" /\ main'[i].due = time + 6 * Second
      /\ rpc'[i].at = "ip" /\ rpc'[i].due = time
  BY <1>3 DEF At
<1>5. UNCHANGED <<time, parent, file, ipPortVt>> /\ main[i].at = "forked"
  BY DEF Construct, Due
<1>6. StartType'
  BY <1>2, <1>5 DEF StartType, Construct, At, Clocked
<1>7. RpcTimed(i, forked)'
  BY <1>1, <1>4, <1>5, NodeFacts DEF RpcTimed, MainTimed
<1>8. MainTimed(i, forked)'
  <2>1. Slept(i, forked) <= time + 6 * Second /\ time + 6 * Second <= Slept(i, forked) + Lag
    BY <1>1, <1>5, NodeFacts DEF MainTimed
  <2>. QED  BY <1>4, <2>1 DEF MainTimed
<1>9. time <= time + 6 * Second + Lag /\ time <= time + Lag
  BY <1>1, NodeFacts
<1>. QED  BY <1>1, <1>3, <1>4, <1>5, <1>6, <1>7, <1>8, <1>9, NodeKeeps

\* What a node reads is complete.
LEMMA ReadFileInv ==
  ASSUME Clocked, EnoughSleep, StartInv, NEW i \in Node, ReadFile(i) PROVE StartInv'
<1>1. PICK forked \in [Node -> Int] : Timed(forked)
  BY DEF StartInv
<1>2. StartType /\ Punctual
  BY DEF StartInv
<1>3. UNCHANGED <<time, parent, rpc, file>> /\ main[i].at = "sleeping" /\ main[i].due <= time
  BY DEF ReadFile, Due
<1>4. Slept(i, forked) <= time /\ i < parent.next
  BY <1>1, <1>3, NodeFacts DEF MainTimed
<1>5. Addresses = [n \in 1 .. NodeNum |-> TRUE]
  BY <1>1, <1>2, <1>4, AllWritten, AddressesComplete
<1>6. ipPortVt'[i] = [n \in 1 .. NodeNum |-> TRUE]
      /\ \A j \in Node \ {i} : ipPortVt'[j] = ipPortVt[j]
  BY <1>2, <1>5 DEF ReadFile, StartType
<1>7. Len(ipPortVt'[i]) = NodeNum /\ ipPortVt'[i] \in Seq(BOOLEAN)
      /\ \A n \in DOMAIN ipPortVt'[i] : ipPortVt'[i][n]
  BY <1>6 DEF Clocked
<1>8. i \in Nat /\ NodeNum \in Nat /\ i < NodeNum
  BY DEF Node, Clocked
<1>9. main' = [main EXCEPT ![i] = At("connected", time + Second * (NodeNum - i))]
  <2>1. ~(Len(ipPortVt'[i]) < i)
    BY <1>7, <1>8
  <2>. QED  BY <1>7, <2>1 DEF ReadFile
<1>10. main'[i].at = "connected" /\ main'[i].due = time + Second * (NodeNum - i)
       /\ \A j \in Node \ {i} : main'[j] = main[j]
  BY <1>2, <1>9 DEF At, StartType
<1>11. StartType'
  <2>1. time + Second * (NodeNum - i) \in Nat
    BY <1>1, NodeFacts
  <2>2. main' \in [Node -> [at : {"none", "forked", "sleeping", "connected", "asleep", "running",
                                  "candidate"},
                            due : Nat]]
    BY <1>2, <1>9, <2>1 DEF StartType, At
  <2>3. ipPortVt' \in [Node -> Seq(BOOLEAN)]
    BY <1>2, <1>5, <1>6, <1>7 DEF StartType, ReadFile
  <2>. QED  BY <1>2, <1>3, <2>2, <2>3 DEF StartType
<1>12. RpcTimed(i, forked)'
  BY <1>1, <1>3, <1>10, NodeFacts DEF RpcTimed, Load
<1>13. MainTimed(i, forked)'
  <2>1. Connects(i, forked) <= main'[i].due /\ main'[i].due <= Connects(i, forked) + 2 * Lag
    BY <1>1, <1>3, <1>10, NodeFacts DEF MainTimed
  <2>. QED  BY <1>10, <2>1 DEF MainTimed
<1>14. time <= main'[i].due + Lag
  BY <1>1, <1>10, NodeFacts
<1>15. rpc[i].at \in {"ip", "port", "starting"} => time <= rpc[i].due + Lag
  BY <1>1, NodeFacts
<1>. QED  BY <1>1, <1>3, <1>6, <1>7, <1>10, <1>11, <1>12, <1>13, <1>14, <1>15, NodeKeeps

\* Raft::init comes no earlier than the sleeps allow, and sets the timer from then.
LEMMA InitRaftInv ==
  ASSUME Clocked, StartInv, NEW i \in Node, InitRaft(i) PROVE StartInv'
<1>1. PICK forked \in [Node -> Int] : Timed(forked)
  BY DEF StartInv
<1>2. StartType /\ ListsComplete
  BY DEF StartInv
<1>3. UNCHANGED <<time, parent, rpc, file, ipPortVt>> /\ main[i].at = "connected"
      /\ main[i].due <= time
  BY DEF InitRaft, Due
<1>4. main'[i].at = "running" /\ main'[i].due = time + MinElection
      /\ \A j \in Node \ {i} : main'[j] = main[j]
  BY <1>2 DEF InitRaft, At, StartType
<1>5. StartType'
  BY <1>2, <1>3 DEF StartType, InitRaft, At, Clocked
<1>6. RpcTimed(i, forked)'
  BY <1>1, <1>3, <1>4, NodeFacts DEF RpcTimed, Load
<1>7. MainTimed(i, forked)'
  <2>1. Connects(i, forked) + MinElection <= main'[i].due
    BY <1>1, <1>3, <1>4, NodeFacts DEF MainTimed
  <2>. QED  BY <1>4, <2>1 DEF MainTimed
<1>8. rpc[i].at \in {"ip", "port", "starting"} => time <= rpc[i].due + Lag
  BY <1>1, NodeFacts
<1>9. Len(ipPortVt[i]) = NodeNum /\ \A n \in DOMAIN ipPortVt[i] : ipPortVt[i][n]
  BY <1>2, <1>3 DEF ListsComplete
<1>. QED  BY <1>1, <1>3, <1>4, <1>5, <1>6, <1>7, <1>8, <1>9, NodeKeeps

\* An election is no earlier than the shortest timer.
LEMMA DoElectionInv ==
  ASSUME Clocked, StartInv, NEW i \in Node, DoElection(i) PROVE StartInv'
<1>1. PICK forked \in [Node -> Int] : Timed(forked)
  BY DEF StartInv
<1>2. StartType /\ ListsComplete
  BY DEF StartInv
<1>3. UNCHANGED <<time, parent, rpc, file, ipPortVt>> /\ main[i].at = "running"
      /\ main[i].due <= time
  BY DEF DoElection, Due
<1>4. main'[i].at = "candidate" /\ \A j \in Node \ {i} : main'[j] = main[j]
  BY <1>2 DEF DoElection, At, StartType
<1>5. StartType'
  BY <1>2, <1>3 DEF StartType, DoElection, At
<1>6. RpcTimed(i, forked)'
  BY <1>1, <1>3, <1>4, NodeFacts DEF RpcTimed, Load
<1>7. MainTimed(i, forked)'
  <2>1. Connects(i, forked) + MinElection <= time
    BY <1>1, <1>3, NodeFacts DEF MainTimed
  <2>. QED  BY <1>3, <1>4, <2>1 DEF MainTimed
<1>8. rpc[i].at \in {"ip", "port", "starting"} => time <= rpc[i].due + Lag
  BY <1>1, NodeFacts
<1>9. Len(ipPortVt[i]) = NodeNum /\ \A n \in DOMAIN ipPortVt[i] : ipPortVt[i][n]
  BY <1>2, <1>3 DEF ListsComplete
<1>. QED  BY <1>1, <1>3, <1>4, <1>5, <1>6, <1>7, <1>8, <1>9, NodeKeeps

\* A step of the RPC thread adds the line it is about to write, and is at most Lag later.
LEMMA RpcGotoInv ==
  ASSUME Clocked, StartInv, NEW i \in Node, WriteIp(i) \/ WritePort(i) \/ Listen(i)
  PROVE  StartInv'
<1>1. PICK forked \in [Node -> Int] : Timed(forked)
  BY DEF StartInv
<1>2. StartType /\ ListsComplete
  BY DEF StartInv
<1>3. UNCHANGED <<time, parent, main, ipPortVt>> /\ file \subseteq file'
  BY DEF WriteIp, WritePort, Listen
<1>4. main[i].at \notin {"none", "forked"}
  BY <1>1, NodeFacts DEF WriteIp, WritePort, Listen, RpcGoto, RpcTimed
<1>5. \A j \in Node \ {i} : rpc'[j] = rpc[j]
  BY <1>2 DEF WriteIp, WritePort, Listen, RpcGoto, StartType
<1>6. /\ WriteIp(i) => rpc[i].at = "ip" /\ rpc'[i].at = "port" /\ rpc'[i].due = time
      /\ WritePort(i) => rpc[i].at = "port" /\ rpc'[i].at = "starting" /\ rpc'[i].due = time
      /\ Listen(i) => rpc[i].at = "starting" /\ rpc'[i].at = "listening"
  BY <1>2 DEF WriteIp, WritePort, Listen, RpcGoto, StartType, At
<1>7. StartType'
  <2>1. rpc' \in [Node -> [at : {"none", "ip", "port", "starting", "listening"}, due : Nat]]
    <3>. DEFINE Labels == {"none", "ip", "port", "starting", "listening"}
    <3>1. \E to \in Labels, d \in Nat : rpc' = [rpc EXCEPT ![i] = [at |-> to, due |-> d]]
      BY <1>2 DEF StartType, WriteIp, WritePort, Listen, RpcGoto, At
    <3>2. rpc \in [Node -> [at : Labels, due : Nat]]
      BY <1>2 DEF StartType
    <3>. QED  BY <3>1, <3>2
  <2>2. file' \subseteq Node \X {"ip", "port"}
    <3>1. <<i, "ip">> \in Node \X {"ip", "port"} /\ <<i, "port">> \in Node \X {"ip", "port"}
      OBVIOUS
    <3>2. file' \subseteq file \cup {<<i, "ip">>, <<i, "port">>}
      BY DEF WriteIp, WritePort, Listen
    <3>. QED  BY <1>2, <3>1, <3>2 DEF StartType
  <2>. QED  BY <1>2, <1>3, <2>1, <2>2 DEF StartType
<1>8. RpcTimed(i, forked)'
  <2>1. RpcTimed(i, forked)
    BY <1>1, NodeFacts
  <2>2. CASE WriteIp(i)
    <3>1. Load(i, "ip")'
      BY <2>2 DEF WriteIp, Load
    <3>2. time <= forked[i] + 2 * Lag
      BY <1>1, <1>6, <2>2, NodeFacts DEF RpcTimed
    <3>. QED  BY <1>3, <1>4, <1>6, <2>2, <3>1, <3>2 DEF RpcTimed
  <2>3. CASE WritePort(i)
    <3>1. Load(i, "ip")' /\ Load(i, "port")'
      BY <1>6, <2>1, <2>3 DEF WritePort, Load, RpcTimed
    <3>. QED  BY <1>3, <1>4, <1>6, <2>3, <3>1 DEF RpcTimed
  <2>4. CASE Listen(i)
    <3>1. Load(i, "ip")' /\ Load(i, "port")'
      BY <1>6, <2>1, <2>4 DEF Listen, Load, RpcTimed
    <3>. QED  BY <1>3, <1>4, <1>6, <2>4, <3>1 DEF RpcTimed
  <2>. QED  BY <2>2, <2>3, <2>4
<1>9. MainTimed(i, forked)'
  BY <1>1, <1>3, NodeFacts DEF MainTimed, Connects, Slept
<1>10. main[i].at \in {"forked", "sleeping", "connected"} => time <= main[i].due + Lag
  BY <1>1, NodeFacts
<1>11. rpc'[i].at \in {"ip", "port", "starting"} => time <= rpc'[i].due + Lag
  BY <1>1, <1>6, NodeFacts
<1>12. main[i].at \in {"connected", "asleep", "running", "candidate"}
         => Len(ipPortVt[i]) = NodeNum /\ \A n \in DOMAIN ipPortVt[i] : ipPortVt[i][n]
  BY <1>2 DEF ListsComplete
<1>. QED  BY <1>1, <1>3, <1>4, <1>5, <1>7, <1>8, <1>9, <1>10, <1>11, <1>12, NodeKeeps

-----------------------------------------------------------------------------
(* Steps of the parent and of the clock *)

\* The parent forks the next node between Second and Second + Lag after the last one.
LEMMA ForkedInTurnKept ==
  ASSUME Clocked, StartInv, NEW forked \in [Node -> Int], Timed(forked), Fork,
         NEW later \in [Node -> Int], later = [forked EXCEPT ![parent.next] = time]
  PROVE  ForkedInTurn(later)'
<1>. DEFINE n == parent.next
<1>1. StartType /\ Punctual /\ ForkedInTurn(forked)
  BY DEF StartInv, Timed
<1>2. n \in Nat /\ n \in Node /\ n < NodeNum /\ NodeNum \in Nat /\ time \in Nat /\ parent.due \in Nat
      /\ parent.due <= time /\ time <= parent.due + Lag /\ Second \in Nat /\ Lag \in Nat
  BY <1>1 DEF Fork, StartType, Clocked, Node, Punctual
<1>3. parent'.next = n + 1 /\ time' = time
      /\ (n + 1 < NodeNum => parent'.due = time + Second)
  BY DEF Fork
<1>4. main'[n].at = "forked" /\ \A i \in Node \ {n} : main'[i] = main[i]
  BY <1>1, <1>2 DEF Fork, At, StartType
<1>5. later[n] = time /\ \A i \in Node \ {n} : later[i] = forked[i]
  BY <1>2
<1>6. \A i \in Node : i \in Nat
  BY DEF Node, Clocked
<1>. HIDE DEF n
<1>7. \A i \in Node : i < n + 1 <=> i < n \/ i = n
  BY <1>2, <1>6
<1>8. \A i \in Node : main'[i].at # "none" <=> i < n + 1
  <2>1. \A i \in Node : main[i].at # "none" <=> i < n
    BY <1>1 DEF ForkedInTurn, n
  <2>. QED  BY <1>4, <1>7, <2>1
<1>9. n + 1 < NodeNum => parent'.due = later[n] + Second
  BY <1>3, <1>5
<1>10. \A i \in Node : i < n + 1 => later[i] <= time
  <2>1. \A i \in Node : i < n => forked[i] <= time
    BY <1>1 DEF ForkedInTurn, n
  <2>. QED  BY <1>2, <1>5, <1>7, <2>1
<1>11. ASSUME NEW i \in Node, i < n
       PROVE  later[i] + (n - i) * Second <= time /\ time <= later[i] + (n - i) * (Second + Lag)
  <2>1. PICK l \in Node : l = n - 1 /\ n = l + 1 /\ i <= l /\ l < n
    <3>1. n - 1 \in Nat /\ n = (n - 1) + 1 /\ i <= n - 1 /\ n - 1 < n /\ n - 1 < NodeNum
      BY <1>2, <1>6, <1>11
    <3>2. n - 1 \in Node
      BY <1>2, <3>1 DEF Node
    <3>. QED  BY <3>1, <3>2
  <2>2. parent.due = forked[l] + Second
    <3>1. 0 < n /\ n - 1 = l
      BY <1>2, <1>6, <1>11, <2>1
    <3>. QED  BY <1>1, <1>2, <3>1 DEF ForkedInTurn, n
  <2>3. /\ forked[i] + (l - i) * Second <= forked[l]
        /\ forked[l] <= forked[i] + (l - i) * (Second + Lag)
    BY <1>1, <2>1 DEF ForkedInTurn, n
  <2>4. l - i \in Int /\ n - i = (l - i) + 1 /\ forked[l] \in Int /\ forked[i] \in Int
    BY <1>6, <2>1
  <2>5. /\ (n - i) * Second = (l - i) * Second + Second
        /\ (n - i) * (Second + Lag) = (l - i) * (Second + Lag) + (Second + Lag)
        /\ (l - i) * Second \in Int /\ (l - i) * (Second + Lag) \in Int
    BY <1>2, <2>4, OneMore
  <2>6. later[i] = forked[i]
    BY <1>5, <1>6, <1>11
  <2>7. later[i] + (n - i) * Second <= time
    BY <1>2, <2>2, <2>3, <2>4, <2>5, <2>6
  <2>8. time <= later[i] + (n - i) * (Second + Lag)
    BY <1>2, <2>2, <2>3, <2>4, <2>5, <2>6
  <2>. QED  BY <2>7, <2>8
<1>12. ASSUME NEW i \in Node, NEW j \in Node, i <= j, j < n + 1
       PROVE  /\ later[i] + (j - i) * Second <= later[j]
              /\ later[j] <= later[i] + (j - i) * (Second + Lag)
  <2>1. CASE j < n
    <3>1. i \in Nat /\ j \in Nat /\ i # n /\ j # n
      BY <1>2, <1>6, <1>12, <2>1
    <3>. QED  BY <1>1, <1>5, <1>12, <2>1, <3>1 DEF ForkedInTurn, n
  <2>2. CASE j = n /\ i < n
    BY <1>5, <1>11, <2>2
  <2>3. CASE j = n /\ i = n
    <3>1. j - i = 0 /\ 0 * Second = 0 /\ 0 * (Second + Lag) = 0
      BY <1>2, <2>3
    <3>. QED  BY <1>2, <1>5, <2>3, <3>1
  <2>. QED  BY <1>2, <1>6, <1>7, <1>12, <2>1, <2>2, <2>3
<1>13. (n + 1) - 1 = n
  BY <1>2
<1>. QED  BY <1>3, <1>8, <1>9, <1>10, <1>12, <1>13 DEF ForkedInTurn

\* A node that is forked starts with nothing, and no other is concerned.
LEMMA ForkInv == ASSUME Clocked, StartInv, Fork PROVE StartInv'
<1>1. PICK forked \in [Node -> Int] : Timed(forked)
  BY DEF StartInv
<1>. DEFINE n == parent.next
<1>2. StartType /\ Punctual /\ ListsComplete
  BY DEF StartInv
<1>3. n \in Node /\ parent \in [next : 0 .. NodeNum, due : Nat] /\ time \in Nat /\ Second \in Nat
      /\ NodeNum \in Nat /\ Lag \in Nat
  BY <1>2 DEF Fork, StartType, Clocked, Node
<1>4. PICK later \in [Node -> Int] : later = [forked EXCEPT ![n] = time]
  <2>1. [forked EXCEPT ![n] = time] \in [Node -> Int]
    BY <1>3
  <2>. QED  BY <2>1
<1>5. ForkedInTurn(later)'
  BY <1>1, <1>4, ForkedInTurnKept
<1>6. UNCHANGED <<time, rpc, file, ipPortVt>>
  BY DEF Fork
<1>7. main'[n].at = "forked" /\ main'[n].due = time /\ \A i \in Node \ {n} : main'[i] = main[i]
  BY <1>2, <1>3 DEF Fork, At, StartType
<1>8. parent'.next = n + 1 /\ parent' \in [next : 0 .. NodeNum, due : Nat]
      /\ (n + 1 < NodeNum => parent'.due = time + Second)
  <2>1. n + 1 \in 0 .. NodeNum /\ time + Second \in Nat
    BY <1>3 DEF Node
  <2>. QED  BY <2>1 DEF Fork
<1>9. StartType'
  <2>1. main' \in [Node -> [at : {"none", "forked", "sleeping", "connected", "asleep", "running",
                                  "candidate"},
                            due : Nat]]
    BY <1>2, <1>3 DEF Fork, At, StartType
  <2>. QED  BY <1>2, <1>6, <1>8, <2>1 DEF StartType
<1>10. Punctual'
  <2>1. parent'.next < NodeNum => time' <= parent'.due + Lag
    BY <1>3, <1>6, <1>8
  <2>2. ASSUME NEW i \in Node
        PROVE  /\ main'[i].at \in {"forked", "sleeping", "connected"} => time' <= main'[i].due + Lag
               /\ rpc'[i].at \in {"ip", "port", "starting"} => time' <= rpc'[i].due + Lag
    <3>1. CASE i = n
      BY <1>2, <1>3, <1>6, <1>7, <3>1 DEF Punctual
    <3>2. CASE i # n
      BY <1>2, <1>6, <1>7, <3>2 DEF Punctual
    <3>. QED  BY <3>1, <3>2
  <2>. QED  BY <2>1, <2>2 DEF Punctual
<1>11. ListsComplete'
  BY <1>2, <1>3, <1>6, <1>7 DEF ListsComplete
<1>12. ASSUME NEW i \in Node PROVE RpcTimed(i, later)' /\ MainTimed(i, later)'
  <2>1. CASE i = n
    <3>1. later[n] = time
      BY <1>3, <1>4
    <3>2. main[n].at = "none" /\ rpc[n].at = "none"
      <4>1. ~(n < parent.next) /\ n \in Node
        BY <1>3 DEF Node
      <4>2. main[n].at = "none"
        BY <1>1, <4>1 DEF Timed, ForkedInTurn
      <4>. QED  BY <1>1, <4>1, <4>2 DEF Timed, RpcTimed
    <3>. QED  BY <1>6, <1>7, <2>1, <3>1, <3>2 DEF RpcTimed, MainTimed
  <2>2. CASE i # n
    <3>1. later[i] = forked[i]
      BY <1>3, <1>4, <2>2
    <3>2. RpcTimed(i, forked) /\ MainTimed(i, forked)
      BY <1>1 DEF Timed
    <3>3. Slept(i, later) = Slept(i, forked) /\ Connects(i, later) = Connects(i, forked)
      BY <3>1 DEF Slept, Connects
    <3>4. main'[i] = main[i] /\ rpc'[i] = rpc[i] /\ time' = time /\ file' = file
      BY <1>6, <1>7, <2>2
    <3>. QED  BY <3>1, <3>2, <3>3, <3>4 DEF RpcTimed, MainTimed, Load
  <2>. QED  BY <2>1, <2>2
<1>. QED  BY <1>5, <1>9, <1>10, <1>11, <1>12 DEF StartInv, Timed

\* Time never passes what is late already.
LEMMA TickInv == ASSUME Clocked, StartInv, Tick PROVE StartInv'
<1>1. PICK forked \in [Node -> Int] : Timed(forked)
  BY DEF StartInv
<1>2. StartType /\ Punctual /\ ListsComplete
  BY DEF StartInv
<1>3. UNCHANGED <<parent, rpc, main, file, ipPortVt>>
  BY DEF Tick
<1>. DEFINE next == {d \in Awaited \cup Timers : d > time}
<1>4. time \in Nat /\ Lag \in Nat
  BY <1>2 DEF StartType, Clocked
<1>5. Awaited \cup Timers \subseteq Nat
  BY <1>2 DEF Awaited, Timers, StartType
<1>6. next # {} /\ next \subseteq Nat
  BY <1>5 DEF Tick
<1>7. Min(next) \in next /\ \A d \in next : Min(next) <= d
  BY <1>6, MinLeast
<1>8. time' = IF \E d \in Awaited : d <= time THEN time + 1 ELSE Min(next)
  BY DEF Tick
<1>9. time' \in Nat /\ time <= time'
  BY <1>4, <1>6, <1>7, <1>8
<1>10. ASSUME NEW d \in Awaited PROVE time' <= d + Lag
  <2>1. time < d + Lag /\ d \in Nat
    BY <1>5 DEF Tick
  <2>2. CASE \E e \in Awaited : e <= time
    BY <1>4, <1>8, <2>1, <2>2
  <2>3. CASE ~\E e \in Awaited : e <= time
    <3>1. d \in next
      BY <1>4, <2>1, <2>3
    <3>2. time' <= d /\ time' \in Nat
      BY <1>7, <1>8, <1>9, <2>3, <3>1
    <3>. QED  BY <1>4, <2>1, <3>2
  <2>. QED  BY <2>2, <2>3
<1>. HIDE DEF next
<1>11. Punctual'
  <2>1. parent.next < NodeNum => parent.due \in Awaited
    BY DEF Awaited
  <2>2. ASSUME NEW i \in Node
        PROVE  /\ main[i].at \in {"forked", "sleeping", "connected"} => main[i].due \in Awaited
               /\ rpc[i].at \in {"ip", "port", "starting"} => rpc[i].due \in Awaited
    BY DEF Awaited
  <2>. QED  BY <1>3, <1>10, <2>1, <2>2 DEF Punctual
<1>12. StartType'
  BY <1>2, <1>3, <1>9 DEF StartType
<1>13. ListsComplete'
  BY <1>2, <1>3 DEF ListsComplete
<1>14. ForkedInTurn(forked)'
  <2>1. ForkedInTurn(forked) /\ \A i \in Node : forked[i] \in Int
    BY <1>1 DEF Timed
  <2>2. \A i \in Node : i < parent.next => forked[i] <= time'
    BY <1>4, <1>9, <2>1 DEF ForkedInTurn
  <2>. QED  BY <1>3, <2>1, <2>2 DEF ForkedInTurn
<1>15. ASSUME NEW i \in Node PROVE RpcTimed(i, forked)' /\ MainTimed(i, forked)'
  <2>1. RpcTimed(i, forked) /\ MainTimed(i, forked)
    BY <1>1 DEF Timed
  <2>2. main[i].at = "candidate" => Connects(i, forked) + MinElection <= time'
    BY <1>1, <1>4, <1>9, <2>1, NodeFacts DEF MainTimed
  <2>. QED  BY <1>3, <2>1, <2>2 DEF RpcTimed, MainTimed, Load, Connects, Slept
<1>. QED  BY <1>11, <1>12, <1>13, <1>14, <1>15 DEF StartInv, Timed

-----------------------------------------------------------------------------
(* The theorems *)

\* At first nobody has been forked.
LEMMA StartInitInv == ASSUME Clocked, StartInit PROVE StartInv
<1>1. PICK forked \in [Node -> Int] : forked = [i \in Node |-> 0]
  <2>1. [i \in Node |-> 0] \in [Node -> Int]
    OBVIOUS
  <2>. QED  BY <2>1
<1>2. parent.next = 0 /\ parent.due = 0 /\ time = 0
      /\ \A i \in Node : i \in Nat /\ main[i].at = "none" /\ rpc[i].at = "none"
  BY DEF StartInit, At, Node, Clocked
<1>3. StartType
  <2>1. <<>> \in Seq(BOOLEAN)
    OBVIOUS
  <2>. QED  BY <2>1 DEF StartInit, StartType, At, Clocked
<1>4. Punctual
  BY <1>2 DEF Punctual, Clocked
<1>5. ListsComplete
  BY <1>2 DEF ListsComplete
<1>6. ForkedInTurn(forked)
  <2>1. \A i \in Node : ~(i < parent.next)
    BY <1>2
  <2>. QED  BY <1>2, <2>1 DEF ForkedInTurn
<1>7. ASSUME NEW i \in Node PROVE RpcTimed(i, forked) /\ MainTimed(i, forked)
  BY <1>2 DEF RpcTimed, MainTimed
<1>. QED  BY <1>3, <1>4, <1>5, <1>6, <1>7 DEF StartInv, Timed

\* Every step keeps the invariant.
LEMMA StartStepInv ==
  ASSUME Clocked, EnoughSleep, StartInv, [StartNext]_startVars PROVE StartInv'
<1>1. CASE Fork
  BY <1>1, ForkInv
<1>2. CASE Tick
  BY <1>2, TickInv
<1>3. ASSUME NEW i \in Node, Construct(i) PROVE StartInv'
  BY <1>3, ConstructInv
<1>4. ASSUME NEW i \in Node, ReadFile(i) PROVE StartInv'
  BY <1>4, ReadFileInv
<1>5. ASSUME NEW i \in Node, InitRaft(i) PROVE StartInv'
  BY <1>5, InitRaftInv
<1>6. ASSUME NEW i \in Node, DoElection(i) PROVE StartInv'
  BY <1>6, DoElectionInv
<1>7. ASSUME NEW i \in Node, WriteIp(i) \/ WritePort(i) \/ Listen(i) PROVE StartInv'
  BY <1>7, RpcGotoInv
<1>8. CASE UNCHANGED startVars
  <2>1. PICK forked \in [Node -> Int] : Timed(forked)
    BY DEF StartInv
  <2>2. UNCHANGED <<time, parent, rpc, main, file, ipPortVt>>
    BY <1>8 DEF startVars
  <2>3. Timed(forked)'
    BY <2>1, <2>2 DEF Timed, ForkedInTurn, RpcTimed, MainTimed, Load, Connects, Slept
  <2>. QED  BY <2>2, <2>3 DEF StartInv, StartType, Punctual, ListsComplete
<1>. QED  BY <1>1, <1>2, <1>3, <1>4, <1>5, <1>6, <1>7, <1>8 DEF StartNext

\* kvServer.cpp:103: "wait all other raft nodes start".  If sleep(6) is long enough, every
\* node that has waited knows all others, with their ports.
THEOREM ListsCompleteHolds ==
  ASSUME Clocked, EnoughSleep PROVE StartSpec => []ListsComplete
<1>1. StartInit => StartInv
  BY StartInitInv
<1>2. StartInv /\ [StartNext]_startVars => StartInv'
  BY StartStepInv
<1>3. StartInv => ListsComplete
  BY DEF StartInv
<1>. QED  BY <1>1, <1>2, <1>3, PTL DEF StartSpec

\* A node whose timer has run out is past every other's Raft::init: the delays that could
\* make the other one late do not add up to the shortest timer.
LEMMA NobodyBehind ==
  ASSUME Clocked, EnoughElection, StartInv PROVE NotCalledEarly
<1>. SUFFICES ASSUME NEW i \in Node, NEW j \in Node,
                     main[i].at = "candidate", rpc[j].at = "listening",
                     main[j].at \notin {"running", "candidate"}
              PROVE  FALSE
  BY DEF NotCalledEarly
<1>1. PICK forked \in [Node -> Int] : Timed(forked)
  BY DEF StartInv
<1>2. ForkedInTurn(forked) /\ StartType
  BY <1>1 DEF Timed, StartInv
<1>3. Connects(i, forked) + MinElection <= time
  BY <1>1, NodeFacts DEF MainTimed
<1>4. main[j].at \in {"sleeping", "connected"} /\ i < parent.next /\ j < parent.next
  BY <1>1, <1>2, NodeFacts DEF RpcTimed, MainTimed, StartType
<1>5. time <= Connects(j, forked) + 3 * Lag
  <2>1. CASE main[j].at = "sleeping"
    BY <1>1, <2>1, NodeFacts DEF MainTimed
  <2>2. CASE main[j].at = "connected"
    BY <1>1, <2>2, NodeFacts DEF MainTimed
  <2>. QED  BY <1>4, <2>1, <2>2
<1>6. /\ i \in Nat /\ j \in Nat /\ NodeNum \in Nat /\ i < NodeNum /\ j < NodeNum
      /\ Second \in Nat /\ Lag \in Nat /\ MinElection \in Nat /\ time \in Nat
      /\ forked[i] \in Int /\ forked[j] \in Int
  BY DEF Node, Clocked, StartInv, StartType
<1>7. /\ Connects(i, forked) = forked[i] + 6 * Second + (NodeNum - i) * Second
      /\ Connects(j, forked) = forked[j] + 6 * Second + (NodeNum - j) * Second
      /\ (NodeNum - i) * Second \in Int /\ (NodeNum - j) * Second \in Int
  BY <1>6 DEF Connects, Slept
<1>8. (NodeNum + 2) * Lag = (NodeNum - 1) * Lag + 3 * Lag
  BY <1>6
<1>9. CASE i <= j
  <2>1. forked[j] <= forked[i] + (j - i) * (Second + Lag)
    BY <1>2, <1>4, <1>9 DEF ForkedInTurn
  <2>2. j - i \in Nat /\ NodeNum - 1 \in Nat /\ j - i <= NodeNum - 1
    BY <1>6, <1>9, Apart
  <2>3. (j - i) * Lag <= (NodeNum - 1) * Lag /\ (j - i) * Lag \in Int /\ (NodeNum - 1) * Lag \in Int
    BY <1>6, <2>2, TimesGrows
  <2>4. (j - i) * (Second + Lag) = (j - i) * Second + (j - i) * Lag
        /\ (j - i) * Second \in Int
    BY <1>6, <2>2
  <2>5. (NodeNum - i) * Second = (NodeNum - j) * Second + (j - i) * Second
    BY <1>6
  <2>6. MinElection <= (j - i) * Lag + 3 * Lag
    BY <1>3, <1>5, <1>6, <1>7, <2>1, <2>3, <2>4, <2>5
  <2>. QED  BY <1>6, <1>8, <2>3, <2>6 DEF EnoughElection
<1>10. CASE j <= i
  <2>1. forked[j] + (i - j) * Second <= forked[i]
    BY <1>2, <1>4, <1>10 DEF ForkedInTurn
  <2>2. (NodeNum - j) * Second = (NodeNum - i) * Second + (i - j) * Second
        /\ (i - j) * Second \in Int
    BY <1>6
  <2>3. MinElection <= 3 * Lag
    BY <1>3, <1>5, <1>6, <1>7, <2>1, <2>2
  <2>4. (NodeNum - 1) * Lag \in Nat
    BY <1>6
  <2>. QED  BY <1>6, <1>8, <2>3, <2>4 DEF EnoughElection
<1>. QED  BY <1>6, <1>9, <1>10

\* Raft::init sets m_persister: no vote is requested of a node before it has run.
THEOREM NotCalledEarlyHolds ==
  ASSUME Clocked, EnoughSleep, EnoughElection PROVE StartSpec => []NotCalledEarly
<1>1. StartInit => StartInv
  BY StartInitInv
<1>2. StartInv /\ [StartNext]_startVars => StartInv'
  BY StartStepInv
<1>3. StartInv => NotCalledEarly
  BY NobodyBehind
<1>. QED  BY <1>1, <1>2, <1>3, PTL DEF StartSpec

-----------------------------------------------------------------------------
(* RaftLogLoops: the loops of AppendEntries1 compute what RaftLog says.  A recursive   *)
(* function is known by a solution of its equation, and two solutions are the same at *)
(* the least number where they could differ.                                          *)

\* A sequence of entries numbered from the index after `first'.
Entries == [index : Int, term : Nat, command : Commands]
IsNumbered(s, first) ==
  /\ s \in Seq(Entries) /\ s \in [1 .. Len(s) -> Entries] /\ Len(s) \in Nat
  /\ \A k \in 1 .. Len(s) : s[k].index = first + k

LoopInv ==
  /\ snap \in Nat /\ prev \in Int
  /\ IsNumbered(log, snap) /\ IsNumbered(suffix, prev)
  /\ IF prev >= 0 THEN prev \in snap .. snap + Len(log) ELSE suffix = <<>>

\* A function on 1 .. n is a sequence.
LEMMA FunctionIsSeq ==
  ASSUME NEW S, NEW n \in Nat, NEW q \in [1 .. n -> S]
  PROVE  q \in Seq(S)
OBVIOUS

\* The picked sequences are numbered.
LEMMA NumberedIs ==
  ASSUME NEW first \in Int, NEW s \in Numbered(first)
  PROVE  IsNumbered(s, first)
<1>. DEFINE Of(n) == {[k \in 1 .. n |-> [index |-> first + k, term |-> tc[k][1], command |-> tc[k][2]]] :
            tc \in [1 .. n -> (1 .. MaxTerm) \X Commands]}
<1>1. Numbered(first) = UNION {Of(n) : n \in 0 .. MaxLen}
  BY Zenon DEF Numbered
<1>. HIDE DEF Of
<1>2. PICK n \in 0 .. MaxLen : s \in Of(n)
  BY <1>1
<1>3. \E tc \in [1 .. n -> (1 .. MaxTerm) \X Commands] :
        s = [k \in 1 .. n |-> [index |-> first + k, term |-> tc[k][1], command |-> tc[k][2]]]
  BY <1>2, Zenon DEF Of
<1>4. PICK tc \in [1 .. n -> (1 .. MaxTerm) \X Commands] :
        s = [k \in 1 .. n |-> [index |-> first + k, term |-> tc[k][1], command |-> tc[k][2]]]
  BY <1>3
<1>5. n \in Nat /\ Len(s) = n
  BY <1>4, <1>2, LoopAssumption
<1>6. \A k \in 1 .. n : tc[k][1] \in Nat /\ tc[k][2] \in Commands /\ first + k \in Int
  BY <1>5, LoopAssumption
<1>7. \A k \in 1 .. n : s[k] = [index |-> first + k, term |-> tc[k][1], command |-> tc[k][2]]
  BY <1>4
<1>8. s \in [1 .. n -> Entries]
  BY <1>4, <1>6, <1>7 DEF Entries
<1>9. s \in Seq(Entries)
  BY <1>5, <1>8, FunctionIsSeq
<1>. QED  BY <1>5, <1>7, <1>8, <1>9 DEF IsNumbered

\* The empty sequence is numbered from anywhere.
LEMMA EmptyNumbered == ASSUME NEW first \in Int PROVE IsNumbered(<<>>, first)
<1>1. <<>> \in Seq(Entries) /\ Len(<<>>) = 0
  OBVIOUS
<1>2. <<>> \in [1 .. 0 -> Entries]
  BY <1>1, LenProperties
<1>. QED  BY <1>1, <1>2 DEF IsNumbered

\* The last index of a numbered sequence is its length past the first.
LEMMA LastIndexIs ==
  ASSUME NEW first \in Int, NEW s, IsNumbered(s, first)
  PROVE  LastLogIndex(s, first) = first + Len(s)
  BY DEF IsNumbered, LastLogIndex

\* The log and the suffix are numbered, and prev is an index of the log or its snapshot's.
LEMMA LoopInvHolds == InputsSpec => []LoopInv
<1>1. InputsInit => LoopInv
  BY EmptyNumbered, LoopAssumption DEF InputsInit, LoopInv
<1>2. LoopInv /\ [InputsNext]_inputs => LoopInv'
  <2>. SUFFICES ASSUME LoopInv, [InputsNext]_inputs PROVE LoopInv'
    OBVIOUS
  <2>1. CASE PickLog
    <3>1. IsNumbered(log', snap)
      BY <2>1, NumberedIs DEF PickLog, LoopInv
    <3>2. prev' \in snap .. snap + Len(log') /\ Len(log') \in Nat
      BY <2>1, <3>1, LastIndexIs DEF PickLog, LoopInv, IsNumbered
    <3>3. suffix = <<>>
      BY <2>1 DEF PickLog, LoopInv
    <3>. QED  BY <2>1, <3>1, <3>2, EmptyNumbered DEF PickLog, LoopInv, IsNumbered
  <2>2. CASE PickSuffix
    BY <2>2, NumberedIs DEF PickSuffix, LoopInv
  <2>3. CASE UNCHANGED inputs
    BY <2>3 DEF inputs, LoopInv
  <2>. QED  BY <2>1, <2>2, <2>3 DEF InputsNext
<1>. QED  BY <1>1, <1>2, PTL DEF InputsSpec

-----------------------------------------------------------------------------
(* The merge *)

\* Entry j of the suffix fails the assertion, and the log with the first i entries in.
Conflict(j) ==
  LET k == prev + j - snap
  IN k <= Len(log) /\ log[k].term = suffix[j].term /\ log[k].command # suffix[j].command
Longer(i) == IF prev + i - snap > Len(log) THEN prev + i - snap ELSE Len(log)
Merged(i) ==
  [k \in 1 .. Longer(i) |->
     IF /\ snap + k - prev \in 1 .. i
        /\ k > Len(log) \/ log[k].term # suffix[snap + k - prev].term
     THEN suffix[snap + k - prev]
     ELSE log[k]]

\* It is numbered as the log is.
LEMMA MergedNumbered ==
  ASSUME LoopInv, prev >= 0, NEW i \in 0 .. Len(suffix)
  PROVE  IsNumbered(Merged(i), snap) /\ Len(Merged(i)) = Longer(i) /\ Longer(i) \in Nat
<1>1. Longer(i) \in Nat /\ Longer(i) >= Len(log)
  BY DEF LoopInv, IsNumbered, Longer
<1>2. ASSUME NEW k \in 1 .. Longer(i)
      PROVE  Merged(i)[k] \in Entries /\ Merged(i)[k].index = snap + k
  <2>1. k \in 1 .. Len(log) => log[k] \in Entries /\ log[k].index = snap + k
    BY DEF LoopInv, IsNumbered
  <2>2. snap + k - prev \in 1 .. Len(suffix)
          => suffix[snap + k - prev] \in Entries /\ suffix[snap + k - prev].index = snap + k
    BY <1>1 DEF LoopInv, IsNumbered
  <2>3. k \in 1 .. Len(log) \/ (k > Len(log) /\ snap + k - prev \in 1 .. i)
    BY <1>1 DEF LoopInv, IsNumbered, Longer
  <2>4. snap + k - prev \in 1 .. i => snap + k - prev \in 1 .. Len(suffix)
    BY <1>1 DEF LoopInv, IsNumbered
  <2>5. \/ Merged(i)[k] = log[k] /\ k \in 1 .. Len(log)
        \/ Merged(i)[k] = suffix[snap + k - prev] /\ snap + k - prev \in 1 .. i
    <3>1. Merged(i)[k] = IF /\ snap + k - prev \in 1 .. i
                            /\ k > Len(log) \/ log[k].term # suffix[snap + k - prev].term
                         THEN suffix[snap + k - prev] ELSE log[k]
      BY DEF Merged
    <3>. QED  BY <2>3, <3>1 DEF LoopInv, IsNumbered
  <2>. QED  BY <2>1, <2>2, <2>4, <2>5
<1>3. Merged(i) \in [1 .. Longer(i) -> Entries]
  <2>1. Merged(i) = [k \in 1 .. Longer(i) |-> Merged(i)[k]]
    BY DEF Merged
  <2>. QED  BY <1>2, <2>1
<1>4. Merged(i) \in Seq(Entries) /\ Len(Merged(i)) = Longer(i)
  BY <1>1, <1>3, FunctionIsSeq
<1>. QED  BY <1>1, <1>2, <1>3, <1>4 DEF IsNumbered

\* A turn that fails keeps the log.
LEMMA FailedUpdated ==
  ASSUME NEW m, NEW f, NEW st, st = [log |-> m, failed |-> f]
  PROVE  [st EXCEPT !.failed = TRUE] = [log |-> m, failed |-> TRUE]
<1>1. PICK t : t = TRUE
  OBVIOUS
<1>2. [st EXCEPT !.failed = t] = [log |-> m, failed |-> t]
  OBVIOUS
<1>3. [log |-> m, failed |-> t] = [log |-> m, failed |-> TRUE]
  BY <1>1
<1>4. [st EXCEPT !.failed = TRUE] = [st EXCEPT !.failed = t]
  BY <1>1
<1>. QED  BY <1>2, <1>3, <1>4

\* One turn brings in one more entry, or fails on it.
LEMMA MergeTurn ==
  ASSUME LoopInv, prev >= 0, NEW i \in 1 .. Len(suffix)
  PROVE  Turn([log |-> Merged(i - 1), failed |-> FALSE], suffix[i])
           = IF Conflict(i) THEN [log |-> Merged(i - 1), failed |-> TRUE]
             ELSE [log |-> Merged(i), failed |-> FALSE]
<1>1. /\ snap \in Nat /\ prev \in Nat /\ Len(log) \in Nat /\ i \in Nat /\ i >= 1
      /\ snap <= prev /\ prev <= snap + Len(log)
      /\ i - 1 \in 0 .. Len(suffix) /\ i \in 0 .. Len(suffix)
  BY DEF LoopInv, IsNumbered
<1>2. PICK m : m = Merged(i - 1)
  OBVIOUS
<1>3. PICK e \in Entries : e = suffix[i] /\ e.index = prev + i
  BY DEF LoopInv, IsNumbered
<1>4. PICK pos \in Int : pos = prev + i - snap
  BY <1>1
<1>5. IsNumbered(m, snap) /\ Len(m) = Longer(i - 1) /\ LastLogIndex(m, snap) = snap + Longer(i - 1)
  <2>1. IsNumbered(m, snap) /\ Len(m) = Longer(i - 1)
    BY <1>1, <1>2, MergedNumbered
  <2>. QED  BY <1>1, <2>1, LastIndexIs
<1>6. IsNumbered(Merged(i), snap) /\ Len(Merged(i)) = Longer(i)
  BY <1>1, MergedNumbered
<1>7. \A k \in Int : /\ snap + k - prev \in 1 .. i <=> snap + k - prev \in 1 .. i - 1 \/ k = pos
                     /\ k = pos => snap + k - prev = i
  BY <1>1, <1>4
<1>8. Turn([log |-> m, failed |-> FALSE], e) =
        IF prev + i > snap + Longer(i - 1) THEN [log |-> Append(m, e), failed |-> FALSE]
        ELSE IF m[pos].term = e.term /\ m[pos].command # e.command
        THEN [log |-> m, failed |-> TRUE]
        ELSE IF m[pos].term # e.term THEN [log |-> [m EXCEPT ![pos] = e], failed |-> FALSE]
        ELSE [log |-> m, failed |-> FALSE]
  <2>1. PICK state, f : state = [log |-> m, failed |-> f] /\ f = FALSE
    OBVIOUS
  <2>2. state.log = m /\ ~state.failed
    BY <2>1
  <2>3. /\ \A x : [state EXCEPT !.log = x] = [log |-> x, failed |-> FALSE]
        /\ [state EXCEPT !.failed = TRUE] = [log |-> m, failed |-> TRUE]
    <3>1. ASSUME NEW x PROVE [state EXCEPT !.log = x] = [log |-> x, failed |-> FALSE]
      <4>1. state = [log |-> m, failed |-> f]
        BY <2>1
      <4>2. [state EXCEPT !.log = x] = [log |-> x, failed |-> f]
        BY <4>1
      <4>3. [log |-> x, failed |-> f] = [log |-> x, failed |-> FALSE]
        BY <2>1
      <4>. QED  BY <4>2, <4>3
    <3>2. [state EXCEPT !.failed = TRUE] = [log |-> m, failed |-> TRUE]
      BY <2>1, FailedUpdated
    <3>. QED  BY <3>1, <3>2
  <2>4. [state EXCEPT !.log = Append(@, e)] = [log |-> Append(m, e), failed |-> FALSE]
    BY <2>2, <2>3, Zenon
  <2>5. [state EXCEPT !.log[pos] = e] = [log |-> [m EXCEPT ![pos] = e], failed |-> FALSE]
    <3>1. [state EXCEPT !.log[pos] = e] = [state EXCEPT !.log = [m EXCEPT ![pos] = e]]
      BY <2>2
    <3>. QED  BY <2>3, <3>1, Zenon
  <2>6. e.index - snap = pos
    BY <1>1, <1>3, <1>4
  <2>7. Turn(state, e) =
          IF state.failed THEN state
          ELSE IF e.index > LastLogIndex(state.log, snap)
          THEN [state EXCEPT !.log = Append(@, e)]
          ELSE IF state.log[pos].term = e.term /\ state.log[pos].command # e.command
          THEN [state EXCEPT !.failed = TRUE]
          ELSE IF state.log[pos].term # e.term
          THEN [state EXCEPT !.log[pos] = e]
          ELSE state
    BY <2>6 DEF Turn
  <2>8. /\ e.index > LastLogIndex(state.log, snap) <=> prev + i > snap + Longer(i - 1)
        /\ state.log[pos] = m[pos]
    BY <1>3, <1>5, <2>2
  <2>. QED  BY <2>1, <2>2, <2>7, <2>8, <2>3, <2>4, <2>5, Zenon
<1>9. CASE pos > Len(log)
  <2>1. Longer(i) = pos /\ Longer(i - 1) = pos - 1
    BY <1>1, <1>4, <1>9 DEF Longer
  <2>2. ~Conflict(i) /\ prev + i > snap + Longer(i - 1)
    BY <1>1, <1>4, <1>9, <2>1 DEF Conflict
  <2>3. Append(m, e) = Merged(i)
    <3>1. Append(m, e) \in Seq(Entries) /\ Len(Append(m, e)) = pos
      BY <1>3, <1>5, <2>1, <1>4 DEF IsNumbered
    <3>2. ASSUME NEW k \in 1 .. pos PROVE Append(m, e)[k] = Merged(i)[k]
      <4>1. CASE k = pos
        <5>1. Append(m, e)[k] = e
          <6>1. m \in Seq(Entries) /\ k = Len(m) + 1
            BY <1>4, <1>5, <2>1, <4>1 DEF IsNumbered
          <6>. QED  BY <1>3, <6>1
        <5>2. Merged(i)[k] = suffix[i]
          BY <1>1, <1>4, <1>7, <1>9, <2>1, <4>1 DEF Merged
        <5>. QED  BY <1>3, <5>1, <5>2
      <4>2. CASE k # pos
        <5>1. Append(m, e)[k] = m[k] /\ k \in 1 .. pos - 1
          BY <1>3, <1>5, <2>1, <4>2 DEF IsNumbered
        <5>2. Merged(i)[k] = m[k]
          BY <1>2, <1>7, <2>1, <4>2, <5>1 DEF Merged
        <5>. QED  BY <5>1, <5>2
      <4>. QED  BY <4>1, <4>2
    <3>. QED  BY <1>6, <2>1, <3>1, <3>2, SeqEqual DEF IsNumbered
  <2>. QED  BY <1>2, <1>3, <1>8, <2>2, <2>3
<1>10. CASE pos <= Len(log)
  <2>1. /\ Longer(i) = Len(log) /\ Longer(i - 1) = Len(log) /\ pos \in 1 .. Len(log)
        /\ ~(prev + i > snap + Longer(i - 1))
    BY <1>1, <1>4, <1>10 DEF Longer
  <2>2. m[pos] = log[pos]
    BY <1>1, <1>2, <1>4, <2>1 DEF Merged
  <2>3. Conflict(i) <=> m[pos].term = e.term /\ m[pos].command # e.command
    BY <1>3, <1>4, <1>10, <2>2 DEF Conflict
  <2>4. ASSUME NEW k \in 1 .. Len(log), k # pos PROVE Merged(i)[k] = m[k]
    BY <1>2, <1>7, <2>1, <2>4 DEF Merged
  <2>5. Merged(i)[pos] = IF log[pos].term # e.term THEN e ELSE log[pos]
    BY <1>1, <1>3, <1>4, <1>7, <2>1 DEF Merged
  <2>6. /\ m \in [1 .. Len(log) -> Entries]
        /\ Merged(i) \in [1 .. Len(log) -> Entries]
    BY <1>5, <1>6, <2>1 DEF IsNumbered
  <2>7. m[pos].term # e.term => [m EXCEPT ![pos] = e] = Merged(i)
    BY <2>1, <2>2, <2>4, <2>5, <2>6
  <2>8. m[pos].term = e.term => m = Merged(i)
    BY <2>1, <2>2, <2>4, <2>5, <2>6
  <2>. HIDE DEF Merged
  <2>. QED  BY <1>2, <1>3, <1>8, <2>1, <2>3, <2>7, <2>8
<1>. QED  BY <1>1, <1>4, <1>9, <1>10

\* The first entry that fails the assertion, if there is one: the number of entries
\* after which no turn follows.
LEMMA StopExists ==
  ASSUME LoopInv
  PROVE  \E stop \in 1 .. Len(suffix) + 1 :
            /\ \A j \in 1 .. stop - 1 : ~Conflict(j)
            /\ stop <= Len(suffix) => Conflict(stop)
<1>. DEFINE S == {j \in 1 .. Len(suffix) : Conflict(j)}
<1>1. Len(suffix) \in Nat /\ S \in SUBSET Nat
  BY DEF LoopInv, IsNumbered
<1>2. CASE S = {}
  <2>1. \A j \in 1 .. Len(suffix) : ~Conflict(j)
    BY <1>2
  <2>2. Len(suffix) + 1 \in 1 .. Len(suffix) + 1 /\ Len(suffix) + 1 - 1 = Len(suffix)
        /\ ~(Len(suffix) + 1 <= Len(suffix))
    BY <1>1
  <2>. QED  BY <2>1, <2>2
<1>3. CASE S # {}
  <2>1. PICK m \in S : \A n \in S : m <= n
    BY <1>1, <1>3, MinLeast
  <2>2. \A j \in 1 .. m - 1 : j \in 1 .. Len(suffix) /\ ~(m <= j)
    BY <1>1, <2>1
  <2>3. m \in 1 .. Len(suffix) + 1 /\ Conflict(m)
    BY <1>1, <2>1
  <2>4. \A j \in 1 .. m - 1 : ~Conflict(j)
    BY <2>1, <2>2
  <2>. QED  BY <2>3, <2>4
<1>. QED  BY <1>2, <1>3

\* The state after i entries, and the equation of the loop.
LoopState(stop, i) ==
  IF i < stop THEN [log |-> Merged(i), failed |-> FALSE]
  ELSE [log |-> Merged(stop - 1), failed |-> TRUE]
Loop(f) ==
  [i \in 0 .. Len(suffix) |->
     IF i = 0 THEN [log |-> log, failed |-> FALSE] ELSE Turn(f[i - 1], suffix[i])]

\* The states solve the equation.
LEMMA LoopSolved ==
  ASSUME LoopInv, prev >= 0, NEW stop \in 1 .. Len(suffix) + 1,
         \A j \in 1 .. stop - 1 : ~Conflict(j), stop <= Len(suffix) => Conflict(stop),
         NEW i \in 0 .. Len(suffix)
  PROVE  LoopState(stop, i) = IF i = 0 THEN [log |-> log, failed |-> FALSE]
                              ELSE Turn(LoopState(stop, i - 1), suffix[i])
<1>1. Len(suffix) \in Nat /\ stop \in Nat /\ i \in Nat /\ stop >= 1
  BY DEF LoopInv, IsNumbered
<1>2. CASE i = 0
  <2>1. Merged(0) = log
    <3>1. Longer(0) = Len(log) /\ Len(log) \in Nat
      <4>1. Len(log) \in Nat /\ prev \in Int /\ snap \in Int /\ prev <= snap + Len(log)
        BY DEF LoopInv, IsNumbered
      <4>2. ~(prev + 0 - snap > Len(log))
        BY <4>1
      <4>. QED  BY <4>1, <4>2, Zenon DEF Longer
    <3>2. \A k \in Int : ~(snap + k - prev \in 1 .. 0)
      BY DEF LoopInv
    <3>3. Merged(0) = [k \in 1 .. Len(log) |-> log[k]]
      BY <3>1, <3>2 DEF Merged
    <3>. QED  BY <3>3 DEF LoopInv, IsNumbered
  <2>2. i < stop
    BY <1>1, <1>2
  <2>. QED  BY <1>2, <2>1, <2>2, Zenon DEF LoopState
<1>3. CASE i # 0 /\ i <= stop
  <2>1. i \in 1 .. Len(suffix) /\ i - 1 < stop
    BY <1>1, <1>3
  <2>2. LoopState(stop, i - 1) = [log |-> Merged(i - 1), failed |-> FALSE]
    BY <2>1, Zenon DEF LoopState
  <2>3. CASE i < stop
    <3>1. ~Conflict(i)
      BY <1>1, <1>3, <2>3
    <3>2. Turn([log |-> Merged(i - 1), failed |-> FALSE], suffix[i]) = [log |-> Merged(i), failed |-> FALSE]
      BY <2>1, <3>1, MergeTurn, Zenon
    <3>. QED  BY <1>3, <2>2, <2>3, <3>2, Zenon DEF LoopState
  <2>4. CASE i = stop
    <3>1. Conflict(i) /\ ~(i < stop)
      BY <1>1, <2>1, <2>4
    <3>2. Turn([log |-> Merged(i - 1), failed |-> FALSE], suffix[i]) = [log |-> Merged(i - 1), failed |-> TRUE]
      BY <2>1, <3>1, MergeTurn, Zenon
    <3>. QED  BY <1>3, <2>2, <2>4, <3>1, <3>2, Zenon DEF LoopState
  <2>. QED  BY <1>1, <1>3, <2>3, <2>4
<1>4. CASE i > stop
  <2>1. ~(i < stop) /\ ~(i - 1 < stop) /\ i # 0
    BY <1>1, <1>4
  <2>2. LoopState(stop, i - 1) = [log |-> Merged(stop - 1), failed |-> TRUE]
    BY <2>1, Zenon DEF LoopState
  <2>3. Turn(LoopState(stop, i - 1), suffix[i]) = LoopState(stop, i - 1)
    <3>1. LoopState(stop, i - 1).failed
      BY <2>2
    <3>. QED  BY <3>1, Zenon DEF Turn
  <2>. QED  BY <2>1, <2>2, <2>3, Zenon DEF LoopState
<1>. QED  BY <1>1, <1>2, <1>3, <1>4

\* They are what the loop goes through.
LEMMA LoopIs ==
  ASSUME LoopInv, prev >= 0, NEW stop \in 1 .. Len(suffix) + 1,
         \A j \in 1 .. stop - 1 : ~Conflict(j), stop <= Len(suffix) => Conflict(stop)
  PROVE  MergeLoop = LoopState(stop, Len(suffix))
<1>. DEFINE loop == CHOOSE f : f = Loop(f)
            g == [i \in 0 .. Len(suffix) |-> LoopState(stop, i)]
            S == {i \in 0 .. Len(suffix) : loop[i] # LoopState(stop, i)}
<1>1. Len(suffix) \in Nat
  BY DEF LoopInv, IsNumbered
<1>2. g = Loop(g)
  <2>1. ASSUME NEW i \in 0 .. Len(suffix)
        PROVE  LoopState(stop, i) = IF i = 0 THEN [log |-> log, failed |-> FALSE]
                                    ELSE Turn(g[i - 1], suffix[i])
    <3>1. i # 0 => g[i - 1] = LoopState(stop, i - 1)
      BY <1>1
    <3>. HIDE DEF g
    <3>. QED  BY <3>1, LoopSolved, Zenon
  <2>2. [i \in 0 .. Len(suffix) |-> LoopState(stop, i)]
          = [i \in 0 .. Len(suffix) |-> IF i = 0 THEN [log |-> log, failed |-> FALSE]
                                        ELSE Turn(g[i - 1], suffix[i])]
    <3>. HIDE DEF g
    <3>. QED  BY <2>1, Zenon
  <2>. QED  BY <2>2, Zenon DEF Loop
<1>3. loop = Loop(loop)
  <2>. HIDE DEF g
  <2>. QED  BY <1>2, Zenon
<1>4. MergeLoop = loop[Len(suffix)]
  BY Zenon DEF MergeLoop, Loop
<1>. HIDE DEF loop
<1>5. \A i \in 0 .. Len(suffix) : loop[i] = IF i = 0 THEN [log |-> log, failed |-> FALSE]
                                            ELSE Turn(loop[i - 1], suffix[i])
  BY <1>3, Zenon DEF Loop
<1>6. S = {}
  <2>. SUFFICES ASSUME S # {} PROVE FALSE
    OBVIOUS
  <2>1. S \in SUBSET Nat
    OBVIOUS
  <2>2. PICK n \in S : \A m \in S : n <= m
    BY <2>1, MinLeast
  <2>3. n \in 0 .. Len(suffix) /\ n # 0 => n - 1 \in 0 .. Len(suffix) /\ ~(n <= n - 1)
    BY <1>1
  <2>4. n # 0 => loop[n - 1] = LoopState(stop, n - 1)
    BY <2>2, <2>3
  <2>5. LoopState(stop, n) = IF n = 0 THEN [log |-> log, failed |-> FALSE]
                             ELSE Turn(LoopState(stop, n - 1), suffix[n])
    BY LoopSolved
  <2>6. loop[n] = LoopState(stop, n)
    BY <1>5, <2>4, <2>5, Zenon
  <2>. QED  BY <2>2, <2>6
<1>7. Len(suffix) \in 0 .. Len(suffix)
  BY <1>1
<1>. QED  BY <1>4, <1>6, <1>7

\* So the loop is MergeSuffix, and fails if the commands differ.
LEMMA MergeIs == ASSUME LoopInv PROVE MergeIsLoop
<1>. SUFFICES ASSUME prev >= 0
     PROVE  /\ MergeLoop.failed <=> CommandsDiffer(log, snap, prev, suffix)
            /\ ~MergeLoop.failed => MergeLoop.log = MergeSuffix(log, snap, prev, suffix)
  BY DEF MergeIsLoop
<1>1. PICK stop \in 1 .. Len(suffix) + 1 :
        (\A j \in 1 .. stop - 1 : ~Conflict(j)) /\ (stop <= Len(suffix) => Conflict(stop))
  BY StopExists
<1>2. MergeLoop = LoopState(stop, Len(suffix))
  BY <1>1, LoopIs
<1>3. /\ Len(suffix) \in Nat /\ DOMAIN suffix = 1 .. Len(suffix) /\ stop \in Nat
      /\ Len(log) \in Nat /\ DOMAIN log = 1 .. Len(log)
      /\ snap \in Nat /\ prev \in Nat /\ snap <= prev /\ prev <= snap + Len(log)
  BY DEF LoopInv, IsNumbered
<1>4. CommandsDiffer(log, snap, prev, suffix) <=> \E j \in 1 .. Len(suffix) : Conflict(j)
  <2>1. ASSUME NEW k \in DOMAIN log, InSuffix(snap, prev, suffix, k),
               Received(snap, prev, suffix, k).term = log[k].term,
               Received(snap, prev, suffix, k).command # log[k].command
        PROVE  \E j \in 1 .. Len(suffix) : Conflict(j)
    <3>1. PICK j \in 1 .. Len(suffix) : j = snap + k - prev
      BY <1>3, <2>1 DEF InSuffix
    <3>2. prev + j - snap = k /\ k <= Len(log)
      BY <1>3, <3>1
    <3>3. suffix[j].term = log[k].term /\ suffix[j].command # log[k].command
      BY <2>1, <3>1 DEF Received
    <3>. QED  BY <3>2, <3>3 DEF Conflict
  <2>2. ASSUME NEW j \in 1 .. Len(suffix), Conflict(j)
        PROVE  CommandsDiffer(log, snap, prev, suffix)
    <3>1. PICK k \in DOMAIN log : k = prev + j - snap
      BY <1>3, <2>2 DEF Conflict
    <3>2. snap + k - prev = j
      BY <1>3, <3>1
    <3>3. suffix[j].term = log[k].term /\ suffix[j].command # log[k].command
      BY <2>2, <3>1 DEF Conflict
    <3>. QED  BY <1>3, <3>2, <3>3 DEF CommandsDiffer, InSuffix, Received
  <2>. QED  BY <2>1, <2>2 DEF CommandsDiffer
<1>5. Merged(Len(suffix)) = MergeSuffix(log, snap, prev, suffix)
  <2>1. DOMAIN suffix = 1 .. Len(suffix)
    BY <1>3
  <2>. QED  BY <2>1, Zenon DEF Merged, Longer, MergeSuffix, InSuffix, Received
<1>6. CASE stop <= Len(suffix)
  <2>1. ~(Len(suffix) < stop) /\ stop \in 1 .. Len(suffix) /\ Conflict(stop)
    BY <1>1, <1>3, <1>6
  <2>2. MergeLoop = [log |-> Merged(stop - 1), failed |-> TRUE]
    BY <1>2, <2>1, Zenon DEF LoopState
  <2>3. MergeLoop.failed
    BY <2>2
  <2>. QED  BY <1>4, <2>1, <2>3
<1>7. CASE ~(stop <= Len(suffix))
  <2>1. Len(suffix) < stop /\ stop - 1 = Len(suffix)
    BY <1>3, <1>7
  <2>2. MergeLoop = [log |-> Merged(Len(suffix)), failed |-> FALSE]
    BY <1>2, <2>1, Zenon DEF LoopState
  <2>3. ~MergeLoop.failed /\ MergeLoop.log = Merged(Len(suffix))
    BY <2>2
  <2>. QED  BY <1>1, <1>4, <1>5, <2>1, <2>3
<1>. QED  BY <1>6, <1>7

-----------------------------------------------------------------------------
(* The hint *)

\* `hint' is what the loop down from n finds, and the equation of the loop.
Same(m) == TermAt(log, snap, snapTerm, m) = TermAt(log, snap, snapTerm, prev)
IsHint(hint, n) ==
  \/ hint = prev /\ \A m \in snap .. n : Same(m)
  \/ hint - 1 \in snap .. n /\ ~Same(hint - 1) /\ \A m \in hint .. n : Same(m)
Down(f) ==
  [n \in snap .. prev |->
     IF TermAt(log, snap, snapTerm, n) # TermAt(log, snap, snapTerm, prev) THEN n + 1
     ELSE IF n = snap THEN prev ELSE f[n - 1]]

\* At each index the loop returns, or goes on to the next one with the same hint.
LEMMA HintTurn ==
  ASSUME snap \in Nat, prev \in Nat, NEW n \in snap .. prev
  PROVE  /\ ~Same(n) => IsHint(n + 1, n)
         /\ Same(n) /\ n = snap => IsHint(prev, n)
         /\ \A h \in Int : Same(n) /\ n # snap /\ IsHint(h, n - 1) => IsHint(h, n)
<1>1. n \in Int /\ n + 1 - 1 = n /\ \A m : ~(m \in n + 1 .. n)
  OBVIOUS
<1>2. \A h \in Int : \A m \in h .. n : m \in h .. n - 1 \/ m = n
  BY <1>1
<1>3. ~Same(n) => IsHint(n + 1, n)
  BY <1>1 DEF IsHint
<1>4. Same(n) /\ n = snap => IsHint(prev, n)
  <2>1. n = snap => \A m \in snap .. n : m = n
    BY <1>1
  <2>. QED  BY <2>1 DEF IsHint
<1>5. ASSUME NEW h \in Int, Same(n), n # snap, IsHint(h, n - 1) PROVE IsHint(h, n)
  <2>1. CASE h = prev /\ \A m \in snap .. n - 1 : Same(m)
    <3>1. \A m \in snap .. n : Same(m)
      BY <1>2, <1>5, <2>1
    <3>. QED  BY <2>1, <3>1 DEF IsHint
  <2>2. CASE h - 1 \in snap .. n - 1 /\ ~Same(h - 1) /\ \A m \in h .. n - 1 : Same(m)
    <3>1. \A m \in h .. n : Same(m)
      BY <1>2, <1>5, <2>2
    <3>2. h - 1 \in snap .. n
      BY <1>1, <2>2
    <3>. QED  BY <2>2, <3>1, <3>2 DEF IsHint
  <2>. QED  BY <1>5, <2>1, <2>2 DEF IsHint
<1>. QED  BY <1>3, <1>4, <1>5

\* There is a hint.
LEMMA HintExists ==
  ASSUME snap \in Nat, prev \in Nat
  PROVE  \A n \in snap .. prev : \E h \in Int : IsHint(h, n)
<1>. DEFINE S == {n \in snap .. prev : ~ \E h \in Int : IsHint(h, n)}
<1>. SUFFICES ASSUME S # {} PROVE FALSE
  OBVIOUS
<1>1. S \in SUBSET Nat
  OBVIOUS
<1>2. PICK n \in S : \A m \in S : n <= m
  BY <1>1, MinLeast
<1>3. n \in snap .. prev /\ n + 1 \in Int /\ prev \in Int
  OBVIOUS
<1>4. n # snap => n - 1 \in snap .. prev /\ ~(n <= n - 1)
  BY <1>3
<1>5. n # snap => \E h \in Int : IsHint(h, n - 1)
  BY <1>2, <1>4
<1>6. \E h \in Int : IsHint(h, n)
  BY <1>3, <1>5, HintTurn
<1>. QED  BY <1>6

\* There is only one.
LEMMA HintUnique ==
  ASSUME snap \in Nat, prev \in Nat, NEW n \in snap .. prev,
         NEW h \in Int, IsHint(h, n), NEW k \in Int, IsHint(k, n)
  PROVE  h = k
<1>1. CASE \A m \in snap .. n : Same(m)
  BY <1>1 DEF IsHint
<1>2. CASE ~ \A m \in snap .. n : Same(m)
  <2>1. /\ h - 1 \in snap .. n /\ ~Same(h - 1) /\ \A m \in h .. n : Same(m)
        /\ k - 1 \in snap .. n /\ ~Same(k - 1) /\ \A m \in k .. n : Same(m)
    BY <1>2 DEF IsHint
  <2>2. ~(h - 1 \in k .. n) /\ ~(k - 1 \in h .. n)
    BY <2>1
  <2>. QED  BY <2>1, <2>2
<1>. QED  BY <1>1, <1>2

\* So the loop finds it.
LEMMA HintLoopIs ==
  ASSUME snap \in Nat, prev \in Nat, snap <= prev
  PROVE  HintLoop \in Int /\ IsHint(HintLoop, prev)
<1>. DEFINE down == CHOOSE f : f = Down(f)
            hint(n) == CHOOSE h \in Int : IsHint(h, n)
            g == [n \in snap .. prev |-> hint(n)]
            S == {n \in snap .. prev : ~(down[n] \in Int /\ IsHint(down[n], n))}
<1>1. \A n \in snap .. prev : n \in Int /\ n + 1 \in Int /\ (n # snap => n - 1 \in snap .. prev /\ ~(n <= n - 1))
  OBVIOUS
<1>2. \A n \in snap .. prev : hint(n) \in Int /\ IsHint(hint(n), n)
  BY HintExists
<1>3. g = Down(g)
  <2>1. ASSUME NEW n \in snap .. prev
        PROVE  hint(n) = IF TermAt(log, snap, snapTerm, n) # TermAt(log, snap, snapTerm, prev) THEN n + 1
                         ELSE IF n = snap THEN prev ELSE g[n - 1]
    <3>1. n # snap => g[n - 1] = hint(n - 1)
      BY <1>1
    <3>. HIDE DEF g, hint
    <3>2. CASE ~Same(n)
      <4>1. hint(n) = n + 1
        BY <1>1, <1>2, <3>2, HintTurn, HintUnique
      <4>. QED  BY <3>2, <4>1 DEF Same
    <3>3. CASE Same(n) /\ n = snap
      <4>1. hint(n) = prev
        BY <1>1, <1>2, <3>3, HintTurn, HintUnique
      <4>. QED  BY <3>3, <4>1 DEF Same
    <3>4. CASE Same(n) /\ n # snap
      <4>1. hint(n) = hint(n - 1)
        BY <1>1, <1>2, <3>4, HintTurn, HintUnique
      <4>. QED  BY <3>1, <3>4, <4>1 DEF Same
    <3>. QED  BY <3>2, <3>3, <3>4
  <2>. HIDE DEF hint
  <2>2. g = [n \in snap .. prev |-> hint(n)]
    OBVIOUS
  <2>. HIDE DEF g
  <2>. QED  BY <2>1, <2>2 DEF Down
<1>4. down = Down(down)
  <2>. HIDE DEF g
  <2>. QED  BY <1>3, Zenon
<1>5. HintLoop = down[prev]
  BY Zenon DEF HintLoop, Down
<1>. HIDE DEF down
<1>6. \A n \in snap .. prev :
        down[n] = IF TermAt(log, snap, snapTerm, n) # TermAt(log, snap, snapTerm, prev) THEN n + 1
                  ELSE IF n = snap THEN prev ELSE down[n - 1]
  BY <1>4, Zenon DEF Down
<1>7. S = {}
  <2>. SUFFICES ASSUME S # {} PROVE FALSE
    OBVIOUS
  <2>1. S \in SUBSET Nat
    OBVIOUS
  <2>2. PICK n \in S : \A m \in S : n <= m
    BY <2>1, MinLeast
  <2>3. n # snap => down[n - 1] \in Int /\ IsHint(down[n - 1], n - 1)
    BY <1>1, <2>2
  <2>4. down[n] \in Int /\ IsHint(down[n], n)
    <3>1. CASE ~Same(n)
      <4>1. down[n] = n + 1
        BY <1>6, <3>1 DEF Same
      <4>. QED  BY <1>1, <3>1, <4>1, HintTurn
    <3>2. CASE Same(n) /\ n = snap
      <4>1. down[n] = prev
        BY <1>6, <3>2 DEF Same
      <4>. QED  BY <3>2, <4>1, HintTurn
    <3>3. CASE Same(n) /\ n # snap
      <4>1. down[n] = down[n - 1]
        BY <1>6, <3>3 DEF Same
      <4>. QED  BY <2>3, <3>3, <4>1, HintTurn
    <3>. QED  BY <3>1, <3>2, <3>3
  <2>. QED  BY <2>4
<1>8. prev \in snap .. prev
  OBVIOUS
<1>. QED  BY <1>5, <1>7, <1>8

\* It is the IsConflictHint of RaftLog, and the range that RejectMismatch looks in holds it.
LEMMA HintIs == ASSUME LoopInv PROVE HintIsLoop
<1>. SUFFICES ASSUME prev >= 0
     PROVE  {h \in snap .. prev : IsConflictHint(log, snap, snapTerm, prev, h)} = {HintLoop}
  BY DEF HintIsLoop
<1>1. snap \in Nat /\ prev \in Nat /\ snap <= prev
  BY DEF LoopInv, IsNumbered
<1>2. \A h : IsConflictHint(log, snap, snapTerm, prev, h) <=> IsHint(h, prev)
  BY DEF IsConflictHint, IsHint, Same
<1>3. HintLoop \in Int /\ IsHint(HintLoop, prev)
  BY <1>1, HintLoopIs
<1>4. HintLoop \in snap .. prev
  <2>1. Same(prev)
    BY DEF Same
  <2>2. HintLoop - 1 # prev \/ HintLoop = prev
    BY <1>3, <2>1 DEF IsHint
  <2>. QED  BY <1>1, <1>3, <2>2 DEF IsHint
<1>5. \A h \in snap .. prev : IsHint(h, prev) => h = HintLoop
  BY <1>1, <1>3, HintUnique
<1>. QED  BY <1>2, <1>3, <1>4, <1>5

-----------------------------------------------------------------------------
\* The loop over the entries of an AppendEntries fails its assertion exactly when an
\* entry of one term has two commands, and otherwise merges the suffix in, for logs,
\* snapshots and suffixes of any length.
THEOREM MergeIsLoopHolds == InputsSpec => []MergeIsLoop
<1>. QED  BY LoopInvHolds, MergeIs, PTL

\* The hint of a mismatch that the loop down the log computes is the one and only
\* IsConflictHint, whatever the log and wherever the snapshot ends.
THEOREM HintIsLoopHolds == InputsSpec => []HintIsLoop
<1>. QED  BY LoopInvHolds, HintIs, PTL
=============================================================================
