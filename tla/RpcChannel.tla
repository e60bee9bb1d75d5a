------------------------------ MODULE RpcChannel ------------------------------
(***************************************************************************)
(* One MprpcChannel, the threads that call through it, and the RpcProvider *)
(* at the other end (mprpcchannel.cpp, rpcprovider.cpp).  A connection is  *)
(* two streams; whatever one system call takes off a stream is one message *)
(* to the code, whole, cut or run together.  m_clientFd is read again at    *)
(* each system call, with no lock.  Sockets are numbered as they come.      *)
(* Operators called ...Mutant are plausible bugs for the runs to notice.    *)
(***************************************************************************)
EXTENDS Integers, Sequences, FiniteSets

CONSTANTS Caller,          \* threads that share the channel
          None,            \* m_clientFd = -1
          MaxCalls,        \* bound on the calls of each thread
          MaxCrashes,      \* bound on the crashes of the provider
          RequestPieces,   \* most pieces a request arrives in
          ReplyPieces      \* most recv calls a reply takes: 1 up to 1024 bytes

VARIABLES clientFd,    \* m_clientFd
          conns,       \* conns[k]: the k-th connection
          threads,     \* threads[c]: where c is in CallMethod, its call, what it got
          provider,    \* "up" or "down"
          crashes,
          served       \* the calls the provider has executed, in order
rpcVars == <<clientFd, conns, threads, provider, crashes, served>>

NewConn == [end |-> "open",         \* or "closed", "resetting", "reset": see Ended and Sends
            open |-> TRUE,          \* the channel's process has not closed the socket
            requests |-> <<>>,      \* on their way, in pieces
            handling |-> None,      \* what the service is executing
            replies |-> <<>>]       \* on their way back, in pieces

\* With connectNow the constructor connects, and has to when somebody listens.
RpcInit ==
  /\ conns \in {<<>>, <<NewConn>>}
  /\ clientFd = IF conns = <<>> THEN None ELSE 1
  /\ threads = [c \in Caller |->
       [at |-> "idle", call |-> 0, sock |-> 0, result |-> "", got |-> <<>>]]
  /\ provider = "up" /\ crashes = 0 /\ served = <<>>

\* The other end has closed the connection: its stream ends, but sending still works.
Ended(conn) == conn.end \in {"closed", "resetting"}

Message(c) == [caller |-> c, call |-> threads[c].call]
InPieces(message, n) == [i \in 1 .. n |-> [message |-> message, piece |-> i, of |-> n]]
\* What was taken starts with a whole message.
StartsWhole(taken) == taken # <<>> /\ taken[1].piece = 1 /\ taken[1].of <= Len(taken)

Goto(c, label) == threads' = [threads EXCEPT ![c].at = label]
Return(c, result, got) ==
  threads' = [threads EXCEPT ![c].at = "idle", ![c].result = result, ![c].got = got]
Fail(c) == Return(c, "failed", <<>>)     \* SetFailed

\* close(m_clientFd), which is not the socket that failed if another thread has
\* reconnected since; nothing happens when it is -1.
CloseFd(streams) ==
  /\ clientFd' = None
  /\ conns' = IF clientFd = None THEN streams ELSE [streams EXCEPT ![clientFd].open = FALSE]

-----------------------------------------------------------------------------
(* MprpcChannel::CallMethod *)

StartCall(c) ==
  /\ threads[c].at = "idle" /\ threads[c].call < MaxCalls
  /\ threads' = [threads EXCEPT ![c].at = IF clientFd = None THEN "connect" ELSE "send",
                                ![c].call = @ + 1]
  /\ UNCHANGED <<clientFd, conns, provider, crashes, served>>

\* newConnect: another thread's socket may be there already, and is lost.
NewConnect(c) ==
  /\ threads[c].at = "connect"
  /\ \/ /\ provider = "up"
        /\ conns' = Append(conns, NewConn)
        /\ clientFd' = Len(conns')
        /\ Goto(c, "send")
     \/ /\ provider = "down"
        /\ clientFd' = None
        /\ Fail(c)
        /\ UNCHANGED conns
  /\ UNCHANGED <<provider, crashes, served>>

\* Sending to a connection that the other end has closed works, until the reset that
\* answers it arrives.
Sends(c) ==
  /\ clientFd # None /\ conns[clientFd].end # "reset"
  /\ \/ /\ conns[clientFd].end = "open"
        /\ \E n \in 1 .. RequestPieces :
             conns' = [conns EXCEPT ![clientFd].requests = @ \o InPieces(Message(c), n)]
     \/ Ended(conns[clientFd]) /\ conns' = [conns EXCEPT ![clientFd].end = "resetting"]
  /\ Goto(c, "recv")
  /\ UNCHANGED clientFd
CannotSend == clientFd = None \/ conns[clientFd].end = "reset"
SendMutant(c) ==    \* if for while: reconnects and does not send again
  /\ threads[c].at = "send"
  /\ \/ Sends(c)
     \/ /\ CannotSend /\ provider = "up"
        /\ conns' = Append([k \in DOMAIN conns |-> [conns[k] EXCEPT !.open = @ /\ k # clientFd]], NewConn)
        /\ clientFd' = Len(conns')
        /\ Goto(c, "recv")
  /\ UNCHANGED <<provider, crashes, served>>
SendMutant2(c) ==   \* no close before the reconnect
  /\ threads[c].at = "send"
  /\ \/ Sends(c)
     \/ CannotSend /\ clientFd' = None /\ Goto(c, "connect") /\ UNCHANGED conns
  /\ UNCHANGED <<provider, crashes, served>>
\* The loop around send: close, connect, and send again.
Send(c) ==
  /\ threads[c].at = "send"
  /\ \/ Sends(c)
     \/ CannotSend /\ CloseFd(conns) /\ Goto(c, "connect")
  /\ UNCHANGED <<provider, crashes, served>>

\* recv starts: from then on the thread waits on that socket, whatever becomes of m_clientFd.
Recv(c) ==
  /\ threads[c].at = "recv"
  /\ \/ /\ clientFd # None
        /\ threads' = [threads EXCEPT ![c].at = "blocked", ![c].sock = clientFd]
     \/ clientFd = None /\ Fail(c)
  /\ UNCHANGED <<clientFd, conns, provider, crashes, served>>

Socket(c) == conns[threads[c].sock]

\* recv takes what has arrived, the parser what recv took: several replies run together
\* pass for one.  A parse error closes nothing and leaves the rest in the stream.
TakeReply(c) ==
  /\ threads[c].at = "blocked"
  /\ \E n \in 1 .. Len(Socket(c).replies) :
       LET taken == SubSeq(Socket(c).replies, 1, n) IN
       /\ n > 1 => \A i \in 1 .. n : taken[i].piece = taken[i].of   \* others fill the buffer
       /\ conns' = [conns EXCEPT ![threads[c].sock].replies = SubSeq(@, n + 1, Len(@))]
       /\ IF \A i \in 1 .. n : taken[i].of = 1
          THEN Return(c, "reply", [i \in 1 .. n |-> taken[i].message])
          ELSE Fail(c)
  /\ UNCHANGED <<clientFd, provider, crashes, served>>

EndOfStreamMutant(c) ==    \* recv again while it returns 0
  /\ threads[c].at = "blocked" /\ Socket(c).replies = <<>> /\ Ended(Socket(c))
  /\ UNCHANGED rpcVars
EndOfStreamMutant2(c) ==   \* take it for an error, and try again
  /\ threads[c].at = "blocked" /\ Socket(c).replies = <<>> /\ Ended(Socket(c))
  /\ CloseFd(conns)
  /\ Goto(c, "connect")
  /\ UNCHANGED <<provider, crashes, served>>
\* recv returns 0, which is no error, and nothing parses as a reply with no field set.
\* The socket is kept.
EndOfStream(c) ==
  /\ threads[c].at = "blocked" /\ Socket(c).replies = <<>> /\ Ended(Socket(c))
  /\ Return(c, "reply", <<>>)
  /\ UNCHANGED <<clientFd, conns, provider, crashes, served>>

BrokenMutant(c) ==         \* a receive timeout that gives up and keeps the socket
  /\ threads[c].at = "blocked" /\ Socket(c).replies = <<>>
  /\ Fail(c)
  /\ UNCHANGED <<clientFd, conns, provider, crashes, served>>
\* recv fails, for one thread: another one on that socket then sees the end of the stream.
Broken(c) ==
  /\ threads[c].at = "blocked" /\ Socket(c).replies = <<>> /\ Socket(c).end = "reset"
  /\ CloseFd([conns EXCEPT ![threads[c].sock].end = "closed"])
  /\ Fail(c)
  /\ UNCHANGED <<provider, crashes, served>>

CallerStep(c) ==
  NewConnect(c) \/ Send(c) \/ Recv(c) \/ TakeReply(c) \/ EndOfStream(c) \/ Broken(c)

-----------------------------------------------------------------------------
(* RpcProvider *)

\* The buffer is taken as a whole, and its first request executed if it is all there:
\* what follows it, or is incomplete, is gone.
OnMessage(k) ==
  /\ provider = "up" /\ conns[k].end = "open" /\ conns[k].handling = None
  /\ \E n \in 1 .. Len(conns[k].requests) :
       LET buffer == SubSeq(conns[k].requests, 1, n)
           first == buffer[1].message
           rest == [conns EXCEPT ![k].requests = SubSeq(@, n + 1, Len(@))]
       IN IF StartsWhole(buffer)
          THEN /\ conns' = [rest EXCEPT ![k].handling = first]
               /\ served' = Append(served, first)
          ELSE conns' = rest /\ UNCHANGED served
  /\ UNCHANGED <<clientFd, threads, provider, crashes>>

SendRpcResponse(k) ==
  /\ provider = "up" /\ conns[k].handling # None
  /\ \E n \in 1 .. ReplyPieces :
       conns' = [conns EXCEPT ![k].replies = @ \o InPieces(conns[k].handling, n),
                              ![k].handling = None]
  /\ UNCHANGED <<clientFd, threads, provider, crashes, served>>

\* The process ends: a connection with unread requests is reset, the others are closed.
\* Replies that were sent still arrive.
Crash ==
  /\ provider = "up" /\ crashes < MaxCrashes
  /\ provider' = "down" /\ crashes' = crashes + 1
  /\ conns' = [k \in DOMAIN conns |->
       IF conns[k].end # "open" THEN conns[k]
       ELSE [conns[k] EXCEPT !.end = IF conns[k].requests = <<>> THEN "closed" ELSE "reset",
                             !.requests = <<>>, !.handling = None]]
  /\ UNCHANGED <<clientFd, threads, served>>

ResetArrives(k) ==
  /\ conns[k].end = "resetting" /\ conns' = [conns EXCEPT ![k].end = "reset"]
  /\ UNCHANGED <<clientFd, threads, provider, crashes, served>>

Restart ==
  /\ provider = "down" /\ provider' = "up"
  /\ UNCHANGED <<clientFd, conns, threads, crashes, served>>

-----------------------------------------------------------------------------
RpcNext ==
  \/ \E c \in Caller : StartCall(c) \/ CallerStep(c)
  \/ \E k \in DOMAIN conns : OnMessage(k) \/ SendRpcResponse(k) \/ ResetArrives(k)
  \/ Crash \/ Restart

RpcSpec == RpcInit /\ [][RpcNext]_rpcVars

\* A channel that several threads share is one of Raft's, which connect at once
\* (raftRpcUtil.cpp:39): it is unconnected when the peer came up after the constructor
\* had given up.
UnconnectedInit == RpcInit /\ conns = <<>>
UnconnectedSpec == UnconnectedInit /\ [][RpcNext]_rpcVars

\* Threads run, and a provider that is up serves what arrives.  Nobody has to call, to
\* crash or to restart.
RpcFairness ==
  /\ \A c \in Caller : WF_rpcVars(CallerStep(c))
  /\ WF_rpcVars(\E k \in DOMAIN conns : OnMessage(k) \/ SendRpcResponse(k))

-----------------------------------------------------------------------------
\* A reply that is parsed is the one to the request of this call, or empty, whatever calls
\* failed before on the same socket.
OwnReply ==
  \A c \in Caller :
     threads[c].at = "idle" /\ threads[c].result = "reply"
       => threads[c].got \in {<<Message(c)>>, <<>>}

\* mprpcchannel.cpp:95: recv blocks, so that the reply certainly comes.  Its request is
\* on its way, or being executed, or the reply is there.
Pending(c) ==
  \/ \E i \in DOMAIN Socket(c).requests : Socket(c).requests[i].message = Message(c)
  \/ Socket(c).handling = Message(c)
  \/ \E i \in DOMAIN Socket(c).replies : Socket(c).replies[i].message = Message(c)
ReplyComes ==
  \A c \in Caller : threads[c].at = "blocked" /\ Socket(c).end = "open" => Pending(c)

\* The loop around send resends nothing that may have been executed: at most once.
ServedOnce == \A m, n \in DOMAIN served : served[m] = served[n] => m = n

\* A reconnect leaves no socket behind.
OneSocket == \A k \in DOMAIN conns : conns[k].open => k = clientFd

\* A call returns, also when the provider crashes, whether it comes back or not.
CallReturns == \A c \in Caller : threads[c].at # "idle" ~> threads[c].at = "idle"
=============================================================================
