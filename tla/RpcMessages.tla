------------------------------ MODULE RpcMessages ------------------------------
(***************************************************************************)
(* What is written on a connection and read from it: the classes that the  *)
(* protobuf compiler made of the .proto files, the stubs, the frame that   *)
(* MprpcChannel puts around a request, and how RpcProvider takes it apart. *)
(* A stream is a sequence of pieces, one per field that was set.           *)
(* Operators called ...Mutant are plausible bugs for the runs to notice.    *)
(***************************************************************************)
EXTENDS Integers, Sequences

CONSTANTS Bytes,        \* values of a bytes field, "" among them
          Int32,        \* values of an int32 field, 0 among them
          MaxEntries,   \* bound on the entries of an AppendEntries
          MaxReplies    \* bound on the replies that arrive together

VARIABLES stream,       \* what has arrived: the buffer that is parsed
          sent          \* what was sent on it: an operation, its message, request or reply
wireVars == <<stream, sent>>

-----------------------------------------------------------------------------
(* The messages: the values that the accessors of each class set and return. *)

\* The first entry of a log has index 1, and the first term is 1.
Entry == [Command: Bytes, LogTerm: Int32 \ {0}, LogIndex: Int32 \ {0}]
AppendEntriesArgs ==
  [Term: Int32, LeaderId: Int32, PrevLogIndex: Int32, PrevLogTerm: Int32,
   Entries: UNION {[1 .. n -> Entry] : n \in 0 .. MaxEntries}, LeaderCommit: Int32]
AppendEntriesReply ==
  [Term: Int32, Success: BOOLEAN, UpdateNextIndex: Int32, AppState: Int32]
RequestVoteArgs ==
  [Term: Int32, CandidateId: Int32, LastLogIndex: Int32, LastLogTerm: Int32]
RequestVoteReply == [Term: Int32, VoteGranted: BOOLEAN, VoteState: Int32]
InstallSnapshotRequest ==
  [LeaderId: Int32, Term: Int32, LastSnapShotIncludeIndex: Int32,
   LastSnapShotIncludeTerm: Int32, Data: Bytes]
InstallSnapshotResponse == [Term: Int32]
GetArgs == [Key: Bytes, ClientId: Bytes, RequestId: Int32]
GetReply == [Err: Bytes, Value: Bytes]
PutAppendArgs == [Key: Bytes, Value: Bytes, Op: Bytes, ClientId: Bytes, RequestId: Int32]
PutAppendReply == [Err: Bytes]
RpcHeader(service, method, size) ==
  [service_name |-> service, method_name |-> method, args_size |-> size]

(* The layouts: in each class's Clear, _InternalParse, _InternalSerialize and MergeFrom, *)
(* the fields by number, with what each is written as.                                   *)

Field(name, kind) == [name |-> name, kind |-> kind]
LogEntryFields ==
  <<Field("Command", "bytes"), Field("LogTerm", "int32"), Field("LogIndex", "int32")>>
AppendEntriesArgsFields ==
  <<Field("Term", "int32"), Field("LeaderId", "int32"), Field("PrevLogIndex", "int32"),
    Field("PrevLogTerm", "int32"), Field("Entries", "entries"), Field("LeaderCommit", "int32")>>
AppendEntriesReplyFieldsMutant ==   \* the last two renumbered
  <<Field("Term", "int32"), Field("Success", "bool"), Field("AppState", "int32"),
    Field("UpdateNextIndex", "int32")>>
AppendEntriesReplyFields ==
  <<Field("Term", "int32"), Field("Success", "bool"), Field("UpdateNextIndex", "int32"),
    Field("AppState", "int32")>>
RequestVoteArgsFields ==
  <<Field("Term", "int32"), Field("CandidateId", "int32"), Field("LastLogIndex", "int32"),
    Field("LastLogTerm", "int32")>>
RequestVoteReplyFields ==
  <<Field("Term", "int32"), Field("VoteGranted", "bool"), Field("VoteState", "int32")>>
InstallSnapshotRequestFields ==
  <<Field("LeaderId", "int32"), Field("Term", "int32"), Field("LastSnapShotIncludeIndex", "int32"),
    Field("LastSnapShotIncludeTerm", "int32"), Field("Data", "bytes")>>
InstallSnapshotResponseFields == <<Field("Term", "int32")>>
GetArgsFields ==
  <<Field("Key", "bytes"), Field("ClientId", "bytes"), Field("RequestId", "int32")>>
GetReplyFields == <<Field("Err", "bytes"), Field("Value", "bytes")>>
PutAppendArgsFields ==
  <<Field("Key", "bytes"), Field("Value", "bytes"), Field("Op", "bytes"),
    Field("ClientId", "bytes"), Field("RequestId", "int32")>>
PutAppendReplyFields == <<Field("Err", "bytes")>>
RpcHeaderFields ==
  <<Field("service_name", "bytes"), Field("method_name", "bytes"), Field("args_size", "uint32")>>

-----------------------------------------------------------------------------
(* The functions of a class, for any layout *)

Unset == [bytes |-> "", int32 |-> 0, uint32 |-> 0, bool |-> FALSE, entries |-> <<>>]

\* What follows the tag: a varint, or bytes of which the length comes first.
OnWire(kind, value) ==
  CASE kind \in {"int32", "uint32"} -> [varint |-> value]
    [] kind = "bool" -> [varint |-> IF value THEN 1 ELSE 0]
    [] kind \in {"bytes", "entries"} -> [bytes |-> value]
SameWireType(kind, value) == kind \in {"bytes", "entries"} <=> "bytes" \in DOMAIN value
FromWire(kind, value) ==
  CASE kind \in {"int32", "uint32"} -> value.varint
    [] kind = "bool" -> value.varint # 0
    [] kind \in {"bytes", "entries"} -> value.bytes

Piece(number, value) == [number |-> number, value |-> value, whole |-> TRUE]

Default(fields) ==
  [name \in {fields[n].name : n \in DOMAIN fields} |->
     Unset[fields[CHOOSE n \in DOMAIN fields : fields[n].name = name].kind]]

\* A field that has its default value is not written, an entry always is.
FieldPieces(kind, number, value) ==
  IF kind = "entries" THEN [i \in DOMAIN value |-> Piece(number, OnWire(kind, value[i]))]
  ELSE IF value = Unset[kind] THEN <<>>
  ELSE <<Piece(number, OnWire(kind, value))>>
\* One field after the other.
InternalSerialize(fields, message) ==
  LET written[n \in 0 .. Len(fields)] ==
        IF n = 0 THEN <<>>
        ELSE written[n - 1] \o FieldPieces(fields[n].kind, n, message[fields[n].name])
  IN written[Len(fields)]

\* A field of another number or another wire type is put aside with the unknown ones, a
\* field that comes again replaces the first, an entry is added.
TakePiece(fields, message, piece) ==
  IF ~piece.whole \/ piece.number \notin DOMAIN fields THEN message
  ELSE LET field == fields[piece.number]
       IN IF ~SameWireType(field.kind, piece.value) THEN message
          ELSE [message EXCEPT ![field.name] =
                  IF field.kind = "entries" THEN Append(@, FromWire(field.kind, piece.value))
                  ELSE FromWire(field.kind, piece.value)]
\* One piece after the other.
InternalParse(fields, into, pieces) ==
  LET read[i \in 0 .. Len(pieces)] ==
        IF i = 0 THEN into ELSE TakePiece(fields, read[i - 1], pieces[i])
  IN read[Len(pieces)]

\* The bytes of an entry are a message of its own.
SerializeEntry(entry) == InternalSerialize(LogEntryFields, entry)
ParseEntry(pieces) == InternalParse(LogEntryFields, Default(LogEntryFields), pieces)
IsEntries(fields, name) == \E n \in DOMAIN fields : fields[n] = Field(name, "entries")
EachEntry(Of(_), fields, message) ==
  [name \in DOMAIN message |->
     IF IsEntries(fields, name) THEN [i \in DOMAIN message[name] |-> Of(message[name][i])]
     ELSE message[name]]

Serialize(fields, message) ==
  InternalSerialize(fields, EachEntry(SerializeEntry, fields, message))
\* ParseFromArray and ParseFromString clear the message first.  A piece of which the end is
\* missing fails the parse.
Parse(fields, pieces) ==
  [ok      |-> \A i \in DOMAIN pieces : pieces[i].whole,
   message |-> EachEntry(ParseEntry, fields, InternalParse(fields, Default(fields), pieces))]

MergeFromMutant(fields, message, from) ==   \* also copies what is not set
  [name \in DOMAIN message |->
     IF IsEntries(fields, name) THEN message[name] \o from[name] ELSE from[name]]
\* What is set in the other message is taken over, its entries are added.
MergeFrom(fields, message, from) ==
  [name \in DOMAIN message |->
     IF IsEntries(fields, name) THEN message[name] \o from[name]
     ELSE IF from[name] = Default(fields)[name] THEN message[name] ELSE from[name]]

-----------------------------------------------------------------------------
(* The services: what a stub calls, and what is called with it at the other end *)

\* The methods in the order of the .proto, which numbers them from 0.
raftRpcMethods == <<"AppendEntries", "InstallSnapshot", "RequestVote">>
kvServerRpcMethods == <<"PutAppend", "Get">>

Method(index, request, reply) == [index |-> index, request |-> request, reply |-> reply]
raftRpc_Stub ==
  [AppendEntries |-> Method(0, AppendEntriesArgsFields, AppendEntriesReplyFields),
   InstallSnapshot |-> Method(1, InstallSnapshotRequestFields, InstallSnapshotResponseFields),
   RequestVote |-> Method(2, RequestVoteArgsFields, RequestVoteReplyFields)]
kvServerRpc_Stub ==
  [PutAppend |-> Method(0, PutAppendArgsFields, PutAppendReplyFields),
   Get |-> Method(1, GetArgsFields, GetReplyFields)]

\* The switches of CallMethod, GetRequestPrototype and GetResponsePrototype.
Case(handler, request, reply) == [handler |-> handler, request |-> request, reply |-> reply]
raftRpcCallMethod ==
  <<Case("AppendEntries", AppendEntriesArgsFields, AppendEntriesReplyFields),
    Case("InstallSnapshot", InstallSnapshotRequestFields, InstallSnapshotResponseFields),
    Case("RequestVote", RequestVoteArgsFields, RequestVoteReplyFields)>>
kvServerRpcCallMethod ==
  <<Case("PutAppend", PutAppendArgsFields, PutAppendReplyFields),
    Case("Get", GetArgsFields, GetReplyFields)>>

\* m_serviceMap, filled by NotifyService: a node registers both services.
serviceMap ==
  [raftRpc |-> [methods |-> raftRpcMethods, callMethod |-> raftRpcCallMethod],
   kvServerRpc |-> [methods |-> kvServerRpcMethods, callMethod |-> kvServerRpcCallMethod]]

ServiceOf(op) == IF op \in DOMAIN raftRpc_Stub THEN "raftRpc" ELSE "kvServerRpc"
Stub(op) == IF op \in DOMAIN raftRpc_Stub THEN raftRpc_Stub[op] ELSE kvServerRpc_Stub[op]

\* CallMethod sends the size of the header, the header and the arguments.
Frame(op, request) ==
  LET args == Serialize(Stub(op).request, request)
      method == serviceMap[ServiceOf(op)].methods[Stub(op).index + 1]
      header == Serialize(RpcHeaderFields, RpcHeader(ServiceOf(op), method, Len(args)))
  IN <<Piece(0, OnWire("uint32", Len(header)))>> \o header \o args

\* ReadString: when there is less than it asks for, it takes that, and says so.
ReadString(pieces, size) ==
  LET taken == SubSeq(pieces, 1, IF size < Len(pieces) THEN size ELSE Len(pieces))
  IN [ok |-> Len(taken) = size /\ \A i \in DOMAIN taken : taken[i].whole, read |-> taken]

\* The case of the method of that name, if there is one.
Called(service, method) ==
  IF service \notin DOMAIN serviceMap THEN {}
  ELSE LET found == serviceMap[service]
       IN {found.callMethod[i] : i \in {j \in DOMAIN found.methods : found.methods[j] = method}}

DispatchMutant(buffer) ==   \* does not ask whether all arguments are there
  LET size == buffer[1].value.varint
      header == Parse(RpcHeaderFields, ReadString(Tail(buffer), size).read)
      args == ReadString(SubSeq(buffer, size + 2, Len(buffer)), header.message.args_size)
  IN {[op |-> case.handler, request |-> Parse(case.request, args.read).message] :
        case \in {c \in Called(header.message.service_name, header.message.method_name) : header.ok}}
\* The handler that runs, if one does, with its request: a set of at most one.  What
\* ReadString says of the header is not asked.
Dispatch(buffer) ==
  LET size == buffer[1].value.varint
      header == Parse(RpcHeaderFields, ReadString(Tail(buffer), size).read)
      args == ReadString(SubSeq(buffer, size + 2, Len(buffer)), header.message.args_size)
  IN {[op |-> case.handler, request |-> Parse(case.request, args.read).message] :
        case \in {c \in Called(header.message.service_name, header.message.method_name) :
                    header.ok /\ args.ok}}

-----------------------------------------------------------------------------
Requests(op) ==
  CASE op = "AppendEntries" -> AppendEntriesArgs
    [] op = "InstallSnapshot" -> InstallSnapshotRequest
    [] op = "RequestVote" -> RequestVoteArgs
    [] op = "PutAppend" -> PutAppendArgs
    [] op = "Get" -> GetArgs
Replies(op) ==
  CASE op = "AppendEntries" -> AppendEntriesReply
    [] op = "InstallSnapshot" -> InstallSnapshotResponse
    [] op = "RequestVote" -> RequestVoteReply
    [] op = "PutAppend" -> PutAppendReply
    [] op = "Get" -> GetReply
Operations == DOMAIN raftRpc_Stub \cup DOMAIN kvServerRpc_Stub

\* What was written for one of them, and for all.
Written(m) ==
  IF m.kind = "request" THEN Frame(m.op, m.message) ELSE Serialize(Stub(m.op).reply, m.message)
WrittenUpTo(n) ==
  LET all[i \in 0 .. n] == IF i = 0 THEN <<>> ELSE all[i - 1] \o Written(sent[i])
  IN all[n]
AllWritten == WrittenUpTo(Len(sent))

WireInit == stream = <<>> /\ sent = <<>>

CallMethod(op) ==
  /\ sent = <<>>
  /\ \E request \in Requests(op) :
       /\ stream' = Frame(op, request)
       /\ sent' = <<[kind |-> "request", op |-> op, message |-> request]>>

\* On one connection are the replies of one service.
SendReply(op) ==
  /\ Len(sent) < MaxReplies /\ stream = AllWritten
  /\ \A i \in DOMAIN sent : sent[i].kind = "reply" /\ ServiceOf(sent[i].op) = ServiceOf(op)
  /\ \E reply \in Replies(op) :
       /\ stream' = stream \o Serialize(Stub(op).reply, reply)
       /\ sent' = Append(sent, [kind |-> "reply", op |-> op, message |-> reply])

\* The end has not arrived yet when the buffer is taken.
CutShort ==
  /\ stream = AllWritten
  /\ \E n \in 1 .. Len(stream) :
       \/ n < Len(stream) /\ stream' = SubSeq(stream, 1, n)
       \/ /\ sent[1].kind = "request" => n > 1      \* the size of a header is one byte
          /\ stream' = [SubSeq(stream, 1, n) EXCEPT ![n].whole = FALSE]
  /\ UNCHANGED sent

WireNext == (\E op \in Operations : CallMethod(op) \/ SendReply(op)) \/ CutShort
WireSpec == WireInit /\ [][WireNext]_wireVars

-----------------------------------------------------------------------------
\* A request that is there runs the handler of the method that was called, with the request
\* as it was.  Of one that is cut short no handler sees a part: none runs, or, when the cut
\* took just args_size off the header, the one with no field set (rpcprovider.cpp:137-157).
NothingHalfRead ==
  sent # <<>> /\ sent[1].kind = "request"
    => LET called == [op |-> sent[1].op, request |-> sent[1].message]
           empty == [called EXCEPT !.request = Default(Stub(sent[1].op).request)]
       IN IF stream = AllWritten THEN Dispatch(stream) = {called}
          ELSE Dispatch(stream) \subseteq {empty}

\* Replies that arrive together are read, as whatever class, as if each were merged into
\* the ones before: what a later one has unset, a refusal for example, changes nothing.
MergedReplies(fields) ==
  LET merged[i \in 0 .. Len(sent)] ==
        IF i = 0 THEN Default(fields)
        ELSE MergeFrom(fields, merged[i - 1], Parse(fields, Written(sent[i])).message)
  IN merged[Len(sent)]
ReadsAsMerged ==
  sent # <<>> /\ sent[1].kind = "reply" /\ stream = AllWritten
    => \A op \in {o \in Operations : ServiceOf(o) = ServiceOf(sent[1].op)} :
         Parse(Stub(op).reply, stream).message = MergedReplies(Stub(op).reply)

\* raft.h:25: AppState keeps a peer that was not heard from lowering matchIndex.  Whatever a
\* thread that waits for an AppendEntries reply reads, the end of the stream, a part, the
\* reply to another call, is Disconnected unless a whole AppendEntries reply is in it.
OnlyRepliesCount ==
  LET read == Parse(AppendEntriesReplyFields, stream)
      arrived(i) == Len(WrittenUpTo(i)) <= Len(stream)
  IN (\A i \in DOMAIN sent : sent[i].kind = "reply" /\ ServiceOf(sent[i].op) = "raftRpc")
       => (read.ok /\ read.message.AppState # 0
             => \E i \in DOMAIN sent : sent[i].op = "AppendEntries" /\ arrived(i))
=============================================================================
