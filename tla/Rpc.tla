-------------------------------- MODULE Rpc --------------------------------
(***************************************************************************)
(* A call of the StateStore service, from the client's request object to   *)
(* the client's response object: the generated messages (Messages), the    *)
(* stub and the service of proto/iquora.grpc.pb.cc, and what the handlers  *)
(* of src/server.cpp put into their responses.                             *)
(*                                                                         *)
(* The client has a request it edits and reuses, a second request to copy, *)
(* merge and swap with, and one response object that every call and every  *)
(* message of a stream is read into.  A request may also come from a       *)
(* client that is not this library: an older or newer .proto, or another   *)
(* implementation of the format.  gRPC itself, external, carries the path, *)
(* the size and the fields, and answers a request that does not parse with *)
(* INTERNAL without calling the handler.                                   *)
(***************************************************************************)
EXTENDS Messages

CONSTANTS MaxEdits,      \* bound: edits of the request
          MaxCalls,      \* bound: calls with the same objects
          MaxMessages,   \* bound: messages of a stream
          MaxForeign     \* bound: fields in a request of another client

ASSUME RpcAssumption ==
    {MaxEdits, MaxCalls, MaxMessages, MaxForeign} \subseteq Nat

VARIABLES
    method,     \* the method the client calls, fixed
    pc,         \* "edit", "request", "handle", "reply" or "read"
    req, draft, \* the client's request, and its second one
    given,      \* history: the values the program gave to req and draft
    library,    \* whether the call comes from this library's client
    path,       \* on the wire: the index of the method's name,
    size,       \*   the announced size,
    wire,       \*   and the fields
    sreq,       \* the request object of the server
    filled,     \* history: the values the handler gave to the response
    resp,       \* the client's response object
    status,     \* the status of the call
    edits, calls, messages

vars == <<method, pc, req, draft, given, library, path, size, wire, sreq, filled, resp,
          status, edits, calls, messages>>

client == <<req, draft, given>>
carried == <<path, size, wire>>

(***************************************************************************)
(* The stub and the service.  StateStore_method_names is indexed from 0.   *)
(***************************************************************************)
StubMethods ==
    [Get |-> [path |-> 0, request |-> "GetRequest", response |-> "GetResponse"],
     Set |-> [path |-> 1, request |-> "SetRequest", response |-> "SetResponse"],
     Subscribe |-> [path |-> 2, request |-> "SubscribeRequest", response |-> "SubscribeResponse"],
     SpawnActor |-> [path |-> 3, request |-> "SpawnActorRequest",
                     response |-> "SpawnActorResponse"],
     TerminateActor |-> [path |-> 4, request |-> "TerminateActorRequest",
                         response |-> "TerminateActorResponse"]]

ServiceMethods ==
    {[path |-> 0, request |-> "GetRequest", response |-> "GetResponse", calls |-> "Get"],
     [path |-> 1, request |-> "SetRequest", response |-> "SetResponse", calls |-> "Set"],
     [path |-> 2, request |-> "SubscribeRequest", response |-> "SubscribeResponse",
      calls |-> "Subscribe"],
     [path |-> 3, request |-> "SpawnActorRequest", response |-> "SpawnActorResponse",
      calls |-> "SpawnActor"],
     [path |-> 4, request |-> "TerminateActorRequest", response |-> "TerminateActorResponse",
      calls |-> "TerminateActor"]}

Service == CHOOSE m \in ServiceMethods : m.path = path

Request == StubMethods[method].request
Response == StubMethods[method].response

Sound == {""} \cup Text          \* strings that are UTF-8
Strings == Sound \cup Garbage

Field(n, k, v) == [number |-> n, kind |-> k, value |-> v]

\* Fields another client may send to class c: those of the table with any value, a field
\* with the other wire type than the table's, and a number the table does not have.
ForeignFields(c) ==
    UNION {CASE r.kind = "string" -> {Field(r.number, "string", v) : v \in Strings}
                                       \cup {Field(r.number, "bool", TRUE)}
             [] r.kind = "bool" -> {Field(r.number, "bool", v) : v \in BOOLEAN}
                                       \cup {Field(r.number, "string", "")}
             [] r.kind = "map" -> {Field(r.number, "map", Entry(k, v)) : k, v \in Strings}
                                       \cup {Field(r.number, "map", <<>>)}
                                       \cup {Field(r.number, "bool", TRUE)}
           : r \in Table[c]}
      \cup {Field(9, "bool", TRUE)}

ForeignWires(c) == UNION {[1..n -> ForeignFields(c)] : n \in 0..MaxForeign}

Init ==
    /\ method \in DOMAIN StubMethods
    /\ pc = "edit"
    /\ req = New(Request) /\ draft = New(Request)
    /\ given = [req |-> req.val, draft |-> draft.val]
    /\ library = TRUE
    /\ path = 0 /\ size = 0 /\ wire = <<>>
    /\ sreq = New(Request)
    /\ resp = New(Response) /\ filled = resp.val
    /\ status = "OK"
    /\ edits = 0 /\ calls = 0 /\ messages = 0

-----------------------------------------------------------------------------
(***************************************************************************)
(* The client edits its requests.  given keeps what the program means by   *)
(* it, without has-bits or storage.                                        *)
(***************************************************************************)
Edit ==
    /\ pc = "edit" /\ edits < MaxEdits /\ calls < MaxCalls
    /\ edits' = edits + 1
    /\ UNCHANGED <<method, pc, library, carried, sreq, filled, resp, status, calls, messages>>

NewValues(f) ==
    LET kind == Row(Request, f).kind IN
    CASE kind = "string" -> Strings
      [] kind = "bool" -> BOOLEAN
      [] kind = "map" -> {(k :> v) @@ req.val[f] : k, v \in Strings}

EditSet ==
    /\ Edit
    /\ \E f \in Names(Request) : \E v \in NewValues(f) :
        /\ req' = SetField(req, Request, f, v)
        /\ given' = [given EXCEPT !.req[f] = v]
    /\ UNCHANGED draft

EditClearField ==
    /\ Edit
    /\ \E f \in Names(Request) :
        /\ req' = ClearField(req, Request, f)
        /\ given' = [given EXCEPT !.req[f] = Default[Row(Request, f).kind]]
    /\ UNCHANGED draft

EditRelease ==
    /\ Edit
    /\ \E r \in StringRows(Request) :
        /\ req' = ReleaseField(req, Request, r.name)
        /\ given' = [given EXCEPT !.req[r.name] = ""]
    /\ UNCHANGED draft

EditClear ==
    /\ Edit
    /\ req' = Clear(req, Request)
    /\ given' = [given EXCEPT !.req = New(Request).val]
    /\ UNCHANGED draft

EditCopy ==
    /\ Edit
    /\ draft' = CopyFrom(draft, req, Request)
    /\ given' = [given EXCEPT !.draft = given.req]
    /\ UNCHANGED req

\* Merging overwrites by what is not empty, and adds to maps.
EditMerge ==
    /\ Edit
    /\ req' = MergeFrom(req, draft, Request)
    /\ given' = [given EXCEPT !.req = [f \in Names(Request) |->
                    IF Row(Request, f).kind = "map" THEN given.draft[f] @@ @[f]
                    ELSE IF given.draft[f] = Default[Row(Request, f).kind] THEN @[f]
                    ELSE given.draft[f]]]
    /\ UNCHANGED draft

\* InternalSwap.
EditSwap ==
    /\ Edit
    /\ req' = draft /\ draft' = req
    /\ given' = [req |-> given.draft, draft |-> given.req]

\* The client parses a stored request, which another program may have written.
EditParse ==
    /\ Edit
    /\ \E x \in ForeignFields(Request) :
        LET p == Parse(draft, Request, <<x>>) IN
        /\ p.ok
        /\ draft' = p.obj
        /\ given' = [given EXCEPT !.draft = p.obj.val]
    /\ UNCHANGED req

-----------------------------------------------------------------------------
(***************************************************************************)
(* The call.                                                               *)
(***************************************************************************)
SendAs(mine, fields, bytes) ==
    /\ pc = "edit" /\ calls < MaxCalls
    /\ pc' = "request" /\ calls' = calls + 1
    /\ library' = mine
    /\ path' = StubMethods[method].path
    /\ wire' = fields /\ size' = bytes
    /\ UNCHANGED <<method, client, sreq, filled, resp, status, edits, messages>>

Send == SendAs(TRUE, Serialize(req, Request), ByteSizeLong(req, Request))

\* What another client sends does not depend on this client's objects: it is enough to let
\* it send while they are new.
ForeignSend ==
    /\ edits = 0
    /\ \E w \in ForeignWires(Request) : SendAs(FALSE, w, Len(w))

\* A new request object is parsed; the handler is called only if that succeeds.
ServerParse ==
    LET p == Parse(New(Service.request), Service.request, wire) IN
    /\ pc = "request"
    /\ sreq' = p.obj
    /\ pc' = IF p.ok THEN "handle" ELSE "read"
    /\ status' = IF p.ok THEN "OK" ELSE "INTERNAL"
    /\ UNCHANGED <<method, client, library, carried, filled, resp, edits, calls, messages>>

\* The handler of m returns OK, having called the setters sets, a sequence of fields and
\* values, on a new response.
Reply(m, sets) ==
    LET c == Service.response
        out == FoldLeft(LAMBDA o, s : SetField(o, c, s[1], s[2]), New(c), sets)
    IN  /\ pc = "handle" /\ Service.calls = m
        /\ pc' = "reply"
        /\ wire' = Serialize(out, c) /\ size' = ByteSizeLong(out, c)
        /\ filled' = FoldLeft(LAMBDA v, s : [v EXCEPT ![s[1]] = s[2]], New(c).val, sets)
        /\ UNCHANGED <<method, client, library, path, sreq, resp, status, edits, calls>>

Get ==
    /\ \/ \E v \in Sound : Reply("Get", <<<<"value", v>>, <<"found", TRUE>>>>)
       \/ Reply("Get", <<<<"found", FALSE>>>>)
    /\ UNCHANGED messages

Set ==
    /\ \E success \in BOOLEAN : Reply("Set", <<<<"success", success>>>>)
    /\ UNCHANGED messages

SpawnActor ==
    /\ \/ Reply("SpawnActor", <<<<"success", TRUE>>>>)
       \/ Reply("SpawnActor", <<<<"success", FALSE>>,
                                <<"error_message", "Failed to spawn actor">>>>)
    /\ UNCHANGED messages

TerminateActor ==
    /\ \/ Reply("TerminateActor", <<<<"success", TRUE>>>>)
       \/ Reply("TerminateActor", <<<<"success", FALSE>>,
                                    <<"error_message", "Failed to terminate actor">>>>)
    /\ UNCHANGED messages

\* publish_change builds the message of a change of the actor, the callback copies it and
\* the stream writes the copy.
Subscribe ==
    /\ messages < MaxMessages
    /\ messages' = messages + 1
    /\ \E key, value \in Sound :
        Reply("Subscribe", <<<<"actor_id", sreq.val["actor_id"]>>, <<"key", key>>,
                             <<"value", value>>, <<"event_type", "UPDATED">>>>)

\* The stream ends, or is refused before its first message.
SubscribeReturn ==
    /\ pc = "handle" /\ Service.calls = "Subscribe"
    /\ pc' = "read"
    /\ status' \in (IF messages = 0 THEN {"OK", "NOT_FOUND"} ELSE {"OK"})
    /\ UNCHANGED <<method, client, library, carried, sreq, filled, resp, edits, calls, messages>>

\* gRPC clears the client's object and parses into it.
ClientParse ==
    /\ pc = "reply"
    /\ resp' = IF library THEN Parse(resp, Response, wire).obj ELSE resp
    /\ pc' = IF method = "Subscribe" THEN "handle" ELSE "read"
    /\ UNCHANGED <<method, client, library, carried, sreq, filled, status, edits, calls, messages>>

Done ==
    /\ pc = "read"
    /\ pc' = "edit"
    /\ sreq' = New(Request) /\ wire' = <<>> /\ size' = 0 /\ path' = 0
    /\ filled' = New(Response).val
    /\ status' = "OK" /\ library' = TRUE /\ messages' = 0
    /\ UNCHANGED <<method, client, resp, edits, calls>>

Next ==
    \/ EditSet \/ EditClearField \/ EditRelease \/ EditClear
    \/ EditCopy \/ EditMerge \/ EditSwap \/ EditParse
    \/ Send \/ ForeignSend \/ ServerParse
    \/ Get \/ Set \/ SpawnActor \/ TerminateActor \/ Subscribe \/ SubscribeReturn
    \/ ClientParse \/ Done

Spec == Init /\ [][Next]_vars

-----------------------------------------------------------------------------
(***************************************************************************)
(* Properties.                                                             *)
(***************************************************************************)
\* What the last field of number n in a wire says.
LastOf(w, r) ==
    LET at == {i \in DOMAIN w : w[i].number = r.number /\ w[i].kind = r.kind} IN
    IF at = {} THEN Default[r.kind] ELSE w[CHOOSE i \in at : \A j \in at : j <= i].value

\* The handler that runs is the one of the method that was called, and it sees the values
\* the client program gave, whatever edits, copies and merges went before and in whatever
\* object; from another client, it sees for each scalar the last value sent.  A handler
\* never sees a string that is not UTF-8.  The announced size is what is written.
RequestArrives ==
    pc = "handle" =>
        /\ Service.calls = method
        /\ library => sreq.val = given.req
        /\ ~library /\ messages = 0 =>
              \A r \in Table[Request] : r.kind # "map" => sreq.val[r.name] = LastOf(wire, r)
        /\ \A r \in StringRows(Request) : sreq.val[r.name] \notin Garbage
        /\ \A r \in {x \in Table[Request] : x.kind = "map"} :
              LET m == sreq.val[r.name] IN \A k \in DOMAIN m : {k, m[k]} \cap Garbage = {}

\* What the client reads is what the handler filled in, with nothing left over from an
\* earlier call or message in the reused object.
ResponseArrives ==
    pc = "reply" =>
        LET p == Parse(resp, Response, wire) IN p.ok /\ p.obj.val = filled

\* Requests and responses arrive (RequestArrives, ResponseArrives), in as many fields as
\* ByteSizeLong announced.
RoundTrip == RequestArrives /\ ResponseArrives /\ Len(wire) = size

Objects == {<<req, Request>>, <<draft, Request>>, <<sreq, Request>>, <<resp, Response>>}

\* A value that is not the default has its has-bit, so that it is written and cleared; and a
\* has-bit of a string is set only if the string has storage of its own, because Clear
\* empties what the bit stands for (ClearNonDefaultToEmpty) and would otherwise write to the
\* empty string that all messages of the process share.
BitsTellTruth ==
    \A x \in Objects : \A r \in ToSet(Body[x[2]]) :
        LET o == x[1] IN
        /\ r.kind # "map" /\ o.val[r.name] # Default[r.kind] => r.bit \in o.bits
        /\ r.kind = "string" /\ r.bit \in o.bits => r.name \in o.own

\* Merging one object into another has the effect of parsing their two encodings one after
\* the other, on every field and on the unknown ones.  (Strings that are not UTF-8 do not
\* parse at all.)
MergeIsConcatenation ==
    pc = "edit" =>
        LET p == Parse(New(Request), Request,
                       Serialize(req, Request) \o Serialize(draft, Request))
            m == MergeFrom(req, draft, Request)
        IN  p.ok => p.obj.val = m.val /\ p.obj.unknown = m.unknown
=============================================================================
