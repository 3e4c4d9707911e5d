------------------------------ MODULE Messages ------------------------------
(***************************************************************************)
(* proto/iquora.pb.{h,cc}: the message classes that protoc generated from  *)
(* iquora.proto, and what their operations do.                             *)
(*                                                                         *)
(* An object has a value for each field, a set of has-bits, the strings    *)
(* that have storage of their own (own; the others refer to the empty      *)
(* string that the whole process shares), and the fields it parsed and     *)
(* does not know.  For each class the generated code writes down the field *)
(* numbers and bits three times: in the parse table, in the body (Clear,   *)
(* _InternalSerialize, ByteSizeLong, MergeImpl, CopyFrom and InternalSwap) *)
(* and in the accessors.  The operations below take each from where the    *)
(* code has it.                                                            *)
(*                                                                         *)
(* A string is "", text, or garbage that is not UTF-8.  What is on the     *)
(* wire is a sequence of fields, each a number, a kind (its wire type) and *)
(* a value; the value of a map entry is itself such a sequence.            *)
(***************************************************************************)
EXTENDS Integers, FiniteSets, Sequences, SequencesExt, TLC

CONSTANTS Text, Garbage     \* sets of non-empty strings

ASSUME MessagesAssumption ==
    Text \cap Garbage = {} /\ "" \notin Text \cup Garbage

Str(n, f, b) == [number |-> n, name |-> f, kind |-> "string", bit |-> b]
Bool(n, f, b) == [number |-> n, name |-> f, kind |-> "bool", bit |-> b]
Map(n, f) == [number |-> n, name |-> f, kind |-> "map", bit |-> -1]

(***************************************************************************)
(* The parse table of each class, as a set of fields.                      *)
(***************************************************************************)
GetRequestTable == {Str(1, "actor_id", 0), Str(2, "key", 1)}
GetResponseTable == {Str(1, "value", 0), Bool(2, "found", 1)}
SetRequestTable == {Str(1, "actor_id", 0), Str(2, "key", 1), Str(3, "value", 2)}
SetResponseTable == {Bool(1, "success", 0)}
SubscribeRequestTable == {Str(1, "actor_id", 0)}
InitialStateEntryTable == {Str(1, "key", 0), Str(2, "value", 1)}
SpawnActorRequestTable == {Str(1, "actor_id", 0), Map(2, "initial_state")}
SpawnActorResponseTable == {Bool(1, "success", 1), Str(2, "error_message", 0)}
TerminateActorRequestTable == {Str(1, "actor_id", 0), Bool(2, "force", 1)}
TerminateActorResponseTable == {Bool(1, "success", 1), Str(2, "error_message", 0)}
SubscribeResponseTable ==
    {Str(1, "actor_id", 0), Str(2, "key", 1), Str(3, "value", 2), Str(4, "event_type", 3)}

Table ==
    [GetRequest |-> GetRequestTable,
     GetResponse |-> GetResponseTable,
     SetRequest |-> SetRequestTable,
     SetResponse |-> SetResponseTable,
     SubscribeRequest |-> SubscribeRequestTable,
     SpawnActorRequest |-> SpawnActorRequestTable,
     SpawnActorResponse |-> SpawnActorResponseTable,
     TerminateActorRequest |-> TerminateActorRequestTable,
     TerminateActorResponse |-> TerminateActorResponseTable,
     SubscribeResponse |-> SubscribeResponseTable]

(***************************************************************************)
(* The body of each class: its fields in the order they are written.       *)
(***************************************************************************)
GetRequestBody == <<Str(1, "actor_id", 0), Str(2, "key", 1)>>
GetResponseBody == <<Str(1, "value", 0), Bool(2, "found", 1)>>
SetRequestBody == <<Str(1, "actor_id", 0), Str(2, "key", 1), Str(3, "value", 2)>>
SetResponseBody == <<Bool(1, "success", 0)>>
SubscribeRequestBody == <<Str(1, "actor_id", 0)>>
SpawnActorRequestBody == <<Str(1, "actor_id", 0), Map(2, "initial_state")>>
SpawnActorResponseBody == <<Bool(1, "success", 1), Str(2, "error_message", 0)>>
TerminateActorRequestBody == <<Str(1, "actor_id", 0), Bool(2, "force", 1)>>
TerminateActorResponseBody == <<Bool(1, "success", 1), Str(2, "error_message", 0)>>
SubscribeResponseBody ==
    <<Str(1, "actor_id", 0), Str(2, "key", 1), Str(3, "value", 2), Str(4, "event_type", 3)>>

Body ==
    [GetRequest |-> GetRequestBody,
     GetResponse |-> GetResponseBody,
     SetRequest |-> SetRequestBody,
     SetResponse |-> SetResponseBody,
     SubscribeRequest |-> SubscribeRequestBody,
     SpawnActorRequest |-> SpawnActorRequestBody,
     SpawnActorResponse |-> SpawnActorResponseBody,
     TerminateActorRequest |-> TerminateActorRequestBody,
     TerminateActorResponse |-> TerminateActorResponseBody,
     SubscribeResponse |-> SubscribeResponseBody]

(***************************************************************************)
(* The accessors of each class: the bit of each field; a map has none.     *)
(***************************************************************************)
GetRequestAccessors == [actor_id |-> {0}, key |-> {1}]
GetResponseAccessors == [value |-> {0}, found |-> {1}]
SetRequestAccessors == [actor_id |-> {0}, key |-> {1}, value |-> {2}]
SetResponseAccessors == [success |-> {0}]
SubscribeRequestAccessors == [actor_id |-> {0}]
SpawnActorRequestAccessors == [actor_id |-> {0}, initial_state |-> {}]
SpawnActorResponseAccessors == [success |-> {1}, error_message |-> {0}]
TerminateActorRequestAccessors == [actor_id |-> {0}, force |-> {1}]
TerminateActorResponseAccessors == [success |-> {1}, error_message |-> {0}]
SubscribeResponseAccessors ==
    [actor_id |-> {0}, key |-> {1}, value |-> {2}, event_type |-> {3}]

Accessors ==
    [GetRequest |-> GetRequestAccessors,
     GetResponse |-> GetResponseAccessors,
     SetRequest |-> SetRequestAccessors,
     SetResponse |-> SetResponseAccessors,
     SubscribeRequest |-> SubscribeRequestAccessors,
     SpawnActorRequest |-> SpawnActorRequestAccessors,
     SpawnActorResponse |-> SpawnActorResponseAccessors,
     TerminateActorRequest |-> TerminateActorRequestAccessors,
     TerminateActorResponse |-> TerminateActorResponseAccessors,
     SubscribeResponse |-> SubscribeResponseAccessors]

Default == [string |-> "", bool |-> FALSE, map |-> <<>>]

Names(c) == DOMAIN Accessors[c]
Row(c, f) == CHOOSE r \in ToSet(Body[c]) : r.name = f
StringRows(c) == {r \in ToSet(Body[c]) : r.kind = "string"}

(***************************************************************************)
(* Operations.                                                             *)
(***************************************************************************)
New(c) ==
    [val |-> [f \in Names(c) |-> Default[Row(c, f).kind]],
     bits |-> {}, own |-> {}, unknown |-> <<>>]

\* set_f, and mutable_f with the value then given to it: Set and Mutable give a string that
\* has none a storage, for "" too.
SetField(o, c, f, v) ==
    [o EXCEPT !.val[f] = v, !.bits = @ \cup Accessors[c][f],
              !.own = IF Row(c, f).kind = "string" THEN @ \cup {f} ELSE @]

\* clear_f: the storage stays.
ClearField(o, c, f) ==
    [o EXCEPT !.val[f] = Default[Row(c, f).kind], !.bits = @ \ Accessors[c][f]]

\* release_f gives the storage away; nothing happens without the has-bit.
ReleaseField(o, c, f) ==
    IF Accessors[c][f] \cap o.bits = {} THEN o
    ELSE [ClearField(o, c, f) EXCEPT !.own = @ \ {f}]

\* Clear: a string without its bit is left alone; scalars and maps are always reset.
Clear(o, c) ==
    [o EXCEPT !.val = [f \in Names(c) |->
                        IF Row(c, f).kind = "string" /\ Row(c, f).bit \notin o.bits
                        THEN @[f] ELSE Default[Row(c, f).kind]],
              !.bits = {}, !.unknown = <<>>]

\* A field is written if its bit is set and its value is not the default.
Present(o, r) == r.bit \in o.bits /\ o.val[r.name] # Default[r.kind]

Entry(k, v) ==
    <<[number |-> 1, kind |-> "string", value |-> k],
      [number |-> 2, kind |-> "string", value |-> v]>>

\* What _InternalSerialize writes for field r: nothing, the field, or each entry of a map.
Written(o, r) ==
    IF r.kind = "map" THEN
        LET keys == SetToSeq(DOMAIN o.val[r.name]) IN
        [i \in DOMAIN keys |-> [number |-> r.number, kind |-> "map",
                                value |-> Entry(keys[i], o.val[r.name][keys[i]])]]
    ELSE IF Present(o, r) THEN
        <<[number |-> r.number, kind |-> r.kind, value |-> o.val[r.name]]>>
    ELSE <<>>

Serialize(o, c) ==
    FoldLeft(LAMBDA w, r : w \o Written(o, r), <<>>, Body[c]) \o o.unknown

\* Bug: a field that is set and empty is counted, though it is not written.
ByteSizeLong_CountsEmpty(o, c) ==
    FoldLeft(LAMBDA n, r : n + (IF r.kind = "map" THEN Cardinality(DOMAIN o.val[r.name])
                                ELSE IF r.bit \in o.bits THEN 1 ELSE 0),
             Len(o.unknown), Body[c])

\* ByteSizeLong, in fields: what the buffer for Serialize is allocated for.
ByteSizeLong(o, c) ==
    FoldLeft(LAMBDA n, r : n + (IF r.kind = "map" THEN Cardinality(DOMAIN o.val[r.name])
                                ELSE IF Present(o, r) THEN 1 ELSE 0),
             Len(o.unknown), Body[c])

\* Strings are checked to be UTF-8 (kUtf8String).  A parser state p has an object and ok,
\* whether the parse goes on.
ParseScalar(p, r, x) ==
    IF r.kind = "string" /\ x.value \in Garbage THEN [p EXCEPT !.ok = FALSE]
    ELSE [p EXCEPT !.obj.val[r.name] = x.value, !.obj.bits = @ \cup {r.bit},
                   !.obj.own = IF r.kind = "string" THEN @ \cup {r.name} ELSE @]

\* A map entry is parsed on its own, what it does not know discarded, and then put into the
\* map.
ParseEntry(wire) ==
    FoldLeft(LAMBDA p, x :
                LET rows == {r \in InitialStateEntryTable :
                                r.number = x.number /\ r.kind = x.kind}
                IN  IF rows = {} THEN p ELSE ParseScalar(p, CHOOSE r \in rows : TRUE, x),
             [ok |-> TRUE, obj |-> [val |-> [key |-> "", value |-> ""], bits |-> {}, own |-> {}]],
             wire)

\* A field whose number or wire type is not in the table is kept as unknown.
ParseField(p, c, x) ==
    LET rows == {r \in Table[c] : r.number = x.number /\ r.kind = x.kind}
        row == CHOOSE r \in rows : TRUE
    IN  IF rows = {} THEN [p EXCEPT !.obj.unknown = Append(@, x)]
        ELSE IF row.kind # "map" THEN ParseScalar(p, row, x)
        ELSE LET e == ParseEntry(x.value) IN
             [ok |-> p.ok /\ e.ok,
              obj |-> [p.obj EXCEPT !.val[row.name] =
                          (e.obj.val["key"] :> e.obj.val["value"]) @@ @]]

\* Fields are merged into o in the order they come; a failed parse stops where it is.
MergeFromWire(o, c, wire) ==
    FoldLeft(LAMBDA p, x : IF p.ok THEN ParseField(p, c, x) ELSE p,
             [ok |-> TRUE, obj |-> o], wire)

\* ParseFrom... clears the object first.
Parse(o, c, wire) == MergeFromWire(Clear(o, c), c, wire)

\* Bug: a value that was set overwrites, even the empty one.
MergeFrom_EmptyWins(o, from, c) ==
    [val |-> [f \in Names(c) |->
                LET r == Row(c, f) IN
                IF r.kind = "map" THEN from.val[f] @@ o.val[f]
                ELSE IF r.bit \in from.bits THEN from.val[f] ELSE o.val[f]],
     bits |-> o.bits \cup from.bits,
     own |-> o.own \cup {r.name : r \in {x \in StringRows(c) : x.bit \in from.bits}},
     unknown |-> o.unknown \o from.unknown]

\* Bug: an empty value that was set copies its bit, and no string.
MergeFrom_BitOnly(o, from, c) ==
    [val |-> [f \in Names(c) |->
                LET r == Row(c, f) IN
                IF r.kind = "map" THEN from.val[f] @@ o.val[f]
                ELSE IF Present(from, r) THEN from.val[f] ELSE o.val[f]],
     bits |-> o.bits \cup from.bits,
     own |-> o.own \cup {r.name : r \in {x \in StringRows(c) : Present(from, x)}},
     unknown |-> o.unknown \o from.unknown]

\* MergeImpl: a value that is not the default overwrites; maps are merged by key.  A string
\* that is set and empty gives the target's storage, if it has none.
MergeFrom(o, from, c) ==
    [val |-> [f \in Names(c) |->
                LET r == Row(c, f) IN
                IF r.kind = "map" THEN from.val[f] @@ o.val[f]
                ELSE IF Present(from, r) THEN from.val[f] ELSE o.val[f]],
     bits |-> o.bits \cup from.bits,
     own |-> o.own \cup {r.name : r \in {x \in StringRows(c) : x.bit \in from.bits}},
     unknown |-> o.unknown \o from.unknown]

CopyFrom(o, from, c) == MergeFrom(Clear(o, c), from, c)
=============================================================================
