---------------------------- MODULE GuestPlugin -----------------------------
(***************************************************************************)
(* The C functions the guests export: predicate, request and response of   *)
(* the gateway's guest and filter of the function's.  Each unpacks the     *)
(* message, builds a result that shares the message's own objects, packs   *)
(* it into a buffer and frees the message.                                 *)
(*                                                                         *)
(* malloc always succeeds; WasmRunner models a guest's memory that is full. *)
(***************************************************************************)
EXTENDS ProtobufC, Promises

CONSTANTS
    Exports,        \* the functions
    Encodings(_),   \* what Java writes of the messages of a function
    MaxCalls,       \* bound: calls of one instance
    Addresses,      \* bound: of all objects of a run
    Nothing

ASSUME ExportsAssumption == Exports \subseteq {"predicate", "request", "response", "filter"}

(* The bound leaves room for the headers of a message. *)
ASSUME DepthSuffices == "response" \in Exports => Depth >= 1

VARIABLES
    calls,     \* how often the instance was called
    call,      \* what Java calls, [function, message], and
    reply,     \* the last reply it got
    input,     \* the encoded message
    pc,
    heap,
    msg,       \* the functions' local variables
    result,
    len,
    buffer,
    own,       \* history: what malloc returned to the functions themselves
    seen       \* history: what of all this GuestObjects sees

guest == <<calls, call, reply, input, pc, heap, msg, result, len, buffer, own>>
vars == <<guest, seen>>

-----------------------------------------------------------------------------
TypeOf(function) == IF function = "filter" THEN cloud_event ELSE spring_message
Type == TypeOf(call.function)

ASSUME EncodingsAssumption ==
    \A f \in Exports : \A wire \in Encodings(f) : IsEncoding(TypeOf(f).descriptor, wire)

(* What is in an encoded message, as its classes and GuestObjects tell it. *)
ValuesIn(wire, p, id) ==
    IF p \in DOMAIN wire /\ id \in DOMAIN wire[p].fields THEN wire[p].fields[id] ELSE <<>>

TextIn(wire, p, id) == IF ValuesIn(wire, p, id) = <<>> THEN "" ELSE ValuesIn(wire, p, id)[1][2]

(* What some of its fields mean. *)
With(wire, ids) ==
    LET some(fields) == Restrict(fields, ids \cap DOMAIN fields)
    IN Meaning([p \in {p \in DOMAIN wire : p # <<>> => p[1][1] \in ids} |->
                   [of |-> wire[p].of,
                    fields |-> IF p = <<>> THEN some(wire[p].fields) ELSE wire[p].fields]])

Content(function, wire) ==
    IF function = "filter"
    THEN [id |-> TextIn(wire, <<>>, 1), source |-> TextIn(wire, <<>>, 2),
          spec_version |-> TextIn(wire, <<>>, 3), type |-> TextIn(wire, <<>>, 4),
          attributes |-> With(wire, {5}), data |-> With(wire, {6, 7, 8})]
    ELSE [payload |-> TextIn(wire, <<>>, 1),
          headers |-> [i \in DOMAIN ValuesIn(wire, <<>>, 2) |->
                          [key |-> TextIn(wire, <<<<2, i>>>>, 1),
                           value |-> TextIn(wire, <<<<2, i>>>>, 2)]]]

-----------------------------------------------------------------------------
Init ==
    /\ calls = 0
    /\ call = Nothing
    /\ reply = Nothing
    /\ input = <<>>
    /\ pc = "idle"
    /\ heap = EmptyHeap
    /\ msg = Zero
    /\ result = Zero
    /\ len = 0
    /\ buffer = Zero
    /\ own = {}
    /\ seen = [input |-> Nothing, msg |-> Nothing, result |-> Nothing, buffer |-> Nothing,
               packed |-> Nothing]

(* The host calls a function. *)
Called ==
    /\ pc = "idle" /\ calls < MaxCalls
    /\ \E f \in Exports : \E wire \in Encodings(f) :
          /\ call' = [function |-> f, message |-> JavaMessage(f, Content(f, wire))]
          /\ input' = wire
    /\ calls' = calls + 1
    /\ pc' = "called"
    /\ reply' = Nothing
    /\ UNCHANGED <<heap, msg, result, len, buffer, own>>

Unpacks ==
    /\ pc = "called"
    /\ heap' = Unpack(Type, heap, input)
    /\ msg' = Top(heap.next)
    /\ pc' = "unpacked"
    /\ UNCHANGED <<calls, call, reply, input, result, len, buffer, own>>

Headers(pointer) ==
    IF Member(heap, pointer, "n_headers")[1] = Zero THEN <<>>
    ELSE Object(heap, Member(heap, pointer, "headers")[1]).items

(* What is at a char pointer. *)
Text(pointer) == IF pointer[1] = "static" THEN pointer[2] ELSE Object(heap, pointer).text

(* predicate: looks for the key among the headers, and frees the message. *)
Scans ==
    /\ pc = "unpacked" /\ call.function = "predicate"
    /\ IsA(Type, heap, msg)
    /\ reply' = \E i \in DOMAIN Headers(msg) :
                    Text(Member(heap, Headers(msg)[i], "key")[1]) = "one"
    /\ call' = Nothing
    /\ heap' = FreeUnpacked(Type, heap, msg)
    /\ pc' = "idle"
    /\ UNCHANGED <<calls, input, msg, result, len, buffer, own>>

(* The heap with a new struct, the result, at the next address: some of its   *)
(* members are the message's, words and all.                                 *)
Shared(members) ==
    [New(heap, Type) EXCEPT !.objects[Top(heap.next)[2]].at =
        [m \in DOMAIN @ |-> IF m \in members THEN Member(heap, msg, m) ELSE @[m]]]

SpringMembers == {"payload", "headers", "n_headers"}

(* Steps of the functions that lead to a result. *)
Built(newHeap, mine) ==
    /\ heap' = newHeap
    /\ result' = Top(heap.next)
    /\ own' = own \union mine
    /\ pc' = "built"
    /\ UNCHANGED <<calls, call, reply, input, msg, len, buffer>>

(* Faulty: the message is freed as soon as its members are copied. *)
BuildsRequest_Frees ==
    /\ pc = "unpacked" /\ call.function = "request"
    /\ Built(FreeUnpacked(Type, Shared(SpringMembers), msg), {Top(heap.next)})

BuildsRequest ==
    /\ pc = "unpacked" /\ call.function = "request"
    /\ Built(Shared(SpringMembers), {Top(heap.next)})

(* response: the array is the guest's own, and has room for one header more, *)
(* which is made after it.                                                   *)
WithHeader(last) ==
    LET array == Top(heap.next + 1)
        header == Top(heap.next + 2)
        items == [i \in 1..(Len(Headers(msg)) + 1) |->
                     IF i = last THEN header ELSE Headers(msg)[i]]
        made == New(Malloc(Shared({"payload"}), [items |-> items]), spring_message__headers_entry)
    IN [made EXCEPT !.objects[header[2]].at.key = <<<<"static", "one">>>>,
                    !.objects[header[2]].at.value = <<<<"static", "two">>>>,
                    !.objects[Top(heap.next)[2]].at.headers = <<array>>,
                    !.objects[Top(heap.next)[2]].at.n_headers = <<<<"int", last>>>>]

BuildsResponse ==
    /\ pc = "unpacked" /\ call.function = "response"
    /\ Built(WithHeader(Len(Headers(msg)) + 1),
             {Top(heap.next), Top(heap.next + 1), Top(heap.next + 2)})

(* filter: as request does, but for the id. *)
Renamed(members) ==
    [Shared(members) EXCEPT !.objects[Top(heap.next)[2]].at.id = <<<<"static", "1-5150">>>>]

EventMembers ==
    {"source", "spec_version", "type", "data_case", "data", "n_attributes", "attributes"}

(* Faulty: the union is not copied, only what tells which member is there. *)
BuildsFilter_CaseOnly ==
    /\ pc = "unpacked" /\ call.function = "filter"
    /\ Built(Renamed(EventMembers \ {"data"}), {Top(heap.next)})

(* The union is copied member by member: binary_data takes both of its words, *)
(* text_data and proto_data the first again.                                  *)
BuildsFilter ==
    /\ pc = "unpacked" /\ call.function = "filter"
    /\ Built(Renamed(EventMembers), {Top(heap.next)})

(* len = get_packed_size(result); buffer = malloc(len). *)
Measures ==
    /\ pc = "built"
    /\ IsA(Type, heap, result)
    /\ len' = GetPackedSize(Type, heap, result)
    /\ heap' = Malloc(heap, [bytes |-> <<>>])
    /\ buffer' = Top(heap.next)
    /\ own' = own \union {Top(heap.next)}
    /\ pc' = "measured"
    /\ UNCHANGED <<calls, call, reply, input, msg, result>>

(* Of the buffer neither more nor less than what the host will read is written. *)
Packs ==
    /\ pc = "measured"
    /\ IsA(Type, heap, result)
    /\ heap' = [heap EXCEPT !.objects[buffer[2]].bytes = Pack(Type, heap, result),
                            !.fault = @ \/ Size(Pack(Type, heap, result)) # len]
    /\ pc' = "packed"
    /\ UNCHANGED <<calls, call, reply, input, msg, result, len, buffer, own>>

(* The message is freed; the host reads what the returned Wrapper points to. *)
Returns ==
    /\ pc = "packed"
    /\ IsA(Type, heap, msg)
    /\ heap' = FreeUnpacked(Type, heap, msg)
    /\ reply' = JavaMessage(call.function, Content(call.function, Object(heap, buffer).bytes))
    /\ call' = Nothing
    /\ pc' = "idle"
    /\ UNCHANGED <<calls, input, msg, result, len, buffer, own>>

Runs ==
    \/ Unpacks \/ Scans
    \/ BuildsRequest \/ BuildsResponse \/ BuildsFilter
    \/ Measures \/ Packs \/ Returns

Stops == pc = "idle" /\ calls = MaxCalls /\ UNCHANGED guest

-----------------------------------------------------------------------------
(* A struct as GuestObjects sees it, while there is one: with the objects that *)
(* hang on the fields of the message.                                           *)
Struct(function, h, pointer) ==
    LET isOf(part, id) == id = IF part.path = <<>> THEN part.field ELSE part.path[1][1]
        objects(parts) == {part.at[2] : part \in {part \in parts : part.at[1] = "heap"}}
        of(ids) == {part \in Parts(h, pointer) : \E id \in ids : isOf(part, id)}
        array == {part \in of({2}) : part.path = <<>>}
    IN IF ~IsAllocated(h, pointer) THEN Nothing
       ELSE [at |-> pointer[2],
             refs |-> IF function = "filter"
                      THEN [id |-> objects(of({1})), source |-> objects(of({2})),
                            spec_version |-> objects(of({3})), type |-> objects(of({4})),
                            attributes |-> objects(of({5})), data |-> objects(of({6, 7, 8}))]
                      ELSE [payload |-> objects(of({1})), headers |-> objects(array),
                            entries |-> objects(of({2}) \ array)],
             says |-> Content(function, Pack(TypeOf(function), h, pointer))]

Seen(function, wire, at, h, m, r, b) ==
    [input |-> IF at = "idle" THEN Nothing ELSE Content(function, wire),
     msg |-> IF at \in {"idle", "called"} THEN Nothing ELSE Struct(function, h, m),
     result |-> IF at \in {"idle", "called", "unpacked"} THEN Nothing
                ELSE Struct(function, h, r),
     buffer |-> IF at \in {"measured", "packed"} THEN b[2] ELSE Nothing,
     packed |-> IF at # "packed" THEN Nothing ELSE Content(function, Object(h, b).bytes)]

Next ==
    /\ Called \/ Runs \/ Stops
    /\ seen' = Seen(IF pc' = "idle" THEN Nothing ELSE call'.function, input', pc', heap',
                    msg', result', buffer')

Spec == Init /\ [][Next]_vars

-----------------------------------------------------------------------------
EventParts == {"id", "source", "spec_version", "type", "data", "attributes"}

Objects == INSTANCE GuestObjects WITH
    Contents <- [f \in Exports |-> {Content(f, wire) : wire \in Encodings(f)}],
    Layouts <- [f \in Exports |->
                   [(IF f = "filter" THEN EventParts ELSE {"payload", "headers", "entries"})
                    -> SUBSET Addresses]],
    allocated <- DOMAIN heap.objects, own <- {word[2] : word \in own},
    input <- seen.input, msg <- seen.msg, result <- seen.result,
    buffer <- seen.buffer, packed <- seen.packed

(* What the generated code makes of the descriptors is what the functions    *)
(* count on: unpack takes nothing but new objects and the result hangs on    *)
(* the message's, pack writes what the members say, and free_unpacked frees  *)
(* all that unpack made and nothing else, whatever the message holds.        *)
ObjectsSpec == Objects!Spec

NoneFreed(wire) ==
    \A p \in DOMAIN wire : \A id \in DOMAIN wire[p].fields :
        \A i \in DOMAIN wire[p].fields[id] : wire[p].fields[id][i][1] # "freed"

(* The guest never reads, writes or frees what is not allocated, fills the    *)
(* buffer it took and writes nothing beyond it, and no assert of the          *)
(* generated code fails: the message whose objects the result shares lives    *)
(* as long as the result is used.                                             *)
SoundHeap ==
    /\ ~heap.fault
    /\ pc \in {"unpacked", "built", "measured", "packed"} => IsA(Type, heap, msg)
    /\ pc \in {"built", "measured", "packed"} => IsA(Type, heap, result)
    /\ pc = "packed" => NoneFreed(Object(heap, buffer).bytes)
=============================================================================
