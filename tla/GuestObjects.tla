---------------------------- MODULE GuestObjects ----------------------------
(***************************************************************************)
(* The C functions the guests export, by who owns which object: what       *)
(* unpack allocates for a message, what the function takes itself, what    *)
(* the result shares with the message, and what is freed in the end.       *)
(* Between them stand GuestPlugin, where the objects are what the          *)
(* generated code makes of the descriptors, and Plugin, where there are    *)
(* none.                                                                   *)
(*                                                                         *)
(* A struct lies at one address; each of its parts says something and      *)
(* refers to the objects it hangs on.  An allocator may use an address     *)
(* again once it is free.  malloc always succeeds.                         *)
(***************************************************************************)
EXTENDS Sequences, Promises

CONSTANTS
    Exports,    \* the functions
    Contents,   \* what is in the messages Java sends, for each function
    Addresses,
    Layouts,    \* objects unpack may make for the parts of a message
    Nothing

Parts(function) ==
    IF function = "filter"
    THEN {"id", "source", "spec_version", "type", "data", "attributes"}
    ELSE {"payload", "headers", "entries"}      \* the array, and what is in it

(* Java writes the headers of a map, which has a key once. *)
ASSUME ObjectsAssumption ==
    /\ Exports \subseteq {"predicate", "request", "response", "filter"}
    /\ \A f \in Exports : Layouts[f] \subseteq [Parts(f) -> SUBSET Addresses]
    /\ \A f \in Exports : \A c \in Contents[f] :
          /\ [function |-> f, message |-> JavaMessage(f, c)] # Nothing
          /\ IF f = "filter" THEN c = [name \in Parts(f) |-> c[name]]
             ELSE /\ c \in [payload : STRING, headers : Seq([key : STRING, value : STRING])]
                  /\ \A i, j \in DOMAIN c.headers :
                        c.headers[i].key = c.headers[j].key => i = j

VARIABLES
    call,       \* what Java calls, [function, message], and
    reply,      \* the last reply it got
    input,      \* the content of the encoded message
    pc,
    allocated,  \* addresses of the objects there are
    msg,        \* the functions' local variables: two structs,
    result,
    buffer,     \* an address, and
    packed,     \* what is written there
    own         \* history: what malloc returned to the functions themselves

vars == <<call, reply, input, pc, allocated, msg, result, buffer, packed, own>>

Objects(struct) == {struct.at} \cup UNION {struct.refs[p] : p \in DOMAIN struct.refs}

Init ==
    /\ call = Nothing /\ reply = Nothing /\ input = Nothing
    /\ pc = "idle"
    /\ allocated = {} /\ own = {}
    /\ msg = Nothing /\ result = Nothing /\ buffer = Nothing /\ packed = Nothing

(* The function that runs has unpacked its message. *)
UnpackedBy(function) == pc = "unpacked" /\ call.function = function

(* The host calls a function. *)
Called ==
    /\ pc = "idle" /\ pc' = "called"
    /\ \E f \in Exports : \E c \in Contents[f] :
          /\ call' = [function |-> f, message |-> JavaMessage(f, c)]
          /\ input' = c
    /\ reply' = Nothing
    /\ UNCHANGED <<allocated, msg, result, buffer, packed, own>>

(* All that unpack makes of the message is newly allocated. *)
Unpacks ==
    /\ pc = "called" /\ pc' = "unpacked"
    /\ msg' \in [at : Addresses, refs : Layouts[call.function], says : {input}]
    /\ Objects(msg') \cap allocated = {}
    /\ allocated' = allocated \cup Objects(msg')
    /\ UNCHANGED <<call, reply, input, result, buffer, packed, own>>

(* The function ends, its local variables are gone. *)
Ends(freed, answer) ==
    /\ pc' = "idle"
    /\ call' = Nothing /\ reply' = answer /\ input' = Nothing
    /\ allocated' = allocated \ freed
    /\ msg' = Nothing /\ result' = Nothing /\ buffer' = Nothing /\ packed' = Nothing
    /\ UNCHANGED own

(* predicate: looks for the key among the headers, and frees the message. *)
Scans ==
    /\ UnpackedBy("predicate")
    /\ Ends(Objects(msg),
            \E i \in DOMAIN msg.says.headers : msg.says.headers[i].key = "one")

(* The function takes the objects mine for itself, and makes a result. *)
Takes(mine) ==
    /\ mine \cap allocated = {}
    /\ allocated' = allocated \cup mine
    /\ own' = own \cup mine

Builds(struct) ==
    /\ pc' = "built"
    /\ result' = struct
    /\ UNCHANGED <<call, reply, input, msg, buffer, packed>>

(* Faulty: the message is freed once its members are copied. *)
BuildsRequest_Frees ==
    /\ UnpackedBy("request") /\ pc' = "built"
    /\ \E a \in Addresses \ allocated :
          /\ allocated' = (allocated \ Objects(msg)) \cup {a}
          /\ own' = own \cup {a}
          /\ result' = [msg EXCEPT !.at = a]
    /\ UNCHANGED <<call, reply, input, msg, buffer, packed>>

(* The result's members are the message's. *)
BuildsRequest ==
    /\ UnpackedBy("request")
    /\ \E a \in Addresses : Takes({a}) /\ Builds([msg EXCEPT !.at = a])

Header == [key |-> "one", value |-> "two"]

(* The array is the function's own, and has the message's entries and one *)
(* that is its own: three objects, at different addresses.                *)
WithHeader(headers) ==
    /\ UnpackedBy("response") /\ pc' = "built"
    /\ result' \in [at : Addresses,
                    refs : [payload : {msg.refs.payload},
                            headers : {{array} : array \in Addresses},
                            entries : {msg.refs.entries \cup {header} :
                                          header \in Addresses \ allocated}],
                    says : {[msg.says EXCEPT !.headers = headers]}]
    /\ result'.at \notin result'.refs.headers \cup result'.refs.entries
    /\ result'.refs.headers \cap result'.refs.entries = {}
    /\ Takes({result'.at} \cup result'.refs.headers \cup (result'.refs.entries \ msg.refs.entries))
    /\ UNCHANGED <<call, reply, input, msg, buffer, packed>>

(* Faulty: the header comes first, and the message's own overrides it. *)
BuildsResponse_First == WithHeader(<<Header>> \o msg.says.headers)

BuildsResponse == WithHeader(Append(msg.says.headers, Header))

(* All members but the id, which is a constant of the program. *)
BuildsFilter ==
    /\ UnpackedBy("filter")
    /\ \E a \in Addresses :
          /\ Takes({a})
          /\ Builds([at |-> a, refs |-> [msg.refs EXCEPT !["id"] = {}],
                     says |-> [msg.says EXCEPT !["id"] = "1-5150"]])

(* len = get_packed_size(result); buffer = malloc(len). *)
Measures ==
    /\ pc = "built" /\ pc' = "measured"
    /\ buffer' \in Addresses /\ Takes({buffer'})
    /\ UNCHANGED <<call, reply, input, msg, result, packed>>

(* What is no longer allocated may say anything, which is no message here. *)
Packs ==
    /\ pc = "measured" /\ pc' = "packed"
    /\ packed' = IF Objects(result) \subseteq allocated THEN result.says ELSE Nothing
    /\ UNCHANGED <<call, reply, input, allocated, msg, result, buffer, own>>

(* Faulty: frees the struct, and not what hangs from it. *)
Returns_ShallowFree ==
    pc = "packed" /\ Ends({msg.at}, JavaMessage(call.function, packed))

(* The message is freed; the host reads what the returned Wrapper points to. *)
Returns == pc = "packed" /\ Ends(Objects(msg), JavaMessage(call.function, packed))

Next ==
    \/ Called \/ Unpacks \/ Scans
    \/ BuildsRequest \/ BuildsResponse \/ BuildsFilter
    \/ Measures \/ Packs \/ Returns

Spec == Init /\ [][Next]_vars

-----------------------------------------------------------------------------
(* A message whose objects the result shares lives as long as either is      *)
(* used, wherever the allocator puts things, and freeing it takes nothing    *)
(* that the function keeps: neither the buffer it returns nor an object of   *)
(* the result's own (message.c:39-40).                                       *)
SoundObjects ==
    /\ pc \in {"unpacked", "built", "measured", "packed"} =>
          Objects(msg) \subseteq allocated \ own
    /\ pc \in {"built", "measured", "packed"} =>
          Objects(result) \subseteq allocated /\ result.at \in own
    /\ pc \in {"measured", "packed"} => buffer \in own \cap allocated
    /\ pc = "packed" => packed = result.says

(* A call that has returned leaves nothing of its message in the guest, only *)
(* what the functions took themselves and never free.                        *)
MessageReleased == pc = "idle" => allocated = own

Answers == INSTANCE Plugin

(* The C functions keep the promises Java relies on: predicate tells whether *)
(* there is a header "one", request returns the message as it is, response   *)
(* with "one" set to "two", filter with another id and all else as it was.   *)
PluginSpec == Answers!Spec
=============================================================================
