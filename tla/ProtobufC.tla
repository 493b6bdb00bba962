----------------------------- MODULE ProtobufC ------------------------------
(***************************************************************************)
(* The functions of the generated code over the guest's heap: init,        *)
(* get_packed_size, pack, unpack and free_unpacked of any message, as the  *)
(* protobuf-c library runs them from the descriptor.                       *)
(*                                                                         *)
(* The heap maps addresses, which are never used twice, to objects: a      *)
(* struct with its members, a string or the bytes of a field, the array of *)
(* a repeated field.  fault is set by the accesses C leaves undefined: to  *)
(* what is not allocated, freeing what is not, and by a failing assert.    *)
(*                                                                         *)
(* An encoded message is a tree: a function from paths to the messages in  *)
(* it.  A path is a sequence of steps <<id, i>>, to the i-th message in    *)
(* the field with the number id; the message itself is at <<>>.  At a path *)
(* are the name of the message and, for the numbers of the fields that are *)
(* written, their values: <<"number", n>>, <<"text", s>> for a string or   *)
(* bytes, and Within for a message, which has a path of its own.           *)
(***************************************************************************)
EXTENDS Descriptors, SequencesExt, FiniteSetsExt

CONSTANT Depth  \* bound: of messages within messages

ASSUME DepthAssumption == Depth \in Nat

Within == <<"message", "">>

EmptyHeap == [objects |-> <<>>, next |-> 1, fault |-> FALSE]

(* The address of what the n-th allocation made for a field of the message at *)
(* a path, or for the message's struct, if the field is 0.                    *)
At(n, path, id) == <<"heap", <<n, path, id>>>>
Top(n) == At(n, <<>>, 0)

IsAllocated(heap, word) == word[1] = "heap" /\ word[2] \in DOMAIN heap.objects
Object(heap, word) == heap.objects[word[2]]
Member(heap, pointer, member) == Object(heap, pointer).at[member]

Allocate(heap, made) ==
    [heap EXCEPT !.objects = [a \in DOMAIN made \cup DOMAIN @ |->
                                 IF a \in DOMAIN made THEN made[a] ELSE @[a]],
                 !.next = @ + 1]

(* malloc: the object's address is Top(heap.next). *)
Malloc(heap, object) == Allocate(heap, [a \in {Top(heap.next)[2]} |-> object])

(* X x = malloc(sizeof(X)); x__init(x); *)
New(heap, functions) == Malloc(heap, [of |-> functions.descriptor, at |-> functions.init])

-----------------------------------------------------------------------------
(* unpack *)

(* int_range_lookup, for the one range of numbers these descriptors have. *)
FieldOf(descriptor, id) ==
    descriptor.fields[descriptor.ranges[1].index + id - descriptor.ranges[1].start + 1]

(* The message the descriptors give for a path, from the message around it. *)
MessageAt(name, wire, path) ==
    IF path = <<>> THEN name
    ELSE FieldOf(DescriptorOf(wire[Front(path)].of), Last(path)[1]).message

(* A field that has a string, bytes or an array of its own. *)
IsHeld(field, values) ==
    \/ field.label = "repeated" \/ field.type = "string"
    \/ field.type = "bytes" /\ values[1] # <<"text", "">>

(* Of the length of bytes it matters whether there are any. *)
LengthOf(text) == IF text = "" THEN Zero ELSE <<"length", text>>

FieldWords(n, path, id, field, values) ==
    LET held == IF IsHeld(field, values) THEN At(n, path, id) ELSE Zero
    IN IF field.label = "repeated" \/ field.type = "string" THEN <<held>>
       ELSE IF field.type = "message" THEN <<At(n, Append(path, <<id, 1>>), 0)>>
       ELSE IF field.type = "bytes" THEN <<LengthOf(values[1][2]), held>>
       ELSE [i \in 1..Words(field.type) |-> IF i = 1 THEN <<"int", values[1][2]>> ELSE Zero]

(* The struct of the message at a path: a member of a union takes the first *)
(* words of it, and what is not written stays as init leaves it.            *)
StructOf(n, path, name, fields) ==
    LET field(id) == FieldOf(DescriptorOf(name), id)
        of(m) == {id \in DOMAIN fields : field(id).member = m}
        by(m) == {id \in DOMAIN fields : field(id).quantifier = m}
        words(id) == FieldWords(n, path, id, field(id), fields[id])
        count(id) == IF IsOneOf(field(id)) THEN field(id).id ELSE Len(fields[id])
        init == DescriptorOf(name).struct
    IN [of |-> name,
        at |-> [m \in DOMAIN init |->
                  IF of(m) # {}
                  THEN LET new == words(CHOOSE id \in of(m) : TRUE)
                       IN [i \in DOMAIN init[m] |-> IF i \in DOMAIN new THEN new[i] ELSE init[m][i]]
                  ELSE IF by(m) # {} THEN <<<<"int", count(CHOOSE id \in by(m) : TRUE)>>>>
                  ELSE init[m]]]

PartOf(n, path, id, field, values) ==
    IF field.label = "repeated"
    THEN [items |-> [i \in DOMAIN values |-> At(n, Append(path, <<id, i>>), 0)]]
    ELSE [text |-> values[1][2]]

(* The struct is Top(heap.next). *)
Unpack(functions, heap, wire) ==
    LET n == heap.next
        name(p) == MessageAt(functions.descriptor, wire, p)
        field(p, id) == FieldOf(DescriptorOf(name(p)), id)
        held(p) == {id \in DOMAIN wire[p].fields : IsHeld(field(p, id), wire[p].fields[id])}
        parts == UNION {{<<n, p, id>> : id \in held(p)} : p \in DOMAIN wire}
    IN Allocate(heap, [a \in {<<n, p, 0>> : p \in DOMAIN wire} \cup parts |->
           IF a[3] = 0 THEN StructOf(n, a[2], name(a[2]), wire[a[2]].fields)
           ELSE PartOf(n, a[2], a[3], field(a[2], a[3]), wire[a[2]].fields[a[3]])])

-----------------------------------------------------------------------------
(* pack and get_packed_size *)

IsSet(field, struct) ==
    LET first == struct.at[field.member][1]
    IN IF IsOneOf(field)
       THEN /\ struct.at[field.quantifier][1] = <<"int", field.id>>
            /\ field.type \in {"string", "message"} => first \notin {Zero, field.default}
       ELSE first # Zero

(* The words of each of the values a field has in a struct, or those that lead *)
(* to an array that is no longer allocated.                                    *)
Elements(heap, struct, field) ==
    LET words == struct.at[field.member]
        count == struct.at[field.quantifier][1][2]
    IN IF field.label = "repeated"
       THEN IF count = 0 THEN <<>>
            ELSE IF IsAllocated(heap, words[1])
            THEN [i \in 1..count |-> <<Object(heap, words[1]).items[i]>>]
            ELSE <<words>>
       ELSE IF IsSet(field, struct) THEN <<words>> ELSE <<>>

Pointer(field, words) == IF field.type = "bytes" THEN words[2] ELSE words[1]

(* What pack writes for one of them, or "freed" where it reads memory that is *)
(* no longer allocated.                                                       *)
PackValue(heap, field, words) ==
    LET pointer == Pointer(field, words)
    IN IF field.type \notin {"string", "bytes", "message"} THEN <<"number", words[1][2]>>
       ELSE IF pointer[1] = "static" THEN <<"text", pointer[2]>>
       ELSE IF pointer = Zero THEN <<"text", "">>
       ELSE IF ~IsAllocated(heap, pointer) THEN <<"freed", "">>
       ELSE IF field.type = "message" THEN Within
       ELSE <<"text", Object(heap, pointer).text>>

PackField(heap, struct, field) ==
    LET elements == Elements(heap, struct, field)
        values == [i \in DOMAIN elements |-> PackValue(heap, field, elements[i])]
    IN IF ~IsOneOf(field) /\ values = <<<<"text", "">>>> THEN <<>> ELSE values

PackStruct(heap, struct) ==
    LET fields == DescriptorOf(struct.of).fields
        values(i) == PackField(heap, struct, fields[i])
    IN [of |-> struct.of,
        fields |-> [id \in {fields[i].id : i \in {i \in DOMAIN fields : values(i) # <<>>}} |->
                       values(CHOOSE i \in DOMAIN fields : fields[i].id = id)]]

(* The library's walk through a message: the structs its structs point at. *)
Below(heap, visit) ==
    IF ~IsAllocated(heap, visit.at) THEN {}
    ELSE LET struct == Object(heap, visit.at)
             fields == DescriptorOf(struct.of).fields
             elements(field) == Elements(heap, struct, field)
         IN UNION {{[path |-> Append(visit.path, <<field.id, i>>), at |-> elements(field)[i][1]] :
                       i \in DOMAIN elements(field)} :
                    field \in {field \in ToSet(fields) : field.type = "message"}}

Reached(heap, pointer) ==
    LET level[d \in Nat] ==
            IF d = 0 THEN {[path |-> <<>>, at |-> pointer]}
            ELSE UNION {Below(heap, visit) : visit \in level[d - 1]}
    IN UNION {level[d] : d \in 0..Depth}

PackMessage(heap, pointer) ==
    LET visits == {visit \in Reached(heap, pointer) : IsAllocated(heap, visit.at)}
        at(p) == (CHOOSE visit \in visits : visit.path = p).at
    IN [p \in {visit.path : visit \in visits} |-> PackStruct(heap, Object(heap, at(p)))]

(* Tag, length and contents of every field; a character stands for a string. *)
Size(wire) ==
    LET contents(value) == IF value[1] = "text" THEN Len(value[2]) ELSE 0
        field(values) == MapThenSumSet(LAMBDA i: 2 + contents(values[i]), DOMAIN values)
        message(fields) == MapThenSumSet(LAMBDA id: field(fields[id]), DOMAIN fields)
    IN MapThenSumSet(LAMBDA p: message(wire[p].fields), DOMAIN wire)

(* The assert of each of the generated functions. *)
IsA(functions, heap, pointer) ==
    /\ IsAllocated(heap, pointer)
    /\ Object(heap, pointer).of = functions.descriptor

Pack(functions, heap, pointer) == PackMessage(heap, pointer)
GetPackedSize(functions, heap, pointer) == Size(PackMessage(heap, pointer))

-----------------------------------------------------------------------------
(* free_unpacked *)

(* What a struct has of its own: itself, its arrays, and texts that are *)
(* neither NULL nor the default nor a member of a union that is not set. *)
IsOwned(struct, field) ==
    LET pointer == Pointer(field, struct.at[field.member])
    IN IF field.label = "repeated" THEN struct.at[field.quantifier][1] # Zero
       ELSE /\ field.type \in {"string", "bytes"} /\ pointer \notin {Zero, field.default}
            /\ IsOneOf(field) => struct.at[field.quantifier][1] = <<"int", field.id>>

Owns(heap, visit) ==
    LET struct == Object(heap, visit.at)
        fields == IF IsAllocated(heap, visit.at) THEN DescriptorOf(struct.of).fields ELSE <<>>
    IN {[path |-> visit.path, field |-> 0, at |-> visit.at]} \cup
       {[path |-> visit.path, field |-> field.id,
         at |-> Pointer(field, struct.at[field.member])] :
            field \in {field \in ToSet(fields) : IsOwned(struct, field)}}

Parts(heap, pointer) == UNION {Owns(heap, visit) : visit \in Reached(heap, pointer)}

(* All of them are freed, those of a struct before the struct. *)
FreeMessage(heap, pointer) ==
    LET parts == Parts(heap, pointer)
        words == {part.at : part \in parts}
    IN [heap EXCEPT !.objects = [a \in {a \in DOMAIN @ : <<"heap", a>> \notin words} |-> @[a]],
                    !.fault = \/ @
                              \/ \E word \in words : ~IsAllocated(heap, word)
                              \/ \E x, y \in parts : x # y /\ x.at = y.at]

FreeUnpacked(functions, heap, pointer) == FreeMessage(heap, pointer)

-----------------------------------------------------------------------------
(* What Java writes: fields of the message, as often and with such values as *)
(* its .proto file says, at most one of a union, and messages within it of   *)
(* the class the field has.                                                  *)
ValuesOf(type) ==
    CASE type = "message" -> {Within}
      [] type \in {"string", "bytes"} -> {"text"} \X STRING
      [] OTHER -> {"number"} \X Nat

FieldNumbered(name, id) ==
    CHOOSE field \in ToSet(DescriptorOf(name).fields) : field.id = id

IsEncoding(name, wire) ==
    LET field(p, id) == FieldNumbered(wire[p].of, id)
    IN /\ <<>> \in DOMAIN wire /\ wire[<<>>].of = name
       /\ \A p \in DOMAIN wire :
             /\ p \in Seq(Nat \X Nat) /\ Len(p) <= Depth
             /\ wire[p].of \in Messages
             /\ DOMAIN wire[p].fields \subseteq {f.id : f \in ToSet(DescriptorOf(wire[p].of).fields)}
             /\ \A id \in DOMAIN wire[p].fields :
                   LET values == wire[p].fields[id]
                   IN /\ values \in Seq(ValuesOf(field(p, id).type)) \ {<<>>}
                      /\ field(p, id).label # "repeated" => Len(values) = 1
                      /\ \A other \in DOMAIN wire[p].fields :
                            field(p, other).member = field(p, id).member => other = id
                      /\ \A i \in DOMAIN values : values[i] = Within =>
                            /\ Append(p, <<id, i>>) \in DOMAIN wire
                            /\ wire[Append(p, <<id, i>>)].of = field(p, id).message
             /\ p = <<>> \/ \E q \in DOMAIN wire : \E id \in DOMAIN wire[q].fields :
                   \E i \in DOMAIN wire[q].fields[id] :
                      wire[q].fields[id][i] = Within /\ p = Append(q, <<id, i>>)

(* What a reader takes from it: a field outside a union that has its default *)
(* is the same as none.                                                      *)
Meaning(wire) ==
    LET tells(p, id) ==
            \/ IsOneOf(FieldNumbered(wire[p].of, id))
            \/ wire[p].fields[id][1] \notin {<<"text", "">>, <<"number", 0>>}
    IN [p \in DOMAIN wire |->
           [of |-> wire[p].of,
            fields |-> [id \in {id \in DOMAIN wire[p].fields : tells(p, id)} |-> wire[p].fields[id]]]]
=============================================================================
