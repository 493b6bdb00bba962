-------------------------- MODULE GuestPluginProofs --------------------------
(***************************************************************************)
(* Proofs about GuestPlugin: its functions never touch what is not         *)
(* allocated, and do what GuestObjects says, for any messages and any      *)
(* number of calls. The lemmas about the generated code are those of       *)
(* CodecProofs; of Codec's own variables nothing here speaks.              *)
(***************************************************************************)
EXTENDS GuestPlugin, CodecProofs

-----------------------------------------------------------------------------
(* A heap: what is allocated next is at a new address. *)
HeapOk(h) ==
    /\ h = [objects |-> h.objects, next |-> h.next, fault |-> FALSE]
    /\ h.next \in Nat
    /\ \A a \in DOMAIN h.objects : a[1] \in Nat /\ a[1] < h.next

Block(n) == <<n, <<>>, 0>>

(* What h has at the addresses, h2 has, too. *)
Agree(h, h2, addresses) ==
    \A a \in addresses : a \in DOMAIN h2.objects /\ h2.objects[a] = h.objects[a]

(* The addresses of blocks. *)
LEMMA Blocks ==
    ASSUME NEW n
    PROVE  /\ Top(n)[2] = Block(n) /\ Block(n)[1] = n
           /\ \A m : Block(m) = Block(n) => m = n
BY DEF Top, At, Block

(* A heap with one object more. *)
Grown(h, h2) ==
    /\ h2 = [objects |-> h2.objects, next |-> h.next + 1, fault |-> FALSE]
    /\ DOMAIN h2.objects = {Block(h.next)} \cup DOMAIN h.objects
    /\ Agree(h, h2, DOMAIN h.objects)
    /\ Block(h.next) \notin DOMAIN h.objects
    /\ HeapOk(h2)

(* malloc makes one object, at a new address. *)
LEMMA MallocGrows ==
    ASSUME NEW h, HeapOk(h), NEW object
    PROVE  Grown(h, Malloc(h, object)) /\ Malloc(h, object).objects[Block(h.next)] = object
<1> DEFINE made == [a \in {Block(h.next)} |-> object]
           objects == [a \in DOMAIN made \cup DOMAIN h.objects |->
                          IF a \in DOMAIN made THEN made[a] ELSE h.objects[a]]
           new == Malloc(h, object)
<1>1. new = [h EXCEPT !.objects = objects, !.next = @ + 1]
  <2>1. Malloc(h, object) = Allocate(h, [a \in {Top(h.next)[2]} |-> object])
    BY DEF Malloc
  <2>2. Malloc(h, object) = Allocate(h, made)
    BY <2>1, Blocks
  <2> HIDE DEF made
  <2> QED
    BY <2>2 DEF Allocate
<1>2. DOMAIN made = {Block(h.next)} /\ made[Block(h.next)] = object
  OBVIOUS
<1> HIDE DEF made
<1>3. /\ DOMAIN objects = {Block(h.next)} \cup DOMAIN h.objects
      /\ objects[Block(h.next)] = object
      /\ \A a \in DOMAIN h.objects : a # Block(h.next) => objects[a] = h.objects[a]
  BY <1>2
<1>4. Block(h.next) \notin DOMAIN h.objects
  BY Blocks DEF HeapOk
<1> HIDE DEF objects, new
<1>5. new = [objects |-> objects, next |-> h.next + 1, fault |-> FALSE]
  <2>1. h = [objects |-> h.objects, next |-> h.next, fault |-> h.fault] /\ h.fault = FALSE
    BY DEF HeapOk
  <2>2. new = [objects |-> objects, next |-> h.next + 1, fault |-> h.fault]
    BY <1>1, <2>1
  <2> QED
    BY <2>1, <2>2
<1>6. new.objects = objects /\ new.next = h.next + 1
  BY <1>5
<1>7. \A a \in DOMAIN objects : a[1] \in Nat /\ a[1] < h.next + 1
  BY <1>3, Blocks DEF HeapOk
<1>8. HeapOk(new)
  BY <1>5, <1>6, <1>7 DEF HeapOk
<1> QED
  BY <1>3, <1>4, <1>5, <1>6, <1>8 DEF Grown, Agree, new

(* unpack, and what is unpacked stays as long as its objects do. *)
LEMMA UnpackGrows ==
    ASSUME NEW functions, NEW h, HeapOk(h), NEW wire, TreeFits(functions.descriptor, wire)
    PROVE  LET new == Unpack(functions, h, wire)
           IN HeapOk(new) /\ HoldsTree(new, h.next, wire) /\ new.next = h.next + 1
<1> DEFINE new == Unpack(functions, h, wire)
<1>0. h = [objects |-> h.objects, next |-> h.next, fault |-> h.fault] /\ h.fault = FALSE
  BY DEF HeapOk
<1>1. /\ new = [objects |-> new.objects, next |-> h.next + 1, fault |-> h.fault]
      /\ DOMAIN new.objects = Made(h.next, wire) \cup DOMAIN h.objects
  BY <1>0, UnpackMakes
<1>2. HoldsTree(new, h.next, wire)
  BY <1>0, UnpackHolds
<1> HIDE DEF new
<1>3. \A a \in Made(h.next, wire) : a[1] = h.next
  BY DEF Made
<1>4. new.next = h.next + 1
  BY <1>1
<1>5. HeapOk(new)
  BY <1>0, <1>1, <1>3, <1>4 DEF HeapOk
<1> QED
  BY <1>2, <1>4, <1>5 DEF new

(* A message stays as long as its objects do. *)
LEMMA TreeStays ==
    ASSUME NEW name, NEW wire, TreeFits(name, wire), NEW h, NEW n, HoldsTree(h, n, wire),
           NEW h2, Agree(h, h2, Made(n, wire))
    PROVE  HoldsTree(h2, n, wire)
<1>1. ASSUME NEW p \in DOMAIN wire
      PROVE  /\ <<n, p, 0>> \in DOMAIN h2.objects
             /\ StructFits(h2, h2.objects[<<n, p, 0>>], n, p, wire[p].of, wire[p].fields)
  <2> DEFINE m == wire[p].of
             fields == wire[p].fields
             table == DescriptorOf(m).fields
             struct == h.objects[<<n, p, 0>>]
  <2>1. StructFits(h, struct, n, p, m, fields)
    BY DEF HoldsTree
  <2>2. \A q \in DOMAIN wire : <<n, q, 0>> \in DOMAIN h2.objects /\ h2.objects[<<n, q, 0>>] = h.objects[<<n, q, 0>>]
    BY DEF Made, Agree
  <2>3. ASSUME NEW id \in DOMAIN table, id \in DOMAIN fields
        PROVE  Kept(h2, n, p, id, table[id], fields[id])
    <3>1. Kept(h, n, p, id, table[id], fields[id])
      BY <2>1, <2>3 DEF StructFits
    <3>2. ASSUME IsHeld(table[id], fields[id])
          PROVE  /\ <<n, p, id>> \in DOMAIN h2.objects
                 /\ h2.objects[<<n, p, id>>] = PartOf(n, p, id, table[id], fields[id])
      <4>1. id \in HeldBy(m, fields)
        BY <2>3, <3>2 DEF HeldBy
      <4>2. <<n, p, id>> \in Made(n, wire)
        BY <4>1 DEF Made
      <4> QED
        BY <3>1, <3>2, <4>2 DEF Agree, Kept
    <3>3. ASSUME table[id].type = "message", NEW i \in DOMAIN fields[id]
          PROVE  <<n, Append(p, <<id, i>>), 0>> \in DOMAIN h2.objects
      <4>1. <<id, i>> \in StepsAt(wire, p)
        BY <2>3, <3>3 DEF StepsAt, StepsOf
      <4>2. Append(p, <<id, i>>) \in DOMAIN wire
        BY <4>1 DEF TreeFits
      <4> QED
        BY <2>2, <4>2
    <3> QED
      BY <3>2, <3>3 DEF Kept
  <2> HIDE DEF struct
  <2>4. StructFits(h2, struct, n, p, m, fields)
    BY <2>1, <2>3 DEF StructFits
  <2> QED
    BY <2>2, <2>4 DEF struct
<1> QED
  BY <1>1 DEF HoldsTree

(* free_unpacked of a message makes no fault. *)
LEMMA FreeShrinks ==
    ASSUME NEW name, NEW wire, TreeFits(name, wire), NEW h, HeapOk(h), NEW n, HoldsTree(h, n, wire)
    PROVE  HeapOk(FreeMessage(h, Top(n)))
<1> DEFINE new == FreeMessage(h, Top(n))
<1>1. h = [objects |-> h.objects, next |-> h.next, fault |-> FALSE]
  BY DEF HeapOk
<1>2. /\ new = [objects |-> new.objects, next |-> h.next, fault |-> FALSE]
      /\ DOMAIN new.objects = DOMAIN h.objects \ Made(n, wire)
  BY <1>1, FreedTree
<1> HIDE DEF new
<1>3. new.next = h.next
  BY <1>2
<1>4. HeapOk(new)
  BY <1>2, <1>3 DEF HeapOk
<1> QED
  BY <1>4 DEF new

(* What was there stays. *)
LEMMA GrownMore ==
    ASSUME NEW h, NEW h2, Grown(h, h2)
    PROVE  /\ HeapOk(h2) /\ h2.next = h.next + 1
           /\ \A a \in DOMAIN h.objects :
                 a \in DOMAIN h2.objects /\ h2.objects[a] = h.objects[a]
BY DEF Grown, Agree

(* The struct that was made gets its members. *)
LEMMA EditKeeps ==
    ASSUME NEW h, NEW h2, Grown(h, h2), NEW d, NEW init,
           h2.objects[Block(h.next)] = [of |-> d, at |-> init],
           NEW at, NEW h3, h3 = [h2 EXCEPT !.objects[Block(h.next)].at = at]
    PROVE  Grown(h, h3) /\ h3.objects[Block(h.next)] = [of |-> d, at |-> at]
<1> DEFINE b == Block(h.next)
<1>1. /\ h2 = [objects |-> h2.objects, next |-> h.next + 1, fault |-> h2.fault] /\ h2.fault = FALSE
      /\ DOMAIN h2.objects = {b} \cup DOMAIN h.objects /\ b \notin DOMAIN h.objects
      /\ \A a \in DOMAIN h.objects : a \in DOMAIN h2.objects /\ h2.objects[a] = h.objects[a]
  <2>1. h2 = [objects |-> h2.objects, next |-> h.next + 1, fault |-> FALSE]
    BY DEF Grown
  <2> QED
    BY <2>1 DEF Grown, Agree
<1> HIDE DEF b
<1>2. h3 = [h2 EXCEPT !.objects[b].at = at] /\ b \in DOMAIN h2.objects
  BY <1>1 DEF b
<1>3. /\ h3 = [objects |-> h3.objects, next |-> h.next + 1, fault |-> h2.fault]
      /\ DOMAIN h3.objects = DOMAIN h2.objects
      /\ h3.objects[b] = [h2.objects[b] EXCEPT !.at = at]
      /\ \A a \in DOMAIN h2.objects : a # b => h3.objects[a] = h2.objects[a]
  BY <1>1, <1>2
<1>4. h3.objects[b] = [of |-> d, at |-> at]
  BY <1>3 DEF b
<1>5. \A a \in DOMAIN h.objects : a \in DOMAIN h3.objects /\ h3.objects[a] = h.objects[a]
  BY <1>1, <1>3
<1>6. HeapOk(h2) /\ h3.next = h2.next
  BY <1>1, <1>3 DEF Grown
<1>7. h3 = [objects |-> h3.objects, next |-> h3.next, fault |-> FALSE]
  BY <1>1, <1>3
<1>8. HeapOk(h3)
  BY <1>3, <1>6, <1>7 DEF HeapOk
<1>9. h3 = [objects |-> h3.objects, next |-> h.next + 1, fault |-> FALSE]
  BY <1>1, <1>3
<1> QED
  BY <1>1, <1>3, <1>4, <1>5, <1>8, <1>9 DEF Grown, Agree, b

(* A new struct has the words of its initializer. *)
LEMMA NewGrows ==
    ASSUME NEW h, HeapOk(h), NEW functions
    PROVE  /\ Grown(h, New(h, functions))
           /\ New(h, functions).objects[Block(h.next)] =
                 [of |-> functions.descriptor, at |-> functions.init]
BY MallocGrows DEF New

(* A result has some members of the message, and initial words in the *)
(* others.                                                            *)
LEMMA SharedGrows ==
    ASSUME NEW members, HeapOk(heap)
    PROVE  /\ Grown(heap, Shared(members))
           /\ Shared(members).objects[Block(heap.next)] =
                 [of |-> Type.descriptor,
                  at |-> [m \in DOMAIN Type.init |->
                             IF m \in members THEN Member(heap, msg, m) ELSE Type.init[m]]]
<1> DEFINE h2 == New(heap, Type)
           b == Block(heap.next)
           new(init) == [m \in DOMAIN init |-> IF m \in members THEN Member(heap, msg, m) ELSE init[m]]
<1>1. Grown(heap, h2) /\ h2.objects[b] = [of |-> Type.descriptor, at |-> Type.init]
  BY NewGrows
<1> HIDE DEF h2
<1>2. Shared(members) = [h2 EXCEPT !.objects[b].at = new(h2.objects[b].at)]
  <2>1. Top(heap.next)[2] = b
    BY Blocks
  <2> QED
    BY <2>1 DEF Shared, h2
<1>3. new(h2.objects[b].at) = new(Type.init)
  <2>1. h2.objects[b].at = Type.init
    BY <1>1
  <2> QED
    BY <2>1
<1> HIDE DEF new
<1>4. Shared(members) = [h2 EXCEPT !.objects[b].at = new(Type.init)]
  BY <1>2, <1>3
<1>5. /\ Grown(heap, Shared(members))
      /\ Shared(members).objects[b] = [of |-> Type.descriptor, at |-> new(Type.init)]
  BY <1>1, <1>4, EditKeeps
<1> QED
  BY <1>5 DEF new

-----------------------------------------------------------------------------
(* The fields that the functions deal with. *)
LEMMA SpringRows ==
    LET D == DescriptorOf("SpringMessage")
    IN /\ DOMAIN D.fields = {1, 2} /\ D.struct = SpringMessageStruct
       /\ Row(D.fields[1], 1, "bytes", "none", "payload", "", "", Zero)
       /\ Row(D.fields[2], 2, "message", "repeated", "headers", "n_headers",
              "SpringMessage.HeadersEntry", Zero)
       /\ DOMAIN SpringMessageStruct = SpringMembers
<1> DEFINE fields == SpringMessage.fields
<1>1. DOMAIN SpringMessage.fields = {1, 2} /\ SpringMessage.struct = SpringMessageStruct
  <2>1. DOMAIN SpringMessage.fields = 1..2 /\ SpringMessage.struct = SpringMessageStruct
    BY DEF SpringMessage, Descriptor
  <2> QED
    BY <2>1
<1>2. Row(fields[1], 1, "bytes", "none", "payload", "", "", Zero)
  BY DEF Row, SpringMessage, Descriptor, Field, EmptyString, Zero
<1>3. Row(fields[2], 2, "message", "repeated", "headers", "n_headers", "SpringMessage.HeadersEntry", Zero)
  BY DEF Row, SpringMessage, Descriptor, Field, EmptyString, Zero, Sub, Repeated
<1>4. DOMAIN SpringMessageStruct = SpringMembers
  BY DEF SpringMessageStruct, SpringMembers
<1>5. DescriptorOf("SpringMessage") = SpringMessage
  BY Zenon DEF DescriptorOf
<1> QED
  BY <1>1, <1>2, <1>3, <1>4, <1>5

(* A header has a key and a value. *)
LEMMA HeadersEntryRows ==
    LET D == DescriptorOf("SpringMessage.HeadersEntry")
    IN /\ DOMAIN D.fields = {1, 2} /\ D.struct = SpringHeadersEntryStruct
       /\ Row(D.fields[1], 1, "string", "none", "key", "", "", EmptyString)
       /\ Row(D.fields[2], 2, "string", "none", "value", "", "", EmptyString)
<1> DEFINE fields == SpringHeadersEntry.fields
<1>1. DOMAIN SpringHeadersEntry.fields = {1, 2} /\ SpringHeadersEntry.struct = SpringHeadersEntryStruct
  <2>1. /\ DOMAIN SpringHeadersEntry.fields = 1..2
        /\ SpringHeadersEntry.struct = SpringHeadersEntryStruct
    BY DEF SpringHeadersEntry, Descriptor
  <2> QED
    BY <2>1
<1>2. Row(fields[1], 1, "string", "none", "key", "", "", EmptyString)
  BY DEF Row, SpringHeadersEntry, Descriptor, Field, EmptyString, Zero
<1>3. Row(fields[2], 2, "string", "none", "value", "", "", EmptyString)
  BY DEF Row, SpringHeadersEntry, Descriptor, Field, EmptyString, Zero
<1>4. DescriptorOf("SpringMessage.HeadersEntry") = SpringHeadersEntry
  BY Zenon DEF DescriptorOf
<1> QED
  BY <1>1, <1>2, <1>3, <1>4

(* An event has an id and the members that filter copies. *)
LEMMA CloudEventRows ==
    LET D == DescriptorOf("CloudEvent")
    IN /\ 1 \in DOMAIN D.fields /\ D.struct = CloudEventStruct
       /\ Row(D.fields[1], 1, "string", "none", "id", "", "", EmptyString)
       /\ DOMAIN CloudEventStruct = {"id"} \cup EventMembers /\ "id" \notin EventMembers
<1>1. DOMAIN CloudEvent.fields = 1..8 /\ CloudEvent.struct = CloudEventStruct
  BY DEF CloudEvent, Descriptor
<1>2. Row(CloudEvent.fields[1], 1, "string", "none", "id", "", "", EmptyString)
  BY DEF Row, CloudEvent, Descriptor, Field, EmptyString, Zero
<1>3. DOMAIN CloudEventStruct = {"id"} \cup EventMembers /\ "id" \notin EventMembers
  BY DEF CloudEventStruct, EventMembers
<1>4. DescriptorOf("CloudEvent") = CloudEvent
  BY Zenon DEF DescriptorOf
<1>5. 1 \in 1..8
  OBVIOUS
<1> QED
  BY <1>1, <1>2, <1>3, <1>4, <1>5

(* The members of a field, and those that two structs share. *)
SameMembers(s, t, f) ==
    /\ s.at[f.member] = t.at[f.member]
    /\ f.quantifier # "" => s.at[f.quantifier] = t.at[f.quantifier]

(* Of a field whose members are shared the same is packed. *)
LEMMA SharedField ==
    ASSUME NEW h, NEW s, NEW t, NEW f, NEW id, NEW init, FieldFits(f, id, init), SameMembers(s, t, f)
    PROVE  Elements(h, s, f) = Elements(h, t, f) /\ PackField(h, s, f) = PackField(h, t, f)
<1>1. IsSet(f, s) <=> IsSet(f, t)
  BY DEF SameMembers, IsSet, IsOneOf
<1>2. CASE f.label = "repeated"
  <2>1. s.at[f.member] = t.at[f.member] /\ s.at[f.quantifier] = t.at[f.quantifier]
    BY <1>2 DEF FieldFits, SameMembers
  <2>2. Elements(h, s, f) = Elements(h, t, f)
    BY <2>1, <1>2 DEF Elements
  <2> QED
    BY <2>2 DEF PackField
<1>3. CASE f.label # "repeated"
  <2>1. Elements(h, s, f) = Elements(h, t, f)
    BY <1>1, <1>3 DEF Elements, SameMembers
  <2> QED
    BY <2>1 DEF PackField
<1> QED
  BY <1>2, <1>3

(* A string of the program. *)
NoText == <<"text", "">>

(* A string of the program is packed as it is. *)
LEMMA StaticPacked ==
    ASSUME NEW h, NEW s, NEW f, f.type = "string", f.label = "none", f.quantifier = "",
           NEW word, word[1] = "static", word # Zero, NEW words, words[1] = word,
           s.at[f.member] = words, PackValue(h, f, words) # NoText,
           NEW values, values = <<PackValue(h, f, words)>>
    PROVE  PackField(h, s, f) = values
<1>1. Pointer(f, words) = words[1]
  BY DEF Pointer
<1>2. IsSet(f, s)
  BY <1>1 DEF IsSet, IsOneOf
<1>3. Elements(h, s, f) = <<words>>
  BY <1>2 DEF Elements
<1> QED
  BY <1>3, PackedOne DEF NoText

(* What pack writes of a struct follows from what it writes of each field. *)
LEMMA PackedBy ==
    ASSUME NEW h, NEW m \in Messages, NEW s, s.of = m, NEW made,
           DOMAIN made \subseteq DOMAIN DescriptorOf(m).fields, made = [id \in DOMAIN made |-> made[id]],
           \A id \in DOMAIN DescriptorOf(m).fields :
              /\ PackField(h, s, DescriptorOf(m).fields[id]) # <<>> <=> id \in DOMAIN made
              /\ id \in DOMAIN made => PackField(h, s, DescriptorOf(m).fields[id]) = made[id]
    PROVE  PackStruct(h, s) = [of |-> m, fields |-> made]
<1> DEFINE table == DescriptorOf(m).fields
           set == {i \in DOMAIN table : PackField(h, s, table[i]) # <<>>}
           names == {table[i].id : i \in set}
           one(id) == CHOOSE i \in DOMAIN table : table[i].id = id
<1>1. \A id \in DOMAIN table : table[id].id = id
  BY FieldIds
<1>2. PackStruct(h, s) = [of |-> m, fields |-> [id \in names |-> PackField(h, s, table[one(id)])]]
  BY DEF PackStruct
<1> HIDE DEF table
<1>3. set = DOMAIN made /\ DOMAIN made \subseteq DOMAIN table
  BY DEF table
<1>4. names = DOMAIN made
  <2>1. \A i \in set : table[i].id = i
    BY <1>1, <1>3
  <2> HIDE DEF set
  <2>2. names \subseteq set
    BY <2>1
  <2>3. ASSUME NEW i \in set PROVE i \in names
    <3>1. table[i].id \in names /\ table[i].id = i
      BY <2>1
    <3> QED
      BY <3>1
  <2>4. names = set
    BY <2>2, <2>3
  <2> QED
    BY <1>3, <2>4
<1>5. \A id \in DOMAIN table : one(id) = id
  BY <1>1
<1>6. \A id \in DOMAIN made : PackField(h, s, table[one(id)]) = made[id]
  BY <1>5 DEF table
<1> HIDE DEF names, set, one
<1>7. [id \in names |-> PackField(h, s, table[one(id)])] = made
  BY <1>4, <1>6
<1> QED
  BY <1>2, <1>7

-----------------------------------------------------------------------------
(* Structs whose fields lead to the same messages. *)
LEMMA BelowSame ==
    ASSUME NEW h, NEW p, NEW x, NEW y, IsAllocated(h, x), IsAllocated(h, y),
           Object(h, x).of = Object(h, y).of,
           \A id \in DOMAIN DescriptorOf(Object(h, x).of).fields :
              LET f == DescriptorOf(Object(h, x).of).fields[id]
              IN f.type = "message" => Elements(h, Object(h, x), f) = Elements(h, Object(h, y), f)
    PROVE  Below(h, [path |-> p, at |-> x]) = Below(h, [path |-> p, at |-> y])
<1> DEFINE s == Object(h, x)
           t == Object(h, y)
           table == DescriptorOf(s.of).fields
           of(v, f) == {[path |-> Append(p, <<f.id, i>>), at |-> Elements(h, v, f)[i][1]] :
                           i \in DOMAIN Elements(h, v, f)}
           subs == {f \in ToSet(table) : f.type = "message"}
<1>1. Below(h, [path |-> p, at |-> x]) = UNION {of(s, f) : f \in subs}
  BY DEF Below
<1>2. Below(h, [path |-> p, at |-> y]) = UNION {of(t, f) : f \in subs}
  BY DEF Below
<1>3. \A f \in subs : Elements(h, s, f) = Elements(h, t, f)
  <2>1. ToSet(table) = {table[id] : id \in DOMAIN table}
    BY DEF ToSet
  <2> QED
    BY <2>1
<1>4. \A f \in subs : of(s, f) = of(t, f)
  BY <1>3
<1> HIDE DEF of, subs
<1>5. UNION {of(s, f) : f \in subs} = UNION {of(t, f) : f \in subs}
  BY <1>4
<1> QED
  BY <1>1, <1>2, <1>5

(* A step from a message in the tree leads to one in it. *)
LEMMA TreeSteps ==
    ASSUME NEW name, NEW wire, TreeFits(name, wire), NEW p \in DOMAIN wire, NEW step \in StepsAt(wire, p)
    PROVE  step \in Nat \X Nat /\ Append(p, step) \in DOMAIN wire
<1>1. Append(p, step) \in DOMAIN wire /\ FieldsFit(wire[p].of, wire[p].fields)
  BY DEF TreeFits
<1>2. PICK id \in DOMAIN wire[p].fields : step \in {<<id, i>> : i \in DOMAIN wire[p].fields[id]}
  BY DEF StepsAt, StepsOf
<1>3. PICK i \in DOMAIN wire[p].fields[id] : step = <<id, i>>
  BY <1>2
<1>4. id \in Nat
  BY <1>1, FieldsOf
<1>5. wire[p].fields[id] \in Seq(ValuesOf(DescriptorOf(wire[p].of).fields[id].type))
  BY <1>1 DEF FieldsFit
<1>6. i \in Nat
  BY <1>5
<1> QED
  BY <1>1, <1>3, <1>4, <1>6

(* A second struct at the top of a message. *)
Aside(n, r, p) == IF p = <<>> THEN Top(r) ELSE At(n, p, 0)

(* The second struct leads where the message's own does. *)
LEMMA AsideWalk ==
    ASSUME NEW name, NEW wire, TreeFits(name, wire), NEW h, NEW n, HoldsTree(h, n, wire),
           NEW r, Block(r) \in DOMAIN h.objects, h.objects[Block(r)].of = name,
           \A id \in DOMAIN DescriptorOf(name).fields :
              LET f == DescriptorOf(name).fields[id]
              IN f.type = "message" =>
                    Elements(h, h.objects[Block(r)], f) = Elements(h, h.objects[Block(n)], f)
    PROVE  Walk(h, DOMAIN wire, [p \in DOMAIN wire |-> Aside(n, r, p)],
                [p \in DOMAIN wire |-> StepsAt(wire, p)])
<1> DEFINE paths == DOMAIN wire
           at == [p \in DOMAIN wire |-> At(n, p, 0)]
           at2 == [p \in DOMAIN wire |-> Aside(n, r, p)]
           steps == [p \in DOMAIN wire |-> StepsAt(wire, p)]
<1>1. Walk(h, paths, at, steps)
  BY TreeWalk
<1>2. /\ <<>> \in paths /\ at[<<>>] = Top(n) /\ at2[<<>>] = Top(r)
      /\ \A p \in paths : p # <<>> => at2[p] = at[p]
  BY DEF TreeFits, Aside, Top
<1>3. \A p \in paths : \A step \in steps[p] : Append(p, step) \in paths
  BY <1>1 DEF Walk
<1>4. \A p \in paths : \A step \in steps[p] : step \in Nat \X Nat
  BY TreeSteps
<1> HIDE DEF at, at2, steps, paths
<1>5. \A p \in paths : \A step \in steps[p] :
         Append(p, step) # <<>> /\ at2[Append(p, step)] = at[Append(p, step)]
  <2>1. \A p \in paths : p \in Seq(Nat \X Nat)
    BY <1>1 DEF Walk
  <2>2. \A p \in paths : \A step \in steps[p] : Append(p, step) # <<>>
    BY <1>4, <2>1, Steps
  <2> QED
    BY <1>2, <1>3, <2>2
<1>6. ASSUME NEW p \in paths
      PROVE  Below(h, [path |-> p, at |-> at2[p]]) = Below(h, [path |-> p, at |-> at[p]])
  <2>1. CASE p = <<>>
    <3>1. /\ IsAllocated(h, Top(r)) /\ Object(h, Top(r)) = h.objects[Block(r)]
          /\ IsAllocated(h, Top(n)) /\ Object(h, Top(n)) = h.objects[Block(n)]
      <4>1. <<n, <<>>, 0>> \in DOMAIN h.objects
        BY <1>2 DEF HoldsTree, paths
      <4> QED
        BY <4>1, AddressesAt DEF Top, Block
    <3>2. h.objects[Block(n)].of = name
      BY DEF HoldsTree, TreeFits, StructFits, Block
    <3>3. Below(h, [path |-> p, at |-> Top(r)]) = Below(h, [path |-> p, at |-> Top(n)])
      BY <3>1, <3>2, BelowSame
    <3> QED
      BY <1>2, <2>1, <3>3
  <2>2. CASE p # <<>>
    BY <1>2, <2>2
  <2> QED
    BY <2>1, <2>2
<1>7. ASSUME NEW p \in paths
      PROVE  Below(h, [path |-> p, at |-> at2[p]]) =
                {[path |-> Append(p, step), at |-> at2[Append(p, step)]] : step \in steps[p]}
  <2>1. Below(h, [path |-> p, at |-> at[p]]) =
           {[path |-> Append(p, step), at |-> at[Append(p, step)]] : step \in steps[p]}
    BY <1>1 DEF Walk
  <2> QED
    BY <1>5, <1>6, <2>1
<1>8. Walk(h, paths, at2, steps)
  BY <1>1, <1>7 DEF Walk
<1> QED
  BY <1>8 DEF paths, at2, steps

(* What is packed from it. *)
LEMMA AsidePacked ==
    ASSUME NEW name, NEW wire, TreeFits(name, wire), NEW h, NEW n, HoldsTree(h, n, wire),
           NEW r, Block(r) \in DOMAIN h.objects, h.objects[Block(r)].of = name,
           \A id \in DOMAIN DescriptorOf(name).fields :
              LET f == DescriptorOf(name).fields[id]
              IN f.type = "message" =>
                    Elements(h, h.objects[Block(r)], f) = Elements(h, h.objects[Block(n)], f),
           NEW top, PackStruct(h, h.objects[Block(r)]) = top
    PROVE  PackMessage(h, Top(r)) = [p \in DOMAIN wire |-> IF p = <<>> THEN top ELSE Meant(wire)[p]]
<1> DEFINE at == [p \in DOMAIN wire |-> Aside(n, r, p)]
           made == [p \in DOMAIN wire |-> IF p = <<>> THEN top ELSE Meant(wire)[p]]
<1>1. Walk(h, DOMAIN wire, at, [p \in DOMAIN wire |-> StepsAt(wire, p)])
  BY AsideWalk
<1>2. ASSUME NEW p \in DOMAIN wire
      PROVE  IsAllocated(h, at[p]) /\ PackStruct(h, Object(h, at[p])) = made[p]
  <2>1. CASE p = <<>>
    <3>1. IsAllocated(h, Top(r)) /\ Object(h, Top(r)) = h.objects[Block(r)]
      BY AddressesAt DEF Top, Block
    <3>2. at[p] = Top(r) /\ made[p] = top
      BY <2>1 DEF Aside
    <3> QED
      BY <3>1, <3>2
  <2>2. CASE p # <<>>
    <3>1. /\ <<n, p, 0>> \in DOMAIN h.objects
          /\ StructFits(h, h.objects[<<n, p, 0>>], n, p, wire[p].of, wire[p].fields)
      BY DEF HoldsTree
    <3>2. IsAllocated(h, At(n, p, 0)) /\ Object(h, At(n, p, 0)) = h.objects[<<n, p, 0>>]
      BY <3>1, AddressesAt
    <3>3. FieldsFit(wire[p].of, wire[p].fields)
      BY FieldsOf
    <3>4. PackStruct(h, h.objects[<<n, p, 0>>]) = Meant(wire)[p]
      BY <3>1, <3>3, PackedStruct DEF Meant
    <3>5. at[p] = At(n, p, 0) /\ made[p] = Meant(wire)[p]
      BY <2>2 DEF Aside
    <3> QED
      BY <3>2, <3>4, <3>5
  <2> QED
    BY <2>1, <2>2
<1>3. at[<<>>] = Top(r) /\ DOMAIN made = DOMAIN wire /\ made = [p \in DOMAIN wire |-> made[p]]
  BY DEF TreeFits, Aside
<1> HIDE DEF at, made
<1>4. PackMessage(h, at[<<>>]) = made
  BY <1>1, <1>2, <1>3, WalkPacked
<1> QED
  BY <1>3, <1>4 DEF made

-----------------------------------------------------------------------------
(* A struct at r that has some members of the message at n. *)
Shares(h, r, n, members) ==
    \A m \in members : h.objects[Block(r)].at[m] = h.objects[Block(n)].at[m]

(* request copies the members of every field. *)
LEMMA RequestShares ==
    ASSUME NEW h, NEW n, NEW r, Shares(h, r, n, SpringMembers)
    PROVE  \A id \in DOMAIN DescriptorOf("SpringMessage").fields :
               SameMembers(h.objects[Block(r)], h.objects[Block(n)],
                           DescriptorOf("SpringMessage").fields[id])
<1> DEFINE D == DescriptorOf("SpringMessage")
           s == h.objects[Block(r)]
           t == h.objects[Block(n)]
<1>1. \A id \in DOMAIN D.fields : FieldFits(D.fields[id], id, D.struct)
  BY DescriptorsFit DEF Fits, Messages
<1>2. DOMAIN D.struct = SpringMembers
  BY SpringRows
<1> HIDE DEF D, s, t
<1>3. \A id \in DOMAIN D.fields : SameMembers(s, t, D.fields[id])
  <2>1. ASSUME NEW id \in DOMAIN D.fields PROVE SameMembers(s, t, D.fields[id])
    <3>1. FieldFits(D.fields[id], id, D.struct)
      BY <1>1
    <3>2. \A m \in SpringMembers : s.at[m] = t.at[m]
      BY DEF Shares, s, t
    <3> QED
      BY <1>2, <3>1, <3>2 DEF FieldFits, SameMembers
  <2> QED
    BY <2>1
<1> QED
  BY <1>3 DEF D, s, t

(* request *)
LEMMA RequestPacked ==
    ASSUME NEW wire, TreeFits("SpringMessage", wire), NEW h, NEW n, HoldsTree(h, n, wire),
           NEW r, Block(r) \in DOMAIN h.objects, h.objects[Block(r)].of = "SpringMessage",
           Shares(h, r, n, SpringMembers)
    PROVE  PackMessage(h, Top(r)) = Meant(wire)
<1> DEFINE name == "SpringMessage"
           D == DescriptorOf(name)
           s == h.objects[Block(r)]
           t == h.objects[Block(n)]
           fields == wire[<<>>].fields
           made == Telling(name, fields)
<1>1. StructFits(h, t, n, <<>>, name, fields) /\ FieldsFit(name, fields) /\ name \in Messages
  BY FieldsOf DEF HoldsTree, TreeFits, Block
<1>2. \A id \in DOMAIN D.fields : FieldFits(D.fields[id], id, D.struct)
  BY <1>1, DescriptorsFit DEF Fits
<1> HIDE DEF D, s, t
<1>4. \A id \in DOMAIN D.fields : SameMembers(s, t, D.fields[id])
  BY RequestShares DEF D, s, t
<1>5. \A id \in DOMAIN D.fields :
         /\ Elements(h, s, D.fields[id]) = Elements(h, t, D.fields[id])
         /\ PackField(h, s, D.fields[id]) = PackField(h, t, D.fields[id])
  BY <1>2, <1>4, SharedField
<1> HIDE DEF name
<1>6. /\ DOMAIN made = {id \in DOMAIN fields : Tells(D.fields[id], fields[id])}
      /\ made = [id \in DOMAIN made |-> made[id]]
      /\ \A id \in DOMAIN made : made[id] = fields[id]
  BY DEF Telling, D
<1>7. DOMAIN made \subseteq DOMAIN D.fields
  BY <1>1, <1>6 DEF FieldsFit, D
<1>8. \A id \in DOMAIN D.fields :
         /\ PackField(h, s, D.fields[id]) # <<>> <=> id \in DOMAIN made
         /\ id \in DOMAIN made => PackField(h, s, D.fields[id]) = made[id]
  <2> HIDE DEF made
  <2> QED
    BY <1>1, <1>5, <1>6, PackedFields DEF D
<1>9. PackStruct(h, s) = [of |-> name, fields |-> made]
  <2>1. s.of = name
    BY DEF s, name
  <2> HIDE DEF made
  <2> QED
    BY <1>1, <1>6, <1>7, <1>8, <2>1, PackedBy DEF D
<1>10. PackStruct(h, s) = Meant(wire)[<<>>]
  BY <1>9 DEF Meant, TreeFits, name
<1>11. PackMessage(h, Top(r)) =
          [p \in DOMAIN wire |-> IF p = <<>> THEN Meant(wire)[<<>>] ELSE Meant(wire)[p]]
  BY <1>5, <1>10, AsidePacked DEF D, s, t, name
<1>12. Meant(wire) = [p \in DOMAIN wire |-> Meant(wire)[p]]
  BY DEF Meant
<1> HIDE DEF fields, made
<1> QED
  BY <1>11, <1>12

(* filter *)
Renumbered(fields) ==
    [id \in DOMAIN Telling("CloudEvent", fields) \cup {1} |->
        IF id = 1 THEN <<<<"text", "1-5150">>>> ELSE fields[id]]

RenamedWire(wire) ==
    [p \in DOMAIN wire |->
        IF p = <<>> THEN [of |-> "CloudEvent", fields |-> Renumbered(wire[<<>>].fields)]
        ELSE Meant(wire)[p]]

(* filter copies those of every field but the id. *)
LEMMA FilterShares ==
    ASSUME NEW h, NEW n, NEW r, Shares(h, r, n, EventMembers)
    PROVE  \A id \in DOMAIN DescriptorOf("CloudEvent").fields : id # 1 =>
               SameMembers(h.objects[Block(r)], h.objects[Block(n)],
                           DescriptorOf("CloudEvent").fields[id])
<1> DEFINE D == DescriptorOf("CloudEvent")
           s == h.objects[Block(r)]
           t == h.objects[Block(n)]
<1>1. /\ \A id \in DOMAIN D.fields : FieldFits(D.fields[id], id, D.struct)
      /\ \A i, j \in DOMAIN D.fields : PairFits(D.fields[i], D.fields[j])
  BY DescriptorsFit DEF Fits, Messages
<1>2. /\ 1 \in DOMAIN D.fields /\ D.struct["id"] = <<EmptyString>>
      /\ Row(D.fields[1], 1, "string", "none", "id", "", "", EmptyString)
      /\ DOMAIN D.struct = {"id"} \cup EventMembers /\ "id" \notin EventMembers
  BY CloudEventRows DEF CloudEventStruct
<1> HIDE DEF D, s, t
<1>3. ASSUME NEW id \in DOMAIN D.fields, id # 1
      PROVE  SameMembers(s, t, D.fields[id])
  <2>1. FieldFits(D.fields[id], id, D.struct)
    BY <1>1
  <2>2. \A m \in EventMembers : s.at[m] = t.at[m]
    BY DEF Shares, s, t
  <2>3. D.fields[id].member # "id"
    <3>1. PairFits(D.fields[id], D.fields[1])
      BY <1>1, <1>2
    <3>2. D.fields[1].id = 1 /\ D.fields[1].member = "id" /\ D.fields[1].quantifier = ""
      BY <1>2 DEF Row
    <3>3. D.fields[id].id = id
      BY <2>1 DEF FieldFits
    <3> QED
      BY <1>3, <3>1, <3>2, <3>3 DEF PairFits, IsOneOf
  <2>4. D.fields[id].quantifier # "id"
    BY <1>2, <2>1, Blanks DEF FieldFits
  <2> QED
    BY <1>2, <2>1, <2>2, <2>3, <2>4 DEF FieldFits, SameMembers
<1> QED
  BY <1>3 DEF D, s, t

(* filter *)
LEMMA FilterPacked ==
    ASSUME NEW wire, TreeFits("CloudEvent", wire), NEW h, NEW n, HoldsTree(h, n, wire),
           NEW r, Block(r) \in DOMAIN h.objects, h.objects[Block(r)].of = "CloudEvent",
           Shares(h, r, n, EventMembers), h.objects[Block(r)].at["id"] = <<<<"static", "1-5150">>>>
    PROVE  PackMessage(h, Top(r)) = RenamedWire(wire)
<1> DEFINE name == "CloudEvent"
           D == DescriptorOf(name)
           s == h.objects[Block(r)]
           t == h.objects[Block(n)]
           fields == wire[<<>>].fields
           told == Telling(name, fields)
           made == Renumbered(fields)
<1>1. StructFits(h, t, n, <<>>, name, fields) /\ FieldsFit(name, fields) /\ name \in Messages
  <2>1. <<>> \in DOMAIN wire /\ wire[<<>>].of = name
    BY DEF TreeFits
  <2>2. StructFits(h, t, n, <<>>, name, fields)
    BY <2>1 DEF HoldsTree, Block
  <2> HIDE DEF name, t
  <2> QED
    BY <2>1, <2>2, FieldsOf DEF name
<1>2. /\ \A id \in DOMAIN D.fields : FieldFits(D.fields[id], id, D.struct)
      /\ \A i, j \in DOMAIN D.fields : PairFits(D.fields[i], D.fields[j])
  BY <1>1, DescriptorsFit DEF Fits
<1>3. /\ 1 \in DOMAIN D.fields /\ D.struct["id"] = <<EmptyString>>
      /\ Row(D.fields[1], 1, "string", "none", "id", "", "", EmptyString)
      /\ DOMAIN D.struct = {"id"} \cup EventMembers /\ "id" \notin EventMembers
  BY CloudEventRows DEF CloudEventStruct
<1> HIDE DEF D, s, t
<1>4. \A id \in DOMAIN D.fields : id # 1 => SameMembers(s, t, D.fields[id])
  BY FilterShares DEF D, s, t
<1>5. \A id \in DOMAIN D.fields : id # 1 =>
         /\ Elements(h, s, D.fields[id]) = Elements(h, t, D.fields[id])
         /\ PackField(h, s, D.fields[id]) = PackField(h, t, D.fields[id])
  BY <1>2, <1>4, SharedField
<1>6. PackField(h, s, D.fields[1]) = <<<<"text", "1-5150">>>>
  <2> DEFINE f == D.fields[1]
             word == <<"static", "1-5150">>
             words == <<word>>
             value == PackValue(h, f, words)
  <2>1. f.type = "string" /\ f.label = "none" /\ f.quantifier = "" /\ f.member = "id"
    BY <1>3 DEF Row
  <2>2. s.at["id"] = words
    BY DEF s
  <2>3. word[1] = "static" /\ word[2] = "1-5150" /\ word # Zero
    BY DEF Zero
  <2>4. <<"text", "1-5150">> # NoText
    BY DEF NoText
  <2> HIDE DEF f, word
  <2>5. words[1] = word
    OBVIOUS
  <2> HIDE DEF words
  <2>6. s.at[f.member] = words
    BY <2>1, <2>2
  <2>7. value = <<"text", "1-5150">>
    BY <2>1, <2>3, <2>5 DEF PackValue, Pointer
  <2> DEFINE values == <<value>>
  <2>8. values = <<PackValue(h, f, words)>> /\ PackValue(h, f, words) # NoText
    BY <2>4, <2>7
  <2> HIDE DEF values, value
  <2>9. PackField(h, s, f) = values
    BY <2>1, <2>3, <2>5, <2>6, <2>8, StaticPacked
  <2> QED
    BY <2>7, <2>9 DEF f, values
<1> HIDE DEF name
<1>7. /\ DOMAIN told = {id \in DOMAIN fields : Tells(D.fields[id], fields[id])}
      /\ DOMAIN told \subseteq DOMAIN D.fields
  BY <1>1 DEF Telling, D, FieldsFit
<1>8. /\ DOMAIN made = DOMAIN told \cup {1} /\ made = [id \in DOMAIN made |-> made[id]]
      /\ made[1] = <<<<"text", "1-5150">>>>
      /\ \A id \in DOMAIN told : id # 1 => made[id] = fields[id]
  BY DEF Renumbered, name
<1> HIDE DEF told, made
<1>9. ASSUME NEW id \in DOMAIN D.fields
      PROVE  /\ PackField(h, s, D.fields[id]) # <<>> <=> id \in DOMAIN made
             /\ id \in DOMAIN made => PackField(h, s, D.fields[id]) = made[id]
  <2>1. CASE id = 1
    <3>1. <<<<"text", "1-5150">>>> # <<>>
      OBVIOUS
    <3> QED
      BY <1>6, <1>8, <2>1, <3>1
  <2>2. CASE id # 1
    <3>1. /\ PackField(h, t, D.fields[id]) # <<>> <=> id \in DOMAIN fields /\ Tells(D.fields[id], fields[id])
          /\ id \in DOMAIN fields /\ Tells(D.fields[id], fields[id]) =>
                PackField(h, t, D.fields[id]) = fields[id]
      BY <1>1, PackedFields DEF D
    <3> QED
      BY <1>5, <1>7, <1>8, <2>2, <3>1
  <2> QED
    BY <2>1, <2>2
<1>10. PackStruct(h, s) = [of |-> name, fields |-> made]
  <2>1. s.of = name
    BY DEF s, name
  <2>2. DOMAIN made \subseteq DOMAIN D.fields
    BY <1>3, <1>7, <1>8
  <2> QED
    BY <1>1, <1>8, <1>9, <2>1, <2>2, PackedBy DEF D
<1>11. \A id \in DOMAIN D.fields : D.fields[id].type = "message" =>
          Elements(h, s, D.fields[id]) = Elements(h, t, D.fields[id])
  BY <1>3, <1>5 DEF Row
<1>12. PackMessage(h, Top(r)) =
          [p \in DOMAIN wire |-> IF p = <<>> THEN [of |-> name, fields |-> made] ELSE Meant(wire)[p]]
  BY <1>10, <1>11, AsidePacked DEF D, s, t, name
<1> QED
  BY <1>12 DEF RenamedWire, made, name

-----------------------------------------------------------------------------
(* The messages a struct leads to. *)
LedTo(p, to, steps) == {[path |-> Append(p, step), at |-> to[Append(p, step)]] : step \in steps}

StepsFor(m) ==
    UNION {{<<id, i>> : i \in Nat} :
              id \in {id \in DOMAIN DescriptorOf(m).fields : DescriptorOf(m).fields[id].type = "message"}}

(* A struct whose fields lead to given places leads nowhere else. *)
LEMMA BelowBy ==
    ASSUME NEW h, NEW p, NEW at, IsAllocated(h, at), NEW m \in Messages, Object(h, at).of = m,
           NEW steps, NEW to,
           \A id \in DOMAIN DescriptorOf(m).fields : DescriptorOf(m).fields[id].type = "message" =>
              /\ \A i : i \in DOMAIN Elements(h, Object(h, at), DescriptorOf(m).fields[id]) <=>
                         <<id, i>> \in steps
              /\ \A i \in DOMAIN Elements(h, Object(h, at), DescriptorOf(m).fields[id]) :
                    Elements(h, Object(h, at), DescriptorOf(m).fields[id])[i][1] =
                        to[Append(p, <<id, i>>)],
           steps \subseteq StepsFor(m)
    PROVE  Below(h, [path |-> p, at |-> at]) = LedTo(p, to, steps)
<1> DEFINE s == Object(h, at)
           table == DescriptorOf(m).fields
           visit(step) == [path |-> Append(p, step), at |-> to[Append(p, step)]]
           e(f) == Elements(h, s, f)
           of(f) == {[path |-> Append(p, <<f.id, i>>), at |-> e(f)[i][1]] : i \in DOMAIN e(f)}
           subs == {f \in ToSet(table) : f.type = "message"}
<1>1. Below(h, [path |-> p, at |-> at]) = UNION {of(f) : f \in subs}
  BY DEF Below
<1>2. ASSUME NEW id \in DOMAIN table, table[id].type = "message"
      PROVE  of(table[id]) = {visit(<<id, i>>) : i \in DOMAIN e(table[id])}
  <2> DEFINE f == table[id]
  <2>1. f.id = id
    BY FieldIds
  <2>2. \A i \in DOMAIN e(f) : e(f)[i][1] = to[Append(p, <<id, i>>)]
    BY <1>2
  <2> DEFINE lead(i) == [path |-> Append(p, <<f.id, i>>), at |-> e(f)[i][1]]
  <2>3. of(f) = {lead(i) : i \in DOMAIN e(f)}
    OBVIOUS
  <2> HIDE DEF f, e
  <2>4. \A i \in DOMAIN e(f) : lead(i) = visit(<<id, i>>)
    BY <2>1, <2>2
  <2> HIDE DEF lead, visit, of
  <2>5. {lead(i) : i \in DOMAIN e(f)} = {visit(<<id, i>>) : i \in DOMAIN e(f)}
    BY <2>4
  <2> QED
    BY <2>3, <2>5 DEF f
<1>3. ToSet(table) = {table[id] : id \in DOMAIN table}
  BY DEF ToSet
<1>4. /\ \A id \in DOMAIN table : table[id].type = "message" =>
            \A i : i \in DOMAIN e(table[id]) <=> <<id, i>> \in steps
      /\ \A step \in steps : \E id \in DOMAIN table : \E i :
            step = <<id, i>> /\ table[id].type = "message"
  BY DEF StepsFor
<1> HIDE DEF of, e, table, visit
<1>5. UNION {of(f) : f \in subs} = {visit(step) : step \in steps}
  <2>1. ASSUME NEW x \in UNION {of(f) : f \in subs}
        PROVE  x \in {visit(step) : step \in steps}
    <3>1. PICK id \in DOMAIN table : table[id].type = "message" /\ x \in of(table[id])
      BY <1>3
    <3>2. PICK i \in DOMAIN e(table[id]) : x = visit(<<id, i>>)
      BY <1>2, <3>1
    <3>3. <<id, i>> \in steps
      BY <1>4, <3>1
    <3> QED
      BY <3>2, <3>3
  <2>2. ASSUME NEW step \in steps
        PROVE  visit(step) \in UNION {of(f) : f \in subs}
    <3>1. PICK id \in DOMAIN table : \E i : step = <<id, i>> /\ table[id].type = "message"
      BY <1>4
    <3>2. PICK i : step = <<id, i>> /\ table[id].type = "message"
      BY <3>1
    <3>3. i \in DOMAIN e(table[id])
      BY <1>4, <3>2
    <3>4. visit(step) \in of(table[id])
      BY <1>2, <3>2, <3>3
    <3>5. table[id] \in subs
      BY <1>3, <3>2
    <3> QED
      BY <3>4, <3>5
  <2> QED
    BY <2>1, <2>2
<1> QED
  BY <1>1, <1>5 DEF visit, LedTo

-----------------------------------------------------------------------------
(* The headers of a message. *)
Count(wire) == IF 2 \in DOMAIN wire[<<>>].fields THEN Len(wire[<<>>].fields[2]) ELSE 0
HeaderAt(i) == Append(<<>>, <<2, i>>)

(* The array of headers has one for each in the message. *)
LEMMA HeadersOf ==
    ASSUME NEW wire, TreeFits("SpringMessage", wire), NEW h, NEW n, HoldsTree(h, n, wire)
    PROVE  /\ Count(wire) \in Nat
           /\ StepsAt(wire, <<>>) = {<<2, i>> : i \in 1..Count(wire)}
           /\ Count(wire) = 0 => h.objects[Block(n)].at["n_headers"][1] = Zero
           /\ Count(wire) # 0 =>
                 /\ h.objects[Block(n)].at["n_headers"][1] # Zero
                 /\ h.objects[Block(n)].at["headers"][1] = At(n, <<>>, 2)
                 /\ <<n, <<>>, 2>> \in DOMAIN h.objects
                 /\ h.objects[<<n, <<>>, 2>>].items =
                       [i \in 1..Count(wire) |-> At(n, HeaderAt(i), 0)]
           /\ \A i \in 1..Count(wire) : HeaderAt(i) \in DOMAIN wire
<1> DEFINE name == "SpringMessage"
           table == DescriptorOf(name).fields
           fields == wire[<<>>].fields
           s == h.objects[Block(n)]
           k == Count(wire)
<1>1. StructFits(h, s, n, <<>>, name, fields) /\ FieldsFit(name, fields)
  BY FieldsOf DEF HoldsTree, TreeFits, Block
<1>2. /\ DOMAIN table = {1, 2} /\ table[2].type = "message" /\ table[2].label = "repeated"
      /\ table[1].type = "bytes"
      /\ table[2].member = "headers" /\ table[2].quantifier = "n_headers"
  BY SpringRows DEF Row
<1>3. FieldFits(table[2], 2, DescriptorOf(name).struct)
  BY <1>1, <1>2, FieldOfStruct
<1> HIDE DEF table, s, name
<1>4. CASE 2 \in DOMAIN fields
  <2> DEFINE v == fields[2]
  <2>1. /\ ValuesFit(table[2], v) /\ v # <<>> /\ Written(s.at, n, <<>>, 2, table[2], v)
        /\ Kept(h, n, <<>>, 2, table[2], v)
    BY <1>1, <1>2, <1>4, FieldOfStruct DEF table
  <2> HIDE DEF v
  <2>2. v \in Seq(ValuesOf("message")) /\ DOMAIN v = 1..Len(v) /\ Len(v) \in Nat \ {0}
    BY <1>2, <2>1 DEF ValuesFit
  <2>3. k = Len(v)
    BY <1>4 DEF Count, v
  <2>4. /\ s.at["headers"][1] = At(n, <<>>, 2)
        /\ s.at["n_headers"] = <<<<"int", Len(v)>>>>
    BY <1>2, <2>1 DEF Written
  <2>5. s.at["n_headers"][1] # Zero
    <3>1. s.at["n_headers"][1] = <<"int", Len(v)>>
      BY <2>4, IntWord
    <3> QED
      BY <2>2, <3>1, IntWords DEF Zero
  <2>6. IsHeld(table[2], v)
    BY <1>2 DEF IsHeld
  <2>7. /\ <<n, <<>>, 2>> \in DOMAIN h.objects
        /\ h.objects[<<n, <<>>, 2>>] = [items |-> [i \in DOMAIN v |-> At(n, Append(<<>>, <<2, i>>), 0)]]
    BY <1>2, <2>1, <2>6 DEF Kept, PartOf
  <2>8. h.objects[<<n, <<>>, 2>>].items = [i \in 1..k |-> At(n, HeaderAt(i), 0)]
    BY <2>2, <2>3, <2>7 DEF HeaderAt
  <2>9. DOMAIN fields \subseteq {1, 2}
    BY <1>1, <1>2 DEF FieldsFit, table
  <2>10. StepsAt(wire, <<>>) = {<<2, i>> : i \in 1..k}
    <3> DEFINE ids == {id \in DOMAIN fields : table[id].type = "message"}
               steps(id) == {<<id, i>> : i \in DOMAIN fields[id]}
    <3>1. StepsAt(wire, <<>>) = UNION {steps(id) : id \in ids}
      BY DEF StepsAt, StepsOf, table, name, TreeFits
    <3>2. ids = {2}
      BY <1>2, <1>4, <2>9
    <3>3. steps(2) = {<<2, i>> : i \in 1..k}
      BY <2>2, <2>3 DEF v
    <3> HIDE DEF ids, steps, fields, k
    <3> QED
      BY <3>1, <3>2, <3>3
  <2>11. \A i \in 1..k : HeaderAt(i) \in DOMAIN wire
    <3>1. \A i \in 1..k : <<2, i>> \in StepsAt(wire, <<>>)
      BY <2>10
    <3>2. \A step \in StepsAt(wire, <<>>) : Append(<<>>, step) \in DOMAIN wire
      BY DEF TreeFits
    <3> QED
      BY <3>1, <3>2 DEF HeaderAt
  <2>12. k \in Nat /\ k # 0
    BY <2>2, <2>3
  <2> HIDE DEF k
  <2> QED
    BY <2>4, <2>5, <2>7, <2>8, <2>10, <2>11, <2>12 DEF k, s
<1>5. CASE 2 \notin DOMAIN fields
  <2>1. k = 0
    BY <1>5 DEF Count
  <2>2. Unwritten(s.at, table[2])
    BY <1>1, <1>2, <1>5, FieldOfStruct DEF table
  <2>3. s.at["n_headers"] = <<Zero>>
    BY <1>2, <2>2 DEF Unwritten
  <2>4. s.at["n_headers"][1] = Zero
    BY <2>3, OneWord
  <2>5. DOMAIN fields \subseteq {1}
    BY <1>1, <1>2, <1>5 DEF FieldsFit, table
  <2>6. StepsAt(wire, <<>>) = {}
    <3> DEFINE ids == {id \in DOMAIN fields : table[id].type = "message"}
               steps(id) == {<<id, i>> : i \in DOMAIN fields[id]}
    <3>1. StepsAt(wire, <<>>) = UNION {steps(id) : id \in ids}
      BY DEF StepsAt, StepsOf, table, name, TreeFits
    <3>2. ids = {}
      BY <1>2, <2>5
    <3> HIDE DEF ids, steps
    <3> QED
      BY <3>1, <3>2
  <2>7. 1..k = {}
    BY <2>1
  <2> HIDE DEF k
  <2> QED
    BY <2>1, <2>4, <2>6, <2>7 DEF k, s
<1> QED
  BY <1>4, <1>5

-----------------------------------------------------------------------------
(* response: a struct at r with an array of headers, of which the last is new. *)
EntryName == "SpringMessage.HeadersEntry"
AddedFields == [id \in {1, 2} |-> IF id = 1 THEN <<<<"text", "one">>>> ELSE <<<<"text", "two">>>>]
IsAdded(header) ==
    /\ header.of = EntryName
    /\ header.at["key"] = <<<<"static", "one">>>> /\ header.at["value"] = <<<<"static", "two">>>>

HoldsExtended(h, n, r, wire) ==
    LET k == Count(wire)
        s == h.objects[Block(r)]
        array == h.objects[Block(r + 1)]
        header == h.objects[Block(r + 2)]
    IN /\ {Block(r), Block(r + 1), Block(r + 2)} \subseteq DOMAIN h.objects
       /\ s.of = "SpringMessage"
       /\ Shares(h, r, n, {"payload"})
       /\ s.at["n_headers"] = <<<<"int", k + 1>>>> /\ s.at["headers"] = <<Top(r + 1)>>
       /\ array.items = [i \in 1..(k + 1) |-> IF i = k + 1 THEN Top(r + 2) ELSE At(n, HeaderAt(i), 0)]
       /\ IsAdded(header)

(* The header. *)
LEMMA HeaderStruct ==
    ASSUME NEW h, NEW s, IsAdded(s)
    PROVE  PackStruct(h, s) = [of |-> EntryName, fields |-> AddedFields]
<1> DEFINE D == DescriptorOf(EntryName)
<1>1. /\ DOMAIN D.fields = {1, 2}
      /\ Row(D.fields[1], 1, "string", "none", "key", "", "", EmptyString)
      /\ Row(D.fields[2], 2, "string", "none", "value", "", "", EmptyString)
  BY HeadersEntryRows DEF EntryName
<1>2. EntryName \in Messages
  BY DEF EntryName, Messages
<1> HIDE DEF D
<1>3. PackField(h, s, D.fields[1]) = <<<<"text", "one">>>>
  <2> DEFINE f == D.fields[1]
             word == <<"static", "one">>
             words == <<word>>
             value == PackValue(h, f, words)
  <2>1. f.type = "string" /\ f.label = "none" /\ f.quantifier = "" /\ f.member = "key"
    BY <1>1 DEF Row
  <2>2. s.at["key"] = words
    BY DEF IsAdded
  <2>3. word[1] = "static" /\ word[2] = "one" /\ word # Zero
    BY DEF Zero
  <2>4. <<"text", "one">> # NoText
    BY DEF NoText
  <2> HIDE DEF f, word
  <2>5. words[1] = word
    OBVIOUS
  <2> HIDE DEF words
  <2>6. s.at[f.member] = words
    BY <2>1, <2>2
  <2>7. value = <<"text", "one">>
    BY <2>1, <2>3, <2>5 DEF PackValue, Pointer
  <2> DEFINE values == <<value>>
  <2>8. values = <<PackValue(h, f, words)>> /\ PackValue(h, f, words) # NoText
    BY <2>4, <2>7
  <2> HIDE DEF values, value
  <2>9. PackField(h, s, f) = values
    BY <2>1, <2>3, <2>5, <2>6, <2>8, StaticPacked
  <2> QED
    BY <2>7, <2>9 DEF f, values
<1>4. PackField(h, s, D.fields[2]) = <<<<"text", "two">>>>
  <2> DEFINE f == D.fields[2]
             word == <<"static", "two">>
             words == <<word>>
             value == PackValue(h, f, words)
  <2>1. f.type = "string" /\ f.label = "none" /\ f.quantifier = "" /\ f.member = "value"
    BY <1>1 DEF Row
  <2>2. s.at["value"] = words
    BY DEF IsAdded
  <2>3. word[1] = "static" /\ word[2] = "two" /\ word # Zero
    BY DEF Zero
  <2>4. <<"text", "two">> # NoText
    BY DEF NoText
  <2> HIDE DEF f, word
  <2>5. words[1] = word
    OBVIOUS
  <2> HIDE DEF words
  <2>6. s.at[f.member] = words
    BY <2>1, <2>2
  <2>7. value = <<"text", "two">>
    BY <2>1, <2>3, <2>5 DEF PackValue, Pointer
  <2> DEFINE values == <<value>>
  <2>8. values = <<PackValue(h, f, words)>> /\ PackValue(h, f, words) # NoText
    BY <2>4, <2>7
  <2> HIDE DEF values, value
  <2>9. PackField(h, s, f) = values
    BY <2>1, <2>3, <2>5, <2>6, <2>8, StaticPacked
  <2> QED
    BY <2>7, <2>9 DEF f, values
<1>5. /\ DOMAIN AddedFields = {1, 2} /\ AddedFields = [id \in DOMAIN AddedFields |-> AddedFields[id]]
      /\ AddedFields[1] = <<<<"text", "one">>>> /\ AddedFields[2] = <<<<"text", "two">>>>
  BY DEF AddedFields
<1>6. <<<<"text", "one">>>> # <<>> /\ <<<<"text", "two">>>> # <<>>
  OBVIOUS
<1>7. \A id \in DOMAIN D.fields :
         /\ PackField(h, s, D.fields[id]) # <<>> <=> id \in DOMAIN AddedFields
         /\ id \in DOMAIN AddedFields => PackField(h, s, D.fields[id]) = AddedFields[id]
  BY <1>1, <1>3, <1>4, <1>5, <1>6
<1>8. DOMAIN AddedFields \subseteq DOMAIN D.fields
  BY <1>1, <1>5
<1>9. AddedFields = [id \in DOMAIN AddedFields |-> AddedFields[id]] /\ s.of = EntryName
  BY <1>5 DEF IsAdded
<1> QED
  BY <1>2, <1>7, <1>8, <1>9, PackedBy DEF D

(* The fields of the message with the header. *)
Extended(wire) ==
    LET told == Telling("SpringMessage", wire[<<>>].fields)
    IN [id \in ({1} \cap DOMAIN told) \cup {2} |->
           IF id = 2 THEN [i \in 1..(Count(wire) + 1) |-> Within] ELSE wire[<<>>].fields[id]]

(* The array has the message's headers and the new one. *)
LEMMA ExtendedElements ==
    ASSUME NEW wire, TreeFits("SpringMessage", wire), NEW h, NEW n, HoldsTree(h, n, wire),
           NEW r, HoldsExtended(h, n, r, wire)
    PROVE  LET k == Count(wire)
               to(i) == IF i = k + 1 THEN Top(r + 2) ELSE At(n, HeaderAt(i), 0)
           IN /\ Elements(h, h.objects[Block(r)], DescriptorOf("SpringMessage").fields[2]) =
                    [i \in 1..(k + 1) |-> <<to(i)>>]
              /\ \A i \in 1..(k + 1) : IsAllocated(h, to(i)) /\ to(i)[1] = "heap" /\ to(i) # Zero
<1> DEFINE k == Count(wire)
           to(i) == IF i = k + 1 THEN Top(r + 2) ELSE At(n, HeaderAt(i), 0)
           s == h.objects[Block(r)]
           f == DescriptorOf("SpringMessage").fields[2]
<1>1. k \in Nat /\ \A i \in 1..k : HeaderAt(i) \in DOMAIN wire
  BY HeadersOf
<1>2. /\ f.label = "repeated" /\ f.member = "headers" /\ f.quantifier = "n_headers"
  BY SpringRows DEF Row
<1>3. /\ s.at["n_headers"] = <<<<"int", k + 1>>>> /\ s.at["headers"] = <<Top(r + 1)>>
      /\ h.objects[Block(r + 1)].items = [i \in 1..(k + 1) |-> to(i)]
      /\ Block(r + 1) \in DOMAIN h.objects /\ Block(r + 2) \in DOMAIN h.objects
  BY DEF HoldsExtended
<1>4. \A i \in 1..(k + 1) : i = k + 1 \/ i \in 1..k
  BY <1>1
<1>5. ASSUME NEW i \in 1..(k + 1)
      PROVE  IsAllocated(h, to(i)) /\ to(i)[1] = "heap" /\ to(i) # Zero
  <2>1. CASE i = k + 1
    BY <1>3, <2>1, AddressesAt DEF Top, Block
  <2>2. CASE i # k + 1
    <3>1. HeaderAt(i) \in DOMAIN wire
      BY <1>1, <1>4, <2>2
    <3>2. <<n, HeaderAt(i), 0>> \in DOMAIN h.objects
      BY <3>1 DEF HoldsTree
    <3> QED
      BY <2>2, <3>2, AddressesAt
  <2> QED
    BY <2>1, <2>2
<1> HIDE DEF to, s, f, k
<1>6. s.at["n_headers"][1][2] = k + 1 /\ k + 1 # 0
  BY <1>1, <1>3, IntWord
<1>7. s.at["headers"][1] = Top(r + 1)
  BY <1>3, OneWord
<1>8. IsAllocated(h, Top(r + 1)) /\ Object(h, Top(r + 1)) = h.objects[Block(r + 1)]
  BY <1>3, AddressesAt DEF Top, Block
<1>9. Elements(h, s, f) = [i \in 1..(k + 1) |-> <<h.objects[Block(r + 1)].items[i]>>]
  BY <1>2, <1>6, <1>7, <1>8 DEF Elements
<1>10. Elements(h, s, f) = [i \in 1..(k + 1) |-> <<to(i)>>]
  <2>1. \A i \in 1..(k + 1) : h.objects[Block(r + 1)].items[i] = to(i)
    BY <1>3
  <2> QED
    BY <1>9, <2>1
<1> QED
  BY <1>5, <1>10 DEF to, s, f, k

(* What pack writes of the struct: the payload and all of these headers. *)
LEMMA ExtendedStruct ==
    ASSUME NEW wire, TreeFits("SpringMessage", wire), NEW h, NEW n, HoldsTree(h, n, wire),
           NEW r, HoldsExtended(h, n, r, wire)
    PROVE  PackStruct(h, h.objects[Block(r)]) = [of |-> "SpringMessage", fields |-> Extended(wire)]
<1> DEFINE name == "SpringMessage"
           D == DescriptorOf(name)
           s == h.objects[Block(r)]
           t == h.objects[Block(n)]
           fields == wire[<<>>].fields
           told == Telling(name, fields)
           made == Extended(wire)
           k == Count(wire)
           to(i) == IF i = k + 1 THEN Top(r + 2) ELSE At(n, HeaderAt(i), 0)
           withins == [i \in 1..(k + 1) |-> Within]
<1>1. StructFits(h, t, n, <<>>, name, fields) /\ FieldsFit(name, fields) /\ name \in Messages
  <2>1. <<>> \in DOMAIN wire /\ wire[<<>>].of = name
    BY DEF TreeFits
  <2>2. StructFits(h, t, n, <<>>, name, fields)
    BY <2>1 DEF HoldsTree, Block
  <2> HIDE DEF name, t
  <2> QED
    BY <2>1, <2>2, FieldsOf DEF name
<1>2. /\ DOMAIN D.fields = {1, 2}
      /\ Row(D.fields[1], 1, "bytes", "none", "payload", "", "", Zero)
      /\ Row(D.fields[2], 2, "message", "repeated", "headers", "n_headers", EntryName, Zero)
  BY SpringRows DEF EntryName
<1>3. FieldFits(D.fields[1], 1, D.struct)
  BY <1>1, <1>2, DescriptorsFit DEF Fits
<1>4. k \in Nat
  BY HeadersOf
<1>5. /\ Elements(h, s, D.fields[2]) = [i \in 1..(k + 1) |-> <<to(i)>>]
      /\ \A i \in 1..(k + 1) : IsAllocated(h, to(i)) /\ to(i)[1] = "heap" /\ to(i) # Zero
  BY ExtendedElements
<1>6. s.of = name /\ s.at["payload"] = t.at["payload"]
  BY DEF HoldsExtended, Shares
<1> HIDE DEF to, s, t, k, D, withins
<1>7. PackField(h, s, D.fields[2]) = withins
  <2> DEFINE f == D.fields[2]
             e == Elements(h, s, f)
  <2>1. f.type = "message" /\ f.label = "repeated"
    BY <1>2 DEF Row
  <2> HIDE DEF f
  <2>2. ASSUME NEW i \in 1..(k + 1)
        PROVE  PackValue(h, f, e[i]) = Within
    <3> DEFINE words == <<to(i)>>
    <3>1. e[i] = words
      BY <1>5 DEF f
    <3>2. words[1] = to(i)
      OBVIOUS
    <3> HIDE DEF words, e
    <3>3. PackValue(h, f, words) = Within
      BY <1>5, <2>1, <3>2 DEF PackValue, Pointer
    <3> QED
      BY <3>1, <3>3
  <2>3. DOMAIN e = 1..(k + 1)
    BY <1>5 DEF f
  <2> HIDE DEF e
  <2>4. [i \in DOMAIN e |-> PackValue(h, f, e[i])] = withins
    BY <2>2, <2>3 DEF withins
  <2>5. withins # <<<<"text", "">>>>
    <3>1. withins[1] = Within
      BY <1>4 DEF withins
    <3>2. Within # <<"text", "">>
      BY Kinds
    <3>3. withins = <<<<"text", "">>>> => withins[1] = <<"text", "">>
      BY OneWord
    <3> QED
      BY <3>1, <3>2, <3>3
  <2> QED
    BY <2>4, <2>5 DEF PackField, e, f
<1>8. PackField(h, s, D.fields[1]) = PackField(h, t, D.fields[1])
  <2>1. SameMembers(s, t, D.fields[1])
    BY <1>2, <1>6 DEF SameMembers, Row
  <2> QED
    BY <1>3, <2>1, SharedField
<1> HIDE DEF name
<1>9. /\ PackField(h, t, D.fields[1]) # <<>> <=> 1 \in DOMAIN fields /\ Tells(D.fields[1], fields[1])
      /\ 1 \in DOMAIN fields /\ Tells(D.fields[1], fields[1]) =>
                PackField(h, t, D.fields[1]) = fields[1]
  <2>1. 1 \in DOMAIN DescriptorOf(name).fields
    BY <1>2 DEF D
  <2> QED
    BY <1>1, <2>1, PackedFields DEF D
<1>10. 1 \in DOMAIN told <=> 1 \in DOMAIN fields /\ Tells(D.fields[1], fields[1])
  BY DEF Telling, D
<1>11. /\ DOMAIN made = ({1} \cap DOMAIN told) \cup {2} /\ made = [id \in DOMAIN made |-> made[id]]
       /\ made[2] = withins
       /\ 1 \in DOMAIN told => made[1] = fields[1]
  BY DEF Extended, name, withins, k
<1> HIDE DEF told, made
<1>12. withins # <<>>
  <2>1. 1 \in DOMAIN withins
    BY <1>4 DEF withins
  <2> QED
    BY <2>1
<1>13. \A id \in DOMAIN D.fields :
         /\ PackField(h, s, D.fields[id]) # <<>> <=> id \in DOMAIN made
         /\ id \in DOMAIN made => PackField(h, s, D.fields[id]) = made[id]
  BY <1>2, <1>7, <1>8, <1>9, <1>10, <1>11, <1>12
<1>14. DOMAIN made \subseteq DOMAIN D.fields
  BY <1>2, <1>11
<1>15. PackStruct(h, s) = [of |-> name, fields |-> made]
  <2>1. made = [id \in DOMAIN made |-> made[id]]
    BY <1>11
  <2> QED
    BY <1>1, <1>6, <1>13, <1>14, <2>1, PackedBy DEF D
<1> QED
  BY <1>15 DEF s, made, name

ExtendedWire(wire) ==
    LET new == HeaderAt(Count(wire) + 1)
    IN [p \in DOMAIN wire \cup {new} |->
           IF p = <<>> THEN [of |-> "SpringMessage", fields |-> Extended(wire)]
           ELSE IF p = new THEN [of |-> EntryName, fields |-> AddedFields]
           ELSE Meant(wire)[p]]

(* The path to the new header is not one of the message's. *)
LEMMA NewHeader ==
    ASSUME NEW wire, TreeFits("SpringMessage", wire), NEW h, NEW n, HoldsTree(h, n, wire)
    PROVE  LET new == HeaderAt(Count(wire) + 1)
           IN /\ new \notin DOMAIN wire /\ new # <<>> /\ new \in Seq(Nat \X Nat) /\ Len(new) = 1
              /\ \A i, j \in Nat : HeaderAt(i) = HeaderAt(j) => i = j
              /\ \A i \in Nat : HeaderAt(i) # <<>>
<1> DEFINE k == Count(wire)
           new == HeaderAt(k + 1)
<1>1. k \in Nat /\ StepsAt(wire, <<>>) = {<<2, i>> : i \in 1..k}
  BY HeadersOf
<1>2. <<>> \in Seq(Nat \X Nat) /\ \A i \in Nat : <<2, i>> \in Nat \X Nat
  OBVIOUS
<1>3. ASSUME NEW i \in Nat
      PROVE  /\ HeaderAt(i) # <<>> /\ HeaderAt(i) \in Seq(Nat \X Nat) /\ Len(HeaderAt(i)) = 1
             /\ Front(HeaderAt(i)) = <<>> /\ Last(HeaderAt(i)) = <<2, i>>
  <2> DEFINE q == <<>>
             step == <<2, i>>
  <2>1. Len(q) = 0 /\ q \in Seq(Nat \X Nat) /\ step \in Nat \X Nat /\ HeaderAt(i) = Append(q, step)
    BY <1>2 DEF HeaderAt
  <2> HIDE DEF q, step
  <2> DEFINE longer == Append(q, step)
  <2>2. /\ longer # <<>> /\ longer \in Seq(Nat \X Nat) /\ Len(longer) = Len(q) + 1
        /\ Front(longer) = q /\ Last(longer) = step
    BY <2>1, Steps
  <2> HIDE DEF longer
  <2>3. HeaderAt(i) = longer
    BY <2>1 DEF longer
  <2>4. /\ HeaderAt(i) # <<>> /\ HeaderAt(i) \in Seq(Nat \X Nat) /\ Len(HeaderAt(i)) = 1
        /\ Front(HeaderAt(i)) = q /\ Last(HeaderAt(i)) = step
    BY <2>1, <2>2, <2>3
  <2> QED
    BY <2>4 DEF q, step
<1>4. \A i, j \in Nat : HeaderAt(i) = HeaderAt(j) => i = j
  <2>1. ASSUME NEW i \in Nat, NEW j \in Nat, HeaderAt(i) = HeaderAt(j) PROVE i = j
    <3>1. <<2, i>> = <<2, j>>
      BY <1>3, <2>1
    <3> QED
      BY <3>1
  <2> QED
    BY <2>1
<1>5. k + 1 \in Nat
  BY <1>1
<1> HIDE DEF k
<1>6. new \notin DOMAIN wire
  <2> SUFFICES ASSUME new \in DOMAIN wire PROVE FALSE
    OBVIOUS
  <2>1. PICK q \in DOMAIN wire : \E step \in StepsAt(wire, q) : new = Append(q, step)
    BY <1>3, <1>5 DEF TreeFits
  <2>2. PICK step \in StepsAt(wire, q) : new = Append(q, step)
    BY <2>1
  <2>3. step \in Nat \X Nat /\ q \in Seq(Nat \X Nat)
    BY TreeSteps DEF TreeFits
  <2>4. Front(new) = q /\ Last(new) = step
    BY <2>2, <2>3, Steps
  <2>5. q = <<>> /\ step = <<2, k + 1>>
    BY <1>3, <1>5, <2>4
  <2>6. <<2, k + 1>> \in {<<2, i>> : i \in 1..k}
    BY <1>1, <2>2, <2>5
  <2>7. PICK i \in 1..k : <<2, k + 1>> = <<2, i>>
    BY <2>6
  <2>8. k + 1 = i
    BY <2>7
  <2> QED
    BY <1>1, <2>8
<1> QED
  BY <1>3, <1>4, <1>5, <1>6 DEF k

(* The walk through the result: the message's headers, and the new one. *)
ExtendedPaths(wire) == DOMAIN wire \cup {HeaderAt(Count(wire) + 1)}

ExtendedAt(n, r, wire) ==
    [p \in ExtendedPaths(wire) |->
        IF p = <<>> THEN Top(r)
        ELSE IF p = HeaderAt(Count(wire) + 1) THEN Top(r + 2) ELSE At(n, p, 0)]

ExtendedSteps(wire) ==
    [p \in ExtendedPaths(wire) |->
        IF p = <<>> THEN {<<2, i>> : i \in 1..(Count(wire) + 1)}
        ELSE IF p = HeaderAt(Count(wire) + 1) THEN {} ELSE StepsAt(wire, p)]

(* Each of its structs leads where the walk says. *)
LEMMA ExtendedWalk ==
    ASSUME NEW wire, TreeFits("SpringMessage", wire), NEW h, NEW n, HoldsTree(h, n, wire),
           NEW r, HoldsExtended(h, n, r, wire), Depth >= 1
    PROVE  Walk(h, ExtendedPaths(wire), ExtendedAt(n, r, wire), ExtendedSteps(wire))
<1> DEFINE name == "SpringMessage"
           k == Count(wire)
           new == HeaderAt(k + 1)
           paths == ExtendedPaths(wire)
           at == ExtendedAt(n, r, wire)
           steps == ExtendedSteps(wire)
           to(i) == IF i = k + 1 THEN Top(r + 2) ELSE At(n, HeaderAt(i), 0)
           s == h.objects[Block(r)]
           header == h.objects[Block(r + 2)]
<1>1. /\ k \in Nat /\ StepsAt(wire, <<>>) = {<<2, i>> : i \in 1..k}
      /\ \A i \in 1..k : HeaderAt(i) \in DOMAIN wire
  BY HeadersOf
<1>2. /\ new \notin DOMAIN wire /\ new # <<>> /\ new \in Seq(Nat \X Nat) /\ Len(new) = 1
      /\ \A i, j \in Nat : HeaderAt(i) = HeaderAt(j) => i = j
      /\ \A i \in Nat : HeaderAt(i) # <<>>
  BY NewHeader
<1>3. /\ Elements(h, s, DescriptorOf(name).fields[2]) = [i \in 1..(k + 1) |-> <<to(i)>>]
  BY ExtendedElements
<1>4. /\ IsAllocated(h, Top(r)) /\ Object(h, Top(r)) = s /\ s.of = name
      /\ IsAllocated(h, Top(r + 2)) /\ Object(h, Top(r + 2)) = header
      /\ IsAdded(header) /\ header.of = EntryName
  BY AddressesAt DEF HoldsExtended, Top, Block, IsAdded
<1>5. /\ <<>> \in DOMAIN wire /\ at[<<>>] = Top(r) /\ steps[<<>>] = {<<2, i>> : i \in 1..(k + 1)}
      /\ at[new] = Top(r + 2) /\ steps[new] = {}
      /\ \A p \in DOMAIN wire : p # <<>> => at[p] = At(n, p, 0) /\ steps[p] = StepsAt(wire, p)
  BY <1>2 DEF TreeFits, ExtendedPaths, ExtendedAt, ExtendedSteps
<1>6. paths = DOMAIN wire \cup {new}
  BY DEF ExtendedPaths
<1>7. \A i \in 1..(k + 1) : i = k + 1 \/ i \in 1..k
  BY <1>1
<1>8. ASSUME NEW i \in 1..(k + 1)
      PROVE  to(i) = at[HeaderAt(i)] /\ HeaderAt(i) \in paths
  <2>1. CASE i = k + 1
    BY <1>5, <1>6, <2>1
  <2>2. CASE i # k + 1
    <3>1. HeaderAt(i) \in DOMAIN wire /\ HeaderAt(i) # <<>>
      BY <1>1, <1>2, <1>7, <2>2
    <3> QED
      BY <1>5, <1>6, <2>2, <3>1
  <2> QED
    BY <2>1, <2>2
<1> HIDE DEF to, at, steps, s, header, k, paths
<1>9. Below(h, [path |-> <<>>, at |-> at[<<>>]]) =
         {[path |-> Append(<<>>, step), at |-> at[Append(<<>>, step)]] : step \in steps[<<>>]}
  <2> DEFINE table == DescriptorOf(name).fields
             e == Elements(h, s, table[2])
             root == <<>>
             top == steps[root]
  <2>1. DOMAIN table = {1, 2} /\ table[1].type = "bytes" /\ table[2].type = "message"
    BY SpringRows DEF Row
  <2>2. top = {<<2, i>> : i \in 1..(k + 1)}
    BY <1>5
  <2>3. DOMAIN e = 1..(k + 1) /\ \A i \in 1..(k + 1) : e[i] = <<to(i)>>
    BY <1>3
  <2> HIDE DEF e, top
  <2>4. \A i : i \in DOMAIN e <=> <<2, i>> \in top
    BY <2>2, <2>3
  <2>5. \A i \in DOMAIN e : e[i][1] = at[Append(root, <<2, i>>)]
    <3>1. ASSUME NEW i \in 1..(k + 1) PROVE e[i][1] = at[HeaderAt(i)]
      BY <1>8, <2>3, OneWord
    <3> QED
      BY <2>3, <3>1 DEF HeaderAt
  <2>6. top \subseteq StepsFor(name)
    <3>1. \A i \in 1..(k + 1) : i \in Nat
      BY <1>1
    <3> QED
      BY <2>1, <2>2, <3>1 DEF StepsFor
  <2> HIDE DEF table, root
  <2>7. \A id \in DOMAIN table : table[id].type = "message" =>
           /\ \A i : i \in DOMAIN Elements(h, Object(h, at[root]), table[id]) <=> <<id, i>> \in top
           /\ \A i \in DOMAIN Elements(h, Object(h, at[root]), table[id]) :
                 Elements(h, Object(h, at[root]), table[id])[i][1] = at[Append(root, <<id, i>>)]
    BY <1>4, <1>5, <2>1, <2>4, <2>5 DEF e, root
  <2>8. IsAllocated(h, at[root]) /\ Object(h, at[root]).of = name
    BY <1>4, <1>5 DEF root
  <2>9. name \in Messages
    BY DEF Messages
  <2> HIDE DEF name
  <2>10. Below(h, [path |-> root, at |-> at[root]]) = LedTo(root, at, top)
    BY <2>6, <2>7, <2>8, <2>9, BelowBy DEF table
  <2> QED
    BY <2>10 DEF root, top, LedTo
<1>10. Below(h, [path |-> new, at |-> at[new]]) =
          {[path |-> Append(new, step), at |-> at[Append(new, step)]] : step \in steps[new]}
  <2> DEFINE table == DescriptorOf(EntryName).fields
             none == steps[new]
  <2>1. DOMAIN table = {1, 2} /\ table[1].type = "string" /\ table[2].type = "string"
    BY HeadersEntryRows DEF Row, EntryName
  <2>2. none = {}
    BY <1>5
  <2>3. IsAllocated(h, at[new]) /\ Object(h, at[new]).of = EntryName
    BY <1>4, <1>5
  <2>4. EntryName \in Messages
    BY DEF EntryName, Messages
  <2> HIDE DEF table, none, new
  <2>5. \A id \in DOMAIN table : table[id].type # "message"
    BY <2>1
  <2>6. Below(h, [path |-> new, at |-> at[new]]) = LedTo(new, at, none)
    BY <2>2, <2>3, <2>4, <2>5, BelowBy DEF table
  <2> QED
    BY <2>6 DEF none, LedTo
<1>11. ASSUME NEW p \in DOMAIN wire, p # <<>>
       PROVE  /\ Below(h, [path |-> p, at |-> at[p]]) =
                    {[path |-> Append(p, step), at |-> at[Append(p, step)]] : step \in steps[p]}
              /\ \A step \in steps[p] : Append(p, step) \in DOMAIN wire
  <2> DEFINE old == [q \in DOMAIN wire |-> At(n, q, 0)]
             oldSteps == [q \in DOMAIN wire |-> StepsAt(wire, q)]
  <2>1. Walk(h, DOMAIN wire, old, oldSteps)
    BY TreeWalk
  <2>2. /\ \A q \in DOMAIN wire : q # <<>> => old[q] = at[q]
        /\ oldSteps[p] = steps[p] /\ steps[p] = StepsAt(wire, p)
    BY <1>5, <1>11
  <2> HIDE DEF old, oldSteps
  <2>3. Below(h, [path |-> p, at |-> old[p]]) =
           {[path |-> Append(p, step), at |-> old[Append(p, step)]] : step \in oldSteps[p]}
    BY <2>1 DEF Walk
  <2>4. \A step \in steps[p] : Append(p, step) \in DOMAIN wire /\ Append(p, step) # <<>>
    <3>1. ASSUME NEW step \in StepsAt(wire, p)
          PROVE  Append(p, step) \in DOMAIN wire /\ Append(p, step) # <<>>
      <4>1. step \in Nat \X Nat /\ Append(p, step) \in DOMAIN wire
        BY TreeSteps
      <4>2. p \in Seq(Nat \X Nat)
        BY DEF TreeFits
      <4> QED
        BY <4>1, <4>2, Steps
    <3> QED
      BY <2>2, <3>1
  <2>5. old[p] = at[p] /\ \A step \in steps[p] : old[Append(p, step)] = at[Append(p, step)]
    BY <1>11, <2>2, <2>4
  <2> QED
    BY <2>2, <2>3, <2>4, <2>5
<1>12. \A p \in paths : p = <<>> \/ \E q \in paths : \E step \in steps[q] : p = Append(q, step)
  <2>1. new = Append(<<>>, <<2, k + 1>>) /\ <<2, k + 1>> \in steps[<<>>]
    BY <1>1, <1>5 DEF HeaderAt
  <2>2. ASSUME NEW p \in DOMAIN wire, p # <<>>
        PROVE  \E q \in DOMAIN wire : \E step \in steps[q] : p = Append(q, step)
    <3>1. PICK q \in DOMAIN wire : \E step \in StepsAt(wire, q) : p = Append(q, step)
      BY <2>2 DEF TreeFits
    <3>2. StepsAt(wire, q) \subseteq steps[q]
      <4>1. CASE q = <<>>
        <5>1. \A i \in 1..k : i \in 1..(k + 1)
          BY <1>1
        <5> QED
          BY <1>1, <1>5, <4>1, <5>1
      <4>2. CASE q # <<>>
        BY <1>5, <4>2
      <4> QED
        BY <4>1, <4>2
    <3> QED
      BY <3>1, <3>2
  <2>3. \E q \in paths : \E step \in steps[q] : new = Append(q, step)
    BY <1>5, <1>6, <2>1
  <2> HIDE DEF new
  <2> QED
    BY <1>6, <2>2, <2>3
<1>13. \A step \in steps[<<>>] : Append(<<>>, step) \in paths
  BY <1>5, <1>8 DEF HeaderAt
<1>14. \A p \in paths : p \in Seq(Nat \X Nat) /\ Len(p) <= Depth
  BY <1>2, <1>6, DepthAssumption DEF TreeFits
<1> HIDE DEF new
<1>15. Walk(h, paths, at, steps)
  <2>1. ASSUME NEW p \in paths
        PROVE  /\ Below(h, [path |-> p, at |-> at[p]]) =
                     {[path |-> Append(p, step), at |-> at[Append(p, step)]] : step \in steps[p]}
               /\ \A step \in steps[p] : Append(p, step) \in paths
    <3>1. CASE p = <<>>
      BY <1>9, <1>13, <3>1
    <3>2. CASE p = new
      BY <1>5, <1>10, <3>2
    <3>3. CASE p \in DOMAIN wire /\ p # <<>>
      BY <1>6, <1>11, <3>3
    <3> QED
      BY <1>6, <3>1, <3>2, <3>3
  <2>2. <<>> \in paths
    BY <1>5, <1>6
  <2> HIDE DEF paths
  <2> QED
    BY <1>12, <1>14, <2>1, <2>2 DEF Walk
<1> QED
  BY <1>15 DEF paths, at, steps

(* response: the message with a header more is packed. *)
LEMMA ExtendedPacked ==
    ASSUME NEW wire, TreeFits("SpringMessage", wire), NEW h, NEW n, HoldsTree(h, n, wire),
           NEW r, HoldsExtended(h, n, r, wire), Depth >= 1
    PROVE  PackMessage(h, Top(r)) = ExtendedWire(wire)
<1> DEFINE name == "SpringMessage"
           new == HeaderAt(Count(wire) + 1)
           paths == ExtendedPaths(wire)
           at == ExtendedAt(n, r, wire)
           steps == ExtendedSteps(wire)
           made == ExtendedWire(wire)
           s == h.objects[Block(r)]
           header == h.objects[Block(r + 2)]
<1>1. new \notin DOMAIN wire /\ new # <<>>
  BY NewHeader
<1>2. paths = DOMAIN wire \cup {new}
  BY DEF ExtendedPaths
<1>3. Walk(h, paths, at, steps)
  BY ExtendedWalk
<1>4. /\ IsAllocated(h, Top(r)) /\ Object(h, Top(r)) = s /\ s.of = name
      /\ IsAllocated(h, Top(r + 2)) /\ Object(h, Top(r + 2)) = header
      /\ IsAdded(header) /\ header.of = EntryName
  BY AddressesAt DEF HoldsExtended, Top, Block, IsAdded
<1>5. /\ <<>> \in DOMAIN wire /\ at[<<>>] = Top(r) /\ at[new] = Top(r + 2)
      /\ \A p \in DOMAIN wire : p # <<>> => at[p] = At(n, p, 0)
  BY <1>1 DEF TreeFits, ExtendedPaths, ExtendedAt
<1>6. /\ made[<<>>] = [of |-> name, fields |-> Extended(wire)]
      /\ made[new] = [of |-> EntryName, fields |-> AddedFields]
      /\ \A p \in DOMAIN wire : p # <<>> => made[p] = Meant(wire)[p]
      /\ DOMAIN made = paths /\ made = [p \in paths |-> made[p]]
  BY <1>1, <1>2, <1>5 DEF ExtendedWire
<1> HIDE DEF at, steps, made, s, header, paths, new
<1>7. ASSUME NEW p \in paths
      PROVE  IsAllocated(h, at[p]) /\ PackStruct(h, Object(h, at[p])) = made[p]
  <2>1. CASE p = <<>>
    BY <1>4, <1>5, <1>6, <2>1, ExtendedStruct DEF s
  <2>2. CASE p = new
    BY <1>4, <1>5, <1>6, <2>2, HeaderStruct
  <2>3. CASE p \in DOMAIN wire /\ p # <<>>
    <3>1. /\ <<n, p, 0>> \in DOMAIN h.objects
          /\ StructFits(h, h.objects[<<n, p, 0>>], n, p, wire[p].of, wire[p].fields)
      BY <2>3 DEF HoldsTree
    <3>2. IsAllocated(h, At(n, p, 0)) /\ Object(h, At(n, p, 0)) = h.objects[<<n, p, 0>>]
      BY <3>1, AddressesAt
    <3>3. FieldsFit(wire[p].of, wire[p].fields)
      BY <2>3, FieldsOf
    <3>4. PackStruct(h, h.objects[<<n, p, 0>>]) = Meant(wire)[p]
      BY <2>3, <3>1, <3>3, PackedStruct DEF Meant
    <3> QED
      BY <1>5, <1>6, <2>3, <3>2, <3>4
  <2> QED
    BY <1>2, <2>1, <2>2, <2>3
<1>8. PackMessage(h, at[<<>>]) = made
  BY <1>3, <1>6, <1>7, WalkPacked
<1> QED
  BY <1>5, <1>8 DEF made

-----------------------------------------------------------------------------
(* A heap with a member of a struct changed. *)
Edited(h, g, b, m, words) ==
    /\ g = [objects |-> g.objects, next |-> h.next, fault |-> h.fault]
    /\ DOMAIN g.objects = DOMAIN h.objects
    /\ g.objects[b] = [of |-> h.objects[b].of, at |-> g.objects[b].at]
    /\ g.objects[b].of = h.objects[b].of
    /\ DOMAIN g.objects[b].at = DOMAIN h.objects[b].at
    /\ g.objects[b].at[m] = words
    /\ \A other \in DOMAIN h.objects[b].at : other # m => g.objects[b].at[other] = h.objects[b].at[other]
    /\ \A a \in DOMAIN h.objects : a # b => g.objects[a] = h.objects[a]

(* Assigning to one member changes nothing else. *)
LEMMA Edits ==
    ASSUME NEW h, h = [objects |-> h.objects, next |-> h.next, fault |-> h.fault],
           NEW b \in DOMAIN h.objects, h.objects[b] = [of |-> h.objects[b].of, at |-> h.objects[b].at],
           NEW m \in DOMAIN h.objects[b].at, NEW words,
           NEW g, g = [h EXCEPT !.objects[b].at[m] = words]
    PROVE  Edited(h, g, b, m, words)
<1> DEFINE d == h.objects[b].of
           init == h.objects[b].at
<1>1. h.objects[b] = [of |-> d, at |-> init] /\ m \in DOMAIN init
  OBVIOUS
<1> HIDE DEF d, init
<1>2. /\ g = [objects |-> g.objects, next |-> h.next, fault |-> h.fault]
      /\ DOMAIN g.objects = DOMAIN h.objects
      /\ g.objects[b] = [h.objects[b] EXCEPT !.at[m] = words]
      /\ \A a \in DOMAIN h.objects : a # b => g.objects[a] = h.objects[a]
  OBVIOUS
<1>3. g.objects[b] = [of |-> d, at |-> [init EXCEPT ![m] = words]]
  BY <1>1, <1>2
<1> QED
  BY <1>1, <1>2, <1>3 DEF Edited

(* It still has what was there before the struct was made. *)
LEMMA EditedGrown ==
    ASSUME NEW h, NEW h2, Grown(h, h2), NEW g, NEW m, NEW words, Edited(h2, g, Block(h.next), m, words)
    PROVE  Grown(h, g)
<1>1. h2 = [objects |-> h2.objects, next |-> h.next + 1, fault |-> h2.fault] /\ h2.fault = FALSE
  <2>1. h2 = [objects |-> h2.objects, next |-> h.next + 1, fault |-> FALSE]
    BY DEF Grown
  <2> QED
    BY <2>1
<1>2. /\ g = [objects |-> g.objects, next |-> h2.next, fault |-> h2.fault]
      /\ DOMAIN g.objects = DOMAIN h2.objects
      /\ \A a \in DOMAIN h2.objects : a # Block(h.next) => g.objects[a] = h2.objects[a]
  BY DEF Edited
<1>3. g = [objects |-> g.objects, next |-> h.next + 1, fault |-> FALSE] /\ g.next = h.next + 1
  BY <1>1, <1>2
<1>4. /\ DOMAIN h2.objects = {Block(h.next)} \cup DOMAIN h.objects
      /\ Block(h.next) \notin DOMAIN h.objects
      /\ \A a \in DOMAIN h.objects : a \in DOMAIN h2.objects /\ h2.objects[a] = h.objects[a]
      /\ HeapOk(h2)
  BY DEF Grown, Agree
<1>5. h2.next = h.next + 1
  BY <1>1
<1>6. g = [objects |-> g.objects, next |-> g.next, fault |-> FALSE]
  BY <1>3
<1>7. HeapOk(g)
  BY <1>2, <1>3, <1>4, <1>5, <1>6 DEF HeapOk
<1> QED
  BY <1>2, <1>3, <1>4, <1>7 DEF Grown, Agree

-----------------------------------------------------------------------------
(* What the functions build. *)
MadeFor(f, r) == IF f = "response" THEN {Block(r), Block(r + 1), Block(r + 2)} ELSE {Block(r)}

HoldsResult(f, h, n, r, wire) ==
    /\ MadeFor(f, r) \subseteq DOMAIN h.objects
    /\ h.objects[Block(r)].of = TypeOf(f).descriptor
    /\ f = "request" => Shares(h, r, n, SpringMembers)
    /\ f = "response" => HoldsExtended(h, n, r, wire)
    /\ f = "filter" =>
          /\ Shares(h, r, n, EventMembers)
          /\ h.objects[Block(r)].at["id"] = <<<<"static", "1-5150">>>>

(* A result stays as long as its struct and what it shares do. *)
LEMMA ResultStays ==
    ASSUME NEW f, NEW h, NEW n, NEW r, NEW wire, HoldsResult(f, h, n, r, wire),
           NEW h2, Agree(h, h2, {Block(n)} \cup MadeFor(f, r))
    PROVE  HoldsResult(f, h2, n, r, wire)
<1>1. /\ h2.objects[Block(n)] = h.objects[Block(n)]
      /\ Block(r) \in DOMAIN h2.objects /\ h2.objects[Block(r)] = h.objects[Block(r)]
      /\ MadeFor(f, r) \subseteq DOMAIN h2.objects
  BY DEF Agree, MadeFor
<1>2. \A members : Shares(h, r, n, members) => Shares(h2, r, n, members)
  BY <1>1 DEF Shares
<1>3. ASSUME f = "response", HoldsExtended(h, n, r, wire)
      PROVE  HoldsExtended(h2, n, r, wire)
  <2>1. /\ Block(r + 1) \in DOMAIN h2.objects /\ h2.objects[Block(r + 1)] = h.objects[Block(r + 1)]
        /\ Block(r + 2) \in DOMAIN h2.objects /\ h2.objects[Block(r + 2)] = h.objects[Block(r + 2)]
    BY <1>3 DEF Agree, MadeFor
  <2> QED
    BY <1>1, <1>2, <1>3, <2>1 DEF HoldsExtended
<1> QED
  BY <1>1, <1>2, <1>3 DEF HoldsResult

(* What is packed of it. *)
ResultWire(f, wire) ==
    IF f = "filter" THEN RenamedWire(wire)
    ELSE IF f = "response" THEN ExtendedWire(wire) ELSE Meant(wire)

(* pack writes the result as the function built it, messages within it *)
(* included.                                                           *)
LEMMA ResultPacked ==
    ASSUME NEW f \in Exports \ {"predicate"}, NEW wire, TreeFits(TypeOf(f).descriptor, wire),
           NEW h, NEW n, HoldsTree(h, n, wire), NEW r, HoldsResult(f, h, n, r, wire)
    PROVE  PackMessage(h, Top(r)) = ResultWire(f, wire)
<1>1. f \in {"request", "response", "filter"}
  BY ExportsAssumption
<1>2. /\ f = "filter" => TypeOf(f).descriptor = "CloudEvent"
      /\ f # "filter" => TypeOf(f).descriptor = "SpringMessage"
  BY DEF TypeOf, cloud_event, spring_message, FunctionsOf
<1>3. Block(r) \in DOMAIN h.objects
  BY DEF HoldsResult, MadeFor
<1>4. CASE f = "request"
  BY <1>2, <1>3, <1>4, RequestPacked DEF HoldsResult, ResultWire
<1>5. CASE f = "response"
  <2>1. Depth >= 1
    BY <1>5, DepthSuffices
  <2> QED
    BY <1>2, <1>5, <2>1, ExtendedPacked DEF HoldsResult, ResultWire
<1>6. CASE f = "filter"
  BY <1>2, <1>3, <1>6, FilterPacked DEF HoldsResult, ResultWire
<1> QED
  BY <1>1, <1>4, <1>5, <1>6

(* It has no values from objects that are gone. *)
LEMMA ResultNotFreed ==
    ASSUME NEW f, NEW wire, TreeFits(TypeOf(f).descriptor, wire)
    PROVE  NoneFreed(ResultWire(f, wire))
<1> DEFINE Fine(fields) == \A id \in DOMAIN fields : \A i \in DOMAIN fields[id] : fields[id][i][1] # "freed"
<1>1. ASSUME NEW p \in DOMAIN wire
      PROVE  Fine(wire[p].fields)
  <2>1. FieldsFit(wire[p].of, wire[p].fields)
    BY DEF TreeFits
  <2> SUFFICES ASSUME NEW id \in DOMAIN wire[p].fields, NEW i \in DOMAIN wire[p].fields[id]
               PROVE  wire[p].fields[id][i][1] # "freed"
    OBVIOUS
  <2> DEFINE type == DescriptorOf(wire[p].of).fields[id].type
             value == wire[p].fields[id][i]
  <2>2. wire[p].fields[id] \in Seq(ValuesOf(type))
    BY <2>1 DEF FieldsFit
  <2> HIDE DEF type
  <2>3. value \in ValuesOf(type)
    BY <2>2
  <2> HIDE DEF value
  <2>4. value = Within \/ value \in {"text"} \X STRING \/ value \in {"number"} \X Nat
    BY <2>3 DEF ValuesOf
  <2>5. value[1] # "freed"
    <3>1. Within[1] = "message"
      BY DEF Within
    <3>2. \A v \in {"text"} \X STRING : v[1] = "text"
      OBVIOUS
    <3>3. \A v \in {"number"} \X Nat : v[1] = "number"
      OBVIOUS
    <3> QED
      BY <2>4, <3>1, <3>2, <3>3
  <2> QED
    BY <2>5 DEF value
<1>2. ASSUME NEW p \in DOMAIN wire
      PROVE  Fine(Meant(wire)[p].fields)
  BY <1>1, <1>2 DEF Meant, Telling
<1>3. <<>> \in DOMAIN wire /\ DOMAIN Meant(wire) = DOMAIN wire
  BY DEF TreeFits, Meant
<1>4. Fine(Renumbered(wire[<<>>].fields))
  <2> DEFINE made == Renumbered(wire[<<>>].fields)
  <2>1. /\ made[1] = <<<<"text", "1-5150">>>>
        /\ \A id \in DOMAIN made : id # 1 =>
              id \in DOMAIN wire[<<>>].fields /\ made[id] = wire[<<>>].fields[id]
    BY DEF Renumbered, Telling
  <2>2. \A i \in DOMAIN made[1] : made[1][i][1] # "freed"
    <3> DEFINE values == <<<<"text", "1-5150">>>>
    <3>1. DOMAIN values = {1} /\ values[1][1] = "text"
      BY OneElement
    <3> HIDE DEF values, made
    <3> QED
      BY <2>1, <3>1 DEF values
  <2> HIDE DEF made
  <2> QED
    BY <1>1, <1>3, <2>1, <2>2 DEF made
<1>5. Fine(Extended(wire))
  <2> DEFINE made == Extended(wire)
             withins == [i \in 1..(Count(wire) + 1) |-> Within]
  <2>1. /\ made[2] = withins
        /\ \A id \in DOMAIN made : id # 2 =>
              id \in DOMAIN wire[<<>>].fields /\ made[id] = wire[<<>>].fields[id]
    BY DEF Extended, Telling
  <2>2. \A i \in DOMAIN withins : withins[i][1] # "freed"
    BY DEF Within
  <2> HIDE DEF made, withins
  <2> QED
    BY <1>1, <1>3, <2>1, <2>2 DEF made
<1>6. Fine(AddedFields)
  <2>1. /\ DOMAIN AddedFields = {1, 2}
        /\ AddedFields[1] = <<<<"text", "one">>>> /\ AddedFields[2] = <<<<"text", "two">>>>
    BY DEF AddedFields
  <2> DEFINE one == <<<<"text", "one">>>>
             two == <<<<"text", "two">>>>
  <2>2. DOMAIN one = {1} /\ one[1][1] = "text" /\ DOMAIN two = {1} /\ two[1][1] = "text"
    BY OneElement
  <2>3. AddedFields[1] = one /\ AddedFields[2] = two
    BY <2>1
  <2> HIDE DEF one, two
  <2> QED
    BY <2>1, <2>2, <2>3
<1> HIDE DEF Fine
<1>7. \A p \in DOMAIN ResultWire(f, wire) : Fine(ResultWire(f, wire)[p].fields)
  <2>1. \A p \in DOMAIN RenamedWire(wire) : Fine(RenamedWire(wire)[p].fields)
    BY <1>2, <1>4 DEF RenamedWire
  <2>2. \A p \in DOMAIN ExtendedWire(wire) : Fine(ExtendedWire(wire)[p].fields)
    BY <1>2, <1>5, <1>6 DEF ExtendedWire
  <2> QED
    BY <1>2, <1>3, <2>1, <2>2 DEF ResultWire
<1> QED
  BY <1>7 DEF NoneFreed, Fine

-----------------------------------------------------------------------------
(* The functions' own steps: what was there stays. *)
Keeps(h, g) == HeapOk(g) /\ Agree(h, g, DOMAIN h.objects)

(* The types of messages the functions take. *)
LEMMA TypesOf ==
    /\ \A f : f # "filter" =>
          TypeOf(f).descriptor = "SpringMessage" /\ TypeOf(f).init = SpringMessageStruct
    /\ TypeOf("filter").descriptor = "CloudEvent" /\ TypeOf("filter").init = CloudEventStruct
BY DEF TypeOf, cloud_event, spring_message, FunctionsOf

(* The members of the result that are the message's. *)
LEMMA SharedMembers ==
    ASSUME HeapOk(heap), NEW n, Block(n) \in DOMAIN heap.objects, msg = Top(n), NEW members
    PROVE  LET r == heap.next
               g == Shared(members)
               s == g.objects[Block(r)]
           IN /\ Grown(heap, g) /\ s = [of |-> Type.descriptor, at |-> s.at]
              /\ s.of = Type.descriptor /\ DOMAIN s.at = DOMAIN Type.init
              /\ Shares(g, r, n, members \cap DOMAIN Type.init)
<1> DEFINE r == heap.next
           g == Shared(members)
           s == g.objects[Block(r)]
           at == [m \in DOMAIN Type.init |-> IF m \in members THEN Member(heap, msg, m) ELSE Type.init[m]]
<1>1. Grown(heap, g) /\ s = [of |-> Type.descriptor, at |-> at]
  BY SharedGrows
<1>2. Object(heap, msg) = heap.objects[Block(n)]
  BY AddressesAt DEF Top, Block
<1>3. g.objects[Block(n)] = heap.objects[Block(n)]
  BY <1>1 DEF Grown, Agree
<1>4. /\ DOMAIN at = DOMAIN Type.init
      /\ \A m \in members \cap DOMAIN Type.init : at[m] = heap.objects[Block(n)].at[m]
  BY <1>2 DEF Member
<1> HIDE DEF at, g
<1>5. s.of = Type.descriptor /\ s.at = at
  BY <1>1
<1>6. Shares(g, r, n, members \cap DOMAIN Type.init)
  BY <1>3, <1>4, <1>5 DEF Shares
<1> QED
  BY <1>1, <1>4, <1>5, <1>6 DEF g

(* One more object leaves what was there. *)
LEMMA GrownKept ==
    ASSUME NEW h, NEW g, Grown(h, g)
    PROVE  Keeps(h, g) /\ g.next = h.next + 1
BY DEF Grown, Keeps, HeapOk

(* request's statements build its result. *)
LEMMA RequestBuilt ==
    ASSUME HeapOk(heap), NEW n, Block(n) \in DOMAIN heap.objects, msg = Top(n),
           call.function = "request"
    PROVE  LET g == Shared(SpringMembers)
           IN /\ Keeps(heap, g) /\ HoldsResult("request", g, n, heap.next, input)
              /\ DOMAIN g.objects = MadeFor("request", heap.next) \cup DOMAIN heap.objects
<1> DEFINE g == Shared(SpringMembers)
<1>1. Type.descriptor = "SpringMessage" /\ DOMAIN Type.init = SpringMembers
  BY TypesOf, SpringRows DEF Type
<1>2. /\ Grown(heap, g) /\ g.objects[Block(heap.next)].of = Type.descriptor
      /\ Shares(g, heap.next, n, SpringMembers \cap DOMAIN Type.init)
  BY SharedMembers
<1> HIDE DEF g
<1>3. Shares(g, heap.next, n, SpringMembers)
  BY <1>1, <1>2 DEF Shares
<1>4. /\ Block(heap.next) \in DOMAIN g.objects
      /\ DOMAIN g.objects = MadeFor("request", heap.next) \cup DOMAIN heap.objects
  BY <1>2 DEF Grown, MadeFor
<1>5. TypeOf("request").descriptor = "SpringMessage"
  BY TypesOf
<1>6. HoldsResult("request", g, n, heap.next, input)
  BY <1>1, <1>2, <1>3, <1>4, <1>5 DEF HoldsResult, MadeFor
<1> QED
  BY <1>2, <1>4, <1>6, GrownKept DEF g

(* filter's statements build its result, the words of the union included. *)
LEMMA FilterBuilt ==
    ASSUME HeapOk(heap), NEW n, Block(n) \in DOMAIN heap.objects, msg = Top(n),
           call.function = "filter"
    PROVE  LET g == Renamed(EventMembers)
           IN /\ Keeps(heap, g) /\ HoldsResult("filter", g, n, heap.next, input)
              /\ DOMAIN g.objects = MadeFor("filter", heap.next) \cup DOMAIN heap.objects
<1> DEFINE r == heap.next
           b == Block(r)
           h2 == Shared(EventMembers)
           g == Renamed(EventMembers)
           words == <<<<"static", "1-5150">>>>
<1>1. /\ Type.descriptor = "CloudEvent" /\ DOMAIN Type.init = {"id"} \cup EventMembers
      /\ "id" \notin EventMembers
  BY TypesOf, CloudEventRows DEF Type
<1>2. /\ Grown(heap, h2) /\ h2.objects[b] = [of |-> Type.descriptor, at |-> h2.objects[b].at]
      /\ h2.objects[b].of = Type.descriptor /\ DOMAIN h2.objects[b].at = DOMAIN Type.init
      /\ Shares(h2, r, n, EventMembers \cap DOMAIN Type.init)
  BY SharedMembers
<1>3. g = [h2 EXCEPT !.objects[b].at.id = words]
  BY Blocks DEF Renamed
<1> HIDE DEF h2, g, words, b
<1>4. Edited(h2, g, b, "id", words)
  <2>1. h2 = [objects |-> h2.objects, next |-> h2.next, fault |-> h2.fault] /\ b \in DOMAIN h2.objects
    BY <1>2 DEF Grown, HeapOk, b
  <2>2. h2.objects[b] = [of |-> h2.objects[b].of, at |-> h2.objects[b].at] /\ "id" \in DOMAIN h2.objects[b].at
    BY <1>1, <1>2
  <2>3. g = [h2 EXCEPT !.objects[b].at["id"] = words]
    BY <1>3
  <2> QED
    BY <2>1, <2>2, <2>3, Edits
<1>5. Grown(heap, g)
  BY <1>2, <1>4, EditedGrown DEF b
<1>6. Block(n) # b /\ Block(n) \in DOMAIN h2.objects
  BY <1>2 DEF Grown, Agree, b
<1>7. /\ g.objects[b].at["id"] = words /\ g.objects[b].of = Type.descriptor
      /\ g.objects[Block(n)] = h2.objects[Block(n)]
      /\ \A m \in EventMembers : g.objects[b].at[m] = h2.objects[b].at[m]
  BY <1>1, <1>2, <1>4, <1>6 DEF Edited
<1>8. Shares(g, r, n, EventMembers)
  <2>1. \A m \in EventMembers : h2.objects[b].at[m] = h2.objects[Block(n)].at[m]
    BY <1>1, <1>2 DEF Shares, b
  <2> QED
    BY <1>7, <2>1 DEF Shares, b
<1>9. b \in DOMAIN g.objects /\ DOMAIN g.objects = MadeFor("filter", r) \cup DOMAIN heap.objects
  BY <1>5 DEF Grown, MadeFor, b
<1>10. TypeOf("filter").descriptor = Type.descriptor
  BY <1>1, TypesOf
<1>11. HoldsResult("filter", g, n, r, input)
  BY <1>7, <1>8, <1>9, <1>10 DEF HoldsResult, MadeFor, b, words
<1> QED
  BY <1>5, <1>9, <1>11, GrownKept DEF g

(* The message's headers, as the functions find them. *)
LEMMA HeadersFound ==
    ASSUME NEW n, HoldsTree(heap, n, input), TreeFits("SpringMessage", input), msg = Top(n)
    PROVE  /\ Count(input) \in Nat
           /\ Headers(msg) = [i \in 1..Count(input) |-> At(n, HeaderAt(i), 0)]
           /\ Len(Headers(msg)) = Count(input)
<1> DEFINE k == Count(input)
           s == heap.objects[Block(n)]
           items == [i \in 1..k |-> At(n, HeaderAt(i), 0)]
<1>1. /\ k \in Nat
      /\ k = 0 => s.at["n_headers"][1] = Zero
      /\ k # 0 => /\ s.at["n_headers"][1] # Zero
                  /\ s.at["headers"][1] = At(n, <<>>, 2)
                  /\ <<n, <<>>, 2>> \in DOMAIN heap.objects
                  /\ heap.objects[<<n, <<>>, 2>>].items = items
  BY HeadersOf
<1>2. Object(heap, msg) = s
  BY AddressesAt DEF Top, Block
<1>3. Object(heap, At(n, <<>>, 2)) = heap.objects[<<n, <<>>, 2>>]
  BY AddressesAt
<1> HIDE DEF s, items
<1>4. k = 0 => Headers(msg) = <<>>
  BY <1>1, <1>2 DEF Headers, Member
<1>5. k # 0 => Headers(msg) = items
  BY <1>1, <1>2, <1>3 DEF Headers, Member
<1>6. k = 0 => items = <<>>
  <2>1. k = 0 => 1..k = {}
    OBVIOUS
  <2> QED
    BY <2>1 DEF items
<1>7. Len(items) = k
  BY <1>1 DEF items
<1> QED
  BY <1>1, <1>4, <1>5, <1>6, <1>7 DEF items

(* response's statements build its result, with room for every header. *)
LEMMA ResponseBuilt ==
    ASSUME HeapOk(heap), NEW n, HoldsTree(heap, n, input), TreeFits("SpringMessage", input),
           msg = Top(n), call.function = "response"
    PROVE  LET g == WithHeader(Len(Headers(msg)) + 1)
           IN /\ Keeps(heap, g) /\ HoldsResult("response", g, n, heap.next, input)
              /\ DOMAIN g.objects = MadeFor("response", heap.next) \cup DOMAIN heap.objects
<1> DEFINE r == heap.next
           k == Count(input)
           last == Len(Headers(msg)) + 1
           items == [i \in 1..(Len(Headers(msg)) + 1) |->
                        IF i = last THEN Top(r + 2) ELSE Headers(msg)[i]]
           h1 == Shared({"payload"})
           h2 == Malloc(h1, [items |-> items])
           h3 == New(h2, spring_message__headers_entry)
           one == <<<<"static", "one">>>>
           two == <<<<"static", "two">>>>
           to == <<Top(r + 1)>>
           count == <<<<"int", last>>>>
           b == Block(r)
           c == Block(r + 2)
           g1 == [h3 EXCEPT !.objects[c].at.key = one]
           g2 == [g1 EXCEPT !.objects[c].at.value = two]
           g3 == [g2 EXCEPT !.objects[b].at.headers = to]
           g4 == [g3 EXCEPT !.objects[b].at.n_headers = count]
<1>1. k \in Nat /\ last = k + 1 /\ items = [i \in 1..(k + 1) |-> IF i = k + 1 THEN Top(r + 2) ELSE At(n, HeaderAt(i), 0)]
  <2>1. k \in Nat /\ Headers(msg) = [i \in 1..k |-> At(n, HeaderAt(i), 0)] /\ Len(Headers(msg)) = k
    BY HeadersFound
  <2>2. \A i \in 1..(k + 1) : i # k + 1 => i \in 1..k
    BY <2>1
  <2> HIDE DEF k
  <2> QED
    BY <2>1, <2>2
<1>2. WithHeader(last) = g4
  <2>1. WithHeader(last) =
           [h3 EXCEPT !.objects[Top(r + 2)[2]].at.key = one, !.objects[Top(r + 2)[2]].at.value = two,
                      !.objects[Top(r)[2]].at.headers = to, !.objects[Top(r)[2]].at.n_headers = count]
    BY DEF WithHeader
  <2>2. Top(r + 2)[2] = c /\ Top(r)[2] = b
    BY Blocks
  <2> HIDE DEF h3, one, two, to, count, b, c
  <2> QED
    BY <2>1, <2>2
<1>3. /\ Type.descriptor = "SpringMessage" /\ DOMAIN Type.init = SpringMembers
      /\ {"payload"} \cap DOMAIN Type.init = {"payload"}
  BY TypesOf, SpringRows DEF Type, SpringMembers
<1>4. Block(n) \in DOMAIN heap.objects
  BY DEF HoldsTree, TreeFits, Block
<1>5. /\ Grown(heap, h1) /\ h1.objects[b] = [of |-> Type.descriptor, at |-> h1.objects[b].at]
      /\ h1.objects[b].of = Type.descriptor /\ DOMAIN h1.objects[b].at = SpringMembers
      /\ Shares(h1, r, n, {"payload"})
  BY <1>3, <1>4, SharedMembers
<1> HIDE DEF h1, k, last, items, one, two, to, count
<1>6. /\ HeapOk(h1) /\ h1.next = r + 1 /\ r \in Nat
  BY <1>5, GrownMore DEF HeapOk
<1>7. Grown(h1, h2) /\ h2.objects[Block(r + 1)] = [items |-> items]
  BY <1>6, MallocGrows
<1> HIDE DEF h2
<1>8. HeapOk(h2) /\ h2.next = r + 2
  BY <1>6, <1>7, GrownMore
<1>9. /\ Grown(h2, h3)
      /\ h3.objects[c] = [of |-> spring_message__headers_entry.descriptor,
                          at |-> spring_message__headers_entry.init]
  BY <1>8, NewGrows
<1> HIDE DEF h3
<1>10. /\ h3.objects[c] = [of |-> EntryName, at |-> h3.objects[c].at] /\ h3.objects[c].of = EntryName
       /\ DOMAIN h3.objects[c].at = {"key", "value"} /\ c \in DOMAIN h3.objects
  <2>1. /\ spring_message__headers_entry.descriptor = EntryName
        /\ spring_message__headers_entry.init = SpringHeadersEntryStruct
    BY DEF spring_message__headers_entry, FunctionsOf, EntryName
  <2>2. DOMAIN SpringHeadersEntryStruct = {"key", "value"}
    BY DEF SpringHeadersEntryStruct
  <2>3. c = Block(h2.next)
    BY <1>8
  <2> HIDE DEF c
  <2>4. c \in DOMAIN h3.objects
    BY <1>9, <2>3 DEF Grown
  <2> QED
    BY <1>9, <2>1, <2>2, <2>4
<1>11. b # c /\ b # Block(r + 1) /\ c # Block(r + 1) /\ Block(h2.next) = c
  BY <1>6, <1>8, Blocks
<1>12. /\ b \in DOMAIN h3.objects /\ h3.objects[b] = h1.objects[b]
       /\ Block(r + 1) \in DOMAIN h3.objects /\ h3.objects[Block(r + 1)] = [items |-> items]
  <2>1. b \in DOMAIN h1.objects /\ Block(r + 1) \in DOMAIN h2.objects
    BY <1>5, <1>6, <1>7 DEF Grown
  <2> HIDE DEF b
  <2> QED
    BY <1>7, <1>9, <2>1 DEF Grown, Agree
<1> HIDE DEF b, c
<1>13. Edited(h3, g1, c, "key", one)
  <2>1. h3 = [objects |-> h3.objects, next |-> h3.next, fault |-> h3.fault]
    BY <1>9 DEF Grown, HeapOk
  <2>2. g1 = [h3 EXCEPT !.objects[c].at["key"] = one]
    OBVIOUS
  <2> HIDE DEF g1
  <2>3. h3.objects[c] = [of |-> h3.objects[c].of, at |-> h3.objects[c].at] /\ "key" \in DOMAIN h3.objects[c].at
    BY <1>10
  <2> QED
    BY <1>10, <2>1, <2>2, <2>3, Edits
<1> HIDE DEF g1
<1>14. Grown(h2, g1) /\ c \in DOMAIN g1.objects
  <2>1. Grown(h2, g1)
    BY <1>9, <1>11, <1>13, EditedGrown
  <2> QED
    BY <1>10, <1>13, <2>1 DEF Edited
<1>15. Edited(g1, g2, c, "value", two)
  <2>1. g1 = [objects |-> g1.objects, next |-> g1.next, fault |-> g1.fault]
    BY <1>14 DEF Grown, HeapOk
  <2>2. g2 = [g1 EXCEPT !.objects[c].at["value"] = two]
    OBVIOUS
  <2> HIDE DEF g2
  <2>3. /\ g1.objects[c] = [of |-> g1.objects[c].of, at |-> g1.objects[c].at]
        /\ "value" \in DOMAIN g1.objects[c].at
    BY <1>10, <1>13 DEF Edited
  <2> QED
    BY <1>14, <2>1, <2>2, <2>3, Edits
<1> HIDE DEF g2
<1>16. Grown(h2, g2)
  BY <1>11, <1>14, <1>15, EditedGrown
<1>17. /\ b \in DOMAIN g2.objects /\ g2.objects[b] = h1.objects[b]
       /\ g2.objects[Block(r + 1)] = [items |-> items]
       /\ g2.objects[c].of = EntryName /\ DOMAIN g2.objects[c].at = {"key", "value"}
       /\ g2.objects[c].at["key"] = one /\ g2.objects[c].at["value"] = two
       /\ DOMAIN g2.objects = DOMAIN h3.objects
  BY <1>10, <1>11, <1>12, <1>13, <1>15 DEF Edited
<1>18. Edited(g2, g3, b, "headers", to)
  <2>1. g2 = [objects |-> g2.objects, next |-> g2.next, fault |-> g2.fault]
    BY <1>16 DEF Grown, HeapOk
  <2>2. g3 = [g2 EXCEPT !.objects[b].at["headers"] = to]
    OBVIOUS
  <2> HIDE DEF g3
  <2>3. /\ g2.objects[b] = [of |-> g2.objects[b].of, at |-> g2.objects[b].at]
        /\ "headers" \in DOMAIN g2.objects[b].at
    BY <1>5, <1>17 DEF SpringMembers
  <2> QED
    BY <1>17, <2>1, <2>2, <2>3, Edits
<1> HIDE DEF g3
<1>19. Edited(g3, g4, b, "n_headers", count)
  <2>1. /\ g3 = [objects |-> g3.objects, next |-> g2.next, fault |-> g2.fault]
        /\ DOMAIN g3.objects = DOMAIN g2.objects
        /\ g3.objects[b] = [of |-> g2.objects[b].of, at |-> g3.objects[b].at]
        /\ DOMAIN g3.objects[b].at = DOMAIN g2.objects[b].at
        /\ g3.objects[b].of = g2.objects[b].of
    BY <1>18 DEF Edited
  <2>2. g4 = [g3 EXCEPT !.objects[b].at["n_headers"] = count]
    OBVIOUS
  <2> HIDE DEF g4
  <2>3. g3 = [objects |-> g3.objects, next |-> g3.next, fault |-> g3.fault]
    BY <2>1
  <2>4. /\ g3.objects[b] = [of |-> g3.objects[b].of, at |-> g3.objects[b].at]
        /\ "n_headers" \in DOMAIN g3.objects[b].at /\ b \in DOMAIN g3.objects
    BY <1>5, <1>17, <2>1 DEF SpringMembers
  <2> QED
    BY <2>2, <2>3, <2>4, Edits
<1> HIDE DEF g4
<1>20. /\ g4 = [objects |-> g4.objects, next |-> g2.next, fault |-> g2.fault]
       /\ DOMAIN g4.objects = DOMAIN g2.objects
       /\ \A a \in DOMAIN g2.objects : a # b => g4.objects[a] = g2.objects[a]
       /\ g4.objects[b].of = Type.descriptor
       /\ g4.objects[b].at["headers"] = to /\ g4.objects[b].at["n_headers"] = count
       /\ g4.objects[b].at["payload"] = h1.objects[b].at["payload"]
  <2>1. /\ g4 = [objects |-> g4.objects, next |-> g3.next, fault |-> g3.fault]
        /\ g3 = [objects |-> g3.objects, next |-> g2.next, fault |-> g2.fault]
    BY <1>18, <1>19 DEF Edited
  <2>2. g4 = [objects |-> g4.objects, next |-> g2.next, fault |-> g2.fault]
    BY <2>1
  <2>3. /\ DOMAIN g4.objects = DOMAIN g2.objects
        /\ \A a \in DOMAIN g2.objects : a # b => g4.objects[a] = g2.objects[a]
    BY <1>18, <1>19 DEF Edited
  <2>4. /\ g4.objects[b].of = Type.descriptor
        /\ g4.objects[b].at["headers"] = to /\ g4.objects[b].at["n_headers"] = count
        /\ g4.objects[b].at["payload"] = h1.objects[b].at["payload"]
    BY <1>5, <1>17, <1>18, <1>19 DEF Edited, SpringMembers
  <2> QED
    BY <2>2, <2>3, <2>4
<1>21. HeapOk(g4)
  <2>1. g2.fault = FALSE /\ HeapOk(g2)
    BY <1>16 DEF Grown, HeapOk
  <2>2. g4 = [objects |-> g4.objects, next |-> g4.next, fault |-> g4.fault] /\ g4.next = g2.next /\ g4.fault = g2.fault
    BY <1>20
  <2>3. g4 = [objects |-> g4.objects, next |-> g4.next, fault |-> FALSE]
    BY <2>1, <2>2
  <2> QED
    BY <1>20, <2>1, <2>2, <2>3 DEF HeapOk
<1>22. ASSUME NEW a \in DOMAIN heap.objects
       PROVE  a \in DOMAIN g4.objects /\ g4.objects[a] = heap.objects[a]
  <2>1. /\ a \in DOMAIN h1.objects /\ h1.objects[a] = heap.objects[a]
        /\ a \in DOMAIN h2.objects /\ h2.objects[a] = h1.objects[a]
        /\ a \in DOMAIN g2.objects /\ g2.objects[a] = h2.objects[a]
    BY <1>5, <1>7, <1>16, GrownMore
  <2>2. a # b
    BY <1>5 DEF Grown, b
  <2> QED
    BY <1>20, <2>1, <2>2
<1>23. Block(n) # b /\ Shares(g4, r, n, {"payload"})
  <2>1. Block(n) # b
    BY <1>4, <1>5 DEF Grown, b
  <2>2. h1.objects[Block(n)] = heap.objects[Block(n)] /\ g4.objects[Block(n)] = heap.objects[Block(n)]
    BY <1>4, <1>5, <1>22, GrownMore
  <2> QED
    BY <1>5, <1>20, <2>1, <2>2 DEF Shares, b
<1>24. {Block(r), Block(r + 1), Block(r + 2)} \subseteq DOMAIN g4.objects
  BY <1>10, <1>12, <1>17, <1>20 DEF b, c
<1>25. /\ g4.objects[Block(r + 1)] = [items |-> items]
       /\ g4.objects[c].of = EntryName /\ g4.objects[c].at = g2.objects[c].at
  BY <1>11, <1>12, <1>10, <1>17, <1>20
<1>26. IsAdded(g4.objects[c])
  BY <1>17, <1>25 DEF IsAdded, one, two
<1>27. HoldsExtended(g4, n, r, input)
  <2>1. g4.objects[Block(r + 1)].items = items
    BY <1>25
  <2>2. Type.descriptor = "SpringMessage"
    BY <1>3
  <2>3. g4.objects[b].at["n_headers"] = <<<<"int", k + 1>>>> /\ g4.objects[b].at["headers"] = <<Top(r + 1)>>
    BY <1>1, <1>20 DEF count, to
  <2>4. g4.objects[Block(r)].of = "SpringMessage"
    BY <1>20, <2>2 DEF b
  <2> QED
    BY <1>1, <1>23, <1>24, <1>25, <1>26, <2>1, <2>3, <2>4 DEF HoldsExtended, b, c, k
<1>28. HoldsResult("response", g4, n, r, input)
  <2>1. TypeOf("response").descriptor = "SpringMessage"
    BY TypesOf
  <2> QED
    BY <1>24, <1>27, <2>1 DEF HoldsResult, MadeFor, HoldsExtended
<1>29. DOMAIN g4.objects = MadeFor("response", r) \cup DOMAIN heap.objects
  <2>1. /\ DOMAIN h1.objects = {Block(r)} \cup DOMAIN heap.objects
        /\ DOMAIN h2.objects = {Block(r + 1)} \cup DOMAIN h1.objects
        /\ DOMAIN h3.objects = {Block(r + 2)} \cup DOMAIN h2.objects
    BY <1>5, <1>6, <1>7, <1>8, <1>9 DEF Grown
  <2>2. DOMAIN g4.objects = DOMAIN h3.objects
    BY <1>17, <1>20
  <2> QED
    BY <2>1, <2>2 DEF MadeFor
<1> QED
  BY <1>2, <1>21, <1>22, <1>28, <1>29 DEF Keeps, Agree, last

-----------------------------------------------------------------------------
(* The allocation that a pointer to a struct comes from. *)
Number(word) == word[2][1]
IsTop(word) == word = Top(Number(word)) /\ Number(word) \in Nat

HoldsMessage ==
    /\ IsTop(msg) /\ HoldsTree(heap, Number(msg), input)

HoldsBuilt ==
    /\ HoldsMessage /\ IsTop(result)
    /\ call.function # "predicate"
    /\ Block(Number(result)) \notin Made(Number(msg), input)
    /\ HoldsResult(call.function, heap, Number(msg), Number(result), input)

HoldsBuffer ==
    /\ HoldsBuilt /\ IsTop(buffer) /\ Block(Number(buffer)) \in DOMAIN heap.objects
    /\ Number(buffer) # Number(msg)
    /\ Block(Number(buffer)) \notin MadeFor(call.function, Number(result))
    /\ heap.objects[Block(Number(buffer))] = [bytes |-> heap.objects[Block(Number(buffer))].bytes]
    /\ len = Size(ResultWire(call.function, input))

GuestInv ==
    /\ HeapOk(heap)
    /\ pc \in {"idle", "called", "unpacked", "built", "measured", "packed"}
    /\ pc # "idle" => call.function \in Exports /\ TreeFits(Type.descriptor, input)
    /\ pc = "unpacked" => HoldsMessage
    /\ pc = "built" => HoldsBuilt
    /\ pc \in {"measured", "packed"} => HoldsBuffer
    /\ pc = "packed" => Object(heap, buffer).bytes = ResultWire(call.function, input)

(* Pointers tell their blocks apart. *)
LEMMA Numbers ==
    ASSUME NEW n PROVE Number(Top(n)) = n /\ (n \in Nat => IsTop(Top(n)))
BY DEF Number, IsTop, Top, At

(* The invariant holds at first. *)
LEMMA GuestInit == Init => GuestInv
<1> SUFFICES ASSUME Init PROVE GuestInv
  OBVIOUS
<1>1. heap = [objects |-> heap.objects, next |-> heap.next, fault |-> FALSE]
  BY DEF Init, EmptyHeap
<1>2. heap.next = 1 /\ DOMAIN heap.objects = {}
  BY DEF Init, EmptyHeap
<1>3. HeapOk(heap)
  BY <1>1, <1>2 DEF HeapOk
<1> QED
  BY <1>3 DEF Init, GuestInv

(* One step for each statement. *)
LEMMA CalledKeeps == GuestInv /\ Called => GuestInv'
<1> SUFFICES ASSUME GuestInv, Called PROVE GuestInv'
  OBVIOUS
<1>1. PICK f \in Exports : \E wire \in Encodings(f) :
         /\ call' = [function |-> f, message |-> JavaMessage(f, Content(f, wire))]
         /\ input' = wire
  BY DEF Called
<1>2. call'.function = f /\ input' \in Encodings(f)
  BY <1>1
<1>3. TreeFits(TypeOf(f).descriptor, input')
  BY <1>2, EncodingsAssumption, EncodingFits
<1>4. TreeFits(Type'.descriptor, input')
  BY <1>2, <1>3 DEF Type
<1> QED
  BY <1>2, <1>4 DEF GuestInv, Called

(* unpack: the heap holds the message. *)
LEMMA UnpacksKeeps == GuestInv /\ Unpacks => GuestInv'
<1> SUFFICES ASSUME GuestInv, Unpacks PROVE GuestInv'
  OBVIOUS
<1>1. /\ pc = "called" /\ pc' = "unpacked" /\ heap' = Unpack(Type, heap, input)
      /\ msg' = Top(heap.next) /\ call' = call /\ input' = input
      /\ HeapOk(heap) /\ call.function \in Exports /\ TreeFits(Type.descriptor, input)
  BY DEF Unpacks, GuestInv
<1>2. HeapOk(heap') /\ HoldsTree(heap', heap.next, input)
  BY <1>1, UnpackGrows
<1>3. Number(msg') = heap.next /\ IsTop(msg')
  BY <1>1, Numbers DEF HeapOk
<1>4. HoldsMessage'
  BY <1>1, <1>2, <1>3 DEF HoldsMessage
<1> QED
  BY <1>1, <1>2, <1>4 DEF GuestInv, Type

(* free_unpacked of the message. *)
LEMMA MessageFreed ==
    ASSUME HeapOk(heap), TreeFits(Type.descriptor, input), HoldsMessage
    PROVE  HeapOk(FreeUnpacked(Type, heap, msg))
BY FreeShrinks DEF HoldsMessage, IsTop, FreeUnpacked

(* predicate frees the message after it looked at it. *)
LEMMA ScansKeeps == GuestInv /\ Scans => GuestInv'
<1> SUFFICES ASSUME GuestInv, Scans PROVE GuestInv'
  OBVIOUS
<1>1. HeapOk(heap') /\ pc' = "idle"
  BY MessageFreed DEF Scans, GuestInv
<1> QED
  BY <1>1 DEF GuestInv

(* After the statements that build it there is a result. *)
LEMMA BuiltKeeps ==
    ASSUME GuestInv, pc = "unpacked", call.function # "predicate", NEW g, NEW mine, Built(g, mine),
           Keeps(heap, g), HoldsResult(call.function, g, Number(msg), heap.next, input)
    PROVE  GuestInv'
<1> DEFINE n == Number(msg)
<1>1. /\ HeapOk(heap) /\ call.function \in Exports /\ TreeFits(Type.descriptor, input)
      /\ msg = Top(n) /\ n \in Nat /\ HoldsTree(heap, n, input)
  BY DEF GuestInv, HoldsMessage, IsTop
<1>2. /\ heap' = g /\ result' = Top(heap.next) /\ pc' = "built"
      /\ call' = call /\ input' = input /\ msg' = msg
  BY DEF Built
<1>3. Made(n, input) \subseteq DOMAIN heap.objects
  BY <1>1, MadeIsHeld
<1>4. Agree(heap, g, Made(n, input)) /\ HeapOk(g)
  BY <1>3 DEF Keeps, Agree
<1>5. HoldsTree(g, n, input)
  BY <1>1, <1>4, TreeStays
<1>6. Number(result') = heap.next /\ IsTop(result')
  BY <1>1, <1>2, Numbers DEF HeapOk
<1>7. Block(heap.next) \notin Made(n, input)
  BY <1>1, <1>3, Blocks DEF HeapOk
<1>8. Number(msg') = n /\ IsTop(msg')
  BY <1>1, <1>2 DEF IsTop
<1> HIDE DEF n
<1>9. HoldsBuilt'
  BY <1>2, <1>5, <1>6, <1>7, <1>8 DEF HoldsBuilt, HoldsMessage, n
<1> QED
  BY <1>1, <1>2, <1>4, <1>9 DEF GuestInv, Type

(* While a message is there, so is its struct. *)
LEMMA MessageHeld ==
    ASSUME NEW name, TreeFits(name, input), HoldsMessage
    PROVE  Block(Number(msg)) \in DOMAIN heap.objects /\ msg = Top(Number(msg))
BY DEF HoldsMessage, IsTop, HoldsTree, TreeFits, Block

(* request *)
LEMMA RequestKeeps == GuestInv /\ BuildsRequest => GuestInv'
<1> SUFFICES ASSUME GuestInv, BuildsRequest PROVE GuestInv'
  OBVIOUS
<1> DEFINE g == Shared(SpringMembers)
           mine == {Top(heap.next)}
<1>1. /\ pc = "unpacked" /\ call.function = "request" /\ Built(g, mine) /\ HeapOk(heap)
      /\ TreeFits(Type.descriptor, input) /\ HoldsMessage
  BY DEF BuildsRequest, GuestInv
<1> HIDE DEF mine
<1>2. Keeps(heap, g) /\ HoldsResult("request", g, Number(msg), heap.next, input)
  BY <1>1, MessageHeld, RequestBuilt
<1> HIDE DEF g
<1> QED
  BY <1>1, <1>2, BuiltKeeps

(* filter *)
LEMMA FilterKeeps == GuestInv /\ BuildsFilter => GuestInv'
<1> SUFFICES ASSUME GuestInv, BuildsFilter PROVE GuestInv'
  OBVIOUS
<1> DEFINE g == Renamed(EventMembers)
           mine == {Top(heap.next)}
<1>1. /\ pc = "unpacked" /\ call.function = "filter" /\ Built(g, mine) /\ HeapOk(heap)
      /\ TreeFits(Type.descriptor, input) /\ HoldsMessage
  BY DEF BuildsFilter, GuestInv
<1> HIDE DEF mine
<1>2. Keeps(heap, g) /\ HoldsResult("filter", g, Number(msg), heap.next, input)
  BY <1>1, MessageHeld, FilterBuilt
<1> HIDE DEF g
<1> QED
  BY <1>1, <1>2, BuiltKeeps

(* response *)
LEMMA ResponseKeeps == GuestInv /\ BuildsResponse => GuestInv'
<1> SUFFICES ASSUME GuestInv, BuildsResponse PROVE GuestInv'
  OBVIOUS
<1> DEFINE g == WithHeader(Len(Headers(msg)) + 1)
           mine == {Top(heap.next), Top(heap.next + 1), Top(heap.next + 2)}
<1>1. /\ pc = "unpacked" /\ call.function = "response" /\ Built(g, mine) /\ HeapOk(heap)
      /\ TreeFits(Type.descriptor, input) /\ HoldsMessage
  BY DEF BuildsResponse, GuestInv
<1>2. Type.descriptor = "SpringMessage"
  BY <1>1, TypesOf DEF Type
<1> HIDE DEF mine
<1>3. Keeps(heap, g) /\ HoldsResult("response", g, Number(msg), heap.next, input)
  BY <1>1, <1>2, MessageHeld, ResponseBuilt DEF HoldsMessage
<1> HIDE DEF g
<1> QED
  BY <1>1, <1>3, BuiltKeeps

(* What is packed of the result, as long as it is there. *)
LEMMA ResultRead ==
    ASSUME call.function \in Exports, TreeFits(Type.descriptor, input), HoldsBuilt
    PROVE  /\ PackMessage(heap, result) = ResultWire(call.function, input)
           /\ IsA(Type, heap, result)
<1> DEFINE r == Number(result)
<1>1. /\ result = Top(r) /\ HoldsResult(call.function, heap, Number(msg), r, input)
      /\ HoldsTree(heap, Number(msg), input) /\ call.function \in Exports \ {"predicate"}
  BY DEF HoldsBuilt, HoldsMessage, IsTop
<1>2. PackMessage(heap, Top(r)) = ResultWire(call.function, input)
  BY <1>1, ResultPacked DEF Type
<1>3. /\ Block(r) \in DOMAIN heap.objects
      /\ heap.objects[Block(r)].of = Type.descriptor
  BY <1>1 DEF HoldsResult, MadeFor, Type
<1>4. IsAllocated(heap, Top(r)) /\ Object(heap, Top(r)) = heap.objects[Block(r)]
  BY <1>3, AddressesAt DEF Top, Block
<1> QED
  BY <1>1, <1>2, <1>3, <1>4 DEF IsA

(* What changes nothing but the buffer leaves message and result. *)
LEMMA BuiltStays ==
    ASSUME NEW name, TreeFits(name, input), HoldsBuilt, HeapOk(heap), NEW b,
           b # Number(msg), Block(b) \notin MadeFor(call.function, Number(result)),
           Agree(heap, heap', DOMAIN heap.objects \ {Block(b)}),
           UNCHANGED <<msg, result, input, call>>
    PROVE  HoldsBuilt'
<1> DEFINE n == Number(msg)
           r == Number(result)
<1>1. /\ HoldsTree(heap, n, input) /\ HoldsResult(call.function, heap, n, r, input)
      /\ MadeFor(call.function, r) \subseteq DOMAIN heap.objects
  BY DEF HoldsBuilt, HoldsMessage, HoldsResult
<1>2. Made(n, input) \subseteq DOMAIN heap.objects \ {Block(b)}
  <2>1. \A a \in Made(n, input) : a[1] = n
    BY DEF Made
  <2>2. Block(b) \notin Made(n, input)
    BY <2>1, Blocks
  <2> QED
    BY <1>1, <2>2, MadeIsHeld
<1>3. Agree(heap, heap', Made(n, input))
  BY <1>2 DEF Agree
<1>4. HoldsTree(heap', n, input)
  BY <1>1, <1>3, TreeStays
<1>5. Block(n) \in DOMAIN heap.objects /\ Block(n) # Block(b)
  BY <1>1, Blocks DEF HoldsTree, TreeFits, Block
<1>6. Agree(heap, heap', {Block(n)} \cup MadeFor(call.function, r))
  BY <1>1, <1>5 DEF Agree
<1>7. HoldsResult(call.function, heap', n, r, input)
  BY <1>1, <1>6, ResultStays
<1>8. Number(msg') = n /\ Number(result') = r /\ msg' = msg /\ result' = result /\ input' = input /\ call' = call
  OBVIOUS
<1> HIDE DEF n, r
<1>9. IsTop(msg') /\ IsTop(result')
  BY <1>8 DEF HoldsBuilt, HoldsMessage
<1> QED
  BY <1>4, <1>7, <1>8, <1>9 DEF HoldsBuilt, HoldsMessage, n, r

(* The buffer is taken with the size of what will be packed. *)
LEMMA MeasuresKeeps == GuestInv /\ Measures => GuestInv'
<1> SUFFICES ASSUME GuestInv, Measures PROVE GuestInv'
  OBVIOUS
<1> DEFINE b == heap.next
<1>1. /\ pc = "built" /\ pc' = "measured" /\ HeapOk(heap) /\ HoldsBuilt
      /\ call.function \in Exports /\ TreeFits(Type.descriptor, input)
      /\ len' = Size(PackMessage(heap, result)) /\ heap' = Malloc(heap, [bytes |-> <<>>])
      /\ buffer' = Top(b)
      /\ call' = call /\ input' = input /\ msg' = msg /\ result' = result
  BY DEF Measures, GuestInv, GetPackedSize
<1>2. Grown(heap, heap') /\ heap'.objects[Block(b)] = [bytes |-> <<>>]
  BY <1>1, MallocGrows
<1>3. HeapOk(heap') /\ Agree(heap, heap', DOMAIN heap.objects) /\ Block(b) \in DOMAIN heap'.objects
      /\ Block(b) \notin DOMAIN heap.objects /\ b \in Nat
  BY <1>1, <1>2 DEF Grown, HeapOk
<1>4. Block(b) \notin MadeFor(call.function, Number(result))
  <2>1. MadeFor(call.function, Number(result)) \subseteq DOMAIN heap.objects
    BY <1>1 DEF HoldsBuilt, HoldsResult
  <2> QED
    BY <1>3, <2>1
<1>5. b # Number(msg)
  BY <1>1, <1>3, MessageHeld DEF HoldsBuilt
<1>6. Agree(heap, heap', DOMAIN heap.objects \ {Block(b)})
  BY <1>3 DEF Agree
<1>7. HoldsBuilt'
  BY <1>1, <1>4, <1>5, <1>6, BuiltStays
<1>8. Number(buffer') = b /\ IsTop(buffer')
  BY <1>1, <1>3, Numbers
<1>9. len' = Size(ResultWire(call.function, input))
  BY <1>1, ResultRead
<1>10. heap'.objects[Block(b)] = [bytes |-> heap'.objects[Block(b)].bytes]
  BY <1>2
<1> HIDE DEF b
<1>11. HoldsBuffer'
  BY <1>1, <1>3, <1>4, <1>5, <1>7, <1>8, <1>9, <1>10 DEF HoldsBuffer
<1> QED
  BY <1>1, <1>3, <1>11 DEF GuestInv, Type

(* What is packed fills the buffer, for it has not changed since it was *)
(* measured.                                                            *)
LEMMA PacksKeeps == GuestInv /\ Packs => GuestInv'
<1> SUFFICES ASSUME GuestInv, Packs PROVE GuestInv'
  OBVIOUS
<1> DEFINE b == Number(buffer)
           wire == PackMessage(heap, result)
<1>1. /\ pc = "measured" /\ pc' = "packed" /\ HeapOk(heap) /\ HoldsBuffer /\ HoldsBuilt
      /\ call.function \in Exports /\ TreeFits(Type.descriptor, input)
      /\ heap' = [heap EXCEPT !.objects[buffer[2]].bytes = wire, !.fault = @ \/ Size(wire) # len]
      /\ call' = call /\ input' = input /\ msg' = msg /\ result' = result
      /\ len' = len /\ buffer' = buffer
  BY DEF Packs, GuestInv, Pack, HoldsBuffer
<1>2. wire = ResultWire(call.function, input) /\ Size(wire) = len
  BY <1>1, ResultRead DEF HoldsBuffer
<1>3. /\ buffer = Top(b) /\ b \in Nat /\ Block(b) \in DOMAIN heap.objects
      /\ heap.objects[Block(b)] = [bytes |-> heap.objects[Block(b)].bytes]
      /\ b # Number(msg) /\ Block(b) \notin MadeFor(call.function, Number(result))
  BY <1>1 DEF HoldsBuffer, IsTop
<1>4. buffer[2] = Block(b)
  <2> HIDE DEF b
  <2> QED
    BY <1>3, Blocks
<1> HIDE DEF b, wire
<1>5. heap = [objects |-> heap.objects, next |-> heap.next, fault |-> heap.fault] /\ heap.fault = FALSE
  BY <1>1 DEF HeapOk
<1> DEFINE a == Block(b)
<1> HIDE DEF a
<1>6. heap' = [heap EXCEPT !.objects[a].bytes = wire, !.fault = @ \/ Size(wire) # len] /\ a \in DOMAIN heap.objects
      /\ heap.objects[a] = [bytes |-> heap.objects[a].bytes]
  BY <1>1, <1>3, <1>4 DEF a
<1>7. /\ heap' = [objects |-> heap'.objects, next |-> heap.next, fault |-> heap'.fault]
      /\ DOMAIN heap'.objects = DOMAIN heap.objects
      /\ heap'.objects[a] = [heap.objects[a] EXCEPT !.bytes = wire]
      /\ \A x \in DOMAIN heap.objects : x # a => heap'.objects[x] = heap.objects[x]
  BY <1>5, <1>6
<1>8. heap'.fault = FALSE
  <2>1. heap'.fault = (heap.fault \/ Size(wire) # len)
    BY <1>5, <1>6
  <2> QED
    BY <1>2, <1>5, <2>1
<1>9. heap'.objects[a] = [bytes |-> wire]
  BY <1>6, <1>7
<1>10. HeapOk(heap')
  <2>1. heap' = [objects |-> heap'.objects, next |-> heap'.next, fault |-> heap'.fault] /\ heap'.next = heap.next
    BY <1>7
  <2>2. heap' = [objects |-> heap'.objects, next |-> heap'.next, fault |-> FALSE]
    BY <1>8, <2>1
  <2> QED
    BY <1>1, <1>7, <2>1, <2>2 DEF HeapOk
<1>11. Agree(heap, heap', DOMAIN heap.objects \ {Block(b)})
  BY <1>7 DEF Agree, a
<1>13. HoldsBuilt'
  BY <1>1, <1>3, <1>11, BuiltStays
<1>14. Object(heap', buffer) = heap'.objects[a]
  BY <1>4 DEF Object, a
<1>15. Object(heap', buffer).bytes = ResultWire(call.function, input)
  BY <1>2, <1>9, <1>14
<1>16. Number(buffer') = b /\ IsTop(buffer')
  BY <1>1 DEF b, HoldsBuffer
<1>17. heap'.objects[Block(b)] = [bytes |-> heap'.objects[Block(b)].bytes] /\ Block(b) \in DOMAIN heap'.objects
  BY <1>3, <1>7, <1>9 DEF a
<1>18. HoldsBuffer'
  BY <1>1, <1>3, <1>13, <1>16, <1>17 DEF HoldsBuffer
<1> QED
  BY <1>1, <1>10, <1>15, <1>18 DEF GuestInv, Type

(* The message is freed, and the result no longer used. *)
LEMMA ReturnsKeeps == GuestInv /\ Returns => GuestInv'
<1> SUFFICES ASSUME GuestInv, Returns PROVE GuestInv'
  OBVIOUS
<1>1. HeapOk(heap') /\ pc' = "idle"
  BY MessageFreed DEF Returns, GuestInv, HoldsBuffer, HoldsBuilt
<1> QED
  BY <1>1 DEF GuestInv

(* Every step keeps the invariant. *)
LEMMA GuestNext == GuestInv /\ [Next]_vars => GuestInv'
<1> SUFFICES ASSUME GuestInv, [Next]_vars PROVE GuestInv'
  OBVIOUS
<1>1. CASE Called
  BY <1>1, CalledKeeps
<1>2. CASE Runs
  BY <1>2, UnpacksKeeps, ScansKeeps, RequestKeeps, ResponseKeeps, FilterKeeps, MeasuresKeeps,
     PacksKeeps, ReturnsKeeps DEF Runs
<1>3. CASE UNCHANGED guest
  BY <1>3 DEF guest, GuestInv, HoldsMessage, HoldsBuilt, HoldsBuffer, Type
<1> QED
  BY <1>1, <1>2, <1>3 DEF Next, Stops, vars

(* At each statement of a function the heap holds what the statements before *)
(* it made.                                                                  *)
THEOREM GuestInvariant == Spec => []GuestInv
<1> QED
  BY GuestInit, GuestNext, PTL DEF Spec

(* No function of the guests reads, writes or frees what is not allocated,  *)
(* or writes more or less than its buffer has room for: for any message,    *)
(* with any number of headers or attributes, in any number of calls of one  *)
(* instance.                                                                *)
THEOREM SoundHeapCorrect == Spec => []SoundHeap
<1>1. GuestInv => SoundHeap
  <2> SUFFICES ASSUME GuestInv PROVE SoundHeap
    OBVIOUS
  <2>1. ~heap.fault
    <3>1. heap = [objects |-> heap.objects, next |-> heap.next, fault |-> FALSE]
      BY DEF GuestInv, HeapOk
    <3>2. heap.fault = FALSE
      BY <3>1
    <3> QED
      BY <3>2
  <2>2. pc # "idle" => call.function \in Exports /\ TreeFits(Type.descriptor, input)
    BY DEF GuestInv
  <2>3. ASSUME HoldsMessage, TreeFits(Type.descriptor, input) PROVE IsA(Type, heap, msg)
    <3> DEFINE n == Number(msg)
    <3>1. msg = Top(n) /\ Block(n) \in DOMAIN heap.objects
      BY <2>3, MessageHeld
    <3>2. heap.objects[Block(n)].of = Type.descriptor
      BY <2>3 DEF HoldsMessage, HoldsTree, TreeFits, StructFits, Block
    <3> HIDE DEF n
    <3>3. IsAllocated(heap, Top(n)) /\ Object(heap, Top(n)) = heap.objects[Block(n)]
      BY <3>1, AddressesAt DEF Top, Block
    <3> QED
      BY <3>1, <3>2, <3>3 DEF IsA
  <2>4. pc \in {"unpacked", "built", "measured", "packed"} => HoldsMessage
    BY DEF GuestInv, HoldsBuffer, HoldsBuilt
  <2>5. pc \in {"built", "measured", "packed"} => HoldsBuilt
    BY DEF GuestInv, HoldsBuffer
  <2>6. pc = "packed" => Object(heap, buffer).bytes = ResultWire(call.function, input)
    BY DEF GuestInv
  <2>7. pc = "packed" => NoneFreed(Object(heap, buffer).bytes)
    BY <2>2, <2>6, ResultNotFreed DEF Type
  <2>8. pc \in {"built", "measured", "packed"} => IsA(Type, heap, result)
    BY <2>2, <2>5, ResultRead
  <2> QED
    BY <2>1, <2>2, <2>3, <2>4, <2>7, <2>8 DEF SoundHeap
<1> QED
  BY <1>1, GuestInvariant, PTL

-----------------------------------------------------------------------------
(* The parts of a message that hang on some of its fields, the array of one *)
(* of them, and what of all this is on the heap.                            *)
HangsOn(part, id) == id = IF part.path = <<>> THEN part.field ELSE part.path[1][1]
On(parts, ids) == {part \in parts : \E id \in ids : HangsOn(part, id)}
AtTop(parts) == {part \in parts : part.path = <<>>}
OnHeap(parts) == {part.at[2] : part \in {part \in parts : part.at[1] = "heap"}}

RefsOf(function, parts) ==
    IF function = "filter"
    THEN [id |-> OnHeap(On(parts, {1})), source |-> OnHeap(On(parts, {2})),
          spec_version |-> OnHeap(On(parts, {3})), type |-> OnHeap(On(parts, {4})),
          attributes |-> OnHeap(On(parts, {5})), data |-> OnHeap(On(parts, {6, 7, 8}))]
    ELSE [payload |-> OnHeap(On(parts, {1})), headers |-> OnHeap(AtTop(On(parts, {2}))),
          entries |-> OnHeap(On(parts, {2}) \ AtTop(On(parts, {2})))]

(* What GuestObjects sees of a struct follows from its parts and from what is *)
(* packed of it.                                                              *)
LEMMA StructSeen ==
    ASSUME NEW function, NEW h, NEW pointer, IsAllocated(h, pointer)
    PROVE  Struct(function, h, pointer) =
               [at |-> pointer[2], refs |-> RefsOf(function, Parts(h, pointer)),
                says |-> Content(function, PackMessage(h, pointer))]
BY DEF Struct, RefsOf, On, AtTop, OnHeap, HangsOn, Pack

(* Every message in the tree is within a field of the outermost. *)
LEMMA FirstSteps ==
    ASSUME NEW name, NEW wire, TreeFits(name, wire)
    PROVE  \A p \in DOMAIN wire : p # <<>> => p[1] \in StepsAt(wire, <<>>)
<1> DEFINE S == {d \in Nat : \A p \in DOMAIN wire : Len(p) = d /\ p # <<>> => p[1] \in StepsAt(wire, <<>>)}
<1>0. \A p \in DOMAIN wire : p \in Seq(Nat \X Nat)
  BY DEF TreeFits
<1>1. 0 \in S
  BY <1>0
<1>2. ASSUME NEW d \in Nat, d \in S PROVE d + 1 \in S
  <2> SUFFICES ASSUME NEW p \in DOMAIN wire, Len(p) = d + 1, p # <<>> PROVE p[1] \in StepsAt(wire, <<>>)
    OBVIOUS
  <2>1. PICK q \in DOMAIN wire : \E step \in StepsAt(wire, q) : p = Append(q, step)
    BY DEF TreeFits
  <2>2. PICK step \in StepsAt(wire, q) : p = Append(q, step)
    BY <2>1
  <2>3. Len(q) = d /\ q \in Seq(Nat \X Nat)
    BY <1>0, <2>2
  <2>4. CASE q = <<>>
    BY <2>2, <2>4
  <2>5. CASE q # <<>>
    <3>1. q[1] \in StepsAt(wire, <<>>)
      BY <1>2, <2>3, <2>5
    <3>2. p[1] = q[1]
      BY <2>2, <2>3, <2>5
    <3> QED
      BY <3>1, <3>2
  <2> QED
    BY <2>4, <2>5
<1> HIDE DEF S
<1>3. \A d \in Nat : d \in S
  BY <1>1, <1>2, NatInd
<1> QED
  BY <1>0, <1>3 DEF S

(* A part hangs on a field that the message has. *)
LEMMA PartsHang ==
    ASSUME NEW name, NEW wire, TreeFits(name, wire), NEW p \in DOMAIN wire, p # <<>>
    PROVE  /\ p[1][1] \in DOMAIN wire[<<>>].fields
           /\ p[1][1] \in DOMAIN DescriptorOf(name).fields
           /\ DescriptorOf(name).fields[p[1][1]].type = "message"
<1>1. p[1] \in StepsAt(wire, <<>>)
  BY FirstSteps
<1>2. <<>> \in DOMAIN wire /\ wire[<<>>].of = name
  BY DEF TreeFits
<1>3. PICK id \in DOMAIN wire[<<>>].fields :
         DescriptorOf(name).fields[id].type = "message" /\ p[1] \in {<<id, i>> : i \in DOMAIN wire[<<>>].fields[id]}
  BY <1>1, <1>2 DEF StepsAt, StepsOf
<1>4. p[1][1] = id
  BY <1>3
<1>5. DOMAIN wire[<<>>].fields \subseteq DOMAIN DescriptorOf(name).fields
  BY <1>2, FieldsOf
<1> QED
  BY <1>3, <1>4, <1>5

-----------------------------------------------------------------------------
(* That a field tells something a reader takes from the message. *)
Says(wire, p, id) ==
    /\ id \in DOMAIN wire[p].fields
    /\ \/ IsOneOf(FieldNumbered(wire[p].of, id))
       \/ wire[p].fields[id][1] \notin {<<"text", "">>, <<"number", 0>>}

(* Trees whose fields say the same. *)
Agreed(v, w, p, id) ==
    /\ Says(v, p, id) <=> Says(w, p, id)
    /\ Says(w, p, id) => v[p].fields[id] = w[p].fields[id]

(* Their fields mean the same. *)
LEMMA WithSame ==
    ASSUME NEW v, NEW w, NEW ids, DOMAIN v = DOMAIN w,
           \A p \in DOMAIN w : v[p].of = w[p].of,
           \A p \in DOMAIN w : \A id : (p = <<>> => id \in ids) => Agreed(v, w, p, id)
    PROVE  With(v, ids) = With(w, ids)
<1> DEFINE fields(x, p) == IF p = <<>> THEN Restrict(x[p].fields, ids \cap DOMAIN x[p].fields)
                           ELSE x[p].fields
           paths(x) == {p \in DOMAIN x : p # <<>> => p[1][1] \in ids}
           cut(x) == [p \in paths(x) |-> [of |-> x[p].of, fields |-> fields(x, p)]]
           told(x, p) == {id \in DOMAIN cut(x)[p].fields :
                             \/ IsOneOf(FieldNumbered(cut(x)[p].of, id))
                             \/ cut(x)[p].fields[id][1] \notin {<<"text", "">>, <<"number", 0>>}}
           meant(x, p) == [of |-> cut(x)[p].of, fields |-> [id \in told(x, p) |-> cut(x)[p].fields[id]]]
<1>1. \A x : With(x, ids) = [p \in DOMAIN cut(x) |-> meant(x, p)]
  BY DEF With, Meaning
<1>2. ASSUME NEW x, NEW p \in paths(x)
      PROVE  /\ cut(x)[p].of = x[p].of
             /\ \A id : /\ id \in told(x, p) <=> Says(x, p, id) /\ (p = <<>> => id \in ids)
                        /\ id \in told(x, p) => cut(x)[p].fields[id] = x[p].fields[id]
  <2>1. cut(x)[p].of = x[p].of /\ cut(x)[p].fields = fields(x, p)
    OBVIOUS
  <2>2. \A id : /\ id \in DOMAIN fields(x, p) <=> id \in DOMAIN x[p].fields /\ (p = <<>> => id \in ids)
                /\ id \in DOMAIN fields(x, p) => fields(x, p)[id] = x[p].fields[id]
    BY DEF Restrict
  <2> HIDE DEF cut, fields
  <2> QED
    BY <2>1, <2>2 DEF Says
<1>3. DOMAIN cut(v) = paths(w) /\ DOMAIN cut(w) = paths(w) /\ paths(v) = paths(w)
  OBVIOUS
<1> HIDE DEF cut, fields
<1>4. ASSUME NEW p \in paths(w)
      PROVE  meant(v, p) = meant(w, p)
  <2>0. /\ p \in paths(v) /\ p \in DOMAIN w
        /\ p = <<>> \/ p # <<>>
    BY <1>3
  <2>a1. /\ cut(v)[p].of = v[p].of /\ cut(w)[p].of = w[p].of /\ v[p].of = w[p].of
    BY <1>2, <2>0
  <2>b1. \A id : (p = <<>> => id \in ids) => Agreed(v, w, p, id)
    BY <2>0
  <2>1. cut(v)[p].of = cut(w)[p].of
    BY <2>a1
  <2>2. told(v, p) = told(w, p)
    <3>1. \A id : id \in told(v, p) <=> id \in told(w, p)
      BY <1>2, <1>3 DEF Agreed
    <3> HIDE DEF told
    <3> QED
      BY <3>1
  <2>3. \A id \in told(w, p) : cut(v)[p].fields[id] = cut(w)[p].fields[id]
    <3>1. \A id \in told(w, p) : /\ cut(v)[p].fields[id] = v[p].fields[id]
                                 /\ cut(w)[p].fields[id] = w[p].fields[id]
      <4>1. \A id : /\ id \in told(v, p) => cut(v)[p].fields[id] = v[p].fields[id]
                    /\ id \in told(w, p) => cut(w)[p].fields[id] = w[p].fields[id]
        <5> HIDE DEF told
        <5>1. \A id : id \in told(v, p) => cut(v)[p].fields[id] = v[p].fields[id]
          BY <1>2, <2>0
        <5>2. \A id : id \in told(w, p) => cut(w)[p].fields[id] = w[p].fields[id]
          BY <1>2, <2>0
        <5> QED
          BY <5>1, <5>2
      <4> HIDE DEF told
      <4> QED
        BY <2>2, <4>1
    <3>2. \A id \in told(w, p) : v[p].fields[id] = w[p].fields[id]
      <4>1. \A id : id \in told(w, p) => Says(w, p, id) /\ (p = <<>> => id \in ids)
        BY <1>2
      <4> HIDE DEF told
      <4> QED
        BY <2>b1, <4>1 DEF Agreed
    <3> HIDE DEF told
    <3> QED
      BY <3>1, <3>2
  <2> HIDE DEF told
  <2> QED
    BY <2>1, <2>2, <2>3
<1> HIDE DEF meant, paths
<1> QED
  BY <1>1, <1>3, <1>4

(* What pack leaves out says nothing. *)
LEMMA MeantAgrees ==
    ASSUME NEW name, NEW wire, TreeFits(name, wire), NEW p \in DOMAIN wire
    PROVE  /\ Meant(wire)[p].of = wire[p].of
           /\ \A id : Agreed(Meant(wire), wire, p, id)
<1> DEFINE m == wire[p].of
           fields == wire[p].fields
           mine == Meant(wire)
           table == DescriptorOf(m).fields
<1>1. \A id \in DOMAIN fields : FieldNumbered(m, id) = table[id]
  BY FieldsOf, FieldsNumbered
<1>2. mine[p] = [of |-> m, fields |-> Telling(m, fields)]
  BY DEF Meant
<1>3. mine[p].of = m /\ mine[p].fields = Telling(m, fields)
  BY <1>2
<1>4. /\ \A id : id \in DOMAIN Telling(m, fields) <=> id \in DOMAIN fields /\ Tells(table[id], fields[id])
      /\ \A id \in DOMAIN Telling(m, fields) : Telling(m, fields)[id] = fields[id]
  BY DEF Telling
<1> HIDE DEF mine, table, m, fields
<1>5. \A id : Says(wire, p, id) <=> id \in DOMAIN fields /\ Tells(table[id], fields[id])
  BY <1>1 DEF Says, Tells, m, fields
<1>6. \A id : Says(mine, p, id) <=> id \in DOMAIN Telling(m, fields) /\ Tells(table[id], fields[id])
  BY <1>1, <1>3, <1>4 DEF Says, Tells
<1>7. \A id : Agreed(mine, wire, p, id)
  BY <1>3, <1>4, <1>5, <1>6 DEF Agreed, fields
<1> QED
  BY <1>3, <1>7 DEF mine, m

(* A string is the same, left out or empty. *)
LEMMA TextSame ==
    ASSUME NEW name, NEW wire, TreeFits(name, wire), NEW p \in DOMAIN wire, NEW v, p \in DOMAIN v,
           NEW id \in DOMAIN DescriptorOf(wire[p].of).fields,
           DescriptorOf(wire[p].of).fields[id].type \in {"string", "bytes"},
           id \in DOMAIN v[p].fields <=> id \in DOMAIN Telling(wire[p].of, wire[p].fields),
           id \in DOMAIN v[p].fields => v[p].fields[id] = wire[p].fields[id]
    PROVE  TextIn(v, p, id) = TextIn(wire, p, id)
<1> DEFINE fields == wire[p].fields
           f == DescriptorOf(wire[p].of).fields[id]
           values == fields[id]
<1>1. id \in DOMAIN v[p].fields <=> id \in DOMAIN fields /\ Tells(f, values)
  BY DEF Telling
<1>2. CASE id \in DOMAIN v[p].fields
  BY <1>1, <1>2 DEF TextIn, ValuesIn
<1>3. CASE id \notin DOMAIN fields
  BY <1>1, <1>3 DEF TextIn, ValuesIn
<1>4. CASE id \in DOMAIN fields /\ id \notin DOMAIN v[p].fields
  <2>1. values[1] \in {<<"text", "">>, <<"number", 0>>}
    BY <1>1, <1>4 DEF Tells
  <2>2. values \in Seq(ValuesOf(f.type)) \ {<<>>}
    BY <1>4, FieldsOf DEF FieldsFit
  <2>3. ValuesOf(f.type) = {"text"} \X STRING
    BY DEF ValuesOf
  <2> HIDE DEF values, f
  <2>4. values[1] \in {"text"} \X STRING
    BY <2>2, <2>3
  <2>5. values[1][1] = "text"
    BY <2>4
  <2>6. values[1] = <<"text", "">>
    <3>1. <<"number", 0>>[1] = "number"
      OBVIOUS
    <3> QED
      BY <2>1, <2>5, <3>1
  <2>7. values[1][2] = ""
    <3>1. <<"text", "">>[2] = ""
      OBVIOUS
    <3> QED
      BY <2>6, <3>1
  <2>8. ValuesIn(wire, p, id) = values
    BY <1>4 DEF ValuesIn, values
  <2>9. TextIn(wire, p, id) = ""
    BY <2>7, <2>8 DEF TextIn
  <2>10. TextIn(v, p, id) = ""
    BY <1>4 DEF TextIn, ValuesIn
  <2> QED
    BY <2>9, <2>10
<1> QED
  BY <1>2, <1>3, <1>4

-----------------------------------------------------------------------------
(* The headers of a message, and what is in one of them. *)
HeaderIn(wire, i) == [key |-> TextIn(wire, HeaderAt(i), 1), value |-> TextIn(wire, HeaderAt(i), 2)]
HeadersOn(wire) == [i \in DOMAIN ValuesIn(wire, <<>>, 2) |-> HeaderIn(wire, i)]

(* The content of a SpringMessage is its payload and its headers. *)
LEMMA SpringContent ==
    ASSUME NEW f, f # "filter", NEW wire
    PROVE  Content(f, wire) = [payload |-> TextIn(wire, <<>>, 1), headers |-> HeadersOn(wire)]
<1>1. \A i : HeaderAt(i) = <<<<2, i>>>>
  BY DEF HeaderAt
<1> QED
  BY <1>1 DEF Content, HeadersOn, HeaderIn

(* There is one at each path. *)
LEMMA HeadersInTree ==
    ASSUME NEW wire, TreeFits("SpringMessage", wire)
    PROVE  /\ Count(wire) \in Nat /\ DOMAIN ValuesIn(wire, <<>>, 2) = 1..Count(wire)
           /\ 2 \in DOMAIN wire[<<>>].fields =>
                 /\ Tells(DescriptorOf("SpringMessage").fields[2], wire[<<>>].fields[2])
                 /\ Count(wire) = Len(wire[<<>>].fields[2])
           /\ \A i \in 1..Count(wire) :
                 HeaderAt(i) \in DOMAIN wire /\ wire[HeaderAt(i)].of = EntryName
<1> DEFINE name == "SpringMessage"
           f == DescriptorOf(name).fields[2]
           fields == wire[<<>>].fields
           v == fields[2]
           k == Count(wire)
<1>1. /\ <<>> \in DOMAIN wire /\ wire[<<>>].of = name
      /\ FieldsFit(name, fields)
  BY DEF TreeFits
<1>2. f.type = "message" /\ f.message = EntryName
  BY SpringRows DEF Row, EntryName
<1>3. CASE 2 \in DOMAIN fields
  <2>1. v \in Seq(ValuesOf("message")) /\ v # <<>>
    BY <1>1, <1>2, <1>3 DEF FieldsFit
  <2>2. k = Len(v)
    BY <1>3 DEF Count
  <2>3. ValuesIn(wire, <<>>, 2) = v
    BY <1>1, <1>3 DEF ValuesIn
  <2>4. ASSUME NEW i \in 1..k
        PROVE  HeaderAt(i) \in DOMAIN wire /\ wire[HeaderAt(i)].of = EntryName
    <3>1. i \in DOMAIN v
      BY <2>1, <2>2
    <3>2. <<2, i>> \in StepsAt(wire, <<>>)
      BY <1>1, <1>2, <1>3, <3>1 DEF StepsAt, StepsOf
    <3>3. <<2, i>>[1] = 2
      OBVIOUS
    <3> DEFINE step == <<2, i>>
    <3> HIDE DEF step
    <3>4. /\ Append(<<>>, step) \in DOMAIN wire
          /\ wire[Append(<<>>, step)].of = FieldAtPath(wire, <<>>, step[1]).message
      BY <1>1, <3>2 DEF TreeFits, step
    <3>5. FieldAtPath(wire, <<>>, step[1]) = f
      BY <1>1, <3>3 DEF FieldAtPath, step
    <3>6. HeaderAt(i) = Append(<<>>, step)
      BY DEF HeaderAt, step
    <3> QED
      BY <1>2, <3>4, <3>5, <3>6
  <2> HIDE DEF v, k, f
  <2>5. v[1] = Within
    <3>1. v[1] \in ValuesOf("message")
      BY <2>1
    <3> QED
      BY <3>1 DEF ValuesOf
  <2>6. Tells(f, v)
    BY <2>5, Kinds DEF Tells
  <2> QED
    BY <2>1, <2>2, <2>3, <2>4, <2>6 DEF v, k, f
<1>4. CASE 2 \notin DOMAIN fields
  <2>1. k = 0 /\ ValuesIn(wire, <<>>, 2) = <<>>
    BY <1>4 DEF Count, ValuesIn
  <2>2. 1..k = {}
    BY <2>1
  <2> HIDE DEF k
  <2> QED
    BY <1>4, <2>1, <2>2 DEF k
<1> HIDE DEF k, v, f, fields
<1> QED
  BY <1>3, <1>4 DEF k, v, f, fields

(* A tree whose headers are the message's says the same of them. *)
LEMMA HeaderSame ==
    ASSUME NEW wire, TreeFits("SpringMessage", wire), NEW i \in 1..Count(wire),
           NEW v, HeaderAt(i) \in DOMAIN v, v[HeaderAt(i)] = Meant(wire)[HeaderAt(i)]
    PROVE  HeaderIn(v, i) = HeaderIn(wire, i)
<1> DEFINE p == HeaderAt(i)
<1>1. p \in DOMAIN wire /\ wire[p].of = EntryName
  BY HeadersInTree
<1> HIDE DEF p
<1>2. v[p] = [of |-> EntryName, fields |-> Telling(EntryName, wire[p].fields)]
  BY <1>1 DEF Meant, p
<1>3. v[p].fields = Telling(EntryName, wire[p].fields)
  BY <1>2
<1>4. ASSUME NEW id \in {1, 2}
      PROVE  TextIn(v, p, id) = TextIn(wire, p, id)
  <2>1. id \in DOMAIN DescriptorOf(EntryName).fields /\ DescriptorOf(EntryName).fields[id].type = "string"
    BY HeadersEntryRows DEF Row, EntryName
  <2>2. id \in DOMAIN v[p].fields => v[p].fields[id] = wire[p].fields[id]
    BY <1>3 DEF Telling
  <2>3. p \in DOMAIN v
    BY DEF p
  <2> QED
    BY <1>1, <1>3, <2>1, <2>2, <2>3, TextSame
<1> QED
  BY <1>4 DEF HeaderIn, p

(* A message and what pack writes of it have the same content. *)
LEMMA SpringMeant ==
    ASSUME NEW f, f # "filter", NEW wire, TreeFits("SpringMessage", wire)
    PROVE  Content(f, Meant(wire)) = Content(f, wire)
<1> DEFINE name == "SpringMessage"
           fields == wire[<<>>].fields
           v == Meant(wire)
<1>1. /\ <<>> \in DOMAIN wire /\ wire[<<>>].of = name /\ DOMAIN v = DOMAIN wire
      /\ v[<<>>] = [of |-> name, fields |-> Telling(name, fields)]
  BY DEF TreeFits, Meant
<1>2. v[<<>>].fields = Telling(name, fields)
  BY <1>1
<1>3. 1 \in DOMAIN DescriptorOf(name).fields /\ DescriptorOf(name).fields[1].type = "bytes"
  BY SpringRows DEF Row
<1>4. \A id \in DOMAIN Telling(name, fields) : Telling(name, fields)[id] = fields[id]
  BY DEF Telling
<1>5. 2 \in DOMAIN Telling(name, fields) <=> 2 \in DOMAIN fields
  BY HeadersInTree DEF Telling
<1> HIDE DEF v, name
<1>6. TextIn(v, <<>>, 1) = TextIn(wire, <<>>, 1)
  BY <1>1, <1>2, <1>3, <1>4, TextSame DEF name
<1>7. ValuesIn(v, <<>>, 2) = ValuesIn(wire, <<>>, 2)
  BY <1>1, <1>2, <1>4, <1>5 DEF ValuesIn
<1>8. \A i \in 1..Count(wire) : HeaderIn(v, i) = HeaderIn(wire, i)
  <2>1. \A i \in 1..Count(wire) : HeaderAt(i) \in DOMAIN v
    BY <1>1, HeadersInTree
  <2> QED
    BY <2>1, HeaderSame DEF v
<1>9. HeadersOn(v) = HeadersOn(wire)
  BY <1>7, <1>8, HeadersInTree DEF HeadersOn
<1> QED
  BY <1>6, <1>9, SpringContent DEF v

-----------------------------------------------------------------------------
(* An event's fields of strings. *)
LEMMA EventTexts ==
    \A id \in 1..4 : /\ id \in DOMAIN DescriptorOf("CloudEvent").fields
                     /\ DescriptorOf("CloudEvent").fields[id].type = "string"
<1>1. DOMAIN CloudEvent.fields = 1..8
  BY DEF CloudEvent, Descriptor
<1>2. Row(CloudEvent.fields[1], 1, "string", "none", "id", "", "", EmptyString)
  BY DEF Row, CloudEvent, Descriptor, Field, EmptyString, Zero
<1>3. Row(CloudEvent.fields[2], 2, "string", "none", "source", "", "", EmptyString)
  BY DEF Row, CloudEvent, Descriptor, Field, EmptyString, Zero
<1>4. Row(CloudEvent.fields[3], 3, "string", "none", "spec_version", "", "", EmptyString)
  BY DEF Row, CloudEvent, Descriptor, Field, EmptyString, Zero
<1>5. Row(CloudEvent.fields[4], 4, "string", "none", "type", "", "", EmptyString)
  BY DEF Row, CloudEvent, Descriptor, Field, EmptyString, Zero
<1>6. DescriptorOf("CloudEvent") = CloudEvent
  BY Zenon DEF DescriptorOf
<1>7. \A id \in 1..4 : id \in 1..8 /\ (id = 1 \/ id = 2 \/ id = 3 \/ id = 4)
  OBVIOUS
<1> QED
  BY <1>1, <1>2, <1>3, <1>4, <1>5, <1>6, <1>7 DEF Row

(* The content of an event, part by part. *)
LEMMA EventContent ==
    ASSUME NEW v, NEW w,
           \A id \in 2..4 : TextIn(v, <<>>, id) = TextIn(w, <<>>, id),
           With(v, {5}) = With(w, {5}), With(v, {6, 7, 8}) = With(w, {6, 7, 8})
    PROVE  Content("filter", v) = [Content("filter", w) EXCEPT !["id"] = TextIn(v, <<>>, 1)]
<1>1. 2 \in 2..4 /\ 3 \in 2..4 /\ 4 \in 2..4
  OBVIOUS
<1> QED
  BY <1>1 DEF Content

(* A tree that differs from what pack writes of an event in its id only. *)
LEMMA EventSame ==
    ASSUME NEW wire, TreeFits("CloudEvent", wire), NEW v, DOMAIN v = DOMAIN wire,
           \A p \in DOMAIN wire : v[p].of = wire[p].of /\ (p # <<>> => v[p] = Meant(wire)[p]),
           \A id : id # 1 =>
              /\ id \in DOMAIN v[<<>>].fields <=> id \in DOMAIN Meant(wire)[<<>>].fields
              /\ id \in DOMAIN v[<<>>].fields => v[<<>>].fields[id] = Meant(wire)[<<>>].fields[id]
    PROVE  Content("filter", v) = [Content("filter", wire) EXCEPT !["id"] = TextIn(v, <<>>, 1)]
<1> DEFINE name == "CloudEvent"
           mine == Meant(wire)
           fields == wire[<<>>].fields
           root == <<>>
<1>1. root \in DOMAIN wire /\ wire[root].of = name
  BY DEF TreeFits
<1>2. mine[root].of = name /\ mine[root].fields = Telling(name, fields)
  BY <1>1 DEF Meant
<1>3. \A p \in DOMAIN wire : mine[p].of = wire[p].of /\ \A id : Agreed(mine, wire, p, id)
  BY MeantAgrees
<1>4. \A id \in DOMAIN Telling(name, fields) : Telling(name, fields)[id] = fields[id]
  BY DEF Telling
<1>5. \A id : id # 1 =>
         /\ id \in DOMAIN v[root].fields <=> id \in DOMAIN mine[root].fields
         /\ id \in DOMAIN v[root].fields => v[root].fields[id] = mine[root].fields[id]
  OBVIOUS
<1>6. v[root].of = mine[root].of /\ \A p \in DOMAIN wire : p # root => v[p] = mine[p]
  BY <1>1, <1>2
<1> HIDE DEF mine, name, root, fields
<1>7. ASSUME NEW id \in 2..4
      PROVE  TextIn(v, root, id) = TextIn(wire, root, id)
  <2>1. id \in DOMAIN DescriptorOf(name).fields /\ DescriptorOf(name).fields[id].type = "string" /\ id # 1
    <3>1. id \in 1..4 /\ id # 1
      OBVIOUS
    <3> QED
      BY <3>1, EventTexts DEF name
  <2>2. id \in DOMAIN v[root].fields <=> id \in DOMAIN Telling(wire[root].of, wire[root].fields)
    BY <1>1, <1>2, <1>5, <2>1 DEF fields, root
  <2>3. id \in DOMAIN v[root].fields => v[root].fields[id] = wire[root].fields[id]
    BY <1>2, <1>4, <1>5, <2>1 DEF fields, root
  <2>4. root \in DOMAIN v
    BY <1>1
  <2> QED
    BY <1>1, <2>1, <2>2, <2>3, <2>4, TextSame DEF name
<1>8. ASSUME NEW p \in DOMAIN wire, NEW id, p = root => id # 1
      PROVE  Agreed(v, wire, p, id)
  <2>1. Agreed(mine, wire, p, id)
    BY <1>3
  <2>2. CASE p = root
    BY <1>5, <1>6, <1>8, <2>1, <2>2 DEF Agreed, Says
  <2>3. CASE p # root
    BY <1>6, <2>1, <2>3 DEF Agreed, Says
  <2> QED
    BY <2>2, <2>3
<1>9. With(v, {5}) = With(wire, {5})
  <2>1. \A p \in DOMAIN wire : \A id : (p = <<>> => id \in {5}) => Agreed(v, wire, p, id)
    BY <1>8 DEF root
  <2> QED
    BY <2>1, WithSame
<1>10. With(v, {6, 7, 8}) = With(wire, {6, 7, 8})
  <2>1. \A p \in DOMAIN wire : \A id : (p = <<>> => id \in {6, 7, 8}) => Agreed(v, wire, p, id)
    BY <1>8 DEF root
  <2> QED
    BY <2>1, WithSame
<1> QED
  BY <1>7, <1>9, <1>10, EventContent DEF root

(* An event and what pack writes of it have the same content. *)
LEMMA EventMeant ==
    ASSUME NEW wire, TreeFits("CloudEvent", wire)
    PROVE  Content("filter", Meant(wire)) = Content("filter", wire)
<1> DEFINE v == Meant(wire)
           name == "CloudEvent"
           fields == wire[<<>>].fields
<1>1. <<>> \in DOMAIN wire /\ wire[<<>>].of = name
  BY DEF TreeFits
<1>2. DOMAIN v = DOMAIN wire /\ \A p \in DOMAIN wire : v[p].of = wire[p].of
  BY DEF Meant
<1>3. v[<<>>].fields = Telling(name, fields)
  BY <1>1 DEF Meant
<1>4. \A id \in DOMAIN Telling(name, fields) : Telling(name, fields)[id] = fields[id]
  BY DEF Telling
<1>5. TextIn(v, <<>>, 1) = TextIn(wire, <<>>, 1)
  <2>1. 1 \in DOMAIN DescriptorOf(name).fields /\ DescriptorOf(name).fields[1].type = "string"
    BY EventTexts
  <2> HIDE DEF v, name
  <2> QED
    BY <1>1, <1>2, <1>3, <1>4, <2>1, TextSame DEF name
<1> HIDE DEF v
<1>6. Content("filter", v) = [Content("filter", wire) EXCEPT !["id"] = TextIn(v, <<>>, 1)]
  BY <1>2, EventSame DEF v
<1>7. Content("filter", wire) = [Content("filter", wire) EXCEPT !["id"] = TextIn(wire, <<>>, 1)]
  BY DEF Content
<1> QED
  BY <1>5, <1>6, <1>7 DEF v

(* filter changes the id and nothing else. *)
LEMMA FilterContent ==
    ASSUME NEW wire, TreeFits("CloudEvent", wire)
    PROVE  Content("filter", RenamedWire(wire)) = [Content("filter", wire) EXCEPT !["id"] = "1-5150"]
<1> DEFINE v == RenamedWire(wire)
           name == "CloudEvent"
           fields == wire[<<>>].fields
           words == <<<<"text", "1-5150">>>>
<1>1. <<>> \in DOMAIN wire /\ wire[<<>>].of = name
  BY DEF TreeFits
<1>2. DOMAIN v = DOMAIN wire /\ \A p \in DOMAIN wire : p # <<>> => v[p] = Meant(wire)[p]
  BY DEF RenamedWire
<1>3. v[<<>>].of = name /\ v[<<>>].fields = Renumbered(fields)
  BY <1>1 DEF RenamedWire
<1>4. \A p \in DOMAIN wire : v[p].of = wire[p].of
  <2>1. \A p \in DOMAIN wire : Meant(wire)[p].of = wire[p].of
    BY DEF Meant
  <2> HIDE DEF v
  <2> QED
    BY <1>1, <1>2, <1>3, <2>1
<1>5. Meant(wire)[<<>>].fields = Telling(name, fields)
  BY <1>1 DEF Meant
<1>6. \A id \in DOMAIN Telling(name, fields) : Telling(name, fields)[id] = fields[id]
  BY DEF Telling
<1>7. /\ DOMAIN Renumbered(fields) = DOMAIN Telling(name, fields) \cup {1}
      /\ Renumbered(fields)[1] = words
      /\ \A id \in DOMAIN Telling(name, fields) : id # 1 => Renumbered(fields)[id] = fields[id]
  BY DEF Renumbered
<1> HIDE DEF v, name, fields, words
<1>8. TextIn(v, <<>>, 1) = "1-5150"
  <2>1. words[1][2] = "1-5150" /\ words # <<>>
    BY DEF words
  <2>2. ValuesIn(v, <<>>, 1) = words
    BY <1>1, <1>2, <1>3, <1>7 DEF ValuesIn
  <2> QED
    BY <2>1, <2>2 DEF TextIn
<1>9. \A id : id # 1 =>
         /\ id \in DOMAIN v[<<>>].fields <=> id \in DOMAIN Meant(wire)[<<>>].fields
         /\ id \in DOMAIN v[<<>>].fields => v[<<>>].fields[id] = Meant(wire)[<<>>].fields[id]
  BY <1>3, <1>5, <1>6, <1>7
<1>10. Content("filter", v) = [Content("filter", wire) EXCEPT !["id"] = TextIn(v, <<>>, 1)]
  BY <1>2, <1>4, <1>9, EventSame
<1> QED
  BY <1>8, <1>10 DEF v

-----------------------------------------------------------------------------
NewEntry == [key |-> "one", value |-> "two"]

(* The header that was added, as a reader takes it. *)
LEMMA AddedHeader ==
    ASSUME NEW v, NEW i, HeaderAt(i) \in DOMAIN v, v[HeaderAt(i)] = [of |-> EntryName, fields |-> AddedFields]
    PROVE  HeaderIn(v, i) = NewEntry
<1> DEFINE p == HeaderAt(i)
           one == <<<<"text", "one">>>>
           two == <<<<"text", "two">>>>
<1>1. DOMAIN AddedFields = {1, 2} /\ AddedFields[1] = one /\ AddedFields[2] = two
  BY DEF AddedFields
<1>2. one[1][2] = "one" /\ one # <<>> /\ two[1][2] = "two" /\ two # <<>>
  OBVIOUS
<1>3. v[p].fields = AddedFields
  OBVIOUS
<1> HIDE DEF p, one, two
<1>4. p \in DOMAIN v
  BY DEF p
<1>5. ValuesIn(v, p, 1) = one /\ ValuesIn(v, p, 2) = two
  BY <1>1, <1>3, <1>4 DEF ValuesIn
<1>6. TextIn(v, p, 1) = "one" /\ TextIn(v, p, 2) = "two"
  BY <1>2, <1>5 DEF TextIn
<1> QED
  BY <1>6 DEF HeaderIn, NewEntry, p

(* response appends a header and changes nothing else. *)
LEMMA ResponseContent ==
    ASSUME NEW wire, TreeFits("SpringMessage", wire), NEW h, NEW n, HoldsTree(h, n, wire)
    PROVE  Content("response", ExtendedWire(wire)) =
               [Content("response", wire) EXCEPT !["headers"] = Append(HeadersOn(wire), NewEntry)]
<1> DEFINE name == "SpringMessage"
           k == Count(wire)
           new == HeaderAt(k + 1)
           fields == wire[<<>>].fields
           told == Telling(name, fields)
           withins == [i \in 1..(k + 1) |-> Within]
           v == ExtendedWire(wire)
<1>1. /\ k \in Nat /\ DOMAIN ValuesIn(wire, <<>>, 2) = 1..k
      /\ \A i \in 1..k : HeaderAt(i) \in DOMAIN wire
  BY HeadersInTree
<1>2. /\ new \notin DOMAIN wire /\ new # <<>>
      /\ \A i \in Nat : HeaderAt(i) # <<>>
  BY NewHeader
<1>3. <<>> \in DOMAIN wire /\ wire[<<>>].of = name
  BY DEF TreeFits
<1>4. /\ DOMAIN v = DOMAIN wire \cup {new}
      /\ v[<<>>] = [of |-> name, fields |-> Extended(wire)]
      /\ v[new] = [of |-> EntryName, fields |-> AddedFields]
      /\ \A p \in DOMAIN wire : p # <<>> => v[p] = Meant(wire)[p]
  BY <1>2, <1>3 DEF ExtendedWire
<1>5. v[<<>>].fields = Extended(wire)
  BY <1>4
<1>6. /\ DOMAIN Extended(wire) = ({1} \cap DOMAIN told) \cup {2}
      /\ Extended(wire)[2] = withins
      /\ 1 \in DOMAIN told => Extended(wire)[1] = fields[1]
  BY DEF Extended
<1> HIDE DEF v, told, withins, name, fields, new, k
<1>7. TextIn(v, <<>>, 1) = TextIn(wire, <<>>, 1)
  <2>1. 1 \in DOMAIN DescriptorOf(name).fields /\ DescriptorOf(name).fields[1].type = "bytes"
    BY SpringRows DEF Row, name
  <2>2. <<>> \in DOMAIN v /\ (1 \in DOMAIN v[<<>>].fields <=> 1 \in DOMAIN told)
    BY <1>3, <1>4, <1>5, <1>6
  <2>3. 1 \in DOMAIN v[<<>>].fields => v[<<>>].fields[1] = fields[1]
    BY <1>5, <1>6, <2>2
  <2> QED
    BY <1>3, <2>1, <2>2, <2>3, TextSame DEF name, told, fields
<1>8. DOMAIN ValuesIn(v, <<>>, 2) = 1..(k + 1)
  <2>1. ValuesIn(v, <<>>, 2) = withins
    BY <1>3, <1>4, <1>5, <1>6 DEF ValuesIn
  <2> QED
    BY <2>1 DEF withins
<1>9. ASSUME NEW i \in 1..k
      PROVE  HeaderIn(v, i) = HeaderIn(wire, i)
  <2>1. HeaderAt(i) \in DOMAIN wire /\ HeaderAt(i) # <<>>
    BY <1>1, <1>2
  <2>2. HeaderAt(i) \in DOMAIN v /\ v[HeaderAt(i)] = Meant(wire)[HeaderAt(i)]
    BY <1>4, <2>1
  <2> QED
    BY <2>2, HeaderSame DEF name, k
<1>10. HeaderIn(v, k + 1) = NewEntry
  BY <1>4, AddedHeader DEF new
<1>11. HeadersOn(v) = Append(HeadersOn(wire), NewEntry)
  <2> DEFINE S == {HeaderIn(wire, i) : i \in 1..k} \cup {NewEntry}
             old == HeadersOn(wire)
  <2>1. old = [i \in 1..k |-> HeaderIn(wire, i)]
    BY <1>1 DEF HeadersOn
  <2>2. old \in Seq(S) /\ Len(old) = k
    BY <1>1, <2>1
  <2>3. \A i \in 1..k : old[i] = HeaderIn(wire, i)
    BY <2>1
  <2>4. HeadersOn(v) = [i \in 1..(k + 1) |-> HeaderIn(v, i)]
    BY <1>8 DEF HeadersOn
  <2>5. NewEntry \in S
    OBVIOUS
  <2> HIDE DEF old, S
  <2>6. Append(old, NewEntry) = [i \in 1..(k + 1) |-> IF i = k + 1 THEN NewEntry ELSE old[i]]
    <3> DEFINE e == NewEntry
    <3> HIDE DEF e
    <3>1. e \in S
      BY <2>5 DEF e
    <3>2. /\ Append(old, e) \in Seq(S) /\ Len(Append(old, e)) = k + 1
          /\ \A i \in 1..k : Append(old, e)[i] = old[i]
          /\ Append(old, e)[k + 1] = e
      BY <1>1, <2>2, <3>1
    <3>3. \A i \in 1..(k + 1) : i = k + 1 \/ (i \in 1..k /\ i # k + 1)
      BY <1>1
    <3> DEFINE longer == [i \in 1..(k + 1) |-> IF i = k + 1 THEN e ELSE old[i]]
    <3>4. longer \in Seq(S) /\ Len(longer) = k + 1
      <4>1. \A i \in 1..(k + 1) : (IF i = k + 1 THEN e ELSE old[i]) \in S
        BY <2>2, <3>1, <3>3
      <4> QED
        BY <1>1, <4>1
    <3>5. \A i \in 1..(k + 1) : Append(old, e)[i] = longer[i]
      BY <3>2, <3>3
    <3> HIDE DEF longer
    <3>6. Append(old, e) = longer
      BY <1>1, <3>2, <3>4, <3>5
    <3> QED
      BY <3>6 DEF e, longer
  <2>7. \A i \in 1..(k + 1) : HeaderIn(v, i) = IF i = k + 1 THEN NewEntry ELSE old[i]
    <3>1. \A i \in 1..(k + 1) : i = k + 1 \/ i \in 1..k
      BY <1>1
    <3> QED
      BY <1>9, <1>10, <2>3, <3>1
  <2> QED
    BY <2>4, <2>6, <2>7 DEF old
<1>12. Content("response", v) = [payload |-> TextIn(wire, <<>>, 1), headers |-> Append(HeadersOn(wire), NewEntry)]
  BY <1>7, <1>11, SpringContent
<1>13. Content("response", wire) = [payload |-> TextIn(wire, <<>>, 1), headers |-> HeadersOn(wire)]
  BY SpringContent
<1> QED
  BY <1>12, <1>13 DEF v

-----------------------------------------------------------------------------
(* That an object hangs on a field. *)
Found(parts, id, x) ==
    \E part \in parts : HangsOn(part, id) /\ part.at[1] = "heap" /\ x = part.at[2]

Ids(function) == IF function = "filter" THEN {1, 2, 3, 4, 5, 6, 7, 8} ELSE {1, 2}

(* The objects on some fields. *)
LEMMA OnFields ==
    ASSUME NEW parts, NEW ids
    PROVE  \A x : x \in OnHeap(On(parts, ids)) <=> \E id \in ids : Found(parts, id, x)
BY DEF OnHeap, On, Found

(* The objects of the parts are those on all fields. *)
LEMMA RefsUnion ==
    ASSUME NEW f, NEW parts
    PROVE  LET refs == RefsOf(f, parts)
           IN \A x : (\E p \in DOMAIN refs : x \in refs[p]) <=> \E id \in Ids(f) : Found(parts, id, x)
<1> DEFINE refs == RefsOf(f, parts)
           on(ids) == OnHeap(On(parts, ids))
           array == OnHeap(AtTop(On(parts, {2})))
           rest == OnHeap(On(parts, {2}) \ AtTop(On(parts, {2})))
<1>1. \A ids, x : x \in on(ids) <=> \E id \in ids : Found(parts, id, x)
  BY OnFields
<1>2. \A x : x \in array \/ x \in rest <=> x \in on({2})
  BY DEF OnHeap, AtTop
<1>3. CASE f = "filter"
  <2>1. refs = [id |-> on({1}), source |-> on({2}), spec_version |-> on({3}), type |-> on({4}),
                attributes |-> on({5}), data |-> on({6, 7, 8})]
    BY <1>3 DEF RefsOf
  <2> HIDE DEF refs, on
  <2>2. /\ DOMAIN refs = {"id", "source", "spec_version", "type", "attributes", "data"}
        /\ refs["id"] = on({1}) /\ refs["source"] = on({2}) /\ refs["spec_version"] = on({3})
        /\ refs["type"] = on({4}) /\ refs["attributes"] = on({5}) /\ refs["data"] = on({6, 7, 8})
    BY <2>1
  <2>3. \A x : (\E p \in DOMAIN refs : x \in refs[p]) <=>
               \/ x \in on({1}) \/ x \in on({2}) \/ x \in on({3}) \/ x \in on({4})
               \/ x \in on({5}) \/ x \in on({6, 7, 8})
    BY <2>2
  <2>4. Ids(f) = {1, 2, 3, 4, 5, 6, 7, 8}
    BY <1>3 DEF Ids
  <2> QED
    BY <1>1, <2>3, <2>4 DEF refs
<1>4. CASE f # "filter"
  <2>1. refs = [payload |-> on({1}), headers |-> array, entries |-> rest]
    BY <1>4 DEF RefsOf
  <2> HIDE DEF refs, on, array, rest
  <2>2. /\ DOMAIN refs = {"payload", "headers", "entries"}
        /\ refs["payload"] = on({1}) /\ refs["headers"] = array /\ refs["entries"] = rest
    BY <2>1
  <2>3. \A x : (\E p \in DOMAIN refs : x \in refs[p]) <=>
               x \in on({1}) \/ x \in array \/ x \in rest
    BY <2>2
  <2>4. Ids(f) = {1, 2}
    BY <1>4 DEF Ids
  <2> QED
    BY <1>1, <1>2, <2>3, <2>4 DEF refs
<1> QED
  BY <1>3, <1>4

(* What the layouts of GuestObjects are. *)
LEMMA RefsTyped ==
    ASSUME NEW f, NEW parts, NEW A, \A part \in parts : part.at[1] = "heap" => part.at[2] \in A
    PROVE  RefsOf(f, parts) \in
               [(IF f = "filter" THEN EventParts ELSE {"payload", "headers", "entries"}) -> SUBSET A]
<1>1. \A some \in SUBSET parts : OnHeap(some) \in SUBSET A
  BY DEF OnHeap
<1>2. /\ \A ids : OnHeap(On(parts, ids)) \in SUBSET A
      /\ OnHeap(AtTop(On(parts, {2}))) \in SUBSET A
      /\ OnHeap(On(parts, {2}) \ AtTop(On(parts, {2}))) \in SUBSET A
  <2>1. /\ \A ids : On(parts, ids) \in SUBSET parts
        /\ AtTop(On(parts, {2})) \in SUBSET parts
        /\ On(parts, {2}) \ AtTop(On(parts, {2})) \in SUBSET parts
    BY DEF On, AtTop
  <2> QED
    BY <1>1, <2>1
<1> QED
  BY <1>2 DEF RefsOf, EventParts

-----------------------------------------------------------------------------
(* A message as GuestObjects sees it. *)
MessageParts(n, wire) == {Part(n, a) : a \in Made(n, wire)}

MessageStruct(function, n, wire) ==
    [at |-> Block(n), refs |-> RefsOf(function, MessageParts(n, wire)), says |-> Content(function, wire)]

(* Addresses of a message have a number, a path and a field. *)
LEMMA MadeAt ==
    ASSUME NEW name, NEW wire, TreeFits(name, wire), NEW n \in Nat
    PROVE  /\ Made(n, wire) \subseteq Nat \X Seq(Nat \X Nat) \X Nat
           /\ \A a \in Made(n, wire) : /\ a = <<n, a[2], a[3]>> /\ a[2] \in DOMAIN wire
                                       /\ a[3] \in {0} \cup DOMAIN wire[a[2]].fields
           /\ Block(n) \in Made(n, wire)
<1>1. \A p \in DOMAIN wire : p \in Seq(Nat \X Nat)
  BY DEF TreeFits
<1>2. \A p \in DOMAIN wire : HeldBy(wire[p].of, wire[p].fields) \subseteq DOMAIN wire[p].fields
  BY DEF HeldBy
<1>3. \A p \in DOMAIN wire : \A id \in DOMAIN wire[p].fields : id \in Nat
  <2>1. ASSUME NEW p \in DOMAIN wire, NEW id \in DOMAIN wire[p].fields PROVE id \in Nat
    BY FieldsOf
  <2> QED
    BY <2>1
<1>4. ASSUME NEW a \in Made(n, wire)
      PROVE  \E p \in DOMAIN wire : \E id \in {0} \cup DOMAIN wire[p].fields : a = <<n, p, id>>
  BY <1>2 DEF Made
<1>5. ASSUME NEW a \in Made(n, wire)
      PROVE  /\ a \in Nat \X Seq(Nat \X Nat) \X Nat
             /\ a = <<n, a[2], a[3]>> /\ a[2] \in DOMAIN wire
             /\ a[3] \in {0} \cup DOMAIN wire[a[2]].fields
  <2>1. PICK p \in DOMAIN wire : \E id \in {0} \cup DOMAIN wire[p].fields : a = <<n, p, id>>
    BY <1>4
  <2>2. PICK id \in {0} \cup DOMAIN wire[p].fields : a = <<n, p, id>>
    BY <2>1
  <2>3. p \in Seq(Nat \X Nat) /\ id \in Nat
    BY <1>1, <1>3, <2>2
  <2>4. a[2] = p /\ a[3] = id
    BY <2>2
  <2> QED
    BY <2>2, <2>3, <2>4
<1>6. Block(n) \in Made(n, wire)
  BY DEF Made, Block, TreeFits
<1> QED
  BY <1>5, <1>6

(* What GuestObjects sees is that. *)
LEMMA MessageSeen ==
    ASSUME NEW f, NEW wire, TreeFits(TypeOf(f).descriptor, wire), NEW h, NEW n, HoldsTree(h, n, wire)
    PROVE  Struct(f, h, Top(n)) = MessageStruct(f, n, wire)
<1> DEFINE name == TypeOf(f).descriptor
<1> HIDE DEF name
<1>0. TreeFits(name, wire)
  BY DEF name
<1>1. IsAllocated(h, Top(n)) /\ Top(n)[2] = Block(n)
  <2>1. <<>> \in DOMAIN wire
    BY <1>0 DEF TreeFits
  <2> QED
    BY <2>1, Blocks, AddressesAt DEF HoldsTree, Top
<1>2. Parts(h, Top(n)) = MessageParts(n, wire)
  BY <1>0, PartsOfTree DEF MessageParts
<1>3. PackMessage(h, Top(n)) = Meant(wire)
  BY <1>0, PackedTree
<1>4. Content(f, Meant(wire)) = Content(f, wire)
  <2>1. CASE f = "filter"
    BY <2>1, TypesOf, EventMeant
  <2>2. CASE f # "filter"
    BY <2>2, TypesOf, SpringMeant
  <2> QED
    BY <2>1, <2>2
<1> QED
  BY <1>1, <1>2, <1>3, <1>4, StructSeen DEF MessageStruct

(* Its objects are all that unpack made. *)
LEMMA MessageObjects ==
    ASSUME NEW f, NEW wire, TreeFits(TypeOf(f).descriptor, wire), NEW n \in Nat
    PROVE  Objects!Objects(MessageStruct(f, n, wire)) = Made(n, wire)
<1> DEFINE name == TypeOf(f).descriptor
           parts == MessageParts(n, wire)
           refs == RefsOf(f, parts)
<1>0. DOMAIN DescriptorOf(name).fields = Ids(f)
  <2>1. CASE f = "filter"
    <3>1. DOMAIN CloudEvent.fields = 1..8
      BY DEF CloudEvent, Descriptor
    <3>2. DescriptorOf("CloudEvent") = CloudEvent
      BY Zenon DEF DescriptorOf
    <3>3. 1..8 = {1, 2, 3, 4, 5, 6, 7, 8}
      OBVIOUS
    <3> QED
      BY <2>1, <3>1, <3>2, <3>3, TypesOf DEF Ids
  <2>2. CASE f # "filter"
    BY <2>2, SpringRows, TypesOf DEF Ids
  <2> QED
    BY <2>1, <2>2
<1> HIDE DEF name
<1>1. TreeFits(name, wire)
  BY DEF name
<1>2. \A a \in Made(n, wire) : /\ a = <<n, a[2], a[3]>> /\ a[2] \in DOMAIN wire
                               /\ a[3] \in {0} \cup DOMAIN wire[a[2]].fields
  BY <1>1, MadeAt
<1>3. ASSUME NEW a \in Made(n, wire)
      PROVE  Part(n, a).at[1] = "heap" /\ Part(n, a).at[2] = a
             /\ Part(n, a).path = a[2] /\ Part(n, a).field = a[3]
  <2>1. a = <<n, a[2], a[3]>>
    BY <1>2
  <2> QED
    BY <2>1 DEF Part, At
<1>4. \A x, id : Found(parts, id, x) <=> x \in Made(n, wire) /\ HangsOn(Part(n, x), id)
  BY <1>3 DEF Found, MessageParts
<1>5. ASSUME NEW a \in Made(n, wire), a # Block(n)
      PROVE  \E id \in Ids(f) : HangsOn(Part(n, a), id)
  <2>1. CASE a[2] = <<>>
    <3>1. a[3] # 0
      BY <1>2, <1>5, <2>1 DEF Block
    <3>2. a[3] \in DOMAIN wire[<<>>].fields
      BY <1>2, <2>1, <3>1
    <3>3. a[3] \in Ids(f)
      BY <1>0, <1>1, <3>2, FieldsOf DEF TreeFits
    <3> QED
      BY <1>3, <2>1, <3>3 DEF HangsOn
  <2>2. CASE a[2] # <<>>
    <3> DEFINE p == a[2]
    <3>1. p \in DOMAIN wire /\ p # <<>>
      BY <1>2, <2>2
    <3> HIDE DEF p
    <3>2. p[1][1] \in Ids(f)
      BY <1>0, <1>1, <3>1, PartsHang
    <3> QED
      BY <1>3, <2>2, <3>2 DEF HangsOn, p
  <2> QED
    BY <2>1, <2>2
<1>6. Block(n) \in Made(n, wire)
  BY <1>1, MadeAt
<1>7. \A x : (\E p \in DOMAIN refs : x \in refs[p]) <=> \E id \in Ids(f) : Found(parts, id, x)
  BY RefsUnion
<1>8. MessageStruct(f, n, wire).at = Block(n) /\ MessageStruct(f, n, wire).refs = refs
  BY DEF MessageStruct
<1> HIDE DEF refs, parts
<1>9. \A x : x \in Objects!Objects(MessageStruct(f, n, wire)) <=>
             x = Block(n) \/ \E p \in DOMAIN refs : x \in refs[p]
  BY <1>8 DEF Objects!Objects
<1>10. \A x : x \in Objects!Objects(MessageStruct(f, n, wire)) <=> x \in Made(n, wire)
  BY <1>4, <1>5, <1>6, <1>7, <1>9
<1> QED
  BY <1>10

-----------------------------------------------------------------------------
(* What a struct has of its own, by the numbers of its fields. *)
OwnPart(p, s, f) == [path |-> p, field |-> f.id, at |-> Pointer(f, s.at[f.member])]

(* They are the struct itself and what its fields own. *)
LEMMA OwnsBy ==
    ASSUME NEW h, NEW p, NEW at, IsAllocated(h, at), NEW m \in Messages, Object(h, at).of = m
    PROVE  \A x : x \in Owns(h, [path |-> p, at |-> at]) <=>
                      \/ x = [path |-> p, field |-> 0, at |-> at]
                      \/ \E id \in DOMAIN DescriptorOf(m).fields :
                            /\ IsOwned(Object(h, at), DescriptorOf(m).fields[id])
                            /\ x = OwnPart(p, Object(h, at), DescriptorOf(m).fields[id])
<1> DEFINE s == Object(h, at)
           table == DescriptorOf(m).fields
           owned == {f \in ToSet(table) : IsOwned(s, f)}
           of(f) == [path |-> p, field |-> f.id, at |-> Pointer(f, s.at[f.member])]
<1>1. Owns(h, [path |-> p, at |-> at]) =
         {[path |-> p, field |-> 0, at |-> at]} \cup {of(f) : f \in owned}
  BY DEF Owns
<1>2. \A f : f \in owned <=> \E id \in DOMAIN table : f = table[id] /\ IsOwned(s, f)
  BY DEF ToSet
<1>3. \A f : of(f) = OwnPart(p, s, f)
  BY DEF OwnPart
<1> HIDE DEF of, owned, table, s
<1> QED
  BY <1>1, <1>2, <1>3 DEF s, table

(* Of a field whose members are shared the same is owned. *)
LEMMA SharedOwned ==
    ASSUME NEW s, NEW t, NEW f, NEW id, NEW init, FieldFits(f, id, init), SameMembers(s, t, f), NEW p
    PROVE  /\ IsOwned(s, f) <=> IsOwned(t, f)
           /\ OwnPart(p, s, f) = OwnPart(p, t, f)
<1>1. s.at[f.member] = t.at[f.member]
  BY DEF SameMembers
<1>2. f.label = "repeated" \/ IsOneOf(f) => s.at[f.quantifier] = t.at[f.quantifier]
  BY DEF SameMembers, FieldFits, IsOneOf
<1> QED
  BY <1>1, <1>2 DEF IsOwned, OwnPart

(* What is below the outermost struct. *)
Inner(h, n, wire) == UNION {Owns(h, Visit(n, p)) : p \in DOMAIN wire \ {<<>>}}

(* The parts of a message are its struct's and those below. *)
LEMMA PartsSplit ==
    ASSUME NEW name, NEW wire, TreeFits(name, wire), NEW h, NEW n, HoldsTree(h, n, wire)
    PROVE  Parts(h, Top(n)) = Owns(h, Visit(n, <<>>)) \cup Inner(h, n, wire)
<1>1. Parts(h, Top(n)) = UNION {Owns(h, visit) : visit \in {Visit(n, p) : p \in DOMAIN wire}}
  BY ReachedTree DEF Parts
<1>2. <<>> \in DOMAIN wire
  BY DEF TreeFits
<1> QED
  BY <1>1, <1>2 DEF Inner

(* So are those of a struct beside it that leads to the same messages. *)
LEMMA AsideParts ==
    ASSUME NEW name, NEW wire, TreeFits(name, wire), NEW h, NEW n, HoldsTree(h, n, wire),
           NEW r, Block(r) \in DOMAIN h.objects, h.objects[Block(r)].of = name,
           \A id \in DOMAIN DescriptorOf(name).fields :
              LET f == DescriptorOf(name).fields[id]
              IN f.type = "message" =>
                    Elements(h, h.objects[Block(r)], f) = Elements(h, h.objects[Block(n)], f)
    PROVE  Parts(h, Top(r)) = Owns(h, Visit(r, <<>>)) \cup Inner(h, n, wire)
<1> DEFINE at == [p \in DOMAIN wire |-> Aside(n, r, p)]
           steps == [p \in DOMAIN wire |-> StepsAt(wire, p)]
           visit(p) == [path |-> p, at |-> at[p]]
<1>1. Walk(h, DOMAIN wire, at, steps)
  BY AsideWalk
<1>2. <<>> \in DOMAIN wire
  BY DEF TreeFits
<1>3. at[<<>>] = Top(r) /\ visit(<<>>) = Visit(r, <<>>)
  BY <1>2 DEF Aside, Visit, Top
<1>4. \A p \in DOMAIN wire \ {<<>>} : visit(p) = Visit(n, p)
  BY DEF Aside, Visit
<1> HIDE DEF at, steps
<1>5. Reached(h, Top(r)) = {visit(p) : p \in DOMAIN wire}
  BY <1>1, <1>3, WalkReached
<1> HIDE DEF visit
<1>6. Parts(h, Top(r)) = UNION {Owns(h, visit(p)) : p \in DOMAIN wire}
  <2>1. Parts(h, Top(r)) = UNION {Owns(h, v) : v \in {visit(p) : p \in DOMAIN wire}}
    BY <1>5 DEF Parts
  <2> QED
    BY <2>1
<1>7. \A p \in DOMAIN wire : Owns(h, visit(p)) = IF p = <<>> THEN Owns(h, Visit(r, <<>>)) ELSE Owns(h, Visit(n, p))
  BY <1>3, <1>4
<1> QED
  BY <1>2, <1>6, <1>7 DEF Inner

(* All of it is in messages within the message. *)
LEMMA InnerAt ==
    ASSUME NEW name, NEW wire, TreeFits(name, wire), NEW h, NEW n
    PROVE  \A x \in Inner(h, n, wire) : x.path \in DOMAIN wire /\ x.path # <<>>
<1>1. ASSUME NEW p, NEW x \in Owns(h, Visit(n, p)) PROVE x.path = p
  BY DEF Owns, Visit
<1> QED
  BY <1>1 DEF Inner

(* Two structs that share the members of a field have the same of it. *)
LEMMA OwnsShared ==
    ASSUME NEW h, NEW name \in Messages, NEW n, NEW r,
           Block(n) \in DOMAIN h.objects, h.objects[Block(n)].of = name,
           Block(r) \in DOMAIN h.objects, h.objects[Block(r)].of = name,
           NEW id, id # 0,
           id \in DOMAIN DescriptorOf(name).fields =>
              SameMembers(h.objects[Block(r)], h.objects[Block(n)], DescriptorOf(name).fields[id])
    PROVE  \A x : HangsOn(x, id) =>
                      (x \in Owns(h, Visit(r, <<>>)) <=> x \in Owns(h, Visit(n, <<>>)))
<1> DEFINE table == DescriptorOf(name).fields
           s == h.objects[Block(r)]
           t == h.objects[Block(n)]
           mine(v, k) == OwnPart(<<>>, v, table[k])
<1>1. /\ IsAllocated(h, Top(r)) /\ Object(h, Top(r)) = s
      /\ IsAllocated(h, Top(n)) /\ Object(h, Top(n)) = t
  BY AddressesAt DEF Top, Block
<1>2. \A k \in DOMAIN table : table[k].id = k /\ FieldFits(table[k], k, DescriptorOf(name).struct)
  BY FieldIds, DescriptorsFit DEF Fits
<1>3. \A v, k : mine(v, k).path = <<>> /\ mine(v, k).field = table[k].id
  BY DEF OwnPart
<1>4. /\ Visit(r, <<>>) = [path |-> <<>>, at |-> Top(r)]
      /\ Visit(n, <<>>) = [path |-> <<>>, at |-> Top(n)]
  BY DEF Visit, Top
<1>5. \A y : ~HangsOn([path |-> <<>>, field |-> 0, at |-> y], id)
  BY DEF HangsOn
<1>6. /\ \A x : x \in Owns(h, Visit(r, <<>>)) <=>
                   \/ x = [path |-> <<>>, field |-> 0, at |-> Top(r)]
                   \/ \E k \in DOMAIN table : IsOwned(s, table[k]) /\ x = mine(s, k)
      /\ \A x : x \in Owns(h, Visit(n, <<>>)) <=>
                   \/ x = [path |-> <<>>, field |-> 0, at |-> Top(n)]
                   \/ \E k \in DOMAIN table : IsOwned(t, table[k]) /\ x = mine(t, k)
  <2> DEFINE root == <<>>
  <2> HIDE DEF root, s, t, mine
  <2>1. /\ Visit(r, <<>>) = [path |-> root, at |-> Top(r)] /\ Visit(n, <<>>) = [path |-> root, at |-> Top(n)]
        /\ \A y : [path |-> <<>>, field |-> 0, at |-> y] = [path |-> root, field |-> 0, at |-> y]
        /\ \A v, k : mine(v, k) = OwnPart(root, v, table[k])
    BY <1>4 DEF root, mine
  <2> HIDE DEF table
  <2>2. Object(h, Top(r)).of = name /\ Object(h, Top(n)).of = name
    BY <1>1 DEF s, t
  <2>3. \A x : x \in Owns(h, [path |-> root, at |-> Top(r)]) <=>
                   \/ x = [path |-> root, field |-> 0, at |-> Top(r)]
                   \/ \E k \in DOMAIN table : IsOwned(s, table[k]) /\ x = OwnPart(root, s, table[k])
    BY <1>1, <2>2, OwnsBy DEF table
  <2>4. \A x : x \in Owns(h, [path |-> root, at |-> Top(n)]) <=>
                   \/ x = [path |-> root, field |-> 0, at |-> Top(n)]
                   \/ \E k \in DOMAIN table : IsOwned(t, table[k]) /\ x = OwnPart(root, t, table[k])
    BY <1>1, <2>2, OwnsBy DEF table
  <2> QED
    BY <2>1, <2>3, <2>4
<1>7. id \in DOMAIN table => (IsOwned(s, table[id]) <=> IsOwned(t, table[id])) /\ mine(s, id) = mine(t, id)
  BY <1>2, SharedOwned
<1> HIDE DEF table, s, t, mine
<1>8. \A v : \A k \in DOMAIN table : HangsOn(mine(v, k), id) => k = id
  BY <1>2, <1>3 DEF HangsOn
<1>9. ASSUME NEW x, HangsOn(x, id)
      PROVE  /\ x \in Owns(h, Visit(r, <<>>)) <=> id \in DOMAIN table /\ IsOwned(s, table[id]) /\ x = mine(s, id)
             /\ x \in Owns(h, Visit(n, <<>>)) <=> id \in DOMAIN table /\ IsOwned(t, table[id]) /\ x = mine(t, id)
  BY <1>5, <1>6, <1>8, <1>9
<1> QED
  BY <1>7, <1>9

-----------------------------------------------------------------------------
(* Sets of parts that differ in what hangs on other fields only. *)
Alike(a, b, ids) == \A id \in ids : \A x : HangsOn(x, id) => (x \in a <=> x \in b)

(* The struct of the message itself. *)
LEMMA RootOf ==
    ASSUME NEW name, NEW wire, TreeFits(name, wire), NEW h, NEW n, HoldsTree(h, n, wire)
    PROVE  /\ Block(n) \in DOMAIN h.objects /\ h.objects[Block(n)].of = name /\ name \in Messages
           /\ Parts(h, Top(n)) = MessageParts(n, wire)
<1>1. <<>> \in DOMAIN wire /\ wire[<<>>].of = name
  BY DEF TreeFits
<1>2. name \in Messages
  BY <1>1, FieldsOf
<1>3. Block(n) \in DOMAIN h.objects /\ h.objects[Block(n)].of = name
  BY <1>1 DEF HoldsTree, StructFits, Block
<1>4. Parts(h, Top(n)) = MessageParts(n, wire)
  BY PartsOfTree DEF MessageParts
<1> QED
  BY <1>2, <1>3, <1>4

(* All that hangs on request's result is the message's. *)
LEMMA RequestRefs ==
    ASSUME NEW f, f # "filter", NEW wire, TreeFits("SpringMessage", wire), NEW h, NEW n,
           HoldsTree(h, n, wire), NEW r, Block(r) \in DOMAIN h.objects,
           h.objects[Block(r)].of = "SpringMessage", Shares(h, r, n, SpringMembers)
    PROVE  RefsOf(f, Parts(h, Top(r))) = RefsOf(f, MessageParts(n, wire))
<1> DEFINE name == "SpringMessage"
           D == DescriptorOf(name)
           s == h.objects[Block(r)]
           t == h.objects[Block(n)]
           inner == Inner(h, n, wire)
           a == Owns(h, Visit(r, <<>>))
           b == Owns(h, Visit(n, <<>>))
<1>1. /\ Block(n) \in DOMAIN h.objects /\ t.of = name /\ name \in Messages
      /\ Parts(h, Top(n)) = MessageParts(n, wire)
  BY RootOf
<1>2. \A id \in DOMAIN D.fields : SameMembers(s, t, D.fields[id])
  BY RequestShares
<1>3. \A id \in DOMAIN D.fields : FieldFits(D.fields[id], id, D.struct)
  BY <1>1, DescriptorsFit DEF Fits
<1> HIDE DEF D, s, t, name, a, b, inner
<1>4. \A id \in DOMAIN D.fields : Elements(h, s, D.fields[id]) = Elements(h, t, D.fields[id])
  BY <1>2, <1>3, SharedField
<1>5. Parts(h, Top(r)) = a \cup inner
  BY <1>4, AsideParts DEF D, s, t, name, a, inner
<1>6. MessageParts(n, wire) = b \cup inner
  BY <1>1, PartsSplit DEF b, inner, name
<1>7. ASSUME NEW id \in {1, 2}
      PROVE  \A x : HangsOn(x, id) => (x \in a <=> x \in b)
  <2>1. id # 0
    OBVIOUS
  <2> QED
    BY <1>1, <1>2, <2>1, OwnsShared DEF D, s, t, a, b, name
<1>8. ASSUME NEW ids \in {{1}, {2}}
      PROVE  On(a \cup inner, ids) = On(b \cup inner, ids)
  <2>1. Alike(a, b, ids)
    BY <1>7 DEF Alike
  <2> QED
    BY <2>1 DEF On, Alike
<1> QED
  BY <1>5, <1>6, <1>8 DEF RefsOf

(* All but the id of filter's is the message's, and the id is nowhere on the *)
(* heap.                                                                     *)
LEMMA FilterRefs ==
    ASSUME NEW wire, TreeFits("CloudEvent", wire), NEW h, NEW n, HoldsTree(h, n, wire),
           NEW r, Block(r) \in DOMAIN h.objects, h.objects[Block(r)].of = "CloudEvent",
           Shares(h, r, n, EventMembers), h.objects[Block(r)].at["id"] = <<<<"static", "1-5150">>>>
    PROVE  RefsOf("filter", Parts(h, Top(r))) =
               [RefsOf("filter", MessageParts(n, wire)) EXCEPT !["id"] = {}]
<1> DEFINE name == "CloudEvent"
           D == DescriptorOf(name)
           s == h.objects[Block(r)]
           t == h.objects[Block(n)]
           inner == Inner(h, n, wire)
           a == Owns(h, Visit(r, <<>>))
           b == Owns(h, Visit(n, <<>>))
<1>1. /\ Block(n) \in DOMAIN h.objects /\ t.of = name /\ name \in Messages
      /\ Parts(h, Top(n)) = MessageParts(n, wire)
  BY RootOf
<1>2. \A id \in DOMAIN D.fields : id # 1 => SameMembers(s, t, D.fields[id])
  BY FilterShares
<1>3. \A id \in DOMAIN D.fields : FieldFits(D.fields[id], id, D.struct) /\ D.fields[id].id = id
  BY <1>1, FieldIds, DescriptorsFit DEF Fits
<1>4. 1 \in DOMAIN D.fields /\ D.fields[1].type = "string" /\ D.fields[1].member = "id"
  BY CloudEventRows DEF Row
<1>5. \A id \in DOMAIN D.fields : D.fields[id].type = "message" =>
         Elements(h, s, D.fields[id]) = Elements(h, t, D.fields[id])
  <2> HIDE DEF D, s, t
  <2> QED
    BY <1>2, <1>3, <1>4, SharedField
<1>6. s.at["id"][1][1] = "static"
  BY DEF s
<1>7. /\ IsAllocated(h, Top(r)) /\ Object(h, Top(r)) = s /\ s.of = name
  BY AddressesAt DEF Top, Block
<1> HIDE DEF D, s, t, name, a, b, inner
<1>8. Parts(h, Top(r)) = a \cup inner
  BY <1>5, AsideParts DEF D, s, t, name, a, inner
<1>9. MessageParts(n, wire) = b \cup inner
  BY <1>1, PartsSplit DEF b, inner, name
<1>10. ASSUME NEW id, id \notin {0, 1}
       PROVE  \A x : HangsOn(x, id) => (x \in a <=> x \in b)
  BY <1>1, <1>2, <1>10, OwnsShared DEF D, s, t, a, b, name
<1>11. ASSUME NEW ids, 0 \notin ids, 1 \notin ids
       PROVE  On(a \cup inner, ids) = On(b \cup inner, ids)
  <2>1. Alike(a, b, ids)
    BY <1>10, <1>11 DEF Alike
  <2> QED
    BY <2>1 DEF On, Alike
<1>12. ASSUME NEW x \in a \cup inner, HangsOn(x, 1)
       PROVE  x.at[1] # "heap"
  <2>1. CASE x \in a
    <3> DEFINE root == <<>>
    <3> HIDE DEF root
    <3>1. Visit(r, <<>>) = [path |-> root, at |-> Top(r)]
      BY DEF Visit, Top, root
    <3>2. \/ x = [path |-> root, field |-> 0, at |-> Top(r)]
          \/ \E id \in DOMAIN D.fields : IsOwned(s, D.fields[id]) /\ x = OwnPart(root, s, D.fields[id])
      BY <1>1, <1>7, <2>1, <3>1, OwnsBy DEF a, D
    <3>3. x # [path |-> root, field |-> 0, at |-> Top(r)]
      BY <1>12 DEF HangsOn, root
    <3>4. PICK id \in DOMAIN D.fields : x = OwnPart(root, s, D.fields[id])
      BY <3>2, <3>3
    <3>5. x.path = root /\ x.field = id /\ x.at = Pointer(D.fields[id], s.at[D.fields[id].member])
      BY <1>3, <3>4 DEF OwnPart
    <3>6. id = 1
      BY <1>12, <3>5 DEF HangsOn, root
    <3>7. x.at = s.at["id"][1]
      BY <1>4, <3>5, <3>6 DEF Pointer
    <3> QED
      BY <1>6, <3>7
  <2>2. CASE x \in inner
    <3> DEFINE p == x.path
    <3>1. p \in DOMAIN wire /\ p # <<>>
      BY <2>2, InnerAt DEF inner, name
    <3>2. p[1][1] = 1
      BY <1>12, <3>1 DEF HangsOn
    <3> HIDE DEF p
    <3>3. D.fields[p[1][1]].type = "message"
      BY <3>1, PartsHang DEF D, name
    <3> QED
      BY <1>4, <3>2, <3>3
  <2> QED
    BY <2>1, <2>2
<1>13. OnHeap(On(a \cup inner, {1})) = {}
  BY <1>12 DEF OnHeap, On
<1>14. /\ On(a \cup inner, {2}) = On(b \cup inner, {2}) /\ On(a \cup inner, {3}) = On(b \cup inner, {3})
       /\ On(a \cup inner, {4}) = On(b \cup inner, {4}) /\ On(a \cup inner, {5}) = On(b \cup inner, {5})
       /\ On(a \cup inner, {6, 7, 8}) = On(b \cup inner, {6, 7, 8})
  <2>1. \A ids \in {{2}, {3}, {4}, {5}, {6, 7, 8}} : 0 \notin ids /\ 1 \notin ids
    OBVIOUS
  <2>2. \A ids \in {{2}, {3}, {4}, {5}, {6, 7, 8}} : On(a \cup inner, ids) = On(b \cup inner, ids)
    BY <1>11, <2>1
  <2> QED
    BY <2>2
<1> DEFINE mine == a \cup inner
           its == b \cup inner
           refs == RefsOf("filter", its)
<1> HIDE DEF mine, its
<1>15. refs = [id |-> OnHeap(On(its, {1})), source |-> OnHeap(On(its, {2})),
               spec_version |-> OnHeap(On(its, {3})), type |-> OnHeap(On(its, {4})),
               attributes |-> OnHeap(On(its, {5})), data |-> OnHeap(On(its, {6, 7, 8}))]
  BY DEF RefsOf
<1>16. RefsOf("filter", mine) =
          [id |-> {}, source |-> OnHeap(On(its, {2})),
           spec_version |-> OnHeap(On(its, {3})), type |-> OnHeap(On(its, {4})),
           attributes |-> OnHeap(On(its, {5})), data |-> OnHeap(On(its, {6, 7, 8}))]
  BY <1>13, <1>14 DEF RefsOf, mine, its
<1>17. RefsOf("filter", mine) = [refs EXCEPT !["id"] = {}]
  BY <1>15, <1>16
<1> QED
  BY <1>8, <1>9, <1>17 DEF mine, its

-----------------------------------------------------------------------------
(* What a struct has is where the struct is. *)
LEMMA OwnsAt ==
    ASSUME NEW h, NEW p, NEW at, NEW x \in Owns(h, [path |-> p, at |-> at])
    PROVE  x.path = p
BY DEF Owns

(* The parts of response's result. *)
LEMMA ExtendedParts ==
    ASSUME NEW wire, TreeFits("SpringMessage", wire), NEW h, NEW n, HoldsTree(h, n, wire),
           NEW r, HoldsExtended(h, n, r, wire), Depth >= 1
    PROVE  Parts(h, Top(r)) =
               Owns(h, Visit(r, <<>>)) \cup Inner(h, n, wire)
                   \cup Owns(h, [path |-> HeaderAt(Count(wire) + 1), at |-> Top(r + 2)])
<1> DEFINE new == HeaderAt(Count(wire) + 1)
           paths == ExtendedPaths(wire)
           at == ExtendedAt(n, r, wire)
           visit(p) == [path |-> p, at |-> at[p]]
<1>1. new \notin DOMAIN wire /\ new # <<>>
  BY NewHeader
<1>2. Walk(h, paths, at, ExtendedSteps(wire))
  BY ExtendedWalk
<1>3. <<>> \in DOMAIN wire
  BY DEF TreeFits
<1>4. /\ at[<<>>] = Top(r) /\ at[new] = Top(r + 2)
      /\ \A p \in DOMAIN wire : p # <<>> => at[p] = At(n, p, 0)
  BY <1>1, <1>3 DEF ExtendedPaths, ExtendedAt
<1>5. paths = DOMAIN wire \cup {new}
  BY DEF ExtendedPaths
<1> HIDE DEF paths, at, new
<1>6. Reached(h, Top(r)) = {visit(p) : p \in paths}
  BY <1>2, <1>4, WalkReached
<1>7. /\ visit(<<>>) = Visit(r, <<>>) /\ visit(new) = [path |-> new, at |-> Top(r + 2)]
      /\ \A p \in DOMAIN wire \ {<<>>} : visit(p) = Visit(n, p)
  BY <1>4 DEF Visit, Top
<1> HIDE DEF visit
<1>8. Parts(h, Top(r)) = UNION {Owns(h, visit(p)) : p \in paths}
  <2>1. Parts(h, Top(r)) = UNION {Owns(h, v) : v \in {visit(p) : p \in paths}}
    BY <1>6 DEF Parts
  <2> QED
    BY <2>1
<1> DEFINE has(p) == Owns(h, visit(p))
<1>9. \A p \in DOMAIN wire \ {<<>>} : has(p) = Owns(h, Visit(n, p))
  BY <1>7
<1>10. has(<<>>) = Owns(h, Visit(r, <<>>)) /\ has(new) = Owns(h, [path |-> new, at |-> Top(r + 2)])
  BY <1>7
<1>11. Parts(h, Top(r)) = UNION {has(p) : p \in paths}
  BY <1>8
<1> HIDE DEF has
<1>12. \A x : x \in Inner(h, n, wire) <=> \E p \in DOMAIN wire \ {<<>>} : x \in has(p)
  BY <1>9 DEF Inner
<1>13. \A x : x \in Parts(h, Top(r)) <=> x \in has(<<>>) \/ x \in Inner(h, n, wire) \/ x \in has(new)
  BY <1>3, <1>5, <1>11, <1>12
<1>14. Parts(h, Top(r)) = has(<<>>) \cup Inner(h, n, wire) \cup has(new)
  BY <1>13
<1> QED
  BY <1>10, <1>14 DEF new

(* The header's key and value are constants of the program. *)
LEMMA AddedOwns ==
    ASSUME NEW h, NEW p, NEW at, IsAllocated(h, at), IsAdded(Object(h, at))
    PROVE  \A x \in Owns(h, [path |-> p, at |-> at]) :
               x = [path |-> p, field |-> 0, at |-> at] \/ x.at[1] # "heap"
<1> DEFINE s == Object(h, at)
           table == DescriptorOf(EntryName).fields
           one == <<<<"static", "one">>>>
           two == <<<<"static", "two">>>>
<1>1. EntryName \in Messages
  BY DEF EntryName, Messages
<1>2. s.of = EntryName /\ s.at["key"] = one /\ s.at["value"] = two
  BY DEF IsAdded
<1>3. one[1][1] = "static" /\ two[1][1] = "static"
  OBVIOUS
<1>4. /\ DOMAIN table = {1, 2}
      /\ table[1].type = "string" /\ table[1].member = "key"
      /\ table[2].type = "string" /\ table[2].member = "value"
  BY HeadersEntryRows DEF Row, EntryName
<1> HIDE DEF s, one, two, table
<1>5. \A x : x \in Owns(h, [path |-> p, at |-> at]) =>
                 \/ x = [path |-> p, field |-> 0, at |-> at]
                 \/ \E id \in DOMAIN table : x = OwnPart(p, s, table[id])
  BY <1>1, <1>2, OwnsBy DEF s, table
<1>6. ASSUME NEW id \in DOMAIN table
      PROVE  OwnPart(p, s, table[id]).at[1] = "static"
  <2>1. OwnPart(p, s, table[id]).at = Pointer(table[id], s.at[table[id].member])
    BY DEF OwnPart
  <2>2. Pointer(table[id], s.at[table[id].member]) \in {one[1], two[1]}
    BY <1>2, <1>4 DEF Pointer
  <2> QED
    BY <1>3, <2>1, <2>2
<1> QED
  BY <1>5, <1>6

ExtendedRefs(refs, r) ==
    [payload |-> refs.payload, headers |-> {Block(r + 1)}, entries |-> refs.entries \cup {Block(r + 2)}]

(* The array of response's result is its own, and the message's headers hang *)
(* on it with a new one.                                                     *)
LEMMA ResponseRefs ==
    ASSUME NEW f, f # "filter", NEW wire, TreeFits("SpringMessage", wire), NEW h, NEW n,
           HoldsTree(h, n, wire), NEW r, HoldsExtended(h, n, r, wire), Depth >= 1
    PROVE  RefsOf(f, Parts(h, Top(r))) = ExtendedRefs(RefsOf(f, MessageParts(n, wire)), r)
<1> DEFINE refs == RefsOf(f, MessageParts(n, wire))
           name == "SpringMessage"
           D == DescriptorOf(name)
           k == Count(wire)
           new == HeaderAt(k + 1)
           s == h.objects[Block(r)]
           t == h.objects[Block(n)]
           header == h.objects[Block(r + 2)]
           inner == Inner(h, n, wire)
           a == Owns(h, Visit(r, <<>>))
           b == Owns(h, Visit(n, <<>>))
           added == Owns(h, [path |-> new, at |-> Top(r + 2)])
           mine == a \cup inner \cup added
           its == b \cup inner
           root == <<>>
           array == [path |-> root, field |-> 2, at |-> Top(r + 1)]
           entry == [path |-> new, field |-> 0, at |-> Top(r + 2)]
<1>1. /\ Block(n) \in DOMAIN h.objects /\ t.of = name /\ name \in Messages
      /\ Parts(h, Top(n)) = MessageParts(n, wire)
  BY RootOf
<1>2. /\ IsAllocated(h, Top(r)) /\ Object(h, Top(r)) = s /\ s.of = name /\ Block(r) \in DOMAIN h.objects
      /\ IsAllocated(h, Top(r + 2)) /\ Object(h, Top(r + 2)) = header /\ IsAdded(header)
      /\ s.at["payload"] = t.at["payload"]
      /\ s.at["n_headers"] = <<<<"int", k + 1>>>> /\ s.at["headers"] = <<Top(r + 1)>>
  BY AddressesAt DEF HoldsExtended, Top, Block, Shares
<1>3. /\ DOMAIN D.fields = {1, 2}
      /\ D.fields[1].id = 1 /\ D.fields[1].type = "bytes" /\ D.fields[1].member = "payload"
      /\ D.fields[1].quantifier = ""
      /\ D.fields[2].id = 2 /\ D.fields[2].type = "message" /\ D.fields[2].label = "repeated"
      /\ D.fields[2].member = "headers" /\ D.fields[2].quantifier = "n_headers"
  BY SpringRows DEF Row
<1>4. k \in Nat /\ new # <<>> /\ new[1][1] = 2
  <2>1. k \in Nat
    BY HeadersOf
  <2>2. new = <<<<2, k + 1>>>>
    BY DEF HeaderAt
  <2>3. new[1][1] = 2 /\ new # <<>>
    BY <2>2
  <2> QED
    BY <2>1, <2>3
<1>5. /\ Parts(h, Top(r)) = mine /\ MessageParts(n, wire) = its
  BY <1>1, PartsSplit, ExtendedParts
<1>6. s.at["n_headers"][1] # Zero /\ s.at["headers"][1] = Top(r + 1)
  <2>1. s.at["n_headers"][1][2] = k + 1 /\ k + 1 # 0
    BY <1>2, <1>4, IntWord
  <2>2. Zero[2] = 0
    BY DEF Zero
  <2> QED
    BY <1>2, <2>1, <2>2, OneWord
<1>7. /\ Visit(r, <<>>) = [path |-> root, at |-> Top(r)]
      /\ Visit(n, <<>>) = [path |-> root, at |-> Top(n)]
  BY DEF Visit, Top
<1> HIDE DEF D, k, new, s, t, header, name, root, inner
<1>8. /\ \A x \in a : x.path = root
      /\ \A x \in b : x.path = root
      /\ \A x \in added : x.path = new
  BY <1>7, OwnsAt
<1>9. \A x \in inner : x.path # root
  BY InnerAt DEF inner, root, name
<1>10. \A x : x \in a /\ HangsOn(x, 2) <=> x = array
  <2>1. \A x : x \in a <=> \/ x = [path |-> root, field |-> 0, at |-> Top(r)]
                           \/ \E id \in DOMAIN D.fields : IsOwned(s, D.fields[id]) /\ x = OwnPart(root, s, D.fields[id])
    <3>1. Object(h, Top(r)).of = name
      BY <1>2
    <3>2. a = Owns(h, [path |-> root, at |-> Top(r)])
      BY <1>7 DEF a
    <3> HIDE DEF a
    <3>3. \A x : x \in Owns(h, [path |-> root, at |-> Top(r)]) <=>
              \/ x = [path |-> root, field |-> 0, at |-> Top(r)]
              \/ \E id \in DOMAIN D.fields : IsOwned(s, D.fields[id]) /\ x = OwnPart(root, s, D.fields[id])
      BY <1>1, <1>2, <3>1, OwnsBy DEF D
    <3> QED
      BY <3>2, <3>3
  <2>2. OwnPart(root, s, D.fields[2]) = array /\ IsOwned(s, D.fields[2])
    BY <1>3, <1>6 DEF OwnPart, IsOwned, Pointer
  <2>3. OwnPart(root, s, D.fields[1]).field = 1 /\ OwnPart(root, s, D.fields[1]).path = root
    BY <1>3 DEF OwnPart
  <2>4. HangsOn(array, 2) /\ \A y : ~HangsOn([path |-> root, field |-> 0, at |-> y], 2)
    BY DEF HangsOn, root
  <2>5. \A x : HangsOn(x, 2) /\ x.path = root => x.field = 2
    BY DEF HangsOn, root
  <2> HIDE DEF a, array
  <2> QED
    BY <1>3, <2>1, <2>2, <2>3, <2>4, <2>5
<1>11. \A x : HangsOn(x, 1) => (x \in a <=> x \in b)
  <2>1. SameMembers(s, t, D.fields[1])
    BY <1>2, <1>3 DEF SameMembers
  <2> QED
    BY <1>1, <1>2, <2>1, OwnsShared DEF D, s, t, name
<1>12. \A x \in added : HangsOn(x, 2) /\ ~HangsOn(x, 1)
  BY <1>4, <1>8 DEF HangsOn
<1>13. entry \in added /\ \A x \in added : x = entry \/ x.at[1] # "heap"
  <2>1. \A x \in added : x = entry \/ x.at[1] # "heap"
    BY <1>2, AddedOwns
  <2>2. entry \in added
    BY DEF Owns
  <2> QED
    BY <2>1, <2>2
<1>14. /\ Top(r + 1)[1] = "heap" /\ Top(r + 1)[2] = Block(r + 1)
       /\ Top(r + 2)[1] = "heap" /\ Top(r + 2)[2] = Block(r + 2)
  BY DEF Top, At, Block
<1>15. array.path = root /\ array.at = Top(r + 1) /\ entry.at = Top(r + 2) /\ entry.path = new
  OBVIOUS
<1> HIDE DEF a, b, added, array, entry
<1>16. OnHeap(On(mine, {1})) = OnHeap(On(its, {1}))
  <2>1. On(mine, {1}) = On(its, {1})
    BY <1>11, <1>12 DEF On
  <2> QED
    BY <2>1
<1>17. AtTop(On(mine, {2})) = {array}
  BY <1>4, <1>8, <1>9, <1>10, <1>15 DEF AtTop, On, root
<1>18. On(mine, {2}) \ AtTop(On(mine, {2})) = On(inner, {2}) \cup added
  BY <1>4, <1>8, <1>9, <1>12 DEF AtTop, On, root
<1>19. On(its, {2}) \ AtTop(On(its, {2})) = On(inner, {2})
  BY <1>8, <1>9 DEF AtTop, On, root
<1>20. OnHeap({array}) = {Block(r + 1)}
  BY <1>14, <1>15 DEF OnHeap
<1>21. OnHeap(On(inner, {2}) \cup added) = OnHeap(On(inner, {2})) \cup {Block(r + 2)}
  BY <1>13, <1>14, <1>15 DEF OnHeap
<1> HIDE DEF mine, its
<1>22. /\ refs.payload = OnHeap(On(its, {1})) /\ refs.entries = OnHeap(On(inner, {2}))
  BY <1>5, <1>19 DEF RefsOf
<1>23. RefsOf(f, mine) = [payload |-> OnHeap(On(its, {1})), headers |-> {Block(r + 1)},
                          entries |-> OnHeap(On(inner, {2})) \cup {Block(r + 2)}]
  BY <1>16, <1>17, <1>18, <1>20, <1>21 DEF RefsOf
<1> QED
  BY <1>5, <1>22, <1>23 DEF ExtendedRefs

-----------------------------------------------------------------------------
(* A result: with response, headers and the array are its own. *)
ResultStruct(function, n, r, wire) ==
    LET refs == RefsOf(function, MessageParts(n, wire))
        says == Content(function, wire)
    IN IF function = "filter"
       THEN [at |-> Block(r), refs |-> [refs EXCEPT !["id"] = {}], says |-> [says EXCEPT !["id"] = "1-5150"]]
       ELSE IF function = "response"
       THEN [at |-> Block(r),
             refs |-> ExtendedRefs(refs, r),
             says |-> [says EXCEPT !["headers"] = Append(HeadersOn(wire), NewEntry)]]
       ELSE [at |-> Block(r), refs |-> refs, says |-> says]

(* What GuestObjects sees of a result, and what it says. *)
LEMMA ResultSeen ==
    ASSUME NEW f \in Exports \ {"predicate"}, NEW wire, TreeFits(TypeOf(f).descriptor, wire),
           NEW h, NEW n, HoldsTree(h, n, wire), NEW r, HoldsResult(f, h, n, r, wire)
    PROVE  /\ Struct(f, h, Top(r)) = ResultStruct(f, n, r, wire)
           /\ Content(f, ResultWire(f, wire)) = ResultStruct(f, n, r, wire).says
<1> DEFINE refs == RefsOf(f, MessageParts(n, wire))
           says == Content(f, wire)
<1>1. Block(r) \in DOMAIN h.objects /\ h.objects[Block(r)].of = TypeOf(f).descriptor
  BY DEF HoldsResult, MadeFor
<1>2. IsAllocated(h, Top(r)) /\ Top(r)[2] = Block(r)
  BY <1>1, Blocks, AddressesAt DEF Top, Block
<1>3. PackMessage(h, Top(r)) = ResultWire(f, wire)
  BY ResultPacked
<1>4. Struct(f, h, Top(r)) = [at |-> Block(r), refs |-> RefsOf(f, Parts(h, Top(r))),
                              says |-> Content(f, ResultWire(f, wire))]
  BY <1>2, <1>3, StructSeen
<1>5. CASE f = "filter"
  <2>1. TreeFits("CloudEvent", wire) /\ h.objects[Block(r)].of = "CloudEvent"
    BY <1>1, <1>5, TypesOf
  <2>2. Shares(h, r, n, EventMembers) /\ h.objects[Block(r)].at["id"] = <<<<"static", "1-5150">>>>
    BY <1>5 DEF HoldsResult
  <2>3. RefsOf("filter", Parts(h, Top(r))) = [RefsOf("filter", MessageParts(n, wire)) EXCEPT !["id"] = {}]
    BY <1>1, <2>1, <2>2, FilterRefs
  <2>4. ResultWire(f, wire) = RenamedWire(wire)
    BY <1>5 DEF ResultWire
  <2>5. Content("filter", RenamedWire(wire)) = [Content("filter", wire) EXCEPT !["id"] = "1-5150"]
    BY <2>1, FilterContent
  <2> QED
    BY <1>4, <1>5, <2>3, <2>4, <2>5 DEF ResultStruct
<1>6. CASE f = "response"
  <2>1. TreeFits("SpringMessage", wire) /\ HoldsExtended(h, n, r, wire) /\ Depth >= 1
    BY <1>6, TypesOf, DepthSuffices DEF HoldsResult
  <2>2. RefsOf(f, Parts(h, Top(r))) = ExtendedRefs(refs, r)
    <3>1. f # "filter"
      BY <1>6
    <3> QED
      BY <2>1, <3>1, ResponseRefs
  <2>3. ResultWire(f, wire) = ExtendedWire(wire)
    BY <1>6 DEF ResultWire
  <2>4. Content("response", ExtendedWire(wire)) =
            [Content("response", wire) EXCEPT !["headers"] = Append(HeadersOn(wire), NewEntry)]
    BY <2>1, ResponseContent
  <2>5. f # "filter"
    BY <1>6
  <2> QED
    BY <1>4, <1>6, <2>2, <2>3, <2>4, <2>5 DEF ResultStruct
<1>7. CASE f = "request"
  <2>1. TreeFits("SpringMessage", wire) /\ h.objects[Block(r)].of = "SpringMessage" /\ f # "filter"
        /\ Shares(h, r, n, SpringMembers)
    BY <1>1, <1>7, TypesOf DEF HoldsResult
  <2>2. RefsOf(f, Parts(h, Top(r))) = refs
    BY <1>1, <2>1, RequestRefs
  <2>3. ResultWire(f, wire) = Meant(wire)
    BY <1>7 DEF ResultWire
  <2>4. Content(f, Meant(wire)) = Content(f, wire)
    BY <2>1, SpringMeant
  <2> QED
    BY <1>4, <1>7, <2>2, <2>3, <2>4 DEF ResultStruct
<1>8. Struct(f, h, Top(r)) = ResultStruct(f, n, r, wire)
  BY <1>5, <1>6, <1>7, ExportsAssumption
<1>9. Struct(f, h, Top(r)).says = Content(f, ResultWire(f, wire))
  BY <1>4
<1> QED
  BY <1>8, <1>9

(* It hangs on objects of the message and on what the function made. *)
LEMMA ResultObjects ==
    ASSUME NEW f, NEW wire, TreeFits(TypeOf(f).descriptor, wire), NEW n \in Nat, NEW r
    PROVE  Objects!Objects(ResultStruct(f, n, r, wire)) \subseteq Made(n, wire) \cup MadeFor(f, r)
<1> DEFINE refs == RefsOf(f, MessageParts(n, wire))
           struct == ResultStruct(f, n, r, wire)
           all == Made(n, wire) \cup MadeFor(f, r)
<1>1. Objects!Objects(MessageStruct(f, n, wire)) = Made(n, wire)
  BY MessageObjects
<1>2. \A p \in DOMAIN refs : refs[p] \subseteq Made(n, wire)
  <2>1. MessageStruct(f, n, wire).refs = refs
    BY DEF MessageStruct
  <2> HIDE DEF refs
  <2> QED
    BY <1>1, <2>1 DEF Objects!Objects
<1>3. Block(r) \in all /\ (f = "response" => {Block(r + 1), Block(r + 2)} \subseteq all)
  BY DEF MadeFor
<1>4. f = "filter" => DOMAIN refs = {"id", "source", "spec_version", "type", "attributes", "data"}
  BY DEF RefsOf
<1>5. f # "filter" => DOMAIN refs = {"payload", "headers", "entries"}
  BY DEF RefsOf
<1>6. struct.at = Block(r) /\ \A p \in DOMAIN struct.refs : struct.refs[p] \subseteq all
  <2> HIDE DEF refs, all
  <2>1. CASE f = "filter"
    <3>1. struct.at = Block(r) /\ struct.refs = [refs EXCEPT !["id"] = {}]
      BY <2>1 DEF ResultStruct, refs
    <3> HIDE DEF struct
    <3>2. DOMAIN struct.refs = DOMAIN refs /\ \A p \in DOMAIN refs : struct.refs[p] \in {{}, refs[p]}
      BY <3>1
    <3> QED
      BY <1>2, <3>1, <3>2 DEF all
  <2>2. CASE f = "response"
    <3>1. struct.at = Block(r)
          /\ struct.refs = [payload |-> refs.payload, headers |-> {Block(r + 1)},
                            entries |-> refs.entries \cup {Block(r + 2)}]
      BY <2>2 DEF ResultStruct, ExtendedRefs, refs
    <3> HIDE DEF struct
    <3>2. /\ DOMAIN struct.refs = {"payload", "headers", "entries"}
          /\ struct.refs["payload"] = refs["payload"] /\ struct.refs["headers"] = {Block(r + 1)}
          /\ struct.refs["entries"] = refs["entries"] \cup {Block(r + 2)}
      BY <3>1
    <3>3. refs["payload"] \subseteq all /\ refs["entries"] \subseteq all
      BY <1>2, <1>5, <2>2 DEF all
    <3> QED
      BY <1>3, <2>2, <3>1, <3>2, <3>3
  <2>3. CASE f \notin {"filter", "response"}
    <3>1. struct.at = Block(r) /\ struct.refs = refs
      BY <2>3 DEF ResultStruct, refs
    <3> HIDE DEF struct
    <3> QED
      BY <1>2, <3>1 DEF all
  <2> QED
    BY <2>1, <2>2, <2>3
<1> HIDE DEF struct, all
<1>7. Objects!Objects(struct) \subseteq all
  BY <1>3, <1>6 DEF Objects!Objects
<1> QED
  BY <1>7 DEF struct, all

-----------------------------------------------------------------------------
(* What GuestObjects sees is always that of the latest state. *)
SeenInv ==
    seen = Seen(IF pc = "idle" THEN Nothing ELSE call.function, input, pc, heap, msg, result, buffer)

Answered == ResultStruct(call.function, Number(msg), Number(result), input)

(* That is: the content of the message, the message as it was unpacked, the *)
(* result as it was built, and what the result says once it is packed.      *)
Told ==
    /\ seen.input = IF pc = "idle" THEN Nothing ELSE Content(call.function, input)
    /\ seen.msg = IF pc \in {"idle", "called"} THEN Nothing
                  ELSE MessageStruct(call.function, Number(msg), input)
    /\ seen.result = IF pc \in {"idle", "called", "unpacked"} THEN Nothing ELSE Answered
    /\ seen.buffer = IF pc \in {"measured", "packed"} THEN Block(Number(buffer)) ELSE Nothing
    /\ seen.packed = IF pc = "packed" THEN Answered.says ELSE Nothing

(* It follows from the invariant. *)
LEMMA SeenTells == GuestInv /\ SeenInv => Told
<1> SUFFICES ASSUME GuestInv, SeenInv PROVE Told
  OBVIOUS
<1>1. pc # "idle" => call.function \in Exports /\ TreeFits(TypeOf(call.function).descriptor, input)
  BY DEF GuestInv, Type
<1>2. seen = Seen(IF pc = "idle" THEN Nothing ELSE call.function, input, pc, heap, msg, result, buffer)
  BY DEF SeenInv
<1>3. pc \in {"idle", "called", "unpacked", "built", "measured", "packed"}
  BY DEF GuestInv
<1>4. pc \notin {"idle", "called"} =>
          Struct(call.function, heap, msg) = MessageStruct(call.function, Number(msg), input)
  <2> SUFFICES ASSUME pc \notin {"idle", "called"}
               PROVE  Struct(call.function, heap, msg) = MessageStruct(call.function, Number(msg), input)
    OBVIOUS
  <2> DEFINE n == Number(msg)
  <2>1. HoldsTree(heap, n, input) /\ msg = Top(n)
    BY <1>3 DEF GuestInv, HoldsBuffer, HoldsBuilt, HoldsMessage, IsTop
  <2> HIDE DEF n
  <2>2. Struct(call.function, heap, Top(n)) = MessageStruct(call.function, n, input)
    BY <1>1, <2>1, MessageSeen
  <2> QED
    BY <2>1, <2>2 DEF n
<1>5. pc \notin {"idle", "called", "unpacked"} =>
          /\ Struct(call.function, heap, result) = Answered
          /\ Content(call.function, ResultWire(call.function, input)) = Answered.says
  <2> SUFFICES ASSUME pc \notin {"idle", "called", "unpacked"}
               PROVE  /\ Struct(call.function, heap, result) = Answered
                      /\ Content(call.function, ResultWire(call.function, input)) = Answered.says
    OBVIOUS
  <2> DEFINE n == Number(msg)
             r == Number(result)
             f == call.function
  <2>1. /\ HoldsTree(heap, n, input) /\ HoldsResult(f, heap, n, r, input)
        /\ result = Top(r) /\ f \in Exports \ {"predicate"}
    BY <1>1, <1>3 DEF GuestInv, HoldsBuffer, HoldsBuilt, HoldsMessage, IsTop
  <2>2. TreeFits(TypeOf(f).descriptor, input)
    BY <1>1
  <2> HIDE DEF n, r, f
  <2>3. /\ Struct(f, heap, Top(r)) = ResultStruct(f, n, r, input)
        /\ Content(f, ResultWire(f, input)) = ResultStruct(f, n, r, input).says
    BY <2>1, <2>2, ResultSeen
  <2> QED
    BY <2>1, <2>3 DEF Answered, n, r, f
<1>6. pc \in {"measured", "packed"} => buffer[2] = Block(Number(buffer))
  <2> SUFFICES ASSUME pc \in {"measured", "packed"} PROVE buffer[2] = Block(Number(buffer))
    OBVIOUS
  <2> DEFINE b == Number(buffer)
  <2>1. buffer = Top(b)
    BY DEF GuestInv, HoldsBuffer, IsTop
  <2> HIDE DEF b
  <2>2. Top(b)[2] = Block(b)
    BY Blocks
  <2> QED
    BY <2>1, <2>2 DEF b
<1>7. pc = "packed" => Object(heap, buffer).bytes = ResultWire(call.function, input)
  BY DEF GuestInv
<1> DEFINE f == IF pc = "idle" THEN Nothing ELSE call.function
<1> HIDE DEF f
<1>8. /\ seen.input = IF pc = "idle" THEN Nothing ELSE Content(f, input)
      /\ seen.msg = IF pc \in {"idle", "called"} THEN Nothing ELSE Struct(f, heap, msg)
      /\ seen.result = IF pc \in {"idle", "called", "unpacked"} THEN Nothing ELSE Struct(f, heap, result)
      /\ seen.buffer = IF pc \in {"measured", "packed"} THEN buffer[2] ELSE Nothing
      /\ seen.packed = IF pc # "packed" THEN Nothing ELSE Content(f, Object(heap, buffer).bytes)
  BY <1>2 DEF Seen, f
<1>9. pc # "idle" => f = call.function
  BY DEF f
<1> QED
  BY <1>3, <1>4, <1>5, <1>6, <1>7, <1>8, <1>9 DEF Told

(* It is kept with every step. *)
LEMMA SeenNext == SeenInv /\ [Next]_vars => SeenInv'
<1> SUFFICES ASSUME SeenInv, [Next]_vars PROVE SeenInv'
  OBVIOUS
<1>1. CASE Next
  BY <1>1 DEF Next, SeenInv
<1>2. CASE UNCHANGED vars
  BY <1>2 DEF vars, guest, SeenInv
<1> QED
  BY <1>1, <1>2

(* At first there is nothing to see. *)
LEMMA SeenInit == Init => SeenInv
BY DEF Init, SeenInv, Seen

-----------------------------------------------------------------------------
(* What the functions take is new. *)
LEMMA NewBlocks ==
    ASSUME NEW h, HeapOk(h), NEW f
    PROVE  /\ MadeFor(f, h.next) \cap DOMAIN h.objects = {}
           /\ Block(h.next) # Block(h.next + 1) /\ Block(h.next) # Block(h.next + 2)
           /\ Block(h.next + 1) # Block(h.next + 2)
<1>1. h.next \in Nat
  BY DEF HeapOk
<1>2. /\ h.next # h.next + 1 /\ h.next # h.next + 2 /\ h.next + 1 # h.next + 2
      /\ ~(h.next < h.next) /\ ~(h.next + 1 < h.next) /\ ~(h.next + 2 < h.next)
  BY <1>1
<1>3. \A k : Block(k) \in DOMAIN h.objects => k < h.next
  <2>1. \A k : Block(k)[1] = k
    BY Blocks
  <2> QED
    BY <2>1 DEF HeapOk
<1>4. \A k, m : Block(m) = Block(k) => m = k
  BY Blocks
<1>5. \A a \in MadeFor(f, h.next) : a \in {Block(h.next), Block(h.next + 1), Block(h.next + 2)}
  BY DEF MadeFor
<1> QED
  BY <1>2, <1>3, <1>4, <1>5

(* A block is an address. *)
LEMMA BlockAt ==
    ASSUME NEW n \in Nat
    PROVE  Block(n) \in Nat \X Seq(Nat \X Nat) \X Nat
<1>1. <<>> \in Seq(Nat \X Nat)
  OBVIOUS
<1> DEFINE root == <<>>
<1> HIDE DEF root
<1>2. <<n, root, 0>> \in Nat \X Seq(Nat \X Nat) \X Nat
  BY <1>1 DEF root
<1> QED
  BY <1>2 DEF Block, root

(* What of the heap the message and the result take. *)
LEMMA HeldObjects ==
    ASSUME NEW name, TreeFits(name, input), HoldsMessage
    PROVE  Made(Number(msg), input) \subseteq DOMAIN heap.objects
BY MadeIsHeld DEF HoldsMessage

-----------------------------------------------------------------------------
(* Addresses has all there are: TLC takes those of a few messages, which *)
(* bounds the objects of a run.                                          *)
Unbounded == (Nat \X Seq(Nat \X Nat) \X Nat) \subseteq Addresses

(* Java reads the same of a message in either module. *)
LEMMA SameMessage == \A f, c : Objects!JavaMessage(f, c) = JavaMessage(f, c)
BY DEF Objects!JavaMessage, Objects!HeadersIn, JavaMessage, HeadersIn

(* What is not taken is not seen. *)
LEMMA OwnSame == own' = own => {word[2] : word \in own'} = {word[2] : word \in own}
OBVIOUS

(* Every step of a function is one of GuestObjects. *)
LEMMA CalledSeen == Told /\ Told' /\ Called => Objects!Called
<1> SUFFICES ASSUME Told, Told', Called PROVE Objects!Called
  OBVIOUS
<1>1. PICK f \in Exports : \E wire \in Encodings(f) :
         /\ call' = [function |-> f, message |-> JavaMessage(f, Content(f, wire))]
         /\ input' = wire
  BY DEF Called
<1>2. PICK wire \in Encodings(f) :
         /\ call' = [function |-> f, message |-> JavaMessage(f, Content(f, wire))]
         /\ input' = wire
  BY <1>1
<1>3. /\ pc = "idle" /\ pc' = "called" /\ heap' = heap /\ own' = own /\ reply' = Nothing
  BY DEF Called
<1>4. /\ seen.msg = Nothing /\ seen.result = Nothing /\ seen.buffer = Nothing /\ seen.packed = Nothing
  BY <1>3 DEF Told
<1>5. /\ seen'.msg = Nothing /\ seen'.result = Nothing /\ seen'.buffer = Nothing /\ seen'.packed = Nothing
      /\ seen'.input = Content(call'.function, input')
  BY <1>3 DEF Told
<1>6. call'.function = f
  BY <1>2
<1> DEFINE c == Content(f, wire)
<1>7. /\ call' = [function |-> f, message |-> Objects!JavaMessage(f, c)] /\ seen'.input = c
      /\ c \in {Content(f, w) : w \in Encodings(f)}
  BY <1>2, <1>5, <1>6, SameMessage
<1> HIDE DEF c
<1> QED
  BY <1>3, <1>4, <1>5, <1>7 DEF Objects!Called

(* unpack *)
LEMMA UnpacksSeen == Unbounded /\ GuestInv /\ Told /\ Told' /\ Unpacks => Objects!Unpacks
<1> SUFFICES ASSUME Unbounded, GuestInv, Told, Told', Unpacks PROVE Objects!Unpacks
  OBVIOUS
<1> DEFINE n == heap.next
           f == call.function
           struct == MessageStruct(f, n, input)
<1>1. /\ pc = "called" /\ pc' = "unpacked" /\ heap' = Unpack(Type, heap, input)
      /\ msg' = Top(n) /\ call' = call /\ input' = input /\ own' = own /\ reply' = reply
      /\ HeapOk(heap) /\ f \in Exports /\ TreeFits(Type.descriptor, input) /\ n \in Nat
  BY DEF Unpacks, GuestInv, HeapOk
<1>2. /\ seen.result = Nothing /\ seen.buffer = Nothing /\ seen.packed = Nothing
      /\ seen.input = Content(f, input)
  BY <1>1 DEF Told
<1>3. Number(msg') = n
  BY <1>1, Numbers
<1>4. /\ seen'.result = Nothing /\ seen'.buffer = Nothing /\ seen'.packed = Nothing
      /\ seen'.input = Content(f, input) /\ seen'.msg = struct
  BY <1>1, <1>3 DEF Told
<1>5. TreeFits(TypeOf(f).descriptor, input)
  BY <1>1 DEF Type
<1>6. DOMAIN heap'.objects = Made(n, input) \cup DOMAIN heap.objects
  <2>1. heap = [objects |-> heap.objects, next |-> heap.next, fault |-> heap.fault]
    BY <1>1 DEF HeapOk
  <2> QED
    BY <1>1, <2>1, UnpackMakes
<1>7. Made(n, input) \cap DOMAIN heap.objects = {}
  <2>1. \A a \in Made(n, input) : a[1] = n
    BY DEF Made
  <2> QED
    BY <1>1, <2>1 DEF HeapOk
<1> HIDE DEF n, f
<1>8. Objects!Objects(struct) = Made(n, input)
  BY <1>1, <1>5, MessageObjects
<1>9. Made(n, input) \subseteq Addresses /\ Block(n) \in Addresses
  BY <1>1, <1>5, MadeAt DEF Unbounded
<1>10. struct \in [at : Addresses,
                   refs : {RefsOf(f, MessageParts(n, input))}, says : {Content(f, input)}]
  BY <1>9 DEF MessageStruct
<1>11. RefsOf(f, MessageParts(n, input)) \in
          [(IF f = "filter" THEN EventParts ELSE {"payload", "headers", "entries"}) -> SUBSET Addresses]
  <2>1. \A part \in MessageParts(n, input) : part.at[2] \in Addresses
    <3>1. \A a : Part(n, a).at[2] = <<n, a[2], a[3]>>
      BY DEF Part, At
    <3>2. \A a \in Made(n, input) : a = <<n, a[2], a[3]>>
      BY <1>1, <1>5, MadeAt
    <3> QED
      BY <1>9, <3>1, <3>2 DEF MessageParts
  <2> QED
    BY <2>1, RefsTyped
<1> HIDE DEF struct
<1> DEFINE layouts == [g \in Exports |->
                          [(IF g = "filter" THEN EventParts ELSE {"payload", "headers", "entries"})
                           -> SUBSET Addresses]]
<1>12. layouts[f] = [(IF f = "filter" THEN EventParts ELSE {"payload", "headers", "entries"})
                     -> SUBSET Addresses]
  BY <1>1
<1> HIDE DEF layouts
<1>13. struct \in [at : Addresses, refs : layouts[call.function], says : {seen.input}]
  BY <1>2, <1>10, <1>11, <1>12 DEF f
<1> QED
  BY <1>1, <1>2, <1>4, <1>6, <1>7, <1>8, <1>13, OwnSame DEF Objects!Unpacks, layouts

(* The key of a header as predicate reads it. *)
LEMMA KeyText ==
    ASSUME NEW n, HoldsTree(heap, n, input), TreeFits("SpringMessage", input), NEW i \in 1..Count(input)
    PROVE  Text(Member(heap, At(n, HeaderAt(i), 0), "key")[1]) = TextIn(input, HeaderAt(i), 1)
<1> DEFINE p == HeaderAt(i)
           s == heap.objects[<<n, p, 0>>]
           fields == input[p].fields
           f == DescriptorOf(EntryName).fields[1]
<1>1. p \in DOMAIN input /\ input[p].of = EntryName
  BY HeadersInTree
<1>2. StructFits(heap, s, n, p, EntryName, fields) /\ FieldsFit(EntryName, fields)
  BY <1>1, FieldsOf DEF HoldsTree
<1>3. /\ 1 \in DOMAIN DescriptorOf(EntryName).fields
      /\ f.type = "string" /\ f.label = "none" /\ f.member = "key" /\ f.default = EmptyString
      /\ ~IsOneOf(f)
  BY HeadersEntryRows DEF Row, EntryName, IsOneOf
<1>4. Object(heap, At(n, p, 0)) = s
  BY AddressesAt
<1> HIDE DEF p, s, f, fields
<1>5. Member(heap, At(n, p, 0), "key")[1] = s.at["key"][1]
  BY <1>4 DEF Member
<1>6. CASE 1 \in DOMAIN fields
  <2>1. /\ fields[1] # <<>> /\ Written(s.at, n, p, 1, f, fields[1]) /\ Kept(heap, n, p, 1, f, fields[1])
    BY <1>2, <1>3, <1>6, FieldOfStruct DEF f
  <2>2. s.at["key"][1] = At(n, p, 1)
    BY <1>3, <2>1 DEF Written
  <2>3. heap.objects[<<n, p, 1>>] = [text |-> fields[1][1][2]]
    BY <1>3, <2>1 DEF Kept, IsHeld, PartOf
  <2>4. Object(heap, At(n, p, 1)).text = fields[1][1][2]
    BY <2>3, AddressesAt
  <2>5. Text(At(n, p, 1)) = fields[1][1][2]
    <3>1. At(n, p, 1)[1] # "static"
      BY AddressesAt
    <3> QED
      BY <2>4, <3>1 DEF Text
  <2>6. TextIn(input, p, 1) = fields[1][1][2]
    BY <1>1, <1>6, <2>1 DEF TextIn, ValuesIn, fields
  <2> QED
    BY <1>5, <2>2, <2>5, <2>6 DEF p
<1>7. CASE 1 \notin DOMAIN fields
  <2>1. Unwritten(s.at, f)
    BY <1>2, <1>3, <1>7, FieldOfStruct DEF f
  <2>2. s.at["key"][1] = EmptyString
    BY <1>3, <2>1 DEF Unwritten
  <2>3. EmptyString[1] = "static" /\ EmptyString[2] = ""
    BY DEF EmptyString
  <2>4. Text(EmptyString) = ""
    BY <2>3 DEF Text
  <2>5. TextIn(input, p, 1) = ""
    BY <1>7 DEF TextIn, ValuesIn, fields
  <2> QED
    BY <1>5, <2>2, <2>4, <2>5 DEF p
<1> QED
  BY <1>6, <1>7

-----------------------------------------------------------------------------
(* A freed message: all its objects and no others are gone. *)
LEMMA FreedSeen ==
    ASSUME HeapOk(heap), TreeFits(Type.descriptor, input), HoldsMessage,
           heap' = FreeUnpacked(Type, heap, msg)
    PROVE  DOMAIN heap'.objects =
               DOMAIN heap.objects \ Objects!Objects(MessageStruct(call.function, Number(msg), input))
<1> DEFINE n == Number(msg)
<1>1. msg = Top(n) /\ n \in Nat /\ HoldsTree(heap, n, input)
  BY DEF HoldsMessage, IsTop
<1>2. heap = [objects |-> heap.objects, next |-> heap.next, fault |-> FALSE]
  BY DEF HeapOk
<1> HIDE DEF n
<1>3. DOMAIN heap'.objects = DOMAIN heap.objects \ Made(n, input)
  BY <1>1, <1>2, FreedTree DEF FreeUnpacked
<1>4. Objects!Objects(MessageStruct(call.function, n, input)) = Made(n, input)
  BY <1>1, MessageObjects DEF Type
<1> QED
  BY <1>3, <1>4 DEF n

(* predicate *)
LEMMA ScansSeen == GuestInv /\ Told /\ Told' /\ Scans => Objects!Scans
<1> SUFFICES ASSUME GuestInv, Told, Told', Scans PROVE Objects!Scans
  OBVIOUS
<1> DEFINE n == Number(msg)
           struct == MessageStruct("predicate", n, input)
           found == \E i \in DOMAIN Headers(msg) :
                        Text(Member(heap, Headers(msg)[i], "key")[1]) = "one"
           said == \E i \in DOMAIN struct.says.headers : struct.says.headers[i].key = "one"
<1>1. /\ pc = "unpacked" /\ pc' = "idle" /\ call.function = "predicate" /\ call' = Nothing /\ own' = own
      /\ heap' = FreeUnpacked(Type, heap, msg) /\ reply' = found
      /\ HeapOk(heap) /\ TreeFits(Type.descriptor, input) /\ HoldsMessage
  BY DEF Scans, GuestInv
<1>2. /\ seen.msg = struct /\ seen'.input = Nothing /\ seen'.msg = Nothing /\ seen'.result = Nothing
      /\ seen'.buffer = Nothing /\ seen'.packed = Nothing
  BY <1>1 DEF Told
<1>3. DOMAIN heap'.objects = DOMAIN heap.objects \ Objects!Objects(seen.msg)
  BY <1>1, <1>2, FreedSeen
<1>4. msg = Top(n) /\ HoldsTree(heap, n, input) /\ TreeFits("SpringMessage", input)
  BY <1>1, TypesOf DEF HoldsMessage, IsTop, Type
<1> HIDE DEF n
<1>5. struct.says.headers = HeadersOn(input)
  <2>1. struct.says = Content("predicate", input)
    BY DEF MessageStruct
  <2>2. Content("predicate", input) = [payload |-> TextIn(input, <<>>, 1), headers |-> HeadersOn(input)]
    BY SpringContent
  <2> QED
    BY <2>1, <2>2
<1>6. /\ Count(input) \in Nat /\ Headers(msg) = [i \in 1..Count(input) |-> At(n, HeaderAt(i), 0)]
  BY <1>4, HeadersFound
<1>7. DOMAIN HeadersOn(input) = 1..Count(input)
  BY <1>4, HeadersInTree DEF HeadersOn
<1>8. ASSUME NEW i \in 1..Count(input)
      PROVE  Text(Member(heap, Headers(msg)[i], "key")[1]) = HeadersOn(input)[i].key
  <2>1. Headers(msg)[i] = At(n, HeaderAt(i), 0)
    BY <1>6
  <2>2. HeadersOn(input)[i].key = TextIn(input, HeaderAt(i), 1)
    BY <1>7 DEF HeadersOn, HeaderIn
  <2> QED
    BY <1>4, <2>1, <2>2, KeyText
<1>9. DOMAIN Headers(msg) = 1..Count(input)
  BY <1>6
<1> HIDE DEF struct
<1>10. found <=> said
  BY <1>5, <1>7, <1>8, <1>9
<1>11. reply' = said
  <2>1. found = said
    BY <1>10, Zenon
  <2> HIDE DEF found, said
  <2> QED
    BY <1>1, <2>1
<1>12. reply' = \E i \in DOMAIN seen.msg.says.headers : seen.msg.says.headers[i].key = "one"
  BY <1>2, <1>11, Zenon
<1>13. {word[2] : word \in own'} = {word[2] : word \in own}
  BY <1>1
<1>14. Objects!UnpackedBy("predicate")
  BY <1>1 DEF Objects!UnpackedBy
<1>15. Objects!Ends(Objects!Objects(seen.msg),
                    \E i \in DOMAIN seen.msg.says.headers : seen.msg.says.headers[i].key = "one")
  BY <1>1, <1>2, <1>3, <1>12, <1>13, Zenon DEF Objects!Ends
<1> QED
  BY <1>14, <1>15, Zenon DEF Objects!Scans

(* Pointers to new blocks are taken, whatever the heap. *)
LEMMA TakenSeen ==
    ASSUME NEW heads, own' = own \cup {Top(n) : n \in heads}
    PROVE  {word[2] : word \in own'} = {word[2] : word \in own} \cup {Block(n) : n \in heads}
<1>1. \A n : Top(n)[2] = Block(n)
  BY Blocks
<1> QED
  BY <1>1

(* What all steps that build a result have in common. *)
LEMMA BuiltSeen ==
    ASSUME GuestInv, Told, Told', pc = "unpacked", NEW g, NEW mine, Built(g, mine)
    PROVE  /\ pc' = "built" /\ heap' = g /\ own' = own \cup mine
           /\ UNCHANGED <<call, reply, seen.input, seen.msg, seen.buffer, seen.packed>>
           /\ seen.msg = MessageStruct(call.function, Number(msg), input)
           /\ seen'.result = ResultStruct(call.function, Number(msg), heap.next, input)
<1>1. /\ pc' = "built" /\ heap' = g /\ own' = own \cup mine /\ call' = call /\ reply' = reply
      /\ input' = input /\ msg' = msg /\ result' = Top(heap.next)
  BY DEF Built
<1>2. Number(result') = heap.next
  BY <1>1, Numbers
<1>3. Number(msg') = Number(msg)
  BY <1>1
<1>4. Answered' = ResultStruct(call.function, Number(msg), heap.next, input)
  BY <1>1, <1>2, <1>3 DEF Answered
<1>5. /\ seen.input = Content(call.function, input) /\ seen.buffer = Nothing /\ seen.packed = Nothing
      /\ seen.msg = MessageStruct(call.function, Number(msg), input)
  BY DEF Told
<1>6. /\ seen'.input = Content(call.function, input) /\ seen'.buffer = Nothing /\ seen'.packed = Nothing
      /\ seen'.msg = MessageStruct(call.function, Number(msg), input)
      /\ seen'.result = ResultStruct(call.function, Number(msg), heap.next, input)
  BY <1>1, <1>3, <1>4 DEF Told
<1> QED
  BY <1>1, <1>5, <1>6

(* request *)
LEMMA RequestSeen == Unbounded /\ GuestInv /\ Told /\ Told' /\ BuildsRequest => Objects!BuildsRequest
<1> SUFFICES ASSUME Unbounded, GuestInv, Told, Told', BuildsRequest PROVE Objects!BuildsRequest
  OBVIOUS
<1> DEFINE g == Shared(SpringMembers)
           mine == {Top(heap.next)}
           n == Number(msg)
           r == heap.next
           new == Block(heap.next)
<1>1. /\ pc = "unpacked" /\ call.function = "request" /\ Built(g, mine) /\ HeapOk(heap)
      /\ TreeFits(Type.descriptor, input) /\ HoldsMessage /\ r \in Nat
  BY DEF BuildsRequest, GuestInv, HeapOk
<1>2. DOMAIN g.objects = MadeFor("request", heap.next) \cup DOMAIN heap.objects
  BY <1>1, MessageHeld, RequestBuilt
<1> HIDE DEF g, mine
<1>3. /\ pc' = "built" /\ heap' = g /\ own' = own \cup mine
      /\ UNCHANGED <<call, reply, seen.input, seen.msg, seen.buffer, seen.packed>>
      /\ seen.msg = MessageStruct(call.function, n, input)
      /\ seen'.result = ResultStruct(call.function, n, r, input)
  BY <1>1, BuiltSeen
<1>4. new \notin DOMAIN heap.objects /\ new \in Addresses
  BY <1>1, NewBlocks, BlockAt DEF MadeFor, Unbounded
<1>5. DOMAIN heap'.objects = DOMAIN heap.objects \cup {new}
  BY <1>2, <1>3 DEF MadeFor
<1>6. {word[2] : word \in own'} = {word[2] : word \in own} \cup {new}
  <2>1. Top(r)[2] = new
    BY Blocks
  <2> HIDE DEF new, r
  <2> QED
    BY <1>3, <2>1 DEF mine, r
<1> HIDE DEF n, r, new
<1>7. seen'.result = [seen.msg EXCEPT !.at = new]
  <2>1. /\ seen.msg = [at |-> Block(n), refs |-> RefsOf("request", MessageParts(n, input)),
                       says |-> Content("request", input)]
        /\ seen'.result = [at |-> Block(r), refs |-> RefsOf("request", MessageParts(n, input)),
                           says |-> Content("request", input)]
    BY <1>1, <1>3 DEF MessageStruct, ResultStruct
  <2> QED
    BY <2>1 DEF new, r
<1>8. Objects!Takes({new})
  BY <1>4, <1>5, <1>6 DEF Objects!Takes
<1>9. Objects!Builds([seen.msg EXCEPT !.at = new])
  BY <1>3, <1>7 DEF Objects!Builds
<1>10. Objects!UnpackedBy("request")
  BY <1>1 DEF Objects!UnpackedBy
<1>11. new \in Addresses
  BY <1>4
<1> QED
  BY <1>8, <1>9, <1>10, <1>11, Zenon
  DEF Objects!BuildsRequest, Objects!Takes, Objects!Builds

(* filter *)
LEMMA FilterSeen == Unbounded /\ GuestInv /\ Told /\ Told' /\ BuildsFilter => Objects!BuildsFilter
<1> SUFFICES ASSUME Unbounded, GuestInv, Told, Told', BuildsFilter PROVE Objects!BuildsFilter
  OBVIOUS
<1> DEFINE g == Renamed(EventMembers)
           mine == {Top(heap.next)}
           n == Number(msg)
           r == heap.next
           new == Block(heap.next)
<1>1. /\ pc = "unpacked" /\ call.function = "filter" /\ Built(g, mine) /\ HeapOk(heap)
      /\ TreeFits(Type.descriptor, input) /\ HoldsMessage /\ r \in Nat
  BY DEF BuildsFilter, GuestInv, HeapOk
<1>2. DOMAIN g.objects = MadeFor("filter", heap.next) \cup DOMAIN heap.objects
  BY <1>1, MessageHeld, FilterBuilt
<1> HIDE DEF g, mine
<1>3. /\ pc' = "built" /\ heap' = g /\ own' = own \cup mine
      /\ UNCHANGED <<call, reply, seen.input, seen.msg, seen.buffer, seen.packed>>
      /\ seen.msg = MessageStruct(call.function, n, input)
      /\ seen'.result = ResultStruct(call.function, n, r, input)
  BY <1>1, BuiltSeen
<1>4. new \notin DOMAIN heap.objects /\ new \in Addresses
  BY <1>1, NewBlocks, BlockAt DEF MadeFor, Unbounded
<1>5. DOMAIN heap'.objects = DOMAIN heap.objects \cup {new}
  BY <1>2, <1>3 DEF MadeFor
<1>6. {word[2] : word \in own'} = {word[2] : word \in own} \cup {new}
  <2>1. Top(r)[2] = new
    BY Blocks
  <2> HIDE DEF new, r
  <2> QED
    BY <1>3, <2>1 DEF mine, r
<1> HIDE DEF n, r, new
<1>7. /\ seen.msg = [at |-> Block(n), refs |-> RefsOf("filter", MessageParts(n, input)),
                     says |-> Content("filter", input)]
      /\ seen'.result = [at |-> Block(r), refs |-> [RefsOf("filter", MessageParts(n, input)) EXCEPT !["id"] = {}],
                         says |-> [Content("filter", input) EXCEPT !["id"] = "1-5150"]]
  BY <1>1, <1>3 DEF MessageStruct, ResultStruct
<1>8. seen'.result = [at |-> new, refs |-> [seen.msg.refs EXCEPT !["id"] = {}],
                      says |-> [seen.msg.says EXCEPT !["id"] = "1-5150"]]
  <2>1. seen.msg.refs = RefsOf("filter", MessageParts(n, input)) /\ seen.msg.says = Content("filter", input)
    BY <1>7
  <2> QED
    BY <1>7, <2>1 DEF new, r
<1>9. Objects!Takes({new})
  BY <1>4, <1>5, <1>6 DEF Objects!Takes
<1>10. Objects!Builds([at |-> new, refs |-> [seen.msg.refs EXCEPT !["id"] = {}],
                       says |-> [seen.msg.says EXCEPT !["id"] = "1-5150"]])
  BY <1>3, <1>8 DEF Objects!Builds
<1>11. Objects!UnpackedBy("filter")
  BY <1>1 DEF Objects!UnpackedBy
<1>12. new \in Addresses
  BY <1>4
<1> QED
  BY <1>9, <1>10, <1>11, <1>12, Zenon
  DEF Objects!BuildsFilter, Objects!Takes, Objects!Builds

-----------------------------------------------------------------------------
(* response: of the three new objects only the header is among the entries. *)
LEMMA ResponseSeen == Unbounded /\ GuestInv /\ Told /\ Told' /\ BuildsResponse => Objects!BuildsResponse
<1> SUFFICES ASSUME Unbounded, GuestInv, Told, Told', BuildsResponse PROVE Objects!BuildsResponse
  OBVIOUS
<1> DEFINE g == WithHeader(Len(Headers(msg)) + 1)
           mine == {Top(heap.next), Top(heap.next + 1), Top(heap.next + 2)}
           n == Number(msg)
           r == heap.next
           struct == Block(heap.next)
           array == Block(heap.next + 1)
           header == Block(heap.next + 2)
           refs == RefsOf("response", MessageParts(n, input))
           says == Content("response", input)
<1>1. /\ pc = "unpacked" /\ call.function = "response" /\ Built(g, mine) /\ HeapOk(heap)
      /\ TreeFits(Type.descriptor, input) /\ HoldsMessage /\ r \in Nat
  BY DEF BuildsResponse, GuestInv, HeapOk
<1>2. TreeFits("SpringMessage", input) /\ TreeFits(TypeOf("response").descriptor, input)
  BY <1>1, TypesOf DEF Type
<1>3. msg = Top(n) /\ n \in Nat /\ HoldsTree(heap, n, input)
  BY <1>1 DEF HoldsMessage, IsTop
<1>4. DOMAIN g.objects = MadeFor("response", heap.next) \cup DOMAIN heap.objects
  BY <1>1, <1>2, <1>3, ResponseBuilt
<1> HIDE DEF g, mine
<1>5. /\ pc' = "built" /\ heap' = g /\ own' = own \cup mine
      /\ UNCHANGED <<call, reply, seen.input, seen.msg, seen.buffer, seen.packed>>
      /\ seen.msg = MessageStruct(call.function, n, input)
      /\ seen'.result = ResultStruct(call.function, n, r, input)
  BY <1>1, BuiltSeen
<1>6. MadeFor("response", heap.next) = {struct, array, header}
  BY DEF MadeFor
<1>7. /\ struct \notin DOMAIN heap.objects /\ array \notin DOMAIN heap.objects
      /\ header \notin DOMAIN heap.objects
      /\ struct # array /\ struct # header /\ array # header
  BY <1>1, <1>6, NewBlocks
<1>8. {struct, array, header} \subseteq Addresses
  <2>1. heap.next \in Nat /\ heap.next + 1 \in Nat /\ heap.next + 2 \in Nat
    BY <1>1
  <2>2. \A k \in Nat : Block(k) \in Addresses
    BY BlockAt DEF Unbounded
  <2> QED
    BY <2>1, <2>2
<1>9. DOMAIN heap'.objects = DOMAIN heap.objects \cup {struct, array, header}
  BY <1>4, <1>5, <1>6
<1>10. {word[2] : word \in own'} = {word[2] : word \in own} \cup {struct, array, header}
  <2>1. Top(r)[2] = struct /\ Top(r + 1)[2] = array /\ Top(r + 2)[2] = header
    BY Blocks
  <2> HIDE DEF struct, array, header, r
  <2> QED
    BY <1>5, <2>1 DEF mine, r
<1> HIDE DEF n
<1>11. seen.msg = [at |-> Block(n), refs |-> refs, says |-> says]
  BY <1>1, <1>5 DEF MessageStruct
<1>12. seen'.result = [at |-> struct,
                       refs |-> [payload |-> refs.payload, headers |-> {array},
                                 entries |-> refs.entries \cup {header}],
                       says |-> [says EXCEPT !["headers"] = Append(HeadersOn(input), NewEntry)]]
  BY <1>1, <1>5 DEF ResultStruct, ExtendedRefs
<1>13. refs.entries \subseteq DOMAIN heap.objects
  <2>1. Objects!Objects(seen.msg) = Made(n, input)
    BY <1>1, <1>2, <1>3, <1>5, MessageObjects
  <2>2. DOMAIN refs = {"payload", "headers", "entries"}
    BY DEF RefsOf
  <2>3. seen.msg.refs = refs
    BY <1>11
  <2> HIDE DEF refs
  <2>4. refs["entries"] \subseteq Objects!Objects(seen.msg)
    BY <2>2, <2>3 DEF Objects!Objects
  <2>5. Made(n, input) \subseteq DOMAIN heap.objects
    BY <1>2, <1>3, MadeIsHeld
  <2> QED
    BY <2>1, <2>4, <2>5
<1>14. says.headers = HeadersOn(input)
  <2>1. says = [payload |-> TextIn(input, <<>>, 1), headers |-> HeadersOn(input)]
    BY SpringContent
  <2> HIDE DEF says
  <2> QED
    BY <2>1
<1>15. NewEntry = Objects!Header
  BY DEF NewEntry, Objects!Header
<1> HIDE DEF refs, says, struct, array, header, r
<1>16. /\ seen.msg.refs = refs /\ seen.msg.says = says
       /\ seen'.result.at = struct /\ seen'.result.refs.headers = {array}
       /\ seen'.result.refs.entries = refs.entries \cup {header}
  BY <1>11, <1>12
<1>17. seen'.result.refs.entries \ seen.msg.refs.entries = {header}
  BY <1>7, <1>13, <1>16
<1>18. seen'.result \in
          [at : Addresses,
           refs : [payload : {seen.msg.refs.payload},
                   headers : {{a} : a \in Addresses},
                   entries : {seen.msg.refs.entries \cup {a} : a \in Addresses \ DOMAIN heap.objects}],
           says : {[seen.msg.says EXCEPT !.headers = Append(seen.msg.says.headers, Objects!Header)]}]
  <2>1. [payload |-> refs.payload, headers |-> {array}, entries |-> refs.entries \cup {header}] \in
           [payload : {refs.payload}, headers : {{a} : a \in Addresses},
            entries : {refs.entries \cup {a} : a \in Addresses \ DOMAIN heap.objects}]
    BY <1>7, <1>8
  <2>2. [says EXCEPT !["headers"] = Append(HeadersOn(input), NewEntry)] =
        [seen.msg.says EXCEPT !.headers = Append(seen.msg.says.headers, Objects!Header)]
    BY <1>14, <1>15, <1>16
  <2> QED
    BY <1>8, <1>12, <1>16, <2>1, <2>2
<1>19. /\ seen'.result.at \notin seen'.result.refs.headers \cup seen'.result.refs.entries
       /\ seen'.result.refs.headers \cap seen'.result.refs.entries = {}
  BY <1>7, <1>13, <1>16
<1>20. {seen'.result.at} \cup seen'.result.refs.headers
           \cup (seen'.result.refs.entries \ seen.msg.refs.entries) = {struct, array, header}
  BY <1>16, <1>17
<1>21. Objects!UnpackedBy("response")
  BY <1>1 DEF Objects!UnpackedBy
<1>22. /\ {struct, array, header} \cap DOMAIN heap.objects = {}
       /\ UNCHANGED <<call, reply, seen.input, seen.msg, seen.buffer, seen.packed>>
  BY <1>5, <1>7
<1>23. Objects!WithHeader(Append(seen.msg.says.headers, Objects!Header))
  BY <1>5, <1>9, <1>10, <1>18, <1>19, <1>20, <1>21, <1>22 DEF Objects!WithHeader, Objects!Takes
<1> QED
  BY <1>23, Zenon DEF Objects!BuildsResponse

(* malloc of the buffer *)
LEMMA MeasuresSeen == Unbounded /\ GuestInv /\ Told /\ Told' /\ Measures => Objects!Measures
<1> SUFFICES ASSUME Unbounded, GuestInv, Told, Told', Measures PROVE Objects!Measures
  OBVIOUS
<1> DEFINE r == heap.next
           new == Block(heap.next)
<1>1. /\ pc = "built" /\ pc' = "measured" /\ HeapOk(heap) /\ r \in Nat
      /\ heap' = Malloc(heap, [bytes |-> <<>>]) /\ buffer' = Top(r) /\ own' = own \cup {Top(r)}
      /\ call' = call /\ reply' = reply /\ input' = input /\ msg' = msg /\ result' = result
  BY DEF Measures, GuestInv, HeapOk
<1>2. Number(buffer') = r
  BY <1>1, Numbers
<1>3. Answered' = Answered
  BY <1>1 DEF Answered
<1>4. /\ seen'.buffer = new
      /\ UNCHANGED <<seen.input, seen.msg, seen.result, seen.packed>>
  <2>1. Number(msg') = Number(msg)
    BY <1>1
  <2> QED
    BY <1>1, <1>2, <1>3, <2>1 DEF Told
<1>5. DOMAIN heap'.objects = DOMAIN heap.objects \cup {new} /\ new \notin DOMAIN heap.objects
  BY <1>1, MallocGrows DEF Grown
<1>6. new \in Addresses
  BY <1>1, BlockAt DEF Unbounded
<1>7. {word[2] : word \in own'} = {word[2] : word \in own} \cup {new}
  <2>1. Top(r)[2] = new
    BY Blocks
  <2> HIDE DEF new, r
  <2> QED
    BY <1>1, <2>1
<1> HIDE DEF new, r
<1> QED
  BY <1>1, <1>4, <1>5, <1>6, <1>7 DEF Objects!Measures, Objects!Takes

(* pack: all that the result hangs on is there. *)
LEMMA PacksSeen == GuestInv /\ Told /\ Told' /\ Packs => Objects!Packs
<1> SUFFICES ASSUME GuestInv, Told, Told', Packs PROVE Objects!Packs
  OBVIOUS
<1> DEFINE n == Number(msg)
           r == Number(result)
<1>1. /\ pc = "measured" /\ pc' = "packed" /\ HeapOk(heap) /\ HoldsBuilt
      /\ call.function \in Exports /\ TreeFits(TypeOf(call.function).descriptor, input)
      /\ heap' = [heap EXCEPT !.objects[buffer[2]].bytes = Pack(Type, heap, result),
                              !.fault = @ \/ Size(Pack(Type, heap, result)) # len]
      /\ call' = call /\ reply' = reply /\ input' = input /\ msg' = msg /\ result' = result
      /\ own' = own /\ buffer' = buffer
  BY DEF Packs, GuestInv, HoldsBuffer, Type
<1>2. Answered' = Answered
  BY <1>1 DEF Answered
<1>3. /\ seen.result = Answered /\ seen'.packed = Answered.says
      /\ UNCHANGED <<seen.input, seen.msg, seen.result, seen.buffer>>
  <2>1. Number(msg') = Number(msg) /\ Number(buffer') = Number(buffer)
    BY <1>1
  <2> QED
    BY <1>1, <1>2, <2>1 DEF Told
<1>4. DOMAIN heap'.objects = DOMAIN heap.objects
  <2>1. heap = [objects |-> heap.objects, next |-> heap.next, fault |-> heap.fault]
    BY <1>1 DEF HeapOk
  <2> QED
    BY <1>1, <2>1
<1>5. /\ n \in Nat /\ HoldsTree(heap, n, input) /\ MadeFor(call.function, r) \subseteq DOMAIN heap.objects
  BY <1>1 DEF HoldsBuilt, HoldsMessage, HoldsResult, IsTop
<1> HIDE DEF n, r
<1>6. Made(n, input) \subseteq DOMAIN heap.objects
  BY <1>1, <1>5, MadeIsHeld
<1>7. Objects!Objects(ResultStruct(call.function, n, r, input)) \subseteq
          Made(n, input) \cup MadeFor(call.function, r)
  BY <1>1, <1>5, ResultObjects
<1>8. Objects!Objects(seen.result) \subseteq DOMAIN heap.objects
  BY <1>3, <1>5, <1>6, <1>7 DEF Answered, n, r
<1>9. {word[2] : word \in own'} = {word[2] : word \in own}
  BY <1>1
<1> QED
  BY <1>1, <1>3, <1>4, <1>8, <1>9 DEF Objects!Packs

(* The host reads the result of what is packed. *)
LEMMA ReturnsSeen == GuestInv /\ SeenInv /\ Told /\ Told' /\ Returns => Objects!Returns
<1> SUFFICES ASSUME GuestInv, SeenInv, Told, Told', Returns PROVE Objects!Returns
  OBVIOUS
<1>1. /\ pc = "packed" /\ pc' = "idle" /\ call' = Nothing /\ own' = own
      /\ heap' = FreeUnpacked(Type, heap, msg)
      /\ reply' = JavaMessage(call.function, Content(call.function, Object(heap, buffer).bytes))
      /\ HeapOk(heap) /\ TreeFits(Type.descriptor, input) /\ HoldsMessage
  BY DEF Returns, GuestInv, HoldsBuffer, HoldsBuilt
<1>2. /\ seen.msg = MessageStruct(call.function, Number(msg), input)
      /\ seen'.input = Nothing /\ seen'.msg = Nothing /\ seen'.result = Nothing
      /\ seen'.buffer = Nothing /\ seen'.packed = Nothing
  BY <1>1 DEF Told
<1>3. DOMAIN heap'.objects = DOMAIN heap.objects \ Objects!Objects(seen.msg)
  BY <1>1, <1>2, FreedSeen
<1>4. seen.packed = Content(call.function, Object(heap, buffer).bytes)
  BY <1>1 DEF SeenInv, Seen
<1>5. reply' = Objects!JavaMessage(call.function, seen.packed)
  BY <1>1, <1>4, SameMessage
<1>6. {word[2] : word \in own'} = {word[2] : word \in own}
  BY <1>1
<1> QED
  BY <1>1, <1>2, <1>3, <1>5, <1>6 DEF Objects!Returns, Objects!Ends

-----------------------------------------------------------------------------
(* Every step of GuestPlugin is one of GuestObjects, or none. *)
LEMMA ObjectsStep ==
    Unbounded /\ GuestInv /\ SeenInv /\ Told /\ Told' /\ [Next]_vars => [Objects!Next]_(Objects!vars)
<1> SUFFICES ASSUME Unbounded, GuestInv, SeenInv, Told, Told', [Next]_vars
             PROVE  [Objects!Next]_(Objects!vars)
  OBVIOUS
<1>1. CASE Called
  BY <1>1, CalledSeen DEF Objects!Next
<1>2. CASE Runs
  BY <1>2, UnpacksSeen, ScansSeen, RequestSeen, ResponseSeen, FilterSeen, MeasuresSeen,
     PacksSeen, ReturnsSeen DEF Runs, Objects!Next
<1>3. CASE Stops
  <2>1. pc = "idle" /\ UNCHANGED <<call, reply, pc, heap, own>>
    BY <1>3 DEF Stops, guest
  <2>2. UNCHANGED <<seen.input, seen.msg, seen.result, seen.buffer, seen.packed>>
    BY <2>1 DEF Told
  <2> QED
    BY <2>1, <2>2 DEF Objects!vars
<1>4. CASE UNCHANGED vars
  BY <1>4 DEF vars, guest, Objects!vars
<1> QED
  BY <1>1, <1>2, <1>3, <1>4 DEF Next

(* At first GuestObjects sees nothing. *)
LEMMA ObjectsInit == Init => Objects!Init
<1> SUFFICES ASSUME Init PROVE Objects!Init
  OBVIOUS
<1>1. heap.objects = EmptyHeap.objects /\ DOMAIN EmptyHeap.objects = {}
  BY DEF Init, EmptyHeap
<1> QED
  BY <1>1 DEF Init, Objects!Init

(* The functions as the generated code runs them do what GuestObjects says:  *)
(* unpack makes new objects only, the results hang on the message's, pack    *)
(* writes what their members say, and free_unpacked frees what unpack made   *)
(* and nothing else, for any messages and any number of calls.               *)
THEOREM ObjectsCorrect == Unbounded => (Spec => ObjectsSpec)
<1> SUFFICES ASSUME Unbounded PROVE Spec => ObjectsSpec
  OBVIOUS
<1>1. Spec => []SeenInv
  BY SeenInit, SeenNext, PTL DEF Spec
<1>2. Spec => []GuestInv
  BY GuestInvariant
<1>3. GuestInv /\ SeenInv => Told
  BY SeenTells
<1>4. GuestInv /\ SeenInv /\ Told /\ Told' /\ [Next]_vars => [Objects!Next]_(Objects!vars)
  BY ObjectsStep
<1> QED
  BY <1>1, <1>2, <1>3, <1>4, ObjectsInit, PTL DEF Spec, ObjectsSpec, Objects!Spec
=============================================================================
