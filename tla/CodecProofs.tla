----------------------------- MODULE CodecProofs -----------------------------
(***************************************************************************)
(* Proofs about the generated code: what a message is on the heap, what    *)
(* the library's functions make of it, however many messages are within    *)
(* it, and that they keep what Codec asks of them.                         *)
(***************************************************************************)
EXTENDS Codec, Integers, WellFoundedInduction, TLAPS

-----------------------------------------------------------------------------
(* What the descriptors of all messages have in common. *)
Row(f, id, type, label, member, quantifier, of, default) ==
    /\ f.id = id /\ f.type = type /\ f.label = label /\ f.member = member
    /\ f.quantifier = quantifier /\ f.message = of /\ f.default = default

Types == {"string", "bytes", "message", "enum", "double", "float", "bool", "int32", "int64"}

(* A field has members of the struct for its value and, if it is repeated or *)
(* in a union, for its quantifier, which the initializer leaves as blank.    *)
FieldFits(f, id, struct) ==
    /\ f.id = id /\ f.type \in Types /\ f.label \in {"none", "repeated"}
    /\ f.default \in {Zero, EmptyString} /\ (f.type = "string" <=> f.default = EmptyString)
    /\ f.label = "repeated" => f.type = "message" /\ f.quantifier # ""
    /\ f.type = "message" => f.message \in Messages
    /\ f.quantifier # "" => f.quantifier \in DOMAIN struct /\ struct[f.quantifier] = <<Zero>>
    /\ f.member \in DOMAIN struct
    /\ struct[f.member] \in {<<Zero>>, <<Zero, Zero>>, <<EmptyString>>}
    /\ f.type = "bytes" \/ IsOneOf(f) => struct[f.member] = <<Zero, Zero>>
    /\ ~IsOneOf(f) => (f.type = "string" <=> struct[f.member] = <<EmptyString>>)

(* Two fields share no member, unless they are in the same union. *)
PairFits(f, g) ==
    /\ f.quantifier # g.member
    /\ f.member = g.member =>
          f.id = g.id \/ (IsOneOf(f) /\ IsOneOf(g) /\ f.quantifier = g.quantifier)
    /\ f.quantifier = g.quantifier /\ f.quantifier # "" => f.member = g.member

Fits(D) ==
    /\ D.ranges[1].start = 1 /\ D.ranges[1].index = 0
    /\ DOMAIN D.fields \subseteq Nat \ {0}
    /\ \A id \in DOMAIN D.fields : FieldFits(D.fields[id], id, D.struct)
    /\ \A i, j \in DOMAIN D.fields : PairFits(D.fields[i], D.fields[j])

InUnion(f, member, quantifier) ==
    f.label = "none" /\ f.member = member /\ f.quantifier = quantifier

(* Two fields of one union share no more than they may. *)
LEMMA InUnionFits ==
    ASSUME NEW f, NEW g, NEW member, NEW quantifier, quantifier # "", member # quantifier,
           InUnion(f, member, quantifier), InUnion(g, member, quantifier)
    PROVE  PairFits(f, g)
BY DEF InUnion, PairFits, IsOneOf

(* The initial words of members. *)
LEMMA Blanks ==
    /\ Blank(1) = <<Zero>> /\ Blank(2) = <<Zero, Zero>>
    /\ Zero # EmptyString /\ <<Zero>> # <<EmptyString>> /\ <<Zero, Zero>> # <<EmptyString>>
<1>1. Zero # EmptyString
  BY DEF Zero, EmptyString
<1> QED
  BY <1>1 DEF Blank

(* Each generated table fits the generated struct, row by row. *)
LEMMA SpringHeadersEntryFits == Fits(SpringHeadersEntry)
<1> DEFINE fields == SpringHeadersEntry.fields
           struct == SpringHeadersEntry.struct
<1>1. /\ DOMAIN SpringHeadersEntry.fields = 1..2
      /\ SpringHeadersEntry.ranges[1].start = 1 /\ SpringHeadersEntry.ranges[1].index = 0
  BY DEF SpringHeadersEntry, Descriptor
<1>2. Row(fields[1], 1, "string", "none", "key", "", "", EmptyString)
  BY DEF Row, SpringHeadersEntry, Descriptor, Field, EmptyString, Zero
<1>3. Row(fields[2], 2, "string", "none", "value", "", "", EmptyString)
  BY DEF Row, SpringHeadersEntry, Descriptor, Field, EmptyString, Zero
<1>4. /\ DOMAIN struct = {"key", "value"}
      /\ struct["key"] = <<EmptyString>>
      /\ struct["value"] = <<EmptyString>>
  BY DEF SpringHeadersEntry, Descriptor, SpringHeadersEntryStruct
<1> HIDE DEF fields, struct
<1>5. FieldFits(fields[1], 1, struct)
  BY <1>2, <1>4, Blanks DEF Row, FieldFits, Types, IsOneOf, Messages
<1>6. FieldFits(fields[2], 2, struct)
  BY <1>3, <1>4, Blanks DEF Row, FieldFits, Types, IsOneOf, Messages
<1>7. \A i, j \in {1, 2} : PairFits(fields[i], fields[j])
  BY <1>2, <1>3 DEF Row, PairFits, IsOneOf
<1>8. DOMAIN fields = {1, 2}
  BY <1>1 DEF fields
<1>9. \A id \in DOMAIN fields : FieldFits(fields[id], id, struct)
  BY <1>8, <1>5, <1>6
<1>10. DOMAIN fields \subseteq Nat \ {0}
  BY <1>8
<1> QED
  BY <1>1, <1>7, <1>8, <1>9, <1>10 DEF Fits, fields, struct

LEMMA SpringMessageFits == Fits(SpringMessage)
<1> DEFINE fields == SpringMessage.fields
           struct == SpringMessage.struct
<1>1. /\ DOMAIN SpringMessage.fields = 1..2
      /\ SpringMessage.ranges[1].start = 1 /\ SpringMessage.ranges[1].index = 0
  BY DEF SpringMessage, Descriptor
<1>2. Row(fields[1], 1, "bytes", "none", "payload", "", "", Zero)
  BY DEF Row, SpringMessage, Descriptor, Field, EmptyString, Zero
<1>3. Row(fields[2], 2, "message", "repeated", "headers", "n_headers", "SpringMessage.HeadersEntry", Zero)
  BY DEF Row, SpringMessage, Descriptor, Field, EmptyString, Zero, Sub, Repeated
<1>4. /\ DOMAIN struct = {"payload", "headers", "n_headers"}
      /\ struct["payload"] = Blank(2)
      /\ struct["headers"] = Blank(1)
      /\ struct["n_headers"] = Blank(1)
  BY DEF SpringMessage, Descriptor, SpringMessageStruct
<1> HIDE DEF fields, struct
<1>5. FieldFits(fields[1], 1, struct)
  BY <1>2, <1>4, Blanks DEF Row, FieldFits, Types, IsOneOf, Messages
<1>6. FieldFits(fields[2], 2, struct)
  BY <1>3, <1>4, Blanks DEF Row, FieldFits, Types, IsOneOf, Messages
<1>7. \A i, j \in {1, 2} : PairFits(fields[i], fields[j])
  BY <1>2, <1>3 DEF Row, PairFits, IsOneOf
<1>8. DOMAIN fields = {1, 2}
  BY <1>1 DEF fields
<1>9. \A id \in DOMAIN fields : FieldFits(fields[id], id, struct)
  BY <1>8, <1>5, <1>6
<1>10. DOMAIN fields \subseteq Nat \ {0}
  BY <1>8
<1> QED
  BY <1>1, <1>7, <1>8, <1>9, <1>10 DEF Fits, fields, struct

LEMMA GenericFieldsEntryFits == Fits(GenericFieldsEntry)
<1> DEFINE fields == GenericFieldsEntry.fields
           struct == GenericFieldsEntry.struct
<1>1. /\ DOMAIN GenericFieldsEntry.fields = 1..2
      /\ GenericFieldsEntry.ranges[1].start = 1 /\ GenericFieldsEntry.ranges[1].index = 0
  BY DEF GenericFieldsEntry, Descriptor
<1>2. Row(fields[1], 1, "string", "none", "key", "", "", EmptyString)
  BY DEF Row, GenericFieldsEntry, Descriptor, Field, EmptyString, Zero
<1>3. Row(fields[2], 2, "message", "none", "value", "", "GenericValue", Zero)
  BY DEF Row, GenericFieldsEntry, Descriptor, Field, EmptyString, Zero, Sub
<1>4. /\ DOMAIN struct = {"key", "value"}
      /\ struct["key"] = <<EmptyString>>
      /\ struct["value"] = Blank(1)
  BY DEF GenericFieldsEntry, Descriptor, GenericFieldsEntryStruct
<1> HIDE DEF fields, struct
<1>5. FieldFits(fields[1], 1, struct)
  BY <1>2, <1>4, Blanks DEF Row, FieldFits, Types, IsOneOf, Messages
<1>6. FieldFits(fields[2], 2, struct)
  BY <1>3, <1>4, Blanks DEF Row, FieldFits, Types, IsOneOf, Messages
<1>7. \A i, j \in {1, 2} : PairFits(fields[i], fields[j])
  BY <1>2, <1>3 DEF Row, PairFits, IsOneOf
<1>8. DOMAIN fields = {1, 2}
  BY <1>1 DEF fields
<1>9. \A id \in DOMAIN fields : FieldFits(fields[id], id, struct)
  BY <1>8, <1>5, <1>6
<1>10. DOMAIN fields \subseteq Nat \ {0}
  BY <1>8
<1> QED
  BY <1>1, <1>7, <1>8, <1>9, <1>10 DEF Fits, fields, struct

LEMMA GenericMessageFits == Fits(GenericMessage)
<1> DEFINE fields == GenericMessage.fields
           struct == GenericMessage.struct
<1>1. /\ DOMAIN GenericMessage.fields = 1..1
      /\ GenericMessage.ranges[1].start = 1 /\ GenericMessage.ranges[1].index = 0
  BY DEF GenericMessage, Descriptor
<1>2. Row(fields[1], 1, "message", "repeated", "fields", "n_fields", "GenericMessage.FieldsEntry", Zero)
  BY DEF Row, GenericMessage, Descriptor, Field, EmptyString, Zero, Sub, Repeated
<1>3. /\ DOMAIN struct = {"fields", "n_fields"}
      /\ struct["fields"] = Blank(1)
      /\ struct["n_fields"] = Blank(1)
  BY DEF GenericMessage, Descriptor, GenericMessageStruct
<1> HIDE DEF fields, struct
<1>4. FieldFits(fields[1], 1, struct)
  BY <1>2, <1>3, Blanks DEF Row, FieldFits, Types, IsOneOf, Messages
<1>5. \A i, j \in {1} : PairFits(fields[i], fields[j])
  BY <1>2 DEF Row, PairFits, IsOneOf
<1>6. DOMAIN fields = {1}
  BY <1>1 DEF fields
<1>7. \A id \in DOMAIN fields : FieldFits(fields[id], id, struct)
  BY <1>6, <1>4
<1>8. DOMAIN fields \subseteq Nat \ {0}
  BY <1>6
<1> QED
  BY <1>1, <1>5, <1>6, <1>7, <1>8 DEF Fits, fields, struct

LEMMA GenericListFits == Fits(GenericList)
<1> DEFINE fields == GenericList.fields
           struct == GenericList.struct
<1>1. /\ DOMAIN GenericList.fields = 1..1
      /\ GenericList.ranges[1].start = 1 /\ GenericList.ranges[1].index = 0
  BY DEF GenericList, Descriptor
<1>2. Row(fields[1], 1, "message", "repeated", "values", "n_values", "GenericValue", Zero)
  BY DEF Row, GenericList, Descriptor, Field, EmptyString, Zero, Sub, Repeated
<1>3. /\ DOMAIN struct = {"values", "n_values"}
      /\ struct["values"] = Blank(1)
      /\ struct["n_values"] = Blank(1)
  BY DEF GenericList, Descriptor, GenericListStruct
<1> HIDE DEF fields, struct
<1>4. FieldFits(fields[1], 1, struct)
  BY <1>2, <1>3, Blanks DEF Row, FieldFits, Types, IsOneOf, Messages
<1>5. \A i, j \in {1} : PairFits(fields[i], fields[j])
  BY <1>2 DEF Row, PairFits, IsOneOf
<1>6. DOMAIN fields = {1}
  BY <1>1 DEF fields
<1>7. \A id \in DOMAIN fields : FieldFits(fields[id], id, struct)
  BY <1>6, <1>4
<1>8. DOMAIN fields \subseteq Nat \ {0}
  BY <1>6
<1> QED
  BY <1>1, <1>5, <1>6, <1>7, <1>8 DEF Fits, fields, struct

LEMMA GenericValueFits == Fits(GenericValue)
<1> DEFINE fields == GenericValue.fields
           struct == GenericValue.struct
<1>1. /\ DOMAIN GenericValue.fields = 1..10
      /\ GenericValue.ranges[1].start = 1 /\ GenericValue.ranges[1].index = 0
  BY DEF GenericValue, Descriptor
<1>2. Row(fields[1], 1, "enum", "none", "value", "value_case", "", Zero)
  BY DEF Row, GenericValue, Descriptor, Field, EmptyString, Zero, OneOf
<1>3. Row(fields[2], 2, "double", "none", "value", "value_case", "", Zero)
  BY DEF Row, GenericValue, Descriptor, Field, EmptyString, Zero, OneOf
<1>4. Row(fields[3], 3, "string", "none", "value", "value_case", "", EmptyString)
  BY DEF Row, GenericValue, Descriptor, Field, EmptyString, Zero, OneOf
<1>5. Row(fields[4], 4, "bool", "none", "value", "value_case", "", Zero)
  BY DEF Row, GenericValue, Descriptor, Field, EmptyString, Zero, OneOf
<1>6. Row(fields[5], 5, "message", "none", "value", "value_case", "GenericMessage", Zero)
  BY DEF Row, GenericValue, Descriptor, Field, EmptyString, Zero, Sub, OneOf
<1>7. Row(fields[6], 6, "message", "none", "value", "value_case", "GenericList", Zero)
  BY DEF Row, GenericValue, Descriptor, Field, EmptyString, Zero, Sub, OneOf
<1>8. Row(fields[7], 7, "bytes", "none", "value", "value_case", "", Zero)
  BY DEF Row, GenericValue, Descriptor, Field, EmptyString, Zero, OneOf
<1>9. Row(fields[8], 8, "float", "none", "value", "value_case", "", Zero)
  BY DEF Row, GenericValue, Descriptor, Field, EmptyString, Zero, OneOf
<1>10. Row(fields[9], 9, "int32", "none", "value", "value_case", "", Zero)
  BY DEF Row, GenericValue, Descriptor, Field, EmptyString, Zero, OneOf
<1>11. Row(fields[10], 10, "int64", "none", "value", "value_case", "", Zero)
  BY DEF Row, GenericValue, Descriptor, Field, EmptyString, Zero, OneOf
<1>12. /\ DOMAIN struct = {"value", "value_case"}
      /\ struct["value"] = Blank(2)
      /\ struct["value_case"] = Blank(1)
  BY DEF GenericValue, Descriptor, GenericValueStruct
<1> HIDE DEF fields, struct
<1>13. FieldFits(fields[1], 1, struct)
  BY <1>2, <1>12, Blanks DEF Row, FieldFits, Types, IsOneOf, Messages
<1>14. FieldFits(fields[2], 2, struct)
  BY <1>3, <1>12, Blanks DEF Row, FieldFits, Types, IsOneOf, Messages
<1>15. FieldFits(fields[3], 3, struct)
  BY <1>4, <1>12, Blanks DEF Row, FieldFits, Types, IsOneOf, Messages
<1>16. FieldFits(fields[4], 4, struct)
  BY <1>5, <1>12, Blanks DEF Row, FieldFits, Types, IsOneOf, Messages
<1>17. FieldFits(fields[5], 5, struct)
  BY <1>6, <1>12, Blanks DEF Row, FieldFits, Types, IsOneOf, Messages
<1>18. FieldFits(fields[6], 6, struct)
  BY <1>7, <1>12, Blanks DEF Row, FieldFits, Types, IsOneOf, Messages
<1>19. FieldFits(fields[7], 7, struct)
  BY <1>8, <1>12, Blanks DEF Row, FieldFits, Types, IsOneOf, Messages
<1>20. FieldFits(fields[8], 8, struct)
  BY <1>9, <1>12, Blanks DEF Row, FieldFits, Types, IsOneOf, Messages
<1>21. FieldFits(fields[9], 9, struct)
  BY <1>10, <1>12, Blanks DEF Row, FieldFits, Types, IsOneOf, Messages
<1>22. FieldFits(fields[10], 10, struct)
  BY <1>11, <1>12, Blanks DEF Row, FieldFits, Types, IsOneOf, Messages
<1>23. /\ InUnion(fields[1], "value", "value_case")
      /\ InUnion(fields[2], "value", "value_case")
      /\ InUnion(fields[3], "value", "value_case")
      /\ InUnion(fields[4], "value", "value_case")
      /\ InUnion(fields[5], "value", "value_case")
      /\ InUnion(fields[6], "value", "value_case")
      /\ InUnion(fields[7], "value", "value_case")
      /\ InUnion(fields[8], "value", "value_case")
      /\ InUnion(fields[9], "value", "value_case")
      /\ InUnion(fields[10], "value", "value_case")
  BY <1>2, <1>3, <1>4, <1>5, <1>6, <1>7, <1>8, <1>9, <1>10, <1>11 DEF Row, InUnion
<1>24. \A i \in {1, 2, 3, 4, 5, 6, 7, 8, 9, 10} : InUnion(fields[i], "value", "value_case")
  BY <1>23
<1>25. \A i, j \in {1, 2, 3, 4, 5, 6, 7, 8, 9, 10} : PairFits(fields[i], fields[j])
  BY <1>24, InUnionFits
<1>26. DOMAIN fields = {1, 2, 3, 4, 5, 6, 7, 8, 9, 10}
  BY <1>1 DEF fields
<1>27. \A id \in DOMAIN fields : FieldFits(fields[id], id, struct)
  BY <1>26, <1>13, <1>14, <1>15, <1>16, <1>17, <1>18, <1>19, <1>20, <1>21, <1>22
<1>28. DOMAIN fields \subseteq Nat \ {0}
  BY <1>26
<1> QED
  BY <1>1, <1>25, <1>26, <1>27, <1>28 DEF Fits, fields, struct

LEMMA ProtobufAnyFits == Fits(ProtobufAny)
<1> DEFINE fields == ProtobufAny.fields
           struct == ProtobufAny.struct
<1>1. /\ DOMAIN ProtobufAny.fields = 1..2
      /\ ProtobufAny.ranges[1].start = 1 /\ ProtobufAny.ranges[1].index = 0
  BY DEF ProtobufAny, Descriptor
<1>2. Row(fields[1], 1, "string", "none", "type_url", "", "", EmptyString)
  BY DEF Row, ProtobufAny, Descriptor, Field, EmptyString, Zero
<1>3. Row(fields[2], 2, "bytes", "none", "value", "", "", Zero)
  BY DEF Row, ProtobufAny, Descriptor, Field, EmptyString, Zero
<1>4. /\ DOMAIN struct = {"type_url", "value"}
      /\ struct["type_url"] = <<EmptyString>>
      /\ struct["value"] = Blank(2)
  BY DEF ProtobufAny, Descriptor, AnyStruct
<1> HIDE DEF fields, struct
<1>5. FieldFits(fields[1], 1, struct)
  BY <1>2, <1>4, Blanks DEF Row, FieldFits, Types, IsOneOf, Messages
<1>6. FieldFits(fields[2], 2, struct)
  BY <1>3, <1>4, Blanks DEF Row, FieldFits, Types, IsOneOf, Messages
<1>7. \A i, j \in {1, 2} : PairFits(fields[i], fields[j])
  BY <1>2, <1>3 DEF Row, PairFits, IsOneOf
<1>8. DOMAIN fields = {1, 2}
  BY <1>1 DEF fields
<1>9. \A id \in DOMAIN fields : FieldFits(fields[id], id, struct)
  BY <1>8, <1>5, <1>6
<1>10. DOMAIN fields \subseteq Nat \ {0}
  BY <1>8
<1> QED
  BY <1>1, <1>7, <1>8, <1>9, <1>10 DEF Fits, fields, struct

LEMMA TimestampFits == Fits(Timestamp)
<1> DEFINE fields == Timestamp.fields
           struct == Timestamp.struct
<1>1. /\ DOMAIN Timestamp.fields = 1..2
      /\ Timestamp.ranges[1].start = 1 /\ Timestamp.ranges[1].index = 0
  BY DEF Timestamp, Descriptor
<1>2. Row(fields[1], 1, "int64", "none", "seconds", "", "", Zero)
  BY DEF Row, Timestamp, Descriptor, Field, EmptyString, Zero
<1>3. Row(fields[2], 2, "int32", "none", "nanos", "", "", Zero)
  BY DEF Row, Timestamp, Descriptor, Field, EmptyString, Zero
<1>4. /\ DOMAIN struct = {"seconds", "nanos"}
      /\ struct["seconds"] = Blank(2)
      /\ struct["nanos"] = Blank(1)
  BY DEF Timestamp, Descriptor, TimestampStruct
<1> HIDE DEF fields, struct
<1>5. FieldFits(fields[1], 1, struct)
  BY <1>2, <1>4, Blanks DEF Row, FieldFits, Types, IsOneOf, Messages
<1>6. FieldFits(fields[2], 2, struct)
  BY <1>3, <1>4, Blanks DEF Row, FieldFits, Types, IsOneOf, Messages
<1>7. \A i, j \in {1, 2} : PairFits(fields[i], fields[j])
  BY <1>2, <1>3 DEF Row, PairFits, IsOneOf
<1>8. DOMAIN fields = {1, 2}
  BY <1>1 DEF fields
<1>9. \A id \in DOMAIN fields : FieldFits(fields[id], id, struct)
  BY <1>8, <1>5, <1>6
<1>10. DOMAIN fields \subseteq Nat \ {0}
  BY <1>8
<1> QED
  BY <1>1, <1>7, <1>8, <1>9, <1>10 DEF Fits, fields, struct

LEMMA AttributesEntryFits == Fits(AttributesEntry)
<1> DEFINE fields == AttributesEntry.fields
           struct == AttributesEntry.struct
<1>1. /\ DOMAIN AttributesEntry.fields = 1..2
      /\ AttributesEntry.ranges[1].start = 1 /\ AttributesEntry.ranges[1].index = 0
  BY DEF AttributesEntry, Descriptor
<1>2. Row(fields[1], 1, "string", "none", "key", "", "", EmptyString)
  BY DEF Row, AttributesEntry, Descriptor, Field, EmptyString, Zero
<1>3. Row(fields[2], 2, "message", "none", "value", "", "AttributeValue", Zero)
  BY DEF Row, AttributesEntry, Descriptor, Field, EmptyString, Zero, Sub
<1>4. /\ DOMAIN struct = {"key", "value"}
      /\ struct["key"] = <<EmptyString>>
      /\ struct["value"] = Blank(1)
  BY DEF AttributesEntry, Descriptor, AttributesEntryStruct
<1> HIDE DEF fields, struct
<1>5. FieldFits(fields[1], 1, struct)
  BY <1>2, <1>4, Blanks DEF Row, FieldFits, Types, IsOneOf, Messages
<1>6. FieldFits(fields[2], 2, struct)
  BY <1>3, <1>4, Blanks DEF Row, FieldFits, Types, IsOneOf, Messages
<1>7. \A i, j \in {1, 2} : PairFits(fields[i], fields[j])
  BY <1>2, <1>3 DEF Row, PairFits, IsOneOf
<1>8. DOMAIN fields = {1, 2}
  BY <1>1 DEF fields
<1>9. \A id \in DOMAIN fields : FieldFits(fields[id], id, struct)
  BY <1>8, <1>5, <1>6
<1>10. DOMAIN fields \subseteq Nat \ {0}
  BY <1>8
<1> QED
  BY <1>1, <1>7, <1>8, <1>9, <1>10 DEF Fits, fields, struct

LEMMA AttributeValueFits == Fits(AttributeValue)
<1> DEFINE fields == AttributeValue.fields
           struct == AttributeValue.struct
<1>1. /\ DOMAIN AttributeValue.fields = 1..7
      /\ AttributeValue.ranges[1].start = 1 /\ AttributeValue.ranges[1].index = 0
  BY DEF AttributeValue, Descriptor
<1>2. Row(fields[1], 1, "bool", "none", "attr", "attr_case", "", Zero)
  BY DEF Row, AttributeValue, Descriptor, Field, EmptyString, Zero, OneOf
<1>3. Row(fields[2], 2, "int32", "none", "attr", "attr_case", "", Zero)
  BY DEF Row, AttributeValue, Descriptor, Field, EmptyString, Zero, OneOf
<1>4. Row(fields[3], 3, "string", "none", "attr", "attr_case", "", EmptyString)
  BY DEF Row, AttributeValue, Descriptor, Field, EmptyString, Zero, OneOf
<1>5. Row(fields[4], 4, "bytes", "none", "attr", "attr_case", "", Zero)
  BY DEF Row, AttributeValue, Descriptor, Field, EmptyString, Zero, OneOf
<1>6. Row(fields[5], 5, "string", "none", "attr", "attr_case", "", EmptyString)
  BY DEF Row, AttributeValue, Descriptor, Field, EmptyString, Zero, OneOf
<1>7. Row(fields[6], 6, "string", "none", "attr", "attr_case", "", EmptyString)
  BY DEF Row, AttributeValue, Descriptor, Field, EmptyString, Zero, OneOf
<1>8. Row(fields[7], 7, "message", "none", "attr", "attr_case", "Timestamp", Zero)
  BY DEF Row, AttributeValue, Descriptor, Field, EmptyString, Zero, Sub, OneOf
<1>9. /\ DOMAIN struct = {"attr", "attr_case"}
      /\ struct["attr"] = Blank(2)
      /\ struct["attr_case"] = Blank(1)
  BY DEF AttributeValue, Descriptor, AttributeValueStruct
<1> HIDE DEF fields, struct
<1>10. FieldFits(fields[1], 1, struct)
  BY <1>2, <1>9, Blanks DEF Row, FieldFits, Types, IsOneOf, Messages
<1>11. FieldFits(fields[2], 2, struct)
  BY <1>3, <1>9, Blanks DEF Row, FieldFits, Types, IsOneOf, Messages
<1>12. FieldFits(fields[3], 3, struct)
  BY <1>4, <1>9, Blanks DEF Row, FieldFits, Types, IsOneOf, Messages
<1>13. FieldFits(fields[4], 4, struct)
  BY <1>5, <1>9, Blanks DEF Row, FieldFits, Types, IsOneOf, Messages
<1>14. FieldFits(fields[5], 5, struct)
  BY <1>6, <1>9, Blanks DEF Row, FieldFits, Types, IsOneOf, Messages
<1>15. FieldFits(fields[6], 6, struct)
  BY <1>7, <1>9, Blanks DEF Row, FieldFits, Types, IsOneOf, Messages
<1>16. FieldFits(fields[7], 7, struct)
  BY <1>8, <1>9, Blanks DEF Row, FieldFits, Types, IsOneOf, Messages
<1>17. /\ InUnion(fields[1], "attr", "attr_case")
      /\ InUnion(fields[2], "attr", "attr_case")
      /\ InUnion(fields[3], "attr", "attr_case")
      /\ InUnion(fields[4], "attr", "attr_case")
      /\ InUnion(fields[5], "attr", "attr_case")
      /\ InUnion(fields[6], "attr", "attr_case")
      /\ InUnion(fields[7], "attr", "attr_case")
  BY <1>2, <1>3, <1>4, <1>5, <1>6, <1>7, <1>8 DEF Row, InUnion
<1>18. \A i \in {1, 2, 3, 4, 5, 6, 7} : InUnion(fields[i], "attr", "attr_case")
  BY <1>17
<1>19. \A i, j \in {1, 2, 3, 4, 5, 6, 7} : PairFits(fields[i], fields[j])
  BY <1>18, InUnionFits
<1>20. DOMAIN fields = {1, 2, 3, 4, 5, 6, 7}
  BY <1>1 DEF fields
<1>21. \A id \in DOMAIN fields : FieldFits(fields[id], id, struct)
  BY <1>20, <1>10, <1>11, <1>12, <1>13, <1>14, <1>15, <1>16
<1>22. DOMAIN fields \subseteq Nat \ {0}
  BY <1>20
<1> QED
  BY <1>1, <1>19, <1>20, <1>21, <1>22 DEF Fits, fields, struct

LEMMA CloudEventFits == Fits(CloudEvent)
<1> DEFINE fields == CloudEvent.fields
           struct == CloudEvent.struct
<1>1. /\ DOMAIN CloudEvent.fields = 1..8
      /\ CloudEvent.ranges[1].start = 1 /\ CloudEvent.ranges[1].index = 0
  BY DEF CloudEvent, Descriptor
<1>2. Row(fields[1], 1, "string", "none", "id", "", "", EmptyString)
  BY DEF Row, CloudEvent, Descriptor, Field, EmptyString, Zero
<1>3. Row(fields[2], 2, "string", "none", "source", "", "", EmptyString)
  BY DEF Row, CloudEvent, Descriptor, Field, EmptyString, Zero
<1>4. Row(fields[3], 3, "string", "none", "spec_version", "", "", EmptyString)
  BY DEF Row, CloudEvent, Descriptor, Field, EmptyString, Zero
<1>5. Row(fields[4], 4, "string", "none", "type", "", "", EmptyString)
  BY DEF Row, CloudEvent, Descriptor, Field, EmptyString, Zero
<1>6. Row(fields[5], 5, "message", "repeated", "attributes", "n_attributes", "AttributesEntry", Zero)
  BY DEF Row, CloudEvent, Descriptor, Field, EmptyString, Zero, Sub, Repeated
<1>7. Row(fields[6], 6, "bytes", "none", "data", "data_case", "", Zero)
  BY DEF Row, CloudEvent, Descriptor, Field, EmptyString, Zero, OneOf
<1>8. Row(fields[7], 7, "string", "none", "data", "data_case", "", EmptyString)
  BY DEF Row, CloudEvent, Descriptor, Field, EmptyString, Zero, OneOf
<1>9. Row(fields[8], 8, "message", "none", "data", "data_case", "Any", Zero)
  BY DEF Row, CloudEvent, Descriptor, Field, EmptyString, Zero, Sub, OneOf
<1>10. /\ DOMAIN struct = {"id", "source", "spec_version", "type", "attributes", "n_attributes", "data", "data_case"}
      /\ struct["id"] = <<EmptyString>>
      /\ struct["source"] = <<EmptyString>>
      /\ struct["spec_version"] = <<EmptyString>>
      /\ struct["type"] = <<EmptyString>>
      /\ struct["attributes"] = Blank(1)
      /\ struct["n_attributes"] = Blank(1)
      /\ struct["data"] = Blank(2)
      /\ struct["data_case"] = Blank(1)
  BY DEF CloudEvent, Descriptor, CloudEventStruct
<1> HIDE DEF fields, struct
<1>11. FieldFits(fields[1], 1, struct)
  BY <1>2, <1>10, Blanks DEF Row, FieldFits, Types, IsOneOf, Messages
<1>12. FieldFits(fields[2], 2, struct)
  BY <1>3, <1>10, Blanks DEF Row, FieldFits, Types, IsOneOf, Messages
<1>13. FieldFits(fields[3], 3, struct)
  BY <1>4, <1>10, Blanks DEF Row, FieldFits, Types, IsOneOf, Messages
<1>14. FieldFits(fields[4], 4, struct)
  BY <1>5, <1>10, Blanks DEF Row, FieldFits, Types, IsOneOf, Messages
<1>15. FieldFits(fields[5], 5, struct)
  BY <1>6, <1>10, Blanks DEF Row, FieldFits, Types, IsOneOf, Messages
<1>16. FieldFits(fields[6], 6, struct)
  BY <1>7, <1>10, Blanks DEF Row, FieldFits, Types, IsOneOf, Messages
<1>17. FieldFits(fields[7], 7, struct)
  BY <1>8, <1>10, Blanks DEF Row, FieldFits, Types, IsOneOf, Messages
<1>18. FieldFits(fields[8], 8, struct)
  BY <1>9, <1>10, Blanks DEF Row, FieldFits, Types, IsOneOf, Messages
<1>19. /\ InUnion(fields[6], "data", "data_case")
      /\ InUnion(fields[7], "data", "data_case")
      /\ InUnion(fields[8], "data", "data_case")
  BY <1>7, <1>8, <1>9 DEF Row, InUnion
<1>20. \A i \in {6, 7, 8} : InUnion(fields[i], "data", "data_case")
  BY <1>19
<1>21. \A i, j \in {6, 7, 8} : PairFits(fields[i], fields[j])
  BY <1>20, InUnionFits
<1> DEFINE Apart(i, j) == PairFits(fields[i], fields[j]) /\ PairFits(fields[j], fields[i])
<1>22. /\ Apart(1, 1) /\ Apart(2, 1) /\ Apart(3, 1) /\ Apart(4, 1) /\ Apart(5, 1)
      /\ Apart(6, 1) /\ Apart(7, 1) /\ Apart(8, 1)
  BY <1>2, <1>3, <1>4, <1>5, <1>6, <1>7, <1>8, <1>9 DEF Row, PairFits, IsOneOf
<1>23. /\ Apart(1, 2) /\ Apart(2, 2) /\ Apart(3, 2) /\ Apart(4, 2) /\ Apart(5, 2)
      /\ Apart(6, 2) /\ Apart(7, 2) /\ Apart(8, 2)
  BY <1>2, <1>3, <1>4, <1>5, <1>6, <1>7, <1>8, <1>9 DEF Row, PairFits, IsOneOf
<1>24. /\ Apart(1, 3) /\ Apart(2, 3) /\ Apart(3, 3) /\ Apart(4, 3) /\ Apart(5, 3)
      /\ Apart(6, 3) /\ Apart(7, 3) /\ Apart(8, 3)
  BY <1>2, <1>3, <1>4, <1>5, <1>6, <1>7, <1>8, <1>9 DEF Row, PairFits, IsOneOf
<1>25. /\ Apart(1, 4) /\ Apart(2, 4) /\ Apart(3, 4) /\ Apart(4, 4) /\ Apart(5, 4)
      /\ Apart(6, 4) /\ Apart(7, 4) /\ Apart(8, 4)
  BY <1>2, <1>3, <1>4, <1>5, <1>6, <1>7, <1>8, <1>9 DEF Row, PairFits, IsOneOf
<1>26. /\ Apart(1, 5) /\ Apart(2, 5) /\ Apart(3, 5) /\ Apart(4, 5) /\ Apart(5, 5)
      /\ Apart(6, 5) /\ Apart(7, 5) /\ Apart(8, 5)
  BY <1>2, <1>3, <1>4, <1>5, <1>6, <1>7, <1>8, <1>9 DEF Row, PairFits, IsOneOf
<1> HIDE DEF Apart
<1>27. \A i \in {1, 2, 3, 4, 5, 6, 7, 8} : Apart(i, 1)
  BY <1>22
<1>28. \A i \in {1, 2, 3, 4, 5, 6, 7, 8} : Apart(i, 2)
  BY <1>23
<1>29. \A i \in {1, 2, 3, 4, 5, 6, 7, 8} : Apart(i, 3)
  BY <1>24
<1>30. \A i \in {1, 2, 3, 4, 5, 6, 7, 8} : Apart(i, 4)
  BY <1>25
<1>31. \A i \in {1, 2, 3, 4, 5, 6, 7, 8} : Apart(i, 5)
  BY <1>26
<1>32. \A i \in {1, 2, 3, 4, 5, 6, 7, 8} : \A j \in {1, 2, 3, 4, 5} : Apart(i, j)
  BY <1>27, <1>28, <1>29, <1>30, <1>31
<1>33. \A i, j \in {1, 2, 3, 4, 5, 6, 7, 8} : PairFits(fields[i], fields[j])
  BY <1>21, <1>32 DEF Apart
<1>34. DOMAIN fields = {1, 2, 3, 4, 5, 6, 7, 8}
  BY <1>1 DEF fields
<1>35. \A id \in DOMAIN fields : FieldFits(fields[id], id, struct)
  BY <1>34, <1>11, <1>12, <1>13, <1>14, <1>15, <1>16, <1>17, <1>18
<1>36. DOMAIN fields \subseteq Nat \ {0}
  BY <1>34
<1> QED
  BY <1>1, <1>33, <1>34, <1>35, <1>36 DEF Fits, fields, struct

LEMMA CloudEventBatchFits == Fits(CloudEventBatch)
<1> DEFINE fields == CloudEventBatch.fields
           struct == CloudEventBatch.struct
<1>1. /\ DOMAIN CloudEventBatch.fields = 1..1
      /\ CloudEventBatch.ranges[1].start = 1 /\ CloudEventBatch.ranges[1].index = 0
  BY DEF CloudEventBatch, Descriptor
<1>2. Row(fields[1], 1, "message", "repeated", "events", "n_events", "CloudEvent", Zero)
  BY DEF Row, CloudEventBatch, Descriptor, Field, EmptyString, Zero, Sub, Repeated
<1>3. /\ DOMAIN struct = {"events", "n_events"}
      /\ struct["events"] = Blank(1)
      /\ struct["n_events"] = Blank(1)
  BY DEF CloudEventBatch, Descriptor, CloudEventBatchStruct
<1> HIDE DEF fields, struct
<1>4. FieldFits(fields[1], 1, struct)
  BY <1>2, <1>3, Blanks DEF Row, FieldFits, Types, IsOneOf, Messages
<1>5. \A i, j \in {1} : PairFits(fields[i], fields[j])
  BY <1>2 DEF Row, PairFits, IsOneOf
<1>6. DOMAIN fields = {1}
  BY <1>1 DEF fields
<1>7. \A id \in DOMAIN fields : FieldFits(fields[id], id, struct)
  BY <1>6, <1>4
<1>8. DOMAIN fields \subseteq Nat \ {0}
  BY <1>6
<1> QED
  BY <1>1, <1>5, <1>6, <1>7, <1>8 DEF Fits, fields, struct

(* All tables fit their structs. *)
LEMMA DescriptorsFit == \A m \in Messages : Fits(DescriptorOf(m))
<1>1. /\ Fits(DescriptorOf("SpringMessage")) /\ Fits(DescriptorOf("SpringMessage.HeadersEntry"))
      /\ Fits(DescriptorOf("GenericMessage")) /\ Fits(DescriptorOf("GenericMessage.FieldsEntry"))
      /\ Fits(DescriptorOf("GenericList")) /\ Fits(DescriptorOf("GenericValue"))
  BY SpringMessageFits, SpringHeadersEntryFits, GenericMessageFits, GenericFieldsEntryFits,
     GenericListFits, GenericValueFits, Zenon DEF DescriptorOf
<1>2. /\ Fits(DescriptorOf("Any")) /\ Fits(DescriptorOf("Timestamp"))
      /\ Fits(DescriptorOf("AttributesEntry")) /\ Fits(DescriptorOf("AttributeValue"))
      /\ Fits(DescriptorOf("CloudEvent")) /\ Fits(DescriptorOf("CloudEventBatch"))
  BY ProtobufAnyFits, TimestampFits, AttributesEntryFits, AttributeValueFits, CloudEventFits,
     CloudEventBatchFits, Zenon DEF DescriptorOf
<1> QED
  BY <1>1, <1>2 DEF Messages

(* The library finds a field by its position in the range of numbers. *)
LEMMA FieldAt ==
    ASSUME NEW D, Fits(D), NEW id \in DOMAIN D.fields
    PROVE  FieldOf(D, id) = D.fields[id]
<1>1. id \in Nat /\ D.ranges[1].index + id - D.ranges[1].start + 1 = id
  BY DEF Fits
<1> QED
  BY <1>1 DEF FieldOf

(* The fields of a message, by their numbers. *)
LEMMA FieldsNumbered ==
    ASSUME NEW m \in Messages
    PROVE  LET D == DescriptorOf(m)
           IN /\ {f.id : f \in ToSet(D.fields)} = DOMAIN D.fields
              /\ \A id \in DOMAIN D.fields : FieldNumbered(m, id) = D.fields[id]
<1> DEFINE D == DescriptorOf(m)
<1>1. \A id \in DOMAIN D.fields : D.fields[id].id = id
  BY DescriptorsFit DEF Fits, FieldFits
<1> HIDE DEF D
<1>2. ToSet(D.fields) = {D.fields[id] : id \in DOMAIN D.fields}
  BY DEF ToSet
<1>3. {f.id : f \in ToSet(D.fields)} = DOMAIN D.fields
  BY <1>1, <1>2
<1>4. ASSUME NEW id \in DOMAIN D.fields
      PROVE  (CHOOSE f \in ToSet(D.fields) : f.id = id) = D.fields[id]
  <2>1. D.fields[id] \in ToSet(D.fields) /\ D.fields[id].id = id
    BY <1>1, <1>2
  <2>2. \A f \in ToSet(D.fields) : f.id = id => f = D.fields[id]
    BY <1>1, <1>2
  <2> QED
    BY <2>1, <2>2
<1> QED
  BY <1>3, <1>4 DEF FieldNumbered, D

-----------------------------------------------------------------------------
(* The fields of one message. *)
FieldsFit(m, fields) ==
    LET D == DescriptorOf(m)
    IN /\ m \in Messages /\ DOMAIN fields \subseteq DOMAIN D.fields
       /\ \A id \in DOMAIN fields :
             /\ fields[id] \in Seq(ValuesOf(D.fields[id].type)) \ {<<>>}
             /\ D.fields[id].label # "repeated" => Len(fields[id]) = 1
             /\ \A other \in DOMAIN fields :
                   D.fields[other].member = D.fields[id].member => other = id

(* Words tell their numbers apart. *)
LEMMA IntWords == \A a, b : <<"int", a>> = <<"int", b>> => a = b
OBVIOUS

(* What a struct holds of the field with a number. *)
Holds(n, p, m, fields, id) ==
    LET D == DescriptorOf(m)
        f == D.fields[id]
        at == StructOf(n, p, m, fields).at
    IN /\ id \in DOMAIN fields =>
             \A i \in DOMAIN D.struct[f.member] :
                i \in DOMAIN FieldWords(n, p, id, f, fields[id]) =>
                    at[f.member][i] = FieldWords(n, p, id, f, fields[id])[i]
       /\ id \in DOMAIN fields /\ IsOneOf(f) => at[f.quantifier] = <<<<"int", id>>>>
       /\ id \in DOMAIN fields /\ f.label = "repeated" =>
             at[f.quantifier] = <<<<"int", Len(fields[id])>>>>
       /\ id \notin DOMAIN fields /\ ~IsOneOf(f) => at[f.member] = D.struct[f.member]
       /\ id \notin DOMAIN fields /\ f.label = "repeated" => at[f.quantifier] = <<Zero>>
       /\ id \notin DOMAIN fields /\ IsOneOf(f) => at[f.quantifier][1] # <<"int", id>>

(* Unpacked, a field that was written has its words, and the others are *)
(* blank.                                                               *)
LEMMA StructHolds ==
    ASSUME NEW n, NEW p, NEW m, NEW fields, FieldsFit(m, fields),
           NEW id \in DOMAIN DescriptorOf(m).fields
    PROVE  Holds(n, p, m, fields, id)
<1> DEFINE D == DescriptorOf(m)
           table == D.fields
           f == table[id]
           at == StructOf(n, p, m, fields).at
           of(x) == {k \in DOMAIN fields : table[k].member = x}
           by(x) == {k \in DOMAIN fields : table[k].quantifier = x}
           words(k) == FieldWords(n, p, k, table[k], fields[k])
           count(k) == IF IsOneOf(table[k]) THEN k ELSE Len(fields[k])
           init == D.struct
<1>1. /\ DOMAIN fields \subseteq DOMAIN table /\ id \in DOMAIN table
      /\ \A k, other \in DOMAIN fields : table[other].member = table[k].member => other = k
      /\ \A k \in DOMAIN table : k \in Nat \ {0} /\ FieldFits(table[k], k, init)
      /\ \A j, k \in DOMAIN table : PairFits(table[j], table[k])
      /\ \A k \in DOMAIN table : FieldOf(D, k) = table[k]
  BY DescriptorsFit, FieldAt DEF FieldsFit, Fits
<1>0. \A k \in DOMAIN table : table[k].id = k
  BY <1>1 DEF FieldFits
<1>2. ASSUME NEW x \in DOMAIN init
      PROVE  /\ \A k \in DOMAIN fields : of(x) = {k} =>
                   at[x] = [i \in DOMAIN init[x] |->
                               IF i \in DOMAIN words(k) THEN words(k)[i] ELSE init[x][i]]
             /\ \A k \in DOMAIN fields : of(x) = {} /\ by(x) = {k} => at[x] = <<<<"int", count(k)>>>>
             /\ of(x) = {} /\ by(x) = {} => at[x] = init[x]
  <2> DEFINE of0 == {k \in DOMAIN fields : FieldOf(D, k).member = x}
             by0 == {k \in DOMAIN fields : FieldOf(D, k).quantifier = x}
             words0(k) == FieldWords(n, p, k, FieldOf(D, k), fields[k])
             count0(k) == IF IsOneOf(FieldOf(D, k)) THEN FieldOf(D, k).id ELSE Len(fields[k])
  <2>1. of0 = of(x) /\ by0 = by(x)
    BY <1>1
  <2>2. \A k \in DOMAIN fields : words0(k) = words(k)
    BY <1>1
  <2>3. \A k \in DOMAIN fields : count0(k) = count(k)
    <3>1. \A k \in DOMAIN fields : FieldOf(D, k) = table[k] /\ table[k].id = k
      BY <1>0, <1>1
    <3> HIDE DEF table, D
    <3> QED
      BY <3>1
  <2>4. at[x] = IF of0 # {}
                THEN [i \in DOMAIN init[x] |-> IF i \in DOMAIN words0(CHOOSE k \in of0 : TRUE)
                                               THEN words0(CHOOSE k \in of0 : TRUE)[i]
                                               ELSE init[x][i]]
                ELSE IF by0 # {} THEN <<<<"int", count0(CHOOSE k \in by0 : TRUE)>>>>
                ELSE init[x]
    BY DEF StructOf
  <2>5. \A k : (CHOOSE j \in {k} : TRUE) = k
    OBVIOUS
  <2> HIDE DEF of0, by0, words0, count0, of, by, words, count, at, init
  <2> QED
    BY <2>1, <2>2, <2>3, <2>4, <2>5
<1> HIDE DEF D, at, init, words, count
<1>3. FieldFits(f, id, init) /\ f.member \in DOMAIN init
  BY <1>1 DEF FieldFits
<1>4. ASSUME id \in DOMAIN fields, NEW i \in DOMAIN init[f.member], i \in DOMAIN words(id)
      PROVE  at[f.member][i] = words(id)[i]
  <2>1. of(f.member) = {id}
    BY <1>1, <1>4
  <2> HIDE DEF of, by, table
  <2> QED
    BY <1>2, <1>3, <1>4, <2>1
<1>5. ASSUME f.quantifier # ""
      PROVE  of(f.quantifier) = {} /\ f.quantifier \in DOMAIN init
  <2>1. \A k \in DOMAIN fields : table[k].member # f.quantifier
    BY <1>1 DEF PairFits
  <2> QED
    BY <1>3, <1>5, <2>1 DEF FieldFits
<1>6. ASSUME id \in DOMAIN fields, f.quantifier # ""
      PROVE  at[f.quantifier] = <<<<"int", count(id)>>>>
  <2>1. \A k \in DOMAIN fields : table[k].quantifier = f.quantifier => k = id
    BY <1>1, <1>6 DEF PairFits
  <2>2. by(f.quantifier) = {id}
    BY <1>6, <2>1
  <2> HIDE DEF of, by, table
  <2> QED
    BY <1>2, <1>5, <1>6, <2>2
<1>7. ASSUME id \notin DOMAIN fields, ~IsOneOf(f)
      PROVE  at[f.member] = init[f.member]
  <2>1. \A k \in DOMAIN fields : table[k].member # f.member
    <3>1. ASSUME NEW k \in DOMAIN fields, table[k].member = f.member PROVE FALSE
      <4>1. PairFits(f, table[k]) /\ f.id = id /\ table[k].id = k
        BY <1>0, <1>1
      <4> QED
        BY <1>7, <3>1, <4>1 DEF PairFits
    <3> QED
      BY <3>1
  <2>2. \A k \in DOMAIN fields : table[k].quantifier # f.member
    BY <1>1 DEF PairFits
  <2>3. of(f.member) = {} /\ by(f.member) = {}
    BY <2>1, <2>2
  <2> HIDE DEF of, by, table
  <2> QED
    BY <1>2, <1>3, <2>3
<1>8. ASSUME id \notin DOMAIN fields, f.label = "repeated"
      PROVE  at[f.quantifier] = <<Zero>>
  <2>1. f.quantifier # "" /\ init[f.quantifier] = <<Zero>>
    BY <1>3, <1>8 DEF FieldFits
  <2>2. \A k \in DOMAIN fields : table[k].quantifier # f.quantifier
    <3>1. ASSUME NEW k \in DOMAIN fields, table[k].quantifier = f.quantifier PROVE FALSE
      <4>1. PairFits(f, table[k]) /\ f.id = id /\ table[k].id = k
        BY <1>0, <1>1
      <4>2. PairFits(table[k], f)
        BY <1>1, <3>1
      <4>3. ~IsOneOf(f)
        BY <1>8 DEF IsOneOf
      <4> QED
        BY <1>8, <2>1, <3>1, <4>1, <4>2, <4>3 DEF PairFits
    <3> QED
      BY <3>1
  <2>3. by(f.quantifier) = {}
    BY <2>2
  <2> HIDE DEF of, by, table
  <2> QED
    BY <1>2, <1>5, <2>1, <2>3
<1>9. ASSUME id \notin DOMAIN fields, IsOneOf(f)
      PROVE  at[f.quantifier][1] # <<"int", id>>
  <2>1. f.quantifier # "" /\ init[f.quantifier] = <<Zero>> /\ id # 0
    BY <1>1, <1>3, <1>9 DEF FieldFits, IsOneOf
  <2>2. CASE by(f.quantifier) = {}
    <3>1. at[f.quantifier] = <<Zero>>
      <4> HIDE DEF of, by, table
      <4> QED
        BY <1>2, <1>5, <2>1, <2>2
    <3> QED
      <4>1. at[f.quantifier][1] = <<"int", 0>>
        BY <3>1 DEF Zero
      <4> QED
        BY <2>1, <4>1, IntWords
  <2>3. ASSUME NEW k \in by(f.quantifier)
        PROVE  at[f.quantifier][1] # <<"int", id>>
    <3>1. /\ k \in DOMAIN fields /\ k \in DOMAIN table /\ k # id
          /\ table[k].quantifier = f.quantifier
      BY <1>1, <1>9, <2>3
    <3>2. table[k].member = f.member /\ table[k].id = k /\ f.id = id
      BY <1>0, <1>1, <2>1, <3>1 DEF PairFits
    <3>3. IsOneOf(table[k])
      BY <1>1, <3>1, <3>2 DEF PairFits
    <3>4. \A j \in DOMAIN fields : table[j].quantifier = f.quantifier => j = k
      <4> SUFFICES ASSUME NEW j \in DOMAIN fields, table[j].quantifier = f.quantifier PROVE j = k
        OBVIOUS
      <4>1. PairFits(table[j], f)
        BY <1>1
      <4>2. table[j].member = f.member
        BY <2>1, <4>1 DEF PairFits
      <4> QED
        BY <1>1, <3>1, <3>2, <4>2
    <3>5. by(f.quantifier) = {k}
      BY <3>1, <3>4
    <3>6. at[f.quantifier] = <<<<"int", count(k)>>>>
      <4> HIDE DEF of, by, table
      <4> QED
        BY <1>2, <1>5, <2>1, <3>1, <3>5
    <3> QED
      BY <3>1, <3>3, <3>6 DEF count
  <2> QED
    BY <2>2, <2>3
<1>10. /\ id \in DOMAIN fields /\ IsOneOf(f) => at[f.quantifier] = <<<<"int", id>>>>
       /\ id \in DOMAIN fields /\ f.label = "repeated" =>
             at[f.quantifier] = <<<<"int", Len(fields[id])>>>>
  <2>1. IsOneOf(f) => f.quantifier # "" /\ count(id) = id
    BY DEF IsOneOf, count
  <2>2. f.label = "repeated" => f.quantifier # "" /\ count(id) = Len(fields[id])
    BY <1>3 DEF IsOneOf, count, FieldFits
  <2> QED
    BY <1>6, <2>1, <2>2
<1> QED
  BY <1>4, <1>7, <1>8, <1>9, <1>10 DEF Holds, D, at, init, words

Value(type, value) ==
    /\ type = "message" => value = Within
    /\ type \in {"string", "bytes"} => value = <<"text", value[2]>>
    /\ type \notin {"string", "bytes", "message"} => value = <<"number", value[2]>>

(* What a value of each type looks like. *)
LEMMA ValueOf == \A type : \A value \in ValuesOf(type) : Value(type, value)
<1> SUFFICES ASSUME NEW type, NEW value \in ValuesOf(type) PROVE Value(type, value)
  OBVIOUS
<1>1. CASE type = "message"
  BY <1>1 DEF ValuesOf, Value
<1>2. CASE type \in {"string", "bytes"}
  <2>1. value \in {"text"} \X STRING
    BY <1>2 DEF ValuesOf
  <2> QED
    BY <1>2, <2>1 DEF Value
<1>3. CASE type \notin {"string", "bytes", "message"}
  <2>1. value \in {"number"} \X Nat
    BY <1>3 DEF ValuesOf
  <2> QED
    BY <1>3, <2>1 DEF Value
<1> QED
  BY <1>1, <1>2, <1>3

(* Members of one word and of two. *)
LEMMA OneWord == \A w, words : words = <<w>> => 1 \in DOMAIN words /\ words[1] = w
OBVIOUS

LEMMA IntWord == \A v, words : words = <<<<"int", v>>>> => words[1] = <<"int", v>> /\ words[1][2] = v
OBVIOUS

LEMMA TwoWords ==
    \A v, w, words : words = <<v, w>> => /\ 1 \in DOMAIN words /\ words[1] = v
                                        /\ 2 \in DOMAIN words /\ words[2] = w
OBVIOUS

(* The words of a field that is written, and of one that is not. *)
Written(at, n, p, id, f, values) ==
    /\ f.label = "repeated" =>
          at[f.member][1] = At(n, p, id) /\ at[f.quantifier] = <<<<"int", Len(values)>>>>
    /\ f.type = "string" => at[f.member][1] = At(n, p, id)
    /\ f.type = "message" /\ f.label # "repeated" =>
          at[f.member][1] = At(n, Append(p, <<id, 1>>), 0)
    /\ f.type = "bytes" =>
          /\ at[f.member][1] = LengthOf(values[1][2])
          /\ values[1] = <<"text", "">> => at[f.member][2] = Zero
          /\ values[1] # <<"text", "">> => at[f.member][2] = At(n, p, id)
    /\ f.type \notin {"string", "bytes", "message"} => at[f.member][1] = <<"int", values[1][2]>>
    /\ IsOneOf(f) => at[f.quantifier] = <<<<"int", id>>>>

Unwritten(at, f) ==
    /\ ~IsOneOf(f) => /\ at[f.member][1] = f.default
                      /\ f.type = "bytes" => at[f.member][2] = Zero
    /\ f.label = "repeated" => at[f.quantifier] = <<Zero>>
    /\ IsOneOf(f) => at[f.quantifier][1] # <<"int", f.id>>

(* unpack writes the words of the fields that are in the encoding. *)
LEMMA WrittenWords ==
    ASSUME NEW n, NEW p, NEW m, NEW fields, FieldsFit(m, fields), NEW id \in DOMAIN fields
    PROVE  Written(StructOf(n, p, m, fields).at, n, p, id, DescriptorOf(m).fields[id], fields[id])
<1> DEFINE D == DescriptorOf(m)
           f == D.fields[id]
           at == StructOf(n, p, m, fields).at
           values == fields[id]
           words == FieldWords(n, p, id, f, values)
           init == D.struct
<1>1. id \in DOMAIN D.fields /\ FieldFits(f, id, init)
  BY DescriptorsFit DEF FieldsFit, Fits
<1>2. /\ \A i \in DOMAIN init[f.member] : i \in DOMAIN words => at[f.member][i] = words[i]
      /\ IsOneOf(f) => at[f.quantifier] = <<<<"int", id>>>>
      /\ f.label = "repeated" => at[f.quantifier] = <<<<"int", Len(values)>>>>
  <2>1. Holds(n, p, m, fields, id)
    BY <1>1, StructHolds
  <2> QED
    BY <2>1 DEF Holds
<1> HIDE DEF D, f, at, words, init
<1>3. 1 \in DOMAIN init[f.member] /\ (f.type = "bytes" => 2 \in DOMAIN init[f.member])
  <2>1. init[f.member] \in {<<Zero>>, <<Zero, Zero>>, <<EmptyString>>}
    BY <1>1 DEF FieldFits
  <2>2. f.type = "bytes" => init[f.member] = <<Zero, Zero>>
    BY <1>1 DEF FieldFits
  <2> QED
    BY <2>1, <2>2
<1>4. ASSUME f.label = "repeated"
      PROVE  /\ at[f.member][1] = At(n, p, id)
             /\ at[f.quantifier] = <<<<"int", Len(values)>>>>
  <2>1. words = <<At(n, p, id)>> /\ 1 \in DOMAIN words /\ words[1] = At(n, p, id)
    BY <1>4, OneWord DEF words, FieldWords, IsHeld
  <2> QED
    BY <1>2, <1>3, <1>4, <2>1
<1>5. ASSUME f.type = "string"
      PROVE  at[f.member][1] = At(n, p, id)
  <2>1. words = <<At(n, p, id)>> /\ 1 \in DOMAIN words /\ words[1] = At(n, p, id)
    BY <1>5, OneWord DEF words, FieldWords, IsHeld
  <2> QED
    BY <1>2, <1>3, <2>1
<1>6. ASSUME f.type = "message", f.label # "repeated"
      PROVE  at[f.member][1] = At(n, Append(p, <<id, 1>>), 0)
  <2>1. words = <<At(n, Append(p, <<id, 1>>), 0)>>
    BY <1>6 DEF words, FieldWords
  <2>2. 1 \in DOMAIN words /\ words[1] = At(n, Append(p, <<id, 1>>), 0)
    BY <2>1, OneWord
  <2> QED
    BY <1>2, <1>3, <2>2
<1>7. ASSUME f.type = "bytes"
      PROVE  /\ at[f.member][1] = LengthOf(values[1][2])
             /\ values[1] = <<"text", "">> => at[f.member][2] = Zero
             /\ values[1] # <<"text", "">> => at[f.member][2] = At(n, p, id)
  <2>1. f.label # "repeated"
    BY <1>1, <1>7 DEF FieldFits
  <2> DEFINE held == IF IsHeld(f, values) THEN At(n, p, id) ELSE Zero
  <2>2. words = <<LengthOf(values[1][2]), held>>
    BY <1>7, <2>1 DEF words, FieldWords
  <2>3. /\ values[1] = <<"text", "">> => held = Zero
        /\ values[1] # <<"text", "">> => held = At(n, p, id)
    BY <1>7, <2>1 DEF IsHeld
  <2> HIDE DEF held
  <2>5. /\ 1 \in DOMAIN words /\ words[1] = LengthOf(values[1][2])
        /\ 2 \in DOMAIN words /\ words[2] = held
    BY <2>2, TwoWords
  <2>4. at[f.member][1] = words[1] /\ at[f.member][2] = words[2]
    BY <1>2, <1>3, <1>7, <2>5
  <2> QED
    BY <2>3, <2>4, <2>5
<1>8. ASSUME f.type \notin {"string", "bytes", "message"}
      PROVE  at[f.member][1] = <<"int", values[1][2]>>
  <2>1. f.label # "repeated"
    BY <1>1, <1>8 DEF FieldFits
  <2>2. words = [i \in 1..Words(f.type) |-> IF i = 1 THEN <<"int", values[1][2]>> ELSE Zero]
    BY <1>8, <2>1 DEF words, FieldWords
  <2>3. Words(f.type) \in {1, 2}
    BY DEF Words
  <2>4. 1 \in DOMAIN words /\ words[1] = <<"int", values[1][2]>>
    <3>1. DOMAIN words = 1..Words(f.type)
      BY <2>2
    <3> QED
      <4>1. 1 \in 1..Words(f.type)
        BY <2>3
      <4> QED
        BY <2>2, <3>1, <4>1
  <2> QED
    BY <1>2, <1>3, <2>4
<1>9. ASSUME IsOneOf(f)
      PROVE  at[f.quantifier] = <<<<"int", id>>>>
  BY <1>2, <1>9
<1> QED
  BY <1>4, <1>5, <1>6, <1>7, <1>8, <1>9 DEF Written, D, f, at

(* It leaves the words of all others as the initializer has them. *)
LEMMA UnwrittenWords ==
    ASSUME NEW n, NEW p, NEW m, NEW fields, FieldsFit(m, fields),
           NEW id \in DOMAIN DescriptorOf(m).fields, id \notin DOMAIN fields
    PROVE  Unwritten(StructOf(n, p, m, fields).at, DescriptorOf(m).fields[id])
<1> DEFINE D == DescriptorOf(m)
           f == D.fields[id]
           at == StructOf(n, p, m, fields).at
           init == D.struct
<1>1. FieldFits(f, id, init)
  BY DescriptorsFit DEF FieldsFit, Fits
<1>2. /\ ~IsOneOf(f) => at[f.member] = init[f.member]
      /\ f.label = "repeated" => at[f.quantifier] = <<Zero>>
      /\ IsOneOf(f) => at[f.quantifier][1] # <<"int", id>>
  <2>1. Holds(n, p, m, fields, id)
    BY StructHolds
  <2> QED
    BY <2>1 DEF Holds
<1> HIDE DEF D, f, at, init
<1>3. ~IsOneOf(f) => /\ init[f.member][1] = f.default
                     /\ f.type = "bytes" => init[f.member][2] = Zero
  <2>1. ASSUME ~IsOneOf(f), f.type = "string" PROVE init[f.member][1] = f.default
    <3>1. init[f.member] = <<EmptyString>> /\ f.default = EmptyString
      BY <1>1, <2>1 DEF FieldFits
    <3> QED
      BY <3>1, OneWord
  <2>2. ASSUME ~IsOneOf(f), f.type # "string" PROVE init[f.member][1] = f.default
    <3>1. init[f.member] \in {<<Zero>>, <<Zero, Zero>>} /\ f.default = Zero
      BY <1>1, <2>2 DEF FieldFits
    <3> QED
      BY <3>1, OneWord, TwoWords
  <2>3. f.type = "bytes" => init[f.member] = <<Zero, Zero>>
    BY <1>1 DEF FieldFits
  <2> QED
    BY <2>1, <2>2, <2>3, TwoWords
<1>4. f.id = id
  BY <1>1 DEF FieldFits
<1> QED
  BY <1>2, <1>3, <1>4 DEF Unwritten, D, f, at

(* What the heap has of a field that is written. *)
Kept(h, n, p, id, f, values) ==
    /\ IsHeld(f, values) => /\ <<n, p, id>> \in DOMAIN h.objects
                            /\ h.objects[<<n, p, id>>] = PartOf(n, p, id, f, values)
    /\ f.type = "message" =>
          \A i \in DOMAIN values : <<n, Append(p, <<id, i>>), 0>> \in DOMAIN h.objects

ValuesFit(f, values) ==
    /\ values \in Seq(ValuesOf(f.type)) \ {<<>>}
    /\ f.label # "repeated" => Len(values) = 1

(* A field that is not there if it has its default. *)
Tells(f, values) == IsOneOf(f) \/ values[1] \notin {<<"text", "">>, <<"number", 0>>}

(* The elements of a field that leads to other messages. *)
Leads(h, struct, n, p, id, f, values) ==
    f.type = "message" =>
        /\ DOMAIN Elements(h, struct, f) = DOMAIN values
        /\ \A i \in DOMAIN values : Elements(h, struct, f)[i][1] = At(n, Append(p, <<id, i>>), 0)

(* What lies at the address of a part of a message. *)
LEMMA AddressesAt ==
    ASSUME NEW h, NEW n, NEW p, NEW id
    PROVE  /\ IsAllocated(h, At(n, p, id)) <=> <<n, p, id>> \in DOMAIN h.objects
           /\ Object(h, At(n, p, id)) = h.objects[<<n, p, id>>]
           /\ At(n, p, id)[1] = "heap"
           /\ At(n, p, id) # Zero /\ At(n, p, id) # EmptyString
BY DEF IsAllocated, Object, At, Zero, EmptyString

(* Values of different kinds differ. *)
LEMMA Kinds ==
    /\ \A a, b : <<"text", a>> = <<"text", b>> => a = b
    /\ \A a, b : <<"number", a>> = <<"number", b>> => a = b
    /\ \A a, b : <<"text", a>> # <<"number", b>>
    /\ \A a : Within # <<"text", a>> /\ Within # <<"number", a>>
BY DEF Within

(* What pack finds of a field that unpack read. *)
LEMMA WrittenElements ==
    ASSUME NEW h, NEW struct, NEW n, NEW p, NEW id, NEW f, NEW init, NEW values,
           FieldFits(f, id, init), ValuesFit(f, values), Written(struct.at, n, p, id, f, values),
           Kept(h, n, p, id, f, values)
    PROVE  /\ f.label = "repeated" =>
                 Elements(h, struct, f) =
                     [i \in DOMAIN values |-> <<At(n, Append(p, <<id, i>>), 0)>>]
           /\ f.label # "repeated" /\ Tells(f, values) =>
                 Elements(h, struct, f) = <<struct.at[f.member]>>
           /\ f.label # "repeated" /\ ~Tells(f, values) /\ f.type # "string" =>
                 Elements(h, struct, f) = <<>>
           /\ f.label # "repeated" /\ f.type \in {"string", "message"} =>
                 Elements(h, struct, f) = <<struct.at[f.member]>>
<1> DEFINE at == struct.at
           words == at[f.member]
<1>1. ASSUME f.label = "repeated"
      PROVE  Elements(h, struct, f) = [i \in DOMAIN values |-> <<At(n, Append(p, <<id, i>>), 0)>>]
  <2>1. words[1] = At(n, p, id) /\ at[f.quantifier][1][2] = Len(values)
    BY <1>1, IntWord DEF Written
  <2>2. Len(values) \in Nat \ {0} /\ DOMAIN values = 1..Len(values)
    BY DEF ValuesFit
  <2>3. /\ IsAllocated(h, At(n, p, id))
        /\ Object(h, At(n, p, id)) = PartOf(n, p, id, f, values)
    BY <1>1, AddressesAt DEF Kept, IsHeld
  <2>4. PartOf(n, p, id, f, values).items = [i \in DOMAIN values |-> At(n, Append(p, <<id, i>>), 0)]
    BY <1>1 DEF PartOf
  <2>5. Elements(h, struct, f) = [i \in 1..Len(values) |-> <<Object(h, At(n, p, id)).items[i]>>]
    BY <1>1, <2>1, <2>2, <2>3 DEF Elements
  <2> QED
    BY <2>2, <2>3, <2>4, <2>5
<1>2. ASSUME f.label # "repeated"
      PROVE  /\ Tells(f, values) => IsSet(f, struct)
             /\ ~Tells(f, values) /\ f.type # "string" => ~IsSet(f, struct)
             /\ f.type \in {"string", "message"} => IsSet(f, struct)
  <2>1. values[1] \in ValuesOf(f.type)
    BY <1>2 DEF ValuesFit
  <2>2. Value(f.type, values[1])
    BY <2>1, ValueOf
  <2>3. f.default \in {Zero, EmptyString}
    BY DEF FieldFits
  <2>4. f.type \in {"string", "message"} => words[1] \notin {Zero, f.default}
    BY <1>2, <2>3, AddressesAt DEF Written
  <2>5. ASSUME f.type = "bytes" PROVE words[1] = Zero <=> values[1] = <<"text", "">>
    <3>1. values[1] = <<"text", values[1][2]>> /\ words[1] = LengthOf(values[1][2])
      BY <2>2, <2>5 DEF Written, Value
    <3>2. LengthOf(values[1][2]) = Zero <=> values[1][2] = ""
      BY DEF LengthOf, Zero
    <3>3. values[1][2] = "" <=> values[1] = <<"text", "">>
      BY <3>1, Kinds
    <3> QED
      BY <3>1, <3>2, <3>3
  <2>6. ASSUME f.type \notin {"string", "bytes", "message"}
        PROVE  words[1] = Zero <=> values[1] = <<"number", 0>>
    <3>1. values[1] = <<"number", values[1][2]>> /\ words[1] = <<"int", values[1][2]>>
      BY <2>2, <2>6 DEF Written, Value
    <3>2. words[1] = Zero <=> values[1][2] = 0
      BY <3>1, IntWords DEF Zero
    <3>3. values[1][2] = 0 <=> values[1] = <<"number", 0>>
      BY <3>1, Kinds
    <3> QED
      BY <3>2, <3>3
  <2>7. IsOneOf(f) => at[f.quantifier][1] = <<"int", f.id>>
    <3>1. f.id = id
      BY DEF FieldFits
    <3>2. IsOneOf(f) => at[f.quantifier] = <<<<"int", id>>>>
      BY DEF Written
    <3> QED
      BY <3>1, <3>2, IntWord
  <2>8. /\ f.type = "message" => values[1] \notin {<<"text", "">>, <<"number", 0>>}
        /\ f.type \in {"string", "bytes"} => values[1] # <<"number", 0>>
        /\ f.type \notin {"string", "bytes", "message"} => values[1] # <<"text", "">>
    <3>1. f.type = "message" => values[1] = Within
      BY <2>2 DEF Value
    <3>2. f.type \in {"string", "bytes"} => values[1] = <<"text", values[1][2]>>
      BY <2>2 DEF Value
    <3>3. f.type \notin {"string", "bytes", "message"} => values[1] = <<"number", values[1][2]>>
      BY <2>2 DEF Value
    <3>4. f.type = "message" => values[1] \notin {<<"text", "">>, <<"number", 0>>}
      BY <3>1, Kinds
    <3>5. f.type \in {"string", "bytes"} => values[1] # <<"number", 0>>
      BY <3>2, Kinds
    <3>6. f.type \notin {"string", "bytes", "message"} => values[1] # <<"text", "">>
      BY <3>3, Kinds
    <3> QED
      BY <3>4, <3>5, <3>6
  <2>9. CASE IsOneOf(f)
    BY <2>4, <2>7, <2>9 DEF IsSet, Tells
  <2>10. CASE ~IsOneOf(f)
    <3>1. IsSet(f, struct) <=> words[1] # Zero
      BY <2>10 DEF IsSet
    <3>2. CASE f.type \in {"string", "message"}
      BY <2>4, <2>8, <3>1, <3>2 DEF Tells
    <3>3. CASE f.type \notin {"string", "message"}
      BY <2>5, <2>6, <2>8, <2>10, <3>1, <3>3 DEF Tells
    <3> QED
      BY <3>2, <3>3
  <2> QED
    BY <2>9, <2>10
<1>3. f.label # "repeated" => Elements(h, struct, f) = IF IsSet(f, struct) THEN <<words>> ELSE <<>>
  BY DEF Elements
<1> QED
  BY <1>1, <1>2, <1>3

(* A field with a single element, and with none. *)
LEMMA OneElement ==
    \A e, v, f, g : e = <<v>> => DOMAIN e = {1} /\ e[1] = v /\ Len(e) = 1
OBVIOUS

LEMMA NoElement == \A g : g = <<>> <=> g = [i \in {} |-> i]
OBVIOUS

(* pack leaves a single element out if it is the default, and not in a *)
(* union.                                                              *)
LEMMA PackedOne ==
    ASSUME NEW h, NEW struct, NEW f, NEW words, Elements(h, struct, f) = <<words>>
    PROVE  /\ ~IsOneOf(f) /\ PackValue(h, f, words) = <<"text", "">> => PackField(h, struct, f) = <<>>
           /\ IsOneOf(f) \/ PackValue(h, f, words) # <<"text", "">> =>
                 PackField(h, struct, f) = <<PackValue(h, f, words)>>
<1> DEFINE elements == Elements(h, struct, f)
           v == PackValue(h, f, words)
           values == [i \in DOMAIN elements |-> PackValue(h, f, elements[i])]
<1>1. DOMAIN elements = {1} /\ elements[1] = words
  BY OneElement
<1> HIDE DEF elements
<1>2. values = [i \in {1} |-> PackValue(h, f, elements[i])]
  BY <1>1
<1>3. values = [i \in {1} |-> v]
  BY <1>1, <1>2
<1>4. values = <<v>>
  <2> HIDE DEF v, values
  <2> QED
    BY <1>3
<1>5. PackField(h, struct, f) =
         IF ~IsOneOf(f) /\ values = <<<<"text", "">>>> THEN <<>> ELSE values
  BY DEF PackField, elements
<1> HIDE DEF v, values
<1>6. values = <<<<"text", "">>>> <=> v = <<"text", "">>
  BY <1>4
<1> QED
  BY <1>4, <1>5, <1>6 DEF v

(* Of a field without elements pack writes nothing. *)
LEMMA PackedNone ==
    ASSUME NEW h, NEW struct, NEW f, Elements(h, struct, f) = <<>>
    PROVE  PackField(h, struct, f) = <<>>
BY DEF PackField

(* pack writes of a field what unpack read. *)
LEMMA WrittenPacked ==
    ASSUME NEW h, NEW struct, NEW n, NEW p, NEW id, NEW f, NEW init, NEW values,
           FieldFits(f, id, init), ValuesFit(f, values), Written(struct.at, n, p, id, f, values),
           Kept(h, n, p, id, f, values)
    PROVE  /\ Tells(f, values) => PackField(h, struct, f) = values
           /\ ~Tells(f, values) => PackField(h, struct, f) = <<>>
<1> DEFINE at == struct.at
           words == at[f.member]
           v == PackValue(h, f, words)
<1>1. ASSUME f.label = "repeated"
      PROVE  Tells(f, values) /\ PackField(h, struct, f) = values
  <2>1. f.type = "message" /\ values \in Seq(ValuesOf("message")) \ {<<>>}
    BY <1>1 DEF FieldFits, ValuesFit
  <2>2. \A i \in DOMAIN values : values[i] = Within
    BY <2>1, ValueOf DEF Value
  <2>3. \A i \in DOMAIN values :
           PackValue(h, f, <<At(n, Append(p, <<id, i>>), 0)>>) = Within
    <3> TAKE i \in DOMAIN values
    <3> DEFINE a == At(n, Append(p, <<id, i>>), 0)
    <3>1. IsAllocated(h, a) /\ a # Zero /\ a[1] = "heap"
      BY <2>1, AddressesAt DEF Kept
    <3>2. Pointer(f, <<a>>) = a
      <4> HIDE DEF a
      <4> QED
        BY <2>1 DEF Pointer
    <3> HIDE DEF a
    <3> DEFINE word == <<a>>
    <3>3. Pointer(f, word) = a /\ f.type = "message"
      BY <2>1, <3>2
    <3> HIDE DEF word
    <3>4. PackValue(h, f, word) = Within
      BY <3>1, <3>3 DEF PackValue
    <3> QED
      BY <3>4 DEF word, a
  <2>4. Elements(h, struct, f) = [i \in DOMAIN values |-> <<At(n, Append(p, <<id, i>>), 0)>>]
    BY <1>1, WrittenElements
  <2>5. [i \in DOMAIN values |-> PackValue(h, f, <<At(n, Append(p, <<id, i>>), 0)>>)] = values
    BY <2>1, <2>2, <2>3
  <2>6. [i \in DOMAIN Elements(h, struct, f) |-> PackValue(h, f, Elements(h, struct, f)[i])] = values
    <3> DEFINE elements == Elements(h, struct, f)
               made(i) == <<At(n, Append(p, <<id, i>>), 0)>>
    <3>1. elements = [i \in DOMAIN values |-> made(i)]
      BY <2>4
    <3>2. [i \in DOMAIN values |-> PackValue(h, f, made(i))] = values
      BY <2>5
    <3> HIDE DEF elements, made
    <3>3. [i \in DOMAIN elements |-> PackValue(h, f, elements[i])] = values
      BY <3>1, <3>2
    <3> QED
      BY <3>3 DEF elements
  <2>7. 1 \in DOMAIN values /\ values[1] = Within
    BY <2>1, <2>2
  <2>8. values[1] \notin {<<"text", "">>, <<"number", 0>>}
    BY <2>7, Kinds
  <2>9. values # <<<<"text", "">>>>
    BY <2>8, OneElement
  <2> QED
    BY <2>6, <2>8, <2>9 DEF PackField, Tells
<1>2. ASSUME f.label # "repeated"
      PROVE  /\ values = <<values[1]>> /\ Value(f.type, values[1])
  <2>1. values \in Seq(ValuesOf(f.type)) /\ Len(values) = 1
    BY <1>2 DEF ValuesFit
  <2>2. values[1] \in ValuesOf(f.type)
    BY <2>1
  <2>3. values = <<values[1]>>
    BY <2>1
  <2> QED
    BY <2>2, <2>3, ValueOf
<1>3. ASSUME f.label # "repeated", f.type \in {"string", "message"}
      PROVE  v = values[1]
  <2>1. Pointer(f, words) = words[1]
    BY <1>3 DEF Pointer
  <2>2. CASE f.type = "string"
    <3>1. words[1] = At(n, p, id) /\ IsHeld(f, values)
      BY <2>2 DEF Written, IsHeld
    <3>2. /\ IsAllocated(h, At(n, p, id)) /\ At(n, p, id)[1] = "heap" /\ At(n, p, id) # Zero
          /\ Object(h, At(n, p, id)) = PartOf(n, p, id, f, values)
      BY <3>1, AddressesAt DEF Kept
    <3>3. PartOf(n, p, id, f, values).text = values[1][2]
      BY <1>3 DEF PartOf
    <3>4. v = <<"text", values[1][2]>>
      <4>1. Pointer(f, words) = At(n, p, id)
        BY <2>1, <3>1
      <4> QED
        BY <2>2, <3>2, <3>3, <4>1 DEF PackValue
    <3>5. values[1] = <<"text", values[1][2]>>
      BY <1>2, <1>3, <2>2 DEF Value
    <3> QED
      BY <3>4, <3>5
  <2>3. CASE f.type = "message"
    <3> DEFINE a == At(n, Append(p, <<id, 1>>), 0)
    <3>1. words[1] = a
      BY <1>3, <2>3 DEF Written
    <3>2. 1 \in DOMAIN values
      BY <1>3 DEF ValuesFit
    <3>3. IsAllocated(h, a) /\ a[1] = "heap" /\ a # Zero
      BY <2>3, <3>2, AddressesAt DEF Kept
    <3> HIDE DEF a
    <3>4. v = Within
      BY <2>1, <2>3, <3>1, <3>3 DEF PackValue
    <3> QED
      BY <1>2, <1>3, <2>3, <3>4 DEF Value
  <2> QED
    BY <1>3, <2>2, <2>3
<1>4. ASSUME f.type = "bytes"
      PROVE  v = values[1]
  <2>1. Pointer(f, words) = words[2] /\ f.label # "repeated"
    BY <1>4 DEF Pointer, FieldFits
  <2>2. values[1] = <<"text", values[1][2]>>
    BY <1>2, <1>4, <2>1 DEF Value
  <2>3. CASE values[1] = <<"text", "">>
    <3>1. words[2] = Zero
      BY <1>4, <2>3 DEF Written
    <3>2. Zero[1] # "static"
      BY DEF Zero
    <3> QED
      BY <1>4, <2>1, <2>3, <3>1, <3>2 DEF PackValue
  <2>4. CASE values[1] # <<"text", "">>
    <3>1. words[2] = At(n, p, id) /\ IsHeld(f, values)
      BY <1>4, <2>4 DEF Written, IsHeld
    <3>2. /\ IsAllocated(h, At(n, p, id)) /\ At(n, p, id)[1] = "heap" /\ At(n, p, id) # Zero
          /\ Object(h, At(n, p, id)) = PartOf(n, p, id, f, values)
      BY <3>1, AddressesAt DEF Kept
    <3>3. PartOf(n, p, id, f, values).text = values[1][2]
      BY <2>1 DEF PartOf
    <3>4. v = <<"text", values[1][2]>>
      <4>1. Pointer(f, words) = At(n, p, id)
        BY <2>1, <3>1
      <4> QED
        BY <1>4, <3>2, <3>3, <4>1 DEF PackValue
    <3> QED
      BY <2>2, <3>4
  <2> QED
    BY <2>3, <2>4
<1>5. ASSUME f.type \notin {"string", "bytes", "message"}
      PROVE  v = values[1]
  <2>1. f.label # "repeated"
    BY <1>5 DEF FieldFits
  <2>2. values[1] = <<"number", values[1][2]>>
    BY <1>2, <1>5, <2>1 DEF Value
  <2>3. words[1][2] = values[1][2]
    <3>1. words[1] = <<"int", values[1][2]>>
      BY <1>5 DEF Written
    <3> QED
      BY <3>1
  <2>4. v = <<"number", words[1][2]>>
    BY <1>5 DEF PackValue
  <2> QED
    BY <2>2, <2>3, <2>4
<1>6. f.label # "repeated" => v = values[1]
  BY <1>3, <1>4, <1>5
<1> HIDE DEF v, words
<1>7. ASSUME f.label # "repeated", Tells(f, values)
      PROVE  PackField(h, struct, f) = values
  <2>1. Elements(h, struct, f) = <<words>>
    BY <1>7, WrittenElements DEF words
  <2>2. IsOneOf(f) \/ v # <<"text", "">>
    BY <1>6, <1>7 DEF Tells
  <2>3. PackField(h, struct, f) = <<v>>
    BY <2>1, <2>2, PackedOne DEF v
  <2> QED
    BY <1>2, <1>6, <1>7, <2>3
<1>8. ASSUME f.label # "repeated", ~Tells(f, values)
      PROVE  PackField(h, struct, f) = <<>>
  <2>1. CASE f.type # "string"
    <3>1. Elements(h, struct, f) = <<>>
      BY <1>8, <2>1, WrittenElements
    <3> QED
      BY <3>1, PackedNone
  <2>2. CASE f.type = "string"
    <3>1. Elements(h, struct, f) = <<words>>
      BY <1>8, <2>2, WrittenElements DEF words
    <3>2. ~IsOneOf(f) /\ values[1] \in {<<"text", "">>, <<"number", 0>>}
      BY <1>8 DEF Tells
    <3>3. values[1] = <<"text", values[1][2]>>
      BY <1>2, <1>8, <2>2 DEF Value
    <3>4. values[1] # <<"number", 0>>
      BY <3>3, Kinds
    <3> QED
      <4>1. v = <<"text", "">> /\ ~IsOneOf(f)
        BY <1>6, <1>8, <3>2, <3>4
      <4> QED
        BY <3>1, <4>1, PackedOne DEF v
  <2> QED
    BY <2>1, <2>2
<1> QED
  BY <1>1, <1>7, <1>8

(* A field of messages leads to the structs that unpack made of them. *)
LEMMA WrittenLeads ==
    ASSUME NEW h, NEW struct, NEW n, NEW p, NEW id, NEW f, NEW init, NEW values,
           FieldFits(f, id, init), ValuesFit(f, values), Written(struct.at, n, p, id, f, values),
           Kept(h, n, p, id, f, values)
    PROVE  Leads(h, struct, n, p, id, f, values)
<1> SUFFICES ASSUME f.type = "message" PROVE Leads(h, struct, n, p, id, f, values)
  BY DEF Leads
<1> DEFINE elements == Elements(h, struct, f)
           words == struct.at[f.member]
           made(i) == At(n, Append(p, <<id, i>>), 0)
<1>1. CASE f.label = "repeated"
  <2>1. elements = [i \in DOMAIN values |-> <<made(i)>>]
    BY <1>1, WrittenElements
  <2> HIDE DEF elements, made
  <2>2. DOMAIN elements = DOMAIN values /\ \A i \in DOMAIN values : elements[i][1] = made(i)
    BY <2>1
  <2> QED
    BY <2>2 DEF Leads, elements, made
<1>2. CASE f.label # "repeated"
  <2>1. elements = <<words>>
    BY <1>2, WrittenElements
  <2>2. words[1] = made(1)
    BY <1>2 DEF Written
  <2>3. DOMAIN values = {1}
    BY <1>2 DEF ValuesFit
  <2> HIDE DEF elements, made, words
  <2>4. DOMAIN elements = {1} /\ elements[1] = words
    BY <2>1, OneElement
  <2>5. DOMAIN elements = DOMAIN values /\ \A i \in DOMAIN values : elements[i][1] = made(i)
    BY <2>2, <2>3, <2>4
  <2> QED
    BY <2>5 DEF Leads, elements, made
<1> QED
  BY <1>1, <1>2

(* free takes of a field the object unpack made for it, if it made one. *)
LEMMA WrittenOwned ==
    ASSUME NEW struct, NEW n, NEW p, NEW id, NEW f, NEW init, NEW values,
           FieldFits(f, id, init), ValuesFit(f, values), Written(struct.at, n, p, id, f, values)
    PROVE  /\ IsOwned(struct, f) <=> IsHeld(f, values)
           /\ IsHeld(f, values) => Pointer(f, struct.at[f.member]) = At(n, p, id)
<1> DEFINE at == struct.at
           words == at[f.member]
<1>0. IsOneOf(f) => at[f.quantifier][1] = <<"int", f.id>>
  <2>1. f.id = id
    BY DEF FieldFits
  <2>2. IsOneOf(f) => at[f.quantifier] = <<<<"int", id>>>>
    BY DEF Written
  <2> QED
    BY <2>1, <2>2, IntWord
<1>1. CASE f.label = "repeated"
  <2>1. f.type = "message" /\ words[1] = At(n, p, id) /\ at[f.quantifier] = <<<<"int", Len(values)>>>>
    BY <1>1 DEF Written, FieldFits
  <2>2. at[f.quantifier][1] = <<"int", Len(values)>> /\ Len(values) # 0
    BY <2>1, IntWord DEF ValuesFit
  <2>3. at[f.quantifier][1] # Zero
    BY <2>2, IntWords DEF Zero
  <2> QED
    BY <1>1, <2>1, <2>3 DEF IsOwned, IsHeld, Pointer
<1>2. CASE f.label # "repeated" /\ f.type = "string"
  <2>1. words[1] = At(n, p, id) /\ Pointer(f, words) = words[1]
    BY <1>2 DEF Written, Pointer
  <2>2. f.default \in {Zero, EmptyString}
    BY DEF FieldFits
  <2>3. Pointer(f, words) \notin {Zero, f.default}
    BY <2>1, <2>2, AddressesAt
  <2> HIDE DEF at, words
  <2>4. IsOwned(struct, f) /\ IsHeld(f, values)
    BY <1>0, <1>2, <2>3 DEF IsOwned, IsHeld, words, at
  <2> QED
    BY <2>1, <2>4 DEF words, at
<1>3. CASE f.label # "repeated" /\ f.type = "bytes"
  <2>1. Pointer(f, words) = words[2] /\ f.default = Zero
    BY <1>3 DEF Pointer, FieldFits
  <2>2. /\ values[1] = <<"text", "">> => words[2] = Zero
        /\ values[1] # <<"text", "">> => words[2] = At(n, p, id)
    BY <1>3 DEF Written
  <2>3. Pointer(f, words) \notin {Zero, f.default} <=> values[1] # <<"text", "">>
    BY <2>1, <2>2, AddressesAt
  <2>4. IsHeld(f, values) <=> values[1] # <<"text", "">>
    BY <1>3 DEF IsHeld
  <2> HIDE DEF at, words
  <2>5. IsOwned(struct, f) <=> Pointer(f, words) \notin {Zero, f.default}
    BY <1>0, <1>3 DEF IsOwned, words, at
  <2> QED
    BY <2>1, <2>2, <2>3, <2>4, <2>5 DEF words, at
<1>4. CASE f.label # "repeated" /\ f.type \notin {"string", "bytes"}
  BY <1>4 DEF IsOwned, IsHeld
<1> QED
  BY <1>1, <1>2, <1>3, <1>4

(* A field that is not written is not packed, leads nowhere and holds nothing. *)
LEMMA UnwrittenPacked ==
    ASSUME NEW h, NEW struct, NEW f, NEW id, NEW init,
           FieldFits(f, id, init), Unwritten(struct.at, f)
    PROVE  /\ PackField(h, struct, f) = <<>>
           /\ f.type = "message" => Elements(h, struct, f) = <<>>
           /\ ~IsOwned(struct, f)
<1> DEFINE at == struct.at
           words == at[f.member]
<1>0. f.default \in {Zero, EmptyString} /\ (f.type = "string" <=> f.default = EmptyString)
  BY DEF FieldFits
<1>1. CASE IsOneOf(f)
  <2>1. at[f.quantifier][1] # <<"int", f.id>> /\ f.label # "repeated"
    BY <1>1 DEF Unwritten, IsOneOf
  <2>2. ~IsSet(f, struct)
    BY <1>1, <2>1 DEF IsSet
  <2>3. Elements(h, struct, f) = <<>>
    BY <2>1, <2>2 DEF Elements
  <2>4. ~IsOwned(struct, f)
    BY <1>1, <2>1 DEF IsOwned
  <2> QED
    BY <2>3, <2>4, PackedNone
<1>2. CASE f.label = "repeated"
  <2>1. at[f.quantifier] = <<Zero>>
    BY <1>2 DEF Unwritten
  <2>2. at[f.quantifier][1] = Zero /\ at[f.quantifier][1][2] = 0
    BY <2>1 DEF Zero
  <2>3. Elements(h, struct, f) = <<>>
    BY <1>2, <2>2 DEF Elements
  <2>4. ~IsOwned(struct, f)
    BY <1>2, <2>2 DEF IsOwned
  <2> QED
    BY <2>3, <2>4, PackedNone
<1>3. CASE ~IsOneOf(f) /\ f.label # "repeated" /\ f.type = "string"
  <2>1. words[1] = EmptyString /\ Pointer(f, words) = EmptyString
    BY <1>0, <1>3 DEF Unwritten, Pointer
  <2>2. ~IsOwned(struct, f)
    BY <1>0, <1>3, <2>1 DEF IsOwned
  <2>3. EmptyString # Zero
    BY Blanks
  <2>4. Elements(h, struct, f) = <<words>>
    BY <1>3, <2>1, <2>3 DEF Elements, IsSet
  <2>5. PackValue(h, f, words) = <<"text", "">>
    <3>1. EmptyString[1] = "static" /\ EmptyString[2] = ""
      BY DEF EmptyString
    <3> QED
      BY <1>3, <2>1, <3>1 DEF PackValue
  <2> QED
    BY <1>3, <2>2, <2>4, <2>5, PackedOne
<1>4. CASE ~IsOneOf(f) /\ f.label # "repeated" /\ f.type # "string"
  <2>1. words[1] = Zero /\ (f.type = "bytes" => words[2] = Zero)
    BY <1>0, <1>4 DEF Unwritten
  <2>2. Elements(h, struct, f) = <<>>
    BY <1>4, <2>1 DEF Elements, IsSet
  <2>3. ~IsOwned(struct, f)
    BY <1>4, <2>1 DEF IsOwned, Pointer
  <2> QED
    BY <2>2, <2>3, PackedNone
<1> QED
  BY <1>1, <1>2, <1>3, <1>4

-----------------------------------------------------------------------------
(* A struct that holds a message, whose parts the heap has. *)
StructFits(h, struct, n, p, m, fields) ==
    /\ struct.of = m
    /\ \A id \in DOMAIN DescriptorOf(m).fields :
          LET f == DescriptorOf(m).fields[id]
          IN /\ id \in DOMAIN fields =>
                   /\ Written(struct.at, n, p, id, f, fields[id])
                   /\ Kept(h, n, p, id, f, fields[id])
             /\ id \notin DOMAIN fields => Unwritten(struct.at, f)

(* The fields that pack writes, the messages below, and what a struct holds. *)
Telling(m, fields) ==
    [id \in {id \in DOMAIN fields : Tells(DescriptorOf(m).fields[id], fields[id])} |-> fields[id]]

Visit(n, p) == [path |-> p, at |-> At(n, p, 0)]

StepsOf(m, fields) ==
    UNION {{<<id, i>> : i \in DOMAIN fields[id]} :
              id \in {id \in DOMAIN fields : DescriptorOf(m).fields[id].type = "message"}}

Children(n, p, m, fields) == {Visit(n, Append(p, step)) : step \in StepsOf(m, fields)}

HeldBy(m, fields) == {id \in DOMAIN fields : IsHeld(DescriptorOf(m).fields[id], fields[id])}

(* A struct that fits a message, field by field. *)
LEMMA FieldOfStruct ==
    ASSUME NEW h, NEW struct, NEW n, NEW p, NEW m, NEW fields,
           FieldsFit(m, fields), StructFits(h, struct, n, p, m, fields),
           NEW id \in DOMAIN DescriptorOf(m).fields
    PROVE  LET f == DescriptorOf(m).fields[id]
           IN /\ FieldFits(f, id, DescriptorOf(m).struct)
              /\ id \in DOMAIN fields =>
                    /\ ValuesFit(f, fields[id]) /\ fields[id] # <<>>
                    /\ Written(struct.at, n, p, id, f, fields[id])
                    /\ Kept(h, n, p, id, f, fields[id])
              /\ id \notin DOMAIN fields => Unwritten(struct.at, f)
<1>1. FieldFits(DescriptorOf(m).fields[id], id, DescriptorOf(m).struct)
  BY DescriptorsFit DEF FieldsFit, Fits
<1>2. id \in DOMAIN fields =>
         ValuesFit(DescriptorOf(m).fields[id], fields[id]) /\ fields[id] # <<>>
  BY DEF FieldsFit, ValuesFit
<1> QED
  BY <1>1, <1>2 DEF StructFits

(* The position of a field in its table is its number. *)
LEMMA FieldIds ==
    ASSUME NEW m \in Messages
    PROVE  \A id \in DOMAIN DescriptorOf(m).fields : DescriptorOf(m).fields[id].id = id
BY DescriptorsFit DEF Fits, FieldFits

(* pack writes the fields that tell something, with the values that were *)
(* read.                                                                 *)
LEMMA PackedFields ==
    ASSUME NEW h, NEW struct, NEW n, NEW p, NEW m, NEW fields,
           FieldsFit(m, fields), StructFits(h, struct, n, p, m, fields),
           NEW id \in DOMAIN DescriptorOf(m).fields
    PROVE  LET f == DescriptorOf(m).fields[id]
           IN /\ PackField(h, struct, f) # <<>> <=> id \in DOMAIN fields /\ Tells(f, fields[id])
              /\ id \in DOMAIN fields /\ Tells(f, fields[id]) =>
                    PackField(h, struct, f) = fields[id]
<1> DEFINE f == DescriptorOf(m).fields[id]
<1>1. FieldFits(f, id, DescriptorOf(m).struct)
  BY FieldOfStruct
<1>2. CASE id \in DOMAIN fields
  <2>1. /\ ValuesFit(f, fields[id]) /\ fields[id] # <<>>
        /\ Written(struct.at, n, p, id, f, fields[id])
        /\ Kept(h, n, p, id, f, fields[id])
    BY <1>2, FieldOfStruct
  <2> HIDE DEF f
  <2>2. /\ Tells(f, fields[id]) => PackField(h, struct, f) = fields[id]
        /\ ~Tells(f, fields[id]) => PackField(h, struct, f) = <<>>
    BY <1>1, <2>1, WrittenPacked
  <2> QED
    BY <1>2, <2>1, <2>2 DEF f
<1>3. CASE id \notin DOMAIN fields
  <2>1. Unwritten(struct.at, f)
    BY <1>3, FieldOfStruct
  <2> HIDE DEF f
  <2>2. PackField(h, struct, f) = <<>>
    BY <1>1, <2>1, UnwrittenPacked
  <2> QED
    BY <1>3, <2>2 DEF f
<1> QED
  BY <1>2, <1>3

(* What pack writes of one struct. *)
LEMMA PackedStruct ==
    ASSUME NEW h, NEW struct, NEW n, NEW p, NEW m, NEW fields,
           FieldsFit(m, fields), StructFits(h, struct, n, p, m, fields)
    PROVE  PackStruct(h, struct) = [of |-> m, fields |-> Telling(m, fields)]
<1> DEFINE table == DescriptorOf(m).fields
           set == {i \in DOMAIN table : PackField(h, struct, table[i]) # <<>>}
           names == {table[i].id : i \in set}
           one(id) == CHOOSE i \in DOMAIN table : table[i].id = id
           telling == {id \in DOMAIN fields : Tells(table[id], fields[id])}
<1>1. struct.of = m /\ DOMAIN fields \subseteq DOMAIN table
  BY DEF StructFits, FieldsFit
<1>2. \A id \in DOMAIN table : table[id].id = id
  BY FieldIds DEF FieldsFit
<1>3. \A id \in DOMAIN table :
         /\ id \in set <=> id \in telling
         /\ id \in telling => PackField(h, struct, table[id]) = fields[id]
  BY PackedFields
<1>4. PackStruct(h, struct) =
         [of |-> m, fields |-> [id \in names |-> PackField(h, struct, table[one(id)])]]
  BY <1>1 DEF PackStruct
<1>5. telling \subseteq DOMAIN table
  BY <1>1
<1> HIDE DEF table
<1>6. set = telling
  BY <1>3, <1>5
<1>7. names = telling
  BY <1>2, <1>5, <1>6
<1>8. \A id \in DOMAIN table : one(id) = id
  BY <1>2
<1>9. \A id \in telling : PackField(h, struct, table[one(id)]) = fields[id]
  BY <1>3, <1>5, <1>8
<1> HIDE DEF names, set, one
<1>10. [id \in names |-> PackField(h, struct, table[one(id)])] = [id \in telling |-> fields[id]]
  BY <1>7, <1>9
<1> QED
  BY <1>4, <1>10 DEF Telling, table

(* The messages a struct leads to. *)
LEMMA BelowStruct ==
    ASSUME NEW h, NEW struct, NEW n, NEW p, NEW at, NEW m, NEW fields,
           FieldsFit(m, fields), StructFits(h, struct, n, p, m, fields),
           IsAllocated(h, at), Object(h, at) = struct
    PROVE  Below(h, [path |-> p, at |-> at]) = Children(n, p, m, fields)
<1> DEFINE table == DescriptorOf(m).fields
           elements(f) == Elements(h, struct, f)
           of(f) == {[path |-> Append(p, <<f.id, i>>), at |-> elements(f)[i][1]] : i \in DOMAIN elements(f)}
           subs == {f \in ToSet(table) : f.type = "message"}
           mine(id) == {Visit(n, Append(p, <<id, i>>)) : i \in DOMAIN fields[id]}
           ids == {id \in DOMAIN fields : table[id].type = "message"}
<1>1. struct.of = m /\ DOMAIN fields \subseteq DOMAIN table
  BY DEF StructFits, FieldsFit
<1>2. Below(h, [path |-> p, at |-> at]) = UNION {of(f) : f \in subs}
  BY <1>1 DEF Below
<1>3. \A id \in DOMAIN table : table[id].id = id
  BY FieldIds DEF FieldsFit
<1>4. ASSUME NEW id \in DOMAIN table, table[id].type = "message"
      PROVE  /\ id \in DOMAIN fields => of(table[id]) = mine(id)
             /\ id \notin DOMAIN fields => of(table[id]) = {}
  <2> DEFINE f == table[id]
             e == elements(f)
  <2>0. FieldFits(f, id, DescriptorOf(m).struct)
    BY FieldOfStruct
  <2>1. CASE id \in DOMAIN fields
    <3>1. /\ ValuesFit(f, fields[id])
          /\ Written(struct.at, n, p, id, f, fields[id])
          /\ Kept(h, n, p, id, f, fields[id])
      BY <2>1, FieldOfStruct
    <3> DEFINE v == fields[id]
    <3> HIDE DEF f, v
    <3>2. Leads(h, struct, n, p, id, f, v)
      BY <2>0, <3>1, WrittenLeads DEF v
    <3>3. /\ DOMAIN e = DOMAIN v
          /\ \A i \in DOMAIN v : e[i][1] = At(n, Append(p, <<id, i>>), 0)
      BY <1>4, <3>2 DEF Leads, f
    <3>4. f.id = id
      BY <1>3 DEF f
    <3> HIDE DEF e
    <3>5. {[path |-> Append(p, <<f.id, i>>), at |-> e[i][1]] : i \in DOMAIN e} =
          {[path |-> Append(p, <<id, i>>), at |-> At(n, Append(p, <<id, i>>), 0)] : i \in DOMAIN v}
      BY <3>3, <3>4
    <3>6. of(f) = {[path |-> Append(p, <<f.id, i>>), at |-> e[i][1]] : i \in DOMAIN e}
      BY DEF e
    <3>7. mine(id) = {[path |-> Append(p, <<id, i>>), at |-> At(n, Append(p, <<id, i>>), 0)] : i \in DOMAIN v}
      BY DEF Visit, v
    <3> QED
      BY <2>1, <3>5, <3>6, <3>7 DEF f
  <2>2. CASE id \notin DOMAIN fields
    <3>1. Unwritten(struct.at, f)
      BY <2>2, FieldOfStruct
    <3>2. Elements(h, struct, f) = <<>>
      BY <1>4, <2>0, <3>1, UnwrittenPacked
    <3> QED
      BY <2>2, <3>2
  <2> QED
    BY <2>1, <2>2
<1>5. ToSet(table) = {table[id] : id \in DOMAIN table}
  BY DEF ToSet
<1> HIDE DEF of, mine, table
<1>6. UNION {of(f) : f \in subs} = UNION {of(table[id]) : id \in {id \in DOMAIN table : table[id].type = "message"}}
  BY <1>5
<1>7. UNION {of(table[id]) : id \in {id \in DOMAIN table : table[id].type = "message"}}
      = UNION {mine(id) : id \in ids}
  BY <1>1, <1>4
<1>8. UNION {mine(id) : id \in ids} = Children(n, p, m, fields)
  <2> DEFINE steps(id) == {<<id, i>> : i \in DOMAIN fields[id]}
  <2>1. \A id : mine(id) = {Visit(n, Append(p, step)) : step \in steps(id)}
    BY DEF mine
  <2>2. StepsOf(m, fields) = UNION {steps(id) : id \in ids}
    BY DEF StepsOf, table
  <2> HIDE DEF steps, ids
  <2> QED
    BY <2>1, <2>2 DEF Children
<1> QED
  BY <1>2, <1>6, <1>7, <1>8

(* The objects a struct has of its own. *)
LEMMA OwnedStruct ==
    ASSUME NEW h, NEW struct, NEW n, NEW p, NEW at, NEW m, NEW fields,
           FieldsFit(m, fields), StructFits(h, struct, n, p, m, fields),
           IsAllocated(h, at), Object(h, at) = struct
    PROVE  Owns(h, [path |-> p, at |-> at]) =
               {[path |-> p, field |-> 0, at |-> at]} \cup
               {[path |-> p, field |-> id, at |-> At(n, p, id)] : id \in HeldBy(m, fields)}
<1> DEFINE table == DescriptorOf(m).fields
           owned == {f \in ToSet(table) : IsOwned(struct, f)}
           of(f) == [path |-> p, field |-> f.id, at |-> Pointer(f, struct.at[f.member])]
           mine(id) == [path |-> p, field |-> id, at |-> At(n, p, id)]
<1>1. struct.of = m /\ DOMAIN fields \subseteq DOMAIN table
  BY DEF StructFits, FieldsFit
<1>2. Owns(h, [path |-> p, at |-> at]) =
         {[path |-> p, field |-> 0, at |-> at]} \cup {of(f) : f \in owned}
  BY <1>1 DEF Owns
<1>3. \A id \in DOMAIN table : table[id].id = id
  BY FieldIds DEF FieldsFit
<1>4. ASSUME NEW id \in DOMAIN table
      PROVE  /\ IsOwned(struct, table[id]) <=> id \in HeldBy(m, fields)
             /\ id \in HeldBy(m, fields) => of(table[id]) = mine(id)
  <2> DEFINE f == table[id]
  <2>0. FieldFits(f, id, DescriptorOf(m).struct)
    BY FieldOfStruct
  <2>1. CASE id \in DOMAIN fields
    <3>1. /\ ValuesFit(f, fields[id])
          /\ Written(struct.at, n, p, id, f, fields[id])
      BY <2>1, FieldOfStruct
    <3>3. id \in HeldBy(m, fields) <=> IsHeld(f, fields[id])
      BY <2>1 DEF HeldBy
    <3>4. f.id = id
      BY <1>3
    <3> DEFINE v == fields[id]
    <3> HIDE DEF f, v
    <3>2. /\ IsOwned(struct, f) <=> IsHeld(f, v)
          /\ IsHeld(f, v) => Pointer(f, struct.at[f.member]) = At(n, p, id)
      BY <2>0, <3>1, WrittenOwned DEF v
    <3> QED
      BY <3>2, <3>3, <3>4 DEF v, f
  <2>2. CASE id \notin DOMAIN fields
    <3>1. Unwritten(struct.at, f)
      BY <2>2, FieldOfStruct
    <3>2. ~IsOwned(struct, f)
      BY <2>0, <3>1, UnwrittenPacked
    <3> QED
      BY <2>2, <3>2 DEF HeldBy
  <2> QED
    BY <2>1, <2>2
<1>5. ToSet(table) = {table[id] : id \in DOMAIN table}
  BY DEF ToSet
<1>6. HeldBy(m, fields) \subseteq DOMAIN table
  BY <1>1 DEF HeldBy
<1> HIDE DEF of, mine, table
<1>7. {of(f) : f \in owned} = {mine(id) : id \in HeldBy(m, fields)}
  BY <1>4, <1>5, <1>6
<1> QED
  BY <1>2, <1>7 DEF mine

-----------------------------------------------------------------------------
(* Induction over the naturals, without an operator as a parameter. *)
LEMMA Least == \A T \in SUBSET Nat : T # {} => \E x \in T : \A y \in T : ~(y < x)
<1> SUFFICES ASSUME NEW T \in SUBSET Nat, T # {} PROVE \E x \in T : \A y \in T : ~(y < x)
  OBVIOUS
<1> DEFINE R == OpToRel(<, Nat)
<1>1. IsWellFoundedOn(R, Nat)
  BY NatLessThanWellFounded
<1>2. \E x \in T : \A y \in T : ~(<<y, x>> \in R)
  <2> HIDE DEF R
  <2> QED BY <1>1, WFMin
<1>3. \A x, y \in Nat : y < x => <<y, x>> \in R
  BY DEF OpToRel
<1> QED BY <1>2, <1>3

(* What holds of 0 and of each successor holds of all. *)
LEMMA NatInd ==
    ASSUME NEW S, 0 \in S, \A n \in Nat : n \in S => n + 1 \in S
    PROVE  \A n \in Nat : n \in S
<1> DEFINE T == {n \in Nat : n \notin S}
<1>1. T # {} => FALSE
  <2> SUFFICES ASSUME T # {} PROVE FALSE
    OBVIOUS
  <2>1. PICK x \in T : \A y \in T : ~(y < x)
    BY Least
  <2>2. x # 0 /\ x - 1 \in Nat /\ x - 1 \notin T
    BY <2>1
  <2> QED BY <2>1, <2>2
<1> QED BY <1>1

(* The walk through a message, level by level. *)
LEMMA ReachedLevels ==
    ASSUME NEW h, NEW pointer, NEW f, DOMAIN f = Nat, f = [d \in Nat |-> f[d]],
           f[0] = {[path |-> <<>>, at |-> pointer]},
           \A d \in Nat : f[d + 1] = UNION {Below(h, visit) : visit \in f[d]}
    PROVE  Reached(h, pointer) = UNION {f[d] : d \in 0..Depth}
<1> DEFINE Step(g, d) == IF d = 0 THEN {[path |-> <<>>, at |-> pointer]}
                         ELSE UNION {Below(h, visit) : visit \in g[d - 1]}
           level == CHOOSE g : g = [d \in Nat |-> Step(g, d)]
<1>1. f = [d \in Nat |-> Step(f, d)]
  <2>1. ASSUME NEW d \in Nat PROVE f[d] = Step(f, d)
    <3>1. CASE d = 0
      BY <3>1
    <3>2. CASE d # 0
      <4>1. PICK e \in Nat : d = e + 1 /\ e = d - 1
        BY <3>2
      <4>2. f[e + 1] = UNION {Below(h, visit) : visit \in f[e]}
        OBVIOUS
      <4> QED
        BY <3>2, <4>1, <4>2
    <3> QED
      BY <3>1, <3>2
  <2> HIDE DEF Step
  <2> QED
    BY <2>1
<1>2. level = [d \in Nat |-> Step(level, d)]
  BY <1>1
<1> DEFINE S == {d \in Nat : level[d] = f[d]}
<1>3. 0 \in S
  <2>1. level[0] = Step(level, 0)
    BY <1>2
  <2> QED
    BY <2>1
<1>4. ASSUME NEW d \in Nat, d \in S
      PROVE  d + 1 \in S
  <2>1. level[d + 1] = Step(level, d + 1)
    <3> HIDE DEF Step, level
    <3> QED
      BY <1>2
  <2>2. Step(level, d + 1) = UNION {Below(h, visit) : visit \in level[d]}
    <3>1. d + 1 # 0 /\ (d + 1) - 1 = d
      OBVIOUS
    <3> HIDE DEF level
    <3> QED
      BY <3>1
  <2>3. level[d] = f[d]
    BY <1>4
  <2>4. f[d + 1] = UNION {Below(h, visit) : visit \in f[d]}
    OBVIOUS
  <2>5. d + 1 \in Nat
    OBVIOUS
  <2> HIDE DEF level, Step
  <2>6. level[d + 1] = f[d + 1]
    BY <2>1, <2>2, <2>3, <2>4
  <2> QED
    BY <2>5, <2>6
<1> HIDE DEF S
<1>5. \A d \in Nat : d \in S
  BY <1>3, <1>4, NatInd
<1>6. Reached(h, pointer) = UNION {level[d] : d \in 0..Depth}
  BY DEF Reached
<1>7. \A d \in 0..Depth : level[d] = f[d]
  BY <1>5, DepthAssumption DEF S
<1> HIDE DEF level
<1> QED
  BY <1>6, <1>7

-----------------------------------------------------------------------------
(* An encoded message, with the fields by their numbers. *)
FieldAtPath(wire, p, id) == DescriptorOf(wire[p].of).fields[id]
StepsAt(wire, p) == StepsOf(wire[p].of, wire[p].fields)

TreeFits(name, wire) ==
    /\ <<>> \in DOMAIN wire /\ wire[<<>>].of = name
    /\ \A p \in DOMAIN wire :
          /\ p \in Seq(Nat \X Nat) /\ Len(p) <= Depth
          /\ FieldsFit(wire[p].of, wire[p].fields)
          /\ \A step \in StepsAt(wire, p) :
                /\ Append(p, step) \in DOMAIN wire
                /\ wire[Append(p, step)].of = FieldAtPath(wire, p, step[1]).message
          /\ p = <<>> \/ \E q \in DOMAIN wire : \E step \in StepsAt(wire, q) : p = Append(q, step)

(* Fields of messages have messages as values, and no others have. *)
LEMMA WithinMessages ==
    ASSUME NEW m, NEW fields, FieldsFit(m, fields), NEW id \in DOMAIN fields,
           NEW i \in DOMAIN fields[id]
    PROVE  fields[id][i] = Within <=> DescriptorOf(m).fields[id].type = "message"
<1> DEFINE type == DescriptorOf(m).fields[id].type
           value == fields[id][i]
<1>1. fields[id] \in Seq(ValuesOf(type))
  BY DEF FieldsFit
<1>2. value \in ValuesOf(type)
  BY <1>1
<1> HIDE DEF type, value
<1>3. Value(type, value)
  BY <1>2, ValueOf
<1>4. type = "message" => value = Within
  BY <1>3 DEF Value
<1>5. type # "message" => \E a : value = <<"text", a>> \/ value = <<"number", a>>
  BY <1>3 DEF Value
<1>6. type # "message" => value # Within
  BY <1>5, Kinds
<1> QED
  BY <1>4, <1>6 DEF type, value

(* What Java writes is a tree of messages that fit their tables. *)
LEMMA EncodingFits ==
    ASSUME NEW name, NEW wire, IsEncoding(name, wire)
    PROVE  TreeFits(name, wire)
<1>1. ASSUME NEW p \in DOMAIN wire
      PROVE  FieldsFit(wire[p].of, wire[p].fields)
  <2> DEFINE m == wire[p].of
             fields == wire[p].fields
             table == DescriptorOf(m).fields
  <2>1. /\ m \in Messages /\ DOMAIN fields \subseteq {f.id : f \in ToSet(table)}
        /\ \A id \in DOMAIN fields :
              /\ fields[id] \in Seq(ValuesOf(FieldNumbered(m, id).type)) \ {<<>>}
              /\ FieldNumbered(m, id).label # "repeated" => Len(fields[id]) = 1
              /\ \A other \in DOMAIN fields :
                    FieldNumbered(m, other).member = FieldNumbered(m, id).member => other = id
    BY DEF IsEncoding
  <2>2. DOMAIN fields \subseteq DOMAIN table
    BY <2>1, FieldsNumbered
  <2>3. \A id \in DOMAIN fields : FieldNumbered(m, id) = table[id]
    BY <2>1, <2>2, FieldsNumbered
  <2> HIDE DEF m, fields
  <2> QED
    BY <2>1, <2>2, <2>3 DEF FieldsFit, m, fields
<1>2. ASSUME NEW p \in DOMAIN wire, NEW id \in DOMAIN wire[p].fields
      PROVE  /\ FieldNumbered(wire[p].of, id) = FieldAtPath(wire, p, id)
             /\ \A i \in DOMAIN wire[p].fields[id] :
                   wire[p].fields[id][i] = Within <=> FieldAtPath(wire, p, id).type = "message"
  <2>1. FieldsFit(wire[p].of, wire[p].fields)
    BY <1>1
  <2>2. wire[p].of \in Messages /\ id \in DOMAIN DescriptorOf(wire[p].of).fields
    BY <2>1 DEF FieldsFit
  <2> QED
    BY <2>1, <2>2, FieldsNumbered, WithinMessages DEF FieldAtPath
<1>3. ASSUME NEW p \in DOMAIN wire
      PROVE  /\ p \in Seq(Nat \X Nat) /\ Len(p) <= Depth
             /\ \A id \in DOMAIN wire[p].fields : \A i \in DOMAIN wire[p].fields[id] :
                   wire[p].fields[id][i] = Within =>
                      /\ Append(p, <<id, i>>) \in DOMAIN wire
                      /\ wire[Append(p, <<id, i>>)].of = FieldNumbered(wire[p].of, id).message
             /\ p = <<>> \/ \E q \in DOMAIN wire : \E id \in DOMAIN wire[q].fields :
                   \E i \in DOMAIN wire[q].fields[id] :
                      wire[q].fields[id][i] = Within /\ p = Append(q, <<id, i>>)
  BY DEF IsEncoding
<1>4. <<>> \in DOMAIN wire /\ wire[<<>>].of = name
  BY DEF IsEncoding
<1>5. ASSUME NEW p \in DOMAIN wire
      PROVE  StepsAt(wire, p) =
                 UNION {{<<id, i>> : i \in {i \in DOMAIN wire[p].fields[id] :
                                               wire[p].fields[id][i] = Within}} :
                           id \in DOMAIN wire[p].fields}
  <2>1. \A step \in StepsAt(wire, p) :
           \E id \in DOMAIN wire[p].fields : \E i \in DOMAIN wire[p].fields[id] :
              step = <<id, i>> /\ wire[p].fields[id][i] = Within
    BY <1>2 DEF StepsAt, StepsOf, FieldAtPath
  <2>2. \A id \in DOMAIN wire[p].fields : \A i \in DOMAIN wire[p].fields[id] :
           wire[p].fields[id][i] = Within => <<id, i>> \in StepsAt(wire, p)
    BY <1>2 DEF StepsAt, StepsOf, FieldAtPath
  <2> QED
    BY <2>1, <2>2
<1>6. ASSUME NEW p \in DOMAIN wire, NEW step \in StepsAt(wire, p)
      PROVE  /\ Append(p, step) \in DOMAIN wire
             /\ wire[Append(p, step)].of = FieldAtPath(wire, p, step[1]).message
  <2>1. PICK id \in DOMAIN wire[p].fields : \E i \in DOMAIN wire[p].fields[id] :
            step = <<id, i>> /\ wire[p].fields[id][i] = Within
    BY <1>5
  <2> QED
    BY <1>2, <1>3, <2>1
<1>7. ASSUME NEW p \in DOMAIN wire, p # <<>>
      PROVE  \E q \in DOMAIN wire : \E step \in StepsAt(wire, q) : p = Append(q, step)
  <2>1. PICK q \in DOMAIN wire : \E id \in DOMAIN wire[q].fields :
            \E i \in DOMAIN wire[q].fields[id] :
               wire[q].fields[id][i] = Within /\ p = Append(q, <<id, i>>)
    BY <1>3, <1>7
  <2> QED
    BY <1>5, <2>1
<1> QED
  BY <1>1, <1>3, <1>4, <1>6, <1>7 DEF TreeFits

(* Paths end with the step that was taken last. *)
LEMMA Steps ==
    ASSUME NEW q \in Seq(Nat \X Nat), NEW step \in Nat \X Nat
    PROVE  /\ Append(q, step) # <<>> /\ Append(q, step) \in Seq(Nat \X Nat)
           /\ Len(Append(q, step)) = Len(q) + 1
           /\ Front(Append(q, step)) = q /\ Last(Append(q, step)) = step
BY DEF Front, Last

(* The path to a message tells its type. *)
LEMMA TreeMessages ==
    ASSUME NEW name, NEW wire, TreeFits(name, wire), NEW p \in DOMAIN wire
    PROVE  MessageAt(name, wire, p) = wire[p].of
<1>1. CASE p = <<>>
  BY <1>1 DEF MessageAt, TreeFits
<1>2. CASE p # <<>>
  <2>1. PICK q \in DOMAIN wire : \E step \in StepsAt(wire, q) : p = Append(q, step)
    BY <1>2 DEF TreeFits
  <2>2. PICK step \in StepsAt(wire, q) : p = Append(q, step)
    BY <2>1
  <2>3. PICK id \in DOMAIN wire[q].fields : \E i \in DOMAIN wire[q].fields[id] : step = <<id, i>>
    BY DEF StepsAt, StepsOf
  <2>4. PICK i \in DOMAIN wire[q].fields[id] : step = <<id, i>>
    BY <2>3
  <2>5. wire[p].of = FieldAtPath(wire, q, id).message
    BY <2>2, <2>4 DEF TreeFits
  <2>6. /\ FieldsFit(wire[q].of, wire[q].fields) /\ q \in Seq(Nat \X Nat)
        /\ id \in DOMAIN DescriptorOf(wire[q].of).fields /\ wire[q].of \in Messages
    BY DEF TreeFits, FieldsFit
  <2>7. step \in Nat \X Nat
    <3>1. id \in Nat
      BY <2>6, DescriptorsFit DEF Fits
    <3>2. wire[q].fields[id] \in Seq(ValuesOf(DescriptorOf(wire[q].of).fields[id].type))
      BY <2>6 DEF FieldsFit
    <3>3. i \in Nat
      BY <3>2
    <3> QED
      BY <2>4, <3>1, <3>3
  <2>8. Front(p) = q /\ Last(p) = step
    BY <2>2, <2>6, <2>7, Steps
  <2>9. FieldOf(DescriptorOf(wire[q].of), id) = FieldAtPath(wire, q, id)
    BY <2>6, DescriptorsFit, FieldAt DEF FieldAtPath
  <2>10. Last(p)[1] = id
    BY <2>4, <2>8
  <2> QED
    BY <1>2, <2>5, <2>8, <2>9, <2>10 DEF MessageAt
<1> QED
  BY <1>1, <1>2

-----------------------------------------------------------------------------
(* What unpack allocates. *)
Made(n, wire) ==
    {<<n, p, 0>> : p \in DOMAIN wire} \cup
    UNION {{<<n, p, id>> : id \in HeldBy(wire[p].of, wire[p].fields)} : p \in DOMAIN wire}

HoldsTree(h, n, wire) ==
    \A p \in DOMAIN wire :
        /\ <<n, p, 0>> \in DOMAIN h.objects
        /\ StructFits(h, h.objects[<<n, p, 0>>], n, p, wire[p].of, wire[p].fields)

(* Addresses differ if any of their parts do. *)
LEMMA Triples ==
    \A n, p, id, m, q, k : <<n, p, id>> = <<m, q, k>> <=> n = m /\ p = q /\ id = k
OBVIOUS

(* The fields of a message in the tree are ones of its table. *)
LEMMA FieldsOf ==
    ASSUME NEW name, NEW wire, TreeFits(name, wire), NEW p \in DOMAIN wire
    PROVE  /\ wire[p].of \in Messages /\ FieldsFit(wire[p].of, wire[p].fields)
           /\ DOMAIN wire[p].fields \subseteq DOMAIN DescriptorOf(wire[p].of).fields
           /\ \A id \in DOMAIN DescriptorOf(wire[p].of).fields :
                 id \in Nat \ {0} /\ FieldOf(DescriptorOf(wire[p].of), id) = FieldAtPath(wire, p, id)
<1>1. FieldsFit(wire[p].of, wire[p].fields)
  BY DEF TreeFits
<1>2. wire[p].of \in Messages /\ DOMAIN wire[p].fields \subseteq DOMAIN DescriptorOf(wire[p].of).fields
  BY <1>1 DEF FieldsFit
<1>3. Fits(DescriptorOf(wire[p].of))
  BY <1>2, DescriptorsFit
<1>4. \A id \in DOMAIN DescriptorOf(wire[p].of).fields : id \in Nat \ {0}
  BY <1>3 DEF Fits
<1> QED
  BY <1>1, <1>2, <1>3, <1>4, FieldAt DEF FieldAtPath

(* unpack makes the objects of the tree and leaves all others alone. *)
LEMMA UnpackMakes ==
    ASSUME NEW functions, NEW h, NEW wire, TreeFits(functions.descriptor, wire),
           h = [objects |-> h.objects, next |-> h.next, fault |-> h.fault]
    PROVE  LET n == h.next
               new == Unpack(functions, h, wire)
           IN /\ new = [objects |-> new.objects, next |-> n + 1, fault |-> h.fault]
              /\ DOMAIN new.objects = Made(n, wire) \cup DOMAIN h.objects
              /\ \A a \in DOMAIN h.objects \ Made(n, wire) : new.objects[a] = h.objects[a]
              /\ \A p \in DOMAIN wire :
                    /\ new.objects[<<n, p, 0>>] = StructOf(n, p, wire[p].of, wire[p].fields)
                    /\ \A id \in HeldBy(wire[p].of, wire[p].fields) :
                          new.objects[<<n, p, id>>] =
                              PartOf(n, p, id, FieldAtPath(wire, p, id), wire[p].fields[id])
<1> DEFINE n == h.next
           new == Unpack(functions, h, wire)
           name(p) == MessageAt(functions.descriptor, wire, p)
           field(p, id) == FieldOf(DescriptorOf(name(p)), id)
           held(p) == {id \in DOMAIN wire[p].fields : IsHeld(field(p, id), wire[p].fields[id])}
           parts == UNION {{<<n, p, id>> : id \in held(p)} : p \in DOMAIN wire}
           object(a) == IF a[3] = 0 THEN StructOf(n, a[2], name(a[2]), wire[a[2]].fields)
                        ELSE PartOf(n, a[2], a[3], field(a[2], a[3]), wire[a[2]].fields[a[3]])
           structs == {<<n, p, 0>> : p \in DOMAIN wire}
<1>1. new = Allocate(h, [a \in structs \cup parts |-> object(a)])
  BY DEF Unpack
<1>2. \A p \in DOMAIN wire : name(p) = wire[p].of
  BY TreeMessages
<1>3. ASSUME NEW p \in DOMAIN wire
      PROVE  /\ held(p) = HeldBy(wire[p].of, wire[p].fields)
             /\ \A id \in held(p) : id # 0 /\ field(p, id) = FieldAtPath(wire, p, id)
  <2>1. /\ name(p) = wire[p].of
        /\ DOMAIN wire[p].fields \subseteq DOMAIN DescriptorOf(wire[p].of).fields
        /\ \A id \in DOMAIN DescriptorOf(wire[p].of).fields :
              id \in Nat \ {0} /\ FieldOf(DescriptorOf(wire[p].of), id) = FieldAtPath(wire, p, id)
    BY <1>2, FieldsOf
  <2>2. \A id \in DOMAIN wire[p].fields : id # 0 /\ field(p, id) = FieldAtPath(wire, p, id)
    <3> HIDE DEF name
    <3> QED
      BY <2>1
  <2> HIDE DEF field
  <2> QED
    BY <2>2 DEF HeldBy, FieldAtPath
<1>4. parts = UNION {{<<n, p, id>> : id \in HeldBy(wire[p].of, wire[p].fields)} : p \in DOMAIN wire}
  <2> HIDE DEF held
  <2> QED
    BY <1>3
<1> HIDE DEF name, field, held, parts
<1>5. structs \cup parts = Made(n, wire)
  BY <1>4 DEF Made
<1>6. \A p \in DOMAIN wire :
         /\ <<n, p, 0>> \in Made(n, wire)
         /\ object(<<n, p, 0>>) = StructOf(n, p, wire[p].of, wire[p].fields)
  BY <1>2 DEF Made
<1>7. ASSUME NEW p \in DOMAIN wire, NEW id \in HeldBy(wire[p].of, wire[p].fields)
      PROVE  /\ <<n, p, id>> \in Made(n, wire)
             /\ object(<<n, p, id>>) = PartOf(n, p, id, FieldAtPath(wire, p, id), wire[p].fields[id])
  <2>1. id # 0 /\ field(p, id) = FieldAtPath(wire, p, id)
    BY <1>3
  <2>2. <<n, p, id>> \in Made(n, wire)
    BY DEF Made
  <2> QED
    BY <2>1, <2>2
<1> HIDE DEF structs, object, new
<1>8. new = Allocate(h, [a \in Made(n, wire) |-> object(a)])
  BY <1>1, <1>5
<1>9. /\ new = [objects |-> new.objects, next |-> n + 1, fault |-> h.fault]
      /\ DOMAIN new.objects = Made(n, wire) \cup DOMAIN h.objects
      /\ \A a \in DOMAIN new.objects :
            new.objects[a] = IF a \in Made(n, wire) THEN object(a) ELSE h.objects[a]
  <2> DEFINE made == [a \in Made(n, wire) |-> object(a)]
             objects == [a \in DOMAIN made \cup DOMAIN h.objects |->
                            IF a \in DOMAIN made THEN made[a] ELSE h.objects[a]]
  <2>1. Allocate(h, made) = [h EXCEPT !.objects = objects, !.next = @ + 1]
    BY DEF Allocate
  <2>2. new = [objects |-> objects, next |-> n + 1, fault |-> h.fault]
    <3> HIDE DEF objects, made
    <3> QED
      BY <1>8, <2>1 DEF made
  <2>3. DOMAIN made = Made(n, wire) /\ \A a \in Made(n, wire) : made[a] = object(a)
    OBVIOUS
  <2> HIDE DEF made
  <2>4. /\ DOMAIN objects = Made(n, wire) \cup DOMAIN h.objects
        /\ \A a \in DOMAIN objects :
              objects[a] = IF a \in Made(n, wire) THEN object(a) ELSE h.objects[a]
    BY <2>3
  <2> HIDE DEF objects
  <2> QED
    BY <2>2, <2>4
<1>10. \A a \in DOMAIN h.objects \ Made(n, wire) : new.objects[a] = h.objects[a]
  BY <1>9
<1>11. \A a \in Made(n, wire) : new.objects[a] = object(a)
  BY <1>9
<1> QED
  BY <1>6, <1>7, <1>9, <1>10, <1>11 DEF new

(* After unpack the heap holds the tree. *)
LEMMA UnpackHolds ==
    ASSUME NEW functions, NEW h, NEW wire, TreeFits(functions.descriptor, wire),
           h = [objects |-> h.objects, next |-> h.next, fault |-> h.fault]
    PROVE  HoldsTree(Unpack(functions, h, wire), h.next, wire)
<1> DEFINE n == h.next
           new == Unpack(functions, h, wire)
<1>1. /\ DOMAIN new.objects = Made(n, wire) \cup DOMAIN h.objects
      /\ \A p \in DOMAIN wire :
            /\ new.objects[<<n, p, 0>>] = StructOf(n, p, wire[p].of, wire[p].fields)
            /\ \A id \in HeldBy(wire[p].of, wire[p].fields) :
                  new.objects[<<n, p, id>>] =
                      PartOf(n, p, id, FieldAtPath(wire, p, id), wire[p].fields[id])
  BY UnpackMakes
<1> HIDE DEF n, new
<1>2. ASSUME NEW p \in DOMAIN wire
      PROVE  /\ <<n, p, 0>> \in DOMAIN new.objects
             /\ StructFits(new, new.objects[<<n, p, 0>>], n, p, wire[p].of, wire[p].fields)
  <2> DEFINE m == wire[p].of
             fields == wire[p].fields
             table == DescriptorOf(m).fields
             struct == StructOf(n, p, m, fields)
  <2>1. <<n, p, 0>> \in DOMAIN new.objects /\ new.objects[<<n, p, 0>>] = struct
    BY <1>1 DEF Made
  <2>2. FieldsFit(m, fields)
    BY FieldsOf
  <2>3. struct.of = m
    BY DEF StructOf
  <2>4. ASSUME NEW id \in DOMAIN fields
        PROVE  Kept(new, n, p, id, table[id], fields[id])
    <3>1. ASSUME IsHeld(table[id], fields[id])
          PROVE  /\ <<n, p, id>> \in DOMAIN new.objects
                 /\ new.objects[<<n, p, id>>] = PartOf(n, p, id, table[id], fields[id])
      <4>1. id \in HeldBy(m, fields)
        BY <3>1 DEF HeldBy
      <4>2. <<n, p, id>> \in Made(n, wire)
        BY <4>1 DEF Made
      <4> QED
        BY <1>1, <4>1, <4>2 DEF FieldAtPath
    <3>2. ASSUME table[id].type = "message", NEW i \in DOMAIN fields[id]
          PROVE  <<n, Append(p, <<id, i>>), 0>> \in DOMAIN new.objects
      <4>1. <<id, i>> \in StepsAt(wire, p)
        BY <3>2 DEF StepsAt, StepsOf
      <4>2. Append(p, <<id, i>>) \in DOMAIN wire
        BY <4>1 DEF TreeFits
      <4> QED
        BY <1>1, <4>2 DEF Made
    <3> QED
      BY <3>1, <3>2 DEF Kept
  <2>5. ASSUME NEW id \in DOMAIN fields
        PROVE  Written(struct.at, n, p, id, table[id], fields[id])
    BY <2>2, WrittenWords
  <2>6. ASSUME NEW id \in DOMAIN table, id \notin DOMAIN fields
        PROVE  Unwritten(struct.at, table[id])
    BY <2>2, <2>6, UnwrittenWords
  <2> HIDE DEF struct, table, fields
  <2>7. StructFits(new, struct, n, p, m, fields)
    BY <2>3, <2>4, <2>5, <2>6 DEF StructFits, table
  <2> QED
    BY <2>1, <2>7 DEF fields
<1> QED
  BY <1>2 DEF HoldsTree, n, new

-----------------------------------------------------------------------------
(* A walk that starts at <<>> and takes the steps steps[p] from each path p. *)
Walk(h, paths, at, steps) ==
    /\ <<>> \in paths
    /\ \A p \in paths :
          /\ p \in Seq(Nat \X Nat) /\ Len(p) <= Depth
          /\ Below(h, [path |-> p, at |-> at[p]]) =
                {[path |-> Append(p, step), at |-> at[Append(p, step)]] : step \in steps[p]}
          /\ \A step \in steps[p] : Append(p, step) \in paths
          /\ p = <<>> \/ \E q \in paths : \E step \in steps[q] : p = Append(q, step)

(* The library's recursion reaches the ends of the walk: by induction over *)
(* levels.                                                                 *)
LEMMA WalkReached ==
    ASSUME NEW h, NEW paths, NEW at, NEW steps, Walk(h, paths, at, steps)
    PROVE  Reached(h, at[<<>>]) = {[path |-> p, at |-> at[p]] : p \in paths}
<1> DEFINE to(p) == [path |-> p, at |-> at[p]]
           level(d) == {p \in paths : Len(p) = d}
           f == [d \in Nat |-> {to(p) : p \in level(d)}]
           below(q) == {to(Append(q, step)) : step \in steps[q]}
<1>1. \A p \in paths : p \in Seq(Nat \X Nat) /\ Len(p) \in Nat /\ Len(p) <= Depth
  <2>1. \A p \in paths : p \in Seq(Nat \X Nat) /\ Len(p) <= Depth
    BY DEF Walk
  <2> QED
    BY <2>1
<1>2. \A p \in paths : Below(h, to(p)) = below(p)
  BY DEF Walk
<1>3. \A q \in paths : \A step : Len(Append(q, step)) = Len(q) + 1
  BY <1>1
<1>4. f[0] = {[path |-> <<>>, at |-> at[<<>>]]}
  <2>1. level(0) = {<<>>}
    BY <1>1 DEF Walk
  <2>2. f[0] = {to(p) : p \in level(0)}
    OBVIOUS
  <2> HIDE DEF level, f
  <2> QED
    BY <2>1, <2>2
<1>5. ASSUME NEW d \in Nat
      PROVE  f[d + 1] = UNION {Below(h, visit) : visit \in f[d]}
  <2>1. f[d + 1] = {to(p) : p \in level(d + 1)} /\ f[d] = {to(p) : p \in level(d)}
    OBVIOUS
  <2> HIDE DEF f
  <2>2. UNION {Below(h, visit) : visit \in f[d]} = UNION {below(q) : q \in level(d)}
    <3> HIDE DEF to, below
    <3>1. UNION {Below(h, visit) : visit \in f[d]} = UNION {Below(h, to(q)) : q \in level(d)}
      BY <2>1
    <3> QED
      BY <1>2, <3>1
  <2>3. ASSUME NEW q \in level(d), NEW step \in steps[q]
        PROVE  Append(q, step) \in level(d + 1)
    <3>1. Append(q, step) \in paths
      BY DEF Walk
    <3> QED
      BY <1>3, <3>1
  <2>4. ASSUME NEW p \in level(d + 1)
        PROVE  \E q \in level(d) : \E step \in steps[q] : p = Append(q, step)
    <3>1. p # <<>>
      BY <1>1
    <3>2. PICK q \in paths : \E step \in steps[q] : p = Append(q, step)
      BY <3>1 DEF Walk
    <3>3. Len(q) + 1 = d + 1 /\ Len(q) \in Nat
      BY <1>1, <1>3, <3>2
    <3> QED
      BY <3>2, <3>3
  <2> HIDE DEF level, to
  <2>5. \A q \in level(d) : below(q) \subseteq f[d + 1]
    BY <2>1, <2>3
  <2>6. ASSUME NEW v \in f[d + 1]
        PROVE  \E q \in level(d) : v \in below(q)
    <3>1. PICK p \in level(d + 1) : v = to(p)
      BY <2>1
    <3>2. PICK q \in level(d) : \E step \in steps[q] : p = Append(q, step)
      BY <2>4
    <3> QED
      BY <3>1, <3>2
  <2> HIDE DEF below
  <2>7. f[d + 1] = UNION {below(q) : q \in level(d)}
    BY <2>5, <2>6
  <2> QED
    BY <2>2, <2>7
<1>6. Reached(h, at[<<>>]) = UNION {f[d] : d \in 0..Depth}
  <2>1. DOMAIN f = Nat /\ f = [d \in Nat |-> f[d]]
    OBVIOUS
  <2> HIDE DEF f
  <2> QED
    BY <1>4, <1>5, <2>1, ReachedLevels
<1>7. \A p \in paths : Len(p) \in 0..Depth /\ p \in level(Len(p))
  BY <1>1, DepthAssumption
<1>8. \A d \in 0..Depth : f[d] = {to(p) : p \in level(d)} /\ level(d) \subseteq paths
  BY DepthAssumption
<1> HIDE DEF f, level, to
<1>9. UNION {f[d] : d \in 0..Depth} = {to(p) : p \in paths}
  BY <1>7, <1>8
<1> QED
  BY <1>6, <1>9 DEF to

(* pack writes what it writes of each struct on the walk. *)
LEMMA WalkPacked ==
    ASSUME NEW h, NEW paths, NEW at, NEW steps, Walk(h, paths, at, steps), NEW made,
           DOMAIN made = paths, made = [p \in paths |-> made[p]],
           \A p \in paths : IsAllocated(h, at[p]) /\ PackStruct(h, Object(h, at[p])) = made[p]
    PROVE  PackMessage(h, at[<<>>]) = made
<1> DEFINE to(p) == [path |-> p, at |-> at[p]]
           visits == {visit \in Reached(h, at[<<>>]) : IsAllocated(h, visit.at)}
           found(p) == (CHOOSE visit \in visits : visit.path = p).at
<1>1. \A p : to(p).path = p /\ to(p).at = at[p]
  OBVIOUS
<1>2. visits = {to(p) : p \in paths}
  <2>1. Reached(h, at[<<>>]) = {to(p) : p \in paths}
    BY WalkReached
  <2> HIDE DEF to
  <2> QED
    BY <1>1, <2>1
<1>3. PackMessage(h, at[<<>>]) =
         [p \in {visit.path : visit \in visits} |-> PackStruct(h, Object(h, found(p)))]
  BY DEF PackMessage
<1> HIDE DEF to
<1>4. ASSUME NEW p \in paths
      PROVE  found(p) = at[p]
  <2>1. to(p) \in visits /\ \A visit \in visits : visit.path = p => visit = to(p)
    BY <1>1, <1>2
  <2>2. (CHOOSE visit \in visits : visit.path = p) = to(p)
    <3> HIDE DEF visits
    <3> QED
      BY <1>1, <2>1
  <2> QED
    BY <1>1, <2>2
<1> HIDE DEF found, visits
<1>5. {visit.path : visit \in visits} = paths
  BY <1>1, <1>2
<1>6. \A p \in paths : PackStruct(h, Object(h, found(p))) = made[p]
  BY <1>4
<1> QED
  BY <1>3, <1>5, <1>6

(* The walk through a message that was unpacked. *)
LEMMA TreeWalk ==
    ASSUME NEW name, NEW wire, TreeFits(name, wire), NEW h, NEW n, HoldsTree(h, n, wire)
    PROVE  Walk(h, DOMAIN wire, [p \in DOMAIN wire |-> At(n, p, 0)],
                [p \in DOMAIN wire |-> StepsAt(wire, p)])
<1> DEFINE at == [p \in DOMAIN wire |-> At(n, p, 0)]
           steps == [p \in DOMAIN wire |-> StepsAt(wire, p)]
<1>1. ASSUME NEW p \in DOMAIN wire
      PROVE  Below(h, Visit(n, p)) = {Visit(n, Append(p, step)) : step \in StepsAt(wire, p)}
  <2>1. /\ <<n, p, 0>> \in DOMAIN h.objects
        /\ StructFits(h, h.objects[<<n, p, 0>>], n, p, wire[p].of, wire[p].fields)
    BY DEF HoldsTree
  <2>2. FieldsFit(wire[p].of, wire[p].fields)
    BY FieldsOf
  <2>3. IsAllocated(h, At(n, p, 0)) /\ Object(h, At(n, p, 0)) = h.objects[<<n, p, 0>>]
    BY <2>1, AddressesAt
  <2> QED
    BY <2>1, <2>2, <2>3, BelowStruct DEF Visit, Children, StepsAt
<1>2. \A p \in DOMAIN wire : at[p] = At(n, p, 0) /\ steps[p] = StepsAt(wire, p)
  OBVIOUS
<1> HIDE DEF at, steps
<1>3. \A p \in DOMAIN wire : Visit(n, p) = [path |-> p, at |-> at[p]]
  BY <1>2 DEF Visit
<1>4. ASSUME NEW p \in DOMAIN wire
      PROVE  /\ Below(h, [path |-> p, at |-> at[p]]) =
                  {[path |-> Append(p, step), at |-> at[Append(p, step)]] : step \in steps[p]}
             /\ \A step \in steps[p] : Append(p, step) \in DOMAIN wire
  <2> DEFINE to(q) == [path |-> q, at |-> at[q]]
  <2>1. \A step \in steps[p] : Append(p, step) \in DOMAIN wire
    BY <1>2 DEF TreeFits
  <2>2. Below(h, to(p)) = {Visit(n, Append(p, step)) : step \in steps[p]}
    BY <1>1, <1>2, <1>3
  <2>3. \A step \in steps[p] : Visit(n, Append(p, step)) = to(Append(p, step))
    BY <1>3, <2>1
  <2> HIDE DEF to
  <2>4. Below(h, to(p)) = {to(Append(p, step)) : step \in steps[p]}
    BY <2>2, <2>3
  <2> QED
    BY <2>1, <2>4 DEF to
<1> QED
  BY <1>2, <1>4 DEF Walk, TreeFits, at, steps

(* From the message at n the library reaches the structs unpack made, and no *)
(* others.                                                                   *)
LEMMA ReachedTree ==
    ASSUME NEW name, NEW wire, TreeFits(name, wire), NEW h, NEW n, HoldsTree(h, n, wire)
    PROVE  Reached(h, Top(n)) = {Visit(n, p) : p \in DOMAIN wire}
<1> DEFINE at == [p \in DOMAIN wire |-> At(n, p, 0)]
<1>1. /\ at[<<>>] = Top(n)
      /\ \A p \in DOMAIN wire : [path |-> p, at |-> at[p]] = Visit(n, p)
  BY DEF Visit, Top, TreeFits
<1> HIDE DEF at
<1>2. Reached(h, at[<<>>]) = {[path |-> p, at |-> at[p]] : p \in DOMAIN wire}
  <2>1. Walk(h, DOMAIN wire, at, [p \in DOMAIN wire |-> StepsAt(wire, p)])
    BY TreeWalk DEF at
  <2> QED
    BY <2>1, WalkReached
<1> QED
  BY <1>1, <1>2

-----------------------------------------------------------------------------
(* A tree with the fields that pack writes. *)
Meant(wire) ==
    [p \in DOMAIN wire |->
        [of |-> wire[p].of, fields |-> Telling(wire[p].of, wire[p].fields)]]

(* pack writes the tree that unpack read, but for fields that tell nothing. *)
LEMMA PackedTree ==
    ASSUME NEW name, NEW wire, TreeFits(name, wire), NEW h, NEW n, HoldsTree(h, n, wire)
    PROVE  PackMessage(h, Top(n)) = Meant(wire)
<1> DEFINE at == [p \in DOMAIN wire |-> At(n, p, 0)]
<1>1. at[<<>>] = Top(n) /\ \A p \in DOMAIN wire : at[p] = At(n, p, 0)
  BY DEF Top, TreeFits
<1> HIDE DEF at
<1>2. ASSUME NEW p \in DOMAIN wire
      PROVE  IsAllocated(h, at[p]) /\ PackStruct(h, Object(h, at[p])) = Meant(wire)[p]
  <2>1. /\ <<n, p, 0>> \in DOMAIN h.objects
        /\ StructFits(h, h.objects[<<n, p, 0>>], n, p, wire[p].of, wire[p].fields)
    BY DEF HoldsTree
  <2>2. IsAllocated(h, at[p]) /\ Object(h, at[p]) = h.objects[<<n, p, 0>>]
    BY <1>1, <2>1, AddressesAt
  <2>3. FieldsFit(wire[p].of, wire[p].fields)
    BY FieldsOf
  <2> QED
    BY <2>1, <2>2, <2>3, PackedStruct DEF Meant
<1>3. DOMAIN Meant(wire) = DOMAIN wire /\ Meant(wire) = [p \in DOMAIN wire |-> Meant(wire)[p]]
  BY DEF Meant
<1>4. Walk(h, DOMAIN wire, at, [p \in DOMAIN wire |-> StepsAt(wire, p)])
  BY TreeWalk DEF at
<1> QED
  BY <1>1, <1>2, <1>3, <1>4, WalkPacked

(* That is what a reader takes from either. *)
LEMMA MeantIsMeaning ==
    ASSUME NEW name, NEW wire, TreeFits(name, wire)
    PROVE  Meaning(wire) = Meant(wire) /\ Meaning(Meant(wire)) = Meant(wire)
<1> DEFINE tells(w, p, id) == \/ IsOneOf(FieldNumbered(w[p].of, id))
                              \/ w[p].fields[id][1] \notin {<<"text", "">>, <<"number", 0>>}
           told(w, p) == {id \in DOMAIN w[p].fields : tells(w, p, id)}
           at(w, p) == [of |-> w[p].of, fields |-> [id \in told(w, p) |-> w[p].fields[id]]]
<1>1. \A w : Meaning(w) = [p \in DOMAIN w |-> at(w, p)]
  BY DEF Meaning
<1>2. ASSUME NEW p \in DOMAIN wire
      PROVE  /\ at(wire, p) = Meant(wire)[p]
             /\ at(Meant(wire), p) = Meant(wire)[p]
  <2> DEFINE m == wire[p].of
             fields == wire[p].fields
             table == DescriptorOf(m).fields
             telling == {id \in DOMAIN fields : Tells(table[id], fields[id])}
             mine == Meant(wire)
  <2>1. \A id \in DOMAIN fields : FieldNumbered(m, id) = table[id]
    BY FieldsOf, FieldsNumbered
  <2>2. \A id \in DOMAIN fields : tells(wire, p, id) <=> Tells(table[id], fields[id])
    BY <2>1 DEF Tells
  <2>3. told(wire, p) = telling
    <3> HIDE DEF tells, table
    <3> QED
      BY <2>2 DEF table
  <2>4. Telling(m, fields) = [id \in telling |-> fields[id]]
    BY DEF Telling
  <2>5. mine[p] = [of |-> m, fields |-> Telling(m, fields)]
    BY DEF Meant
  <2>6. mine[p].of = m /\ mine[p].fields = [id \in telling |-> fields[id]]
    BY <2>4, <2>5
  <2> HIDE DEF mine, table
  <2>7. DOMAIN mine[p].fields = telling /\ \A id \in telling : mine[p].fields[id] = fields[id]
    <3> HIDE DEF telling
    <3> QED
      BY <2>6
  <2>8. \A id \in telling : tells(mine, p, id)
    <3>1. \A id \in telling : /\ mine[p].of = m /\ mine[p].fields[id] = fields[id]
                              /\ id \in DOMAIN fields /\ Tells(table[id], fields[id])
      BY <2>6, <2>7
    <3>2. \A id \in telling : FieldNumbered(mine[p].of, id) = table[id]
      BY <2>1, <3>1
    <3> HIDE DEF telling, m, fields
    <3> QED
      BY <3>1, <3>2 DEF Tells
  <2>9. told(mine, p) = telling
    <3> HIDE DEF tells, telling
    <3> QED
      BY <2>7, <2>8
  <2>10. at(wire, p) = mine[p]
    <3> HIDE DEF told, telling
    <3> QED
      BY <2>3, <2>4, <2>5
  <2>11. at(mine, p) = mine[p]
    <3>1. at(mine, p) = [of |-> m, fields |-> [id \in telling |-> fields[id]]]
      <4>1. [id \in telling |-> mine[p].fields[id]] = [id \in telling |-> fields[id]]
        <5> HIDE DEF telling
        <5> QED
          BY <2>7
      <4> HIDE DEF told, telling
      <4> QED
        BY <2>6, <2>9, <4>1
    <3> QED
      BY <2>4, <2>5, <3>1
  <2> QED
    BY <2>10, <2>11 DEF mine
<1>3. DOMAIN Meant(wire) = DOMAIN wire /\ Meant(wire) = [p \in DOMAIN wire |-> Meant(wire)[p]]
  BY DEF Meant
<1> HIDE DEF at
<1> QED
  BY <1>1, <1>2, <1>3

-----------------------------------------------------------------------------
(* free_unpacked frees what unpack made, each object once. *)
LEMMA MadeIsHeld ==
    ASSUME NEW name, NEW wire, TreeFits(name, wire), NEW h, NEW n, HoldsTree(h, n, wire)
    PROVE  Made(n, wire) \subseteq DOMAIN h.objects
<1>1. ASSUME NEW p \in DOMAIN wire
      PROVE  /\ <<n, p, 0>> \in DOMAIN h.objects
             /\ \A id \in HeldBy(wire[p].of, wire[p].fields) : <<n, p, id>> \in DOMAIN h.objects
  <2>1. /\ <<n, p, 0>> \in DOMAIN h.objects
        /\ StructFits(h, h.objects[<<n, p, 0>>], n, p, wire[p].of, wire[p].fields)
    BY DEF HoldsTree
  <2>2. DOMAIN wire[p].fields \subseteq DOMAIN DescriptorOf(wire[p].of).fields
    BY FieldsOf
  <2>3. \A id \in DOMAIN wire[p].fields :
           Kept(h, n, p, id, DescriptorOf(wire[p].of).fields[id], wire[p].fields[id])
    BY <2>1, <2>2 DEF StructFits
  <2> QED
    BY <2>1, <2>3 DEF HeldBy, Kept
<1>2. ASSUME NEW a \in Made(n, wire)
      PROVE  a \in DOMAIN h.objects
  <2>1. CASE \E p \in DOMAIN wire : a = <<n, p, 0>>
    BY <1>1, <2>1
  <2>2. CASE \E p \in DOMAIN wire : \E id \in HeldBy(wire[p].of, wire[p].fields) : a = <<n, p, id>>
    BY <1>1, <2>2
  <2> QED
    BY <2>1, <2>2 DEF Made
<1> QED
  BY <1>2

Part(n, a) == [path |-> a[2], field |-> a[3], at |-> At(n, a[2], a[3])]

(* free_unpacked finds each object that unpack made, once. *)
LEMMA PartsOfTree ==
    ASSUME NEW name, NEW wire, TreeFits(name, wire), NEW h, NEW n, HoldsTree(h, n, wire)
    PROVE  Parts(h, Top(n)) = {Part(n, a) : a \in Made(n, wire)}
<1> DEFINE ids(p) == {0} \cup HeldBy(wire[p].of, wire[p].fields)
           part(p, id) == [path |-> p, field |-> id, at |-> At(n, p, id)]
           owned(p) == {part(p, id) : id \in ids(p)}
<1>1. ASSUME NEW p \in DOMAIN wire
      PROVE  Owns(h, Visit(n, p)) = owned(p)
  <2>1. /\ <<n, p, 0>> \in DOMAIN h.objects
        /\ StructFits(h, h.objects[<<n, p, 0>>], n, p, wire[p].of, wire[p].fields)
    BY DEF HoldsTree
  <2>2. FieldsFit(wire[p].of, wire[p].fields)
    BY FieldsOf
  <2>3. IsAllocated(h, At(n, p, 0)) /\ Object(h, At(n, p, 0)) = h.objects[<<n, p, 0>>]
    BY <2>1, AddressesAt
  <2>4. Owns(h, Visit(n, p)) =
            {part(p, 0)} \cup {part(p, id) : id \in HeldBy(wire[p].of, wire[p].fields)}
    BY <2>1, <2>2, <2>3, OwnedStruct DEF Visit
  <2> HIDE DEF part
  <2> QED
    BY <2>4
<1>2. Parts(h, Top(n)) = UNION {owned(p) : p \in DOMAIN wire}
  <2>1. Parts(h, Top(n)) = UNION {Owns(h, visit) : visit \in {Visit(n, p) : p \in DOMAIN wire}}
    BY ReachedTree DEF Parts
  <2> HIDE DEF owned
  <2>2. UNION {Owns(h, visit) : visit \in {Visit(n, p) : p \in DOMAIN wire}} =
        UNION {Owns(h, Visit(n, p)) : p \in DOMAIN wire}
    OBVIOUS
  <2> QED
    BY <1>1, <2>1, <2>2
<1>3. Made(n, wire) = UNION {{<<n, p, id>> : id \in ids(p)} : p \in DOMAIN wire}
  <2> DEFINE mine(p) == {<<n, p, id>> : id \in ids(p)}
             rest(p) == {<<n, p, id>> : id \in HeldBy(wire[p].of, wire[p].fields)}
  <2>1. \A p : mine(p) = {<<n, p, 0>>} \cup rest(p)
    OBVIOUS
  <2>2. Made(n, wire) = {<<n, p, 0>> : p \in DOMAIN wire} \cup UNION {rest(p) : p \in DOMAIN wire}
    BY DEF Made
  <2> HIDE DEF mine, rest
  <2>3. Made(n, wire) = UNION {mine(p) : p \in DOMAIN wire}
    BY <2>1, <2>2
  <2> QED
    BY <2>3 DEF mine
<1>4. \A p, id : Part(n, <<n, p, id>>) = part(p, id)
  BY DEF Part
<1> HIDE DEF ids, part
<1>5. {Part(n, a) : a \in Made(n, wire)} = UNION {owned(p) : p \in DOMAIN wire}
  <2>1. ASSUME NEW a \in Made(n, wire)
        PROVE  \E p \in DOMAIN wire : Part(n, a) \in owned(p)
    BY <1>3, <1>4
  <2>2. ASSUME NEW p \in DOMAIN wire, NEW x \in owned(p)
        PROVE  \E a \in Made(n, wire) : x = Part(n, a)
    <3>1. PICK id \in ids(p) : x = part(p, id)
      OBVIOUS
    <3>2. <<n, p, id>> \in Made(n, wire)
      BY <1>3
    <3> QED
      BY <1>4, <3>1, <3>2
  <2> HIDE DEF owned
  <2> QED
    BY <2>1, <2>2
<1> QED
  BY <1>2, <1>5

(* free_unpacked gives all that unpack made back, and nothing else. *)
LEMMA FreedTree ==
    ASSUME NEW name, NEW wire, TreeFits(name, wire), NEW h, NEW n, HoldsTree(h, n, wire),
           h = [objects |-> h.objects, next |-> h.next, fault |-> FALSE]
    PROVE  LET new == FreeMessage(h, Top(n))
           IN /\ new = [objects |-> new.objects, next |-> h.next, fault |-> FALSE]
              /\ DOMAIN new.objects = DOMAIN h.objects \ Made(n, wire)
              /\ \A a \in DOMAIN new.objects : new.objects[a] = h.objects[a]
<1> DEFINE new == FreeMessage(h, Top(n))
           parts == Parts(h, Top(n))
           words == {part.at : part \in parts}
           left == {a \in DOMAIN h.objects : <<"heap", a>> \notin words}
           objects == [a \in left |-> h.objects[a]]
           faulty == \/ h.fault
                     \/ \E word \in words : ~IsAllocated(h, word)
                     \/ \E x, y \in parts : x # y /\ x.at = y.at
<1>1. new = [h EXCEPT !.objects = objects, !.fault = faulty]
  BY DEF FreeMessage
<1>2. parts = {Part(n, a) : a \in Made(n, wire)}
  BY PartsOfTree
<1>3. \A a \in Made(n, wire) : Part(n, a).at = <<"heap", a>> /\ a = <<n, a[2], a[3]>>
  <2>1. \A a \in Made(n, wire) : a = <<n, a[2], a[3]>>
    BY DEF Made
  <2>2. \A a : Part(n, a).at = <<"heap", <<n, a[2], a[3]>>>>
    BY DEF Part, At
  <2> QED
    BY <2>1, <2>2
<1> HIDE DEF parts
<1>4. words = {<<"heap", a>> : a \in Made(n, wire)}
  <2> DEFINE part(a) == Part(n, a)
  <2>1. parts = {part(a) : a \in Made(n, wire)}
    BY <1>2
  <2>2. \A a \in Made(n, wire) : part(a).at = <<"heap", a>>
    BY <1>3
  <2> HIDE DEF part
  <2> QED
    BY <2>1, <2>2
<1>5. left = DOMAIN h.objects \ Made(n, wire)
  <2>1. \A a, b : <<"heap", a>> = <<"heap", b>> => a = b
    OBVIOUS
  <2> HIDE DEF words
  <2> QED
    BY <1>4, <2>1
<1>6. \A word \in words : IsAllocated(h, word)
  <2>1. \A a \in Made(n, wire) : IsAllocated(h, <<"heap", a>>)
    BY MadeIsHeld DEF IsAllocated
  <2> HIDE DEF words
  <2> QED
    BY <1>4, <2>1
<1>7. \A x, y \in parts : x.at = y.at => x = y
  <2>1. ASSUME NEW a \in Made(n, wire), NEW b \in Made(n, wire), Part(n, a).at = Part(n, b).at
        PROVE  Part(n, a) = Part(n, b)
    <3>1. <<"heap", a>> = <<"heap", b>>
      BY <1>3, <2>1
    <3>2. a = b
      BY <3>1
    <3> QED
      BY <3>2
  <2> QED
    BY <1>2, <2>1
<1>8. faulty = FALSE
  <2> HIDE DEF words
  <2> QED
    BY <1>6, <1>7
<1>9. DOMAIN objects = left /\ \A a \in left : objects[a] = h.objects[a]
  OBVIOUS
<1> HIDE DEF left, objects, faulty
<1>10. new = [objects |-> objects, next |-> h.next, fault |-> FALSE]
  BY <1>1, <1>8
<1> HIDE DEF new
<1> QED
  BY <1>5, <1>9, <1>10 DEF new

-----------------------------------------------------------------------------
(* The heap is exactly what unpack makes of the sample. *)
HeapHolds ==
    /\ unpacked = Top(1)
    /\ HoldsTree(memory, 1, sample.wire)
    /\ DOMAIN memory.objects = Made(1, sample.wire)

CodecInv ==
    /\ TreeFits(sample.functions.descriptor, sample.wire)
    /\ stage \in {"encoded", "unpacked", "measured", "packed", "freed"}
    /\ memory = [objects |-> memory.objects, next |-> memory.next, fault |-> FALSE]
    /\ stage = "encoded" => DOMAIN memory.objects = {} /\ memory.next = 1
    /\ stage \in {"unpacked", "measured", "packed"} => HeapHolds
    /\ stage \in {"measured", "packed"} => size = Size(Meant(sample.wire))
    /\ stage = "packed" => packed = Meant(sample.wire)
    /\ stage = "freed" => DOMAIN memory.objects = {}

(* At first nothing is allocated, and the sample is an encoding. *)
LEMMA CodecInvInit == CodecInit => CodecInv
<1> SUFFICES ASSUME CodecInit PROVE CodecInv
  OBVIOUS
<1>1. PICK functions \in Codecs : \E wire \in Samples(functions) :
          sample = [functions |-> functions, wire |-> wire]
  BY DEF CodecInit
<1>2. PICK wire \in Samples(functions) : sample = [functions |-> functions, wire |-> wire]
  BY <1>1
<1>3. IsEncoding(sample.functions.descriptor, sample.wire)
  BY <1>2, SamplesAssumption
<1>4. TreeFits(sample.functions.descriptor, sample.wire)
  BY <1>3, EncodingFits
<1>5. /\ memory = [objects |-> memory.objects, next |-> memory.next, fault |-> FALSE]
      /\ DOMAIN memory.objects = {} /\ memory.next = 1 /\ stage = "encoded"
  BY DEF CodecInit, EmptyHeap
<1> QED
  BY <1>4, <1>5 DEF CodecInv

(* Each function keeps the invariant. *)
LEMMA CodecInvNext == CodecInv /\ [CodecNext]_codec => CodecInv'
<1> SUFFICES ASSUME CodecInv, [CodecNext]_codec PROVE CodecInv'
  OBVIOUS
<1> DEFINE wire == sample.wire
           functions == sample.functions
<1>1. /\ TreeFits(functions.descriptor, wire)
      /\ memory = [objects |-> memory.objects, next |-> memory.next, fault |-> FALSE]
  BY DEF CodecInv
<1>2. CASE Decodes
  <2>1. /\ stage = "encoded" /\ stage' = "unpacked" /\ sample' = sample
        /\ DOMAIN memory.objects = {} /\ memory.next = 1
        /\ memory' = Unpack(functions, memory, wire) /\ unpacked' = Top(1)
    BY <1>2 DEF Decodes, CodecInv
  <2>2. /\ memory' = [objects |-> memory'.objects, next |-> 2, fault |-> FALSE]
        /\ DOMAIN memory'.objects = Made(1, wire)
    <3>1. /\ Unpack(functions, memory, wire) =
                [objects |-> Unpack(functions, memory, wire).objects, next |-> memory.next + 1,
                 fault |-> memory.fault]
          /\ DOMAIN Unpack(functions, memory, wire).objects = Made(memory.next, wire) \cup DOMAIN memory.objects
      BY <1>1, UnpackMakes
    <3>2. memory.fault = FALSE /\ memory.next + 1 = 2
      BY <1>1, <2>1
    <3> QED
      BY <2>1, <3>1, <3>2
  <2>3. HoldsTree(memory', 1, wire)
    BY <1>1, <2>1, UnpackHolds
  <2>4. memory' = [objects |-> memory'.objects, next |-> memory'.next, fault |-> FALSE]
    BY <2>2
  <2>5. HeapHolds'
    BY <2>1, <2>2, <2>3 DEF HeapHolds
  <2> QED
    BY <1>1, <2>1, <2>4, <2>5 DEF CodecInv
<1>3. ASSUME HeapHolds
      PROVE  Pack(functions, memory, unpacked) = Meant(wire)
  BY <1>1, <1>3, PackedTree DEF HeapHolds, Pack
<1>4. CASE Sizes
  <2>1. /\ stage = "unpacked" /\ stage' = "measured" /\ HeapHolds
        /\ sample' = sample /\ memory' = memory /\ unpacked' = unpacked
        /\ size' = Size(Pack(functions, memory, unpacked))
    BY <1>4 DEF Sizes, CodecInv, GetPackedSize, Pack
  <2>2. HeapHolds'
    BY <2>1 DEF HeapHolds
  <2> QED
    BY <1>1, <1>3, <2>1, <2>2 DEF CodecInv
<1>5. CASE Encodes
  <2>1. /\ stage = "measured" /\ stage' = "packed" /\ HeapHolds /\ size = Size(Meant(wire))
        /\ sample' = sample /\ memory' = memory /\ unpacked' = unpacked /\ size' = size
        /\ packed' = Pack(functions, memory, unpacked)
    BY <1>5 DEF Encodes, CodecInv
  <2>2. HeapHolds'
    BY <2>1 DEF HeapHolds
  <2> QED
    BY <1>1, <1>3, <2>1, <2>2 DEF CodecInv
<1>6. CASE Frees
  <2>1. /\ stage = "packed" /\ stage' = "freed" /\ HeapHolds /\ sample' = sample
        /\ memory' = FreeMessage(memory, Top(1))
    BY <1>6 DEF Frees, CodecInv, FreeUnpacked, HeapHolds
  <2>2. /\ memory' = [objects |-> memory'.objects, next |-> memory.next, fault |-> FALSE]
        /\ DOMAIN memory'.objects = DOMAIN memory.objects \ Made(1, wire)
    BY <1>1, <2>1, FreedTree DEF HeapHolds
  <2>3. DOMAIN memory'.objects = {}
    BY <2>1, <2>2 DEF HeapHolds
  <2>4. memory' = [objects |-> memory'.objects, next |-> memory'.next, fault |-> FALSE]
    BY <2>2
  <2> QED
    BY <1>1, <2>1, <2>3, <2>4 DEF CodecInv
<1>7. CASE UNCHANGED codec
  BY <1>7 DEF CodecInv, HeapHolds, codec
<1> QED
  BY <1>2, <1>4, <1>5, <1>6, <1>7 DEF CodecNext, Done

(* The heap is, at each stage, what the sample makes of it. *)
THEOREM CodecInvariant == CodecSpec => []CodecInv
<1> QED
  BY CodecInvInit, CodecInvNext, PTL DEF CodecSpec

(* What pack writes means what unpack read, and has the size that          *)
(* get_packed_size said: for every message of every type the generated     *)
(* code has, however many elements, texts and messages are within it.      *)
THEOREM RoundTripCorrect == CodecSpec => []RoundTrip
<1>1. CodecInv => RoundTrip
  <2> SUFFICES ASSUME CodecInv, stage = "packed"
               PROVE  Meaning(packed) = Meaning(sample.wire) /\ Size(packed) = size
    BY DEF RoundTrip
  <2>1. packed = Meant(sample.wire) /\ size = Size(Meant(sample.wire))
    BY DEF CodecInv
  <2>2. TreeFits(sample.functions.descriptor, sample.wire)
    BY DEF CodecInv
  <2> QED
    BY <2>1, <2>2, MeantIsMeaning
<1> QED
  BY <1>1, CodecInvariant, PTL

(* free_unpacked gives back all that unpack allocated, each object once. *)
THEOREM ReleasedCorrect == CodecSpec => []Released
<1>1. CodecInv => Released
  <2> SUFFICES ASSUME CodecInv PROVE ~memory.fault /\ (stage = "freed" => DOMAIN memory.objects = {})
    BY DEF Released
  <2>1. memory = [objects |-> memory.objects, next |-> memory.next, fault |-> FALSE]
    BY DEF CodecInv
  <2>2. memory.fault = FALSE
    BY <2>1
  <2> QED
    BY <2>2 DEF CodecInv
<1> QED
  BY <1>1, CodecInvariant, PTL

(* No assert of the generated functions fails. *)
AssertsHold ==
    stage \in {"unpacked", "measured", "packed"} => IsA(sample.functions, memory, unpacked)

(* No assert of the generated functions fails. *)
THEOREM AssertsCorrect == CodecSpec => []AssertsHold
<1>1. CodecInv => AssertsHold
  <2> SUFFICES ASSUME CodecInv, stage \in {"unpacked", "measured", "packed"}
               PROVE  IsA(sample.functions, memory, unpacked)
    BY DEF AssertsHold
  <2>1. unpacked = At(1, <<>>, 0) /\ HoldsTree(memory, 1, sample.wire)
    BY DEF CodecInv, HeapHolds, Top
  <2>2. <<>> \in DOMAIN sample.wire /\ sample.wire[<<>>].of = sample.functions.descriptor
    BY DEF CodecInv, TreeFits
  <2>3. /\ <<1, <<>>, 0>> \in DOMAIN memory.objects
        /\ StructFits(memory, memory.objects[<<1, <<>>, 0>>], 1, <<>>, sample.functions.descriptor,
                      sample.wire[<<>>].fields)
    BY <2>1, <2>2 DEF HoldsTree
  <2>4. /\ IsAllocated(memory, unpacked)
        /\ Object(memory, unpacked).of = sample.functions.descriptor
    BY <2>1, <2>3, AddressesAt DEF StructFits
  <2> QED
    BY <2>4 DEF IsA
<1> QED
  BY <1>1, CodecInvariant, PTL
==============================================================================
