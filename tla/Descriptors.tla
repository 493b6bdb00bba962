---------------------------- MODULE Descriptors ----------------------------
(***************************************************************************)
(* The code protoc-c generated for the guests: for every message the       *)
(* descriptor its functions hand to the protobuf-c library, and the C      *)
(* struct with its initializer.                                            *)
(*                                                                         *)
(* A struct is a function from members to the 32-bit words they take; the  *)
(* members of a union are one member, whose words they share.  A field     *)
(* names the member it is kept in and, as quantifier, the member that      *)
(* counts its occurrences or tells which field of a union is there.  The   *)
(* tables sorted by name, which no guest uses, are left out.               *)
(***************************************************************************)
EXTENDS Naturals, Sequences

Zero == <<"int", 0>>  \* as a word: 0, or NULL
EmptyString == <<"static", "">>  \* protobuf_c_empty_string

(* Words of a field of each type. *)
Words(type) == IF type \in {"bytes", "int64", "double"} THEN 2 ELSE 1
Blank(n) == [i \in 1..n |-> Zero]

(* Faulty: a string's default is not the one the initializer puts there. *)
Field_NullDefault(name, id, type) ==
    [name |-> name, id |-> id, type |-> type, label |-> "none",
     member |-> name, quantifier |-> "", message |-> "", default |-> Zero]

Field(name, id, type) ==
    [name |-> name, id |-> id, type |-> type, label |-> "none",
     member |-> name, quantifier |-> "", message |-> "",
     default |-> IF type = "string" THEN EmptyString ELSE Zero]
Sub(name, id, message) == [Field(name, id, "message") EXCEPT !.message = message]
Repeated(name, count, id, message) ==
    [Sub(name, id, message) EXCEPT !.label = "repeated", !.quantifier = count]
OneOf(case, union, field) == [field EXCEPT !.quantifier = case, !.member = union]

IsOneOf(field) == field.label = "none" /\ field.quantifier # ""

(* Fields numbered from 1 on without a gap, which is one range of numbers. *)
Descriptor(fields, struct) ==
    [fields |-> fields, struct |-> struct,
     ranges |-> <<[start |-> 1, index |-> 0], [start |-> 0, index |-> Len(fields)]>>]

(* The functions init, get_packed_size, pack, unpack and free_unpacked of a     *)
(* message differ in nothing but the initializer and the descriptor they are    *)
(* bound to, so ProtobufC defines them once, for any of the values below.       *)
FunctionsOf(message, struct) == [descriptor |-> message, init |-> struct]

-----------------------------------------------------------------------------
(* gateway/src/main/proto/message.pb-c *)

SpringHeadersEntryStruct == [key |-> <<EmptyString>>, value |-> <<EmptyString>>]
SpringHeadersEntry ==
    Descriptor(<<Field("key", 1, "string"), Field("value", 2, "string")>>,
               SpringHeadersEntryStruct)

SpringMessageStruct == [payload |-> Blank(2), n_headers |-> Blank(1), headers |-> Blank(1)]
SpringMessage ==
    Descriptor(<<Field("payload", 1, "bytes"),
                 Repeated("headers", "n_headers", 2, "SpringMessage.HeadersEntry")>>,
               SpringMessageStruct)

spring_message == FunctionsOf("SpringMessage", SpringMessageStruct)
spring_message__headers_entry == FunctionsOf("SpringMessage.HeadersEntry", SpringHeadersEntryStruct)

-----------------------------------------------------------------------------
(* loader/src/main/proto/generic.pb-c *)

GenericFieldsEntryStruct == [key |-> <<EmptyString>>, value |-> Blank(1)]
GenericFieldsEntry ==
    Descriptor(<<Field("key", 1, "string"), Sub("value", 2, "GenericValue")>>,
               GenericFieldsEntryStruct)

GenericMessageStruct == [n_fields |-> Blank(1), fields |-> Blank(1)]
GenericMessage ==
    Descriptor(<<Repeated("fields", "n_fields", 1, "GenericMessage.FieldsEntry")>>,
               GenericMessageStruct)

GenericListStruct == [n_values |-> Blank(1), values |-> Blank(1)]
GenericList ==
    Descriptor(<<Repeated("values", "n_values", 1, "GenericValue")>>, GenericListStruct)

GenericValueStruct == [value_case |-> Blank(1), value |-> Blank(2)]

(* Faulty: two fields out of the order of their numbers. *)
GenericValue_OutOfOrder ==
    LET Case(field) == OneOf("value_case", "value", field)
    IN Descriptor(<<Case(Field("null_val", 1, "enum")),
                    Case(Field("double_val", 2, "double")),
                    Case(Field("string_val", 3, "string")),
                    Case(Field("bool_val", 4, "bool")),
                    Case(Sub("message_val", 5, "GenericMessage")),
                    Case(Sub("list_val", 6, "GenericList")),
                    Case(Field("bytes_val", 7, "bytes")),
                    Case(Field("float_val", 8, "float")),
                    Case(Field("long_val", 10, "int64")),
                    Case(Field("int_val", 9, "int32"))>>,
                  GenericValueStruct)

GenericValue ==
    LET Case(field) == OneOf("value_case", "value", field)
    IN Descriptor(<<Case(Field("null_val", 1, "enum")),
                    Case(Field("double_val", 2, "double")),
                    Case(Field("string_val", 3, "string")),
                    Case(Field("bool_val", 4, "bool")),
                    Case(Sub("message_val", 5, "GenericMessage")),
                    Case(Sub("list_val", 6, "GenericList")),
                    Case(Field("bytes_val", 7, "bytes")),
                    Case(Field("float_val", 8, "float")),
                    Case(Field("int_val", 9, "int32")),
                    Case(Field("long_val", 10, "int64"))>>,
                  GenericValueStruct)

generic_message == FunctionsOf("GenericMessage", GenericMessageStruct)
generic_list == FunctionsOf("GenericList", GenericListStruct)
generic_value == FunctionsOf("GenericValue", GenericValueStruct)

-----------------------------------------------------------------------------
(* function/src/main/proto/any.pb-c, timestamp.pb-c, cloudevents.pb-c *)

AnyStruct == [type_url |-> <<EmptyString>>, value |-> Blank(2)]
ProtobufAny == Descriptor(<<Field("type_url", 1, "string"), Field("value", 2, "bytes")>>, AnyStruct)

TimestampStruct == [seconds |-> Blank(2), nanos |-> Blank(1)]
Timestamp ==
    Descriptor(<<Field("seconds", 1, "int64"), Field("nanos", 2, "int32")>>, TimestampStruct)

AttributesEntryStruct == [key |-> <<EmptyString>>, value |-> Blank(1)]
AttributesEntry ==
    Descriptor(<<Field("key", 1, "string"), Sub("value", 2, "AttributeValue")>>,
               AttributesEntryStruct)

AttributeValueStruct == [attr_case |-> Blank(1), attr |-> Blank(2)]
AttributeValue ==
    LET Case(field) == OneOf("attr_case", "attr", field)
    IN Descriptor(<<Case(Field("ce_boolean", 1, "bool")),
                    Case(Field("ce_integer", 2, "int32")),
                    Case(Field("ce_string", 3, "string")),
                    Case(Field("ce_bytes", 4, "bytes")),
                    Case(Field("ce_uri", 5, "string")),
                    Case(Field("ce_uri_ref", 6, "string")),
                    Case(Sub("ce_timestamp", 7, "Timestamp"))>>,
                  AttributeValueStruct)

CloudEventStruct ==
    [m \in {"id", "source", "spec_version", "type", "n_attributes", "attributes",
            "data_case", "data"} |->
        CASE m \in {"id", "source", "spec_version", "type"} -> <<EmptyString>>
          [] m = "data" -> Blank(2)
          [] OTHER -> Blank(1)]
CloudEvent ==
    LET Case(field) == OneOf("data_case", "data", field)
    IN Descriptor(<<Field("id", 1, "string"), Field("source", 2, "string"),
                    Field("spec_version", 3, "string"), Field("type", 4, "string"),
                    Repeated("attributes", "n_attributes", 5, "AttributesEntry"),
                    Case(Field("binary_data", 6, "bytes")),
                    Case(Field("text_data", 7, "string")),
                    Case(Sub("proto_data", 8, "Any"))>>,
                  CloudEventStruct)

CloudEventBatchStruct == [n_events |-> Blank(1), events |-> Blank(1)]
CloudEventBatch ==
    Descriptor(<<Repeated("events", "n_events", 1, "CloudEvent")>>, CloudEventBatchStruct)

any == FunctionsOf("Any", AnyStruct)
timestamp == FunctionsOf("Timestamp", TimestampStruct)
cloud_event == FunctionsOf("CloudEvent", CloudEventStruct)
cloud_event_batch == FunctionsOf("CloudEventBatch", CloudEventBatchStruct)

Messages ==
    {"SpringMessage", "SpringMessage.HeadersEntry",
     "GenericMessage", "GenericMessage.FieldsEntry", "GenericList", "GenericValue",
     "Any", "Timestamp", "CloudEvent", "AttributesEntry", "AttributeValue", "CloudEventBatch"}

(* The descriptor a pointer to it leads to. *)
DescriptorOf(message) ==
    CASE message = "SpringMessage" -> SpringMessage
      [] message = "SpringMessage.HeadersEntry" -> SpringHeadersEntry
      [] message = "GenericMessage" -> GenericMessage
      [] message = "GenericMessage.FieldsEntry" -> GenericFieldsEntry
      [] message = "GenericList" -> GenericList
      [] message = "GenericValue" -> GenericValue
      [] message = "Any" -> ProtobufAny
      [] message = "Timestamp" -> Timestamp
      [] message = "AttributesEntry" -> AttributesEntry
      [] message = "AttributeValue" -> AttributeValue
      [] message = "CloudEvent" -> CloudEvent
      [] message = "CloudEventBatch" -> CloudEventBatch
=============================================================================
