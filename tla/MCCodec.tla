------------------------------ MODULE MCCodec -------------------------------
(* Every encoding Java writes of a message whose repeated fields have at most *)
(* two elements and nest at most as deep as given: fields in the order of     *)
(* their numbers, at most one of a union, and both fields of a map's entry.   *)
EXTENDS Codec, MCTrees

Texts == {"", "a"}

RECURSIVE EncodingsOf(_, _)

Values(field, depth) ==
    CASE field.type = "message" -> {<<"message", m>> : m \in EncodingsOf(field.message, depth)}
      [] field.type \in {"string", "bytes"} -> {<<"text", s>> : s \in Texts}
      [] field.type = "enum" -> {<<"number", 0>>}
      [] OTHER -> {<<"number", n>> : n \in {0, 1}}

Occurrences(name, field, depth) ==
    LET token(value) == [id |-> field.id, value |-> value]
    IN IF field.label = "repeated"
       THEN IF depth = 0 THEN {<<>>}
            ELSE LET some == Values(field, depth - 1)
                     one == CHOOSE value \in some : TRUE
                 IN {<<>>} \union {<<token(value)>> : value \in some}
                           \union {<<token(one), token(value)>> : value \in some}
       ELSE IF name \in {"SpringMessage.HeadersEntry", "GenericMessage.FieldsEntry", "AttributesEntry"}
       THEN {<<token(value)>> : value \in Values(field, depth)}
       ELSE {<<>>} \union {<<token(value)>> :
                value \in Values(field, depth) \ {<<"text", "">>, <<"number", 0>>}}

EncodingsOf(name, depth) ==
    LET fields == DescriptorOf(name).fields
        unions == {i \in DOMAIN fields : IsOneOf(fields[i])}
        apart == SelectSeq(fields, LAMBDA field: ~IsOneOf(field))
        tails == {<<>>} \union UNION {{<<[id |-> fields[i].id, value |-> value]>> :
                                          value \in Values(fields[i], depth)} : i \in unions}
    IN FoldRight(LAMBDA field, rest: {head \o tail : head \in Occurrences(name, field, depth),
                                                     tail \in rest},
                 apart, tails)

AllCodecs == {spring_message, generic_message, generic_list, generic_value,
              any, timestamp, cloud_event, cloud_event_batch}

BoundedEncodings(functions) ==
    {TreeOf(functions.descriptor, tokens) :
        tokens \in EncodingsOf(functions.descriptor,
            IF functions \in {spring_message, generic_message, generic_list, generic_value}
            THEN 2 ELSE 1)}
=============================================================================
