------------------------------ MODULE MCTrees -------------------------------
(* Encoded messages as the sequences of the fields in them, [id, value], where  *)
(* the value of a message, <<"message", m>>, is such a sequence again.           *)
EXTENDS ProtobufC

RECURSIVE TreeOf(_, _)
TreeOf(name, tokens) ==
    LET with(id) == SelectSeq(tokens, LAMBDA token: token.id = id)
        ids == {tokens[i].id : i \in DOMAIN tokens}
        steps == {step \in ids \X DOMAIN tokens :
                     /\ step[2] <= Len(with(step[1]))
                     /\ with(step[1])[step[2]].value[1] = "message"}
        within == [step \in steps |->
                      TreeOf(FieldNumbered(name, step[1]).message, with(step[1])[step[2]].value[2])]
        value(token) == IF token.value[1] = "message" THEN Within ELSE token.value
        message == [of |-> name,
                    fields |-> [id \in ids |-> [i \in DOMAIN with(id) |-> value(with(id)[i])]]]
    IN [p \in {<<>>} \cup UNION {{<<step>> \o q : q \in DOMAIN within[step]} : step \in steps} |->
           IF p = <<>> THEN message ELSE within[Head(p)][Tail(p)]]
=============================================================================
