------------------------------ MODULE Promises ------------------------------
(***************************************************************************)
(* What the functions of the guests promise, in terms of the messages Java *)
(* passes and gets: a SpringMessage has a payload and a map of headers, a  *)
(* CloudEvent an id and other attributes.  GuestPlugin shows that the C    *)
(* code keeps these promises; GatewayFilters relies on them.               *)
(***************************************************************************)
LOCAL INSTANCE Naturals

(* The map Java reads from the entries of an encoded one: the last with a   *)
(* key counts.                                                              *)
HeadersIn(entries) ==
    LET last(k) == CHOOSE i \in DOMAIN entries :
                       /\ entries[i].key = k
                       /\ \A j \in DOMAIN entries : entries[j].key = k => j <= i
    IN [k \in {entries[i].key : i \in DOMAIN entries} |-> entries[last(k)].value]

(* What Java passes and gets, of what is written in the encoded message. *)
JavaMessage(function, content) ==
    IF function = "filter"
    THEN [id |-> content.id,
          others |-> [name \in DOMAIN content \ {"id"} |-> content[name]]]
    ELSE [payload |-> content.payload, headers |-> HeadersIn(content.headers)]

Predicate(message) == "one" \in DOMAIN message.headers

Request(message) == message

Response(message) ==
    [message EXCEPT !.headers =
        [name \in DOMAIN @ \union {"one"} |-> IF name = "one" THEN "two" ELSE @[name]]]

Filter(event) == [event EXCEPT !.id = "1-5150"]

Promise(function, message) ==
    CASE function = "predicate" -> Predicate(message)
      [] function = "request" -> Request(message)
      [] function = "response" -> Response(message)
      [] function = "filter" -> Filter(message)
=============================================================================
