--------------------------- MODULE MCGuestObjects ---------------------------
(* Messages with no or two headers and an event; each part has an object of *)
(* its own or none, anywhere in a memory of few addresses.                  *)
EXTENDS GuestObjects, Integers

Entry(k, v) == [key |-> k, value |-> v]

SpringMessages ==
    {[payload |-> "p", headers |-> h] :
        h \in {<<>>, <<Entry("one", "x"), Entry("a", "y")>>}}

CloudEvents == {[name \in Parts("filter") |-> "x"]}

MCContents ==
    [f \in Exports |-> IF f = "filter" THEN CloudEvents ELSE SpringMessages]

(* An object for each of the parts first and second, none for the others.  No *)
(* step compares addresses, so that the first lies lower leaves nothing out.  *)
Layout(parts, first, second) ==
    {[p \in parts |-> IF p = first THEN {a} ELSE IF p = second THEN {b} ELSE {}] :
        <<a, b>> \in {pair \in Addresses \X Addresses : pair[1] < pair[2]}}

MCLayouts ==
    [f \in Exports |->
        IF f = "filter" THEN Layout(Parts(f), "id", "data")
        ELSE Layout(Parts(f), "headers", "entries") \cup {[p \in Parts(f) |-> {}]}]
=============================================================================
