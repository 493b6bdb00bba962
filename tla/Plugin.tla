------------------------------- MODULE Plugin -------------------------------
(***************************************************************************)
(* A plugin as its caller sees it: one call at a time, and each is         *)
(* answered as Promises says.                                              *)
(***************************************************************************)
EXTENDS Promises

CONSTANTS Exports, Nothing

VARIABLES call, reply

vars == <<call, reply>>

Init == call = Nothing /\ reply = Nothing

Ask ==
    /\ call = Nothing
    /\ call' # Nothing /\ call'.function \in Exports
    /\ reply' = Nothing

Answer ==
    /\ call # Nothing
    /\ reply' = Promise(call.function, call.message)
    /\ call' = Nothing

Next == Ask \/ Answer

Spec == Init /\ [][Next]_vars
=============================================================================
