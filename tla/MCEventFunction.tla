-------------------------- MODULE MCEventFunction ---------------------------
(* A plain event, and one that went through the function before. *)
EXTENDS EventFunction

SomeEvents ==
    {[id |-> "1", others |-> [source |-> "s"]],
     [id |-> "1-5150", others |-> [source |-> "s", decoratedby |-> "other"]]}
=============================================================================
