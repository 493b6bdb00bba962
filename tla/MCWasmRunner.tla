---------------------------- MODULE MCWasmRunner ----------------------------
(* WasmRunner with an empty, a short and a long request, and their answers. *)
EXTENDS WasmRunner

MCRequests == {"empty", "short", "long"}
MCReplies == {"empty", "answer"}
MCSize == [empty |-> 0, short |-> 1, long |-> 2, answer |-> 2]
MCReply == [empty |-> "empty", short |-> "answer", long |-> "answer"]
MCScore == [empty |-> 0, short |-> 1, long |-> 2]

(* For a guest without malloc: it answers with the request itself. *)
MCEchoes == MCRequests
MCEcho == [q \in MCRequests |-> q]
MCEchoSize == [empty |-> 0, short |-> 1, long |-> 2]
=============================================================================
