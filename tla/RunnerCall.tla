----------------------------- MODULE RunnerCall ------------------------------
(***************************************************************************)
(* WasmRunner.call as the code that calls it sees it: a request goes out,  *)
(* and either the guest's answer to it comes back or an exception does.    *)
(* That the answer crosses a memory both sides allocate from shows in two  *)
(* ways only: once a malloc returned 0 the answer may be anything, and     *)
(* once the memory has grown the host may not find it, and throw.          *)
(***************************************************************************)
CONSTANTS
    Kinds, Requests,
    Meant,          \* the answer to a request, for each return type
    None, Threw,    \* no answer yet, and an exception
    Allocates       \* the guest exports an allocator

VARIABLES
    call,           \* return type and request, or None
    answer,         \* what the last call came back with
    exhausted,      \* in this call, a malloc returned 0
    trapped,        \* in this call, a use of the guest's exports threw
    grown           \* in this call, the memory has grown

vars == <<call, answer, exhausted, trapped, grown>>

Init == call = None /\ answer = None /\ ~exhausted /\ ~trapped /\ ~grown

Ask ==
    /\ call = None /\ call' \in Kinds \X Requests
    /\ answer' = None /\ ~exhausted' /\ ~trapped' /\ ~grown'

(* What happened in a call stays known until the next. *)
Known == (exhausted => exhausted') /\ (trapped => trapped') /\ (grown => grown')

(* Something goes wrong, and the call goes on. *)
Fail == call # None /\ Known /\ UNCHANGED <<call, answer>>

Return ==
    /\ call # None /\ call' = None /\ Known
    /\ \/ answer' = Meant[call]
       \/ answer' = Threw /\ (Allocates => exhausted' \/ trapped' \/ grown')
       \/ answer' # None /\ exhausted'

Next == Ask \/ Fail \/ Return

Spec == Init /\ [][Next]_vars
=============================================================================
