--------------------------- MODULE EventFunction ----------------------------
(***************************************************************************)
(* The function bean decorateEventWithWasm, called by request threads that *)
(* share the loader of WasmLoader: each event goes through the plugin's    *)
(* filter, and is decorated once the runner is closed.  The steps are the  *)
(* loader's, with what the function does at them.                          *)
(*                                                                         *)
(* An event is its id, and its data and other attributes by name.  Its     *)
(* proto form says the same in another class.                              *)
(***************************************************************************)
EXTENDS Naturals, Promises

CONSTANTS
    Threads, Resources, Compilable, Linkable, MaxRunners,   \* the loader's
    Events,     \* events that come in
    Nothing     \* no event: none yet, or an exception instead

ASSUME EventAssumption ==
    \A e \in Events :
        /\ e = [id |-> e.id, others |-> e.others]
        /\ e.others = [name \in DOMAIN e.others |-> e.others[name]]

VARIABLES
    engine, store, modules, computing, pc, resource, linker, created, open,
    instances, compiled, readFailed, orphans, outcome,      \* the loader's
    input,      \* per thread, the event the function was called with,
    answer,     \* outputProto, and
    output      \* what the function returned

Loader == INSTANCE WasmLoader

vars == <<Loader!vars, input, answer, output>>

Nowhere == [t \in Threads |-> Nothing]

Init == Loader!Init /\ input = Nowhere /\ answer = Nowhere /\ output = Nowhere

-----------------------------------------------------------------------------
(* An event comes in and is converted, and message.wasm is asked for. *)
Receive(t) ==
    /\ \E r \in Resources : Loader!Begin(t, r)
    /\ \E e \in Events : input' = [input EXCEPT ![t] = e]
    /\ answer' = [answer EXCEPT ![t] = Nothing]
    /\ output' = [output EXCEPT ![t] = Nothing]

Call(t) ==
    /\ Loader!CallReturns(t)
    /\ answer' = [answer EXCEPT ![t] = Promise("filter", input[t])]
    /\ UNCHANGED <<input, output>>

(* CloudEventBuilder.from(event).withExtension: a value it had is replaced. *)
Decorated(event) ==
    [event EXCEPT !.others =
        [name \in DOMAIN @ \union {"decoratedby"} |->
            IF name = "decoratedby" THEN "function" ELSE @[name]]]

(* Faulty: the exception of a call that failed is taken for no answer, and *)
(* the event itself is decorated.                                          *)
Close_Ignores(t) ==
    /\ Loader!CloseRunner(t)
    /\ output' = [output EXCEPT
          ![t] = Decorated(IF outcome[t] = "served" THEN answer[t] ELSE input[t])]
    /\ UNCHANGED <<input, answer>>

(* Faulty: the function returns without closing the runner. *)
Close_Leaks(t) ==
    /\ Loader!Go(t, "close", "idle")
    /\ output' = IF outcome[t] = "served"
                 THEN [output EXCEPT ![t] = Decorated(answer[t])] ELSE output
    /\ UNCHANGED <<engine, store, modules, computing, resource, linker, created, open,
                   instances, compiled, readFailed, orphans, outcome, input, answer>>

(* The runner is closed; what the plugin answered is converted back and    *)
(* decorated, and the exception of a call that failed goes on.             *)
Close(t) ==
    /\ Loader!CloseRunner(t)
    /\ output' = IF outcome[t] = "served"
                 THEN [output EXCEPT ![t] = Decorated(answer[t])] ELSE output
    /\ UNCHANGED <<input, answer>>

(* Faulty: an event that finds no runner waits for one. *)
NoRunner_Waits(t) ==
    /\ Loader!NewLinkerThrows(t) \/ Loader!InstantiateThrows(t) \/ Loader!CompileThrows(t)
    /\ UNCHANGED <<input, answer, output>>

(* runner(..) is null, and Assert.notNull throws, or throws itself. *)
NoRunner(t) ==
    /\ \/ Loader!LookupAbsent(t) \/ Loader!NewLinkerThrows(t)
       \/ Loader!InstantiateThrows(t) \/ Loader!CompileThrows(t)
    /\ UNCHANGED <<input, answer, output>>

(* Steps of runner(..) on the way to a runner, and the call that throws. *)
Underway(t) ==
    /\ \/ Loader!ReadFails(t) \/ Loader!Compile(t) \/ Loader!LookupPresent(t)
       \/ Loader!NewLinker(t) \/ Loader!Instantiate(t) \/ Loader!CallThrows(t)
    /\ UNCHANGED <<input, answer, output>>

Waits(t) == Loader!Compute(t) /\ UNCHANGED <<input, answer, output>>

Proceed(t) == Call(t) \/ Close(t) \/ NoRunner(t) \/ Underway(t)

ContextCloses == Loader!CloseLoader /\ UNCHANGED <<input, answer, output>>

Finished == Loader!Finished /\ UNCHANGED vars

Next ==
    \/ \E t \in Threads : Receive(t) \/ Waits(t) \/ Proceed(t)
    \/ ContextCloses \/ Finished

(* The loader's fairness: a request that runs goes on. *)
FairSpec ==
    /\ Init /\ [][Next]_vars
    /\ \A t \in Threads : WF_vars(Proceed(t)) /\ SF_vars(Waits(t))

-----------------------------------------------------------------------------
(* The function returns the event it was called with, with another id and    *)
(* the function's name on it, whatever other threads and the closing context *)
(* do; and only if the plugin answered: no event passes undecorated.         *)
OnlyDecorated ==
    \A t \in Threads : output[t] # Nothing =>
        /\ output[t].id = "1-5150"
        /\ output[t].others["decoratedby"] = "function"
        /\ \A name \in DOMAIN input[t].others \ {"decoratedby"} :
              output[t].others[name] = input[t].others[name]
        /\ DOMAIN output[t].others = DOMAIN input[t].others \union {"decoratedby"}

(* The function's threads are request threads of the loader: whatever they   *)
(* do with an event, they ask for a runner, call it and close it (the try    *)
(* statement of the bean), so what holds of the loader holds of it here.     *)
LoaderSpec == Loader!Spec

(* Every event is answered, or its sender told that it failed, even while   *)
(* the context closes under it.                                             *)
EventEnds == \A t \in Threads : pc[t] # "idle" ~> pc[t] = "idle"
=============================================================================
