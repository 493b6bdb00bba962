----------------------------- MODULE WasmLoader -----------------------------
(***************************************************************************)
(* The WasmLoader of the loader library, shared by the request threads of  *)
(* an application (the gateway's filters and predicate, the function's     *)
(* bean), and closed by the thread that closes the application context.    *)
(*                                                                         *)
(* A request borrows a runner the way every caller in the repository does: *)
(*                                                                         *)
(*   try (WasmRunner runner = loader.runner(resource)) {                   *)
(*       if (runner != null) runner.call(...);                             *)
(*   }                                                                     *)
(*                                                                         *)
(* A native object (engine, store, compiled module, linker, instance) is   *)
(* modelled by its life cycle.  A native call is one step: what two native *)
(* calls do when they overlap inside one store is decided by the wasmtime  *)
(* binding, not by this repository.                                        *)
(***************************************************************************)
EXTENDS Naturals, FiniteSets

CONSTANTS
    Threads,        \* request threads
    Resources,      \* keys of the module cache
    Compilable,     \* resources whose bytes compile to a module
    Linkable,       \* resources whose imports the linker can satisfy
    MaxRunners      \* bound on the linkers ever created

ASSUME LoaderAssumption ==
    /\ Compilable \subseteq Resources
    /\ Linkable \subseteq Resources
    /\ MaxRunners \in Nat

VARIABLES
    engine, store,  \* fields of the loader and what they refer to
    modules,        \* the module cache: 0 for no entry, else a module number
    computing,      \* threads inside computeIfAbsent's function, per key
    pc,             \* where each request thread is
    resource,       \* the resource a thread asked for
    linker,         \* the linker a thread works with (0: none)
    created,        \* number of linkers created so far
    open,           \* linkers not closed yet
    instances,      \* linkers that put an instance into the store
    compiled,       \* history: native modules compiled per resource
    readFailed,     \* history: the request's own read of the resource failed
    orphans,        \* history: linkers whose runner(..) call threw
    outcome         \* how the thread's last request ended

vars == <<engine, store, modules, computing, pc, resource, linker, created,
          open, instances, compiled, readFailed, orphans, outcome>>
fields == <<engine, store>>
cache == <<modules, computing, compiled>>
natives == <<created, open, instances, orphans>>

Handle == {"live", "disposed", "null"}
Place == {"idle", "compute", "compiling", "lookup", "linker", "instantiate",
          "call", "close"}
Ending == {"none", "served", "absent", "threw"}

Init ==
    /\ engine = "live" /\ store = "live"
    /\ modules = [r \in Resources |-> 0]
    /\ computing = [r \in Resources |-> {}]
    /\ pc = [t \in Threads |-> "idle"]
    /\ resource \in [Threads -> Resources]
    /\ linker = [t \in Threads |-> 0]
    /\ created = 0 /\ open = {} /\ instances = {} /\ orphans = {}
    /\ compiled = [r \in Resources |-> 0]
    /\ readFailed = [t \in Threads |-> FALSE]
    /\ outcome = [t \in Threads |-> "none"]

Active == {t \in Threads : pc[t] # "idle"}

Go(t, from, to) == pc[t] = from /\ pc' = [pc EXCEPT ![t] = to]
End(t, how) == outcome' = [outcome EXCEPT ![t] = how]

-----------------------------------------------------------------------------
(* A request enters runner(resource). *)
Begin(t, r) ==
    /\ created + Cardinality(Active) < MaxRunners
    /\ Go(t, "idle", "compute")
    /\ resource' = [resource EXCEPT ![t] = r]
    /\ readFailed' = [readFailed EXCEPT ![t] = FALSE]
    /\ End(t, "none")
    /\ UNCHANGED <<fields, cache, natives, linker>>

(* Faulty: goes on while another thread is still compiling for the key. *)
ComputePresent_NoWait(t) ==
    /\ Go(t, "compute", "lookup")
    /\ modules[resource[t]] # 0 \/ computing[resource[t]] # {}
    /\ UNCHANGED <<fields, cache, natives, resource, linker, readFailed, outcome>>

(* computeIfAbsent finds an entry and does not call the function. *)
ComputePresent(t) ==
    /\ Go(t, "compute", "lookup")
    /\ modules[resource[t]] # 0
    /\ UNCHANGED <<fields, cache, natives, resource, linker, readFailed, outcome>>

(* Faulty: get, then put, with no lock on the key. *)
ComputeStart_GetThenPut(t) ==
    /\ Go(t, "compute", "compiling")
    /\ modules[resource[t]] = 0
    /\ computing' = [computing EXCEPT ![resource[t]] = @ \cup {t}]
    /\ UNCHANGED <<fields, modules, compiled, natives, resource, linker,
                   readFailed, outcome>>

(* computeIfAbsent calls the function; other threads wait for the key. *)
ComputeStart(t) ==
    /\ Go(t, "compute", "compiling")
    /\ modules[resource[t]] = 0
    /\ computing[resource[t]] = {}
    /\ computing' = [computing EXCEPT ![resource[t]] = {t}]
    /\ UNCHANGED <<fields, modules, compiled, natives, resource, linker,
                   readFailed, outcome>>

Unlock(t) == computing' = [computing EXCEPT ![resource[t]] = @ \ {t}]

(* The IOException of reading the resource becomes null: no entry is made. *)
ReadFails(t) ==
    /\ Go(t, "compiling", "lookup")
    /\ Unlock(t)
    /\ readFailed' = [readFailed EXCEPT ![t] = TRUE]
    /\ UNCHANGED <<fields, modules, compiled, natives, resource, linker, outcome>>

(* The bytes compile (binary or text) and the module becomes the entry. *)
Compile(t) ==
    /\ Go(t, "compiling", "lookup")
    /\ resource[t] \in Compilable
    /\ engine = "live"
    /\ compiled' = [compiled EXCEPT ![resource[t]] = @ + 1]
    /\ modules' = [modules EXCEPT ![resource[t]] = compiled'[resource[t]]]
    /\ Unlock(t)
    /\ UNCHANGED <<fields, natives, resource, linker, readFailed, outcome>>

(* Faulty: a failed compilation leaves the key locked. *)
CompileThrows_KeyStaysLocked(t) ==
    /\ Go(t, "compiling", "idle")
    /\ resource[t] \notin Compilable \/ engine # "live"
    /\ End(t, "threw")
    /\ UNCHANGED <<fields, cache, natives, resource, linker, readFailed>>

(* Too few bytes, bytes that are no module, or an engine that close() took: *)
(* the exception leaves computeIfAbsent and runner.                         *)
CompileThrows(t) ==
    /\ Go(t, "compiling", "idle")
    /\ resource[t] \notin Compilable \/ engine # "live"
    /\ Unlock(t)
    /\ End(t, "threw")
    /\ UNCHANGED <<fields, modules, compiled, natives, resource, linker, readFailed>>

(* modules.get: no entry, so runner returns null and the caller goes on     *)
(* without the module.                                                      *)
LookupAbsent(t) ==
    /\ Go(t, "lookup", "idle")
    /\ modules[resource[t]] = 0
    /\ End(t, "absent")
    /\ UNCHANGED <<fields, cache, natives, resource, linker, readFailed>>

LookupPresent(t) ==
    /\ Go(t, "lookup", "linker")
    /\ modules[resource[t]] # 0
    /\ UNCHANGED <<fields, cache, natives, resource, linker, readFailed, outcome>>

(* Faulty: the linker is not counted as one of the created ones. *)
NewLinker_Uncounted(t) ==
    /\ Go(t, "linker", "instantiate")
    /\ store = "live"
    /\ open' = open \cup {created + 1}
    /\ linker' = [linker EXCEPT ![t] = created + 1]
    /\ UNCHANGED <<fields, cache, created, instances, orphans, resource,
                   readFailed, outcome>>

(* Faulty: one linker, and with it one instance, kept for every request. *)
NewLinker_Shared(t) ==
    /\ Go(t, "linker", "instantiate")
    /\ store = "live"
    /\ created' = 1
    /\ open' = {1}
    /\ linker' = [linker EXCEPT ![t] = 1]
    /\ UNCHANGED <<fields, cache, instances, orphans, resource, readFailed, outcome>>

(* new Linker(store.engine()) *)
NewLinker(t) ==
    /\ Go(t, "linker", "instantiate")
    /\ store = "live"
    /\ created' = created + 1
    /\ open' = open \cup {created'}
    /\ linker' = [linker EXCEPT ![t] = created']
    /\ UNCHANGED <<fields, cache, instances, orphans, resource, readFailed, outcome>>

NewLinkerThrows(t) ==
    /\ Go(t, "linker", "idle")
    /\ store # "live"
    /\ End(t, "threw")
    /\ UNCHANGED <<fields, cache, natives, resource, linker, readFailed>>

(* addToLinker, define and linker.module: a new instance in the one store. *)
Instantiate(t) ==
    /\ Go(t, "instantiate", "call")
    /\ store = "live"
    /\ resource[t] \in Linkable
    /\ instances' = instances \cup {linker[t]}
    /\ UNCHANGED <<fields, cache, created, open, orphans, resource, linker,
                   readFailed, outcome>>

(* One of them throws: runner has not returned, so no one closes the linker. *)
InstantiateThrows(t) ==
    /\ Go(t, "instantiate", "idle")
    /\ store # "live" \/ resource[t] \notin Linkable
    /\ orphans' = orphans \cup {linker[t]}
    /\ linker' = [linker EXCEPT ![t] = 0]
    /\ End(t, "threw")
    /\ UNCHANGED <<fields, cache, created, open, instances, resource, readFailed>>

(* The body of the caller's try statement. *)
CallReturns(t) ==
    /\ Go(t, "call", "close")
    /\ store = "live"
    /\ End(t, "served")
    /\ UNCHANGED <<fields, cache, natives, resource, linker, readFailed>>

(* Faulty: an exception in the body skips runner.close(). *)
CallThrows_NoClose(t) ==
    /\ Go(t, "call", "idle")
    /\ linker' = [linker EXCEPT ![t] = 0]
    /\ End(t, "threw")
    /\ UNCHANGED <<fields, cache, natives, resource, readFailed>>

CallThrows(t) ==
    /\ Go(t, "call", "close")
    /\ End(t, "threw")
    /\ UNCHANGED <<fields, cache, natives, resource, linker, readFailed>>

(* runner.close(), which the try statement calls in both cases. *)
CloseRunner(t) ==
    /\ Go(t, "close", "idle")
    /\ open' = open \ {linker[t]}
    /\ linker' = [linker EXCEPT ![t] = 0]
    /\ UNCHANGED <<fields, cache, created, instances, orphans, resource,
                   readFailed, outcome>>

-----------------------------------------------------------------------------
(* WasmLoader.close(), statement by statement.  It takes no lock and waits  *)
(* for no request.  A second close() finds both fields null.                *)
DisposeEngine == engine = "live" /\ engine' = "disposed" /\ UNCHANGED store
ForgetEngine == engine = "disposed" /\ engine' = "null" /\ UNCHANGED store
DisposeStore ==
    engine = "null" /\ store = "live" /\ store' = "disposed" /\ UNCHANGED engine
ForgetStore == store = "disposed" /\ store' = "null" /\ UNCHANGED engine

CloseLoader ==
    /\ DisposeEngine \/ ForgetEngine \/ DisposeStore \/ ForgetStore
    /\ UNCHANGED <<cache, natives, pc, resource, linker, readFailed, outcome>>

Compute(t) == ComputePresent(t) \/ ComputeStart(t)

(* The steps of a request after computeIfAbsent was entered. *)
Proceed(t) ==
    \/ ReadFails(t) \/ Compile(t) \/ CompileThrows(t)
    \/ LookupAbsent(t) \/ LookupPresent(t)
    \/ NewLinker(t) \/ NewLinkerThrows(t)
    \/ Instantiate(t) \/ InstantiateThrows(t)
    \/ CallReturns(t) \/ CallThrows(t) \/ CloseRunner(t)

Request(t) == (\E r \in Resources : Begin(t, r)) \/ Compute(t) \/ Proceed(t)

(* The application is closed, or the bound on linkers stops new requests. *)
Finished == Active = {} /\ store = "null" /\ UNCHANGED vars

Next == (\E t \in Threads : Request(t)) \/ CloseLoader \/ Finished

Spec == Init /\ [][Next]_vars

(***************************************************************************)
(* A thread that runs a request keeps running it, and the JVM does not     *)
(* starve a thread that waits for a cache key for ever.  Nothing makes a   *)
(* request begin, and nothing makes the application context close.         *)
(***************************************************************************)
Fairness == \A t \in Threads : WF_vars(Proceed(t)) /\ SF_vars(Compute(t))

FairSpec == Spec /\ Fairness
-----------------------------------------------------------------------------
(* The variables hold values of the intended kind. *)
TypeOK ==
    /\ engine \in Handle /\ store \in Handle
    /\ modules \in [Resources -> Nat]
    /\ computing \in [Resources -> SUBSET Threads]
    /\ pc \in [Threads -> Place]
    /\ resource \in [Threads -> Resources]
    /\ created \in Nat
    /\ linker \in [Threads -> 0..created]
    /\ open \subseteq 0..created
    /\ instances \subseteq 0..created
    /\ orphans \subseteq 0..created
    /\ compiled \in [Resources -> Nat]
    /\ readFailed \in [Threads -> BOOLEAN]
    /\ outcome \in [Threads -> Ending]

(* However many requests ask for a resource at once, its bytes are compiled *)
(* to at most one native module (computeIfAbsent, WasmLoader.java:37).      *)
CompiledOnce == \A r \in Resources : compiled[r] <= 1

(* A request goes on without the module (runner returned null) only when    *)
(* its own read of the resource failed: never because another thread was    *)
(* still compiling, had failed, or the loader was being closed.             *)
AbsentOnlyAfterOwnReadFailure ==
    \A t \in Threads : outcome[t] = "absent" => readFailed[t]

Holding(t) == pc[t] \in {"instantiate", "call", "close"}

(* Every linker not closed is held by exactly the request that created it,  *)
(* or was lost when runner(..) threw after creating it: the try statement   *)
(* of the callers closes all the others, on every path.                     *)
LinkersAccountedFor ==
    /\ open = {linker[t] : t \in {u \in Threads : Holding(u)}} \cup orphans
    /\ \A t, u \in Threads :
          Holding(t) /\ Holding(u) /\ linker[t] = linker[u] => t = u
    /\ \A t \in Threads : Holding(t) => linker[t] \notin orphans

(* Requests see the runners of an abstract lease. *)
Lease == INSTANCE RunnerLease WITH
    phase <- [t \in Threads |->
                 IF pc[t] = "idle" THEN "idle"
                 ELSE IF pc[t] \in {"call", "close"} THEN "holding" ELSE "asking"],
    lease <- [t \in Threads |->
                 IF pc[t] \in {"call", "close"} THEN linker[t] ELSE 0],
    issued <- instances

(* Every runner handed out has a guest instance of its own, used by one     *)
(* request from runner(..) to close() (WasmLoader.java:51-55).              *)
LeaseSpec == Lease!Spec

(* A request always ends: it cannot wait for a cache key for ever, and      *)
(* close() cannot leave it stuck.                                           *)
RequestEnds == \A t \in Threads : pc[t] # "idle" ~> pc[t] = "idle"

-----------------------------------------------------------------------------
(* README.md:7 lists as done "prevent leaks and re-use instances of the     *)
(* WASM": one instance per resource and thread would always do.             *)
InstancesReused ==
    Cardinality(instances) <= Cardinality(Resources) * Cardinality(Threads)
=============================================================================
