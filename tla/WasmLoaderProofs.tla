-------------------------- MODULE WasmLoaderProofs --------------------------
(***************************************************************************)
(* Proofs about WasmLoader: type correctness, the invariants of the cache  *)
(* and of the linkers, and that the loader implements RunnerLease, for any *)
(* sets of threads and resources.                                          *)
(***************************************************************************)
EXTENDS WasmLoader, TLAPS

-----------------------------------------------------------------------------
(* The variables keep their types in every behaviour of the loader. *)
THEOREM TypeCorrect == Spec => []TypeOK
<1>1. Init => TypeOK
  BY DEF Init, TypeOK, Handle, Place, Ending
<1>2. TypeOK /\ [Next]_vars => TypeOK'
  <2> SUFFICES ASSUME TypeOK, [Next]_vars PROVE TypeOK'
    OBVIOUS
  <2> USE DEF TypeOK, Handle, Place, Ending, Go, End, Unlock, fields, cache, natives
  <2>1. ASSUME NEW t \in Threads, NEW r \in Resources, Begin(t, r) PROVE TypeOK'
    BY <2>1 DEF Begin
  <2>2. ASSUME NEW t \in Threads, Compute(t) PROVE TypeOK'
    <3>1. CASE ComputePresent(t)
      BY <3>1 DEF ComputePresent
    <3>2. CASE ComputeStart(t)
      BY <3>2 DEF ComputeStart
    <3> QED
      BY <2>2, <3>1, <3>2 DEF Compute
  <2>3. ASSUME NEW t \in Threads, Proceed(t) PROVE TypeOK'
    <3>1. CASE ReadFails(t)
      BY <3>1 DEF ReadFails
    <3>2. CASE Compile(t)
      BY <3>2 DEF Compile
    <3>3. CASE CompileThrows(t)
      BY <3>3 DEF CompileThrows
    <3>4. CASE LookupAbsent(t) \/ LookupPresent(t)
      BY <3>4 DEF LookupAbsent, LookupPresent
    <3>5. CASE NewLinker(t)
      BY <3>5 DEF NewLinker
    <3>6. CASE NewLinkerThrows(t)
      BY <3>6 DEF NewLinkerThrows
    <3>7. CASE Instantiate(t)
      <4>1. instances' \subseteq 0..created
        BY <3>7 DEF Instantiate
      <4>2. pc' \in [Threads -> Place]
        BY <3>7 DEF Instantiate
      <4>3. UNCHANGED <<engine, store, modules, computing, compiled, created, open, orphans,
                        resource, linker, readFailed, outcome>>
        BY <3>7 DEF Instantiate
      <4> QED
        BY <4>1, <4>2, <4>3
    <3>8. CASE InstantiateThrows(t)
      <4>1. linker' \in [Threads -> 0..created] /\ created' = created
        BY <3>8 DEF InstantiateThrows
      <4>2. orphans' \subseteq 0..created
        BY <3>8 DEF InstantiateThrows
      <4> QED
        BY <3>8, <4>1, <4>2 DEF InstantiateThrows
    <3>9. CASE CallReturns(t) \/ CallThrows(t)
      <4>1. pc' \in [Threads -> Place] /\ outcome' \in [Threads -> Ending]
        BY <3>9 DEF CallReturns, CallThrows
      <4>2. UNCHANGED <<fields, cache, natives, resource, linker, readFailed>>
        BY <3>9 DEF CallReturns, CallThrows
      <4> QED
        BY <4>1, <4>2
    <3>10. CASE CloseRunner(t)
      <4>1. linker' \in [Threads -> 0..created] /\ created' = created
        BY <3>10 DEF CloseRunner
      <4> QED
        BY <3>10, <4>1 DEF CloseRunner
    <3> QED
      BY <2>3, <3>1, <3>2, <3>3, <3>4, <3>5, <3>6, <3>7, <3>8, <3>9, <3>10 DEF Proceed
  <2>4. ASSUME CloseLoader PROVE TypeOK'
    BY <2>4 DEF CloseLoader, DisposeEngine, ForgetEngine, DisposeStore, ForgetStore
  <2>5. ASSUME UNCHANGED vars PROVE TypeOK'
    BY <2>5 DEF vars
  <2> QED
    BY <2>1, <2>2, <2>3, <2>4, <2>5 DEF Next, Request, Finished
<1> QED
  BY <1>1, <1>2, PTL DEF Spec

-----------------------------------------------------------------------------
(***************************************************************************)
(* The cache.  CompiledOnce and AbsentOnlyAfterOwnReadFailure are not      *)
(* inductive: they rest on the lock of the key, which only one thread can  *)
(* have while the resource has no entry.                                   *)
(***************************************************************************)
CacheInv ==
    /\ \A t \in Threads :
          pc[t] = "compiling" => computing[resource[t]] = {t} /\ modules[resource[t]] = 0
    /\ \A r \in Resources : modules[r] = compiled[r] /\ compiled[r] <= 1
    /\ \A t \in Threads :
          pc[t] = "lookup" /\ modules[resource[t]] = 0 => readFailed[t]
    /\ AbsentOnlyAfterOwnReadFailure

(* CacheInv holds in every behaviour of the loader. *)
THEOREM CacheCorrect == Spec => []CacheInv
<1> USE DEF CacheInv, AbsentOnlyAfterOwnReadFailure
<1>1. Init => CacheInv
  BY DEF Init
<1>2. TypeOK /\ CacheInv /\ [Next]_vars => CacheInv'
  <2> SUFFICES ASSUME TypeOK, CacheInv, [Next]_vars PROVE CacheInv'
    OBVIOUS
  <2> USE DEF TypeOK, Go, End, Unlock, fields, cache, natives
  <2>1. ASSUME NEW t \in Threads, NEW r \in Resources, Begin(t, r) PROVE CacheInv'
    BY <2>1 DEF Begin
  <2>2. ASSUME NEW t \in Threads, Compute(t) PROVE CacheInv'
    <3>1. CASE ComputePresent(t)
      BY <3>1 DEF ComputePresent
    <3>2. CASE ComputeStart(t)
      BY <3>2 DEF ComputeStart
    <3> QED
      BY <2>2, <3>1, <3>2 DEF Compute
  <2>3. ASSUME NEW t \in Threads, Proceed(t) PROVE CacheInv'
    <3>1. CASE ReadFails(t)
      BY <3>1 DEF ReadFails
    <3>2. CASE Compile(t)
      <4> DEFINE r == resource[t]
      <4>1. pc[t] = "compiling" /\ compiled[r] = 0 /\ r \in Resources
        BY <3>2 DEF Compile
      <4>2. \A u \in Threads \ {t} : pc[u] = "compiling" => resource[u] # r
        BY <4>1
      <4>3. modules' = [modules EXCEPT ![r] = 1] /\ compiled' = [compiled EXCEPT ![r] = 1]
        BY <3>2, <4>1 DEF Compile
      <4>4. /\ pc' = [pc EXCEPT ![t] = "lookup"]
            /\ computing' = [computing EXCEPT ![r] = @ \ {t}]
            /\ UNCHANGED <<resource, readFailed, outcome>>
        BY <3>2 DEF Compile
      <4> HIDE DEF r
      <4> QED
        BY <4>1, <4>2, <4>3, <4>4 DEF r
    <3>3. CASE CompileThrows(t)
      BY <3>3 DEF CompileThrows
    <3>4. CASE LookupAbsent(t) \/ LookupPresent(t)
      BY <3>4 DEF LookupAbsent, LookupPresent
    <3>5. CASE NewLinker(t) \/ NewLinkerThrows(t)
      BY <3>5 DEF NewLinker, NewLinkerThrows
    <3>6. CASE Instantiate(t) \/ InstantiateThrows(t)
      BY <3>6 DEF Instantiate, InstantiateThrows
    <3>7. CASE CallReturns(t) \/ CallThrows(t)
      BY <3>7 DEF CallReturns, CallThrows
    <3>8. CASE CloseRunner(t)
      BY <3>8 DEF CloseRunner
    <3> QED
      BY <2>3, <3>1, <3>2, <3>3, <3>4, <3>5, <3>6, <3>7, <3>8 DEF Proceed
  <2>4. ASSUME CloseLoader PROVE CacheInv'
    BY <2>4 DEF CloseLoader
  <2>5. ASSUME UNCHANGED vars PROVE CacheInv'
    BY <2>5 DEF vars
  <2> QED
    BY <2>1, <2>2, <2>3, <2>4, <2>5 DEF Next, Request, Finished
<1> QED
  BY <1>1, <1>2, TypeCorrect, PTL DEF Spec

(* However many requests ask at once, a resource is compiled at most once. *)
THEOREM CompiledOnceCorrect == Spec => []CompiledOnce
<1>1. CacheInv => CompiledOnce
  BY DEF CacheInv, CompiledOnce
<1> QED
  BY <1>1, CacheCorrect, PTL

(* A request goes on without its module only after its own failed read. *)
THEOREM AbsentCorrect == Spec => []AbsentOnlyAfterOwnReadFailure
<1>1. CacheInv => AbsentOnlyAfterOwnReadFailure
  BY DEF CacheInv
<1> QED
  BY <1>1, CacheCorrect, PTL

-----------------------------------------------------------------------------
(***************************************************************************)
(* The linkers.  Beyond LinkersAccountedFor, a linker that waits for its   *)
(* instance has none yet, which the lease needs.                           *)
(***************************************************************************)
LinkerInv ==
    /\ LinkersAccountedFor
    /\ \A t \in Threads :
          pc[t] = "instantiate" => linker[t] # 0 /\ linker[t] \notin instances

(* LinkerInv holds in every behaviour of the loader. *)
THEOREM LinkersCorrect == Spec => []LinkerInv
<1> USE DEF LinkerInv, LinkersAccountedFor, Holding
<1>1. Init => LinkerInv
  BY DEF Init
<1>2. TypeOK /\ LinkerInv /\ [Next]_vars => LinkerInv'
  <2> SUFFICES ASSUME TypeOK, LinkerInv, [Next]_vars PROVE LinkerInv'
    OBVIOUS
  <2> USE DEF TypeOK, Go, End, Unlock, fields, cache, natives
  <2>1. ASSUME NEW t \in Threads, NEW r \in Resources, Begin(t, r) PROVE LinkerInv'
    BY <2>1 DEF Begin
  <2>2. ASSUME NEW t \in Threads, Compute(t) PROVE LinkerInv'
    BY <2>2 DEF Compute, ComputePresent, ComputeStart
  <2>3. ASSUME NEW t \in Threads, Proceed(t) PROVE LinkerInv'
    <3>1. CASE ReadFails(t) \/ Compile(t) \/ CompileThrows(t)
      BY <3>1 DEF ReadFails, Compile, CompileThrows
    <3>2. CASE LookupAbsent(t) \/ LookupPresent(t)
      BY <3>2 DEF LookupAbsent, LookupPresent
    <3>3. CASE NewLinker(t)
      BY <3>3 DEF NewLinker
    <3>4. CASE NewLinkerThrows(t)
      BY <3>4 DEF NewLinkerThrows
    <3>5. CASE Instantiate(t)
      BY <3>5 DEF Instantiate
    <3>6. CASE InstantiateThrows(t)
      BY <3>6 DEF InstantiateThrows
    <3>7. CASE CallReturns(t) \/ CallThrows(t)
      BY <3>7 DEF CallReturns, CallThrows
    <3>8. CASE CloseRunner(t)
      BY <3>8 DEF CloseRunner
    <3> QED
      BY <2>3, <3>1, <3>2, <3>3, <3>4, <3>5, <3>6, <3>7, <3>8 DEF Proceed
  <2>4. ASSUME CloseLoader PROVE LinkerInv'
    BY <2>4 DEF CloseLoader
  <2>5. ASSUME UNCHANGED vars PROVE LinkerInv'
    BY <2>5 DEF vars
  <2> QED
    BY <2>1, <2>2, <2>3, <2>4, <2>5 DEF Next, Request, Finished
<1> QED
  BY <1>1, <1>2, TypeCorrect, PTL DEF Spec

(* Every linker not closed has an owner, or was lost by a runner(..) that   *)
(* threw.                                                                   *)
THEOREM LinkersAccountedForCorrect == Spec => []LinkersAccountedFor
<1>1. LinkerInv => LinkersAccountedFor
  BY DEF LinkerInv
<1> QED
  BY <1>1, LinkersCorrect, PTL

-----------------------------------------------------------------------------
(***************************************************************************)
(* The loader implements the lease.  Entering runner(..) asks, a new       *)
(* instance grants, a null or an exception before that refuses, and        *)
(* close() returns; every other step leaves the lease as it is.            *)
(***************************************************************************)
Phase ==
    [t \in Threads |->
        IF pc[t] = "idle" THEN "idle"
        ELSE IF pc[t] \in {"call", "close"} THEN "holding" ELSE "asking"]
LeaseOf == [t \in Threads |-> IF pc[t] \in {"call", "close"} THEN linker[t] ELSE 0]

(* A step that moves t within one phase is no step of the lease. *)
LEMMA Stutter ==
    ASSUME Phase' = Phase, LeaseOf' = LeaseOf, instances' = instances
    PROVE  UNCHANGED Lease!vars
BY DEF Lease!vars, Phase, LeaseOf

(* A request that ends before it has a runner is refused one. *)
LEMMA Refused ==
    ASSUME NEW t \in Threads, pc \in [Threads -> Place], pc[t] \notin {"idle", "call", "close"},
           pc' = [pc EXCEPT ![t] = "idle"], linker' = linker, instances' = instances
    PROVE  Lease!Refuse(t)
<1>1. Phase[t] = "asking" /\ Phase' = [Phase EXCEPT ![t] = "idle"]
  BY DEF Phase
<1>2. LeaseOf' = LeaseOf
  BY DEF LeaseOf
<1> QED
  BY <1>1, <1>2 DEF Lease!Refuse, Phase, LeaseOf

(* Each step of the loader is a step of the lease or leaves it alone. *)
LEMMA LeaseStep ==
    ASSUME TypeOK, LinkerInv, [Next]_vars
    PROVE  [Lease!Next]_(Lease!vars)
<1> USE DEF TypeOK, Go, End, Unlock, fields, cache, natives
<1>1. ASSUME NEW t \in Threads, NEW r \in Resources, Begin(t, r) PROVE Lease!Ask(t)
  BY <1>1 DEF Begin, Lease!Ask
<1>2. ASSUME NEW t \in Threads, Compute(t) PROVE UNCHANGED Lease!vars
  BY <1>2, Stutter DEF Compute, ComputePresent, ComputeStart, Phase, LeaseOf
<1>3. ASSUME NEW t \in Threads, Proceed(t) PROVE [Lease!Next]_(Lease!vars)
  <2>1. CASE ReadFails(t) \/ Compile(t) \/ LookupPresent(t) \/ NewLinker(t)
    BY <2>1, Stutter DEF ReadFails, Compile, LookupPresent, NewLinker, Phase, LeaseOf
  <2>2. CASE CompileThrows(t) \/ LookupAbsent(t) \/ NewLinkerThrows(t)
    <3>1. /\ pc[t] \notin {"idle", "call", "close"} /\ pc' = [pc EXCEPT ![t] = "idle"]
          /\ linker' = linker /\ instances' = instances
      BY <2>2 DEF CompileThrows, LookupAbsent, NewLinkerThrows
    <3>2. Lease!Refuse(t)
      BY <3>1, Refused
    <3> QED
      BY <3>2 DEF Lease!Next
  <2>3. CASE InstantiateThrows(t)
    <3>1. Lease!Refuse(t)
      BY <2>3 DEF InstantiateThrows, Lease!Refuse
    <3> QED
      BY <3>1 DEF Lease!Next
  <2>4. CASE Instantiate(t)
    <3>1. linker[t] \in Nat \ (instances \cup {0})
      BY <2>4 DEF Instantiate, LinkerInv
    <3>2. Lease!Grant(t)
      BY <2>4, <3>1 DEF Instantiate, Lease!Grant
    <3> QED
      BY <3>2 DEF Lease!Next
  <2>5. CASE CallReturns(t) \/ CallThrows(t)
    BY <2>5, Stutter DEF CallReturns, CallThrows, Phase, LeaseOf
  <2>6. CASE CloseRunner(t)
    <3>1. Lease!Return(t)
      BY <2>6 DEF CloseRunner, Lease!Return
    <3> QED
      BY <3>1 DEF Lease!Next
  <2> QED
    BY <1>3, <2>1, <2>2, <2>3, <2>4, <2>5, <2>6 DEF Proceed
<1>4. ASSUME CloseLoader PROVE UNCHANGED Lease!vars
  BY <1>4, Stutter DEF CloseLoader, Phase, LeaseOf
<1>5. ASSUME UNCHANGED vars PROVE UNCHANGED Lease!vars
  BY <1>5, Stutter DEF vars, Phase, LeaseOf
<1> QED
  BY <1>1, <1>2, <1>3, <1>4, <1>5 DEF Next, Request, Finished, Lease!Next

(* Every runner handed out has a guest instance of its own, used by one     *)
(* request from runner(..) to close().                                      *)
THEOREM LeaseCorrect == Spec => LeaseSpec
<1>1. Init => Lease!Init
  BY DEF Init, Lease!Init
<1>2. TypeOK /\ LinkerInv /\ [Next]_vars => [Lease!Next]_(Lease!vars)
  BY LeaseStep
<1> QED
  BY <1>1, <1>2, TypeCorrect, LinkersCorrect, PTL DEF Spec, LeaseSpec, Lease!Spec
=============================================================================
