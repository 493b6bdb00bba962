------------------------ MODULE EventFunctionProofs -------------------------
(***************************************************************************)
(* A proof about EventFunction, for any events and any number of threads.  *)
(***************************************************************************)
EXTENDS EventFunction, TLAPS

(***************************************************************************)
(* OnlyDecorated is not inductive: between the plugin's answer and the     *)
(* close of the runner, answer must be the one to this very event, and     *)
(* outcome tells whether there is any.                                     *)
(***************************************************************************)
EventInv ==
    \A t \in Threads :
        /\ pc[t] # "idle" => input[t] \in Events /\ output[t] = Nothing
        /\ pc[t] = "close" /\ outcome[t] = "served" => answer[t] = Filter(input[t])
        /\ output[t] # Nothing => input[t] \in Events /\ output[t] = Decorated(Filter(input[t]))

(* The variables the invariant speaks of are functions on the threads. *)
Typed ==
    /\ DOMAIN pc = Threads /\ DOMAIN outcome = Threads
    /\ DOMAIN input = Threads /\ DOMAIN answer = Threads /\ DOMAIN output = Threads

(* A step of a request that gets no answer to its event. *)
Silent(t) ==
    /\ pc[t] # "idle" /\ (\E to : pc' = [pc EXCEPT ![t] = to])
    /\ outcome' = outcome \/ \E how \in {"absent", "threw"} : outcome' = [outcome EXCEPT ![t] = how]
    /\ pc'[t] = "close" => outcome'[t] # "served"
    /\ UNCHANGED <<input, answer, output>>

LEMMA SilentStep ==
    ASSUME Typed, EventInv, NEW t \in Threads, Silent(t)
    PROVE  Typed' /\ EventInv'
<1>1. PICK to : pc' = [pc EXCEPT ![t] = to]
  BY DEF Silent
<1>2. Typed'
  BY <1>1 DEF Typed, Silent
<1>3. ASSUME NEW u \in Threads, u # t PROVE pc'[u] = pc[u] /\ outcome'[u] = outcome[u]
  BY <1>1, <1>3 DEF Typed, Silent
<1> QED
  BY <1>2, <1>3 DEF EventInv, Silent

(* The loader's steps that the function does nothing at. *)
LEMMA LoaderSilent ==
    ASSUME Typed, EventInv, NEW t \in Threads, Waits(t) \/ NoRunner(t) \/ Underway(t)
    PROVE  Silent(t)
<1> USE DEF Loader!Go, Loader!End, Typed, Silent
<1>1. UNCHANGED <<input, answer, output>>
  BY DEF Waits, NoRunner, Underway
<1>2. CASE Loader!Compute(t)
  BY <1>1, <1>2 DEF Loader!Compute, Loader!ComputePresent, Loader!ComputeStart
<1>3. CASE Loader!LookupAbsent(t) \/ Loader!NewLinkerThrows(t)
  BY <1>1, <1>3 DEF Loader!LookupAbsent, Loader!NewLinkerThrows
<1>4. CASE Loader!InstantiateThrows(t) \/ Loader!CompileThrows(t)
  BY <1>1, <1>4 DEF Loader!InstantiateThrows, Loader!CompileThrows
<1>5. CASE Loader!ReadFails(t) \/ Loader!Compile(t) \/ Loader!LookupPresent(t)
  BY <1>1, <1>5 DEF Loader!ReadFails, Loader!Compile, Loader!LookupPresent
<1>6. CASE Loader!NewLinker(t) \/ Loader!Instantiate(t)
  BY <1>1, <1>6 DEF Loader!NewLinker, Loader!Instantiate
<1>7. CASE Loader!CallThrows(t)
  BY <1>1, <1>7 DEF Loader!CallThrows
<1> QED
  BY <1>2, <1>3, <1>4, <1>5, <1>6, <1>7 DEF Waits, NoRunner, Underway

LEMMA EventStep ==
    ASSUME Typed, EventInv, [Next]_vars
    PROVE  Typed' /\ EventInv'
<1> USE DEF Typed, EventInv
<1>1. ASSUME NEW t \in Threads, Receive(t) PROVE Typed' /\ EventInv'
  <2>1. /\ pc' = [pc EXCEPT ![t] = "compute"] /\ outcome' = [outcome EXCEPT ![t] = "none"]
        /\ answer' = [answer EXCEPT ![t] = Nothing] /\ output' = [output EXCEPT ![t] = Nothing]
    BY <1>1 DEF Receive, Loader!Begin, Loader!Go, Loader!End
  <2>2. PICK e \in Events : input' = [input EXCEPT ![t] = e]
    BY <1>1 DEF Receive
  <2> QED
    BY <2>1, <2>2
<1>2. ASSUME NEW t \in Threads, Call(t) PROVE Typed' /\ EventInv'
  <2>1. /\ pc[t] = "call" /\ pc' = [pc EXCEPT ![t] = "close"]
        /\ outcome' = [outcome EXCEPT ![t] = "served"]
        /\ answer' = [answer EXCEPT ![t] = Filter(input[t])] /\ UNCHANGED <<input, output>>
    BY <1>2 DEF Call, Loader!CallReturns, Loader!Go, Loader!End, Promise
  <2> QED
    BY <2>1
<1>3. ASSUME NEW t \in Threads, Close(t) PROVE Typed' /\ EventInv'
  <2>1. /\ pc[t] = "close" /\ pc' = [pc EXCEPT ![t] = "idle"] /\ UNCHANGED outcome
        /\ output' = IF outcome[t] = "served"
                     THEN [output EXCEPT ![t] = Decorated(answer[t])] ELSE output
        /\ UNCHANGED <<input, answer>>
    BY <1>3 DEF Close, Loader!CloseRunner, Loader!Go
  <2>2. outcome[t] = "served" => output'[t] = Decorated(Filter(input[t]))
    BY <2>1
  <2> QED
    BY <2>1, <2>2
<1>4. ASSUME NEW t \in Threads, Waits(t) \/ NoRunner(t) \/ Underway(t) PROVE Typed' /\ EventInv'
  BY <1>4, LoaderSilent, SilentStep
<1>5. ASSUME ContextCloses PROVE Typed' /\ EventInv'
  BY <1>5 DEF ContextCloses, Loader!CloseLoader
<1>6. ASSUME UNCHANGED vars PROVE Typed' /\ EventInv'
  BY <1>6 DEF vars, Loader!vars
<1> QED
  BY <1>1, <1>2, <1>3, <1>4, <1>5, <1>6 DEF Next, Proceed, Finished

LEMMA DecoratedSays ==
    ASSUME NEW e \in Events
    PROVE  /\ Decorated(Filter(e)).id = "1-5150"
           /\ Decorated(Filter(e)).others =
                 [name \in DOMAIN e.others \union {"decoratedby"} |->
                     IF name = "decoratedby" THEN "function" ELSE e.others[name]]
<1>1. e = [id |-> e.id, others |-> e.others]
  BY EventAssumption
<1>2. Filter(e) = [id |-> "1-5150", others |-> e.others]
  BY <1>1 DEF Filter
<1> QED
  BY <1>2 DEF Decorated

(* The function returns the event it was called with, decorated, whatever   *)
(* other threads and the closing context do; or nothing.                    *)
THEOREM OnlyDecoratedCorrect == FairSpec => []OnlyDecorated
<1>1. Init => Typed /\ EventInv
  BY DEF Init, Loader!Init, Nowhere, Typed, EventInv
<1>2. EventInv => OnlyDecorated
  <2> SUFFICES ASSUME EventInv, NEW t \in Threads, output[t] # Nothing
               PROVE  /\ output[t].id = "1-5150"
                      /\ output[t].others["decoratedby"] = "function"
                      /\ \A name \in DOMAIN input[t].others \ {"decoratedby"} :
                            output[t].others[name] = input[t].others[name]
                      /\ DOMAIN output[t].others = DOMAIN input[t].others \union {"decoratedby"}
    BY DEF OnlyDecorated
  <2>1. input[t] \in Events /\ output[t] = Decorated(Filter(input[t]))
    BY DEF EventInv
  <2>2. /\ output[t].id = "1-5150"
        /\ output[t].others =
              [name \in DOMAIN input[t].others \union {"decoratedby"} |->
                  IF name = "decoratedby" THEN "function" ELSE input[t].others[name]]
    BY <2>1, DecoratedSays
  <2> QED
    BY <2>2
<1> QED
  BY <1>1, <1>2, EventStep, PTL DEF FairSpec

(* Each step of the function is a step of the loader, or none of its own. *)
LEMMA LoaderStep ==
    ASSUME [Next]_vars
    PROVE  [Loader!Next]_(Loader!vars)
<1>1. ASSUME NEW t \in Threads, Receive(t) PROVE Loader!Next
  BY <1>1 DEF Receive, Loader!Next, Loader!Request
<1>2. ASSUME NEW t \in Threads, Waits(t) PROVE Loader!Next
  BY <1>2 DEF Waits, Loader!Next, Loader!Request
<1>3. ASSUME NEW t \in Threads, Proceed(t) PROVE Loader!Next
  <2>1. Loader!Proceed(t)
    BY <1>3 DEF Proceed, Call, Close, NoRunner, Underway, Loader!Proceed
  <2> QED
    BY <2>1 DEF Loader!Next, Loader!Request
<1>4. ASSUME ContextCloses \/ Finished PROVE Loader!Next
  BY <1>4 DEF ContextCloses, Finished, Loader!Next
<1>5. ASSUME UNCHANGED vars PROVE UNCHANGED Loader!vars
  BY <1>5 DEF vars
<1> QED
  BY <1>1, <1>2, <1>3, <1>4, <1>5 DEF Next

(* The function uses the loader as a request does: it asks for a runner,    *)
(* calls it and closes it, so the loader's theorems hold of it.             *)
THEOREM LoaderCorrect == FairSpec => LoaderSpec
<1>1. Init => Loader!Init
  BY DEF Init
<1> QED
  BY <1>1, LoaderStep, PTL DEF FairSpec, LoaderSpec, Loader!Spec
=============================================================================
