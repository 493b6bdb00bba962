----------------------------- MODULE RunnerLease -----------------------------
(***************************************************************************)
(* What WasmLoader.runner and WasmRunner.close promise a caller, with the  *)
(* cache, the linker and the native objects left out: a request that asks  *)
(* for a runner is either refused or granted a runner that no other        *)
(* request ever had, and it keeps that runner to itself until it returns   *)
(* it.  A runner is named by the guest instance behind it.                 *)
(***************************************************************************)
EXTENDS Naturals

CONSTANT Threads

VARIABLES phase, lease, issued

vars == <<phase, lease, issued>>

Init ==
    /\ phase = [t \in Threads |-> "idle"]
    /\ lease = [t \in Threads |-> 0]
    /\ issued = {}

Ask(t) ==
    /\ phase[t] = "idle"
    /\ phase' = [phase EXCEPT ![t] = "asking"]
    /\ UNCHANGED <<lease, issued>>

(* The runner granted is any number but 0 that was not issued before. *)
Grant(t) ==
    /\ phase[t] = "asking"
    /\ phase' = [phase EXCEPT ![t] = "holding"]
    /\ lease'[t] \in Nat \ (issued \cup {0})
    /\ lease' = [lease EXCEPT ![t] = lease'[t]]
    /\ issued' = issued \cup {lease'[t]}

(* runner(..) returned null or threw. *)
Refuse(t) ==
    /\ phase[t] = "asking"
    /\ phase' = [phase EXCEPT ![t] = "idle"]
    /\ UNCHANGED <<lease, issued>>

Return(t) ==
    /\ phase[t] = "holding"
    /\ phase' = [phase EXCEPT ![t] = "idle"]
    /\ lease' = [lease EXCEPT ![t] = 0]
    /\ UNCHANGED issued

Next == \E t \in Threads : Ask(t) \/ Grant(t) \/ Refuse(t) \/ Return(t)

Spec == Init /\ [][Next]_vars
=============================================================================
