---------------------------- MODULE ModuleLoader ----------------------------
(***************************************************************************)
(* What a game may expect of the hooked sceKernelLoadModule and            *)
(* sceKernelLoadModuleByID: every call makes the system load exactly the   *)
(* image the call asked for, exactly once, its imports are version-patched *)
(* before the call returns, and the call returns that image's result.      *)
(***************************************************************************)
EXTENDS Integers

CONSTANTS Reqs,     \* the calls a game makes
          Images,   \* what the system's loader can be asked for
          Own,      \* Own[r]: the image that call r asks for
          Nothing   \* the answer of a call that has not returned

VARIABLES todo, loads, patched, reply

vars == <<todo, loads, patched, reply>>

Init ==
    /\ todo = Reqs
    /\ loads = [i \in Images |-> 0]
    /\ patched = {}
    /\ reply = [r \in Reqs |-> Nothing]

Open == {r \in Reqs \ todo : reply[r] = Nothing}

Call(r) ==
    /\ r \in todo
    /\ todo' = todo \ {r}
    /\ UNCHANGED <<loads, patched, reply>>

Load(r) ==
    /\ r \in Open /\ loads[Own[r]] = 0
    /\ loads' = [loads EXCEPT ![Own[r]] = 1]
    /\ UNCHANGED <<todo, patched, reply>>

Patch ==
    /\ patched' = {i \in Images : loads[i] > 0}
    /\ UNCHANGED <<todo, loads, reply>>

Return(r) ==
    /\ r \in Open /\ Own[r] \in patched
    /\ reply' = [reply EXCEPT ![r] = Own[r]]
    /\ UNCHANGED <<todo, loads, patched>>

Serve(r) == Load(r) \/ Return(r)

Next == Patch \/ \E r \in Reqs : Call(r) \/ Serve(r)

Fairness == WF_vars(Patch) /\ \A r \in Reqs : WF_vars(Serve(r))

Spec == Init /\ [][Next]_vars /\ Fairness
=============================================================================
