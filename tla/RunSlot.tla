------------------------------- MODULE RunSlot ------------------------------
(***************************************************************************)
(* What a runner promises, without fibers, locks or callers.  Every runner *)
(* is one slot.  A run that is accepted becomes a promise, which is served *)
(* by one slot at most, and settled once, only after its slot has been     *)
(* given back: whoever awaits the promise finds the runner free of it.     *)
(***************************************************************************)
EXTENDS Naturals

CONSTANTS Objs, MaxId

VARIABLES
  slot,     \* slot[o]: the tag of runner o
  cur,      \* cur[o]: the promise runner o is serving or will serve, or 0
  promise   \* promise[p]: none, pending, settled or cancelled

vars == <<slot, cur, promise>>

Promises == 1 .. MaxId

Init ==
  /\ slot = [o \in Objs |-> "Idle"]
  /\ cur = [o \in Objs |-> 0]
  /\ promise = [p \in Promises |-> "none"]

(* A run is accepted by an idle runner, or queued behind its shell. *)
Accept(o, p) ==
  /\ slot[o] \in {"Idle", "Shell"}
  /\ promise[p] = "none"
  /\ slot' = [slot EXCEPT ![o] = IF @ = "Idle" THEN "Running" ELSE "ShellThenRun"]
  /\ cur' = [cur EXCEPT ![o] = p]
  /\ promise' = [promise EXCEPT ![p] = "pending"]

StartShell(o) ==
  /\ slot[o] = "Idle"
  /\ slot' = [slot EXCEPT ![o] = "Shell"]
  /\ UNCHANGED <<cur, promise>>

(* The shell ends and the queued run takes its place: same promise. *)
HandOff(o) ==
  /\ slot[o] = "ShellThenRun"
  /\ slot' = [slot EXCEPT ![o] = "Running"]
  /\ UNCHANGED <<cur, promise>>

(* The work ended or was cancelled. *)
Release(o) ==
  /\ slot[o] # "Idle"
  /\ slot' = [slot EXCEPT ![o] = "Idle"]
  /\ cur' = [cur EXCEPT ![o] = 0]
  /\ UNCHANGED promise

Settle(p) ==
  /\ promise[p] = "pending"
  /\ \A o \in Objs : cur[o] # p
  /\ \E v \in {"settled", "cancelled"} : promise' = [promise EXCEPT ![p] = v]
  /\ UNCHANGED <<slot, cur>>

Next ==
  \/ \E o \in Objs : StartShell(o) \/ HandOff(o) \/ Release(o)
  \/ \E o \in Objs, p \in Promises : Accept(o, p)
  \/ \E p \in Promises : Settle(p)

Spec == Init /\ [][Next]_vars
=============================================================================
