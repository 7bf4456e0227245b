---------------------------- MODULE RunnerProofs ----------------------------
(***************************************************************************)
(* Proofs about Runner and SessionRunState, for any number of callers,     *)
(* runners and handles: the invariants of a runner and its refinement of   *)
(* RunSlot, then the session that makes runners and the refinement of      *)
(* RunSlot by the session as a whole.                                      *)
(***************************************************************************)
EXTENDS SessionRunState, TLAPS

USE DEF Ids, Ids0

(* The helpers build states, handles and calls of the right type. *)
LEMMA StateTypes ==
  /\ Idle \in States
  /\ \A i, d \in Ids0 : Running(i, d) \in States
  /\ \A i \in Ids : Shell(i) \in States
  /\ \A i \in Ids0, p \in Ids : ShellThenRun(i, p) \in States
  /\ NoHandle \in Handles
  BY RunnerAssumption DEF Idle, Running, Shell, ShellThenRun, States, Tags, NoHandle, Handles

(* The fields of a state of the right type. *)
LEMMA StateFields ==
  ASSUME NEW s \in States
  PROVE  s.tag \in Tags /\ s.shell \in Ids0 /\ s.run \in Ids0 /\ s.done \in Ids0
  BY DEF States

(* The numbers that slots and suspended operations hold are handles. *)
SlotIds(o) ==
  /\ st[o].tag \in Tags
  /\ st[o].tag = "Running" => st[o].run \in 1 .. ids /\ st[o].done \in 1 .. ids
  /\ st[o].tag \in {"Shell", "ShellThenRun"} => st[o].shell \in 1 .. ids
  /\ st[o].tag = "ShellThenRun" => st[o].done \in 1 .. ids
  /\ st[o].tag \in {"Idle", "Shell"} => st[o].done = 0

CallIds(c) ==
  /\ pc[c] = "interrupt" => call[c].st.run \in 1 .. ids /\ call[c].st.done \in 1 .. ids
  /\ pc[c] \in {"latch", "awaitShell"} => call[c].st.shell \in 1 .. ids
  /\ pc[c] = "awaitDone" => call[c].st.done \in 1 .. ids
  /\ pc[c] = "awaitFiber" => Target(call[c].st) \in 1 .. ids
  /\ pc[c] \in Cancelling /\ call[c].st.tag # "Shell" => call[c].st.done \in 1 .. ids

LEMMA HandlesInUse ==
  ASSUME CoreInv
  PROVE  /\ ids \in Ids0 /\ 1 .. ids \subseteq Ids
         /\ \A o \in Objs : SlotIds(o)
         /\ \A c \in Callers : CallIds(c)
<1> USE RunnerAssumption
<1>1. TypeOK /\ FreshInv /\ CallInv
  BY DEF CoreInv
<1>2. ids \in Ids0 /\ 1 .. ids \subseteq Ids
  BY <1>1 DEF TypeOK
<1>3. ASSUME NEW o \in Objs PROVE SlotIds(o)
  <2>1. WellFormed(st[o]) /\ st[o].tag \in Tags
    BY <1>1, StateFields DEF TypeOK, FreshInv
  <2> QED BY <2>1 DEF WellFormed, SlotIds, Idle
<1>4. ASSUME NEW c \in Callers PROVE CallIds(c)
  <2> DEFINE s == call[c].st
  <2>1. WellFormed(s) /\ s.tag \in Tags
    BY <1>1, StateFields DEF TypeOK, FreshInv
  <2>2. /\ s.tag = "Running" => s.run \in 1 .. ids /\ s.done \in 1 .. ids
        /\ s.tag \in {"Shell", "ShellThenRun"} => s.shell \in 1 .. ids
        /\ s.tag = "ShellThenRun" => s.done \in 1 .. ids
        /\ s.tag = "Idle" => s = Idle
    BY <2>1 DEF WellFormed, Idle
  <2>3. /\ pc[c] = "awaitDone" => s.tag \in {"Running", "ShellThenRun"}
        /\ pc[c] = "awaitShell" => s.tag = "Shell"
        /\ pc[c] = "interrupt" => s.tag = "Running"
        /\ pc[c] = "latch" => s.tag \in {"Shell", "ShellThenRun"}
        /\ pc[c] = "awaitFiber" => s # Idle
    BY <1>1 DEF CallInv, CallOK
  <2> HIDE DEF s
  <2>4. /\ pc[c] = "awaitFiber" => Target(s) \in 1 .. ids
        /\ pc[c] \in Cancelling /\ s.tag # "Shell" => s.done \in 1 .. ids
    BY <2>1, <2>2, <2>3 DEF Target, Tags, Cancelling
  <2> QED BY <2>2, <2>3, <2>4 DEF CallIds, s
<1> QED BY <1>2, <1>3, <1>4

(* A Deferred that a cancel is about to fail, or that a run fiber is about   *)
(* to complete, is in no slot.                                               *)
LEMMA SettledOutsideSlots ==
  ASSUME CoreInv, NEW q \in Objs
  PROVE  /\ \A c \in Callers : pc[c] \in Cancelling /\ call[c].st.tag # "Shell"
                                => st[q].done # call[c].st.done
         /\ \A i \in Ids : fiber[i] = "complete" => st[q].done # handle[i].done
<1>1. TypeOK /\ SlotOK(q) /\ DoneInv /\ ExitInv /\ SlotIds(q) /\ 1 .. ids \subseteq Ids
  BY HandlesInUse DEF CoreInv, SlotInv
<1>2. ASSUME NEW c \in Callers, pc[c] \in Cancelling, call[c].st.tag # "Shell"
      PROVE  st[q].done # call[c].st.done
  <2> DEFINE s == call[c].st
  <2>1. CallOK(c) /\ CallIds(c) /\ s.tag \in Tags
    BY HandlesInUse, StateFields DEF CoreInv, CallInv, TypeOK
  <2>2. s.done \in 1 .. ids
    BY <1>2, <2>1 DEF CallIds
  <2>3. CASE s.tag = "Running"
    <3>1. RunHandle(s.run, call[c].obj, s.done) /\ (st[q].tag = "Running" => st[q].run # s.run)
      BY <1>2, <2>1, <2>3 DEF CallOK
    <3>2. s.run \in Ids
      BY <1>1, <1>2, <2>1, <2>3, HandlesInUse DEF CallIds, CallOK, Cancelling, Target
    <3> QED
      BY <1>1, <2>2, <3>1, <3>2 DEF SlotOK, SlotIds, RunHandle, DoneInv, OneFiberPerDone, QueuedHasNoFiber, Tags
  <2>4. CASE s.tag = "ShellThenRun"
    BY <1>2, <2>1, <2>4 DEF CallOK
  <2>5. CASE s.tag = "Idle"
    BY <1>2, <2>1, <2>5, <1>1 DEF CallOK, CallIds, Cancelling, Target, Idle, CoreInv, FreshInv, WellFormed
  <2> QED BY <1>2, <2>1, <2>3, <2>4, <2>5 DEF Tags
<1>3. ASSUME NEW i \in Ids, fiber[i] = "complete" PROVE st[q].done # handle[i].done
  <2>1. handle[i].kind = "run" /\ handle[i].done \in 1 .. ids
    BY <1>1, <1>3 DEF ExitInv
  <2> QED
    BY <1>1, <1>3, <2>1 DEF SlotOK, SlotIds, RunHandle, DoneInv, OneFiberPerDone, QueuedHasNoFiber, Tags, InSlot
<1> QED BY <1>2, <1>3

(* Suspending and returning keep pc and call in their types. *)
LEMMA CaptureTypes ==
  ASSUME TypeOK, NEW c \in Callers, NEW o \in Objs, NEW s \in States, NEW p \in Pcs,
         Capture(c, o, s, p)
  PROVE  /\ pc' \in [Callers -> Pcs]
         /\ call' \in [Callers -> [obj : Objs \cup {NoObj}, st : States]]
  BY DEF TypeOK, Capture

LEMMA ReturnTypes ==
  ASSUME TypeOK, NEW c \in Callers, Return(c)
  PROVE  /\ pc' \in [Callers -> Pcs]
         /\ call' \in [Callers -> [obj : Objs \cup {NoObj}, st : States]]
  BY StateTypes DEF TypeOK, Return, NoCall, Pcs

LEMMA InterruptTypes ==
  ASSUME TypeOK, NEW i \in Ids, InterruptFiber(i)
  PROVE  intr' \subseteq Ids /\ fiber' \in [Ids -> FiberStates]
  BY DEF TypeOK, InterruptFiber, FiberStates

(* Type correctness: every step keeps every variable in its type. *)
LEMMA TypeStep == ASSUME CoreInv, [Next]_vars PROVE TypeOK'
<1> USE RunnerAssumption, StateTypes
<1>0. TypeOK
  BY DEF CoreInv
<1> USE <1>0 DEF TypeOK
<1>1. ASSUME NEW c \in Callers, NEW o \in Objs, EnsureRunning(c, o) PROVE TypeOK'
  <2>1. CASE EnsureJoin(c, o)
    BY <2>1 DEF EnsureJoin, Capture, Pcs
  <2>2. CASE EnsureQueue(c, o)
    <3>1. ids + 1 \in Ids /\ ShellThenRun(st[o].shell, ids + 1) \in States
      BY <2>2, StateFields DEF EnsureQueue
    <3> DEFINE s == ShellThenRun(st[o].shell, ids + 1)
    <3> HIDE DEF s
    <3> QED BY <2>2, <3>1 DEF EnsureQueue, Capture, Pcs, DoneStates, Handles
  <2>3. CASE EnsureStart(c, o)
    BY <2>3 DEF EnsureStart, StartRun, Capture, Pcs, DoneStates, FiberStates, Handles
  <2> QED BY <1>1, <2>1, <2>2, <2>3 DEF EnsureRunning
<1>2. ASSUME NEW c \in Callers, NEW o \in Objs,
             ShellBusy(c, o) \/ ShellOnBusy(c, o) \/ Cancel(c, o)
      PROVE TypeOK'
  <2>1. CASE ShellBusy(c, o) \/ CancelIdle(c, o)
    BY <2>1, ReturnTypes DEF ShellBusy, CancelIdle
  <2>2. CASE ShellOnBusy(c, o)
    BY <2>2 DEF ShellOnBusy, Capture, Pcs
  <2>3. CASE CancelBusy(c, o)
    BY <2>3 DEF CancelBusy, Capture, Pcs
  <2> QED BY <1>2, <2>1, <2>2, <2>3 DEF Cancel
<1>3. ASSUME NEW c \in Callers, CallerStep(c) PROVE TypeOK'
  <2>1. CASE AwaitDone(c) \/ AwaitShell(c) \/ CancelReturn(c)
    BY <2>1, ReturnTypes DEF AwaitDone, AwaitShell, CancelReturn
  <2>2. CASE IdleIfCurrent(c)
    <3>1. CASE Return(c)
      BY <2>2, <3>1, ReturnTypes DEF IdleIfCurrent
    <3>2. CASE pc' = [pc EXCEPT ![c] = "idle"] /\ UNCHANGED call
      BY <2>2, <3>2 DEF IdleIfCurrent, Pcs
    <3> QED BY <2>2, <3>1, <3>2 DEF IdleIfCurrent
  <2>3. ASSUME NEW l \in Latches, ShellFork(c, l) PROVE TypeOK'
    <3> DEFINE n == ids + 1
               o == call[c].obj
    <3>1. o \in Objs /\ n \in Ids /\ Shell(n) \in States
      BY <2>3 DEF CoreInv, LockInv, ShellFork
    <3>2. Capture(c, o, Shell(n), "awaitShell") /\ "awaitShell" \in Pcs
      BY <2>3 DEF ShellFork, Pcs
    <3> HIDE DEF o
    <3>3. pc' \in [Callers -> Pcs] /\ call' \in [Callers -> [obj : Objs \cup {NoObj}, st : States]]
      BY <3>1, <3>2, CaptureTypes
    <3> QED BY <2>3, <3>1, <3>3 DEF ShellFork, FiberStates, Handles, o
  <2>4. CASE CancelInterruptRun(c)
    <3>1. call[c].st.run \in Ids
      BY <2>4, HandlesInUse DEF CancelInterruptRun, CallIds
    <3>2. intr' \subseteq Ids /\ fiber' \in [Ids -> FiberStates]
      BY <2>4, <3>1, InterruptTypes DEF CancelInterruptRun
    <3> QED BY <2>4, <3>2 DEF CancelInterruptRun, Pcs
  <2>5. CASE CancelStopShell(c)
    <3>1. call[c].st.shell \in Ids
      BY <2>5, HandlesInUse DEF CancelStopShell, CallIds
    <3>2. intr' \subseteq Ids /\ fiber' \in [Ids -> FiberStates]
      BY <2>5, <3>1, InterruptTypes DEF CancelStopShell
    <3> QED BY <2>5, <3>1, <3>2 DEF CancelStopShell, Pcs
  <2>6. CASE CancelFailDone(c)
    BY <2>6 DEF CancelFailDone, FailCancelled, Pcs, DoneStates
  <2> QED BY <1>3, <2>1, <2>2, <2>3, <2>4, <2>5, <2>6 DEF CallerStep
<1>4. ASSUME NEW c \in Callers, CallerAbort(c) PROVE TypeOK'
  <2>1. CASE AbortEnsure(c) \/ AbortCanceller(c)
    BY <2>1, ReturnTypes DEF AbortEnsure, AbortCanceller
  <2>2. CASE AbortOnBusy(c)
    BY <2>2 DEF AbortOnBusy, Return, NoCall, Pcs
  <2>3. CASE AbortShell(c)
    <3>1. call[c].st.shell \in Ids
      BY <2>3, HandlesInUse DEF AbortShell, CallIds
    <3>2. intr' \subseteq Ids /\ fiber' \in [Ids -> FiberStates]
      BY <2>3, <3>1, InterruptTypes DEF AbortShell
    <3> QED BY <2>3, <3>2, ReturnTypes DEF AbortShell
  <2> QED BY <1>4, <2>1, <2>2, <2>3 DEF CallerAbort
<1>5. ASSUME NEW i \in Ids, FiberStep(i) PROVE TypeOK'
  <2>1. CASE FiberStart(i) \/ ShellReady(i) \/ OnIdleReturn(i)
    BY <2>1 DEF FiberStart, ShellReady, OnIdleReturn, FiberStates
  <2>2. CASE FinishRunComplete(i)
    BY <2>2 DEF FinishRunComplete, Complete, FiberStates, DoneStates
  <2>3. CASE FinishRunCurrent(i)
    BY <2>3 DEF FinishRunCurrent, FiberStates
  <2>4. CASE FinishShellIdle(i)
    BY <2>4 DEF FinishShellIdle, FiberStates
  <2>5. CASE FinishRunStale(i) \/ FinishShellStale(i)
    BY <2>5 DEF FinishRunStale, FinishShellStale, FiberStates
  <2>6. CASE FinishShellHandOff(i)
    <3> DEFINE n == ids + 1
               o == handle[i].obj
    <3>1. o \in Objs
      BY <2>6 DEF FinishShellHandOff, CoreInv, ExitInv
    <3>2. n \in Ids /\ st[o].done \in Ids0
      BY <2>6, <3>1, StateFields DEF FinishShellHandOff
    <3>3. Running(n, st[o].done) \in States
      BY <3>2
    <3> PICK s \in States : st' = [st EXCEPT ![o] = s]
      BY <2>6, <3>3 DEF FinishShellHandOff
    <3>4. st' \in [Objs -> States] /\ ids' \in Ids0
      BY <2>6, <3>1, <3>2 DEF FinishShellHandOff
    <3>5. fiber' \in [Ids -> FiberStates]
      BY <2>6 DEF FinishShellHandOff, FiberStates
    <3>6. handle' \in [Ids -> Handles]
      BY <2>6, <3>1, <3>2 DEF FinishShellHandOff, Handles
    <3> QED BY <2>6, <3>4, <3>5, <3>6 DEF FinishShellHandOff
  <2> QED BY <1>5, <2>1, <2>2, <2>3, <2>4, <2>5, <2>6 DEF FiberStep, FinishStep
<1>6. ASSUME NEW i \in Ids, FiberExit(i) PROVE TypeOK'
  BY <1>6 DEF FiberExit, WorkExit, FiberStates, Exits
<1>7. CASE UNCHANGED vars
  BY <1>7 DEF vars
<1> QED BY <1>1, <1>2, <1>3, <1>4, <1>5, <1>6, <1>7 DEF Next

(***************************************************************************)
(* Several steps only move a caller: it returns from its operation, or     *)
(* goes on to onIdle.  Only an interrupted canceller does so while it      *)
(* cancels something.                                                      *)
(***************************************************************************)
Leaves(c) ==
  /\ pc[c] # "onBusy"
  /\ pc'[c] \in {"ready", "idle"} /\ call'[c] \in {call[c], NoCall}
  /\ \A k \in Callers \ {c} : pc'[k] = pc[k] /\ call'[k] = call[k]
  /\ UNCHANGED <<st, holder, ids, fiber, handle, intr, exit, done, latch, stopped>>

Quits(c) == pc[c] \notin Cancelling /\ Leaves(c)

LEMMA LeavingSteps ==
  ASSUME TypeOK
  PROVE  /\ \A c \in Callers, o \in Objs : ShellBusy(c, o) \/ CancelIdle(c, o) => Quits(c)
         /\ \A c \in Callers : \/ AwaitDone(c) \/ AwaitShell(c) \/ IdleIfCurrent(c)
                               \/ CancelReturn(c) \/ AbortEnsure(c)
                               => Quits(c)
         /\ \A c \in Callers : AbortCanceller(c) => AbortCancel /\ Leaves(c)
<1>1. ASSUME NEW c \in Callers, NEW o \in Objs, ShellBusy(c, o) \/ CancelIdle(c, o)
      PROVE  Quits(c)
  BY <1>1 DEF ShellBusy, CancelIdle, Return, Quits, Leaves, Cancelling, TypeOK
<1>2. ASSUME NEW c \in Callers, AwaitDone(c) \/ AwaitShell(c) \/ CancelReturn(c) \/ AbortEnsure(c)
      PROVE  Quits(c)
  BY <1>2 DEF AwaitDone, AwaitShell, CancelReturn, AbortEnsure, Return, Quits, Leaves, Cancelling, TypeOK
<1>3. ASSUME NEW c \in Callers, IdleIfCurrent(c)
      PROVE  Quits(c)
  BY <1>3 DEF IdleIfCurrent, Return, Quits, Leaves, Cancelling, TypeOK
<1>4. ASSUME NEW c \in Callers, AbortCanceller(c)
      PROVE  AbortCancel /\ Leaves(c)
  BY <1>4 DEF AbortCanceller, Return, Leaves, TypeOK
<1> QED BY <1>1, <1>2, <1>3, <1>4

(* Numbers not yet returned by next() are unused. *)
LEMMA FreshStep ==
  ASSUME CoreInv, [Next]_vars
  PROVE  FreshInv'
<1> USE RunnerAssumption
<1> DEFINE Quiet ==
       \/ \E i \in Ids : ShellReady(i)
<1>a. TypeOK /\ FreshInv /\ LockInv /\ SlotInv /\ DoneInv /\ CallInv /\ ExitInv
  BY DEF CoreInv
<1>b. /\ ids \in Ids0 /\ 1 .. ids \subseteq Ids
      /\ \A k \in Objs : SlotIds(k)
      /\ \A k \in Callers : CallIds(k)
  BY HandlesInUse
<1>1. ASSUME NEW c \in Callers, NEW o \in Objs, EnsureJoin(c, o)
      PROVE  FreshInv'
  BY <1>1, <1>a, <1>b
  DEF EnsureJoin, Capture, TypeOK, FreshInv, WellFormed, Idle
<1>2. ASSUME NEW c \in Callers, NEW o \in Objs, EnsureQueue(c, o)
      PROVE  FreshInv'
  BY <1>2, <1>a, <1>b
  DEF EnsureQueue, Capture, ShellThenRun, TypeOK, FreshInv, WellFormed, Idle
<1>3. ASSUME NEW c \in Callers, NEW o \in Objs, EnsureStart(c, o)
      PROVE  FreshInv'
  BY <1>3, <1>a, <1>b
  DEF EnsureStart, StartRun, Capture, Running, TypeOK, FreshInv, WellFormed, Idle
<1>4. ASSUME NEW c \in Callers, NEW o \in Objs, ShellOnBusy(c, o)
      PROVE  FreshInv'
  BY <1>4, <1>a, <1>b
  DEF ShellOnBusy, Capture, TypeOK, FreshInv, WellFormed, Idle
<1>5. ASSUME NEW c \in Callers, NEW o \in Objs, CancelBusy(c, o)
      PROVE  FreshInv'
  BY <1>5, <1>a, <1>b
  DEF CancelBusy, Capture, TypeOK, FreshInv, WellFormed, Idle
<1>6. ASSUME NEW c \in Callers, NEW l \in Latches, ShellFork(c, l)
      PROVE  FreshInv'
  BY <1>6, <1>a, <1>b
  DEF ShellFork, Capture, Shell, TypeOK, FreshInv, WellFormed, Idle
<1>7. ASSUME NEW c \in Callers, Leaves(c)
      PROVE  FreshInv'
  <2>1. \A k \in Callers : call'[k].st = call[k].st \/ call'[k].st = Idle
    BY <1>7 DEF Leaves, NoCall
  <2>2. UNCHANGED <<st, ids, fiber, handle, done, exit, intr>>
    BY <1>7 DEF Leaves
  <2> QED BY <1>a, <2>1, <2>2 DEF FreshInv, WellFormed
<1>8. ASSUME NEW c \in Callers, CancelInterruptRun(c)
      PROVE  FreshInv'
  BY <1>8, <1>a, <1>b
  DEF CancelInterruptRun, InterruptFiber, TypeOK, FreshInv, WellFormed, CallIds
<1>9. ASSUME NEW c \in Callers, CancelStopShell(c)
      PROVE  FreshInv'
  BY <1>9, <1>a, <1>b
  DEF CancelStopShell, InterruptFiber, TypeOK, FreshInv, WellFormed, CallIds
<1>10. ASSUME NEW c \in Callers, CancelFailDone(c)
       PROVE  FreshInv'
  BY <1>10, <1>a, <1>b
  DEF CancelFailDone, FailCancelled, TypeOK, FreshInv, WellFormed, CallIds,
      Cancelling
<1>11. ASSUME NEW c \in Callers, AbortOnBusy(c)
       PROVE  FreshInv'
  BY <1>11, <1>a, <1>b
  DEF AbortOnBusy, Return, NoCall, TypeOK, FreshInv, WellFormed, Idle
<1>12. ASSUME NEW c \in Callers, AbortShell(c)
       PROVE  FreshInv'
  BY <1>12, <1>a, <1>b, SMTT(30)
  DEF AbortShell, InterruptFiber, Return, NoCall, TypeOK, FreshInv, WellFormed,
      CallIds, Idle
<1>13. ASSUME NEW i \in Ids, FiberStart(i)
       PROVE  FreshInv'
  BY <1>13, <1>a, <1>b
  DEF FiberStart, TypeOK, FreshInv, WellFormed, Idle
<1>14. ASSUME NEW i \in Ids, FinishRunCurrent(i)
       PROVE  FreshInv'
  BY <1>14, <1>a, <1>b
  DEF FinishRunCurrent, IsCurrentRun, TypeOK, FreshInv, WellFormed, Idle
<1>15. ASSUME NEW i \in Ids, FinishRunStale(i)
       PROVE  FreshInv'
  BY <1>15, <1>a, <1>b
  DEF FinishRunStale, IsCurrentRun, TypeOK, FreshInv, WellFormed, Idle
<1>16. ASSUME NEW i \in Ids, FinishRunComplete(i)
       PROVE  FreshInv'
  BY <1>16, <1>a, <1>b
  DEF FinishRunComplete, Complete, TypeOK, FreshInv, WellFormed, Idle
<1>17. ASSUME NEW i \in Ids, OnIdleReturn(i)
       PROVE  FreshInv'
  BY <1>17, <1>a, <1>b
  DEF OnIdleReturn, TypeOK, FreshInv, WellFormed, Idle
<1>18. ASSUME NEW i \in Ids, FinishShellIdle(i)
       PROVE  FreshInv'
  BY <1>18, <1>a, <1>b
  DEF FinishShellIdle, HoldsShell, TypeOK, FreshInv, WellFormed, Idle
<1>19. ASSUME NEW i \in Ids, FinishShellHandOff(i)
       PROVE  FreshInv'
  <2> DEFINE o == handle[i].obj
  <2>a. fiber[i] = "finish"
    BY <1>19 DEF FinishShellHandOff
  <2>b. i \in 1 .. ids
    BY <1>a, <1>b, <2>a DEF FreshInv
  <2>1. /\ i \in 1 .. ids /\ ids + 1 \in Ids /\ ids' = ids + 1
        /\ st[o].tag = "ShellThenRun"
        /\ UNCHANGED <<done, exit, intr, call>>
    BY <1>19, <1>b, <2>b DEF FinishShellHandOff
  <2>2. \A j \in Ids : j > ids' => fiber'[j] = fiber[j] /\ handle'[j] = handle[j]
    BY <1>19, <1>a, <1>b, <2>1 DEF FinishShellHandOff, TypeOK
  <2>3. \A q \in Objs : st'[q] = IF q = o THEN Running(ids + 1, st[o].done) ELSE st[q]
    BY <1>19, <1>a DEF FinishShellHandOff, TypeOK
  <2> HIDE DEF o
  <2>5. \A q \in Objs : WellFormed(st[q])
    BY <1>a DEF FreshInv
  <2>6. \A q \in Objs : WellFormed(st[q])'
    <3> SUFFICES ASSUME NEW q \in Objs PROVE WellFormed(st[q])'
      OBVIOUS
    <3>1. CASE q = o
      <4>1. st[o].done \in 1 .. ids
        BY <1>b, <2>1, <3>1 DEF SlotIds
      <4> QED BY <1>b, <2>1, <2>3, <3>1, <4>1 DEF WellFormed, Running
    <3>2. CASE q # o
      BY <2>1, <2>3, <2>5, <3>2, <1>b DEF WellFormed
    <3> QED BY <3>1, <3>2
  <2>7. \A k \in Callers : WellFormed(call[k].st)'
    BY <1>a, <1>b, <2>1 DEF FreshInv, WellFormed
  <2> QED
    BY <1>a, <1>b, <2>1, <2>2, <2>6, <2>7 DEF FreshInv
<1>20. ASSUME NEW i \in Ids, FinishShellStale(i)
       PROVE  FreshInv'
  BY <1>20, <1>a, <1>b
  DEF FinishShellStale, HoldsShell, TypeOK, FreshInv, WellFormed, Idle
<1>21. ASSUME NEW i \in Ids, NEW e \in Outcomes, WorkExit(i, e)
       PROVE  FreshInv'
  BY <1>21, <1>a, <1>b
  DEF WorkExit, TypeOK, FreshInv, WellFormed, Idle
<1>22. ASSUME UNCHANGED <<st, ids, fiber, handle, done, exit, intr, call>>
       PROVE  FreshInv'
  BY <1>22, <1>a
  DEF FreshInv, WellFormed
<1>23. ASSUME UNCHANGED vars \/ Quiet
       PROVE  UNCHANGED <<st, ids, fiber, handle, done, exit, intr, call>>
  BY <1>23
  DEF vars, ShellReady
<1> QED
  BY <1>1, <1>2, <1>3, <1>4, <1>5, <1>6, <1>7, <1>8, <1>9, <1>10, <1>11, <1>12,
     <1>13, <1>14, <1>15, <1>16, <1>17, <1>18, <1>19, <1>20, <1>21, <1>22, <1>23,
     <1>a, LeavingSteps
  DEF Quits, Next, EnsureRunning, Cancel, CallerStep, CallerAbort, FiberStep, FinishStep, FiberExit

(* The lock protects the Idle state while onBusy runs. *)
LEMMA LockStep ==
  ASSUME CoreInv, [Next]_vars
  PROVE  LockInv'
<1> USE RunnerAssumption
<1> DEFINE Quiet ==
       \/ \E i \in Ids : FiberStart(i) \/ ShellReady(i) \/ FinishRunStale(i) \/ FinishRunComplete(i) \/ OnIdleReturn(i) \/ FinishShellStale(i)
       \/ \E i \in Ids, e \in Outcomes : WorkExit(i, e)
<1>a. TypeOK /\ FreshInv /\ LockInv /\ SlotInv /\ DoneInv /\ CallInv /\ ExitInv
  BY DEF CoreInv
<1>b. /\ ids \in Ids0 /\ 1 .. ids \subseteq Ids
      /\ \A k \in Objs : SlotIds(k)
      /\ \A k \in Callers : CallIds(k)
  BY HandlesInUse
<1>1. ASSUME NEW c \in Callers, NEW o \in Objs, EnsureJoin(c, o)
      PROVE  LockInv'
  BY <1>1, <1>a, <1>b
  DEF EnsureJoin, Capture, TypeOK, LockInv, Free
<1>2. ASSUME NEW c \in Callers, NEW o \in Objs, EnsureQueue(c, o)
      PROVE  LockInv'
  BY <1>2, <1>a, <1>b
  DEF EnsureQueue, Capture, ShellThenRun, TypeOK, LockInv, Free
<1>3. ASSUME NEW c \in Callers, NEW o \in Objs, EnsureStart(c, o)
      PROVE  LockInv'
  BY <1>3, <1>a, <1>b
  DEF EnsureStart, StartRun, Capture, Running, TypeOK, LockInv, Free
<1>4. ASSUME NEW c \in Callers, NEW o \in Objs, ShellOnBusy(c, o)
      PROVE  LockInv'
  <2>1. st[o] = Idle
    BY <1>4, <1>a DEF ShellOnBusy, FreshInv, WellFormed
  <2>2. /\ holder' = [holder EXCEPT ![o] = c] /\ holder[o] = NoCaller /\ st' = st
        /\ \A k \in Callers : k # c => pc'[k] = pc[k] /\ call'[k] = call[k]
        /\ call'[c].obj = o
    BY <1>4, <1>a DEF ShellOnBusy, Capture, Free, TypeOK
  <2>3. ASSUME NEW k \in Callers, k # c, pc'[k] = "onBusy"
        PROVE  call[k].obj \in Objs /\ call[k].obj # o /\ holder[call[k].obj] = k
               /\ st[call[k].obj] = Idle
    BY <1>a, <2>2, <2>3 DEF LockInv
  <2> QED
    BY <1>a, <2>1, <2>2, <2>3 DEF TypeOK, LockInv
<1>5. ASSUME NEW c \in Callers, NEW o \in Objs, CancelBusy(c, o)
      PROVE  LockInv'
  BY <1>5, <1>a, <1>b
  DEF CancelBusy, Capture, TypeOK, LockInv, Free
<1>6. ASSUME NEW c \in Callers, NEW l \in Latches, ShellFork(c, l)
      PROVE  LockInv'
  BY <1>6, <1>a, <1>b
  DEF ShellFork, Capture, Shell, TypeOK, LockInv, Free
<1>7. ASSUME NEW c \in Callers, Leaves(c)
      PROVE  LockInv'
  BY <1>7, <1>a, <1>b
  DEF Leaves, NoCall, TypeOK, LockInv, Free
<1>8. ASSUME NEW c \in Callers, CancelInterruptRun(c)
      PROVE  LockInv'
  BY <1>8, <1>a, <1>b
  DEF CancelInterruptRun, InterruptFiber, TypeOK, LockInv, Free
<1>9. ASSUME NEW c \in Callers, CancelStopShell(c)
      PROVE  LockInv'
  BY <1>9, <1>a, <1>b
  DEF CancelStopShell, InterruptFiber, TypeOK, LockInv, Free
<1>10. ASSUME NEW c \in Callers, CancelFailDone(c)
       PROVE  LockInv'
  BY <1>10, <1>a, <1>b
  DEF CancelFailDone, FailCancelled, TypeOK, LockInv, Free
<1>11. ASSUME NEW c \in Callers, AbortOnBusy(c)
       PROVE  LockInv'
  BY <1>11, <1>a, <1>b
  DEF AbortOnBusy, Return, NoCall, TypeOK, LockInv, Free
<1>12. ASSUME NEW c \in Callers, AbortShell(c)
       PROVE  LockInv'
  BY <1>12, <1>a, <1>b
  DEF AbortShell, InterruptFiber, Return, NoCall, TypeOK, LockInv, Free
<1>13. ASSUME NEW i \in Ids, FinishRunCurrent(i)
       PROVE  LockInv'
  BY <1>13, <1>a, <1>b
  DEF FinishRunCurrent, IsCurrentRun, TypeOK, LockInv, Free
<1>14. ASSUME NEW i \in Ids, FinishShellIdle(i)
       PROVE  LockInv'
  BY <1>14, <1>a, <1>b
  DEF FinishShellIdle, HoldsShell, TypeOK, LockInv, Free
<1>15. ASSUME NEW i \in Ids, FinishShellHandOff(i)
       PROVE  LockInv'
  BY <1>15, <1>a, <1>b
  DEF FinishShellHandOff, HoldsShell, Running, TypeOK, LockInv, Free
<1>16. ASSUME UNCHANGED <<pc, call, holder, st>>
       PROVE  LockInv'
  BY <1>16, <1>a
  DEF LockInv
<1>17. ASSUME UNCHANGED vars \/ Quiet
       PROVE  UNCHANGED <<pc, call, holder, st>>
  BY <1>17
  DEF vars, FiberStart, ShellReady, FinishRunStale, FinishRunComplete, OnIdleReturn,
      FinishShellStale, WorkExit
<1> QED
  BY <1>1, <1>2, <1>3, <1>4, <1>5, <1>6, <1>7, <1>8, <1>9, <1>10, <1>11, <1>12,
     <1>13, <1>14, <1>15, <1>16, <1>17, <1>a, LeavingSteps
  DEF Quits, Next, EnsureRunning, Cancel, CallerStep, CallerAbort, FiberStep, FinishStep, FiberExit

(* Slots hold fibers whose exit handler is still to come. *)
LEMMA SlotStep ==
  ASSUME CoreInv, [Next]_vars
  PROVE  SlotInv'
<1> USE RunnerAssumption
<1> DEFINE Quiet ==
       \/ \E c \in Callers, o \in Objs : EnsureJoin(c, o) \/ ShellOnBusy(c, o)
       \/ \E c \in Callers : Leaves(c) \/ AbortOnBusy(c)
       \/ \E i \in Ids : ShellReady(i)
<1>a. TypeOK /\ FreshInv /\ LockInv /\ SlotInv /\ DoneInv /\ CallInv /\ ExitInv
  BY DEF CoreInv
<1>b. /\ ids \in Ids0 /\ 1 .. ids \subseteq Ids
      /\ \A k \in Objs : SlotIds(k)
      /\ \A k \in Callers : CallIds(k)
  BY HandlesInUse
<1> SUFFICES ASSUME NEW q \in Objs PROVE SlotOK(q)'
  BY DEF SlotInv
<1>1. ASSUME NEW c \in Callers, NEW o \in Objs, EnsureQueue(c, o)
      PROVE  SlotOK(q)'
  BY <1>1, <1>a, <1>b
  DEF EnsureQueue, Capture, ShellThenRun, TypeOK, SlotInv, SlotOK, RunHandle,
      ShellHandle, InSlot, SlotIds, FreshInv
<1>2. ASSUME NEW c \in Callers, NEW o \in Objs, EnsureStart(c, o)
      PROVE  SlotOK(q)'
  BY <1>2, <1>a, <1>b
  DEF EnsureStart, StartRun, Capture, Running, TypeOK, SlotInv, SlotOK, RunHandle,
      ShellHandle, InSlot, SlotIds, FreshInv
<1>3. ASSUME NEW c \in Callers, NEW o \in Objs, CancelBusy(c, o)
      PROVE  SlotOK(q)'
  BY <1>3, <1>a, <1>b
  DEF CancelBusy, Capture, TypeOK, SlotInv, SlotOK, RunHandle, ShellHandle, InSlot,
      SlotIds, Idle
<1>4. ASSUME NEW c \in Callers, NEW l \in Latches, ShellFork(c, l)
      PROVE  SlotOK(q)'
  BY <1>4, <1>a, <1>b
  DEF ShellFork, Capture, Shell, TypeOK, SlotInv, SlotOK, RunHandle, ShellHandle,
      InSlot, SlotIds, FreshInv, LockInv
<1>5. ASSUME NEW c \in Callers, CancelInterruptRun(c)
      PROVE  SlotOK(q)'
  BY <1>5, <1>a, <1>b, SMTT(30)
  DEF CancelInterruptRun, InterruptFiber, TypeOK, SlotInv, SlotOK, RunHandle,
      ShellHandle, InSlot, SlotIds, CallInv, CallOK, Cancelling, CallIds
<1>6. ASSUME NEW c \in Callers, CancelStopShell(c)
      PROVE  SlotOK(q)'
  <2>1. call[c].st.shell \in Ids /\ handle[call[c].st.shell].kind = "shell"
    BY <1>6, <1>a, <1>b DEF CancelStopShell, CallInv, CallOK, CallIds, Cancelling
  <2>2. SlotOK(q) /\ SlotIds(q)
    BY <1>a, <1>b DEF SlotInv
  <2>3. st[q].tag = "Running" => fiber'[st[q].run] = fiber[st[q].run]
    BY <1>6, <1>a, <1>b, <2>1, <2>2
    DEF CancelStopShell, InterruptFiber, TypeOK, SlotOK, RunHandle, SlotIds
  <2> QED
    BY <1>6, <2>2, <2>3 DEF CancelStopShell, SlotOK, RunHandle, ShellHandle
<1>7. ASSUME NEW c \in Callers, CancelFailDone(c)
      PROVE  SlotOK(q)'
  <2>1. call[c].st.tag # "Shell" => st[q].done # call[c].st.done
    BY <1>7, SettledOutsideSlots DEF CancelFailDone, Cancelling
  <2>2. SlotOK(q) /\ SlotIds(q)
    BY <1>a, <1>b DEF SlotInv
  <2>3. st[q].tag \in {"Running", "ShellThenRun"} => done'[st[q].done] = done[st[q].done]
    BY <1>7, <1>a, <1>b, <2>1, <2>2 DEF CancelFailDone, FailCancelled, TypeOK, SlotIds
  <2> QED
    BY <1>7, <2>2, <2>3 DEF CancelFailDone, SlotOK, RunHandle, ShellHandle
<1>8. ASSUME NEW c \in Callers, AbortShell(c)
      PROVE  SlotOK(q)'
  <2>1. handle[call[c].st.shell].kind = "shell"
    BY <1>8, <1>a DEF AbortShell, CallInv, CallOK
  <2>2. SlotOK(q) /\ SlotIds(q)
    BY <1>a, <1>b DEF SlotInv
  <2>3. st[q].tag = "Running" => fiber'[st[q].run] = fiber[st[q].run]
    BY <1>8, <1>a, <1>b, <2>1, <2>2
    DEF AbortShell, InterruptFiber, TypeOK, SlotOK, RunHandle, SlotIds
  <2> QED
    BY <1>8, <2>2, <2>3 DEF AbortShell, SlotOK, RunHandle, ShellHandle
<1>9. ASSUME NEW i \in Ids, FiberStart(i)
      PROVE  SlotOK(q)'
  BY <1>9, <1>a, <1>b
  DEF FiberStart, TypeOK, SlotInv, SlotOK, RunHandle, ShellHandle, InSlot, SlotIds
<1>10. ASSUME NEW i \in Ids, FinishRunCurrent(i)
       PROVE  SlotOK(q)'
  BY <1>10, <1>a, <1>b
  DEF FinishRunCurrent, IsCurrentRun, TypeOK, SlotInv, SlotOK, RunHandle,
      ShellHandle, InSlot, SlotIds, Idle, ExitInv
<1>11. ASSUME NEW i \in Ids, FinishRunStale(i)
       PROVE  SlotOK(q)'
  BY <1>11, <1>a, <1>b
  DEF FinishRunStale, IsCurrentRun, TypeOK, SlotInv, SlotOK, RunHandle, ShellHandle,
      InSlot, SlotIds
<1>12. ASSUME NEW i \in Ids, FinishRunComplete(i)
       PROVE  SlotOK(q)'
  <2>1. st[q].done # handle[i].done
    BY <1>12, SettledOutsideSlots DEF FinishRunComplete
  <2>2. SlotOK(q) /\ SlotIds(q)
    BY <1>a, <1>b DEF SlotInv
  <2>3. st[q].tag \in {"Running", "ShellThenRun"} => done'[st[q].done] = done[st[q].done]
    BY <1>12, <1>a, <1>b, <2>1, <2>2 DEF FinishRunComplete, Complete, TypeOK, SlotIds
  <2> QED
    BY <1>12, <1>a, <1>b, <2>2, <2>3
    DEF FinishRunComplete, SlotOK, SlotIds, RunHandle, ShellHandle, InSlot, TypeOK
<1>13. ASSUME NEW i \in Ids, OnIdleReturn(i)
       PROVE  SlotOK(q)'
  BY <1>13, <1>a, <1>b
  DEF OnIdleReturn, TypeOK, SlotInv, SlotOK, RunHandle, ShellHandle, InSlot, SlotIds
<1>14. ASSUME NEW i \in Ids, FinishShellIdle(i)
       PROVE  SlotOK(q)'
  BY <1>14, <1>a, <1>b
  DEF FinishShellIdle, HoldsShell, TypeOK, SlotInv, SlotOK, RunHandle, ShellHandle,
      InSlot, SlotIds, Idle, ExitInv
<1>15. ASSUME NEW i \in Ids, FinishShellHandOff(i)
       PROVE  SlotOK(q)'
  <2> DEFINE n == ids + 1
             o == handle[i].obj
  <2>1. o \in Objs /\ n \in Ids /\ i <= ids /\ st[o].tag = "ShellThenRun" /\ st[o].shell = i
    BY <1>15, <1>a, <1>b DEF FinishShellHandOff, HoldsShell, ExitInv, FreshInv, TypeOK
  <2>2. SlotOK(o) /\ SlotOK(q) /\ SlotIds(q)
    BY <1>a, <1>b, <2>1, SMTT(30) DEF SlotInv
  <2>3. CASE q = o
    <3>1. /\ st'[q] = Running(n, st[o].done) /\ fiber'[n] = "forked" /\ done' = done
          /\ handle'[n].kind = "run" /\ handle'[n].obj = o /\ handle'[n].done = st[o].done
      BY <1>15, <1>a, <2>1, <2>3 DEF FinishShellHandOff, StartRun, TypeOK
    <3> HIDE DEF n, o
    <3> QED BY <2>1, <2>2, <2>3, <3>1 DEF SlotOK, RunHandle, Running, InSlot
  <2>4. CASE q # o
    <3>1. st'[q] = st[q] /\ done' = done
      BY <1>15, <1>a, <2>1, <2>4 DEF FinishShellHandOff, TypeOK
    <3>2. \A k \in 1 .. ids : handle'[k] = handle[k] /\ (k # i => fiber'[k] = fiber[k])
      BY <1>15, <1>a, <1>b, <2>1 DEF FinishShellHandOff, TypeOK
    <3>3. /\ st[q].tag = "Running" => st[q].run # i
          /\ st[q].tag \in {"Shell", "ShellThenRun"} => st[q].shell # i
      BY <1>15, <2>2, <2>4 DEF FinishShellHandOff, SlotOK, RunHandle, ShellHandle
    <3> QED
      BY <2>2, <3>1, <3>2, <3>3 DEF SlotOK, SlotIds, RunHandle, ShellHandle
  <2> QED BY <2>3, <2>4
<1>16. ASSUME NEW i \in Ids, FinishShellStale(i)
       PROVE  SlotOK(q)'
  BY <1>16, <1>a, <1>b
  DEF FinishShellStale, HoldsShell, TypeOK, SlotInv, SlotOK, RunHandle, ShellHandle,
      InSlot, SlotIds
<1>17. ASSUME NEW i \in Ids, NEW e \in Outcomes, WorkExit(i, e)
       PROVE  SlotOK(q)'
  BY <1>17, <1>a, <1>b
  DEF WorkExit, TypeOK, SlotInv, SlotOK, RunHandle, ShellHandle, InSlot, SlotIds
<1>18. ASSUME UNCHANGED <<st, fiber, handle, done>>
       PROVE  SlotOK(q)'
  BY <1>18, <1>a
  DEF SlotInv, SlotOK, RunHandle, ShellHandle
<1>19. ASSUME UNCHANGED vars \/ Quiet
       PROVE  UNCHANGED <<st, fiber, handle, done>>
  BY <1>19
  DEF vars, EnsureJoin, ShellOnBusy, Leaves, AbortOnBusy, ShellReady, Capture,
      NoCall, Return
<1> QED
  BY <1>1, <1>2, <1>3, <1>4, <1>5, <1>6, <1>7, <1>8, <1>9, <1>10, <1>11, <1>12,
     <1>13, <1>14, <1>15, <1>16, <1>17, <1>18, <1>19, <1>a, LeavingSteps
  DEF Quits, Next, EnsureRunning, Cancel, CallerStep, CallerAbort, FiberStep, FinishStep, FiberExit

(* A shell in a slot stays before its exit handler. *)
LEMMA ShellStep ==
  ASSUME CoreInv, ShellInv, ~InterruptBeforeStart, [Next]_vars
  PROVE  ShellInv'
<1> USE RunnerAssumption
<1> DEFINE Quiet ==
       \/ \E c \in Callers, o \in Objs : EnsureJoin(c, o) \/ ShellOnBusy(c, o)
       \/ \E c \in Callers : Leaves(c) \/ AbortOnBusy(c) \/ CancelFailDone(c)
       \/ \E i \in Ids : ShellReady(i)
<1>a. TypeOK /\ FreshInv /\ LockInv /\ SlotInv /\ CallInv /\ ExitInv
  BY DEF CoreInv
<1>b. /\ ids \in Ids0 /\ 1 .. ids \subseteq Ids
      /\ \A k \in Callers : CallIds(k)
  BY HandlesInUse
<1> SUFFICES ASSUME NEW q \in Objs PROVE ShellOK(q)'
  BY DEF ShellInv
<1>c. SlotOK(q) /\ ShellOK(q) /\ SlotIds(q)
  BY <1>a, HandlesInUse DEF SlotInv, ShellInv
<1>d. ASSUME st'[q] = st[q],
             st[q].tag \in {"Shell", "ShellThenRun"} =>
               fiber'[st[q].shell] = fiber[st[q].shell] \/ fiber'[st[q].shell] \in InSlot
      PROVE  ShellOK(q)'
  BY <1>c, <1>d DEF ShellOK
<1>1. ASSUME NEW c \in Callers, NEW o \in Objs, EnsureQueue(c, o)
      PROVE  ShellOK(q)'
  BY <1>1, <1>a, <1>c DEF EnsureQueue, ShellThenRun, TypeOK, ShellOK
<1>2. ASSUME NEW c \in Callers, NEW o \in Objs, EnsureStart(c, o)
      PROVE  ShellOK(q)'
  BY <1>2, <1>a, <1>c DEF EnsureStart, StartRun, Running, TypeOK, ShellOK, SlotIds, InSlot
<1>3. ASSUME NEW c \in Callers, NEW o \in Objs, CancelBusy(c, o)
      PROVE  ShellOK(q)'
  BY <1>3, <1>a, <1>c DEF CancelBusy, TypeOK, ShellOK, Idle
<1>4. ASSUME NEW c \in Callers, NEW l \in Latches, ShellFork(c, l)
      PROVE  ShellOK(q)'
  BY <1>4, <1>a, <1>b, <1>c DEF ShellFork, Shell, TypeOK, ShellOK, SlotIds, InSlot
<1>5. ASSUME NEW c \in Callers, CancelInterruptRun(c) \/ CancelStopShell(c) \/ AbortShell(c)
      PROVE  ShellOK(q)'
  <2>1. st' = st
    BY <1>5 DEF CancelInterruptRun, CancelStopShell, AbortShell
  <2>2. SUFFICES ASSUME st[q].tag \in {"Shell", "ShellThenRun"}
                 PROVE  fiber'[st[q].shell] = fiber[st[q].shell]
    BY <1>d, <2>1
  <2>3. handle[st[q].shell].kind = "shell" /\ st[q].shell \in Ids
    BY <1>b, <1>c, <2>2 DEF SlotOK, ShellHandle, SlotIds
  <2>4. CASE CancelInterruptRun(c)
    <3>1. handle[call[c].st.run].kind = "run"
      BY <1>a, <2>4 DEF CancelInterruptRun, CallInv, CallOK, Cancelling, RunHandle
    <3> QED BY <1>a, <2>3, <2>4, <3>1 DEF CancelInterruptRun, InterruptFiber, TypeOK
  <2>5. CASE CancelStopShell(c)
    <3>1. st[q].shell # call[c].st.shell
      BY <1>a, <2>2, <2>5 DEF CancelStopShell, CallInv, CallOK, Cancelling
    <3> QED BY <1>a, <2>3, <2>5, <3>1 DEF CancelStopShell, InterruptFiber, TypeOK
  <2>6. CASE AbortShell(c)
    BY <1>a, <2>3, <2>6 DEF AbortShell, InterruptFiber, TypeOK
  <2> QED BY <1>5, <2>4, <2>5, <2>6
<1>6. ASSUME NEW i \in Ids, FiberStart(i)
      PROVE  ShellOK(q)'
  BY <1>6, <1>a, <1>c DEF FiberStart, TypeOK, ShellOK, SlotIds, InSlot
<1>7. ASSUME NEW i \in Ids, FinishRunCurrent(i) \/ FinishShellIdle(i)
      PROVE  ShellOK(q)'
  <2>1. handle[i].obj \in Objs
    BY <1>7, <1>a DEF ExitInv, FinishRunCurrent, FinishShellIdle
  <2>2. st' = [st EXCEPT ![handle[i].obj] = Idle] /\ fiber' = [fiber EXCEPT ![i] = "idle"]
    BY <1>7 DEF FinishRunCurrent, FinishShellIdle
  <2>3. CASE q = handle[i].obj
    BY <1>a, <2>1, <2>2, <2>3 DEF TypeOK, ShellOK, Idle
  <2>4. CASE q # handle[i].obj
    <3>1. st'[q] = st[q]
      BY <1>a, <2>1, <2>2, <2>4 DEF TypeOK
    <3>2. st[q].tag \in {"Shell", "ShellThenRun"} => st[q].shell # i /\ st[q].shell \in Ids
      BY <1>b, <1>c, <2>4 DEF SlotOK, ShellHandle, SlotIds
    <3> QED BY <1>a, <1>d, <2>2, <3>1, <3>2 DEF TypeOK
  <2> QED BY <2>3, <2>4
<1>8. ASSUME NEW i \in Ids, FinishRunStale(i) \/ FinishRunComplete(i) \/ FinishShellStale(i)
      PROVE  ShellOK(q)'
  <2>1. st' = st /\ \A k \in Ids : k # i => fiber'[k] = fiber[k]
    BY <1>8, <1>a DEF FinishRunStale, FinishRunComplete, FinishShellStale, TypeOK
  <2>2. SUFFICES ASSUME st[q].tag \in {"Shell", "ShellThenRun"} PROVE st[q].shell # i
    BY <1>b, <1>c, <1>d, <2>1 DEF SlotIds
  <2>3. ShellHandle(st[q].shell, q) /\ fiber[st[q].shell] \in InSlot
    BY <1>c, <2>2 DEF SlotOK, ShellOK
  <2> QED BY <1>8, <2>2, <2>3
          DEF FinishRunStale, FinishRunComplete, FinishShellStale, HoldsShell, ShellHandle, InSlot
<1>9. ASSUME NEW i \in Ids, OnIdleReturn(i)
      PROVE  ShellOK(q)'
  BY <1>9, <1>a, <1>c DEF OnIdleReturn, TypeOK, ShellOK, SlotIds, InSlot
<1>10. ASSUME NEW i \in Ids, FinishShellHandOff(i)
       PROVE  ShellOK(q)'
  <2> DEFINE n == ids + 1
             o == handle[i].obj
  <2>1. o \in Objs /\ n \in Ids
    BY <1>10, <1>a, <1>b DEF FinishShellHandOff, ExitInv, TypeOK
  <2>2. /\ st' = [st EXCEPT ![o] = Running(n, st[o].done)]
        /\ \A k \in Ids : k # i /\ k # n => fiber'[k] = fiber[k]
    BY <1>10, <1>a DEF FinishShellHandOff, TypeOK
  <2>3. CASE q = o
    BY <1>a, <2>1, <2>2, <2>3 DEF TypeOK, ShellOK, Running
  <2>4. CASE q # o
    <3>1. st'[q] = st[q]
      BY <1>a, <2>1, <2>2, <2>4 DEF TypeOK
    <3>2. st[q].tag \in {"Shell", "ShellThenRun"} =>
            st[q].shell # i /\ st[q].shell # n /\ st[q].shell \in Ids
      BY <1>b, <1>c, <2>4 DEF SlotOK, ShellHandle, SlotIds
    <3> QED BY <1>d, <2>2, <3>1, <3>2
  <2> QED BY <2>3, <2>4
<1>11. ASSUME NEW i \in Ids, NEW e \in Outcomes, WorkExit(i, e)
       PROVE  ShellOK(q)'
  BY <1>11, <1>a, <1>c DEF WorkExit, TypeOK, ShellOK, SlotIds, InSlot
<1>12. ASSUME UNCHANGED vars \/ Quiet
       PROVE  UNCHANGED <<st, fiber>>
  BY <1>12 DEF vars, EnsureJoin, ShellOnBusy, Leaves, AbortOnBusy, CancelFailDone, ShellReady
<1>13. ASSUME UNCHANGED <<st, fiber>>
       PROVE  ShellOK(q)'
  BY <1>13, <1>d
<1> QED
  BY <1>1, <1>2, <1>3, <1>4, <1>5, <1>6, <1>7, <1>8, <1>9, <1>10, <1>11, <1>12, <1>13,
     <1>a, LeavingSteps
  DEF Quits, Next, EnsureRunning, Cancel, CallerStep, CallerAbort, FiberStep, FinishStep, FiberExit

(* A Deferred belongs to one run. *)
LEMMA DoneStep ==
  ASSUME CoreInv, [Next]_vars
  PROVE  DoneInv'
<1> USE RunnerAssumption
<1> DEFINE Quiet ==
       \/ \E c \in Callers, o \in Objs : EnsureJoin(c, o) \/ ShellOnBusy(c, o)
       \/ \E c \in Callers : Leaves(c) \/ CancelInterruptRun(c) \/ CancelStopShell(c) \/ CancelFailDone(c) \/ AbortOnBusy(c) \/ AbortShell(c)
       \/ \E i \in Ids : FiberStart(i) \/ ShellReady(i) \/ FinishRunStale(i) \/ FinishRunComplete(i) \/ OnIdleReturn(i) \/ FinishShellStale(i)
       \/ \E i \in Ids, e \in Outcomes : WorkExit(i, e)
<1>a. TypeOK /\ FreshInv /\ LockInv /\ SlotInv /\ DoneInv /\ CallInv /\ ExitInv
  BY DEF CoreInv
<1>b. /\ ids \in Ids0 /\ 1 .. ids \subseteq Ids
      /\ \A k \in Objs : SlotIds(k)
      /\ \A k \in Callers : CallIds(k)
  BY HandlesInUse
<1>1. ASSUME NEW c \in Callers, NEW o \in Objs, EnsureQueue(c, o)
      PROVE  DoneInv'
  <2>1. OneFiberPerDone'
    BY <1>1, <1>a, <1>b
    DEF EnsureQueue, ShellThenRun, TypeOK, DoneInv, OneFiberPerDone, ExitInv, FreshInv,
        NoHandle
  <2>2. QueuedHasNoFiber'
    BY <1>1, <1>a, <1>b
    DEF EnsureQueue, ShellThenRun, TypeOK, DoneInv, QueuedHasNoFiber, SlotIds, ExitInv,
        FreshInv, NoHandle
  <2>3. \A q \in Objs : st[q].done <= ids
    BY <1>b DEF SlotIds, Tags
  <2>4. /\ st'[o].done = ids + 1
        /\ \A q \in Objs : q # o => st'[q].done = st[q].done
    BY <1>1, <1>a DEF EnsureQueue, ShellThenRun, TypeOK
  <2>5. OneSlotPerDone'
    BY <1>a, <1>b, <2>3, <2>4 DEF DoneInv, OneSlotPerDone
  <2> QED BY <2>1, <2>2, <2>5 DEF DoneInv
<1>2. ASSUME NEW c \in Callers, NEW o \in Objs, EnsureStart(c, o)
      PROVE  DoneInv'
  <2>1. OneFiberPerDone'
    BY <1>2, <1>a, <1>b
    DEF EnsureStart, StartRun, Running, TypeOK, DoneInv, OneFiberPerDone, ExitInv,
        FreshInv, NoHandle
  <2>2. QueuedHasNoFiber'
    BY <1>2, <1>a, <1>b
    DEF EnsureStart, StartRun, Running, TypeOK, DoneInv, QueuedHasNoFiber, SlotIds,
        ExitInv, FreshInv, NoHandle
  <2>3. \A q \in Objs : st[q].done <= ids
    BY <1>b DEF SlotIds, Tags
  <2>4. /\ st'[o].done = ids + 1
        /\ \A q \in Objs : q # o => st'[q].done = st[q].done
    BY <1>2, <1>a DEF EnsureStart, StartRun, Running, TypeOK
  <2>5. OneSlotPerDone'
    BY <1>a, <1>b, <2>3, <2>4 DEF DoneInv, OneSlotPerDone
  <2> QED BY <2>1, <2>2, <2>5 DEF DoneInv
<1>3. ASSUME NEW c \in Callers, NEW o \in Objs, CancelBusy(c, o)
      PROVE  DoneInv'
  BY <1>3, <1>a, <1>b
  DEF CancelBusy, Capture, TypeOK, Idle, DoneInv, OneFiberPerDone, OneSlotPerDone,
      QueuedHasNoFiber
<1>4. ASSUME NEW c \in Callers, NEW l \in Latches, ShellFork(c, l)
      PROVE  DoneInv'
  BY <1>4, <1>a, <1>b
  DEF ShellFork, Capture, Shell, TypeOK, SlotIds, ExitInv, FreshInv, NoHandle,
      DoneInv, OneFiberPerDone, OneSlotPerDone, QueuedHasNoFiber
<1>5. ASSUME NEW i \in Ids, FinishRunCurrent(i)
      PROVE  DoneInv'
  BY <1>5, <1>a, <1>b
  DEF FinishRunCurrent, IsCurrentRun, TypeOK, Idle, DoneInv, OneFiberPerDone,
      OneSlotPerDone, QueuedHasNoFiber
<1>6. ASSUME NEW i \in Ids, FinishShellIdle(i)
      PROVE  DoneInv'
  BY <1>6, <1>a, <1>b
  DEF FinishShellIdle, HoldsShell, TypeOK, Idle, DoneInv, OneFiberPerDone,
      OneSlotPerDone, QueuedHasNoFiber
<1>7. ASSUME NEW i \in Ids, FinishShellHandOff(i)
      PROVE  DoneInv'
  BY <1>7, <1>a, <1>b
  DEF FinishShellHandOff, HoldsShell, Running, TypeOK, SlotIds, ExitInv, FreshInv,
      NoHandle, DoneInv, OneFiberPerDone, OneSlotPerDone, QueuedHasNoFiber
<1>8. ASSUME UNCHANGED <<st, handle>>
      PROVE  DoneInv'
  BY <1>8, <1>a
  DEF DoneInv, OneFiberPerDone, OneSlotPerDone, QueuedHasNoFiber
<1>9. ASSUME UNCHANGED vars \/ Quiet
      PROVE  UNCHANGED <<st, handle>>
  BY <1>9
  DEF vars, EnsureJoin, ShellOnBusy, Leaves, CancelInterruptRun, CancelStopShell,
      CancelFailDone, AbortOnBusy, AbortShell, FiberStart, ShellReady,
      FinishRunStale, FinishRunComplete, OnIdleReturn, FinishShellStale, WorkExit,
      Capture, NoCall, Return
<1> QED
  BY <1>1, <1>2, <1>3, <1>4, <1>5, <1>6, <1>7, <1>8, <1>9, <1>a, LeavingSteps
  DEF Quits, Next, EnsureRunning, Cancel, CallerStep, CallerAbort, FiberStep, FinishStep, FiberExit

(* What a suspended operation captured stays true of it. *)
LEMMA CallStep ==
  ASSUME CoreInv, [Next]_vars
  PROVE  CallInv'
<1> USE RunnerAssumption
<1> DEFINE Quiet ==
       \/ \E i \in Ids : FiberStart(i) \/ ShellReady(i) \/ FinishRunStale(i) \/ OnIdleReturn(i) \/ FinishShellStale(i)
       \/ \E i \in Ids, e \in Outcomes : WorkExit(i, e)
<1>a. TypeOK /\ FreshInv /\ LockInv /\ SlotInv /\ DoneInv /\ CallInv /\ ExitInv
  BY DEF CoreInv
<1>b. /\ ids \in Ids0 /\ 1 .. ids \subseteq Ids
      /\ \A k \in Objs : SlotIds(k)
      /\ \A k \in Callers : CallIds(k)
  BY HandlesInUse
<1> SUFFICES ASSUME NEW k \in Callers PROVE CallOK(k)'
  BY DEF CallInv
<1>c. ASSUME pc'[k] = pc[k], call'[k] = call[k], intr \subseteq intr', UNCHANGED <<st, handle, done>>
      PROVE  CallOK(k)'
  BY <1>a, <1>c DEF CallInv, CallOK, RunHandle
<1>d. ASSUME pc'[k] = pc[k], call'[k] = call[k], intr' = intr,
             \A j \in 1 .. ids : handle'[j] = handle[j] /\ (done[j] # "none" => done'[j] # "none"),
             \A j \in Ids : handle'[j] = handle[j] \/ handle'[j].kind # "run" \/ handle'[j].done \notin 1 .. ids,
             \A q \in Objs :
               \/ st'[q] = st[q]
               \/ /\ st'[q].done \notin 1 .. ids
                  /\ st'[q].tag = "Running" => st'[q].run \notin 1 .. ids
                  /\ st'[q].tag \in {"Shell", "ShellThenRun"} =>
                       \/ st'[q].shell \notin 1 .. ids
                       \/ st[q].tag \in {"Shell", "ShellThenRun"} /\ st'[q].shell = st[q].shell
      PROVE  CallOK(k)'
  <2>1. CallOK(k) /\ CallIds(k)
    BY <1>a, <1>b DEF CallInv
  <2>2. ASSUME pc[k] \in Cancelling, call[k].st.tag = "Running"
        PROVE  /\ RunHandle(call[k].st.run, call[k].obj, call[k].st.done)'
               /\ \A q \in Objs : st'[q].tag = "Running" => st'[q].run # call[k].st.run
    <3>1. call[k].st.run \in 1 .. ids
      BY <2>1, <2>2 DEF CallIds, CallOK, Cancelling, Target
    <3> QED BY <1>d, <2>1, <2>2, <3>1 DEF CallOK, RunHandle
  <2>3. ASSUME pc[k] \in Cancelling, call[k].st.tag \in {"Shell", "ShellThenRun"}
        PROVE  /\ handle'[call[k].st.shell].kind = "shell"
               /\ \A q \in Objs : st'[q].tag \in {"Shell", "ShellThenRun"}
                                    => st'[q].shell # call[k].st.shell
    <3>1. call[k].st.shell \in 1 .. ids
      BY <2>1, <2>3 DEF CallIds, CallOK, Cancelling, Target
    <3> QED BY <1>d, <2>1, <2>3, <3>1 DEF CallOK
  <2>4. ASSUME pc[k] \in Cancelling, call[k].st.tag = "ShellThenRun"
        PROVE  /\ \A q \in Objs : st'[q].done # call[k].st.done
               /\ \A i \in Ids : handle'[i].kind = "run" => handle'[i].done # call[k].st.done
    <3>1. call[k].st.done \in 1 .. ids
      BY <2>1, <2>4 DEF CallIds
    <3> QED BY <1>d, <2>1, <2>4, <3>1 DEF CallOK
  <2>5. /\ pc[k] = "awaitDone" => call[k].st.done \in 1 .. ids
        /\ pc[k] = "awaitShell" => call[k].st.shell \in 1 .. ids
    BY <2>1 DEF CallIds
  <2> QED BY <1>d, <2>1, <2>2, <2>3, <2>4, <2>5 DEF CallOK
<1>1. ASSUME NEW c \in Callers, NEW o \in Objs, EnsureJoin(c, o)
      PROVE  CallOK(k)'
  <2>1. CASE k # c
    BY <1>1, <1>a, <1>c, <2>1 DEF EnsureJoin, Capture, TypeOK
  <2>2. CASE k = c
    <3>1. pc'[k] = "awaitDone" /\ call'[k].st = st[o] /\ done' = done
      BY <1>1, <1>a, <2>2 DEF EnsureJoin, Capture, TypeOK
    <3>2. st[o].tag \in {"Running", "ShellThenRun"} /\ SlotOK(o)
      BY <1>1, <1>a DEF EnsureJoin, SlotInv
    <3> QED BY <3>1, <3>2 DEF CallOK, SlotOK, Cancelling
  <2> QED BY <2>1, <2>2
<1>2. ASSUME NEW c \in Callers, NEW o \in Objs, EnsureQueue(c, o)
      PROVE  CallOK(k)'
  <2>1. ids + 1 \in Ids /\ ids + 1 \notin 1 .. ids
    BY <1>2, <1>a DEF EnsureQueue, TypeOK
  <2>2. /\ \A q \in Objs : st'[q] = IF q = o THEN ShellThenRun(st[o].shell, ids + 1) ELSE st[q]
        /\ \A j \in Ids : j # ids + 1 => handle'[j] = handle[j] /\ done'[j] = done[j]
        /\ handle'[ids + 1].kind = "pending" /\ done'[ids + 1] = "pending"
        /\ st[o].tag = "Shell" /\ intr' = intr
    BY <1>2, <1>a, <2>1 DEF EnsureQueue, TypeOK
  <2>3. CASE k # c
    <3>1. pc'[k] = pc[k] /\ call'[k] = call[k]
      BY <1>2, <1>a, <2>3 DEF EnsureQueue, Capture, TypeOK
    <3> QED BY <1>b, <1>d, <2>1, <2>2, <3>1 DEF ShellThenRun
  <2>4. CASE k = c
    <3>1. pc'[k] = "awaitDone" /\ call'[k].st = ShellThenRun(st[o].shell, ids + 1)
      BY <1>2, <1>a, <2>4 DEF EnsureQueue, Capture, TypeOK
    <3> QED BY <2>2, <3>1 DEF CallOK, ShellThenRun, Cancelling
  <2> QED BY <2>3, <2>4
<1>3. ASSUME NEW c \in Callers, NEW o \in Objs, EnsureStart(c, o)
      PROVE  CallOK(k)'
  <2>1. ids + 1 \in Ids /\ ids + 1 \notin 1 .. ids
    BY <1>3, <1>a DEF EnsureStart, TypeOK
  <2>2. /\ \A q \in Objs : st'[q] = IF q = o THEN Running(ids + 1, ids + 1) ELSE st[q]
        /\ \A j \in Ids : j # ids + 1 => handle'[j] = handle[j] /\ done'[j] = done[j]
        /\ handle'[ids + 1].done = ids + 1 /\ done'[ids + 1] = "pending" /\ intr' = intr
    BY <1>3, <1>a, <2>1 DEF EnsureStart, StartRun, TypeOK
  <2>3. CASE k # c
    <3>1. pc'[k] = pc[k] /\ call'[k] = call[k]
      BY <1>3, <1>a, <2>3 DEF EnsureStart, Capture, TypeOK
    <3> QED BY <1>b, <1>d, <2>1, <2>2, <3>1 DEF Running
  <2>4. CASE k = c
    <3>1. pc'[k] = "awaitDone" /\ call'[k].st = Running(ids + 1, ids + 1)
      BY <1>3, <1>a, <2>4 DEF EnsureStart, Capture, TypeOK
    <3> QED BY <2>2, <3>1 DEF CallOK, Running, Cancelling
  <2> QED BY <2>3, <2>4
<1>4. ASSUME NEW c \in Callers, NEW o \in Objs, ShellOnBusy(c, o)
      PROVE  CallOK(k)'
  <2>1. CASE k # c
    BY <1>4, <1>a, <1>c, <2>1 DEF ShellOnBusy, Capture, TypeOK
  <2>2. CASE k = c
    BY <1>4, <1>a, <2>2 DEF ShellOnBusy, Capture, TypeOK, CallOK, Cancelling
  <2> QED BY <2>1, <2>2
<1>5. ASSUME NEW c \in Callers, NEW o \in Objs, CancelBusy(c, o)
      PROVE  CallOK(k)'
  <2> DEFINE s == st[o]
  <2>1. CASE k # c
    <3>1. /\ pc'[k] = pc[k] /\ call'[k] = call[k] /\ UNCHANGED <<handle, done, intr>>
          /\ \A q \in Objs : st'[q] = st[q] \/ st'[q] = Idle
      BY <1>5, <1>a, <2>1 DEF CancelBusy, Capture, TypeOK
    <3>2. 0 \notin 1 .. ids
      BY <1>a DEF TypeOK
    <3> QED BY <1>d, <3>1, <3>2 DEF Idle
  <2>2. CASE k = c
    <3>1. /\ pc'[k] = IF s.tag = "Running" THEN "interrupt" ELSE "latch"
          /\ call'[k].obj = o /\ call'[k].st = s
          /\ UNCHANGED <<handle, done, intr>>
      BY <1>5, <1>a, <2>2 DEF CancelBusy, Capture, TypeOK
    <3>2. \A q \in Objs : st'[q] = IF q = o THEN Idle ELSE st[q]
      BY <1>5, <1>a DEF CancelBusy, TypeOK
    <3>3. SlotOK(o) /\ s.tag \in {"Running", "Shell", "ShellThenRun"} /\ s.done \in Ids0
      BY <1>5, <1>a, <1>b DEF CancelBusy, SlotInv, SlotIds, Tags
    <3>4. \A q \in Objs : q # o => SlotOK(q) /\ SlotIds(q)
      BY <1>a, <1>b DEF SlotInv
    <3>5. CASE s.tag = "Running"
      <4>1. \A q \in Objs : st'[q].tag = "Running" => st'[q].run # s.run
        BY <3>2, <3>3, <3>4, <3>5 DEF SlotOK, RunHandle, Idle
      <4> QED BY <3>1, <3>3, <3>5, <4>1 DEF CallOK, SlotOK, RunHandle, Cancelling
    <3>6. CASE s.tag \in {"Shell", "ShellThenRun"}
      <4>1. \A q \in Objs : st'[q].tag \in {"Shell", "ShellThenRun"} => st'[q].shell # s.shell
        BY <3>2, <3>3, <3>4, <3>6 DEF SlotOK, ShellHandle, Idle
      <4>2. s.tag = "ShellThenRun" =>
               /\ \A q \in Objs : st'[q].done # s.done
               /\ \A i \in Ids : handle[i].kind = "run" => handle[i].done # s.done
        BY <1>a, <1>b, <3>2 DEF DoneInv, OneSlotPerDone, QueuedHasNoFiber, SlotIds, Idle
      <4>3. handle[s.shell].kind = "shell"
        BY <3>3, <3>6 DEF SlotOK, ShellHandle
      <4> QED BY <3>1, <3>6, <4>1, <4>2, <4>3 DEF CallOK, Cancelling
    <3> QED BY <3>3, <3>5, <3>6
  <2> QED BY <2>1, <2>2
<1>6. ASSUME NEW c \in Callers, NEW l \in Latches, ShellFork(c, l)
      PROVE  CallOK(k)'
  <2>1. ids + 1 \in Ids /\ ids + 1 \notin 1 .. ids /\ 0 \notin 1 .. ids
    BY <1>6, <1>a DEF ShellFork, TypeOK
  <2>2. /\ \A q \in Objs : st'[q] = st[q] \/ st'[q] = Shell(ids + 1)
        /\ \A j \in Ids : j # ids + 1 => handle'[j] = handle[j]
        /\ handle'[ids + 1].kind = "shell" /\ done' = done /\ intr' = intr
    BY <1>6, <1>a, <2>1 DEF ShellFork, TypeOK
  <2>3. CASE k # c
    <3>1. pc'[k] = pc[k] /\ call'[k] = call[k]
      BY <1>6, <1>a, <2>3 DEF ShellFork, Capture, TypeOK
    <3> QED BY <1>b, <1>d, <2>1, <2>2, <3>1 DEF Shell
  <2>4. CASE k = c
    <3>1. pc'[k] = "awaitShell" /\ call'[k].st = Shell(ids + 1)
      BY <1>6, <1>a, <2>4 DEF ShellFork, Capture, TypeOK
    <3> QED BY <2>2, <3>1 DEF CallOK, Shell, Cancelling
  <2> QED BY <2>3, <2>4
<1>7. ASSUME NEW c \in Callers, Leaves(c)
      PROVE  CallOK(k)'
  <2>1. CASE k # c
    BY <1>7, <1>c, <2>1 DEF Leaves
  <2>2. CASE k = c
    BY <1>7, <2>2 DEF Leaves, CallOK, Cancelling
  <2> QED BY <2>1, <2>2
<1>8. ASSUME NEW c \in Callers, CancelInterruptRun(c)
      PROVE  CallOK(k)'
  <2>1. CASE k # c
    BY <1>8, <1>a, <1>c, <2>1 DEF CancelInterruptRun, InterruptFiber, TypeOK
  <2>2. CASE k = c
    <3>1. CallOK(k) /\ pc[k] = "interrupt" /\ pc'[k] = "awaitFiber" /\ call[k].st.run \in intr'
      BY <1>8, <1>a, <2>2 DEF CancelInterruptRun, InterruptFiber, TypeOK, CallInv
    <3>2. UNCHANGED <<call, handle, st>>
      BY <1>8 DEF CancelInterruptRun
    <3> QED BY <3>1, <3>2 DEF CallOK, RunHandle, Cancelling, Target, Idle
  <2> QED BY <2>1, <2>2
<1>9. ASSUME NEW c \in Callers, CancelStopShell(c)
      PROVE  CallOK(k)'
  <2>1. CASE k # c
    BY <1>9, <1>a, <1>c, <2>1 DEF CancelStopShell, InterruptFiber, TypeOK
  <2>2. CASE k = c
    <3>1. CallOK(k) /\ pc[k] = "latch" /\ pc'[k] = "awaitFiber" /\ call[k].st.shell \in intr'
      BY <1>9, <1>a, <2>2 DEF CancelStopShell, InterruptFiber, TypeOK, CallInv
    <3>2. UNCHANGED <<call, handle, st>>
      BY <1>9 DEF CancelStopShell
    <3> QED BY <3>1, <3>2 DEF CallOK, RunHandle, Cancelling, Target, Idle
  <2> QED BY <2>1, <2>2
<1>10. ASSUME NEW c \in Callers, CancelFailDone(c)
       PROVE  CallOK(k)'
  <2>1. CASE k # c
    <3>1. pc'[k] = pc[k] /\ UNCHANGED <<call, intr, handle, st>>
      BY <1>10, <1>a, <2>1 DEF CancelFailDone, TypeOK
    <3>2. \A j \in Ids : done[j] # "none" => done'[j] # "none"
      BY <1>10, <1>a DEF CancelFailDone, FailCancelled, TypeOK
    <3> QED BY <1>b, <1>d, <3>1, <3>2
  <2>2. CASE k = c
    <3>1. pc'[k] = "idleIfCurrent"
      BY <1>10, <1>a, <2>2 DEF CancelFailDone, TypeOK
    <3> QED BY <3>1 DEF CallOK, Cancelling
  <2> QED BY <2>1, <2>2
<1>11. ASSUME NEW c \in Callers, AbortOnBusy(c)
       PROVE  CallOK(k)'
  <2>1. CASE k # c
    BY <1>11, <1>a, <1>c, <2>1 DEF AbortOnBusy, Return, TypeOK
  <2>2. CASE k = c
    BY <1>11, <1>a, <2>2 DEF AbortOnBusy, Return, TypeOK, CallOK, Cancelling
  <2> QED BY <2>1, <2>2
<1>12. ASSUME NEW c \in Callers, AbortShell(c)
       PROVE  CallOK(k)'
  <2>1. CASE k # c
    BY <1>12, <1>a, <1>c, <2>1 DEF AbortShell, InterruptFiber, Return, TypeOK
  <2>2. CASE k = c
    BY <1>12, <1>a, <2>2 DEF AbortShell, Return, TypeOK, CallOK, Cancelling
  <2> QED BY <2>1, <2>2
<1>13. ASSUME NEW i \in Ids, FinishRunCurrent(i)
       PROVE  CallOK(k)'
  <2>1. UNCHANGED <<pc, call, intr, handle, done>>
    BY <1>13 DEF FinishRunCurrent
  <2>2. \A q \in Objs : st'[q] = st[q] \/ st'[q] = Idle
    BY <1>13, <1>a DEF FinishRunCurrent, TypeOK
  <2>3. Idle.tag = "Idle" /\ Idle.done \notin 1 .. ids
    BY <1>b DEF Idle
  <2> QED BY <1>b, <1>d, <2>1, <2>2, <2>3
<1>14. ASSUME NEW i \in Ids, FinishRunComplete(i)
       PROVE  CallOK(k)'
  <2>1. UNCHANGED <<pc, call, intr, handle, st>>
    BY <1>14 DEF FinishRunComplete
  <2>2. \A j \in Ids : done[j] # "none" => done'[j] # "none"
    BY <1>14, <1>a DEF FinishRunComplete, Complete, TypeOK
  <2> QED BY <1>b, <1>d, <2>1, <2>2
<1>15. ASSUME NEW i \in Ids, FinishShellIdle(i)
       PROVE  CallOK(k)'
  <2>1. UNCHANGED <<pc, call, intr, handle, done>>
    BY <1>15 DEF FinishShellIdle
  <2>2. \A q \in Objs : st'[q] = st[q] \/ st'[q] = Idle
    BY <1>15, <1>a DEF FinishShellIdle, TypeOK
  <2>3. Idle.tag = "Idle" /\ Idle.done \notin 1 .. ids
    BY <1>b DEF Idle
  <2> QED BY <1>b, <1>d, <2>1, <2>2, <2>3
<1>16. ASSUME NEW i \in Ids, FinishShellHandOff(i)
       PROVE  CallOK(k)'
  <2> DEFINE n == ids + 1
             o == handle[i].obj
  <2>1. o \in Objs /\ n \in Ids /\ st[o].tag = "ShellThenRun" /\ st[o].done \in 1 .. ids
    BY <1>16, <1>a, <1>b DEF FinishShellHandOff, HoldsShell, ExitInv, TypeOK, SlotIds
  <2>2. CallOK(k) /\ CallIds(k) /\ UNCHANGED <<pc, call, done, intr>>
    BY <1>16, <1>a, <1>b DEF FinishShellHandOff, CallInv
  <2>3. /\ \A j \in Ids : handle'[j] = IF j = n THEN [kind |-> "run", obj |-> o, done |-> st[o].done]
                                        ELSE handle[j]
        /\ \A q \in Objs : st'[q] = IF q = o THEN Running(n, st[o].done) ELSE st[q]
    BY <1>16, <1>a, <2>1 DEF FinishShellHandOff, TypeOK
  <2> HIDE DEF n, o
  <2>4. \A j \in 1 .. ids : handle'[j] = handle[j]
    BY <1>b, <2>3 DEF n
  <2>5. \A q \in Objs : \/ st'[q] = st[q]
                        \/ /\ st'[q].tag = "Running" /\ st'[q].run \notin 1 .. ids
                           /\ st'[q].done = st[q].done
    BY <1>b, <2>3 DEF n, Running
  <2>6. ASSUME pc[k] \in Cancelling, call[k].st.tag = "ShellThenRun"
        PROVE  \A j \in Ids : handle'[j].kind = "run" => handle'[j].done # call[k].st.done
    BY <2>1, <2>2, <2>3, <2>6 DEF CallOK
  <2>7. /\ pc[k] \in Cancelling /\ call[k].st.tag = "Running" => call[k].st.run \in 1 .. ids
        /\ pc[k] \in Cancelling /\ call[k].st.tag \in {"Shell", "ShellThenRun"} => call[k].st.shell \in 1 .. ids
        /\ pc[k] = "awaitShell" => call[k].st.shell \in 1 .. ids
    BY <2>2 DEF CallIds, CallOK, Cancelling, Target
  <2> QED
    BY <2>2, <2>4, <2>5, <2>6, <2>7 DEF CallOK, RunHandle, Target
<1>17. ASSUME UNCHANGED <<st, pc, call, handle, done, intr>>
       PROVE  CallOK(k)'
  BY <1>17, <1>a
  DEF CallInv, CallOK, RunHandle
<1>18. ASSUME UNCHANGED vars \/ Quiet
       PROVE  UNCHANGED <<st, pc, call, handle, done, intr>>
  BY <1>18
  DEF vars, FiberStart, ShellReady, FinishRunStale, OnIdleReturn, FinishShellStale,
      WorkExit
<1> QED
  BY <1>1, <1>2, <1>3, <1>4, <1>5, <1>6, <1>7, <1>8, <1>9, <1>10, <1>11, <1>12,
     <1>13, <1>14, <1>15, <1>16, <1>17, <1>18, <1>a, LeavingSteps
  DEF Quits, Next, EnsureRunning, Cancel, CallerStep, CallerAbort, FiberStep, FinishStep, FiberExit

(* How a fiber ended is consistent with who interrupted it. *)
LEMMA ExitStep ==
  ASSUME CoreInv, [Next]_vars
  PROVE  ExitInv'
<1> USE RunnerAssumption
<1> DEFINE Quiet ==
       \/ \E c \in Callers, o \in Objs : EnsureJoin(c, o) \/ ShellOnBusy(c, o) \/ CancelBusy(c, o)
       \/ \E c \in Callers : Leaves(c) \/ AbortOnBusy(c)
       \/ \E i \in Ids : ShellReady(i)
<1>a. TypeOK /\ FreshInv /\ LockInv /\ SlotInv /\ DoneInv /\ CallInv /\ ExitInv
  BY DEF CoreInv
<1>b. /\ ids \in Ids0 /\ 1 .. ids \subseteq Ids
      /\ \A k \in Objs : SlotIds(k)
      /\ \A k \in Callers : CallIds(k)
  BY HandlesInUse
<1>1. ASSUME NEW c \in Callers, NEW o \in Objs, EnsureQueue(c, o)
      PROVE  ExitInv'
  BY <1>1, <1>a, <1>b
  DEF EnsureQueue, Capture, ShellThenRun, TypeOK, ExitInv, FreshInv, NoHandle
<1>2. ASSUME NEW c \in Callers, NEW o \in Objs, EnsureStart(c, o)
      PROVE  ExitInv'
  BY <1>2, <1>a, <1>b
  DEF EnsureStart, StartRun, Capture, Running, TypeOK, ExitInv, FreshInv, NoHandle
<1>3. ASSUME NEW c \in Callers, NEW l \in Latches, ShellFork(c, l)
      PROVE  ExitInv'
  BY <1>3, <1>a, <1>b
  DEF ShellFork, Capture, Shell, TypeOK, ExitInv, FreshInv, NoHandle, LockInv
<1>4. ASSUME NEW c \in Callers, CancelInterruptRun(c)
      PROVE  ExitInv'
  BY <1>4, <1>a, <1>b
  DEF CancelInterruptRun, InterruptFiber, TypeOK, ExitInv, CallIds
<1>5. ASSUME NEW c \in Callers, CancelStopShell(c)
      PROVE  ExitInv'
  BY <1>5, <1>a, <1>b
  DEF CancelStopShell, InterruptFiber, TypeOK, ExitInv, CallIds
<1>6. ASSUME NEW c \in Callers, CancelFailDone(c)
      PROVE  ExitInv'
  <2> DEFINE s == call[c].st
  <2>1. CallOK(c) /\ CallIds(c)
    BY <1>a, <1>b DEF CallInv
  <2>2. UNCHANGED <<fiber, handle, intr, exit, ids>>
    BY <1>6 DEF CancelFailDone
  <2>3. \A d \in Ids : done'[d] = "cancelled" => done[d] = "cancelled" \/ (s.tag # "Shell" /\ d = s.done)
    BY <1>6, <1>a DEF CancelFailDone, FailCancelled, TypeOK
  <2>4. ASSUME NEW j \in Ids, handle[j].kind = "run", s.tag # "Shell", handle[j].done = s.done
        PROVE  j \in intr
    <3>1. s.tag \in {"Running", "ShellThenRun"} /\ Target(s) \in intr
      BY <1>6, <1>a, <2>1, <2>4
      DEF CancelFailDone, CallOK, CallIds, TypeOK, States, Tags, FreshInv, WellFormed,
          Idle
    <3>2. s.tag = "Running"
      BY <1>6, <2>1, <2>4, <3>1 DEF CancelFailDone, CallOK, Cancelling
    <3>3. handle[s.run].kind = "run" /\ handle[s.run].done = s.done /\ s.run \in Ids /\ s.run \in intr
      BY <1>6, <1>b, <2>1, <3>1, <3>2
      DEF CancelFailDone, CallOK, Cancelling, RunHandle, CallIds, Target
    <3> QED BY <1>a, <2>4, <3>3 DEF DoneInv, OneFiberPerDone
  <2> QED BY <1>a, <2>2, <2>3, <2>4 DEF ExitInv
<1>7. ASSUME NEW c \in Callers, AbortShell(c)
      PROVE  ExitInv'
  BY <1>7, <1>a, <1>b
  DEF AbortShell, InterruptFiber, Return, NoCall, TypeOK, ExitInv, CallIds
<1>8. ASSUME NEW i \in Ids, FiberStart(i)
      PROVE  ExitInv'
  BY <1>8, <1>a, <1>b
  DEF FiberStart, TypeOK, ExitInv
<1>9. ASSUME NEW i \in Ids, FinishRunCurrent(i)
      PROVE  ExitInv'
  BY <1>9, <1>a, <1>b
  DEF FinishRunCurrent, IsCurrentRun, TypeOK, ExitInv
<1>10. ASSUME NEW i \in Ids, FinishRunStale(i)
       PROVE  ExitInv'
  BY <1>10, <1>a, <1>b
  DEF FinishRunStale, IsCurrentRun, TypeOK, ExitInv
<1>11. ASSUME NEW i \in Ids, FinishRunComplete(i)
       PROVE  ExitInv'
  BY <1>11, <1>a, <1>b
  DEF FinishRunComplete, Complete, TypeOK, ExitInv, DoneInv, OneFiberPerDone
<1>12. ASSUME NEW i \in Ids, OnIdleReturn(i)
       PROVE  ExitInv'
  BY <1>12, <1>a, <1>b
  DEF OnIdleReturn, TypeOK, ExitInv
<1>13. ASSUME NEW i \in Ids, FinishShellIdle(i)
       PROVE  ExitInv'
  BY <1>13, <1>a, <1>b
  DEF FinishShellIdle, HoldsShell, TypeOK, ExitInv
<1>14. ASSUME NEW i \in Ids, FinishShellHandOff(i)
       PROVE  ExitInv'
  BY <1>14, <1>a, <1>b
  DEF FinishShellHandOff, HoldsShell, Running, TypeOK, ExitInv, FreshInv, NoHandle,
      SlotInv, SlotOK, SlotIds
<1>15. ASSUME NEW i \in Ids, FinishShellStale(i)
       PROVE  ExitInv'
  BY <1>15, <1>a, <1>b
  DEF FinishShellStale, HoldsShell, TypeOK, ExitInv
<1>16. ASSUME NEW i \in Ids, NEW e \in Outcomes, WorkExit(i, e)
       PROVE  ExitInv'
  BY <1>16, <1>a, <1>b
  DEF WorkExit, TypeOK, ExitInv
<1>17. ASSUME UNCHANGED <<fiber, handle, intr, exit, done, ids>>
       PROVE  ExitInv'
  BY <1>17, <1>a
  DEF ExitInv
<1>18. ASSUME UNCHANGED vars \/ Quiet
       PROVE  UNCHANGED <<fiber, handle, intr, exit, done, ids>>
  BY <1>18
  DEF vars, EnsureJoin, ShellOnBusy, CancelBusy, Leaves, AbortOnBusy, ShellReady,
      Capture, NoCall, Return
<1> QED
  BY <1>1, <1>2, <1>3, <1>4, <1>5, <1>6, <1>7, <1>8, <1>9, <1>10, <1>11, <1>12,
     <1>13, <1>14, <1>15, <1>16, <1>17, <1>18, <1>a, LeavingSteps
  DEF Quits, Next, EnsureRunning, Cancel, CallerStep, CallerAbort, FiberStep, FinishStep, FiberExit

(* Work that nobody has cancelled is what its slot holds. *)
LEMMA OwnedStep ==
  ASSUME CoreInv, OwnedInv, ~AbortCancel, [Next]_vars
  PROVE  OwnedInv'
<1> USE RunnerAssumption
<1> DEFINE Quiet ==
       \/ \E i \in Ids : ShellReady(i)
<1>a. TypeOK /\ FreshInv /\ LockInv /\ SlotInv /\ DoneInv /\ CallInv /\ ExitInv /\ OwnedInv
  BY DEF CoreInv
<1>b. /\ ids \in Ids0 /\ 1 .. ids \subseteq Ids
      /\ \A k \in Objs : SlotIds(k)
      /\ \A k \in Callers : CallIds(k)
  BY HandlesInUse
<1> SUFFICES ASSUME NEW j \in Ids PROVE Owned(j)'
  BY DEF OwnedInv
<1>1. ASSUME NEW c \in Callers, NEW o \in Objs, EnsureJoin(c, o)
      PROVE  Owned(j)'
  BY <1>1, <1>a, <1>b
  DEF EnsureJoin, Capture, TypeOK, OwnedInv, Owned, Uncancelled, Working,
      ToInterrupt, IsCurrentRun, HoldsShell
<1>2. ASSUME NEW c \in Callers, NEW o \in Objs, EnsureQueue(c, o)
      PROVE  Owned(j)'
  <2> DEFINE n == ids + 1
  <2>1. n \in Ids /\ n > ids /\ pc[c] = "ready"
    BY <1>2, <1>a, <1>b DEF EnsureQueue
  <2>2. CASE j = n
    BY <1>2, <1>a, <2>1, <2>2 DEF EnsureQueue, FreshInv, Owned, Uncancelled, Working
  <2>3. CASE j # n
    <3>1. UNCHANGED <<fiber[j], handle[j], intr>>
      BY <1>2, <1>a, <1>b, <2>3 DEF EnsureQueue, Capture, TypeOK
    <3>2. ToInterrupt(j) => ToInterrupt(j)'
      BY <1>2, <1>a, <2>1 DEF EnsureQueue, Capture, ToInterrupt, TypeOK
    <3>3. SUFFICES ASSUME Uncancelled(j)' PROVE (IsCurrentRun(j) \/ HoldsShell(j))'
      BY DEF Owned
    <3>4. IsCurrentRun(j) \/ HoldsShell(j)
      BY <1>a, <3>1, <3>2, <3>3 DEF OwnedInv, Owned, Uncancelled, Working
    <3>5. handle[j].obj \in Objs
      BY <1>a, <3>1, <3>3 DEF ExitInv, Uncancelled, Working
    <3>6. \/ st'[handle[j].obj] = st[handle[j].obj]
          \/ /\ st'[handle[j].obj].tag = "ShellThenRun" /\ st[handle[j].obj].tag = "Shell"
             /\ st'[handle[j].obj].shell = st[handle[j].obj].shell
      BY <1>2, <1>a, <3>4, <3>5 DEF EnsureQueue, ShellThenRun, TypeOK
    <3> QED BY <3>1, <3>4, <3>6 DEF IsCurrentRun, HoldsShell
  <2> QED BY <2>2, <2>3
<1>3. ASSUME NEW c \in Callers, NEW o \in Objs, EnsureStart(c, o)
      PROVE  Owned(j)'
  <2> DEFINE n == ids + 1
  <2>1. n \in Ids /\ n > ids /\ pc[c] = "ready"
    BY <1>3, <1>a, <1>b DEF EnsureStart
  <2>2. CASE j = n
    BY <1>3, <1>a, <2>1, <2>2
    DEF EnsureStart, StartRun, Running, Owned, IsCurrentRun, TypeOK
  <2>3. CASE j # n
    <3>1. UNCHANGED <<fiber[j], handle[j], intr>>
      BY <1>3, <1>a, <1>b, <2>3 DEF EnsureStart, StartRun, TypeOK
    <3>2. ToInterrupt(j) => ToInterrupt(j)'
      BY <1>3, <1>a, <2>1 DEF EnsureStart, Capture, ToInterrupt, TypeOK
    <3>3. SUFFICES ASSUME Uncancelled(j)' PROVE (IsCurrentRun(j) \/ HoldsShell(j))'
      BY DEF Owned
    <3>4. IsCurrentRun(j) \/ HoldsShell(j)
      BY <1>a, <3>1, <3>2, <3>3 DEF OwnedInv, Owned, Uncancelled, Working
    <3>5. handle[j].obj \in Objs
      BY <1>a, <3>1, <3>3 DEF ExitInv, Uncancelled, Working
    <3>6. st'[handle[j].obj] = st[handle[j].obj]
      BY <1>3, <1>a, <3>4, <3>5 DEF EnsureStart, IsCurrentRun, HoldsShell, TypeOK
    <3> QED BY <3>1, <3>4, <3>6 DEF IsCurrentRun, HoldsShell
  <2> QED BY <2>2, <2>3
<1>4. ASSUME NEW c \in Callers, NEW o \in Objs, ShellOnBusy(c, o)
      PROVE  Owned(j)'
  BY <1>4, <1>a, <1>b
  DEF ShellOnBusy, Capture, TypeOK, OwnedInv, Owned, Uncancelled, Working,
      ToInterrupt, IsCurrentRun, HoldsShell
<1>5. ASSUME NEW c \in Callers, NEW o \in Objs, CancelBusy(c, o)
      PROVE  Owned(j)'
  BY <1>5, <1>a, <1>b
  DEF CancelBusy, Capture, TypeOK, OwnedInv, Owned, Uncancelled, Working,
      ToInterrupt, IsCurrentRun, HoldsShell
<1>6. ASSUME NEW c \in Callers, NEW l \in Latches, ShellFork(c, l)
      PROVE  Owned(j)'
  <2> DEFINE n == ids + 1
  <2>1. n \in Ids /\ n > ids /\ pc[c] = "onBusy"
    BY <1>6, <1>a, <1>b DEF ShellFork
  <2>2. CASE j = n
    BY <1>6, <1>a, <2>1, <2>2 DEF ShellFork, LockInv, Shell, Owned, HoldsShell, TypeOK
  <2>3. CASE j # n
    <3>1. UNCHANGED <<fiber[j], handle[j], intr>>
      BY <1>6, <1>a, <1>b, <2>3 DEF ShellFork, Capture, TypeOK
    <3>2. ToInterrupt(j) => ToInterrupt(j)'
      BY <1>6, <1>a, <2>1 DEF ShellFork, Capture, ToInterrupt, TypeOK
    <3>3. SUFFICES ASSUME Uncancelled(j)' PROVE (IsCurrentRun(j) \/ HoldsShell(j))'
      BY DEF Owned
    <3>4. IsCurrentRun(j) \/ HoldsShell(j)
      BY <1>a, <3>1, <3>2, <3>3 DEF OwnedInv, Owned, Uncancelled, Working
    <3>5. handle[j].obj \in Objs
      BY <1>a, <3>1, <3>3 DEF ExitInv, Uncancelled, Working
    <3>6. st'[handle[j].obj] = st[handle[j].obj]
      BY <1>6, <1>a, <3>4, <3>5
      DEF ShellFork, LockInv, Idle, IsCurrentRun, HoldsShell, TypeOK
    <3> QED BY <3>1, <3>4, <3>6 DEF IsCurrentRun, HoldsShell
  <2> QED BY <2>2, <2>3
<1>7. ASSUME NEW c \in Callers, Quits(c)
      PROVE  Owned(j)'
  <2>1. ToInterrupt(j) => ToInterrupt(j)'
    BY <1>7 DEF Quits, Leaves, Cancelling, ToInterrupt
  <2>2. UNCHANGED <<st, fiber, handle, intr>>
    BY <1>7 DEF Quits, Leaves
  <2> QED
    BY <1>a, <2>1, <2>2 DEF OwnedInv, Owned, Uncancelled, Working, IsCurrentRun, HoldsShell
<1>8. ASSUME NEW c \in Callers, CancelInterruptRun(c)
      PROVE  Owned(j)'
  BY <1>8, <1>a, <1>b
  DEF CancelInterruptRun, InterruptFiber, TypeOK, OwnedInv, Owned, Uncancelled,
      Working, ToInterrupt, IsCurrentRun, HoldsShell
<1>9. ASSUME NEW c \in Callers, CancelStopShell(c)
      PROVE  Owned(j)'
  BY <1>9, <1>a, <1>b, SMTT(30)
  DEF CancelStopShell, InterruptFiber, TypeOK, OwnedInv, Owned, Uncancelled,
      Working, ToInterrupt, IsCurrentRun, HoldsShell
<1>10. ASSUME NEW c \in Callers, CancelFailDone(c)
       PROVE  Owned(j)'
  BY <1>10, <1>a, <1>b
  DEF CancelFailDone, FailCancelled, TypeOK, OwnedInv, Owned, Uncancelled, Working,
      ToInterrupt, IsCurrentRun, HoldsShell
<1>11. ASSUME NEW c \in Callers, AbortOnBusy(c)
       PROVE  Owned(j)'
  BY <1>11, <1>a, <1>b
  DEF AbortOnBusy, Return, NoCall, TypeOK, OwnedInv, Owned, Uncancelled, Working,
      ToInterrupt, IsCurrentRun, HoldsShell
<1>12. ASSUME NEW c \in Callers, AbortShell(c)
       PROVE  Owned(j)'
  BY <1>12, <1>a, <1>b
  DEF AbortShell, InterruptFiber, Return, NoCall, TypeOK, OwnedInv, Owned,
      Uncancelled, Working, ToInterrupt, IsCurrentRun, HoldsShell
<1>13. ASSUME NEW i \in Ids, FiberStart(i)
       PROVE  Owned(j)'
  <2>1. Working(j)' => Working(j)
    BY <1>13, <1>a DEF FiberStart, Working, TypeOK
  <2>2. UNCHANGED <<st, handle, intr, pc, call>>
    BY <1>13 DEF FiberStart
  <2> QED
    BY <1>a, <2>1, <2>2
    DEF OwnedInv, Owned, Uncancelled, ToInterrupt, IsCurrentRun, HoldsShell
<1>14. ASSUME NEW i \in Ids, FinishRunCurrent(i)
       PROVE  Owned(j)'
  BY <1>14, <1>a, <1>b
  DEF FinishRunCurrent, IsCurrentRun, TypeOK, OwnedInv, Owned, Uncancelled, Working,
      ToInterrupt, HoldsShell
<1>15. ASSUME NEW i \in Ids, FinishRunStale(i)
       PROVE  Owned(j)'
  BY <1>15, <1>a, <1>b
  DEF FinishRunStale, IsCurrentRun, TypeOK, OwnedInv, Owned, Uncancelled, Working,
      ToInterrupt, HoldsShell
<1>16. ASSUME NEW i \in Ids, FinishRunComplete(i)
       PROVE  Owned(j)'
  BY <1>16, <1>a, <1>b
  DEF FinishRunComplete, Complete, TypeOK, OwnedInv, Owned, Uncancelled, Working,
      ToInterrupt, IsCurrentRun, HoldsShell
<1>17. ASSUME NEW i \in Ids, OnIdleReturn(i)
       PROVE  Owned(j)'
  BY <1>17, <1>a, <1>b
  DEF OnIdleReturn, TypeOK, OwnedInv, Owned, Uncancelled, Working, ToInterrupt,
      IsCurrentRun, HoldsShell
<1>18. ASSUME NEW i \in Ids, FinishShellIdle(i)
       PROVE  Owned(j)'
  BY <1>18, <1>a, <1>b
  DEF FinishShellIdle, HoldsShell, TypeOK, OwnedInv, Owned, Uncancelled, Working,
      ToInterrupt, IsCurrentRun
<1>19. ASSUME NEW i \in Ids, FinishShellHandOff(i)
       PROVE  Owned(j)'
  <2> DEFINE n == ids + 1
             o == handle[i].obj
  <2>1. o \in Objs /\ n \in Ids /\ n # i /\ st[o].tag = "ShellThenRun" /\ st[o].shell = i
    BY <1>19, <1>a, <1>b DEF FinishShellHandOff, HoldsShell, ExitInv, TypeOK, SlotIds
  <2>2. /\ \A q \in Objs : st'[q] = IF q = o THEN Running(n, st[o].done) ELSE st[q]
        /\ handle'[n].obj = o
        /\ \A p \in Ids : p # n => handle'[p] = handle[p]
        /\ \A p \in Ids : p # n => fiber'[p] = IF p = i THEN "dead" ELSE fiber[p]
        /\ UNCHANGED <<intr, pc, call>>
    BY <1>19, <1>a, <2>1 DEF FinishShellHandOff, TypeOK
  <2>3. CASE j = n
    BY <2>1, <2>2, <2>3 DEF Owned, IsCurrentRun, Running
  <2>4. CASE j # n
    <3>1. SUFFICES ASSUME Uncancelled(j)' PROVE (IsCurrentRun(j) \/ HoldsShell(j))'
      BY DEF Owned
    <3>2. j # i /\ Uncancelled(j)
      BY <2>2, <2>4, <3>1 DEF Uncancelled, Working, ToInterrupt
    <3>3. handle[j].obj \in Objs /\ (IsCurrentRun(j) \/ HoldsShell(j))
      BY <1>a, <3>2 DEF OwnedInv, Owned, ExitInv, Uncancelled, Working
    <3>4. handle[j].obj # o
      BY <2>1, <3>2, <3>3 DEF IsCurrentRun, HoldsShell
    <3> QED BY <2>2, <2>4, <3>3, <3>4 DEF IsCurrentRun, HoldsShell
  <2> QED BY <2>3, <2>4
<1>20. ASSUME NEW i \in Ids, FinishShellStale(i)
       PROVE  Owned(j)'
  BY <1>20, <1>a, <1>b
  DEF FinishShellStale, HoldsShell, TypeOK, OwnedInv, Owned, Uncancelled, Working,
      ToInterrupt, IsCurrentRun
<1>21. ASSUME NEW i \in Ids, NEW e \in Outcomes, WorkExit(i, e)
       PROVE  Owned(j)'
  BY <1>21, <1>a, <1>b
  DEF WorkExit, TypeOK, OwnedInv, Owned, Uncancelled, Working, ToInterrupt,
      IsCurrentRun, HoldsShell
<1>22. ASSUME UNCHANGED <<st, fiber, handle, intr, pc, call>>
       PROVE  Owned(j)'
  BY <1>22, <1>a
  DEF OwnedInv, Owned, Uncancelled, Working, ToInterrupt, IsCurrentRun, HoldsShell
<1>23. ASSUME UNCHANGED vars \/ Quiet
       PROVE  UNCHANGED <<st, fiber, handle, intr, pc, call>>
  BY <1>23
  DEF vars, ShellReady
<1> QED
  BY <1>1, <1>2, <1>3, <1>4, <1>5, <1>6, <1>7, <1>8, <1>9, <1>10, <1>11, <1>12,
     <1>13, <1>14, <1>15, <1>16, <1>17, <1>18, <1>19, <1>20, <1>21, <1>22, <1>23,
     <1>a, LeavingSteps
  DEF Next, EnsureRunning, Cancel, CallerStep, CallerAbort, FiberStep, FinishStep, FiberExit

(* A pending Deferred keeps somebody who completes it. *)
LEMMA SettledStep ==
  ASSUME CoreInv, ShellInv, SettledInv, ~AbortCancel, ~InterruptBeforeStart, [Next]_vars
  PROVE  SettledInv'
<1> USE RunnerAssumption
<1> DEFINE Quiet ==
       \/ \E i \in Ids : ShellReady(i)
<1>a. /\ TypeOK /\ FreshInv /\ LockInv /\ SlotInv /\ DoneInv /\ CallInv /\ ExitInv
      /\ ShellInv /\ SettledInv
  BY DEF CoreInv
<1>b. /\ ids \in Ids0 /\ 1 .. ids \subseteq Ids
      /\ \A k \in Objs : SlotIds(k)
      /\ \A k \in Callers : CallIds(k)
  BY HandlesInUse
<1> SUFFICES ASSUME NEW d \in Ids PROVE Settles(d)'
  BY DEF SettledInv
<1>d. SUFFICES ASSUME done'[d] = "pending" PROVE HasSettler(d)'
  BY DEF Settles
<1>1. ASSUME NEW c \in Callers, NEW o \in Objs, EnsureJoin(c, o)
      PROVE  HasSettler(d)'
  <2>1. done[d] = "pending"
    BY <1>1, <1>a, <1>d DEF EnsureJoin, Capture, TypeOK
  <2>2. HasSettler(d)
    BY <1>a, <2>1 DEF SettledInv, Settles
  <2>3. ASSUME NEW q \in Objs, SlotSettles(q, d)
        PROVE  SlotSettles(q, d)'
    BY <1>1, <1>a, <1>b, <1>d, <2>1, <2>3
    DEF EnsureJoin, Capture, TypeOK, SlotSettles, InSlot, SlotIds
  <2>4. ASSUME NEW f \in Ids, FiberSettles(f, d)
        PROVE  FiberSettles(f, d)'
    BY <1>1, <1>a, <1>b, <1>d, <2>1, <2>4 DEF EnsureJoin, Capture, TypeOK, FiberSettles
  <2>5. ASSUME NEW k \in Callers, CancelSettles(k, d)
        PROVE  CancelSettles(k, d)'
    BY <1>1, <1>a, <1>b, <1>d, <2>1, <2>5
    DEF EnsureJoin, Capture, TypeOK, CancelSettles, Cancelling, CallIds
  <2> QED BY <2>2, <2>3, <2>4, <2>5 DEF HasSettler
<1>2. ASSUME NEW c \in Callers, NEW o \in Objs, EnsureQueue(c, o)
      PROVE  HasSettler(d)'
  <2>1. CASE d = ids + 1
    <3>1. SlotSettles(o, d)'
      BY <1>2, <1>a, <1>b, <2>1
      DEF EnsureQueue, Capture, ShellThenRun, TypeOK, SlotSettles, ShellInv, ShellOK
    <3> QED BY <3>1, <1>a, <1>b, <2>1, <1>2 DEF HasSettler, EnsureQueue
  <2>2. CASE done[d] = "pending"
    <3>2. HasSettler(d)
      BY <1>a, <2>2 DEF SettledInv, Settles
    <3>3. ASSUME NEW q \in Objs, SlotSettles(q, d)
          PROVE  SlotSettles(q, d)'
      BY <1>2, <1>a, <1>b, <1>d, <2>2, <3>3
      DEF EnsureQueue, Capture, ShellThenRun, TypeOK, SlotSettles, InSlot, SlotIds
    <3>4. ASSUME NEW f \in Ids, FiberSettles(f, d)
          PROVE  FiberSettles(f, d)'
      BY <1>2, <1>a, <1>b, <1>d, <2>2, <3>4
      DEF EnsureQueue, Capture, ShellThenRun, TypeOK, FiberSettles, FreshInv, NoHandle
    <3>5. ASSUME NEW k \in Callers, CancelSettles(k, d)
          PROVE  CancelSettles(k, d)'
      BY <1>2, <1>a, <1>b, <1>d, <2>2, <3>5
      DEF EnsureQueue, Capture, ShellThenRun, TypeOK, CancelSettles, Cancelling, CallIds
    <3> QED BY <3>2, <3>3, <3>4, <3>5 DEF HasSettler
  <2>3. d = ids + 1 \/ done[d] = "pending"
    BY <1>2, <1>a, <1>d DEF EnsureQueue, Capture, ShellThenRun, TypeOK
  <2> QED BY <2>1, <2>2, <2>3
<1>3. ASSUME NEW c \in Callers, NEW o \in Objs, EnsureStart(c, o)
      PROVE  HasSettler(d)'
  <2>1. CASE d = ids + 1
    <3>1. FiberSettles(d, d)'
      BY <1>3, <1>a, <1>b, <2>1
      DEF EnsureStart, StartRun, Capture, Running, TypeOK, FiberSettles
    <3> QED BY <3>1, <1>a, <1>b, <2>1, <1>3 DEF HasSettler, EnsureStart
  <2>2. CASE done[d] = "pending"
    <3>2. HasSettler(d)
      BY <1>a, <2>2 DEF SettledInv, Settles
    <3>3. ASSUME NEW q \in Objs, SlotSettles(q, d)
          PROVE  SlotSettles(q, d)'
      BY <1>3, <1>a, <1>b, <1>d, <2>2, <3>3
      DEF EnsureStart, StartRun, Capture, Running, TypeOK, SlotSettles, InSlot, SlotIds
    <3>4. ASSUME NEW f \in Ids, FiberSettles(f, d)
          PROVE  FiberSettles(f, d)'
      BY <1>3, <1>a, <1>b, <1>d, <2>2, <3>4
      DEF EnsureStart, StartRun, Capture, Running, TypeOK, FiberSettles, FreshInv
    <3>5. ASSUME NEW k \in Callers, CancelSettles(k, d)
          PROVE  CancelSettles(k, d)'
      BY <1>3, <1>a, <1>b, <1>d, <2>2, <3>5
      DEF EnsureStart, StartRun, Capture, Running, TypeOK, CancelSettles, Cancelling,
          CallIds
    <3> QED BY <3>2, <3>3, <3>4, <3>5 DEF HasSettler
  <2>3. d = ids + 1 \/ done[d] = "pending"
    BY <1>3, <1>a, <1>d DEF EnsureStart, StartRun, Capture, Running, TypeOK
  <2> QED BY <2>1, <2>2, <2>3
<1>4. ASSUME NEW c \in Callers, NEW o \in Objs, ShellOnBusy(c, o)
      PROVE  HasSettler(d)'
  <2>1. done[d] = "pending"
    BY <1>4, <1>a, <1>d DEF ShellOnBusy, Capture, TypeOK
  <2>2. HasSettler(d)
    BY <1>a, <2>1 DEF SettledInv, Settles
  <2>3. ASSUME NEW q \in Objs, SlotSettles(q, d)
        PROVE  SlotSettles(q, d)'
    BY <1>4, <1>a, <1>b, <1>d, <2>1, <2>3
    DEF ShellOnBusy, Capture, TypeOK, SlotSettles, InSlot, SlotIds
  <2>4. ASSUME NEW f \in Ids, FiberSettles(f, d)
        PROVE  FiberSettles(f, d)'
    BY <1>4, <1>a, <1>b, <1>d, <2>1, <2>4 DEF ShellOnBusy, Capture, TypeOK, FiberSettles
  <2>5. ASSUME NEW k \in Callers, CancelSettles(k, d)
        PROVE  CancelSettles(k, d)'
    BY <1>4, <1>a, <1>b, <1>d, <2>1, <2>5
    DEF ShellOnBusy, Capture, TypeOK, CancelSettles, Cancelling, CallIds
  <2> QED BY <2>2, <2>3, <2>4, <2>5 DEF HasSettler
<1>5. ASSUME NEW c \in Callers, NEW o \in Objs, CancelBusy(c, o)
      PROVE  HasSettler(d)'
  <2>1. done[d] = "pending"
    BY <1>5, <1>a, <1>d DEF CancelBusy, Capture, TypeOK
  <2>2. HasSettler(d)
    BY <1>a, <2>1 DEF SettledInv, Settles
  <2>3. ASSUME NEW q \in Objs, SlotSettles(q, d)
        PROVE  HasSettler(d)'
    BY <1>5, <1>a, <1>b, <1>d, <2>1, <2>3
    DEF CancelBusy, Capture, TypeOK, SlotSettles, CancelSettles, Cancelling, HasSettler
  <2>4. ASSUME NEW f \in Ids, FiberSettles(f, d)
        PROVE  FiberSettles(f, d)'
    BY <1>5, <1>a, <1>b, <1>d, <2>1, <2>4 DEF CancelBusy, Capture, TypeOK, FiberSettles
  <2>5. ASSUME NEW k \in Callers, CancelSettles(k, d)
        PROVE  CancelSettles(k, d)'
    BY <1>5, <1>a, <1>b, <1>d, <2>1, <2>5
    DEF CancelBusy, Capture, TypeOK, CancelSettles, Cancelling, CallIds
  <2> QED BY <2>2, <2>3, <2>4, <2>5 DEF HasSettler
<1>6. ASSUME NEW c \in Callers, NEW l \in Latches, ShellFork(c, l)
      PROVE  HasSettler(d)'
  <2>1. done[d] = "pending"
    BY <1>6, <1>a, <1>d DEF ShellFork, Capture, Shell, TypeOK
  <2>2. HasSettler(d)
    BY <1>a, <2>1 DEF SettledInv, Settles
  <2>3. ASSUME NEW q \in Objs, SlotSettles(q, d)
        PROVE  SlotSettles(q, d)'
    BY <1>6, <1>a, <1>b, <1>d, <2>1, <2>3
    DEF ShellFork, Capture, Shell, TypeOK, SlotSettles, InSlot, SlotIds, SlotInv, SlotOK,
        ShellHandle, RunHandle, LockInv, Idle
  <2>4. ASSUME NEW f \in Ids, FiberSettles(f, d)
        PROVE  FiberSettles(f, d)'
    BY <1>6, <1>a, <1>b, <1>d, <2>1, <2>4
    DEF ShellFork, Capture, Shell, TypeOK, FiberSettles, FreshInv
  <2>5. ASSUME NEW k \in Callers, CancelSettles(k, d)
        PROVE  CancelSettles(k, d)'
    BY <1>6, <1>a, <1>b, <1>d, <2>1, <2>5
    DEF ShellFork, Capture, Shell, TypeOK, CancelSettles, Cancelling, CallIds
  <2> QED BY <2>2, <2>3, <2>4, <2>5 DEF HasSettler
<1>7. ASSUME NEW c \in Callers, Quits(c)
      PROVE  HasSettler(d)'
  <2>1. done[d] = "pending"
    BY <1>7, <1>a, <1>d DEF Quits, Leaves, NoCall, TypeOK
  <2>2. HasSettler(d)
    BY <1>a, <2>1 DEF SettledInv, Settles
  <2>3. ASSUME NEW q \in Objs, SlotSettles(q, d)
        PROVE  SlotSettles(q, d)'
    BY <1>7, <1>a, <1>b, <1>d, <2>1, <2>3
    DEF Quits, Leaves, NoCall, TypeOK, SlotSettles, InSlot, SlotIds
  <2>4. ASSUME NEW f \in Ids, FiberSettles(f, d)
        PROVE  FiberSettles(f, d)'
    BY <1>7, <1>a, <1>b, <1>d, <2>1, <2>4 DEF Quits, Leaves, NoCall, TypeOK, FiberSettles
  <2>5. ASSUME NEW k \in Callers, CancelSettles(k, d)
        PROVE  CancelSettles(k, d)'
    BY <1>7, <1>a, <1>b, <1>d, <2>1, <2>5
    DEF Quits, Leaves, NoCall, TypeOK, CancelSettles, Cancelling, CallIds
  <2> QED BY <2>2, <2>3, <2>4, <2>5 DEF HasSettler
<1>8. ASSUME NEW c \in Callers, CancelInterruptRun(c)
      PROVE  HasSettler(d)'
  <2>1. done[d] = "pending"
    BY <1>8, <1>a, <1>d DEF CancelInterruptRun, InterruptFiber, TypeOK
  <2>2. HasSettler(d)
    BY <1>a, <2>1 DEF SettledInv, Settles
  <2>3. ASSUME NEW q \in Objs, SlotSettles(q, d)
        PROVE  SlotSettles(q, d)'
    <3>1. handle[call[c].st.run].kind = "run"
      BY <1>8, <1>a DEF CancelInterruptRun, CallInv, CallOK, Cancelling, RunHandle
    <3>2. SlotOK(q) /\ SlotIds(q)
      BY <1>a, <1>b DEF SlotInv
    <3>3. st[q].tag = "ShellThenRun" => fiber'[st[q].shell] = fiber[st[q].shell]
      BY <1>8, <1>a, <1>b, <3>1, <3>2
      DEF CancelInterruptRun, InterruptFiber, TypeOK, SlotOK, ShellHandle, SlotIds
    <3> QED BY <1>8, <2>3, <3>3 DEF CancelInterruptRun, SlotSettles
  <2>4. ASSUME NEW f \in Ids, FiberSettles(f, d)
        PROVE  HasSettler(d)'
    <3>1. CASE f = call[c].st.run
      <4>1. CancelSettles(c, d)'
        BY <1>8, <1>a, <2>4, <3>1
        DEF CancelInterruptRun, TypeOK, CallInv, CallOK, RunHandle, FiberSettles,
            CancelSettles, Cancelling
      <4> QED BY <4>1 DEF HasSettler
    <3>2. CASE f # call[c].st.run
      BY <1>8, <1>a, <2>4, <3>2
      DEF CancelInterruptRun, InterruptFiber, TypeOK, FiberSettles, HasSettler
    <3> QED BY <3>1, <3>2
  <2>5. ASSUME NEW k \in Callers, CancelSettles(k, d)
        PROVE  CancelSettles(k, d)'
    BY <1>8, <1>a, <1>b, <1>d, <2>1, <2>5
    DEF CancelInterruptRun, InterruptFiber, TypeOK, CancelSettles, Cancelling, CallIds
  <2> QED BY <2>2, <2>3, <2>4, <2>5 DEF HasSettler
<1>9. ASSUME NEW c \in Callers, CancelStopShell(c)
      PROVE  HasSettler(d)'
  <2>1. done[d] = "pending"
    BY <1>9, <1>a, <1>d DEF CancelStopShell, InterruptFiber, TypeOK
  <2>2. HasSettler(d)
    BY <1>a, <2>1 DEF SettledInv, Settles
  <2>3. ASSUME NEW q \in Objs, SlotSettles(q, d)
        PROVE  SlotSettles(q, d)'
    BY <1>9, <1>a, <1>b, <1>d, <2>1, <2>3
    DEF CancelStopShell, InterruptFiber, TypeOK, SlotSettles, InSlot, SlotIds, CallInv,
        CallOK, Cancelling, CallIds
  <2>4. ASSUME NEW f \in Ids, FiberSettles(f, d)
        PROVE  FiberSettles(f, d)'
    BY <1>9, <1>a, <1>b, <1>d, <2>1, <2>4
    DEF CancelStopShell, InterruptFiber, TypeOK, FiberSettles, CallInv, CallOK,
        Cancelling, CallIds
  <2>5. ASSUME NEW k \in Callers, CancelSettles(k, d)
        PROVE  CancelSettles(k, d)'
    BY <1>9, <1>a, <1>b, <1>d, <2>1, <2>5
    DEF CancelStopShell, InterruptFiber, TypeOK, CancelSettles, Cancelling, CallIds
  <2> QED BY <2>2, <2>3, <2>4, <2>5 DEF HasSettler
<1>10. ASSUME NEW c \in Callers, CancelFailDone(c)
       PROVE  HasSettler(d)'
  <2>1. done[d] = "pending"
    BY <1>10, <1>a, <1>d DEF CancelFailDone, FailCancelled, TypeOK
  <2>2. HasSettler(d)
    BY <1>a, <2>1 DEF SettledInv, Settles
  <2>3. ASSUME NEW q \in Objs, SlotSettles(q, d)
        PROVE  SlotSettles(q, d)'
    BY <1>10, <1>a, <1>b, <1>d, <2>1, <2>3
    DEF CancelFailDone, FailCancelled, TypeOK, SlotSettles, InSlot, SlotIds
  <2>4. ASSUME NEW f \in Ids, FiberSettles(f, d)
        PROVE  FiberSettles(f, d)'
    BY <1>10, <1>a, <1>b, <1>d, <2>1, <2>4
    DEF CancelFailDone, FailCancelled, TypeOK, FiberSettles
  <2>5. ASSUME NEW k \in Callers, CancelSettles(k, d)
        PROVE  CancelSettles(k, d)'
    BY <1>10, <1>a, <1>b, <1>d, <2>1, <2>5
    DEF CancelFailDone, FailCancelled, TypeOK, CancelSettles, Cancelling, CallIds
  <2> QED BY <2>2, <2>3, <2>4, <2>5 DEF HasSettler
<1>11. ASSUME NEW c \in Callers, AbortOnBusy(c)
       PROVE  HasSettler(d)'
  <2>1. done[d] = "pending"
    BY <1>11, <1>a, <1>d DEF AbortOnBusy, Return, NoCall, TypeOK
  <2>2. HasSettler(d)
    BY <1>a, <2>1 DEF SettledInv, Settles
  <2>3. ASSUME NEW q \in Objs, SlotSettles(q, d)
        PROVE  SlotSettles(q, d)'
    BY <1>11, <1>a, <1>b, <1>d, <2>1, <2>3
    DEF AbortOnBusy, Return, NoCall, TypeOK, SlotSettles, InSlot, SlotIds
  <2>4. ASSUME NEW f \in Ids, FiberSettles(f, d)
        PROVE  FiberSettles(f, d)'
    BY <1>11, <1>a, <1>b, <1>d, <2>1, <2>4
    DEF AbortOnBusy, Return, NoCall, TypeOK, FiberSettles
  <2>5. ASSUME NEW k \in Callers, CancelSettles(k, d)
        PROVE  CancelSettles(k, d)'
    BY <1>11, <1>a, <1>b, <1>d, <2>1, <2>5
    DEF AbortOnBusy, Return, NoCall, TypeOK, CancelSettles, Cancelling, CallIds
  <2> QED BY <2>2, <2>3, <2>4, <2>5 DEF HasSettler
<1>12. ASSUME NEW c \in Callers, AbortShell(c)
       PROVE  HasSettler(d)'
  <2>1. done[d] = "pending"
    BY <1>12, <1>a, <1>d DEF AbortShell, InterruptFiber, Return, NoCall, TypeOK
  <2>2. HasSettler(d)
    BY <1>a, <2>1 DEF SettledInv, Settles
  <2>3. ASSUME NEW q \in Objs, SlotSettles(q, d)
        PROVE  SlotSettles(q, d)'
    BY <1>12, <1>a, <1>b, <1>d, <2>1, <2>3
    DEF AbortShell, InterruptFiber, Return, NoCall, TypeOK, SlotSettles, InSlot, SlotIds
  <2>4. ASSUME NEW f \in Ids, FiberSettles(f, d)
        PROVE  FiberSettles(f, d)'
    BY <1>12, <1>a, <1>b, <1>d, <2>1, <2>4
    DEF AbortShell, InterruptFiber, Return, NoCall, TypeOK, FiberSettles
  <2>5. ASSUME NEW k \in Callers, CancelSettles(k, d)
        PROVE  CancelSettles(k, d)'
    BY <1>12, <1>a, <1>b, <1>d, <2>1, <2>5
    DEF AbortShell, InterruptFiber, Return, NoCall, TypeOK, CancelSettles, Cancelling,
        CallIds
  <2> QED BY <2>2, <2>3, <2>4, <2>5 DEF HasSettler
<1>13. ASSUME NEW i \in Ids, FiberStart(i)
       PROVE  HasSettler(d)'
  <2>1. done[d] = "pending"
    BY <1>13, <1>a, <1>d DEF FiberStart, TypeOK
  <2>2. HasSettler(d)
    BY <1>a, <2>1 DEF SettledInv, Settles
  <2>3. ASSUME NEW q \in Objs, SlotSettles(q, d)
        PROVE  SlotSettles(q, d)'
    BY <1>13, <1>a, <1>b, <1>d, <2>1, <2>3
    DEF FiberStart, TypeOK, SlotSettles, InSlot, SlotIds
  <2>4. ASSUME NEW f \in Ids, FiberSettles(f, d)
        PROVE  FiberSettles(f, d)'
    BY <1>13, <1>a, <1>b, <1>d, <2>1, <2>4 DEF FiberStart, TypeOK, FiberSettles
  <2>5. ASSUME NEW k \in Callers, CancelSettles(k, d)
        PROVE  CancelSettles(k, d)'
    BY <1>13, <1>a, <1>b, <1>d, <2>1, <2>5
    DEF FiberStart, TypeOK, CancelSettles, Cancelling, CallIds
  <2> QED BY <2>2, <2>3, <2>4, <2>5 DEF HasSettler
<1>14. ASSUME NEW i \in Ids, FinishRunCurrent(i)
       PROVE  HasSettler(d)'
  <2>1. done[d] = "pending"
    BY <1>14, <1>a, <1>d DEF FinishRunCurrent, IsCurrentRun, TypeOK
  <2>2. HasSettler(d)
    BY <1>a, <2>1 DEF SettledInv, Settles
  <2>3. ASSUME NEW q \in Objs, SlotSettles(q, d)
        PROVE  SlotSettles(q, d)'
    BY <1>14, <1>a, <1>b, <1>d, <2>1, <2>3
    DEF FinishRunCurrent, IsCurrentRun, TypeOK, SlotSettles, InSlot, SlotIds, SlotInv,
        SlotOK, ShellHandle, RunHandle, ExitInv
  <2>4. ASSUME NEW f \in Ids, FiberSettles(f, d)
        PROVE  FiberSettles(f, d)'
    BY <1>14, <1>a, <1>b, <1>d, <2>1, <2>4
    DEF FinishRunCurrent, IsCurrentRun, TypeOK, FiberSettles
  <2>5. ASSUME NEW k \in Callers, CancelSettles(k, d)
        PROVE  CancelSettles(k, d)'
    BY <1>14, <1>a, <1>b, <1>d, <2>1, <2>5
    DEF FinishRunCurrent, IsCurrentRun, TypeOK, CancelSettles, Cancelling, CallIds
  <2> QED BY <2>2, <2>3, <2>4, <2>5 DEF HasSettler
<1>15. ASSUME NEW i \in Ids, FinishRunStale(i)
       PROVE  HasSettler(d)'
  <2>1. done[d] = "pending"
    BY <1>15, <1>a, <1>d DEF FinishRunStale, IsCurrentRun, TypeOK
  <2>2. HasSettler(d)
    BY <1>a, <2>1 DEF SettledInv, Settles
  <2>3. ASSUME NEW q \in Objs, SlotSettles(q, d)
        PROVE  SlotSettles(q, d)'
    BY <1>15, <1>a, <1>b, <1>d, <2>1, <2>3
    DEF FinishRunStale, IsCurrentRun, TypeOK, SlotSettles, InSlot, SlotIds, SlotInv,
        SlotOK, ShellHandle, RunHandle, ExitInv
  <2>4. ASSUME NEW f \in Ids, FiberSettles(f, d)
        PROVE  FiberSettles(f, d)'
    BY <1>15, <1>a, <1>b, <1>d, <2>1, <2>4
    DEF FinishRunStale, IsCurrentRun, TypeOK, FiberSettles
  <2>5. ASSUME NEW k \in Callers, CancelSettles(k, d)
        PROVE  CancelSettles(k, d)'
    BY <1>15, <1>a, <1>b, <1>d, <2>1, <2>5
    DEF FinishRunStale, IsCurrentRun, TypeOK, CancelSettles, Cancelling, CallIds
  <2> QED BY <2>2, <2>3, <2>4, <2>5 DEF HasSettler
<1>16. ASSUME NEW i \in Ids, FinishRunComplete(i)
       PROVE  HasSettler(d)'
  <2>1. done[d] = "pending"
    BY <1>16, <1>a, <1>d DEF FinishRunComplete, Complete, TypeOK
  <2>2. HasSettler(d)
    BY <1>a, <2>1 DEF SettledInv, Settles
  <2>3. ASSUME NEW q \in Objs, SlotSettles(q, d)
        PROVE  SlotSettles(q, d)'
    BY <1>16, <1>a, <1>b, <1>d, <2>1, <2>3
    DEF FinishRunComplete, Complete, TypeOK, SlotSettles, InSlot, SlotIds
  <2>4. ASSUME NEW f \in Ids, FiberSettles(f, d)
        PROVE  FiberSettles(f, d)'
    BY <1>16, <1>a, <1>b, <1>d, <2>1, <2>4
    DEF FinishRunComplete, Complete, TypeOK, FiberSettles
  <2>5. ASSUME NEW k \in Callers, CancelSettles(k, d)
        PROVE  CancelSettles(k, d)'
    BY <1>16, <1>a, <1>b, <1>d, <2>1, <2>5
    DEF FinishRunComplete, Complete, TypeOK, CancelSettles, Cancelling, CallIds
  <2> QED BY <2>2, <2>3, <2>4, <2>5 DEF HasSettler
<1>17. ASSUME NEW i \in Ids, OnIdleReturn(i)
       PROVE  HasSettler(d)'
  <2>1. done[d] = "pending"
    BY <1>17, <1>a, <1>d DEF OnIdleReturn, TypeOK
  <2>2. HasSettler(d)
    BY <1>a, <2>1 DEF SettledInv, Settles
  <2>3. ASSUME NEW q \in Objs, SlotSettles(q, d)
        PROVE  SlotSettles(q, d)'
    BY <1>17, <1>a, <1>b, <1>d, <2>1, <2>3
    DEF OnIdleReturn, TypeOK, SlotSettles, InSlot, SlotIds
  <2>4. ASSUME NEW f \in Ids, FiberSettles(f, d)
        PROVE  FiberSettles(f, d)'
    BY <1>17, <1>a, <1>b, <1>d, <2>1, <2>4 DEF OnIdleReturn, TypeOK, FiberSettles
  <2>5. ASSUME NEW k \in Callers, CancelSettles(k, d)
        PROVE  CancelSettles(k, d)'
    BY <1>17, <1>a, <1>b, <1>d, <2>1, <2>5
    DEF OnIdleReturn, TypeOK, CancelSettles, Cancelling, CallIds
  <2> QED BY <2>2, <2>3, <2>4, <2>5 DEF HasSettler
<1>18. ASSUME NEW i \in Ids, FinishShellIdle(i)
       PROVE  HasSettler(d)'
  <2>1. done[d] = "pending"
    BY <1>18, <1>a, <1>d DEF FinishShellIdle, HoldsShell, TypeOK
  <2>2. HasSettler(d)
    BY <1>a, <2>1 DEF SettledInv, Settles
  <2>3. ASSUME NEW q \in Objs, SlotSettles(q, d)
        PROVE  SlotSettles(q, d)'
    BY <1>18, <1>a, <1>b, <1>d, <2>1, <2>3
    DEF FinishShellIdle, HoldsShell, TypeOK, SlotSettles, InSlot, SlotIds, SlotInv,
        SlotOK, ShellHandle, RunHandle, ExitInv
  <2>4. ASSUME NEW f \in Ids, FiberSettles(f, d)
        PROVE  FiberSettles(f, d)'
    BY <1>18, <1>a, <1>b, <1>d, <2>1, <2>4
    DEF FinishShellIdle, HoldsShell, TypeOK, FiberSettles
  <2>5. ASSUME NEW k \in Callers, CancelSettles(k, d)
        PROVE  CancelSettles(k, d)'
    BY <1>18, <1>a, <1>b, <1>d, <2>1, <2>5
    DEF FinishShellIdle, HoldsShell, TypeOK, CancelSettles, Cancelling, CallIds
  <2> QED BY <2>2, <2>3, <2>4, <2>5 DEF HasSettler
<1>19. ASSUME NEW i \in Ids, FinishShellHandOff(i)
       PROVE  HasSettler(d)'
  <2>1. done[d] = "pending"
    BY <1>19, <1>a, <1>d DEF FinishShellHandOff, HoldsShell, Running, TypeOK
  <2>2. HasSettler(d)
    BY <1>a, <2>1 DEF SettledInv, Settles
  <2>3. ASSUME NEW q \in Objs, SlotSettles(q, d)
        PROVE  HasSettler(d)'
    <3> DEFINE o == handle[i].obj
    <3>0. PICK n \in Ids : n = ids + 1
      BY <1>19, <1>b DEF FinishShellHandOff
    <3>1. o \in Objs /\ st[o].shell = i /\ n # i
      BY <1>19, <1>a, <1>b, <3>0
      DEF FinishShellHandOff, HoldsShell, ExitInv, FreshInv, TypeOK
    <3>2. CASE q = o
      <4>1. FiberSettles(n, d)'
        BY <1>19, <1>a, <2>3, <3>0, <3>1, <3>2
        DEF FinishShellHandOff, SlotSettles, FiberSettles, TypeOK
      <4> QED BY <3>1, <4>1 DEF HasSettler
    <3>3. CASE q # o
      <4>1. SlotOK(q) /\ SlotIds(q)
        BY <1>a, <1>b DEF SlotInv
      <4>2. st[q].shell # i /\ st[q].shell # n /\ st[q].shell \in Ids
        BY <1>b, <2>3, <3>0, <3>3, <4>1 DEF SlotOK, SlotIds, ShellHandle, SlotSettles
      <4>3. st'[q] = st[q] /\ fiber'[st[q].shell] = fiber[st[q].shell]
        BY <1>19, <1>a, <3>0, <3>1, <3>3, <4>2 DEF FinishShellHandOff, TypeOK
      <4> QED BY <2>3, <4>3 DEF SlotSettles, HasSettler
    <3> QED BY <3>2, <3>3
  <2>4. ASSUME NEW f \in Ids, FiberSettles(f, d)
        PROVE  FiberSettles(f, d)'
    BY <1>19, <1>a, <1>b, <1>d, <2>1, <2>4
    DEF FinishShellHandOff, HoldsShell, Running, TypeOK, FiberSettles, FreshInv
  <2>5. ASSUME NEW k \in Callers, CancelSettles(k, d)
        PROVE  CancelSettles(k, d)'
    BY <1>19, <1>a, <1>b, <1>d, <2>1, <2>5
    DEF FinishShellHandOff, HoldsShell, Running, TypeOK, CancelSettles, Cancelling,
        CallIds
  <2> QED BY <2>2, <2>3, <2>4, <2>5 DEF HasSettler
<1>20. ASSUME NEW i \in Ids, FinishShellStale(i)
       PROVE  HasSettler(d)'
  <2>1. done[d] = "pending"
    BY <1>20, <1>a, <1>d DEF FinishShellStale, HoldsShell, TypeOK
  <2>2. HasSettler(d)
    BY <1>a, <2>1 DEF SettledInv, Settles
  <2>3. ASSUME NEW q \in Objs, SlotSettles(q, d)
        PROVE  SlotSettles(q, d)'
    BY <1>20, <1>a, <1>b, <1>d, <2>1, <2>3
    DEF FinishShellStale, HoldsShell, TypeOK, SlotSettles, InSlot, SlotIds, SlotInv,
        SlotOK, ShellHandle, RunHandle, ExitInv
  <2>4. ASSUME NEW f \in Ids, FiberSettles(f, d)
        PROVE  FiberSettles(f, d)'
    BY <1>20, <1>a, <1>b, <1>d, <2>1, <2>4
    DEF FinishShellStale, HoldsShell, TypeOK, FiberSettles
  <2>5. ASSUME NEW k \in Callers, CancelSettles(k, d)
        PROVE  CancelSettles(k, d)'
    BY <1>20, <1>a, <1>b, <1>d, <2>1, <2>5
    DEF FinishShellStale, HoldsShell, TypeOK, CancelSettles, Cancelling, CallIds
  <2> QED BY <2>2, <2>3, <2>4, <2>5 DEF HasSettler
<1>21. ASSUME NEW i \in Ids, NEW e \in Outcomes, WorkExit(i, e)
       PROVE  HasSettler(d)'
  <2>1. done[d] = "pending"
    BY <1>21, <1>a, <1>d DEF WorkExit, TypeOK
  <2>2. HasSettler(d)
    BY <1>a, <2>1 DEF SettledInv, Settles
  <2>3. ASSUME NEW q \in Objs, SlotSettles(q, d)
        PROVE  SlotSettles(q, d)'
    BY <1>21, <1>a, <1>b, <1>d, <2>1, <2>3
    DEF WorkExit, TypeOK, SlotSettles, InSlot, SlotIds
  <2>4. ASSUME NEW f \in Ids, FiberSettles(f, d)
        PROVE  FiberSettles(f, d)'
    BY <1>21, <1>a, <1>b, <1>d, <2>1, <2>4 DEF WorkExit, TypeOK, FiberSettles
  <2>5. ASSUME NEW k \in Callers, CancelSettles(k, d)
        PROVE  CancelSettles(k, d)'
    BY <1>21, <1>a, <1>b, <1>d, <2>1, <2>5
    DEF WorkExit, TypeOK, CancelSettles, Cancelling, CallIds
  <2> QED BY <2>2, <2>3, <2>4, <2>5 DEF HasSettler
<1>22. ASSUME UNCHANGED <<done, st, fiber, handle, pc, call>>
       PROVE  HasSettler(d)'
  BY <1>22, <1>a, <1>d
  DEF SettledInv, Settles, HasSettler, SlotSettles, FiberSettles, CancelSettles
<1>23. ASSUME UNCHANGED vars \/ Quiet
       PROVE  UNCHANGED <<done, st, fiber, handle, pc, call>>
  BY <1>23
  DEF vars, ShellReady
<1> QED
  BY <1>1, <1>2, <1>3, <1>4, <1>5, <1>6, <1>7, <1>8, <1>9, <1>10, <1>11, <1>12,
     <1>13, <1>14, <1>15, <1>16, <1>17, <1>18, <1>19, <1>20, <1>21, <1>22, <1>23,
     <1>a, LeavingSteps
  DEF Next, EnsureRunning, Cancel, CallerStep, CallerAbort, FiberStep, FinishStep, FiberExit

(* The first state, and every step.                                          *)
LEMMA RunnerInit == Init => RunnerInv
<1> SUFFICES ASSUME Init PROVE RunnerInv
  OBVIOUS
<1> USE RunnerAssumption DEF Init
<1>1. TypeOK
  BY StateTypes DEF TypeOK, FiberStates, Exits, DoneStates, Pcs, NoCall
<1>2. FreshInv
  BY DEF FreshInv, WellFormed, NoCall
<1>3. LockInv /\ SlotInv
  BY DEF LockInv, SlotInv, SlotOK, Idle
<1>4. DoneInv
  BY DEF DoneInv, OneFiberPerDone, OneSlotPerDone, QueuedHasNoFiber, NoHandle, Idle
<1>5. CallInv
  BY DEF CallInv, CallOK, Cancelling
<1>6. ExitInv
  BY DEF ExitInv, NoHandle
<1>7. ShellInv /\ OwnedInv /\ SettledInv
  BY DEF ShellInv, ShellOK, Idle, OwnedInv, Owned, Uncancelled, Working, SettledInv, Settles
<1> QED BY <1>1, <1>2, <1>3, <1>4, <1>5, <1>6, <1>7 DEF RunnerInv, CoreInv

LEMMA CoreInvStep ==
  ASSUME CoreInv, [Next]_vars
  PROVE  CoreInv'
<1>1. TypeOK' /\ FreshInv' /\ LockInv'
  BY TypeStep, FreshStep, LockStep
<1>2. SlotInv' /\ DoneInv' /\ CallInv' /\ ExitInv'
  BY SlotStep, DoneStep, CallStep, ExitStep
<1> QED BY <1>1, <1>2 DEF CoreInv

LEMMA RunnerInvStep ==
  ASSUME ~AbortCancel, ~InterruptBeforeStart, RunnerInv, [Next]_vars
  PROVE  RunnerInv'
<1>1. CoreInv /\ ShellInv /\ OwnedInv /\ SettledInv
  BY DEF RunnerInv
<1>2. CoreInv' /\ ShellInv' /\ OwnedInv' /\ SettledInv'
  BY <1>1, CoreInvStep, ShellStep, OwnedStep, SettledStep
<1> QED BY <1>2 DEF RunnerInv

(***************************************************************************)
(* CoreInv holds in every reachable state, whoever calls the runner and    *)
(* however calls, exit handlers and interruptions interleave.              *)
(***************************************************************************)
THEOREM CoreInvariant == Spec => []CoreInv
<1>1. Init => CoreInv
  BY RunnerInit DEF RunnerInv
<1>2. CoreInv /\ [Next]_vars => CoreInv'
  BY CoreInvStep
<1> QED BY <1>1, <1>2, PTL DEF Spec

(***************************************************************************)
(* All of RunnerInv holds provided that nobody interrupts a fiber that     *)
(* executes cancel and that a shell gets its first step before its caller  *)
(* can be interrupted.                                                     *)
(***************************************************************************)
THEOREM RunnerInvariant ==
  ASSUME ~AbortCancel, ~InterruptBeforeStart
  PROVE  Spec => []RunnerInv
<1>1. Init => RunnerInv
  BY RunnerInit
<1>2. RunnerInv /\ [Next]_vars => RunnerInv'
  BY RunnerInvStep
<1> QED BY <1>1, <1>2, PTL DEF Spec

(* The state of a runner keeps its shape (the State union of runner.ts). *)
THEOREM TypeCorrect == Spec => []TypeOK
<1>1. CoreInv => TypeOK
  BY DEF CoreInv
<1> QED BY <1>1, CoreInvariant, PTL

(* Two pieces of work that nobody has cancelled are the same one: both are   *)
(* what the slot of their runner holds, and a slot holds one fiber.  Only an *)
(* interrupted canceller leaves work behind that is in no slot.              *)
THEOREM Exclusive ==
  ASSUME ~AbortCancel
  PROVE  Spec => []ExclusiveWork
<1> DEFINE Inv == CoreInv /\ OwnedInv
<1>1. Init => Inv
  BY RunnerInit DEF RunnerInv
<1>2. Inv /\ [Next]_vars => Inv'
  BY CoreInvStep, OwnedStep
<1>3. Inv => ExclusiveWork
  <2> SUFFICES ASSUME Inv, NEW i \in Ids, NEW j \in Ids, Uncancelled(i),
                      Uncancelled(j), handle[i].obj = handle[j].obj
               PROVE  i = j
    BY DEF ExclusiveWork
  <2>1. (IsCurrentRun(i) \/ HoldsShell(i)) /\ (IsCurrentRun(j) \/ HoldsShell(j))
    BY DEF OwnedInv, Owned
  <2> QED BY <2>1 DEF IsCurrentRun, HoldsShell
<1> HIDE DEF Inv
<1> QED BY <1>1, <1>2, <1>3, PTL DEF Spec

(* No ensureRunning caller waits for a Deferred that nobody will complete. *)
THEOREM NobodyForgotten ==
  ASSUME ~AbortCancel, ~InterruptBeforeStart
  PROVE  Spec => []NoLostCaller
<1>1. RunnerInv => NoLostCaller
  <2> SUFFICES ASSUME RunnerInv, NEW c \in Callers, pc[c] = "awaitDone",
                      done[call[c].st.done] = "pending"
               PROVE  HasSettler(call[c].st.done)
    BY DEF NoLostCaller
  <2>1. call[c].st.done \in Ids
    BY HandlesInUse DEF RunnerInv, CallIds
  <2> QED BY <2>1 DEF RunnerInv, SettledInv, Settles
<1> QED BY <1>1, RunnerInvariant, PTL

(* A busy runner has a fiber whose exit handler will free it, also when a    *)
(* canceller is interrupted.                                                 *)
THEOREM BusyIsHeld ==
  ASSUME ~InterruptBeforeStart
  PROVE  Spec => []BusyHasFiber
<1> DEFINE Inv == CoreInv /\ ShellInv
<1>1. Init => Inv
  BY RunnerInit DEF RunnerInv
<1>2. Inv /\ [Next]_vars => Inv'
  BY CoreInvStep, ShellStep
<1>3. Inv => BusyHasFiber
  BY DEF CoreInv, SlotInv, SlotOK, ShellInv, ShellOK, BusyHasFiber
<1> HIDE DEF Inv
<1> QED BY <1>1, <1>2, <1>3, PTL DEF Spec

(* Nobody is told that work was interrupted when it was not. *)
THEOREM FallbackJustified ==
  Spec => []FallbackOnlyIfInterrupted
<1>1. CoreInv => FallbackOnlyIfInterrupted
  <2> SUFFICES ASSUME CoreInv, NEW c \in Callers
               PROVE  /\ pc[c] = "awaitDone" /\ DoneResult(call[c].st.done) = "onInterrupt"
                           => \A i \in Ids :
                                handle[i].kind = "run" /\ handle[i].done = call[c].st.done
                                  => i \in intr
                      /\ pc[c] = "awaitShell" /\ fiber[call[c].st.shell] = "dead"
                           /\ ShellResult(call[c].st.shell) = "onInterrupt"
                           => call[c].st.shell \in intr
    BY DEF FallbackOnlyIfInterrupted
  <2>1. CallIds(c) /\ 1 .. ids \subseteq Ids
    BY HandlesInUse
  <2>2. ExitInv
    BY DEF CoreInv
  <2>3. ASSUME pc[c] = "awaitDone", DoneResult(call[c].st.done) = "onInterrupt",
               NEW i \in Ids, handle[i].kind = "run", handle[i].done = call[c].st.done
        PROVE  i \in intr
    <3>1. done[call[c].st.done] = "cancelled" /\ call[c].st.done \in Ids
      BY <2>1, <2>3 DEF DoneResult, CallIds
    <3> QED BY <2>2, <2>3, <3>1 DEF ExitInv
  <2>4. ASSUME pc[c] = "awaitShell", fiber[call[c].st.shell] = "dead",
               ShellResult(call[c].st.shell) = "onInterrupt"
        PROVE  call[c].st.shell \in intr
    <3>1. exit[call[c].st.shell] \in {"none", "interrupt", "mixed"} /\ call[c].st.shell \in Ids
      BY <2>1, <2>4 DEF ShellResult, CallIds
    <3> QED BY <2>2, <2>4, <3>1 DEF ExitInv
  <2> QED BY <2>3, <2>4
<1> QED BY <1>1, CoreInvariant, PTL

-----------------------------------------------------------------------------
(* The runner implements RunSlot.                                            *)

SlotTags  == [o \in Objs |-> st[o].tag]
SlotDones == [o \in Objs |-> st[o].done]

(* A step that writes one state of one runner is, for RunSlot, a step that   *)
(* writes its tag and its promise.                                           *)
LEMMA SlotWritten ==
  ASSUME TypeOK, NEW o \in Objs, NEW s \in States, st' = [st EXCEPT ![o] = s]
  PROVE  /\ SlotTags' = [SlotTags EXCEPT ![o] = s.tag]
         /\ SlotDones' = [SlotDones EXCEPT ![o] = s.done]
         /\ SlotTags[o] = st[o].tag /\ SlotDones[o] = st[o].done
<1>1. st'[o] = s /\ \A q \in Objs \ {o} : st'[q] = st[q]
  BY DEF TypeOK
<1>2. SlotTags' = [q \in Objs |-> IF q = o THEN s.tag ELSE st[q].tag]
  BY <1>1 DEF SlotTags
<1>3. SlotDones' = [q \in Objs |-> IF q = o THEN s.done ELSE st[q].done]
  BY <1>1 DEF SlotDones
<1>4. [SlotTags EXCEPT ![o] = s.tag] = [q \in Objs |-> IF q = o THEN s.tag ELSE st[q].tag]
  BY DEF SlotTags
<1>5. [SlotDones EXCEPT ![o] = s.done] = [q \in Objs |-> IF q = o THEN s.done ELSE st[q].done]
  BY DEF SlotDones
<1>6. SlotTags[o] = st[o].tag /\ SlotDones[o] = st[o].done
  BY DEF SlotTags, SlotDones
<1> QED BY <1>2, <1>3, <1>4, <1>5, <1>6, Zenon

(* An ensureRunning that starts a run or queues one is accepted.             *)
LEMMA AcceptStep ==
  ASSUME CoreInv, NEW c \in Callers, NEW o \in Objs,
         EnsureQueue(c, o) \/ EnsureStart(c, o)
  PROVE  \E p \in 1 .. MaxId : Slot!Accept(o, p)
<1> DEFINE p == ids + 1
<1>1. TypeOK /\ FreshInv
  BY DEF CoreInv
<1>2. p \in 1 .. MaxId /\ done[p] = "none"
  BY <1>1, RunnerAssumption DEF EnsureQueue, EnsureStart, TypeOK, FreshInv
<1>3. st[o] \in States /\ st[o].shell \in Ids0
  BY <1>1, StateFields DEF TypeOK
<1>4. Running(p, p) \in States /\ ShellThenRun(st[o].shell, p) \in States
  BY <1>2, <1>3, StateTypes
<1>5. CASE EnsureStart(c, o)
  <2>1. st' = [st EXCEPT ![o] = Running(p, p)] /\ done' = [done EXCEPT ![p] = "pending"]
    BY <1>5 DEF EnsureStart
  <2>2. Running(p, p).tag = "Running" /\ Running(p, p).done = p /\ st[o].tag = "Idle"
    BY <1>5 DEF Running, EnsureStart
  <2> HIDE DEF p
  <2>3. /\ SlotTags' = [SlotTags EXCEPT ![o] = "Running"]
        /\ SlotDones' = [SlotDones EXCEPT ![o] = p]
        /\ SlotTags[o] = "Idle"
    BY <1>1, <1>4, <2>1, <2>2, SlotWritten
  <2>4. SlotTags' = [SlotTags EXCEPT ![o] = IF @ = "Idle" THEN "Running" ELSE "ShellThenRun"]
    BY <2>3
  <2> QED BY <1>2, <2>1, <2>3, <2>4 DEF Slot!Accept, SlotTags, SlotDones
<1>6. CASE EnsureQueue(c, o)
  <2> DEFINE q == ShellThenRun(st[o].shell, p)
  <2>1. st' = [st EXCEPT ![o] = q] /\ done' = [done EXCEPT ![p] = "pending"]
    BY <1>6 DEF EnsureQueue
  <2>2. q.tag = "ShellThenRun" /\ q.done = p /\ st[o].tag = "Shell"
    BY <1>6 DEF ShellThenRun, EnsureQueue
  <2> HIDE DEF p, q
  <2>3. /\ SlotTags' = [SlotTags EXCEPT ![o] = "ShellThenRun"]
        /\ SlotDones' = [SlotDones EXCEPT ![o] = p]
        /\ SlotTags[o] = "Shell"
    BY <1>1, <1>4, <2>1, <2>2, SlotWritten DEF q
  <2>4. SlotTags' = [SlotTags EXCEPT ![o] = IF @ = "Idle" THEN "Running" ELSE "ShellThenRun"]
    BY <2>3
  <2> QED BY <1>2, <2>1, <2>3, <2>4 DEF Slot!Accept, SlotTags, SlotDones
<1> QED BY <1>5, <1>6

(* The fork of a shell takes the idle slot.                                  *)
LEMMA StartShellStep ==
  ASSUME CoreInv, NEW c \in Callers, NEW l \in Latches, ShellFork(c, l)
  PROVE  \E o \in Objs : Slot!StartShell(o)
<1>1. PICK o \in Objs : o = call[c].obj /\ st[o] = Idle
  BY DEF CoreInv, LockInv, ShellFork
<1>2. TypeOK /\ ids + 1 \in Ids
  BY RunnerAssumption DEF CoreInv, TypeOK, ShellFork
<1> DEFINE s == Shell(ids + 1)
<1>3. s \in States /\ s.tag = "Shell" /\ s.done = 0
  BY <1>2, StateTypes DEF Shell
<1>4. st' = [st EXCEPT ![o] = s] /\ done' = done
  BY <1>1 DEF ShellFork
<1>5. st[o].tag = "Idle" /\ st[o].done = 0
  BY <1>1 DEF Idle
<1> HIDE DEF s
<1>6. /\ SlotTags' = [SlotTags EXCEPT ![o] = "Shell"]
      /\ SlotDones' = [SlotDones EXCEPT ![o] = 0]
      /\ SlotTags[o] = "Idle" /\ SlotDones[o] = 0
  BY <1>2, <1>3, <1>4, <1>5, SlotWritten
<1>7. SlotDones' = SlotDones
  BY <1>6 DEF SlotDones
<1> QED BY <1>4, <1>6, <1>7 DEF Slot!StartShell, SlotTags, SlotDones

(* A cancel, and an exit handler that finds its fiber in the slot, release   *)
(* it.                                                                       *)
LEMMA ReleaseStep ==
  ASSUME CoreInv, NEW o \in Objs, st[o].tag # "Idle",
         st' = [st EXCEPT ![o] = Idle], done' = done
  PROVE  Slot!Release(o)
<1>1. TypeOK
  BY DEF CoreInv
<1>2. Idle.tag = "Idle" /\ Idle.done = 0
  BY DEF Idle
<1>3. /\ SlotTags' = [SlotTags EXCEPT ![o] = "Idle"]
      /\ SlotDones' = [SlotDones EXCEPT ![o] = 0]
      /\ SlotTags[o] # "Idle"
  <2>1. PICK s \in States : s = Idle
    BY StateTypes
  <2>2. /\ SlotTags' = [SlotTags EXCEPT ![o] = s.tag] /\ SlotDones' = [SlotDones EXCEPT ![o] = s.done]
        /\ SlotTags[o] = st[o].tag
    BY <1>1, <2>1, SlotWritten
  <2> QED BY <1>2, <2>1, <2>2
<1> QED BY <1>3 DEF Slot!Release, SlotTags, SlotDones

(* finishShell hands the slot to the queued run, which keeps its promise.    *)
LEMMA HandOffStep ==
  ASSUME CoreInv, NEW i \in Ids, FinishShellHandOff(i)
  PROVE  \E o \in Objs : Slot!HandOff(o)
<1>1. PICK o \in Objs : o = handle[i].obj
  BY DEF CoreInv, ExitInv, FinishShellHandOff
<1>2. PICK d : d = st[o].done
  OBVIOUS
<1>3. TypeOK /\ ids + 1 \in Ids /\ d \in Ids0 /\ st[o].tag = "ShellThenRun"
  BY <1>1, <1>2, StateFields, RunnerAssumption DEF CoreInv, TypeOK, FinishShellHandOff
<1> DEFINE s == Running(ids + 1, d)
<1>4. s \in States /\ s.tag = "Running" /\ s.done = d
  BY <1>3, StateTypes DEF Running
<1>5. st' = [st EXCEPT ![o] = s] /\ done' = done
  BY <1>1, <1>2 DEF FinishShellHandOff
<1> HIDE DEF s
<1>6. /\ SlotTags' = [SlotTags EXCEPT ![o] = "Running"]
      /\ SlotDones' = [SlotDones EXCEPT ![o] = d]
      /\ SlotTags[o] = "ShellThenRun" /\ SlotDones[o] = d
  BY <1>2, <1>3, <1>4, <1>5, SlotWritten
<1>7. SlotDones' = SlotDones
  BY <1>6 DEF SlotDones
<1> QED BY <1>5, <1>6, <1>7 DEF Slot!HandOff, SlotTags, SlotDones

(* A Deferred that is completed is in no slot; one that is complete already  *)
(* stays as it is.                                                           *)
LEMMA SettleStep ==
  ASSUME CoreInv, NEW d \in Ids, NEW v \in {"settled", "cancelled"}, st' = st,
         done' = [done EXCEPT ![d] = IF @ = "pending" THEN v ELSE @],
         \A o \in Objs : st[o].done # d
  PROVE  Slot!Settle(d) \/ done' = done
<1>1. done \in [Ids -> DoneStates]
  BY DEF CoreInv, TypeOK
<1>2. CASE done[d] = "pending"
  <2>1. done' = [done EXCEPT ![d] = v]
    BY <1>1, <1>2
  <2>2. \A o \in Objs : SlotDones[o] # d
    BY DEF SlotDones
  <2> QED BY <1>2, <2>1, <2>2 DEF Slot!Settle, SlotDones
<1>3. CASE done[d] # "pending"
  BY <1>1, <1>3
<1> QED BY <1>2, <1>3

LEMMA CancelSettleStep ==
  ASSUME CoreInv, NEW c \in Callers, CancelFailDone(c)
  PROVE  (\E d \in 1 .. MaxId : Slot!Settle(d)) \/ UNCHANGED <<st, done>>
<1>1. CASE call[c].st.tag = "Shell"
  BY <1>1 DEF CancelFailDone
<1>2. CASE call[c].st.tag # "Shell"
  <2>1. PICK d : d = call[c].st.done
    OBVIOUS
  <2>2. d \in Ids
    BY <1>2, <2>1, HandlesInUse DEF CancelFailDone, CallIds, Cancelling
  <2>3. \A o \in Objs : st[o].done # d
    BY <1>2, <2>1, SettledOutsideSlots DEF CancelFailDone, Cancelling
  <2>4. done' = [done EXCEPT ![d] = IF @ = "pending" THEN "cancelled" ELSE @] /\ st' = st
    BY <1>2, <2>1 DEF CancelFailDone, FailCancelled
  <2>5. Slot!Settle(d) \/ done' = done
    BY <2>2, <2>3, <2>4, SettleStep
  <2> QED BY <2>2, <2>4, <2>5
<1> QED BY <1>1, <1>2

LEMMA RunSettleStep ==
  ASSUME CoreInv, NEW i \in Ids, FinishRunComplete(i)
  PROVE  (\E d \in 1 .. MaxId : Slot!Settle(d)) \/ UNCHANGED <<st, done>>
<1>1. PICK d : d = handle[i].done
  OBVIOUS
<1>2. d \in Ids
  BY <1>1, HandlesInUse DEF CoreInv, ExitInv, FinishRunComplete
<1>3. \A o \in Objs : st[o].done # d
  BY <1>1, SettledOutsideSlots DEF FinishRunComplete
<1>4. PICK v \in {"settled", "cancelled"} :
        done' = [done EXCEPT ![d] = IF @ = "pending" THEN v ELSE @]
  BY <1>1 DEF FinishRunComplete, Complete
<1>5. st' = st
  BY DEF FinishRunComplete
<1>6. Slot!Settle(d) \/ done' = done
  BY <1>2, <1>3, <1>4, <1>5, SettleStep
<1> QED BY <1>2, <1>5, <1>6

(* Every other step changes neither a state nor a Deferred.                  *)
LEMMA SlotNext ==
  ASSUME CoreInv, [Next]_vars
  PROVE  [Slot!Next]_(Slot!vars)
<1>1. ASSUME UNCHANGED <<st, done>> PROVE UNCHANGED Slot!vars
  BY <1>1 DEF Slot!vars
<1>2. ASSUME NEW c \in Callers, NEW o \in Objs, EnsureRunning(c, o)
      PROVE  Slot!Next \/ UNCHANGED <<st, done>>
  <2>1. CASE EnsureJoin(c, o)
    BY <2>1 DEF EnsureJoin
  <2>2. CASE EnsureQueue(c, o) \/ EnsureStart(c, o)
    BY <2>2, AcceptStep DEF Slot!Next, Slot!Promises
  <2> QED BY <1>2, <2>1, <2>2 DEF EnsureRunning
<1>3. ASSUME NEW c \in Callers, NEW o \in Objs, ShellBusy(c, o) \/ ShellOnBusy(c, o)
      PROVE  UNCHANGED <<st, done>>
  BY <1>3 DEF ShellBusy, ShellOnBusy
<1>4. ASSUME NEW c \in Callers, NEW o \in Objs, Cancel(c, o)
      PROVE  Slot!Next \/ UNCHANGED <<st, done>>
  <2>1. CASE CancelIdle(c, o)
    BY <2>1 DEF CancelIdle
  <2>2. CASE CancelBusy(c, o)
    <3>1. Slot!Release(o)
      BY <2>2, ReleaseStep DEF CancelBusy
    <3> QED BY <3>1 DEF Slot!Next
  <2> QED BY <1>4, <2>1, <2>2 DEF Cancel
<1>5. ASSUME NEW c \in Callers, CallerStep(c)
      PROVE  Slot!Next \/ UNCHANGED <<st, done>>
  <2>1. ASSUME NEW l \in Latches, ShellFork(c, l) PROVE Slot!Next
    BY <2>1, StartShellStep DEF Slot!Next
  <2>2. CASE CancelFailDone(c)
    BY <2>2, CancelSettleStep DEF Slot!Next, Slot!Promises
  <2>3. CASE \/ AwaitDone(c) \/ AwaitShell(c) \/ CancelInterruptRun(c)
             \/ CancelStopShell(c) \/ IdleIfCurrent(c) \/ CancelReturn(c)
    BY <2>3 DEF AwaitDone, AwaitShell, CancelInterruptRun, CancelStopShell, IdleIfCurrent,
                CancelReturn
  <2> QED BY <1>5, <2>1, <2>2, <2>3 DEF CallerStep
<1>6. ASSUME NEW c \in Callers, CallerAbort(c)
      PROVE  UNCHANGED <<st, done>>
  BY <1>6 DEF CallerAbort, AbortEnsure, AbortOnBusy, AbortShell, AbortCanceller
<1>7. ASSUME NEW i \in Ids, FiberStep(i)
      PROVE  Slot!Next \/ UNCHANGED <<st, done>>
  <2>1. CASE FinishRunCurrent(i) \/ FinishShellIdle(i)
    <3>1. PICK o \in Objs : o = handle[i].obj
      BY <2>1 DEF CoreInv, ExitInv, FinishRunCurrent, FinishShellIdle
    <3>2. st[o].tag # "Idle" /\ st' = [st EXCEPT ![o] = Idle] /\ done' = done
      BY <2>1, <3>1 DEF FinishRunCurrent, FinishShellIdle, IsCurrentRun
    <3>3. Slot!Release(o)
      BY <3>2, ReleaseStep
    <3> QED BY <3>3 DEF Slot!Next
  <2>2. CASE FinishShellHandOff(i)
    BY <2>2, HandOffStep DEF Slot!Next
  <2>3. CASE FinishRunComplete(i)
    BY <2>3, RunSettleStep DEF Slot!Next, Slot!Promises
  <2>4. CASE \/ FiberStart(i) \/ ShellReady(i) \/ FinishRunStale(i) \/ FinishShellStale(i)
             \/ OnIdleReturn(i)
    BY <2>4 DEF FiberStart, ShellReady, FinishRunStale, FinishShellStale, OnIdleReturn
  <2> QED BY <1>7, <2>1, <2>2, <2>3, <2>4 DEF FiberStep, FinishStep
<1>8. ASSUME NEW i \in Ids, FiberExit(i)
      PROVE  UNCHANGED <<st, done>>
  BY <1>8 DEF FiberExit, WorkExit
<1>9. CASE UNCHANGED vars
  BY <1>1, <1>9 DEF vars
<1>10. CASE Next
  <2>1. Slot!Next \/ UNCHANGED <<st, done>>
    BY <1>2, <1>3, <1>4, <1>5, <1>6, <1>7, <1>8, <1>10 DEF Next
  <2> QED BY <1>1, <2>1
<1> QED BY <1>9, <1>10

(* The runner implements RunSlot: whatever fibers, locks and callers do, a   *)
(* promise is served by one slot at most, and settled once, after the slot   *)
(* was given back.                                                           *)
THEOREM RunnerImplementsRunSlot == Spec => ImplementsRunSlot
<1>1. Init => Slot!Init
  BY DEF Init, Slot!Init, Idle, Slot!Promises
<1>2. CoreInv /\ [Next]_vars => [Slot!Next]_(Slot!vars)
  BY SlotNext
<1>3. Spec => []CoreInv
  BY CoreInvariant
<1> QED BY <1>1, <1>2, <1>3, PTL DEF Spec, ImplementsRunSlot, Slot!Spec

-----------------------------------------------------------------------------
(***************************************************************************)
(* The session: what the `runners` map and the status show of it, also     *)
(* when operations begin while a cancel is executing.                      *)
(***************************************************************************)

(* A step of the session is a step of its runners.                           *)
LEMMA SessionIsRunner ==
  ASSUME [SessionNext]_allVars, SessionTypeOK
  PROVE  [Next]_vars
<1>1. CASE UNCHANGED allVars
  BY <1>1 DEF allVars
<1>2. ASSUME NEW c \in Callers, NEW o \in Objs,
             SessionEnsureRunning(c, o) \/ SessionStartShell(c, o)
      PROVE  Next
  BY <1>2 DEF SessionEnsureRunning, SessionStartShell, Next
<1>3. ASSUME NEW c \in Callers, SessionCancel(c) PROVE Next
  <2>1. runners \in Objs
    BY <1>3 DEF SessionCancel, SessionTypeOK
  <2> QED BY <1>3, <2>1 DEF SessionCancel, Next, Cancel
<1>4. ASSUME NEW c \in Callers, SessionCancelIdle(c) \/ SessionIdleIfCurrent(c)
      PROVE  [Next]_vars
  BY <1>4 DEF SessionCancelIdle, SessionIdleIfCurrent, Next, CallerStep
<1>5. ASSUME NEW c \in Callers, NEW l \in Latches, SessionShellFork(c, l) PROVE Next
  BY <1>5 DEF SessionShellFork, Next, CallerStep
<1>6. ASSUME NEW i \in Ids, SessionFinish(i) PROVE Next
  BY <1>6 DEF SessionFinish, Next, FiberStep, FinishStep
<1>7. ASSUME NEW i \in Ids, NEW s \in Statuses, RunStatus(i, s) PROVE UNCHANGED vars
  BY <1>7 DEF RunStatus
<1>8. CASE RunnerStep
  BY <1>8 DEF RunnerStep, Next, CallerStep, FiberStep
<1> QED BY <1>1, <1>2, <1>3, <1>4, <1>5, <1>6, <1>7, <1>8 DEF SessionNext

(* What the proofs below need to know of the runners.                        *)
LEMMA RunnerFacts ==
  ASSUME CoreInv
  PROVE  /\ st \in [Objs -> States] /\ fiber \in [Ids -> FiberStates]
         /\ handle \in [Ids -> Handles] /\ pc \in [Callers -> Pcs]
         /\ call \in [Callers -> [obj : Objs \cup {NoObj}, st : States]]
         /\ \A c \in Callers : pc[c] = "onBusy" =>
               /\ call[c].obj \in Objs
               /\ ~Busy(call[c].obj) /\ ~Free(call[c].obj)
         /\ \A i \in Ids : fiber[i] # "none" => handle[i].obj \in Objs
<1>1. ASSUME NEW c \in Callers, pc[c] = "onBusy"
      PROVE  call[c].obj \in Objs /\ ~Busy(call[c].obj) /\ ~Free(call[c].obj)
  <2>1. call[c].obj \in Objs /\ holder[call[c].obj] = c /\ st[call[c].obj] = Idle
    BY <1>1 DEF CoreInv, LockInv
  <2> QED BY <2>1, RunnerAssumption DEF Busy, Idle, Free
<1> QED BY <1>1 DEF CoreInv, TypeOK, ExitInv

(* The number that next() will return belongs to no fiber yet.               *)
LEMMA NextHandle ==
  ASSUME CoreInv, ids < MaxId
  PROVE  \E p \in Ids : p = ids + 1 /\ fiber[p] = "none"
<1>1. ids \in 0 .. MaxId /\ FreshInv
  BY DEF CoreInv, TypeOK, Ids0
<1>2. ids + 1 \in Ids /\ ids + 1 > ids
  BY <1>1, RunnerAssumption DEF Ids
<1> QED BY <1>1, <1>2 DEF FreshInv

(* The steps that leave the slots, the map and the status alone, and in      *)
(* which nobody begins or ends to wait for onBusy.                           *)
LEMMA QuietSteps ==
  ASSUME RunnerStep
  PROVE  \/ \E c \in Callers : \/ AwaitDone(c) \/ AwaitShell(c) \/ CancelReturn(c)
                               \/ AbortEnsure(c) \/ AbortOnBusy(c) \/ AbortShell(c)
                               \/ AbortCanceller(c)
         \/ \E c \in Callers : CancelInterruptRun(c) \/ CancelStopShell(c) \/ CancelFailDone(c)
         \/ \E i \in Ids : FiberStart(i) \/ ShellReady(i) \/ FinishRunComplete(i)
                           \/ OnIdleReturn(i) \/ FiberExit(i)
BY DEF RunnerStep, CallerAbort

(* The map and the status keep their types.                                  *)
LEMMA SessionTypeStep ==
  ASSUME CoreInv', SessionTypeOK, [SessionNext]_allVars
  PROVE  SessionTypeOK'
<1> DEFINE MapTypes == /\ runners \in made \cup {NoObj} /\ made \subseteq Objs
                      /\ status \in Statuses /\ evicted \subseteq made
<1>1. TypeOK'
  BY DEF CoreInv
<1> SUFFICES MapTypes'
  BY <1>1 DEF SessionTypeOK
<1>2. MapTypes
  BY DEF SessionTypeOK
<1>3. CASE UNCHANGED sessionVars
  BY <1>2, <1>3 DEF sessionVars
<1>4. ASSUME NEW o, OnIdle(o) \/ OnBusy PROVE MapTypes'
  BY <1>2, <1>4, RunnerAssumption DEF OnIdle, OnBusy, Evict, Statuses
<1>5. ASSUME NEW c \in Callers, NEW o \in Objs,
             SessionEnsureRunning(c, o) \/ SessionStartShell(c, o)
      PROVE  MapTypes'
  BY <1>2, <1>5 DEF SessionEnsureRunning, SessionStartShell, GetRunner
<1>6. ASSUME NEW c \in Callers, SessionCancelIdle(c)
      PROVE  MapTypes'
  BY <1>2, <1>6 DEF SessionCancelIdle, Statuses
<1>7. ASSUME NEW i \in Ids, NEW s \in Statuses, RunStatus(i, s)
      PROVE  MapTypes'
  BY <1>2, <1>7 DEF RunStatus
<1>8. ASSUME NEW c \in Callers, SessionCancel(c) PROVE UNCHANGED sessionVars
  BY <1>8 DEF SessionCancel
<1>9. ASSUME NEW c \in Callers, SessionIdleIfCurrent(c) PROVE UNCHANGED sessionVars \/ \E o : OnIdle(o)
  BY <1>9 DEF SessionIdleIfCurrent
<1>10. ASSUME NEW c \in Callers, NEW l \in Latches, SessionShellFork(c, l) PROVE OnBusy
  BY <1>10 DEF SessionShellFork
<1>11. ASSUME NEW i \in Ids, SessionFinish(i) PROVE UNCHANGED sessionVars \/ \E o : OnIdle(o)
  BY <1>11 DEF SessionFinish
<1>12. CASE UNCHANGED allVars
  BY <1>3, <1>12 DEF allVars
<1> QED
  BY <1>3, <1>4, <1>5, <1>6, <1>7, <1>8, <1>9, <1>10, <1>11, <1>12 DEF SessionNext

(* No slot changes, and no startShell takes the lock.                        *)
SlotStays == /\ st' = st
             /\ \A c \in Callers : pc'[c] = "onBusy" => pc[c] = "onBusy" /\ call'[c] = call[c]

LEMMA QuietSlots ==
  ASSUME CoreInv, RunnerStep \/ UNCHANGED vars
  PROVE  SlotStays
<1> USE RunnerFacts
<1>1. CASE UNCHANGED vars
  BY <1>1 DEF SlotStays, vars
<1>2. ASSUME NEW c \in Callers, \/ AwaitDone(c) \/ AwaitShell(c) \/ CancelReturn(c)
                                \/ AbortEnsure(c) \/ AbortOnBusy(c) \/ AbortShell(c)
                                \/ AbortCanceller(c)
      PROVE  SlotStays
  <2>1. st' = st /\ Return(c)
    BY <1>2 DEF AwaitDone, AwaitShell, CancelReturn, AbortEnsure, AbortOnBusy, AbortShell,
                AbortCanceller
  <2> QED BY <2>1 DEF Return, SlotStays
<1>3. ASSUME NEW c \in Callers, CancelInterruptRun(c) \/ CancelStopShell(c) \/ CancelFailDone(c)
      PROVE  SlotStays
  BY <1>3 DEF CancelInterruptRun, CancelStopShell, CancelFailDone, SlotStays
<1>4. ASSUME NEW i \in Ids, \/ FiberStart(i) \/ ShellReady(i) \/ FinishRunComplete(i)
                            \/ OnIdleReturn(i) \/ FiberExit(i)
      PROVE  SlotStays
  BY <1>4 DEF FiberStart, ShellReady, FinishRunComplete, OnIdleReturn, FiberExit, WorkExit,
              SlotStays
<1> QED BY <1>1, <1>2, <1>3, <1>4, QuietSteps

(* A busy runner is in the map or was evicted: another is made only when the *)
(* map is empty, and onIdle takes the entry of its own, idle runner, or      *)
(* evicts the runner it belongs to.                                          *)
LEMMA MapStep ==
  ASSUME CoreInv, SessionCore, [SessionNext]_allVars
  PROVE  MapInv'
<1> USE RunnerFacts
<1>1. MapInv /\ CancelledInv /\ runners \in Objs \cup {NoObj} /\ NoObj \notin Objs
  BY RunnerAssumption DEF SessionCore, SessionTypeOK
<1>2. ASSUME SlotStays, runners' = runners, evicted' = evicted PROVE MapInv'
  BY <1>1, <1>2 DEF SlotStays, MapInv, Shown, Busy
<1>3. ASSUME NEW o \in Objs, NEW c \in Callers, GetRunner(o), evicted' = evicted,
             \A q \in Objs \ {o} : st'[q] = st[q],
             \A k \in Callers \ {c} : pc'[k] = pc[k] /\ call'[k] = call[k],
             pc'[c] = "onBusy" => call'[c].obj = o
      PROVE  MapInv'
  <2>1. runners' = o /\ (runners = NoObj \/ runners = o)
    BY <1>3 DEF GetRunner
  <2>2. ASSUME NEW q \in Objs, q # o, Busy(q)' PROVE q \in evicted'
    <3>1. Busy(q)
      BY <1>3, <2>2 DEF Busy
    <3> QED BY <1>1, <1>3, <2>1, <2>2, <3>1 DEF MapInv, Shown
  <2>3. ASSUME NEW k \in Callers, pc'[k] = "onBusy" PROVE Shown(call[k].obj)'
    BY <1>1, <1>3, <2>1, <2>3 DEF MapInv, Shown
  <2> QED BY <2>1, <2>2, <2>3 DEF MapInv, Shown
<1>4. ASSUME NEW c \in Callers, NEW o \in Objs, SessionEnsureRunning(c, o) PROVE MapInv'
  BY <1>3, <1>4 DEF SessionEnsureRunning, EnsureRunning, EnsureJoin, EnsureQueue,
                    EnsureStart, Capture
<1>5. ASSUME NEW c \in Callers, NEW o \in Objs, SessionStartShell(c, o) PROVE MapInv'
  BY <1>3, <1>5 DEF SessionStartShell, ShellBusy, ShellOnBusy, Capture, Return
<1>6. ASSUME NEW c \in Callers, SessionCancel(c) PROVE MapInv'
  BY <1>1, <1>6 DEF SessionCancel, CancelBusy, Capture, MapInv, Shown, Busy, sessionVars, Idle
<1>7. ASSUME NEW c \in Callers, SessionCancelIdle(c) PROVE MapInv'
  BY <1>2, <1>7, QuietSlots DEF SessionCancelIdle
<1>8. ASSUME NEW o \in Objs, OnIdle(o), Free(o),
             \A q \in Objs : Busy(q)' => q # o /\ Busy(q),
             \A k \in Callers : pc'[k] = "onBusy" => pc[k] = "onBusy" /\ call'[k] = call[k]
      PROVE  MapInv'
  <2>1. ASSUME NEW q \in Objs, Shown(q), q # o, InUse(q) PROVE Shown(q)'
    BY <1>8, <2>1 DEF OnIdle, Evict, Shown
  <2>2. ASSUME NEW q \in Objs, Busy(q)' PROVE Shown(q)'
    BY <1>1, <1>8, <2>1, <2>2 DEF MapInv, InUse
  <2>3. ASSUME NEW k \in Callers, pc'[k] = "onBusy" PROVE Shown(call[k].obj)'
    <3>1. PICK q \in Objs : q = call[k].obj /\ ~Free(q) /\ Shown(q)
      BY <1>1, <1>8, <2>3 DEF MapInv
    <3> QED BY <1>8, <2>1, <2>3, <3>1 DEF InUse
  <2> QED BY <2>2, <2>3 DEF MapInv
<1>9. ASSUME NEW c \in Callers, SessionIdleIfCurrent(c) PROVE MapInv'
  <2>1. PICK o \in Objs : o = call[c].obj /\ Free(o) /\ st' = st
    BY <1>1, <1>9 DEF SessionIdleIfCurrent, IdleIfCurrent, Cancels, CancelledInv
  <2>2. \A k \in Callers : pc'[k] = "onBusy" => pc[k] = "onBusy" /\ call'[k] = call[k]
    BY <1>9 DEF SessionIdleIfCurrent, IdleIfCurrent, Return
  <2>3. CASE Busy(o)
    BY <1>2, <1>9, <2>1, <2>2, <2>3 DEF SessionIdleIfCurrent, SlotStays, sessionVars
  <2>4. CASE ~Busy(o)
    BY <1>8, <1>9, <2>1, <2>2, <2>4 DEF SessionIdleIfCurrent, Busy
  <2> QED BY <2>3, <2>4
<1>10. ASSUME NEW c \in Callers, NEW l \in Latches, SessionShellFork(c, l) PROVE MapInv'
  <2>1. PICK o \in Objs : o = call[c].obj /\ Shown(o)
    BY <1>1, <1>10 DEF SessionShellFork, ShellFork, MapInv
  <2>2. /\ UNCHANGED <<runners, evicted>> /\ \A q \in Objs \ {o} : st'[q] = st[q]
        /\ \A k \in Callers : pc'[k] = "onBusy" => pc[k] = "onBusy" /\ call'[k] = call[k]
    BY <1>10, <2>1 DEF SessionShellFork, ShellFork, Capture, OnBusy
  <2> QED BY <1>1, <2>1, <2>2 DEF MapInv, Shown, Busy
<1>11. ASSUME NEW i \in Ids, FinishRunCurrent(i) \/ FinishShellIdle(i), OnIdle(handle[i].obj)
       PROVE  MapInv'
  <2>1. PICK o \in Objs : o = handle[i].obj /\ Free(o)
    BY <1>11 DEF FinishRunCurrent, FinishShellIdle
  <2>2. st' = [st EXCEPT ![o] = Idle] /\ pc' = pc /\ call' = call
    BY <1>11, <2>1 DEF FinishRunCurrent, FinishShellIdle
  <2>3. \A q \in Objs : Busy(q)' => q # o /\ Busy(q)
    BY <2>2 DEF Busy, Idle
  <2> QED BY <1>8, <1>11, <2>1, <2>2, <2>3
<1>12. ASSUME NEW i \in Ids, FinishShellHandOff(i), UNCHANGED sessionVars PROVE MapInv'
  <2>1. PICK o \in Objs : o = handle[i].obj
    BY <1>12 DEF FinishShellHandOff
  <2>2. Busy(o) /\ (\A q \in Objs \ {o} : st'[q] = st[q]) /\ pc' = pc /\ call' = call
    BY <1>12, <2>1 DEF FinishShellHandOff, Busy
  <2> QED BY <1>1, <1>12, <2>2 DEF MapInv, Shown, Busy, sessionVars
<1>13. ASSUME NEW i \in Ids, FinishRunStale(i) \/ FinishShellStale(i), UNCHANGED sessionVars
       PROVE  MapInv'
  BY <1>2, <1>13 DEF FinishRunStale, FinishShellStale, SlotStays, sessionVars
<1>14. ASSUME NEW i \in Ids, NEW s \in Statuses, RunStatus(i, s) PROVE MapInv'
  BY <1>2, <1>14, QuietSlots DEF RunStatus
<1>15. CASE RunnerStep /\ UNCHANGED sessionVars
  BY <1>2, <1>15, QuietSlots DEF sessionVars
<1>16. CASE UNCHANGED allVars
  BY <1>2, <1>16, QuietSlots DEF allVars, sessionVars
<1> QED
  BY <1>4, <1>5, <1>6, <1>7, <1>9, <1>10, <1>11, <1>12, <1>13, <1>14, <1>15, <1>16
  DEF SessionNext, SessionFinish

(* The runner a cancel has captured stays the same until it returns.         *)
LEMMA CancelledStep ==
  ASSUME CoreInv, SessionCore, [SessionNext]_allVars
  PROVE  CancelledInv'
<1> USE RunnerFacts
<1>1. CancelledInv /\ runners \in Objs \cup {NoObj}
  BY DEF SessionCore, SessionTypeOK
<1>2. ASSUME \A k \in Callers : Cancels(k)' => Cancels(k) /\ call'[k] = call[k]
      PROVE  CancelledInv'
  BY <1>1, <1>2 DEF CancelledInv
<1>3. ASSUME NEW c \in Callers, ~Cancels(c)' \/ call'[c].obj \in Objs,
             \A k \in Callers \ {c} : pc'[k] = pc[k] /\ call'[k] = call[k]
      PROVE  CancelledInv'
  BY <1>1, <1>3 DEF CancelledInv, Cancels
<1>4. ASSUME NEW c \in Callers, NEW o \in Objs, SessionEnsureRunning(c, o) PROVE CancelledInv'
  BY <1>3, <1>4 DEF SessionEnsureRunning, EnsureRunning, EnsureJoin, EnsureQueue,
                    EnsureStart, Capture, Cancels
<1>5. ASSUME NEW c \in Callers, NEW o \in Objs, SessionStartShell(c, o) PROVE CancelledInv'
  BY <1>3, <1>5 DEF SessionStartShell, ShellBusy, ShellOnBusy, Capture, Return, Cancels
<1>6. ASSUME NEW c \in Callers, SessionCancel(c) PROVE CancelledInv'
  BY <1>1, <1>3, <1>6 DEF SessionCancel, CancelBusy, Capture
<1>7. ASSUME UNCHANGED vars PROVE CancelledInv'
  BY <1>2, <1>7 DEF vars, Cancels
<1>8. ASSUME NEW c \in Callers, SessionIdleIfCurrent(c) PROVE CancelledInv'
  BY <1>2, <1>8 DEF SessionIdleIfCurrent, IdleIfCurrent, Return, Cancels
<1>9. ASSUME NEW c \in Callers, NEW l \in Latches, SessionShellFork(c, l) PROVE CancelledInv'
  BY <1>3, <1>9 DEF SessionShellFork, ShellFork, Capture, Cancels
<1>10. ASSUME NEW i \in Ids, SessionFinish(i) PROVE CancelledInv'
  BY <1>2, <1>10 DEF SessionFinish, FinishRunCurrent, FinishRunStale, FinishShellIdle,
                     FinishShellHandOff, FinishShellStale, Cancels
<1>11. ASSUME NEW c \in Callers, \/ AwaitDone(c) \/ AwaitShell(c) \/ CancelReturn(c)
                                 \/ AbortEnsure(c) \/ AbortOnBusy(c) \/ AbortShell(c)
                                 \/ AbortCanceller(c)
       PROVE  CancelledInv'
  BY <1>2, <1>11 DEF AwaitDone, AwaitShell, CancelReturn, AbortEnsure, AbortOnBusy, AbortShell,
                     AbortCanceller, Return, Cancels
<1>12. ASSUME NEW c \in Callers, CancelInterruptRun(c) \/ CancelStopShell(c) \/ CancelFailDone(c)
       PROVE  CancelledInv'
  BY <1>2, <1>12 DEF CancelInterruptRun, CancelStopShell, CancelFailDone, Cancels
<1>13. ASSUME NEW i \in Ids, \/ FiberStart(i) \/ ShellReady(i) \/ FinishRunComplete(i)
                             \/ OnIdleReturn(i) \/ FiberExit(i)
       PROVE  CancelledInv'
  BY <1>2, <1>13 DEF FiberStart, ShellReady, FinishRunComplete, OnIdleReturn, FiberExit,
                     WorkExit, Cancels
<1>14. CASE RunnerStep
  BY <1>11, <1>12, <1>13, <1>14, QuietSteps
<1>15. CASE UNCHANGED allVars
  BY <1>7, <1>15 DEF allVars
<1> QED
  BY <1>4, <1>5, <1>6, <1>7, <1>8, <1>9, <1>10, <1>14, <1>15
  DEF SessionNext, SessionCancelIdle, RunStatus

(* A run leaves its slot because its work is over, or because a cancel took  *)
(* it, and this waits until the work is over.                                *)
LEMMA RunStep ==
  ASSUME ~AbortCancel, CoreInv, SessionInv, [SessionNext]_allVars
  PROVE  RunInv'
<1> USE RunnerFacts
<1>1. RunInv /\ runners \in Objs \cup {NoObj}
  BY DEF SessionInv, SessionCore, SessionTypeOK
<1>2. ASSUME st' = st, handle' = handle,
             \A i \in Ids : Working(i)' => Working(i),
             \A i \in Ids, c \in Callers : Working(i)' /\ AwaitedBy(c, i) => AwaitedBy(c, i)'
      PROVE  RunInv'
  <2> SUFFICES ASSUME NEW i \in Ids, Working(i)', handle[i].kind = "run"
               PROVE  IsCurrentRun(i)' \/ \E c \in Callers : AwaitedBy(c, i)'
    BY <1>2 DEF RunInv
  <2>1. IsCurrentRun(i) \/ \E c \in Callers : AwaitedBy(c, i)
    BY <1>1, <1>2 DEF RunInv
  <2> QED BY <1>2, <2>1 DEF IsCurrentRun
<1>3. ASSUME NEW c \in Callers, NEW o \in Objs, SessionEnsureRunning(c, o) PROVE RunInv'
  <2>1. pc[c] = "ready"
    BY <1>3 DEF SessionEnsureRunning, EnsureRunning, EnsureJoin, EnsureQueue, EnsureStart
  <2>2. \A i \in Ids, k \in Callers : AwaitedBy(k, i) => AwaitedBy(k, i)'
    BY <1>3, <2>1 DEF SessionEnsureRunning, EnsureRunning, EnsureJoin, EnsureQueue,
                      EnsureStart, Capture, AwaitedBy, Cancelling
  <2>3. CASE EnsureJoin(c, o)
    BY <1>2, <2>2, <2>3 DEF EnsureJoin, Working
  <2>4. CASE EnsureQueue(c, o)
    <3>1. PICK p \in Ids : p = ids + 1 /\ fiber[p] = "none"
      BY <2>4, NextHandle DEF EnsureQueue
    <3>2. /\ fiber' = fiber /\ \A i \in Ids \ {p} : handle'[i] = handle[i]
          /\ st[o].tag = "Shell" /\ \A q \in Objs \ {o} : st'[q] = st[q]
      BY <2>4, <3>1 DEF EnsureQueue
    <3> SUFFICES ASSUME NEW i \in Ids, Working(i)', handle'[i].kind = "run"
                 PROVE  IsCurrentRun(i)' \/ \E k \in Callers : AwaitedBy(k, i)'
      BY DEF RunInv
    <3>3. i # p /\ Working(i) /\ handle'[i] = handle[i] /\ handle[i].obj \in Objs
      BY <3>1, <3>2 DEF Working
    <3>4. IsCurrentRun(i) \/ \E k \in Callers : AwaitedBy(k, i)
      BY <1>1, <3>3 DEF RunInv
    <3> QED BY <2>2, <3>2, <3>3, <3>4 DEF IsCurrentRun
  <2>5. CASE EnsureStart(c, o)
    <3>1. PICK p \in Ids : p = ids + 1 /\ fiber[p] = "none"
      BY <2>5, NextHandle DEF EnsureStart
    <3>2. /\ \A i \in Ids \ {p} : handle'[i] = handle[i] /\ fiber'[i] = fiber[i]
          /\ st[o].tag = "Idle" /\ \A q \in Objs \ {o} : st'[q] = st[q]
          /\ handle'[p].obj = o /\ st'[o].tag = "Running" /\ st'[o].run = p
      BY <2>5, <3>1 DEF EnsureStart, StartRun, Running
    <3> SUFFICES ASSUME NEW i \in Ids, Working(i)', handle'[i].kind = "run"
                 PROVE  IsCurrentRun(i)' \/ \E k \in Callers : AwaitedBy(k, i)'
      BY DEF RunInv
    <3>3. CASE i = p
      BY <3>2, <3>3 DEF IsCurrentRun
    <3>4. CASE i # p
      <4>1. Working(i) /\ handle'[i] = handle[i] /\ handle[i].obj \in Objs
        BY <3>2, <3>4 DEF Working
      <4>2. IsCurrentRun(i) \/ \E k \in Callers : AwaitedBy(k, i)
        BY <1>1, <4>1 DEF RunInv
      <4> QED BY <2>2, <3>2, <4>1, <4>2 DEF IsCurrentRun
    <3> QED BY <3>3, <3>4
  <2> QED BY <1>3, <2>3, <2>4, <2>5 DEF SessionEnsureRunning, EnsureRunning
<1>4. ASSUME NEW c \in Callers, NEW o \in Objs, SessionStartShell(c, o) PROVE RunInv'
  BY <1>2, <1>4 DEF SessionStartShell, ShellBusy, ShellOnBusy, Capture, Return, Working,
                    AwaitedBy, Cancelling
<1>5. ASSUME NEW c \in Callers, SessionCancel(c) PROVE RunInv'
  <2>1. PICK o \in Objs : o = runners /\ CancelBusy(c, o)
    BY <1>1, <1>5 DEF SessionCancel, CancelBusy
  <2>2. fiber' = fiber /\ handle' = handle /\ \A q \in Objs \ {o} : st'[q] = st[q]
    BY <2>1 DEF CancelBusy
  <2>3. \A i \in Ids, k \in Callers : AwaitedBy(k, i) => AwaitedBy(k, i)'
    BY <2>1 DEF CancelBusy, Capture, AwaitedBy, Cancelling
  <2>4. ASSUME NEW i \in Ids, IsCurrentRun(i), handle[i].obj = o PROVE AwaitedBy(c, i)'
    BY <2>1, <2>4 DEF CancelBusy, Capture, AwaitedBy, Cancelling, IsCurrentRun
  <2> SUFFICES ASSUME NEW i \in Ids, Working(i), handle[i].kind = "run"
               PROVE  IsCurrentRun(i)' \/ \E k \in Callers : AwaitedBy(k, i)'
    BY <2>2 DEF RunInv, Working
  <2>5. handle[i].obj \in Objs /\ (IsCurrentRun(i) \/ \E k \in Callers : AwaitedBy(k, i))
    BY <1>1 DEF RunInv, Working
  <2> QED BY <2>2, <2>3, <2>4, <2>5 DEF IsCurrentRun
<1>6. ASSUME UNCHANGED vars PROVE RunInv'
  BY <1>2, <1>6 DEF vars, Working, AwaitedBy
<1>7. ASSUME NEW c \in Callers, SessionIdleIfCurrent(c) PROVE RunInv'
  BY <1>2, <1>7 DEF SessionIdleIfCurrent, IdleIfCurrent, Return, Working, AwaitedBy, Cancelling
<1>8. ASSUME NEW c \in Callers, NEW l \in Latches, SessionShellFork(c, l) PROVE RunInv'
  <2>1. PICK p \in Ids : p = ids + 1 /\ fiber[p] = "none"
    BY <1>8, NextHandle DEF SessionShellFork, ShellFork
  <2>2. PICK o \in Objs : o = call[c].obj /\ ~Busy(o)
    BY <1>8 DEF SessionShellFork, ShellFork
  <2>3. /\ \A i \in Ids \ {p} : handle'[i] = handle[i] /\ fiber'[i] = fiber[i]
        /\ handle'[p].kind = "shell" /\ \A q \in Objs \ {o} : st'[q] = st[q]
    BY <1>8, <2>1, <2>2 DEF SessionShellFork, ShellFork
  <2>4. \A i \in Ids, k \in Callers : AwaitedBy(k, i) => AwaitedBy(k, i)'
    BY <1>8 DEF SessionShellFork, ShellFork, Capture, AwaitedBy, Cancelling
  <2> SUFFICES ASSUME NEW i \in Ids, Working(i)', handle'[i].kind = "run"
               PROVE  IsCurrentRun(i)' \/ \E k \in Callers : AwaitedBy(k, i)'
    BY DEF RunInv
  <2>5. Working(i) /\ handle'[i] = handle[i] /\ handle[i].obj \in Objs
    BY <2>3 DEF Working
  <2>6. IsCurrentRun(i) \/ \E k \in Callers : AwaitedBy(k, i)
    BY <1>1, <2>5 DEF RunInv
  <2> QED BY <2>2, <2>3, <2>4, <2>5, <2>6 DEF IsCurrentRun, Busy
<1>9. ASSUME NEW i \in Ids, FinishRunCurrent(i) \/ FinishShellIdle(i) PROVE RunInv'
  <2>1. PICK o \in Objs : o = handle[i].obj
    BY <1>9 DEF FinishRunCurrent, FinishShellIdle
  <2>2. /\ handle' = handle /\ pc' = pc /\ call' = call /\ \A q \in Objs \ {o} : st'[q] = st[q]
        /\ st[o].tag = "Shell" \/ st[o].run = i
        /\ \A j \in Ids : Working(j)' => Working(j) /\ j # i
    BY <1>9, <2>1 DEF FinishRunCurrent, FinishShellIdle, IsCurrentRun, Working
  <2> SUFFICES ASSUME NEW j \in Ids, Working(j)', handle[j].kind = "run"
               PROVE  IsCurrentRun(j)' \/ \E k \in Callers : AwaitedBy(k, j)'
    BY <2>2 DEF RunInv
  <2>3. Working(j) /\ j # i /\ handle[j].obj \in Objs
    BY <2>2 DEF Working
  <2>4. IsCurrentRun(j) \/ \E k \in Callers : AwaitedBy(k, j)
    BY <1>1, <2>3 DEF RunInv
  <2> QED BY <2>2, <2>3, <2>4 DEF IsCurrentRun, AwaitedBy
<1>10. ASSUME NEW i \in Ids, FinishShellHandOff(i) PROVE RunInv'
  <2>1. PICK o \in Objs : o = handle[i].obj /\ st[o].tag = "ShellThenRun"
    BY <1>10 DEF FinishShellHandOff
  <2>2. PICK p \in Ids : p = ids + 1 /\ fiber[p] = "none"
    BY <1>10, NextHandle DEF FinishShellHandOff
  <2>3. /\ pc' = pc /\ call' = call /\ \A q \in Objs \ {o} : st'[q] = st[q]
        /\ \A j \in Ids \ {p} : handle'[j] = handle[j] /\ (Working(j)' => Working(j))
        /\ handle'[p].obj = o /\ st'[o].tag = "Running" /\ st'[o].run = p
    BY <1>10, <2>1, <2>2 DEF FinishShellHandOff, Working, Running
  <2> SUFFICES ASSUME NEW j \in Ids, Working(j)', handle'[j].kind = "run"
               PROVE  IsCurrentRun(j)' \/ \E k \in Callers : AwaitedBy(k, j)'
    BY DEF RunInv
  <2>4. CASE j = p
    BY <2>3, <2>4 DEF IsCurrentRun
  <2>5. CASE j # p
    <3>1. Working(j) /\ handle'[j] = handle[j] /\ handle[j].obj \in Objs
      BY <2>3, <2>5 DEF Working
    <3>2. IsCurrentRun(j) \/ \E k \in Callers : AwaitedBy(k, j)
      BY <1>1, <3>1 DEF RunInv
    <3> QED BY <2>1, <2>3, <3>1, <3>2 DEF IsCurrentRun, AwaitedBy
  <2> QED BY <2>4, <2>5
<1>11. ASSUME NEW i \in Ids, FinishRunStale(i) \/ FinishShellStale(i) PROVE RunInv'
  BY <1>2, <1>11 DEF FinishRunStale, FinishShellStale, Working, AwaitedBy
<1>12. CASE RunnerStep
  <2>1. ASSUME NEW c \in Callers, AwaitDone(c) \/ AwaitShell(c) \/ CancelReturn(c)
                                  \/ AbortEnsure(c) \/ AbortOnBusy(c)
        PROVE  RunInv'
    BY <1>2, <2>1 DEF AwaitDone, AwaitShell, CancelReturn, AbortEnsure, AbortOnBusy, Return,
                      Working, AwaitedBy, Cancelling
  <2>2. ASSUME NEW c \in Callers, AbortShell(c) PROVE RunInv'
    BY <1>2, <2>2 DEF AbortShell, InterruptFiber, Return, Working, AwaitedBy, Cancelling
  <2>3. ASSUME NEW c \in Callers, CancelInterruptRun(c) \/ CancelStopShell(c) PROVE RunInv'
    BY <1>2, <2>3 DEF CancelInterruptRun, CancelStopShell, InterruptFiber, Working, AwaitedBy,
                      Cancelling
  <2>4. ASSUME NEW c \in Callers, CancelFailDone(c) PROVE RunInv'
    BY <1>2, <2>4 DEF CancelFailDone, Target, Working, AwaitedBy, Cancelling
  <2>5. ASSUME NEW i \in Ids, FiberStart(i) \/ ShellReady(i) \/ FinishRunComplete(i)
                              \/ OnIdleReturn(i) \/ FiberExit(i)
        PROVE  RunInv'
    BY <1>2, <2>5 DEF FiberStart, ShellReady, FinishRunComplete, OnIdleReturn, FiberExit,
                      WorkExit, Working, AwaitedBy
  <2> QED BY <1>12, <2>1, <2>2, <2>3, <2>4, <2>5, QuietSteps DEF AbortCanceller
<1>13. CASE UNCHANGED allVars
  BY <1>6, <1>13 DEF allVars
<1> QED
  BY <1>3, <1>4, <1>5, <1>6, <1>7, <1>8, <1>9, <1>10, <1>11, <1>12, <1>13
  DEF SessionNext, SessionFinish, SessionCancelIdle, RunStatus

(* Whoever leaves the status at something other than idle is in a slot, or   *)
(* has a cancel waiting for it, and either sets it to idle at its end.       *)
LEMMA StatusStep ==
  ASSUME ~AbortCancel, CoreInv, SessionInv, [SessionNext]_allVars
  PROVE  StatusInv'
<1> USE RunnerFacts
<1> DEFINE Ahead == \/ \E o \in Objs : Busy(o)
                    \/ \E c \in Callers : pc[c] \in Cancelling \cup {"idleIfCurrent"}
<1>1. (status # "idle" => Ahead) /\ RunInv /\ runners \in Objs \cup {NoObj}
  BY DEF SessionInv, SessionCore, SessionTypeOK, StatusInv
<1> SUFFICES ASSUME status' # "idle" PROVE Ahead'
  BY DEF StatusInv
<1>2. ASSUME status' = status, st' = st,
             \A k \in Callers : pc[k] \in Cancelling \cup {"idleIfCurrent"} =>
                                  pc'[k] \in Cancelling \cup {"idleIfCurrent"}
      PROVE  Ahead'
  BY <1>1, <1>2 DEF Busy
<1>3. ASSUME NEW o \in Objs, Busy(o)' PROVE Ahead'
  BY <1>3
<1>4. ASSUME NEW c \in Callers, NEW o \in Objs, SessionEnsureRunning(c, o) PROVE Ahead'
  <2>1. Busy(o)'
    BY <1>4 DEF SessionEnsureRunning, EnsureRunning, EnsureJoin, EnsureQueue, EnsureStart, Busy,
                Running, ShellThenRun
  <2> QED BY <1>3, <2>1
<1>5. ASSUME NEW c \in Callers, NEW o \in Objs, SessionStartShell(c, o) PROVE Ahead'
  BY <1>2, <1>5 DEF SessionStartShell, ShellBusy, ShellOnBusy, Capture, Return, Cancelling
<1>6. ASSUME NEW c \in Callers, SessionCancel(c) PROVE Ahead'
  <2>1. pc'[c] \in Cancelling
    BY <1>6 DEF SessionCancel, CancelBusy, Capture, Cancelling
  <2> QED BY <2>1
<1>7. ASSUME NEW c \in Callers, SessionIdleIfCurrent(c) PROVE Ahead'
  <2>1. UNCHANGED sessionVars /\ Busy(call[c].obj) /\ IdleIfCurrent(c)
    BY <1>7 DEF SessionIdleIfCurrent, OnIdle
  <2>2. call[c].obj \in Objs
    BY <2>1 DEF IdleIfCurrent, Cancels, SessionInv, SessionCore, CancelledInv
  <2> QED BY <1>3, <2>1, <2>2 DEF IdleIfCurrent, Busy
<1>8. ASSUME NEW c \in Callers, NEW l \in Latches, SessionShellFork(c, l) PROVE Ahead'
  <2>1. PICK o \in Objs : o = call[c].obj
    BY <1>8 DEF SessionShellFork, ShellFork
  <2>2. Busy(o)'
    BY <1>8, <2>1 DEF SessionShellFork, ShellFork, Busy, Shell
  <2> QED BY <1>3, <2>2
<1>9. ASSUME NEW i \in Ids, SessionFinish(i) PROVE Ahead'
  <2>1. ~OnIdle(handle[i].obj)
    BY DEF OnIdle
  <2>2. CASE FinishRunStale(i) \/ FinishShellStale(i)
    BY <1>2, <1>9, <2>1, <2>2 DEF SessionFinish, FinishRunStale, FinishShellStale, sessionVars
  <2>3. CASE FinishShellHandOff(i)
    <3>1. PICK o \in Objs : o = handle[i].obj
      BY <2>3 DEF FinishShellHandOff
    <3>2. Busy(o)'
      BY <2>3, <3>1 DEF FinishShellHandOff, Busy, Running
    <3> QED BY <1>3, <3>2
  <2> QED BY <1>9, <2>1, <2>2, <2>3 DEF SessionFinish
<1>10. ASSUME NEW i \in Ids, NEW s \in Statuses, RunStatus(i, s) PROVE Ahead'
  <2>1. Working(i) /\ handle[i].kind = "run" /\ handle[i].obj \in Objs /\ st' = st /\ pc' = pc
    BY <1>10 DEF RunStatus, Working, vars
  <2>2. CASE IsCurrentRun(i)
    BY <1>3, <2>1, <2>2 DEF IsCurrentRun, Busy
  <2>3. ASSUME NEW c \in Callers, AwaitedBy(c, i) PROVE Ahead'
    BY <2>1, <2>3 DEF AwaitedBy
  <2> QED BY <1>1, <2>1, <2>2, <2>3 DEF RunInv
<1>11. CASE RunnerStep /\ UNCHANGED sessionVars
  <2>1. st' = st /\ status' = status
    BY <1>11, QuietSlots DEF SlotStays, sessionVars
  <2>2. ASSUME NEW c \in Callers, \/ AwaitDone(c) \/ AwaitShell(c) \/ CancelReturn(c)
                                  \/ AbortEnsure(c) \/ AbortOnBusy(c) \/ AbortShell(c)
                                  \/ AbortCanceller(c)
        PROVE  Ahead'
    BY <1>2, <2>1, <2>2 DEF AwaitDone, AwaitShell, CancelReturn, AbortEnsure, AbortOnBusy,
                            AbortShell, AbortCanceller, Return, Cancelling
  <2>3. ASSUME NEW c \in Callers,
               CancelInterruptRun(c) \/ CancelStopShell(c) \/ CancelFailDone(c)
        PROVE  Ahead'
    BY <1>2, <2>1, <2>3 DEF CancelInterruptRun, CancelStopShell, CancelFailDone, Cancelling
  <2>4. ASSUME NEW i \in Ids, \/ FiberStart(i) \/ ShellReady(i) \/ FinishRunComplete(i)
                              \/ OnIdleReturn(i) \/ FiberExit(i)
        PROVE  Ahead'
    BY <1>2, <2>1, <2>4 DEF FiberStart, ShellReady, FinishRunComplete, OnIdleReturn, FiberExit,
                            WorkExit
  <2> QED BY <1>11, <2>2, <2>3, <2>4, QuietSteps
<1>12. CASE UNCHANGED allVars
  BY <1>2, <1>12 DEF allVars, vars, sessionVars
<1>13. ASSUME NEW c \in Callers, SessionCancelIdle(c) PROVE FALSE
  BY <1>13 DEF SessionCancelIdle
<1> QED
  BY <1>4, <1>5, <1>6, <1>7, <1>8, <1>9, <1>10, <1>11, <1>12, <1>13 DEF SessionNext

(* The invariants hold at the start. *)
LEMMA SessionStart == SessionInit => RunnerInv /\ SessionInv
<1> SUFFICES ASSUME SessionInit PROVE RunnerInv /\ SessionInv
  OBVIOUS
<1>1. RunnerInv
  BY RunnerInit DEF SessionInit
<1>2. /\ \A o \in Objs : ~Busy(o) /\ \A c \in Callers : pc[c] = "ready"
      /\ \A i \in Ids : fiber[i] = "none"
  BY DEF SessionInit, Init, Busy, Idle
<1>3. SessionTypeOK /\ StatusInv
  BY <1>1 DEF SessionInit, SessionTypeOK, RunnerInv, CoreInv, StatusInv, Statuses
<1>4. MapInv
  BY DEF SessionInit, Init, MapInv, Busy, Idle
<1>5. CancelledInv
  BY DEF SessionInit, Init, CancelledInv, Cancels
<1>6. RunInv
  BY <1>2 DEF RunInv, Working
<1> QED BY <1>1, <1>3, <1>4, <1>5, <1>6 DEF SessionInv, SessionCore

LEMMA SessionCoreStep ==
  ASSUME CoreInv, SessionCore, [SessionNext]_allVars
  PROVE  [Next]_vars /\ CoreInv' /\ SessionCore'
<1>1. [Next]_vars /\ CoreInv'
  BY SessionIsRunner, CoreInvStep DEF SessionCore
<1>2. SessionTypeOK'
  BY <1>1, SessionTypeStep DEF SessionCore
<1> QED BY <1>1, <1>2, MapStep, CancelledStep DEF SessionCore

(* Whoever is interrupted and whatever begins during a cancel, a runner that *)
(* is busy is in the map or has been evicted from it by another's onIdle.    *)
THEOREM SessionCoreInvariant == SessionSpec => [](CoreInv /\ SessionCore)
<1>1. SessionInit => CoreInv /\ SessionCore
  BY SessionStart DEF RunnerInv, SessionInv
<1>2. CoreInv /\ SessionCore /\ [SessionNext]_allVars => CoreInv' /\ SessionCore'
  BY SessionCoreStep
<1> QED BY <1>1, <1>2, PTL DEF SessionSpec

(***************************************************************************)
(* All of SessionInv and RunnerInv holds if the fiber that executes a      *)
(* cancel is not interrupted, and a shell gets its first step.             *)
(***************************************************************************)
THEOREM SessionInvariant ==
  ASSUME ~AbortCancel, ~InterruptBeforeStart
  PROVE  SessionSpec => [](RunnerInv /\ SessionInv)
<1>1. SessionInit => RunnerInv /\ SessionInv
  BY SessionStart
<1>2. RunnerInv /\ SessionInv /\ [SessionNext]_allVars => RunnerInv' /\ SessionInv'
  <2> SUFFICES ASSUME RunnerInv, SessionInv, [SessionNext]_allVars
               PROVE  RunnerInv' /\ SessionInv'
    OBVIOUS
  <2>1. CoreInv /\ SessionCore
    BY DEF RunnerInv, SessionInv
  <2>2. RunnerInv' /\ SessionCore'
    BY <2>1, SessionCoreStep, RunnerInvStep
  <2> QED BY <2>1, <2>2, RunStep, StatusStep DEF SessionInv
<1> QED BY <1>1, <1>2, PTL DEF SessionSpec

(* The map, the runners and the status keep their types, whoever is          *)
(* interrupted and whatever begins during a cancel.                          *)
THEOREM SessionTypes == SessionSpec => []SessionTypeOK
<1>1. SessionInit => CoreInv /\ SessionTypeOK
  BY SessionStart DEF RunnerInv, SessionInv, SessionCore
<1>2. CoreInv /\ SessionTypeOK /\ [SessionNext]_allVars => CoreInv' /\ SessionTypeOK'
  <2> SUFFICES ASSUME CoreInv, SessionTypeOK, [SessionNext]_allVars
               PROVE  CoreInv' /\ SessionTypeOK'
    OBVIOUS
  <2>1. CoreInv'
    BY SessionIsRunner, CoreInvStep
  <2> QED BY <2>1, SessionTypeStep
<1> QED BY <1>1, <1>2, PTL DEF SessionSpec

(* Work that nobody has cancelled is in the slot of its runner, and this is  *)
(* in the map, where assertNotBusy, startShell and cancel look, or has been  *)
(* evicted from it, if no fiber that executes a cancel is interrupted.       *)
THEOREM WorkIsAccounted ==
  ASSUME ~AbortCancel
  PROVE  SessionSpec => []WorkAccounted
<1> DEFINE Seen == CoreInv /\ OwnedInv /\ SessionCore
<1>1. Seen => WorkAccounted
  <2> SUFFICES ASSUME Seen, NEW i \in Ids, Uncancelled(i)
               PROVE  Busy(handle[i].obj) /\ Shown(handle[i].obj)
    BY DEF WorkAccounted, Shown
  <2>1. handle[i].obj \in Objs
    BY RunnerFacts DEF Uncancelled, Working
  <2>2. IsCurrentRun(i) \/ HoldsShell(i)
    BY DEF OwnedInv, Owned
  <2>3. Busy(handle[i].obj)
    BY <2>2 DEF IsCurrentRun, HoldsShell, Busy
  <2> QED BY <2>1, <2>3 DEF SessionCore, MapInv
<1>2. SessionInit => Seen
  BY SessionStart DEF RunnerInv, SessionInv
<1>3. Seen /\ [SessionNext]_allVars => Seen'
  BY SessionCoreStep, OwnedStep
<1> QED BY <1>1, <1>2, <1>3, PTL DEF SessionSpec

(* A runner in use loses its entry only to the end of a cancel of another    *)
(* runner, or to the exit of work that had itself been evicted: the work     *)
(* that exits otherwise is that of the runner in the map.                    *)
THEOREM EvictionsGoBackToCancels == SessionSpec => EvictedByCancel
<1>1. CoreInv /\ SessionCore /\ [SessionNext]_allVars => Traced
  <2> SUFFICES ASSUME CoreInv, SessionCore, [SessionNext]_allVars PROVE Traced
    OBVIOUS
  <2> USE RunnerFacts
  <2>1. CASE evicted' = evicted
    BY <2>1 DEF Traced
  <2>2. ASSUME NEW c \in Callers, SessionIdleIfCurrent(c) PROVE Traced
    BY <2>2 DEF SessionIdleIfCurrent, IdleIfCurrent, Busy, sessionVars, Traced
  <2>3. ASSUME NEW i \in Ids, FinishRunCurrent(i) \/ FinishShellIdle(i), OnIdle(handle[i].obj)
        PROVE  Traced
    <3>1. PICK o \in Objs : o = handle[i].obj /\ Busy(o)
      BY <2>3 DEF FinishRunCurrent, FinishShellIdle, IsCurrentRun, Busy
    <3>2. fiber[i] = "finish" /\ fiber'[i] = "idle"
      BY <2>3 DEF FinishRunCurrent, FinishShellIdle
    <3>3. CASE runners = o
      BY <2>1, <2>3, <3>1, <3>3 DEF OnIdle, Evict
    <3>4. CASE o \in evicted
      BY <3>1, <3>2, <3>4 DEF Traced
    <3> QED BY <3>1, <3>3, <3>4 DEF SessionCore, MapInv, Shown
  <2>4. ASSUME NEW c \in Callers, NEW o \in Objs,
               SessionEnsureRunning(c, o) \/ SessionStartShell(c, o)
        PROVE  evicted' = evicted
    BY <2>4 DEF SessionEnsureRunning, SessionStartShell
  <2>5. ASSUME NEW c \in Callers, SessionCancelIdle(c) \/ SessionCancel(c)
        PROVE  evicted' = evicted
    BY <2>5 DEF SessionCancelIdle, SessionCancel, sessionVars
  <2>6. ASSUME NEW c \in Callers, NEW l \in Latches, SessionShellFork(c, l)
        PROVE  evicted' = evicted
    BY <2>6 DEF SessionShellFork, OnBusy
  <2>7. ASSUME NEW i \in Ids, NEW s \in Statuses, RunStatus(i, s) PROVE evicted' = evicted
    BY <2>7 DEF RunStatus
  <2>8. CASE UNCHANGED sessionVars \/ UNCHANGED allVars
    BY <2>1, <2>8 DEF allVars, sessionVars
  <2> QED BY <2>1, <2>2, <2>3, <2>4, <2>5, <2>6, <2>7, <2>8 DEF SessionNext, SessionFinish
<1>2. SessionSpec => [](CoreInv /\ SessionCore)
  BY SessionCoreInvariant
<1> QED BY <1>1, <1>2, PTL DEF SessionSpec, EvictedByCancel

(* When every operation has returned and every fiber has ended the status is *)
(* idle: a busy slot would hold a fiber, so nobody is left to set it.        *)
THEOREM RestIsIdle ==
  ASSUME ~AbortCancel, ~InterruptBeforeStart
  PROVE  SessionSpec => []StatusAtRest
<1>1. RunnerInv /\ SessionInv => StatusAtRest
  <2> SUFFICES ASSUME RunnerInv, SessionInv, \A c \in Callers : pc[c] = "ready",
                      \A i \in Ids : fiber[i] \in {"none", "dead"}
               PROVE  status = "idle"
    BY DEF StatusAtRest
  <2>1. CoreInv /\ SlotInv /\ ShellInv
    BY DEF RunnerInv, CoreInv
  <2>2. \A o \in Objs : ~Busy(o)
    BY <2>1, HandlesInUse DEF SlotInv, SlotOK, ShellInv, ShellOK, SlotIds, InSlot, Tags, Busy
  <2> QED BY <2>2 DEF SessionInv, StatusInv, Cancelling
<1> QED BY <1>1, SessionInvariant, PTL
=============================================================================
