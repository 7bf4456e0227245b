------------------------------- MODULE Runner -------------------------------
(***************************************************************************)
(* The session runner of packages/runtime/src/effect/runner.ts: one slot   *)
(* that is Idle, Running a run, holding a Shell, or holding a shell with a *)
(* run queued behind it (ShellThenRun).  Caller fibers invoke              *)
(* ensureRunning, startShell and cancel; work executes in fibers of its    *)
(* own, whose exit handlers (finishRun, finishShell) race with the calls.  *)
(*                                                                         *)
(* A step is what one fiber does between two suspensions.  The body of     *)
(* SynchronizedRef.modify is one step; the effect it returns is flattened  *)
(* outside the lock and belongs to later steps.  SynchronizedRef.modify-   *)
(* Effect holds the lock (holder) while onBusy runs.                       *)
(*                                                                         *)
(* Every handle number comes from one counter shared by all runner         *)
(* objects: the code compares numbers only within one runner, and a shared *)
(* counter agrees with a private one on every such comparison.  A Deferred *)
(* is named by the number of the handle it was made for.                   *)
(***************************************************************************)
EXTENDS Naturals, FiniteSets

CONSTANTS
  Callers,              \* fibers that call the runner's operations
  Objs,                 \* runner objects (results of Runner.make)
  MaxId,                \* bound: how many times next() is called
  Outcomes,             \* bound: the ways work may exit, among Exits
  Latches,              \* bound: shells without ("none"), with ("closed") a latch
  NoCaller,             \* the lock is free
  NoObj,                \* a handle number not yet given to a runner
  InterruptBeforeStart, \* may a startShell caller die before its child runs?
  AbortCancel           \* may the fiber that executes cancel be interrupted?

Ids  == 1 .. MaxId
Ids0 == 0 .. MaxId

ASSUME RunnerAssumption ==
  /\ MaxId \in Nat
  /\ Outcomes \subseteq {"settled", "interrupt", "mixed"}
  /\ Latches \subseteq {"none", "closed"}
  /\ NoCaller \notin Callers
  /\ NoObj \notin Objs
  /\ InterruptBeforeStart \in BOOLEAN
  /\ AbortCancel \in BOOLEAN

VARIABLES
  st,       \* st[o]: the State in o's SynchronizedRef
  holder,   \* holder[o]: the caller inside modifyEffect, or NoCaller
  ids,      \* the last number next() returned
  fiber,    \* fiber[i]: life cycle of the fiber with handle number i
  handle,   \* handle[i]: what number i stands for
  intr,     \* fibers whose interruption was requested
  exit,     \* exit[i]: how the work of fiber i ended
  done,     \* done[i]: the Deferred made with number i
  latch,    \* latch[i]: the ready latch of shell i
  stopped,  \* shells whose `cancelled` Deferred has been completed
  pc,       \* pc[c]: where caller c stands
  call      \* call[c]: the runner and the state c's operation captured

vars == <<st, holder, ids, fiber, handle, intr, exit, done, latch, stopped,
          pc, call>>

-----------------------------------------------------------------------------
(* The State union of the code; absent fields are 0. *)

Idle                  == [tag |-> "Idle", shell |-> 0, run |-> 0, done |-> 0]
Running(i, d)         == [tag |-> "Running", shell |-> 0, run |-> i, done |-> d]
Shell(i)              == [tag |-> "Shell", shell |-> i, run |-> 0, done |-> 0]
ShellThenRun(i, p)    == [tag |-> "ShellThenRun", shell |-> i, run |-> p, done |-> p]

Tags     == {"Idle", "Running", "Shell", "ShellThenRun"}
States   == [tag : Tags, shell : Ids0, run : Ids0, done : Ids0]

NoHandle == [kind |-> "none", obj |-> NoObj, done |-> 0]
Handles  == [kind : {"none", "run", "shell", "pending"}, obj : Objs \cup {NoObj},
             done : Ids0]

(* forked: scheduled, not started; live: executing the work; finish: the     *)
(* work exited and the exit handler is about to take the lock; idle: inside  *)
(* the onIdle callback; complete: about to complete `done`; dead: exited.    *)
FiberStates == {"none", "forked", "live", "finish", "idle", "complete", "dead"}
(* settled: a success, a failure or a defect; interrupt: interrupts only;    *)
(* mixed: an interrupt together with a failure.                              *)
Exits       == {"none", "settled", "interrupt", "mixed"}
DoneStates  == {"none", "pending", "settled", "cancelled"}
NoCall      == [obj |-> NoObj, st |-> Idle]
Pcs         == {"ready", "awaitDone", "onBusy", "awaitShell", "interrupt",
                "latch", "awaitFiber", "idleIfCurrent", "idle"}

TypeOK ==
  /\ st \in [Objs -> States]
  /\ holder \in [Objs -> Callers \cup {NoCaller}]
  /\ ids \in Ids0
  /\ fiber \in [Ids -> FiberStates]
  /\ handle \in [Ids -> Handles]
  /\ intr \subseteq Ids
  /\ exit \in [Ids -> Exits]
  /\ done \in [Ids -> DoneStates]
  /\ latch \in [Ids -> {"none", "closed", "open"}]
  /\ stopped \subseteq Ids
  /\ pc \in [Callers -> Pcs]
  /\ call \in [Callers -> [obj : Objs \cup {NoObj}, st : States]]

Init ==
  /\ st = [o \in Objs |-> Idle]
  /\ holder = [o \in Objs |-> NoCaller]
  /\ ids = 0
  /\ fiber = [i \in Ids |-> "none"]
  /\ handle = [i \in Ids |-> NoHandle]
  /\ intr = {}
  /\ exit = [i \in Ids |-> "none"]
  /\ done = [i \in Ids |-> "none"]
  /\ latch = [i \in Ids |-> "none"]
  /\ stopped = {}
  /\ pc = [c \in Callers |-> "ready"]
  /\ call = [c \in Callers |-> NoCall]

-----------------------------------------------------------------------------
(* Helpers *)

Free(o) == holder[o] = NoCaller

(* Bound on next(): a run queued behind a shell keeps one number in reserve  *)
(* for the number startRun will ask for.                                     *)
Queued == {o \in Objs : st[o].tag = "ShellThenRun"}
Room(n) == ids + n + Cardinality(Queued) <= MaxId

(* c suspends at p having captured state s of runner o. *)
Capture(c, o, s, p) ==
  /\ pc' = [pc EXCEPT ![c] = p]
  /\ call' = [call EXCEPT ![c] = [obj |-> o, st |-> s]]

Return(c) ==
  /\ pc' = [pc EXCEPT ![c] = "ready"]
  /\ call' = [call EXCEPT ![c] = NoCall]

(* Mutant: next() is called once more than there are handles. *)
StartRunTwice(i, o, d) ==
  /\ ids' = i + 1
  /\ fiber' = [fiber EXCEPT ![i] = "forked"]
  /\ handle' = [handle EXCEPT ![i] = [kind |-> "run", obj |-> o, done |-> d]]

(* startRun: number i, forked in the runner's scope, resolving Deferred d. *)
StartRun(i, o, d) ==
  /\ ids' = i
  /\ fiber' = [fiber EXCEPT ![i] = "forked"]
  /\ handle' = [handle EXCEPT ![i] = [kind |-> "run", obj |-> o, done |-> d]]

(* A fiber interrupted before its first step exits without its handlers.     *)
InterruptFiber(i) ==
  /\ intr' = intr \cup {i}
  /\ fiber' = [fiber EXCEPT ![i] = IF @ = "forked" THEN "dead" ELSE @]

(* Mutant: every exit is reported as a cancellation. *)
CompleteAlwaysCancelled(d, e) ==
  done' = [done EXCEPT ![d] = IF @ # "pending" THEN @ ELSE "cancelled"]

Complete(d, e) ==
  done' = [done EXCEPT ![d] =
             IF @ # "pending" THEN @
             ELSE IF e = "interrupt" THEN "cancelled" ELSE "settled"]

FailCancelled(d) ==
  done' = [done EXCEPT ![d] = IF @ = "pending" THEN "cancelled" ELSE @]

-----------------------------------------------------------------------------
(* ensureRunning *)

EnsureJoin(c, o) ==
  /\ pc[c] = "ready" /\ Free(o)
  /\ st[o].tag \in {"Running", "ShellThenRun"}
  /\ Capture(c, o, st[o], "awaitDone")
  /\ UNCHANGED <<st, holder, ids, fiber, handle, intr, exit, done, latch, stopped>>

EnsureQueue(c, o) ==
  /\ pc[c] = "ready" /\ Free(o)
  /\ st[o].tag = "Shell"
  /\ ids < MaxId /\ Room(2)
  /\ LET p == ids + 1
         s == ShellThenRun(st[o].shell, p)
     IN  /\ ids' = p
         /\ handle' = [handle EXCEPT ![p] = [kind |-> "pending", obj |-> o, done |-> p]]
         /\ done' = [done EXCEPT ![p] = "pending"]
         /\ st' = [st EXCEPT ![o] = s]
         /\ Capture(c, o, s, "awaitDone")
  /\ UNCHANGED <<holder, fiber, intr, exit, latch, stopped>>

EnsureStart(c, o) ==
  /\ pc[c] = "ready" /\ Free(o)
  /\ st[o].tag = "Idle"
  /\ ids < MaxId /\ Room(1)
  /\ LET i == ids + 1
         s == Running(i, i)
     IN  /\ StartRun(i, o, i)
         /\ done' = [done EXCEPT ![i] = "pending"]
         /\ st' = [st EXCEPT ![o] = s]
         /\ Capture(c, o, s, "awaitDone")
  /\ UNCHANGED <<holder, intr, exit, latch, stopped>>

EnsureRunning(c, o) == EnsureJoin(c, o) \/ EnsureQueue(c, o) \/ EnsureStart(c, o)

(* What awaitDone gives its caller: catchTag turns Cancelled into onInterrupt. *)
DoneResult(d) == IF done[d] = "cancelled" THEN "onInterrupt" ELSE "exit"

AwaitDone(c) ==
  /\ pc[c] = "awaitDone"
  /\ done[call[c].st.done] \notin {"none", "pending"}
  /\ Return(c)
  /\ UNCHANGED <<st, holder, ids, fiber, handle, intr, exit, done, latch, stopped>>

-----------------------------------------------------------------------------
(* startShell *)

ShellBusy(c, o) ==
  /\ pc[c] = "ready" /\ Free(o)
  /\ st[o].tag # "Idle"
  /\ Return(c)
  /\ UNCHANGED <<st, holder, ids, fiber, handle, intr, exit, done, latch, stopped>>

ShellOnBusy(c, o) ==
  /\ pc[c] = "ready" /\ Free(o)
  /\ st[o].tag = "Idle"
  /\ ids < MaxId /\ Room(1)
  /\ holder' = [holder EXCEPT ![o] = c]
  /\ Capture(c, o, Idle, "onBusy")
  /\ UNCHANGED <<st, ids, fiber, handle, intr, exit, done, latch, stopped>>

(* onBusy returned: fork the shell as a child, with or without a latch. *)
ShellFork(c, l) ==
  /\ pc[c] = "onBusy"
  /\ ids < MaxId
  /\ LET i == ids + 1
         o == call[c].obj
     IN  /\ ids' = i
         /\ fiber' = [fiber EXCEPT ![i] = "forked"]
         /\ handle' = [handle EXCEPT ![i] = [kind |-> "shell", obj |-> o, done |-> 0]]
         /\ latch' = [latch EXCEPT ![i] = l]
         /\ st' = [st EXCEPT ![o] = Shell(i)]
         /\ holder' = [holder EXCEPT ![o] = NoCaller]
         /\ Capture(c, o, Shell(i), "awaitShell")
  /\ UNCHANGED <<intr, exit, done, stopped>>

(* What the caller gets from the exit of its shell. *)
ShellResult(i) ==
  IF \/ exit[i] \in {"none", "interrupt"}
     \/ exit[i] = "mixed" /\ i \in stopped
  THEN "onInterrupt" ELSE "exit"

AwaitShell(c) ==
  /\ pc[c] = "awaitShell"
  /\ fiber[call[c].st.shell] = "dead"
  /\ Return(c)
  /\ UNCHANGED <<st, holder, ids, fiber, handle, intr, exit, done, latch, stopped>>

-----------------------------------------------------------------------------
(* cancel: the lock step sets Idle; what follows runs outside the lock. *)

CancelIdle(c, o) ==
  /\ pc[c] = "ready" /\ Free(o)
  /\ st[o].tag = "Idle"
  /\ Return(c)
  /\ UNCHANGED <<st, holder, ids, fiber, handle, intr, exit, done, latch, stopped>>

(* Mutant: the state is set to Idle only by idleIfCurrent, too late. *)
CancelBusyKeepsState(c, o) ==
  /\ pc[c] = "ready" /\ Free(o)
  /\ st[o].tag # "Idle"
  /\ Capture(c, o, st[o], IF st[o].tag = "Running" THEN "interrupt" ELSE "latch")
  /\ UNCHANGED <<st, holder, ids, fiber, handle, intr, exit, done, latch, stopped>>

CancelBusy(c, o) ==
  /\ pc[c] = "ready" /\ Free(o)
  /\ st[o].tag # "Idle"
  /\ Capture(c, o, st[o], IF st[o].tag = "Running" THEN "interrupt" ELSE "latch")
  /\ st' = [st EXCEPT ![o] = Idle]
  /\ UNCHANGED <<holder, ids, fiber, handle, intr, exit, done, latch, stopped>>

Cancel(c, o) == CancelIdle(c, o) \/ CancelBusy(c, o)

CancelInterruptRun(c) ==
  /\ pc[c] = "interrupt"
  /\ InterruptFiber(call[c].st.run)
  /\ pc' = [pc EXCEPT ![c] = "awaitFiber"]
  /\ UNCHANGED <<st, holder, ids, handle, exit, done, latch, stopped, call>>

(* Mutant: stopShell waits for a latch although the shell has none. *)
CancelStopShellNeedsLatch(c) ==
  /\ pc[c] = "latch"
  /\ latch[call[c].st.shell] = "open"
  /\ stopped' = stopped \cup {call[c].st.shell}
  /\ InterruptFiber(call[c].st.shell)
  /\ pc' = [pc EXCEPT ![c] = "awaitFiber"]
  /\ UNCHANGED <<st, holder, ids, handle, exit, done, latch, call>>

(* stopShell: wait for the latch, mark the shell cancelled, interrupt it. *)
CancelStopShell(c) ==
  /\ pc[c] = "latch"
  /\ latch[call[c].st.shell] # "closed"
  /\ stopped' = stopped \cup {call[c].st.shell}
  /\ InterruptFiber(call[c].st.shell)
  /\ pc' = [pc EXCEPT ![c] = "awaitFiber"]
  /\ UNCHANGED <<st, holder, ids, handle, exit, done, latch, call>>

(* The fiber a cancel that captured state s interrupts and waits for. *)
Target(s) == IF s.tag = "Running" THEN s.run ELSE s.shell

(* Mutant: the Deferred of the cancelled run is not failed. *)
CancelForgetsDone(c) ==
  /\ pc[c] = "awaitFiber"
  /\ fiber[Target(call[c].st)] = "dead"
  /\ pc' = [pc EXCEPT ![c] = "idleIfCurrent"]
  /\ UNCHANGED <<st, holder, ids, fiber, handle, intr, exit, done, latch, stopped, call>>

(* Fiber.interrupt returned: fail the run's Deferred, if there is a run. *)
CancelFailDone(c) ==
  /\ pc[c] = "awaitFiber"
  /\ LET s == call[c].st
     IN  /\ fiber[Target(s)] = "dead"
         /\ IF s.tag = "Shell" THEN UNCHANGED done ELSE FailCancelled(s.done)
  /\ pc' = [pc EXCEPT ![c] = "idleIfCurrent"]
  /\ UNCHANGED <<st, holder, ids, fiber, handle, intr, exit, latch, stopped, call>>

IdleIfCurrent(c) ==
  /\ pc[c] = "idleIfCurrent" /\ Free(call[c].obj)
  /\ IF st[call[c].obj].tag = "Idle"
     THEN pc' = [pc EXCEPT ![c] = "idle"] /\ UNCHANGED call
     ELSE Return(c)
  /\ UNCHANGED <<st, holder, ids, fiber, handle, intr, exit, done, latch, stopped>>

CancelReturn(c) ==
  /\ pc[c] = "idle"
  /\ Return(c)
  /\ UNCHANGED <<st, holder, ids, fiber, handle, intr, exit, done, latch, stopped>>

-----------------------------------------------------------------------------
(* Interruption of the calling fiber (a client that drops its request). *)

AbortEnsure(c) ==
  /\ pc[c] = "awaitDone"
  /\ Return(c)
  /\ UNCHANGED <<st, holder, ids, fiber, handle, intr, exit, done, latch, stopped>>

(* Inside modifyEffect: the lock is released and the state left as it was. *)
AbortOnBusy(c) ==
  /\ pc[c] = "onBusy"
  /\ holder' = [holder EXCEPT ![call[c].obj] = NoCaller]
  /\ Return(c)
  /\ UNCHANGED <<st, ids, fiber, handle, intr, exit, done, latch, stopped>>

(* The shell is a child of the caller: it is interrupted with it. *)
AbortShell(c) ==
  /\ pc[c] = "awaitShell"
  /\ fiber[call[c].st.shell] # "forked" \/ InterruptBeforeStart
  /\ InterruptFiber(call[c].st.shell)
  /\ Return(c)
  /\ UNCHANGED <<st, holder, ids, handle, exit, done, latch, stopped>>

(* Only while cancel is suspended: on the latch, or on a fiber that goes on. *)
AbortCanceller(c) ==
  /\ AbortCancel
  /\ \/ pc[c] = "latch" /\ latch[call[c].st.shell] = "closed"
     \/ pc[c] = "awaitFiber" /\ fiber[Target(call[c].st)] # "dead"
  /\ Return(c)
  /\ UNCHANGED <<st, holder, ids, fiber, handle, intr, exit, done, latch, stopped>>

-----------------------------------------------------------------------------
(* Work fibers *)

FiberStart(i) ==
  /\ fiber[i] = "forked"
  /\ fiber' = [fiber EXCEPT ![i] = "live"]
  /\ UNCHANGED <<st, holder, ids, handle, intr, exit, done, latch, stopped, pc, call>>

(* shellImpl opens its latch once the messages of the shell are stored. *)
ShellReady(i) ==
  /\ fiber[i] = "live" /\ latch[i] = "closed"
  /\ latch' = [latch EXCEPT ![i] = "open"]
  /\ UNCHANGED <<st, holder, ids, fiber, handle, intr, exit, done, stopped, pc, call>>

(* The work ends by itself, or because it was interrupted.  shellImpl is     *)
(* uninterruptible until the latch is open, and opens it whatever happens.   *)
WorkExit(i, e) ==
  /\ fiber[i] = "live" /\ latch[i] # "closed"
  /\ e = "settled" \/ i \in intr
  /\ fiber' = [fiber EXCEPT ![i] = "finish"]
  /\ exit' = [exit EXCEPT ![i] = e]
  /\ UNCHANGED <<st, holder, ids, handle, intr, done, latch, stopped, pc, call>>

(* Mutants: finishRun compares the tag only; finishShell ignores a queued run. *)
IsAnyRun(i)       == st[handle[i].obj].tag = "Running"
HoldsOnlyShell(i) == st[handle[i].obj].tag = "Shell" /\ st[handle[i].obj].shell = i

IsCurrentRun(i)   == LET s == st[handle[i].obj] IN s.tag = "Running" /\ s.run = i
HoldsShell(i)     == LET s == st[handle[i].obj]
                     IN  s.tag \in {"Shell", "ShellThenRun"} /\ s.shell = i

(* finishRun: the lock step, the onIdle callback, and the completion.  A run *)
(* that a cancel has replaced leaves the slot alone.                         *)
FinishRunCurrent(i) ==
  /\ fiber[i] = "finish" /\ handle[i].kind = "run" /\ Free(handle[i].obj)
  /\ IsCurrentRun(i)
  /\ st' = [st EXCEPT ![handle[i].obj] = Idle]
  /\ fiber' = [fiber EXCEPT ![i] = "idle"]
  /\ UNCHANGED <<holder, ids, handle, intr, exit, done, latch, stopped, pc, call>>

FinishRunStale(i) ==
  /\ fiber[i] = "finish" /\ handle[i].kind = "run" /\ Free(handle[i].obj)
  /\ ~IsCurrentRun(i)
  /\ fiber' = [fiber EXCEPT ![i] = "complete"]
  /\ UNCHANGED <<st, holder, ids, handle, intr, exit, done, latch, stopped, pc, call>>

FinishRunComplete(i) ==
  /\ fiber[i] = "complete"
  /\ Complete(handle[i].done, exit[i])
  /\ fiber' = [fiber EXCEPT ![i] = "dead"]
  /\ UNCHANGED <<st, holder, ids, handle, intr, exit, latch, stopped, pc, call>>

(* onIdle returned to finishRun or to finishShell. *)
OnIdleReturn(i) ==
  /\ fiber[i] = "idle"
  /\ fiber' = [fiber EXCEPT ![i] = IF handle[i].kind = "run" THEN "complete" ELSE "dead"]
  /\ UNCHANGED <<st, holder, ids, handle, intr, exit, done, latch, stopped, pc, call>>

(* finishShell: go idle, hand the slot to the queued run, or do nothing when  *)
(* a cancel has already taken the slot away.                                  *)
FinishShellIdle(i) ==
  /\ fiber[i] = "finish" /\ handle[i].kind = "shell" /\ Free(handle[i].obj)
  /\ HoldsShell(i) /\ st[handle[i].obj].tag = "Shell"
  /\ st' = [st EXCEPT ![handle[i].obj] = Idle]
  /\ fiber' = [fiber EXCEPT ![i] = "idle"]
  /\ UNCHANGED <<holder, ids, handle, intr, exit, done, latch, stopped, pc, call>>

FinishShellHandOff(i) ==
  /\ fiber[i] = "finish" /\ handle[i].kind = "shell" /\ Free(handle[i].obj)
  /\ HoldsShell(i) /\ st[handle[i].obj].tag = "ShellThenRun"
  /\ ids < MaxId
  /\ LET n == ids + 1
         o == handle[i].obj
         d == st[o].done
     IN  /\ ids' = n
         /\ fiber' = [fiber EXCEPT ![n] = "forked", ![i] = "dead"]
         /\ handle' = [handle EXCEPT ![n] = [kind |-> "run", obj |-> o, done |-> d]]
         /\ st' = [st EXCEPT ![o] = Running(n, d)]
  /\ UNCHANGED <<holder, intr, exit, done, latch, stopped, pc, call>>

FinishShellStale(i) ==
  /\ fiber[i] = "finish" /\ handle[i].kind = "shell" /\ Free(handle[i].obj)
  /\ ~HoldsShell(i)
  /\ fiber' = [fiber EXCEPT ![i] = "dead"]
  /\ UNCHANGED <<st, holder, ids, handle, intr, exit, done, latch, stopped, pc, call>>

-----------------------------------------------------------------------------
(* Steps of a caller once its operation has begun, and steps of a fiber. *)

CallerStep(c) ==
  \/ AwaitDone(c) \/ AwaitShell(c)
  \/ \E l \in Latches : ShellFork(c, l)
  \/ CancelInterruptRun(c) \/ CancelStopShell(c) \/ CancelFailDone(c)
  \/ IdleIfCurrent(c) \/ CancelReturn(c)

CallerAbort(c) == AbortEnsure(c) \/ AbortOnBusy(c) \/ AbortShell(c) \/ AbortCanceller(c)

(* Steps that wait for the lock of the SynchronizedRef. *)
FinishStep(i) ==
  \/ FinishRunCurrent(i) \/ FinishRunStale(i)
  \/ FinishShellIdle(i) \/ FinishShellHandOff(i) \/ FinishShellStale(i)

FiberStep(i) ==
  \/ FiberStart(i) \/ ShellReady(i) \/ FinishStep(i)
  \/ FinishRunComplete(i) \/ OnIdleReturn(i)

FiberExit(i) == \E e \in Outcomes : WorkExit(i, e)

Next ==
  \/ \E c \in Callers, o \in Objs :
        EnsureRunning(c, o) \/ ShellBusy(c, o) \/ ShellOnBusy(c, o) \/ Cancel(c, o)
  \/ \E c \in Callers : CallerStep(c) \/ CallerAbort(c)
  \/ \E i \in Ids : FiberStep(i) \/ FiberExit(i)

(* Fibers that can run are run, the semaphore of the SynchronizedRef wakes   *)
(* its waiters on every release, and work that was interrupted ends.  Only   *)
(* the steps that take the lock need strong fairness: every other step below *)
(* stays enabled until it is taken.  Nothing obliges a caller to call or to  *)
(* be interrupted, or uninterrupted work to end.                             *)
Progress(i) == FiberStep(i) \/ (i \in intr /\ FiberExit(i))

Fairness ==
  /\ \A c \in Callers : SF_vars(CallerStep(c))
  /\ \A i \in Ids : SF_vars(Progress(i))

Spec == Init /\ [][Next]_vars
FairSpec == Spec /\ Fairness

-----------------------------------------------------------------------------
(* Properties *)

Cancelling == {"interrupt", "latch", "awaitFiber"}
InSlot     == {"forked", "live", "finish"}   \* the exit handler is still to come

Working(i) == fiber[i] \in {"forked", "live"}

(* Some canceller has taken fiber i out of its slot and will interrupt it. *)
ToInterrupt(i) ==
  \E c \in Callers : \/ pc[c] = "interrupt" /\ call[c].st.run = i
                     \/ pc[c] = "latch" /\ call[c].st.shell = i

Uncancelled(i) == Working(i) /\ i \notin intr /\ ~ToInterrupt(i)

(* "shell runs exclusively", and ensureRunning never starts a second run:    *)
(* two pieces of work of one runner that nobody has cancelled are the same   *)
(* one, although cancel empties the slot before the old fiber has ended.     *)
ExclusiveWork ==
  \A i, j \in Ids :
    Uncancelled(i) /\ Uncancelled(j) /\ handle[i].obj = handle[j].obj => i = j

(* Who will complete Deferred d: the run queued behind a shell that is still *)
(* to hand over, a run fiber that has not exited, or a cancel on its way.    *)
SlotSettles(o, d) ==
  st[o].tag = "ShellThenRun" /\ st[o].done = d /\ fiber[st[o].shell] \in InSlot
FiberSettles(i, d) ==
  handle[i].kind = "run" /\ handle[i].done = d /\ fiber[i] \notin {"none", "dead"}
CancelSettles(c, d) ==
  pc[c] \in Cancelling /\ call[c].st.tag # "Shell" /\ call[c].st.done = d

HasSettler(d) ==
  \/ \E o \in Objs : SlotSettles(o, d)
  \/ \E i \in Ids : FiberSettles(i, d)
  \/ \E c \in Callers : CancelSettles(c, d)

(* No ensureRunning caller is forgotten: as long as its Deferred is pending  *)
(* some fiber or cancel is left that completes it (finishRun, finishShell    *)
(* followed by a run, or the Deferred.fail of cancel).                       *)
NoLostCaller ==
  \A c \in Callers :
    pc[c] = "awaitDone" /\ done[call[c].st.done] = "pending"
      => HasSettler(call[c].st.done)

(* A busy slot is held by a fiber whose exit handler is still to come, so    *)
(* `busy` cannot stay true after the work is gone.                           *)
BusyHasFiber ==
  \A o \in Objs :
    /\ st[o].tag = "Running" => fiber[st[o].run] \in InSlot
    /\ st[o].tag \in {"Shell", "ShellThenRun"}
          => fiber[st[o].shell] \in InSlot

(* A caller is given the onInterrupt fallback only for work that was really  *)
(* interrupted: awaitDone and startShell never report a cancellation for a   *)
(* run or shell nobody interrupted.                                          *)
FallbackOnlyIfInterrupted ==
  \A c \in Callers :
    /\ pc[c] = "awaitDone" /\ DoneResult(call[c].st.done) = "onInterrupt"
         => \A i \in Ids : handle[i].kind = "run" /\ handle[i].done = call[c].st.done
                            => i \in intr
    /\ pc[c] = "awaitShell" /\ fiber[call[c].st.shell] = "dead"
         /\ ShellResult(call[c].st.shell) = "onInterrupt"
         => call[c].st.shell \in intr

(* The runner implements RunSlot: a promise is served by one slot at most    *)
(* and is settled once, after the slot was given back.                       *)
Slot == INSTANCE RunSlot WITH slot    <- [o \in Objs |-> st[o].tag],
                              cur     <- [o \in Objs |-> st[o].done],
                              promise <- done
ImplementsRunSlot == Slot!Spec

-----------------------------------------------------------------------------
(* The inductive invariant behind these properties (proved in RunnerProofs). *)

RunHandle(i, o, d) == handle[i].kind = "run" /\ handle[i].obj = o /\ handle[i].done = d
ShellHandle(i, o)  == handle[i].kind = "shell" /\ handle[i].obj = o

WellFormed(s) ==
  \/ s = Idle
  \/ s.tag = "Running" /\ s.run \in 1 .. ids /\ s.done \in 1 .. ids /\ s.shell = 0
  \/ s.tag = "Shell" /\ s.shell \in 1 .. ids /\ s.run = 0 /\ s.done = 0
  \/ s.tag = "ShellThenRun" /\ s.shell \in 1 .. ids /\ s.done \in 1 .. ids

(* Numbers that next() has not returned are unused. *)
FreshInv ==
  /\ \A i \in Ids : i > ids => /\ fiber[i] = "none" /\ handle[i] = NoHandle
                               /\ done[i] = "none" /\ exit[i] = "none" /\ i \notin intr
  /\ \A o \in Objs : WellFormed(st[o])
  /\ \A c \in Callers : WellFormed(call[c].st)

(* While onBusy runs under the lock the state is still Idle. *)
LockInv ==
  \A c \in Callers : pc[c] = "onBusy" =>
    call[c].obj \in Objs /\ holder[call[c].obj] = c /\ st[call[c].obj] = Idle

(* What a slot holds: a run before its exit handler, or a shell, and for a   *)
(* run, also a queued one, a pending Deferred.                               *)
SlotOK(o) ==
  /\ st[o].tag = "Running" =>
       fiber[st[o].run] \in InSlot /\ RunHandle(st[o].run, o, st[o].done)
  /\ st[o].tag \in {"Shell", "ShellThenRun"} => ShellHandle(st[o].shell, o)
  /\ st[o].tag \in {"Running", "ShellThenRun"} => done[st[o].done] = "pending"

SlotInv == \A o \in Objs : SlotOK(o)

(* The shell too is before its exit handler: not when its caller can be      *)
(* interrupted between the fork and the shell's first step.                  *)
ShellOK(o) == st[o].tag \in {"Shell", "ShellThenRun"} => fiber[st[o].shell] \in InSlot

ShellInv == \A o \in Objs : ShellOK(o)

(* A Deferred belongs to one run: to one slot, and to one fiber at most, and *)
(* to none while the run is queued.                                          *)
OneFiberPerDone ==
  \A i, j \in Ids : handle[i].kind = "run" /\ handle[j].kind = "run"
                      /\ handle[i].done = handle[j].done => i = j
OneSlotPerDone ==
  \A o, q \in Objs : st[o].done # 0 /\ st[o].done = st[q].done => o = q
QueuedHasNoFiber ==
  \A o \in Objs, i \in Ids :
    st[o].tag = "ShellThenRun" /\ handle[i].kind = "run" => handle[i].done # st[o].done

DoneInv == OneFiberPerDone /\ OneSlotPerDone /\ QueuedHasNoFiber

(* What a suspended operation captured is still true of it; what a cancel    *)
(* captured is in no slot any more.                                          *)
CallOK(c) ==
  LET s == call[c].st IN
  /\ pc[c] = "awaitDone" => s.tag \in {"Running", "ShellThenRun"} /\ done[s.done] # "none"
  /\ pc[c] = "awaitShell" => s.tag = "Shell" /\ handle[s.shell].kind = "shell"
  /\ pc[c] = "interrupt" => s.tag = "Running"
  /\ pc[c] = "latch" => s.tag \in {"Shell", "ShellThenRun"}
  /\ pc[c] = "awaitFiber" => s # Idle /\ Target(s) \in intr
  /\ pc[c] \in Cancelling /\ s.tag = "Running" =>
       /\ RunHandle(s.run, call[c].obj, s.done)
       /\ \A o \in Objs : st[o].tag = "Running" => st[o].run # s.run
  /\ pc[c] \in Cancelling /\ s.tag \in {"Shell", "ShellThenRun"} =>
       /\ handle[s.shell].kind = "shell"
       /\ \A o \in Objs : st[o].tag \in {"Shell", "ShellThenRun"} => st[o].shell # s.shell
  /\ pc[c] \in Cancelling /\ s.tag = "ShellThenRun" =>
       /\ \A o \in Objs : st[o].done # s.done
       /\ \A i \in Ids : handle[i].kind = "run" => handle[i].done # s.done

CallInv == \A c \in Callers : CallOK(c)

(* How a fiber ended is consistent with who interrupted it. *)
ExitInv ==
  /\ \A i \in Ids : /\ exit[i] \in {"interrupt", "mixed"} => i \in intr
                    /\ fiber[i] = "dead" /\ exit[i] = "none" => i \in intr
                    /\ fiber[i] \in {"finish", "idle", "complete"} => exit[i] # "none"
                    /\ fiber[i] = "complete" => handle[i].kind = "run"
                    /\ fiber[i] # "none" => /\ handle[i].kind \in {"run", "shell"}
                                            /\ handle[i].obj \in Objs
                    /\ handle[i].kind = "run" => handle[i].done \in 1 .. ids
  /\ \A i, d \in Ids : done[d] = "cancelled" /\ handle[i].kind = "run"
                         /\ handle[i].done = d => i \in intr

(* Work that nobody has cancelled is what its slot holds. *)
Owned(i) == Uncancelled(i) => IsCurrentRun(i) \/ HoldsShell(i)
OwnedInv == \A i \in Ids : Owned(i)

Settles(d) == done[d] = "pending" => HasSettler(d)
SettledInv == \A d \in Ids : Settles(d)

(* What holds whoever is interrupted, and what holds as long as nobody       *)
(* interrupts a canceller, or a caller whose shell has not begun.            *)
CoreInv ==
  /\ TypeOK /\ FreshInv /\ LockInv /\ SlotInv /\ DoneInv /\ CallInv /\ ExitInv

RunnerInv == CoreInv /\ ShellInv /\ OwnedInv /\ SettledInv

(* cancel returns: waiting for the ready latch, for the interrupted fiber    *)
(* and for the lock ends, also when replacement work starts meanwhile.       *)
CancelReturns ==
  \A c \in Callers :
    pc[c] \in Cancelling \cup {"idleIfCurrent", "idle"} ~> pc[c] = "ready"

(* Once a cancel has captured a run, running or queued behind a shell, every *)
(* caller that awaits this run is resumed.                                   *)
CancelSettlesCallers ==
  \A c \in Callers :
    (/\ pc[c] = "awaitDone"
     /\ \E k \in Callers : /\ pc[k] \in Cancelling /\ call[k].st.tag # "Shell"
                           /\ call[k].st.done = call[c].st.done)
      ~> pc[c] # "awaitDone"
=============================================================================
