--------------------------- MODULE SessionRunState --------------------------
(***************************************************************************)
(* packages/runtime/src/session/run-state.ts: the `runners` map, seen from *)
(* one session, on top of the runners of module Runner.  A runner object   *)
(* is made when the session has none, and the onIdle callback of ANY of    *)
(* the session's runners deletes the map entry and sets the status to      *)
(* idle.  Nothing keeps an operation from beginning while a cancel is      *)
(* executing: the runner of an earlier operation may still have a cancel   *)
(* in progress when a later operation has made a new one, whose entry the  *)
(* cancel then deletes.  The ghost `evicted` records the runners that lost *)
(* their entry in this way while they were in use; no guard reads it.      *)
(*                                                                         *)
(* Looking the runner up and entering its lock, and leaving the lock and   *)
(* executing onIdle, are one step each: nothing suspends in between, as    *)
(* status.set publishes on sliding PubSubs, which never wait.  For the     *)
(* same reason onBusy takes effect together with the fork of the shell.    *)
(***************************************************************************)
EXTENDS Runner

VARIABLES
  runners,   \* runners.get(sessionID), or NoObj
  made,      \* the runner objects that Runner.make has returned
  status,    \* status.get(sessionID).type
  evicted    \* ghost: runners whose entry another runner's onIdle deleted

sessionVars == <<runners, made, status, evicted>>
allVars == <<vars, sessionVars>>

Statuses == {"idle", "busy", "retry"}

SessionTypeOK ==
  /\ TypeOK
  /\ runners \in made \cup {NoObj} /\ made \subseteq Objs
  /\ status \in Statuses
  /\ evicted \subseteq made

SessionInit ==
  Init /\ runners = NoObj /\ made = {} /\ status = "idle" /\ evicted = {}

Busy(o) == st[o].tag # "Idle"

(* Work goes on in runner o, or a startShell holds its lock.                 *)
InUse(o) == Busy(o) \/ ~Free(o)

(* Mutants: the new runner is not stored in the map; it is not consulted.    *)
GetRunnerNotStored(o) ==
  /\ IF runners = NoObj THEN o \notin made ELSE o = runners
  /\ made' = made \cup {o}
  /\ UNCHANGED runners
GetRunnerAlwaysNew(o) == o \notin made /\ runners' = o /\ made' = made \cup {o}

(* runner(): the session's runner object, made if there is none. *)
GetRunner(o) ==
  /\ IF runners = NoObj THEN o \notin made ELSE o = runners
  /\ runners' = o
  /\ made' = made \cup {o}

(* Runner o's onIdle deletes the entry of another runner that is in use.     *)
Evict(o) ==
  evicted' = evicted \cup {q \in Objs \ {o} : q = runners /\ InUse(q)}

(* Mutant: onIdle forgets the status. *)
OnIdleKeepsStatus(o) == runners' = NoObj /\ Evict(o) /\ UNCHANGED <<made, status>>

(* The callbacks given to Runner.make; o is the runner that calls onIdle.    *)
OnIdle(o) == runners' = NoObj /\ status' = "idle" /\ Evict(o) /\ UNCHANGED made
OnBusy    == status' = "busy" /\ UNCHANGED <<runners, made, evicted>>

-----------------------------------------------------------------------------
(* Operations of the service *)

SessionEnsureRunning(c, o) ==
  /\ GetRunner(o) /\ EnsureRunning(c, o)
  /\ UNCHANGED <<status, evicted>>

SessionStartShell(c, o) ==
  /\ GetRunner(o) /\ (ShellBusy(c, o) \/ ShellOnBusy(c, o))
  /\ UNCHANGED <<status, evicted>>

(* cancel, when there is nothing to cancel: only the status is reset. *)
SessionCancelIdle(c) ==
  /\ pc[c] = "ready"
  /\ runners # NoObj => ~Busy(runners)
  /\ status' = "idle"
  /\ UNCHANGED <<vars, runners, made, evicted>>

SessionCancel(c) ==
  /\ runners # NoObj /\ CancelBusy(c, runners)
  /\ UNCHANGED sessionVars

-----------------------------------------------------------------------------
(* Steps of the runners, with their callbacks *)

SessionShellFork(c, l) == ShellFork(c, l) /\ OnBusy

SessionIdleIfCurrent(c) ==
  /\ IdleIfCurrent(c)
  /\ IF Busy(call[c].obj) THEN UNCHANGED sessionVars ELSE OnIdle(call[c].obj)

SessionFinish(i) ==
  \/ (FinishRunCurrent(i) \/ FinishShellIdle(i)) /\ OnIdle(handle[i].obj)
  \/ (FinishRunStale(i) \/ FinishShellHandOff(i) \/ FinishShellStale(i))
       /\ UNCHANGED sessionVars

(* runLoop and the processor set the status while a run executes: busy, retry *)
(* between attempts, idle when the processor halts on an error.               *)
RunStatus(i, s) ==
  /\ fiber[i] = "live" /\ handle[i].kind = "run"
  /\ status' = s
  /\ UNCHANGED <<vars, runners, made, evicted>>

RunnerStep ==
  \/ \E c \in Callers : \/ AwaitDone(c) \/ AwaitShell(c) \/ CancelInterruptRun(c)
                        \/ CancelStopShell(c) \/ CancelFailDone(c) \/ CancelReturn(c)
                        \/ CallerAbort(c)
  \/ \E i \in Ids : \/ FiberStart(i) \/ ShellReady(i) \/ FinishRunComplete(i)
                    \/ OnIdleReturn(i) \/ FiberExit(i)

SessionNext ==
  \/ \E c \in Callers, o \in Objs : SessionEnsureRunning(c, o) \/ SessionStartShell(c, o)
  \/ \E c \in Callers : SessionCancelIdle(c) \/ SessionCancel(c) \/ SessionIdleIfCurrent(c)
  \/ \E c \in Callers, l \in Latches : SessionShellFork(c, l)
  \/ \E i \in Ids : SessionFinish(i) \/ \E s \in Statuses : RunStatus(i, s)
  \/ RunnerStep /\ UNCHANGED sessionVars

SessionSpec == SessionInit /\ [][SessionNext]_allVars

-----------------------------------------------------------------------------
(* Properties *)

(* What assertNotBusy, startShell and cancel promise: a fiber that nobody    *)
(* has cancelled belongs to the runner in the map, and this is busy.  The    *)
(* code does not keep it: see EvictedByCancel.                               *)
BusyVisible ==
  \A i \in Ids : Uncancelled(i) => runners = handle[i].obj /\ Busy(runners)

(* What the code does keep: work that the map does not show has lost its     *)
(* entry to the onIdle of another runner, and is still in its own slot, so   *)
(* that its exit handler will find it there.                                 *)
WorkAccounted ==
  \A i \in Ids : Uncancelled(i) =>
    /\ Busy(handle[i].obj)
    /\ runners = handle[i].obj \/ handle[i].obj \in evicted

(* What takes away the entry of a runner in use.                            *)
Traced ==
  evicted' # evicted =>
    \/ \E c \in Callers : pc[c] = "idleIfCurrent" /\ pc'[c] = "idle"
    \/ \E i \in Ids : fiber[i] = "finish" /\ fiber'[i] = "idle" /\ handle[i].obj \in evicted

(* Every eviction goes back to a cancel: what deletes the entry of a runner  *)
(* in use is the end of a cancel of another runner, or the exit of work that *)
(* was itself evicted.  The ordinary end of work deletes only its own entry, *)
(* and a runner keeps its entry as long as nobody cancels.                   *)
EvictedByCancel == [][Traced]_allVars

(* Once every operation has returned and every fiber has ended, the status   *)
(* is idle: onIdle or cancel came after the last status the run had set.     *)
StatusAtRest ==
  (\A c \in Callers : pc[c] = "ready") /\ (\A i \in Ids : fiber[i] \in {"none", "dead"})
    => status = "idle"

-----------------------------------------------------------------------------
(* The inductive invariant.                                                  *)

(* No runner is busy or about to be but the one in the map and the evicted.  *)
Shown(o) == runners = o \/ o \in evicted
MapInv ==
  /\ \A o \in Objs : Busy(o) => Shown(o)
  /\ \A c \in Callers : pc[c] = "onBusy" => Shown(call[c].obj)

(* A cancel is of a runner.                                                  *)
Cancels(c) == pc[c] \in {"interrupt", "latch", "awaitFiber", "idleIfCurrent", "idle"}
CancelledInv == \A c \in Callers : Cancels(c) => call[c].obj \in Objs

(* A run that goes on is in its slot, or a cancel waits for its end.         *)
AwaitedBy(c, i) ==
  pc[c] \in Cancelling /\ call[c].st.tag = "Running" /\ call[c].st.run = i
RunInv ==
  \A i \in Ids : Working(i) /\ handle[i].kind = "run" =>
    IsCurrentRun(i) \/ \E c \in Callers : AwaitedBy(c, i)

(* Whoever is to set the status to idle: an exit handler, or a cancel.       *)
StatusInv ==
  status # "idle" => \/ \E o \in Objs : Busy(o)
                     \/ \E c \in Callers : pc[c] \in Cancelling \cup {"idleIfCurrent"}

(* What holds even if a cancel or the caller of a new shell is interrupted,  *)
(* and all of it.                                                            *)
SessionCore == SessionTypeOK /\ MapInv /\ CancelledInv
SessionInv  == SessionCore /\ RunInv /\ StatusInv
=============================================================================
