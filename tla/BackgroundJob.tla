---------------------------- MODULE BackgroundJob ---------------------------
(***************************************************************************)
(* packages/runtime/src/background/job.ts: the table of background jobs of *)
(* one instance.  A job id may be used again once its job has ended (the   *)
(* task tool uses the session id), so every call of start that begins work *)
(* makes a new generation: an Active record with its own Deferred and      *)
(* fiber.  finish knows the id only, and writes to whatever generation the *)
(* table holds under this id when it takes the lock.  Nothing keeps an id  *)
(* from being started again while a cancel of it is executing, so a finish *)
(* may end a generation it was not meant for: the ghost `struck` records   *)
(* these, and no guard reads it.                                           *)
(*                                                                         *)
(* A step is what one fiber does between two suspensions.  The work is     *)
(* forked with startImmediately while start holds the lock, so its exit    *)
(* handler can take the lock only after the entry is stored.               *)
(***************************************************************************)
EXTENDS Naturals

CONSTANTS
  Callers,  \* fibers that call start, wait and cancel
  JobIds,   \* ids given to start
  MaxJobs,  \* bound: how many generations start makes
  NoJob     \* no id

Gens  == 1 .. MaxJobs
Gens0 == 0 .. MaxJobs

ASSUME JobAssumption ==
  /\ MaxJobs \in Nat
  /\ NoJob \notin JobIds

VARIABLES
  jobs,     \* jobs[k]: the generation in the table under id k, 0 if none
  started,  \* how many generations exist
  job,      \* job[g]: the id of generation g
  info,     \* info[g]: the status in the Info record of g
  done,     \* done[g]: the Deferred of g
  fiber,    \* fiber[g]: life cycle of g's fiber
  exit,     \* exit[g]: the status g's own exit handler reports
  intr,     \* generations whose fiber was asked to stop
  pc,       \* pc[c]: where caller c stands
  at,       \* at[c]: the id and the generation c's operation captured
  struck    \* ghost: generations ended by a finish on behalf of another one

vars == <<jobs, started, job, info, done, fiber, exit, intr, pc, at, struck>>

Terminal == {"completed", "error", "cancelled"}
NoCall   == [id |-> NoJob, gen |-> 0]

(* live: executing `run`; finish: the exit handler is about to call finish. *)
TypeOK ==
  /\ jobs \in [JobIds -> Gens0]
  /\ started \in Gens0
  /\ job \in [Gens -> JobIds \cup {NoJob}]
  /\ info \in [Gens -> {"none", "running"} \cup Terminal]
  /\ done \in [Gens -> {"none", "pending"} \cup Terminal]
  /\ fiber \in [Gens -> {"none", "live", "finish", "dead"}]
  /\ exit \in [Gens -> {"none"} \cup Terminal]
  /\ intr \subseteq Gens
  /\ pc \in [Callers -> {"ready", "wait", "waitTimeout", "awaitFiber"}]
  /\ at \in [Callers -> [id : JobIds \cup {NoJob}, gen : Gens0]]
  /\ struck \subseteq Gens

Init ==
  /\ jobs = [k \in JobIds |-> 0]
  /\ started = 0
  /\ job = [g \in Gens |-> NoJob]
  /\ info = [g \in Gens |-> "none"]
  /\ done = [g \in Gens |-> "none"]
  /\ fiber = [g \in Gens |-> "none"]
  /\ exit = [g \in Gens |-> "none"]
  /\ intr = {}
  /\ pc = [c \in Callers |-> "ready"]
  /\ at = [c \in Callers |-> NoCall]
  /\ struck = {}

-----------------------------------------------------------------------------
(* Helpers *)

IsRunning(k) == jobs[k] # 0 /\ info[jobs[k]] = "running"

Suspend(c, k, p) ==
  /\ pc' = [pc EXCEPT ![c] = p]
  /\ at' = [at EXCEPT ![c] = [id |-> k, gen |-> jobs[k]]]

Return(c) ==
  /\ pc' = [pc EXCEPT ![c] = "ready"]
  /\ at' = [at EXCEPT ![c] = NoCall]

Settle(g, s) ==
  /\ info' = [info EXCEPT ![g] = s]
  /\ done' = [done EXCEPT ![g] = IF @ = "pending" THEN s ELSE @]

(* Mutants: the entry is overwritten whatever its status; the Deferred of a  *)
(* finished job is not completed.                                            *)
FinishAnyStatus(k, s) ==
  IF jobs[k] # 0 THEN Settle(jobs[k], s) ELSE UNCHANGED <<info, done>>
FinishForgetsDone(k, s) ==
  IF IsRunning(k) THEN info' = [info EXCEPT ![jobs[k]] = s] /\ UNCHANGED done
                  ELSE UNCHANGED <<info, done>>

(* finish: by id, under the lock; a job that has ended is left as it is.     *)
Finish(k, s) ==
  IF IsRunning(k) THEN Settle(jobs[k], s) ELSE UNCHANGED <<info, done>>

(* The finish on behalf of generation g ends another one that is running.    *)
Strike(g, k) ==
  struck' = struck \cup {h \in Gens \ {g} : h = jobs[k] /\ info[h] = "running"}

-----------------------------------------------------------------------------
(* start *)

StartExisting(c, k) ==
  /\ pc[c] = "ready" /\ IsRunning(k)
  /\ Return(c)
  /\ UNCHANGED <<jobs, started, job, info, done, fiber, exit, intr, struck>>

StartNew(c, k) ==
  /\ ~IsRunning(k)
  /\ pc[c] = "ready" /\ started < MaxJobs
  /\ LET g == started + 1
     IN  /\ started' = g
         /\ jobs' = [jobs EXCEPT ![k] = g]
         /\ job' = [job EXCEPT ![g] = k]
         /\ info' = [info EXCEPT ![g] = "running"]
         /\ done' = [done EXCEPT ![g] = "pending"]
         /\ fiber' = [fiber EXCEPT ![g] = "live"]
  /\ Return(c)
  /\ UNCHANGED <<exit, intr, struck>>

-----------------------------------------------------------------------------
(* wait *)

WaitEnded(c, k) ==
  /\ pc[c] = "ready" /\ ~IsRunning(k)
  /\ Return(c)
  /\ UNCHANGED <<jobs, started, job, info, done, fiber, exit, intr, struck>>

(* With a timeout of zero or less wait returns at once: see WaitTimeout.     *)
WaitRunning(c, k, p) ==
  /\ pc[c] = "ready" /\ IsRunning(k)
  /\ p \in {"wait", "waitTimeout"}
  /\ Suspend(c, k, p)
  /\ UNCHANGED <<jobs, started, job, info, done, fiber, exit, intr, struck>>

WaitDone(c) ==
  /\ pc[c] \in {"wait", "waitTimeout"}
  /\ done[at[c].gen] # "pending"
  /\ Return(c)
  /\ UNCHANGED <<jobs, started, job, info, done, fiber, exit, intr, struck>>

WaitTimeout(c) ==
  /\ pc[c] = "waitTimeout"
  /\ Return(c)
  /\ UNCHANGED <<jobs, started, job, info, done, fiber, exit, intr, struck>>

-----------------------------------------------------------------------------
(* cancel *)

CancelEnded(c, k) ==
  /\ pc[c] = "ready" /\ ~IsRunning(k)
  /\ Return(c)
  /\ UNCHANGED <<jobs, started, job, info, done, fiber, exit, intr, struck>>

(* Mutant: the id is used for the generation. *)
CancelInterruptById(c, k) ==
  /\ pc[c] = "ready" /\ IsRunning(k)
  /\ intr' = intr \cup {k}
  /\ Suspend(c, k, "awaitFiber")
  /\ UNCHANGED <<jobs, started, job, info, done, fiber, exit, struck>>

(* An entry that is running has its fiber: finish alone drops it. *)
CancelInterrupt(c, k) ==
  /\ pc[c] = "ready" /\ IsRunning(k)
  /\ intr' = intr \cup {jobs[k]}
  /\ Suspend(c, k, "awaitFiber")
  /\ UNCHANGED <<jobs, started, job, info, done, fiber, exit, struck>>

(* Mutants: cancel does not wait for the fiber; cancel relies on the exit    *)
(* handler of the fiber.                                                     *)
CancelFinishEarly(c) ==
  /\ pc[c] = "awaitFiber"
  /\ Finish(at[c].id, "cancelled") /\ Strike(at[c].gen, at[c].id)
  /\ Return(c)
  /\ UNCHANGED <<jobs, started, job, fiber, exit, intr>>
CancelNoFinish(c) ==
  /\ pc[c] = "awaitFiber" /\ fiber[at[c].gen] = "dead"
  /\ Return(c)
  /\ UNCHANGED <<jobs, started, job, info, done, fiber, exit, intr, struck>>

CancelFinish(c) ==
  /\ pc[c] = "awaitFiber" /\ fiber[at[c].gen] = "dead"
  /\ Finish(at[c].id, "cancelled") /\ Strike(at[c].gen, at[c].id)
  /\ Return(c)
  /\ UNCHANGED <<jobs, started, job, fiber, exit, intr>>

-----------------------------------------------------------------------------
(* The fiber of a job *)

(* `run` succeeds, fails, or ends with a cause of interrupts only. *)
WorkExit(g, s) ==
  /\ fiber[g] = "live" /\ s \in Terminal
  /\ fiber' = [fiber EXCEPT ![g] = "finish"]
  /\ exit' = [exit EXCEPT ![g] = s]
  /\ UNCHANGED <<jobs, started, job, info, done, intr, pc, at, struck>>

(* Mutant: the exit handler does not tell the exits apart. *)
FiberFinishSuccess(g) ==
  /\ fiber[g] = "finish"
  /\ Finish(job[g], "completed") /\ Strike(g, job[g])
  /\ fiber' = [fiber EXCEPT ![g] = "dead"]
  /\ UNCHANGED <<jobs, started, job, exit, intr, pc, at>>

FiberFinish(g) ==
  /\ fiber[g] = "finish"
  /\ Finish(job[g], exit[g]) /\ Strike(g, job[g])
  /\ fiber' = [fiber EXCEPT ![g] = "dead"]
  /\ UNCHANGED <<jobs, started, job, exit, intr, pc, at>>

(* The library may or may not execute the matchCauseEffect handler of a      *)
(* fiber that was interrupted; without it the fiber just ends.               *)
FiberInterrupted(g) ==
  /\ fiber[g] \in {"live", "finish"} /\ g \in intr
  /\ fiber' = [fiber EXCEPT ![g] = "dead"]
  /\ UNCHANGED <<jobs, started, job, info, done, exit, intr, pc, at, struck>>

-----------------------------------------------------------------------------
CallerStep(c) == WaitDone(c) \/ CancelFinish(c)

Ending(g) == FiberFinish(g) \/ FiberInterrupted(g)

Next ==
  \/ \E c \in Callers, k \in JobIds :
        \/ StartExisting(c, k) \/ StartNew(c, k)
        \/ WaitEnded(c, k) \/ \E p \in {"wait", "waitTimeout"} : WaitRunning(c, k, p)
        \/ CancelEnded(c, k) \/ CancelInterrupt(c, k)
  \/ \E c \in Callers : CallerStep(c) \/ WaitTimeout(c)
  \/ \E g \in Gens : Ending(g) \/ \E s \in Terminal : WorkExit(g, s)

(* Fibers that can run are run, and interrupted work ends.  Work that nobody *)
(* interrupts need not end.                                                  *)
Fairness ==
  /\ \A c \in Callers : WF_vars(CallerStep(c))
  /\ \A g \in Gens : WF_vars(Ending(g))

Spec == Init /\ [][Next]_vars
FairSpec == Spec /\ Fairness

-----------------------------------------------------------------------------
(* Properties *)

Alive(g)   == fiber[g] \in {"live", "finish"}
Cancels(k) == \E c \in Callers : pc[c] = "awaitFiber" /\ at[c].id = k

(* What start promises by its deduplication: an id never has two fibers at   *)
(* work.  The code does not keep it: see StruckByCancel.                     *)
OneFiberPerId ==
  \A g, h \in Gens : Alive(g) /\ Alive(h) /\ job[g] = job[h] => g = h

(* What the code does keep: the table loses sight of a fiber that is still   *)
(* at work, so that its id is started again, only if the finish of another   *)
(* generation ended the entry.                                               *)
OneFiberUnlessStruck ==
  \A g, h \in Gens : Alive(g) /\ Alive(h) /\ job[g] = job[h] /\ g < h => g \in struck

(* What the table says of a job is its own: the status its exit handler      *)
(* reported, or "cancelled" for a job that a cancel interrupted, unless the  *)
(* finish of another generation came first.                                  *)
OwnOutcome ==
  \A g \in Gens \ struck : info[g] \in Terminal =>
    info[g] = exit[g] \/ (info[g] = "cancelled" /\ g \in intr)

(* What ends a job on behalf of another generation.                          *)
Traced ==
  struck' # struck =>
    \/ \E c \in Callers : /\ pc[c] = "awaitFiber" /\ pc'[c] = "ready"
                         /\ at[c].gen < jobs[at[c].id]
    \/ \E g \in struck : fiber[g] = "finish" /\ fiber'[g] = "dead"
(* Every job ended on behalf of another one goes back to a cancel: either a  *)
(* cancel of an earlier generation finishes the newer one, or the exit of a  *)
(* generation that was itself struck does.  Without cancels no job is.       *)
StruckByCancel == [][Traced]_vars

(* The table shows a running job only while its work, or a cancel that waits *)
(* for it, goes on, and the entry of such a job is never replaced: whoever   *)
(* waits for the job has somebody who will complete its Deferred.            *)
TableIsCurrent ==
  \A g \in 1 .. started :
    info[g] = "running" \/ done[g] = "pending" =>
      jobs[job[g]] = g /\ (Alive(g) \/ Cancels(job[g]))

(* History is not rewritten: the status of a job that has ended never        *)
(* changes, although finish is called again by a late cancel or exit.        *)
EndedStaysEnded ==
  [][\A g \in Gens : info[g] \in Terminal => info'[g] = info[g]]_vars

(* The inductive invariant behind the safety properties (BackgroundJobProofs). *)

(* Generations that start has not made are unused; made ones are complete.   *)
GenInv ==
  /\ \A g \in Gens : g > started =>
       fiber[g] = "none" /\ info[g] = "none" /\ done[g] = "none" /\ g \notin intr
  /\ \A g \in 1 .. started :
       /\ job[g] \in JobIds /\ fiber[g] # "none" /\ info[g] # "none"
       /\ done[g] = IF info[g] = "running" THEN "pending" ELSE info[g]
       /\ fiber[g] = "finish" => exit[g] \in Terminal
  /\ \A k \in JobIds : jobs[k] <= started /\ (jobs[k] # 0 => job[jobs[k]] = k)

(* A running job is in the table, and is alive or being cancelled. *)
RunningInv ==
  \A g \in 1 .. started : info[g] = "running" =>
    /\ jobs[job[g]] = g
    /\ Alive(g) \/ g \in intr
    /\ g \in intr => Cancels(job[g])

(* What a suspended operation captured. *)
CallInv ==
  \A c \in Callers :
    /\ pc[c] # "ready" => at[c].gen \in 1 .. started
    /\ pc[c] = "awaitFiber" =>
         at[c].id \in JobIds /\ job[at[c].gen] = at[c].id /\ at[c].gen \in intr

(* Work that goes on is shown by the table or was struck, and no generation  *)
(* is newer than the one in the table, nor is what a cancel has captured.    *)
StruckInv ==
  /\ \A g \in Gens : Alive(g) => info[g] = "running" \/ g \in struck
  /\ \A g \in 1 .. started : g <= jobs[job[g]]
  /\ \A c \in Callers : pc[c] = "awaitFiber" => at[c].gen <= jobs[at[c].id]
  /\ OwnOutcome

JobInv == TypeOK /\ GenInv /\ RunningInv /\ CallInv /\ StruckInv

(* cancel returns, and everybody who waits for a cancelled job is resumed.   *)
CancelEnds ==
  /\ \A c \in Callers : pc[c] = "awaitFiber" ~> pc[c] = "ready"
  /\ \A g \in Gens : g \in intr ~> done[g] \in Terminal
=============================================================================
