# Session execution in the Tribunus runtime: TLA+ models and proofs

This directory models how `packages/runtime` executes the work of a session:
who may start work, who waits for it, what a cancellation does to it, how
prompts that arrive while a run is active reach the model, how the model's
event stream becomes parts of a message, how tools ask the user and share a
cache, how the session's event log is replicated, and how processes lock what
they share. The runtime is
written in TypeScript on the `effect` library: fibers interleave at every
suspension (`yield*` of an effect that waits), and code between two suspensions
is atomic. That rule decides what a step of a model is.

All paths below are relative to `packages/runtime/src/` unless they begin with
`packages/`.

## 1. Inventory

| Component | State | Operations | What is hard |
|---|---|---|---|
| **Runner** `effect/runner.ts` | one `SynchronizedRef`: Idle, Running, Shell, ShellThenRun; a Deferred per run | `ensureRunning`, `startShell`, `cancel`; exit handlers `finishRun`, `finishShell` | `cancel` empties the slot before the old fiber ends; stale exit handlers; a run queued behind a shell; callers and cancellers that are interrupted |
| **SessionRunState** `session/run-state.ts`, `session/status.ts` | map session → runner, map session → status | `assertNotBusy`, `cancel`, `ensureRunning`, `startShell`, callbacks `onIdle`, `onBusy` | runner objects are replaced while a cancel of the old one is executing |
| **BackgroundJob** `background/job.ts` | table id → (info, Deferred, fiber) | `start`, `wait`, `cancel`, `finish`; `list`, `get` read | ids are reused (the task tool uses session ids), and `finish` knows the id only |
| **Prompt loop** `session/prompt.ts` with `message-v2.ts`, `compaction.ts`, `processor.ts` | stored messages and parts, ids from `MessageID.ascending` | `prompt`, `loop`, `runLoop`, `handleSubtask`, `compaction.process` / `create`, `cancel` | the loop decides by comparing ids of messages that other fibers store concurrently |
| **Processor** `session/processor.ts`, `retry.ts`, `tools.ts` | context of one assistant message: tool calls, text, reasoning; the parts in the database | `process`, stream events, `updateToolCall`, `cleanup`, `halt` | tools run beside the stream and outlive it; parts are read and written in two steps; interruption anywhere; retries |
| **Permission**, **Question** `permission/index.ts`, `question/index.ts` | map of pending requests with Deferreds; approved rules | `ask`, `reply`, `reject`, `list`, finalizer | requests are deleted before they are answered; a reply cascades over the live map |
| **Tool cache** `tool/cache.ts`, `tool/tool.ts` | entries in order of use, estimated bytes, flights | `getOrCompute`, `invalidate`, `invalidateKey`, `stats` | a computation in flight while a write tool invalidates; callers that hang on another's computation |
| **Flock** `packages/core/src/util/flock.ts`, `effect-flock.ts` | a directory, a heartbeat file, a token, a breaker directory | `acquire`, `release`, heartbeat, breaking of stale locks | several processes, each file system call apart; crashes; pauses |
| **Bus** `bus/index.ts` | PubSubs per event type | `publish`, `subscribe` | order between publishers |
| **InstanceState** `effect/instance-state.ts`, `project/instance-store.ts` | scoped state per directory | `make`, `get`, load, reload, dispose | finalizers run while operations are in progress |
| **SyncEvent** `sync/index.ts` | event table, sequence number and owner per aggregate | `run`, `replay`, `replayAll`, `claim`, `remove` | `replay` reads, checks and then starts `process` without awaiting it |
| **Coordination** `coordination/*.ts`: tool scheduler, single-flight cache, work queue, durable store, leases | jobs and counts, a Valkey stream, durable rows | submit, cancel, publish, ack, reclaim, recover | crash between durable write and ack; not reachable at this commit, see section 6 |
| **Lifecycle, campaign, capabilities, workspaces, dharma federation** | stored workflows and event logs | table-driven transitions | mostly sequential, on top of the above |
| **Tools, providers, LSP, MCP, plugins, server, native compute, clients** | – | input and output | not models of interest |

Interactions. `SessionPrompt.prompt` stores a message and calls
`SessionRunState.ensureRunning`, which looks a runner up (or makes one) and
calls `Runner.ensureRunning` with `runLoop` as the work. The runner calls
`onBusy` and `onIdle` back, which change the status and the map. A run sets the
status itself. `SessionRunState.cancel` first cancels the session's background
jobs, then the runner. The task tool starts background jobs under session ids
and executes `prompt` of child sessions. A turn of the loop is one call of
`SessionProcessor.process`; the tools it offers (`session/tools.ts`) report
metadata back to it, ask `Permission` or `Question` and wait, read through the
tool cache, and empty it when they have written. Messages and parts are stored
through `SyncEvent.run`, and a workspace's other devices replay the events.
`Flock` is used by every process that installs packages or clones repositories
into a shared directory.

What makes each part correct:

* Runner: one piece of uncancelled work at a time; nobody waits for a Deferred
  that nobody will complete; a busy slot becomes free; the interruption
  fallback only for interrupted work; `cancel` returns.
* SessionRunState: the map shows the work that goes on, or what took it out is
  known; the status is idle at rest.
* BackgroundJob: one fiber per id, or what made it two is known; the recorded
  outcome is the job's own and is final; waiters are resumed.
* Prompt loop: a prompt whose call returns normally was given to the model, or
  was lost in a known way; tasks are executed; no assistant message stays open
  where the code has a finalizer, and a complete one is left alone.
* Processor: when it is over no part stays open; a result is not lost and not
  written over; an interruption is marked, but for one between two
  attempts; cleanup ends.
* Permission, Question: nobody waits for a request that is gone; a tool runs on
  the user's word or the rules only; a rule reaches the requests it covers.
* SyncEvent: the sequence number, the event table and the projection agree on
  each device, and the devices with each other.
* Tool cache: the book-keeping adds up; what is older than a finished write is
  not served; whoever joined a computation returns.
* Flock: one holder, also after crashes; the lock is recovered.

`PROJECT.json` lists every component with its status, every hazard with the
source line it bites at, and the lines every definition models.

## 2. Modules

| Module | Models | Extends |
|---|---|---|
| `RunSlot` | abstract promise of a runner: slots and promises | |
| `Runner` | `effect/runner.ts`, any number of callers and runner objects | |
| `MCRunner` | symmetry sets | `Runner` |
| `RunnerProofs` | theorems about `Runner` and `SessionRunState`, and that `Runner` implements `RunSlot` | `SessionRunState`, `TLAPS` |
| `SessionRunState` | `session/run-state.ts` and the status, composed with the runners | `Runner` |
| `MCSessionRunState` | symmetry sets | `SessionRunState` |
| `BackgroundJob` | `background/job.ts` | |
| `BackgroundJobProofs` | theorems about `BackgroundJob` | `BackgroundJob`, `TLAPS` |
| `PromptLoop` | `prompt`, `summarize`, `runLoop`, `handleSubtask`, `compaction.process` and their helpers | |
| `MCPromptLoop` | symmetry sets | `PromptLoop` |
| `PromptLoopProofs` | theorems about `PromptLoop` | `PromptLoop`, `TLAPS` |
| `Processor` | one call of `process`, its attempts and its tools | |
| `ProcessorProofs` | theorems about `Processor` | `Processor`, `TLAPS` |
| `UserRequests` | `permission/index.ts` and `question/index.ts` | |
| `MCUserRequests` | an instance with sessions, patterns and rules | `UserRequests` |
| `UserRequestsProofs` | theorems about `UserRequests` | `UserRequests`, `TLAPS` |
| `SyncEvent` | `sync/index.ts` on one aggregate and several devices | |
| `SyncEventProofs` | theorems about `SyncEvent` | `SyncEvent`, `TLAPS` |
| `ToolCache` | `tool/cache.ts` and those who call it | |
| `MCToolCache` | an instance with keys and sizes | `ToolCache` |
| `ToolCacheProofs` | theorems about `ToolCache` | `ToolCache`, `TLAPS` |
| `Flock` | `flock.ts`, `effect-flock.ts` | |
| `FlockProofs` | theorems about `Flock` | `Flock`, `TLAPS` |

Definitions whose comment begins with "Mutant" (in `ToolCache`, those that say
what goes wrong) are deliberately wrong versions of a neighbouring definition.
Nothing refers to them; they are put in its place to see that a property notices
the difference. The definitions at the end of a module, after its properties, are
the parts of the inductive invariant that its theorems rest on (section 4).

### Runner

`st[o]` is the content of the `SynchronizedRef` of runner `o`, with the tags of
the `State` union. Numbers returned by `next()` name handles, fibers and
Deferreds; one counter serves all runners, which agrees with private counters
on every comparison the code makes. `fiber[i]` is the life cycle of a fiber:
`forked`, `live` (executing the work), `finish` (the exit handler is about to
take the lock), `idle` (in `onIdle`), `complete` (about to complete the
Deferred), `dead`. `pc[c]` and `call[c]` say where a caller is suspended and
what it captured before: the code keeps the captured state in a closure.

| Actions | Code |
|---|---|
| `EnsureJoin`, `EnsureQueue`, `EnsureStart`, `AwaitDone` | `ensureRunning`: join a run, queue behind a shell, start; `awaitDone` |
| `ShellBusy`, `ShellOnBusy`, `ShellFork`, `AwaitShell` | `startShell`: busy, `onBusy` under the lock, fork, await |
| `CancelIdle`, `CancelBusy`, `CancelInterruptRun`, `CancelStopShell`, `CancelFailDone`, `IdleIfCurrent`, `CancelReturn` | `cancel`, `stopShell`, `idleIfCurrent` |
| `AbortEnsure`, `AbortOnBusy`, `AbortShell`, `AbortCanceller` | the calling fiber is interrupted at a suspension |
| `FiberStart`, `ShellReady`, `WorkExit` | the fiber starts, opens its latch, the work exits |
| `FinishRunCurrent`, `FinishRunStale`, `FinishRunComplete`, `FinishShellIdle`, `FinishShellHandOff`, `FinishShellStale`, `OnIdleReturn` | `finishRun`, `finishShell` |

Two switches separate interleavings that break a property from all others:
`InterruptBeforeStart` (a `startShell` caller is interrupted before its child
fiber has taken a step) and `AbortCancel` (the fiber that executes `cancel` is
interrupted).

### SessionRunState

One session. `runners` is the map entry, `made` the runner objects made so far,
`status` the session's status. The operations look the runner up and call
`Runner`'s; the exit handlers call `onIdle`. Any operation may begin while a
cancel is executing, as in the code: the cancel empties the slot of its runner,
the exit of the cancelled work deletes the entry, a later operation makes a new
runner, and the end of the cancel deletes the entry of that one. `evicted` is an
observation of these deletions (`Evict`); nothing reads it but the properties.
The coordination statuses of `SessionStatus.Info` are never set by these files
and are left out, and so are the finalizer of the instance state and the
background jobs that `cancel` stops first. The two switches are those of
`Runner`.

### BackgroundJob

Every `start` that begins work makes a *generation* with its own `info`, `done`
and `fiber`; `jobs[k]` is the generation the table holds for id `k`. `Finish`
takes an id, like the code. `exit[g]` and `intr` remember how the job really
ended. An id may be started whenever the table does not show it as running,
also while a cancel of it is executing, so that a finish may end another
generation than the one it is for; `struck` observes these. The effect library
may or may not execute the job's `matchCauseEffect` handler when the fiber is
interrupted; `FiberInterrupted` leaves both open.

### PromptLoop

The runner is reduced to what `RunSlot` promises: `cur` is the run that holds
the slot, a cancel empties it at once, a caller returns when its run has ended.
Message ids are a counter. A message keeps only what the loop looks at: role,
kind of its part, whether the parts are stored, `finish`, whether there are
tool calls, `summary`, and whether `time.completed` is set (`closed`). Every
place where the code suspends is a place where others step in:

| Actions | Code |
|---|---|
| `PromptId`, `PromptStore`, `PromptParts`; `Summarize` | `createUserMessage` takes the id, resolves the parts, stores the message, stores its parts; the summarize handler calls `compaction.create` |
| `PromptJoin`, `PromptStart`, `PromptReturn`, `Cancel` | `ensureRunning` and its result; `cancel` |
| `LoopRead` | the top of `runLoop`: read the messages, and exit, take a task, queue a compaction or begin a turn |
| `SubtaskAnswer`, `SubtaskBegin`, `SubtaskResult`, `SubtaskClose`, `SubtaskSettle` | `handleSubtask`: store the message, the plugins and the agent, the tool, the plugins again and the completion, the tool part and the request for a summary |
| `CompactAnswer`, `CompactBegin`, `CompactSettle` | `compaction.process`: store the summary's message, call the processor, the error or the follow-up |
| `TurnAnswer`, `TurnCreate`, `TurnBegin`, `TurnSettle` | a turn: store the message, create the processor, gather what the model gets, and what comes after `handle.process` |
| `StepFinish`, `ProcessEnd` | what the processor writes to the message |
| `AskParts`, `OverflowCreate` | user messages the run stores itself, in two writes |
| `LoopFail`, `LoopInterrupted`, `LoopEnd` | a failure at any suspension outside of `process` and of the task tool, an interruption at any, the regular end |

`view[r]` is what run `r` read at the top of its turn, `seen` collects what was
in the input of a model call, `executed` the tasks that were executed. The other
observations name what the code loses: `missed` collects what is older than an
answer and was not there to be read, `late` the messages of clients that joined
a run which had decided to end without having read them, `kept` what a
compaction leaves out of its input as the tail of recent turns, and `cut[r]` is
where run `r` failed or was interrupted. No guard reads them.

An id and the store of its message are one step for the messages of a run and
of `compaction.create`, where nothing suspends between `MessageID.ascending` and
the write; a user's prompt takes them apart. Left out: titles, session
summaries, reminders, the step limit, `noReply`, structured output beyond its
effect on the loop, the resolution of parts, `revert.cleanup`, the parts of a
subtask's tool call (its late metadata included), and `filterCompacted`, which
hides what a summary replaces: `view` is all that is stored with its parts. When
an overflowing prompt is replayed after a compaction, the copy counts as a new
message.

### Processor

`pc` is where the process fiber stands: waiting for an event (`stream`), between
the read and the write of a part (`ensureRead` .. `finishWrite`), asking about a
doom loop, waiting to retry, in `halt`, or in `cleanup`. `calls[c]` is the entry
of `ctx.toolcalls` (`inputEnded` is the flag of the same name), `part[c]` the
state of the part in the database, `lc[c]` what the provider has said of the
call, `tool[c]` the fiber that executes it. `prose` is what `ctx.currentText` and
`ctx.reasoningMap` hold, `unended` the parts that have no end in the database;
a text that starts while another is open takes its place in `ctx.currentText`,
and the older one stays in `unended` as `"replaced"`. Database calls take one
step each, so a tool's metadata report (`ReportRead`, `ReportWrite`) and the
process fiber may overwrite each other's. A write that was issued before an
interruption is carried out (`Landed`).

`halt` has two callers. From `onInterrupt` nothing can interrupt it
(`OnInterrupt`). From `Effect.catch`, after the last attempt, it sets what it
knows (`Halt`), publishes, and sets the status (`HaltEnds`); `InterruptHalt`
comes in between, before or after the status is set. `reopened`, `split` and
`cut` observe a late report over an ended part, an interruption between the
write of a part and of its entry, and what an interruption came upon. Left out:
deltas, snapshots, patches, usage, tools executed by the provider.

### UserRequests

`pending` holds the requests of both maps, `order` the order in which the map
iterates, `deferred[r]` the Deferred an asker waits on, `rep[f]` where a reply
stands: every publish is a suspension at which it holds one request (`held`)
that is in no map. `Walk` continues the iteration of the *live* map. Patterns
and rules are reduced to which of the patterns a rule matches. A rejection with
and one without a message are one answer.

### SyncEvent

A step is a statement or a transaction, since PGlite's mutex serialises them;
`run` reads and writes in one transaction and takes two steps, holding the
mutex. `replay` reads and then starts `process` without awaiting it, so its
error is lost (`ApplyFails`). Each device has its row, log and projection;
`sent` is what may be delivered, any number of times and in any order.

At this commit the move of the storage to PGlite is incomplete: several readers
use a query (a promise) as if it were its rows, `Database.transaction` ignores
`behavior: "immediate"`, and the projectors do not await their queries. The
models take a read to return rows, as the code around it expects, and a
projector to be part of its transaction. The production callers of `replay` and
`replayAll` pass no `ownerID`, so that after a claim all they deliver is
ignored; the model lets them name any owner. The row and the events are written
only by a process with `experimentalWorkspaces` (`sync/index.ts:326`); the model
is of one, since without them nothing is numbered or replicated. No caller runs
an event of a session it has removed; one that did would begin its log again at 0.

### ToolCache

The operations on the cache's two `Ref`s are one step each. `entries` is the map,
a set of records of which `at` is the place in the map's order (a key that is set
again keeps its place, one that was deleted before goes to the young end), `bytes` the
running total, `inflight` the leaders, `call[c]` a call of `getOrCompute` with
the Deferred it made. A value is the version of the files
it was computed from, and its size depends on both key and version. A write tool
makes a new version and then invalidates: the built-in tools that are not
cacheable. MCP tools never invalidate the cache (`session/tools.ts:114` is in
the loop of the registry's tools only), so nothing is claimed of what they
write. The interruption is the timeout around the tool: in the computation, the finalizer takes the flight out and whether the
Deferred is completed afterwards is left open; before it, the flight may stay.

### Flock

`dir`, `hb`, `tok` are the lock directory, its heartbeat file and the token;
`breaker` the second directory. A step is one call of the file system. `stale`
says that the lock is older than `staleMs`; `AgeLock` and `AgeBreaker` let time
pass, and what `Pauses` and `Heartbeat` say decides whether that may happen to a
process that is alive. The recursive removal of a directory is one step. `late`
records that a breaker, or a live process's lock, has become stale: from then on
the code gives no exclusion, and none is claimed.

## 3. Runs

All runs stop when their bounds are used up, so deadlock is not checked: a
server without requests rests, and reaching a bound is not a deadlock of the
code. That nobody waits for ever is stated by `NoLostCaller`, `TableIsCurrent`
and the liveness properties.

| Run (cfg) | Expectation | Shows |
|---|---|---|
| `runner` (Runner) | pass | `TypeOK`, `BusyHasFiber`, `FallbackOnlyIfInterrupted`, `ImplementsRunSlot`: 3 callers, 3 handles, work that settles or is interrupted and fails at once (plain interruption is in the two runs below), cancellers that are interrupted included |
| `runner_live` (RunnerLive) | pass | `ExclusiveWork`, `NoLostCaller`, and under fairness `CancelReturns`, `CancelSettlesCallers` |
| `session` (SessionRunState) | pass | `StatusAtRest`, and what the map is worth: work that it does not show was evicted by another runner's `onIdle` and is still in its own slot (`WorkAccounted`), and every eviction goes back to a cancel (`EvictedByCancel`) |
| `job` (BackgroundJob) | pass | `TypeOK`, `TableIsCurrent`, `EndedStaysEnded`; two fibers under one id, or an outcome that is not the job's own, only after the finish of another generation (`OneFiberUnlessStruck`, `OwnOutcome`), which goes back to a cancel (`StruckByCancel`); `CancelEnds` under fairness |
| `prompt` (PromptLoop) | pass | `TypeOK`; a prompt that returns because the loop is done was in a model's input, or was missed, late or kept, and its task was executed or superseded (`PromptServed`); which assistant messages may stay open (`AssistantsClosed`) and who writes to a complete one (`ClosedStays`) |
| `processor` (Processor) | pass | `TypeOK`, `EndedClean`, `InterruptMarked`, `OutcomeStays` |
| `processor_result` (ProcessorResult) | violation | `ResultKept`: the result of a call whose input has ended is lost |
| `requests` (UserRequests) | pass | `TypeOK`, `NoLostAsker`, `AnswersJustified`, `CoveredIsAnswered` |
| `sync` (SyncEvent) | pass | `TypeOK`, `LogMatchesProjection`, `PrefixAgreement`, `ForeignBounded` |
| `cache` (ToolCache) | pass | `TypeOK`, `StaleOnlyIfOverlapped`, and `WaitersAnswered` under fairness |
| `flock` (Flock) | pass | `TypeOK`, `MutualExclusion`, and `CrashRecovers` under fairness |
| `flock_breaker` (FlockBreaker) | violation | `OneHolder`: a fresh breaker is removed as the stale one |

Six more configurations are beside them, for TLC by hand
(`tlc -config SessionVisible.cfg MCSessionRunState`). Five refute the stronger
claim one would like instead of the property that a run checks, and section 5
says how; the sixth passes:

| Configuration of module | Property | |
|---|---|---|
| `SessionVisible` of `MCSessionRunState` | `BusyVisible` | refuted: work goes on and the map does not show it |
| `BackgroundJobDedup` of `BackgroundJob` | `OneFiberPerId` | refuted: an id has two fibers at work |
| `PromptIncluded` of `MCPromptLoop` | `PromptIncluded` | refuted: a prompt submitted during a run returns and no model call had it |
| `ProcessorInterrupt` of `Processor` | `InterruptAlwaysMarked` | refuted: an interruption while the policy waits leaves no mark |
| `ProcessorDenial` of `Processor` | `DenialStops` | refuted: the loop goes on after the user's refusal |
| `ProcessorLive` of `Processor` | `CleanupEnds` | holds, under fairness of cleanup's own steps; one attempt, because cleanup comes once, after the last, and with two attempts the liveness check takes long |

No configuration of `SessionRunState`, `BackgroundJob`, `PromptLoop` or
`Processor` closes an interleaving of these files. Where the code does not keep
what one would like, the property that is checked says what it keeps and names
the exception by what has happened. What an exception is worth is part of the
property: an eviction or a strike goes back to a cancel, a message is `missed`
only by an answer that was under way, `Unfinalized` lists places in the code.

These remain, in the modules below:

| Switch | Refuted |
|---|---|
| `AbortCancel = TRUE` (set in `runner`) | `NoLostCaller`; `ExclusiveWork` and `WorkAccounted` too, since a canceller may stop after it emptied the slot and before it interrupted the fiber; `BusyHasFiber` and `ImplementsRunSlot` hold |
| `InterruptBeforeStart = TRUE` | `CancelReturns` and `BusyHasFiber`: the latch of a shell that never started is never opened and its slot never freed; `ImplementsRunSlot` is proved, but no run explores this interruption |
| `Heartbeat = FALSE`, no crash | `OneHolder`: a lock that is held for long is broken |
| two devices in `Writers` | `PrefixAgreement` |

`ClaimStopsOthers` of `SyncEvent` is refuted in the instance of `sync`, where a
replay has read the old owner; `ForeignBounded` says how much it lets through.

Bounds. Three handles let a runner start a shell, queue a run behind it and
give the queued run its fiber, or cancel a run, start its replacement, and let
the stale exit handler meet it. Three callers are a starter, a canceller and
one who joins; the run with liveness has two, which suffice for a canceller and
one who waits. The session runs, where objects multiply the states, have two
callers, four handles and three runner objects: one whose cancel ends late, the
one that this evicts, and one that is made beside the evicted one. `job` has one id, because generations of different ids share
nothing, three generations, an old one, the one that replaces it and the one that
is started next to that, and two callers, one that cancels and one that starts
again or waits. Four messages and two runs let one run answer a prompt while
another prompt arrives at any of its steps, a task or a compaction have its
follow-up, a queued compaction be executed, and a run that was cancelled write
beside its replacement; the exceptions of `PromptServed` and every place in
`Unfinalized` are reached. Callers, runner objects and clients are
interchangeable, hence the symmetry; the runs with liveness properties use none.

`processor`: two calls, one of a built-in and one of an MCP tool, are enough for
cleanup to be disturbed in its order by the other call's tool, two attempts for a
retry that inherits tool calls.
`requests`: two requests of one session and one of another, with patterns such
that one `always` covers the others in part or entirely, two concurrent replies,
one interruption. `sync`: four events, batches of two, two runners and two
replayers: duplicates, gaps, overlapping batches, two transactions at the mutex.
`cache`: three calls are a leader, one that joins or follows it and one that
leads again; two keys do not fit together, and the write makes one's result too
large. `flock`: three processes, two crashes: an owner and a breaker may crash
and the third recovers; the violation needs a fourth.

Fairness. The `effect` scheduler runs every fiber that can run, and the
semaphore in a `SynchronizedRef` wakes its waiters on each release, so a step
that takes the lock is taken if the lock is free again and again: strong
fairness for `CallerStep` and `Progress` in `Runner` (the steps without lock
stay enabled, where strong and weak agree). `BackgroundJob` never holds its
lock across a suspension, so weak fairness is enough. Work that was interrupted
ends; work that was not interrupted may go on for ever, callers need not call,
timeouts need not fire. `Processor` asks weak fairness of `cleanup` only: the
model's stream and its tools may stop. In `ToolCache` every call's own steps are
fair and tools end (most have a timeout); calls, writes and the clock need not
happen. In `Flock` each live process goes on, critical sections end, and the
time of what nobody refreshes passes, as file times do.

## 4. What is proved

TLAPS checks the theorems below for every value of the constants: any number of
callers, runner objects, messages, devices or processes, and any bounds. Every
invariant that a passing run checks, and every action property and refinement, is
stated by a theorem. None of the properties is inductive; each module ends
with the conjunction that is, and each proof has one lemma per conjunct or
group of conjuncts with one step per action. Each of these conjunctions was
checked with TLC, on the instance of section 3, before it was proved. A
hypothesis of a theorem closes an interleaving that refutes the property, or
that the conjunct it follows from does not survive (section 3 names which): a
canceller or the caller of a new shell that is interrupted, a second writer, a
heartbeat that does not refresh. The theorems about `BackgroundJob`,
`PromptLoop` and `Processor` have none.

| Module | Theorem | Property | Hypothesis |
|---|---|---|---|
| `RunnerProofs` | `CoreInvariant`, `TypeCorrect`, `FallbackJustified` | `CoreInv`, `TypeOK`, `FallbackOnlyIfInterrupted` | none |
| | `RunnerImplementsRunSlot` | `ImplementsRunSlot` | none |
| | `BusyIsHeld` | `BusyHasFiber` | `~InterruptBeforeStart` |
| | `Exclusive` | `ExclusiveWork` | `~AbortCancel` |
| | `RunnerInvariant`, `NobodyForgotten` | `RunnerInv`, `NoLostCaller` | `~AbortCancel`, `~InterruptBeforeStart` |
| | `SessionTypes`, `SessionCoreInvariant` | `SessionTypeOK`, `SessionCore` | none |
| | `EvictionsGoBackToCancels` | `EvictedByCancel` (action property) | none |
| | `WorkIsAccounted` | `WorkAccounted` | `~AbortCancel` |
| | `SessionInvariant`, `RestIsIdle` | `SessionInv`, `StatusAtRest` | `~AbortCancel`, `~InterruptBeforeStart` |
| `BackgroundJobProofs` | `JobInvariant`, `JobTypeOK`, `TableCurrent`, `OneFiber`, `Outcome` | `JobInv`, `TypeOK`, `TableIsCurrent`, `OneFiberUnlessStruck`, `OwnOutcome` | none |
| | `HistoryStays`, `StrikesGoBackToCancels` | `EndedStaysEnded`, `StruckByCancel` (action properties) | none |
| `PromptLoopProofs` | `LoopInvariant`, `PromptTypeOK`, `PromptsAreServed`, `AnswersAreClosed` | `LoopInv`, `TypeOK`, `PromptServed`, `AssistantsClosed` | none |
| | `ClosedIsFinal` | `ClosedStays` (action property) | none |
| `ProcessorProofs` | `ProcessorInvariant`, `ProcessorTypeOK`, `EndedIsClean`, `InterruptIsMarked` | `ProcessorInv`, `TypeOK`, `EndedClean`, `InterruptMarked` | none |
| | `OutcomeIsFinal` | `OutcomeStays` (action property) | none |
| `UserRequestsProofs` | `RequestsInvariant`, `RequestsTypeOK`, `AskersReachable`, `AnswersAreJustified`, `CoveredAreAnswered` | `RequestsInv`, `TypeOK`, `NoLostAsker`, `AnswersJustified`, `CoveredIsAnswered` | none |
| `SyncEventProofs` | `SyncTypeOK` | `TypeOK` | none |
| | `SyncInvariant`, `LogInOrder`, `DevicesAgree`, `ForeignFew` | `SyncInv`, `LogMatchesProjection`, `PrefixAgreement`, `ForeignBounded` | `SingleWriter` |
| `ToolCacheProofs` | `CacheInvariant`, `CacheKeepsShape`, `CacheTypeOK`, `StaleOverlapped` | `CacheInv`, `CacheShape`, `TypeOK`, `StaleOnlyIfOverlapped` | none |
| `FlockProofs` | `FlockTypeOK` | `TypeOK` | none |
| | `FlockInvariant`, `FlockMutualExclusion` | `FlockInv`, `MutualExclusion` | `Heartbeat` |

**Runner.** `RunnerInv` adds to the properties what they depend on, in four parts,
so that each theorem needs no more than its own. `CoreInv` holds whoever is
interrupted: numbers not yet handed out are unused (`FreshInv`); the slot is Idle
while `onBusy` runs (`LockInv`); a slot holds a run before its exit handler, or a
shell, and for a run a pending Deferred (`SlotInv`); a Deferred belongs to one
slot and one fiber, and to no fiber while its run is queued (`DoneInv`); what a
suspended operation captured is still true, and what a cancel captured is in no
slot (`CallInv`); how fibers ended fits who interrupted them (`ExitInv`). `ShellInv`
(a shell in a slot too is before its exit handler) needs that a shell gets its
first step; `OwnedInv` (uncancelled work is what its slot holds) that a canceller
is not interrupted after it has emptied the slot; `SettledInv` (every pending
Deferred has somebody who will complete it) needs both. `ExclusiveWork` follows
from `OwnedInv`: two pieces of uncancelled work of one runner are both what its
slot holds. `RunnerImplementsRunSlot` takes the actions one by one: under the
refinement mapping each is an action of `RunSlot` or a stutter, where `CoreInv`
gives the guards, such as that the promise that a step settles is in no slot any
more. So the runner keeps the promise of a slot even where `NoLostCaller` and
`ExclusiveWork` are lost.

**SessionRunState.** Every step of the session is a step of the runners
(`SessionIsRunner`), so what is proved of these holds. `SessionCore` adds that
only the runner in the map and the evicted ones are busy (`MapInv`) and that a
cancel is of a runner (`CancelledInv`); it holds whatever begins during a cancel
and whoever is interrupted. `WorkIsAccounted` follows from it and `OwnedInv`:
work that nobody has cancelled is what the slot of its runner holds, so that this
is busy, and by `MapInv` shown or evicted. `EvictionsGoBackToCancels` takes the
steps that call `onIdle` one by one: the exit handler of a runner that is in the
map deletes its own entry, so the one that deletes another's was evicted.
`SessionInv` also says that a run which goes on is in its slot or awaited by a
cancel (`RunInv`), and who is to set a status that is not idle (`StatusInv`); the
last two rest on all of `RunnerInv`.

**BackgroundJob.** `JobInv` relates the table to the generations (`GenInv`), says
that a running job is in the table and alive or being cancelled (`RunningInv`),
what a cancel captured (`CallInv`), and what a restart during a cancel leaves
(`StruckInv`): work that goes on is shown as running or was struck, and the table
holds the newest generation of an id, so that two fibers under one id mean that
the older one was struck. A cancel can only be overtaken by a newer generation
than its own, which is what `StrikesGoBackToCancels` says of the step that
strikes.

**PromptLoop.** `LoopInv` says that the run which holds the slot goes on and was
not interrupted (`SlotInv`), that a client's message is not there until this
client stores it (`ClientInv`), and that a run's assistant message is its alone,
open while the run works on it and complete when it settles the turn (`OwnInv`).
`PromptsAreServed` has two invariants on top. `AnswerInv` is about the inputs of
model calls: what is older than the answer a run works on was read by the run or
is in `missed`, since the store of the answer is the step at which what was not
read becomes older than it; once the model is called what the run has read is in
`seen`, or in `kept`; so what is older than an answer that ends the loop is
accounted for. The loop exits when the newest user message it has read is older
than such an answer, and then all it has read is accounted for, and so is what
its clients have stored, but for those who came `late`. `TaskInv` is the
same argument about tasks: one that is older than a finished answer was executed,
superseded by a newer one, or missed. That the loop's exit condition compares the
newest ids is enough rests on `NewestIs`, a lemma on the greatest element of a
set of ids. `AnswersAreClosed` adds `OpenInv`: an open message is one its run
works on, or its run was cut where nothing completes it. `ClosedIsFinal` needs
`LoopInv` only: two runs never have the same message, the one a run works on is
open, and what a client writes to is not an assistant's; so the finalizers of an
interrupted run cannot disturb what its replacement, or the run itself, has
completed, and what is left are the writes that settle the turn.

**Processor.** `ProcessorInv`: a part that ended ended as its tool did
(`SettledInv`); an entry of `ctx.toolcalls`, and a copy of one that a fiber has
read, is of a part that exists (`EntryInv`); an open part is in `ctx.toolcalls`
and cleanup still has it before it, but for the two cases `EndedClean` names
(`OpenInv`); text and reasoning of the current attempt without an end are those
`ctx` knows of, or texts that were replaced (`ProseInv`); an error or an exit is
recorded on the way to cleanup only, and in `halt` there is an error or the
demand for a compaction (`ExitInv`), which is what an interruption there leaves
behind. `OutcomeIsFinal` adds `RecordedInv`: once the outcome of a tool is in
its part the call has no entry, no event of it is to come, and nobody is between
the read and the write of that part. The exception in `OutcomeStays` is real: see
section 5.

**UserRequests.** `RequestsInv`: every pending request has its own place in the
map's order (`OrderInv`); a reply holds its own request, answered as it says, or
one of the same session which its rules cover or its rejection extends to
(`HeldInv`); approved rules are approved for all (`RulesInv`).

**SyncEvent.** `TypeInv` (every number is smaller than the id it came with) needs
no hypothesis. The rest assumes that one device writes a session's events, which
the code expects and does not enforce: with two writers TLC refutes
`PrefixAgreement`, since both give the same number to different events.
`SyncInv`: an open `run` holds the mutex of its device and still sees the row it
read (`RunInv`); one event was sent per number, none beyond the writer's row
(`SentInv`); a replay that has decided to apply is at most at the next number,
since the row can only have moved on (`ProcessInv`); the events applied against
the owner and those about to be are together no more than the replaying fibers
(`ForeignInv`).

**ToolCache.** `CacheInv`: the flights are the calls about to compute or
computing (`FlightInv`); what is computed is older than the last invalidation
only for a key that invalidation noted as in flight (`ComputedInv`), and so is
what a call may join (`JoinInv`). Eviction is a `CHOOSE` among finite sets of
records; that it ends within the limit is proved with the finite-set theorems.
That `bytes` is the sum of the entries' sizes (`CacheTypeOK`) needs that any
entry may be taken out of the sum first. The sum is a fold, which takes the
entries in an order of its own, and the induction theorems cannot be instantiated;
the proof takes a smallest finite set for which the order matters, from the
least element of a set of cardinalities, and shows that there is none.

**Flock.** `FlockInv` adds to `MutualExclusion` that a process which made the lock
or the breaker and has not ended its part is the one on disk (`ProcInv`), that
what it has still to write is not there, and that one about to remove the lock
removes a stale one. `InvMove` is about the process that takes the step,
`InvOthers` about the rest, `InvStep` has one step per action.

The assumptions on constants (`RunnerAssumption`, `JobAssumption`,
`PromptAssumption`, `ProcessorAssumption`, `RequestsAssumption`, `SyncAssumption`,
`SessionAssumption`, `CacheAssumption`, `FlockAssumption`) say that the bounds are numbers, that the
sentinels are not members of the sets, and what sets and functions the others are.

Only model-checked: liveness (`CancelReturns`, `CancelSettlesCallers`, `CancelEnds`,
`WaitersAnswered`, `CrashRecovers`, and `CleanupEnds` with `ProcessorLive.cfg`),
since TLAPS does not reason about fairness.

## 5. Findings

Each violation run is a disagreement between the code and what a test or a
comment of the repository says; `PROJECT.json` quotes the lines.

* `processor_result`: `tool-input-end` sets the flag that also says "settled", and
  the result of such a call is dropped; cleanup marks the part as aborted.
* `flock_breaker`: the age of a breaker is looked at and the path removed in two
  calls; a contender removes the next owner's breaker, and two processes come to
  hold the lock.

What the code does not keep although its tests or documents say it, with the
configuration that shows it (tests are in `packages/runtime/test/`):

* `SessionVisible.cfg`: `onIdle` deletes the session's entry whichever runner calls
  it (`run-state.ts:60`). A cancel that ends late on an old runner deletes the entry
  of the one that is executing, and `assertNotBusy` lets everything pass.
  `session/prompt.test.ts:1225` says "assertNotBusy fails with BusyError when loop
  running". What remains: `WorkAccounted`, `EvictedByCancel`.
* `BackgroundJobDedup.cfg`: a cancel finishes by id after it has awaited the fiber
  (`job.ts:190`). When the job has ended by itself and its id was started again, the
  new job is marked as cancelled while its fiber goes on, and the next start begins
  a second fiber. `background/job.test.ts:48` says "deduplicates concurrent starts
  for a running id". What remains: `OneFiberUnlessStruck`, `StruckByCancel`.
* `PromptIncluded.cfg`: a prompt whose message or parts are stored after the run has
  read the messages (`prompt.ts:1262`) and before its answer takes an id
  (`prompt.ts:1354`) is older than the answer and is taken for answered, although no
  model call had it. `session/prompt.test.ts:1157` says "prompt submitted during an
  active run is included in the next LLM input". The same happens to one that joins
  a run which has decided to exit, and to one that a compaction keeps as a recent
  turn (`compaction.ts:251`) and nothing asks for. What remains: `PromptServed`.
* `ProcessorInterrupt.cfg`: the wait between two attempts (`processor.ts:838`) and the
  `halt` after the last one (`processor.ts:869`) are outside of `onInterrupt`. An
  interruption of the first leaves no error and the status at retry, one of the
  second may leave the status busy. `session/processor-effect.test.ts:867` "marks
  interruptions aborted without manual abort" expects an error and an idle session,
  of a stream that hangs. What remains: `InterruptMarked`.
* `ProcessorDenial.cfg`: `tool/typed-result.ts:561` turns the user's refusal of a
  built-in tool into a result, so that `ctx.blocked` is not set, and
  `processor.ts:873` answers "compact" before it looks at `ctx.blocked`; on
  "continue" and "compact" the loop goes on (`prompt.ts:1483`), although
  `continue_loop_on_deny`, of which `config/config.ts:302` says "Continue the agent
  loop when a tool call is denied", is not set. Nothing weaker is worth stating.
* `control-plane/workspace.ts:649` says of a claim that "any future events coming
  from the old workspace are ignored"; a replay that has read the row before the
  claim still applies one event (`ClaimStopsOthers`, bounded by `ForeignBounded`).

Behaviour that no document or test of the repository speaks about, and that the
properties name as their exceptions:

* An interrupted `cancel` of ShellThenRun leaves the queued caller without
  anybody to complete its Deferred (`AbortCancel`).
* A subtask is executed only if it is the newest that waits; the answer to a newer
  one hides the older (`Handled` in `PromptServed`).
* Assistant messages stay open when a run is interrupted or fails before the model
  or the tool is called, or, in a subtask, between the end of the tool and its
  record (`Unfinalized` in `AssistantsClosed`).
* A text that starts before the last one has ended leaves that one without an end
  (`"replaced"` in `EndedClean`).
* A late metadata report opens a part that has ended (`reopened`), and an
  interruption between the write of a part and of its entry leaves it open or, in
  `finishToolCall` (`processor.ts:168`), lets cleanup mark a completed part as
  aborted (`split` in `EndedClean` and `OutcomeStays`).
* `effect-flock.ts:263` computes the heartbeat's dates once; a critical section
  longer than `staleMs` is broken (`Heartbeat = FALSE`).

## 6. What is not modelled

The content of messages, prompts and outputs; storage failures; the disposal of
an instance, which interrupts all fibers at once; the end of the process (the
state of these components lives in memory, and nothing in them restores it);
the effect library itself, whose semantics (atomicity between suspensions,
interruption at suspensions, `ensuring`, `Deferred`, `SynchronizedRef`) the
models take from how this code uses it. `UserRequests` alone closes an instance.

The coordination layer cannot run at this commit: its durable store calls
operators that its database client lacks, `completeTerminal` queries inside its
own transaction, the Redis client dies as not configured, promoting deferred work
throws for what waits for a retry, and nothing outside of the tests constructs
the scheduler, the single-flight cache, the leases or the queue. A model of it
would be of an intention. The instance store (races of dispose and reload of one
directory) and the cancellation of a session's background jobs, which works on a
snapshot of the job table, are the next candidates. Components with status `not_modelled`
carry their reason in `PROJECT.json`.

## 7. Plan

Done: `RunSlot`, `Runner`, `SessionRunState`, `BackgroundJob`, `PromptLoop`,
`Processor`, `UserRequests`, `SyncEvent`, `ToolCache`, `Flock`, each with the
proofs of section 4. What could follow, in this order:

1. The cancellation of a session's background jobs, as a composition of
   `SessionRunState` and `BackgroundJob`.
2. The instance store: dispose and reload of one directory.
3. Action properties of the kind of `OutcomeStays` for `UserRequests` (a reply is
   given once) and `SyncEvent` (a log is only appended to).
