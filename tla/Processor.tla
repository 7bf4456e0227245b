------------------------------ MODULE Processor ------------------------------
(***************************************************************************)
(* packages/runtime/src/session/processor.ts: one call of process, which   *)
(* turns the event stream of a model into the parts of one assistant       *)
(* message, with the retry policy of session/retry.ts around it and the    *)
(* tools of session/tools.ts running beside it.                            *)
(*                                                                         *)
(* Three things happen at once: the process fiber handles events one by    *)
(* one; every tool runs in a fiber of its own, which outlives the stream   *)
(* and reports metadata through updateToolCall; and the user may interrupt *)
(* the process fiber at any suspension.  A part is read and written in the *)
(* database, so between the two the other side may act on it.  A write     *)
(* that was issued when the fiber is interrupted is carried out, and       *)
(* before any read that is issued later; what follows it in the code is    *)
(* not.  onInterrupt and cleanup are not interruptible; halt is, where it  *)
(* handles the last failure, for there it is outside of onInterrupt.       *)
(***************************************************************************)
EXTENDS Naturals, FiniteSets

CONSTANTS
  Calls,       \* ids of the tool calls the model may make
  Builtin,     \* those of tools of the registry; the others are MCP tools
  None,        \* no call
  MaxAttempts, \* bound: attempts of one process (the policy has no limit)
  ShouldBreak  \* experimental.continue_loop_on_deny is not set

ASSUME ProcessorAssumption ==
  /\ None \notin Calls /\ IsFiniteSet(Calls) /\ Builtin \subseteq Calls
  /\ MaxAttempts \in Nat /\ ShouldBreak \in BOOLEAN

VARIABLES
  pc,        \* where the process fiber stands
  cur,       \* the tool call its event, or its cleanup, is about
  ev,        \* the kind of the tool event being handled
  got,       \* the entry of ctx.toolcalls that it has read
  todo,      \* the tool calls cleanup has yet to look at
  attempt,   \* the number of the attempt
  calls,     \* calls[c]: the entry of ctx.toolcalls
  part,      \* part[c]: the state of the tool part in the database
  lc,        \* lc[c]: how far the provider has got with call c
  tool,      \* tool[c]: the fiber that executes call c
  held,      \* held[c]: the part and the entry that fiber has read
  prose,     \* currentText and reasoningMap: the kinds that are open
  unended,   \* kinds of the text and reasoning parts without an end, by attempt;
             \* "replaced": a text that was currentText when the next one started
  compact,   \* ctx.needsCompaction
  blocked,   \* ctx.blocked
  error,     \* assistantMessage.error
  completed, \* assistantMessage.time.completed
  status,    \* the session's status
  exit,      \* how process ended
  reopened,  \* observation: parts a late metadata report has opened again
  split,     \* observation: the call whose part was written, but not yet its
             \* entry in ctx.toolcalls, when the fiber was interrupted
  cut        \* observation: what the interruption came upon

fiber == <<pc, cur, ev, got, todo>>
ctx   == <<prose, unended, compact, blocked, error, completed, status>>
env   == <<lc, tool, held>>
obs   == <<reopened, split, cut>>
vars  == <<fiber, attempt, calls, part, env, ctx, exit, obs>>

Open     == {"pending", "running"}
Outcomes == {"completed", "failed", "rejected", "denied"}
Entries  == {"none", "open", "inputEnded"}
NoRead   == [part |-> "none", entry |-> "none"]
Final    == Outcomes \cup {"aborted"}
Reading  == {"ensureRead", "callRead", "finishRead"}
Writing  == {"ensureWrite", "callWrite", "finishWrite"}
Cleanup  == {"cleanWait", "cleanRead", "cleanWrite"}

TypeOK ==
  /\ pc \in {"idle", "stream", "doom", "backoff", "halt", "done"}
             \cup Reading \cup Writing \cup Cleanup
  /\ cur \in Calls \cup {None} /\ todo \subseteq Calls
  /\ ev \in {"none", "input-start", "input-end", "call", "result"}
  /\ got \in Entries
  /\ attempt \in 0 .. MaxAttempts
  /\ calls \in [Calls -> Entries]
  /\ part \in [Calls -> {"none"} \cup Open \cup Final]
  /\ lc \in [Calls -> {"none", "input", "inputEnd", "called", "over"}]
  /\ tool \in [Calls -> {"none", "exec", "report"} \cup Outcomes]
  /\ held \in [Calls -> [part : {"none"} \cup Open \cup Final, entry : Entries]]
  /\ prose \subseteq {"text", "reasoning"}
  /\ unended \subseteq {"text", "reasoning", "replaced"} \X (1 .. MaxAttempts)
  /\ compact \in BOOLEAN /\ blocked \in BOOLEAN /\ completed \in BOOLEAN
  /\ error \in {"none", "aborted", "failed"}
  /\ status \in {"idle", "busy", "retry"}
  /\ exit \in {"none", "interrupted", "compact", "stop", "continue"}
  /\ reopened \subseteq Calls /\ split \subseteq Calls
  /\ cut \in {"none", "stream", "backoff", "halt"}
  /\ pc \in Reading \cup Writing \cup {"cleanRead", "cleanWrite"} => cur \in Calls
  /\ \A c \in Calls : tool[c] # "report" => held[c] = NoRead

Init ==
  /\ pc = "idle" /\ cur = None /\ ev = "none" /\ got = "none" /\ todo = {}
  /\ attempt = 0
  /\ calls = [c \in Calls |-> "none"]
  /\ part = [c \in Calls |-> "none"]
  /\ lc = [c \in Calls |-> "none"]
  /\ tool = [c \in Calls |-> "none"]
  /\ held = [c \in Calls |-> NoRead]
  /\ prose = {} /\ unended = {}
  /\ compact = FALSE /\ blocked = FALSE /\ completed = FALSE
  /\ error = "none" /\ status = "idle" /\ exit = "none"
  /\ reopened = {} /\ split = {} /\ cut = "none"

-----------------------------------------------------------------------------
(* The process fiber and its stream *)

GoTo(p, c, e, g) == pc' = p /\ cur' = c /\ ev' = e /\ got' = g /\ UNCHANGED todo
ToStream == GoTo("stream", None, "none", "none")

(* An attempt begins; what is left of the last one in ctx is the tool calls. *)
Begin ==
  /\ pc \in {"idle", "backoff"}
  /\ attempt < MaxAttempts
  /\ attempt' = attempt + 1
  /\ prose' = {} /\ status' = "busy"
  /\ ToStream
  /\ UNCHANGED <<calls, part, env, unended, compact, blocked, error, completed, exit, obs>>

(* Parts without an end once those of these kinds that ctx knows of end.     *)
WithEnds(kinds) == unended \ (kinds \X {attempt})

(* reasoning-start leaves an id that is in the map alone; text-start makes a *)
(* new part, whatever currentText is.                                        *)
ProseStart(k) ==
  /\ pc = "stream" /\ (k = "reasoning" => k \notin prose)
  /\ prose' = prose \cup {k}
  /\ unended' = unended \cup {<<k, attempt>>}
                \cup IF k \in prose THEN {<<"replaced", attempt>>} ELSE {}
  /\ UNCHANGED <<fiber, attempt, calls, part, env, compact, blocked, error, completed,
                 status, exit, obs>>

(* text-end, reasoning-end.                                                  *)
ProseEnd(k) ==
  /\ pc = "stream" /\ k \in prose
  /\ prose' = prose \ {k}
  /\ unended' = WithEnds({k})
  /\ UNCHANGED <<fiber, attempt, calls, part, env, compact, blocked, error, completed,
                 status, exit, obs>>

(* The stream is over; process goes on at p.                                 *)
EndStream(p) ==
  /\ GoTo(p, None, "none", "none")
  /\ lc' = [c \in Calls |-> "over"]
  /\ UNCHANGED <<tool, held>>

(* step-finish ends the reasoning; when the context is full the stream is    *)
(* left there and then.                                                      *)
StepFinish ==
  /\ pc = "stream"
  /\ prose' = prose \ {"reasoning"}
  /\ unended' = WithEnds({"reasoning"})
  /\ UNCHANGED <<attempt, calls, part, blocked, error, completed, status, exit, obs>>
  /\ \/ UNCHANGED <<fiber, env, compact>>
     \/ compact' = TRUE /\ EndStream("cleanWait")

StreamEnds ==
  /\ pc = "stream"
  /\ EndStream("cleanWait")
  /\ UNCHANGED <<attempt, calls, part, ctx, exit, obs>>

(* halt, up to its publish: too long a context asks for compaction, anything *)
(* else is the message's error.                                              *)
Halt(e) ==
  /\ IF e = "overflow" THEN compact' = TRUE /\ UNCHANGED error
                       ELSE error' = e /\ UNCHANGED compact
  /\ UNCHANGED <<prose, unended, blocked, completed>>

(* The stream or a handler fails: the policy waits and tries again, or halt. *)
Fails ==
  /\ pc \in {"stream", "doom"}
  /\ UNCHANGED <<attempt, calls, part, exit, obs>>
  /\ \/ /\ pc = "stream" /\ attempt < MaxAttempts
        /\ GoTo("backoff", None, "none", "none")
        /\ status' = "retry"
        /\ lc' = [c \in Calls |-> IF lc[c] = "none" /\ tool[c] = "none" THEN "none" ELSE "over"]
        /\ UNCHANGED <<tool, held, prose, unended, compact, blocked, error, completed>>
     \/ /\ EndStream("halt") /\ UNCHANGED status
        /\ \E e \in {"failed", "overflow"} : Halt(e)

(* The status halt leaves behind.                                            *)
Halted == IF error # "none" THEN "idle" ELSE status

(* The rest of halt: an error makes the session idle.                        *)
HaltEnds ==
  /\ pc = "halt"
  /\ GoTo("cleanWait", None, "none", "none")
  /\ status' = Halted
  /\ UNCHANGED <<attempt, calls, part, env, prose, unended, compact, blocked, error, completed,
                 exit, obs>>

-----------------------------------------------------------------------------
(* Tool events.  ensureToolCall looks for the part of the call; when there   *)
(* is none it writes one and then makes the entry.                           *)

Emits(c, e) ==
  CASE e = "input-start" -> lc[c] = "none"
    [] e = "input-end"   -> lc[c] = "input"
    [] e = "call"        -> lc[c] \in {"none", "input", "inputEnd"}
    [] e = "result"      -> lc[c] = "called" /\ tool[c] \in Outcomes

After(e) == CASE e = "input-start" -> "input" [] e = "input-end" -> "inputEnd"
              [] e = "call" -> "called" [] e = "result" -> "over"

ToolEvent(c, e) ==
  /\ pc = "stream" /\ Emits(c, e)
  /\ lc' = [lc EXCEPT ![c] = After(e)]
  /\ GoTo(IF e = "result" THEN "finishRead" ELSE "ensureRead", c, e, "none")
  /\ UNCHANGED <<attempt, calls, part, tool, held, ctx, exit, obs>>

(* What the handler does once the entry exists.                              *)
Ensured(c, entry) ==
  CASE ev = "input-start" -> /\ calls' = [calls EXCEPT ![c] = entry]
                             /\ ToStream
    [] ev = "input-end"   -> /\ calls' = [calls EXCEPT ![c] = "inputEnded"]
                             /\ ToStream
    [] ev = "call"        -> /\ calls' = [calls EXCEPT ![c] = entry]
                             /\ GoTo("callRead", c, ev, "none")

EnsureRead ==
  /\ pc = "ensureRead"
  /\ IF calls[cur] # "none"
       THEN Ensured(cur, calls[cur])
       ELSE GoTo("ensureWrite", cur, ev, "none") /\ UNCHANGED calls
  /\ UNCHANGED <<attempt, part, env, ctx, exit, obs>>

EnsureWrite ==
  /\ pc = "ensureWrite"
  /\ part' = [part EXCEPT ![cur] = "pending"]
  /\ Ensured(cur, "open")
  /\ UNCHANGED <<attempt, env, ctx, exit, obs>>

(* tool-call: updateToolCall makes the part running; three equal calls in a  *)
(* row ask the user (the doom loop), who may refuse.                         *)
CallRead ==
  /\ pc = "callRead"
  /\ IF calls[cur] # "none" THEN GoTo("callWrite", cur, ev, calls[cur]) ELSE ToStream
  /\ UNCHANGED <<attempt, calls, part, env, ctx, exit, obs>>

CallWrite ==
  /\ pc = "callWrite"
  /\ part' = [part EXCEPT ![cur] = "running"]
  /\ calls' = [calls EXCEPT ![cur] = got]
  /\ ToStream \/ GoTo("doom", None, "none", "none")
  /\ UNCHANGED <<attempt, env, ctx, exit, obs>>

DoomAllowed ==
  /\ pc = "doom"
  /\ ToStream
  /\ UNCHANGED <<attempt, calls, part, env, ctx, exit, obs>>

(* finishToolCall: a call whose input has ended, or whose part is not        *)
(* running, is left alone.                                                   *)
FinishRead ==
  /\ pc = "finishRead"
  /\ IF calls[cur] = "open"
       THEN /\ calls' = [calls EXCEPT ![cur] = "inputEnded"]
            /\ IF part[cur] = "running" THEN GoTo("finishWrite", cur, ev, "none") ELSE ToStream
       ELSE ToStream /\ UNCHANGED calls
  /\ UNCHANGED <<attempt, part, env, ctx, exit, obs>>

(* Mutant: the entry of a settled call stays in ctx.toolcalls.               *)
FinishWriteKeepsEntry ==
  /\ pc = "finishWrite"
  /\ part' = [part EXCEPT ![cur] = tool[cur]]
  /\ blocked' = IF tool[cur] = "rejected" THEN ShouldBreak ELSE blocked
  /\ ToStream
  /\ UNCHANGED <<attempt, calls, env, prose, unended, compact, error, completed, status, exit, obs>>

FinishWrite ==
  /\ pc = "finishWrite"
  /\ part' = [part EXCEPT ![cur] = tool[cur]]
  /\ blocked' = IF tool[cur] = "rejected" THEN ShouldBreak ELSE blocked
  /\ calls' = [calls EXCEPT ![cur] = "none"]
  /\ ToStream
  /\ UNCHANGED <<attempt, env, prose, unended, compact, error, completed, status, exit, obs>>

-----------------------------------------------------------------------------
(* The tools.  The SDK starts one when it has the call, which may be before  *)
(* any of the call's events is handled.                                      *)

ToolStart(c) ==
  /\ tool[c] = "none" /\ lc[c] # "over" /\ pc \notin {"idle", "backoff"}
  /\ tool' = [tool EXCEPT ![c] = "exec"]
  /\ UNCHANGED <<fiber, attempt, calls, part, lc, held, ctx, exit, obs>>

(* ctx.metadata: updateToolCall with the part and the entry as they were     *)
(* when it read them.                                                        *)
ReportRead(c) ==
  /\ tool[c] = "exec" /\ calls[c] # "none"
  /\ tool' = [tool EXCEPT ![c] = "report"]
  /\ held' = [held EXCEPT ![c] = [part |-> part[c], entry |-> calls[c]]]
  /\ UNCHANGED <<fiber, attempt, calls, part, lc, ctx, exit, obs>>

ReportWrite(c) ==
  /\ tool[c] = "report"
  /\ LET seen == held[c].part IN
       /\ part' = [part EXCEPT ![c] = IF seen \in Open THEN "running" ELSE seen]
       /\ reopened' = IF part[c] \in Final /\ seen \in Open THEN reopened \cup {c} ELSE reopened
  /\ calls' = [calls EXCEPT ![c] = held[c].entry]
  /\ tool' = [tool EXCEPT ![c] = "exec"]
  /\ held' = [held EXCEPT ![c] = NoRead]
  /\ UNCHANGED <<fiber, attempt, lc, ctx, exit, split, cut>>

(* Mutant: a tool ends without waiting for its report.                       *)
ToolOverMidReport(c, o) ==
  /\ tool[c] \in {"exec", "report"}
  /\ (o = "rejected" => c \notin Builtin) /\ (o = "denied" => c \in Builtin)
  /\ tool' = [tool EXCEPT ![c] = o]
  /\ UNCHANGED <<fiber, attempt, calls, part, lc, held, ctx, exit, obs>>

(* A tool ends.  When the user refuses it, an MCP tool fails with the        *)
(* RejectedError; TypedResult.wrapExecute turns that of a built-in tool into *)
(* a result whose toolStatus is "denied".                                    *)
ToolOver(c, o) ==
  /\ tool[c] = "exec"
  /\ (o = "rejected" => c \notin Builtin) /\ (o = "denied" => c \in Builtin)
  /\ tool' = [tool EXCEPT ![c] = o]
  /\ UNCHANGED <<fiber, attempt, calls, part, lc, held, ctx, exit, obs>>

-----------------------------------------------------------------------------
(* Interruption: the write under way is carried out, onInterrupt records the *)
(* abort unless there is an error already, and cleanup follows.              *)

Landed == CASE pc = "ensureWrite" -> [part EXCEPT ![cur] = "pending"]
            [] pc = "callWrite"   -> [part EXCEPT ![cur] = "running"]
            [] pc = "finishWrite" -> [part EXCEPT ![cur] = tool[cur]]
            [] OTHER              -> part

(* Mutant: the session is left busy.                                         *)
OnInterruptBusy ==
  IF error = "none" THEN Halt("aborted") /\ UNCHANGED status ELSE UNCHANGED ctx

(* onInterrupt: nothing can interrupt this halt.                             *)
OnInterrupt ==
  IF error = "none" THEN Halt("aborted") /\ status' = "idle" ELSE UNCHANGED ctx

Interrupt ==
  /\ pc \in {"stream", "doom"} \cup Reading \cup Writing
  /\ part' = Landed
  /\ split' = IF pc \in {"ensureWrite", "finishWrite"} THEN split \cup {cur} ELSE split
  /\ exit' = "interrupted" /\ cut' = "stream"
  /\ OnInterrupt
  /\ EndStream("cleanWait")
  /\ UNCHANGED <<attempt, calls, reopened>>

(* While it waits to try again, and in halt after the last attempt, the      *)
(* fiber is outside of onInterrupt.                                          *)
InterruptBackoff ==
  /\ pc = "backoff"
  /\ exit' = "interrupted" /\ cut' = "backoff"
  /\ EndStream("cleanWait")
  /\ UNCHANGED <<attempt, calls, part, ctx, reopened, split>>

(* Before or after halt has set the status.                                  *)
InterruptHalt ==
  /\ pc = "halt"
  /\ exit' = "interrupted" /\ cut' = "halt"
  /\ status' \in {status, Halted}
  /\ EndStream("cleanWait")
  /\ UNCHANGED <<attempt, calls, part, prose, unended, compact, blocked, error, completed,
                 reopened, split>>

-----------------------------------------------------------------------------
(* cleanup: the text and reasoning ctx knows of are ended; the tool calls    *)
(* get 250 ms, which nothing can use since the stream is over; then each     *)
(* one that is still in ctx.toolcalls is read and written as aborted.        *)

Known == {c \in Calls : calls[c] # "none"}

CleanNext(rest) ==
  IF rest = {}
    THEN /\ pc' = "done" /\ cur' = None /\ todo' = {}
         /\ calls' = [c \in Calls |-> "none"]
         /\ completed' = TRUE
         /\ exit' = IF exit # "none" THEN exit
                    ELSE IF compact THEN "compact"
                    ELSE IF blocked \/ error # "none" THEN "stop" ELSE "continue"
    ELSE /\ \E c \in rest : cur' = c /\ todo' = rest \ {c}
         /\ pc' = "cleanRead"
         /\ UNCHANGED <<calls, completed, exit>>

CleanWait ==
  /\ pc = "cleanWait"
  /\ unended' = WithEnds(prose)
  /\ prose' = {}
  /\ CleanNext(Known)
  /\ UNCHANGED <<ev, got, attempt, part, env, compact, blocked, error, status, obs>>

(* Mutant: a call whose input has ended is taken to be settled.              *)
CleanReadOpen ==
  /\ pc = "cleanRead"
  /\ IF calls[cur] = "open"
       THEN pc' = "cleanWrite" /\ UNCHANGED <<cur, todo, calls, completed, exit>>
       ELSE CleanNext(todo)
  /\ UNCHANGED <<ev, got, attempt, part, env, prose, unended, compact, blocked, error,
                 status, obs>>

CleanRead ==
  /\ pc = "cleanRead"
  /\ IF calls[cur] # "none"
       THEN pc' = "cleanWrite" /\ UNCHANGED <<cur, todo, calls, completed, exit>>
       ELSE CleanNext(todo)
  /\ UNCHANGED <<ev, got, attempt, part, env, prose, unended, compact, blocked, error,
                 status, obs>>

CleanWrite ==
  /\ pc = "cleanWrite"
  /\ part' = [part EXCEPT ![cur] = "aborted"]
  /\ CleanNext(todo)
  /\ UNCHANGED <<ev, got, attempt, env, prose, unended, compact, blocked, error, status, obs>>

Fiber ==
  \/ Begin \/ StepFinish \/ StreamEnds \/ Fails \/ HaltEnds
  \/ \E k \in {"text", "reasoning"} : ProseStart(k) \/ ProseEnd(k)
  \/ \E c \in Calls, e \in {"input-start", "input-end", "call", "result"} : ToolEvent(c, e)
  \/ EnsureRead \/ EnsureWrite \/ CallRead \/ CallWrite \/ DoomAllowed
  \/ FinishRead \/ FinishWrite

Clean == CleanWait \/ CleanRead \/ CleanWrite

Next ==
  \/ Fiber
  \/ \E c \in Calls : ToolStart(c) \/ ReportRead(c) \/ ReportWrite(c)
  \/ \E c \in Calls, o \in Outcomes : ToolOver(c, o)
  \/ Interrupt \/ InterruptBackoff \/ InterruptHalt
  \/ Clean

Spec == Init /\ [][Next]_vars
FairSpec == Spec /\ WF_vars(Clean)

-----------------------------------------------------------------------------
(* Properties *)

(* When process is over, whatever was interrupted or tried again: a text or  *)
(* a reasoning without an end is of an abandoned attempt, or a text that the *)
(* next one replaced before its end; and no tool part stays pending or       *)
(* running unless the interruption came between the write of the part and    *)
(* that of its entry, or a tool reported metadata it had read too early.     *)
EndedClean ==
  pc = "done" =>
    /\ \A u \in unended : u[2] < attempt \/ u[1] = "replaced"
    /\ \A c \in Calls : part[c] \in Open => c \in reopened \cup split

(* What an interrupted message shows depends on what was interrupted: after  *)
(* a stream or a handler it carries an error and the session is idle; after  *)
(* halt it carries an error or is to be compacted, and the session may be    *)
(* busy for ever.  Only a wait between two attempts leaves no mark at all.   *)
InterruptMarked ==
  pc = "done" /\ exit = "interrupted" =>
    /\ cut = "stream" => error # "none" /\ status = "idle"
    /\ error = "none" => cut = "backoff" \/ (cut = "halt" /\ compact)

(* What the processor's tests expect of every interruption.                  *)
InterruptAlwaysMarked ==
  pc = "done" /\ exit = "interrupted" => error # "none" /\ status = "idle"

(* What the configuration promises when continue_loop_on_deny is not set:    *)
(* the loop does not go on when a tool call, of any kind, was denied.  It    *)
(* goes on when process ends with "continue", and with "compact" too.        *)
DenialStops ==
  pc = "done" /\ ShouldBreak /\ (\E c \in Calls : part[c] \in {"rejected", "denied"})
    => exit \in {"stop", "interrupted"}

(* The outcome of a tool that is recorded in its part stays there: no event, *)
(* late report, retry, interruption or cleanup writes over it, but for a     *)
(* call whose finishToolCall was interrupted after the write of the part and *)
(* before the entry is deleted, which cleanup marks as aborted.              *)
OutcomeStays ==
  [][\A c \in Calls : part[c] \in Outcomes => part'[c] = part[c] \/ c \in split]_vars

(* Whatever the tools do meanwhile, cleanup comes to its end.                *)
CleanupEnds == pc \in Cleanup ~> pc = "done"

(* What the processor's tests expect of a stream in which a tool's input     *)
(* ends, the tool is called and its result arrives: the part of a call whose *)
(* result was handled is not reported as aborted.                            *)
ResultKept ==
  [][pc = "finishRead" /\ pc' = "stream" /\ part[cur] = "running" => calls'[cur] = "none"]_vars

-----------------------------------------------------------------------------
(* The inductive invariant *)

(* A part that ended ended as its tool did; what a tool has read of its part *)
(* is older than its own end.                                                *)
SettledInv ==
  /\ \A c \in Calls : part[c] \in Outcomes => tool[c] = part[c]
  /\ \A c \in Calls : held[c].part \notin Outcomes
  /\ pc \in {"finishRead", "finishWrite"} => tool[cur] \in Outcomes

(* An entry is of a part that exists, in ctx.toolcalls as in what a tool or  *)
(* the process fiber has read of it.                                         *)
EntryInv ==
  /\ \A c \in Calls : calls[c] # "none" => part[c] # "none"
  /\ \A c \in Calls : tool[c] = "report" =>
        held[c].entry # "none" /\ held[c].part # "none" /\ part[c] # "none"
  /\ pc = "callWrite" => calls[cur] # "none" /\ got # "none"
  /\ pc \in {"ensureRead", "ensureWrite"} => ev \in {"input-start", "input-end", "call"}

(* But for the two cases an open part is in ctx.toolcalls, and cleanup has   *)
(* it before it.                                                             *)
OpenInv ==
  \A c \in Calls \ (reopened \cup split) : part[c] \in Open =>
     /\ pc # "done" /\ calls[c] # "none"
     /\ pc \in {"cleanRead", "cleanWrite"} => c \in todo \cup {cur}

(* Text and reasoning of this attempt without an end are those ctx knows of, *)
(* which the first step of cleanup ends, and texts that were replaced.       *)
ProseInv ==
  /\ pc # "idle" => attempt >= 1
  /\ \A u \in unended :
        /\ u[2] <= attempt
        /\ u[2] = attempt =>
             \/ u[1] = "replaced"
             \/ u[1] \in prose /\ pc \notin {"cleanRead", "cleanWrite", "done"}

(* An error or an exit is recorded on the way to cleanup.                    *)
ExitInv ==
  /\ pc \notin Cleanup \cup {"halt", "done"} => error = "none" /\ exit = "none"
  /\ pc = "halt" => exit = "none" /\ (error # "none" \/ compact)
  /\ pc # "done" => exit \in {"none", "interrupted"}
  /\ exit = "interrupted" =>
       /\ cut = "stream" => error # "none" /\ status = "idle"
       /\ error = "none" => cut = "backoff" \/ (cut = "halt" /\ compact)

(* A call whose outcome is recorded has no entry any more, no event of it is *)
(* to come, and neither the process fiber nor cleanup is about to write it.  *)
RecordedInv ==
  /\ pc \in {"finishRead", "finishWrite"} => lc[cur] = "over"
  /\ \A c \in Calls \ split : part[c] \in Outcomes =>
       /\ calls[c] = "none" /\ lc[c] = "over"
       /\ pc \in Reading \cup Writing \cup {"cleanWrite"} => cur # c

ProcessorInv == TypeOK /\ SettledInv /\ EntryInv /\ OpenInv /\ ProseInv /\ ExitInv
=============================================================================
