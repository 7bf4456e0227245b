----------------------------- MODULE PromptLoop -----------------------------
(***************************************************************************)
(* The prompt loop of one session: prompt, loop and runLoop of             *)
(* packages/runtime/src/session/prompt.ts, with the parts of processor.ts, *)
(* compaction.ts and message-v2.ts that decide what the loop does next.    *)
(* Clients store user messages and join or start the session's run; a run  *)
(* reads the stored messages, decides from their ids whether anything is   *)
(* left to do, and stores an assistant message for every turn.             *)
(*                                                                         *)
(* The runner is the run slot of module RunSlot: `cur` is the run that     *)
(* holds it, a cancel empties it at once, and callers of a run return when *)
(* its fiber has ended.  MessageID.ascending is a counter.  Every read and *)
(* every store of a message or of its parts suspends: clients and runs     *)
(* interleave there, and a run may be interrupted or fail there.           *)
(***************************************************************************)
EXTENDS Naturals, FiniteSetsExt

CONSTANTS
  Clients,   \* fibers that call prompt (or summarize)
  MaxMsg,    \* bound: how many message ids are handed out
  MaxRuns,   \* bound: how many runs are started
  Kinds      \* bound: what clients send, among "text", "subtask", "compaction"

Ids   == 1 .. MaxMsg
Ids0  == 0 .. MaxMsg
Runs  == 1 .. MaxRuns
Runs0 == 0 .. MaxRuns

ASSUME PromptAssumption ==
  /\ MaxMsg \in Nat /\ MaxRuns \in Nat
  /\ Kinds \subseteq {"text", "subtask", "compaction"}

VARIABLES
  msg,       \* msg[i]: the stored message with id i
  ids,       \* the last id MessageID.ascending returned
  cur,       \* the run that holds the slot, 0 if none
  runs,      \* how many runs were started
  intr,      \* runs that were interrupted
  lpc,       \* lpc[r]: where run r stands
  view,      \* view[r]: the messages r read, with their parts, in this turn
  task,      \* task[r]: the user message whose task this turn executes
  mine,      \* mine[r]: the assistant message r has stored last
  ask,       \* ask[r]: the user message r has stored, without its parts yet
  cpc,       \* cpc[c]: where client c stands
  cmsg,      \* cmsg[c]: the user message of c
  crun,      \* crun[c]: the run c awaits
  seen,      \* observation: messages that were in the input of a model call
  executed,  \* observation: user messages whose task was executed
  missed,    \* observation: messages that an assistant message with a higher id
             \* does not take into account, for they were not there to be read
  late,      \* observation: messages whose client joined a run that had
             \* decided to end without having read them
  kept,      \* observation: messages that a compaction left out of its input
  cut        \* observation: cut[r], where r stood when it failed or was
             \* interrupted

slot   == <<cur, runs, intr>>
turn   == <<view, task, mine, ask>>
client == <<cpc, cmsg, crun>>
obs    == <<seen, executed, missed, late, kept, cut>>
vars   == <<msg, ids, slot, lpc, turn, client, obs>>

NoMsg == [role |-> "none", kind |-> "text", auto |-> FALSE, parts |-> FALSE,
          finish |-> "none", tool |-> FALSE, summary |-> FALSE, closed |-> FALSE]
User(k, a) == [NoMsg EXCEPT !.role = "user", !.kind = k, !.auto = a]
Assistant(s) == [NoMsg EXCEPT !.role = "assistant", !.summary = s]

Msgs == [role : {"none", "user", "assistant"}, kind : {"text", "subtask", "compaction"},
         auto : BOOLEAN, parts : BOOLEAN, finish : {"none", "stop", "tool-calls", "error"},
         tool : BOOLEAN, summary : BOOLEAN, closed : BOOLEAN]

(* done: the loop found nothing left to do; stopped: a turn told it to stop. *)
Ends == {"done", "stopped", "failed", "cancelled"}
Over == Ends \cup {"none"}

(* Where a run stands: it has read the messages and chosen; its assistant    *)
(* message is stored and not complete; or it is, and what came of the turn   *)
(* is settled.                                                               *)
Choosing == {"subtask", "compaction", "overflow", "turn"}
Working  == {"subtaskPrepare", "subtaskExecute", "subtaskAfter", "compactPrepare",
             "compactProcess", "turnPrepare", "create", "process"}
Settling == {"subtaskSettle", "compactSettle", "turnSettle"}
Lpcs     == {"top", "asked", "exitDone", "exitStopped"} \cup Choosing \cup Working \cup Settling \cup Over

TypeOK ==
  /\ msg \in [Ids -> Msgs] /\ ids \in Ids0
  /\ cur \in Runs0 /\ runs \in Runs0 /\ intr \subseteq Runs
  /\ lpc \in [Runs -> Lpcs] /\ view \in [Runs -> SUBSET Ids]
  /\ task \in [Runs -> Ids0] /\ mine \in [Runs -> Ids0] /\ ask \in [Runs -> Ids0]
  /\ cpc \in [Clients -> {"ready", "store", "parts", "join", "await"} \cup Ends]
  /\ cmsg \in [Clients -> Ids0] /\ crun \in [Clients -> Runs0]
  /\ seen \subseteq Ids /\ executed \subseteq Ids0
  /\ missed \subseteq Ids /\ late \subseteq Ids0 /\ kept \subseteq Ids
  /\ cut \in [Runs -> Lpcs]

Init ==
  /\ msg = [i \in Ids |-> NoMsg] /\ ids = 0
  /\ cur = 0 /\ runs = 0 /\ intr = {}
  /\ lpc = [r \in Runs |-> "none"] /\ view = [r \in Runs |-> {}]
  /\ task = [r \in Runs |-> 0] /\ mine = [r \in Runs |-> 0] /\ ask = [r \in Runs |-> 0]
  /\ cpc = [c \in Clients |-> "ready"]
  /\ cmsg = [c \in Clients |-> 0] /\ crun = [c \in Clients |-> 0]
  /\ seen = {} /\ executed = {} /\ missed = {} /\ late = {} /\ kept = {}
  /\ cut = [r \in Runs |-> "none"]

-----------------------------------------------------------------------------
(* What a run derives from the messages (MessageV2.latest) *)

Stored  == {i \in Ids : msg[i].role # "none"}
Users   == {i \in Ids : msg[i].role = "user"}
Replies == {i \in Ids : msg[i].role = "assistant"}
Newest(S) == IF S = {} THEN 0 ELSE Max(S)

LastUser      == Newest(Users)
LastAssistant == Newest(Replies)
LastFinished  == Newest({i \in Replies : msg[i].finish # "none"})

(* Subtask and compaction parts newer than the latest finished assistant. *)
Tasks == {i \in Users : i > LastFinished /\ msg[i].parts /\ msg[i].kind # "text"}

(* Mutant: the ids of the user message and the answer are not compared. *)
LoopExitsAnyUser ==
  /\ LastAssistant # 0
  /\ msg[LastAssistant].finish \notin {"none", "tool-calls"}
  /\ ~msg[LastAssistant].tool

(* The exit condition of the loop. *)
LoopExits ==
  /\ LastAssistant # 0
  /\ msg[LastAssistant].finish \notin {"none", "tool-calls"}
  /\ ~msg[LastAssistant].tool
  /\ LastUser < LastAssistant

-----------------------------------------------------------------------------
(* Clients: createUserMessage, compaction.create and ensureRunning *)

(* The id is taken, and the parts are resolved, before the message is stored. *)
PromptId(c, k) ==
  /\ cpc[c] = "ready" /\ ids < MaxMsg /\ k # "compaction"
  /\ ids' = ids + 1
  /\ cmsg' = [cmsg EXCEPT ![c] = ids + 1]
  /\ cpc' = [cpc EXCEPT ![c] = "store"]
  /\ msg' = [msg EXCEPT ![ids + 1].kind = k]
  /\ UNCHANGED <<slot, lpc, turn, crun, obs>>

PromptStore(c) ==
  /\ cpc[c] = "store"
  /\ msg' = [msg EXCEPT ![cmsg[c]] = User(@.kind, FALSE)]
  /\ cpc' = [cpc EXCEPT ![c] = "parts"]
  /\ UNCHANGED <<ids, slot, lpc, turn, cmsg, crun, obs>>

(* summarize: compaction.create takes the id and stores the message at once. *)
Summarize(c, a) ==
  /\ cpc[c] = "ready" /\ ids < MaxMsg
  /\ ids' = ids + 1
  /\ cmsg' = [cmsg EXCEPT ![c] = ids + 1]
  /\ cpc' = [cpc EXCEPT ![c] = "parts"]
  /\ msg' = [msg EXCEPT ![ids + 1] = User("compaction", a)]
  /\ UNCHANGED <<slot, lpc, turn, crun, obs>>

PromptParts(c) ==
  /\ cpc[c] = "parts"
  /\ msg' = [msg EXCEPT ![cmsg[c]].parts = TRUE]
  /\ cpc' = [cpc EXCEPT ![c] = "join"]
  /\ UNCHANGED <<ids, slot, lpc, turn, cmsg, crun, obs>>

PromptJoin(c) ==
  /\ cpc[c] = "join" /\ cur # 0
  /\ crun' = [crun EXCEPT ![c] = cur]
  /\ cpc' = [cpc EXCEPT ![c] = "await"]
  /\ late' = IF lpc[cur] = "exitDone" /\ cmsg[c] \notin view[cur]
               THEN late \cup {cmsg[c]} ELSE late
  /\ UNCHANGED <<msg, ids, slot, lpc, turn, cmsg, seen, executed, missed, kept, cut>>

PromptStart(c) ==
  /\ cpc[c] = "join" /\ cur = 0 /\ runs < MaxRuns
  /\ runs' = runs + 1 /\ cur' = runs + 1
  /\ lpc' = [lpc EXCEPT ![runs + 1] = "top"]
  /\ crun' = [crun EXCEPT ![c] = runs + 1]
  /\ cpc' = [cpc EXCEPT ![c] = "await"]
  /\ UNCHANGED <<msg, ids, intr, turn, cmsg, obs>>

(* The client's result is how its run ended. *)
PromptReturn(c) ==
  /\ cpc[c] = "await" /\ lpc[crun[c]] \in Ends
  /\ cpc' = [cpc EXCEPT ![c] = lpc[crun[c]]]
  /\ UNCHANGED <<msg, ids, slot, lpc, turn, cmsg, crun, obs>>

Cancel ==
  /\ cur # 0
  /\ intr' = intr \cup {cur}
  /\ cur' = 0
  /\ UNCHANGED <<msg, ids, runs, lpc, turn, client, obs>>

-----------------------------------------------------------------------------
(* runLoop *)

Goto(r, p) == lpc' = [lpc EXCEPT ![r] = p]
Active(r, p) == lpc[r] = p /\ r \notin intr

(* Top of the loop: read the messages and decide. *)
LoopRead(r, p) ==
  /\ Active(r, "top")
  /\ IF LoopExits THEN p = "exitDone"
     ELSE IF Tasks # {} THEN p = msg[Max(Tasks)].kind
     ELSE \/ p = "turn"
          \/ p = "overflow" /\ LastFinished # 0 /\ ~msg[LastFinished].summary
  /\ Goto(r, p)
  /\ view' = [view EXCEPT ![r] = {i \in Stored : msg[i].role = "user" => msg[i].parts}]
  /\ task' = [task EXCEPT ![r] = Newest(Tasks)]
  /\ UNCHANGED <<msg, ids, slot, mine, ask, client, obs>>

(* Store an assistant message and go on to p.  Whatever has an older id and  *)
(* was not read counts as answered from now on.                              *)
Answer(r, p, s) ==
  /\ ids < MaxMsg
  /\ ids' = ids + 1
  /\ msg' = [msg EXCEPT ![ids + 1] = Assistant(s)]
  /\ mine' = [mine EXCEPT ![r] = ids + 1]
  /\ missed' = missed \cup {i \in Ids : i <= ids /\ i \notin view[r]}
  /\ Goto(r, p)
  /\ UNCHANGED <<slot, view, task, ask, client, seen, late, kept, cut>>

SubtaskAnswer(r) ==
  /\ Active(r, "subtask") /\ executed' = executed \cup {task[r]}
  /\ Answer(r, "subtaskPrepare", FALSE)
CompactAnswer(r) ==
  /\ Active(r, "compaction") /\ executed' = executed \cup {task[r]}
  /\ Answer(r, "compactPrepare", TRUE)
TurnAnswer(r) ==
  /\ Active(r, "turn") /\ UNCHANGED executed
  /\ Answer(r, "turnPrepare", FALSE)

(* A step of r that only takes it to p.                                      *)
Advance(r, from, p) ==
  /\ Active(r, from)
  /\ Goto(r, p)
  /\ UNCHANGED <<msg, ids, slot, turn, client, obs>>

(* r writes its assistant message and goes on to p.                          *)
Write(r, m, p) ==
  /\ msg' = [msg EXCEPT ![mine[r]] = m]
  /\ Goto(r, p)
  /\ UNCHANGED <<ids, slot, turn, client, obs>>

(* r stores a user message, whose parts follow, and comes back to the top.   *)
Ask(r, u) ==
  /\ ids < MaxMsg
  /\ ids' = ids + 1
  /\ msg' = [msg EXCEPT ![ids + 1] = u]
  /\ ask' = [ask EXCEPT ![r] = ids + 1]
  /\ Goto(r, "asked")
  /\ UNCHANGED <<slot, view, task, mine, client, obs>>

AskParts(r) ==
  /\ Active(r, "asked")
  /\ msg' = [msg EXCEPT ![ask[r]].parts = TRUE]
  /\ ask' = [ask EXCEPT ![r] = 0]
  /\ Goto(r, "top")
  /\ UNCHANGED <<ids, slot, view, task, mine, client, obs>>

(* r's assistant message, complete, with finish f and tool calls t.          *)
Closed(r, f, t) == [msg[mine[r]] EXCEPT !.finish = f, !.tool = t, !.closed = TRUE]

(* handleSubtask: the plugins and the agent, the task tool, which fails      *)
(* without failing the run, the plugins again, and the completion.           *)
SubtaskBegin(r)  == Advance(r, "subtaskPrepare", "subtaskExecute")
SubtaskResult(r) == Advance(r, "subtaskExecute", "subtaskAfter")
SubtaskClose(r)  == Active(r, "subtaskAfter") /\ Write(r, Closed(r, "tool-calls", TRUE), "subtaskSettle")

(* The tool part follows; a command asks for a summary of it.                *)
SubtaskSettle(r) ==
  \/ Advance(r, "subtaskSettle", "top")
  \/ Active(r, "subtaskSettle") /\ Ask(r, User("text", FALSE))

(* What a compaction gives to the model: all of the history, or the part     *)
(* before the turns that `select` keeps as they are.                         *)
Heads(r) == {view[r]} \cup {{i \in view[r] : i < h} : h \in view[r] \ {Min(view[r])}}

CompactBegin(r) ==
  /\ Active(r, "compactPrepare")
  /\ \E head \in Heads(r) : seen' = seen \cup head /\ kept' = kept \cup (view[r] \ head)
  /\ Goto(r, "compactProcess")
  /\ UNCHANGED <<msg, ids, slot, turn, client, executed, missed, late, cut>>

(* The processor is created, which an interruption is prepared for only when *)
(* the message is stored; then everything the model is given is gathered.    *)
TurnCreate(r) == Advance(r, "turnPrepare", "create")

TurnBegin(r) ==
  /\ Active(r, "create")
  /\ seen' = seen \cup view[r]
  /\ Goto(r, "process")
  /\ UNCHANGED <<msg, ids, slot, turn, client, executed, missed, late, kept, cut>>

(* handle.process: step-finish writes what the model has finished with, and  *)
(* by then the message has the tool calls of the step.                       *)
StepFinish(r) ==
  /\ r \notin intr
  /\ \E f \in {"stop", "tool-calls"}, t \in BOOLEAN :
       LET m == [msg[mine[r]] EXCEPT !.finish = f, !.tool = t] IN
         \/ lpc[r] = "process" /\ Write(r, m, "process")
         \/ lpc[r] = "compactProcess" /\ ~t /\ Write(r, m, "compactProcess")

(* cleanup completes the message, whatever has happened; tool calls that     *)
(* have no result are marked as interrupted, and do not count.               *)
Cleaned(r) == {Closed(r, msg[mine[r]].finish, t) : t \in {FALSE, msg[mine[r]].tool}}

ProcessEnd(r) ==
  /\ r \notin intr /\ lpc[r] \in {"process", "compactProcess"}
  /\ \E m \in Cleaned(r) :
       \/ lpc[r] = "process" /\ Write(r, m, "turnSettle")
       \/ lpc[r] = "compactProcess" /\ Write(r, m, "compactSettle")

(* What the follow-up of a compaction may be: "continue", or a replay of an  *)
(* earlier prompt that did not fit.                                          *)
FollowUps(r) ==
  {"text"} \cup ({msg[i].kind : i \in {j \in view[r] \cap Users : j < task[r]}} \ {"compaction"})

(* compaction.process after its call of process: stop, when there is an      *)
(* error or the summary did not fit; continue, with a follow-up when it was  *)
(* automatic.                                                                *)
CompactSettle(r) ==
  \/ Active(r, "compactSettle")
       /\ Write(r, [msg[mine[r]] EXCEPT !.finish = "error"], "exitStopped")
  \/ Advance(r, "compactSettle", "exitStopped")
  \/ Advance(r, "compactSettle", "top")
  \/ Active(r, "compactSettle") /\ msg[task[r]].auto
       /\ \E k \in FollowUps(r) : Ask(r, User(k, FALSE))

(* isOverflow: compaction.create queues a compaction for the next turn.      *)
OverflowCreate(r) == Active(r, "overflow") /\ Ask(r, User("compaction", TRUE))

(* What follows handle.process: a structured output completes a message that *)
(* has no finish; that, a missing one, an error or a denied tool stop the    *)
(* loop; a context overflow queues a compaction; else the loop goes on.      *)
TurnSettle(r) ==
  \/ Active(r, "turnSettle") /\ msg[mine[r]].finish = "none"
       /\ \E t \in BOOLEAN : Write(r, Closed(r, "stop", t), "exitStopped")
  \/ Advance(r, "turnSettle", "exitStopped")
  \/ Advance(r, "turnSettle", "top")
  \/ Active(r, "turnSettle") /\ Ask(r, User("compaction", TRUE))

(* A run ends for itself; finishRun frees the slot.                          *)
End(r, e) ==
  /\ Goto(r, e)
  /\ cur' = IF cur = r THEN 0 ELSE cur
  /\ UNCHANGED <<msg, ids, runs, intr, turn, client, seen, executed, missed, late, kept>>

(* A read, a plugin, a model or an agent that does not exist, or a store     *)
(* fails.  Nothing finalizes the assistant message then.  The task tool's    *)
(* failures are caught, and those of process end in its cleanup.             *)
LoopFail(r) ==
  /\ r \notin intr
  /\ lpc[r] \notin Over \cup {"subtaskExecute", "compactProcess", "process"}
  /\ End(r, "failed")
  /\ cut' = [cut EXCEPT ![r] = lpc[r]]

(* After the loop: read the last assistant message.                          *)
LoopEnd(r) ==
  /\ r \notin intr
  /\ \/ lpc[r] = "exitDone" /\ End(r, "done")
     \/ lpc[r] = "exitStopped" /\ End(r, "stopped")
  /\ UNCHANGED cut

(* Mutant: finalizeInterruptedAssistant is not installed around the creation *)
(* of the processor.                                                         *)
FinalizedNotInCreate(r) ==
  CASE lpc[r] = "subtaskExecute"                -> {Closed(r, "tool-calls", TRUE)}
    [] lpc[r] \in {"compactProcess", "process"} -> Cleaned(r)
    [] OTHER                                    -> {msg[mine[r]]}

(* Mutant: an interrupted subtask is finished with a value the loop does not *)
(* know.                                                                     *)
FinalizedCancelled(r) ==
  CASE lpc[r] = "subtaskExecute"                -> {Closed(r, "cancelled", TRUE)}
    [] lpc[r] \in {"compactProcess", "process"} -> Cleaned(r)
    [] lpc[r] = "create"                        -> {[msg[mine[r]] EXCEPT !.closed = TRUE]}
    [] OTHER                                    -> {msg[mine[r]]}

(* Mutant: the finalizer of the turn does not look for a completion time.    *)
FinalizedAgain(r) ==
  CASE lpc[r] = "subtaskExecute"                -> {Closed(r, "tool-calls", TRUE)}
    [] lpc[r] \in {"compactProcess", "process"} -> Cleaned(r)
    [] lpc[r] \in {"create", "turnSettle"}      -> {Closed(r, "error", FALSE)}
    [] OTHER                                    -> {msg[mine[r]]}

(* What the finalizers make of r's assistant message: handleSubtask's, while *)
(* the tool executes; the processor's cleanup; finalizeInterruptedAssistant, *)
(* from the creation of the processor on, when there is no completion time.  *)
Finalized(r) ==
  CASE lpc[r] = "subtaskExecute"                -> {Closed(r, "tool-calls", TRUE)}
    [] lpc[r] \in {"compactProcess", "process"} -> Cleaned(r)
    [] lpc[r] = "create"                        -> {[msg[mine[r]] EXCEPT !.closed = TRUE]}
    [] OTHER                                    -> {msg[mine[r]]}

LoopInterrupted(r) ==
  /\ r \in intr /\ lpc[r] \notin Over
  /\ IF mine[r] = 0 THEN UNCHANGED msg
                    ELSE \E m \in Finalized(r) : msg' = [msg EXCEPT ![mine[r]] = m]
  /\ Goto(r, "cancelled")
  /\ cut' = [cut EXCEPT ![r] = lpc[r]]
  /\ UNCHANGED <<ids, slot, turn, client, seen, executed, missed, late, kept>>

-----------------------------------------------------------------------------
LoopStep(r) ==
  \/ \E p \in {"exitDone"} \cup Choosing : LoopRead(r, p)
  \/ SubtaskAnswer(r) \/ CompactAnswer(r) \/ TurnAnswer(r)
  \/ SubtaskBegin(r) \/ SubtaskResult(r) \/ SubtaskClose(r) \/ SubtaskSettle(r)
  \/ CompactBegin(r) \/ CompactSettle(r) \/ OverflowCreate(r) \/ AskParts(r)
  \/ TurnCreate(r) \/ TurnBegin(r) \/ StepFinish(r) \/ ProcessEnd(r) \/ TurnSettle(r)
  \/ LoopFail(r) \/ LoopEnd(r) \/ LoopInterrupted(r)

Next ==
  \/ \E c \in Clients :
       \/ \E k \in Kinds : PromptId(c, k)
       \/ "compaction" \in Kinds /\ \E a \in BOOLEAN : Summarize(c, a)
       \/ PromptStore(c) \/ PromptParts(c)
       \/ PromptJoin(c) \/ PromptStart(c) \/ PromptReturn(c)
  \/ Cancel
  \/ \E r \in Runs : LoopStep(r)

Spec == Init /\ [][Next]_vars

-----------------------------------------------------------------------------
(* Properties *)

(* What the prompt tests expect of a prompt submitted while a run is active: *)
(* when prompt returns because the loop found nothing left to do, its        *)
(* message was part of the input of a model call.  A compaction message has  *)
(* nothing to include.                                                       *)
PromptIncluded ==
  \A c \in Clients :
    cpc[c] = "done" /\ msg[cmsg[c]].kind # "compaction" => cmsg[c] \in seen

(* Only a newer task can take the place of a task: the loop's read executes  *)
(* the newest of those that wait, and its answer hides the older ones.       *)
Handled(u) == u \in executed \/ \E n \in Users : n > u /\ msg[n].kind # "text"

(* There is no other way to lose a prompt than three.  When prompt returns   *)
(* because the loop found nothing left to do, the message was in the input   *)
(* of a model call and its task was executed or a newer one was, unless it   *)
(* was stored behind the back of a run that then took a higher id for its    *)
(* answer; or its client joined a run that had decided to end; or a          *)
(* compaction kept it for a next turn that nothing asked for.                *)
PromptServed ==
  \A c \in Clients : cpc[c] = "done" =>
    /\ msg[cmsg[c]].kind # "compaction" => cmsg[c] \in seen \cup missed \cup late \cup kept
    /\ msg[cmsg[c]].kind # "text" => Handled(cmsg[c]) \/ cmsg[c] \in missed \cup late

(* The places where nothing completes the assistant message of a run that    *)
(* fails, and those where nothing does when it is interrupted.               *)
Unfinalized(e) ==
  {"turnPrepare", "compactPrepare", "subtaskPrepare", "subtaskAfter"}
    \cup IF e = "failed" THEN {"create"} ELSE {}

(* An assistant message without a completion time is being worked on by its  *)
(* run, or that run ended before the model or the tool was called, or        *)
(* between the end of a subtask and its record: not one is left open by an   *)
(* interruption of the work itself, or of the preparation of a turn.         *)
AssistantsClosed ==
  \A i \in Replies : ~msg[i].closed =>
    \E r \in Runs : /\ mine[r] = i
                    /\ \/ lpc[r] \notin Ends
                       \/ lpc[r] \in {"failed", "cancelled"} /\ cut[r] \in Unfinalized(lpc[r])

(* One with a completion time is written again by its own run only, while it *)
(* settles what came of the turn and was not interrupted, and then all that  *)
(* is added is how it finished: no finalizer, no run that has replaced this  *)
(* one and no client touches it.                                             *)
SettleWrite(i) ==
  \E r \in Runs :
    /\ mine[r] = i /\ r \notin intr /\ lpc[r] \in {"compactSettle", "turnSettle"}
    /\ \/ lpc[r] = "compactSettle" /\ msg'[i] = [msg[i] EXCEPT !.finish = "error"]
       \/ lpc[r] = "turnSettle" /\ msg[i].finish = "none"
            /\ \E t \in BOOLEAN : msg'[i] = [msg[i] EXCEPT !.finish = "stop", !.tool = t]
Settled    == \A i \in Replies : msg[i].closed => msg'[i] = msg[i] \/ SettleWrite(i)
ClosedStays == [][Settled]_vars

-----------------------------------------------------------------------------
(* The inductive invariants: LoopInv with AnswerInv and TaskInv for          *)
(* PromptServed, OpenInv for AssistantsClosed, LoopInv for ClosedStays.      *)

(* The run that holds the slot goes on and was not interrupted.              *)
SlotInv ==
  /\ intr \subseteq 1 .. runs
  /\ cur # 0 => cur \in 1 .. runs /\ cur \notin intr /\ lpc[cur] \notin Over
  /\ \A r \in Runs : r > runs => lpc[r] = "none"

(* A client's message is not there until it is stored, by this client alone, *)
(* and a user message from then on.                                          *)
ClientInv ==
  /\ \A i \in Ids : i > ids => msg[i].role = "none"
  /\ \A c \in Clients :
       /\ cpc[c] = "store" => cmsg[c] \in Ids /\ cmsg[c] <= ids /\ msg[cmsg[c]].role = "none"
       /\ cpc[c] \notin {"ready", "store"} => cmsg[c] \in Users
       /\ cpc[c] \in {"join", "await"} => msg[cmsg[c]].parts
       /\ cpc[c] = "await" => crun[c] \in Runs /\ lpc[crun[c]] # "none"
  /\ \A c, d \in Clients : cpc[c] = "store" /\ cpc[d] = "store" /\ cmsg[c] = cmsg[d] => c = d

(* A run writes to its own assistant message, which is open while it works   *)
(* on it and complete when it settles, and asks with a user message.         *)
OwnInv ==
  /\ \A r \in Runs : /\ mine[r] # 0 => mine[r] \in Replies
                     /\ lpc[r] \in Working \cup Settling => mine[r] # 0
                     /\ lpc[r] \in Working => ~msg[mine[r]].closed
                     /\ lpc[r] \in Settling => msg[mine[r]].closed
                     /\ lpc[r] = "asked" => ask[r] \in Users
  /\ \A r, q \in Runs : mine[r] # 0 /\ mine[r] = mine[q] => r = q

LoopInv == TypeOK /\ SlotInv /\ ClientInv /\ OwnInv

(* What is older than an answer that ends the loop was in the input of a     *)
(* model call, kept or missed; so was what a run that is done has read, and  *)
(* what its clients have stored, unless they came late.                      *)
Accounted == seen \cup missed \cup kept
Waits(c)  == cpc[c] = "done" \/ (cpc[c] = "await" /\ lpc[crun[c]] \in {"exitDone", "done"})
AnswerInv ==
  /\ \A r \in Runs :
       /\ lpc[r] \in Working \cup Settling => \A u \in Ids : u < mine[r] => u \in view[r] \cup missed
       /\ lpc[r] \in {"compactProcess", "compactSettle", "process", "turnSettle"} =>
             view[r] \subseteq seen \cup kept
       /\ lpc[r] = "exitDone" => view[r] \subseteq Stored /\ view[r] \cap Users \subseteq Accounted
  /\ \A a \in Replies : msg[a].finish \notin {"none", "tool-calls"} =>
       \A u \in Ids : u < a => u \in Accounted
  /\ \A c \in Clients : Waits(c) => cmsg[c] \in Accounted \cup late

(* The tasks that are older than a finished answer, or than one a run works  *)
(* on, have been dealt with or were missed; those a run has read too, but    *)
(* for the one it is about to execute.                                       *)
DealtWith(u) ==
  u \in missed \/ (u \in Stored /\ (msg[u].role = "user" /\ msg[u].kind # "text" => Handled(u)))
TaskInv ==
  /\ \A r \in Runs :
       /\ lpc[r] \in Working \cup Settling => \A u \in Ids : u < mine[r] => DealtWith(u)
       /\ lpc[r] \in {"subtask", "compaction", "turn", "exitDone"} =>
            \A u \in view[r] :
              DealtWith(u) \/ (lpc[r] \in {"subtask", "compaction"} /\ u = task[r] /\ u \in Users)
  /\ \A a \in Replies : msg[a].finish # "none" => \A u \in Ids : u < a => DealtWith(u)
  /\ \A c \in Clients : Waits(c) => DealtWith(cmsg[c]) \/ cmsg[c] \in late

(* An open assistant message is one its run works on, or where that run was  *)
(* cut nothing completes it.                                                 *)
OpenInv ==
  \A i \in Replies : ~msg[i].closed =>
    \E r \in Runs : /\ mine[r] = i
                    /\ \/ lpc[r] \in Working
                       \/ lpc[r] \in {"failed", "cancelled"} /\ cut[r] \in Unfinalized(lpc[r])
=============================================================================
