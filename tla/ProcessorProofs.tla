-------------------------- MODULE ProcessorProofs --------------------------
(***************************************************************************)
(* How process ends: that no tool part stays open but in the two cases,    *)
(* what an interruption leaves behind and that an outcome is not written   *)
(* over, for any tool calls, attempts and configuration.                   *)
(***************************************************************************)
EXTENDS Processor, TLAPS

(* What the handlers do once the entry exists: it is put in place, and the   *)
(* handler is over or goes on to update the part.                            *)
LEMMA EnsuredEffect ==
  ASSUME NEW c, NEW entry, Ensured(c, entry), ev \in {"input-start", "input-end", "call"}
  PROVE  /\ \/ calls' = [calls EXCEPT ![c] = entry]
            \/ calls' = [calls EXCEPT ![c] = "inputEnded"]
         /\ ToStream \/ GoTo("callRead", c, "call", "none")
BY DEF Ensured

(* cleanup takes one of the rest, or ends.                                   *)
LEMMA CleanNextTypes ==
  ASSUME NEW rest \in SUBSET Calls, CleanNext(rest), TypeOK
  PROVE  /\ pc' \in {"cleanRead", "done"} /\ cur' \in Calls \cup {None} /\ todo' \in SUBSET Calls
         /\ pc' = "cleanRead" => cur' \in Calls
         /\ calls' \in [Calls -> Entries] /\ completed' \in BOOLEAN
         /\ exit' \in {"none", "interrupted", "compact", "stop", "continue"}
<1>1. CASE rest = {}
  <2>1. calls' \in [Calls -> Entries]
    BY <1>1 DEF CleanNext, Entries
  <2> QED BY <1>1, <2>1 DEF CleanNext, TypeOK
<1>2. CASE rest # {}
  <2>1. PICK c \in rest : cur' = c /\ todo' = rest \ {c}
    BY <1>2 DEF CleanNext
  <2> QED BY <1>2, <2>1 DEF CleanNext, TypeOK
<1> QED BY <1>1, <1>2

(* An attempt begins with no prose open; what the last one left is older.    *)
LEMMA BeginStep ==
  ASSUME ProcessorInv, Begin
  PROVE  ProcessorInv'
<1>1. TypeOK'
  BY ProcessorAssumption DEF Begin, ToStream, GoTo, ProcessorInv, TypeOK, env, obs, Entries,
                             Reading, Writing
<1>2. SettledInv'
  BY DEF Begin, ToStream, GoTo, ProcessorInv, SettledInv, env
<1>3. EntryInv'
  BY DEF Begin, ToStream, GoTo, ProcessorInv, EntryInv, env
<1>4. OpenInv'
  BY DEF Begin, ToStream, GoTo, ProcessorInv, OpenInv, obs
<1>5. ProseInv'
  BY DEF Begin, ToStream, GoTo, ProcessorInv, obs, TypeOK, ProseInv
<1>6. ExitInv'
  BY DEF Begin, ToStream, GoTo, ProcessorInv, ExitInv, Cleanup
<1> QED BY <1>1, <1>2, <1>3, <1>4, <1>5, <1>6 DEF ProcessorInv

(* The step ends, with the stream or without it.                             *)
LEMMA StepFinishStep ==
  ASSUME ProcessorInv, StepFinish
  PROVE  ProcessorInv'
<1>1. TypeOK'
  <2>1. lc' \in [Calls -> {"none", "input", "inputEnd", "called", "over"}]
    BY DEF StepFinish, EndStream, ProcessorInv, TypeOK, env
  <2>2. /\ pc' \in {"stream", "cleanWait"} /\ cur' \in Calls \cup {None}
        /\ ev' \in {"none", "input-start", "input-end", "call", "result"} /\ got' \in Entries
    BY DEF StepFinish, EndStream, GoTo, ProcessorInv, TypeOK, fiber, Entries
  <2>3. compact' \in BOOLEAN /\ UNCHANGED <<tool, held, todo>>
    BY DEF StepFinish, EndStream, GoTo, ProcessorInv, TypeOK, env, fiber
  <2> QED BY <2>1, <2>2, <2>3 DEF StepFinish, WithEnds, ProcessorInv, TypeOK, obs, Reading, Writing,
       Cleanup
<1>2. SettledInv'
  BY DEF StepFinish, EndStream, GoTo, ProcessorInv, SettledInv, fiber, env
<1>3. EntryInv'
  BY DEF StepFinish, EndStream, GoTo, ProcessorInv, EntryInv, fiber, env
<1>4. OpenInv'
  BY DEF StepFinish, EndStream, GoTo, ProcessorInv, OpenInv, fiber, obs
<1>5. ProseInv'
  BY DEF StepFinish, WithEnds, EndStream, GoTo, ProcessorInv, obs, TypeOK, ProseInv, fiber
<1>6. ExitInv'
  BY DEF StepFinish, EndStream, GoTo, ProcessorInv, ExitInv, fiber, obs, Cleanup
<1> QED BY <1>1, <1>2, <1>3, <1>4, <1>5, <1>6 DEF ProcessorInv

(* The stream ends.                                                          *)
LEMMA StreamEndsStep ==
  ASSUME ProcessorInv, StreamEnds
  PROVE  ProcessorInv'
<1>1. TypeOK'
  BY DEF StreamEnds, EndStream, GoTo, ProcessorInv, TypeOK, ctx, obs, Entries, Reading,
         Writing, Cleanup
<1>2. SettledInv'
  BY DEF StreamEnds, EndStream, GoTo, ProcessorInv, SettledInv
<1>3. EntryInv'
  BY DEF StreamEnds, EndStream, GoTo, ProcessorInv, EntryInv
<1>4. OpenInv'
  BY DEF StreamEnds, EndStream, GoTo, ProcessorInv, OpenInv, obs
<1>5. ProseInv'
  BY DEF StreamEnds, EndStream, GoTo, ProcessorInv, obs, ProseInv, ctx
<1>6. ExitInv'
  BY DEF StreamEnds, EndStream, GoTo, ProcessorInv, ExitInv, ctx, Cleanup
<1> QED BY <1>1, <1>2, <1>3, <1>4, <1>5, <1>6 DEF ProcessorInv

(* The stream or a handler fails, to be tried again or for good.             *)
LEMMA FailsStep ==
  ASSUME ProcessorInv, Fails
  PROVE  ProcessorInv'
<1>1. TypeOK'
  <2>1. lc' \in [Calls -> {"none", "input", "inputEnd", "called", "over"}]
    BY DEF Fails, EndStream
  <2>2. pc' \in {"backoff", "halt"} /\ cur' = None /\ ev' = "none" /\ got' = "none"
    BY DEF Fails, EndStream, GoTo
  <2>3. /\ error' \in {"none", "aborted", "failed"} /\ status' \in {"idle", "busy", "retry"}
        /\ compact' \in BOOLEAN /\ UNCHANGED <<prose, unended, blocked, completed>>
    BY DEF Fails, Halt, ProcessorInv, TypeOK
  <2>4. UNCHANGED <<attempt, calls, part, exit, obs, tool, held, todo>>
    BY DEF Fails, EndStream, GoTo
  <2> QED BY <2>1, <2>2, <2>3, <2>4 DEF ProcessorInv, TypeOK, obs, Reading, Writing, Cleanup, Entries
<1>2. SettledInv'
  BY DEF Fails, EndStream, GoTo, ProcessorInv, SettledInv
<1>3. EntryInv'
  BY DEF Fails, EndStream, GoTo, ProcessorInv, EntryInv
<1>4. OpenInv'
  BY DEF Fails, EndStream, GoTo, ProcessorInv, OpenInv, obs
<1>5. ProseInv'
  BY DEF Fails, EndStream, GoTo, Halt, ProcessorInv, obs, ProseInv
<1>6. ExitInv'
  BY DEF Fails, EndStream, GoTo, Halt, ProcessorInv, ExitInv, Cleanup
<1> QED BY <1>1, <1>2, <1>3, <1>4, <1>5, <1>6 DEF ProcessorInv

(* halt has published the error, and makes the session idle.                 *)
LEMMA HaltEndsStep ==
  ASSUME ProcessorInv, HaltEnds
  PROVE  ProcessorInv'
<1>1. TypeOK'
  BY DEF HaltEnds, Halted, GoTo, ProcessorInv, TypeOK, env, obs, Entries, Reading, Writing, Cleanup
<1>2. SettledInv'
  BY DEF HaltEnds, GoTo, ProcessorInv, SettledInv, env
<1>3. EntryInv'
  BY DEF HaltEnds, GoTo, ProcessorInv, EntryInv, env
<1>4. OpenInv'
  BY DEF HaltEnds, GoTo, ProcessorInv, OpenInv, obs
<1>5. ProseInv'
  BY DEF HaltEnds, GoTo, ProcessorInv, ProseInv, obs
<1>6. ExitInv'
  BY DEF HaltEnds, GoTo, ProcessorInv, ExitInv, Cleanup
<1> QED BY <1>1, <1>2, <1>3, <1>4, <1>5, <1>6 DEF ProcessorInv

(* Text or reasoning starts.                                                 *)
LEMMA ProseStartStep ==
  ASSUME ProcessorInv, NEW k \in {"text", "reasoning"}, ProseStart(k)
  PROVE  ProcessorInv'
<1>1. TypeOK'
  BY DEF ProseStart, ProcessorInv, TypeOK, ProseInv, fiber, env, obs
<1>2. SettledInv'
  BY DEF ProseStart, ProcessorInv, SettledInv, fiber, env
<1>3. EntryInv'
  BY DEF ProseStart, ProcessorInv, EntryInv, fiber, env
<1>4. OpenInv'
  BY DEF ProseStart, ProcessorInv, OpenInv, fiber, obs
<1>5. ProseInv'
  BY DEF ProseStart, ProcessorInv, obs, TypeOK, ProseInv, fiber
<1>6. ExitInv'
  BY DEF ProseStart, ProcessorInv, ExitInv, fiber, obs
<1> QED BY <1>1, <1>2, <1>3, <1>4, <1>5, <1>6 DEF ProcessorInv

(* Text or reasoning ends.                                                   *)
LEMMA ProseEndStep ==
  ASSUME ProcessorInv, NEW k \in {"text", "reasoning"}, ProseEnd(k)
  PROVE  ProcessorInv'
<1>1. TypeOK'
  BY DEF ProseEnd, WithEnds, ProcessorInv, TypeOK, fiber, env, obs
<1>2. SettledInv'
  BY DEF ProseEnd, ProcessorInv, SettledInv, fiber, env
<1>3. EntryInv'
  BY DEF ProseEnd, ProcessorInv, EntryInv, fiber, env
<1>4. OpenInv'
  BY DEF ProseEnd, ProcessorInv, OpenInv, fiber, obs
<1>5. ProseInv'
  BY DEF ProseEnd, WithEnds, ProcessorInv, obs, TypeOK, ProseInv, fiber
<1>6. ExitInv'
  BY DEF ProseEnd, ProcessorInv, ExitInv, fiber, obs
<1> QED BY <1>1, <1>2, <1>3, <1>4, <1>5, <1>6 DEF ProcessorInv

(* The handler of a tool event starts.                                       *)
LEMMA ToolEventStep ==
  ASSUME ProcessorInv, NEW c \in Calls,
         NEW e \in {"input-start", "input-end", "call", "result"}, ToolEvent(c, e)
  PROVE  ProcessorInv'
<1>1. TypeOK'
  BY DEF ToolEvent, After, GoTo, ProcessorInv, TypeOK, ctx, obs, Entries, Reading
<1>2. SettledInv'
  BY DEF ToolEvent, Emits, GoTo, ProcessorInv, SettledInv
<1>3. EntryInv'
  BY DEF ToolEvent, GoTo, ProcessorInv, EntryInv
<1>4. OpenInv'
  BY DEF ToolEvent, GoTo, ProcessorInv, OpenInv, obs
<1>5. ProseInv'
  BY DEF ToolEvent, GoTo, ProcessorInv, obs, ProseInv, ctx
<1>6. ExitInv'
  BY DEF ToolEvent, GoTo, ProcessorInv, ExitInv, ctx, Cleanup
<1> QED BY <1>1, <1>2, <1>3, <1>4, <1>5, <1>6 DEF ProcessorInv

(* ensureToolCall finds the entry, or goes on to make the part.              *)
LEMMA EnsureReadStep ==
  ASSUME ProcessorInv, EnsureRead
  PROVE  ProcessorInv'
<1>0. cur \in Calls /\ ev \in {"input-start", "input-end", "call"}
  BY DEF EnsureRead, ProcessorInv, TypeOK, EntryInv, Reading, Writing
<1>1. TypeOK'
  BY <1>0, EnsuredEffect DEF EnsureRead, GoTo, ToStream, ProcessorInv, TypeOK, ctx, env,
                             obs, Entries, Reading, Writing
<1>2. SettledInv'
  BY <1>0, EnsuredEffect DEF EnsureRead, GoTo, ToStream, ProcessorInv, SettledInv, env
<1>3. EntryInv'
  BY <1>0, EnsuredEffect DEF EnsureRead, GoTo, ToStream, ProcessorInv, TypeOK, EntryInv, env
<1>4. OpenInv'
  BY <1>0, EnsuredEffect DEF EnsureRead, GoTo, ToStream, ProcessorInv, TypeOK, OpenInv, obs
<1>5. ProseInv'
  BY <1>0, EnsuredEffect DEF EnsureRead, GoTo, ToStream, ProcessorInv, obs, ProseInv, ctx
<1>6. ExitInv'
  BY <1>0, EnsuredEffect DEF EnsureRead, GoTo, ToStream, ProcessorInv, ExitInv, ctx, Cleanup
<1> QED BY <1>1, <1>2, <1>3, <1>4, <1>5, <1>6 DEF ProcessorInv

(* ensureToolCall has made the part, and makes the entry.                    *)
LEMMA EnsureWriteStep ==
  ASSUME ProcessorInv, EnsureWrite
  PROVE  ProcessorInv'
<1>0. cur \in Calls /\ ev \in {"input-start", "input-end", "call"}
  BY DEF EnsureWrite, ProcessorInv, TypeOK, EntryInv, Reading, Writing
<1>1. TypeOK'
  BY <1>0, EnsuredEffect DEF EnsureWrite, GoTo, ToStream, ProcessorInv, TypeOK, ctx, env,
                             obs, Open, Entries, Reading, Writing
<1>2. SettledInv'
  BY <1>0, EnsuredEffect DEF EnsureWrite, GoTo, ToStream, ProcessorInv, SettledInv, env,
                             Outcomes
<1>3. EntryInv'
  BY <1>0, EnsuredEffect DEF EnsureWrite, GoTo, ToStream, ProcessorInv, TypeOK, EntryInv,
                             env
<1>4. OpenInv'
  BY <1>0, EnsuredEffect DEF EnsureWrite, GoTo, ToStream, ProcessorInv, TypeOK, OpenInv, obs
<1>5. ProseInv'
  BY <1>0, EnsuredEffect DEF EnsureWrite, GoTo, ToStream, ProcessorInv, obs, ProseInv, ctx
<1>6. ExitInv'
  BY <1>0, EnsuredEffect DEF EnsureWrite, GoTo, ToStream, ProcessorInv, ExitInv, ctx,
                             Cleanup
<1> QED BY <1>1, <1>2, <1>3, <1>4, <1>5, <1>6 DEF ProcessorInv

(* updateToolCall reads the entry.                                           *)
LEMMA CallReadStep ==
  ASSUME ProcessorInv, CallRead
  PROVE  ProcessorInv'
<1>1. TypeOK'
  BY DEF CallRead, GoTo, ToStream, ProcessorInv, TypeOK, ctx, env, obs, Reading, Writing
<1>2. SettledInv'
  BY DEF CallRead, GoTo, ToStream, ProcessorInv, SettledInv, env
<1>3. EntryInv'
  BY DEF CallRead, GoTo, ToStream, ProcessorInv, EntryInv, env
<1>4. OpenInv'
  BY DEF CallRead, GoTo, ToStream, ProcessorInv, OpenInv, obs
<1>5. ProseInv'
  BY DEF CallRead, GoTo, ToStream, ProcessorInv, obs, ProseInv, ctx
<1>6. ExitInv'
  BY DEF CallRead, GoTo, ToStream, ProcessorInv, ExitInv, ctx, Cleanup
<1> QED BY <1>1, <1>2, <1>3, <1>4, <1>5, <1>6 DEF ProcessorInv

(* updateToolCall makes the part running and puts the entry back.            *)
LEMMA CallWriteStep ==
  ASSUME ProcessorInv, CallWrite
  PROVE  ProcessorInv'
<1>1. TypeOK'
  BY DEF CallWrite, GoTo, ToStream, ProcessorInv, TypeOK, ctx, env, obs, Open, Entries,
         Reading, Writing
<1>2. SettledInv'
  BY DEF CallWrite, GoTo, ToStream, ProcessorInv, SettledInv, env, Outcomes
<1>3. EntryInv'
  BY DEF CallWrite, GoTo, ToStream, ProcessorInv, EntryInv, env
<1>4. OpenInv'
  BY DEF CallWrite, GoTo, ToStream, ProcessorInv, EntryInv, OpenInv, obs
<1>5. ProseInv'
  BY DEF CallWrite, GoTo, ToStream, ProcessorInv, obs, ProseInv, ctx
<1>6. ExitInv'
  BY DEF CallWrite, GoTo, ToStream, ProcessorInv, ExitInv, ctx, Cleanup
<1> QED BY <1>1, <1>2, <1>3, <1>4, <1>5, <1>6 DEF ProcessorInv

(* The user lets the doom loop go on.                                        *)
LEMMA DoomAllowedStep ==
  ASSUME ProcessorInv, DoomAllowed
  PROVE  ProcessorInv'
<1>1. TypeOK'
  BY DEF DoomAllowed, GoTo, ToStream, ProcessorInv, TypeOK, ctx, env, obs, Entries, Reading,
         Writing
<1>2. SettledInv'
  BY DEF DoomAllowed, GoTo, ToStream, ProcessorInv, SettledInv, env
<1>3. EntryInv'
  BY DEF DoomAllowed, GoTo, ToStream, ProcessorInv, EntryInv, env
<1>4. OpenInv'
  BY DEF DoomAllowed, GoTo, ToStream, ProcessorInv, OpenInv, obs
<1>5. ProseInv'
  BY DEF DoomAllowed, GoTo, ToStream, ProcessorInv, obs, ProseInv, ctx
<1>6. ExitInv'
  BY DEF DoomAllowed, GoTo, ToStream, ProcessorInv, ExitInv, ctx, Cleanup
<1> QED BY <1>1, <1>2, <1>3, <1>4, <1>5, <1>6 DEF ProcessorInv

(* finishToolCall reads the part.                                            *)
LEMMA FinishReadStep ==
  ASSUME ProcessorInv, FinishRead
  PROVE  ProcessorInv'
<1>1. TypeOK'
  BY DEF FinishRead, GoTo, ToStream, ProcessorInv, TypeOK, ctx, env, obs, Entries, Reading,
         Writing
<1>2. SettledInv'
  BY DEF FinishRead, GoTo, ToStream, ProcessorInv, SettledInv, env
<1>3. EntryInv'
  BY DEF FinishRead, GoTo, ToStream, ProcessorInv, TypeOK, EntryInv, env
<1>4. OpenInv'
  BY DEF FinishRead, GoTo, ToStream, ProcessorInv, TypeOK, OpenInv, obs
<1>5. ProseInv'
  BY DEF FinishRead, GoTo, ToStream, ProcessorInv, obs, ProseInv, ctx
<1>6. ExitInv'
  BY DEF FinishRead, GoTo, ToStream, ProcessorInv, ExitInv, ctx, Cleanup
<1> QED BY <1>1, <1>2, <1>3, <1>4, <1>5, <1>6 DEF ProcessorInv

(* finishToolCall records the outcome, and a rejection.                      *)
LEMMA FinishWriteStep ==
  ASSUME ProcessorInv, FinishWrite
  PROVE  ProcessorInv'
<1>1. TypeOK'
  BY ProcessorAssumption DEF FinishWrite, GoTo, ToStream, ProcessorInv, TypeOK, SettledInv,
                             env, obs, Entries, Final, Reading, Writing
<1>2. SettledInv'
  BY DEF FinishWrite, GoTo, ToStream, ProcessorInv, SettledInv, env
<1>3. EntryInv'
  BY DEF FinishWrite, GoTo, ToStream, ProcessorInv, TypeOK, EntryInv, env
<1>4. OpenInv'
  BY DEF FinishWrite, GoTo, ToStream, ProcessorInv, TypeOK, OpenInv, obs, Open, Outcomes
<1>5. ProseInv'
  BY DEF FinishWrite, GoTo, ToStream, ProcessorInv, obs, ProseInv
<1>6. ExitInv'
  BY DEF FinishWrite, GoTo, ToStream, ProcessorInv, ExitInv, Cleanup
<1> QED BY <1>1, <1>2, <1>3, <1>4, <1>5, <1>6 DEF ProcessorInv

(* A tool starts.                                                            *)
LEMMA ToolStartStep ==
  ASSUME ProcessorInv, NEW c \in Calls, ToolStart(c)
  PROVE  ProcessorInv'
<1>1. TypeOK'
  BY DEF ToolStart, ProcessorInv, TypeOK, fiber, ctx, obs
<1>2. SettledInv'
  BY DEF ToolStart, ProcessorInv, SettledInv, fiber, Outcomes
<1>3. EntryInv'
  BY DEF ToolStart, ProcessorInv, EntryInv, fiber
<1>4. OpenInv'
  BY DEF ToolStart, ProcessorInv, OpenInv, fiber, obs
<1>5. ProseInv'
  BY DEF ToolStart, ProcessorInv, obs, ProseInv, fiber, ctx
<1>6. ExitInv'
  BY DEF ToolStart, ProcessorInv, ExitInv, fiber, ctx, obs
<1> QED BY <1>1, <1>2, <1>3, <1>4, <1>5, <1>6 DEF ProcessorInv

(* A tool reads the part it is about to report to.                           *)
LEMMA ReportReadStep ==
  ASSUME ProcessorInv, NEW c \in Calls, ReportRead(c)
  PROVE  ProcessorInv'
<1>1. TypeOK'
  BY DEF ReportRead, ProcessorInv, TypeOK, fiber, ctx, obs
<1>2. SettledInv'
  BY DEF ReportRead, ProcessorInv, SettledInv, fiber, Outcomes
<1>3. EntryInv'
  BY DEF ReportRead, ProcessorInv, TypeOK, EntryInv, fiber
<1>4. OpenInv'
  BY DEF ReportRead, ProcessorInv, OpenInv, fiber, obs
<1>5. ProseInv'
  BY DEF ReportRead, ProcessorInv, obs, ProseInv, fiber, ctx
<1>6. ExitInv'
  BY DEF ReportRead, ProcessorInv, ExitInv, fiber, ctx, obs
<1> QED BY <1>1, <1>2, <1>3, <1>4, <1>5, <1>6 DEF ProcessorInv

(* The report lands, and opens the part again when it has ended meanwhile.   *)
LEMMA ReportWriteStep ==
  ASSUME ProcessorInv, NEW c \in Calls, ReportWrite(c)
  PROVE  ProcessorInv'
<1>1. TypeOK'
  BY DEF ReportWrite, ProcessorInv, TypeOK, fiber, ctx, Open, Entries, NoRead
<1>2. SettledInv'
  BY DEF ReportWrite, ProcessorInv, SettledInv, fiber, Outcomes, NoRead
<1>3. EntryInv'
  BY DEF ReportWrite, ProcessorInv, TypeOK, EntryInv, fiber
<1>4. OpenInv'
  BY DEF ReportWrite, ProcessorInv, TypeOK, EntryInv, OpenInv, fiber
<1>5. ProseInv'
  BY DEF ReportWrite, ProcessorInv, obs, ProseInv, fiber, ctx
<1>6. ExitInv'
  BY DEF ReportWrite, ProcessorInv, SettledInv, ExitInv, fiber, ctx, Outcomes
<1> QED BY <1>1, <1>2, <1>3, <1>4, <1>5, <1>6 DEF ProcessorInv

(* A tool ends; nothing in the database changes.                             *)
LEMMA ToolOverStep ==
  ASSUME ProcessorInv, NEW c \in Calls, NEW o \in Outcomes, ToolOver(c, o)
  PROVE  ProcessorInv'
<1>1. TypeOK'
  BY DEF ToolOver, ProcessorInv, TypeOK, fiber, ctx, obs
<1>2. SettledInv'
  BY DEF ToolOver, ProcessorInv, SettledInv, fiber, Outcomes
<1>3. EntryInv'
  BY DEF ToolOver, ProcessorInv, EntryInv, fiber, Outcomes
<1>4. OpenInv'
  BY DEF ToolOver, ProcessorInv, OpenInv, fiber, obs
<1>5. ProseInv'
  BY DEF ToolOver, ProcessorInv, obs, ProseInv, fiber, ctx
<1>6. ExitInv'
  BY DEF ToolOver, ProcessorInv, ExitInv, fiber, ctx, obs
<1> QED BY <1>1, <1>2, <1>3, <1>4, <1>5, <1>6 DEF ProcessorInv

(* The interruption: the write under way lands, and halt records the abort.  *)
LEMMA InterruptStep ==
  ASSUME ProcessorInv, Interrupt
  PROVE  ProcessorInv'
<1>1. TypeOK'
  BY DEF Interrupt, EndStream, GoTo, OnInterrupt, Halt, Landed, ProcessorInv, TypeOK, SettledInv, ctx,
         Open, Entries, Final, Reading, Writing, Cleanup
<1>2. SettledInv'
  BY DEF Interrupt, EndStream, GoTo, Landed, ProcessorInv, SettledInv, Outcomes
<1>3. EntryInv'
  BY DEF Interrupt, EndStream, GoTo, Landed, ProcessorInv, EntryInv, SettledInv, Outcomes
<1>4. OpenInv'
  BY DEF Interrupt, EndStream, GoTo, Landed, ProcessorInv, TypeOK, EntryInv, OpenInv, Open,
         Outcomes
<1>5. ProseInv'
  BY DEF Interrupt, EndStream, GoTo, OnInterrupt, Halt, Landed, ProcessorInv, obs, ProseInv, ctx, Reading,
         Writing
<1>6. ExitInv'
  BY DEF Interrupt, EndStream, GoTo, OnInterrupt, Halt, Landed, ProcessorInv, ExitInv, Reading, Writing,
         Cleanup
<1> QED BY <1>1, <1>2, <1>3, <1>4, <1>5, <1>6 DEF ProcessorInv

(* The interruption of the wait to try again.                                *)
LEMMA InterruptBackoffStep ==
  ASSUME ProcessorInv, InterruptBackoff
  PROVE  ProcessorInv'
<1>1. TypeOK'
  BY DEF InterruptBackoff, EndStream, GoTo, ProcessorInv, TypeOK, ctx, Entries, Reading,
         Writing, Cleanup
<1>2. SettledInv'
  BY DEF InterruptBackoff, EndStream, GoTo, ProcessorInv, SettledInv
<1>3. EntryInv'
  BY DEF InterruptBackoff, EndStream, GoTo, ProcessorInv, EntryInv
<1>4. OpenInv'
  BY DEF InterruptBackoff, EndStream, GoTo, ProcessorInv, OpenInv
<1>5. ProseInv'
  BY DEF InterruptBackoff, EndStream, GoTo, ProcessorInv, obs, ProseInv, ctx
<1>6. ExitInv'
  BY DEF InterruptBackoff, EndStream, GoTo, ProcessorInv, ExitInv, Cleanup
<1> QED BY <1>1, <1>2, <1>3, <1>4, <1>5, <1>6 DEF ProcessorInv

(* The interruption of halt, before or after it has set the status.          *)
LEMMA InterruptHaltStep ==
  ASSUME ProcessorInv, InterruptHalt
  PROVE  ProcessorInv'
<1>1. TypeOK'
  BY DEF InterruptHalt, Halted, EndStream, GoTo, ProcessorInv, TypeOK, Entries, Reading,
         Writing, Cleanup
<1>2. SettledInv'
  BY DEF InterruptHalt, EndStream, GoTo, ProcessorInv, SettledInv
<1>3. EntryInv'
  BY DEF InterruptHalt, EndStream, GoTo, ProcessorInv, EntryInv
<1>4. OpenInv'
  BY DEF InterruptHalt, EndStream, GoTo, ProcessorInv, OpenInv
<1>5. ProseInv'
  BY DEF InterruptHalt, EndStream, GoTo, ProcessorInv, obs, ProseInv
<1>6. ExitInv'
  BY DEF InterruptHalt, EndStream, GoTo, ProcessorInv, ExitInv, Cleanup
<1> QED BY <1>1, <1>2, <1>3, <1>4, <1>5, <1>6 DEF ProcessorInv

(* cleanup ends the prose and begins with the calls that ctx knows of.       *)
LEMMA CleanWaitStep ==
  ASSUME ProcessorInv, CleanWait
  PROVE  ProcessorInv'
<1>0. Known \in SUBSET Calls
  BY DEF ProcessorInv, TypeOK, Known
<1>1. TypeOK'
  <2>1. /\ pc' \in {"cleanRead", "cleanWrite", "done"} /\ cur' \in Calls \cup {None}
        /\ todo' \in SUBSET Calls
        /\ pc' \in {"cleanRead", "cleanWrite"} => cur' \in Calls
        /\ calls' \in [Calls -> Entries] /\ completed' \in BOOLEAN
        /\ exit' \in {"none", "interrupted", "compact", "stop", "continue"}
    BY <1>0, CleanNextTypes DEF CleanWait, ProcessorInv, TypeOK
  <2>2. part' \in [Calls -> {"none"} \cup Open \cup Final]
    BY DEF CleanWait, ProcessorInv, TypeOK, Final
  <2> QED BY <2>1, <2>2 DEF CleanWait, WithEnds, ProcessorInv, TypeOK, env, obs, Reading, Writing, Cleanup
<1>2. SettledInv'
  BY DEF CleanWait, CleanNext, Known, ProcessorInv, SettledInv, env
<1>3. EntryInv'
  BY DEF CleanWait, CleanNext, Known, ProcessorInv, EntryInv, env
<1>4. OpenInv'
  BY DEF CleanWait, CleanNext, Known, ProcessorInv, OpenInv, obs
<1>5. ProseInv'
  BY DEF CleanWait, WithEnds, CleanNext, Known, ProcessorInv, obs, TypeOK, ProseInv
<1>6. ExitInv'
  BY DEF CleanWait, CleanNext, Known, ProcessorInv, ExitInv, obs, Cleanup
<1> QED BY <1>1, <1>2, <1>3, <1>4, <1>5, <1>6 DEF ProcessorInv

(* cleanup reads a call, and leaves it when it is settled.                   *)
LEMMA CleanReadStep ==
  ASSUME ProcessorInv, CleanRead
  PROVE  ProcessorInv'
<1>0. todo \in SUBSET Calls
  BY DEF ProcessorInv, TypeOK, Known
<1>1. TypeOK'
  <2>1. /\ pc' \in {"cleanRead", "cleanWrite", "done"} /\ cur' \in Calls \cup {None}
        /\ todo' \in SUBSET Calls
        /\ pc' \in {"cleanRead", "cleanWrite"} => cur' \in Calls
        /\ calls' \in [Calls -> Entries] /\ completed' \in BOOLEAN
        /\ exit' \in {"none", "interrupted", "compact", "stop", "continue"}
    BY <1>0, CleanNextTypes DEF CleanRead, ProcessorInv, TypeOK
  <2>2. part' \in [Calls -> {"none"} \cup Open \cup Final]
    BY DEF CleanRead, ProcessorInv, TypeOK, Final
  <2> QED BY <2>1, <2>2 DEF CleanRead, ProcessorInv, TypeOK, env, obs, Reading, Writing, Cleanup
<1>2. SettledInv'
  BY DEF CleanRead, CleanNext, ProcessorInv, SettledInv, env
<1>3. EntryInv'
  BY DEF CleanRead, CleanNext, ProcessorInv, EntryInv, env
<1>4. OpenInv'
  BY DEF CleanRead, CleanNext, ProcessorInv, OpenInv, obs
<1>5. ProseInv'
  BY DEF CleanRead, CleanNext, ProcessorInv, obs, ProseInv
<1>6. ExitInv'
  BY DEF CleanRead, CleanNext, ProcessorInv, ExitInv, obs, Cleanup
<1> QED BY <1>1, <1>2, <1>3, <1>4, <1>5, <1>6 DEF ProcessorInv

(* cleanup aborts a call.                                                    *)
LEMMA CleanWriteStep ==
  ASSUME ProcessorInv, CleanWrite
  PROVE  ProcessorInv'
<1>0. todo \in SUBSET Calls
  BY DEF ProcessorInv, TypeOK, Known
<1>1. TypeOK'
  <2>1. /\ pc' \in {"cleanRead", "cleanWrite", "done"} /\ cur' \in Calls \cup {None}
        /\ todo' \in SUBSET Calls
        /\ pc' \in {"cleanRead", "cleanWrite"} => cur' \in Calls
        /\ calls' \in [Calls -> Entries] /\ completed' \in BOOLEAN
        /\ exit' \in {"none", "interrupted", "compact", "stop", "continue"}
    BY <1>0, CleanNextTypes DEF CleanWrite, ProcessorInv, TypeOK
  <2>2. part' \in [Calls -> {"none"} \cup Open \cup Final]
    BY DEF CleanWrite, ProcessorInv, TypeOK, Final
  <2> QED BY <2>1, <2>2 DEF CleanWrite, ProcessorInv, TypeOK, env, obs, Reading, Writing, Cleanup
<1>2. SettledInv'
  BY DEF CleanWrite, CleanNext, ProcessorInv, SettledInv, env, Outcomes
<1>3. EntryInv'
  BY DEF CleanWrite, CleanNext, ProcessorInv, EntryInv, env
<1>4. OpenInv'
  BY DEF CleanWrite, CleanNext, ProcessorInv, TypeOK, OpenInv, obs, Open
<1>5. ProseInv'
  BY DEF CleanWrite, CleanNext, ProcessorInv, obs, ProseInv
<1>6. ExitInv'
  BY DEF CleanWrite, CleanNext, ProcessorInv, ExitInv, obs, Cleanup
<1> QED BY <1>1, <1>2, <1>3, <1>4, <1>5, <1>6 DEF ProcessorInv


(***************************************************************************)
(* ProcessorInv holds whatever the stream, the tools and the user do.      *)
(***************************************************************************)
LEMMA ProcessorInit == Init => ProcessorInv
<1> SUFFICES ASSUME Init PROVE ProcessorInv
  OBVIOUS
<1>1. TypeOK
  <2>1. attempt \in 0 .. MaxAttempts
    BY ProcessorAssumption DEF Init
  <2>2. held \in [Calls -> [part : {"none"} \cup Open \cup Final, entry : Entries]]
    BY DEF Init, NoRead, Entries
  <2>3. calls \in [Calls -> Entries]
    BY DEF Init, Entries
  <2> QED BY <2>1, <2>2, <2>3 DEF Init, TypeOK, Entries, Reading, Writing
<1>2. SettledInv
  BY DEF Init, SettledInv, Outcomes, NoRead
<1>3. EntryInv /\ OpenInv
  BY DEF Init, EntryInv, OpenInv, Open
<1>4. ProseInv /\ ExitInv
  BY DEF Init, ProseInv, ExitInv
<1> QED BY <1>1, <1>2, <1>3, <1>4 DEF ProcessorInv

LEMMA ProcessorNext ==
  ASSUME ProcessorInv, [Next]_vars
  PROVE  ProcessorInv'
<1>1. CASE Fiber
  BY <1>1, BeginStep, StepFinishStep, StreamEndsStep, FailsStep, HaltEndsStep, ProseStartStep, ProseEndStep,
     ToolEventStep, EnsureReadStep, EnsureWriteStep, CallReadStep, CallWriteStep,
     DoomAllowedStep, FinishReadStep, FinishWriteStep
  DEF Fiber
<1>2. CASE Clean
  BY <1>2, CleanWaitStep, CleanReadStep, CleanWriteStep DEF Clean
<1>3. ASSUME NEW c \in Calls, ToolStart(c) \/ ReportRead(c) \/ ReportWrite(c)
      PROVE  ProcessorInv'
  BY <1>3, ToolStartStep, ReportReadStep, ReportWriteStep
<1>4. ASSUME NEW c \in Calls, NEW o \in Outcomes, ToolOver(c, o) PROVE ProcessorInv'
  BY <1>4, ToolOverStep
<1>5. CASE Interrupt \/ InterruptBackoff \/ InterruptHalt
  BY <1>5, InterruptStep, InterruptBackoffStep, InterruptHaltStep
<1>6. CASE UNCHANGED vars
  <2>1. UNCHANGED <<pc, cur, ev, got, todo, attempt, calls, part>>
    BY <1>6 DEF vars, fiber
  <2>2. UNCHANGED <<lc, tool, held, prose, unended, compact, blocked>>
    BY <1>6 DEF vars, env, ctx
  <2>3. UNCHANGED <<error, completed, status, exit, reopened, split, cut>>
    BY <1>6 DEF vars, ctx, obs
  <2>4. TypeOK'
    BY <2>1, <2>2, <2>3 DEF ProcessorInv, TypeOK
  <2>5. SettledInv' /\ EntryInv'
    BY <2>1, <2>2 DEF ProcessorInv, SettledInv, EntryInv
  <2>6. OpenInv' /\ ProseInv' /\ ExitInv'
    BY <2>1, <2>2, <2>3 DEF ProcessorInv, OpenInv, ProseInv, ExitInv
  <2> QED BY <2>4, <2>5, <2>6 DEF ProcessorInv
<1> QED BY <1>1, <1>2, <1>3, <1>4, <1>5, <1>6 DEF Next

(* What is recorded of one call c: each step either leaves the part alone or *)
(* is about another call.                                                    *)
LEMMA RecordedStep ==
  ASSUME ProcessorInv, RecordedInv, [Next]_vars, NEW c \in Calls
  PROVE  /\ pc' \in {"finishRead", "finishWrite"} => lc'[cur'] = "over"
         /\ part[c] \in Outcomes /\ c \notin split => part'[c] = part[c]
         /\ part'[c] \in Outcomes /\ c \notin split' =>
               /\ calls'[c] = "none" /\ lc'[c] = "over"
               /\ pc' \in Reading \cup Writing \cup {"cleanWrite"} => cur' # c
<1> DEFINE Kept == /\ pc' \in {"finishRead", "finishWrite"} => lc'[cur'] = "over"
                   /\ part[c] \in Outcomes /\ c \notin split => part'[c] = part[c]
                   /\ part'[c] \in Outcomes /\ c \notin split' =>
                        /\ calls'[c] = "none" /\ lc'[c] = "over"
                        /\ pc' \in Reading \cup Writing \cup {"cleanWrite"} => cur' # c
<1>a. TypeOK /\ SettledInv /\ EntryInv
  BY DEF ProcessorInv
<1>1. ASSUME UNCHANGED <<part, calls, split>>, pc' \notin Reading \cup Writing \cup {"cleanWrite"},
             \A k \in Calls : lc[k] = "over" => lc'[k] = "over"
      PROVE  Kept
  BY <1>1 DEF RecordedInv, Reading, Writing
<1>2. CASE Begin
  BY <1>1, <1>2 DEF Begin, obs, ToStream, GoTo, env, Reading, Writing
<1>3. CASE StepFinish
  <2>1. CASE UNCHANGED <<fiber, env, compact>>
    BY <1>1, <1>3, <2>1 DEF StepFinish, obs, fiber, env, Reading, Writing
  <2>2. CASE EndStream("cleanWait")
    BY <1>1, <1>3, <2>2 DEF StepFinish, obs, EndStream, GoTo, Reading, Writing
  <2> QED BY <1>3, <2>1, <2>2 DEF StepFinish
<1>4. CASE StreamEnds
  BY <1>1, <1>4 DEF StreamEnds, obs, EndStream, GoTo, Reading, Writing
<1>5. CASE Fails
  <2>1. CASE EndStream("halt")
    BY <1>1, <1>5, <2>1 DEF Fails, obs, EndStream, GoTo, Reading, Writing
  <2>2. CASE pc' = "backoff"
    BY <1>1, <1>5, <2>2 DEF Fails, obs, EndStream, GoTo, Reading, Writing
  <2> QED BY <1>5, <2>1, <2>2 DEF Fails, obs, GoTo
<1>5a. CASE HaltEnds
  BY <1>1, <1>5a DEF HaltEnds, GoTo, env, obs, Reading, Writing
<1>6. ASSUME NEW k, ProseStart(k) \/ ProseEnd(k)
      PROVE  Kept
  BY <1>1, <1>6 DEF ProseStart, ProseEnd, obs, fiber, env, Reading, Writing
<1>7. ASSUME NEW k \in Calls, NEW e \in {"input-start", "input-end", "call", "result"}, ToolEvent(k, e)
      PROVE  Kept
  <2>1. lc[k] # "over" /\ lc'[k] = After(e) /\ cur' = k
    BY <1>7, <1>a DEF ToolEvent, obs, Emits, GoTo, TypeOK
  <2>2. \A j \in Calls : j # k => lc'[j] = lc[j]
    BY <1>7, <1>a DEF ToolEvent, obs, TypeOK
  <2>3. pc' = IF e = "result" THEN "finishRead" ELSE "ensureRead"
    BY <1>7 DEF ToolEvent, obs, GoTo
  <2>4. UNCHANGED <<part, calls, split>>
    BY <1>7 DEF ToolEvent, obs
  <2> QED BY <1>7, <2>1, <2>2, <2>3, <2>4 DEF RecordedInv, After
<1>8. CASE EnsureRead
  <2>1. cur \in Calls /\ ev \in {"input-start", "input-end", "call"} /\ UNCHANGED <<part, lc, split>>
    BY <1>8, <1>a DEF EnsureRead, obs, TypeOK, EntryInv, Reading, env
  <2>2. c = cur => part[c] \notin Outcomes \/ c \in split
    BY <1>8 DEF EnsureRead, obs, RecordedInv, Reading
  <2>3. c # cur => calls'[c] = calls[c]
    BY <1>8, <1>a, <2>1, EnsuredEffect DEF EnsureRead, obs, TypeOK
  <2>4. pc' \in {"stream", "callRead", "ensureWrite"} /\ (pc' # "stream" => cur' = cur)
    BY <1>8, <2>1, EnsuredEffect DEF EnsureRead, obs, ToStream, GoTo
  <2> QED BY <2>1, <2>2, <2>3, <2>4 DEF RecordedInv, Reading, Writing
<1>9. CASE EnsureWrite
  <2>1. cur \in Calls /\ ev \in {"input-start", "input-end", "call"} /\ UNCHANGED <<lc, split>>
    BY <1>9, <1>a DEF EnsureWrite, obs, TypeOK, EntryInv, Writing, env
  <2>2. c = cur => part[c] \notin Outcomes \/ c \in split
    BY <1>9 DEF EnsureWrite, obs, RecordedInv, Writing
  <2>3. /\ c # cur => calls'[c] = calls[c] /\ part'[c] = part[c]
        /\ part'[cur] \notin Outcomes
    BY <1>9, <1>a, <2>1, EnsuredEffect DEF EnsureWrite, obs, TypeOK, Outcomes
  <2>4. pc' \in {"stream", "callRead"} /\ (pc' # "stream" => cur' = cur)
    BY <1>9, <2>1, EnsuredEffect DEF EnsureWrite, obs, ToStream, GoTo
  <2> QED BY <2>1, <2>2, <2>3, <2>4 DEF RecordedInv, Reading, Writing
<1>10. CASE CallRead
  <2>1. UNCHANGED <<part, calls, lc, split>>
    BY <1>10 DEF CallRead, obs, env
  <2>2. pc' \in {"stream", "callWrite"} /\ (pc' # "stream" => cur' = cur)
    BY <1>10 DEF CallRead, obs, ToStream, GoTo
  <2> QED BY <1>10, <2>1, <2>2 DEF CallRead, obs, RecordedInv, Reading, Writing
<1>11. CASE CallWrite
  <2>1. cur \in Calls /\ UNCHANGED <<lc, split>> /\ pc' \in {"stream", "doom"}
    BY <1>11, <1>a DEF CallWrite, obs, TypeOK, Writing, env, ToStream, GoTo
  <2>2. c = cur => part[c] \notin Outcomes \/ c \in split
    BY <1>11 DEF CallWrite, obs, RecordedInv, Writing
  <2>3. /\ c # cur => calls'[c] = calls[c] /\ part'[c] = part[c]
        /\ part'[cur] \notin Outcomes
    BY <1>11, <1>a, <2>1 DEF CallWrite, obs, TypeOK, Outcomes
  <2> QED BY <2>1, <2>2, <2>3 DEF RecordedInv, Reading, Writing
<1>12. CASE DoomAllowed
  BY <1>1, <1>12 DEF DoomAllowed, obs, ToStream, GoTo, env, Reading, Writing
<1>13. CASE FinishRead
  <2>1. cur \in Calls /\ lc[cur] = "over" /\ UNCHANGED <<part, lc, split>>
    BY <1>13, <1>a DEF FinishRead, obs, TypeOK, Reading, env, RecordedInv
  <2>2. c = cur => part[c] \notin Outcomes \/ c \in split
    BY <1>13 DEF FinishRead, obs, RecordedInv, Reading
  <2>3. c # cur => calls'[c] = calls[c]
    BY <1>13, <1>a DEF FinishRead, obs, TypeOK
  <2>4. pc' \in {"stream", "finishWrite"} /\ (pc' # "stream" => cur' = cur)
    BY <1>13 DEF FinishRead, obs, ToStream, GoTo
  <2> QED BY <2>1, <2>2, <2>3, <2>4 DEF RecordedInv, Reading, Writing
<1>14. CASE FinishWrite
  <2>1. cur \in Calls /\ lc[cur] = "over" /\ UNCHANGED <<lc, split>> /\ pc' = "stream"
    BY <1>14, <1>a DEF FinishWrite, obs, TypeOK, Writing, env, RecordedInv, ToStream, GoTo
  <2>2. c = cur => part[c] \notin Outcomes \/ c \in split
    BY <1>14 DEF FinishWrite, obs, RecordedInv, Writing
  <2>3. /\ c # cur => calls'[c] = calls[c] /\ part'[c] = part[c]
        /\ calls'[cur] = "none"
    BY <1>14, <1>a, <2>1 DEF FinishWrite, obs, TypeOK
  <2> QED BY <2>1, <2>2, <2>3 DEF RecordedInv, Reading, Writing
<1>15. ASSUME NEW k \in Calls, ToolStart(k) \/ ReportRead(k) \/ \E o \in Outcomes : ToolOver(k, o)
       PROVE  Kept
  <2>1. UNCHANGED <<pc, cur, part, calls, lc, split>>
    BY <1>15 DEF ToolStart, ReportRead, ToolOver, obs, fiber
  <2> QED BY <2>1 DEF RecordedInv
<1>16. ASSUME NEW k \in Calls, ReportWrite(k)
       PROVE  Kept
  <2>1. UNCHANGED <<pc, cur, lc, split>>
    BY <1>16 DEF ReportWrite, fiber
  <2>2. part[k] \notin Outcomes /\ part'[k] \notin Outcomes
    BY <1>16, <1>a DEF ReportWrite, SettledInv, TypeOK, Outcomes
  <2>3. c # k => part'[c] = part[c] /\ calls'[c] = calls[c]
    BY <1>16, <1>a DEF ReportWrite, TypeOK
  <2> QED BY <2>1, <2>2, <2>3 DEF RecordedInv
<1>17. CASE Interrupt
  <2>1. /\ pc' = "cleanWait" /\ part' = Landed /\ UNCHANGED calls
        /\ lc' = [k \in Calls |-> "over"]
        /\ split' = IF pc \in {"ensureWrite", "finishWrite"} THEN split \cup {cur} ELSE split
    BY <1>17 DEF Interrupt, EndStream, GoTo
  <2>2. pc \in Writing => cur \in Calls /\ (cur = c => part[c] \notin Outcomes \/ c \in split)
    BY <1>a DEF TypeOK, RecordedInv
  <2>3. part'[c] = part[c] \/ (pc \in Writing /\ cur = c)
    BY <1>a, <2>1 DEF Landed, TypeOK, Writing
  <2>4. part'[c] \in Outcomes /\ c \notin split' => part'[c] = part[c] /\ c \notin split
    BY <1>a, <2>1, <2>2, <2>3 DEF Landed, TypeOK, Writing, Outcomes
  <2> QED BY <2>1, <2>2, <2>3, <2>4 DEF RecordedInv, Reading, Writing
<1>18. CASE InterruptBackoff \/ InterruptHalt
  <2>1. /\ pc' = "cleanWait" /\ UNCHANGED <<part, calls, split>>
        /\ lc' = [k \in Calls |-> "over"]
    BY <1>18 DEF InterruptBackoff, InterruptHalt, EndStream, GoTo
  <2> QED BY <1>1, <2>1 DEF Reading, Writing
<1>19. ASSUME NEW rest \in SUBSET Calls, CleanNext(rest), pc \in Cleanup, UNCHANGED <<lc, split>>,
              part' = part \/ (pc = "cleanWrite" /\ part' = [part EXCEPT ![cur] = "aborted"])
       PROVE  Kept
  <2>1. pc' \in {"cleanRead", "done"}
    BY <1>19 DEF CleanNext
  <2>2. calls'[c] = calls[c] \/ calls'[c] = "none"
    BY <1>19, <1>a DEF CleanNext, TypeOK
  <2>3. split' = split
    BY <1>19
  <2>4. c = cur /\ pc = "cleanWrite" => part[c] \notin Outcomes \/ c \in split
    BY DEF RecordedInv
  <2>5. part'[c] = part[c] \/ (pc = "cleanWrite" /\ c = cur /\ part'[c] \notin Outcomes)
    BY <1>19, <1>a DEF TypeOK, Outcomes
  <2> QED BY <1>19, <2>1, <2>2, <2>3, <2>4, <2>5 DEF RecordedInv, Reading, Writing
<1>20. CASE CleanWait
  BY <1>20, <1>19 DEF CleanWait, obs, Known, Cleanup, env
<1>21. CASE CleanRead
  <2>1. CASE calls[cur] # "none"
    <3>1. pc' = "cleanWrite" /\ UNCHANGED <<cur, part, calls, lc, split>>
      BY <1>21, <2>1 DEF CleanRead, obs, env
    <3> QED BY <2>1, <3>1 DEF RecordedInv
  <2>2. CASE calls[cur] = "none"
    BY <1>21, <1>19, <1>a, <2>2 DEF CleanRead, obs, Cleanup, env, TypeOK
  <2> QED BY <2>1, <2>2
<1>22. CASE CleanWrite
  BY <1>22, <1>19, <1>a DEF CleanWrite, obs, Cleanup, env, TypeOK
<1>23. CASE UNCHANGED vars
  BY <1>23 DEF vars, fiber, env, obs, RecordedInv
<1> QED
  BY <1>2, <1>3, <1>4, <1>5, <1>5a, <1>6, <1>7, <1>8, <1>9, <1>10, <1>11, <1>12, <1>13, <1>14, <1>15,
     <1>16, <1>17, <1>18, <1>20, <1>21, <1>22, <1>23 DEF Next, Fiber, Clean

(* The invariant holds in every reachable state of a call of process.        *)
THEOREM ProcessorInvariant == Spec => []ProcessorInv
<1>1. Init => ProcessorInv
  BY ProcessorInit
<1>2. ProcessorInv /\ [Next]_vars => ProcessorInv'
  BY ProcessorNext
<1> QED BY <1>1, <1>2, PTL DEF Spec

(* The parts, the entries and the fibers keep their types, and a fiber that  *)
(* reads or writes a part has a call.                                        *)
THEOREM ProcessorTypeOK == Spec => []TypeOK
<1>1. ProcessorInv => TypeOK
  BY DEF ProcessorInv
<1> QED BY <1>1, ProcessorInvariant, PTL

(* process leaves no text or reasoning of its last attempt without an end    *)
(* but a text that was replaced, and no tool part open but in the two cases  *)
(* EndedClean names.                                                         *)
THEOREM EndedIsClean == Spec => []EndedClean
<1>1. ProcessorInv => EndedClean
  <2> SUFFICES ASSUME ProcessorInv, pc = "done"
               PROVE  /\ \A u \in unended :
                            u[2] < attempt \/ u[1] = "replaced"
                      /\ \A c \in Calls : part[c] \in Open => c \in reopened \cup split
    BY DEF EndedClean
  <2>1. ASSUME NEW u \in unended
        PROVE  u[2] < attempt \/ u[1] = "replaced"
    <3>1. u[2] \in Nat /\ attempt \in Nat
      BY ProcessorAssumption DEF ProcessorInv, TypeOK
    <3>2. u[2] <= attempt /\ (u[2] = attempt => u[1] = "replaced")
      BY DEF ProcessorInv, ProseInv
    <3> QED BY <3>1, <3>2
  <2>2. \A c \in Calls : part[c] \in Open => c \in reopened \cup split
    BY DEF ProcessorInv, OpenInv
  <2> QED BY <2>1, <2>2
<1> QED BY <1>1, ProcessorInvariant, PTL

(* An interruption of the stream or of a handler leaves an error on the      *)
(* message and the session idle; one of halt leaves the error it had or the  *)
(* demand for a compaction; only one of the wait between two attempts leaves *)
(* no mark.                                                                  *)
THEOREM InterruptIsMarked == Spec => []InterruptMarked
<1>1. ProcessorInv => InterruptMarked
  BY DEF ProcessorInv, ExitInv, InterruptMarked
<1> QED BY <1>1, ProcessorInvariant, PTL

(* The outcome that finishToolCall has recorded in a part is never written   *)
(* over, by whatever event, tool report, retry, interruption or cleanup      *)
(* comes after it, unless the interruption came between that record and the  *)
(* deletion of the call's entry.                                             *)
THEOREM OutcomeIsFinal == Spec => OutcomeStays
<1> DEFINE Inv == ProcessorInv /\ RecordedInv
           Stays == \A c \in Calls : part[c] \in Outcomes => part'[c] = part[c] \/ c \in split
<1>1. Init => Inv
  <2>1. Init => RecordedInv
    BY DEF Init, RecordedInv, Outcomes
  <2> QED BY <2>1, ProcessorInit
<1>2. Inv /\ [Next]_vars => Inv'
  <2> SUFFICES ASSUME ProcessorInv, RecordedInv, [Next]_vars PROVE ProcessorInv' /\ RecordedInv'
    OBVIOUS
  <2>1. pc' \in {"finishRead", "finishWrite"} => lc'[cur'] = "over"
    <3>1. CASE Calls = {}
      <4>1. ProcessorInv'
        BY ProcessorNext
      <4> QED BY <3>1, <4>1 DEF ProcessorInv, TypeOK, Reading, Writing
    <3>2. CASE Calls # {}
      BY <3>2, RecordedStep
    <3> QED BY <3>1, <3>2
  <2>2. RecordedInv'
    BY <2>1, RecordedStep DEF RecordedInv
  <2> QED BY <2>2, ProcessorNext
<1>3. Inv /\ [Next]_vars => [Stays]_vars
  <2> SUFFICES ASSUME ProcessorInv, RecordedInv, [Next]_vars PROVE Stays
    OBVIOUS
  <2> QED BY RecordedStep
<1> HIDE DEF Inv
<1> QED BY <1>1, <1>2, <1>3, PTL DEF Spec, OutcomeStays
=============================================================================
