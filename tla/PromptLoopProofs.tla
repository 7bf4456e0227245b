-------------------------- MODULE PromptLoopProofs --------------------------
(***************************************************************************)
(* Proofs about PromptLoop, for any number of clients, runs and messages:  *)
(* in how many ways a prompt may be lost, where an assistant message may   *)
(* be left open, and who writes to one that is complete.                   *)
(*                                                                         *)
(* Every step of a run is first reduced to what it does to the messages,   *)
(* to the place where the run stands and to the observations: it moves,    *)
(* writes its own assistant message, stores one, asks with a user message, *)
(* adds the parts of that, or reads.  The invariants are proved from these *)
(* effects.                                                                *)
(***************************************************************************)
EXTENDS PromptLoop, WellFoundedInduction, TLAPS

(* The newest of a set of ids is one of them, and no other is newer.         *)
LEMMA NewestIs ==
  ASSUME NEW S \in SUBSET Ids
  PROVE  /\ Newest(S) \in Ids0 /\ (S = {} => Newest(S) = 0)
         /\ S # {} => Newest(S) = Max(S) /\ Max(S) \in S
         /\ \A i \in S : i <= Newest(S)
<1>1. CASE S = {}
  BY <1>1, PromptAssumption DEF Newest, Ids0
<1>2. CASE S # {}
  <2> DEFINE T == {n \in Nat : \E i \in S : n = MaxMsg - i}
  <2>1. \A i \in S : i \in Nat /\ MaxMsg - i \in Nat
    BY PromptAssumption DEF Ids
  <2>2. T # {} /\ T \subseteq Nat
    BY <1>2, <2>1
  <2>3. PICK n \in T : \A k \in T : ~(<<k, n>> \in OpToRel(<, Nat))
    <3> HIDE DEF T
    <3> QED BY <2>2, NatLessThanWellFounded, WFMin
  <2>4. PICK j \in S : n = MaxMsg - j
    OBVIOUS
  <2>5. ASSUME NEW i \in S PROVE j >= i
    <3>1. MaxMsg - i \in T
      BY <2>1
    <3>2. ~(MaxMsg - i < n)
      BY <2>3, <3>1 DEF OpToRel
    <3> QED BY <2>1, <2>4, <3>2, PromptAssumption DEF Ids
  <2>6. Max(S) \in S /\ \A i \in S : Max(S) >= i
    BY <2>5 DEF Max
  <2>7. Newest(S) = Max(S)
    BY <1>2 DEF Newest
  <2>8. PICK g : g = Max(S)
    OBVIOUS
  <2>9. g \in S /\ g \in 1 .. MaxMsg /\ \A i \in S : i <= g
    BY <2>1, <2>6, <2>8 DEF Ids
  <2> QED BY <1>2, <2>7, <2>8, <2>9, PromptAssumption DEF Ids0
<1> QED BY <1>1, <1>2

LEMMA IdsAre ==
  /\ Ids \subseteq Ids0 /\ 0 \notin Ids /\ \A i \in Ids : i >= 1
  /\ \A i \in Ids0 : i \in Nat /\ (i # 0 => i \in Ids)
BY PromptAssumption DEF Ids, Ids0

-----------------------------------------------------------------------------
(* The messages the model makes *)

MsgKinds == {"text", "subtask", "compaction"}
Finishes == {"none", "stop", "tool-calls", "error"}

LEMMA UserIs ==
  ASSUME NEW k \in MsgKinds, NEW a \in BOOLEAN
  PROVE  User(k, a) \in Msgs /\ User(k, a).role = "user" /\ User(k, a).kind = k
BY DEF User, NoMsg, Msgs, MsgKinds

LEMMA AssistantIs ==
  ASSUME NEW s \in BOOLEAN
  PROVE  /\ Assistant(s) \in Msgs /\ Assistant(s).role = "assistant"
         /\ Assistant(s).finish = "none" /\ ~Assistant(s).closed
BY DEF Assistant, NoMsg, Msgs

(* What a step of a run makes of its own message: m becomes n.               *)
Amends(m, n) == n \in Msgs /\ n.role = m.role /\ n.kind = m.kind /\ n.parts = m.parts

LEMMA AmendsIs ==
  ASSUME NEW m \in Msgs, NEW f \in Finishes, NEW t \in BOOLEAN
  PROVE  /\ Amends(m, [m EXCEPT !.finish = f, !.tool = t, !.closed = TRUE])
         /\ Amends(m, [m EXCEPT !.finish = f, !.tool = t])
         /\ Amends(m, [m EXCEPT !.finish = f])
         /\ Amends(m, [m EXCEPT !.closed = TRUE])
         /\ Amends(m, m)
         /\ [m EXCEPT !.finish = f, !.tool = t, !.closed = TRUE].finish = f
         /\ [m EXCEPT !.finish = f, !.tool = t, !.closed = TRUE].closed = TRUE
         /\ [m EXCEPT !.finish = f, !.tool = t].finish = f
         /\ [m EXCEPT !.finish = f, !.tool = t].closed = m.closed
         /\ [m EXCEPT !.finish = f].finish = f
         /\ [m EXCEPT !.finish = f].closed = m.closed
         /\ [m EXCEPT !.closed = TRUE].finish = m.finish
         /\ [m EXCEPT !.closed = TRUE].closed = TRUE
BY DEF Amends, Msgs, Finishes

LEMMA ClosedIs ==
  ASSUME NEW r, msg[mine[r]] \in Msgs, NEW f \in Finishes, NEW t \in BOOLEAN
  PROVE  Amends(msg[mine[r]], Closed(r, f, t)) /\ Closed(r, f, t).finish = f /\ Closed(r, f, t).closed
<1>1. PICK m \in Msgs : m = msg[mine[r]]
  OBVIOUS
<1>2. PICK n : n = [m EXCEPT !.finish = f, !.tool = t, !.closed = TRUE]
  OBVIOUS
<1>3. n = Closed(r, f, t)
  BY <1>1, <1>2 DEF Closed
<1>4. Amends(m, n) /\ n.finish = f /\ n.closed
  BY <1>2 DEF Amends, Msgs, Finishes
<1> QED BY <1>1, <1>3, <1>4

LEMMA CleanedIs ==
  ASSUME NEW r, msg[mine[r]] \in Msgs, NEW n \in Cleaned(r)
  PROVE  Amends(msg[mine[r]], n) /\ n.finish = msg[mine[r]].finish /\ n.closed
<1>1. msg[mine[r]].finish \in Finishes /\ msg[mine[r]].tool \in BOOLEAN
  BY DEF Msgs, Finishes
<1>2. PICK t \in BOOLEAN : n = Closed(r, msg[mine[r]].finish, t)
  BY <1>1 DEF Cleaned
<1> QED BY <1>1, <1>2, ClosedIs

-----------------------------------------------------------------------------
(* The effects of the steps of a run *)

Begun == {"compactProcess", "compactSettle", "process", "turnSettle"}
Busy  == Working \cup Settling

(* What all but reading and answering leave alone.                           *)
RunFrame(r) ==
  /\ UNCHANGED <<runs, intr, view, task, mine, client, executed, missed, late>>
  /\ seen \subseteq seen' /\ kept \subseteq kept' /\ seen' \subseteq Ids /\ kept' \subseteq Ids
  /\ cut' \in [Runs -> Lpcs] /\ \A q \in Runs \ {r} : cut'[q] = cut[q]

MoveEff(r, p) ==
  /\ r \notin intr /\ lpc[r] \notin Over
  /\ lpc' = [lpc EXCEPT ![r] = p] /\ UNCHANGED <<msg, ids, ask>> /\ RunFrame(r)
  /\ cur' = IF p \in Over /\ cur = r THEN 0 ELSE cur
  /\ p \notin {"none", "exitDone", "asked", "cancelled"} \cup Choosing \cup Settling
  /\ p \in Working => lpc[r] \in Working
  /\ p \in Begun => view[r] \subseteq seen' \cup kept'
  /\ p = "done" => lpc[r] = "exitDone"
  /\ lpc[r] \in Working => p \in Working \/ (p = "failed" /\ cut'[r] \in Unfinalized("failed"))

Moves(r) ==
  \/ SubtaskBegin(r) \/ SubtaskResult(r) \/ Advance(r, "subtaskSettle", "top")
  \/ CompactBegin(r) \/ Advance(r, "compactSettle", "exitStopped")
  \/ Advance(r, "compactSettle", "top")
  \/ TurnCreate(r) \/ TurnBegin(r) \/ Advance(r, "turnSettle", "exitStopped")
  \/ Advance(r, "turnSettle", "top") \/ LoopFail(r) \/ LoopEnd(r)

LEMMA MoveEffect ==
  ASSUME LoopInv, NEW r \in Runs, Moves(r)
  PROVE  \E p \in Lpcs : MoveEff(r, p)
<1> USE DEF MoveEff, RunFrame, Working, Settling, Choosing, Over, Ends, Lpcs, Begun
<1>0. /\ seen \subseteq Ids /\ kept \subseteq Ids /\ view[r] \subseteq Ids
      /\ cut \in [Runs -> Lpcs] /\ lpc[r] \in Lpcs /\ cur \in Runs0
  BY DEF LoopInv, TypeOK
<1>1. ASSUME NEW f \in Lpcs, NEW p \in Lpcs, Advance(r, f, p),
             f \notin Over, p \notin Over \cup {"exitDone", "asked"} \cup Choosing \cup Settling \cup Begun,
             p \in Working <=> f \in Working
      PROVE  MoveEff(r, p)
  BY <1>0, <1>1 DEF Advance, Active, Goto, slot, turn, obs
<1>2. CASE SubtaskBegin(r) \/ SubtaskResult(r)
  BY <1>1, <1>2 DEF SubtaskBegin, SubtaskResult
<1>3. CASE TurnCreate(r)
  BY <1>1, <1>3 DEF TurnCreate
<1>4. CASE Advance(r, "subtaskSettle", "top") \/ Advance(r, "compactSettle", "top")
           \/ Advance(r, "turnSettle", "top")
  BY <1>1, <1>4
<1>5. CASE Advance(r, "compactSettle", "exitStopped") \/ Advance(r, "turnSettle", "exitStopped")
  BY <1>1, <1>5
<1>6. CASE CompactBegin(r)
  <2>1. PICK head \in Heads(r) : seen' = seen \cup head /\ kept' = kept \cup (view[r] \ head)
    BY <1>6 DEF CompactBegin
  <2>2. head \subseteq view[r]
    BY <2>1 DEF Heads
  <2>3. MoveEff(r, "compactProcess")
    BY <1>0, <1>6, <2>1, <2>2 DEF CompactBegin, Active, Goto, slot, turn
  <2> QED BY <2>3
<1>7. CASE TurnBegin(r)
  <2>1. MoveEff(r, "process")
    BY <1>0, <1>7 DEF TurnBegin, Active, Goto, slot, turn
  <2> QED BY <2>1
<1>8. CASE LoopFail(r)
  <2>1. MoveEff(r, "failed")
    BY <1>0, <1>8 DEF LoopFail, End, Goto, turn, Unfinalized
  <2> QED BY <2>1
<1>9. CASE LoopEnd(r)
  <2>1. lpc[r] = "exitDone" => MoveEff(r, "done")
    BY <1>0, <1>9 DEF LoopEnd, End, Goto, turn
  <2>2. lpc[r] = "exitStopped" => MoveEff(r, "stopped")
    BY <1>0, <1>9 DEF LoopEnd, End, Goto, turn
  <2> QED BY <1>9, <2>1, <2>2 DEF LoopEnd
<1> QED BY <1>2, <1>3, <1>4, <1>5, <1>6, <1>7, <1>8, <1>9 DEF Moves

WriteEff(r, n, p) ==
  /\ lpc[r] \in Busy /\ mine[r] \in Ids
  /\ lpc' = [lpc EXCEPT ![r] = p] /\ UNCHANGED <<ids, cur, ask>> /\ RunFrame(r)
  /\ msg' = [msg EXCEPT ![mine[r]] = n] /\ Amends(msg[mine[r]], n)
  /\ \/ n.finish = msg[mine[r]].finish
     \/ lpc[r] \in Begun
     \/ n.finish = "tool-calls"
  /\ msg[mine[r]].closed => n.closed /\ (n = msg[mine[r]] \/ SettleWrite(mine[r]))
  /\ p \in Working \cup Settling \cup {"exitStopped", "cancelled"}
  /\ p \in Begun => lpc[r] \in Begun
  /\ p \in Working => lpc[r] \in Working /\ n.closed = msg[mine[r]].closed
  /\ p \in Settling => n.closed
  /\ p = "cancelled" => r \in intr
  /\ lpc[r] \in Working /\ p \notin Working =>
       n.closed \/ (p = "cancelled" /\ cut'[r] \in Unfinalized("cancelled"))

(* An interrupted run that has nothing to complete.                          *)
QuitEff(r) ==
  /\ r \in intr /\ lpc[r] \notin Busy \cup Over
  /\ lpc' = [lpc EXCEPT ![r] = "cancelled"] /\ UNCHANGED <<msg, ids, cur, ask>> /\ RunFrame(r)

CompactError(r) ==
  Active(r, "compactSettle") /\ Write(r, [msg[mine[r]] EXCEPT !.finish = "error"], "exitStopped")
Structured(r) ==
  /\ Active(r, "turnSettle") /\ msg[mine[r]].finish = "none"
  /\ \E t \in BOOLEAN : Write(r, Closed(r, "stop", t), "exitStopped")

LEMMA WriteEffect ==
  ASSUME LoopInv, NEW r \in Runs,
         SubtaskClose(r) \/ StepFinish(r) \/ ProcessEnd(r) \/ CompactError(r) \/ Structured(r)
  PROVE  \E n \in Msgs, p \in Lpcs : WriteEff(r, n, p)
<1> USE DEF Working, Settling, Choosing, Over, Ends, Lpcs, Begun, Busy
<1>0. lpc[r] \in Busy /\ r \notin intr
  BY DEF SubtaskClose, StepFinish, ProcessEnd, CompactError, Structured, Active
<1>1. mine[r] \in Ids /\ msg[mine[r]] \in Msgs
  BY <1>0, IdsAre DEF LoopInv, OwnInv, TypeOK
<1>2. /\ lpc[r] \in Working => ~msg[mine[r]].closed
      /\ lpc[r] \in Settling => msg[mine[r]].closed
  BY DEF LoopInv, OwnInv
<1>3. PICK m \in Msgs : m = msg[mine[r]]
  BY <1>1
<1>4. ASSUME NEW n, NEW p \in Lpcs, Write(r, n, p), Amends(m, n),
             n.finish = m.finish \/ lpc[r] \in Begun \/ n.finish = "tool-calls",
             m.closed => n.closed /\ (n = m \/ SettleWrite(mine[r])),
             p \in Working \cup Settling \cup {"exitStopped"},
             p \in Begun => lpc[r] \in Begun,
             p \in Working => lpc[r] \in Working /\ n.closed = m.closed,
             p \in Settling => n.closed, lpc[r] \in Working /\ p \notin Working => n.closed
      PROVE  n \in Msgs /\ WriteEff(r, n, p)
  <2>1. seen \subseteq Ids /\ kept \subseteq Ids /\ cut \in [Runs -> Lpcs]
    BY DEF LoopInv, TypeOK
  <2>2. RunFrame(r) /\ UNCHANGED <<ids, cur, ask>>
    BY <1>4, <2>1 DEF RunFrame, Write, slot, turn, obs
  <2> QED BY <1>0, <1>1, <1>3, <1>4, <2>2 DEF WriteEff, Write, Goto, Amends
<1>5. CASE SubtaskClose(r)
  <2>1. PICK n : n = Closed(r, "tool-calls", TRUE)
    OBVIOUS
  <2>2. Write(r, n, "subtaskSettle") /\ lpc[r] = "subtaskAfter"
    BY <1>5, <2>1 DEF SubtaskClose, Active
  <2>3. Amends(m, n) /\ n.finish = "tool-calls" /\ n.closed
    BY <1>3, <2>1, ClosedIs DEF Finishes
  <2>4. WriteEff(r, n, "subtaskSettle") /\ n \in Msgs
    BY <1>2, <1>3, <1>4, <2>2, <2>3
  <2> QED BY <2>4
<1>6. CASE StepFinish(r)
  <2>1. PICK f \in {"stop", "tool-calls"}, t \in BOOLEAN, p \in {"process", "compactProcess"} :
             Write(r, [m EXCEPT !.finish = f, !.tool = t], p) /\ lpc[r] = p
    BY <1>3, <1>6 DEF StepFinish
  <2>2. PICK n : n = [m EXCEPT !.finish = f, !.tool = t]
    OBVIOUS
  <2>5. Write(r, n, p) /\ lpc[r] = p
    BY <2>1, <2>2
  <2>3. Amends(m, n) /\ n.closed = m.closed
    BY <2>2 DEF Amends, Msgs
  <2>4. WriteEff(r, n, p) /\ n \in Msgs
    BY <1>2, <1>3, <1>4, <2>3, <2>5
  <2> QED BY <2>4
<1>7. CASE ProcessEnd(r)
  <2>1. PICK n \in Cleaned(r) : \/ lpc[r] = "process" /\ Write(r, n, "turnSettle")
                                \/ lpc[r] = "compactProcess" /\ Write(r, n, "compactSettle")
    BY <1>7 DEF ProcessEnd
  <2>3. Amends(m, n) /\ n.finish = m.finish /\ n.closed
    BY <1>3, <2>1, CleanedIs
  <2>4. lpc[r] = "process" /\ Write(r, n, "turnSettle") => WriteEff(r, n, "turnSettle") /\ n \in Msgs
    BY <1>2, <1>3, <1>4, <2>3
  <2>5. lpc[r] = "compactProcess" /\ Write(r, n, "compactSettle")
          => WriteEff(r, n, "compactSettle") /\ n \in Msgs
    BY <1>2, <1>3, <1>4, <2>3
  <2> QED BY <2>1, <2>4, <2>5
<1>8. ASSUME NEW n, Write(r, n, "exitStopped"), lpc[r] \in {"compactSettle", "turnSettle"},
             Amends(m, n), n.closed,
             \/ lpc[r] = "compactSettle" /\ n = [m EXCEPT !.finish = "error"]
             \/ lpc[r] = "turnSettle" /\ m.finish = "none"
                  /\ \E t \in BOOLEAN : n = [m EXCEPT !.finish = "stop", !.tool = t]
      PROVE  n \in Msgs /\ WriteEff(r, n, "exitStopped")
  <2>1. msg'[mine[r]] = n
    BY <1>1, <1>8 DEF Write, LoopInv, TypeOK
  <2>2. SettleWrite(mine[r])
    BY <1>0, <1>3, <1>8, <2>1 DEF SettleWrite
  <2> QED BY <1>4, <1>8, <2>2
<1>9. CASE CompactError(r)
  <2>1. PICK n : n = [m EXCEPT !.finish = "error"]
    OBVIOUS
  <2>2. Amends(m, n) /\ n.closed = m.closed
    BY <2>1, AmendsIs DEF Finishes
  <2>3. WriteEff(r, n, "exitStopped") /\ n \in Msgs
    BY <1>2, <1>3, <1>8, <1>9, <2>1, <2>2 DEF CompactError, Active
  <2> QED BY <2>3
<1>10. CASE Structured(r)
  <2>1. lpc[r] = "turnSettle" /\ m.closed /\ m.finish = "none"
    BY <1>2, <1>3, <1>10 DEF Structured, Active
  <2>2. PICK t \in BOOLEAN : Write(r, Closed(r, "stop", t), "exitStopped")
    BY <1>10 DEF Structured
  <2>3. PICK n : n = [m EXCEPT !.finish = "stop", !.tool = t, !.closed = TRUE]
    OBVIOUS
  <2>4. Amends(m, n) /\ n.closed /\ Write(r, n, "exitStopped")
    BY <1>3, <2>2, <2>3, AmendsIs DEF Closed, Finishes
  <2>5. n = [m EXCEPT !.finish = "stop", !.tool = t]
    BY <2>1, <2>3 DEF Msgs
  <2>6. WriteEff(r, n, "exitStopped") /\ n \in Msgs
    BY <1>8, <2>1, <2>4, <2>5
  <2> QED BY <2>6
<1> QED BY <1>5, <1>6, <1>7, <1>9, <1>10

LEMMA InterruptEffect ==
  ASSUME LoopInv, NEW r \in Runs, LoopInterrupted(r)
  PROVE  QuitEff(r) \/ \E n \in Msgs, p \in Lpcs : WriteEff(r, n, p)
<1> USE DEF Working, Settling, Choosing, Over, Ends, Lpcs, Begun, Busy
<1>1. RunFrame(r) /\ UNCHANGED <<ids, cur, ask>> /\ lpc' = [lpc EXCEPT ![r] = "cancelled"]
      /\ cut'[r] = lpc[r] /\ r \in intr /\ lpc[r] \notin Over
  <2>1. seen \subseteq Ids /\ kept \subseteq Ids /\ cut \in [Runs -> Lpcs] /\ lpc[r] \in Lpcs
    BY DEF LoopInv, TypeOK
  <2> QED BY <2>1 DEF LoopInterrupted, RunFrame, Goto, slot, turn
<1>2. CASE lpc[r] \notin Busy
  <2>1. UNCHANGED msg
    <3>1. mine[r] # 0 => \E m \in {msg[mine[r]]} : msg' = [msg EXCEPT ![mine[r]] = m]
      BY <1>2 DEF LoopInterrupted, Finalized
    <3>2. msg \in [Ids -> Msgs]
      BY DEF LoopInv, TypeOK
    <3> QED BY <3>1, <3>2 DEF LoopInterrupted
  <2> QED BY <1>1, <1>2, <2>1 DEF QuitEff
<1>3. CASE lpc[r] \in Busy
  <2>1. mine[r] \in Ids /\ mine[r] # 0 /\ msg[mine[r]] \in Msgs
    BY <1>3, IdsAre DEF LoopInv, OwnInv, TypeOK
  <2>2. PICK m \in Msgs : m = msg[mine[r]]
    BY <2>1
  <2>3. PICK n \in Finalized(r) : msg' = [msg EXCEPT ![mine[r]] = n]
    BY <2>1 DEF LoopInterrupted
  <2>4. /\ lpc[r] \in Working => ~m.closed
        /\ m.finish \in Finishes /\ m.tool \in BOOLEAN
    BY <2>2 DEF LoopInv, OwnInv, Msgs, Finishes
  <2>5. /\ Amends(m, n) /\ (n.finish = m.finish \/ n.finish = "tool-calls")
        /\ n = m \/ (n.closed /\ ~m.closed)
        /\ lpc[r] \in Working => n.closed \/ lpc[r] \in Unfinalized("cancelled")
    <3>1. CASE lpc[r] = "subtaskExecute"
      <4>1. n = Closed(r, "tool-calls", TRUE)
        BY <2>3, <3>1 DEF Finalized
      <4>2. Amends(m, n) /\ n.finish = "tool-calls" /\ n.closed
        BY <2>2, <4>1, ClosedIs DEF Finishes
      <4> QED BY <2>4, <3>1, <4>2
    <3>2. CASE lpc[r] \in {"compactProcess", "process"}
      <4>1. n \in Cleaned(r)
        BY <2>3, <3>2 DEF Finalized
      <4>2. Amends(m, n) /\ n.finish = m.finish /\ n.closed
        BY <2>2, <4>1, CleanedIs
      <4> QED BY <2>4, <3>2, <4>2
    <3>3. CASE lpc[r] = "create"
      <4>1. n = [m EXCEPT !.closed = TRUE]
        BY <2>2, <2>3, <3>3 DEF Finalized
      <4>2. Amends(m, n) /\ n.finish = m.finish /\ n.closed
        BY <2>4, <4>1, AmendsIs
      <4> QED BY <2>4, <3>3, <4>2
    <3>4. CASE lpc[r] \notin {"subtaskExecute", "compactProcess", "process", "create"}
      <4>1. n = m
        BY <2>2, <2>3, <3>4 DEF Finalized
      <4> QED BY <2>4, <3>4, <4>1, AmendsIs DEF Unfinalized
    <3> QED BY <3>1, <3>2, <3>3, <3>4
  <2>6. WriteEff(r, n, "cancelled") /\ n \in Msgs
    BY <1>1, <1>3, <2>1, <2>2, <2>3, <2>5 DEF WriteEff, Amends
  <2> QED BY <2>6
<1> QED BY <1>2, <1>3

(* r stores the user message u and will add its parts.                       *)
AskEff(r, u) ==
  /\ r \notin intr /\ lpc[r] \in Settling \cup {"overflow"}
  /\ Ask(r, u) /\ u.role = "user"

Asks(r) ==
  \/ Active(r, "subtaskSettle") /\ Ask(r, User("text", FALSE))
  \/ Active(r, "compactSettle") /\ \E k \in FollowUps(r) : Ask(r, User(k, FALSE))
  \/ Active(r, "turnSettle") /\ Ask(r, User("compaction", TRUE))
  \/ OverflowCreate(r)

LEMMA AskEffect ==
  ASSUME LoopInv, NEW r \in Runs, Asks(r)
  PROVE  \E u \in Msgs : AskEff(r, u)
<1>1. FollowUps(r) \subseteq MsgKinds
  <2>1. \A i \in Ids : msg[i].kind \in MsgKinds
    BY DEF LoopInv, TypeOK, Msgs, MsgKinds
  <2> QED BY <2>1 DEF FollowUps, Users, MsgKinds
<1>2. PICK k \in MsgKinds, a \in BOOLEAN :
           Ask(r, User(k, a)) /\ r \notin intr /\ lpc[r] \in Settling \cup {"overflow"}
  BY <1>1 DEF Asks, OverflowCreate, Active, Settling, MsgKinds
<1>3. User(k, a) \in Msgs /\ AskEff(r, User(k, a))
  BY <1>2, UserIs DEF AskEff
<1> QED BY <1>3

(* r stores the assistant message of its turn.                               *)
AnswerEff(r, p, s) ==
  /\ r \notin intr /\ lpc[r] \in {"subtask", "compaction", "turn"}
  /\ Answer(r, p, s) /\ p \in Working \ Begun
  /\ executed \subseteq executed' /\ executed' \subseteq Ids0
  /\ lpc[r] # "turn" => task[r] \in executed'

LEMMA AnswerEffect ==
  ASSUME LoopInv, NEW r \in Runs, SubtaskAnswer(r) \/ CompactAnswer(r) \/ TurnAnswer(r)
  PROVE  \E p \in Lpcs, s \in BOOLEAN : AnswerEff(r, p, s)
<1>1. executed \subseteq Ids0 /\ task[r] \in Ids0
  BY DEF LoopInv, TypeOK
<1>2. "subtaskPrepare" \in Lpcs /\ "compactPrepare" \in Lpcs /\ "turnPrepare" \in Lpcs
  BY DEF Lpcs, Working
<1>3. CASE SubtaskAnswer(r)
  BY <1>1, <1>2, <1>3 DEF AnswerEff, SubtaskAnswer, Active, Working, Begun
<1>4. CASE CompactAnswer(r)
  BY <1>1, <1>2, <1>4 DEF AnswerEff, CompactAnswer, Active, Working, Begun
<1>5. CASE TurnAnswer(r)
  BY <1>1, <1>2, <1>5 DEF AnswerEff, TurnAnswer, Active, Working, Begun
<1> QED BY <1>3, <1>4, <1>5

LEMMA StepEffect ==
  ASSUME LoopInv, NEW r \in Runs, LoopStep(r)
  PROVE  \/ \E p \in Lpcs : MoveEff(r, p)
         \/ \E n \in Msgs, p \in Lpcs : WriteEff(r, n, p)
         \/ QuitEff(r)
         \/ \E u \in Msgs : AskEff(r, u)
         \/ \E p \in Lpcs, s \in BOOLEAN : AnswerEff(r, p, s)
         \/ \E p \in {"exitDone"} \cup Choosing : LoopRead(r, p)
         \/ AskParts(r)
<1>1. CASE Moves(r)
  BY <1>1, MoveEffect
<1>2. CASE SubtaskClose(r) \/ StepFinish(r) \/ ProcessEnd(r) \/ CompactError(r) \/ Structured(r)
  BY <1>2, WriteEffect
<1>3. CASE LoopInterrupted(r)
  BY <1>3, InterruptEffect
<1>4. CASE Asks(r)
  BY <1>4, AskEffect
<1>5. CASE SubtaskAnswer(r) \/ CompactAnswer(r) \/ TurnAnswer(r)
  BY <1>5, AnswerEffect
<1>6. SubtaskSettle(r) \/ CompactSettle(r) \/ TurnSettle(r) \/ OverflowCreate(r) =>
        Moves(r) \/ CompactError(r) \/ Structured(r) \/ Asks(r)
  BY DEF SubtaskSettle, CompactSettle, TurnSettle, Moves, CompactError, Structured, Asks
<1>7. SubtaskBegin(r) \/ SubtaskResult(r) \/ CompactBegin(r) \/ TurnCreate(r) \/ TurnBegin(r)
        \/ LoopFail(r) \/ LoopEnd(r) => Moves(r)
  BY DEF Moves
<1> QED BY <1>1, <1>2, <1>3, <1>4, <1>5, <1>6, <1>7 DEF LoopStep

-----------------------------------------------------------------------------
(* The messages that are stored stay what they are *)

(* What every step keeps of them, and of what was observed.                  *)
Keeps ==
  /\ \A i \in Ids : msg[i].role # "none" =>
       /\ msg'[i].role = msg[i].role /\ msg'[i].kind = msg[i].kind
       /\ msg[i].parts => msg'[i].parts
  /\ seen \subseteq seen' /\ executed \subseteq executed' /\ missed \subseteq missed'
  /\ late \subseteq late' /\ kept \subseteq kept'

(* What the steps of a run keep of all of them.                              *)
RunKeeps ==
  /\ Keeps /\ msg' \in [Ids -> Msgs] /\ ids' \in Ids0 /\ ids <= ids'
  /\ \A i \in Ids : i > ids' => msg'[i].role = "none"
  /\ \A i \in Ids : i <= ids /\ msg[i].role = "none" => msg'[i].role = "none"

LEMMA NextId ==
  ASSUME LoopInv, ids < MaxMsg
  PROVE  ids + 1 \in Ids /\ ids + 1 \in Ids0 /\ ids <= ids + 1 /\ msg[ids + 1].role = "none"
<1>1. ids \in Nat /\ ids + 1 \in Ids /\ ids + 1 > ids
  BY PromptAssumption DEF LoopInv, TypeOK, Ids0, Ids
<1> QED BY <1>1, IdsAre DEF LoopInv, ClientInv

LEMMA RunKeep ==
  ASSUME LoopInv, NEW r \in Runs, LoopStep(r)
  PROVE  RunKeeps
<1> USE DEF RunKeeps, Keeps
<1>0. /\ msg \in [Ids -> Msgs] /\ ids \in Ids0 /\ ids \in Nat
      /\ \A i \in Ids : i \in Nat /\ (i > ids => msg[i].role = "none")
  BY PromptAssumption DEF LoopInv, TypeOK, ClientInv, Ids0, Ids
<1>1. ASSUME NEW p \in Lpcs, MoveEff(r, p) PROVE RunKeeps
  BY <1>0, <1>1 DEF MoveEff, RunFrame
<1>2. ASSUME NEW n \in Msgs, NEW p \in Lpcs, WriteEff(r, n, p) PROVE RunKeeps
  BY <1>0, <1>2 DEF WriteEff, RunFrame, Amends
<1>3. CASE QuitEff(r)
  BY <1>0, <1>3 DEF QuitEff, RunFrame
<1>4. ASSUME NEW u \in Msgs, AskEff(r, u) PROVE RunKeeps
  <2>1. ids' = ids + 1 /\ msg' = [msg EXCEPT ![ids + 1] = u] /\ UNCHANGED obs /\ ids < MaxMsg
    BY <1>4 DEF AskEff, Ask
  <2>2. ids + 1 \in Ids /\ ids + 1 \in Ids0 /\ msg[ids + 1].role = "none"
    BY <2>1, NextId
  <2> QED BY <1>0, <2>1, <2>2 DEF obs
<1>5. ASSUME NEW p \in Lpcs, NEW s \in BOOLEAN, AnswerEff(r, p, s) PROVE RunKeeps
  <2>1. PICK m \in Msgs : m = Assistant(s)
    BY AssistantIs
  <2>2. ids' = ids + 1 /\ msg' = [msg EXCEPT ![ids + 1] = m] /\ ids < MaxMsg
    BY <1>5, <2>1 DEF AnswerEff, Answer
  <2>3. ids + 1 \in Ids /\ ids + 1 \in Ids0 /\ msg[ids + 1].role = "none"
    BY <2>2, NextId
  <2>4. UNCHANGED <<seen, late, kept>> /\ missed \subseteq missed' /\ executed \subseteq executed'
    BY <1>5 DEF AnswerEff, Answer
  <2> QED BY <1>0, <2>2, <2>3, <2>4
<1>6. ASSUME NEW p \in {"exitDone"} \cup Choosing, LoopRead(r, p) PROVE RunKeeps
  BY <1>0, <1>6 DEF LoopRead, obs
<1>7. CASE AskParts(r)
  <2>1. PICK a \in Ids : a = ask[r]
    BY <1>7 DEF AskParts, Active, LoopInv, OwnInv, Users
  <2>2. PICK n : n = [msg[a] EXCEPT !.parts = TRUE]
    OBVIOUS
  <2>3. n \in Msgs /\ n.role = msg[a].role /\ n.kind = msg[a].kind /\ n.parts
    BY <1>0, <2>2 DEF Msgs
  <2>4. msg' = [msg EXCEPT ![a] = n] /\ UNCHANGED <<ids, obs>>
    BY <1>7, <2>1, <2>2 DEF AskParts
  <2> QED BY <1>0, <2>3, <2>4 DEF obs
<1> QED BY <1>1, <1>2, <1>3, <1>4, <1>5, <1>6, <1>7, StepEffect

-----------------------------------------------------------------------------
(* Types, the slot, the clients and the messages of the runs *)

LEMMA SlotFrame ==
  ASSUME LoopInv, NEW r \in Runs, NEW p \in Lpcs \ {"none"}, lpc[r] \notin Over,
         lpc' = [lpc EXCEPT ![r] = p], UNCHANGED <<runs, intr>>,
         cur' \in {cur, 0}, cur' = r => p \notin Over
  PROVE  SlotInv'
<1>1. lpc \in [Runs -> Lpcs] /\ cur \in Runs0 /\ runs \in Runs0 /\ r <= runs
  BY PromptAssumption DEF LoopInv, TypeOK, SlotInv, Over, Runs, Runs0
<1> QED BY <1>1, PromptAssumption DEF LoopInv, SlotInv, Runs, Runs0

LEMMA ClientFrame ==
  ASSUME LoopInv, RunKeeps, UNCHANGED client, NEW r \in Runs, NEW p \in Lpcs \ {"none"},
         lpc' = [lpc EXCEPT ![r] = p]
  PROVE  ClientInv'
<1>1. UNCHANGED <<cpc, cmsg, crun>>
  BY DEF client
<1>2. \A i \in Ids : i <= ids /\ msg[i].role = "none" => msg'[i].role = "none"
  BY DEF RunKeeps
<1>3. \A c \in Clients : cpc[c] \notin {"ready", "store"} => cmsg[c] \in Users'
  BY DEF LoopInv, ClientInv, RunKeeps, Keeps, Users
<1>4. \A c \in Clients : cpc[c] \in {"join", "await"} => msg'[cmsg[c]].parts
  BY DEF LoopInv, ClientInv, RunKeeps, Keeps, Users
<1>5. \A c \in Clients : cpc[c] = "await" => crun[c] \in Runs /\ lpc'[crun[c]] # "none"
  BY DEF LoopInv, ClientInv, TypeOK
<1>6. \A c \in Clients : cpc[c] = "store" => cmsg[c] \in Ids /\ cmsg[c] <= ids' /\ cmsg[c] <= ids
  <2>1. ids \in Nat /\ ids' \in Nat /\ ids <= ids' /\ \A i \in Ids : i \in Nat
    BY PromptAssumption DEF LoopInv, TypeOK, RunKeeps, Ids0, Ids
  <2> QED BY <2>1 DEF LoopInv, ClientInv
<1>7. \A c \in Clients : cpc[c] = "store" => msg'[cmsg[c]].role = "none"
  BY <1>2, <1>6 DEF LoopInv, ClientInv
<1>8. \A c, d \in Clients : cpc[c] = "store" /\ cpc[d] = "store" /\ cmsg[c] = cmsg[d] => c = d
  BY DEF LoopInv, ClientInv
<1> QED BY <1>1, <1>3, <1>4, <1>5, <1>6, <1>7, <1>8 DEF ClientInv, RunKeeps

LEMMA OwnFrame ==
  ASSUME LoopInv, RunKeeps, NEW r \in Runs,
         \A q \in Runs \ {r} : lpc'[q] = lpc[q] /\ mine'[q] = mine[q] /\ ask'[q] = ask[q],
         \A q \in Runs \ {r} : mine[q] # 0 => msg'[mine[q]].closed = msg[mine[q]].closed,
         \/ mine'[r] = mine[r]
         \/ mine'[r] \in Ids /\ mine'[r] > ids /\ msg'[mine'[r]].role = "assistant",
         lpc'[r] \in Working \cup Settling => mine'[r] # 0,
         lpc'[r] \in Working => ~msg'[mine'[r]].closed,
         lpc'[r] \in Settling => msg'[mine'[r]].closed,
         lpc'[r] = "asked" => ask'[r] \in Users'
  PROVE  OwnInv'
<1>1. \A q \in Runs : mine[q] # 0 => mine[q] \in Replies /\ mine[q] \in Replies'
  BY DEF LoopInv, OwnInv, RunKeeps, Keeps, Replies
<1>2. \A q \in Runs : mine'[q] # 0 => mine'[q] \in Replies'
  BY <1>1 DEF Replies
<1>3. \A q \in Runs \ {r} : lpc[q] = "asked" => ask[q] \in Users'
  BY DEF LoopInv, OwnInv, RunKeeps, Keeps, Users
<1>4. \A q \in Runs \ {r} : mine[q] # 0 => ~(mine[q] > ids)
  BY <1>1 DEF LoopInv, ClientInv, Replies
<1>5. \A q, s \in Runs : mine'[q] # 0 /\ mine'[q] = mine'[s] => q = s
  BY <1>4 DEF LoopInv, OwnInv
<1>6. ASSUME NEW q \in Runs
      PROVE  /\ lpc'[q] \in Working \cup Settling => mine'[q] # 0
             /\ lpc'[q] \in Working => ~msg'[mine'[q]].closed
             /\ lpc'[q] \in Settling => msg'[mine'[q]].closed
             /\ lpc'[q] = "asked" => ask'[q] \in Users'
  BY <1>3 DEF LoopInv, OwnInv
<1> QED BY <1>2, <1>5, <1>6 DEF OwnInv

LEMMA RunStepKeeps ==
  ASSUME LoopInv, NEW r \in Runs, LoopStep(r)
  PROVE  LoopInv'
<1> DEFINE Goes(p) == p \in Lpcs \ {"none"} /\ lpc' = [lpc EXCEPT ![r] = p]
<1>0. /\ RunKeeps /\ lpc \in [Runs -> Lpcs] /\ mine \in [Runs -> Ids0] /\ ask \in [Runs -> Ids0]
      /\ view \in [Runs -> SUBSET Ids] /\ task \in [Runs -> Ids0] /\ cut \in [Runs -> Lpcs]
      /\ missed \subseteq Ids /\ late \subseteq Ids0
      /\ seen \subseteq Ids /\ kept \subseteq Ids /\ executed \subseteq Ids0
      /\ cur \in Runs0 /\ runs \in Runs0 /\ intr \subseteq Runs
      /\ cpc \in [Clients -> {"ready", "store", "parts", "join", "await"} \cup Ends]
      /\ cmsg \in [Clients -> Ids0] /\ crun \in [Clients -> Runs0]
      /\ 0 \in Runs0 /\ ids \in Ids0
  BY RunKeep, PromptAssumption DEF LoopInv, TypeOK, Runs0
<1>1. ASSUME NEW p, Goes(p), lpc[r] \notin Over, UNCHANGED <<runs, intr, client>>,
             cur' \in {cur, 0}, cur' = r => p \notin Over
      PROVE  SlotInv' /\ ClientInv'
  BY <1>0, <1>1, SlotFrame, ClientFrame
<1>2. \A q \in Runs \ {r} : mine[q] # 0 => mine[q] # mine[r] /\ mine[q] \in Ids /\ mine[q] <= ids
  <2>1. ids \in Nat /\ \A i \in Ids : i \in Nat
    BY PromptAssumption DEF LoopInv, TypeOK, Ids0, Ids
  <2> QED BY <2>1 DEF LoopInv, ClientInv, OwnInv, Replies
<1>3. ASSUME NEW p \in Lpcs, MoveEff(r, p) PROVE LoopInv'
  <2>1. TypeOK'
    BY <1>0, <1>3 DEF MoveEff, RunFrame, client, RunKeeps, TypeOK
  <2>2. Goes(p) /\ lpc[r] \notin Over /\ UNCHANGED <<runs, intr, client>>
        /\ cur' \in {cur, 0} /\ (cur' = r => p \notin Over)
    BY <1>0, <1>3 DEF MoveEff, RunFrame, Runs, Runs0
  <2>3. OwnInv'
    <3>1. p \notin Settling \cup {"asked"} /\ (p \in Working => lpc[r] \in Working)
      BY <1>3 DEF MoveEff
    <3>2. p \in Working => mine[r] # 0 /\ ~msg[mine[r]].closed
      BY <3>1 DEF LoopInv, OwnInv
    <3>3. UNCHANGED <<msg, mine, ask>> /\ lpc'[r] = p /\ \A q \in Runs \ {r} : lpc'[q] = lpc[q]
      BY <1>0, <1>3 DEF MoveEff, RunFrame
    <3> QED BY <1>0, <3>1, <3>2, <3>3, OwnFrame
  <2> QED BY <1>1, <2>1, <2>2, <2>3 DEF LoopInv
<1>4. ASSUME NEW n \in Msgs, NEW p \in Lpcs, WriteEff(r, n, p) PROVE LoopInv'
  <2>1. TypeOK'
    BY <1>0, <1>4 DEF WriteEff, RunFrame, client, RunKeeps, TypeOK
  <2>2. Goes(p) /\ lpc[r] \notin Over /\ UNCHANGED <<runs, intr, client, cur>> /\ (cur = r => p \notin Over)
    <3>1. p \in Over => r \in intr
      BY <1>4 DEF WriteEff, Over, Ends, Working, Settling
    <3>2. cur = r => r \notin intr
      BY IdsAre, PromptAssumption DEF LoopInv, SlotInv, Runs
    <3>3. p # "none" /\ lpc[r] \notin Over
      BY <1>4 DEF WriteEff, Busy, Over, Ends, Working, Settling
    <3> QED BY <1>4, <3>1, <3>2, <3>3 DEF WriteEff, RunFrame
  <2>3. OwnInv'
    <3>1. UNCHANGED <<mine, ask>> /\ lpc'[r] = p /\ \A q \in Runs \ {r} : lpc'[q] = lpc[q]
      BY <1>0, <1>4 DEF WriteEff, RunFrame
    <3>2. /\ mine[r] \in Ids /\ msg'[mine[r]] = n /\ mine[r] # 0
          /\ \A q \in Runs \ {r} : mine[q] # 0 => msg'[mine[q]] = msg[mine[q]]
      BY <1>2, <1>4, IdsAre DEF WriteEff, LoopInv, TypeOK
    <3>3. /\ p \in Working => ~n.closed
          /\ p \in Settling => n.closed
          /\ p # "asked"
      BY <1>4 DEF WriteEff, LoopInv, OwnInv, Working, Settling
    <3> QED BY <1>0, <3>1, <3>2, <3>3, OwnFrame
  <2> QED BY <1>1, <2>1, <2>2, <2>3 DEF LoopInv
<1>5. CASE QuitEff(r)
  <2>0. "cancelled" \in Lpcs \ {"none"} /\ "cancelled" \notin Working \cup Settling \cup {"asked"}
    BY DEF Lpcs, Over, Ends, Working, Settling
  <2>1. TypeOK'
    BY <1>0, <1>5, <2>0 DEF QuitEff, RunFrame, client, RunKeeps, TypeOK
  <2>2. Goes("cancelled") /\ lpc[r] \notin Over /\ UNCHANGED <<runs, intr, client, cur>> /\ cur # r
    <3>1. cur = r => r \notin intr
      BY PromptAssumption DEF LoopInv, SlotInv, Runs
    <3> QED BY <1>5, <2>0, <3>1 DEF QuitEff, RunFrame
  <2>3. OwnInv'
    <3>1. UNCHANGED <<msg, mine, ask>> /\ lpc'[r] = "cancelled" /\ \A q \in Runs \ {r} : lpc'[q] = lpc[q]
      BY <1>0, <1>5 DEF QuitEff, RunFrame
    <3> QED BY <1>0, <2>0, <3>1, OwnFrame
  <2> QED BY <1>1, <2>1, <2>2, <2>3 DEF LoopInv
<1>6. ASSUME NEW u \in Msgs, AskEff(r, u) PROVE LoopInv'
  <2>0. "asked" \in Lpcs \ {"none"} /\ "asked" \notin Working \cup Settling \cup Over
    BY DEF Lpcs, Over, Ends, Working, Settling
  <2>1. ids' = ids + 1 /\ msg' = [msg EXCEPT ![ids + 1] = u] /\ ask' = [ask EXCEPT ![r] = ids + 1]
        /\ lpc' = [lpc EXCEPT ![r] = "asked"] /\ UNCHANGED <<slot, view, task, mine, client, obs>>
        /\ u.role = "user" /\ ids < MaxMsg
    BY <1>6 DEF AskEff, Ask, Goto
  <2>2. ids + 1 \in Ids /\ ids + 1 \in Ids0 /\ msg'[ids + 1] = u
    BY <2>1, NextId DEF LoopInv, TypeOK
  <2>3. TypeOK'
    BY <1>0, <2>0, <2>1, <2>2 DEF slot, client, obs, RunKeeps, TypeOK
  <2>4. Goes("asked") /\ lpc[r] \notin Over /\ UNCHANGED <<runs, intr, client, cur>>
    BY <1>6, <2>0, <2>1 DEF AskEff, Settling, Over, Ends, slot
  <2>5. OwnInv'
    <3>1. UNCHANGED mine /\ lpc'[r] = "asked" /\ ask'[r] \in Users'
          /\ \A q \in Runs \ {r} : lpc'[q] = lpc[q] /\ ask'[q] = ask[q]
      BY <1>0, <2>1, <2>2 DEF Users
    <3>2. \A q \in Runs \ {r} : mine[q] # 0 => msg'[mine[q]] = msg[mine[q]]
      <4>1. \A q \in Runs \ {r} : mine[q] # 0 => mine[q] # ids + 1
        BY <1>0, <1>2, PromptAssumption DEF Ids, Ids0
      <4> QED BY <1>2, <2>1, <4>1 DEF LoopInv, TypeOK
    <3> QED BY <1>0, <2>0, <3>1, <3>2, OwnFrame
  <2> QED BY <1>1, <2>0, <2>3, <2>4, <2>5 DEF LoopInv
<1>7. ASSUME NEW p \in Lpcs, NEW s \in BOOLEAN, AnswerEff(r, p, s) PROVE LoopInv'
  <2>0. p \in Working /\ p # "none" /\ p \notin Over \cup Settling \cup {"asked"}
    BY <1>7 DEF AnswerEff, Over, Ends, Working, Settling
  <2>1. PICK m \in Msgs : m = Assistant(s) /\ m.role = "assistant" /\ ~m.closed
    BY AssistantIs
  <2>2. ids' = ids + 1 /\ msg' = [msg EXCEPT ![ids + 1] = m] /\ mine' = [mine EXCEPT ![r] = ids + 1]
        /\ missed' = missed \cup {i \in Ids : i <= ids /\ i \notin view[r]}
        /\ lpc' = [lpc EXCEPT ![r] = p]
        /\ UNCHANGED <<slot, view, task, ask, client, seen, late, kept, cut>>
        /\ executed' \subseteq Ids0 /\ ids < MaxMsg
    BY <1>7, <2>1 DEF AnswerEff, Answer, Goto
  <2>3. ids + 1 \in Ids /\ ids + 1 \in Ids0 /\ msg'[ids + 1] = m /\ ids + 1 > ids
    BY <1>0, <2>2, NextId, PromptAssumption DEF LoopInv, TypeOK, Ids0
  <2>4. TypeOK'
    <3>1. missed' \subseteq Ids /\ mine' \in [Runs -> Ids0] /\ lpc' \in [Runs -> Lpcs]
      BY <1>0, <2>2, <2>3
    <3> QED BY <1>0, <2>2, <3>1 DEF slot, client, RunKeeps, TypeOK
  <2>5. Goes(p) /\ lpc[r] \notin Over /\ UNCHANGED <<runs, intr, client, cur>>
    BY <1>7, <2>0, <2>2 DEF AnswerEff, Over, Ends, slot
  <2>6. OwnInv'
    <3>1. UNCHANGED ask /\ lpc'[r] = p /\ mine'[r] = ids + 1
          /\ \A q \in Runs \ {r} : lpc'[q] = lpc[q] /\ mine'[q] = mine[q]
      BY <1>0, <2>2
    <3>2. \A q \in Runs \ {r} : mine[q] # 0 => msg'[mine[q]] = msg[mine[q]]
      <4>1. \A q \in Runs \ {r} : mine[q] # 0 => mine[q] # ids + 1
        BY <1>0, <1>2, PromptAssumption DEF Ids, Ids0
      <4> QED BY <1>2, <2>2, <4>1 DEF LoopInv, TypeOK
    <3>3. ids + 1 # 0
      BY <2>3, IdsAre
    <3> QED BY <1>0, <2>0, <2>1, <2>3, <3>1, <3>2, <3>3, OwnFrame
  <2> QED BY <1>1, <2>0, <2>4, <2>5, <2>6 DEF LoopInv
<1>8. ASSUME NEW p \in {"exitDone"} \cup Choosing, LoopRead(r, p) PROVE LoopInv'
  <2>0. p \in Lpcs \ {"none"} /\ p \notin Working \cup Settling \cup {"asked"} \cup Over
    BY <1>8 DEF Lpcs, Choosing, Over, Ends, Working, Settling
  <2>1. Tasks \in SUBSET Ids /\ Stored \subseteq Ids
    BY DEF Tasks, Users, Stored
  <2>2. PICK v \in SUBSET Ids : view' = [view EXCEPT ![r] = v]
    BY <1>8, <2>1 DEF LoopRead
  <2>3. PICK t \in Ids0 : task' = [task EXCEPT ![r] = t]
    BY <1>8, <2>1, NewestIs DEF LoopRead
  <2>4. TypeOK'
    BY <1>0, <1>8, <2>0, <2>2, <2>3 DEF LoopRead, Goto, slot, client, obs, RunKeeps, TypeOK
  <2>5. Goes(p) /\ lpc[r] \notin Over /\ UNCHANGED <<runs, intr, client, cur>>
    BY <1>8, <2>0 DEF LoopRead, Active, Goto, Over, Ends, slot
  <2>6. OwnInv'
    <3>1. UNCHANGED <<msg, mine, ask>> /\ lpc'[r] = p /\ \A q \in Runs \ {r} : lpc'[q] = lpc[q]
      BY <1>0, <1>8 DEF LoopRead, Goto
    <3> QED BY <1>0, <2>0, <3>1, OwnFrame
  <2> QED BY <1>1, <2>0, <2>4, <2>5, <2>6 DEF LoopInv
<1>9. CASE AskParts(r)
  <2>0. "top" \in Lpcs \ {"none"} /\ "top" \notin Working \cup Settling \cup {"asked"} \cup Over
    BY DEF Lpcs, Over, Ends, Working, Settling
  <2>1. /\ lpc[r] = "asked" /\ lpc' = [lpc EXCEPT ![r] = "top"] /\ ask' = [ask EXCEPT ![r] = 0]
        /\ msg' = [msg EXCEPT ![ask[r]].parts = TRUE]
        /\ UNCHANGED <<ids, slot, view, task, mine, client, obs>>
    BY <1>9 DEF AskParts, Active, Goto
  <2>2. 0 \in Ids0
    BY PromptAssumption DEF Ids0
  <2>3. TypeOK'
    BY <1>0, <2>0, <2>1, <2>2 DEF slot, client, obs, RunKeeps, TypeOK
  <2>4. Goes("top") /\ lpc[r] \notin Over /\ UNCHANGED <<runs, intr, client, cur>>
    BY <2>0, <2>1 DEF Over, Ends, slot
  <2>5. OwnInv'
    <3>1. UNCHANGED mine /\ lpc'[r] = "top"
          /\ \A q \in Runs \ {r} : lpc'[q] = lpc[q] /\ ask'[q] = ask[q]
      BY <1>0, <2>1
    <3>2. \A q \in Runs \ {r} : mine[q] # 0 => msg'[mine[q]].closed = msg[mine[q]].closed
      <4>1. ask[r] \in Users
        BY <2>1 DEF LoopInv, OwnInv
      <4>2. \A q \in Runs : mine[q] # 0 => mine[q] # ask[r] /\ mine[q] \in Ids
        BY <4>1 DEF LoopInv, OwnInv, Replies, Users
      <4> QED BY <2>1, <4>2 DEF LoopInv, TypeOK
    <3> QED BY <1>0, <2>0, <3>1, <3>2, OwnFrame
  <2> QED BY <1>1, <2>0, <2>3, <2>4, <2>5 DEF LoopInv
<1> QED BY <1>3, <1>4, <1>5, <1>6, <1>7, <1>8, <1>9, StepEffect

ClientStep(c) ==
  \/ \E k \in Kinds : PromptId(c, k)
  \/ "compaction" \in Kinds /\ \E a \in BOOLEAN : Summarize(c, a)
  \/ PromptStore(c) \/ PromptParts(c)
  \/ PromptJoin(c) \/ PromptStart(c) \/ PromptReturn(c)

(* What a client's step does to the messages: nothing, or it prepares or     *)
(* stores or completes one that is not an assistant message.                 *)
ClientWrites(c) ==
  /\ UNCHANGED <<seen, executed, missed, kept, cut, mine, ask, view, task, intr>>
  /\ \/ UNCHANGED <<msg, ids>>
     \/ \E i \in Ids, n \in Msgs :
          /\ msg' = [msg EXCEPT ![i] = n] /\ msg[i].role # "assistant" /\ n.role # "assistant"
          /\ msg[i].role = "user" => n.role = "user" /\ n.kind = msg[i].kind /\ n.parts
          /\ ids' = ids \/ (ids' = ids + 1 /\ i = ids + 1)
          /\ i <= ids'

LEMMA ClientEffect ==
  ASSUME LoopInv, NEW c \in Clients, ClientStep(c)
  PROVE  ClientWrites(c)
<1> USE DEF ClientWrites
<1>0. /\ msg \in [Ids -> Msgs] /\ ids \in Nat /\ cmsg[c] \in Ids0
      /\ Kinds \subseteq MsgKinds /\ \A i \in Ids : i \in Nat /\ (i > ids => msg[i].role = "none")
  BY PromptAssumption DEF LoopInv, TypeOK, ClientInv, Ids0, Ids, MsgKinds
<1>1. ASSUME NEW k \in Kinds, PromptId(c, k) PROVE ClientWrites(c)
  <2>1. ids < MaxMsg /\ ids' = ids + 1 /\ msg' = [msg EXCEPT ![ids + 1].kind = k]
        /\ UNCHANGED <<slot, turn, obs>>
    BY <1>1 DEF PromptId
  <2>2. ids + 1 \in Ids /\ msg[ids + 1].role = "none" /\ ids + 1 <= ids + 1
    BY <1>0, <2>1, NextId
  <2>3. PICK n : n = [msg[ids + 1] EXCEPT !.kind = k]
    OBVIOUS
  <2>4. n \in Msgs /\ n.role = "none" /\ msg' = [msg EXCEPT ![ids + 1] = n]
    BY <1>0, <2>1, <2>2, <2>3 DEF Msgs, MsgKinds
  <2> QED BY <2>1, <2>2, <2>4 DEF slot, turn, obs
<1>2. ASSUME NEW a \in BOOLEAN, Summarize(c, a) PROVE ClientWrites(c)
  <2>1. ids < MaxMsg /\ ids' = ids + 1 /\ msg' = [msg EXCEPT ![ids + 1] = User("compaction", a)]
        /\ UNCHANGED <<slot, turn, obs>>
    BY <1>2 DEF Summarize
  <2>2. ids + 1 \in Ids /\ msg[ids + 1].role = "none" /\ ids + 1 <= ids + 1
    BY <1>0, <2>1, NextId
  <2>3. PICK n \in Msgs : n = User("compaction", a) /\ n.role = "user"
    BY UserIs DEF MsgKinds
  <2> QED BY <2>1, <2>2, <2>3 DEF slot, turn, obs
<1>3. CASE PromptStore(c)
  <2>1. cmsg[c] \in Ids /\ cmsg[c] <= ids /\ msg[cmsg[c]].role = "none"
    BY <1>3 DEF PromptStore, LoopInv, ClientInv
  <2>2. msg[cmsg[c]].kind \in MsgKinds
    BY <1>0, <2>1 DEF Msgs, MsgKinds
  <2>3. PICK n \in Msgs : n = User(msg[cmsg[c]].kind, FALSE) /\ n.role = "user"
    BY <2>2, UserIs
  <2>4. msg' = [msg EXCEPT ![cmsg[c]] = n] /\ UNCHANGED <<ids, slot, turn, obs>>
    BY <1>3, <2>3 DEF PromptStore
  <2> QED BY <2>1, <2>3, <2>4 DEF slot, turn, obs
<1>4. CASE PromptParts(c)
  <2>1. cmsg[c] \in Users /\ cmsg[c] \in Ids /\ cmsg[c] <= ids /\ msg[cmsg[c]].role = "user"
    <3>1. cmsg[c] \in Users
      BY <1>4 DEF PromptParts, LoopInv, ClientInv
    <3> QED BY <1>0, <3>1 DEF Users
  <2>5. PICK m \in Msgs : m = msg[cmsg[c]]
    BY <1>0, <2>1
  <2>2. PICK n : n = [m EXCEPT !.parts = TRUE]
    OBVIOUS
  <2>3. n \in Msgs /\ n.role = "user" /\ n.kind = msg[cmsg[c]].kind /\ n.parts
    BY <2>1, <2>2, <2>5 DEF Msgs
  <2>4. msg' = [msg EXCEPT ![cmsg[c]] = n] /\ UNCHANGED <<ids, slot, turn, obs>>
    BY <1>4, <2>2, <2>5 DEF PromptParts
  <2> QED BY <2>1, <2>3, <2>4 DEF slot, turn, obs
<1>5. CASE PromptJoin(c) \/ PromptStart(c) \/ PromptReturn(c)
  BY <1>5 DEF PromptJoin, PromptStart, PromptReturn, slot, turn, obs
<1> QED BY <1>1, <1>2, <1>3, <1>4, <1>5 DEF ClientStep

LEMMA ClientKeeps ==
  ASSUME LoopInv, NEW c \in Clients, ClientStep(c)
  PROVE  Keeps
<1>1. msg \in [Ids -> Msgs]
  BY DEF LoopInv, TypeOK
<1>2. late \subseteq late'
  BY DEF ClientStep, PromptId, Summarize, PromptStore, PromptParts, PromptJoin, PromptStart,
         PromptReturn, obs
<1>3. \A i \in Ids : msg[i].role \in {"none", "user", "assistant"}
  BY <1>1 DEF Msgs
<1> QED BY <1>1, <1>2, <1>3, ClientEffect DEF ClientWrites, Keeps

(* c is at p, with its message at i, which is n now.                         *)
ClientPuts(c, i, n, p) ==
  /\ i \in Ids /\ n \in Msgs /\ p \in {"store", "parts", "join"}
  /\ msg' = [msg EXCEPT ![i] = n] /\ ids' >= ids /\ i <= ids' /\ ids' \in Nat
  /\ cpc' = [cpc EXCEPT ![c] = p] /\ cmsg' = [cmsg EXCEPT ![c] = i]
  /\ UNCHANGED <<crun, lpc, slot>>
  /\ p = "store" => n.role = "none" /\ i > ids
  /\ p # "store" => n.role = "user"
  /\ p = "join" => n.parts
  /\ i > ids \/ (i = cmsg[c] /\ cpc[c] \in {"store", "parts"})

LEMMA ClientStepKeeps ==
  ASSUME LoopInv, NEW c \in Clients, ClientStep(c)
  PROVE  LoopInv'
<1>0. /\ msg \in [Ids -> Msgs] /\ ids \in Ids0 /\ ids \in Nat
      /\ cpc \in [Clients -> {"ready", "store", "parts", "join", "await"} \cup Ends]
      /\ cmsg \in [Clients -> Ids0] /\ crun \in [Clients -> Runs0]
      /\ lpc \in [Runs -> Lpcs] /\ cur \in Runs0 /\ runs \in Runs0
      /\ \A i \in Ids : i \in Nat
  BY PromptAssumption DEF LoopInv, TypeOK, Ids0, Ids
<1>1. ClientWrites(c) /\ Keeps
  BY ClientEffect, ClientKeeps
<1>2. /\ msg' \in [Ids -> Msgs]
      /\ \A q \in Runs : mine[q] # 0 => mine[q] \in Replies /\ msg'[mine[q]] = msg[mine[q]]
  BY <1>0, <1>1 DEF ClientWrites, LoopInv, OwnInv, Replies
<1>3. ASSUME \A q \in Runs : lpc'[q] = lpc[q] \/ lpc'[q] = "top" PROVE OwnInv'
  <2>1. UNCHANGED <<mine, ask>>
    BY <1>1 DEF ClientWrites
  <2>2. \A q \in Runs : mine[q] # 0 => mine[q] \in Replies'
    BY <1>2 DEF Replies
  <2>3. \A q \in Runs : lpc[q] = "asked" => ask[q] \in Users'
    BY <1>1 DEF LoopInv, OwnInv, Keeps, Users
  <2>4. ASSUME NEW q \in Runs
        PROVE  /\ lpc'[q] \in Working \cup Settling => mine[q] # 0
               /\ lpc'[q] \in Working => ~msg'[mine[q]].closed
               /\ lpc'[q] \in Settling => msg'[mine[q]].closed
               /\ lpc'[q] = "asked" => ask[q] \in Users'
    BY <1>2, <1>3, <2>3 DEF LoopInv, OwnInv, Working, Settling
  <2> QED BY <2>1, <2>2, <2>4 DEF LoopInv, OwnInv
<1>4. ASSUME NEW i, NEW n, NEW p, ClientPuts(c, i, n, p)
      PROVE  ClientInv'
  <2> USE <1>4 DEF ClientPuts
  <2>1. \A j \in Ids : j > ids' => msg'[j].role = "none"
    BY <1>0, <1>4, PromptAssumption DEF LoopInv, ClientInv, Ids0
  <2>2. \A d \in Clients \ {c} : cpc[d] = "store" => cmsg[d] # i /\ cmsg[d] \in Ids /\ cmsg[d] <= ids'
    <3>1. \A d \in Clients \ {c} : cpc[d] = "store" => cmsg[d] <= ids /\ cmsg[d] \in Ids
      BY DEF LoopInv, ClientInv
    <3>2. i = cmsg[c] /\ cpc[c] \in {"store", "parts"} => \A d \in Clients \ {c} : cpc[d] = "store" => cmsg[d] # i
      <4>2. cpc[c] \notin {"ready", "store"} => cmsg[c] \in Users
        BY DEF LoopInv, ClientInv
      <4>3. \A d \in Clients : cpc[d] = "store" => msg[cmsg[d]].role = "none"
        BY DEF LoopInv, ClientInv
      <4>4. cpc[c] \notin {"ready", "store"} => \A d \in Clients : cpc[d] = "store" => cmsg[d] # cmsg[c]
        BY <4>2, <4>3 DEF Users
      <4>5. cpc[c] = "store" => \A d \in Clients \ {c} : cpc[d] = "store" => cmsg[d] # cmsg[c]
        BY DEF LoopInv, ClientInv
      <4> QED BY <4>4, <4>5
    <3> QED BY <1>0, <1>4, <3>1, <3>2, PromptAssumption DEF Ids0
  <2>3. \A d \in Clients \ {c} : cpc'[d] = cpc[d] /\ cmsg'[d] = cmsg[d] /\ crun'[d] = crun[d]
    BY <1>0, <1>4
  <2>4. cpc'[c] = p /\ cmsg'[c] = i /\ msg'[i] = n
    BY <1>0, <1>4
  <2>5. \A d \in Clients \ {c} : cpc[d] = "store" => msg'[cmsg[d]].role = "none"
    BY <1>0, <1>4, <2>2 DEF LoopInv, ClientInv
  <2>6. \A d \in Clients \ {c} : cpc[d] \notin {"ready", "store"} => cmsg[d] \in Users'
    BY <1>1 DEF LoopInv, ClientInv, Keeps, Users
  <2>7. \A d \in Clients \ {c} : cpc[d] \in {"join", "await"} => msg'[cmsg[d]].parts
    BY <1>1 DEF LoopInv, ClientInv, Keeps, Users
  <2>8. \A d \in Clients \ {c} : cpc[d] = "await" => crun[d] \in Runs /\ lpc'[crun[d]] # "none"
    BY <1>4 DEF LoopInv, ClientInv
  <2>9. \A d, e \in Clients : cpc'[d] = "store" /\ cpc'[e] = "store" /\ cmsg'[d] = cmsg'[e] => d = e
    BY <2>2, <2>3, <2>4 DEF LoopInv, ClientInv
  <2>10. ASSUME NEW d \in Clients
         PROVE  /\ cpc'[d] = "store" => cmsg'[d] \in Ids /\ cmsg'[d] <= ids' /\ msg'[cmsg'[d]].role = "none"
                /\ cpc'[d] \notin {"ready", "store"} => cmsg'[d] \in Users'
                /\ cpc'[d] \in {"join", "await"} => msg'[cmsg'[d]].parts
                /\ cpc'[d] = "await" => crun'[d] \in Runs /\ lpc'[crun'[d]] # "none"
    <3>1. CASE d = c
      BY <1>4, <2>4, <3>1 DEF Users
    <3>2. CASE d # c
      BY <2>2, <2>3, <2>5, <2>6, <2>7, <2>8, <3>2
    <3> QED BY <3>1, <3>2
  <2> QED BY <2>1, <2>9, <2>10 DEF ClientInv
<1>5. ASSUME NEW k \in Kinds, PromptId(c, k) PROVE LoopInv'
  <2>1. ids < MaxMsg /\ ids' = ids + 1 /\ msg' = [msg EXCEPT ![ids + 1].kind = k]
        /\ cpc' = [cpc EXCEPT ![c] = "store"] /\ cmsg' = [cmsg EXCEPT ![c] = ids + 1]
        /\ UNCHANGED <<slot, lpc, turn, crun, obs>>
    BY <1>5 DEF PromptId
  <2>2. ids + 1 \in Ids /\ ids + 1 \in Ids0 /\ msg[ids + 1].role = "none"
    BY <2>1, NextId
  <2>3. PICK n : n = [msg[ids + 1] EXCEPT !.kind = k]
    OBVIOUS
  <2>4. n \in Msgs /\ n.role = "none" /\ msg' = [msg EXCEPT ![ids + 1] = n]
    BY <1>0, <2>1, <2>2, <2>3, PromptAssumption DEF Msgs
  <2>5. ClientInv'
    <3>0. /\ ids' = ids + 1 /\ cpc' = [cpc EXCEPT ![c] = "store"]
          /\ cmsg' = [cmsg EXCEPT ![c] = ids + 1] /\ UNCHANGED <<slot, lpc, crun>>
      BY <2>1
    <3>1. ClientPuts(c, ids + 1, n, "store")
      BY <1>0, <2>2, <2>4, <3>0 DEF ClientPuts
    <3> QED BY <1>4, <3>1
  <2>6. TypeOK' /\ SlotInv'
    BY <1>0, <1>2, <2>1, <2>2 DEF LoopInv, TypeOK, SlotInv, slot, turn, obs
  <2> QED BY <1>3, <2>1, <2>5, <2>6 DEF LoopInv
<1>6. ASSUME NEW a \in BOOLEAN, Summarize(c, a) PROVE LoopInv'
  <2>1. PICK n \in Msgs : n = User("compaction", a) /\ n.role = "user"
    BY UserIs DEF MsgKinds
  <2>2. ids < MaxMsg /\ ids' = ids + 1 /\ msg' = [msg EXCEPT ![ids + 1] = n]
        /\ cpc' = [cpc EXCEPT ![c] = "parts"] /\ cmsg' = [cmsg EXCEPT ![c] = ids + 1]
        /\ UNCHANGED <<slot, lpc, turn, crun, obs>>
    BY <1>6, <2>1 DEF Summarize
  <2>3. ids + 1 \in Ids /\ ids + 1 \in Ids0
    BY <2>2, NextId
  <2>4. ClientInv'
    <3>1. ClientPuts(c, ids + 1, n, "parts")
      BY <1>0, <2>1, <2>2, <2>3 DEF ClientPuts
    <3> QED BY <1>4, <3>1
  <2>5. TypeOK' /\ SlotInv'
    BY <1>0, <1>2, <2>2, <2>3 DEF LoopInv, TypeOK, SlotInv, slot, turn, obs
  <2> QED BY <1>3, <2>2, <2>4, <2>5 DEF LoopInv
<1>7. CASE PromptStore(c)
  <2>1. cmsg[c] \in Ids /\ cmsg[c] <= ids
    BY <1>7 DEF PromptStore, LoopInv, ClientInv
  <2>2. msg[cmsg[c]].kind \in MsgKinds
    BY <1>0, <2>1 DEF Msgs, MsgKinds
  <2>3. PICK n \in Msgs : n = User(msg[cmsg[c]].kind, FALSE) /\ n.role = "user"
    BY <2>2, UserIs
  <2>4. msg' = [msg EXCEPT ![cmsg[c]] = n] /\ cpc' = [cpc EXCEPT ![c] = "parts"]
        /\ UNCHANGED <<ids, slot, lpc, turn, cmsg, crun, obs>>
    BY <1>7, <2>3 DEF PromptStore
  <2>5. ClientInv'
    <3>1. cmsg' = [cmsg EXCEPT ![c] = cmsg[c]]
      BY <1>0, <2>4
    <3>3. /\ msg' = [msg EXCEPT ![cmsg[c]] = n] /\ cpc' = [cpc EXCEPT ![c] = "parts"]
          /\ UNCHANGED <<ids, slot, lpc, crun>> /\ cpc[c] = "store"
      BY <1>7, <2>4 DEF PromptStore
    <3>4. n \in Msgs /\ n.role = "user"
      BY <2>3
    <3>2. ClientPuts(c, cmsg[c], n, "parts")
      BY <1>0, <2>1, <3>1, <3>3, <3>4 DEF ClientPuts
    <3> QED BY <1>4, <3>2
  <2>6. TypeOK' /\ SlotInv'
    BY <1>0, <1>2, <2>4 DEF LoopInv, TypeOK, SlotInv, slot, turn, obs
  <2> QED BY <1>3, <2>4, <2>5, <2>6 DEF LoopInv
<1>8. CASE PromptParts(c)
  <2>1. cmsg[c] \in Users /\ cmsg[c] \in Ids /\ cmsg[c] <= ids /\ msg[cmsg[c]].role = "user"
    <3>1. cmsg[c] \in Users
      BY <1>8 DEF PromptParts, LoopInv, ClientInv
    <3> QED BY <1>0, <3>1 DEF Users, LoopInv, ClientInv
  <2>2. PICK n : n = [msg[cmsg[c]] EXCEPT !.parts = TRUE]
    OBVIOUS
  <2>3. n \in Msgs /\ n.role = "user" /\ n.parts
    BY <1>0, <2>1, <2>2 DEF Msgs
  <2>4. msg' = [msg EXCEPT ![cmsg[c]] = n] /\ cpc' = [cpc EXCEPT ![c] = "join"]
        /\ UNCHANGED <<ids, slot, lpc, turn, cmsg, crun, obs>>
    BY <1>8, <2>2 DEF PromptParts
  <2>5. ClientInv'
    <3>1. cmsg' = [cmsg EXCEPT ![c] = cmsg[c]]
      BY <1>0, <2>4
    <3>3. /\ msg' = [msg EXCEPT ![cmsg[c]] = n] /\ cpc' = [cpc EXCEPT ![c] = "join"]
          /\ UNCHANGED <<ids, slot, lpc, crun>> /\ cpc[c] = "parts"
      BY <1>8, <2>4 DEF PromptParts
    <3>2. ClientPuts(c, cmsg[c], n, "join")
      BY <1>0, <2>1, <2>3, <3>1, <3>3 DEF ClientPuts
    <3> QED BY <1>4, <3>2
  <2>6. TypeOK' /\ SlotInv'
    BY <1>0, <1>2, <2>4 DEF LoopInv, TypeOK, SlotInv, slot, turn, obs
  <2> QED BY <1>3, <2>4, <2>5, <2>6 DEF LoopInv
<1>9. CASE PromptJoin(c)
  <2>1. cpc[c] = "join" /\ cur # 0 /\ crun' = [crun EXCEPT ![c] = cur] /\ cpc' = [cpc EXCEPT ![c] = "await"]
        /\ late' \subseteq late \cup {cmsg[c]}
        /\ UNCHANGED <<msg, ids, slot, lpc, turn, cmsg, seen, executed, missed, kept, cut>>
    BY <1>9 DEF PromptJoin
  <2>2. cur \in Runs /\ lpc[cur] # "none"
    BY <2>1, PromptAssumption DEF LoopInv, TypeOK, SlotInv, Runs, Runs0, Over
  <2>3. ClientInv'
    BY <1>0, <2>1, <2>2 DEF LoopInv, ClientInv, Users
  <2>4. TypeOK' /\ SlotInv'
    BY <1>0, <2>1 DEF LoopInv, TypeOK, SlotInv, slot, turn
  <2> QED BY <1>3, <2>1, <2>3, <2>4 DEF LoopInv
<1>10. CASE PromptStart(c)
  <2>1. cpc[c] = "join" /\ cur = 0 /\ runs < MaxRuns /\ runs' = runs + 1 /\ cur' = runs + 1
        /\ lpc' = [lpc EXCEPT ![runs + 1] = "top"] /\ crun' = [crun EXCEPT ![c] = runs + 1]
        /\ cpc' = [cpc EXCEPT ![c] = "await"] /\ UNCHANGED <<msg, ids, intr, turn, cmsg, obs>>
    BY <1>10 DEF PromptStart
  <2>2. runs + 1 \in Runs /\ runs + 1 \in Runs0 /\ runs \in Nat /\ runs + 1 \notin intr
    BY <1>0, <2>1, PromptAssumption DEF LoopInv, SlotInv, Runs, Runs0
  <2>3. "top" \in Lpcs /\ "top" # "none" /\ "top" \notin Over
    BY DEF Lpcs, Over, Ends
  <2>4. ClientInv'
    BY <1>0, <2>1, <2>2, <2>3 DEF LoopInv, ClientInv, Users
  <2>5. TypeOK'
    BY <1>0, <2>1, <2>2, <2>3 DEF LoopInv, TypeOK, turn, obs
  <2>6. SlotInv'
    BY <1>0, <2>1, <2>2, <2>3, PromptAssumption DEF LoopInv, SlotInv, Runs
  <2> QED BY <1>0, <1>3, <2>1, <2>4, <2>5, <2>6 DEF LoopInv
<1>11. CASE PromptReturn(c)
  <2>1. PICK e \in Ends : cpc' = [cpc EXCEPT ![c] = e] /\ cpc[c] = "await"
                          /\ UNCHANGED <<msg, ids, slot, lpc, turn, cmsg, crun, obs>>
    BY <1>11 DEF PromptReturn
  <2>2. e \notin {"ready", "store", "join", "await"}
    BY DEF Ends
  <2>3. ClientInv'
    BY <1>0, <2>1, <2>2 DEF LoopInv, ClientInv, Users
  <2>4. TypeOK' /\ SlotInv'
    BY <1>0, <2>1 DEF LoopInv, TypeOK, SlotInv, slot, turn, obs
  <2> QED BY <1>3, <2>1, <2>3, <2>4 DEF LoopInv
<1> QED BY <1>5, <1>6, <1>7, <1>8, <1>9, <1>10, <1>11 DEF ClientStep

LEMMA NextKeeps ==
  ASSUME LoopInv, [Next]_vars
  PROVE  LoopInv' /\ Keeps
<1>1. CASE \E c \in Clients : ClientStep(c)
  BY <1>1, ClientStepKeeps, ClientKeeps
<1>2. CASE Cancel
  <2>1. /\ intr' = intr \cup {cur} /\ cur # 0 /\ cur' = 0
        /\ UNCHANGED <<msg, ids, runs, lpc, turn, client, obs>>
    BY <1>2 DEF Cancel
  <2>2. cur \in Runs /\ cur \in 1 .. runs /\ 0 \in Runs0
    BY <2>1, PromptAssumption DEF LoopInv, TypeOK, SlotInv, Runs, Runs0
  <2>3. TypeOK' /\ SlotInv'
    BY <2>1, <2>2 DEF LoopInv, TypeOK, SlotInv, turn, client, obs
  <2>4. ClientInv' /\ OwnInv'
    BY <2>1 DEF LoopInv, ClientInv, OwnInv, Users, Replies, turn, client
  <2>5. Keeps
    BY <2>1 DEF Keeps, obs
  <2> QED BY <2>3, <2>4, <2>5 DEF LoopInv
<1>3. CASE \E r \in Runs : LoopStep(r)
  BY <1>3, RunStepKeeps, RunKeep DEF RunKeeps
<1>4. CASE UNCHANGED vars
  <2> USE <1>4 DEF vars, slot, turn, client, obs
  <2>1. TypeOK' /\ SlotInv'
    BY DEF LoopInv, TypeOK, SlotInv
  <2>2. ClientInv' /\ OwnInv'
    BY DEF LoopInv, ClientInv, OwnInv, Users, Replies
  <2> QED BY <2>1, <2>2 DEF LoopInv, Keeps
<1> QED BY <1>1, <1>2, <1>3, <1>4 DEF Next, ClientStep

LEMMA InitInv == Init => LoopInv
<1> SUFFICES ASSUME Init PROVE LoopInv
  OBVIOUS
<1> USE DEF Init
<1>1. NoMsg \in Msgs /\ NoMsg.role = "none"
  BY DEF NoMsg, Msgs
<1>2. "none" \in Lpcs /\ "none" \notin Working \cup Settling /\ 0 \in Runs0 /\ 0 \in Ids0
  BY PromptAssumption DEF Lpcs, Over, Ends, Working, Settling, Runs0, Ids0
<1>3. TypeOK
  BY <1>1, <1>2 DEF TypeOK
<1>4. SlotInv
  BY DEF SlotInv, Runs
<1>5. ClientInv
  BY <1>1 DEF ClientInv, Ids
<1>6. OwnInv
  BY <1>2 DEF OwnInv, Replies
<1> QED BY <1>3, <1>4, <1>5, <1>6 DEF LoopInv

(* One run holds the slot and was not interrupted; a client's message is a   *)
(* user message from the time it is stored; a run's assistant message is its *)
(* own, open while it works on it and complete when it settles the turn.     *)
(* (runLoop and createUserMessage of session/prompt.ts)                      *)
THEOREM LoopInvariant == Spec => []LoopInv
<1>1. Init => LoopInv
  BY InitInv
<1>2. LoopInv /\ [Next]_vars => LoopInv'
  BY NextKeeps
<1> QED BY <1>1, <1>2, PTL DEF Spec

(* Every variable of the prompt loop stays in its type.                      *)
THEOREM PromptTypeOK == Spec => []TypeOK
<1>1. LoopInv => TypeOK
  BY DEF LoopInv
<1> QED BY <1>1, LoopInvariant, PTL

-----------------------------------------------------------------------------
(* What a step does to how an answer finished, to a run and to a client *)

FinishStays ==
  \A a \in Ids : msg'[a].role = "assistant" =>
    \/ a \in Replies /\ msg'[a].finish = msg[a].finish
    \/ msg'[a].finish = "none"
    \/ \E r \in Runs : /\ mine[r] = a /\ lpc[r] \in Busy /\ a \in Replies
                       /\ lpc[r] \in Begun \/ msg'[a].finish = "tool-calls"

Decided == {"subtask", "compaction", "turn", "exitDone"}

RunStays(q) == lpc'[q] = lpc[q] /\ view'[q] = view[q] /\ mine'[q] = mine[q] /\ task'[q] = task[q]
RunWorks(q) == /\ lpc[q] \in Busy /\ lpc'[q] \in Busy
               /\ view'[q] = view[q] /\ mine'[q] = mine[q]
               /\ lpc'[q] \in Begun => lpc[q] \in Begun \/ view[q] \subseteq seen' \cup kept'
RunGoes(q)  == \/ RunStays(q)
               \/ lpc'[q] \notin Busy \cup Decided
               \/ RunWorks(q)
               \/ \E p \in Lpcs, s \in BOOLEAN : AnswerEff(q, p, s)
               \/ \E p \in {"exitDone"} \cup Choosing : LoopRead(q, p)

ClientGoes(c) ==
  Waits(c)' =>
    \/ Waits(c) /\ cmsg'[c] = cmsg[c]
    \/ cmsg'[c] \in late'
    \/ /\ cmsg'[c] = cmsg[c] /\ cmsg[c] \in Users
       /\ LoopExits \/ \E q \in Runs : lpc[q] = "exitDone" /\ cmsg[c] \in view[q]

LEMMA RunFinishStays ==
  ASSUME LoopInv, NEW r \in Runs, LoopStep(r)
  PROVE  FinishStays
<1> USE DEF FinishStays, Replies
<1>0. msg \in [Ids -> Msgs]
  BY DEF LoopInv, TypeOK
<1>1. CASE UNCHANGED msg
  BY <1>1
<1>2. ASSUME NEW n \in Msgs, NEW p \in Lpcs, WriteEff(r, n, p) PROVE FinishStays
  <2>1. /\ mine[r] \in Ids /\ msg' = [msg EXCEPT ![mine[r]] = n] /\ lpc[r] \in Busy
        /\ n.role = msg[mine[r]].role
        /\ n.finish = msg[mine[r]].finish \/ lpc[r] \in Begun \/ n.finish = "tool-calls"
    BY <1>2 DEF WriteEff, Amends
  <2> QED BY <1>0, <2>1
<1>3. ASSUME NEW u \in Msgs, AskEff(r, u) PROVE FinishStays
  <2>1. msg' = [msg EXCEPT ![ids + 1] = u] /\ u.role = "user"
    BY <1>3 DEF AskEff, Ask
  <2> QED BY <1>0, <2>1
<1>4. ASSUME NEW p \in Lpcs, NEW s \in BOOLEAN, AnswerEff(r, p, s) PROVE FinishStays
  <2>1. PICK m \in Msgs : m = Assistant(s) /\ m.finish = "none"
    BY AssistantIs
  <2>2. msg' = [msg EXCEPT ![ids + 1] = m]
    BY <1>4, <2>1 DEF AnswerEff, Answer
  <2> QED BY <1>0, <2>1, <2>2
<1>5. CASE AskParts(r)
  <2>1. PICK a \in Ids : a = ask[r] /\ msg[a].role = "user"
    BY <1>5 DEF AskParts, Active, LoopInv, OwnInv, Users
  <2>2. PICK n : n = [msg[a] EXCEPT !.parts = TRUE]
    OBVIOUS
  <2>3. n.role = "user"
    BY <1>0, <2>1, <2>2 DEF Msgs
  <2>4. msg' = [msg EXCEPT ![a] = n]
    BY <1>5, <2>1, <2>2 DEF AskParts
  <2> QED BY <1>0, <2>3, <2>4
<1>6. (\E p \in Lpcs : MoveEff(r, p)) \/ QuitEff(r) \/ (\E p \in {"exitDone"} \cup Choosing : LoopRead(r, p))
        => UNCHANGED msg
  BY DEF MoveEff, QuitEff, LoopRead
<1> QED BY <1>1, <1>2, <1>3, <1>4, <1>5, <1>6, StepEffect

LEMMA RunStepGoes ==
  ASSUME LoopInv, NEW r \in Runs, LoopStep(r), NEW q \in Runs
  PROVE  RunGoes(q)
<1> USE DEF RunGoes
<1>0. /\ lpc \in [Runs -> Lpcs] /\ mine \in [Runs -> Ids0]
      /\ view \in [Runs -> SUBSET Ids] /\ task \in [Runs -> Ids0]
  BY DEF LoopInv, TypeOK
<1>1. ASSUME NEW p \in Lpcs, MoveEff(r, p) PROVE RunGoes(q)
  <2>1. UNCHANGED <<view, mine, task>> /\ lpc' = [lpc EXCEPT ![r] = p]
        /\ p \notin Settling /\ (p \in Working => lpc[r] \in Working)
        /\ (p \in Begun => view[r] \subseteq seen' \cup kept') /\ p \notin Decided
    BY <1>1 DEF MoveEff, RunFrame, Choosing, Decided
  <2>2. CASE q # r
    BY <1>0, <2>1, <2>2 DEF RunStays
  <2>3. CASE q = r
    BY <1>0, <2>1, <2>3 DEF RunWorks, Busy
  <2> QED BY <2>2, <2>3
<1>2. ASSUME NEW n \in Msgs, NEW p \in Lpcs, WriteEff(r, n, p) PROVE RunGoes(q)
  <2>1. UNCHANGED <<view, mine, task>> /\ lpc' = [lpc EXCEPT ![r] = p] /\ lpc[r] \in Busy
        /\ (p \in Begun => lpc[r] \in Begun) /\ (p \in Busy \/ p \notin Busy \cup Decided)
    BY <1>2 DEF WriteEff, RunFrame, Decided, Busy, Working, Settling
  <2> QED BY <1>0, <2>1 DEF RunStays, RunWorks
<1>3. CASE QuitEff(r)
  <2>1. UNCHANGED <<view, mine, task>> /\ lpc' = [lpc EXCEPT ![r] = "cancelled"]
        /\ "cancelled" \notin Busy \cup Decided
    BY <1>3 DEF QuitEff, RunFrame, Decided, Busy, Working, Settling
  <2> QED BY <1>0, <2>1 DEF RunStays
<1>4. ASSUME NEW u \in Msgs, AskEff(r, u) PROVE RunGoes(q)
  <2>1. UNCHANGED <<view, mine, task>> /\ lpc' = [lpc EXCEPT ![r] = "asked"]
        /\ "asked" \notin Busy \cup Decided
    BY <1>4 DEF AskEff, Ask, Goto, Decided, Busy, Working, Settling
  <2> QED BY <1>0, <2>1 DEF RunStays
<1>5. ASSUME NEW p \in Lpcs, NEW s \in BOOLEAN, AnswerEff(r, p, s) PROVE RunGoes(q)
  <2>1. UNCHANGED <<view, task>> /\ lpc' = [lpc EXCEPT ![r] = p] /\ mine' = [mine EXCEPT ![r] = ids + 1]
    BY <1>5 DEF AnswerEff, Answer, Goto
  <2> QED BY <1>0, <1>5, <2>1 DEF RunStays
<1>6. ASSUME NEW p \in {"exitDone"} \cup Choosing, LoopRead(r, p) PROVE RunGoes(q)
  <2>1. CASE q # r
    BY <1>0, <1>6, <2>1 DEF LoopRead, Goto, RunStays
  <2>2. CASE q = r
    BY <1>6, <2>2
  <2> QED BY <2>1, <2>2
<1>7. CASE AskParts(r)
  <2>1. UNCHANGED <<view, mine, task>> /\ lpc' = [lpc EXCEPT ![r] = "top"]
        /\ "top" \notin Busy \cup Decided
    BY <1>7 DEF AskParts, Goto, Decided, Busy, Working, Settling
  <2> QED BY <1>0, <2>1 DEF RunStays
<1> QED BY <1>1, <1>2, <1>3, <1>4, <1>5, <1>6, <1>7, StepEffect

LEMMA RunStepClient ==
  ASSUME LoopInv, NEW r \in Runs, LoopStep(r), NEW c \in Clients
  PROVE  ClientGoes(c)
<1> SUFFICES ASSUME Waits(c)' PROVE ClientGoes(c)
  BY DEF ClientGoes
<1> USE DEF Waits
<1>0. lpc \in [Runs -> Lpcs] /\ UNCHANGED client
  <2>1. UNCHANGED client
    BY StepEffect DEF MoveEff, WriteEff, QuitEff, RunFrame, AskEff, Ask, AnswerEff, Answer, LoopRead, AskParts
  <2> QED BY <2>1 DEF LoopInv, TypeOK
<1>1. UNCHANGED <<cpc, cmsg, crun>>
  BY <1>0 DEF client
<1>2. CASE cpc[c] = "done"
  BY <1>1, <1>2 DEF ClientGoes
<1>3. CASE cpc[c] = "await" /\ lpc'[crun[c]] \in {"exitDone", "done"} /\ cpc[c] # "done"
  <2>1. cmsg[c] \in Users /\ crun[c] \in Runs
    BY <1>3 DEF LoopInv, ClientInv
  <2>2. CASE lpc[crun[c]] \in {"exitDone", "done"}
    BY <1>1, <1>3, <2>2 DEF ClientGoes
  <2>3. CASE lpc[crun[c]] \notin {"exitDone", "done"}
    <3>1. ASSUME NEW p \in {"exitDone"} \cup Choosing, LoopRead(r, p) PROVE LoopExits
      <4>1. lpc' = [lpc EXCEPT ![r] = p] /\ (p = "exitDone" => LoopExits)
        <5>1. ~LoopExits /\ Tasks # {} => p = msg[Max(Tasks)].kind
          BY <3>1 DEF LoopRead
        <5>2. Tasks # {} => msg[Max(Tasks)].kind \in MsgKinds
          <6>1. Tasks \in SUBSET Ids
            BY DEF Tasks, Users
          <6>2. Tasks # {} => Max(Tasks) \in Ids
            BY <6>1, NewestIs
          <6> QED BY <6>2 DEF LoopInv, TypeOK, Msgs, MsgKinds
        <5> QED BY <3>1, <5>1, <5>2 DEF LoopRead, Goto, MsgKinds
      <4>2. p = "exitDone"
        BY <1>0, <1>3, <2>1, <2>3, <4>1 DEF Choosing
      <4> QED BY <4>1, <4>2
    <3>2. ASSUME NEW p \in Lpcs, lpc' = [lpc EXCEPT ![r] = p] PROVE p \in {"exitDone", "done"} /\ r = crun[c]
      BY <1>0, <1>3, <2>1, <2>3, <3>2
    <3>3. ~(\E p \in Lpcs : MoveEff(r, p))
      BY <2>3, <3>2 DEF MoveEff
    <3>4. ~(\E n \in Msgs, p \in Lpcs : WriteEff(r, n, p))
      BY <3>2 DEF WriteEff, Working, Settling
    <3>5. ~QuitEff(r)
      BY <3>2 DEF QuitEff, Lpcs, Over, Ends
    <3>6. ~(\E u \in Msgs : AskEff(r, u))
      BY <3>2 DEF AskEff, Ask, Goto, Lpcs
    <3>7. ~(\E p \in Lpcs, s \in BOOLEAN : AnswerEff(r, p, s))
      BY <3>2 DEF AnswerEff, Answer, Goto, Working
    <3>8. ~AskParts(r)
      BY <3>2 DEF AskParts, Goto, Lpcs
    <3>9. LoopExits
      BY <3>1, <3>3, <3>4, <3>5, <3>6, <3>7, <3>8, StepEffect
    <3> QED BY <1>1, <2>1, <3>9 DEF ClientGoes
  <2> QED BY <2>2, <2>3
<1> QED BY <1>1, <1>2, <1>3

LEMMA ClientStepGoes ==
  ASSUME LoopInv, NEW c \in Clients, ClientStep(c)
  PROVE  FinishStays /\ (\A q \in Runs : RunGoes(q)) /\ \A d \in Clients : ClientGoes(d)
<1>0. /\ msg \in [Ids -> Msgs] /\ lpc \in [Runs -> Lpcs] /\ ClientWrites(c)
      /\ cpc \in [Clients -> {"ready", "store", "parts", "join", "await"} \cup Ends]
      /\ crun \in [Clients -> Runs0] /\ cmsg \in [Clients -> Ids0]
  BY ClientEffect DEF LoopInv, TypeOK
<1>1. FinishStays
  BY <1>0 DEF ClientWrites, FinishStays, Replies
<1>2. UNCHANGED <<view, mine, task>>
  BY <1>0 DEF ClientWrites
<1>3. ASSUME UNCHANGED lpc, NEW d \in Clients,
             Waits(d)' => (Waits(d) /\ cmsg'[d] = cmsg[d]) \/ cmsg'[d] \in late'
                          \/ (/\ cmsg'[d] = cmsg[d] /\ cmsg[d] \in Users
                              /\ \E q \in Runs : lpc[q] = "exitDone" /\ cmsg[d] \in view[q])
      PROVE  (\A q \in Runs : RunGoes(q)) /\ ClientGoes(d)
  BY <1>2, <1>3 DEF RunGoes, RunStays, ClientGoes
<1>4. \A d \in Clients : cpc[d] = "await" => crun[d] \in Runs
  BY DEF LoopInv, ClientInv
<1>5. ASSUME NEW p \in {"store", "parts", "join"}, cpc' = [cpc EXCEPT ![c] = p],
             \A d \in Clients \ {c} : cmsg'[d] = cmsg[d], UNCHANGED <<lpc, crun>>
      PROVE  (\A q \in Runs : RunGoes(q)) /\ \A d \in Clients : ClientGoes(d)
  <2>1. \A d \in Clients : Waits(d)' => Waits(d) /\ cmsg'[d] = cmsg[d]
    BY <1>0, <1>5 DEF Waits
  <2> QED BY <1>2, <1>5, <2>1 DEF RunGoes, RunStays, ClientGoes
<1>6. ASSUME NEW k \in Kinds, PromptId(c, k)
      PROVE  (\A q \in Runs : RunGoes(q)) /\ \A d \in Clients : ClientGoes(d)
  BY <1>0, <1>5, <1>6 DEF PromptId
<1>7. ASSUME NEW a \in BOOLEAN, Summarize(c, a)
      PROVE  (\A q \in Runs : RunGoes(q)) /\ \A d \in Clients : ClientGoes(d)
  BY <1>0, <1>5, <1>7 DEF Summarize
<1>8. CASE PromptStore(c)
  BY <1>0, <1>1, <1>5, <1>8 DEF PromptStore
<1>9. CASE PromptParts(c)
  BY <1>0, <1>1, <1>5, <1>9 DEF PromptParts
<1>10. CASE PromptJoin(c)
  <2>1. /\ cpc[c] = "join" /\ cur # 0 /\ crun' = [crun EXCEPT ![c] = cur]
        /\ cpc' = [cpc EXCEPT ![c] = "await"] /\ UNCHANGED <<lpc, cmsg>>
        /\ lpc[cur] = "exitDone" /\ cmsg[c] \notin view[cur] => cmsg[c] \in late'
    BY <1>10 DEF PromptJoin
  <2>2. cur \in Runs /\ lpc[cur] # "done" /\ cmsg[c] \in Users
    <3>1. cmsg[c] \in Users
      BY <2>1 DEF LoopInv, ClientInv
    <3> QED BY <2>1, <3>1, PromptAssumption DEF LoopInv, SlotInv, TypeOK, Runs, Runs0, Over, Ends
  <2>3. crun'[c] = cur /\ cpc'[c] = "await" /\ cmsg'[c] = cmsg[c]
    BY <1>0, <2>1
  <2>4. Waits(c)' => lpc[cur] = "exitDone"
    BY <2>1, <2>2, <2>3 DEF Waits
  <2>5. \A d \in Clients \ {c} : Waits(d)' => Waits(d) /\ cmsg'[d] = cmsg[d]
    BY <1>0, <2>1 DEF Waits
  <2> QED BY <1>1, <1>3, <2>1, <2>2, <2>3, <2>4, <2>5
<1>11. CASE PromptStart(c)
  <2>1. /\ cpc[c] = "join" /\ crun' = [crun EXCEPT ![c] = runs + 1] /\ runs < MaxRuns
        /\ cpc' = [cpc EXCEPT ![c] = "await"] /\ UNCHANGED cmsg
        /\ lpc' = [lpc EXCEPT ![runs + 1] = "top"]
    BY <1>11 DEF PromptStart
  <2>2. runs + 1 \in Runs /\ lpc[runs + 1] = "none"
    BY <2>1, PromptAssumption DEF LoopInv, SlotInv, TypeOK, Runs, Runs0
  <2>3. \A d \in Clients : Waits(d)' => Waits(d) /\ cmsg'[d] = cmsg[d]
    BY <1>0, <1>4, <2>1, <2>2 DEF Waits
  <2>4. "top" \notin Busy \cup Decided
    BY DEF Busy, Decided, Working, Settling
  <2> QED BY <1>0, <1>1, <1>2, <2>1, <2>2, <2>3, <2>4 DEF RunGoes, RunStays, ClientGoes
<1>12. CASE PromptReturn(c)
  <2>1. /\ cpc[c] = "await" /\ cpc' = [cpc EXCEPT ![c] = lpc[crun[c]]] /\ lpc[crun[c]] \in Ends
        /\ UNCHANGED <<lpc, cmsg, crun>>
    BY <1>12 DEF PromptReturn
  <2>2. \A d \in Clients : Waits(d)' => Waits(d) /\ cmsg'[d] = cmsg[d]
    BY <1>0, <2>1 DEF Waits, Ends
  <2> QED BY <1>1, <1>3, <2>1, <2>2
<1> QED BY <1>1, <1>6, <1>7, <1>8, <1>9, <1>10, <1>11, <1>12 DEF ClientStep

LEMMA NextGoes ==
  ASSUME LoopInv, [Next]_vars
  PROVE  FinishStays /\ (\A q \in Runs : RunGoes(q)) /\ \A c \in Clients : ClientGoes(c)
<1>1. CASE \E c \in Clients : ClientStep(c)
  BY <1>1, ClientStepGoes
<1>2. CASE \E r \in Runs : LoopStep(r)
  BY <1>2, RunFinishStays, RunStepGoes, RunStepClient
<1>3. CASE Cancel \/ UNCHANGED vars
  <2>1. UNCHANGED <<msg, lpc, view, mine, task, cpc, cmsg, crun>>
    BY <1>3 DEF Cancel, vars, turn, client
  <2> QED BY <2>1 DEF FinishStays, Replies, RunGoes, RunStays, ClientGoes, Waits
<1> QED BY <1>1, <1>2, <1>3 DEF Next, ClientStep

-----------------------------------------------------------------------------
(* Prompts are served *)

LEMMA HandledStays ==
  ASSUME LoopInv, Keeps, NEW u
  PROVE  (Handled(u) => Handled(u)') /\ (DealtWith(u) => DealtWith(u)')
<1>1. Handled(u) => Handled(u)'
  BY DEF Handled, Keeps, Users
<1> QED BY <1>1 DEF DealtWith, Keeps, Stored

(* The exit condition: every user message is older than an answer that ends  *)
(* the loop.                                                                 *)
LEMMA ExitIs ==
  ASSUME LoopInv, LoopExits
  PROVE  \E a \in Replies : /\ msg[a].finish \notin {"none", "tool-calls"}
                            /\ \A u \in Users : u < a
<1>1. Users \in SUBSET Ids /\ Replies \in SUBSET Ids
  BY DEF Users, Replies
<1>2. PICK a : a = LastAssistant
  OBVIOUS
<1>3. a \in Replies
  BY <1>1, <1>2, NewestIs DEF LoopExits, LastAssistant
<1>4. PICK n \in Ids0 : n = LastUser /\ \A u \in Users : u <= n
  BY <1>1, NewestIs DEF LastUser
<1>5. n < a /\ msg[a].finish \notin {"none", "tool-calls"}
  BY <1>2, <1>4 DEF LoopExits
<1>6. \A u \in Users : u < a
  BY <1>1, <1>3, <1>4, <1>5, IdsAre
<1> QED BY <1>3, <1>5, <1>6

LEMMA ReadExits ==
  ASSUME LoopInv, NEW r \in Runs, LoopRead(r, "exitDone")
  PROVE  LoopExits
<1>1. Tasks \in SUBSET Ids
  BY DEF Tasks, Users
<1>2. Tasks # {} => msg[Max(Tasks)].kind \in MsgKinds
  BY <1>1, NewestIs DEF LoopInv, TypeOK, Msgs, MsgKinds
<1> QED BY <1>2 DEF LoopRead, MsgKinds

LEMMA AnswerKeeps ==
  ASSUME LoopInv, AnswerInv, [Next]_vars
  PROVE  AnswerInv'
<1>0. /\ Keeps /\ FinishStays /\ (\A q \in Runs : RunGoes(q)) /\ (\A c \in Clients : ClientGoes(c))
      /\ ids \in Nat /\ \A i \in Ids : i \in Nat
  BY NextKeeps, NextGoes, PromptAssumption DEF LoopInv, TypeOK, Ids, Ids0
<1>1. Accounted \subseteq Accounted' /\ Accounted \cup late \subseteq (Accounted \cup late)'
  BY <1>0 DEF Accounted, Keeps
<1>2. LoopExits => \A u \in Users : u \in Accounted
  <2> SUFFICES ASSUME LoopExits, NEW u \in Users PROVE u \in Accounted
    OBVIOUS
  <2>1. PICK a \in Replies : msg[a].finish \notin {"none", "tool-calls"} /\ u < a
    BY ExitIs
  <2> QED BY <2>1 DEF AnswerInv, Users
<1>3. ASSUME NEW r \in Runs
      PROVE  /\ lpc'[r] \in Busy => \A u \in Ids : u < mine'[r] => u \in view'[r] \cup missed'
             /\ lpc'[r] \in Begun => view'[r] \subseteq seen' \cup kept'
             /\ lpc'[r] = "exitDone" => view'[r] \subseteq Stored' /\ view'[r] \cap Users' \subseteq Accounted'
  <2>1. /\ lpc[r] \in Busy => \A u \in Ids : u < mine[r] => u \in view[r] \cup missed
        /\ lpc[r] \in Begun => view[r] \subseteq seen \cup kept
        /\ lpc[r] = "exitDone" => view[r] \subseteq Stored /\ view[r] \cap Users \subseteq Accounted
    BY DEF AnswerInv, Busy, Begun
  <2>2. missed \subseteq missed' /\ seen \subseteq seen' /\ kept \subseteq kept'
    BY <1>0 DEF Keeps
  <2>3. Begun \subseteq Busy /\ "exitDone" \in Decided /\ "exitDone" \notin Busy
        /\ Busy \cap Decided = {}
    BY DEF Begun, Busy, Decided, Working, Settling
  <2>4. CASE RunStays(r)
    <3>1. Stored \subseteq Stored' /\ Stored \cap Users' \subseteq Users
      BY <1>0 DEF Keeps, Stored, Users
    <3> QED BY <1>1, <2>1, <2>2, <2>4, <3>1 DEF RunStays
  <2>5. CASE lpc'[r] \notin Busy \cup Decided
    BY <2>3, <2>5
  <2>6. CASE RunWorks(r)
    BY <2>1, <2>2, <2>3, <2>6 DEF RunWorks
  <2>7. ASSUME NEW p \in Lpcs, NEW s \in BOOLEAN, AnswerEff(r, p, s)
        PROVE  /\ lpc'[r] \in Busy \ Begun
               /\ \A u \in Ids : u < mine'[r] => u \in view'[r] \cup missed'
    <3>1. /\ lpc' = [lpc EXCEPT ![r] = p] /\ mine' = [mine EXCEPT ![r] = ids + 1] /\ UNCHANGED view
          /\ missed' = missed \cup {i \in Ids : i <= ids /\ i \notin view[r]} /\ p \in Working \ Begun
      BY <2>7 DEF AnswerEff, Answer, Goto
    <3>2. lpc'[r] = p /\ mine'[r] = ids + 1
      BY <3>1 DEF LoopInv, TypeOK
    <3> QED BY <1>0, <3>1, <3>2 DEF Busy
  <2>8. ASSUME NEW p \in {"exitDone"} \cup Choosing, LoopRead(r, p)
        PROVE  lpc'[r] \notin Busy /\ (lpc'[r] = "exitDone" => view'[r] \subseteq Stored' /\ Users' \subseteq Accounted')
    <3>1. lpc' = [lpc EXCEPT ![r] = p] /\ UNCHANGED <<msg, seen, missed, kept>>
          /\ (p = "exitDone" => LoopExits)
      BY <2>8, ReadExits DEF LoopRead, Goto, obs
    <3>2. lpc'[r] = p /\ p \notin Busy
      BY <3>1 DEF LoopInv, TypeOK, Choosing, Busy, Working, Settling
    <3>3. Users' = Users /\ Accounted' = Accounted /\ view'[r] \subseteq Stored'
      <4>1. view'[r] \subseteq Stored
        BY <2>8 DEF LoopRead, LoopInv, TypeOK
      <4> QED BY <3>1, <4>1 DEF Users, Accounted, Stored
    <3> QED BY <1>2, <3>1, <3>2, <3>3
  <2> QED BY <1>0, <2>3, <2>4, <2>5, <2>6, <2>7, <2>8 DEF RunGoes
<1>4. ASSUME NEW a \in Replies', msg'[a].finish \notin {"none", "tool-calls"}, NEW u \in Ids, u < a
      PROVE  u \in Accounted'
  <2>1. CASE a \in Replies /\ msg'[a].finish = msg[a].finish
    BY <1>1, <1>4, <2>1 DEF AnswerInv
  <2>2. CASE \E r \in Runs : mine[r] = a /\ lpc[r] \in Begun
    BY <1>1, <1>4, <2>2 DEF AnswerInv, Begun, Accounted, Working, Settling
  <2> QED BY <1>0, <1>4, <2>1, <2>2 DEF FinishStays, Replies
<1>5. ASSUME NEW c \in Clients, Waits(c)' PROVE cmsg'[c] \in (Accounted \cup late)'
  <2>1. Waits(c) => cmsg[c] \in Accounted \cup late
    BY DEF AnswerInv
  <2>2. \A q \in Runs : lpc[q] = "exitDone" => view[q] \cap Users \subseteq Accounted
    BY DEF AnswerInv
  <2> QED BY <1>0, <1>1, <1>2, <1>5, <2>1, <2>2 DEF ClientGoes
<1> QED BY <1>3, <1>4, <1>5 DEF AnswerInv, Busy, Begun

(* What a run reads has been dealt with, but for the task it chooses.        *)
LEMMA ReadTasks ==
  ASSUME LoopInv, TaskInv, NEW r \in Runs, NEW p \in {"exitDone"} \cup Choosing, LoopRead(r, p),
         p # "overflow", NEW u \in view'[r]
  PROVE  DealtWith(u) \/ (p \in {"subtask", "compaction"} /\ u = task'[r] /\ u \in Users)
<1>1. u \in Stored /\ u \in Ids /\ (msg[u].role = "user" => msg[u].parts)
  BY DEF LoopRead, LoopInv, TypeOK, Stored
<1>2. CASE msg[u].role # "user" \/ msg[u].kind = "text"
  BY <1>1, <1>2 DEF DealtWith
<1>3. CASE u \in Users /\ \E a \in Replies : msg[a].finish # "none" /\ u < a
  BY <1>1, <1>3 DEF TaskInv
<1>4. CASE u \in Users /\ msg[u].kind # "text" /\ ~\E a \in Replies : msg[a].finish # "none" /\ u < a
  <2>1. ~LoopExits
    BY <1>4, ExitIs
  <2>2. LastFinished \in Ids0 /\ (LastFinished # 0 => LastFinished \in Replies /\ msg[LastFinished].finish # "none")
    BY NewestIs DEF LastFinished, Replies
  <2>3. u > LastFinished
    <3>1. CASE LastFinished = 0
      BY <1>1, <3>1, IdsAre
    <3>2. CASE LastFinished # 0
      <4>1. LastFinished # u /\ ~(u < LastFinished)
        BY <1>4, <2>2, <3>2 DEF Users, Replies
      <4> QED BY <1>1, <2>2, <4>1, IdsAre
    <3> QED BY <3>1, <3>2
  <2>4. u \in Tasks /\ Tasks \in SUBSET Ids
    BY <1>1, <1>4, <2>3 DEF Tasks, Users
  <2>5. PICK n \in Tasks : n = Max(Tasks) /\ n = Newest(Tasks) /\ u <= n
    BY <2>4, NewestIs
  <2>6. p = msg[n].kind /\ task'[r] = n /\ n \in Users /\ msg[n].kind \in MsgKinds \ {"text"}
    <3>1. n \in Users /\ n \in Ids /\ msg[n].kind # "text"
      BY <2>5 DEF Tasks, Users
    <3>2. p = msg[n].kind /\ task'[r] = n
      BY <2>1, <2>4, <2>5 DEF LoopRead, LoopInv, TypeOK
    <3> QED BY <3>1, <3>2 DEF LoopInv, TypeOK, Msgs, MsgKinds
  <2>7. CASE u = n
    BY <1>4, <2>6, <2>7 DEF MsgKinds
  <2>8. CASE u # n
    <3>1. n > u
      BY <1>1, <2>5, <2>6, <2>8, IdsAre DEF Users, Ids0
    <3> QED BY <1>1, <2>6, <3>1 DEF DealtWith, Handled
  <2> QED BY <2>7, <2>8
<1> QED BY <1>1, <1>2, <1>3, <1>4 DEF Users

LEMMA TaskKeeps ==
  ASSUME LoopInv, TaskInv, [Next]_vars
  PROVE  TaskInv'
<1>0. /\ Keeps /\ FinishStays /\ (\A q \in Runs : RunGoes(q)) /\ (\A c \in Clients : ClientGoes(c))
      /\ ids \in Nat /\ \A i \in Ids : i \in Nat
  BY NextKeeps, NextGoes, PromptAssumption DEF LoopInv, TypeOK, Ids, Ids0
<1>1. /\ \A u : DealtWith(u) => DealtWith(u)'
      /\ late \subseteq late' /\ Users \subseteq Users' /\ Stored \subseteq Stored'
  BY <1>0, HandledStays DEF Keeps, Users, Stored
<1>2. LoopExits => \A u \in Users : DealtWith(u)
  <2> SUFFICES ASSUME LoopExits, NEW u \in Users PROVE DealtWith(u)
    OBVIOUS
  <2>1. PICK a \in Replies : msg[a].finish \notin {"none", "tool-calls"} /\ u < a
    BY ExitIs
  <2> QED BY <2>1 DEF TaskInv, Users
<1> DEFINE Chosen(u, r) == lpc[r] \in {"subtask", "compaction"} /\ u = task[r] /\ u \in Users
<1>3. ASSUME NEW r \in Runs
      PROVE  /\ lpc'[r] \in Busy => \A u \in Ids : u < mine'[r] => DealtWith(u)'
             /\ lpc'[r] \in Decided => \A u \in view'[r] : DealtWith(u)' \/ Chosen(u, r)'
  <2>1. /\ lpc[r] \in Busy => \A u \in Ids : u < mine[r] => DealtWith(u)
        /\ lpc[r] \in Decided => \A u \in view[r] : DealtWith(u) \/ Chosen(u, r)
    BY DEF TaskInv, Busy, Decided
  <2>2. Busy \cap Decided = {}
    BY DEF Busy, Decided, Working, Settling
  <2>3. CASE RunStays(r)
    BY <1>1, <2>1, <2>3 DEF RunStays
  <2>4. CASE lpc'[r] \notin Busy \cup Decided
    BY <2>4
  <2>5. CASE RunWorks(r)
    BY <1>1, <2>1, <2>2, <2>5 DEF RunWorks
  <2>6. ASSUME NEW p \in Lpcs, NEW s \in BOOLEAN, AnswerEff(r, p, s)
        PROVE  /\ lpc'[r] \in Busy
               /\ \A u \in Ids : u < mine'[r] => DealtWith(u)'
    <3>1. /\ lpc' = [lpc EXCEPT ![r] = p] /\ mine' = [mine EXCEPT ![r] = ids + 1]
          /\ missed' = missed \cup {i \in Ids : i <= ids /\ i \notin view[r]} /\ p \in Working
          /\ lpc[r] \in {"subtask", "compaction", "turn"} /\ (lpc[r] # "turn" => task[r] \in executed')
      BY <2>6 DEF AnswerEff, Answer, Goto
    <3>2. lpc'[r] = p /\ mine'[r] = ids + 1
      BY <3>1 DEF LoopInv, TypeOK
    <3>3. ASSUME NEW u \in Ids, u <= ids PROVE DealtWith(u)'
      <4>1. CASE u \notin view[r]
        BY <3>1, <3>3, <4>1 DEF DealtWith
      <4>2. CASE u \in view[r] /\ DealtWith(u)
        BY <1>1, <4>2
      <4>3. CASE Chosen(u, r)
        <5>1. u \in executed' /\ u \in Stored'
          BY <1>1, <3>1, <4>3 DEF Users, Stored
        <5> QED BY <5>1 DEF DealtWith, Handled
      <4> QED BY <2>1, <3>1, <4>1, <4>2, <4>3 DEF Decided
    <3> QED BY <1>0, <3>1, <3>2, <3>3 DEF Busy
  <2>7. ASSUME NEW p \in {"exitDone"} \cup Choosing, LoopRead(r, p)
        PROVE  /\ lpc'[r] \notin Busy
               /\ lpc'[r] \in Decided => \A u \in view'[r] : DealtWith(u)' \/ Chosen(u, r)'
    <3>1. lpc'[r] = p /\ p \notin Busy
      BY <2>7 DEF LoopRead, Goto, LoopInv, TypeOK, Choosing, Busy, Working, Settling
    <3>2. p # "overflow" => \A u \in view'[r] :
            DealtWith(u) \/ (p \in {"subtask", "compaction"} /\ u = task'[r] /\ u \in Users)
      BY <2>7, ReadTasks
    <3> QED BY <1>1, <3>1, <3>2 DEF Decided
  <2> QED BY <1>0, <2>2, <2>3, <2>4, <2>5, <2>6, <2>7 DEF RunGoes
<1>4. ASSUME NEW a \in Replies', msg'[a].finish # "none", NEW u \in Ids, u < a
      PROVE  DealtWith(u)'
  <2>1. CASE a \in Replies /\ msg'[a].finish = msg[a].finish
    BY <1>1, <1>4, <2>1 DEF TaskInv
  <2>2. CASE \E r \in Runs : mine[r] = a /\ lpc[r] \in Busy
    BY <1>1, <1>4, <2>2 DEF TaskInv, Busy
  <2> QED BY <1>0, <1>4, <2>1, <2>2 DEF FinishStays, Replies
<1>5. ASSUME NEW c \in Clients, Waits(c)' PROVE DealtWith(cmsg[c])' \/ cmsg'[c] \in late'
  <2>1. Waits(c) => DealtWith(cmsg[c]) \/ cmsg[c] \in late
    BY DEF TaskInv
  <2>2. \A q \in Runs : lpc[q] = "exitDone" => \A u \in view[q] : DealtWith(u)
    BY DEF TaskInv
  <2> QED BY <1>0, <1>1, <1>2, <1>5, <2>1, <2>2 DEF ClientGoes
<1> QED BY <1>3, <1>4, <1>5 DEF TaskInv, Busy, Decided

(* When prompt returns because the loop found nothing left to do, the        *)
(* client's message was in the input of a model call, and its task was       *)
(* executed or a newer one was, unless it was one of the three that the      *)
(* property names: stored behind the back of a run that took a higher id,    *)
(* joined to a run that had decided to end, or kept by a compaction.  Nothing *)
(* else loses a prompt, whatever else runs, fails or is cancelled.           *)
(* (LoopExits of runLoop, MessageV2.latest, ensureRunning)                   *)
THEOREM PromptsAreServed == Spec => []PromptServed
<1>1. Init => AnswerInv /\ TaskInv
  <2>1. "none" \notin Working \cup Settling \cup {"compactProcess", "compactSettle", "process", "turnSettle"}
    BY DEF Working, Settling
  <2>2. Init => Replies = {}
    BY DEF Init, Replies, NoMsg
  <2> QED BY <2>1, <2>2 DEF Init, AnswerInv, TaskInv, Waits
<1>2. LoopInv /\ (AnswerInv /\ TaskInv) /\ [Next]_vars => (AnswerInv /\ TaskInv)'
  BY AnswerKeeps, TaskKeeps
<1>3. LoopInv /\ AnswerInv /\ TaskInv => PromptServed
  <2> SUFFICES ASSUME LoopInv, AnswerInv, TaskInv, NEW c \in Clients, cpc[c] = "done"
               PROVE  /\ msg[cmsg[c]].kind # "compaction" => cmsg[c] \in seen \cup missed \cup late \cup kept
                      /\ msg[cmsg[c]].kind # "text" => Handled(cmsg[c]) \/ cmsg[c] \in missed \cup late
    BY DEF PromptServed
  <2>1. cmsg[c] \in Users
    BY DEF LoopInv, ClientInv
  <2>2. cmsg[c] \in Accounted \cup late /\ (DealtWith(cmsg[c]) \/ cmsg[c] \in late)
    BY DEF AnswerInv, TaskInv, Waits
  <2> QED BY <2>1, <2>2 DEF Accounted, DealtWith, Users
<1> QED BY <1>1, <1>2, <1>3, LoopInvariant, PTL DEF Spec

-----------------------------------------------------------------------------
(* Assistant messages are completed *)

(* A run that works on the assistant message i, or that was cut off where    *)
(* nothing completes it.                                                     *)
Keeper(r, i) == /\ mine[r] = i
                /\ \/ lpc[r] \in Working
                   \/ lpc[r] \in {"failed", "cancelled"} /\ cut[r] \in Unfinalized(lpc[r])

LEMMA RunStepOpen ==
  ASSUME LoopInv, OpenInv, NEW r \in Runs, LoopStep(r)
  PROVE  OpenInv'
<1> SUFFICES ASSUME NEW i \in Replies', ~msg'[i].closed PROVE \E q \in Runs : Keeper(q, i)'
  BY DEF OpenInv, Keeper
<1> USE DEF Keeper
<1>0. /\ msg \in [Ids -> Msgs] /\ lpc \in [Runs -> Lpcs] /\ mine \in [Runs -> Ids0] /\ i \in Ids
      /\ \A a \in Replies : ~msg[a].closed => \E q \in Runs : Keeper(q, a)
  BY DEF LoopInv, TypeOK, OpenInv, Replies
<1>1. ASSUME NEW p \in Lpcs, MoveEff(r, p) PROVE \E q \in Runs : Keeper(q, i)'
  <2>1. /\ UNCHANGED <<msg, mine>> /\ lpc' = [lpc EXCEPT ![r] = p] /\ \A q \in Runs \ {r} : cut'[q] = cut[q]
        /\ lpc[r] \notin Over
        /\ lpc[r] \in Working => p \in Working \/ (p = "failed" /\ cut'[r] \in Unfinalized("failed"))
    BY <1>1 DEF MoveEff, RunFrame
  <2>2. PICK q \in Runs : Keeper(q, i)
    BY <1>0, <2>1 DEF Replies
  <2>3. CASE q = r
    BY <1>0, <2>1, <2>2, <2>3 DEF Over, Ends
  <2>4. CASE q # r
    BY <1>0, <2>1, <2>2, <2>4
  <2> QED BY <2>3, <2>4
<1>2. ASSUME NEW n \in Msgs, NEW p \in Lpcs, WriteEff(r, n, p) PROVE \E q \in Runs : Keeper(q, i)'
  <2>1. /\ UNCHANGED mine /\ lpc' = [lpc EXCEPT ![r] = p] /\ \A q \in Runs \ {r} : cut'[q] = cut[q]
        /\ msg' = [msg EXCEPT ![mine[r]] = n] /\ mine[r] \in Ids /\ lpc[r] \in Busy
        /\ n.role = msg[mine[r]].role /\ (msg[mine[r]].closed => n.closed)
        /\ lpc[r] \in Working /\ p \notin Working =>
             n.closed \/ (p = "cancelled" /\ cut'[r] \in Unfinalized("cancelled"))
    BY <1>2 DEF WriteEff, RunFrame, Amends
  <2>2. i \in Replies /\ ~msg[i].closed /\ (i = mine[r] => ~n.closed)
    BY <1>0, <2>1 DEF Replies
  <2>3. PICK q \in Runs : Keeper(q, i)
    BY <1>0, <2>2
  <2>4. CASE q = r
    <3>1. lpc[r] \in Working
      BY <2>1, <2>3, <2>4 DEF Busy, Settling, Working
    <3> QED BY <1>0, <2>1, <2>2, <2>3, <2>4, <3>1
  <2>5. CASE q # r
    BY <1>0, <2>1, <2>3, <2>5
  <2> QED BY <2>4, <2>5
<1>3. CASE QuitEff(r)
  <2>1. /\ UNCHANGED <<msg, mine>> /\ lpc' = [lpc EXCEPT ![r] = "cancelled"]
        /\ \A q \in Runs \ {r} : cut'[q] = cut[q]
        /\ lpc[r] \notin Busy \cup Over
    BY <1>3 DEF QuitEff, RunFrame
  <2>2. PICK q \in Runs : Keeper(q, i)
    BY <1>0, <2>1 DEF Replies
  <2>3. q # r
    BY <2>1, <2>2 DEF Busy, Over, Ends
  <2> QED BY <1>0, <2>1, <2>2, <2>3
<1>4. ASSUME NEW u \in Msgs, AskEff(r, u) PROVE \E q \in Runs : Keeper(q, i)'
  <2>1. /\ msg' = [msg EXCEPT ![ids + 1] = u] /\ u.role = "user" /\ UNCHANGED <<mine, cut>>
        /\ lpc' = [lpc EXCEPT ![r] = "asked"] /\ lpc[r] \in Settling \cup {"overflow"}
    BY <1>4 DEF AskEff, Ask, Goto, obs
  <2>2. i \in Replies /\ ~msg[i].closed
    BY <1>0, <2>1 DEF Replies
  <2>3. PICK q \in Runs : Keeper(q, i)
    BY <1>0, <2>2
  <2>4. q # r
    BY <2>1, <2>3 DEF Settling, Working
  <2> QED BY <1>0, <2>1, <2>3, <2>4
<1>5. ASSUME NEW p \in Lpcs, NEW s \in BOOLEAN, AnswerEff(r, p, s) PROVE \E q \in Runs : Keeper(q, i)'
  <2>1. PICK m \in Msgs : m = Assistant(s)
    BY AssistantIs
  <2>2. /\ msg' = [msg EXCEPT ![ids + 1] = m] /\ mine' = [mine EXCEPT ![r] = ids + 1] /\ UNCHANGED cut
        /\ lpc' = [lpc EXCEPT ![r] = p] /\ p \in Working /\ lpc[r] \in {"subtask", "compaction", "turn"}
    BY <1>5, <2>1 DEF AnswerEff, Answer, Goto
  <2>3. CASE i = ids + 1
    BY <1>0, <2>2, <2>3
  <2>4. CASE i # ids + 1
    <3>1. i \in Replies /\ ~msg[i].closed
      BY <1>0, <2>2, <2>4 DEF Replies
    <3>2. PICK q \in Runs : Keeper(q, i)
      BY <1>0, <3>1
    <3>3. q # r
      BY <2>2, <3>2 DEF Working
    <3> QED BY <1>0, <2>2, <3>2, <3>3
  <2> QED BY <2>3, <2>4
<1>6. ASSUME NEW p \in {"exitDone"} \cup Choosing, LoopRead(r, p) PROVE \E q \in Runs : Keeper(q, i)'
  <2>1. UNCHANGED <<msg, mine, cut>> /\ lpc' = [lpc EXCEPT ![r] = p] /\ lpc[r] = "top"
    BY <1>6 DEF LoopRead, Active, Goto, obs
  <2>2. PICK q \in Runs : Keeper(q, i)
    BY <1>0, <2>1 DEF Replies
  <2>3. q # r
    BY <2>1, <2>2 DEF Working
  <2> QED BY <1>0, <2>1, <2>2, <2>3
<1>7. CASE AskParts(r)
  <2>1. PICK a \in Ids : a = ask[r] /\ msg[a].role = "user"
    BY <1>7 DEF AskParts, Active, LoopInv, OwnInv, Users
  <2>2. PICK n : n = [msg[a] EXCEPT !.parts = TRUE]
    OBVIOUS
  <2>3. n.role = "user"
    BY <1>0, <2>1, <2>2 DEF Msgs
  <2>4. msg' = [msg EXCEPT ![a] = n] /\ UNCHANGED <<mine, cut>> /\ lpc' = [lpc EXCEPT ![r] = "top"]
        /\ lpc[r] = "asked"
    BY <1>7, <2>1, <2>2 DEF AskParts, Active, Goto, obs
  <2>5. i \in Replies /\ ~msg[i].closed
    BY <1>0, <2>3, <2>4 DEF Replies
  <2>6. PICK q \in Runs : Keeper(q, i)
    BY <1>0, <2>5
  <2>7. q # r
    BY <2>4, <2>6 DEF Working
  <2> QED BY <1>0, <2>4, <2>6, <2>7
<1> QED BY <1>1, <1>2, <1>3, <1>4, <1>5, <1>6, <1>7, StepEffect

LEMMA NextOpen ==
  ASSUME LoopInv, OpenInv, [Next]_vars
  PROVE  OpenInv'
<1>1. CASE \E r \in Runs : LoopStep(r)
  BY <1>1, RunStepOpen
<1>2. ASSUME NEW c \in Clients, ClientStep(c) PROVE OpenInv'
  <2>1. ClientWrites(c) /\ msg \in [Ids -> Msgs]
    BY <1>2, ClientEffect DEF LoopInv, TypeOK
  <2>2. \A i \in Replies' : i \in Replies /\ msg'[i] = msg[i]
    BY <2>1 DEF ClientWrites, Replies
  <2>3. \A q \in Runs : lpc'[q] = lpc[q] \/ lpc[q] = "none"
    <3>1. UNCHANGED lpc \/ PromptStart(c)
      BY <1>2 DEF ClientStep, PromptId, Summarize, PromptStore, PromptParts, PromptJoin, PromptReturn
    <3>2. PromptStart(c) => lpc' = [lpc EXCEPT ![runs + 1] = "top"] /\ lpc[runs + 1] = "none"
      BY PromptAssumption DEF PromptStart, LoopInv, TypeOK, SlotInv, Runs, Runs0
    <3> QED BY <3>1, <3>2 DEF LoopInv, TypeOK
  <2>4. "none" \notin Working \cup {"failed", "cancelled"}
    BY DEF Working
  <2> QED BY <2>1, <2>2, <2>3, <2>4 DEF OpenInv, ClientWrites
<1>3. CASE Cancel \/ UNCHANGED vars
  <2>1. UNCHANGED <<msg, lpc, mine, cut>>
    BY <1>3 DEF Cancel, vars, turn, obs
  <2> QED BY <2>1 DEF OpenInv, Replies
<1> QED BY <1>1, <1>2, <1>3 DEF Next, ClientStep

(* An assistant message without a completion time is being worked on by its  *)
(* run, or that run failed or was interrupted at one of the places listed in *)
(* Unfinalized, where no finalizer of the code completes it.                 *)
(* (finalizeInterruptedAssistant, handleSubtask, cleanup of processor.ts)    *)
THEOREM AnswersAreClosed == Spec => []AssistantsClosed
<1>1. Init => OpenInv
  BY DEF Init, OpenInv, Replies, NoMsg
<1>2. LoopInv /\ OpenInv /\ [Next]_vars => OpenInv'
  BY NextOpen
<1>3. OpenInv => AssistantsClosed
  BY DEF OpenInv, AssistantsClosed, Working, Ends
<1> QED BY <1>1, <1>2, <1>3, LoopInvariant, PTL DEF Spec

(* Once it has one, only its own run writes to it, while it settles what     *)
(* came of the turn, and then only how it finished: no finalizer, no later   *)
(* run and no client does.  (runLoop after handle.process; compaction.process) *)
THEOREM ClosedIsFinal == Spec => ClosedStays
<1>1. ASSUME LoopInv, [Next]_vars, NEW i \in Replies, msg[i].closed
      PROVE  msg'[i] = msg[i] \/ SettleWrite(i)
  <2>0. msg \in [Ids -> Msgs] /\ i \in Ids /\ msg[i].role = "assistant"
    BY <1>1 DEF LoopInv, TypeOK, Replies
  <2>1. ASSUME NEW c \in Clients, ClientStep(c) PROVE msg'[i] = msg[i]
    BY <1>1, <2>0, <2>1, ClientEffect DEF ClientWrites
  <2>2. ASSUME NEW r \in Runs, LoopStep(r) PROVE msg'[i] = msg[i] \/ SettleWrite(i)
    <3>1. ASSUME NEW n \in Msgs, NEW p \in Lpcs, WriteEff(r, n, p)
          PROVE  msg'[i] = msg[i] \/ SettleWrite(i)
      BY <1>1, <2>0, <3>1 DEF WriteEff
    <3>2. ASSUME NEW m \in Msgs, ids < MaxMsg, msg' = [msg EXCEPT ![ids + 1] = m]
          PROVE  msg'[i] = msg[i]
      BY <1>1, <2>0, <3>2, NextId
    <3>3. (\E u \in Msgs : AskEff(r, u)) => msg'[i] = msg[i]
      BY <3>2 DEF AskEff, Ask
    <3>4. ASSUME NEW p \in Lpcs, NEW s \in BOOLEAN, AnswerEff(r, p, s) PROVE msg'[i] = msg[i]
      BY <3>2, <3>4, AssistantIs DEF AnswerEff, Answer
    <3>5. AskParts(r) => msg'[i] = msg[i]
      BY <1>1, <2>0 DEF AskParts, Active, LoopInv, OwnInv, Users
    <3>6. (\E p \in Lpcs : MoveEff(r, p)) \/ QuitEff(r)
            \/ (\E p \in {"exitDone"} \cup Choosing : LoopRead(r, p)) => msg'[i] = msg[i]
      BY DEF MoveEff, QuitEff, LoopRead
    <3> QED BY <1>1, <2>2, <3>1, <3>3, <3>4, <3>5, <3>6, StepEffect
  <2>3. Cancel \/ UNCHANGED vars => msg'[i] = msg[i]
    BY DEF Cancel, vars
  <2> QED BY <1>1, <2>1, <2>2, <2>3 DEF Next, ClientStep
<1>2. LoopInv /\ [Next]_vars => Settled
  BY <1>1 DEF Settled
<1> QED BY <1>2, LoopInvariant, PTL DEF Spec, ClosedStays

=============================================================================
