----------------------------- MODULE FlockProofs -----------------------------
(***************************************************************************)
(* That Flock keeps mutual exclusion, for any number of processes and any  *)
(* number of crashes of lock owners.                                       *)
(***************************************************************************)
EXTENDS Flock, TLAPS

(* Every place the code may be sent to is one of the stages.                 *)
LEMMA StageType ==
  ASSUME pc \in [Procs -> Stages], NEW p \in Procs,
         NEW s \in Stages, GoTo(p, s)
  PROVE  pc' \in [Procs -> Stages]
BY DEF GoTo

(* Each step of flock.ts sends its process to a stage.                       *)
LEMMA NextStages ==
  ASSUME pc \in [Procs -> Stages], [Next]_vars
  PROVE  pc' \in [Procs -> Stages]
<1> DEFINE Goes(p) == \E s \in Stages : GoTo(p, s)
<1> USE DEF Stages, Live, Waiting, Breaking, Writing, Holding, Over
<1>1. ASSUME NEW p \in Procs, Start(p) \/ Step(p) \/ GiveUp(p) \/ Crash(p)
      PROVE  Goes(p)
  <2>1. CASE Start(p) \/ GiveUp(p) \/ Crash(p)
    BY <2>1 DEF Start, GiveUp, Crash
  <2>2. CASE Mkdir(p) \/ Claim(p) \/ RmBreaker(p)
    BY <2>2 DEF Mkdir, Claim, RmBreaker
  <2>3. CASE StatHb(p)
    BY <2>3 DEF StatHb, Verdict
  <2>4. CASE StatDir(p)
    BY <2>4 DEF StatDir, Verdict
  <2>5. CASE StatBreaker(p) \/ Unclaim(p)
    BY <2>5 DEF StatBreaker, Unclaim
  <2>6. CASE Rm(p) \/ Mkdir2(p) \/ WriteHb(p)
    BY <2>6 DEF Rm, Mkdir2, WriteHb
  <2>7. CASE WriteMeta(p) \/ Compromised(p) \/ BodyEnds(p)
    BY <2>7 DEF WriteMeta, Compromised, BodyEnds
  <2>8. CASE Release(p) \/ RmOwn(p)
    BY <2>8 DEF Release, RmOwn
  <2> QED BY <1>1, <2>1, <2>2, <2>3, <2>4, <2>5, <2>6, <2>7, <2>8 DEF Step
<1>2. ASSUME NEW p \in Procs, Goes(p) PROVE pc' \in [Procs -> Stages]
  <2>1. PICK s \in Stages : GoTo(p, s)
    BY <1>2
  <2> QED BY <2>1, StageType
<1>3. CASE (\E p \in Procs : Beat(p)) \/ AgeLock \/ AgeBreaker \/ UNCHANGED vars
  BY <1>3 DEF Beat, AgeLock, AgeBreaker, vars
<1> HIDE DEF Goes
<1> QED BY <1>1, <1>2, <1>3 DEF Next

(* What the steps leave on disk.                                             *)
LEMMA NextDisk ==
  ASSUME DiskOK, [Next]_vars PROVE DiskOK'
<1> USE FlockAssumption DEF DiskOK, lock, brk
<1>1. ASSUME NEW p \in Procs, Start(p) \/ GiveUp(p) \/ BodyEnds(p) \/ Release(p) \/ Crash(p)
      PROVE  DiskOK'
  BY <1>1 DEF Start, GiveUp, BodyEnds, Release, Crash
<1>2. ASSUME NEW p \in Procs, Mkdir(p) \/ Mkdir2(p) PROVE DiskOK'
  <2>1. CASE MakeDir(p) /\ UNCHANGED brk
    BY <2>1 DEF MakeDir
  <2>2. CASE UNCHANGED lock /\ UNCHANGED brk
    BY <2>2
  <2> QED BY <1>2, <2>1, <2>2 DEF Mkdir, Mkdir2
<1>3. ASSUME NEW p \in Procs, StatHb(p) \/ StatDir(p) \/ StatBreaker(p) PROVE DiskOK'
  BY <1>3 DEF StatHb, StatDir, StatBreaker
<1>4. ASSUME NEW p \in Procs, Claim(p) \/ RmBreaker(p) \/ Unclaim(p) PROVE DiskOK'
  <2>1. CASE MakeBreaker(p) /\ UNCHANGED lock
    BY <2>1 DEF MakeBreaker
  <2>2. CASE RemoveBreaker /\ UNCHANGED lock
    BY <2>2 DEF RemoveBreaker
  <2>3. CASE UNCHANGED lock /\ UNCHANGED brk
    BY <2>3
  <2> QED BY <1>4, <2>1, <2>2, <2>3 DEF Claim, RmBreaker, Unclaim
<1>5. ASSUME NEW p \in Procs, Rm(p) \/ Compromised(p) \/ RmOwn(p) PROVE DiskOK'
  <2>1. RemoveDir /\ UNCHANGED brk
    BY <1>5 DEF Rm, Compromised, RmOwn
  <2> QED BY <2>1 DEF RemoveDir
<1>6. ASSUME NEW p \in Procs, WriteHb(p) PROVE DiskOK'
  BY <1>6 DEF WriteHb
<1>7. ASSUME NEW p \in Procs, WriteMeta(p) PROVE DiskOK'
  BY <1>7 DEF WriteMeta
<1>8. ASSUME NEW p \in Procs, Beat(p) PROVE DiskOK'
  BY <1>8 DEF Beat
<1>9. CASE AgeLock
  BY <1>9 DEF AgeLock
<1>10. CASE AgeBreaker
  BY <1>10 DEF AgeBreaker
<1>11. CASE UNCHANGED vars
  BY <1>11 DEF vars
<1> QED BY <1>1, <1>2, <1>3, <1>4, <1>5, <1>6, <1>7, <1>8, <1>9, <1>10, <1>11 DEF Next, Step
(* The type invariant is inductive by itself.                                *)
LEMMA TypeInductive == TypeOK /\ [Next]_vars => TypeOK'
<1> SUFFICES ASSUME TypeOK, [Next]_vars PROVE TypeOK'
  OBVIOUS
<1>1. pc' \in [Procs -> Stages] /\ DiskOK'
  BY NextStages, NextDisk DEF TypeOK
<1>2. late' \in BOOLEAN /\ crashes' \in 0 .. MaxCrashes
  <2> USE FlockAssumption DEF TypeOK
  <2>1. CASE \E p \in Procs : Crash(p)
    BY <2>1 DEF Crash
  <2>2. CASE AgeLock \/ AgeBreaker
    BY <2>2 DEF AgeLock, AgeBreaker
  <2>3. CASE UNCHANGED <<crashes, late>>
    BY <2>3
  <2> QED BY <2>1, <2>2, <2>3 DEF Next, vars, Start, Step, GiveUp, Beat, Mkdir, StatHb, StatDir,
        Claim, StatBreaker, RmBreaker, Rm, Mkdir2, Unclaim, WriteHb, WriteMeta, Compromised,
        BodyEnds, Release, RmOwn
<1> QED BY <1>1, <1>2 DEF TypeOK

(* TypeOK holds in every reachable state of the lock protocol.               *)
THEOREM FlockTypeOK == Spec => []TypeOK
<1>1. Init => TypeOK
  <2> SUFFICES ASSUME Init PROVE TypeOK
    OBVIOUS
  <2>1. pc \in [Procs -> Stages]
    BY DEF Init, Stages
  <2>2. DiskOK
    BY DEF Init, DiskOK
  <2>3. late \in BOOLEAN
    BY DEF Init
  <2>4. crashes \in 0 .. MaxCrashes
    <3>1. crashes = 0 /\ MaxCrashes \in Nat
      BY FlockAssumption DEF Init
    <3> QED BY <3>1
  <2> QED BY <2>1, <2>2, <2>3, <2>4 DEF TypeOK
<1> QED BY <1>1, TypeInductive, PTL DEF Spec

(* A step that leaves the disk alone and sends p to a stage where it has no  *)
(* claim on it keeps the invariant.                                          *)
LEMMA InvMove ==
  ASSUME TypeOK, ~bstale, \A q \in Procs : ProcInv(q), NEW p \in Procs, NEW s \in Stages,
         GoTo(p, s), UNCHANGED <<lock, brk>>,
         s \in Waiting \cup Over /\ s # "rmBreaker"
  PROVE  ~bstale' /\ \A q \in Procs : ProcInv(q)'
<1> SUFFICES ASSUME NEW q \in Procs PROVE ProcInv(q)'
  BY DEF brk
<1> USE DEF TypeOK, GoTo, lock, brk
<1>1. CASE q = p
  BY <1>1 DEF ProcInv, InCharge, AtBreaker, Waiting, Over, Breaking, Writing, Holding
<1>2. CASE q # p
  <2>1. pc'[q] = pc[q]
    BY <1>2
  <2> QED BY <2>1 DEF ProcInv, InCharge, AtBreaker
<1> QED BY <1>1, <1>2

(* A step of p that leaves the others where they are keeps what the          *)
(* invariant says of them, when the disk that it changes is not theirs.      *)
LEMMA InvOthers ==
  ASSUME TypeOK, \A r \in Procs : ProcInv(r), NEW p \in Procs, NEW q \in Procs, q # p,
         NEW s \in Stages, GoTo(p, s),
         UNCHANGED lock \/ (~InCharge(q) /\ (pc[q] = "rm" => stale')),
         UNCHANGED brk \/ ~AtBreaker(q)
  PROVE  ProcInv(q)'
<1>1. pc'[q] = pc[q] /\ ProcInv(q)
  BY DEF GoTo, TypeOK
<1>2. UNCHANGED lock => ProcInv(q)'
  <2> SUFFICES ASSUME UNCHANGED lock PROVE ProcInv(q)'
    OBVIOUS
  <2> QED BY <1>1 DEF ProcInv, InCharge, AtBreaker, lock, brk
<1>3. ~InCharge(q) /\ (pc[q] = "rm" => stale') => ProcInv(q)'
  BY <1>1 DEF ProcInv, InCharge, AtBreaker, brk, Writing, Holding
<1> QED BY <1>2, <1>3

(* FlockInv is inductive when the heartbeat works.                           *)
LEMMA InvStep ==
  ASSUME TypeOK, Heartbeat, ~late, ~late', ~bstale, \A q \in Procs : ProcInv(q), [Next]_vars
  PROVE  ~bstale' /\ \A q \in Procs : ProcInv(q)'
<1> DEFINE Goal == ~bstale' /\ \A q \in Procs : ProcInv(q)'
<1> USE DEF Stages, Live, Waiting, Breaking, Writing, Holding, Over
<1>1. ASSUME NEW p \in Procs, Start(p) \/ GiveUp(p) \/ Crash(p) \/ StatBreaker(p) PROVE Goal
  <2>1. CASE Start(p)
    BY <2>1, InvMove DEF Start
  <2>2. CASE GiveUp(p)
    BY <2>2, InvMove DEF GiveUp
  <2>3. CASE Crash(p)
    BY <2>3, InvMove DEF Crash
  <2>4. CASE StatBreaker(p)
    BY <2>4, InvMove DEF StatBreaker
  <2> QED BY <1>1, <2>1, <2>2, <2>3, <2>4
<1>2. ASSUME NEW p \in Procs, Mkdir(p) PROVE Goal
  <2>1. CASE dir = None
    <3>1. MakeDir(p) /\ GoTo(p, "writeHb") /\ UNCHANGED brk
      BY <1>2, <2>1 DEF Mkdir
    <3>2. ProcInv(p)'
      BY <3>1 DEF ProcInv, InCharge, AtBreaker, MakeDir, GoTo, TypeOK
    <3>3. ASSUME NEW q \in Procs, q # p PROVE ProcInv(q)'
      <4>1. ~InCharge(q) /\ pc[q] # "rm"
        BY <2>1, FlockAssumption DEF ProcInv, TypeOK, DiskOK
      <4> QED BY <3>1, <3>3, <4>1, InvOthers
    <3> QED BY <3>1, <3>2, <3>3 DEF brk
  <2>2. CASE dir # None
    <3>1. GoTo(p, "statHb") /\ UNCHANGED <<lock, brk>>
      BY <1>2, <2>2 DEF Mkdir
    <3> QED BY <3>1, InvMove
  <2> QED BY <2>1, <2>2
<1> HIDE DEF Waiting, Breaking, Writing, Holding, Over, Live, Stages
<1>3. ASSUME NEW p \in Procs, StatHb(p) \/ StatDir(p) PROVE Goal
  <2>1. UNCHANGED <<lock, brk>>
    BY <1>3 DEF StatHb, StatDir
  <2>2. CASE ~AtBreaker(p)
    <3>1. \E s \in {"claim", "mkdir", "statDir"} : GoTo(p, s)
      BY <1>3, <2>2 DEF StatHb, StatDir, Verdict, AtBreaker, Breaking
    <3>2. PICK s \in {"claim", "mkdir", "statDir"} : GoTo(p, s)
      BY <3>1
    <3>3. s \in Stages /\ s \in Waiting \cup Over /\ s # "rmBreaker"
      BY DEF Stages, Live, Waiting
    <3> QED BY <2>1, <3>2, <3>3, InvMove
  <2>3. CASE AtBreaker(p)
    <3>1. \E s \in {"rm", "unclaimLost", "reDir"} : GoTo(p, s) /\ (s = "rm" => stale)
      BY <1>3, <2>3 DEF StatHb, StatDir, Verdict, AtBreaker, Breaking
    <3>2. PICK s \in {"rm", "unclaimLost", "reDir"} : GoTo(p, s) /\ (s = "rm" => stale)
      BY <3>1
    <3>3. s \in Stages
      BY DEF Stages, Live, Breaking
    <3>4. pc'[p] = s
      BY <3>2 DEF GoTo, TypeOK
    <3>5. ProcInv(p)'
      BY <2>1, <2>3, <3>2, <3>4
         DEF ProcInv, InCharge, AtBreaker, Breaking, Writing, Holding, lock, brk
    <3>6. ASSUME NEW q \in Procs, q # p PROVE ProcInv(q)'
      BY <2>1, <3>2, <3>3, <3>6, InvOthers
    <3> QED BY <2>1, <3>5, <3>6 DEF brk
  <2> QED BY <2>2, <2>3
<1>4. ASSUME NEW p \in Procs, Claim(p) PROVE Goal
  <2>1. CASE breaker = None
    <3>1. MakeBreaker(p) /\ GoTo(p, "reHb") /\ UNCHANGED lock /\ "reHb" \in Stages
      BY <1>4, <2>1 DEF Claim, Stages, Live, Breaking
    <3>2. ProcInv(p)'
      BY <3>1 DEF ProcInv, InCharge, AtBreaker, MakeBreaker, GoTo, TypeOK, Breaking, Writing, Holding
    <3>3. ASSUME NEW q \in Procs, q # p PROVE ProcInv(q)'
      <4>1. ~AtBreaker(q)
        BY <2>1, FlockAssumption DEF ProcInv
      <4> QED BY <3>1, <3>3, <4>1, InvOthers
    <3> QED BY <3>1, <3>2, <3>3 DEF MakeBreaker
  <2>2. CASE breaker # None
    <3>1. GoTo(p, "statBreaker") /\ UNCHANGED <<lock, brk>>
      BY <1>4, <2>2 DEF Claim
    <3> QED BY <3>1, InvMove DEF Stages, Live, Waiting
  <2> QED BY <2>1, <2>2
<1>5. ASSUME NEW p \in Procs PROVE ~RmBreaker(p) /\ ~Compromised(p)
  BY DEF RmBreaker, Compromised, ProcInv
<1>6. ASSUME NEW p \in Procs, Rm(p) PROVE Goal
  <2>1. RemoveDir /\ GoTo(p, "mkdir2") /\ UNCHANGED brk /\ stale /\ AtBreaker(p) /\ "mkdir2" \in Stages
    BY <1>6 DEF Rm, ProcInv, AtBreaker, Stages, Live, Breaking
  <2>2. ProcInv(p)'
    BY <2>1 DEF ProcInv, InCharge, AtBreaker, GoTo, TypeOK, Breaking, Writing, Holding, brk
  <2>3. ASSUME NEW q \in Procs, q # p PROVE ProcInv(q)'
    <3>1. ~InCharge(q) /\ pc[q] # "rm"
      BY <2>1, <2>3 DEF ProcInv, AtBreaker, Breaking
    <3> QED BY <2>1, <2>3, <3>1, InvOthers
  <2> QED BY <2>1, <2>2, <2>3 DEF brk
<1>7. ASSUME NEW p \in Procs, Mkdir2(p) PROVE Goal
  <2>0. AtBreaker(p) /\ "unclaimWon" \in Stages /\ "unclaimLost" \in Stages /\ UNCHANGED brk
    BY <1>7 DEF Mkdir2, AtBreaker, Breaking, Stages, Live
  <2>1. CASE dir = None
    <3>1. MakeDir(p) /\ GoTo(p, "unclaimWon")
      BY <1>7, <2>1 DEF Mkdir2
    <3>2. ProcInv(p)'
      BY <2>0, <3>1 DEF ProcInv, InCharge, AtBreaker, MakeDir, GoTo, TypeOK, Breaking, Writing, Holding, brk
    <3>3. ASSUME NEW q \in Procs, q # p PROVE ProcInv(q)'
      <4>1. ~InCharge(q) /\ pc[q] # "rm"
        BY <2>1, FlockAssumption DEF ProcInv, TypeOK, DiskOK
      <4> QED BY <2>0, <3>1, <3>3, <4>1, InvOthers
    <3> QED BY <2>0, <3>2, <3>3 DEF brk
  <2>2. CASE dir # None
    <3>1. UNCHANGED lock /\ GoTo(p, "unclaimLost")
      BY <1>7, <2>2 DEF Mkdir2
    <3>2. ProcInv(p)'
      BY <2>0, <3>1 DEF ProcInv, InCharge, AtBreaker, GoTo, TypeOK, Breaking, Writing, Holding, brk
    <3>3. ASSUME NEW q \in Procs, q # p PROVE ProcInv(q)'
      BY <2>0, <3>1, <3>3, InvOthers
    <3> QED BY <2>0, <3>2, <3>3 DEF brk
  <2> QED BY <2>1, <2>2
<1>8. ASSUME NEW p \in Procs, Unclaim(p) PROVE Goal
  <2>1. RemoveBreaker /\ UNCHANGED lock /\ AtBreaker(p)
    BY <1>8 DEF Unclaim, AtBreaker, Breaking
  <2>2. \E s \in {"writeHb", "mkdir"} : GoTo(p, s) /\ (s = "writeHb" => pc[p] = "unclaimWon")
    BY <1>8 DEF Unclaim
  <2>3. PICK s \in {"writeHb", "mkdir"} : GoTo(p, s) /\ (s = "writeHb" => pc[p] = "unclaimWon")
    BY <2>2
  <2>4. pc'[p] = s /\ s \in Stages
    BY <2>3 DEF GoTo, TypeOK, Stages, Live, Writing, Waiting
  <2>5. ProcInv(p)'
    BY <2>1, <2>3, <2>4 DEF ProcInv, InCharge, AtBreaker, Breaking, Writing, Holding, lock
  <2>6. ASSUME NEW q \in Procs, q # p PROVE ProcInv(q)'
    <3>1. ~AtBreaker(q)
      BY <2>1, <2>6 DEF ProcInv
    <3> QED BY <2>1, <2>3, <2>4, <2>6, <3>1, InvOthers
  <2> QED BY <2>1, <2>5, <2>6 DEF RemoveBreaker
<1>9. ASSUME NEW p \in Procs, WriteHb(p) \/ WriteMeta(p) PROVE Goal
  <2>1. dir = p /\ ~stale /\ tok = None /\ InCharge(p) /\ UNCHANGED brk
    BY <1>9 DEF WriteHb, WriteMeta, ProcInv, InCharge, Writing
  <2>2. ASSUME NEW q \in Procs, q # p, NEW s \in Stages, GoTo(p, s) PROVE ProcInv(q)'
    <3>1. ~InCharge(q) /\ pc[q] # "rm"
      BY <2>1, <2>2 DEF ProcInv
    <3> QED BY <2>1, <2>2, <3>1, InvOthers
  <2>3. CASE WriteHb(p)
    <3>1. hb' = TRUE /\ stale' = FALSE /\ GoTo(p, "writeMeta") /\ UNCHANGED <<dir, tok>>
      BY <2>1, <2>3, FlockAssumption DEF WriteHb, ProcInv
    <3>2. ProcInv(p)'
      BY <2>1, <3>1 DEF ProcInv, InCharge, AtBreaker, GoTo, TypeOK, Breaking, Writing, Holding
    <3>3. "writeMeta" \in Stages
      BY DEF Stages, Live, Writing
    <3> QED BY <2>1, <2>2, <3>1, <3>2, <3>3 DEF brk
  <2>4. CASE WriteMeta(p)
    <3>1. tok' = p /\ ~stale' /\ GoTo(p, "held") /\ UNCHANGED <<dir, hb>>
      BY <2>1, <2>4, FlockAssumption DEF WriteMeta
    <3>2. ProcInv(p)'
      BY <2>1, <3>1 DEF ProcInv, InCharge, AtBreaker, GoTo, TypeOK, Breaking, Writing, Holding
    <3>3. "held" \in Stages
      BY DEF Stages, Live, Holding
    <3> QED BY <2>1, <2>2, <3>1, <3>2, <3>3 DEF brk
  <2> QED BY <1>9, <2>3, <2>4
<1>10. ASSUME NEW p \in Procs PROVE ~Beat(p)
  BY DEF Beat, ProcInv, InCharge, Holding
<1>11. ASSUME NEW p \in Procs, BodyEnds(p) \/ Release(p) PROVE Goal
  <2>1. pc[p] \in Holding /\ UNCHANGED <<lock, brk>> /\ ProcInv(p)
    BY <1>11 DEF BodyEnds, Release, Holding
  <2>2. \E s \in {"release", "rmOwn"} : GoTo(p, s)
    BY <1>11, <2>1 DEF BodyEnds, Release, ProcInv
  <2>3. PICK s \in {"release", "rmOwn"} : GoTo(p, s)
    BY <2>2
  <2>4. pc'[p] = s /\ s \in Stages
    BY <2>3 DEF GoTo, TypeOK, Stages, Live, Holding
  <2>5. ProcInv(p)'
    BY <2>1, <2>4 DEF ProcInv, InCharge, AtBreaker, Breaking, Writing, Holding, lock
  <2>6. ASSUME NEW q \in Procs, q # p PROVE ProcInv(q)'
    BY <2>1, <2>3, <2>4, <2>6, InvOthers
  <2> QED BY <2>1, <2>5, <2>6 DEF brk
<1>12. ASSUME NEW p \in Procs, RmOwn(p) PROVE Goal
  <2>1. RemoveDir /\ GoTo(p, "done") /\ UNCHANGED brk /\ dir = p /\ ~stale /\ "done" \in Stages
    BY <1>12 DEF RmOwn, ProcInv, InCharge, Holding, Stages, Over
  <2>2. ProcInv(p)'
    BY <2>1 DEF ProcInv, InCharge, AtBreaker, GoTo, TypeOK, Breaking, Writing, Holding
  <2>3. ASSUME NEW q \in Procs, q # p PROVE ProcInv(q)'
    <3>1. ~InCharge(q) /\ pc[q] # "rm"
      BY <2>1, <2>3 DEF ProcInv
    <3> QED BY <2>1, <2>3, <3>1, InvOthers
  <2> QED BY <2>1, <2>2, <2>3 DEF brk
<1>13. CASE AgeLock
  <2>1. ~InCharge(dir) /\ dir # None /\ stale' = TRUE /\ UNCHANGED <<pc, dir, hb, tok, brk>>
    BY <1>13 DEF AgeLock
  <2>2. ASSUME NEW q \in Procs PROVE ProcInv(q)'
    BY <2>1 DEF ProcInv, InCharge, AtBreaker, brk
  <2> QED BY <2>1, <2>2 DEF brk
<1>14. ~AgeBreaker
  BY DEF AgeBreaker
<1>15. CASE UNCHANGED vars
  BY <1>15 DEF vars, lock, brk, ProcInv, InCharge, AtBreaker
<1> HIDE DEF Goal
<1> QED BY <1>1, <1>2, <1>3, <1>4, <1>5, <1>6, <1>7, <1>8, <1>9, <1>10, <1>11, <1>12, <1>13,
           <1>14, <1>15 DEF Next, Step, Goal

(* FlockInv holds in every reachable state, however many processes crash     *)
(* while they own the lock.                                                  *)
THEOREM FlockInvariant == ASSUME Heartbeat PROVE Spec => []FlockInv
<1>1. Init => FlockInv
  BY DEF Init, FlockInv, ProcInv, InCharge, AtBreaker, Breaking, Writing, Holding
<1>2. TypeOK /\ FlockInv /\ [Next]_vars => FlockInv'
  <2> SUFFICES ASSUME TypeOK, FlockInv, [Next]_vars, ~late' PROVE ~bstale' /\ \A q \in Procs : ProcInv(q)'
    BY DEF FlockInv
  <2>1. ~late
    BY DEF TypeOK, Next, vars, Start, Step, GiveUp, Beat, Mkdir, StatHb, StatDir, Claim, Crash,
        StatBreaker, RmBreaker, Rm, Mkdir2, Unclaim, WriteHb, WriteMeta, Compromised,
        BodyEnds, Release, RmOwn, AgeLock, AgeBreaker
  <2> QED BY <2>1, InvStep DEF FlockInv
<1> QED BY <1>1, <1>2, FlockTypeOK, PTL DEF Spec

(* flock.ts keeps mutual exclusion, and the holder's lock is the one on      *)
(* disk, as long as no breaker and no lock of a live process became stale.   *)
THEOREM FlockMutualExclusion == ASSUME Heartbeat PROVE Spec => []MutualExclusion
<1>1. FlockInv => MutualExclusion
  BY DEF FlockInv, ProcInv, MutualExclusion, OneHolder, Holders, InCharge, Holding
<1> QED BY <1>1, FlockInvariant, PTL
=============================================================================
