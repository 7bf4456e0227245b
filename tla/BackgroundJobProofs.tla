------------------------- MODULE BackgroundJobProofs ------------------------
(***************************************************************************)
(* Safety of the background job table, for any number of callers, ids and  *)
(* generations.  JobInv is inductive: a running job is in the table under  *)
(* its id (RunningInv), so a finish by id can only reach the last job of   *)
(* this id; this is the job it was meant for, or `struck` gets the one it  *)
(* has ended instead (StruckInv).                                          *)
(***************************************************************************)
EXTENDS BackgroundJob, TLAPS

LEMMA InitInv == Init => JobInv
BY JobAssumption DEF Init, JobInv, TypeOK, GenInv, RunningInv, CallInv, StruckInv,
   OwnOutcome, Alive, Cancels, Gens, Gens0, Terminal, NoCall

(* finish by id settles the running job of this id and nothing else. *)
LEMMA FinishSettles ==
  ASSUME JobInv, NEW k \in JobIds, NEW s \in Terminal, Finish(k, s)
  PROVE  /\ info' \in [Gens -> {"none", "running"} \cup Terminal]
         /\ done' \in [Gens -> {"none", "pending"} \cup Terminal]
         /\ \A g \in Gens :
              /\ info'[g] = IF g = jobs[k] /\ info[g] = "running" THEN s ELSE info[g]
              /\ done'[g] = IF g = jobs[k] /\ info[g] = "running" THEN s ELSE done[g]
<1>1. CASE IsRunning(k)
  <2>1. jobs[k] \in 1 .. started /\ jobs[k] \in Gens
    BY <1>1, JobAssumption DEF IsRunning, JobInv, TypeOK, GenInv, Gens, Gens0
  <2>2. done[jobs[k]] = "pending"
    BY <1>1, <2>1 DEF IsRunning, JobInv, GenInv
  <2> QED
    BY <1>1, <2>1, <2>2 DEF Finish, Settle, IsRunning, JobInv, TypeOK
<1>2. CASE ~IsRunning(k)
  <2>1. info' = info /\ done' = done
    BY <1>2 DEF Finish
  <2>2. \A g \in Gens : ~(g = jobs[k] /\ info[g] = "running")
    BY <1>2 DEF IsRunning, Gens
  <2> QED
    BY <2>1, <2>2 DEF JobInv, TypeOK
<1> QED
  BY <1>1, <1>2

LEMMA StartExistingInv ==
  ASSUME JobInv, NEW c \in Callers, NEW k \in JobIds, StartExisting(c, k)
  PROVE  JobInv'
<1> USE JobAssumption DEF StartExisting, Return, Gens, Gens0, Terminal, NoCall
<1>1. TypeOK'
  BY DEF JobInv, TypeOK, GenInv, CallInv
<1>2. GenInv'
  BY DEF JobInv, TypeOK, GenInv, CallInv
<1>3. \A j \in JobIds : Cancels(j) => Cancels(j)'
  BY DEF JobInv, TypeOK, Cancels
<1>4. RunningInv'
  BY <1>3 DEF JobInv, TypeOK, GenInv, RunningInv, Alive
<1>5. CallInv'
  BY DEF JobInv, TypeOK, GenInv, CallInv
<1>6. StruckInv'
  BY DEF JobInv, TypeOK, GenInv, RunningInv, CallInv, StruckInv, OwnOutcome, Alive, Cancels
<1> QED
  BY <1>1, <1>2, <1>4, <1>5, <1>6 DEF JobInv

LEMMA StartNewInv ==
  ASSUME JobInv, NEW c \in Callers, NEW k \in JobIds, StartNew(c, k)
  PROVE  JobInv'
<1> USE JobAssumption DEF StartNew, Return, IsRunning, Gens, Gens0, Terminal, NoCall
<1>1. TypeOK'
  BY DEF JobInv, TypeOK, GenInv, CallInv
<1>2. GenInv'
  BY DEF JobInv, TypeOK, GenInv, CallInv
<1>3. \A j \in JobIds : Cancels(j) => Cancels(j)'
  BY DEF JobInv, TypeOK, Cancels
<1>4. RunningInv'
  BY <1>3 DEF JobInv, TypeOK, GenInv, RunningInv, Alive
<1>5. CallInv'
  BY DEF JobInv, TypeOK, GenInv, CallInv
<1>6. StruckInv'
  BY DEF JobInv, TypeOK, GenInv, RunningInv, CallInv, StruckInv, OwnOutcome, Alive, Cancels
<1> QED
  BY <1>1, <1>2, <1>4, <1>5, <1>6 DEF JobInv

LEMMA WaitEndedInv ==
  ASSUME JobInv, NEW c \in Callers, NEW k \in JobIds, WaitEnded(c, k)
  PROVE  JobInv'
<1> USE JobAssumption DEF WaitEnded, Return, Gens, Gens0, Terminal, NoCall
<1>1. TypeOK'
  BY DEF JobInv, TypeOK, GenInv, CallInv
<1>2. GenInv'
  BY DEF JobInv, TypeOK, GenInv, CallInv
<1>3. \A j \in JobIds : Cancels(j) => Cancels(j)'
  BY DEF JobInv, TypeOK, Cancels
<1>4. RunningInv'
  BY <1>3 DEF JobInv, TypeOK, GenInv, RunningInv, Alive
<1>5. CallInv'
  BY DEF JobInv, TypeOK, GenInv, CallInv
<1>6. StruckInv'
  BY DEF JobInv, TypeOK, GenInv, RunningInv, CallInv, StruckInv, OwnOutcome, Alive, Cancels
<1> QED
  BY <1>1, <1>2, <1>4, <1>5, <1>6 DEF JobInv

LEMMA WaitRunningInv ==
  ASSUME JobInv, NEW c \in Callers, NEW k \in JobIds, NEW p \in {"wait", "waitTimeout"}, WaitRunning(c, k, p)
  PROVE  JobInv'
<1> USE JobAssumption DEF WaitRunning, Suspend, IsRunning, Gens, Gens0, Terminal, NoCall
<1>1. TypeOK'
  BY DEF JobInv, TypeOK, GenInv, CallInv
<1>2. GenInv'
  BY DEF JobInv, TypeOK, GenInv, CallInv
<1>3. \A j \in JobIds : Cancels(j) => Cancels(j)'
  BY DEF JobInv, TypeOK, Cancels
<1>4. RunningInv'
  BY <1>3 DEF JobInv, TypeOK, GenInv, RunningInv, Alive
<1>5. CallInv'
  BY DEF JobInv, TypeOK, GenInv, CallInv
<1>6. StruckInv'
  BY DEF JobInv, TypeOK, GenInv, RunningInv, CallInv, StruckInv, OwnOutcome, Alive, Cancels
<1> QED
  BY <1>1, <1>2, <1>4, <1>5, <1>6 DEF JobInv

LEMMA CancelEndedInv ==
  ASSUME JobInv, NEW c \in Callers, NEW k \in JobIds, CancelEnded(c, k)
  PROVE  JobInv'
<1> USE JobAssumption DEF CancelEnded, Return, Gens, Gens0, Terminal, NoCall
<1>1. TypeOK'
  BY DEF JobInv, TypeOK, GenInv, CallInv
<1>2. GenInv'
  BY DEF JobInv, TypeOK, GenInv, CallInv
<1>3. \A j \in JobIds : Cancels(j) => Cancels(j)'
  BY DEF JobInv, TypeOK, Cancels
<1>4. RunningInv'
  BY <1>3 DEF JobInv, TypeOK, GenInv, RunningInv, Alive
<1>5. CallInv'
  BY DEF JobInv, TypeOK, GenInv, CallInv
<1>6. StruckInv'
  BY DEF JobInv, TypeOK, GenInv, RunningInv, CallInv, StruckInv, OwnOutcome, Alive, Cancels
<1> QED
  BY <1>1, <1>2, <1>4, <1>5, <1>6 DEF JobInv

LEMMA CancelInterruptInv ==
  ASSUME JobInv, NEW c \in Callers, NEW k \in JobIds, CancelInterrupt(c, k)
  PROVE  JobInv'
<1> USE JobAssumption DEF CancelInterrupt, Suspend, IsRunning, Gens, Gens0, Terminal, NoCall
<1>1. TypeOK'
  <2>1. jobs[k] \in Gens /\ [id |-> k, gen |-> jobs[k]] \in [id : JobIds \cup {NoJob}, gen : Gens0]
    BY DEF JobInv, TypeOK
  <2> QED
    BY <2>1 DEF JobInv, TypeOK
<1>2. GenInv'
  BY DEF JobInv, TypeOK, GenInv, CallInv
<1>3. \A j \in JobIds : Cancels(j) => Cancels(j)'
  BY DEF JobInv, TypeOK, Cancels
<1>4. RunningInv'
  <2>1. jobs[k] \in 1 .. started /\ job[jobs[k]] = k /\ Cancels(k)'
    BY DEF JobInv, TypeOK, GenInv, Cancels
  <2> QED
    BY <1>3, <2>1 DEF JobInv, TypeOK, GenInv, RunningInv, Alive
<1>5. CallInv'
  BY DEF JobInv, TypeOK, GenInv, CallInv
<1>6. StruckInv'
  BY DEF JobInv, TypeOK, GenInv, RunningInv, CallInv, StruckInv, OwnOutcome, Alive, Cancels
<1> QED
  BY <1>1, <1>2, <1>4, <1>5, <1>6 DEF JobInv

LEMMA WaitDoneInv ==
  ASSUME JobInv, NEW c \in Callers, WaitDone(c)
  PROVE  JobInv'
<1> USE JobAssumption DEF WaitDone, Return, Gens, Gens0, Terminal, NoCall
<1>1. TypeOK'
  BY DEF JobInv, TypeOK, GenInv, CallInv
<1>2. GenInv'
  BY DEF JobInv, TypeOK, GenInv, CallInv
<1>3. \A j \in JobIds : Cancels(j) => Cancels(j)'
  BY DEF JobInv, TypeOK, Cancels
<1>4. RunningInv'
  BY <1>3 DEF JobInv, TypeOK, GenInv, RunningInv, Alive
<1>5. CallInv'
  BY DEF JobInv, TypeOK, GenInv, CallInv
<1>6. StruckInv'
  BY DEF JobInv, TypeOK, GenInv, RunningInv, CallInv, StruckInv, OwnOutcome, Alive, Cancels
<1> QED
  BY <1>1, <1>2, <1>4, <1>5, <1>6 DEF JobInv

LEMMA CancelFinishInv ==
  ASSUME JobInv, NEW c \in Callers, CancelFinish(c)
  PROVE  JobInv'
<1> USE JobAssumption DEF Gens, Gens0, Terminal, NoCall
<1>c. at[c].gen \in intr /\ at[c].gen \in 1 .. started /\ fiber[at[c].gen] = "dead" /\ job[at[c].gen] = at[c].id
  BY DEF CancelFinish, JobInv, CallInv
<1>a. at[c].id \in JobIds /\ "cancelled" \in Terminal /\ Finish(at[c].id, "cancelled")
  BY <1>c DEF CancelFinish, JobInv, TypeOK, GenInv, CallInv
<1> DEFINE k == at[c].id
           s == "cancelled"
           Hit(h) == h = jobs[k] /\ info[h] = "running"
<1>f. /\ info' \in [Gens -> {"none", "running"} \cup Terminal]
      /\ done' \in [Gens -> {"none", "pending"} \cup Terminal]
      /\ \A h \in Gens : /\ info'[h] = IF Hit(h) THEN s ELSE info[h]
                         /\ done'[h] = IF Hit(h) THEN s ELSE done[h]
  BY <1>a, FinishSettles
<1>k. \A j \in JobIds : Cancels(j) => Cancels(j)' \/ j = at[c].id
  BY DEF CancelFinish, Return, Cancels, JobInv, TypeOK
<1>s. k \in JobIds /\ s \in Terminal
  BY <1>a
<1> HIDE DEF s
<1>t. struck' \subseteq Gens
  BY DEF CancelFinish, Strike, JobInv, TypeOK
<1>1. TypeOK'
  BY <1>f, <1>t DEF CancelFinish, Return, JobInv, TypeOK
<1>2. GenInv'
  <2>1. \A h \in Gens : h > started => info'[h] = "none" /\ done'[h] = "none"
    <3>1. \A h \in Gens : h > started => info[h] = "none" /\ done[h] = "none"
      BY DEF JobInv, GenInv
    <3> QED
      BY <1>f, <3>1
  <2>2. \A h \in 1 .. started :
          info'[h] # "none" /\ done'[h] = IF info'[h] = "running" THEN "pending" ELSE info'[h]
    <3>1. \A h \in 1 .. started :
            /\ h \in Gens /\ info[h] # "none"
            /\ done[h] = IF info[h] = "running" THEN "pending" ELSE info[h]
      BY DEF JobInv, TypeOK, GenInv
    <3>2. s \notin {"none", "running"}
      BY <1>s
    <3> HIDE DEF Hit
    <3> QED
      BY <1>f, <3>1, <3>2
  <2> QED
    BY <2>1, <2>2 DEF CancelFinish, Return, JobInv, TypeOK, GenInv
<1>3. RunningInv'
  <2> SUFFICES ASSUME NEW h \in 1 .. started, info'[h] = "running"
               PROVE  jobs[job[h]] = h /\ (Alive(h)' \/ h \in intr)
                      /\ (h \in intr => Cancels(job[h])')
    BY DEF RunningInv, CancelFinish, Return
  <2>1. h \in Gens /\ info[h] = "running" /\ ~Hit(h) /\ job[h] \in JobIds
    BY <1>f, <1>s DEF JobInv, TypeOK, GenInv
  <2>2. jobs[job[h]] = h /\ job[h] # k
    BY <2>1 DEF JobInv, RunningInv
  <2>3. Alive(h)' \/ h \in intr
    BY <2>1, <2>2 DEF JobInv, TypeOK, RunningInv, Alive, CancelFinish, Return
  <2>4. h \in intr => Cancels(job[h])'
    BY <2>1, <2>2, <1>k DEF JobInv, RunningInv, Cancels, CancelFinish, Return
  <2> QED
    BY <2>2, <2>3, <2>4
<1>4. CallInv'
  BY DEF CancelFinish, Return, JobInv, TypeOK, GenInv, CallInv
<1>5. StruckInv'
  <2>1. struck' = struck \cup {h \in Gens \ {at[c].gen} : Hit(h)}
    BY DEF CancelFinish, Strike
  <2>2. \A d \in Callers : pc'[d] = "awaitFiber" => at'[d].gen <= jobs'[at'[d].id]
    BY DEF CancelFinish, Return, JobInv, TypeOK, StruckInv
  <2>3. \A h \in Gens : Alive(h)' => Alive(h) /\ h # at[c].gen
    BY <1>c DEF CancelFinish, Return, Alive, JobInv, TypeOK
  <2>4. \A h \in Gens : Alive(h)' => info'[h] = "running" \/ h \in struck'
    BY <1>f, <2>1, <2>3 DEF JobInv, StruckInv
  <2>5. OwnOutcome'
    <3>1. UNCHANGED <<exit, intr>>
      BY DEF CancelFinish
    <3>2. OwnOutcome
      BY DEF JobInv, StruckInv
    <3>3. \A h \in Gens \ struck' : info'[h] = info[h] \/ (h = at[c].gen /\ info'[h] = s)
      BY <1>f, <2>1
    <3> QED BY <1>c, <2>1, <3>1, <3>2, <3>3 DEF s, OwnOutcome
  <2>6. UNCHANGED <<started, jobs, job>>
    BY DEF CancelFinish
  <2> QED
    BY <2>2, <2>4, <2>5, <2>6 DEF JobInv, StruckInv
<1> QED
  BY <1>1, <1>2, <1>3, <1>4, <1>5 DEF JobInv, CancelFinish, Return

LEMMA WaitTimeoutInv ==
  ASSUME JobInv, NEW c \in Callers, WaitTimeout(c)
  PROVE  JobInv'
<1> USE JobAssumption DEF WaitTimeout, Return, Gens, Gens0, Terminal, NoCall
<1>1. TypeOK'
  BY DEF JobInv, TypeOK, GenInv, CallInv
<1>2. GenInv'
  BY DEF JobInv, TypeOK, GenInv, CallInv
<1>3. \A j \in JobIds : Cancels(j) => Cancels(j)'
  BY DEF JobInv, TypeOK, Cancels
<1>4. RunningInv'
  BY <1>3 DEF JobInv, TypeOK, GenInv, RunningInv, Alive
<1>5. CallInv'
  BY DEF JobInv, TypeOK, GenInv, CallInv
<1>6. StruckInv'
  BY DEF JobInv, TypeOK, GenInv, RunningInv, CallInv, StruckInv, OwnOutcome, Alive, Cancels
<1> QED
  BY <1>1, <1>2, <1>4, <1>5, <1>6 DEF JobInv

LEMMA WorkExitInv ==
  ASSUME JobInv, NEW g \in Gens, NEW s \in Terminal, WorkExit(g, s)
  PROVE  JobInv'
<1> USE JobAssumption DEF WorkExit, Gens, Gens0, Terminal, NoCall
<1>1. TypeOK'
  BY DEF JobInv, TypeOK, GenInv, CallInv
<1>2. GenInv'
  BY DEF JobInv, TypeOK, GenInv, CallInv
<1>3. \A j \in JobIds : Cancels(j) => Cancels(j)'
  BY DEF JobInv, TypeOK, Cancels
<1>4. RunningInv'
  BY <1>3 DEF JobInv, TypeOK, GenInv, RunningInv, Alive
<1>5. CallInv'
  BY DEF JobInv, TypeOK, GenInv, CallInv
<1>6. StruckInv'
  BY DEF JobInv, TypeOK, GenInv, RunningInv, CallInv, StruckInv, OwnOutcome, Alive, Cancels
<1> QED
  BY <1>1, <1>2, <1>4, <1>5, <1>6 DEF JobInv

LEMMA FiberFinishInv ==
  ASSUME JobInv, NEW g \in Gens, FiberFinish(g)
  PROVE  JobInv'
<1> USE JobAssumption DEF Gens, Gens0, Terminal, NoCall
<1>c. g \in 1 .. started
  BY JobAssumption DEF FiberFinish, JobInv, TypeOK, GenInv, Gens, Gens0
<1>a. job[g] \in JobIds /\ exit[g] \in Terminal /\ Finish(job[g], exit[g])
  BY <1>c DEF FiberFinish, JobInv, TypeOK, GenInv, CallInv
<1> DEFINE k == job[g]
           s == exit[g]
           Hit(h) == h = jobs[k] /\ info[h] = "running"
<1>f. /\ info' \in [Gens -> {"none", "running"} \cup Terminal]
      /\ done' \in [Gens -> {"none", "pending"} \cup Terminal]
      /\ \A h \in Gens : /\ info'[h] = IF Hit(h) THEN s ELSE info[h]
                         /\ done'[h] = IF Hit(h) THEN s ELSE done[h]
  BY <1>a, FinishSettles
<1>k. \A j \in JobIds : Cancels(j) => Cancels(j)'
  BY DEF FiberFinish, Cancels
<1>s. k \in JobIds /\ s \in Terminal
  BY <1>a
<1> HIDE DEF s
<1>t. struck' \subseteq Gens
  BY DEF FiberFinish, Strike, JobInv, TypeOK
<1>1. TypeOK'
  BY <1>f, <1>t DEF FiberFinish, JobInv, TypeOK
<1>2. GenInv'
  <2>1. \A h \in Gens : h > started => info'[h] = "none" /\ done'[h] = "none"
    <3>1. \A h \in Gens : h > started => info[h] = "none" /\ done[h] = "none"
      BY DEF JobInv, GenInv
    <3> QED
      BY <1>f, <3>1
  <2>2. \A h \in 1 .. started :
          info'[h] # "none" /\ done'[h] = IF info'[h] = "running" THEN "pending" ELSE info'[h]
    <3>1. \A h \in 1 .. started :
            /\ h \in Gens /\ info[h] # "none"
            /\ done[h] = IF info[h] = "running" THEN "pending" ELSE info[h]
      BY DEF JobInv, TypeOK, GenInv
    <3>2. s \notin {"none", "running"}
      BY <1>s
    <3> HIDE DEF Hit
    <3> QED
      BY <1>f, <3>1, <3>2
  <2> QED
    BY <2>1, <2>2 DEF FiberFinish, JobInv, TypeOK, GenInv
<1>3. RunningInv'
  <2> SUFFICES ASSUME NEW h \in 1 .. started, info'[h] = "running"
               PROVE  jobs[job[h]] = h /\ (Alive(h)' \/ h \in intr)
                      /\ (h \in intr => Cancels(job[h])')
    BY DEF RunningInv, FiberFinish
  <2>1. h \in Gens /\ info[h] = "running" /\ ~Hit(h) /\ job[h] \in JobIds
    BY <1>f, <1>s DEF JobInv, TypeOK, GenInv
  <2>2. jobs[job[h]] = h /\ job[h] # k
    BY <2>1 DEF JobInv, RunningInv
  <2>3. Alive(h)' \/ h \in intr
    BY <2>1, <2>2 DEF JobInv, TypeOK, RunningInv, Alive, FiberFinish
  <2>4. h \in intr => Cancels(job[h])'
    BY <2>1, <2>2, <1>k DEF JobInv, RunningInv, Cancels, FiberFinish
  <2> QED
    BY <2>2, <2>3, <2>4
<1>4. CallInv'
  BY DEF FiberFinish, JobInv, TypeOK, GenInv, CallInv
<1>5. StruckInv'
  <2>1. struck' = struck \cup {h \in Gens \ {g} : Hit(h)}
    BY DEF FiberFinish, Strike
  <2>2. \A d \in Callers : pc'[d] = "awaitFiber" => at'[d].gen <= jobs'[at'[d].id]
    BY DEF FiberFinish, JobInv, TypeOK, StruckInv
  <2>3. \A h \in Gens : Alive(h)' => Alive(h) /\ h # g
    BY <1>c DEF FiberFinish, Alive, JobInv, TypeOK
  <2>4. \A h \in Gens : Alive(h)' => info'[h] = "running" \/ h \in struck'
    BY <1>f, <2>1, <2>3 DEF JobInv, StruckInv
  <2>5. OwnOutcome'
    <3>1. UNCHANGED <<exit, intr>>
      BY DEF FiberFinish
    <3>2. OwnOutcome
      BY DEF JobInv, StruckInv
    <3>3. \A h \in Gens \ struck' : info'[h] = info[h] \/ (h = g /\ info'[h] = s)
      BY <1>f, <2>1
    <3> QED BY <1>c, <2>1, <3>1, <3>2, <3>3 DEF s, OwnOutcome
  <2>6. UNCHANGED <<started, jobs, job>>
    BY DEF FiberFinish
  <2> QED
    BY <2>2, <2>4, <2>5, <2>6 DEF JobInv, StruckInv
<1> QED
  BY <1>1, <1>2, <1>3, <1>4, <1>5 DEF JobInv, FiberFinish

LEMMA FiberInterruptedInv ==
  ASSUME JobInv, NEW g \in Gens, FiberInterrupted(g)
  PROVE  JobInv'
<1> USE JobAssumption DEF FiberInterrupted, Gens, Gens0, Terminal, NoCall
<1>1. TypeOK'
  BY DEF JobInv, TypeOK, GenInv, CallInv
<1>2. GenInv'
  BY DEF JobInv, TypeOK, GenInv, CallInv
<1>3. \A j \in JobIds : Cancels(j) => Cancels(j)'
  BY DEF JobInv, TypeOK, Cancels
<1>4. RunningInv'
  BY <1>3 DEF JobInv, TypeOK, GenInv, RunningInv, Alive
<1>5. CallInv'
  BY DEF JobInv, TypeOK, GenInv, CallInv
<1>6. StruckInv'
  BY DEF JobInv, TypeOK, GenInv, RunningInv, CallInv, StruckInv, OwnOutcome, Alive, Cancels
<1> QED
  BY <1>1, <1>2, <1>4, <1>5, <1>6 DEF JobInv

LEMMA StutterInv == JobInv /\ UNCHANGED vars => JobInv'
BY DEF vars, JobInv, TypeOK, GenInv, RunningInv, CallInv, StruckInv, OwnOutcome, Alive,
   Cancels

LEMMA NextInv == JobInv /\ [Next]_vars => JobInv'
<1> SUFFICES ASSUME JobInv, [Next]_vars PROVE JobInv'
  OBVIOUS
<1>1. CASE \E c \in Callers, k \in JobIds :
             \/ StartExisting(c, k) \/ StartNew(c, k)
             \/ WaitEnded(c, k) \/ \E p \in {"wait", "waitTimeout"} : WaitRunning(c, k, p)
             \/ CancelEnded(c, k) \/ CancelInterrupt(c, k)
  BY <1>1, StartExistingInv, StartNewInv, WaitEndedInv, WaitRunningInv, CancelEndedInv,
     CancelInterruptInv
<1>2. CASE \E c \in Callers : CallerStep(c) \/ WaitTimeout(c)
  BY <1>2, WaitDoneInv, CancelFinishInv, WaitTimeoutInv DEF CallerStep
<1>3. CASE \E g \in Gens : Ending(g) \/ \E s \in Terminal : WorkExit(g, s)
  BY <1>3, FiberFinishInv, FiberInterruptedInv, WorkExitInv DEF Ending
<1>4. CASE UNCHANGED vars
  BY <1>4, StutterInv
<1> QED
  BY <1>1, <1>2, <1>3, <1>4 DEF Next

(* JobInv holds in every reachable state of the job table. *)
THEOREM JobInvariant == Spec => []JobInv
BY InitInv, NextInv, PTL DEF Spec

(* The table, the fibers and the calls keep their types.                     *)
THEOREM JobTypeOK == Spec => []TypeOK
<1>1. JobInv => TypeOK
  BY DEF JobInv
<1> QED
  BY <1>1, JobInvariant, PTL

(* A job that the table shows as running, or whose Deferred somebody may     *)
(* await, is in the table and has a fiber or a cancel that will finish it,   *)
(* also when its id is started again while a cancel is executing.            *)
THEOREM TableCurrent == Spec => []TableIsCurrent
<1>1. JobInv => TableIsCurrent
  <2> SUFFICES ASSUME JobInv, NEW g \in 1 .. started,
                      info[g] = "running" \/ done[g] = "pending"
               PROVE  jobs[job[g]] = g /\ (Alive(g) \/ Cancels(job[g]))
    BY DEF TableIsCurrent
  <2>1. g \in Gens /\ info[g] \in {"running"} \cup Terminal \cup {"none"}
    BY JobAssumption DEF JobInv, TypeOK, Gens, Gens0
  <2>2. done[g] = IF info[g] = "running" THEN "pending" ELSE info[g]
    BY DEF JobInv, GenInv
  <2>3. info[g] = "running"
    BY <2>1, <2>2 DEF Terminal
  <2> QED
    BY <2>3 DEF JobInv, RunningInv
<1> QED
  BY <1>1, JobInvariant, PTL

(* An id has two fibers at work only if the finish of another generation     *)
(* ended the entry of the older one, whatever overlaps.                      *)
THEOREM OneFiber == Spec => []OneFiberUnlessStruck
<1>1. JobInv => OneFiberUnlessStruck
  <2> SUFFICES ASSUME JobInv, NEW g \in Gens, NEW h \in Gens, Alive(g), Alive(h),
                      job[g] = job[h], g < h, g \notin struck
               PROVE  FALSE
    BY DEF OneFiberUnlessStruck
  <2>1. g \in 1 .. started /\ h \in 1 .. started /\ started \in Nat
    BY JobAssumption DEF JobInv, TypeOK, GenInv, Gens, Gens0, Alive
  <2>2. info[g] = "running" /\ jobs[job[g]] = g
    BY <2>1 DEF JobInv, StruckInv, RunningInv
  <2>3. h <= jobs[job[h]]
    BY <2>1 DEF JobInv, StruckInv
  <2> QED
    BY <2>1, <2>2, <2>3
<1> QED
  BY <1>1, JobInvariant, PTL

(* The status of an ended job is its own, whatever overlaps, unless the      *)
(* finish of another generation came first.                                  *)
THEOREM Outcome == Spec => []OwnOutcome
<1>1. JobInv => OwnOutcome
  BY DEF JobInv, StruckInv
<1> QED
  BY <1>1, JobInvariant, PTL

(* A finish ends a job it was not meant for only when a cancel has outlived  *)
(* the generation it captured, or when its own generation was ended so.      *)
THEOREM StrikesGoBackToCancels == Spec => StruckByCancel
<1>1. JobInv /\ [Next]_vars => Traced
  <2> SUFFICES ASSUME JobInv, [Next]_vars PROVE Traced
    OBVIOUS
  <2>1. CASE struck' = struck
    BY <2>1 DEF Traced
  <2>2. ASSUME NEW c \in Callers, CancelFinish(c) PROVE Traced
    <3>1. CASE at[c].gen = jobs[at[c].id]
      BY <2>1, <2>2, <3>1 DEF CancelFinish, Strike
    <3>2. CASE at[c].gen # jobs[at[c].id]
      <4>1. at[c].gen < jobs[at[c].id]
        <5>1. at[c].id \in JobIds /\ at[c].gen \in 1 .. started
          BY <2>2 DEF CancelFinish, JobInv, CallInv
        <5>2. started \in Nat /\ jobs[at[c].id] \in 0 .. MaxJobs
          BY <5>1, JobAssumption DEF JobInv, TypeOK, Gens0
        <5>3. at[c].gen <= jobs[at[c].id]
          BY <2>2 DEF CancelFinish, JobInv, StruckInv
        <5> QED BY <3>2, <5>1, <5>2, <5>3, JobAssumption
      <4>2. pc[c] = "awaitFiber" /\ pc'[c] = "ready"
        BY <2>2 DEF CancelFinish, Return, JobInv, TypeOK
      <4> QED BY <4>1, <4>2 DEF Traced
    <3> QED BY <3>1, <3>2
  <2>3. ASSUME NEW g \in Gens, FiberFinish(g) PROVE Traced
    <3>1. CASE g \in struck
      BY <2>3, <3>1 DEF FiberFinish, JobInv, TypeOK, Traced
    <3>2. CASE g \notin struck
      <4>1. g \in 1 .. started /\ info[g] = "running"
        BY <2>3, <3>2, JobAssumption
        DEF FiberFinish, Alive, JobInv, TypeOK, GenInv, StruckInv, Gens, Gens0
      <4>2. jobs[job[g]] = g
        BY <4>1 DEF JobInv, RunningInv
      <4> QED BY <2>1, <2>3, <4>2 DEF FiberFinish, Strike
    <3> QED BY <3>1, <3>2
  <2>4. ASSUME NEW c \in Callers, NEW k \in JobIds, StartExisting(c, k) \/ StartNew(c, k)
        PROVE  struck' = struck
    BY <2>4 DEF StartExisting, StartNew
  <2>5. ASSUME NEW c \in Callers, NEW k \in JobIds,
               \/ WaitEnded(c, k) \/ \E p \in {"wait", "waitTimeout"} : WaitRunning(c, k, p)
               \/ CancelEnded(c, k) \/ CancelInterrupt(c, k)
        PROVE  struck' = struck
    BY <2>5 DEF WaitEnded, WaitRunning, CancelEnded, CancelInterrupt
  <2>6. ASSUME NEW c \in Callers, WaitDone(c) \/ WaitTimeout(c) PROVE struck' = struck
    BY <2>6 DEF WaitDone, WaitTimeout
  <2>7. ASSUME NEW g \in Gens, FiberInterrupted(g) \/ \E x \in Terminal : WorkExit(g, x)
        PROVE  struck' = struck
    BY <2>7 DEF FiberInterrupted, WorkExit
  <2>8. CASE UNCHANGED vars
    BY <2>1, <2>8 DEF vars
  <2> QED
    BY <2>1, <2>2, <2>3, <2>4, <2>5, <2>6, <2>7, <2>8 DEF Next, CallerStep, Ending
<1> QED
  BY <1>1, JobInvariant, PTL DEF Spec, StruckByCancel

(* The status of an ended job never changes, whatever overlaps.              *)
THEOREM HistoryStays == Spec => EndedStaysEnded
<1> DEFINE Kept == \A g \in Gens : info[g] \in Terminal => info'[g] = info[g]
<1>1. JobInv /\ [Next]_vars => [Kept]_vars
  <2> SUFFICES ASSUME JobInv, Next, NEW g \in Gens, info[g] \in Terminal
               PROVE  info'[g] = info[g]
    OBVIOUS
  <2>1. ASSUME NEW c \in Callers, NEW k \in JobIds, StartNew(c, k)
        PROVE  info'[g] = info[g]
    BY <2>1, JobAssumption DEF StartNew, JobInv, TypeOK, GenInv, Gens, Gens0, Terminal
  <2>2. ASSUME NEW k \in JobIds, NEW s, Finish(k, s)
        PROVE  info'[g] = info[g]
    BY <2>2 DEF Finish, Settle, IsRunning, JobInv, TypeOK, Gens, Gens0, Terminal
  <2>3. ASSUME NEW c \in Callers, CallerStep(c)
        PROVE  info'[g] = info[g]
    BY <2>2, <2>3 DEF CallerStep, WaitDone, CancelFinish, JobInv, CallInv
  <2>4. ASSUME NEW h \in Gens, Ending(h)
        PROVE  info'[g] = info[g]
    <3>1. CASE FiberFinish(h)
      <4>1. job[h] \in JobIds
        BY <3>1, JobAssumption DEF FiberFinish, JobInv, TypeOK, GenInv, Gens, Gens0
      <4> QED
        BY <2>2, <3>1, <4>1 DEF FiberFinish
    <3>2. CASE FiberInterrupted(h)
      BY <3>2 DEF FiberInterrupted
    <3> QED
      BY <2>4, <3>1, <3>2 DEF Ending
  <2> QED
    BY <2>1, <2>3, <2>4 DEF Next, StartExisting, WaitEnded, WaitRunning, CancelEnded,
       CancelInterrupt, WaitTimeout, WorkExit
<1> QED
  BY <1>1, JobInvariant, PTL DEF Spec, EndedStaysEnded
=============================================================================
