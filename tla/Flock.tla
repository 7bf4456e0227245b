------------------------------- MODULE Flock -------------------------------
(***************************************************************************)
(* packages/core/src/util/flock.ts and effect-flock.ts: a lock between     *)
(* processes, made of a directory that mkdir creates atomically, with a    *)
(* heartbeat file and the owner's token in it.  A process that finds the   *)
(* directory checks whether it is stale (its heartbeat, or the directory   *)
(* when there is none yet, is older than staleMs); the one that creates    *)
(* the breaker directory looks again, removes the stale lock and makes its *)
(* own.                                                                    *)
(*                                                                         *)
(* Every call of the file system is a step, so that everything may happen  *)
(* between two of them; a process may crash between any two.  Time is      *)
(* modelled by what it does: a directory that is not refreshed may become  *)
(* stale.  That of a live process does so only if the process was held up  *)
(* for staleMs (Pauses).  The recursive removal of a directory is atomic.  *)
(***************************************************************************)
EXTENDS Naturals, FiniteSets

CONSTANTS
  Procs,      \* acquisitions of one key, each with a token of its own
  None,       \* no process
  MaxCrashes, \* bound: processes that crash
  Heartbeat,  \* does the owner's heartbeat advance the file's time?
  Pauses      \* may a live process be held up for longer than staleMs?

ASSUME FlockAssumption ==
  /\ None \notin Procs
  /\ MaxCrashes \in Nat /\ Heartbeat \in BOOLEAN /\ Pauses \in BOOLEAN

VARIABLES
  pc,      \* pc[p]: the call p makes next
  dir,     \* the process that made the lock directory, or None
  hb,      \* is there a heartbeat file in it?
  tok,     \* the token in its meta.json, or None
  stale,   \* is the lock older than staleMs?
  breaker, \* the process that made the breaker directory, or None
  bstale,  \* is the breaker older than staleMs?
  crashes, \* the number of crashes
  late     \* observation: a breaker, or the lock of a live process, became
           \* stale

lock == <<dir, hb, tok, stale>>
brk  == <<breaker, bstale>>
vars == <<pc, lock, brk, crashes, late>>

Waiting   == {"mkdir", "statHb", "statDir", "claim", "statBreaker", "rmBreaker"}
Breaking  == {"reHb", "reDir", "rm", "mkdir2", "unclaimLost", "unclaimWon"}
Writing   == {"writeHb", "writeMeta"}
Holding   == {"held", "release", "rmOwn"}
Over      == {"done", "crashed"}
Live      == Waiting \cup Breaking \cup Writing \cup Holding \cup {"compromised"}
Stages    == {"idle"} \cup Live \cup Over

(* What may be on disk. *)
DiskOK ==
  /\ dir \in Procs \cup {None} /\ tok \in Procs \cup {None}
  /\ breaker \in Procs \cup {None}
  /\ hb \in BOOLEAN /\ stale \in BOOLEAN /\ bstale \in BOOLEAN
  /\ dir = None => ~hb /\ tok = None /\ ~stale
  /\ breaker = None => ~bstale

TypeOK ==
  /\ pc \in [Procs -> Stages]
  /\ DiskOK
  /\ late \in BOOLEAN /\ crashes \in 0 .. MaxCrashes

Init ==
  /\ pc = [p \in Procs |-> "idle"]
  /\ dir = None /\ hb = FALSE /\ tok = None /\ stale = FALSE
  /\ breaker = None /\ bstale = FALSE
  /\ crashes = 0 /\ late = FALSE

GoTo(p, to) == pc' = [pc EXCEPT ![p] = to]

-----------------------------------------------------------------------------
(* The file system *)

MakeDir(p) == dir' = p /\ hb' = FALSE /\ tok' = None /\ stale' = FALSE
(* Mutant: the directory goes, the heartbeat stays.                          *)
RemoveDirOnly == dir' = None /\ tok' = None /\ stale' = FALSE /\ UNCHANGED hb
RemoveDir  == dir' = None /\ hb' = FALSE /\ tok' = None /\ stale' = FALSE
MakeBreaker(p) == breaker' = p /\ bstale' = FALSE
RemoveBreaker  == breaker' = None /\ bstale' = FALSE

-----------------------------------------------------------------------------
(* One attempt *)

Start(p) ==
  /\ pc[p] = "idle"
  /\ GoTo(p, "mkdir")
  /\ UNCHANGED <<lock, brk, crashes, late>>

Mkdir(p) ==
  /\ pc[p] = "mkdir"
  /\ IF dir = None THEN MakeDir(p) /\ GoTo(p, "writeHb")
                   ELSE GoTo(p, "statHb") /\ UNCHANGED lock
  /\ UNCHANGED <<brk, crashes, late>>

(* The attempt has failed and the time is over, or the caller has aborted.   *)
GiveUp(p) ==
  /\ pc[p] = "mkdir"
  /\ GoTo(p, "done")
  /\ UNCHANGED <<lock, brk, crashes, late>>

(* stale: the heartbeat decides; without one meta.json or the directory      *)
(* does, unless a heartbeat has been written by then.  It is asked once      *)
(* before the breaker is claimed and once after.                             *)
Verdict(p, is) ==
  GoTo(p, IF pc[p] \in {"statHb", "statDir"}
            THEN (IF is THEN "claim" ELSE "mkdir")
            ELSE (IF is THEN "rm" ELSE "unclaimLost"))

StatHb(p) ==
  /\ pc[p] \in {"statHb", "reHb"}
  /\ IF hb THEN Verdict(p, stale)
           ELSE GoTo(p, IF pc[p] = "statHb" THEN "statDir" ELSE "reDir")
  /\ UNCHANGED <<lock, brk, crashes, late>>

StatDir(p) ==
  /\ pc[p] \in {"statDir", "reDir"}
  /\ Verdict(p, stale /\ ~hb)
  /\ UNCHANGED <<lock, brk, crashes, late>>

(* Mutant: the owner of the breaker does not look again.                     *)
ClaimAndRemove(p) ==
  /\ pc[p] = "claim"
  /\ IF breaker = None THEN MakeBreaker(p) /\ GoTo(p, "rm")
                       ELSE GoTo(p, "statBreaker") /\ UNCHANGED brk
  /\ UNCHANGED <<lock, crashes, late>>

Claim(p) ==
  /\ pc[p] = "claim"
  /\ IF breaker = None THEN MakeBreaker(p) /\ GoTo(p, "reHb")
                       ELSE GoTo(p, "statBreaker") /\ UNCHANGED brk
  /\ UNCHANGED <<lock, crashes, late>>

(* Mutant: a breaker that is left behind stays.                              *)
StatBreakerOnly(p) ==
  /\ pc[p] = "statBreaker"
  /\ GoTo(p, "mkdir")
  /\ UNCHANGED <<lock, brk, crashes, late>>

(* cleanStaleBreaker: the breaker of a crashed process is removed, and this  *)
(* attempt is lost in any case.                                              *)
StatBreaker(p) ==
  /\ pc[p] = "statBreaker"
  /\ GoTo(p, IF bstale THEN "rmBreaker" ELSE "mkdir")
  /\ UNCHANGED <<lock, brk, crashes, late>>

RmBreaker(p) ==
  /\ pc[p] = "rmBreaker"
  /\ RemoveBreaker
  /\ GoTo(p, "mkdir")
  /\ UNCHANGED <<lock, crashes, late>>

Rm(p) ==
  /\ pc[p] = "rm"
  /\ RemoveDir
  /\ GoTo(p, "mkdir2")
  /\ UNCHANGED <<brk, crashes, late>>

Mkdir2(p) ==
  /\ pc[p] = "mkdir2"
  /\ IF dir = None THEN MakeDir(p) /\ GoTo(p, "unclaimWon")
                   ELSE GoTo(p, "unclaimLost") /\ UNCHANGED lock
  /\ UNCHANGED <<brk, crashes, late>>

(* Whatever the second look gave, the breaker path is removed at the end.    *)
Unclaim(p) ==
  /\ pc[p] \in {"unclaimLost", "unclaimWon"}
  /\ RemoveBreaker
  /\ GoTo(p, IF pc[p] = "unclaimWon" THEN "writeHb" ELSE "mkdir")
  /\ UNCHANGED <<lock, crashes, late>>

(* Exclusive writes: when the file is there already, or the directory is     *)
(* gone, whatever lock there is gets removed and acquire fails.              *)
WriteHb(p) ==
  /\ pc[p] = "writeHb"
  /\ IF dir # None /\ ~hb THEN hb' = TRUE /\ stale' = FALSE /\ GoTo(p, "writeMeta")
                          ELSE GoTo(p, "compromised") /\ UNCHANGED <<hb, stale>>
  /\ UNCHANGED <<dir, tok, brk, crashes, late>>

WriteMeta(p) ==
  /\ pc[p] = "writeMeta"
  /\ IF dir # None /\ tok = None
       THEN tok' = p /\ stale' = (stale /\ hb) /\ GoTo(p, "held")
       ELSE GoTo(p, "compromised") /\ UNCHANGED <<tok, stale>>
  /\ UNCHANGED <<dir, hb, brk, crashes, late>>

Compromised(p) ==
  /\ pc[p] = "compromised"
  /\ RemoveDir
  /\ GoTo(p, "done")
  /\ UNCHANGED <<brk, crashes, late>>

-----------------------------------------------------------------------------
(* The owner *)

(* The heartbeat goes to the path, whoever's file is there.                  *)
Beat(p) ==
  /\ pc[p] = "held" /\ Heartbeat
  /\ hb /\ stale
  /\ stale' = FALSE
  /\ UNCHANGED <<pc, dir, hb, tok, brk, crashes, late>>

BodyEnds(p) ==
  /\ pc[p] = "held"
  /\ GoTo(p, "release")
  /\ UNCHANGED <<lock, brk, crashes, late>>

(* release refuses unless the token is its own.                              *)
Release(p) ==
  /\ pc[p] = "release"
  /\ GoTo(p, IF tok = p THEN "rmOwn" ELSE "done")
  /\ UNCHANGED <<lock, brk, crashes, late>>

RmOwn(p) ==
  /\ pc[p] = "rmOwn"
  /\ RemoveDir
  /\ GoTo(p, "done")
  /\ UNCHANGED <<brk, crashes, late>>

-----------------------------------------------------------------------------
(* Crashes and the passing of time *)

Crash(p) ==
  /\ pc[p] \in Live /\ crashes < MaxCrashes
  /\ GoTo(p, "crashed")
  /\ crashes' = crashes + 1
  /\ UNCHANGED <<lock, brk, late>>

(* Does p still act as the one who made the lock, or the breaker?            *)
InCharge(p)  == pc[p] \in {"unclaimWon"} \cup Writing \cup Holding
AtBreaker(p) == pc[p] \in Breaking

AgeLock ==
  /\ dir # None /\ ~stale
  /\ LET kept == InCharge(dir) /\ (pc[dir] \in Holding => Heartbeat) IN
       /\ kept => Pauses
       /\ late' = (late \/ kept)
  /\ stale' = TRUE
  /\ UNCHANGED <<pc, dir, hb, tok, brk, crashes>>

AgeBreaker ==
  /\ breaker # None /\ ~bstale
  /\ AtBreaker(breaker) => Pauses
  /\ late' = TRUE
  /\ bstale' = TRUE
  /\ UNCHANGED <<pc, lock, breaker, crashes>>

Step(p) ==
  \/ Mkdir(p) \/ StatHb(p) \/ StatDir(p) \/ Claim(p) \/ StatBreaker(p) \/ RmBreaker(p)
  \/ Rm(p) \/ Mkdir2(p) \/ Unclaim(p) \/ WriteHb(p) \/ WriteMeta(p) \/ Compromised(p)
  \/ BodyEnds(p) \/ Release(p) \/ RmOwn(p)

Next ==
  \/ \E p \in Procs : Start(p) \/ Step(p) \/ GiveUp(p) \/ Beat(p) \/ Crash(p)
  \/ AgeLock \/ AgeBreaker

Spec == Init /\ [][Next]_vars

(* Processes that have begun go on, critical sections end, and the time of   *)
(* what nobody refreshes passes.                                             *)
FairSpec ==
  /\ Spec
  /\ \A p \in Procs : WF_vars(Step(p))
  /\ WF_vars(AgeLock /\ ~InCharge(dir))
  /\ WF_vars(AgeBreaker /\ ~AtBreaker(breaker))

-----------------------------------------------------------------------------
(* Properties *)

Holders == {p \in Procs : pc[p] \in Holding}

(* At most one process is in its critical section.                           *)
OneHolder == \A p, q \in Holders : p = q

(* As long as no breaker, and no lock of a live process, has ever become     *)
(* stale, owners may crash at any point and at most one process is in its    *)
(* critical section all the same, however the others race to break the lock; *)
(* and the lock on disk is the holder's, with its token, so that nobody has  *)
(* replaced it and release will not refuse.                                  *)
MutualExclusion == ~late => OneHolder /\ \A p \in Holders : dir = p /\ tok = p

(* What makes it inductive: the process that has made the directory or the   *)
(* breaker and not yet ended its part is the one on disk, what it has still  *)
(* to write is not there, and a process that is about to remove the lock     *)
(* removes a stale one.                                                      *)
ProcInv(p) ==
  /\ pc[p] \notin {"rmBreaker", "compromised"}
  /\ InCharge(p) => dir = p /\ ~stale
  /\ AtBreaker(p) => breaker = p
  /\ pc[p] = "rm" => stale
  /\ pc[p] \in {"unclaimWon", "writeHb"} => ~hb /\ tok = None
  /\ pc[p] = "writeMeta" => hb /\ tok = None
  /\ pc[p] \in Holding => tok = p

FlockInv == ~late => ~bstale /\ \A p \in Procs : ProcInv(p)

(* Whoever has crashed where, owner or breaker, nobody waits for ever: each  *)
(* process that has begun obtains the lock and ends, or ends without it.     *)
CrashRecovers == \A p \in Procs : pc[p] \in Live ~> pc[p] \in Over
=============================================================================
