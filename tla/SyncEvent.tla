------------------------------ MODULE SyncEvent ------------------------------
(***************************************************************************)
(* packages/runtime/src/sync/index.ts: the event log of one aggregate (a   *)
(* session) on several devices.  run appends an event on the device that   *)
(* controls the session; replay and replayAll apply events that arrive     *)
(* from another device, in any order, several times or never.              *)
(*                                                                         *)
(* Every device has its own database, a PGlite whose one mutex is held by  *)
(* a transaction until it ends and by a plain statement while it executes. *)
(* A step is one statement, or one transaction that does not read before   *)
(* it writes; a run reads and writes in one transaction and is two steps.  *)
(* replay starts its transaction without awaiting it, but the next read of *)
(* the same fiber queues behind it at the mutex, so the fiber's steps are  *)
(* still in order; what is lost is the transaction's error.                *)
(***************************************************************************)
EXTENDS Integers, Sequences, FiniteSets, Functions

CONSTANTS
  Devices,    \* the devices that hold a copy of the aggregate
  Writers,    \* devices on which run is called for it
  Replicas,   \* devices to which events of it are delivered
  Runners,    \* fibers that call run and remove
  Replayers,  \* fibers that call replay and replayAll
  Owners,     \* values of owner_id
  NoOwner,    \* no owner_id, no options.ownerID
  None,       \* no fiber, no device
  MaxEvents,  \* bound: events created by run
  MaxBatch    \* bound: length of the array given to replayAll

ASSUME SyncAssumption ==
  /\ Writers \subseteq Devices /\ Replicas \subseteq Devices
  /\ NoOwner \notin Owners /\ None \notin Runners \cup Devices
  /\ MaxEvents \in Nat \ {0} /\ MaxBatch \in Nat
  /\ IsFiniteSet(Replayers)

Event  == [id : 1 .. MaxEvents, seq : 0 .. MaxEvents - 1]
Seqs   == -1 .. MaxEvents - 1
Owner0 == Owners \cup {NoOwner}

VARIABLES
  row,      \* row[d]: EventSequenceTable, seq = -1 when there is no row
  log,      \* log[d]: EventTable
  mutex,    \* mutex[d]: the runner whose transaction is open
  run,      \* run[r]: r's open transaction: its device, its id, the seq it read
  rep,      \* rep[f]: what replayer f still has to replay
  created,  \* number of events created so far (EventID.ascending)
  live,     \* devices on which the session has not been deleted
  sent,     \* observation: events that were committed by a run
  applied,  \* observation: applied[d], events projected since the log began
  foreign   \* observation: foreign[d], events projected on d since the last
            \* claim by replays that do not name the owner

vars == <<row, log, mutex, run, rep, created, live, sent, applied, foreign>>

NoRow  == [seq |-> -1, owner |-> NoOwner]
NoRun  == [at |-> None, id |-> 1, seq |-> -1]
NoRep  == [pc |-> "idle", todo |-> <<>>, own |-> NoOwner, at |-> None]

TypeOK ==
  /\ row \in [Devices -> [seq : Seqs, owner : Owner0]]
  /\ log \in [Devices -> SUBSET Event]
  /\ mutex \in [Devices -> Runners \cup {None}]
  /\ run \in [Runners -> [at : Writers \cup {None}, id : 1 .. MaxEvents, seq : Seqs]]
  /\ rep \in [Replayers -> [pc : {"idle", "read", "process"}, todo : Seq(Event),
                            own : Owner0, at : Devices \cup {None}]]
  /\ \A f \in Replayers :
       rep[f].pc # "idle" => rep[f].at \in Replicas /\ rep[f].todo # <<>>
  /\ created \in 0 .. MaxEvents
  /\ live \subseteq Devices
  /\ sent \subseteq Event
  /\ applied \in [Devices -> Seq(Event)]
  /\ foreign \in [Devices -> Nat]

Init ==
  /\ row = [d \in Devices |-> NoRow]
  /\ log = [d \in Devices |-> {}]
  /\ mutex = [d \in Devices |-> None]
  /\ run = [r \in Runners |-> NoRun]
  /\ rep = [f \in Replayers |-> NoRep]
  /\ created = 0
  /\ live = Devices
  /\ sent = {}
  /\ applied = [d \in Devices |-> <<>>]
  /\ foreign = [d \in Devices |-> 0]

-----------------------------------------------------------------------------
(* process: the projector, the sequence row and the event row, in one        *)
(* transaction.  The id is the primary key of EventTable: a second insert of *)
(* it fails and takes the projection back.  owner_id is set by the insert of *)
(* the sequence row only.                                                    *)

NewId(d, e) == \A f \in log[d] : f.id # e.id

(* Mutant: the row is inserted whether or not the id is there.               *)
ProcessAnyId(d, e, own) ==
  /\ row' = [row EXCEPT ![d] = [seq   |-> e.seq,
                                owner |-> IF @.seq = -1 THEN own ELSE @.owner]]
  /\ log' = [log EXCEPT ![d] = @ \cup {e}]
  /\ applied' = [applied EXCEPT ![d] = Append(@, e)]

Process(d, e, own) ==
  /\ NewId(d, e)
  /\ row' = [row EXCEPT ![d] = [seq   |-> e.seq,
                                owner |-> IF @.seq = -1 THEN own ELSE @.owner]]
  /\ log' = [log EXCEPT ![d] = @ \cup {e}]
  /\ applied' = [applied EXCEPT ![d] = Append(@, e)]

-----------------------------------------------------------------------------
(* run: the transaction takes an id and reads the sequence number; no caller *)
(* runs an event of a session it has deleted.                                *)

RunBegin(r, d) ==
  /\ mutex[d] = None
  /\ run[r].at = None /\ d \in live
  /\ created < MaxEvents
  /\ created' = created + 1
  /\ run' = [run EXCEPT ![r] = [at |-> d, id |-> created + 1, seq |-> row[d].seq]]
  /\ mutex' = [mutex EXCEPT ![d] = r]
  /\ UNCHANGED <<row, log, rep, live, sent, applied, foreign>>

RunEnd(r, d) ==
  /\ run[r].at = d
  /\ run' = [run EXCEPT ![r] = NoRun]
  /\ mutex' = [mutex EXCEPT ![d] = None]

(* ... and processes the event with the next number; or the projector fails  *)
(* and the transaction is rolled back.                                       *)
RunCommit(r, d) ==
  /\ RunEnd(r, d)
  /\ LET e == [id |-> run[r].id, seq |-> run[r].seq + 1]
     IN  /\ Process(d, e, NoOwner)
         /\ sent' = sent \cup {e}
  /\ UNCHANGED <<rep, created, live, foreign>>

RunFails(r, d) ==
  /\ RunEnd(r, d)
  /\ UNCHANGED <<row, log, rep, created, live, sent, applied, foreign>>

(* remove, which Session.remove calls after the run of the Deleted event.    *)
Remove(d) ==
  /\ mutex[d] = None /\ d \in live
  /\ row[d].seq # -1
  /\ row' = [row EXCEPT ![d] = NoRow]
  /\ log' = [log EXCEPT ![d] = {}]
  /\ applied' = [applied EXCEPT ![d] = <<>>]
  /\ live' = live \ {d}
  /\ UNCHANGED <<mutex, run, rep, created, sent, foreign>>

(* claim updates the row, if there is one.                                   *)
Claim(d, o) ==
  /\ mutex[d] = None
  /\ row[d].seq # -1
  /\ row' = [row EXCEPT ![d].owner = o]
  /\ foreign' = [foreign EXCEPT ![d] = 0]
  /\ UNCHANGED <<log, mutex, run, rep, created, live, sent, applied>>

-----------------------------------------------------------------------------
(* replay and replayAll.  The events come from another device: any events    *)
(* it has committed; replayAll refuses an array whose numbers do not follow  *)
(* each other.  replay is a batch of one.                                    *)

Batches ==
  {b \in UNION {[1 .. n -> sent] : n \in 1 .. MaxBatch} :
     \A i \in DOMAIN b : b[i].seq = b[1].seq + i - 1}

Begin(f, d, b, o) ==
  /\ rep[f].pc = "idle"
  /\ rep' = [rep EXCEPT ![f] = [pc |-> "read", todo |-> b, own |-> o, at |-> d]]
  /\ UNCHANGED <<row, log, mutex, run, created, live, sent, applied, foreign>>

(* Mutant: the end of the array is not noticed.                              *)
AdvanceNoEnd(f) ==
  rep' = [rep EXCEPT ![f].pc = "read", ![f].todo = Tail(@)]

Advance(f) ==
  IF Len(rep[f].todo) = 1
    THEN rep' = [rep EXCEPT ![f] = NoRep]
    ELSE rep' = [rep EXCEPT ![f].pc = "read", ![f].todo = Tail(@)]

Owned(f)  == LET o == row[rep[f].at].owner IN o # NoOwner /\ o # rep[f].own

(* Mutants: the owner is not looked at; a number beyond the next is applied. *)
VerdictAnyOwner(f) ==
  LET e == Head(rep[f].todo) latest == row[rep[f].at].seq
  IN  IF e.seq <= latest THEN "skip"
      ELSE IF e.seq # latest + 1 THEN "mismatch" ELSE "apply"
VerdictAnySeq(f) ==
  IF Head(rep[f].todo).seq <= row[rep[f].at].seq \/ Owned(f) THEN "skip" ELSE "apply"

Verdict(f) ==
  LET e == Head(rep[f].todo) latest == row[rep[f].at].seq
  IN  IF e.seq <= latest \/ Owned(f) THEN "skip"
      ELSE IF e.seq # latest + 1 THEN "mismatch" ELSE "apply"

(* The read of replay: seen already or owned by another, the next event; a   *)
(* gap, the error ends the call.                                             *)
Read(f) ==
  /\ rep[f].pc = "read" /\ mutex[rep[f].at] = None
  /\ CASE Verdict(f) = "skip"     -> Advance(f)
       [] Verdict(f) = "mismatch" -> rep' = [rep EXCEPT ![f] = NoRep]
       [] Verdict(f) = "apply"    -> rep' = [rep EXCEPT ![f].pc = "process"]
  /\ UNCHANGED <<row, log, mutex, run, created, live, sent, applied, foreign>>

(* The transaction replay started on what it read.                           *)
Apply(f) ==
  LET d == rep[f].at
  IN  /\ rep[f].pc = "process" /\ mutex[d] = None
      /\ Process(d, Head(rep[f].todo), rep[f].own)
      /\ foreign' = [foreign EXCEPT ![d] = IF Owned(f) THEN @ + 1 ELSE @]
      /\ Advance(f)
      /\ UNCHANGED <<mutex, run, created, live, sent>>

(* It fails, on the primary key or in the projector: nothing is written, and *)
(* replayAll goes on with the next event.                                    *)
ApplyFails(f) ==
  /\ rep[f].pc = "process" /\ mutex[rep[f].at] = None
  /\ Advance(f)
  /\ UNCHANGED <<row, log, mutex, run, created, live, sent, applied, foreign>>

Next ==
  \/ \E r \in Runners, d \in Writers :
       RunBegin(r, d) \/ RunCommit(r, d) \/ RunFails(r, d)
  \/ \E d \in Writers : Remove(d)
  \/ \E d \in Replicas, o \in Owners : Claim(d, o)
  \/ \E f \in Replayers, d \in Replicas, b \in Batches, o \in Owner0 : Begin(f, d, b, o)
  \/ \E f \in Replayers : Read(f) \/ Apply(f) \/ ApplyFails(f)

Spec == Init /\ [][Next]_vars

-----------------------------------------------------------------------------
(* Properties *)

(* On every device the event table, the sequence row and what was projected  *)
(* tell the same story: events 0 to seq, each once and in order, whatever    *)
(* replays were interleaved, repeated or rolled back.                        *)
LogMatchesProjection ==
  \A d \in Devices :
    /\ \A i \in DOMAIN applied[d] : applied[d][i].seq = i - 1
    /\ log[d] = Range(applied[d])
    /\ row[d].seq = Len(applied[d]) - 1

(* With one writing device, any two devices have projected the same events   *)
(* in the same order as far as both have got.                                *)
PrefixAgreement ==
  \A d, e \in Devices :
    \A i \in DOMAIN applied[d] \cap DOMAIN applied[e] : applied[d][i] = applied[e][i]

(* A claim does not stop the replays that have read the row before it, but   *)
(* each of them applies at most one more event: the next one reads again.    *)
ForeignBounded == \A d \in Devices : foreign[d] <= Cardinality(Replayers)

(* "any future events coming from the old workspace are ignored" once the    *)
(* session is claimed: no event is projected for anyone but the owner.       *)
ClaimStopsOthers == \A d \in Devices : foreign[d] = 0

-----------------------------------------------------------------------------
(* The inductive invariant behind the properties, for sessions that are      *)
(* controlled by one device.                                                 *)

SingleWriter == \A d, e \in Writers : d = e

(* Every number is smaller than the id it came with, and every id that is in *)
(* use has been created: the numbers stay within their type.                 *)
NumbersInv ==
  /\ \A e \in sent : e.seq < e.id /\ e.id <= created
  /\ \A d \in Devices : row[d].seq < created
  /\ \A r \in Runners : run[r].at # None =>
       run[r].id <= created /\ run[r].seq + 1 < run[r].id
  /\ \A f \in Replayers : Range(rep[f].todo) \subseteq sent

(* An open run holds the mutex of its device, so what it read is still in    *)
(* the row, and its id is in no log.                                         *)
RunInv ==
  \A r \in Runners : run[r].at # None =>
    /\ mutex[run[r].at] = r
    /\ run[r].at \in live
    /\ run[r].seq = row[run[r].at].seq
    /\ \A e \in sent : e.id # run[r].id

(* One event per number; the writer is ahead of what it has sent until it    *)
(* deletes the session; every device has applied events that were sent.      *)
SentInv ==
  /\ \A e, g \in sent : e.seq = g.seq => e = g
  /\ \A d \in Writers \cap live : \A e \in sent : e.seq <= row[d].seq
  /\ \A d \in Devices : Range(applied[d]) \subseteq sent

(* A replay that has decided to apply is not behind a gap, and not on the    *)
(* device that writes: the row can only have moved on since it was read.     *)
ProcessInv ==
  \A f \in Replayers : rep[f].pc = "process" =>
    /\ Head(rep[f].todo).seq <= row[rep[f].at].seq + 1
    /\ rep[f].at \notin Writers \cap live

(* Those that will apply one more event although another owns the session.   *)
Trespassers(d) ==
  {f \in Replayers : rep[f].pc = "process" /\ rep[f].at = d /\ Owned(f)}

ForeignInv ==
  \A d \in Devices :
    /\ foreign[d] + Cardinality(Trespassers(d)) <= Cardinality(Replayers)
    /\ row[d].seq = -1 => row[d].owner = NoOwner
    /\ row[d].seq = -1 \/ d \in Writers \cap live => foreign[d] = 0

SyncInv ==
  /\ TypeOK /\ NumbersInv /\ RunInv /\ SentInv /\ ProcessInv
  /\ LogMatchesProjection /\ ForeignInv
=============================================================================
