--------------------------- MODULE SyncEventProofs ---------------------------
(***************************************************************************)
(* That the event logs of SyncEvent stay in order and agree, for any       *)
(* number of devices, fibers and events, when one device writes.           *)
(***************************************************************************)
EXTENDS SyncEvent, SequenceTheorems, FiniteSetTheorems, TLAPS

RepType == [pc : {"idle", "read", "process"}, todo : Seq(Event),
            own : Owner0, at : Devices \cup {None}]
RunType == [at : Writers \cup {None}, id : 1 .. MaxEvents, seq : Seqs]
RowType == [seq : Seqs, owner : Owner0]

(* The head of a non-empty sequence is one of its elements, and its tail has *)
(* no others.                                                                *)
LEMMA HeadTailRange ==
  ASSUME NEW S, NEW s \in Seq(S), s # <<>>
  PROVE  /\ Head(s) \in S /\ Head(s) \in Range(s)
         /\ Tail(s) \in Seq(S)
         /\ Range(Tail(s)) \subseteq Range(s)
         /\ Len(s) # 1 => Tail(s) # <<>>
<1>1. Len(s) \in Nat \ {0} /\ DOMAIN s = 1 .. Len(s)
  BY EmptySeq, LenProperties
<1>2. /\ Head(s) \in S /\ Tail(s) \in Seq(S) /\ Len(Tail(s)) = Len(s) - 1
      /\ \A i \in 1 .. Len(Tail(s)) : Tail(s)[i] = s[i + 1]
  BY HeadTailProperties
<1>3. Head(s) = s[1] /\ s[1] \in Range(s)
  BY <1>1 DEF Range
<1>4. Range(Tail(s)) \subseteq Range(s)
  <2>1. DOMAIN Tail(s) = 1 .. Len(Tail(s)) /\ Len(Tail(s)) \in Nat
    BY <1>2, LenProperties
  <2>2. SUFFICES ASSUME NEW i \in 1 .. Len(Tail(s)) PROVE Tail(s)[i] \in Range(s)
    BY <2>1 DEF Range
  <2>3. i + 1 \in DOMAIN s /\ Tail(s)[i] = s[i + 1]
    BY <1>1, <1>2, <2>1
  <2> QED BY <2>3 DEF Range
<1>5. Len(s) # 1 => Tail(s) # <<>>
  <2>1. Len(<<>>) = 0
    BY EmptySeq
  <2>2. SUFFICES ASSUME Tail(s) = <<>> PROVE Len(s) = 1
    OBVIOUS
  <2>3. Len(s) - 1 = 0
    BY <1>2, <2>1, <2>2, Zenon
  <2>4. \A n \in Nat : n - 1 = 0 => n = 1
    OBVIOUS
  <2> QED BY <1>1, <2>3, <2>4, Zenon
<1> QED BY <1>2, <1>3, <1>4, <1>5

(* One more element at the end adds that element and nothing else.           *)
LEMMA AppendRange ==
  ASSUME NEW S, NEW s \in Seq(S), NEW x \in S
  PROVE  /\ Append(s, x) \in Seq(S)
         /\ DOMAIN Append(s, x) = 1 .. Len(s) + 1
         /\ Len(Append(s, x)) = Len(s) + 1 /\ Len(s) \in Nat
         /\ \A i \in 1 .. Len(s) : Append(s, x)[i] = s[i]
         /\ Append(s, x)[Len(s) + 1] = x
         /\ Range(Append(s, x)) = Range(s) \cup {x}
<1>1. /\ Append(s, x) \in Seq(S) /\ Len(Append(s, x)) = Len(s) + 1
      /\ \A i \in 1 .. Len(s) : Append(s, x)[i] = s[i]
      /\ Append(s, x)[Len(s) + 1] = x
  BY AppendProperties
<1>2. DOMAIN s = 1 .. Len(s) /\ Len(s) \in Nat
  BY LenProperties
<1>3. DOMAIN Append(s, x) = 1 .. Len(s) + 1
  BY <1>1, LenProperties
<1>4. Range(Append(s, x)) = Range(s) \cup {x}
  <2>1. ASSUME NEW y \in Range(Append(s, x)) PROVE y \in Range(s) \cup {x}
    <3>1. PICK i \in 1 .. Len(s) + 1 : y = Append(s, x)[i]
      BY <2>1, <1>3 DEF Range
    <3>2. CASE i = Len(s) + 1
      BY <3>1, <3>2, <1>1
    <3>3. CASE i \in 1 .. Len(s)
      BY <3>1, <3>3, <1>1, <1>2 DEF Range
    <3> QED BY <3>2, <3>3, <1>2
  <2>2. ASSUME NEW y \in Range(s) PROVE y \in Range(Append(s, x))
    <3>1. PICK i \in 1 .. Len(s) : y = s[i]
      BY <2>2, <1>2 DEF Range
    <3>2. i \in 1 .. Len(s) + 1 /\ y = Append(s, x)[i]
      BY <3>1, <1>1, <1>2
    <3> QED BY <3>2, <1>3 DEF Range
  <2>3. x \in Range(Append(s, x))
    <3>1. Len(s) + 1 \in 1 .. Len(s) + 1
      BY <1>2
    <3> QED BY <3>1, <1>1, <1>3 DEF Range
  <2> QED BY <2>1, <2>2, <2>3
<1> QED BY <1>1, <1>2, <1>3, <1>4

-----------------------------------------------------------------------------
(* What replayer f does with its array: it drops the first event, or ends.   *)
Moves(f) ==
  /\ rep' \in [Replayers -> RepType]
  /\ \A g \in Replayers \ {f} : rep'[g] = rep[g]
  /\ rep'[f].pc # "idle" => rep'[f].at = rep[f].at /\ rep'[f].todo # <<>>
  /\ Range(rep'[f].todo) \subseteq Range(rep[f].todo)
  /\ rep'[f].pc = "process" =>
       /\ rep[f].pc = "read" /\ rep'[f].todo = rep[f].todo /\ rep'[f].own = rep[f].own
       /\ Head(rep[f].todo).seq = row[rep[f].at].seq + 1
       /\ ~Owned(f)

(* The empty array names no event.                                           *)
LEMMA NoRepType ==
  NoRep \in RepType /\ NoRep.pc = "idle" /\ NoRep.todo = <<>> /\ Range(NoRep.todo) = {}
<1>1. NoRep \in RepType /\ NoRep.pc = "idle" /\ NoRep.todo = <<>>
  BY EmptySeq DEF NoRep, RepType, Owner0
<1>2. Range(<<>>) = {}
  BY EmptySeq, LenProperties DEF Range
<1> QED BY <1>1, <1>2

(* The loop of replayAll takes the next event or ends.                       *)
LEMMA AdvanceMoves ==
  ASSUME TypeOK, NEW f \in Replayers, rep[f].pc # "idle", Advance(f)
  PROVE  Moves(f) /\ rep'[f].pc # "process"
<1>1. rep \in [Replayers -> RepType] /\ rep[f].todo \in Seq(Event) /\ rep[f].todo # <<>>
  BY DEF TypeOK, RepType
<1>2. CASE Len(rep[f].todo) = 1
  <2>1. rep' = [rep EXCEPT ![f] = NoRep]
    BY <1>2 DEF Advance
  <2>2. rep'[f] = NoRep
    BY <1>1, <2>1
  <2> QED BY <1>1, <2>1, <2>2, NoRepType DEF Moves
<1>3. CASE Len(rep[f].todo) # 1
  <2>1. rep' = [rep EXCEPT ![f].pc = "read", ![f].todo = Tail(@)]
    BY <1>3 DEF Advance
  <2>2. rep'[f] = [rep[f] EXCEPT !.pc = "read", !.todo = Tail(rep[f].todo)]
    BY <1>1, <2>1
  <2>3. /\ Tail(rep[f].todo) \in Seq(Event) /\ Tail(rep[f].todo) # <<>>
        /\ Range(Tail(rep[f].todo)) \subseteq Range(rep[f].todo)
    BY <1>1, <1>3, HeadTailRange
  <2>4. rep'[f] \in RepType /\ rep'[f].pc = "read"
        /\ rep'[f].todo = Tail(rep[f].todo) /\ rep'[f].at = rep[f].at
    <3>1. PICK x \in RepType : x = rep[f]
      BY <1>1
    <3>2. PICK s \in Seq(Event) : s = Tail(rep[f].todo)
      BY <2>3
    <3>3. PICK y : y = [x EXCEPT !.pc = "read", !.todo = s]
      OBVIOUS
    <3>4. y \in RepType /\ y.pc = "read" /\ y.todo = s /\ y.at = x.at
      BY <3>3 DEF RepType
    <3>5. rep'[f] = y
      BY <2>2, <3>1, <3>2, <3>3, Zenon
    <3> QED BY <3>1, <3>2, <3>4, <3>5
  <2>5. \A g \in Replayers \ {f} : rep'[g] = rep[g]
    BY <1>1, <2>1
  <2>6. rep' \in [Replayers -> RepType]
    BY <1>1, <2>1, <2>4, <2>5
  <2> QED BY <2>3, <2>4, <2>5, <2>6 DEF Moves
<1> QED BY <1>2, <1>3

(* The read of replay advances, ends the call or decides to apply.           *)
LEMMA ReadMoves ==
  ASSUME TypeOK, NEW f \in Replayers, Read(f)
  PROVE  Moves(f)
<1>1. rep \in [Replayers -> RepType] /\ rep[f].pc = "read"
      /\ rep[f].todo \in Seq(Event) /\ rep[f].todo # <<>>
  BY DEF TypeOK, RepType, Read
<1>2. \/ Verdict(f) = "skip" /\ Advance(f)
      \/ Verdict(f) = "mismatch" /\ rep' = [rep EXCEPT ![f] = NoRep]
      \/ Verdict(f) = "apply" /\ rep' = [rep EXCEPT ![f].pc = "process"]
  <2>1. Verdict(f) \in {"skip", "mismatch", "apply"}
    BY DEF Verdict
  <2> QED BY <2>1 DEF Read
<1>3. CASE Advance(f)
  BY <1>1, <1>3, AdvanceMoves
<1>4. CASE rep' = [rep EXCEPT ![f] = NoRep]
  <2>1. rep'[f] = NoRep
    BY <1>1, <1>4
  <2> QED BY <1>1, <1>4, <2>1, NoRepType DEF Moves
<1>5. CASE Verdict(f) = "apply" /\ rep' = [rep EXCEPT ![f].pc = "process"]
  <2>1. Head(rep[f].todo).seq = row[rep[f].at].seq + 1 /\ ~Owned(f)
    BY <1>5 DEF Verdict
  <2>2. rep'[f] = [rep[f] EXCEPT !.pc = "process"]
    BY <1>1, <1>5
  <2>3. /\ rep'[f] \in RepType /\ rep'[f].todo = rep[f].todo
        /\ rep'[f].at = rep[f].at /\ rep'[f].own = rep[f].own
    BY <1>1, <2>2 DEF RepType
  <2>4. \A g \in Replayers \ {f} : rep'[g] = rep[g]
    BY <1>1, <1>5
  <2>5. rep' \in [Replayers -> RepType]
    BY <1>1, <1>5, <2>3, <2>4
  <2> QED BY <1>1, <2>1, <2>3, <2>4, <2>5 DEF Moves
<1> QED BY <1>2, <1>3, <1>4, <1>5

(* The transaction of process: the row, the log and what was projected.      *)
LEMMA ProcessEffect ==
  ASSUME TypeOK, NEW d \in Devices, NEW e \in Event, NEW own \in Owner0,
         Process(d, e, own)
  PROVE  /\ row' \in [Devices -> RowType]
         /\ log' \in [Devices -> SUBSET Event]
         /\ applied' \in [Devices -> Seq(Event)]
         /\ row'[d].seq = e.seq
         /\ row'[d].owner = IF row[d].seq = -1 THEN own ELSE row[d].owner
         /\ log'[d] = log[d] \cup {e}
         /\ applied'[d] = Append(applied[d], e)
         /\ \A c \in Devices \ {d} :
              row'[c] = row[c] /\ log'[c] = log[c] /\ applied'[c] = applied[c]
<1> DEFINE new == [seq |-> e.seq, owner |-> IF row[d].seq = -1 THEN own ELSE row[d].owner]
<1>1. row \in [Devices -> RowType] /\ log \in [Devices -> SUBSET Event]
      /\ applied \in [Devices -> Seq(Event)]
  BY DEF TypeOK, RowType
<1>2. new \in RowType /\ new.seq = e.seq
      /\ new.owner = IF row[d].seq = -1 THEN own ELSE row[d].owner
  <2>1. e.seq \in Seqs
    BY SyncAssumption DEF Event, Seqs
  <2>2. row[d].owner \in Owner0
    BY <1>1 DEF RowType
  <2> QED BY <2>1, <2>2 DEF RowType
<1>3. row' = [row EXCEPT ![d] = new]
  BY DEF Process
<1>4. log' = [log EXCEPT ![d] = log[d] \cup {e}]
  BY DEF Process
<1>5. applied' = [applied EXCEPT ![d] = Append(applied[d], e)]
  BY DEF Process
<1>6. Append(applied[d], e) \in Seq(Event)
  BY <1>1, AppendProperties
<1> HIDE DEF new
<1>7. row' \in [Devices -> RowType] /\ row'[d] = new
      /\ \A c \in Devices \ {d} : row'[c] = row[c]
  BY <1>1, <1>2, <1>3
<1>8. log' \in [Devices -> SUBSET Event] /\ log'[d] = log[d] \cup {e}
      /\ \A c \in Devices \ {d} : log'[c] = log[c]
  BY <1>1, <1>4
<1>9. applied' \in [Devices -> Seq(Event)] /\ applied'[d] = Append(applied[d], e)
      /\ \A c \in Devices \ {d} : applied'[c] = applied[c]
  BY <1>1, <1>5, <1>6
<1> QED BY <1>2, <1>7, <1>8, <1>9

(* The event a run commits has the next number and is well-formed.           *)
LEMMA RunEvent ==
  ASSUME TypeOK, NumbersInv, NEW r \in Runners, run[r].at # None
  PROVE  /\ [id |-> run[r].id, seq |-> run[r].seq + 1] \in Event
         /\ run[r].seq \in Int /\ run[r].id \in Nat
<1>1. run[r] \in RunType
  BY DEF TypeOK, RunType
<1>2. run[r].id \in 1 .. MaxEvents /\ run[r].seq \in -1 .. MaxEvents - 1
  BY <1>1 DEF RunType, Seqs
<1>3. run[r].seq + 1 < run[r].id
  BY DEF NumbersInv
<1>4. MaxEvents \in Nat
  BY SyncAssumption
<1>5. run[r].seq + 1 \in 0 .. MaxEvents - 1
  BY <1>2, <1>3, <1>4
<1> QED BY <1>2, <1>4, <1>5 DEF Event

(* The event a replay applies was sent.                                      *)
LEMMA HeadSent ==
  ASSUME TypeOK, NumbersInv, NEW f \in Replayers, rep[f].pc # "idle"
  PROVE  /\ Head(rep[f].todo) \in Event /\ Head(rep[f].todo) \in sent
         /\ rep[f].at \in Replicas /\ rep[f].at \in Devices /\ rep[f].own \in Owner0
<1>1. rep[f] \in RepType /\ rep[f].todo # <<>> /\ rep[f].at \in Replicas
  BY DEF TypeOK, RepType
<1>2. rep[f].todo \in Seq(Event) /\ rep[f].own \in Owner0
  BY <1>1 DEF RepType
<1>3. Head(rep[f].todo) \in Event /\ Head(rep[f].todo) \in Range(rep[f].todo)
  BY <1>1, <1>2, HeadTailRange
<1> QED BY <1>1, <1>2, <1>3, SyncAssumption DEF NumbersInv

(* A batch is a non-empty sequence of events that were sent.                 *)
LEMMA BatchType ==
  ASSUME NEW b \in Batches, sent \subseteq Event
  PROVE  b \in Seq(Event) /\ b # <<>> /\ Range(b) \subseteq sent
<1>1. PICK n \in 1 .. MaxBatch : b \in [1 .. n -> sent]
  BY DEF Batches
<1>2. b \in Seq(sent) /\ n \in Nat \ {0}
  BY <1>1, SyncAssumption
<1>3. Range(b) \subseteq sent
  BY <1>1 DEF Range
<1>4. b # <<>>
  <2>1. DOMAIN b = 1 .. n /\ 1 \in 1 .. n
    BY <1>1, <1>2
  <2>2. DOMAIN <<>> = {}
    BY EmptySeq, LenProperties
  <2> QED BY <2>1, <2>2
<1>5. b \in Seq(Event)
  BY <1>2, SeqMonotonic
<1> QED BY <1>3, <1>4, <1>5

-----------------------------------------------------------------------------
(* Types and numbers.  They need no assumption on who writes.                *)

TypeInv == TypeOK /\ NumbersInv

LEMMA InitTypeInv == Init => TypeInv
<1> SUFFICES ASSUME Init PROVE TypeInv
  OBVIOUS
<1> USE SyncAssumption
<1>1. NoRow \in [seq : Seqs, owner : Owner0] /\ NoRow.seq = -1
  BY DEF NoRow, Seqs, Owner0
<1>2. NoRun \in [at : Writers \cup {None}, id : 1 .. MaxEvents, seq : Seqs] /\ NoRun.at = None
  BY DEF NoRun, Seqs
<1>3. NoRep \in RepType /\ NoRep.pc = "idle" /\ Range(NoRep.todo) = {}
  BY NoRepType
<1>4. <<>> \in Seq(Event)
  BY EmptySeq
<1>5. TypeOK
  BY <1>1, <1>2, <1>3, <1>4 DEF Init, TypeOK, RepType
<1>6. NumbersInv
  BY <1>1, <1>2, <1>3 DEF Init, NumbersInv
<1> QED BY <1>5, <1>6 DEF TypeInv

(* RunBegin gives its run an id above every number that is in use.           *)
LEMMA TypeRunBegin ==
  ASSUME TypeInv, NEW r \in Runners, NEW d \in Writers, RunBegin(r, d)
  PROVE  TypeInv'
<1> DEFINE new == [at |-> d, id |-> created + 1, seq |-> row[d].seq]
<1> USE SyncAssumption
<1>1. TypeOK /\ NumbersInv /\ d \in Devices
  BY DEF TypeInv
<1>2. run \in [Runners -> RunType] /\ created \in 0 .. MaxEvents /\ created < MaxEvents
      /\ row[d].seq \in Seqs /\ row[d].seq < created
  BY <1>1 DEF TypeOK, RunType, RowType, RunBegin, NumbersInv
<1>3. new \in RunType /\ new.at = d /\ new.id = created + 1 /\ new.seq = row[d].seq
      /\ created' = created + 1 /\ created' \in 0 .. MaxEvents
  BY <1>2 DEF RunType, RunBegin
<1>4. row[d].seq + 1 < created + 1
  BY <1>2 DEF Seqs
<1>5. run' = [run EXCEPT ![r] = new]
  BY DEF RunBegin
<1> HIDE DEF new
<1>6. run' \in [Runners -> RunType] /\ run'[r] = new
      /\ \A q \in Runners \ {r} : run'[q] = run[q]
  BY <1>2, <1>3, <1>5
<1>7. mutex' \in [Devices -> Runners \cup {None}]
  BY <1>1 DEF TypeOK, RunBegin
<1>8. TypeOK'
  BY <1>1, <1>3, <1>6, <1>7 DEF TypeOK, RunBegin, RunType
<1>9. \A e \in sent' : e.seq < e.id /\ e.id <= created'
  <2>1. SUFFICES ASSUME NEW e \in sent PROVE e.seq < e.id /\ e.id <= created + 1
    BY <1>3 DEF RunBegin
  <2>2. e.id \in Int /\ e.seq < e.id /\ e.id <= created
    BY <1>1 DEF TypeOK, Event, NumbersInv
  <2> QED BY <2>2, <1>2
<1>10. \A c \in Devices : row'[c].seq < created'
  <2>1. SUFFICES ASSUME NEW c \in Devices PROVE row[c].seq < created + 1
    BY <1>3 DEF RunBegin
  <2>2. row[c].seq \in Int /\ row[c].seq < created
    BY <1>1 DEF TypeOK, Seqs, NumbersInv
  <2> QED BY <2>2, <1>2
<1>11. \A q \in Runners : run'[q].at # None =>
         run'[q].id <= created' /\ run'[q].seq + 1 < run'[q].id
  <2>1. ASSUME NEW q \in Runners \ {r}, run[q].at # None
        PROVE  run[q].id <= created + 1 /\ run[q].seq + 1 < run[q].id
    <3>1. run[q].id \in Int /\ run[q].id <= created /\ run[q].seq + 1 < run[q].id
      BY <1>1, <2>1 DEF TypeOK, NumbersInv
    <3> QED BY <3>1, <1>2
  <2>2. new.id <= created + 1 /\ new.seq + 1 < new.id
    BY <1>2, <1>3, <1>4
  <2> QED BY <1>3, <1>6, <2>1, <2>2
<1>12. \A f \in Replayers : Range(rep'[f].todo) \subseteq sent'
  BY <1>1 DEF NumbersInv, RunBegin
<1> QED BY <1>8, <1>9, <1>10, <1>11, <1>12 DEF TypeInv, NumbersInv

(* The end of a run, with or without its event.                              *)
LEMMA RunEndEffect ==
  ASSUME TypeOK, NEW r \in Runners, NEW d \in Writers, RunEnd(r, d)
  PROVE  /\ run' \in [Runners -> RunType] /\ mutex' \in [Devices -> Runners \cup {None}]
         /\ run'[r].at = None /\ run[r].at = d /\ d # None /\ d \in Devices
         /\ \A q \in Runners \ {r} : run'[q] = run[q]
         /\ \A c \in Devices \ {d} : mutex'[c] = mutex[c]
<1> USE SyncAssumption
<1>1. NoRun \in RunType /\ NoRun.at = None
  BY DEF NoRun, Seqs, RunType
<1>2. run \in [Runners -> RunType] /\ mutex \in [Devices -> Runners \cup {None}]
  BY DEF TypeOK, RunType
<1>3. run' = [run EXCEPT ![r] = NoRun] /\ mutex' = [mutex EXCEPT ![d] = None] /\ run[r].at = d
  BY DEF RunEnd
<1>4. run'[r] = NoRun
  BY <1>2, <1>3
<1> QED BY <1>1, <1>2, <1>3, <1>4

LEMMA TypeRunCommit ==
  ASSUME TypeInv, NEW r \in Runners, NEW d \in Writers, RunCommit(r, d)
  PROVE  TypeInv'
<1> DEFINE e == [id |-> run[r].id, seq |-> run[r].seq + 1]
<1> USE SyncAssumption
<1>1. TypeOK /\ NumbersInv /\ RunEnd(r, d)
  BY DEF TypeInv, RunCommit
<1>2. /\ run' \in [Runners -> RunType] /\ mutex' \in [Devices -> Runners \cup {None}]
      /\ run'[r].at = None /\ run[r].at = d /\ d # None /\ d \in Devices
      /\ \A q \in Runners \ {r} : run'[q] = run[q]
  BY <1>1, RunEndEffect
<1>3. e \in Event /\ e.seq = run[r].seq + 1 /\ e.id = run[r].id
  BY <1>1, <1>2, RunEvent
<1>4. Process(d, e, NoOwner) /\ sent' = sent \cup {e} /\ NoOwner \in Owner0
  BY DEF RunCommit, Owner0
<1>5. e.seq < e.id /\ e.id <= created
  BY <1>1, <1>2, <1>3 DEF NumbersInv
<1> HIDE DEF e
<1>6. /\ row' \in [Devices -> RowType] /\ log' \in [Devices -> SUBSET Event]
      /\ applied' \in [Devices -> Seq(Event)] /\ row'[d].seq = e.seq
      /\ \A c \in Devices \ {d} : row'[c] = row[c]
  BY <1>1, <1>2, <1>3, <1>4, ProcessEffect
<1>7. UNCHANGED <<rep, created, live, foreign>>
  BY DEF RunCommit
<1>8. TypeOK'
  BY <1>1, <1>2, <1>3, <1>4, <1>6, <1>7 DEF TypeOK, RunType, RowType
<1>9. e.seq < created
  BY <1>3, <1>5, <1>1 DEF Event, TypeOK
<1>10. NumbersInv'
  <2>1. \A c \in Devices : row'[c].seq < created'
    BY <1>1, <1>6, <1>7, <1>9 DEF NumbersInv
  <2>2. \A q \in Runners : run'[q].at # None =>
          run'[q].id <= created' /\ run'[q].seq + 1 < run'[q].id
    BY <1>1, <1>2, <1>7 DEF NumbersInv
  <2>3. \A g \in sent' : g.seq < g.id /\ g.id <= created'
    BY <1>1, <1>4, <1>5, <1>7 DEF NumbersInv
  <2>4. \A f \in Replayers : Range(rep'[f].todo) \subseteq sent'
    BY <1>1, <1>4, <1>7 DEF NumbersInv
  <2> QED BY <2>1, <2>2, <2>3, <2>4 DEF NumbersInv
<1> QED BY <1>8, <1>10 DEF TypeInv

LEMMA TypeRunFails ==
  ASSUME TypeInv, NEW r \in Runners, NEW d \in Writers, RunFails(r, d)
  PROVE  TypeInv'
<1>1. TypeOK /\ NumbersInv /\ RunEnd(r, d)
      /\ UNCHANGED <<row, log, rep, created, live, sent, applied, foreign>>
  BY DEF TypeInv, RunFails
<1>2. /\ run' \in [Runners -> RunType] /\ mutex' \in [Devices -> Runners \cup {None}]
      /\ run'[r].at = None /\ \A q \in Runners \ {r} : run'[q] = run[q]
  BY <1>1, RunEndEffect
<1>3. TypeOK'
  BY <1>1, <1>2 DEF TypeOK, RunType
<1>4. NumbersInv'
  BY <1>1, <1>2 DEF NumbersInv
<1> QED BY <1>3, <1>4 DEF TypeInv

LEMMA TypeRemove ==
  ASSUME TypeInv, NEW d \in Writers, Remove(d)
  PROVE  TypeInv'
<1> USE SyncAssumption
<1>1. TypeOK /\ NumbersInv /\ d \in Devices
      /\ UNCHANGED <<mutex, run, rep, created, sent, foreign>>
  BY DEF TypeInv, Remove
<1>2. NoRow \in RowType /\ NoRow.seq = -1
  BY DEF NoRow, RowType, Seqs, Owner0
<1>3. row' \in [Devices -> RowType] /\ row'[d] = NoRow
      /\ \A c \in Devices \ {d} : row'[c] = row[c]
  BY <1>1, <1>2 DEF TypeOK, RowType, Remove
<1>4. log' \in [Devices -> SUBSET Event] /\ live' \subseteq Devices
  BY <1>1 DEF TypeOK, Remove
<1>5. applied' \in [Devices -> Seq(Event)]
  BY <1>1, EmptySeq DEF TypeOK, Remove
<1>6. TypeOK'
  BY <1>1, <1>3, <1>4, <1>5 DEF TypeOK, RowType
<1>7. NumbersInv'
  <2>1. -1 < created
    BY <1>1 DEF TypeOK
  <2>2. \A c \in Devices : row'[c].seq < created'
    BY <1>1, <1>2, <1>3, <2>1 DEF NumbersInv
  <2> QED BY <1>1, <2>2 DEF NumbersInv
<1> QED BY <1>6, <1>7 DEF TypeInv

(* claim changes the owner and keeps the number.                             *)
LEMMA ClaimEffect ==
  ASSUME TypeOK, NEW d \in Replicas, NEW o \in Owners, Claim(d, o)
  PROVE  /\ row' \in [Devices -> RowType] /\ row'[d].owner = o /\ d \in Devices
         /\ \A c \in Devices : row'[c].seq = row[c].seq
         /\ \A c \in Devices \ {d} : row'[c] = row[c]
         /\ foreign' \in [Devices -> Nat] /\ foreign'[d] = 0
         /\ \A c \in Devices \ {d} : foreign'[c] = foreign[c]
<1>1. row \in [Devices -> RowType] /\ foreign \in [Devices -> Nat] /\ d \in Devices
  BY SyncAssumption DEF TypeOK, RowType
<1>2. row' = [row EXCEPT ![d].owner = o] /\ foreign' = [foreign EXCEPT ![d] = 0]
  BY DEF Claim
<1>3. o \in Owner0 /\ row[d] \in RowType
  BY <1>1 DEF Owner0
<1>4. row'[d] = [row[d] EXCEPT !.owner = o]
  BY <1>1, <1>2
<1>5. row'[d] \in RowType /\ row'[d].owner = o /\ row'[d].seq = row[d].seq
  BY <1>3, <1>4 DEF RowType
<1>6. \A c \in Devices \ {d} : row'[c] = row[c]
  BY <1>1, <1>2
<1>7. row' \in [Devices -> RowType]
  BY <1>1, <1>2, <1>5, <1>6
<1> QED BY <1>1, <1>2, <1>5, <1>6, <1>7

LEMMA TypeClaim ==
  ASSUME TypeInv, NEW d \in Replicas, NEW o \in Owners, Claim(d, o)
  PROVE  TypeInv'
<1>1. TypeOK /\ NumbersInv /\ UNCHANGED <<log, mutex, run, rep, created, live, sent, applied>>
  BY DEF TypeInv, Claim
<1>2. /\ row' \in [Devices -> RowType] /\ foreign' \in [Devices -> Nat]
      /\ \A c \in Devices : row'[c].seq = row[c].seq
  BY <1>1, ClaimEffect
<1>3. TypeOK'
  BY <1>1, <1>2 DEF TypeOK, RowType
<1>4. NumbersInv'
  BY <1>1, <1>2 DEF NumbersInv
<1> QED BY <1>3, <1>4 DEF TypeInv

(* replay begins with the array it was given.                                *)
LEMMA BeginEffect ==
  ASSUME TypeOK, NEW f \in Replayers, NEW d \in Replicas, NEW b \in Batches,
         NEW o \in Owner0, Begin(f, d, b, o)
  PROVE  /\ rep' \in [Replayers -> RepType]
         /\ rep'[f].pc = "read" /\ rep'[f].at = d /\ rep'[f].todo = b
         /\ b # <<>> /\ Range(b) \subseteq sent
         /\ \A g \in Replayers \ {f} : rep'[g] = rep[g]
<1> DEFINE new == [pc |-> "read", todo |-> b, own |-> o, at |-> d]
<1>1. b \in Seq(Event) /\ b # <<>> /\ Range(b) \subseteq sent
  BY BatchType DEF TypeOK
<1>2. new \in RepType /\ new.pc = "read" /\ new.at = d /\ new.todo = b
  BY <1>1, SyncAssumption DEF RepType
<1>3. rep' = [rep EXCEPT ![f] = new]
  BY DEF Begin
<1>4. rep \in [Replayers -> RepType]
  BY DEF TypeOK, RepType
<1> HIDE DEF new
<1>5. rep'[f] = new /\ rep' \in [Replayers -> RepType]
      /\ \A g \in Replayers \ {f} : rep'[g] = rep[g]
  BY <1>2, <1>3, <1>4
<1> QED BY <1>1, <1>2, <1>5

LEMMA TypeBegin ==
  ASSUME TypeInv, NEW f \in Replayers, NEW d \in Replicas, NEW b \in Batches,
         NEW o \in Owner0, Begin(f, d, b, o)
  PROVE  TypeInv'
<1>1. TypeOK /\ NumbersInv
      /\ UNCHANGED <<row, log, mutex, run, created, live, sent, applied, foreign>>
  BY DEF TypeInv, Begin
<1>2. /\ rep' \in [Replayers -> RepType]
      /\ rep'[f].pc = "read" /\ rep'[f].at = d /\ rep'[f].todo = b
      /\ b # <<>> /\ Range(b) \subseteq sent
      /\ \A g \in Replayers \ {f} : rep'[g] = rep[g]
  BY <1>1, BeginEffect
<1>3. TypeOK'
  BY <1>1, <1>2 DEF TypeOK, RepType
<1>4. NumbersInv'
  BY <1>1, <1>2 DEF NumbersInv
<1> QED BY <1>3, <1>4 DEF TypeInv

(* A move of a replayer keeps the type of rep and adds no event to it.       *)
LEMMA TypeMoves ==
  ASSUME TypeInv, NEW f \in Replayers, rep[f].pc # "idle", Moves(f)
  PROVE  /\ rep' \in [Replayers -> RepType]
         /\ \A g \in Replayers :
              rep'[g].pc # "idle" => rep'[g].at \in Replicas /\ rep'[g].todo # <<>>
         /\ \A g \in Replayers : Range(rep'[g].todo) \subseteq sent
BY DEF TypeInv, TypeOK, NumbersInv, Moves

LEMMA TypeReplay ==
  ASSUME TypeInv, NEW f \in Replayers, Read(f) \/ ApplyFails(f)
  PROVE  TypeInv'
<1>1. TypeOK /\ NumbersInv
      /\ UNCHANGED <<row, log, mutex, run, created, live, sent, applied, foreign>>
  BY DEF TypeInv, Read, ApplyFails
<1>2. rep[f].pc # "idle" /\ Moves(f)
  BY <1>1, ReadMoves, AdvanceMoves DEF Read, ApplyFails
<1>3. /\ rep' \in [Replayers -> RepType]
      /\ \A g \in Replayers :
           rep'[g].pc # "idle" => rep'[g].at \in Replicas /\ rep'[g].todo # <<>>
      /\ \A g \in Replayers : Range(rep'[g].todo) \subseteq sent
  BY <1>2, TypeMoves
<1>4. TypeOK'
  BY <1>1, <1>3 DEF TypeOK, RepType
<1>5. NumbersInv'
  BY <1>1, <1>3 DEF NumbersInv
<1> QED BY <1>4, <1>5 DEF TypeInv

LEMMA TypeApply ==
  ASSUME TypeInv, NEW f \in Replayers, Apply(f)
  PROVE  TypeInv'
<1> DEFINE d == rep[f].at
<1> DEFINE e == Head(rep[f].todo)
<1>1. TypeOK /\ NumbersInv /\ rep[f].pc = "process" /\ Process(d, e, rep[f].own)
      /\ foreign' = [foreign EXCEPT ![d] = IF Owned(f) THEN @ + 1 ELSE @]
      /\ UNCHANGED <<mutex, run, created, live, sent>>
  BY DEF TypeInv, Apply
<1>2. Moves(f)
  BY <1>1, AdvanceMoves DEF Apply
<1>3. /\ rep' \in [Replayers -> RepType]
      /\ \A g \in Replayers :
           rep'[g].pc # "idle" => rep'[g].at \in Replicas /\ rep'[g].todo # <<>>
      /\ \A g \in Replayers : Range(rep'[g].todo) \subseteq sent
  BY <1>1, <1>2, TypeMoves
<1>4. e \in Event /\ e \in sent /\ d \in Devices /\ rep[f].own \in Owner0
  BY <1>1, HeadSent
<1> HIDE DEF d, e
<1>5. /\ row' \in [Devices -> RowType] /\ log' \in [Devices -> SUBSET Event]
      /\ applied' \in [Devices -> Seq(Event)] /\ row'[d].seq = e.seq
      /\ \A c \in Devices \ {d} : row'[c] = row[c]
  BY <1>1, <1>4, ProcessEffect
<1>6. foreign' \in [Devices -> Nat]
  <2>1. foreign \in [Devices -> Nat] /\ foreign[d] \in Nat
    BY <1>1, <1>4 DEF TypeOK
  <2>2. foreign' = [foreign EXCEPT ![d] = foreign[d] + 1] \/ foreign' = foreign
    BY <1>1, <2>1
  <2> QED BY <2>1, <2>2
<1>7. TypeOK'
  BY <1>1, <1>3, <1>5, <1>6 DEF TypeOK, RepType, RowType
<1>8. e.seq < created
  <2>1. e.seq < e.id /\ e.id <= created /\ e.seq \in Int /\ e.id \in Int /\ created \in Int
    BY <1>1, <1>4 DEF NumbersInv, TypeOK, Event
  <2> QED BY <2>1
<1>9. NumbersInv'
  <2>1. \A c \in Devices : row'[c].seq < created'
    BY <1>1, <1>5, <1>8 DEF NumbersInv
  <2> QED BY <1>1, <1>3, <2>1 DEF NumbersInv
<1> QED BY <1>7, <1>9 DEF TypeInv

(* Every step keeps the types and the numbers.                               *)
LEMMA NextTypeInv == TypeInv /\ [Next]_vars => TypeInv'
<1> SUFFICES ASSUME TypeInv, [Next]_vars PROVE TypeInv'
  OBVIOUS
<1>1. ASSUME NEW r \in Runners, NEW d \in Writers,
             RunBegin(r, d) \/ RunCommit(r, d) \/ RunFails(r, d)
      PROVE  TypeInv'
  BY <1>1, TypeRunBegin, TypeRunCommit, TypeRunFails
<1>2. ASSUME NEW d \in Writers, Remove(d) PROVE TypeInv'
  BY <1>2, TypeRemove
<1>3. ASSUME NEW d \in Replicas, NEW o \in Owners, Claim(d, o) PROVE TypeInv'
  BY <1>3, TypeClaim
<1>4. ASSUME NEW f \in Replayers, NEW d \in Replicas, NEW b \in Batches,
             NEW o \in Owner0, Begin(f, d, b, o)
      PROVE  TypeInv'
  BY <1>4, TypeBegin
<1>5. ASSUME NEW f \in Replayers, Read(f) \/ Apply(f) \/ ApplyFails(f) PROVE TypeInv'
  BY <1>5, TypeReplay, TypeApply
<1>6. CASE UNCHANGED vars
  BY <1>6 DEF TypeInv, TypeOK, NumbersInv, vars
<1> QED BY <1>1, <1>2, <1>3, <1>4, <1>5, <1>6 DEF Next

(* Every number that run, replay and remove leave in the tables is within    *)
(* its type, for any number of devices that write.                           *)
THEOREM SyncTypeOK == Spec => []TypeOK
<1>1. TypeInv => TypeOK
  BY DEF TypeInv
<1> QED BY <1>1, InitTypeInv, NextTypeInv, PTL DEF Spec

-----------------------------------------------------------------------------
(* The order of the events, with one writer. *)

(* Numbers of rows and events are integers.                                  *)
LEMMA Ints ==
  ASSUME TypeOK
  PROVE  /\ \A d \in Devices : row[d].seq \in Int
         /\ \A e \in sent : e \in Event /\ e.seq \in Nat /\ e.id \in Nat
         /\ created \in Nat
BY SyncAssumption DEF TypeOK, Seqs, Event

(* Two open runs would hold one mutex.                                       *)
LEMMA OneRun ==
  ASSUME SingleWriter, SyncInv, NEW r \in Runners, NEW q \in Runners,
         run[r].at # None, run[q].at # None
  PROVE  r = q
<1>1. run[r].at \in Writers /\ run[q].at \in Writers
  BY DEF SyncInv, TypeOK
<1>2. run[r].at = run[q].at
  BY <1>1 DEF SingleWriter
<1> QED BY <1>2 DEF SyncInv, RunInv

(* While the mutex is free nobody runs on the device that writes.            *)
LEMMA FreeMeansNoRun ==
  ASSUME SingleWriter, SyncInv, NEW d \in Writers, mutex[d] = None, NEW r \in Runners
  PROVE  run[r].at = None
<1> SUFFICES ASSUME run[r].at # None PROVE FALSE
  OBVIOUS
<1>1. run[r].at \in Writers /\ mutex[run[r].at] = r
  BY DEF SyncInv, TypeOK, RunInv
<1>2. run[r].at = d
  BY <1>1 DEF SingleWriter
<1> QED BY <1>1, <1>2, SyncAssumption

(* What a replay applies is the next event: were the row further on, the     *)
(* event with this number, which is this event, would be in the log and its  *)
(* id refused by the primary key.                                            *)
LEMMA ApplyNext ==
  ASSUME SyncInv, NEW f \in Replayers, rep[f].pc = "process",
         NewId(rep[f].at, Head(rep[f].todo))
  PROVE  Head(rep[f].todo).seq = row[rep[f].at].seq + 1
<1> DEFINE d == rep[f].at
<1> DEFINE e == Head(rep[f].todo)
<1>1. TypeOK /\ NumbersInv /\ SentInv /\ ProcessInv /\ LogMatchesProjection
  BY DEF SyncInv
<1>2. e \in sent /\ e \in Event /\ d \in Devices
  BY <1>1, HeadSent
<1>3. e.seq <= row[d].seq + 1
  BY <1>1 DEF ProcessInv
<1>4. NewId(d, e)
  OBVIOUS
<1> HIDE DEF d, e
<1>5. applied[d] \in Seq(Event)
  BY <1>1, <1>2 DEF TypeOK
<1>6. DOMAIN applied[d] = 1 .. Len(applied[d]) /\ Len(applied[d]) \in Nat
  BY <1>5, LenProperties
<1>7. row[d].seq = Len(applied[d]) - 1
  BY <1>1, <1>2 DEF LogMatchesProjection
<1>8. e.seq \in Nat
  BY <1>2 DEF Event
<1>9. ASSUME e.seq <= row[d].seq PROVE FALSE
  <2>1. e.seq + 1 \in DOMAIN applied[d]
    BY <1>6, <1>7, <1>8, <1>9
  <2>2. applied[d][e.seq + 1].seq = e.seq
    <3>1. applied[d][e.seq + 1].seq = (e.seq + 1) - 1
      BY <1>1, <1>2, <2>1 DEF LogMatchesProjection
    <3> QED BY <3>1, <1>8
  <2>3. applied[d][e.seq + 1] \in Range(applied[d])
    BY <2>1 DEF Range
  <2>4. applied[d][e.seq + 1] \in sent
    BY <1>1, <1>2, <2>3 DEF SentInv
  <2>5. applied[d][e.seq + 1] = e
    BY <1>1, <1>2, <2>2, <2>4 DEF SentInv
  <2>6. e \in log[d]
    BY <1>1, <1>2, <2>3, <2>5 DEF LogMatchesProjection
  <2> QED BY <1>4, <2>6 DEF NewId
<1>10. e.seq = row[d].seq + 1
  BY <1>3, <1>6, <1>7, <1>8, <1>9
<1> QED BY <1>10 DEF d, e

(* An event with the next number keeps log, row and projection together.     *)
LEMMA ProcessInOrder ==
  ASSUME TypeOK, LogMatchesProjection, NEW d \in Devices, NEW e \in Event,
         NEW own \in Owner0, Process(d, e, own), e.seq = row[d].seq + 1
  PROVE  LogMatchesProjection'
<1>1. /\ row'[d].seq = e.seq /\ log'[d] = log[d] \cup {e}
      /\ applied'[d] = Append(applied[d], e)
      /\ \A c \in Devices \ {d} :
           row'[c] = row[c] /\ log'[c] = log[c] /\ applied'[c] = applied[c]
  BY ProcessEffect
<1>2. applied[d] \in Seq(Event)
  BY DEF TypeOK
<1>3. /\ DOMAIN applied'[d] = 1 .. Len(applied[d]) + 1
      /\ Len(applied'[d]) = Len(applied[d]) + 1 /\ Len(applied[d]) \in Nat
      /\ \A i \in 1 .. Len(applied[d]) : applied'[d][i] = applied[d][i]
      /\ applied'[d][Len(applied[d]) + 1] = e
      /\ Range(applied'[d]) = Range(applied[d]) \cup {e}
  BY <1>1, <1>2, AppendRange
<1>4. DOMAIN applied[d] = 1 .. Len(applied[d])
  BY <1>2, LenProperties
<1>5. /\ \A i \in DOMAIN applied[d] : applied[d][i].seq = i - 1
      /\ log[d] = Range(applied[d]) /\ row[d].seq = Len(applied[d]) - 1
  BY DEF LogMatchesProjection
<1>6. \A i \in DOMAIN applied'[d] : applied'[d][i].seq = i - 1
  <2> SUFFICES ASSUME NEW i \in 1 .. Len(applied[d]) + 1
               PROVE  applied'[d][i].seq = i - 1
    BY <1>3
  <2>1. CASE i = Len(applied[d]) + 1
    BY <1>3, <1>5, <2>1
  <2>2. CASE i \in 1 .. Len(applied[d])
    BY <1>3, <1>4, <1>5, <2>2
  <2> QED BY <1>3, <2>1, <2>2
<1>7. log'[d] = Range(applied'[d])
  BY <1>1, <1>3, <1>5
<1>8. row'[d].seq = Len(applied'[d]) - 1
  BY <1>1, <1>3, <1>5
<1>9. \A c \in Devices \ {d} :
        /\ \A i \in DOMAIN applied'[c] : applied'[c][i].seq = i - 1
        /\ log'[c] = Range(applied'[c])
        /\ row'[c].seq = Len(applied'[c]) - 1
  <2> TAKE c \in Devices \ {d}
  <2>1. row'[c] = row[c] /\ log'[c] = log[c] /\ applied'[c] = applied[c]
    BY <1>1
  <2>2. /\ \A i \in DOMAIN applied[c] : applied[c][i].seq = i - 1
        /\ log[c] = Range(applied[c])
        /\ row[c].seq = Len(applied[c]) - 1
    BY DEF LogMatchesProjection
  <2> QED BY <2>1, <2>2
<1> QED BY <1>6, <1>7, <1>8, <1>9 DEF LogMatchesProjection

(* A run commits the next event of a log it has had to itself since it read. *)
LEMMA RunCommitFacts ==
  ASSUME SyncInv, NEW r \in Runners, NEW d \in Writers, RunCommit(r, d),
         NEW e, e = [id |-> run[r].id, seq |-> run[r].seq + 1]
  PROVE  /\ e \in Event /\ e.seq = row[d].seq + 1 /\ e.id = run[r].id
         /\ d \in Devices /\ d \in live /\ run[r].at = d /\ d # None /\ run'[r].at = None
         /\ Process(d, e, NoOwner) /\ NoOwner \in Owner0 /\ sent' = sent \cup {e}
         /\ UNCHANGED <<rep, created, live, foreign>>
<1>1. TypeOK /\ NumbersInv /\ RunInv /\ RunEnd(r, d)
  BY DEF SyncInv, RunCommit
<1>2. run[r].at = d /\ d # None /\ d \in Devices /\ run'[r].at = None
  BY <1>1, RunEndEffect
<1>3. e \in Event
  BY <1>1, <1>2, RunEvent
<1>4. run[r].seq = row[d].seq /\ d \in live
  BY <1>1, <1>2 DEF RunInv
<1>5. Process(d, e, NoOwner) /\ sent' = sent \cup {e}
      /\ UNCHANGED <<rep, created, live, foreign>>
  BY DEF RunCommit
<1> QED BY <1>2, <1>3, <1>4, <1>5 DEF Owner0

(* What an application of replay f changes.                                  *)
LEMMA ApplyFacts ==
  ASSUME SyncInv, NEW f \in Replayers, Apply(f),
         NEW d, d = rep[f].at, NEW e, e = Head(rep[f].todo)
  PROVE  /\ e \in Event /\ e \in sent /\ e.seq = row[d].seq + 1
         /\ d \in Devices /\ d \notin Writers \cap live /\ mutex[d] = None
         /\ rep[f].pc = "process" /\ rep[f].own \in Owner0 /\ Process(d, e, rep[f].own)
         /\ foreign' = [foreign EXCEPT ![d] = IF Owned(f) THEN @ + 1 ELSE @]
         /\ Moves(f) /\ rep'[f].pc # "process"
         /\ UNCHANGED <<mutex, run, created, live, sent>>
<1>1. TypeOK /\ NumbersInv /\ ProcessInv
  BY DEF SyncInv
<1>2. rep[f].pc = "process" /\ mutex[d] = None /\ Process(d, e, rep[f].own) /\ Advance(f)
      /\ foreign' = [foreign EXCEPT ![d] = IF Owned(f) THEN @ + 1 ELSE @]
      /\ UNCHANGED <<mutex, run, created, live, sent>>
  BY DEF Apply
<1>3. e \in Event /\ e \in sent /\ d \in Devices /\ rep[f].own \in Owner0
  BY <1>1, <1>2, HeadSent
<1>4. e.seq = row[d].seq + 1
  BY <1>2, ApplyNext DEF Process
<1>5. Moves(f) /\ rep'[f].pc # "process"
  BY <1>1, <1>2, AdvanceMoves
<1>6. d \notin Writers \cap live
  BY <1>1, <1>2 DEF ProcessInv
<1> QED BY <1>2, <1>3, <1>4, <1>5, <1>6

(* Runs: the mutex of the one writer keeps the row as its run has read it.   *)
LEMMA StepRunInv ==
  ASSUME SingleWriter, SyncInv, [Next]_vars
  PROVE  RunInv'
<1> USE SyncAssumption
<1>1. TypeOK /\ NumbersInv /\ RunInv
  BY DEF SyncInv
<1>2. run \in [Runners -> RunType] /\ mutex \in [Devices -> Runners \cup {None}]
  BY <1>1 DEF TypeOK, RunType
<1>3. ASSUME NEW r \in Runners, NEW d \in Writers, RunBegin(r, d) PROVE RunInv'
  <2>1. \A q \in Runners : run[q].at = None
    BY <1>3, FreeMeansNoRun DEF RunBegin
  <2>2. run'[r] = [at |-> d, id |-> created + 1, seq |-> row[d].seq]
        /\ \A q \in Runners \ {r} : run'[q] = run[q]
    BY <1>2, <1>3 DEF RunBegin
  <2>3. mutex'[d] = r /\ d \in live /\ UNCHANGED <<row, live, sent>>
    BY <1>2, <1>3 DEF RunBegin
  <2>4. \A e \in sent : e.id # created + 1
    <3>1. \A e \in sent : e.id \in Nat /\ created \in Nat /\ e.id <= created
      BY <1>1, Ints DEF NumbersInv
    <3> QED BY <3>1
  <2>5. run'[r].at = d /\ run'[r].id = created + 1 /\ run'[r].seq = row[d].seq
    BY <2>2
  <2> QED BY <2>1, <2>2, <2>3, <2>4, <2>5 DEF RunInv
<1>4. ASSUME NEW r \in Runners, NEW d \in Writers, RunCommit(r, d) \/ RunFails(r, d)
      PROVE  RunInv'
  <2>1. RunEnd(r, d)
    BY <1>4 DEF RunCommit, RunFails
  <2>2. run'[r].at = None /\ run[r].at = d /\ d # None
        /\ \A q \in Runners \ {r} : run'[q] = run[q]
    BY <1>1, <2>1, RunEndEffect
  <2>3. \A q \in Runners \ {r} : run[q].at = None
    BY <2>2, OneRun
  <2> QED BY <2>2, <2>3 DEF RunInv
<1>5. ASSUME NEW d \in Writers, Remove(d) PROVE RunInv'
  <2>1. \A q \in Runners : run[q].at = None /\ run' = run
    BY <1>5, FreeMeansNoRun DEF Remove
  <2> QED BY <2>1 DEF RunInv
<1>6. ASSUME NEW d \in Replicas, NEW o \in Owners, Claim(d, o) PROVE RunInv'
  <2>1. \A c \in Devices : row'[c].seq = row[c].seq
    BY <1>1, <1>6, ClaimEffect
  <2>2. UNCHANGED <<mutex, run, live, sent>>
    BY <1>6 DEF Claim
  <2>3. \A q \in Runners : run[q].at # None => run[q].at \in Devices
    BY <1>2 DEF RunType
  <2> QED BY <1>1, <2>1, <2>2, <2>3 DEF RunInv
<1>7. ASSUME NEW f \in Replayers, Apply(f) PROVE RunInv'
  <2> DEFINE d == rep[f].at
  <2> DEFINE e == Head(rep[f].todo)
  <2>1. e \in Event /\ d \in Devices /\ rep[f].own \in Owner0 /\ Process(d, e, rep[f].own)
        /\ mutex[d] = None /\ UNCHANGED <<mutex, run, live, sent>>
    BY <1>7, ApplyFacts
  <2>2. \A c \in Devices \ {d} : row'[c] = row[c]
    BY <1>1, <2>1, ProcessEffect
  <2>3. \A q \in Runners : run[q].at # None => run[q].at \in Devices \ {d}
    BY <1>1, <1>2, <2>1 DEF RunType, RunInv
  <2> HIDE DEF d
  <2> QED BY <1>1, <2>1, <2>2, <2>3 DEF RunInv
<1>8. CASE UNCHANGED <<row, mutex, run, live, sent>>
  BY <1>1, <1>8 DEF RunInv
<1>9. ASSUME NEW f \in Replayers, NEW d \in Replicas, NEW b \in Batches,
             NEW o \in Owner0, Begin(f, d, b, o)
      PROVE  RunInv'
  BY <1>8, <1>9 DEF Begin
<1>10. ASSUME NEW f \in Replayers, Read(f) \/ ApplyFails(f) PROVE RunInv'
  BY <1>8, <1>10 DEF Read, ApplyFails
<1>11. CASE UNCHANGED vars
  BY <1>8, <1>11 DEF vars
<1> QED BY <1>3, <1>4, <1>5, <1>6, <1>7, <1>9, <1>10, <1>11 DEF Next

(* What was sent: the next number comes from the one device that has them    *)
(* all.                                                                      *)
LEMMA StepSentInv ==
  ASSUME SingleWriter, SyncInv, [Next]_vars
  PROVE  SentInv'
<1> USE SyncAssumption
<1>1. TypeOK /\ NumbersInv /\ SentInv
  BY DEF SyncInv
<1>2. /\ \A d \in Devices : row[d].seq \in Int
      /\ \A e \in sent : e \in Event /\ e.seq \in Nat
  BY <1>1, Ints
<1>3. ASSUME NEW r \in Runners, NEW d \in Writers, RunCommit(r, d) PROVE SentInv'
  <2> DEFINE e == [id |-> run[r].id, seq |-> run[r].seq + 1]
  <2>1. /\ e \in Event /\ e.seq = row[d].seq + 1 /\ d \in Devices /\ d \in live
        /\ Process(d, e, NoOwner) /\ NoOwner \in Owner0 /\ sent' = sent \cup {e}
        /\ UNCHANGED live
    BY <1>3, RunCommitFacts
  <2> HIDE DEF e
  <2>2. row'[d].seq = e.seq /\ applied'[d] = Append(applied[d], e)
        /\ \A c \in Devices \ {d} : applied'[c] = applied[c]
    BY <1>1, <2>1, ProcessEffect
  <2>3. \A g \in sent : g.seq < e.seq
    BY <1>1, <1>2, <2>1 DEF SentInv
  <2>4. \A g, h \in sent' : g.seq = h.seq => g = h
    BY <1>1, <1>2, <2>1, <2>3 DEF SentInv
  <2>5. \A c \in Writers \cap live' : \A g \in sent' : g.seq <= row'[c].seq
    <3>1. \A c \in Writers : c = d
      BY DEF SingleWriter
    <3>2. \A g \in sent' : g.seq <= e.seq
      BY <1>2, <2>1, <2>3 DEF Event
    <3> QED BY <2>2, <3>1, <3>2
  <2>6. Range(applied'[d]) = Range(applied[d]) \cup {e}
    BY <1>1, <2>1, <2>2, AppendRange DEF TypeOK
  <2>7. \A c \in Devices : Range(applied'[c]) \subseteq sent'
    BY <1>1, <2>1, <2>2, <2>6 DEF SentInv
  <2> QED BY <2>4, <2>5, <2>7 DEF SentInv
<1>4. ASSUME NEW d \in Writers, Remove(d) PROVE SentInv'
  <2>1. applied \in [Devices -> Seq(Event)] /\ d \in Devices
    BY <1>1 DEF TypeOK
  <2>2. applied'[d] = <<>> /\ \A c \in Devices \ {d} : applied'[c] = applied[c]
    BY <1>4, <2>1 DEF Remove
  <2>3. Range(applied'[d]) = {}
    BY <2>2, NoRepType
  <2>4. Writers \cap live' = {} /\ UNCHANGED sent
    BY <1>4 DEF SingleWriter, Remove
  <2> QED BY <1>1, <2>2, <2>3, <2>4 DEF SentInv
<1>5. ASSUME NEW d \in Replicas, NEW o \in Owners, Claim(d, o) PROVE SentInv'
  <2>1. \A c \in Devices : row'[c].seq = row[c].seq
    BY <1>1, <1>5, ClaimEffect
  <2>2. UNCHANGED <<live, sent, applied>>
    BY <1>5 DEF Claim
  <2> QED BY <1>1, <2>1, <2>2 DEF SentInv
<1>6. ASSUME NEW f \in Replayers, Apply(f) PROVE SentInv'
  <2> DEFINE d == rep[f].at
  <2> DEFINE e == Head(rep[f].todo)
  <2>1. e \in Event /\ e \in sent /\ d \in Devices /\ rep[f].own \in Owner0
        /\ Process(d, e, rep[f].own) /\ d \notin Writers \cap live
        /\ UNCHANGED <<live, sent>>
    BY <1>6, ApplyFacts
  <2> HIDE DEF d, e
  <2>2. applied'[d] = Append(applied[d], e)
        /\ \A c \in Devices \ {d} : applied'[c] = applied[c] /\ row'[c] = row[c]
    BY <1>1, <2>1, ProcessEffect
  <2>3. Range(applied'[d]) = Range(applied[d]) \cup {e}
    BY <1>1, <2>1, <2>2, AppendRange DEF TypeOK
  <2> QED BY <1>1, <2>1, <2>2, <2>3 DEF SentInv
<1>7. CASE UNCHANGED <<row, live, sent, applied>>
  BY <1>1, <1>7 DEF SentInv
<1>8. ASSUME NEW r \in Runners, NEW d \in Writers, RunBegin(r, d) \/ RunFails(r, d)
      PROVE  SentInv'
  BY <1>7, <1>8 DEF RunBegin, RunFails
<1>9. ASSUME NEW f \in Replayers, NEW d \in Replicas, NEW b \in Batches,
             NEW o \in Owner0, Begin(f, d, b, o)
      PROVE  SentInv'
  BY <1>7, <1>9 DEF Begin
<1>10. ASSUME NEW f \in Replayers, Read(f) \/ ApplyFails(f) PROVE SentInv'
  BY <1>7, <1>10 DEF Read, ApplyFails
<1>11. CASE UNCHANGED vars
  BY <1>7, <1>11 DEF vars
<1> QED BY <1>3, <1>4, <1>5, <1>6, <1>8, <1>9, <1>10, <1>11 DEF Next

(* Replays between their read and their transaction.                         *)
LEMMA StepProcessInv ==
  ASSUME SyncInv, [Next]_vars
  PROVE  ProcessInv'
<1> USE SyncAssumption
<1>1. TypeOK /\ NumbersInv /\ SentInv /\ ProcessInv
  BY DEF SyncInv
<1>2. /\ \A d \in Devices : row[d].seq \in Int
      /\ \A e \in sent : e \in Event /\ e.seq \in Nat
  BY <1>1, Ints
<1>3. \A g \in Replayers : rep[g].pc = "process" =>
        rep[g].at \in Devices /\ Head(rep[g].todo) \in sent
  BY <1>1, HeadSent
<1>4. ASSUME NEW r \in Runners, NEW d \in Writers, RunCommit(r, d) PROVE ProcessInv'
  <2> DEFINE e == [id |-> run[r].id, seq |-> run[r].seq + 1]
  <2>1. /\ e \in Event /\ d \in Devices /\ d \in live
        /\ Process(d, e, NoOwner) /\ NoOwner \in Owner0 /\ UNCHANGED <<rep, live>>
    BY <1>4, RunCommitFacts
  <2> HIDE DEF e
  <2>2. \A c \in Devices \ {d} : row'[c] = row[c]
    BY <1>1, <2>1, ProcessEffect
  <2> QED BY <1>1, <1>3, <2>1, <2>2 DEF ProcessInv
<1>5. ASSUME NEW d \in Writers, Remove(d) PROVE ProcessInv'
  <2>1. d \in live /\ live' = live \ {d} /\ UNCHANGED rep
        /\ \A c \in Devices \ {d} : row'[c] = row[c]
    BY <1>1, <1>5 DEF Remove, TypeOK
  <2> QED BY <1>1, <1>3, <2>1 DEF ProcessInv
<1>6. ASSUME NEW d \in Replicas, NEW o \in Owners, Claim(d, o) PROVE ProcessInv'
  <2>1. \A c \in Devices : row'[c].seq = row[c].seq
    BY <1>1, <1>6, ClaimEffect
  <2>2. UNCHANGED <<live, rep>>
    BY <1>6 DEF Claim
  <2> QED BY <1>1, <1>3, <2>1, <2>2 DEF ProcessInv
<1>7. ASSUME NEW f \in Replayers, NEW d \in Replicas, NEW b \in Batches,
             NEW o \in Owner0, Begin(f, d, b, o)
      PROVE  ProcessInv'
  <2>1. rep'[f].pc = "read" /\ \A g \in Replayers \ {f} : rep'[g] = rep[g]
    BY <1>1, <1>7, BeginEffect
  <2>2. UNCHANGED <<row, live>>
    BY <1>7 DEF Begin
  <2> QED BY <1>1, <2>1, <2>2 DEF ProcessInv
<1>8. ASSUME NEW f \in Replayers, Read(f) \/ ApplyFails(f) PROVE ProcessInv'
  <2>1. Moves(f) /\ UNCHANGED <<row, live>> /\ rep[f].pc # "idle"
    BY <1>1, <1>8, ReadMoves, AdvanceMoves DEF Read, ApplyFails
  <2>2. ASSUME rep'[f].pc = "process"
        PROVE  /\ Head(rep'[f].todo).seq <= row[rep'[f].at].seq + 1
               /\ rep'[f].at \notin Writers \cap live
    <3>1. rep'[f].at = rep[f].at /\ rep'[f].todo = rep[f].todo
          /\ Head(rep[f].todo).seq = row[rep[f].at].seq + 1
      BY <2>1, <2>2 DEF Moves
    <3>2. Head(rep[f].todo) \in sent /\ rep[f].at \in Devices
      BY <1>1, <2>1, HeadSent
    <3>3. rep[f].at \notin Writers \cap live
      BY <1>1, <1>2, <3>1, <3>2 DEF SentInv
    <3>4. Head(rep[f].todo).seq <= row[rep[f].at].seq + 1
      BY <1>2, <3>1, <3>2
    <3> QED BY <3>1, <3>3, <3>4
  <2> QED BY <1>1, <2>1, <2>2 DEF ProcessInv, Moves
<1>9. ASSUME NEW f \in Replayers, Apply(f) PROVE ProcessInv'
  <2> DEFINE d == rep[f].at
  <2> DEFINE e == Head(rep[f].todo)
  <2>1. e \in Event /\ e.seq = row[d].seq + 1 /\ d \in Devices /\ rep[f].own \in Owner0
        /\ Process(d, e, rep[f].own) /\ UNCHANGED <<live, sent>>
        /\ Moves(f) /\ rep'[f].pc # "process"
    BY <1>9, ApplyFacts
  <2> HIDE DEF d, e
  <2>2. row'[d].seq = row[d].seq + 1
        /\ \A c \in Devices \ {d} : row'[c] = row[c]
    BY <1>1, <2>1, ProcessEffect
  <2>3. ASSUME NEW g \in Replayers, rep'[g].pc = "process"
        PROVE  /\ Head(rep'[g].todo).seq <= row'[rep'[g].at].seq + 1
               /\ rep'[g].at \notin Writers \cap live'
    <3>1. g # f /\ rep'[g] = rep[g]
      BY <2>1, <2>3 DEF Moves
    <3>2. /\ Head(rep[g].todo).seq <= row[rep[g].at].seq + 1
          /\ rep[g].at \notin Writers \cap live
          /\ rep[g].at \in Devices /\ Head(rep[g].todo) \in sent
      BY <1>1, <1>3, <2>3, <3>1 DEF ProcessInv
    <3>3. Head(rep[g].todo).seq \in Nat /\ row[rep[g].at].seq \in Int
      BY <1>2, <3>2
    <3>4. row'[rep[g].at].seq = row[rep[g].at].seq \/ row'[rep[g].at].seq = row[rep[g].at].seq + 1
      BY <2>2, <3>2
    <3>5. Head(rep[g].todo).seq <= row'[rep[g].at].seq + 1
      BY <3>2, <3>3, <3>4
    <3> QED BY <2>1, <3>1, <3>2, <3>5
  <2> QED BY <2>3 DEF ProcessInv
<1>10. CASE UNCHANGED <<row, live, rep>>
  BY <1>1, <1>10 DEF ProcessInv
<1>11. ASSUME NEW r \in Runners, NEW d \in Writers, RunBegin(r, d) \/ RunFails(r, d)
       PROVE  ProcessInv'
  BY <1>10, <1>11 DEF RunBegin, RunFails
<1>12. CASE UNCHANGED vars
  BY <1>10, <1>12 DEF vars
<1> QED BY <1>4, <1>5, <1>6, <1>7, <1>8, <1>9, <1>11, <1>12 DEF Next

(* The tables: every event that is processed has the next number.            *)
LEMMA StepLog ==
  ASSUME SyncInv, [Next]_vars
  PROVE  LogMatchesProjection'
<1> USE SyncAssumption
<1>1. TypeOK /\ LogMatchesProjection
  BY DEF SyncInv
<1>2. ASSUME NEW r \in Runners, NEW d \in Writers, RunCommit(r, d)
      PROVE  LogMatchesProjection'
  <2> DEFINE e == [id |-> run[r].id, seq |-> run[r].seq + 1]
  <2>1. /\ e \in Event /\ e.seq = row[d].seq + 1 /\ d \in Devices
        /\ Process(d, e, NoOwner) /\ NoOwner \in Owner0
    BY <1>2, RunCommitFacts
  <2> QED BY <1>1, <2>1, ProcessInOrder
<1>3. ASSUME NEW f \in Replayers, Apply(f) PROVE LogMatchesProjection'
  <2> DEFINE d == rep[f].at
  <2> DEFINE e == Head(rep[f].todo)
  <2>1. e \in Event /\ e.seq = row[d].seq + 1 /\ d \in Devices /\ rep[f].own \in Owner0
        /\ Process(d, e, rep[f].own)
    BY <1>3, ApplyFacts
  <2> QED BY <1>1, <2>1, ProcessInOrder
<1>4. ASSUME NEW d \in Writers, Remove(d) PROVE LogMatchesProjection'
  <2>1. row \in [Devices -> RowType] /\ log \in [Devices -> SUBSET Event]
        /\ applied \in [Devices -> Seq(Event)] /\ d \in Devices
    BY <1>1 DEF TypeOK, RowType
  <2>2. row'[d] = NoRow /\ log'[d] = {} /\ applied'[d] = <<>>
    BY <1>4, <2>1 DEF Remove
  <2>3. \A c \in Devices \ {d} :
          row'[c] = row[c] /\ log'[c] = log[c] /\ applied'[c] = applied[c]
    BY <1>4, <2>1 DEF Remove
  <2>4. Range(<<>>) = {} /\ Len(<<>>) = 0 /\ DOMAIN <<>> = {}
    BY NoRepType, EmptySeq, LenProperties
  <2>5. row'[d].seq = -1
    BY <2>2 DEF NoRow
  <2>6. ASSUME NEW c \in Devices
        PROVE  /\ \A i \in DOMAIN applied'[c] : applied'[c][i].seq = i - 1
               /\ log'[c] = Range(applied'[c])
               /\ row'[c].seq = Len(applied'[c]) - 1
    <3>1. CASE c = d
      <4>1. log'[c] = {} /\ row'[c].seq = -1
        BY <2>2, <2>5, <3>1
      <4>2. Range(applied'[c]) = {} /\ Len(applied'[c]) = 0 /\ DOMAIN applied'[c] = {}
        BY <2>2, <2>4, <3>1, Zenon
      <4> QED BY <4>1, <4>2
    <3>2. CASE c # d
      <4>1. row'[c] = row[c] /\ log'[c] = log[c] /\ applied'[c] = applied[c]
        BY <2>3, <3>2
      <4>2. /\ \A i \in DOMAIN applied[c] : applied[c][i].seq = i - 1
            /\ log[c] = Range(applied[c])
            /\ row[c].seq = Len(applied[c]) - 1
        BY <1>1 DEF LogMatchesProjection
      <4> QED BY <4>1, <4>2
    <3> QED BY <3>1, <3>2
  <2> QED BY <2>6 DEF LogMatchesProjection
<1>5. ASSUME NEW d \in Replicas, NEW o \in Owners, Claim(d, o) PROVE LogMatchesProjection'
  <2>1. \A c \in Devices : row'[c].seq = row[c].seq
    BY <1>1, <1>5, ClaimEffect
  <2>2. UNCHANGED <<log, applied>>
    BY <1>5 DEF Claim
  <2> QED BY <1>1, <2>1, <2>2 DEF LogMatchesProjection
<1>6. CASE UNCHANGED <<row, log, applied>>
  BY <1>1, <1>6 DEF LogMatchesProjection
<1>7. ASSUME NEW r \in Runners, NEW d \in Writers, RunBegin(r, d) \/ RunFails(r, d)
      PROVE  LogMatchesProjection'
  BY <1>6, <1>7 DEF RunBegin, RunFails
<1>8. ASSUME NEW f \in Replayers, NEW d \in Replicas, NEW b \in Batches,
             NEW o \in Owner0, Begin(f, d, b, o)
      PROVE  LogMatchesProjection'
  BY <1>6, <1>8 DEF Begin
<1>9. ASSUME NEW f \in Replayers, Read(f) \/ ApplyFails(f) PROVE LogMatchesProjection'
  BY <1>6, <1>9 DEF Read, ApplyFails
<1>10. CASE UNCHANGED vars
  BY <1>6, <1>10 DEF vars
<1> QED BY <1>2, <1>3, <1>4, <1>5, <1>7, <1>8, <1>9, <1>10 DEF Next

-----------------------------------------------------------------------------
(* How many events may still be applied for one who is not the owner. *)

LEMMA Counting ==
  /\ Cardinality(Replayers) \in Nat /\ Cardinality({}) = 0
  /\ \A T \in SUBSET Replayers :
       /\ Cardinality(T) \in Nat /\ Cardinality(T) <= Cardinality(Replayers)
       /\ \A U \in SUBSET T : Cardinality(U) <= Cardinality(T)
       /\ \A f \in T : Cardinality(T \ {f}) = Cardinality(T) - 1
<1>1. IsFiniteSet(Replayers)
  BY SyncAssumption
<1>2. Cardinality(Replayers) \in Nat /\ Cardinality({}) = 0
  BY <1>1, FS_CardinalityType, FS_EmptySet
<1>3. ASSUME NEW T \in SUBSET Replayers
      PROVE  /\ Cardinality(T) \in Nat /\ Cardinality(T) <= Cardinality(Replayers)
             /\ \A U \in SUBSET T : Cardinality(U) <= Cardinality(T)
             /\ \A f \in T : Cardinality(T \ {f}) = Cardinality(T) - 1
  <2>1. IsFiniteSet(T) /\ Cardinality(T) <= Cardinality(Replayers)
    BY <1>1, FS_Subset
  <2>2. Cardinality(T) \in Nat
    BY <2>1, FS_CardinalityType
  <2>3. \A U \in SUBSET T : Cardinality(U) <= Cardinality(T)
    BY <2>1, FS_Subset
  <2>4. \A f \in T : Cardinality(T \ {f}) = Cardinality(T) - 1
    BY <2>1, FS_RemoveElement
  <2> QED BY <2>1, <2>2, <2>3, <2>4
<1> QED BY <1>2, <1>3

(* What is left of ForeignInv for one device.                                *)
ForeignAt(d) ==
  /\ foreign[d] + Cardinality(Trespassers(d)) <= Cardinality(Replayers)
  /\ row[d].seq = -1 => row[d].owner = NoOwner
  /\ row[d].seq = -1 \/ d \in Writers \cap live => foreign[d] = 0

(* A device on which nobody new comes to trespass.                           *)
LEMMA ForeignFewer ==
  ASSUME TypeOK, NEW d \in Devices, ForeignAt(d),
         row'[d] = row[d], foreign'[d] = foreign[d], live' \subseteq live,
         Trespassers(d)' \subseteq Trespassers(d)
  PROVE  ForeignAt(d)'
<1>1. foreign[d] \in Nat
  BY DEF TypeOK
<1>2. Trespassers(d) \in SUBSET Replayers
  BY DEF Trespassers
<1>3. Trespassers(d)' \in SUBSET Replayers
  BY DEF Trespassers
<1> DEFINE A == Cardinality(Trespassers(d))
<1> DEFINE B == Cardinality(Trespassers(d)')
<1>4. B <= A /\ A \in Nat /\ B \in Nat /\ Cardinality(Replayers) \in Nat
  BY <1>2, <1>3, Counting
<1>5. foreign[d] + A <= Cardinality(Replayers)
  BY DEF ForeignAt
<1> HIDE DEF A, B
<1>6. foreign[d] + B <= Cardinality(Replayers)
  BY <1>1, <1>4, <1>5
<1>7. foreign'[d] + B <= Cardinality(Replayers)
  BY <1>6
<1> QED BY <1>7 DEF ForeignAt, B

(* A device on which nothing foreign has been applied yet.                   *)
LEMMA ForeignNone ==
  ASSUME NEW d \in Devices, foreign'[d] = 0, row'[d].seq = -1 => row'[d].owner = NoOwner
  PROVE  ForeignAt(d)'
<1>1. Trespassers(d)' \in SUBSET Replayers
  BY DEF Trespassers
<1> DEFINE B == Cardinality(Trespassers(d)')
<1>2. B <= Cardinality(Replayers) /\ B \in Nat /\ Cardinality(Replayers) \in Nat
  BY <1>1, Counting
<1> HIDE DEF B
<1>3. 0 + B <= Cardinality(Replayers)
  BY <1>2
<1>4. foreign'[d] + B <= Cardinality(Replayers)
  BY <1>3
<1> QED BY <1>4 DEF ForeignAt, B

(* An application by a replay that does not name the owner: one trespasser   *)
(* less, one foreign event more.                                             *)
LEMMA ForeignApply ==
  ASSUME SyncInv, NEW f \in Replayers, Apply(f),
         NEW d, d = rep[f].at
  PROVE  ForeignAt(d)'
<1> DEFINE e == Head(rep[f].todo)
<1>1. /\ e \in Event /\ d \in Devices /\ rep[f].own \in Owner0 /\ d \notin Writers \cap live
      /\ rep[f].pc = "process" /\ Process(d, e, rep[f].own)
      /\ foreign' = [foreign EXCEPT ![d] = IF Owned(f) THEN @ + 1 ELSE @]
      /\ Moves(f) /\ rep'[f].pc # "process" /\ UNCHANGED live
  BY ApplyFacts
<1>2. TypeOK /\ ForeignAt(d)
  BY <1>1 DEF SyncInv, ForeignInv, ForeignAt
<1> HIDE DEF e
<1>3. row'[d].seq = e.seq /\ e.seq \in Nat
      /\ row'[d].owner = IF row[d].seq = -1 THEN rep[f].own ELSE row[d].owner
  BY <1>1, <1>2, ProcessEffect DEF Event
<1>4. row'[d].seq # -1
  BY <1>3
<1>5. foreign[d] \in Nat /\ foreign \in [Devices -> Nat]
  BY <1>1, <1>2 DEF TypeOK
<1>6. \A g \in Replayers \ {f} : rep'[g] = rep[g]
  BY <1>1 DEF Moves
<1>7. CASE row[d].seq = -1
  <2>1. foreign[d] = 0 /\ ~Owned(f)
    BY <1>2, <1>7 DEF ForeignAt, Owned
  <2>2. foreign'[d] = 0
    BY <1>1, <1>5, <2>1
  <2> QED BY <1>1, <1>4, <2>2, ForeignNone
<1>8. CASE row[d].seq # -1
  <2>1. row'[d].owner = row[d].owner
    BY <1>3, <1>8
  <2>2. Trespassers(d)' \subseteq Trespassers(d) \ {f}
    BY <1>1, <1>6, <2>1 DEF Trespassers, Owned
  <2>3. Trespassers(d) \in SUBSET Replayers /\ Trespassers(d)' \in SUBSET Replayers
    BY DEF Trespassers
  <2> DEFINE A == Cardinality(Trespassers(d))
  <2> DEFINE B == Cardinality(Trespassers(d)')
  <2>4. A \in Nat /\ B \in Nat /\ Cardinality(Replayers) \in Nat /\ B <= A
    <3>1. Trespassers(d)' \in SUBSET Trespassers(d)
      BY <2>2
    <3> QED BY <2>3, <3>1, Counting
  <2>5. foreign[d] + A <= Cardinality(Replayers)
    BY <1>2 DEF ForeignAt
  <2>6. foreign'[d] + B <= Cardinality(Replayers)
    <3>1. CASE Owned(f)
      <4>1. f \in Trespassers(d)
        BY <1>1, <3>1 DEF Trespassers
      <4>2. Cardinality(Trespassers(d) \ {f}) = A - 1
        BY <2>3, <4>1, Counting
      <4>3. B <= Cardinality(Trespassers(d) \ {f})
        <5>1. Trespassers(d) \ {f} \in SUBSET Replayers
              /\ Trespassers(d)' \in SUBSET (Trespassers(d) \ {f})
          BY <2>2, <2>3
        <5> QED BY <5>1, Counting
      <4>4. foreign'[d] = foreign[d] + 1
        BY <1>1, <1>5, <3>1
      <4> HIDE DEF A, B
      <4> QED BY <1>5, <2>4, <2>5, <4>2, <4>3, <4>4
    <3>2. CASE ~Owned(f)
      <4>1. foreign'[d] = foreign[d]
        BY <1>1, <1>5, <3>2
      <4> HIDE DEF A, B
      <4> QED BY <1>5, <2>4, <2>5, <4>1
    <3> QED BY <3>1, <3>2
  <2> QED BY <1>1, <1>4, <2>6 DEF ForeignAt
<1> QED BY <1>7, <1>8

LEMMA StepForeignInv ==
  ASSUME SyncInv, [Next]_vars
  PROVE  ForeignInv'
<1> USE SyncAssumption
<1>1. TypeOK /\ ProcessInv /\ \A d \in Devices : ForeignAt(d)
  BY DEF SyncInv, ForeignInv, ForeignAt
<1>2. SUFFICES ASSUME NEW c \in Devices PROVE ForeignAt(c)'
  BY DEF ForeignInv, ForeignAt
<1>3. CASE row'[c] = row[c] /\ foreign'[c] = foreign[c] /\ live' \subseteq live /\ UNCHANGED rep
  <2>1. Trespassers(c)' \subseteq Trespassers(c)
    BY <1>3 DEF Trespassers, Owned
  <2> QED BY <1>1, <1>3, <2>1, ForeignFewer
<1>4. ASSUME NEW r \in Runners, NEW d \in Writers, RunCommit(r, d) PROVE ForeignAt(c)'
  <2> DEFINE e == [id |-> run[r].id, seq |-> run[r].seq + 1]
  <2>1. /\ e \in Event /\ d \in Devices /\ d \in live
        /\ Process(d, e, NoOwner) /\ NoOwner \in Owner0 /\ UNCHANGED <<rep, live, foreign>>
    BY <1>4, RunCommitFacts
  <2> HIDE DEF e
  <2>2. row'[d].seq = e.seq /\ e.seq \in Nat /\ \A b \in Devices \ {d} : row'[b] = row[b]
    BY <1>1, <2>1, ProcessEffect DEF Event
  <2>3. CASE c = d
    <3>1. foreign'[c] = 0
      BY <1>1, <2>1, <2>3 DEF ForeignAt
    <3>2. row'[c].seq # -1
      BY <2>2, <2>3
    <3> QED BY <3>1, <3>2, ForeignNone
  <2> QED BY <1>3, <2>1, <2>2, <2>3
<1>5. ASSUME NEW d \in Writers, Remove(d) PROVE ForeignAt(c)'
  <2>1. d \in live /\ live' = live \ {d} /\ UNCHANGED <<rep, foreign>> /\ row'[d] = NoRow
        /\ \A b \in Devices \ {d} : row'[b] = row[b]
    BY <1>1, <1>5 DEF Remove, TypeOK
  <2>2. CASE c = d
    <3>1. foreign'[c] = 0 /\ row'[c].owner = NoOwner
      BY <1>1, <2>1, <2>2 DEF ForeignAt, NoRow
    <3> QED BY <3>1, ForeignNone
  <2> QED BY <1>3, <2>1, <2>2
<1>6. ASSUME NEW d \in Replicas, NEW o \in Owners, Claim(d, o) PROVE ForeignAt(c)'
  <2>1. /\ row'[d].seq = row[d].seq /\ foreign'[d] = 0 /\ row[d].seq # -1
        /\ \A b \in Devices \ {d} : row'[b] = row[b] /\ foreign'[b] = foreign[b]
    BY <1>1, <1>6, ClaimEffect DEF Claim
  <2>2. UNCHANGED <<live, rep>>
    BY <1>6 DEF Claim
  <2>3. CASE c = d
    BY <2>1, <2>3, ForeignNone
  <2> QED BY <1>3, <2>1, <2>2, <2>3
<1>7. ASSUME NEW f \in Replayers, NEW d \in Replicas, NEW b \in Batches,
             NEW o \in Owner0, Begin(f, d, b, o)
      PROVE  ForeignAt(c)'
  <2>1. rep'[f].pc = "read" /\ \A g \in Replayers \ {f} : rep'[g] = rep[g]
    BY <1>1, <1>7, BeginEffect
  <2>2. UNCHANGED <<row, live, foreign>>
    BY <1>7 DEF Begin
  <2>3. Trespassers(c)' \subseteq Trespassers(c)
    BY <2>1, <2>2 DEF Trespassers, Owned
  <2> QED BY <1>1, <2>2, <2>3, ForeignFewer
<1>8. ASSUME NEW f \in Replayers, Read(f) \/ ApplyFails(f) PROVE ForeignAt(c)'
  <2>1. Moves(f) /\ UNCHANGED <<row, live, foreign>> /\ rep[f].pc # "idle"
    BY <1>1, <1>8, ReadMoves, AdvanceMoves DEF Read, ApplyFails
  <2>2. f \notin Trespassers(c)'
    BY <2>1 DEF Trespassers, Owned, Moves
  <2>3. Trespassers(c)' \subseteq Trespassers(c)
    BY <2>1, <2>2 DEF Trespassers, Owned, Moves
  <2> QED BY <1>1, <2>1, <2>3, ForeignFewer
<1>9. ASSUME NEW f \in Replayers, Apply(f) PROVE ForeignAt(c)'
  <2> DEFINE d == rep[f].at
  <2> DEFINE e == Head(rep[f].todo)
  <2>1. e \in Event /\ d \in Devices /\ rep[f].own \in Owner0 /\ Process(d, e, rep[f].own)
        /\ Moves(f) /\ rep'[f].pc # "process" /\ UNCHANGED live
        /\ foreign' = [foreign EXCEPT ![d] = IF Owned(f) THEN @ + 1 ELSE @]
    BY <1>9, ApplyFacts
  <2>2. CASE c = d
    BY <1>9, <2>2, ForeignApply
  <2>3. CASE c # d
    <3>1. row'[c] = row[c]
      BY <1>1, <2>1, <2>3, ProcessEffect
    <3>2. foreign'[c] = foreign[c]
      BY <1>1, <2>1, <2>3 DEF TypeOK
    <3>3. Trespassers(c)' \subseteq Trespassers(c)
      BY <2>1, <3>1 DEF Trespassers, Owned, Moves
    <3> QED BY <1>1, <2>1, <3>1, <3>2, <3>3, ForeignFewer
  <2> QED BY <2>2, <2>3
<1>10. ASSUME NEW r \in Runners, NEW d \in Writers, RunBegin(r, d) \/ RunFails(r, d)
       PROVE  ForeignAt(c)'
  BY <1>3, <1>10 DEF RunBegin, RunFails
<1>11. CASE UNCHANGED vars
  BY <1>3, <1>11 DEF vars
<1> QED BY <1>4, <1>5, <1>6, <1>7, <1>8, <1>9, <1>10, <1>11 DEF Next

-----------------------------------------------------------------------------
LEMMA InitSyncInv == Init => SyncInv
<1> SUFFICES ASSUME Init PROVE SyncInv
  OBVIOUS
<1>1. TypeOK /\ NumbersInv
  BY InitTypeInv DEF TypeInv
<1>2. Range(<<>>) = {} /\ Len(<<>>) = 0 /\ DOMAIN <<>> = {}
  BY NoRepType, EmptySeq, LenProperties
<1>3. RunInv /\ ProcessInv
  BY DEF Init, RunInv, ProcessInv, NoRun, NoRep
<1>4. SentInv
  BY <1>2 DEF Init, SentInv
<1>5. LogMatchesProjection
  <2>1. \A d \in Devices : applied[d] = <<>> /\ log[d] = {} /\ row[d].seq = -1
    BY DEF Init, NoRow
  <2>2. \A d \in Devices :
          Range(applied[d]) = {} /\ Len(applied[d]) = 0 /\ DOMAIN applied[d] = {}
    BY <1>2, <2>1, Zenon
  <2>3. ASSUME NEW d \in Devices
        PROVE  /\ \A i \in DOMAIN applied[d] : applied[d][i].seq = i - 1
               /\ log[d] = Range(applied[d])
               /\ row[d].seq = Len(applied[d]) - 1
    <3>1. /\ DOMAIN applied[d] = {} /\ Len(applied[d]) = 0 /\ Range(applied[d]) = {}
          /\ log[d] = {} /\ row[d].seq = -1
      BY <2>1, <2>2
    <3> QED BY <3>1
  <2> QED BY <2>3 DEF LogMatchesProjection
<1>6. ForeignInv
  <2>1. \A d \in Devices : Trespassers(d) = {} /\ foreign[d] = 0 /\ row[d].owner = NoOwner
    BY DEF Init, Trespassers, NoRep, NoRow
  <2>2. Cardinality({}) = 0 /\ Cardinality(Replayers) \in Nat
    BY Counting
  <2> QED BY <2>1, <2>2 DEF ForeignInv
<1> QED BY <1>1, <1>3, <1>4, <1>5, <1>6 DEF SyncInv

(* The invariant of the event log: while one device controls the session, an *)
(* open run still sees the row it read, a replay that has decided to apply   *)
(* is at most at the next number, and tables and projection agree.           *)
THEOREM SyncInvariant ==
  ASSUME SingleWriter PROVE Spec => []SyncInv
<1>1. SyncInv /\ [Next]_vars => SyncInv'
  <2> SUFFICES ASSUME SyncInv, [Next]_vars PROVE SyncInv'
    OBVIOUS
  <2>1. TypeOK' /\ NumbersInv'
    BY NextTypeInv DEF TypeInv, SyncInv
  <2>2. RunInv' /\ SentInv' /\ ProcessInv' /\ LogMatchesProjection' /\ ForeignInv'
    BY StepRunInv, StepSentInv, StepProcessInv, StepLog, StepForeignInv
  <2> QED BY <2>1, <2>2 DEF SyncInv
<1> QED BY <1>1, InitSyncInv, PTL DEF Spec

(* On every device the events were applied once each and in order, and the   *)
(* event table, the sequence row and the projection agree, whatever replays  *)
(* of whatever batches were interleaved.                                     *)
THEOREM LogInOrder ==
  ASSUME SingleWriter PROVE Spec => []LogMatchesProjection
<1>1. SyncInv => LogMatchesProjection
  BY DEF SyncInv
<1> QED BY <1>1, SyncInvariant, PTL

(* Two devices that replayed the log of one writer agree as far as both are. *)
THEOREM DevicesAgree ==
  ASSUME SingleWriter PROVE Spec => []PrefixAgreement
<1>1. SyncInv => PrefixAgreement
  <2> SUFFICES ASSUME SyncInv, NEW d \in Devices, NEW e \in Devices,
                      NEW i \in DOMAIN applied[d] \cap DOMAIN applied[e]
               PROVE  applied[d][i] = applied[e][i]
    BY DEF PrefixAgreement
  <2>1. applied[d][i].seq = i - 1 /\ applied[e][i].seq = i - 1
    BY DEF SyncInv, LogMatchesProjection
  <2>2. applied[d][i] \in sent /\ applied[e][i] \in sent
    BY DEF SyncInv, SentInv, Range
  <2> QED BY <2>1, <2>2 DEF SyncInv, SentInv
<1> QED BY <1>1, SyncInvariant, PTL

(* After a claim, at most one more event per replaying fiber is applied for  *)
(* somebody else than the owner.                                             *)
THEOREM ForeignFew ==
  ASSUME SingleWriter PROVE Spec => []ForeignBounded
<1>1. SyncInv => ForeignBounded
  <2> SUFFICES ASSUME SyncInv, NEW d \in Devices
               PROVE  foreign[d] <= Cardinality(Replayers)
    BY DEF ForeignBounded
  <2>1. foreign[d] \in Nat /\ foreign[d] + Cardinality(Trespassers(d)) <= Cardinality(Replayers)
    BY DEF SyncInv, TypeOK, ForeignInv
  <2>2. Trespassers(d) \in SUBSET Replayers
    BY DEF Trespassers
  <2>3. Cardinality(Trespassers(d)) \in Nat /\ Cardinality(Replayers) \in Nat
    BY <2>2, Counting
  <2> QED BY <2>1, <2>3
<1> QED BY <1>1, SyncInvariant, PTL
=============================================================================
