---------------------------- MODULE UserRequests ----------------------------
(***************************************************************************)
(* packages/runtime/src/permission/index.ts and question/index.ts: the     *)
(* requests that wait for the user.  A tool call asks and waits on a       *)
(* Deferred; a reply takes the request out of the pending map, publishes   *)
(* and completes the Deferred.  A permission reply then goes over the rest *)
(* of the map: a rejection rejects the session's other requests, "always"  *)
(* adds rules and grants the session's requests they cover.                *)
(*                                                                         *)
(* Every bus.publish is a suspension, at which other fibers act on the map *)
(* and the reply may be interrupted (its HTTP client went away).  A step   *)
(* is what a fiber does between two of them.  The two services keep one    *)
(* map each; a request is in the map of its own.                           *)
(***************************************************************************)
EXTENDS Naturals, FiniteSets

CONSTANTS
  Requests,   \* requests the tools may make, each once (ids are fresh)
  Questions,  \* those made to the Question service
  Repliers,   \* fibers that call reply and reject
  None,       \* no request
  Session,    \* Session[r]: its session
  Needs,      \* Needs[r]: its patterns
  Always,     \* Always[r]: patterns that the rules in its `always` match
  Rule,       \* Rule[p]: what the caller's ruleset says of pattern p
  MaxInterrupts \* bound: asks and replies that are interrupted

Patterns == DOMAIN Rule
Sessions == {Session[r] : r \in Requests}

ASSUME RequestsAssumption ==
  /\ IsFiniteSet(Requests) /\ Questions \subseteq Requests
  /\ None \notin Requests /\ MaxInterrupts \in Nat
  /\ Rule \in [Patterns -> {"allow", "deny", "ask"}]
  /\ Needs \in [Requests -> SUBSET Patterns]
  /\ Always \in [Requests -> SUBSET Patterns]
  /\ Session \in [Requests -> Sessions]

VARIABLES
  pending,   \* requests in the two maps
  order,     \* order[r]: the place r was inserted at, 0 when it was not
  inserted,  \* number of insertions
  deferred,  \* deferred[r]: the Deferred of r
  ask,       \* ask[r]: the fiber that asked, and how it ended
  approved,  \* the patterns the rules in `approved` match
  rep,       \* rep[f]: where replier f stands
  disposed,  \* the instance's state was closed
  rules,     \* observation: rules[s], approved by replies to session s
  refused,   \* observation: sessions one of whose requests was rejected
  granted,   \* observation: requests the user answered
  lost,      \* observation: requests a reply held when it was interrupted
  cut        \* observation: sessions whose cascade was interrupted

vars == <<pending, order, inserted, deferred, ask, approved, rep, disposed,
          rules, refused, granted, lost, cut>>
seen == <<refused, granted>>

Ended   == {"allowed", "denied", "rejected", "interrupted"}
Answers == {"allowed", "rejected"}
Kinds(r) == IF r \in Questions THEN {"answer", "dismiss"}
                               ELSE {"once", "always", "reject"}
Rejects == {"dismiss", "reject"}
Idle    == [pc |-> "idle", req |-> None, kind |-> "once", held |-> None, pos |-> 0]

(* first: the reply publishes its own request; cascade: it publishes one it  *)
(* met while going over the map.  held is the request it has taken out.      *)
TypeOK ==
  /\ pending \subseteq Requests
  /\ order \in [Requests -> Nat] /\ inserted \in Nat
  /\ deferred \in [Requests -> {"none", "open"} \cup Answers]
  /\ ask \in [Requests -> {"none", "publish", "await"} \cup Ended]
  /\ approved \subseteq Patterns
  /\ rep \in [Repliers -> [pc : {"idle", "first", "cascade"},
                           req : Requests \cup {None},
                           kind : {"answer", "once", "always"} \cup Rejects,
                           held : Requests \cup {None}, pos : Nat]]
  /\ disposed \in BOOLEAN
  /\ rules \in [Sessions -> SUBSET Patterns]
  /\ refused \subseteq Sessions /\ cut \subseteq Sessions
  /\ granted \subseteq Requests /\ lost \subseteq Requests
  /\ pending \subseteq {r \in Requests : deferred[r] # "none"}
  /\ \A f \in Repliers : (rep[f].pc = "idle") <=> (rep[f].held = None)

Init ==
  /\ pending = {} /\ inserted = 0
  /\ order = [r \in Requests |-> 0]
  /\ deferred = [r \in Requests |-> "none"]
  /\ ask = [r \in Requests |-> "none"]
  /\ approved = {}
  /\ rep = [f \in Repliers |-> Idle]
  /\ disposed = FALSE
  /\ rules = [s \in Sessions |-> {}]
  /\ refused = {} /\ granted = {} /\ lost = {} /\ cut = {}

-----------------------------------------------------------------------------
(* evaluate: the last rule that matches; the approved rules come last.       *)
Evaluate(p) == IF p \in approved THEN "allow" ELSE Rule[p]

Interrupts == Cardinality({r \in Requests : ask[r] = "interrupted"}) + Cardinality(lost)

(* ask.  A question always asks; a permission is refused, granted at once or *)
(* left to the user.                                                         *)
AskVerdict(r) ==
  IF r \in Questions THEN "ask"
  ELSE IF \E p \in Needs[r] : Evaluate(p) = "deny" THEN "denied"
  ELSE IF \A p \in Needs[r] : Evaluate(p) = "allow" THEN "allowed" ELSE "ask"

AskAtOnce(r) ==
  /\ ask[r] = "none" /\ ~disposed
  /\ AskVerdict(r) # "ask"
  /\ ask' = [ask EXCEPT ![r] = AskVerdict(r)]
  /\ UNCHANGED <<pending, order, inserted, deferred, approved, rep, disposed, rules,
                 lost, cut, seen>>

AskUser(r) ==
  /\ ask[r] = "none" /\ ~disposed
  /\ AskVerdict(r) = "ask"
  /\ pending' = pending \cup {r}
  /\ inserted' = inserted + 1
  /\ order' = [order EXCEPT ![r] = inserted + 1]
  /\ deferred' = [deferred EXCEPT ![r] = "open"]
  /\ ask' = [ask EXCEPT ![r] = "publish"]
  /\ UNCHANGED <<approved, rep, disposed, rules, lost, cut, seen>>

AskPublished(r) ==
  /\ ask[r] = "publish"
  /\ ask' = [ask EXCEPT ![r] = "await"]
  /\ UNCHANGED <<pending, order, inserted, deferred, approved, rep, disposed, rules,
                 lost, cut, seen>>

(* The Deferred is complete; the ensuring clause takes r out of the map.     *)
AskReturns(r) ==
  /\ ask[r] = "await" /\ deferred[r] # "open"
  /\ ask' = [ask EXCEPT ![r] = deferred[r]]
  /\ pending' = pending \ {r}
  /\ UNCHANGED <<order, inserted, deferred, approved, rep, disposed, rules,
                 lost, cut, seen>>

(* The session is cancelled.  At the publish nothing takes r out again.      *)
AskInterrupted(r) ==
  /\ ask[r] \in {"publish", "await"} /\ Interrupts < MaxInterrupts
  /\ ask' = [ask EXCEPT ![r] = "interrupted"]
  /\ pending' = IF ask[r] = "await" THEN pending \ {r} ELSE pending
  /\ UNCHANGED <<order, inserted, deferred, approved, rep, disposed, rules,
                 lost, cut, seen>>

-----------------------------------------------------------------------------
(* reply and reject *)

Complete(r, v) == [deferred EXCEPT ![r] = IF @ = "open" THEN v ELSE @]

(* An id that is not in the map is a NotFoundError and changes nothing.      *)
Reply(f, r, k) ==
  /\ rep[f].pc = "idle" /\ r \in pending /\ k \in Kinds(r)
  /\ pending' = pending \ {r}
  /\ rep' = [rep EXCEPT ![f] = [pc |-> "first", req |-> r, kind |-> k,
                                held |-> r, pos |-> 0]]
  /\ IF k \in Rejects
       THEN refused' = refused \cup {Session[r]} /\ UNCHANGED granted
       ELSE granted' = granted \cup {r} /\ UNCHANGED refused
  /\ UNCHANGED <<order, inserted, deferred, ask, approved, disposed, rules, lost, cut>>

(* Does the cascade of a reply to q with kind k take the pending request r?  *)
(* Mutant: one covered pattern is enough.                                    *)
TakesIfSome(q, k, r, ok) ==
  /\ r \notin Questions /\ Session[r] = Session[q]
  /\ k = "always" => Needs[r] \cap ok # {}

Takes(q, k, r, ok) ==
  /\ r \notin Questions /\ Session[r] = Session[q]
  /\ k = "always" => Needs[r] \subseteq ok

(* The iterator of the live map: in order of insertion, entries added while  *)
(* it runs included, from place pos on.                                      *)
(* Mutant: a copy of the map, made when the reply was published, is walked.  *)
AheadOfCopy(f, ok) ==
  {r \in pending : order[r] > rep[f].pos /\ order[r] < order[rep[f].req]
                   /\ Takes(rep[f].req, rep[f].kind, r, ok)}

Ahead(f, ok) ==
  {r \in pending : order[r] > rep[f].pos /\ Takes(rep[f].req, rep[f].kind, r, ok)}

(* Mutant: the end of the reply does not let go of what it held.           *)
WalkKeepsHeld(f, ok) ==
  /\ rep' = [rep EXCEPT ![f].pc = IF Ahead(f, ok) = {} THEN "idle" ELSE "cascade"]
  /\ UNCHANGED pending

Walk(f, ok) ==
  IF Ahead(f, ok) = {}
    THEN rep' = [rep EXCEPT ![f] = Idle] /\ UNCHANGED pending
    ELSE \E r \in Ahead(f, ok) :
           /\ \A q \in Ahead(f, ok) : order[r] <= order[q]
           /\ pending' = pending \ {r}
           /\ rep' = [rep EXCEPT ![f].pc = "cascade", ![f].held = r, ![f].pos = order[r]]

(* RejectedError, or CorrectedError when the user sent a message with it.    *)
Outcome(k) == IF k \in Rejects THEN "rejected" ELSE "allowed"

(* The request itself is answered; "always" adds its rules, and it and the   *)
(* rejections begin to go over the map.                                      *)
ReplyPublished(f) ==
  LET q == rep[f].req  k == rep[f].kind
  IN  /\ rep[f].pc = "first"
      /\ deferred' = Complete(q, Outcome(k))
      /\ approved' = IF k = "always" THEN approved \cup Always[q] ELSE approved
      /\ rules' = IF k = "always" THEN [rules EXCEPT ![Session[q]] = @ \cup Always[q]]
                                  ELSE rules
      /\ IF k \in {"always", "reject"}
           THEN Walk(f, approved')
           ELSE rep' = [rep EXCEPT ![f] = Idle] /\ UNCHANGED pending
      /\ UNCHANGED <<order, inserted, ask, disposed, lost, cut, seen>>

CascadePublished(f) ==
  /\ rep[f].pc = "cascade"
  /\ deferred' = Complete(rep[f].held, Outcome(rep[f].kind))
  /\ Walk(f, approved)
  /\ UNCHANGED <<order, inserted, ask, approved, disposed, rules, lost, cut, seen>>

(* The reply is interrupted at a publish, and what it held is in no map.     *)
ReplyInterrupted(f) ==
  /\ rep[f].pc # "idle" /\ Interrupts < MaxInterrupts
  /\ lost' = lost \cup {rep[f].held}
  /\ cut' = cut \cup {Session[rep[f].req]}
  /\ rep' = [rep EXCEPT ![f] = Idle]
  /\ UNCHANGED <<pending, order, inserted, deferred, ask, approved, disposed, rules, seen>>

(* Mutant: the map is cleared and nobody is told.                            *)
DisposeSilently ==
  /\ ~disposed /\ disposed' = TRUE
  /\ pending' = {}
  /\ UNCHANGED <<order, inserted, deferred, ask, approved, rep, rules, lost, cut, seen>>

(* The finalizers of the two states.                                         *)
Dispose ==
  /\ ~disposed /\ disposed' = TRUE
  /\ deferred' = [r \in Requests |-> IF r \in pending /\ deferred[r] = "open"
                                       THEN "rejected" ELSE deferred[r]]
  /\ pending' = {}
  /\ UNCHANGED <<order, inserted, ask, approved, rep, rules, lost, cut, seen>>

Next ==
  \/ \E r \in Requests : \/ AskAtOnce(r) \/ AskUser(r) \/ AskPublished(r)
                         \/ AskReturns(r) \/ AskInterrupted(r)
  \/ \E f \in Repliers, r \in Requests : \E k \in Kinds(r) : Reply(f, r, k)
  \/ \E f \in Repliers : ReplyPublished(f) \/ CascadePublished(f) \/ ReplyInterrupted(f)
  \/ Dispose

Spec == Init /\ [][Next]_vars

-----------------------------------------------------------------------------
(* Properties *)

Waits(r) == ask[r] \in {"publish", "await"}

(* Whoever waits can still be reached: the request is in the map, in the     *)
(* hands of a reply, or answered.  Only a reply that is interrupted between  *)
(* taking the request out and completing it leaves its asker behind; the     *)
(* closing of the instance leaves nobody.                                    *)
NoLostAsker ==
  \A r \in Requests :
    Waits(r) /\ deferred[r] = "open"
      => r \in pending \cup lost \/ \E f \in Repliers : rep[f].held = r

(* A tool runs only on the user's word or the rules: its own request was     *)
(* granted, or every pattern is allowed by the ruleset or by approved rules. *)
(* And nothing is rejected unless the user rejected a request of this very   *)
(* session or the instance was closed.                                       *)
AnswersJustified ==
  \A r \in Requests :
    /\ ask[r] = "allowed" \/ deferred[r] = "allowed"
         => \/ r \in granted
            \/ r \notin Questions
               /\ \A p \in Needs[r] : p \in approved \/ Rule[p] = "allow"
    /\ deferred[r] = "rejected" => Session[r] \in refused \/ disposed

(* A request that the rules of its own session cover does not stay pending:  *)
(* a cascade of the session has yet to come to it.                           *)
CoveredIsAnswered ==
  \A r \in pending \ Questions :
    Needs[r] \subseteq rules[Session[r]] /\ Session[r] \notin cut
      => \E f \in Repliers : /\ rep[f].kind = "always" /\ rep[f].pc # "idle"
                             /\ Session[rep[f].req] = Session[r]
                             /\ rep[f].pos < order[r]

-----------------------------------------------------------------------------
(* The inductive invariant behind the properties.                            *)

(* Every entry of the maps has a place of its own, up to the last one given. *)
OrderInv ==
  /\ \A r \in Requests : order[r] <= inserted
  /\ \A r \in pending : order[r] > 0
  /\ \A r, q \in Requests : order[r] = order[q] /\ order[r] > 0 => r = q

(* What a reply holds: its own request, which the user has answered as the   *)
(* reply says, or one of the same session that its rules cover or that the   *)
(* rejection extends to.                                                     *)
HeldInv ==
  \A f \in Repliers : rep[f].pc # "idle" =>
    /\ rep[f].req \in Requests /\ rep[f].kind \in Kinds(rep[f].req)
    /\ IF rep[f].kind \in Rejects THEN Session[rep[f].req] \in refused
                                  ELSE rep[f].req \in granted
    /\ rep[f].pc = "first" => rep[f].held = rep[f].req /\ rep[f].pos = 0
    /\ rep[f].pc = "cascade" =>
         /\ rep[f].kind \in {"always", "reject"}
         /\ rep[f].held \notin Questions
         /\ Session[rep[f].held] = Session[rep[f].req]
         /\ rep[f].kind = "always" => Needs[rep[f].held] \subseteq approved

(* What the replies to one session approved is approved for all.             *)
RulesInv == \A s \in Sessions : rules[s] \subseteq approved

RequestsInv ==
  /\ TypeOK /\ OrderInv /\ HeldInv /\ RulesInv
  /\ NoLostAsker /\ AnswersJustified /\ CoveredIsAnswered
=============================================================================
