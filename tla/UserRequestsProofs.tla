-------------------------- MODULE UserRequestsProofs --------------------------
(***************************************************************************)
(* That nobody who waits for the user is forgotten, that every answer is   *)
(* justified and that covered requests are answered, for any requests,     *)
(* rules and repliers.                                                     *)
(***************************************************************************)
EXTENDS UserRequests, TLAPS

RepType == [pc : {"idle", "first", "cascade"}, req : Requests \cup {None},
            kind : {"answer", "once", "always"} \cup Rejects,
            held : Requests \cup {None}, pos : Nat]
AskType == {"none", "publish", "await"} \cup Ended
DefType == {"none", "open"} \cup Answers

(* A reply that has published what it held ends ...                          *)
LetsGo(f) == rep' = [rep EXCEPT ![f] = Idle] /\ pending' = pending

(* ... or takes the next request of the map.                                 *)
TakesNext(f, r, ok) ==
  /\ r \in Ahead(f, ok)
  /\ \A q \in Ahead(f, ok) : order[r] <= order[q]
  /\ pending' = pending \ {r}
  /\ rep' = [rep EXCEPT ![f].pc = "cascade", ![f].held = r, ![f].pos = order[r]]

(* The first request ahead of the iterator is taken, if there is one.        *)
LEMMA WalkSplits ==
  ASSUME NEW f \in Repliers, NEW ok, Walk(f, ok)
  PROVE  \/ LetsGo(f) /\ Ahead(f, ok) = {}
         \/ \E r \in Ahead(f, ok) : TakesNext(f, r, ok)
BY DEF Walk, LetsGo, TakesNext

(* What a reply that stands at its request goes on to hold.                  *)
LEMMA TakesNextEffect ==
  ASSUME TypeOK, NEW f \in Repliers, NEW ok, NEW r, TakesNext(f, r, ok)
  PROVE  /\ r \in pending /\ r \in Requests /\ r # None
         /\ order[r] > rep[f].pos /\ Takes(rep[f].req, rep[f].kind, r, ok)
         /\ rep' \in [Repliers -> RepType]
         /\ rep'[f].pc = "cascade" /\ rep'[f].held = r /\ rep'[f].pos = order[r]
         /\ rep'[f].req = rep[f].req /\ rep'[f].kind = rep[f].kind
         /\ \A g \in Repliers \ {f} : rep'[g] = rep[g]
<1>1. rep \in [Repliers -> RepType] /\ order \in [Requests -> Nat] /\ pending \subseteq Requests
  BY DEF TypeOK, RepType
<1>2. r \in pending /\ order[r] > rep[f].pos /\ Takes(rep[f].req, rep[f].kind, r, ok)
  BY DEF TakesNext, Ahead
<1>3. rep' = [rep EXCEPT ![f].pc = "cascade", ![f].held = r, ![f].pos = order[r]]
  BY DEF TakesNext
<1>4. rep'[f] = [rep[f] EXCEPT !.pc = "cascade", !.held = r, !.pos = order[r]]
  BY <1>1, <1>3
<1>5. rep[f] \in RepType /\ r \in Requests /\ order[r] \in Nat
  BY <1>1, <1>2
<1>6. /\ rep'[f] \in RepType
      /\ rep'[f].pc = "cascade" /\ rep'[f].held = r /\ rep'[f].pos = order[r]
      /\ rep'[f].req = rep[f].req /\ rep'[f].kind = rep[f].kind
  BY <1>4, <1>5 DEF RepType
<1>7. \A g \in Repliers \ {f} : rep'[g] = rep[g]
  BY <1>1, <1>3
<1>8. rep' \in [Repliers -> RepType]
  BY <1>1, <1>3, <1>6, <1>7
<1> QED BY <1>2, <1>5, <1>6, <1>7, <1>8, RequestsAssumption

LEMMA LetsGoEffect ==
  ASSUME TypeOK, NEW f \in Repliers, LetsGo(f) \/ rep' = [rep EXCEPT ![f] = Idle]
  PROVE  /\ rep' \in [Repliers -> RepType]
         /\ rep'[f].pc = "idle" /\ rep'[f].held = None
         /\ \A g \in Repliers \ {f} : rep'[g] = rep[g]
<1>1. rep \in [Repliers -> RepType]
  BY DEF TypeOK, RepType
<1>2. Idle \in RepType /\ Idle.pc = "idle" /\ Idle.held = None
  BY DEF Idle, RepType
<1>3. rep' = [rep EXCEPT ![f] = Idle]
  BY DEF LetsGo
<1> QED BY <1>1, <1>2, <1>3

(* A Deferred is completed once.                                             *)
LEMMA CompleteEffect ==
  ASSUME TypeOK, NEW r \in Requests, NEW v \in Answers, deferred' = Complete(r, v)
  PROVE  /\ deferred' \in [Requests -> DefType]
         /\ deferred'[r] = IF deferred[r] = "open" THEN v ELSE deferred[r]
         /\ \A q \in Requests \ {r} : deferred'[q] = deferred[q]
<1>1. deferred \in [Requests -> DefType]
  BY DEF TypeOK, DefType
<1>2. deferred' = [deferred EXCEPT ![r] = IF deferred[r] = "open" THEN v ELSE deferred[r]]
  BY DEF Complete
<1>3. deferred[r] \in DefType /\ v \in DefType
  BY <1>1 DEF DefType
<1> QED BY <1>1, <1>2, <1>3

(* Both publications of a reply complete what the reply holds; the first     *)
(* one also adds the rules of an "always".                                   *)
Published(f) ==
  /\ rep[f].pc # "idle" /\ rep[f].held \in Requests /\ rep[f].req \in Requests
  /\ deferred' = Complete(rep[f].held, Outcome(rep[f].kind))
  /\ approved \subseteq approved' /\ approved' \subseteq Patterns
  /\ rules' \in [Sessions -> SUBSET Patterns]
  /\ \A s \in Sessions : rules[s] \subseteq rules'[s] /\ rules'[s] \subseteq approved'
  /\ \A s \in Sessions \ {Session[rep[f].req]} : rules'[s] = rules[s]
  /\ rep[f].kind # "always" \/ rep[f].pc = "cascade" => rules' = rules
  /\ \/ LetsGo(f) /\ (rep[f].kind \in {"always", "reject"} => Ahead(f, approved') = {})
     \/ rep[f].kind \in {"always", "reject"} /\ \E r \in Requests : TakesNext(f, r, approved')
  /\ UNCHANGED <<order, inserted, ask, disposed, lost, cut, refused, granted>>

LEMMA PublishedEffect ==
  ASSUME TypeOK, HeldInv, RulesInv, NEW f \in Repliers,
         ReplyPublished(f) \/ CascadePublished(f)
  PROVE  Published(f)
<1> USE RequestsAssumption
<1> DEFINE q == rep[f].req
<1> DEFINE k == rep[f].kind
<1>1. rep[f].pc # "idle" /\ rep \in [Repliers -> RepType]
  BY DEF ReplyPublished, CascadePublished, TypeOK, RepType
<1>2. q \in Requests /\ k \in Kinds(q)
  BY <1>1 DEF HeldInv
<1>3. rep[f].held \in Requests
  BY <1>1 DEF TypeOK, RepType
<1>4. rules \in [Sessions -> SUBSET Patterns] /\ approved \subseteq Patterns
      /\ Session[q] \in Sessions /\ Always[q] \subseteq Patterns
  BY <1>2 DEF TypeOK, Sessions
<1>5. \A ok : Ahead(f, ok) \subseteq Requests
  BY DEF Ahead, TypeOK
<1>6. ASSUME ReplyPublished(f) PROVE Published(f)
  <2>1. /\ deferred' = Complete(q, Outcome(k))
        /\ approved' = IF k = "always" THEN approved \cup Always[q] ELSE approved
        /\ rules' = IF k = "always" THEN [rules EXCEPT ![Session[q]] = @ \cup Always[q]]
                                    ELSE rules
        /\ IF k \in {"always", "reject"} THEN Walk(f, approved') ELSE LetsGo(f)
        /\ UNCHANGED <<order, inserted, ask, disposed, lost, cut, refused, granted>>
        /\ rep[f].pc = "first"
    BY <1>6 DEF ReplyPublished, LetsGo, seen
  <2>2. rep[f].held = q
    BY <1>1, <2>1 DEF HeldInv
  <2>3. approved \subseteq approved' /\ approved' \subseteq Patterns
    BY <1>4, <2>1
  <2>4. /\ rules' \in [Sessions -> SUBSET Patterns]
        /\ \A s \in Sessions : rules[s] \subseteq rules'[s] /\ rules'[s] \subseteq approved'
        /\ \A s \in Sessions \ {Session[q]} : rules'[s] = rules[s]
        /\ k # "always" => rules' = rules
    <3>1. CASE k = "always"
      BY <1>4, <2>1, <3>1 DEF RulesInv
    <3>2. CASE k # "always"
      BY <1>4, <2>1, <3>2 DEF RulesInv
    <3> QED BY <3>1, <3>2
  <2>5. \/ LetsGo(f) /\ (k \in {"always", "reject"} => Ahead(f, approved') = {})
        \/ k \in {"always", "reject"} /\ \E r \in Requests : TakesNext(f, r, approved')
    BY <1>5, <2>1, WalkSplits
  <2> QED BY <1>1, <1>2, <1>3, <2>1, <2>2, <2>3, <2>4, <2>5 DEF Published
<1>7. ASSUME CascadePublished(f) PROVE Published(f)
  <2>1. /\ deferred' = Complete(rep[f].held, Outcome(k)) /\ Walk(f, approved)
        /\ UNCHANGED <<order, inserted, ask, approved, disposed, rules, lost, cut, refused, granted>>
        /\ rep[f].pc = "cascade"
    BY <1>7 DEF CascadePublished, seen
  <2>2. k \in {"always", "reject"}
    BY <1>1, <2>1 DEF HeldInv
  <2>3. \/ LetsGo(f) /\ (k \in {"always", "reject"} => Ahead(f, approved') = {})
        \/ k \in {"always", "reject"} /\ \E r \in Requests : TakesNext(f, r, approved')
    BY <1>5, <2>1, <2>2, WalkSplits
  <2> QED BY <1>1, <1>2, <1>3, <1>4, <2>1, <2>3 DEF Published, RulesInv
<1> QED BY <1>6, <1>7

(* What reply and reject do first.                                           *)
LEMMA ReplyEffect ==
  ASSUME TypeOK, NEW f \in Repliers, NEW r \in Requests, NEW k \in Kinds(r), Reply(f, r, k)
  PROVE  /\ rep[f].pc = "idle" /\ r \in pending /\ pending' = pending \ {r}
         /\ rep' \in [Repliers -> RepType] /\ r # None
         /\ rep'[f].pc = "first" /\ rep'[f].req = r /\ rep'[f].kind = k
         /\ rep'[f].held = r /\ rep'[f].pos = 0
         /\ \A g \in Repliers \ {f} : rep'[g] = rep[g]
         /\ k \in Rejects => refused' = refused \cup {Session[r]} /\ granted' = granted
         /\ k \notin Rejects => granted' = granted \cup {r} /\ refused' = refused
         /\ UNCHANGED <<order, inserted, deferred, ask, approved, disposed, rules, lost, cut>>
<1> DEFINE new == [pc |-> "first", req |-> r, kind |-> k, held |-> r, pos |-> 0]
<1>1. new \in RepType /\ new.pc = "first" /\ new.req = r /\ new.kind = k
      /\ new.held = r /\ new.pos = 0
  BY DEF RepType, Kinds, Rejects
<1>2. rep' = [rep EXCEPT ![f] = new] /\ rep \in [Repliers -> RepType]
  BY DEF Reply, TypeOK, RepType
<1> HIDE DEF new
<1>3. rep' \in [Repliers -> RepType] /\ rep'[f] = new
      /\ \A g \in Repliers \ {f} : rep'[g] = rep[g]
  BY <1>1, <1>2
<1>4. /\ rep[f].pc = "idle" /\ r \in pending /\ pending' = pending \ {r}
      /\ k \in Rejects => refused' = refused \cup {Session[r]} /\ granted' = granted
      /\ k \notin Rejects => granted' = granted \cup {r} /\ refused' = refused
      /\ UNCHANGED <<order, inserted, deferred, ask, approved, disposed, rules, lost, cut>>
  BY DEF Reply
<1> QED BY <1>1, <1>3, <1>4, RequestsAssumption

-----------------------------------------------------------------------------
LEMMA InitType == Init => TypeOK
<1> SUFFICES ASSUME Init PROVE TypeOK
  OBVIOUS
<1>1. Idle \in RepType /\ Idle.pc = "idle" /\ Idle.held = None
  BY DEF Idle, RepType
<1> QED BY <1>1 DEF Init, TypeOK, RepType, Sessions

(* The steps of ask.                                                         *)
LEMMA TypeAsk ==
  ASSUME TypeOK, NEW r \in Requests,
         \/ AskAtOnce(r) \/ AskUser(r) \/ AskPublished(r)
         \/ AskReturns(r) \/ AskInterrupted(r)
  PROVE  TypeOK'
<1>1. CASE AskAtOnce(r)
  <2>1. AskVerdict(r) \in {"denied", "allowed"}
    BY <1>1 DEF AskAtOnce, AskVerdict
  <2> QED BY <1>1, <2>1 DEF AskAtOnce, TypeOK, seen, Ended
<1>2. CASE AskUser(r)
  BY <1>2 DEF AskUser, TypeOK, seen
<1>3. CASE AskPublished(r)
  BY <1>3 DEF AskPublished, TypeOK, seen
<1>4. CASE AskReturns(r)
  <2>1. deferred[r] \in {"none", "allowed", "rejected"}
    BY <1>4 DEF AskReturns, TypeOK, Answers
  <2>2. ask' \in [Requests -> {"none", "publish", "await"} \cup Ended]
    BY <1>4, <2>1 DEF AskReturns, TypeOK, Ended
  <2> QED BY <1>4, <2>2 DEF AskReturns, TypeOK, seen
<1>5. CASE AskInterrupted(r)
  <2>1. ask' \in [Requests -> {"none", "publish", "await"} \cup Ended]
    BY <1>5 DEF AskInterrupted, TypeOK, Ended
  <2>2. pending' \subseteq pending
    BY <1>5 DEF AskInterrupted
  <2> QED BY <1>5, <2>1, <2>2 DEF AskInterrupted, TypeOK, seen
<1> QED BY <1>1, <1>2, <1>3, <1>4, <1>5

LEMMA TypePublished ==
  ASSUME TypeOK, NEW f \in Repliers, Published(f)
  PROVE  TypeOK'
<1> USE RequestsAssumption
<1>1. rep[f].held \in Requests /\ Outcome(rep[f].kind) \in Answers
  BY DEF Published, Outcome, Answers
<1>2. /\ deferred' \in [Requests -> DefType]
      /\ deferred'[rep[f].held] = IF deferred[rep[f].held] = "open" THEN Outcome(rep[f].kind)
                                  ELSE deferred[rep[f].held]
      /\ \A q \in Requests \ {rep[f].held} : deferred'[q] = deferred[q]
  BY <1>1, CompleteEffect DEF Published
<1>3. /\ rep' \in [Repliers -> RepType] /\ pending' \subseteq pending
      /\ (rep'[f].pc = "idle") <=> (rep'[f].held = None)
      /\ \A g \in Repliers \ {f} : rep'[g] = rep[g]
  <2>1. CASE LetsGo(f)
    BY <2>1, LetsGoEffect DEF LetsGo
  <2>2. ASSUME NEW r \in Requests, TakesNext(f, r, approved')
        PROVE  /\ rep' \in [Repliers -> RepType] /\ pending' \subseteq pending
               /\ (rep'[f].pc = "idle") <=> (rep'[f].held = None)
               /\ \A g \in Repliers \ {f} : rep'[g] = rep[g]
    <3>1. /\ rep' \in [Repliers -> RepType] /\ r # None
          /\ rep'[f].pc = "cascade" /\ rep'[f].held = r
          /\ \A g \in Repliers \ {f} : rep'[g] = rep[g]
      BY <2>2, TakesNextEffect
    <3>2. pending' \subseteq pending
      BY <2>2 DEF TakesNext
    <3> QED BY <3>1, <3>2
  <2> QED BY <2>1, <2>2 DEF Published
<1>4. \A r \in Requests : deferred[r] # "none" => deferred'[r] # "none"
  BY <1>1, <1>2 DEF Answers
<1>5. pending' \subseteq {r \in Requests : deferred'[r] # "none"}
  BY <1>3, <1>4 DEF TypeOK
<1>6. \A g \in Repliers : (rep'[g].pc = "idle") <=> (rep'[g].held = None)
  BY <1>3 DEF TypeOK
<1>7. pending' \subseteq Requests
  BY <1>3 DEF TypeOK
<1>8. approved' \subseteq Patterns /\ rules' \in [Sessions -> SUBSET Patterns]
      /\ UNCHANGED <<order, inserted, ask, disposed, lost, cut, refused, granted>>
  BY DEF Published
<1> QED BY <1>2, <1>3, <1>5, <1>6, <1>7, <1>8 DEF TypeOK, DefType, RepType

LEMMA TypeReply ==
  ASSUME TypeOK, NEW f \in Repliers, NEW r \in Requests, NEW k \in Kinds(r), Reply(f, r, k)
  PROVE  TypeOK'
<1>1. /\ pending' = pending \ {r} /\ rep' \in [Repliers -> RepType] /\ r # None
      /\ rep'[f].pc = "first" /\ rep'[f].held = r
      /\ \A g \in Repliers \ {f} : rep'[g] = rep[g]
      /\ k \in Rejects => refused' = refused \cup {Session[r]} /\ granted' = granted
      /\ k \notin Rejects => granted' = granted \cup {r} /\ refused' = refused
      /\ UNCHANGED <<order, inserted, deferred, ask, approved, disposed, rules, lost, cut>>
  BY ReplyEffect
<1>2. Session[r] \in Sessions
  BY DEF Sessions
<1>3. \A g \in Repliers : (rep'[g].pc = "idle") <=> (rep'[g].held = None)
  BY <1>1 DEF TypeOK
<1>4. refused' \subseteq Sessions /\ granted' \subseteq Requests
  BY <1>1, <1>2 DEF TypeOK
<1> QED BY <1>1, <1>3, <1>4 DEF TypeOK, RepType

LEMMA TypeInterrupted ==
  ASSUME TypeOK, HeldInv, NEW f \in Repliers, ReplyInterrupted(f)
  PROVE  TypeOK'
<1>1. rep[f].pc # "idle" /\ lost' = lost \cup {rep[f].held}
      /\ cut' = cut \cup {Session[rep[f].req]} /\ rep' = [rep EXCEPT ![f] = Idle]
      /\ UNCHANGED <<pending, order, inserted, deferred, ask, approved, disposed, rules,
                     refused, granted>>
  BY DEF ReplyInterrupted, seen
<1>2. rep[f].held \in Requests /\ rep[f].req \in Requests
  BY <1>1 DEF TypeOK, HeldInv
<1>3. Session[rep[f].req] \in Sessions
  BY <1>2 DEF Sessions
<1>4. /\ rep' \in [Repliers -> RepType] /\ rep'[f].pc = "idle" /\ rep'[f].held = None
      /\ \A g \in Repliers \ {f} : rep'[g] = rep[g]
  BY <1>1, LetsGoEffect
<1>5. \A g \in Repliers : (rep'[g].pc = "idle") <=> (rep'[g].held = None)
  BY <1>4 DEF TypeOK
<1>6. lost' \subseteq Requests /\ cut' \subseteq Sessions
  BY <1>1, <1>2, <1>3 DEF TypeOK
<1> QED BY <1>1, <1>4, <1>5, <1>6 DEF TypeOK, RepType

LEMMA TypeDispose ==
  ASSUME TypeOK, Dispose
  PROVE  TypeOK'
<1>1. deferred' \in [Requests -> {"none", "open"} \cup Answers]
  BY DEF Dispose, TypeOK, Answers
<1> QED BY <1>1 DEF Dispose, TypeOK, seen

(* Every step keeps the types.                                               *)
LEMMA StepType ==
  ASSUME TypeOK, HeldInv, RulesInv, [Next]_vars
  PROVE  TypeOK'
<1>1. ASSUME NEW r \in Requests, \/ AskAtOnce(r) \/ AskUser(r) \/ AskPublished(r)
                                 \/ AskReturns(r) \/ AskInterrupted(r)
      PROVE  TypeOK'
  BY <1>1, TypeAsk
<1>2. ASSUME NEW f \in Repliers, NEW r \in Requests, NEW k \in Kinds(r), Reply(f, r, k)
      PROVE  TypeOK'
  BY <1>2, TypeReply
<1>3. ASSUME NEW f \in Repliers, ReplyPublished(f) \/ CascadePublished(f) PROVE TypeOK'
  BY <1>3, PublishedEffect, TypePublished
<1>4. ASSUME NEW f \in Repliers, ReplyInterrupted(f) PROVE TypeOK'
  BY <1>4, TypeInterrupted
<1>5. CASE Dispose
  BY <1>5, TypeDispose
<1>6. CASE UNCHANGED vars
  BY <1>6 DEF vars, TypeOK
<1> QED BY <1>1, <1>2, <1>3, <1>4, <1>5, <1>6 DEF Next

-----------------------------------------------------------------------------
(* Places in the maps are given once.                                        *)
LEMMA StepOrder ==
  ASSUME TypeOK, HeldInv, RulesInv, OrderInv, [Next]_vars
  PROVE  OrderInv'
<1>1. order \in [Requests -> Nat] /\ inserted \in Nat /\ pending \subseteq Requests
  BY DEF TypeOK
<1>2. CASE UNCHANGED <<order, inserted>> /\ pending' \subseteq pending
  BY <1>2 DEF OrderInv
<1>3. ASSUME NEW r \in Requests, AskUser(r) PROVE OrderInv'
  <2>1. inserted' = inserted + 1 /\ pending' = pending \cup {r} /\ order'[r] = inserted + 1
        /\ \A q \in Requests \ {r} : order'[q] = order[q]
    BY <1>1, <1>3 DEF AskUser
  <2>2. \A q \in Requests \ {r} : order[q] \in Nat /\ order[q] < inserted + 1
    BY <1>1 DEF OrderInv
  <2>3. \A q \in Requests : order'[q] <= inserted'
    BY <1>1, <2>1, <2>2
  <2>4. \A q \in pending' : order'[q] > 0
    BY <1>1, <2>1 DEF OrderInv
  <2>5. \A q, s \in Requests : order'[q] = order'[s] /\ order'[q] > 0 => q = s
    <3> SUFFICES ASSUME NEW q \in Requests, NEW s \in Requests,
                        order'[q] = order'[s], order'[q] > 0, q # s
                 PROVE  FALSE
      OBVIOUS
    <3>1. CASE q = r
      BY <1>1, <2>1, <2>2, <3>1
    <3>2. CASE s = r
      BY <1>1, <2>1, <2>2, <3>2
    <3>3. CASE q # r /\ s # r
      BY <2>1, <3>3 DEF OrderInv
    <3> QED BY <3>1, <3>2, <3>3
  <2> QED BY <2>3, <2>4, <2>5 DEF OrderInv
<1>4. ASSUME NEW r \in Requests, \/ AskAtOnce(r) \/ AskPublished(r)
                                 \/ AskReturns(r) \/ AskInterrupted(r)
      PROVE  OrderInv'
  BY <1>2, <1>4 DEF AskAtOnce, AskPublished, AskReturns, AskInterrupted
<1>5. ASSUME NEW f \in Repliers, NEW r \in Requests, NEW k \in Kinds(r), Reply(f, r, k)
      PROVE  OrderInv'
  BY <1>2, <1>5 DEF Reply
<1>6. ASSUME NEW f \in Repliers, ReplyPublished(f) \/ CascadePublished(f) PROVE OrderInv'
  <2>1. Published(f)
    BY <1>6, PublishedEffect
  <2> QED BY <1>2, <2>1 DEF Published, LetsGo, TakesNext
<1>7. ASSUME NEW f \in Repliers, ReplyInterrupted(f) PROVE OrderInv'
  BY <1>2, <1>7 DEF ReplyInterrupted
<1>8. CASE Dispose \/ UNCHANGED vars
  BY <1>2, <1>8 DEF Dispose, vars
<1> QED BY <1>3, <1>4, <1>5, <1>6, <1>7, <1>8 DEF Next

(* A session's rules are among the approved ones.                            *)
LEMMA StepRules ==
  ASSUME TypeOK, HeldInv, RulesInv, [Next]_vars
  PROVE  RulesInv'
<1>1. CASE UNCHANGED <<approved, rules>>
  BY <1>1 DEF RulesInv
<1>2. ASSUME NEW r \in Requests, \/ AskAtOnce(r) \/ AskUser(r) \/ AskPublished(r)
                                 \/ AskReturns(r) \/ AskInterrupted(r)
      PROVE  RulesInv'
  BY <1>1, <1>2 DEF AskAtOnce, AskUser, AskPublished, AskReturns, AskInterrupted
<1>3. ASSUME NEW f \in Repliers, NEW r \in Requests, NEW k \in Kinds(r), Reply(f, r, k)
      PROVE  RulesInv'
  BY <1>1, <1>3 DEF Reply
<1>4. ASSUME NEW f \in Repliers, ReplyPublished(f) \/ CascadePublished(f) PROVE RulesInv'
  <2>1. Published(f)
    BY <1>4, PublishedEffect
  <2> QED BY <2>1 DEF Published, RulesInv
<1>5. ASSUME NEW f \in Repliers, ReplyInterrupted(f) PROVE RulesInv'
  BY <1>1, <1>5 DEF ReplyInterrupted
<1>6. CASE Dispose \/ UNCHANGED vars
  BY <1>1, <1>6 DEF Dispose, vars
<1> QED BY <1>2, <1>3, <1>4, <1>5, <1>6 DEF Next

(* What HeldInv says of one reply.                                           *)
HeldBy(f) ==
  rep[f].pc # "idle" =>
    /\ rep[f].req \in Requests /\ rep[f].kind \in Kinds(rep[f].req)
    /\ IF rep[f].kind \in Rejects THEN Session[rep[f].req] \in refused
                                  ELSE rep[f].req \in granted
    /\ rep[f].pc = "first" => rep[f].held = rep[f].req /\ rep[f].pos = 0
    /\ rep[f].pc = "cascade" =>
         /\ rep[f].kind \in {"always", "reject"}
         /\ rep[f].held \notin Questions
         /\ Session[rep[f].held] = Session[rep[f].req]
         /\ rep[f].kind = "always" => Needs[rep[f].held] \subseteq approved

(* What is refused, granted or approved stays so, and with it what the       *)
(* replies that do not move rely on.                                         *)
LEMMA HeldStays ==
  ASSUME NEW f \in Repliers, HeldBy(f), rep'[f] = rep[f],
         refused \subseteq refused', granted \subseteq granted', approved \subseteq approved'
  PROVE  HeldBy(f)'
BY DEF HeldBy

LEMMA StepHeld ==
  ASSUME TypeOK, HeldInv, RulesInv, [Next]_vars
  PROVE  HeldInv'
<1>1. \A g \in Repliers : HeldBy(g)
  BY DEF HeldInv, HeldBy
<1>2. SUFFICES \A g \in Repliers : HeldBy(g)'
  BY DEF HeldInv, HeldBy
<1>3. ASSUME UNCHANGED <<rep, refused, granted, approved>> PROVE \A g \in Repliers : HeldBy(g)'
  BY <1>1, <1>3, HeldStays
<1>4. ASSUME NEW r \in Requests, \/ AskAtOnce(r) \/ AskUser(r) \/ AskPublished(r)
                                 \/ AskReturns(r) \/ AskInterrupted(r)
      PROVE  \A g \in Repliers : HeldBy(g)'
  BY <1>3, <1>4 DEF AskAtOnce, AskUser, AskPublished, AskReturns, AskInterrupted, seen
<1>5. ASSUME NEW f \in Repliers, NEW r \in Requests, NEW k \in Kinds(r), Reply(f, r, k)
      PROVE  \A g \in Repliers : HeldBy(g)'
  <2>1. /\ rep'[f].pc = "first" /\ rep'[f].req = r /\ rep'[f].kind = k
        /\ rep'[f].held = r /\ rep'[f].pos = 0
        /\ \A g \in Repliers \ {f} : rep'[g] = rep[g]
        /\ k \in Rejects => refused' = refused \cup {Session[r]} /\ granted' = granted
        /\ k \notin Rejects => granted' = granted \cup {r} /\ refused' = refused
        /\ UNCHANGED approved
    BY <1>5, ReplyEffect
  <2>2. HeldBy(f)'
    BY <2>1 DEF HeldBy
  <2>3. refused \subseteq refused' /\ granted \subseteq granted'
    BY <2>1
  <2> QED BY <1>1, <2>1, <2>2, <2>3, HeldStays
<1>6. ASSUME NEW f \in Repliers, ReplyPublished(f) \/ CascadePublished(f)
      PROVE  \A g \in Repliers : HeldBy(g)'
  <2>1. Published(f)
    BY <1>6, PublishedEffect
  <2>2. approved \subseteq approved' /\ UNCHANGED <<refused, granted>>
    BY <2>1 DEF Published
  <2>3. CASE LetsGo(f)
    <3>1. rep'[f].pc = "idle" /\ \A g \in Repliers \ {f} : rep'[g] = rep[g]
      BY <2>3, LetsGoEffect
    <3>2. HeldBy(f)'
      BY <3>1 DEF HeldBy
    <3> QED BY <1>1, <2>2, <3>1, <3>2, HeldStays
  <2>4. ASSUME NEW r \in Requests, TakesNext(f, r, approved'),
               rep[f].kind \in {"always", "reject"}
        PROVE  \A g \in Repliers : HeldBy(g)'
    <3>1. /\ Takes(rep[f].req, rep[f].kind, r, approved')
          /\ rep'[f].pc = "cascade" /\ rep'[f].held = r
          /\ rep'[f].req = rep[f].req /\ rep'[f].kind = rep[f].kind
          /\ \A g \in Repliers \ {f} : rep'[g] = rep[g]
      BY <2>4, TakesNextEffect
    <3>2. rep[f].pc # "idle"
      BY <2>1 DEF Published
    <3>3. HeldBy(f)'
      BY <1>1, <2>2, <2>4, <3>1, <3>2 DEF HeldBy, Takes
    <3> QED BY <1>1, <2>2, <3>1, <3>3, HeldStays
  <2> QED BY <2>1, <2>3, <2>4 DEF Published
<1>7. ASSUME NEW f \in Repliers, ReplyInterrupted(f) PROVE \A g \in Repliers : HeldBy(g)'
  <2>1. rep' = [rep EXCEPT ![f] = Idle] /\ UNCHANGED <<refused, granted, approved>>
    BY <1>7 DEF ReplyInterrupted, seen
  <2>2. rep'[f].pc = "idle" /\ \A g \in Repliers \ {f} : rep'[g] = rep[g]
    BY <2>1, LetsGoEffect
  <2>3. HeldBy(f)'
    BY <2>2 DEF HeldBy
  <2> QED BY <1>1, <2>1, <2>2, <2>3, HeldStays
<1>8. CASE Dispose \/ UNCHANGED vars
  BY <1>3, <1>8 DEF Dispose, vars, seen
<1> QED BY <1>4, <1>5, <1>6, <1>7, <1>8 DEF Next

-----------------------------------------------------------------------------
(* Nobody is forgotten. *)
LEMMA StepNoLost ==
  ASSUME TypeOK, HeldInv, RulesInv, NoLostAsker, [Next]_vars
  PROVE  NoLostAsker'
<1> DEFINE Open(r) == Waits(r) /\ deferred[r] = "open"
<1> DEFINE Found(r) == r \in pending \cup lost \/ \E f \in Repliers : rep[f].held = r
<1>1. \A r \in Requests : Open(r) => Found(r)
  BY DEF NoLostAsker
<1>2. SUFFICES ASSUME NEW q \in Requests, Open(q)' PROVE Found(q)'
  BY DEF NoLostAsker
<1>3. ask \in [Requests -> AskType] /\ deferred \in [Requests -> DefType] /\ q # None
  BY RequestsAssumption DEF TypeOK, AskType, DefType
<1>4. ASSUME NEW r \in Requests, \/ AskAtOnce(r) \/ AskPublished(r)
                                 \/ AskReturns(r) \/ AskInterrupted(r)
      PROVE  Found(q)'
  <2>1. UNCHANGED <<deferred, rep, lost>>
    BY <1>4 DEF AskAtOnce, AskPublished, AskReturns, AskInterrupted
  <2>2. CASE q = r
    <3>1. CASE AskPublished(r)
      <4>1. Open(q) /\ pending' = pending
        BY <1>2, <2>1, <2>2, <3>1 DEF AskPublished, Waits
      <4> QED BY <1>1, <2>1, <4>1
    <3>2. CASE AskReturns(r)
      BY <1>2, <1>3, <2>1, <2>2, <3>2 DEF AskReturns, Waits
    <3>3. CASE AskInterrupted(r)
      BY <1>2, <1>3, <2>2, <3>3 DEF AskInterrupted, Waits
    <3>4. CASE AskAtOnce(r)
      BY <1>2, <1>3, <2>2, <3>4 DEF AskAtOnce, Waits, AskVerdict
    <3> QED BY <1>4, <3>1, <3>2, <3>3, <3>4
  <2>3. CASE q # r
    <3>1. ask'[q] = ask[q] /\ (q \in pending => q \in pending')
      BY <1>3, <1>4, <2>3 DEF AskAtOnce, AskPublished, AskReturns, AskInterrupted
    <3>2. Open(q)
      BY <1>2, <2>1, <3>1 DEF Waits
    <3> QED BY <1>1, <2>1, <3>1, <3>2
  <2> QED BY <2>2, <2>3
<1>5. ASSUME NEW r \in Requests, AskUser(r) PROVE Found(q)'
  <2>1. pending' = pending \cup {r} /\ UNCHANGED <<rep, lost>>
        /\ (q # r => ask'[q] = ask[q] /\ deferred'[q] = deferred[q])
    BY <1>3, <1>5 DEF AskUser
  <2>2. q # r => Open(q)
    BY <1>2, <2>1 DEF Waits
  <2> QED BY <1>1, <2>1, <2>2
<1>6. ASSUME NEW f \in Repliers, NEW r \in Requests, NEW k \in Kinds(r), Reply(f, r, k)
      PROVE  Found(q)'
  <2>1. /\ rep[f].pc = "idle" /\ pending' = pending \ {r} /\ rep'[f].held = r
        /\ \A g \in Repliers \ {f} : rep'[g] = rep[g]
        /\ UNCHANGED <<deferred, ask, lost>>
    BY <1>6, ReplyEffect
  <2>2. Open(q)
    BY <1>2, <2>1 DEF Waits
  <2>3. rep[f].held = None
    BY <2>1 DEF TypeOK
  <2> QED BY <1>1, <1>3, <2>1, <2>2, <2>3
<1>7. ASSUME NEW f \in Repliers, ReplyPublished(f) \/ CascadePublished(f) PROVE Found(q)'
  <2>1. Published(f)
    BY <1>7, PublishedEffect
  <2>2. rep[f].held \in Requests /\ Outcome(rep[f].kind) \in Answers
        /\ deferred' = Complete(rep[f].held, Outcome(rep[f].kind)) /\ UNCHANGED <<ask, lost>>
    BY <2>1 DEF Published, Outcome, Answers
  <2>3. /\ deferred'[rep[f].held] = IF deferred[rep[f].held] = "open" THEN Outcome(rep[f].kind)
                                    ELSE deferred[rep[f].held]
        /\ \A p \in Requests \ {rep[f].held} : deferred'[p] = deferred[p]
    BY <2>2, CompleteEffect
  <2>4. q # rep[f].held
    BY <1>2, <2>2, <2>3 DEF Answers
  <2>5. Open(q)
    BY <1>2, <2>2, <2>3, <2>4 DEF Waits
  <2>6. CASE LetsGo(f)
    <3>1. pending' = pending /\ \A g \in Repliers \ {f} : rep'[g] = rep[g]
      BY <2>6, LetsGoEffect DEF LetsGo
    <3> QED BY <1>1, <2>2, <2>4, <2>5, <3>1
  <2>7. ASSUME NEW r \in Requests, TakesNext(f, r, approved') PROVE Found(q)'
    <3>1. rep'[f].held = r /\ \A g \in Repliers \ {f} : rep'[g] = rep[g]
      BY <2>7, TakesNextEffect
    <3>2. pending' = pending \ {r}
      BY <2>7 DEF TakesNext
    <3> QED BY <1>1, <2>2, <2>4, <2>5, <3>1, <3>2
  <2> QED BY <2>1, <2>6, <2>7 DEF Published
<1>8. ASSUME NEW f \in Repliers, ReplyInterrupted(f) PROVE Found(q)'
  <2>1. lost' = lost \cup {rep[f].held} /\ rep' = [rep EXCEPT ![f] = Idle]
        /\ UNCHANGED <<pending, deferred, ask>>
    BY <1>8 DEF ReplyInterrupted
  <2>2. \A g \in Repliers \ {f} : rep'[g] = rep[g]
    BY <2>1, LetsGoEffect
  <2>3. Open(q)
    BY <1>2, <2>1 DEF Waits
  <2> QED BY <1>1, <2>1, <2>2, <2>3
<1>9. CASE Dispose
  <2>1. UNCHANGED <<ask, rep, lost>>
        /\ deferred' = [r \in Requests |-> IF r \in pending /\ deferred[r] = "open"
                                           THEN "rejected" ELSE deferred[r]]
    BY <1>9 DEF Dispose
  <2>2. Open(q) /\ q \notin pending
    BY <1>2, <2>1 DEF Waits
  <2> QED BY <1>1, <2>1, <2>2
<1>10. CASE UNCHANGED vars
  BY <1>1, <1>2, <1>10 DEF vars, Waits
<1> QED BY <1>4, <1>5, <1>6, <1>7, <1>8, <1>9, <1>10 DEF Next

-----------------------------------------------------------------------------
(* Every answer is justified. *)

Justified(r) ==
  r \in granted \/ (r \notin Questions
                     /\ \A p \in Needs[r] : p \in approved \/ Rule[p] = "allow")

LEMMA StepJustified ==
  ASSUME TypeOK, HeldInv, RulesInv, AnswersJustified, [Next]_vars
  PROVE  AnswersJustified'
<1> DEFINE Allowed(r) == ask[r] = "allowed" \/ deferred[r] = "allowed"
<1> DEFINE Refused(r) == Session[r] \in refused \/ disposed
<1>1. \A r \in Requests : /\ Allowed(r) => Justified(r)
                          /\ deferred[r] = "rejected" => Refused(r)
  BY DEF AnswersJustified, Justified
<1>2. SUFFICES ASSUME NEW q \in Requests
               PROVE  /\ Allowed(q)' => Justified(q)'
                      /\ deferred'[q] = "rejected" => Refused(q)'
  BY DEF AnswersJustified, Justified
<1>3. ask \in [Requests -> AskType] /\ deferred \in [Requests -> DefType]
  BY DEF TypeOK, AskType, DefType
<1>4. ASSUME Allowed(q)' => Allowed(q), deferred'[q] = "rejected" => deferred[q] = "rejected",
             granted \subseteq granted', approved \subseteq approved',
             refused \subseteq refused', disposed => disposed'
      PROVE  /\ Allowed(q)' => Justified(q)'
             /\ deferred'[q] = "rejected" => Refused(q)'
  BY <1>1, <1>4 DEF Justified
<1>5. ASSUME NEW r \in Requests, AskAtOnce(r)
      PROVE  /\ Allowed(q)' => Justified(q)'
             /\ deferred'[q] = "rejected" => Refused(q)'
  <2>1. UNCHANGED <<deferred, approved, disposed, refused, granted>>
        /\ ask' = [ask EXCEPT ![r] = AskVerdict(r)]
    BY <1>5 DEF AskAtOnce, seen
  <2>2. CASE q = r /\ AskVerdict(r) = "allowed"
    <3>1. r \notin Questions /\ \A p \in Needs[r] : Evaluate(p) = "allow"
      BY <2>2 DEF AskVerdict
    <3>2. Justified(q)'
      BY <2>1, <2>2, <3>1 DEF Justified, Evaluate
    <3> QED BY <1>1, <2>1, <3>2
  <2>3. CASE ~(q = r /\ AskVerdict(r) = "allowed")
    <3>1. Allowed(q)' => Allowed(q)
      BY <1>3, <2>1, <2>3
    <3> QED BY <1>4, <2>1, <3>1
  <2> QED BY <2>2, <2>3
<1>6. ASSUME NEW r \in Requests, \/ AskUser(r) \/ AskPublished(r)
                                 \/ AskReturns(r) \/ AskInterrupted(r)
      PROVE  /\ Allowed(q)' => Justified(q)'
             /\ deferred'[q] = "rejected" => Refused(q)'
  <2>1. UNCHANGED <<approved, disposed, refused, granted>>
    BY <1>6 DEF AskUser, AskPublished, AskReturns, AskInterrupted, seen
  <2>2. /\ Allowed(q)' => Allowed(q)
        /\ deferred'[q] = "rejected" => deferred[q] = "rejected"
    BY <1>3, <1>6 DEF AskUser, AskPublished, AskReturns, AskInterrupted
  <2> QED BY <1>4, <2>1, <2>2
<1>7. ASSUME NEW f \in Repliers, NEW r \in Requests, NEW k \in Kinds(r), Reply(f, r, k)
      PROVE  /\ Allowed(q)' => Justified(q)'
             /\ deferred'[q] = "rejected" => Refused(q)'
  <2>1. /\ k \in Rejects => refused' = refused \cup {Session[r]} /\ granted' = granted
        /\ k \notin Rejects => granted' = granted \cup {r} /\ refused' = refused
        /\ UNCHANGED <<deferred, ask, approved, disposed>>
    BY <1>7, ReplyEffect
  <2>2. refused \subseteq refused' /\ granted \subseteq granted'
    BY <2>1
  <2> QED BY <1>4, <2>1, <2>2
<1>8. ASSUME NEW f \in Repliers, ReplyPublished(f) \/ CascadePublished(f)
      PROVE  /\ Allowed(q)' => Justified(q)'
             /\ deferred'[q] = "rejected" => Refused(q)'
  <2>1. Published(f)
    BY <1>8, PublishedEffect
  <2> PICK h : h = rep[f].held
    OBVIOUS
  <2>2. /\ rep[f].pc # "idle" /\ h \in Requests /\ Outcome(rep[f].kind) \in Answers
        /\ deferred' = Complete(h, Outcome(rep[f].kind)) /\ approved \subseteq approved'
        /\ UNCHANGED <<ask, disposed, refused, granted>>
    BY <2>1 DEF Published, Outcome, Answers
  <2>3. /\ deferred'[h] = IF deferred[h] = "open" THEN Outcome(rep[f].kind) ELSE deferred[h]
        /\ \A p \in Requests \ {h} : deferred'[p] = deferred[p]
    BY <2>2, CompleteEffect
  <2>4. CASE q = h /\ deferred[h] = "open"
    <3>1. IF rep[f].kind \in Rejects THEN Session[h] \in refused ELSE Justified(h)
      <4>1. rep[f].pc \in {"first", "cascade"}
        BY <2>2 DEF TypeOK
      <4>2. CASE rep[f].pc = "first"
        BY <4>2 DEF HeldInv, Justified
      <4>3. CASE rep[f].pc = "cascade"
        BY <4>3 DEF HeldInv, Justified, Rejects
      <4> QED BY <4>1, <4>2, <4>3
    <3>2. Justified(h) => Justified(h)'
      BY <2>2 DEF Justified
    <3>3. Allowed(q) => Justified(q)
      BY <1>1
    <3>4. deferred'[q] = Outcome(rep[f].kind)
      BY <2>3, <2>4
    <3>5. CASE rep[f].kind \in Rejects
      BY <2>2, <2>4, <3>1, <3>2, <3>3, <3>4, <3>5 DEF Outcome
    <3>6. CASE rep[f].kind \notin Rejects
      BY <2>2, <2>4, <3>1, <3>2, <3>3, <3>4, <3>6 DEF Outcome
    <3> QED BY <3>5, <3>6
  <2>5. CASE ~(q = h /\ deferred[h] = "open")
    <3>1. deferred'[q] = deferred[q]
      BY <2>3, <2>5
    <3> QED BY <1>4, <2>2, <3>1
  <2> QED BY <2>4, <2>5
<1>9. ASSUME NEW f \in Repliers, ReplyInterrupted(f)
      PROVE  /\ Allowed(q)' => Justified(q)'
             /\ deferred'[q] = "rejected" => Refused(q)'
  BY <1>4, <1>9 DEF ReplyInterrupted, seen
<1>10. ASSUME Dispose
       PROVE  /\ Allowed(q)' => Justified(q)'
              /\ deferred'[q] = "rejected" => Refused(q)'
  <2>1. UNCHANGED <<ask, approved, refused, granted>> /\ disposed'
        /\ (deferred'[q] = "allowed" => deferred[q] = "allowed")
    BY <1>3, <1>10 DEF Dispose, seen
  <2> QED BY <1>1, <2>1 DEF Justified
<1>11. ASSUME UNCHANGED vars
       PROVE  /\ Allowed(q)' => Justified(q)'
              /\ deferred'[q] = "rejected" => Refused(q)'
  BY <1>4, <1>11 DEF vars
<1> QED BY <1>5, <1>6, <1>7, <1>8, <1>9, <1>10, <1>11 DEF Next

-----------------------------------------------------------------------------
(* What the rules of a session cover is answered. *)

Covered(r) == Needs[r] \subseteq rules[Session[r]] /\ Session[r] \notin cut

(* Reply f, an "always" of r's session, has yet to come to r.                *)
ComesTo(f, r) ==
  /\ rep[f].kind = "always" /\ rep[f].pc # "idle"
  /\ Session[rep[f].req] = Session[r] /\ rep[f].pos < order[r]

(* A walk that had r ahead of it has taken r or still has it ahead.          *)
LEMMA WalkKeeps ==
  ASSUME TypeOK, OrderInv, NEW f \in Repliers, Published(f), rep[f].kind = "always",
         NEW r \in pending', r \in Ahead(f, approved'), Session[r] = Session[rep[f].req]
  PROVE  ComesTo(f, r)'
<1>1. PICK n \in Requests : TakesNext(f, n, approved')
  BY DEF Published
<1>2. /\ rep'[f].pc = "cascade" /\ rep'[f].pos = order[n]
      /\ rep'[f].req = rep[f].req /\ rep'[f].kind = rep[f].kind /\ n \in pending
  BY <1>1, TakesNextEffect
<1>3. order[n] <= order[r] /\ r # n /\ r \in Requests
  BY <1>1 DEF TakesNext, Ahead, TypeOK
<1>4. order[n] \in Nat /\ order[r] \in Nat /\ order[n] > 0
  BY <1>2, <1>3 DEF OrderInv, TypeOK
<1>5. order[n] # order[r]
  BY <1>3, <1>4 DEF OrderInv
<1>6. order[n] < order[r] /\ order' = order
  BY <1>3, <1>4, <1>5 DEF Published
<1> QED BY <1>2, <1>6 DEF ComesTo

LEMMA StepCovered ==
  ASSUME TypeOK, OrderInv, HeldInv, RulesInv, CoveredIsAnswered, [Next]_vars
  PROVE  CoveredIsAnswered'
<1> USE RequestsAssumption
<1>1. \A r \in pending \ Questions : Covered(r) => \E f \in Repliers : ComesTo(f, r)
  BY DEF CoveredIsAnswered, Covered, ComesTo
<1>2. SUFFICES ASSUME NEW r \in pending' \ Questions, Covered(r)'
               PROVE  \E f \in Repliers : ComesTo(f, r)'
  BY DEF CoveredIsAnswered, Covered, ComesTo
<1>3. CASE UNCHANGED <<rep, rules, cut, order>> /\ r \in pending
  BY <1>1, <1>2, <1>3 DEF Covered, ComesTo
<1>4. ASSUME NEW q \in Requests, AskUser(q) PROVE \E f \in Repliers : ComesTo(f, r)'
  <2>1. pending' = pending \cup {q} /\ UNCHANGED <<rep, rules, cut, approved>>
        /\ \A p \in Requests \ {q} : order'[p] = order[p]
    BY <1>4 DEF AskUser, TypeOK
  <2>2. CASE r = q
    <3>1. Session[q] \in Sessions /\ Needs[q] \subseteq rules[Session[q]]
      BY <1>2, <2>1, <2>2 DEF Covered, Sessions
    <3>2. Needs[q] \subseteq approved
      BY <3>1 DEF RulesInv
    <3>3. q \notin Questions /\ AskVerdict(q) = "ask"
      BY <1>2, <1>4, <2>2 DEF AskUser
    <3> QED BY <3>2, <3>3 DEF AskVerdict, Evaluate
  <2>3. CASE r # q
    <3>1. r \in pending /\ r \in Requests /\ order'[r] = order[r]
      BY <1>2, <2>1, <2>3 DEF TypeOK
    <3> QED BY <1>1, <1>2, <2>1, <3>1 DEF Covered, ComesTo
  <2> QED BY <2>2, <2>3
<1>5. ASSUME NEW q \in Requests, \/ AskAtOnce(q) \/ AskPublished(q)
                                 \/ AskReturns(q) \/ AskInterrupted(q)
      PROVE  \E f \in Repliers : ComesTo(f, r)'
  BY <1>2, <1>3, <1>5 DEF AskAtOnce, AskPublished, AskReturns, AskInterrupted
<1>6. ASSUME NEW f \in Repliers, NEW q \in Requests, NEW k \in Kinds(q), Reply(f, q, k)
      PROVE  \E g \in Repliers : ComesTo(g, r)'
  <2>1. /\ rep[f].pc = "idle" /\ pending' = pending \ {q}
        /\ \A g \in Repliers \ {f} : rep'[g] = rep[g]
        /\ UNCHANGED <<order, rules, cut>>
    BY <1>6, ReplyEffect
  <2>2. PICK g \in Repliers : ComesTo(g, r)
    BY <1>1, <1>2, <2>1 DEF Covered
  <2>3. g # f
    BY <2>1, <2>2 DEF ComesTo
  <2> QED BY <2>1, <2>2, <2>3 DEF ComesTo
<1>7. ASSUME NEW f \in Repliers, ReplyPublished(f) \/ CascadePublished(f)
      PROVE  \E g \in Repliers : ComesTo(g, r)'
  <2>1. Published(f)
    BY <1>7, PublishedEffect
  <2>2. /\ pending' \subseteq pending /\ UNCHANGED <<order, cut>> /\ rep[f].req \in Requests
        /\ \A s \in Sessions : rules'[s] \subseteq approved'
        /\ \A s \in Sessions \ {Session[rep[f].req]} : rules'[s] = rules[s]
        /\ rep[f].kind # "always" \/ rep[f].pc = "cascade" => rules' = rules
    BY <2>1 DEF Published, LetsGo, TakesNext
  <2>3. r \in pending /\ r \in Requests /\ Session[r] \in Sessions
    BY <1>2, <2>2 DEF TypeOK, Sessions
  <2>4. \A g \in Repliers \ {f} : rep'[g] = rep[g]
    <3>1. CASE LetsGo(f)
      BY <3>1, LetsGoEffect
    <3>2. ASSUME NEW n \in Requests, TakesNext(f, n, approved')
          PROVE  \A g \in Repliers \ {f} : rep'[g] = rep[g]
      BY <3>2, TakesNextEffect
    <3> QED BY <2>1, <3>1, <3>2 DEF Published
  <2>5. ASSUME NEW g \in Repliers \ {f}, ComesTo(g, r) PROVE ComesTo(g, r)'
    BY <2>2, <2>4, <2>5 DEF ComesTo
  <2>6. Takes(rep[f].req, rep[f].kind, r, approved')
          \/ Session[r] # Session[rep[f].req]
    BY <1>2, <2>2, <2>3 DEF Takes, Covered
  <2>7. CASE rep[f].kind = "always" /\ Session[r] = Session[rep[f].req]
             /\ order[r] > rep[f].pos
    <3>1. r \in Ahead(f, approved')
      BY <2>3, <2>6, <2>7 DEF Ahead
    <3>2. ComesTo(f, r)'
      BY <1>2, <2>1, <2>7, <3>1, WalkKeeps
    <3> QED BY <3>2
  <2>8. CASE ~(rep[f].kind = "always" /\ Session[r] = Session[rep[f].req]
               /\ order[r] > rep[f].pos)
    <3>1. ~ComesTo(f, r)
      <4>1. order[r] \in Nat /\ rep[f].pos \in Nat
        BY <2>3 DEF TypeOK
      <4> QED BY <2>8, <4>1 DEF ComesTo
    <3>2. Needs[r] \subseteq rules[Session[r]]
      <4>1. CASE rep[f].kind # "always" \/ rep[f].pc = "cascade"
        BY <1>2, <2>2, <4>1 DEF Covered
      <4>2. CASE Session[r] # Session[rep[f].req]
        BY <1>2, <2>2, <2>3, <4>2 DEF Covered
      <4>3. CASE rep[f].kind = "always" /\ rep[f].pc # "cascade"
                 /\ Session[r] = Session[rep[f].req]
        <5>1. rep[f].pc = "first"
          BY <2>1, <4>3 DEF Published, TypeOK
        <5>2. rep[f].pos = 0 /\ order[r] > 0
          BY <2>3, <5>1 DEF HeldInv, OrderInv
        <5> QED BY <2>8, <4>3, <5>2
      <4> QED BY <4>1, <4>2, <4>3
    <3>3. PICK g \in Repliers : ComesTo(g, r)
      BY <1>1, <1>2, <2>2, <2>3, <3>2 DEF Covered
    <3> QED BY <2>5, <3>1, <3>3
  <2> QED BY <2>7, <2>8
<1>8. ASSUME NEW f \in Repliers, ReplyInterrupted(f) PROVE \E g \in Repliers : ComesTo(g, r)'
  <2>1. /\ cut' = cut \cup {Session[rep[f].req]} /\ rep' = [rep EXCEPT ![f] = Idle]
        /\ UNCHANGED <<pending, order, rules>>
    BY <1>8 DEF ReplyInterrupted
  <2>2. \A g \in Repliers \ {f} : rep'[g] = rep[g]
    BY <2>1, LetsGoEffect
  <2>3. PICK g \in Repliers : ComesTo(g, r)
    BY <1>1, <1>2, <2>1 DEF Covered
  <2>4. g # f
    BY <1>2, <2>1, <2>3 DEF Covered, ComesTo
  <2> QED BY <2>1, <2>2, <2>3, <2>4 DEF ComesTo
<1>9. CASE Dispose
  BY <1>2, <1>9 DEF Dispose
<1>10. CASE UNCHANGED vars
  BY <1>2, <1>3, <1>10 DEF vars
<1> QED BY <1>4, <1>5, <1>6, <1>7, <1>8, <1>9, <1>10 DEF Next

-----------------------------------------------------------------------------
(* The invariant of permission and question: what replies hold, what rules   *)
(* are approved and which requests wait fit together.                        *)
THEOREM RequestsInvariant == Spec => []RequestsInv
<1>1. Init => RequestsInv
  <2> SUFFICES ASSUME Init PROVE RequestsInv
    OBVIOUS
  <2>1. TypeOK
    BY InitType
  <2>2. OrderInv /\ HeldInv /\ RulesInv
    BY DEF Init, OrderInv, HeldInv, RulesInv, Idle
  <2>3. NoLostAsker /\ AnswersJustified /\ CoveredIsAnswered
    BY DEF Init, NoLostAsker, AnswersJustified, CoveredIsAnswered, Waits
  <2> QED BY <2>1, <2>2, <2>3 DEF RequestsInv
<1>2. RequestsInv /\ [Next]_vars => RequestsInv'
  BY StepType, StepOrder, StepHeld, StepRules, StepNoLost, StepJustified, StepCovered
     DEF RequestsInv
<1> QED BY <1>1, <1>2, PTL DEF Spec

(* TypeOK holds in every reachable state of the two services.                *)
THEOREM RequestsTypeOK == Spec => []TypeOK
<1>1. RequestsInv => TypeOK
  BY DEF RequestsInv
<1> QED BY <1>1, RequestsInvariant, PTL

(* ask never waits on a Deferred that no map, reply or interruption accounts *)
(* for, whatever replies, cancellations and disposals interleave.            *)
THEOREM AskersReachable == Spec => []NoLostAsker
<1>1. RequestsInv => NoLostAsker
  BY DEF RequestsInv
<1> QED BY <1>1, RequestsInvariant, PTL

(* reply, its cascades and the finalizers answer a request only as the user  *)
(* or the rules justify.                                                     *)
THEOREM AnswersAreJustified == Spec => []AnswersJustified
<1>1. RequestsInv => AnswersJustified
  BY DEF RequestsInv
<1> QED BY <1>1, RequestsInvariant, PTL

(* A permission request that the rules of an "always" reply to its session   *)
(* cover is answered or ahead of a cascade, unless one was interrupted.      *)
THEOREM CoveredAreAnswered == Spec => []CoveredIsAnswered
<1>1. RequestsInv => CoveredIsAnswered
  BY DEF RequestsInv
<1> QED BY <1>1, RequestsInvariant, PTL
=============================================================================
