----------------------------- MODULE ToolCache -----------------------------
(***************************************************************************)
(* The cache of tool results (runtime/src/tool/cache.ts): read tools ask   *)
(* it through getOrCompute (tool/tool.ts, executeWithCache), a write tool  *)
(* empties it when it has run (session/tools.ts).  A call looks its key    *)
(* up, joins the computation another call has under way for the key or     *)
(* becomes its leader, and a leader runs the tool, completes the Deferred  *)
(* its waiters hang on, and stores the result.  The operations on the      *)
(* cache's Refs are one step each; the calls interleave between them.      *)
(*                                                                         *)
(* The value of a result is the version of the files it was read from: a   *)
(* write tool makes a new version.  The counters behind stats() are left   *)
(* out.  done and tainted observe the runs and guard nothing.              *)
(***************************************************************************)
EXTENDS Naturals, FiniteSetsExt

CONSTANTS Calls,         \* calls of getOrCompute, numbered as they begin
          Writers,       \* runs of tools that are not cacheable
          Keys,          \* cache keys: tool, arguments, session and agent
          None,          \* no call
          Size,          \* Size[k][v]: the size of what k computes from version v
          MaxEntrySize,  \* config.maxEntrySize
          MaxEntries,    \* config.maxEntries
          TTL,           \* config.ttl
          MaxTime,       \* bound on the clock
          MaxCuts        \* bound on the calls their tool's timeout interrupts

ASSUME CacheAssumption ==
    /\ Calls \subseteq Nat /\ None \notin Calls
    /\ Keys # {} /\ IsFiniteSet(Writers)
    /\ Size \in [Keys -> [0..Cardinality(Writers) -> Nat]]
    /\ MaxEntrySize \in Nat /\ MaxEntries \in Nat \ {0}
    /\ TTL \in Nat \ {0} /\ MaxTime \in Nat /\ MaxCuts \in Nat

VARIABLES version,   \* the files' version
          entries,   \* the cache's map; at is an entry's place in its order
          bytes,     \* its estimatedBytes
          inflight,  \* per key, the leader of the computation, or None
          call,      \* the calls
          writer,    \* the write tools: "idle", "wrote" or "done"
          now,       \* the clock
          done,      \* the files' version at the last invalidation
          tainted    \* the keys that were being computed from an older one then

vars == <<version, entries, bytes, inflight, call, writer, now, done, tainted>>

(* The leader's steps from the tool's reading of the files to the store *)
Computing == {"run", "resolve", "store"}

(* A call: since is the last invalidation's version when it began, overlap  *)
(* whether its key was tainted then, old whether its answer predates since. *)
Idle == [pc |-> "idle", key |-> CHOOSE k \in Keys : TRUE, t |-> 0, ver |-> 0,
         ok |-> TRUE, leader |-> None, deferred |-> "open",
         since |-> 0, overlap |-> FALSE, old |-> FALSE]

(* The call returns what was read from version v, or fails *)
Ends(c, v) ==
    [call EXCEPT ![c] = [Idle EXCEPT !.pc = "end", !.ver = v,
                            !.deferred = call[c].deferred,
                            !.overlap = call[c].overlap,
                            !.old = v < call[c].since]]

Fails(c, deferred) ==
    [call EXCEPT ![c] = [Idle EXCEPT !.pc = "failed", !.deferred = deferred]]

Init ==
    /\ version = 0 /\ entries = {} /\ bytes = 0 /\ now = 0
    /\ inflight = [k \in Keys |-> None]
    /\ call = [c \in Calls |-> Idle]
    /\ writer = [w \in Writers |-> "idle"]
    /\ done = 0 /\ tainted = {}

Drop(m, k) == {e \in m : e.key # k}

(* recalcBytes *)
Bytes(m) == MapThenSumSet(LAMBDA e : Size[e.key][e.ver], m)

Held(m, k) == \E e \in m : e.key = k

EntryOf(k) == CHOOSE e \in entries : e.key = k

(* A key that is set anew goes to the young end of a Map *)
YoungEnd(m) == IF m = {} THEN 0 ELSE Max({e.at : e \in m}) + 1

-----------------------------------------------------------------------------
(* getOrCompute.                                                           *)

Begins(c) == call[c].pc = "idle" /\ \A d \in Calls : d < c => call[d].pc # "idle"

Missed(k) == [Idle EXCEPT !.pc = "join", !.key = k, !.t = now, !.since = done,
                          !.overlap = k \in tainted]

(* The lookup.  A hit moves the entry to the young end and ends the call.  *)
Hit(c, k) ==
    /\ Held(entries, k) /\ EntryOf(k).expiresAt > now
    /\ entries' = Drop(entries, k)
                    \cup {[EntryOf(k) EXCEPT !.at = YoungEnd(Drop(entries, k))]}
    /\ call' = [call EXCEPT ![c] = [Idle EXCEPT !.pc = "end",
                    !.ver = EntryOf(k).ver, !.overlap = k \in tainted,
                    !.old = EntryOf(k).ver < done]]
    /\ UNCHANGED bytes

(* An expired entry whose size stays in the total *)
ExpiredKeepsBytes(c, k) ==
    /\ Held(entries, k) /\ EntryOf(k).expiresAt <= now
    /\ entries' = Drop(entries, k)
    /\ call' = [call EXCEPT ![c] = Missed(k)]
    /\ UNCHANGED bytes

(* An expired entry is removed and its size taken off. *)
Expired(c, k) ==
    /\ Held(entries, k) /\ EntryOf(k).expiresAt <= now
    /\ entries' = Drop(entries, k)
    /\ bytes' = bytes - Size[k][EntryOf(k).ver]
    /\ call' = [call EXCEPT ![c] = Missed(k)]

Miss(c, k) ==
    /\ ~ Held(entries, k)
    /\ call' = [call EXCEPT ![c] = Missed(k)]
    /\ UNCHANGED <<entries, bytes>>

Lookup(c, k) ==
    /\ Begins(c)
    /\ Hit(c, k) \/ Expired(c, k) \/ Miss(c, k)
    /\ UNCHANGED <<version, inflight, writer, now, done, tainted>>

(* The Deferred is put in the map of flights, or the one there is taken *)
Join(c) ==
    LET k == call[c].key
    IN  /\ call[c].pc = "join"
        /\ \/ /\ inflight[k] # None
              /\ call' = [call EXCEPT ![c].pc = "wait", ![c].leader = inflight[k]]
              /\ UNCHANGED inflight
           \/ /\ inflight[k] = None
              /\ inflight' = [inflight EXCEPT ![k] = c]
              /\ call' = [call EXCEPT ![c].pc = "begin"]
        /\ UNCHANGED <<version, entries, bytes, writer, now, done, tainted>>

(* The tool starts and reads the files *)
Compute(c) ==
    /\ call[c].pc = "begin"
    /\ call' = [call EXCEPT ![c].pc = "run", ![c].ver = version]
    /\ UNCHANGED <<version, entries, bytes, inflight, writer, now, done, tainted>>

(* It ends, with a result or with an error or defect; the finalizer takes  *)
(* the key out of the map of flights                                       *)
ComputeEnds(c) ==
    /\ call[c].pc = "run"
    /\ \E ok \in BOOLEAN :
          call' = [call EXCEPT ![c].pc = "resolve", ![c].ok = ok]
    /\ inflight' = [inflight EXCEPT ![call[c].key] = None]
    /\ UNCHANGED <<version, entries, bytes, writer, now, done, tainted>>

(* A Deferred that only a result completes *)
ResolveResults(c) ==
    /\ call[c].pc = "resolve"
    /\ call' = IF call[c].ok
               THEN [call EXCEPT ![c].deferred = "result", ![c].pc = "store"]
               ELSE Fails(c, "open")
    /\ UNCHANGED <<version, entries, bytes, inflight, writer, now, done, tainted>>

(* Deferred.done, with the exit whatever it is; an error or a defect then  *)
(* goes to the leader's own caller                                         *)
Resolve(c) ==
    /\ call[c].pc = "resolve"
    /\ call' = IF call[c].ok
               THEN [call EXCEPT ![c].deferred = "result", ![c].pc = "store"]
               ELSE Fails(c, "failed")
    /\ UNCHANGED <<version, entries, bytes, inflight, writer, now, done, tainted>>

(* Room for one more: what had expired when the call began goes, and then  *)
(* the oldest until the map is short enough                                *)
Evicted(t) ==
    LET live == {e \in entries : e.expiresAt > t}
    IN  {e \in live : Cardinality({g \in live : g.at > e.at}) < MaxEntries - 1}

(* Map.set: a key that is still there keeps its place *)
Place(m, k) ==
    IF Held(m, k) THEN (CHOOSE e \in m : e.key = k).at ELSE YoungEnd(m)

Put(m, k, v, x) ==
    Drop(m, k) \cup {[key |-> k, ver |-> v, expiresAt |-> x, at |-> Place(m, k)]}

(* The result is stored, unless it is too large, under the time of the     *)
(* lookup                                                                  *)
Store(c) ==
    LET k == call[c].key
        fits == Size[k][call[c].ver] <= MaxEntrySize
    IN  /\ call[c].pc = "store"
        /\ entries' = IF fits
                      THEN Put(Evicted(call[c].t), k, call[c].ver, call[c].t + TTL)
                      ELSE entries
        /\ bytes' = IF fits THEN Bytes(entries') ELSE bytes
        /\ call' = Ends(c, call[c].ver)
        /\ UNCHANGED <<version, inflight, writer, now, done, tainted>>

(* Deferred.await returns *)
Answered(c) ==
    LET l == call[c].leader
    IN  /\ call[c].pc = "wait"
        /\ \/ /\ call[l].deferred = "result"
              /\ call' = Ends(c, call[l].ver)
           \/ /\ call[l].deferred = "failed"
              /\ call' = Fails(c, "open")
        /\ UNCHANGED <<version, entries, bytes, inflight, writer, now, done, tainted>>

(* The timeout around the tool (applyTimeout) interrupts the call.  Inside *)
(* the computation the finalizer still takes the key out; whether the line *)
(* that completes the Deferred then runs is the effect library's choice,   *)
(* so both outcomes are here.  Between the entry in the map of flights and *)
(* the computation nothing takes the key out.  A call that is interrupted  *)
(* before it has joined leaves nothing behind and is left out.             *)
Interrupt(c) ==
    LET k == call[c].key
    IN  /\ call[c].pc \in {"wait", "begin"} \cup Computing
        /\ Cardinality({d \in Calls : call[d].pc = "cut"}) < MaxCuts
        /\ \E deferred \in IF call[c].pc = "run" THEN {"open", "failed"}
                           ELSE {call[c].deferred} :
              call' = [call EXCEPT ![c] = [Idle EXCEPT !.pc = "cut",
                                              !.ver = call[c].ver,
                                              !.deferred = deferred]]
        /\ \/ /\ call[c].pc \in {"begin", "run"}
              /\ inflight' = [inflight EXCEPT ![k] = None]
           \/ /\ call[c].pc # "run"
              /\ UNCHANGED inflight
        /\ UNCHANGED <<version, entries, bytes, writer, now, done, tainted>>

-----------------------------------------------------------------------------
(* A tool that is not cacheable (session/tools.ts).                        *)

(* It changes the files; one that fails before it does empties the cache   *)
(* all the same, as InvalidateKey does a key at a time                     *)
Write(w) ==
    /\ writer[w] = "idle"
    /\ writer' = [writer EXCEPT ![w] = "wrote"]
    /\ version' = version + 1
    /\ UNCHANGED <<entries, bytes, inflight, call, now, done, tainted>>

(* The keys that are being computed from files older than these *)
Behind == {call[c].key : c \in {d \in Calls : /\ call[d].pc \in Computing
                                               /\ call[d].ver < version}}

(* Only what has expired is dropped *)
InvalidateExpired(w) ==
    /\ writer[w] = "wrote"
    /\ writer' = [writer EXCEPT ![w] = "done"]
    /\ entries' = {e \in entries : e.expiresAt > now}
    /\ bytes' = Bytes(entries')
    /\ done' = version /\ tainted' = Behind
    /\ UNCHANGED <<version, inflight, call, now>>

(* Then invalidate: the map is replaced, the map of flights is not touched *)
Invalidate(w) ==
    /\ writer[w] = "wrote"
    /\ writer' = [writer EXCEPT ![w] = "done"]
    /\ entries' = {} /\ bytes' = 0
    /\ done' = version /\ tainted' = Behind
    /\ UNCHANGED <<version, inflight, call, now>>

(* invalidateKey, which no tool calls at present *)
InvalidateKey(k) ==
    /\ Held(entries, k)
    /\ entries' = Drop(entries, k)
    /\ bytes' = Bytes(entries')
    /\ UNCHANGED <<version, inflight, call, writer, now, done, tainted>>

(* The clock *)
Tick ==
    /\ now < MaxTime
    /\ now' = now + 1
    /\ UNCHANGED <<version, entries, bytes, inflight, call, writer, done, tainted>>

-----------------------------------------------------------------------------
(* The steps the scheduler carries out by itself, the end of the tool among *)
(* them                                                                    *)
Runs(c) == \/ Join(c) \/ Compute(c) \/ ComputeEnds(c) \/ Resolve(c)
           \/ Store(c) \/ Answered(c)

Next ==
    \/ \E c \in Calls : Runs(c) \/ Interrupt(c) \/ \E k \in Keys : Lookup(c, k)
    \/ \E w \in Writers : Write(w) \/ Invalidate(w)
    \/ \E k \in Keys : InvalidateKey(k)
    \/ Tick

(* The calls are finitely many and each takes finitely many steps, so that *)
(* fairness to all of them together is fairness to each.                   *)
Spec == Init /\ [][Next]_vars /\ WF_vars(\E c \in Calls : Runs(c))

-----------------------------------------------------------------------------
(* A map with the results of versions up to v: it has a key once, at a     *)
(* place of its own, no more than maxEntries of them and none too large.   *)
MapOK(m, v) ==
    /\ m \subseteq [key : Keys, ver : 0..v, expiresAt : TTL..(MaxTime + TTL), at : Nat]
    /\ IsFiniteSet(m) /\ Cardinality(m) <= MaxEntries
    /\ \A e, f \in m : e.key = f.key \/ e.at = f.at => e = f
    /\ \A e \in m : Size[e.key][e.ver] <= MaxEntrySize

(* The types, the map's among them; and a key is computed once at a time.  *)
CacheShape ==
    /\ version \in 0..Cardinality(Writers) /\ done \in 0..version
    /\ tainted \subseteq Keys /\ now \in 0..MaxTime
    /\ writer \in [Writers -> {"idle", "wrote", "done"}]
    /\ inflight \in [Keys -> Calls \cup {None}]
    /\ MapOK(entries, version)
    /\ \A c, d \in Calls :
          call[c].pc \in {"begin", "run"} /\ call[d].pc \in {"begin", "run"}
             /\ call[c].key = call[d].key => c = d

(* The shape, and estimatedBytes is the sum of the entries' sizes: the     *)
(* lookup subtracts, the others recompute.                                 *)
TypeOK == CacheShape /\ bytes = Bytes(entries)

(* What the cache holds, and what it answers a call with, is no older than *)
(* the files were when the last write tool to finish before the call       *)
(* emptied it - except for a key that some call was then computing from    *)
(* older files: invalidate (cache.ts:220) leaves that call in flight, to   *)
(* be joined, and to store its result afterwards.                          *)
StaleOnlyIfOverlapped ==
    /\ \A e \in entries : e.ver >= done \/ e.key \in tainted
    /\ \A c \in Calls : call[c].old => call[c].overlap

(* A call that joined a computation returns - "Capture the exit so the     *)
(* Deferred always resolves - even on defect" (cache.ts:152) - unless the  *)
(* leader's own tool was timed out, which may leave the Deferred open.     *)
WaitersAnswered ==
    \A c \in Calls :
        call[c].pc = "wait" ~>
            (call[c].pc # "wait" \/ call[call[c].leader].pc = "cut")

-----------------------------------------------------------------------------
(* The inductive invariant.                                                *)

Pcs == {"idle", "join", "wait", "begin", "run", "resolve", "store",
        "end", "failed", "cut"}

Deferreds == {"open", "result", "failed"}

Call == [pc : Pcs, key : Keys, t : 0..MaxTime, ver : 0..version, ok : BOOLEAN,
         leader : Calls \cup {None}, deferred : Deferreds,
         since : 0..done, overlap : BOOLEAN, old : BOOLEAN]

(* version counts the write tools that have written *)
VersionInv == version = Cardinality({w \in Writers : writer[w] # "idle"})

(* The map of flights has the calls that are about to compute or compute,  *)
(* and the ones that were interrupted in between; the Deferred of either   *)
(* is open, as every Deferred is until its computation has ended.          *)
FlightInv ==
    /\ \A k \in Keys : inflight[k] # None =>
          LET l == call[inflight[k]]
          IN  /\ l.deferred = "open"
              /\ (l.pc \in {"begin", "run"} /\ l.key = k) \/ l.pc = "cut"
    /\ \A c \in Calls : call[c].pc \in {"begin", "run"} => inflight[call[c].key] = c
    /\ \A c \in Calls : call[c].pc \in {"idle", "join", "wait", "begin", "run", "resolve"}
                           => call[c].deferred = "open"

(* What a call computes is no older than the call, and older than the last *)
(* invalidation only if that invalidation noted it.                        *)
ComputedInv ==
    \A c \in Calls : call[c].pc \in Computing =>
        /\ call[c].ver >= call[c].since
        /\ call[c].ver >= done \/ call[c].key \in tainted

(* A computation that a call may join, or waits for, is older than the     *)
(* call only if its key was tainted when the call began.                   *)
JoinInv ==
    /\ \A c, l \in Calls :
          call[c].pc = "join" /\ call[l].pc \in Computing /\ call[l].key = call[c].key
             => call[l].ver >= call[c].since \/ call[c].overlap
    /\ \A c \in Calls : call[c].pc = "wait" =>
          LET l == call[call[c].leader]
          IN  /\ call[c].leader \in Calls
              /\ l.pc \in Computing \/ l.deferred = "result"
                    => l.ver >= call[c].since \/ call[c].overlap

CacheInv ==
    /\ CacheShape /\ call \in [Calls -> Call]
    /\ VersionInv /\ FlightInv /\ ComputedInv /\ JoinInv
    /\ StaleOnlyIfOverlapped
=============================================================================
