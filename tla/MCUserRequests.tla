--------------------------- MODULE MCUserRequests ---------------------------
(* Two permission requests of one session, one of another session, and a    *)
(* question of the first.  The ruleset denies p2, which b needs, until a    *)
(* reply approves it; "always" for a covers b, for b only one need of a.    *)
EXTENDS UserRequests, TLC

CONSTANTS a, b, c, quest, p1, p2, p3, s1, s2

Only(f)   == [r \in Requests |-> f[r]]
MCSession == Only((a :> s1) @@ (b :> s1) @@ (c :> s2) @@ (quest :> s1))
MCNeeds   == Only((a :> {p1, p3}) @@ (b :> {p1, p2}) @@ (c :> {p1}) @@ (quest :> {}))
MCAlways  == Only((a :> {p1, p2}) @@ (b :> {p1}) @@ (c :> {p2}) @@ (quest :> {}))
MCRule    == (p1 :> "ask") @@ (p2 :> "deny") @@ (p3 :> "ask")
=============================================================================
