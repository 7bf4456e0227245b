-------------------------- MODULE ToolCacheProofs --------------------------
(***************************************************************************)
(* That the cache keeps its shape and that an answer is older than a       *)
(* finished write only if its computation overlapped that write, for any   *)
(* calls, write tools, keys, sizes and limits.                             *)
(***************************************************************************)
EXTENDS ToolCache, FiniteSetTheorems, TLAPS

-----------------------------------------------------------------------------
(* The order of the map.                                                   *)

(* A nonempty set of parts of a finite set has a smallest one.             *)
LEMMA SmallestPart ==
  ASSUME NEW S, IsFiniteSet(S), NEW Bad, Bad \subseteq SUBSET S, Bad # {}
  PROVE  \E U \in Bad : \A V \in Bad : V \subseteq U => V = U
<1>1. IsWellFoundedOn(StrictSubsetOrdering(S), SUBSET S)
  BY FS_StrictSubsetOrderingWellFounded, FS_FiniteSubsetsOfFinite
<1>2. PICK U \in Bad : \A V \in Bad : <<V, U>> \notin StrictSubsetOrdering(S)
  BY <1>1, WFMin
<1>3. \A V \in Bad : V \subseteq U => V = U
  <2> SUFFICES ASSUME NEW V \in Bad, V \subseteq U, V # U PROVE FALSE
    OBVIOUS
  <2>1. V \in SUBSET S /\ U \in SUBSET S
    OBVIOUS
  <2>2. <<V, U>> \in StrictSubsetOrdering(S)
    BY <2>1 DEF StrictSubsetOrdering
  <2> QED BY <1>2, <2>2
<1> QED BY <1>3

(* A finite set of numbers has a greatest and a least element: a smallest  *)
(* subset without either would have them once an element is put back.      *)
LEMMA ExtremesExist ==
  ASSUME NEW S \in SUBSET Nat, IsFiniteSet(S), S # {}
  PROVE  /\ \E x \in S : \A y \in S : x >= y
         /\ \E x \in S : \A y \in S : x <= y
<1> DEFINE Good(U) == /\ \E x \in U : \A y \in U : x >= y
                      /\ \E x \in U : \A y \in U : x <= y
           Bad == {U \in SUBSET S : U # {} /\ ~ Good(U)}
<1>1. SUFFICES ASSUME Bad # {} PROVE FALSE
  BY DEF Bad
<1>2. PICK T : T = S
  OBVIOUS
<1>3. PICK U \in Bad : \A V \in Bad : V \subseteq U => V = U
  <2>1. Bad \subseteq SUBSET T /\ IsFiniteSet(T)
    BY <1>2 DEF Bad
  <2> HIDE DEF Bad
  <2> QED BY <1>1, <2>1, SmallestPart
<1>4. PICK x \in U : TRUE
  BY <1>3 DEF Bad
<1> DEFINE V == U \ {x}
<1>5. U \in SUBSET S /\ V \in SUBSET S /\ U # V
  BY <1>3, <1>4
<1>7. V \notin Bad
  BY <1>3, <1>5
<1>8. CASE V = {}
  <2>1. U = {x}
    BY <1>4, <1>8
  <2>2. x \in Nat
    BY <1>4, <1>5
  <2>3. Good(U)
    BY <2>1, <2>2
  <2> QED BY <1>3, <2>3 DEF Bad
<1>9. CASE V # {}
  <2>1. PICK a \in V, b \in V : \A y \in V : a >= y /\ b <= y
    BY <1>5, <1>7, <1>9
  <2>2. a \in Nat /\ b \in Nat /\ x \in Nat /\ U \subseteq Nat
    BY <1>4, <1>5, <2>1
  <2>3. \A y \in U : y = x \/ y \in V
    OBVIOUS
  <2>4. \E z \in U : \A y \in U : z >= y
    <3>1. CASE a >= x
      BY <2>1, <2>2, <2>3, <3>1
    <3>2. CASE x > a
      <4>1. \A y \in U : x >= y
        BY <2>1, <2>2, <2>3, <3>2
      <4> QED BY <1>4, <4>1
    <3> QED BY <2>2, <3>1, <3>2
  <2>5. \E z \in U : \A y \in U : z <= y
    <3>1. CASE b <= x
      BY <2>1, <2>2, <2>3, <3>1
    <3>2. CASE x < b
      <4>1. \A y \in U : x <= y
        BY <2>1, <2>2, <2>3, <3>2
      <4> QED BY <1>4, <4>1
    <3> QED BY <2>2, <3>1, <3>2
  <2> QED BY <1>3, <2>4, <2>5 DEF Bad
<1> QED BY <1>8, <1>9

(* The places of a finite part of the map are finitely many numbers.       *)
LEMMA PlacesFinite ==
  ASSUME NEW m, IsFiniteSet(m), \A e \in m : e.at \in Nat
  PROVE  {e.at : e \in m} \in SUBSET Nat /\ IsFiniteSet({e.at : e \in m})
<1> DEFINE P == {e.at : e \in m}
           f == [e \in m |-> e.at]
<1>1. P \in SUBSET Nat
  OBVIOUS
<1>2. f \in Surjection(m, P)
  BY DEF Surjection
<1>3. IsFiniteSet(P)
  <2> HIDE DEF P, f
  <2> QED BY <1>2, FS_Surjection
<1> QED BY <1>1, <1>3

(* The young end is behind every place in use.                             *)
LEMMA YoungEndIsYoungest ==
  ASSUME NEW m, IsFiniteSet(m), \A e \in m : e.at \in Nat
  PROVE  YoungEnd(m) \in Nat /\ \A e \in m : e.at < YoungEnd(m)
<1> DEFINE P == {e.at : e \in m}
<1>1. P \in SUBSET Nat /\ IsFiniteSet(P)
  BY PlacesFinite
<1>2. CASE m = {}
  BY <1>2 DEF YoungEnd
<1>3. CASE m # {}
  <2>1. P # {}
    BY <1>3
  <2>2. \E x \in P : \A y \in P : x >= y
    <3> HIDE DEF P
    <3> QED BY <1>1, <2>1, ExtremesExist
  <2>3. Max(P) \in P /\ \A y \in P : Max(P) >= y
    <3> HIDE DEF P
    <3> QED BY <2>2 DEF Max
  <2>4. YoungEnd(m) = Max(P) + 1
    BY <1>3 DEF YoungEnd
  <2>5. Max(P) \in Nat /\ \A e \in m : Max(P) >= e.at
    BY <1>1, <2>3
  <2> HIDE DEF P
  <2> QED BY <2>4, <2>5
<1> QED BY <1>2, <1>3

(* Eviction leaves room for one: of the entries it keeps the oldest has    *)
(* all the others behind it, and they are fewer than MaxEntries - 1.       *)
LEMMA EvictionMakesRoom ==
  ASSUME NEW t, IsFiniteSet(entries),
         \A e \in entries : e.at \in Nat,
         \A e, f \in entries : e.at = f.at => e = f
  PROVE  /\ Evicted(t) \subseteq entries /\ IsFiniteSet(Evicted(t))
         /\ Cardinality(Evicted(t)) \in Nat /\ Cardinality(Evicted(t)) < MaxEntries
<1> DEFINE live == {e \in entries : e.expiresAt > t}
           After(e) == {g \in live : g.at > e.at}
           K == Evicted(t)
<1>1. K = {e \in live : Cardinality(After(e)) < MaxEntries - 1}
  BY DEF Evicted
<1>2. K \subseteq live /\ live \subseteq entries
  BY <1>1
<1>3. IsFiniteSet(live) /\ IsFiniteSet(K)
  BY <1>2, FS_Subset
<1>4. Cardinality(K) \in Nat /\ MaxEntries \in Nat \ {0}
  BY <1>3, FS_CardinalityType, CacheAssumption
<1>5. Cardinality(K) < MaxEntries
  <2>1. CASE K = {}
    BY <1>4, <2>1, FS_EmptySet
  <2>2. CASE K # {}
    <3> DEFINE P == {e.at : e \in K}
    <3>1. \A e \in K : e.at \in Nat
      BY <1>2
    <3>2. P \in SUBSET Nat /\ IsFiniteSet(P)
      <4> HIDE DEF K
      <4> QED BY <1>3, <3>1, PlacesFinite
    <3>3. P # {}
      BY <2>2
    <3>4. PICK p \in P : \A q \in P : p <= q
      <4> HIDE DEF P
      <4> QED BY <3>2, <3>3, ExtremesExist
    <3>5. PICK e \in K : e.at = p
      BY <3>4
    <3>6. \A g \in K \ {e} : g \in live /\ g.at > e.at
      <4> TAKE g \in K \ {e}
      <4>1. g \in live /\ g \in entries /\ e \in entries /\ g # e
        BY <1>2, <3>5
      <4>2. g.at # e.at
        BY <4>1
      <4>3. g.at \in P
        OBVIOUS
      <4>4. p <= g.at
        BY <3>4, <4>3
      <4>5. g.at \in Nat /\ e.at \in Nat
        BY <4>1
      <4> HIDE DEF live, K, P
      <4> QED BY <3>5, <4>1, <4>2, <4>4, <4>5
    <3>7. K \ {e} \subseteq After(e) /\ IsFiniteSet(After(e))
      BY <1>3, <3>6, FS_Subset
    <3>8. Cardinality(K \ {e}) <= Cardinality(After(e))
      BY <3>7, FS_Subset
    <3>9. Cardinality(K \ {e}) = Cardinality(K) - 1
      BY <1>3, <3>5, FS_RemoveElement
    <3>10. Cardinality(After(e)) \in Nat /\ Cardinality(After(e)) < MaxEntries - 1
      BY <1>1, <3>5, <3>7, FS_CardinalityType
    <3> HIDE DEF K, After
    <3> QED BY <1>4, <3>8, <3>9, <3>10
  <2> QED BY <2>1, <2>2
<1> QED BY <1>2, <1>3, <1>4, <1>5

-----------------------------------------------------------------------------
(* What the operations on the map preserve.                                *)

LEMMA SizesType ==
  /\ Cardinality(Writers) \in Nat
  /\ \A k \in Keys, v \in 0..Cardinality(Writers) : Size[k][v] \in Nat
  /\ MaxEntries \in Nat \ {0} /\ MaxEntrySize \in Nat /\ TTL \in Nat \ {0} /\ MaxTime \in Nat
BY CacheAssumption, FS_CardinalityType

LEMMA PartOfMap ==
  ASSUME NEW m, NEW v, MapOK(m, v), NEW n \in SUBSET m
  PROVE  MapOK(n, v)
<1>1. IsFiniteSet(n) /\ Cardinality(n) <= Cardinality(m)
  BY FS_Subset DEF MapOK
<1>2. Cardinality(n) \in Nat /\ Cardinality(m) \in Nat /\ MaxEntries \in Nat
  BY <1>1, FS_CardinalityType, SizesType DEF MapOK
<1> QED BY <1>1, <1>2 DEF MapOK

LEMMA NewerMap ==
  ASSUME NEW m, NEW v \in Nat, MapOK(m, v)
  PROVE  MapOK(m, v + 1)
<1>1. 0..v \subseteq 0..(v + 1)
  OBVIOUS
<1>2. m \subseteq [key : Keys, ver : 0..(v + 1), expiresAt : TTL..(MaxTime + TTL), at : Nat]
  BY <1>1 DEF MapOK
<1> QED BY <1>2 DEF MapOK

(* An entry with a key and a place of its own, where there is room.        *)
LEMMA EntryAdded ==
  ASSUME NEW m, NEW v \in Nat, MapOK(m, v), Cardinality(m) < MaxEntries,
         NEW e \in [key : Keys, ver : 0..v, expiresAt : TTL..(MaxTime + TTL), at : Nat],
         Size[e.key][e.ver] <= MaxEntrySize,
         \A f \in m : f.key # e.key /\ f.at # e.at
  PROVE  MapOK(m \cup {e}, v)
<1>1. e \notin m
  OBVIOUS
<1>2. IsFiniteSet(m \cup {e}) /\ Cardinality(m \cup {e}) = Cardinality(m) + 1
  BY <1>1, FS_AddElement DEF MapOK
<1>3. Cardinality(m) \in Nat /\ MaxEntries \in Nat
  BY FS_CardinalityType, SizesType DEF MapOK
<1>4. \A f, g \in m \cup {e} : f.key = g.key \/ f.at = g.at => f = g
  BY DEF MapOK
<1> QED BY <1>2, <1>3, <1>4 DEF MapOK

LEMMA Dropped ==
  ASSUME NEW m, NEW v, MapOK(m, v), NEW k
  PROVE  /\ MapOK(Drop(m, k), v) /\ Drop(m, k) \subseteq m
         /\ \A e \in Drop(m, k) : e.key # k
         /\ YoungEnd(Drop(m, k)) \in Nat
         /\ \A e \in Drop(m, k) : e.at # YoungEnd(Drop(m, k))
<1>1. Drop(m, k) \subseteq m /\ \A e \in Drop(m, k) : e.key # k
  BY DEF Drop
<1>2. MapOK(Drop(m, k), v)
  BY <1>1, PartOfMap
<1>3. \A e \in Drop(m, k) : e.at \in Nat
  BY <1>2 DEF MapOK
<1>4. IsFiniteSet(Drop(m, k))
  BY <1>2 DEF MapOK
<1>5. /\ YoungEnd(Drop(m, k)) \in Nat
      /\ \A e \in Drop(m, k) : e.at < YoungEnd(Drop(m, k))
  BY <1>3, <1>4, YoungEndIsYoungest
<1> QED BY <1>1, <1>2, <1>3, <1>5

(* A key that is dropped and set again.                                    *)
LEMMA Moved ==
  ASSUME NEW k, NEW v \in Nat, MapOK(entries, v), Held(entries, k)
  PROVE  /\ EntryOf(k) \in entries /\ EntryOf(k).key = k
         /\ MapOK(Drop(entries, k) \cup
                     {[EntryOf(k) EXCEPT !.at = YoungEnd(Drop(entries, k))]}, v)
<1> DEFINE d == Drop(entries, k)
           y == YoungEnd(d)
           f == [EntryOf(k) EXCEPT !.at = y]
<1>1. EntryOf(k) \in entries /\ EntryOf(k).key = k
  BY DEF Held, EntryOf
<1>2. /\ MapOK(d, v) /\ d \subseteq entries
      /\ \A e \in d : e.key # k
      /\ y \in Nat /\ \A e \in d : e.at # y
  BY Dropped
<1>3. EntryOf(k) \in [key : Keys, ver : 0..v, expiresAt : TTL..(MaxTime + TTL), at : Nat]
  BY <1>1 DEF MapOK
<1>4. /\ f \in [key : Keys, ver : 0..v, expiresAt : TTL..(MaxTime + TTL), at : Nat]
      /\ f.key = k /\ f.ver = EntryOf(k).ver /\ f.at = y
  <2> HIDE DEF y, d
  <2> QED BY <1>1, <1>2, <1>3
<1>5. Size[f.key][f.ver] <= MaxEntrySize
  BY <1>1, <1>4 DEF MapOK
<1>6. Cardinality(d) < MaxEntries
  <2>1. d \subseteq entries \ {EntryOf(k)}
    BY <1>1, <1>2
  <2>2. /\ IsFiniteSet(entries \ {EntryOf(k)})
        /\ Cardinality(entries \ {EntryOf(k)}) = Cardinality(entries) - 1
    BY <1>1, FS_RemoveElement DEF MapOK
  <2>3. Cardinality(d) <= Cardinality(entries) - 1
    <3> HIDE DEF d
    <3> QED BY <2>1, <2>2, FS_Subset
  <2>4. Cardinality(d) \in Nat /\ Cardinality(entries) \in Nat /\ MaxEntries \in Nat
    BY <1>2, FS_CardinalityType, SizesType DEF MapOK
  <2> HIDE DEF d
  <2> QED BY <2>3, <2>4 DEF MapOK
<1>7. MapOK(d \cup {f}, v)
  <2> HIDE DEF d, y, f
  <2> QED BY <1>2, <1>4, <1>5, <1>6, EntryAdded
<1> QED BY <1>1, <1>7

(* A result that is stored where there is room.                            *)
LEMMA PutInMap ==
  ASSUME NEW m, NEW v \in Nat, MapOK(m, v), Cardinality(m) < MaxEntries,
         NEW k \in Keys, NEW ver \in 0..v, NEW x \in TTL..(MaxTime + TTL),
         Size[k][ver] <= MaxEntrySize
  PROVE  /\ MapOK(Put(m, k, ver, x), v)
         /\ \A e \in Put(m, k, ver, x) : e \in m \/ (e.key = k /\ e.ver = ver)
<1> DEFINE d == Drop(m, k)
           p == Place(m, k)
           f == [key |-> k, ver |-> ver, expiresAt |-> x, at |-> p]
<1>1. MapOK(d, v) /\ d \subseteq m /\ \A e \in d : e.key # k
  BY Dropped
<1>2. p \in Nat /\ \A e \in d : e.at # p
  <2>1. CASE Held(m, k)
    <3>1. PICK h \in m : h.key = k /\ p = h.at
      BY <2>1 DEF Place, Held
    <3>2. h.at \in Nat
      BY DEF MapOK
    <3>3. \A e \in d : e.at # h.at
      BY <1>1, <3>1 DEF MapOK
    <3> QED BY <3>1, <3>2, <3>3
  <2>2. CASE ~ Held(m, k)
    <3>1. IsFiniteSet(m) /\ \A e \in m : e.at \in Nat
      BY DEF MapOK
    <3>2. p = YoungEnd(m)
      BY <2>2 DEF Place
    <3>3. p \in Nat /\ \A e \in m : e.at < p
      BY <3>1, <3>2, YoungEndIsYoungest
    <3> QED BY <1>1, <3>1, <3>3
  <2> QED BY <2>1, <2>2
<1>3. Cardinality(d) < MaxEntries
  <2>1. Cardinality(d) <= Cardinality(m)
    BY <1>1, FS_Subset DEF MapOK
  <2>2. Cardinality(d) \in Nat /\ Cardinality(m) \in Nat /\ MaxEntries \in Nat
    BY <1>1, FS_CardinalityType, SizesType DEF MapOK
  <2> HIDE DEF d
  <2> QED BY <2>1, <2>2
<1>4. /\ f \in [key : Keys, ver : 0..v, expiresAt : TTL..(MaxTime + TTL), at : Nat]
      /\ f.key = k /\ f.ver = ver /\ f.at = p
  BY <1>2
<1>5. MapOK(d \cup {f}, v)
  <2> HIDE DEF d, p, f
  <2> QED BY <1>1, <1>2, <1>3, <1>4, EntryAdded
<1>6. Put(m, k, ver, x) = d \cup {f}
  BY DEF Put
<1> HIDE DEF d, p, f
<1> QED BY <1>1, <1>4, <1>5, <1>6

-----------------------------------------------------------------------------
(* The sum of the sizes.  MapThenSumSet is a recursive function on the     *)
(* parts of the set, and takes the elements in an order of its own.        *)

SizeOf(e) == Size[e.key][e.ver]

First(s) == CHOOSE e \in s : TRUE

(* g adds up the sizes of every part of S.                                 *)
Sums(g, S) ==
  g = [s \in SUBSET S |-> IF s = {} THEN 0 ELSE SizeOf(First(s)) + g[s \ {First(s)}]]

Total(S) == CHOOSE g : Sums(g, S)

LEMMA BytesIsTotal ==
  ASSUME NEW m
  PROVE  Bytes(m) = Total(m)[m]
BY DEF Bytes, MapThenSumSet, MapThenFoldSet, Total, Sums, First, SizeOf

LEMMA FirstOfPart ==
  ASSUME NEW s, s # {}
  PROVE  /\ First(s) \in s /\ s \ {First(s)} \subseteq s /\ s \ {First(s)} # s
BY DEF First

LEMMA SumsAt ==
  ASSUME NEW g, NEW S, Sums(g, S), NEW s \in SUBSET S
  PROVE  /\ s = {} => g[s] = 0
         /\ s # {} => g[s] = SizeOf(First(s)) + g[s \ {First(s)}]
<1> DEFINE F == [u \in SUBSET S |-> IF u = {} THEN 0 ELSE SizeOf(First(u)) + g[u \ {First(u)}]]
<1>1. g = F
  BY DEF Sums
<1>2. F[s] = IF s = {} THEN 0 ELSE SizeOf(First(s)) + g[s \ {First(s)}]
  OBVIOUS
<1> HIDE DEF F
<1>3. g[s] = F[s]
  BY <1>1
<1> QED BY <1>2, <1>3

(* Two such functions agree where both are defined.                        *)
LEMMA SumsAgree ==
  ASSUME NEW g, NEW S, Sums(g, S), NEW h, NEW T, Sums(h, T),
         NEW U \in SUBSET S, U \subseteq T, IsFiniteSet(U)
  PROVE  g[U] = h[U]
<1> DEFINE Bad == {s \in SUBSET U : g[s] # h[s]}
<1>1. SUFFICES ASSUME Bad # {} PROVE FALSE
  OBVIOUS
<1>2. PICK s \in Bad : \A v \in Bad : v \subseteq s => v = s
  <2>1. Bad \subseteq SUBSET U
    OBVIOUS
  <2> HIDE DEF Bad
  <2> QED BY <1>1, <2>1, SmallestPart
<1>3. s \in SUBSET S /\ s \in SUBSET T /\ s \in SUBSET U
  OBVIOUS
<1>4. CASE s = {}
  <2>1. g[s] = 0 /\ h[s] = 0
    BY <1>3, <1>4, SumsAt
  <2> QED BY <2>1
<1>5. CASE s # {}
  <2> DEFINE v == s \ {First(s)}
  <2>1. g[s] = SizeOf(First(s)) + g[v] /\ h[s] = SizeOf(First(s)) + h[v]
    BY <1>3, <1>5, SumsAt
  <2>2. v \subseteq s /\ v # s
    BY <1>5, FirstOfPart
  <2>3. v \notin Bad
    BY <1>2, <2>2
  <2>4. g[v] = h[v]
    BY <1>3, <2>2, <2>3
  <2> QED BY <2>1, <2>4
<1> QED BY <1>4, <1>5

(* There is one for every finite set: a smallest set without would have    *)
(* the one that is made of those of its parts.                             *)
LEMMA SumsExist ==
  ASSUME NEW S, IsFiniteSet(S)
  PROVE  Sums(Total(S), S)
<1> DEFINE Bad == {s \in SUBSET S : ~ Sums(Total(s), s)}
<1>1. SUFFICES ASSUME Bad # {} PROVE FALSE
  OBVIOUS
<1>2. PICK U \in Bad : \A v \in Bad : v \subseteq U => v = U
  <2>1. Bad \subseteq SUBSET S
    OBVIOUS
  <2> HIDE DEF Bad
  <2> QED BY <1>1, <2>1, SmallestPart
<1>3. U \in SUBSET S /\ IsFiniteSet(U) /\ ~ Sums(Total(U), U)
  BY FS_Subset
<1>4. \A v \in SUBSET U : v # U => Sums(Total(v), v)
  BY <1>2, <1>3
<1> DEFINE Sum(s) == IF s = {} THEN 0
                     ELSE SizeOf(First(s)) + Total(s \ {First(s)})[s \ {First(s)}]
           h == [s \in SUBSET U |-> Sum(s)]
<1>5. ASSUME NEW s \in SUBSET U, s # U
      PROVE  Total(s)[s] = Sum(s)
  <2>1. Sums(Total(s), s) /\ IsFiniteSet(s)
    BY <1>3, <1>4, <1>5, FS_Subset
  <2>2. CASE s = {}
    BY <2>1, <2>2, SumsAt
  <2>3. CASE s # {}
    <3> DEFINE v == s \ {First(s)}
    <3>1. v \subseteq s /\ v # s
      BY <2>3, FirstOfPart
    <3>2. v \in SUBSET U /\ v # U
      BY <3>1
    <3>3. Sums(Total(v), v) /\ IsFiniteSet(v)
      BY <1>3, <1>4, <3>2, FS_Subset
    <3>4. Total(s)[v] = Total(v)[v]
      <4> HIDE DEF v
      <4> QED BY <2>1, <3>1, <3>3, SumsAgree
    <3>5. Total(s)[s] = SizeOf(First(s)) + Total(s)[v]
      BY <2>1, <2>3, SumsAt
    <3> QED BY <2>3, <3>4, <3>5
  <2> QED BY <2>2, <2>3
<1>6. ASSUME NEW s \in SUBSET U
      PROVE  h[s] = IF s = {} THEN 0 ELSE SizeOf(First(s)) + h[s \ {First(s)}]
  <2>1. CASE s = {}
    BY <2>1
  <2>2. CASE s # {}
    <3> DEFINE v == s \ {First(s)}
    <3>1. v \in SUBSET U /\ v # U
      BY <2>2, FirstOfPart
    <3>2. h[v] = Total(v)[v]
      <4>1. Total(v)[v] = Sum(v)
        <5> HIDE DEF v
        <5> QED BY <1>5, <3>1
      <4> HIDE DEF v
      <4> QED BY <3>1, <4>1
    <3>3. h[s] = SizeOf(First(s)) + Total(v)[v]
      BY <2>2
    <3> QED BY <2>2, <3>2, <3>3
  <2> QED BY <2>1, <2>2
<1>7. Sums(h, U)
  <2> DEFINE F == [s \in SUBSET U |-> IF s = {} THEN 0 ELSE SizeOf(First(s)) + h[s \ {First(s)}]]
  <2>1. \A s \in SUBSET U : h[s] = F[s]
    BY <1>6
  <2>2. h = [s \in SUBSET U |-> h[s]] /\ F = [s \in SUBSET U |-> F[s]]
    OBVIOUS
  <2>3. h = F
    <3> HIDE DEF h, F
    <3> QED BY <2>1, <2>2
  <2> HIDE DEF h
  <2> QED BY <2>3 DEF Sums
<1>8. Sums(Total(U), U)
  <2> HIDE DEF h
  <2> QED BY <1>7 DEF Total
<1> QED BY <1>3, <1>8

(* What recalcBytes computes, whichever entry it takes first.              *)
LEMMA BytesFirst ==
  ASSUME NEW m, IsFiniteSet(m)
  PROVE  /\ m = {} => Bytes(m) = 0
         /\ m # {} => Bytes(m) = SizeOf(First(m)) + Bytes(m \ {First(m)})
<1>1. Sums(Total(m), m) /\ Bytes(m) = Total(m)[m]
  BY SumsExist, BytesIsTotal
<1>2. CASE m = {}
  BY <1>1, <1>2, SumsAt
<1>3. CASE m # {}
  <2> DEFINE v == m \ {First(m)}
  <2>1. v \subseteq m /\ IsFiniteSet(v)
    BY FS_Subset
  <2>2. Sums(Total(v), v) /\ Bytes(v) = Total(v)[v]
    BY <2>1, SumsExist, BytesIsTotal
  <2>3. Total(m)[v] = Total(v)[v]
    <3> HIDE DEF v
    <3> QED BY <1>1, <2>1, <2>2, SumsAgree
  <2>4. Total(m)[m] = SizeOf(First(m)) + Total(m)[v]
    BY <1>1, <1>3, SumsAt
  <2> QED BY <1>1, <1>3, <2>2, <2>3, <2>4
<1> QED BY <1>2, <1>3

LEMMA BytesOfPart ==
  ASSUME NEW m, IsFiniteSet(m), \A e \in m : SizeOf(e) \in Nat
  PROVE  Bytes(m) \in Nat /\ \A e \in m : Bytes(m \ {e}) = Bytes(m) - SizeOf(e)
<1> DEFINE Good(s) == Bytes(s) \in Nat /\ \A e \in s : Bytes(s \ {e}) = Bytes(s) - SizeOf(e)
           Bad == {s \in SUBSET m : ~ Good(s)}
<1>1. SUFFICES ASSUME Bad # {} PROVE FALSE
  OBVIOUS
<1>2. PICK s \in Bad : \A v \in Bad : v \subseteq s => v = s
  <2>1. Bad \subseteq SUBSET m
    OBVIOUS
  <2> HIDE DEF Bad
  <2> QED BY <1>1, <2>1, SmallestPart
<1>3. s \in SUBSET m /\ IsFiniteSet(s)
  BY FS_Subset
<1>4. \A e \in s : IsFiniteSet(s \ {e}) /\ Good(s \ {e}) /\ SizeOf(e) \in Nat
  <2> TAKE e \in s
  <2>1. s \ {e} \subseteq m /\ s \ {e} # s
    BY <1>3
  <2>2. Good(s \ {e})
    BY <1>2, <2>1
  <2> HIDE DEF Good
  <2> QED BY <1>3, <2>1, <2>2, FS_Subset
<1>5. CASE s = {}
  <2>1. Bytes(s) = 0
    BY <1>3, <1>5, BytesFirst
  <2>2. Good(s)
    BY <1>5, <2>1
  <2> QED BY <1>2, <2>2
<1>6. CASE s # {}
  <2>1. PICK c \in s : c = First(s)
    BY <1>6, FirstOfPart
  <2>2. Bytes(s) = SizeOf(c) + Bytes(s \ {c})
    BY <1>3, <1>6, <2>1, BytesFirst
  <2>3. SizeOf(c) \in Nat /\ Good(s \ {c})
    BY <1>4
  <2>4. Bytes(s) \in Nat
    BY <2>2, <2>3
  <2>5. ASSUME NEW e \in s
        PROVE  Bytes(s \ {e}) = Bytes(s) - SizeOf(e)
    <3>1. CASE e = c
      BY <2>2, <2>3, <3>1
    <3>2. CASE e # c
      <4>1. e \in s \ {c} /\ c \in s \ {e} /\ (s \ {c}) \ {e} = (s \ {e}) \ {c}
        BY <3>2
      <4>2. Good(s \ {e}) /\ SizeOf(e) \in Nat
        BY <1>4
      <4>3. Bytes((s \ {c}) \ {e}) = Bytes(s \ {c}) - SizeOf(e)
        BY <2>3, <4>1
      <4>4. Bytes((s \ {e}) \ {c}) = Bytes(s \ {e}) - SizeOf(c)
        BY <4>1, <4>2
      <4>5. Bytes(s \ {c}) - SizeOf(e) = Bytes(s \ {e}) - SizeOf(c)
        BY <4>1, <4>3, <4>4
      <4>6. Bytes(s \ {c}) \in Nat /\ Bytes(s \ {e}) \in Nat
        BY <2>3, <4>2
      <4> HIDE DEF Good
      <4> QED BY <2>2, <2>3, <4>2, <4>5, <4>6
    <3> QED BY <3>1, <3>2
  <2>6. Good(s)
    BY <2>4, <2>5
  <2> QED BY <1>2, <2>6
<1> QED BY <1>5, <1>6

(* Without a key, and with it back at the young end.                       *)
LEMMA BytesDropped ==
  ASSUME NEW k, CacheInv, Held(entries, k)
  PROVE  LET f == [EntryOf(k) EXCEPT !.at = YoungEnd(Drop(entries, k))]
         IN  /\ Bytes(Drop(entries, k)) = Bytes(entries) - Size[k][EntryOf(k).ver]
             /\ Bytes(Drop(entries, k) \cup {f}) = Bytes(entries)
<1> DEFINE d == Drop(entries, k)
           f == [EntryOf(k) EXCEPT !.at = YoungEnd(d)]
           n == d \cup {f}
<1>1. MapOK(entries, version) /\ version \in Nat /\ version <= Cardinality(Writers)
  BY SizesType DEF CacheInv, CacheShape
<1>2. PICK e \in entries : e = EntryOf(k) /\ e.key = k
  BY <1>1, Moved
<1>3. MapOK(n, version)
  BY <1>1, Moved
<1>4. \A m : MapOK(m, version) => IsFiniteSet(m) /\ \A x \in m : SizeOf(x) \in Nat
  <2> SUFFICES ASSUME NEW m, MapOK(m, version)
               PROVE  IsFiniteSet(m) /\ \A x \in m : SizeOf(x) \in Nat
    OBVIOUS
  <2>1. \A x \in m : x.key \in Keys /\ x.ver \in 0..version
    BY DEF MapOK
  <2>2. 0..version \subseteq 0..Cardinality(Writers)
    BY <1>1, SizesType
  <2> QED BY <2>1, <2>2, SizesType DEF MapOK, SizeOf
<1>5. d = entries \ {e}
  BY <1>1, <1>2 DEF Drop, MapOK
<1>6. SizeOf(e) = Size[k][EntryOf(k).ver]
  BY <1>2 DEF SizeOf
<1>7. Bytes(entries) \in Nat /\ Bytes(d) = Bytes(entries) - SizeOf(e)
  BY <1>1, <1>2, <1>4, <1>5, BytesOfPart
<1>8. f.key = k /\ f.ver = e.ver
  <2>1. e \in [key : Keys, ver : 0..version, expiresAt : TTL..(MaxTime + TTL), at : Nat]
    BY <1>1 DEF MapOK
  <2> QED BY <1>2, <2>1
<1>9. f \notin d
  BY <1>8 DEF Drop
<1>10. n \ {f} = d /\ f \in n
  <2> HIDE DEF d, f
  <2> QED BY <1>9
<1>11. SizeOf(f) = SizeOf(e) /\ SizeOf(e) \in Nat
  BY <1>1, <1>2, <1>4, <1>8 DEF SizeOf
<1>12. Bytes(n) \in Nat /\ Bytes(n \ {f}) = Bytes(n) - SizeOf(f)
  <2> HIDE DEF d, f, n
  <2> QED BY <1>3, <1>4, <1>10, BytesOfPart
<1>13. Bytes(n) = Bytes(entries)
  <2>1. Bytes(n) - SizeOf(e) = Bytes(entries) - SizeOf(e)
    <3> HIDE DEF d, f, n
    <3> QED BY <1>7, <1>10, <1>11, <1>12
  <2> HIDE DEF d, f, n
  <2> QED BY <1>7, <1>11, <1>12, <2>1
<1> QED BY <1>6, <1>7, <1>13

-----------------------------------------------------------------------------
(* Steps of one call: what its new record r must satisfy, of itself and    *)
(* towards the other calls.                                                *)

Fresh(r) ==
  r.pc \in Computing => r.ver >= r.since /\ (r.ver >= done \/ r.key \in tainted)

(* What l computes is good enough for d.                                   *)
Serves(l, d) == l.ver >= d.since \/ d.overlap

Joinable(l, d) == d.pc = "join" /\ l.pc \in Computing /\ l.key = d.key => Serves(l, d)

Awaited(l, d) ==
  d.pc = "wait" /\ (l.pc \in Computing \/ l.deferred = "result") => Serves(l, d)

LEMMA CallStep ==
  ASSUME CacheInv, NEW c \in Calls, NEW r \in Call,
         call' = [call EXCEPT ![c] = r],
         UNCHANGED <<version, writer, now, done, tainted>>,
         inflight' \in [Keys -> Calls \cup {None}],
         MapOK(entries', version),
         \A e \in entries' : e.ver >= done \/ e.key \in tainted,
         FlightInv', Fresh(r), r.old => r.overlap,
         \A d \in Calls \ {c} : Joinable(r, call[d]) /\ Joinable(call[d], r),
         \A d \in Calls \ {c} : call[d].leader = c => Awaited(r, call[d]),
         r.pc = "wait" => r.leader \in Calls \ {c} /\ Awaited(call[r.leader], r)
  PROVE  CacheInv'
<1> USE DEF CacheInv
<1>1. Call' = Call
  BY DEF Call
<1>2. call' \in [Calls -> Call]
  OBVIOUS
<1>3. call'[c] = r /\ \A d \in Calls \ {c} : call'[d] = call[d]
  OBVIOUS
<1>4. VersionInv'
  BY DEF VersionInv
<1>5. CacheShape'
  <2>1. \A x, y \in Calls :
          call'[x].pc \in {"begin", "run"} /\ call'[y].pc \in {"begin", "run"}
             /\ call'[x].key = call'[y].key => x = y
    BY DEF FlightInv
  <2> QED BY <2>1 DEF CacheShape
<1>6. ComputedInv'
  <2> SUFFICES ASSUME NEW d \in Calls, call'[d].pc \in Computing
               PROVE  /\ call'[d].ver >= call'[d].since
                      /\ call'[d].ver >= done \/ call'[d].key \in tainted
    BY DEF ComputedInv
  <2>1. CASE d = c
    BY <1>3, <2>1 DEF Fresh
  <2>2. CASE d # c
    BY <1>3, <2>2 DEF ComputedInv
  <2> QED BY <2>1, <2>2
<1>7. JoinInv'
  <2>1. ASSUME NEW d \in Calls, NEW l \in Calls
        PROVE  Joinable(call'[l], call'[d])
    <3>1. CASE d # c /\ l # c
      BY <1>3, <3>1 DEF JoinInv, Joinable, Serves
    <3>2. CASE d = c /\ l # c
      BY <1>3, <3>2
    <3>3. CASE d # c /\ l = c
      BY <1>3, <3>3
    <3>4. CASE d = c /\ l = c
      BY <1>3, <3>4 DEF Joinable, Computing
    <3> QED BY <3>1, <3>2, <3>3, <3>4
  <2>2. ASSUME NEW d \in Calls, call'[d].pc = "wait"
        PROVE  call'[d].leader \in Calls /\ Awaited(call'[call'[d].leader], call'[d])
    <3>1. CASE d = c
      BY <1>3, <2>2, <3>1
    <3>2. CASE d # c
      <4>1. call[d].leader \in Calls /\ Awaited(call[call[d].leader], call[d])
        BY <1>3, <2>2, <3>2 DEF JoinInv, Awaited, Serves
      <4>2. CASE call[d].leader = c
        BY <1>3, <3>2, <4>1, <4>2
      <4>3. CASE call[d].leader # c
        BY <1>3, <3>2, <4>1, <4>3
      <4> QED BY <4>2, <4>3
    <3> QED BY <3>1, <3>2
  <2> QED BY <2>1, <2>2 DEF JoinInv, Joinable, Awaited, Serves
<1>8. StaleOnlyIfOverlapped'
  <2>1. \A d \in Calls : call'[d].old => call'[d].overlap
    BY <1>3 DEF StaleOnlyIfOverlapped
  <2> QED BY <2>1 DEF StaleOnlyIfOverlapped
<1> QED BY <1>1, <1>2, <1>4, <1>5, <1>6, <1>7, <1>8

LEMMA IdleCall ==
  ASSUME CacheInv
  PROVE  /\ Idle \in Call
         /\ Idle.key \in Keys /\ Idle.ver = 0 /\ ~ Idle.old /\ Idle.deferred = "open"
<1>1. Idle.key \in Keys
  BY CacheAssumption DEF Idle
<1>2. 0 \in 0..version /\ 0 \in 0..done /\ 0 \in 0..MaxTime
  BY SizesType DEF CacheInv, CacheShape
<1> QED BY <1>1, <1>2 DEF Idle, Call, Pcs, Deferreds

(* A call that is in no flight stays out of it.                            *)
LEMMA FlightKept ==
  ASSUME CacheInv, NEW c \in Calls, NEW r \in Call,
         call' = [call EXCEPT ![c] = r], inflight' = inflight,
         call[c].pc \notin {"begin", "run", "cut"},
         r.pc \notin {"begin", "run"},
         r.pc \in {"idle", "join", "wait", "resolve"} => r.deferred = "open"
  PROVE  FlightInv'
<1>1. call'[c] = r /\ \A d \in Calls \ {c} : call'[d] = call[d]
  BY DEF CacheInv
<1>2. inflight \in [Keys -> Calls \cup {None}] /\ inflight' = inflight
  BY DEF CacheInv, CacheShape
<1>3. \A q \in Keys : inflight[q] # c
  BY <1>2, CacheAssumption DEF CacheInv, FlightInv
<1> QED BY <1>1, <1>2, <1>3 DEF CacheInv, FlightInv

(* A call ends: those that wait for it find what it computed.              *)
LEMMA CallOver ==
  ASSUME CacheInv, NEW c \in Calls, NEW r \in Call,
         call' = [call EXCEPT ![c] = r],
         UNCHANGED <<version, writer, now, done, tainted>>,
         inflight' \in [Keys -> Calls \cup {None}],
         MapOK(entries', version),
         \A e \in entries' : e.ver >= done \/ e.key \in tainted,
         FlightInv', r.pc \in {"end", "failed", "cut"}, r.old => r.overlap,
         r.deferred = "result" => /\ call[c].deferred = "result"
                                  /\ r.ver = call[c].ver
  PROVE  CacheInv'
<1>1. Fresh(r) /\ r.pc # "wait"
  BY DEF Fresh, Computing
<1>2. \A d \in Calls \ {c} : Joinable(r, call[d]) /\ Joinable(call[d], r)
  BY DEF Joinable, Computing
<1>3. \A d \in Calls \ {c} : call[d].leader = c => Awaited(r, call[d])
  <2> SUFFICES ASSUME NEW d \in Calls, call[d].leader = c, call[d].pc = "wait",
                      r.deferred = "result"
               PROVE  Serves(r, call[d])
    BY DEF Awaited, Computing
  <2> QED BY DEF CacheInv, JoinInv, Serves
<1> QED BY <1>1, <1>2, <1>3, CallStep

-----------------------------------------------------------------------------
(* The steps.                                                              *)

(* The call that misses begins with what the last invalidation noted.      *)
LEMMA MissedCall ==
  ASSUME CacheInv, NEW c \in Calls, NEW k \in Keys, call[c].pc = "idle",
         call' = [call EXCEPT ![c] = Missed(k)],
         UNCHANGED <<version, inflight, writer, now, done, tainted>>,
         entries' \subseteq entries
  PROVE  CacheInv'
<1> DEFINE r == Missed(k)
<1>1. /\ r \in Call
      /\ r.pc = "join" /\ r.key = k /\ r.since = done /\ r.overlap = (k \in tainted)
      /\ r.deferred = "open" /\ ~ r.old
  <2>1. done \in 0..done /\ now \in 0..MaxTime
    BY DEF CacheInv, CacheShape
  <2> DEFINE b == k \in tainted
  <2>2. b \in BOOLEAN
    OBVIOUS
  <2>3. r = [Idle EXCEPT !.pc = "join", !.key = k, !.t = now, !.since = done, !.overlap = b]
    BY Zenon DEF Missed
  <2>4. /\ r \in Call /\ r.pc = "join" /\ r.key = k /\ r.since = done /\ r.overlap = b
        /\ r.deferred = "open" /\ r.old = FALSE
    <3> HIDE DEF r, b
    <3> QED BY <2>1, <2>2, <2>3, IdleCall DEF Idle, Call, Pcs, Deferreds
  <2>5. /\ r \in Call /\ r.pc = "join" /\ r.key = k /\ r.since = done
        /\ r.deferred = "open" /\ ~ r.old
    <3> HIDE DEF r, b
    <3> QED BY <2>4
  <2> HIDE DEF r
  <2> QED BY <2>4, <2>5, Zenon
<1> HIDE DEF r
<1>2. FlightInv'
  <2>1. \A d \in Calls \ {c} : call'[d] = call[d]
    BY DEF CacheInv
  <2>2. call'[c] = r
    BY DEF CacheInv, r
  <2>3. inflight \in [Keys -> Calls \cup {None}] /\ inflight' = inflight
    BY DEF CacheInv, CacheShape
  <2>4. \A q \in Keys : inflight[q] # c
    BY <2>3, CacheAssumption DEF CacheInv, FlightInv
  <2> QED BY <1>1, <2>1, <2>2, <2>3, <2>4 DEF CacheInv, FlightInv
<1>3. \A d \in Calls : call[d] \in Call
  BY DEF CacheInv
<1>4. \A d \in Calls \ {c} : Joinable(r, call[d]) /\ Joinable(call[d], r)
  BY <1>1 DEF CacheInv, ComputedInv, Joinable, Serves, Computing
<1>5. \A d \in Calls \ {c} : call[d].leader = c => Awaited(r, call[d])
  BY <1>1 DEF Awaited, Computing
<1>6. MapOK(entries', version)
  BY PartOfMap DEF CacheInv, CacheShape
<1>7. \A e \in entries' : e.ver >= done \/ e.key \in tainted
  BY DEF CacheInv, StaleOnlyIfOverlapped
<1>8. inflight' \in [Keys -> Calls \cup {None}]
  BY DEF CacheInv, CacheShape
<1>9. Fresh(r) /\ (r.old => r.overlap) /\ r.pc # "wait"
  BY <1>1 DEF Fresh, Computing
<1>10. call' = [call EXCEPT ![c] = r]
  BY DEF r
<1> QED BY <1>1, <1>2, <1>4, <1>5, <1>6, <1>7, <1>8, <1>9, <1>10, CallStep

LEMMA HitStep ==
  ASSUME CacheInv, NEW c \in Calls, NEW k \in Keys, Begins(c), Hit(c, k),
         UNCHANGED <<version, inflight, writer, now, done, tainted>>
  PROVE  CacheInv'
<1> DEFINE v == EntryOf(k).ver
           b == k \in tainted
           o == v < done
           r == [Idle EXCEPT !.pc = "end", !.ver = v, !.overlap = b, !.old = o]
<1>1. version \in Nat /\ MapOK(entries, version) /\ done \in 0..version
  BY SizesType DEF CacheInv, CacheShape
<1>2. /\ EntryOf(k) \in entries /\ EntryOf(k).key = k
      /\ MapOK(entries', version)
  BY <1>1, Moved DEF Hit
<1>3. v \in 0..version /\ (v >= done \/ k \in tainted)
  BY <1>1, <1>2 DEF MapOK, CacheInv, StaleOnlyIfOverlapped
<1>4. o => b
  BY <1>1, <1>3
<1>5. b \in BOOLEAN /\ o \in BOOLEAN
  OBVIOUS
<1>6. r \in Call /\ r.pc = "end" /\ r.deferred = "open" /\ r.overlap = b /\ r.old = o
  <2> HIDE DEF v, b, o
  <2> QED BY <1>3, <1>5, IdleCall DEF Idle, Call, Pcs, Deferreds
<1>7. r.old => r.overlap
  <2> HIDE DEF r
  <2> QED BY <1>4, <1>6, Zenon
<1>8. call' = [call EXCEPT ![c] = r] /\ call[c].pc = "idle"
  BY Zenon DEF Hit, Begins
<1>9. \A e \in entries' : e.ver >= done \/ e.key \in tainted
  <2>1. \A e \in entries : e.ver >= done \/ e.key \in tainted
    BY DEF CacheInv, StaleOnlyIfOverlapped
  <2>2. Drop(entries, k) \subseteq entries
    BY DEF Drop
  <2> DEFINE y == YoungEnd(Drop(entries, k))
  <2>3. entries' = Drop(entries, k) \cup {[EntryOf(k) EXCEPT !.at = y]}
    BY DEF Hit
  <2>4. EntryOf(k) \in [key : Keys, ver : 0..version, expiresAt : TTL..(MaxTime + TTL), at : Nat]
    BY <1>1, <1>2 DEF MapOK
  <2>5. [EntryOf(k) EXCEPT !.at = y].ver = v /\ [EntryOf(k) EXCEPT !.at = y].key = k
    <3> HIDE DEF y
    <3> QED BY <1>2, <2>4
  <2> HIDE DEF y, v
  <2> QED BY <1>3, <2>1, <2>2, <2>3, <2>5
<1>10. FlightInv'
  <2> HIDE DEF r
  <2> QED BY <1>6, <1>8, FlightKept
<1>11. inflight' \in [Keys -> Calls \cup {None}]
  BY DEF CacheInv, CacheShape
<1> HIDE DEF r
<1> QED BY <1>2, <1>6, <1>7, <1>8, <1>9, <1>10, <1>11, CallOver

LEMMA LookupStep ==
  ASSUME CacheInv, NEW c \in Calls, NEW k \in Keys, Lookup(c, k)
  PROVE  CacheInv'
<1>1. UNCHANGED <<version, inflight, writer, now, done, tainted>> /\ Begins(c)
  BY DEF Lookup
<1>2. CASE Hit(c, k)
  BY <1>1, <1>2, HitStep
<1>3. CASE Expired(c, k) \/ Miss(c, k)
  <2>1. call' = [call EXCEPT ![c] = Missed(k)] /\ entries' \subseteq entries
    BY <1>3 DEF Expired, Miss, Drop
  <2> QED BY <1>1, <2>1, MissedCall DEF Begins
<1> QED BY <1>2, <1>3 DEF Lookup

(* The call takes the Deferred of a computation it may join, or becomes    *)
(* the leader of a new one.                                                *)
LEMMA JoinStep ==
  ASSUME CacheInv, NEW c \in Calls, Join(c)
  PROVE  CacheInv'
<1> DEFINE k == call[c].key
<1>1. /\ call[c] \in Call /\ call[c].pc = "join" /\ k \in Keys
      /\ UNCHANGED <<version, entries, writer, now, done, tainted>>
      /\ inflight \in [Keys -> Calls \cup {None}]
      /\ call \in [Calls -> Call]
  BY DEF CacheInv, CacheShape, Join, Call
<1>2. /\ MapOK(entries', version)
      /\ \A e \in entries' : e.ver >= done \/ e.key \in tainted
  BY <1>1 DEF CacheInv, CacheShape, StaleOnlyIfOverlapped
<1>3. call[c].deferred = "open" /\ (call[c].old => call[c].overlap)
  BY <1>1 DEF CacheInv, FlightInv, StaleOnlyIfOverlapped
<1>4. \A q \in Keys : inflight[q] # c
  BY <1>1, CacheAssumption DEF CacheInv, FlightInv
<1>5. CASE inflight[k] # None
  <2>1. PICK l : l = inflight[k]
    OBVIOUS
  <2>2. /\ l \in Calls /\ l # c
        /\ call[l].deferred = "open"
        /\ (call[l].pc \in {"begin", "run"} /\ call[l].key = k) \/ call[l].pc = "cut"
    BY <1>1, <1>4, <1>5, <2>1 DEF CacheInv, FlightInv
  <2> DEFINE r == [call[c] EXCEPT !.pc = "wait", !.leader = l]
  <2>3. call' = [call EXCEPT ![c] = r] /\ inflight' = inflight
    BY <1>1, <1>5, <2>1 DEF Join
  <2>4. /\ r \in Call /\ r.pc = "wait" /\ r.leader = l /\ r.deferred = "open"
        /\ r.since = call[c].since /\ r.overlap = call[c].overlap /\ r.old = call[c].old
    BY <1>1, <1>3, <2>2 DEF Call, Pcs
  <2> HIDE DEF r
  <2>5. FlightInv'
    BY <1>1, <2>3, <2>4, FlightKept
  <2>6. Awaited(call[l], r)
    <3>1. Joinable(call[l], call[c])
      BY <2>2 DEF CacheInv, JoinInv, Joinable, Serves
    <3> QED BY <1>1, <2>2, <2>4, <3>1 DEF Awaited, Joinable, Serves, Computing
  <2>7. Fresh(r) /\ (r.old => r.overlap)
    BY <1>3, <2>4 DEF Fresh, Computing
  <2>8. \A d \in Calls \ {c} : Joinable(r, call[d]) /\ Joinable(call[d], r)
    BY <2>4 DEF Joinable, Computing
  <2>9. \A d \in Calls \ {c} : call[d].leader = c => Awaited(r, call[d])
    BY <2>4 DEF Awaited, Computing
  <2>10. r.pc = "wait" => r.leader \in Calls \ {c} /\ Awaited(call[r.leader], r)
    BY <2>2, <2>4, <2>6
  <2> QED BY <1>1, <1>2, <2>3, <2>4, <2>5, <2>7, <2>8, <2>9, <2>10, CallStep
<1>6. CASE inflight[k] = None
  <2> DEFINE r == [call[c] EXCEPT !.pc = "begin"]
  <2>1. call' = [call EXCEPT ![c] = r] /\ inflight' = [inflight EXCEPT ![k] = c]
    BY <1>1, <1>6 DEF Join
  <2>2. /\ r \in Call /\ r.pc = "begin" /\ r.deferred = "open" /\ r.key = k
        /\ r.overlap = call[c].overlap /\ r.old = call[c].old
    BY <1>1, <1>3 DEF Call, Pcs
  <2> HIDE DEF r
  <2>3. call'[c] = r /\ \A d \in Calls \ {c} : call'[d] = call[d]
    BY <1>1, <2>1
  <2>4. inflight'[k] = c /\ \A q \in Keys \ {k} : inflight'[q] = inflight[q]
    BY <1>1, <2>1
  <2>5. FlightInv'
    <3>1. ASSUME NEW q \in Keys, inflight'[q] # None
          PROVE  LET l == call'[inflight'[q]]
                 IN  /\ l.deferred = "open"
                     /\ (l.pc \in {"begin", "run"} /\ l.key = q) \/ l.pc = "cut"
      <4>1. CASE q = k
        BY <2>2, <2>3, <2>4, <4>1
      <4>2. CASE q # k
        BY <1>1, <1>4, <2>3, <2>4, <3>1, <4>2 DEF CacheInv, FlightInv
      <4> QED BY <4>1, <4>2
    <3>2. \A d \in Calls : call'[d].pc \in {"begin", "run"} => inflight'[call'[d].key] = d
      <4>1. \A d \in Calls \ {c} : call[d].pc \in {"begin", "run"} =>
               call[d].key \in Keys \ {k} /\ inflight[call[d].key] = d
        BY <1>1, <1>6, CacheAssumption DEF CacheInv, FlightInv, Call
      <4> QED BY <2>2, <2>3, <2>4, <4>1
    <3>3. \A d \in Calls :
            call'[d].pc \in {"idle", "join", "wait", "begin", "run", "resolve"}
              => call'[d].deferred = "open"
      BY <2>2, <2>3 DEF CacheInv, FlightInv
    <3> QED BY <3>1, <3>2, <3>3 DEF FlightInv
  <2>6. inflight' \in [Keys -> Calls \cup {None}]
    BY <1>1, <2>1
  <2>7. Fresh(r) /\ (r.old => r.overlap) /\ r.pc # "wait"
    BY <1>3, <2>2 DEF Fresh, Computing
  <2>8. \A d \in Calls \ {c} : Joinable(r, call[d]) /\ Joinable(call[d], r)
    BY <2>2 DEF Joinable, Computing
  <2>9. \A d \in Calls \ {c} : call[d].leader = c => Awaited(r, call[d])
    BY <2>2 DEF Awaited, Computing
  <2> QED BY <1>1, <1>2, <2>1, <2>2, <2>5, <2>6, <2>7, <2>8, <2>9, CallStep
<1> QED BY <1>5, <1>6

(* What a step of a call that leaves the map alone finds in it.            *)
LEMMA MapKept ==
  ASSUME CacheInv, UNCHANGED <<version, entries, done, tainted>>
  PROVE  /\ MapOK(entries', version)
         /\ \A e \in entries' : e.ver >= done \/ e.key \in tainted
BY DEF CacheInv, CacheShape, StaleOnlyIfOverlapped

LEMMA ComputeStep ==
  ASSUME CacheInv, NEW c \in Calls, Compute(c)
  PROVE  CacheInv'
<1> DEFINE r == [call[c] EXCEPT !.pc = "run", !.ver = version]
<1>1. /\ call[c] \in Call /\ call[c].pc = "begin" /\ call \in [Calls -> Call]
      /\ UNCHANGED <<version, entries, inflight, writer, now, done, tainted>>
      /\ inflight \in [Keys -> Calls \cup {None}]
      /\ version \in Nat /\ done \in 0..version
  BY SizesType DEF CacheInv, CacheShape, Compute
<1>2. call' = [call EXCEPT ![c] = r]
  BY <1>1 DEF Compute
<1>3. call[c].deferred = "open" /\ (call[c].old => call[c].overlap)
  BY <1>1 DEF CacheInv, FlightInv, StaleOnlyIfOverlapped
<1>4. version \in 0..version
  BY <1>1
<1>5. /\ r \in Call /\ r.pc = "run" /\ r.ver = version /\ r.key = call[c].key
      /\ r.deferred = "open" /\ r.since = call[c].since
      /\ r.overlap = call[c].overlap /\ r.old = call[c].old
  BY <1>1, <1>3, <1>4 DEF Call, Pcs
<1> HIDE DEF r
<1>6. call'[c] = r /\ \A d \in Calls \ {c} : call'[d] = call[d]
  BY <1>1, <1>2
<1>7. \A d \in Calls : version >= call[d].since
  BY <1>1 DEF Call
<1>8. FlightInv'
  <2>1. FlightInv
    BY DEF CacheInv
  <2>2. ASSUME NEW k \in Keys, inflight[k] # None
        PROVE  LET l == call'[inflight[k]]
               IN  l.deferred = "open" /\ ((l.pc \in {"begin", "run"} /\ l.key = k) \/ l.pc = "cut")
    <3>1. inflight[k] \in Calls
      BY <1>1, <2>2
    <3>2. CASE inflight[k] = c
      <4>1. call[c].key = k
        BY <1>1, <2>1, <2>2, <3>2 DEF FlightInv
      <4> QED BY <1>5, <1>6, <3>2, <4>1
    <3>3. CASE inflight[k] # c
      BY <1>6, <2>1, <2>2, <3>1, <3>3 DEF FlightInv
    <3> QED BY <3>2, <3>3
  <2>3. \A d \in Calls : call'[d].pc \in {"begin", "run"} => inflight[call'[d].key] = d
    BY <1>1, <1>5, <1>6, <2>1 DEF FlightInv
  <2>4. \A d \in Calls : call'[d].pc \in {"idle", "join", "wait", "begin", "run", "resolve"}
                           => call'[d].deferred = "open"
    BY <1>5, <1>6, <2>1 DEF FlightInv
  <2> QED BY <1>1, <2>2, <2>3, <2>4 DEF FlightInv
<1>9. Fresh(r) /\ (r.old => r.overlap) /\ r.pc # "wait"
  BY <1>1, <1>3, <1>5, <1>7 DEF Fresh
<1>10. \A d \in Calls \ {c} : Joinable(r, call[d]) /\ Joinable(call[d], r)
  BY <1>5, <1>7 DEF Joinable, Serves
<1>11. \A d \in Calls \ {c} : call[d].leader = c => Awaited(r, call[d])
  BY <1>5, <1>7 DEF Awaited, Serves
<1> QED BY <1>1, <1>2, <1>5, <1>8, <1>9, <1>10, <1>11, CallStep, MapKept

(* The key leaves the map of flights with its leader.                      *)
LEMMA FlightOver ==
  ASSUME CacheInv, NEW c \in Calls, NEW r \in Call,
         call' = [call EXCEPT ![c] = r],
         inflight' = [inflight EXCEPT ![call[c].key] = None],
         call[c].pc \in {"begin", "run"},
         r.pc \notin {"begin", "run"},
         r.pc \in {"idle", "join", "wait", "resolve"} => r.deferred = "open"
  PROVE  FlightInv' /\ inflight' \in [Keys -> Calls \cup {None}]
<1> DEFINE k == call[c].key
<1>1. call'[c] = r /\ \A d \in Calls \ {c} : call'[d] = call[d]
  BY DEF CacheInv
<1>2. /\ inflight \in [Keys -> Calls \cup {None}] /\ k \in Keys /\ inflight[k] = c
      /\ \A d \in Calls : call[d].key \in Keys
  BY DEF CacheInv, CacheShape, FlightInv, Call
<1>3. inflight'[k] = None /\ \A q \in Keys \ {k} : inflight'[q] = inflight[q]
  BY <1>2
<1>4. \A q \in Keys \ {k} : inflight[q] # c
  BY <1>2, CacheAssumption DEF CacheInv, FlightInv
<1>5. ASSUME NEW q \in Keys, inflight'[q] # None
      PROVE  LET l == call'[inflight'[q]]
             IN  /\ l.deferred = "open"
                 /\ (l.pc \in {"begin", "run"} /\ l.key = q) \/ l.pc = "cut"
  BY <1>1, <1>2, <1>3, <1>4, <1>5 DEF CacheInv, FlightInv
<1>6. \A d \in Calls : call'[d].pc \in {"begin", "run"} => inflight'[call'[d].key] = d
  <2>1. \A d \in Calls \ {c} : call[d].pc \in {"begin", "run"} =>
           call[d].key \in Keys \ {k} /\ inflight[call[d].key] = d
    BY <1>2 DEF CacheInv, FlightInv
  <2> QED BY <1>1, <1>3, <2>1
<1>7. \A d \in Calls :
        call'[d].pc \in {"idle", "join", "wait", "begin", "run", "resolve"}
          => call'[d].deferred = "open"
  BY <1>1 DEF CacheInv, FlightInv
<1>8. inflight' \in [Keys -> Calls \cup {None}]
  BY <1>2
<1> QED BY <1>5, <1>6, <1>7, <1>8 DEF FlightInv

(* A computation that goes on with the same version of the files.          *)
LEMMA ComputingGoesOn ==
  ASSUME CacheInv, NEW c \in Calls, NEW r \in Call,
         call' = [call EXCEPT ![c] = r],
         UNCHANGED <<version, entries, writer, now, done, tainted>>,
         inflight' \in [Keys -> Calls \cup {None}], FlightInv',
         call[c].pc \in Computing, r.pc \in Computing,
         r.key = call[c].key, r.ver = call[c].ver, r.since = call[c].since,
         r.overlap = call[c].overlap, r.old = call[c].old
  PROVE  CacheInv'
<1>1. Fresh(r) /\ (r.old => r.overlap) /\ r.pc # "wait"
  BY DEF CacheInv, ComputedInv, StaleOnlyIfOverlapped, Fresh, Computing
<1>2. \A d \in Calls \ {c} : Joinable(r, call[d]) /\ Joinable(call[d], r)
  BY DEF CacheInv, JoinInv, Joinable, Serves, Computing
<1>3. \A d \in Calls \ {c} : call[d].leader = c => Awaited(r, call[d])
  <2> SUFFICES ASSUME NEW d \in Calls \ {c}, call[d].leader = c, call[d].pc = "wait"
               PROVE  Serves(r, call[d])
    BY DEF Awaited
  <2> QED BY DEF CacheInv, JoinInv, Serves
<1> QED BY <1>1, <1>2, <1>3, CallStep, MapKept

LEMMA ComputeEndsStep ==
  ASSUME CacheInv, NEW c \in Calls, ComputeEnds(c)
  PROVE  CacheInv'
<1>1. /\ call[c] \in Call /\ call[c].pc = "run" /\ call \in [Calls -> Call]
      /\ UNCHANGED <<version, entries, writer, now, done, tainted>>
      /\ inflight' = [inflight EXCEPT ![call[c].key] = None]
  BY DEF CacheInv, ComputeEnds
<1>2. PICK ok \in BOOLEAN : call' = [call EXCEPT ![c].pc = "resolve", ![c].ok = ok]
  BY DEF ComputeEnds
<1> DEFINE r == [call[c] EXCEPT !.pc = "resolve", !.ok = ok]
<1>3. call' = [call EXCEPT ![c] = r]
  BY <1>1, <1>2
<1>4. call[c].deferred = "open"
  BY <1>1 DEF CacheInv, FlightInv
<1>5. /\ r \in Call /\ r.pc = "resolve" /\ r.ver = call[c].ver /\ r.key = call[c].key
      /\ r.deferred = "open" /\ r.since = call[c].since
      /\ r.overlap = call[c].overlap /\ r.old = call[c].old
  BY <1>1, <1>4 DEF Call, Pcs
<1> HIDE DEF r
<1>6. FlightInv' /\ inflight' \in [Keys -> Calls \cup {None}]
  BY <1>1, <1>3, <1>5, FlightOver
<1> QED BY <1>1, <1>3, <1>5, <1>6, ComputingGoesOn DEF Computing

(* A call that fails leaves a Deferred without a result.                   *)
LEMMA CallFails ==
  ASSUME CacheInv, NEW c \in Calls, NEW deferred \in {"open", "failed"},
         call[c].pc \notin {"begin", "run", "cut"},
         call' = Fails(c, deferred),
         UNCHANGED <<version, entries, inflight, writer, now, done, tainted>>
  PROVE  CacheInv'
<1> DEFINE r == [Idle EXCEPT !.pc = "failed", !.deferred = deferred]
<1>1. call' = [call EXCEPT ![c] = r]
  BY DEF Fails
<1>2. /\ r \in Call /\ r.pc = "failed" /\ r.deferred = deferred /\ ~ r.old
  BY IdleCall DEF Idle, Call, Pcs, Deferreds
<1> HIDE DEF r
<1>3. FlightInv'
  BY <1>1, <1>2, FlightKept
<1>4. inflight' \in [Keys -> Calls \cup {None}]
  BY DEF CacheInv, CacheShape
<1> QED BY <1>1, <1>2, <1>3, <1>4, CallOver, MapKept

LEMMA ResolveStep ==
  ASSUME CacheInv, NEW c \in Calls, Resolve(c)
  PROVE  CacheInv'
<1>1. /\ call[c] \in Call /\ call[c].pc = "resolve" /\ call \in [Calls -> Call]
      /\ UNCHANGED <<version, entries, inflight, writer, now, done, tainted>>
      /\ inflight' \in [Keys -> Calls \cup {None}]
  BY DEF CacheInv, CacheShape, Resolve
<1>2. CASE call[c].ok
  <2> DEFINE r == [call[c] EXCEPT !.deferred = "result", !.pc = "store"]
  <2>1. call' = [call EXCEPT ![c] = r]
    BY <1>1, <1>2 DEF Resolve
  <2>2. /\ r \in Call /\ r.pc = "store" /\ r.ver = call[c].ver /\ r.key = call[c].key
        /\ r.since = call[c].since /\ r.overlap = call[c].overlap /\ r.old = call[c].old
    BY <1>1 DEF Call, Pcs, Deferreds
  <2> HIDE DEF r
  <2>3. FlightInv'
    BY <1>1, <2>1, <2>2, FlightKept
  <2> QED BY <1>1, <2>1, <2>2, <2>3, ComputingGoesOn DEF Computing
<1>3. CASE ~ call[c].ok
  <2>1. call' = Fails(c, "failed")
    BY <1>3 DEF Resolve
  <2> QED BY <1>1, <2>1, CallFails
<1> QED BY <1>2, <1>3

(* A call returns a result that serves it.                                 *)
LEMMA CallEnds ==
  ASSUME CacheInv, NEW c \in Calls, NEW v \in 0..version,
         call[c].pc \in {"wait", "store"},
         call' = Ends(c, v),
         v >= call[c].since \/ call[c].overlap,
         call[c].pc = "store" => v = call[c].ver,
         UNCHANGED <<version, inflight, writer, now, done, tainted>>,
         MapOK(entries', version),
         \A e \in entries' : e.ver >= done \/ e.key \in tainted
  PROVE  CacheInv'
<1> DEFINE df == call[c].deferred
           ov == call[c].overlap
           o == v < call[c].since
           r == [Idle EXCEPT !.pc = "end", !.ver = v, !.deferred = df,
                             !.overlap = ov, !.old = o]
<1>1. df \in Deferreds /\ ov \in BOOLEAN /\ o \in BOOLEAN
  BY DEF CacheInv, Call
<1>2. call' = [call EXCEPT ![c] = r]
  BY Zenon DEF Ends
<1>3. /\ r \in Call /\ r.pc = "end" /\ r.ver = v /\ r.deferred = df
      /\ r.overlap = ov /\ r.old = o
  <2> HIDE DEF df, ov, o
  <2> QED BY <1>1, IdleCall DEF Idle, Call, Pcs
<1>4. o => ov
  BY DEF CacheInv, Call
<1> HIDE DEF r
<1>5. r.old => r.overlap
  BY <1>3, <1>4, Zenon
<1>6. FlightInv'
  BY <1>2, <1>3, FlightKept
<1>7. r.deferred = "result" => call[c].deferred = "result" /\ r.ver = call[c].ver
  BY <1>1, <1>3 DEF CacheInv, FlightInv
<1>8. inflight' \in [Keys -> Calls \cup {None}]
  BY DEF CacheInv, CacheShape
<1> QED BY <1>2, <1>3, <1>5, <1>6, <1>7, <1>8, CallOver

LEMMA StoreStep ==
  ASSUME CacheInv, NEW c \in Calls, Store(c)
  PROVE  CacheInv'
<1>1. PICK k, v, t : k = call[c].key /\ v = call[c].ver /\ t = call[c].t
  OBVIOUS
<1>2. /\ k \in Keys /\ v \in 0..version /\ t \in 0..MaxTime
      /\ call[c].pc = "store" /\ version \in Nat /\ done \in Nat
      /\ UNCHANGED <<version, inflight, writer, now, done, tainted>>
      /\ call' = Ends(c, v)
  BY <1>1, SizesType DEF CacheInv, CacheShape, Call, Store
<1>3. v >= call[c].since /\ (v >= done \/ k \in tainted)
  BY <1>1, <1>2 DEF CacheInv, ComputedInv, Computing
<1>4. MapOK(entries, version) /\ \A e \in entries : e.ver >= done \/ e.key \in tainted
  BY DEF CacheInv, CacheShape, StaleOnlyIfOverlapped
<1>5. /\ MapOK(entries', version)
      /\ \A e \in entries' : e.ver >= done \/ e.key \in tainted
  <2>1. CASE Size[k][v] <= MaxEntrySize
    <3> DEFINE m == Evicted(t)
               x == t + TTL
    <3>1. entries' = Put(m, k, v, x)
      BY <1>1, <2>1 DEF Store
    <3>2. m \subseteq entries /\ Cardinality(m) < MaxEntries
      BY <1>4, EvictionMakesRoom DEF MapOK
    <3>3. MapOK(m, version)
      BY <1>4, <3>2, PartOfMap
    <3>4. x \in TTL..(MaxTime + TTL)
      BY <1>2, SizesType
    <3> HIDE DEF m, x
    <3>5. /\ MapOK(Put(m, k, v, x), version)
          /\ \A e \in Put(m, k, v, x) : e \in m \/ (e.key = k /\ e.ver = v)
      BY <1>2, <2>1, <3>2, <3>3, <3>4, PutInMap
    <3> QED BY <1>3, <1>4, <3>1, <3>2, <3>5
  <2>2. CASE ~ (Size[k][v] <= MaxEntrySize)
    BY <1>1, <1>4, <2>2 DEF Store
  <2> QED BY <2>1, <2>2
<1> QED BY <1>1, <1>2, <1>3, <1>5, CallEnds

LEMMA AnsweredStep ==
  ASSUME CacheInv, NEW c \in Calls, Answered(c)
  PROVE  CacheInv'
<1>1. PICK l : l = call[c].leader
  OBVIOUS
<1>2. /\ call[c].pc = "wait" /\ l \in Calls
      /\ UNCHANGED <<version, entries, inflight, writer, now, done, tainted>>
  BY <1>1 DEF CacheInv, JoinInv, Answered
<1>3. CASE call[l].deferred = "result" /\ call' = Ends(c, call[l].ver)
  <2>1. call[l].ver \in 0..version
    BY <1>2 DEF CacheInv, Call
  <2>2. call[l].ver >= call[c].since \/ call[c].overlap
    BY <1>1, <1>2, <1>3 DEF CacheInv, JoinInv
  <2> QED BY <1>2, <1>3, <2>1, <2>2, CallEnds, MapKept
<1>4. CASE call' = Fails(c, "open")
  BY <1>2, <1>4, CallFails
<1> QED BY <1>1, <1>3, <1>4 DEF Answered

(* The interrupted call may stay in the map of flights only where its      *)
(* Deferred is open and nothing will ever complete it.                     *)
LEMMA InterruptStep ==
  ASSUME CacheInv, NEW c \in Calls, Interrupt(c)
  PROVE  CacheInv'
<1>1. /\ call[c] \in Call /\ call \in [Calls -> Call]
      /\ call[c].pc \in {"wait", "begin"} \cup Computing
      /\ inflight \in [Keys -> Calls \cup {None}]
      /\ UNCHANGED <<version, entries, writer, now, done, tainted>>
  BY DEF CacheInv, CacheShape, Interrupt
<1>2. PICK df : /\ df \in IF call[c].pc = "run" THEN {"open", "failed"}
                          ELSE {call[c].deferred}
                /\ call' = [call EXCEPT ![c] = [Idle EXCEPT !.pc = "cut",
                                !.ver = call[c].ver, !.deferred = df]]
  BY DEF Interrupt
<1>3. df \in Deferreds /\ (df = "result" => call[c].deferred = "result")
  BY <1>1, <1>2 DEF Call, Deferreds
<1> DEFINE r == [Idle EXCEPT !.pc = "cut", !.ver = call[c].ver, !.deferred = df]
<1>4. /\ r \in Call /\ r.pc = "cut" /\ r.ver = call[c].ver /\ r.deferred = df /\ ~ r.old
  BY <1>1, <1>3, IdleCall DEF Idle, Call, Pcs
<1>5. call' = [call EXCEPT ![c] = r]
  BY <1>2
<1> HIDE DEF r
<1>6. FlightInv' /\ inflight' \in [Keys -> Calls \cup {None}]
  <2>1. CASE /\ call[c].pc \in {"begin", "run"}
             /\ inflight' = [inflight EXCEPT ![call[c].key] = None]
    BY <1>4, <1>5, <2>1, FlightOver
  <2>2. CASE call[c].pc # "run" /\ inflight' = inflight
    <3>1. CASE call[c].pc = "begin"
      <4>1. call'[c] = r /\ \A d \in Calls \ {c} : call'[d] = call[d]
        BY <1>1, <1>5
      <4>2. df = "open"
        BY <1>2, <3>1 DEF CacheInv, FlightInv
      <4> QED BY <1>1, <1>4, <2>2, <4>1, <4>2 DEF CacheInv, FlightInv
    <3>2. CASE call[c].pc # "begin"
      BY <1>1, <1>4, <1>5, <2>2, <3>2, FlightKept DEF Computing
    <3> QED BY <3>1, <3>2
  <2> QED BY <2>1, <2>2 DEF Interrupt
<1> QED BY <1>1, <1>3, <1>4, <1>5, <1>6, CallOver, MapKept

(* A write tool makes a newer version; nothing that is held gets newer.    *)
LEMMA WriteStep ==
  ASSUME CacheInv, NEW w \in Writers, Write(w)
  PROVE  CacheInv'
<1>1. /\ version \in Nat /\ version <= Cardinality(Writers) /\ done \in 0..version
      /\ writer \in [Writers -> {"idle", "wrote", "done"}]
      /\ writer[w] = "idle" /\ writer' = [writer EXCEPT ![w] = "wrote"]
      /\ version' = version + 1
      /\ UNCHANGED <<entries, bytes, inflight, call, now, done, tainted>>
  BY SizesType DEF CacheInv, CacheShape, Write
<1>2. VersionInv'
  <2> DEFINE W == {x \in Writers : writer[x] # "idle"}
  <2>1. {x \in Writers : writer'[x] # "idle"} = W \cup {w}
    BY <1>1
  <2>2. IsFiniteSet(W) /\ w \notin W
    BY <1>1, CacheAssumption, FS_Subset
  <2>3. Cardinality(W \cup {w}) = Cardinality(W) + 1
    BY <2>2, FS_AddElement
  <2>4. version = Cardinality(W)
    BY DEF CacheInv, VersionInv
  <2> QED BY <1>1, <2>1, <2>3, <2>4 DEF VersionInv
<1>3. version' \in 0..Cardinality(Writers)
  <2>1. version' = Cardinality({x \in Writers : writer'[x] # "idle"})
    BY <1>2 DEF VersionInv
  <2>2. Cardinality({x \in Writers : writer'[x] # "idle"}) <= Cardinality(Writers)
    BY CacheAssumption, FS_Subset
  <2> QED BY <1>1, <2>1, <2>2, SizesType
<1>4. MapOK(entries', version')
  <2>1. MapOK(entries, version + 1)
    BY <1>1, NewerMap DEF CacheInv, CacheShape
  <2> QED BY <1>1, <2>1
<1>5. CacheShape'
  <2>1. writer' \in [Writers -> {"idle", "wrote", "done"}]
    BY <1>1
  <2>2. done' \in 0..version'
    BY <1>1
  <2> QED BY <1>1, <1>3, <1>4, <2>1, <2>2 DEF CacheInv, CacheShape
<1>6. call' \in [Calls -> Call']
  <2>1. Call \subseteq Call'
    BY <1>1 DEF Call
  <2> QED BY <1>1, <2>1 DEF CacheInv
<1> QED BY <1>1, <1>2, <1>5, <1>6
        DEF CacheInv, FlightInv, ComputedInv, JoinInv, StaleOnlyIfOverlapped

(* The last invalidation is now this one, and it notes the computations    *)
(* that are behind.                                                        *)
LEMMA InvalidateStep ==
  ASSUME CacheInv, NEW w \in Writers, Invalidate(w)
  PROVE  CacheInv'
<1>1. /\ version \in Nat /\ done \in 0..version
      /\ writer \in [Writers -> {"idle", "wrote", "done"}]
      /\ writer[w] = "wrote" /\ writer' = [writer EXCEPT ![w] = "done"]
      /\ entries' = {} /\ done' = version /\ tainted' = Behind
      /\ UNCHANGED <<version, inflight, call, now>>
  BY SizesType DEF CacheInv, CacheShape, Invalidate
<1>2. VersionInv'
  <2>1. {x \in Writers : writer'[x] # "idle"} = {x \in Writers : writer[x] # "idle"}
    BY <1>1
  <2> QED BY <1>1, <2>1 DEF CacheInv, VersionInv
<1>3. \A d \in Calls : call[d].key \in Keys /\ call[d].ver \in 0..version
  BY DEF CacheInv, Call
<1>4. MapOK(entries', version')
  BY <1>1, FS_EmptySet, SizesType DEF MapOK
<1>5. CacheShape'
  <2>1. writer' \in [Writers -> {"idle", "wrote", "done"}]
    BY <1>1
  <2>2. done' \in 0..version' /\ tainted' \subseteq Keys
    BY <1>1, <1>3 DEF Behind
  <2> QED BY <1>1, <1>4, <2>1, <2>2 DEF CacheInv, CacheShape
<1>6. call' \in [Calls -> Call']
  <2>1. Call \subseteq Call'
    BY <1>1 DEF Call
  <2> QED BY <1>1, <2>1 DEF CacheInv
<1>7. ComputedInv'
  <2> SUFFICES ASSUME NEW d \in Calls, call[d].pc \in Computing
               PROVE  call[d].ver >= version \/ call[d].key \in Behind
    BY <1>1 DEF CacheInv, ComputedInv
  <2>1. CASE call[d].ver < version
    BY <2>1 DEF Behind
  <2> QED BY <1>1, <1>3, <2>1
<1> QED BY <1>1, <1>2, <1>5, <1>6, <1>7
        DEF CacheInv, FlightInv, JoinInv, StaleOnlyIfOverlapped

LEMMA InvalidateKeyStep ==
  ASSUME CacheInv, NEW k \in Keys, InvalidateKey(k)
  PROVE  CacheInv'
<1>1. /\ UNCHANGED <<version, inflight, call, writer, now, done, tainted>>
      /\ entries' \subseteq entries
  BY DEF InvalidateKey, Drop
<1>2. MapOK(entries', version)
  BY <1>1, PartOfMap DEF CacheInv, CacheShape
<1>3. Call' = Call
  BY <1>1 DEF Call
<1> QED BY <1>1, <1>2, <1>3
        DEF CacheInv, CacheShape, VersionInv, FlightInv, ComputedInv, JoinInv,
            StaleOnlyIfOverlapped

(* Time passes, or nothing happens.                                        *)
LEMMA TimeStep ==
  ASSUME CacheInv, now' \in 0..MaxTime,
         UNCHANGED <<version, entries, inflight, call, writer, done, tainted>>
  PROVE  CacheInv'
<1>1. Call' = Call
  BY DEF Call
<1> QED BY <1>1 DEF CacheInv, CacheShape, VersionInv, FlightInv, ComputedInv, JoinInv,
                    StaleOnlyIfOverlapped

LEMMA CacheInit ==
  ASSUME Init
  PROVE  CacheInv
<1> USE DEF Init
<1>1. MapOK(entries, version)
  BY FS_EmptySet, SizesType DEF MapOK
<1>2. CacheShape
  <2>1. \A c \in Calls : call[c].pc = "idle"
    BY DEF Idle
  <2> QED BY <1>1, <2>1, SizesType, CacheAssumption DEF CacheShape
<1>3. Idle \in Call
  <2>1. Idle.key \in Keys
    BY CacheAssumption DEF Idle
  <2>2. 0 \in 0..version /\ 0 \in 0..done /\ 0 \in 0..MaxTime
    BY SizesType
  <2> QED BY <2>1, <2>2 DEF Idle, Call, Pcs, Deferreds
<1>4. VersionInv
  <2>1. {w \in Writers : writer[w] # "idle"} = {}
    OBVIOUS
  <2> QED BY <2>1, FS_EmptySet DEF VersionInv
<1>5. \A c \in Calls : call[c] = Idle
  OBVIOUS
<1>6. /\ Idle.pc = "idle" /\ Idle.deferred = "open" /\ ~ Idle.old
  BY DEF Idle
<1>7. FlightInv /\ ComputedInv /\ JoinInv /\ StaleOnlyIfOverlapped
  <2> HIDE DEF Init
  <2>1. inflight = [k \in Keys |-> None] /\ entries = {}
    BY DEF Init
  <2> QED BY <1>5, <1>6, <2>1
          DEF FlightInv, ComputedInv, JoinInv, StaleOnlyIfOverlapped, Computing
<1> QED BY <1>2, <1>3, <1>4, <1>7 DEF CacheInv

LEMMA CacheNext ==
  ASSUME CacheInv, [Next]_vars
  PROVE  CacheInv'
<1>1. ASSUME NEW c \in Calls, Runs(c) PROVE CacheInv'
  BY <1>1, JoinStep, ComputeStep, ComputeEndsStep, ResolveStep, StoreStep, AnsweredStep
     DEF Runs
<1>2. ASSUME NEW c \in Calls, Interrupt(c) PROVE CacheInv'
  BY <1>2, InterruptStep
<1>3. ASSUME NEW c \in Calls, NEW k \in Keys, Lookup(c, k) PROVE CacheInv'
  BY <1>3, LookupStep
<1>4. ASSUME NEW w \in Writers, Write(w) \/ Invalidate(w) PROVE CacheInv'
  BY <1>4, WriteStep, InvalidateStep
<1>5. ASSUME NEW k \in Keys, InvalidateKey(k) PROVE CacheInv'
  BY <1>5, InvalidateKeyStep
<1>6. CASE Tick
  <2>1. now' \in 0..MaxTime
    BY <1>6, SizesType DEF Tick, CacheInv, CacheShape
  <2> QED BY <1>6, <2>1, TimeStep DEF Tick
<1>7. CASE UNCHANGED vars
  <2>1. now' \in 0..MaxTime
    BY <1>7 DEF vars, CacheInv, CacheShape
  <2> QED BY <1>7, <2>1, TimeStep DEF vars
<1> QED BY <1>1, <1>2, <1>3, <1>4, <1>5, <1>6, <1>7 DEF Next

(* The lookup subtracts what recalcBytes would no longer count, and the    *)
(* others recompute.                                                       *)
LEMMA BytesNext ==
  ASSUME CacheInv, bytes = Bytes(entries), [Next]_vars
  PROVE  bytes' = Bytes(entries')
<1>1. ASSUME NEW c \in Calls, Runs(c) PROVE bytes' = Bytes(entries')
  <2>1. CASE Store(c)
    BY <2>1 DEF Store
  <2> QED BY <1>1, <2>1 DEF Runs, Join, Compute, ComputeEnds, Resolve, Answered
<1>2. ASSUME NEW c \in Calls, Interrupt(c) PROVE bytes' = Bytes(entries')
  BY <1>2 DEF Interrupt
<1>3. ASSUME NEW c \in Calls, NEW k \in Keys, Lookup(c, k) PROVE bytes' = Bytes(entries')
  <2>1. CASE Hit(c, k)
    BY <2>1, BytesDropped DEF Hit
  <2>2. CASE Expired(c, k)
    BY <2>2, BytesDropped DEF Expired
  <2>3. CASE Miss(c, k)
    BY <2>3 DEF Miss
  <2> QED BY <1>3, <2>1, <2>2, <2>3 DEF Lookup
<1>4. ASSUME NEW w \in Writers, Write(w) \/ Invalidate(w) PROVE bytes' = Bytes(entries')
  <2>1. CASE Write(w)
    BY <2>1 DEF Write
  <2>2. CASE Invalidate(w)
    <3>1. Bytes({}) = 0
      BY BytesFirst, FS_EmptySet
    <3> QED BY <2>2, <3>1 DEF Invalidate
  <2> QED BY <1>4, <2>1, <2>2
<1>5. ASSUME NEW k \in Keys, InvalidateKey(k) PROVE bytes' = Bytes(entries')
  BY <1>5 DEF InvalidateKey
<1>6. CASE Tick \/ UNCHANGED vars
  BY <1>6 DEF Tick, vars
<1> QED BY <1>1, <1>2, <1>3, <1>4, <1>5, <1>6 DEF Next

-----------------------------------------------------------------------------
(* The theorems.                                                           *)

(* CacheInv holds of every behaviour of getOrCompute, invalidate and the   *)
(* tools' timeouts.                                                        *)
THEOREM CacheInvariant == Spec => []CacheInv
<1>1. Init => CacheInv
  BY CacheInit
<1>2. CacheInv /\ [Next]_vars => CacheInv'
  BY CacheNext
<1> QED BY <1>1, <1>2, PTL DEF Spec

(* The map never has a key twice, more than maxEntries entries or one that *)
(* is larger than maxEntrySize, and getOrCompute never has two             *)
(* computations of one key under way.                                      *)
THEOREM CacheKeepsShape == Spec => []CacheShape
<1>1. CacheInv => CacheShape
  BY DEF CacheInv
<1> QED BY <1>1, CacheInvariant, PTL

(* And estimatedBytes is the sum of the sizes of the entries: subtracting  *)
(* an expired entry's size (cache.ts, getOrCompute) never leaves it off    *)
(* from what recalcBytes would find.                                       *)
THEOREM CacheTypeOK == Spec => []TypeOK
<1> DEFINE Inv == CacheInv /\ bytes = Bytes(entries)
<1>1. Init => Inv
  <2>1. Bytes({}) = 0
    BY BytesFirst, FS_EmptySet
  <2> QED BY <2>1, CacheInit DEF Init
<1>2. Inv /\ [Next]_vars => Inv'
  BY CacheNext, BytesNext
<1>3. Inv => TypeOK
  BY DEF CacheInv, TypeOK
<1> HIDE DEF Inv
<1> QED BY <1>1, <1>2, <1>3, PTL DEF Spec

(* The cache and its answers are older than the last finished write only   *)
(* for a key whose computation overlapped that write: invalidate           *)
(* (cache.ts:220) misses nothing but what is in flight.                    *)
THEOREM StaleOverlapped == Spec => []StaleOnlyIfOverlapped
<1>1. CacheInv => StaleOnlyIfOverlapped
  BY DEF CacheInv
<1> QED BY <1>1, CacheInvariant, PTL
=============================================================================
