--------------------------- MODULE DagStore_proofs ---------------------------
(***************************************************************************)
(* What a device's version graph keeps, for every number of versions and   *)
(* of failures: TypeOK, and, where the excuses of the hypotheses are out   *)
(* of play, NamedHistoryIsKnown and BasesKept.                             *)
(***************************************************************************)
EXTENDS DagStore, FiniteSetTheorems, NaturalsInduction, TLAPS

----------------------------------------------------------------------------
(* Walks.  WalkUp(G, S) is the least set that holds S and is closed under  *)
(* the parents that G knows.                                               *)

LEMMA LeastNat ==
  ASSUME NEW N \in SUBSET Nat, N # {}
  PROVE  \E n \in N : \A m \in N : n <= m
<1>1. PICK n \in N : \A m \in N : ~ (<<m, n>> \in OpToRel(<, Nat))
  BY NatLessThanWellFounded, WFMin
<1>2. ASSUME NEW m \in N PROVE n <= m
  <2>1. m \in Nat /\ n \in Nat /\ ~ (m < n)
    BY <1>1 DEF OpToRel
  <2> QED BY <2>1
<1> QED BY <1>2

\* What is left of a set of numbers that has no least member.
LEMMA NoLeast ==
  ASSUME NEW N \in SUBSET Nat, 0 \notin N,
         \A n \in Nat : n + 1 \in N => n \in N
  PROVE  N = {}
<1> SUFFICES ASSUME N # {} PROVE FALSE
  OBVIOUS
<1>1. PICK n \in N : \A m \in N : n <= m
  BY LeastNat
<1>2. n - 1 \in Nat /\ n = (n - 1) + 1
  BY <1>1
<1>3. n - 1 \in N
  BY <1>1, <1>2
<1> QED BY <1>1, <1>2, <1>3

Above(G, S) == UNION {{u} \cup ParentsOf(G, u) : u \in S}

Walked(G, S, reach, n) == IF n = 0 THEN S ELSE Above(G, reach[n - 1])

Closed(G, X) == \A v \in X : ParentsOf(G, v) \subseteq X

\* The recursion of the walk has a solution.
LEMMA WalkExists ==
  ASSUME NEW G, NEW S
  PROVE  \E reach : reach = [n \in Nat |-> Walked(G, S, reach, n)]
<1> DEFINE Fits(g, n) == \A m \in 0..n : g[m] = Walked(G, S, g, m)
           Bad == {n \in Nat : ~ \E g : Fits(g, n)}
<1>1. 0 \notin Bad
  <2>1. Fits([m \in 0..0 |-> S], 0)
    BY DEF Walked
  <2> QED BY <2>1
<1>2. ASSUME NEW n \in Nat, NEW g, Fits(g, n)
      PROVE  Fits([m \in 0..(n + 1) |-> Walked(G, S, g, m)], n + 1)
  <2> DEFINE h == [m \in 0..(n + 1) |-> Walked(G, S, g, m)]
  <2> SUFFICES ASSUME NEW m \in 0..(n + 1) PROVE h[m] = Walked(G, S, h, m)
    OBVIOUS
  <2>1. h[m] = Walked(G, S, g, m)
    OBVIOUS
  <2>2. CASE m = 0
    BY <2>1, <2>2 DEF Walked
  <2>3. CASE m # 0
    <3>1. m - 1 \in 0..n /\ m - 1 \in 0..(n + 1)
      BY <2>3
    <3>2. h[m - 1] = Walked(G, S, g, m - 1)
      BY <3>1
    <3>3. h[m - 1] = g[m - 1]
      BY <3>1, <3>2, <1>2
    <3> QED BY <2>1, <2>3, <3>3 DEF Walked
  <2> QED BY <2>2, <2>3
<1>3. ASSUME NEW g, NEW h, NEW n \in Nat, Fits(g, n), Fits(h, n)
      PROVE  \A m \in 0..n : g[m] = h[m]
  <2> DEFINE Diff == {m \in Nat : m <= n /\ g[m] # h[m]}
  <2>1. 0 \notin Diff
    <3>1. 0 \in 0..n
      OBVIOUS
    <3> QED BY <1>3, <3>1 DEF Walked
  <2>2. ASSUME NEW m \in Nat, m + 1 \in Diff PROVE m \in Diff
    <3>1. m + 1 \in 0..n /\ m \in 0..n /\ m + 1 # 0 /\ (m + 1) - 1 = m
      BY <2>2
    <3>2. g[m + 1] = Above(G, g[m]) /\ h[m + 1] = Above(G, h[m])
      BY <3>1, <1>3 DEF Walked
    <3> QED BY <2>2, <3>1, <3>2
  <2>3. Diff \in SUBSET Nat
    OBVIOUS
  <2> HIDE DEF Diff
  <2>4. Diff = {}
    BY <2>1, <2>2, <2>3, NoLeast
  <2> QED BY <2>4 DEF Diff
<1>4. ASSUME NEW n \in Nat, n + 1 \in Bad PROVE n \in Bad
  <2> SUFFICES ASSUME NEW g, Fits(g, n) PROVE FALSE
    OBVIOUS
  <2>1. Fits([m \in 0..(n + 1) |-> Walked(G, S, g, m)], n + 1)
    BY <1>2
  <2> HIDE DEF Fits
  <2> QED BY <1>4, <2>1
<1> HIDE DEF Fits
<1>5. Bad = {}
  <2>1. Bad \in SUBSET Nat
    OBVIOUS
  <2> HIDE DEF Bad
  <2> QED BY <1>1, <1>4, <2>1, NoLeast
<1> DEFINE pick(n) == CHOOSE g : Fits(g, n)
           reach == [n \in Nat |-> pick(n)[n]]
<1>6. \A n \in Nat : Fits(pick(n), n)
  BY <1>5
<1>7. ASSUME NEW n \in Nat PROVE reach[n] = Walked(G, S, reach, n)
  <2>1. reach[n] = pick(n)[n] /\ pick(n)[n] = Walked(G, S, pick(n), n)
    BY <1>6 DEF Fits
  <2>2. CASE n = 0
    BY <2>1, <2>2 DEF Walked
  <2>3. CASE n # 0
    <3>1. n - 1 \in Nat /\ n - 1 \in 0..(n - 1) /\ n - 1 \in 0..n
      BY <2>3
    <3>2. Fits(pick(n - 1), n - 1) /\ Fits(pick(n), n - 1)
      BY <1>6, <3>1 DEF Fits
    <3>3. pick(n - 1)[n - 1] = pick(n)[n - 1]
      <4> HIDE DEF pick
      <4> QED BY <1>3, <3>1, <3>2
    <3>4. reach[n - 1] = pick(n)[n - 1]
      BY <3>1, <3>3
    <3> HIDE DEF pick, reach
    <3> QED BY <2>1, <2>3, <3>4 DEF Walked
  <2> QED BY <2>2, <2>3
<1>8. reach = [n \in Nat |-> Walked(G, S, reach, n)]
  <2>1. reach = [n \in Nat |-> reach[n]]
    OBVIOUS
  <2> HIDE DEF reach
  <2> QED BY <2>1, <1>7
<1> QED BY <1>8

\* The generations of a walk.
LEMMA WalkStages ==
  ASSUME NEW G, NEW S
  PROVE  \E reach : /\ WalkUp(G, S) = reach[Cardinality(DOMAIN G)]
                    /\ reach[0] = S
                    /\ \A n \in Nat : reach[n + 1] = Above(G, reach[n])
<1> DEFINE reach == CHOOSE r : r = [n \in Nat |-> Walked(G, S, r, n)]
<1>1. WalkUp(G, S) = reach[Cardinality(DOMAIN G)]
  BY DEF WalkUp, Walked, Above
<1>2. reach = [n \in Nat |-> Walked(G, S, reach, n)]
  BY WalkExists
<1> HIDE DEF reach
<1>3. \A n \in Nat : reach[n] = Walked(G, S, reach, n)
  BY <1>2
<1>4. reach[0] = S
  BY <1>3 DEF Walked
<1>5. ASSUME NEW n \in Nat PROVE reach[n + 1] = Above(G, reach[n])
  <2>1. n + 1 \in Nat /\ n + 1 # 0 /\ (n + 1) - 1 = n
    OBVIOUS
  <2> QED BY <1>3, <2>1 DEF Walked
<1> QED BY <1>1, <1>4, <1>5

LEMMA WalkLeast ==
  ASSUME NEW G, IsFiniteSet(DOMAIN G), NEW S, NEW X, S \subseteq X, Closed(G, X)
  PROVE  WalkUp(G, S) \subseteq X
<1>1. PICK reach : /\ WalkUp(G, S) = reach[Cardinality(DOMAIN G)]
                   /\ reach[0] = S
                   /\ \A n \in Nat : reach[n + 1] = Above(G, reach[n])
  BY WalkStages
<1> DEFINE Bad == {n \in Nat : ~ (reach[n] \subseteq X)}
<1>2. 0 \notin Bad /\ Bad \in SUBSET Nat
  BY <1>1
<1>3. \A n \in Nat : n + 1 \in Bad => n \in Bad
  BY <1>1 DEF Above, Closed
<1>4. Bad = {}
  <2> HIDE DEF Bad
  <2> QED BY <1>2, <1>3, NoLeast
<1>5. Cardinality(DOMAIN G) \in Nat
  BY FS_CardinalityType
<1> QED BY <1>1, <1>4, <1>5

LEMMA WalkClosed ==
  ASSUME NEW G, IsFiniteSet(DOMAIN G), NEW S
  PROVE  S \subseteq WalkUp(G, S) /\ Closed(G, WalkUp(G, S))
<1> DEFINE D == DOMAIN G
<1>1. PICK reach : /\ WalkUp(G, S) = reach[Cardinality(D)]
                   /\ reach[0] = S
                   /\ \A n \in Nat : reach[n + 1] = Above(G, reach[n])
  BY WalkStages
<1>2. Cardinality(D) \in Nat
  BY FS_CardinalityType
<1>3. \A n \in Nat : reach[n] \subseteq reach[n + 1]
  BY <1>1 DEF Above
<1>4. S \subseteq reach[Cardinality(D)]
  <2> DEFINE Bad == {n \in Nat : ~ (S \subseteq reach[n])}
  <2>1. 0 \notin Bad /\ Bad \in SUBSET Nat
    BY <1>1
  <2>2. \A n \in Nat : n + 1 \in Bad => n \in Bad
    BY <1>3
  <2>3. Bad = {}
    <3> HIDE DEF Bad
    <3> QED BY <2>1, <2>2, NoLeast
  <2> QED BY <1>2, <2>3
<1> DEFINE size(n) == Cardinality(reach[n] \cap D)
           Open == {n \in Nat : ~ Closed(G, reach[n]) /\ size(n) < n + 1}
<1>5. \A n \in Nat : IsFiniteSet(reach[n] \cap D) /\ size(n) \in Nat /\ size(n) <= Cardinality(D)
  <2>1. \A n \in Nat : reach[n] \cap D \in SUBSET D
    OBVIOUS
  <2> QED BY <2>1, FS_Subset, FS_CardinalityType
<1>6. 0 \notin Open
  <2> SUFFICES ASSUME ~ Closed(G, reach[0]) PROVE size(0) >= 1
    BY <1>5
  <2>1. PICK v \in reach[0] : ~ (ParentsOf(G, v) \subseteq reach[0])
    BY DEF Closed
  <2>2. v \in reach[0] \cap D
    BY <2>1 DEF ParentsOf
  <2>3. size(0) # 0
    BY <1>5, <2>2, FS_EmptySet
  <2> QED BY <1>5, <2>3
<1>7. ASSUME NEW n \in Nat, n + 1 \in Open PROVE n \in Open
  <2>1. ~ Closed(G, reach[n + 1]) /\ size(n + 1) < (n + 1) + 1
    BY <1>7
  <2>2. PICK w \in reach[n + 1] : ~ (ParentsOf(G, w) \subseteq reach[n + 1])
    BY <2>1 DEF Closed
  <2>3. w \in D /\ w \notin reach[n]
    BY <1>1, <2>2 DEF Above, ParentsOf
  <2>4. ~ Closed(G, reach[n])
    <3> SUFFICES ASSUME Closed(G, reach[n]) PROVE FALSE
      OBVIOUS
    <3>1. reach[n + 1] \subseteq reach[n]
      BY <1>1 DEF Above, Closed
    <3> QED BY <2>2, <2>3, <3>1
  <2>5. size(n) < size(n + 1)
    <3>1. /\ IsFiniteSet(reach[n] \cap D) /\ IsFiniteSet(reach[n + 1] \cap D)
          /\ size(n) \in Nat /\ size(n + 1) \in Nat
      BY <1>5
    <3>2. (reach[n] \cap D) \in SUBSET (reach[n + 1] \cap D)
      BY <1>3
    <3>3. reach[n] \cap D # reach[n + 1] \cap D
      BY <2>2, <2>3
    <3>4. size(n) <= size(n + 1) /\ size(n) # size(n + 1)
      BY <3>1, <3>2, <3>3, FS_Subset
    <3> QED BY <3>1, <3>4
  <2>6. size(n) \in Nat /\ size(n + 1) \in Nat
    BY <1>5
  <2>7. size(n) < n + 1
    <3> HIDE DEF size
    <3> QED BY <2>1, <2>5, <2>6
  <2> QED BY <2>4, <2>7
<1>8. Open = {}
  <2>1. Open \in SUBSET Nat
    OBVIOUS
  <2> HIDE DEF Open
  <2> QED BY <1>6, <1>7, <2>1, NoLeast
<1>9. Closed(G, reach[Cardinality(D)])
  <2>1. size(Cardinality(D)) \in Nat /\ size(Cardinality(D)) <= Cardinality(D)
    BY <1>2, <1>5
  <2>2. Cardinality(D) \notin Open
    BY <1>8
  <2> HIDE DEF size
  <2>3. ~ (size(Cardinality(D)) < Cardinality(D) + 1)
    => FALSE
    BY <1>2, <2>1
  <2> QED BY <1>2, <2>2, <2>3
<1> QED BY <1>1, <1>4, <1>9


LEMMA WalkGrows ==
  ASSUME NEW G, IsFiniteSet(DOMAIN G), NEW S, NEW T, S \subseteq WalkUp(G, T)
  PROVE  WalkUp(G, S) \subseteq WalkUp(G, T)
BY WalkClosed, WalkLeast

----------------------------------------------------------------------------
(* Part of a graph *)

IsDag(G) == IsFiniteSet(DOMAIN G) /\ \A v \in DOMAIN G : G[v].parents \subseteq DOMAIN G

Sub(G, B) == [v \in B |-> G[v]]

LEMMA SubParents ==
  ASSUME NEW G, IsDag(G), NEW B, B \subseteq DOMAIN G
  PROVE  /\ IsFiniteSet(DOMAIN Sub(G, B))
         /\ \A v : ParentsOf(Sub(G, B), v) = IF v \in B THEN ParentsOf(G, v) ELSE {}
BY FS_Subset DEF Sub, ParentsOf, IsDag

LEMMA SubWalk ==
  ASSUME NEW G, IsDag(G), NEW B, B \subseteq DOMAIN G, NEW S
  PROVE  /\ S \subseteq WalkUp(Sub(G, B), S)
         /\ \A v \in B \cap WalkUp(Sub(G, B), S) : ParentsOf(G, v) \subseteq WalkUp(Sub(G, B), S)
         /\ WalkUp(Sub(G, B), S) \subseteq WalkUp(G, S)
         /\ WalkUp(G, S) \subseteq B => WalkUp(Sub(G, B), S) = WalkUp(G, S)
<1>1. /\ IsFiniteSet(DOMAIN G) /\ IsFiniteSet(DOMAIN Sub(G, B))
      /\ \A v : ParentsOf(Sub(G, B), v) = IF v \in B THEN ParentsOf(G, v) ELSE {}
  BY SubParents DEF IsDag
<1> DEFINE W == WalkUp(G, S)
           V == WalkUp(Sub(G, B), S)
<1>2. S \subseteq W /\ Closed(G, W)
  BY <1>1, WalkClosed
<1>3. S \subseteq V /\ Closed(Sub(G, B), V)
  BY <1>1, WalkClosed
<1>4. V \subseteq W
  <2>1. Closed(Sub(G, B), W)
    BY <1>1, <1>2 DEF Closed
  <2> QED BY <1>1, <1>2, <2>1, WalkLeast
<1> HIDE DEF W, V
<1>5. \A v \in B \cap V : ParentsOf(G, v) \subseteq V
  BY <1>1, <1>3 DEF Closed
<1>6. ASSUME W \subseteq B PROVE V = W
  <2>1. Closed(G, V)
    BY <1>4, <1>5, <1>6 DEF Closed
  <2>2. W \subseteq V
    <3> USE DEF W
    <3> QED BY <1>1, <1>3, <2>1, WalkLeast
  <2> QED BY <1>4, <2>2
<1> QED BY <1>3, <1>4, <1>5, <1>6 DEF W, V

\* Where the part holds the whole history of two heads it finds the base the graph finds.
LEMMA SubBase ==
  ASSUME NEW G, IsDag(G), NEW B, B \subseteq DOMAIN G, NEW a, NEW b,
         WalkUp(G, {a, b}) \subseteq B
  PROVE  mergeBase(Sub(G, B), a, b) = mergeBase(G, a, b)
<1>1. IsFiniteSet(DOMAIN G)
  BY DEF IsDag
<1>2. {a, b} \subseteq WalkUp(G, {a, b}) /\ Closed(G, WalkUp(G, {a, b}))
  BY <1>1, WalkClosed
<1>3. ASSUME NEW T, T \subseteq WalkUp(G, {a, b})
      PROVE  WalkUp(Sub(G, B), T) = WalkUp(G, T)
  <2>1. WalkUp(G, T) \subseteq B
    BY <1>1, <1>3, WalkGrows
  <2> QED BY <2>1, SubWalk
<1>4. /\ ancestors(Sub(G, B), a) = ancestors(G, a)
      /\ ancestors(Sub(G, B), b) = ancestors(G, b)
  BY <1>2, <1>3 DEF ancestors
<1> DEFINE common == ancestors(G, a) \cap ancestors(G, b)
<1>5. common \subseteq WalkUp(G, {a, b})
  BY <1>1, <1>2, WalkGrows DEF ancestors
<1>6. \A c \in common : ParentsOf(Sub(G, B), c) = ParentsOf(G, c)
  BY <1>5, SubParents
<1>7. Dominated(Sub(G, B), common) = Dominated(G, common)
  <2> DEFINE T == UNION {ParentsOf(G, c) : c \in common}
  <2>1. T = UNION {ParentsOf(Sub(G, B), c) : c \in common}
    BY <1>6
  <2>2. T \subseteq WalkUp(G, {a, b})
    BY <1>2, <1>5 DEF Closed
  <2>3. WalkUp(Sub(G, B), T) = WalkUp(G, T)
    <3> HIDE DEF T
    <3> QED BY <1>3, <2>2
  <2> QED BY <2>1, <2>3 DEF Dominated
<1> QED BY <1>4, <1>7 DEF mergeBase

----------------------------------------------------------------------------
(* A part B of the graph reaches the history of the heads H, but for the   *)
(* versions in A: it holds that history, and a walk inside B finds it.     *)

Reaches(G, H, A, B) == WalkUp(G, H) \ A \subseteq B \cap WalkUp(Sub(G, B), H)

\* More nodes, or other nodes outside the history, and more exceptions.
LEMMA ReachGrows ==
  ASSUME NEW G, IsDag(G), NEW H, NEW A, NEW A2, NEW B, NEW B2,
         B \subseteq DOMAIN G, B2 \subseteq DOMAIN G,
         Reaches(G, H, A, B), A \subseteq A2, B \cap WalkUp(G, H) \subseteq B2
  PROVE  Reaches(G, H, A2, B2)
<1> DEFINE W == WalkUp(G, H)
           V == WalkUp(Sub(G, B), H)
           V2 == WalkUp(Sub(G, B2), H)
<1>1. IsFiniteSet(DOMAIN Sub(G, B))
  BY SubParents
<1>2. H \subseteq V2 /\ (\A v \in B2 \cap V2 : ParentsOf(G, v) \subseteq V2) /\ V2 \subseteq W
  BY SubWalk
<1>3. Closed(Sub(G, B), V2)
  <2>1. \A v : ParentsOf(Sub(G, B), v) = IF v \in B THEN ParentsOf(G, v) ELSE {}
    BY SubParents
  <2> QED BY <1>2, <2>1 DEF Closed
<1>4. V \subseteq V2
  BY <1>1, <1>2, <1>3, WalkLeast
<1> QED BY <1>2, <1>4 DEF Reaches

\* A part that holds the whole history.
LEMMA ReachAll ==
  ASSUME NEW G, IsDag(G), NEW H, NEW A, NEW B, B \subseteq DOMAIN G, WalkUp(G, H) \subseteq B
  PROVE  Reaches(G, H, A, B)
BY SubWalk DEF Reaches

\* The heads move on: of the versions below the new heads, those in P were seen or put
\* aside before, and those in Q are at hand.
LEMMA ReachMoves ==
  ASSUME NEW G, IsDag(G), NEW H, NEW H2, NEW A, NEW B, B \subseteq DOMAIN G,
         Reaches(G, H, A, B), H \subseteq WalkUp(Sub(G, B), H2),
         NEW P, NEW Q, Closed(G, P), Closed(G, P \cup Q),
         P \subseteq WalkUp(G, H) \cup A, Q \subseteq B, H2 \subseteq H \cup P \cup Q
  PROVE  Reaches(G, H2, A, B)
<1> DEFINE W == WalkUp(G, H)
           W2 == WalkUp(G, H2)
           V == WalkUp(Sub(G, B), H)
           V2 == WalkUp(Sub(G, B), H2)
           X == W \cup P \cup (Q \cap V2)
<1>1. IsFiniteSet(DOMAIN G) /\ IsFiniteSet(DOMAIN Sub(G, B))
  BY SubParents DEF IsDag
<1>2. V \subseteq V2
  BY <1>1, WalkGrows
<1>3. H2 \subseteq V2 /\ (\A v \in B \cap V2 : ParentsOf(G, v) \subseteq V2) /\ V2 \subseteq W2
  BY SubWalk
<1>4. H \subseteq W /\ Closed(G, W)
  BY <1>1, WalkClosed
<1>6. W2 \subseteq X
  <2> HIDE DEF W, V, V2
  <2>1. H2 \subseteq X
    BY <1>3, <1>4
  <2>2. ASSUME NEW v \in X PROVE ParentsOf(G, v) \subseteq X
    <3>1. CASE v \in W
      BY <1>4, <3>1 DEF Closed
    <3>2. CASE v \in P
      BY <3>2 DEF Closed
    <3>3. CASE v \in Q \cap V2
      BY <1>3, <3>3 DEF Closed
    <3> QED BY <3>1, <3>2, <3>3
  <2>3. Closed(G, X)
    BY <2>2 DEF Closed
  <2> HIDE DEF X
  <2> QED BY <1>1, <2>1, <2>3, WalkLeast
<1>7. W \ A \subseteq B \cap V /\ P \subseteq W \cup A
  BY DEF Reaches
<1>8. W2 \ A \subseteq B \cap V2
  <2> HIDE DEF W, V, V2, W2
  <2> QED BY <1>2, <1>6, <1>7
<1> QED BY <1>8 DEF Reaches

\* G2 is G with one more node v, which is nobody's parent.
Extends(G, G2, v) ==
    /\ v \notin DOMAIN G /\ DOMAIN G2 = DOMAIN G \cup {v}
    /\ \A u \in DOMAIN G : G2[u] = G[u]
    /\ G2[v].parents \subseteq DOMAIN G

LEMMA ExtendedDag ==
  ASSUME NEW G, IsDag(G), NEW G2, NEW v, Extends(G, G2, v)
  PROVE  /\ IsDag(G2)
         /\ \A B \in SUBSET DOMAIN G : Sub(G2, B) = Sub(G, B)
         /\ \A u : u # v => ParentsOf(G2, u) = ParentsOf(G, u)
         /\ ParentsOf(G2, v) = G2[v].parents
<1>1. IsFiniteSet(DOMAIN G2)
  BY FS_AddElement DEF IsDag, Extends
<1> QED BY <1>1 DEF IsDag, Extends, Sub, ParentsOf

\* Nothing changes for the heads that were there.
LEMMA WalkOld ==
  ASSUME NEW G, IsDag(G), NEW G2, NEW v, Extends(G, G2, v), NEW H, H \subseteq DOMAIN G
  PROVE  WalkUp(G2, H) = WalkUp(G, H) /\ WalkUp(G, H) \subseteq DOMAIN G
<1>1. /\ IsFiniteSet(DOMAIN G) /\ IsFiniteSet(DOMAIN G2) /\ IsDag(G2)
      /\ \A u : u # v => ParentsOf(G2, u) = ParentsOf(G, u)
      /\ v \notin DOMAIN G
  BY ExtendedDag DEF IsDag, Extends
<1>2. WalkUp(G, H) \subseteq DOMAIN G
  <2>1. Closed(G, DOMAIN G)
    BY DEF Closed, IsDag, ParentsOf
  <2> QED BY <1>1, <2>1, WalkLeast
<1>3. H \subseteq WalkUp(G, H) /\ Closed(G, WalkUp(G, H))
  BY <1>1, WalkClosed
<1>4. H \subseteq WalkUp(G2, H) /\ Closed(G2, WalkUp(G2, H))
  BY <1>1, WalkClosed
<1>5. WalkUp(G2, H) \subseteq WalkUp(G, H)
  <2>1. Closed(G2, WalkUp(G, H))
    BY <1>1, <1>2, <1>3 DEF Closed
  <2> QED BY <1>1, <1>3, <2>1, WalkLeast
<1>6. WalkUp(G, H) \subseteq WalkUp(G2, H)
  <2>1. Closed(G, WalkUp(G2, H))
    BY <1>1, <1>2, <1>4, <1>5 DEF Closed
  <2> QED BY <1>1, <1>4, <2>1, WalkLeast
<1> QED BY <1>2, <1>5, <1>6

LEMMA ReachOld ==
  ASSUME NEW G, IsDag(G), NEW G2, NEW v, Extends(G, G2, v), NEW H, H \subseteq DOMAIN G,
         NEW A, NEW B, B \subseteq DOMAIN G, Reaches(G, H, A, B)
  PROVE  Reaches(G2, H, A, B)
<1>1. Sub(G2, B) = Sub(G, B) /\ WalkUp(G2, H) = WalkUp(G, H)
  BY ExtendedDag, WalkOld
<1> QED BY <1>1 DEF Reaches

\* The new node stands above the old heads.
LEMMA WalkBorn ==
  ASSUME NEW G, IsDag(G), NEW G2, NEW v, Extends(G, G2, v)
  PROVE  WalkUp(G2, {v}) = WalkUp(G, G2[v].parents) \cup {v}
<1> DEFINE H == G2[v].parents
<1>1. /\ IsFiniteSet(DOMAIN G2) /\ IsDag(G2)
      /\ \A u : u # v => ParentsOf(G2, u) = ParentsOf(G, u)
      /\ ParentsOf(G2, v) = H
      /\ WalkUp(G2, H) = WalkUp(G, H)
  BY ExtendedDag, WalkOld DEF IsDag, Extends
<1> HIDE DEF H
<1>2. {v} \subseteq WalkUp(G2, {v}) /\ Closed(G2, WalkUp(G2, {v}))
  BY <1>1, WalkClosed
<1>3. H \subseteq WalkUp(G2, {v})
  BY <1>1, <1>2 DEF Closed
<1>4. WalkUp(G, H) \subseteq WalkUp(G2, {v})
  BY <1>1, <1>3, WalkGrows
<1>5. H \subseteq WalkUp(G, H) /\ Closed(G2, WalkUp(G, H))
  BY <1>1, WalkClosed
<1>6. WalkUp(G2, {v}) \subseteq WalkUp(G, H) \cup {v}
  <2>1. Closed(G2, WalkUp(G, H) \cup {v})
    BY <1>1, <1>5 DEF Closed
  <2> QED BY <1>1, <2>1, WalkLeast
<1> QED BY <1>2, <1>4, <1>6 DEF H

LEMMA ReachBorn ==
  ASSUME NEW G, IsDag(G), NEW G2, NEW v, Extends(G, G2, v), NEW A, NEW B, B \subseteq DOMAIN G,
         Reaches(G, G2[v].parents, A, B), NEW B2, B \cup {v} \subseteq B2, B2 \subseteq DOMAIN G2
  PROVE  Reaches(G2, {v}, A, B2)
<1> DEFINE H == G2[v].parents
           V == WalkUp(Sub(G2, B2), {v})
<1>1. /\ IsDag(G2)
      /\ \A u : u # v => ParentsOf(G2, u) = ParentsOf(G, u)
      /\ ParentsOf(G2, v) = H /\ v \notin B
  BY ExtendedDag DEF Extends
<1>2. {v} \subseteq V /\ \A u \in B2 \cap V : ParentsOf(G2, u) \subseteq V
  BY <1>1, SubWalk
<1>3. H \subseteq V
  <2> HIDE DEF V, H
  <2> QED BY <1>1, <1>2
<1>4. WalkUp(Sub(G, B), H) \subseteq V
  <2>1. /\ IsFiniteSet(DOMAIN Sub(G, B))
        /\ \A u : ParentsOf(Sub(G, B), u) = IF u \in B THEN ParentsOf(G, u) ELSE {}
    BY SubParents
  <2> HIDE DEF V
  <2>2. Closed(Sub(G, B), V)
    BY <1>1, <1>2, <2>1 DEF Closed
  <2> QED BY <1>3, <2>1, <2>2, WalkLeast
<1>5. WalkUp(G, H) \ A \subseteq B \cap WalkUp(Sub(G, B), H)
  BY DEF Reaches
<1>6. WalkUp(G2, {v}) = WalkUp(G, H) \cup {v}
  BY WalkBorn
<1>7. WalkUp(G2, {v}) \ A \subseteq B2 \cap V
  <2> HIDE DEF V, H
  <2> QED BY <1>2, <1>4, <1>5, <1>6
<1> QED BY <1>7 DEF Reaches

\* A sweep keeps of the nodes D on disk those that a walk from the roots R inside D finds;
\* the heads H, the pending ops P and their parents are roots, and what else the part B
\* holds of the history is on disk or pending.
LEMMA ReachSwept ==
  ASSUME NEW G, IsDag(G), NEW H, NEW A, NEW B, B \subseteq DOMAIN G, Reaches(G, H, A, B),
         NEW D, D \subseteq DOMAIN G, NEW P, P \subseteq DOMAIN G,
         NEW R, H \cup P \subseteq R, \A p \in P : ParentsOf(G, p) \subseteq R,
         B \cap WalkUp(G, H) \subseteq D \cup P
  PROVE  Reaches(G, H, A, (D \cap WalkUp(Sub(G, D), R)) \cup P)
<1> DEFINE K == (D \cap WalkUp(Sub(G, D), R)) \cup P
           U == WalkUp(Sub(G, D), R)
           V == WalkUp(Sub(G, B), H)
           V2 == WalkUp(Sub(G, K), H)
           X == V2 \cap U
<1>1. K \subseteq DOMAIN G
  OBVIOUS
<1>2. /\ IsFiniteSet(DOMAIN Sub(G, B))
      /\ \A v : ParentsOf(Sub(G, B), v) = IF v \in B THEN ParentsOf(G, v) ELSE {}
  BY SubParents
<1>3. R \subseteq U /\ \A v \in D \cap U : ParentsOf(G, v) \subseteq U
  BY SubWalk
<1>4. H \subseteq V2 /\ (\A v \in K \cap V2 : ParentsOf(G, v) \subseteq V2)
      /\ V2 \subseteq WalkUp(G, H)
  <2> HIDE DEF K
  <2> QED BY <1>1, SubWalk
<1>5. K = (D \cap U) \cup P
  OBVIOUS
<1> HIDE DEF K, U, V2
<1>6. Closed(Sub(G, B), X)
  <2> SUFFICES ASSUME NEW v \in X, v \in B PROVE ParentsOf(G, v) \subseteq X
    BY <1>2 DEF Closed
  <2>1. v \in D \cup P
    BY <1>4
  <2>2. v \in K /\ ParentsOf(G, v) \subseteq U
    BY <1>3, <1>5, <2>1
  <2> QED BY <1>4, <2>2
<1>7. V \subseteq X
  <2>1. H \subseteq X
    BY <1>3, <1>4
  <2> HIDE DEF X
  <2> QED BY <1>2, <1>6, <2>1, WalkLeast
<1>8. WalkUp(G, H) \ A \subseteq B \cap V
  BY DEF Reaches
<1>9. WalkUp(G, H) \ A \subseteq K \cap V2
  <2> HIDE DEF V
  <2> QED BY <1>5, <1>7, <1>8
<1> QED BY <1>9 DEF Reaches, K, V2

----------------------------------------------------------------------------
(* The kinds of the state *)

\* A version's parents are older than it.
HistoryOK ==
    /\ IsFiniteSet(Versions) /\ Versions = 1..Cardinality(Versions)
    /\ \A v \in Versions : history[v].parents \subseteq 1..(v - 1)

LogOK ==
    /\ log \in Seq(Versions) /\ IsInjective(log)
    /\ cursor \in 0..Len(log) /\ end \in 0..Len(log)

RegistryOK ==
    /\ mine \subseteq Versions /\ pending \subseteq mine
    /\ head \in Versions \cup {NoVersion}
    /\ conf = {} \/ (head # NoVersion /\ \E r \in Versions \ {head} : conf = {head, r})

FilesOK == snapshot \subseteq Versions /\ journal \subseteq Versions /\ torn \in BOOLEAN

Phases == {"idle", "push", "clear", "record", "append", "compact", "truncate", "merge", "fold",
           "folded", "maintain", "sweep", "trim"}

MemoryOK ==
    /\ phase \in Phases
    /\ dag \subseteq Versions /\ ops \subseteq Versions /\ edges \subseteq Versions

TypeInv == HistoryOK /\ LogOK /\ RegistryOK /\ FilesOK /\ MemoryOK

LEMMA HistoryIsDag ==
  ASSUME HistoryOK
  PROVE  IsDag(history) /\ Versions \subseteq Nat
<1>1. Cardinality(Versions) \in Nat
  BY FS_CardinalityType DEF HistoryOK
<1>2. \A v \in Versions : v \in Nat /\ v <= Cardinality(Versions)
  BY <1>1 DEF HistoryOK
<1>3. ASSUME NEW v \in Versions PROVE history[v].parents \subseteq Versions
  <2>1. 1..(v - 1) \subseteq 1..Cardinality(Versions)
    BY <1>1, <1>2
  <2> QED BY <2>1 DEF HistoryOK
<1> QED BY <1>2, <1>3 DEF IsDag, HistoryOK, Versions

LEMMA Minted ==
  ASSUME HistoryOK, NEW v, NEW parents, parents \subseteq Versions, Mints(v, parents)
  PROVE  /\ Extends(history, history', v) /\ history'[v].parents = parents
         /\ HistoryOK'
<1> DEFINE N == Cardinality(Versions)
<1>1. N \in Nat /\ Versions = 1..N
  BY FS_CardinalityType DEF HistoryOK
<1>2. v = N + 1
  BY DEF Mints, NextVersion, Versions
<1>3. v \notin Versions /\ parents \subseteq 1..(v - 1) /\ v \notin parents
  BY <1>1, <1>2
<1>4. /\ DOMAIN history' = Versions \cup {v}
      /\ \A u \in Versions : history'[u] = history[u]
      /\ history'[v].parents = {} \cup (parents \ {v})
  BY <1>3 DEF Mints, AddVersion, Versions
<1>5. history'[v].parents = parents
  BY <1>3, <1>4
<1>6. Extends(history, history', v)
  BY <1>3, <1>4, <1>5 DEF Extends, Versions
<1>7. IsFiniteSet(Versions') /\ Cardinality(Versions') = N + 1
  BY <1>3, <1>4, FS_AddElement DEF HistoryOK, Versions
<1>8. Versions' = 1..(N + 1)
  BY <1>1, <1>2, <1>4 DEF Versions
<1>9. \A u \in Versions' : history'[u].parents \subseteq 1..(u - 1)
  BY <1>3, <1>4, <1>5 DEF HistoryOK, Versions
<1> QED BY <1>5, <1>6, <1>7, <1>8, <1>9 DEF HistoryOK

LEMMA MaxIn ==
  ASSUME NEW n \in Nat, NEW S \in SUBSET (1..n), S # {}
  PROVE  Max(S) \in S
<1> DEFINE N == {n - x : x \in S}
<1>1. N \in SUBSET Nat /\ N # {}
  <2>1. \A x \in S : n - x \in Nat
    OBVIOUS
  <2> QED BY <2>1
<1> HIDE DEF N
<1>2. PICK m \in N : \A k \in N : m <= k
  BY <1>1, LeastNat
<1> USE DEF N
<1>3. PICK x \in S : m = n - x
  OBVIOUS
<1>4. ASSUME NEW y \in S PROVE x >= y
  <2>1. n - y \in N
    OBVIOUS
  <2>2. n - x <= n - y
    BY <1>2, <1>3, <2>1
  <2> QED BY <2>2
<1>5. \E z \in S : \A y \in S : z >= y
  BY <1>4
<1> QED BY <1>5 DEF Max

LEMMA MinIn ==
  ASSUME NEW S \in SUBSET Nat, S # {}
  PROVE  Min(S) \in S
<1>1. \E x \in S : \A y \in S : x <= y
  BY LeastNat
<1> QED BY <1>1 DEF Min

LEMMA LoggedIn ==
  ASSUME LogOK, NEW m \in Nat, NEW n \in 0..Len(log)
  PROVE  Logged(m, n) \subseteq ToSet(log) /\ Logged(m, n) \subseteq Versions
<1>1. \A i \in (m + 1)..n : i \in DOMAIN log
  BY DEF LogOK
<1>2. \A i \in DOMAIN log : log[i] \in Versions
  BY DEF LogOK
<1> QED BY <1>1, <1>2 DEF Logged, ToSet

LEMMA ForeignIn ==
  ASSUME HistoryOK, LogOK
  PROVE  /\ Pulled \subseteq Versions /\ Pulled \subseteq ToSet(log) /\ Foreign \subseteq Pulled
         /\ Foreign # {} => Max(Foreign) \in Foreign
<1>1. Pulled \subseteq Versions /\ Pulled \subseteq ToSet(log)
  <2>1. cursor \in Nat /\ end \in 0..Len(log)
    BY DEF LogOK
  <2> QED BY <2>1, LoggedIn DEF Pulled
<1>2. Foreign \subseteq Pulled
  BY DEF Foreign
<1>3. ASSUME Foreign # {} PROVE Max(Foreign) \in Foreign
  <2>1. Cardinality(Versions) \in Nat /\ Foreign \in SUBSET (1..Cardinality(Versions))
    BY <1>1, <1>2, FS_CardinalityType DEF HistoryOK
  <2> QED BY <1>3, <2>1, MaxIn
<1> QED BY <1>1, <1>2, <1>3

----------------------------------------------------------------------------
(* What the merge of a head makes of the registry: nothing; heads from     *)
(* which a walk in the graph at hand finds the old ones; or a merge node   *)
(* above such heads.                                                       *)

Unmoved == pending' = {} /\ UNCHANGED <<history, mine, head, conf>>

Moved(K, r) ==
    /\ pending' = {} /\ UNCHANGED <<history, mine>>
    /\ Heads \subseteq WalkUp(Sub(history, K), Heads') /\ Heads' \subseteq Heads \cup {r}

United(K, r) ==
    \E v, H2 :
      /\ Extends(history, history', v) /\ history'[v].parents = H2
      /\ Heads \subseteq WalkUp(Sub(history, K), H2) /\ H2 \subseteq Heads \cup {r}
      /\ mine' = mine \cup {v} /\ pending' = {v} /\ Heads' = {v}

LEMMA HeadsIn ==
  ASSUME RegistryOK
  PROVE  Heads \subseteq Versions
BY DEF RegistryOK, Heads

LEMMA ReconcileOutcome ==
  ASSUME HistoryOK, RegistryOK, NEW K, K \subseteq Versions, NEW r \in Versions,
         Reconcile(Graph(K), r)
  PROVE  /\ HistoryOK' /\ RegistryOK' /\ Versions \subseteq Versions'
         /\ Unmoved \/ Moved(K, r) \/ United(K, r)
<1> DEFINE g == Sub(history, K)
<1>1. Graph(K) = g
  BY DEF Graph, Sub
<1>2. IsDag(history) /\ Versions \subseteq Nat /\ IsFiniteSet(DOMAIN g)
  BY HistoryIsDag, SubParents DEF Versions
<1>3. \A S : S \subseteq WalkUp(g, S)
  BY <1>2, WalkClosed
<1>4. Reconcile(g, r)
  BY <1>1
<1> HIDE DEF g
<1>5. CASE Holds
  BY <1>5 DEF Holds, Unmoved, HistoryOK, RegistryOK, Versions
<1>6. CASE head = NoVersion /\ Adopt(r)
  <2>1. conf = {} /\ Heads = {}
    BY <1>6 DEF RegistryOK, Heads
  <2>2. Heads' = {r}
    <3>1. r # NoVersion
      BY <1>2, NoVersionAssumption
    <3> QED BY <1>6, <3>1 DEF Adopt, Heads
  <2>3. Moved(K, r)
    BY <1>6, <2>1, <2>2 DEF Adopt, Moved
  <2> QED BY <1>6, <2>3 DEF Adopt, HistoryOK, RegistryOK, Versions
<1>7. CASE /\ head # NoVersion /\ Adopt(r)
           /\ \A h \in Heads : isAncestor(g, h, r)
  <2>1. Heads' = {r}
    <3>1. r # NoVersion
      BY <1>2, NoVersionAssumption
    <3> QED BY <1>7, <3>1 DEF Adopt, Heads
  <2>2. Moved(K, r)
    BY <1>7, <2>1 DEF Adopt, Moved, isAncestor, ancestors, g
  <2> QED BY <1>7, <2>2 DEF Adopt, HistoryOK, RegistryOK, Versions
<1>8. CASE /\ head # NoVersion /\ conf = {} /\ ~ isAncestor(g, r, head)
           /\ Mark(r) \/ \E v \in {NextVersion} : Unite(v, r)
  <2>1. Heads = {head} /\ head \in Versions
    BY <1>8 DEF Heads, RegistryOK
  <2>2. r # head
    BY <1>3, <1>8 DEF isAncestor, ancestors
  <2>3. Heads \subseteq WalkUp(g, {head, r})
    BY <1>3, <2>1
  <2>4. CASE Mark(r)
    <3>1. Heads' = {head, r}
      BY <2>4 DEF Mark, Heads
    <3>2. Moved(K, r)
      BY <2>1, <2>3, <2>4, <3>1 DEF Mark, Moved, g
    <3>3. RegistryOK'
      BY <1>8, <2>2, <2>4 DEF Mark, RegistryOK, Versions
    <3> QED BY <2>4, <3>2, <3>3 DEF Mark, HistoryOK, Versions
  <2>5. CASE \E v \in {NextVersion} : Unite(v, r)
    <3>1. PICK v : Unite(v, r)
      BY <2>5
    <3>2. /\ Extends(history, history', v) /\ history'[v].parents = {head, r}
          /\ HistoryOK'
      <4>1. {head, r} \subseteq Versions
        BY <2>1
      <4> QED BY <3>1, <4>1, Minted DEF Unite
    <3>3. Versions' = Versions \cup {v} /\ v \notin Versions
      BY <3>2 DEF Extends, Versions
    <3>4. v \in Nat /\ v # NoVersion
      BY <3>2, <3>3, HistoryIsDag, NoVersionAssumption DEF HistoryOK, Unite, Mints, NextVersion
    <3>5. mine' = mine \cup {v} /\ pending' = {v} /\ head' = v /\ conf' = {}
      BY <3>1 DEF Unite
    <3>6. Heads' = {v}
      BY <3>4, <3>5 DEF Heads
    <3>7. RegistryOK'
      BY <3>3, <3>5 DEF RegistryOK
    <3>8. United(K, r)
      BY <2>1, <2>3, <3>2, <3>5, <3>6 DEF United, g
    <3> QED BY <3>2, <3>3, <3>7, <3>8
  <2> QED BY <1>8, <2>4, <2>5
<1>9. \/ Holds
      \/ head = NoVersion /\ Adopt(r)
      \/ head # NoVersion /\ conf # {} /\ Adopt(r) /\ (\A h \in conf : isAncestor(g, h, r))
      \/ head # NoVersion /\ conf = {} /\ Adopt(r) /\ isAncestor(g, head, r)
      \/ /\ head # NoVersion /\ conf = {} /\ ~ isAncestor(g, r, head)
         /\ Mark(r) \/ \E v \in {NextVersion} : Unite(v, r)
  BY <1>4 DEF Reconcile, Resolves
<1>10. conf # {} => Heads = conf
  BY DEF Heads
<1>11. conf = {} /\ head # NoVersion => Heads = {head}
  BY DEF Heads
<1> QED BY <1>5, <1>6, <1>7, <1>8, <1>9, <1>10, <1>11

----------------------------------------------------------------------------
(* TypeOK *)

LEMMA LogExtended ==
  ASSUME NEW S, NEW T, S \subseteq T, NEW s \in Seq(S), NEW t \in Seq(T),
         IsInjective(s), IsInjective(t), \A i \in 1..Len(t) : t[i] \notin ToSet(s)
  PROVE  /\ s \o t \in Seq(T) /\ IsInjective(s \o t) /\ Len(s \o t) = Len(s) + Len(t)
         /\ \A i \in 1..Len(s) : (s \o t)[i] = s[i]
         /\ \A i \in (Len(s) + 1)..(Len(s) + Len(t)) : (s \o t)[i] = t[i - Len(s)]
         /\ ToSet(s \o t) = ToSet(s) \cup {t[i] : i \in 1..Len(t)}
<1>1. s \in Seq(T) /\ DOMAIN s = 1..Len(s) /\ DOMAIN t = 1..Len(t)
  OBVIOUS
<1> DEFINE u == s \o t
<1>2. u \in Seq(T) /\ Len(u) = Len(s) + Len(t) /\ DOMAIN u = 1..(Len(s) + Len(t))
  BY <1>1
<1>3. \A i \in 1..Len(s) : u[i] = s[i]
  BY <1>1
<1>4. \A i \in (Len(s) + 1)..(Len(s) + Len(t)) : u[i] = t[i - Len(s)]
  BY <1>1
<1>5. Len(s) \in Nat /\ Len(t) \in Nat
  OBVIOUS
<1> HIDE DEF u
<1>6. \A i \in DOMAIN u : \/ i \in 1..Len(s) /\ u[i] = s[i] /\ u[i] \in ToSet(s)
                          \/ /\ i \notin 1..Len(s) /\ i - Len(s) \in 1..Len(t)
                             /\ u[i] = t[i - Len(s)] /\ u[i] \notin ToSet(s)
  <2> SUFFICES ASSUME NEW i \in DOMAIN u
               PROVE  \/ i \in 1..Len(s) /\ u[i] = s[i] /\ u[i] \in ToSet(s)
                      \/ /\ i \notin 1..Len(s) /\ i - Len(s) \in 1..Len(t)
                         /\ u[i] = t[i - Len(s)] /\ u[i] \notin ToSet(s)
    OBVIOUS
  <2>1. CASE i <= Len(s)
    <3>1. i \in 1..Len(s)
      BY <1>2, <1>5, <2>1
    <3> QED BY <1>1, <1>3, <3>1 DEF ToSet
  <2>2. CASE ~ (i <= Len(s))
    <3>1. i - Len(s) \in 1..Len(t) /\ i \in (Len(s) + 1)..(Len(s) + Len(t)) /\ i \notin 1..Len(s)
      BY <1>2, <1>5, <2>2
    <3> QED BY <1>4, <3>1
  <2> QED BY <2>1, <2>2
<1>7. IsInjective(u)
  <2> SUFFICES ASSUME NEW i \in DOMAIN u, NEW j \in DOMAIN u, u[i] = u[j] PROVE i = j
    BY DEF IsInjective
  <2>1. CASE i \in 1..Len(s) /\ j \in 1..Len(s)
    BY <1>1, <1>3, <2>1 DEF IsInjective
  <2>2. CASE i \notin 1..Len(s) /\ j \notin 1..Len(s)
    <3>1. i - Len(s) = j - Len(s)
      BY <1>1, <1>6, <2>2 DEF IsInjective
    <3> QED BY <1>2, <1>5, <3>1
  <2> QED BY <1>6, <2>1, <2>2
<1>8. ToSet(u) = ToSet(s) \cup {t[i] : i \in 1..Len(t)}
  <2>1. \A x \in ToSet(u) : x \in ToSet(s) \cup {t[i] : i \in 1..Len(t)}
    BY <1>6 DEF ToSet
  <2>2. ToSet(s) \subseteq ToSet(u)
    <3>1. 1..Len(s) \subseteq DOMAIN u
      BY <1>2, <1>5
    <3> QED BY <1>1, <1>3, <3>1 DEF ToSet
  <2>3. ASSUME NEW i \in 1..Len(t) PROVE t[i] \in ToSet(u)
    <3>1. /\ i + Len(s) \in DOMAIN u /\ i + Len(s) \in (Len(s) + 1)..(Len(s) + Len(t))
          /\ (i + Len(s)) - Len(s) = i
      BY <1>2, <1>5
    <3>2. u[i + Len(s)] = t[i]
      BY <1>4, <3>1
    <3> QED BY <3>1, <3>2 DEF ToSet
  <2> QED BY <2>1, <2>2, <2>3
<1> QED BY <1>2, <1>3, <1>4, <1>7, <1>8 DEF u

\* The push appends the ops in stamp order to the log.
LEMMA AscendingIs ==
  ASSUME NEW S, S \subseteq Nat, IsFiniteSet(S), NEW e \in Ascending(S)
  PROVE  /\ e \in Seq(S) /\ Len(e) = Cardinality(S) /\ IsInjective(e)
         /\ {e[i] : i \in 1..Len(e)} = S
         /\ \A i, j \in 1..Len(e) : i < j => e[i] < e[j]
<1>1. Cardinality(S) \in Nat
  BY FS_CardinalityType
<1>2. /\ e \in [1..Cardinality(S) -> S]
      /\ \A i, j \in 1..Cardinality(S) : i < j => e[i] < e[j]
      /\ \A v \in S : \E i \in 1..Cardinality(S) : e[i] = v
  BY DEF Ascending
<1>3. e \in Seq(S) /\ Len(e) = Cardinality(S)
  BY <1>1, <1>2
<1>4. IsInjective(e)
  <2> SUFFICES ASSUME NEW i \in 1..Cardinality(S), NEW j \in 1..Cardinality(S), e[i] = e[j]
               PROVE  i = j
    BY <1>2 DEF IsInjective
  <2>1. e[i] \in Nat /\ e[j] \in Nat
    BY <1>2
  <2>2. i \in Nat /\ j \in Nat /\ ~ (i < j) /\ ~ (j < i)
    BY <1>1, <1>2, <2>1
  <2> QED BY <2>2
<1> QED BY <1>2, <1>3, <1>4

LEMMA PushTypes ==
  ASSUME TypeInv, Push
  PROVE  /\ LogOK' /\ Len(log) \in Nat /\ Len(log') \in Nat /\ Len(log) <= Len(log')
         /\ \A i \in 1..Len(log) : log'[i] = log[i]
         /\ \A i \in (Len(log) + 1)..Len(log') :
                log'[i] \in ops /\ log'[i] \notin ToSet(log)
         /\ \A i, j \in (Len(log) + 1)..Len(log') : i < j => log'[i] < log'[j]
         /\ ToSet(log') = ToSet(log) \cup ops
<1> DEFINE S == ops \ ToSet(log)
<1>1. PICK e \in Ascending(S) : log' = log \o e
  BY DEF Push
<1>2. IsFiniteSet(Versions) /\ Versions \subseteq Nat
  BY HistoryIsDag DEF TypeInv, HistoryOK
<1>3. S \subseteq Nat /\ IsFiniteSet(S) /\ S \subseteq Versions
  <2>1. S \in SUBSET Versions
    BY DEF TypeInv, MemoryOK
  <2> HIDE DEF S
  <2> QED BY <1>2, <2>1, FS_Subset
<1>4. log \in Seq(Versions) /\ IsInjective(log) /\ S \cap ToSet(log) = {}
  BY DEF TypeInv, LogOK
<1>5. S \cup ToSet(log) = ops \cup ToSet(log) /\ S \subseteq ops
  OBVIOUS
<1> HIDE DEF S
<1>6. /\ e \in Seq(S) /\ Len(e) \in Nat /\ IsInjective(e)
      /\ {e[i] : i \in 1..Len(e)} = S
      /\ \A i, j \in 1..Len(e) : i < j => e[i] < e[j]
  <2>1. /\ e \in Seq(S) /\ IsInjective(e)
        /\ {e[i] : i \in 1..Len(e)} = S
        /\ \A i, j \in 1..Len(e) : i < j => e[i] < e[j]
    BY <1>3, AscendingIs
  <2> QED BY <2>1
<1>7. e \in Seq(Versions) /\ \A i \in 1..Len(e) : e[i] \in S /\ e[i] \notin ToSet(log)
  BY <1>3, <1>4, <1>6
<1>8. /\ log' \in Seq(Versions) /\ IsInjective(log') /\ Len(log') = Len(log) + Len(e)
      /\ \A i \in 1..Len(log) : log'[i] = log[i]
      /\ \A i \in (Len(log) + 1)..(Len(log) + Len(e)) : log'[i] = e[i - Len(log)]
      /\ ToSet(log') = ToSet(log) \cup S
  <2> DEFINE V == Versions
  <2>1. V \subseteq V /\ log \in Seq(V) /\ e \in Seq(V)
    BY <1>4, <1>7
  <2> HIDE DEF V
  <2>2. /\ log \o e \in Seq(V) /\ IsInjective(log \o e) /\ Len(log \o e) = Len(log) + Len(e)
        /\ \A i \in 1..Len(log) : (log \o e)[i] = log[i]
        /\ \A i \in (Len(log) + 1)..(Len(log) + Len(e)) : (log \o e)[i] = e[i - Len(log)]
        /\ ToSet(log \o e) = ToSet(log) \cup {e[i] : i \in 1..Len(e)}
    BY <1>4, <1>6, <1>7, <2>1, LogExtended
  <2> QED BY <1>1, <1>6, <2>2 DEF V
<1>9. Len(log) \in Nat
  BY <1>4
<1>10. \A i \in (Len(log) + 1)..Len(log') : i - Len(log) \in 1..Len(e) /\ log'[i] = e[i - Len(log)]
  BY <1>6, <1>8, <1>9
<1>11. LogOK'
  <2>1. UNCHANGED <<history, cursor, end>>
    BY DEF Push, memory
  <2> QED BY <1>6, <1>8, <1>9, <2>1 DEF TypeInv, LogOK, Versions
<1>12. \A i, j \in (Len(log) + 1)..Len(log') : i < j => log'[i] < log'[j]
  <2> SUFFICES ASSUME NEW i \in (Len(log) + 1)..Len(log'), NEW j \in (Len(log) + 1)..Len(log'),
                      i < j
               PROVE  log'[i] < log'[j]
    OBVIOUS
  <2>1. i - Len(log) < j - Len(log)
    BY <1>6, <1>8, <1>9
  <2> QED BY <1>6, <1>10, <2>1
<1>13. \A i \in (Len(log) + 1)..Len(log') : log'[i] \in ops /\ log'[i] \notin ToSet(log)
  BY <1>5, <1>7, <1>10
<1>14. ToSet(log') = ToSet(log) \cup ops
  BY <1>5, <1>8
<1>15. Len(log') \in Nat /\ Len(log) <= Len(log')
  BY <1>6, <1>8, <1>9
<1> QED BY <1>8, <1>9, <1>11, <1>12, <1>13, <1>14, <1>15

LEMMA PeerTypes ==
  ASSUME TypeInv, NEW v, NEW parents, parents \subseteq ToSet(log), PeerWrites(v, parents)
  PROVE  /\ Extends(history, history', v) /\ history'[v].parents = parents
         /\ HistoryOK' /\ LogOK'
         /\ Len(log) \in Nat /\ Len(log') = Len(log) + 1
         /\ \A i \in 1..Len(log) : log'[i] = log[i]
         /\ log'[Len(log) + 1] = v /\ ToSet(log') = ToSet(log) \cup {v}
<1>1. log \in Seq(Versions) /\ IsInjective(log) /\ ToSet(log) \subseteq Versions
  BY DEF TypeInv, LogOK, ToSet
<1>2. /\ Extends(history, history', v) /\ history'[v].parents = parents /\ HistoryOK'
  BY <1>1, Minted DEF TypeInv, PeerWrites
<1>3. Versions' = Versions \cup {v} /\ v \notin Versions
  BY <1>2 DEF Extends, Versions
<1> DEFINE t == <<v>>
<1>4. /\ t \in Seq(Versions') /\ IsInjective(t) /\ Len(t) = 1
      /\ \A i \in 1..Len(t) : t[i] \notin ToSet(log)
      /\ {t[i] : i \in 1..Len(t)} = {v}
  <2>1. DOMAIN t = 1..1 /\ t[1] = v /\ Len(t) = 1
    OBVIOUS
  <2> QED BY <1>1, <1>3, <2>1 DEF IsInjective
<1>5. log' = log \o t
  BY <1>1 DEF PeerWrites
<1> DEFINE V == Versions
           W == Versions'
<1>6. /\ V \subseteq W /\ log \in Seq(V) /\ t \in Seq(W)
      /\ IsInjective(log) /\ IsInjective(t) /\ \A i \in 1..Len(t) : t[i] \notin ToSet(log)
  BY <1>1, <1>3, <1>4
<1> HIDE DEF V, W, t
<1>7. /\ log \o t \in Seq(W) /\ IsInjective(log \o t)
      /\ Len(log \o t) = Len(log) + Len(t)
      /\ \A i \in 1..Len(log) : (log \o t)[i] = log[i]
      /\ ToSet(log \o t) = ToSet(log) \cup {t[i] : i \in 1..Len(t)}
  BY <1>6, LogExtended
<1>8. Len(log) \in Nat
  BY <1>1
<1>9. log'[Len(log) + 1] = v
  BY <1>1 DEF PeerWrites
<1>10. LogOK'
  <2>1. UNCHANGED <<cursor, end>>
    BY DEF PeerWrites, memory
  <2> QED BY <1>4, <1>5, <1>7, <1>8, <2>1 DEF TypeInv, LogOK, W
<1> QED BY <1>2, <1>4, <1>5, <1>7, <1>8, <1>9, <1>10

LEMMA LocalTypes ==
  ASSUME TypeInv, NEW v, LocalEdit(v)
  PROVE  /\ Extends(history, history', v) /\ history'[v].parents = Heads
         /\ Versions' = Versions \cup {v} /\ v \notin Versions /\ v # NoVersion
         /\ HistoryOK' /\ RegistryOK' /\ Heads' = {v}
<1>1. /\ Extends(history, history', v) /\ history'[v].parents = Heads /\ HistoryOK'
  BY HeadsIn, Minted DEF TypeInv, LocalEdit
<1>2. Versions' = Versions \cup {v} /\ v \notin Versions
  BY <1>1 DEF Extends, Versions
<1>3. v # NoVersion
  BY <1>1, <1>2, HistoryIsDag, NoVersionAssumption, FS_CardinalityType
     DEF TypeInv, HistoryOK, LocalEdit, Mints, NextVersion
<1>4. mine' = mine \cup {v} /\ head' = v /\ conf' = {} /\ pending' = pending \cup {v}
  BY DEF LocalEdit
<1>5. RegistryOK'
  BY <1>2, <1>4 DEF TypeInv, RegistryOK
<1>6. Heads' = {v}
  BY <1>3, <1>4 DEF Heads
<1> QED BY <1>1, <1>2, <1>3, <1>5, <1>6

LEMMA MergeTypes ==
  ASSUME TypeInv, Merge \/ Fold
  PROVE  HistoryOK' /\ RegistryOK' /\ Versions \subseteq Versions'
<1>1. \A r \in Foreign : r \in Versions
  BY ForeignIn DEF TypeInv
<1>2. CASE Holds \/ UNCHANGED <<history, mine, registry>>
  BY <1>2 DEF Holds, registry, TypeInv, HistoryOK, RegistryOK, Versions
<1>3. ASSUME NEW K, K \subseteq Versions, NEW r \in Foreign, Reconcile(Graph(K), r)
      PROVE  HistoryOK' /\ RegistryOK' /\ Versions \subseteq Versions'
  BY <1>1, <1>3, ReconcileOutcome DEF TypeInv
<1>4. CASE Merge
  <2>1. Foreign = {} => Holds
    BY <1>4 DEF Merge
  <2>2. Foreign # {} => Reconcile(Graph(dag), Max(Foreign)) /\ Max(Foreign) \in Foreign
    BY <1>4, ForeignIn DEF Merge, TypeInv
  <2>3. dag \subseteq Versions
    BY DEF TypeInv, MemoryOK
  <2> QED BY <1>2, <1>3, <2>1, <2>2, <2>3
<1>5. CASE Fold
  <2>1. PICK r \in Extras(Graph(Known)) :
            Reconcile(Graph(Known), r) \/ UNCHANGED <<history, mine, registry>>
    BY <1>5 DEF Fold
  <2>2. r \in Foreign
    BY <2>1 DEF Extras
  <2>3. Known \subseteq Versions
    BY DEF TypeInv, MemoryOK, RegistryOK, Known
  <2> QED BY <1>2, <1>3, <2>1, <2>2, <2>3
<1> QED BY <1>4, <1>5

LEMMA SafeCursorIn ==
  ASSUME LogOK
  PROVE  safeCursor \in 0..Len(log) /\ (cursor <= end => cursor <= safeCursor /\ safeCursor <= end)
<1> DEFINE blocked == {i \in (cursor + 1)..end : log[i] \in missing}
<1>1. cursor \in 0..Len(log) /\ end \in 0..Len(log) /\ Len(log) \in Nat
  BY DEF LogOK
<1>2. safeCursor = IF deferred THEN cursor ELSE IF blocked # {} THEN Min(blocked) - 1 ELSE end
  BY DEF safeCursor
<1>3. blocked \subseteq (cursor + 1)..end
  OBVIOUS
<1>4. blocked # {} => Min(blocked) \in (cursor + 1)..end
  <2>1. blocked \in SUBSET Nat
    BY <1>1, <1>3
  <2> HIDE DEF blocked
  <2> QED BY <1>3, <2>1, MinIn
<1> HIDE DEF blocked
<1> QED BY <1>1, <1>2, <1>4

LEMMA SmallerLog ==
  ASSUME LogOK, UNCHANGED <<log, cursor, end>>, Versions \subseteq Versions'
  PROVE  LogOK'
BY DEF LogOK

LEMMA TypesStep ==
  ASSUME TypeInv, [Next]_vars
  PROVE  TypeInv'
<1> USE DEF In, Phases
<1>0. FilesOK /\ MemoryOK /\ RegistryOK /\ HistoryOK /\ LogOK
  BY DEF TypeInv
<1>1. ASSUME NEW v, LocalEdit(v) PROVE TypeInv'
  <2>1. Versions \subseteq Versions' /\ HistoryOK' /\ RegistryOK'
    BY <1>1, LocalTypes
  <2>2. LogOK'
    BY <1>0, <1>1, <2>1, SmallerLog DEF LocalEdit, memory
  <2>3. FilesOK' /\ MemoryOK'
    BY <1>0, <1>1, <2>1 DEF LocalEdit, files, memory, FilesOK, MemoryOK
  <2> QED BY <2>1, <2>2, <2>3 DEF TypeInv
<1>2. ASSUME NEW v, NEW parents, parents \subseteq ToSet(log), PeerWrites(v, parents) PROVE TypeInv'
  <2>1. HistoryOK' /\ LogOK' /\ Versions \subseteq Versions'
    BY <1>2, PeerTypes DEF Extends, Versions
  <2>2. RegistryOK' /\ FilesOK' /\ MemoryOK'
    BY <1>0, <1>2, <2>1
       DEF PeerWrites, registry, files, memory, RegistryOK, FilesOK, MemoryOK
  <2> QED BY <2>1, <2>2 DEF TypeInv
<1>3. ASSUME Merge \/ Fold PROVE TypeInv'
  <2>1. Versions \subseteq Versions' /\ HistoryOK' /\ RegistryOK'
    BY <1>3, MergeTypes
  <2>2. LogOK'
    BY <1>0, <1>3, <2>1, SmallerLog DEF Merge, Fold, memory
  <2>3. FilesOK' /\ MemoryOK'
    <3>1. CASE Merge
      BY <1>0, <2>1, <3>1 DEF Merge, files, memory, FilesOK, MemoryOK
    <3>2. CASE Fold
      <4>1. Known \subseteq Versions
        BY <1>0 DEF MemoryOK, RegistryOK, Known
      <4>2. journal' \subseteq Versions /\ snapshot' = snapshot /\ torn' \in BOOLEAN
        BY <1>0, <3>2, <4>1 DEF Fold, FilesOK, Landed
      <4>3. dag' = Known /\ ops' = ops /\ edges' = edges /\ phase' \in {"fold", "folded"}
        BY <3>2 DEF Fold
      <4> QED BY <1>0, <2>1, <4>1, <4>2, <4>3 DEF FilesOK, MemoryOK
    <3> QED BY <1>3, <3>1, <3>2
  <2> QED BY <2>1, <2>2, <2>3 DEF TypeInv
<1>4. CASE Push
  <2>1. LogOK'
    BY <1>4, PushTypes
  <2>2. HistoryOK' /\ RegistryOK' /\ FilesOK' /\ MemoryOK'
    BY <1>0, <1>4
       DEF Push, registry, files, memory, HistoryOK, RegistryOK, FilesOK, MemoryOK, Versions
  <2> QED BY <2>1, <2>2 DEF TypeInv
<1>5. ASSUME UNCHANGED <<history, log, mine, head, conf>>, pending' \subseteq pending,
             cursor' \in 0..Len(log), end' \in 0..Len(log), FilesOK', MemoryOK'
      PROVE  TypeInv'
  BY <1>0, <1>5 DEF TypeInv, HistoryOK, LogOK, RegistryOK, Versions
<1>6. /\ cursor \in 0..Len(log) /\ end \in 0..Len(log) /\ Len(log) \in 0..Len(log)
      /\ 0 \in 0..Len(log) /\ safeCursor \in 0..Len(log)
  BY <1>0, SafeCursorIn DEF LogOK
<1>7. /\ OnDisk \subseteq Versions /\ Pulled \subseteq Versions /\ Recorded \subseteq Versions
      /\ Kept \subseteq Versions
  <2>1. Pulled \subseteq Versions
    BY <1>0, ForeignIn
  <2> QED BY <1>0, <2>1 DEF OnDisk, FilesOK, MemoryOK, Recorded, Kept
<1>8. CASE BeginRound
  <2>1. FilesOK' /\ MemoryOK'
    BY <1>0, <1>7, <1>8
       DEF BeginRound, server, registry, files, FilesOK, MemoryOK, RegistryOK, Versions
  <2> QED BY <1>5, <1>6, <1>8, <2>1 DEF BeginRound, server, registry, StartCursor
<1>9. CASE ClearPendingOps
  <2>1. FilesOK' /\ MemoryOK'
    BY <1>0, <1>9 DEF ClearPendingOps, server, files, memory, FilesOK, MemoryOK, Versions
  <2> QED BY <1>5, <1>6, <1>9, <2>1 DEF ClearPendingOps, server, memory
<1>10. CASE recordVersionEdges
  <2>1. FilesOK' /\ MemoryOK'
    BY <1>0, <1>7, <1>10 DEF recordVersionEdges, server, files, FilesOK, MemoryOK, Versions
  <2> QED BY <1>5, <1>6, <1>10, <2>1 DEF recordVersionEdges, server, registry
<1>11. CASE EdgesAppended
  <2>1. UNCHANGED history
    BY <1>11 DEF EdgesAppended, server
  <2>2. FilesOK'
    BY <1>0, <1>11, <2>1 DEF EdgesAppended, FilesOK, MemoryOK, Landed, Versions
  <2>3. MemoryOK'
    BY <1>0, <1>11, <2>1 DEF EdgesAppended, MemoryOK, Versions
  <2> QED BY <1>5, <1>6, <1>11, <2>2, <2>3 DEF EdgesAppended, server, registry
<1>12. CASE SnapshotWritten \/ SweepWritten
  <2>1. FilesOK' /\ MemoryOK'
    BY <1>0, <1>12 DEF SnapshotWritten, SweepWritten, server, memory, FilesOK, MemoryOK, Versions
  <2> QED BY <1>5, <1>6, <1>12, <2>1 DEF SnapshotWritten, SweepWritten, server, registry, memory
<1>13. CASE JournalRemoved
  <2>1. FilesOK' /\ MemoryOK'
    BY <1>0, <1>13 DEF JournalRemoved, server, memory, FilesOK, MemoryOK, Versions
  <2> QED BY <1>5, <1>6, <1>13, <2>1 DEF JournalRemoved, server, registry, memory
<1>14. CASE MergeDefers \/ MergeMisses
  <2>1. FilesOK' /\ MemoryOK'
    BY <1>0, <1>14 DEF MergeDefers, MergeMisses, Holds, files, FilesOK, MemoryOK, Versions
  <2> QED BY <1>5, <1>6, <1>14, <2>1 DEF MergeDefers, MergeMisses, Holds
<1>15. CASE FoldsEnd \/ RoundEnds
  <2>1. FilesOK' /\ MemoryOK'
    BY <1>0, <1>15 DEF FoldsEnd, RoundEnds, server, files, memory, FilesOK, MemoryOK, Versions
  <2> QED BY <1>5, <1>6, <1>15, <2>1 DEF FoldsEnd, RoundEnds, server, registry, memory
<1>16. CASE SaveCursor
  <2>1. FilesOK' /\ MemoryOK'
    BY <1>0, <1>16 DEF SaveCursor, Forget, server, files, FilesOK, MemoryOK, Versions
  <2> QED BY <1>5, <1>6, <1>16, <2>1 DEF SaveCursor, Forget, server, registry
<1>17. CASE Sweep
  <2>1. FilesOK' /\ MemoryOK'
    BY <1>0, <1>7, <1>17 DEF Sweep, server, files, FilesOK, MemoryOK, Versions
  <2> QED BY <1>5, <1>6, <1>17, <2>1 DEF Sweep, server, registry
<1>18. CASE SweepTrims
  <2>1. FilesOK' /\ MemoryOK'
    BY <1>0, <1>18 DEF SweepTrims, Forget, server, FilesOK, MemoryOK, Versions
  <2> QED BY <1>5, <1>6, <1>18, <2>1 DEF SweepTrims, Forget, server, registry
<1>19. CASE Crash
  <2>1. UNCHANGED <<history, snapshot>>
    BY <1>19 DEF Crash, server
  <2>2. journal' \subseteq Versions /\ torn' \in BOOLEAN
    <3>1. CASE phase = "append"
      <4>1. PICK part \in SUBSET edges :
                 /\ \E landed \in Landed(part) : journal' = journal \cup landed
                 /\ torn' \in {torn /\ part = {}, LinesTear}
        BY <1>19, <3>1 DEF Crash
      <4>2. journal' \subseteq journal \cup part
        BY <4>1 DEF Landed
      <4>3. part \subseteq Versions /\ journal \subseteq Versions
        BY <1>0, <4>1 DEF FilesOK, MemoryOK
      <4>4. torn' \in BOOLEAN
        BY <4>1, FlagsAssumption
      <4> QED BY <4>2, <4>3, <4>4
    <3>2. CASE phase # "append"
      BY <1>0, <1>19, <3>2 DEF Crash, FilesOK
    <3> QED BY <3>1, <3>2
  <2>3. FilesOK' /\ MemoryOK'
    BY <1>0, <1>19, <2>1, <2>2 DEF Crash, Forget, FilesOK, MemoryOK, Versions
  <2> QED BY <1>5, <1>6, <1>19, <2>3 DEF Crash, Forget, server, registry
<1>20. CASE GraphLost
  <2>1. FilesOK' /\ MemoryOK'
    BY <1>0, <1>20 DEF GraphLost, server, memory, FilesOK, MemoryOK, Versions
  <2> QED BY <1>5, <1>6, <1>20, <2>1 DEF GraphLost, server, registry, memory
<1>21. CASE UNCHANGED vars
  BY <1>0, <1>5, <1>6, <1>21
     DEF vars, server, registry, files, memory, FilesOK, MemoryOK, Versions
<1> USE DEF Round
<1>22. ASSUME \E v \in {NextVersion} :
                \/ LocalEdit(v)
                \/ \E parents \in {{}} \cup {{p, q} : p, q \in ToSet(log)} : PeerWrites(v, parents)
       PROVE  TypeInv'
  <2>1. CASE \E v : LocalEdit(v)
    BY <1>1, <2>1
  <2>2. CASE \E v : \E parents \in {{}} \cup {{p, q} : p, q \in ToSet(log)} : PeerWrites(v, parents)
    <3>1. PICK v : \E parents \in {{}} \cup {{p, q} : p, q \in ToSet(log)} : PeerWrites(v, parents)
      BY <2>2
    <3>2. PICK parents \in {{}} \cup {{p, q} : p, q \in ToSet(log)} : PeerWrites(v, parents)
      BY <3>1
    <3>3. parents \subseteq ToSet(log)
      BY <3>2
    <3> QED BY <1>2, <3>2, <3>3
  <2> QED BY <1>22, <2>1, <2>2
<1> QED BY <1>3, <1>4, <1>8, <1>9, <1>10, <1>11, <1>12, <1>13, <1>14, <1>15, <1>16, <1>17,
           <1>18, <1>19, <1>20, <1>21, <1>22 DEF Next

LEMMA TypesInit ==
  ASSUME Init
  PROVE  TypeInv
<1>1. Versions = {} /\ IsFiniteSet(Versions) /\ Cardinality(Versions) = 0
  BY FS_EmptySet DEF Init, EmptyDag, Versions
<1>2. HistoryOK
  BY <1>1 DEF HistoryOK
<1>3. LogOK
  BY <1>1 DEF Init, LogOK, IsInjective
<1>4. RegistryOK /\ FilesOK /\ MemoryOK
  BY DEF Init, RegistryOK, FilesOK, MemoryOK, Phases
<1> QED BY <1>2, <1>3, <1>4 DEF TypeInv

\* The graph's files, the log and the registry only ever name versions that exist, the log
\* holds no op twice, and the cursor stays inside it, whatever is lost or cut off
\* (version-dag-store.ts, vault-sync-host.ts, server-sync.ts).
THEOREM TypesHold == Spec => []TypeOK
<1>1. Init => TypeInv
  BY TypesInit
<1>2. TypeInv /\ [Next]_vars => TypeInv'
  BY TypesStep
<1>3. TypeInv => TypeOK
  <2> SUFFICES ASSUME TypeInv PROVE TypeOK
    OBVIOUS
  <2>1. ToSet(log) \subseteq Versions
    BY DEF TypeInv, LogOK, ToSet
  <2>2. conf \subseteq Versions /\ Cardinality(conf) \in {0, 2}
    <3>1. CASE conf = {}
      BY <3>1, FS_EmptySet
    <3>2. CASE conf # {}
      <4>1. PICK r \in Versions \ {head} : conf = {head, r} /\ head \in Versions
        BY <3>2 DEF TypeInv, RegistryOK
      <4>2. Cardinality({head}) = 1 /\ IsFiniteSet({head})
        BY FS_Singleton
      <4>3. Cardinality({head} \cup {r}) = 2
        BY <4>1, <4>2, FS_AddElement
      <4>4. conf = {head} \cup {r}
        BY <4>1
      <4> QED BY <4>1, <4>3, <4>4
    <3> QED BY <3>1, <3>2
  <2> QED BY <2>1, <2>2
          DEF TypeInv, TypeOK, HistoryOK, LogOK, RegistryOK, FilesOK, OnDisk
<1> QED BY <1>1, <1>2, <1>3, PTL DEF Spec

----------------------------------------------------------------------------
(* The inductive invariant.  Most of it is claimed only while no version   *)
(* of the file's history was dropped; nothing ever brings one back.        *)

\* The history of what the registry names.
Anc == WalkUp(history, Heads)

\* Every version of it is on the server or waits for its push: no fold dropped any.
Whole == Anc \subseteq ToSet(log) \cup pending

Reached(B) == Reaches(history, Heads, aside, B)

\* Pending ops are part of that history, and the cursor has passed none of them.
PendingInv ==
    /\ pending \subseteq Anc
    /\ pending \cap Logged(0, cursor) = {}
    /\ phase \in {"fold", "folded"} => pending \cap ToSet(log) = {}
    /\ phase \in {"record", "append", "compact", "truncate", "merge"} => pending = {}

\* The server had a version's parents before it had the version.
LogInv == Whole => \A n \in 0..Len(log) : Closed(history, Logged(0, n))

\* What the cursor has passed is part of the history, or was put aside.
PassedInv == Whole => Logged(0, cursor) \subseteq Anc \cup aside

\* What the device pushed itself and a pull from its cursor brings back.
OwnAbove == mine \cap Logged(cursor, Len(log))

Early == {"idle", "push", "clear", "record", "append"}
Late  == {"compact", "truncate", "merge", "fold", "folded", "maintain"}

\* What the graph on disk reaches: with the ops the next round adds to it, until a round
\* has recorded them; by itself and the pending ops afterwards; and what a sweep keeps.
DiskInv ==
    Whole =>
    /\ phase \in Early /\ cursor # 0 /\ OnDisk # {} => Reached(OnDisk \cup pending \cup OwnAbove)
    /\ phase \in Late => Reached(OnDisk \cup pending)
    /\ phase \in {"sweep", "trim"} /\ cursor # 0 => Reached(dag \cup pending)

\* What a round holds in memory.
RoundInv ==
    /\ phase \in {"push", "clear", "record", "append"} =>
          /\ OnDisk = {} => cursor = 0
          /\ Whole => Anc \subseteq Logged(0, end) \cup ops
    /\ phase \in {"push", "clear", "record"} => dag = OnDisk
    /\ phase \in {"push", "clear"} => ops = pending
    /\ phase = "clear" => ops \subseteq ToSet(log)
    /\ phase = "append" => OnDisk \cup edges = dag /\ ops \cup Pulled \subseteq dag
    /\ phase \in {"compact", "truncate", "merge", "fold", "folded"} =>
          Pulled \subseteq dag /\ OnDisk = dag
    /\ phase = "truncate" => snapshot = dag
    /\ phase = "sweep" => dag \subseteq OnDisk
    /\ phase = "trim" => dag = snapshot
    /\ phase \notin {"idle", "maintain", "sweep", "trim"} => cursor <= end

GraphInv ==
    ~ torn /\ PendingInv /\ LogInv /\ PassedInv /\ DiskInv /\ RoundInv

LEMMA AncFacts ==
  ASSUME TypeInv
  PROVE  /\ IsDag(history) /\ IsFiniteSet(DOMAIN history) /\ DOMAIN history = Versions
         /\ Heads \subseteq Anc /\ Closed(history, Anc) /\ Anc \subseteq Versions
         /\ Heads \subseteq Versions /\ pending \subseteq Versions
         /\ OnDisk \subseteq Versions /\ dag \subseteq Versions
<1>1. IsDag(history) /\ IsFiniteSet(DOMAIN history) /\ DOMAIN history = Versions
  BY HistoryIsDag DEF TypeInv, IsDag, Versions
<1>2. Heads \subseteq Versions
  BY HeadsIn DEF TypeInv
<1>3. Heads \subseteq Anc /\ Closed(history, Anc)
  BY <1>1, WalkClosed DEF Anc
<1>4. Anc \subseteq Versions
  <2>1. Closed(history, Versions)
    BY <1>1 DEF Closed, IsDag, ParentsOf
  <2> QED BY <1>1, <1>2, <2>1, WalkLeast DEF Anc
<1> QED BY <1>1, <1>2, <1>3, <1>4
        DEF TypeInv, RegistryOK, FilesOK, MemoryOK, OnDisk

LEMMA LoggedFacts ==
  ASSUME LogOK
  PROVE  /\ Logged(0, Len(log)) = ToSet(log)
         /\ Logged(0, 0) = {}
         /\ \A m, n \in 0..Len(log) : m <= n =>
               /\ Logged(0, n) = Logged(0, m) \cup Logged(m, n)
               /\ Logged(m, n) \subseteq Logged(m, Len(log))
         /\ \A n \in 0..Len(log) : Logged(0, n) \subseteq ToSet(log) /\ Logged(n, Len(log)) \subseteq ToSet(log)
<1>1. Len(log) \in Nat /\ DOMAIN log = 1..Len(log)
  BY DEF LogOK
<1>2. Logged(0, Len(log)) = ToSet(log)
  BY <1>1 DEF Logged, ToSet
<1>3. Logged(0, 0) = {}
  BY DEF Logged
<1>4. ASSUME NEW m \in 0..Len(log), NEW n \in 0..Len(log), m <= n
      PROVE  /\ Logged(0, n) = Logged(0, m) \cup Logged(m, n)
             /\ Logged(m, n) \subseteq Logged(m, Len(log))
  <2>1. (0 + 1)..n = ((0 + 1)..m) \cup ((m + 1)..n)
    BY <1>1, <1>4
  <2>2. (m + 1)..n \subseteq (m + 1)..Len(log)
    BY <1>1, <1>4
  <2> QED BY <2>1, <2>2 DEF Logged
<1>5. ASSUME NEW n \in 0..Len(log)
      PROVE  Logged(0, n) \subseteq ToSet(log) /\ Logged(n, Len(log)) \subseteq ToSet(log)
  BY <1>1, <1>5 DEF Logged, ToSet
<1> QED BY <1>2, <1>3, <1>4, <1>5

\* A part that holds more of the history reaches it too.
LEMMA Widened ==
  ASSUME TypeInv, NEW B, NEW B2, Reached(B), B \subseteq Versions, B2 \subseteq Versions,
         B \cap Anc \subseteq B2
  PROVE  Reached(B2)
<1>1. IsDag(history) /\ DOMAIN history = Versions
  BY AncFacts
<1> QED BY <1>1, ReachGrows DEF Reached, Anc

\* In every phase the disk reaches what it has to reach at the start of the next round.
LEMMA Weakest ==
  ASSUME TypeInv, GraphInv, Whole, cursor # 0, OnDisk # {}
  PROVE  Reached(OnDisk \cup pending \cup OwnAbove)
<1> DEFINE B == OnDisk \cup pending \cup OwnAbove
<1>1. B \subseteq Versions
  BY AncFacts DEF OwnAbove, TypeInv, RegistryOK
<1>2. OnDisk \cup pending \subseteq B
  OBVIOUS
<1>3. CASE phase \in Early
  BY <1>3 DEF GraphInv, DiskInv
<1>4. CASE phase \in Late
  <2>1. Reached(OnDisk \cup pending)
    BY <1>4 DEF GraphInv, DiskInv
  <2> HIDE DEF B
  <2> QED BY <1>1, <1>2, <2>1, Widened DEF B
<1>5. CASE phase \in {"sweep", "trim"}
  <2>1. Reached(dag \cup pending)
    BY <1>5 DEF GraphInv, DiskInv
  <2>2. dag \subseteq OnDisk
    BY <1>5 DEF GraphInv, RoundInv, OnDisk
  <2>3. dag \cup pending \subseteq B
    BY <2>2
  <2> HIDE DEF B
  <2>4. Reached(B)
    BY <1>1, <2>1, <2>3, Widened
  <2> QED BY <2>4 DEF B
<1> QED BY <1>3, <1>4, <1>5 DEF TypeInv, MemoryOK, Phases, Early, Late

\* What stays when neither the server nor the registry changes.
LEMMA SameRegistry ==
  ASSUME UNCHANGED <<server, registry, aside>>
  PROVE  /\ Anc' = Anc /\ Whole' = Whole /\ LogInv' = LogInv
         /\ Heads' = Heads
         /\ \A m, n : Logged(m, n)' = Logged(m, n)
         /\ \A B : Reaches(history', Heads', aside', B) = Reaches(history, Heads, aside, B)
         /\ cursor' = cursor => OwnAbove' = OwnAbove /\ PassedInv' = PassedInv
<1>1. UNCHANGED <<history, log, mine, head, conf, pending, aside>>
  BY DEF server, registry
<1>2. Heads' = Heads
  BY <1>1 DEF Heads
<1>3. Anc' = Anc
  BY <1>1, <1>2 DEF Anc
<1>4. \A m, n : Logged(m, n)' = Logged(m, n)
  BY <1>1 DEF Logged
<1>5. Whole' = Whole
  BY <1>1, <1>3 DEF Whole
<1> QED BY <1>1, <1>2, <1>3, <1>4, <1>5 DEF LogInv, OwnAbove, PassedInv

\* Once the round's edges are recorded the graph holds the history by itself.
LEMMA RecordedReach ==
  ASSUME TypeInv, GraphInv, phase \in {"record", "append"}, Whole,
         NEW D, D \subseteq Versions, OnDisk \cup ops \cup Pulled \subseteq D
  PROVE  Reached(D)
<1>1. pending = {} /\ cursor <= end /\ (OnDisk = {} => cursor = 0)
      /\ Anc \subseteq Logged(0, end) \cup ops
  BY DEF GraphInv, PendingInv, RoundInv
<1>2. cursor \in 0..Len(log) /\ end \in 0..Len(log)
  BY DEF TypeInv, LogOK
<1>3. CASE cursor = 0
  <2>1. Anc \subseteq D
    BY <1>1, <1>3 DEF Pulled
  <2> QED BY <2>1, AncFacts, ReachAll DEF Reached, Anc
<1>4. CASE cursor # 0
  <2>1. Reached(OnDisk \cup pending \cup OwnAbove)
    BY <1>1, <1>4, Weakest
  <2>2. OnDisk \cup pending \cup OwnAbove \subseteq Versions
    BY AncFacts DEF OwnAbove, TypeInv, RegistryOK
  <2>3. ASSUME NEW v \in OwnAbove, v \in Anc PROVE v \in D
    <3>1. CASE v \in ops
      BY <3>1
    <3>2. CASE v \in Logged(0, end)
      <4>1. PICK i \in 1..end : log[i] = v
        BY <3>2 DEF Logged
      <4>2. PICK j \in (cursor + 1)..Len(log) : log[j] = v
        BY <2>3 DEF OwnAbove, Logged
      <4>3. i \in DOMAIN log /\ j \in DOMAIN log
        BY <1>2, <4>1, <4>2 DEF TypeInv, LogOK
      <4>4. i = j
        BY <4>1, <4>2, <4>3 DEF TypeInv, LogOK, IsInjective
      <4>5. j \in (cursor + 1)..end
        BY <1>2, <4>1, <4>2, <4>4
      <4>6. v \in Pulled
        BY <4>2, <4>5 DEF Pulled, Logged
      <4> QED BY <4>6
    <3> QED BY <1>1, <2>3, <3>1, <3>2
  <2>4. (OnDisk \cup pending \cup OwnAbove) \cap Anc \subseteq D
    BY <1>1, <2>3
  <2> QED BY <2>1, <2>2, <2>4, Widened
<1> QED BY <1>3, <1>4

----------------------------------------------------------------------------
(* Every step keeps the invariant *)

LEMMA recordKeeps ==
  ASSUME TypeInv, GraphInv, recordVersionEdges
  PROVE  GraphInv'
<1> USE DEF In
<1>1. /\ UNCHANGED <<server, registry, cursor, snapshot, journal, torn, ops, end, aside>>
      /\ phase = "record" /\ dag' = Recorded /\ edges' = Recorded \ dag
      /\ phase' = IF Recorded = dag THEN "merge" ELSE "append"
  BY DEF recordVersionEdges, files
<1>2. UNCHANGED <<pending, log>>
  BY <1>1 DEF server, registry
<1>3. /\ Anc' = Anc /\ Whole' = Whole /\ LogInv' /\ PassedInv' /\ OwnAbove' = OwnAbove
      /\ \A m, n : Logged(m, n)' = Logged(m, n)
      /\ \A B : Reaches(history', Heads', aside', B) = Reaches(history, Heads, aside, B)
  BY <1>1, SameRegistry DEF GraphInv
<1>4. OnDisk' = OnDisk /\ Pulled' = Pulled
  BY <1>1, <1>3 DEF OnDisk, Pulled
<1>5. dag = OnDisk /\ pending = {} /\ cursor <= end
  BY <1>1 DEF GraphInv, RoundInv, PendingInv
<1>6. PendingInv'
  BY <1>1, <1>2, <1>3, <1>5 DEF GraphInv, PendingInv
<1>7. RoundInv'
  BY <1>1, <1>2, <1>3, <1>4, <1>5 DEF GraphInv, RoundInv, Recorded
<1>8. DiskInv'
  <2>1. CASE phase' = "append"
    BY <1>1, <1>2, <1>3, <1>4, <2>1 DEF GraphInv, DiskInv, Early, Late, Reached
  <2>2. CASE phase' = "merge"
    <3>1. Recorded = dag
      BY <1>1, <2>2
    <3>2. Whole => Reached(OnDisk)
      <4>1. OnDisk \cup ops \cup Pulled \subseteq OnDisk
        BY <1>5, <3>1 DEF Recorded
      <4> QED BY <1>1, <4>1, AncFacts, RecordedReach
    <3>3. OnDisk' \cup pending' = OnDisk
      BY <1>2, <1>4, <1>5
    <3> QED BY <1>3, <2>2, <3>2, <3>3 DEF DiskInv, Early, Late, Reached
  <2> QED BY <1>1, <2>1, <2>2
<1> QED BY <1>1, <1>3, <1>6, <1>7, <1>8 DEF GraphInv

LEMMA appendKeeps ==
  ASSUME TypeInv, GraphInv, EdgesAppended
  PROVE  GraphInv'
<1> USE DEF In
<1>1. /\ UNCHANGED <<server, registry, cursor, snapshot, dag, ops, end, aside>>
      /\ phase = "append" /\ phase' \in {"merge", "compact"} /\ torn' = FALSE
      /\ \E landed \in Landed(edges) : journal' = journal \cup landed
  BY DEF EdgesAppended
<1>2. UNCHANGED <<pending, log>>
  BY <1>1 DEF server, registry
<1>3. /\ Anc' = Anc /\ Whole' = Whole /\ LogInv' /\ PassedInv' /\ OwnAbove' = OwnAbove
      /\ \A m, n : Logged(m, n)' = Logged(m, n)
      /\ \A B : Reaches(history', Heads', aside', B) = Reaches(history, Heads, aside, B)
  BY <1>1, SameRegistry DEF GraphInv
<1>4. journal' = journal \cup edges
  BY <1>1 DEF GraphInv, Landed
<1>5. OnDisk \cup edges = dag /\ ops \cup Pulled \subseteq dag /\ pending = {} /\ cursor <= end
  BY <1>1 DEF GraphInv, RoundInv, PendingInv
<1>6. OnDisk' = dag /\ Pulled' = Pulled
  BY <1>1, <1>3, <1>4, <1>5 DEF OnDisk, Pulled
<1>7. PendingInv'
  BY <1>1, <1>2, <1>3, <1>5 DEF GraphInv, PendingInv
<1>8. RoundInv'
  BY <1>1, <1>5, <1>6 DEF RoundInv
<1>9. DiskInv'
  <2>1. Whole => Reached(dag)
    BY <1>1, <1>5, AncFacts, RecordedReach
  <2>2. OnDisk' \cup pending' = dag
    BY <1>2, <1>5, <1>6
  <2> QED BY <1>1, <1>3, <2>1, <2>2 DEF DiskInv, Early, Late, Reached
<1> QED BY <1>1, <1>3, <1>7, <1>8, <1>9 DEF GraphInv

LEMMA compactKeeps ==
  ASSUME TypeInv, GraphInv, SnapshotWritten \/ JournalRemoved
  PROVE  GraphInv'
<1> USE DEF In
<1>1. /\ UNCHANGED <<server, registry, cursor, dag, ops, end, aside>>
      /\ ~ torn'
      /\ \/ phase = "compact" /\ phase' = "truncate" /\ snapshot' = dag /\ journal' = journal
         \/ phase = "truncate" /\ phase' = "merge" /\ snapshot' = snapshot /\ journal' = {}
  BY DEF SnapshotWritten, JournalRemoved, memory, GraphInv
<1>2. UNCHANGED <<pending, log>>
  BY <1>1 DEF server, registry
<1>3. /\ Anc' = Anc /\ Whole' = Whole /\ LogInv' /\ PassedInv' /\ OwnAbove' = OwnAbove
      /\ \A m, n : Logged(m, n)' = Logged(m, n)
      /\ \A B : Reaches(history', Heads', aside', B) = Reaches(history, Heads, aside, B)
  BY <1>1, SameRegistry DEF GraphInv
<1>4. OnDisk = dag /\ Pulled \subseteq dag /\ cursor <= end /\ pending = {}
      /\ (phase = "truncate" => snapshot = dag)
  BY <1>1 DEF GraphInv, RoundInv, PendingInv
<1>5. OnDisk' = dag /\ Pulled' = Pulled
  BY <1>1, <1>3, <1>4 DEF OnDisk, Pulled
<1>6. PendingInv'
  BY <1>1, <1>2, <1>3, <1>4 DEF GraphInv, PendingInv
<1>7. RoundInv'
  BY <1>1, <1>4, <1>5 DEF RoundInv
<1>8. DiskInv'
  <2>1. Whole => Reached(OnDisk \cup pending)
    BY <1>1 DEF GraphInv, DiskInv, Late
  <2>2. OnDisk' \cup pending' = OnDisk \cup pending
    BY <1>2, <1>4, <1>5
  <2> QED BY <1>1, <1>3, <2>1, <2>2 DEF DiskInv, Early, Late, Reached
<1> QED BY <1>1, <1>3, <1>6, <1>7, <1>8 DEF GraphInv

LEMMA skipKeeps ==
  ASSUME TypeInv, GraphInv, MergeDefers \/ MergeMisses \/ FoldsEnd
  PROVE  GraphInv'
<1> USE DEF In
<1>1. /\ UNCHANGED <<history, log, mine, head, conf, cursor, snapshot, journal, torn, dag, ops,
                     end, aside>>
      /\ \/ phase = "merge" /\ phase' = "fold" /\ pending' = {}
         \/ phase = "fold" /\ phase' = "folded" /\ pending' = pending
  BY DEF MergeDefers, MergeMisses, FoldsEnd, Holds, server, registry, files, memory
<1>2. pending' = pending
  BY <1>1 DEF GraphInv, PendingInv
<1>3. UNCHANGED <<server, registry>>
  BY <1>1, <1>2 DEF server, registry
<1>4. /\ Anc' = Anc /\ Whole' = Whole /\ LogInv' /\ PassedInv' /\ OwnAbove' = OwnAbove
      /\ \A m, n : Logged(m, n)' = Logged(m, n)
      /\ \A B : Reaches(history', Heads', aside', B) = Reaches(history, Heads, aside, B)
  BY <1>1, <1>3, SameRegistry DEF GraphInv
<1>5. OnDisk' = OnDisk /\ Pulled' = Pulled
  BY <1>1, <1>4 DEF OnDisk, Pulled
<1>6. PendingInv'
  BY <1>1, <1>2, <1>4 DEF GraphInv, PendingInv
<1>7. RoundInv'
  BY <1>1, <1>5 DEF GraphInv, RoundInv
<1>8. DiskInv'
  BY <1>1, <1>2, <1>4, <1>5 DEF GraphInv, DiskInv, Early, Late, Reached
<1> QED BY <1>1, <1>4, <1>6, <1>7, <1>8 DEF GraphInv

LEMMA sweepKeeps ==
  ASSUME TypeInv, GraphInv, ~ CollectsEarly, Sweep
  PROVE  GraphInv'
<1> USE DEF In
<1>1. /\ UNCHANGED <<server, registry, cursor, snapshot, journal, torn, ops, end, aside>>
      /\ phase = "maintain" \/ (phase = "idle" /\ OwnRecorded)
      /\ OnDisk # {} /\ dag' = Kept /\ phase' = "sweep"
  BY DEF Sweep, files
<1>2. UNCHANGED <<pending, log, history, mine>>
  BY <1>1 DEF server, registry
<1>3. /\ Anc' = Anc /\ Whole' = Whole /\ LogInv' /\ PassedInv'
      /\ \A m, n : Logged(m, n)' = Logged(m, n)
      /\ \A B : Reaches(history', Heads', aside', B) = Reaches(history, Heads, aside, B)
  BY <1>1, SameRegistry DEF GraphInv
<1>4. PendingInv'
  BY <1>1, <1>2, <1>3 DEF GraphInv, PendingInv
<1>5. RoundInv'
  <2>1. OnDisk' = OnDisk
    BY <1>1 DEF OnDisk
  <2> QED BY <1>1, <2>1 DEF RoundInv, Kept
<1>6. ASSUME Whole, cursor # 0 PROVE Reached(Kept \cup pending)
  <2> DEFINE B == IF phase = "maintain" THEN OnDisk \cup pending
                                        ELSE OnDisk \cup pending \cup OwnAbove
  <2>1. /\ IsDag(history) /\ IsFiniteSet(DOMAIN history) /\ DOMAIN history = Versions
        /\ Heads \subseteq Versions /\ OnDisk \subseteq Versions /\ pending \subseteq Versions
    BY AncFacts
  <2>2. B \subseteq Versions
    BY <2>1 DEF OwnAbove, TypeInv, RegistryOK
  <2>3. Reached(B)
    <3>1. CASE phase = "maintain"
      BY <1>6, <3>1 DEF GraphInv, DiskInv, Late
    <3>2. CASE phase # "maintain"
      BY <1>1, <1>6, <3>2, Weakest
    <3> QED BY <3>1, <3>2
  <2>4. Heads \cup pending \subseteq Roots
    <3>1. Heads \subseteq versionRoots
      <4>1. NoVersion \notin conf
        BY <2>1, HistoryIsDag, NoVersionAssumption DEF TypeInv, RegistryOK
      <4> QED BY <4>1 DEF Heads, versionRoots
    <3> QED BY <3>1 DEF Roots, PendingRoots
  <2>5. \A p \in pending : ParentsOf(history, p) \subseteq Roots
    BY <2>1 DEF Roots, PendingRoots, ParentsOf
  <2>6. B \cap Anc \subseteq OnDisk \cup pending
    <3>1. CASE phase = "maintain"
      BY <3>1
    <3>2. CASE phase = "idle" /\ OwnRecorded
      <4>1. Anc \subseteq WalkUp(history, Roots)
        <5>1. Roots \subseteq WalkUp(history, Roots)
          BY <2>1, WalkClosed
        <5> QED BY <2>1, <2>4, <5>1, WalkGrows DEF Anc
      <4> QED BY <3>2, <4>1 DEF OwnRecorded, OwnAbove
    <3> QED BY <1>1, <3>1, <3>2
  <2> HIDE DEF B
  <2>7. Reaches(history, Heads, aside, (OnDisk \cap WalkUp(Sub(history, OnDisk), Roots)) \cup pending)
    BY <2>1, <2>2, <2>3, <2>4, <2>5, <2>6, ReachSwept DEF Reached, Anc
  <2>8. Kept = OnDisk \cap WalkUp(Sub(history, OnDisk), Roots)
    BY DEF Kept, Graph, Sub
  <2> QED BY <2>7, <2>8 DEF Reached
<1>7. DiskInv'
  <2>1. dag' \cup pending' = Kept \cup pending
    BY <1>1, <1>2
  <2> QED BY <1>1, <1>3, <1>6, <2>1 DEF DiskInv, Early, Late, Reached
<1> QED BY <1>1, <1>3, <1>4, <1>5, <1>7 DEF GraphInv

LEMMA writtenKeeps ==
  ASSUME TypeInv, GraphInv, SweepWritten
  PROVE  GraphInv'
<1> USE DEF In
<1>1. /\ UNCHANGED <<server, registry, cursor, dag, aside>>
      /\ phase = "sweep" /\ phase' = "trim" /\ snapshot' = dag /\ ~ torn'
  BY DEF SweepWritten, memory, GraphInv
<1>2. UNCHANGED pending
  BY <1>1 DEF registry
<1>3. /\ Anc' = Anc /\ Whole' = Whole /\ LogInv' /\ PassedInv'
      /\ \A m, n : Logged(m, n)' = Logged(m, n)
      /\ \A B : Reaches(history', Heads', aside', B) = Reaches(history, Heads, aside, B)
  BY <1>1, SameRegistry DEF GraphInv
<1>4. PendingInv'
  BY <1>1, <1>2, <1>3 DEF GraphInv, PendingInv
<1>5. RoundInv'
  BY <1>1 DEF RoundInv
<1>6. DiskInv'
  BY <1>1, <1>2, <1>3 DEF GraphInv, DiskInv, Early, Late, Reached
<1> QED BY <1>1, <1>3, <1>4, <1>5, <1>6 DEF GraphInv

\* The device comes to rest, with at least what the disk had to reach, or with nothing.
LEMMA restKeeps ==
  ASSUME TypeInv, GraphInv, TypeInv', UNCHANGED <<server, registry, cursor, aside>>, ~ torn',
         phase' = "idle",
         \/ OnDisk' = {}
         \/ OnDisk \subseteq OnDisk' /\ (OnDisk = {} => cursor = 0 \/ OnDisk' = {})
         \/ phase = "trim" /\ OnDisk' = dag
  PROVE  GraphInv'
<1>1. UNCHANGED pending
  BY DEF registry
<1>2. /\ Anc' = Anc /\ Whole' = Whole /\ LogInv' /\ PassedInv' /\ OwnAbove' = OwnAbove
      /\ \A m, n : Logged(m, n)' = Logged(m, n)
      /\ \A B : Reaches(history', Heads', aside', B) = Reaches(history, Heads, aside, B)
  BY SameRegistry DEF GraphInv
<1>3. PendingInv'
  BY <1>1, <1>2 DEF GraphInv, PendingInv
<1>4. RoundInv'
  BY DEF RoundInv
<1>5. ASSUME Whole, cursor # 0, OnDisk' # {} PROVE Reached(OnDisk' \cup pending \cup OwnAbove)
  <2> DEFINE B2 == OnDisk' \cup pending \cup OwnAbove
  <2>1. B2 \subseteq Versions
    <3>1. OnDisk' \subseteq Versions
      BY DEF TypeInv, FilesOK, OnDisk, Versions, server
    <3> QED BY <3>1, AncFacts DEF OwnAbove, TypeInv, RegistryOK
  <2>2. CASE OnDisk \subseteq OnDisk' /\ (OnDisk = {} => cursor = 0 \/ OnDisk' = {})
    <3> DEFINE B == OnDisk \cup pending \cup OwnAbove
    <3>1. Reached(B)
      BY <1>5, <2>2, Weakest
    <3>2. B \subseteq B2
      BY <2>2
    <3> HIDE DEF B, B2
    <3> QED BY <2>1, <3>1, <3>2, Widened DEF B2
  <2>3. CASE phase = "trim" /\ OnDisk' = dag
    <3> DEFINE B == dag \cup pending
    <3>1. Reached(B)
      BY <1>5, <2>3 DEF GraphInv, DiskInv
    <3>2. B \subseteq B2
      BY <2>3
    <3> HIDE DEF B, B2
    <3> QED BY <2>1, <3>1, <3>2, Widened DEF B2
  <2> QED BY <1>5, <2>2, <2>3
<1>6. DiskInv'
  <2>1. OnDisk' \cup pending' \cup OwnAbove' = OnDisk' \cup pending \cup OwnAbove
    BY <1>1, <1>2
  <2> QED BY <1>2, <1>5, <2>1 DEF DiskInv, Early, Late, Reached
<1> QED BY <1>2, <1>3, <1>4, <1>6 DEF GraphInv

LEMMA endKeeps ==
  ASSUME TypeInv, GraphInv, TypeInv', ~ SnapshotMayGo, ~ LinesTear,
         SweepTrims \/ RoundEnds \/ Crash \/ GraphLost
  PROVE  GraphInv'
<1> USE DEF In
<1>1. UNCHANGED <<server, registry, cursor, aside>> /\ phase' = "idle"
  BY DEF SweepTrims, RoundEnds, Crash, GraphLost
<1>2. CASE SweepTrims
  <2>1. phase = "trim" /\ ~ torn' /\ OnDisk' = dag
    BY <1>2 DEF SweepTrims, OnDisk, GraphInv, RoundInv
  <2> QED BY <1>1, <2>1, restKeeps
<1>3. CASE RoundEnds
  <2>1. ~ torn' /\ OnDisk' = OnDisk
    BY <1>3 DEF RoundEnds, OnDisk, files, GraphInv
  <2> QED BY <1>1, <2>1, restKeeps
<1>4. CASE GraphLost
  <2>1. ~ torn' /\ OnDisk' = {}
    BY <1>4 DEF GraphLost, OnDisk
  <2> QED BY <1>1, <2>1, restKeeps
<1>5. CASE Crash /\ phase = "append"
  <2>1. ~ torn' /\ OnDisk \subseteq OnDisk'
    BY <1>5 DEF Crash, OnDisk, GraphInv
  <2>2. OnDisk = {} => cursor = 0
    BY <1>5 DEF GraphInv, RoundInv
  <2> QED BY <1>1, <2>1, <2>2, restKeeps
<1>6. CASE Crash /\ phase # "append"
  <2>1. ~ torn' /\ OnDisk' = OnDisk
    BY <1>6 DEF Crash, OnDisk, GraphInv
  <2> QED BY <1>1, <2>1, restKeeps
<1> QED BY <1>2, <1>3, <1>4, <1>5, <1>6

LEMMA beginKeeps ==
  ASSUME TypeInv, GraphInv, BeginRound
  PROVE  GraphInv'
<1> USE DEF In
<1>1. /\ UNCHANGED <<server, registry, snapshot, journal, aside>> /\ ~ torn'
      /\ phase = "idle" /\ phase' = "push"
      /\ cursor' = StartCursor /\ dag' = OnDisk /\ ops' = pending /\ end' = Len(log)
  BY DEF BeginRound, files, GraphInv
<1>2. UNCHANGED <<pending, log>>
  BY <1>1 DEF server, registry
<1>3. /\ Anc' = Anc /\ Whole' = Whole /\ LogInv'
      /\ \A m, n : Logged(m, n)' = Logged(m, n)
      /\ \A B : Reaches(history', Heads', aside', B) = Reaches(history, Heads, aside, B)
      /\ cursor' = cursor => OwnAbove' = OwnAbove /\ PassedInv'
  BY <1>1, SameRegistry DEF GraphInv
<1>4. Logged(0, 0) = {} /\ Logged(0, Len(log)) = ToSet(log) /\ cursor \in 0..Len(log)
  BY LoggedFacts DEF TypeInv, LogOK
<1>5. cursor' = 0 \/ (cursor' = cursor /\ OnDisk # {})
  BY <1>1 DEF StartCursor, dagNeedsRebuild
<1>6. OnDisk' = OnDisk
  BY <1>1 DEF OnDisk
<1>7. PassedInv'
  BY <1>3, <1>4, <1>5 DEF PassedInv
<1>8. PendingInv'
  BY <1>1, <1>2, <1>3, <1>4, <1>5 DEF GraphInv, PendingInv
<1>9. RoundInv'
  <2>1. cursor' <= end' /\ (OnDisk' = {} => cursor' = 0)
    BY <1>1, <1>4, <1>5, <1>6 DEF TypeInv, LogOK
  <2>2. Whole' => Anc' \subseteq Logged(0, end)' \cup ops'
    <3>1. Logged(0, end)' = Logged(0, Len(log))
      BY <1>1, <1>2 DEF Logged
    <3> QED BY <1>1, <1>3, <1>4, <3>1 DEF Whole
  <2> QED BY <1>1, <1>2, <1>6, <2>1, <2>2 DEF RoundInv
<1>10. DiskInv'
  BY <1>1, <1>2, <1>3, <1>5, <1>6 DEF GraphInv, DiskInv, Early, Late, Reached
<1> QED BY <1>1, <1>3, <1>7, <1>8, <1>9, <1>10 DEF GraphInv

LEMMA clearKeeps ==
  ASSUME TypeInv, GraphInv, TypeInv', ClearPendingOps
  PROVE  GraphInv'
<1> USE DEF In
<1>1. /\ UNCHANGED <<server, head, conf, cursor, snapshot, journal, dag, ops, end, aside>> /\ ~ torn'
      /\ phase = "clear" /\ phase' = "record"
  BY DEF ClearPendingOps, files, memory, GraphInv
<1>2. pending' = {} /\ ops = pending /\ pending \subseteq ToSet(log) /\ dag = OnDisk
  BY <1>1 DEF ClearPendingOps, GraphInv, RoundInv
<1>3. UNCHANGED <<history, log, mine>>
  BY <1>1 DEF server
<1>4. Anc' = Anc /\ Heads' = Heads /\ OnDisk' = OnDisk
  BY <1>1, <1>3 DEF Anc, Heads, OnDisk
<1>5. OwnAbove' = OwnAbove /\ \A m, n : Logged(m, n)' = Logged(m, n)
  BY <1>1, <1>3 DEF OwnAbove, Logged
<1>6. Whole' => Whole
  BY <1>2, <1>3, <1>4 DEF Whole
<1>7. PendingInv'
  BY <1>1, <1>2 DEF PendingInv
<1>8. LogInv' /\ PassedInv'
  BY <1>1, <1>3, <1>4, <1>5, <1>6 DEF GraphInv, LogInv, PassedInv
<1>9. RoundInv'
  BY <1>1, <1>2, <1>4, <1>5, <1>6 DEF GraphInv, RoundInv
<1>10. pending \subseteq OwnAbove
  <2>1. pending \cap Logged(0, cursor) = {} /\ pending \subseteq mine
    BY DEF GraphInv, PendingInv, TypeInv, RegistryOK
  <2>2. ToSet(log) = Logged(0, cursor) \cup Logged(cursor, Len(log))
    <3>1. LogOK /\ cursor \in 0..Len(log) /\ Len(log) \in 0..Len(log) /\ cursor <= Len(log)
      BY DEF TypeInv, LogOK
    <3> QED BY <3>1, LoggedFacts
  <2> QED BY <1>2, <2>1, <2>2 DEF OwnAbove
<1>11. DiskInv'
  <2> DEFINE B == OnDisk \cup pending \cup OwnAbove
  <2>1. OnDisk' \cup pending' \cup OwnAbove' = B
    BY <1>2, <1>4, <1>5, <1>10
  <2>2. Whole /\ cursor # 0 /\ OnDisk # {} => Reached(B)
    BY <1>1 DEF GraphInv, DiskInv, Early
  <2> HIDE DEF B
  <2> QED BY <1>1, <1>3, <1>4, <1>6, <2>1, <2>2 DEF DiskInv, Early, Late, Reached
<1> QED BY <1>1, <1>7, <1>8, <1>9, <1>11 DEF GraphInv

LEMMA saveKeeps ==
  ASSUME TypeInv, GraphInv, SaveCursor
  PROVE  GraphInv'
<1> USE DEF In
<1>1. /\ UNCHANGED <<history, log, mine, head, conf, pending, snapshot, journal>> /\ ~ torn'
      /\ phase = "folded" /\ phase' = "maintain" /\ cursor' = safeCursor
      /\ aside' = aside \cup (Logged(0, cursor') \ WalkUp(history, Named))
  BY DEF SaveCursor, server, registry, files, GraphInv
<1>2. Anc' = Anc /\ Heads' = Heads /\ OnDisk' = OnDisk /\ Whole' = Whole
      /\ \A m, n : Logged(m, n)' = Logged(m, n)
  BY <1>1 DEF Anc, Heads, OnDisk, Whole, Logged
<1>3. WalkUp(history, Named) = Anc
  <2>1. IsFiniteSet(DOMAIN history) /\ Heads \subseteq Anc
    BY AncFacts
  <2>2. Named \subseteq WalkUp(history, Heads) /\ Heads \subseteq Named
    BY <2>1 DEF Named, GraphInv, PendingInv, Anc
  <2>3. Heads \subseteq WalkUp(history, Named)
    BY <2>1, <2>2, WalkClosed
  <2> QED BY <2>1, <2>2, <2>3, WalkGrows DEF Anc
<1>4. cursor' \in 0..Len(log) /\ Logged(0, cursor') \subseteq ToSet(log)
  BY <1>1, SafeCursorIn, LoggedFacts DEF TypeInv
<1>5. PendingInv'
  <2>1. pending \subseteq Anc /\ pending \cap ToSet(log) = {}
    BY <1>1 DEF GraphInv, PendingInv
  <2>2. Logged(0, cursor)' = Logged(0, cursor')
    BY <1>1 DEF Logged
  <2> QED BY <1>1, <1>2, <1>4, <2>1, <2>2 DEF PendingInv
<1>6. LogInv'
  BY <1>1, <1>2 DEF GraphInv, LogInv
<1>7. PassedInv'
  <2>1. Logged(0, cursor)' = Logged(0, cursor')
    BY <1>1 DEF Logged
  <2> QED BY <1>1, <1>2, <1>3, <2>1 DEF PassedInv
<1>8. RoundInv'
  BY <1>1 DEF RoundInv
<1>9. DiskInv'
  <2> SUFFICES ASSUME Whole' PROVE Reaches(history, Heads, aside', OnDisk \cup pending)
    BY <1>1, <1>2 DEF DiskInv, Early, Late, Reached
  <2>1. Reached(OnDisk \cup pending)
    BY <1>1, <1>2 DEF GraphInv, DiskInv, Late
  <2>2. IsDag(history) /\ OnDisk \cup pending \subseteq DOMAIN history /\ aside \subseteq aside'
    BY <1>1, AncFacts
  <2> QED BY <2>1, <2>2, ReachGrows DEF Reached
<1> QED BY <1>1, <1>5, <1>6, <1>7, <1>8, <1>9 DEF GraphInv

LEMMA pushKeeps ==
  ASSUME TypeInv, GraphInv, Push
  PROVE  GraphInv'
<1> USE DEF In
<1>1. /\ UNCHANGED <<history, mine, head, conf, pending, cursor, snapshot, journal, dag, ops, end,
                     aside>> /\ ~ torn'
      /\ phase = "push" /\ phase' = "clear"
  BY DEF Push, registry, files, memory, GraphInv
<1>2. dag = OnDisk /\ ops = pending /\ cursor <= end
  BY <1>1 DEF GraphInv, RoundInv
<1>3. /\ LogOK' /\ Len(log) \in Nat /\ Len(log') \in Nat /\ Len(log) <= Len(log')
      /\ \A i \in 1..Len(log) : log'[i] = log[i]
      /\ \A i \in (Len(log) + 1)..Len(log') : log'[i] \in ops /\ log'[i] \notin ToSet(log)
      /\ \A i, j \in (Len(log) + 1)..Len(log') : i < j => log'[i] < log'[j]
      /\ ToSet(log') = ToSet(log) \cup ops
  BY PushTypes
<1>4. cursor \in 0..Len(log) /\ end \in 0..Len(log)
  BY DEF TypeInv, LogOK
<1>5. \A n \in 0..Len(log) : Logged(0, n)' = Logged(0, n)
  <2> SUFFICES ASSUME NEW n \in 0..Len(log) PROVE Logged(0, n)' = Logged(0, n)
    OBVIOUS
  <2>1. \A i \in (0 + 1)..n : i \in 1..Len(log)
    BY <1>3
  <2> QED BY <1>3, <2>1 DEF Logged
<1>6. Logged(cursor, Len(log)) \subseteq Logged(cursor, Len(log))'
  <2>1. \A i \in (cursor + 1)..Len(log) : i \in 1..Len(log) /\ i \in (cursor + 1)..Len(log')
    BY <1>3, <1>4
  <2> QED BY <1>1, <1>3, <2>1 DEF Logged
<1>7. Anc' = Anc /\ Heads' = Heads /\ OnDisk' = OnDisk
  BY <1>1 DEF Anc, Heads, OnDisk
<1>8. Whole' = Whole
  BY <1>1, <1>2, <1>3, <1>7 DEF Whole
<1>9. PendingInv'
  <2>1. Logged(0, cursor)' = Logged(0, cursor)
    BY <1>1, <1>4, <1>5
  <2> QED BY <1>1, <1>7, <2>1 DEF GraphInv, PendingInv
<1>10. PassedInv'
  <2>1. Logged(0, cursor)' = Logged(0, cursor)
    BY <1>1, <1>4, <1>5
  <2> QED BY <1>1, <1>7, <1>8, <2>1 DEF GraphInv, PassedInv
<1>11. RoundInv'
  <2>1. Logged(0, end)' = Logged(0, end)
    BY <1>1, <1>4, <1>5
  <2>2. (OnDisk = {} => cursor = 0) /\ (Whole => Anc \subseteq Logged(0, end) \cup ops)
    BY <1>1 DEF GraphInv, RoundInv
  <2> QED BY <1>1, <1>2, <1>3, <1>7, <1>8, <2>1, <2>2 DEF RoundInv
<1>12. DiskInv'
  <2> SUFFICES ASSUME Whole, cursor # 0, OnDisk # {}
               PROVE  Reached(OnDisk \cup pending \cup OwnAbove')
    BY <1>1, <1>7, <1>8 DEF DiskInv, Early, Late, Reached
  <2>1. Reached(OnDisk \cup pending \cup OwnAbove)
    BY Weakest
  <2>2. OwnAbove \subseteq OwnAbove'
    BY <1>1, <1>6 DEF OwnAbove
  <2>3. OwnAbove' \subseteq Versions /\ OwnAbove \subseteq Versions
    BY <1>1 DEF OwnAbove, TypeInv, RegistryOK
  <2> QED BY <2>1, <2>2, <2>3, AncFacts, Widened
<1>13. LogInv'
  <2> SUFFICES ASSUME Whole, NEW n \in 0..Len(log'), NEW v \in Logged(0, n)'
               PROVE  ParentsOf(history, v) \subseteq Logged(0, n)'
    BY <1>1, <1>8 DEF LogInv, Closed
  <2>1. \A m \in 0..Len(log) : Closed(history, Logged(0, m))
    BY DEF GraphInv, LogInv
  <2>2. CASE n <= Len(log)
    <3>1. n \in 0..Len(log)
      BY <2>2, <1>3
    <3> QED BY <1>5, <2>1, <3>1 DEF Closed
  <2>3. CASE Len(log) < n
    <3>1. PICK i \in 1..n : log'[i] = v
      BY DEF Logged
    <3>2. Logged(0, Len(log)) = ToSet(log) /\ Len(log) \in 0..Len(log)
      BY <1>3, LoggedFacts DEF TypeInv
    <3>3. ToSet(log) \subseteq Logged(0, n)'
      <4>1. 1..Len(log) \subseteq 1..n
        BY <1>3, <2>3
      <4>2. \A k \in 1..Len(log) : log[k] \in Logged(0, n)'
        BY <1>3, <4>1 DEF Logged
      <4>3. DOMAIN log = 1..Len(log)
        BY DEF TypeInv, LogOK
      <4> QED BY <4>2, <4>3 DEF ToSet
    <3>4. CASE i <= Len(log)
      <4>1. i \in 1..Len(log)
        BY <1>3, <3>4
      <4>2. v \in ToSet(log)
        <5>1. DOMAIN log = 1..Len(log)
          BY DEF TypeInv, LogOK
        <5> QED BY <1>3, <3>1, <4>1, <5>1 DEF ToSet
      <4> QED BY <2>1, <3>2, <3>3, <4>2 DEF Closed
    <3>5. CASE Len(log) < i
      <4>1. i \in (Len(log) + 1)..Len(log')
        BY <1>3, <3>5
      <4>2. v \in pending /\ v \in Anc
        BY <1>2, <1>3, <3>1, <4>1 DEF GraphInv, PendingInv
      <4> SUFFICES ASSUME NEW p \in ParentsOf(history, v) PROVE p \in Logged(0, n)'
        OBVIOUS
      <4>3. p \in ToSet(log) \cup ops
        BY <1>2, <4>2, AncFacts DEF Closed, Whole
      <4>4. p \in 1..(v - 1) /\ v \in Nat
        BY <4>2, AncFacts, HistoryIsDag DEF ParentsOf, TypeInv, HistoryOK
      <4>5. CASE p \in ToSet(log)
        BY <3>3, <4>5
      <4>6. CASE p \notin ToSet(log)
        <5>1. p \in ToSet(log')
          BY <1>3, <4>3
        <5>2. PICK j \in 1..Len(log') : log'[j] = p
          BY <1>3, <5>1 DEF ToSet, LogOK
        <5>3. ~ (j <= Len(log))
          <6> SUFFICES ASSUME j \in 1..Len(log) PROVE FALSE
            BY <1>3
          <6>1. log[j] = p /\ DOMAIN log = 1..Len(log)
            BY <1>3, <5>2 DEF TypeInv, LogOK
          <6> QED BY <4>6, <6>1 DEF ToSet
        <5>4. j \in (Len(log) + 1)..Len(log')
          BY <1>3, <5>3
        <5>5. ~ (i < j) /\ i # j
          <6>1. i < j => v < p
            BY <1>3, <3>1, <4>1, <5>2, <5>4
          <6> QED BY <3>1, <4>4, <5>2, <6>1
        <5>6. j \in (0 + 1)..n
          BY <1>3, <5>4, <5>5, <4>1
        <5> QED BY <5>2, <5>6 DEF Logged
      <4> QED BY <4>5, <4>6
    <3> QED BY <1>3, <3>4, <3>5
  <2> QED BY <1>3, <2>2, <2>3
<1> QED BY <1>1, <1>9, <1>10, <1>11, <1>12, <1>13 DEF GraphInv

LEMMA peerKeeps ==
  ASSUME TypeInv, GraphInv, TypeInv', NEW v, NEW parents, parents \subseteq ToSet(log),
         PeerWrites(v, parents)
  PROVE  GraphInv'
<1> USE DEF In
<1>1. /\ UNCHANGED <<mine, head, conf, pending, cursor, snapshot, journal, dag, ops, end, phase,
                     aside>> /\ ~ torn'
      /\ phase = "idle" \/ phase = "push"
  BY DEF PeerWrites, registry, files, memory, GraphInv
<1>2. /\ Extends(history, history', v) /\ history'[v].parents = parents
      /\ LogOK' /\ Len(log) \in Nat /\ Len(log') = Len(log) + 1
      /\ \A i \in 1..Len(log) : log'[i] = log[i]
      /\ log'[Len(log) + 1] = v /\ ToSet(log') = ToSet(log) \cup {v}
  BY PeerTypes
<1>3. cursor \in 0..Len(log) /\ end \in 0..Len(log)
  BY DEF TypeInv, LogOK
<1>4. /\ IsDag(history) /\ DOMAIN history = Versions /\ Heads \subseteq Versions
      /\ Anc \subseteq Versions /\ OnDisk \subseteq Versions /\ pending \subseteq Versions
      /\ OwnAbove \subseteq Versions
  BY AncFacts DEF OwnAbove, TypeInv, RegistryOK
<1>5. Heads' = Heads /\ OnDisk' = OnDisk
  BY <1>1 DEF Heads, OnDisk
<1>6. Anc' = Anc
  BY <1>2, <1>4, <1>5, WalkOld DEF Anc
<1>7. v \notin Versions /\ Versions' = Versions \cup {v}
  BY <1>2, <1>4 DEF Extends, Versions
<1>8. Whole' => Whole
  BY <1>1, <1>2, <1>4, <1>6, <1>7 DEF Whole
<1>9. \A n \in 0..Len(log) : Logged(0, n)' = Logged(0, n)
  <2> SUFFICES ASSUME NEW n \in 0..Len(log) PROVE Logged(0, n)' = Logged(0, n)
    OBVIOUS
  <2>1. \A i \in (0 + 1)..n : i \in 1..Len(log)
    BY <1>2
  <2> QED BY <1>2, <2>1 DEF Logged
<1>10. OwnAbove \subseteq OwnAbove'
  <2>1. \A i \in (cursor + 1)..Len(log) : i \in 1..Len(log) /\ i \in (cursor + 1)..Len(log')
    BY <1>2, <1>3
  <2> QED BY <1>1, <1>2, <2>1 DEF Logged, OwnAbove
<1>11. PendingInv' /\ PassedInv'
  <2>1. Logged(0, cursor)' = Logged(0, cursor)
    BY <1>1, <1>3, <1>9
  <2> QED BY <1>1, <1>6, <1>8, <2>1 DEF GraphInv, PendingInv, PassedInv
<1>12. RoundInv'
  <2>1. Logged(0, end)' = Logged(0, end)
    BY <1>1, <1>3, <1>9
  <2> QED BY <1>1, <1>5, <1>6, <1>8, <2>1 DEF GraphInv, RoundInv
<1>13. DiskInv'
  <2> SUFFICES ASSUME Whole, cursor # 0, OnDisk # {}
               PROVE  Reaches(history', Heads, aside, OnDisk \cup pending \cup OwnAbove')
    BY <1>1, <1>5, <1>8 DEF DiskInv, Early, Late, Reached
  <2> DEFINE B == OnDisk \cup pending \cup OwnAbove
             B2 == OnDisk \cup pending \cup OwnAbove'
  <2>1. Reached(B)
    BY Weakest
  <2>2. B \subseteq Versions /\ B \subseteq B2
    BY <1>4, <1>10
  <2>3. B2 \subseteq Versions'
    BY <1>1, <1>4, <1>7 DEF OwnAbove, TypeInv, RegistryOK
  <2> HIDE DEF B, B2
  <2>4. Reaches(history', Heads, aside, B)
    BY <1>2, <1>4, <2>1, <2>2, ReachOld DEF Reached
  <2>5. IsDag(history') /\ DOMAIN history' = Versions'
    BY <1>2, <1>4, ExtendedDag DEF Versions
  <2>6. Reaches(history', Heads, aside, B2)
    BY <1>7, <2>2, <2>3, <2>4, <2>5, ReachGrows
  <2> QED BY <2>6 DEF B2
<1>14. LogInv'
  <2> SUFFICES ASSUME Whole, NEW n \in 0..Len(log'), NEW u \in Logged(0, n)'
               PROVE  ParentsOf(history', u) \subseteq Logged(0, n)'
    BY <1>8 DEF LogInv, Closed
  <2>1. \A m \in 0..Len(log) : Closed(history, Logged(0, m)) /\ Logged(0, m) \subseteq Versions
    <3>1. \A m \in 0..Len(log) : Logged(0, m) \subseteq Versions
      BY LoggedIn DEF TypeInv
    <3> QED BY <3>1 DEF GraphInv, LogInv
  <2>2. /\ \A w : w # v => ParentsOf(history', w) = ParentsOf(history, w)
        /\ ParentsOf(history', v) = parents
    BY <1>2, <1>4, ExtendedDag
  <2>3. CASE n \in 0..Len(log)
    <3>1. Logged(0, n)' = Logged(0, n) /\ u # v
      BY <1>7, <1>9, <2>1, <2>3
    <3> QED BY <2>1, <2>2, <2>3, <3>1 DEF Closed
  <2>4. CASE n = Len(log) + 1
    <3>1. Logged(0, n)' = ToSet(log')
      BY <1>2, <2>4, LoggedFacts DEF LogOK, ToSet, Logged
    <3>2. Logged(0, Len(log)) = ToSet(log) /\ Len(log) \in 0..Len(log)
      BY <1>2, LoggedFacts DEF TypeInv
    <3>3. CASE u = v
      BY <1>2, <2>2, <3>1, <3>3
    <3>4. CASE u # v
      BY <1>2, <2>1, <2>2, <3>1, <3>2, <3>4 DEF Closed
    <3> QED BY <3>3, <3>4
  <2> QED BY <1>2, <2>3, <2>4
<1> QED BY <1>1, <1>11, <1>12, <1>13, <1>14 DEF GraphInv

LEMMA localKeeps ==
  ASSUME TypeInv, GraphInv, TypeInv', NEW v, LocalEdit(v)
  PROVE  GraphInv'
<1> USE DEF In
<1>1. /\ UNCHANGED <<log, cursor, snapshot, journal, dag, ops, end, phase, aside>> /\ ~ torn'
      /\ phase \in {"idle", "maintain", "sweep", "trim"}
      /\ mine' = mine \cup {v} /\ pending' = pending \cup {v}
  BY DEF LocalEdit, Quiet, files, memory, GraphInv
<1>2. /\ Extends(history, history', v) /\ history'[v].parents = Heads
      /\ Versions' = Versions \cup {v} /\ v \notin Versions /\ Heads' = {v}
  BY LocalTypes
<1>3. /\ IsDag(history) /\ DOMAIN history = Versions /\ Heads \subseteq Versions
      /\ Anc \subseteq Versions /\ OnDisk \subseteq Versions /\ pending \subseteq Versions
      /\ OwnAbove \subseteq Versions /\ dag \subseteq Versions
  BY AncFacts DEF OwnAbove, TypeInv, RegistryOK
<1>4. Anc' = Anc \cup {v}
  <2>1. WalkUp(history', {v}) = WalkUp(history, Heads) \cup {v}
    <3>1. /\ IsDag(history) /\ Extends(history, history', v)
      BY <1>2, <1>3
    <3>2. WalkUp(history', {v}) = WalkUp(history, history'[v].parents) \cup {v}
      BY <3>1, WalkBorn
    <3> QED BY <1>2, <3>2
  <2> QED BY <1>2, <2>1 DEF Anc
<1>5. \A m, n : Logged(m, n)' = Logged(m, n)
  BY <1>1 DEF Logged
<1>6. OnDisk' = OnDisk /\ OwnAbove \subseteq OwnAbove'
  BY <1>1, <1>5 DEF OnDisk, OwnAbove
<1>7. ToSet(log) \subseteq Versions /\ \A n \in 0..Len(log) : Logged(0, n) \subseteq Versions
  <2>1. ToSet(log) \subseteq Versions
    BY DEF TypeInv, LogOK, ToSet
  <2>2. \A n \in 0..Len(log) : Logged(0, n) \subseteq ToSet(log)
    BY LoggedFacts DEF TypeInv
  <2> QED BY <2>1, <2>2
<1>8. Whole' => Whole
  BY <1>1, <1>2, <1>3, <1>4 DEF Whole
<1>9. PendingInv'
  <2>1. cursor \in 0..Len(log)
    BY DEF TypeInv, LogOK
  <2>2. pending' \subseteq Anc'
    BY <1>1, <1>4 DEF GraphInv, PendingInv
  <2>3. pending' \cap Logged(0, cursor)' = {}
    BY <1>1, <1>2, <1>5, <1>7, <2>1 DEF GraphInv, PendingInv
  <2> QED BY <1>1, <2>2, <2>3 DEF PendingInv
<1>10. PassedInv'
  BY <1>1, <1>4, <1>5, <1>8 DEF GraphInv, PassedInv
<1>11. RoundInv'
  BY <1>1, <1>6 DEF GraphInv, RoundInv
<1>12. LogInv'
  <2> SUFFICES ASSUME Whole, NEW n \in 0..Len(log), NEW u \in Logged(0, n)
               PROVE  ParentsOf(history', u) \subseteq Logged(0, n)
    BY <1>1, <1>5, <1>8 DEF LogInv, Closed
  <2>1. ParentsOf(history', u) = ParentsOf(history, u)
    <3>1. u # v
      BY <1>2, <1>7
    <3> QED BY <1>2, <1>3, <3>1, ExtendedDag
  <2> QED BY <2>1 DEF GraphInv, LogInv, Closed
<1>13. ASSUME NEW B, Reached(B), B \subseteq Versions, NEW B2, B \cup {v} \subseteq B2,
              B2 \subseteq Versions'
       PROVE  Reaches(history', Heads', aside', B2)
  <2>1. B2 \subseteq DOMAIN history'
    BY <1>13 DEF Versions
  <2>2. /\ IsDag(history) /\ Extends(history, history', v) /\ B \subseteq DOMAIN history
        /\ Reaches(history, history'[v].parents, aside, B)
    BY <1>2, <1>3, <1>13 DEF Reached
  <2>3. Reaches(history', {v}, aside, B2)
    BY <1>13, <2>1, <2>2, ReachBorn
  <2> QED BY <1>1, <1>2, <2>3
<1>14. OwnAbove' \subseteq Versions' /\ pending' \subseteq Versions'
  BY <1>1, <1>2 DEF OwnAbove, TypeInv, RegistryOK
<1>15. ASSUME Whole PROVE /\ phase = "idle" /\ cursor # 0 /\ OnDisk # {} =>
                                Reached(OnDisk \cup pending \cup OwnAbove)
                          /\ phase = "maintain" => Reached(OnDisk \cup pending)
                          /\ phase \in {"sweep", "trim"} /\ cursor # 0 => Reached(dag \cup pending)
  BY <1>15 DEF GraphInv, DiskInv, Early, Late
<1>16. /\ OnDisk \cup pending \cup OwnAbove \subseteq Versions
       /\ OnDisk \cup pending \subseteq Versions /\ dag \cup pending \subseteq Versions
       /\ (OnDisk \cup pending \cup OwnAbove) \cup {v} \subseteq OnDisk' \cup pending' \cup OwnAbove'
       /\ (OnDisk \cup pending) \cup {v} \subseteq OnDisk' \cup pending'
       /\ (dag \cup pending) \cup {v} \subseteq dag' \cup pending'
       /\ OnDisk' \cup pending' \cup OwnAbove' \subseteq Versions'
       /\ OnDisk' \cup pending' \subseteq Versions' /\ dag' \cup pending' \subseteq Versions'
  BY <1>1, <1>2, <1>3, <1>6, <1>14
<1>17. DiskInv'
  <2> SUFFICES ASSUME Whole
               PROVE  /\ phase = "idle" /\ cursor # 0 /\ OnDisk # {} =>
                            Reaches(history', Heads', aside', OnDisk' \cup pending' \cup OwnAbove')
                      /\ phase = "maintain" => Reaches(history', Heads', aside', OnDisk' \cup pending')
                      /\ phase \in {"sweep", "trim"} /\ cursor # 0 =>
                            Reaches(history', Heads', aside', dag' \cup pending')
    BY <1>1, <1>6, <1>8 DEF DiskInv, Early, Late, Reached
  <2>1. ASSUME phase = "idle" /\ cursor # 0 /\ OnDisk # {}
        PROVE  Reaches(history', Heads', aside', OnDisk' \cup pending' \cup OwnAbove')
    BY <1>13, <1>15, <1>16, <2>1
  <2>2. ASSUME phase = "maintain" PROVE Reaches(history', Heads', aside', OnDisk' \cup pending')
    BY <1>13, <1>15, <1>16, <2>2
  <2>3. ASSUME phase \in {"sweep", "trim"}, cursor # 0
        PROVE  Reaches(history', Heads', aside', dag' \cup pending')
    BY <1>13, <1>15, <1>16, <2>3
  <2> QED BY <2>1, <2>2, <2>3
<1> QED BY <1>1, <1>9, <1>10, <1>11, <1>12, <1>17 DEF GraphInv

\* The outcome of a merge of the head r with the graph K, which goes to disk with it.
LEMMA outcomeKeeps ==
  ASSUME TypeInv, GraphInv, TypeInv', phase \in {"merge", "fold"}, phase' \in {"fold", "folded"},
         UNCHANGED <<log, cursor, end, aside>>, ~ torn', NEW r \in Pulled,
         OnDisk' = dag \cup pending, dag' = dag \cup pending,
         \/ UNCHANGED <<history, mine, registry>>
         \/ Unmoved \/ Moved(dag \cup pending, r) \/ United(dag \cup pending, r)
  PROVE  GraphInv'
<1> DEFINE K == dag \cup pending
<1>1. /\ IsDag(history) /\ DOMAIN history = Versions /\ Heads \subseteq Versions
      /\ Anc \subseteq Versions /\ K \subseteq Versions /\ pending \subseteq Anc
      /\ IsFiniteSet(DOMAIN history) /\ Heads \subseteq Anc
  BY AncFacts DEF GraphInv, PendingInv
<1>2. /\ cursor \in 0..Len(log) /\ end \in 0..Len(log) /\ cursor <= end /\ Len(log) \in Nat
      /\ Pulled \subseteq dag /\ OnDisk = dag /\ pending \cap ToSet(log) = {}
  BY DEF GraphInv, RoundInv, PendingInv, TypeInv, LogOK
<1>3. /\ Logged(0, end) = Logged(0, cursor) \cup Pulled
      /\ \A n \in 0..Len(log) : Logged(0, n) \subseteq ToSet(log)
  BY <1>2, LoggedFacts DEF TypeInv, Pulled
<1>4. \A m, n : Logged(m, n)' = Logged(m, n)
  BY DEF Logged
<1>5. Pulled' = Pulled
  BY <1>4 DEF Pulled
<1>6. RoundInv'
  BY <1>2, <1>5 DEF RoundInv
<1>7. Whole => /\ Reached(K)
               /\ Closed(history, Logged(0, cursor)) /\ Closed(history, Logged(0, cursor) \cup Pulled)
               /\ Logged(0, cursor) \subseteq Anc \cup aside
               /\ \A n \in 0..Len(log) : Closed(history, Logged(0, n))
  BY <1>2, <1>3 DEF GraphInv, DiskInv, LogInv, PassedInv, Late
<1> HIDE DEF K
<1>8. ToSet(log) \subseteq Versions
  BY DEF TypeInv, LogOK, ToSet
<1>9. CASE UNCHANGED <<history, mine, head, conf>> /\ pending' \subseteq pending
  <2>1. Anc' = Anc /\ Heads' = Heads
    BY <1>9 DEF Anc, Heads
  <2>2. Whole' => Whole
    BY <1>9, <2>1 DEF Whole
  <2>3. PendingInv'
    BY <1>1, <1>2, <1>4, <1>9, <2>1 DEF GraphInv, PendingInv
  <2>4. LogInv' /\ PassedInv'
    BY <1>4, <1>9, <2>1, <2>2 DEF GraphInv, LogInv, PassedInv
  <2>5. OnDisk' \cup pending' = K
    BY <1>9 DEF K
  <2>6. DiskInv'
    BY <1>7, <1>9, <2>1, <2>2, <2>5 DEF DiskInv, Early, Late, Reached
  <2> QED BY <1>6, <2>3, <2>4, <2>6 DEF GraphInv
<1>10. ASSUME NEW H2, Heads \subseteq WalkUp(Sub(history, K), H2), H2 \subseteq Heads \cup {r}
       PROVE  /\ Anc \subseteq WalkUp(history, H2) /\ H2 \subseteq Versions
              /\ Whole => Reaches(history, H2, aside, K)
  <2>1. WalkUp(Sub(history, K), H2) \subseteq WalkUp(history, H2)
    BY <1>1, SubWalk
  <2>2. Anc \subseteq WalkUp(history, H2)
    BY <1>1, <1>10, <2>1, WalkGrows DEF Anc
  <2>3. r \in Versions
    BY <1>1, <1>2, AncFacts
  <2>4. ASSUME Whole PROVE Reaches(history, H2, aside, K)
    <3>1. Pulled \subseteq K /\ H2 \subseteq Heads \cup Logged(0, cursor) \cup Pulled
      BY <1>2, <1>10 DEF K
    <3>2. Logged(0, cursor) \subseteq WalkUp(history, Heads) \cup aside
      BY <1>7, <2>4 DEF Anc
    <3> DEFINE P == Logged(0, cursor)
    <3>3. /\ IsDag(history) /\ Pulled \subseteq K
          /\ Heads \subseteq WalkUp(Sub(history, K), H2)
          /\ Reaches(history, Heads, aside, K) /\ K \subseteq DOMAIN history
          /\ Closed(history, P) /\ Closed(history, P \cup Pulled)
          /\ P \subseteq WalkUp(history, Heads) \cup aside /\ H2 \subseteq Heads \cup P \cup Pulled
      BY <1>1, <1>7, <1>10, <2>4, <3>1, <3>2 DEF Reached
    <3> HIDE DEF P
    <3> QED BY <3>3, ReachMoves
  <2> QED BY <1>1, <1>10, <2>2, <2>3, <2>4
<1>11. CASE Moved(K, r)
  <2>1. /\ pending' = {} /\ UNCHANGED <<history, mine>>
        /\ Heads \subseteq WalkUp(Sub(history, K), Heads') /\ Heads' \subseteq Heads \cup {r}
    BY <1>11 DEF Moved
  <2>2. /\ Anc \subseteq Anc'
        /\ Whole => Reaches(history, Heads', aside, K)
    BY <1>10, <2>1 DEF Anc
  <2>3. Whole' => Whole
    BY <2>1, <2>2 DEF Whole
  <2>4. PendingInv'
    BY <2>1 DEF PendingInv
  <2>5. LogInv' /\ PassedInv'
    BY <1>4, <2>1, <2>2, <2>3 DEF GraphInv, LogInv, PassedInv
  <2>6. OnDisk' \cup pending' = K
    BY <2>1 DEF K
  <2>7. DiskInv'
    BY <2>1, <2>2, <2>3, <2>6 DEF DiskInv, Early, Late, Reached
  <2> QED BY <1>6, <2>4, <2>5, <2>7 DEF GraphInv
<1>12. CASE United(K, r)
  <2>1. PICK v, H2 :
          /\ Extends(history, history', v) /\ history'[v].parents = H2
          /\ Heads \subseteq WalkUp(Sub(history, K), H2) /\ H2 \subseteq Heads \cup {r}
          /\ mine' = mine \cup {v} /\ pending' = {v} /\ Heads' = {v}
    BY <1>12 DEF United
  <2>2. /\ Anc \subseteq WalkUp(history, H2) /\ H2 \subseteq Versions
        /\ Whole => Reaches(history, H2, aside, K)
    BY <1>10, <2>1
  <2>3. v \notin Versions /\ DOMAIN history' = Versions \cup {v}
    BY <1>1, <2>1 DEF Extends
  <2>4. Anc' = WalkUp(history, H2) \cup {v}
    <3>1. /\ IsDag(history) /\ Extends(history, history', v)
      BY <1>1, <2>1
    <3>2. WalkUp(history', {v}) = WalkUp(history, history'[v].parents) \cup {v}
      BY <3>1, WalkBorn
    <3> QED BY <2>1, <3>2 DEF Anc
  <2>5. Whole' => Whole
    BY <1>1, <2>1, <2>2, <2>3, <2>4 DEF Whole
  <2>6. PendingInv'
    <3>1. pending' \subseteq Anc'
      BY <2>1, <2>4
    <3>2. pending' \cap ToSet(log) = {} /\ pending' \cap Logged(0, cursor) = {}
      BY <1>2, <1>3, <1>8, <2>1, <2>3
    <3> QED BY <1>4, <3>1, <3>2 DEF PendingInv
  <2>7. PassedInv'
    BY <1>4, <2>2, <2>4, <2>5 DEF GraphInv, PassedInv
  <2>8. LogInv'
    <3> SUFFICES ASSUME Whole, NEW n \in 0..Len(log), NEW u \in Logged(0, n)
                 PROVE  ParentsOf(history', u) \subseteq Logged(0, n)
      BY <1>4, <2>5 DEF LogInv, Closed
    <3>1. u # v
      BY <1>3, <1>8, <2>3
    <3>2. ParentsOf(history', u) = ParentsOf(history, u)
      BY <1>1, <2>1, <3>1, ExtendedDag
    <3> QED BY <1>7, <3>2 DEF Closed
  <2>9. DiskInv'
    <3> SUFFICES ASSUME Whole PROVE Reaches(history', Heads', aside', OnDisk' \cup pending')
      BY <2>5 DEF DiskInv, Early, Late, Reached
    <3>1. OnDisk' \cup pending' = K \cup {v}
      BY <2>1 DEF K
    <3>2. K \cup {v} \subseteq DOMAIN history' /\ K \subseteq DOMAIN history
      BY <1>1, <2>3
    <3>3. /\ IsDag(history) /\ Extends(history, history', v)
          /\ Reaches(history, history'[v].parents, aside, K)
      BY <1>1, <2>1, <2>2
    <3>4. Reaches(history', {v}, aside, K \cup {v})
      BY <3>2, <3>3, ReachBorn
    <3> QED BY <2>1, <3>1, <3>4
  <2> QED BY <1>6, <2>6, <2>7, <2>8, <2>9 DEF GraphInv
<1>13. Unmoved \/ UNCHANGED <<history, mine, registry>> =>
          UNCHANGED <<history, mine, head, conf>> /\ pending' \subseteq pending
  BY DEF Unmoved, registry
<1> QED BY <1>9, <1>11, <1>12, <1>13 DEF K

LEMMA mergeKeeps ==
  ASSUME TypeInv, GraphInv, TypeInv', Merge \/ Fold
  PROVE  GraphInv'
<1> USE DEF In
<1>1. \A r \in Foreign : r \in Pulled /\ r \in Versions
  BY ForeignIn DEF TypeInv
<1>2. dag \cup pending \subseteq Versions
  BY AncFacts
<1>3. CASE Merge /\ Foreign = {}
  <2>1. /\ UNCHANGED <<history, log, mine, head, conf, cursor, snapshot, journal, torn, dag, ops,
                       end, aside>>
        /\ phase = "merge" /\ phase' = "fold" /\ pending' = {}
    BY <1>3 DEF Merge, Holds, files, memory
  <2>2. pending' = pending
    BY <2>1 DEF GraphInv, PendingInv
  <2>3. UNCHANGED <<server, registry>>
    BY <2>1, <2>2 DEF server, registry
  <2>4. /\ Anc' = Anc /\ Whole' = Whole /\ LogInv' /\ PassedInv'
        /\ \A m, n : Logged(m, n)' = Logged(m, n)
        /\ \A B : Reaches(history', Heads', aside', B) = Reaches(history, Heads, aside, B)
    BY <2>1, <2>3, SameRegistry DEF GraphInv
  <2>5. OnDisk' = OnDisk /\ Pulled' = Pulled
    BY <2>1, <2>4 DEF OnDisk, Pulled
  <2>6. PendingInv'
    BY <2>1, <2>2, <2>4 DEF GraphInv, PendingInv
  <2>7. RoundInv'
    BY <2>1, <2>5 DEF GraphInv, RoundInv
  <2>8. DiskInv'
    BY <2>1, <2>2, <2>4, <2>5 DEF GraphInv, DiskInv, Early, Late, Reached
  <2> QED BY <2>1, <2>4, <2>6, <2>7, <2>8 DEF GraphInv
<1>4. CASE Merge /\ Foreign # {}
  <2>1. /\ UNCHANGED <<log, cursor, end, aside, snapshot, journal, dag>> /\ ~ torn'
        /\ phase = "merge" /\ phase' = "fold"
        /\ Reconcile(Graph(dag), Max(Foreign)) /\ Max(Foreign) \in Foreign
    BY <1>4, ForeignIn DEF Merge, files, memory, GraphInv, TypeInv
  <2>2. dag \cup pending = dag /\ OnDisk = dag
    BY <2>1 DEF GraphInv, PendingInv, RoundInv
  <2>3. OnDisk' = dag \cup pending /\ dag' = dag \cup pending
    BY <2>1, <2>2 DEF OnDisk
  <2>4. \/ Unmoved \/ Moved(dag \cup pending, Max(Foreign))
        \/ United(dag \cup pending, Max(Foreign))
    BY <1>1, <1>2, <2>1, <2>2, ReconcileOutcome DEF TypeInv
  <2> QED BY <1>1, <2>1, <2>3, <2>4, outcomeKeeps
<1>5. CASE Fold
  <2>1. /\ UNCHANGED <<log, cursor, end, aside, snapshot>> /\ ~ torn'
        /\ phase = "fold" /\ phase' \in {"fold", "folded"}
        /\ dag' = Known
        /\ journal' = journal \cup (Known \ dag)
    BY <1>5 DEF Fold, GraphInv, Landed
  <2>2. PICK r \in Extras(Graph(Known)) :
            Reconcile(Graph(Known), r) \/ UNCHANGED <<history, mine, registry>>
    BY <1>5 DEF Fold
  <2>3. r \in Foreign /\ Known = dag \cup pending
    BY <2>2 DEF Extras, Known
  <2>4. OnDisk = dag
    BY <2>1 DEF GraphInv, RoundInv
  <2>5. OnDisk' = dag \cup pending /\ dag' = dag \cup pending
    BY <2>1, <2>3, <2>4 DEF OnDisk
  <2>6. \/ UNCHANGED <<history, mine, registry>>
        \/ Unmoved \/ Moved(dag \cup pending, r) \/ United(dag \cup pending, r)
    BY <1>1, <1>2, <2>2, <2>3, ReconcileOutcome DEF TypeInv
  <2> QED BY <1>1, <2>1, <2>3, <2>5, <2>6, outcomeKeeps
<1> QED BY <1>3, <1>4, <1>5

----------------------------------------------------------------------------

LEMMA GraphInit ==
  ASSUME Init
  PROVE  GraphInv
<1>1. Heads = {} /\ pending = {} /\ cursor = 0 /\ ~ torn /\ phase = "idle" /\ log = <<>>
      /\ history = EmptyDag
  BY DEF Init, Heads
<1>2. \A n \in 0..Len(log) : Logged(0, n) = {}
  BY <1>1 DEF Logged
<1>3. Logged(0, cursor) = {}
  BY <1>1 DEF Logged
<1> QED BY <1>1, <1>2, <1>3
        DEF GraphInv, PendingInv, LogInv, PassedInv, DiskInv, RoundInv, Early, Late, Closed

LEMMA GraphStep ==
  ASSUME TypeInv, TypeInv', GraphInv, [Next]_vars,
         ~ SnapshotMayGo, ~ CollectsEarly, ~ LinesTear
  PROVE  GraphInv'
<1>1. CASE \E v \in {NextVersion} :
              \/ LocalEdit(v)
              \/ \E parents \in {{}} \cup {{p, q} : p, q \in ToSet(log)} : PeerWrites(v, parents)
  <2>1. CASE \E v : LocalEdit(v)
    BY <2>1, localKeeps
  <2>2. CASE \E v : \E parents \in {{}} \cup {{p, q} : p, q \in ToSet(log)} : PeerWrites(v, parents)
    <3>1. PICK v : \E parents \in {{}} \cup {{p, q} : p, q \in ToSet(log)} : PeerWrites(v, parents)
      BY <2>2
    <3>2. PICK parents \in {{}} \cup {{p, q} : p, q \in ToSet(log)} : PeerWrites(v, parents)
      BY <3>1
    <3>3. parents \subseteq ToSet(log)
      BY <3>2
    <3> QED BY <3>2, <3>3, peerKeeps
  <2> QED BY <1>1, <2>1, <2>2
<1>2. CASE Round
  <2>1. CASE BeginRound
    BY <2>1, beginKeeps
  <2>2. CASE Push
    BY <2>2, pushKeeps
  <2>3. CASE ClearPendingOps
    BY <2>3, clearKeeps
  <2>4. CASE recordVersionEdges
    BY <2>4, recordKeeps
  <2>5. CASE EdgesAppended
    BY <2>5, appendKeeps
  <2>6. CASE SnapshotWritten \/ JournalRemoved
    BY <2>6, compactKeeps
  <2>7. CASE MergeDefers \/ MergeMisses \/ FoldsEnd
    BY <2>7, skipKeeps
  <2>8. CASE Merge \/ Fold
    BY <2>8, mergeKeeps
  <2>9. CASE SaveCursor
    BY <2>9, saveKeeps
  <2>10. CASE RoundEnds
    BY <2>10, endKeeps
  <2> QED BY <1>2, <2>1, <2>2, <2>3, <2>4, <2>5, <2>6, <2>7, <2>8, <2>9, <2>10 DEF Round
<1>3. CASE Sweep
  BY <1>3, sweepKeeps
<1>4. CASE SweepWritten
  BY <1>4, writtenKeeps
<1>5. CASE SweepTrims \/ Crash \/ GraphLost
  BY <1>5, endKeeps
<1>6. CASE UNCHANGED vars
  <2>1. UNCHANGED <<server, registry, cursor, aside, files, phase, memory>>
    BY <1>6 DEF vars
  <2>2. /\ Anc' = Anc /\ Whole' = Whole /\ LogInv' = LogInv /\ OwnAbove' = OwnAbove
        /\ PassedInv' = PassedInv
        /\ \A m, n : Logged(m, n)' = Logged(m, n)
        /\ \A B : Reaches(history', Heads', aside', B) = Reaches(history, Heads, aside, B)
    BY <2>1, SameRegistry
  <2>3. /\ UNCHANGED <<log, pending, cursor, phase, dag, ops, end, edges, snapshot, journal, torn>>
    BY <2>1 DEF server, registry, files, memory
  <2>4. OnDisk' = OnDisk /\ Pulled' = Pulled
    BY <2>2, <2>3 DEF OnDisk, Pulled
  <2>5. PendingInv' /\ RoundInv'
    BY <2>2, <2>3, <2>4 DEF GraphInv, PendingInv, RoundInv
  <2>6. DiskInv'
    BY <2>2, <2>3, <2>4 DEF GraphInv, DiskInv, Reached
  <2> QED BY <2>2, <2>3, <2>5, <2>6 DEF GraphInv
<1> QED BY <1>1, <1>2, <1>3, <1>4, <1>5, <1>6 DEF Next

\* What the invariant gives the next round.
LEMMA AtHand ==
  ASSUME TypeInv, GraphInv, Dropped = {}
  PROVE  /\ WalkUp(history, Named) = Anc /\ Whole
         /\ Anc \ aside \subseteq OnDisk \cup pending \cup Coming
<1>1. IsFiniteSet(DOMAIN history) /\ Heads \subseteq Anc /\ OnDisk \subseteq Versions
  BY AncFacts
<1>2. WalkUp(history, Named) = Anc
  <2>1. Named \subseteq WalkUp(history, Heads) /\ Heads \subseteq Named
    BY <1>1 DEF Named, GraphInv, PendingInv, Anc
  <2>2. Heads \subseteq WalkUp(history, Named)
    BY <1>1, <2>1, WalkClosed
  <2> QED BY <1>1, <2>1, <2>2, WalkGrows DEF Anc
<1>3. Whole
  BY <1>2 DEF Whole, Dropped
<1>4. CASE cursor = 0 \/ OnDisk = {}
  <2>1. StartCursor = 0
    BY <1>4 DEF StartCursor, dagNeedsRebuild
  <2>2. Coming = ToSet(log)
    BY <2>1, LoggedFacts DEF Coming, TypeInv
  <2> QED BY <1>2, <1>3, <2>2 DEF Whole
<1>5. CASE cursor # 0 /\ OnDisk # {}
  <2>1. Reached(OnDisk \cup pending \cup OwnAbove)
    BY <1>3, <1>5, Weakest
  <2>2. StartCursor = cursor
    BY <1>5 DEF StartCursor, dagNeedsRebuild
  <2>3. OwnAbove \subseteq Coming
    BY <2>2 DEF OwnAbove, Coming
  <2>4. Anc \ aside \subseteq OnDisk \cup pending \cup OwnAbove
    BY <2>1 DEF Reached, Reaches, Anc
  <2> QED BY <1>2, <1>3, <2>3, <2>4
<1> QED BY <1>4, <1>5

LEMMA HistoryKnown ==
  ASSUME TypeInv, GraphInv
  PROVE  NamedHistoryIsKnown
<1> SUFFICES ASSUME Dropped = {} PROVE WalkUp(history, Named) \ aside \subseteq DOMAIN NextDag
  BY DEF NamedHistoryIsKnown
<1>1. WalkUp(history, Named) = Anc /\ Anc \ aside \subseteq OnDisk \cup pending \cup Coming
  BY AtHand
<1>2. DOMAIN NextDag = OnDisk \cup pending \cup Coming
  BY DEF NextDag, Graph
<1> QED BY <1>1, <1>2

LEMMA BasesFound ==
  ASSUME TypeInv, GraphInv
  PROVE  BasesKept
<1> SUFFICES ASSUME Dropped = {}, NEW h \in Named, NEW v \in Coming,
                    WalkUp(history, {h, v}) \cap aside = {}
             PROVE  SameBase(h, v)
  BY DEF BasesKept
<1> DEFINE B == OnDisk \cup pending \cup Coming
           P == Logged(0, StartCursor)
<1>1. /\ WalkUp(history, Named) = Anc /\ Whole
      /\ Anc \ aside \subseteq B
  BY AtHand
<1>2. /\ IsDag(history) /\ IsFiniteSet(DOMAIN history) /\ DOMAIN history = Versions
      /\ Heads \subseteq Anc /\ Closed(history, Anc) /\ OnDisk \cup pending \subseteq Versions
  BY AncFacts
<1>3. StartCursor \in 0..Len(log) /\ Len(log) \in 0..Len(log) /\ StartCursor <= Len(log)
      /\ (StartCursor = 0 \/ StartCursor = cursor)
  BY DEF StartCursor, TypeInv, LogOK
<1>4. Coming \subseteq Versions /\ P \cup Coming = ToSet(log)
  BY <1>3, LoggedIn, LoggedFacts DEF TypeInv, Coming
<1>5. Closed(history, ToSet(log))
  <2>1. Closed(history, Logged(0, Len(log)))
    BY <1>1, <1>3 DEF GraphInv, LogInv
  <2> QED BY <2>1, LoggedFacts DEF TypeInv
<1>6. P \subseteq Anc \cup aside
  <2>1. Logged(0, 0) = {}
    BY LoggedFacts DEF TypeInv
  <2>2. Logged(0, cursor) \subseteq Anc \cup aside
    BY <1>1 DEF GraphInv, PassedInv
  <2> QED BY <1>3, <2>1, <2>2
<1> HIDE DEF P
<1>7. h \in Anc
  BY <1>1, <1>2, WalkClosed
<1>8. WalkUp(history, {h, v}) \subseteq Anc \cup ToSet(log)
  <2>1. Closed(history, Anc \cup ToSet(log))
    BY <1>2, <1>5 DEF Closed
  <2>2. {h, v} \subseteq Anc \cup ToSet(log)
    BY <1>4, <1>7
  <2> QED BY <1>2, <2>1, <2>2, WalkLeast
<1>9. WalkUp(history, {h, v}) \subseteq B
  <2> HIDE DEF B
  <2>1. Coming \subseteq B
    BY DEF B
  <2> QED BY <1>1, <1>4, <1>6, <1>8, <2>1
<1>10. B \subseteq DOMAIN history
  BY <1>2, <1>4
<1>11. NextDag = Sub(history, B)
  BY DEF NextDag, Graph, Sub
<1> HIDE DEF B
<1>12. mergeBase(Sub(history, B), h, v) = mergeBase(history, h, v)
  BY <1>2, <1>9, <1>10, SubBase
<1> QED BY <1>11, <1>12 DEF SameBase

\* The inductive invariant the two properties rest on: while the history is whole, what the
\* device will hold of the graph at its next round reaches every version of the named
\* history that it has to, in each phase of a round (prepare, recordVersionEdges, compact,
\* appendEdges).
THEOREM GraphInvHolds ==
  ASSUME ~ SnapshotMayGo, ~ CollectsEarly, ~ LinesTear
  PROVE  Spec => [](TypeInv /\ GraphInv)
<1>1. Init => TypeInv /\ GraphInv
  BY TypesInit, GraphInit
<1>2. TypeInv /\ GraphInv /\ [Next]_vars => (TypeInv /\ GraphInv)'
  BY TypesStep, GraphStep
<1> QED BY <1>1, <1>2, PTL DEF Spec

\* Whatever is swept, compacted, cut off or lost, the next round has at hand the history of
\* everything the vault names, on disk or among the ops it pulls, but for what a round put
\* aside: as long as no fold dropped a merge node before its push, the snapshot is not lost
\* alone, no collection precedes the round that repeats a failed one, and lines do not tear
\* (recordVersionEdges, compact, prune, dagNeedsRebuild).
THEOREM NamedHistoryIsKnownHolds ==
  ASSUME ~ SnapshotMayGo, ~ CollectsEarly, ~ LinesTear
  PROVE  Spec => []NamedHistoryIsKnown
<1>1. TypeInv /\ GraphInv => NamedHistoryIsKnown
  BY HistoryKnown
<1> QED BY <1>1, GraphInvHolds, PTL

\* Under the same conditions, merging a named head with a head that comes finds the base
\* that the full history has, unless the history of one of them holds a version that a
\* round put aside (mergeBase, prune, safeCursor).
THEOREM BasesKeptHolds ==
  ASSUME ~ SnapshotMayGo, ~ CollectsEarly, ~ LinesTear
  PROVE  Spec => []BasesKept
<1>1. TypeInv /\ GraphInv => BasesKept
  BY BasesFound
<1> QED BY <1>1, GraphInvHolds, PTL

=============================================================================
