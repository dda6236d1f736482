---------------------------- MODULE RoutingProofs ----------------------------
(***************************************************************************)
(* What SortRoutes and Position compute, for any table. A route's rank,    *)
(* one more than the number of routes ahead of it, numbers the routes from *)
(* 1 without gaps: the routes ahead of a route are ahead of everything it  *)
(* is ahead of, so ranks grow along the order and no two are the same.     *)
(***************************************************************************)
EXTENDS Routing, Integers, FunctionTheorems, FiniteSetTheorems,
        WellFoundedInduction, TLAPS

IsTable(routes, n) ==
    /\ n \in Nat
    /\ DOMAIN routes = 1..n
    /\ \A i \in 1..n : routes[i].priority \in Int /\ Bytes(routes[i].path) \in Nat

Rank(routes, i) == 1 + Cardinality(Ahead(routes, i))

Place(routes, k) == CHOOSE i \in DOMAIN routes : k = Rank(routes, i)

----------------------------------------------------------------------------
(* Ahead is a strict total order of the places of a table. *)

LEMMA AheadInTable ==
    ASSUME NEW routes, NEW n, IsTable(routes, n), NEW i \in 1..n, NEW j,
           j \in Ahead(routes, i)
    PROVE  j \in 1..n
  BY DEF IsTable, Ahead

LEMMA AheadIrreflexive ==
    ASSUME NEW routes, NEW n, IsTable(routes, n), NEW i \in 1..n
    PROVE  i \notin Ahead(routes, i)
  BY DEF IsTable, Ahead, Before

LEMMA AheadTransitive ==
    ASSUME NEW routes, NEW n, IsTable(routes, n),
           NEW i \in 1..n, NEW j \in 1..n, NEW k \in 1..n,
           i \in Ahead(routes, j), j \in Ahead(routes, k)
    PROVE  i \in Ahead(routes, k)
  BY DEF IsTable, Ahead, Before

LEMMA AheadTotal ==
    ASSUME NEW routes, NEW n, IsTable(routes, n), NEW i \in 1..n, NEW j \in 1..n, i # j
    PROVE  i \in Ahead(routes, j) \/ j \in Ahead(routes, i)
  BY DEF IsTable, Ahead, Before

----------------------------------------------------------------------------
(* Ranks number the places. *)

LEMMA RankInTable ==
    ASSUME NEW routes, NEW n, IsTable(routes, n), NEW i \in 1..n
    PROVE  IsFiniteSet(Ahead(routes, i)) /\ Rank(routes, i) \in 1..n
<1>1. n \in Nat /\ Ahead(routes, i) \in SUBSET ((1..n) \ {i})
  BY AheadInTable, AheadIrreflexive DEF IsTable
<1>2. IsFiniteSet(1..n) /\ Cardinality(1..n) = n
  BY <1>1, FS_Interval
<1>3. IsFiniteSet((1..n) \ {i}) /\ Cardinality((1..n) \ {i}) = n - 1
  BY <1>2, FS_RemoveElement
<1>4. IsFiniteSet(Ahead(routes, i)) /\ Cardinality(Ahead(routes, i)) <= n - 1
  BY <1>1, <1>3, FS_Subset
<1>5. Cardinality(Ahead(routes, i)) \in Nat
  BY <1>4, FS_CardinalityType
<1>. QED  BY <1>1, <1>4, <1>5 DEF Rank

LEMMA RankGrows ==
    ASSUME NEW routes, NEW n, IsTable(routes, n), NEW i \in 1..n, NEW j \in 1..n,
           j \in Ahead(routes, i)
    PROVE  Rank(routes, j) < Rank(routes, i)
<1>1. Ahead(routes, j) \in SUBSET Ahead(routes, i)
  <2>. SUFFICES ASSUME NEW k, k \in Ahead(routes, j) PROVE k \in Ahead(routes, i)
    OBVIOUS
  <2>1. k \in 1..n
    BY AheadInTable
  <2>. QED  BY <2>1, AheadTransitive
<1>2. Ahead(routes, j) # Ahead(routes, i)
  BY AheadIrreflexive
<1>3. IsFiniteSet(Ahead(routes, i)) /\ IsFiniteSet(Ahead(routes, j))
  BY RankInTable
<1>4. /\ Cardinality(Ahead(routes, j)) <= Cardinality(Ahead(routes, i))
      /\ Cardinality(Ahead(routes, j)) # Cardinality(Ahead(routes, i))
  BY <1>1, <1>2, <1>3, FS_Subset
<1>5. Cardinality(Ahead(routes, i)) \in Nat /\ Cardinality(Ahead(routes, j)) \in Nat
  BY <1>3, FS_CardinalityType
<1>. QED  BY <1>4, <1>5 DEF Rank

LEMMA RankDecides ==
    ASSUME NEW routes, NEW n, IsTable(routes, n), NEW i \in 1..n, NEW j \in 1..n
    PROVE  /\ Rank(routes, i) = Rank(routes, j) => i = j
           /\ Rank(routes, i) < Rank(routes, j) => i \in Ahead(routes, j)
<1>1. Rank(routes, i) \in Int /\ Rank(routes, j) \in Int
  BY RankInTable
<1>2. CASE i = j
  BY <1>1, <1>2
<1>3. CASE i # j /\ j \in Ahead(routes, i)
  BY <1>1, <1>3, RankGrows
<1>4. CASE i # j /\ i \in Ahead(routes, j)
  BY <1>1, <1>4, RankGrows
<1>. QED  BY <1>2, <1>3, <1>4, AheadTotal

LEMMA EveryRankTaken ==
    ASSUME NEW routes, NEW n, IsTable(routes, n), NEW k \in 1..n
    PROVE  \E i \in 1..n : k = Rank(routes, i)
<1>. DEFINE rank == [i \in 1..n |-> Rank(routes, i)]
<1>1. IsFiniteSet(1..n)
  BY FS_Interval DEF IsTable
<1>2. rank \in [1..n -> 1..n]
  BY RankInTable
<1>3. \A i, j \in 1..n : rank[i] = rank[j] => i = j
  BY RankDecides
<1>4. rank \in Injection(1..n, 1..n)
  BY <1>2, <1>3, Fun_IsInj
<1>5. rank \in Surjection(1..n, 1..n)
  BY <1>1, <1>4, FS_Injection
<1>6. \E i \in 1..n : rank[i] = k
  <2>. HIDE DEF rank
  <2>. QED  BY <1>5 DEF Surjection
<1>. QED  BY <1>6

LEMMA PlaceOfRank ==
    ASSUME NEW routes, NEW n, IsTable(routes, n)
    PROVE  /\ \A k \in 1..n : Place(routes, k) \in 1..n /\ Rank(routes, Place(routes, k)) = k
           /\ \A i \in 1..n : Place(routes, Rank(routes, i)) = i
<1>1. ASSUME NEW k \in 1..n
      PROVE  Place(routes, k) \in 1..n /\ Rank(routes, Place(routes, k)) = k
  <2>1. \E i \in DOMAIN routes : k = Rank(routes, i)
    <3>1. DOMAIN routes = 1..n
      BY DEF IsTable
    <3>2. \E i \in 1..n : k = Rank(routes, i)
      BY EveryRankTaken
    <3>. QED  BY <3>1, <3>2
  <2>2. Place(routes, k) \in DOMAIN routes /\ k = Rank(routes, Place(routes, k))
    BY <2>1, Zenon DEF Place
  <2>. QED  BY <2>2 DEF IsTable
<1>2. ASSUME NEW i \in 1..n PROVE Place(routes, Rank(routes, i)) = i
  <2>1. Rank(routes, i) \in 1..n
    BY RankInTable
  <2>2. Place(routes, Rank(routes, i)) \in 1..n
    BY <1>1, <2>1
  <2>3. Rank(routes, Place(routes, Rank(routes, i))) = Rank(routes, i)
    BY <1>1, <2>1
  <2>. QED  BY <2>2, <2>3, RankDecides
<1>. QED  BY <1>1, <1>2

\* The length of a path is a number.
LEMMA BytesInNat ==
    ASSUME NEW path \in Seq(Characters)
    PROVE  Bytes(path) \in Nat
  BY DEF Bytes

\* sort_by moves routes and neither loses nor copies one; a route goes before
\* another exactly when it is ahead of it.
THEOREM SortRoutesSorts ==
    ASSUME NEW routes, NEW n, IsTable(routes, n)
    PROVE  /\ DOMAIN SortRoutes(routes) = 1..n
           /\ \A k \in 1..n : /\ Place(routes, k) \in 1..n
                              /\ SortRoutes(routes)[k] = routes[Place(routes, k)]
           /\ \A i \in 1..n : \E k \in 1..n : Place(routes, k) = i
           /\ \A k, m \in 1..n : k < m => Place(routes, k) \in Ahead(routes, Place(routes, m))
<1>1. DOMAIN SortRoutes(routes) = 1..n
  BY DEF SortRoutes, IsTable
<1>2. \A k \in 1..n : SortRoutes(routes)[k] = routes[Place(routes, k)]
  BY DEF SortRoutes, IsTable, Place, Rank
<1>3. \A i \in 1..n : \E k \in 1..n : Place(routes, k) = i
  BY PlaceOfRank, RankInTable
<1>4. ASSUME NEW k \in 1..n, NEW m \in 1..n, k < m
      PROVE  Place(routes, k) \in Ahead(routes, Place(routes, m))
  <2>1. /\ Place(routes, k) \in 1..n /\ Rank(routes, Place(routes, k)) = k
        /\ Place(routes, m) \in 1..n /\ Rank(routes, Place(routes, m)) = m
    BY PlaceOfRank
  <2>. QED  BY <1>4, <2>1, RankDecides
<1>. QED  BY <1>1, <1>2, <1>3, <1>4, PlaceOfRank

\* Sorting a sorted table changes nothing: routes that tie stay where they are.
THEOREM SortRoutesIdempotent ==
    ASSUME NEW routes, NEW n, IsTable(routes, n)
    PROVE  SortRoutes(SortRoutes(routes)) = SortRoutes(routes)
<1>. DEFINE sorted == SortRoutes(routes)
<1>1. /\ n \in Nat /\ DOMAIN sorted = 1..n
      /\ \A k \in 1..n : Place(routes, k) \in 1..n /\ sorted[k] = routes[Place(routes, k)]
      /\ \A k, m \in 1..n : k < m => Place(routes, k) \in Ahead(routes, Place(routes, m))
  BY SortRoutesSorts DEF IsTable
<1>2. IsTable(sorted, n)
  <2>. HIDE DEF sorted
  <2>. QED  BY <1>1 DEF IsTable
<1>3. ASSUME NEW k \in 1..n, NEW m \in 1..n, k < m PROVE k \in Ahead(sorted, m)
  <2>1. Before(sorted[k], sorted[m]) \/ ~Before(sorted[m], sorted[k])
    <3>. HIDE DEF sorted
    <3>. QED  BY <1>1, <1>3 DEF Ahead
  <2>. HIDE DEF sorted
  <2>. QED  BY <1>1, <1>3, <2>1 DEF Ahead
<1>4. ASSUME NEW k \in 1..n PROVE Rank(sorted, k) = k
  <2>1. ASSUME NEW m \in 1..n PROVE m \in Ahead(sorted, k) <=> m < k
    <3>1. CASE m < k
      BY <1>3, <3>1
    <3>2. CASE m = k
      BY <1>2, <3>2, AheadIrreflexive
    <3>3. CASE k < m
      <4>1. k \in Ahead(sorted, m)
        BY <1>3, <3>3
      <4>2. m \notin Ahead(sorted, k)
        BY <1>2, <4>1, AheadTransitive, AheadIrreflexive
      <4>. QED  BY <3>3, <4>2
    <3>. QED  BY <3>1, <3>2, <3>3
  <2>2. Ahead(sorted, k) \subseteq 1..n
    BY <1>2, AheadInTable
  <2>3. Ahead(sorted, k) = 1..(k - 1)
    <3>. HIDE DEF sorted
    <3>1. ASSUME NEW m PROVE m \in 1..(k - 1) <=> m \in 1..n /\ m < k
      BY <1>1
    <3>2. ASSUME NEW m PROVE m \in Ahead(sorted, k) <=> m \in 1..(k - 1)
      BY <2>1, <2>2, <3>1
    <3>. QED  BY <3>2
  <2>4. Cardinality(1..(k - 1)) = k - 1
    BY FS_Interval
  <2>. QED  BY <2>3, <2>4 DEF Rank
<1>5. ASSUME NEW k \in 1..n PROVE Place(sorted, k) = k
  BY <1>2, <1>4, PlaceOfRank
<1>6. ASSUME NEW k \in 1..n PROVE SortRoutes(sorted)[k] = sorted[k]
  <2>. HIDE DEF sorted
  <2>1. SortRoutes(sorted)[k] = sorted[Place(sorted, k)]
    BY <1>2, SortRoutesSorts
  <2>. QED  BY <1>5, <2>1
<1>7. DOMAIN SortRoutes(sorted) = 1..n
  BY <1>2, SortRoutesSorts
<1>8. /\ SortRoutes(sorted) = [k \in 1..n |-> SortRoutes(sorted)[k]]
      /\ sorted = [k \in 1..n |-> sorted[k]]
  BY <1>1, <1>7 DEF SortRoutes
<1>. QED  BY <1>6, <1>8

\* A path has fewer bytes than the paths below it.
LEMMA BytesGrow ==
    ASSUME NEW path \in Seq(Characters), NEW below \in Seq(Characters),
           IsStrictPrefix(path, below)
    PROVE  Bytes(path) < Bytes(below)
<1>1. /\ path = [i \in 1..Len(path) |-> path[i]] /\ below = [i \in 1..Len(below) |-> below[i]]
      /\ \A i \in 1..Len(path) : path[i] = below[i]
  BY DEF IsStrictPrefix, IsPrefix
<1>2. Len(path) # Len(below)
  BY <1>1 DEF IsStrictPrefix
<1>. DEFINE m == Len(path)
            n == Len(below)
<1>3. m \in Nat /\ n \in Nat /\ m <= n /\ m # n
  BY <1>2 DEF IsStrictPrefix, IsPrefix
<1>4. m < n
  <2>. HIDE DEF m, n
  <2>. QED  BY <1>3
<1>. QED  BY <1>4 DEF Bytes

----------------------------------------------------------------------------
(* The first match. *)

\* Of a set of places that is not empty one is the first.
LEMMA FirstPlace ==
    ASSUME NEW n \in Nat, NEW S \in SUBSET (1..n), S # {}
    PROVE  \E i \in S : \A j \in S : i <= j
<1>. DEFINE less == {pair \in Nat \X Nat : pair[1] < pair[2]}
<1>1. S \subseteq Nat
  OBVIOUS
<1>2. IsWellFoundedOn(less, Nat)
  BY NatLessThanWellFounded, Zenon DEF OpToRel
<1>3. \E i \in S : \A j \in S : ~(<<j, i>> \in less)
  <2>. HIDE DEF less
  <2>. QED  BY <1>1, <1>2, WFMin
<1>4. ASSUME NEW i \in S, NEW j \in S, <<j, i>> \notin less PROVE i <= j
  <2>1. i \in Nat /\ j \in Nat
    BY <1>1
  <2>2. j < i => <<j, i>> \in less
    BY <2>1
  <2>. QED  BY <1>4, <2>1, <2>2
<1>. QED
  <2>. HIDE DEF less
  <2>. QED  BY <1>3, <1>4

\* Position finds the first match, or there is none.
LEMMA PositionFirst ==
    ASSUME NEW routes, NEW n \in Nat, DOMAIN routes = 1..n, NEW q
    PROVE  \/ /\ Position(routes, q) = 0
              /\ \A i \in 1..n : ~RouteMatches(routes[i], q)
           \/ /\ Position(routes, q) \in 1..n
              /\ RouteMatches(routes[Position(routes, q)], q)
              /\ \A i \in 1..n : RouteMatches(routes[i], q) => Position(routes, q) <= i
<1>. DEFINE matching == {i \in DOMAIN routes : RouteMatches(routes[i], q)}
<1>1. CASE matching = {}
  BY <1>1 DEF Position
<1>2. CASE matching # {}
  <2>1. \E i \in matching : \A j \in matching : i <= j
    BY <1>2, FirstPlace
  <2>2. Position(routes, q) = CHOOSE i \in matching : \A j \in matching : i <= j
    BY <1>2 DEF Position
  <2>3. Position(routes, q) \in matching /\ \A j \in matching : Position(routes, q) <= j
    <3>. HIDE DEF matching
    <3>. QED  BY <2>1, <2>2
  <2>. QED  BY <2>3
<1>. QED  BY <1>1, <1>2

\* The first match of the sorted table is ahead of every other route that matches.
LEMMA FirstIsAhead ==
    ASSUME NEW routes, NEW n, IsTable(routes, n), NEW q
    PROVE  LET ordered == SortRoutes(routes)
               k == Position(ordered, q)
               p == Place(routes, k)
           IN \/ /\ k = 0
                 /\ \A i \in 1..n : ~RouteMatches(routes[i], q)
              \/ /\ k \in 1..n /\ p \in 1..n
                 /\ ordered[k] = routes[p]
                 /\ RouteMatches(routes[p], q)
                 /\ \A j \in 1..n : j # p /\ RouteMatches(routes[j], q) => p \in Ahead(routes, j)
<1>. DEFINE ordered == SortRoutes(routes)
            k == Position(ordered, q)
            p == Place(routes, k)
<1>1. n \in Nat /\ DOMAIN ordered = 1..n
  BY SortRoutesSorts DEF IsTable
<1>2. CASE k = 0
  <2>1. \A m \in 1..n : ~RouteMatches(ordered[m], q)
    BY <1>1, <1>2, PositionFirst
  <2>2. ASSUME NEW i \in 1..n PROVE ~RouteMatches(routes[i], q)
    <3>1. PICK m \in 1..n : Place(routes, m) = i
      BY SortRoutesSorts
    <3>2. ordered[m] = routes[i]
      BY <3>1, SortRoutesSorts
    <3>. QED  BY <2>1, <3>2
  <2>. QED  BY <1>2, <2>2
<1>3. CASE k # 0
  <2>1. /\ k \in 1..n /\ RouteMatches(ordered[k], q)
        /\ \A m \in 1..n : RouteMatches(ordered[m], q) => k <= m
    BY <1>1, <1>3, PositionFirst
  <2>2. p \in 1..n /\ ordered[k] = routes[p]
    BY <2>1, SortRoutesSorts
  <2>3. ASSUME NEW j \in 1..n, j # p, RouteMatches(routes[j], q)
        PROVE  p \in Ahead(routes, j)
    <3>1. PICK m \in 1..n : Place(routes, m) = j
      BY SortRoutesSorts
    <3>2. ordered[m] = routes[j]
      BY <3>1, SortRoutesSorts
    <3>3. k < m
      BY <2>1, <2>3, <3>1, <3>2
    <3>. QED  BY <2>1, <3>1, <3>3, SortRoutesSorts
  <2>. QED
    <3>. HIDE DEF k, p, ordered
    <3>1. RouteMatches(routes[p], q)
      BY <2>1, <2>2
    <3>. QED  BY <2>1, <2>2, <2>3, <3>1 DEF k, p, ordered
<1>. QED  BY <1>2, <1>3
=============================================================================
