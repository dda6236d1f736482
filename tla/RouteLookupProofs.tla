-------------------------- MODULE RouteLookupProofs --------------------------
(***************************************************************************)
(* For any tables and requests: what the data plane finds is the route the *)
(* README promises. The first match of the sorted table is ahead of every  *)
(* other route that matches, so it has the highest priority of them, the   *)
(* longest path of those, and is declared first of those; and it is the    *)
(* only one that has all three. A path matches whose text goes on with a   *)
(* slash, or not at all: it is one that stands before a slash.             *)
(*                                                                         *)
(* And for any policies, spellings and ids: what the request filter and    *)
(* the response filter make of the headers of the requests so routed. Each *)
(* loop over the spellings is followed to its end, as the longest run of   *)
(* rounds that has gone as it should: there is no first round that has     *)
(* not. The invariant is that a request carries the policies it was        *)
(* matched with and what they made of its headers.                         *)
(***************************************************************************)
EXTENDS RouteLookup, HeaderPolicies, RoutingProofs

\* The last lookup is the one of the table sorted at the start.
IInv ==
    /\ declared \in Tables
    /\ table = SortRoutes(declared)
    /\ query # None => query \in Queries
    /\ index = IF LookedUp THEN Position(table, query) ELSE 0

LEMMA LookupInvariant == Spec => []IInv
<1>1. Init => IInv
  BY DEF Init, IInv, LookedUp
<1>2. IInv /\ [Next]_vars => IInv'
  BY TablesAssumption DEF IInv, LookedUp, Next, LookUp, vars
<1>. QED  BY <1>1, <1>2, PTL DEF Spec

LEMMA TablesAreTables ==
    ASSUME NEW routes \in Tables
    PROVE  IsTable(routes, Len(routes))
  BY TablesAssumption, BytesInNat DEF IsTable

\* The first match of the sorted table is the best of the declared one.
LEMMA FirstIsBest ==
    ASSUME NEW routes, NEW n, IsTable(routes, n), NEW q
    PROVE  FindMatchingRoute(routes, q) = Best(routes, q)
<1>. DEFINE ordered == SortRoutes(routes)
            k == Position(ordered, q)
            p == Place(routes, k)
            matching == {i \in DOMAIN routes : RouteMatches(routes[i], q)}
            highest == {i \in matching : \A j \in matching : routes[i].priority >= routes[j].priority}
            longest == {i \in highest :
                          \A j \in highest : Bytes(routes[i].path) >= Bytes(routes[j].path)}
<1>1. /\ n \in Nat /\ DOMAIN routes = 1..n /\ DOMAIN ordered = 1..n
      /\ \A i \in 1..n : routes[i].priority \in Int /\ Bytes(routes[i].path) \in Nat
  BY SortRoutesSorts DEF IsTable
<1>2. FindMatchingRoute(routes, q) = IF k = 0 THEN None ELSE ordered[k]
  BY DEF FindMatchingRoute
<1>3. Best(routes, q) = IF matching = {} THEN None
                        ELSE routes[CHOOSE i \in longest : \A j \in longest : i <= j]
  BY DEF Best
<1>4. CASE k = 0
  <2>1. matching = {}
    BY <1>1, <1>4, FirstIsAhead
  <2>. QED  BY <1>2, <1>3, <1>4, <2>1
<1>5. CASE k # 0
  <2>2. /\ p \in 1..n /\ ordered[k] = routes[p] /\ RouteMatches(routes[p], q)
        /\ \A j \in 1..n : j # p /\ RouteMatches(routes[j], q) => p \in Ahead(routes, j)
    BY <1>5, FirstIsAhead
  <2>3. p \in matching
    BY <1>1, <2>2
  <2>4. ASSUME NEW j \in matching, j # p PROVE p \in Ahead(routes, j)
    BY <1>1, <2>2, <2>4
  <2>5. \A j \in matching : \/ j = p
                            \/ Before(routes[p], routes[j])
                            \/ p < j /\ ~Before(routes[j], routes[p])
    <3>. HIDE DEF matching, p
    <3>. QED  BY <2>4 DEF Ahead
  <2>6. \A j \in matching :
          /\ routes[p].priority >= routes[j].priority
          /\ routes[p].priority = routes[j].priority =>
               Bytes(routes[p].path) >= Bytes(routes[j].path)
          /\ routes[p].priority = routes[j].priority
               /\ Bytes(routes[p].path) = Bytes(routes[j].path) => p <= j
    <3>. SUFFICES ASSUME NEW j \in matching
                  PROVE  /\ routes[p].priority >= routes[j].priority
                         /\ routes[p].priority = routes[j].priority =>
                              Bytes(routes[p].path) >= Bytes(routes[j].path)
                         /\ routes[p].priority = routes[j].priority
                              /\ Bytes(routes[p].path) = Bytes(routes[j].path) => p <= j
      OBVIOUS
    <3>. DEFINE a == routes[p].priority
                b == routes[j].priority
                x == Bytes(routes[p].path)
                y == Bytes(routes[j].path)
    <3>1. j \in 1..n /\ p \in 1..n /\ n \in Nat
      BY <1>1, <2>2
    <3>2. a \in Int /\ b \in Int /\ x \in Nat /\ y \in Nat
      BY <1>1, <3>1
    <3>3. j = p \/ a > b \/ (a = b /\ x > y) \/ (p < j /\ ~(b > a \/ (b = a /\ y > x)))
      <4>. HIDE DEF matching, p
      <4>. QED  BY <2>5 DEF Before
    <3>4. j = p => a = b /\ x = y
      OBVIOUS
    <3>. HIDE DEF p, a, b, x, y
    <3>5. a >= b /\ (a = b => x >= y) /\ (a = b /\ x = y => p <= j)
      BY <3>1, <3>2, <3>3, <3>4
    <3>. QED  BY <3>5 DEF a, b, x, y
  <2>7. matching \subseteq 1..n /\ highest \subseteq matching /\ longest \subseteq highest
    BY <1>1
  <2>8. p \in highest
    BY <2>3, <2>6
  <2>9. \A j \in highest : routes[j].priority = routes[p].priority
    <3>1. \A j \in highest : routes[j].priority >= routes[p].priority
      BY <2>3
    <3>. HIDE DEF highest, matching, p
    <3>. QED  BY <1>1, <2>2, <2>6, <2>7, <3>1
  <2>10. p \in longest
    BY <2>6, <2>7, <2>8, <2>9
  <2>11. \A j \in longest : p <= j
    <3>1. \A j \in longest : Bytes(routes[j].path) >= Bytes(routes[p].path)
      BY <2>8
    <3>2. \A j \in longest : Bytes(routes[j].path) = Bytes(routes[p].path)
      <4>. HIDE DEF longest, highest, matching, p
      <4>. QED  BY <1>1, <2>2, <2>6, <2>7, <2>9, <3>1
    <3>. HIDE DEF longest, highest, matching, p
    <3>. QED  BY <2>6, <2>7, <2>9, <3>2
  <2>12. (CHOOSE i \in longest : \A j \in longest : i <= j) = p
    <3>1. longest \subseteq Int
      BY <2>7
    <3>. DEFINE first == CHOOSE i \in longest : \A j \in longest : i <= j
    <3>. HIDE DEF longest, p
    <3>2. first \in longest /\ \A j \in longest : first <= j
      BY <2>10, <2>11
    <3>3. first = p
      <4>. HIDE DEF first
      <4>. QED  BY <2>10, <2>11, <3>1, <3>2
    <3>. QED  BY <3>3
  <2>. QED  BY <1>2, <1>3, <1>5, <2>2, <2>3, <2>12
<1>. QED  BY <1>4, <1>5

\* The route the data plane takes is the one the README promises: of those that
\* match, the first declared of the longest path of the highest priority.
THEOREM BestRouteAlways == Spec => []BestRouteWins
<1>1. IInv => BestRouteWins
  <2>. SUFFICES ASSUME IInv, LookedUp PROVE Answer = Best(declared, query)
    BY DEF BestRouteWins
  <2>1. IsTable(declared, Len(declared))
    BY TablesAreTables DEF IInv
  <2>2. Answer = FindMatchingRoute(declared, query)
    BY DEF IInv, Answer, FindMatchingRoute
  <2>. QED  BY <2>1, <2>2, FirstIsBest
<1>. QED  BY <1>1, LookupInvariant, PTL

\* The routes page, which sorts once more, keeps the order of the data plane.
THEOREM PageAlwaysInOrder == Spec => []PageInOrder
<1>1. IInv => PageInOrder
  BY TablesAreTables, SortRoutesIdempotent DEF IInv, PageInOrder, RouteViews
<1>. QED  BY <1>1, LookupInvariant, PTL

\* A route with a longer path below the one that answers would have answered.
THEOREM DeepestRouteAlways == Spec => []DeepestRouteWins
<1>1. IInv => DeepestRouteWins
  <2>. SUFFICES ASSUME IInv, index # 0, NEW i \in DOMAIN declared,
                       RouteMatches(declared[i], query),
                       declared[i].priority = Answer.priority,
                       IsStrictPrefix(Answer.path, declared[i].path)
                PROVE  FALSE
    BY DEF DeepestRouteWins
  <2>. DEFINE n == Len(declared)
              p == Place(declared, index)
  <2>1. /\ IsTable(declared, n) /\ i \in 1..n
        /\ table = SortRoutes(declared) /\ index = Position(table, query)
    BY TablesAreTables DEF IInv, IsTable
  <2>2. DOMAIN table = 1..n
    BY <2>1, SortRoutesSorts
  <2>3. index \in 1..n /\ \A m \in 1..n : RouteMatches(table[m], query) => index <= m
    BY <2>1, <2>2, PositionFirst DEF IsTable
  <2>4. p \in 1..n /\ Answer = declared[p]
    BY <2>1, <2>3, SortRoutesSorts DEF Answer
  <2>5. PICK m \in 1..n : Place(declared, m) = i
    BY <2>1, SortRoutesSorts
  <2>6. table[m] = declared[i]
    BY <2>1, <2>5, SortRoutesSorts
  <2>7. index <= m
    BY <2>3, <2>6
  <2>8. Bytes(declared[p].path) < Bytes(declared[i].path)
    BY <2>1, <2>4, BytesGrow, TablesAssumption DEF IInv
  <2>9. /\ Bytes(declared[p].path) \in Nat /\ Bytes(declared[i].path) \in Nat
        /\ declared[p].priority \in Int /\ declared[i].priority = declared[p].priority
    BY <2>1, <2>4 DEF IsTable
  <2>10. index # m
    BY <2>4, <2>5, <2>8, <2>9
  <2>11. p \in Ahead(declared, i)
    BY <2>1, <2>3, <2>5, <2>7, <2>10, SortRoutesSorts
  <2>. QED
    <3>. HIDE DEF p
    <3>. QED  BY <2>8, <2>9, <2>11 DEF Ahead, Before
<1>. QED  BY <1>1, LookupInvariant, PTL

\* Comparing the texts of two paths finds the paths at or above one.
LEMMA MatchesAtOrAbove ==
    ASSUME NEW routePath \in Seq(Characters), NEW actual \in Seq(Characters)
    PROVE  PathMatches(routePath, actual) <=> routePath \in AtOrAbove(actual)
<1>. DEFINE n == Len(routePath)
            m == Len(actual)
<1>0. /\ routePath = [k \in 1..n |-> routePath[k]] /\ DOMAIN routePath = 1..n
      /\ actual = [k \in 1..m |-> actual[k]] /\ DOMAIN actual = 1..m
  OBVIOUS
<1>00. n \in Nat /\ m \in Nat
  OBVIOUS
<1>1. ASSUME IsStrictPrefix(routePath, actual), actual[n + 1] = Slash
      PROVE  routePath \in AtOrAbove(actual)
  <2>1. n <= m
    BY <1>1 DEF IsStrictPrefix, IsPrefix
  <2>2. \A k \in 1..n : routePath[k] = actual[k]
    BY <1>1 DEF IsStrictPrefix, IsPrefix
  <2>3. n # m
    BY <1>0, <1>1, <2>2 DEF IsStrictPrefix
  <2>4. n + 1 \in 1..m
    <3>. HIDE DEF n, m
    <3>. QED  BY <1>00, <2>1, <2>3
  <2>5. n + 1 \in {j \in DOMAIN actual : actual[j] = Slash}
    BY <1>0, <1>1, <2>4
  <2>6. routePath = SubSeq(actual, 1, n)
    BY <2>1, <2>2
  <2>7. (n + 1) - 1 = n
    BY <1>00
  <2>. HIDE DEF n, m
  <2>. QED  BY <2>5, <2>6, <2>7 DEF AtOrAbove
<1>2. ASSUME NEW i \in DOMAIN actual, actual[i] = Slash, routePath = SubSeq(actual, 1, i - 1)
      PROVE  IsStrictPrefix(routePath, actual) /\ actual[n + 1] = Slash
  <2>1. n = i - 1 /\ i \in 1..m
    BY <1>2
  <2>2. n + 1 = i /\ n < m
    <3>. HIDE DEF n, m
    <3>. QED  BY <1>00, <2>1
  <2>3. routePath = SubSeq(routePath, 1, n) /\ routePath = SubSeq(actual, 1, n)
    BY <1>2, <2>1
  <2>4. routePath # actual /\ n <= m
    BY <2>2
  <2>. QED  BY <1>2, <2>2, <2>3, <2>4 DEF IsStrictPrefix, IsPrefix
<1>. QED  BY <1>1, <1>2 DEF PathMatches, AtOrAbove

\* A request is answered by a route at or above its path, segment by segment, and by
\* none only if no route there admits its host and method.
THEOREM SegmentsAlwaysRespected == Spec => []SegmentsRespected
<1>1. ASSUME IInv, LookedUp
      PROVE  LET above == {i \in DOMAIN declared : declared[i].path \in AtOrAbove(query.path)}
                 fit == {declared[i] : i \in {j \in above : Admits(declared[j], query)}}
             IN IF index = 0 THEN fit = {} ELSE Answer \in fit
  <2>. DEFINE n == Len(declared)
              p == Place(declared, index)
              above == {i \in DOMAIN declared : declared[i].path \in AtOrAbove(query.path)}
              fit == {declared[i] : i \in {j \in above : Admits(declared[j], query)}}
  <2>1. /\ IsTable(declared, n) /\ DOMAIN declared = 1..n /\ n \in Nat
        /\ table = SortRoutes(declared) /\ index = Position(table, query)
    BY <1>1, TablesAreTables DEF IInv, IsTable
  <2>2. \A i \in 1..n : declared[i].path \in Seq(Characters)
    BY <1>1, <2>1, TablesAssumption DEF IInv
  <2>3. query.path \in Seq(Characters)
    BY <1>1, TablesAssumption DEF IInv, LookedUp
  <2>4. \A i \in 1..n : RouteMatches(declared[i], query) <=>
                          declared[i].path \in AtOrAbove(query.path) /\ Admits(declared[i], query)
    BY <2>2, <2>3, MatchesAtOrAbove DEF RouteMatches, Admits
  <2>5. CASE index = 0
    <3>1. \A i \in 1..n : ~RouteMatches(declared[i], query)
      <4>. HIDE DEF n, p, above, fit
      <4>1. Position(SortRoutes(declared), query) \notin 1..n
        BY <2>1, <2>5
      <4>. QED  BY <2>1, <4>1, FirstIsAhead
    <3>2. fit = {}
      BY <2>1, <2>4, <3>1
    <3>. QED  BY <2>5, <3>2
  <2>6. CASE index # 0
    <3>1. p \in 1..n /\ table[index] = declared[p] /\ RouteMatches(declared[p], query)
      <4>. HIDE DEF n, above, fit
      <4>. QED  BY <2>1, <2>6, FirstIsAhead
    <3>2. p \in {j \in above : Admits(declared[j], query)}
      BY <2>1, <2>4, <3>1
    <3>3. Answer = declared[p]
      BY <2>6, <3>1 DEF Answer
    <3>4. Answer \in fit
      <4>. HIDE DEF p, above
      <4>. QED  BY <3>2, <3>3
    <3>. QED  BY <2>6, <3>4
  <2>. QED  BY <2>5, <2>6
<1>2. IInv => SegmentsRespected
  BY <1>1 DEF SegmentsRespected
<1>. QED  BY <1>2, LookupInvariant, PTL

----------------------------------------------------------------------------
(* The two loops over the spellings. *)

\* g is what the loop leaves after each of its first n rounds.
RemovesUpTo(g, n, headers, transform) ==
    g = [i \in 0..n |-> IF i = 0 THEN headers ELSE RemoveNth(g[i - 1], transform, i)]

\* The recursive function of the loop is what it says it is, up to the last round.
LEMMA RemoveLoopRuns ==
    ASSUME NEW headers, NEW transform
    PROVE  RemovesUpTo(RemoveLoop(headers, transform), Len(Spellings), headers, transform)
<1>. DEFINE N == Len(Spellings)
            runs(n) == \E g : RemovesUpTo(g, n, headers, transform)
            S == {n \in 1..N : ~runs(n)}
<1>1. N \in Nat
  BY SpellingsAssumption
<1>. HIDE DEF N
<1>2. runs(0)
  <2>. DEFINE g == [i \in 0..0 |-> headers]
  <2>1. RemovesUpTo(g, 0, headers, transform)
    BY DEF RemovesUpTo
  <2>. QED  BY <2>1
<1>3. ASSUME NEW n \in 1..N, runs(n - 1) PROVE runs(n)
  <2>1. PICK h : RemovesUpTo(h, n - 1, headers, transform)
    BY <1>3
  <2>. DEFINE g == [i \in 0..n |-> IF i = n THEN RemoveNth(h[n - 1], transform, n) ELSE h[i]]
  <2>2. \A i \in 0..(n - 1) : h[i] = IF i = 0 THEN headers ELSE RemoveNth(h[i - 1], transform, i)
    BY <2>1 DEF RemovesUpTo
  <2>3. \A i \in 0..(n - 1) : g[i] = h[i]
    BY <1>1
  <2>4. \A i \in 1..n : g[i - 1] = h[i - 1]
    BY <1>1, <2>3
  <2>5. g[n] = RemoveNth(h[n - 1], transform, n) /\ DOMAIN g = 0..n
    BY <1>1
  <2>6. g = [i \in 0..n |-> g[i]]
    OBVIOUS
  <2>. HIDE DEF g
  <2>7. \A i \in 0..n : g[i] = IF i = 0 THEN headers ELSE RemoveNth(g[i - 1], transform, i)
    <3>. SUFFICES ASSUME NEW i \in 0..n
                  PROVE  g[i] = IF i = 0 THEN headers ELSE RemoveNth(g[i - 1], transform, i)
      OBVIOUS
    <3>1. CASE i = n
      BY <1>1, <2>4, <2>5, <3>1
    <3>2. CASE i \in 1..(n - 1)
      BY <1>1, <2>2, <2>3, <2>4, <3>2
    <3>3. CASE i = 0
      BY <1>1, <2>2, <2>3, <3>3
    <3>. QED  BY <1>1, <3>1, <3>2, <3>3
  <2>8. RemovesUpTo(g, n, headers, transform)
    BY <2>6, <2>7 DEF RemovesUpTo
  <2>. QED  BY <2>8
<1>. HIDE DEF runs
<1>4. S = {}
  <2>. SUFFICES ASSUME S # {} PROVE FALSE
    OBVIOUS
  <2>1. PICK m \in S : \A x \in S : m <= x
    BY <1>1, FirstPlace
  <2>2. m \in 1..N /\ ~runs(m) /\ m - 1 \notin S
    BY <1>1, <2>1
  <2>3. m - 1 \in 1..N \/ m - 1 = 0
    BY <1>1, <2>2
  <2>4. runs(m - 1)
    BY <1>2, <2>2, <2>3
  <2>. QED  BY <1>3, <2>2, <2>4
<1>5. runs(N)
  BY <1>1, <1>2, <1>4
<1>6. RemoveLoop(headers, transform) = CHOOSE g : RemovesUpTo(g, N, headers, transform)
  BY DEF RemoveLoop, RemovesUpTo, N
<1>7. RemovesUpTo(RemoveLoop(headers, transform), N, headers, transform)
  BY <1>5, <1>6 DEF runs
<1>. QED  BY <1>7 DEF N

InsertsUpTo(g, n, headers, transform) ==
    g = [i \in 0..n |-> IF i = 0 THEN headers ELSE InsertNth(g[i - 1], transform, i)]

\* The same of the loop that adds.
LEMMA InsertLoopRuns ==
    ASSUME NEW headers, NEW transform
    PROVE  InsertsUpTo(InsertLoop(headers, transform), Len(Spellings), headers, transform)
<1>. DEFINE N == Len(Spellings)
            runs(n) == \E g : InsertsUpTo(g, n, headers, transform)
            S == {n \in 1..N : ~runs(n)}
<1>1. N \in Nat
  BY SpellingsAssumption
<1>. HIDE DEF N
<1>2. runs(0)
  <2>. DEFINE g == [i \in 0..0 |-> headers]
  <2>1. InsertsUpTo(g, 0, headers, transform)
    BY DEF InsertsUpTo
  <2>. QED  BY <2>1
<1>3. ASSUME NEW n \in 1..N, runs(n - 1) PROVE runs(n)
  <2>1. PICK h : InsertsUpTo(h, n - 1, headers, transform)
    BY <1>3
  <2>. DEFINE g == [i \in 0..n |-> IF i = n THEN InsertNth(h[n - 1], transform, n) ELSE h[i]]
  <2>2. \A i \in 0..(n - 1) : h[i] = IF i = 0 THEN headers ELSE InsertNth(h[i - 1], transform, i)
    BY <2>1 DEF InsertsUpTo
  <2>3. \A i \in 0..(n - 1) : g[i] = h[i]
    BY <1>1
  <2>4. \A i \in 1..n : g[i - 1] = h[i - 1]
    BY <1>1, <2>3
  <2>5. g[n] = InsertNth(h[n - 1], transform, n) /\ DOMAIN g = 0..n
    BY <1>1
  <2>6. g = [i \in 0..n |-> g[i]]
    OBVIOUS
  <2>. HIDE DEF g
  <2>7. \A i \in 0..n : g[i] = IF i = 0 THEN headers ELSE InsertNth(g[i - 1], transform, i)
    <3>. SUFFICES ASSUME NEW i \in 0..n
                  PROVE  g[i] = IF i = 0 THEN headers ELSE InsertNth(g[i - 1], transform, i)
      OBVIOUS
    <3>1. CASE i = n
      BY <1>1, <2>4, <2>5, <3>1
    <3>2. CASE i \in 1..(n - 1)
      BY <1>1, <2>2, <2>3, <2>4, <3>2
    <3>3. CASE i = 0
      BY <1>1, <2>2, <2>3, <3>3
    <3>. QED  BY <1>1, <3>1, <3>2, <3>3
  <2>8. InsertsUpTo(g, n, headers, transform)
    BY <2>6, <2>7 DEF InsertsUpTo
  <2>. QED  BY <2>8
<1>. HIDE DEF runs
<1>4. S = {}
  <2>. SUFFICES ASSUME S # {} PROVE FALSE
    OBVIOUS
  <2>1. PICK m \in S : \A x \in S : m <= x
    BY <1>1, FirstPlace
  <2>2. m \in 1..N /\ ~runs(m) /\ m - 1 \notin S
    BY <1>1, <2>1
  <2>3. m - 1 \in 1..N \/ m - 1 = 0
    BY <1>1, <2>2
  <2>4. runs(m - 1)
    BY <1>2, <2>2, <2>3
  <2>. QED  BY <1>3, <2>2, <2>4
<1>5. runs(N)
  BY <1>1, <1>2, <1>4
<1>6. InsertLoop(headers, transform) = CHOOSE g : InsertsUpTo(g, N, headers, transform)
  BY DEF InsertLoop, InsertsUpTo, N
<1>7. InsertsUpTo(InsertLoop(headers, transform), N, headers, transform)
  BY <1>5, <1>6 DEF runs
<1>. QED  BY <1>7 DEF N

\* Removing a header takes that one and no other.
LEMMA GetRemoved ==
    ASSUME NEW headers, NEW name, NEW other
    PROVE  Get(RemoveHeader(headers, name), other) = IF other = name THEN Unset ELSE Get(headers, other)
BY DEF Get, RemoveHeader

\* Inserting a header replaces that one and no other.
LEMMA GetInserted ==
    ASSUME NEW headers, NEW name, NEW value, NEW other
    PROVE  Get(InsertHeader(headers, name, value), other) = IF other = name THEN value ELSE Get(headers, other)
BY DEF Get, InsertHeader

Removes(transform, j, name) == Spellings[j] \in transform.remove /\ Lower[Spellings[j]] = name

Inserts(transform, j, name) == Spellings[j] \in DOMAIN transform.add /\ Lower[Spellings[j]] = name

\* After all rounds of the first loop what it removes is gone and the rest is there.
LEMMA RemoveLoopRemoves ==
    ASSUME NEW headers, NEW transform, NEW name
    PROVE  Get(RemoveLoop(headers, transform)[Len(Spellings)], name) =
             IF \E j \in 1..Len(Spellings) : Removes(transform, j, name) THEN Unset ELSE Get(headers, name)
<1>. DEFINE N == Len(Spellings)
            kept == RemoveLoop(headers, transform)
            right(i) == Get(kept[i], name) = IF \E j \in 1..i : Removes(transform, j, name)
                                             THEN Unset ELSE Get(headers, name)
            S == {i \in 1..N : ~right(i)}
<1>1. N \in Nat
  BY SpellingsAssumption
<1>2. \A i \in 0..N : kept[i] = IF i = 0 THEN headers ELSE RemoveNth(kept[i - 1], transform, i)
  BY RemoveLoopRuns DEF RemovesUpTo
<1>. HIDE DEF N, kept
<1>3. right(0)
  BY <1>1, <1>2
<1>4. ASSUME NEW i \in 1..N, right(i - 1) PROVE right(i)
  <2>1. kept[i] = RemoveNth(kept[i - 1], transform, i)
    BY <1>1, <1>2
  <2>2. (\E j \in 1..i : Removes(transform, j, name)) <=>
          (\E j \in 1..(i - 1) : Removes(transform, j, name)) \/ Removes(transform, i, name)
    BY <1>1
  <2>3. CASE Removes(transform, i, name)
    <3>1. kept[i] = RemoveHeader(kept[i - 1], name)
      BY <2>1, <2>3 DEF Removes, RemoveNth
    <3>. QED  BY <2>2, <2>3, <3>1, GetRemoved
  <2>4. CASE ~Removes(transform, i, name)
    <3>1. Get(kept[i], name) = Get(kept[i - 1], name)
      BY <2>1, <2>4, GetRemoved DEF Removes, RemoveNth
    <3>. QED  BY <1>4, <2>2, <2>4, <3>1
  <2>. QED  BY <2>3, <2>4
<1>. HIDE DEF right
<1>5. S = {}
  <2>. SUFFICES ASSUME S # {} PROVE FALSE
    OBVIOUS
  <2>1. PICK m \in S : \A x \in S : m <= x
    BY <1>1, FirstPlace
  <2>2. m \in 1..N /\ ~right(m) /\ m - 1 \notin S
    BY <1>1, <2>1
  <2>3. m - 1 \in 1..N \/ m - 1 = 0
    BY <1>1, <2>2
  <2>4. right(m - 1)
    BY <1>3, <2>2, <2>3
  <2>. QED  BY <1>4, <2>2, <2>4
<1>6. right(N)
  BY <1>1, <1>3, <1>5
<1>. QED  BY <1>6 DEF right, N, kept

\* After all rounds of the second loop what it inserted last is there.
LEMMA InsertLoopInserts ==
    ASSUME NEW headers, NEW transform, NEW name
    PROVE  LET after == Get(InsertLoop(headers, transform)[Len(Spellings)], name)
           IN \/ \E j \in 1..Len(Spellings) :
                   /\ Inserts(transform, j, name) /\ after = transform.add[Spellings[j]]
                   /\ \A l \in 1..Len(Spellings) : Inserts(transform, l, name) => l <= j
              \/ /\ \A j \in 1..Len(Spellings) : ~Inserts(transform, j, name)
                 /\ after = Get(headers, name)
<1>. DEFINE N == Len(Spellings)
            done == InsertLoop(headers, transform)
            last(i) == \E j \in 1..i :
                         /\ Inserts(transform, j, name) /\ Get(done[i], name) = transform.add[Spellings[j]]
                         /\ \A l \in 1..i : Inserts(transform, l, name) => l <= j
            none(i) == /\ \A j \in 1..i : ~Inserts(transform, j, name)
                       /\ Get(done[i], name) = Get(headers, name)
            right(i) == last(i) \/ none(i)
            S == {i \in 1..N : ~right(i)}
<1>1. N \in Nat
  BY SpellingsAssumption
<1>2. \A i \in 0..N : done[i] = IF i = 0 THEN headers ELSE InsertNth(done[i - 1], transform, i)
  BY InsertLoopRuns DEF InsertsUpTo
<1>. HIDE DEF N, done
<1>3. right(0)
  BY <1>1, <1>2
<1>4. ASSUME NEW i \in 1..N, right(i - 1) PROVE right(i)
  <2>1. done[i] = InsertNth(done[i - 1], transform, i)
    BY <1>1, <1>2
  <2>2. CASE Inserts(transform, i, name)
    <3>1. done[i] = InsertHeader(done[i - 1], name, transform.add[Spellings[i]])
      BY <2>1, <2>2 DEF Inserts, InsertNth
    <3>2. Get(done[i], name) = transform.add[Spellings[i]]
      BY <3>1, GetInserted
    <3>3. last(i)
      BY <1>1, <2>2, <3>2
    <3>. QED  BY <3>3
  <2>3. CASE ~Inserts(transform, i, name)
    <3>1. Get(done[i], name) = Get(done[i - 1], name)
      BY <2>1, <2>3, GetInserted DEF Inserts, InsertNth
    <3>2. \A j \in 1..i : Inserts(transform, j, name) => j \in 1..(i - 1)
      BY <1>1, <2>3
    <3>3. last(i - 1) => last(i)
      BY <1>1, <3>1, <3>2
    <3>4. none(i - 1) => none(i)
      BY <1>1, <3>1, <3>2
    <3>. HIDE DEF last, none
    <3>. QED  BY <1>4, <3>3, <3>4
  <2>. QED  BY <2>2, <2>3
<1>. HIDE DEF right
<1>5. S = {}
  <2>. SUFFICES ASSUME S # {} PROVE FALSE
    OBVIOUS
  <2>1. PICK m \in S : \A x \in S : m <= x
    BY <1>1, FirstPlace
  <2>2. m \in 1..N /\ ~right(m) /\ m - 1 \notin S
    BY <1>1, <2>1
  <2>3. m - 1 \in 1..N \/ m - 1 = 0
    BY <1>1, <2>2
  <2>4. right(m - 1)
    BY <1>3, <2>2, <2>3
  <2>. QED  BY <1>4, <2>2, <2>4
<1>6. right(N)
  BY <1>1, <1>3, <1>5
<1>. QED  BY <1>6 DEF right, N, done

\* The two loops do to each header what Value says of it.
LEMMA ApplyIs ==
    ASSUME NEW headers, NEW transform, transform.remove \subseteq ToSet(Spellings), NEW name
    PROVE  Get(Apply(headers, transform), name) = Value(headers, transform, name)
<1>. DEFINE N == Len(Spellings)
            kept == RemoveLoop(headers, transform)[N]
            adding == {i \in DOMAIN Spellings :
                         Spellings[i] \in DOMAIN transform.add /\ Lower[Spellings[i]] = name}
            after == Get(InsertLoop(kept, transform)[N], name)
<1>1. N \in Nat /\ DOMAIN Spellings = 1..N
  BY SpellingsAssumption
<1>2. Get(Apply(headers, transform), name) = after
  BY DEF Apply
<1>3. Get(kept, name) = IF \E j \in 1..N : Removes(transform, j, name) THEN Unset ELSE Get(headers, name)
  BY RemoveLoopRemoves
<1>4. (\E j \in 1..N : Removes(transform, j, name)) <=> name \in {Lower[t] : t \in transform.remove}
  BY <1>1 DEF Removes, ToSet
<1>5. adding = {j \in 1..N : Inserts(transform, j, name)}
  BY <1>1 DEF Inserts
<1>6. \/ \E j \in 1..N : /\ Inserts(transform, j, name) /\ after = transform.add[Spellings[j]]
                         /\ \A l \in 1..N : Inserts(transform, l, name) => l <= j
      \/ (\A j \in 1..N : ~Inserts(transform, j, name)) /\ after = Get(kept, name)
  BY InsertLoopInserts
<1>7. Value(headers, transform, name) =
        IF adding # {} THEN transform.add[Spellings[CHOOSE i \in adding : \A j \in adding : j <= i]]
        ELSE IF name \in {Lower[t] : t \in transform.remove} THEN Unset ELSE Get(headers, name)
  BY DEF Value, Get
<1>. HIDE DEF N, kept, adding, after
<1>8. CASE adding = {}
  BY <1>2, <1>3, <1>4, <1>5, <1>6, <1>7, <1>8
<1>9. CASE adding # {}
  <2>1. PICK j \in adding : after = transform.add[Spellings[j]] /\ \A l \in adding : l <= j
    BY <1>5, <1>6, <1>9
  <2>2. \A i \in adding : (\A l \in adding : l <= i) => i = j
    BY <1>1, <1>5, <2>1
  <2>3. (CHOOSE i \in adding : \A l \in adding : l <= i) = j
    BY <2>1, <2>2
  <2>. QED  BY <1>2, <1>7, <1>9, <2>1, <2>3
<1>. QED  BY <1>8, <1>9

----------------------------------------------------------------------------
(* What a request and its answer have become. *)

\* A request carries the policies it was matched with and what they made of it.
IsContext(c) ==
    c = [pc |-> c.pc, id |-> c.id, route |-> c.route, client |-> c.client, sent |-> c.sent,
         backend |-> c.backend, answer |-> c.answer]

Rewritten(c) ==
    /\ IsContext(c)
    /\ c.pc \in {"idle", "new", "matched", "refused", "sent", "answered"}
    /\ c.pc \in {"matched", "sent", "answered"} => c.route \in Policies
    /\ c.pc \in {"sent", "answered"} => c.sent = UpstreamRequestFilter(c.client, c)
    /\ c.pc = "answered" => c.answer = ResponseFilter(c.backend, c)

\* Numbers that were given out are behind, and no two requests share one.
Numbered ==
    /\ \A r \in Requests : request[r].pc # "idle" =>
         \E n \in DOMAIN Id : n < sequence /\ request[r].id = Id[n]
    /\ \A r, s \in Requests : r # s /\ request[r].pc # "idle" /\ request[s].pc # "idle" =>
         request[r].id # request[s].id

ProxyInv ==
    /\ policy \in Policies /\ sequence \in Nat
    /\ request = [r \in Requests |-> request[r]]
    /\ \A r \in Requests : Rewritten(request[r])
    /\ Numbered

\* A context, with other values in some of its fields.
LEMMA ContextFields ==
    ASSUME NEW c,
           DOMAIN c = {"pc", "id", "route", "client", "sent", "backend", "answer"},
           c = [i \in DOMAIN c |-> c[i]]
    PROVE  IsContext(c)
BY DEF IsContext

LEMMA ContextComes ==
    ASSUME NEW k, IsContext(k), NEW id, NEW client
    PROVE  [k EXCEPT !.pc = "new", !.id = id, !.client = client] =
          [pc |-> "new", id |-> id, route |-> k.route, client |-> client, sent |-> k.sent,
           backend |-> k.backend, answer |-> k.answer]
<1>. DEFINE c == [k EXCEPT !.pc = "new", !.id = id, !.client = client]
<1>1. /\ c.pc = "new" /\ c.id = id /\ c.route = k.route /\ c.client = client
      /\ c.sent = k.sent /\ c.backend = k.backend /\ c.answer = k.answer
      /\ DOMAIN c = {"pc", "id", "route", "client", "sent", "backend", "answer"}
      /\ c = [i \in DOMAIN c |-> c[i]]
  BY DEF IsContext
<1>. HIDE DEF c
<1>2. IsContext(c)
  BY <1>1, ContextFields
<1>3. c = [pc |-> "new", id |-> id, route |-> k.route, client |-> client, sent |-> k.sent,
           backend |-> k.backend, answer |-> k.answer]
  BY <1>1, <1>2 DEF IsContext
<1>. QED  BY <1>3 DEF c

LEMMA ContextMatches ==
    ASSUME NEW k, IsContext(k), NEW route
    PROVE  [k EXCEPT !.pc = "matched", !.route = route] =
          [pc |-> "matched", id |-> k.id, route |-> route, client |-> k.client, sent |-> k.sent,
           backend |-> k.backend, answer |-> k.answer]
<1>. DEFINE c == [k EXCEPT !.pc = "matched", !.route = route]
<1>1. /\ c.pc = "matched" /\ c.id = k.id /\ c.route = route /\ c.client = k.client
      /\ c.sent = k.sent /\ c.backend = k.backend /\ c.answer = k.answer
      /\ DOMAIN c = {"pc", "id", "route", "client", "sent", "backend", "answer"}
      /\ c = [i \in DOMAIN c |-> c[i]]
  BY DEF IsContext
<1>. HIDE DEF c
<1>2. IsContext(c)
  BY <1>1, ContextFields
<1>3. c = [pc |-> "matched", id |-> k.id, route |-> route, client |-> k.client, sent |-> k.sent,
           backend |-> k.backend, answer |-> k.answer]
  BY <1>1, <1>2 DEF IsContext
<1>. QED  BY <1>3 DEF c

LEMMA ContextRefused ==
    ASSUME NEW k, IsContext(k)
    PROVE  [k EXCEPT !.pc = "refused"] =
          [pc |-> "refused", id |-> k.id, route |-> k.route, client |-> k.client, sent |-> k.sent,
           backend |-> k.backend, answer |-> k.answer]
<1>. DEFINE c == [k EXCEPT !.pc = "refused"]
<1>1. /\ c.pc = "refused" /\ c.id = k.id /\ c.route = k.route /\ c.client = k.client
      /\ c.sent = k.sent /\ c.backend = k.backend /\ c.answer = k.answer
      /\ DOMAIN c = {"pc", "id", "route", "client", "sent", "backend", "answer"}
      /\ c = [i \in DOMAIN c |-> c[i]]
  BY DEF IsContext
<1>. HIDE DEF c
<1>2. IsContext(c)
  BY <1>1, ContextFields
<1>3. c = [pc |-> "refused", id |-> k.id, route |-> k.route, client |-> k.client, sent |-> k.sent,
           backend |-> k.backend, answer |-> k.answer]
  BY <1>1, <1>2 DEF IsContext
<1>. QED  BY <1>3 DEF c

LEMMA ContextIsSent ==
    ASSUME NEW k, IsContext(k), NEW sent
    PROVE  [k EXCEPT !.pc = "sent", !.sent = sent] =
          [pc |-> "sent", id |-> k.id, route |-> k.route, client |-> k.client, sent |-> sent,
           backend |-> k.backend, answer |-> k.answer]
<1>. DEFINE c == [k EXCEPT !.pc = "sent", !.sent = sent]
<1>1. /\ c.pc = "sent" /\ c.id = k.id /\ c.route = k.route /\ c.client = k.client
      /\ c.sent = sent /\ c.backend = k.backend /\ c.answer = k.answer
      /\ DOMAIN c = {"pc", "id", "route", "client", "sent", "backend", "answer"}
      /\ c = [i \in DOMAIN c |-> c[i]]
  BY DEF IsContext
<1>. HIDE DEF c
<1>2. IsContext(c)
  BY <1>1, ContextFields
<1>3. c = [pc |-> "sent", id |-> k.id, route |-> k.route, client |-> k.client, sent |-> sent,
           backend |-> k.backend, answer |-> k.answer]
  BY <1>1, <1>2 DEF IsContext
<1>. QED  BY <1>3 DEF c

LEMMA ContextIsAnswered ==
    ASSUME NEW k, IsContext(k), NEW backend, NEW answer
    PROVE  [k EXCEPT !.pc = "answered", !.backend = backend, !.answer = answer] =
          [pc |-> "answered", id |-> k.id, route |-> k.route, client |-> k.client, sent |-> k.sent,
           backend |-> backend, answer |-> answer]
<1>. DEFINE c == [k EXCEPT !.pc = "answered", !.backend = backend, !.answer = answer]
<1>1. /\ c.pc = "answered" /\ c.id = k.id /\ c.route = k.route /\ c.client = k.client
      /\ c.sent = k.sent /\ c.backend = backend /\ c.answer = answer
      /\ DOMAIN c = {"pc", "id", "route", "client", "sent", "backend", "answer"}
      /\ c = [i \in DOMAIN c |-> c[i]]
  BY DEF IsContext
<1>. HIDE DEF c
<1>2. IsContext(c)
  BY <1>1, ContextFields
<1>3. c = [pc |-> "answered", id |-> k.id, route |-> k.route, client |-> k.client, sent |-> k.sent,
           backend |-> backend, answer |-> answer]
  BY <1>1, <1>2 DEF IsContext
<1>. QED  BY <1>3 DEF c

\* No request has come.
LEMMA ProxyStarts == ProxyInit => ProxyInv
BY DEF ProxyInit, ProxyInv, NewRequest, Rewritten, IsContext, Numbered

\* A request that goes on, with the number it was given when it came.
LEMMA GoesOn ==
    ASSUME ProxyInv, NEW r \in Requests, NEW c, Rewritten(c),
           request' = [request EXCEPT ![r] = c], UNCHANGED <<policy, sequence>>,
           request[r].pc # "idle", c.pc # "idle", c.id = request[r].id
    PROVE  ProxyInv'
<1>1. /\ request' = [q \in Requests |-> request'[q]] /\ request'[r] = c
      /\ \A q \in Requests : q # r => request'[q] = request[q]
  BY DEF ProxyInv
<1>2. \A q \in Requests : Rewritten(request'[q])
  BY <1>1 DEF ProxyInv
<1>3. \A q \in Requests : /\ request'[q].pc # "idle" <=> request[q].pc # "idle"
                          /\ request'[q].id = request[q].id \/ request[q].pc = "idle"
  BY <1>1
<1>4. Numbered'
  BY <1>3 DEF ProxyInv, Numbered
<1>. QED  BY <1>1, <1>2, <1>4 DEF ProxyInv

\* A request comes and gets a number that no other has.
LEMMA ComesIn ==
    ASSUME ProxyInv, NEW r \in Requests, NewContext(r)
    PROVE  ProxyInv'
<1>1. PICK headers \in Client :
        request' = [request EXCEPT ![r].pc = "new", ![r].id = Id[sequence], ![r].client = headers]
  BY DEF NewContext
<1>2. /\ sequence \in DOMAIN Id /\ sequence' = sequence + 1 /\ policy' = policy
      /\ request[r].pc = "idle"
  BY DEF NewContext
<1>. DEFINE c == [request[r] EXCEPT !.pc = "new", !.id = Id[sequence], !.client = headers]
<1>3. Rewritten(c) /\ c.pc = "new" /\ c.id = Id[sequence]
  <2>. DEFINE k == request[r]
  <2>1. IsContext(k)
    BY DEF ProxyInv, Rewritten
  <2>. HIDE DEF k
  <2>2. c = [pc |-> "new", id |-> Id[sequence], route |-> k.route, client |-> headers, sent |-> k.sent,
             backend |-> k.backend, answer |-> k.answer]
    BY <2>1, ContextComes DEF k
  <2>. HIDE DEF c
  <2>. QED  BY <2>2 DEF Rewritten, IsContext
<1>4. /\ request' = [q \in Requests |-> request'[q]] /\ request'[r] = c
      /\ \A q \in Requests : q # r => request'[q] = request[q]
  BY <1>1 DEF ProxyInv
<1>. HIDE DEF c
<1>5. \A q \in Requests : Rewritten(request'[q])
  BY <1>3, <1>4 DEF ProxyInv
<1>6. sequence \in Nat /\ DOMAIN Id \subseteq Nat /\ \A i, j \in DOMAIN Id : Id[i] = Id[j] => i = j
  BY IdAssumption DEF ProxyInv
<1>7. \A q \in Requests \ {r} : request[q].pc # "idle" =>
        \E n \in DOMAIN Id : n < sequence /\ request[q].id = Id[n]
  BY DEF ProxyInv, Numbered
<1>8. \A q \in Requests : request'[q].pc # "idle" =>
        \E n \in DOMAIN Id : n < sequence + 1 /\ request'[q].id = Id[n]
  <2>. SUFFICES ASSUME NEW q \in Requests, request'[q].pc # "idle"
                PROVE  \E n \in DOMAIN Id : n < sequence + 1 /\ request'[q].id = Id[n]
    OBVIOUS
  <2>1. CASE q = r
    BY <1>2, <1>3, <1>4, <1>6, <2>1
  <2>2. CASE q # r
    <3>1. PICK n \in DOMAIN Id : n < sequence /\ request[q].id = Id[n]
      BY <1>4, <1>7, <2>2
    <3>2. n < sequence + 1
      BY <1>6, <3>1
    <3>. QED  BY <1>4, <2>2, <3>1, <3>2
  <2>. QED  BY <2>1, <2>2
<1>9. \A q \in Requests \ {r} : request[q].pc # "idle" => request[q].id # Id[sequence]
  <2>. SUFFICES ASSUME NEW q \in Requests \ {r}, request[q].pc # "idle"
                PROVE  request[q].id # Id[sequence]
    OBVIOUS
  <2>1. PICK n \in DOMAIN Id : n < sequence /\ request[q].id = Id[n]
    BY <1>7
  <2>2. n # sequence
    BY <1>6, <2>1
  <2>. QED  BY <1>2, <1>6, <2>1, <2>2
<1>10. \A q, s \in Requests : q # s /\ request'[q].pc # "idle" /\ request'[s].pc # "idle" =>
         request'[q].id # request'[s].id
  BY <1>3, <1>4, <1>9 DEF ProxyInv, Numbered
<1>. QED  BY <1>2, <1>4, <1>5, <1>6, <1>8, <1>10 DEF ProxyInv, Numbered

\* Each step keeps the invariant, whoever replaces the policies.
LEMMA ProxyKeeps == ProxyInv /\ [ProxyNext]_proxying => ProxyInv'
<1>. SUFFICES ASSUME ProxyInv, [ProxyNext]_proxying PROVE ProxyInv'
  OBVIOUS
<1>1. CASE ApplyPolicies
  BY <1>1 DEF ApplyPolicies, ProxyInv, Numbered
<1>2. ASSUME NEW r \in Requests, NewContext(r) PROVE ProxyInv'
  BY <1>2, ComesIn
<1>3. ASSUME NEW r \in Requests, Match(r) PROVE ProxyInv'
  <2>. DEFINE c == [request[r] EXCEPT !.pc = "matched", !.route = policy]
              k == request[r]
  <2>0. IsContext(k) /\ k.pc = "new" /\ policy \in Policies
    BY <1>3 DEF Match, ProxyInv, Rewritten
  <2>1. Rewritten(c) /\ c.pc # "idle" /\ c.id = request[r].id /\ request[r].pc # "idle"
    <3>. HIDE DEF k
    <3>1. c = [pc |-> "matched", id |-> k.id, route |-> policy, client |-> k.client, sent |-> k.sent,
               backend |-> k.backend, answer |-> k.answer]
      BY <2>0, ContextMatches DEF k
    <3>. HIDE DEF c
    <3>2. Rewritten(c) /\ c.pc # "idle" /\ c.id = k.id /\ k.pc # "idle"
      BY <2>0, <3>1 DEF Rewritten, IsContext
    <3>. QED  BY <3>2 DEF k
  <2>2. request' = [request EXCEPT ![r] = c] /\ UNCHANGED <<policy, sequence>>
    BY <1>3 DEF Match, ProxyInv
  <2>. HIDE DEF c
  <2>. QED  BY <2>1, <2>2, GoesOn
<1>4. ASSUME NEW r \in Requests, AnswerItself(r) \/ ConnectFails(r) PROVE ProxyInv'
  <2>. DEFINE c == [request[r] EXCEPT !.pc = "refused"]
              k == request[r]
  <2>0. IsContext(k) /\ k.pc # "idle"
    BY <1>4 DEF AnswerItself, ConnectFails, ProxyInv, Rewritten
  <2>1. Rewritten(c) /\ c.pc # "idle" /\ c.id = request[r].id /\ request[r].pc # "idle"
    <3>. HIDE DEF k
    <3>1. c = [pc |-> "refused", id |-> k.id, route |-> k.route, client |-> k.client, sent |-> k.sent,
               backend |-> k.backend, answer |-> k.answer]
      BY <2>0, ContextRefused DEF k
    <3>. HIDE DEF c
    <3>2. Rewritten(c) /\ c.pc # "idle" /\ c.id = k.id /\ k.pc # "idle"
      BY <2>0, <3>1 DEF Rewritten, IsContext
    <3>. QED  BY <3>2 DEF k
  <2>2. request' = [request EXCEPT ![r] = c] /\ UNCHANGED <<policy, sequence>>
    BY <1>4 DEF AnswerItself, ConnectFails, ProxyInv
  <2>. HIDE DEF c
  <2>. QED  BY <2>1, <2>2, GoesOn
<1>5. ASSUME NEW r \in Requests, SendUpstream(r) PROVE ProxyInv'
  <2>. DEFINE sent == UpstreamRequestFilter(request[r].client, request[r])
              c == [request[r] EXCEPT !.pc = "sent", !.sent = sent]
  <2>1. /\ c.pc = "sent" /\ c.id = request[r].id /\ c.route = request[r].route /\ c.sent = sent
        /\ c.client = request[r].client /\ request[r].pc = "matched" /\ c.route \in Policies
        /\ IsContext(c)
    <3>. DEFINE k == request[r]
    <3>1. IsContext(k) /\ k.pc = "matched" /\ k.route \in Policies
      BY <1>5 DEF SendUpstream, ProxyInv, Rewritten
    <3>. HIDE DEF k, sent
    <3>2. c = [pc |-> "sent", id |-> k.id, route |-> k.route, client |-> k.client, sent |-> sent,
               backend |-> k.backend, answer |-> k.answer]
      BY <3>1, ContextIsSent DEF k
    <3>. HIDE DEF c
    <3>3. /\ c.pc = "sent" /\ c.id = k.id /\ c.route = k.route /\ c.sent = sent
          /\ c.client = k.client /\ IsContext(c)
      BY <3>2 DEF IsContext
    <3>. QED  BY <3>1, <3>3 DEF k
  <2>2. request' = [request EXCEPT ![r] = c] /\ UNCHANGED <<policy, sequence>>
    BY <1>5 DEF SendUpstream, ProxyInv
  <2>3. sent = UpstreamRequestFilter(c.client, c)
    BY <2>1 DEF UpstreamRequestFilter
  <2>. HIDE DEF c, sent
  <2>4. Rewritten(c)
    BY <2>1, <2>3 DEF Rewritten
  <2>. QED  BY <2>1, <2>2, <2>4, GoesOn
<1>6. ASSUME NEW r \in Requests, SendAnswer(r) PROVE ProxyInv'
  <2>1. PICK headers \in Backend :
          request' = [request EXCEPT ![r].pc = "answered", ![r].backend = headers,
                                     ![r].answer = ResponseFilter(headers, request[r])]
    BY <1>6 DEF SendAnswer
  <2>. DEFINE answer == ResponseFilter(headers, request[r])
              c == [request[r] EXCEPT !.pc = "answered", !.backend = headers, !.answer = answer]
  <2>2. /\ c.pc = "answered" /\ c.id = request[r].id /\ c.route = request[r].route
        /\ c.client = request[r].client /\ c.sent = request[r].sent
        /\ c.backend = headers /\ c.answer = answer
        /\ request[r].pc = "sent" /\ c.route \in Policies
        /\ request[r].sent = UpstreamRequestFilter(request[r].client, request[r])
        /\ IsContext(c)
    <3>. DEFINE k == request[r]
    <3>1. /\ IsContext(k) /\ k.pc = "sent" /\ k.route \in Policies
          /\ k.sent = UpstreamRequestFilter(k.client, k)
      BY <1>6 DEF SendAnswer, ProxyInv, Rewritten
    <3>. HIDE DEF k, answer
    <3>2. c = [pc |-> "answered", id |-> k.id, route |-> k.route, client |-> k.client, sent |-> k.sent,
               backend |-> headers, answer |-> answer]
      BY <3>1, ContextIsAnswered DEF k
    <3>. HIDE DEF c
    <3>3. /\ c.pc = "answered" /\ c.id = k.id /\ c.route = k.route /\ c.client = k.client
          /\ c.sent = k.sent /\ c.backend = headers /\ c.answer = answer /\ IsContext(c)
      BY <3>2 DEF IsContext
    <3>. QED  BY <3>1, <3>3 DEF k
  <2>3. request' = [request EXCEPT ![r] = c] /\ UNCHANGED <<policy, sequence>>
    BY <1>6, <2>1 DEF SendAnswer, ProxyInv
  <2>4. c.sent = UpstreamRequestFilter(c.client, c)
    BY <2>2 DEF UpstreamRequestFilter
  <2>5. answer = ResponseFilter(c.backend, c)
    BY <2>2 DEF ResponseFilter
  <2>. HIDE DEF c, answer
  <2>6. Rewritten(c)
    BY <2>2, <2>4, <2>5 DEF Rewritten
  <2>. QED  BY <2>2, <2>3, <2>6, GoesOn
<1>7. CASE UNCHANGED proxying
  BY <1>7 DEF proxying, ProxyInv, Numbered
<1>. QED  BY <1>1, <1>2, <1>3, <1>4, <1>5, <1>6, <1>7 DEF ProxyNext

\* The invariant of the headers' path.
LEMMA ProxyAlways == ProxySpec => []ProxyInv
BY ProxyStarts, ProxyKeeps, PTL DEF ProxySpec

\* The headers of a request that was sent, and of an answer, one by one.
LEMMA SentHeaders ==
    ASSUME NEW c, Rewritten(c), c.pc \in {"sent", "answered"}
    PROVE  /\ Get(c.sent, RouteName) = c.route.name
           /\ Get(c.sent, RequestId) = c.id
           /\ \A name : name \notin {RequestId, RouteName} =>
                Get(c.sent, name) = Value(c.client, c.route.request, name)
<1>. DEFINE applied == Apply(c.client, c.route.request)
            withId == InsertHeader(applied, RequestId, c.id)
<1>1. c.sent = InsertHeader(withId, RouteName, c.route.name) /\ c.route \in Policies
  BY DEF Rewritten, UpstreamRequestFilter
<1>2. c.route.request.remove \subseteq ToSet(Spellings)
  BY <1>1, SpellingsAssumption
<1>3. \A name : Get(applied, name) = Value(c.client, c.route.request, name)
  BY <1>2, ApplyIs
<1>. HIDE DEF applied
<1>4. \A name : Get(withId, name) = IF name = RequestId THEN c.id ELSE Get(applied, name)
  BY GetInserted
<1>. HIDE DEF withId
<1>5. \A name : Get(c.sent, name) = IF name = RouteName THEN c.route.name ELSE Get(withId, name)
  BY <1>1, GetInserted
<1>. QED  BY <1>3, <1>4, <1>5, NamesAssumption

\* The same of the answer, without Alt-Svc.
LEMMA AnswerHeaders ==
    ASSUME NEW c, Rewritten(c), c.pc = "answered"
    PROVE  /\ Get(c.answer, RequestId) = c.id
           /\ \A name : name \notin {RequestId, AltSvc} =>
                Get(c.answer, name) = Value(c.backend, c.route.response, name)
<1>. DEFINE applied == Apply(c.backend, c.route.response)
            withId == InsertHeader(applied, RequestId, c.id)
<1>1. c.answer = RemoveHeader(withId, AltSvc) /\ c.route \in Policies
  BY DEF Rewritten, ResponseFilter
<1>2. c.route.response.remove \subseteq ToSet(Spellings)
  BY <1>1, SpellingsAssumption
<1>3. \A name : Get(applied, name) = Value(c.backend, c.route.response, name)
  BY <1>2, ApplyIs
<1>. HIDE DEF applied
<1>4. \A name : Get(withId, name) = IF name = RequestId THEN c.id ELSE Get(applied, name)
  BY GetInserted
<1>. HIDE DEF withId
<1>5. \A name : Get(c.answer, name) = IF name = AltSvc THEN Unset ELSE Get(withId, name)
  BY <1>1, GetRemoved
<1>. QED  BY <1>3, <1>4, <1>5, NamesAssumption

\* What a backend and a client get was changed by the policies the request was
\* matched with, header by header, and by nothing else.
THEOREM ChangedAsConfiguredAlways == ProxySpec => []ChangedAsConfigured
<1>1. ProxyInv => ChangedAsConfigured
  BY SentHeaders, AnswerHeaders DEF ProxyInv, ChangedAsConfigured, Sent, Answered
<1>. QED  BY <1>1, ProxyAlways, PTL

\* Whatever the policies and the client say of the gateway's own headers, the
\* backend and the client get the id of the request, which no other has.
THEOREM IdsAlwaysAgree == ProxySpec => []IdsAgree
<1>1. ASSUME ProxyInv PROVE IdsAgree
  <2>1. \A r \in Requests : Sent(r) =>
          /\ Get(request[r].sent, RouteName) = request[r].route.name
          /\ Get(request[r].sent, RequestId) = request[r].id
          /\ request[r].pc # "idle"
    BY <1>1, SentHeaders DEF ProxyInv, Sent
  <2>2. \A r \in Requests : Answered(r) => Get(request[r].answer, RequestId) = request[r].id
    BY <1>1, AnswerHeaders DEF ProxyInv, Answered
  <2>3. \A r, s \in Requests : r # s /\ Sent(r) /\ Sent(s) => request[r].id # request[s].id
    BY <1>1, <2>1 DEF ProxyInv, Numbered
  <2>. QED  BY <2>1, <2>2, <2>3 DEF IdsAgree
<1>. QED  BY <1>1, ProxyAlways, PTL
=============================================================================
