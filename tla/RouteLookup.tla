----------------------------- MODULE RouteLookup -----------------------------
(***************************************************************************)
(* Looking a request up in a route table, as the data plane does it on the *)
(* table that RuntimeConfigSnapshot::from_config sorted once. Checked      *)
(* against what the README says of which routes match and in which order,  *)
(* over all tables and requests of an instance. (The simulator of the      *)
(* admin is in AdminViews, beside the requests it tells of.)               *)
(***************************************************************************)
EXTENDS Routing, Integers

CONSTANTS
    HealthPath, \* "/health", which the gateway answers itself
    Tables,     \* declared route tables
    Queries     \* requests: host, path and method

ASSUME TablesAssumption ==
    /\ None \notin Queries
    /\ \A q \in Queries : q.path \in Seq(Characters)
    /\ \A routes \in Tables :
           /\ Len(routes) \in Nat /\ DOMAIN routes = 1..Len(routes)
           /\ \A i \in DOMAIN routes : /\ routes[i].priority \in Int
                                     /\ routes[i].path \in Seq(Characters)

VARIABLES
    declared,   \* Config.routes
    table,      \* RuntimeConfigSnapshot.routes
    query,      \* the request looked up last, or None
    index       \* its route_index, or 0

vars == <<declared, table, query, index>>

\* RuntimeConfigSnapshot::from_config
Init ==
    /\ declared \in Tables
    /\ table = SortRoutes(declared)
    /\ query = None
    /\ index = 0

\* request_filter: the gateway answers a health check itself, whatever its host and
\* method, and looks up the route of any other request.
LookUp(q) ==
    /\ query' = q
    /\ index' = IF q.path = HealthPath THEN 0 ELSE Position(table, q)
    /\ UNCHANGED <<declared, table>>

\* The routes page sorts what the runtime status has sorted already.
RouteViews == SortRoutes(table)

Next == \E q \in Queries : LookUp(q)

Spec == Init /\ [][Next]_vars

----------------------------------------------------------------------------
(* Properties. *)

Answer == IF index = 0 THEN None ELSE table[index]

\* A request has been looked up.
LookedUp == query # None /\ query.path # HealthPath

\* What the README promises, on the table as declared: of the routes that match,
\* those of the highest priority, of those the ones with the longest path, and of
\* those the one declared first.
Best(routes, q) ==
    LET matching == {i \in DOMAIN routes : RouteMatches(routes[i], q)}
        highest == {i \in matching : \A j \in matching : routes[i].priority >= routes[j].priority}
        longest == {i \in highest :
                      \A j \in highest : Bytes(routes[i].path) >= Bytes(routes[j].path)}
    IN IF matching = {} THEN None
       ELSE routes[CHOOSE i \in longest : \A j \in longest : i <= j]

\* The data plane's position in the sorted table is that route: sorting once and
\* stopping at the first match loses no match and keeps the order of declaration.
BestRouteWins == LookedUp => Answer = Best(declared, query)

\* Length in bytes stands in for depth: no route of the same priority that
\* matches too lies below the path of the one that answers.
DeepestRouteWins ==
    index # 0 =>
        \A i \in DOMAIN declared :
            /\ RouteMatches(declared[i], query)
            /\ declared[i].priority = Answer.priority
            => ~IsStrictPrefix(Answer.path, declared[i].path)

\* The path, and what is above it: the root, and what stands before each slash.
AtOrAbove(path) ==
    {Root, path} \cup {SubSeq(path, 1, i - 1) : i \in {j \in DOMAIN path : path[j] = Slash}}

\* The route may be used for this host and this method.
Admits(route, q) ==
    HostMatches(route.host, q.host) /\ (route.methods = {} \/ q.method \in route.methods)

\* The README: matching respects segment boundaries. A request is answered by a route
\* at or above its path, and by none only if no route there admits it.
SegmentsRespected ==
    LookedUp =>
        LET above == {i \in DOMAIN declared : declared[i].path \in AtOrAbove(query.path)}
            fit == {declared[i] : i \in {j \in above : Admits(declared[j], query)}}
        IN IF index = 0 THEN fit = {} ELSE Answer \in fit

\* The routes page lists the routes in the order the proxy tries them, ties too.
PageInOrder == RouteViews = table
=============================================================================
