------------------------------- MODULE Routing -------------------------------
(***************************************************************************)
(* Route matching and evaluation order                                     *)
(* (crates/lungyam-core/src/routing.rs), as operators on route tables.     *)
(*                                                                         *)
(* A path is the sequence of its bytes, of which only the slash has a      *)
(* meaning here. A host is a record of the name with its case folded, the  *)
(* name as it is spelled and the port. Methods are only ever compared      *)
(* ignoring case, so a method stands for all its spellings.                *)
(***************************************************************************)
EXTENDS Naturals, Sequences, FiniteSets, SequencesExt

CONSTANTS
    None,           \* Option::None
    Characters,     \* the bytes of paths
    Slash           \* the one between segments

Root == <<Slash>>

\* str::len
Bytes(path) == Len(path)

----------------------------------------------------------------------------
(* Does a route match? *)

EqIgnoreCase(h, g) == h.name = g.name /\ h.port = g.port

\* The rest of the actual host, after the expected one, starts with a colon.
\* strip_prefix, unlike the comparison above, does not ignore case.
HasPortAfter(actual, expected) ==
    /\ expected.port = None
    /\ actual.port # None
    /\ actual.spelling = expected.spelling

HostMatches(expected, actual) ==
    \/ expected = None
    \/ /\ actual # None
       /\ EqIgnoreCase(actual, expected) \/ HasPortAfter(actual, expected)

\* Mutant: "/api" matches "/apiv2".
PathMatchesAnywhere(routePath, actual) == routePath = Root \/ IsPrefix(routePath, actual)

\* What is left of the path after that of the route starts with a slash.
PathMatches(routePath, actual) ==
    \/ routePath \in {Root, actual}
    \/ IsStrictPrefix(routePath, actual) /\ actual[Len(routePath) + 1] = Slash

RouteMatches(route, q) ==
    /\ HostMatches(route.host, q.host)
    /\ PathMatches(route.path, q.path)
    /\ route.methods = {} \/ q.method \in route.methods

----------------------------------------------------------------------------
(* In which order are routes tried? *)

\* Mutant: only priority counts.
BeforeByPriority(left, right) == left.priority > right.priority

\* route_ordering(left, right) is Less: higher priority, then longer path.
Before(left, right) ==
    \/ left.priority > right.priority
    \/ left.priority = right.priority /\ Bytes(left.path) > Bytes(right.path)

\* The places that a stable sort moves ahead of place i.
Ahead(routes, i) ==
    {j \in DOMAIN routes : \/ Before(routes[j], routes[i])
                           \/ j < i /\ ~Before(routes[i], routes[j])}

\* Mutant: routes that compare equal change places.
SortRoutesUnstable(routes) ==
    [n \in DOMAIN routes |->
       routes[CHOOSE i \in DOMAIN routes :
                n = 1 + Cardinality(Ahead(Reverse(routes), Len(routes) + 1 - i))]]

\* slice::sort_by, which is stable.
SortRoutes(routes) ==
    [n \in DOMAIN routes |->
       routes[CHOOSE i \in DOMAIN routes : n = 1 + Cardinality(Ahead(routes, i))]]

\* Iterator::position: the first route that matches, 0 when none does.
Position(routes, q) ==
    LET matching == {i \in DOMAIN routes : RouteMatches(routes[i], q)}
    IN IF matching = {} THEN 0 ELSE CHOOSE i \in matching : \A j \in matching : i <= j

\* The admin pages sort the declared table for each lookup.
FindMatchingRoute(routes, q) ==
    LET ordered == SortRoutes(routes)
        i == Position(ordered, q)
    IN IF i = 0 THEN None ELSE ordered[i]
=============================================================================
