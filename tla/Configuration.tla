---------------------------- MODULE Configuration ----------------------------
(***************************************************************************)
(* The whole configuration, its validation (crates/lungyam-core/src/       *)
(* config.rs), the difference of two configurations (config_diff.rs), what *)
(* a running process can take over without a restart (runtime.rs) and when *)
(* the admin accepts writes (crates/lungyam-admin/src/security.rs).        *)
(*                                                                         *)
(* A configuration is a record of server (its listen address), admin       *)
(* (enabled, listen, read_only), upstreams (a function from names to       *)
(* pools) and routes (a sequence: the code keeps their order). Texts are   *)
(* model values. The methods of a route and the header names that a policy *)
(* removes are sets, for nothing depends on their order.                   *)
(***************************************************************************)
EXTENDS Routing

CONSTANTS
    Empty,              \* the empty text
    Trimmed,            \* the texts with white space around them -> without
    SocketAddresses,    \* the texts that parse as a socket address
    Loopback,           \* those with a loopback address
    HeaderNames,        \* the texts that parse as the name of a header
    HeaderValues        \* the texts that parse as the value of a header

\* What is left has no white space around it.
ASSUME TrimmedAssumption ==
    DOMAIN Trimmed \cap ({Empty} \cup {Trimmed[text] : text \in DOMAIN Trimmed}) = {}

\* str::trim
Trim(text) == IF text \in DOMAIN Trimmed THEN Trimmed[text] ELSE text

Blank(text) == Trim(text) = Empty

----------------------------------------------------------------------------
(* Validation *)

NoHeaders == [add |-> [name \in {} |-> None], remove |-> {}]

ValidHeaders(headers) ==
    /\ headers.remove \cup DOMAIN headers.add \subseteq HeaderNames
    /\ \A name \in DOMAIN headers.add : headers.add[name] \in HeaderValues

ValidUpstream(upstream) ==
    /\ upstream.endpoints # <<>>
    /\ \A i \in DOMAIN upstream.endpoints : ~Blank(upstream.endpoints[i])
    /\ upstream.interval # 0

ValidRoute(config, route) ==
    /\ IsPrefix(Root, route.path)
    /\ route.upstream \in DOMAIN config.upstreams
    /\ \A method \in route.methods : ~Blank(method)
    /\ ValidHeaders(route.request) /\ ValidHeaders(route.response)
    /\ route.limit # None => 0 \notin {route.limit.requests, route.limit.window}

Valid(config) ==
    /\ ~Blank(config.server)
    /\ config.admin.listen \in SocketAddresses
    /\ DOMAIN config.upstreams # {}
    /\ \A name \in DOMAIN config.upstreams : ValidUpstream(config.upstreams[name])
    /\ \A i, j \in DOMAIN config.routes :
         config.routes[i].name = config.routes[j].name => i = j
    /\ \A i \in DOMAIN config.routes : ValidRoute(config, config.routes[i])

----------------------------------------------------------------------------
(* The difference of two configurations *)

\* Of routes with one name the last counts.
RoutesByName(routes) ==
    [name \in {routes[i].name : i \in DOMAIN routes} |->
       routes[CHOOSE i \in DOMAIN routes :
                /\ routes[i].name = name
                /\ \A j \in DOMAIN routes : routes[j].name = name => j <= i]]

Added(old, new) == DOMAIN new \ DOMAIN old

Changed(old, new) == {name \in DOMAIN old \cap DOMAIN new : old[name] # new[name]}

Diff(old, new) ==
    LET oldRoutes == RoutesByName(old.routes)
        newRoutes == RoutesByName(new.routes)
    IN [server |-> old.server # new.server,
        admin |-> old.admin # new.admin,
        upstreamsAdded |-> Added(old.upstreams, new.upstreams),
        upstreamsRemoved |-> Added(new.upstreams, old.upstreams),
        upstreamsChanged |-> Changed(old.upstreams, new.upstreams),
        routesAdded |-> Added(oldRoutes, newRoutes),
        routesRemoved |-> Added(newRoutes, oldRoutes),
        routesChanged |-> Changed(oldRoutes, newRoutes)]

\* Mutant: an upstream whose pool changed is overlooked.
RestartRequiredNames(diff) ==
    \/ diff.server \/ diff.admin
    \/ diff.upstreamsAdded # {} \/ diff.upstreamsRemoved # {}

RestartRequired(diff) ==
    \/ diff.server \/ diff.admin
    \/ diff.upstreamsAdded # {} \/ diff.upstreamsRemoved # {}
    \/ diff.upstreamsChanged # {}

IsEmpty(diff) ==
    /\ ~RestartRequired(diff)
    /\ diff.routesAdded = {} /\ diff.routesRemoved = {} /\ diff.routesChanged = {}

----------------------------------------------------------------------------
(* The running process *)

\* A BTreeMap is what it holds under its keys.
IsMap(f) == f = [key \in DOMAIN f |-> f[key]]

\* Mutant: the settings of the admin are not compared.
SameStructureLoose(old, new) ==
    old.server = new.server /\ old.upstreams = new.upstreams

\* What apply_route_config refuses to change.
SameStructure(old, new) ==
    /\ old.server = new.server
    /\ old.admin = new.admin
    /\ old.upstreams = new.upstreams

\* security::writes_enabled
WritesEnabled(config) == ~config.admin.read_only /\ config.admin.listen \in Loopback
=============================================================================
