------------------------------- MODULE Gateway -------------------------------
(***************************************************************************)
(* The data plane: Gateway (crates/lungyam-proxy/src/lib.rs) serving       *)
(* requests from the RuntimeStatus (crates/lungyam-core/src/runtime.rs)    *)
(* it shares with the control plane.                                       *)
(*                                                                         *)
(* A request pins the route snapshot it finds and keeps the place of its   *)
(* route in it across every await that follows, while other threads        *)
(* install new snapshots. The load balancers are built once, from the      *)
(* configuration the process started with. Requests share the round-robin  *)
(* cursor of a pool and take it one endpoint at a time; the health checker *)
(* reports a change first to the balancer and then to RuntimeStatus.       *)
(*                                                                         *)
(* Pingora calls the filters of one request in the order modelled. What it *)
(* does itself (selection, health checks, connecting) is external and      *)
(* modelled as far as this code depends on it.                             *)
(***************************************************************************)
EXTENDS Routing, Integers

CONSTANTS
    Requests,           \* connections, each serving one request after another
    Reloaders,          \* threads that call apply_route_config
    HealthPath,         \* "/health", which the gateway answers itself
    Queries,            \* what clients send: host, path, method, Content-Length
    InitialConfig,      \* the configuration the process starts with
    Candidates,         \* what apply_route_config is called with
    Addresses,          \* socket addresses of endpoints
    Resolve,            \* endpoint as configured -> the addresses it stands for
    HeaderValues,       \* route names that are valid header values
    MaxIterations,      \* the 256 of LoadBalancer::select
    MaxOutages          \* bound: endpoints going up or down

VARIABLES
    process,        \* "starting", "serving" or "panicked"
    snapshot,       \* RuntimeStatus.config: a RuntimeConfigSnapshot
    status,         \* RuntimeStatus.endpoint_health: <<upstream, endpoint>> -> healthy
    reload,         \* what each reloader is doing
    request,        \* the RequestContext of each request, and where it is
    cursor,         \* external: the round-robin position of each pool
    health,         \* external: the endpoints each pool holds healthy
    report,         \* external: the health change each pool has yet to report
    reachable,      \* external: the addresses that accept connections
    outages,        \* how much of its bound is used
    disturbed       \* auxiliary: the requests in flight during which another one
                    \* selected an endpoint or an endpoint or its health changed

runtime == <<snapshot, status>>
pools == <<cursor, health, report>>
network == <<reachable, outages>>
vars == <<process, runtime, reload, request, pools, network, disturbed>>

----------------------------------------------------------------------------
(* Configuration. *)

Snapshot(config) == [config |-> config, routes |-> SortRoutes(config.routes)]

\* Config::validate, as far as routes and pools go.
Valid(config) ==
    /\ DOMAIN config.upstreams # {}
    /\ \A u \in DOMAIN config.upstreams : config.upstreams[u] # <<>>
    /\ \A i, j \in DOMAIN config.routes :
           config.routes[i].name = config.routes[j].name => i = j
    /\ \A i \in DOMAIN config.routes : /\ IsPrefix(Root, config.routes[i].path)
                                      /\ config.routes[i].upstream \in DOMAIN config.upstreams

\* Mutant: only the listeners are compared.
SameStructureLoosely(config, other) == config.listeners = other.listeners

SameStructure(config, other) ==
    /\ config.listeners = other.listeners       \* server and admin
    /\ config.upstreams = other.upstreams

ASSUME ConfigAssumption ==
    /\ Valid(InitialConfig)
    /\ IsFiniteSet(Addresses) /\ IsFiniteSet(DOMAIN InitialConfig.upstreams)
    /\ \A u \in DOMAIN InitialConfig.upstreams :
           /\ InitialConfig.upstreams[u] \in Seq(DOMAIN Resolve)
           /\ \A e \in Range(InitialConfig.upstreams[u]) : Resolve[e] \subseteq Addresses
    /\ MaxIterations \in Nat \ {0}
    /\ MaxOutages \in Nat

\* A table is a sequence of routes; of a route only what its place depends on matters.
ASSUME TablesAssumption ==
    \A c \in Candidates \cup {InitialConfig} :
        /\ Len(c.routes) \in Nat /\ DOMAIN c.routes = 1..Len(c.routes)
        /\ \A i \in DOMAIN c.routes : /\ c.routes[i].priority \in Int
                                     /\ c.routes[i].path \in Seq(Characters)

\* What a balancer reports to its observer.
HealthReport == [address: Addresses, healthy: BOOLEAN]

\* None is a value of its own.
ASSUME NoneAssumption ==
    /\ None \notin Addresses
    /\ None \notin Queries
    /\ None \notin Candidates
    /\ None \notin {Snapshot(c) : c \in Candidates \cup {InitialConfig}}
    /\ None \notin HealthReport

Upstreams == DOMAIN InitialConfig.upstreams

\* The addresses a balancer holds: each once, in an order of their own.
Pool(u) == SetToSeq(UNION {Resolve[e] : e \in Range(InitialConfig.upstreams[u])})

\* Gateway.clusters: one balancer for each upstream of the starting configuration.
Clusters == [u \in Upstreams |-> Pool(u)]

----------------------------------------------------------------------------
Answers == {"none", "health", "notFound", "tooLarge", "rateLimited",
            "noEndpoint", "connectError", "served", "panic"}

PCs == {"idle", "filter", "policies", "select", "connect", "forward"}

\* new_ctx
Fresh(pc, q) ==
    [pc |-> pc, query |-> q, pinned |-> None, index |-> 0, failures |-> 0,
     seen |-> {}, steps |-> 0, peer |-> None, tried |-> {}, answer |-> "none"]

Init ==
    /\ process = "starting"
    /\ snapshot = Snapshot(InitialConfig)
    /\ status = [k \in UNION {{u} \X Range(InitialConfig.upstreams[u]) : u \in Upstreams} |-> TRUE]
    /\ reload = [t \in Reloaders |-> None]
    /\ request = [r \in Requests |-> Fresh("idle", None)]
    /\ cursor = [u \in Upstreams |-> 0]
    /\ health = [u \in Upstreams |-> Range(Clusters[u])]
    /\ report = [u \in Upstreams |-> None]
    /\ reachable \in SUBSET Addresses
    /\ outages = 0
    /\ disturbed = {}

\* build_upstream_clusters: an endpoint that does not resolve ends the process.
Start ==
    /\ process = "starting"
    /\ process' = IF \E u \in Upstreams :
                        \E e \in Range(InitialConfig.upstreams[u]) : Resolve[e] = {}
                  THEN "panicked" ELSE "serving"
    /\ UNCHANGED <<runtime, reload, request, pools, network, disturbed>>

----------------------------------------------------------------------------
(* apply_route_config. *)

\* The candidate is valid and differs from the snapshot read here in routes
\* only; the lock is not held yet.
CheckCandidate(t, c) ==
    /\ process = "serving"
    /\ reload[t] = None
    /\ Valid(c)
    /\ SameStructure(c, snapshot.config)
    /\ reload' = [reload EXCEPT ![t] = c]
    /\ UNCHANGED <<process, runtime, request, pools, network, disturbed>>

Install(t) ==
    /\ reload[t] # None
    /\ snapshot' = Snapshot(reload[t])
    /\ reload' = [reload EXCEPT ![t] = None]
    /\ UNCHANGED <<process, status, request, pools, network, disturbed>>

----------------------------------------------------------------------------
(* A request. *)

At(r, pc) == request[r].pc = pc

\* The request is over; Pingora drops its context.
Answer(r, answer) ==
    request' = [request EXCEPT ![r] = [Fresh("idle", None) EXCEPT !.answer = answer]]

\* Some requests are disturbed; those that are over no longer count.
Disturb(others) ==
    disturbed' = {r \in disturbed \cup others : request'[r].pc # "idle"}

\* Mutant: the route is looked up in the snapshot of the moment.
RouteNow(r) == snapshot.routes[request[r].index]

\* Gateway::route
RouteOf(r) == request[r].pinned.routes[request[r].index]

Arrive(r, q) ==
    /\ process = "serving"
    /\ At(r, "idle")
    /\ request' = [request EXCEPT ![r] = Fresh("filter", q)]
    /\ UNCHANGED <<process, runtime, reload, pools, network, disturbed>>

\* request_filter up to the pinning of a snapshot and the route's place in it.
Filter(r) ==
    /\ At(r, "filter")
    /\ LET q == request[r].query
           i == Position(snapshot.routes, q)
       IN \/ /\ q.path = HealthPath
             /\ Answer(r, "health")
          \/ /\ q.path # HealthPath /\ i = 0
             /\ Answer(r, "notFound")
          \/ /\ q.path # HealthPath /\ i # 0
             /\ request' = [request EXCEPT ![r].pc = "policies", ![r].pinned = snapshot,
                                           ![r].index = i]
    /\ Disturb({})
    /\ UNCHANGED <<process, runtime, reload, pools, network>>

TooLarge(r) ==
    /\ RouteOf(r).bodyLimit # None
    /\ request[r].query.length # None
    /\ request[r].query.length > RouteOf(r).bodyLimit

\* The rest of request_filter. Module RateLimiter says when allow_request refuses.
CheckPolicies(r) ==
    /\ At(r, "policies")
    /\ \/ TooLarge(r) /\ Answer(r, "tooLarge")
       \/ ~TooLarge(r) /\ RouteOf(r).limited /\ Answer(r, "rateLimited")
       \/ ~TooLarge(r) /\ request' = [request EXCEPT ![r].pc = "select"]
    /\ Disturb({})
    /\ UNCHANGED <<process, runtime, reload, pools, network>>
\* upstream_peer: one step of the balancer's round robin, which takes the cursor
\* and looks at an endpoint it has not seen yet. The two lookups by upstream
\* name come first and panic when they find nothing.
Select(r) ==
    /\ At(r, "select")
    /\ LET u == RouteOf(r).upstream
           k == request[r]
       IN IF u \notin DOMAIN k.pinned.config.upstreams \cap DOMAIN Clusters
          THEN /\ Answer(r, "panic")
               /\ UNCHANGED cursor
          ELSE LET a == Clusters[u][cursor[u] + 1]
               IN /\ cursor' = [cursor EXCEPT ![u] = (@ + 1) % Len(Clusters[u])]
                  /\ IF a \in health[u] \ k.seen
                     THEN request' = [request EXCEPT ![r].pc = "connect", ![r].peer = a,
                                                     ![r].seen = {}, ![r].steps = 0,
                                                     ![r].tried = @ \cup {a}]
                     ELSE IF k.steps + 1 < MaxIterations
                     THEN request' = [request EXCEPT ![r].seen = @ \cup {a}, ![r].steps = @ + 1]
                     ELSE Answer(r, "noEndpoint")
    /\ Disturb(Requests \ {r})
    /\ UNCHANGED <<process, runtime, reload, health, report, network>>

Connect(r) ==
    /\ At(r, "connect")
    /\ request[r].peer \in reachable
    /\ request' = [request EXCEPT ![r].pc = "forward"]
    /\ Disturb({})
    /\ UNCHANGED <<process, runtime, reload, pools, network>>

\* Mutant: the last endpoint is never tried.
CanRetryShort(r, failures) ==
    failures + 1 < Len(request[r].pinned.config.upstreams[RouteOf(r).upstream])

\* can_retry_connect
CanRetry(r, failures) ==
    /\ RouteOf(r).upstream \in DOMAIN request[r].pinned.config.upstreams
    /\ failures < Len(request[r].pinned.config.upstreams[RouteOf(r).upstream])

\* Mutant: failures are not counted.
FailuresUncounted(r) == request[r].failures

\* The failures of a request, counting this one.
Failures(r) == request[r].failures + 1

\* fail_to_connect, after which Pingora asks for a peer again or gives up.
FailToConnect(r) ==
    /\ At(r, "connect")
    /\ request[r].peer \notin reachable
    /\ LET failures == Failures(r)
       IN IF CanRetry(r, failures)
          THEN request' = [request EXCEPT ![r].pc = "select", ![r].failures = failures,
                                          ![r].peer = None]
          ELSE Answer(r, "connectError")
    /\ Disturb({})
    /\ UNCHANGED <<process, runtime, reload, pools, network>>

\* upstream_request_filter, which puts the route's name in a header, and
\* response_filter once the endpoint has answered.
Forward(r) ==
    /\ At(r, "forward")
    /\ Answer(r, IF RouteOf(r).name \in HeaderValues THEN "served" ELSE "panic")
    /\ Disturb({})
    /\ UNCHANGED <<process, runtime, reload, pools, network>>

----------------------------------------------------------------------------
(* Endpoints and health checks. *)

\* An endpoint goes down or comes up.
Outage(a) ==
    /\ outages < MaxOutages
    /\ outages' = outages + 1
    /\ reachable' = IF a \in reachable THEN reachable \ {a} ELSE reachable \cup {a}
    /\ UNCHANGED <<process, runtime, reload, request, pools>>
    /\ Disturb(Requests)

\* The checker of a pool finds that an endpoint's health has changed.
CheckHealth(u, a) ==
    /\ process = "serving"
    /\ report[u] = None
    /\ a \in Range(Clusters[u])
    /\ (a \in reachable) # (a \in health[u])
    /\ health' = [health EXCEPT ![u] = IF a \in reachable THEN @ \cup {a} ELSE @ \ {a}]
    /\ report' = [report EXCEPT ![u] = [address |-> a, healthy |-> a \in reachable]]
    /\ UNCHANGED <<process, runtime, reload, request, cursor, network>>
    /\ Disturb(Requests)

\* Mutant: the other entries are lost.
SetEndpointHealthOnly(u, e, healthy) == status' = [k \in {<<u, e>>} |-> healthy]

\* Mutant: an entry that is there already is kept.
SetEndpointHealthOnce(u, e, healthy) ==
    status' = [k \in DOMAIN status \cup {<<u, e>>} |->
                 IF k \in DOMAIN status THEN status[k] ELSE healthy]

SetEndpointHealth(u, e, healthy) ==
    status' = [k \in DOMAIN status \cup {<<u, e>>} |-> IF k = <<u, e>> THEN healthy ELSE status[k]]

\* RuntimeHealthObserver::observe, which names the endpoint by its address.
Observe(u) ==
    /\ report[u] # None
    /\ SetEndpointHealth(u, report[u].address, report[u].healthy)
    /\ report' = [report EXCEPT ![u] = None]
    /\ UNCHANGED <<process, snapshot, reload, request, cursor, health, network, disturbed>>

----------------------------------------------------------------------------
Step(r) ==
    \/ Filter(r) \/ CheckPolicies(r) \/ Select(r)
    \/ Connect(r) \/ FailToConnect(r) \/ Forward(r)

Next ==
    \/ Start
    \/ \E t \in Reloaders : (\E c \in Candidates : CheckCandidate(t, c)) \/ Install(t)
    \/ \E r \in Requests : (\E q \in Queries : Arrive(r, q)) \/ Step(r)
    \/ \E a \in Addresses : Outage(a)
    \/ \E u \in Upstreams : (\E a \in Addresses : CheckHealth(u, a)) \/ Observe(u)

Spec == Init /\ [][Next]_vars

\* A connection attempt ends, as the kernel or connect_timeout_ms ends it, and
\* the runtime schedules every request.
FairSpec == Spec /\ \A r \in Requests : WF_vars(Step(r))

----------------------------------------------------------------------------
(* Properties. *)

RequestContext ==
    [pc: PCs, query: Queries \cup {None}, pinned: {None} \cup {Snapshot(c) : c \in Candidates \cup {InitialConfig}},
     index: Nat, failures: Nat, seen: SUBSET Addresses, steps: 0..MaxIterations,
     peer: Addresses \cup {None}, tried: SUBSET Addresses, answer: Answers]

\* Every variable keeps its type: a request only ever pins the snapshot of a
\* configuration the gateway was started with or given, and a health report
\* never loses the entry of a configured endpoint.
TypeOK ==
    /\ process \in {"starting", "serving", "panicked"}
    /\ snapshot \in {Snapshot(c) : c \in Candidates \cup {InitialConfig}}
    /\ DOMAIN status \subseteq Upstreams \X (DOMAIN Resolve \cup Addresses)
    /\ \A u \in Upstreams, e \in DOMAIN Resolve :
           e \in Range(InitialConfig.upstreams[u]) => <<u, e>> \in DOMAIN status
    /\ \A k \in DOMAIN status : status[k] \in BOOLEAN
    /\ reload \in [Reloaders -> Candidates \cup {None}]
    /\ request \in [Requests -> RequestContext]
    /\ cursor \in [Upstreams -> Nat]
    /\ \A u \in Upstreams : cursor[u] \in 0..Len(Clusters[u])
    /\ health \in [Upstreams -> SUBSET Addresses]
    /\ \A u \in Upstreams : health[u] \subseteq Range(Clusters[u])
    /\ report \in [Upstreams -> HealthReport \cup {None}]
    /\ reachable \subseteq Addresses
    /\ outages \in 0..MaxOutages
    /\ disturbed \subseteq Requests

\* The place, among the declared routes, of the route the README promises: the
\* highest priority, then the longest path, then the first.
BestPlace(routes, q) ==
    CHOOSE i \in DOMAIN routes :
        /\ RouteMatches(routes[i], q)
        /\ \A j \in DOMAIN routes \ {i} :
               RouteMatches(routes[j], q) =>
                   \/ Before(routes[i], routes[j])
                   \/ ~Before(routes[j], routes[i]) /\ i < j

\* However often the routes are replaced while a request awaits, each of its
\* endpoints belongs to the upstream of the best route of the one configuration
\* it was matched against.
ServedByBestRoute ==
    \A r \in Requests :
        LET k == request[r] routes == k.pinned.config.routes
        IN k.peer # None =>
               k.peer \in Range(Clusters[routes[BestPlace(routes, k.query)].upstream])

\* No lookup of a pinned upstream name fails, although the balancers belong to
\* the starting configuration and the name to one installed since; and a request
\* may fail as many connections as that balancer was given endpoints, no more.
PoolAlwaysFound ==
    \A r \in Requests :
        LET k == request[r]
        IN /\ k.answer # "panic"
           /\ k.pc = "select" => LET u == RouteOf(r).upstream
                                IN /\ k.pinned.config.upstreams = InitialConfig.upstreams
                                   /\ u \in Upstreams
                                   /\ k.failures < Len(InitialConfig.upstreams[u])

\* In this step the request is answered so.
Answered(r, answers) ==
    /\ ~At(r, "idle")
    /\ request'[r].pc = "idle"
    /\ request'[r].answer \in answers

\* A request during which no other selected an endpoint and nothing went up or
\* down fails only if there is nothing to reach: every endpoint of its pool is
\* down or held unhealthy.
LoneRequestServed ==
    [][\A r \in Requests \ disturbed :
         Answered(r, {"noEndpoint", "connectError"}) =>
             health[RouteOf(r).upstream] \cap reachable = {}]_vars

\* The README of any request: the connection error is retryable while another
\* endpoint remains, one that is up, held healthy and not tried by the request.
RetriedWhileEndpointRemains ==
    [][\A r \in Requests :
         Answered(r, {"connectError"}) =>
             health[RouteOf(r).upstream] \cap reachable \subseteq request[r].tried]_vars

\* When no report is under way, RuntimeStatus holds an endpoint healthy exactly
\* when its balancer does.
StatusAgrees ==
    \A u \in Upstreams : \A e \in Range(InitialConfig.upstreams[u]) :
        process = "serving" /\ report[u] = None =>
            (status[<<u, e>>] <=> Resolve[e] \cap health[u] # {})

\* Every request is answered, whatever the endpoints and the other requests do.
EveryRequestAnswered == \A r \in Requests : ~At(r, "idle") ~> At(r, "idle")
=============================================================================
