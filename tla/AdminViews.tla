------------------------------ MODULE AdminViews ------------------------------
(***************************************************************************)
(* The pages of the admin that look at the running data plane: the         *)
(* dashboard (crates/lungyam-admin/src/lib.rs), which RuntimeStatus takes  *)
(* from behind two locks, one after the other, and the route simulator     *)
(* (route_simulator.rs), whose answer stays on the page while routes are   *)
(* replaced and requests go on.                                            *)
(***************************************************************************)
EXTENDS Gateway

CONSTANTS
    SimulationForms,    \* what the form of the simulator may hold
    Trimmed,            \* padded text -> the text without its padding
    Blank,              \* empty text
    Relative            \* texts that are paths but for the slash at the start

VARIABLES
    dashboard,  \* the dashboard: what it has read
    simulation  \* the answer of the simulator that is shown, or None

views == <<dashboard, simulation>>
allVars == <<vars, views>>

NoDashboard == [pc |-> "idle", summary |-> None, rows |-> {}]

ViewsInit ==
    /\ Init
    /\ dashboard = NoDashboard
    /\ simulation = None

ActiveConfigSummary(config) ==
    [routes |-> Len(config.routes),
     upstreams |-> Cardinality(DOMAIN config.upstreams),
     endpoints |-> Cardinality(UNION {{u} \X DOMAIN config.upstreams[u] : u \in DOMAIN config.upstreams})]

\* RuntimeStatus::snapshot takes the configuration, and then the health. The admin
\* is up before the data plane serves.
ReadConfig ==
    /\ process # "panicked"
    /\ dashboard.pc \in {"idle", "shown"}
    /\ dashboard' = [pc |-> "config", summary |-> ActiveConfigSummary(snapshot.config), rows |-> {}]
    /\ UNCHANGED <<vars, simulation>>

ReadHealth ==
    /\ process # "panicked"
    /\ dashboard.pc = "config"
    /\ dashboard' = [dashboard EXCEPT !.pc = "shown",
                                      !.rows = {<<key, status[key]>> : key \in DOMAIN status}]
    /\ UNCHANGED <<vars, simulation>>

----------------------------------------------------------------------------
Field(text) == IF text \in DOMAIN Trimmed THEN Trimmed[text] ELSE text

\* An empty host is a request without one.
SimulatedQuery(form) ==
    [host |-> IF Field(form.host) = Blank THEN None ELSE Field(form.host),
     path |-> Field(form.path), method |-> Field(form.method)]

ValidSimulation(q) == q.path \notin Relative \cup {Blank} /\ q.method # Blank

\* render_simulation, for the configuration that runs.
Simulate(form) ==
    /\ process # "panicked"
    /\ LET q == SimulatedQuery(form)
       IN simulation' = IF ValidSimulation(q)
                        THEN [query |-> q, config |-> snapshot.config,
                              route |-> FindMatchingRoute(snapshot.config.routes, q)]
                        ELSE None
    /\ UNCHANGED <<vars, dashboard>>

ViewsNext ==
    \/ Next /\ UNCHANGED views
    \/ ReadConfig
    \/ ReadHealth
    \/ \E form \in SimulationForms : Simulate(form)

ViewsSpec == ViewsInit /\ [][ViewsNext]_allVars

----------------------------------------------------------------------------
(* Properties. *)

\* A dashboard counts the pools and endpoints whose health it lists, although it
\* reads the routes and the health at two moments and routes are replaced in between.
\* This is so of endpoints configured by address and listed once: the address of a
\* host name gets an entry of its own, and an endpoint listed twice shares one.
DashboardFits ==
    dashboard.pc = "shown" =>
        LET keys == {row[1] : row \in dashboard.rows}
        IN /\ dashboard.summary.endpoints = Cardinality(dashboard.rows)
           /\ dashboard.summary.upstreams = Cardinality({key[1] : key \in keys})

\* The request that the simulator was asked about, as a client sends it.
Simulated(r) ==
    /\ simulation # None
    /\ LET q == request[r].query
       IN simulation.query = [host |-> q.host, path |-> q.path, method |-> q.method]

\* What the simulator said of a configuration is the route of every such request
\* that is served from it, whenever it came and whatever was installed since.
SimulationHolds ==
    \A r \in Requests :
        request[r].pinned # None /\ Simulated(r) /\ simulation.config = request[r].pinned.config =>
            simulation.route = RouteOf(r)
=============================================================================
