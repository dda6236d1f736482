----------------------------- MODULE RateLimiter -----------------------------
(***************************************************************************)
(* The fixed-window rate limiter of the gateway: Gateway::allow_request    *)
(* (crates/lungyam-proxy/src/lib.rs) as request_filter calls it, on the    *)
(* snapshot of the routes that the request has pinned.                     *)
(*                                                                         *)
(* A request reads the clock before it takes the mutex, so requests may    *)
(* decide in another order than they read the clock, and with a reading    *)
(* that is old by then. The policies may be replaced at any time           *)
(* (RuntimeStatus::apply_route_config) and requests under the old ones are *)
(* still on their way; the counters outlive both, being kept by route name.*)
(***************************************************************************)
EXTENDS Naturals, Sequences

CONSTANTS
    Requests,       \* requests in flight
    Routes,         \* route names
    Limits,         \* the RateLimitConfigs in use
    None,           \* Option::None: a route without a limit
    MaxRequests,    \* the most requests any of the limits grants
    MinWindow,      \* the shortest window of any of them
    MaxClock        \* bound: how far the clock runs

\* Config::validate accepts no zero in a limit (config.rs:108).
ASSUME LimitAssumption ==
    /\ Limits \subseteq [requests: Nat \ {0}, window: Nat \ {0}]
    /\ \A l \in Limits : l.requests <= MaxRequests /\ MinWindow <= l.window
    /\ MaxRequests \in Nat
    /\ MinWindow \in Nat \ {0}
    /\ None \notin Limits \cup Routes
    /\ MaxClock \in Nat

VARIABLES
    clock,      \* the monotonic clock
    policies,   \* the limit of each route in the snapshot the runtime serves
    counters,   \* Gateway.rate_limits: a WindowCounter for each route met so far
    request,    \* what each request in flight is doing
    admitted    \* auxiliary: when each request let through was let through

vars == <<clock, policies, counters, request, admitted>>

WindowCounter == [started: Nat, count: 0..MaxRequests]

Request == [pc: {"idle", "clock", "decide"},
            route: Routes \cup {None},      \* the route that matched,
            limit: Limits \cup {None},      \* its limit in the pinned snapshot,
            now: Nat]                       \* and the clock as it was read

Idle == [pc |-> "idle", route |-> None, limit |-> None, now |-> 0]

----------------------------------------------------------------------------
Init ==
    /\ clock = 0
    /\ policies \in [Routes -> Limits \cup {None}]
    /\ counters = [r \in {} |-> [started |-> 0, count |-> 0]]
    /\ request = [q \in Requests |-> Idle]
    /\ admitted = [r \in Routes |-> <<>>]

\* Time passes.
Tick ==
    /\ clock < MaxClock
    /\ clock' = clock + 1
    /\ UNCHANGED <<policies, counters, request, admitted>>

\* Other route policies are installed for the requests to come.
ApplyPolicies ==
    /\ policies' \in [Routes -> Limits \cup {None}]
    /\ UNCHANGED <<clock, counters, request, admitted>>

\* A request has pinned a snapshot and matched a route of it that has a limit.
\* On a route without one allow_request returns true and touches nothing.
Match(q, r) ==
    /\ request[q].pc = "idle"
    /\ policies[r] # None
    /\ request' = [request EXCEPT ![q] =
                     [pc |-> "clock", route |-> r, limit |-> policies[r], now |-> 0]]
    /\ UNCHANGED <<clock, policies, counters, admitted>>

\* Instant::now, before the mutex is taken.
ReadClock(q) ==
    /\ request[q].pc = "clock"
    /\ request' = [request EXCEPT ![q].pc = "decide", ![q].now = clock]
    /\ UNCHANGED <<clock, policies, counters, admitted>>

\* Instant::duration_since is zero when the other instant is later.
DurationSince(now, started) == IF started <= now THEN now - started ELSE 0

\* The route's counter, or a new one.
Counter(r, now) ==
    IF r \in DOMAIN counters THEN counters[r] ELSE [started |-> now, count |-> 0]

\* Mutant: a new window starts with what the last one has used.
WindowAtKept(c, now, limit) ==
    IF DurationSince(now, c.started) >= limit.window THEN [c EXCEPT !.started = now] ELSE c

\* Mutant: the budget is given back and the window goes on from its old start.
WindowAtUnmoved(c, now, limit) ==
    IF DurationSince(now, c.started) >= limit.window THEN [c EXCEPT !.count = 0] ELSE c

\* The counter of the window that a request with this reading falls in.
WindowAt(c, now, limit) ==
    IF DurationSince(now, c.started) >= limit.window
    THEN [started |-> now, count |-> 0]
    ELSE c

Exhausted(c, limit) == c.count >= limit.requests

StoreCounter(r, c) ==
    counters' = [s \in DOMAIN counters \cup {r} |-> IF s = r THEN c ELSE counters[s]]

\* Under the mutex: admit the request, or refuse it (429).
Decide(q) ==
    /\ request[q].pc = "decide"
    /\ LET r == request[q].route
           c == WindowAt(Counter(r, request[q].now), request[q].now, request[q].limit)
       IN IF Exhausted(c, request[q].limit)
          THEN /\ StoreCounter(r, c)
               /\ UNCHANGED admitted
          ELSE /\ StoreCounter(r, [c EXCEPT !.count = @ + 1])
               /\ admitted' = [admitted EXCEPT ![r] = Append(@, clock)]
    /\ request' = [request EXCEPT ![q] = Idle]
    /\ UNCHANGED <<clock, policies>>

Next ==
    \/ Tick
    \/ ApplyPolicies
    \/ \E q \in Requests : (\E r \in Routes : Match(q, r)) \/ ReadClock(q) \/ Decide(q)

Spec == Init /\ [][Next]_vars

----------------------------------------------------------------------------
(* Properties. *)

\* Every variable keeps its type; in particular a counter never exceeds the
\* largest limit, whatever limits its route has had.
TypeOK ==
    /\ clock \in Nat
    /\ policies \in [Routes -> Limits \cup {None}]
    /\ DOMAIN counters \subseteq Routes
    /\ counters \in [DOMAIN counters -> WindowCounter]
    /\ request \in [Requests -> Request]
    /\ admitted \in [Routes -> Seq(Nat)]

\* No route ever admits more than its largest limit in each of the shortest
\* windows that have begun. Readings that are stale, requests under policies
\* already replaced and replacements themselves restart no window early: a
\* window starts at a reading, and at least a window after the last start.
AdmissionBound ==
    \A r \in Routes : Len(admitted[r]) <= MaxRequests * (1 + clock \div MinWindow)

\* The request is decided in this step, and refused.
Refuses(q) ==
    /\ request[q].pc = "decide"
    /\ request'[q].pc = "idle"
    /\ UNCHANGED admitted

\* A request is refused only when as many requests as its limit grants have
\* been admitted on the route less than a window before it read the clock: the
\* budget is never withheld after its window is over, and what an earlier
\* window used is never charged to this one.
RefusalJustified ==
    [][\A q \in Requests : Refuses(q) =>
         LET k == request[q]
             times == admitted[k.route]
             first == Len(times) - k.limit.requests + 1     \* of the last so many
         IN first >= 1 /\ k.now < times[first] + k.limit.window]_vars
=============================================================================
