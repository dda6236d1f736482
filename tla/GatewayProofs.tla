---------------------------- MODULE GatewayProofs ----------------------------
(*************************************************************************)
(* For any requests, reloads, pools and outages: what a request has      *)
(* pinned stays fit to serve it. Everything installed was accepted, so   *)
(* it has the pools the balancers were built from; the place a request   *)
(* keeps is that of the first match in the table it pinned with it, so   *)
(* it is the best route of that configuration however many have been     *)
(* installed since. The status map follows the balancer, report by       *)
(* report; a request that nothing disturbs takes the turns of its pool   *)
(* one after the other, so it is refused only after a whole round of     *)
(* them. The pages of AdminViews read the same snapshots and the same    *)
(* map.                                                                  *)
(*************************************************************************)
EXTENDS AdminViews, RoutingProofs

Configurations == Candidates \cup {InitialConfig}

\* What the checks before an installation let through.
Accepted(c) == c \in Configurations /\ Valid(c) /\ SameStructure(c, InitialConfig)

\* A request that has been matched keeps a table and the place of its route in it;
\* connections it may still fail; and an endpoint of the pool of that route.
ContextInv(k) ==
    /\ k.pc # "idle" => k.answer = "none"
    /\ IF k.pc \in {"idle", "filter"}
       THEN k.pinned = None /\ k.peer = None /\ k.failures = 0
       ELSE
         /\ \E c \in Configurations : Accepted(c) /\ k.pinned = Snapshot(c)
         /\ k.index # 0 /\ k.index = Position(k.pinned.routes, k.query)
         /\ LET u == k.pinned.routes[k.index].upstream
            IN /\ k.failures < Len(InitialConfig.upstreams[u])
               /\ k.peer # None => k.peer \in Range(Clusters[u])
               /\ k.pc = "connect" => k.peer # None

\* Requests are served only by a process that has built its balancers, and none of
\* those is empty.
ServingInv ==
    /\ process # "serving" => \A r \in Requests : request[r].pc = "idle"
    /\ process = "starting" => \A u \in Upstreams : cursor[u] = 0
    /\ process = "serving" => \A u \in Upstreams : cursor[u] < Len(Clusters[u])

\* Only what was accepted is installed.
SnapshotInv ==
    /\ \E c \in Configurations : Accepted(c) /\ snapshot = Snapshot(c)
    /\ \A t \in Reloaders : reload[t] # None => Accepted(reload[t])

\* A report is about an endpoint of its pool, and tells how the balancer holds it.
ReportInv ==
    \A u \in Upstreams : report[u] # None =>
        /\ report[u].address \in Range(Clusters[u])
        /\ report[u].healthy <=> report[u].address \in health[u]

IInv ==
    /\ TypeOK
    /\ SnapshotInv
    /\ ServingInv
    /\ ReportInv
    /\ \A r \in Requests : ContextInv(request[r])

----------------------------------------------------------------------------
(* Pools and tables. *)

LEMMA RangeFinite ==
    ASSUME NEW S, NEW s \in Seq(S)
    PROVE  IsFiniteSet(Range(s))
<1>1. s \in [1..Len(s) -> Range(s)] /\ Len(s) \in Nat
  BY DEF Range
<1>2. s \in Surjection(1..Len(s), Range(s))
  BY <1>1 DEF Surjection, Range
<1>3. IsFiniteSet(1..Len(s))
  BY <1>1, FS_Interval
<1>. QED  BY <1>2, <1>3, FS_Surjection

\* SetToSeq lists a finite set.
LEMMA SetToSeqLists ==
    ASSUME NEW S, IsFiniteSet(S)
    PROVE  /\ SetToSeq(S) \in [1..Cardinality(S) -> S]
           /\ Cardinality(S) \in Nat
           /\ Len(SetToSeq(S)) = Cardinality(S)
           /\ Range(SetToSeq(S)) = S
<1>. DEFINE n == Cardinality(S)
            f == SetToSeq(S)
<1>1. n \in Nat /\ ExistsBijection(1..n, S)
  BY FS_CardinalityType
<1>2. PICK b : b \in Bijection(1..n, S)
  BY <1>1 DEF ExistsBijection
<1>3. b \in [1..n -> S] /\ IsInjective(b)
  BY <1>2 DEF Bijection, Injection, IsInjective
<1>4. f \in [1..n -> S] /\ IsInjective(f)
  BY <1>3 DEF SetToSeq
<1>5. f \in Injection(1..n, S)
  BY <1>4 DEF Injection
<1>6. IsFiniteSet(1..n) /\ Cardinality(1..n) = n
  BY <1>1, FS_Interval
<1>7. f \in Surjection(1..n, S)
  BY <1>5, <1>6, FS_Injection
<1>8. Len(f) = n
  <2>. HIDE DEF f
  <2>. QED  BY <1>1, <1>4
<1>9. Range(f) = S
  <2>. HIDE DEF f
  <2>. QED  BY <1>7 DEF Surjection, Range
<1>. QED  BY <1>1, <1>4, <1>8, <1>9

LEMMA Pools ==
    ASSUME NEW u \in Upstreams
    PROVE  /\ Len(Clusters[u]) \in Nat
           /\ Clusters[u] \in [1..Len(Clusters[u]) -> Range(Clusters[u])]
           /\ Range(Clusters[u]) = UNION {Resolve[e] : e \in Range(InitialConfig.upstreams[u])}
           /\ Range(Clusters[u]) \subseteq Addresses
           /\ Len(InitialConfig.upstreams[u]) \in Nat \ {0}
           /\ Range(InitialConfig.upstreams[u]) # {}
           /\ Range(InitialConfig.upstreams[u]) \subseteq DOMAIN Resolve
<1>. DEFINE ends == InitialConfig.upstreams[u]
            S == UNION {Resolve[e] : e \in Range(ends)}
<1>1. ends \in Seq(DOMAIN Resolve) /\ ends # <<>>
  BY ConfigAssumption DEF Valid, Upstreams
<1>2. Len(ends) \in Nat \ {0} /\ Range(ends) # {} /\ Range(ends) \subseteq DOMAIN Resolve
  <2>. HIDE DEF ends
  <2>. QED  BY <1>1 DEF Range
<1>3. S \subseteq Addresses
  BY ConfigAssumption DEF Upstreams
<1>4. IsFiniteSet(S)
  BY <1>3, ConfigAssumption, FS_Subset
<1>5. Clusters[u] = SetToSeq(S)
  BY DEF Clusters, Pool
<1>6. /\ SetToSeq(S) \in [1..Cardinality(S) -> S]
      /\ Cardinality(S) \in Nat /\ Len(SetToSeq(S)) = Cardinality(S)
      /\ Range(SetToSeq(S)) = S
  BY <1>4, SetToSeqLists
<1>. QED
  <2>. HIDE DEF S, ends
  <2>. QED  BY <1>2, <1>3, <1>5, <1>6 DEF S, ends

LEMMA ConfigurationsAreTables ==
    ASSUME NEW c \in Configurations
    PROVE  IsTable(c.routes, Len(c.routes))
  BY TablesAssumption, BytesInNat DEF IsTable, Configurations

\* The first match of the sorted table is the route the README promises.
LEMMA FirstIsBest ==
    ASSUME NEW c \in Configurations, NEW q, NEW k, k # 0, k = Position(SortRoutes(c.routes), q)
    PROVE  /\ k \in Nat
           /\ BestPlace(c.routes, q) \in DOMAIN c.routes
           /\ SortRoutes(c.routes)[k] = c.routes[BestPlace(c.routes, q)]
<1>. DEFINE routes == c.routes
            n == Len(routes)
            p == Place(routes, k)
            Best(i) == /\ RouteMatches(routes[i], q)
                       /\ \A j \in DOMAIN routes \ {i} :
                            RouteMatches(routes[j], q) =>
                              \/ Before(routes[i], routes[j])
                              \/ ~Before(routes[j], routes[i]) /\ i < j
<1>1. IsTable(routes, n) /\ DOMAIN routes = 1..n /\ n \in Nat
  BY ConfigurationsAreTables DEF IsTable
<1>2. /\ k \in 1..n /\ p \in 1..n
      /\ SortRoutes(routes)[k] = routes[p] /\ RouteMatches(routes[p], q)
      /\ \A j \in 1..n : j # p /\ RouteMatches(routes[j], q) => p \in Ahead(routes, j)
  <2>. HIDE DEF routes, n, p
  <2>. QED  BY <1>1, FirstIsAhead DEF routes, p
<1>. HIDE DEF routes, n, p
<1>3. Best(p)
  BY <1>1, <1>2 DEF Ahead
<1>4. ASSUME NEW i \in DOMAIN routes, Best(i) PROVE i = p
  <2>. SUFFICES ASSUME i # p PROVE FALSE
    OBVIOUS
  <2>1. p \in Ahead(routes, i)
    BY <1>1, <1>2, <1>4
  <2>2. i \in Ahead(routes, p)
    BY <1>1, <1>2, <1>4 DEF Ahead
  <2>3. i \in 1..n
    BY <1>1
  <2>. QED  BY <1>1, <1>2, <2>1, <2>2, <2>3, AheadTransitive, AheadIrreflexive
<1>5. BestPlace(routes, q) = CHOOSE i \in DOMAIN routes : Best(i)
  BY DEF BestPlace
<1>6. BestPlace(routes, q) = p
  <2>. HIDE DEF Best
  <2>. QED  BY <1>1, <1>2, <1>3, <1>4, <1>5
<1>. QED  BY <1>1, <1>2, <1>6 DEF routes

\* What a request that has been matched has pinned.
LEMMA PinnedIsFit ==
    ASSUME NEW k, ContextInv(k), k.pc \notin {"idle", "filter"}
    PROVE  \E c \in Configurations :
              /\ Accepted(c) /\ k.pinned = Snapshot(c)
              /\ k.pinned.config = c /\ k.pinned.routes = SortRoutes(c.routes)
              /\ BestPlace(c.routes, k.query) \in DOMAIN c.routes
              /\ k.pinned.routes[k.index] = c.routes[BestPlace(c.routes, k.query)]
              /\ c.upstreams = InitialConfig.upstreams
              /\ k.pinned.routes[k.index].upstream \in Upstreams
<1>1. PICK c \in Configurations : Accepted(c) /\ k.pinned = Snapshot(c)
  BY DEF ContextInv
<1>2. k.pinned.config = c /\ k.pinned.routes = SortRoutes(c.routes)
  BY <1>1 DEF Snapshot
<1>3. k.index # 0 /\ k.index = Position(k.pinned.routes, k.query)
  BY DEF ContextInv
<1>4. /\ BestPlace(c.routes, k.query) \in DOMAIN c.routes
      /\ k.pinned.routes[k.index] = c.routes[BestPlace(c.routes, k.query)]
  BY <1>2, <1>3, FirstIsBest
<1>5. c.upstreams = InitialConfig.upstreams
  BY <1>1 DEF Accepted, SameStructure
<1>6. k.pinned.routes[k.index].upstream \in Upstreams
  BY <1>1, <1>4, <1>5 DEF Accepted, Valid, Upstreams
<1>. QED  BY <1>1, <1>2, <1>4, <1>5, <1>6

----------------------------------------------------------------------------
(* What the steps of a request make of its context. *)

Idle(answer) == [Fresh("idle", None) EXCEPT !.answer = answer]

LEMMA IdleContext ==
    ASSUME NEW answer \in Answers
    PROVE  /\ Idle(answer) \in RequestContext /\ ContextInv(Idle(answer))
           /\ Idle(answer).answer = answer /\ Idle(answer).pc = "idle"
  BY ConfigAssumption DEF Idle, Fresh, RequestContext, ContextInv, PCs

\* The context after a step.
StepTo(r, k) ==
    /\ request' = [request EXCEPT ![r] = k]
    /\ k \in RequestContext
    /\ ContextInv(k)

LEMMA AnswerContext ==
    ASSUME NEW r \in Requests, NEW answer \in Answers, Answer(r, answer)
    PROVE  \E k : StepTo(r, k) /\ k.answer = answer
  BY IdleContext DEF Answer, StepTo, Idle

\* What is known of a request that a step is taken for.
LEMMA UnderWay ==
    ASSUME NEW r \in Requests, IInv, request[r].pc # "idle"
    PROVE  /\ request \in [Requests -> RequestContext] /\ request[r] \in RequestContext
           /\ ContextInv(request[r]) /\ request[r].answer = "none"
  BY DEF IInv, TypeOK, ContextInv

LEMMA FilterContext ==
    ASSUME IInv, NEW r \in Requests, Filter(r)
    PROVE  \E k : StepTo(r, k) /\ k.answer # "panic"
<1>. DEFINE q == request[r].query
            i == Position(snapshot.routes, q)
            k == [request[r] EXCEPT !.pc = "policies", !.pinned = snapshot, !.index = i]
<1>0. /\ request \in [Requests -> RequestContext] /\ request[r] \in RequestContext
      /\ request[r].pc = "filter" /\ ContextInv(request[r]) /\ request[r].answer = "none"
  BY UnderWay DEF Filter, At
<1>1. CASE Answer(r, "health") \/ Answer(r, "notFound")
  BY <1>1, AnswerContext DEF Answers
<1>2. CASE i # 0 /\ request' = [request EXCEPT ![r] = k]
  <2>1. PICK c \in Configurations : Accepted(c) /\ snapshot = Snapshot(c)
    BY DEF IInv, SnapshotInv
  <2>2. snapshot.config = c /\ snapshot.routes = SortRoutes(c.routes)
    BY <2>1 DEF Snapshot
  <2>3. i \in Nat /\ BestPlace(c.routes, q) \in DOMAIN c.routes
        /\ snapshot.routes[i] = c.routes[BestPlace(c.routes, q)]
    BY <1>2, <2>2, FirstIsBest
  <2>4. k \in RequestContext
    BY <1>0, <2>1, <2>3 DEF RequestContext, PCs, Configurations
  <2>5. /\ k.pc = "policies" /\ k.pinned = snapshot /\ k.index = i /\ k.query = q
        /\ k.failures = 0 /\ k.peer = None /\ k.answer = "none"
    BY <1>0 DEF RequestContext, ContextInv
  <2>6. snapshot.routes[i].upstream \in Upstreams
    BY <2>1, <2>3 DEF Accepted, Valid, SameStructure, Upstreams
  <2>7. 0 < Len(InitialConfig.upstreams[snapshot.routes[i].upstream])
    BY <2>6, Pools
  <2>8. ContextInv(k)
    <3>. HIDE DEF k, i, q
    <3>. QED  BY <1>2, <2>1, <2>5, <2>7 DEF ContextInv, i
  <2>. QED  BY <1>2, <2>4, <2>5, <2>8 DEF StepTo
<1>. QED  BY <1>1, <1>2 DEF Filter

\* A matched request whose context keeps what it has pinned.
LEMMA KeepsPinned ==
    ASSUME NEW k, NEW m, ContextInv(k), k.pc \notin {"idle", "filter"},
           m.pc \notin {"idle", "filter"}, m.answer = "none",
           m.pinned = k.pinned, m.index = k.index, m.query = k.query,
           LET u == k.pinned.routes[k.index].upstream
           IN /\ m.failures < Len(InitialConfig.upstreams[u])
              /\ m.peer # None => m.peer \in Range(Clusters[u])
              /\ m.pc = "connect" => m.peer # None
    PROVE  ContextInv(m)
  BY DEF ContextInv

LEMMA CheckPoliciesContext ==
    ASSUME IInv, NEW r \in Requests, CheckPolicies(r)
    PROVE  \E k : StepTo(r, k) /\ k.answer # "panic"
<1>. DEFINE k == [request[r] EXCEPT !.pc = "select"]
<1>0. /\ request \in [Requests -> RequestContext] /\ request[r] \in RequestContext
      /\ request[r].pc = "policies" /\ ContextInv(request[r]) /\ request[r].answer = "none"
  BY UnderWay DEF CheckPolicies, At
<1>1. CASE Answer(r, "tooLarge") \/ Answer(r, "rateLimited")
  BY <1>1, AnswerContext DEF Answers
<1>2. CASE request' = [request EXCEPT ![r] = k]
  <2>1. k \in RequestContext
    BY <1>0 DEF RequestContext, PCs
  <2>2. ContextInv(k) /\ k.answer = "none"
    BY <1>0 DEF ContextInv, RequestContext
  <2>. QED  BY <1>2, <2>1, <2>2 DEF StepTo
<1>. QED  BY <1>1, <1>2 DEF CheckPolicies

\* An endpoint found, one passed over, and a failed connection.
LEMMA ContextUpdates ==
    ASSUME NEW k \in RequestContext, NEW a \in Addresses
    PROVE  /\ [k EXCEPT !.pc = "connect", !.peer = a, !.seen = {}, !.steps = 0,
                        !.tried = @ \cup {a}] \in RequestContext
           /\ k.steps + 1 < MaxIterations =>
                [k EXCEPT !.seen = @ \cup {a}, !.steps = @ + 1] \in RequestContext
<1>1. /\ k.tried \cup {a} \in SUBSET Addresses /\ k.seen \cup {a} \in SUBSET Addresses
      /\ k.steps \in 0..MaxIterations /\ MaxIterations \in Nat \ {0}
  BY ConfigAssumption DEF RequestContext
<1>2. k.steps + 1 < MaxIterations => k.steps + 1 \in 0..MaxIterations
  BY <1>1
<1>3. 0 \in 0..MaxIterations
  BY <1>1
<1>4. [k EXCEPT !.pc = "connect", !.peer = a, !.seen = {}, !.steps = 0,
                !.tried = @ \cup {a}] \in RequestContext
  BY <1>1, <1>3 DEF RequestContext, PCs
<1>5. k.steps + 1 < MaxIterations =>
        [k EXCEPT !.seen = @ \cup {a}, !.steps = @ + 1] \in RequestContext
  BY <1>1, <1>2 DEF RequestContext
<1>. QED  BY <1>4, <1>5

\* The turn of an endpoint: it is one of the pool, and the cursor stays in it.
LEMMA TurnInPool ==
    ASSUME IInv, NEW u \in Upstreams, process = "serving"
    PROVE  /\ Clusters[u][cursor[u] + 1] \in Range(Clusters[u])
           /\ Clusters[u][cursor[u] + 1] \in Addresses
           /\ (cursor[u] + 1) % Len(Clusters[u]) \in 0..(Len(Clusters[u]) - 1)
           /\ Len(Clusters[u]) \in Nat
<1>1. cursor[u] \in Nat /\ cursor[u] < Len(Clusters[u]) /\ Len(Clusters[u]) \in Nat
  BY Pools DEF IInv, TypeOK, ServingInv
<1>2. cursor[u] + 1 \in 1..Len(Clusters[u])
  BY <1>1
<1>3. Clusters[u] \in [1..Len(Clusters[u]) -> Range(Clusters[u])]
      /\ Range(Clusters[u]) \subseteq Addresses
  BY Pools
<1>. QED  BY <1>1, <1>2, <1>3

LEMMA SelectContext ==
    ASSUME IInv, NEW r \in Requests, Select(r)
    PROVE  /\ \E k : StepTo(r, k) /\ k.answer # "panic"
           /\ RouteOf(r).upstream \in Upstreams
           /\ cursor' = [cursor EXCEPT ![RouteOf(r).upstream] =
                           (@ + 1) % Len(Clusters[RouteOf(r).upstream])]
<1>. DEFINE u == RouteOf(r).upstream
            k == request[r]
            a == Clusters[u][cursor[u] + 1]
            found == [k EXCEPT !.pc = "connect", !.peer = a, !.seen = {}, !.steps = 0,
                               !.tried = @ \cup {a}]
            next == [k EXCEPT !.seen = @ \cup {a}, !.steps = @ + 1]
<1>0. /\ request \in [Requests -> RequestContext] /\ k \in RequestContext
      /\ k.pc = "select" /\ ContextInv(k) /\ k.answer = "none"
  BY UnderWay DEF Select, At
<1>1. PICK c \in Configurations :
        /\ k.pinned.config = c /\ c.upstreams = InitialConfig.upstreams
        /\ k.pinned.routes[k.index].upstream \in Upstreams
  <2>. HIDE DEF k
  <2>. QED  BY <1>0, PinnedIsFit
<1>2. u \in Upstreams /\ u \in DOMAIN k.pinned.config.upstreams \cap DOMAIN Clusters
  BY <1>1 DEF RouteOf, Upstreams, Clusters
<1>3. process = "serving"
  BY <1>0 DEF IInv, ServingInv
<1>4. a \in Range(Clusters[u]) /\ a \in Addresses
  BY <1>2, <1>3, TurnInPool
<1>5. /\ cursor' = [cursor EXCEPT ![u] = (@ + 1) % Len(Clusters[u])]
      /\ \/ request' = [request EXCEPT ![r] = found]
         \/ k.steps + 1 < MaxIterations /\ request' = [request EXCEPT ![r] = next]
         \/ Answer(r, "noEndpoint")
  BY <1>2 DEF Select
<1>6. a # None
  BY <1>4, NoneAssumption
<1>7. /\ k.failures < Len(InitialConfig.upstreams[u])
      /\ k.peer # None => k.peer \in Range(Clusters[u])
  BY <1>0 DEF ContextInv, RouteOf
<1>8. ASSUME request' = [request EXCEPT ![r] = found]
      PROVE  \E m : StepTo(r, m) /\ m.answer # "panic"
  <2>1. found \in RequestContext
    BY <1>0, <1>4, ContextUpdates
  <2>2. /\ found.pc = "connect" /\ found.peer = a /\ found.answer = "none"
        /\ found.pinned = k.pinned /\ found.index = k.index /\ found.query = k.query
        /\ found.failures = k.failures
    BY <1>0 DEF RequestContext
  <2>3. ContextInv(found)
    <3>. HIDE DEF found, k, a
    <3>. QED  BY <1>0, <1>4, <1>6, <1>7, <2>2, KeepsPinned DEF RouteOf, k
  <2>. QED  BY <1>8, <2>1, <2>2, <2>3 DEF StepTo
<1>9. ASSUME k.steps + 1 < MaxIterations, request' = [request EXCEPT ![r] = next]
      PROVE  \E m : StepTo(r, m) /\ m.answer # "panic"
  <2>1. next \in RequestContext
    BY <1>0, <1>4, <1>9, ContextUpdates
  <2>2. /\ next.pc = "select" /\ next.peer = k.peer /\ next.answer = "none"
        /\ next.pinned = k.pinned /\ next.index = k.index /\ next.query = k.query
        /\ next.failures = k.failures
    BY <1>0 DEF RequestContext
  <2>3. ContextInv(next)
    <3>. HIDE DEF next, k, a
    <3>. QED  BY <1>0, <1>7, <2>2, KeepsPinned DEF RouteOf, k
  <2>. QED  BY <1>9, <2>1, <2>2, <2>3 DEF StepTo
<1>10. ASSUME Answer(r, "noEndpoint")
       PROVE  \E m : StepTo(r, m) /\ m.answer # "panic"
  BY <1>10, AnswerContext DEF Answers
<1>. QED  BY <1>2, <1>5, <1>8, <1>9, <1>10

LEMMA ConnectContext ==
    ASSUME IInv, NEW r \in Requests, Connect(r)
    PROVE  \E k : StepTo(r, k) /\ k.answer # "panic"
<1>. DEFINE k == [request[r] EXCEPT !.pc = "forward"]
<1>0. /\ request \in [Requests -> RequestContext] /\ request[r] \in RequestContext
      /\ request[r].pc = "connect" /\ ContextInv(request[r]) /\ request[r].answer = "none"
  BY UnderWay DEF Connect, At
<1>1. k \in RequestContext
  BY <1>0 DEF RequestContext, PCs
<1>2. ContextInv(k) /\ k.answer = "none"
  BY <1>0 DEF ContextInv, RequestContext
<1>. QED  BY <1>1, <1>2 DEF Connect, StepTo

LEMMA FailToConnectContext ==
    ASSUME IInv, NEW r \in Requests, FailToConnect(r)
    PROVE  \E k : StepTo(r, k) /\ k.answer # "panic"
<1>. DEFINE k == request[r]
            u == RouteOf(r).upstream
            retry == [k EXCEPT !.pc = "select", !.failures = Failures(r), !.peer = None]
<1>0. /\ request \in [Requests -> RequestContext] /\ k \in RequestContext
      /\ k.pc = "connect" /\ ContextInv(k) /\ k.answer = "none"
  BY UnderWay DEF FailToConnect, At
<1>1. \/ CanRetry(r, Failures(r)) /\ request' = [request EXCEPT ![r] = retry]
      \/ Answer(r, "connectError")
  BY DEF FailToConnect
<1>2. CASE CanRetry(r, Failures(r)) /\ request' = [request EXCEPT ![r] = retry]
  <2>1. PICK c \in Configurations :
          k.pinned.config = c /\ c.upstreams = InitialConfig.upstreams
    <3>. HIDE DEF k
    <3>. QED  BY <1>0, PinnedIsFit
  <2>2. Failures(r) < Len(InitialConfig.upstreams[u])
    BY <1>2, <2>1 DEF CanRetry
  <2>3. retry \in RequestContext
    <3>1. k.failures + 1 \in Nat
      BY <1>0 DEF RequestContext
    <3>. QED  BY <1>0, <3>1 DEF RequestContext, PCs, Failures
  <2>4. /\ retry.pc = "select" /\ retry.peer = None /\ retry.answer = "none"
        /\ retry.pinned = k.pinned /\ retry.index = k.index /\ retry.query = k.query
        /\ retry.failures = Failures(r)
    BY <1>0 DEF RequestContext
  <2>5. ContextInv(retry)
    <3>. HIDE DEF retry, k
    <3>. QED  BY <1>0, <2>2, <2>4, KeepsPinned DEF RouteOf, k
  <2>. QED  BY <1>2, <2>3, <2>4, <2>5 DEF StepTo
<1>3. CASE Answer(r, "connectError")
  BY <1>3, AnswerContext DEF Answers
<1>. QED  BY <1>1, <1>2, <1>3

\* What validation leaves open: it does not look at the characters of a name.
NamesAreHeaderValues ==
    \A c \in Configurations : \A i \in DOMAIN c.routes : c.routes[i].name \in HeaderValues

LEMMA ForwardContext ==
    ASSUME IInv, NEW r \in Requests, Forward(r)
    PROVE  \E k : StepTo(r, k) /\ (NamesAreHeaderValues => k.answer # "panic")
<1>1. CASE RouteOf(r).name \in HeaderValues
  BY <1>1, AnswerContext DEF Forward, Answers
<1>2. CASE RouteOf(r).name \notin HeaderValues
  <2>1. /\ request[r].pc = "forward" /\ ContextInv(request[r])
    BY UnderWay DEF Forward, At
  <2>2. PICK c \in Configurations :
          /\ BestPlace(c.routes, request[r].query) \in DOMAIN c.routes
          /\ RouteOf(r) = c.routes[BestPlace(c.routes, request[r].query)]
    BY <2>1, PinnedIsFit DEF RouteOf
  <2>3. ~NamesAreHeaderValues
    BY <1>2, <2>2 DEF NamesAreHeaderValues
  <2>. QED  BY <1>2, <2>3, AnswerContext DEF Forward, Answers
<1>. QED  BY <1>1, <1>2

----------------------------------------------------------------------------
(* The invariant. *)

LEMMA InitInv == Init => IInv
<1>. SUFFICES ASSUME Init PROVE IInv
  OBVIOUS
<1>. DEFINE keys == UNION {{u} \X Range(InitialConfig.upstreams[u]) : u \in Upstreams}
<1>1. \A r \in Requests : request[r] = Fresh("idle", None)
  BY DEF Init
<1>2. Fresh("idle", None) \in RequestContext /\ ContextInv(Fresh("idle", None))
      /\ Fresh("idle", None).pc = "idle"
  BY ConfigAssumption DEF Fresh, RequestContext, ContextInv, PCs, Answers
<1>3. \A r \in Requests : ContextInv(request[r]) /\ request[r].pc = "idle"
  BY <1>1, <1>2
<1>4. Accepted(InitialConfig) /\ snapshot = Snapshot(InitialConfig)
  BY ConfigAssumption DEF Init, Accepted, SameStructure, Configurations
<1>5. SnapshotInv
  BY <1>4 DEF SnapshotInv, Init, Configurations
<1>6. ServingInv
  BY <1>3 DEF ServingInv, Init
<1>7. ReportInv
  BY DEF ReportInv, Init
<1>8. TypeOK
  <2>1. process \in {"starting", "serving", "panicked"} /\ outages \in 0..MaxOutages
        /\ reachable \subseteq Addresses /\ disturbed \subseteq Requests
        /\ reload \in [Reloaders -> Candidates \cup {None}]
    BY ConfigAssumption DEF Init
  <2>2. snapshot \in {Snapshot(c) : c \in Candidates \cup {InitialConfig}}
    BY <1>4
  <2>3. /\ DOMAIN status = keys
        /\ \A k \in DOMAIN status : status[k] \in BOOLEAN
    BY DEF Init
  <2>4. DOMAIN status \subseteq Upstreams \X (DOMAIN Resolve \cup Addresses)
    BY <2>3, Pools
  <2>5. \A u \in Upstreams, e \in DOMAIN Resolve :
          e \in Range(InitialConfig.upstreams[u]) => <<u, e>> \in DOMAIN status
    BY <2>3
  <2>6. request \in [Requests -> RequestContext]
    BY <1>2 DEF Init
  <2>7. /\ cursor \in [Upstreams -> Nat] /\ report \in [Upstreams -> HealthReport \cup {None}]
        /\ \A u \in Upstreams : cursor[u] \in 0..Len(Clusters[u])
    BY Pools DEF Init
  <2>8. /\ health \in [Upstreams -> SUBSET Addresses]
        /\ \A u \in Upstreams : health[u] \subseteq Range(Clusters[u])
    BY Pools DEF Init
  <2>. QED  BY <2>1, <2>2, <2>3, <2>4, <2>5, <2>6, <2>7, <2>8 DEF TypeOK
<1>. QED  BY <1>3, <1>5, <1>6, <1>7, <1>8 DEF IInv

\* A step that changes at most the context of one request and the cursors.
LEMMA ContextStep ==
    ASSUME IInv, NEW r \in Requests, NEW k, StepTo(r, k), process = "serving",
           UNCHANGED <<process, runtime, reload, health, report, network>>,
           cursor' \in [Upstreams -> Nat],
           \A u \in Upstreams : cursor'[u] \in 0..(Len(Clusters[u]) - 1),
           disturbed' \subseteq Requests
    PROVE  IInv'
<1>1. request' \in [Requests -> RequestContext]
  BY DEF IInv, TypeOK, StepTo
<1>2. \A q \in Requests : ContextInv(request'[q])
  BY DEF IInv, TypeOK, StepTo
<1>3. \A u \in Upstreams : cursor'[u] \in 0..Len(Clusters[u]) /\ cursor'[u] < Len(Clusters[u])
  BY Pools
<1>4. ServingInv'
  BY <1>3 DEF ServingInv
<1>5. SnapshotInv' /\ ReportInv'
  BY DEF IInv, SnapshotInv, ReportInv, runtime
<1>6. TypeOK'
  BY <1>1, <1>3 DEF IInv, TypeOK, runtime, network
<1>. QED  BY <1>2, <1>4, <1>5, <1>6 DEF IInv

LEMMA CursorsStay ==
    ASSUME IInv, process = "serving", UNCHANGED cursor
    PROVE  /\ cursor' \in [Upstreams -> Nat]
           /\ \A u \in Upstreams : cursor'[u] \in 0..(Len(Clusters[u]) - 1)
<1>1. /\ cursor \in [Upstreams -> Nat]
      /\ \A u \in Upstreams : cursor[u] < Len(Clusters[u]) /\ Len(Clusters[u]) \in Nat
  BY Pools DEF IInv, TypeOK, ServingInv
<1>. QED  BY <1>1

LEMMA RequestStep ==
    ASSUME IInv, NEW r \in Requests, Step(r)
    PROVE  IInv'
<1>1. process = "serving"
  BY DEF IInv, ServingInv, Step, Filter, CheckPolicies, Select, Connect, FailToConnect, Forward, At
<1>2. disturbed' \subseteq Requests
  BY DEF IInv, TypeOK, Disturb, Step, Filter, CheckPolicies, Select, Connect, FailToConnect, Forward
<1>3. CASE Select(r)
  <2>. DEFINE u == RouteOf(r).upstream
  <2>1. PICK k : StepTo(r, k)
    BY <1>3, SelectContext
  <2>2. /\ u \in Upstreams
        /\ cursor' = [cursor EXCEPT ![u] = (@ + 1) % Len(Clusters[u])]
    BY <1>3, SelectContext
  <2>3. (cursor[u] + 1) % Len(Clusters[u]) \in 0..(Len(Clusters[u]) - 1) /\ Len(Clusters[u]) \in Nat
    BY <1>1, <2>2, TurnInPool
  <2>4. /\ cursor \in [Upstreams -> Nat]
        /\ \A v \in Upstreams : cursor[v] \in 0..(Len(Clusters[v]) - 1)
    <3>1. /\ cursor \in [Upstreams -> Nat]
          /\ \A v \in Upstreams : cursor[v] < Len(Clusters[v]) /\ Len(Clusters[v]) \in Nat
      BY <1>1, Pools DEF IInv, TypeOK, ServingInv
    <3>. QED  BY <3>1
  <2>5. /\ cursor' \in [Upstreams -> Nat]
        /\ \A v \in Upstreams : cursor'[v] \in 0..(Len(Clusters[v]) - 1)
    <3>. HIDE DEF u
    <3>. QED  BY <2>2, <2>3, <2>4
  <2>6. UNCHANGED <<process, runtime, reload, health, report, network>>
    BY <1>3 DEF Select
  <2>. QED  BY <1>1, <1>2, <2>1, <2>5, <2>6, ContextStep
<1>4. CASE Filter(r) \/ CheckPolicies(r) \/ Connect(r) \/ FailToConnect(r) \/ Forward(r)
  <2>1. PICK k : StepTo(r, k)
    BY <1>4, FilterContext, CheckPoliciesContext, ConnectContext, FailToConnectContext, ForwardContext
  <2>2. UNCHANGED <<process, runtime, reload, cursor, health, report, network>>
    BY <1>4 DEF Filter, CheckPolicies, Connect, FailToConnect, Forward, pools
  <2>. QED  BY <1>1, <1>2, <2>1, <2>2, CursorsStay, ContextStep
<1>. QED  BY <1>3, <1>4 DEF Step

LEMMA ArriveStep ==
    ASSUME IInv, NEW r \in Requests, NEW q \in Queries, Arrive(r, q)
    PROVE  IInv'
<1>1. StepTo(r, Fresh("filter", q))
  BY ConfigAssumption DEF Arrive, StepTo, Fresh, RequestContext, ContextInv, PCs, Answers
<1>2. /\ process = "serving" /\ UNCHANGED <<process, runtime, reload, cursor, health, report, network>>
      /\ disturbed' \subseteq Requests
  BY DEF Arrive, pools, IInv, TypeOK
<1>. QED  BY <1>1, <1>2, CursorsStay, ContextStep

LEMMA StartStep ==
    ASSUME IInv, Start
    PROVE  IInv'
<1>1. ServingInv'
  <2>1. \A r \in Requests : request'[r].pc = "idle"
    BY DEF IInv, ServingInv, Start
  <2>2. process' # "starting"
    BY DEF Start
  <2>3. ASSUME process' = "serving", NEW u \in Upstreams PROVE cursor'[u] < Len(Clusters[u])
    <3>1. PICK e : e \in Range(InitialConfig.upstreams[u])
      BY Pools
    <3>2. Resolve[e] # {}
      BY <2>3, <3>1 DEF Start
    <3>3. Range(Clusters[u]) # {}
      BY <3>1, <3>2, Pools
    <3>4. Len(Clusters[u]) \in Nat /\ Clusters[u] \in [1..Len(Clusters[u]) -> Range(Clusters[u])]
      BY Pools
    <3>5. Len(Clusters[u]) # 0
      <4>. DEFINE n == Len(Clusters[u])
      <4>1. SUFFICES ASSUME n = 0 PROVE FALSE
        OBVIOUS
      <4>2. DOMAIN Clusters[u] = 1..n /\ 1..n = {}
        BY <3>4, <4>1
      <4>. QED  BY <3>3, <4>2 DEF Range
    <3>6. cursor'[u] = 0
      BY DEF IInv, ServingInv, Start, pools
    <3>. QED  BY <3>4, <3>5, <3>6
  <2>. QED  BY <2>1, <2>2, <2>3 DEF ServingInv
<1>2. SnapshotInv' /\ ReportInv' /\ \A r \in Requests : ContextInv(request'[r])
  BY DEF IInv, SnapshotInv, ReportInv, Start, runtime, pools
<1>3. TypeOK'
  BY DEF IInv, TypeOK, Start, runtime, pools, network
<1>. QED  BY <1>1, <1>2, <1>3 DEF IInv

\* The candidate has the structure of a snapshot that was accepted, so it is too.
LEMMA CheckCandidateStep ==
    ASSUME IInv, NEW t \in Reloaders, NEW c \in Candidates, CheckCandidate(t, c)
    PROVE  IInv'
<1>1. PICK d \in Configurations : Accepted(d) /\ snapshot = Snapshot(d)
  BY DEF IInv, SnapshotInv
<1>2. Accepted(c)
  BY <1>1 DEF CheckCandidate, Accepted, Configurations, SameStructure, Snapshot
<1>3. SnapshotInv'
  BY <1>2 DEF IInv, TypeOK, SnapshotInv, CheckCandidate, runtime
<1>4. ServingInv' /\ ReportInv' /\ \A r \in Requests : ContextInv(request'[r])
  BY DEF IInv, ServingInv, ReportInv, CheckCandidate, pools
<1>5. TypeOK'
  BY DEF IInv, TypeOK, CheckCandidate, runtime, pools, network
<1>. QED  BY <1>3, <1>4, <1>5 DEF IInv

LEMMA InstallStep ==
    ASSUME IInv, NEW t \in Reloaders, Install(t)
    PROVE  IInv'
<1>1. Accepted(reload[t]) /\ reload[t] \in Configurations
  BY DEF IInv, SnapshotInv, Install, Accepted
<1>2. SnapshotInv'
  BY <1>1 DEF IInv, TypeOK, SnapshotInv, Install
<1>3. ServingInv' /\ ReportInv' /\ \A r \in Requests : ContextInv(request'[r])
  BY DEF IInv, ServingInv, ReportInv, Install, pools
<1>4. TypeOK'
  BY <1>1 DEF IInv, TypeOK, Install, pools, network, Configurations
<1>. QED  BY <1>2, <1>3, <1>4 DEF IInv

LEMMA OutageStep ==
    ASSUME IInv, NEW a \in Addresses, Outage(a)
    PROVE  IInv'
<1>1. SnapshotInv' /\ ServingInv' /\ ReportInv' /\ \A r \in Requests : ContextInv(request'[r])
  BY DEF IInv, SnapshotInv, ServingInv, ReportInv, Outage, runtime, pools
<1>2. outages' \in 0..MaxOutages
  BY ConfigAssumption DEF IInv, TypeOK, Outage
<1>3. TypeOK'
  BY <1>2 DEF IInv, TypeOK, Outage, Disturb, runtime, pools
<1>. QED  BY <1>1, <1>3 DEF IInv

LEMMA CheckHealthStep ==
    ASSUME IInv, NEW u \in Upstreams, NEW a \in Addresses, CheckHealth(u, a)
    PROVE  IInv'
<1>. DEFINE change == [address |-> a, healthy |-> a \in reachable]
            held == IF a \in reachable THEN health[u] \cup {a} ELSE health[u] \ {a}
<1>1. /\ health' = [health EXCEPT ![u] = held] /\ report' = [report EXCEPT ![u] = change]
      /\ a \in Range(Clusters[u])
  BY DEF CheckHealth
<1>2. /\ health \in [Upstreams -> SUBSET Addresses] /\ health[u] \subseteq Range(Clusters[u])
      /\ report \in [Upstreams -> HealthReport \cup {None}]
  BY DEF IInv, TypeOK
<1>3. /\ change \in HealthReport /\ change.address = a /\ (change.healthy <=> a \in held)
      /\ held \subseteq Range(Clusters[u]) /\ held \subseteq Addresses
  <2>1. (a \in reachable) \in BOOLEAN /\ a \in Addresses
    OBVIOUS
  <2>2. change \in HealthReport
    BY <2>1 DEF HealthReport
  <2>3. change.address = a /\ (change.healthy <=> a \in reachable)
    OBVIOUS
  <2>4. a \in held <=> a \in reachable
    OBVIOUS
  <2>5. held \subseteq Range(Clusters[u]) /\ held \subseteq Addresses
    BY <1>1, <1>2
  <2>. HIDE DEF change, held
  <2>. QED  BY <2>2, <2>3, <2>4, <2>5
<1>4. ReportInv'
  <2>. HIDE DEF change, held
  <2>. QED  BY <1>1, <1>2, <1>3 DEF IInv, ReportInv
<1>5. SnapshotInv' /\ ServingInv' /\ \A r \in Requests : ContextInv(request'[r])
  BY DEF IInv, SnapshotInv, ServingInv, CheckHealth, runtime
<1>6. /\ health' \in [Upstreams -> SUBSET Addresses]
      /\ \A v \in Upstreams : health'[v] \subseteq Range(Clusters[v])
      /\ report' \in [Upstreams -> HealthReport \cup {None}]
  <2>. HIDE DEF change, held
  <2>. QED  BY <1>1, <1>2, <1>3 DEF IInv, TypeOK
<1>7. TypeOK'
  BY <1>6 DEF IInv, TypeOK, CheckHealth, Disturb, runtime, network
<1>. QED  BY <1>4, <1>5, <1>7 DEF IInv

LEMMA ObserveStep ==
    ASSUME IInv, NEW u \in Upstreams, Observe(u)
    PROVE  IInv'
<1>. DEFINE key == <<u, report[u].address>>
<1>1. report[u] \in HealthReport
  BY DEF IInv, TypeOK, Observe
<1>2. report[u].address \in Addresses /\ report[u].healthy \in BOOLEAN
  BY <1>1 DEF HealthReport
<1>3. status' = [k \in DOMAIN status \cup {key} |-> IF k = key THEN report[u].healthy ELSE status[k]]
  BY DEF Observe, SetEndpointHealth
<1>4. /\ DOMAIN status' = DOMAIN status \cup {key}
      /\ \A k \in DOMAIN status' : status'[k] \in BOOLEAN
  <2>. HIDE DEF key
  <2>. QED  BY <1>2, <1>3 DEF IInv, TypeOK
<1>5. ReportInv'
  BY DEF IInv, TypeOK, ReportInv, Observe
<1>6. SnapshotInv' /\ ServingInv' /\ \A r \in Requests : ContextInv(request'[r])
  BY DEF IInv, SnapshotInv, ServingInv, Observe
<1>7. TypeOK'
  <2>1. key \in Upstreams \X (DOMAIN Resolve \cup Addresses)
    BY <1>2
  <2>2. report' \in [Upstreams -> HealthReport \cup {None}]
    BY DEF IInv, TypeOK, Observe
  <2>. HIDE DEF key
  <2>. QED  BY <1>4, <2>1, <2>2 DEF IInv, TypeOK, Observe, network
<1>. QED  BY <1>5, <1>6, <1>7 DEF IInv

LEMMA NextInv == IInv /\ [Next]_vars => IInv'
<1>1. ASSUME IInv, Start PROVE IInv'
  BY <1>1, StartStep
<1>2. ASSUME IInv, NEW t \in Reloaders, (\E c \in Candidates : CheckCandidate(t, c)) \/ Install(t)
      PROVE  IInv'
  BY <1>2, CheckCandidateStep, InstallStep
<1>3. ASSUME IInv, NEW r \in Requests, (\E q \in Queries : Arrive(r, q)) \/ Step(r) PROVE IInv'
  BY <1>3, ArriveStep, RequestStep
<1>4. ASSUME IInv, NEW a \in Addresses, Outage(a) PROVE IInv'
  BY <1>4, OutageStep
<1>5. ASSUME IInv, NEW u \in Upstreams, (\E a \in Addresses : CheckHealth(u, a)) \/ Observe(u)
      PROVE  IInv'
  BY <1>5, CheckHealthStep, ObserveStep
<1>6. ASSUME IInv, UNCHANGED vars PROVE IInv'
  BY <1>6 DEF IInv, TypeOK, SnapshotInv, ServingInv, ReportInv, vars, runtime, pools, network
<1>. QED  BY <1>1, <1>2, <1>3, <1>4, <1>5, <1>6 DEF Next

LEMMA Invariance == Spec => []IInv
BY InitInv, NextInv, PTL DEF Spec

\* Every variable of the gateway keeps its type (TypeOK).
THEOREM TypeCorrect == Spec => []TypeOK
<1>1. IInv => TypeOK
  BY DEF IInv
<1>. QED  BY <1>1, Invariance, PTL

\* However many configurations are installed while a request awaits, each of its
\* endpoints is one of the best route of the configuration it was matched against.
THEOREM ServedByBestRouteAlways == Spec => []ServedByBestRoute
<1>1. ASSUME IInv PROVE ServedByBestRoute
  <2>1. SUFFICES ASSUME NEW r \in Requests, request[r].peer # None
                 PROVE  LET k == request[r] routes == k.pinned.config.routes
                        IN k.peer \in Range(Clusters[routes[BestPlace(routes, k.query)].upstream])
    BY DEF ServedByBestRoute
  <2>2. ContextInv(request[r]) /\ request[r].pc \notin {"idle", "filter"}
    BY <1>1, <2>1 DEF IInv, ContextInv
  <2>3. PICK c \in Configurations :
          /\ request[r].pinned.config = c
          /\ request[r].pinned.routes[request[r].index] = c.routes[BestPlace(c.routes, request[r].query)]
    BY <2>2, PinnedIsFit
  <2>4. request[r].peer \in Range(Clusters[request[r].pinned.routes[request[r].index].upstream])
    BY <2>1, <2>2 DEF ContextInv
  <2>. QED  BY <2>3, <2>4
<1>. QED  BY <1>1, Invariance, PTL

----------------------------------------------------------------------------
(* No lookup of a pinned upstream fails. *)

NoPanic == \A r \in Requests : request[r].answer # "panic"

LEMMA NoPanicStep ==
    ASSUME NamesAreHeaderValues, IInv, NoPanic, [Next]_vars
    PROVE  NoPanic'
<1>1. ASSUME NEW r \in Requests, Step(r) PROVE NoPanic'
  <2>1. PICK k : StepTo(r, k) /\ k.answer # "panic"
    BY <1>1, FilterContext, CheckPoliciesContext, SelectContext, ConnectContext,
       FailToConnectContext, ForwardContext DEF Step
  <2>. QED  BY <2>1 DEF StepTo, NoPanic, IInv, TypeOK
<1>2. ASSUME NEW r \in Requests, NEW q \in Queries, Arrive(r, q) PROVE NoPanic'
  BY <1>2 DEF Arrive, Fresh, NoPanic, IInv, TypeOK
<1>3. ASSUME UNCHANGED request PROVE NoPanic'
  BY <1>3 DEF NoPanic
<1>4. ASSUME Next, ~ \E r \in Requests : Step(r) \/ \E q \in Queries : Arrive(r, q)
      PROVE  UNCHANGED request
  BY <1>4 DEF Next, Start, CheckCandidate, Install, Outage, CheckHealth, Observe
<1>5. UNCHANGED vars => UNCHANGED request
  BY DEF vars
<1>. QED  BY <1>1, <1>2, <1>3, <1>4, <1>5

\* Whatever is installed, the name a request has pinned is one of a balancer, and it
\* has a connection left to fail when it asks for an endpoint (PoolAlwaysFound).
THEOREM PoolsAreFound == ASSUME NamesAreHeaderValues PROVE Spec => []PoolAlwaysFound
<1>1. Init => NoPanic
  BY DEF Init, NoPanic, Fresh
<1>2. ASSUME IInv, NoPanic PROVE PoolAlwaysFound
  <2>1. SUFFICES ASSUME NEW r \in Requests, request[r].pc = "select"
                 PROVE  LET u == RouteOf(r).upstream
                        IN /\ request[r].pinned.config.upstreams = InitialConfig.upstreams
                           /\ u \in Upstreams
                           /\ request[r].failures < Len(InitialConfig.upstreams[u])
    BY <1>2 DEF NoPanic, PoolAlwaysFound
  <2>2. ContextInv(request[r])
    BY <1>2 DEF IInv
  <2>. QED  BY <2>1, <2>2, PinnedIsFit DEF ContextInv, RouteOf
<1>3. NamesAreHeaderValues /\ IInv /\ NoPanic /\ [Next]_vars => NoPanic'
  BY NoPanicStep
<1>4. NamesAreHeaderValues
  OBVIOUS
<1>. QED  BY <1>1, <1>2, <1>3, <1>4, Invariance, PTL DEF Spec

----------------------------------------------------------------------------
(* The status of an endpoint. *)

\* Endpoints are configured by their address. (The observer names an endpoint by its
\* address, so it never reports one that is configured by another name.)
EndpointsAreAddresses ==
    \A u \in Upstreams : \A e \in Range(InitialConfig.upstreams[u]) : Resolve[e] = {e}

\* The status of an endpoint is stale only until the report about it is observed.
StatusInv ==
    \A u \in Upstreams : \A e \in Range(InitialConfig.upstreams[u]) :
        report[u] = None \/ report[u].address # e => (status[<<u, e>>] <=> e \in health[u])

LEMMA AddressInPool ==
    ASSUME EndpointsAreAddresses, NEW u \in Upstreams
    PROVE  Range(Clusters[u]) = Range(InitialConfig.upstreams[u])
<1>. DEFINE E == Range(InitialConfig.upstreams[u])
<1>1. \A e \in E : Resolve[e] = {e}
  BY DEF EndpointsAreAddresses
<1>2. Range(Clusters[u]) = UNION {Resolve[e] : e \in E}
  BY Pools
<1>. HIDE DEF E
<1>3. UNION {Resolve[e] : e \in E} = E
  BY <1>1
<1>. QED  BY <1>2, <1>3 DEF E

LEMMA StatusInit ==
    ASSUME EndpointsAreAddresses, Init
    PROVE  StatusInv
<1>1. SUFFICES ASSUME NEW u \in Upstreams, NEW e \in Range(InitialConfig.upstreams[u])
               PROVE  status[<<u, e>>] = TRUE /\ e \in health[u]
  BY DEF StatusInv
<1>2. <<u, e>> \in UNION {{v} \X Range(InitialConfig.upstreams[v]) : v \in Upstreams}
  OBVIOUS
<1>3. e \in Range(Clusters[u])
  BY AddressInPool
<1>. QED  BY <1>2, <1>3 DEF Init

LEMMA StatusStep ==
    ASSUME EndpointsAreAddresses, IInv, StatusInv, [Next]_vars
    PROVE  StatusInv'
<1>1. ASSUME NEW u \in Upstreams, NEW a \in Addresses, CheckHealth(u, a) PROVE StatusInv'
  <2>1. SUFFICES ASSUME NEW v \in Upstreams, NEW e \in Range(InitialConfig.upstreams[v]),
                        report'[v] = None \/ report'[v].address # e
                 PROVE  status'[<<v, e>>] <=> e \in health'[v]
    BY DEF StatusInv
  <2>2. UNCHANGED status /\ health \in [Upstreams -> SUBSET Addresses]
        /\ report \in [Upstreams -> HealthReport \cup {None}] /\ report[u] = None
    BY <1>1 DEF CheckHealth, runtime, IInv, TypeOK
  <2>3. CASE v # u
    BY <1>1, <2>1, <2>2, <2>3 DEF CheckHealth, StatusInv
  <2>4. CASE v = u
    <3>1. report'[u] = [address |-> a, healthy |-> a \in reachable]
      BY <1>1, <2>2 DEF CheckHealth
    <3>2. (a \in reachable) \in BOOLEAN
      OBVIOUS
    <3>3. report'[u] \in HealthReport /\ report'[u].address = a
      BY <3>1, <3>2 DEF HealthReport
    <3>4. e # a
      BY <2>1, <2>4, <3>3, NoneAssumption
    <3>5. e \in health'[u] <=> e \in health[u]
      BY <1>1, <2>2, <3>4 DEF CheckHealth
    <3>. QED  BY <2>2, <2>4, <3>5 DEF StatusInv
  <2>. QED  BY <2>3, <2>4
<1>2. ASSUME NEW u \in Upstreams, Observe(u) PROVE StatusInv'
  <2>1. SUFFICES ASSUME NEW v \in Upstreams, NEW e \in Range(InitialConfig.upstreams[v]),
                        report'[v] = None \/ report'[v].address # e
                 PROVE  status'[<<v, e>>] <=> e \in health'[v]
    BY DEF StatusInv
  <2>2. UNCHANGED health /\ report \in [Upstreams -> HealthReport \cup {None}]
        /\ report[u] # None
    BY <1>2 DEF Observe, IInv, TypeOK
  <2>3. <<v, e>> \in DOMAIN status
    BY Pools DEF IInv, TypeOK
  <2>4. CASE <<v, e>> = <<u, report[u].address>>
    BY <1>2, <2>2, <2>3, <2>4 DEF Observe, SetEndpointHealth, IInv, ReportInv
  <2>5. CASE <<v, e>> # <<u, report[u].address>>
    <3>1. status'[<<v, e>>] = status[<<v, e>>]
      BY <1>2, <2>3, <2>5 DEF Observe, SetEndpointHealth
    <3>2. v # u => report'[v] = report[v]
      BY <1>2, <2>2 DEF Observe
    <3>3. report[v] = None \/ report[v].address # e
      BY <2>1, <2>5, <3>2
    <3>. QED  BY <2>2, <3>1, <3>3 DEF StatusInv
  <2>. QED  BY <2>4, <2>5
<1>3. ASSUME UNCHANGED <<status, health, report>> PROVE StatusInv'
  BY <1>3 DEF StatusInv
<1>4. ASSUME Next, ~ \E u \in Upstreams : Observe(u) \/ \E a \in Addresses : CheckHealth(u, a)
      PROVE  UNCHANGED <<status, health, report>>
  BY <1>4 DEF Next, Start, CheckCandidate, Install, Outage, Arrive, Step, Filter, CheckPolicies,
              Select, Connect, FailToConnect, Forward, runtime, pools
<1>5. UNCHANGED vars => UNCHANGED <<status, health, report>>
  BY DEF vars, runtime, pools
<1>. QED  BY <1>1, <1>2, <1>3, <1>4, <1>5

LEMMA StatusInvariance == ASSUME EndpointsAreAddresses PROVE Spec => []StatusInv
<1>1. EndpointsAreAddresses
  OBVIOUS
<1>2. EndpointsAreAddresses /\ Init => StatusInv
  BY StatusInit
<1>3. EndpointsAreAddresses /\ IInv /\ StatusInv /\ [Next]_vars => StatusInv'
  BY StatusStep
<1>. QED  BY <1>1, <1>2, <1>3, Invariance, PTL DEF Spec

\* Whatever goes up and down, RuntimeStatus and the balancer agree about an endpoint
\* that no report is under way about (StatusAgrees).
THEOREM StatusAgreesAlways == ASSUME EndpointsAreAddresses PROVE Spec => []StatusAgrees
<1>1. ASSUME StatusInv PROVE StatusAgrees
  <2>1. SUFFICES ASSUME NEW u \in Upstreams, NEW e \in Range(InitialConfig.upstreams[u]),
                        report[u] = None
                 PROVE  status[<<u, e>>] <=> Resolve[e] \cap health[u] # {}
    BY DEF StatusAgrees
  <2>2. Resolve[e] = {e}
    BY DEF EndpointsAreAddresses
  <2>3. Resolve[e] \cap health[u] # {} <=> e \in health[u]
    BY <2>2
  <2>. QED  BY <1>1, <2>1, <2>3 DEF StatusInv
<1>. QED  BY <1>1, StatusInvariance, PTL

----------------------------------------------------------------------------
(* A request that nothing disturbs has its pool to itself. *)

\* The selection may look at every endpoint of a pool: the code allows it 256.
PoolsFitIterations == \A u \in Upstreams : Len(Clusters[u]) <= MaxIterations

\* How many turns ago place i of the pool, counted from 0, had its turn.
Distance(u, i) == IF i < cursor[u] THEN cursor[u] - i ELSE cursor[u] + Len(Clusters[u]) - i

\* Of the last w turns none was of an endpoint that could serve, but for those of peer.
Passed(u, w, peer) ==
    \A i \in 0..(Len(Clusters[u]) - 1) :
        Distance(u, i) <= w /\ Clusters[u][i + 1] # peer =>
            Clusters[u][i + 1] \notin health[u] \cap reachable

\* Each failure and each endpoint passed over has taken a turn, so the turns since the
\* request first asked are at least so many.
LoneContext(k) ==
    LET u == k.pinned.routes[k.index].upstream
    IN /\ k.pc \in {"filter", "policies", "connect"} => k.seen = {} /\ k.steps = 0
       /\ k.pc \in {"filter", "policies"} => k.failures = 0
       /\ k.pc = "select" =>
            /\ k.seen \cap health[u] = {}
            /\ \E w \in Nat : w >= k.failures + k.steps /\ Passed(u, w, None)
       /\ k.pc = "connect" => \E w \in Nat : w >= k.failures + 1 /\ Passed(u, w, k.peer)

LoneInv == \A r \in Requests \ disturbed : LoneContext(request[r])

\* A pool has no more endpoints than are configured.
LEMMA PoolNoLonger ==
    ASSUME EndpointsAreAddresses, NEW u \in Upstreams
    PROVE  Len(Clusters[u]) <= Len(InitialConfig.upstreams[u])
<1>. DEFINE ends == InitialConfig.upstreams[u]
            S == UNION {Resolve[e] : e \in Range(ends)}
<1>1. ends \in Seq(DOMAIN Resolve)
  BY ConfigAssumption DEF Upstreams
<1>2. S = Range(ends)
  <2>1. \A e \in Range(ends) : Resolve[e] = {e}
    BY DEF EndpointsAreAddresses
  <2>. HIDE DEF ends
  <2>. QED  BY <2>1
<1>. HIDE DEF ends
<1>3. ends \in Surjection(1..Len(ends), Range(ends)) /\ Len(ends) \in Nat
  BY <1>1 DEF Surjection, Range
<1>4. IsFiniteSet(1..Len(ends)) /\ Cardinality(1..Len(ends)) = Len(ends)
  BY <1>3, FS_Interval
<1>5. IsFiniteSet(Range(ends)) /\ Cardinality(Range(ends)) <= Len(ends)
  BY <1>3, <1>4, FS_Surjection
<1>6. Clusters[u] = SetToSeq(S)
  BY DEF Clusters, Pool, ends
<1>. HIDE DEF S
<1>7. Len(Clusters[u]) = Cardinality(Range(ends))
  BY <1>2, <1>5, <1>6, SetToSeqLists
<1>. QED  BY <1>5, <1>7 DEF ends

\* After a whole round, or enough turns for one, nothing in the pool can serve.
LEMMA WholeRound ==
    ASSUME IInv, process = "serving", NEW u \in Upstreams, NEW w \in Nat, NEW peer,
           Passed(u, w, peer), peer \notin health[u] \cap reachable,
           Len(Clusters[u]) <= w
    PROVE  health[u] \cap reachable = {}
<1>. DEFINE n == Len(Clusters[u])
<1>1. /\ cursor[u] \in Nat /\ cursor[u] < n /\ n \in Nat
      /\ health[u] \subseteq Range(Clusters[u])
      /\ Clusters[u] \in [1..n -> Range(Clusters[u])]
  BY Pools DEF IInv, TypeOK, ServingInv
<1>2. SUFFICES ASSUME NEW a \in health[u] \cap reachable PROVE FALSE
  OBVIOUS
<1>3. PICK j \in 1..n : Clusters[u][j] = a
  BY <1>1 DEF Range
<1>4. j - 1 \in 0..(n - 1) /\ (j - 1) + 1 = j
  BY <1>1
<1>5. Distance(u, j - 1) <= w
  BY <1>1, <1>4 DEF Distance
<1>. QED  BY <1>3, <1>4, <1>5 DEF Passed

LEMMA Remainder ==
    ASSUME NEW n \in Nat, NEW x \in Nat, x < n
    PROVE  x % n = x /\ n % n = 0
  BY SMTT(30)

\* A turn moves every other place one further back.
LEMMA TurnsBack ==
    ASSUME NEW n \in Nat, NEW c \in Nat, c < n, NEW i \in 0..(n - 1), i # c, NEW w \in Nat,
           NEW next, next = IF c + 1 = n THEN 0 ELSE c + 1,
           (IF i < next THEN next - i ELSE next + n - i) <= w + 1
    PROVE  (IF i < c THEN c - i ELSE c + n - i) <= w
  OBVIOUS

LEMMA TurnTaken ==
    ASSUME IInv, process = "serving", NEW u \in Upstreams, NEW w \in Nat,
           NEW CONSTANT a, a = Clusters[u][cursor[u] + 1],
           Passed(u, w, None),
           cursor'[u] = (cursor[u] + 1) % Len(Clusters[u]),
           UNCHANGED <<health, reachable>>
    PROVE  Passed(u, w + 1, a)'
<1>. DEFINE n == Len(Clusters[u])
            c == cursor[u]
<1>1. c \in Nat /\ c < n /\ n \in Nat /\ Clusters[u] \in [1..n -> Range(Clusters[u])]
      /\ Range(Clusters[u]) \subseteq Addresses
  BY Pools DEF IInv, TypeOK, ServingInv
<1>2. cursor'[u] = IF c + 1 = n THEN 0 ELSE c + 1
  <2>. HIDE DEF n, c
  <2>1. cursor'[u] = (c + 1) % n
    BY DEF n, c
  <2>2. CASE c + 1 = n
    BY <1>1, <2>1, <2>2, Remainder
  <2>3. CASE c + 1 # n
    <3>1. c + 1 \in Nat /\ c + 1 < n
      BY <1>1, <2>3
    <3>. QED  BY <1>1, <2>1, <2>3, <3>1, Remainder
  <2>. QED  BY <2>2, <2>3
<1>3. SUFFICES ASSUME NEW i \in 0..(n - 1),
                      (IF i < cursor'[u] THEN cursor'[u] - i ELSE cursor'[u] + n - i) <= w + 1,
                      Clusters[u][i + 1] # a
               PROVE  Clusters[u][i + 1] \notin health[u] \cap reachable
  BY DEF Passed, Distance
<1>4. i # c
  BY <1>3
<1>5. Distance(u, i) <= w
  <2>. HIDE DEF n, c
  <2>1. (IF i < c THEN c - i ELSE c + n - i) <= w
    BY <1>1, <1>2, <1>3, <1>4, TurnsBack
  <2>. QED  BY <2>1 DEF Distance, n, c
<1>6. Clusters[u][i + 1] # None
  BY <1>1, NoneAssumption
<1>. QED  BY <1>5, <1>6 DEF Passed

\* An undisturbed request that a step of others leaves as it is.
LEMMA LoneByOthers ==
    ASSUME LoneInv, NEW r \in Requests, r \notin disturbed, request'[r] = request[r],
           UNCHANGED <<cursor, health, reachable>>
    PROVE  LoneContext(request[r])'
<1>1. LoneContext(request[r])
  BY DEF LoneInv
<1>. QED  BY <1>1 DEF LoneContext, Passed, Distance

LEMMA LoneWhenIdle ==
    ASSUME NEW r \in Requests, request'[r].pc \in {"idle", "forward"}
    PROVE  LoneContext(request[r])'
  BY DEF LoneContext


\* The steps of the request itself.
LEMMA LoneBefore ==
    ASSUME IInv, LoneInv, NEW r \in Requests \ disturbed',
           (\E q \in Queries : Arrive(r, q)) \/ Filter(r) \/ CheckPolicies(r)
    PROVE  LoneContext(request[r])'
<1>1. request \in [Requests -> RequestContext]
  BY DEF IInv, TypeOK
<1>2. ASSUME NEW q \in Queries, Arrive(r, q) PROVE LoneContext(request[r])'
  <2>1. request'[r] = Fresh("filter", q)
    BY <1>1, <1>2 DEF Arrive
  <2>. QED  BY <2>1 DEF LoneContext, Fresh
<1>3. ASSUME Filter(r), request'[r].pc # "idle" PROVE LoneContext(request[r])'
  <2>1. /\ request[r].pc = "filter"
        /\ request'[r].pc = "policies" /\ request'[r].seen = request[r].seen
        /\ request'[r].steps = request[r].steps /\ request'[r].failures = request[r].failures
    <3>1. request[r] \in RequestContext /\ request[r].pc = "filter"
      BY <1>1, <1>3 DEF Filter, At
    <3>2. ~\E answer : Answer(r, answer)
      BY <1>1, <1>3 DEF Answer, Fresh
    <3>3. request' = [request EXCEPT ![r].pc = "policies", ![r].pinned = snapshot,
                              ![r].index = Position(snapshot.routes, request[r].query)]
      BY <1>3, <3>2 DEF Filter
    <3>. QED  BY <1>1, <3>1, <3>3 DEF RequestContext
  <2>2. r \notin disturbed
    BY <1>3 DEF Filter, Disturb
  <2>. QED  BY <2>1, <2>2 DEF LoneInv, LoneContext
<1>4. ASSUME CheckPolicies(r), request'[r].pc # "idle" PROVE LoneContext(request[r])'
  <2>1. /\ request[r].pc = "policies"
        /\ request'[r].pc = "select" /\ request'[r].seen = request[r].seen
        /\ request'[r].steps = request[r].steps /\ request'[r].failures = request[r].failures
        /\ request'[r].pinned = request[r].pinned /\ request'[r].index = request[r].index
    <3>1. request[r] \in RequestContext /\ request[r].pc = "policies"
      BY <1>1, <1>4 DEF CheckPolicies, At
    <3>2. ~\E answer : Answer(r, answer)
      BY <1>1, <1>4 DEF Answer, Fresh
    <3>3. request' = [request EXCEPT ![r].pc = "select"]
      BY <1>4, <3>2 DEF CheckPolicies
    <3>. QED  BY <1>1, <3>1, <3>3 DEF RequestContext
  <2>2. r \notin disturbed
    BY <1>4 DEF CheckPolicies, Disturb
  <2>3. request[r].seen = {} /\ request[r].steps = 0 /\ request[r].failures = 0
    BY <2>1, <2>2 DEF LoneInv, LoneContext
  <2>4. PICK u \in Upstreams : u = RouteOf(r).upstream
    BY <2>1, UnderWay, PinnedIsFit DEF RouteOf
  <2>5. process = "serving"
    BY <2>1 DEF IInv, ServingInv
  <2>6. cursor' = cursor /\ cursor[u] \in Nat /\ cursor[u] < Len(Clusters[u]) /\ Len(Clusters[u]) \in Nat
    BY <1>4, <2>5, Pools DEF CheckPolicies, pools, IInv, TypeOK, ServingInv
  <2>7. Passed(u, 0, None)'
    <3>1. \A i \in 0..(Len(Clusters[u]) - 1) :
            ~ (IF i < cursor'[u] THEN cursor'[u] - i ELSE cursor'[u] + Len(Clusters[u]) - i) <= 0
      BY <2>6
    <3>. QED  BY <3>1 DEF Passed, Distance
  <2>8. u = request'[r].pinned.routes[request'[r].index].upstream
    BY <2>1, <2>4 DEF RouteOf
  <2>. QED  BY <2>1, <2>3, <2>7, <2>8 DEF LoneContext
<1>. QED  BY <1>2, <1>3, <1>4, LoneWhenIdle

\* What is known of an undisturbed request that asks for an endpoint.
LEMMA LoneTurn ==
    ASSUME IInv, LoneInv, NEW r \in Requests \ disturbed, Select(r)
    PROVE  \E u \in Upstreams, a \in Addresses, w \in Nat :
             /\ u = RouteOf(r).upstream /\ a = Clusters[u][cursor[u] + 1]
             /\ w >= request[r].failures + request[r].steps
             /\ Passed(u, w, None) /\ Passed(u, w + 1, a)'
             /\ request[r].seen \cap health[u] = {}
             /\ UNCHANGED <<health, reachable>>
             /\ \/ request' = [request EXCEPT ![r].pc = "connect", ![r].peer = a,
                                              ![r].seen = {}, ![r].steps = 0,
                                              ![r].tried = @ \cup {a}]
                \/ /\ a \notin health[u]
                   /\ request' = [request EXCEPT ![r].seen = @ \cup {a}, ![r].steps = @ + 1]
                \/ /\ a \notin health[u] /\ ~ request[r].steps + 1 < MaxIterations
                   /\ Answer(r, "noEndpoint")
<1>1. request[r].pc = "select" /\ process = "serving"
  BY DEF Select, At, IInv, ServingInv
<1>2. PICK u \in Upstreams : u = RouteOf(r).upstream
  BY SelectContext
<1>3. PICK a \in Addresses : a = Clusters[u][cursor[u] + 1]
  BY <1>1, TurnInPool
<1>4. PICK w \in Nat : w >= request[r].failures + request[r].steps /\ Passed(u, w, None)
  BY <1>1, <1>2 DEF LoneInv, LoneContext, RouteOf
<1>5. request[r].seen \cap health[u] = {}
  BY <1>1, <1>2 DEF LoneInv, LoneContext, RouteOf
<1>6. UNCHANGED <<health, reachable>>
  BY DEF Select, network
<1>7. cursor'[u] = (cursor[u] + 1) % Len(Clusters[u])
  BY <1>2, SelectContext DEF IInv, TypeOK
<1>8. Passed(u, w + 1, a)'
  BY <1>1, <1>3, <1>4, <1>6, <1>7, TurnTaken
<1>9. PICK c \in Configurations :
        /\ request[r].pinned.config = c /\ c.upstreams = InitialConfig.upstreams
  BY <1>1, UnderWay, PinnedIsFit
<1>10. u \in DOMAIN request[r].pinned.config.upstreams \cap DOMAIN Clusters
  BY <1>9 DEF Upstreams, Clusters
<1>11. \/ request' = [request EXCEPT ![r].pc = "connect", ![r].peer = a,
                                     ![r].seen = {}, ![r].steps = 0, ![r].tried = @ \cup {a}]
       \/ /\ a \notin health[u] \ request[r].seen
          /\ request' = [request EXCEPT ![r].seen = @ \cup {a}, ![r].steps = @ + 1]
       \/ /\ a \notin health[u] \ request[r].seen /\ ~ request[r].steps + 1 < MaxIterations
          /\ Answer(r, "noEndpoint")
  BY <1>2, <1>3, <1>10 DEF Select
<1>12. a \notin health[u] \ request[r].seen => a \notin health[u]
  BY <1>5
<1>. QED  BY <1>2, <1>3, <1>4, <1>5, <1>6, <1>8, <1>11, <1>12

LEMMA LoneSelect ==
    ASSUME IInv, LoneInv, NEW r \in Requests \ disturbed', Select(r)
    PROVE  LoneContext(request[r])'
<1>0. SUFFICES ASSUME request'[r].pc # "idle" PROVE LoneContext(request[r])'
  BY LoneWhenIdle
<1>1. r \notin disturbed
  BY <1>0 DEF Select, Disturb
<1>2. PICK u \in Upstreams, a \in Addresses, w \in Nat :
        /\ u = RouteOf(r).upstream
        /\ w >= request[r].failures + request[r].steps
        /\ Passed(u, w + 1, a)'
        /\ request[r].seen \cap health[u] = {}
        /\ UNCHANGED <<health, reachable>>
        /\ \/ request' = [request EXCEPT ![r].pc = "connect", ![r].peer = a,
                                         ![r].seen = {}, ![r].steps = 0,
                                         ![r].tried = @ \cup {a}]
           \/ /\ a \notin health[u]
              /\ request' = [request EXCEPT ![r].seen = @ \cup {a}, ![r].steps = @ + 1]
           \/ Answer(r, "noEndpoint")
  BY <1>1, LoneTurn
<1>3. /\ request \in [Requests -> RequestContext] /\ request[r] \in RequestContext
      /\ request[r].pc = "select"
      /\ request[r].failures \in Nat /\ request[r].steps \in Nat
  <2>1. request \in [Requests -> RequestContext] /\ request[r] \in RequestContext
        /\ request[r].pc = "select"
    BY UnderWay DEF Select, At
  <2>. QED  BY <2>1, ConfigAssumption DEF RequestContext
<1>4. CASE request' = [request EXCEPT ![r].pc = "connect", ![r].peer = a,
                                      ![r].seen = {}, ![r].steps = 0, ![r].tried = @ \cup {a}]
  <2>1. /\ request'[r].pc = "connect" /\ request'[r].peer = a
        /\ request'[r].seen = {} /\ request'[r].steps = 0
        /\ request'[r].failures = request[r].failures
        /\ request'[r].pinned = request[r].pinned /\ request'[r].index = request[r].index
    BY <1>3, <1>4 DEF RequestContext
  <2>2. u = request'[r].pinned.routes[request'[r].index].upstream
    BY <1>2, <2>1 DEF RouteOf
  <2>3. w + 1 \in Nat /\ w + 1 >= request'[r].failures + 1
    BY <1>2, <1>3, <2>1
  <2>4. Passed(u, w + 1, request[r].peer)'
    BY <1>2, <2>1 DEF Passed
  <2>. QED  BY <2>1, <2>2, <2>3, <2>4 DEF LoneContext
<1>5. CASE /\ a \notin health[u]
           /\ request' = [request EXCEPT ![r].seen = @ \cup {a}, ![r].steps = @ + 1]
  <2>1. /\ request'[r].pc = "select"
        /\ request'[r].seen = request[r].seen \cup {a}
        /\ request'[r].steps = request[r].steps + 1
        /\ request'[r].failures = request[r].failures
        /\ request'[r].pinned = request[r].pinned /\ request'[r].index = request[r].index
    BY <1>3, <1>5 DEF RequestContext
  <2>2. u = request'[r].pinned.routes[request'[r].index].upstream
    BY <1>2, <2>1 DEF RouteOf
  <2>3. w + 1 \in Nat /\ w + 1 >= request'[r].failures + request'[r].steps
    BY <1>2, <1>3, <2>1
  <2>4. request'[r].seen \cap health'[u] = {}
    BY <1>2, <1>5, <2>1
  <2>5. Passed(u, w + 1, None)'
    BY <1>2, <1>5 DEF Passed
  <2>. QED  BY <2>1, <2>2, <2>3, <2>4, <2>5 DEF LoneContext
<1>6. CASE Answer(r, "noEndpoint")
  BY <1>0, <1>3, <1>6 DEF Answer, Fresh
<1>. QED  BY <1>2, <1>4, <1>5, <1>6

\* What is known of an undisturbed request that fails to connect.
LEMMA LoneFailure ==
    ASSUME IInv, LoneInv, NEW r \in Requests \ disturbed, FailToConnect(r)
    PROVE  \E u \in Upstreams, w \in Nat :
             /\ u = RouteOf(r).upstream
             /\ w >= Failures(r) /\ Passed(u, w, None) /\ Passed(u, w, None)'
             /\ request[r].seen = {} /\ request[r].steps = 0
<1>1. /\ request[r].pc = "connect" /\ request[r].peer \notin reachable
      /\ UNCHANGED <<cursor, health, reachable>>
  BY DEF FailToConnect, At, pools, network
<1>2. PICK u \in Upstreams : u = RouteOf(r).upstream
  BY <1>1, UnderWay, PinnedIsFit DEF RouteOf
<1>3. PICK w \in Nat : w >= request[r].failures + 1 /\ Passed(u, w, request[r].peer)
  BY <1>1, <1>2 DEF LoneInv, LoneContext, RouteOf
<1>4. Passed(u, w, None)
  BY <1>1, <1>3 DEF Passed
<1>5. Passed(u, w, None)'
  BY <1>1, <1>4 DEF Passed, Distance
<1>6. request[r].seen = {} /\ request[r].steps = 0
  BY <1>1 DEF LoneInv, LoneContext
<1>. QED  BY <1>2, <1>3, <1>4, <1>5, <1>6 DEF Failures

LEMMA LoneFailToConnect ==
    ASSUME IInv, LoneInv, NEW r \in Requests \ disturbed', FailToConnect(r)
    PROVE  LoneContext(request[r])'
<1>0. SUFFICES ASSUME request'[r].pc # "idle" PROVE LoneContext(request[r])'
  BY LoneWhenIdle
<1>1. r \notin disturbed
  BY <1>0 DEF FailToConnect, Disturb
<1>2. PICK u \in Upstreams, w \in Nat :
        /\ u = RouteOf(r).upstream
        /\ w >= Failures(r) /\ Passed(u, w, None)'
        /\ request[r].seen = {} /\ request[r].steps = 0
  BY <1>1, LoneFailure
<1>3. /\ request \in [Requests -> RequestContext] /\ request[r] \in RequestContext
      /\ request[r].failures \in Nat
  <2>1. request \in [Requests -> RequestContext] /\ request[r] \in RequestContext
    BY DEF IInv, TypeOK
  <2>. QED  BY <2>1 DEF RequestContext
<1>4. ~Answer(r, "connectError")
  BY <1>0, <1>3 DEF Answer, Fresh
<1>5. request' = [request EXCEPT ![r].pc = "select", ![r].failures = Failures(r), ![r].peer = None]
  BY <1>4 DEF FailToConnect
<1>6. /\ request'[r].pc = "select" /\ request'[r].failures = Failures(r)
      /\ request'[r].seen = {} /\ request'[r].steps = 0
      /\ request'[r].pinned = request[r].pinned /\ request'[r].index = request[r].index
  BY <1>2, <1>3, <1>5 DEF RequestContext
<1>7. u = request'[r].pinned.routes[request'[r].index].upstream
  BY <1>2, <1>6 DEF RouteOf
<1>8. w >= request'[r].failures + request'[r].steps
  BY <1>2, <1>3, <1>6 DEF Failures
<1>. QED  BY <1>2, <1>6, <1>7, <1>8 DEF LoneContext

LEMMA LoneOwnStep ==
    ASSUME IInv, LoneInv, NEW r \in Requests \ disturbed',
           (\E q \in Queries : Arrive(r, q)) \/ Step(r)
    PROVE  LoneContext(request[r])'
<1>1. ASSUME Connect(r) \/ Forward(r) PROVE request'[r].pc \in {"idle", "forward"}
  <2>1. request \in [Requests -> RequestContext]
    BY DEF IInv, TypeOK
  <2>2. CASE Connect(r)
    BY <2>1, <2>2 DEF Connect, RequestContext
  <2>3. CASE Forward(r)
    BY <2>1, <2>3 DEF Forward, Answer, Fresh
  <2>. QED  BY <1>1, <2>2, <2>3
<1>. QED  BY <1>1, LoneBefore, LoneSelect, LoneFailToConnect, LoneWhenIdle DEF Step

LEMMA LoneStep ==
    ASSUME IInv, LoneInv, [Next]_vars
    PROVE  LoneInv'
<1>. SUFFICES ASSUME NEW r \in Requests \ disturbed' PROVE LoneContext(request[r])'
  BY DEF LoneInv
<1>0. request \in [Requests -> RequestContext]
  BY DEF IInv, TypeOK
<1>1. CASE (\E q \in Queries : Arrive(r, q)) \/ Step(r)
  BY <1>1, LoneOwnStep
<1>2. ASSUME NEW s \in Requests \ {r}, (\E q \in Queries : Arrive(s, q)) \/ Step(s)
      PROVE  LoneContext(request[r])'
  <2>1. request'[r] = request[r]
    <3>1. CASE \E q \in Queries : Arrive(s, q)
      BY <1>0, <3>1 DEF Arrive
    <3>2. CASE Step(s)
      <4>1. PICK k : StepTo(s, k)
        BY <3>2, FilterContext, CheckPoliciesContext, SelectContext, ConnectContext,
           FailToConnectContext, ForwardContext DEF Step
      <4>. QED  BY <1>0, <4>1 DEF StepTo
    <3>. QED  BY <1>2, <3>1, <3>2
  <2>2. CASE request[r].pc = "idle"
    BY <2>1, <2>2, LoneWhenIdle
  <2>3. CASE request[r].pc # "idle" /\ Select(s)
    BY <2>1, <2>3 DEF Select, Disturb
  <2>4. CASE request[r].pc # "idle" /\ ~Select(s)
    <3>1. r \notin disturbed /\ UNCHANGED <<cursor, health, reachable>>
      <4>1. CASE \E q \in Queries : Arrive(s, q)
        BY <4>1 DEF Arrive, pools, network
      <4>2. CASE Filter(s) \/ CheckPolicies(s) \/ Connect(s) \/ FailToConnect(s) \/ Forward(s)
        BY <2>1, <2>4, <4>2 DEF Filter, CheckPolicies, Connect, FailToConnect, Forward,
                               Disturb, pools, network
      <4>. QED  BY <1>2, <2>4, <4>1, <4>2 DEF Step
    <3>. QED  BY <2>1, <3>1, LoneByOthers
  <2>. QED  BY <2>2, <2>3, <2>4
<1>3. ASSUME NEW a, NEW u, Outage(a) \/ CheckHealth(u, a) PROVE LoneContext(request[r])'
  <2>1. request' = request /\ Disturb(Requests)
    BY <1>3 DEF Outage, CheckHealth
  <2>2. request'[r].pc = "idle"
    BY <2>1 DEF Disturb
  <2>. QED  BY <2>2, LoneWhenIdle
<1>4. ASSUME UNCHANGED <<request, cursor, health, reachable, disturbed>>
      PROVE  LoneContext(request[r])'
  BY <1>4, LoneByOthers
<1>5. ASSUME Next,
             ~ \E s \in Requests : (\E q \in Queries : Arrive(s, q)) \/ Step(s),
             ~ \E a, u : Outage(a) \/ CheckHealth(u, a)
      PROVE  UNCHANGED <<request, cursor, health, reachable, disturbed>>
  BY <1>5 DEF Next, Start, CheckCandidate, Install, Observe, pools, network
<1>6. UNCHANGED vars => UNCHANGED <<request, cursor, health, reachable, disturbed>>
  BY DEF vars, pools, network
<1>. QED  BY <1>1, <1>2, <1>3, <1>4, <1>5, <1>6

LEMMA LoneInvariance == Spec => []LoneInv
<1>1. Init => LoneInv
  BY DEF Init, LoneInv, LoneContext, Fresh
<1>. QED  BY <1>1, LoneStep, Invariance, PTL DEF Spec

\* In a pool of addresses, no more than a selection may look at: a request during
\* which no other selected an endpoint and nothing went up or down is refused only if
\* nothing in its pool could have served it.
THEOREM LoneServed ==
    ASSUME EndpointsAreAddresses, PoolsFitIterations
    PROVE  Spec => LoneRequestServed
<1>1. ASSUME IInv, LoneInv, [Next]_vars
      PROVE  [\A r \in Requests \ disturbed :
                Answered(r, {"noEndpoint", "connectError"}) =>
                  health[RouteOf(r).upstream] \cap reachable = {}]_vars
  <2>. SUFFICES ASSUME NEW r \in Requests \ disturbed,
                       Answered(r, {"noEndpoint", "connectError"})
                PROVE  health[RouteOf(r).upstream] \cap reachable = {}
    OBVIOUS
  <2>0. /\ request \in [Requests -> RequestContext] /\ request[r] \in RequestContext
        /\ request[r].pc # "idle" /\ process = "serving"
        /\ request'[r].pc = "idle" /\ request'[r].answer \in {"noEndpoint", "connectError"}
    BY <1>1 DEF IInv, TypeOK, ServingInv, Answered, At
  <2>1. Select(r) \/ FailToConnect(r)
    <3>1. ASSUME NEW s \in Requests, s # r, (\E q \in Queries : Arrive(s, q)) \/ Step(s)
          PROVE  FALSE
      <4>1. CASE \E q \in Queries : Arrive(s, q)
        BY <2>0, <3>1, <4>1 DEF Arrive
      <4>2. CASE Step(s)
        <5>1. PICK k : StepTo(s, k)
          BY <1>1, <4>2, FilterContext, CheckPoliciesContext, SelectContext, ConnectContext,
             FailToConnectContext, ForwardContext DEF Step
        <5>. QED  BY <2>0, <3>1, <5>1 DEF StepTo
      <4>. QED  BY <3>1, <4>1, <4>2
    <3>2. ~ \E q \in Queries : Arrive(r, q)
      BY <2>0 DEF Arrive, At
    <3>3. ~Filter(r)
      BY <2>0 DEF Filter, Answer, Fresh, RequestContext
    <3>4. ~CheckPolicies(r)
      BY <2>0 DEF CheckPolicies, Answer, Fresh, RequestContext
    <3>5. ~Connect(r)
      BY <2>0 DEF Connect, RequestContext
    <3>6. ~Forward(r)
      BY <2>0 DEF Forward, Answer, Fresh, RequestContext
    <3>7. ASSUME Next, ~ \E s \in Requests : (\E q \in Queries : Arrive(s, q)) \/ Step(s)
          PROVE  request' = request
      BY <3>7 DEF Next, Start, CheckCandidate, Install, Outage, CheckHealth, Observe
    <3>8. UNCHANGED vars => request' = request
      BY DEF vars
    <3>. QED  BY <1>1, <2>0, <3>1, <3>2, <3>3, <3>4, <3>5, <3>6, <3>7, <3>8 DEF Step
  <2>2. CASE Select(r)
    <3>1. PICK u \in Upstreams, a \in Addresses, w \in Nat :
            /\ u = RouteOf(r).upstream
            /\ w >= request[r].failures + request[r].steps
            /\ a = Clusters[u][cursor[u] + 1] /\ a \notin health[u]
            /\ Passed(u, w, None)
            /\ ~ request[r].steps + 1 < MaxIterations
      <4>1. PICK u \in Upstreams, a \in Addresses, w \in Nat :
              /\ u = RouteOf(r).upstream /\ a = Clusters[u][cursor[u] + 1]
              /\ w >= request[r].failures + request[r].steps
              /\ Passed(u, w, None)
              /\ \/ request' = [request EXCEPT ![r].pc = "connect", ![r].peer = a,
                                               ![r].seen = {}, ![r].steps = 0,
                                               ![r].tried = @ \cup {a}]
                 \/ request' = [request EXCEPT ![r].seen = @ \cup {a}, ![r].steps = @ + 1]
                 \/ a \notin health[u] /\ ~ request[r].steps + 1 < MaxIterations
        BY <1>1, <2>2, LoneTurn
      <4>2. request[r].pc = "select"
        BY <2>2 DEF Select, At
      <4>3. a \notin health[u] /\ ~ request[r].steps + 1 < MaxIterations
        BY <2>0, <4>1, <4>2 DEF RequestContext
      <4>. QED  BY <4>1, <4>3
    <3>2. request[r].failures \in Nat /\ request[r].steps \in Nat
      BY <2>0, ConfigAssumption DEF RequestContext
    <3>3. Len(Clusters[u]) <= w + 1 /\ w + 1 \in Nat
      BY <3>1, <3>2, ConfigAssumption, Pools DEF PoolsFitIterations
    <3>4. Passed(u, w + 1, a)
      <4>1. cursor[u] \in Nat /\ cursor[u] < Len(Clusters[u]) /\ Len(Clusters[u]) \in Nat
        BY <1>1, <2>0, Pools DEF IInv, TypeOK, ServingInv
      <4>2. ASSUME NEW i \in 0..(Len(Clusters[u]) - 1), i # cursor[u] PROVE Distance(u, i) <= w
        BY <3>3, <4>1, <4>2 DEF Distance
      <4>3. \A i \in 0..(Len(Clusters[u]) - 1) :
              Clusters[u][i + 1] \notin {a, None} => Clusters[u][i + 1] \notin health[u] \cap reachable
        BY <3>1, <4>2 DEF Passed
      <4>4. None \notin health[u]
        BY <1>1, NoneAssumption DEF IInv, TypeOK
      <4>. QED  BY <4>3, <4>4 DEF Passed
    <3>. QED  BY <1>1, <2>0, <3>1, <3>3, <3>4, WholeRound
  <2>3. CASE FailToConnect(r)
    <3>1. PICK u \in Upstreams, w \in Nat :
            u = RouteOf(r).upstream /\ w >= Failures(r) /\ Passed(u, w, None)
      BY <1>1, <2>3, LoneFailure
    <3>2. ~CanRetry(r, Failures(r))
      BY <2>0, <2>3 DEF FailToConnect, RequestContext
    <3>3. PICK c \in Configurations :
            request[r].pinned.config = c /\ c.upstreams = InitialConfig.upstreams
      <4>1. request[r].pc = "connect"
        BY <2>3 DEF FailToConnect, At
      <4>. QED  BY <1>1, <4>1, UnderWay, PinnedIsFit
    <3>4. ~ Failures(r) < Len(InitialConfig.upstreams[u])
      BY <3>1, <3>2, <3>3 DEF CanRetry, Upstreams
    <3>5. Failures(r) \in Nat
      BY <2>0 DEF Failures, RequestContext
    <3>6. Len(Clusters[u]) <= w
      <4>1. /\ Len(Clusters[u]) <= Len(InitialConfig.upstreams[u])
            /\ Len(Clusters[u]) \in Nat /\ Len(InitialConfig.upstreams[u]) \in Nat
        BY PoolNoLonger, Pools
      <4>. QED  BY <3>1, <3>4, <3>5, <4>1
    <3>7. None \notin health[u]
      BY <1>1, NoneAssumption DEF IInv, TypeOK
    <3>. QED  BY <1>1, <2>0, <3>1, <3>6, <3>7, WholeRound
  <2>. QED  BY <2>1, <2>2, <2>3
<1>. QED  BY <1>1, LoneInvariance, Invariance, PTL DEF Spec, LoneRequestServed

----------------------------------------------------------------------------
(* The pages that look at the gateway. *)

\* The pages change nothing of the gateway.
LEMMA PagesOnlyLook == ViewsSpec => Spec
<1>1. ViewsInit => Init
  BY DEF ViewsInit
<1>2. [ViewsNext]_allVars => [Next]_vars
  BY DEF ViewsNext, ReadConfig, ReadHealth, Simulate, allVars
<1>. QED  BY <1>1, <1>2, PTL DEF ViewsSpec, Spec

\* The answer that is shown is that of the configuration it was asked of.
SimulationInv ==
    simulation # None =>
        \E c \in Configurations :
            /\ simulation.config = c
            /\ simulation.route = FindMatchingRoute(c.routes, simulation.query)

LEMMA SimulationStep ==
    ASSUME IInv, SimulationInv, [ViewsNext]_allVars
    PROVE  SimulationInv'
<1>1. ASSUME NEW form \in SimulationForms, Simulate(form) PROVE SimulationInv'
  <2>. DEFINE q == SimulatedQuery(form)
              answer == [query |-> q, config |-> snapshot.config,
                         route |-> FindMatchingRoute(snapshot.config.routes, q)]
  <2>1. simulation' = answer \/ simulation' = None
    BY <1>1 DEF Simulate
  <2>2. PICK c \in Configurations : snapshot = Snapshot(c)
    BY DEF IInv, SnapshotInv
  <2>3. snapshot.config = c
    BY <2>2 DEF Snapshot
  <2>4. answer.config = c /\ answer.route = FindMatchingRoute(c.routes, answer.query)
    BY <2>3
  <2>. HIDE DEF answer
  <2>. QED  BY <2>1, <2>4 DEF SimulationInv
<1>2. ASSUME UNCHANGED simulation PROVE SimulationInv'
  BY <1>2 DEF SimulationInv
<1>. QED  BY <1>1, <1>2 DEF ViewsNext, ReadConfig, ReadHealth, views, allVars

\* What a lookup finds depends on the host, the path and the method only.
LEMMA SameLookup ==
    ASSUME NEW table, NEW q, NEW p, p.host = q.host, p.path = q.path, p.method = q.method
    PROVE  Position(table, p) = Position(table, q)
<1>1. \A i \in DOMAIN table : RouteMatches(table[i], p) <=> RouteMatches(table[i], q)
  BY DEF RouteMatches
<1>. DEFINE Matching(x) == {i \in DOMAIN table : RouteMatches(table[i], x)}
            First(S) == IF S = {} THEN 0 ELSE CHOOSE i \in S : \A j \in S : i <= j
<1>2. Matching(p) = Matching(q)
  BY <1>1
<1>3. Position(table, p) = First(Matching(p)) /\ Position(table, q) = First(Matching(q))
  BY DEF Position
<1>. HIDE DEF First, Matching
<1>. QED  BY <1>2, <1>3

\* What the simulator says of a configuration is the route of every such request that
\* is served from it (SimulationHolds).
THEOREM SimulationsHold == ViewsSpec => []SimulationHolds
<1>1. ViewsInit => SimulationInv
  BY DEF ViewsInit, SimulationInv
<1>2. ASSUME IInv, SimulationInv PROVE SimulationHolds
  <2>1. SUFFICES ASSUME NEW r \in Requests, request[r].pinned # None, Simulated(r),
                        simulation.config = request[r].pinned.config
                 PROVE  simulation.route = RouteOf(r)
    BY DEF SimulationHolds
  <2>. DEFINE k == request[r]
  <2>2. ContextInv(k) /\ k.pc \notin {"idle", "filter"}
    BY <1>2, <2>1 DEF IInv, ContextInv
  <2>3. PICK c \in Configurations :
          k.pinned.config = c /\ k.pinned.routes = SortRoutes(c.routes)
    <3>. HIDE DEF k
    <3>. QED  BY <2>2, PinnedIsFit
  <2>4. k.index # 0 /\ k.index = Position(SortRoutes(c.routes), k.query)
    BY <2>2, <2>3 DEF ContextInv
  <2>5. simulation.route = FindMatchingRoute(c.routes, simulation.query)
    BY <1>2, <2>1, <2>3 DEF Simulated, SimulationInv
  <2>6. /\ simulation.query.host = k.query.host /\ simulation.query.path = k.query.path
        /\ simulation.query.method = k.query.method
    BY <2>1 DEF Simulated
  <2>7. Position(SortRoutes(c.routes), simulation.query) = k.index
    BY <2>4, <2>6, SameLookup
  <2>. QED  BY <2>3, <2>4, <2>5, <2>7 DEF FindMatchingRoute, RouteOf
<1>3. IInv /\ SimulationInv /\ [ViewsNext]_allVars => SimulationInv'
  BY SimulationStep
<1>4. ViewsSpec => []IInv
  BY PagesOnlyLook, Invariance
<1>. QED  BY <1>1, <1>2, <1>3, <1>4, PTL DEF ViewsSpec

\* No endpoint is configured twice for an upstream. (The dashboard counts it twice, but
\* RuntimeStatus holds one health for it.)
EndpointsListedOnce ==
    \A u \in Upstreams : IsInjective(InitialConfig.upstreams[u])

\* The endpoints, and their places in the configuration.
Keys == UNION {{u} \X Range(InitialConfig.upstreams[u]) : u \in Upstreams}
Places == UNION {{u} \X DOMAIN InitialConfig.upstreams[u] : u \in Upstreams}

LEMMA EndpointsCounted ==
    ASSUME EndpointsAreAddresses, EndpointsListedOnce, NEW s, DOMAIN s = Keys
    PROVE  /\ IsFiniteSet(Keys)
           /\ Cardinality(Places) = Cardinality({<<key, s[key]>> : key \in Keys})
<1>. DEFINE ups == InitialConfig.upstreams
            rows == {<<key, s[key]>> : key \in Keys}
            f == [x \in Places |-> <<x[1], ups[x[1]][x[2]]>>]
            g == [key \in Keys |-> <<key, s[key]>>]
<1>1. \A u \in Upstreams : Range(ups[u]) \subseteq Addresses
  BY AddressInPool, Pools
<1>2. Keys \subseteq Upstreams \X Addresses
  BY <1>1 DEF Keys
<1>3. IsFiniteSet(Keys)
  BY <1>2, ConfigAssumption, FS_Product, FS_Subset DEF Upstreams
<1>4. f \in Bijection(Places, Keys)
  <2>1. \A x \in Places : x = <<x[1], x[2]>> /\ x[1] \in Upstreams /\ x[2] \in DOMAIN ups[x[1]]
    BY DEF Places
  <2>2. f \in [Places -> Keys]
    BY <2>1 DEF Keys, Range
  <2>3. ASSUME NEW x \in Places, NEW y \in Places, f[x] = f[y] PROVE x = y
    <3>1. x[1] = y[1] /\ ups[x[1]][x[2]] = ups[x[1]][y[2]]
      BY <2>3
    <3>2. x[2] = y[2]
      BY <2>1, <3>1 DEF EndpointsListedOnce, IsInjective
    <3>. QED  BY <2>1, <3>1, <3>2
  <2>4. ASSUME NEW key \in Keys PROVE \E x \in Places : f[x] = key
    <3>1. PICK u \in Upstreams : \E e \in Range(ups[u]) : key = <<u, e>>
      BY DEF Keys
    <3>2. PICK i \in DOMAIN ups[u] : key = <<u, ups[u][i]>>
      BY <3>1 DEF Range
    <3>3. <<u, i>> \in Places
      BY <3>2 DEF Places
    <3>. QED  BY <3>2, <3>3
  <2>. QED  BY <2>2, <2>3, <2>4 DEF Bijection, Injection, Surjection, IsInjective
<1>5. g \in Bijection(Keys, rows)
  BY DEF Bijection, Injection, Surjection, IsInjective
<1>6. ExistsBijection(Keys, Places) /\ ExistsBijection(Keys, rows)
  BY <1>4, <1>5, Fun_ExistsBijSymmetric DEF ExistsBijection
<1>. QED  BY <1>3, <1>6, FS_Bijection

\* The dashboard has read an accepted configuration, and the health of its endpoints.
DashboardInv ==
    /\ DOMAIN status = Keys
    /\ DOMAIN dashboard = {"pc", "summary", "rows"}
    /\ dashboard.pc \in {"config", "shown"} =>
           /\ dashboard.summary.endpoints = Cardinality(Places)
           /\ dashboard.summary.upstreams = Cardinality(Upstreams)
    /\ dashboard.pc = "shown" =>
           \E s : DOMAIN s = Keys /\ dashboard.rows = {<<key, s[key]>> : key \in Keys}

LEMMA KeysStay ==
    ASSUME EndpointsAreAddresses, IInv, DOMAIN status = Keys, [Next]_vars
    PROVE  DOMAIN status' = Keys
<1>1. ASSUME NEW u \in Upstreams, Observe(u) PROVE DOMAIN status' = Keys
  <2>1. DOMAIN status' = DOMAIN status \cup {<<u, report[u].address>>}
    BY <1>1 DEF Observe, SetEndpointHealth
  <2>2. report[u].address \in Range(InitialConfig.upstreams[u])
    BY <1>1, AddressInPool DEF Observe, IInv, ReportInv
  <2>. QED  BY <2>1, <2>2 DEF Keys
<1>2. ASSUME Next, ~ \E u \in Upstreams : Observe(u) PROVE UNCHANGED status
  BY <1>2 DEF Next, Start, CheckCandidate, Install, Outage, CheckHealth, Arrive, Step, Filter,
              CheckPolicies, Select, Connect, FailToConnect, Forward, runtime
<1>3. UNCHANGED vars => UNCHANGED status
  BY DEF vars, runtime
<1>. QED  BY <1>1, <1>2, <1>3

LEMMA DashboardStep ==
    ASSUME EndpointsAreAddresses, IInv, DashboardInv, [ViewsNext]_allVars
    PROVE  DashboardInv'
<1>1. DOMAIN status' = Keys
  <2>1. [Next]_vars
    BY DEF ViewsNext, ReadConfig, ReadHealth, Simulate, allVars
  <2>. QED  BY <2>1, KeysStay DEF DashboardInv
<1>2. ASSUME ReadConfig PROVE DashboardInv'
  <2>1. PICK c \in Configurations : Accepted(c) /\ snapshot = Snapshot(c)
    BY DEF IInv, SnapshotInv
  <2>2. snapshot.config = c /\ c.upstreams = InitialConfig.upstreams
    BY <2>1 DEF Accepted, SameStructure, Snapshot
  <2>3. ActiveConfigSummary(c).endpoints = Cardinality(Places)
        /\ ActiveConfigSummary(c).upstreams = Cardinality(Upstreams)
    BY <2>2 DEF ActiveConfigSummary, Places, Upstreams
  <2>4. /\ dashboard'.pc = "config" /\ dashboard'.summary = ActiveConfigSummary(c)
        /\ DOMAIN dashboard' = {"pc", "summary", "rows"}
    BY <1>2, <2>2 DEF ReadConfig
  <2>. QED  BY <1>1, <2>3, <2>4 DEF DashboardInv
<1>3. ASSUME ReadHealth PROVE DashboardInv'
  <2>. DEFINE rows == {<<key, status[key]>> : key \in DOMAIN status}
  <2>1. dashboard' = [dashboard EXCEPT !.pc = "shown", !.rows = rows] /\ dashboard.pc = "config"
    BY <1>3 DEF ReadHealth
  <2>2. DOMAIN dashboard = {"pc", "summary", "rows"}
    BY DEF DashboardInv
  <2>3. /\ DOMAIN dashboard' = {"pc", "summary", "rows"} /\ dashboard'.pc = "shown"
        /\ dashboard'.summary = dashboard.summary /\ dashboard'.rows = rows
    BY <2>1, <2>2
  <2>. QED  BY <1>1, <2>1, <2>3 DEF DashboardInv
<1>4. ASSUME UNCHANGED dashboard PROVE DashboardInv'
  BY <1>1, <1>4 DEF DashboardInv
<1>. QED  BY <1>2, <1>3, <1>4 DEF ViewsNext, Simulate, views, allVars

\* A dashboard counts the endpoints and pools whose health it lists, although it read
\* the two at different moments (DashboardFits).
THEOREM DashboardsFit ==
    ASSUME EndpointsAreAddresses, EndpointsListedOnce
    PROVE  ViewsSpec => []DashboardFits
<1>1. EndpointsAreAddresses
  OBVIOUS
<1>2. ViewsInit => DashboardInv
  BY DEF ViewsInit, Init, DashboardInv, NoDashboard, Keys
<1>3. ASSUME DashboardInv PROVE DashboardFits
  <2>1. SUFFICES ASSUME dashboard.pc = "shown"
                 PROVE  LET keys == {row[1] : row \in dashboard.rows}
                        IN /\ dashboard.summary.endpoints = Cardinality(dashboard.rows)
                           /\ dashboard.summary.upstreams = Cardinality({key[1] : key \in keys})
    BY DEF DashboardFits
  <2>2. PICK s : DOMAIN s = Keys /\ dashboard.rows = {<<key, s[key]>> : key \in Keys}
    BY <1>3, <2>1 DEF DashboardInv
  <2>3. dashboard.summary.endpoints = Cardinality(dashboard.rows)
    BY <1>3, <2>1, <2>2, EndpointsCounted DEF DashboardInv
  <2>4. {row[1] : row \in dashboard.rows} = Keys
    <3>1. \A key \in Keys : <<key, s[key]>> \in dashboard.rows /\ <<key, s[key]>>[1] = key
      BY <2>2
    <3>2. \A row \in dashboard.rows : row[1] \in Keys
      BY <2>2
    <3>3. \A key \in Keys : \E row \in dashboard.rows : row[1] = key
      BY <3>1, Zenon
    <3>. QED  BY <3>2, <3>3
  <2>5. {key[1] : key \in Keys} = Upstreams
    <3>1. ASSUME NEW u \in Upstreams PROVE \E key \in Keys : key[1] = u
      <4>1. PICK e : e \in Range(InitialConfig.upstreams[u])
        BY Pools
      <4>2. <<u, e>> \in Keys
        BY <4>1 DEF Keys
      <4>. QED  BY <4>2
    <3>2. \A key \in Keys : key[1] \in Upstreams
      BY DEF Keys
    <3>. QED  BY <3>1, <3>2
  <2>. QED  BY <1>3, <2>1, <2>3, <2>4, <2>5 DEF DashboardInv
<1>4. EndpointsAreAddresses /\ IInv /\ DashboardInv /\ [ViewsNext]_allVars => DashboardInv'
  BY DashboardStep
<1>5. ViewsSpec => []IInv
  BY PagesOnlyLook, Invariance
<1>. QED  BY <1>1, <1>2, <1>3, <1>4, <1>5, PTL DEF ViewsSpec
=============================================================================
