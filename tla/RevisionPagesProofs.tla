-------------------------- MODULE RevisionPagesProofs --------------------------
(***************************************************************************)
(* For any configurations: what the two revision pages show is consistent, *)
(* although they read in steps and without the lock. Numbers are only      *)
(* added, and what is written under one never changes, so what was read    *)
(* first still holds when the rest is read. What the message of a          *)
(* difference says of the running process is a fact about any two valid    *)
(* configurations.                                                         *)
(***************************************************************************)
EXTENDS RevisionPages, RoutingProofs

RegistryInv ==
    /\ DOMAIN history \subseteq Nat
    /\ {active, pending} \subseteq DOMAIN history \cup {None}
    /\ \A n \in DOMAIN history : history[n] \in ValidConfigs

PageInv ==
    /\ page = [pc |-> page.pc, active |-> page.active, pending |-> page.pending,
               rows |-> page.rows]
    /\ page.pc \in {"state", "open", "shown"} => path
    /\ page.pc = "state" => {page.active, page.pending} \subseteq DOMAIN history \cup {None}
    /\ page.pc \in {"open", "shown"} =>
         /\ {page.active, page.pending} \subseteq page.rows \cup {None}
         /\ page.rows \subseteq DOMAIN history

FragmentInv ==
    /\ fragment.pc = "idle" => ~fragment.listed
    /\ fragment.pc = "from" =>
         /\ fragment.from \in DOMAIN history
         /\ fragment.config = history[fragment.from]
         /\ fragment.message = None
         /\ fragment.listed => fragment.to \in DOMAIN history
    /\ fragment.pc = "shown" =>
         \/ fragment.message = "error" /\ ~fragment.listed
         \/ /\ {fragment.from, fragment.to} \subseteq DOMAIN history
            /\ fragment.message =
                 Message(Diff(history[fragment.from], history[fragment.to]))
    /\ fragment.pc \in {"idle", "from", "shown"}

IInv == RegistryInv /\ PageInv /\ FragmentInv

----------------------------------------------------------------------------
(* The invariant. *)

LEMMA InitInvariant == Init => IInv
<1>. SUFFICES ASSUME Init PROVE IInv
  OBVIOUS
<1>1. /\ DOMAIN history = {} /\ active = None /\ pending = None
      /\ page = NoPage /\ fragment = NoFragment
  BY DEF Init, Registry!Init
<1>2. RegistryInv
  BY <1>1 DEF RegistryInv
<1>3. PageInv
  BY <1>1 DEF PageInv, NoPage
<1>4. FragmentInv
  BY <1>1 DEF FragmentInv, NoFragment
<1>. QED  BY <1>2, <1>3, <1>4 DEF IInv

\* The steps of the registry add to the history and change nothing in it.
LEMMA RegistryInvariant ==
    ASSUME IInv, Registry!Next, UNCHANGED <<path, page, fragment>>
    PROVE  IInv'
<1>1. /\ DOMAIN history \subseteq DOMAIN history'
      /\ \A n \in DOMAIN history : history'[n] = history[n]
      /\ RegistryInv'
  <2>1. CASE \E n \in 1..MaxRevision, c \in ValidConfigs : Registry!Record(n, c)
    <3>1. PICK n \in 1..MaxRevision, c \in ValidConfigs : Registry!Record(n, c)
      BY <2>1
    <3>2. /\ n \in Nat /\ n \notin DOMAIN history
          /\ DOMAIN history' = DOMAIN history \cup {n}
          /\ history'[n] = c
          /\ \A m \in DOMAIN history : history'[m] = history[m]
          /\ UNCHANGED <<active, pending>>
      BY <3>1 DEF Registry!Record
    <3>. QED  BY <3>2 DEF IInv, RegistryInv
  <2>2. CASE \E n \in DOMAIN history : Registry!MarkPending(n)
    BY <2>2 DEF Registry!MarkPending, IInv, RegistryInv
  <2>3. CASE Registry!Activate
    BY <2>3 DEF Registry!Activate, IInv, RegistryInv
  <2>4. CASE Registry!Slip
    BY <2>4 DEF Registry!Slip, IInv, RegistryInv
  <2>. QED  BY <2>1, <2>2, <2>3, <2>4 DEF Registry!Next
<1>2. PageInv'
  BY <1>1 DEF IInv, PageInv
<1>3. FragmentInv'
  BY <1>1 DEF IInv, FragmentInv
<1>. QED  BY <1>1, <1>2, <1>3 DEF IInv

LEMMA PageInvariant ==
    ASSUME IInv,
           Unavailable \/ LoadState \/ OpenDirectory \/ ReadEntries \/ CloseList
    PROVE  IInv'
<1>1. UNCHANGED <<registry, path, fragment>>
  BY DEF Unavailable, LoadState, OpenDirectory, ReadEntries, CloseList
<1>2. RegistryInv' /\ FragmentInv'
  BY <1>1 DEF registry, IInv, RegistryInv, FragmentInv
<1>3. PageInv'
  <2>1. CASE Unavailable
    BY <2>1 DEF Unavailable, PageInv, NoPage
  <2>2. CASE LoadState
    <3>1. page' = [pc |-> "state", active |-> active, pending |-> pending, rows |-> {}] /\ path
      BY <2>2 DEF LoadState, NoPage
    <3>. QED  BY <1>1, <3>1 DEF PageInv, registry, IInv, RegistryInv
  <2>3. CASE OpenDirectory
    <3>1. /\ page' = [pc |-> "open", active |-> page.active, pending |-> page.pending,
                      rows |-> DOMAIN history]
          /\ page.pc = "state"
      BY <2>3 DEF OpenDirectory, IInv, PageInv
    <3>. QED  BY <1>1, <3>1 DEF IInv, PageInv, registry
  <2>4. CASE ReadEntries
    <3>1. PICK added \in SUBSET (DOMAIN history \ page.rows) :
            page' = [page EXCEPT !.pc = "shown", !.rows = page.rows \cup added]
      BY <2>4 DEF ReadEntries
    <3>2. /\ page' = [pc |-> "shown", active |-> page.active, pending |-> page.pending,
                      rows |-> page.rows \cup added]
          /\ page.pc = "open"
      BY <2>4, <3>1 DEF ReadEntries, IInv, PageInv
    <3>. QED  BY <1>1, <3>2 DEF IInv, PageInv, registry
  <2>5. CASE CloseList
    BY <2>5 DEF CloseList, PageInv, NoPage
  <2>. QED  BY <2>1, <2>2, <2>3, <2>4, <2>5
<1>. QED  BY <1>2, <1>3 DEF IInv

LEMMA FragmentInvariant ==
    ASSUME IInv, LoadFrom \/ LoadTo \/ CloseDiff
    PROVE  IInv'
<1>1. UNCHANGED <<registry, path, page>>
  BY DEF LoadFrom, LoadTo, CloseDiff
<1>2. RegistryInv' /\ PageInv'
  BY <1>1 DEF registry, IInv, RegistryInv, PageInv
<1>3. history' = history
  BY <1>1 DEF registry
<1>4. FragmentInv'
  <2>1. CASE LoadFrom
    <3>1. PICK from \in 1..MaxRevision, to \in 1..MaxRevision, listed \in BOOLEAN :
            /\ listed => page.pc = "shown" /\ {from, to} \subseteq page.rows
            /\ IF path /\ from \in DOMAIN history
               THEN fragment' = [pc |-> "from", from |-> from, to |-> to, listed |-> listed,
                                 config |-> history[from], message |-> None]
               ELSE Show(from, to, listed, "error")
      BY <2>1 DEF LoadFrom
    <3>2. listed => path /\ {from, to} \subseteq DOMAIN history
      BY <3>1 DEF IInv, PageInv
    <3>3. CASE path /\ from \in DOMAIN history
      BY <1>3, <3>1, <3>2, <3>3 DEF FragmentInv
    <3>4. CASE ~(path /\ from \in DOMAIN history)
      BY <3>1, <3>2, <3>4 DEF FragmentInv, Show, NoFragment
    <3>. QED  BY <3>3, <3>4
  <2>2. CASE LoadTo
    <3>1. /\ fragment.from \in DOMAIN history
          /\ fragment.config = history[fragment.from]
          /\ fragment.listed => fragment.to \in DOMAIN history
      BY <2>2 DEF LoadTo, IInv, FragmentInv
    <3>2. CASE fragment.to \in DOMAIN history
      <4>1. Show(fragment.from, fragment.to, fragment.listed,
                 Message(Diff(history[fragment.from], history[fragment.to])))
        BY <2>2, <3>1, <3>2 DEF LoadTo
      <4>2. /\ fragment'.pc = "shown"
            /\ fragment'.from = fragment.from /\ fragment'.to = fragment.to
            /\ fragment'.message = Message(Diff(history[fragment.from], history[fragment.to]))
        BY <4>1 DEF Show, NoFragment
      <4>. QED  BY <1>3, <3>1, <3>2, <4>2 DEF FragmentInv
    <3>3. CASE fragment.to \notin DOMAIN history
      BY <2>2, <3>1, <3>3 DEF LoadTo, FragmentInv, Show, NoFragment
    <3>. QED  BY <3>2, <3>3
  <2>3. CASE CloseDiff
    BY <2>3 DEF CloseDiff, FragmentInv, NoFragment
  <2>. QED  BY <2>1, <2>2, <2>3
<1>. QED  BY <1>2, <1>4 DEF IInv

\* What was read is still there when the rest is read.
THEOREM PagesConsistent == Spec => []IInv
<1>1. IInv /\ [Next]_vars => IInv'
  <2>. SUFFICES ASSUME IInv, [Next]_vars PROVE IInv'
    OBVIOUS
  <2>1. CASE UNCHANGED vars
    BY <2>1 DEF vars, IInv, RegistryInv, PageInv, FragmentInv
  <2>. QED  BY <2>1, RegistryInvariant, PageInvariant, FragmentInvariant DEF Next
<1>. QED  BY <1>1, InitInvariant, PTL DEF Spec

\* For any configurations: the revisions in the head of the list are rows of it and
\* marked there.
THEOREM ReferencesAlwaysListed == Spec => []ReferencesListed
<1>1. IInv => ReferencesListed
  <2>. SUFFICES ASSUME IInv, page.pc = "shown" PROVE ReferencesListed
    BY DEF ReferencesListed
  <2>1. {page.active, page.pending} \subseteq page.rows \cup {None}
    BY DEF IInv, PageInv
  <2>. QED  BY <2>1 DEF ReferencesListed, Status
<1>. QED  BY <1>1, PagesConsistent, PTL

\* For any configurations: two revisions the page lists can be compared.
THEOREM ListedAlwaysCompare == Spec => []ListedCompare
<1>1. IInv => ListedCompare
  <2>. SUFFICES ASSUME IInv, fragment.listed PROVE fragment.message # "error"
    BY DEF ListedCompare
  <2>1. \A diff : Message(diff) # "error"
    BY DEF Message
  <2>. QED  BY <2>1, NoneAssumption DEF IInv, FragmentInv
<1>. QED  BY <1>1, PagesConsistent, PTL

----------------------------------------------------------------------------
(* What a difference says of two valid configurations. *)

\* A restart is asked for exactly when replacing the one by the other would be refused.
LEMMA RestartIsStructure ==
    ASSUME NEW old \in ValidConfigs, NEW new \in ValidConfigs
    PROVE  RestartRequired(Diff(old, new)) <=> ~SameStructure(old, new)
<1>. DEFINE diff == Diff(old, new)
<1>1. /\ diff.server = (old.server # new.server)
      /\ diff.admin = (old.admin # new.admin)
      /\ diff.upstreamsAdded = Added(old.upstreams, new.upstreams)
      /\ diff.upstreamsRemoved = Added(new.upstreams, old.upstreams)
      /\ diff.upstreamsChanged = Changed(old.upstreams, new.upstreams)
  BY DEF Diff
<1>2. IsMap(old.upstreams) /\ IsMap(new.upstreams)
  BY ConfigsAssumption
<1>3. /\ Added(old.upstreams, new.upstreams) = {}
      /\ Added(new.upstreams, old.upstreams) = {}
      /\ Changed(old.upstreams, new.upstreams) = {}
      => old.upstreams = new.upstreams
  BY <1>2 DEF Added, Changed, IsMap
<1>4. old.upstreams = new.upstreams =>
        /\ Added(old.upstreams, new.upstreams) = {}
        /\ Added(new.upstreams, old.upstreams) = {}
        /\ Changed(old.upstreams, new.upstreams) = {}
  BY DEF Added, Changed
<1>. HIDE DEF diff
<1>5. RestartRequired(diff) <=> ~SameStructure(old, new)
  BY <1>1, <1>3, <1>4 DEF RestartRequired, SameStructure
<1>. QED  BY <1>5 DEF diff

\* Valid configurations name each route once, so none hides another.
LEMMA RouteUnderName ==
    ASSUME NEW config \in ValidConfigs
    PROVE  LET byName == RoutesByName(config.routes)
           IN /\ DOMAIN byName = {config.routes[i].name : i \in DOMAIN config.routes}
              /\ \A i \in DOMAIN config.routes : byName[config.routes[i].name] = config.routes[i]
<1>. DEFINE routes == config.routes
            last(name) == CHOOSE i \in DOMAIN routes :
                            /\ routes[i].name = name
                            /\ \A j \in DOMAIN routes : routes[j].name = name => j <= i
<1>1. \A i, j \in DOMAIN routes : routes[i].name = routes[j].name => i = j
  BY DEF ValidConfigs, Valid
<1>2. DOMAIN routes \subseteq Nat
  BY ConfigsAssumption
<1>3. ASSUME NEW i \in DOMAIN routes PROVE last(routes[i].name) = i
  <2>. HIDE DEF routes
  <2>1. i <= i
    BY <1>2
  <2>2. /\ i \in DOMAIN routes /\ routes[i].name = routes[i].name
        /\ \A j \in DOMAIN routes : routes[j].name = routes[i].name => j <= i
    BY <1>1, <2>1
  <2>. QED  BY <1>1, <2>2
<1>4. RoutesByName(routes) = [name \in {routes[i].name : i \in DOMAIN routes} |->
                                routes[last(name)]]
  BY DEF RoutesByName
<1>. HIDE DEF last, routes
<1>5. \A i \in DOMAIN routes : RoutesByName(routes)[routes[i].name] = routes[i]
  BY <1>3, <1>4
<1>. QED  BY <1>4, <1>5 DEF routes

\* A difference that is empty has overlooked no route.
LEMMA EmptyIsSameRoutes ==
    ASSUME NEW old \in ValidConfigs, NEW new \in ValidConfigs, IsEmpty(Diff(old, new)),
           NEW i \in DOMAIN old.routes
    PROVE  \E j \in DOMAIN new.routes : new.routes[j] = old.routes[i]
<1>. DEFINE before == RoutesByName(old.routes)
            after == RoutesByName(new.routes)
            name == old.routes[i].name
<1>1. Added(after, before) = {} /\ Changed(before, after) = {}
  BY DEF IsEmpty, Diff
<1>2. name \in DOMAIN before /\ before[name] = old.routes[i]
  BY RouteUnderName
<1>3. name \in DOMAIN after /\ after[name] = before[name]
  <2>. HIDE DEF before, after, name
  <2>. QED  BY <1>1, <1>2 DEF Added, Changed
<1>4. DOMAIN after = {new.routes[j].name : j \in DOMAIN new.routes}
      /\ \A j \in DOMAIN new.routes : after[new.routes[j].name] = new.routes[j]
  BY RouteUnderName
<1>5. PICK j \in DOMAIN new.routes : new.routes[j].name = name
  <2>. HIDE DEF before, after, name
  <2>. QED  BY <1>3, <1>4
<1>. QED
  <2>. HIDE DEF before, after, name
  <2>. QED  BY <1>2, <1>3, <1>4, <1>5

LEMMA EmptyBothWays ==
    ASSUME NEW old \in ValidConfigs, NEW new \in ValidConfigs, IsEmpty(Diff(old, new))
    PROVE  IsEmpty(Diff(new, old))
<1>1. /\ Diff(old, new).server = (old.server # new.server)
      /\ Diff(old, new).admin = (old.admin # new.admin)
      /\ Diff(old, new).routesAdded = Added(RoutesByName(old.routes), RoutesByName(new.routes))
      /\ Diff(old, new).routesRemoved = Added(RoutesByName(new.routes), RoutesByName(old.routes))
      /\ Diff(old, new).routesChanged = Changed(RoutesByName(old.routes), RoutesByName(new.routes))
      /\ Diff(new, old).routesAdded = Added(RoutesByName(new.routes), RoutesByName(old.routes))
      /\ Diff(new, old).routesRemoved = Added(RoutesByName(old.routes), RoutesByName(new.routes))
      /\ Diff(new, old).routesChanged = Changed(RoutesByName(new.routes), RoutesByName(old.routes))
  BY DEF Diff
<1>2. ASSUME NEW f, NEW g PROVE Changed(f, g) = Changed(g, f)
  BY DEF Changed
<1>3. ~RestartRequired(Diff(new, old))
  BY RestartIsStructure DEF IsEmpty, SameStructure
<1>4. Changed(RoutesByName(new.routes), RoutesByName(old.routes)) =
        Changed(RoutesByName(old.routes), RoutesByName(new.routes))
  BY <1>2
<1>. QED  BY <1>1, <1>3, <1>4 DEF IsEmpty

----------------------------------------------------------------------------
(* The same routes without ties answer alike, in whatever order they are declared. *)

LEMMA RoutesAreTable ==
    ASSUME NEW config \in ValidConfigs
    PROVE  IsTable(config.routes, Len(config.routes))
<1>1. /\ Len(config.routes) \in Nat /\ DOMAIN config.routes = 1..Len(config.routes)
      /\ \A i \in DOMAIN config.routes :
           /\ config.routes[i].priority \in Int
           /\ config.routes[i].path \in Seq(Characters)
  BY ConfigsAssumption
<1>. QED  BY <1>1, BytesInNat DEF IsTable

\* The answer is a route that matches and that no other one precedes.
LEMMA AnswerIsFirst ==
    ASSUME NEW config \in ValidConfigs, NEW q
    PROVE  LET routes == config.routes
               answer == FindMatchingRoute(routes, q)
           IN \/ answer = None /\ \A i \in DOMAIN routes : ~RouteMatches(routes[i], q)
              \/ \E p \in DOMAIN routes :
                   /\ answer = routes[p] /\ RouteMatches(routes[p], q)
                   /\ \A j \in DOMAIN routes :
                        j # p /\ RouteMatches(routes[j], q) => ~Before(routes[j], routes[p])
<1>. DEFINE routes == config.routes
            n == Len(routes)
            ordered == SortRoutes(routes)
            k == Position(ordered, q)
            p == Place(routes, k)
<1>1. IsTable(routes, n)
  BY RoutesAreTable
<1>2. DOMAIN routes = 1..n /\ n \in Nat
  BY <1>1 DEF IsTable
<1>3. FindMatchingRoute(routes, q) = IF k = 0 THEN None ELSE ordered[k]
  BY DEF FindMatchingRoute
<1>4. \/ k = 0 /\ \A i \in 1..n : ~RouteMatches(routes[i], q)
      \/ /\ k \in 1..n /\ p \in 1..n
         /\ ordered[k] = routes[p]
         /\ RouteMatches(routes[p], q)
         /\ \A j \in 1..n : j # p /\ RouteMatches(routes[j], q) => p \in Ahead(routes, j)
  <2>. HIDE DEF routes, n
  <2>. QED  BY <1>1, FirstIsAhead
<1>5. ASSUME NEW i \in 1..n, NEW j \in 1..n, i \in Ahead(routes, j)
      PROVE  ~Before(routes[j], routes[i])
  <2>1. /\ Before(routes[i], routes[j]) \/ ~Before(routes[j], routes[i])
        /\ routes[i].priority \in Int /\ Bytes(routes[i].path) \in Nat
        /\ routes[j].priority \in Int /\ Bytes(routes[j].path) \in Nat
    BY <1>1, <1>5 DEF Ahead, IsTable
  <2>. QED  BY <2>1 DEF Before
<1>6. CASE k = 0
  BY <1>2, <1>3, <1>4, <1>6
<1>7. CASE k # 0
  <2>. HIDE DEF routes, n, ordered, k, p
  <2>1. /\ p \in DOMAIN routes /\ FindMatchingRoute(routes, q) = routes[p]
        /\ RouteMatches(routes[p], q)
        /\ \A j \in DOMAIN routes :
             j # p /\ RouteMatches(routes[j], q) => ~Before(routes[j], routes[p])
    BY <1>2, <1>3, <1>4, <1>5, <1>7
  <2>. QED  BY <2>1 DEF routes
<1>. QED  BY <1>6, <1>7

LEMMA SameRoutesSameAnswer ==
    ASSUME NEW old \in ValidConfigs, NEW new \in ValidConfigs, IsEmpty(Diff(old, new)),
           \A i, j \in DOMAIN old.routes : i # j => ~Tied(old.routes[i], old.routes[j]),
           NEW q
    PROVE  FindMatchingRoute(old.routes, q) = FindMatchingRoute(new.routes, q)
<1>. DEFINE before == old.routes
            after == new.routes
<1>1. /\ \A i \in DOMAIN before : \E j \in DOMAIN after : after[j] = before[i]
      /\ \A j \in DOMAIN after : \E i \in DOMAIN before : before[i] = after[j]
  BY EmptyIsSameRoutes, EmptyBothWays
<1>2. \/ /\ FindMatchingRoute(before, q) = None
         /\ \A i \in DOMAIN before : ~RouteMatches(before[i], q)
      \/ \E p \in DOMAIN before :
           /\ FindMatchingRoute(before, q) = before[p] /\ RouteMatches(before[p], q)
           /\ \A j \in DOMAIN before :
                j # p /\ RouteMatches(before[j], q) => ~Before(before[j], before[p])
  BY AnswerIsFirst
<1>3. \/ /\ FindMatchingRoute(after, q) = None
         /\ \A i \in DOMAIN after : ~RouteMatches(after[i], q)
      \/ \E p \in DOMAIN after :
           /\ FindMatchingRoute(after, q) = after[p] /\ RouteMatches(after[p], q)
           /\ \A j \in DOMAIN after :
                j # p /\ RouteMatches(after[j], q) => ~Before(after[j], after[p])
  BY AnswerIsFirst
<1>4. ASSUME NEW i \in DOMAIN before, NEW j \in DOMAIN before, i # j,
             ~Before(before[j], before[i])
      PROVE  Before(before[i], before[j])
  <2>1. IsTable(before, Len(before))
    BY RoutesAreTable
  <2>2. /\ before[i].priority \in Int /\ Bytes(before[i].path) \in Nat
        /\ before[j].priority \in Int /\ Bytes(before[j].path) \in Nat
    BY <2>1 DEF IsTable
  <2>3. ~Tied(before[i], before[j])
    BY <1>4
  <2>. QED  BY <1>4, <2>2, <2>3 DEF Tied, Before
<1>. SUFFICES FindMatchingRoute(before, q) = FindMatchingRoute(after, q)
  OBVIOUS
<1>. HIDE DEF before, after
<1>5. CASE \A i \in DOMAIN before : ~RouteMatches(before[i], q)
  BY <1>1, <1>2, <1>3, <1>5
<1>6. CASE \E i \in DOMAIN before : RouteMatches(before[i], q)
  <2>1. PICK p \in DOMAIN before :
          /\ FindMatchingRoute(before, q) = before[p] /\ RouteMatches(before[p], q)
          /\ \A j \in DOMAIN before :
               j # p /\ RouteMatches(before[j], q) => ~Before(before[j], before[p])
    BY <1>2, <1>6
  <2>2. PICK r \in DOMAIN after :
          /\ FindMatchingRoute(after, q) = after[r] /\ RouteMatches(after[r], q)
          /\ \A j \in DOMAIN after :
               j # r /\ RouteMatches(after[j], q) => ~Before(after[j], after[r])
    BY <1>1, <1>3, <1>6
  <2>3. PICK s \in DOMAIN before : before[s] = after[r]
    BY <1>1
  <2>4. PICK t \in DOMAIN after : after[t] = before[p]
    BY <1>1
  <2>5. s = p
    <3>. SUFFICES ASSUME s # p PROVE FALSE
      OBVIOUS
    <3>1. RouteMatches(before[s], q) /\ ~Before(before[s], before[p])
      BY <2>1, <2>2, <2>3
    <3>2. Before(before[p], before[s])
      BY <1>4, <3>1
    <3>3. CASE t = r
      BY <2>3, <2>4, <3>1, <3>2, <3>3
    <3>4. CASE t # r
      BY <2>1, <2>2, <2>3, <2>4, <3>2, <3>4
    <3>. QED  BY <3>3, <3>4
  <2>. QED  BY <2>1, <2>2, <2>3, <2>5
<1>. QED  BY <1>5, <1>6

\* For any configurations: what the page says of a difference stays true. "Structural"
\* is what a running process could not take over, "same" is the same routes, which
\* answer every request alike unless two of them tie.
THEOREM DiffAlwaysTrue == Spec => []DiffStaysTrue
<1>1. IInv => DiffStaysTrue
  <2>. SUFFICES ASSUME IInv, fragment.pc = "shown", fragment.message # "error" PROVE DiffStaysTrue
    BY DEF DiffStaysTrue
  <2>. DEFINE old == history[fragment.from]
              new == history[fragment.to]
  <2>1. /\ {fragment.from, fragment.to} \subseteq DOMAIN history
        /\ fragment.message = Message(Diff(old, new))
    BY DEF IInv, FragmentInv
  <2>2. old \in ValidConfigs /\ new \in ValidConfigs
    BY <2>1 DEF IInv, RegistryInv
  <2>. HIDE DEF old, new
  <2>3. fragment.message = "structural" <=> ~SameStructure(old, new)
    BY <2>1, <2>2, RestartIsStructure DEF Message, IsEmpty
  <2>4. ASSUME fragment.message = "same"
        PROVE  /\ ToSet(old.routes) = ToSet(new.routes)
               /\ \/ \E i, j \in DOMAIN old.routes :
                       i # j /\ Tied(old.routes[i], old.routes[j])
                  \/ \A q : FindMatchingRoute(old.routes, q) = FindMatchingRoute(new.routes, q)
    <3>1. IsEmpty(Diff(old, new))
      BY <2>1, <2>4 DEF Message
    <3>2. IsEmpty(Diff(new, old))
      BY <2>2, <3>1, EmptyBothWays
    <3>3. ToSet(old.routes) = ToSet(new.routes)
      BY <2>2, <3>1, <3>2, EmptyIsSameRoutes DEF ToSet
    <3>4. (\A i, j \in DOMAIN old.routes : i # j => ~Tied(old.routes[i], old.routes[j])) =>
            \A q : FindMatchingRoute(old.routes, q) = FindMatchingRoute(new.routes, q)
      BY <2>2, <3>1, SameRoutesSameAnswer
    <3>. QED  BY <3>3, <3>4
  <2>. QED  BY <2>3, <2>4, Zenon DEF DiffStaysTrue, old, new
<1>. QED  BY <1>1, PagesConsistent, PTL
=============================================================================
