---------------------------- MODULE FormEditing ----------------------------
(***************************************************************************)
(* A configuration edited with the forms of the admin, one accepted form   *)
(* after another: each is taken as staged, activated and loaded by a       *)
(* restart before the next page is opened. (AdminStaging has the steps in  *)
(* between.) The first configuration is written by hand in YAML, which     *)
(* allows more than a form does.                                           *)
(***************************************************************************)
EXTENDS AdminForms, Integers

CONSTANTS FirstConfig, NewForms, MaxRoutes, Priorities, Paths, Intervals

Numbers == Int \cup {None, Junk}

IsList(texts) == texts \in Seq(ToSet(texts))

IsHeaders(headers) == IsFiniteSet(DOMAIN headers.add) /\ IsFiniteSet(headers.remove)

\* Of a route what its place and its prefilled form depend on.
IsRoute(route) ==
    /\ route.priority \in Int /\ route.path \in Seq(Characters)
    /\ IsFiniteSet(route.methods) /\ IsHeaders(route.request) /\ IsHeaders(route.response)

IsConfig(config) ==
    /\ config = [server |-> config.server, admin |-> config.admin,
                 upstreams |-> config.upstreams, routes |-> config.routes]
    /\ IsMap(config.upstreams) /\ IsList(config.routes)
    /\ \A i \in DOMAIN config.routes : IsRoute(config.routes[i])
    /\ \A name \in DOMAIN config.upstreams : IsList(config.upstreams[name].endpoints)

IsForm(form) ==
    /\ form.page = "routes" =>
         /\ form.priority \in Numbers /\ form.path \in Seq(Characters)
         /\ IsList(form.methods)
         /\ IsList(form.request_add) /\ IsList(form.request_remove)
         /\ IsList(form.response_add) /\ IsList(form.response_remove)
    /\ form.page = "upstreams" => IsList(form.endpoints)

ASSUME NumbersAssumption == None # Junk /\ {None, Junk} \cap Int = {}

ASSUME FirstConfigAssumption == IsConfig(FirstConfig)

ASSUME FormsAssumption ==
    /\ \A form \in NewForms : IsForm(form)
    /\ Priorities \subseteq Numbers /\ Paths \subseteq Seq(Characters)

\* A line that adds a header is neither blank nor without a colon.
ASSUME LinesAssumption ==
    \A header \in HeaderNames, text \in HeaderValues :
        [name |-> header, value |-> text] \notin {None, Junk}

VARIABLES
    edited,     \* the configuration
    submitted   \* the form that was accepted last, or None

editing == <<edited, submitted>>

EditingInit == Valid(FirstConfig) /\ edited = FirstConfig /\ submitted = None

\* A prefilled form, with one field changed or none, or its delete button.
RouteEdits(route) ==
    LET prefilled == RenderRoute(route)
    IN {[prefilled EXCEPT !.priority = p] : p \in Priorities}
       \cup {[prefilled EXCEPT !.path = p] : p \in Paths}
       \cup {[prefilled EXCEPT !.operation = "delete"]}

UpstreamEdits(name, pool) ==
    LET prefilled == RenderUpstream(name, pool)
    IN {[prefilled EXCEPT !.interval = d] : d \in Intervals}
       \cup {[prefilled EXCEPT !.operation = "delete"]}

Edits ==
    (UNION {RouteEdits(edited.routes[i]) : i \in DOMAIN edited.routes}) \cup
    (UNION {UpstreamEdits(name, edited.upstreams[name]) : name \in DOMAIN edited.upstreams})

Submit(f) ==
    \E candidate \in Candidates(edited, f) :
      /\ Len(candidate.routes) <= MaxRoutes
      /\ edited' = candidate
      /\ submitted' = f

EditingNext == (\E f \in NewForms : Submit(f)) \/ (\E f \in Edits : Submit(f))

EditingSpec == EditingInit /\ [][EditingNext]_editing

----------------------------------------------------------------------------

\* What a form wrote survives a form: its prefilled form, submitted unchanged,
\* is accepted and changes nothing. (YAML can hold what a form cannot: names
\* with white space around them, an empty host, a timeout of zero.)
RoundTrip ==
    /\ \A i \in DOMAIN edited.routes :
         edited.routes[i] \notin ToSet(FirstConfig.routes) =>
           RouteUpdated(edited, RenderRoute(edited.routes[i])) = {edited}
    /\ \A name \in DOMAIN edited.upstreams :
         LET pool == edited.upstreams[name]
         IN (name \in DOMAIN FirstConfig.upstreams => pool # FirstConfig.upstreams[name]) =>
              UpstreamUpdated(edited, RenderUpstream(name, pool)) = {edited}

\* "Validate upstream" on the routes page and the handler that stages upstreams
\* check with code of their own, and agree on every form.
ValidatedCanBeStaged ==
    \A f \in {g \in NewForms \cup Edits : g.page = "upstreams" /\ g.operation # "delete"} :
      UpstreamValidated(edited, f) =
        IF Blank(f.original) THEN UpstreamCreated(edited, f) ELSE UpstreamUpdated(edited, f)

\* The order in which the routes other than the named ones are tried: every route
\* with itself and with those after it. (No two routes share a name.)
Tried(c, names) ==
    LET sorted == SortRoutes(c.routes)
        others == {n \in DOMAIN sorted : sorted[n].name \notin names}
        inOrder == {p \in others \X others : p[1] <= p[2]}
    IN {<<sorted[p[1]], sorted[p[2]]>> : p \in inOrder}

\* A form changes the one thing it names: the other routes are the same and
\* tried in the same order, and a change of an upstream loses no route.
OneChange ==
    [][IF submitted'.page = "routes"
       THEN LET names == {Trim(submitted'.original), Trim(submitted'.name)}
            IN SameStructure(edited, edited') /\ Tried(edited', names) = Tried(edited, names)
       ELSE LET others == DOMAIN edited.upstreams \ {Trim(submitted'.upstream_name)}
            IN /\ edited'.routes = edited.routes
               /\ \A name \in others : edited'.upstreams[name] = edited.upstreams[name]]_editing

\* An update that leaves priority and path alone leaves the route where it is
\* in the order the routes are tried, also among routes that tie with it.
UpdateInPlace ==
    [][submitted'.operation = "update" /\ submitted'.page = "routes" =>
         \A i \in DOMAIN edited.routes :
           LET old == edited.routes[i]
               new == RoutesByName(edited'.routes)[Trim(submitted'.name)]
           IN (/\ old.name = Trim(submitted'.original)
               /\ old.priority = new.priority /\ Bytes(old.path) = Bytes(new.path)) =>
                \A n \in DOMAIN edited.routes :
                  SortRoutes(edited.routes)[n].name = old.name =>
                    SortRoutes(edited'.routes)[n].name = new.name]_editing
=============================================================================
