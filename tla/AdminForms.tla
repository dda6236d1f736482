----------------------------- MODULE AdminForms -----------------------------
(***************************************************************************)
(* From a form of the admin to a candidate configuration                   *)
(* (crates/lungyam-admin/src/route_forms.rs, route_stage.rs and            *)
(* upstream_stage.rs), and back: the prefilled form of a route or a pool.  *)
(*                                                                         *)
(* What may fail is the set of its results: empty for an error. Of the     *)
(* text of a field a form keeps what the code tells apart: a list field is *)
(* the sequence of its pieces, the headers to add are lines (None for a    *)
(* blank one, Junk without a colon, or a name and a value), and a number   *)
(* is None when blank, Junk when it does not parse. A duration is None     *)
(* also for "default", and its unit may be there or not.                   *)
(***************************************************************************)
EXTENDS Configuration

CONSTANT Junk       \* what does not parse

Pieces(texts) == {Trim(texts[i]) : i \in DOMAIN texts} \ {Empty}

NonEmpty(text) == IF Blank(text) THEN None ELSE Trim(text)

ParseOptional(number) == {number} \ {Junk}

ParseHeaders(lines, remove) ==
    LET used == {i \in DOMAIN lines : lines[i] # None}
        name == [i \in used |-> Trim(lines[i].name)]
    IN IF \/ \E i \in used : lines[i] = Junk
          \/ \E i \in used : name[i] = Empty
          \/ \E i, j \in used : i # j /\ name[i] = name[j]
       THEN {}
       ELSE {[add |-> [n \in {name[i] : i \in used} |->
                         Trim(lines[CHOOSE i \in used : name[i] = n].value)],
              remove |-> Pieces(remove)]}

\* Both numbers of a rate limit or neither.
ParseLimit(requests, window) ==
    IF Junk \in {requests, window} \/ (requests = None) # (window = None) THEN {}
    ELSE IF requests = None THEN {None}
    ELSE {[requests |-> requests, window |-> window]}

CandidateRoute(form) ==
    {[name |-> Trim(form.name), host |-> NonEmpty(form.host), path |-> form.path,
      methods |-> Pieces(form.methods), upstream |-> Trim(form.upstream),
      priority |-> IF priority = None THEN 0 ELSE priority,
      request |-> request, response |-> response, limit |-> limit, max_body |-> max_body] :
        priority \in ParseOptional(form.priority),
        max_body \in ParseOptional(form.max_body),
        request \in ParseHeaders(form.request_add, form.request_remove),
        response \in ParseHeaders(form.response_add, form.response_remove),
        limit \in ParseLimit(form.requests, form.window)}

\* Mutant: the candidate is not validated.
WithRoutesUnchecked(config, routes) == {[config EXCEPT !.routes = routes]}

WithRoutes(config, routes) ==
    {c \in {[config EXCEPT !.routes = routes]} : Valid(c)}

RouteCreated(config, form) ==
    UNION {WithRoutes(config, Append(config.routes, route)) : route \in CandidateRoute(form)}

\* Iterator::position of the route that has the original name.
Places(config, form) ==
    {i \in DOMAIN config.routes :
       /\ config.routes[i].name = Trim(form.original)
       /\ \A j \in 1..(i - 1) : config.routes[j].name # Trim(form.original)}

\* Mutant: an updated route goes to the end of the list.
RouteUpdatedLast(config, form) ==
    UNION {WithRoutes(config, Append(RemoveAt(config.routes, i), route)) :
             i \in Places(config, form), route \in CandidateRoute(form)}

RouteUpdated(config, form) ==
    UNION {WithRoutes(config, [config.routes EXCEPT ![i] = route]) :
             i \in Places(config, form), route \in CandidateRoute(form)}

RouteDeleted(config, form) ==
    IF Blank(form.original) THEN {}
    ELSE UNION {WithRoutes(config, RemoveAt(config.routes, i)) : i \in Places(config, form)}

----------------------------------------------------------------------------

OptionalDuration(d) == {d} \ {Junk, 0}

RequiredDuration(d) == {d} \ {Junk, 0, None}

\* The pieces that are not blank, in their order.
PiecesInOrder(texts) ==
    LET kept == {i \in DOMAIN texts : ~Blank(texts[i])}
    IN [n \in 1..Cardinality(kept) |->
          Trim(texts[CHOOSE i \in kept : n = Cardinality({j \in kept : j <= i})])]

UpstreamConfig(form) ==
    LET endpoints == PiecesInOrder(form.endpoints)
    IN {[endpoints |-> endpoints, connect |-> connect, read |-> read, write |-> write,
         interval |-> interval] :
           connect \in OptionalDuration(form.connect),
           read \in OptionalDuration(form.read),
           write \in OptionalDuration(form.write),
           interval \in {d \in RequiredDuration(form.interval) : endpoints # <<>>}}

WithUpstreams(config, upstreams) ==
    {c \in {[config EXCEPT !.upstreams = upstreams]} : Valid(c)}

\* BTreeMap::insert
Inserted(upstreams, name, pool) ==
    [n \in DOMAIN upstreams \cup {name} |-> IF n = name THEN pool ELSE upstreams[n]]

UpstreamCreated(config, form) ==
    LET name == Trim(form.upstream_name)
    IN IF name \in DOMAIN config.upstreams \cup {Empty} THEN {}
       ELSE UNION {WithUpstreams(config, Inserted(config.upstreams, name, pool)) :
                     pool \in UpstreamConfig(form)}

UpstreamUpdated(config, form) ==
    LET name == Trim(form.original)
    IN IF name = Empty \/ Trim(form.upstream_name) # name \/ name \notin DOMAIN config.upstreams
       THEN {}
       ELSE UNION {WithUpstreams(config, Inserted(config.upstreams, name, pool)) :
                     pool \in UpstreamConfig(form)}

\* Mutant: the routes to a deleted upstream go with it.
UpstreamDeletedCascade(config, form) ==
    LET name == Trim(form.upstream_name)
        rest == SelectSeq(config.routes, LAMBDA route : route.upstream # name)
    IN IF name \notin DOMAIN config.upstreams THEN {}
       ELSE WithUpstreams([config EXCEPT !.routes = rest],
                          [n \in DOMAIN config.upstreams \ {name} |-> config.upstreams[n]])

UpstreamDeleted(config, form) ==
    LET name == Trim(form.upstream_name)
    IN IF name = Empty \/ name \notin DOMAIN config.upstreams THEN {}
       ELSE WithUpstreams(config, [n \in DOMAIN config.upstreams \ {name} |->
                                     config.upstreams[n]])

\* Mutant: validation forgets that a new upstream needs a name of its own.
UpstreamValidatedAnyName(config, form) ==
    IF Blank(form.upstream_name) THEN {}
    ELSE UNION {WithUpstreams(config, Inserted(config.upstreams, Trim(form.upstream_name), pool)) :
                  pool \in UpstreamConfig(form)}

\* The route handler's own copy of the checks, for "validate-upstream".
UpstreamValidated(config, form) ==
    LET name == Trim(form.upstream_name)
        original == Trim(form.original)
        known == DOMAIN config.upstreams
    IN IF \/ name = Empty
          \/ original = Empty /\ name \in known
          \/ original # Empty /\ (original # name \/ original \notin known)
       THEN {}
       ELSE UNION {WithUpstreams(config, Inserted(config.upstreams, name, pool)) :
                     pool \in UpstreamConfig(form)}

----------------------------------------------------------------------------

\* The candidates of both staging handlers; any other operation is an error.
Candidates(config, form) ==
    LET create == form.operation \in {"", "create"}
    IN CASE form.page = "routes" /\ create -> RouteCreated(config, form)
         [] form.page = "routes" /\ form.operation = "update" -> RouteUpdated(config, form)
         [] form.page = "routes" /\ form.operation = "delete" -> RouteDeleted(config, form)
         [] form.page = "upstreams" /\ create -> UpstreamCreated(config, form)
         [] form.page = "upstreams" /\ form.operation = "update" -> UpstreamUpdated(config, form)
         [] form.page = "upstreams" /\ form.operation = "delete" -> UpstreamDeleted(config, form)
         [] OTHER -> {}

----------------------------------------------------------------------------
(* The prefilled forms. Lists are joined by a separator no piece holds. *)

Lines(headers) ==
    [i \in 1..Cardinality(DOMAIN headers.add) |->
       LET name == SetToSeq(DOMAIN headers.add)[i]
       IN [name |-> name, value |-> headers.add[name]]]

\* Mutant: the window of the rate limit is not rendered.
RenderRouteNoWindow(route) ==
    [page |-> "routes", operation |-> "update", original |-> route.name, name |-> route.name,
     host |-> IF route.host = None THEN Empty ELSE route.host, path |-> route.path,
     methods |-> SetToSeq(route.methods), upstream |-> route.upstream,
     priority |-> route.priority,
     request_add |-> Lines(route.request), request_remove |-> SetToSeq(route.request.remove),
     response_add |-> Lines(route.response), response_remove |-> SetToSeq(route.response.remove),
     requests |-> IF route.limit = None THEN None ELSE route.limit.requests,
     window |-> None, max_body |-> route.max_body]

RenderRoute(route) ==
    [page |-> "routes", operation |-> "update", original |-> route.name, name |-> route.name,
     host |-> IF route.host = None THEN Empty ELSE route.host, path |-> route.path,
     methods |-> SetToSeq(route.methods), upstream |-> route.upstream,
     priority |-> route.priority,
     request_add |-> Lines(route.request), request_remove |-> SetToSeq(route.request.remove),
     response_add |-> Lines(route.response), response_remove |-> SetToSeq(route.response.remove),
     requests |-> IF route.limit = None THEN None ELSE route.limit.requests,
     window |-> IF route.limit = None THEN None ELSE route.limit.window,
     max_body |-> route.max_body]

\* A timeout that is not set is rendered as "Default", any other with its unit.
RenderUpstream(name, pool) ==
    [page |-> "upstreams", operation |-> "update", original |-> name, upstream_name |-> name,
     endpoints |-> pool.endpoints, connect |-> pool.connect, read |-> pool.read,
     write |-> pool.write, interval |-> pool.interval]
=============================================================================
