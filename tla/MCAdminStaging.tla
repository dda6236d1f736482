--------------------------- MODULE MCAdminStaging ---------------------------
(* One pool and a route, forms of every answer, and starts in every mode. *)
EXTENDS AdminStaging

CONSTANTS a, b, u, e, one, listen, loopback, public, r1, r2

MCTrimmed == [t \in {} |-> Empty]
MCCharacters == {Slash, one}
MCSocketAddresses == {loopback, public}
MCLoopback == {loopback}

Route(name, priority) ==
    [name |-> name, host |-> None, path |-> <<Slash, one>>, methods |-> {}, upstream |-> u,
     priority |-> priority, request |-> NoHeaders, response |-> NoHeaders, limit |-> None,
     max_body |-> None]

Pool(interval) ==
    [endpoints |-> <<e>>, connect |-> None, read |-> None, write |-> None,
     interval |-> interval]

Config(address, readOnly, interval, routes) ==
    [server |-> listen,
     admin |-> [enabled |-> TRUE, listen |-> address, read_only |-> readOnly],
     upstreams |-> [n \in {u} |-> Pool(interval)], routes |-> routes]

Tables == {<<>>, <<Route(a, 0)>>, <<Route(a, 1)>>, <<Route(b, 0)>>,
           <<Route(a, 0), Route(b, 0)>>, <<Route(a, 1), Route(b, 0)>>}

MCConfigs ==
    {Config(address, readOnly, interval, routes) :
       address \in {loopback, public}, readOnly \in BOOLEAN, interval \in {5, 9},
       routes \in Tables}

Writable == Config(loopback, FALSE, 5, <<Route(a, 0)>>)

MCHandWritten ==
    {Writable, [Writable EXCEPT !.admin.read_only = TRUE],
     [Writable EXCEPT !.admin.listen = public]}

RouteForm(operation, route) == [RenderRoute(route) EXCEPT !.operation = operation]

UpstreamForm(page, operation, interval) ==
    [RenderUpstream(u, Pool(interval)) EXCEPT !.page = page, !.operation = operation]

MCForms ==
    {RouteForm("create", Route(b, 0)), RouteForm("update", Route(a, 1)),
     RouteForm("delete", Route(b, 0)),
     UpstreamForm("upstreams", "update", 9), UpstreamForm("routes", "validate-upstream", 9)}

MCRequests == {r1, r2}
=============================================================================
