---------------------------- MODULE MCFormEditing ----------------------------
(* Two routes that tie, written by hand, and forms with and without spaces. *)
EXTENDS FormEditing

CONSTANTS a, b, padB, u, v, padV, host, padHost, e, padE, GET, padGET, xId, badName,
          one, listen, loopback

MCTrimmed ==
    [t \in {padB, padV, padHost, padE, padGET} |->
       CASE t = padB -> b [] t = padV -> v [] t = padHost -> host
         [] t = padE -> e [] t = padGET -> GET]
MCCharacters == {Slash, one}
MCSocketAddresses == {loopback}
MCLoopback == {loopback}
MCHeaderNames == {xId}
MCHeaderValues == {one}

Written(name, hostName) ==
    [name |-> name, host |-> hostName, path |-> <<Slash, one>>, methods |-> {}, upstream |-> u,
     priority |-> 0, request |-> NoHeaders, response |-> NoHeaders, limit |-> None,
     max_body |-> None]

MCFirstConfig ==
    [server |-> listen,
     admin |-> [enabled |-> TRUE, listen |-> loopback, read_only |-> FALSE],
     upstreams |-> [n \in {u} |-> [endpoints |-> <<padE>>, connect |-> 0, read |-> None,
                                   write |-> None, interval |-> 5]],
     routes |-> <<Written(padB, None), Written(a, Empty)>>]

Plain ==
    [page |-> "routes", operation |-> "create", original |-> Empty, name |-> b,
     host |-> Empty, path |-> <<Slash, one>>, methods |-> <<>>, upstream |-> u, priority |-> None,
     request_add |-> <<>>, request_remove |-> <<>>, response_add |-> <<>>,
     response_remove |-> <<>>, requests |-> None, window |-> None, max_body |-> None]

Line(name, value) == [name |-> name, value |-> value]

Pool ==
    [page |-> "upstreams", operation |-> "create", original |-> Empty, upstream_name |-> padV,
     endpoints |-> <<padE, Empty, e>>, connect |-> None, read |-> None, write |-> 1,
     interval |-> 5]

MCNewForms ==
    {Plain, [Plain EXCEPT !.operation = "", !.name = padB, !.upstream = padV],
     [Plain EXCEPT !.host = padHost, !.methods = <<padGET, Empty>>, !.requests = 1,
                   !.window = 1, !.max_body = 0],
     [Plain EXCEPT !.request_add = <<None, Line(xId, one)>>, !.response_remove = <<xId, Empty>>],
     [Plain EXCEPT !.requests = 1], [Plain EXCEPT !.priority = Junk],
     [Plain EXCEPT !.request_add = <<Junk>>],
     [Plain EXCEPT !.request_add = <<Line(xId, one), Line(xId, one)>>],
     [Plain EXCEPT !.response_add = <<Line(badName, one)>>],
     [Plain EXCEPT !.operation = "update", !.original = a],
     [Plain EXCEPT !.operation = "update", !.original = b, !.name = a],
     Pool, [Pool EXCEPT !.upstream_name = u], [Pool EXCEPT !.original = v],
     [Pool EXCEPT !.original = u], [Pool EXCEPT !.interval = None],
     [Pool EXCEPT !.operation = "update", !.original = v],
     [Pool EXCEPT !.operation = "update", !.original = u, !.upstream_name = u, !.write = 0],
     [Pool EXCEPT !.endpoints = <<Empty>>]}
MCPriorities == {None, 1}
MCPaths == {<<>>, <<one>>, <<Slash, one, one>>}
MCIntervals == {Junk, 9}
=============================================================================
