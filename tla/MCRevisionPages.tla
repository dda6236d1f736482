--------------------------- MODULE MCRevisionPages ---------------------------
(* Configurations that differ in a pool, in a route and in the order of routes. *)
EXTENDS RevisionPages

CONSTANTS a, b, u, e, one, listen, loopback

MCTrimmed == [t \in {} |-> Empty]
MCCharacters == {Slash, one}

Route(name, priority) ==
    [name |-> name, host |-> None, path |-> <<Slash, one>>, methods |-> {}, upstream |-> u,
     priority |-> priority, request |-> NoHeaders, response |-> NoHeaders, limit |-> None,
     max_body |-> None]

Config(interval, routes) ==
    [server |-> listen,
     admin |-> [enabled |-> TRUE, listen |-> loopback, read_only |-> FALSE],
     upstreams |-> [n \in {u} |-> [endpoints |-> <<e>>, connect |-> None, read |-> None,
                                   write |-> None, interval |-> interval]],
     routes |-> routes]

MCConfigs ==
    {Config(0, <<>>), Config(9, <<Route(a, 0), Route(b, 1)>>), Config(5, <<Route(a, 0)>>),
     Config(5, <<Route(a, 0), Route(b, 1)>>), Config(5, <<Route(b, 1), Route(a, 0)>>)}

MCInitialConfig == Config(5, <<Route(a, 0)>>)
=============================================================================
