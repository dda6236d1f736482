---------------------------- MODULE MCRouteLookup ----------------------------
(* Instances of RouteLookup: every table of up to three of eleven routes. *)
EXTENDS RouteLookup

MCCharacters == {"/", "a", "b", "h"}
MCHealthPath == <<"/", "h">>

H(name, spelling, port) == [name |-> name, spelling |-> spelling, port |-> port]
R(name, host, path, methods, priority) ==
    [name |-> name, host |-> host, path |-> path, methods |-> methods,
     upstream |-> "pool", priority |-> priority]

api == H("api.test", "api.test", None)
API == H("api.test", "API.test", None)

\* Ties in priority, ties in length with other paths, a path that another one
\* continues within a segment, trailing slashes, hosts with and without a port, methods.
MCRoutes ==
    {R("root", None, <<"/">>, {}, 0),
     R("root-get", None, <<"/">>, {"get"}, 0),
     R("root-high", None, <<"/">>, {"post"}, 1),
     R("a", None, <<"/", "a">>, {}, 0),
     R("a-api", api, <<"/", "a">>, {}, 0),
     R("a-port", H("api.test", "api.test", "80"), <<"/", "a">>, {}, 0),
     R("a-API-high", API, <<"/", "a">>, {"get"}, 1),
     R("b", None, <<"/", "b">>, {}, 0),
     R("a-slash", None, <<"/", "a", "/">>, {}, 0),
     R("a-b", None, <<"/", "a", "/", "b">>, {}, 0),
     R("ab", None, <<"/", "a", "b">>, {}, 0)}

MCTables ==
    {t \in UNION {[1..n -> MCRoutes] : n \in 0..3} : IsInjective(t)}

MCQueries ==
    [host: {None, api, H("api.test", "api.test", "80"), H("api.test", "API.test", "80")},
     path: {<<"/">>, <<"/", "a">>, <<"/", "a", "/">>, <<"/", "a", "/", "b">>, <<"/", "b">>,
            <<"/", "a", "b">>, <<"/", "a", "b", "/">>, MCHealthPath},
     method: {"get", "post"}]
=============================================================================
