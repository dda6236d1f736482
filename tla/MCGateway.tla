------------------------------ MODULE MCGateway ------------------------------
(* Instances of Gateway for TLC. *)
EXTENDS Gateway, TLC

CONSTANTS r1, r2, t1, t2, a1, a2, a3, b1

MCCharacters == {"/", "v", "u", "w", "h"}
MCHealthPath == <<"/", "h">>

Route(name, path, upstream, priority) ==
    [name |-> name, host |-> None, path |-> path, methods |-> {}, upstream |-> upstream,
     priority |-> priority, bodyLimit |-> None, limited |-> FALSE]

Config(routes, upstreams) == [listeners |-> "default", routes |-> routes, upstreams |-> upstreams]

Get(path, length) == [host |-> None, path |-> path, method |-> "get", length |-> length]

\* Hot swap: candidates that reorder, retarget and replace routes, and candidates
\* that add a pool, take one away or change one, or that are not valid.
TwoPools == [main |-> <<a1>>, spare |-> <<b1>>]

Shallow == Route("shallow", <<"/", "v">>, "spare", 0)
Deep == [Route("deep", <<"/", "v", "/", "u">>, "main", 0) EXCEPT !.bodyLimit = 1, !.limited = TRUE]
Everything == Route("everything", <<"/">>, "spare", 1)

SwapInitial == Config(<<Shallow, Deep>>, TwoPools)
SwapCandidates ==
    {Config(<<Everything, Deep>>, TwoPools),
     Config(<<[Deep EXCEPT !.upstream = "spare"], [Shallow EXCEPT !.upstream = "main"]>>, TwoPools),
     Config(<<Shallow, [Deep EXCEPT !.upstream = "new"]>>, [main |-> <<a1>>, spare |-> <<b1>>, new |-> <<a2>>]),
     Config(<<Deep, [Shallow EXCEPT !.upstream = "main"]>>, [main |-> <<a1>>]),
     Config(<<Deep, Deep>>, TwoPools),
     Config(<<Route("stray", <<"/", "v">>, "nowhere", 0)>>, TwoPools)}
SwapQueries ==
    {Get(<<"/", "v", "/", "u">>, None), Get(<<"/", "v", "/", "u">>, 2),
     Get(<<"/", "v", "w">>, None), Get(MCHealthPath, None)}
SwapAddresses == {a1, b1}

Literal == [e \in {a1, a2, a3, b1} |-> {e}]

\* Failover: one pool of two endpoints that come and go.
PoolOfTwo == Config(<<Route("all", <<"/">>, "main", 0)>>, [main |-> <<a1, a2>>])
AnyQuery == {Get(<<"/", "v">>, None)}

MCRequests == {r1, r2}
MCReloaders == {t1, t2}
MCNone == {}
MCTwoAddresses == {a1, a2}

MCNames == {"shallow", "deep", "everything", "stray", "all"}
=============================================================================
