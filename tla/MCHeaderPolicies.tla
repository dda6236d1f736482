-------------------------- MODULE MCHeaderPolicies --------------------------
(* A header in two spellings, policies that touch the gateway's own headers. *)
EXTENDS HeaderPolicies

CONSTANTS X, x, requestId, requestID, routeName, altSvc, v1, v2, id1, id2, n1, n2, r1, r2

MCSpellings == <<X, requestID, altSvc, routeName, requestId, x>>
MCLower == [s \in ToSet(MCSpellings) |->
              CASE s = X -> x [] s = requestID -> requestId [] OTHER -> s]
MCClient == {[n \in {} |-> v1], [n \in {x, requestId} |-> v1]}
MCBackend == {[n \in {} |-> v1], [n \in {x, altSvc} |-> v2]}
NoChange == [add |-> [s \in {} |-> v1], remove |-> {}]
MCPolicies ==
    {[name |-> n1, request |-> NoChange, response |-> [add |-> [s \in {x} |-> v1], remove |-> {X}]],
     [name |-> n2, request |-> [add |-> [s \in {X, x} |-> IF s = X THEN v1 ELSE v2],
                                remove |-> {requestID, routeName}],
      response |-> [add |-> [s \in {requestID, altSvc} |-> v1], remove |-> {requestId, x}]]}
MCId == <<id1, id2>>
MCRequests == {r1, r2}
=============================================================================
