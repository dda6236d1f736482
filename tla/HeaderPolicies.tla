--------------------------- MODULE HeaderPolicies ---------------------------
(***************************************************************************)
(* The headers of proxied requests and responses (crates/lungyam-proxy/    *)
(* src/lib.rs): a request takes the next id, is matched and keeps its      *)
(* route; its headers are transformed when it is sent on and those of the  *)
(* response when that comes back, while the policies of the route may be   *)
(* replaced in between.                                                    *)
(*                                                                         *)
(* Headers are a function from the lower-case names to values: Pingora's   *)
(* insert_header replaces every header of the name. A policy spells names  *)
(* as it likes; the spellings of a BTreeMap come in byte order.            *)
(***************************************************************************)
EXTENDS Naturals, Sequences, SequencesExt

CONSTANTS
    Unset,              \* what is not there
    Requests,
    Spellings,          \* the spellings of header names in byte order, a sequence
    Lower,              \* spelling -> name
    RequestId, RouteName, AltSvc,   \* the names the gateway itself uses
    Client, Backend,    \* headers a client sends, headers a backend answers with
    Policies,           \* records of the route's name and its two transforms
    Id                  \* number of a request -> the value of its id

ASSUME NamesAssumption == RequestId \notin {RouteName, AltSvc}

ASSUME SpellingsAssumption ==
    /\ Spellings \in Seq(ToSet(Spellings))
    /\ \A p \in Policies : p.request.remove \cup p.response.remove \subseteq ToSet(Spellings)

\* The numbers of 64 bits do not come round.
ASSUME IdAssumption ==
    /\ DOMAIN Id \subseteq Nat
    /\ \A i, j \in DOMAIN Id : Id[i] = Id[j] => i = j

VARIABLES
    policy,     \* the route's policies in the runtime status
    sequence,   \* request_sequence
    request     \* each request's context and what was sent for it

proxying == <<policy, sequence, request>>

NewRequest == [pc |-> "idle", id |-> Unset, route |-> Unset, client |-> Unset, sent |-> Unset,
               backend |-> Unset, answer |-> Unset]

ProxyInit ==
    /\ policy \in Policies
    /\ sequence = 1
    /\ request = [r \in Requests |-> NewRequest]

----------------------------------------------------------------------------

RemoveHeader(headers, name) == [n \in DOMAIN headers \ {name} |-> headers[n]]

InsertHeader(headers, name, value) ==
    [n \in DOMAIN headers \cup {name} |-> IF n = name THEN value ELSE headers[n]]

RemoveNth(headers, transform, i) ==
    IF Spellings[i] \in transform.remove THEN RemoveHeader(headers, Lower[Spellings[i]])
    ELSE headers

InsertNth(headers, transform, i) ==
    IF Spellings[i] \in DOMAIN transform.add
    THEN InsertHeader(headers, Lower[Spellings[i]], transform.add[Spellings[i]])
    ELSE headers

RemoveLoop(headers, transform) ==
    LET after[i \in 0..Len(Spellings)] ==
          IF i = 0 THEN headers ELSE RemoveNth(after[i - 1], transform, i)
    IN after

InsertLoop(headers, transform) ==
    LET after[i \in 0..Len(Spellings)] ==
          IF i = 0 THEN headers ELSE InsertNth(after[i - 1], transform, i)
    IN after

\* apply_request_headers and apply_response_headers: one loop, then the other.
Apply(headers, transform) ==
    InsertLoop(RemoveLoop(headers, transform)[Len(Spellings)], transform)[Len(Spellings)]

----------------------------------------------------------------------------

NewContext(r) ==
    /\ request[r].pc = "idle" /\ sequence \in DOMAIN Id
    /\ \E headers \in Client :
         request' = [request EXCEPT ![r].pc = "new", ![r].id = Id[sequence],
                                    ![r].client = headers]
    /\ sequence' = sequence + 1
    /\ UNCHANGED policy

Match(r) ==
    /\ request[r].pc = "new"
    /\ request' = [request EXCEPT ![r].pc = "matched", ![r].route = policy]
    /\ UNCHANGED <<policy, sequence>>

\* /health, no route, a body too large or no budget: no header is touched.
AnswerItself(r) ==
    /\ request[r].pc = "new"
    /\ request' = [request EXCEPT ![r].pc = "refused"]
    /\ UNCHANGED <<policy, sequence>>

\* Mutant: the gateway's headers are set before the policy is applied.
UpstreamRequestFilterEarly(headers, context) ==
    Apply(InsertHeader(InsertHeader(headers, RequestId, context.id), RouteName, context.route.name),
          context.route.request)

UpstreamRequestFilter(headers, context) ==
    InsertHeader(InsertHeader(Apply(headers, context.route.request), RequestId, context.id),
           RouteName, context.route.name)

SendUpstream(r) ==
    /\ request[r].pc = "matched"
    /\ request' = [request EXCEPT ![r].pc = "sent",
                     ![r].sent = UpstreamRequestFilter(request[r].client, request[r])]
    /\ UNCHANGED <<policy, sequence>>

ConnectFails(r) ==
    /\ request[r].pc = "matched"
    /\ request' = [request EXCEPT ![r].pc = "refused"]
    /\ UNCHANGED <<policy, sequence>>

\* Mutant: the policies are those of the moment.
ResponseFilterNow(headers, context) ==
    RemoveHeader(InsertHeader(Apply(headers, policy.response), RequestId, context.id), AltSvc)

ResponseFilter(headers, context) ==
    RemoveHeader(InsertHeader(Apply(headers, context.route.response), RequestId, context.id), AltSvc)

SendAnswer(r) ==
    /\ request[r].pc = "sent"
    /\ \E headers \in Backend :
         request' = [request EXCEPT ![r].pc = "answered", ![r].backend = headers,
                                    ![r].answer = ResponseFilter(headers, request[r])]
    /\ UNCHANGED <<policy, sequence>>

ApplyPolicies ==
    /\ policy' \in Policies
    /\ UNCHANGED <<sequence, request>>

ProxyNext ==
    \/ ApplyPolicies
    \/ \E r \in Requests :
         \/ NewContext(r) \/ Match(r) \/ AnswerItself(r)
         \/ SendUpstream(r) \/ ConnectFails(r) \/ SendAnswer(r)

ProxySpec == ProxyInit /\ [][ProxyNext]_proxying

----------------------------------------------------------------------------

Names == {Lower[Spellings[i]] : i \in DOMAIN Spellings}

Sent(r) == request[r].pc \in {"sent", "answered"}
Answered(r) == request[r].pc = "answered"

\* What a transform leaves, name by name: the value added last if any, nothing
\* if removed, otherwise what was there.
Value(headers, transform, name) ==
    LET adding == {i \in DOMAIN Spellings :
                     Spellings[i] \in DOMAIN transform.add /\ Lower[Spellings[i]] = name}
    IN IF adding # {} THEN transform.add[Spellings[CHOOSE i \in adding : \A j \in adding : j <= i]]
       ELSE IF name \in {Lower[s] : s \in transform.remove} \/ name \notin DOMAIN headers
       THEN Unset ELSE headers[name]

Get(headers, name) == IF name \in DOMAIN headers THEN headers[name] ELSE Unset

\* A request and its answer are changed by the policies the request was matched
\* with, whatever replaced them since, and in nothing else but the gateway's
\* own headers.
ChangedAsConfigured ==
    \A r \in Requests :
      LET c == request[r]
      IN /\ Sent(r) => \A name \in Names \ {RequestId, RouteName} :
              Get(c.sent, name) = Value(c.client, c.route.request, name)
         /\ Answered(r) => \A name \in Names \ {RequestId, AltSvc} :
              Get(c.answer, name) = Value(c.backend, c.route.response, name)

\* The backend and the client see the same id, nobody else's, whatever the
\* client sent and the policies say; and the backend sees the route's name.
IdsAgree ==
    \A r \in Requests : Sent(r) =>
      /\ Get(request[r].sent, RouteName) = request[r].route.name
      /\ Answered(r) => Get(request[r].answer, RequestId) = Get(request[r].sent, RequestId)
      /\ \A s \in Requests \ {r} : Sent(s) =>
           Get(request[r].sent, RequestId) # Get(request[s].sent, RequestId)
=============================================================================
