---------------------------- MODULE MCRateLimiter ----------------------------
(* A small instance of RateLimiter for TLC. *)
EXTENDS RateLimiter, TLC

CONSTANTS q1, q2, q3, api

MCRequests == {q1, q2, q3}
MCRoutes == {api}
MCLimits == {[requests |-> 1, window |-> 3], [requests |-> 2, window |-> 2]}

RequestSymmetry == Permutations(MCRequests)
=============================================================================
