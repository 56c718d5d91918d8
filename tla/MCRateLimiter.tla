---------------------------- MODULE MCRateLimiter ----------------------------
(***************************************************************************)
(* RateLimiter on small instances.  Clients and API processes are          *)
(* interchangeable; only invariants are checked.                           *)
(***************************************************************************)
EXTENDS RateLimiter, TLC

Symmetry == Permutations(Clients) \cup Permutations(Apis)
=============================================================================
