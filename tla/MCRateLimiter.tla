---------------------------- MODULE MCRateLimiter ----------------------------
(***************************************************************************)
(* Instances of RateLimiter for TLC: callers and users are interchangeable *)
(***************************************************************************)
EXTENDS RateLimiter, TLC

Symmetry == Permutations(Callers) \cup Permutations(Users)

=============================================================================
