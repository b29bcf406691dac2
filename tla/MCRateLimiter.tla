---------------------------- MODULE MCRateLimiter ----------------------------
(* RateLimiter for TLC: requests are interchangeable. *)
EXTENDS RateLimiter, TLC

Interchangeable == Permutations(Requests)
=============================================================================
