--------------------------- MODULE MCRateLimiter ---------------------------
(* RateLimiter with few requests, attempts and ticks.                      *)
EXTENDS RateLimiter, TLC

Symmetry == Permutations(Requests) \cup Permutations(Ips)
=============================================================================
