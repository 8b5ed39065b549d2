--------------------------- MODULE MCRateLimiter ---------------------------
(* A small instance of RateLimiter: two addresses, half seconds *)
EXTENDS RateLimiter, TLC

Symmetry == Permutations(Requests) \cup Permutations(Addresses)

=============================================================================
