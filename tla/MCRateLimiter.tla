--------------------------- MODULE MCRateLimiter ---------------------------
EXTENDS RateLimiter, TLC

\* Nothing tells one of the other clients, request or cell from another.
Symmetry == Permutations(Clients \ {Watched}) \cup Permutations(Requests) \cup Permutations(Cells)
=============================================================================
