--------------------------- MODULE MCRateLimiter ---------------------------
(* Instances of RateLimiter for TLC.                                       *)
EXTENDS RateLimiter, TLC

\* Keys and workers are interchangeable.
Symmetry == Permutations(Keys) \cup Permutations(Workers)
=============================================================================
