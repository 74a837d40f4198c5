----------------------------- MODULE MCRateLimit ------------------------------
(***************************************************************************)
(* A small instance of RateLimit: two requests in a window of two seconds, *)
(* of two ticks each, so that Retry-After is rounded.                      *)
(***************************************************************************)
EXTENDS RateLimit, TLC

CONSTANTS a, c1, c2

\* Pipelines are interchangeable, and no property is about one of them.
SameCalls == Permutations(Calls)
===============================================================================
