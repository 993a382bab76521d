--------------------------- MODULE MCRateLimiter ---------------------------
(***************************************************************************)
(* Small instances of RateLimiter: two hits per window of three instants,   *)
(* a clock that runs through several windows, and waits of up to two.       *)
(***************************************************************************)
EXTENDS RateLimiter, TLC

CONSTANTS i1, k1, h1, h2, h3

OneInstance == {i1}
OneKey == {k1}
ThreeThreads == {h1, h2, h3}

ThreadSymmetry == Permutations(Threads)
=============================================================================
