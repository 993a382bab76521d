--------------------------- MODULE MCLivePricing ---------------------------
(***************************************************************************)
(* A small instance of LivePricing: one trip to a resort with two airports, *)
(* three providers and a cache with room for two of their answers.          *)
(***************************************************************************)
EXTENDS LivePricing, TLC

CONSTANTS s1, s2, t1

TwoSearches == {s1, s2}
OneTrip == {t1}
AllKeys == Providers \X Trips

Interchangeable == Permutations(Searches)
=============================================================================
