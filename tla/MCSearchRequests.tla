-------------------------- MODULE MCSearchRequests --------------------------
(***************************************************************************)
(* Small instances of SearchRequests: two handlers, one account of three    *)
(* credits, searches of one or two credits, one live-priced search a day.   *)
(***************************************************************************)
EXTENDS SearchRequests, TLC

CONSTANTS u1, h1, h2

OneUser == {u1}
TwoHandlers == {h1, h2}
SmallCosts == {1, 2}

HandlerSymmetry == Permutations(Callers)
=============================================================================
