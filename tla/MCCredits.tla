----------------------------- MODULE MCCredits -----------------------------
(***************************************************************************)
(* Small instances of Credits.  The allowance of 3 with costs 1, 2 and 4    *)
(* has an exact fit (1 + 2), an overdraft attempt (2 + 2) and a search that *)
(* no fresh day can pay for (4).                                            *)
(***************************************************************************)
EXTENDS Credits

CONSTANTS u1, h1, h2

OneUser == {u1}
TwoThreads == {h1, h2}
MixedCosts == {1, 2, 4}
=============================================================================
