----------------------------- MODULE MCSessions -----------------------------
(***************************************************************************)
(* Small instances of Sessions: one user, three token values, one or two    *)
(* tabs, two calls at once.                                                 *)
(***************************************************************************)
EXTENDS Sessions, TLC

CONSTANTS a, tab1, tab2, c1, c2

OneUser == {a}
ThreeTokens == 1..3
AllOfA == [t \in Tokens |-> a]
OneTab == {tab1}
TwoTabs == {tab1, tab2}
TwoCalls == {c1, c2}

Interchangeable == Permutations(Tabs) \cup Permutations(Calls)
=============================================================================
