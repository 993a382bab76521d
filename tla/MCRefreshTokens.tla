-------------------------- MODULE MCRefreshTokens --------------------------
(***************************************************************************)
(* Small instances of RefreshTokens: the sign-ins and rotations of one user *)
(* draw on three tokens.                                                    *)
(***************************************************************************)
EXTENDS RefreshTokens

CONSTANTS a, h1, h2

OneUser == {a}
ThreeTokens == 1..3
AllOfA == [t \in Tokens |-> a]
TwoHandlers == {h1, h2}
=============================================================================
