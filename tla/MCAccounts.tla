----------------------------- MODULE MCAccounts -----------------------------
(***************************************************************************)
(* Two requests, three rows; g owns two mailboxes, one of them spelled two  *)
(* ways, and two people choose passwords.                                   *)
(***************************************************************************)
EXTENDS Accounts, TLC

CONSTANTS g, k, p, q, h1, h2

LowerOf == [e \in {"Dor", "dor", "dan", "ann"} |-> IF e = "Dor" THEN "dor" ELSE e]
HolderOf == [e \in {"Dor", "dor", "dan", "ann"} |-> IF e = "ann" THEN k ELSE g]

Symmetric == Permutations({p, q}) \cup Permutations({h1, h2})
=============================================================================
