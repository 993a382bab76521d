---------------------------- MODULE MCDateSearch ----------------------------
(***************************************************************************)
(* Every search of MCSearchWindow; two of them are carried on with, over    *)
(* three resorts of which two share an airport.                             *)
(***************************************************************************)
EXTENDS DateSearch, MCSearchWindow

CONSTANTS a, b, c

ThreeResorts == <<a, b, c>>
FitOf == [r \in Resorts |-> CASE r = a -> 2 [] r = b -> 3 [] r = c -> 1]
AppealOf == [r \in Resorts |-> CASE r = a -> 1 [] r = b -> 2 [] r = c -> 3]
AirportOf == [r \in Resorts |-> IF r = c THEN "GVA" ELSE "INN"]
FlightOf == [r \in Resorts |-> 3]
LodgingOf == [r \in Resorts |->
                [high \in BOOLEAN |->
                   (CASE r = a -> 2 [] r = b -> 4 [] r = c -> 3) + (IF high THEN 2 ELSE 0)]]
Late == 17..27

\* Three Saturdays, and three days in a row.
Search(earliest, latest, weekdays) ==
  [form |-> [earliest |-> earliest, latest |-> latest, nights |-> 2, step |-> 1, weekdays |-> weekdays],
   floor |-> 0]
SaturdaysAndDays == {Search(5, 26, {5}), Search(10, 14, {})}

Wants(budgets, resorts, pinned, live, overBudget) ==
  [budget : budgets, resorts : resorts, pinned : pinned, live : live, overBudget : overBudget]

AskedFor ==
  Wants({4, 6, 7}, {Resorts}, {FALSE}, {TRUE}, {TRUE}) \cup
  Wants({5}, SUBSET Resorts \ {{}}, BOOLEAN, {FALSE}, BOOLEAN) \cup
  Wants({6}, {{b}}, {TRUE}, {TRUE}, {FALSE})
=============================================================================
