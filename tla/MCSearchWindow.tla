--------------------------- MODULE MCSearchWindow ---------------------------
(***************************************************************************)
(* Small instances of SearchWindow: four weeks of dates, trips of two and   *)
(* seven nights, any day, Saturdays, Sundays or the weekend.                *)
(***************************************************************************)
EXTENDS SearchWindow

ShortAndLong == {2, 7}
WinterAndSummer == {0, 10}
OneToThree == {1, 3}
DayChoices == {{}, {5}, {6}, {5, 6}}
=============================================================================
