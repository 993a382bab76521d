---------------------------- MODULE SearchWindow ----------------------------
(***************************************************************************)
(* Which start dates a date-range search tries, and what it costs.  The     *)
(* browser quotes a price for the form (SearchCard.tsx, pendingCost); the   *)
(* server clamps the window (search_trip_dates), walks it day by day        *)
(* (engine/date_search.candidate_start_dates) and charges for the dates it  *)
(* finds (credits.cost_for_candidate_dates).  A date is a day number.       *)
(***************************************************************************)
EXTENDS Integers, FiniteSetsExt

CONSTANTS
  LastDay,        \* bound: the dates are 0..LastDay
  Nights,         \* nights away (ski_days + 1)
  Steps,          \* step_days a client may send; the browser sends none (1)
  WeekdaySets,    \* start_weekday as a set of weekdays 0..6: {} is any day
  FirstWeekday,   \* the weekday of day 0
  Today,
  SeasonFloors,   \* what _season_floor may be: the coming December 1st, or 0
                  \* once the season runs
  MaxWindow,      \* MAX_SEARCH_WINDOW_DAYS
  MaxCredits      \* MAX_CREDITS_PER_SEARCH

ASSUME WindowAssumption ==
  /\ LastDay \in Nat
  /\ Nights \subseteq Nat \ {0}
  /\ Steps \subseteq Nat \ {0}
  /\ WeekdaySets \subseteq SUBSET (0..6)
  /\ FirstWeekday \in 0..6
  /\ Today \in Nat
  /\ SeasonFloors \subseteq Nat
  /\ MaxWindow \in Nat
  /\ MaxCredits \in Nat \ {0}

Dates == 0..LastDay

Forms == [earliest : Dates, latest : Dates, nights : Nights, step : Steps, weekdays : WeekdaySets]

VARIABLES
  form,    \* what the request says
  floor,   \* _season_floor(today)
  pc,      \* "route", then "loop" and "done", or "rejected" (400), or "raised" (500)
  start,   \* effective_earliest
  day,     \* the loop variable
  out      \* the candidate start dates found so far

vars == <<form, floor, pc, start, day, out>>

Init ==
  /\ form \in Forms
  /\ floor \in SeasonFloors
  /\ pc = "route"
  /\ start = 0
  /\ day = 0
  /\ out = {}

\* Mutant: the window is clamped to the season but not to today.
ClampedToSeason == Max({form.earliest, floor})

\* effective_earliest
Clamped == Max({form.earliest, Today, floor})

\* The route's checks, then candidate_start_dates' own.
Route ==
  /\ pc = "route"
  /\ start' = Clamped
  /\ day' = Clamped
  /\ pc' = CASE \/ form.latest <= form.earliest
                \/ form.latest < Today
                \/ form.latest - Clamped > MaxWindow -> "rejected"
             [] form.latest < Clamped -> "raised"
             [] OTHER -> "loop"
  /\ UNCHANGED <<form, floor, out>>

Weekday(d) == (d + FirstWeekday) % 7

\* Mutant: a trip must end before the window does.
FitsStrictly(d) == d + form.nights < form.latest

Fits(d) == d + form.nights <= form.latest

\* Mutant: a weekday search is stepped as well.
StrideAlways == form.step

\* A weekday replaces the step: every day is then looked at.
Stride == IF form.weekdays = {} THEN form.step ELSE 1

Wanted(d) == form.weekdays = {} \/ Weekday(d) \in form.weekdays

Walk ==
  /\ pc = "loop"
  /\ \/ /\ Fits(day)
        /\ out' = IF Wanted(day) THEN out \cup {day} ELSE out
        /\ day' = day + Stride
        /\ UNCHANGED pc
     \/ /\ ~Fits(day)
        /\ pc' = "done"
        /\ UNCHANGED <<day, out>>
  /\ UNCHANGED <<form, floor, start>>

Next == Route \/ Walk

Spec == Init /\ [][Next]_vars

-----------------------------------------------------------------------------

\* cost_for_candidate_dates
Cost(candidates) == Max({1, Min({MaxCredits, candidates})})

CeilingOfSevenths(n) == (n + 6) \div 7

\* pendingCost, for a form whose window holds a trip.
Quoted ==
  LET candidates == form.latest - form.earliest - form.nights + 1 IN
  Cost(IF form.weekdays = {} THEN candidates ELSE CeilingOfSevenths(candidates))

Charged == Cost(Cardinality(out))

\* The form as the browser sends it.
FromBrowser == form.step = 1 /\ form.latest - form.earliest >= form.nights

\* The window the server did not have to clamp.
Unclamped == start = form.earliest

\* The start dates a search promises: of the window, as far as it is neither
\* past nor before the season, every one from which the trip fits, on the
\* chosen weekdays, or else on the grid of the step (candidate_start_dates:
\* "Every valid start date whose full trip fits inside the window").
ExactlyTheValidDates ==
  pc = "done" =>
    LET first == Max({form.earliest, Today, floor}) IN
    out = {d \in first..form.latest :
             /\ d + form.nights <= form.latest
             /\ IF form.weekdays = {} THEN (d - first) % form.step = 0
                                     ELSE (d + FirstWeekday) % 7 \in form.weekdays}

\* What the browser quotes for any day of the week is what is charged, and
\* for one weekday at most one credit more.
QuoteIsClose ==
  pc = "done" /\ FromBrowser /\ Unclamped /\ Cardinality(form.weekdays) < 2 =>
    IF form.weekdays = {} THEN Quoted = Charged
                          ELSE Charged <= Quoted /\ Quoted <= Charged + 1

\* SearchCard.tsx: "the quoted price matches what the server charges".
QuoteMatchesCharge == pc = "done" /\ FromBrowser /\ Unclamped => Quoted = Charged

=============================================================================
