----------------------------- MODULE TripCosts -----------------------------
(***************************************************************************)
(* engine/cost_calculator: what a trip is estimated to cost per person, and *)
(* what becomes of the estimate when one of its parts turns out to have a   *)
(* real price.  Amounts are in cents and rates in percent; a date is a      *)
(* record of month, day and weekday, or NoDate.                             *)
(***************************************************************************)
EXTENDS TransferChoice

CONSTANTS
  GroupScale    \* 100 * group_size ** 0.3, by group size

ASSUME GroupScaleAssumption == GroupScale \in [1..20 -> Nat \ {0}]

\* Resort, as far as it is used.  A terrain mix is in percent, and empty when
\* it is not known.
Resort ==
  [name : STRING, west : BOOLEAN, flight : Nat, pass : [shoulder : Nat \cup {None}, peak : Nat \cup {None}],
   pass6 : Nat, nightly : Nat, distance : Nat, piste : Nat, offPiste : Nat, snow : Nat, nightlife : Nat,
   family : Nat, terrain : SUBSET [beginner : Nat, intermediate : Nat, advanced : Nat],
   transferMinutes : Nat, transfers : Seq(CuratedOption), located : BOOLEAN]

NoDate == [month |-> 0, day |-> 0, weekday |-> None]

-----------------------------------------------------------------------------
(* What depends on the season.                                              *)

\* season_band, in the order its tests are made.
SeasonBand(date) ==
  LET m == date.month
      d == date.day
  IN  CASE (m = 12 /\ d >= 20) \/ (m = 1 /\ d <= 6) -> "peak"
        [] m = 2 /\ d \in 8..28 -> "peak"
        [] (m = 1 /\ d >= 7) \/ (m = 2 /\ d \notin 8..28) \/ (m = 3 /\ d <= 10) -> "high"
        [] OTHER -> "shoulder"

SeasonMultiplier == [peak |-> 118, high |-> 110, shoulder |-> 100]
Season(date) == SeasonMultiplier[SeasonBand(date)]

\* _PASS_DAY_MULTIPLIER, and that of a longer trip.
PassDayMultiplier(days) ==
  CASE days <= 5 -> 111 - 2 * days
    [] days \in 6..10 -> 106 - days
    [] OTHER -> 95

\* _researched_6day_price, as a fraction: the price of the band where both
\* are published, with the high season in between; one price, scaled.
ResearchedSixDays(pass, date) ==
  CASE pass.shoulder # None /\ pass.peak # None ->
         CASE SeasonBand(date) = "peak" -> <<pass.peak, 1>>
           [] SeasonBand(date) = "shoulder" -> <<pass.shoulder, 1>>
           [] OTHER -> <<18 * pass.shoulder + 10 * (pass.peak - pass.shoulder), 18>>
    [] pass.shoulder # None /\ pass.peak = None -> <<pass.shoulder * Season(date), 100>>
    [] OTHER -> <<pass.peak * Season(date), 118>>

\* ski_pass_price_is_researched
PassResearched(resort) == {resort.pass.shoulder, resort.pass.peak} # {None}

\* ski_pass_cost: the researched price, or that of the spreadsheet scaled by
\* the season.
SkiPassCost(resort, days, date) ==
  LET six == IF PassResearched(resort) THEN ResearchedSixDays(resort.pass, date)
             ELSE <<resort.pass6 * Season(date), 100>>
  IN  Share(six[1] * days * PassDayMultiplier(days), 600 * six[2])

\* accommodation_cost_eur_per_person: half the swing of the pass.
AccommodationCost(resort, stay, date) ==
  Share(resort.nightly * (100 + Season(date)) * stay.nights * stay.rooms, 200 * stay.group)

-----------------------------------------------------------------------------
(* What does not.                                                           *)

EquipmentPerDay == [standard |-> 2200, premium |-> 3800]
FoodPerDay(west) == IF west THEN [budget |-> 2800, normal |-> 4800, luxury |-> 8500]
                    ELSE [budget |-> 1600, normal |-> 3000, luxury |-> 5500]

\* _formula_transfer_cost
FormulaTransferCost(resort, group) ==
  Share(100 * Max({2 * (1500 + 22 * resort.distance), 5000}), Max({100, GroupScale[group]}))

\* transfer_cost_eur_per_person: by the researched table, whichever airport
\* that is from, or by the distance.
TransferCost(resort, group, date, modes) ==
  LET chosen == SelectTransfer(resort.transfers, group, None, date.weekday, modes)
  IN  IF chosen = <<>> THEN FormulaTransferCost(resort, group)
      ELSE RoundTripCost(chosen[1], group)

-----------------------------------------------------------------------------
(* CostBreakdown                                                            *)

Parts == {"flight", "transfer", "accommodation", "pass", "equipment", "food"}

\* The sum of all but the last line, and total_eur.
Subtotal(cost) ==
  cost.flight + cost.transfer + cost.accommodation + cost.pass + cost.equipment + cost.food
TotalEur(cost) == Subtotal(cost) + cost.misc

\* MISC_COST_RATE, of an amount that may be negative.
Buffer(amount) == IF amount < 0 THEN -Share(-amount, 20) ELSE Share(amount, 20)

\* compute_trip_cost
ComputeTripCost(resort, prefs, date) ==
  LET Buffered(cost) == [cost EXCEPT !.misc = Buffer(Subtotal(cost))]
  IN  Buffered(
        [flight |-> resort.flight,
         transfer |-> TransferCost(resort, prefs.stay.group, date, prefs.modes),
         accommodation |-> AccommodationCost(resort, prefs.stay, date),
         pass |-> SkiPassCost(resort, prefs.stay.nights - 1, date),
         equipment |-> EquipmentPerDay[prefs.equipment] * (prefs.stay.nights - 1),
         food |-> FoodPerDay(resort.west)[prefs.food] * prefs.stay.nights,
         misc |-> 0, live |-> {}, researched |-> PassResearched(resort)])

\* Mutant: the buffer stays as large as it was for the estimate.
ApplyKeepingBuffer(cost, part, price) ==
  [cost EXCEPT ![part] = price, !.live = @ \cup {part}]

\* apply_live_flight_price, apply_live_accommodation_price and
\* apply_live_transfer_price: the buffer follows.
ApplyLivePrice(cost, part, price) ==
  [cost EXCEPT ![part] = price, !.live = @ \cup {part},
               !.misc = @ + Buffer(price - cost[part])]
=============================================================================
