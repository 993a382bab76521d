---------------------------- MODULE FlightPicks ----------------------------
(***************************************************************************)
(* engine/flight_picks: which of the itineraries on sale are shown, and     *)
(* what is derived from them: the time of the airport transfer and the      *)
(* booking link of the one that is clicked.  Times of day are in minutes,   *)
(* and an arrival is counted from the midnight before the trip starts.      *)
(***************************************************************************)
EXTENDS Ordering

CONSTANTS
  AssumedPickup,   \* _ASSUMED_PICKUP_TIME
  PickupBuffer     \* _ARRIVAL_TO_PICKUP_BUFFER_MINUTES

Midnight == 24 * 60
Minute == 0..(Midnight - 1)

ASSUME PickupAssumption == AssumedPickup \in Minute /\ PickupBuffer \in Nat

\* FlightOption: `numbers` stands for its flight designators, `link` for
\* where its booking token leads, if it is a link at all.
FlightOption ==
  [price : Nat, duration : Nat, numbers : Nat, arrival : Nat \cup {None},
   departure : Minute \cup {None}, link : BOOLEAN]

-----------------------------------------------------------------------------
(* pick_flights                                                             *)

Spread(values) == Max(values) - Min(values)
NonZero(n) == IF n = 0 THEN 1 ELSE n

\* best_score, as an integer: half the place in the range of prices and half
\* that in the range of durations, over the common denominator.
BestScore(options, o) ==
  LET prices == {options[i].price : i \in DOMAIN options}
      durations == {options[i].duration : i \in DOMAIN options}
  IN  (o.price - Min(prices)) * NonZero(Spread(durations)) +
      (o.duration - Min(durations)) * NonZero(Spread(prices))

\* Mutant: at the same fare, whichever comes first.
CheapestAnyDuration(options) == PlaceOfLeast(options, LAMBDA o : <<o.price>>)

\* Ties break toward the option that is better on the other axis.
Cheapest(options) == PlaceOfLeast(options, LAMBDA o : <<o.price, o.duration>>)
Fastest(options) == PlaceOfLeast(options, LAMBDA o : <<o.duration, o.price>>)
Best(options) == PlaceOfLeast(options, LAMBDA o : <<BestScore(options, o), o.price, o.duration>>)

Roles(options, i) ==
  {r \in {"cheapest", "best", "fastest"} :
     \/ r = "cheapest" /\ i = Cheapest(options)
     \/ r = "best" /\ i = Best(options)
     \/ r = "fastest" /\ i = Fastest(options)}

\* One entry per itinerary shown, with every role it won, cheapest first.
PickFlights(options) ==
  IF options = <<>> THEN <<>>
  ELSE LET PickAt(i) == [option |-> options[i], roles |-> Roles(options, i)]
       IN  SortedBy(Where(Mapped(Positions(options), PickAt), LAMBDA p : p.roles # {}),
                    LAMBDA p : <<p.option.price, p.option.duration>>)

-----------------------------------------------------------------------------
(* What follows from the picks.                                             *)

\* _arrival_of and _return_departure_of: the first pick that knows.
ArrivalOf(picks) ==
  LET known == Where(picks, LAMBDA p : p.option.arrival # None)
  IN  IF known = <<>> THEN None ELSE known[1].option.arrival

ReturnDepartureOf(picks) ==
  LET known == Where(picks, LAMBDA p : p.option.departure # None)
  IN  IF known = <<>> THEN None ELSE known[1].option.departure

\* Mutant: a late pickup wraps round to the small hours of the same day.
PickupTimeWrapping(arrival) ==
  IF arrival = None THEN AssumedPickup ELSE (arrival + PickupBuffer) % Midnight

\* _pickup_time_for: on the first day of the trip, whichever day it lands.
PickupTimeFor(arrival) ==
  IF arrival = None THEN AssumedPickup
  ELSE Min({(arrival % Midnight) + PickupBuffer, Midnight - 1})

\* _match_flight_option: the itinerary with these designators, or, when none
\* were given, the cheapest.
MatchFlightOption(options, wanted) ==
  CASE options = <<>> -> {}
    [] options # <<>> /\ wanted = None -> {Least(options, LAMBDA o : <<o.price>>)}
    [] OTHER -> LET same == Where(options, LAMBDA o : o.numbers = wanted)
                IN  IF same = <<>> THEN {} ELSE {same[1]}

\* live_flight_booking_url: the itinerary whose booking page is opened, among
\* what Google lists now and, when that is nothing or fails, what Kiwi does
\* (whose tokens may be links themselves).  `followed` is FALSE when Google's
\* second request fails.
BookingUrlFor(google, kiwi, wanted, followed) ==
  IF google # <<>>
    THEN IF followed THEN MatchFlightOption(google, wanted) ELSE {}
    ELSE {o \in MatchFlightOption(kiwi, wanted) : o.link}
=============================================================================
