--------------------------- MODULE TransferChoice ---------------------------
(***************************************************************************)
(* From the airport to the resort and back: the researched table that an    *)
(* estimate is taken from (engine/transfers), what the providers quote for  *)
(* the dates of a search (adapters/transfer_adapter, omio, rome2rio), and   *)
(* the ranked list of it all that a card shows (engine/transfer_options).   *)
(* Money is in cents.                                                       *)
(***************************************************************************)
EXTENDS Ordering

CONSTANTS
  MaxOptions,     \* MAX_OPTIONS: the rows worth showing
  RoutesShown     \* how many routes without a date are listed

ASSUME TransferAssumption ==
  RoutesShown \in Nat \ {0} /\ MaxOptions \in Nat /\ MaxOptions > RoutesShown + 1

Unknown == 1000000   \* 10**6, of a journey nobody timed: longer than any

Minutes == {n \in Nat : n < Unknown}

Timed(minutes) == IF minutes \in {None, 0} THEN Unknown ELSE minutes

-----------------------------------------------------------------------------
(* The researched table.                                                    *)

\* TransferOption of engine/transfers: `days` is the weekdays it runs on, all
\* of them when it is empty.
CuratedOption ==
  [airport : STRING, mode : STRING, cost : Nat, perVehicle : BOOLEAN,
   capacity : Nat \cup {None}, duration : Nat, roundTrip : BOOLEAN,
   mandatory : BOOLEAN, days : SUBSET (0..6)]

\* weekday is None when the date is not known.
RunsOn(o, weekday) == o.days = {} \/ weekday = None \/ weekday \in o.days

VehiclesNeeded(o, group) ==
  IF o.perVehicle /\ o.capacity \notin {None, 0}
    THEN (group + o.capacity - 1) \div o.capacity ELSE 1

\* cost_per_person, and round_trip_cost_per_person, which doubles a quote for
\* one way.
RoundTripCost(o, group) ==
  LET once == IF o.perVehicle THEN Share(o.cost * VehiclesNeeded(o, group), group) ELSE o.cost
  IN  IF o.roundTrip THEN once ELSE 2 * once

\* options_for
OptionsFor(table, airport) ==
  Where(table, LAMBDA o : airport = None \/ o.airport = airport)

\* A filter that would leave nothing is not applied.
Prefer(options, Test(_)) ==
  LET passing == Where(options, Test) IN IF passing = <<>> THEN options ELSE passing

\* select_transfer: mandatory, then running, then preferred, then cheapest.
SelectTransfer(table, group, airport, weekday, modes) ==
  LET mandatory == Prefer(OptionsFor(table, airport), LAMBDA o : o.mandatory)
      running == Prefer(mandatory, LAMBDA o : RunsOn(o, weekday))
      liked == Prefer(running, LAMBDA o : o.mode \in modes)
  IN  IF liked = <<>> THEN <<>>
      ELSE <<Least(liked, LAMBDA o : <<RoundTripCost(o, group), o.duration>>)>>

-----------------------------------------------------------------------------
(* What the providers quote.                                                *)

\* TransferQuote: a vehicle; GroundJourney: a seat on a departure; and
\* Rome2RioRoute, whose `legs` are the words of its name.
Vehicle == [price : Nat, seats : Nat, duration : Minutes, name : STRING]
Journey == [mode : STRING, price : Nat, duration : Minutes \cup {None}, carrier : STRING, departure : Nat]
Rome2RioRoute ==
  [name : STRING, legs : SUBSET STRING, low : Nat \cup {None}, high : Nat \cup {None},
   duration : Minutes \cup {None}]

\* engine/transfer_options.TransferOption
Option(kind, mode, price, duration, carrier, departure, both, indicative) ==
  [kind |-> kind, mode |-> mode, price |-> price, duration |-> duration, carrier |-> carrier,
   departure |-> departure, roundTrip |-> both, indicative |-> indicative]

\* cheapest_price_eur: the cheapest vehicle that seats the whole party.
CheapestVehicle(vehicles, group) ==
  Least0({vehicles[i].price : i \in {i \in DOMAIN vehicles : vehicles[i].seats >= group}})

\* search_transfer_round_trip: a fresh answer has the vehicles of both legs,
\* if the time of the second is known; a cached one is rebuilt from those of
\* the outbound leg alone.
Quote(answer, bothLegs, cached) ==
  IF bothLegs /\ ~cached THEN answer ELSE [answer EXCEPT !.back = <<>>]

\* Mutant: every vehicle on offer.
PrivateOptionsOfAnySize(quote, group) ==
  [i \in DOMAIN quote.outbound |->
     Option("private", "minivan", Share(2 * quote.outbound[i].price, group),
            quote.outbound[i].duration, quote.outbound[i].name, None, TRUE, FALSE)]

\* all_transfer_options, private hire: a vehicle for the outbound leg with the
\* cheapest one back, or, when no way back was quoted, its price twice.
PrivateOptions(quote, group) ==
  LET fitting == Where(quote.outbound, LAMBDA v : v.seats >= group)
      back == CheapestVehicle(quote.back, group)
      Both(v) == v.price + (IF back = None THEN v.price ELSE back)
      OptionOf(v) == Option("private", "minivan", Share(Both(v), group),
                            IF v.duration = 0 THEN None ELSE v.duration, v.name, None, TRUE, FALSE)
  IN  Mapped(fitting, OptionOf)

\* search_ground_transport: the departures that have a price, per person.
\* No departure at all is the same as no route.
Priced(journeys, group) ==
  Mapped(Where(journeys, LAMBDA j : j.price > 0), LAMBDA j : [j EXCEPT !.price = Share(@, group)])

\* all_transfer_options, scheduled: each departure with the cheapest return of
\* its mode, or without one.
ScheduledOptions(ground, group) ==
  LET back == Priced(ground.inbound, group)
      Return(j) == Least0({back[i].price : i \in {i \in DOMAIN back : back[i].mode = j.mode}})
      OptionOf(j) ==
        Option("scheduled", j.mode, j.price + (IF Return(j) = None THEN 0 ELSE Return(j)),
               j.duration, j.carrier, j.departure, Return(j) # None, FALSE)
  IN  Mapped(Priced(ground.outbound, group), OptionOf)

\* _mode_from_route_name: the first word that tells.
RouteMode(legs) ==
  CASE legs \cap {"train", "tram"} # {} -> "train"
    [] legs \cap {"train", "tram"} = {} /\ "ferry" \in legs -> "ferry"
    [] legs \cap {"train", "tram", "ferry", "shuttle", "bus"} = {} /\
       legs \cap {"taxi", "transfer"} # {} -> "minivan"
    [] OTHER -> "bus"

\* search_routes: flights and routes without a price are left out, the
\* cheapest first; of those, the first few are listed.
IndicativeOptions(routes) ==
  LET real == Where(routes, LAMBDA r : r.legs \cap {"fly", "flight"} = {} /\ r.low # None)
      cheapest == Take(SortedBy(real, LAMBDA r : <<r.low>>), RoutesShown)
      OptionOf(r) == Option("scheduled", RouteMode(r.legs), r.low, r.duration,
                            r.name, None, FALSE, TRUE)
  IN  Mapped(cheapest, OptionOf)

-----------------------------------------------------------------------------
(* rank_transfer_options                                                    *)

\* Mutant: an operator has one offer.
SameOperator(a, b) == a.kind = b.kind /\ a.mode = b.mode /\ a.carrier = b.carrier

\* _dedupe_key
SameOffer(a, b) ==
  a.kind = b.kind /\ a.mode = b.mode /\ a.price = b.price /\ a.carrier = b.carrier

\* _is_better, as a key: the shorter journey, then the earlier departure.
Haste(o) == <<IF o.duration = None THEN Unknown ELSE o.duration,
              IF o.departure = None THEN Unknown ELSE o.departure>>

\* One row for an offer, its fastest departure, where the offer came first.
Unique(options) ==
  LET firsts == {i \in DOMAIN options : \A j \in 1..(i - 1) : ~SameOffer(options[i], options[j])}
      Quickest(a) == Least(Where(options, LAMBDA b : SameOffer(a, b)), Haste)
  IN  Mapped(At(options, firsts), Quickest)

\* Where the rows that are labelled are.
CheapestOption(unique) ==
  PlaceOfLeast(unique, LAMBDA o : <<o.price, OneIf(o.indicative), Timed(o.duration)>>)
FastestOption(unique) ==
  PlaceOfLeast(unique, LAMBDA o : <<OneIf(o.duration = None), o.duration, o.price>>)

\* Mutant: the fastest is shown if it is among the cheapest.
CappedByPrice(ranked, fastest) == Take(ranked, MaxOptions)

\* The cheapest rows; the fastest takes the place of the last if need be.
Capped(ranked, fastest) ==
  LET shown == Take(ranked, MaxOptions) IN
  IF fastest \in Range(shown) THEN shown ELSE Append(Take(ranked, MaxOptions - 1), fastest)

\* One row for each of the offers that are shown, of those that are unique.
Ranked(unique, cheapest, fastest) ==
  LET byPrice == SortedBy(Positions(unique),
                   LAMBDA i : <<unique[i].price, Timed(unique[i].duration)>>)
      timed == unique[fastest].duration # None
      Row(i) == [option |-> unique[i],
                 roles |-> (IF i = cheapest THEN {"cheapest"} ELSE {}) \cup
                           (IF i = fastest /\ timed THEN {"fastest"} ELSE {})]
  IN  Mapped(IF timed THEN Capped(byPrice, fastest) ELSE Take(byPrice, MaxOptions), Row)
RankTransferOptions(options) ==
  LET RankedOf(unique) == Ranked(unique, CheapestOption(unique), FastestOption(unique))
  IN  IF options = <<>> THEN <<>> ELSE RankedOf(Unique(options))

\* all_transfer_options.  Routes without a date are asked for when nothing
\* that runs on the date was found.
AllTransferOptions(quote, ground, routes, group) ==
  LET Completed(dated) == IF \E i \in DOMAIN dated : dated[i].kind = "scheduled" THEN dated
                          ELSE dated \o IndicativeOptions(routes)
  IN  RankTransferOptions(Completed(PrivateOptions(quote, group) \o ScheduledOptions(ground, group)))

\* cheapest_price_eur_per_person
CheapestPrice(rows) == Least0({rows[n].option.price : n \in DOMAIN rows})
=============================================================================
