--------------------------- MODULE SearchResponse ---------------------------
(***************************************************************************)
(* What a search answers with, on either route: the trips of the fixed-date *)
(* route, ranked here, or those the date-range engine returns, and then for *)
(* both the snow, the weather and the beds, flights and transfers of every  *)
(* card (api/routes/search).  What a provider answers is given by `world`   *)
(* and stays as it is while a search runs; the one thing that changes is    *)
(* whether the transfer operator's answer comes out of the cache.           *)
(***************************************************************************)
EXTENDS TripRanking, TripWeather, FlightPicks, Lodging

CONSTANTS
  Worlds,          \* the requests and providers' answers considered, in families
  LiveTransferN,   \* _LIVE_TRANSFER_N: trips that get private transfers
  Calendar,        \* the date of a day, not None
  CurrentDay       \* date.today()

ASSUME ResponseAssumption == LiveTransferN \in Nat /\ CurrentDay \in Nat

\* SearchRequest, as far as its fields have types, with weights for the
\* dimensions that are given.
Request(given) ==
  [budget : Int, least : Int, days : Int, group : Int, topN : Int, skill : DOMAIN QualityWeights,
   tier : DOMAIN TierTarget, food : {"budget", "normal", "luxury"}, equipment : DOMAIN EquipmentPerDay,
   modes : SUBSET STRING, filter : Filter, type : STRING, target : SUBSET STRING, include : SUBSET STRING,
   exclude : SUBSET STRING, fallback : BOOLEAN, weights : [given -> Int]]

NamesOf(resorts) == {resorts[i].name : i \in DOMAIN resorts}

\* What the providers and the data may hold: no two resorts of a name, no day
\* of a resort twice among the rows of the engine or in its series, and none
\* that is past (see SearchWindow).
ASSUME WorldsAssumption ==
  \A f \in DOMAIN Worlds : \A w \in Worlds[f] :
    /\ w.request \in Request(DOMAIN w.request.weights) /\ DOMAIN w.request.weights \subseteq Dimensions
    /\ w.route \in {"fixed", "dates"} /\ w.start \in Int
    /\ w.resorts \in Seq(Resort)
    /\ \A i, j \in DOMAIN w.resorts : w.resorts[i].name = w.resorts[j].name => i = j
    /\ w.dated \in Seq([resort : NamesOf(w.resorts), start : {d \in Int : d >= CurrentDay}, live : BOOLEAN])
    /\ \A i, j \in DOMAIN w.dated :
         w.dated[i].resort = w.dated[j].resort /\ w.dated[i].start = w.dated[j].start => i = j
    /\ w.series \subseteq [resort : NamesOf(w.resorts), start : {d \in Int : d >= CurrentDay}, live : BOOLEAN]
    /\ \A a, b \in w.series : a.resort = b.resort /\ a.start = b.start => a = b
    /\ NamesOf(w.resorts) \subseteq DOMAIN w.flights
    /\ \A n \in DOMAIN w.flights :
         /\ w.flights[n] \in Seq(FlightOption) /\ w.routes[n] \in Seq(Rome2RioRoute)
         /\ w.hotels[n] \in Hotels
         /\ w.quote[n] \in [outbound : Seq(Vehicle), back : Seq(Vehicle)]
         /\ w.ground[n] \in [outbound : Seq(Journey), inbound : Seq(Journey)]

VARIABLES
  world,      \* the request, and what the providers answer it
  stage,      \* how far the handler is
  trips,      \* trip_options, dated_options
  before,     \* the trips as they were before the snow was looked at
  weather,    \* _prefetch_weather, by row
  transfers,  \* _prefetch_live_transfers, by row
  cards,      \* results
  calendar,   \* date_prices
  quoted,     \* the transfers of a search like this one are in the cache
  earlier     \* the cards of that search

responseVars == <<world, stage, trips, before, weather, transfers, cards, calendar, quoted, earlier>>

-----------------------------------------------------------------------------
(* The request.                                                             *)

\* _DEFAULT_WEIGHTS
DefaultWeights ==
  [ski_quality |-> 30, price |-> 20, snow |-> 15, nightlife |-> 15, convenience |-> 10, accommodation |-> 10,
   family |-> 0]

\* What SearchRequest and UserPreferences let through.
Allows(request) ==
  /\ request.budget > 0 /\ request.days \in 1..30 /\ request.group \in 1..20 /\ request.topN \in 1..30
  /\ \A d \in DOMAIN request.weights : request.weights[d] >= 0
  /\ Sum0(request.weights) > 0

\* The route refuses a date that is past and a resort it does not know.
Accepted ==
  /\ Allows(world.request)
  /\ world.route = "fixed" /\ world.start # None => world.start >= CurrentDay
  /\ world.request.target \cup world.request.include \cup world.request.exclude \subseteq NamesOf(world.resorts)

\* The weights as given, with the usual ones for the dimensions not given.
FullWeights(given) ==
  [d \in DOMAIN given \cup DOMAIN DefaultWeights |->
     IF d \in DOMAIN given THEN 100 * given[d] ELSE DefaultWeights[d] * Sum0(given)]

\* UserPreferences
Preferences(request) ==
  [stay |-> [nights |-> request.days + 1, group |-> request.group, rooms |-> (request.group + 1) \div 2],
   weights |-> FullWeights(request.weights), budget |-> request.budget, topN |-> request.topN,
   skill |-> request.skill, tier |-> request.tier, food |-> request.food, equipment |-> request.equipment,
   modes |-> request.modes, filter |-> request.filter, type |-> request.type, target |-> request.target,
   include |-> request.include, exclude |-> request.exclude, fallback |-> request.fallback]
Prefs == Preferences(world.request)

ResortNamed(name) ==
  world.resorts[CHOOSE i \in DOMAIN world.resorts : world.resorts[i].name = name]
DateOf(day) == IF day = None THEN NoDate ELSE Calendar[day]
EndOf(start) == start + Prefs.stay.nights

\* live_flight_cost_eur and live_accommodation_cost_eur_per_person.
LivePrices ==
  [name \in DOMAIN world.flights |->
     [flight |-> Least0({world.flights[name][i].price : i \in DOMAIN world.flights[name]}),
      accommodation |-> LiveBedCost(world.hotels[name], Prefs.filter, Prefs.type, Prefs.stay)]]

-----------------------------------------------------------------------------
(* A card.                                                                  *)

Picks(row) == PickFlights(world.flights[row.resort.name])

\* _flight_options_out
FlightRows(row) ==
  IF "flight" \notin row.cost.live \/ row.start = None THEN <<>>
  ELSE Mapped(Picks(row), LAMBDA p :
         [price |-> p.option.price, duration |-> p.option.duration, roles |-> p.roles, link |-> p.option.link,
          total |-> TotalEur(ApplyLivePrice(row.cost, "flight", p.option.price))])

\* _accommodation_options_out: the first is labelled the cheapest.
BedRows(row) ==
  LET Listed(beds) ==
        [i \in DOMAIN beds |->
          [bed |-> beds[i], perPerson |-> PerPerson(Prefs.stay, beds[i]), cheapest |-> i = 1,
           unverified |-> \E x \in {"star", "rating"} : Prefs.filter[x] # None /\ beds[i][x] = None,
           total |-> TotalEur(ApplyLivePrice(row.cost, "accommodation", PerPerson(Prefs.stay, beds[i])))]]
  IN  IF "accommodation" \notin row.cost.live \/ row.start = None THEN <<>>
      ELSE Listed(BedsListed(world.hotels[row.resort.name], Prefs.filter, Prefs.type, Prefs.stay))

\* _accommodation_choice_out
BedChoice(row) ==
  IF Prefs.filter = NoFilter \/ row.start = None THEN {}
  ELSE {SelectLiveAccommodation(world.hotels[row.resort.name], Prefs.filter, Prefs.type, Prefs.stay)}

\* _flight_search_url: the booking page of the cheapest flight, for the first
\* row alone.
FlightLink(row, i) ==
  IF i = 1 /\ "flight" \in row.cost.live /\ row.start # None
    THEN {o.numbers : o \in BookingUrlFor(world.flights[row.resort.name], <<>>, None, world.followed)}
    ELSE {}

\* _transfer_search_url: the operator's page for its cheapest vehicle, for the
\* first row alone, or a form filled in with the time.
TransferLink(row, i, pickup) ==
  LET vehicles == world.quote[row.resort.name].outbound
      fitting == Where(vehicles, LAMBDA v : v.seats >= Prefs.stay.group)
  IN  IF i = 1 /\ row.start # None /\ fitting # <<>>
        THEN [vehicle |-> {Least(fitting, LAMBDA v : <<v.price>>).name}, pickup |-> pickup]
        ELSE [vehicle |-> {}, pickup |-> pickup]

\* A row with the cheapest transfer there is to be had in place of the
\* researched figure.
WithTransfer(row, options) ==
  IF CheapestPrice(options) = None THEN row
  ELSE [row EXCEPT !.cost = ApplyLivePrice(@, "transfer", CheapestPrice(options))]

Card(row, i, found, pickup, options) ==
  LET flights == FlightRows(row)
      hotels == world.hotels[row.resort.name]
      live == "accommodation" \in row.cost.live
  IN  [resort |-> row.resort.name, start |-> row.start, cost |-> row.cost, score |-> row.score,
       within |-> row.within, flights |-> flights,
       withFastest |-> IF flights = <<>> THEN None ELSE Max({flights[n].total : n \in DOMAIN flights}),
       beds |-> BedRows(row), choice |-> BedChoice(row),
       bedLink |-> BedLink(hotels, Prefs.stay, i = 1 /\ row.start # None, live /\ row.start # None),
       flightLink |-> FlightLink(row, i), transferLink |-> TransferLink(row, i, pickup),
       transfers |-> options, pickup |-> pickup, weather |-> found]

-----------------------------------------------------------------------------
(* The handlers, stage by stage.                                            *)

ResponseInit ==
  /\ \E family \in DOMAIN Worlds : world \in Worlds[family]
  /\ stage = "request"
  /\ trips = <<>> /\ before = <<>> /\ weather = <<>> /\ transfers = <<>>
  /\ cards = <<>> /\ calendar = {} /\ quoted = FALSE /\ earlier = <<>>

Refuse ==
  /\ stage = "request" /\ ~Accepted
  /\ stage' = "refused"
  /\ UNCHANGED <<world, trips, before, weather, transfers, cards, calendar, quoted, earlier>>

\* min_budget_eur_per_person: the trips at least as dear as that.
DearEnough(list) == Where(list, LAMBDA t : TotalEur(t.cost) >= world.request.least)

\* The trips of the fixed-date route.
FixedTrips ==
  LET live == world.priced /\ world.start # None
      ranked == RankTrips(world.resorts, Prefs, DateOf(world.start), live, LivePrices)
  IN  DearEnough(Mapped(ranked, LAMBDA t : [t EXCEPT !.start = world.start]))

\* The rows of the engine, each of them a resort and a start, at its live price
\* or not (see DateSearch).
EstimateOf(resort, start) ==
  Trip(resort, ComputeTripCost(resort, Prefs, DateOf(start)), Prefs, world.resorts)
LiveIf(live, trip) == IF live THEN WithLivePrice(trip, LivePrices[trip.resort.name], Prefs) ELSE trip
FlaggedTrip(trip, start) == [trip EXCEPT !.within = Affordable(Prefs, trip.cost), !.start = start]
DatedTrips ==
  LET RowOf(d) == FlaggedTrip(LiveIf(d.live, EstimateOf(ResortNamed(d.resort), d.start)), d.start)
  IN  DearEnough(Mapped(world.dated, RowOf))

\* search_trips up to its ranking.
SearchTrips ==
  /\ stage = "request" /\ Accepted /\ world.route = "fixed"
  /\ trips' = FixedTrips
  /\ stage' = "ranked"
  /\ UNCHANGED <<world, before, weather, transfers, cards, calendar, quoted, earlier>>

\* search_trip_dates up to the rows it takes from the engine.
TakeDatedRows ==
  /\ stage = "request" /\ Accepted /\ world.route = "dates"
  /\ trips' = DatedTrips
  /\ stage' = "ranked"
  /\ UNCHANGED <<world, before, weather, transfers, cards, calendar, quoted, earlier>>

WeatherFrom(resort, start) ==
  GetTripWeather(resort, world.weather[resort.name], start, EndOf(start), CurrentDay)

\* Both routes rank again on snow when the first row can have a forecast, and
\* look it up for that row's dates.
RankedOnSnow(list) ==
  LET first == IF list = <<>> THEN None ELSE list[1].start
      Snow == [name \in {list[i].resort.name : i \in DOMAIN list} |-> WeatherFrom(ResortNamed(name), first)]
  IN  IF first # None /\ WithinForecastHorizon(first, CurrentDay)
        THEN RerankWithConditions(list, Prefs.weights, Snow) ELSE list
RerankOnSnow ==
  /\ stage = "ranked"
  /\ trips' = RankedOnSnow(trips)
  /\ before' = trips
  /\ stage' = "reranked"
  /\ UNCHANGED <<world, weather, transfers, cards, calendar, quoted, earlier>>

\* _prefetch_weather
Forecasts(list) ==
  [i \in DOMAIN list |-> IF list[i].start = None THEN {} ELSE WeatherFrom(list[i].resort, list[i].start)]
PrefetchWeather ==
  /\ stage = "reranked"
  /\ weather' = Forecasts(trips)
  /\ stage' = "weather"
  /\ UNCHANGED <<world, trips, before, transfers, cards, calendar, quoted, earlier>>

\* One row of _prefetch_live_transfers: the time of the pickup follows from
\* the flights, private transfers are for the first rows alone.
TransfersOf(row, i, cached) ==
  LET name == row.resort.name
      private == IF i <= LiveTransferN
                   THEN Quote(world.quote[name], ReturnDepartureOf(Picks(row)) # None, cached)
                   ELSE [outbound |-> <<>>, back |-> <<>>]
  IN  [pickup |-> PickupTimeFor(ArrivalOf(Picks(row))),
       options |-> AllTransferOptions(private, world.ground[name], world.routes[name], Prefs.stay.group)]

\* _prefetch_live_transfers, on the dates route; the fixed-date route asks for
\* nothing and assumes a time.
AsksForTransfers == world.route = "dates" /\ world.priced
Fetched(list, cached) ==
  [i \in DOMAIN list |-> IF AsksForTransfers THEN TransfersOf(list[i], i, cached)
                         ELSE [pickup |-> AssumedPickup, options |-> <<>>]]
PrefetchTransfers ==
  /\ stage = "weather"
  /\ transfers' = Fetched(trips, quoted)
  /\ quoted' = (quoted \/ AsksForTransfers)
  /\ stage' = "transfers"
  /\ UNCHANGED <<world, trips, before, weather, cards, calendar, earlier>>

\* A day of the engine's snapshot, series_out: at its live price if it was one
\* of those the engine priced before it assembled the rows.
Snapshot(cell) == LiveIf(cell.live, EstimateOf(ResortNamed(cell.resort), cell.start)).cost

\* Mutant: the cell keeps what the engine knew when it took its snapshot.
CellOfSeries(cell, shown) ==
  [resort |-> cell.resort, start |-> cell.start, total |-> TotalEur(Snapshot(cell))]

\* _date_prices_out: a day that has a card takes its price from the card, the
\* last one if there are several, any other from the engine's snapshot.
Cell(cell, shown) ==
  LET own == {i \in DOMAIN shown : shown[i].resort = cell.resort /\ shown[i].start = cell.start}
  IN  [resort |-> cell.resort, start |-> cell.start,
       total |-> TotalEur(IF own = {} THEN Snapshot(cell) ELSE shown[Max(own)].cost)]

\* The rows as they are shown.  Only the dates route takes the cheapest
\* transfer into the price.  It also drops transfers that were fetched for
\* another resort; none are, since those of a row are looked up by its own
\* resort, and the route's author had not found how they could be.
CardAt(i) ==
  Card(WithTransfer(trips[i], transfers[i].options), i, weather[i], transfers[i].pickup, transfers[i].options)
BuildCards ==
  /\ stage = "transfers"
  /\ cards' = [i \in DOMAIN trips |-> CardAt(i)]
  /\ calendar' = IF world.route = "dates" THEN {Cell(c, cards') : c \in world.series} ELSE {}
  /\ stage' = "answered"
  /\ UNCHANGED <<world, trips, before, weather, transfers, quoted, earlier>>

\* The same search once more, while the answers are still cached.
Repeat ==
  /\ stage = "answered" /\ quoted /\ earlier = <<>> /\ cards # <<>>
  /\ earlier' = cards
  /\ stage' = "request"
  /\ trips' = <<>> /\ before' = <<>> /\ weather' = <<>> /\ transfers' = <<>>
  /\ cards' = <<>> /\ calendar' = {}
  /\ UNCHANGED <<world, quoted>>

ResponseNext ==
  \/ Refuse \/ SearchTrips \/ TakeDatedRows \/ RerankOnSnow \/ PrefetchWeather \/ PrefetchTransfers
  \/ BuildCards \/ Repeat

ResponseSpec == ResponseInit /\ [][ResponseNext]_responseVars

-----------------------------------------------------------------------------
(* Properties                                                               *)

\* A trip has one price: that of its card is that of its first flight and of
\* its day in the calendar, the price with the fastest flight is that of the
\* fastest, and the buffer is still a twentieth of the rest, two cents apart
\* at most, whatever parts of it were replaced in whichever order
\* (_flight_options_out, _date_prices_out, apply_live_*).
OnePriceForTheTrip ==
  \A n \in DOMAIN cards :
    LET c == cards[n] IN
    /\ Apart(20 * c.cost.misc, Subtotal(c.cost)) <= 40
    /\ c.flights # <<>> =>
         /\ c.flights[1].total = TotalEur(c.cost)
         /\ \A f \in Range(c.flights) : "fastest" \in f.roles => f.total = c.withFastest
    /\ \A cell \in calendar :
         cell.resort = c.resort /\ cell.start = c.start => cell.total = TotalEur(c.cost)

\* No itinerary on sale is as good as one that is shown on both counts and
\* better on one; and the first and the fastest shown are the cheapest and the
\* fastest of all (pick_flights).
PicksAreUnbeaten ==
  \A n \in DOMAIN cards : cards[n].flights # <<>> =>
    LET shown == Range(cards[n].flights) IN
    \A o \in Range(world.flights[cards[n].resort]) :
      /\ \A f \in shown :
           ~(o.price <= f.price /\ o.duration <= f.duration /\ o.price + o.duration < f.price + f.duration)
      /\ cards[n].flights[1].price <= o.price
      /\ \E f \in shown : "fastest" \in f.roles /\ f.duration <= o.duration

\* What stays lists and meets every wish for certain is not passed over for a
\* dearer bed or one that has to be excused; no bed breaks the traveller's
\* cap or lacks an amenity; and the price is that of the bed chosen
\* (select_live_accommodation, _provider_filters, _live_accommodation_search).
QualifyingBedIsNotPassedOver ==
  \A n \in DOMAIN cards :
    LET c == cards[n]
        hotels == world.hotels[c.resort]
        offered == StaysHotels(hotels.stays, hotels.resort, NoFilter, Prefs.type, Prefs.stay)
        Meets(o) == LET f == Prefs.filter IN
                    /\ f.max # None => PerPerson(Prefs.stay, o) <= f.max
                    /\ f.amenities \subseteq o.amenities
                    /\ \A x \in Floors : f[x] # None => o[x] >= f[x]
                    /\ f.distance # None => o.distance \in 0..f.distance
    IN  \A choice \in c.choice :
          /\ \A o \in Range(offered) : Meets(o) =>
               /\ choice.pick # <<>> /\ choice.pick[1].price <= o.price
               /\ Meets(choice.pick[1]) /\ ~choice.report.unrated /\ ~choice.report.belowFloor
          /\ choice.pick # <<>> => WithinCaps(Prefs.filter, Prefs.stay, choice.pick[1])
          /\ "accommodation" \in c.cost.live =>
               choice.pick # <<>> /\ c.cost.accommodation = PerPerson(Prefs.stay, choice.pick[1])

\* What the way there and back comes to per person: with any vehicle that
\* seats the party and any for the way back, or twice the price of the first
\* when none was quoted for that; with any departure and any return of its
\* mode, if there is one; and by a route that runs on some day.
HirePrices(outbound, back, group) ==
  LET Fitting(vehicles) == {v \in Range(vehicles) : v.seats >= group} IN
  IF Fitting(back) = {} THEN {Share(2 * v.price, group) : v \in Fitting(outbound)}
  ELSE {Share(p[1].price + p[2].price, group) : p \in Fitting(outbound) \X Fitting(back)}
SeatPrices(ground, group) ==
  LET Running(journeys) == {j \in Range(journeys) : j.price > 0}
      Returns(j) == {r \in Running(ground.inbound) : r.mode = j.mode}
      Alone == {Share(j.price, group) : j \in {j \in Running(ground.outbound) : Returns(j) = {}}}
      Both == {Share(p[1].price, group) + Share(p[2].price, group) :
                 p \in {p \in Running(ground.outbound) \X Running(ground.inbound) : p[2] \in Returns(p[1])}}
  IN  Alone \cup Both
UndatedPrices(routes) ==
  {r.low : r \in {r \in Range(routes) : r.legs \cap {"fly", "flight"} = {} /\ r.low # None}}

\* All of that for the n-th row.  The way back is quoted when the flight home
\* is known, and forgotten when the answer is out of the cache.
OfferedPrices(name, n) ==
  LET group == Prefs.stay.group
      known == ReturnDepartureOf(PickFlights(world.flights[name])) # None /\ earlier = <<>>
      hire == HirePrices(world.quote[name].outbound, IF known THEN world.quote[name].back ELSE <<>>, group)
      seats == SeatPrices(world.ground[name], group)
  IN  (IF n <= LiveTransferN THEN hire ELSE {}) \cup
      (IF seats = {} THEN UndatedPrices(world.routes[name]) ELSE seats)

\* However many offers there are, of as many kinds, and however few rows are
\* shown: the price line is that of a row and of the cheapest of all offers,
\* no journey offered is faster than all the rows, a private vehicle seats the
\* party, and nobody who lands on the day of the trip is picked up before
\* that; see PickedUpAfterLanding (rank_transfer_options,
\* all_transfer_options, _pickup_time_for).
TransferListIsSound ==
  \A n \in DOMAIN cards :
    LET c == cards[n]
        offers == world.ground[c.resort].outbound
        vehicles == Range(world.quote[c.resort].outbound)
        landing == ArrivalOf(PickFlights(world.flights[c.resort]))
        shown == {c.transfers[i].option : i \in DOMAIN c.transfers}
        offered == OfferedPrices(c.resort, n)
    IN  /\ AsksForTransfers /\ offered # {} =>
             c.cost.transfer = Min(offered) /\ \E o \in shown : o.price = c.cost.transfer
        /\ \A o \in shown : o.kind = "private" =>
             \E v \in vehicles : v.name = o.carrier /\ v.seats >= Prefs.stay.group
        /\ shown # {} => \A j \in Range(offers) :
             j.price > 0 /\ j.duration # None => \E o \in shown : o.duration \in 0..j.duration
        /\ shown # {} /\ n <= LiveTransferN => \A v \in vehicles :
             v.seats >= Prefs.stay.group /\ v.duration > 0 => \E o \in shown : o.duration \in 0..v.duration
        /\ AsksForTransfers /\ landing \in Minute => c.pickup >= landing

\* The same of whoever lands on the next day: the pickup is "derived from the
\* flight's actual LANDING time" (_pickup_time_for).
PickedUpAfterLanding ==
  \A n \in DOMAIN cards :
    LET landing == ArrivalOf(PickFlights(world.flights[cards[n].resort]))
    IN  AsksForTransfers /\ landing # None => cards[n].pickup >= landing

\* On the fixed-date route a trip said to be within the budget is, at the
\* price it is shown at; and trips over it are shown only when there is
\* nothing that fits, at its estimate or at its live price (rank_trips).
BudgetIsKept ==
  world.route = "fixed" =>
    \A n \in DOMAIN cards :
      /\ cards[n].within => TotalEur(cards[n].cost) <= Prefs.budget
      /\ ~cards[n].within =>
           \A r \in Range(Narrowed(world.resorts, Prefs)) :
             LET estimate == ComputeTripCost(r, Prefs, DateOf(world.start)) IN
             \/ TotalEur(estimate) > Prefs.budget
             \/ world.priced /\ TotalEur(LiveCost(estimate, LivePrices[r.name])) > Prefs.budget

\* Of no day of the trip is there a forecast, by its own dates.
Unforecast(trip) == \A w \in WeatherFrom(trip.resort, trip.start) : w.forecast = 0

\* Ranking again on snow loses no trip and changes no price.  A trip that is
\* not looked up, or of none of whose days there is a forecast, is "left
\* exactly as it was", and two such trips stay in the order of their scores
\* (rerank_with_conditions), if they start with the first; of those that do
\* not, see FarRowsAreLeftAlone.
OnlySnowMovesRows ==
  stage = "reranked" =>
    LET Same(r, t) == r.resort = t.resort /\ r.start = t.start /\ r.cost = t.cost
        Untold(i) == \/ i > SnowLookups
                     \/ before[i].start = before[1].start /\ Unforecast(before[i])
        PlaceOf(i) == CHOOSE k \in DOMAIN trips : Same(trips[k], before[i])
    IN  /\ Len(trips) = Len(before)
        /\ \A i \in DOMAIN before : \E k \in DOMAIN trips : Same(trips[k], before[i])
        /\ \A i \in DOMAIN before : Untold(i) => trips[PlaceOf(i)] = before[i]
        /\ \A i, j \in DOMAIN before :
             i < j /\ before[i].score >= before[j].score /\ Untold(i) /\ Untold(j) => PlaceOf(i) < PlaceOf(j)

\* Whenever a trip starts, it is left as it was if none of its days has a
\* forecast: the snow is looked up "per result on ITS OWN start date"
\* (search_trip_dates).
FarRowsAreLeftAlone ==
  stage = "reranked" =>
    \A i \in DOMAIN before : Unforecast(before[i]) => \E k \in DOMAIN trips : trips[k] = before[i]

\* The weather on a card has one reading a day, in order, none of them a
\* forecast beyond the horizon; and every day that has a past is there, except
\* where the provider garbles or leaves out a day it was asked to forecast
\* (get_trip_weather).
OneReadingPerDay ==
  \A n \in DOMAIN cards : \A w \in cards[n].weather :
    LET listed == {w.list[i].day : i \in DOMAIN w.list}
        answer == world.weather[cards[n].resort]
        lost == IF answer.forecast.fails THEN {}
                ELSE {d \in ForecastSpan(cards[n].start, EndOf(cards[n].start), CurrentDay) :
                        d \notin DOMAIN answer.forecast.days \/ answer.forecast.days[d].garbled}
    IN  /\ \A i \in 1..(Len(w.list) - 1) : w.list[i].day < w.list[i + 1].day
        /\ \A i \in DOMAIN w.list : w.list[i].live => w.list[i].day \in CurrentDay..(CurrentDay + MaxForecastDays)
        /\ \A d \in cards[n].start..EndOf(cards[n].start) :
             d \notin lost /\ Samples(answer.archive, d) # <<>> => d \in listed

\* What the same search shows twice within the life of the cached answers is
\* the same (search_transfer_round_trip: both legs in one request).
SameQuoteTwice ==
  earlier # <<>> /\ stage = "answered" =>
    \A n \in DOMAIN cards : cards[n].cost.transfer = earlier[n].cost.transfer
=============================================================================
