-------------------------- MODULE MCSearchResponse --------------------------
(***************************************************************************)
(* SearchResponse on six families of worlds, each of which varies one part  *)
(* of the request or of what the providers answer and keeps the rest at its *)
(* simplest: the ranking, the narrowing of the pool, the flights, the beds, *)
(* the transfers and the weather.                                           *)
(***************************************************************************)
EXTENDS SearchResponse

MCCurrentDay == 10
MCCalendar == [d \in 0..40 |-> [month |-> 2, day |-> (d % 28) + 1, weekday |-> d % 7]]
MCGroupScale ==
  <<100, 123, 139, 152, 162, 171, 179, 187, 193, 200, 205, 211, 216, 221, 225, 230, 234, 238, 242, 246>>
MCDepthBands == <<[depth |-> 100, score |-> 820], [depth |-> 50, score |-> 550], [depth |-> 0, score |-> 50]>>
MCPlausibleRates == 15..10000
MCRatingSteps == {35, 40, 45}

\* One day's forecast ahead of today, so that a trip of three days lies within
\* the horizon, across it or beyond it.
MCMaxForecastDays == 2

-----------------------------------------------------------------------------
(* Three resorts.                                                           *)

NoPass == [shoulder |-> None, peak |-> None]
Alp(name, nightly, snow, pass, terrain) ==
  [name |-> name, west |-> TRUE, flight |-> 28000, pass |-> pass, pass6 |-> 30000,
   nightly |-> nightly, distance |-> 100, piste |-> 100 + snow, offPiste |-> 3, snow |-> snow,
   nightlife |-> 6 - snow, family |-> 3, terrain |-> terrain, transferMinutes |-> 100 + 10 * snow,
   transfers |-> <<>>, located |-> name # "C"]

Mixed == {[beginner |-> 30, intermediate |-> 50, advanced |-> 20]}
A == [Alp("A", 12000, 2, [shoulder |-> 30000, peak |-> 36000], Mixed) EXCEPT !.transfers =
       <<[airport |-> "GVA", mode |-> "bus", cost |-> 5000, perVehicle |-> FALSE, capacity |-> None,
          duration |-> 180, roundTrip |-> FALSE, mandatory |-> FALSE, days |-> {0}],
         [airport |-> "GVA", mode |-> "taxi", cost |-> 30000, perVehicle |-> TRUE, capacity |-> 4,
          duration |-> 120, roundTrip |-> FALSE, mandatory |-> FALSE, days |-> {}]>>]
B == Alp("B", 14000, 3, NoPass, Mixed)
C == Alp("C", 9000, 5, [shoulder |-> None, peak |-> 40000], {})
Names == {"A", "B", "C"}

NoFlights == [n \in Names |-> <<>>]
Itinerary(price, duration, number, arrival, departure) ==
  [price |-> price, duration |-> duration, numbers |-> number, arrival |-> arrival,
   departure |-> departure, link |-> FALSE]

Place == [frozenLifts |-> {5}, located |-> TRUE, fetchedLifts |-> {}]
NoHotels == [stays |-> <<>>, google |-> <<>>, serp |-> <<>>, serpKey |-> FALSE, resort |-> Place, pages |-> {}]
NoQuote == [outbound |-> <<>>, back |-> <<>>]
NoGround == [outbound |-> <<>>, inbound |-> <<>>]
NoWeather == [forecast |-> [fails |-> TRUE, days |-> <<>>], archive |-> <<<<>>, <<>>>>]

Asked ==
  [budget |-> 150000, least |-> 0, days |-> 1, group |-> 2, topN |-> 3, skill |-> "intermediate",
   tier |-> "standard", food |-> "normal", equipment |-> "standard", modes |-> {}, filter |-> NoFilter,
   type |-> "HOTELS", target |-> {}, include |-> {}, exclude |-> {}, fallback |-> TRUE,
   weights |-> [snow |-> 60, price |-> 40]]

Plain ==
  [request |-> Asked, route |-> "fixed", start |-> 11, priced |-> TRUE, resorts |-> <<A, B, C>>,
   dated |-> <<>>, series |-> {}, followed |-> TRUE, flights |-> NoFlights, hotels |-> [n \in Names |-> NoHotels],
   quote |-> [n \in Names |-> NoQuote], ground |-> [n \in Names |-> NoGround],
   routes |-> [n \in Names |-> <<>>], weather |-> [n \in Names |-> NoWeather]]

\* Up to n of the elements of a set, in any order, none of them twice.
Lists(set, n) == UNION {{s \in [1..k -> set] : \A i, j \in 1..k : s[i] = s[j] => i = j} : k \in 0..n}
Of(name, value, other) == [n \in Names |-> IF n = name THEN value ELSE other]
Only(w0, name) == [w0 EXCEPT !.request.target = {name}]

\* The dates route, with rows for A from these days on.  The engine had a live
\* price for the odd days when it took its snapshot, and evaluated a day more.
Dated(w0, starts) ==
  [w0 EXCEPT !.route = "dates",
             !.dated = [i \in DOMAIN starts |-> [resort |-> "A", start |-> starts[i], live |-> TRUE]],
             !.series = {[resort |-> "A", start |-> d, live |-> d % 2 = 1] : d \in Range(starts) \cup {14, 15}}]

-----------------------------------------------------------------------------
(* The families.                                                            *)

Fare(price) == IF price = None THEN <<>> ELSE <<Itinerary(price, 200, 1, 600, 1000)>>
Snowy(days, depth) ==
  [forecast |-> [fails |-> FALSE, days |-> [d \in days |-> [garbled |-> FALSE, temp |-> 0, depth |-> depth]]],
   archive |-> <<[d \in (10..16) \cup (30..33) |-> [temp |-> 0, depth |-> depth]], <<>>>>]

\* Live fares that change who fits, budgets that some, none or all fit, and
\* snow that is forecast for one, two or none of the days.
RankingWorlds ==
  {[Plain EXCEPT !.request = [Asked EXCEPT !.budget = b, !.topN = top, !.fallback = fb, !.least = l],
                 !.start = start, !.priced = p,
                 !.flights = [n \in Names |-> Fare(CASE n = "A" -> fa [] n = "B" -> fb1 [] OTHER -> 20000)],
                 !.weather = [n \in Names |-> CASE n = "A" -> wa [] n = "B" -> Snowy({}, 0)
                                                [] OTHER -> Snowy({11, 12}, 20)]] :
     b \in {60000, 76000, 83000}, top \in {1, 3}, fb \in BOOLEAN, l \in {0, 75000},
     start \in {None, 11, 30}, p \in BOOLEAN, fa \in {None, 24000, 45000}, fb1 \in {None, 20000, 40000},
     wa \in {NoWeather, Snowy({11}, 120), Snowy({11, 12}, 0)}}

NarrowingWorlds ==
  {[Plain EXCEPT !.request = [Asked EXCEPT !.target = t, !.include = i, !.exclude = e, !.weights = w,
                                             !.skill = sk, !.tier = tier, !.days = days]] :
     t \in {{}, {"B"}, {"Z"}}, i \in {{}, {"A", "C"}}, e \in {{}, {"C"}},
     w \in {[snow |-> 0, price |-> 10], [d \in Dimensions |-> 10], [price |-> 0]},
     sk \in {"beginner", "expert"}, tier \in {"budget", "luxury"}, days \in {0, 1, 2}} \cup
  {[Plain EXCEPT !.start = 9]}

Itineraries ==
  {Itinerary(30000, 300, 1, 500, 900), Itinerary(30000, 250, 2, 1420, None), Itinerary(32000, 200, 3, None, 800),
   Itinerary(33000, 190, 4, Midnight + 300, 1000), Itinerary(45000, 190, 5, 1380, None),
   [Itinerary(31000, 400, 6, None, None) EXCEPT !.link = TRUE]}

FlightWorlds ==
  {[Only(Plain, "A") EXCEPT !.flights = Of("A", list, <<>>), !.followed = f] :
     list \in Lists(Itineraries, 3), f \in BOOLEAN} \cup
  {[Dated(Plain, <<11>>) EXCEPT !.flights = Of("A", list, <<>>)] : list \in Lists(Itineraries, 3)}

Inn(name, price, rating, star, vouched, position, amenities) ==
  [name |-> name, price |-> price, rating |-> rating, star |-> star, vouched |-> vouched,
   position |-> position, reviews |-> 100, amenities |-> amenities, type |-> "HOTELS"]
Inns ==
  {Inn("p", 100, 42, 3, None, 5, {}), Inn("q", 140, 46, 4, None, 7, {"SPA"}), Inn("r", 120, None, None, 4, 20, {}),
   Inn("s", 90, 38, None, None, None, {"SPA"}), [Inn("t", 80, 44, 4, None, 6, {}) EXCEPT !.type = "RENTALS"]}
Pages == {[name |-> "p", rates |-> {110, 240}], [name |-> "z", rates |-> {95}], [name |-> "q", rates |-> {5}]}

Filters ==
  {NoFilter} \cup
  {[NoFilter EXCEPT !.max = m, !.star = s, !.rating = r, !.distance = d] :
     m \in {None, 12000}, s \in {None, 4}, r \in {None, 41}, d \in {None, 1}} \cup
  {[NoFilter EXCEPT !.amenities = {"SPA"}, !.reviews = 50], [NoFilter EXCEPT !.rating = 44]}

LodgingWorlds ==
  {[Only(Plain, "A") EXCEPT
      !.request.filter = f, !.request.type = t, !.request.group = g,
      !.hotels = Of("A", [NoHotels EXCEPT !.stays = stays, !.google = google, !.serpKey = TRUE,
                                          !.serp = <<[name |-> "u", rates |-> {99}, rating |-> 40]>>,
                                          !.pages = {"p"}], NoHotels)] :
     f \in Filters, t \in {"HOTELS", "RENTALS"}, g \in {2, 3}, stays \in Lists(Inns, 2),
     google \in Lists(Pages, 2)}

Van(name, price, seats, duration) == [price |-> price, seats |-> seats, duration |-> duration, name |-> name]
Coach(mode, price, duration, departure) ==
  [mode |-> mode, price |-> price, duration |-> duration, carrier |-> mode, departure |-> departure]
Vans == {Van("car", 20000, 3, 100), Van("bus", 30000, 8, 110), Van("limo", 24000, 4, 0)}
Coaches == {Coach("bus", 9000, 200, 600), Coach("bus", 9000, 180, 900), Coach("train", 16000, 150, 700),
            Coach("bus", 8000, 240, 500), Coach("train", 12000, None, 400), Coach("bus", 0, 90, 300)}
Way(name, legs, low, high, duration) ==
  [name |-> name, legs |-> legs, low |-> low, high |-> high, duration |-> duration]
Ways == {Way("bus", {"bus"}, 4000, 6000, 170), Way("coach", {"bus"}, 4000, None, 150),
         Way("plane", {"fly", "bus"}, 3000, None, 60), Way("taxi", {"taxi"}, 20000, None, 90),
         Way("train", {"train"}, 9000, None, 160)}

TransferWorlds ==
  {[Dated(Plain, <<11, 12>>) EXCEPT
      !.request.group = g, !.priced = p, !.flights = Of("A", list, <<>>),
      !.quote = Of("A", [outbound |-> out, back |-> back], NoQuote),
      !.ground = Of("A", [outbound |-> coaches, inbound |-> home], NoGround),
      !.routes = Of("A", ways, <<>>)] :
     g \in {1, 4}, p \in {TRUE}, list \in {<<>>, Fare(30000), <<Itinerary(30000, 200, 1, 1420, None)>>},
     out \in Lists(Vans, 2), back \in {<<>>, <<Van("bus", 35000, 8, 110)>>},
     coaches \in Lists(Coaches, 2), home \in {<<>>, <<Coach("bus", 7000, 200, 600)>>}, ways \in {<<>>}} \cup
  {[Dated(Plain, <<11>>) EXCEPT
      !.priced = p, !.quote = Of("A", [outbound |-> out, back |-> <<>>], NoQuote),
      !.ground = Of("A", [outbound |-> coaches, inbound |-> <<>>], NoGround), !.routes = Of("A", ways, <<>>)] :
     p \in BOOLEAN, out \in Lists(Vans, 1), ways \in Lists(Ways, 3),
     coaches \in {<<>>, SetToSeq(Coaches), Reverse(SetToSeq(Coaches))}}

Reading == {None, 0}
DayForecasts == {[garbled |-> g, temp |-> t, depth |-> 90] : g \in {FALSE}, t \in Reading} \cup
                {[garbled |-> TRUE, temp |-> 0, depth |-> 90]}
WeatherWorlds ==
  {[w EXCEPT !.weather = Of("A", [forecast |-> [fails |-> f, days |-> days], archive |-> archive], NoWeather)] :
     w \in {Only([Plain EXCEPT !.start = s], "A") : s \in {10, 11, 13}} \cup {Dated(Plain, <<11, 10>>)},
     f \in BOOLEAN, days \in UNION {[S -> DayForecasts] : S \in SUBSET (10..12)},
     archive \in {<<<<>>, <<>>>>, <<[d \in 10..16 |-> [temp |-> 1, depth |-> 40]], <<>>>>,
                  <<[d \in 12..14 |-> [temp |-> None, depth |-> 40]], [d \in 11..15 |-> [temp |-> 3, depth |-> None]]>>}} \cup
  {[Dated(Plain, starts) EXCEPT !.weather = Of("A", w, NoWeather), !.request.weights.snow = s] :
     starts \in {<<11, 30>>, <<30, 11>>, <<12, 13>>, <<12, 30, 11>>, <<11, 12, 30>>},
     w \in {Snowy({11, 12}, 120), Snowy({11, 12}, 0), Snowy({12}, 60), Snowy({}, 120)}, s \in {0, 60, 90}}

MCWorlds ==
  <<RankingWorlds, NarrowingWorlds, FlightWorlds, LodgingWorlds, TransferWorlds, WeatherWorlds>>
=============================================================================
