------------------------------ MODULE Lodging ------------------------------
(***************************************************************************)
(* A bed at the resort: what three providers list for the dates, the        *)
(* traveller's filter, which property a trip is priced on, and the list     *)
(* that a card shows (engine/cost_calculator, adapters/stays, google_hotels *)
(* and serpapi_hotel).  A nightly price is in whole euros, what it comes to *)
(* per person in cents, a rating in tenths.                                 *)
(***************************************************************************)
EXTENDS Ordering

CONSTANTS
  PlausibleRates,   \* between the two bounds of a rate that is believed
  RatingSteps,      \* _PROVIDER_RATING_STEPS
  StaysListed       \* how many properties are listed on a card

ASSUME LodgingAssumption ==
  PlausibleRates \subseteq Nat /\ RatingSteps \subseteq Nat /\ StaysListed \in Nat \ {0}

\* AccommodationOption.  What a provider does not publish is None.
Bed(name, price, rating, distance, star, source, reviews, amenities) ==
  [name |-> name, price |-> price, rating |-> rating, distance |-> distance,
   star |-> star, source |-> source, reviews |-> reviews, amenities |-> amenities]

\* AccommodationFilter, and one that asks for nothing.
Filter ==
  [max : Nat \cup {None}, star : Nat \cup {None}, rating : Nat \cup {None}, reviews : Nat \cup {None},
   distance : Nat \cup {None}, amenities : SUBSET STRING]
NoFilter == [max |-> None, star |-> None, rating |-> None, reviews |-> None,
             distance |-> None, amenities |-> {}]

\* What the providers list.  `vouched` is a class Stays knows and does not
\* publish; a page of Google's prints several amounts.
Listing ==
  [name : STRING, price : Nat, rating : Nat \cup {None}, star : Nat \cup {None}, vouched : Nat \cup {None},
   position : Nat \cup {None}, reviews : Nat \cup {None}, amenities : SUBSET STRING, type : STRING]
Hotels ==
  [stays : Seq(Listing), google : Seq([name : STRING, rates : SUBSET Nat]),
   serp : Seq([name : STRING, rates : SUBSET Nat, rating : Nat \cup {None}]), serpKey : BOOLEAN,
   resort : [frozenLifts : SUBSET Nat, located : BOOLEAN, fetchedLifts : SUBSET Nat], pages : SUBSET STRING]

\* The stay: nights, rooms, and the people who share them.
PerPerson(stay, o) == Share(100 * o.price * stay.nights * stay.rooms, stay.group)

-----------------------------------------------------------------------------
(* What the adapters read.                                                  *)

\* Google Hotels' own page: a name and every amount printed beside it, of
\* which the nightly rate is the least.
ParseGoogle(e) == Bed(e.name, Min(e.rates), None, None, None, "none", None, {})
GoogleHotels(listed) ==
  LET real == Where(listed, LAMBDA e : e.name # "" /\ e.rates # {} /\
                                           Min(e.rates) \in PlausibleRates)
  IN  SortedBy(Mapped(real, ParseGoogle), LAMBDA o : <<o.price>>)

\* SerpApi: a name, a rate and a rating.
ParseSerp(e) == Bed(e.name, Min(e.rates), e.rating, None, None, "none", None, {})
SerpHotels(listed) ==
  LET real == Where(listed, LAMBDA e : e.name # "" /\ e.rates # {} /\ Min(e.rates) > 0)
  IN  SortedBy(Mapped(real, ParseSerp), LAMBDA o : <<o.price>>)

\* nearest_lift_km, along the valley.
NearestLift(position, lifts) ==
  IF position = None \/ lifts = {} THEN None
  ELSE Min({IF l < position THEN position - l ELSE l - position : l \in lifts})

\* lift_points_for_resort: the shipped dataset, or, for a resort it lacks,
\* one lookup by the resort's coordinates.
LiftPoints(resort) ==
  IF resort.frozenLifts # {} THEN resort.frozenLifts
  ELSE IF resort.located THEN resort.fetchedLifts ELSE {}

\* Mutant: the rating floor is rounded to the nearest step.
ProviderFiltersNearest(f, stay) ==
  [star |-> f.star,
   price |-> IF f.max = None THEN None
             ELSE (f.max * stay.group + 100 * stay.nights * stay.rooms - 1)
                    \div (100 * stay.nights * stay.rooms),
   rating |-> LET above == {s \in RatingSteps : f.rating # None /\ s >= f.rating} IN Least0(above),
   amenities |-> f.amenities]

\* _provider_filters: what the traveller asks, in the terms of the provider.
ProviderFilters(f, stay) ==
  [star |-> f.star,
   price |-> IF f.max = None THEN None
             ELSE (f.max * stay.group + 100 * stay.nights * stay.rooms - 1)
                    \div (100 * stay.nights * stay.rooms),
   rating |-> LET below == {s \in RatingSteps : s <= f.rating} IN
              IF below = {} THEN None ELSE Max(below),
   amenities |-> f.amenities]

\* What the provider makes of those.
Admits(asked, e) ==
  /\ asked.price # None => e.price <= asked.price
  /\ asked.star # None => e.star >= asked.star \/ e.vouched >= asked.star
  /\ asked.rating # None => e.rating >= asked.rating
  /\ asked.amenities \subseteq e.amenities

\* stays_adapter.search_accommodation, whose entries have everything a bed has
\* and a position.  A class the provider vouched for is marked as such.
StaysHotels(listed, resort, f, type, stay) ==
  LET asked == ProviderFilters(f, stay)
      found == Where(listed, LAMBDA e : e.type = type /\ Admits(asked, e))
      usable == Where(found, LAMBDA e : e.name # "" /\ e.price > 0)
      BedOf(e) == Bed(e.name, e.price, e.rating, NearestLift(e.position, LiftPoints(resort)), e.star,
                      CASE e.star # None -> "published"
                        [] e.star = None /\ f.star # None -> "provider_filter"
                        [] OTHER -> "none",
                      e.reviews, e.amenities)
  IN  Mapped(usable, BedOf)

-----------------------------------------------------------------------------
(* _live_accommodation_search: the first provider with anything to offer.  A *)
(* provider that fails is one that lists nothing.                           *)

FirstToAnswer(answers) ==
  LET some == Where(answers, LAMBDA a : a # <<>>) IN IF some = <<>> THEN <<>> ELSE some[1]

LiveSearch(hotels, f, type, stay) ==
  FirstToAnswer(
    (IF f # NoFilter \/ type # "HOTELS"
       THEN <<StaysHotels(hotels.stays, hotels.resort, f, type, stay)>> ELSE <<>>) \o
    <<GoogleHotels(hotels.google), StaysHotels(hotels.stays, hotels.resort, NoFilter, "HOTELS", stay)>> \o
    (IF hotels.serpKey THEN <<SerpHotels(hotels.serp)>> ELSE <<>>))

Known(a, b) == IF a # None THEN a ELSE b

\* _enrich_options: what a bed lacks, from the bed of the same name that the
\* second source lists (the last of that name).
EnrichOptions(hotels, stay, options) ==
  LET source == StaysHotels(hotels.stays, hotels.resort, NoFilter, "HOTELS", stay)
      Enriched(o) ==
        LET namesakes == Where(source, LAMBDA s : s.name = o.name) IN
        IF namesakes = <<>> THEN o
        ELSE LET s == Last(namesakes) IN
             [o EXCEPT !.rating = Known(@, s.rating), !.distance = Known(@, s.distance),
                       !.star = Known(@, s.star), !.reviews = Known(@, s.reviews),
                       !.amenities = IF @ = {} THEN s.amenities ELSE @]
      complete == \A i \in DOMAIN options :
                    None \notin {options[i].rating, options[i].distance, options[i].star}
  IN  IF complete THEN options ELSE Mapped(options, Enriched)

-----------------------------------------------------------------------------
(* select_live_accommodation                                                *)

Floors == {"star", "rating", "reviews"}

\* What is never relaxed: the price and the amenities.
WithinCaps(f, stay, o) ==
  /\ f.max # None => PerPerson(stay, o) <= f.max
  /\ f.amenities \subseteq o.amenities

\* It is known to miss a floor, and it may miss one.
Misses(f, o) ==
  \/ \E x \in Floors : f[x] # None /\ o[x] # None /\ o[x] < f[x]
  \/ f.distance # None /\ o.distance > f.distance
Unjudged(f, o) ==
  \/ \E x \in Floors : f[x] # None /\ o[x] = None
  \/ f.distance # None /\ o.distance = None

Considered(f, stay, options) ==
  Where(options, LAMBDA o : WithinCaps(f, stay, o) /\ ~Misses(f, o))
Vetted(f, o) == f.star # None /\ o.star = None /\ o.source = "provider_filter"

\* Mutant: what nobody published counts as enough.
QualityOfUnknownPasses(f, o) == "matched"

\* How a bed that is known to miss nothing did.
Quality(f, o) ==
  CASE ~Unjudged(f, o) -> "matched"
    [] Unjudged(f, o) /\ Vetted(f, o) -> "vetted"
    [] OTHER -> "unrated"

Choice(pick, report) == [pick |-> pick, report |-> report]
CheapestOf(options) == <<Least(options, LAMBDA o : <<o.price>>)>>

\* Mutant: the traveller's cap is dropped with the floors.
RelaxedToAnything(f, stay, options) == options

\* Nothing meets the floors: what is within the caps all the same.
Relaxed(f, stay, options) == Where(options, LAMBDA o : WithinCaps(f, stay, o))

\* Cheapest that qualifies; failing that what the provider vouches for, then
\* what nobody rated, then what is within the caps, the last two flagged.
SelectBed(f, stay, options) ==
  LET considered == Considered(f, stay, options)
      Of(q) == Where(considered, LAMBDA o : Quality(f, o) = q)
      relaxed == Relaxed(f, stay, options)
      report == [considered |-> Len(options), matched |-> Len(Of("matched")),
                 vetted |-> Len(Of("vetted")), setAside |-> Len(Of("unrated")),
                 unrated |-> FALSE, belowFloor |-> FALSE]
  IN  CASE Of("matched") # <<>> -> Choice(CheapestOf(Of("matched")), report)
        [] Of("matched") = <<>> /\ Of("vetted") # <<>> -> Choice(CheapestOf(Of("vetted")), report)
        [] Of("matched") \o Of("vetted") = <<>> /\ Of("unrated") # <<>> ->
             Choice(CheapestOf(Of("unrated")), [report EXCEPT !.unrated = TRUE])
        [] considered = <<>> /\ relaxed # <<>> ->
             Choice(CheapestOf(relaxed), [report EXCEPT !.belowFloor = TRUE])
        [] OTHER -> Choice(<<>>, report)

\* select_live_accommodation; without a filter everything offered matches.
SelectLiveAccommodation(hotels, f, type, stay) ==
  SelectBed(f, stay,
            IF f = NoFilter THEN LiveSearch(hotels, f, type, stay)
            ELSE EnrichOptions(hotels, stay, LiveSearch(hotels, f, type, stay)))

\* live_accommodation_cost_eur_per_person
CostOf(pick, stay) == IF pick = <<>> THEN None ELSE PerPerson(stay, pick[1])
LiveBedCost(hotels, f, type, stay) == CostOf(SelectLiveAccommodation(hotels, f, type, stay).pick, stay)

\* live_accommodation_options: cheapest first, what the filter asks and nobody
\* knows last.
BedsListed(hotels, f, type, stay) ==
  LET options == EnrichOptions(hotels, stay, LiveSearch(hotels, f, type, stay))
      Unsure(o) == OneIf(\E x \in {"star", "rating"} : f[x] # None /\ o[x] = None)
  IN  Take(SortedBy(options, LAMBDA o : <<Unsure(o), o.price>>), StaysListed)

\* live_accommodation_property_name and live_accommodation_booking_url: the
\* cheapest of an unfiltered search.
NameOfCheapest(options) == IF options = <<>> THEN <<>> ELSE <<CheapestOf(options)[1].name>>
NamedProperty(hotels, stay) == NameOfCheapest(LiveSearch(hotels, NoFilter, "HOTELS", stay))

\* _accommodation_search_url: that property's own page if the key is there and
\* it can be found, else a search.
BedLink(hotels, stay, attempt, live) ==
  LET LinkTo(name) == IF attempt /\ name # <<>> /\ name[1] \in hotels.pages
                        THEN <<"page", name>> ELSE <<"search", name>>
  IN  LinkTo(IF live THEN NamedProperty(hotels, stay) ELSE <<>>)
=============================================================================
