---------------------------- MODULE ResponseProofs ----------------------------
(***************************************************************************)
(* Proofs about the response of a search (SearchResponse), for any resorts,  *)
(* offers and forecasts that WorldsAssumption allows.                        *)
(*                                                                         *)
(* Every stage of a handler is a function of the world and of the stage      *)
(* before, and ResponseInv says which; so each property is proved of those   *)
(* functions.  First what a trip is (ResultType: its flag and its price      *)
(* agree with the budget), that no two trips are of one resort and day       *)
(* (NoTwins), and that snow moves no price.  Then, for the bed, that one     *)
(* that meets the wishes is among those searched, and how far live prices    *)
(* leave the buffer from its share (Within); for the flights, that no option *)
(* beats a pick (Unbeaten); for the transfers, what the list owes the        *)
(* providers (Serves) and what becomes of that on a card (Kept); and last    *)
(* that two places that quote a trip quote the same price.                   *)
(*                                                                         *)
(* The lemmas about lists are those of SearchResultsProofs.                  *)
(***************************************************************************)
EXTENDS SearchResponse, SearchResultsProofs

-----------------------------------------------------------------------------
\* The trips, and what their fields are.

LiveParts == {"flight", "transfer", "accommodation"}
CostType ==
  [flight : Int, transfer : Int, accommodation : Int, pass : Int, equipment : Int, food : Int, misc : Int,
   live : SUBSET LiveParts, researched : BOOLEAN]
ScoreType ==
  [ski_quality : Int, price : Int, snow : Int, nightlife : Int, convenience : Int, accommodation : Int,
   family : Int]
TripType ==
  [resort : Resort, start : Int, cost : CostType, components : ScoreType, score : Int, within : BOOLEAN]

\* A share, the buffer and a live price are whole numbers.
LEMMA ShareType == ASSUME NEW a \in Int, NEW p \in Nat \ {0} PROVE Share(a, p) \in Int
BY Z3T(60) DEF Share

LEMMA ShareOfNat == ASSUME NEW a \in Nat, NEW p \in Nat \ {0} PROVE Share(a, p) \in Nat
BY Z3T(60) DEF Share

LEMMA BufferType == ASSUME NEW a \in Int PROVE Buffer(a) \in Int
BY ShareType DEF Buffer

\* A value on a scale of a thousand.
LEMMA ClippedType == ASSUME NEW v \in Int PROVE Clipped(v) \in 0..1000
<1>1. PICK m \in Int : m = Min({1000, v}) /\ m <= 1000
  BY MinOfTwo
<1>2. Clipped(v) = Max({0, m})
  BY <1>1 DEF Clipped
<1>3. Max({0, m}) = IF 0 <= m THEN m ELSE 0
  BY MaxOfTwo
<1>4. QED
  BY <1>1, <1>2, <1>3

\* What is largest and least among finitely many values.
LEMMA ExtremesAmong ==
  ASSUME NEW n \in Nat \ {0}, NEW f \in [1..n -> Int], NEW S, S = {f[i] : i \in 1..n}
  PROVE  /\ Min(S) \in S /\ \A x \in S : Min(S) <= x
         /\ Max(S) \in S /\ \A x \in S : x <= Max(S)
<1> DEFINE up == [i \in 1..n |-> <<f[i]>>]
           down == [i \in 1..n |-> <<-f[i]>>]
<1>1. \A i \in 1..n : f[i] \in Int /\ -f[i] \in Int
  OBVIOUS
<1>2. up \in [1..n -> [1..1 -> Int]] /\ down \in [1..n -> [1..1 -> Int]]
  BY <1>1, OneNumber
<1>3. \A i \in 1..n : up[i] = <<f[i]>> /\ down[i] = <<-f[i]>>
  OBVIOUS
<1> HIDE DEF up, down
<1>4. \E a \in 1..n : \A j \in 1..n : f[a] <= f[j]
  <2>1. PICK a \in 1..n : \A j \in 1..n : j = a \/ GoesBefore(up, a, j)
    BY <1>2, LeastPlaceFacts
  <2>2. ASSUME NEW j \in 1..n, j # a PROVE f[a] <= f[j]
    <3>1. Before(<<f[a]>>, <<f[j]>>) \/ <<f[a]>> = <<f[j]>>
      BY <1>3, <2>1, <2>2 DEF GoesBefore
    <3>2. <<f[a]>> = <<f[j]>> => f[a] = f[j]
      OBVIOUS
    <3>3. QED
      BY <1>1, <3>1, <3>2, BeforeOne
  <2>3. \A j \in 1..n : f[a] <= f[j]
    BY <1>1, <2>2
  <2>4. QED
    BY <2>3
<1>5. \E a \in 1..n : \A j \in 1..n : f[j] <= f[a]
  <2>1. PICK a \in 1..n : \A j \in 1..n : j = a \/ GoesBefore(down, a, j)
    BY <1>2, LeastPlaceFacts
  <2>2. ASSUME NEW j \in 1..n, j # a PROVE f[j] <= f[a]
    <3>1. Before(<<-f[a]>>, <<-f[j]>>) \/ <<-f[a]>> = <<-f[j]>>
      BY <1>3, <2>1, <2>2 DEF GoesBefore
    <3>2. <<-f[a]>> = <<-f[j]>> => -f[a] = -f[j]
      OBVIOUS
    <3>3. -f[a] < -f[j] \/ -f[a] = -f[j]
      BY <1>1, <3>1, <3>2, BeforeOne
    <3>4. QED
      BY <1>1, <3>3
  <2>3. \A j \in 1..n : f[j] <= f[a]
    BY <1>1, <2>2
  <2>4. QED
    BY <2>3
<1>6. Min(S) \in S /\ \A x \in S : Min(S) <= x
  <2>1. \E x \in S : \A y \in S : x <= y
    BY <1>4
  <2>2. QED
    BY <2>1 DEF Min
<1>7. Max(S) \in S /\ \A x \in S : x <= Max(S)
  <2>1. \E x \in S : \A y \in S : x >= y
    <3>1. PICK a \in 1..n : \A j \in 1..n : f[j] <= f[a]
      BY <1>5
    <3>2. \A y \in S : f[a] >= y
      BY <1>1, <3>1
    <3>3. QED
      BY <3>2
  <2>2. Max(S) \in S /\ \A y \in S : Max(S) >= y
    BY <2>1 DEF Max
  <2>3. S \subseteq Int
    BY <1>1
  <2>4. QED
    BY <2>2, <2>3
<1>8. QED
  BY <1>6, <1>7

\* One more part may be said to be live.
LEMMA LiveName ==
  ASSUME NEW cost \in CostType, NEW name \in LiveParts
  PROVE  cost.live \cup {name} \in SUBSET LiveParts
BY DEF CostType

LEMMA LiveType ==
  ASSUME NEW cost \in CostType, NEW part \in LiveParts, NEW price \in Int
  PROVE  ApplyLivePrice(cost, part, price) \in CostType
<1>1. cost[part] \in Int
  BY DEF CostType, LiveParts
<1>2. PICK misc \in Int : misc = cost.misc + Buffer(price - cost[part])
  <2>1. Buffer(price - cost[part]) \in Int
    BY <1>1, BufferType
  <2>2. QED
    BY <2>1 DEF CostType
<1>3. PICK names \in SUBSET LiveParts : names = cost.live \cup {part}
  BY LiveName
<1>4. CASE part = "flight"
  <2>1. ApplyLivePrice(cost, part, price) = [cost EXCEPT !.flight = price, !.live = names, !.misc = misc]
    BY <1>2, <1>3, <1>4 DEF ApplyLivePrice
  <2>2. QED
    BY <1>2, <1>3, <2>1 DEF CostType
<1>5. CASE part = "transfer"
  <2>1. ApplyLivePrice(cost, part, price) = [cost EXCEPT !.transfer = price, !.live = names, !.misc = misc]
    BY <1>2, <1>3, <1>5 DEF ApplyLivePrice
  <2>2. QED
    BY <1>2, <1>3, <2>1 DEF CostType
<1>6. CASE part = "accommodation"
  <2>1. ApplyLivePrice(cost, part, price) = [cost EXCEPT !.accommodation = price, !.live = names, !.misc = misc]
    BY <1>2, <1>3, <1>6 DEF ApplyLivePrice
  <2>2. QED
    BY <1>2, <1>3, <2>1 DEF CostType
<1>7. QED
  BY <1>4, <1>5, <1>6 DEF LiveParts

\* A number among others, on their scale.
LEMMA NormalizedType ==
  ASSUME NEW n \in Nat \ {0}, NEW f \in [1..n -> Int], NEW S, S = {f[i] : i \in 1..n}, NEW v \in Int
  PROVE  Normalized(v, S) \in Int
<1>1. PICK low \in Int, high \in Int : low = Min(S) /\ high = Max(S) /\ low <= high
  <2>1. Min(S) \in S /\ Max(S) \in S /\ Min(S) <= Max(S)
    BY ExtremesAmong
  <2>2. QED
    BY <2>1
<1>2. CASE high = low
  BY <1>1, <1>2 DEF Normalized
<1>3. CASE high # low
  <2>1. high - low \in Nat \ {0}
    BY <1>1, <1>3
  <2>2. PICK rise \in Int : rise = Max({0, v - low})
    <3>1. PICK d \in Int : d = v - low
      OBVIOUS
    <3>2. Max({0, d}) \in Int
      BY MaxOfTwo
    <3>3. QED
      BY <3>1, <3>2
  <2>3. PICK quota \in Int : quota = Share(1000 * rise, high - low)
    BY <2>1, ShareType
  <2>4. PICK c \in 0..1000 : c = Clipped(quota)
    BY <2>3, ClippedType, ZenonT(60)
  <2>5. Normalized(v, S) = Clipped(quota)
    BY <1>1, <1>3, <2>2, <2>3 DEF Normalized
  <2>6. QED
    BY <2>4, <2>5
<1>4. QED
  BY <1>2, <1>3

-----------------------------------------------------------------------------
\* What the traveller asks for.

PrefsType(prefs) ==
  /\ prefs.stay.nights \in 2..31 /\ prefs.stay.group \in 1..20 /\ prefs.stay.rooms \in Nat
  /\ prefs.budget \in Nat \ {0} /\ prefs.topN \in Nat \ {0}
  /\ prefs.skill \in DOMAIN QualityWeights /\ prefs.tier \in DOMAIN TierTarget
  /\ prefs.food \in {"budget", "normal", "luxury"} /\ prefs.equipment \in DOMAIN EquipmentPerDay
  /\ prefs.weights \in [Dimensions -> Nat] /\ Sum0(prefs.weights) \in Nat \ {0}

\* The weights cover every dimension and sum to more than nothing.
LEMMA FullWeightsType ==
  ASSUME NEW given \in SUBSET Dimensions, NEW weights \in [given -> Nat], Sum0(weights) > 0
  PROVE  /\ FullWeights(weights) \in [Dimensions -> Nat]
         /\ Sum0(FullWeights(weights)) \in Nat \ {0}
<1> DEFINE full == FullWeights(weights)
           W(d) == Weight(weights, d)
<1>1. \A d \in Dimensions : W(d) \in Nat
  BY DEF Weight
<1>2. PICK total \in Nat \ {0} : total = Sum0(weights)
  <2>1. Sum0(weights) \in Nat
    BY <1>1 DEF Sum0, OverDimensions, Dimensions
  <2>2. QED
    BY <2>1
<1>3. \A d \in Dimensions : DefaultWeights[d] \in Nat /\ d \in DOMAIN DefaultWeights
  BY DEF Dimensions, DefaultWeights
<1>4. DOMAIN DefaultWeights = Dimensions /\ given \cup Dimensions = Dimensions /\ DOMAIN weights = given
  BY DEF Dimensions, DefaultWeights
<1>5. full = [d \in Dimensions |-> IF d \in given THEN 100 * weights[d] ELSE DefaultWeights[d] * total]
  BY <1>2, <1>4 DEF FullWeights
<1>6. \A d \in Dimensions : full[d] \in Nat /\ full[d] >= 100 * W(d)
  <2> SUFFICES ASSUME NEW d \in Dimensions PROVE full[d] \in Nat /\ full[d] >= 100 * W(d)
    OBVIOUS
  <2>1. CASE d \in given
    <3>1. full[d] = 100 * weights[d] /\ W(d) = weights[d] /\ weights[d] \in Nat
      BY <1>4, <1>5, <2>1 DEF Weight
    <3>2. QED
      BY <3>1
  <2>2. CASE d \notin given
    <3>1. full[d] = DefaultWeights[d] * total /\ W(d) = 0
      BY <1>4, <1>5, <2>2 DEF Weight
    <3>2. PICK k \in Nat : k = DefaultWeights[d]
      BY <1>3
    <3>3. k * total \in Nat
      OBVIOUS
    <3>4. QED
      BY <3>1, <3>2, <3>3
  <2>3. QED
    BY <2>1, <2>2
<1>7. full \in [Dimensions -> Nat]
  BY <1>5, <1>6
<1>8. \A d \in Dimensions : Weight(full, d) = full[d]
  BY <1>7 DEF Weight
<1> HIDE DEF full, W
<1>9. Sum0(full) \in Nat /\ Sum0(full) >= 100 * total
  <2>1. total = W("ski_quality") + W("price") + W("snow") + W("nightlife") + W("convenience") +
                W("accommodation") + W("family")
    BY <1>2 DEF Sum0, OverDimensions, W
  <2>2. Sum0(full) = full["ski_quality"] + full["price"] + full["snow"] + full["nightlife"] +
                     full["convenience"] + full["accommodation"] + full["family"]
    BY <1>8 DEF Sum0, OverDimensions, Dimensions
  <2>3. QED
    BY <1>1, <1>6, <2>1, <2>2 DEF Dimensions
<1>10. QED
  BY <1>7, <1>9 DEF full

-----------------------------------------------------------------------------
\* What a trip is estimated to cost.

\* The parts of an estimate, one by one, and their sum.
LEMMA RoundTripCostType ==
  ASSUME NEW o \in CuratedOption, NEW group \in 1..20
  PROVE  RoundTripCost(o, group) \in Nat
<1>1. o.cost \in Nat
  BY DEF CuratedOption
<1>2. VehiclesNeeded(o, group) \in Nat
  <2>1. CASE o.perVehicle /\ o.capacity \notin {None, 0}
    <3>1. PICK c \in Nat \ {0} : c = o.capacity
      BY <2>1 DEF CuratedOption
    <3>2. (group + c - 1) \div c \in Nat
      BY Z3T(60)
    <3>3. QED
      BY <2>1, <3>1, <3>2 DEF VehiclesNeeded
  <2>2. QED
    BY <2>1 DEF VehiclesNeeded
<1>3. PICK n \in Nat : n = VehiclesNeeded(o, group)
  BY <1>2
<1>4. PICK c \in Nat : c = o.cost
  BY <1>1
<1>5. c * n \in Nat
  OBVIOUS
<1>6. Share(c * n, group) \in Nat
  BY <1>5, ShareOfNat
<1>7. PICK once \in Nat : once = IF o.perVehicle THEN Share(o.cost * VehiclesNeeded(o, group), group) ELSE o.cost
  BY <1>3, <1>4, <1>6
<1>8. RoundTripCost(o, group) = IF o.roundTrip THEN once ELSE 2 * once
  BY <1>7 DEF RoundTripCost
<1>9. QED
  BY <1>8

LEMMA SelectTransferType ==
  ASSUME NEW table \in Seq(CuratedOption), NEW group \in 1..20, NEW airport, NEW weekday, NEW modes
  PROVE  LET chosen == SelectTransfer(table, group, airport, weekday, modes)
         IN  chosen = <<>> \/ chosen[1] \in CuratedOption
<1> DEFINE open == OptionsFor(table, airport)
           mandatory == Prefer(open, LAMBDA o : o.mandatory)
           running == Prefer(mandatory, LAMBDA o : RunsOn(o, weekday))
           liked == Prefer(running, LAMBDA o : o.mode \in modes)
           key == Mapped(liked, LAMBDA o : <<RoundTripCost(o, group), o.duration>>)
<1>1. open \in Seq(CuratedOption)
  BY AtFacts DEF OptionsFor, Where
<1>2. mandatory \in Seq(CuratedOption)
  BY <1>1, AtFacts DEF Prefer, Where
<1>3. running \in Seq(CuratedOption)
  BY <1>2, AtFacts DEF Prefer, Where
<1>4. liked \in Seq(CuratedOption)
  BY <1>3, AtFacts DEF Prefer, Where
<1>5. SelectTransfer(table, group, airport, weekday, modes) =
        IF liked = <<>> THEN <<>> ELSE <<liked[LeastPlace(key)]>>
  BY DEF SelectTransfer, Least, PlaceOfLeast
<1>6. key = [i \in DOMAIN liked |-> <<RoundTripCost(liked[i], group), liked[i].duration>>]
  BY DEF Mapped
<1> HIDE DEF open, mandatory, running, liked, key
<1>7. CASE liked # <<>>
  <2>1. PICK n \in Nat \ {0} : n = Len(liked) /\ DOMAIN liked = 1..n
    BY <1>4, <1>7
  <2>2. \A i \in 1..n : liked[i] \in CuratedOption
    BY <1>4, <2>1
  <2>3. \A i \in 1..n : <<RoundTripCost(liked[i], group), liked[i].duration>> \in [1..2 -> Int]
    <3> SUFFICES ASSUME NEW i \in 1..n PROVE <<RoundTripCost(liked[i], group), liked[i].duration>> \in [1..2 -> Int]
      OBVIOUS
    <3>1. PICK o \in CuratedOption : o = liked[i]
      BY <2>2
    <3>2. PICK cost \in Nat : cost = RoundTripCost(o, group)
      BY RoundTripCostType
    <3>3. PICK time \in Nat : time = o.duration
      BY DEF CuratedOption
    <3>4. <<cost, time>> \in [1..2 -> Int]
      BY TwoNumbers
    <3>5. QED
      BY <3>1, <3>2, <3>3, <3>4
  <2>4. key \in [1..n -> [1..2 -> Int]]
    BY <1>6, <2>1, <2>3
  <2>5. LeastPlace(key) \in 1..n
    BY <2>4, LeastPlaceFacts
  <2>6. QED
    BY <1>5, <1>7, <2>2, <2>5
<1>8. QED
  BY <1>5, <1>7

LEMMA TransferCostType ==
  ASSUME NEW resort \in Resort, NEW group \in 1..20, NEW date, NEW modes
  PROVE  TransferCost(resort, group, date, modes) \in Int
<1>1. resort.transfers \in Seq(CuratedOption) /\ resort.distance \in Nat
  BY DEF Resort
<1>2. PICK chosen : chosen = SelectTransfer(resort.transfers, group, None, date.weekday, modes) /\
                    (chosen = <<>> \/ chosen[1] \in CuratedOption)
  BY <1>1, SelectTransferType
<1>3. ASSUME chosen # <<>> PROVE RoundTripCost(chosen[1], group) \in Nat
  BY <1>2, <1>3, RoundTripCostType
<1>4. FormulaTransferCost(resort, group) \in Int
  <2>1. GroupScale[group] \in Nat \ {0}
    BY GroupScaleAssumption
  <2>2. PICK scale \in Nat \ {0} : scale = Max({100, GroupScale[group]})
    <3>1. PICK g \in Nat \ {0} : g = GroupScale[group]
      BY <2>1
    <3>2. Max({100, g}) = IF 100 <= g THEN g ELSE 100
      BY MaxOfTwo
    <3>3. QED
      BY <3>1, <3>2
  <2>3. PICK fare \in Int : fare = Max({2 * (1500 + 22 * resort.distance), 5000})
    <3>1. PICK d \in Int : d = 2 * (1500 + 22 * resort.distance)
      BY <1>1
    <3>2. Max({d, 5000}) = IF d <= 5000 THEN 5000 ELSE d
      BY MaxOfTwo
    <3>3. QED
      BY <3>1, <3>2
  <2>4. Share(100 * fare, scale) \in Int
    BY ShareType
  <2>5. QED
    BY <2>2, <2>3, <2>4 DEF FormulaTransferCost
<1>5. QED
  BY <1>2, <1>3, <1>4 DEF TransferCost

LEMMA SeasonType == ASSUME NEW date PROVE Season(date) \in {100, 110, 118}
<1>1. SeasonBand(date) \in {"peak", "high", "shoulder"}
  BY DEF SeasonBand
<1>2. QED
  BY <1>1 DEF Season, SeasonMultiplier

LEMMA AccommodationCostType ==
  ASSUME NEW resort \in Resort, NEW stay, stay.nights \in 2..31, stay.group \in 1..20, stay.rooms \in Nat, NEW date
  PROVE  AccommodationCost(resort, stay, date) \in Int
<1>1. PICK season \in Nat : season = Season(date)
  BY SeasonType
<1>2. PICK nightly \in Nat : nightly = resort.nightly
  BY DEF Resort
<1>3. PICK nights \in Nat : nights = stay.nights
  OBVIOUS
<1>4. PICK rooms \in Nat : rooms = stay.rooms
  OBVIOUS
<1>5. PICK group \in Nat \ {0} : group = stay.group
  OBVIOUS
<1>6. nightly * (100 + season) \in Nat
  OBVIOUS
<1>7. nightly * (100 + season) * nights \in Nat
  BY <1>6
<1>8. nightly * (100 + season) * nights * rooms \in Nat
  BY <1>7
<1>9. Share(nightly * (100 + season) * nights * rooms, 200 * group) \in Int
  BY <1>8, ShareType
<1>10. QED
  BY <1>1, <1>2, <1>9, <1>3, <1>4, <1>5 DEF AccommodationCost

LEMMA SkiPassCostType ==
  ASSUME NEW resort \in Resort, NEW days \in 1..30, NEW date
  PROVE  SkiPassCost(resort, days, date) \in Int
<1>1. PassDayMultiplier(days) \in Int
  BY DEF PassDayMultiplier
<1>2. Season(date) \in Nat
  BY SeasonType
<1>3. PICK a \in Int, b \in {1, 18, 100, 118} :
        <<a, b>> = IF PassResearched(resort) THEN ResearchedSixDays(resort.pass, date)
                   ELSE <<resort.pass6 * Season(date), 100>>
  <2>1. PICK season \in Nat, six \in Nat : season = Season(date) /\ six = resort.pass6
    BY <1>2 DEF Resort
  <2>2. six * season \in Int
    OBVIOUS
  <2>3. CASE ~PassResearched(resort)
    BY <2>1, <2>2, <2>3
  <2>4. CASE PassResearched(resort)
    <3>1. PICK low \in Nat \cup {None}, high \in Nat \cup {None} : low = resort.pass.shoulder /\ high = resort.pass.peak
      BY DEF Resort
    <3>2. low * season \in Int /\ high * season \in Int /\ low \in Int /\ high \in Int
      BY DEF None
    <3>3. CASE low # None /\ high # None
      <4>1. 18 * low + 10 * (high - low) \in Int
        BY <3>2
      <4>2. ResearchedSixDays(resort.pass, date) \in {<<high, 1>>, <<low, 1>>, <<18 * low + 10 * (high - low), 18>>}
        BY <3>1, <3>3 DEF ResearchedSixDays
      <4>3. QED
        BY <2>4, <3>2, <4>1, <4>2
    <3>4. CASE low # None /\ high = None
      <4>1. ResearchedSixDays(resort.pass, date) = <<low * season, 100>>
        BY <2>1, <3>1, <3>4 DEF ResearchedSixDays
      <4>2. QED
        BY <2>4, <3>2, <4>1
    <3>5. CASE low = None
      <4>1. ResearchedSixDays(resort.pass, date) = <<high * season, 118>>
        BY <2>1, <3>1, <3>5 DEF ResearchedSixDays
      <4>2. QED
        BY <2>4, <3>2, <4>1
    <3>6. QED
      BY <3>3, <3>4, <3>5
  <2>5. QED
    BY <2>3, <2>4
<1>4. PICK m \in Int : m = PassDayMultiplier(days)
  BY <1>1
<1>5. a * days \in Int
  OBVIOUS
<1>6. a * days * m \in Int
  BY <1>5
<1>7. 600 * b \in Nat \ {0}
  OBVIOUS
<1>8. Share(a * days * m, 600 * b) \in Int
  BY <1>6, <1>7, ShareType
<1>9. SkiPassCost(resort, days, date) = Share(a * days * m, 600 * b)
  <2> DEFINE six == IF PassResearched(resort) THEN ResearchedSixDays(resort.pass, date)
                    ELSE <<resort.pass6 * Season(date), 100>>
  <2>1. SkiPassCost(resort, days, date) = Share(six[1] * days * PassDayMultiplier(days), 600 * six[2])
    BY DEF SkiPassCost
  <2>2. six = <<a, b>>
    BY <1>3
  <2> HIDE DEF six
  <2>3. six[1] = a /\ six[2] = b
    BY <2>2
  <2>4. QED
    BY <1>4, <2>1, <2>3
<1>10. QED
  BY <1>8, <1>9

LEMMA TripCostType ==
  ASSUME NEW resort \in Resort, NEW prefs, PrefsType(prefs), NEW date
  PROVE  ComputeTripCost(resort, prefs, date) \in CostType
<1>1. PICK nights \in 2..31, group \in 1..20 : nights = prefs.stay.nights /\ group = prefs.stay.group
  BY DEF PrefsType
<1>2. PICK transfer \in Int : transfer = TransferCost(resort, prefs.stay.group, date, prefs.modes)
  BY <1>1, TransferCostType
<1>3. PICK bed \in Int : bed = AccommodationCost(resort, prefs.stay, date)
  BY AccommodationCostType DEF PrefsType
<1>4. PICK pass \in Int : pass = SkiPassCost(resort, prefs.stay.nights - 1, date)
  BY <1>1, SkiPassCostType
<1>5. PICK kit \in Int : kit = EquipmentPerDay[prefs.equipment] * (prefs.stay.nights - 1)
  <2>1. PICK perDay \in Nat : perDay = EquipmentPerDay[prefs.equipment]
    BY DEF PrefsType, EquipmentPerDay
  <2>2. perDay * (nights - 1) \in Int
    OBVIOUS
  <2>3. QED
    BY <1>1, <2>1, <2>2
<1>6. PICK food \in Int : food = FoodPerDay(resort.west)[prefs.food] * prefs.stay.nights
  <2>1. PICK perDay \in Nat : perDay = FoodPerDay(resort.west)[prefs.food]
    BY DEF PrefsType, FoodPerDay
  <2>2. perDay * nights \in Int
    OBVIOUS
  <2>3. QED
    BY <1>1, <2>1, <2>2
<1>7. PICK flight \in Int : flight = resort.flight
  BY DEF Resort
<1>8. PICK known \in BOOLEAN : known = PassResearched(resort)
  BY DEF PassResearched
<1> DEFINE bare == [flight |-> flight, transfer |-> transfer, accommodation |-> bed, pass |-> pass,
                    equipment |-> kit, food |-> food, misc |-> 0, live |-> {}, researched |-> known]
<1>9. ComputeTripCost(resort, prefs, date) = [bare EXCEPT !.misc = Buffer(Subtotal(bare))]
  BY <1>2, <1>3, <1>4, <1>5, <1>6, <1>7, <1>8 DEF ComputeTripCost
<1>10. bare \in CostType
  BY DEF CostType
<1> HIDE DEF bare
<1>11. Subtotal(bare) \in Int
  BY <1>10 DEF Subtotal, CostType
<1>12. PICK fee \in Int : fee = Buffer(Subtotal(bare))
  BY <1>11, BufferType
<1>13. [bare EXCEPT !.misc = fee] \in CostType
  BY <1>10 DEF CostType
<1>14. QED
  BY <1>9, <1>12, <1>13

LEMMA TotalType ==
  ASSUME NEW cost \in CostType
  PROVE  Subtotal(cost) \in Int /\ TotalEur(cost) \in Int /\ cost.misc \in Int
BY DEF CostType, Subtotal, TotalEur

-----------------------------------------------------------------------------
\* What a trip is worth.

\* The scores.
LEMMA PriceScoreType ==
  ASSUME NEW prefs, PrefsType(prefs), NEW total \in Int
  PROVE  PriceScore(prefs, total) \in Int
<1>1. PICK share \in Int : share = Share(1000 * total, prefs.budget)
  <2>1. PICK budget \in Nat \ {0} : budget = prefs.budget
    BY DEF PrefsType
  <2>2. PICK a \in Int : a = 1000 * total
    OBVIOUS
  <2>3. Share(a, budget) \in Int
    BY ShareType
  <2>4. QED
    BY <2>1, <2>2, <2>3
<1>2. PICK c \in 0..1000 : c = Clipped(1000 - share)
  BY ClippedType
<1>3. QED
  BY <1>1, <1>2 DEF PriceScore

LEMMA WeightedScoreType ==
  ASSUME NEW components \in ScoreType, NEW weights \in [Dimensions -> Nat], Sum0(weights) \in Nat \ {0}
  PROVE  WeightedScore(components, weights) \in Int
<1> DEFINE F(d) == components[d] * Weight(weights, d)
<1>1. \A d \in Dimensions : F(d) \in Int
  <2> SUFFICES ASSUME NEW d \in Dimensions PROVE F(d) \in Int
    OBVIOUS
  <2>1. components[d] \in Int
    BY DEF ScoreType, Dimensions
  <2>2. Weight(weights, d) \in Int
    BY DEF Weight
  <2>3. QED
    BY <2>1, <2>2
<1> HIDE DEF F
<1>2. PICK sum \in Int : sum = F("ski_quality") + F("price") + F("snow") + F("nightlife") + F("convenience") +
                              F("accommodation") + F("family")
  BY <1>1 DEF Dimensions
<1>3. WeightedScore(components, weights) = Share(10 * sum, Sum0(weights))
  BY <1>2 DEF WeightedScore, OverDimensions, F
<1>4. Share(10 * sum, Sum0(weights)) \in Int
  BY ShareType
<1>5. QED
  BY <1>3, <1>4

LEMMA TerrainMatchType ==
  ASSUME NEW terrain \in [beginner : Nat, intermediate : Nat, advanced : Nat], NEW skill
  PROVE  TerrainMatch(terrain, skill) \in Int
<1>1. FractionForSkill(terrain, skill) \in Int /\ ChallengeForSkill(terrain, skill) \in Int
  BY DEF FractionForSkill, ChallengeForSkill
<1>2. QED
  BY <1>1 DEF TerrainMatch

LEMMA SkiQualityType ==
  ASSUME NEW resort \in Resort, NEW skill \in DOMAIN QualityWeights, NEW piste \in Int
  PROVE  SkiQuality(resort, skill, piste) \in Int
<1>1. PICK a \in Nat \ {0}, b \in Nat, c \in Nat : QualityWeights[skill] = <<a, b, c>>
  BY DEF QualityWeights
<1>2. PICK off \in Nat : off = resort.offPiste
  BY DEF Resort
<1>3. a * piste \in Int /\ b * 200 * off \in Int
  <2>1. b * 200 \in Int
    OBVIOUS
  <2>2. QED
    BY <2>1
<1>4. CASE resort.terrain = {}
  <2>1. SkiQuality(resort, skill, piste) = Share(a * piste + b * 200 * off, a + b)
    BY <1>1, <1>2, <1>4 DEF SkiQuality
  <2>2. a + b \in Nat \ {0}
    OBVIOUS
  <2>3. QED
    BY <1>3, <2>1, <2>2, ShareType
<1>5. CASE resort.terrain # {}
  <2>1. PICK t : t = (CHOOSE x \in resort.terrain : TRUE)
    OBVIOUS
  <2>2. t \in resort.terrain
    BY <1>5, <2>1
  <2>3. resort.terrain \in SUBSET [beginner : Nat, intermediate : Nat, advanced : Nat]
    BY DEF Resort
  <2>4. PICK match \in Int : match = TerrainMatch(t, skill)
    BY <2>2, <2>3, TerrainMatchType
  <2>5. c * match \in Int
    OBVIOUS
  <2>6. SkiQuality(resort, skill, piste) = Share(a * piste + b * 200 * off + c * match, 100)
    BY <1>1, <1>2, <1>5, <2>1, <2>4 DEF SkiQuality
  <2>7. QED
    BY <1>3, <2>5, <2>6, ShareType
<1>6. QED
  BY <1>4, <1>5

\* A number of a resort, on the scale of all resorts.
LEMMA AmongType ==
  ASSUME NEW resorts \in Seq(Resort), Len(resorts) # 0,
         NEW field \in {"piste", "transferMinutes", "nightly"}, NEW v \in Nat
  PROVE  Normalized(v, {resorts[i][field] : i \in DOMAIN resorts}) \in Int
<1>1. PICK n \in Nat \ {0} : n = Len(resorts) /\ DOMAIN resorts = 1..n
  OBVIOUS
<1> DEFINE f == [i \in 1..n |-> resorts[i][field]]
<1>2. \A i \in 1..n : resorts[i] \in Resort
  BY <1>1
<1>3. \A i \in 1..n : resorts[i][field] \in Int
  <2> SUFFICES ASSUME NEW i \in 1..n PROVE resorts[i][field] \in Int
    OBVIOUS
  <2>1. PICK r \in Resort : r = resorts[i]
    BY <1>2
  <2>2. r.piste \in Int /\ r.transferMinutes \in Int /\ r.nightly \in Int
    BY DEF Resort
  <2>3. QED
    BY <2>1, <2>2
<1>4. f \in [1..n -> Int]
  BY <1>3
<1>5. {resorts[i][field] : i \in DOMAIN resorts} = {f[i] : i \in 1..n}
  BY <1>1
<1> HIDE DEF f
<1>6. Normalized(v, {f[i] : i \in 1..n}) \in Int
  BY <1>4, NormalizedType
<1>7. QED
  BY <1>5, <1>6

LEMMA ComponentsType ==
  ASSUME NEW resort \in Resort, NEW prefs, PrefsType(prefs), NEW total \in Int,
         NEW resorts \in Seq(Resort), Len(resorts) # 0
  PROVE  Components(resort, prefs, total, resorts) \in ScoreType
<1>1. /\ resort.piste \in Nat /\ resort.transferMinutes \in Nat /\ resort.nightly \in Nat
      /\ resort.snow \in Nat /\ resort.nightlife \in Nat /\ resort.family \in Nat
  BY DEF Resort
<1> DEFINE Among(field) == {resorts[i][field] : i \in DOMAIN resorts}
<1>2. PICK piste \in Int : piste = Normalized(resort.piste, Among("piste"))
  BY <1>1, AmongType
<1>3. PICK way \in Int : way = Normalized(resort.transferMinutes, Among("transferMinutes"))
  BY <1>1, AmongType
<1>4. PICK rate \in Int : rate = Normalized(resort.nightly, Among("nightly"))
  BY <1>1, AmongType
<1>5. PICK ski \in Int : ski = SkiQuality(resort, prefs.skill, piste)
  BY SkiQualityType DEF PrefsType
<1>6. PICK price \in Int : price = PriceScore(prefs, total)
  BY PriceScoreType
<1>7. PICK bed \in Int : bed = 1000 - Apart(rate, TierTarget[prefs.tier])
  <2>1. PICK tier \in Int : tier = TierTarget[prefs.tier]
    BY DEF PrefsType, TierTarget
  <2>2. QED
    BY <2>1 DEF Apart
<1>8. PICK snow \in Int, night \in Int, family \in Int, near \in Int :
        snow = 200 * resort.snow /\ night = 200 * resort.nightlife /\ family = 200 * resort.family /\
        near = 1000 - way
  BY <1>1, SMTT(40)
<1>9. Components(resort, prefs, total, resorts) =
        [ski_quality |-> ski, price |-> price, snow |-> snow, nightlife |-> night, convenience |-> near,
         accommodation |-> bed, family |-> family]
  BY <1>2, <1>3, <1>4, <1>5, <1>6, <1>7, <1>8 DEF Components
<1>10. QED
  BY <1>9 DEF ScoreType

\* A trip as it is estimated, and with the live prices there are.
LEMMA TripTypeHolds ==
  ASSUME NEW resorts \in Seq(Resort), Len(resorts) # 0, NEW resort \in Resort,
         NEW prefs, PrefsType(prefs), NEW cost \in CostType
  PROVE  LET t == Trip(resort, cost, prefs, resorts)
         IN  t \in TripType /\ t.resort = resort /\ t.cost = cost /\ t.within /\ t.start = None
<1>1. TotalEur(cost) \in Int
  BY TotalType
<1>2. PICK parts \in ScoreType : parts = Components(resort, prefs, TotalEur(cost), resorts)
  BY <1>1, ComponentsType
<1>3. PICK score \in Int : score = WeightedScore(parts, prefs.weights)
  BY WeightedScoreType DEF PrefsType
<1>4. Trip(resort, cost, prefs, resorts) =
        [resort |-> resort, start |-> None, cost |-> cost, components |-> parts, score |-> score, within |-> TRUE]
  BY <1>2, <1>3 DEF Trip
<1>5. None \in Int
  BY DEF None
<1>6. QED
  BY <1>4, <1>5 DEF TripType

LivePair == [flight : Int, accommodation : Int]

LEMMA LiveCostType ==
  ASSUME NEW cost \in CostType, NEW live \in LivePair
  PROVE  LiveCost(cost, live) \in CostType
<1>1. PICK flight \in Int, bed \in Int : flight = live.flight /\ bed = live.accommodation
  BY DEF LivePair
<1>2. PICK flown \in CostType : flown = IF live.flight \in {None, cost.flight} THEN cost
                                        ELSE ApplyLivePrice(cost, "flight", live.flight)
  BY <1>1, LiveType DEF LiveParts
<1>3. ApplyLivePrice(flown, "accommodation", live.accommodation) \in CostType
  BY <1>1, LiveType DEF LiveParts
<1>4. QED
  BY <1>2, <1>3 DEF LiveCost

LEMMA WithLivePriceType ==
  ASSUME NEW trip \in TripType, NEW live \in LivePair, NEW prefs, PrefsType(prefs)
  PROVE  LET t == WithLivePrice(trip, live, prefs)
         IN  /\ t \in TripType /\ t.resort = trip.resort /\ t.start = trip.start /\ t.within = trip.within
             /\ t.cost = LiveCost(trip.cost, live)
             /\ t = trip \/ t.cost # trip.cost
<1>1. trip.cost \in CostType /\ trip.components \in ScoreType
  BY DEF TripType
<1>2. PICK cost \in CostType : cost = LiveCost(trip.cost, live)
  BY <1>1, LiveCostType
<1>3. PICK price \in Int : price = PriceScore(prefs, TotalEur(cost))
  <2>1. TotalEur(cost) \in Int
    BY TotalType
  <2>2. QED
    BY <2>1, PriceScoreType
<1>4. PICK parts \in ScoreType : parts = [trip.components EXCEPT !.price = price]
  BY <1>1 DEF ScoreType
<1>5. PICK score \in Int : score = WeightedScore(parts, prefs.weights)
  BY WeightedScoreType DEF PrefsType
<1>6. WithLivePrice(trip, live, prefs) =
        IF cost = trip.cost THEN trip
        ELSE [trip EXCEPT !.cost = cost, !.components = parts, !.score = score]
  BY <1>2, <1>3, <1>4, <1>5 DEF WithLivePrice
<1>7. CASE cost = trip.cost
  BY <1>2, <1>6, <1>7
<1>8. CASE cost # trip.cost
  <2>1. PICK t : t = WithLivePrice(trip, live, prefs)
    OBVIOUS
  <2>2. t = [trip EXCEPT !.cost = cost, !.components = parts, !.score = score]
    BY <1>6, <1>8, <2>1
  <2>3. t \in TripType
    BY <2>2 DEF TripType
  <2>4. t.resort = trip.resort /\ t.start = trip.start /\ t.within = trip.within /\ t.cost = cost
    BY <2>2 DEF TripType
  <2>5. QED
    BY <1>2, <1>8, <2>1, <2>3, <2>4
<1>9. QED
  BY <1>7, <1>8

-----------------------------------------------------------------------------
\* What a handler may have put together at each stage.

Options == IF world.route = "fixed" THEN FixedTrips ELSE DatedTrips
ShownTrips == RankedOnSnow(Options)
CellsOf(shown) == IF world.route = "dates" THEN {Cell(c, shown) : c \in world.series} ELSE {}

\* This is a search made before: only one that asked for transfers is made
\* again, so their answer is in the cache exactly then.
Cached == earlier # <<>>

WorldGiven == \E family \in DOMAIN Worlds : world \in Worlds[family]

ResponseInv ==
  /\ WorldGiven
  /\ quoted \in BOOLEAN
  /\ stage \in {"request", "refused", "ranked", "reranked", "weather", "transfers", "answered"}
  /\ stage \notin {"request", "refused"} => Accepted
  /\ stage = "ranked" => trips = Options
  /\ stage \in {"reranked", "weather", "transfers", "answered"} => before = Options /\ trips = ShownTrips
  /\ stage \in {"weather", "transfers", "answered"} => weather = Forecasts(trips)
  /\ stage \notin {"transfers", "answered"} => (quoted <=> Cached)
  /\ stage \in {"transfers", "answered"} => transfers = Fetched(trips, Cached)
  /\ stage = "answered" => cards = [i \in DOMAIN trips |-> CardAt(i)] /\ calendar = CellsOf(cards)
  /\ stage # "answered" => cards = <<>> /\ calendar = {}

\* It holds before the request is answered.
LEMMA InitResponseInv == ResponseInit => ResponseInv
BY DEF ResponseInit, ResponseInv, WorldGiven, Cached

\* What depends on the request and on what the providers answer stays as it is.
LEMMA SamePrefs == ASSUME world' = world PROVE Prefs' = Prefs
BY DEF Prefs

LEMMA SameLivePrices == ASSUME world' = world PROVE LivePrices' = LivePrices
BY SamePrefs DEF LivePrices

LEMMA SameFixedTrips == ASSUME world' = world PROVE FixedTrips' = FixedTrips
BY SamePrefs, SameLivePrices DEF FixedTrips, DearEnough, Where, Mapped

LEMMA SameEstimates ==
  ASSUME world' = world
  PROVE  /\ \A r, s : EstimateOf(r, s)' = EstimateOf(r, s)
         /\ \A live, t : LiveIf(live, t)' = LiveIf(live, t)
         /\ \A name : ResortNamed(name)' = ResortNamed(name)
<1>1. ASSUME NEW r, NEW s PROVE EstimateOf(r, s)' = EstimateOf(r, s)
  BY SamePrefs DEF EstimateOf, DateOf
<1>2. ASSUME NEW live, NEW t PROVE LiveIf(live, t)' = LiveIf(live, t)
  BY SamePrefs, SameLivePrices DEF LiveIf
<1>3. ASSUME NEW name PROVE ResortNamed(name)' = ResortNamed(name)
  BY DEF ResortNamed
<1>4. QED
  BY <1>1, <1>2, <1>3

LEMMA SameDatedTrips == ASSUME world' = world PROVE DatedTrips' = DatedTrips
<1> DEFINE RowOf(d) == FlaggedTrip(LiveIf(d.live, EstimateOf(ResortNamed(d.resort), d.start)), d.start)
           list == [i \in DOMAIN world.dated |-> RowOf(world.dated[i])]
<1>1. ASSUME NEW t, NEW s PROVE FlaggedTrip(t, s)' = FlaggedTrip(t, s)
  BY SamePrefs DEF FlaggedTrip
<1>2. ASSUME NEW d PROVE RowOf(d)' = RowOf(d)
  BY <1>1, SameEstimates
<1>3. list' = list
  BY <1>2
<1>4. DatedTrips = Where(list, LAMBDA t : TotalEur(t.cost) >= world.request.least)
  BY DEF DatedTrips, DearEnough, Mapped
<1>5. DatedTrips' = Where(list, LAMBDA t : TotalEur(t.cost) >= world.request.least)'
  BY DEF DatedTrips, DearEnough, Mapped
<1> HIDE DEF list
<1>6. QED
  BY <1>3, <1>4, <1>5 DEF Where

LEMMA SameOptions == ASSUME world' = world PROVE Options' = Options
BY SameFixedTrips, SameDatedTrips DEF Options

LEMMA SameShown == ASSUME world' = world PROVE ShownTrips' = ShownTrips
BY SamePrefs, SameOptions DEF ShownTrips, RankedOnSnow, WeatherFrom, ResortNamed, EndOf

LEMMA SameForecasts == ASSUME world' = world, trips' = trips PROVE Forecasts(trips)' = Forecasts(trips)
BY SamePrefs DEF Forecasts, WeatherFrom, EndOf

LEMMA SameFetched ==
  ASSUME world' = world, trips' = trips, NEW cached
  PROVE  Fetched(trips, cached)' = Fetched(trips, cached)
BY SamePrefs DEF Fetched, TransfersOf, Picks, AsksForTransfers

LEMMA SameCards ==
  ASSUME world' = world, trips' = trips, weather' = weather, transfers' = transfers, NEW i
  PROVE  CardAt(i)' = CardAt(i)
<1>1. ASSUME NEW r, NEW n, NEW found, NEW pickup, NEW options
      PROVE  Card(r, n, found, pickup, options)' = Card(r, n, found, pickup, options)
  <2>1. FlightRows(r)' = FlightRows(r)
    BY SamePrefs DEF FlightRows, Picks, Mapped
  <2>2. BedRows(r)' = BedRows(r) /\ BedChoice(r)' = BedChoice(r)
    BY SamePrefs DEF BedRows, BedChoice
  <2>3. FlightLink(r, n)' = FlightLink(r, n)
    BY DEF FlightLink
  <2>4. TransferLink(r, n, pickup)' = TransferLink(r, n, pickup)
    BY SamePrefs DEF TransferLink, Where, Least, PlaceOfLeast, Mapped
  <2>5. QED
    BY <2>1, <2>2, <2>3, <2>4, SamePrefs DEF Card
<1>2. QED
  BY <1>1 DEF CardAt, WithTransfer

LEMMA SameCells ==
  ASSUME world' = world, cards' = cards
  PROVE  CellsOf(cards)' = CellsOf(cards)
<1>1. ASSUME NEW c PROVE Snapshot(c)' = Snapshot(c)
  BY SameEstimates DEF Snapshot
<1>2. ASSUME NEW c PROVE Cell(c, cards)' = Cell(c, cards)
  BY <1>1 DEF Cell
<1>3. {Cell(c, cards) : c \in world.series}' = {Cell(c, cards) : c \in world.series}
  BY <1>2
<1>4. QED
  BY <1>3 DEF CellsOf

LEMMA SameWorld ==
  ASSUME WorldGiven, world' = world
  PROVE  WorldGiven' /\ (Accepted' <=> Accepted) /\ Options' = Options /\ ShownTrips' = ShownTrips
BY SameOptions, SameShown DEF WorldGiven, Accepted

-----------------------------------------------------------------------------
\* Each stage keeps that.

LEMMA RefuseStep == ASSUME ResponseInv, Refuse PROVE ResponseInv'
<1>1. WorldGiven'
  BY SameWorld DEF ResponseInv, Refuse
<1>2. QED
  BY <1>1 DEF ResponseInv, Refuse, Cached

LEMMA SearchStep == ASSUME ResponseInv, SearchTrips \/ TakeDatedRows PROVE ResponseInv'
<1>1. world' = world
  BY DEF SearchTrips, TakeDatedRows
<1>2. WorldGiven' /\ Accepted' /\ Options' = Options
  BY <1>1, SameWorld DEF ResponseInv, SearchTrips, TakeDatedRows
<1>3. trips' = Options
  BY DEF SearchTrips, TakeDatedRows, Options
<1>4. QED
  BY <1>2, <1>3 DEF ResponseInv, SearchTrips, TakeDatedRows, Cached

LEMMA RerankStep == ASSUME ResponseInv, RerankOnSnow PROVE ResponseInv'
<1>1. WorldGiven' /\ Accepted' /\ Options' = Options /\ ShownTrips' = ShownTrips
  BY SameWorld DEF ResponseInv, RerankOnSnow
<1>2. trips' = ShownTrips /\ before' = Options
  BY DEF ResponseInv, RerankOnSnow, ShownTrips
<1>3. QED
  BY <1>1, <1>2 DEF ResponseInv, RerankOnSnow, Cached

LEMMA WeatherStep == ASSUME ResponseInv, PrefetchWeather PROVE ResponseInv'
<1>1. WorldGiven' /\ Accepted' /\ Options' = Options /\ ShownTrips' = ShownTrips
  BY SameWorld DEF ResponseInv, PrefetchWeather
<1>2. weather' = Forecasts(trips)'
  BY SameForecasts DEF PrefetchWeather
<1>3. QED
  BY <1>1, <1>2 DEF ResponseInv, PrefetchWeather, Cached

LEMMA TransfersStep == ASSUME ResponseInv, PrefetchTransfers PROVE ResponseInv'
<1>1. WorldGiven' /\ Accepted' /\ Options' = Options /\ ShownTrips' = ShownTrips
  BY SameWorld DEF ResponseInv, PrefetchTransfers
<1>2. Forecasts(trips)' = Forecasts(trips)
  BY SameForecasts DEF PrefetchTransfers
<1>3. PICK cached \in BOOLEAN : cached = quoted
  BY DEF ResponseInv
<1>4. (cached = Cached) /\ (cached = Cached')
  BY <1>3 DEF ResponseInv, PrefetchTransfers, Cached
<1>5. quoted' \in BOOLEAN
  BY DEF PrefetchTransfers
<1>6. transfers' = Fetched(trips, Cached)'
  <2>1. transfers' = Fetched(trips, cached)'
    BY <1>3, SameFetched DEF PrefetchTransfers
  <2>2. QED
    BY <1>4, <2>1
<1>7. QED
  BY <1>1, <1>2, <1>5, <1>6 DEF ResponseInv, PrefetchTransfers

LEMMA CardsStep == ASSUME ResponseInv, BuildCards PROVE ResponseInv'
<1>1. WorldGiven' /\ Accepted' /\ Options' = Options /\ ShownTrips' = ShownTrips
  BY SameWorld DEF ResponseInv, BuildCards
<1>2. Forecasts(trips)' = Forecasts(trips)
  BY SameForecasts DEF BuildCards
<1>3. PICK cached : (cached = Cached) /\ (cached = Cached')
  BY DEF BuildCards, Cached
<1>4. Fetched(trips, cached)' = Fetched(trips, cached)
  BY SameFetched DEF BuildCards
<1>5. transfers' = Fetched(trips, Cached)'
  BY <1>3, <1>4 DEF ResponseInv, BuildCards
<1>6. cards' = [i \in DOMAIN trips |-> CardAt(i)]'
  <2>1. \A i : CardAt(i)' = CardAt(i)
    BY SameCards DEF BuildCards
  <2>2. QED
    BY <2>1 DEF BuildCards
<1>7. calendar' = CellsOf(cards)'
  <2>1. ASSUME NEW c PROVE Snapshot(c)' = Snapshot(c)
    BY SameEstimates DEF Snapshot, BuildCards
  <2>2. ASSUME NEW c PROVE Cell(c, cards)' = Cell(c, cards')
    BY <2>1 DEF Cell
  <2>3. {Cell(c, cards) : c \in world.series}' = {Cell(c, cards') : c \in world.series}
    BY <2>2 DEF BuildCards
  <2>4. QED
    BY <2>3 DEF BuildCards, CellsOf
<1>8. QED
  BY <1>1, <1>2, <1>5, <1>6, <1>7 DEF ResponseInv, BuildCards

LEMMA RepeatStep == ASSUME ResponseInv, Repeat PROVE ResponseInv'
<1>1. WorldGiven'
  BY SameWorld DEF ResponseInv, Repeat
<1>2. QED
  BY <1>1 DEF ResponseInv, Repeat, Cached

LEMMA NoResponseStep == ASSUME ResponseInv, UNCHANGED responseVars PROVE ResponseInv'
<1> USE DEF responseVars
<1>1. WorldGiven' /\ (Accepted' <=> Accepted) /\ Options' = Options /\ ShownTrips' = ShownTrips
  BY SameWorld DEF ResponseInv
<1>2. Forecasts(trips)' = Forecasts(trips) /\ CellsOf(cards)' = CellsOf(cards)
  BY SameForecasts, SameCells
<1>3. (Cached' <=> Cached) /\ Fetched(trips, Cached)' = Fetched(trips, Cached)
  <2>1. PICK cached : (cached = Cached) /\ (cached = Cached')
    BY DEF Cached
  <2>2. Fetched(trips, cached)' = Fetched(trips, cached)
    BY SameFetched
  <2>3. QED
    BY <2>1, <2>2
<1>4. [i \in DOMAIN trips |-> CardAt(i)]' = [i \in DOMAIN trips |-> CardAt(i)]
  BY SameCards
<1>5. QED
  BY <1>1, <1>2, <1>3, <1>4 DEF ResponseInv

\* And so it always holds.
LEMMA ResponseInvHolds == ResponseSpec => []ResponseInv
<1>1. ASSUME ResponseInv, [ResponseNext]_responseVars PROVE ResponseInv'
  <2>1. ResponseNext => ResponseInv'
    BY <1>1, RefuseStep, SearchStep, RerankStep, WeatherStep, TransfersStep, CardsStep, RepeatStep DEF ResponseNext
  <2>2. QED
    BY <1>1, <2>1, NoResponseStep
<1>2. QED
  BY <1>1, InitResponseInv, PTL DEF ResponseSpec

-----------------------------------------------------------------------------
\* What a request may ask, and what the providers may answer.

\* A world, with what the assumption on the worlds says of it.
LEMMA WorldFacts ==
  ASSUME WorldGiven
  PROVE  /\ world.request \in Request(DOMAIN world.request.weights) /\ DOMAIN world.request.weights \subseteq Dimensions
         /\ world.route \in {"fixed", "dates"} /\ world.start \in Int
         /\ world.resorts \in Seq(Resort)
         /\ \A i, j \in DOMAIN world.resorts : world.resorts[i].name = world.resorts[j].name => i = j
         /\ world.dated \in Seq([resort : NamesOf(world.resorts), start : {d \in Int : d >= CurrentDay}, live : BOOLEAN])
         /\ \A i, j \in DOMAIN world.dated :
              world.dated[i].resort = world.dated[j].resort /\ world.dated[i].start = world.dated[j].start => i = j
         /\ NamesOf(world.resorts) \subseteq DOMAIN world.flights
         /\ \A n \in DOMAIN world.flights :
              /\ world.flights[n] \in Seq(FlightOption) /\ world.routes[n] \in Seq(Rome2RioRoute)
              /\ world.hotels[n] \in Hotels
              /\ world.quote[n] \in [outbound : Seq(Vehicle), back : Seq(Vehicle)]
              /\ world.ground[n] \in [outbound : Seq(Journey), inbound : Seq(Journey)]
<1>1. PICK family \in DOMAIN Worlds : world \in Worlds[family]
  BY DEF WorldGiven
<1>2. QED
  BY <1>1, WorldsAssumption

\* The preferences of an accepted request.
LEMMA PrefsFacts ==
  ASSUME WorldGiven, Allows(world.request)
  PROVE  PrefsType(Prefs)
<1>1. PICK request : request = world.request
  OBVIOUS
<1>2. request \in Request(DOMAIN request.weights) /\ DOMAIN request.weights \subseteq Dimensions
  BY <1>1, WorldFacts
<1>3. /\ request.budget \in Int /\ request.days \in Int /\ request.group \in Int /\ request.topN \in Int
      /\ request.skill \in DOMAIN QualityWeights /\ request.tier \in DOMAIN TierTarget
      /\ request.food \in {"budget", "normal", "luxury"} /\ request.equipment \in DOMAIN EquipmentPerDay
      /\ request.weights \in [DOMAIN request.weights -> Int]
  BY <1>2 DEF Request
<1>4. Allows(request)
  BY <1>1
<1>5. request.weights \in [DOMAIN request.weights -> Nat] /\ Sum0(request.weights) > 0
  BY <1>3, <1>4 DEF Allows
<1>6. PICK weights : weights = FullWeights(request.weights)
  OBVIOUS
<1>7. weights \in [Dimensions -> Nat] /\ Sum0(weights) \in Nat \ {0}
  BY <1>2, <1>5, <1>6, FullWeightsType
<1>8. /\ request.budget > 0 /\ request.days \in 1..30 /\ request.group \in 1..20 /\ request.topN \in 1..30
  BY <1>4 DEF Allows
<1>9. Prefs = Preferences(request)
  BY <1>1 DEF Prefs
<1>10. /\ Prefs.stay = [nights |-> request.days + 1, group |-> request.group, rooms |-> (request.group + 1) \div 2]
       /\ Prefs.weights = weights /\ Prefs.budget = request.budget /\ Prefs.topN = request.topN
       /\ Prefs.skill = request.skill /\ Prefs.tier = request.tier /\ Prefs.food = request.food
       /\ Prefs.equipment = request.equipment
  BY <1>6, <1>9 DEF Preferences
<1>11. Prefs.stay.nights \in 2..31 /\ Prefs.stay.group \in 1..20
  BY <1>8, <1>10
<1>12. Prefs.stay.rooms \in Nat
  <2>1. PICK g \in 1..20 : g = request.group
    BY <1>8
  <2>2. (g + 1) \div 2 \in Nat
    BY Z3T(60)
  <2>3. QED
    BY <1>10, <2>1, <2>2
<1>13. Prefs.budget \in Nat \ {0} /\ Prefs.topN \in Nat \ {0}
  <2>1. request.budget \in Nat \ {0}
    BY <1>3, <1>8
  <2>2. request.topN \in Nat \ {0}
    BY <1>8
  <2>3. QED
    BY <1>10, <2>1, <2>2
<1>14. /\ Prefs.skill \in DOMAIN QualityWeights /\ Prefs.tier \in DOMAIN TierTarget
       /\ Prefs.food \in {"budget", "normal", "luxury"} /\ Prefs.equipment \in DOMAIN EquipmentPerDay
       /\ Prefs.weights \in [Dimensions -> Nat] /\ Sum0(Prefs.weights) \in Nat \ {0}
  BY <1>3, <1>7, <1>10
<1>15. QED
  BY <1>11, <1>12, <1>13, <1>14 DEF PrefsType

-----------------------------------------------------------------------------
\* The beds.

Told == Nat \cup {None}
BedType ==
  [name : STRING, price : Nat, rating : Told, distance : Told, star : Told,
   source : {"none", "published", "provider_filter"}, reviews : Told, amenities : SUBSET STRING]

\* The least of some numbers.
LEMMA LeastOfNats ==
  ASSUME NEW S \in SUBSET Nat, S # {}
  PROVE  Min(S) \in S /\ \A x \in S : Min(S) <= x
<1>1. \E x \in S : \A y \in S : x <= y
  BY LeastNumber
<1>2. QED
  BY <1>1 DEF Min

\* A list made of another, element by element.
LEMMA SameLength ==
  ASSUME NEW T, NEW U, NEW seq \in Seq(T), NEW m \in [DOMAIN seq -> U]
  PROVE  m \in Seq(U) /\ Len(m) = Len(seq) /\ DOMAIN m = 1..Len(seq)
<1>1. PICK n \in Nat : n = Len(seq) /\ DOMAIN seq = 1..n
  OBVIOUS
<1>2. QED
  BY <1>1

\* The elements of a list, one by one.
LEMMA ElementsIn ==
  ASSUME NEW T, NEW seq \in Seq(T)
  PROVE  DOMAIN seq = 1..Len(seq) /\ \A i \in DOMAIN seq : seq[i] \in T
OBVIOUS

\* Sorting by one number rearranges.
LEMMA SortedByNumber ==
  ASSUME NEW T, NEW seq \in Seq(T), NEW number \in [DOMAIN seq -> Int], NEW key,
         key = [i \in DOMAIN seq |-> <<number[i]>>]
  PROVE  /\ key \in [DOMAIN seq -> [1..1 -> Int]] /\ SameRows(Sorted(seq, key), seq, T)
         /\ Sorted(seq, key) \in Seq(T) /\ Len(Sorted(seq, key)) = Len(seq)
<1>1. key \in [DOMAIN seq -> [1..1 -> Int]]
  <2>1. \A i \in DOMAIN seq : <<number[i]>> \in [1..1 -> Int]
    BY OneNumber
  <2>2. QED
    BY <2>1
<1>2. SameRows(Sorted(seq, key), seq, T)
  BY <1>1, SortedFacts
<1>3. QED
  BY <1>1, <1>2 DEF SameRows

\* The beds: what each source lists, and what the first of them answers.
LEMMA NearestLiftType ==
  ASSUME NEW position \in Told, NEW lifts \in SUBSET Nat
  PROVE  NearestLift(position, lifts) \in Told
<1>1. CASE position = None \/ lifts = {}
  BY <1>1 DEF NearestLift, Told
<1>2. CASE ~(position = None \/ lifts = {})
  <2>1. position \in Nat
    BY <1>2 DEF Told
  <2>2. PICK S : S = {IF l < position THEN position - l ELSE l - position : l \in lifts}
    OBVIOUS
  <2>3. S \in SUBSET Nat /\ S # {}
    BY <1>2, <2>1, <2>2
  <2>4. NearestLift(position, lifts) = Min(S)
    BY <1>2, <2>2 DEF NearestLift
  <2>5. QED
    BY <2>3, <2>4, LeastOfNats DEF Told
<1>3. QED
  BY <1>1, <1>2

\* What the second source lists.
LEMMA StaysType ==
  ASSUME NEW hotels \in Hotels, NEW f, NEW type, NEW stay
  PROVE  StaysHotels(hotels.stays, hotels.resort, f, type, stay) \in Seq(BedType)
<1>1. hotels.stays \in Seq(Listing) /\ LiftPoints(hotels.resort) \in SUBSET Nat
  BY DEF Hotels, LiftPoints
<1> DEFINE asked0 == ProviderFilters(f, stay)
           found == Where(hotels.stays, LAMBDA e : e.type = type /\ Admits(asked0, e))
           usable == Where(found, LAMBDA e : e.name # "" /\ e.price > 0)
           BedOf(e) == Bed(e.name, e.price, e.rating, NearestLift(e.position, LiftPoints(hotels.resort)), e.star,
                           CASE e.star # None -> "published"
                             [] e.star = None /\ f.star # None -> "provider_filter"
                             [] OTHER -> "none",
                           e.reviews, e.amenities)
           beds == [i \in DOMAIN usable |-> BedOf(usable[i])]
<1>2. found \in Seq(Listing)
  BY <1>1, AtFacts DEF Where
<1>3. usable \in Seq(Listing)
  BY <1>2, AtFacts DEF Where
<1>4. \A e \in Listing : BedOf(e) \in BedType
  <2> SUFFICES ASSUME NEW e \in Listing PROVE BedOf(e) \in BedType
    OBVIOUS
  <2>1. PICK distance \in Told : distance = NearestLift(e.position, LiftPoints(hotels.resort))
    <3>1. e.position \in Told
      BY DEF Listing, Told
    <3>2. QED
      BY <1>1, <3>1, NearestLiftType
  <2>2. PICK source \in {"none", "published", "provider_filter"} :
          source = CASE e.star # None -> "published"
                     [] e.star = None /\ f.star # None -> "provider_filter"
                     [] OTHER -> "none"
    OBVIOUS
  <2>3. BedOf(e) = [name |-> e.name, price |-> e.price, rating |-> e.rating, distance |-> distance,
                    star |-> e.star, source |-> source, reviews |-> e.reviews, amenities |-> e.amenities]
    BY <2>1, <2>2 DEF Bed
  <2>4. /\ e.name \in STRING /\ e.price \in Nat /\ e.rating \in Told /\ e.star \in Told /\ e.reviews \in Told
        /\ e.amenities \in SUBSET STRING
    BY DEF Listing, Told
  <2> HIDE DEF BedOf
  <2>5. QED
    BY <2>3, <2>4 DEF BedType
<1>5. StaysHotels(hotels.stays, hotels.resort, f, type, stay) = beds
  BY DEF StaysHotels, Mapped
<1> HIDE DEF found, usable, BedOf
<1>6. beds \in [DOMAIN usable -> BedType]
  <2>1. \A i \in DOMAIN usable : usable[i] \in Listing
    BY <1>3
  <2>2. QED
    BY <1>4, <2>1
<1> HIDE DEF beds
<1>7. QED
  BY <1>3, <1>5, <1>6, SameLength

\* What the first source lists.
LEMMA GoogleType ==
  ASSUME NEW listed \in Seq([name : STRING, rates : SUBSET Nat])
  PROVE  GoogleHotels(listed) \in Seq(BedType)
<1> DEFINE Page == {e \in [name : STRING, rates : SUBSET Nat] : e.rates # {}}
           Sound(e) == e.name # "" /\ e.rates # {} /\ Min(e.rates) \in PlausibleRates
           W == {i \in DOMAIN listed : Sound(listed[i])}
           real == At(listed, W)
           beds == Mapped(real, ParseGoogle)
           key == Mapped(beds, LAMBDA o : <<o.price>>)
<1>1. real \in Seq(Page)
  <2>1. \A i \in 1..Len(listed) : i \in W => listed[i] \in Page
    BY ElementsIn
  <2> HIDE DEF W, Page
  <2>2. QED
    BY <2>1, AtIn
<1>2. \A e \in Page : ParseGoogle(e) \in BedType
  <2> SUFFICES ASSUME NEW e \in Page PROVE ParseGoogle(e) \in BedType
    OBVIOUS
  <2>1. PICK p \in Nat : p = Min(e.rates)
    BY LeastOfNats
  <2>2. QED
    BY <2>1 DEF ParseGoogle, Bed, BedType, Told, None
<1>3. beds \in [DOMAIN real -> BedType]
  <2>1. beds = [i \in DOMAIN real |-> ParseGoogle(real[i])]
    BY DEF Mapped
  <2> HIDE DEF real, beds, Page
  <2>2. \A i \in DOMAIN real : real[i] \in Page
    BY <1>1, ElementsIn
  <2>3. QED
    BY <1>2, <2>1, <2>2
<1>4. beds \in Seq(BedType)
  <2> HIDE DEF real, beds, Page
  <2>1. QED
    BY <1>1, <1>3, SameLength
<1>5. GoogleHotels(listed) = Sorted(beds, key)
  BY DEF GoogleHotels, SortedBy, Where
<1> DEFINE number == [i \in DOMAIN beds |-> beds[i].price]
<1>6. key = [i \in DOMAIN beds |-> <<number[i]>>]
  BY DEF Mapped
<1> HIDE DEF beds, key
<1>7. number \in [DOMAIN beds -> Int]
  <2>1. \A i \in DOMAIN beds : beds[i] \in BedType
    BY <1>4, ElementsIn
  <2>2. \A b \in BedType : b.price \in Int
    BY DEF BedType
  <2>3. QED
    BY <2>1, <2>2
<1> HIDE DEF number
<1>8. QED
  BY <1>4, <1>5, <1>6, <1>7, SortedByNumber

\* What the third source lists.
LEMMA SerpType ==
  ASSUME NEW listed \in Seq([name : STRING, rates : SUBSET Nat, rating : Nat \cup {None}])
  PROVE  SerpHotels(listed) \in Seq(BedType)
<1> DEFINE Page == {e \in [name : STRING, rates : SUBSET Nat, rating : Nat \cup {None}] : e.rates # {}}
           Sound(e) == e.name # "" /\ e.rates # {} /\ Min(e.rates) > 0
           W == {i \in DOMAIN listed : Sound(listed[i])}
           real == At(listed, W)
           beds == Mapped(real, ParseSerp)
           key == Mapped(beds, LAMBDA o : <<o.price>>)
<1>1. real \in Seq(Page)
  <2>1. \A i \in 1..Len(listed) : i \in W => listed[i] \in Page
    BY ElementsIn
  <2> HIDE DEF W, Page
  <2>2. QED
    BY <2>1, AtIn
<1>2. \A e \in Page : ParseSerp(e) \in BedType
  <2> SUFFICES ASSUME NEW e \in Page PROVE ParseSerp(e) \in BedType
    OBVIOUS
  <2>1. PICK p \in Nat : p = Min(e.rates)
    BY LeastOfNats
  <2>2. QED
    BY <2>1 DEF ParseSerp, Bed, BedType, Told, None
<1>3. beds \in [DOMAIN real -> BedType]
  <2>1. beds = [i \in DOMAIN real |-> ParseSerp(real[i])]
    BY DEF Mapped
  <2> HIDE DEF real, beds, Page
  <2>2. \A i \in DOMAIN real : real[i] \in Page
    BY <1>1, ElementsIn
  <2>3. QED
    BY <1>2, <2>1, <2>2
<1>4. beds \in Seq(BedType)
  <2> HIDE DEF real, beds, Page
  <2>1. QED
    BY <1>1, <1>3, SameLength
<1>5. SerpHotels(listed) = Sorted(beds, key)
  BY DEF SerpHotels, SortedBy, Where
<1> DEFINE number == [i \in DOMAIN beds |-> beds[i].price]
<1>6. key = [i \in DOMAIN beds |-> <<number[i]>>]
  BY DEF Mapped
<1> HIDE DEF beds, key
<1>7. number \in [DOMAIN beds -> Int]
  <2>1. \A i \in DOMAIN beds : beds[i] \in BedType
    BY <1>4, ElementsIn
  <2>2. \A b \in BedType : b.price \in Int
    BY DEF BedType
  <2>3. QED
    BY <2>1, <2>2
<1> HIDE DEF number
<1>8. QED
  BY <1>4, <1>5, <1>6, <1>7, SortedByNumber

\* Of the answers of the sources, the first that is not empty.
LEMMA FirstAnswerType ==
  ASSUME NEW T, NEW answers \in Seq(Seq(T))
  PROVE  FirstToAnswer(answers) \in Seq(T)
<1> DEFINE some == Where(answers, LAMBDA a : a # <<>>)
<1>1. some \in Seq(Seq(T))
  BY AtFacts DEF Where
<1>2. FirstToAnswer(answers) = IF some = <<>> THEN <<>> ELSE some[1]
  BY DEF FirstToAnswer
<1> HIDE DEF some
<1>3. some # <<>> => some[1] \in Seq(T)
  BY <1>1
<1>4. <<>> \in Seq(T)
  OBVIOUS
<1>5. QED
  BY <1>2, <1>3, <1>4

LEMMA LiveSearchType ==
  ASSUME NEW hotels \in Hotels, NEW f, NEW type, NEW stay
  PROVE  LiveSearch(hotels, f, type, stay) \in Seq(BedType)
<1> DEFINE first == IF f # NoFilter \/ type # "HOTELS"
                      THEN <<StaysHotels(hotels.stays, hotels.resort, f, type, stay)>> ELSE <<>>
           middle == <<GoogleHotels(hotels.google),
                       StaysHotels(hotels.stays, hotels.resort, NoFilter, "HOTELS", stay)>>
           serp == IF hotels.serpKey THEN <<SerpHotels(hotels.serp)>> ELSE <<>>
<1>1. first \in Seq(Seq(BedType))
  <2>1. StaysHotels(hotels.stays, hotels.resort, f, type, stay) \in Seq(BedType)
    BY StaysType
  <2>2. QED
    BY <2>1
<1>2. middle \in Seq(Seq(BedType))
  <2>1. StaysHotels(hotels.stays, hotels.resort, NoFilter, "HOTELS", stay) \in Seq(BedType)
    BY StaysType
  <2>2. GoogleHotels(hotels.google) \in Seq(BedType)
    BY GoogleType DEF Hotels
  <2>3. QED
    BY <2>1, <2>2
<1>3. serp \in Seq(Seq(BedType))
  <2>1. SerpHotels(hotels.serp) \in Seq(BedType)
    BY SerpType DEF Hotels
  <2>2. QED
    BY <2>1
<1>4. LiveSearch(hotels, f, type, stay) = FirstToAnswer(first \o middle \o serp)
  BY DEF LiveSearch
<1> HIDE DEF first, middle, serp
<1>5. first \o middle \in Seq(Seq(BedType))
  BY <1>1, <1>2
<1>6. first \o middle \o serp \in Seq(Seq(BedType))
  BY <1>3, <1>5
<1>7. QED
  BY <1>4, <1>6, FirstAnswerType

\* The element with the least number.
LEMMA LeastByNumber ==
  ASSUME NEW T, NEW seq \in Seq(T), Len(seq) # 0, NEW number \in [DOMAIN seq -> Int], NEW key,
         key = [i \in DOMAIN seq |-> <<number[i]>>]
  PROVE  LeastPlace(key) \in DOMAIN seq /\ \A j \in DOMAIN seq : number[LeastPlace(key)] <= number[j]
<1>1. PICK n \in Nat \ {0} : n = Len(seq) /\ DOMAIN seq = 1..n
  BY ElementsIn
<1>2. key \in [1..n -> [1..1 -> Int]]
  BY <1>1, SortedByNumber
<1>3. PICK l : l = LeastPlace(key)
  OBVIOUS
<1>4. l \in 1..n /\ \A j \in 1..n : j = l \/ GoesBefore(key, l, j)
  BY <1>2, <1>3, LeastPlaceFacts
<1>5. ASSUME NEW j \in 1..n PROVE number[l] <= number[j]
  <2>1. number[l] \in Int /\ number[j] \in Int /\ key[l] = <<number[l]>> /\ key[j] = <<number[j]>>
    BY <1>1, <1>4
  <2>2. j = l \/ Before(<<number[l]>>, <<number[j]>>) \/ <<number[l]>> = <<number[j]>>
    BY <1>4, <2>1 DEF GoesBefore
  <2>3. <<number[l]>> = <<number[j]>> => number[l] = number[j]
    OBVIOUS
  <2>4. QED
    BY <2>1, <2>2, <2>3, BeforeOne
<1>6. QED
  BY <1>1, <1>3, <1>4, <1>5

LEMMA CheapestBed ==
  ASSUME NEW T, T \subseteq BedType, NEW options \in Seq(T), options # <<>>
  PROVE  \E i \in 1..Len(options) :
           /\ CheapestOf(options) = <<options[i]>>
           /\ options[i] \in T
           /\ \A j \in 1..Len(options) : options[i].price <= options[j].price
<1> DEFINE key == Mapped(options, LAMBDA o : <<o.price>>)
           number == [i \in DOMAIN options |-> options[i].price]
<1>1. key = [i \in DOMAIN options |-> <<number[i]>>]
  BY DEF Mapped
<1>2. CheapestOf(options) = <<options[LeastPlace(key)]>>
  BY DEF CheapestOf, Least, PlaceOfLeast
<1>3. Len(options) # 0 /\ DOMAIN options = 1..Len(options) /\ \A i \in DOMAIN options : options[i] \in T
  BY ElementsIn
<1>4. number \in [DOMAIN options -> Int]
  <2>1. \A b \in BedType : b.price \in Int
    BY DEF BedType
  <2>2. QED
    BY <1>3, <2>1
<1>5. \A i \in DOMAIN options : number[i] = options[i].price
  OBVIOUS
<1> HIDE DEF key, number
<1>6. LeastPlace(key) \in DOMAIN options /\ \A j \in DOMAIN options : number[LeastPlace(key)] <= number[j]
  BY <1>1, <1>3, <1>4, LeastByNumber
<1>7. QED
  BY <1>2, <1>3, <1>5, <1>6

\* Looking up the details of a bed changes no price and adds only what was not told.
LEMMA EnrichType ==
  ASSUME NEW hotels \in Hotels, NEW stay, NEW options \in Seq(BedType)
  PROVE  /\ EnrichOptions(hotels, stay, options) \in Seq(BedType)
         /\ Len(EnrichOptions(hotels, stay, options)) = Len(options)
         /\ \A i \in 1..Len(options) :
              LET o == options[i]
                  e == EnrichOptions(hotels, stay, options)[i]
              IN  /\ e.price = o.price
                  /\ \A x \in {"rating", "distance", "star", "reviews"} : o[x] # None => e[x] = o[x]
                  /\ o.amenities \subseteq e.amenities
<1> DEFINE source == StaysHotels(hotels.stays, hotels.resort, NoFilter, "HOTELS", stay)
           Enriched(o) ==
             LET namesakes == Where(source, LAMBDA s : s.name = o.name) IN
             IF namesakes = <<>> THEN o
             ELSE LET s == Last(namesakes) IN
                  [o EXCEPT !.rating = Known(@, s.rating), !.distance = Known(@, s.distance),
                            !.star = Known(@, s.star), !.reviews = Known(@, s.reviews),
                            !.amenities = IF @ = {} THEN s.amenities ELSE @]
           result == [i \in DOMAIN options |-> Enriched(options[i])]
           Good(o, e) ==
             /\ e \in BedType /\ e.price = o.price
             /\ \A x \in {"rating", "distance", "star", "reviews"} : o[x] # None => e[x] = o[x]
             /\ o.amenities \subseteq e.amenities
<1>1. source \in Seq(BedType)
  BY StaysType
<1>2. EnrichOptions(hotels, stay, options) = options \/ EnrichOptions(hotels, stay, options) = result
  BY DEF EnrichOptions, Mapped
<1>3. ASSUME NEW o \in BedType PROVE Good(o, Enriched(o))
  <2> DEFINE namesakes == Where(source, LAMBDA s : s.name = o.name)
  <2>1. namesakes \in Seq(BedType)
    BY <1>1, AtFacts DEF Where
  <2>2. CASE namesakes = <<>>
    <3>1. Enriched(o) = o
      BY <2>2
    <3>2. QED
      BY <3>1
  <2>3. CASE namesakes # <<>>
    <3>1. PICK s \in BedType : s = Last(namesakes)
      <4> HIDE DEF namesakes
      <4>1. Len(namesakes) \in 1..Len(namesakes)
        BY <2>1, <2>3
      <4>2. QED
        BY <2>1, <4>1 DEF Last
    <3>2. /\ o.rating \in Told /\ o.distance \in Told /\ o.star \in Told /\ o.reviews \in Told
          /\ s.rating \in Told /\ s.distance \in Told /\ s.star \in Told /\ s.reviews \in Told
          /\ o.amenities \in SUBSET STRING /\ s.amenities \in SUBSET STRING
      BY DEF BedType
    <3>3. PICK rating \in Told, distance \in Told, star \in Told, reviews \in Told :
            /\ rating = Known(o.rating, s.rating) /\ distance = Known(o.distance, s.distance)
            /\ star = Known(o.star, s.star) /\ reviews = Known(o.reviews, s.reviews)
      BY <3>2 DEF Known
    <3>4. /\ o.rating # None => rating = o.rating
          /\ o.distance # None => distance = o.distance
          /\ o.star # None => star = o.star
          /\ o.reviews # None => reviews = o.reviews
      BY <3>3 DEF Known
    <3>5. PICK amenities \in SUBSET STRING : amenities = IF o.amenities = {} THEN s.amenities ELSE o.amenities
      BY <3>2
    <3>6. PICK e : e = [o EXCEPT !.rating = rating, !.distance = distance, !.star = star, !.reviews = reviews,
                                 !.amenities = amenities]
      OBVIOUS
    <3>7. Enriched(o) = e
      BY <2>3, <3>1, <3>3, <3>5, <3>6
    <3>8. e \in BedType
      BY <3>6 DEF BedType
    <3>9. /\ e.price = o.price /\ e.rating = rating /\ e.distance = distance /\ e.star = star
          /\ e.reviews = reviews /\ e.amenities = amenities
      BY <3>6 DEF BedType
    <3> HIDE DEF Enriched
    <3>10. Good(o, e)
      <4>1. /\ o["rating"] # None => e["rating"] = o["rating"]
            /\ o["distance"] # None => e["distance"] = o["distance"]
            /\ o["star"] # None => e["star"] = o["star"]
            /\ o["reviews"] # None => e["reviews"] = o["reviews"]
        BY <3>4, <3>9
      <4>2. \A x \in {"rating", "distance", "star", "reviews"} : o[x] # None => e[x] = o[x]
        BY <4>1, Zenon
      <4>3. o.amenities \subseteq e.amenities
        BY <3>5, <3>9
      <4>4. QED
        BY <3>8, <3>9, <4>2, <4>3
    <3>11. QED
      BY <3>7, <3>10
  <2>4. QED
    BY <2>2, <2>3
<1>4. \A i \in DOMAIN options : options[i] \in BedType
  BY ElementsIn
<1>5. CASE EnrichOptions(hotels, stay, options) = options
  BY <1>4, <1>5
<1>6. CASE EnrichOptions(hotels, stay, options) = result
  <2> HIDE DEF Enriched
  <2>1. \A i \in DOMAIN options : Good(options[i], result[i])
    BY <1>3, <1>4
  <2>2. result \in [DOMAIN options -> BedType]
    BY <2>1
  <2> HIDE DEF result
  <2>3. result \in Seq(BedType) /\ Len(result) = Len(options)
    BY <2>2, SameLength
  <2>4. QED
    BY <1>6, <2>1, <2>3, ElementsIn
<1>7. QED
  BY <1>2, <1>5, <1>6

\* What is known of the bed that is chosen.
Meets(f, stay, o) ==
  /\ f.max # None => PerPerson(stay, o) <= f.max
  /\ f.amenities \subseteq o.amenities
  /\ \A x \in Floors : f[x] # None => o[x] >= f[x]
  /\ f.distance # None => o.distance \in 0..f.distance

LEMMA MatchedMeets ==
  ASSUME NEW f \in Filter, NEW stay, NEW o \in BedType, NEW options
  PROVE  Meets(f, stay, o) <=>
           WithinCaps(f, stay, o) /\ ~Misses(f, o) /\ Quality(f, o) = "matched"
<1>1. \A x \in Floors : f[x] \in Told /\ o[x] \in Told
  BY DEF Floors, Filter, BedType, Told
<1>2. f.distance \in Told /\ o.distance \in Told
  BY DEF Filter, BedType, Told
<1>3. Quality(f, o) = "matched" <=> ~Unjudged(f, o)
  BY DEF Quality
<1>4. (\A x \in Floors : f[x] # None => o[x] >= f[x]) <=>
      (\A x \in Floors : f[x] # None => o[x] # None /\ ~(o[x] < f[x]))
  BY <1>1 DEF Told, None
<1>5. (f.distance # None => o.distance \in 0..f.distance) <=>
      (f.distance # None => o.distance # None /\ ~(o.distance > f.distance))
  BY <1>2 DEF Told, None
<1>6. QED
  BY <1>3, <1>4, <1>5 DEF Meets, WithinCaps, Misses, Unjudged

LEMMA SelectBedFacts ==
  ASSUME NEW f \in Filter, NEW stay, NEW options \in Seq(BedType)
  PROVE  LET choice == SelectBed(f, stay, options) IN
         /\ choice.pick = <<>> \/ \E b \in BedType : choice.pick = <<b>> /\ WithinCaps(f, stay, b)
         /\ \A i \in 1..Len(options) : Meets(f, stay, options[i]) =>
              /\ \E b \in BedType : choice.pick = <<b>> /\ Meets(f, stay, b) /\ b.price <= options[i].price
              /\ ~choice.report.unrated /\ ~choice.report.belowFloor
<1> DEFINE Caps == {b \in BedType : WithinCaps(f, stay, b)}
           Fair == {b \in Caps : ~Misses(f, b)}
           Good == {b \in Fair : Quality(f, b) = "matched"}
           considered == Considered(f, stay, options)
           matched == Where(considered, LAMBDA o : Quality(f, o) = "matched")
           vetted == Where(considered, LAMBDA o : Quality(f, o) = "vetted")
           unrated == Where(considered, LAMBDA o : Quality(f, o) = "unrated")
           relaxed == Relaxed(f, stay, options)
           report == [considered |-> Len(options), matched |-> Len(matched), vetted |-> Len(vetted),
                      setAside |-> Len(unrated), unrated |-> FALSE, belowFloor |-> FALSE]
           choice == SelectBed(f, stay, options)
<1>1. choice = CASE matched # <<>> -> Choice(CheapestOf(matched), report)
                 [] matched = <<>> /\ vetted # <<>> -> Choice(CheapestOf(vetted), report)
                 [] matched \o vetted = <<>> /\ unrated # <<>> ->
                      Choice(CheapestOf(unrated), [report EXCEPT !.unrated = TRUE])
                 [] considered = <<>> /\ relaxed # <<>> ->
                      Choice(CheapestOf(relaxed), [report EXCEPT !.belowFloor = TRUE])
                 [] OTHER -> Choice(<<>>, report)
  BY DEF SelectBed
<1>2. considered = At(options, {i \in DOMAIN options : WithinCaps(f, stay, options[i]) /\ ~Misses(f, options[i])})
  BY DEF Considered, Where
<1>3. relaxed = At(options, {i \in DOMAIN options : WithinCaps(f, stay, options[i])})
  BY DEF Relaxed, Where
<1>4. \A i \in DOMAIN options : options[i] \in BedType
  BY ElementsIn
<1>5. considered \in Seq(Fair)
  <2> DEFINE W == {i \in DOMAIN options : WithinCaps(f, stay, options[i]) /\ ~Misses(f, options[i])}
  <2>1. \A i \in 1..Len(options) : i \in W => options[i] \in Fair
    BY <1>4
  <2>2. considered = At(options, W)
    BY <1>2
  <2> HIDE DEF W, Fair, considered
  <2>3. QED
    BY <2>1, <2>2, AtIn
<1>6. relaxed \in Seq(Caps)
  <2> DEFINE W == {i \in DOMAIN options : WithinCaps(f, stay, options[i])}
  <2>1. \A i \in 1..Len(options) : i \in W => options[i] \in Caps
    BY <1>4
  <2>2. relaxed = At(options, W)
    BY <1>3
  <2> HIDE DEF W, Caps, relaxed
  <2>3. QED
    BY <2>1, <2>2, AtIn
<1>7. \A b \in Caps : WithinCaps(f, stay, b) /\ b \in BedType
  OBVIOUS
<1>8. Caps \subseteq BedType /\ Fair \subseteq BedType /\ Good \subseteq BedType /\ Fair \subseteq Caps /\ Good \subseteq Caps
  OBVIOUS
<1> DEFINE M == {i \in DOMAIN considered : Quality(f, considered[i]) = "matched"}
<1>9. matched = At(considered, M)
  BY DEF Where
<1>10. vetted \in Seq(Fair) /\ unrated \in Seq(Fair)
  <2> HIDE DEF considered, Fair
  <2>1. QED
    BY <1>5, AtFacts DEF Where
<1>11. matched \in Seq(Good)
  <2>1. \A i \in 1..Len(considered) : i \in M => considered[i] \in Good
    <3> HIDE DEF considered, Fair
    <3>1. \A i \in DOMAIN considered : considered[i] \in Fair
      BY <1>5, ElementsIn
    <3>2. QED
      BY <3>1
  <2> HIDE DEF M, Good, Fair, considered, matched
  <2>2. QED
    BY <1>5, <1>9, <2>1, AtIn
<1>12. \A i \in 1..Len(options) : options[i] \in Good =>
         \E a \in 1..Len(matched) : matched[a] = options[i]
  <2> SUFFICES ASSUME NEW i \in 1..Len(options), options[i] \in Good
               PROVE  \E a \in 1..Len(matched) : matched[a] = options[i]
    OBVIOUS
  <2> DEFINE W == {k \in DOMAIN options : WithinCaps(f, stay, options[k]) /\ ~Misses(f, options[k])}
  <2>1. i \in W /\ considered = At(options, W) /\ Quality(f, options[i]) = "matched"
    BY <1>2, ElementsIn
  <2> HIDE DEF W, Fair, Good, considered
  <2>2. PICK c \in 1..Len(considered) : considered[c] = options[i]
    BY <2>1, AtHas
  <2>3. c \in M
    BY <1>5, <2>1, <2>2, ElementsIn
  <2> HIDE DEF M, matched
  <2>4. \E a \in 1..Len(At(considered, M)) : At(considered, M)[a] = considered[c]
    BY <1>5, <2>2, <2>3, AtHas
  <2>5. QED
    BY <1>9, <2>2, <2>4
<1> HIDE DEF considered, matched, vetted, unrated, relaxed, report, choice, Caps, Fair, Good, M
<1>13. ASSUME NEW list \in Seq(Caps), list # <<>> PROVE \E b \in Caps : CheapestOf(list) = <<b>>
  BY <1>8, <1>13, CheapestBed
<1>14. vetted \in Seq(Caps) /\ unrated \in Seq(Caps) /\ matched \in Seq(Caps)
  BY <1>8, <1>10, <1>11
<1>15. choice.pick = <<>> \/ \E b \in Caps : choice.pick = <<b>>
  <2>1. \/ choice.pick = <<>>
        \/ matched # <<>> /\ choice.pick = CheapestOf(matched)
        \/ vetted # <<>> /\ choice.pick = CheapestOf(vetted)
        \/ unrated # <<>> /\ choice.pick = CheapestOf(unrated)
        \/ relaxed # <<>> /\ choice.pick = CheapestOf(relaxed)
    BY <1>1 DEF Choice
  <2>2. QED
    BY <1>6, <1>13, <1>14, <2>1
<1>16. ASSUME NEW i \in 1..Len(options), Meets(f, stay, options[i])
       PROVE  /\ \E b \in BedType : choice.pick = <<b>> /\ Meets(f, stay, b) /\ b.price <= options[i].price
              /\ ~choice.report.unrated /\ ~choice.report.belowFloor
  <2>1. options[i] \in BedType
    BY <1>4, ElementsIn
  <2>2. options[i] \in Good
    BY <1>16, <2>1, MatchedMeets DEF Good, Fair, Caps
  <2>3. PICK a \in 1..Len(matched) : matched[a] = options[i]
    BY <1>12, <2>2
  <2>4. matched # <<>>
    BY <1>11, <2>3
  <2>5. PICK m \in 1..Len(matched) : /\ CheapestOf(matched) = <<matched[m]>> /\ matched[m] \in Good
                                     /\ \A j \in 1..Len(matched) : matched[m].price <= matched[j].price
    BY <1>8, <1>11, <2>4, CheapestBed
  <2>6. choice = Choice(CheapestOf(matched), report)
    <3>1. matched \o vetted # <<>>
      <4>1. Len(matched \o vetted) = Len(matched) + Len(vetted) /\ Len(matched) # 0
        BY <1>14, <2>3
      <4>2. QED
        BY <1>14, <4>1
    <3>2. considered # <<>>
      <4>1. \E k \in 1..Len(considered) : matched[a] = considered[k]
        <5>1. \A k \in 1..Len(At(considered, M)) :
                \E n \in 1..Len(considered) : n \in M /\ At(considered, M)[k] = considered[n]
          BY <1>5, AtFacts, SMTT(40)
        <5>2. QED
          BY <1>9, <2>3, <5>1
      <4>2. QED
        BY <1>5, <4>1
    <3>3. QED
      BY <1>1, <2>4, <3>1, <3>2
  <2>7. choice.pick = <<matched[m]>> /\ ~choice.report.unrated /\ ~choice.report.belowFloor
    BY <2>5, <2>6 DEF Choice, report
  <2>8. Meets(f, stay, matched[m])
    BY <1>8, <2>5, MatchedMeets DEF Good, Fair, Caps
  <2>9. matched[m].price <= options[i].price
    BY <2>3, <2>5
  <2>10. QED
    BY <1>8, <2>5, <2>7, <2>8, <2>9
<1>17. QED
  BY <1>7, <1>15, <1>16 DEF choice

\* A price per person, the beds that fit a filter, and the live prices of a resort.
LEMMA PerPersonType ==
  ASSUME NEW stay, stay.nights \in 2..31, stay.group \in 1..20, stay.rooms \in Nat, NEW o \in BedType
  PROVE  PerPerson(stay, o) \in Nat
<1>1. PICK price \in Nat : price = o.price
  BY DEF BedType
<1>2. PICK nights \in Nat : nights = stay.nights
  OBVIOUS
<1>3. PICK rooms \in Nat : rooms = stay.rooms
  OBVIOUS
<1>4. PICK group \in Nat \ {0} : group = stay.group
  OBVIOUS
<1>5. 100 * price * nights \in Nat
  OBVIOUS
<1>6. 100 * price * nights * rooms \in Nat
  BY <1>5
<1>7. Share(100 * price * nights * rooms, group) \in Nat
  BY <1>6, ShareOfNat
<1>8. QED
  BY <1>1, <1>2, <1>3, <1>4, <1>7 DEF PerPerson

LEMMA FilterFacts ==
  ASSUME WorldGiven
  PROVE  /\ Prefs.filter \in Filter /\ Prefs.filter = world.request.filter /\ Prefs.type = world.request.type
         /\ Prefs.stay = [nights |-> world.request.days + 1, group |-> world.request.group,
                          rooms |-> (world.request.group + 1) \div 2]
<1>1. PICK request : request = world.request
  OBVIOUS
<1>2. request \in Request(DOMAIN request.weights)
  BY <1>1, WorldFacts
<1>3. request.filter \in Filter
  BY <1>2 DEF Request
<1>4. Prefs = Preferences(request)
  BY <1>1 DEF Prefs
<1>5. QED
  BY <1>1, <1>3, <1>4 DEF Preferences

\* The least of some prices is a number, or None.
LEMMA Least0Type ==
  ASSUME NEW S \in SUBSET Nat
  PROVE  Least0(S) \in Told /\ (S # {} => Least0(S) \in S /\ \A x \in S : Least0(S) <= x)
BY LeastOfNats DEF Least0, Told

LEMMA LiveFacts ==
  ASSUME WorldGiven, Allows(world.request), NEW r \in Range(world.resorts)
  PROVE  /\ r \in Resort /\ r.name \in DOMAIN world.flights
         /\ LivePrices[r.name] =
              [flight |-> Least0({world.flights[r.name][i].price : i \in DOMAIN world.flights[r.name]}),
               accommodation |-> LiveBedCost(world.hotels[r.name], Prefs.filter, Prefs.type, Prefs.stay)]
         /\ LivePrices[r.name] \in [flight : Told, accommodation : Told]
         /\ LivePrices[r.name] \in LivePair
<1>1. PICK i \in DOMAIN world.resorts : r = world.resorts[i]
  BY DEF Range
<1>2. r \in Resort
  BY <1>1, WorldFacts, ElementsIn
<1>3. r.name \in NamesOf(world.resorts)
  BY <1>1 DEF NamesOf
<1>4. PICK name \in DOMAIN world.flights : name = r.name
  BY <1>3, WorldFacts
<1>5. world.flights[name] \in Seq(FlightOption) /\ world.hotels[name] \in Hotels
  BY WorldFacts
<1>6. PICK fares : fares = {world.flights[name][k].price : k \in DOMAIN world.flights[name]}
  OBVIOUS
<1>7. PICK flight \in Told : flight = Least0(fares)
  <2>1. \A o \in FlightOption : o.price \in Nat
    BY DEF FlightOption
  <2>2. \A k \in DOMAIN world.flights[name] : world.flights[name][k] \in FlightOption
    BY <1>5, ElementsIn
  <2>3. fares \in SUBSET Nat
    BY <1>6, <2>1, <2>2
  <2>4. QED
    BY <2>3, Least0Type
<1>8. PICK bed \in Told : bed = LiveBedCost(world.hotels[name], Prefs.filter, Prefs.type, Prefs.stay)
  <2>1. PICK hotels \in Hotels : hotels = world.hotels[name]
    BY <1>5
  <2>2. PICK options \in Seq(BedType) :
          SelectLiveAccommodation(hotels, Prefs.filter, Prefs.type, Prefs.stay) =
            SelectBed(Prefs.filter, Prefs.stay, options)
    <3>1. LiveSearch(hotels, Prefs.filter, Prefs.type, Prefs.stay) \in Seq(BedType)
      BY LiveSearchType
    <3>2. EnrichOptions(hotels, Prefs.stay, LiveSearch(hotels, Prefs.filter, Prefs.type, Prefs.stay)) \in Seq(BedType)
      BY <3>1, EnrichType
    <3>3. QED
      BY <3>1, <3>2 DEF SelectLiveAccommodation
  <2>3. PICK pick : pick = SelectBed(Prefs.filter, Prefs.stay, options).pick
    OBVIOUS
  <2>4. pick = <<>> \/ \E b \in BedType : pick = <<b>>
    BY <2>3, FilterFacts, SelectBedFacts
  <2>5. CostOf(pick, Prefs.stay) \in Told
    <3>1. CASE pick = <<>>
      BY <3>1 DEF CostOf, Told
    <3>2. CASE pick # <<>>
      <4>1. pick[1] \in BedType
        BY <2>4, <3>2
      <4>2. PerPerson(Prefs.stay, pick[1]) \in Nat
        BY <4>1, PerPersonType, PrefsFacts DEF PrefsType
      <4>3. QED
        BY <3>2, <4>2 DEF CostOf, Told
    <3>3. QED
      BY <3>1, <3>2
  <2>6. QED
    BY <2>1, <2>2, <2>3, <2>5 DEF LiveBedCost
<1>9. LivePrices[name] = [flight |-> flight, accommodation |-> bed]
  BY <1>6, <1>7, <1>8 DEF LivePrices
<1>10. flight \in Int /\ bed \in Int
  BY DEF Told, None
<1>11. QED
  BY <1>2, <1>4, <1>6, <1>7, <1>8, <1>9, <1>10 DEF LivePair

-----------------------------------------------------------------------------
\* No two trips are to the same resort for the same days.

NoTwins(seq) ==
  \A a, b \in 1..Len(seq) : seq[a].resort = seq[b].resort /\ seq[a].start = seq[b].start => a = b

LEMMA TwinsAt ==
  ASSUME NEW T, NEW seq \in Seq(T), NEW S, NoTwins(seq)
  PROVE  NoTwins(At(seq, S))
<1>1. PICK p : Picked(At(seq, S), p, seq, T, S, Len(seq))
  BY AtIsPicked
<1>2. PICK s : s = At(seq, S)
  OBVIOUS
<1>3. s \in Seq(T) /\ p \in [1..Len(s) -> 1..Len(seq)] /\ \A a \in 1..Len(s) : s[a] = seq[p[a]]
  BY <1>1, <1>2 DEF Picked
<1>4. \A a, b \in 1..Len(s) : a < b => p[a] < p[b]
  BY <1>1, <1>2 DEF Picked
<1>5. ASSUME NEW a \in 1..Len(s), NEW b \in 1..Len(s), s[a].resort = s[b].resort, s[a].start = s[b].start
      PROVE  a = b
  <2>1. p[a] = p[b]
    BY <1>3, <1>5, SMTT(40) DEF NoTwins
  <2>2. ~(a < b) /\ ~(b < a)
    BY <1>3, <1>4, <2>1
  <2>3. QED
    BY <1>3, <2>2
<1>6. QED
  BY <1>2, <1>5 DEF NoTwins

LEMMA TwinsSorted ==
  ASSUME NEW T, NEW seq \in Seq(T), NEW w \in Nat, NEW key \in [DOMAIN seq -> [1..w -> Int]], NoTwins(seq)
  PROVE  NoTwins(Sorted(seq, key))
<1>1. PICK p : Rearranged(Sorted(seq, key), p, seq, T, key)
  BY SortedIsRearranged
<1>2. PICK s : s = Sorted(seq, key)
  OBVIOUS
<1>3. PICK n \in Nat : n = Len(seq) /\ DOMAIN seq = 1..n
  BY ElementsIn
<1>4. /\ s \in Seq(T) /\ Len(s) = n /\ p \in [1..n -> 1..n] /\ \A a \in 1..n : s[a] = seq[p[a]]
      /\ \A a, b \in 1..n : a < b => GoesBefore(key, p[a], p[b])
  BY <1>1, <1>2, <1>3 DEF Rearranged
<1>5. \A i \in 1..n : ~GoesBefore(key, i, i)
  <2>1. 1..n \in SUBSET Int /\ key \in [1..n -> [1..w -> Int]]
    BY <1>3
  <2>2. QED
    BY <2>1, PlacesAreOrdered
<1>6. ASSUME NEW a \in 1..n, NEW b \in 1..n, s[a].resort = s[b].resort, s[a].start = s[b].start
      PROVE  a = b
  <2>1. /\ p[a] \in 1..Len(seq) /\ p[b] \in 1..Len(seq)
        /\ seq[p[a]].resort = seq[p[b]].resort /\ seq[p[a]].start = seq[p[b]].start
    BY <1>3, <1>4, <1>6
  <2>2. p[a] = p[b]
    BY <2>1 DEF NoTwins
  <2>3. ~(a < b) /\ ~(b < a)
    BY <1>4, <1>5, <2>2
  <2>4. QED
    BY <2>3
<1>7. QED
  BY <1>2, <1>4, <1>6 DEF NoTwins

LEMMA TwinsTake ==
  ASSUME NEW T, NEW seq \in Seq(T), NEW n \in Nat, NoTwins(seq)
  PROVE  NoTwins(Take(seq, n))
BY TakeFacts DEF NoTwins

-----------------------------------------------------------------------------
\* The trips of the fixed-date route.

\* What a trip may cost: its estimate, or that with the live prices.
CostsOf(resort, date) ==
  LET estimate == ComputeTripCost(resort, Prefs, DateOf(date))
  IN  {estimate, LiveCost(estimate, LivePrices[resort.name])}

\* Nothing fits the budget: neither its estimate nor its live price.
NothingFits ==
  \A r \in Range(Narrowed(world.resorts, Prefs)) :
    LET estimate == ComputeTripCost(r, Prefs, DateOf(world.start)) IN
    \/ TotalEur(estimate) > Prefs.budget
    \/ world.priced /\ TotalEur(LiveCost(estimate, LivePrices[r.name])) > Prefs.budget

\* A list of trips sorted by score or by price has the same trips.
LEMMA ByScoreFacts ==
  ASSUME NEW T, T \subseteq TripType, NEW seq \in Seq(T)
  PROVE  /\ SameRows(ByScore(seq), seq, T) /\ ByScore(seq) \in Seq(T) /\ Len(ByScore(seq)) = Len(seq)
         /\ NoTwins(seq) => NoTwins(ByScore(seq))
<1> DEFINE key == Mapped(seq, LAMBDA t : <<-t.score>>)
           number == [i \in DOMAIN seq |-> -seq[i].score]
<1>1. key = [i \in DOMAIN seq |-> <<number[i]>>] /\ ByScore(seq) = Sorted(seq, key)
  BY DEF Mapped, ByScore, SortedBy
<1>2. number \in [DOMAIN seq -> Int]
  <2>1. \A t \in TripType : -t.score \in Int
    BY DEF TripType
  <2>2. \A i \in DOMAIN seq : seq[i] \in TripType
    BY ElementsIn
  <2>3. QED
    BY <2>1, <2>2
<1> HIDE DEF key, number
<1>3. /\ key \in [DOMAIN seq -> [1..1 -> Int]]
      /\ SameRows(Sorted(seq, key), seq, T)
      /\ Sorted(seq, key) \in Seq(T) /\ Len(Sorted(seq, key)) = Len(seq)
  BY <1>1, <1>2, SortedByNumber
<1>4. NoTwins(seq) => NoTwins(Sorted(seq, key))
  BY <1>3, TwinsSorted
<1>5. QED
  BY <1>1, <1>3, <1>4

LEMMA ByPriceFacts ==
  ASSUME NEW T, T \subseteq TripType, NEW seq \in Seq(T)
  PROVE  /\ SameRows(ByPrice(seq), seq, T) /\ ByPrice(seq) \in Seq(T) /\ Len(ByPrice(seq)) = Len(seq)
         /\ NoTwins(seq) => NoTwins(ByPrice(seq))
<1> DEFINE key == Mapped(seq, LAMBDA t : <<TotalEur(t.cost)>>)
           number == [i \in DOMAIN seq |-> TotalEur(seq[i].cost)]
<1>1. key = [i \in DOMAIN seq |-> <<number[i]>>] /\ ByPrice(seq) = Sorted(seq, key)
  BY DEF Mapped, ByPrice, SortedBy
<1>2. number \in [DOMAIN seq -> Int]
  <2>1. \A t \in TripType : TotalEur(t.cost) \in Int
    BY TotalType DEF TripType
  <2>2. \A i \in DOMAIN seq : seq[i] \in TripType
    BY ElementsIn
  <2>3. QED
    BY <2>1, <2>2
<1> HIDE DEF key, number
<1>3. /\ key \in [DOMAIN seq -> [1..1 -> Int]]
      /\ SameRows(Sorted(seq, key), seq, T)
      /\ Sorted(seq, key) \in Seq(T) /\ Len(Sorted(seq, key)) = Len(seq)
  BY <1>1, <1>2, SortedByNumber
<1>4. NoTwins(seq) => NoTwins(Sorted(seq, key))
  BY <1>3, TwinsSorted
<1>5. QED
  BY <1>1, <1>3, <1>4

-----------------------------------------------------------------------------
\* The trips of the fixed-date route, from the pool to the list that is shown.

FirstCost(r) == ComputeTripCost(r, Prefs, DateOf(world.start))
Pooled == Range(Narrowed(world.resorts, Prefs))
TripsOfPool == Mapped(Narrowed(world.resorts, Prefs), LAMBDA r : Trip(r, FirstCost(r), Prefs, world.resorts))
EstimatedTrips == {t \in TripType : /\ t.resort \in Pooled /\ t.start = None /\ t.within
                                    /\ t.cost = FirstCost(t.resort)}
FittingTrips == {t \in EstimatedTrips : Affordable(Prefs, t.cost)}
CandidateTrips == {t \in TripType : /\ t.resort \in Pooled /\ t.start = None /\ t.within
                                    /\ t.cost \in CostsOf(t.resort, world.start) /\ Affordable(Prefs, t.cost)}
DearTrips == {t \in TripType : /\ t.resort \in Pooled /\ t.start = None /\ ~t.within
                               /\ t.cost \in CostsOf(t.resort, world.start)}

\* The pool is a choice of the resorts, each once.
LEMMA NarrowedFacts ==
  ASSUME WorldGiven
  PROVE  /\ Narrowed(world.resorts, Prefs) \in Seq(Resort)
         /\ \A a, b \in 1..Len(Narrowed(world.resorts, Prefs)) :
              Narrowed(world.resorts, Prefs)[a] = Narrowed(world.resorts, Prefs)[b] => a = b
         /\ Pooled \subseteq Range(world.resorts) /\ Range(world.resorts) \subseteq Resort
<1> DEFINE Kept(r) == IF Prefs.target # {} THEN r.name \in Prefs.target
                      ELSE (Prefs.include # {} => r.name \in Prefs.include) /\ r.name \notin Prefs.exclude
           S == {i \in DOMAIN world.resorts : Kept(world.resorts[i])}
<1>1. PICK pool : pool = Narrowed(world.resorts, Prefs)
  OBVIOUS
<1>2. pool = At(world.resorts, S)
  BY <1>1 DEF Narrowed, Where
<1> HIDE DEF S
<1>3. world.resorts \in Seq(Resort)
  BY WorldFacts
<1>4. PICK p : Picked(pool, p, world.resorts, Resort, S, Len(world.resorts))
  BY <1>2, <1>3, AtIsPicked
<1>5. /\ pool \in Seq(Resort) /\ p \in [1..Len(pool) -> 1..Len(world.resorts)]
      /\ \A a, b \in 1..Len(pool) : a < b => p[a] < p[b]
      /\ \A a \in 1..Len(pool) : pool[a] = world.resorts[p[a]]
  BY <1>4 DEF Picked
<1>6. DOMAIN world.resorts = 1..Len(world.resorts) /\ DOMAIN pool = 1..Len(pool)
  BY <1>3, <1>5, ElementsIn
<1>7. \A i, j \in DOMAIN world.resorts : world.resorts[i].name = world.resorts[j].name => i = j
  BY WorldFacts
<1>8. ASSUME NEW a \in 1..Len(pool), NEW b \in 1..Len(pool), pool[a] = pool[b] PROVE a = b
  <2>1. p[a] \in DOMAIN world.resorts /\ p[b] \in DOMAIN world.resorts /\ world.resorts[p[a]] = world.resorts[p[b]]
    BY <1>5, <1>6, <1>8
  <2>2. p[a] = p[b]
    BY <1>7, <2>1
  <2>3. ~(a < b) /\ ~(b < a)
    BY <1>5, <2>2
  <2>4. a \in Int /\ b \in Int
    OBVIOUS
  <2>5. QED
    BY <2>3, <2>4
<1>9. Range(pool) \subseteq Range(world.resorts)
  BY <1>5, <1>6 DEF Range
<1>10. Range(world.resorts) \subseteq Resort
  BY <1>3, ElementsIn DEF Range
<1>11. QED
  BY <1>1, <1>5, <1>8, <1>9, <1>10 DEF Pooled

\* An estimate is a trip of its resort.
LEMMA EstimateFacts ==
  ASSUME WorldGiven, Allows(world.request)
  PROVE  /\ TripsOfPool \in Seq(EstimatedTrips) /\ NoTwins(TripsOfPool)
         /\ \A r \in Pooled :
              \E i \in 1..Len(TripsOfPool) : TripsOfPool[i].resort = r /\ TripsOfPool[i].cost = FirstCost(r)
<1>1. PICK pool : pool = Narrowed(world.resorts, Prefs)
  OBVIOUS
<1> DEFINE TripTo(r) == Trip(r, FirstCost(r), Prefs, world.resorts)
<1>2. TripsOfPool = [i \in DOMAIN pool |-> TripTo(pool[i])]
  BY <1>1 DEF Mapped, TripsOfPool
<1>3. pool \in Seq(Resort) /\ \A a, b \in 1..Len(pool) : pool[a] = pool[b] => a = b
  BY <1>1, NarrowedFacts
<1>4. DOMAIN pool = 1..Len(pool) /\ Pooled = {pool[i] : i \in DOMAIN pool}
  BY <1>1, <1>3, ElementsIn DEF Pooled, Range
<1>5. ASSUME NEW r \in Pooled
      PROVE  TripTo(r) \in EstimatedTrips /\ TripTo(r).resort = r /\ TripTo(r).cost = FirstCost(r) /\ TripTo(r).start = None
  <2>1. r \in Resort /\ r \in Range(world.resorts)
    BY NarrowedFacts
  <2>2. world.resorts \in Seq(Resort) /\ Len(world.resorts) # 0
    <3>1. world.resorts \in Seq(Resort)
      BY WorldFacts
    <3>2. DOMAIN world.resorts # {}
      BY <2>1 DEF Range
    <3>3. QED
      BY <3>1, <3>2
  <2>3. PrefsType(Prefs)
    BY PrefsFacts
  <2>4. FirstCost(r) \in CostType
    BY <2>1, <2>3, TripCostType DEF FirstCost
  <2>5. /\ TripTo(r) \in TripType /\ TripTo(r).resort = r /\ TripTo(r).cost = FirstCost(r)
        /\ TripTo(r).within /\ TripTo(r).start = None
    BY <2>1, <2>2, <2>3, <2>4, TripTypeHolds
  <2> HIDE DEF TripTo
  <2>6. QED
    BY <2>5 DEF EstimatedTrips
<1> HIDE DEF TripTo
<1>6. TripsOfPool \in [DOMAIN pool -> EstimatedTrips]
  BY <1>2, <1>4, <1>5
<1>7. TripsOfPool \in Seq(EstimatedTrips) /\ Len(TripsOfPool) = Len(pool)
  BY <1>3, <1>6, SameLength
<1>8. \A i \in 1..Len(pool) : TripsOfPool[i] = TripTo(pool[i]) /\ pool[i] \in Pooled
  BY <1>2, <1>4
<1>9. NoTwins(TripsOfPool)
  BY <1>3, <1>5, <1>7, <1>8 DEF NoTwins
<1>10. ASSUME NEW r \in Pooled
       PROVE  \E i \in 1..Len(TripsOfPool) : TripsOfPool[i].resort = r /\ TripsOfPool[i].cost = FirstCost(r)
  <2>1. PICK i \in 1..Len(pool) : r = pool[i]
    BY <1>4
  <2>2. QED
    BY <1>5, <1>7, <1>8, <2>1
<1>11. QED
  BY <1>7, <1>9, <1>10

\* A list with the same resorts and starts has no twins either.
LEMMA TwinsSame ==
  ASSUME NEW T, NEW U, NEW seq \in Seq(T), NEW s \in Seq(U), Len(s) = Len(seq), NoTwins(seq),
         \A i \in 1..Len(seq) : s[i].resort = seq[i].resort /\ s[i].start = seq[i].start
  PROVE  NoTwins(s)
BY DEF NoTwins

FittingFirst == ByScore(Where(TripsOfPool, LAMBDA t : Affordable(Prefs, t.cost)))

\* The trips whose estimates fit come best first, each once, and all of them.
LEMMA FittingFacts ==
  ASSUME WorldGiven, Allows(world.request)
  PROVE  /\ FittingFirst \in Seq(FittingTrips) /\ NoTwins(FittingFirst)
         /\ \A r \in Pooled : \/ ~Affordable(Prefs, FirstCost(r))
                              \/ \E i \in 1..Len(FittingFirst) : FittingFirst[i].resort = r
<1> DEFINE S == {i \in DOMAIN TripsOfPool : Affordable(Prefs, TripsOfPool[i].cost)}
           fits == At(TripsOfPool, S)
<1>1. FittingFirst = ByScore(fits)
  BY DEF FittingFirst, Where
<1>2. /\ TripsOfPool \in Seq(EstimatedTrips) /\ NoTwins(TripsOfPool)
      /\ \A r \in Pooled :
           \E i \in 1..Len(TripsOfPool) : TripsOfPool[i].resort = r /\ TripsOfPool[i].cost = FirstCost(r)
  BY EstimateFacts
<1>3. \A i \in 1..Len(TripsOfPool) : i \in S => TripsOfPool[i] \in FittingTrips
  BY <1>2, ElementsIn DEF FittingTrips
<1>4. \A i \in 1..Len(TripsOfPool) : Affordable(Prefs, TripsOfPool[i].cost) => i \in S
  BY <1>2, ElementsIn
<1> HIDE DEF S
<1>5. fits \in Seq(FittingTrips)
  BY <1>2, <1>3, AtIn
<1>6. NoTwins(fits)
  BY <1>2, TwinsAt
<1>7. \A i \in 1..Len(TripsOfPool) : i \in S => \E a \in 1..Len(fits) : fits[a] = TripsOfPool[i]
  BY <1>2, AtHas
<1> HIDE DEF fits
<1>8. FittingTrips \subseteq TripType
  BY DEF FittingTrips, EstimatedTrips
<1>9. FittingFirst \in Seq(FittingTrips) /\ NoTwins(FittingFirst) /\ SameRows(FittingFirst, fits, FittingTrips)
  BY <1>1, <1>5, <1>6, <1>8, ByScoreFacts
<1>10. ASSUME NEW r \in Pooled, Affordable(Prefs, FirstCost(r))
       PROVE  \E i \in 1..Len(FittingFirst) : FittingFirst[i].resort = r
  <2>1. PICK i \in 1..Len(TripsOfPool) : TripsOfPool[i].resort = r /\ TripsOfPool[i].cost = FirstCost(r)
    BY <1>2
  <2>2. i \in S
    BY <1>4, <1>10, <2>1
  <2>3. PICK a \in 1..Len(fits) : fits[a] = TripsOfPool[i]
    BY <1>7, <2>2
  <2>4. PICK b \in 1..Len(fits) : FittingFirst[b] = fits[a]
    BY <1>9 DEF SameRows
  <2>5. Len(FittingFirst) = Len(fits)
    BY <1>9 DEF SameRows
  <2>6. QED
    BY <2>1, <2>3, <2>4, <2>5
<1>11. QED
  BY <1>9, <1>10

\* A trip of the pool at its live price.
LEMMA LivePriceOfTrip ==
  ASSUME WorldGiven, Allows(world.request), NEW t \in TripType, t.resort \in Pooled
  PROVE  LET live == WithLivePrice(t, LivePrices[t.resort.name], Prefs) IN
         /\ live \in TripType /\ live.resort = t.resort /\ live.start = t.start /\ live.within = t.within
         /\ live.cost = LiveCost(t.cost, LivePrices[t.resort.name])
         /\ live = t \/ live.cost # t.cost
<1>1. t.resort \in Range(world.resorts)
  BY NarrowedFacts
<1>2. LivePrices[t.resort.name] \in LivePair
  BY <1>1, LiveFacts
<1>3. PrefsType(Prefs)
  BY PrefsFacts
<1>4. QED
  BY <1>2, <1>3, WithLivePriceType

LEMMA LiveCostOffered ==
  ASSUME NEW r, NEW cost, cost = FirstCost(r)
  PROVE  cost \in CostsOf(r, world.start) /\ LiveCost(cost, LivePrices[r.name]) \in CostsOf(r, world.start)
BY DEF CostsOf, FirstCost

\* What live prices make of such a list.
LEMMA RepricedTrips ==
  ASSUME WorldGiven, Allows(world.request), NEW seq \in Seq(FittingTrips), NoTwins(seq)
  PROVE  LET kept == RepriceCandidates(seq, Prefs, LivePrices) IN
         /\ kept \in Seq(CandidateTrips) /\ NoTwins(kept)
         /\ \A a \in 1..Len(kept) : \E i \in 1..Len(seq) : kept[a].resort = seq[i].resort /\ kept[a].start = seq[i].start
         /\ kept = <<>> => \A i \in 1..Len(seq) :
                             ~Affordable(Prefs, LiveCost(seq[i].cost, LivePrices[seq[i].resort.name]))
<1> DEFINE Live(t) == WithLivePrice(t, LivePrices[t.resort.name], Prefs)
           all == [i \in DOMAIN seq |-> Live(seq[i])]
           S == {i \in DOMAIN seq : all[i] = seq[i] \/ Affordable(Prefs, all[i].cost)}
           kept == At(all, S)
           Pooled1 == {t \in TripType : t.resort \in Pooled /\ t.start = None /\ t.within
                                        /\ t.cost \in CostsOf(t.resort, world.start)}
<1>1. RepriceCandidates(seq, Prefs, LivePrices) = kept
  BY DEF RepriceCandidates, Mapped
<1>2. \A i \in DOMAIN seq : seq[i] \in FittingTrips
  BY ElementsIn
<1>3. ASSUME NEW t \in FittingTrips
      PROVE  /\ Live(t) \in Pooled1 /\ Live(t).resort = t.resort /\ Live(t).start = t.start
             /\ Live(t).cost = LiveCost(t.cost, LivePrices[t.resort.name])
             /\ Live(t) = t => Affordable(Prefs, Live(t).cost)
  <2>1. /\ t \in TripType /\ t.resort \in Pooled /\ t.start = None /\ t.within /\ t.cost = FirstCost(t.resort)
        /\ Affordable(Prefs, t.cost)
    BY DEF FittingTrips, EstimatedTrips
  <2>2. /\ Live(t) \in TripType /\ Live(t).resort = t.resort /\ Live(t).start = t.start /\ Live(t).within = t.within
        /\ Live(t).cost = LiveCost(t.cost, LivePrices[t.resort.name])
    BY <2>1, LivePriceOfTrip
  <2>3. LiveCost(t.cost, LivePrices[t.resort.name]) \in CostsOf(t.resort, world.start)
    BY <2>1, LiveCostOffered
  <2> HIDE DEF Live
  <2>4. QED
    BY <2>1, <2>2, <2>3
<1> HIDE DEF Live
<1>4. all \in [DOMAIN seq -> Pooled1]
  BY <1>2, <1>3
<1>5. \A i \in DOMAIN seq : /\ all[i] \in Pooled1 /\ all[i].resort = seq[i].resort /\ all[i].start = seq[i].start
                            /\ all[i].cost = LiveCost(seq[i].cost, LivePrices[seq[i].resort.name])
                            /\ all[i] = seq[i] => Affordable(Prefs, all[i].cost)
  BY <1>2, <1>3
<1>6. \A i \in DOMAIN seq : i \in S <=> Affordable(Prefs, all[i].cost)
  BY <1>5
<1>7. \A i \in DOMAIN seq : i \in S => all[i] \in CandidateTrips
  BY <1>5, <1>6 DEF CandidateTrips
<1> HIDE DEF all, S, Pooled1
<1>8. all \in Seq(Pooled1) /\ Len(all) = Len(seq) /\ DOMAIN seq = 1..Len(seq)
  BY <1>4, SameLength, ElementsIn
<1>9. \A i \in 1..Len(all) : i \in S => all[i] \in CandidateTrips
  BY <1>7, <1>8
<1>10. kept \in Seq(CandidateTrips)
  BY <1>8, <1>9, AtIn
<1>11. NoTwins(all)
  BY <1>5, <1>8, TwinsSame
<1>12. NoTwins(kept)
  BY <1>8, <1>11, TwinsAt
<1>13. \A a \in 1..Len(kept) : \E i \in 1..Len(all) : i \in S /\ kept[a] = all[i]
  BY <1>8, AtFacts
<1>14. \A i \in 1..Len(all) : i \in S => \E a \in 1..Len(kept) : kept[a] = all[i]
  BY <1>8, AtHas
<1> HIDE DEF kept
<1>15. \A a \in 1..Len(kept) : \E i \in 1..Len(seq) : kept[a].resort = seq[i].resort /\ kept[a].start = seq[i].start
  <2> SUFFICES ASSUME NEW a \in 1..Len(kept)
               PROVE  \E i \in 1..Len(seq) : kept[a].resort = seq[i].resort /\ kept[a].start = seq[i].start
    OBVIOUS
  <2>1. PICK i \in 1..Len(all) : kept[a] = all[i]
    BY <1>13
  <2>2. i \in 1..Len(seq) /\ all[i].resort = seq[i].resort /\ all[i].start = seq[i].start
    BY <1>5, <1>8
  <2>3. QED
    BY <2>1, <2>2
<1>16. ASSUME kept = <<>>, NEW i \in 1..Len(seq)
       PROVE  ~Affordable(Prefs, LiveCost(seq[i].cost, LivePrices[seq[i].resort.name]))
  <2>1. i \notin S
    BY <1>8, <1>14, <1>16
  <2>2. QED
    BY <1>5, <1>6, <1>8, <2>1
<1>17. QED
  BY <1>1, <1>10, <1>12, <1>15, <1>16

\* What is left of a list after its first n.
LEMMA DropFacts ==
  ASSUME NEW T, NEW seq \in Seq(T), NEW n \in Nat
  PROVE  /\ Drop(seq, n) \in Seq(T)
         /\ Len(Drop(seq, n)) = IF n <= Len(seq) THEN Len(seq) - n ELSE 0
         /\ \A a \in 1..Len(Drop(seq, n)) : n + a \in 1..Len(seq) /\ Drop(seq, n)[a] = seq[n + a]
BY DEF Drop

LEMMA TwinsJoin ==
  ASSUME NEW T, NEW U, NEW s \in Seq(T), NEW t \in Seq(U), NoTwins(s), NoTwins(t),
         \A a \in 1..Len(s) : \A b \in 1..Len(t) : ~(s[a].resort = t[b].resort /\ s[a].start = t[b].start)
  PROVE  NoTwins(s \o t)
<1>1. PICK u : u = s \o t
  OBVIOUS
<1>2. /\ u \in Seq(T \cup U) /\ Len(u) = Len(s) + Len(t)
      /\ \A a \in 1..Len(s) : u[a] = s[a]
      /\ \A a \in 1..Len(t) : u[Len(s) + a] = t[a]
      /\ \A a \in 1..Len(u) : a \in 1..Len(s) \/ (a - Len(s)) \in 1..Len(t)
  BY <1>1, JoinFacts
<1>3. \A a \in 1..Len(u) : (a - Len(s)) \in 1..Len(t) => u[a] = t[a - Len(s)]
  <2> SUFFICES ASSUME NEW a \in 1..Len(u), (a - Len(s)) \in 1..Len(t) PROVE u[a] = t[a - Len(s)]
    OBVIOUS
  <2>1. PICK b \in 1..Len(t) : b = a - Len(s)
    OBVIOUS
  <2>2. a = Len(s) + b
    BY <2>1
  <2>3. QED
    BY <1>2, <2>1, <2>2
<1>4. ASSUME NEW a \in 1..Len(u), NEW b \in 1..Len(u), u[a].resort = u[b].resort, u[a].start = u[b].start
      PROVE  a = b
  <2>1. CASE a \in 1..Len(s) /\ b \in 1..Len(s)
    BY <1>2, <1>4, <2>1 DEF NoTwins
  <2>2. CASE (a - Len(s)) \in 1..Len(t) /\ (b - Len(s)) \in 1..Len(t)
    <3>1. t[a - Len(s)].resort = t[b - Len(s)].resort /\ t[a - Len(s)].start = t[b - Len(s)].start
      BY <1>3, <1>4, <2>2
    <3>2. a - Len(s) = b - Len(s)
      BY <2>2, <3>1 DEF NoTwins
    <3>3. QED
      BY <3>2
  <2>3. CASE a \in 1..Len(s) /\ (b - Len(s)) \in 1..Len(t)
    BY <1>2, <1>3, <1>4, <2>3, ZenonT(60)
  <2>4. CASE (a - Len(s)) \in 1..Len(t) /\ b \in 1..Len(s)
    BY <1>2, <1>3, <1>4, <2>4
  <2>5. QED
    BY <1>2, <2>1, <2>2, <2>3, <2>4
<1>5. QED
  BY <1>1, <1>4 DEF NoTwins

\* The trips that fit their estimates, the first of them at their live prices.
MayPrice == world.priced /\ world.start # None
PricedFirst ==
  ByScore(RepriceCandidates(Take(FittingFirst, LiveRepriceN), Prefs, LivePrices) \o Drop(FittingFirst, LiveRepriceN))

LEMMA FirstIsCandidate == FittingTrips \subseteq CandidateTrips
<1>1. ASSUME NEW t \in FittingTrips PROVE t.cost \in CostsOf(t.resort, world.start)
  BY LiveCostOffered DEF FittingTrips, EstimatedTrips
<1>2. QED
  BY <1>1 DEF FittingTrips, EstimatedTrips, CandidateTrips

LEMMA PricedFacts ==
  ASSUME WorldGiven, Allows(world.request)
  PROVE  /\ PricedFirst \in Seq(CandidateTrips) /\ NoTwins(PricedFirst)
         /\ PricedFirst = <<>> =>
              \A r \in Pooled : \/ ~Affordable(Prefs, FirstCost(r))
                                \/ ~Affordable(Prefs, LiveCost(FirstCost(r), LivePrices[r.name]))
<1>1. /\ FittingFirst \in Seq(FittingTrips) /\ NoTwins(FittingFirst)
      /\ \A r \in Pooled : \/ ~Affordable(Prefs, FirstCost(r))
                           \/ \E i \in 1..Len(FittingFirst) : FittingFirst[i].resort = r
  BY FittingFacts
<1>2. PICK n \in Nat : n = LiveRepriceN
  BY RankingAssumption
<1>3. PICK head : head = Take(FittingFirst, n)
  OBVIOUS
<1>4. PICK tail : tail = Drop(FittingFirst, n)
  OBVIOUS
<1>5. PICK kept : kept = RepriceCandidates(head, Prefs, LivePrices)
  OBVIOUS
<1>6. /\ head \in Seq(FittingTrips) /\ NoTwins(head)
      /\ Len(head) = IF n <= Len(FittingFirst) THEN n ELSE Len(FittingFirst)
      /\ \A a \in 1..Len(head) : a \in 1..Len(FittingFirst) /\ head[a] = FittingFirst[a]
  BY <1>1, <1>3, TakeFacts, TwinsTake
<1>7. /\ tail \in Seq(FittingTrips)
      /\ Len(tail) = IF n <= Len(FittingFirst) THEN Len(FittingFirst) - n ELSE 0
      /\ \A a \in 1..Len(tail) : n + a \in 1..Len(FittingFirst) /\ tail[a] = FittingFirst[n + a]
  BY <1>1, <1>4, DropFacts
<1>8. /\ kept \in Seq(CandidateTrips) /\ NoTwins(kept)
      /\ \A a \in 1..Len(kept) : \E i \in 1..Len(head) : kept[a].resort = head[i].resort /\ kept[a].start = head[i].start
      /\ kept = <<>> => \A i \in 1..Len(head) :
                          ~Affordable(Prefs, LiveCost(head[i].cost, LivePrices[head[i].resort.name]))
  BY <1>5, <1>6, RepricedTrips
<1>9. NoTwins(tail)
  <2>1. ASSUME NEW a \in 1..Len(tail), NEW b \in 1..Len(tail), tail[a].resort = tail[b].resort,
               tail[a].start = tail[b].start
        PROVE  a = b
    <3>1. n + a \in 1..Len(FittingFirst) /\ n + b \in 1..Len(FittingFirst)
      BY <1>7
    <3>2. /\ FittingFirst[n + a].resort = FittingFirst[n + b].resort
          /\ FittingFirst[n + a].start = FittingFirst[n + b].start
      BY <1>7, <2>1
    <3>3. n + a = n + b
      BY <1>1, <3>1, <3>2 DEF NoTwins
    <3>4. QED
      BY <3>3
  <2>2. QED
    BY <2>1 DEF NoTwins
<1>10. ASSUME NEW a \in 1..Len(kept), NEW b \in 1..Len(tail), kept[a].resort = tail[b].resort,
              kept[a].start = tail[b].start
       PROVE  FALSE
  <2>1. PICK i \in 1..Len(head) : kept[a].resort = head[i].resort /\ kept[a].start = head[i].start
    BY <1>8
  <2>2. i \in 1..Len(FittingFirst) /\ n + b \in 1..Len(FittingFirst) /\ i <= n
    BY <1>6, <1>7
  <2>3. FittingFirst[i].resort = FittingFirst[n + b].resort /\ FittingFirst[i].start = FittingFirst[n + b].start
    BY <1>6, <1>7, <1>10, <2>1
  <2>4. i = n + b
    BY <1>1, <2>2, <2>3 DEF NoTwins
  <2>5. QED
    BY <2>2, <2>4
<1>11. PICK both : both = kept \o tail
  OBVIOUS
<1>12. both \in Seq(CandidateTrips) /\ Len(both) = Len(kept) + Len(tail)
  <2>1. tail \in Seq(CandidateTrips)
    BY <1>7, FirstIsCandidate, ElementsIn, InSeq
  <2>2. QED
    BY <1>8, <1>11, <2>1
<1>13. NoTwins(both)
  BY <1>7, <1>8, <1>9, <1>10, <1>11, TwinsJoin
<1>14. CandidateTrips \subseteq TripType
  BY DEF CandidateTrips
<1>15. PricedFirst = ByScore(both)
  BY <1>2, <1>3, <1>4, <1>5, <1>11 DEF PricedFirst
<1>16. PricedFirst \in Seq(CandidateTrips) /\ NoTwins(PricedFirst) /\ Len(PricedFirst) = Len(both)
  BY <1>12, <1>13, <1>14, <1>15, ByScoreFacts
<1>17. ASSUME PricedFirst = <<>>, NEW r \in Pooled, Affordable(Prefs, FirstCost(r))
       PROVE  ~Affordable(Prefs, LiveCost(FirstCost(r), LivePrices[r.name]))
  <2>1. Len(both) = 0
    BY <1>16, <1>17
  <2>2. Len(kept) = 0 /\ Len(tail) = 0
    BY <1>7, <1>8, <1>12, <2>1
  <2>3. Len(head) = Len(FittingFirst) /\ kept = <<>>
    BY <1>1, <1>6, <1>7, <1>8, <2>2
  <2>4. PICK i \in 1..Len(FittingFirst) : FittingFirst[i].resort = r
    BY <1>1, <1>17
  <2>5. FittingFirst[i] \in FittingTrips
    BY <1>1, ElementsIn
  <2>6. FittingFirst[i].cost = FirstCost(r)
    BY <2>4, <2>5 DEF FittingTrips, EstimatedTrips
  <2>7. i \in 1..Len(head) /\ head[i] = FittingFirst[i]
    BY <1>6, <2>3
  <2>8. QED
    BY <1>8, <2>3, <2>4, <2>6, <2>7
<1>18. QED
  BY <1>16, <1>17

\* The cheapest trips of all, said to be over the budget.
Overpriced(t) ==
  [(IF MayPrice THEN WithLivePrice(t, LivePrices[t.resort.name], Prefs) ELSE t) EXCEPT !.within = FALSE]
Cheapest3 == Take(ByPrice(TripsOfPool), Max({Prefs.topN, 3}))
DearFirst == ByPrice([i \in DOMAIN Cheapest3 |-> Overpriced(Cheapest3[i])])
Candidates == IF MayPrice THEN PricedFirst ELSE FittingFirst

LEMMA RankedIs ==
  RankTrips(world.resorts, Prefs, DateOf(world.start), MayPrice, LivePrices) =
    Take(IF Candidates # <<>> \/ ~Prefs.fallback THEN Candidates ELSE DearFirst, Prefs.topN)
BY DEF RankTrips, Candidates, PricedFirst, FittingFirst, DearFirst, Cheapest3, Overpriced, TripsOfPool, Mapped, FirstCost

LEMMA OverpricedTrip ==
  ASSUME WorldGiven, Allows(world.request), NEW t \in EstimatedTrips
  PROVE  Overpriced(t) \in DearTrips /\ Overpriced(t).resort = t.resort /\ Overpriced(t).start = t.start
<1>1. t \in TripType /\ t.resort \in Pooled /\ t.start = None /\ t.within /\ t.cost = FirstCost(t.resort)
  BY DEF EstimatedTrips
<1>2. PICK u \in TripType : /\ u = IF MayPrice THEN WithLivePrice(t, LivePrices[t.resort.name], Prefs) ELSE t
                            /\ u.resort = t.resort /\ u.start = t.start
                            /\ u.cost = t.cost \/ u.cost = LiveCost(t.cost, LivePrices[t.resort.name])
  BY <1>1, LivePriceOfTrip
<1>3. u.cost \in CostsOf(t.resort, world.start)
  BY <1>1, <1>2, LiveCostOffered
<1>4. PICK v : v = [u EXCEPT !.within = FALSE]
  OBVIOUS
<1>5. v \in TripType /\ v.resort = u.resort /\ v.start = u.start /\ v.cost = u.cost /\ ~v.within
  BY <1>4 DEF TripType
<1>6. Overpriced(t) = v
  BY <1>2, <1>4 DEF Overpriced
<1>7. QED
  BY <1>1, <1>2, <1>3, <1>5, <1>6 DEF DearTrips

\* The trips over the budget come cheapest first.
LEMMA DearFacts ==
  ASSUME WorldGiven, Allows(world.request)
  PROVE  DearFirst \in Seq(DearTrips) /\ NoTwins(DearFirst)
<1>1. TripsOfPool \in Seq(EstimatedTrips) /\ NoTwins(TripsOfPool)
  BY EstimateFacts
<1>2. EstimatedTrips \subseteq TripType /\ DearTrips \subseteq TripType
  BY DEF EstimatedTrips, DearTrips
<1>3. ByPrice(TripsOfPool) \in Seq(EstimatedTrips) /\ NoTwins(ByPrice(TripsOfPool))
  BY <1>1, <1>2, ByPriceFacts
<1>4. PICK n \in Nat : n = Max({Prefs.topN, 3})
  <2>1. PICK m \in Nat : m = Prefs.topN
    BY PrefsFacts DEF PrefsType
  <2>2. Max({m, 3}) \in Nat
    BY MaxOfTwo
  <2>3. QED
    BY <2>1, <2>2
<1>5. Cheapest3 \in Seq(EstimatedTrips) /\ NoTwins(Cheapest3)
  BY <1>3, <1>4, TakeFacts, TwinsTake DEF Cheapest3
<1>6. PICK list : list = [i \in DOMAIN Cheapest3 |-> Overpriced(Cheapest3[i])]
  OBVIOUS
<1>7. \A i \in DOMAIN Cheapest3 : Cheapest3[i] \in EstimatedTrips
  BY <1>5, ElementsIn
<1>8. \A i \in DOMAIN Cheapest3 : /\ list[i] \in DearTrips /\ list[i].resort = Cheapest3[i].resort
                                  /\ list[i].start = Cheapest3[i].start
  BY <1>6, <1>7, OverpricedTrip
<1>9. list \in [DOMAIN Cheapest3 -> DearTrips]
  BY <1>6, <1>8
<1>10. list \in Seq(DearTrips) /\ Len(list) = Len(Cheapest3) /\ DOMAIN Cheapest3 = 1..Len(Cheapest3)
  BY <1>5, <1>9, SameLength, ElementsIn
<1>11. NoTwins(list)
  BY <1>5, <1>8, <1>10, TwinsSame
<1>12. QED
  BY <1>2, <1>6, <1>10, <1>11, ByPriceFacts DEF DearFirst

\* A trip that is shown with its start.
ResultType ==
  {t \in TripType :
     /\ t.resort \in Range(world.resorts)
     /\ t.cost \in CostsOf(t.resort, t.start)
     /\ t.start # None => t.start >= CurrentDay
     /\ world.route = "fixed" =>
          /\ t.start = world.start
          /\ t.within => Affordable(Prefs, t.cost)
          /\ ~t.within => NothingFits}

\* The list that is ranked, and that the search returns.
LEMMA RankedFacts ==
  ASSUME WorldGiven, Allows(world.request)
  PROVE  LET ranked == RankTrips(world.resorts, Prefs, DateOf(world.start), MayPrice, LivePrices)
             U == CandidateTrips \cup IF NothingFits THEN DearTrips ELSE {}
         IN  ranked \in Seq(U) /\ NoTwins(ranked)
<1> DEFINE U == CandidateTrips \cup IF NothingFits THEN DearTrips ELSE {}
<1>1. PICK chosen : chosen = IF Candidates # <<>> \/ ~Prefs.fallback THEN Candidates ELSE DearFirst
  OBVIOUS
<1>2. Candidates \in Seq(CandidateTrips) /\ NoTwins(Candidates)
  BY FittingFacts, PricedFacts, FirstIsCandidate, ElementsIn, InSeq DEF Candidates
<1>3. Candidates = <<>> => NothingFits
  <2> SUFFICES ASSUME Candidates = <<>>, NEW r \in Pooled
               PROVE  \/ TotalEur(FirstCost(r)) > Prefs.budget
                      \/ world.priced /\ TotalEur(LiveCost(FirstCost(r), LivePrices[r.name])) > Prefs.budget
    BY DEF NothingFits, FirstCost, Pooled
  <2>1. FirstCost(r) \in CostType /\ LiveCost(FirstCost(r), LivePrices[r.name]) \in CostType
    <3>1. r \in Resort /\ r \in Range(world.resorts) /\ PrefsType(Prefs)
      BY NarrowedFacts, PrefsFacts
    <3>2. FirstCost(r) \in CostType
      BY <3>1, TripCostType DEF FirstCost
    <3>3. QED
      BY <3>1, <3>2, LiveFacts, LiveCostType
  <2>2. PICK a \in Int : a = TotalEur(FirstCost(r))
    BY <2>1, TotalType
  <2>3. PICK b \in Int : b = TotalEur(LiveCost(FirstCost(r), LivePrices[r.name]))
    BY <2>1, TotalType
  <2>4. PICK budget \in Int : budget = Prefs.budget
    BY PrefsFacts DEF PrefsType
  <2>5. ~(a <= budget) \/ (world.priced /\ ~(b <= budget))
    <3>1. CASE MayPrice
      BY <2>2, <2>3, <2>4, <3>1, PricedFacts DEF Candidates, MayPrice, Affordable
    <3>2. CASE ~MayPrice
      <4>1. Len(FittingFirst) = 0
        BY <3>2 DEF Candidates
      <4>2. ~Affordable(Prefs, FirstCost(r))
        BY <4>1, FittingFacts
      <4>3. QED
        BY <2>2, <2>4, <4>2 DEF Affordable
    <3>3. QED
      BY <3>1, <3>2
  <2>6. QED
    BY <2>2, <2>3, <2>4, <2>5
<1>4. chosen \in Seq(U) /\ NoTwins(chosen)
  <2>1. CASE Candidates # <<>> \/ ~Prefs.fallback
    <3>1. CandidateTrips \subseteq U
      OBVIOUS
    <3>2. QED
      BY <1>1, <1>2, <2>1, <3>1, ElementsIn, InSeq
  <2>2. CASE ~(Candidates # <<>> \/ ~Prefs.fallback)
    <3>1. DearTrips \subseteq U
      BY <1>3, <2>2
    <3>2. QED
      BY <1>1, <2>2, <3>1, DearFacts, ElementsIn, InSeq
  <2>3. QED
    BY <2>1, <2>2
<1> HIDE DEF U
<1>5. PICK n \in Nat : n = Prefs.topN
  BY PrefsFacts DEF PrefsType
<1>6. Take(chosen, n) \in Seq(U) /\ NoTwins(Take(chosen, n))
  BY <1>4, TakeFacts, TwinsTake
<1>7. QED
  BY <1>1, <1>5, <1>6, RankedIs DEF U

LEMMA FixedFacts ==
  ASSUME WorldGiven, Accepted, world.route = "fixed"
  PROVE  FixedTrips \in Seq(ResultType) /\ NoTwins(FixedTrips)
<1> DEFINE U == CandidateTrips \cup IF NothingFits THEN DearTrips ELSE {}
           ranked == RankTrips(world.resorts, Prefs, DateOf(world.start), MayPrice, LivePrices)
           list == [i \in DOMAIN ranked |-> [ranked[i] EXCEPT !.start = world.start]]
           S == {i \in DOMAIN list : TotalEur(list[i].cost) >= world.request.least}
<1>1. FixedTrips = At(list, S)
  BY DEF FixedTrips, DearEnough, Where, Mapped, MayPrice
<1>2. Allows(world.request) /\ (world.start # None => world.start >= CurrentDay)
  BY DEF Accepted
<1>3. ranked \in Seq(U) /\ NoTwins(ranked)
  BY <1>2, RankedFacts
<1>4. PICK when \in Int : when = world.start
  BY WorldFacts
<1>5. ASSUME NEW t \in U
      PROVE  LET u == [t EXCEPT !.start = world.start]
             IN  u \in ResultType /\ u.resort = t.resort /\ t.start = None
  <2>1. PICK u : u = [t EXCEPT !.start = when]
    OBVIOUS
  <2>2. /\ t \in TripType /\ t.resort \in Pooled /\ t.start = None /\ t.cost \in CostsOf(t.resort, world.start)
        /\ t.within => Affordable(Prefs, t.cost)
        /\ ~t.within => NothingFits
    BY DEF CandidateTrips, DearTrips
  <2>3. u \in TripType /\ u.resort = t.resort /\ u.start = when /\ u.cost = t.cost /\ u.within = t.within
    BY <2>1, <2>2 DEF TripType
  <2>4. t.resort \in Range(world.resorts)
    BY <2>2, NarrowedFacts
  <2>5. u \in ResultType
    BY <1>2, <1>4, <2>2, <2>3, <2>4 DEF ResultType
  <2>6. QED
    BY <1>4, <2>1, <2>2, <2>3, <2>5
<1> HIDE DEF U, ranked
<1>6. \A i \in DOMAIN ranked : ranked[i] \in U
  BY <1>3, ElementsIn
<1>7. \A i \in DOMAIN ranked : list[i] \in ResultType /\ list[i].resort = ranked[i].resort /\ ranked[i].start = None
  BY <1>5, <1>6
<1>8. list \in [DOMAIN ranked -> ResultType]
  BY <1>7
<1> HIDE DEF list, S
<1>9. list \in Seq(ResultType) /\ Len(list) = Len(ranked) /\ DOMAIN ranked = 1..Len(ranked)
  BY <1>3, <1>8, SameLength, ElementsIn
<1>10. NoTwins(list)
  BY <1>3, <1>7, <1>9 DEF NoTwins
<1>11. At(list, S) \in Seq(ResultType) /\ NoTwins(At(list, S))
  BY <1>9, <1>10, AtFacts, TwinsAt
<1>12. QED
  BY <1>1, <1>11

-----------------------------------------------------------------------------
\* The rows of the date-range route, and the options of either.

\* A resort is found by its name.
LEMMA NamedFacts ==
  ASSUME WorldGiven
  PROVE  /\ \A name \in NamesOf(world.resorts) :
              ResortNamed(name) \in Range(world.resorts) /\ ResortNamed(name).name = name
         /\ \A r \in Range(world.resorts) : r.name \in NamesOf(world.resorts) /\ ResortNamed(r.name) = r
<1>1. \A i, j \in DOMAIN world.resorts : world.resorts[i].name = world.resorts[j].name => i = j
  BY WorldFacts
<1>2. ASSUME NEW k \in DOMAIN world.resorts, NEW name, world.resorts[k].name = name
      PROVE  ResortNamed(name) = world.resorts[k]
  <2>1. PICK i : i = CHOOSE j \in DOMAIN world.resorts : world.resorts[j].name = name
    OBVIOUS
  <2>2. i \in DOMAIN world.resorts /\ world.resorts[i].name = name
    BY <1>2, <2>1
  <2>3. i = k
    BY <1>1, <1>2, <2>2
  <2>4. QED
    BY <2>1, <2>3 DEF ResortNamed
<1>3. QED
  BY <1>2 DEF NamesOf, Range

\* A row of the engine, at the price it is shown at.
DatedTrip(d) == FlaggedTrip(LiveIf(d.live, EstimateOf(ResortNamed(d.resort), d.start)), d.start)

LEMMA DatedTripFacts ==
  ASSUME WorldGiven, Accepted, world.route = "dates", NEW d, d.resort \in NamesOf(world.resorts),
         d.start \in Int, d.start >= CurrentDay
  PROVE  /\ DatedTrip(d) \in ResultType
         /\ DatedTrip(d).resort = ResortNamed(d.resort) /\ DatedTrip(d).start = d.start
<1>1. PICK r : r = ResortNamed(d.resort)
  OBVIOUS
<1>2. r \in Range(world.resorts) /\ r \in Resort /\ world.resorts \in Seq(Resort) /\ Len(world.resorts) # 0
  <2>1. r \in Range(world.resorts)
    BY <1>1, NamedFacts
  <2>2. world.resorts \in Seq(Resort)
    BY WorldFacts
  <2>3. DOMAIN world.resorts # {}
    BY <2>1 DEF Range
  <2>4. QED
    BY <2>1, <2>2, <2>3, NarrowedFacts
<1>3. PICK when \in Int : when = d.start /\ when >= CurrentDay
  OBVIOUS
<1>4. Allows(world.request) /\ PrefsType(Prefs)
  BY PrefsFacts DEF Accepted
<1>5. PICK cost \in CostType : cost = ComputeTripCost(r, Prefs, DateOf(when))
  BY <1>2, <1>4, TripCostType
<1>6. PICK t : t = EstimateOf(r, when)
  OBVIOUS
<1>7. t \in TripType /\ t.resort = r /\ t.cost = cost /\ t.start = None
  BY <1>2, <1>4, <1>5, <1>6, TripTypeHolds DEF EstimateOf
<1>8. LivePrices[r.name] \in LivePair
  BY <1>2, <1>4, LiveFacts
<1>9. PICK u : u = LiveIf(d.live, t)
  OBVIOUS
<1>10. u \in TripType /\ u.resort = r /\ (u.cost = cost \/ u.cost = LiveCost(cost, LivePrices[r.name]))
  <2>1. CASE d.live
    <3>1. u = WithLivePrice(t, LivePrices[r.name], Prefs)
      BY <1>7, <1>9, <2>1 DEF LiveIf
    <3>2. QED
      BY <1>4, <1>7, <1>8, <3>1, WithLivePriceType
  <2>2. CASE ~d.live
    BY <1>7, <1>9, <2>2 DEF LiveIf
  <2>3. QED
    BY <2>1, <2>2
<1>11. PICK fits \in BOOLEAN : fits = Affordable(Prefs, u.cost)
  <2>1. TotalEur(u.cost) \in Int
    BY <1>10, TotalType DEF TripType
  <2>2. Prefs.budget \in Int
    BY <1>4 DEF PrefsType
  <2>3. PICK a \in Int, b \in Int : a = TotalEur(u.cost) /\ b = Prefs.budget
    BY <2>1, <2>2
  <2>4. (a <= b) \in BOOLEAN
    OBVIOUS
  <2>5. QED
    BY <2>3, <2>4 DEF Affordable
<1>12. PICK v : v = [u EXCEPT !.within = fits, !.start = when]
  OBVIOUS
<1>13. v \in TripType /\ v.resort = r /\ v.start = when /\ v.cost = u.cost
  BY <1>10, <1>12 DEF TripType
<1>14. v.cost \in CostsOf(v.resort, v.start)
  BY <1>5, <1>10, <1>13 DEF CostsOf
<1>15. v \in ResultType
  BY <1>2, <1>3, <1>13, <1>14 DEF ResultType
<1>16. DatedTrip(d) = v
  BY <1>1, <1>3, <1>6, <1>9, <1>11, <1>12 DEF DatedTrip, FlaggedTrip
<1>17. QED
  BY <1>1, <1>3, <1>13, <1>15, <1>16

\* The rows of the engine, each once.
LEMMA DatedFacts ==
  ASSUME WorldGiven, Accepted, world.route = "dates"
  PROVE  DatedTrips \in Seq(ResultType) /\ NoTwins(DatedTrips)
<1> DEFINE list == [i \in DOMAIN world.dated |-> DatedTrip(world.dated[i])]
           S == {i \in DOMAIN list : TotalEur(list[i].cost) >= world.request.least}
<1>1. DatedTrips = At(list, S)
  BY DEF DatedTrips, DearEnough, Where, Mapped, DatedTrip
<1>2. PICK dated : dated = world.dated
  OBVIOUS
<1>3. dated \in Seq([resort : NamesOf(world.resorts), start : {d \in Int : d >= CurrentDay}, live : BOOLEAN])
  BY <1>2, WorldFacts
<1>4. \A i \in DOMAIN dated : /\ dated[i].resort \in NamesOf(world.resorts)
                              /\ dated[i].start \in Int /\ dated[i].start >= CurrentDay
  <2>1. PICK N : N = NamesOf(world.resorts)
    OBVIOUS
  <2>2. PICK D : D = {d \in Int : d >= CurrentDay}
    OBVIOUS
  <2>3. \A i \in DOMAIN dated : dated[i] \in [resort : N, start : D, live : BOOLEAN]
    BY <1>3, <2>1, <2>2, ElementsIn
  <2>4. \A i \in DOMAIN dated : dated[i].resort \in N /\ dated[i].start \in D
    BY <2>3
  <2>5. QED
    BY <2>1, <2>2, <2>4
<1>5. \A i, j \in DOMAIN dated : dated[i].resort = dated[j].resort /\ dated[i].start = dated[j].start => i = j
  BY <1>2, WorldFacts
<1>6. DOMAIN list = DOMAIN dated /\ \A i \in DOMAIN dated : list[i] = DatedTrip(dated[i])
  BY <1>2
<1>7. list = [i \in DOMAIN dated |-> list[i]]
  BY <1>2
<1> HIDE DEF list, S
<1>8. \A i \in DOMAIN dated : /\ list[i] \in ResultType /\ list[i].resort = ResortNamed(dated[i].resort)
                              /\ list[i].start = dated[i].start
  BY <1>4, <1>6, DatedTripFacts
<1>9. list \in [DOMAIN dated -> ResultType]
  BY <1>7, <1>8
<1>10. list \in Seq(ResultType) /\ Len(list) = Len(dated) /\ DOMAIN dated = 1..Len(dated)
  BY <1>3, <1>9, SameLength, ElementsIn
<1>11. NoTwins(list)
  <2> SUFFICES ASSUME NEW a \in 1..Len(list), NEW b \in 1..Len(list), list[a].resort = list[b].resort,
                      list[a].start = list[b].start
               PROVE  a = b
    BY DEF NoTwins
  <2>1. ResortNamed(dated[a].resort).name = dated[a].resort /\ ResortNamed(dated[b].resort).name = dated[b].resort
    BY <1>4, <1>10, NamedFacts
  <2>2. dated[a].resort = dated[b].resort /\ dated[a].start = dated[b].start
    BY <1>8, <1>10, <2>1
  <2>3. QED
    BY <1>5, <1>10, <2>2
<1>12. At(list, S) \in Seq(ResultType) /\ NoTwins(At(list, S))
  BY <1>10, <1>11, AtFacts, TwinsAt
<1>13. QED
  BY <1>1, <1>12

\* The options of either route: of a resort and a start there is one.
LEMMA OptionsFacts ==
  ASSUME WorldGiven, Accepted
  PROVE  Options \in Seq(ResultType) /\ NoTwins(Options)
BY WorldFacts, FixedFacts, DatedFacts DEF Options

-----------------------------------------------------------------------------
\* The days of a trip and their weather.

\* The days of a set, from one day to another, in their order.
DaysIn(S, first, last) ==
  At(Days(first, last), {i \in DOMAIN Days(first, last) : Days(first, last)[i] \in S})

LEMMA DaysInFacts ==
  ASSUME NEW S, NEW first \in Int, NEW last \in Int
  PROVE  LET q == DaysIn(S, first, last) IN
         /\ q \in Seq(Int)
         /\ \A a \in 1..Len(q) : q[a] \in S /\ q[a] \in first..last
         /\ \A a, b \in 1..Len(q) : a < b => q[a] < q[b]
         /\ \A d \in first..last : d \in S => \E a \in 1..Len(q) : q[a] = d
<1>1. PICK all : all = Days(first, last)
  OBVIOUS
<1>2. PICK n \in Nat : n = Max({0, last - first + 1})
  <2>1. PICK m \in Int : m = last - first + 1
    OBVIOUS
  <2>2. Max({0, m}) \in Nat
    BY MaxOfTwo
  <2>3. QED
    BY <2>1, <2>2
<1>3. 1..(last - first + 1) = 1..n /\ (first <= last => n = last - first + 1) /\ (n > 0 => n = last - first + 1)
  <2>1. PICK m \in Int : m = last - first + 1
    OBVIOUS
  <2>2. n = IF 0 <= m THEN m ELSE 0
    BY <1>2, <2>1, MaxOfTwo
  <2>3. QED
    BY <2>1, <2>2
<1>4. all \in [1..n -> Int] /\ \A i \in 1..n : all[i] = first + i - 1
  BY <1>3, <1>1 DEF Days
<1>5. all \in Seq(Int) /\ Len(all) = n /\ DOMAIN all = 1..n
  BY <1>4
<1> DEFINE T == {i \in DOMAIN all : all[i] \in S}
<1>6. PICK q : q = DaysIn(S, first, last)
  OBVIOUS
<1>7. q = At(all, T)
  BY <1>1, <1>6 DEF DaysIn
<1>8. \A i \in 1..n : i \in T <=> all[i] \in S
  BY <1>5
<1> HIDE DEF T
<1>9. PICK p : Picked(q, p, all, Int, T, Len(all))
  BY <1>5, <1>7, AtIsPicked
<1>10. /\ q \in Seq(Int) /\ p \in [1..Len(q) -> 1..n]
       /\ \A a, b \in 1..Len(q) : a < b => p[a] < p[b]
       /\ \A a \in 1..Len(q) : q[a] = all[p[a]] /\ p[a] \in T
       /\ \A m \in 1..n : m \in T => \E a \in 1..Len(q) : p[a] = m
  BY <1>5, <1>9 DEF Picked
<1>11. \A a \in 1..Len(q) : q[a] \in S /\ q[a] = first + p[a] - 1 /\ p[a] \in 1..n
  BY <1>4, <1>8, <1>10
<1>12. \A a \in 1..Len(q) : q[a] \in first..last
  BY <1>3, <1>11
<1>13. \A a, b \in 1..Len(q) : a < b => q[a] < q[b]
  BY <1>10, <1>11
<1>14. ASSUME NEW d \in first..last, d \in S PROVE \E a \in 1..Len(q) : q[a] = d
  <2>1. PICK i \in 1..n : i = d - first + 1
    BY <1>3
  <2>2. all[i] = d
    BY <1>4, <2>1
  <2>3. PICK a \in 1..Len(q) : p[a] = i
    BY <1>8, <1>10, <1>14, <2>2
  <2>4. QED
    BY <1>10, <2>2, <2>3
<1>15. QED
  BY <1>6, <1>10, <1>11, <1>12, <1>13, <1>14

\* A list with a reading for each day of a set, from one day to another, and no
\* other, in the order of the days.
Readings(seq, S, first, last) ==
  /\ \E T : seq \in Seq(T)
  /\ \A a \in 1..Len(seq) : seq[a].day \in S /\ seq[a].day \in first..last
  /\ \A a, b \in 1..Len(seq) : a < b => seq[a].day < seq[b].day
  /\ \A d \in first..last : d \in S => \E a \in 1..Len(seq) : seq[a].day = d

Foretold(answer, first, last, today) ==
  {d \in ForecastSpan(first, last, today) \cap DOMAIN answer.days : ~answer.days[d].garbled}

\* The readings of a forecast, and those of the archive.
LEMMA ForecastFacts ==
  ASSUME NEW answer, NEW first \in Int, NEW last \in Int, NEW today
  PROVE  LET f == ForecastRange(answer, first, last, today) IN
         /\ Readings(f, Foretold(answer, first, last, today), first, last)
         /\ \A a \in 1..Len(f) : f[a].live
<1>1. PICK S : S = Foretold(answer, first, last, today)
  OBVIOUS
<1>2. PICK q : q = DaysIn(S, first, last)
  OBVIOUS
<1> DEFINE DayOf(d) == Daily(d, answer.days[d].temp, OrZero(answer.days[d].depth), TRUE, None)
           f == [i \in DOMAIN q |-> DayOf(q[i])]
<1>3. ForecastRange(answer, first, last, today) = f
  BY <1>1, <1>2 DEF ForecastRange, Mapped, Where, Foretold, DaysIn
<1>4. \A d : DayOf(d).day = d /\ DayOf(d).live
  BY DEF Daily
<1>5. PICK U : U = {DayOf(d) : d \in Int}
  OBVIOUS
<1>6. \A d \in Int : DayOf(d) \in U
  BY <1>5
<1> HIDE DEF DayOf
<1>7. /\ q \in Seq(Int)
      /\ \A a \in 1..Len(q) : q[a] \in S /\ q[a] \in first..last
      /\ \A a, b \in 1..Len(q) : a < b => q[a] < q[b]
      /\ \A d \in first..last : d \in S => \E a \in 1..Len(q) : q[a] = d
  BY <1>2, DaysInFacts
<1>8. DOMAIN q = 1..Len(q) /\ f \in [DOMAIN q -> U]
  BY <1>6, <1>7
<1>9. f \in Seq(U) /\ Len(f) = Len(q)
  BY <1>7, <1>8, SameLength
<1>10. \A a \in 1..Len(q) : f[a].day = q[a] /\ f[a].live
  BY <1>4, <1>8
<1> HIDE DEF f
<1>11. Readings(f, S, first, last)
  <2>1. \A a \in 1..Len(f) : f[a].day = q[a]
    BY <1>9, <1>10
  <2>2. \A a \in 1..Len(f) : f[a].day \in S /\ f[a].day \in first..last
    BY <1>7, <1>9, <2>1
  <2>3. \A a, b \in 1..Len(f) : a < b => f[a].day < f[b].day
    BY <1>7, <1>9, <2>1
  <2>4. \A d \in first..last : d \in S => \E a \in 1..Len(f) : f[a].day = d
    BY <1>7, <1>9, <2>1
  <2>5. QED
    BY <1>9, <2>2, <2>3, <2>4, Zenon DEF Readings
<1>12. QED
  BY <1>1, <1>3, <1>9, <1>10, <1>11

Remembered(archive, first, last) == {d \in first..last : Samples(archive, d) # <<>>}

LEMMA HistoryFacts ==
  ASSUME NEW archive, NEW first \in Int, NEW last \in Int
  PROVE  LET h == HistoricalDays(archive, first, last) IN
         /\ Readings(h, Remembered(archive, first, last), first, last)
         /\ \A a \in 1..Len(h) : ~h[a].live
<1> DEFINE DayOf(d) == LET s == Samples(archive, d) IN
                       Daily(d, Mean([i \in DOMAIN s |-> s[i].temp]),
                             Mean([i \in DOMAIN s |-> OrZero(s[i].depth)]), FALSE, Len(s))
           all == Days(first, last)
           T == {i \in DOMAIN all : Samples(archive, all[i]) # <<>>}
           q == At(all, T)
           h == [i \in DOMAIN q |-> DayOf(q[i])]
<1>1. HistoricalDays(archive, first, last) = h
  BY DEF HistoricalDays, Mapped, Where
<1>2. PICK S : S = Remembered(archive, first, last)
  OBVIOUS
<1>3. \A i \in DOMAIN all : all[i] \in first..last
  BY DEF Days
<1>4. T = {i \in DOMAIN all : all[i] \in S}
  BY <1>2, <1>3 DEF Remembered
<1>5. q = DaysIn(S, first, last)
  BY <1>4 DEF DaysIn
<1>6. \A d : DayOf(d).day = d /\ ~DayOf(d).live
  BY DEF Daily
<1>7. PICK U : U = {DayOf(d) : d \in Int}
  OBVIOUS
<1>8. \A d \in Int : DayOf(d) \in U
  BY <1>7
<1> HIDE DEF DayOf, q, T
<1>9. /\ q \in Seq(Int)
      /\ \A a \in 1..Len(q) : q[a] \in S /\ q[a] \in first..last
      /\ \A a, b \in 1..Len(q) : a < b => q[a] < q[b]
      /\ \A d \in first..last : d \in S => \E a \in 1..Len(q) : q[a] = d
  BY <1>5, DaysInFacts
<1>10. DOMAIN q = 1..Len(q) /\ h \in [DOMAIN q -> U]
  BY <1>8, <1>9
<1>11. h \in Seq(U) /\ Len(h) = Len(q)
  BY <1>9, <1>10, SameLength
<1>12. \A a \in 1..Len(q) : h[a].day = q[a] /\ ~h[a].live
  BY <1>6, <1>10
<1> HIDE DEF h
<1>13. Readings(h, S, first, last)
  <2>1. \A a \in 1..Len(h) : h[a].day = q[a]
    BY <1>11, <1>12
  <2>2. \A a \in 1..Len(h) : h[a].day \in S /\ h[a].day \in first..last
    BY <1>9, <1>11, <2>1
  <2>3. \A a, b \in 1..Len(h) : a < b => h[a].day < h[b].day
    BY <1>9, <1>11, <2>1
  <2>4. \A d \in first..last : d \in S => \E a \in 1..Len(h) : h[a].day = d
    BY <1>9, <1>11, <2>1
  <2>5. QED
    BY <1>11, <2>2, <2>3, <2>4, Zenon DEF Readings
<1>14. QED
  BY <1>1, <1>2, <1>11, <1>12, <1>13

\* The days of a trip.
LEMMA SpanFacts ==
  ASSUME NEW first \in Int, NEW last \in Int, NEW today \in Int, NEW d \in Int
  PROVE  d \in ForecastSpan(first, last, today) <=>
           first <= d /\ today <= d /\ d <= last /\ d <= today + MaxForecastDays
<1>1. PICK end \in Int : end = today + MaxForecastDays
  BY WeatherAssumption
<1>2. Max({first, today}) = IF first <= today THEN today ELSE first
  BY MaxOfTwo
<1>3. Min({last, end}) = IF last <= end THEN last ELSE end
  BY MinOfTwo
<1>4. ForecastSpan(first, last, today) =
        (IF first <= today THEN today ELSE first)..(IF last <= end THEN last ELSE end)
  BY <1>1, <1>2, <1>3 DEF ForecastSpan
<1>5. QED
  BY <1>1, <1>4

\* The forecast and then the history: a reading a day, and none missing that
\* either should have.
Lost(answer, first, last, today) ==
  IF answer.forecast.fails THEN {}
  ELSE {d \in ForecastSpan(first, last, today) :
          d \notin DOMAIN answer.forecast.days \/ answer.forecast.days[d].garbled}

LEMMA TripDaysFacts ==
  ASSUME NEW answer, NEW first \in Int, NEW last \in Int, NEW today \in Int, today <= first
  PROVE  LET w == TripDays(answer, first, last, today) IN
         /\ \E T : w \in Seq(T)
         /\ \A i \in 1..(Len(w) - 1) : w[i].day < w[i + 1].day
         /\ \A i \in 1..Len(w) : w[i].live => w[i].day \in today..(today + MaxForecastDays)
         /\ \A d \in first..last :
              d \notin Lost(answer, first, last, today) /\ Samples(answer.archive, d) # <<>> =>
                \E i \in 1..Len(w) : w[i].day = d
<1>1. PICK f : f = IF answer.forecast.fails THEN <<>> ELSE ForecastRange(answer.forecast, first, last, today)
  OBVIOUS
<1>2. PICK S : S = IF answer.forecast.fails THEN {} ELSE Foretold(answer.forecast, first, last, today)
  OBVIOUS
<1>3. /\ \E T : f \in Seq(T)
      /\ \A a \in 1..Len(f) : f[a].day \in S /\ f[a].day \in first..last /\ f[a].live
      /\ \A a, b \in 1..Len(f) : a < b => f[a].day < f[b].day
      /\ \A d \in first..last : d \in S => \E a \in 1..Len(f) : f[a].day = d
  <2>1. CASE answer.forecast.fails
    <3>1. f \in Seq({})
      BY <1>1, <2>1
    <3>2. Len(f) = 0 /\ S = {}
      BY <1>1, <1>2, <2>1
    <3>3. QED
      BY <3>1, <3>2
  <2>2. CASE ~answer.forecast.fails
    <3>1. f = ForecastRange(answer.forecast, first, last, today)
      BY <1>1, <2>2
    <3>2. S = Foretold(answer.forecast, first, last, today)
      BY <1>2, <2>2
    <3>3. Readings(f, S, first, last) /\ \A a \in 1..Len(f) : f[a].live
      BY <3>1, <3>2, ForecastFacts
    <3>4. QED
      BY <3>3 DEF Readings
  <2>3. QED
    BY <2>1, <2>2
<1>4. PICK T : f \in Seq(T)
  BY <1>3
<1>5. PICK next \in Int : /\ next = IF f = <<>> THEN first ELSE Last(f).day + 1
                          /\ f = <<>> => next = first
                          /\ f # <<>> => Len(f) \in 1..Len(f) /\ next = f[Len(f)].day + 1
  <2>1. CASE f = <<>>
    BY <2>1
  <2>2. CASE f # <<>>
    <3>1. Len(f) \in 1..Len(f)
      BY <1>4, <2>2
    <3>2. Last(f).day = f[Len(f)].day /\ f[Len(f)].day \in Int
      BY <1>3, <3>1 DEF Last
    <3>3. QED
      BY <2>2, <3>1, <3>2
  <2>3. QED
    BY <2>1, <2>2
<1>6. PICK h : h = HistoricalDays(answer.archive, next, last)
  OBVIOUS
<1>7. /\ \E U : h \in Seq(U)
      /\ \A a \in 1..Len(h) : h[a].day \in next..last /\ ~h[a].live
      /\ \A a, b \in 1..Len(h) : a < b => h[a].day < h[b].day
      /\ \A d \in next..last : Samples(answer.archive, d) # <<>> => \E a \in 1..Len(h) : h[a].day = d
  BY <1>6, HistoryFacts DEF Readings, Remembered
<1>8. PICK U : h \in Seq(U)
  BY <1>7
<1>9. PICK w : w = f \o h
  OBVIOUS
<1>10. TripDays(answer, first, last, today) = w
  BY <1>1, <1>5, <1>6, <1>9 DEF TripDays
<1>11. /\ w \in Seq(T \cup U) /\ Len(w) = Len(f) + Len(h)
       /\ \A a \in 1..Len(f) : w[a] = f[a]
       /\ \A a \in 1..Len(h) : w[Len(f) + a] = h[a]
       /\ \A a \in 1..Len(w) : a \in 1..Len(f) \/ (a - Len(f)) \in 1..Len(h)
  BY <1>4, <1>8, <1>9, JoinFacts
<1>12. PICK m \in Nat : m = Len(f)
  BY <1>4
<1>13. PICK k \in Nat : k = Len(h)
  BY <1>8
<1>14. \A a \in 1..(m + k) : (a \in 1..m /\ w[a] = f[a]) \/ ((a - m) \in 1..k /\ w[a] = h[a - m])
  <2> SUFFICES ASSUME NEW a \in 1..(m + k)
               PROVE  (a \in 1..m /\ w[a] = f[a]) \/ ((a - m) \in 1..k /\ w[a] = h[a - m])
    OBVIOUS
  <2>1. CASE a <= m
    <3>1. a \in 1..m /\ w[a] = f[a]
      BY <1>11, <1>12, <2>1
    <3>2. QED
      BY <3>1
  <2>2. CASE ~(a <= m)
    <3>1. PICK b \in 1..k : a = m + b
      BY <2>2
    <3>2. w[a] = h[b] /\ a - m = b
      BY <1>11, <1>12, <1>13, <3>1
    <3>3. QED
      BY <3>2
  <2>3. QED
    BY <2>1, <2>2
<1>15. ASSUME NEW i \in 1..(Len(w) - 1) PROVE w[i].day < w[i + 1].day
  <2>1. i \in 1..(m + k) /\ i + 1 \in 1..(m + k)
    BY <1>11, <1>12, <1>13
  <2>2. CASE i + 1 <= m
    <3>1. i \in 1..m /\ i + 1 \in 1..m /\ i < i + 1
      BY <2>1, <2>2
    <3>2. QED
      BY <1>3, <1>11, <1>12, <3>1
  <2>3. CASE i = m
    <3>1. i \in 1..m /\ (i + 1) - m = 1 /\ 1 \in 1..k
      BY <2>1, <2>3
    <3>2. w[i] = f[i] /\ w[i + 1] = h[1]
      BY <1>11, <1>12, <1>13, <2>3, <3>1
    <3>3. f # <<>>
      BY <1>12, <3>1
    <3>4. next = f[i].day + 1 /\ f[i].day \in Int
      BY <1>3, <1>5, <1>12, <2>3, <3>1, <3>3
    <3>5. h[1].day \in next..last
      BY <1>7, <1>13, <3>1
    <3>6. QED
      BY <3>2, <3>4, <3>5
  <2>4. CASE m < i
    <3>1. PICK b \in Int : b = i - m
      OBVIOUS
    <3>2. b \in 1..k /\ b + 1 \in 1..k /\ i = m + b /\ i + 1 = m + (b + 1)
      BY <2>1, <2>4, <3>1
    <3>3. w[i] = h[b] /\ w[i + 1] = h[b + 1]
      BY <1>11, <1>12, <1>13, <3>2
    <3>4. QED
      BY <1>7, <1>13, <3>1, <3>2, <3>3
  <2>5. QED
    BY <2>2, <2>3, <2>4
<1>16. ASSUME NEW i \in 1..Len(w), w[i].live PROVE w[i].day \in today..(today + MaxForecastDays)
  <2>1. i \in 1..m /\ w[i] = f[i]
    BY <1>7, <1>11, <1>12, <1>13, <1>14, <1>16
  <2>2. f[i].day \in S /\ f[i].day \in first..last
    BY <1>3, <1>12, <2>1
  <2>3. f[i].day \in ForecastSpan(first, last, today)
    BY <1>2, <2>2 DEF Foretold
  <2>4. PICK d \in Int : d = f[i].day
    BY <2>2
  <2>5. today <= d /\ d <= today + MaxForecastDays
    BY <2>3, <2>4, SpanFacts
  <2>6. QED
    BY <2>1, <2>4, <2>5, WeatherAssumption
<1>17. ASSUME NEW d \in first..last, d \notin Lost(answer, first, last, today), Samples(answer.archive, d) # <<>>
       PROVE  \E i \in 1..Len(w) : w[i].day = d
  <2>1. CASE next <= d
    <3>1. PICK a \in 1..k : h[a].day = d
      BY <1>7, <1>13, <1>17, <2>1
    <3>2. m + a \in 1..Len(w) /\ w[m + a] = h[a]
      BY <1>11, <1>12, <1>13
    <3>3. QED
      BY <3>1, <3>2
  <2>2. CASE ~(next <= d)
    <3>1. f # <<>>
      BY <1>5, <2>2
    <3>2. Len(f) \in 1..Len(f) /\ next = f[Len(f)].day + 1
      BY <1>5, <3>1
    <3>3. PICK e \in Int : e = f[Len(f)].day
      BY <1>3, <3>2
    <3>4. e \in S /\ e \in first..last
      BY <1>3, <3>2, <3>3
    <3>5. ~answer.forecast.fails
      BY <1>1, <3>1
    <3>6. e \in ForecastSpan(first, last, today)
      BY <1>2, <3>4, <3>5 DEF Foretold
    <3>7. e <= today + MaxForecastDays /\ d <= e
      BY <2>2, <3>2, <3>3, <3>6, SpanFacts
    <3>8. d <= today + MaxForecastDays /\ today <= d
      BY <3>7, WeatherAssumption
    <3>9. d \in ForecastSpan(first, last, today)
      BY <3>8, SpanFacts
    <3>10. d \in S
      BY <1>2, <1>17, <3>5, <3>9 DEF Lost, Foretold
    <3>11. PICK a \in 1..m : f[a].day = d
      BY <1>3, <1>12, <3>10
    <3>12. a \in 1..Len(w) /\ w[a] = f[a]
      BY <1>11, <1>12, <1>13, SMTT(40)
    <3>13. QED
      BY <3>11, <3>12
  <2>3. QED
    BY <2>1, <2>2
<1>18. QED
  BY <1>10, <1>11, <1>15, <1>16, <1>17

-----------------------------------------------------------------------------
\* Ranking again on snow.

\* The quotient is the one number whose multiple is the greatest below.
LEMMA Quotient ==
  ASSUME NEW x \in Int, NEW m \in Nat \ {0}, NEW q \in Int, q * m <= x, x < q * m + m
  PROVE  x \div m = q
<1>1. PICK d \in Int : d = x \div m
  OBVIOUS
<1>2. d * m <= x /\ x < d * m + m
  BY <1>1, Z3T(60)
<1>3. ASSUME d < q PROVE FALSE
  <2>1. PICK e \in Nat : q = d + 1 + e
    BY <1>3
  <2>2. q * m = d * m + m + e * m
    BY <2>1
  <2>3. e * m >= 0
    OBVIOUS
  <2>4. d * m \in Int /\ e * m \in Int
    OBVIOUS
  <2>5. QED
    BY <1>2, <2>2, <2>3, <2>4
<1>4. ASSUME q < d PROVE FALSE
  <2>1. PICK e \in Nat : d = q + 1 + e
    BY <1>4
  <2>2. d * m = q * m + m + e * m
    BY <2>1
  <2>3. e * m >= 0
    OBVIOUS
  <2>4. q * m \in Int /\ e * m \in Int
    OBVIOUS
  <2>5. QED
    BY <1>2, <2>2, <2>3, <2>4
<1>5. QED
  BY <1>1, <1>3, <1>4

\* A share of a multiple is exact.
LEMMA ShareExact ==
  ASSUME NEW a \in Int, NEW p \in Nat \ {0}
  PROVE  Share(a * p, p) = a
<1>1. PICK b \in Int : b = a * p
  OBVIOUS
<1>2. a * (2 * p) = 2 * b
  BY <1>1
<1>3. PICK m \in Nat \ {0} : m = 2 * p
  OBVIOUS
<1>4. a * m <= 2 * b + p /\ 2 * b + p < a * m + m
  BY <1>2, <1>3
<1>5. (2 * b + p) \div m = a
  BY <1>4, Quotient
<1>6. QED
  BY <1>1, <1>3, <1>5 DEF Share

\* What a lookup of the snow tells: nothing, or of how many days, how many of
\* them forecast.
SnowTold(w) == w = {} \/ \E s : w = {s} /\ s.days \in Nat \ {0} /\ s.forecast \in Nat
NoneForecast(w) == \A s \in w : s.forecast = 0

LEMMA DepthScoreType == ASSUME NEW depth PROVE DepthScore(depth) \in Int
<1> DEFINE S == {i \in DOMAIN DepthBands : depth >= DepthBands[i].depth}
<1>1. PICK reached : reached = At(DepthBands, S)
  OBVIOUS
<1>2. reached \in Seq([depth : Int, score : Int])
  BY <1>1, RankingAssumption, AtFacts
<1>3. reached # <<>> => reached[1].score \in Int
  <2>1. reached # <<>> => reached[1] \in [depth : Int, score : Int]
    <3>1. PICK U : U = [depth : Int, score : Int]
      OBVIOUS
    <3>2. reached \in Seq(U)
      BY <1>2, <3>1
    <3>3. reached # <<>> => 1 \in 1..Len(reached)
      BY <3>2
    <3>4. QED
      BY <3>1, <3>2, <3>3, ElementsIn
  <2>2. QED
    BY <2>1
<1>4. DepthScore(depth) = IF reached = <<>> THEN 50 ELSE reached[1].score
  BY <1>1 DEF DepthScore, Where
<1>5. QED
  BY <1>3, <1>4

\* Snow of which no day is forecast changes nothing.
LEMMA BlendedFacts ==
  ASSUME NEW static \in Int, NEW s, s.days \in Nat \ {0}, s.forecast \in Nat
  PROVE  BlendedSnow(static, s) \in Int /\ (s.forecast = 0 => BlendedSnow(static, s) = static)
<1>1. PICK d \in Nat \ {0} : d = s.days
  OBVIOUS
<1>2. PICK f \in Nat : f = s.forecast
  OBVIOUS
<1>3. PICK c \in Int : c = DepthScore(s.depth)
  BY DepthScoreType
<1>4. BlendedSnow(static, s) = Share((10 * d - 7 * f) * static + 7 * f * c, 10 * d)
  BY <1>1, <1>2, <1>3 DEF BlendedSnow
<1>5. (10 * d - 7 * f) * static + 7 * f * c \in Int /\ 10 * d \in Nat \ {0}
  <2>1. 10 * d - 7 * f \in Int
    OBVIOUS
  <2>2. PICK e \in Int : e = 10 * d - 7 * f
    BY <2>1
  <2>3. e * static \in Int /\ 7 * f * c \in Int
    OBVIOUS
  <2>4. QED
    BY <2>2, <2>3
<1>6. ASSUME f = 0 PROVE Share((10 * d - 7 * f) * static + 7 * f * c, 10 * d) = static
  <2>1. PICK e \in Nat \ {0} : e = 10 * d
    OBVIOUS
  <2>2. 10 * d - 7 * f = e /\ 7 * f * c = 0
    BY <1>6, <2>1
  <2>3. e * static = static * e /\ static * e \in Int
    OBVIOUS
  <2>4. (10 * d - 7 * f) * static + 7 * f * c = static * e
    BY <2>2, <2>3
  <2>5. QED
    BY <2>1, <2>4, ShareExact
<1>7. QED
  BY <1>2, <1>4, <1>5, <1>6, ShareType

LEMMA RescoredFacts ==
  ASSUME NEW t \in TripType, NEW weights \in [Dimensions -> Nat], Sum0(weights) \in Nat \ {0},
         NEW w, SnowTold(w)
  PROVE  LET u == Rescored(t, weights, w) IN
         /\ u \in TripType /\ u.resort = t.resort /\ u.start = t.start /\ u.cost = t.cost /\ u.within = t.within
         /\ NoneForecast(w) => u = t
<1>1. PICK static \in Int : static = t.components.snow
  BY DEF TripType, ScoreType
<1>2. PICK snow \in Int : /\ snow = IF w = {} THEN static ELSE BlendedSnow(static, CHOOSE s \in w : TRUE)
                          /\ NoneForecast(w) => snow = static
  <2>1. CASE w = {}
    BY <2>1
  <2>2. CASE w # {}
    <3>1. PICK s : w = {s} /\ s.days \in Nat \ {0} /\ s.forecast \in Nat
      BY <2>2 DEF SnowTold
    <3>2. (CHOOSE x \in w : TRUE) = s
      BY <3>1
    <3>3. QED
      BY <2>2, <3>1, <3>2, BlendedFacts DEF NoneForecast
  <2>3. QED
    BY <2>1, <2>2
<1>3. PICK total \in Nat \ {0} : total = Sum0(weights)
  OBVIOUS
<1>4. PICK share \in Nat : share = weights.snow
  BY DEF Dimensions
<1>5. PICK score \in Int : score = t.score
  BY DEF TripType
<1>6. PICK gain \in Int : gain = 10 * share * (snow - static) /\ (snow = static => gain = 0)
  <2>1. PICK e \in Int : e = snow - static
    OBVIOUS
  <2>2. 10 * share * e \in Int /\ (e = 0 => 10 * share * e = 0)
    OBVIOUS
  <2>3. QED
    BY <2>1, <2>2
<1>7. PICK anew \in Int : anew = Share(score * total + gain, total) /\ (snow = static => anew = score)
  <2>1. PICK b \in Int : b = score * total
    OBVIOUS
  <2>2. Share(b + gain, total) \in Int
    BY ShareType
  <2>3. snow = static => b + gain = score * total
    BY <1>6, <2>1
  <2>4. QED
    BY <2>1, <2>2, <2>3, ShareExact
<1>8. PICK u : u = [t EXCEPT !.components.snow = snow, !.score = anew]
  OBVIOUS
<1>9. Rescored(t, weights, w) = u
  BY <1>1, <1>2, <1>3, <1>4, <1>5, <1>6, <1>7, <1>8 DEF Rescored
<1>10. /\ u \in TripType /\ u.resort = t.resort /\ u.start = t.start /\ u.cost = t.cost /\ u.within = t.within
       /\ u.score = anew
  <2>1. PICK components \in ScoreType : components = t.components
    BY DEF TripType
  <2>2. PICK known : known = [components EXCEPT !.snow = snow]
    OBVIOUS
  <2>3. known \in ScoreType
    BY <2>2 DEF ScoreType
  <2>4. u = [t EXCEPT !.components = known, !.score = anew]
    BY <1>8, <2>1, <2>2 DEF TripType
  <2>5. QED
    BY <2>3, <2>4 DEF TripType
<1>11. snow = static /\ anew = score => u = t
  <2> SUFFICES ASSUME snow = static, anew = score PROVE u = t
    OBVIOUS
  <2>1. PICK components \in ScoreType : components = t.components
    BY DEF TripType
  <2>2. [components EXCEPT !.snow = snow] = components
    BY <1>1, <2>1 DEF ScoreType
  <2>3. u = [t EXCEPT !.components = components, !.score = score]
    BY <1>8, <2>1, <2>2 DEF TripType
  <2>4. QED
    BY <1>5, <2>1, <2>3 DEF TripType
<1>12. QED
  BY <1>2, <1>7, <1>9, <1>10, <1>11

\* What is looked up of the weather of a trip.
LEMMA WeatherTold ==
  ASSUME WorldGiven, Allows(world.request), NEW r, NEW from \in Int, from >= CurrentDay
  PROVE  /\ SnowTold(WeatherFrom(r, from))
         /\ \A w \in WeatherFrom(r, from) :
              w.list = TripDays(world.weather[r.name], from, EndOf(from), CurrentDay)
<1>1. PICK last \in Int : last = EndOf(from)
  BY PrefsFacts DEF PrefsType, EndOf
<1>2. PICK days : days = TripDays(world.weather[r.name], from, last, CurrentDay)
  OBVIOUS
<1>3. PICK T : days \in Seq(T)
  <2>1. CurrentDay \in Int /\ CurrentDay <= from
    BY ResponseAssumption
  <2>2. QED
    BY <1>1, <1>2, <2>1, TripDaysFacts
<1>4. WeatherFrom(r, from) \in {{}, {Summary(days)}} /\ (WeatherFrom(r, from) # {} => days # <<>>)
  BY <1>1, <1>2 DEF WeatherFrom, GetTripWeather
<1>5. Summary(days).list = days /\ Summary(days).days = Len(days)
  BY DEF Summary
<1>6. Summary(days).forecast \in Nat
  <2> DEFINE S == {i \in DOMAIN days : days[i].live}
  <2>1. Summary(days).forecast = Len(At(days, S))
    BY DEF Summary, Where
  <2> HIDE DEF S
  <2>2. At(days, S) \in Seq(T)
    BY <1>3, AtFacts
  <2>3. QED
    BY <2>1, <2>2
<1>7. days # <<>> => Len(days) \in Nat \ {0}
  BY <1>3
<1>8. QED
  BY <1>1, <1>2, <1>4, <1>5, <1>6, <1>7 DEF SnowTold

\* The rows with the snow of their resorts, before they are sorted.
SnowOf(r) == WeatherFrom(ResortNamed(r.name), Options[1].start)
WithSnow ==
  [i \in DOMAIN Options |-> IF i > SnowLookups THEN Options[i]
                            ELSE Rescored(Options[i], Prefs.weights, SnowOf(Options[i].resort))]
OnSnow == /\ Options # <<>> /\ Options[1].start # None
          /\ WithinForecastHorizon(Options[1].start, CurrentDay) /\ Prefs.weights.snow # 0

LEMMA ShownIs == ShownTrips = IF OnSnow THEN ByScore(WithSnow) ELSE Options
<1>1. PICK list : list = Options
  OBVIOUS
<1>2. CASE list = <<>> \/ list[1].start = None \/ ~WithinForecastHorizon(list[1].start, CurrentDay)
  BY <1>1, <1>2 DEF ShownTrips, RankedOnSnow, OnSnow
<1>3. CASE list # <<>> /\ list[1].start # None /\ WithinForecastHorizon(list[1].start, CurrentDay)
  <2>1. PICK first : first = list[1].start
    OBVIOUS
  <2> DEFINE Snow == [name \in {list[i].resort.name : i \in DOMAIN list} |-> WeatherFrom(ResortNamed(name), first)]
  <2>2. RankedOnSnow(list) = RerankWithConditions(list, Prefs.weights, Snow)
    BY <1>3, <2>1 DEF RankedOnSnow
  <2>3. \A i \in DOMAIN list : Snow[list[i].resort.name] = WeatherFrom(ResortNamed(list[i].resort.name), first)
    OBVIOUS
  <2> HIDE DEF Snow
  <2>4. \A i \in DOMAIN list : Snow[list[i].resort.name] = SnowOf(list[i].resort)
    BY <1>1, <2>1, <2>3 DEF SnowOf
  <2>5. [i \in DOMAIN list |-> IF i > SnowLookups THEN list[i]
                               ELSE Rescored(list[i], Prefs.weights, Snow[list[i].resort.name])] = WithSnow
    BY <1>1, <2>4 DEF WithSnow
  <2>6. RankedOnSnow(list) = IF Prefs.weights.snow = 0 THEN list ELSE ByScore(WithSnow)
    BY <2>2, <2>5 DEF RerankWithConditions
  <2>7. QED
    BY <1>1, <1>3, <2>6 DEF ShownTrips, OnSnow
<1>4. QED
  BY <1>2, <1>3

\* Snow moves no price; what is shown has the same trips as the options.
LEMMA WithSnowFacts ==
  ASSUME WorldGiven, Accepted, OnSnow
  PROVE  /\ WithSnow \in Seq(ResultType) /\ Len(WithSnow) = Len(Options) /\ NoTwins(WithSnow)
         /\ \A i \in 1..Len(Options) :
              /\ WithSnow[i].resort = Options[i].resort /\ WithSnow[i].start = Options[i].start
              /\ WithSnow[i].cost = Options[i].cost
              /\ (i > SnowLookups \/ NoneForecast(WeatherFrom(Options[i].resort, Options[1].start))) =>
                   WithSnow[i] = Options[i]
<1>1. PICK list : list = Options
  OBVIOUS
<1>2. list \in Seq(ResultType) /\ NoTwins(list) /\ list # <<>> /\ DOMAIN list = 1..Len(list)
  BY <1>1, OptionsFacts, ElementsIn DEF OnSnow
<1>3. \A i \in DOMAIN list : list[i] \in ResultType
  BY <1>2
<1>4. PICK first \in Int : first = list[1].start /\ first >= CurrentDay
  <2>1. list[1] \in ResultType
    BY <1>2, <1>3
  <2>2. list[1].start \in Int /\ list[1].start >= CurrentDay
    BY <1>1, <2>1 DEF ResultType, TripType, OnSnow
  <2>3. QED
    BY <2>2
<1>5. Allows(world.request) /\ Prefs.weights \in [Dimensions -> Nat] /\ Sum0(Prefs.weights) \in Nat \ {0}
  BY PrefsFacts DEF Accepted, PrefsType
<1>6. ASSUME NEW i \in DOMAIN list
      PROVE  /\ WithSnow[i] \in ResultType
             /\ WithSnow[i].resort = list[i].resort /\ WithSnow[i].start = list[i].start /\ WithSnow[i].cost = list[i].cost
             /\ (i > SnowLookups \/ NoneForecast(WeatherFrom(list[i].resort, first))) => WithSnow[i] = list[i]
  <2>1. list[i] \in ResultType /\ list[i] \in TripType /\ list[i].resort \in Range(world.resorts)
    BY <1>3 DEF ResultType
  <2>2. PICK r : r = list[i].resort
    OBVIOUS
  <2>3. ResortNamed(r.name) = r
    BY <2>1, <2>2, NamedFacts
  <2>4. SnowOf(r) = WeatherFrom(r, first)
    BY <1>1, <1>4, <2>3 DEF SnowOf
  <2>5. CASE i > SnowLookups
    BY <1>1, <2>1, <2>5 DEF WithSnow
  <2>6. CASE ~(i > SnowLookups)
    <3>1. PICK u : u = Rescored(list[i], Prefs.weights, WeatherFrom(r, first))
      OBVIOUS
    <3>2. WithSnow[i] = u
      BY <1>1, <2>2, <2>4, <2>6, <3>1 DEF WithSnow
    <3>3. SnowTold(WeatherFrom(r, first))
      BY <1>4, <1>5, WeatherTold
    <3>4. /\ u \in TripType /\ u.resort = list[i].resort /\ u.start = list[i].start /\ u.cost = list[i].cost
          /\ u.within = list[i].within
          /\ NoneForecast(WeatherFrom(r, first)) => u = list[i]
      BY <1>5, <2>1, <3>1, <3>3, RescoredFacts
    <3>5. u \in ResultType
      BY <2>1, <3>4 DEF ResultType
    <3>6. QED
      BY <2>2, <2>6, <3>2, <3>4, <3>5
  <2>7. QED
    BY <2>5, <2>6
<1>7. WithSnow \in [DOMAIN list -> ResultType]
  <2>1. DOMAIN WithSnow = DOMAIN list /\ WithSnow = [i \in DOMAIN list |-> WithSnow[i]]
    BY <1>1 DEF WithSnow
  <2>2. QED
    BY <1>6, <2>1
<1>8. WithSnow \in Seq(ResultType) /\ Len(WithSnow) = Len(list)
  BY <1>2, <1>7, SameLength
<1>9. NoTwins(WithSnow)
  BY <1>2, <1>6, <1>8, TwinsSame
<1>10. QED
  BY <1>1, <1>2, <1>4, <1>6, <1>8, <1>9

LEMMA ShownFacts ==
  ASSUME WorldGiven, Accepted
  PROVE  ShownTrips \in Seq(ResultType) /\ NoTwins(ShownTrips)
<1>1. CASE OnSnow
  <2>1. ResultType \subseteq TripType
    BY DEF ResultType
  <2>2. QED
    BY <1>1, <2>1, ShownIs, WithSnowFacts, ByScoreFacts
<1>2. CASE ~OnSnow
  BY <1>2, ShownIs, OptionsFacts
<1>3. QED
  BY <1>1, <1>2

\* What is behind a card.
LEMMA CardFacts ==
  ASSUME ResponseInv, NEW n \in DOMAIN cards
  PROVE  /\ WorldGiven /\ Accepted
         /\ trips \in Seq(ResultType) /\ NoTwins(trips) /\ DOMAIN cards = 1..Len(trips) /\ Len(cards) = Len(trips)
         /\ n \in 1..Len(trips) /\ trips[n] \in ResultType /\ trips[n] \in TripType
         /\ trips[n].resort \in Range(world.resorts)
         /\ cards[n] = CardAt(n)
         /\ calendar = CellsOf(cards)
         /\ weather[n] = IF trips[n].start = None THEN {} ELSE WeatherFrom(trips[n].resort, trips[n].start)
         /\ transfers[n] = IF AsksForTransfers THEN TransfersOf(trips[n], n, Cached)
                           ELSE [pickup |-> AssumedPickup, options |-> <<>>]
<1>1. stage = "answered"
  BY DEF ResponseInv
<1>2. /\ WorldGiven /\ Accepted /\ trips = ShownTrips /\ weather = Forecasts(trips)
      /\ cards = [i \in DOMAIN trips |-> CardAt(i)] /\ calendar = CellsOf(cards)
  BY <1>1 DEF ResponseInv
<1>3. trips \in Seq(ResultType) /\ NoTwins(trips)
  BY <1>2, ShownFacts
<1>4. DOMAIN trips = 1..Len(trips) /\ \A i \in DOMAIN trips : trips[i] \in ResultType
  BY <1>3, ElementsIn
<1>5. DOMAIN cards = DOMAIN trips /\ Len(cards) = Len(trips)
  BY <1>2, <1>3
<1>6. PICK cached : cached = Cached /\ transfers = Fetched(trips, cached)
  BY <1>1 DEF ResponseInv
<1>7. transfers[n] = IF AsksForTransfers THEN TransfersOf(trips[n], n, Cached)
                     ELSE [pickup |-> AssumedPickup, options |-> <<>>]
  BY <1>5, <1>6 DEF Fetched
<1>8. weather[n] = IF trips[n].start = None THEN {} ELSE WeatherFrom(trips[n].resort, trips[n].start)
  BY <1>2, <1>5 DEF Forecasts
<1>9. cards[n] = CardAt(n)
  BY <1>2, <1>5
<1>10. trips[n] \in TripType /\ trips[n].resort \in Range(world.resorts)
  BY <1>4, <1>5 DEF ResultType
<1>11. QED
  BY <1>2, <1>3, <1>4, <1>5, <1>7, <1>8, <1>9, <1>10

LEMMA CardFields ==
  ASSUME ResponseInv, NEW n \in DOMAIN cards
  PROVE  LET row == WithTransfer(trips[n], transfers[n].options) IN
         /\ row.resort = trips[n].resort /\ row.start = trips[n].start /\ row.within = trips[n].within
         /\ row.cost = IF CheapestPrice(transfers[n].options) = None THEN trips[n].cost
                       ELSE ApplyLivePrice(trips[n].cost, "transfer", CheapestPrice(transfers[n].options))
         /\ cards[n] = Card(row, n, weather[n], transfers[n].pickup, transfers[n].options)
         /\ cards[n].resort = trips[n].resort.name /\ cards[n].start = trips[n].start
         /\ cards[n].within = trips[n].within /\ cards[n].cost = row.cost /\ cards[n].weather = weather[n]
         /\ cards[n].transfers = transfers[n].options /\ cards[n].pickup = transfers[n].pickup
         /\ cards[n].choice = BedChoice(row) /\ cards[n].flights = FlightRows(row)
         /\ cards[n].withFastest =
              IF cards[n].flights = <<>> THEN None
              ELSE Max({cards[n].flights[i].total : i \in DOMAIN cards[n].flights})
<1>1. PICK row : row = WithTransfer(trips[n], transfers[n].options)
  OBVIOUS
<1>2. cards[n] = Card(row, n, weather[n], transfers[n].pickup, transfers[n].options) /\ trips[n] \in TripType
  BY <1>1, CardFacts DEF CardAt
<1>3. PICK t \in TripType : t = trips[n]
  BY <1>2
<1>4. PICK price : price = CheapestPrice(transfers[n].options)
  OBVIOUS
<1>5. PICK cost : cost = ApplyLivePrice(t.cost, "transfer", price)
  OBVIOUS
<1>6. row = IF price = None THEN t ELSE [t EXCEPT !.cost = cost]
  BY <1>1, <1>3, <1>4, <1>5 DEF WithTransfer
<1>7. /\ row.resort = t.resort /\ row.start = t.start /\ row.within = t.within
      /\ row.cost = IF price = None THEN t.cost ELSE cost
  BY <1>6 DEF TripType
<1>8. PICK c : c = cards[n]
  OBVIOUS
<1>9. /\ c.resort = row.resort.name /\ c.start = row.start /\ c.within = row.within /\ c.cost = row.cost
      /\ c.weather = weather[n] /\ c.transfers = transfers[n].options /\ c.pickup = transfers[n].pickup
      /\ c.choice = BedChoice(row) /\ c.flights = FlightRows(row)
      /\ c.withFastest = IF c.flights = <<>> THEN None ELSE Max({c.flights[i].total : i \in DOMAIN c.flights})
  BY <1>2, <1>8 DEF Card
<1>10. QED
  BY <1>1, <1>2, <1>3, <1>4, <1>5, <1>7, <1>8, <1>9

-----------------------------------------------------------------------------
\* The theorems.

\* On the fixed-date route the flag of a trip agrees with the price it is
\* shown at, and a trip over the budget is shown only when nothing fits
\* (rank_trips, search_trips).
THEOREM ResponseKeepsBudget == ResponseSpec => []BudgetIsKept
<1>1. ASSUME ResponseInv PROVE BudgetIsKept
  <2> SUFFICES ASSUME world.route = "fixed", NEW n \in DOMAIN cards
               PROVE  /\ cards[n].within => TotalEur(cards[n].cost) <= Prefs.budget
                      /\ ~cards[n].within => NothingFits
    BY DEF BudgetIsKept, NothingFits
  <2>1. trips[n] \in ResultType
    BY <1>1, CardFacts
  <2>2. transfers[n].options = <<>>
    BY <1>1, CardFacts DEF AsksForTransfers
  <2>3. CheapestPrice(transfers[n].options) = None
    BY <2>2 DEF CheapestPrice, Least0
  <2>4. cards[n].within = trips[n].within /\ cards[n].cost = trips[n].cost
    BY <1>1, <2>3, CardFields
  <2>5. /\ trips[n].within => Affordable(Prefs, trips[n].cost)
        /\ ~trips[n].within => NothingFits
    BY <2>1 DEF ResultType
  <2>6. QED
    BY <2>4, <2>5 DEF Affordable
<1>2. QED
  BY <1>1, ResponseInvHolds, PTL

\* The weather of a card has a reading a day, in order, none of them a
\* forecast beyond the horizon, and none missing that was recorded
\* (get_trip_weather, _prefetch_weather).
THEOREM ResponseReadsDaysOnce == ResponseSpec => []OneReadingPerDay
<1>1. ASSUME ResponseInv PROVE OneReadingPerDay
  <2> SUFFICES ASSUME NEW n \in DOMAIN cards, NEW w \in cards[n].weather
               PROVE  LET answer == world.weather[cards[n].resort] IN
                      /\ \A i \in 1..(Len(w.list) - 1) : w.list[i].day < w.list[i + 1].day
                      /\ \A i \in DOMAIN w.list :
                           w.list[i].live => w.list[i].day \in CurrentDay..(CurrentDay + MaxForecastDays)
                      /\ \A d \in cards[n].start..EndOf(cards[n].start) :
                           d \notin Lost(answer, cards[n].start, EndOf(cards[n].start), CurrentDay)
                             /\ Samples(answer.archive, d) # <<>> =>
                               d \in {w.list[i].day : i \in DOMAIN w.list}
    BY DEF OneReadingPerDay, Lost
  <2>1. PICK r : r = trips[n].resort
    OBVIOUS
  <2>2. WorldGiven /\ Accepted /\ trips[n] \in ResultType
    BY <1>1, CardFacts
  <2>3. cards[n].start = trips[n].start /\ cards[n].resort = r.name /\ cards[n].weather = weather[n]
    BY <1>1, <2>1, CardFields
  <2>4. trips[n].start # None /\ w \in WeatherFrom(r, trips[n].start)
    BY <1>1, <2>1, <2>3, CardFacts
  <2>5. PICK from \in Int : from = trips[n].start /\ from >= CurrentDay
    BY <2>2, <2>4 DEF ResultType, TripType
  <2>6. PICK last \in Int : last = EndOf(from)
    BY <2>2, PrefsFacts DEF PrefsType, EndOf, Accepted
  <2>7. PICK answer : answer = world.weather[r.name]
    OBVIOUS
  <2>8. w.list = TripDays(answer, from, last, CurrentDay)
    BY <2>2, <2>4, <2>5, <2>6, <2>7, WeatherTold DEF Accepted
  <2>9. CurrentDay \in Int /\ CurrentDay <= from
    BY <2>5, ResponseAssumption
  <2>10. PICK list : list = w.list
    OBVIOUS
  <2>11. /\ \E T : list \in Seq(T)
         /\ \A i \in 1..(Len(list) - 1) : list[i].day < list[i + 1].day
         /\ \A i \in 1..Len(list) : list[i].live => list[i].day \in CurrentDay..(CurrentDay + MaxForecastDays)
         /\ \A d \in from..last :
              d \notin Lost(answer, from, last, CurrentDay) /\ Samples(answer.archive, d) # <<>> =>
                \E i \in 1..Len(list) : list[i].day = d
    BY <2>8, <2>9, <2>10, TripDaysFacts
  <2>12. DOMAIN list = 1..Len(list)
    BY <2>11
  <2>13. QED
    BY <2>3, <2>5, <2>6, <2>7, <2>10, <2>11, <2>12
<1>2. QED
  BY <1>1, ResponseInvHolds, PTL

\* Ranking again on snow loses no trip and changes no price; a trip that is
\* not looked up, or that starts with the first and of none of whose days
\* there is a forecast, is left exactly as it was, and two such trips stay in
\* the order of their scores (rerank_with_conditions).
THEOREM ResponseMovesRowsOnSnow == ResponseSpec => []OnlySnowMovesRows
<1> DEFINE Alike(r, t) == r.resort = t.resort /\ r.start = t.start /\ r.cost = t.cost
           Untold(i) == \/ i > SnowLookups
                        \/ before[i].start = before[1].start /\ Unforecast(before[i])
           PlaceOf(i) == CHOOSE k \in DOMAIN trips : Alike(trips[k], before[i])
<1>1. ASSUME ResponseInv PROVE OnlySnowMovesRows
  <2> SUFFICES ASSUME stage = "reranked"
               PROVE  /\ Len(trips) = Len(before)
                      /\ \A i \in DOMAIN before : \E k \in DOMAIN trips : Alike(trips[k], before[i])
                      /\ \A i \in DOMAIN before : Untold(i) => trips[PlaceOf(i)] = before[i]
                      /\ \A i, j \in DOMAIN before :
                           i < j /\ before[i].score >= before[j].score /\ Untold(i) /\ Untold(j) =>
                             PlaceOf(i) < PlaceOf(j)
    BY DEF OnlySnowMovesRows
  <2>1. WorldGiven /\ Accepted /\ before = Options /\ trips = ShownTrips
    BY <1>1 DEF ResponseInv
  <2>2. /\ before \in Seq(ResultType) /\ trips \in Seq(ResultType) /\ NoTwins(trips) /\ NoTwins(before)
        /\ DOMAIN before = 1..Len(before) /\ DOMAIN trips = 1..Len(trips)
    BY <2>1, OptionsFacts, ShownFacts, ElementsIn
  <2>3. ASSUME NEW i \in DOMAIN before, NEW a \in DOMAIN trips, Alike(trips[a], before[i])
        PROVE  PlaceOf(i) = a
    <3>1. PICK k \in DOMAIN trips : k = PlaceOf(i) /\ Alike(trips[k], before[i])
      BY <2>3
    <3>2. trips[k].resort = trips[a].resort /\ trips[k].start = trips[a].start
      BY <2>3, <3>1
    <3>3. k = a
      BY <2>2, <3>2 DEF NoTwins
    <3>4. QED
      BY <3>1, <3>3
  <2> HIDE DEF PlaceOf
  <2>4. CASE ~OnSnow
    <3>1. trips = before
      BY <2>1, <2>4, ShownIs
    <3>2. \A i \in DOMAIN before : Alike(trips[i], before[i]) /\ PlaceOf(i) = i
      BY <2>3, <3>1
    <3>3. QED
      BY <3>1, <3>2
  <2>5. CASE OnSnow
    <3> DEFINE key == Mapped(WithSnow, LAMBDA t : <<-t.score>>)
               number == [i \in DOMAIN WithSnow |-> -WithSnow[i].score]
    <3>1. PICK n \in Nat : n = Len(before)
      <4>1. before \in Seq(ResultType)
        BY <2>2
      <4>2. QED
        BY <4>1
    <3>2. /\ WithSnow \in Seq(ResultType) /\ Len(WithSnow) = n /\ DOMAIN WithSnow = 1..n
          /\ \A i \in 1..n : /\ Alike(WithSnow[i], before[i])
                             /\ Untold(i) => WithSnow[i] = before[i]
      BY <2>1, <2>5, <3>1, WithSnowFacts, ElementsIn DEF NoneForecast, Unforecast
    <3>3. key = [i \in DOMAIN WithSnow |-> <<number[i]>>] /\ trips = Sorted(WithSnow, key)
      BY <2>1, <2>5, ShownIs DEF Mapped, ByScore, SortedBy
    <3>4. \A i \in 1..n : WithSnow[i].score \in Int /\ number[i] = -WithSnow[i].score /\ before[i].score \in Int
      <4>1. \A t \in ResultType : t.score \in Int
        BY DEF ResultType, TripType
      <4>2. \A i \in 1..n : WithSnow[i] \in ResultType /\ before[i] \in ResultType
        BY <2>2, <3>1, <3>2, ElementsIn
      <4>3. QED
        BY <3>2, <4>1, <4>2
    <3>5. number \in [1..n -> Int]
      BY <3>2, <3>4
    <3> HIDE DEF key, number, Alike, Untold
    <3>6. key \in [DOMAIN WithSnow -> [1..1 -> Int]]
      BY <3>2, <3>3, <3>5, SortedByNumber
    <3>7. PICK p : Rearranged(trips, p, WithSnow, ResultType, key)
      BY <3>2, <3>3, <3>6, SortedIsRearranged
    <3>8. /\ Len(trips) = n /\ p \in [1..n -> 1..n] /\ \A a \in 1..n : trips[a] = WithSnow[p[a]]
          /\ \A a, b \in 1..n : a < b => GoesBefore(key, p[a], p[b])
          /\ \A m \in 1..n : \E a \in 1..n : p[a] = m
      BY <3>2, <3>7 DEF Rearranged
    <3>9. ASSUME NEW a \in 1..n PROVE Alike(trips[a], before[p[a]]) /\ PlaceOf(p[a]) = a
      <4>1. p[a] \in 1..n /\ trips[a] = WithSnow[p[a]]
        BY <3>8
      <4>2. Alike(trips[a], before[p[a]])
        BY <3>2, <4>1
      <4>3. QED
        BY <2>2, <2>3, <3>1, <3>8, <4>1, <4>2
    <3>10. ASSUME NEW i \in 1..n PROVE \E k \in 1..n : Alike(trips[k], before[i]) /\ p[k] = i /\ PlaceOf(i) = k
      BY <3>8, <3>9
    <3>11. ASSUME NEW i \in 1..n, NEW j \in 1..n, i < j, before[i].score >= before[j].score, Untold(i), Untold(j)
           PROVE  PlaceOf(i) < PlaceOf(j)
      <4>1. PICK a \in 1..n : p[a] = i /\ PlaceOf(i) = a
        BY <3>10
      <4>2. PICK b \in 1..n : p[b] = j /\ PlaceOf(j) = b
        BY <3>10
      <4>3. number[i] <= number[j] /\ number[i] \in Int /\ number[j] \in Int
        BY <3>2, <3>4, <3>11
      <4>4. key[i] = <<number[i]>> /\ key[j] = <<number[j]>>
        BY <3>2, <3>3
      <4>5. GoesBefore(key, i, j)
        <5>1. CASE number[i] < number[j]
          <6>1. Before(key[i], key[j])
            BY <4>3, <4>4, <5>1, BeforeOne
          <6>2. QED
            BY <6>1 DEF GoesBefore
        <5>2. CASE number[i] = number[j]
          BY <3>11, <4>4, <5>2 DEF GoesBefore
        <5>3. QED
          BY <4>3, <5>1, <5>2
      <4>6. 1..n \in SUBSET Int /\ key \in [1..n -> [1..1 -> Int]]
        BY <3>2, <3>6
      <4>7. ~GoesBefore(key, j, i)
        BY <4>5, <4>6, PlacesAreOrdered
      <4>8. ~(b < a) /\ a # b
        BY <3>8, <3>11, <4>1, <4>2, <4>7
      <4>9. QED
        BY <4>1, <4>2, <4>8
    <3>12. ASSUME NEW i \in 1..n, Untold(i) PROVE trips[PlaceOf(i)] = before[i]
      <4>1. PICK k \in 1..n : p[k] = i /\ PlaceOf(i) = k
        BY <3>10
      <4>2. trips[k] = WithSnow[i]
        BY <3>8, <4>1
      <4>3. WithSnow[i] = before[i]
        BY <3>2, <3>12
      <4>4. QED
        BY <4>1, <4>2, <4>3
    <3>13. QED
      BY <2>2, <3>1, <3>8, <3>10, <3>11, <3>12
  <2>6. QED
    BY <2>4, <2>5
<1>2. QED
  BY <1>1, ResponseInvHolds, PTL

-----------------------------------------------------------------------------
\* A bed that meets every wish is found.

\* The greatest of some numbers that are bounded.
LEMMA GreatestOfNats ==
  ASSUME NEW S \in SUBSET Nat, S # {}, NEW m \in Nat, \A x \in S : x <= m
  PROVE  Max(S) \in S /\ \A x \in S : x <= Max(S)
<1>1. PICK T : T = {m - x : x \in S}
  OBVIOUS
<1>2. T \in SUBSET Nat /\ T # {}
  <2>1. \A x \in S : m - x \in Nat
    OBVIOUS
  <2>2. QED
    BY <1>1, <2>1
<1>3. PICK t \in T : \A y \in T : t <= y
  BY <1>2, LeastNumber
<1>4. PICK x \in S : t = m - x
  BY <1>1, <1>3
<1>5. \A y \in S : x >= y
  <2> SUFFICES ASSUME NEW y \in S PROVE x >= y
    OBVIOUS
  <2>1. m - x <= m - y
    BY <1>1, <1>3, <1>4
  <2>2. QED
    BY <2>1
<1>6. Max(S) \in S /\ \A y \in S : Max(S) >= y
  BY <1>4, <1>5 DEF Max
<1>7. \A y \in S : y <= Max(S)
  BY <1>6
<1>8. QED
  BY <1>6, <1>7

\* A price per person within the cap is a nightly rate within the provider's.
LEMMA PriceWithinAsked ==
  ASSUME NEW price \in Nat, NEW nights \in 2..31, NEW rooms \in Nat \ {0}, NEW group \in 1..20, NEW cap \in Nat,
         Share(100 * price * nights * rooms, group) <= cap
  PROVE  price <= (cap * group + 100 * nights * rooms - 1) \div (100 * nights * rooms)
<1>1. PICK c \in Nat : c = 100 * nights * rooms /\ c >= 200
  <2>1. PICK e \in Nat \ {0} : e = nights * rooms /\ e >= 2
    <3>1. nights * rooms >= nights /\ nights * rooms \in Nat
      OBVIOUS
    <3>2. QED
      BY <3>1
  <2>2. 100 * nights * rooms = 100 * e
    BY <2>1
  <2>3. QED
    BY <2>1, <2>2
<1>2. PICK a \in Nat : a = price * c /\ a = 100 * price * nights * rooms
  <2>1. price * (100 * nights * rooms) = 100 * price * nights * rooms
    <3>1. PICK e \in Nat : e = nights * rooms
      OBVIOUS
    <3>2. 100 * nights * rooms = 100 * e /\ 100 * price * nights * rooms = 100 * price * e
      BY <3>1
    <3>3. price * (100 * e) = 100 * price * e
      OBVIOUS
    <3>4. QED
      BY <3>2, <3>3
  <2>2. QED
    BY <1>1, <2>1
<1>3. PICK b \in Nat : b = cap * group
  OBVIOUS
<1>4. PICK q \in Int : q = (2 * a + group) \div (2 * group) /\ q <= cap
  BY <1>2 DEF Share
<1>5. 2 * a + group < q * (2 * group) + 2 * group
  <2>1. PICK x \in Nat : x = 2 * a + group
    OBVIOUS
  <2>2. PICK m \in Nat \ {0} : m = 2 * group
    OBVIOUS
  <2>3. x < (x \div m) * m + m
    BY Z3T(60)
  <2>4. QED
    BY <1>4, <2>1, <2>2, <2>3
<1>6. q * (2 * group) <= 2 * b
  <2>1. PICK e \in Nat : cap = q + e
    BY <1>4
  <2>2. cap * group = q * group + e * group
    BY <2>1
  <2>3. e * group >= 0 /\ e * group \in Int /\ q * group \in Int
    OBVIOUS
  <2>4. q * (2 * group) = 2 * (q * group)
    OBVIOUS
  <2>5. QED
    BY <1>3, <2>2, <2>3, <2>4
<1>7. a <= b + c - 1
  <2>1. q * (2 * group) \in Int
    OBVIOUS
  <2>2. QED
    BY <1>1, <1>5, <1>6, <2>1
<1>8. PICK d \in Int : d = (b + c - 1) \div c
  BY <1>1
<1>9. b + c - 1 < d * c + c
  <2>1. PICK x \in Nat : x = b + c - 1
    BY <1>1
  <2>2. PICK m \in Nat \ {0} : m = c
    BY <1>1
  <2>3. x < (x \div m) * m + m
    BY Z3T(60)
  <2>4. QED
    BY <1>8, <2>1, <2>2, <2>3
<1>10. price <= d
  <2>1. SUFFICES ASSUME d < price PROVE FALSE
    OBVIOUS
  <2>2. PICK e \in Nat : price = d + 1 + e
    BY <2>1
  <2>3. price * c = d * c + c + e * c
    BY <2>2
  <2>4. e * c >= 0 /\ e * c \in Int /\ d * c \in Int
    OBVIOUS
  <2>5. QED
    BY <1>2, <1>7, <1>9, <2>3, <2>4
<1>11. QED
  BY <1>1, <1>3, <1>8, <1>10

\* What is behind a bed of Stays, and what becomes of a listing.
Usable(e, f, type, stay) ==
  e.type = type /\ Admits(ProviderFilters(f, stay), e) /\ e.name # "" /\ e.price > 0
ReadAs(e, o, resort) ==
  /\ o.price = e.price /\ o.rating = e.rating /\ o.star = e.star /\ o.reviews = e.reviews
  /\ o.amenities = e.amenities /\ o.distance = NearestLift(e.position, LiftPoints(resort))

\* The second source lists what is usable of what it is offered, and nothing else.
LEMMA StaysFacts ==
  ASSUME NEW listed \in Seq(Listing), NEW resort, NEW f, NEW type, NEW stay
  PROVE  LET beds == StaysHotels(listed, resort, f, type, stay) IN
         /\ \A o \in Range(beds) : \E e \in Range(listed) : Usable(e, f, type, stay) /\ ReadAs(e, o, resort)
         /\ \A e \in Range(listed) : Usable(e, f, type, stay) => \E o \in Range(beds) : ReadAs(e, o, resort)
<1> DEFINE BedOf(e) == Bed(e.name, e.price, e.rating, NearestLift(e.position, LiftPoints(resort)), e.star,
                           CASE e.star # None -> "published"
                             [] e.star = None /\ f.star # None -> "provider_filter"
                             [] OTHER -> "none",
                           e.reviews, e.amenities)
           S == {i \in DOMAIN listed : listed[i].type = type /\ Admits(ProviderFilters(f, stay), listed[i])}
           found == At(listed, S)
           T == {i \in DOMAIN found : found[i].name # "" /\ found[i].price > 0}
           usable == At(found, T)
           beds == [i \in DOMAIN usable |-> BedOf(usable[i])]
<1>1. StaysHotels(listed, resort, f, type, stay) = beds
  BY DEF StaysHotels, Mapped, Where
<1>2. \A e : ReadAs(e, BedOf(e), resort)
  BY DEF Bed, ReadAs
<1>3. DOMAIN listed = 1..Len(listed)
  BY ElementsIn
<1>4. \A i \in 1..Len(listed) : i \in S <=> listed[i].type = type /\ Admits(ProviderFilters(f, stay), listed[i])
  BY <1>3
<1> HIDE DEF S, BedOf
<1>5. /\ found \in Seq(Listing)
      /\ \A a \in 1..Len(found) : \E i \in 1..Len(listed) : i \in S /\ found[a] = listed[i]
  BY AtFacts
<1>6. \A i \in 1..Len(listed) : i \in S => \E a \in 1..Len(found) : found[a] = listed[i]
  BY AtHas
<1> HIDE DEF found
<1>7. DOMAIN found = 1..Len(found)
  BY <1>5
<1>8. \A a \in 1..Len(found) : a \in T <=> found[a].name # "" /\ found[a].price > 0
  BY <1>7
<1> HIDE DEF T
<1>9. /\ usable \in Seq(Listing)
      /\ \A a \in 1..Len(usable) : \E i \in 1..Len(found) : i \in T /\ usable[a] = found[i]
  BY <1>5, AtFacts
<1>10. \A i \in 1..Len(found) : i \in T => \E a \in 1..Len(usable) : usable[a] = found[i]
  BY <1>5, AtHas
<1> HIDE DEF usable
<1>11. DOMAIN beds = 1..Len(usable) /\ DOMAIN beds = DOMAIN usable
  BY <1>9
<1>12. ASSUME NEW o \in Range(beds)
       PROVE  \E e \in Range(listed) : Usable(e, f, type, stay) /\ ReadAs(e, o, resort)
  <2>1. PICK a \in 1..Len(usable) : o = BedOf(usable[a])
    BY <1>11 DEF Range
  <2>2. PICK i \in 1..Len(found) : i \in T /\ usable[a] = found[i]
    BY <1>9
  <2>3. PICK k \in 1..Len(listed) : k \in S /\ found[i] = listed[k]
    BY <1>5
  <2>4. Usable(listed[k], f, type, stay) /\ ReadAs(listed[k], o, resort)
    BY <1>2, <1>4, <1>8, <2>1, <2>2, <2>3 DEF Usable
  <2>5. QED
    BY <1>3, <2>4 DEF Range
<1>13. ASSUME NEW e \in Range(listed), Usable(e, f, type, stay)
       PROVE  \E o \in Range(beds) : ReadAs(e, o, resort)
  <2>1. PICK k \in 1..Len(listed) : e = listed[k]
    BY <1>3 DEF Range
  <2>2. PICK i \in 1..Len(found) : found[i] = e
    BY <1>4, <1>6, <1>13, <2>1 DEF Usable
  <2>3. PICK a \in 1..Len(usable) : usable[a] = e
    BY <1>8, <1>10, <1>13, <2>2 DEF Usable
  <2>4. beds[a] \in Range(beds) /\ beds[a] = BedOf(e)
    BY <1>11, <2>3 DEF Range
  <2>5. QED
    BY <1>2, <2>4
<1>14. QED
  BY <1>1, <1>12, <1>13

\* A stay as a request describes it.
StayType(stay) == stay.nights \in 2..31 /\ stay.group \in 1..20 /\ stay.rooms \in Nat \ {0}

LEMMA StayFacts ==
  ASSUME WorldGiven, Allows(world.request)
  PROVE  StayType(Prefs.stay)
<1>1. PICK group \in 1..20 : group = world.request.group
  BY DEF Allows
<1>2. PICK days \in 1..30 : days = world.request.days
  BY DEF Allows
<1>3. (group + 1) \div 2 \in Nat \ {0}
  OBVIOUS
<1>4. Prefs.stay = [nights |-> days + 1, group |-> group, rooms |-> (group + 1) \div 2]
  BY <1>1, <1>2, FilterFacts
<1>5. QED
  BY <1>3, <1>4 DEF StayType

\* What meets every wish is let through by the provider's filter.
LEMMA MeetsIsUsable ==
  ASSUME NEW f \in Filter, NEW stay, StayType(stay), NEW type, NEW e \in Listing, NEW o, NEW resort,
         ReadAs(e, o, resort), Usable(e, NoFilter, type, stay), Meets(f, stay, o)
  PROVE  Usable(e, f, type, stay)
<1>1. PICK asks : asks = ProviderFilters(f, stay)
  OBVIOUS
<1>2. PICK price \in Nat : price = e.price
  BY DEF Listing
<1>3. f.max \in Told /\ f.star \in Told /\ f.rating \in Told /\ f.reviews \in Told
  BY DEF Filter, Told
<1>4. asks.price # None => e.price <= asks.price
  <2>1. CASE f.max = None
    BY <1>1, <2>1 DEF ProviderFilters
  <2>2. CASE f.max # None
    <3>1. PICK cap \in Nat : cap = f.max
      BY <1>3, <2>2 DEF Told
    <3>2. PICK nights \in 2..31, group \in 1..20, rooms \in Nat \ {0} :
            nights = stay.nights /\ group = stay.group /\ rooms = stay.rooms
      BY DEF StayType
    <3>3. Share(100 * price * nights * rooms, group) <= cap
      BY <1>2, <2>2, <3>1, <3>2 DEF Meets, PerPerson, ReadAs
    <3>4. price <= (cap * group + 100 * nights * rooms - 1) \div (100 * nights * rooms)
      BY <3>3, PriceWithinAsked
    <3>5. asks.price = (cap * group + 100 * nights * rooms - 1) \div (100 * nights * rooms)
      BY <1>1, <2>2, <3>1, <3>2 DEF ProviderFilters
    <3>6. QED
      BY <1>2, <3>4, <3>5
  <2>3. QED
    BY <2>1, <2>2
<1>5. asks.star # None => e.star >= asks.star \/ e.vouched >= asks.star
  BY <1>1 DEF ProviderFilters, Meets, ReadAs, Floors
<1>6. asks.rating # None => e.rating >= asks.rating
  <2> DEFINE below == {s \in RatingSteps : s <= f.rating}
  <2>1. asks.rating = IF below = {} THEN None ELSE Max(below)
    BY <1>1 DEF ProviderFilters
  <2>2. CASE below = {}
    BY <2>1, <2>2
  <2>3. CASE below # {}
    <3>1. RatingSteps \subseteq Nat
      BY LodgingAssumption
    <3>2. PICK m \in Nat : m = f.rating /\ f.rating # None
      <4>1. PICK s \in Nat : s <= f.rating
        BY <2>3, <3>1
      <4>2. PICK m \in Told : m = f.rating
        BY <1>3
      <4>3. m # None /\ m \in Nat
        BY <4>1, <4>2 DEF Told, None
      <4>4. QED
        BY <4>2, <4>3
    <3>3. below \in SUBSET Nat /\ \A x \in below : x <= m
      BY <3>1, <3>2
    <3> HIDE DEF below
    <3>4. Max(below) \in Nat /\ Max(below) <= m
      BY <2>3, <3>3, GreatestOfNats
    <3>5. e.rating >= m
      BY <3>2 DEF Meets, ReadAs, Floors
    <3>6. e.rating \in Int
      BY DEF Listing, None
    <3>7. QED
      BY <2>1, <2>3, <3>4, <3>5, <3>6
  <2>4. QED
    BY <2>2, <2>3
<1>7. asks.amenities \subseteq e.amenities
  BY <1>1 DEF ProviderFilters, Meets, ReadAs
<1>8. Admits(asks, e)
  BY <1>4, <1>5, <1>6, <1>7 DEF Admits
<1>9. QED
  BY <1>1, <1>8 DEF Usable

\* Of several answers the first that is not empty.
LEMMA FirstIsTaken ==
  ASSUME NEW T, NEW answers \in Seq(Seq(T)), answers # <<>>, answers[1] # <<>>
  PROVE  FirstToAnswer(answers) = answers[1]
<1> DEFINE S == {i \in DOMAIN answers : answers[i] # <<>>}
<1>1. PICK some : some = At(answers, S)
  OBVIOUS
<1>2. FirstToAnswer(answers) = IF some = <<>> THEN <<>> ELSE some[1]
  BY <1>1 DEF FirstToAnswer, Where
<1>3. 1 \in 1..Len(answers) /\ 1 \in S
  OBVIOUS
<1> HIDE DEF S
<1>4. PICK p : Picked(some, p, answers, Seq(T), S, Len(answers))
  BY <1>1, AtIsPicked
<1>5. /\ some \in Seq(Seq(T)) /\ p \in [1..Len(some) -> 1..Len(answers)]
      /\ \A a, b \in 1..Len(some) : a < b => p[a] < p[b]
      /\ \A a \in 1..Len(some) : some[a] = answers[p[a]]
      /\ \A m \in 1..Len(answers) : m \in S => \E a \in 1..Len(some) : p[a] = m
  BY <1>4 DEF Picked
<1>6. PICK a \in 1..Len(some) : p[a] = 1
  BY <1>3, <1>5
<1>7. 1 \in 1..Len(some)
  BY <1>5
<1>8. ~(1 < a)
  <2>1. p[1] \in 1..Len(answers)
    BY <1>5, <1>7
  <2>2. ~(p[1] < 1)
    BY <2>1
  <2>3. QED
    BY <1>5, <1>6, <1>7, <2>2
<1>9. some[1] = answers[1] /\ some # <<>>
  <2>1. a = 1
    BY <1>8
  <2>2. QED
    BY <1>5, <1>6, <1>7, <2>1
<1>10. QED
  BY <1>2, <1>9

LEMMA FilteredIsFirst ==
  ASSUME NEW hotels \in Hotels, NEW f, f # NoFilter, NEW type, NEW stay,
         StaysHotels(hotels.stays, hotels.resort, f, type, stay) # <<>>
  PROVE  LiveSearch(hotels, f, type, stay) = StaysHotels(hotels.stays, hotels.resort, f, type, stay)
<1> DEFINE first == StaysHotels(hotels.stays, hotels.resort, f, type, stay)
           middle == <<GoogleHotels(hotels.google),
                       StaysHotels(hotels.stays, hotels.resort, NoFilter, "HOTELS", stay)>>
           serp == IF hotels.serpKey THEN <<SerpHotels(hotels.serp)>> ELSE <<>>
<1>1. first \in Seq(BedType)
  BY StaysType
<1>2. middle \in Seq(Seq(BedType))
  <2>1. StaysHotels(hotels.stays, hotels.resort, NoFilter, "HOTELS", stay) \in Seq(BedType)
    BY StaysType
  <2>2. GoogleHotels(hotels.google) \in Seq(BedType)
    BY GoogleType DEF Hotels
  <2>3. QED
    BY <2>1, <2>2
<1>3. serp \in Seq(Seq(BedType))
  <2>1. SerpHotels(hotels.serp) \in Seq(BedType)
    BY SerpType DEF Hotels
  <2>2. QED
    BY <2>1
<1>4. LiveSearch(hotels, f, type, stay) = FirstToAnswer(<<first>> \o middle \o serp)
  BY DEF LiveSearch
<1>5. first # <<>>
  OBVIOUS
<1> HIDE DEF first, middle, serp
<1>6. PICK head : head = <<first>>
  OBVIOUS
<1>7. head \in Seq(Seq(BedType)) /\ Len(head) = 1 /\ head[1] = first
  BY <1>1, <1>6
<1>8. PICK two : two = head \o middle
  OBVIOUS
<1>9. two \in Seq(Seq(BedType)) /\ Len(two) >= 1 /\ two[1] = first
  <2>1. /\ two \in Seq(Seq(BedType) \cup Seq(BedType)) /\ Len(two) = Len(head) + Len(middle)
        /\ \A a \in 1..Len(head) : two[a] = head[a]
    BY <1>2, <1>7, <1>8, JoinFacts
  <2>2. Len(middle) \in Nat
    BY <1>2
  <2>3. QED
    BY <1>7, <2>1, <2>2
<1>10. PICK all : all = two \o serp
  OBVIOUS
<1>11. all \in Seq(Seq(BedType)) /\ all # <<>> /\ all[1] = first
  <2>1. /\ all \in Seq(Seq(BedType) \cup Seq(BedType)) /\ Len(all) = Len(two) + Len(serp)
        /\ \A a \in 1..Len(two) : all[a] = two[a]
    BY <1>3, <1>9, <1>10, JoinFacts
  <2>2. Len(serp) \in Nat /\ 1 \in 1..Len(two)
    BY <1>3, <1>9
  <2>3. QED
    BY <1>9, <2>1, <2>2
<1>12. FirstToAnswer(all) = first
  BY <1>5, <1>11, FirstIsTaken
<1>13. QED
  BY <1>4, <1>6, <1>8, <1>10, <1>12 DEF first

-----------------------------------------------------------------------------
\* How a price comes about.

\* The buffer is a twentieth, to the half cent.
LEMMA BufferFacts ==
  ASSUME NEW a \in Int
  PROVE  Buffer(a) \in Int /\ 20 * Buffer(a) - a <= 10 /\ a - 20 * Buffer(a) <= 10
<1>1. ASSUME NEW b \in Nat PROVE LET s == Share(b, 20) IN s \in Int /\ 20 * s - b <= 10 /\ b - 20 * s <= 10
  BY DEF Share
<1>2. CASE a < 0
  <2>1. PICK b \in Nat : b = -a
    BY <1>2
  <2>2. PICK s \in Int : s = Share(b, 20) /\ 20 * s - b <= 10 /\ b - 20 * s <= 10
    BY <1>1
  <2>3. Buffer(a) = -s
    BY <1>2, <2>1, <2>2 DEF Buffer
  <2>4. QED
    BY <2>1, <2>2, <2>3
<1>3. CASE ~(a < 0)
  <2>1. a \in Nat /\ Buffer(a) = Share(a, 20)
    BY <1>3 DEF Buffer
  <2>2. QED
    BY <1>1, <2>1
<1>4. QED
  BY <1>2, <1>3

\* How far the buffer is from a twentieth of the rest, in twentieths of a cent.
Off(cost) == 20 * cost.misc - Subtotal(cost)
Within(cost, n) == Off(cost) <= n /\ -Off(cost) <= n

\* One live price replaces one part, and moves the buffer by a half cent more.
LEMMA AppliedFacts ==
  ASSUME NEW cost \in CostType, NEW part \in LiveParts, NEW price \in Int
  PROVE  LET c == ApplyLivePrice(cost, part, price) IN
         /\ c \in CostType /\ c[part] = price /\ c.live = cost.live \cup {part}
         /\ \A other \in LiveParts : other # part => c[other] = cost[other]
         /\ c.misc = cost.misc + Buffer(price - cost[part])
         /\ Subtotal(c) = Subtotal(cost) + price - cost[part]
         /\ TotalEur(c) = TotalEur(cost) + price - cost[part] + Buffer(price - cost[part])
         /\ \A n \in Nat : Within(cost, n) => Within(c, n + 10)
<1>1. PICK c \in CostType : c = ApplyLivePrice(cost, part, price)
  BY LiveType
<1>2. PICK was \in Int : was = cost[part]
  BY DEF CostType, LiveParts
<1>3. PICK rise \in Int : rise = price - was
  OBVIOUS
<1>4. PICK buffer \in Int : buffer = Buffer(rise) /\ 20 * buffer - rise <= 10 /\ rise - 20 * buffer <= 10
  BY BufferFacts
<1>5. PICK misc \in Int : misc = cost.misc + buffer
  BY DEF CostType
<1>6. PICK live \in SUBSET LiveParts : live = cost.live \cup {part}
  BY LiveName
<1>7. c = [cost EXCEPT ![part] = price, !.live = live, !.misc = misc]
  BY <1>1, <1>2, <1>3, <1>4, <1>5, <1>6 DEF ApplyLivePrice
<1>8. /\ c[part] = price /\ c.live = live /\ c.misc = misc
      /\ \A other \in LiveParts : other # part => c[other] = cost[other]
      /\ c.pass = cost.pass /\ c.equipment = cost.equipment /\ c.food = cost.food
  BY <1>7 DEF CostType, LiveParts
<1>9. /\ cost.flight \in Int /\ cost.transfer \in Int /\ cost.accommodation \in Int /\ cost.pass \in Int
      /\ cost.equipment \in Int /\ cost.food \in Int /\ cost.misc \in Int
      /\ c.flight \in Int /\ c.transfer \in Int /\ c.accommodation \in Int
  BY DEF CostType
<1>10. Subtotal(c) = Subtotal(cost) + rise
  <2>1. CASE part = "flight"
    <3>1. c.flight = price /\ was = cost.flight /\ c.transfer = cost.transfer /\ c.accommodation = cost.accommodation
      BY <1>2, <1>8, <2>1 DEF LiveParts
    <3>2. QED
      BY <1>3, <1>8, <1>9, <3>1 DEF Subtotal
  <2>2. CASE part = "transfer"
    <3>1. c.transfer = price /\ was = cost.transfer /\ c.flight = cost.flight /\ c.accommodation = cost.accommodation
      BY <1>2, <1>8, <2>2 DEF LiveParts
    <3>2. QED
      BY <1>3, <1>8, <1>9, <3>1 DEF Subtotal
  <2>3. CASE part = "accommodation"
    <3>1. c.accommodation = price /\ was = cost.accommodation /\ c.flight = cost.flight /\ c.transfer = cost.transfer
      BY <1>2, <1>8, <2>3 DEF LiveParts
    <3>2. QED
      BY <1>3, <1>8, <1>9, <3>1 DEF Subtotal
  <2>4. QED
    BY <2>1, <2>2, <2>3 DEF LiveParts
<1>11. Subtotal(cost) \in Int
  BY TotalType
<1>12. TotalEur(c) = TotalEur(cost) + rise + buffer
  BY <1>5, <1>8, <1>9, <1>10, <1>11 DEF TotalEur
<1>13. ASSUME NEW n \in Nat, Within(cost, n) PROVE Within(c, n + 10)
  BY <1>4, <1>5, <1>8, <1>9, <1>10, <1>11, <1>13 DEF Within, Off
<1>14. TotalEur(cost) \in Int
  BY TotalType
<1>15. QED
  BY <1>1, <1>2, <1>3, <1>4, <1>5, <1>6, <1>8, <1>10, <1>11, <1>12, <1>13, <1>14

\* An estimate: nothing of it is live, and its buffer is a twentieth.
LEMMA EstimateIsExact ==
  ASSUME NEW resort \in Resort, NEW prefs, PrefsType(prefs), NEW date
  PROVE  LET cost == ComputeTripCost(resort, prefs, date) IN cost.live = {} /\ Within(cost, 10)
<1>1. PICK cost \in CostType : cost = ComputeTripCost(resort, prefs, date)
  BY TripCostType
<1> DEFINE bare ==
        [flight |-> resort.flight,
         transfer |-> TransferCost(resort, prefs.stay.group, date, prefs.modes),
         accommodation |-> AccommodationCost(resort, prefs.stay, date),
         pass |-> SkiPassCost(resort, prefs.stay.nights - 1, date),
         equipment |-> EquipmentPerDay[prefs.equipment] * (prefs.stay.nights - 1),
         food |-> FoodPerDay(resort.west)[prefs.food] * prefs.stay.nights,
         misc |-> 0, live |-> {}, researched |-> PassResearched(resort)]
<1>2. cost = [bare EXCEPT !.misc = Buffer(Subtotal(bare))]
  BY <1>1 DEF ComputeTripCost
<1>3. /\ cost.live = {} /\ cost.misc = Buffer(Subtotal(bare))
      /\ cost.flight = bare.flight /\ cost.transfer = bare.transfer /\ cost.accommodation = bare.accommodation
      /\ cost.pass = bare.pass /\ cost.equipment = bare.equipment /\ cost.food = bare.food
  BY <1>2
<1> HIDE DEF bare
<1>4. Subtotal(cost) = Subtotal(bare)
  BY <1>3 DEF Subtotal
<1>5. PICK a \in Int : a = Subtotal(cost)
  BY TotalType
<1>6. cost.misc = Buffer(a)
  BY <1>3, <1>4, <1>5
<1>7. Within(cost, 10)
  BY <1>5, <1>6, BufferFacts DEF Within, Off
<1>8. QED
  BY <1>1, <1>3, <1>7

\* The part of a price that is said to be live is what the lookup answered.
LEMMA LiveCostFacts ==
  ASSUME NEW cost \in CostType, cost.live = {}, Within(cost, 10), NEW live \in LivePair
  PROVE  LET c == LiveCost(cost, live) IN
         /\ "accommodation" \in c.live => live.accommodation # None /\ c.accommodation = live.accommodation
         /\ "flight" \in c.live => live.flight # None /\ c.flight = live.flight
         /\ "transfer" \notin c.live /\ Within(c, 30)
<1>1. live.flight \in Int /\ live.accommodation \in Int
  BY DEF LivePair
<1>2. PICK flown : flown = IF live.flight \in {None, cost.flight} THEN cost
                           ELSE ApplyLivePrice(cost, "flight", live.flight)
  OBVIOUS
<1>3. PICK c : c = IF live.accommodation \in {None, cost.accommodation} THEN flown
                   ELSE ApplyLivePrice(flown, "accommodation", live.accommodation)
  OBVIOUS
<1>4. LiveCost(cost, live) = c
  BY <1>2, <1>3 DEF LiveCost
<1>5. /\ flown \in CostType /\ flown.live \subseteq {"flight"} /\ Within(flown, 20)
      /\ "flight" \in flown.live => live.flight # None /\ flown.flight = live.flight
  <2>1. CASE live.flight \in {None, cost.flight}
    <3>1. flown = cost
      BY <1>2, <2>1
    <3>2. Off(cost) \in Int
      BY TotalType DEF Off
    <3>3. QED
      BY <3>1, <3>2 DEF Within
  <2>2. CASE live.flight \notin {None, cost.flight}
    <3>1. flown = ApplyLivePrice(cost, "flight", live.flight)
      BY <1>2, <2>2
    <3>2. "flight" \in LiveParts /\ 10 \in Nat /\ 10 + 10 = 20
      BY DEF LiveParts
    <3>3. /\ flown \in CostType /\ flown.flight = live.flight /\ flown.live = cost.live \cup {"flight"}
          /\ \A n \in Nat : Within(cost, n) => Within(flown, n + 10)
      <4>1. PICK part \in LiveParts : part = "flight"
        BY <3>2
      <4>2. flown = ApplyLivePrice(cost, part, live.flight)
        BY <3>1, <4>1
      <4>3. /\ flown \in CostType /\ flown[part] = live.flight /\ flown.live = cost.live \cup {part}
            /\ \A n \in Nat : Within(cost, n) => Within(flown, n + 10)
        BY <1>1, <4>2, AppliedFacts
      <4>4. QED
        BY <4>1, <4>3
    <3>4. Within(flown, 10 + 10)
      BY <3>2, <3>3
    <3>5. QED
      BY <2>2, <3>2, <3>3, <3>4
  <2>3. QED
    BY <2>1, <2>2
<1>6. CASE live.accommodation \in {None, cost.accommodation}
  <2>1. c = flown
    BY <1>3, <1>6
  <2>2. Off(flown) \in Int
    BY <1>5, TotalType DEF Off
  <2>3. Within(flown, 30)
    BY <1>5, <2>2 DEF Within
  <2>4. QED
    BY <1>4, <1>5, <2>1, <2>3
<1>7. CASE live.accommodation \notin {None, cost.accommodation}
  <2>1. c = ApplyLivePrice(flown, "accommodation", live.accommodation)
    BY <1>3, <1>7
  <2>2. "accommodation" \in LiveParts /\ "flight" \in LiveParts /\ 20 \in Nat /\ 20 + 10 = 30
    BY DEF LiveParts
  <2>3. /\ c.accommodation = live.accommodation /\ c.live = flown.live \cup {"accommodation"}
        /\ \A other \in LiveParts : other # "accommodation" => c[other] = flown[other]
        /\ \A n \in Nat : Within(flown, n) => Within(c, n + 10)
    <3>1. PICK part \in LiveParts : part = "accommodation"
      BY <2>2
    <3>2. c = ApplyLivePrice(flown, part, live.accommodation)
      BY <2>1, <3>1
    <3>3. /\ c[part] = live.accommodation /\ c.live = flown.live \cup {part}
          /\ \A other \in LiveParts : other # part => c[other] = flown[other]
          /\ \A n \in Nat : Within(flown, n) => Within(c, n + 10)
      BY <1>1, <1>5, <3>2, AppliedFacts
    <3>4. QED
      BY <3>1, <3>3
  <2>4. Within(c, 20 + 10)
    BY <1>5, <2>2, <2>3
  <2>5. c.flight = flown.flight
    BY <2>2, <2>3
  <2>6. QED
    BY <1>4, <1>5, <1>7, <2>2, <2>3, <2>4, <2>5
<1>8. QED
  BY <1>6, <1>7

\* What a row's price is made of, before the transfer.
LEMMA RowCostFacts ==
  ASSUME WorldGiven, Accepted, NEW t \in ResultType
  PROVE  LET live == LivePrices[t.resort.name] IN
         /\ t.cost \in CostType /\ Within(t.cost, 30) /\ "transfer" \notin t.cost.live
         /\ "accommodation" \in t.cost.live => live.accommodation # None /\ t.cost.accommodation = live.accommodation
         /\ "flight" \in t.cost.live => live.flight # None /\ t.cost.flight = live.flight
<1>1. t.cost \in CostType /\ t.resort \in Range(world.resorts) /\ t.cost \in CostsOf(t.resort, t.start)
  BY DEF ResultType, TripType
<1>2. PICK r \in Resort : r = t.resort
  BY <1>1, NarrowedFacts
<1>3. PrefsType(Prefs) /\ LivePrices[r.name] \in LivePair
  BY <1>1, <1>2, PrefsFacts, LiveFacts DEF Accepted
<1>4. PICK estimate \in CostType : estimate = ComputeTripCost(r, Prefs, DateOf(t.start))
  BY <1>3, TripCostType
<1>5. estimate.live = {} /\ Within(estimate, 10)
  BY <1>3, <1>4, EstimateIsExact
<1>6. CASE t.cost = estimate
  <2>1. Off(estimate) \in Int
    BY TotalType DEF Off
  <2>2. Within(estimate, 30)
    BY <1>5, <2>1 DEF Within
  <2>3. QED
    BY <1>5, <1>6, <2>2
<1>7. CASE t.cost = LiveCost(estimate, LivePrices[r.name])
  BY <1>1, <1>2, <1>3, <1>5, <1>7, LiveCostFacts
<1>8. QED
  BY <1>1, <1>2, <1>4, <1>6, <1>7 DEF CostsOf

\* A transfer in the price changes the transfer and the buffer, nothing else.
LEMMA TransferKeeps ==
  ASSUME NEW cost \in CostType, NEW price
  PROVE  LET c == ApplyLivePrice(cost, "transfer", price) IN
         /\ c.flight = cost.flight /\ c.accommodation = cost.accommodation
         /\ "flight" \in c.live <=> "flight" \in cost.live
         /\ "accommodation" \in c.live <=> "accommodation" \in cost.live
<1>1. PICK live : live = cost.live \cup {"transfer"}
  OBVIOUS
<1>2. PICK misc : misc = cost.misc + Buffer(price - cost.transfer)
  OBVIOUS
<1>3. ApplyLivePrice(cost, "transfer", price) = [cost EXCEPT !.transfer = price, !.live = live, !.misc = misc]
  BY <1>1, <1>2 DEF ApplyLivePrice
<1>4. PICK c : c = [cost EXCEPT !.transfer = price, !.live = live, !.misc = misc]
  OBVIOUS
<1>5. c.flight = cost.flight /\ c.accommodation = cost.accommodation /\ c.live = live
  BY <1>4 DEF CostType
<1>6. QED
  BY <1>1, <1>3, <1>4, <1>5

\* The price of a card says what its row's said of the flight and the bed.
LEMMA CardCostFacts ==
  ASSUME ResponseInv, NEW n \in DOMAIN cards
  PROVE  LET live == LivePrices[trips[n].resort.name]
             row == WithTransfer(trips[n], transfers[n].options)
         IN
         /\ cards[n].cost = row.cost
         /\ "accommodation" \in row.cost.live => live.accommodation # None /\ row.cost.accommodation = live.accommodation
         /\ "flight" \in row.cost.live => live.flight # None /\ row.cost.flight = live.flight
<1>1. WorldGiven /\ Accepted /\ trips[n] \in ResultType
  BY CardFacts
<1>2. PICK cost \in CostType : /\ cost = trips[n].cost
                               /\ LET live == LivePrices[trips[n].resort.name] IN
                                  /\ "accommodation" \in cost.live =>
                                       live.accommodation # None /\ cost.accommodation = live.accommodation
                                  /\ "flight" \in cost.live => live.flight # None /\ cost.flight = live.flight
  BY <1>1, RowCostFacts
<1>3. PICK c : c = WithTransfer(trips[n], transfers[n].options).cost
  OBVIOUS
<1>4. c = cost \/ \E price : c = ApplyLivePrice(cost, "transfer", price)
  BY <1>2, <1>3, CardFields
<1>5. /\ c.flight = cost.flight /\ c.accommodation = cost.accommodation
      /\ "flight" \in c.live <=> "flight" \in cost.live
      /\ "accommodation" \in c.live <=> "accommodation" \in cost.live
  BY <1>4, TransferKeeps
<1>6. QED
  BY <1>2, <1>3, <1>5, CardFields

\* A bed that is offered and meets every wish has one like it among those the
\* search takes.
LEMMA MeetingBedIsSearched ==
  ASSUME NEW hotels \in Hotels, NEW f \in Filter, f # NoFilter, NEW stay, StayType(stay), NEW type,
         NEW o \in Range(StaysHotels(hotels.stays, hotels.resort, NoFilter, type, stay)), Meets(f, stay, o)
  PROVE  LET options == EnrichOptions(hotels, stay, LiveSearch(hotels, f, type, stay)) IN
         /\ options \in Seq(BedType)
         /\ \E i \in 1..Len(options) : Meets(f, stay, options[i]) /\ options[i].price = o.price
<1>1. hotels.stays \in Seq(Listing)
  BY DEF Hotels
<1>2. PICK e \in Range(hotels.stays) : Usable(e, NoFilter, type, stay) /\ ReadAs(e, o, hotels.resort)
  BY <1>1, StaysFacts
<1>3. e \in Listing
  BY <1>1, <1>2, ElementsIn DEF Range
<1>4. Usable(e, f, type, stay)
  BY <1>2, <1>3, MeetsIsUsable
<1>5. PICK found : found = StaysHotels(hotels.stays, hotels.resort, f, type, stay)
  OBVIOUS
<1>6. PICK b \in Range(found) : ReadAs(e, b, hotels.resort)
  BY <1>1, <1>4, <1>5, StaysFacts
<1>7. found \in Seq(BedType)
  BY <1>5, StaysType
<1>8. PICK i \in 1..Len(found) : b = found[i]
  BY <1>6, <1>7, ElementsIn DEF Range
<1>9. found # <<>>
  BY <1>8
<1>10. LiveSearch(hotels, f, type, stay) = found
  BY <1>5, <1>9, FilteredIsFirst
<1>11. PICK options : options = EnrichOptions(hotels, stay, found)
  OBVIOUS
<1>12. /\ options \in Seq(BedType) /\ Len(options) = Len(found)
       /\ options[i].price = b.price
       /\ \A x \in {"rating", "distance", "star", "reviews"} : b[x] # None => options[i][x] = b[x]
       /\ b.amenities \subseteq options[i].amenities
  BY <1>7, <1>8, <1>11, EnrichType
<1>13. /\ b.price = o.price /\ b.rating = o.rating /\ b.star = o.star /\ b.reviews = o.reviews
       /\ b.amenities = o.amenities /\ b.distance = o.distance
  BY <1>2, <1>6 DEF ReadAs
<1>14. Meets(f, stay, options[i])
  <2>1. f.max # None => PerPerson(stay, options[i]) <= f.max
    BY <1>12, <1>13 DEF Meets, PerPerson
  <2>2. f.amenities \subseteq options[i].amenities
    BY <1>12, <1>13 DEF Meets
  <2>3. ASSUME NEW x \in Floors, f[x] # None PROVE options[i][x] >= f[x]
    <3>1. b[x] = o[x] /\ x \in {"rating", "distance", "star", "reviews"}
      BY <1>13 DEF Floors
    <3>2. o[x] >= f[x] /\ f[x] \in Nat
      BY <2>3 DEF Meets, Floors, Filter
    <3>3. b[x] \in Told
      <4>1. b \in BedType
        BY <1>7, <1>8, ElementsIn
      <4>2. b.rating \in Told /\ b.star \in Told /\ b.reviews \in Told
        BY <4>1 DEF BedType
      <4>3. CASE x = "rating"
        BY <4>2, <4>3
      <4>4. CASE x = "star"
        BY <4>2, <4>4
      <4>5. CASE x = "reviews"
        BY <4>2, <4>5
      <4>6. QED
        BY <4>3, <4>4, <4>5 DEF Floors
    <3>4. b[x] # None
      BY <3>1, <3>2 DEF None
    <3>5. QED
      BY <1>12, <3>1, <3>2, <3>4
  <2>4. ASSUME f.distance # None PROVE options[i].distance \in 0..f.distance
    <3>1. o.distance \in 0..f.distance
      BY <2>4 DEF Meets
    <3>2. b.distance # None
      BY <1>13, <3>1 DEF None
    <3>3. QED
      BY <1>12, <1>13, <3>1, <3>2
  <2>5. QED
    BY <2>1, <2>2, <2>3, <2>4 DEF Meets
<1>15. QED
  BY <1>8, <1>10, <1>11, <1>12, <1>13, <1>14

\* A bed that is listed and meets every wish is not passed over for a dearer
\* one or one that has to be excused, no bed breaks a cap, and the price of
\* the trip is that of the bed chosen (select_live_accommodation,
\* _provider_filters, _live_accommodation_search).
THEOREM ResponsePicksQualifyingBed == ResponseSpec => []QualifyingBedIsNotPassedOver
<1>1. ASSUME ResponseInv PROVE QualifyingBedIsNotPassedOver
  <2> SUFFICES ASSUME NEW n \in DOMAIN cards, NEW choice \in cards[n].choice
               PROVE  LET hotels == world.hotels[cards[n].resort]
                          offered == StaysHotels(hotels.stays, hotels.resort, NoFilter, Prefs.type, Prefs.stay)
                      IN  /\ \A o \in Range(offered) : Meets(Prefs.filter, Prefs.stay, o) =>
                               /\ choice.pick # <<>> /\ choice.pick[1].price <= o.price
                               /\ Meets(Prefs.filter, Prefs.stay, choice.pick[1])
                               /\ ~choice.report.unrated /\ ~choice.report.belowFloor
                          /\ choice.pick # <<>> => WithinCaps(Prefs.filter, Prefs.stay, choice.pick[1])
                          /\ "accommodation" \in cards[n].cost.live =>
                               choice.pick # <<>> /\ cards[n].cost.accommodation = PerPerson(Prefs.stay, choice.pick[1])
    BY DEF QualifyingBedIsNotPassedOver, Meets
  <2>1. /\ WorldGiven /\ Accepted /\ trips[n] \in ResultType /\ trips[n].resort \in Range(world.resorts)
    BY <1>1, CardFacts
  <2>2. PICK r : r = trips[n].resort
    OBVIOUS
  <2>3. PICK row : row = WithTransfer(trips[n], transfers[n].options)
    OBVIOUS
  <2>4. /\ row.resort = r /\ cards[n].resort = r.name /\ cards[n].choice = BedChoice(row) /\ cards[n].cost = row.cost
    BY <1>1, <2>2, <2>3, CardFields
  <2>5. PICK hotels : hotels = world.hotels[r.name]
    OBVIOUS
  <2>6. /\ Prefs.filter # NoFilter
        /\ choice = SelectLiveAccommodation(hotels, Prefs.filter, Prefs.type, Prefs.stay)
    BY <2>4, <2>5 DEF BedChoice
  <2>7. Allows(world.request) /\ Prefs.filter \in Filter /\ StayType(Prefs.stay)
    BY <2>1, FilterFacts, StayFacts DEF Accepted
  <2>8. hotels \in Hotels
    BY <2>1, <2>2, <2>5, <2>7, LiveFacts, WorldFacts
  <2>9. PICK f \in Filter : f = Prefs.filter /\ f # NoFilter
    BY <2>6, <2>7
  <2>10. PICK stay : stay = Prefs.stay
    OBVIOUS
  <2>11. PICK options : options = EnrichOptions(hotels, stay, LiveSearch(hotels, f, Prefs.type, stay))
    OBVIOUS
  <2>12. options \in Seq(BedType)
    BY <2>8, <2>11, LiveSearchType, EnrichType
  <2>13. choice = SelectBed(f, stay, options)
    BY <2>6, <2>9, <2>10, <2>11 DEF SelectLiveAccommodation
  <2>14. /\ choice.pick = <<>> \/ \E b \in BedType : choice.pick = <<b>> /\ WithinCaps(f, stay, b)
         /\ \A i \in 1..Len(options) : Meets(f, stay, options[i]) =>
              /\ \E b \in BedType : choice.pick = <<b>> /\ Meets(f, stay, b) /\ b.price <= options[i].price
              /\ ~choice.report.unrated /\ ~choice.report.belowFloor
    BY <2>12, <2>13, SelectBedFacts
  <2>15. ASSUME NEW o \in Range(StaysHotels(hotels.stays, hotels.resort, NoFilter, Prefs.type, stay)), Meets(f, stay, o)
         PROVE  /\ choice.pick # <<>> /\ choice.pick[1].price <= o.price /\ Meets(f, stay, choice.pick[1])
                /\ ~choice.report.unrated /\ ~choice.report.belowFloor
    <3>1. PICK i \in 1..Len(options) : Meets(f, stay, options[i]) /\ options[i].price = o.price
      BY <2>7, <2>8, <2>9, <2>10, <2>11, <2>15, MeetingBedIsSearched, SMTT(40)
    <3>2. PICK b \in BedType : choice.pick = <<b>> /\ Meets(f, stay, b) /\ b.price <= options[i].price
      BY <2>14, <3>1
    <3>3. choice.pick # <<>> /\ choice.pick[1] = b
      BY <3>2
    <3>4. QED
      BY <2>14, <3>1, <3>2, <3>3
  <2>16. choice.pick # <<>> => WithinCaps(f, stay, choice.pick[1])
    BY <2>14
  <2>17. ASSUME "accommodation" \in cards[n].cost.live
         PROVE  choice.pick # <<>> /\ cards[n].cost.accommodation = PerPerson(stay, choice.pick[1])
    <3>1. LivePrices[r.name].accommodation # None /\ row.cost.accommodation = LivePrices[r.name].accommodation
      BY <1>1, <2>2, <2>3, <2>4, <2>17, CardCostFacts
    <3>2. LivePrices[r.name].accommodation = LiveBedCost(hotels, Prefs.filter, Prefs.type, Prefs.stay)
      <4>1. PICK fare : fare = Least0({world.flights[r.name][i].price : i \in DOMAIN world.flights[r.name]})
        OBVIOUS
      <4>2. PICK bed : bed = LiveBedCost(world.hotels[r.name], Prefs.filter, Prefs.type, Prefs.stay)
        OBVIOUS
      <4>3. r \in Range(world.resorts)
        BY <2>1, <2>2
      <4>4. LivePrices[r.name] = [flight |-> fare, accommodation |-> bed]
        BY <2>1, <2>7, <4>1, <4>2, <4>3, LiveFacts
      <4>5. LivePrices[r.name].accommodation = bed
        BY <4>4
      <4>6. QED
        BY <2>5, <4>2, <4>5
    <3>3. LivePrices[r.name].accommodation = CostOf(choice.pick, stay)
      BY <2>6, <2>10, <3>2 DEF LiveBedCost
    <3>4. QED
      BY <2>4, <3>1, <3>3 DEF CostOf
  <2>18. QED
    BY <2>4, <2>5, <2>9, <2>10, <2>15, <2>16, <2>17
<1>2. QED
  BY <1>1, ResponseInvHolds, PTL

-----------------------------------------------------------------------------
\* The picks of the flights.

\* Of two keys in order, the first number of the
\* one is no more than that of the other, nor, if they are equal, the second.
LEMMA GoesBeforeIsAscending ==
  ASSUME NEW D \in SUBSET Int, NEW w \in Nat \ {0}, NEW key \in [D -> [1..w -> Int]],
         NEW i \in D, NEW j \in D, GoesBefore(key, i, j)
  PROVE  /\ key[i][1] <= key[j][1]
         /\ w >= 2 /\ key[i][1] = key[j][1] => key[i][2] <= key[j][2]
<1>1. PICK a \in [1..w -> Int], b \in [1..w -> Int] : a = key[i] /\ b = key[j]
  OBVIOUS
<1>2. /\ a[1] \in Int /\ b[1] \in Int
      /\ w >= 2 => a[2] \in Int /\ b[2] \in Int
  OBVIOUS
<1>3. CASE a = b
  BY <1>1, <1>2, <1>3
<1>4. CASE Before(a, b)
  <2>1. PICK k \in 1..w : a[k] < b[k] /\ \A m \in 1..(k - 1) : a[m] = b[m]
    BY <1>4 DEF Before
  <2>2. CASE k = 1
    BY <1>1, <1>2, <2>1, <2>2
  <2>3. CASE k = 2
    BY <1>1, <1>2, <2>1, <2>3
  <2>4. CASE k > 2
    <3>1. 1 \in 1..(k - 1) /\ 2 \in 1..(k - 1)
      BY <2>4
    <3>2. a[1] = b[1] /\ a[2] = b[2]
      BY <2>1, <3>1
    <3>3. QED
      BY <1>1, <1>2, <2>4, <3>2
  <2>5. QED
    BY <2>2, <2>3, <2>4
<1>5. QED
  BY <1>1, <1>3, <1>4 DEF GoesBefore

\* The place of the least key has the least first number.
LEMMA LeastIsFirst ==
  ASSUME NEW n \in Nat \ {0}, NEW w \in Nat \ {0}, NEW key \in [1..n -> [1..w -> Int]]
  PROVE  /\ LeastPlace(key) \in 1..n
         /\ \A j \in 1..n : /\ key[LeastPlace(key)][1] <= key[j][1]
                            /\ w >= 2 /\ key[LeastPlace(key)][1] = key[j][1] =>
                                 key[LeastPlace(key)][2] <= key[j][2]
<1>1. PICK i \in 1..n : i = LeastPlace(key) /\ \A j \in 1..n : j = i \/ GoesBefore(key, i, j)
  BY LeastPlaceFacts
<1>2. ASSUME NEW j \in 1..n
      PROVE  key[i][1] <= key[j][1] /\ (w >= 2 /\ key[i][1] = key[j][1] => key[i][2] <= key[j][2])
  <2>1. CASE j = i
    <3>1. key[i] \in [1..w -> Int]
      OBVIOUS
    <3>2. key[i][1] \in Int /\ (w >= 2 => key[i][2] \in Int)
      BY <3>1
    <3>3. QED
      BY <2>1, <3>2
  <2>2. CASE GoesBefore(key, i, j)
    <3>1. 1..n \in SUBSET Int
      OBVIOUS
    <3>2. QED
      BY <2>2, <3>1, GoesBeforeIsAscending
  <2>3. QED
    BY <1>1, <2>1, <2>2
<1>3. QED
  BY <1>1, <1>2

\* Multiplying keeps the order.
LEMMA Scaled ==
  ASSUME NEW a \in Int, NEW b \in Int, NEW m \in Nat \ {0}
  PROVE  /\ a <= b => a * m <= b * m
         /\ a < b => a * m < b * m
OBVIOUS

\* What is as good on both counts and better on one scores less.
LEMMA ScoreIsMonotone ==
  ASSUME NEW p \in Int, NEW q \in Int, NEW d \in Int, NEW e \in Int, NEW least \in Int, NEW short \in Int,
         NEW m \in Nat \ {0}, NEW k \in Nat \ {0}, p <= q, d <= e, p + d < q + e
  PROVE  (p - least) * m + (d - short) * k < (q - least) * m + (e - short) * k
<1>1. PICK a \in Int, b \in Int, c \in Int, f \in Int : a = p - least /\ b = q - least /\ c = d - short /\ f = e - short
  OBVIOUS
<1>2. a <= b /\ c <= f /\ (a < b \/ c < f)
  BY <1>1
<1>3. PICK am \in Int, bm \in Int, ck \in Int, fk \in Int : am = a * m /\ bm = b * m /\ ck = c * k /\ fk = f * k
  OBVIOUS
<1>4. am <= bm /\ ck <= fk /\ (am < bm \/ ck < fk)
  BY <1>2, <1>3, Scaled
<1>5. QED
  BY <1>1, <1>3, <1>4

\* The least place by a key of two numbers, and of three.
LEMMA LeastOfPairs ==
  ASSUME NEW n \in Nat \ {0}, NEW key \in [1..n -> [1..2 -> Int]]
  PROVE  \E i \in 1..n :
            /\ i = LeastPlace(key)
            /\ \A j \in 1..n : key[i][1] <= key[j][1]
            /\ \A j \in 1..n : key[i][1] = key[j][1] => key[i][2] <= key[j][2]
<1>1. PICK w \in Nat \ {0} : w = 2
  OBVIOUS
<1>2. key \in [1..n -> [1..w -> Int]]
  BY <1>1
<1>3. PICK i \in 1..n : i = LeastPlace(key)
  BY <1>2, LeastIsFirst
<1>4. \A j \in 1..n : /\ key[i][1] <= key[j][1]
                       /\ w >= 2 /\ key[i][1] = key[j][1] => key[i][2] <= key[j][2]
  BY <1>2, <1>3, LeastIsFirst
<1>5. \A j \in 1..n : key[i][1] <= key[j][1]
  BY <1>2, <1>3, LeastIsFirst
<1>6. \A j \in 1..n : key[i][1] = key[j][1] => key[i][2] <= key[j][2]
  BY <1>1, <1>4
<1>7. QED
  BY <1>3, <1>5, <1>6

LEMMA LeastOfTriples ==
  ASSUME NEW n \in Nat \ {0}, NEW key \in [1..n -> [1..3 -> Int]]
  PROVE  \E i \in 1..n :
            /\ i = LeastPlace(key)
            /\ \A j \in 1..n : key[i][1] <= key[j][1]
            /\ \A j \in 1..n : key[i][1] = key[j][1] => key[i][2] <= key[j][2]
<1>1. PICK w \in Nat \ {0} : w = 3
  OBVIOUS
<1>2. key \in [1..n -> [1..w -> Int]]
  BY <1>1
<1>3. PICK i \in 1..n : i = LeastPlace(key)
  BY <1>2, LeastIsFirst
<1>4. \A j \in 1..n : /\ key[i][1] <= key[j][1]
                       /\ w >= 2 /\ key[i][1] = key[j][1] => key[i][2] <= key[j][2]
  BY <1>2, <1>3, LeastIsFirst
<1>5. \A j \in 1..n : key[i][1] <= key[j][1]
  BY <1>2, <1>3, LeastIsFirst
<1>6. \A j \in 1..n : key[i][1] = key[j][1] => key[i][2] <= key[j][2]
  BY <1>1, <1>4
<1>7. QED
  BY <1>3, <1>5, <1>6

LEMMA Product == ASSUME NEW a \in Int, NEW b \in Int PROVE a * b \in Int
OBVIOUS

\* No option is as good as the i-th on both counts and better on one.
Unbeaten(options, i) ==
  \A j \in 1..Len(options) :
    ~(/\ options[j].price <= options[i].price /\ options[j].duration <= options[i].duration
      /\ options[j].price + options[j].duration < options[i].price + options[i].duration)

\* A cheapest, a best and a fastest option are beaten by none.
LEMMA RoleFacts ==
  ASSUME NEW options \in Seq(FlightOption), Len(options) # 0
  PROVE  /\ Cheapest(options) \in 1..Len(options) /\ Unbeaten(options, Cheapest(options))
         /\ \A j \in 1..Len(options) : options[Cheapest(options)].price <= options[j].price
         /\ Fastest(options) \in 1..Len(options) /\ Unbeaten(options, Fastest(options))
         /\ \A j \in 1..Len(options) : options[Fastest(options)].duration <= options[j].duration
         /\ Best(options) \in 1..Len(options) /\ Unbeaten(options, Best(options))
<1>1. PICK n \in Nat \ {0} : n = Len(options)
  OBVIOUS
<1>2. DOMAIN options = 1..n /\ \A j \in 1..n : options[j] \in FlightOption
  BY <1>1, ElementsIn
<1>3. \A j \in 1..n : options[j].price \in Nat /\ options[j].duration \in Nat
  BY <1>2 DEF FlightOption
<1>4. /\ Cheapest(options) \in 1..n /\ Unbeaten(options, Cheapest(options))
      /\ \A j \in 1..n : options[Cheapest(options)].price <= options[j].price
  <2>1. PICK key : key = [j \in 1..n |-> <<options[j].price, options[j].duration>>]
    OBVIOUS
  <2>2. \A j \in 1..n : key[j] = <<options[j].price, options[j].duration>> /\ key[j] \in [1..2 -> Int]
    BY <1>3, <2>1, TwoNumbers
  <2>3. key \in [1..n -> [1..2 -> Int]]
    BY <2>1, <2>2
  <2>4. Cheapest(options) = LeastPlace(key)
    BY <1>2, <2>1 DEF Cheapest, PlaceOfLeast, Mapped
  <2>5. PICK i \in 1..n : /\ i = LeastPlace(key)
                          /\ \A j \in 1..n : key[i][1] <= key[j][1]
                          /\ \A j \in 1..n : key[i][1] = key[j][1] => key[i][2] <= key[j][2]
    BY <2>3, LeastOfPairs
  <2>6. \A j \in 1..n : /\ options[i].price <= options[j].price
                        /\ options[i].price = options[j].price => options[i].duration <= options[j].duration
    <3>1. \A j \in 1..n : key[j][1] = options[j].price /\ key[j][2] = options[j].duration
      BY <2>2, TwoNumbers, SMT
    <3>2. QED
      BY <2>5, <3>1, Zenon
  <2>7. QED
    BY <1>1, <1>3, <2>4, <2>5, <2>6 DEF Unbeaten
<1>5. /\ Fastest(options) \in 1..n /\ Unbeaten(options, Fastest(options))
      /\ \A j \in 1..n : options[Fastest(options)].duration <= options[j].duration
  <2>1. PICK key : key = [j \in 1..n |-> <<options[j].duration, options[j].price>>]
    OBVIOUS
  <2>2. \A j \in 1..n : key[j] = <<options[j].duration, options[j].price>> /\ key[j] \in [1..2 -> Int]
    BY <1>3, <2>1, TwoNumbers
  <2>3. key \in [1..n -> [1..2 -> Int]]
    BY <2>1, <2>2
  <2>4. Fastest(options) = LeastPlace(key)
    BY <1>2, <2>1 DEF Fastest, PlaceOfLeast, Mapped
  <2>5. PICK i \in 1..n : /\ i = LeastPlace(key)
                          /\ \A j \in 1..n : key[i][1] <= key[j][1]
                          /\ \A j \in 1..n : key[i][1] = key[j][1] => key[i][2] <= key[j][2]
    BY <2>3, LeastOfPairs
  <2>6. \A j \in 1..n : /\ options[i].duration <= options[j].duration
                        /\ options[i].duration = options[j].duration => options[i].price <= options[j].price
    <3>1. \A j \in 1..n : key[j][1] = options[j].duration /\ key[j][2] = options[j].price
      BY <2>2, TwoNumbers, SMT
    <3>2. QED
      BY <2>5, <3>1, Zenon
  <2>7. QED
    BY <1>1, <1>3, <2>4, <2>5, <2>6 DEF Unbeaten
<1>6. Best(options) \in 1..n /\ Unbeaten(options, Best(options))
  <2>1. PICK prices, durations : prices = {options[i].price : i \in 1..n} /\ durations = {options[i].duration : i \in 1..n}
    OBVIOUS
  <2>2. prices \in SUBSET Nat /\ prices # {} /\ durations \in SUBSET Nat /\ durations # {}
    BY <1>3, <2>1
  <2>3. PICK least \in Nat, short \in Nat : least = Min(prices) /\ short = Min(durations)
    BY <2>2, LeastOfNats
  <2>4. PICK dear \in Int, long \in Int : dear = Max(prices) /\ long = Max(durations) /\ least <= dear /\ short <= long
    <3> DEFINE f == [i \in 1..n |-> options[i].price]
               g == [i \in 1..n |-> options[i].duration]
    <3>1. f \in [1..n -> Int] /\ g \in [1..n -> Int]
      BY <1>3
    <3>2. prices = {f[i] : i \in 1..n} /\ durations = {g[i] : i \in 1..n}
      BY <2>1
    <3> HIDE DEF f, g
    <3>3. Max(prices) \in prices /\ \A x \in prices : x <= Max(prices)
      BY <3>1, <3>2, ExtremesAmong
    <3>4. Max(durations) \in durations /\ \A x \in durations : x <= Max(durations)
      BY <3>1, <3>2, ExtremesAmong
    <3>5. least \in prices /\ short \in durations
      BY <2>2, <2>3, LeastOfNats
    <3>6. QED
      <4>1. Max(prices) \in Int /\ Max(durations) \in Int
        <5>1. \A x \in prices \cup durations : x \in Int
          BY <2>2
        <5>2. QED
          BY <3>3, <3>4, <5>1
      <4>2. least <= Max(prices) /\ short <= Max(durations)
        BY <3>3, <3>4, <3>5
      <4>3. QED
        BY <4>1, <4>2
  <2>5. PICK m \in Nat \ {0}, k \in Nat \ {0} : m = NonZero(Spread(durations)) /\ k = NonZero(Spread(prices))
    BY <2>3, <2>4 DEF NonZero, Spread
  <2>6. \A j \in 1..n : BestScore(options, options[j]) = (options[j].price - least) * m + (options[j].duration - short) * k
    BY <1>2, <2>1, <2>3, <2>5 DEF BestScore
  <2>7. \A j \in 1..n : BestScore(options, options[j]) \in Int
    <3>1. ASSUME NEW j \in 1..n PROVE BestScore(options, options[j]) \in Int
      <4>1. options[j].price - least \in Int /\ options[j].duration - short \in Int
        BY <1>3
      <4>2. (options[j].price - least) * m \in Int /\ (options[j].duration - short) * k \in Int
        BY <4>1, Product
      <4>3. QED
        BY <2>6, <4>2
    <3>2. QED
      BY <3>1
  <2>8. PICK key : key = [j \in 1..n |-> <<BestScore(options, options[j]), options[j].price, options[j].duration>>]
    OBVIOUS
  <2>9. \A j \in 1..n : key[j][1] = BestScore(options, options[j]) /\ key[j] \in [1..3 -> Int]
    BY <1>3, <2>7, <2>8, ThreeNumbers
  <2>10. key \in [1..n -> [1..3 -> Int]]
    BY <2>8, <2>9
  <2>11. Best(options) = LeastPlace(key)
    BY <1>2, <2>8 DEF Best, PlaceOfLeast, Mapped
  <2>12. PICK i \in 1..n : i = LeastPlace(key) /\ \A j \in 1..n : key[i][1] <= key[j][1]
    BY <2>10, LeastOfTriples
  <2>13. ASSUME NEW j \in 1..n,
                options[j].price <= options[i].price, options[j].duration <= options[i].duration,
                options[j].price + options[j].duration < options[i].price + options[i].duration
         PROVE  FALSE
    <3>1. PICK p \in Int, q \in Int, d \in Int, e \in Int :
            p = options[j].price /\ q = options[i].price /\ d = options[j].duration /\ e = options[i].duration
      BY <1>3, SMTT(40)
    <3>2. (p - least) * m + (d - short) * k < (q - least) * m + (e - short) * k
      <4>1. p <= q /\ d <= e /\ p + d < q + e
        BY <2>13, <3>1
      <4>2. least \in Int /\ short \in Int
        OBVIOUS
      <4>3. QED
        BY <4>1, <4>2, ScoreIsMonotone
    <3>3. BestScore(options, options[j]) < BestScore(options, options[i])
      BY <2>6, <3>1, <3>2
    <3>4. QED
      BY <2>7, <2>9, <2>12, <3>3
  <2>14. QED
    BY <1>1, <2>11, <2>12, <2>13 DEF Unbeaten
<1>7. QED
  BY <1>1, <1>4, <1>5, <1>6

PickType == [option : FlightOption, roles : SUBSET {"cheapest", "best", "fastest"}]

\* The options that have a role, each with its roles.
LEMMA RolesFacts ==
  ASSUME NEW options, NEW i
  PROVE  /\ Roles(options, i) \in SUBSET {"cheapest", "best", "fastest"}
         /\ "cheapest" \in Roles(options, i) <=> i = Cheapest(options)
         /\ "fastest" \in Roles(options, i) <=> i = Fastest(options)
         /\ Roles(options, i) # {} => i \in {Cheapest(options), Best(options), Fastest(options)}
BY DEF Roles

\* Every pick is an option that none beats, the first is the cheapest of all,
\* and the fastest of all is one of them.
LEMMA PickFacts ==
  ASSUME NEW options \in Seq(FlightOption), Len(options) # 0
  PROVE  LET picks == PickFlights(options) IN
         /\ picks \in Seq(PickType) /\ Len(picks) # 0
         /\ \A a \in 1..Len(picks) : \E i \in 1..Len(options) :
              /\ picks[a].option = options[i] /\ Unbeaten(options, i)
              /\ "fastest" \in picks[a].roles => i = Fastest(options)
         /\ \E a \in 1..Len(picks) : "fastest" \in picks[a].roles
         /\ \A j \in 1..Len(options) : picks[1].option.price <= options[j].price
<1>1. PICK n \in Nat \ {0} : n = Len(options)
  OBVIOUS
<1>2. DOMAIN options = 1..n /\ \A j \in 1..n : options[j] \in FlightOption
  BY <1>1, ElementsIn
<1>3. \A j \in 1..n : options[j].price \in Nat /\ options[j].duration \in Nat
  BY <1>2 DEF FlightOption
<1> DEFINE list == [i \in 1..n |-> [option |-> options[i], roles |-> Roles(options, i)]]
           S == {i \in 1..n : list[i].roles # {}}
           key(s) == [a \in DOMAIN s |-> <<s[a].option.price, s[a].option.duration>>]
<1>4. Len(options) # 0 /\ options # <<>>
  OBVIOUS
<1>5. PickFlights(options) = Sorted(At(list, S), key(At(list, S)))
  <2>1. Positions(options) = [i \in 1..n |-> i]
    BY <1>2 DEF Positions
  <2>2. DOMAIN list = 1..n
    OBVIOUS
  <2>3. [i \in DOMAIN Positions(options) |->
           [option |-> options[Positions(options)[i]], roles |-> Roles(options, Positions(options)[i])]] = list
    BY <2>1
  <2>4. QED
    BY <1>4, <2>2, <2>3, ZenonT(60) DEF PickFlights, Mapped, Where, SortedBy
<1>6. \A i \in 1..n : list[i] = [option |-> options[i], roles |-> Roles(options, i)]
  OBVIOUS
<1>7. \A i \in 1..n : list[i] \in PickType /\ list[i].option = options[i] /\ list[i].roles = Roles(options, i)
  BY <1>2, <1>6, RolesFacts DEF PickType
<1>8. DOMAIN list = 1..n /\ \A i : i \in S <=> i \in 1..n /\ Roles(options, i) # {}
  BY <1>7
<1>9. list \in Seq(PickType) /\ Len(list) = n
  <2>1. list \in [1..n -> PickType]
    BY <1>7
  <2> HIDE DEF list
  <2>2. QED
    BY <2>1
<1> HIDE DEF list, S
<1>10. PICK won \in Seq(PickType) : won = At(list, S)
  BY <1>9, AtFacts
<1>11. \A a \in 1..Len(won) : \E i \in 1..n : i \in S /\ won[a] = list[i]
  BY <1>9, <1>10, AtFacts
<1>12. \A i \in 1..n : i \in S => \E a \in 1..Len(won) : won[a] = list[i]
  <2>1. \A i \in 1..Len(list) : i \in S => \E a \in 1..Len(At(list, S)) : At(list, S)[a] = list[i]
    BY <1>9, AtHas
  <2>2. QED
    BY <1>9, <1>10, <2>1
<1>13. PICK m \in Nat : m = Len(won)
  BY <1>10
<1>14. DOMAIN won = 1..m /\ \A a \in 1..m : won[a] \in PickType
  BY <1>10, <1>13, ElementsIn
<1>15. key(won) \in [DOMAIN won -> [1..2 -> Int]] /\ \A a \in 1..m : key(won)[a][1] = won[a].option.price
  <2>1. \A a \in 1..m : won[a].option.price \in Int /\ won[a].option.duration \in Int
    BY <1>14 DEF PickType, FlightOption
  <2>2. \A a \in 1..m : key(won)[a] = <<won[a].option.price, won[a].option.duration>>
    BY <1>14
  <2>3. \A a \in 1..m : <<won[a].option.price, won[a].option.duration>> \in [1..2 -> Int]
    BY <2>1, TwoNumbers
  <2>4. key(won) \in [DOMAIN won -> [1..2 -> Int]]
    BY <1>14, <2>2, <2>3
  <2>5. ASSUME NEW a \in 1..m PROVE key(won)[a][1] = won[a].option.price
    <3>1. PICK x, y : x = won[a].option.price /\ y = won[a].option.duration
      OBVIOUS
    <3>2. key(won)[a] = <<x, y>>
      BY <2>2, <3>1
    <3> HIDE DEF key
    <3>3. QED
      BY <3>1, <3>2
  <2>6. QED
    BY <2>4, <2>5
<1>16. PickFlights(options) = Sorted(won, key(won))
  BY <1>5, <1>10
<1> HIDE DEF key
<1>17. PICK p : Rearranged(Sorted(won, key(won)), p, won, PickType, key(won))
  BY <1>10, <1>15, SortedIsRearranged
<1>18. PICK picks : picks = PickFlights(options)
  OBVIOUS
<1>19. /\ picks \in Seq(PickType) /\ Len(picks) = m /\ p \in [1..m -> 1..m]
       /\ \A a \in 1..m : picks[a] = won[p[a]]
       /\ \A a, b \in 1..m : a < b => GoesBefore(key(won), p[a], p[b])
       /\ \A k \in 1..m : \E a \in 1..m : p[a] = k
  BY <1>13, <1>16, <1>17, <1>18 DEF Rearranged
<1>20. /\ Fastest(options) \in 1..n /\ Cheapest(options) \in 1..n
       /\ \A j \in 1..n : options[Cheapest(options)].price <= options[j].price
       /\ \A i \in {Cheapest(options), Best(options), Fastest(options)} : Unbeaten(options, i)
  BY <1>1, RoleFacts
<1>21. ASSUME NEW a \in 1..m
       PROVE  \E i \in 1..n : /\ picks[a].option = options[i] /\ Unbeaten(options, i)
                              /\ "fastest" \in picks[a].roles => i = Fastest(options)
  <2>1. p[a] \in 1..m /\ picks[a] = won[p[a]]
    BY <1>19
  <2>2. PICK i \in 1..n : i \in S /\ won[p[a]] = list[i]
    BY <1>11, <1>13, <2>1
  <2>3. picks[a].option = options[i] /\ picks[a].roles = Roles(options, i)
    BY <1>7, <2>1, <2>2
  <2>4. i \in {Cheapest(options), Best(options), Fastest(options)}
    BY <1>8, <2>2, RolesFacts
  <2>5. "fastest" \in picks[a].roles => i = Fastest(options)
    BY <2>3, RolesFacts
  <2>6. QED
    BY <1>20, <2>3, <2>4, <2>5
<1>22. ASSUME NEW i \in 1..n, Roles(options, i) # {}
       PROVE  \E a \in 1..m : picks[a].option = options[i] /\ picks[a].roles = Roles(options, i)
  <2>1. PICK k \in 1..m : won[k] = list[i]
    BY <1>8, <1>12, <1>13, <1>22
  <2>2. PICK a \in 1..m : p[a] = k
    BY <1>19
  <2>3. picks[a] = list[i]
    BY <1>19, <2>1, <2>2
  <2>4. QED
    BY <1>7, <2>3
<1>23. \E a \in 1..m : "fastest" \in picks[a].roles
  <2>1. "fastest" \in Roles(options, Fastest(options))
    BY RolesFacts
  <2>2. QED
    BY <1>20, <1>22, <2>1
<1>24. m # 0 /\ 1 \in 1..m
  BY <1>23
<1>25. \A j \in 1..n : picks[1].option.price <= options[j].price
  <2>1. "cheapest" \in Roles(options, Cheapest(options))
    BY RolesFacts
  <2>2. PICK a \in 1..m : picks[a].option = options[Cheapest(options)]
    BY <1>20, <1>22, <2>1
  <2>3. picks[1].option.price <= picks[a].option.price
    <3>1. CASE a = 1
      <4>1. picks[1] \in PickType
        BY <1>19, <1>24, ElementsIn
      <4>2. picks[1].option.price \in Nat
        BY <4>1 DEF PickType, FlightOption
      <4>3. QED
        BY <3>1, <4>2
    <3>2. CASE 1 < a
      <4>1. GoesBefore(key(won), p[1], p[a]) /\ p[1] \in 1..m /\ p[a] \in 1..m
        BY <1>19, <1>24, <3>2
      <4>2. PICK D \in SUBSET Int : D = 1..m
        OBVIOUS
      <4>3. PICK w \in Nat \ {0} : w = 2
        OBVIOUS
      <4>4. key(won) \in [D -> [1..w -> Int]] /\ p[1] \in D /\ p[a] \in D
        BY <1>14, <1>15, <4>1, <4>2, <4>3
      <4>5. key(won)[p[1]][1] <= key(won)[p[a]][1]
        BY <4>1, <4>4, GoesBeforeIsAscending
      <4>6. QED
        BY <1>15, <1>19, <1>24, <4>1, <4>5, ZenonT(60)
    <3>3. QED
      BY <3>1, <3>2
  <2>4. picks[1].option.price <= options[Cheapest(options)].price
    BY <2>2, <2>3
  <2>5. picks[1].option.price \in Nat
    <3>1. picks[1] \in PickType
      BY <1>19, <1>24, ElementsIn
    <3>2. QED
      BY <3>1 DEF PickType, FlightOption
  <2>6. ASSUME NEW j \in 1..n PROVE picks[1].option.price <= options[j].price
    BY <1>3, <1>20, <2>4, <2>5
  <2>7. QED
    BY <2>6
<1>26. QED
  BY <1>1, <1>18, <1>19, <1>21, <1>23, <1>24, <1>25, ZenonT(60)

\* The flights of a row are the picks of what is on sale, each with the price
\* of the trip at its fare.
LEMMA FlightRowFacts ==
  ASSUME WorldGiven, NEW row, row.resort.name \in DOMAIN world.flights, FlightRows(row) # <<>>
  PROVE  LET options == world.flights[row.resort.name]
             picks == PickFlights(options)
         IN  /\ "flight" \in row.cost.live /\ row.start # None
             /\ options \in Seq(FlightOption) /\ Len(options) # 0
             /\ DOMAIN FlightRows(row) = 1..Len(picks)
             /\ \A a \in 1..Len(picks) :
                  /\ FlightRows(row)[a].price = picks[a].option.price
                  /\ FlightRows(row)[a].duration = picks[a].option.duration
                  /\ FlightRows(row)[a].roles = picks[a].roles
                  /\ FlightRows(row)[a].total = TotalEur(ApplyLivePrice(row.cost, "flight", picks[a].option.price))
<1>1. PICK name \in DOMAIN world.flights : name = row.resort.name
  OBVIOUS
<1>2. PICK options \in Seq(FlightOption) : options = world.flights[name]
  BY WorldFacts
<1>3. "flight" \in row.cost.live /\ row.start # None
  BY DEF FlightRows
<1>4. PICK picks : picks = PickFlights(options)
  OBVIOUS
<1> DEFINE RowOf(p) ==
         [price |-> p.option.price, duration |-> p.option.duration, roles |-> p.roles, link |-> p.option.link,
          total |-> TotalEur(ApplyLivePrice(row.cost, "flight", p.option.price))]
<1>5. FlightRows(row) = [a \in DOMAIN picks |-> RowOf(picks[a])]
  BY <1>1, <1>2, <1>3, <1>4 DEF FlightRows, Picks, Mapped
<1>6. Len(options) # 0
  <2>1. SUFFICES ASSUME options = <<>> PROVE FALSE
    BY EmptySeq
  <2>2. picks = <<>>
    BY <1>4, <2>1 DEF PickFlights
  <2>3. FlightRows(row) = <<>>
    BY <1>5, <2>2
  <2>4. QED
    BY <2>3
<1>7. picks \in Seq(PickType)
  BY <1>4, <1>6, PickFacts
<1>8. DOMAIN picks = 1..Len(picks)
  BY <1>7
<1>9. ASSUME NEW a \in 1..Len(picks)
      PROVE  /\ FlightRows(row)[a].price = picks[a].option.price
             /\ FlightRows(row)[a].duration = picks[a].option.duration
             /\ FlightRows(row)[a].roles = picks[a].roles
             /\ FlightRows(row)[a].total = TotalEur(ApplyLivePrice(row.cost, "flight", picks[a].option.price))
  <2>1. PICK total : total = TotalEur(ApplyLivePrice(row.cost, "flight", picks[a].option.price))
    OBVIOUS
  <2>2. FlightRows(row)[a] = [price |-> picks[a].option.price, duration |-> picks[a].option.duration,
                              roles |-> picks[a].roles, link |-> picks[a].option.link, total |-> total]
    BY <1>5, <1>8, <2>1
  <2>3. QED
    BY <2>1, <2>2
<1>10. DOMAIN FlightRows(row) = 1..Len(picks)
  BY <1>5, <1>8
<1>11. QED
  BY <1>1, <1>2, <1>3, <1>4, <1>6, <1>9, <1>10

\* The flights of a card, by the options of its resort.
LEMMA CardFlights ==
  ASSUME ResponseInv, NEW n \in DOMAIN cards, cards[n].flights # <<>>
  PROVE  LET options == world.flights[cards[n].resort]
             flights == cards[n].flights
             picks == PickFlights(options)
             row == WithTransfer(trips[n], transfers[n].options)
         IN  /\ "flight" \in row.cost.live /\ flights = FlightRows(row)
             /\ options \in Seq(FlightOption) /\ Len(options) # 0
             /\ DOMAIN flights = 1..Len(picks)
             /\ \A a \in 1..Len(picks) :
                  /\ flights[a].price = picks[a].option.price
                  /\ flights[a].duration = picks[a].option.duration
                  /\ flights[a].roles = picks[a].roles
                  /\ flights[a].total = TotalEur(ApplyLivePrice(row.cost, "flight", picks[a].option.price))
<1>1. WorldGiven /\ Accepted /\ trips[n].resort \in Range(world.resorts)
  BY CardFacts
<1>2. PICK row : row = WithTransfer(trips[n], transfers[n].options)
  OBVIOUS
<1>3. row.resort = trips[n].resort /\ cards[n].resort = row.resort.name /\ cards[n].flights = FlightRows(row)
  BY <1>2, CardFields
<1>4. row.resort.name \in DOMAIN world.flights
  BY <1>1, <1>3, LiveFacts DEF Accepted
<1>5. PICK options, picks : options = world.flights[row.resort.name] /\ picks = PickFlights(options)
  OBVIOUS
<1>6. FlightRows(row) # <<>>
  BY <1>3
<1>7. /\ "flight" \in row.cost.live
      /\ options \in Seq(FlightOption) /\ Len(options) # 0
      /\ DOMAIN FlightRows(row) = 1..Len(picks)
      /\ \A a \in 1..Len(picks) :
           /\ FlightRows(row)[a].price = picks[a].option.price
           /\ FlightRows(row)[a].duration = picks[a].option.duration
           /\ FlightRows(row)[a].roles = picks[a].roles
           /\ FlightRows(row)[a].total = TotalEur(ApplyLivePrice(row.cost, "flight", picks[a].option.price))
  BY <1>1, <1>4, <1>5, <1>6, FlightRowFacts
<1>8. options = world.flights[cards[n].resort] /\ cards[n].flights = FlightRows(row)
  BY <1>3, <1>5
<1>9. /\ DOMAIN cards[n].flights = 1..Len(picks)
      /\ \A a \in 1..Len(picks) :
           /\ cards[n].flights[a].price = picks[a].option.price
           /\ cards[n].flights[a].duration = picks[a].option.duration
           /\ cards[n].flights[a].roles = picks[a].roles
           /\ cards[n].flights[a].total = TotalEur(ApplyLivePrice(row.cost, "flight", picks[a].option.price))
  BY <1>7, <1>8, ZenonT(40)
<1> DEFINE sold == world.flights[cards[n].resort]
           shown == PickFlights(sold)
           trip == WithTransfer(trips[n], transfers[n].options)
<1>10. options = sold /\ picks = shown /\ row = trip
  BY <1>2, <1>5, <1>8
<1>11. "flight" \in trip.cost.live /\ cards[n].flights = FlightRows(trip)
  BY <1>7, <1>8, <1>10
<1>12. sold \in Seq(FlightOption) /\ Len(sold) # 0
  BY <1>7, <1>10
<1>13. DOMAIN cards[n].flights = 1..Len(shown)
  BY <1>9, <1>10
<1>14. ASSUME NEW a \in 1..Len(shown)
       PROVE  /\ cards[n].flights[a].price = shown[a].option.price
              /\ cards[n].flights[a].duration = shown[a].option.duration
              /\ cards[n].flights[a].roles = shown[a].roles
              /\ cards[n].flights[a].total = TotalEur(ApplyLivePrice(trip.cost, "flight", shown[a].option.price))
  <2>1. a \in 1..Len(picks)
    BY <1>10, <1>14
  <2>2. /\ cards[n].flights[a].price = picks[a].option.price
        /\ cards[n].flights[a].duration = picks[a].option.duration
        /\ cards[n].flights[a].roles = picks[a].roles
        /\ cards[n].flights[a].total = TotalEur(ApplyLivePrice(row.cost, "flight", picks[a].option.price))
    BY <1>9, <2>1
  <2> HIDE DEF shown, trip
  <2>3. QED
    BY <1>10, <2>2
<1>15. QED
  BY <1>11, <1>12, <1>13, <1>14

\* No itinerary on sale beats one that is shown, the first is the cheapest and
\* the fastest of all is shown (pick_flights).
THEOREM ResponsePicksAreUnbeaten == ResponseSpec => []PicksAreUnbeaten
<1>1. ASSUME ResponseInv PROVE PicksAreUnbeaten
  <2> SUFFICES ASSUME NEW n \in DOMAIN cards, cards[n].flights # <<>>,
                      NEW o \in Range(world.flights[cards[n].resort])
               PROVE  LET shown == Range(cards[n].flights) IN
                      /\ \A f \in shown :
                           ~(o.price <= f.price /\ o.duration <= f.duration /\ o.price + o.duration < f.price + f.duration)
                      /\ cards[n].flights[1].price <= o.price
                      /\ \E f \in shown : "fastest" \in f.roles /\ f.duration <= o.duration
    BY DEF PicksAreUnbeaten
  <2>1. PICK options \in Seq(FlightOption) : options = world.flights[cards[n].resort] /\ Len(options) # 0
    BY <1>1, CardFlights
  <2>2. PICK flights : flights = cards[n].flights
    OBVIOUS
  <2>3. PICK picks \in Seq(PickType) :
           /\ picks = PickFlights(options) /\ Len(picks) # 0
           /\ \A a \in 1..Len(picks) : \E i \in 1..Len(options) :
                /\ picks[a].option = options[i] /\ Unbeaten(options, i)
                /\ "fastest" \in picks[a].roles => i = Fastest(options)
           /\ \E a \in 1..Len(picks) : "fastest" \in picks[a].roles
           /\ \A j \in 1..Len(options) : picks[1].option.price <= options[j].price
    BY <2>1, PickFacts
  <2>4. /\ DOMAIN flights = 1..Len(picks)
        /\ \A a \in 1..Len(picks) : /\ flights[a].price = picks[a].option.price
                                    /\ flights[a].duration = picks[a].option.duration
                                    /\ flights[a].roles = picks[a].roles
    BY <1>1, <2>1, <2>2, <2>3, CardFlights
  <2>5. PICK j \in 1..Len(options) : o = options[j]
    BY <2>1, ElementsIn DEF Range
  <2>6. ASSUME NEW f \in Range(flights)
        PROVE  ~(o.price <= f.price /\ o.duration <= f.duration /\ o.price + o.duration < f.price + f.duration)
    <3>1. PICK a \in 1..Len(picks) : f = flights[a]
      BY <2>4 DEF Range
    <3>2. PICK i \in 1..Len(options) : picks[a].option = options[i] /\ Unbeaten(options, i)
      BY <2>3
    <3>3. f.price = options[i].price /\ f.duration = options[i].duration
      BY <2>4, <3>1, <3>2
    <3>4. QED
      BY <2>5, <3>2, <3>3 DEF Unbeaten
  <2>7. flights[1].price <= o.price
    BY <2>3, <2>4, <2>5
  <2>8. \E f \in Range(flights) : "fastest" \in f.roles /\ f.duration <= o.duration
    <3>1. PICK a \in 1..Len(picks) : "fastest" \in picks[a].roles
      BY <2>3
    <3>2. picks[a].option = options[Fastest(options)]
      BY <2>3, <3>1
    <3>3. options[Fastest(options)].duration <= options[j].duration
      BY <2>1, RoleFacts
    <3>4. flights[a] \in Range(flights)
      BY <2>4 DEF Range
    <3>5. QED
      BY <2>4, <2>5, <3>1, <3>2, <3>3, <3>4
  <2>9. QED
    BY <2>2, <2>6, <2>7, <2>8
<1>2. QED
  BY <1>1, ResponseInvHolds, PTL

-----------------------------------------------------------------------------
\* The transfers.

Lasting == Minutes \cup {None}
OfferType ==
  [kind : {"private", "scheduled"}, mode : STRING \cup {"minivan", "train", "ferry", "bus"}, price : Nat,
   duration : Lasting, carrier : STRING \cup {""}, departure : Told, roundTrip : BOOLEAN, indicative : BOOLEAN]
QuoteType == [outbound : Seq(Vehicle), back : Seq(Vehicle)]
GroundType == [outbound : Seq(Journey), inbound : Seq(Journey)]

\* A journey of unknown length sorts behind every other.
LEMMA UnknownType == Unknown \in Nat
BY SMT DEF Unknown

LEMMA LastingFacts ==
  /\ Minutes \subseteq Nat /\ None \notin Nat
  /\ \A d \in Lasting : d # None => d \in Nat /\ d < Unknown
BY UnknownType DEF Minutes, None, Lasting

LEMMA PositiveIsNotZero == \A n \in Nat : n > 0 => n # 0
OBVIOUS

\* The numbers of S are among those of T and as low as they go.
Covers(S, T) == S \subseteq T /\ \A t \in T : \E s \in S : s <= t

LEMMA CoversThrough ==
  ASSUME NEW R \in SUBSET Nat, NEW S \in SUBSET Nat, NEW T \in SUBSET Nat, Covers(R, S), Covers(S, T)
  PROVE  Covers(R, T)
<1>1. ASSUME NEW t \in T PROVE \E r \in R : r <= t
  <2>1. PICK m \in S : m <= t
    BY DEF Covers
  <2>2. PICK r \in R : r <= m
    BY DEF Covers
  <2>3. r \in Nat /\ m \in Nat /\ t \in Nat
    OBVIOUS
  <2>4. QED
    BY <2>1, <2>2, <2>3
<1>2. QED
  BY <1>1 DEF Covers

LEMMA CoversBoth ==
  ASSUME NEW R, NEW S, NEW T, NEW U, Covers(R, T), Covers(S, U)
  PROVE  Covers(R \cup S, T \cup U)
BY DEF Covers

LEMMA CoversItself == ASSUME NEW S \in SUBSET Nat PROVE Covers(S, S)
<1>1. \A x \in S : x <= x
  OBVIOUS
<1>2. QED
  BY <1>1 DEF Covers

LEMMA CoversLeast ==
  ASSUME NEW S \in SUBSET Nat, NEW T \in SUBSET Nat, Covers(S, T), T # {}
  PROVE  S # {} /\ Min(S) = Min(T) /\ Min(S) \in S
<1>1. S # {} /\ S \subseteq T
  BY DEF Covers
<1>2. PICK a \in S : a = Min(S) /\ \A x \in S : a <= x
  BY <1>1, LeastOfNats
<1>3. PICK b \in T : b = Min(T) /\ \A x \in T : b <= x
  BY LeastOfNats
<1>4. PICK c \in S : c <= b
  BY DEF Covers
<1>5. a \in Nat /\ b \in Nat /\ c \in Nat /\ a <= c /\ b <= a
  BY <1>1, <1>2, <1>3
<1>6. QED
  BY <1>1, <1>2, <1>3, <1>4, <1>5

\* The prices of a list of offers.
Prices(list) == {list[a].price : a \in 1..Len(list)}

LEMMA PricesType ==
  ASSUME NEW list \in Seq(OfferType)
  PROVE  Prices(list) \in SUBSET Nat /\ (Prices(list) = {} <=> Len(list) = 0)
<1>1. \A a \in 1..Len(list) : list[a].price \in Nat
  <2>1. \A o \in OfferType : o.price \in Nat
    BY DEF OfferType
  <2>2. \A a \in 1..Len(list) : list[a] \in OfferType
    BY ElementsIn
  <2>3. QED
    BY <2>1, <2>2
<1>2. Len(list) # 0 => 1 \in 1..Len(list)
  OBVIOUS
<1>3. Len(list) = 0 => 1..Len(list) = {}
  OBVIOUS
<1>4. QED
  BY <1>1, <1>2, <1>3 DEF Prices

\* A share of more is no less.
LEMMA ShareRises ==
  ASSUME NEW a \in Nat, NEW b \in Nat, NEW p \in Nat \ {0}, a <= b
  PROVE  Share(a, p) <= Share(b, p)
<1>1. PICK m \in Nat \ {0} : m = 2 * p
  OBVIOUS
<1>2. PICK x \in Nat, y \in Nat : x = 2 * a + p /\ y = 2 * b + p /\ x <= y
  OBVIOUS
<1>3. PICK d \in Int : d = x \div m
  OBVIOUS
<1>4. PICK e \in Int : e = y \div m
  OBVIOUS
<1>5. d * m <= x /\ y < e * m + m
  BY <1>3, <1>4, Z3T(60)
<1>6. ASSUME e < d PROVE FALSE
  <2>1. PICK k \in Nat : d = e + 1 + k
    BY <1>6
  <2>2. d * m = e * m + m + k * m
    BY <2>1
  <2>3. k * m >= 0 /\ e * m \in Int /\ k * m \in Int /\ d * m \in Int
    OBVIOUS
  <2>4. QED
    BY <1>2, <1>5, <2>2, <2>3
<1>7. d <= e
  BY <1>6
<1>8. QED
  BY <1>1, <1>2, <1>3, <1>4, <1>7 DEF Share

\* The first of a sorted list has the least first number.
LEMMA SortedFirst ==
  ASSUME NEW T, NEW seq \in Seq(T), Len(seq) # 0,
         NEW w \in Nat \ {0}, NEW key \in [DOMAIN seq -> [1..w -> Int]]
  PROVE  \E l \in 1..Len(seq) : Sorted(seq, key)[1] = seq[l] /\ \A j \in 1..Len(seq) : key[l][1] <= key[j][1]
<1>1. PICK n \in Nat \ {0} : n = Len(seq) /\ DOMAIN seq = 1..n
  BY ElementsIn
<1>2. PICK p : Rearranged(Sorted(seq, key), p, seq, T, key)
  BY SortedIsRearranged
<1>3. PICK s : s = Sorted(seq, key)
  OBVIOUS
<1>4. /\ p \in [1..n -> 1..n] /\ \A a \in 1..n : s[a] = seq[p[a]]
      /\ \A a, b \in 1..n : a < b => GoesBefore(key, p[a], p[b])
      /\ \A m \in 1..n : \E a \in 1..n : p[a] = m
  BY <1>1, <1>2, <1>3 DEF Rearranged
<1>5. 1 \in 1..n
  OBVIOUS
<1>6. PICK l \in 1..n : l = p[1] /\ s[1] = seq[l]
  BY <1>4, <1>5
<1>7. ASSUME NEW j \in 1..n PROVE key[l][1] <= key[j][1]
  <2>1. PICK a \in 1..n : p[a] = j
    BY <1>4
  <2>2. CASE a = 1
    <3>1. key[l] \in [1..w -> Int] /\ 1 \in 1..w
      BY <1>1
    <3>2. key[l][1] \in Int
      BY <3>1
    <3>3. QED
      BY <1>6, <2>1, <2>2, <3>2
  <2>3. CASE 1 < a
    <3>1. GoesBefore(key, l, j)
      BY <1>4, <1>5, <1>6, <2>1, <2>3
    <3>2. PICK D \in SUBSET Int : D = 1..n
      OBVIOUS
    <3>3. key \in [D -> [1..w -> Int]] /\ l \in D /\ j \in D
      BY <1>1, <3>2
    <3>4. QED
      BY <3>1, <3>3, GoesBeforeIsAscending
  <2>4. QED
    BY <2>2, <2>3
<1>8. QED
  BY <1>1, <1>3, <1>6, <1>7

\* A sorted list has the rows that were sorted, and first the least of them.
LeastFirst(s, seq, key) ==
  \E l \in 1..Len(seq) : s[1] = seq[l] /\ \A j \in 1..Len(seq) : key[l][1] <= key[j][1]

LEMMA SortedLeastFirst ==
  ASSUME NEW T, NEW seq \in Seq(T), Len(seq) # 0,
         NEW w \in Nat \ {0}, NEW key \in [DOMAIN seq -> [1..w -> Int]]
  PROVE  SameRows(Sorted(seq, key), seq, T) /\ LeastFirst(Sorted(seq, key), seq, key)
<1>1. w \in Nat
  OBVIOUS
<1>2. SameRows(Sorted(seq, key), seq, T)
  BY <1>1, SortedFacts
<1>3. LeastFirst(Sorted(seq, key), seq, key)
  <2>1. PICK l \in 1..Len(seq) : Sorted(seq, key)[1] = seq[l] /\ \A j \in 1..Len(seq) : key[l][1] <= key[j][1]
    BY SortedFirst
  <2>2. PICK s : s = Sorted(seq, key)
    OBVIOUS
  <2>3. LeastFirst(s, seq, key)
    BY <2>1, <2>2 DEF LeastFirst
  <2>4. QED
    BY <2>2, <2>3
<1>4. QED
  BY <1>2, <1>3

\* What a vehicle there costs with the cheapest back, if there is one.
HirePrice(v, back, group) == Share(v.price + (IF back = None THEN v.price ELSE back), group)

\* A vehicle that seats the party is offered, and nothing else is.
LEMMA PrivateFacts ==
  ASSUME NEW quote \in QuoteType, NEW group \in Nat \ {0}
  PROVE  LET own == PrivateOptions(quote, group) IN
         /\ own \in Seq(OfferType)
         /\ \A a \in 1..Len(own) : own[a].kind = "private" /\ \E k \in 1..Len(quote.outbound) :
              own[a].carrier = quote.outbound[k].name /\ quote.outbound[k].seats >= group
         /\ \A k \in 1..Len(quote.outbound) :
              quote.outbound[k].seats >= group /\ quote.outbound[k].duration > 0 =>
                \E a \in 1..Len(own) : own[a].duration = quote.outbound[k].duration
         /\ Prices(own) = {HirePrice(v, CheapestVehicle(quote.back, group), group) :
                            v \in {v \in Range(quote.outbound) : v.seats >= group}}
<1>1. PICK vehicles \in Seq(Vehicle) : vehicles = quote.outbound
  BY DEF QuoteType
<1>2. DOMAIN vehicles = 1..Len(vehicles) /\ \A k \in 1..Len(vehicles) : vehicles[k] \in Vehicle
  BY ElementsIn
<1>3. PICK back \in Told : back = CheapestVehicle(quote.back, group)
  <2>1. PICK ways \in Seq(Vehicle) : ways = quote.back
    BY DEF QuoteType
  <2>2. DOMAIN ways = 1..Len(ways) /\ \A k \in DOMAIN ways : ways[k] \in Vehicle
    BY ElementsIn
  <2>3. PICK prices \in SUBSET Nat : prices = {ways[i].price : i \in {i \in DOMAIN ways : ways[i].seats >= group}}
    BY <2>2 DEF Vehicle
  <2>4. Least0(prices) \in Told
    BY Least0Type
  <2>5. QED
    BY <2>1, <2>3, <2>4 DEF CheapestVehicle
<1> DEFINE S == {k \in DOMAIN vehicles : vehicles[k].seats >= group}
           fitting == At(vehicles, S)
           Both(v) == v.price + (IF back = None THEN v.price ELSE back)
           OptionOf(v) == Option("private", "minivan", Share(Both(v), group),
                                 IF v.duration = 0 THEN None ELSE v.duration, v.name, None, TRUE, FALSE)
           own == [a \in DOMAIN fitting |-> OptionOf(fitting[a])]
<1>4. PrivateOptions(quote, group) = own
  BY <1>1, <1>3 DEF PrivateOptions, Mapped, Where
<1>5. ASSUME NEW v \in Vehicle
      PROVE  /\ OptionOf(v) \in OfferType /\ OptionOf(v).kind = "private" /\ OptionOf(v).carrier = v.name
             /\ v.duration > 0 => OptionOf(v).duration = v.duration
             /\ OptionOf(v).price = HirePrice(v, back, group)
  <2>1. v.price \in Nat /\ v.duration \in Minutes /\ v.name \in STRING
    BY DEF Vehicle
  <2>2. PICK price \in Nat : price = Share(Both(v), group)
    <3>1. Both(v) \in Nat
      BY <2>1 DEF Told, None
    <3>2. Share(Both(v), group) \in Nat
      BY <3>1, ShareOfNat
    <3>3. QED
      BY <3>2
  <2>3. PICK duration \in Lasting : duration = IF v.duration = 0 THEN None ELSE v.duration
    BY <2>1 DEF Lasting
  <2>4. PICK name \in STRING \cup {""} : name = v.name
    BY <2>1
  <2>5. PICK departure \in Told, mode \in STRING \cup {"minivan", "train", "ferry", "bus"} :
           departure = None /\ mode = "minivan"
    BY DEF Told
  <2>6. PICK offer : offer = [kind |-> "private", mode |-> mode, price |-> price, duration |-> duration,
                              carrier |-> name, departure |-> departure, roundTrip |-> TRUE, indicative |-> FALSE]
    OBVIOUS
  <2>7. OptionOf(v) = offer
    BY <2>2, <2>3, <2>4, <2>5, <2>6 DEF Option
  <2>8. offer \in OfferType
    BY <2>6 DEF OfferType
  <2>9. /\ offer.kind = "private" /\ offer.carrier = v.name /\ offer.duration = duration
        /\ offer.price = HirePrice(v, back, group)
    BY <2>2, <2>4, <2>6 DEF HirePrice
  <2>10. v.duration > 0 => duration = v.duration
    <3>1. PICK minutes \in Nat : minutes = v.duration
      BY <2>1, LastingFacts
    <3>2. minutes > 0 => minutes # 0
      BY PositiveIsNotZero
    <3>3. QED
      BY <2>3, <3>1, <3>2
  <2>11. QED
    BY <2>7, <2>8, <2>9, <2>10
<1> HIDE DEF OptionOf
<1>6. \A k : k \in S <=> k \in 1..Len(vehicles) /\ vehicles[k].seats >= group
  BY <1>2
<1> HIDE DEF S
<1>7. fitting \in Seq(Vehicle)
  BY AtFacts
<1>8. \A a \in 1..Len(fitting) : \E k \in 1..Len(vehicles) : k \in S /\ fitting[a] = vehicles[k]
  BY AtFacts, SMTT(30)
<1>9. \A k \in 1..Len(vehicles) : k \in S => \E a \in 1..Len(fitting) : fitting[a] = vehicles[k]
  BY AtHas
<1> HIDE DEF fitting
<1>10. DOMAIN fitting = 1..Len(fitting) /\ \A a \in 1..Len(fitting) : fitting[a] \in Vehicle
  BY <1>7, ElementsIn
<1>11. \A a \in 1..Len(fitting) : own[a] = OptionOf(fitting[a])
  BY <1>10
<1>12. own \in [DOMAIN fitting -> OfferType]
  BY <1>5, <1>10
<1> HIDE DEF own
<1>13. own \in Seq(OfferType) /\ Len(own) = Len(fitting)
  BY <1>7, <1>12, SameLength
<1>14. ASSUME NEW a \in 1..Len(own)
       PROVE  own[a].kind = "private" /\ \E k \in 1..Len(vehicles) :
                own[a].carrier = vehicles[k].name /\ vehicles[k].seats >= group
  <2>1. PICK k \in 1..Len(vehicles) : k \in S /\ fitting[a] = vehicles[k]
    BY <1>8, <1>13
  <2>2. own[a] = OptionOf(vehicles[k])
    BY <1>11, <1>13, <2>1
  <2>3. QED
    BY <1>2, <1>5, <1>6, <2>1, <2>2
<1>15. ASSUME NEW k \in 1..Len(vehicles), vehicles[k].seats >= group, vehicles[k].duration > 0
       PROVE  \E a \in 1..Len(own) : own[a].duration = vehicles[k].duration
  <2>1. PICK a \in 1..Len(fitting) : fitting[a] = vehicles[k]
    BY <1>6, <1>9, <1>15
  <2>2. own[a] = OptionOf(vehicles[k])
    BY <1>11, <2>1
  <2>3. QED
    BY <1>2, <1>5, <1>13, <1>15, <2>2
<1>16. Prices(own) = {HirePrice(v, back, group) : v \in {v \in Range(vehicles) : v.seats >= group}}
  <2>1. ASSUME NEW a \in 1..Len(own)
        PROVE  \E k \in 1..Len(vehicles) :
                 vehicles[k].seats >= group /\ own[a].price = HirePrice(vehicles[k], back, group)
    <3>1. PICK k \in 1..Len(vehicles) : k \in S /\ fitting[a] = vehicles[k]
      BY <1>8, <1>13
    <3>2. own[a] = OptionOf(vehicles[k])
      BY <1>11, <1>13, <3>1
    <3>3. QED
      BY <1>2, <1>5, <1>6, <3>1, <3>2
  <2>2. ASSUME NEW k \in 1..Len(vehicles), vehicles[k].seats >= group
        PROVE  \E a \in 1..Len(own) : own[a].price = HirePrice(vehicles[k], back, group)
    <3>1. PICK a \in 1..Len(fitting) : fitting[a] = vehicles[k]
      BY <1>6, <1>9, <2>2
    <3>2. own[a] = OptionOf(vehicles[k])
      BY <1>11, <3>1
    <3>3. QED
      BY <1>2, <1>5, <1>13, <3>2
  <2>3. \A v : v \in Range(vehicles) <=> \E k \in 1..Len(vehicles) : v = vehicles[k]
    BY <1>2 DEF Range
  <2>4. \A x \in Prices(own) : \E v \in Range(vehicles) : v.seats >= group /\ x = HirePrice(v, back, group)
    BY <2>1, <2>3 DEF Prices
  <2>5. \A v \in Range(vehicles) : v.seats >= group => HirePrice(v, back, group) \in Prices(own)
    BY <2>2, <2>3 DEF Prices
  <2>6. QED
    BY <2>4, <2>5
<1>17. QED
  BY <1>1, <1>3, <1>4, <1>13, <1>14, <1>15, <1>16

\* The cheapest vehicles of both ways make the cheapest hire, and a price
\* told twice is one of those to be had when there is no way back.
LEMMA HireFacts ==
  ASSUME NEW quote \in QuoteType, NEW group \in Nat \ {0}
  PROVE  LET offered == HirePrices(quote.outbound, quote.back, group)
         IN  offered \in SUBSET Nat /\ Covers(Prices(PrivateOptions(quote, group)), offered)
<1>1. PICK vehicles \in Seq(Vehicle), ways \in Seq(Vehicle) : vehicles = quote.outbound /\ ways = quote.back
  BY DEF QuoteType
<1>2. PICK F \in SUBSET Vehicle, B \in SUBSET Vehicle :
        F = {v \in Range(vehicles) : v.seats >= group} /\ B = {v \in Range(ways) : v.seats >= group}
  <2>1. Range(vehicles) \subseteq Vehicle /\ Range(ways) \subseteq Vehicle
    BY ElementsIn DEF Range
  <2>2. QED
    BY <2>1
<1>3. \A v \in Vehicle : v.price \in Nat
  BY DEF Vehicle
<1>4. PICK prices \in SUBSET Nat : prices = {b.price : b \in B}
  BY <1>3
<1>5. PICK back : back = CheapestVehicle(quote.back, group)
  OBVIOUS
<1>6. back = Least0(prices)
  <2>1. DOMAIN ways = 1..Len(ways)
    BY ElementsIn
  <2>2. {ways[i].price : i \in {i \in DOMAIN ways : ways[i].seats >= group}} = prices
    BY <1>2, <1>4 DEF Range
  <2>3. QED
    BY <1>1, <1>5, <2>2 DEF CheapestVehicle
<1>7. Prices(PrivateOptions(quote, group)) = {HirePrice(v, back, group) : v \in F}
  BY <1>1, <1>2, <1>5, PrivateFacts
<1>8. HirePrices(quote.outbound, quote.back, group) =
        IF B = {} THEN {Share(2 * v.price, group) : v \in F}
        ELSE {Share(p[1].price + p[2].price, group) : p \in F \X B}
  BY <1>1, <1>2 DEF HirePrices
<1>9. CASE B = {}
  <2>1. back = None
    BY <1>4, <1>6, <1>9 DEF Least0
  <2>2. \A v \in F : HirePrice(v, back, group) = Share(2 * v.price, group) /\ Share(2 * v.price, group) \in Nat
    <3>1. SUFFICES ASSUME NEW v \in F
                   PROVE  HirePrice(v, back, group) = Share(2 * v.price, group) /\ Share(2 * v.price, group) \in Nat
      OBVIOUS
    <3>2. PICK price \in Nat, twice \in Nat : price = v.price /\ twice = 2 * price /\ twice = price + price
      BY <1>3
    <3>3. Share(twice, group) \in Nat
      BY ShareOfNat
    <3>4. QED
      BY <2>1, <3>2, <3>3 DEF HirePrice
  <2>3. PICK offered \in SUBSET Nat : offered = {Share(2 * v.price, group) : v \in F}
    BY <2>2
  <2>4. Prices(PrivateOptions(quote, group)) = offered
    BY <1>7, <2>2, <2>3
  <2>5. HirePrices(quote.outbound, quote.back, group) = offered
    BY <1>8, <1>9, <2>3
  <2>6. Covers(offered, offered)
    BY CoversItself
  <2>7. QED
    BY <2>4, <2>5, <2>6
<1>10. CASE B # {}
  <2>1. prices # {}
    BY <1>4, <1>10
  <2>2. back \in prices /\ back \in Nat /\ \A x \in prices : back <= x
    BY <1>6, <2>1, Least0Type
  <2>3. PICK cheapest \in B : back = cheapest.price
    BY <1>4, <2>2
  <2>4. ASSUME NEW v \in F, NEW b \in B
        PROVE  /\ Share(v.price + b.price, group) \in Nat
               /\ HirePrice(v, back, group) = Share(v.price + back, group)
               /\ Share(v.price + back, group) <= Share(v.price + b.price, group)
    <3>1. PICK x \in Nat, y \in Nat : x = v.price + back /\ y = v.price + b.price /\ x <= y
      BY <1>3, <1>4, <2>2
    <3>2. Share(y, group) \in Nat /\ Share(x, group) <= Share(y, group)
      BY <3>1, ShareOfNat, ShareRises
    <3>3. back # None
      BY <2>2 DEF None
    <3>4. QED
      BY <3>1, <3>2, <3>3 DEF HirePrice
  <2>5. PICK offered : offered = {Share(p[1].price + p[2].price, group) : p \in F \X B}
    OBVIOUS
  <2>6. \A v \in F : \A b \in B : Share(v.price + b.price, group) \in offered
    <3>1. SUFFICES ASSUME NEW v \in F, NEW b \in B PROVE Share(v.price + b.price, group) \in offered
      OBVIOUS
    <3>2. PICK p \in F \X B : p[1] = v /\ p[2] = b
      <4>1. <<v, b>> \in F \X B
        OBVIOUS
      <4>2. QED
        BY <4>1
    <3>3. QED
      BY <2>5, <3>2
  <2>7. \A t \in offered : \E v \in F : \E b \in B : t = Share(v.price + b.price, group)
    <3>1. \A p \in F \X B : p[1] \in F /\ p[2] \in B
      OBVIOUS
    <3>2. QED
      BY <2>5, <3>1
  <2>8. offered \in SUBSET Nat
    BY <2>4, <2>7
  <2>9. \A v \in F : HirePrice(v, back, group) \in offered
    BY <2>3, <2>4, <2>6
  <2>10. \A t \in offered : \E v \in F : HirePrice(v, back, group) <= t
    BY <2>4, <2>7
  <2>11. HirePrices(quote.outbound, quote.back, group) = offered
    BY <1>8, <1>10, <2>5
  <2>12. QED
    BY <1>7, <2>8, <2>9, <2>10, <2>11 DEF Covers
<1>11. QED
  BY <1>9, <1>10

\* A departure with its price a head.
Each(j, group) == [j EXCEPT !.price = Share(@, group)]

\* Every departure with a price is kept, with what it costs each.
LEMMA DeparturesFacts ==
  ASSUME NEW journeys \in Seq(Journey), NEW group \in Nat \ {0}
  PROVE  LET priced == Priced(journeys, group) IN
         /\ priced \in Seq(Journey)
         /\ \A k \in 1..Len(journeys) : journeys[k].price > 0 =>
              \E a \in 1..Len(priced) : priced[a] = Each(journeys[k], group)
         /\ \A a \in 1..Len(priced) : \E k \in 1..Len(journeys) :
              journeys[k].price > 0 /\ priced[a] = Each(journeys[k], group)
         /\ \A j \in Journey : /\ Each(j, group) \in Journey /\ Each(j, group).duration = j.duration
                               /\ Each(j, group).mode = j.mode /\ Each(j, group).price = Share(j.price, group)
                               /\ Share(j.price, group) \in Nat
<1> DEFINE S == {k \in DOMAIN journeys : journeys[k].price > 0}
           kept == At(journeys, S)
           priced == [a \in DOMAIN kept |-> Each(kept[a], group)]
<1>1. Priced(journeys, group) = priced
  BY DEF Priced, Mapped, Where, Each
<1>2. DOMAIN journeys = 1..Len(journeys) /\ \A k \in 1..Len(journeys) : journeys[k] \in Journey
  BY ElementsIn
<1>3. ASSUME NEW j \in Journey
      PROVE  /\ Each(j, group) \in Journey /\ Each(j, group).duration = j.duration
             /\ Each(j, group).mode = j.mode /\ Each(j, group).price = Share(j.price, group)
             /\ Share(j.price, group) \in Nat
  <2>1. j.price \in Nat
    BY DEF Journey
  <2>2. PICK price \in Nat : price = Share(j.price, group)
    BY <2>1, ShareOfNat
  <2>3. PICK k : k = [j EXCEPT !.price = price]
    OBVIOUS
  <2>4. Each(j, group) = k
    BY <2>2, <2>3 DEF Each
  <2>5. k \in Journey /\ k.duration = j.duration /\ k.mode = j.mode /\ k.price = price
    BY <2>3 DEF Journey
  <2>6. QED
    BY <2>2, <2>4, <2>5
<1>4. \A k : k \in S <=> k \in 1..Len(journeys) /\ journeys[k].price > 0
  BY <1>2
<1> HIDE DEF S
<1>5. kept \in Seq(Journey)
  BY AtFacts
<1>6. /\ \A k \in 1..Len(journeys) : k \in S => \E a \in 1..Len(kept) : kept[a] = journeys[k]
      /\ \A a \in 1..Len(kept) : \E k \in 1..Len(journeys) : k \in S /\ kept[a] = journeys[k]
  BY AtFacts
<1> HIDE DEF kept
<1>7. DOMAIN kept = 1..Len(kept) /\ \A a \in 1..Len(kept) : kept[a] \in Journey
  BY <1>5, ElementsIn
<1>8. \A a \in 1..Len(kept) : priced[a] = Each(kept[a], group)
  BY <1>7
<1>9. priced \in [DOMAIN kept -> Journey]
  BY <1>3, <1>7
<1> HIDE DEF priced
<1>10. priced \in Seq(Journey) /\ Len(priced) = Len(kept)
  BY <1>5, <1>9, SameLength
<1>11. ASSUME NEW k \in 1..Len(journeys), journeys[k].price > 0
       PROVE  \E a \in 1..Len(priced) : priced[a] = Each(journeys[k], group)
  <2>1. PICK a \in 1..Len(kept) : kept[a] = journeys[k]
    BY <1>4, <1>6, <1>11
  <2>2. priced[a] = Each(journeys[k], group)
    BY <1>8, <2>1
  <2>3. QED
    BY <1>10, <2>2
<1>12. ASSUME NEW a \in 1..Len(priced)
       PROVE  \E k \in 1..Len(journeys) : journeys[k].price > 0 /\ priced[a] = Each(journeys[k], group)
  <2>1. PICK k \in 1..Len(journeys) : k \in S /\ kept[a] = journeys[k]
    BY <1>6, <1>10
  <2>2. priced[a] = Each(journeys[k], group)
    BY <1>8, <1>10, <2>1
  <2>3. QED
    BY <1>4, <2>1, <2>2
<1>13. QED
  BY <1>1, <1>3, <1>10, <1>11, <1>12

\* What the returns of the mode of a departure cost a head, and what it costs
\* with the cheapest of them.
Returning(ground, group, mode) ==
  {Share(r.price, group) : r \in {r \in Range(ground.inbound) : r.price > 0 /\ r.mode = mode}}
SeatPrice(ground, group, j) ==
  LET fares == Returning(ground, group, j.mode)
  IN  Share(j.price, group) + (IF Least0(fares) = None THEN 0 ELSE Least0(fares))

\* For every departure with a price a service is offered that takes as long.
LEMMA ScheduledFacts ==
  ASSUME NEW ground \in GroundType, NEW group \in Nat \ {0}
  PROVE  LET list == ScheduledOptions(ground, group) IN
         /\ list \in Seq(OfferType)
         /\ \A a \in 1..Len(list) : list[a].kind = "scheduled"
         /\ \A k \in 1..Len(ground.outbound) : ground.outbound[k].price > 0 =>
              \E a \in 1..Len(list) : list[a].duration = ground.outbound[k].duration
         /\ Prices(list) = {SeatPrice(ground, group, j) : j \in {j \in Range(ground.outbound) : j.price > 0}}
<1>1. PICK journeys \in Seq(Journey), returns \in Seq(Journey) : journeys = ground.outbound /\ returns = ground.inbound
  BY DEF GroundType
<1>2. PICK priced \in Seq(Journey) : priced = Priced(journeys, group)
  BY DeparturesFacts
<1>3. PICK back \in Seq(Journey) : back = Priced(returns, group)
  BY DeparturesFacts
<1>4. DOMAIN back = 1..Len(back) /\ \A k \in DOMAIN back : back[k] \in Journey
  BY ElementsIn
<1> DEFINE Return(j) == Least0({back[i].price : i \in {i \in DOMAIN back : back[i].mode = j.mode}})
           OptionOf(j) ==
             Option("scheduled", j.mode, j.price + (IF Return(j) = None THEN 0 ELSE Return(j)),
                    j.duration, j.carrier, j.departure, Return(j) # None, FALSE)
           list == [a \in DOMAIN priced |-> OptionOf(priced[a])]
<1>5. ScheduledOptions(ground, group) = list
  BY <1>1, <1>2, <1>3 DEF ScheduledOptions, Mapped
<1>6. ASSUME NEW j \in Journey
      PROVE  /\ OptionOf(j) \in OfferType /\ OptionOf(j).kind = "scheduled" /\ OptionOf(j).duration = j.duration
             /\ OptionOf(j).price = j.price + (IF Return(j) = None THEN 0 ELSE Return(j))
  <2>1. PICK fares \in SUBSET Nat : fares = {back[i].price : i \in {i \in DOMAIN back : back[i].mode = j.mode}}
    BY <1>4 DEF Journey
  <2>2. PICK return \in Told : return = Return(j)
    <3>1. Least0(fares) \in Told
      BY Least0Type
    <3>2. QED
      BY <2>1, <3>1
  <2> HIDE DEF Return
  <2>3. PICK price \in Nat : price = j.price + (IF return = None THEN 0 ELSE return)
    BY DEF Journey, Told
  <2>4. PICK mode \in STRING \cup {"minivan", "train", "ferry", "bus"}, duration \in Lasting,
             carrier \in STRING \cup {""}, departure \in Told, both \in BOOLEAN :
           /\ mode = j.mode /\ duration = j.duration /\ carrier = j.carrier /\ departure = j.departure
           /\ both = (return # None)
    BY DEF Journey, Lasting, Told
  <2>5. PICK offer : offer = [kind |-> "scheduled", mode |-> mode, price |-> price, duration |-> duration,
                              carrier |-> carrier, departure |-> departure, roundTrip |-> both, indicative |-> FALSE]
    OBVIOUS
  <2>6. OptionOf(j) = offer
    BY <2>2, <2>3, <2>4, <2>5 DEF Option
  <2>7. offer \in OfferType
    BY <2>5 DEF OfferType
  <2>8. offer.kind = "scheduled" /\ offer.duration = j.duration /\ offer.price = price
    BY <2>4, <2>5
  <2>9. QED
    BY <2>2, <2>3, <2>6, <2>7, <2>8
<1> HIDE DEF OptionOf
<1>7. ASSUME NEW j \in Journey
      PROVE  Each(j, group) \in Journey /\ OptionOf(Each(j, group)).price = SeatPrice(ground, group, j)
  <2>1. PICK own \in Journey : own = Each(j, group) /\ own.mode = j.mode /\ own.price = Share(j.price, group)
    BY <1>1, DeparturesFacts
  <2>2. PICK fares : fares = Returning(ground, group, j.mode)
    OBVIOUS
  <2>3. {back[i].price : i \in {i \in DOMAIN back : back[i].mode = own.mode}} = fares
    <3>1. ASSUME NEW i \in DOMAIN back, back[i].mode = own.mode PROVE back[i].price \in fares
      <4>1. PICK k \in 1..Len(returns) : returns[k].price > 0 /\ back[i] = Each(returns[k], group)
        BY <1>3, <1>4, DeparturesFacts
      <4>2. returns[k] \in Journey /\ returns[k] \in Range(returns)
        BY ElementsIn DEF Range
      <4>3. back[i].mode = returns[k].mode /\ back[i].price = Share(returns[k].price, group)
        BY <1>3, <4>1, <4>2, DeparturesFacts
      <4>4. QED
        BY <1>1, <2>1, <2>2, <3>1, <4>1, <4>2, <4>3 DEF Returning
    <3>2. ASSUME NEW r \in Range(returns), r.price > 0, r.mode = j.mode
          PROVE  \E i \in DOMAIN back : back[i].mode = own.mode /\ back[i].price = Share(r.price, group)
      <4>1. PICK k \in 1..Len(returns) : r = returns[k] /\ r \in Journey
        BY ElementsIn DEF Range
      <4>2. PICK i \in 1..Len(back) : back[i] = Each(r, group)
        <5>1. returns[k].price > 0
          BY <3>2, <4>1
        <5>2. PICK i \in 1..Len(back) : back[i] = Each(returns[k], group)
          BY <1>3, <5>1, DeparturesFacts
        <5>3. QED
          BY <4>1, <5>2
      <4>3. back[i].mode = r.mode /\ back[i].price = Share(r.price, group)
        BY <1>3, <4>1, <4>2, DeparturesFacts
      <4>4. QED
        BY <1>4, <2>1, <3>2, <4>2, <4>3
    <3>3. \A x \in fares : \E r \in Range(returns) : r.price > 0 /\ r.mode = j.mode /\ x = Share(r.price, group)
      BY <1>1, <2>2 DEF Returning
    <3>4. QED
      BY <3>1, <3>2, <3>3
  <2>4. Return(own) = Least0(fares)
    BY <2>3
  <2>5. OptionOf(own).price = own.price + (IF Return(own) = None THEN 0 ELSE Return(own))
    BY <1>6
  <2>6. QED
    BY <2>1, <2>2, <2>4, <2>5 DEF SeatPrice
<1> HIDE DEF Return
<1>8. DOMAIN priced = 1..Len(priced) /\ \A a \in 1..Len(priced) : priced[a] \in Journey
  BY ElementsIn
<1>9. \A a \in 1..Len(priced) : list[a] = OptionOf(priced[a])
  BY <1>8
<1>10. list \in [DOMAIN priced -> OfferType]
  BY <1>6, <1>8
<1> HIDE DEF list
<1>11. list \in Seq(OfferType) /\ Len(list) = Len(priced)
  BY <1>10, SameLength
<1>12. ASSUME NEW a \in 1..Len(list)
       PROVE  list[a].kind = "scheduled" /\ list[a].duration = priced[a].duration /\ list[a] = OptionOf(priced[a])
  <2>1. priced[a] \in Journey /\ list[a] = OptionOf(priced[a])
    BY <1>8, <1>9, <1>11
  <2>2. QED
    BY <1>6, <2>1
<1>13. ASSUME NEW k \in 1..Len(journeys), journeys[k].price > 0
       PROVE  \E a \in 1..Len(list) : list[a].duration = journeys[k].duration
  <2>1. PICK a \in 1..Len(priced) : priced[a] = Each(journeys[k], group)
    BY <1>2, <1>13, DeparturesFacts
  <2>2. Each(journeys[k], group).duration = journeys[k].duration
    BY ElementsIn, DeparturesFacts
  <2>3. QED
    BY <1>11, <1>12, <2>1, <2>2
<1>14. Prices(list) = {SeatPrice(ground, group, j) : j \in {j \in Range(journeys) : j.price > 0}}
  <2>1. ASSUME NEW a \in 1..Len(list)
        PROVE  \E j \in Range(journeys) : j.price > 0 /\ list[a].price = SeatPrice(ground, group, j)
    <3>1. PICK k \in 1..Len(journeys) : journeys[k].price > 0 /\ priced[a] = Each(journeys[k], group)
      BY <1>2, <1>11, DeparturesFacts
    <3>2. journeys[k] \in Journey /\ journeys[k] \in Range(journeys)
      BY ElementsIn DEF Range
    <3>3. QED
      BY <1>12, <1>7, <3>1, <3>2
  <2>2. ASSUME NEW j \in Range(journeys), j.price > 0
        PROVE  \E a \in 1..Len(list) : list[a].price = SeatPrice(ground, group, j)
    <3>1. PICK k \in 1..Len(journeys) : j = journeys[k] /\ j \in Journey
      BY ElementsIn DEF Range
    <3>2. PICK a \in 1..Len(priced) : priced[a] = Each(j, group)
      <4>1. journeys[k].price > 0
        BY <2>2, <3>1
      <4>2. PICK a \in 1..Len(priced) : priced[a] = Each(journeys[k], group)
        BY <1>2, <4>1, DeparturesFacts
      <4>3. QED
        BY <3>1, <4>2
    <3>3. QED
      BY <1>11, <1>12, <1>7, <3>1, <3>2
  <2>3. QED
    BY <2>1, <2>2 DEF Prices
<1>15. QED
  BY <1>1, <1>5, <1>11, <1>12, <1>13, <1>14

\* The cheapest return of its mode makes a departure as cheap as it gets.
LEMMA SeatFacts ==
  ASSUME NEW ground \in GroundType, NEW group \in Nat \ {0}
  PROVE  LET offered == SeatPrices(ground, group)
         IN  offered \in SUBSET Nat /\ Covers(Prices(ScheduledOptions(ground, group)), offered)
<1>1. PICK journeys \in Seq(Journey), returns \in Seq(Journey) : journeys = ground.outbound /\ returns = ground.inbound
  BY DEF GroundType
<1>2. PICK away \in SUBSET Journey, in \in SUBSET Journey :
        away = {j \in Range(journeys) : j.price > 0} /\ in = {j \in Range(returns) : j.price > 0}
  <2>1. Range(journeys) \subseteq Journey /\ Range(returns) \subseteq Journey
    BY ElementsIn DEF Range
  <2>2. QED
    BY <2>1
<1>3. \A j \in Journey : Share(j.price, group) \in Nat
  <2>1. \A j \in Journey : j.price \in Nat
    BY DEF Journey
  <2>2. QED
    BY <2>1, ShareOfNat
<1> DEFINE Returns(j) == {r \in in : r.mode = j.mode}
           Alone == {Share(j.price, group) : j \in {j \in away : Returns(j) = {}}}
           Both == {Share(p[1].price, group) + Share(p[2].price, group) :
                      p \in {p \in away \X in : p[2] \in Returns(p[1])}}
<1>4. SeatPrices(ground, group) = Alone \cup Both
  BY <1>1, <1>2 DEF SeatPrices
<1>5. Prices(ScheduledOptions(ground, group)) = {SeatPrice(ground, group, j) : j \in away}
  BY <1>1, <1>2, ScheduledFacts
<1>6. ASSUME NEW j \in away
      PROVE  Returning(ground, group, j.mode) = {Share(r.price, group) : r \in Returns(j)}
  BY <1>1, <1>2 DEF Returning
<1>7. \A x \in Both : \E j \in away : \E r \in Returns(j) : x = Share(j.price, group) + Share(r.price, group)
  <2>1. \A p \in away \X in : p[1] \in away /\ p[2] \in in
    OBVIOUS
  <2>2. QED
    BY <2>1
<1>8. \A j \in away : \A r \in Returns(j) : Share(j.price, group) + Share(r.price, group) \in Both
  <2> SUFFICES ASSUME NEW j \in away, NEW r \in Returns(j)
               PROVE  Share(j.price, group) + Share(r.price, group) \in Both
    OBVIOUS
  <2>1. <<j, r>> \in away \X in
    OBVIOUS
  <2>2. PICK p \in away \X in : p[1] = j /\ p[2] = r
    BY <2>1
  <2>3. QED
    BY <2>2
<1>9. \A x \in Alone : \E j \in away : Returns(j) = {} /\ x = Share(j.price, group)
  OBVIOUS
<1>10. \A j \in away : Returns(j) = {} => Share(j.price, group) \in Alone
  OBVIOUS
<1> HIDE DEF Alone, Both
<1>11. Alone \cup Both \in SUBSET Nat
  <2>1. \A x \in Alone : x \in Nat
    BY <1>3, <1>9
  <2>2. \A x \in Both : x \in Nat
    <3>1. SUFFICES ASSUME NEW x \in Both PROVE x \in Nat
      OBVIOUS
    <3>2. PICK j \in away, r \in in : x = Share(j.price, group) + Share(r.price, group)
      BY <1>7
    <3>3. Share(j.price, group) \in Nat /\ Share(r.price, group) \in Nat
      BY <1>3
    <3>4. QED
      BY <3>2, <3>3
  <2>3. QED
    BY <2>1, <2>2
<1>12. ASSUME NEW j \in away, Returns(j) = {}
       PROVE  SeatPrice(ground, group, j) = Share(j.price, group)
  <2>1. Returning(ground, group, j.mode) = {}
    BY <1>6, <1>12
  <2>2. Least0(Returning(ground, group, j.mode)) = None
    BY <2>1 DEF Least0
  <2>3. PICK x \in Nat : x = Share(j.price, group)
    BY <1>3
  <2>4. QED
    BY <2>2, <2>3 DEF SeatPrice
<1>13. ASSUME NEW j \in away, NEW q \in Returns(j)
       PROVE  /\ \E r \in Returns(j) : SeatPrice(ground, group, j) = Share(j.price, group) + Share(r.price, group)
              /\ SeatPrice(ground, group, j) <= Share(j.price, group) + Share(q.price, group)
  <2>1. PICK fares \in SUBSET Nat : fares = {Share(r.price, group) : r \in Returns(j)}
    BY <1>3
  <2>2. Share(q.price, group) \in fares
    BY <2>1
  <2>3. PICK least \in fares : least = Least0(fares) /\ least <= Share(q.price, group)
    BY <2>2, Least0Type
  <2>4. PICK r \in Returns(j) : least = Share(r.price, group)
    BY <2>1
  <2>5. PICK x \in Nat, y \in Nat : x = Share(j.price, group) /\ y = Share(q.price, group)
    BY <1>3
  <2>6. least # None
    BY DEF None
  <2>7. SeatPrice(ground, group, j) = x + least
    BY <1>6, <2>1, <2>3, <2>5, <2>6 DEF SeatPrice
  <2>8. QED
    BY <2>3, <2>4, <2>5, <2>7
<1>14. ASSUME NEW j \in away PROVE SeatPrice(ground, group, j) \in Alone \cup Both
  <2>1. CASE Returns(j) = {}
    BY <1>10, <1>12, <2>1
  <2>2. CASE Returns(j) # {}
    BY <1>8, <1>13, <2>2
  <2>3. QED
    BY <2>1, <2>2
<1>15. ASSUME NEW x \in Alone \cup Both PROVE \E j \in away : SeatPrice(ground, group, j) <= x
  <2>1. CASE x \in Alone
    <3>1. PICK j \in away : Returns(j) = {} /\ x = Share(j.price, group)
      BY <1>9, <2>1
    <3>2. SeatPrice(ground, group, j) = x /\ x \in Nat
      BY <1>3, <1>12, <3>1
    <3>3. QED
      BY <3>2
  <2>2. CASE x \in Both
    BY <1>7, <1>13, <2>2
  <2>3. QED
    BY <2>1, <2>2
<1>16. QED
  BY <1>4, <1>5, <1>11, <1>14, <1>15 DEF Covers

\* Of the routes without a date the cheapest is listed.
LEMMA IndicativeFacts ==
  ASSUME NEW routes \in Seq(Rome2RioRoute)
  PROVE  LET list == IndicativeOptions(routes) IN
         /\ list \in Seq(OfferType)
         /\ \A a \in 1..Len(list) : list[a].kind = "scheduled"
         /\ UndatedPrices(routes) \in SUBSET Nat /\ Covers(Prices(list), UndatedPrices(routes))
<1> DEFINE S == {k \in DOMAIN routes : routes[k].legs \cap {"fly", "flight"} = {} /\ routes[k].low # None}
           Real == {r \in Rome2RioRoute : r.low # None}
           real == At(routes, S)
           number == [i \in DOMAIN real |-> real[i].low]
           key == [i \in DOMAIN real |-> <<real[i].low>>]
           sorted == Sorted(real, key)
           cheapest == Take(sorted, RoutesShown)
           OptionOf(r) == Option("scheduled", RouteMode(r.legs), r.low, r.duration, r.name, None, FALSE, TRUE)
           list == [a \in DOMAIN cheapest |-> OptionOf(cheapest[a])]
<1>1. IndicativeOptions(routes) = list
  BY DEF IndicativeOptions, Mapped, Where, SortedBy
<1>2. real \in Seq(Real)
  <2>1. \A k \in 1..Len(routes) : k \in S => routes[k] \in Real
    BY ElementsIn
  <2> HIDE DEF S, Real
  <2>2. QED
    BY <2>1, AtIn
<1>3. \A r \in Real : r.low \in Nat
  BY DEF Rome2RioRoute
<1>4. ASSUME NEW r \in Real
      PROVE  OptionOf(r) \in OfferType /\ OptionOf(r).kind = "scheduled" /\ OptionOf(r).price = r.low
  <2>1. PICK price \in Nat : price = r.low
    BY <1>3
  <2>2. PICK duration \in Lasting : duration = r.duration
    BY DEF Rome2RioRoute, Lasting
  <2>3. PICK mode \in STRING \cup {"minivan", "train", "ferry", "bus"}, carrier \in STRING \cup {""}, departure \in Told :
           mode = RouteMode(r.legs) /\ carrier = r.name /\ departure = None
    BY DEF RouteMode, Told, Rome2RioRoute
  <2>4. PICK offer : offer = [kind |-> "scheduled", mode |-> mode, price |-> price, duration |-> duration,
                              carrier |-> carrier, departure |-> departure, roundTrip |-> FALSE, indicative |-> TRUE]
    OBVIOUS
  <2>5. OptionOf(r) = offer
    BY <2>1, <2>2, <2>3, <2>4 DEF Option
  <2>6. offer \in OfferType /\ offer.kind = "scheduled" /\ offer.price = price
    BY <2>4 DEF OfferType
  <2>7. QED
    BY <2>1, <2>5, <2>6
<1> HIDE DEF OptionOf
<1>5. \A k : k \in S <=> /\ k \in 1..Len(routes)
                         /\ routes[k].legs \cap {"fly", "flight"} = {} /\ routes[k].low # None
  BY ElementsIn
<1> HIDE DEF S
<1>6. /\ \A a \in 1..Len(real) : \E k \in 1..Len(routes) : k \in S /\ real[a] = routes[k]
      /\ \A k \in 1..Len(routes) : k \in S => \E a \in 1..Len(real) : real[a] = routes[k]
  BY AtFacts
<1>7. \A x : x \in UndatedPrices(routes) <=> \E k \in S : x = routes[k].low
  BY <1>5, ElementsIn DEF UndatedPrices, Range
<1>8. DOMAIN real = 1..Len(real) /\ \A i \in DOMAIN real : real[i] \in Real
  <2> HIDE DEF Real, real
  <2>1. QED
    BY <1>2, ElementsIn
<1>9. number \in [DOMAIN real -> Int] /\ key = [i \in DOMAIN real |-> <<number[i]>>]
  BY <1>3, <1>8
<1>10. \A i \in DOMAIN real : key[i][1] = real[i].low
  OBVIOUS
<1> HIDE DEF Real, real, number, key
<1>11. /\ sorted \in Seq(Real) /\ Len(sorted) = Len(real)
       /\ \A a \in 1..Len(real) : \E i \in 1..Len(real) : sorted[a] = real[i]
       /\ Len(real) # 0 =>
            \E l \in 1..Len(real) : sorted[1] = real[l] /\ \A j \in 1..Len(real) : key[l][1] <= key[j][1]
  <2>1. key \in [DOMAIN real -> [1..1 -> Int]]
    BY <1>2, <1>9, SortedByNumber
  <2>2. PICK w \in Nat \ {0} : w = 1
    OBVIOUS
  <2>3. key \in [DOMAIN real -> [1..w -> Int]]
    BY <2>1, <2>2
  <2>4. PICK s : s = Sorted(real, key)
    OBVIOUS
  <2>5. SameRows(s, real, Real)
    BY <1>2, <1>9, <2>4, SortedByNumber
  <2>6. Len(real) # 0 => LeastFirst(s, real, key)
    BY ONLY <1>2, <2>3, <2>4, SortedLeastFirst
  <2>7. QED
    BY <2>4, <2>5, <2>6 DEF SameRows, LeastFirst
<1> HIDE DEF sorted
<1>12. RoutesShown \in Nat
  BY TransferAssumption
<1>13. /\ cheapest \in Seq(Real)
       /\ Len(cheapest) = IF RoutesShown <= Len(real) THEN RoutesShown ELSE Len(real)
       /\ \A a \in 1..Len(cheapest) : a \in 1..Len(real) /\ cheapest[a] = sorted[a]
  BY <1>11, <1>12, TakeFacts
<1> HIDE DEF cheapest
<1>14. DOMAIN cheapest = 1..Len(cheapest) /\ \A a \in DOMAIN cheapest : cheapest[a] \in Real
  BY <1>13, ElementsIn
<1>15. \A a \in DOMAIN cheapest : list[a] = OptionOf(cheapest[a])
  OBVIOUS
<1>16. list \in [DOMAIN cheapest -> OfferType]
  BY <1>4, <1>14
<1> HIDE DEF list
<1>17. list \in Seq(OfferType) /\ Len(list) = Len(cheapest)
  BY <1>13, <1>16, SameLength
<1>18. ASSUME NEW a \in 1..Len(list) PROVE list[a].kind = "scheduled" /\ list[a].price = cheapest[a].low
  BY <1>4, <1>14, <1>15, <1>17
<1>19. ASSUME NEW x \in Prices(list) PROVE x \in UndatedPrices(routes)
  <2>1. PICK a \in 1..Len(list) : x = cheapest[a].low
    BY <1>18 DEF Prices
  <2>2. PICK i \in 1..Len(real) : cheapest[a] = real[i]
    BY <1>11, <1>13, <1>17
  <2>3. PICK k \in 1..Len(routes) : k \in S /\ real[i] = routes[k]
    BY <1>6
  <2>4. QED
    BY <1>7, <2>1, <2>2, <2>3
<1>20. ASSUME NEW x \in UndatedPrices(routes) PROVE x \in Nat /\ \E y \in Prices(list) : y <= x
  <2>1. PICK k \in S : x = routes[k].low
    BY <1>7
  <2>2. PICK i \in 1..Len(real) : real[i] = routes[k]
    BY <1>5, <1>6
  <2>3. x \in Nat
    BY <1>3, <1>8, <2>1, <2>2
  <2>4. Len(real) # 0 /\ 1 \in 1..Len(list)
    BY <1>2, <1>12, <1>13, <1>17, <2>2, TransferAssumption
  <2>5. PICK l \in 1..Len(real) : sorted[1] = real[l] /\ \A j \in 1..Len(real) : key[l][1] <= key[j][1]
    BY <1>11, <2>4
  <2>6. list[1].price = real[l].low
    BY <1>13, <1>17, <1>18, <2>4, <2>5
  <2>7. real[l].low <= real[i].low
    BY <1>8, <1>10, <2>5
  <2>8. list[1].price \in Prices(list)
    BY <2>4 DEF Prices
  <2>9. QED
    BY <2>1, <2>2, <2>3, <2>6, <2>7, <2>8
<1>21. QED
  BY <1>1, <1>17, <1>18, <1>19, <1>20 DEF Covers

\* How two offers compare in haste.
LEMMA HasteFacts ==
  ASSUME NEW o \in OfferType
  PROVE  /\ Haste(o) \in [1..2 -> Int]
         /\ Haste(o)[1] = IF o.duration = None THEN Unknown ELSE o.duration
<1>1. PICK duration \in Lasting, departure \in Told : duration = o.duration /\ departure = o.departure
  BY DEF OfferType
<1>2. PICK a \in Int : a = IF duration = None THEN Unknown ELSE duration
  BY LastingFacts, UnknownType
<1>3. PICK b \in Int : b = IF departure = None THEN Unknown ELSE departure
  BY UnknownType DEF Told
<1>4. Haste(o) = <<a, b>>
  BY <1>1, <1>2, <1>3 DEF Haste
<1>5. <<a, b>> \in [1..2 -> Int] /\ <<a, b>>[1] = a
  BY TwoNumbers
<1>6. QED
  BY <1>1, <1>2, <1>4, <1>5

\* Of the departures of an offer the quickest is kept.
QuickestOf(options, o) == Least(Where(options, LAMBDA b : SameOffer(o, b)), Haste)

LEMMA QuickestFacts ==
  ASSUME NEW options \in Seq(OfferType), NEW o, NEW k \in 1..Len(options), SameOffer(o, options[k])
  PROVE  LET q == QuickestOf(options, o) IN
         /\ \E i \in 1..Len(options) : q = options[i] /\ SameOffer(o, options[i])
         /\ options[k].duration # None => q.duration \in 0..options[k].duration
<1> DEFINE S == {i \in DOMAIN options : SameOffer(o, options[i])}
<1>1. DOMAIN options = 1..Len(options) /\ \A i \in 1..Len(options) : options[i] \in OfferType
  BY ElementsIn
<1>2. k \in S
  BY <1>1
<1>3. Where(options, LAMBDA b : SameOffer(o, b)) = At(options, S)
  BY DEF Where
<1>4. \A i \in S : SameOffer(o, options[i])
  OBVIOUS
<1> HIDE DEF S
<1>5. PICK same \in Seq(OfferType) : same = At(options, S)
  BY AtFacts
<1>6. \A a \in 1..Len(same) : \E i \in 1..Len(options) : same[a] = options[i] /\ SameOffer(o, options[i])
  BY <1>5, <1>4, AtFacts
<1>7. PICK c \in 1..Len(same) : same[c] = options[k]
  BY <1>2, <1>5, AtHas
<1>8. DOMAIN same = 1..Len(same) /\ \A a \in 1..Len(same) : same[a] \in OfferType
  BY ElementsIn
<1>9. PICK n \in Nat \ {0} : n = Len(same)
  BY <1>7
<1>10. PICK key : key = [a \in DOMAIN same |-> Haste(same[a])]
  OBVIOUS
<1>11. key \in [1..n -> [1..2 -> Int]] /\ \A a \in 1..n : key[a] = Haste(same[a])
  BY <1>8, <1>9, <1>10, HasteFacts
<1>12. PICK l \in 1..n : l = LeastPlace(key) /\ \A j \in 1..n : key[l][1] <= key[j][1]
  BY <1>11, LeastOfPairs
<1>13. QuickestOf(options, o) = same[l]
  <2>1. Least(same, Haste) = same[LeastPlace(key)]
    BY <1>10 DEF Least, PlaceOfLeast, Mapped
  <2>2. QED
    BY <1>3, <1>5, <1>12, <2>1 DEF QuickestOf
<1>14. ASSUME options[k].duration # None PROVE same[l].duration \in 0..options[k].duration
  <2>1. same[l] \in OfferType /\ options[k] \in OfferType
    BY <1>1, <1>8, <1>9
  <2>2. PICK d \in Lasting, e \in Lasting : d = same[l].duration /\ e = options[k].duration
    BY <2>1 DEF OfferType
  <2>3. e \in Nat /\ e < Unknown
    BY <1>14, <2>2, LastingFacts
  <2>4. key[l][1] = (IF d = None THEN Unknown ELSE d) /\ key[c][1] = e
    BY <1>7, <1>9, <1>11, <1>14, <2>1, <2>2, HasteFacts
  <2>5. (IF d = None THEN Unknown ELSE d) <= e
    BY <1>7, <1>9, <1>12, <2>4
  <2>6. d # None
    BY <2>3, <2>5, UnknownType
  <2>7. d \in Nat /\ d <= e
    BY <2>5, <2>6, LastingFacts
  <2>8. QED
    BY <2>2, <2>3, <2>7
<1>15. QED
  BY <1>6, <1>9, <1>13, <1>14

\* An offer has one row, and it is as quick as any departure of it.
LEMMA UniqueFacts ==
  ASSUME NEW options \in Seq(OfferType)
  PROVE  LET unique == Unique(options) IN
         /\ unique \in Seq(OfferType)
         /\ \A a \in 1..Len(unique) : \E i \in 1..Len(options) : unique[a] = options[i]
         /\ \A k \in 1..Len(options) : options[k].duration # None =>
              \E a \in 1..Len(unique) : unique[a].duration \in 0..options[k].duration
         /\ Prices(unique) = Prices(options)
         /\ Len(options) # 0 => Len(unique) # 0
<1> DEFINE firsts == {i \in DOMAIN options : \A j \in 1..(i - 1) : ~SameOffer(options[i], options[j])}
           kept == At(options, firsts)
           unique == [a \in DOMAIN kept |-> QuickestOf(options, kept[a])]
<1>1. Unique(options) = unique
  BY DEF Unique, Mapped, QuickestOf
<1>2. PICK n \in Nat : n = Len(options)
  OBVIOUS
<1>3. DOMAIN options = 1..n /\ \A i \in 1..n : options[i] \in OfferType
  BY <1>2, ElementsIn
<1>4. \A i : i \in firsts <=> i \in 1..n /\ \A j \in 1..(i - 1) : ~SameOffer(options[i], options[j])
  BY <1>3
<1>5. ASSUME NEW k \in 1..n PROVE \E i \in firsts : SameOffer(options[i], options[k])
  <2>1. PICK T : T = {i \in 1..n : SameOffer(options[i], options[k])}
    OBVIOUS
  <2>2. k \in T
    BY <2>1 DEF SameOffer
  <2>3. T \subseteq Nat /\ T # {}
    BY <2>1, <2>2
  <2>4. PICK i \in T : \A m \in T : i <= m
    BY <2>3, LeastNumber
  <2>5. ASSUME NEW j \in 1..(i - 1), SameOffer(options[i], options[j]) PROVE FALSE
    <3>1. i \in 1..n /\ SameOffer(options[i], options[k])
      BY <2>1, <2>4
    <3>2. j \in 1..n /\ ~(i <= j)
      BY <3>1
    <3>3. SameOffer(options[j], options[k])
      BY <2>5, <3>1 DEF SameOffer
    <3>4. QED
      BY <2>1, <2>4, <3>2, <3>3
  <2>6. QED
    BY <1>4, <2>1, <2>4, <2>5
<1>6. \A a \in 1..n : \A k \in 1..n : SameOffer(options[a], options[k]) =>
        /\ \E i \in 1..n : QuickestOf(options, options[a]) = options[i] /\ SameOffer(options[a], options[i])
        /\ options[k].duration # None => QuickestOf(options, options[a]).duration \in 0..options[k].duration
  BY <1>2, QuickestFacts
<1> HIDE DEF firsts
<1>7. kept \in Seq(OfferType)
  BY AtFacts
<1>8. \A a \in 1..Len(kept) : \E i \in 1..n : kept[a] = options[i]
  BY <1>2, AtFacts
<1>9. \A i \in 1..n : i \in firsts => \E a \in 1..Len(kept) : kept[a] = options[i]
  BY <1>2, AtHas
<1> HIDE DEF kept
<1>10. DOMAIN kept = 1..Len(kept)
  BY <1>7
<1>11. \A a \in 1..Len(kept) : unique[a] = QuickestOf(options, kept[a])
  BY <1>10
<1>12. ASSUME NEW a \in 1..Len(kept)
       PROVE  \E i \in 1..n : unique[a] = options[i]
  <2>1. PICK i \in 1..n : kept[a] = options[i]
    BY <1>8
  <2>2. SameOffer(options[i], options[i])
    BY DEF SameOffer
  <2>3. QED
    BY <1>6, <1>11, <2>1, <2>2
<1>13. unique \in [DOMAIN kept -> OfferType]
  <2>1. \A a \in 1..Len(kept) : unique[a] \in OfferType
    BY <1>3, <1>12
  <2>2. QED
    BY <1>10, <2>1
<1> HIDE DEF unique
<1>14. unique \in Seq(OfferType) /\ Len(unique) = Len(kept)
  BY <1>7, <1>13, SameLength
<1>15. ASSUME NEW k \in 1..n
       PROVE  \E a \in 1..Len(unique) :
                /\ options[k].duration # None => unique[a].duration \in 0..options[k].duration
                /\ unique[a].price = options[k].price
  <2>1. PICK i \in firsts : SameOffer(options[i], options[k])
    BY <1>5
  <2>2. PICK a \in 1..Len(kept) : kept[a] = options[i]
    BY <1>4, <1>9, <2>1
  <2>3. unique[a] = QuickestOf(options, options[i]) /\ i \in 1..n
    BY <1>4, <1>11, <2>1, <2>2
  <2>4. options[k].duration # None => unique[a].duration \in 0..options[k].duration
    BY <1>6, <2>1, <2>3
  <2>5. unique[a].price = options[k].price
    <3>1. PICK j \in 1..n : unique[a] = options[j] /\ SameOffer(options[i], options[j])
      BY <1>6, <2>1, <2>3
    <3>2. QED
      BY <2>1, <3>1 DEF SameOffer
  <2>6. QED
    BY <1>14, <2>4, <2>5
<1>16. n # 0 => Len(unique) # 0
  <2>1. SUFFICES ASSUME n # 0 PROVE Len(unique) # 0
    OBVIOUS
  <2>2. 1 \in 1..n
    BY <2>1
  <2>3. PICK a \in 1..Len(unique) : TRUE
    BY <1>15, <2>2
  <2>4. QED
    BY <2>3
<1>17. Prices(unique) = Prices(options)
  <2>1. \A a \in 1..Len(unique) : \E i \in 1..n : unique[a].price = options[i].price
    BY <1>12, <1>14
  <2>2. \A i \in 1..n : \E a \in 1..Len(unique) : unique[a].price = options[i].price
    BY <1>15
  <2>3. ASSUME NEW x \in Prices(unique) PROVE x \in Prices(options)
    <3>1. PICK a \in 1..Len(unique) : x = unique[a].price
      BY DEF Prices
    <3>2. PICK i \in 1..n : unique[a].price = options[i].price
      BY <2>1
    <3>3. QED
      BY <1>2, <3>1, <3>2 DEF Prices
  <2>4. ASSUME NEW x \in Prices(options) PROVE x \in Prices(unique)
    <3>1. PICK i \in 1..n : x = options[i].price
      BY <1>2 DEF Prices
    <3>2. PICK a \in 1..Len(unique) : unique[a].price = options[i].price
      BY <2>2
    <3>3. QED
      BY <3>1, <3>2 DEF Prices
  <2>5. QED
    BY <2>3, <2>4
<1>18. QED
  BY <1>1, <1>2, <1>12, <1>14, <1>15, <1>16, <1>17

RowsType == [option : OfferType, roles : SUBSET {"cheapest", "fastest"}]

LEMMA TimedType == ASSUME NEW d \in Lasting PROVE Timed(d) \in Int
BY LastingFacts, UnknownType DEF Timed

\* What is labelled the fastest is timed if anything is, and is no slower.
LEMMA FastestFacts ==
  ASSUME NEW unique \in Seq(OfferType), Len(unique) # 0
  PROVE  /\ FastestOption(unique) \in 1..Len(unique)
         /\ \A k \in 1..Len(unique) : unique[k].duration # None =>
              /\ unique[FastestOption(unique)].duration # None
              /\ unique[FastestOption(unique)].duration \in 0..unique[k].duration
<1>1. PICK n \in Nat \ {0} : n = Len(unique)
  OBVIOUS
<1>2. DOMAIN unique = 1..n /\ \A k \in 1..n : unique[k] \in OfferType
  BY <1>1, ElementsIn
<1>3. \A k \in 1..n : unique[k].duration \in Lasting /\ unique[k].price \in Nat
  BY <1>2 DEF OfferType
<1>4. PICK key : key = [k \in 1..n |-> <<OneIf(unique[k].duration = None), unique[k].duration, unique[k].price>>]
  OBVIOUS
<1>5. FastestOption(unique) = LeastPlace(key)
  BY <1>2, <1>4 DEF FastestOption, PlaceOfLeast, Mapped
<1>6. ASSUME NEW k \in 1..n
      PROVE  /\ key[k] \in [1..3 -> Int] /\ key[k][2] = unique[k].duration
             /\ key[k][1] = IF unique[k].duration = None THEN 1 ELSE 0
  <2>1. PICK a \in Int, b \in Int, c \in Int :
          a = OneIf(unique[k].duration = None) /\ b = unique[k].duration /\ c = unique[k].price
    <3>1. OneIf(unique[k].duration = None) \in Int
      BY DEF OneIf
    <3>2. unique[k].duration \in Int
      BY <1>3, LastingFacts DEF None
    <3>3. QED
      BY <1>3, <3>1, <3>2
  <2>2. key[k] = <<a, b, c>>
    BY <1>4, <2>1
  <2>3. <<a, b, c>> \in [1..3 -> Int] /\ <<a, b, c>>[1] = a /\ <<a, b, c>>[2] = b
    BY ThreeNumbers
  <2>4. a = IF unique[k].duration = None THEN 1 ELSE 0
    BY <2>1 DEF OneIf
  <2>5. QED
    BY <2>1, <2>2, <2>3, <2>4
<1>7. key \in [1..n -> [1..3 -> Int]]
  BY <1>4, <1>6
<1>8. PICK f \in 1..n : /\ f = LeastPlace(key)
                        /\ \A j \in 1..n : key[f][1] <= key[j][1]
                        /\ \A j \in 1..n : key[f][1] = key[j][1] => key[f][2] <= key[j][2]
  BY <1>7, LeastOfTriples
<1>9. ASSUME NEW k \in 1..n, unique[k].duration # None
      PROVE  unique[f].duration # None /\ unique[f].duration \in 0..unique[k].duration
  <2>1. key[k][1] = 0 /\ key[f][1] <= key[k][1]
    BY <1>6, <1>8, <1>9
  <2>2. unique[f].duration # None
    BY <1>6, <2>1
  <2>3. key[f][1] = key[k][1]
    BY <1>6, <2>1, <2>2
  <2>4. unique[f].duration <= unique[k].duration
    BY <1>6, <1>8, <2>3
  <2>5. unique[f].duration \in Nat /\ unique[k].duration \in Nat
    BY <1>3, <1>9, <2>2, LastingFacts
  <2>6. QED
    BY <2>2, <2>4, <2>5
<1>10. QED
  BY <1>1, <1>5, <1>8, <1>9

\* The rows are offers, and the fastest of all is one of them.
LEMMA RowsFacts ==
  ASSUME NEW unique \in Seq(OfferType), Len(unique) # 0
  PROVE  LET ranked == Ranked(unique, CheapestOption(unique), FastestOption(unique)) IN
         /\ ranked \in Seq(RowsType)
         /\ \A a \in 1..Len(ranked) : \E i \in 1..Len(unique) : ranked[a].option = unique[i]
         /\ \A k \in 1..Len(unique) : unique[k].duration # None =>
              \E a \in 1..Len(ranked) : ranked[a].option.duration \in 0..unique[k].duration
         /\ \E a \in 1..Len(ranked) : \A k \in 1..Len(unique) : ranked[a].option.price <= unique[k].price
<1>1. PICK n \in Nat \ {0} : n = Len(unique)
  OBVIOUS
<1>2. DOMAIN unique = 1..n /\ \A k \in 1..n : unique[k] \in OfferType
  BY <1>1, ElementsIn
<1>3. \A k \in 1..n : unique[k].duration \in Lasting /\ unique[k].price \in Nat
  BY <1>2 DEF OfferType
<1>4. PICK fastest \in 1..n : fastest = FastestOption(unique)
  BY <1>1, FastestFacts
<1>5. PICK cheapest : cheapest = CheapestOption(unique)
  OBVIOUS
<1>6. PICK timed \in BOOLEAN : timed = (unique[fastest].duration # None)
  OBVIOUS
<1> DEFINE D == 1..n
           pos == Positions(unique)
           key == [i \in DOMAIN pos |-> <<unique[pos[i]].price, Timed(unique[pos[i]].duration)>>]
           byPrice == Sorted(pos, key)
           places == IF timed THEN Capped(byPrice, fastest) ELSE Take(byPrice, MaxOptions)
           Row(i) == [option |-> unique[i],
                      roles |-> (IF i = cheapest THEN {"cheapest"} ELSE {}) \cup
                                (IF i = fastest /\ timed THEN {"fastest"} ELSE {})]
           ranked == [a \in DOMAIN places |-> Row(places[a])]
<1>7. Ranked(unique, cheapest, fastest) = ranked
  BY <1>6 DEF Ranked, Mapped, SortedBy
<1>8. ASSUME NEW i \in D PROVE Row(i) \in RowsType /\ Row(i).option = unique[i]
  <2>1. PICK roles \in SUBSET {"cheapest", "fastest"} :
          roles = (IF i = cheapest THEN {"cheapest"} ELSE {}) \cup (IF i = fastest /\ timed THEN {"fastest"} ELSE {})
    OBVIOUS
  <2>2. PICK row : row = [option |-> unique[i], roles |-> roles]
    OBVIOUS
  <2>3. Row(i) = row
    BY <2>1, <2>2
  <2>4. row \in RowsType /\ row.option = unique[i]
    BY <1>2, <2>2 DEF RowsType
  <2>5. QED
    BY <2>3, <2>4
<1> HIDE DEF Row
<1>9. pos = [i \in D |-> i] /\ pos \in Seq(D) /\ Len(pos) = n /\ DOMAIN pos = D
  <2>1. pos = [i \in D |-> i]
    BY <1>2 DEF Positions
  <2> HIDE DEF pos
  <2>2. pos \in [1..n -> D]
    BY <2>1
  <2>3. QED
    BY <2>1, <2>2
<1>10. key \in [DOMAIN pos -> [1..2 -> Int]]
  <2>1. ASSUME NEW i \in D PROVE <<unique[pos[i]].price, Timed(unique[pos[i]].duration)>> \in [1..2 -> Int]
    <3>1. pos[i] = i
      BY <1>9
    <3>2. unique[i].price \in Int /\ Timed(unique[i].duration) \in Int
      BY <1>3, TimedType
    <3>3. QED
      BY <3>1, <3>2, TwoNumbers
  <2> HIDE DEF pos
  <2>2. QED
    BY <1>9, <2>1
<1>11. \A i \in D : key[i][1] = unique[i].price
  <2> HIDE DEF pos
  <2>1. QED
    BY <1>9
<1> HIDE DEF pos, key
<1>12. /\ byPrice \in Seq(D) /\ Len(byPrice) = n
       /\ \E l \in D : byPrice[1] = pos[l] /\ \A j \in D : key[l][1] <= key[j][1]
  <2>1. PICK w \in Nat \ {0} : w = 2
    OBVIOUS
  <2>2. key \in [DOMAIN pos -> [1..w -> Int]] /\ Len(pos) # 0
    BY <1>9, <1>10, <2>1
  <2>3. PICK s : s = Sorted(pos, key)
    OBVIOUS
  <2>4. SameRows(s, pos, D) /\ LeastFirst(s, pos, key)
    BY ONLY <1>9, <2>2, <2>3, SortedLeastFirst
  <2>5. s \in Seq(D) /\ Len(s) = n
    BY <1>9, <2>4 DEF SameRows
  <2>6. QED
    BY <1>9, <2>3, <2>4, <2>5 DEF LeastFirst
<1> HIDE DEF byPrice
<1>13. byPrice[1] \in D /\ \A j \in D : unique[byPrice[1]].price <= unique[j].price
  <2>1. PICK l \in D : byPrice[1] = pos[l] /\ \A j \in D : key[l][1] <= key[j][1]
    BY <1>12
  <2>2. byPrice[1] = l
    BY <1>9, <2>1
  <2>3. QED
    BY <1>11, <2>1, <2>2
<1>14. MaxOptions \in Nat \ {0} /\ MaxOptions - 1 \in Nat \ {0}
  BY TransferAssumption
<1>15. PICK shown \in Seq(D), most \in Seq(D) :
         /\ shown = Take(byPrice, MaxOptions) /\ most = Take(byPrice, MaxOptions - 1)
         /\ Len(shown) # 0 /\ shown[1] = byPrice[1] /\ Len(most) # 0 /\ most[1] = byPrice[1]
  <2>1. ASSUME NEW m \in Nat \ {0}
        PROVE  LET some == Take(byPrice, m) IN some \in Seq(D) /\ Len(some) # 0 /\ some[1] = byPrice[1]
    <3>1. PICK some : some = Take(byPrice, m)
      OBVIOUS
    <3>2. /\ some \in Seq(D) /\ Len(some) = (IF m <= Len(byPrice) THEN m ELSE Len(byPrice))
          /\ \A a \in 1..Len(some) : some[a] = byPrice[a]
      <4>1. m \in Nat /\ byPrice \in Seq(D)
        BY <1>12
      <4>2. QED
        BY ONLY <3>1, <4>1, TakeFacts
    <3>3. Len(some) # 0 /\ 1 \in 1..Len(some)
      BY <1>12, <3>2
    <3>4. QED
      BY <3>1, <3>2, <3>3
  <2>2. QED
    BY <1>14, <2>1
<1>16. places = IF timed /\ fastest \notin Range(shown) THEN Append(most, fastest) ELSE shown
  BY <1>15 DEF Capped
<1> HIDE DEF places
<1>17. fastest \in D
  OBVIOUS
<1>18. /\ places \in Seq(D) /\ (timed => \E a \in 1..Len(places) : places[a] = fastest)
       /\ Len(places) # 0 /\ places[1] = byPrice[1]
  <2>1. CASE timed /\ fastest \notin Range(shown)
    <3>1. places = Append(most, fastest)
      BY <1>16, <2>1
    <3>2. /\ places \in Seq(D) /\ Len(places) \in 1..Len(places) /\ places[Len(places)] = fastest
          /\ places[1] = most[1]
      BY <1>15, <1>17, <3>1
    <3>3. QED
      BY <1>15, <3>2
  <2>2. CASE ~(timed /\ fastest \notin Range(shown))
    <3>1. places = shown
      BY <1>16, <2>2
    <3>2. timed => \E a \in DOMAIN shown : shown[a] = fastest
      BY <2>2 DEF Range
    <3>3. QED
      BY <1>15, <3>1, <3>2
  <2>3. QED
    BY <2>1, <2>2
<1>19. DOMAIN places = 1..Len(places) /\ \A a \in 1..Len(places) : places[a] \in D
  BY <1>18, ElementsIn
<1>20. \A a \in 1..Len(places) : ranked[a] = Row(places[a])
  BY <1>19
<1>21. ranked \in [DOMAIN places -> RowsType]
  BY <1>8, <1>19
<1> HIDE DEF ranked
<1>22. ranked \in Seq(RowsType) /\ Len(ranked) = Len(places)
  BY <1>18, <1>21, SameLength
<1>23. ASSUME NEW a \in 1..Len(places) PROVE ranked[a].option = unique[places[a]] /\ places[a] \in D
  BY <1>8, <1>19, <1>20
<1>24. ASSUME NEW k \in 1..n, unique[k].duration # None
       PROVE  \E a \in 1..Len(ranked) : ranked[a].option.duration \in 0..unique[k].duration
  <2>1. unique[fastest].duration # None /\ unique[fastest].duration \in 0..unique[k].duration
    BY <1>1, <1>4, <1>24, FastestFacts
  <2>2. PICK a \in 1..Len(places) : places[a] = fastest
    BY <1>6, <1>18, <2>1
  <2>3. QED
    BY <1>22, <1>23, <2>1, <2>2
<1>25. \E a \in 1..Len(ranked) : \A k \in 1..n : ranked[a].option.price <= unique[k].price
  <2>1. 1 \in 1..Len(places)
    BY <1>18
  <2>2. ranked[1].option = unique[byPrice[1]]
    BY <1>18, <1>23, <2>1
  <2>3. QED
    BY <1>22, <1>13, <2>1, <2>2
<1>26. QED
  BY <1>1, <1>4, <1>5, <1>7, <1>18, <1>22, <1>23, <1>24, <1>25

\* Of two lists of offers put together.
Joined(j, s, t) ==
  /\ j \in Seq(OfferType)
  /\ \A a \in 1..Len(s) : \E c \in 1..Len(j) : j[c] = s[a]
  /\ \A a \in 1..Len(t) : \E c \in 1..Len(j) : j[c] = t[a]
  /\ \A c \in 1..Len(j) : (\E a \in 1..Len(s) : j[c] = s[a]) \/ (\E a \in 1..Len(t) : j[c] = t[a])

LEMMA BothLists ==
  ASSUME NEW s \in Seq(OfferType), NEW t \in Seq(OfferType)
  PROVE  Joined(s \o t, s, t)
<1>1. PICK j : j = s \o t
  OBVIOUS
<1>2. PICK m \in Nat, n \in Nat : m = Len(s) /\ n = Len(t)
  OBVIOUS
<1>3. /\ j \in Seq(OfferType) /\ Len(j) = m + n
      /\ \A a \in 1..m : j[a] = s[a]
      /\ \A a \in 1..n : j[m + a] = t[a]
  BY <1>1, <1>2, JoinFacts
<1>4. \A a \in 1..m : a \in 1..Len(j)
  BY <1>3
<1>5. \A a \in 1..n : m + a \in 1..Len(j)
  BY <1>3
<1>6. ASSUME NEW c \in 1..Len(j)
      PROVE  (\E a \in 1..m : j[c] = s[a]) \/ (\E a \in 1..n : j[c] = t[a])
  <2>1. CASE c <= m
    BY <1>3, <2>1
  <2>2. CASE ~(c <= m)
    <3>1. c - m \in 1..n /\ m + (c - m) = c
      BY <1>3, <2>2
    <3>2. j[c] = t[c - m]
      BY <1>3, <3>1
    <3>3. QED
      BY <3>1, <3>2
  <2>3. QED
    BY <2>1, <2>2
<1>7. QED
  BY <1>1, <1>2, <1>3, <1>4, <1>5, <1>6 DEF Joined

LEMMA JoinedPrices ==
  ASSUME NEW s, NEW t, NEW j, Joined(j, s, t)
  PROVE  Prices(j) = Prices(s) \cup Prices(t)
<1>1. ASSUME NEW x \in Prices(j) PROVE x \in Prices(s) \cup Prices(t)
  <2>1. PICK c \in 1..Len(j) : x = j[c].price
    BY DEF Prices
  <2>2. (\E a \in 1..Len(s) : j[c] = s[a]) \/ (\E a \in 1..Len(t) : j[c] = t[a])
    BY DEF Joined
  <2>3. QED
    BY <2>1, <2>2 DEF Prices
<1>2. ASSUME NEW x \in Prices(s) PROVE x \in Prices(j)
  <2>1. PICK a \in 1..Len(s) : x = s[a].price
    BY DEF Prices
  <2>2. PICK c \in 1..Len(j) : j[c] = s[a]
    BY DEF Joined
  <2>3. QED
    BY <2>1, <2>2 DEF Prices
<1>3. ASSUME NEW x \in Prices(t) PROVE x \in Prices(j)
  <2>1. PICK a \in 1..Len(t) : x = t[a].price
    BY DEF Prices
  <2>2. PICK c \in 1..Len(j) : j[c] = t[a]
    BY DEF Joined
  <2>3. QED
    BY <2>1, <2>2 DEF Prices
<1>4. QED
  BY <1>1, <1>2, <1>3

\* The prices of the rows, and those of what a card may choose among.
RowPrices(all) == {all[a].option.price : a \in 1..Len(all)}
Asked(quote, ground, routes, group) ==
  HirePrices(quote.outbound, quote.back, group) \cup
  (IF SeatPrices(ground, group) = {} THEN UndatedPrices(routes) ELSE SeatPrices(ground, group))

\* A list of transfers holds no vehicle that is too small, for every journey
\* that is timed one that is no longer, and the cheapest of all offers.
Serves(all, quote, ground, group) ==
  /\ all \in Seq(RowsType)
  /\ \A a \in 1..Len(all) : all[a].option.kind = "private" =>
       \E k \in 1..Len(quote.outbound) :
         all[a].option.carrier = quote.outbound[k].name /\ quote.outbound[k].seats >= group
  /\ \A k \in 1..Len(ground.outbound) :
       ground.outbound[k].price > 0 /\ ground.outbound[k].duration # None =>
         \E a \in 1..Len(all) : all[a].option.duration \in 0..ground.outbound[k].duration
  /\ \A k \in 1..Len(quote.outbound) :
       quote.outbound[k].seats >= group /\ quote.outbound[k].duration > 0 =>
         \E a \in 1..Len(all) : all[a].option.duration \in 0..quote.outbound[k].duration

LEMMA TransferFacts ==
  ASSUME NEW quote \in QuoteType, NEW ground \in GroundType, NEW routes \in Seq(Rome2RioRoute), NEW group \in Nat \ {0}
  PROVE  LET all == AllTransferOptions(quote, ground, routes, group)
             offered == Asked(quote, ground, routes, group)
         IN  Serves(all, quote, ground, group) /\ offered \in SUBSET Nat /\ Covers(RowPrices(all), offered)
<1>1. PICK own \in Seq(OfferType) :
        /\ own = PrivateOptions(quote, group)
        /\ \A a \in 1..Len(own) : own[a].kind = "private" /\ \E k \in 1..Len(quote.outbound) :
             own[a].carrier = quote.outbound[k].name /\ quote.outbound[k].seats >= group
        /\ \A k \in 1..Len(quote.outbound) :
             quote.outbound[k].seats >= group /\ quote.outbound[k].duration > 0 =>
               \E a \in 1..Len(own) : own[a].duration = quote.outbound[k].duration
  BY PrivateFacts
<1>2. PICK list \in Seq(OfferType) : list = ScheduledOptions(ground, group)
  BY ScheduledFacts
<1>3. PICK more \in Seq(OfferType) : more = IndicativeOptions(routes)
  BY IndicativeFacts
<1>4. PICK dated : dated = own \o list /\ Joined(dated, own, list)
  BY BothLists
<1>5. PICK extended : extended = dated \o more /\ Joined(extended, dated, more)
  <2>1. dated \in Seq(OfferType)
    BY <1>4 DEF Joined
  <2>2. QED
    BY <2>1, BothLists
<1>6. PICK options \in {dated, extended} :
        options = IF \E i \in DOMAIN dated : dated[i].kind = "scheduled" THEN dated ELSE extended
  OBVIOUS
<1>7. AllTransferOptions(quote, ground, routes, group) = RankTransferOptions(options)
  BY <1>1, <1>2, <1>3, <1>4, <1>5, <1>6 DEF AllTransferOptions
<1>8. options \in Seq(OfferType)
  BY <1>4, <1>5, <1>6 DEF Joined
<1>9. \A a \in 1..Len(dated) : \E c \in 1..Len(options) : options[c] = dated[a]
  <2>1. CASE options = dated
    BY <2>1
  <2>2. CASE options = extended
    BY <1>5, <2>2 DEF Joined
  <2>3. QED
    BY <1>6, <2>1, <2>2
<1>10. ASSUME NEW c \in 1..Len(options), options[c].kind = "private"
       PROVE  \E a \in 1..Len(own) : options[c] = own[a]
  <2>1. "private" # "scheduled"
    OBVIOUS
  <2>2. ASSUME NEW e \in 1..Len(dated), dated[e].kind = "private" PROVE \E a \in 1..Len(own) : dated[e] = own[a]
    <3>1. (\E a \in 1..Len(own) : dated[e] = own[a]) \/ (\E a \in 1..Len(list) : dated[e] = list[a])
      BY <1>4 DEF Joined
    <3>2. \A a \in 1..Len(list) : list[a].kind = "scheduled"
      BY <1>2, ScheduledFacts
    <3>3. QED
      BY <2>1, <2>2, <3>1, <3>2
  <2>3. CASE options = dated
    BY <1>10, <2>2, <2>3
  <2>4. CASE options = extended
    <3>1. (\E e \in 1..Len(dated) : options[c] = dated[e]) \/ (\E a \in 1..Len(more) : options[c] = more[a])
      BY <1>5, <2>4 DEF Joined
    <3>2. \A a \in 1..Len(more) : more[a].kind = "scheduled"
      BY <1>3, IndicativeFacts
    <3>3. PICK e \in 1..Len(dated) : options[c] = dated[e]
      BY <1>10, <2>1, <3>1, <3>2
    <3>4. QED
      BY <1>10, <2>2, <3>3
  <2>5. QED
    BY <1>6, <2>3, <2>4
<1>11. PICK unique : unique = Unique(options)
  OBVIOUS
<1>12. /\ unique \in Seq(OfferType)
       /\ \A a \in 1..Len(unique) : \E i \in 1..Len(options) : unique[a] = options[i]
       /\ \A k \in 1..Len(options) : options[k].duration # None =>
            \E a \in 1..Len(unique) : unique[a].duration \in 0..options[k].duration
       /\ Len(options) # 0 => Len(unique) # 0
  BY <1>8, <1>11, UniqueFacts
<1>13. PICK all : all = AllTransferOptions(quote, ground, routes, group)
  OBVIOUS
<1>14. Len(options) # 0 => all = Ranked(unique, CheapestOption(unique), FastestOption(unique))
  BY <1>7, <1>8, <1>11, <1>13, EmptySeq DEF RankTransferOptions
<1>15. Len(options) = 0 => all = <<>>
  BY <1>7, <1>8, <1>13 DEF RankTransferOptions
<1>16. all \in Seq(RowsType) /\ \A a \in 1..Len(all) : \E i \in 1..Len(options) : all[a].option = options[i]
  <2>1. CASE Len(options) = 0
    BY <1>15, <2>1
  <2>2. CASE Len(options) # 0
    <3>1. /\ all \in Seq(RowsType)
          /\ \A a \in 1..Len(all) : \E i \in 1..Len(unique) : all[a].option = unique[i]
      <4>1. PICK ranked : ranked = Ranked(unique, CheapestOption(unique), FastestOption(unique))
        OBVIOUS
      <4>2. ranked \in Seq(RowsType) /\ \A a \in 1..Len(ranked) : \E i \in 1..Len(unique) : ranked[a].option = unique[i]
        BY <1>12, <2>2, <4>1, RowsFacts
      <4>3. QED
        BY <1>14, <2>2, <4>1, <4>2
    <3>2. QED
      BY <1>12, <3>1
  <2>3. QED
    BY <2>1, <2>2
<1>17. ASSUME NEW k \in 1..Len(options), options[k].duration # None
       PROVE  \E a \in 1..Len(all) : all[a].option.duration \in 0..options[k].duration
  <2>1. Len(options) # 0 /\ Len(unique) # 0
    BY <1>8, <1>12
  <2>2. PICK c \in 1..Len(unique) : unique[c].duration \in 0..options[k].duration
    BY <1>12, <1>17
  <2>3. unique[c].duration # None
    BY <2>2 DEF None
  <2>4. PICK a \in 1..Len(all) : all[a].option.duration \in 0..unique[c].duration
    BY <1>12, <1>14, <2>1, <2>3, RowsFacts
  <2>5. PICK d : d = all[a].option.duration
    OBVIOUS
  <2>6. options[k].duration \in Int
    <3>1. options[k] \in OfferType
      BY <1>8, ElementsIn
    <3>2. options[k].duration \in Lasting
      BY <3>1 DEF OfferType
    <3>3. QED
      BY <3>2, LastingFacts DEF None
  <2>7. d \in 0..options[k].duration
    BY <2>2, <2>4, <2>5, <2>6
  <2>8. QED
    BY <2>5, <2>7
<1>18. ASSUME NEW d, d # None, \E a \in 1..Len(dated) : dated[a].duration = d
       PROVE  \E a \in 1..Len(all) : all[a].option.duration \in 0..d
  <2>1. PICK a \in 1..Len(dated) : dated[a].duration = d
    BY <1>18
  <2>2. PICK k \in 1..Len(options) : options[k] = dated[a]
    BY <1>9
  <2>3. QED
    BY <1>17, <1>18, <2>1, <2>2
<1>19. ASSUME NEW k \in 1..Len(ground.outbound), ground.outbound[k].price > 0, ground.outbound[k].duration # None
       PROVE  \E a \in 1..Len(all) : all[a].option.duration \in 0..ground.outbound[k].duration
  <2>1. PICK a \in 1..Len(list) : list[a].duration = ground.outbound[k].duration
    BY <1>2, <1>19, ScheduledFacts
  <2>2. PICK e \in 1..Len(dated) : dated[e] = list[a]
    BY <1>4 DEF Joined
  <2>3. QED
    BY <1>18, <1>19, <2>1, <2>2
<1>20. ASSUME NEW k \in 1..Len(quote.outbound), quote.outbound[k].seats >= group, quote.outbound[k].duration > 0
       PROVE  \E a \in 1..Len(all) : all[a].option.duration \in 0..quote.outbound[k].duration
  <2>1. PICK a \in 1..Len(own) : own[a].duration = quote.outbound[k].duration
    BY <1>1, <1>20
  <2>2. PICK e \in 1..Len(dated) : dated[e] = own[a]
    BY <1>4 DEF Joined
  <2>3. quote.outbound[k].duration # None
    BY <1>20 DEF None
  <2>4. QED
    BY <1>18, <2>1, <2>2, <2>3
<1>21. ASSUME NEW a \in 1..Len(all), all[a].option.kind = "private"
       PROVE  \E k \in 1..Len(quote.outbound) :
                all[a].option.carrier = quote.outbound[k].name /\ quote.outbound[k].seats >= group
  <2>1. PICK i \in 1..Len(options) : all[a].option = options[i]
    BY <1>16
  <2>2. PICK c \in 1..Len(own) : options[i] = own[c]
    BY <1>10, <1>21, <2>1
  <2>3. QED
    BY <1>1, <2>1, <2>2, SMTT(40)
<1>22. PICK hire \in SUBSET Nat, seats \in SUBSET Nat, undated \in SUBSET Nat :
         /\ hire = HirePrices(quote.outbound, quote.back, group) /\ Covers(Prices(own), hire)
         /\ seats = SeatPrices(ground, group) /\ Covers(Prices(list), seats)
         /\ undated = UndatedPrices(routes) /\ Covers(Prices(more), undated)
  BY <1>1, <1>2, <1>3, HireFacts, SeatFacts, IndicativeFacts
<1>23. PICK offered \in SUBSET Nat : offered = hire \cup (IF seats = {} THEN undated ELSE seats)
  OBVIOUS
<1>24. Covers(Prices(options), offered)
  <2>1. Prices(dated) = Prices(own) \cup Prices(list) /\ Prices(extended) = Prices(dated) \cup Prices(more)
    BY <1>4, <1>5, JoinedPrices
  <2>2. (Prices(list) = {} <=> Len(list) = 0) /\ (seats = {} <=> Prices(list) = {})
    BY <1>22, PricesType DEF Covers
  <2>3. CASE seats = {}
    <3>1. 1..Len(list) = {}
      BY <2>2, <2>3
    <3>2. \A e \in 1..Len(dated) : dated[e].kind = "private"
      <4>1. \A e \in 1..Len(dated) : \E a \in 1..Len(own) : dated[e] = own[a]
        BY <1>4, <3>1 DEF Joined
      <4>2. \A a \in 1..Len(own) : own[a].kind = "private"
        BY <1>1
      <4>3. QED
        BY <4>1, <4>2
    <3>3. DOMAIN dated = 1..Len(dated) /\ "private" # "scheduled"
      BY <1>4 DEF Joined
    <3>4. options = extended
      BY <1>6, <3>2, <3>3
    <3>5. Prices(options) = Prices(own) \cup Prices(more)
      BY <2>1, <2>2, <2>3, <3>4
    <3>6. Covers(Prices(own) \cup Prices(more), hire \cup undated)
      BY <1>22, CoversBoth
    <3>7. QED
      BY <1>23, <2>3, <3>5, <3>6
  <2>4. CASE seats # {}
    <3>1. 1 \in 1..Len(list)
      <4>1. Len(list) # 0
        BY <2>2, <2>4, Zenon
      <4>2. Len(list) \in Nat
        OBVIOUS
      <4>3. QED
        BY <4>1, <4>2
    <3>2. list[1].kind = "scheduled"
      BY <1>2, <3>1, ScheduledFacts
    <3>3. PICK e \in 1..Len(dated) : dated[e] = list[1]
      BY <1>4, <3>1 DEF Joined
    <3>4. e \in DOMAIN dated
      BY <1>4 DEF Joined
    <3>5. options = dated
      BY <1>6, <3>2, <3>3, <3>4
    <3>6. Covers(Prices(own) \cup Prices(list), hire \cup seats)
      BY <1>22, CoversBoth
    <3>7. QED
      BY <1>23, <2>1, <2>4, <3>5, <3>6
  <2>5. QED
    BY <2>3, <2>4
<1>25. Covers(RowPrices(all), offered)
  <2>1. RowPrices(all) \subseteq Prices(options) /\ Prices(options) \in SUBSET Nat
    BY <1>8, <1>16, PricesType DEF RowPrices, Prices
  <2>2. ASSUME NEW t \in Prices(options) PROVE \E r \in RowPrices(all) : r <= t
    <3>1. Len(options) # 0
      BY <1>8, <2>2, PricesType
    <3>2. Len(unique) # 0 /\ Prices(unique) = Prices(options)
      BY <1>8, <1>11, <1>12, <3>1, UniqueFacts
    <3>3. PICK ranked : ranked = Ranked(unique, CheapestOption(unique), FastestOption(unique))
      OBVIOUS
    <3>4. PICK a \in 1..Len(ranked) : \A k \in 1..Len(unique) : ranked[a].option.price <= unique[k].price
      BY <1>12, <3>2, <3>3, RowsFacts
    <3>5. PICK k \in 1..Len(unique) : t = unique[k].price
      BY <3>2 DEF Prices
    <3>6. all = ranked
      BY <1>14, <3>1, <3>3
    <3>7. QED
      BY <3>4, <3>5, <3>6 DEF RowPrices
  <2>3. Covers(RowPrices(all), Prices(options))
    BY <2>1, <2>2 DEF Covers
  <2>4. RowPrices(all) \in SUBSET Nat
    BY <2>1
  <2>5. QED
    BY <1>24, <2>1, <2>3, <2>4, CoversThrough
<1>26. offered = Asked(quote, ground, routes, group)
  BY <1>22, <1>23 DEF Asked
<1>27. QED
  BY <1>13, <1>16, <1>19, <1>20, <1>21, <1>25, <1>26 DEF Serves

\* Nobody who lands on the day of the trip is picked up before that.
LEMMA PickupFacts ==
  ASSUME NEW arrival \in Minute
  PROVE  PickupTimeFor(arrival) >= arrival
<1>1. PICK last \in Nat : last = Midnight - 1
  BY DEF Midnight
<1>2. arrival \in Nat /\ arrival <= last /\ arrival # None
  BY <1>1 DEF Minute, None
<1>3. arrival < 1440
  BY <1>1, <1>2 DEF Midnight
<1>4. arrival % Midnight = arrival
  BY <1>2, <1>3 DEF Midnight
<1>5. PICK later \in Nat : later = arrival + PickupBuffer /\ arrival <= later
  BY <1>2, PickupAssumption
<1>6. PICK S \in SUBSET Nat : S = {later, last}
  OBVIOUS
<1>7. Min(S) \in S
  BY <1>6, LeastOfNats
<1>8. PickupTimeFor(arrival) = Min(S)
  BY <1>1, <1>2, <1>4, <1>5, <1>6 DEF PickupTimeFor
<1>9. QED
  BY <1>2, <1>5, <1>6, <1>7, <1>8

\* The cheapest price of a list is the price of one of it, and no more than any.
LEMMA CheapestPriceFacts ==
  ASSUME NEW all \in Seq(RowsType)
  PROVE  /\ CheapestPrice(all) \in Told
         /\ all # <<>> => CheapestPrice(all) # None /\ CheapestPrice(all) = Min({all[a].option.price : a \in DOMAIN all})
<1>1. DOMAIN all = 1..Len(all) /\ \A a \in DOMAIN all : all[a] \in RowsType
  BY ElementsIn
<1>2. PICK prices \in SUBSET Nat : prices = {all[a].option.price : a \in DOMAIN all}
  <2>1. \A a \in DOMAIN all : all[a].option.price \in Nat
    BY <1>1 DEF RowsType, OfferType
  <2>2. QED
    BY <2>1
<1>3. Least0(prices) \in Told /\ (prices # {} => Least0(prices) \in prices)
  BY Least0Type
<1>4. all # <<>> => prices # {}
  <2>1. all # <<>> => 1 \in DOMAIN all
    BY <1>1, EmptySeq
  <2>2. QED
    BY <1>2, <2>1
<1>5. CheapestPrice(all) = Least0(prices)
  BY <1>2 DEF CheapestPrice
<1>6. prices # {} => Least0(prices) # None /\ Least0(prices) = Min(prices)
  BY <1>3 DEF Least0, None
<1>7. QED
  BY <1>2, <1>3, <1>4, <1>5, <1>6

\* The transfers of a card, by what the providers of its resort quote.
Kept(all, offers, vehicles, group, n, offered) ==
  /\ all \in Seq(RowsType)
  /\ AsksForTransfers => offered \in SUBSET Nat /\ Covers(RowPrices(all), offered)
  /\ \A a \in 1..Len(all) : all[a].option.kind = "private" =>
       \E k \in 1..Len(vehicles) : all[a].option.carrier = vehicles[k].name /\ vehicles[k].seats >= group
  /\ AsksForTransfers \/ all = <<>>
  /\ AsksForTransfers => \A k \in 1..Len(offers) :
       offers[k].price > 0 /\ offers[k].duration # None =>
         \E a \in 1..Len(all) : all[a].option.duration \in 0..offers[k].duration
  /\ AsksForTransfers /\ n <= LiveTransferN => \A k \in 1..Len(vehicles) :
       vehicles[k].seats >= group /\ vehicles[k].duration > 0 =>
         \E a \in 1..Len(all) : all[a].option.duration \in 0..vehicles[k].duration

LEMMA CardTransfers ==
  ASSUME ResponseInv, NEW n \in DOMAIN cards
  PROVE  LET name == cards[n].resort IN
         /\ cards[n].transfers = transfers[n].options
         /\ name = trips[n].resort.name /\ name \in DOMAIN world.flights
         /\ world.ground[name].outbound \in Seq(Journey) /\ world.quote[name].outbound \in Seq(Vehicle)
         /\ AsksForTransfers => cards[n].pickup = PickupTimeFor(ArrivalOf(PickFlights(world.flights[name])))
         /\ Kept(cards[n].transfers, world.ground[name].outbound, world.quote[name].outbound, Prefs.stay.group,
                 n, OfferedPrices(name, n))
<1>1. /\ WorldGiven /\ Accepted /\ trips[n].resort \in Range(world.resorts)
      /\ transfers[n] = IF AsksForTransfers THEN TransfersOf(trips[n], n, Cached)
                        ELSE [pickup |-> AssumedPickup, options |-> <<>>]
  BY CardFacts
<1>2. cards[n].resort = trips[n].resort.name /\ cards[n].transfers = transfers[n].options /\ cards[n].pickup = transfers[n].pickup
  BY CardFields
<1>3. PICK name \in DOMAIN world.flights : name = trips[n].resort.name
  BY <1>1, LiveFacts DEF Accepted
<1>4. PICK quote \in QuoteType, ground \in GroundType, routes \in Seq(Rome2RioRoute) :
        quote = world.quote[name] /\ ground = world.ground[name] /\ routes = world.routes[name]
  BY <1>1, WorldFacts DEF QuoteType, GroundType
<1>5. PICK offers \in Seq(Journey), vehicles \in Seq(Vehicle) : offers = ground.outbound /\ vehicles = quote.outbound
  BY DEF QuoteType, GroundType
<1>6. PICK group \in Nat \ {0} : group = Prefs.stay.group
  <2>1. StayType(Prefs.stay)
    BY <1>1, StayFacts DEF Accepted
  <2>2. PICK g \in 1..20 : g = Prefs.stay.group
    BY <2>1 DEF StayType
  <2>3. g \in Nat \ {0}
    OBVIOUS
  <2>4. QED
    BY <2>2, <2>3
<1>7. PICK all : all = transfers[n].options
  OBVIOUS
<1>8. PICK offered : offered = OfferedPrices(name, n)
  OBVIOUS
<1>9. Kept(all, offers, vehicles, group, n, offered) /\
        (AsksForTransfers => transfers[n].pickup = PickupTimeFor(ArrivalOf(PickFlights(world.flights[name]))))
  <2>1. CASE ~AsksForTransfers
    <3>1. all = <<>> /\ all \in Seq(RowsType)
      BY <1>1, <1>7, <2>1, EmptySeq
    <3>2. 1..Len(all) = {}
      BY <3>1
    <3>3. QED
      BY <2>1, <3>1, <3>2 DEF Kept
  <2>2. CASE AsksForTransfers
    <3>1. PICK cached \in BOOLEAN : cached = Cached /\ transfers[n] = TransfersOf(trips[n], n, cached)
      BY <1>1, <2>2 DEF Cached
    <3>2. PICK both : both = (ReturnDepartureOf(Picks(trips[n])) # None)
      OBVIOUS
    <3>3. PICK private : private = IF n <= LiveTransferN THEN Quote(quote, both, cached)
                                   ELSE [outbound |-> <<>>, back |-> <<>>]
      OBVIOUS
    <3>4. /\ all = AllTransferOptions(private, ground, routes, group)
          /\ transfers[n].pickup = PickupTimeFor(ArrivalOf(PickFlights(world.flights[name])))
      <4>1. Picks(trips[n]) = PickFlights(world.flights[name])
        BY <1>3 DEF Picks
      <4>2. TransfersOf(trips[n], n, cached)
              = [pickup |-> PickupTimeFor(ArrivalOf(Picks(trips[n]))),
                 options |-> AllTransferOptions(private, ground, routes, group)]
        BY <1>3, <1>4, <1>6, <3>2, <3>3, SMTT(40) DEF TransfersOf
      <4>3. QED
        BY <1>7, <3>1, <4>1, <4>2
    <3>5. private \in QuoteType /\ (private.outbound = vehicles \/ private.outbound = <<>>)
          /\ (n <= LiveTransferN => private.outbound = vehicles)
      <4>1. CASE n <= LiveTransferN
        <5>1. private = quote \/ private = [quote EXCEPT !.back = <<>>]
          BY <3>3, <4>1 DEF Quote
        <5>2. QED
          <6>1. PICK back \in Seq(Vehicle) : back = quote.back
            BY DEF QuoteType
          <6>2. <<>> \in Seq(Vehicle)
            BY EmptySeq
          <6>3. quote = [outbound |-> vehicles, back |-> back]
            BY <1>5, <6>1 DEF QuoteType
          <6>4. private = [outbound |-> vehicles, back |-> back] \/ private = [outbound |-> vehicles, back |-> <<>>]
            BY <5>1, <6>3
          <6>5. PICK way \in Seq(Vehicle) : private = [outbound |-> vehicles, back |-> way]
            BY <6>2, <6>4
          <6>6. QED
            BY <6>5 DEF QuoteType
      <4>2. CASE ~(n <= LiveTransferN)
        <5>1. private = [outbound |-> <<>>, back |-> <<>>]
          BY <3>3, <4>2
        <5>2. QED
          BY <4>2, <5>1, EmptySeq DEF QuoteType
      <4>3. QED
        BY <4>1, <4>2
    <3>6. /\ Serves(all, private, ground, group)
          /\ Asked(private, ground, routes, group) \in SUBSET Nat
          /\ Covers(RowPrices(all), Asked(private, ground, routes, group))
      BY <3>4, <3>5, TransferFacts
    <3>7. \A a \in 1..Len(all) : all[a].option.kind = "private" =>
            \E k \in 1..Len(vehicles) : all[a].option.carrier = vehicles[k].name /\ vehicles[k].seats >= group
      <4>1. CASE private.outbound = vehicles
        BY <3>6, <4>1 DEF Serves
      <4>2. CASE private.outbound = <<>>
        <5>1. 1..Len(private.outbound) = {}
          BY <4>2
        <5>2. QED
          BY <3>6, <5>1 DEF Serves
      <4>3. QED
        BY <3>5, <4>1, <4>2
    <3>8. n <= LiveTransferN => \A k \in 1..Len(vehicles) :
            vehicles[k].seats >= group /\ vehicles[k].duration > 0 =>
              \E a \in 1..Len(all) : all[a].option.duration \in 0..vehicles[k].duration
      BY <3>5, <3>6 DEF Serves
    <3>9. \A k \in 1..Len(offers) :
            offers[k].price > 0 /\ offers[k].duration # None =>
              \E a \in 1..Len(all) : all[a].option.duration \in 0..offers[k].duration
      BY <1>5, <3>6 DEF Serves
    <3>10. all \in Seq(RowsType)
      BY <3>6 DEF Serves
    <3>11. offered = Asked(private, ground, routes, group)
      <4>1. PICK hire : hire = HirePrices(private.outbound, private.back, group)
        OBVIOUS
      <4>2. PICK known \in BOOLEAN : known = (ReturnDepartureOf(PickFlights(world.flights[name])) # None /\ earlier = <<>>)
        OBVIOUS
      <4>3. known <=> both /\ ~cached
        BY <1>3, <3>1, <3>2, <4>2 DEF Picks, Cached
      <4>4. hire = IF n <= LiveTransferN
                     THEN HirePrices(vehicles, IF known THEN quote.back ELSE <<>>, group) ELSE {}
        <5>1. CASE n <= LiveTransferN
          <6>1. PICK back \in Seq(Vehicle) : back = quote.back
            BY DEF QuoteType
          <6>2. quote = [outbound |-> vehicles, back |-> back]
            BY <1>5, <6>1 DEF QuoteType
          <6>3. private.outbound = vehicles /\ private.back = IF known THEN back ELSE <<>>
            BY <3>3, <4>3, <5>1, <6>2 DEF Quote
          <6>4. QED
            BY <4>1, <5>1, <6>1, <6>3
        <5>2. CASE ~(n <= LiveTransferN)
          <6>1. private = [outbound |-> <<>>, back |-> <<>>]
            BY <3>3, <5>2
          <6>2. Range(private.outbound) = {} /\ Range(private.back) = {}
            BY <6>1 DEF Range
          <6>3. hire = {}
            BY <4>1, <6>2 DEF HirePrices
          <6>4. QED
            BY <5>2, <6>3
        <5>3. QED
          BY <5>1, <5>2
      <4>5. QED
        BY <1>4, <1>5, <1>6, <1>8, <4>1, <4>2, <4>4 DEF OfferedPrices, Asked
    <3>12. QED
      BY <2>2, <3>4, <3>6, <3>7, <3>8, <3>9, <3>10, <3>11 DEF Kept
  <2>3. QED
    BY <2>1, <2>2
<1>10. QED
  BY <1>2, <1>3, <1>4, <1>5, <1>6, <1>7, <1>9, <1>8

\* The transfer in the price of a card is the cheapest that it lists.
LEMMA CardTransferPrice ==
  ASSUME ResponseInv, NEW n \in DOMAIN cards
  PROVE  /\ trips[n].cost \in CostType /\ cards[n].transfers \in Seq(RowsType)
         /\ cards[n].transfers = <<>> \/ cards[n].cost.transfer = CheapestPrice(cards[n].transfers)
         /\ \/ cards[n].cost = trips[n].cost
            \/ \E price \in Nat : cards[n].cost = ApplyLivePrice(trips[n].cost, "transfer", price)
<1>1. trips[n] \in TripType
  BY CardFacts
<1>2. PICK cost \in CostType : cost = trips[n].cost
  BY <1>1 DEF TripType
<1>3. PICK all : all = transfers[n].options
  OBVIOUS
<1>4. cards[n].transfers = all /\ all \in Seq(RowsType)
  BY <1>3, CardTransfers DEF Kept
<1>5. PICK price : price = CheapestPrice(all)
  OBVIOUS
<1>6. cards[n].cost = IF price = None THEN cost ELSE ApplyLivePrice(cost, "transfer", price)
  BY <1>2, <1>3, <1>5, CardFields
<1>7. price \in Told /\ (all # <<>> => price # None)
  BY <1>4, <1>5, CheapestPriceFacts
<1>8. CASE price = None
  BY <1>2, <1>4, <1>6, <1>7, <1>8
<1>9. CASE price # None
  <2>1. price \in Nat
    BY <1>7, <1>9 DEF Told
  <2>2. PICK part \in LiveParts : part = "transfer"
    BY DEF LiveParts
  <2>3. PICK c : c = ApplyLivePrice(cost, part, price)
    OBVIOUS
  <2>4. c[part] = price
    BY <2>1, <2>3, AppliedFacts
  <2>5. cards[n].cost = c /\ c.transfer = price
    BY <1>6, <1>9, <2>2, <2>3, <2>4
  <2>6. QED
    BY <1>2, <1>4, <1>5, <2>1, <2>2, <2>3, <2>5
<1>10. QED
  BY <1>8, <1>9

\* However many offers the providers make and however few rows are listed: the
\* transfer in the price is the cheapest of all those offers and a row has it,
\* no journey offered is faster than all the rows, a private vehicle seats the
\* party, and nobody who lands on the day of the trip is picked up before that
\* (rank_transfer_options, all_transfer_options, _pickup_time_for).
THEOREM ResponseTransfersAreSound == ResponseSpec => []TransferListIsSound
<1>1. ASSUME ResponseInv PROVE TransferListIsSound
  <2> SUFFICES ASSUME NEW n \in DOMAIN cards
               PROVE  LET c == cards[n]
                          offers == world.ground[c.resort].outbound
                          vehicles == Range(world.quote[c.resort].outbound)
                          landing == ArrivalOf(PickFlights(world.flights[c.resort]))
                          shown == {c.transfers[i].option : i \in DOMAIN c.transfers}
                          offered == OfferedPrices(c.resort, n)
                      IN  /\ AsksForTransfers /\ offered # {} =>
                               c.cost.transfer = Min(offered) /\ \E o \in shown : o.price = c.cost.transfer
                          /\ \A o \in shown : o.kind = "private" =>
                               \E v \in vehicles : v.name = o.carrier /\ v.seats >= Prefs.stay.group
                          /\ shown # {} => \A j \in Range(offers) :
                               j.price > 0 /\ j.duration # None => \E o \in shown : o.duration \in 0..j.duration
                          /\ shown # {} /\ n <= LiveTransferN => \A v \in vehicles :
                               v.seats >= Prefs.stay.group /\ v.duration > 0 => \E o \in shown : o.duration \in 0..v.duration
                          /\ AsksForTransfers /\ landing \in Minute => c.pickup >= landing
    BY DEF TransferListIsSound
  <2>1. PICK all \in Seq(RowsType) : all = cards[n].transfers
    BY <1>1, CardTransferPrice
  <2>2. PICK name \in DOMAIN world.flights : name = cards[n].resort
    BY <1>1, CardTransfers
  <2>3. PICK offers \in Seq(Journey), vehicles \in Seq(Vehicle) :
          offers = world.ground[name].outbound /\ vehicles = world.quote[name].outbound
    BY <1>1, <2>2, CardTransfers
  <2>4. PICK group : group = Prefs.stay.group
    OBVIOUS
  <2>5. PICK offered : offered = OfferedPrices(name, n)
    OBVIOUS
  <2>6. Kept(all, offers, vehicles, group, n, offered)
    BY <1>1, <2>1, <2>2, <2>3, <2>4, <2>5, CardTransfers
  <2>7. PICK shown : shown = {all[i].option : i \in DOMAIN all}
    OBVIOUS
  <2>8. DOMAIN all = 1..Len(all) /\ DOMAIN offers = 1..Len(offers) /\ DOMAIN vehicles = 1..Len(vehicles)
    OBVIOUS
  <2>9. shown # {} => all # <<>> /\ AsksForTransfers
    BY <2>6, <2>7 DEF Kept
  <2>10. ASSUME AsksForTransfers, offered # {}
         PROVE  cards[n].cost.transfer = Min(offered) /\ \E o \in shown : o.price = cards[n].cost.transfer
    <3>1. PICK prices \in SUBSET Nat : prices = RowPrices(all)
      <4>1. \A a \in 1..Len(all) : all[a].option.price \in Nat
        <5>1. \A a \in 1..Len(all) : all[a] \in RowsType
          BY ElementsIn
        <5>2. QED
          BY <5>1 DEF RowsType, OfferType
      <4>2. QED
        BY <4>1 DEF RowPrices
    <3>2. offered \in SUBSET Nat /\ Covers(prices, offered)
      BY <2>6, <2>10, <3>1 DEF Kept
    <3>3. prices # {} /\ Min(prices) = Min(offered) /\ Min(prices) \in prices
      BY <2>10, <3>2, CoversLeast
    <3>4. PICK a \in 1..Len(all) : Min(prices) = all[a].option.price
      BY <3>1, <3>3 DEF RowPrices
    <3>5. all # <<>>
      BY <3>4
    <3>6. CheapestPrice(all) = Min(prices)
      <4>1. prices = {all[i].option.price : i \in DOMAIN all}
        BY <2>8, <3>1 DEF RowPrices
      <4>2. QED
        BY <3>5, <4>1, CheapestPriceFacts
    <3>7. cards[n].cost.transfer = Min(prices)
      BY <1>1, <2>1, <3>5, <3>6, CardTransferPrice
    <3>8. all[a].option \in shown
      BY <2>7, <2>8
    <3>9. QED
      BY <3>3, <3>4, <3>7, <3>8
  <2>11. ASSUME NEW o \in shown, o.kind = "private"
         PROVE  \E v \in Range(vehicles) : v.name = o.carrier /\ v.seats >= group
    <3>1. PICK a \in 1..Len(all) : o = all[a].option
      BY <2>7, <2>8
    <3>2. PICK k \in 1..Len(vehicles) : all[a].option.carrier = vehicles[k].name /\ vehicles[k].seats >= group
      BY <2>6, <2>11, <3>1 DEF Kept
    <3>3. vehicles[k] \in Range(vehicles)
      BY <2>8 DEF Range
    <3>4. QED
      BY <3>1, <3>2, <3>3
  <2>12. ASSUME shown # {}, NEW j \in Range(offers), j.price > 0, j.duration # None
         PROVE  \E o \in shown : o.duration \in 0..j.duration
    <3>1. PICK k \in 1..Len(offers) : j = offers[k]
      BY <2>8 DEF Range
    <3>2. PICK a \in 1..Len(all) : all[a].option.duration \in 0..offers[k].duration
      BY <2>6, <2>9, <2>12, <3>1 DEF Kept
    <3>3. all[a].option \in shown
      BY <2>7, <2>8
    <3>4. QED
      BY <3>1, <3>2, <3>3
  <2>13. ASSUME shown # {}, n <= LiveTransferN, NEW v \in Range(vehicles), v.seats >= group, v.duration > 0
         PROVE  \E o \in shown : o.duration \in 0..v.duration
    <3>1. PICK k \in 1..Len(vehicles) : v = vehicles[k]
      BY <2>8 DEF Range
    <3>2. PICK a \in 1..Len(all) : all[a].option.duration \in 0..vehicles[k].duration
      BY <2>6, <2>9, <2>13, <3>1 DEF Kept
    <3>3. all[a].option \in shown
      BY <2>7, <2>8
    <3>4. QED
      BY <3>1, <3>2, <3>3
  <2>14. PICK landing : landing = ArrivalOf(PickFlights(world.flights[name]))
    OBVIOUS
  <2>15. ASSUME AsksForTransfers, landing \in Minute PROVE cards[n].pickup >= landing
    <3>1. cards[n].pickup = PickupTimeFor(landing)
      BY <1>1, <2>2, <2>14, <2>15, CardTransfers
    <3>2. QED
      BY <2>15, <3>1, PickupFacts
  <2>16. \A o \in shown : o.kind = "private" => \E v \in Range(vehicles) : v.name = o.carrier /\ v.seats >= group
    BY <2>11
  <2>17. shown # {} => \A j \in Range(offers) :
           j.price > 0 /\ j.duration # None => \E o \in shown : o.duration \in 0..j.duration
    BY <2>12
  <2>18. shown # {} /\ n <= LiveTransferN => \A v \in Range(vehicles) :
           v.seats >= group /\ v.duration > 0 => \E o \in shown : o.duration \in 0..v.duration
    BY <2>13
  <2>19. AsksForTransfers /\ landing \in Minute => cards[n].pickup >= landing
    BY <2>15
  <2>20. /\ cards[n].transfers = all /\ cards[n].resort = name /\ Prefs.stay.group = group
         /\ world.ground[name].outbound = offers /\ world.quote[name].outbound = vehicles
         /\ ArrivalOf(PickFlights(world.flights[name])) = landing
         /\ {all[i].option : i \in DOMAIN all} = shown /\ OfferedPrices(name, n) = offered
    BY <2>1, <2>2, <2>3, <2>4, <2>7, <2>14, <2>5
  <2>21. {cards[n].transfers[i].option : i \in DOMAIN cards[n].transfers} = shown
    BY <2>20
  <2>22. /\ world.ground[cards[n].resort].outbound = offers /\ world.quote[cards[n].resort].outbound = vehicles
         /\ ArrivalOf(PickFlights(world.flights[cards[n].resort])) = landing
         /\ OfferedPrices(cards[n].resort, n) = offered
    BY <2>20
  <2>23. AsksForTransfers /\ offered # {} =>
           cards[n].cost.transfer = Min(offered) /\ \E o \in shown : o.price = cards[n].cost.transfer
    BY <2>10
  <2>24. QED
    BY <2>23, <2>16, <2>17, <2>18, <2>19, <2>20, <2>21, <2>22, Zenon
<1>2. QED
  BY <1>1, ResponseInvHolds, PTL

-----------------------------------------------------------------------------
\* One price for the trip.

\* The buffer rises with what it is a share of, and is
\* none of nothing.
LEMMA BufferRises ==
  ASSUME NEW a \in Int, NEW b \in Int, a <= b
  PROVE  a + Buffer(a) <= b + Buffer(b)
<1>1. PICK x \in Int : x = Buffer(a) /\ 20 * x - a <= 10 /\ a - 20 * x <= 10
  BY BufferFacts
<1>2. PICK y \in Int : y = Buffer(b) /\ 20 * y - b <= 10 /\ b - 20 * y <= 10
  BY BufferFacts
<1>3. a + x <= b + y
  BY <1>1, <1>2
<1>4. QED
  BY <1>1, <1>2, <1>3

LEMMA BufferOfNothing == Buffer(0) = 0
<1>1. PICK x \in Int : x = Buffer(0) /\ 20 * x - 0 <= 10 /\ 0 - 20 * x <= 10
  BY BufferFacts
<1>2. QED
  BY <1>1

\* The price of a trip at a fare rises with the fare, and is the price of the
\* trip at its own.
LEMMA TotalAtFare ==
  ASSUME NEW cost \in CostType, NEW p \in Int, NEW q \in Int
  PROVE  /\ TotalEur(ApplyLivePrice(cost, "flight", p)) \in Int
         /\ p = cost.flight => TotalEur(ApplyLivePrice(cost, "flight", p)) = TotalEur(cost)
         /\ p <= q => TotalEur(ApplyLivePrice(cost, "flight", p)) <= TotalEur(ApplyLivePrice(cost, "flight", q))
<1>1. PICK part \in LiveParts : part = "flight"
  BY DEF LiveParts
<1>2. PICK own \in Int, total \in Int : own = cost.flight /\ total = TotalEur(cost)
  BY TotalType DEF CostType
<1>3. ASSUME NEW x \in Int
      PROVE  /\ TotalEur(ApplyLivePrice(cost, part, x)) = total + x - own + Buffer(x - own)
             /\ Buffer(x - own) \in Int
  <2>1. cost[part] = own
    BY <1>1, <1>2
  <2>2. TotalEur(ApplyLivePrice(cost, part, x)) = TotalEur(cost) + x - cost[part] + Buffer(x - cost[part])
    BY AppliedFacts
  <2>3. QED
    BY <1>2, <2>1, <2>2, BufferType
<1>4. PICK a \in Int, b \in Int : a = p - own /\ b = q - own
  OBVIOUS
<1>5. PICK x \in Int, y \in Int : x = Buffer(a) /\ y = Buffer(b)
  BY BufferType
<1>6. /\ TotalEur(ApplyLivePrice(cost, part, p)) = total + p - own + x
      /\ TotalEur(ApplyLivePrice(cost, part, q)) = total + q - own + y
  BY <1>3, <1>4, <1>5
<1>7. p = own => x = 0
  BY <1>4, <1>5, BufferOfNothing
<1>8. p <= q => a + x <= b + y
  <2>1. p <= q => a <= b
    BY <1>4
  <2>2. QED
    BY <1>5, <2>1, BufferRises
<1>9. PICK t \in Int, u \in Int : t = total + p - own + x /\ u = total + q - own + y
  OBVIOUS
<1>10. (p = own => t = total) /\ (p <= q => t <= u)
  BY <1>4, <1>7, <1>8, <1>9
<1>11. QED
  BY <1>1, <1>2, <1>6, <1>9, <1>10

\* The buffer of a card is within two cents of a twentieth of its other parts.
LEMMA CardCostType ==
  ASSUME ResponseInv, NEW n \in DOMAIN cards
  PROVE  cards[n].cost \in CostType /\ Within(cards[n].cost, 40)
<1>1. WorldGiven /\ Accepted /\ trips[n] \in ResultType
  BY CardFacts
<1>2. PICK cost \in CostType : cost = trips[n].cost /\ Within(cost, 30)
  BY <1>1, RowCostFacts
<1>3. Off(cost) \in Int
  BY TotalType DEF Off, CostType
<1>4. CASE cards[n].cost = cost
  BY <1>2, <1>3, <1>4 DEF Within
<1>5. CASE \E price \in Nat : cards[n].cost = ApplyLivePrice(cost, "transfer", price)
  <2>1. PICK price \in Nat : cards[n].cost = ApplyLivePrice(cost, "transfer", price)
    BY <1>5
  <2>2. PICK part \in LiveParts : part = "transfer"
    BY DEF LiveParts
  <2>3. PICK k \in Nat : k = 30
    OBVIOUS
  <2>4. /\ ApplyLivePrice(cost, part, price) \in CostType
        /\ Within(cost, k) => Within(ApplyLivePrice(cost, part, price), k + 10)
    BY AppliedFacts
  <2>5. QED
    BY <1>2, <2>1, <2>2, <2>3, <2>4
<1>6. QED
  BY <1>2, <1>4, <1>5, CardTransferPrice

\* Which is what the property asks of it.
LEMMA WithinIsApart ==
  ASSUME NEW cost \in CostType, Within(cost, 40)
  PROVE  Apart(20 * cost.misc, Subtotal(cost)) <= 40
<1>1. PICK a \in Int, b \in Int : a = 20 * cost.misc /\ b = Subtotal(cost)
  BY TotalType DEF CostType
<1>2. a - b <= 40 /\ b - a <= 40
  BY <1>1 DEF Within, Off
<1>3. QED
  BY <1>1, <1>2 DEF Apart

\* The fare a row is priced at is the lowest on sale.
LEMMA FareIsLowest ==
  ASSUME ResponseInv, NEW n \in DOMAIN cards, cards[n].flights # <<>>
  PROVE  LET options == world.flights[cards[n].resort] IN
         /\ \E i \in 1..Len(options) : cards[n].cost.flight = options[i].price
         /\ \A i \in 1..Len(options) : cards[n].cost.flight <= options[i].price
<1>1. PICK options \in Seq(FlightOption) : options = world.flights[cards[n].resort] /\ Len(options) # 0
  BY CardFlights
<1>2. "flight" \in WithTransfer(trips[n], transfers[n].options).cost.live
  BY CardFlights
<1>3. PICK r : r = trips[n].resort
  OBVIOUS
<1>4. WorldGiven /\ Allows(world.request) /\ r \in Range(world.resorts) /\ cards[n].resort = r.name
  BY <1>3, CardFacts, CardFields DEF Accepted
<1>5. cards[n].cost.flight = LivePrices[r.name].flight
  BY <1>2, <1>3, CardCostFacts
<1>6. PICK fares : fares = {world.flights[r.name][i].price : i \in DOMAIN world.flights[r.name]}
  OBVIOUS
<1>7. LivePrices[r.name].flight = Least0(fares)
  <2>1. PICK bed : bed = LiveBedCost(world.hotels[r.name], Prefs.filter, Prefs.type, Prefs.stay)
    OBVIOUS
  <2>2. LivePrices[r.name] = [flight |-> Least0(fares), accommodation |-> bed]
    BY <1>4, <1>6, <2>1, LiveFacts
  <2>3. QED
    BY <2>2
<1>8. DOMAIN options = 1..Len(options) /\ \A i \in 1..Len(options) : options[i].price \in Nat
  <2>1. DOMAIN options = 1..Len(options) /\ \A i \in 1..Len(options) : options[i] \in FlightOption
    BY ElementsIn
  <2>2. QED
    BY <2>1 DEF FlightOption
<1>9. fares = {options[i].price : i \in 1..Len(options)}
  BY <1>1, <1>4, <1>6, <1>8
<1>10. fares \in SUBSET Nat /\ fares # {}
  <2>1. 1 \in 1..Len(options)
    BY <1>1
  <2>2. QED
    BY <1>8, <1>9, <2>1
<1>11. Least0(fares) \in fares /\ \A x \in fares : Least0(fares) <= x
  BY <1>10, Least0Type
<1>12. QED
  BY <1>1, <1>5, <1>7, <1>9, <1>11

\* Of the picks the fastest is the dearest.
LEMMA FastestIsDearest ==
  ASSUME NEW options \in Seq(FlightOption), Len(options) # 0,
         NEW a \in 1..Len(PickFlights(options)), NEW b \in 1..Len(PickFlights(options)),
         "fastest" \in PickFlights(options)[a].roles
  PROVE  PickFlights(options)[b].option.price <= PickFlights(options)[a].option.price
<1>1. PICK picks : picks = PickFlights(options)
  OBVIOUS
<1>2. \A c \in 1..Len(picks) : \E i \in 1..Len(options) :
        /\ picks[c].option = options[i] /\ Unbeaten(options, i)
        /\ "fastest" \in picks[c].roles => i = Fastest(options)
  BY <1>1, PickFacts
<1>3. PICK f \in 1..Len(options) : f = Fastest(options) /\ \A j \in 1..Len(options) : options[f].duration <= options[j].duration
  BY RoleFacts
<1>4. picks[a].option = options[f]
  BY <1>1, <1>2, <1>3
<1>5. PICK i \in 1..Len(options) : picks[b].option = options[i] /\ Unbeaten(options, i)
  BY <1>1, <1>2
<1>6. options[f] \in FlightOption /\ options[i] \in FlightOption
  BY ElementsIn
<1>7. PICK p \in Nat, q \in Nat, d \in Nat, e \in Nat :
        p = options[f].price /\ q = options[i].price /\ d = options[f].duration /\ e = options[i].duration
  BY <1>6 DEF FlightOption
<1>8. d <= e /\ ~(p <= q /\ d <= e /\ p + d < q + e)
  BY <1>3, <1>5, <1>7 DEF Unbeaten
<1>9. q <= p
  BY <1>8
<1>10. QED
  BY <1>1, <1>4, <1>5, <1>7, <1>9

\* Two cards are not of the same resort and day.
LEMMA CardsAreDistinct ==
  ASSUME ResponseInv, NEW i \in DOMAIN cards, NEW n \in DOMAIN cards,
         cards[i].resort = cards[n].resort, cards[i].start = cards[n].start
  PROVE  i = n
<1>1. WorldGiven /\ NoTwins(trips) /\ i \in 1..Len(trips) /\ n \in 1..Len(trips)
  BY CardFacts
<1>2. trips[i].resort \in Range(world.resorts) /\ trips[n].resort \in Range(world.resorts)
  BY CardFacts
<1>3. PICK j \in DOMAIN world.resorts, k \in DOMAIN world.resorts :
        trips[i].resort = world.resorts[j] /\ trips[n].resort = world.resorts[k]
  BY <1>2 DEF Range
<1>4. trips[i].resort.name = trips[n].resort.name /\ trips[i].start = trips[n].start
  BY CardFields
<1>5. j = k
  BY <1>1, <1>3, <1>4, WorldFacts
<1>6. QED
  BY <1>1, <1>3, <1>4, <1>5 DEF NoTwins

\* A day of the calendar has the price of its card.
LEMMA CellFacts ==
  ASSUME ResponseInv, NEW n \in DOMAIN cards, NEW cell \in calendar,
         cell.resort = cards[n].resort, cell.start = cards[n].start
  PROVE  cell.total = TotalEur(cards[n].cost)
<1>1. calendar = CellsOf(cards) /\ DOMAIN cards = 1..Len(trips) /\ n \in 1..Len(trips)
  BY CardFacts
<1>2. PICK c : cell = Cell(c, cards)
  BY <1>1 DEF CellsOf
<1>3. PICK own : own = {i \in DOMAIN cards : cards[i].resort = c.resort /\ cards[i].start = c.start}
  OBVIOUS
<1>4. PICK total : total = TotalEur(IF own = {} THEN Snapshot(c) ELSE cards[Max(own)].cost)
  OBVIOUS
<1>5. cell = [resort |-> c.resort, start |-> c.start, total |-> total]
  BY <1>2, <1>3, <1>4 DEF Cell
<1>6. cell.resort = c.resort /\ cell.start = c.start /\ cell.total = total
  BY <1>5
<1>7. own = {n}
  <2>1. n \in own
    BY <1>3, <1>6
  <2>2. ASSUME NEW i \in own PROVE i = n
    <3>1. i \in DOMAIN cards /\ cards[i].resort = cards[n].resort /\ cards[i].start = cards[n].start
      BY <1>3, <1>6
    <3>2. QED
      BY <3>1, CardsAreDistinct
  <2>3. QED
    BY <2>1, <2>2
<1>8. Max(own) = n
  <2>1. n \in Nat
    BY <1>1
  <2>2. own \in SUBSET Nat /\ own # {} /\ \A x \in own : x <= n
    BY <1>7, <2>1
  <2>3. Max(own) \in own
    BY <2>1, <2>2, GreatestOfNats
  <2>4. QED
    BY <1>7, <2>3
<1>9. QED
  BY <1>4, <1>6, <1>7, <1>8

\* A trip has one price: its card's, its first flight's, its day's in the
\* calendar, and the price with the fastest flight is the fastest's; and the
\* buffer is a twentieth of the rest (_flight_options_out, _date_prices_out,
\* apply_live_*).
THEOREM ResponseHasOnePrice == ResponseSpec => []OnePriceForTheTrip
<1>1. ASSUME ResponseInv PROVE OnePriceForTheTrip
  <2> SUFFICES ASSUME NEW n \in DOMAIN cards
               PROVE  LET c == cards[n] IN
                      /\ Apart(20 * c.cost.misc, Subtotal(c.cost)) <= 40
                      /\ c.flights # <<>> =>
                           /\ c.flights[1].total = TotalEur(c.cost)
                           /\ \A f \in Range(c.flights) : "fastest" \in f.roles => f.total = c.withFastest
                      /\ \A cell \in calendar :
                           cell.resort = c.resort /\ cell.start = c.start => cell.total = TotalEur(c.cost)
    BY DEF OnePriceForTheTrip
  <2>1. PICK cost \in CostType : cost = cards[n].cost /\ Within(cost, 40)
    BY <1>1, CardCostType
  <2>2. Apart(20 * cost.misc, Subtotal(cost)) <= 40
    BY <2>1, WithinIsApart
  <2>3. \A cell \in calendar :
          cell.resort = cards[n].resort /\ cell.start = cards[n].start => cell.total = TotalEur(cost)
    BY <1>1, <2>1, CellFacts
  <2>4. ASSUME cards[n].flights # <<>>
        PROVE  /\ cards[n].flights[1].total = TotalEur(cost)
               /\ \A f \in Range(cards[n].flights) : "fastest" \in f.roles => f.total = cards[n].withFastest
    <3>1. PICK flights : flights = cards[n].flights
      OBVIOUS
    <3>2. PICK options \in Seq(FlightOption) : options = world.flights[cards[n].resort] /\ Len(options) # 0
      BY <1>1, <2>4, CardFlights
    <3>3. PICK picks \in Seq(PickType) :
            /\ picks = PickFlights(options) /\ Len(picks) # 0
            /\ \A a \in 1..Len(picks) : \E i \in 1..Len(options) : picks[a].option = options[i]
            /\ \A j \in 1..Len(options) : picks[1].option.price <= options[j].price
      BY <3>2, PickFacts
    <3>4. PICK row : row = WithTransfer(trips[n], transfers[n].options)
      OBVIOUS
    <3>5. row.cost = cost /\ flights = FlightRows(row)
      BY <1>1, <2>1, <2>4, <3>1, <3>4, CardFields
    <3>6. /\ DOMAIN flights = 1..Len(picks)
          /\ \A a \in 1..Len(picks) :
               /\ flights[a].roles = picks[a].roles
               /\ flights[a].total = TotalEur(ApplyLivePrice(cost, "flight", picks[a].option.price))
      <4>1. /\ DOMAIN flights = 1..Len(picks)
            /\ \A a \in 1..Len(picks) :
                 /\ flights[a].roles = picks[a].roles
                 /\ flights[a].total = TotalEur(ApplyLivePrice(row.cost, "flight", picks[a].option.price))
        BY <1>1, <2>4, <3>1, <3>2, <3>3, <3>4, CardFlights
      <4>2. QED
        BY <3>5, <4>1
    <3>7. \A a \in 1..Len(picks) : picks[a].option.price \in Nat
      <4>1. \A a \in 1..Len(picks) : picks[a] \in PickType
        BY ElementsIn
      <4>2. QED
        BY <4>1 DEF PickType, FlightOption
    <3>8. 1 \in 1..Len(picks)
      BY <3>3
    <3>9. picks[1].option.price = cost.flight
      <4>1. PICK i \in 1..Len(options) : cost.flight = options[i].price
        BY <1>1, <2>1, <2>4, <3>2, FareIsLowest
      <4>2. PICK j \in 1..Len(options) : picks[1].option = options[j]
        BY <3>3, <3>8
      <4>3. cost.flight <= options[j].price
        BY <1>1, <2>1, <2>4, <3>2, FareIsLowest
      <4>4. picks[1].option.price <= cost.flight /\ cost.flight <= picks[1].option.price
        BY <3>3, <4>1, <4>2, <4>3
      <4>5. cost.flight \in Int /\ picks[1].option.price \in Int
        BY <3>7, <3>8 DEF CostType
      <4>6. QED
        BY <4>4, <4>5
    <3>10. flights[1].total = TotalEur(cost)
      <4>1. PICK p \in Int : p = picks[1].option.price
        BY <3>7, <3>8
      <4>2. TotalEur(ApplyLivePrice(cost, "flight", p)) = TotalEur(cost)
        BY <3>9, <4>1, TotalAtFare
      <4>3. QED
        BY <3>6, <3>8, <4>1, <4>2
    <3>11. PICK m \in Nat \ {0} : m = Len(picks)
      BY <3>3
    <3> DEFINE totals == [a \in 1..m |-> flights[a].total]
    <3>12. totals \in [1..m -> Int] /\ \A a \in 1..m : totals[a] = flights[a].total
      <4>1. ASSUME NEW a \in 1..m PROVE flights[a].total \in Int
        <5>1. PICK p \in Int : p = picks[a].option.price
          BY <3>7, <3>11
        <5>2. QED
          BY <3>6, <3>11, <5>1, TotalAtFare
      <4>2. QED
        BY <4>1
    <3> HIDE DEF totals
    <3>13. PICK all : all = {totals[a] : a \in 1..m}
      OBVIOUS
    <3>14. cards[n].withFastest = Max(all)
      <4>1. cards[n].withFastest = Max({flights[i].total : i \in DOMAIN flights})
        <5>1. cards[n].withFastest =
                IF cards[n].flights = <<>> THEN None
                ELSE Max({cards[n].flights[i].total : i \in DOMAIN cards[n].flights})
          BY <1>1, CardFields
        <5>2. cards[n].withFastest = IF flights = <<>> THEN None ELSE Max({flights[i].total : i \in DOMAIN flights})
          BY <3>1, <5>1, Zenon
        <5>3. QED
          BY <2>4, <3>1, <5>2
      <4>2. {flights[i].total : i \in DOMAIN flights} = all
        BY <3>6, <3>11, <3>12, <3>13
      <4>3. QED
        BY <4>1, <4>2
    <3>15. Max(all) \in all /\ \A x \in all : x <= Max(all)
      BY <3>12, <3>13, ExtremesAmong
    <3>16. ASSUME NEW f \in Range(flights), "fastest" \in f.roles PROVE f.total = Max(all)
      <4>1. PICK a \in 1..m : f = flights[a]
        BY <3>6, <3>11 DEF Range
      <4>2. "fastest" \in picks[a].roles
        BY <3>6, <3>11, <3>16, <4>1
      <4>3. ASSUME NEW b \in 1..m PROVE totals[b] <= totals[a]
        <5>1. PICK p \in Int, q \in Int : p = picks[b].option.price /\ q = picks[a].option.price
          BY <3>7, <3>11
        <5>2. p <= q
          BY <3>2, <3>3, <3>11, <4>2, <5>1, FastestIsDearest
        <5>3. TotalEur(ApplyLivePrice(cost, "flight", p)) <= TotalEur(ApplyLivePrice(cost, "flight", q))
          BY <5>2, TotalAtFare
        <5>4. QED
          BY <3>6, <3>11, <3>12, <5>1, <5>3
      <4>4. PICK b \in 1..m : Max(all) = totals[b]
        BY <3>13, <3>15
      <4>5. totals[a] <= totals[b] /\ totals[b] <= totals[a]
        BY <3>13, <3>15, <4>3, <4>4
      <4>6. totals[a] \in Int /\ totals[b] \in Int
        BY <3>12
      <4>7. QED
        BY <3>12, <4>1, <4>4, <4>5, <4>6
    <3>17. QED
      BY <3>1, <3>10, <3>14, <3>16
  <2>5. QED
    BY <2>1, <2>2, <2>3, <2>4
<1>2. QED
  BY <1>1, ResponseInvHolds, PTL

==============================================================================
