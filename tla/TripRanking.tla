---------------------------- MODULE TripRanking ----------------------------
(***************************************************************************)
(* engine/scoring and engine/reranker: the resorts that are candidates, the *)
(* score of a trip, the ranking of all of them and what a live price and    *)
(* the snow change in it.  A component of a score is in thousandths, a      *)
(* score in ten-thousandths.                                                *)
(***************************************************************************)
EXTENDS TripCosts

CONSTANTS
  LiveRepriceN,     \* live_reprice_n
  SnowLookups,      \* _SNOW_RERANK_LOOKUPS
  DepthBands        \* _DEPTH_BANDS, deepest first: records of depth and score

ASSUME RankingAssumption ==
  LiveRepriceN \in Nat /\ SnowLookups \in Nat /\ DepthBands \in Seq([depth : Int, score : Int])

Dimensions == {"ski_quality", "price", "snow", "nightlife", "convenience", "accommodation", "family"}

\* A value brought into the range, and its place among all values.
Clipped(value) == Max({0, Min({1000, value})})
Normalized(value, all) ==
  IF Max(all) = Min(all) THEN 500
  ELSE Clipped(Share(1000 * Max({0, value - Min(all)}), Max(all) - Min(all)))

-----------------------------------------------------------------------------
(* Candidates.  Resorts are records, compared by name.                      *)

\* narrow_resort_pool
Narrowed(resorts, prefs) ==
  Where(resorts, LAMBDA r :
    IF prefs.target # {} THEN r.name \in prefs.target
    ELSE (prefs.include # {} => r.name \in prefs.include) /\ r.name \notin prefs.exclude)

\* passes_hard_constraints
Affordable(prefs, cost) == TotalEur(cost) <= prefs.budget

-----------------------------------------------------------------------------
(* score_resort                                                             *)

\* TerrainMix: what the skier can ski, and what engages them, in percent.
FractionForSkill(terrain, skill) ==
  terrain.beginner + (IF skill # "beginner" THEN terrain.intermediate ELSE 0) +
  (IF skill \in {"advanced", "expert"} THEN terrain.advanced ELSE 0)
ChallengeForSkill(terrain, skill) ==
  terrain.advanced + (IF skill \in {"beginner", "intermediate"} THEN terrain.intermediate ELSE 0) +
  (IF skill = "beginner" THEN terrain.beginner ELSE 0)

\* _skill_terrain_match
TerrainMatch(terrain, skill) ==
  LET suitability == FractionForSkill(terrain, skill)
      challenge == ChallengeForSkill(terrain, skill)
  IN  CASE skill = "beginner" -> 10 * suitability
        [] skill = "intermediate" -> 7 * suitability + 3 * challenge
        [] OTHER -> 3 * suitability + 7 * challenge

\* _SKI_QUALITY_WEIGHTS: of the pistes, of what lies beside them, of the match.
QualityWeights ==
  [beginner |-> <<20, 5, 75>>, intermediate |-> <<20, 35, 45>>,
   advanced |-> <<20, 50, 30>>, expert |-> <<15, 55, 30>>]

\* _ski_quality_score: without terrain data, the other two by their weights.
SkiQuality(resort, skill, piste) ==
  LET w == QualityWeights[skill] IN
  IF resort.terrain = {} THEN Share(w[1] * piste + w[2] * 200 * resort.offPiste, w[1] + w[2])
  ELSE LET terrain == CHOOSE t \in resort.terrain : TRUE IN
       Share(w[1] * piste + w[2] * 200 * resort.offPiste + w[3] * TerrainMatch(terrain, skill), 100)

TierTarget == [budget |-> 150, standard |-> 500, luxury |-> 850]
Apart(a, b) == IF a < b THEN b - a ELSE a - b

PriceScore(prefs, total) == Clipped(1000 - Share(1000 * total, prefs.budget))

\* Ranges are those of all the resorts, also where only some are candidates.
Components(resort, prefs, total, resorts) ==
  LET Among(field) == {resorts[i][field] : i \in DOMAIN resorts} IN
  [ski_quality |-> SkiQuality(resort, prefs.skill, Normalized(resort.piste, Among("piste"))),
   price |-> PriceScore(prefs, total),
   snow |-> 200 * resort.snow,
   nightlife |-> 200 * resort.nightlife,
   convenience |-> 1000 - Normalized(resort.transferMinutes, Among("transferMinutes")),
   accommodation |-> 1000 - Apart(Normalized(resort.nightly, Among("nightly")), TierTarget[prefs.tier]),
   family |-> 200 * resort.family]

\* Weights are whole numbers in proportion.
Weight(weights, d) == IF d \in DOMAIN weights THEN weights[d] ELSE 0
OverDimensions(F(_)) ==
  F("ski_quality") + F("price") + F("snow") + F("nightlife") + F("convenience") +
  F("accommodation") + F("family")
Sum0(weights) == OverDimensions(LAMBDA d : Weight(weights, d))
WeightedScore(components, weights) ==
  Share(10 * OverDimensions(LAMBDA d : components[d] * Weight(weights, d)), Sum0(weights))

Trip(resort, cost, prefs, resorts) ==
  LET Scored(components) ==
        [resort |-> resort, start |-> None, cost |-> cost, components |-> components,
         score |-> WeightedScore(components, prefs.weights), within |-> TRUE]
  IN  Scored(Components(resort, prefs, TotalEur(cost), resorts))

-----------------------------------------------------------------------------
(* rank_trips                                                               *)

ByScore(trips) == SortedBy(trips, LAMBDA t : <<-t.score>>)
ByPrice(trips) == SortedBy(trips, LAMBDA t : <<TotalEur(t.cost)>>)

\* What the two lookups answer replaces the estimates it differs from.
LiveCost(cost, live) ==
  LET flown == IF live.flight \in {None, cost.flight} THEN cost
               ELSE ApplyLivePrice(cost, "flight", live.flight)
  IN  IF live.accommodation \in {None, cost.accommodation} THEN flown
      ELSE ApplyLivePrice(flown, "accommodation", live.accommodation)

\* A trip with its live price and the score that goes with it.
WithLivePrice(trip, live, prefs) ==
  LET Dearer(cost, components) ==
        IF cost = trip.cost THEN trip
        ELSE [trip EXCEPT !.cost = cost, !.components = components,
                          !.score = WeightedScore(components, prefs.weights)]
      Anew(cost) == Dearer(cost, [trip.components EXCEPT !.price = PriceScore(prefs, TotalEur(cost))])
  IN  Anew(LiveCost(trip.cost, live))

\* Mutant: whatever the live price is, a candidate that fitted still fits.
RepriceCandidatesKeepingAll(trips, prefs, live) ==
  Mapped(trips, LAMBDA t : WithLivePrice(t, live[t.resort.name], prefs))

\* _reprice_with_live_prices, within the budget: a trip whose price changed
\* and no longer fits is dropped.
RepriceCandidates(trips, prefs, live) ==
  LET Kept(repriced) ==
        At(repriced, {i \in DOMAIN trips : repriced[i] = trips[i] \/ Affordable(prefs, repriced[i].cost)})
  IN  Kept(Mapped(trips, LAMBDA t : WithLivePrice(t, live[t.resort.name], prefs)))

\* The best affordable trips; or, when there is none, the cheapest of all,
\* said to be over the budget.  `priced` is FALSE without a date or a budget
\* for live lookups, and `live` what they answer for a resort.
RankTrips(resorts, prefs, date, priced, live) ==
  LET TripTo(r) == Trip(r, ComputeTripCost(r, prefs, date), prefs, resorts)
      Fitting(trips) == ByScore(Where(trips, LAMBDA t : Affordable(prefs, t.cost)))
      Candidates(fitting) ==
        IF priced
          THEN ByScore(RepriceCandidates(Take(fitting, LiveRepriceN), prefs, live) \o Drop(fitting, LiveRepriceN))
          ELSE fitting
      OverBudget(t) == [(IF priced THEN WithLivePrice(t, live[t.resort.name], prefs) ELSE t) EXCEPT !.within = FALSE]
      Fallback(trips) == ByPrice(Mapped(Take(ByPrice(trips), Max({prefs.topN, 3})), OverBudget))
      Chosen(trips, candidates) ==
        IF candidates # <<>> \/ ~prefs.fallback THEN candidates ELSE Fallback(trips)
      Ranking(trips) == Take(Chosen(trips, Candidates(Fitting(trips))), prefs.topN)
  IN  Ranking(Mapped(Narrowed(resorts, prefs), TripTo))

-----------------------------------------------------------------------------
(* rerank_with_conditions                                                   *)

\* snow_depth_score
DepthScore(depth) ==
  LET reached == Where(DepthBands, LAMBDA b : depth >= b.depth)
  IN  IF reached = <<>> THEN 50 ELSE reached[1].score

\* Mutant: the snow counts in full even where nothing is forecast.
BlendedSnowAlways(static, weather) == Share(3 * static + 7 * DepthScore(weather.depth), 10)

\* blended_snow_score: MAX_LIVE_WEIGHT of it is the snow there is, times the
\* share of the days that are really forecast.
BlendedSnow(static, weather) ==
  Share((10 * weather.days - 7 * weather.forecast) * static + 7 * weather.forecast * DepthScore(weather.depth),
        10 * weather.days)

\* A trip with the snow its weather, if any, tells of.
Rescored(trip, weights, weather) ==
  LET snow == IF weather = {} THEN trip.components.snow
              ELSE BlendedSnow(trip.components.snow, CHOOSE w \in weather : TRUE)
  IN  [trip EXCEPT !.components.snow = snow,
                   !.score = Share(@ * Sum0(weights) + 10 * weights.snow * (snow - trip.components.snow),
                                  Sum0(weights))]

RerankWithConditions(trips, weights, weather) ==
  IF weights.snow = 0 THEN trips
  ELSE ByScore([i \in DOMAIN trips |->
                  IF i > SnowLookups THEN trips[i]
                  ELSE Rescored(trips[i], weights, weather[trips[i].resort.name])])
=============================================================================
