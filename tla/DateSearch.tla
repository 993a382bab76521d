----------------------------- MODULE DateSearch -----------------------------
(***************************************************************************)
(* engine/date_search.search_date_range: from the candidate start dates of  *)
(* SearchWindow to the rows the user is shown.  Every pair of a shortlisted *)
(* resort and a date is estimated; a varied few are priced live; the rows   *)
(* are assembled, a row for each resort first; and the rows that are shown  *)
(* are priced live once more, which may change what they are worth.         *)
(*                                                                         *)
(* Money is in units; what no live price changes is left out of a total,    *)
(* and out of a budget.  A step is a stage: its lookups run in parallel,    *)
(* but are applied together, in the order of the rows.                      *)
(***************************************************************************)
EXTENDS SearchWindow, Ordering

CONSTANTS
  Pool,             \* the resorts, in the order of the data
  Fit,              \* what a resort is worth to the shortlist
  Appeal,           \* what a resort is worth in a score, without its price
  Airport,          \* the airport of each resort
  FlightEstimate,   \* flight_cost_eur, per resort
  LodgingEstimate,  \* per resort and season: [r][high] is a price
  HighSeason,       \* the dates of the dear season band
  FlightPrices, LodgingPrices,   \* what a live lookup may find
  Asks,             \* what a search wants beside its dates
  PricedSearches,   \* bound: the forms (and floors) that are carried on with
  ShortlistSize,    \* shortlist_size
  TopN,             \* top_n
  RepriceN,         \* live_reprice_n
  MaxPerResort      \* max_results_per_resort, 0 for any number

Resorts == ToSet(Pool)

ASSUME SearchAssumption ==
  /\ Pool \in Seq(Resorts)
  /\ Fit \in [Resorts -> Nat]
  /\ Appeal \in [Resorts -> Nat]
  /\ FlightEstimate \in [Resorts -> Nat]
  /\ LodgingEstimate \in [Resorts -> [BOOLEAN -> Nat]]
  /\ FlightPrices \subseteq Nat /\ LodgingPrices \subseteq Nat
  /\ Asks \subseteq [budget : Nat, resorts : SUBSET Resorts, pinned : BOOLEAN,
                     live : BOOLEAN, overBudget : BOOLEAN]
  /\ {ShortlistSize, TopN, RepriceN, MaxPerResort} \subseteq Nat

VARIABLES
  ask,         \* budget, the resorts to choose from and whether the user named
               \* them, live pricing, rows over budget
  evaluated,   \* all_static, then all_evaluated
  asked,       \* the pairs looked up live (history)
  rows         \* the result

searchVars == <<vars, ask, evaluated, asked, rows>>

SearchInit ==
  /\ Init
  /\ ask = [budget |-> 0, resorts |-> {}, pinned |-> FALSE, live |-> FALSE, overBudget |-> FALSE]
  /\ evaluated = <<>>
  /\ asked = {}
  /\ rows = <<>>

-----------------------------------------------------------------------------
(* Rows, and sequences of them.                                             *)

Total(row) == row.flight + row.lodging
WithinBudget(row) == Total(row) <= ask.budget

\* score_it: a lower total scores higher, until it exceeds the budget.
Score(row) == Appeal[row.resort] + Max({0, ask.budget - Total(row)})

Pair(row) == <<row.resort, row.date>>
Leg(row) == <<Airport[row.resort], row.date>>
Week(date) == (date + FirstWeekday) \div 7

BestFirst(seq) == Sorted(seq, [i \in DOMAIN seq |-> <<-Score(seq[i])>>])
CheapestFirst(seq) == Sorted(seq, [i \in DOMAIN seq |-> <<Total(seq[i])>>])

\* How many of the first i rows are for the resort of the i-th.
Rank(seq, i) == Cardinality({j \in 1..i : seq[j].resort = seq[i].resort})

\* The first row of each resort.
Firsts(seq) == At(seq, {i \in DOMAIN seq : Rank(seq, i) = 1})

ResortsOf(seq) == {seq[i].resort : i \in DOMAIN seq}

\* Whether a resort may have n rows.
Allowed(n) == MaxPerResort = 0 \/ n <= MaxPerResort

\* cap_per_resort
CapPerResort(seq, n, pad) ==
  LET picked == At(seq, {i \in DOMAIN seq : Allowed(Rank(seq, i))})
      leftovers == At(seq, {i \in DOMAIN seq : ~Allowed(Rank(seq, i))})
  IN  Take(IF pad \/ Cardinality(ResortsOf(seq)) < 2 THEN picked \o leftovers ELSE picked, n)

-----------------------------------------------------------------------------
(* The stages.                                                              *)

\* cheapest_possible_cost
CheapestPossible(r) == FlightEstimate[r] + LodgingEstimate[r][FALSE]

\* The call, with what else the request says.
Ask ==
  /\ pc = "done"
  /\ [form |-> form, floor |-> floor] \in PricedSearches
  /\ ask' \in Asks
  /\ pc' = "asked"
  /\ UNCHANGED <<form, floor, start, day, out, evaluated, asked, rows>>

\* shortlist_resorts: of those that could be affordable, the best fits.
ShortlistResorts(pool) ==
  LET affordable == At(pool, {i \in DOMAIN pool : CheapestPossible(pool[i]) <= ask.budget})
  IN  Take(Sorted(affordable, [i \in DOMAIN affordable |-> <<-Fit[affordable[i]]>>]), ShortlistSize)

\* Resorts the user named are all searched.  When no other could be afforded,
\* those that come closest are.
Shortlist ==
  LET pool == At(Pool, {i \in DOMAIN Pool : Pool[i] \in ask.resorts})
      short == ShortlistResorts(pool)
  IN  CASE ask.pinned -> pool
        [] ~ask.pinned /\ (short # <<>> \/ ~ask.overBudget) -> short
        [] OTHER -> Take(Sorted(pool, [i \in DOMAIN pool |-> <<CheapestPossible(pool[i])>>]),
                         Max({3, ShortlistSize \div 2}))

Estimated(r, d) ==
  [resort |-> r, date |-> d, flight |-> FlightEstimate[r],
   lodging |-> LodgingEstimate[r][(d \in HighSeason)],
   flightIsLive |-> FALSE, lodgingIsLive |-> FALSE, within |-> TRUE, alternatives |-> {}]

\* all_static: every pair of a shortlisted resort and a start date, by score;
\* equal scores Saturdays first, then in the order of their dates.
AllStatic ==
  LET dates == SetToSeq(out)
      n == Len(dates)
      pairs == [i \in 1..Len(Shortlist) * n |->
                  Estimated(Shortlist[1 + (i - 1) \div n], dates[1 + ((i - 1) % n)])]
      byDate == Sorted(pairs, [i \in DOMAIN pairs |-> <<pairs[i].date>>])
  IN  BestFirst(Sorted(byDate, [i \in DOMAIN byDate |->
                                  <<OneIf(Weekday(byDate[i].date) # 5)>>]))

\* Stage 1 of search_date_range.
Estimate ==
  /\ pc = "asked"
  /\ evaluated' = AllStatic
  /\ pc' = CASE evaluated' = <<>> -> "shown"
             [] evaluated' # <<>> /\ ask.live -> "estimated"
             [] OTHER -> "priced"
  /\ UNCHANGED <<form, floor, start, day, out, ask, asked, rows>>

\* What live lookups for these rows may answer: one per route and date, and
\* one per pair.
Answers(seq) ==
  [flights : [{Leg(seq[i]) : i \in DOMAIN seq} -> FlightPrices \cup {None}],
   lodgings : [{Pair(seq[i]) : i \in DOMAIN seq} -> LodgingPrices \cup {None}]]

\* An answer that is missing, or tells nothing new, leaves the row as it is.
Repriced(row, answers) ==
  LET flight == answers.flights[Leg(row)]
      lodging == answers.lodgings[Pair(row)]
      newFlight == flight \notin {None, row.flight}
      newLodging == lodging \notin {None, row.lodging}
  IN  [row EXCEPT !.flight = IF newFlight THEN flight ELSE @,
                  !.lodging = IF newLodging THEN lodging ELSE @,
                  !.flightIsLive = @ \/ newFlight,
                  !.lodgingIsLive = @ \/ newLodging]

AllRepriced(seq, answers) == [i \in DOMAIN seq |-> Repriced(seq[i], answers)]

PairsOf(seq) == {Pair(seq[i]) : i \in DOMAIN seq}

\* Stage 2: the best pairs are priced live, chosen as varied as the result.
PriceBest ==
  /\ pc = "estimated"
  /\ LET chosen == CapPerResort(evaluated, RepriceN, TRUE)
         rest == At(evaluated, {i \in DOMAIN evaluated : Pair(evaluated[i]) \notin PairsOf(chosen)})
     IN  /\ \E answers \in Answers(chosen) :
              evaluated' = AllRepriced(chosen, answers) \o rest
         /\ asked' = PairsOf(chosen)
  /\ pc' = "priced"
  /\ UNCHANGED <<form, floor, start, day, out, ask, rows>>

\* Other good dates of the row's resort: the best of each other week, and of
\* those the best two.
SpreadAlternativeDates(row) ==
  LET others == At(evaluated, {i \in DOMAIN evaluated :
                                 /\ evaluated[i].resort = row.resort
                                 /\ Week(evaluated[i].date) # Week(row.date)})
      InWeek(w) == BestFirst(At(others, {i \in DOMAIN others : Week(others[i].date) = w}))
      weeks == At(others, {i \in DOMAIN others :
                             \A j \in 1..(i - 1) : Week(others[j].date) # Week(others[i].date)})
      best == [n \in DOMAIN weeks |-> InWeek(Week(weeks[n].date))[1]]
  IN  {t.date : t \in Range(Take(BestFirst(best), 2))}

Flagged(seq) == [i \in DOMAIN seq |-> [seq[i] EXCEPT !.within = FALSE]]

\* Mutant: the best rows first, whatever their resorts.
DepthFirst(results) == CapPerResort(results, TopN, FALSE)

\* assemble_coverage_first: one row for each resort, those over budget
\* flagged; then more rows within the budget; then more of those over it.
CoverageFirst(results) ==
  LET byPrice == CheapestFirst(evaluated)
      priciest == At(byPrice, {i \in DOMAIN byPrice : ask.overBudget /\ ~WithinBudget(byPrice[i])})
      unseen == At(priciest, {i \in DOMAIN priciest : priciest[i].resort \notin ResortsOf(results)})
      section1 == Take(Firsts(results) \o Flagged(Firsts(unseen)), TopN)
      section2 == At(results, {i \in DOMAIN results :
                                 Rank(results, i) > 1 /\ Allowed(Rank(results, i))})
      some == Take(section1 \o section2, TopN)
      extra == At(priciest, {i \in DOMAIN priciest : Pair(priciest[i]) \notin PairsOf(some)})
      Has(r) == Cardinality({i \in DOMAIN some : some[i].resort = r})
      section3 == Flagged(At(extra, {i \in DOMAIN extra :
                                       Allowed(Has(extra[i].resort) + Rank(extra, i))}))
      all == Take(some \o section3, TopN)
  IN  [i \in DOMAIN all |->
         IF Rank(all, i) = 1
           THEN [all[i] EXCEPT !.alternatives = SpreadAlternativeDates(all[i])] ELSE all[i]]

\* What there is to show, for pad_with_duplicates = False.  When nothing fits
\* the budget, the cheapest rows, flagged.
Assembled ==
  LET results == BestFirst(At(evaluated, {i \in DOMAIN evaluated : WithinBudget(evaluated[i])})) IN
  CASE results = <<>> /\ ask.overBudget ->
         Take(Flagged(CapPerResort(CheapestFirst(evaluated), Max({TopN, 3}), FALSE)), TopN)
    [] results # <<>> \/ ~ask.overBudget ->
         IF Cardinality(ResortsOf(evaluated)) >= 2
           THEN CoverageFirst(results) ELSE CapPerResort(results, TopN, FALSE)

Assemble ==
  /\ pc = "priced"
  /\ rows' = Assembled
  /\ pc' = IF ask.live THEN "assembled" ELSE "shown"
  /\ UNCHANGED <<form, floor, start, day, out, ask, evaluated, asked>>

IsLive(row) == row.flightIsLive /\ row.lodgingIsLive

\* Mutant: a row that was shown as an estimate stays one if it is over budget.
NeedsWithinBudget ==
  Take(At(rows, {i \in DOMAIN rows : WithinBudget(rows[i]) /\ ~IsLive(rows[i])}), RepriceN)

\* The rows that lack a live price, as many as may be asked for.
Needs == Take(At(rows, {i \in DOMAIN rows : ~IsLive(rows[i])}), RepriceN)

\* Mutant: the flag of a row outlives its price.
RefreshedKeepingFlag(answers) ==
  [i \in DOMAIN rows |-> IF Pair(rows[i]) \in PairsOf(Needs) THEN Repriced(rows[i], answers) ELSE rows[i]]

\* A row that was priced again is also flagged again.
Refreshed(answers) ==
  [i \in DOMAIN rows |->
     IF Pair(rows[i]) \in PairsOf(Needs)
       THEN LET fresh == Repriced(rows[i], answers)
            IN  [fresh EXCEPT !.within = WithinBudget(fresh)]
       ELSE rows[i]]

\* Mutant: the rows stay where they are.
RerankedNot(seq) == seq

\* A resort's rows, best first, those within the budget before the others.
RowsOf(seq, r) ==
  LET byScore == BestFirst(At(seq, {i \in DOMAIN seq : seq[i].resort = r}))
  IN  Sorted(byScore, [i \in DOMAIN byScore |-> <<OneIf(~byScore[i].within)>>])

\* The slots of a resort stay where they are; its rows are put into them best
\* first, and the other dates go with the first slot.
Reranked(seq) ==
  [i \in DOMAIN seq |->
     LET mine == RowsOf(seq, seq[i].resort)
     IN  [mine[Rank(seq, i)] EXCEPT
            !.alternatives = IF Rank(seq, i) = 1 THEN UNION {row.alternatives : row \in Range(mine)}
                                                 ELSE {}]]

\* finalize: what is shown is priced live, unless it is already.
PriceShown ==
  /\ pc = "assembled"
  /\ rows' \in IF Needs = <<>> THEN {rows} ELSE {Reranked(Refreshed(a)) : a \in Answers(Needs)}
  /\ asked' = asked \cup PairsOf(Needs)
  /\ pc' = "shown"
  /\ UNCHANGED <<form, floor, start, day, out, ask, evaluated>>

SearchNext ==
  \/ Next /\ UNCHANGED <<ask, evaluated, asked, rows>>
  \/ Ask \/ Estimate \/ PriceBest \/ Assemble \/ PriceShown

SearchSpec == SearchInit /\ [][SearchNext]_searchVars

-----------------------------------------------------------------------------

Shown == pc = "shown"

\* The flag a row carries agrees with the price it carries, although both may
\* have changed after the row was chosen (finalize: "within_budget is
\* recomputed from the LIVE total, both ways").
FlagTellsTruth == Shown => \A i \in DOMAIN rows : rows[i].within = WithinBudget(rows[i])

\* What is shown has been looked up live, as far as the bound on lookups
\* allows, however the prices of the first pass changed what is shown
\* (finalize: "Pricing what we display, after deciding what to display, is the
\* only assignment that cannot drift").
ShownWasPriced ==
  Shown /\ ask.live =>
    Cardinality(PairsOf(rows) \ asked) <= Max({0, Len(rows) - RepriceN})

\* No resort has a second row before every resort has one (assemble_coverage_
\* first: "start giving the best offer for each resort even if it exceeds").
\* Unless nothing fits the budget, see CoverageWithoutBudget.
EveryResortRepresented ==
  Shown /\ ask.overBudget /\ (\E i \in DOMAIN evaluated : WithinBudget(evaluated[i])) =>
    \/ ResortsOf(rows) = ResortsOf(evaluated)
    \/ Cardinality(ResortsOf(rows)) = TopN

CoverageWithoutBudget ==
  Shown /\ ask.overBudget =>
    ResortsOf(rows) = ResortsOf(evaluated) \/ Cardinality(ResortsOf(rows)) = TopN

\* Among the rows of one resort, none comes before a better one: one that
\* fits the budget when it does not, or that fits it at a lower price
\* (finalize: "deal 1 of N for a resort must be its genuinely best deal").
LeadsWithBest ==
  Shown =>
    \A i, j \in DOMAIN rows :
      i < j /\ rows[i].resort = rows[j].resort /\ rows[j].within =>
        rows[i].within /\ Total(rows[i]) <= Total(rows[j])

\* The same of rows over the budget, whose scores are all alike.
LeadsWithCheapest ==
  Shown =>
    \A i, j \in DOMAIN rows :
      i < j /\ rows[i].resort = rows[j].resort /\ rows[i].within = rows[j].within =>
        Total(rows[i]) <= Total(rows[j])

\* The other dates offered with a row are of other weeks than its own
\* (spread_alternative_dates: "both from each other and from the row already
\* shown").
AlternativesDiffer ==
  Shown => \A i \in DOMAIN rows : \A d \in rows[i].alternatives : Week(d) # Week(rows[i].date)
=============================================================================
