# Ski Lab, specified

TLA+ models of Ski Lab: of the parts whose correctness depends on order
(concurrent requests over one database and one process memory, browser tabs over
one `localStorage`, a clock that moves between two reads, answers that never
arrive), and of the selection and ranking that turn what providers answer into
the cards a user sees.  Paths below are relative to the repository's root.

## 1. The system

Ski Lab prices ski trips.  A Next.js front end (`frontend/web`) calls a FastAPI
service (`ski_optimizer/api`); its routes are synchronous functions, so the
framework runs them on a thread pool: **every module-level variable of the
service is shared by concurrent requests.**  Accounts, refresh tokens, the
credit ledger and the fare history are SQL tables (`ski_optimizer/db`) on SQLite
or, since the move to Neon, PostgreSQL.  Prices come from scrapers and APIs
(`ski_optimizer/adapters`) behind one cache.

| Component | State | Operations | Talks to | What makes it correct |
|---|---|---|---|---|
| Credit ledger, `api/credits.py` | table `search_credit_ledger`, one row per user and day | `try_spend`, `get_status`, `cost_for_candidate_dates` | called by both search routes | one atomic decision per spend; no overdraft, no refusal of a credit the user has |
| Refresh tokens, `api/routes/auth.py` | table `refresh_tokens`; a chain per sign-in | register, login, refresh, logout | the browser session; Google callback | one live token per sign-in; reuse ends every session; revocation is final |
| Google sign-in, `api/routes/google_oauth.py` | table `users` (e-mail, `google_sub`) | start, callback, `_resolve_google_user` | refresh tokens | one account per address; opened by one person, and by another only if its mailbox has changed hands; the same one for a subject as long as it has not |
| Browser session, `frontend/web/lib/auth/context.tsx` | React state, a timer, `localStorage` shared by tabs | login, logout, mount, `runAuthed`, silent refresh | the token endpoints | the stored token is the live one; only a refusal signs out |
| Rate limiters, `api/rate_limit.py` | a deque of time stamps per key, in process memory | `allow` | dependencies of every route; `live_pricing_allowed` | never more than the limit per window; nobody locked out longer |
| Search routes, `api/routes/search.py` | none of their own | `search_trips`, `search_trip_dates`, prefetch, booking link | all of the above and below | who is served has paid, who is refused has not |
| Block signal, `engine/provider_status.py` | one list shared by all requests | reset, note, ask | search routes, price chain | a block a search met is reported |
| Response cache, `adapters/response_cache.py` | an ordered dictionary with time stamps | get, set, prune | every adapter | bounded; fresh; pays for a lookup once |
| Price chain, `engine/cost_calculator.py` | none | `live_flight_cost_eur` and its siblings | adapters, block signal | free before paid, paid on every empty outcome, never an invented price |
| Flight adapters, `adapters/*flight*`, `kiwi` | a thread-local "suppressed" flag | `search_flights` | cache | one airport's failure does not sink the others; what failed is not cached |
| Lodging adapters, `adapters/{google_hotels,stays,serpapi_hotel}` | none | `search_accommodation`, `select_live_accommodation`, the list, the links | cache | a bed that meets every wish is not passed over; an unknown rating is neither a pass nor a fail |
| Transfer adapters and options, `adapters/{transfer,omio_mcp,rome2rio}`, `engine/transfer_options.py` | none | quote, timetable, routes, rank | cache | the list keeps the cheapest and the fastest; the price line is the cheapest one's |
| Weather, `adapters/weather_adapter.py` | none | forecast, past years, their join | cache | one reading a day |
| Cost breakdown, `engine/cost_calculator.py` | none | estimate, replace a part by its live price | scoring | the parts, the buffer and the total agree |
| Date search, `engine/date_search.py` | none | `candidate_start_dates`, shortlist, live re-pricing, coverage-first assembly, cap per resort | price chain, scoring | every valid date is tried; each resort is represented |
| Scoring and reranking, `engine/scoring.py`, `engine/reranker.py` | none | score, rank, rerank on snow | search routes | the budget is kept at the price shown; only snow moves rows |
| Flight picks, `engine/flight_picks.py` | none | cheapest, fastest, best | search routes | no pick is beaten by an itinerary left out |
| Fare history, `db/fare_history.py` | table of quotes | record, estimate | nothing in the live path of a search | - |
| Search form and pages, `frontend/web` | form state, last result | quote, search, explore | search routes | the price shown is the price charged |

Hard to test, and the reason for this project: two handlers between two SQL
statements; a transaction that does not see another's rows; a timer holding a
token that was replaced; a clock read before a lock and used inside it; a list
one request clears while another fills it; midnight inside a request; an answer
that is lost after the server acted; a part of a price replaced after something
else was computed from it; a field a provider does not publish.
`PROJECT.json` lists these hazards with their lines.

## 2. The modules

`CreditAccount` and `TokenFamily` are abstract: what the ledger and the token
endpoints promise when each call is one indivisible step.  Detailed modules are
shown to implement them, and modules that only need the promise build on it.

| Module | Models | State and steps |
|---|---|---|
| `CreditAccount` | the promise of `try_spend` | `used` per user and day; a call is pending, granted or refused in one step |
| `Credits` | `try_spend`, `get_status` | one step per committed SQL statement: conditional UPDATE, explaining SELECT, INSERT under the UNIQUE constraint, SELECT of the status; midnight and restarts anywhere |
| `CreditsProofs` | | proofs about `Credits` |
| `TokenFamily` | the promise of `/auth/refresh` and `/auth/logout` | rotate, reuse, reject, revoke, fail, each atomic |
| `RefreshTokens` | refresh and logout of `api/routes/auth.py` | one step per statement, and one per row of a family-wide UPDATE, which keeps the rows it has changed until its commit; `database` says what statements see of each other: on SQLite one writer at a time, on PostgreSQL the committed rows, whose detector ends a circle of waits |
| `RefreshTokensProofs` | | proofs about `RefreshTokens` |
| `Accounts` | register, login, the Google callback and the identity behind an access token, over the `users` table | one step per statement; UNIQUE columns; a mailbox may pass to somebody else; a restart may lose the database |
| `AccountsProofs` | | proofs about `Accounts`, and about the `RateLimiter` in front of its endpoints |
| `Sessions` | `AuthProvider` in several tabs, over `TokenFamily` | one step per JavaScript task (up to the next `await`) or server step; a sign-in (the form or the fragment Google's callback leaves), a refresh, an API call with its 401 and its repetition, each awaited; lost answers, reloads, expiring access tokens |
| `SessionsProofs` | | proofs about `Sessions` |
| `RateLimiter` | `RateLimiter.allow` | reading the clock, then rejecting or admitting under the lock; ticks; restarts |
| `SearchRequests` | both search routes, from reset to response, over `CreditAccount` | one step per call that touches shared state, in the order each route makes them |
| `SearchRequestsProofs` | | proofs about `SearchRequests` |
| `ResponseCache` | `MemoryResponseCache` and the look up, fetch, store pattern of the adapters | hit, miss and store are atomic (one lock); the provider's answer comes later |
| `LivePricing` | the chain of flight providers of `engine/cost_calculator.py` and the `search_flights` of the three adapters, over `ResponseCache` | a look into the cache, or one search of a provider; Google's airports are asked within one step, because only their outcome and the thread's flag leave it |
| `LivePricingProofs` | | proofs about `ResponseCache` and `LivePricing` |
| `SearchWindow` | window clamp, `candidate_start_dates`, price, browser's quote | one loop iteration per step |
| `DateSearch` | `search_date_range` behind `SearchWindow`: shortlist, estimates, two passes of live pricing, coverage-first assembly, cap per resort, alternatives | one stage per step; a live lookup answers with any price, or none |
| `SearchResultsProofs` | | proofs about `SearchWindow` and `DateSearch`, and the lemmas about lists |
| `Ordering` | comprehensions with a condition and Python's stable `sorted`, `min` and `max`, by the positions they pick | operators; `DateSearch` and the modules of the response share them, and so do their lemmas |
| `FlightPicks` | `pick_flights`, the pickup time, the booking link's match | operators |
| `TransferChoice` | the curated table, the quote with its two legs, timetables, routes, `rank_transfer_options` | operators |
| `Lodging` | the three lodging adapters, the chain between them, `select_live_accommodation`, the list, the links | operators |
| `TripCosts` | `compute_trip_cost` and `apply_live_*`, in cents | operators |
| `TripRanking` | `narrow_resort_pool`, `score_resort`, `rank_trips`, `rerank_with_conditions`, in thousandths | operators |
| `TripWeather` | the forecast, the past years and `get_trip_weather` | operators |
| `SearchResponse` | both routes from the request's rows to the cards, over the six above | one stage of the handler per step; the same search repeated while its answers are cached |
| `ResponseProofs` | | proofs about `SearchResponse` and the modules it extends |
| `MC*` | | constants of the small instances |

Composition: `Credits` refines `CreditAccount`, which `SearchRequests` extends;
`RefreshTokens` refines `TokenFamily`, which `Sessions` extends; `LivePricing`
extends `ResponseCache` and implements it, the chain being one more way to look
up, ask and store; `DateSearch` extends `SearchWindow`; `SearchResponse` extends
`TripRanking`, `TripWeather`, `FlightPicks` and `Lodging`, which extend
`TripCosts`, `TransferChoice` and `Ordering`.

What the data is reduced to: a token is a number, in the order the generator
yields them; a date is a day number; a cached value is the instant its provider
was asked, so that staleness can be stated; a request is its route, whether its
dates and names are acceptable, its sender and its price; a row of results has
two prices, of the flight and of the lodging, in units, and the rest of its cost
is left out of it and of the budget; its score is the resort's own and, below the
budget, what is left of the budget (`DateSearch`; `SearchResponse` has the whole
breakdown and the whole score).  Money is in cents, a component of a score in
thousandths, a time of day in minutes, a place a point of a line, and `None` is a
field a provider does not publish.  What the providers answer one search is a
constant of it, `world`: they are assumed not to change their minds while a
request runs.  `root` in the token
modules is the sign-in a token descends from (the transitive `replaced_by_id`);
`ended`, `log`, `opened`, `earlier`, `before`, `paid`, `hit`, `blockSeen`, `cut`, `used`, `latest` (of the
cache), `asked` and a call's `dry` and `got` once it has ended are history: no guard reads
them.

## 3. The runs

Passing runs.

| Run | Instance | Shows |
|---|---|---|
| `Credits_ledger` | 2 handlers, 1 user, 2 days, allowance 3, costs 1, 2, 4 | allowance, two passes suffice, status after spending, every spend answered, refinement of `CreditAccount` |
| `RefreshTokens_databases` | 2 handlers, 3 tokens, either database; a month may pass on SQLite | one live token per sign-in, revocation is final, every request answered, those that wait for each other in a circle included; on SQLite also that reuse ends every session, and the refinement of `TokenFamily` |
| `Accounts_signin` | 2 requests, 3 rows, 4 spellings of 3 addresses, 2 subjects of whom one owns two mailboxes and may lose the second to the other, 2 passwords, a database that restarts lose | who gets into which account, in whatever order sign-ins and registrations race |
| `Sessions_lossy` | 2 tabs, 3 tokens, 2 refreshes on their way, losses, failures, reloads | the stored token is the live end; only a refusal signs out; renewals stop only by failing |
| `Sessions_reliable` | 1 tab, 2 refreshes of it at once, no losses, failures, reloads, a month may pass | the end of a session is noticed |
| `RateLimiter_window` | 3 handlers, limit 2, window 3, delay up to 2, clock to 8 | both directions of the limit |
| `SearchRequests_billing` | 2 requests, 2 days, 1 live search a day | billing, accounting, block reports |
| `LivePricing_chain` | 2 searches, 3 calls, 1 trip with 2 airports, 3 providers, room for 2 answers, lifetime 1, answers up to 1 late | of the cache: bound, freshness, no needless payment, protocol; of the chain: no estimate while a provider is left, a refusal is reported and none invented |
| `DateSearch_results` | 28 days, 2 and 7 nights, steps 1 and 3, four weekday choices, winter and summer; for three Saturdays and three days in a row, 3 resorts at 2 airports, 4 rows, 4 lookups a pass, 2 rows per resort, live prices above and below the estimates, or missing | exactly the valid dates, the quote is close; flags agree with prices, what is shown was priced, every resort has a row, each leads with its best |
| `SearchResponse_results` | some 36,000 worlds in six families: ranking (budgets that none, some or all fit, live fares that change who fits, snow), narrowing (targets, regions, weights, skills, days), flights (lists of 3 of 6 itineraries, one of which lands on the next day), lodging (2 of 5 stays, 2 of 3 hotels, 19 filters), transfers (2 of 3 vans, 2 of 6 coaches, 3 of 5 named routes, two of which have one mode and one price), weather (a forecast missing, failing or garbled at the horizon, rows beyond it before and behind rows within it); the dates route with the days its engine evaluated, some at a live price; 3 resorts, `LiveRepriceN` 2, `SnowLookups` 2, `MaxOptions` 4, `RoutesShown` 2, `StaysListed` 2, `LiveTransferN` 1, `YearsBack` 2 | a trip has one price, picks are unbeaten, no bed that qualifies is passed over, the transfer list keeps the cheapest and the fastest of all there are, the budget is kept, only snow moves rows, one reading a day |

Why the bounds are enough to be interesting: costs 1 + 2 fit the allowance
exactly, 2 + 2 overdraw it and 4 exceeds any day; three tokens allow a race of
two successors for one predecessor, and a second session beside a rotated one;
two tabs can hold each other's predecessors; a limiter of 2 with three handlers
and a delay shorter than the window puts hits out of order in the deque; the
clock runs through more than two windows; a cache with one key more than room
evicts, and three calls over it ask for what the first two stored, pushed out or
let expire; two airports can fail in different ways; 28 days hold four of each weekday; three resorts and four
rows leave one resort a second row, a budget of 4, 6 or 7 fits none, some or all
of the estimates, and a live price can undo each of these.  In `Accounts_signin` two
requests suffice for a race, a third row for a second account of somebody, and an
address spelled two ways and a second mailbox for a subject to come back by
another road; that one mailbox (`Movable`) may pass to the other subject and back,
while requests run.  In `Sessions_*` one tab at a time (`BusyTabs`) begins a sign-in
or an API call, of which a tab awaits one each, while any tab awaits `CallsPerTab`
refreshes; two recoveries from a 401 do meet, because a call that waits for its
refresh counts as that.  Months pass in `Sessions_reliable` only, over two of the
three tokens: with losses and two tabs there are too many states.  The proofs of what
`Sessions_lossy` checks depend on none of these bounds.  In `SearchResponse_results` each limit is below what the worlds
hold, so that something is cut in each list, and the families vary one provider at
a time because a card reads each of them separately.  Every bound is a constant or a
`Last...` in a guard: `LastDay`, `LastInstant`, `CallsPerTab`, `BusyTabs`, `Calls`, `Lookups`,
`Expiring`, `Movable`, `PricedSearches`, the number of tokens.  `RateLimiter_window`, `Sessions_lossy`,
`SearchRequests_billing`, `LivePricing_chain` and `Accounts_signin` use the symmetry of
interchangeable handlers, searches, tabs, calls, requests or passwords; no run with
a liveness property does.  Deadlock is not checked in `SearchRequests_*`,
`DateSearch_results`, `LivePricing_chain`, `SearchResponse_*` and `Accounts_signin`:
there a request, a computation or the last of the calls ends, or the rows are used
up.

Runs that end in a counterexample, each refuting a sentence of the repository:

| Run | Sentence | What happens |
|---|---|---|
| `SearchRequests_hidden_block` | sharing the list "OVER-reports honesty rather than under-reporting it" (`provider_status.py:28`) | another request's reset erases a block before it is reported |
| `SearchResponse_cached_quote` | "BOTH legs of the airport run in ONE request" (`transfer_adapter.py:353`) | a cached quote is rebuilt from its outbound vehicles alone, so the second search of a trip prices the way back as the way there once more, and the card shows another price |

Other sentences that do not hold, kept as definitions.  To see the
counterexample, name the definition under INVARIANTS of the run given.

| Definition | Where | What happens |
|---|---|---|
| `StatusAfterSpending` without its condition `today[t] = clock` | `Credits_ledger` | a spend that crosses midnight reports the new day's balance |
| `ReuseEndsEverySession` without its condition `database = "SQLite"` | `RefreshTokens_databases` | under read committed, the family-wide UPDATE misses the successor a rotation commits while it runs |
| `KeptWhileWanted` | `Sessions_reliable`, `Sessions_lossy` | a tab's timer and its own 401 recovery, two tabs, or a lost answer present a replaced token: every session ends |
| `SignedOutStaysOut` | `Sessions_reliable` | a refresh awaited when the user signs out signs the tab in again |
| `GlobalBudget` | `RateLimiter_window` with two instances | each process has its own "global" budget |
| `RefusalCostsNothing` | `SearchRequests_billing` | a date search refused with 402 has used a live search |
| `BilledAsServed` without the condition on the route in its last line | `SearchRequests_billing` | `search_trips` charges, then validates the resort names, and answers 404 (`search.py:1382`, "Charged after validation so a rejected request is never billed") |
| `pc # "raised"` (of `SearchWindow`) | `DateSearch_results` | off season the clamp to December 1st passes `latest_date`; `candidate_start_dates` raises, and the client gets a 500 (`search.py:1839`, "clamp it to today rather than rejecting") |
| `EveryWallIsReported` | `LivePricing_chain` | one airport's fares are stripped and another's page fails: the search counts as failed and the wall of estimates goes unexplained (`cost_calculator.py:317`, "record it so the UI can explain the wall of EST") |
| `CoverageWithoutBudget` | `DateSearch_results` | when nothing fits the budget the result is the cheapest rows, two (in the service three) of one resort before any of another: a resort is left out although the search "assembles coverage-first" (`date_search.py:656`) |
| `AlternativesDiffer` | `DateSearch_results` | `finalize` ranks a resort's rows again and hands the other dates of the old first row to the new one, of whose week, or date, they may be (`date_search.py:689`, "each from a DIFFERENT calendar week") |
| `LeadsWithCheapest` | `DateSearch_results` | over the budget all scores of a resort are alike, and the second pass leaves a dearer row before a cheaper one |
| `PickedUpAfterLanding` | `SearchResponse_results` | the landing's date is dropped, and the transfer is quoted for the first day of the trip: who lands after midnight is fetched a day before (`search.py:1169`; `search.py:1153`, "derived from the flight's actual LANDING time") |
| `FarRowsAreLeftAlone` | `SearchResponse_results` | once the first row starts within the horizon, a row weeks later is scored anew on the snow of the first row's dates (`search.py:1975`; `search.py:1970`, "Gated per result on ITS OWN start date, not one shared date") |
| `QuoteMatchesCharge` | `DateSearch_results` | a weekday is quoted as a seventh of the window rounded up, a weekend as one day |

Where the rows and cards of `SearchResponse` part from what comments say, the model
follows the code, and its properties are stated so that they hold of it:

- The second ranking of a date search uses the first row's dates for the weather
  of every row (`search.py:1975`): `OnlySnowMovesRows` says by its own dates which row
  has a forecast, and is about the rows that start with the first; what holds of the
  others is refuted (`FarRowsAreLeftAlone` above).  It sorts by score even when no row
  has any weather, so it also undoes the coverage-first order of the engine.
- A landing on the next day is picked up by its hour alone (`search.py:1169`):
  `TransferListIsSound` promises a pickup after the landing to those who land on
  the day of the trip, and of the others it is refuted (`PickedUpAfterLanding` above).
- The dates route takes the cheapest transfer into the price without looking at
  the budget again (`search.py:2001`): `BudgetIsKept` is about the fixed-date route.
- In the fallback of `rank_trips` a row stays marked over the budget though its live
  price fits it, and rows beyond `live_reprice_n` keep their estimates; a live price
  equal to the estimate leaves a part not marked live.
- `_arrival_of` takes the first pick that has an arrival, which need not be the flight
  shown first.
- A one-way journey, or the low end of a range, can be the cheapest transfer and
  so the price line.
- A bed with an unknown rating that is chosen for want of a better one is reported
  as unrated; `is_cheapest` marks the first bed of the list, which need not be the
  cheapest; and the link names the cheapest hotel of the unfiltered search.
- One forecast day without a temperature takes the weather away from the whole
  trip: the average over its days cannot be formed.
- The dates route drops the transfers of a row that were fetched for another resort
  (`search.py:2005-2011`); the model has no such transfers, because those of a row are
  looked up by its own resort, and leaves the guard out.
- A Google identity that presents the verified address of an account is linked to it
  although the account has another subject (`google_oauth.py:84-90`): when a mailbox
  passes to somebody else, which `Accounts` lets happen outside the program, its new
  holder gets into the account, and the former one is given another.  `NeverShared` and
  `SubjectKeepsAccount` say that this is the only way.
- A registration repeated because its answer was lost is told that the address
  is taken.

### Fairness

`Credits`: a handler inside `try_spend` keeps running (weak fairness of its
steps); nobody has to search.  `RefreshTokens`: the same, and strong fairness of
the statements that may wait for a row, because PostgreSQL queues waiters.  Two
family-wide UPDATEs that reach the user's rows in different orders wait for each
other for ever; PostgreSQL's deadlock detector turns one of them away (`BreakCircle`,
weakly fair), and the session's close gives its rows back.  On
SQLite nobody is queued (a waiter polls the lock until its busy timeout), so
`EveryRequestAnswered` is stated for PostgreSQL only.
`Sessions`: timers fire, the server serves, answers of refreshes arrive.  The user,
a sign-in, an API call, midnight, restarts and other failures are never assumed to
happen.

## 4. The proofs

TLAPS proves the following for every value of the constants that satisfies the
named assumptions (`CreditsAssumption`, `RefreshAssumption`, `AccountsAssumption`,
`TokenAssumption`, `SessionAssumption`, `LimiterAssumption`, `RequestsAssumption`,
`CacheAssumption`, `PricingAssumption`, `WindowAssumption`, `SearchAssumption`,
`ResponseAssumption`, `WorldsAssumption` and those of the modules `SearchResponse` extends);
the runs above are instances of them.  They give constants their types and little
more: the set of handlers in `SearchRequests` is finite (the threads of one
process), and in `DateSearch` the pool is a sequence of resorts, prices and limits
are natural numbers, and estimates exist for every resort.  `WorldsAssumption` says
what a request and the providers' answers are: resorts have different names (as
the rows of `data/ski_resort_database_seed.xlsx` do), a row of the date route is one resort and day and
starts today or later (the clamp of the route), prices are natural numbers of cents.
A journey takes less than the 10**6 minutes that stand for an unknown time
(`Minutes`; `transfer_options.py:99`): with a longer one, a timed offer would sort
behind an untimed one.

| Theorem | Says |
|---|---|
| `CreditsProofs!TypeCorrect` | `Spec => []TypeOK` |
| `CreditsProofs!AllowanceHolds` | `Spec => []WithinAllowance` |
| `CreditsProofs!RetriesSuffice` | `Spec => []TwoPassesSuffice` |
| `CreditsProofs!StatusCountsTheCharge` | `Spec => []StatusAfterSpending` |
| `CreditsProofs!ImplementsAtomicAccount` | `Spec => ImplementsAccount`, the refinement |
| `RefreshTokensProofs!TypeCorrect` | `Spec => []TypeOK` |
| `RefreshTokensProofs!SessionsDoNotSplit` | `Spec => []OneLiveTokenPerSignIn` |
| `RefreshTokensProofs!ReuseIsFinal` | `Spec => []ReuseEndsEverySession` |
| `RefreshTokensProofs!RevocationIsFinal` | `Spec => RevokedForGood` |
| `RefreshTokensProofs!ImplementsTokenFamily` | `Spec => ImplementsFamily`, the refinement (on SQLite) |
| `AccountsProofs!TypeCorrect` | `Spec => []TypeOK` |
| `AccountsProofs!AccountsAreNotShared` | `Spec => []NeverShared` |
| `AccountsProofs!SubjectsKeepAccounts` | `Spec => []SubjectKeepsAccount` |
| `AccountsProofs!AddressesAreUnique` | `Spec => []OneAccountPerAddress` |
| `AccountsProofs!LimiterTypeCorrect` | `LimiterSpec => []LimiterTypeOK` |
| `AccountsProofs!WindowHolds` | `LimiterSpec => []AtMostMaxPerWindow` |
| `AccountsProofs!RefusalsAreJust` | `LimiterSpec => RejectedOnlyWhenFull` |
| `SearchRequestsProofs!TypeCorrect` | `RequestsSpec => []RequestsTypeOK` |
| `SearchRequestsProofs!ServiceIsBilled` | `RequestsSpec => []BilledAsServed` |
| `SearchRequestsProofs!BlockReports` | `RequestsSpec => []BlockReportsAreHonest` |
| `SearchRequestsProofs!EveryCreditIsBilled` | `RequestsSpec => []CreditsAccountedFor` |
| `SearchRequestsProofs!ChargesAreSpends` | `RequestsSpec => Spec`, the composition is one of `CreditAccount`'s |
| `LivePricingProofs!AnswersAreRecent` | `Spec => []ServedIsRecent`, for the cache alone |
| `LivePricingProofs!NothingIsPaidTwice` | `Spec => PaidOnlyWhenNeeded`, for the cache alone |
| `LivePricingProofs!EveryProviderIsAsked` | `PricingSpec => []EstimateOnlyWhenExhausted` |
| `LivePricingProofs!RefusalsAreReported` | `PricingSpec => []RefusalIsToldApart` |
| `LivePricingProofs!UsesTheCache` | `PricingSpec => ImplementsCache`, the refinement |
| `LivePricingProofs!PricesAreRecent` | `PricingSpec => []ServedIsRecent`, from `AnswersAreRecent` by `UsesTheCache` |
| `LivePricingProofs!NoPriceIsPaidTwice` | `PricingSpec => PaidOnlyWhenNeeded`, from `NothingIsPaidTwice` likewise |
| `SessionsProofs!TypeCorrect` | `SessionSpec => []ClientTypeOK` |
| `SessionsProofs!LiveEndIsStored` | `SessionSpec => []LiveTokenIsStored` |
| `SessionsProofs!OnlyRefusalsSignOut` | `SessionSpec => OnlyARefusalSignsOut` |
| `SessionsProofs!RenewalsStopByFailure` | `SessionSpec => RenewalStopsOnlyByFailure` |
| `SessionsProofs!TabsUseTheFamily` | `SessionSpec => Spec`, the composition is one of `TokenFamily`'s |
| `SearchResultsProofs!EveryValidDateIsTried` | `Spec => []ExactlyTheValidDates`, for the window alone |
| `SearchResultsProofs!QuotesAreClose` | `Spec => []QuoteIsClose`, for the window alone |
| `SearchResultsProofs!TheSearchTriesEveryValidDate` | `SearchSpec => [](ExactlyTheValidDates /\ QuoteIsClose)` |
| `SearchResultsProofs!FlagsTellTheTruth` | `SearchSpec => []FlagTellsTruth` |
| `SearchResultsProofs!WhatIsShownWasPriced` | `SearchSpec => []ShownWasPriced` |
| `SearchResultsProofs!ResortsAreRepresented` | `SearchSpec => []EveryResortRepresented` |
| `SearchResultsProofs!TheBestRowLeads` | `SearchSpec => []LeadsWithBest` |
| `ResponseProofs!ResponseHasOnePrice` | `ResponseSpec => []OnePriceForTheTrip` |
| `ResponseProofs!ResponsePicksAreUnbeaten` | `ResponseSpec => []PicksAreUnbeaten` |
| `ResponseProofs!ResponsePicksQualifyingBed` | `ResponseSpec => []QualifyingBedIsNotPassedOver` |
| `ResponseProofs!ResponseTransfersAreSound` | `ResponseSpec => []TransferListIsSound` |
| `ResponseProofs!ResponseKeepsBudget` | `ResponseSpec => []BudgetIsKept` |
| `ResponseProofs!ResponseMovesRowsOnSnow` | `ResponseSpec => []OnlySnowMovesRows` |
| `ResponseProofs!ResponseReadsDaysOnce` | `ResponseSpec => []OneReadingPerDay` |

**Credits.**  `WithinAllowance` is not inductive: an INSERT that is about to
happen must be known to fit a fresh day, and a charge is never negative.  The
invariant adds that a missing row stands for a zero balance, that only a first
pass reaches the INSERT, with a cost within the allowance, and that a second
pass has a row to update, which cannot pay if its UPDATE has missed it.  Rows do
not disappear while a handler runs (a restart kills the handlers), so the second
UPDATE succeeds or is refused for good.  The status counts the charge because the
row it is read from was charged by the same handler and only grows; only midnight
(another row) or a restart (no answer) can come between.  The refinement maps a
handler's program counter to the state of its call; each step of `Credits` is one
of `CreditAccount` or leaves it alone.

**RateLimiter.**  The deque is not the admission log: it is pruned and, because
the clock is read outside the lock, not sorted.  The invariant says it is a
suffix of the log, entry by entry stamped at most `Delay` before the admission
was decided, and that every admission before the suffix is at least a window,
less the delay, ago.  From it both directions of the limit follow.

**RefreshTokens.**  A rotation revokes one token and issues another in one commit.
The invariant says that the token a handler is about to revoke in a commit is
still live (its UPDATE has locked the row, or holds the write lock), that the
inserted successor is the handler's own, pending and of the same user, and that
the rows two handlers have changed and not committed are different ones; those a
family-wide UPDATE has changed are live, and among the rows it started from.  Then two
live tokens of one sign-in cannot arise.  On SQLite the transactions that have written exclude
each other, so a family-wide revocation starts from every live token there is, and has changed all of
them when it commits; every
statement that changes nothing a client can tell maps to a stutter of
`TokenFamily`, every other one to its indivisible action.

**Accounts.**  A row is a password's, and then unverified and never linked, or it
is verified and a subject's: whoever holds the mailbox of its address, or, if that has
changed hands, anybody.  Every request in flight that has found a row carries an
identity that opens it in this sense, and a row that an UNIQUE column protects stays
alone with its address and its subject.  The history `handed` only grows, so that what
was once allowed stays so.  Rows go only in a restart, which also ends the requests and what was
opened.

**Sessions.**  A token on its way to a tab, in the answer of a refresh or of a sign-in,
will be stored and captured by that tab's timer when it arrives.  The invariant says
that until then nobody else holds, carries or presents it (`InNoHands`, `CallsCarry`,
`EntriesCarry`), and that its session has no other live token, even if it was ended
on the way; that a sign-in has one live token; and that a continuation that waits for
a session waits for a refresh.  The two action properties follow from it a step
at a time; and, since a tab holds only tokens it was given, whatever it asks is
something `TokenFamily` lets a client ask.

**SearchRequests.**  What a request has paid is a function of the statement it is
at, and the two routes charge at different ones: the invariant lists, per route,
the statements before and after the charge.  A report is honest because the list
is not empty only while everybody who is running has seen the block that filled
it.  `CreditsAccountedFor` equates a ledger with a sum over the requests.  The sum
is a fold over a set, which the provers cannot evaluate; the lemmas build the table
of its partial sums one element at a time, and show by a least counterexample that
it does not depend on the order and changes by what one request's bill changes.
The ledger and the bill then change together in the one step of `try_spend` that
decides.

**LivePricing.**  An entry is stored at most one provider call after its value was
asked for, and a call under way has lasted no longer; so an entry that has not
expired is recent.  Of the chain, the invariant says at each stage which
providers have already come back empty, that the thread's flag, once the call has
set it, is the call's own, and that a refusal met has been noted before the next
provider is asked.  The refinement maps each lookup of the chain to one of the
cache.  `PaidOnlyWhenNeeded` looks back along all uses there ever were.  The
invariant says that the keys stand in the cache in the order of their last uses,
that an entry is what was last stored, and that a key which is gone has expired or
has had as many other keys used after it as the cache has room for; what is used
later only adds to those.

**SearchWindow.**  The dates found are those promised before the loop's day, and in a
stepped search that day is on the grid: the days a step passes over are not, since
no multiple of the step lies between two neighbouring ones.  The price needs how
many they are: all days of the window, or for a weekday one in each week, which a
bijection with an interval counts; the quote is then one division against another.

**DateSearch.**  First what the operators on sequences do: `At` picks elements in
their order, `Sorted` rearranges them so that the keys ascend.  Induction over
sequences is replaced by a least counterexample on the positions.  Each stage then
has a set of rows it can produce (`Estimates`, `Offers`, `Listed`, `Truthful`), and
two facts to hand on: the rows of one resort come best first (`Led`), and no
resort was pushed out unless the result is full of different ones (`Represented`).
The invariant `SearchInv` says which of them a stage leaves to the next.  TLC
checked it on the instance of `DateSearch_results` before it was proved.  It is
needed because every property is about the end of five stages: a flag computed
from an estimate would lie once a live price replaced it, a cap applied to rows
that are not best first would keep the wrong ones, and a resort left out by one
stage cannot come back in another.

**SearchResponse.**  Every stage of a handler is a function of the world and of what
the stage before left, and `ResponseInv` says which: the rows are those of the
route, then those rows ranked on snow, then their weather, their transfers, their
cards.  TLC checked it on the instance of `SearchResponse_results`.  It is
inductive as it stands, because the world does not change and the one stage that
repeats a search (`Repeat`) starts from the rows again; the work is in what those
functions do, for any world that `WorldsAssumption` allows.

- `BudgetIsKept` and `OnlySnowMovesRows` need what a row is (`ResultType`: the flag of a
  fixed-date trip agrees with its price, and an over-budget trip is there only when
  nothing fits, `NothingFits`), and that no two rows are of one resort and day
  (`NoTwins`), which every selection, sort and splice of `rank_trips` keeps.
- `OneReadingPerDay` rests on the days of a span as a strictly ascending list
  (`DaysIn`), of which the forecast keeps some and the history fills in others.
- `QualifyingBedIsNotPassedOver` needs that the provider's filter, the cap rounded
  up and the rating down as `_provider_filters` rounds them, lets through whatever meets the wish exactly
  (`MeetsIsUsable`), and that the chain goes on to a source that lists it.
- `PicksAreUnbeaten` needs that `BestScore` is strictly monotone in both counts, also
  where all prices or all durations are alike and the spread is taken as one.
- `TransferListIsSound` follows the fastest offer through the three lists that are put
  together, the removal of duplicates and the cap (`Serves`, `Kept`).  The cheapest is
  stated against the offers themselves, `OfferedPrices`: a seat for everybody each way,
  a vehicle each way, a route's low end.  That the options built from them
  contain the least and none less (`Covers`, `CoversLeast`) goes through the pairing of
  the legs and the timetables.
- `OnePriceForTheTrip` needs that the fare in a row's price is the lowest on sale,
  so that the flight shown first changes nothing; that the total never falls when
  the fare rises, so that the dearest total is the fastest flight's; that two cards
  are not of one resort and day; and how far the buffer strays with each part that
  is replaced (`Within`: half a cent a time, counted in twentieths of a cent).

Only model-checked:

- Liveness, and whatever rests on fairness, which is out of the prover's reach.
- What recursive definitions compute for every input, such as the mean of the past
  years (`Mean`), on which no property depends.
- The counterexamples, those of the runs and those kept as definitions.

## 5. Not modelled

The fare history (`db/fare_history.py`) records and estimates fares, and no search
reads it.  Parsing, formatting and links (the parsers of the adapters,
`engine/links.py`, `frontend/web/lib/api.ts`), the resolution of a place to a
provider's code, translations, marketing, the resort tables and their migrations,
the CLI, the scripts and the explanations keep no state whose order matters; the
tables are constants of the models.  Passwords, hashes and JWTs are taken as
working, and so is the exchange with Google, of which an identity comes or does
not.  The CSRF middleware and the health endpoint of `api/main.py` keep no state.
`transfer_availability_warning` is called by tests only.  Components of a score are
in thousandths and its weights whole numbers, so that ties come out as they do for
the rounded figures of the code; the last digit of a floating-point product is
not modelled.  Providers that change their answer in the middle of a request are
modelled by `DateSearch` (any price or none at each lookup) and `LivePricing`, not by
`SearchResponse`.

## 6. The plan

1. Done: the shared state of the service (credits, tokens, limiter, block signal,
   cache), accounts, the browser session, the chain of flight providers, the
   candidate dates and the rows of a date-range search, the ranking of a
   fixed-date search, and for both the cards with their flights, beds, transfers
   and weather; the safety of everything concurrent proved, of the rows a date-range search
   shows, and of the cards of both routes.
2. What is left to model: what a late response does to the page that has moved on
   (`SearchCard.tsx`, `PriceExplorer.tsx`), and the summaries the CLI prints.
3. What is left to prove: no safety property of a passing run; liveness stays with TLC.
