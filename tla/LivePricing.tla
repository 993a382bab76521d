---------------------------- MODULE LivePricing ----------------------------
(***************************************************************************)
(* Where a trip's flight price and its itineraries come from:               *)
(* engine/cost_calculator.py (live_flight_cost_eur, live_flight_options and  *)
(* their fallbacks) over the three flight adapters, which share the cache of *)
(* ResponseCache.  Google's pages are scraped one airport at a time; when   *)
(* they yield no fare, Kiwi is asked, then SerpApi, which costs money.      *)
(*                                                                         *)
(* A step is one look into the cache, or one search of a provider.  Threads *)
(* of one search, and of several, run the chain at the same time.           *)
(***************************************************************************)
EXTENDS ResponseCache

CONSTANTS
  Trips,      \* route and dates, the arguments a cache key is made of
  Airports,   \* how many airports serve the resort of a trip
  HasKey,     \* whether SERPAPI_API_KEY is set
  Calls       \* bound: how many calls are made

Fallbacks == {"kiwi", "serpapi"}
Providers == {"google"} \cup Fallbacks

ASSUME PricingAssumption ==
  /\ Airports \in Nat \ {0}
  /\ HasKey \in BOOLEAN
  /\ Calls \in Nat
  /\ Keys = Providers \X Trips

VARIABLES
  call,        \* the call each thread is in, or the last one it made
  suppressed,  \* _fetch_state.suppressed: per thread, and kept between calls
  made,        \* how many calls have been made
  content      \* what the result cached under each key holds: "offers" or "none"

pricingVars == <<vars, call, made, suppressed, content>>

\* No call, or one that has been answered.
Idle == [stage |-> "idle", noted |-> FALSE]

\* A call that has not asked anybody.  got is what Google's pages had
\* for this call, google the outcome.  dry, the providers found without a fare,
\* is history.
NewCall(purpose, trip) ==
  [stage |-> "google", purpose |-> purpose, trip |-> trip,
   got |-> {}, google |-> "unknown", noted |-> FALSE, dry |-> {}]

PricingInit ==
  /\ Init
  /\ call = [s \in Searches |-> Idle]
  /\ made = 0
  /\ suppressed = [s \in Searches |-> FALSE]
  /\ content = [k \in Keys |-> "none"]

\* live_flight_cost_eur, or live_flight_options.
Call(s) ==
  /\ call[s].stage \in {"idle", "empty"}
  /\ made < Calls
  /\ made' = made + 1
  /\ \E purpose \in {"price", "itineraries"}, t \in Trips :
       call' = [call EXCEPT ![s] = NewCall(purpose, t)]
  /\ UNCHANGED <<vars, suppressed, content>>

-----------------------------------------------------------------------------

Key(s, provider) == <<provider, call[s].trip>>

\* None, or [].
EmptyHanded(c) ==
  [stage |-> "empty", purpose |-> c.purpose, noted |-> c.noted, dry |-> c.dry, got |-> c.got]

\* The next provider is asked.  note_provider_blocked may have been called
\* before, which the search for itineraries never does.
AskNext(c, stage, google, dry, note) ==
  [stage |-> stage, purpose |-> c.purpose, trip |-> c.trip, got |-> c.got, google |-> google,
   noted |-> c.noted \/ (note /\ c.purpose = "price"), dry |-> dry]

\* What follows Google's outcome: its offers, or Kiwi.  A challenge is
\* recorded at once.
AfterGoogle(c, outcome) ==
  IF outcome = "offers"
    THEN Idle
    ELSE AskNext(c, "kiwi", outcome, {"google"}, outcome = "blocked")

\* Mutant: after a crash of the scraper the chain stops at Kiwi.
AfterFallbackUnpaid(c, provider, offers) ==
  LET dried == [c EXCEPT !.dry = @ \cup {provider}] IN
  CASE offers -> Idle
    [] ~offers /\ provider = "kiwi" /\ HasKey /\ c.google # "failed" ->
         [dried EXCEPT !.stage = "serpapi"]
    [] OTHER -> EmptyHanded(dried)

\* What follows a fallback: its offers, or the next one.  Stripped fares are
\* recorded once Kiwi has none either.
AfterFallback(c, provider, offers) ==
  LET next == AskNext(c, "serpapi", c.google, c.dry \cup {provider},
                      provider = "kiwi" /\ c.google = "stripped")
  IN  CASE offers -> Idle
        [] ~offers /\ provider = "kiwi" /\ HasKey -> next
        [] OTHER -> EmptyHanded(next)

\* Mutant: the flag of the thread's last search is not reset.
GoogleLookupKeepsFlag(s) ==
  LET k == Key(s, "google") IN
  /\ call[s].stage = "google"
  /\ \/ /\ Hit(k)
        /\ call' = [call EXCEPT ![s] = AfterGoogle(@, content[k])]
     \/ /\ Miss(s, k)
        /\ call' = [call EXCEPT ![s].stage = "airports"]
  /\ UNCHANGED <<made, suppressed, content>>

\* google_flights_adapter.search_flights looks into the cache, and on a miss
\* clears the thread's flag.
GoogleLookup(s) ==
  LET k == Key(s, "google") IN
  /\ call[s].stage = "google"
  /\ \/ /\ Hit(k)
        /\ call' = [call EXCEPT ![s] = AfterGoogle(@, content[k])]
        /\ UNCHANGED suppressed
     \/ /\ Miss(s, k)
        /\ call' = [call EXCEPT ![s].stage = "airports"]
        /\ suppressed' = [suppressed EXCEPT ![s] = FALSE]
  /\ UNCHANGED <<made, content>>

\* What one airport's page may hold: flights, none, flights without fares, a
\* challenge, or an error, which is one only if the second attempt fails too.
Pages == {"offers", "none", "stripped", "challenge", "error"}

\* Mutant: a challenge is an error like any other.
GoogleOutcomeFlattened(got, flag) ==
  CASE "offers" \in got -> "offers"
    [] "offers" \notin got /\ got \cap {"challenge", "error"} # {} -> "failed"
    [] OTHER -> IF flag THEN "stripped" ELSE "none"

\* One airport's failure does not sink the others; a challenge stays
\* distinguishable from an error.
GoogleOutcome(got, flag) ==
  CASE "offers" \in got -> "offers"
    [] "offers" \notin got /\ "challenge" \in got -> "blocked"
    [] got \cap {"offers", "challenge"} = {} /\ "error" \in got -> "failed"
    [] OTHER -> IF flag THEN "stripped" ELSE "none"

\* Mutant: a failure also drops what another search has cached.
EndFetchDropping(s, k, result, reusable) ==
  /\ fetch' = [fetch EXCEPT ![s] = NoFetch]
  /\ IF reusable
       THEN Store(k, fetch[s].asked) /\ content' = [content EXCEPT ![k] = result]
       ELSE /\ order' = Without(order, k)
            /\ entry' = [entry EXCEPT ![k] = NoEntry]
            /\ UNCHANGED <<used, latest, content>>
  /\ UNCHANGED clock

\* The fetch of s ends; a result that may be reused is cached.
EndFetch(s, k, result, reusable) ==
  /\ fetch' = [fetch EXCEPT ![s] = NoFetch]
  /\ IF reusable
       THEN /\ Store(k, fetch[s].asked)
            /\ content' = [j \in Keys |-> IF j = k THEN result
                                          ELSE IF Contains(order', j) THEN content[j] ELSE "none"]
       ELSE UNCHANGED <<order, entry, used, latest, content>>
  /\ UNCHANGED clock

\* The airports have been asked one after the other, each raising the thread's
\* flag if its fares were stripped.  Neither an exception nor a page stripped
\* of its fares is cached.
GoogleAnswers(s) ==
  /\ call[s].stage = "airports"
  /\ \E pages \in [1..Airports -> Pages] :
       LET got == Range(pages) \ {"none"}
           flag == suppressed[s] \/ "stripped" \in got
           outcome == GoogleOutcome(got, flag)
       IN  /\ suppressed' = [suppressed EXCEPT ![s] = flag]
           /\ EndFetch(s, Key(s, "google"), outcome, outcome \in {"offers", "none"})
           /\ call' = [call EXCEPT ![s] = AfterGoogle([@ EXCEPT !.got = got], outcome)]
  /\ UNCHANGED made

FallbackLookup(s, provider) ==
  LET k == Key(s, provider) IN
  /\ call[s].stage = provider
  /\ fetch[s] = NoFetch
  /\ \/ /\ Hit(k)
        /\ call' = [call EXCEPT ![s] = AfterFallback(@, provider, content[k] = "offers")]
     \/ Miss(s, k) /\ UNCHANGED call
  /\ UNCHANGED <<made, suppressed, content>>

\* One request covers every airport.  Without offers the answer is cached as
\* well, unless the request failed.
FallbackAnswers(s, provider) ==
  /\ call[s].stage = provider
  /\ fetch[s] # NoFetch
  /\ \E result \in {"offers", "none", "failed"} :
       /\ EndFetch(s, Key(s, provider), result, result # "failed")
       /\ call' = [call EXCEPT ![s] = AfterFallback(@, provider, result = "offers")]
  /\ UNCHANGED <<made, suppressed>>

PricingTick == Tick /\ UNCHANGED <<call, made, suppressed, content>>

PricingNext ==
  \/ \E s \in Searches :
       \/ Call(s) \/ GoogleLookup(s) \/ GoogleAnswers(s)
       \/ \E p \in Fallbacks : FallbackLookup(s, p) \/ FallbackAnswers(s, p)
  \/ PricingTick

PricingSpec == PricingInit /\ [][PricingNext]_pricingVars

-----------------------------------------------------------------------------

\* Types; an answer is only awaited in the stages that ask.
PricingTypeOK ==
  /\ TypeOK
  /\ content \in [Keys -> {"offers", "none"}]
  /\ suppressed \in [Searches -> BOOLEAN]
  /\ \A s \in Searches :
       /\ call[s].stage \in Providers \cup {"airports", "idle", "empty"}
       /\ call[s].stage = "airports" => fetch[s].keys = {Key(s, "google")}
       /\ call[s].stage \in {"google", "idle", "empty"} => fetch[s] = NoFetch

\* Whatever the chain does, it uses the cache as every adapter does: look up,
\* ask, store or leave alone (response_cache.py, get and set).
ImplementsCache == Spec

\* The threads whose last call has returned no price, or no itinerary.
Unanswered == {s \in Searches : call[s].stage = "empty"}

\* Nobody is left with an estimate while a provider has not been asked,
\* however the earlier ones failed (live_flight_cost_eur: "Same full depth as
\* the empty branch").
EstimateOnlyWhenExhausted ==
  \A s \in Unanswered :
    Providers \ call[s].dry \subseteq IF HasKey THEN {} ELSE {"serpapi"}

\* A price that is missing although Google refused it is reported to the
\* user: Google served a challenge, or stripped its fares and no airport
\* failed otherwise (provider_status.py: "degrade VISIBLY").
WallIsReported ==
  \A s \in Unanswered :
    /\ call[s].purpose = "price"
    /\ \/ "challenge" \in call[s].got
       \/ "stripped" \in call[s].got /\ "error" \notin call[s].got
    => call[s].noted

\* The stronger claim: stripped fares are reported whatever else went wrong
\* (live_flight_cost_eur: "record it so the UI can explain the wall of EST").
EveryWallIsReported ==
  \A s \in Unanswered :
    call[s].purpose = "price" /\ call[s].got \cap {"challenge", "stripped"} # {} => call[s].noted

\* A call reports a block only if Google refused this very call, never on the
\* strength of a cached answer or of what its thread did before.
NoFalseAlarm ==
  \A s \in Searches : call[s].noted => call[s].got \cap {"challenge", "stripped"} # {}

\* A call that ends without a price says that Google refused it when Google
\* did, and only then.
RefusalIsToldApart == WallIsReported /\ NoFalseAlarm
=============================================================================
