--------------------------- MODULE SearchRequests ---------------------------
(***************************************************************************)
(* The two search routes of api/routes/search.py, from the first statement  *)
(* of the handler to the response, over the three things concurrent         *)
(* searches share: the credit accounts (CreditAccount, which Credits        *)
(* implements), the daily budget of live-priced searches (rate_limit.py's   *)
(* global limiter) and the list in engine/provider_status.py that records   *)
(* that a price provider blocked us.                                        *)
(*                                                                         *)
(* search_trips       charges, then validates the resort names, then asks   *)
(*                    for live pricing;                                     *)
(* search_trip_dates  validates the names, then asks for live pricing, then *)
(*                    charges.                                              *)
(***************************************************************************)
EXTENDS CreditAccount, FiniteSets, FiniteSetsExt

CONSTANTS
  LiveLimit,   \* MAX_LIVE_SEARCHES_PER_DAY
  Lookups,     \* bound: live price lookups that may be blocked, per search
  Anonymous    \* the "user" of a request let through by ALLOW_ANONYMOUS_SEARCH

ASSUME RequestsAssumption ==
  /\ Costs \subseteq Nat /\ Costs # {}
  /\ LastDay \in Nat \ {0}
  /\ Allowance \in Nat
  /\ LiveLimit \in Nat
  /\ Lookups \in Nat
  /\ Anonymous \notin Users
  /\ IsFiniteSet(Callers)   \* the threads of one process

VARIABLES
  asked,     \* the request in each handler
  pc,        \* where the handler is
  spent,     \* live_pricing_allowed(): units spent in the running window
  signal,    \* _BLOCK_SIGNAL is not empty
  live,      \* live_reprice_allowed of each handler
  reply,     \* the response
  paid,      \* credits charged for each request, and on which day (history)
  hit,       \* blocked lookups of each request (history)
  blockSeen, \* requests during which some lookup was blocked (history)
  cut        \* requests during which another one reset the list (history)

account == <<day, used, call>>
history == <<paid, hit, blockSeen, cut>>
all == <<account, asked, pc, spent, signal, live, reply, history>>

\* What a request says: its route, whether its dates are acceptable and its
\* resort names known, whether it has a start date, who sends it, and how
\* many credits its candidate dates cost.
RequestSet ==
  {q \in [route : {"search", "dates"}, dates : {"good", "past"}, names : {"known", "unknown"},
          dated : BOOLEAN, user : Users \cup {Anonymous}, cost : Costs] :
     /\ q.route = "search" => q.cost = 1
     /\ q.route = "dates" => q.dated
     /\ ~q.dated => q.dates = "good"}

Unanswered == [code |-> 0, blocked |-> FALSE]

RequestsInit ==
  /\ Init
  /\ asked \in [Callers -> {CHOOSE q \in RequestSet : TRUE}]
  /\ pc = [c \in Callers |-> "new"]
  /\ spent = 0
  /\ signal = FALSE
  /\ live = [c \in Callers |-> FALSE]
  /\ reply = [c \in Callers |-> Unanswered]
  /\ paid = [c \in Callers |-> [credits |-> 0, on |-> 1]]
  /\ hit = [c \in Callers |-> 0]
  /\ blockSeen = {}
  /\ cut = {}

Goto(c, label) == pc' = [pc EXCEPT ![c] = label]

Respond(c, code, blocked) ==
  /\ Goto(c, "done")
  /\ reply' = [reply EXCEPT ![c] = [code |-> code, blocked |-> blocked]]

\* Handlers that have cleared the list and not yet answered.
Running == {c \in Callers : pc[c] \notin {"new", "reset", "done"}}

\* A request arrives.
Arrive(c) ==
  /\ pc[c] = "new"
  /\ \E q \in RequestSet : asked' = [asked EXCEPT ![c] = q]
  /\ Goto(c, "reset")
  /\ UNCHANGED <<account, spent, signal, live, reply, history>>

\* Mutant: the list is never cleared.
ResetForgotten(c) ==
  /\ pc[c] = "reset"
  /\ Goto(c, "dates")
  /\ UNCHANGED <<account, asked, spent, signal, live, reply, history>>

\* reset_provider_status()
Reset(c) ==
  /\ pc[c] = "reset"
  /\ signal' = FALSE
  /\ cut' = cut \cup Running
  /\ Goto(c, "dates")
  /\ UNCHANGED <<account, asked, spent, live, reply, paid, hit, blockSeen>>

\* _reject_past_date, and search_trip_dates' window checks: 400.
CheckDates(c) ==
  /\ pc[c] = "dates"
  /\ \/ /\ asked[c].dates = "past"
        /\ Respond(c, 400, FALSE)
     \/ /\ asked[c].dates = "good"
        /\ Goto(c, IF asked[c].route = "search" THEN "charge" ELSE "names")
        /\ UNCHANGED reply
  /\ UNCHANGED <<account, asked, spent, signal, live, history>>

\* _validate_resort_names: 404.
CheckNames(c) ==
  /\ pc[c] = "names"
  /\ \/ /\ asked[c].names = "unknown"
        /\ Respond(c, 404, FALSE)
     \/ /\ asked[c].names = "known"
        /\ Goto(c, "budget")
        /\ UNCHANGED reply
  /\ UNCHANGED <<account, asked, spent, signal, live, history>>

AfterBudget(c) == Goto(c, IF asked[c].route = "search" THEN "price" ELSE "charge")

\* live_pricing_allowed(), which a search without a date does not call.
AskBudget(c) ==
  /\ pc[c] = "budget"
  /\ AfterBudget(c)
  /\ \/ /\ asked[c].dated /\ spent < LiveLimit
        /\ spent' = spent + 1
        /\ live' = [live EXCEPT ![c] = TRUE]
     \/ /\ ~(asked[c].dated /\ spent < LiveLimit)
        /\ UNCHANGED <<spent, live>>
  /\ UNCHANGED <<account, asked, signal, reply, history>>

AfterCharge(c) == Goto(c, IF asked[c].route = "search" THEN "names" ELSE "price")

\* _charge_credits: nobody to charge, or try_spend is called.
Charge(c) ==
  /\ pc[c] = "charge"
  /\ \/ /\ asked[c].user = Anonymous
        /\ AfterCharge(c)
        /\ UNCHANGED account
     \/ /\ asked[c].user # Anonymous
        /\ call' = [call EXCEPT ![c] = [user |-> asked[c].user, cost |-> asked[c].cost,
                                        on |-> day, state |-> "pending"]]
        /\ Goto(c, "charging")
        /\ UNCHANGED <<day, used>>
  /\ UNCHANGED <<asked, spent, signal, live, reply, history>>

\* try_spend decides.
Spend(c) ==
  /\ \/ /\ Grant(c)
        /\ paid' = [paid EXCEPT ![c] = [credits |-> call[c].cost, on |-> call[c].on]]
     \/ /\ Refuse(c)
        /\ UNCHANGED paid
  /\ UNCHANGED <<asked, pc, spent, signal, live, reply, hit, blockSeen, cut>>

\* Mutant: the refusal is not looked at.
ChargedIgnoringRefusal(c) ==
  /\ pc[c] = "charging"
  /\ Answer(c)
  /\ AfterCharge(c)
  /\ UNCHANGED <<asked, reply, spent, signal, live, history>>

\* None is a 402, anything else the balance to report.
Charged(c) ==
  /\ pc[c] = "charging"
  /\ Answer(c)
  /\ \/ /\ call[c].state = "refused"
        /\ Respond(c, 402, FALSE)
     \/ /\ call[c].state = "granted"
        /\ AfterCharge(c)
        /\ UNCHANGED reply
  /\ UNCHANGED <<asked, spent, signal, live, history>>

\* note_provider_blocked(): a lookup of this search meets an anti-bot page
\* (live_flight_cost_eur).
LookupBlocked(c) ==
  /\ pc[c] = "price"
  /\ live[c]
  /\ hit[c] < Lookups
  /\ hit' = [hit EXCEPT ![c] = @ + 1]
  /\ signal' = TRUE
  /\ blockSeen' = blockSeen \cup Running
  /\ UNCHANGED <<account, asked, pc, spent, live, reply, paid, cut>>

\* Mutant: the response says what the list held when pricing began.
RespondWithoutBlock(c) ==
  /\ pc[c] = "price"
  /\ Respond(c, 200, FALSE)
  /\ UNCHANGED <<account, asked, spent, signal, live, history>>

\* The results are ranked and sent, with was_provider_blocked().
RespondResults(c) ==
  /\ pc[c] = "price"
  /\ Respond(c, 200, signal)
  /\ UNCHANGED <<account, asked, spent, signal, live, history>>

\* The oldest hit leaves the limiter's window.
BudgetReturns ==
  /\ spent > 0
  /\ spent' = spent - 1
  /\ UNCHANGED <<account, asked, pc, signal, live, reply, history>>

Midnight ==
  /\ NextDay
  /\ UNCHANGED <<asked, pc, spent, signal, live, reply, history>>

RequestsNext ==
  \/ \E c \in Callers :
       \/ Arrive(c) \/ Reset(c) \/ CheckDates(c) \/ CheckNames(c) \/ AskBudget(c)
       \/ Charge(c) \/ Spend(c) \/ Charged(c) \/ LookupBlocked(c) \/ RespondResults(c)
  \/ BudgetReturns
  \/ Midnight

RequestsSpec == RequestsInit /\ [][RequestsNext]_all

-----------------------------------------------------------------------------

\* Types of the handlers' state.
RequestsTypeOK ==
  /\ asked \in [Callers -> RequestSet]
  /\ pc \in [Callers -> {"new", "reset", "dates", "names", "budget", "charge", "charging",
                         "price", "done"}]
  /\ spent \in 0..LiveLimit
  /\ signal \in BOOLEAN
  /\ live \in [Callers -> BOOLEAN]
  /\ reply \in [Callers -> [code : {0, 200, 400, 402, 404}, blocked : BOOLEAN]]
  /\ call \in [Callers -> CallRecord]

\* Who is served has paid the whole price, who is refused or sends
\* unacceptable dates nothing; and search_trip_dates bills nobody for a name
\* it does not know.
BilledAsServed ==
  \A c \in Callers :
    LET q == asked[c]
        price == IF q.user = Anonymous THEN 0 ELSE q.cost
    IN  /\ reply[c].code = 200 => paid[c].credits = price
        /\ reply[c].code \in {400, 402} => paid[c].credits = 0
        /\ q.route = "dates" /\ reply[c].code = 404 => paid[c].credits = 0

\* Every credit that left an account left it for one of the requests of its
\* owner, across concurrent searches and midnight.
CreditsAccountedFor ==
  \A u \in Users, d \in CalendarDays :
    used[<<u, d>>] =
      MapThenSumSet(LAMBDA c : paid[c].credits,
                    {c \in Callers : asked[c].user = u /\ paid[c].on = d})

\* A search that no other search's reset cut across reports the blocks its
\* lookups met.
UncutBlockReported ==
  \A c \in Callers :
    reply[c].code = 200 /\ hit[c] > 0 /\ c \notin cut => reply[c].blocked

\* A reported block happened while the search ran, its own or another's
\* (provider_status.py: "one request may report a block another request hit").
ReportedBlockHappened ==
  \A c \in Callers : reply[c].blocked => c \in blockSeen

\* What a response says of blocked lookups is what its own search met, or what
\* happened while it ran; only a concurrent reset can keep it from the user.
BlockReportsAreHonest == UncutBlockReported /\ ReportedBlockHappened

\* The shared list errs on the side of reporting (provider_status.py: it
\* "OVER-reports honesty rather than under-reporting it").
BlockNeverHidden ==
  \A c \in Callers : reply[c].code = 200 /\ hit[c] > 0 => reply[c].blocked

\* A request refused for want of credits has not used up the budget of live
\* searches everybody shares (live_pricing_allowed: "only when the caller has
\* already confirmed the OTHER conditions for live pricing ..., so a request
\* that was never going to be live-priced anyway doesn't spend budget").
RefusalCostsNothing ==
  \A c \in Callers : reply[c].code = 402 => ~live[c]
=============================================================================
