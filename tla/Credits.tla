------------------------------ MODULE Credits ------------------------------
(***************************************************************************)
(* api/credits.py: try_spend and get_status, run by concurrent request      *)
(* handlers against one SQL table with a UNIQUE (user_id, day) constraint.  *)
(*                                                                         *)
(* A step is one committed SQL statement, because that is the granularity   *)
(* at which handlers interleave: the conditional UPDATE (committed on its   *)
(* own), the SELECT that explains why it matched nothing, the INSERT of the *)
(* day's first row, and the SELECT of get_status after a charge.  The local *)
(* variable `today' is read once, at the call; get_status reads the clock   *)
(* again.  A restart of the service kills every handler wherever it is.     *)
(***************************************************************************)
EXTENDS Integers

CONSTANTS
  Users,        \* account holders
  LastDay,      \* bound on the calendar: the days are 1..LastDay
  Threads,      \* request handlers
  Allowance,    \* DEFAULT_DAILY_CREDITS
  Costs,        \* what cost_for_candidate_dates may return
  MaxAttempts,  \* _MAX_SPEND_ATTEMPTS
  Durable       \* FALSE for SQLite on an ephemeral disk, TRUE for a database server

ASSUME CreditsAssumption ==
  /\ LastDay \in Nat \ {0}
  /\ Allowance \in Nat
  /\ Costs \subseteq Nat \ {0}
  /\ MaxAttempts \in Nat
  /\ MaxAttempts >= 2
  /\ Durable \in BOOLEAN

Days == 1..LastDay
Keys == Users \X Days

VARIABLES
  clock,    \* the date _today() returns
  rows,     \* the (user, day) pairs that have a ledger row
  used,     \* credits_used of each row; 0 where there is none
  pc,       \* where each handler is in try_spend
  user, cost, today, attempt,  \* its arguments and local variables
  reply,    \* the outcome it returns: "granted" (a status), "refused" (None), "error"
  seen      \* used_today of the status it returns

ledger == <<rows, used>>
locals == <<user, cost, today>>
vars == <<clock, rows, used, pc, user, cost, today, attempt, reply, seen>>

\* The row a handler charges: `today' is read once, when the call starts.
Key(t) == <<user[t], today[t]>>

Init ==
  /\ clock = 1
  /\ rows = {}
  /\ used = [k \in Keys |-> 0]
  /\ pc = [t \in Threads |-> "idle"]
  /\ user \in [Threads -> Users]
  /\ cost \in [Threads -> Costs]
  /\ today = [t \in Threads |-> 1]
  /\ attempt = [t \in Threads |-> 1]
  /\ reply = [t \in Threads |-> "none"]
  /\ seen = [t \in Threads |-> 0]

Goto(t, label) == pc' = [pc EXCEPT ![t] = label]

Return(t, answer) ==
  /\ Goto(t, "done")
  /\ reply' = [reply EXCEPT ![t] = answer]

CallTrySpend(t) ==
  /\ pc[t] = "idle"
  /\ Goto(t, "update")
  /\ \E u \in Users, n \in Costs :
       /\ user' = [user EXCEPT ![t] = u]
       /\ cost' = [cost EXCEPT ![t] = n]
  /\ today' = [today EXCEPT ![t] = clock]
  /\ attempt' = [attempt EXCEPT ![t] = 1]
  /\ reply' = [reply EXCEPT ![t] = "none"]
  /\ seen' = [seen EXCEPT ![t] = 0]
  /\ UNCHANGED <<clock, ledger>>

\* Mutants of the WHERE clause of the UPDATE.
UpdateMatchesAnyBalance(t) == Key(t) \in rows
UpdateMatchesOffByOne(t) == Key(t) \in rows /\ used[Key(t)] < Allowance - cost[t]

\* The WHERE clause of the atomic conditional increment.
UpdateMatches(t) ==
  /\ Key(t) \in rows
  /\ used[Key(t)] <= Allowance - cost[t]

\* UPDATE ... SET credits_used = credits_used + cost; COMMIT.
Update(t) ==
  /\ pc[t] = "update"
  /\ \/ /\ UpdateMatches(t)
        /\ used' = [used EXCEPT ![Key(t)] = @ + cost[t]]
        /\ Goto(t, "status")
     \/ /\ ~UpdateMatches(t)
        /\ Goto(t, "select")
        /\ UNCHANGED used
  /\ UNCHANGED <<clock, rows, locals, attempt, reply, seen>>

\* The for loop: another pass while there is one, else what follows the
\* loop (atEnd) is returned.
NextAttempt(t, atEnd) ==
  IF attempt[t] < MaxAttempts
    THEN /\ attempt' = [attempt EXCEPT ![t] = @ + 1]
         /\ Goto(t, "update")
         /\ UNCHANGED reply
    ELSE /\ Return(t, atEnd)
         /\ UNCHANGED attempt

\* Mutant: an unaffordable row is not told apart from an affordable one.
SelectRefusesAnyRow(t) ==
  /\ pc[t] = "select"
  /\ \/ /\ Key(t) \in rows \/ cost[t] > Allowance
        /\ Return(t, "refused")
     \/ /\ Key(t) \notin rows /\ cost[t] <= Allowance
        /\ Goto(t, "insert")
        /\ UNCHANGED reply
  /\ UNCHANGED <<clock, ledger, locals, attempt, seen>>

\* The UPDATE matched nothing: a row that cannot pay refuses, a row that
\* can was created after the UPDATE ran and is retried, no row is inserted.
Select(t) ==
  /\ pc[t] = "select"
  /\ \/ /\ Key(t) \in rows
        /\ used[Key(t)] + cost[t] > Allowance
        /\ Return(t, "refused")
        /\ UNCHANGED attempt
     \/ /\ Key(t) \in rows
        /\ used[Key(t)] + cost[t] <= Allowance
        /\ NextAttempt(t, "refused")
     \/ /\ Key(t) \notin rows
        /\ cost[t] > Allowance
        /\ Return(t, "refused")
        /\ UNCHANGED attempt
     \/ /\ Key(t) \notin rows
        /\ cost[t] <= Allowance
        /\ Goto(t, "insert")
        /\ UNCHANGED <<attempt, reply>>
  /\ UNCHANGED <<clock, ledger, locals, seen>>

InsertRow(t) ==
  /\ Key(t) \notin rows
  /\ rows' = rows \cup {Key(t)}
  /\ used' = [used EXCEPT ![Key(t)] = cost[t]]
  /\ Return(t, "granted")
  /\ UNCHANGED attempt

\* Mutant: the loser of the INSERT race inserts again instead of looping
\* back to the UPDATE.
InsertForever(t) ==
  /\ pc[t] = "insert"
  /\ \/ InsertRow(t) /\ seen' = [seen EXCEPT ![t] = cost[t]]
     \/ Key(t) \in rows /\ UNCHANGED <<ledger, pc, attempt, reply, seen>>
  /\ UNCHANGED <<clock, locals>>

\* Mutant: the status of a fresh row is built without the charge.
InsertStatusBeforeCharge(t) ==
  /\ pc[t] = "insert"
  /\ \/ InsertRow(t) /\ UNCHANGED seen
     \/ Key(t) \in rows /\ NextAttempt(t, "error") /\ UNCHANGED <<ledger, seen>>
  /\ UNCHANGED <<clock, locals>>

\* INSERT; COMMIT.  The UNIQUE constraint makes the second of two inserts
\* fail: it is rolled back and the next pass updates the winner's row.
Insert(t) ==
  /\ pc[t] = "insert"
  /\ \/ /\ InsertRow(t)
        /\ seen' = [seen EXCEPT ![t] = cost[t]]
     \/ /\ Key(t) \in rows
        /\ NextAttempt(t, "error")
        /\ UNCHANGED <<ledger, seen>>
  /\ UNCHANGED <<clock, locals>>

\* get_status after a successful UPDATE: the date is read afresh.
ReadStatus(t) ==
  /\ pc[t] = "status"
  /\ Return(t, "granted")
  /\ seen' = [seen EXCEPT ![t] = used[<<user[t], clock>>]]
  /\ UNCHANGED <<clock, ledger, locals, attempt>>

Answer(t) ==
  /\ pc[t] = "done"
  /\ Goto(t, "idle")
  /\ UNCHANGED <<clock, ledger, locals, attempt, reply, seen>>

Midnight ==
  /\ clock < LastDay
  /\ clock' = clock + 1
  /\ UNCHANGED <<ledger, pc, locals, attempt, reply, seen>>

\* Every handler is gone, and the ledger with them if the disk was the
\* instance's own.
Restart ==
  /\ pc' = [t \in Threads |-> "idle"]
  /\ \/ UNCHANGED ledger
     \/ ~Durable /\ rows' = {} /\ used' = [k \in Keys |-> 0]
  /\ UNCHANGED <<clock, locals, attempt, reply, seen>>

Step(t) == Update(t) \/ Select(t) \/ Insert(t) \/ ReadStatus(t) \/ Answer(t)

Next ==
  \/ \E t \in Threads : CallTrySpend(t) \/ Step(t)
  \/ Midnight
  \/ Restart

Spec == Init /\ [][Next]_vars

\* A handler that is inside try_spend keeps running; nobody is obliged to
\* search, to cross midnight or to restart the service.
FairSpec == Spec /\ \A t \in Threads : WF_vars(Step(t))

-----------------------------------------------------------------------------

Labels == {"idle", "update", "select", "insert", "status", "done"}

\* Types of the ledger and of the handlers' local variables.
TypeOK ==
  /\ clock \in Days
  /\ rows \subseteq Keys
  /\ used \in [Keys -> Nat]
  /\ pc \in [Threads -> Labels]
  /\ user \in [Threads -> Users]
  /\ cost \in [Threads -> Costs]
  /\ today \in [Threads -> Days]
  /\ attempt \in [Threads -> 1..MaxAttempts]
  /\ reply \in [Threads -> {"none", "granted", "refused", "error"}]
  /\ seen \in [Threads -> Nat]

\* No interleaving of spends, first inserts included, charges a user more
\* than the daily allowance (credits.py: "two concurrent spends cannot both
\* read the same starting value").
WithinAllowance == \A k \in Keys : used[k] <= Allowance

\* A handler decides in at most two passes over the loop: the retries are
\* never used up, so neither the re-raised IntegrityError nor the `return
\* None' below the loop can happen (credits.py: "being refused a credit you
\* actually have is a bug, not a limit").
TwoPassesSuffice ==
  \A t \in Threads : attempt[t] <= 2 /\ reply[t] # "error"

\* The status returned with a granted spend is the status AFTER spending: it
\* accounts at least for the credits just charged (try_spend's docstring), as
\* long as midnight does not fall between the charge and the response: the
\* second look at the clock is then another day's.
StatusAfterSpending ==
  \A t \in Threads :
    pc[t] = "done" /\ reply[t] = "granted" /\ today[t] = clock => seen[t] >= cost[t]

\* The ledger implements the indivisible account of CreditAccount: the
\* statement that commits a charge, or that shows the account cannot pay,
\* is the instant of the decision.
CallState(t) ==
  CASE pc[t] = "idle" -> "idle"
    [] pc[t] \in {"update", "select", "insert"} -> "pending"
    [] pc[t] = "status" -> "granted"
    [] OTHER -> reply[t]

Account == INSTANCE CreditAccount WITH
  Callers <- Threads,
  day <- clock,
  call <- [t \in Threads |->
             [user |-> user[t], cost |-> cost[t], on |-> today[t], state |-> CallState(t)]]

\* Every execution of try_spend is one atomic grant or refusal.
ImplementsAccount == Account!Spec

\* Every handler that enters try_spend leaves it, granted or refused.
EverySpendAnswered ==
  \A t \in Threads : pc[t] = "update" ~> pc[t] \in {"done", "idle"}
=============================================================================
