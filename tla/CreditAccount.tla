--------------------------- MODULE CreditAccount ---------------------------
(***************************************************************************)
(* What the per-user daily search-credit ledger promises its callers, as    *)
(* the docstring of credits.try_spend states it: a spend is ONE indivisible *)
(* decision.  It is granted when the account can afford it at that instant, *)
(* and then the whole cost is charged to the day the call was made on; or   *)
(* it is refused because the account cannot afford it, and then nothing is  *)
(* charged.  There is no third outcome: no error, no partial charge, no     *)
(* refusal of a credit the user has.                                        *)
(***************************************************************************)
EXTENDS Integers

CONSTANTS
  Users,      \* account holders
  LastDay,    \* the calendar is 1..LastDay
  Callers,    \* request handlers that may be inside a spend
  Allowance,  \* DEFAULT_DAILY_CREDITS
  Costs,      \* what a search may cost
  Durable     \* TRUE when the database survives a restart of the service

VARIABLES
  day,        \* today
  used,       \* used[u, d]: credits u has been charged on day d
  call        \* call[c]: the spend caller c is making, and how it was decided

vars == <<day, used, call>>

CalendarDays == 1..LastDay

CallRecord == [user : Users, cost : Costs, on : CalendarDays,
               state : {"idle", "pending", "granted", "refused"}]

Init ==
  /\ day = 1
  /\ used = [k \in Users \X CalendarDays |-> 0]
  /\ call \in [Callers -> {r \in CallRecord : r.state = "idle"}]

Request(c) ==
  /\ call[c].state = "idle"
  /\ \E u \in Users, n \in Costs :
       call' = [call EXCEPT ![c] = [user |-> u, cost |-> n, on |-> day, state |-> "pending"]]
  /\ UNCHANGED <<day, used>>

\* Mutant: the charge goes to the day of the decision.
GrantToday(c) ==
  LET k == <<call[c].user, day>> IN
  /\ call[c].state = "pending"
  /\ used[k] + call[c].cost <= Allowance
  /\ used' = [used EXCEPT ![k] = @ + call[c].cost]
  /\ call' = [call EXCEPT ![c].state = "granted"]
  /\ UNCHANGED day

Grant(c) ==
  LET k == <<call[c].user, call[c].on>> IN
  /\ call[c].state = "pending"
  /\ used[k] + call[c].cost <= Allowance
  /\ used' = [used EXCEPT ![k] = @ + call[c].cost]
  /\ call' = [call EXCEPT ![c].state = "granted"]
  /\ UNCHANGED day

Refuse(c) ==
  /\ call[c].state = "pending"
  /\ used[<<call[c].user, call[c].on>>] + call[c].cost > Allowance
  /\ call' = [call EXCEPT ![c].state = "refused"]
  /\ UNCHANGED <<day, used>>

Answer(c) ==
  /\ call[c].state \in {"granted", "refused"}
  /\ call' = [call EXCEPT ![c].state = "idle"]
  /\ UNCHANGED <<day, used>>

NextDay ==
  /\ day < LastDay
  /\ day' = day + 1
  /\ UNCHANGED <<used, call>>

\* The service restarts: every call in progress is lost, and possibly the
\* charges with them, unless the database outlives the process.
Restart ==
  /\ call' = [c \in Callers |-> [call[c] EXCEPT !.state = "idle"]]
  /\ \/ UNCHANGED used
     \/ ~Durable /\ used' = [k \in Users \X CalendarDays |-> 0]
  /\ UNCHANGED day

Next ==
  \/ \E c \in Callers : Request(c) \/ Grant(c) \/ Refuse(c) \/ Answer(c)
  \/ NextDay
  \/ Restart

Spec == Init /\ [][Next]_vars
=============================================================================
