------------------------ MODULE SearchRequestsProofs ------------------------
(***************************************************************************)
(* Proofs, for every number of handlers and users, every price, allowance   *)
(* and live budget, of what SearchRequests says of bills and of reported    *)
(* blocks, and of its use of the credit accounts.                           *)
(*                                                                         *)
(* Neither property is inductive.  What was paid is a fact about where the   *)
(* handler is, which differs between the two routes; and a reported block    *)
(* is honest because the list is not empty only while everybody who is       *)
(* running has seen the block that filled it.                               *)
(*                                                                         *)
(* That every credit is billed is an equation between a ledger and a sum     *)
(* over the requests.  The sum is a fold over a set, so what it does when    *)
(* one request changes is proved first, from its recursive table; then that  *)
(* ledger and bills move together, in the one step that decides (Balanced).  *)
(***************************************************************************)
EXTENDS SearchRequests, FiniteSetTheorems, TLAPS

Price(q) == IF q.user = Anonymous THEN 0 ELSE q.cost

\* The statements before the route's charge, and those after it.
Before(route) == {"new", "reset", "dates", "charge"}
                   \cup (IF route = "dates" THEN {"names", "budget"} ELSE {})
After(route) == {"price"} \cup (IF route = "search" THEN {"names", "budget"} ELSE {})

\* What a handler has paid at each statement.
PaidInv(c) ==
  /\ pc[c] \in Before(asked[c].route) => paid[c].credits = 0
  /\ pc[c] \in After(asked[c].route) => paid[c].credits = Price(asked[c])
  /\ pc[c] = "charging" =>
       /\ asked[c].user # Anonymous
       /\ call[c].user = asked[c].user /\ call[c].cost = asked[c].cost
       /\ call[c].state \in {"pending", "granted", "refused"}
       /\ paid[c].credits = IF call[c].state = "granted" THEN asked[c].cost ELSE 0
  /\ pc[c] # "charging" => call[c].state = "idle"

\* The responses sent so far.
ReplyInv(c) ==
  /\ pc[c] # "done" => reply[c].code = 0 /\ ~reply[c].blocked
  /\ reply[c].code = 200 => paid[c].credits = Price(asked[c])
  /\ reply[c].code \in {400, 402} => paid[c].credits = 0
  /\ asked[c].route = "dates" /\ reply[c].code = 404 => paid[c].credits = 0

\* What a handler has met, and what the list and the response say of it.
BlockInv(c) ==
  /\ hit[c] \in Nat
  /\ hit[c] > 0 => pc[c] \in {"price", "done"}
  /\ pc[c] = "price" /\ hit[c] > 0 /\ c \notin cut => signal
  /\ reply[c].code = 200 /\ hit[c] > 0 /\ c \notin cut => reply[c].blocked
  /\ reply[c].blocked => c \in blockSeen
  /\ signal /\ c \in Running => c \in blockSeen

\* The accounts, as far as a charge needs them.
AccountTypeOK ==
  /\ day \in CalendarDays
  /\ used \in [Users \X CalendarDays -> Nat]
  /\ paid \in [Callers -> [credits : Nat, on : CalendarDays]]

IInv ==
  /\ RequestsTypeOK
  /\ AccountTypeOK
  /\ \A c \in Callers : PaidInv(c) /\ ReplyInv(c) /\ BlockInv(c)

-----------------------------------------------------------------------------

\* There is a request to start from.
LEMMA SomeRequest == RequestSet # {}
<1>1. PICK n \in Costs : TRUE
  BY RequestsAssumption
<1>2. [route |-> "dates", dates |-> "good", names |-> "known", dated |-> TRUE,
       user |-> Anonymous, cost |-> n] \in RequestSet
  BY <1>1 DEF RequestSet
<1>3. QED
  BY <1>2

\* Nobody has asked for anything yet.
LEMMA InitIInv == RequestsInit => IInv
<1> SUFFICES ASSUME RequestsInit PROVE IInv
  OBVIOUS
<1>1. /\ \A c \in Callers : asked[c] \in RequestSet
      /\ asked \in [Callers -> RequestSet]
  <2>1. (CHOOSE q \in RequestSet : TRUE) \in RequestSet
    BY SomeRequest
  <2>2. QED
    BY <2>1 DEF RequestsInit
<1>2. 1 \in CalendarDays
  BY RequestsAssumption DEF CalendarDays
<1>3. call \in [Callers -> CallRecord] /\ \A c \in Callers : call[c].state = "idle"
  BY DEF RequestsInit, Init
<1>4. RequestsTypeOK
  <2>1. Unanswered \in [code : {0, 200, 400, 402, 404}, blocked : BOOLEAN]
    BY DEF Unanswered
  <2>2. /\ reply \in [Callers -> [code : {0, 200, 400, 402, 404}, blocked : BOOLEAN]]
        /\ pc \in [Callers -> {"new", "reset", "dates", "names", "budget", "charge", "charging",
                               "price", "done"}]
        /\ live \in [Callers -> BOOLEAN] /\ signal \in BOOLEAN
    BY <2>1, ZenonT(40) DEF RequestsInit
  <2>3. spent \in 0..LiveLimit
    BY RequestsAssumption DEF RequestsInit
  <2>4. QED
    BY <1>1, <1>3, <2>2, <2>3 DEF RequestsTypeOK
<1>5. AccountTypeOK
  BY <1>2 DEF RequestsInit, Init, AccountTypeOK
<1>6. ASSUME NEW c \in Callers PROVE PaidInv(c) /\ ReplyInv(c) /\ BlockInv(c)
  <2>1. /\ pc[c] = "new" /\ call[c].state = "idle" /\ reply[c] = Unanswered
        /\ paid[c].credits = 0 /\ hit[c] = 0 /\ ~signal
    BY <1>3 DEF RequestsInit
  <2>2. reply[c].code = 0 /\ ~reply[c].blocked
    BY <2>1 DEF Unanswered
  <2>3. PaidInv(c)
    BY <2>1 DEF PaidInv, Before, After
  <2>4. ReplyInv(c) /\ BlockInv(c)
    BY <2>1, <2>2 DEF ReplyInv, BlockInv
  <2>5. QED
    BY <2>3, <2>4
<1>7. QED
  BY <1>4, <1>5, <1>6 DEF IInv

\* A caller whose handler does not move, while the list only grows and blocks
\* are only seen by more.
LEMMA OtherCaller ==
  ASSUME IInv, NEW c \in Callers,
         asked'[c] = asked[c], pc'[c] = pc[c], call'[c] = call[c], paid'[c] = paid[c],
         reply'[c] = reply[c], hit'[c] = hit[c],
         signal => signal' \/ (c \in Running => c \in cut'),
         signal' => signal \/ (c \in Running => c \in blockSeen'),
         c \in cut => c \in cut', c \in blockSeen => c \in blockSeen'
  PROVE  PaidInv(c)' /\ ReplyInv(c)' /\ BlockInv(c)'
<1>1. PaidInv(c) /\ ReplyInv(c) /\ BlockInv(c)
  BY DEF IInv
<1>2. PaidInv(c)' /\ ReplyInv(c)'
  BY <1>1 DEF PaidInv, ReplyInv, Price, Before, After
<1>3. c \in Running' <=> c \in Running
  BY DEF Running
<1>4. pc[c] = "price" => c \in Running
  BY DEF Running
<1>5. QED
  BY <1>1, <1>2, <1>3, <1>4 DEF BlockInv

\* A step of one handler that leaves the list alone and bills nobody.
LEMMA QuietStep ==
  ASSUME IInv, NEW c \in Callers,
         UNCHANGED <<account, signal, history>>,
         asked' \in [Callers -> RequestSet], pc' \in [Callers -> {"new", "reset", "dates",
           "names", "budget", "charge", "charging", "price", "done"}],
         spent' \in 0..LiveLimit, live' \in [Callers -> BOOLEAN],
         reply' \in [Callers -> [code : {0, 200, 400, 402, 404}, blocked : BOOLEAN]],
         \A d \in Callers \ {c} :
           asked'[d] = asked[d] /\ pc'[d] = pc[d] /\ reply'[d] = reply[d],
         PaidInv(c)', ReplyInv(c)', BlockInv(c)'
  PROVE  IInv'
<1>1. RequestsTypeOK' /\ AccountTypeOK'
  BY DEF IInv, RequestsTypeOK, AccountTypeOK, account, history
<1>2. ASSUME NEW d \in Callers \ {c} PROVE PaidInv(d)' /\ ReplyInv(d)' /\ BlockInv(d)'
  BY <1>2, OtherCaller DEF account, history
<1>3. QED
  BY <1>1, <1>2 DEF IInv

LEMMA ArriveIInv == ASSUME IInv, NEW c \in Callers, Arrive(c) PROVE IInv'
<1>1. PICK q \in RequestSet : asked' = [asked EXCEPT ![c] = q]
  BY DEF Arrive
<1>2. /\ pc[c] = "new" /\ pc' = [pc EXCEPT ![c] = "reset"]
      /\ UNCHANGED <<account, spent, signal, live, reply, history>>
  BY DEF Arrive, Goto
<1>3. PaidInv(c) /\ ReplyInv(c) /\ BlockInv(c) /\ RequestsTypeOK
  BY DEF IInv
<1>4. pc'[c] = "reset" /\ asked'[c] = q
  BY <1>1, <1>2, <1>3 DEF RequestsTypeOK
<1>5. PaidInv(c)' /\ ReplyInv(c)' /\ BlockInv(c)'
  BY <1>2, <1>3, <1>4 DEF PaidInv, ReplyInv, BlockInv, Before, After, Running, account, history
<1>6. QED
  BY <1>1, <1>2, <1>3, <1>5, QuietStep DEF RequestsTypeOK, account, history

LEMMA ResetIInv == ASSUME IInv, NEW c \in Callers, Reset(c) PROVE IInv'
<1>1. /\ pc[c] = "reset" /\ pc' = [pc EXCEPT ![c] = "dates"]
      /\ signal' = FALSE /\ cut' = cut \cup Running
      /\ UNCHANGED <<account, asked, spent, live, reply, paid, hit, blockSeen>>
  BY DEF Reset, Goto
<1>2. PaidInv(c) /\ ReplyInv(c) /\ BlockInv(c) /\ RequestsTypeOK /\ AccountTypeOK
  BY DEF IInv
<1>3. RequestsTypeOK' /\ AccountTypeOK'
  BY <1>1, <1>2 DEF RequestsTypeOK, AccountTypeOK, account
<1>4. pc'[c] = "dates"
  BY <1>1, <1>2 DEF RequestsTypeOK
<1>5. PaidInv(c)' /\ ReplyInv(c)' /\ BlockInv(c)'
  BY <1>1, <1>2, <1>4 DEF PaidInv, ReplyInv, BlockInv, Before, After, account, Price
<1>6. ASSUME NEW d \in Callers \ {c} PROVE PaidInv(d)' /\ ReplyInv(d)' /\ BlockInv(d)'
  BY <1>1, <1>2, OtherCaller DEF account, RequestsTypeOK
<1>7. QED
  BY <1>3, <1>5, <1>6 DEF IInv

\* A step to the next statement, or a response, that bills nobody: what has
\* been paid fits the place it goes to.
LEMMA MoveIInv ==
  ASSUME IInv, NEW c \in Callers,
         NEW to \in {"names", "budget", "charge", "price"},
         pc[c] \in {"dates", "names", "budget"},
         pc' = [pc EXCEPT ![c] = to],
         asked[c].route = "dates" => to # "price",
         asked[c].route = "search" => (to = "charge" <=> pc[c] = "dates"),
         spent' \in 0..LiveLimit, live' \in [Callers -> BOOLEAN],
         UNCHANGED <<account, asked, signal, reply, history>>
  PROVE  IInv'
<1>1. PaidInv(c) /\ ReplyInv(c) /\ BlockInv(c) /\ RequestsTypeOK
  BY DEF IInv
<1>2. asked[c] \in RequestSet /\ asked[c].route \in {"search", "dates"}
  BY <1>1 DEF RequestsTypeOK, RequestSet
<1>3. pc'[c] = to
  BY <1>1 DEF RequestsTypeOK
<1>4. /\ pc[c] \in Before(asked[c].route) => to \in Before(asked[c].route)
      /\ pc[c] \in After(asked[c].route) => to \in After(asked[c].route)
      /\ pc[c] \in Before(asked[c].route) \/ pc[c] \in After(asked[c].route)
      /\ ~(to \in Before(asked[c].route) /\ to \in After(asked[c].route))
  BY <1>2 DEF Before, After
<1>5. PaidInv(c)'
  BY <1>1, <1>3, <1>4 DEF PaidInv, account, history, Price
<1>6. ReplyInv(c)' /\ BlockInv(c)'
  BY <1>1, <1>3 DEF ReplyInv, BlockInv, Running, history, Price
<1>7. QED
  BY <1>1, <1>5, <1>6, QuietStep DEF RequestsTypeOK, account, history

\* A response that is sent while nothing is being charged.
LEMMA RespondIInv ==
  ASSUME IInv, NEW c \in Callers, NEW code \in {200, 400, 404}, NEW blocked \in BOOLEAN,
         pc[c] # "charging", Respond(c, code, blocked),
         UNCHANGED <<account, asked, spent, signal, live, history>>,
         code = 200 => paid[c].credits = Price(asked[c]) /\ (hit[c] > 0 /\ c \notin cut => blocked),
         code = 400 => paid[c].credits = 0,
         code = 404 /\ asked[c].route = "dates" => paid[c].credits = 0,
         blocked => c \in blockSeen
  PROVE  IInv'
<1>1. PaidInv(c) /\ ReplyInv(c) /\ BlockInv(c) /\ RequestsTypeOK
  BY DEF IInv
<1>2. /\ pc' = [pc EXCEPT ![c] = "done"]
      /\ reply' = [reply EXCEPT ![c] = [code |-> code, blocked |-> blocked]]
  BY DEF Respond, Goto
<1>3. [code |-> code, blocked |-> blocked] \in [code : {0, 200, 400, 402, 404}, blocked : BOOLEAN]
  OBVIOUS
<1>4. reply' \in [Callers -> [code : {0, 200, 400, 402, 404}, blocked : BOOLEAN]]
  BY <1>1, <1>2, <1>3, Zenon DEF RequestsTypeOK
<1>5. pc'[c] = "done" /\ reply'[c] = [code |-> code, blocked |-> blocked]
  BY <1>1, <1>2 DEF RequestsTypeOK
<1>6. reply'[c].code = code /\ reply'[c].blocked = blocked
  BY <1>5
<1>7. PaidInv(c)'
  BY <1>1, <1>5 DEF PaidInv, Before, After, account, history
<1>8. ReplyInv(c)'
  BY <1>5, <1>6 DEF ReplyInv, history, Price
<1>9. BlockInv(c)'
  BY <1>1, <1>5, <1>6 DEF BlockInv, Running, history
<1>10. QED
  BY <1>1, <1>2, <1>4, <1>7, <1>8, <1>9, QuietStep DEF RequestsTypeOK

LEMMA CheckDatesIInv == ASSUME IInv, NEW c \in Callers, CheckDates(c) PROVE IInv'
<1>1. asked[c].route \in {"search", "dates"}
  BY DEF IInv, RequestsTypeOK, RequestSet
<1>2. spent \in 0..LiveLimit /\ live \in [Callers -> BOOLEAN]
  BY DEF IInv, RequestsTypeOK
<1>3. CASE Respond(c, 400, FALSE)
  <2>1. pc[c] = "dates" /\ UNCHANGED <<account, asked, spent, signal, live, history>>
    BY DEF CheckDates
  <2>2. paid[c].credits = 0
    BY <1>1, <2>1 DEF IInv, PaidInv, Before
  <2>3. PICK code \in {200, 400, 404}, blocked \in BOOLEAN : code = 400 /\ ~blocked
    OBVIOUS
  <2>4. Respond(c, code, blocked)
    BY <1>3, <2>3 DEF Respond
  <2>5. code # 200 /\ code # 404
    BY <2>3
  <2>6. QED
    BY <2>1, <2>2, <2>3, <2>4, <2>5, RespondIInv
<1>4. CASE Goto(c, IF asked[c].route = "search" THEN "charge" ELSE "names") /\ UNCHANGED reply
  <2>1. PICK to \in {"names", "charge"} :
          /\ pc' = [pc EXCEPT ![c] = to]
          /\ asked[c].route = "search" <=> to = "charge"
    BY <1>1, <1>4 DEF Goto
  <2>2. QED
    BY <1>1, <1>2, <1>4, <2>1, MoveIInv DEF CheckDates
<1>5. QED
  BY <1>3, <1>4 DEF CheckDates

LEMMA CheckNamesIInv == ASSUME IInv, NEW c \in Callers, CheckNames(c) PROVE IInv'
<1>1. spent \in 0..LiveLimit /\ live \in [Callers -> BOOLEAN]
  BY DEF IInv, RequestsTypeOK
<1>2. CASE Respond(c, 404, FALSE)
  <2>1. pc[c] = "names" /\ UNCHANGED <<account, asked, spent, signal, live, history>>
    BY DEF CheckNames
  <2>2. asked[c].route = "dates" => paid[c].credits = 0
    BY <2>1 DEF IInv, PaidInv, Before
  <2>3. PICK code \in {200, 400, 404}, blocked \in BOOLEAN : code = 404 /\ ~blocked
    OBVIOUS
  <2>4. Respond(c, code, blocked)
    BY <1>2, <2>3 DEF Respond
  <2>5. code # 200 /\ code # 400
    BY <2>3
  <2>6. QED
    BY <2>1, <2>2, <2>3, <2>4, <2>5, RespondIInv
<1>3. CASE Goto(c, "budget") /\ UNCHANGED reply
  BY <1>1, <1>3, MoveIInv DEF CheckNames, Goto
<1>4. QED
  BY <1>2, <1>3 DEF CheckNames

LEMMA AskBudgetIInv == ASSUME IInv, NEW c \in Callers, AskBudget(c) PROVE IInv'
<1>1. asked[c].route \in {"search", "dates"}
  BY DEF IInv, RequestsTypeOK, RequestSet
<1>2. spent' \in 0..LiveLimit
  <2>1. spent \in Nat /\ spent <= LiveLimit
    BY RequestsAssumption DEF IInv, RequestsTypeOK
  <2>2. spent' = spent \/ (spent < LiveLimit /\ spent' = spent + 1)
    BY DEF AskBudget
  <2>3. QED
    BY <2>1, <2>2, RequestsAssumption
<1>3. live' \in [Callers -> BOOLEAN]
  <2>1. live \in [Callers -> BOOLEAN]
    BY DEF IInv, RequestsTypeOK
  <2>2. live' = live \/ live' = [live EXCEPT ![c] = TRUE]
    BY DEF AskBudget
  <2>3. QED
    BY <2>1, <2>2
<1>4. QED
  BY <1>1, <1>2, <1>3, MoveIInv DEF AskBudget, AfterBudget, Goto

\* A step of the charge.
LEMMA BillStep ==
  ASSUME IInv, NEW c \in Callers,
         UNCHANGED <<asked, spent, signal, live, hit, blockSeen, cut>>,
         call' \in [Callers -> CallRecord], AccountTypeOK',
         pc' \in [Callers -> {"new", "reset", "dates", "names", "budget", "charge", "charging",
                             "price", "done"}],
         reply' \in [Callers -> [code : {0, 200, 400, 402, 404}, blocked : BOOLEAN]],
         \A d \in Callers \ {c} :
           pc'[d] = pc[d] /\ call'[d] = call[d] /\ paid'[d] = paid[d] /\ reply'[d] = reply[d],
         PaidInv(c)', ReplyInv(c)', BlockInv(c)'
  PROVE  IInv'
<1>1. RequestsTypeOK'
  BY DEF IInv, RequestsTypeOK
<1>2. ASSUME NEW d \in Callers \ {c} PROVE PaidInv(d)' /\ ReplyInv(d)' /\ BlockInv(d)'
  BY <1>2, OtherCaller
<1>3. QED
  BY <1>1, <1>2 DEF IInv

\* Whose turn it is to be charged, and where the handler goes next.
LEMMA AtCharge ==
  ASSUME IInv, NEW c \in Callers
  PROVE  /\ asked[c] \in RequestSet /\ asked[c].route \in {"search", "dates"}
         /\ asked[c].user \in Users \cup {Anonymous} /\ asked[c].cost \in Costs
         /\ asked[c].cost \in Nat
         /\ PaidInv(c) /\ ReplyInv(c) /\ BlockInv(c) /\ RequestsTypeOK /\ AccountTypeOK
<1>1. asked[c] \in RequestSet
  BY DEF IInv, RequestsTypeOK
<1>2. /\ asked[c].route \in {"search", "dates"} /\ asked[c].user \in Users \cup {Anonymous}
      /\ asked[c].cost \in Costs
  BY <1>1 DEF RequestSet
<1>3. asked[c].cost \in Nat
  BY <1>2, RequestsAssumption
<1>4. QED
  BY <1>1, <1>2, <1>3 DEF IInv

LEMMA ChargeIInv == ASSUME IInv, NEW c \in Callers, Charge(c) PROVE IInv'
<1>1. /\ pc[c] = "charge"
      /\ UNCHANGED <<asked, spent, signal, live, reply, history>>
  BY DEF Charge
<1>2. /\ PaidInv(c) /\ ReplyInv(c) /\ BlockInv(c) /\ RequestsTypeOK /\ AccountTypeOK
      /\ asked[c].route \in {"search", "dates"}
  BY AtCharge
<1>3. paid[c].credits = 0 /\ call[c].state = "idle"
  BY <1>1, <1>2 DEF PaidInv, Before
<1>4. CASE asked[c].user = Anonymous /\ AfterCharge(c) /\ UNCHANGED account
  <2>1. PICK to \in {"names", "price"} :
          /\ pc' = [pc EXCEPT ![c] = to]
          /\ to = "names" <=> asked[c].route = "search"
    BY <1>2, <1>4 DEF AfterCharge, Goto
  <2>2. pc'[c] = to
    BY <1>2, <2>1 DEF RequestsTypeOK
  <2>3. PaidInv(c)'
    BY <1>1, <1>3, <1>4, <2>2 DEF PaidInv, Price, account, history
  <2>4. ReplyInv(c)' /\ BlockInv(c)'
    BY <1>1, <1>2, <2>1, <2>2 DEF ReplyInv, BlockInv, Running, Price, history
  <2>5. QED
    BY <1>1, <1>2, <1>4, <2>1, <2>3, <2>4, QuietStep DEF RequestsTypeOK, history
<1>5. CASE /\ asked[c].user # Anonymous
           /\ call' = [call EXCEPT ![c] = [user |-> asked[c].user, cost |-> asked[c].cost,
                                           on |-> day, state |-> "pending"]]
           /\ Goto(c, "charging")
           /\ UNCHANGED <<day, used>>
  <2>1. PICK r \in CallRecord : r = [user |-> asked[c].user, cost |-> asked[c].cost,
                                     on |-> day, state |-> "pending"]
    BY <1>2, <1>5, AtCharge DEF CallRecord, AccountTypeOK
  <2>2. call' = [call EXCEPT ![c] = r] /\ pc' = [pc EXCEPT ![c] = "charging"]
    BY <1>5, <2>1 DEF Goto
  <2>3. call'[c] = r /\ pc'[c] = "charging" /\ call' \in [Callers -> CallRecord]
    BY <1>2, <2>2 DEF RequestsTypeOK
  <2>4. r.user = asked[c].user /\ r.cost = asked[c].cost /\ r.state = "pending"
    BY <2>1
  <2>5. PaidInv(c)'
    BY <1>1, <1>3, <1>5, <2>3, <2>4 DEF PaidInv, Before, After, history
  <2>6. ReplyInv(c)' /\ BlockInv(c)'
    BY <1>1, <1>2, <2>3 DEF ReplyInv, BlockInv, Running, Price, history
  <2>7. AccountTypeOK'
    BY <1>1, <1>2, <1>5 DEF AccountTypeOK, history
  <2>8. QED
    BY <1>1, <1>2, <2>2, <2>3, <2>5, <2>6, <2>7, BillStep DEF RequestsTypeOK, history
<1>6. QED
  BY <1>4, <1>5 DEF Charge

\* The account's two decisions.
LEMMA SpendIInv == ASSUME IInv, NEW c \in Callers, Spend(c) PROVE IInv'
<1>1. /\ UNCHANGED <<asked, pc, spent, signal, live, reply, hit, blockSeen, cut>>
      /\ call[c].state = "pending" /\ UNCHANGED day
  BY DEF Spend, Grant, Refuse
<1>2. /\ PaidInv(c) /\ ReplyInv(c) /\ BlockInv(c) /\ RequestsTypeOK /\ AccountTypeOK
      /\ asked[c].cost \in Nat
  BY AtCharge
<1>3. /\ pc[c] = "charging" /\ call[c] \in CallRecord
      /\ call[c].cost = asked[c].cost /\ paid[c].credits = 0
  BY <1>1, <1>2 DEF PaidInv, RequestsTypeOK
<1>4. call[c].user \in Users /\ call[c].on \in CalendarDays
  BY <1>3 DEF CallRecord
<1>5. PICK state \in {"granted", "refused"} :
        /\ call' = [call EXCEPT ![c].state = state]
        /\ state = "granted" => Grant(c) /\ paid' = [paid EXCEPT ![c] =
             [credits |-> call[c].cost, on |-> call[c].on]]
        /\ state = "refused" => Refuse(c) /\ UNCHANGED paid
  BY DEF Spend, Grant, Refuse
<1>6. /\ call' \in [Callers -> CallRecord]
      /\ call'[c].user = call[c].user /\ call'[c].cost = call[c].cost /\ call'[c].state = state
  BY <1>2, <1>3, <1>5 DEF RequestsTypeOK, CallRecord
<1>7. paid' \in [Callers -> [credits : Nat, on : CalendarDays]]
      /\ paid'[c].credits = IF state = "granted" THEN asked[c].cost ELSE 0
  <2>1. [credits |-> call[c].cost, on |-> call[c].on] \in [credits : Nat, on : CalendarDays]
    BY <1>2, <1>3, <1>4
  <2>2. CASE state = "granted"
    BY <1>2, <1>3, <1>5, <2>1, <2>2 DEF AccountTypeOK
  <2>3. CASE state = "refused"
    BY <1>2, <1>3, <1>5, <2>3 DEF AccountTypeOK
  <2>4. QED
    BY <2>2, <2>3
<1>8. used' \in [Users \X CalendarDays -> Nat]
  <2>1. CASE state = "granted"
    <3>1. PICK k \in Users \X CalendarDays : used' = [used EXCEPT ![k] = @ + call[c].cost]
      BY <1>4, <1>5, <2>1 DEF Grant
    <3>2. used[k] + call[c].cost \in Nat
      BY <1>2, <1>3 DEF AccountTypeOK
    <3>3. QED
      BY <1>2, <3>1, <3>2 DEF AccountTypeOK
  <2>2. CASE state = "refused"
    BY <1>2, <1>5, <2>2 DEF Refuse, AccountTypeOK
  <2>3. QED
    BY <2>1, <2>2
<1>9. AccountTypeOK'
  BY <1>1, <1>2, <1>7, <1>8 DEF AccountTypeOK
<1>10. PaidInv(c)'
  BY <1>1, <1>2, <1>3, <1>5, <1>6, <1>7 DEF PaidInv, Before, After
<1>11. ReplyInv(c)' /\ BlockInv(c)'
  BY <1>1, <1>2, <1>3 DEF ReplyInv, BlockInv, Running
<1>12. \A d \in Callers \ {c} : call'[d] = call[d] /\ paid'[d] = paid[d]
  BY <1>2, <1>5 DEF RequestsTypeOK, AccountTypeOK
<1>13. QED
  BY <1>1, <1>2, <1>6, <1>9, <1>10, <1>11, <1>12, BillStep DEF RequestsTypeOK

LEMMA ChargedIInv == ASSUME IInv, NEW c \in Callers, Charged(c) PROVE IInv'
<1>1. /\ pc[c] = "charging" /\ call[c].state \in {"granted", "refused"}
      /\ call' = [call EXCEPT ![c].state = "idle"]
      /\ UNCHANGED <<day, used, asked, spent, signal, live, history>>
  BY DEF Charged, Answer
<1>2. /\ PaidInv(c) /\ ReplyInv(c) /\ BlockInv(c) /\ RequestsTypeOK /\ AccountTypeOK
      /\ asked[c].route \in {"search", "dates"}
  BY AtCharge
<1>3. /\ call' \in [Callers -> CallRecord] /\ call'[c].state = "idle"
      /\ \A d \in Callers \ {c} : call'[d] = call[d]
  BY <1>1, <1>2 DEF RequestsTypeOK, CallRecord
<1>4. /\ asked[c].user # Anonymous
      /\ paid[c].credits = IF call[c].state = "granted" THEN asked[c].cost ELSE 0
  BY <1>1, <1>2 DEF PaidInv
<1>5. AccountTypeOK'
  BY <1>1, <1>2 DEF AccountTypeOK, history
<1>6. CASE call[c].state = "refused" /\ Respond(c, 402, FALSE)
  <2>1. PICK r \in [code : {0, 200, 400, 402, 404}, blocked : BOOLEAN] :
          r.code = 402 /\ ~r.blocked /\ r = [code |-> 402, blocked |-> FALSE]
    OBVIOUS
  <2>2. pc' = [pc EXCEPT ![c] = "done"] /\ reply' = [reply EXCEPT ![c] = r]
    BY <1>6, <2>1 DEF Respond, Goto
  <2>3. pc'[c] = "done" /\ reply'[c] = r
    BY <1>2, <2>2 DEF RequestsTypeOK
  <2>4. PaidInv(c)'
    BY <1>3, <2>3 DEF PaidInv, Before, After
  <2>5. ReplyInv(c)' /\ BlockInv(c)'
    BY <1>1, <1>2, <1>4, <1>6, <2>1, <2>3 DEF ReplyInv, BlockInv, Running, history
  <2>6. /\ pc' \in [Callers -> {"new", "reset", "dates", "names", "budget", "charge", "charging",
                                "price", "done"}]
        /\ reply' \in [Callers -> [code : {0, 200, 400, 402, 404}, blocked : BOOLEAN]]
        /\ \A d \in Callers \ {c} : pc'[d] = pc[d] /\ reply'[d] = reply[d]
    BY <1>2, <2>2 DEF RequestsTypeOK
  <2>7. UNCHANGED <<asked, spent, signal, live, hit, blockSeen, cut, paid>>
    BY <1>1 DEF history
  <2>8. QED
    BY <1>3, <1>5, <2>4, <2>5, <2>6, <2>7, BillStep
<1>7. CASE call[c].state = "granted" /\ AfterCharge(c) /\ UNCHANGED reply
  <2>1. PICK to \in {"names", "price"} :
          /\ pc' = [pc EXCEPT ![c] = to]
          /\ to = "names" <=> asked[c].route = "search"
    BY <1>2, <1>7 DEF AfterCharge, Goto
  <2>2. pc'[c] = to
    BY <1>2, <2>1 DEF RequestsTypeOK
  <2>3. PaidInv(c)'
    BY <1>1, <1>3, <1>4, <1>7, <2>1, <2>2 DEF PaidInv, Price, Before, history
  <2>4. ReplyInv(c)' /\ BlockInv(c)'
    BY <1>1, <1>2, <1>7, <2>1, <2>2 DEF ReplyInv, BlockInv, Running, Price, history
  <2>5. QED
    BY <1>1, <1>2, <1>3, <1>5, <1>7, <2>1, <2>3, <2>4, BillStep DEF RequestsTypeOK, history
<1>8. QED
  BY <1>1, <1>6, <1>7 DEF Charged

\* The list is filled, and everybody who is running has seen it.
LEMMA LookupBlockedIInv == ASSUME IInv, NEW c \in Callers, LookupBlocked(c) PROVE IInv'
<1>1. /\ pc[c] = "price" /\ hit' = [hit EXCEPT ![c] = @ + 1]
      /\ signal' = TRUE /\ blockSeen' = blockSeen \cup Running
      /\ UNCHANGED <<account, asked, pc, spent, live, reply, paid, cut>>
  BY DEF LookupBlocked
<1>2. /\ PaidInv(c) /\ ReplyInv(c) /\ BlockInv(c) /\ RequestsTypeOK /\ AccountTypeOK
  BY AtCharge
<1>3. RequestsTypeOK' /\ AccountTypeOK'
  BY <1>1, <1>2 DEF RequestsTypeOK, AccountTypeOK, account
<1>4. PaidInv(c)' /\ ReplyInv(c)'
  BY <1>1, <1>2 DEF PaidInv, ReplyInv, Price, Before, After, account
<1>5. c \in Running /\ hit'[c] \in Nat
  <2>1. hit'[c] = hit[c] + 1 \/ hit'[c] = hit[c]
    BY <1>1
  <2>2. QED
    BY <1>1, <1>2, <2>1 DEF Running, BlockInv
<1>6. BlockInv(c)'
  BY <1>1, <1>2, <1>5 DEF BlockInv, ReplyInv
<1>7. ASSUME NEW d \in Callers \ {c} PROVE PaidInv(d)' /\ ReplyInv(d)' /\ BlockInv(d)'
  <2>1. hit'[d] = hit[d]
    BY <1>1, <1>7
  <2>2. QED
    BY <1>1, <1>7, <2>1, OtherCaller DEF account
<1>8. QED
  BY <1>3, <1>4, <1>6, <1>7 DEF IInv

LEMMA RespondResultsIInv == ASSUME IInv, NEW c \in Callers, RespondResults(c) PROVE IInv'
<1>1. /\ pc[c] = "price" /\ Respond(c, 200, signal)
      /\ UNCHANGED <<account, asked, spent, signal, live, history>>
  BY DEF RespondResults
<1>2. /\ PaidInv(c) /\ BlockInv(c) /\ signal \in BOOLEAN
      /\ asked[c].route \in {"search", "dates"}
  BY AtCharge DEF RequestsTypeOK
<1>3. PICK code \in {200, 400, 404} : code = 200 /\ code # 400 /\ code # 404
  OBVIOUS
<1>4. Respond(c, code, signal)
  BY <1>1, <1>3
<1>5. paid[c].credits = Price(asked[c])
  BY <1>1, <1>2 DEF PaidInv, After
<1>6. signal => c \in blockSeen
  BY <1>1, <1>2 DEF BlockInv, Running
<1>7. hit[c] > 0 /\ c \notin cut => signal
  BY <1>1, <1>2 DEF BlockInv
<1>8. QED
  BY <1>1, <1>2, <1>3, <1>4, <1>5, <1>6, <1>7, RespondIInv

\* Nobody's step: the budget's window slides, or midnight passes.
LEMMA QuietWorld ==
  ASSUME IInv, UNCHANGED <<used, call, asked, pc, signal, live, reply, history>>,
         spent' \in 0..LiveLimit, day' \in CalendarDays
  PROVE  IInv'
<1>1. RequestsTypeOK' /\ AccountTypeOK'
  BY DEF IInv, RequestsTypeOK, AccountTypeOK, history
<1>2. ASSUME NEW d \in Callers PROVE PaidInv(d)' /\ ReplyInv(d)' /\ BlockInv(d)'
  BY OtherCaller DEF history
<1>3. QED
  BY <1>1, <1>2 DEF IInv

LEMMA BudgetReturnsIInv == ASSUME IInv, BudgetReturns PROVE IInv'
<1>1. spent' \in 0..LiveLimit
  <2>1. spent \in Nat /\ spent <= LiveLimit
    BY RequestsAssumption DEF IInv, RequestsTypeOK
  <2>2. spent > 0 /\ spent' = spent - 1
    BY DEF BudgetReturns
  <2>3. QED
    BY <2>1, <2>2, RequestsAssumption
<1>2. day \in CalendarDays
  BY DEF IInv, AccountTypeOK
<1>3. QED
  BY <1>1, <1>2, QuietWorld DEF BudgetReturns, account

LEMMA MidnightIInv == ASSUME IInv, Midnight PROVE IInv'
<1>1. day' \in CalendarDays
  BY RequestsAssumption DEF IInv, AccountTypeOK, CalendarDays, Midnight, NextDay
<1>2. spent \in 0..LiveLimit
  BY DEF IInv, RequestsTypeOK
<1>3. QED
  BY <1>1, <1>2, QuietWorld DEF Midnight, NextDay

LEMMA NextIInv == ASSUME IInv, [RequestsNext]_all PROVE IInv'
<1>1. ASSUME NEW c \in Callers,
             Arrive(c) \/ Reset(c) \/ CheckDates(c) \/ CheckNames(c) \/ AskBudget(c)
      PROVE  IInv'
  BY <1>1, ArriveIInv, ResetIInv, CheckDatesIInv, CheckNamesIInv, AskBudgetIInv
<1>2. ASSUME NEW c \in Callers,
             Charge(c) \/ Spend(c) \/ Charged(c) \/ LookupBlocked(c) \/ RespondResults(c)
      PROVE  IInv'
  BY <1>2, ChargeIInv, SpendIInv, ChargedIInv, LookupBlockedIInv, RespondResultsIInv
<1>3. CASE UNCHANGED all
  <2>1. spent \in 0..LiveLimit /\ day \in CalendarDays
    BY DEF IInv, RequestsTypeOK, AccountTypeOK
  <2>2. QED
    BY <1>3, <2>1, QuietWorld DEF all, account
<1>4. QED
  BY <1>1, <1>2, <1>3, BudgetReturnsIInv, MidnightIInv DEF RequestsNext

LEMMA Invariance == RequestsSpec => []IInv
<1>1. IInv /\ [RequestsNext]_all => IInv'
  BY NextIInv
<1>2. QED
  BY InitIInv, <1>1, PTL DEF RequestsSpec

-----------------------------------------------------------------------------

\* The handlers' variables keep their types (search_trips, search_trip_dates).
THEOREM TypeCorrect == RequestsSpec => []RequestsTypeOK
<1>1. IInv => RequestsTypeOK
  BY DEF IInv
<1>2. QED
  BY <1>1, Invariance, PTL

\* Whoever is served has paid the whole price once, and whoever is refused
\* nothing, on both routes and whatever the other requests do
\* (_charge_credits).
THEOREM ServiceIsBilled == RequestsSpec => []BilledAsServed
<1>1. IInv => BilledAsServed
  <2> SUFFICES ASSUME IInv, NEW c \in Callers
               PROVE  LET q == asked[c]
                          price == IF q.user = Anonymous THEN 0 ELSE q.cost
                      IN  /\ reply[c].code = 200 => paid[c].credits = price
                          /\ reply[c].code \in {400, 402} => paid[c].credits = 0
                          /\ q.route = "dates" /\ reply[c].code = 404 => paid[c].credits = 0
    BY DEF BilledAsServed
  <2>1. ReplyInv(c)
    BY DEF IInv
  <2>2. QED
    BY <2>1 DEF ReplyInv, Price
<1>2. QED
  BY <1>1, Invariance, PTL

\* The response of a search says of blocked lookups what its own search met,
\* unless another search cleared the list, and nothing that happened before
\* it ran (provider_status.py).
THEOREM BlockReports == RequestsSpec => []BlockReportsAreHonest
<1>1. IInv => BlockReportsAreHonest
  BY DEF IInv, BlockInv, BlockReportsAreHonest, UncutBlockReported, ReportedBlockHappened
<1>2. QED
  BY <1>1, Invariance, PTL

-----------------------------------------------------------------------------
\* Sums of credits.  MapThenSumSet is a recursive function on the subsets of a
\* finite set; what follows needs only that such a function exists, that it is
\* unique, and that any element can be the first one taken out.

\* Of a set of numbers there is a least one: the induction used below.
LEMMA LeastNumber ==
  ASSUME NEW T, T \subseteq Nat, T # {}
  PROVE  \E n \in T : \A m \in T : n <= m
<1>1. PICK n \in T : \A m \in T : ~(<<m, n>> \in OpToRel(<, Nat))
  <2> HIDE DEF OpToRel
  <2>1. QED
    BY NatLessThanWellFounded, WFMin
<1>2. \A m \in T : ~(m < n)
  BY <1>1 DEF OpToRel
<1>3. QED
  BY <1>2

\* The table of the sums over the subsets of S, as MapThenSumSet builds it.
SumTable(p, S, g) ==
  g = [s \in SUBSET S |->
         IF s = {} THEN 0
         ELSE LET c == CHOOSE c \in s : TRUE IN p[c].credits + g[s \ {c}]]

CreditsOf(p, S) == MapThenSumSet(LAMBDA c : p[c].credits, S)

\* The rows of the table for the sets of fewer than n elements.
LEMMA TableExists ==
  ASSUME NEW p, NEW S, IsFiniteSet(S)
  PROVE  \E g : SumTable(p, S, g)
<1> DEFINE Small(n) == {s \in SUBSET S : Cardinality(s) < n}
           Sum(g, s) == IF s = {} THEN 0
                        ELSE LET c == CHOOSE c \in s : TRUE IN p[c].credits + g[s \ {c}]
           Rows(n, g) == g = [s \in Small(n) |-> Sum(g, s)]
           Bad == {n \in Nat : ~\E g : Rows(n, g)}
<1>1. \A s \in SUBSET S : IsFiniteSet(s) /\ Cardinality(s) \in Nat /\ Cardinality(s) <= Cardinality(S)
  BY FS_Subset, FS_CardinalityType
<1>2. Bad = {}
  <2> SUFFICES ASSUME Bad # {} PROVE FALSE
    OBVIOUS
  <2>1. PICK n \in Bad : \A m \in Bad : n <= m
    <3>1. Bad \subseteq Nat
      OBVIOUS
    <3> HIDE DEF Bad
    <3>2. QED
      BY <3>1, LeastNumber
  <2>2. n # 0
    <3>1. Small(0) = {}
      BY <1>1
    <3>2. Rows(0, [s \in {} |-> 0])
      BY <3>1
    <3>3. 0 \notin Bad
      <4> HIDE DEF Rows
      <4>1. QED
        BY <3>2
    <3>4. QED
      BY <2>1, <3>3
  <2>3. n \in Nat /\ n - 1 \in Nat /\ n - 1 \notin Bad
    <3>1. n \in Nat
      BY <2>1
    <3> HIDE DEF Bad
    <3>2. QED
      BY <2>1, <2>2, <3>1
  <2>4. PICK g : Rows(n - 1, g)
    BY <2>3
  <2> DEFINE h == [s \in Small(n) |-> Sum(g, s)]
  <2>5. ASSUME NEW s \in Small(n) PROVE Sum(h, s) = Sum(g, s)
    <3>1. CASE s = {}
      BY <3>1
    <3>2. CASE s # {}
      <4> DEFINE c == CHOOSE c \in s : TRUE
                 t == s \ {c}
      <4>1. c \in s
        BY <3>2
      <4>2. t \in Small(n - 1) /\ t \in Small(n)
        <5>1. IsFiniteSet(s) /\ Cardinality(s) \in Nat
          BY <1>1
        <5>2. Cardinality(t) = Cardinality(s) - 1
          BY <4>1, <5>1, FS_RemoveElement
        <5>3. QED
          BY <2>3, <5>1, <5>2
      <4>3. h[t] = Sum(g, t)
        BY <4>2
      <4>4. g[t] = Sum(g, t)
        <5> HIDE DEF Sum, Small
        <5>1. QED
          BY <2>4, <4>2
      <4>5. QED
        BY <3>2, <4>3, <4>4
    <3>3. QED
      BY <3>1, <3>2
  <2>6. Rows(n, h)
    <3> HIDE DEF Sum
    <3>1. QED
      BY <2>5
  <2>7. n \notin Bad
    <3> HIDE DEF h, Rows
    <3>1. QED
      BY <2>6
  <2>8. QED
    BY <2>1, <2>7
<1>3. Small(Cardinality(S) + 1) = SUBSET S
  BY <1>1
<1>4. Cardinality(S) + 1 \in Nat
  BY <1>1
<1>5. PICK g : Rows(Cardinality(S) + 1, g)
  BY <1>2, <1>4
<1>6. SumTable(p, S, g)
  BY <1>3, <1>5 DEF SumTable
<1>7. QED
  BY <1>6

\* A sum is an entry of such a table.
LEMMA SumIsEntry ==
  ASSUME NEW p, NEW S, IsFiniteSet(S)
  PROVE  \E g : SumTable(p, S, g) /\ CreditsOf(p, S) = g[S]
<1>1. SumTable(p, S, CHOOSE g : SumTable(p, S, g))
  BY TableExists
<1>2. CreditsOf(p, S) = (CHOOSE g : SumTable(p, S, g))[S]
  BY DEF CreditsOf, MapThenSumSet, MapThenFoldSet, SumTable
<1>3. QED
  BY <1>1, <1>2

\* What a table says of one subset.
LEMMA Entry ==
  ASSUME NEW p, NEW S, NEW g, SumTable(p, S, g), NEW s \in SUBSET S
  PROVE  /\ s = {} => g[s] = 0
         /\ s # {} => \E c \in s : g[s] = p[c].credits + g[s \ {c}]
<1>1. g[s] = IF s = {} THEN 0
             ELSE LET c == CHOOSE c \in s : TRUE IN p[c].credits + g[s \ {c}]
  BY DEF SumTable
<1>2. s # {} => (CHOOSE c \in s : TRUE) \in s
  OBVIOUS
<1>3. QED
  BY <1>1, <1>2

\* Any element can be the first one taken out of any subset, and the entries
\* are numbers.
LEMMA TakeOut ==
  ASSUME NEW p, NEW S, IsFiniteSet(S), NEW g, SumTable(p, S, g),
         \A c \in S : p[c].credits \in Nat
  PROVE  \A s \in SUBSET S : /\ g[s] \in Nat
                             /\ \A c \in s : g[s] = p[c].credits + g[s \ {c}]
<1> DEFINE Good(s) == g[s] \in Nat /\ \A c \in s : g[s] = p[c].credits + g[s \ {c}]
           Bad == {s \in SUBSET S : ~Good(s)}
           Sizes == {Cardinality(s) : s \in Bad}
<1>1. \A s \in SUBSET S : IsFiniteSet(s) /\ Cardinality(s) \in Nat
  BY FS_Subset, FS_CardinalityType
<1> SUFFICES ASSUME Bad # {} PROVE FALSE
  OBVIOUS
<1>2. PICK s \in Bad : \A t \in Bad : Cardinality(s) <= Cardinality(t)
  <2>1. Sizes \subseteq Nat /\ Sizes # {}
    BY <1>1
  <2>2. PICK n \in Sizes : \A m \in Sizes : n <= m
    <3> HIDE DEF Sizes
    <3>1. QED
      BY <2>1, LeastNumber
  <2>3. QED
    BY <2>2
<1>3. ASSUME NEW t \in SUBSET s, t # s PROVE Good(t)
  <2>1. s \in SUBSET S /\ t \in SUBSET S
    BY <1>2
  <2>2. Cardinality(t) < Cardinality(s)
    BY <1>1, <1>3, <2>1, FS_Subset
  <2>3. t \notin Bad
    <3> HIDE DEF Bad
    <3>1. QED
      BY <1>1, <1>2, <2>1, <2>2
  <2>4. QED
    BY <2>1, <2>3
<1>4. CASE s = {}
  BY <1>2, <1>4, Entry
<1>5. CASE s # {}
  <2>1. PICK x \in s : g[s] = p[x].credits + g[s \ {x}]
    BY <1>5, Entry
  <2>2. /\ \A c \in s : p[c].credits \in Nat /\ Good(s \ {c})
        /\ \A c, d \in s : g[(s \ {c}) \ {d}] \in Nat
    <3>1. \A c \in s : c \in S
      BY <1>2
    <3>2. \A c \in s : s \ {c} # s /\ s \ {c} \in SUBSET s
      OBVIOUS
    <3>3. \A c, d \in s : (s \ {c}) \ {d} # s /\ (s \ {c}) \ {d} \in SUBSET s
      OBVIOUS
    <3> HIDE DEF Good
    <3>4. \A c, d \in s : Good((s \ {c}) \ {d})
      BY <1>3, <3>3
    <3>5. \A c \in s : Good(s \ {c})
      BY <1>3, <3>2
    <3>6. QED
      BY <3>1, <3>4, <3>5 DEF Good
  <2>a. p[x].credits \in Nat /\ g[s \ {x}] \in Nat
    BY <2>2
  <2>3. ASSUME NEW c \in s PROVE g[s] = p[c].credits + g[s \ {c}]
    <3>1. CASE c = x
      BY <2>1, <3>1
    <3>2. CASE c # x
      <4>1. g[s \ {x}] = p[c].credits + g[(s \ {x}) \ {c}]
        BY <2>2, <3>2
      <4>2. g[s \ {c}] = p[x].credits + g[(s \ {c}) \ {x}]
        BY <2>2, <3>2
      <4>3. (s \ {x}) \ {c} = (s \ {c}) \ {x}
        OBVIOUS
      <4>4. p[c].credits \in Nat /\ g[(s \ {x}) \ {c}] \in Nat
        BY <2>2
      <4>5. g[s \ {c}] = p[x].credits + g[(s \ {x}) \ {c}]
        BY <4>2, <4>3
      <4>6. g[s] = p[x].credits + (p[c].credits + g[(s \ {x}) \ {c}])
        BY <2>1, <4>1
      <4> DEFINE rest == g[(s \ {x}) \ {c}]
      <4> HIDE DEF rest
      <4>7. QED
        BY <2>a, <4>4, <4>5, <4>6 DEF rest
    <3>3. QED
      BY <3>1, <3>2
  <2>4. g[s] \in Nat
    BY <2>1, <2>a
  <2>5. QED
    BY <1>2, <2>3, <2>4
<1>6. QED
  BY <1>4, <1>5

\* Two bills that agree on S make the same sum over S, whichever table the
\* sums are read from.
LEMMA TablesAgree ==
  ASSUME NEW p, NEW q, NEW S, NEW T, NEW g, NEW h, NEW U,
         SumTable(p, S, g), SumTable(q, T, h), IsFiniteSet(S),
         U \subseteq S, U \subseteq T, \A c \in U : p[c].credits = q[c].credits
  PROVE  g[U] = h[U]
<1> DEFINE Bad == {s \in SUBSET U : g[s] # h[s]}
           Sizes == {Cardinality(s) : s \in Bad}
<1> SUFFICES ASSUME Bad # {} PROVE FALSE
  OBVIOUS
<1>1. \A s \in SUBSET U : s \in SUBSET S /\ s \in SUBSET T
                          /\ IsFiniteSet(s) /\ Cardinality(s) \in Nat
  BY FS_Subset, FS_CardinalityType
<1>2. PICK s \in Bad : \A t \in Bad : Cardinality(s) <= Cardinality(t)
  <2>1. Sizes \subseteq Nat /\ Sizes # {}
    BY <1>1
  <2>2. PICK n \in Sizes : \A m \in Sizes : n <= m
    <3> HIDE DEF Sizes
    <3>1. QED
      BY <2>1, LeastNumber
  <2>3. QED
    BY <2>2
<1> DEFINE c == CHOOSE c \in s : TRUE
<1>3. s \in SUBSET U /\ s \in SUBSET S /\ s \in SUBSET T /\ g[s] # h[s]
  BY <1>1, <1>2
<1>4. /\ g[s] = IF s = {} THEN 0 ELSE p[c].credits + g[s \ {c}]
      /\ h[s] = IF s = {} THEN 0 ELSE q[c].credits + h[s \ {c}]
  BY <1>3 DEF SumTable
<1>5. c \in s
  BY <1>3, <1>4
<1> HIDE DEF c
<1>6. Cardinality(s \ {c}) = Cardinality(s) - 1 /\ Cardinality(s) \in Nat
  BY <1>1, <1>3, <1>5, FS_RemoveElement
<1>7. s \ {c} \in SUBSET U /\ s \ {c} \notin Bad
  <2>1. s \ {c} \in SUBSET U
    BY <1>3
  <2> HIDE DEF Bad
  <2>2. QED
    BY <1>2, <1>6, <2>1
<1>8. g[s \ {c}] = h[s \ {c}] /\ p[c].credits = q[c].credits
  BY <1>3, <1>5, <1>7
<1>9. QED
  BY <1>3, <1>4, <1>8

\* Two tables of requests, or two sets of them, that differ in request x only.
DifferIn(x, p, q, S, T) ==
  /\ IsFiniteSet(S) /\ IsFiniteSet(T)
  /\ S \ {x} = T \ {x}
  /\ \A c \in S : p[c].credits \in Nat
  /\ \A c \in T : q[c].credits \in Nat
  /\ \A c \in S \ {x} : p[c].credits = q[c].credits

\* What the sums have in common is the sum over the other requests.
LEMMA OneBillChanges ==
  ASSUME NEW p, NEW q, NEW S, NEW T, NEW x, DifferIn(x, p, q, S, T)
  PROVE  \E rest \in Nat :
           /\ CreditsOf(p, S) = rest + (IF x \in S THEN p[x].credits ELSE 0)
           /\ CreditsOf(q, T) = rest + (IF x \in T THEN q[x].credits ELSE 0)
<1>0. /\ IsFiniteSet(S) /\ \A c \in S : p[c].credits \in Nat
      /\ IsFiniteSet(T) /\ \A c \in T : q[c].credits \in Nat
  BY DEF DifferIn
<1>1. PICK g : SumTable(p, S, g) /\ CreditsOf(p, S) = g[S]
  BY <1>0, SumIsEntry
<1>2. PICK h : SumTable(q, T, h) /\ CreditsOf(q, T) = h[T]
  BY <1>0, SumIsEntry
<1>3. g[S \ {x}] = h[T \ {x}]
  <2>1. PICK U : U = S \ {x} /\ U = T \ {x}
    BY DEF DifferIn
  <2>2. U \subseteq S /\ U \subseteq T /\ \A c \in U : p[c].credits = q[c].credits
    BY <2>1 DEF DifferIn
  <2>3. SumTable(p, S, g) /\ SumTable(q, T, h) /\ IsFiniteSet(S)
    BY <1>0, <1>1, <1>2
  <2>4. g[U] = h[U]
    BY <2>2, <2>3, TablesAgree
  <2>5. QED
    BY <2>1, <2>4
<1>4. g[S \ {x}] \in Nat /\ (x \in S => g[S] = p[x].credits + g[S \ {x}])
  <2>1. \A s \in SUBSET S : g[s] \in Nat /\ \A d \in s : g[s] = p[d].credits + g[s \ {d}]
    BY <1>0, <1>1, TakeOut
  <2>2. S \ {x} \in SUBSET S /\ S \in SUBSET S
    OBVIOUS
  <2>3. QED
    BY <2>1, <2>2
<1>5. h[T \ {x}] \in Nat /\ (x \in T => h[T] = q[x].credits + h[T \ {x}])
  <2>1. \A s \in SUBSET T : h[s] \in Nat /\ \A d \in s : h[s] = q[d].credits + h[s \ {d}]
    BY <1>0, <1>2, TakeOut
  <2>2. T \ {x} \in SUBSET T /\ T \in SUBSET T
    OBVIOUS
  <2>3. QED
    BY <2>1, <2>2
<1>6. CreditsOf(p, S) = g[S \ {x}] + (IF x \in S THEN p[x].credits ELSE 0)
  <2>1. CASE x \in S
    BY <1>0, <1>1, <1>4, <2>1
  <2>2. CASE x \notin S
    <3>1. S \ {x} = S
      BY <2>2
    <3>2. g[S] = g[S \ {x}]
      BY <3>1
    <3>3. QED
      BY <1>0, <1>1, <1>4, <2>2, <3>2
  <2>3. QED
    BY <2>1, <2>2
<1>7. CreditsOf(q, T) = h[T \ {x}] + (IF x \in T THEN q[x].credits ELSE 0)
  <2>1. CASE x \in T
    BY <1>0, <1>2, <1>5, <2>1
  <2>2. CASE x \notin T
    <3>1. T \ {x} = T
      BY <2>2
    <3>2. h[T] = h[T \ {x}]
      BY <3>1
    <3>3. QED
      BY <1>0, <1>2, <1>5, <2>2, <3>2
  <2>3. QED
    BY <2>1, <2>2
<1>8. QED
  BY <1>3, <1>4, <1>6, <1>7

\* Nobody has paid anything: every sum is zero.
LEMMA NoBills ==
  ASSUME NEW p, NEW S, IsFiniteSet(S), \A c \in S : p[c].credits = 0
  PROVE  CreditsOf(p, S) = 0
<1>1. PICK g : SumTable(p, S, g) /\ CreditsOf(p, S) = g[S]
  BY SumIsEntry
<1> DEFINE z == [s \in SUBSET S |-> 0]
           free == [c \in S |-> [credits |-> 0]]
<1>2. SumTable(free, S, z)
  <2>1. ASSUME NEW s \in SUBSET S, NEW c \in s
        PROVE  free[c].credits + z[s \ {c}] = 0
    <3>1. c \in S /\ s \ {c} \in SUBSET S
      OBVIOUS
    <3>2. free[c].credits = 0 /\ z[s \ {c}] = 0
      BY <3>1
    <3>3. QED
      BY <3>2
  <2>2. QED
    BY <2>1 DEF SumTable
<1>3. g[S] = z[S]
  <2>1. \A c \in S : p[c].credits = free[c].credits
    OBVIOUS
  <2> HIDE DEF z, free
  <2>2. QED
    BY <1>1, <1>2, <2>1, TablesAgree
<1>4. QED
  BY <1>1, <1>3

\* The requests whose bills are a user's charges of one day.
BilledTo(u, d) == {c \in Callers : asked[c].user = u /\ paid[c].on = d}

\* CreditsAccountedFor, in the terms of the lemmas above.
Balanced ==
  \A u \in Users, d \in CalendarDays : used[<<u, d>>] = CreditsOf(paid, BilledTo(u, d))

\* A step that moves one request, whose bill was zero before it, and adds that
\* bill to the account it is charged to.
LEMMA OneRequestBilled ==
  ASSUME IInv, IInv', Balanced, NEW c \in Callers, paid[c].credits = 0,
         \A d \in Callers \ {c} : asked'[d] = asked[d] /\ paid'[d] = paid[d],
         \A u \in Users, d \in CalendarDays :
           used'[<<u, d>>] = used[<<u, d>>]
                               + (IF c \in BilledTo(u, d)' THEN paid'[c].credits ELSE 0)
  PROVE  Balanced'
<1> SUFFICES ASSUME NEW u \in Users, NEW d \in CalendarDays
             PROVE  used'[<<u, d>>] = CreditsOf(paid', BilledTo(u, d)')
  BY DEF Balanced
<1>1. used[<<u, d>>] = CreditsOf(paid, BilledTo(u, d))
  BY DEF Balanced
<1>2. /\ \A b \in Callers : paid[b].credits \in Nat
      /\ \A b \in Callers : paid'[b].credits \in Nat
  BY DEF IInv, AccountTypeOK
<1>3. /\ BilledTo(u, d) \ {c} = BilledTo(u, d)' \ {c}
      /\ \A b \in BilledTo(u, d) \ {c} : paid[b].credits = paid'[b].credits
      /\ BilledTo(u, d) \subseteq Callers /\ BilledTo(u, d)' \subseteq Callers
  BY DEF BilledTo
<1>4. IsFiniteSet(BilledTo(u, d)) /\ IsFiniteSet(BilledTo(u, d)')
  BY <1>3, RequestsAssumption, FS_Subset
<1>5. DifferIn(c, paid, paid', BilledTo(u, d), BilledTo(u, d)')
  BY <1>2, <1>3, <1>4 DEF DifferIn
<1>6. PICK rest \in Nat :
        /\ CreditsOf(paid, BilledTo(u, d)) =
              rest + (IF c \in BilledTo(u, d) THEN paid[c].credits ELSE 0)
        /\ CreditsOf(paid', BilledTo(u, d)') =
              rest + (IF c \in BilledTo(u, d)' THEN paid'[c].credits ELSE 0)
  BY <1>5, OneBillChanges
<1>7. CreditsOf(paid, BilledTo(u, d)) = rest
  BY <1>6
<1>8. QED
  BY <1>1, <1>6, <1>7

\* The ledger and the bills change together, in the one statement of try_spend
\* that decides.
LEMMA NextBalanced ==
  ASSUME IInv, IInv', Balanced, [RequestsNext]_all
  PROVE  Balanced'
<1>1. ASSUME UNCHANGED <<used, asked, paid>> PROVE Balanced'
  BY <1>1 DEF Balanced, BilledTo
<1>2. ASSUME NEW c \in Callers, Arrive(c) PROVE Balanced'
  <2>1. /\ pc[c] = "new" /\ UNCHANGED <<used, paid>>
        /\ \A d \in Callers \ {c} : asked'[d] = asked[d]
    BY <1>2 DEF Arrive, account, history
  <2>2. paid[c].credits = 0
    BY <2>1 DEF IInv, PaidInv, Before
  <2>3. \A k \in Users \X CalendarDays : used[k] \in Nat
    BY DEF IInv, AccountTypeOK
  <2>4. \A u \in Users, d \in CalendarDays :
          used'[<<u, d>>] = used[<<u, d>>]
                              + (IF c \in BilledTo(u, d)' THEN paid'[c].credits ELSE 0)
    BY <2>1, <2>2, <2>3
  <2>5. QED
    BY <2>1, <2>2, <2>4, OneRequestBilled
<1>3. ASSUME NEW c \in Callers, Spend(c) PROVE Balanced'
  <2>1. CASE Refuse(c) /\ UNCHANGED paid
    BY <1>1, <1>3, <2>1 DEF Spend, Refuse
  <2>2. CASE /\ Grant(c)
             /\ paid' = [paid EXCEPT ![c] = [credits |-> call[c].cost, on |-> call[c].on]]
    <3> DEFINE k == <<call[c].user, call[c].on>>
    <3>1. /\ call[c].state = "pending" /\ UNCHANGED asked
          /\ used' = [used EXCEPT ![k] = @ + call[c].cost]
      BY <1>3, <2>2 DEF Spend, Grant
    <3>2. /\ PaidInv(c) /\ RequestsTypeOK /\ AccountTypeOK
          /\ asked[c].cost \in Nat
      BY AtCharge
    <3>3. pc[c] = "charging" /\ call[c] \in CallRecord
      BY <3>1, <3>2 DEF PaidInv, RequestsTypeOK
    <3>4. /\ call[c].user \in Users /\ call[c].on \in CalendarDays
          /\ call[c].user = asked[c].user /\ call[c].cost = asked[c].cost
          /\ paid[c].credits = 0
      BY <3>1, <3>2, <3>3 DEF PaidInv, CallRecord
    <3>5. /\ paid'[c].credits = call[c].cost /\ paid'[c].on = call[c].on
          /\ \A d \in Callers \ {c} : paid'[d] = paid[d]
      BY <2>2, <3>2 DEF AccountTypeOK
    <3>6. ASSUME NEW u \in Users, NEW d \in CalendarDays
          PROVE  used'[<<u, d>>] = used[<<u, d>>]
                                     + (IF c \in BilledTo(u, d)' THEN paid'[c].credits ELSE 0)
      <4>1. c \in BilledTo(u, d)' <=> <<u, d>> = k
        BY <3>1, <3>4, <3>5 DEF BilledTo
      <4>2. used[<<u, d>>] \in Nat /\ <<u, d>> \in Users \X CalendarDays
        BY <3>2 DEF AccountTypeOK
      <4>3. used'[<<u, d>>] = IF <<u, d>> = k THEN used[<<u, d>>] + call[c].cost
                                              ELSE used[<<u, d>>]
        BY <3>1, <3>2, <4>2 DEF AccountTypeOK
      <4>4. QED
        BY <3>2, <3>4, <3>5, <4>1, <4>2, <4>3
    <3>7. QED
      BY <3>1, <3>4, <3>5, <3>6, OneRequestBilled
  <2>3. QED
    BY <1>3, <2>1, <2>2 DEF Spend
<1>4. ASSUME NEW c \in Callers,
             \/ Reset(c) \/ CheckDates(c) \/ CheckNames(c) \/ AskBudget(c) \/ Charge(c)
             \/ Charged(c) \/ LookupBlocked(c) \/ RespondResults(c)
      PROVE  Balanced'
  BY <1>1, <1>4 DEF Reset, CheckDates, CheckNames, AskBudget, Charge, Charged, Answer,
                    LookupBlocked, RespondResults, account, history
<1>5. CASE BudgetReturns \/ Midnight \/ UNCHANGED all
  BY <1>1, <1>5 DEF BudgetReturns, Midnight, NextDay, all, account, history
<1>6. QED
  BY <1>2, <1>3, <1>4, <1>5 DEF RequestsNext

\* Every credit missing from an account is on the bill of one request of its
\* owner, on the day it was charged: nothing is charged twice, to somebody else
\* or to another day, whatever searches run at once (_charge_credits, try_spend).
THEOREM EveryCreditIsBilled == RequestsSpec => []CreditsAccountedFor
<1>1. RequestsInit => Balanced
  <2> SUFFICES ASSUME RequestsInit, NEW u \in Users, NEW d \in CalendarDays
               PROVE  used[<<u, d>>] = CreditsOf(paid, BilledTo(u, d))
    BY DEF Balanced
  <2>1. BilledTo(u, d) \subseteq Callers /\ \A c \in Callers : paid[c].credits = 0
    BY DEF BilledTo, RequestsInit
  <2>2. IsFiniteSet(BilledTo(u, d))
    BY <2>1, RequestsAssumption, FS_Subset
  <2>3. CreditsOf(paid, BilledTo(u, d)) = 0
    BY <2>1, <2>2, NoBills
  <2>4. QED
    BY <2>3 DEF RequestsInit, Init
<1>2. IInv /\ IInv' /\ Balanced /\ [RequestsNext]_all => Balanced'
  BY NextBalanced
<1>3. Balanced => CreditsAccountedFor
  BY DEF Balanced, CreditsAccountedFor, CreditsOf, BilledTo
<1>4. QED
  BY <1>1, <1>2, <1>3, Invariance, PTL DEF RequestsSpec
-----------------------------------------------------------------------------

\* The routes use a credit account as CreditAccount allows: one spend per
\* request, for a user who exists and a price that can be asked, which is
\* decided before the handler goes on (_charge_credits).
THEOREM ChargesAreSpends == RequestsSpec => Spec
<1>1. RequestsInit => Init
  BY DEF RequestsInit
<1>2. ASSUME IInv, [RequestsNext]_all PROVE [Next]_vars
  <2>1. ASSUME NEW c \in Callers, Charge(c) PROVE [Next]_vars
    <3>1. CASE UNCHANGED account
      BY <3>1 DEF account, vars
    <3>2. CASE /\ asked[c].user # Anonymous
               /\ call' = [call EXCEPT ![c] = [user |-> asked[c].user, cost |-> asked[c].cost,
                                               on |-> day, state |-> "pending"]]
               /\ UNCHANGED <<day, used>>
      <4>1. call[c].state = "idle" /\ asked[c].user \in Users /\ asked[c].cost \in Costs
        <5>1. IInv /\ pc[c] = "charge"
          BY <1>2, <2>1 DEF Charge
        <5>2. PaidInv(c) /\ asked[c].user \in Users \cup {Anonymous} /\ asked[c].cost \in Costs
          BY <5>1, AtCharge
        <5>3. QED
          BY <3>2, <5>1, <5>2 DEF PaidInv
      <4>2. Request(c)
        BY <3>2, <4>1 DEF Request
      <4>3. QED
        BY <4>2 DEF Next
    <3>3. QED
      BY <2>1, <3>1, <3>2 DEF Charge
  <2>2. ASSUME NEW c \in Callers, Spend(c) \/ Charged(c) PROVE [Next]_vars
    BY <2>2 DEF Spend, Charged, Next
  <2>3. ASSUME NEW c \in Callers,
               \/ Arrive(c) \/ Reset(c) \/ CheckDates(c) \/ CheckNames(c) \/ AskBudget(c)
               \/ LookupBlocked(c) \/ RespondResults(c)
        PROVE  [Next]_vars
    BY <2>3 DEF Arrive, Reset, CheckDates, CheckNames, AskBudget, LookupBlocked, RespondResults,
                account, vars
  <2>4. CASE BudgetReturns \/ UNCHANGED all
    BY <2>4 DEF BudgetReturns, all, account, vars
  <2>5. CASE Midnight
    BY <2>5 DEF Midnight, Next
  <2>6. QED
    BY <1>2, <2>1, <2>2, <2>3, <2>4, <2>5 DEF RequestsNext
<1>3. QED
  BY <1>1, <1>2, Invariance, PTL DEF RequestsSpec, Spec
=============================================================================
