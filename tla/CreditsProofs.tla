--------------------------- MODULE CreditsProofs ---------------------------
(***************************************************************************)
(* Proofs, for every number of users, handlers, days and every allowance,   *)
(* of the safety properties of Credits.  WithinAllowance is not inductive   *)
(* on its own (an INSERT is bounded only because its handler checked the    *)
(* cost), and TwoPassesSuffice is a fact about which passes can reach which *)
(* statement; IInv adds both.                                               *)
(***************************************************************************)
EXTENDS Credits, TLAPS

\* A missing row stands for a zero balance.
NoRowNoCharge == \A k \in Keys : k \notin rows => used[k] = 0

\* What a handler knows at each statement: only a first pass can INSERT,
\* and a second pass meets a row that exists and, once its UPDATE has missed
\* it, cannot pay.
PassInv(t) ==
  /\ attempt[t] \in {1, 2}
  /\ reply[t] # "error"
  /\ pc[t] = "update" /\ attempt[t] = 2 => Key(t) \in rows
  /\ pc[t] = "select" /\ attempt[t] = 2 =>
       Key(t) \in rows /\ used[Key(t)] + cost[t] > Allowance
  /\ pc[t] = "insert" => attempt[t] = 1 /\ cost[t] <= Allowance
  /\ pc[t] = "done" => reply[t] \in {"granted", "refused"}

IInv == TypeOK /\ NoRowNoCharge /\ WithinAllowance /\ \A t \in Threads : PassInv(t)

\* The row a handler charges is a ledger row, and its cost is positive.
LEMMA KeyIsKey ==
  ASSUME TypeOK, NEW t \in Threads
  PROVE  Key(t) \in Keys /\ used[Key(t)] \in Nat /\ cost[t] \in Nat /\ cost[t] > 0
<1>1. user[t] \in Users /\ today[t] \in Days /\ cost[t] \in Costs
  BY DEF TypeOK
<1>2. Key(t) \in Keys
  BY <1>1 DEF Key, Keys
<1>3. used[Key(t)] \in Nat
  BY <1>2 DEF TypeOK
<1>4. cost[t] \in Nat /\ cost[t] > 0
  <2>1. cost[t] \in Nat /\ cost[t] # 0
    BY <1>1, CreditsAssumption
  <2>2. QED
    BY <2>1
<1>5. QED
  BY <1>2, <1>3, <1>4

\* An empty ledger satisfies the invariant.
LEMMA InitIInv == Init => IInv
<1> SUFFICES ASSUME Init PROVE IInv
  OBVIOUS
<1>1. 1 \in Days
  BY CreditsAssumption DEF Days
<1>2. TypeOK
  BY <1>1, CreditsAssumption DEF Init, TypeOK, Labels
<1>3. NoRowNoCharge /\ WithinAllowance
  BY CreditsAssumption DEF Init, NoRowNoCharge, WithinAllowance
<1>4. \A t \in Threads : PassInv(t)
  BY DEF Init, PassInv
<1>5. QED
  BY <1>2, <1>3, <1>4 DEF IInv

\* A handler's facts survive a step that leaves its own variables alone and
\* lets rows appear and balances grow.
LEMMA PassInvStable ==
  ASSUME TypeOK, NEW s \in Threads, PassInv(s),
         rows \subseteq rows',
         \A k \in Keys : used'[k] \in Nat /\ used'[k] >= used[k],
         pc'[s] = pc[s], attempt'[s] = attempt[s], reply'[s] = reply[s],
         cost'[s] = cost[s], user'[s] = user[s], today'[s] = today[s]
  PROVE  PassInv(s)'
<1>1. Key(s)' = Key(s)
  BY DEF Key
<1>2. used'[Key(s)] \in Nat /\ used'[Key(s)] >= used[Key(s)]
  BY KeyIsKey
<1>3. pc[s] = "select" /\ attempt[s] = 2 => used'[Key(s)] + cost[s] > Allowance
  BY <1>2, KeyIsKey, CreditsAssumption DEF PassInv
<1>4. QED
  BY <1>1, <1>3 DEF PassInv

\* Every statement of every handler keeps the invariant.
LEMMA NextIInv == IInv /\ [Next]_vars => IInv'
<1> SUFFICES ASSUME IInv, [Next]_vars PROVE IInv'
  OBVIOUS
<1> USE CreditsAssumption
<1>a. TypeOK /\ NoRowNoCharge /\ WithinAllowance /\ \A t \in Threads : PassInv(t)
  BY DEF IInv
<1>1. ASSUME NEW t \in Threads, CallTrySpend(t) PROVE IInv'
  <2>1. TypeOK'
    BY <1>1, <1>a DEF CallTrySpend, Goto, ledger, TypeOK, Labels
  <2>2. UNCHANGED <<rows, used>>
    BY <1>1 DEF CallTrySpend, ledger
  <2>3. NoRowNoCharge' /\ WithinAllowance'
    BY <1>a, <2>2 DEF NoRowNoCharge, WithinAllowance
  <2>4. PassInv(t)'
    BY <1>1, <1>a DEF CallTrySpend, Goto, TypeOK, PassInv
  <2>5. ASSUME NEW s \in Threads, s # t PROVE PassInv(s)'
    BY <1>1, <1>a, <2>2, <2>5, PassInvStable DEF CallTrySpend, Goto, TypeOK
  <2>6. QED
    BY <2>1, <2>3, <2>4, <2>5 DEF IInv
<1>2. ASSUME NEW t \in Threads, Update(t) PROVE IInv'
  <2>1. /\ Key(t) \in Keys /\ cost[t] \in Nat /\ used[Key(t)] \in Nat
        /\ Key(t)' = Key(t)
    BY <1>2, <1>a, KeyIsKey DEF Update, locals, Key
  <2>2. CASE UpdateMatches(t)
    <3>1. /\ used' = [used EXCEPT ![Key(t)] = @ + cost[t]]
          /\ pc' = [pc EXCEPT ![t] = "status"]
          /\ UNCHANGED <<clock, rows, user, cost, today, attempt, reply, seen>>
      BY <1>2, <2>2 DEF Update, Goto, locals
    <3>2. TypeOK'
      BY <1>a, <2>1, <3>1 DEF TypeOK, Labels
    <3>3. NoRowNoCharge' /\ WithinAllowance'
      BY <1>a, <2>1, <2>2, <3>1 DEF UpdateMatches, NoRowNoCharge, WithinAllowance, TypeOK
    <3>4. PassInv(t)'
      BY <1>a, <3>1 DEF PassInv, TypeOK
    <3>5. \A k \in Keys : used'[k] \in Nat /\ used'[k] >= used[k]
      BY <1>a, <2>1, <3>1 DEF TypeOK
    <3>6. ASSUME NEW s \in Threads, s # t PROVE PassInv(s)'
      BY <1>a, <3>1, <3>5, <3>6, PassInvStable DEF TypeOK
    <3>7. QED
      BY <3>2, <3>3, <3>4, <3>6 DEF IInv
  <2>3. CASE ~UpdateMatches(t)
    <3>1. /\ pc' = [pc EXCEPT ![t] = "select"]
          /\ pc[t] = "update"
          /\ UNCHANGED <<clock, rows, used, user, cost, today, attempt, reply, seen>>
      BY <1>2, <2>3 DEF Update, Goto, locals
    <3>2. TypeOK'
      BY <1>a, <3>1 DEF TypeOK, Labels
    <3>3. NoRowNoCharge' /\ WithinAllowance'
      BY <1>a, <3>1 DEF NoRowNoCharge, WithinAllowance
    <3>4. attempt[t] = 2 => Key(t) \in rows /\ used[Key(t)] + cost[t] > Allowance
      BY <1>a, <2>1, <2>3, <3>1 DEF UpdateMatches, PassInv
    <3>5. PassInv(t)'
      BY <1>a, <2>1, <3>1, <3>4 DEF PassInv, TypeOK
    <3>6. \A k \in Keys : used'[k] \in Nat /\ used'[k] >= used[k]
      BY <1>a, <3>1 DEF TypeOK
    <3>7. ASSUME NEW s \in Threads, s # t PROVE PassInv(s)'
      BY <1>a, <3>1, <3>6, <3>7, PassInvStable DEF TypeOK
    <3>8. QED
      BY <3>2, <3>3, <3>5, <3>7 DEF IInv
  <2>4. QED
    BY <2>2, <2>3
<1>3. ASSUME NEW t \in Threads, Select(t) PROVE IInv'
  <2>1. /\ Key(t) \in Keys /\ cost[t] \in Nat /\ used[Key(t)] \in Nat
        /\ Key(t)' = Key(t)
    BY <1>3, <1>a, KeyIsKey DEF Select, locals, Key
  <2>2. /\ pc[t] = "select"
        /\ UNCHANGED <<clock, rows, used, user, cost, today, seen>>
    BY <1>3 DEF Select, ledger, locals
  <2>3. /\ NoRowNoCharge' /\ WithinAllowance'
        /\ \A k \in Keys : used'[k] \in Nat /\ used'[k] >= used[k]
    BY <1>a, <2>2 DEF NoRowNoCharge, WithinAllowance, TypeOK
  <2>4. \/ /\ pc' = [pc EXCEPT ![t] = "done"]
           /\ reply' = [reply EXCEPT ![t] = "refused"]
           /\ attempt' = attempt
        \/ /\ pc' = [pc EXCEPT ![t] = "update"]
           /\ attempt[t] = 1
           /\ attempt' = [attempt EXCEPT ![t] = 2]
           /\ reply' = reply
           /\ Key(t) \in rows
        \/ /\ pc' = [pc EXCEPT ![t] = "insert"]
           /\ attempt[t] = 1
           /\ cost[t] <= Allowance
           /\ UNCHANGED <<attempt, reply>>
    <3>1. /\ attempt[t] \in {1, 2}
          /\ attempt[t] = 2 => Key(t) \in rows /\ used[Key(t)] + cost[t] > Allowance
      BY <1>a, <2>2 DEF PassInv
    <3>2. attempt[t] = 1 => attempt[t] < MaxAttempts
      OBVIOUS
    <3>3. QED
      BY <1>3, <1>a, <2>1, <3>1, <3>2 DEF Select, NextAttempt, Return, Goto, TypeOK
  <2>5. TypeOK'
    BY <1>a, <2>2, <2>4 DEF TypeOK, Labels
  <2>6. PassInv(t)'
    BY <1>a, <2>1, <2>2, <2>4 DEF PassInv, TypeOK
  <2>7. ASSUME NEW s \in Threads, s # t PROVE PassInv(s)'
    BY <1>a, <2>2, <2>3, <2>4, <2>7, PassInvStable DEF TypeOK
  <2>8. QED
    BY <2>3, <2>5, <2>6, <2>7 DEF IInv
<1>4. ASSUME NEW t \in Threads, Insert(t) PROVE IInv'
  <2>1. /\ Key(t) \in Keys /\ cost[t] \in Nat /\ used[Key(t)] \in Nat
        /\ Key(t)' = Key(t)
    BY <1>4, <1>a, KeyIsKey DEF Insert, locals, Key
  <2>2. /\ pc[t] = "insert" /\ attempt[t] = 1 /\ cost[t] <= Allowance
        /\ UNCHANGED <<clock, user, cost, today>>
    BY <1>4, <1>a DEF Insert, locals, PassInv
  <2>3. CASE Key(t) \notin rows
    <3>1. /\ rows' = rows \cup {Key(t)}
          /\ used' = [used EXCEPT ![Key(t)] = cost[t]]
          /\ pc' = [pc EXCEPT ![t] = "done"]
          /\ reply' = [reply EXCEPT ![t] = "granted"]
          /\ seen' = [seen EXCEPT ![t] = cost[t]]
          /\ attempt' = attempt
      BY <1>4, <2>3 DEF Insert, InsertRow, Return, Goto
    <3>2. used[Key(t)] = 0
      BY <1>a, <2>1, <2>3 DEF NoRowNoCharge
    <3>3. TypeOK'
      BY <1>a, <2>1, <2>2, <3>1 DEF TypeOK, Labels
    <3>4. NoRowNoCharge' /\ WithinAllowance'
      BY <1>a, <2>1, <2>2, <3>1 DEF NoRowNoCharge, WithinAllowance, TypeOK
    <3>5. \A k \in Keys : used'[k] \in Nat /\ used'[k] >= used[k]
      BY <1>a, <2>1, <3>1, <3>2 DEF TypeOK
    <3>6. PassInv(t)'
      BY <1>a, <2>2, <3>1 DEF PassInv, TypeOK
    <3>7. ASSUME NEW s \in Threads, s # t PROVE PassInv(s)'
      BY <1>a, <2>2, <3>1, <3>5, <3>7, PassInvStable DEF TypeOK
    <3>8. QED
      BY <3>3, <3>4, <3>6, <3>7 DEF IInv
  <2>4. CASE Key(t) \in rows
    <3>1. /\ UNCHANGED <<rows, used, seen, reply>>
          /\ pc' = [pc EXCEPT ![t] = "update"]
          /\ attempt' = [attempt EXCEPT ![t] = 2]
      BY <1>4, <1>a, <2>2, <2>4
         DEF Insert, InsertRow, NextAttempt, Goto, ledger, TypeOK
    <3>2. TypeOK'
      BY <1>a, <2>2, <3>1 DEF TypeOK, Labels
    <3>3. /\ NoRowNoCharge' /\ WithinAllowance'
          /\ \A k \in Keys : used'[k] \in Nat /\ used'[k] >= used[k]
      BY <1>a, <3>1 DEF NoRowNoCharge, WithinAllowance, TypeOK
    <3>4. PassInv(t)'
      BY <1>a, <2>1, <2>4, <3>1 DEF PassInv, TypeOK
    <3>5. ASSUME NEW s \in Threads, s # t PROVE PassInv(s)'
      BY <1>a, <2>2, <3>1, <3>3, <3>5, PassInvStable DEF TypeOK
    <3>6. QED
      BY <3>2, <3>3, <3>4, <3>5 DEF IInv
  <2>5. QED
    BY <2>3, <2>4
<1>5. ASSUME NEW t \in Threads, ReadStatus(t) \/ Answer(t) PROVE IInv'
  <2>1. /\ UNCHANGED <<clock, rows, used, user, cost, today, attempt>>
        /\ \A s \in Threads \ {t} : pc'[s] = pc[s] /\ reply'[s] = reply[s]
    BY <1>5, <1>a DEF ReadStatus, Answer, Return, Goto, ledger, locals, TypeOK
  <2>2. used[<<user[t], clock>>] \in Nat
    BY <1>a DEF TypeOK, Keys
  <2>3. TypeOK'
    BY <1>5, <1>a, <2>1, <2>2 DEF ReadStatus, Answer, Return, Goto, TypeOK, Labels
  <2>4. /\ NoRowNoCharge' /\ WithinAllowance'
        /\ \A k \in Keys : used'[k] \in Nat /\ used'[k] >= used[k]
    BY <1>a, <2>1 DEF NoRowNoCharge, WithinAllowance, TypeOK
  <2>5. PassInv(t)'
    BY <1>5, <1>a, <2>1 DEF ReadStatus, Answer, Return, Goto, PassInv, TypeOK
  <2>6. ASSUME NEW s \in Threads, s # t PROVE PassInv(s)'
    BY <1>a, <2>1, <2>4, <2>6, PassInvStable
  <2>7. QED
    BY <2>3, <2>4, <2>5, <2>6 DEF IInv
<1>6. CASE Midnight
  <2>1. /\ clock' \in Days
        /\ UNCHANGED <<rows, used, pc, user, cost, today, attempt, reply, seen>>
    BY <1>6, <1>a DEF Midnight, ledger, locals, TypeOK, Days
  <2>2. TypeOK' /\ NoRowNoCharge' /\ WithinAllowance'
    BY <1>a, <2>1 DEF TypeOK, NoRowNoCharge, WithinAllowance
  <2>3. \A s \in Threads : PassInv(s)'
    BY <1>a, <2>1 DEF PassInv, Key
  <2>4. QED
    BY <2>2, <2>3 DEF IInv
<1>7. CASE Restart
  <2>1. /\ pc' = [t \in Threads |-> "idle"]
        /\ UNCHANGED <<clock, user, cost, today, attempt, reply, seen>>
        /\ \/ UNCHANGED <<rows, used>>
           \/ rows' = {} /\ used' = [k \in Keys |-> 0]
    BY <1>7 DEF Restart, ledger, locals
  <2>2. TypeOK'
    BY <1>a, <2>1 DEF TypeOK, Labels
  <2>3. NoRowNoCharge' /\ WithinAllowance'
    BY <1>a, <2>1 DEF NoRowNoCharge, WithinAllowance
  <2>4. \A s \in Threads : PassInv(s)'
    BY <1>a, <2>1 DEF TypeOK, PassInv
  <2>5. QED
    BY <2>2, <2>3, <2>4 DEF IInv
<1>8. CASE UNCHANGED vars
  <2>1. TypeOK' /\ NoRowNoCharge' /\ WithinAllowance'
    BY <1>8, <1>a DEF vars, TypeOK, NoRowNoCharge, WithinAllowance
  <2>2. \A s \in Threads : PassInv(s)'
    BY <1>8, <1>a DEF vars, PassInv, Key
  <2>3. QED
    BY <2>1, <2>2 DEF IInv
<1>9. QED
  BY <1>1, <1>2, <1>3, <1>4, <1>5, <1>6, <1>7, <1>8 DEF Next, Step

\* The invariant holds in every reachable state.
LEMMA Inductive == Spec => []IInv
BY InitIInv, NextIInv, PTL DEF Spec

\* The ledger and every handler's local variables stay in their types.
THEOREM TypeCorrect == Spec => []TypeOK
<1>1. IInv => TypeOK
  BY DEF IInv
<1>2. QED
  BY <1>1, Inductive, PTL

\* Whatever spends run at once, no user is charged more than a day's allowance.
THEOREM AllowanceHolds == Spec => []WithinAllowance
<1>1. IInv => WithinAllowance
  BY DEF IInv
<1>2. QED
  BY <1>1, Inductive, PTL

\* No spend needs a third pass over the loop, however many handlers race:
\* the five attempts of the code are never used up.
THEOREM RetriesSuffice == Spec => []TwoPassesSuffice
<1>1. IInv => TwoPassesSuffice
  BY DEF IInv, PassInv, TwoPassesSuffice
<1>2. QED
  BY <1>1, Inductive, PTL
-----------------------------------------------------------------------------

\* What a charge leaves behind until the handler answers: the handler's day
\* is not in the future, its row holds the charge until the status has been
\* read, and a status of that same day accounts for it.
Remembered(t) ==
  /\ today[t] <= clock
  /\ pc[t] = "status" => used[Key(t)] >= cost[t]
  /\ pc[t] = "done" /\ reply[t] = "granted" /\ today[t] = clock => seen[t] >= cost[t]

\* No statement of another handler takes a charge back.
LEMMA RememberedStable ==
  ASSUME TypeOK, NEW s \in Threads, Remembered(s), clock' = clock,
         \A k \in Keys : used'[k] \in Nat /\ used'[k] >= used[k],
         pc'[s] = pc[s], reply'[s] = reply[s], cost'[s] = cost[s],
         user'[s] = user[s], today'[s] = today[s], seen'[s] = seen[s]
  PROVE  Remembered(s)'
<1>1. Key(s)' = Key(s)
  BY DEF Key
<1>2. used'[Key(s)] \in Nat /\ used'[Key(s)] >= used[Key(s)]
  BY KeyIsKey
<1>3. pc[s] = "status" => used'[Key(s)] >= cost[s]
  BY <1>2, KeyIsKey DEF Remembered
<1>4. QED
  BY <1>1, <1>3 DEF Remembered

\* Only midnight and a restart come between a charge and its answer: after
\* the one the handler's day has passed, after the other the handler is gone.
LEMMA NextRemembered ==
  ASSUME IInv, \A t \in Threads : Remembered(t), [Next]_vars
  PROVE  \A t \in Threads : Remembered(t)'
<1>a. TypeOK /\ NoRowNoCharge /\ \A t \in Threads : PassInv(t)
  BY DEF IInv
<1>b. clock \in Nat /\ \A t \in Threads : today[t] \in Nat
  BY <1>a DEF TypeOK, Days
\* A step of handler t inside its calls leaves the others' charges in place.
<1>c. ASSUME NEW t \in Threads, clock' = clock, Remembered(t)',
             \A k \in Keys : used'[k] \in Nat /\ used'[k] >= used[k],
             \A s \in Threads \ {t} :
               /\ pc'[s] = pc[s] /\ reply'[s] = reply[s] /\ cost'[s] = cost[s]
               /\ user'[s] = user[s] /\ today'[s] = today[s] /\ seen'[s] = seen[s]
      PROVE  \A s \in Threads : Remembered(s)'
  <2>1. ASSUME NEW s \in Threads, s # t PROVE Remembered(s)'
    BY <1>a, <1>c, <2>1, RememberedStable
  <2>2. QED
    BY <1>c, <2>1
<1>1. ASSUME NEW t \in Threads, CallTrySpend(t)
      PROVE  \A s \in Threads : Remembered(s)'
  <2>1. Remembered(t)'
    BY <1>1, <1>a, <1>b DEF CallTrySpend, Goto, Remembered, TypeOK
  <2>2. QED
    BY <1>1, <1>a, <1>c, <2>1 DEF CallTrySpend, Goto, ledger, TypeOK
<1>2. ASSUME NEW t \in Threads, Update(t)
      PROVE  \A s \in Threads : Remembered(s)'
  <2>1. /\ Key(t) \in Keys /\ cost[t] \in Nat /\ used[Key(t)] \in Nat
        /\ Key(t)' = Key(t)
    BY <1>2, <1>a, KeyIsKey DEF Update, locals, Key
  <2>2. \A k \in Keys : used'[k] \in Nat /\ used'[k] >= used[k]
    BY <1>2, <1>a, <2>1 DEF Update, TypeOK
  <2>3. pc'[t] = "status" => used'[Key(t)] = used[Key(t)] + cost[t]
    BY <1>2, <1>a, <2>1 DEF Update, Goto, TypeOK
  <2>4. Remembered(t)'
    BY <1>2, <1>a, <2>1, <2>3 DEF Update, Goto, locals, Remembered, TypeOK
  <2>5. QED
    BY <1>2, <1>a, <1>c, <2>2, <2>4 DEF Update, Goto, locals, TypeOK
<1>3. ASSUME NEW t \in Threads, Select(t)
      PROVE  \A s \in Threads : Remembered(s)'
  <2>1. /\ UNCHANGED <<clock, used, user, cost, today, seen>>
        /\ pc'[t] = "done" => reply'[t] # "granted"
        /\ pc'[t] # "status"
        /\ \A s \in Threads \ {t} : pc'[s] = pc[s] /\ reply'[s] = reply[s]
    BY <1>3, <1>a DEF Select, NextAttempt, Return, Goto, ledger, locals, TypeOK
  <2>2. Remembered(t)'
    BY <2>1 DEF Remembered
  <2>3. \A k \in Keys : used'[k] \in Nat /\ used'[k] >= used[k]
    BY <1>a, <2>1 DEF TypeOK
  <2>4. QED
    BY <1>c, <2>1, <2>2, <2>3
<1>4. ASSUME NEW t \in Threads, Insert(t)
      PROVE  \A s \in Threads : Remembered(s)'
  <2>1. Key(t) \in Keys /\ cost[t] \in Nat
    BY <1>a, KeyIsKey
  <2>2. /\ UNCHANGED <<clock, user, cost, today>>
        /\ pc'[t] # "status"
        /\ pc'[t] = "done" /\ reply'[t] = "granted" => seen'[t] = cost[t]
        /\ \A s \in Threads \ {t} :
              pc'[s] = pc[s] /\ reply'[s] = reply[s] /\ seen'[s] = seen[s]
    BY <1>4, <1>a DEF Insert, InsertRow, NextAttempt, Return, Goto, locals, TypeOK
  <2>3. Remembered(t)'
    BY <2>1, <2>2 DEF Remembered
  <2>4. \A k \in Keys : used'[k] \in Nat /\ used'[k] >= used[k]
    BY <1>4, <1>a, <2>1 DEF Insert, InsertRow, ledger, NoRowNoCharge, TypeOK
  <2>5. QED
    BY <1>c, <2>2, <2>3, <2>4
<1>5. ASSUME NEW t \in Threads, ReadStatus(t) \/ Answer(t)
      PROVE  \A s \in Threads : Remembered(s)'
  <2>1. /\ UNCHANGED <<clock, used, user, cost, today>>
        /\ pc'[t] = "done" => /\ pc[t] = "status"
                              /\ seen'[t] = used[<<user[t], clock>>]
        /\ pc'[t] # "status"
        /\ \A s \in Threads \ {t} :
              pc'[s] = pc[s] /\ reply'[s] = reply[s] /\ seen'[s] = seen[s]
    BY <1>5, <1>a DEF ReadStatus, Answer, Return, Goto, ledger, locals, TypeOK
  <2>2. pc[t] = "status" /\ today[t] = clock => used[<<user[t], clock>>] >= cost[t]
    BY DEF Remembered, Key
  <2>3. Remembered(t)'
    BY <2>1, <2>2 DEF Remembered
  <2>4. \A k \in Keys : used'[k] \in Nat /\ used'[k] >= used[k]
    BY <1>a, <2>1 DEF TypeOK
  <2>5. QED
    BY <1>c, <2>1, <2>3, <2>4
<1>6. CASE Midnight
  <2>1. /\ clock' = clock + 1
        /\ UNCHANGED <<used, pc, user, cost, today, reply, seen>>
    BY <1>6 DEF Midnight, ledger, locals
  <2>2. QED
    BY <1>b, <2>1 DEF Remembered, Key
<1>7. CASE Restart
  BY <1>7 DEF Restart, locals, Remembered
<1>8. CASE UNCHANGED vars
  BY <1>8 DEF vars, Remembered, Key
<1>9. QED
  BY <1>1, <1>2, <1>3, <1>4, <1>5, <1>6, <1>7, <1>8 DEF Next, Step

\* The balance a granted spend reports on its own day is one after the charge,
\* whatever other handlers charged meanwhile.
THEOREM StatusCountsTheCharge == Spec => []StatusAfterSpending
<1>1. Init => \A t \in Threads : Remembered(t)
  BY DEF Init, Remembered
<1>2. IInv /\ (\A t \in Threads : Remembered(t)) /\ [Next]_vars
        => (\A t \in Threads : Remembered(t))'
  BY NextRemembered
<1>3. (\A t \in Threads : Remembered(t)) => StatusAfterSpending
  BY DEF Remembered, StatusAfterSpending
<1>4. QED
  BY <1>1, <1>2, <1>3, Inductive, PTL DEF Spec
-----------------------------------------------------------------------------

\* The abstract call record of handler t, and what it is to be in TypeOK.
Call(t) == [user |-> user[t], cost |-> cost[t], on |-> today[t], state |-> CallState(t)]

\* An empty ledger is an account that has charged nothing.
LEMMA InitRefines == Init => Account!Init
<1> SUFFICES ASSUME Init PROVE Account!Init
  OBVIOUS
<1>1. ASSUME NEW t \in Threads PROVE Call(t) \in Account!CallRecord /\ Call(t).state = "idle"
  <2>1. 1 \in Days
    BY CreditsAssumption DEF Days
  <2>2. user[t] \in Users /\ cost[t] \in Costs /\ today[t] = 1 /\ CallState(t) = "idle"
    BY DEF Init, CallState
  <2>3. QED
    BY <2>1, <2>2 DEF Call, Account!CallRecord, Account!CalendarDays, Days
<1>2. [t \in Threads |-> Call(t)] \in
        [Threads -> {r \in Account!CallRecord : r.state = "idle"}]
  BY <1>1
<1>3. QED
  BY <1>2 DEF Init, Account!Init, Call, Keys, Days, Account!CalendarDays

\* Each statement is a step of the atomic account, or invisible to it.
LEMMA StepRefines == IInv /\ [Next]_vars => [Account!Next]_Account!vars
<1> SUFFICES ASSUME IInv, [Next]_vars PROVE [Account!Next]_Account!vars
  OBVIOUS
<1> DEFINE C == [t \in Threads |-> Call(t)]
<1>a. TypeOK /\ NoRowNoCharge /\ \A t \in Threads : PassInv(t)
  BY DEF IInv
<1>b. /\ Days = Account!CalendarDays
      /\ Keys = Users \X Account!CalendarDays
  BY DEF Days, Keys, Account!CalendarDays
\* A step of handler t changes no other handler's abstract call.
<1>c. ASSUME NEW t \in Threads, NEW r,
             Call(t)' = r,
             \A s \in Threads \ {t} : /\ user'[s] = user[s] /\ cost'[s] = cost[s]
                                      /\ today'[s] = today[s] /\ pc'[s] = pc[s]
                                      /\ reply'[s] = reply[s]
      PROVE  C' = [C EXCEPT ![t] = r]
  <2>1. \A s \in Threads \ {t} : Call(s)' = Call(s)
    BY <1>c DEF Call, CallState
  <2>2. QED
    BY <1>c, <2>1
<1>1. ASSUME NEW t \in Threads, CallTrySpend(t) PROVE Account!Request(t)
  <2>1. PICK u \in Users, n \in Costs :
          user' = [user EXCEPT ![t] = u] /\ cost' = [cost EXCEPT ![t] = n]
    BY <1>1 DEF CallTrySpend
  <2>2. Call(t).state = "idle"
    BY <1>1 DEF CallTrySpend, Call, CallState
  <2>3. Call(t)' = [user |-> u, cost |-> n, on |-> clock, state |-> "pending"]
    BY <1>1, <1>a, <2>1 DEF CallTrySpend, Goto, Call, CallState, TypeOK
  <2>4. C' = [C EXCEPT ![t] = [user |-> u, cost |-> n, on |-> clock, state |-> "pending"]]
    BY <1>1, <1>a, <1>c, <2>1, <2>3 DEF CallTrySpend, Goto, TypeOK
  <2>5. QED
    BY <1>1, <2>2, <2>4 DEF CallTrySpend, ledger, Account!Request, Call
<1>2. ASSUME NEW t \in Threads, Update(t) PROVE Account!Grant(t) \/ UNCHANGED Account!vars
  <2>0. Key(t) \in Keys /\ cost[t] \in Nat /\ used[Key(t)] \in Nat
    BY <1>a, KeyIsKey
  <2>1. CASE UpdateMatches(t)
    <3>1. Call(t).state = "pending"
      BY <1>2 DEF Update, Call, CallState
    <3>2. Call(t)' = [Call(t) EXCEPT !.state = "granted"]
      BY <1>2, <1>a, <2>1 DEF Update, Goto, locals, Call, CallState, TypeOK
    <3>3. C' = [C EXCEPT ![t] = [Call(t) EXCEPT !.state = "granted"]]
      BY <1>2, <1>a, <1>c, <2>1, <3>2 DEF Update, Goto, locals, TypeOK
    <3>4. used[Key(t)] + cost[t] <= Allowance
      BY <2>0, <2>1, CreditsAssumption DEF UpdateMatches
    <3>5. QED
      BY <1>2, <2>1, <3>1, <3>3, <3>4 DEF Update, Account!Grant, Call, Key
  <2>2. CASE ~UpdateMatches(t)
    <3>1. Call(t)' = Call(t)
      BY <1>2, <1>a, <2>2 DEF Update, Goto, locals, Call, CallState, TypeOK
    <3>2. C' = [C EXCEPT ![t] = Call(t)]
      BY <1>2, <1>a, <1>c, <2>2, <3>1 DEF Update, Goto, locals, TypeOK
    <3>3. C' = C
      BY <3>2
    <3>4. QED
      BY <1>2, <2>2, <3>3 DEF Update, locals, Account!vars, Call
  <2>3. QED
    BY <2>1, <2>2
<1>3. ASSUME NEW t \in Threads, Select(t) PROVE Account!Refuse(t) \/ UNCHANGED Account!vars
  <2>0. /\ Key(t) \in Keys /\ cost[t] \in Nat /\ used[Key(t)] \in Nat
        /\ UNCHANGED <<clock, rows, used, user, cost, today>>
        /\ Call(t).state = "pending"
        /\ \A s \in Threads \ {t} : pc'[s] = pc[s] /\ reply'[s] = reply[s]
    BY <1>3, <1>a, KeyIsKey
       DEF Select, NextAttempt, Return, Goto, ledger, locals, TypeOK, Call, CallState
  <2>1. CASE used[Key(t)] + cost[t] > Allowance /\ pc'[t] = "done" /\ reply'[t] = "refused"
    <3>1. Call(t)' = [Call(t) EXCEPT !.state = "refused"]
      BY <2>0, <2>1 DEF Call, CallState
    <3>2. C' = [C EXCEPT ![t] = [Call(t) EXCEPT !.state = "refused"]]
      BY <1>c, <2>0, <3>1
    <3>3. QED
      BY <2>0, <2>1, <3>2 DEF Account!Refuse, Call, Key
  <2>2. CASE pc'[t] \in {"update", "insert"}
    <3>1. Call(t)' = Call(t)
      BY <1>3, <2>0, <2>2 DEF Select, Call, CallState
    <3>2. C' = [C EXCEPT ![t] = Call(t)]
      BY <1>c, <2>0, <3>1
    <3>3. C' = C
      BY <3>2
    <3>4. QED
      BY <2>0, <3>3 DEF Account!vars, Call
  <2>3. QED
    <3>1. /\ pc[t] = "select" /\ attempt[t] \in {1, 2}
          /\ attempt[t] = 2 => Key(t) \in rows /\ used[Key(t)] + cost[t] > Allowance
      BY <1>3, <1>a DEF Select, PassInv
    <3>2. attempt[t] = 1 => attempt[t] < MaxAttempts
      BY CreditsAssumption
    <3>3. Key(t) \notin rows => used[Key(t)] = 0
      BY <1>a, <2>0 DEF NoRowNoCharge
    <3>4. QED
      BY <1>3, <1>a, <2>0, <2>1, <2>2, <3>1, <3>2, <3>3, CreditsAssumption
         DEF Select, NextAttempt, Return, Goto, TypeOK
<1>4. ASSUME NEW t \in Threads, Insert(t) PROVE Account!Grant(t) \/ UNCHANGED Account!vars
  <2>0. /\ Key(t) \in Keys /\ cost[t] \in Nat /\ used[Key(t)] \in Nat
        /\ UNCHANGED <<clock, user, cost, today>>
        /\ attempt[t] = 1 /\ cost[t] <= Allowance
        /\ Call(t).state = "pending"
        /\ \A s \in Threads \ {t} : pc'[s] = pc[s] /\ reply'[s] = reply[s]
    BY <1>4, <1>a, KeyIsKey
       DEF Insert, InsertRow, NextAttempt, Return, Goto, locals, TypeOK, Call, CallState, PassInv
  <2>1. CASE Key(t) \notin rows
    <3>1. pc'[t] = "done" /\ reply'[t] = "granted"
      BY <1>4, <1>a, <2>1 DEF Insert, InsertRow, Return, Goto, TypeOK
    <3>2. Call(t)' = [Call(t) EXCEPT !.state = "granted"]
      BY <2>0, <3>1 DEF Call, CallState
    <3>3. C' = [C EXCEPT ![t] = [Call(t) EXCEPT !.state = "granted"]]
      BY <1>c, <2>0, <3>2
    <3>4. used[Key(t)] = 0
      BY <1>a, <2>0, <2>1 DEF NoRowNoCharge
    <3>5. used' = [used EXCEPT ![Key(t)] = used[Key(t)] + cost[t]]
      BY <1>4, <2>0, <2>1, <3>4 DEF Insert, InsertRow
    <3>6. used[Key(t)] + cost[t] <= Allowance
      BY <2>0, <3>4
    <3>7. QED
      BY <2>0, <3>3, <3>5, <3>6 DEF Account!Grant, Call, Key
  <2>2. CASE Key(t) \in rows
    <3>1. pc'[t] = "update" /\ used' = used
      BY <1>4, <1>a, <2>0, <2>2, CreditsAssumption
         DEF Insert, InsertRow, NextAttempt, Goto, ledger, TypeOK
    <3>2. Call(t)' = Call(t)
      BY <1>4, <2>0, <3>1 DEF Insert, Call, CallState
    <3>3. C' = [C EXCEPT ![t] = Call(t)]
      BY <1>c, <2>0, <3>2
    <3>4. C' = C
      BY <3>3
    <3>5. QED
      BY <2>0, <3>1, <3>4 DEF Account!vars, Call
  <2>3. QED
    BY <2>1, <2>2
<1>5. ASSUME NEW t \in Threads, ReadStatus(t) PROVE UNCHANGED Account!vars
  <2>1. Call(t)' = Call(t)
    BY <1>5, <1>a DEF ReadStatus, Return, Goto, ledger, locals, Call, CallState, TypeOK
  <2>2. C' = [C EXCEPT ![t] = Call(t)]
    BY <1>5, <1>a, <1>c, <2>1 DEF ReadStatus, Return, Goto, ledger, locals, TypeOK
  <2>3. C' = C
    BY <2>2
  <2>4. QED
    BY <1>5, <2>3 DEF ReadStatus, ledger, locals, Account!vars, Call
<1>6. ASSUME NEW t \in Threads, Answer(t) PROVE Account!Answer(t)
  <2>1. Call(t).state \in {"granted", "refused"}
    BY <1>6, <1>a DEF Answer, Call, CallState, PassInv
  <2>2. Call(t)' = [Call(t) EXCEPT !.state = "idle"]
    BY <1>6, <1>a DEF Answer, Goto, ledger, locals, Call, CallState, TypeOK
  <2>3. C' = [C EXCEPT ![t] = [Call(t) EXCEPT !.state = "idle"]]
    BY <1>6, <1>a, <1>c, <2>2 DEF Answer, Goto, ledger, locals, TypeOK
  <2>4. QED
    BY <1>6, <2>1, <2>3 DEF Answer, ledger, Account!Answer, Call
<1>7. CASE Midnight
  <2>1. \A t \in Threads : Call(t)' = Call(t)
    BY <1>7 DEF Midnight, locals, Call, CallState
  <2>2. C' = C
    BY <2>1
  <2>3. QED
    BY <1>7, <2>2 DEF Midnight, ledger, Account!NextDay, Account!Next, Call
<1>8. CASE Restart
  <2>1. \A t \in Threads : Call(t)' = [Call(t) EXCEPT !.state = "idle"]
    BY <1>8 DEF Restart, locals, Call, CallState
  <2>2. C' = [t \in Threads |-> [C[t] EXCEPT !.state = "idle"]]
    BY <2>1
  <2>3. UNCHANGED used \/ (~Durable /\ used' = [k \in Keys |-> 0])
    BY <1>8 DEF Restart, ledger
  <2>4. UNCHANGED used \/ (~Durable /\ used' = [k \in Users \X Account!CalendarDays |-> 0])
    BY <1>b, <2>3
  <2>5. UNCHANGED clock
    BY <1>8 DEF Restart
  <2>6. Account!Restart
    BY <2>2, <2>4, <2>5 DEF Account!Restart, Call
  <2>7. QED
    BY <2>6 DEF Account!Next
<1>9. CASE UNCHANGED vars
  BY <1>9 DEF vars, Account!vars, CallState
<1>10. QED
  BY <1>1, <1>2, <1>3, <1>4, <1>5, <1>6, <1>7, <1>8, <1>9 DEF Next, Step, Account!Next

\* try_spend, with its retries, insert races, midnights and restarts, is one
\* atomic grant or refusal per call: it implements CreditAccount.
THEOREM ImplementsAtomicAccount == Spec => ImplementsAccount
<1>1. Spec => Account!Init /\ [][Account!Next]_Account!vars
  BY InitRefines, StepRefines, Inductive, PTL DEF Spec
<1>2. QED
  BY <1>1, PTL DEF ImplementsAccount, Account!Spec
=============================================================================
