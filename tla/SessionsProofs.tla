--------------------------- MODULE SessionsProofs ---------------------------
(***************************************************************************)
(* Proofs, for every number of tabs, calls, tokens and users, of the safety *)
(* properties of Sessions.                                                  *)
(*                                                                         *)
(* LiveTokenIsStored is not inductive: a token that is on its way to a tab,  *)
(* in the answer of a refresh or of a sign-in, will be stored and captured   *)
(* by that tab's timer when it arrives, so it must be known that nobody      *)
(* holds or presents it before, and that its session has no other live       *)
(* token, even if it was itself ended on the way.                            *)
(***************************************************************************)
EXTENDS Sessions, TLAPS

Issued == {t \in Tokens : status[t] # "unissued"}

TableTypes ==
  /\ status \in [Tokens -> {"unissued", "active", "revoked"}]
  /\ root \in [Tokens -> Tokens]
  /\ call \in [Calls -> [op : {"none", "refresh", "logout"}, token : Tokens \cup {Garbage},
                         state : {"idle", "asked", "answered"},
                         answer : {"none", "ok", "rejected", "failed"},
                         new : Tokens \cup {NoToken}]]

\* A token descends from a sign-in of the same user.
RootsIssued == \A t \in Issued : root[t] \in Issued /\ Owner[root[t]] = Owner[t]

OneLive ==
  \A s, t \in Tokens : status[s] = "active" /\ status[t] = "active" /\ root[s] = root[t] => s = t

\* The browser holds tokens it was given.
HeldIssued ==
  /\ stored \in Issued \cup {NoToken}
  /\ \A b \in Tabs : timer[b] \in Issued \cup {NoToken}

\* What is known of a call at each of its stages.
CallInv(c) ==
  /\ call[c].token \in Issued \cup {Garbage}
  /\ call[c].state # "answered" => call[c].new = NoToken
  /\ call[c].state = "answered" /\ call[c].op = "refresh" /\ call[c].answer = "ok" =>
       call[c].new # NoToken
  /\ waiting[c] # NoOne => call[c].state # "idle"
  /\ waiting[c] # NoOne /\ waiting[c].kind # "logout" => call[c].op = "refresh"

\* n is in nobody's hands, and if it is no longer live its session is over.
InNoHands(n) ==
  /\ n \in Issued
  /\ n # stored
  /\ \A b \in Tabs : n # timer[b]
  /\ \A d \in Calls : n # call[d].token
  /\ status[n] = "active" \/ \A t \in Tokens : root[t] = root[n] => status[t] # "active"

\* Only the answer of call c carries n.
OnItsWay(c, n) ==
  /\ InNoHands(n)
  /\ \A d \in Calls : d # c => n # call[d].new
  /\ \A b \in Tabs : n # entry[b].new

\* Only the sign-in of tab b carries n.
EntryOnItsWay(b, n) ==
  /\ InNoHands(n)
  /\ \A c \in Calls : n # call[c].new
  /\ \A d \in Tabs : d # b => n # entry[d].new

CallsCarry == \A c \in Calls : call[c].new # NoToken => OnItsWay(c, call[c].new)

EntriesCarry == \A b \in Tabs : entry[b].new # NoToken => EntryOnItsWay(b, entry[b].new)

IInv ==
  /\ TableTypes /\ ClientTypeOK
  /\ RootsIssued /\ OneLive /\ HeldIssued
  /\ \A c \in Calls : CallInv(c)
  /\ CallsCarry /\ EntriesCarry
  /\ LiveTokenIsStored

-----------------------------------------------------------------------------

LEMMA InitIInv == SessionInit => IInv
<1> USE TokenAssumption
<1> SUFFICES ASSUME SessionInit PROVE IInv
  OBVIOUS
<1>1. TableTypes /\ ClientTypeOK
  BY DEF SessionInit, Init, ClientInit, TableTypes, ClientTypeOK, Idle, NoEntry
<1>2. RootsIssued /\ OneLive /\ HeldIssued /\ LiveTokenIsStored
  BY DEF SessionInit, Init, ClientInit, RootsIssued, OneLive, HeldIssued, Issued, LiveTokenIsStored
<1>3. /\ \A c \in Calls : CallInv(c) /\ call[c].new = NoToken
      /\ \A b \in Tabs : entry[b].new = NoToken
  BY DEF SessionInit, Init, ClientInit, CallInv, Idle, NoEntry
<1>4. QED
  BY <1>1, <1>2, <1>3 DEF IInv, CallsCarry, EntriesCarry

\* A step that neither issues nor ends a token, hands out none, and asks for
\* nothing: answers may be dropped, and what the browser holds forgotten.
LEMMA QuietStep ==
  ASSUME IInv, ClientTypeOK', UNCHANGED <<status, root>>,
         call' \in [Calls -> {call[c] : c \in Calls} \cup {Idle}],
         \A c \in Calls : \/ call'[c] = call[c] /\ waiting'[c] \in {waiting[c], NoOne}
                          \/ call'[c] = Idle /\ waiting'[c] = NoOne,
         stored' \in {stored, NoToken},
         \A b \in Tabs : timer'[b] \in {timer[b], NoToken} /\ entry'[b].new \in {entry[b].new, NoToken}
  PROVE  IInv'
<1> USE TokenAssumption
<1>1. Issued' = Issued
  BY DEF Issued
<1>2. TableTypes'
  BY DEF IInv, TableTypes, Idle
<1>3. RootsIssued' /\ OneLive' /\ HeldIssued'
  BY <1>1 DEF IInv, RootsIssued, OneLive, HeldIssued
<1>4. LiveTokenIsStored'
  BY DEF IInv, LiveTokenIsStored
<1>5. ASSUME NEW c \in Calls PROVE CallInv(c)'
  <2>1. CASE call'[c] = call[c] /\ waiting'[c] \in {waiting[c], NoOne}
    BY <1>1, <2>1 DEF IInv, CallInv
  <2>2. CASE call'[c] = Idle /\ waiting'[c] = NoOne
    BY <2>2 DEF CallInv, Idle
  <2>3. QED
    BY <2>1, <2>2
<1>6. \A d \in Calls : call'[d].token \in {call[d].token, Garbage} /\ call'[d].new \in {call[d].new, NoToken}
  BY DEF Idle
<1>7. ASSUME NEW n \in Tokens, InNoHands(n) PROVE InNoHands(n)'
  BY <1>1, <1>6, <1>7 DEF InNoHands
<1>8. CallsCarry'
  <2> SUFFICES ASSUME NEW c \in Calls, call'[c].new # NoToken PROVE OnItsWay(c, call[c].new)'
    BY DEF CallsCarry
  <2>1. call'[c] = call[c]
    BY DEF Idle
  <2>2. OnItsWay(c, call[c].new) /\ call[c].new \in Tokens
    BY <2>1 DEF IInv, CallsCarry, OnItsWay, InNoHands, Issued
  <2>3. QED
    BY <1>6, <1>7, <2>1, <2>2 DEF OnItsWay
<1>9. EntriesCarry'
  <2> SUFFICES ASSUME NEW b \in Tabs, entry'[b].new # NoToken PROVE EntryOnItsWay(b, entry[b].new)'
    BY DEF EntriesCarry
  <2>1. entry'[b].new = entry[b].new
    OBVIOUS
  <2>2. EntryOnItsWay(b, entry[b].new) /\ entry[b].new \in Tokens
    BY <2>1 DEF IInv, EntriesCarry, EntryOnItsWay, InNoHands, Issued
  <2>3. QED
    BY <1>6, <1>7, <2>1, <2>2 DEF EntryOnItsWay
<1>10. QED
  BY <1>2, <1>3, <1>4, <1>5, <1>8, <1>9 DEF IInv

\* A step that presents a token the browser holds.
LEMMA AskStep ==
  ASSUME IInv, ClientTypeOK', NEW c \in Calls, NEW op \in {"refresh", "logout"},
         NEW t \in Issued, t = stored \/ \E b \in Tabs : t = timer[b],
         Ask(c, op, t),
         waiting'[c].kind # "logout" => op = "refresh",
         \A d \in Calls \ {c} : waiting'[d] \in {waiting[d], NoOne},
         stored' \in {stored, NoToken},
         \A b \in Tabs : timer'[b] \in {timer[b], NoToken} /\ entry'[b].new \in {entry[b].new, NoToken}
  PROVE  IInv'
<1> USE TokenAssumption
<1>1. /\ Issued' = Issued
      /\ call[c].state = "idle"
      /\ call' = [call EXCEPT ![c] = Asked(op, t)]
      /\ UNCHANGED <<status, root>>
  BY DEF Ask, Issued
<1>2. TableTypes'
  BY <1>1 DEF IInv, TableTypes, Asked, Issued
<1>3. RootsIssued' /\ OneLive' /\ HeldIssued'
  BY <1>1 DEF IInv, RootsIssued, OneLive, HeldIssued
<1>4. LiveTokenIsStored'
  BY <1>1 DEF IInv, LiveTokenIsStored
<1>5. /\ call'[c] = Asked(op, t)
      /\ \A d \in Calls \ {c} : call'[d] = call[d]
  BY <1>1 DEF IInv, TableTypes
<1>6. ASSUME NEW d \in Calls PROVE CallInv(d)'
  <2>1. CASE d = c
    BY <1>1, <1>5, <2>1 DEF CallInv, Asked
  <2>2. CASE d # c
    BY <1>1, <1>5, <2>2 DEF IInv, CallInv
  <2>3. QED
    BY <2>1, <2>2
<1>7. \A e \in Calls : call'[e].token \in {call[e].token, t} /\ call'[e].new \in {call[e].new, NoToken}
  BY <1>5 DEF Asked
<1>8. ASSUME NEW n \in Tokens, InNoHands(n) PROVE InNoHands(n)'
  BY <1>1, <1>7, <1>8 DEF InNoHands
<1>9. CallsCarry'
  <2> SUFFICES ASSUME NEW d \in Calls, call'[d].new # NoToken PROVE OnItsWay(d, call[d].new)'
    BY DEF CallsCarry
  <2>1. d # c /\ call'[d] = call[d]
    BY <1>5 DEF Asked
  <2>2. OnItsWay(d, call[d].new) /\ call[d].new \in Tokens
    BY <2>1 DEF IInv, CallsCarry, OnItsWay, InNoHands, Issued
  <2>3. QED
    BY <1>7, <1>8, <2>1, <2>2 DEF OnItsWay
<1>10. EntriesCarry'
  <2> SUFFICES ASSUME NEW b \in Tabs, entry'[b].new # NoToken PROVE EntryOnItsWay(b, entry[b].new)'
    BY DEF EntriesCarry
  <2>1. entry'[b].new = entry[b].new
    OBVIOUS
  <2>2. EntryOnItsWay(b, entry[b].new) /\ entry[b].new \in Tokens
    BY <2>1 DEF IInv, EntriesCarry, EntryOnItsWay, InNoHands, Issued
  <2>3. QED
    BY <1>7, <1>8, <2>1, <2>2 DEF EntryOnItsWay
<1>11. QED
  BY <1>2, <1>3, <1>4, <1>6, <1>9, <1>10 DEF IInv

-----------------------------------------------------------------------------
\* The browser's tasks.

LEMMA LogInIInv == ASSUME IInv, NEW b \in Tabs, LogIn(b) PROVE IInv'
<1> USE TokenAssumption, SessionAssumption
<1>a. TableTypes /\ ClientTypeOK /\ RootsIssued /\ OneLive /\ HeldIssued
  BY DEF IInv
<1>1. PICK n \in Tokens : SignIn(n) /\ entry' = [entry EXCEPT ![b].new = n]
  BY DEF LogIn
<1>2. /\ status[n] = "unissued"
      /\ status' = [status EXCEPT ![n] = "active"]
      /\ root' = [root EXCEPT ![n] = n]
      /\ UNCHANGED <<call, waiting, user, stale, stored, timer, asking, retrying, wanted>>
      /\ entry' = [entry EXCEPT ![b].new = n]
  BY <1>1 DEF LogIn, SignIn
<1>3. Issued' = Issued \cup {n} /\ n \notin Issued
  BY <1>2, <1>a DEF Issued, TableTypes
<1>4. \A t \in Issued : root'[t] = root[t] /\ status'[t] = status[t] /\ root[t] # n
  BY <1>2, <1>3, <1>a DEF TableTypes, Issued, RootsIssued
<1>5. \A t \in Tokens : status'[t] = "active" => t = n \/ (t \in Issued /\ status[t] = "active")
  BY <1>2, <1>a DEF TableTypes, Issued
<1>6. root'[n] = n /\ status'[n] = "active"
  BY <1>2, <1>a DEF TableTypes
<1>7. TableTypes' /\ ClientTypeOK'
  BY <1>2, <1>a DEF TableTypes, ClientTypeOK
<1>8. RootsIssued' /\ HeldIssued'
  BY <1>2, <1>3, <1>4, <1>6, <1>a DEF RootsIssued, HeldIssued, ClientTypeOK
<1>9. OneLive'
  BY <1>4, <1>5, <1>6, <1>a DEF OneLive, Issued
<1>10. LiveTokenIsStored'
  BY <1>2, <1>4, <1>a DEF IInv, LiveTokenIsStored, HeldIssued
<1>11. \A c \in Calls : CallInv(c)'
  BY <1>2, <1>3 DEF IInv, CallInv
<1>12. ASSUME NEW m \in Tokens, InNoHands(m) PROVE InNoHands(m)' /\ m # n
  <2>1. m \in Issued /\ m # n
    BY <1>3, <1>12 DEF InNoHands
  <2>2. status'[m] = status[m] /\ root'[m] = root[m] /\ root[m] # n
    BY <1>4, <2>1
  <2>3. \A t \in Tokens : root'[t] = root[m] /\ status'[t] = "active" =>
          root[t] = root[m] /\ status[t] = "active"
    BY <1>4, <1>5, <1>6, <2>2
  <2>4. QED
    BY <1>2, <1>3, <1>12, <2>1, <2>2, <2>3 DEF InNoHands
<1>13. \A d \in Tabs : entry'[d].new = IF d = b THEN n ELSE entry[d].new
  BY <1>2, <1>a DEF ClientTypeOK
<1>14. CallsCarry'
  <2> SUFFICES ASSUME NEW c \in Calls, call[c].new # NoToken PROVE OnItsWay(c, call[c].new)'
    BY <1>2 DEF CallsCarry
  <2>1. OnItsWay(c, call[c].new) /\ call[c].new \in Tokens
    BY DEF IInv, CallsCarry, OnItsWay, InNoHands, Issued
  <2>2. QED
    BY <1>2, <1>12, <1>13, <2>1 DEF OnItsWay
<1>15. InNoHands(n)'
  <2>1. n # stored /\ (\A d \in Tabs : n # timer[d]) /\ \A c \in Calls : n # call[c].token
    BY <1>3, <1>a DEF IInv, HeldIssued, CallInv
  <2>2. QED
    BY <1>2, <1>3, <1>6, <2>1 DEF InNoHands
<1>16. EntriesCarry'
  <2> SUFFICES ASSUME NEW d \in Tabs, entry'[d].new # NoToken PROVE EntryOnItsWay(d, entry[d].new)'
    BY DEF EntriesCarry
  <2>1. \A e \in Tabs : entry[e].new # NoToken => entry[e].new \in Tokens /\ InNoHands(entry[e].new)
    BY DEF IInv, EntriesCarry, EntryOnItsWay, InNoHands, Issued
  <2>2. \A e \in Calls : call[e].new # n
    BY <1>3 DEF IInv, CallsCarry, OnItsWay, InNoHands, Issued
  <2>3. CASE d = b
    BY <1>2, <1>12, <1>13, <1>15, <2>1, <2>2, <2>3 DEF EntryOnItsWay
  <2>4. CASE d # b
    BY <1>2, <1>12, <1>13, <2>1, <2>4 DEF IInv, EntriesCarry, EntryOnItsWay
  <2>5. QED
    BY <2>3, <2>4
<1>17. QED
  BY <1>7, <1>8, <1>9, <1>10, <1>11, <1>14, <1>16 DEF IInv

LEMMA TimerFiresIInv == ASSUME IInv, NEW b \in Tabs, TimerFires(b) PROVE IInv'
<1> USE TokenAssumption, SessionAssumption
<1>a. TableTypes /\ ClientTypeOK /\ HeldIssued
  BY DEF IInv
<1>1. PICK c \in Calls :
        /\ Ask(c, "refresh", timer[b])
        /\ waiting' = [waiting EXCEPT ![c] = [tab |-> b, kind |-> "timer"]]
  BY DEF TimerFires, Fetch
<1>2. /\ timer[b] \in Issued
      /\ timer' = [timer EXCEPT ![b] = NoToken]
      /\ UNCHANGED <<stored, user, stale, entry, asking, retrying, wanted>>
  BY <1>a DEF TimerFires, HeldIssued, awaits
<1>3. ClientTypeOK'
  BY <1>1, <1>2, <1>a DEF ClientTypeOK
<1>4. /\ \A d \in Tabs : timer'[d] \in {timer[d], NoToken}
      /\ \A d \in Calls \ {c} : waiting'[d] \in {waiting[d], NoOne}
      /\ waiting'[c].kind = "timer"
  BY <1>1, <1>2, <1>a DEF ClientTypeOK
<1>5. QED
  BY <1>1, <1>2, <1>3, <1>4, AskStep

LEMMA AccessExpiresIInv == ASSUME IInv, NEW b \in Tabs, AccessExpires(b) PROVE IInv'
<1>1. /\ UNCHANGED <<vars, stored, user, timer, waiting, entry, asking, retrying, wanted>>
      /\ stale' = stale \cup {b} /\ user[b] # Nobody
  BY DEF AccessExpires, awaits
<1>2. ClientTypeOK'
  BY <1>1 DEF IInv, ClientTypeOK
<1>3. call' \in [Calls -> {call[c] : c \in Calls} \cup {Idle}]
  BY <1>1 DEF vars, IInv, TableTypes
<1>4. QED
  BY <1>1, <1>2, <1>3, QuietStep DEF vars

LEMMA RunAuthedIInv == ASSUME IInv, NEW b \in Tabs, RunAuthed(b) PROVE IInv'
<1> USE TokenAssumption, SessionAssumption
<1>a. TableTypes /\ ClientTypeOK /\ HeldIssued
  BY DEF IInv
<1>1. CASE stored = NoToken
  <2>1. ClearSession(b) /\ UNCHANGED <<vars, waiting, entry, retrying, wanted>> /\ asking' = asking \ {b}
    BY <1>1 DEF RunAuthed
  <2>2. ClientTypeOK'
    BY <2>1, <1>a DEF ClientTypeOK, ClearSession
  <2>3. /\ call' \in [Calls -> {call[c] : c \in Calls} \cup {Idle}]
        /\ \A d \in Tabs : timer'[d] \in {timer[d], NoToken}
    BY <2>1, <1>a DEF vars, TableTypes, ClearSession, ClientTypeOK
  <2>4. QED
    BY <2>1, <2>2, <2>3, QuietStep DEF vars, ClearSession
<1>2. CASE stored # NoToken
  <2>1. PICK c \in Calls :
          /\ Ask(c, "refresh", stored)
          /\ waiting' = [waiting EXCEPT ![c] = [tab |-> b, kind |-> "run"]]
    BY <1>2 DEF RunAuthed, Fetch
  <2>2. /\ stored \in Issued /\ UNCHANGED <<stored, user, stale, timer, entry, retrying, wanted>>
        /\ asking' = asking \ {b}
    BY <1>2, <1>a DEF RunAuthed, HeldIssued
  <2>3. ClientTypeOK'
    BY <2>1, <2>2, <1>a DEF ClientTypeOK
  <2>4. (\A d \in Calls \ {c} : waiting'[d] \in {waiting[d], NoOne}) /\ waiting'[c].kind = "run"
    BY <2>1, <1>a DEF ClientTypeOK
  <2>5. QED
    BY <2>1, <2>2, <2>3, <2>4, AskStep
<1>3. QED
  BY <1>1, <1>2

LEMMA MountIInv == ASSUME IInv, NEW b \in Tabs, Mount(b) PROVE IInv'
<1> USE TokenAssumption, SessionAssumption
<1>a. TableTypes /\ ClientTypeOK /\ HeldIssued
  BY DEF IInv
<1>1. /\ user' = [user EXCEPT ![b] = Nobody] /\ stale' = stale \ {b}
      /\ timer' = [timer EXCEPT ![b] = NoToken]
      /\ entry' = [entry EXCEPT ![b] = NoEntry]
      /\ asking' = asking \ {b} /\ retrying' = retrying \ {b}
      /\ UNCHANGED <<stored, wanted>>
      /\ \A d \in Tabs : timer'[d] \in {timer[d], NoToken} /\ entry'[d].new \in {entry[d].new, NoToken}
  BY <1>a DEF Mount, Unload, ClientTypeOK, NoEntry
<1>2. WithoutTab(b) \in [Calls -> [tab : Tabs, kind : {"timer", "run", "mount", "logout"}] \cup {NoOne}]
      /\ \A d \in Calls : WithoutTab(b)[d] \in {waiting[d], NoOne}
  BY <1>a DEF ClientTypeOK, WithoutTab
<1>3. CASE stored = NoToken
  <2>1. waiting' = WithoutTab(b) /\ UNCHANGED vars
    BY <1>3 DEF Mount
  <2>2. ClientTypeOK'
    BY <1>1, <1>2, <2>1, <1>a DEF ClientTypeOK, NoEntry
  <2>3. call' \in [Calls -> {call[c] : c \in Calls} \cup {Idle}]
    BY <2>1, <1>a DEF vars, TableTypes
  <2>4. QED
    BY <1>1, <1>2, <2>1, <2>2, <2>3, QuietStep DEF vars
<1>4. CASE stored # NoToken
  <2>1. PICK c \in Calls :
          /\ Ask(c, "refresh", stored)
          /\ waiting' = [WithoutTab(b) EXCEPT ![c] = [tab |-> b, kind |-> "mount"]]
    BY <1>4 DEF Mount
  <2>2. stored \in Issued
    BY <1>4, <1>a DEF HeldIssued
  <2>3. ClientTypeOK'
    BY <1>1, <1>2, <2>1, <1>a DEF ClientTypeOK, NoEntry
  <2>4. (\A d \in Calls \ {c} : waiting'[d] \in {waiting[d], NoOne}) /\ waiting'[c].kind = "mount"
    BY <1>2, <2>1
  <2>5. QED
    BY <1>1, <2>1, <2>2, <2>3, <2>4, AskStep
<1>5. QED
  BY <1>3, <1>4

\* What a tab awaits may begin, or be given up, without touching a token.
LEMMA AwaitIInv ==
  ASSUME IInv, NEW b \in Tabs,
         SubmitLogIn(b) \/ LogInFails(b) \/ CallApi(b) \/ CallEnds(b)
  PROVE  IInv'
<1> USE TokenAssumption
<1>a. TableTypes /\ ClientTypeOK
  BY DEF IInv
<1>1. /\ UNCHANGED <<vars, stored, user, stale, timer, waiting, wanted>>
      /\ asking' \subseteq asking \cup {b} /\ retrying' \subseteq retrying
  BY DEF SubmitLogIn, LogInFails, CallApi, CallEnds
<1>2. /\ entry' \in [Tabs -> [kind : {"none", "form", "fragment"}, new : Tokens \cup {NoToken}]]
      /\ \A d \in Tabs : entry'[d].new \in {entry[d].new, NoToken}
  BY <1>a DEF SubmitLogIn, LogInFails, CallApi, CallEnds, ClientTypeOK, NoEntry
<1>3. ClientTypeOK'
  BY <1>1, <1>2, <1>a DEF ClientTypeOK
<1>4. call' \in [Calls -> {call[c] : c \in Calls} \cup {Idle}]
  BY <1>1, <1>a DEF vars, TableTypes
<1>5. QED
  BY <1>1, <1>2, <1>3, <1>4, QuietStep DEF vars

LEMMA LeaveForGoogleIInv == ASSUME IInv, NEW b \in Tabs, LeaveForGoogle(b) PROVE IInv'
<1> USE TokenAssumption
<1>a. TableTypes /\ ClientTypeOK
  BY DEF IInv
<1>1. /\ UNCHANGED <<vars, stored, user, stale, wanted>>
      /\ timer' = [timer EXCEPT ![b] = NoToken]
      /\ entry' = [entry EXCEPT ![b] = [kind |-> "fragment", new |-> NoToken]]
      /\ asking' = asking \ {b} /\ retrying' = retrying \ {b}
      /\ waiting' = WithoutTab(b)
  BY DEF LeaveForGoogle, Unload
<1>2. /\ \A d \in Calls : waiting'[d] \in {waiting[d], NoOne}
      /\ \A d \in Tabs : timer'[d] \in {timer[d], NoToken} /\ entry'[d].new \in {entry[d].new, NoToken}
  BY <1>1, <1>a DEF WithoutTab, ClientTypeOK
<1>3. ClientTypeOK'
  BY <1>1, <1>2, <1>a DEF ClientTypeOK, WithoutTab
<1>4. call' \in [Calls -> {call[c] : c \in Calls} \cup {Idle}]
  BY <1>1, <1>a DEF vars, TableTypes
<1>5. QED
  BY <1>1, <1>2, <1>3, <1>4, QuietStep DEF vars

LEMMA RetryRefusedIInv == ASSUME IInv, NEW b \in Tabs, RetryRefused(b) PROVE IInv'
<1> USE TokenAssumption, SessionAssumption
<1>a. TableTypes /\ ClientTypeOK
  BY DEF IInv
<1>1. ClearSession(b) /\ UNCHANGED <<vars, waiting, entry, asking, wanted>> /\ retrying' = retrying \ {b}
  BY DEF RetryRefused
<1>2. ClientTypeOK' /\ \A d \in Tabs : timer'[d] \in {timer[d], NoToken}
  BY <1>1, <1>a DEF ClientTypeOK, ClearSession
<1>3. call' \in [Calls -> {call[c] : c \in Calls} \cup {Idle}]
  BY <1>1, <1>a DEF vars, TableTypes
<1>4. QED
  BY <1>1, <1>2, <1>3, QuietStep DEF vars, ClearSession

LEMMA LogOutIInv == ASSUME IInv, NEW b \in Tabs, LogOut(b) PROVE IInv'
<1> USE TokenAssumption, SessionAssumption
<1>a. TableTypes /\ ClientTypeOK /\ HeldIssued
  BY DEF IInv
<1>1. /\ user' = [user EXCEPT ![b] = Nobody] /\ stale' = stale \ {b}
      /\ timer' = [timer EXCEPT ![b] = NoToken]
      /\ stored' = NoToken /\ wanted' = FALSE
      /\ UNCHANGED <<entry, asking, retrying>>
      /\ \A d \in Tabs : timer'[d] \in {timer[d], NoToken}
  BY <1>a DEF LogOut, ClearSession, ClientTypeOK, awaits
<1>2. CASE stored = NoToken
  <2>1. UNCHANGED <<vars, waiting>>
    BY <1>2 DEF LogOut
  <2>2. ClientTypeOK'
    BY <1>1, <2>1, <1>a DEF ClientTypeOK
  <2>3. call' \in [Calls -> {call[c] : c \in Calls} \cup {Idle}]
    BY <2>1, <1>a DEF vars, TableTypes
  <2>4. QED
    BY <1>1, <2>1, <2>2, <2>3, QuietStep DEF vars
<1>3. CASE stored # NoToken
  <2>1. PICK c \in Calls :
          /\ Ask(c, "logout", stored)
          /\ waiting' = [waiting EXCEPT ![c] = [tab |-> b, kind |-> "logout"]]
    BY <1>3 DEF LogOut, Fetch
  <2>2. stored \in Issued
    BY <1>3, <1>a DEF HeldIssued
  <2>3. ClientTypeOK'
    BY <1>1, <2>1, <1>a DEF ClientTypeOK
  <2>4. (\A d \in Calls \ {c} : waiting'[d] \in {waiting[d], NoOne}) /\ waiting'[c].kind = "logout"
    BY <2>1, <1>a DEF ClientTypeOK
  <2>5. QED
    BY <1>1, <2>1, <2>2, <2>3, <2>4, AskStep
<1>4. QED
  BY <1>2, <1>3

-----------------------------------------------------------------------------
\* Answers, and what never arrives.

LEMMA ConnectionLostIInv == ASSUME IInv, NEW c \in Calls, ConnectionLost(c) PROVE IInv'
<1>1. /\ waiting' = [waiting EXCEPT ![c] = NoOne]
      /\ UNCHANGED <<vars, stored, user, stale, timer, entry, asking, retrying, wanted>>
  BY DEF ConnectionLost, awaits
<1>2. ClientTypeOK' /\ \A d \in Calls : waiting'[d] \in {waiting[d], NoOne}
  BY <1>1 DEF IInv, ClientTypeOK
<1>3. call' \in [Calls -> {call[d] : d \in Calls} \cup {Idle}]
  BY <1>1 DEF vars, IInv, TableTypes
<1>4. QED
  BY <1>1, <1>2, <1>3, QuietStep DEF vars

LEMMA MonthPassesIInv == ASSUME IInv, NEW t \in Tokens, MonthPasses(t) PROVE IInv'
<1>1. UNCHANGED <<status, root, call, client>>
  BY DEF MonthPasses, Expire
<1>2. ClientTypeOK'
  BY <1>1 DEF IInv, ClientTypeOK, client, awaits
<1>3. call' \in [Calls -> {call[c] : c \in Calls} \cup {Idle}]
  BY <1>1 DEF IInv, TableTypes
<1>4. QED
  BY <1>1, <1>2, <1>3, QuietStep DEF client, awaits

\* Tab b applies the session of a token that was on its way.
LEMMA SessionArrives ==
  ASSUME IInv, ClientTypeOK', NEW b \in Tabs, NEW n \in Tokens, InNoHands(n),
         ApplySession(b, n), UNCHANGED <<status, root>>,
         call' \in [Calls -> {call[c] : c \in Calls} \cup {Idle}],
         \A c \in Calls : /\ call'[c].new # n
                          /\ \/ call'[c] = call[c] /\ waiting'[c] = waiting[c]
                             \/ call'[c] = Idle /\ waiting'[c] = NoOne,
         \A d \in Tabs : entry'[d].new \in {entry[d].new, NoToken} /\ entry'[d].new # n
  PROVE  IInv'
<1> USE TokenAssumption
<1>a. TableTypes /\ ClientTypeOK /\ HeldIssued /\ OneLive
  BY DEF IInv
<1>1. stored' = n /\ timer' = [timer EXCEPT ![b] = n] /\ n \in Issued
  BY DEF ApplySession, InNoHands
<1>2. Issued' = Issued
  BY DEF Issued
<1>3. TableTypes'
  BY <1>a DEF TableTypes, Idle
<1>4. RootsIssued' /\ OneLive' /\ HeldIssued'
  BY <1>1, <1>2, <1>a DEF IInv, RootsIssued, OneLive, HeldIssued, ClientTypeOK
<1>5. LiveTokenIsStored'
  <2>1. ASSUME NEW d \in Tabs, timer'[d] # NoToken, timer'[d] # n,
               status[timer'[d]] = "active", root[n] = root[timer'[d]]
        PROVE FALSE
    <3>1. timer'[d] = timer[d] /\ timer[d] \in Tokens
      BY <1>1, <1>a, <2>1 DEF ClientTypeOK
    <3>2. status[n] = "active"
      BY <2>1, <3>1 DEF InNoHands
    <3>3. QED
      BY <1>a, <2>1, <3>1, <3>2 DEF OneLive
  <2>2. QED
    BY <1>1, <2>1 DEF LiveTokenIsStored
<1>6. \A d \in Calls : CallInv(d)'
  BY <1>2 DEF IInv, CallInv, Idle
<1>7. \A e \in Calls : call'[e].token \in {call[e].token, Garbage} /\ call'[e].new \in {call[e].new, NoToken}
  BY DEF Idle
<1>8. ASSUME NEW m \in Tokens, m # n, InNoHands(m) PROVE InNoHands(m)'
  <2>1. \A e \in Tabs : timer'[e] \in {timer[e], n}
    BY <1>1, <1>a DEF ClientTypeOK
  <2>2. QED
    BY <1>1, <1>2, <1>7, <1>8, <2>1 DEF InNoHands
<1>9. CallsCarry'
  <2> SUFFICES ASSUME NEW d \in Calls, call'[d].new # NoToken PROVE OnItsWay(d, call[d].new)'
    BY DEF CallsCarry
  <2>1. call'[d].new = call[d].new /\ call[d].new # n
    BY <1>7
  <2>2. OnItsWay(d, call[d].new) /\ call[d].new \in Tokens
    BY <2>1 DEF IInv, CallsCarry, OnItsWay, InNoHands, Issued
  <2>3. QED
    BY <1>7, <1>8, <2>1, <2>2 DEF OnItsWay
<1>10. EntriesCarry'
  <2> SUFFICES ASSUME NEW d \in Tabs, entry'[d].new # NoToken PROVE EntryOnItsWay(d, entry[d].new)'
    BY DEF EntriesCarry
  <2>1. entry'[d].new = entry[d].new /\ entry[d].new # n
    OBVIOUS
  <2>2. EntryOnItsWay(d, entry[d].new) /\ entry[d].new \in Tokens
    BY <2>1 DEF IInv, EntriesCarry, EntryOnItsWay, InNoHands, Issued
  <2>3. QED
    BY <1>7, <1>8, <2>1, <2>2 DEF EntryOnItsWay
<1>11. QED
  BY <1>3, <1>4, <1>5, <1>6, <1>9, <1>10 DEF IInv

LEMMA LogInArrivesIInv == ASSUME IInv, NEW b \in Tabs, LogInArrives(b) PROVE IInv'
<1> USE TokenAssumption, SessionAssumption
<1> DEFINE n == entry[b].new
<1>a. TableTypes /\ ClientTypeOK
  BY DEF IInv
<1>1. /\ UNCHANGED <<vars, waiting, asking, retrying>>
      /\ ApplySession(b, n) /\ n # NoToken
      /\ entry' = [entry EXCEPT ![b] = NoEntry] /\ wanted' = TRUE
  BY DEF LogInArrives
<1>2. EntryOnItsWay(b, n) /\ n \in Tokens
  BY <1>1 DEF IInv, EntriesCarry, EntryOnItsWay, InNoHands, Issued
<1>3. ClientTypeOK'
  BY <1>1, <1>2, <1>a DEF ClientTypeOK, ApplySession, NoEntry
<1>4. /\ call' \in [Calls -> {call[c] : c \in Calls} \cup {Idle}]
      /\ \A c \in Calls : call'[c] = call[c] /\ waiting'[c] = waiting[c] /\ call'[c].new # n
  BY <1>1, <1>2, <1>a DEF vars, TableTypes, EntryOnItsWay
<1>5. \A d \in Tabs : entry'[d].new \in {entry[d].new, NoToken} /\ entry'[d].new # n
  BY <1>1, <1>2, <1>a DEF ClientTypeOK, NoEntry, EntryOnItsWay
<1>6. QED
  BY <1>1, <1>2, <1>3, <1>4, <1>5, SessionArrives DEF vars, EntryOnItsWay

\* Any other answer leaves the browser with what it has, or with less.
LEMMA DeliverIInv == ASSUME IInv, NEW c \in Calls, Deliver(c) PROVE IInv'
<1> USE TokenAssumption, SessionAssumption
<1>a. TableTypes /\ ClientTypeOK
  BY DEF IInv
<1>1. /\ call[c].state = "answered"
      /\ call' = [call EXCEPT ![c] = Idle]
      /\ waiting' = [waiting EXCEPT ![c] = NoOne]
      /\ UNCHANGED <<status, root, entry, asking, wanted>>
  BY DEF Deliver, Answer
<1>2. ASSUME ClientTypeOK', stored' \in {stored, NoToken},
             \A b \in Tabs : timer'[b] \in {timer[b], NoToken}
      PROVE IInv'
  <2>1. call' \in [Calls -> {call[d] : d \in Calls} \cup {Idle}]
    BY <1>1, <1>a DEF TableTypes
  <2>2. \A d \in Calls : \/ call'[d] = call[d] /\ waiting'[d] \in {waiting[d], NoOne}
                         \/ call'[d] = Idle /\ waiting'[d] = NoOne
    BY <1>1, <1>a DEF TableTypes, ClientTypeOK
  <2>3. QED
    BY <1>1, <1>2, <2>1, <2>2, QuietStep
<1>3. CASE UNCHANGED <<stored, user, stale, timer, retrying>>
  <2>1. ClientTypeOK'
    BY <1>1, <1>3, <1>a DEF ClientTypeOK
  <2>2. QED
    BY <1>2, <1>3, <2>1
<1>4. CASE waiting[c] # NoOne /\ ~UNCHANGED <<stored, user, stale, timer, retrying>>
  <2> DEFINE b == waiting[c].tab
  <2>1. b \in Tabs /\ waiting[c].kind \in {"timer", "run", "mount", "logout"}
    BY <1>4, <1>a DEF ClientTypeOK
  <2>2. Settle(b, waiting[c].kind, call[c].answer, call[c].new)
    BY <1>4 DEF Deliver
  <2>3. CASE /\ waiting[c].kind \in {"timer", "run", "mount"} /\ call[c].answer = "ok"
             /\ ApplySession(b, call[c].new) /\ retrying' \subseteq retrying \cup {b}
    <3> DEFINE n == call[c].new
    <3>1. n # NoToken
      BY <1>1, <1>4, <2>3 DEF IInv, CallInv
    <3>2. OnItsWay(c, n) /\ n \in Tokens
      BY <3>1 DEF IInv, CallsCarry, OnItsWay, InNoHands, Issued
    <3>3. ClientTypeOK'
      BY <1>1, <2>1, <2>3, <3>2, <1>a DEF ClientTypeOK, ApplySession
    <3>4. \A d \in Calls : /\ call'[d] = IF d = c THEN Idle ELSE call[d]
                           /\ waiting'[d] = IF d = c THEN NoOne ELSE waiting[d]
      BY <1>1, <1>a DEF TableTypes, ClientTypeOK
    <3>5. \A d \in Calls : call'[d].new # n
      BY <3>2, <3>4 DEF OnItsWay, Idle
    <3>6. call' \in [Calls -> {call[d] : d \in Calls} \cup {Idle}]
      BY <1>1, <1>a DEF TableTypes
    <3>7. \A d \in Tabs : entry'[d].new = entry[d].new /\ entry'[d].new # n
      BY <1>1, <3>2 DEF OnItsWay
    <3>8. InNoHands(n)
      BY <3>2 DEF OnItsWay
    <3>9. QED
      BY <1>1, <2>1, <2>3, <3>2, <3>3, <3>4, <3>5, <3>6, <3>7, <3>8, SessionArrives
  <2>4. CASE ClearSession(b) /\ UNCHANGED retrying
    <3>1. ClientTypeOK' /\ \A d \in Tabs : timer'[d] \in {timer[d], NoToken}
      BY <1>1, <2>1, <2>4, <1>a DEF ClientTypeOK, ClearSession
    <3>2. QED
      BY <1>2, <2>4, <3>1 DEF ClearSession
  <2>5. CASE stored' = NoToken /\ UNCHANGED <<user, stale, timer, retrying>>
    <3>1. ClientTypeOK'
      BY <1>1, <2>5, <1>a DEF ClientTypeOK
    <3>2. QED
      BY <1>2, <2>5, <3>1
  <2>6. QED
    BY <1>4, <2>2, <2>3, <2>4, <2>5 DEF Settle
<1>5. QED
  BY <1>3, <1>4 DEF Deliver

-----------------------------------------------------------------------------
\* The server.

\* Types of what an answer leaves behind, and what the other calls keep.
LEMMA ReplyFacts ==
  ASSUME TableTypes, NEW c \in Calls, NEW answer \in {"ok", "rejected", "failed"},
         NEW n \in Tokens \cup {NoToken}, Reply(c, answer, n)
  PROVE  /\ call'[c] = Answered(call[c], answer, n)
         /\ \A d \in Calls \ {c} : call'[d] = call[d]
         /\ \A d \in Calls : call'[d].token = call[d].token /\ call'[d].op = call[d].op
         /\ call' \in [Calls -> [op : {"none", "refresh", "logout"}, token : Tokens \cup {Garbage},
                                 state : {"idle", "asked", "answered"},
                                 answer : {"none", "ok", "rejected", "failed"},
                                 new : Tokens \cup {NoToken}]]
BY DEF TableTypes, Reply, Answered

\* An answer without a token, after which no token has become live.
LEMMA RefusalStep ==
  ASSUME IInv, NEW c \in Calls, NEW answer \in {"ok", "rejected", "failed"}, Reply(c, answer, NoToken),
         call[c].op = "logout" \/ answer # "ok",
         status' \in [Tokens -> {"unissued", "active", "revoked"}],
         \A t \in Tokens : status'[t] = status[t] \/ (t \in Issued /\ status'[t] = "revoked"),
         \A m \in Issued : InNoHands(m) /\ status'[m] # status[m] =>
           \A t \in Tokens : root[t] = root[m] => status'[t] # "active",
         UNCHANGED root, UNCHANGED client
  PROVE  IInv'
<1> USE TokenAssumption
<1>a. TableTypes /\ ClientTypeOK
  BY DEF IInv
<1>1. /\ call'[c] = Answered(call[c], answer, NoToken)
      /\ \A d \in Calls \ {c} : call'[d] = call[d]
      /\ \A d \in Calls : call'[d].token = call[d].token /\ call'[d].op = call[d].op
      /\ TableTypes'
  BY <1>a, ReplyFacts DEF TableTypes
<1>2. Issued' = Issued
  BY DEF Issued
<1>3. ClientTypeOK' /\ UNCHANGED <<stored, timer, waiting, entry>>
  BY <1>a DEF ClientTypeOK, client, awaits
<1>4. RootsIssued' /\ HeldIssued'
  BY <1>2, <1>3 DEF IInv, RootsIssued, HeldIssued
<1>5. OneLive'
  BY DEF IInv, OneLive
<1>6. LiveTokenIsStored'
  BY <1>3, <1>a DEF IInv, LiveTokenIsStored, ClientTypeOK
<1>7. ASSUME NEW d \in Calls PROVE CallInv(d)'
  <2>1. CASE d = c
    BY <1>1, <1>2, <1>3, <2>1 DEF IInv, CallInv, Answered
  <2>2. CASE d # c
    BY <1>1, <1>2, <1>3, <2>2 DEF IInv, CallInv
  <2>3. QED
    BY <2>1, <2>2
<1>8. \A e \in Calls : call'[e].new \in {call[e].new, NoToken}
  BY <1>1 DEF Answered
<1>9. ASSUME NEW m \in Tokens, InNoHands(m) PROVE InNoHands(m)'
  <2>1. status'[m] = "active" \/ \A t \in Tokens : root[t] = root[m] => status'[t] # "active"
    BY <1>9 DEF InNoHands
  <2>2. QED
    BY <1>1, <1>2, <1>3, <1>9, <2>1 DEF InNoHands
<1>10. CallsCarry'
  <2> SUFFICES ASSUME NEW d \in Calls, call'[d].new # NoToken PROVE OnItsWay(d, call[d].new)'
    BY DEF CallsCarry
  <2>1. d # c /\ call'[d] = call[d]
    BY <1>1 DEF Answered
  <2>2. OnItsWay(d, call[d].new) /\ call[d].new \in Tokens
    BY <2>1 DEF IInv, CallsCarry, OnItsWay, InNoHands, Issued
  <2>3. QED
    BY <1>3, <1>8, <1>9, <2>1, <2>2 DEF OnItsWay
<1>11. EntriesCarry'
  <2> SUFFICES ASSUME NEW b \in Tabs, entry[b].new # NoToken PROVE EntryOnItsWay(b, entry[b].new)'
    BY <1>3 DEF EntriesCarry
  <2>1. EntryOnItsWay(b, entry[b].new) /\ entry[b].new \in Tokens
    BY DEF IInv, EntriesCarry, EntryOnItsWay, InNoHands, Issued
  <2>2. QED
    BY <1>3, <1>8, <1>9, <2>1 DEF EntryOnItsWay
<1>12. QED
  BY <1>1, <1>3, <1>4, <1>5, <1>6, <1>7, <1>10, <1>11 DEF IInv

LEMMA RotateIInv ==
  ASSUME IInv, NEW c \in Calls, NEW n \in Tokens, Rotate(c, n), UNCHANGED client PROVE IInv'
<1> USE TokenAssumption, SessionAssumption
<1> DEFINE t == call[c].token
<1>a. TableTypes /\ ClientTypeOK /\ RootsIssued /\ OneLive /\ HeldIssued
  BY DEF IInv
<1>1. /\ call[c].state = "asked" /\ call[c].op = "refresh"
      /\ t \in Issued /\ status[t] = "active" /\ status[n] = "unissued" /\ Owner[n] = Owner[t]
      /\ status' = [status EXCEPT ![t] = "revoked", ![n] = "active"]
      /\ root' = [root EXCEPT ![n] = root[t]]
      /\ Reply(c, "ok", n)
  BY DEF Rotate, AskedTo, IInv, CallInv
<1>2. /\ call'[c] = Answered(call[c], "ok", n)
      /\ \A d \in Calls \ {c} : call'[d] = call[d]
      /\ \A d \in Calls : call'[d].token = call[d].token /\ call'[d].op = call[d].op
      /\ TableTypes'
  <2>1. /\ status' \in [Tokens -> {"unissued", "active", "revoked"}]
        /\ root' \in [Tokens -> Tokens]
    BY <1>1, <1>a DEF TableTypes, Issued
  <2>2. QED
    BY <1>1, <1>a, <2>1, ReplyFacts DEF TableTypes
<1>3. Issued' = Issued \cup {n} /\ n \notin Issued /\ t # n
  BY <1>1, <1>a DEF Issued, TableTypes
<1>4. /\ \A s \in Issued : root'[s] = root[s]
      /\ root'[n] = root[t] /\ status'[n] = "active" /\ status'[t] = "revoked"
      /\ \A s \in Tokens \ {t, n} : status'[s] = status[s] /\ root'[s] = root[s]
  BY <1>1, <1>3, <1>a DEF TableTypes, Issued
<1>5. ClientTypeOK' /\ UNCHANGED <<stored, timer, waiting, entry>>
  BY <1>a DEF ClientTypeOK, client, awaits
<1>6. RootsIssued' /\ HeldIssued'
  BY <1>1, <1>3, <1>4, <1>5, <1>a DEF RootsIssued, HeldIssued
<1>7. ASSUME NEW s \in Tokens, status'[s] = "active", s # n
      PROVE  status[s] = "active" /\ root[s] # root[t]
  <2>1. s # t
    BY <1>4, <1>7
  <2>2. status[s] = "active" /\ t \in Tokens
    BY <1>1, <1>4, <1>7, <2>1 DEF Issued
  <2>3. QED
    BY <1>1, <1>a, <2>1, <2>2 DEF OneLive
<1>8. OneLive'
  BY <1>3, <1>4, <1>7, <1>a DEF OneLive, Issued
<1>9. LiveTokenIsStored'
  BY <1>3, <1>4, <1>5, <1>a DEF IInv, LiveTokenIsStored, HeldIssued, Issued
<1>10. ASSUME NEW d \in Calls PROVE CallInv(d)'
  <2>1. CASE d = c
    BY <1>1, <1>2, <1>3, <1>5, <2>1 DEF IInv, CallInv, Answered
  <2>2. CASE d # c
    BY <1>2, <1>3, <1>5, <2>2 DEF IInv, CallInv
  <2>3. QED
    BY <2>1, <2>2
<1>11. OnItsWay(c, n)'
  <2>1. n # stored /\ \A b \in Tabs : n # timer[b]
    BY <1>3, <1>a DEF HeldIssued
  <2>2. \A d \in Calls : n # call[d].token /\ n # call[d].new
    BY <1>3 DEF IInv, CallInv, CallsCarry, OnItsWay, InNoHands
  <2>3. \A b \in Tabs : n # entry[b].new
    BY <1>3 DEF IInv, EntriesCarry, EntryOnItsWay, InNoHands
  <2>4. InNoHands(n)'
    BY <1>2, <1>3, <1>4, <1>5, <2>1, <2>2 DEF InNoHands
  <2>5. QED
    BY <1>2, <1>5, <2>2, <2>3, <2>4 DEF OnItsWay
<1>12. ASSUME NEW m \in Tokens, InNoHands(m) PROVE InNoHands(m)' /\ m # n
  <2>1. m \in Issued /\ m # n /\ m # t
    BY <1>3, <1>12 DEF InNoHands
  <2>2. status'[m] = status[m] /\ root'[m] = root[m]
    BY <1>4, <2>1
  <2>3. status[m] # "active" => root[m] # root[t]
    BY <1>1, <1>12 DEF InNoHands, Issued
  <2>4. status[m] # "active" => \A s \in Tokens : root'[s] = root[m] => status'[s] # "active"
    BY <1>4, <1>7, <1>12, <2>3 DEF InNoHands
  <2>5. QED
    BY <1>2, <1>3, <1>5, <1>12, <2>1, <2>2, <2>4 DEF InNoHands
<1>13. /\ call'[c].new = n
       /\ \A e \in Calls : call'[e].new \in {call[e].new, n}
  BY <1>2 DEF Answered
<1>14. CallsCarry'
  <2> SUFFICES ASSUME NEW d \in Calls, d # c, call'[d].new # NoToken PROVE OnItsWay(d, call[d].new)'
    BY <1>11, <1>13 DEF CallsCarry
  <2>1. call'[d] = call[d] /\ OnItsWay(d, call[d].new) /\ call[d].new \in Tokens
    BY <1>2 DEF IInv, CallsCarry, OnItsWay, InNoHands, Issued
  <2>2. QED
    BY <1>5, <1>12, <1>13, <2>1 DEF OnItsWay
<1>15. EntriesCarry'
  <2> SUFFICES ASSUME NEW b \in Tabs, entry[b].new # NoToken PROVE EntryOnItsWay(b, entry[b].new)'
    BY <1>5 DEF EntriesCarry
  <2>1. EntryOnItsWay(b, entry[b].new) /\ entry[b].new \in Tokens
    BY DEF IInv, EntriesCarry, EntryOnItsWay, InNoHands, Issued
  <2>2. QED
    BY <1>5, <1>12, <1>13, <2>1 DEF EntryOnItsWay
<1>16. QED
  BY <1>2, <1>5, <1>6, <1>8, <1>9, <1>10, <1>14, <1>15 DEF IInv

LEMMA ReuseIInv == ASSUME IInv, NEW c \in Calls, Reuse(c), UNCHANGED client PROVE IInv'
<1> USE TokenAssumption
<1> DEFINE u == Owner[call[c].token]
<1>a. TableTypes /\ RootsIssued
  BY DEF IInv
<1>1. /\ status' = [t \in Tokens |-> IF t \in LiveTokens(u) THEN "revoked" ELSE status[t]]
      /\ root' = root
      /\ Reply(c, "rejected", NoToken)
  BY DEF Reuse, EndSessions
<1>2. \A t \in Tokens : status'[t] = status[t] \/ (t \in Issued /\ status'[t] = "revoked")
  BY <1>1 DEF LiveTokens, Issued
<1>3. ASSUME NEW m \in Issued, status'[m] # status[m]
      PROVE \A t \in Tokens : root[t] = root[m] => status'[t] # "active"
  <2>1. Owner[m] = u
    BY <1>1, <1>3 DEF LiveTokens, Issued
  <2>2. \A t \in Issued : root[t] = root[m] => Owner[t] = u
    BY <1>a, <2>1 DEF RootsIssued
  <2>3. QED
    BY <1>1, <2>2 DEF LiveTokens, Issued
<1>4. status' \in [Tokens -> {"unissued", "active", "revoked"}]
  BY <1>1, <1>a DEF TableTypes
<1>5. QED
  BY <1>1, <1>2, <1>3, <1>4, RefusalStep

LEMMA RevokeIInv == ASSUME IInv, NEW c \in Calls, Revoke(c), UNCHANGED client PROVE IInv'
<1> USE TokenAssumption
<1> DEFINE t == call[c].token
<1>a. TableTypes
  BY DEF IInv
<1>1. /\ status' = IF t = Garbage THEN status ELSE [status EXCEPT ![t] = "revoked"]
      /\ root' = root /\ call[c].op = "logout"
      /\ Reply(c, "ok", NoToken)
  BY DEF Revoke, AskedTo
<1>2. t \in Issued \cup {Garbage}
  BY DEF IInv, CallInv
<1>3. /\ status' \in [Tokens -> {"unissued", "active", "revoked"}]
      /\ \A s \in Tokens : status'[s] = status[s] \/ (s \in Issued /\ status'[s] = "revoked")
      /\ \A s \in Tokens : s # t => status'[s] = status[s]
  BY <1>1, <1>2, <1>a DEF TableTypes, Issued
<1>4. \A m \in Issued : InNoHands(m) => status'[m] = status[m]
  BY <1>3 DEF InNoHands, Issued
<1>5. QED
  BY <1>1, <1>3, <1>4, RefusalStep

LEMMA ProcessIInv == ASSUME IInv, NEW c \in Calls, Process(c) PROVE IInv'
<1>1. UNCHANGED client
  BY DEF Process
<1>2. CASE \E n \in Tokens : Rotate(c, n)
  BY <1>1, <1>2, RotateIInv
<1>3. CASE Reuse(c)
  BY <1>1, <1>3, ReuseIInv
<1>4. CASE Reject(c) \/ Fail(c)
  <2>1. /\ UNCHANGED <<status, root>>
        /\ Reply(c, "rejected", NoToken) \/ Reply(c, "failed", NoToken)
    BY <1>4 DEF Reject, Fail
  <2>2. status' \in [Tokens -> {"unissued", "active", "revoked"}]
    BY <2>1 DEF IInv, TableTypes
  <2>3. QED
    BY <1>1, <2>1, <2>2, RefusalStep
<1>5. CASE Revoke(c)
  BY <1>1, <1>5, RevokeIInv
<1>6. QED
  BY <1>2, <1>3, <1>4, <1>5 DEF Process

LEMMA NextIInv == IInv /\ [SessionNext]_allVars => IInv'
<1> SUFFICES ASSUME IInv, [SessionNext]_allVars PROVE IInv'
  OBVIOUS
<1>1. ASSUME NEW b \in Tabs,
             \/ SubmitLogIn(b) \/ LeaveForGoogle(b) \/ LogIn(b) \/ LogInArrives(b) \/ LogInFails(b)
             \/ TimerFires(b) \/ AccessExpires(b)
             \/ CallApi(b) \/ RunAuthed(b) \/ CallEnds(b) \/ RetryRefused(b)
             \/ Mount(b) \/ LogOut(b)
      PROVE IInv'
  BY <1>1, AwaitIInv, LeaveForGoogleIInv, LogInIInv, LogInArrivesIInv, TimerFiresIInv, AccessExpiresIInv,
     RunAuthedIInv, RetryRefusedIInv, MountIInv, LogOutIInv
<1>2. ASSUME NEW c \in Calls, Process(c) \/ Deliver(c) \/ ConnectionLost(c) PROVE IInv'
  BY <1>2, ProcessIInv, DeliverIInv, ConnectionLostIInv
<1>3. ASSUME NEW t \in Tokens, MonthPasses(t) PROVE IInv'
  BY <1>3, MonthPassesIInv
<1>4. CASE UNCHANGED allVars
  <2>1. UNCHANGED <<status, root, call, stored, user, stale, timer, waiting, entry, asking, retrying, wanted>>
    BY <1>4 DEF allVars, vars, client, awaits
  <2>2. ClientTypeOK'
    BY <2>1 DEF IInv, ClientTypeOK
  <2>3. call' \in [Calls -> {call[c] : c \in Calls} \cup {Idle}]
    BY <2>1 DEF IInv, TableTypes
  <2>4. QED
    BY <2>1, <2>2, <2>3, QuietStep
<1>5. QED
  BY <1>1, <1>2, <1>3, <1>4 DEF SessionNext

-----------------------------------------------------------------------------

LEMMA IInvHolds == SessionSpec => []IInv
<1>1. QED
  BY InitIInv, NextIInv, PTL DEF SessionSpec

\* The browser's state keeps its types: AuthProvider never holds a token that
\* no response carried, nor waits in a tab that is not there.
THEOREM TypeCorrect == SessionSpec => []ClientTypeOK
<1>1. IInv => ClientTypeOK
  BY DEF IInv
<1>2. QED
  BY <1>1, IInvHolds, PTL

\* For any number of tabs that renew against each other, the live end of the
\* session that localStorage names is in localStorage (applySession).
THEOREM LiveEndIsStored == SessionSpec => []LiveTokenIsStored
<1>1. IInv => LiveTokenIsStored
  BY DEF IInv
<1>2. QED
  BY <1>1, IInvHolds, PTL

-----------------------------------------------------------------------------
\* The action properties: a step at a time, from the invariant.

\* Forgets the stored token for a reason.
Excused ==
  stored # NoToken /\ stored' = NoToken =>
    \/ ~wanted'
    \/ \E c \in Calls : call[c].answer = "rejected" /\ call'[c].state = "idle"
    \/ \E b \in retrying : b \notin retrying'

LEMMA StepIsExcused == IInv /\ [SessionNext]_allVars => Excused
<1> USE TokenAssumption
<1> SUFFICES ASSUME IInv, [SessionNext]_allVars, stored # NoToken, stored' = NoToken
             PROVE  \/ ~wanted'
                    \/ \E c \in Calls : call[c].answer = "rejected" /\ call'[c].state = "idle"
                    \/ \E b \in retrying : b \notin retrying'
  BY DEF Excused
<1>1. ASSUME NEW b \in Tabs,
             \/ SubmitLogIn(b) \/ LeaveForGoogle(b) \/ LogIn(b) \/ LogInFails(b)
             \/ TimerFires(b) \/ AccessExpires(b)
             \/ CallApi(b) \/ RunAuthed(b) \/ CallEnds(b) \/ Mount(b)
      PROVE FALSE
  BY <1>1 DEF SubmitLogIn, LeaveForGoogle, LogIn, LogInFails, TimerFires, AccessExpires, CallApi,
              RunAuthed, CallEnds, Mount
<1>2. ASSUME NEW b \in Tabs, LogOut(b) PROVE ~wanted'
  BY <1>2 DEF LogOut
<1>3. ASSUME NEW c \in Calls, Deliver(c) PROVE call[c].answer = "rejected" /\ call'[c].state = "idle"
  <2>1. /\ call[c].state = "answered" /\ call' = [call EXCEPT ![c] = Idle]
        /\ waiting[c] # NoOne
        /\ Settle(waiting[c].tab, waiting[c].kind, call[c].answer, call[c].new)
    BY <1>3 DEF Deliver, Answer
  <2>2. call'[c].state = "idle"
    BY <2>1 DEF IInv, TableTypes, Idle
  <2>3. waiting[c].kind # "logout" /\ call[c].answer = "ok" => call[c].new # NoToken
    BY <2>1 DEF IInv, CallInv
  <2>4. QED
    BY <2>1, <2>2, <2>3 DEF Settle, ApplySession
<1>4. ASSUME NEW c \in Calls, Process(c) \/ ConnectionLost(c) PROVE FALSE
  BY <1>4 DEF Process, ConnectionLost, client
<1>5. ASSUME NEW t \in Tokens, MonthPasses(t) PROVE FALSE
  BY <1>5 DEF MonthPasses, client
<1>6. ASSUME NEW b \in Tabs, LogInArrives(b) PROVE FALSE
  BY <1>6 DEF LogInArrives, ApplySession
<1>7. ASSUME NEW b \in Tabs, RetryRefused(b) PROVE b \in retrying /\ b \notin retrying'
  BY <1>7 DEF RetryRefused
<1>8. CASE UNCHANGED allVars
  BY <1>8 DEF allVars, client
<1>9. QED
  BY <1>1, <1>2, <1>3, <1>4, <1>5, <1>6, <1>7, <1>8 DEF SessionNext

\* The browser forgets its token only when the user signs out or the server
\* refuses: no lost request and no 5xx signs anybody out (runAuthed, clearSession).
THEOREM OnlyRefusalsSignOut == SessionSpec => OnlyARefusalSignsOut
<1>1. SessionSpec => [][Excused]_allVars
  BY IInvHolds, StepIsExcused, PTL DEF SessionSpec
<1>2. QED
  BY <1>1 DEF Excused, OnlyARefusalSignsOut

\* Tab b goes on renewing, or a renewal of its own has come to nothing.
Renewing(b) ==
  user[b] # Nobody /\ RenewalPending(b) /\ user'[b] # Nobody /\ ~RenewalPending(b)' =>
    \E c \in Awaited(b) :
      waiting'[c] = NoOne /\ (call'[c] = call[c] \/ call[c].answer # "ok")

\* A renewal that is waited for and that a step leaves alone is still pending.
LEMMA StillPending ==
  ASSUME NEW b \in Tabs, RenewalPending(b),
         timer'[b] = timer[b],
         \A c \in Awaited(b) : waiting'[c] = waiting[c]
  PROVE  RenewalPending(b)'
BY DEF RenewalPending, Awaited

LEMMA StepRenews == ASSUME IInv, [SessionNext]_allVars, NEW b \in Tabs PROVE Renewing(b)
<1> USE TokenAssumption, SessionAssumption
<1> SUFFICES ASSUME user[b] # Nobody, RenewalPending(b), user'[b] # Nobody, ~RenewalPending(b)'
             PROVE  \E c \in Awaited(b) :
                      waiting'[c] = NoOne /\ (call'[c] = call[c] \/ call[c].answer # "ok")
  BY DEF Renewing
<1>a. ClientTypeOK /\ TableTypes
  BY DEF IInv
<1>1. CASE UNCHANGED <<timer, waiting>>
  BY <1>1, StillPending
\* A call begins: the slot it takes was not awaited by anybody.
<1>2. ASSUME NEW c \in Calls, NEW t, NEW op, Ask(c, op, t) PROVE c \notin Awaited(b) \/ waiting[c] = NoOne
  BY <1>2 DEF Ask, IInv, CallInv
<1>3. ASSUME NEW d \in Tabs, NEW c \in Calls, NEW t, NEW op, NEW kind \in {"timer", "run", "mount", "logout"},
             Ask(c, op, t), waiting' = [waiting EXCEPT ![c] = [tab |-> d, kind |-> kind]],
             timer'[b] = timer[b]
      PROVE FALSE
  <2>1. waiting[c] = NoOne
    BY <1>3 DEF Ask, IInv, CallInv
  <2>2. \A e \in Calls : waiting[e].tab = b /\ waiting[e].kind \in {"timer", "run", "mount"} => waiting'[e] = waiting[e]
    BY <1>3, <1>a, <2>1 DEF ClientTypeOK, NoOne
  <2>3. QED
    BY <1>3, <2>2 DEF RenewalPending, Awaited
<1>4. ASSUME NEW d \in Tabs, LogInArrives(d) PROVE FALSE
  <2>1. UNCHANGED waiting /\ timer' = [timer EXCEPT ![d] = entry[d].new] /\ entry[d].new # NoToken
    BY <1>4 DEF LogInArrives, ApplySession
  <2>2. timer'[b] = timer[b] \/ timer'[b] # NoToken
    BY <2>1, <1>a DEF ClientTypeOK
  <2>3. QED
    BY <2>1, <2>2, StillPending DEF RenewalPending
<1>5. ASSUME NEW d \in Tabs, TimerFires(d) PROVE FALSE
  <2>1. PICK c \in Calls :
          /\ Ask(c, "refresh", timer[d])
          /\ waiting' = [waiting EXCEPT ![c] = [tab |-> d, kind |-> "timer"]]
    BY <1>5 DEF TimerFires, Fetch
  <2>2. CASE d = b
    <3>1. waiting'[c].tab = b /\ waiting'[c].kind = "timer"
      BY <2>1, <2>2, <1>a DEF ClientTypeOK
    <3>2. QED
      BY <3>1 DEF RenewalPending, Awaited
  <2>3. CASE d # b
    <3>1. timer'[b] = timer[b]
      BY <1>5, <2>3, <1>a DEF TimerFires, ClientTypeOK
    <3>2. QED
      BY <1>3, <2>1, <3>1
  <2>4. QED
    BY <2>2, <2>3
<1>6. ASSUME NEW d \in Tabs, RunAuthed(d) PROVE FALSE
  <2>1. CASE stored = NoToken
    <3>1. d # b /\ UNCHANGED waiting /\ timer' = [timer EXCEPT ![d] = NoToken]
      BY <1>6, <2>1, <1>a DEF RunAuthed, ClearSession, ClientTypeOK
    <3>2. timer'[b] = timer[b]
      BY <3>1, <1>a DEF ClientTypeOK
    <3>3. QED
      BY <3>1, <3>2, StillPending
  <2>2. CASE stored # NoToken
    <3>1. Fetch(d, "run", "refresh", stored) /\ UNCHANGED timer
      BY <1>6, <2>2 DEF RunAuthed
    <3>2. QED
      BY <1>3, <3>1 DEF Fetch
  <2>3. QED
    BY <2>1, <2>2
<1>7. ASSUME NEW d \in Tabs, Mount(d) PROVE FALSE
  <2>1. d # b /\ timer'[b] = timer[b]
    BY <1>7, <1>a DEF Mount, ClientTypeOK
  <2>2. ASSUME NEW e \in Calls, waiting[e].tab = b, waiting[e].kind \in {"timer", "run", "mount"}
        PROVE  waiting'[e] = waiting[e]
    <3>1. WithoutTab(d)[e] = waiting[e] /\ waiting[e] # NoOne
      BY <2>1, <2>2 DEF NoOne, WithoutTab
    <3>2. call[e].state # "idle"
      BY <3>1 DEF IInv, CallInv
    <3>3. CASE waiting' = WithoutTab(d)
      BY <3>1, <3>3
    <3>4. ASSUME NEW c \in Calls, Ask(c, "refresh", stored),
                 waiting' = [WithoutTab(d) EXCEPT ![c] = [tab |-> d, kind |-> "mount"]]
          PROVE waiting'[e] = waiting[e]
      BY <3>1, <3>2, <3>4 DEF Ask, WithoutTab
    <3>5. QED
      BY <1>7, <3>3, <3>4 DEF Mount
  <2>3. QED
    BY <2>1, <2>2 DEF RenewalPending, Awaited
<1>8. ASSUME NEW d \in Tabs, LogOut(d) PROVE FALSE
  <2>1. d # b /\ timer'[b] = timer[b]
    BY <1>8, <1>a DEF LogOut, ClearSession, ClientTypeOK
  <2>2. CASE stored = NoToken
    BY <1>8, <2>1, <2>2, StillPending DEF LogOut
  <2>3. CASE stored # NoToken
    BY <1>3, <1>8, <2>1, <2>3 DEF LogOut, Fetch
  <2>4. QED
    BY <2>2, <2>3
\* An answer or an error arrives.
<1>9. ASSUME NEW c \in Calls, Deliver(c) \/ ConnectionLost(c)
      PROVE \E e \in Awaited(b) : waiting'[e] = NoOne /\ (call'[e] = call[e] \/ call[e].answer # "ok")
  <2>1. waiting' = [waiting EXCEPT ![c] = NoOne]
    BY <1>9 DEF Deliver, ConnectionLost
  <2>2. waiting'[c] = NoOne /\ \A e \in Calls \ {c} : waiting'[e] = waiting[e]
    BY <2>1, <1>a DEF ClientTypeOK
  <2>3. CASE waiting[c].tab = b /\ waiting[c].kind \in {"timer", "run", "mount"}
    <3>1. c \in Awaited(b) /\ waiting[c] # NoOne
      BY <2>3 DEF Awaited, NoOne
    <3>2. CASE ConnectionLost(c)
      BY <2>2, <3>1, <3>2 DEF ConnectionLost, vars
    <3>3. CASE Deliver(c) /\ call[c].answer = "ok"
      <4>1. call[c].new # NoToken /\ ApplySession(b, call[c].new)
        BY <2>3, <3>1, <3>3 DEF Deliver, Answer, Settle, IInv, CallInv
      <4>2. timer'[b] # NoToken
        BY <4>1, <1>a DEF ApplySession, ClientTypeOK
      <4>3. QED
        BY <4>2 DEF RenewalPending
    <3>4. CASE Deliver(c) /\ call[c].answer # "ok"
      BY <2>2, <3>1, <3>4
    <3>5. QED
      BY <1>9, <3>2, <3>3, <3>4
  <2>4. CASE ~(waiting[c].tab = b /\ waiting[c].kind \in {"timer", "run", "mount"})
    <3>1. timer'[b] = timer[b]
      <4>1. CASE UNCHANGED timer
        BY <4>1
      <4>2. CASE Deliver(c) /\ waiting[c] # NoOne /\ waiting[c].kind # "logout" /\ waiting[c].tab # b
        BY <4>2, <1>a DEF Deliver, Settle, ApplySession, ClearSession, ClientTypeOK
      <4>3. waiting[c] # NoOne => waiting[c].kind \in {"timer", "run", "mount", "logout"}
        BY <1>a DEF ClientTypeOK
      <4>4. QED
        BY <1>9, <2>4, <4>1, <4>2, <4>3 DEF Deliver, ConnectionLost, Settle
    <3>2. QED
      BY <2>2, <2>4, <3>1 DEF RenewalPending, Awaited
  <2>5. QED
    BY <2>3, <2>4
<1>10. ASSUME NEW d \in Tabs, LeaveForGoogle(d) \/ RetryRefused(d) PROVE FALSE
  <2>1. d # b /\ timer' = [timer EXCEPT ![d] = NoToken]
    BY <1>10, <1>a DEF LeaveForGoogle, RetryRefused, ClearSession, ClientTypeOK
  <2>2. timer'[b] = timer[b]
    BY <2>1, <1>a DEF ClientTypeOK
  <2>3. \A e \in Calls : waiting[e].tab = b => waiting'[e] = waiting[e]
    BY <1>10, <2>1 DEF LeaveForGoogle, RetryRefused, WithoutTab
  <2>4. QED
    BY <2>2, <2>3, StillPending DEF Awaited
<1>11. ASSUME NEW d \in Tabs,
              SubmitLogIn(d) \/ LogIn(d) \/ LogInFails(d) \/ AccessExpires(d) \/ CallApi(d) \/ CallEnds(d)
       PROVE FALSE
  <2>1. UNCHANGED <<timer, waiting>>
    BY <1>11 DEF SubmitLogIn, LogIn, LogInFails, AccessExpires, CallApi, CallEnds
  <2>2. QED
    BY <2>1, StillPending
<1>12. ASSUME NEW c \in Calls, Process(c) PROVE FALSE
  BY <1>12, StillPending DEF Process, client
<1>13. ASSUME NEW t \in Tokens, MonthPasses(t) PROVE FALSE
  BY <1>13, StillPending DEF MonthPasses, client
<1>14. CASE UNCHANGED allVars
  BY <1>1, <1>14 DEF allVars, client
<1>15. QED
  BY <1>4, <1>5, <1>6, <1>7, <1>8, <1>9, <1>10, <1>11, <1>12, <1>13, <1>14 DEF SessionNext

\* A tab that shows a user and renews goes on renewing, unless a renewal of
\* its own gets an error, a refusal, or no answer (scheduleSilentRefresh).
THEOREM RenewalsStopByFailure == SessionSpec => RenewalStopsOnlyByFailure
<1>1. IInv /\ [SessionNext]_allVars => \A b \in Tabs : Renewing(b)
  BY StepRenews
<1>2. SessionSpec => [][\A b \in Tabs : Renewing(b)]_allVars
  BY <1>1, IInvHolds, PTL DEF SessionSpec
<1>3. QED
  BY <1>2 DEF Renewing, RenewalStopsOnlyByFailure

-----------------------------------------------------------------------------
\* The composition.

\* A tab asks the server only with a token that is Presentable: one it was given.
LEMMA AskIsAStep ==
  ASSUME NEW c \in Calls, NEW op \in {"refresh", "logout"}, NEW t \in Issued, Ask(c, op, t)
  PROVE  Next
<1>1. t \in Presentable
  BY DEF Presentable, Issued
<1>2. QED
  BY <1>1 DEF Next

\* What the tabs do to the server is what TokenFamily allows.
LEMMA StepIsServed == IInv /\ [SessionNext]_allVars => [Next]_vars
<1> SUFFICES ASSUME IInv, [SessionNext]_allVars PROVE [Next]_vars
  OBVIOUS
<1>a. HeldIssued
  BY DEF IInv
<1>1. ASSUME NEW b \in Tabs, LogIn(b) PROVE [Next]_vars
  BY <1>1 DEF LogIn, Next
<1>2. ASSUME NEW b \in Tabs, TimerFires(b) PROVE [Next]_vars
  <2>1. timer[b] \in Issued
    BY <1>2, <1>a DEF TimerFires, HeldIssued
  <2>2. \E c \in Calls : Ask(c, "refresh", timer[b])
    BY <1>2 DEF TimerFires, Fetch
  <2>3. QED
    BY <2>1, <2>2, AskIsAStep
<1>3. ASSUME NEW b \in Tabs, RunAuthed(b) \/ Mount(b) \/ LogOut(b) PROVE [Next]_vars
  <2>1. CASE UNCHANGED vars
    BY <2>1
  <2>2. ASSUME stored # NoToken, NEW op \in {"refresh", "logout"}, \E c \in Calls : Ask(c, op, stored)
        PROVE  [Next]_vars
    BY <2>2, <1>a, AskIsAStep DEF HeldIssued
  <2>3. QED
    BY <1>3, <2>1, <2>2 DEF RunAuthed, Mount, LogOut, Fetch
<1>4. ASSUME NEW b \in Tabs,
             \/ SubmitLogIn(b) \/ LeaveForGoogle(b) \/ LogInArrives(b) \/ LogInFails(b)
             \/ AccessExpires(b) \/ CallApi(b) \/ CallEnds(b) \/ RetryRefused(b)
      PROVE [Next]_vars
  BY <1>4 DEF SubmitLogIn, LeaveForGoogle, LogInArrives, LogInFails, AccessExpires, CallApi, CallEnds, RetryRefused
<1>5. ASSUME NEW c \in Calls, Process(c) \/ Deliver(c) \/ ConnectionLost(c) PROVE [Next]_vars
  BY <1>5 DEF Process, Deliver, ConnectionLost, Serve, Next
<1>6. ASSUME NEW t \in Tokens, MonthPasses(t) PROVE [Next]_vars
  BY <1>6 DEF MonthPasses, Next
<1>7. QED
  BY <1>1, <1>2, <1>3, <1>4, <1>5, <1>6 DEF SessionNext, allVars

\* The browsers use the token endpoints as TokenFamily allows: whatever
\* reloads, lost answers and other tabs do, a request carries a token some
\* response gave out (lib/auth/context.tsx).  What holds of every execution of
\* TokenFamily holds behind these tabs.
THEOREM TabsUseTheFamily == SessionSpec => Spec
<1>1. SessionInit => Init
  BY DEF SessionInit
<1>2. QED
  BY <1>1, StepIsServed, IInvHolds, PTL DEF SessionSpec, Spec
=============================================================================
