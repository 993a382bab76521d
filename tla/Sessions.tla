------------------------------ MODULE Sessions ------------------------------
(***************************************************************************)
(* One browser's sign-in state (frontend lib/auth/context.tsx) over the     *)
(* token endpoints of TokenFamily.  Every tab runs its own AuthProvider:    *)
(* React state, a silent-refresh timer that captured a refresh token, and   *)
(* continuations that wait for responses.  The tabs share localStorage.     *)
(* An action of this module is one JavaScript task (up to the next await)   *)
(* or one server step.                                                      *)
(***************************************************************************)
EXTENDS TokenFamily, FiniteSets

CONSTANTS
  Tabs,
  Nobody,        \* no user signed in
  Lossy,         \* TRUE: requests fail and responses get lost
  CallsPerTab,   \* bound: refreshes one tab may be awaiting at once
  BusyTabs,      \* bound: tabs that may be awaiting anything else at once
  Expiring,      \* bound: the tokens that a month may pass over
  Reloading      \* TRUE: a tab may be reloaded, FALSE: only opened

ASSUME SessionAssumption ==
  /\ Tokens \subseteq Nat   \* numbered as the generator yields them
  /\ Nobody \notin Users
  /\ Lossy \in BOOLEAN
  /\ Expiring \subseteq Tokens
  /\ Reloading \in BOOLEAN
  /\ CallsPerTab \in Nat
  /\ BusyTabs \in Nat

VARIABLES
  stored,    \* localStorage[REFRESH_TOKEN_KEY]
  user,      \* user[b]: whom tab b shows as signed in
  stale,     \* the tabs whose access token has passed its 15 minutes
  timer,     \* timer[b]: the refresh token captured by b's pending setTimeout
  waiting,   \* waiting[c]: the continuation awaiting call c
  entry,     \* entry[b]: the sign-in tab b awaits, and the token it yielded
  asking,    \* the tabs awaiting an API call that will come back 401
  retrying,  \* the tabs awaiting the call runAuthed repeats after a refresh
  wanted     \* the user signed in here and has not signed out since

awaits == <<entry, asking, retrying>>
client == <<stored, user, stale, timer, waiting, awaits, wanted>>
server == <<status, root, expired, ended>>
allVars == <<vars, client>>

NoOne == [tab |-> NoToken, kind |-> "none"]
NoEntry == [kind |-> "none", new |-> NoToken]

ClientInit ==
  /\ stored = NoToken
  /\ user = [b \in Tabs |-> Nobody]
  /\ stale = {}
  /\ timer = [b \in Tabs |-> NoToken]
  /\ waiting = [c \in Calls |-> NoOne]
  /\ entry = [b \in Tabs |-> NoEntry]
  /\ asking = {}
  /\ retrying = {}
  /\ wanted = FALSE

Awaited(b) == {c \in Calls : waiting[c].tab = b}

\* fetch(endpoint, token): a free call slot is taken.
Fetch(b, kind, endpoint, t) ==
  \E c \in Calls :
    /\ Ask(c, endpoint, t)
    /\ waiting' = [waiting EXCEPT ![c] = [tab |-> b, kind |-> kind]]

\* Mutant: localStorage is left with the token that was just rotated out.
ApplySessionInMemoryOnly(b, t) ==
  /\ user' = [user EXCEPT ![b] = Owner[t]]
  /\ stale' = stale \ {b}
  /\ timer' = [timer EXCEPT ![b] = t]
  /\ stored' = IF stored = NoToken THEN t ELSE stored

\* Mutant: the timer is not scheduled again.
ApplySessionWithoutTimer(b, t) ==
  /\ user' = [user EXCEPT ![b] = Owner[t]]
  /\ stale' = stale \ {b}
  /\ stored' = t
  /\ UNCHANGED timer

ApplySession(b, t) ==
  /\ user' = [user EXCEPT ![b] = Owner[t]]
  /\ stale' = stale \ {b}
  /\ stored' = t
  /\ timer' = [timer EXCEPT ![b] = t]

\* Mutant: the tab drops its tokens but goes on showing its user.
ClearSessionKeepsUser(b) ==
  /\ stored' = NoToken
  /\ timer' = [timer EXCEPT ![b] = NoToken]
  /\ UNCHANGED <<user, stale>>

ClearSession(b) ==
  /\ user' = [user EXCEPT ![b] = Nobody]
  /\ stale' = stale \ {b}
  /\ stored' = NoToken
  /\ timer' = [timer EXCEPT ![b] = NoToken]

\* generate_refresh_token() yields the user's next unused value.
Generated(n) == \A t \in Tokens : t < n /\ Owner[t] = Owner[n] => status[t] # "unissued"

\* What tab b awaited is gone with its page.
Unload(b) ==
  /\ asking' = asking \ {b}
  /\ retrying' = retrying \ {b}

WithoutTab(b) == [c \in Calls |-> IF waiting[c].tab = b THEN NoOne ELSE waiting[c]]

\* The tabs that await a sign-in or an API call; b may do so too.
Busy == {b \in Tabs : entry[b] # NoEntry} \cup asking \cup retrying
MayAwait(b) == Cardinality(Busy \cup {b}) <= BusyTabs

\* login, register: the form is sent, once at a time.
SubmitLogIn(b) ==
  /\ MayAwait(b)
  /\ user[b] = Nobody
  /\ entry[b] = NoEntry
  /\ entry' = [entry EXCEPT ![b].kind = "form"]
  /\ UNCHANGED <<vars, stored, user, stale, timer, waiting, asking, retrying, wanted>>

\* loginWithGoogle: the page is left for the consent screen.
LeaveForGoogle(b) ==
  /\ MayAwait(b)
  /\ user[b] = Nobody
  /\ entry' = [entry EXCEPT ![b] = [kind |-> "fragment", new |-> NoToken]]
  /\ timer' = [timer EXCEPT ![b] = NoToken]
  /\ waiting' = WithoutTab(b)
  /\ Unload(b)
  /\ UNCHANGED <<vars, stored, user, stale, wanted>>

\* The server signs the user in: the tokens are in its answer, or in the
\* fragment of the page Google sends the tab back to.
LogIn(b) ==
  /\ entry[b].kind # "none"
  /\ entry[b].new = NoToken
  /\ \E n \in Tokens : Generated(n) /\ SignIn(n) /\ entry' = [entry EXCEPT ![b].new = n]
  /\ UNCHANGED <<stored, user, stale, timer, waiting, asking, retrying, wanted>>

\* The answer of the form, or of getCurrentUser for the fragment, arrives.
LogInArrives(b) ==
  /\ entry[b].new # NoToken
  /\ ApplySession(b, entry[b].new)
  /\ entry' = [entry EXCEPT ![b] = NoEntry]
  /\ wanted' = TRUE
  /\ UNCHANGED <<vars, waiting, asking, retrying>>

\* A wrong password, a 5xx, or an answer that never comes.  (A page opened
\* with no fragment, or one it cannot use, goes on as Mount does.)
LogInFails(b) ==
  /\ entry[b].kind = "form"
  /\ entry[b].new = NoToken \/ Lossy
  /\ entry' = [entry EXCEPT ![b] = NoEntry]
  /\ UNCHANGED <<vars, stored, user, stale, timer, waiting, asking, retrying, wanted>>

\* Thirteen minutes passed: refresh with the token captured when scheduled.
TimerFires(b) ==
  /\ timer[b] # NoToken
  /\ Cardinality(Awaited(b)) < CallsPerTab
  /\ Fetch(b, "timer", "refresh", timer[b])
  /\ timer' = [timer EXCEPT ![b] = NoToken]
  /\ UNCHANGED <<stored, user, stale, awaits, wanted>>

\* A backgrounded tab or a slept laptop lets the access token run out.
AccessExpires(b) ==
  /\ user[b] # Nobody
  /\ b \notin stale
  /\ stale' = stale \cup {b}
  /\ UNCHANGED <<vars, stored, user, timer, waiting, awaits, wanted>>

\* runAuthed sends a call whose access token has run out.
CallApi(b) ==
  /\ MayAwait(b)
  /\ b \in stale
  /\ asking' = asking \cup {b}
  /\ UNCHANGED <<vars, stored, user, stale, timer, waiting, entry, retrying, wanted>>

\* runAuthed: the call came back 401, so refresh with the stored token.  The
\* tab may have signed out, or in, since it made the call.
RunAuthed(b) ==
  /\ b \in asking
  /\ Cardinality(Awaited(b)) < CallsPerTab
  /\ asking' = asking \ {b}
  /\ \/ /\ stored = NoToken
        /\ ClearSession(b)
        /\ UNCHANGED <<vars, waiting>>
     \/ /\ stored # NoToken
        /\ Fetch(b, "run", "refresh", stored)
        /\ UNCHANGED <<stored, user, stale, timer>>
  /\ UNCHANGED <<entry, retrying, wanted>>

\* The call, or its repetition, ends in anything but a refusal.
CallEnds(b) ==
  /\ \/ /\ b \in asking /\ Lossy
        /\ asking' = asking \ {b}
        /\ UNCHANGED retrying
     \/ /\ b \in retrying
        /\ retrying' = retrying \ {b}
        /\ UNCHANGED asking
  /\ UNCHANGED <<vars, stored, user, stale, timer, waiting, entry, wanted>>

\* The repetition is refused too: the account is gone, or the new access
\* token ran out on its way.
RetryRefused(b) ==
  /\ b \in retrying
  /\ retrying' = retrying \ {b}
  /\ ClearSession(b)
  /\ UNCHANGED <<vars, waiting, entry, asking, wanted>>

\* The page is opened or reloaded: its tasks are gone, and mounting resumes
\* from the stored token.
Mount(b) ==
  /\ Reloading \/ (user[b] = Nobody /\ Awaited(b) = {})
  /\ user' = [user EXCEPT ![b] = Nobody]
  /\ stale' = stale \ {b}
  /\ timer' = [timer EXCEPT ![b] = NoToken]
  /\ entry' = [entry EXCEPT ![b] = NoEntry]
  /\ Unload(b)
  /\ \/ /\ stored = NoToken
        /\ waiting' = WithoutTab(b)
        /\ UNCHANGED vars
     \/ /\ stored # NoToken
        /\ \E c \in Calls :
             /\ Ask(c, "refresh", stored)
             /\ waiting' = [WithoutTab(b) EXCEPT ![c] = [tab |-> b, kind |-> "mount"]]
  /\ UNCHANGED <<stored, wanted>>

\* logout: clear first, then tell the server, best effort.
LogOut(b) ==
  /\ user[b] # Nobody
  /\ ClearSession(b)
  /\ \/ /\ stored = NoToken
        /\ UNCHANGED <<vars, waiting>>
     \/ /\ stored # NoToken
        /\ Fetch(b, "logout", "logout", stored)
  /\ wanted' = FALSE
  /\ UNCHANGED awaits

\* Mutant: an earlier version cleared the session on every error.
SettleClearingOnAnyError(b, kind, answer, n) ==
  \/ /\ kind # "logout" /\ answer = "ok"
     /\ ApplySession(b, n)
     /\ retrying' = IF kind = "run" THEN retrying \cup {b} ELSE retrying
  \/ /\ kind # "logout" /\ answer # "ok"
     /\ ClearSession(b)
     /\ UNCHANGED retrying
  \/ /\ kind = "logout"
     /\ UNCHANGED <<stored, user, stale, timer, retrying>>

\* What the continuation does with its response.  Only a 401 or 403 ends the
\* session; the mount effect then merely forgets the stored token.  With its
\* new session runAuthed repeats the call it was given.
Settle(b, kind, answer, n) ==
  \/ /\ kind \in {"timer", "run", "mount"}
     /\ answer = "ok"
     /\ ApplySession(b, n)
     /\ retrying' = IF kind = "run" THEN retrying \cup {b} ELSE retrying
  \/ /\ kind \in {"timer", "run"}
     /\ answer = "rejected"
     /\ ClearSession(b)
     /\ UNCHANGED retrying
  \/ /\ kind = "mount"
     /\ answer = "rejected"
     /\ stored' = NoToken
     /\ UNCHANGED <<user, stale, timer, retrying>>
  \/ /\ kind = "logout" \/ answer = "failed"
     /\ UNCHANGED <<stored, user, stale, timer, retrying>>

\* The response reaches its continuation, or nobody waits for it any more.
Deliver(c) ==
  /\ Answer(c)
  /\ waiting' = [waiting EXCEPT ![c] = NoOne]
  /\ \/ /\ waiting[c] # NoOne
        /\ Settle(waiting[c].tab, waiting[c].kind, call[c].answer, call[c].new)
     \/ /\ waiting[c] = NoOne
        /\ UNCHANGED <<stored, user, stale, timer, retrying>>
  /\ UNCHANGED <<entry, asking, wanted>>

\* The connection breaks: fetch rejects with a network error, which no
\* continuation treats as a refusal, and the call's fate stays unknown.
ConnectionLost(c) ==
  /\ Lossy
  /\ waiting[c] # NoOne
  /\ waiting' = [waiting EXCEPT ![c] = NoOne]
  /\ UNCHANGED <<vars, stored, user, stale, timer, awaits, wanted>>

\* The model's bound on fresh token values is reached.
OutOfTokens == \A t \in Tokens : status[t] # "unissued"

\* One step of the server; it fails when the run lets it, or at the bound.
Process(c) ==
  /\ \/ \E n \in Tokens : Generated(n) /\ Rotate(c, n)
     \/ Reuse(c)
     \/ Reject(c)
     \/ Revoke(c)
     \/ (Lossy \/ OutOfTokens) /\ Fail(c)
  /\ UNCHANGED client

MonthPasses(t) ==
  /\ t \in Expiring
  /\ Expire(t)
  /\ UNCHANGED client

SessionInit == Init /\ ClientInit

SessionNext ==
  \/ \E b \in Tabs :
       \/ SubmitLogIn(b) \/ LeaveForGoogle(b) \/ LogIn(b) \/ LogInArrives(b) \/ LogInFails(b)
       \/ TimerFires(b) \/ AccessExpires(b)
       \/ CallApi(b) \/ RunAuthed(b) \/ CallEnds(b) \/ RetryRefused(b)
       \/ Mount(b) \/ LogOut(b)
  \/ \E c \in Calls : Process(c) \/ Deliver(c) \/ ConnectionLost(c)
  \/ \E t \in Tokens : MonthPasses(t)

SessionSpec == SessionInit /\ [][SessionNext]_allVars

\* Timers fire, the server serves and responses arrive; the user need not do
\* anything.
FairSessionSpec ==
  /\ SessionSpec
  /\ \A b \in Tabs : WF_allVars(TimerFires(b))
  /\ \A c \in Calls : WF_allVars(Process(c)) /\ WF_allVars(Deliver(c))
-----------------------------------------------------------------------------

\* Types of the browser's state.
ClientTypeOK ==
  /\ stored \in Tokens \cup {NoToken}
  /\ user \in [Tabs -> Users \cup {Nobody}]
  /\ stale \subseteq {b \in Tabs : user[b] # Nobody}
  /\ timer \in [Tabs -> Tokens \cup {NoToken}]
  /\ waiting \in [Calls -> [tab : Tabs, kind : {"timer", "run", "mount", "logout"}] \cup {NoOne}]
  /\ entry \in [Tabs -> [kind : {"none", "form", "fragment"}, new : Tokens \cup {NoToken}]]
  /\ asking \subseteq Tabs
  /\ retrying \subseteq Tabs
  /\ wanted \in BOOLEAN

\* The stored token disappears only in the step that signs out, or that
\* delivers the server's own refusal, of a refresh or of the call that
\* runAuthed repeats after one: no lost request, 5xx, failed sign-in or slow
\* start of the backend ends a session (context.tsx: "only DISCARD the stored token
\* when the server actually rejected it").
OnlyARefusalSignsOut ==
  [][stored # NoToken /\ stored' = NoToken =>
       \/ ~wanted'
       \/ \E c \in Calls : call[c].answer = "rejected" /\ call'[c].state = "idle"
       \/ \E b \in retrying : b \notin retrying']_allVars

\* When tabs renew against each other, the live end of a session is never
\* only in a tab's closure: if a tab's timer holds a live token of the same
\* sign-in as the stored one, it is the stored one.
LiveTokenIsStored ==
  \A b \in Tabs :
    /\ timer[b] # NoToken
    /\ status[timer[b]] = "active"
    /\ stored # NoToken
    /\ root[stored] = root[timer[b]]
    => timer[b] = stored

\* Tab b has a renewal scheduled or under way.
RenewalPending(b) ==
  \/ timer[b] # NoToken
  \/ \E c \in Awaited(b) : waiting[c].kind \in {"timer", "run", "mount"}

\* A tab that shows a user stops renewing only when a renewal of its own
\* comes to nothing: it never sits signed in with no way to notice the end
\* because of what other tabs, answers or sign-ins do.
RenewalStopsOnlyByFailure ==
  [][\A b \in Tabs :
       user[b] # Nobody /\ RenewalPending(b) /\ user'[b] # Nobody /\ ~RenewalPending(b)' =>
         \E c \in Awaited(b) :
           waiting'[c] = NoOne /\ (call'[c] = call[c] \/ call[c].answer # "ok")]_allVars

\* While responses arrive, a tab that shows a user whose sessions are all
\* ended notices on its own, or is signed in afresh (context.tsx: after a
\* failed refresh "every call 401'd forever while the header still said
\* Sign out").
EndIsNoticed ==
  \A b \in Tabs :
    (user[b] # Nobody /\ LiveTokens(user[b]) = {})
      ~> (user[b] = Nobody \/ LiveTokens(user[b]) # {} \/ OutOfTokens)

\* A session the user has not left and no month has ended is kept.
KeptWhileWanted == wanted => stored # NoToken

\* Once the user has signed out, no tab shows them as signed in.
SignedOutStaysOut == ~wanted => \A b \in Tabs : user[b] = Nobody
=============================================================================
