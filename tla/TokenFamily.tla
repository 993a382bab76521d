---------------------------- MODULE TokenFamily ----------------------------
(***************************************************************************)
(* What the refresh-token endpoints promise (api/routes/auth.py), each call *)
(* being one indivisible step: a refresh presenting a live token replaces   *)
(* it by one successor; presenting a token that was already replaced or     *)
(* revoked is reuse, and ends every session of its owner; anything else is  *)
(* turned away.  RefreshTokens implements this with SQL statements, and     *)
(* Sessions puts browsers in front of it.                                   *)
(***************************************************************************)
EXTENDS Integers

CONSTANTS
  Users,
  Tokens,    \* the token values that may be generated
  Owner,     \* Owner[t]: the user t would be issued to
  Garbage,   \* a string that is no token's value
  NoToken,   \* "no token" in a response
  Calls      \* identities of HTTP calls

ASSUME TokenAssumption ==
  /\ Owner \in [Tokens -> Users]
  /\ Garbage \notin Tokens
  /\ NoToken \notin Tokens

VARIABLES
  status,    \* status[t]: "unissued", "active" or "revoked"
  root,      \* root[t]: the token of the sign-in that t descends from
  expired,   \* the tokens whose 30 days have passed
  ended,     \* the sign-ins whose sessions a response has declared revoked
  call       \* the calls in progress

vars == <<status, root, expired, ended, call>>

Idle == [op |-> "none", token |-> Garbage, state |-> "idle", answer |-> "none", new |-> NoToken]

Asked(op, t) == [op |-> op, token |-> t, state |-> "asked", answer |-> "none", new |-> NoToken]

Answered(r, answer, n) ==
  [op |-> r.op, token |-> r.token, state |-> "answered", answer |-> answer, new |-> n]

Init ==
  /\ status = [t \in Tokens |-> "unissued"]
  /\ root = [t \in Tokens |-> t]
  /\ expired = {}
  /\ ended = {}
  /\ call = [c \in Calls |-> Idle]

\* What a client can hold: a token some response carried, or nonsense.
Presentable == {t \in Tokens : status[t] # "unissued"} \cup {Garbage}

\* A successful password sign-in, registration or Google callback.
SignIn(n) ==
  /\ status[n] = "unissued"
  /\ status' = [status EXCEPT ![n] = "active"]
  /\ root' = [root EXCEPT ![n] = n]
  /\ UNCHANGED <<expired, ended, call>>

Ask(c, op, t) ==
  /\ call[c].state = "idle"
  /\ call' = [call EXCEPT ![c] = Asked(op, t)]
  /\ UNCHANGED <<status, root, expired, ended>>

AskedTo(c, op) == call[c].state = "asked" /\ call[c].op = op

Reply(c, answer, n) == call' = [call EXCEPT ![c] = Answered(@, answer, n)]

\* The presented token is replaced by n.
Rotate(c, n) ==
  LET t == call[c].token IN
  /\ AskedTo(c, "refresh")
  /\ t # Garbage
  /\ status[t] = "active"
  /\ status[n] = "unissued"
  /\ Owner[n] = Owner[t]
  /\ status' = [status EXCEPT ![t] = "revoked", ![n] = "active"]
  /\ root' = [root EXCEPT ![n] = root[t]]
  /\ Reply(c, "ok", n)
  /\ UNCHANGED <<expired, ended>>

LiveTokens(u) == {t \in Tokens : Owner[t] = u /\ status[t] = "active"}

EndSessions(live) ==
  /\ status' = [t \in Tokens |-> IF t \in live THEN "revoked" ELSE status[t]]
  /\ ended' = ended \cup {root[t] : t \in live}

\* The presented token is not live any more: every session of its owner ends.
Reuse(c) ==
  LET t == call[c].token IN
  /\ AskedTo(c, "refresh")
  /\ t # Garbage
  /\ status[t] = "revoked"
  /\ EndSessions(LiveTokens(Owner[t]))
  /\ Reply(c, "rejected", NoToken)
  /\ UNCHANGED <<root, expired>>

\* Unknown or out of date: 401, and nothing changes.
Reject(c) ==
  /\ AskedTo(c, "refresh")
  /\ call[c].token \in {Garbage} \cup expired
  /\ Reply(c, "rejected", NoToken)
  /\ UNCHANGED <<status, root, expired, ended>>

Revoke(c) ==
  LET t == call[c].token IN
  /\ AskedTo(c, "logout")
  /\ status' = IF t = Garbage THEN status ELSE [status EXCEPT ![t] = "revoked"]
  /\ Reply(c, "ok", NoToken)
  /\ UNCHANGED <<root, expired, ended>>

\* The server fails before committing: a 5xx, and nothing changes.
Fail(c) ==
  /\ call[c].state = "asked"
  /\ Reply(c, "failed", NoToken)
  /\ UNCHANGED <<status, root, expired, ended>>

Serve(c) ==
  \/ \E n \in Tokens : Rotate(c, n)
  \/ Reuse(c)
  \/ Reject(c)
  \/ Revoke(c)
  \/ Fail(c)

Answer(c) ==
  /\ call[c].state = "answered"
  /\ call' = [call EXCEPT ![c] = Idle]
  /\ UNCHANGED <<status, root, expired, ended>>

Expire(t) ==
  /\ status[t] # "unissued"
  /\ t \notin expired
  /\ expired' = expired \cup {t}
  /\ UNCHANGED <<status, root, ended, call>>

Next ==
  \/ \E t \in Tokens : SignIn(t) \/ Expire(t)
  \/ \E c \in Calls, t \in Presentable, op \in {"refresh", "logout"} : Ask(c, op, t)
  \/ \E c \in Calls : Serve(c) \/ Answer(c)

Spec == Init /\ [][Next]_vars
=============================================================================
