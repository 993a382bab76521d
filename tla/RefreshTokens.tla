--------------------------- MODULE RefreshTokens ---------------------------
(***************************************************************************)
(* The refresh_tokens table and the handlers that change it                 *)
(* (api/routes/auth.py), one SQL statement per step.  What a statement sees *)
(* of the others depends on the database:                                   *)
(*   SQLite       a transaction that has written holds the database's only  *)
(*                write lock until it ends;                                 *)
(*   PostgreSQL   by default a statement works on the rows committed when   *)
(*                it started, waits for rows another transaction has        *)
(*                changed, and re-checks its condition on them.             *)
(***************************************************************************)
EXTENDS Integers

CONSTANTS
  Users, Owner, Garbage, NoToken,
  Tokens,         \* the token values, numbered as the generator yields them
  Handlers,       \* requests being served
  Databases,      \* those the service may run on
  Expiring        \* bound: the databases on which a month may pass

ASSUME RefreshAssumption ==
  /\ Tokens \subseteq Nat
  /\ Owner \in [Tokens -> Users]
  /\ Garbage \notin Tokens
  /\ NoToken \notin Tokens
  /\ Databases \subseteq {"SQLite", "PostgreSQL"}

VARIABLES
  database,  \* the one it runs on
  status,    \* committed revoked_at of each row; "pending" is an uncommitted INSERT
  root,      \* the sign-in each token descends from (what replaced_by_id chains record)
  expired,   \* rows whose expires_at has passed
  ended,     \* the sign-ins whose sessions a response has declared revoked
  pc,        \* the next statement of each handler
  arg,       \* the token presented to it
  op,        \* "refresh" or "logout"
  fresh,     \* new_token: the row it inserted
  seen,      \* the rows the family-wide UPDATE started from
  at,        \* the one of them it has reached
  taken,     \* those it has changed, its own until it commits
  answer     \* the response: "ok", "rejected" (401) or "failed" (5xx)

table == <<status, root, expired, ended, database>>
scan == <<at, taken>>
locals == <<arg, op, fresh, seen, answer, scan>>
vars == <<database, status, root, expired, ended, pc, arg, op, fresh, seen, answer, at, taken>>

Init ==
  /\ database \in Databases
  /\ status = [t \in Tokens |-> "unissued"]
  /\ root = [t \in Tokens |-> t]
  /\ expired = {}
  /\ ended = {}
  /\ pc = [h \in Handlers |-> "idle"]
  /\ arg = [h \in Handlers |-> Garbage]
  /\ op = [h \in Handlers |-> "none"]
  /\ fresh = [h \in Handlers |-> NoToken]
  /\ seen = [h \in Handlers |-> {}]
  /\ at = [h \in Handlers |-> NoToken]
  /\ taken = [h \in Handlers |-> {}]
  /\ answer = [h \in Handlers |-> "none"]

Goto(h, label) == pc' = [pc EXCEPT ![h] = label]

Respond(h, a) ==
  /\ Goto(h, "done")
  /\ answer' = [answer EXCEPT ![h] = a]

Issued == {t \in Tokens : status[t] \in {"active", "revoked"}}

\* The presented token has a row, and it is not revoked.
PresentsLive(h) == arg[h] # Garbage /\ status[arg[h]] = "active"

\* Transactions that have written and not ended.
Writing == {h \in Handlers : pc[h] \in {"swap", "commit", "apply"}}

ReadCommitted == database = "PostgreSQL"
CanWrite(h) == ReadCommitted \/ Writing \subseteq {h}

\* The rows a transaction has changed and not committed.
Holds(h) == IF pc[h] = "commit" THEN {arg[h]} ELSE taken[h]
LockedRows(h) == UNION {Holds(g) : g \in Handlers \ {h}}

\* The row a statement is at.
Wants(h) ==
  CASE pc[h] = "apply" -> at[h]
    [] pc[h] \in {"swap", "logout"} -> arg[h]
    [] OTHER -> NoToken

\* Handlers that wait for each other's rows: each for the next, in a circle.
InCircle(h) ==
  \E S \in SUBSET Handlers :
    /\ h \in S
    /\ \A g \in S : \E f \in S \ {g} : Wants(g) \in Holds(f)
    /\ \A f \in S : \E g \in S \ {f} : Wants(g) \in Holds(f)

\* generate_refresh_token() yields the user's next unused value.
Generated(n) ==
  /\ status[n] = "unissued"
  /\ \A t \in Tokens : t < n /\ Owner[t] = Owner[n] => status[t] # "unissued"

\* login, register and the Google callback: _issue_tokens inserts and commits.
SignIn(n) ==
  /\ Generated(n)
  /\ ReadCommitted \/ Writing = {}
  /\ status' = [status EXCEPT ![n] = "active"]
  /\ root' = [root EXCEPT ![n] = n]
  /\ UNCHANGED <<database, expired, ended, pc, locals>>

Call(h, endpoint, t) ==
  /\ pc[h] = "idle"
  /\ arg' = [arg EXCEPT ![h] = t]
  /\ op' = [op EXCEPT ![h] = endpoint]
  /\ Goto(h, "lookup")
  /\ UNCHANGED <<table, fresh, seen, answer, scan>>

\* SELECT the presented token's row, and the early exits on what it says.
LookupRefresh(h) ==
  /\ pc[h] = "lookup"
  /\ op[h] = "refresh"
  /\ \/ /\ arg[h] = Garbage
        /\ Respond(h, "rejected")
     \/ /\ arg[h] # Garbage
        /\ status[arg[h]] = "revoked"
        /\ Goto(h, "revoke")
        /\ UNCHANGED answer
     \/ /\ PresentsLive(h)
        /\ arg[h] \in expired
        /\ Respond(h, "rejected")
     \/ /\ PresentsLive(h)
        /\ arg[h] \notin expired
        /\ Goto(h, "insert")
        /\ UNCHANGED answer
  /\ UNCHANGED <<table, arg, op, fresh, seen, scan>>

\* INSERT the successor; flushed, not committed.
Insert(h) ==
  /\ pc[h] = "insert"
  /\ CanWrite(h)
  /\ \E n \in Tokens :
       /\ Generated(n)
       /\ Owner[n] = Owner[arg[h]]
       /\ status' = [status EXCEPT ![n] = "pending"]
       /\ fresh' = [fresh EXCEPT ![h] = n]
  /\ Goto(h, "swap")
  /\ UNCHANGED <<database, root, expired, ended, arg, op, seen, answer, scan>>

\* Mutant: the revocation is an ORM write decided by the earlier SELECT.
SwapReadThenWrite(h) ==
  /\ pc[h] = "swap"
  /\ arg[h] \notin LockedRows(h)
  /\ Goto(h, "commit")
  /\ UNCHANGED <<table, locals>>

\* Mutant: the loser of a rotation race tries again with the same token.
SwapLoserRetries(h) ==
  /\ pc[h] = "swap"
  /\ arg[h] \notin LockedRows(h)
  /\ \/ /\ status[arg[h]] = "active"
        /\ Goto(h, "commit")
        /\ UNCHANGED <<status, fresh>>
     \/ /\ status[arg[h]] # "active"
        /\ status' = [status EXCEPT ![fresh[h]] = "unissued"]
        /\ fresh' = [fresh EXCEPT ![h] = NoToken]
        /\ Goto(h, "insert")
  /\ UNCHANGED <<database, root, expired, ended, arg, op, seen, answer, scan>>

\* Mutant: undoing the loser's work also undoes the winner's revocation.
SwapLoserRestores(h) ==
  /\ pc[h] = "swap"
  /\ arg[h] \notin LockedRows(h)
  /\ \/ /\ status[arg[h]] = "active"
        /\ Goto(h, "commit")
        /\ UNCHANGED <<status, fresh>>
     \/ /\ status[arg[h]] # "active"
        /\ status' = [status EXCEPT ![fresh[h]] = "unissued", ![arg[h]] = "active"]
        /\ fresh' = [fresh EXCEPT ![h] = NoToken]
        /\ Goto(h, "revoke")
  /\ UNCHANGED <<database, root, expired, ended, arg, op, seen, answer, scan>>

\* _revoke_if_active: UPDATE ... WHERE revoked_at IS NULL.  The loser of a
\* rotation race rolls its INSERT back and goes on to revoke the family.
Swap(h) ==
  /\ pc[h] = "swap"
  /\ arg[h] \notin LockedRows(h)
  /\ \/ /\ status[arg[h]] = "active"
        /\ Goto(h, "commit")
        /\ UNCHANGED <<status, fresh>>
     \/ /\ status[arg[h]] # "active"
        /\ status' = [status EXCEPT ![fresh[h]] = "unissued"]
        /\ fresh' = [fresh EXCEPT ![h] = NoToken]
        /\ Goto(h, "revoke")
  /\ UNCHANGED <<database, root, expired, ended, arg, op, seen, answer, scan>>

\* Mutant: the successor is stored without revoking the token it replaces.
CommitWithoutRevoking(h) ==
  /\ pc[h] = "commit"
  /\ status' = [status EXCEPT ![fresh[h]] = "active"]
  /\ root' = [root EXCEPT ![fresh[h]] = root[arg[h]]]
  /\ Respond(h, "ok")
  /\ UNCHANGED <<database, expired, ended, arg, op, fresh, seen, scan>>

\* COMMIT: the old row's revocation and the new row appear together.
Commit(h) ==
  /\ pc[h] = "commit"
  /\ status' = [status EXCEPT ![arg[h]] = "revoked", ![fresh[h]] = "active"]
  /\ root' = [root EXCEPT ![fresh[h]] = root[arg[h]]]
  /\ Respond(h, "ok")
  /\ UNCHANGED <<database, expired, ended, arg, op, fresh, seen, scan>>

\* Mutant: only the presented token's own row is selected for revocation.
StartRevokeFamilyOneRow(h) ==
  /\ pc[h] = "revoke"
  /\ CanWrite(h)
  /\ seen' = [seen EXCEPT ![h] = {arg[h]}]
  /\ Goto(h, "apply")
  /\ UNCHANGED <<table, arg, op, fresh, answer, scan>>

\* UPDATE every unrevoked row of the user: the rows the statement starts from ...
StartRevokeFamily(h) ==
  /\ pc[h] = "revoke"
  /\ CanWrite(h)
  /\ seen' = [seen EXCEPT ![h] = {t \in Tokens : Owner[t] = Owner[arg[h]] /\ status[t] = "active"}]
  /\ Goto(h, "apply")
  /\ UNCHANGED <<table, arg, op, fresh, answer, scan>>

\* ... which it has still to change (a row revoked meanwhile no longer matches),
Remaining(h) == {t \in seen[h] \ taken[h] : status[t] = "active"}

\* ... one after the other, in an order the database does not promise,
ReachRow(h) ==
  /\ pc[h] = "apply"
  /\ at[h] = NoToken
  /\ \E t \in Remaining(h) : at' = [at EXCEPT ![h] = t]
  /\ UNCHANGED <<table, pc, arg, op, fresh, seen, answer, taken>>

\* ... each as soon as no other transaction holds it,
TakeRow(h) ==
  /\ pc[h] = "apply"
  /\ at[h] # NoToken
  /\ at[h] \notin LockedRows(h)
  /\ taken' = [taken EXCEPT ![h] = @ \cup ({at[h]} \cap Remaining(h))]
  /\ at' = [at EXCEPT ![h] = NoToken]
  /\ UNCHANGED <<table, pc, arg, op, fresh, seen, answer>>

\* Mutant: reuse is answered but the UPDATE is never committed.
CommitRevokeFamilyRolledBack(h) ==
  /\ pc[h] = "apply"
  /\ at[h] = NoToken
  /\ Remaining(h) = {}
  /\ ended' = ended \cup {root[t] : t \in seen[h]}
  /\ taken' = [taken EXCEPT ![h] = {}]
  /\ Respond(h, "rejected")
  /\ UNCHANGED <<database, status, root, expired, arg, op, fresh, seen, at>>

\* ... and COMMIT, which shows them revoked and lets them go.
CommitRevokeFamily(h) ==
  /\ pc[h] = "apply"
  /\ at[h] = NoToken
  /\ Remaining(h) = {}
  /\ status' = [t \in Tokens |-> IF t \in taken[h] THEN "revoked" ELSE status[t]]
  /\ ended' = ended \cup {root[t] : t \in seen[h]}
  /\ taken' = [taken EXCEPT ![h] = {}]
  /\ Respond(h, "rejected")
  /\ UNCHANGED <<database, root, expired, arg, op, fresh, seen, at>>

\* logout: SELECT, and nothing to do for an unknown or revoked token.
LookupLogout(h) ==
  /\ pc[h] = "lookup"
  /\ op[h] = "logout"
  /\ \/ /\ PresentsLive(h)
        /\ Goto(h, "logout")
        /\ UNCHANGED answer
     \/ /\ ~PresentsLive(h)
        /\ Respond(h, "ok")
  /\ UNCHANGED <<table, arg, op, fresh, seen, scan>>

\* logout's write: by primary key, whatever the row says now.
RevokeOne(h) ==
  /\ pc[h] = "logout"
  /\ CanWrite(h)
  /\ arg[h] \notin LockedRows(h)
  /\ status' = [status EXCEPT ![arg[h]] = "revoked"]
  /\ Respond(h, "ok")
  /\ UNCHANGED <<database, root, expired, ended, arg, op, fresh, seen, scan>>

\* Mutant: the session of a failed request is never rolled back.
FailKeepingRows(h) ==
  /\ pc[h] \notin {"idle", "done"}
  /\ status' = [t \in Tokens |-> IF t = fresh[h] THEN "unissued" ELSE status[t]]
  /\ fresh' = [fresh EXCEPT ![h] = NoToken]
  /\ Respond(h, "failed")
  /\ UNCHANGED <<database, root, expired, ended, arg, op, seen, scan>>

\* The process or its database connection dies before the commit, or the
\* database turns the statement away; the session is closed and rolled back.
Fail(h) ==
  /\ pc[h] \notin {"idle", "done"}
  /\ status' = [t \in Tokens |-> IF t = fresh[h] THEN "unissued" ELSE status[t]]
  /\ fresh' = [fresh EXCEPT ![h] = NoToken]
  /\ at' = [at EXCEPT ![h] = NoToken]
  /\ taken' = [taken EXCEPT ![h] = {}]
  /\ Respond(h, "failed")
  /\ UNCHANGED <<database, root, expired, ended, arg, op, seen>>

\* PostgreSQL looks for circles of waits and turns away one who waits in it.
BreakCircle(h) == InCircle(h) /\ Fail(h)

\* The response is sent and the handler's variables are gone.
Answer(h) ==
  /\ pc[h] = "done"
  /\ Goto(h, "idle")
  /\ arg' = [arg EXCEPT ![h] = Garbage]
  /\ op' = [op EXCEPT ![h] = "none"]
  /\ fresh' = [fresh EXCEPT ![h] = NoToken]
  /\ seen' = [seen EXCEPT ![h] = {}]
  /\ answer' = [answer EXCEPT ![h] = "none"]
  /\ UNCHANGED <<table, scan>>

\* expires_at passes; nothing looks at the expiry of a revoked row.
Expire(t) ==
  /\ database \in Expiring
  /\ status[t] = "active"
  /\ t \notin expired
  /\ expired' = expired \cup {t}
  /\ UNCHANGED <<database, status, root, ended, pc, locals>>

Step(h) ==
  \/ LookupRefresh(h) \/ Insert(h) \/ Swap(h) \/ Commit(h)
  \/ StartRevokeFamily(h) \/ ReachRow(h) \/ TakeRow(h) \/ CommitRevokeFamily(h)
  \/ LookupLogout(h) \/ RevokeOne(h)
  \/ Answer(h)

Next ==
  \/ \E t \in Tokens : SignIn(t) \/ Expire(t)
  \/ \E h \in Handlers, endpoint \in {"refresh", "logout"}, t \in Issued \cup {Garbage} :
       Call(h, endpoint, t)
  \/ \E h \in Handlers : Step(h) \/ Fail(h) \/ BreakCircle(h)

Spec == Init /\ [][Next]_vars

\* A request being served goes on, the database's lock queues serve the
\* statements that wait for a row in turn, and its detector ends a circle of
\* waits; users, other failures and the calendar do not have to happen.
FairSpec ==
  /\ Spec
  /\ \A h \in Handlers :
       /\ WF_vars(Step(h))
       /\ SF_vars(Swap(h) \/ TakeRow(h) \/ RevokeOne(h))
       /\ WF_vars(BreakCircle(h))

-----------------------------------------------------------------------------

Labels == {"idle", "lookup", "insert", "swap", "commit", "revoke", "apply", "logout", "done"}

\* Types of the table and of the handlers' variables.
TypeOK ==
  /\ database \in Databases
  /\ status \in [Tokens -> {"unissued", "pending", "active", "revoked"}]
  /\ root \in [Tokens -> Tokens]
  /\ expired \subseteq Tokens
  /\ ended \subseteq Tokens
  /\ pc \in [Handlers -> Labels]
  /\ arg \in [Handlers -> Tokens \cup {Garbage}]
  /\ op \in [Handlers -> {"none", "refresh", "logout"}]
  /\ fresh \in [Handlers -> Tokens \cup {NoToken}]
  /\ seen \in [Handlers -> SUBSET Tokens]
  /\ at \in [Handlers -> Tokens \cup {NoToken}]
  /\ taken \in [Handlers -> SUBSET Tokens]
  /\ answer \in [Handlers -> {"none", "ok", "rejected", "failed"}]

\* Racing refreshes never split a session: of all the tokens that descend
\* from one sign-in at most one is live (auth.py: the old read-then-write
\* version "let BOTH racers win").
OneLiveTokenPerSignIn ==
  \A s, t \in Tokens :
    status[s] = "active" /\ status[t] = "active" /\ root[s] = root[t] => s = t

\* Once a request is answered "all sessions revoked", none of the sessions
\* that were live then has a live token left, nor gets one from a rotation
\* that was under way (auth.py: "forcing a fresh login everywhere"), on the
\* database that serializes its writers.
ReuseEndsEverySession ==
  database = "SQLite" =>
    \A t \in Tokens : status[t] = "active" => root[t] \notin ended

\* Revocation is final: no step makes a revoked token live again.
RevokedForGood ==
  [][\A t \in Tokens : status[t] = "revoked" => status'[t] = "revoked"]_vars

\* The bound of the model: a rotation finds no token value left to generate.
OutOfTokens(h) == pc[h] = "insert" /\ \A t \in Tokens : status[t] # "unissued"

\* Nobody waits for ever for rows another request holds (auth.py:153-167,
\* 188-192, 222-226).  Two family-wide updates that take the user's rows in
\* different orders do wait in a circle; a failed request gives its rows back,
\* so that turning one of them away is enough for every request to be answered.
\* On the database that queues its waiters: SQLite's busy lock is polled, and
\* may pass one over for ever.
EveryRequestAnswered ==
  \A h \in Handlers : pc[h] = "lookup" /\ ReadCommitted ~> pc[h] = "done" \/ OutOfTokens(h)

\* What a handler has told, and may tell, its client.
CallOf(h) ==
  CASE pc[h] = "idle" -> [op |-> "none", token |-> Garbage, state |-> "idle",
                          answer |-> "none", new |-> NoToken]
    [] pc[h] = "done" -> [op |-> op[h], token |-> arg[h], state |-> "answered",
                          answer |-> answer[h], new |-> fresh[h]]
    [] OTHER -> [op |-> op[h], token |-> arg[h], state |-> "asked",
                 answer |-> "none", new |-> NoToken]

\* Each request is one indivisible step of TokenFamily, taken where its
\* transaction commits (or where the SELECT turns it away).
Family == INSTANCE TokenFamily WITH
  Calls <- Handlers,
  status <- [t \in Tokens |-> IF status[t] = "pending" THEN "unissued" ELSE status[t]],
  call <- [h \in Handlers |-> CallOf(h)]

\* On a database that serializes its writers (SQLite) the endpoints implement
\* TokenFamily; read-committed statements do not (auth.py:222, the family-wide
\* UPDATE may miss a successor that is being committed).
ImplementsFamily == Family!Init /\ [][ReadCommitted \/ Family!Next]_(Family!vars)
=============================================================================
