------------------------------ MODULE Accounts ------------------------------
(***************************************************************************)
(* The users table and the handlers that open an account (api/routes/auth,  *)
(* api/routes/google_oauth), one SQL statement per step: registration,      *)
(* sign-in with a password, sign-in with a Google identity, and the         *)
(* requests that a session then authorises.  A statement sees the rows      *)
(* committed before it; only the two UNIQUE columns of the table keep two   *)
(* requests apart that looked before either of them wrote.                  *)
(***************************************************************************)
EXTENDS Integers, FiniteSets

CONSTANTS
  Requests,      \* requests being served
  Spellings,     \* e-mail addresses as they are typed
  Lower,         \* strip().lower(): the spelling an address is stored under
  Subjects,      \* Google's stable user ids
  Holder,        \* the subject whose mailbox a stored address is at first
  Movable,       \* bound: the addresses whose mailbox may pass to somebody else
  Passwords,     \* one for each person who registers
  Ids,           \* bound: the primary keys there are, in the order of use
  Ephemeral,     \* TRUE for the SQLite file that a restart loses
  AllowAnonymousSearch,
  None

ASSUME AccountsAssumption ==
  /\ Lower \in [Spellings -> Spellings]
  /\ \A e \in Spellings : Lower[Lower[e]] = Lower[e]
  /\ Holder \in [Spellings -> Subjects]
  /\ Movable \subseteq Spellings
  /\ Ids \subseteq Nat
  /\ None \notin Ids /\ None \notin Spellings
  /\ None \notin Subjects /\ None \notin Passwords
  /\ Subjects \cap Passwords = {}

VARIABLES
  holder,    \* whose mailbox a stored address is now
  handed,    \* the addresses whose mailbox has changed hands (history)
  users,     \* the committed rows
  nextId,    \* the next primary key
  sessions,  \* the accounts whose access tokens are in use
  opened,    \* who was let into which account (history)
  pc,        \* the next statement of each request
  op,        \* its endpoint
  email,     \* the address it presents, as the handler has it
  secret,    \* the password, or the Google subject
  found,     \* the row it has settled on
  answer     \* the response

table == <<users, nextId, sessions, opened>>
locals == <<op, email, secret, found>>
mailboxes == <<holder, handed>>
vars == <<holder, handed, users, nextId, sessions, opened, pc, op, email, secret, found, answer>>

\* User
NoRow == [email |-> None, password |-> None, sub |-> None, verified |-> FALSE]

Init ==
  /\ holder = Holder
  /\ handed = {}
  /\ users = [i \in Ids |-> NoRow]
  /\ nextId = 1
  /\ sessions = {}
  /\ opened = {}
  /\ pc = [h \in Requests |-> "idle"]
  /\ op = [h \in Requests |-> None]
  /\ email = [h \in Requests |-> None]
  /\ secret = [h \in Requests |-> None]
  /\ found = [h \in Requests |-> None]
  /\ answer = [h \in Requests |-> None]

-----------------------------------------------------------------------------

Goto(h, label) == pc' = [pc EXCEPT ![h] = label]

Respond(h, a) ==
  /\ Goto(h, "done")
  /\ answer' = [answer EXCEPT ![h] = a]

Rows == {i \in Ids : users[i] # NoRow}
WithEmail(e) == {i \in Rows : users[i].email = e}
WithSub(s) == {i \in Rows : users[i].sub = s}

Being(h, endpoint, e, s) ==
  /\ op' = [op EXCEPT ![h] = endpoint]
  /\ email' = [email EXCEPT ![h] = e]
  /\ secret' = [secret EXCEPT ![h] = s]

\* normalize_email of RegisterRequest and LoginRequest.
Call(h, endpoint, e, password) ==
  /\ pc[h] = "idle"
  /\ Being(h, endpoint, Lower[e], password)
  /\ Goto(h, "byEmail")
  /\ UNCHANGED <<mailboxes, table, found, answer>>

\* Mutant: the address is used as Google spells it.
CallbackAsSpelled(h, e) ==
  /\ pc[h] = "idle"
  /\ Being(h, "google", e, holder[Lower[e]])
  /\ Goto(h, "bySub")
  /\ UNCHANGED <<mailboxes, table, found, answer>>

\* Mutant: the claim that the address is verified is not looked at.
CallbackUnverified(h, e) ==
  /\ pc[h] = "idle"
  /\ \E s \in Subjects : Being(h, "google", Lower[e], s)
  /\ Goto(h, "bySub")
  /\ UNCHANGED <<mailboxes, table, found, answer>>

\* google_callback with the claims of a verified address: they are those of
\* whoever has the mailbox now.
Callback(h, e) ==
  /\ pc[h] = "idle"
  /\ Being(h, "google", Lower[e], holder[Lower[e]])
  /\ Goto(h, "bySub")
  /\ UNCHANGED <<mailboxes, table, found, answer>>

\* google_callback without: consent denied, no claims, no verified address.
CallbackWithoutIdentity(h) ==
  /\ pc[h] = "idle"
  /\ Being(h, "google", None, None)
  /\ Respond(h, "refused")
  /\ UNCHANGED <<mailboxes, table, found>>

\* _resolve_google_user: SELECT by google_sub.
LookupSub(h) ==
  /\ pc[h] = "bySub"
  /\ \/ \E i \in WithSub(secret[h]) :
          /\ found' = [found EXCEPT ![h] = i]
          /\ Goto(h, "issue")
     \/ /\ WithSub(secret[h]) = {}
        /\ Goto(h, "byEmail")
        /\ UNCHANGED found
  /\ UNCHANGED <<mailboxes, table, op, email, secret, answer>>

\* register: SELECT by e-mail; an address that is taken is refused.
LookupToRegister(h) ==
  /\ pc[h] = "byEmail"
  /\ op[h] = "register"
  /\ \/ WithEmail(email[h]) # {} /\ Respond(h, "refused")
     \/ WithEmail(email[h]) = {} /\ Goto(h, "insert") /\ UNCHANGED answer
  /\ UNCHANGED <<mailboxes, table, locals>>

\* login: SELECT by e-mail and verify the password; an account without one
\* (Google-only) is refused like one that does not exist.
LookupToLogin(h) ==
  /\ pc[h] = "byEmail"
  /\ op[h] = "login"
  /\ \/ \E i \in WithEmail(email[h]) :
          /\ users[i].password = secret[h]
          /\ found' = [found EXCEPT ![h] = i]
          /\ Goto(h, "issue")
          /\ UNCHANGED answer
     \/ /\ \A i \in WithEmail(email[h]) : users[i].password # secret[h]
        /\ Respond(h, "refused")
        /\ UNCHANGED found
  /\ UNCHANGED <<mailboxes, table, op, email, secret>>

\* Mutant: a Google identity is linked to whatever account has its address.
LookupToLinkAnything(h) ==
  /\ pc[h] = "byEmail"
  /\ op[h] = "google"
  /\ \/ \E i \in WithEmail(email[h]) :
          /\ found' = [found EXCEPT ![h] = i]
          /\ Goto(h, "link")
     \/ /\ WithEmail(email[h]) = {}
        /\ Goto(h, "insert")
        /\ UNCHANGED found
  /\ UNCHANGED <<mailboxes, table, op, email, secret, answer>>

\* _resolve_google_user: SELECT by e-mail, for an account to link.
LookupToLink(h) ==
  /\ pc[h] = "byEmail"
  /\ op[h] = "google"
  /\ \/ \E i \in WithEmail(email[h]) :
          /\ users[i].verified
          /\ found' = [found EXCEPT ![h] = i]
          /\ Goto(h, "link")
          /\ UNCHANGED answer
     \/ /\ \E i \in WithEmail(email[h]) : ~users[i].verified
        /\ Respond(h, "refused")
        /\ UNCHANGED found
     \/ /\ WithEmail(email[h]) = {}
        /\ Goto(h, "insert")
        /\ UNCHANGED <<found, answer>>
  /\ UNCHANGED <<mailboxes, table, op, email, secret>>

\* UPDATE google_sub of the row found, whoever's it was, and COMMIT.
Link(h) ==
  /\ pc[h] = "link"
  /\ \/ /\ WithSub(secret[h]) \subseteq {found[h]}
        /\ users' = [users EXCEPT ![found[h]].sub = secret[h]]
        /\ Goto(h, "issue")
        /\ UNCHANGED answer
     \/ /\ ~(WithSub(secret[h]) \subseteq {found[h]})
        /\ Respond(h, "error")
        /\ UNCHANGED users
  /\ UNCHANGED <<mailboxes, nextId, sessions, opened, locals>>

\* The row a request inserts: only Google vouches for an address.
NewUser(h) ==
  [email |-> email[h],
   password |-> IF op[h] = "register" THEN secret[h] ELSE None,
   sub |-> IF op[h] = "google" THEN secret[h] ELSE None,
   verified |-> op[h] = "google"]

\* Mutant: only the address is unique.
UniqueByAddress(row) == WithEmail(row.email) = {}

\* The UNIQUE columns; SQL's NULLs are all different.
Unique(row) == WithEmail(row.email) = {} /\ (row.sub # None => WithSub(row.sub) = {})

\* INSERT and COMMIT; a duplicate is an unhandled IntegrityError.
Insert(h) ==
  /\ pc[h] = "insert"
  /\ \/ /\ Unique(NewUser(h))
        /\ nextId \in Ids
        /\ users' = [users EXCEPT ![nextId] = NewUser(h)]
        /\ nextId' = nextId + 1
        /\ found' = [found EXCEPT ![h] = nextId]
        /\ Goto(h, "issue")
        /\ UNCHANGED answer
     \/ /\ ~Unique(NewUser(h))
        /\ Respond(h, "error")
        /\ UNCHANGED <<users, nextId, found>>
  /\ UNCHANGED <<mailboxes, sessions, opened, op, email, secret>>

\* _issue_tokens: a second commit, and the response.
Issue(h) ==
  /\ pc[h] = "issue"
  /\ sessions' = sessions \cup {found[h]}
  /\ opened' = opened \cup {[id |-> found[h], with |-> secret[h]]}
  /\ Respond(h, "ok")
  /\ UNCHANGED <<mailboxes, users, nextId, locals>>

\* get_current_user and get_current_user_for_search: the account of a bearer
\* token that is missing, no longer valid (None), or valid.
Authorise(h, endpoint, id) ==
  /\ pc[h] = "idle"
  /\ op' = [op EXCEPT ![h] = endpoint]
  /\ Respond(h, IF id \in Rows \/ (endpoint = "search" /\ AllowAnonymousSearch)
                  THEN "ok" ELSE "refused")
  /\ UNCHANGED <<mailboxes, table, email, secret, found>>

\* The response is sent and the handler's variables are gone.
Answer(h) ==
  /\ pc[h] = "done"
  /\ Goto(h, "idle")
  /\ op' = [op EXCEPT ![h] = None]
  /\ email' = [email EXCEPT ![h] = None]
  /\ secret' = [secret EXCEPT ![h] = None]
  /\ found' = [found EXCEPT ![h] = None]
  /\ answer' = [answer EXCEPT ![h] = None]
  /\ UNCHANGED <<mailboxes, table>>

\* The process stops wherever it is; init_db creates the tables again if the
\* file is gone.  Access tokens are not in the database.
Restart ==
  /\ pc' = [h \in Requests |-> "idle"]
  /\ op' = [h \in Requests |-> None]
  /\ email' = [h \in Requests |-> None]
  /\ secret' = [h \in Requests |-> None]
  /\ found' = [h \in Requests |-> None]
  /\ answer' = [h \in Requests |-> None]
  /\ users' = IF Ephemeral THEN [i \in Ids |-> NoRow] ELSE users
  /\ opened' = IF Ephemeral THEN {} ELSE opened
  /\ UNCHANGED <<mailboxes, nextId, sessions>>

\* A provider gives the mailbox of an address to another person.
HandOver(e, s) ==
  /\ e \in Movable
  /\ s # holder[e]
  /\ holder' = [holder EXCEPT ![e] = s]
  /\ handed' = handed \cup {e}
  /\ UNCHANGED <<table, pc, locals, answer>>

Next ==
  \/ \E h \in Requests :
       \/ \E e \in Spellings :
            \/ \E p \in Passwords : Call(h, "register", e, p) \/ Call(h, "login", e, p)
            \/ Callback(h, e)
       \/ CallbackWithoutIdentity(h)
       \/ LookupSub(h) \/ LookupToRegister(h) \/ LookupToLogin(h) \/ LookupToLink(h)
       \/ Link(h) \/ Insert(h) \/ Issue(h)
       \/ \E endpoint \in {"me", "search"}, id \in sessions \cup {None} :
            Authorise(h, endpoint, id)
       \/ Answer(h)
  \/ \E e \in Spellings, s \in Subjects : HandOver(e, s)
  \/ Restart

Spec == Init /\ [][Next]_vars

-----------------------------------------------------------------------------

Labels == {"idle", "bySub", "byEmail", "link", "insert", "issue", "done"}

\* What the columns and the handlers' variables hold; a handler that goes on
\* with a row has found one.
TypeOK ==
  /\ holder \in [Spellings -> Subjects]
  /\ handed \subseteq Spellings
  /\ users \in [Ids -> [email : Spellings, password : Passwords \cup {None},
                        sub : Subjects \cup {None}, verified : BOOLEAN] \cup {NoRow}]
  /\ nextId \in Nat
  /\ \A i \in Ids : i >= nextId => users[i] = NoRow
  /\ sessions \subseteq Ids
  /\ opened \subseteq [id : Ids, with : Passwords \cup Subjects]
  /\ pc \in [Requests -> Labels]
  /\ op \in [Requests -> {"register", "login", "google", "me", "search", None}]
  /\ email \in [Requests -> Spellings \cup {None}]
  /\ secret \in [Requests -> Passwords \cup Subjects \cup {None}]
  /\ found \in [Requests -> Ids \cup {None}]
  /\ answer \in [Requests -> {"ok", "refused", "error", None}]
  /\ \A h \in Requests : pc[h] \in {"link", "issue"} => found[h] \in Rows

\* Nobody gets into an account that somebody else can open: not whoever
\* registered an address with a password and whoever owns its mailbox, in
\* whatever order they come (google_oauth.py:70, "linked by bare email
\* match"), and two Google identities only where the mailbox of the account
\* has changed hands: _resolve_google_user lets the new holder in.
NeverShared ==
  \A a, b \in opened : a.id = b.id =>
    \/ a.with = b.with
    \/ {a.with, b.with} \subseteq Subjects /\ users[a.id].email \in handed

\* A Google identity opens the same account for ever, whichever of its
\* addresses it presents, also when its first sign-ins race; unless the
\* mailbox of one of its accounts has passed to somebody else.
SubjectKeepsAccount ==
  \A a, b \in opened : a.with = b.with /\ a.with \in Subjects =>
    a.id = b.id \/ {users[a.id].email, users[b.id].email} \cap handed # {}

\* No mailbox has two accounts, however it is spelled (google_oauth.py:139,
\* "would create a duplicate instead").
OneAccountPerAddress ==
  \A i, j \in Rows : Lower[users[i].email] = Lower[users[j].email] => i = j
=============================================================================
