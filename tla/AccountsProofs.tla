--------------------------- MODULE AccountsProofs ---------------------------
(***************************************************************************)
(* Proofs, for every number of people, addresses and requests, of the       *)
(* properties of Accounts.                                                  *)
(*                                                                         *)
(* None of them is inductive: an account stays its holder's because a row    *)
(* is either a password's, and then unverified and never linked, or belongs  *)
(* to whoever holds its mailbox (one subject, until it changes hands), and   *)
(* because every request in flight carries the row it has found under an     *)
(* identity that opens it.                                                   *)
(*                                                                         *)
(* And proofs about the limiter in front of those endpoints (RateLimiter),   *)
(* for every limit, window, wait for the lock and number of instances, keys  *)
(* and handlers.  The deque alone does not show the bound on admissions:     *)
(* what makes it hold is that the deque is a suffix of the log of            *)
(* admissions, and that whatever has left the deque is old (MemoryInv).      *)
(***************************************************************************)
EXTENDS Accounts, RateLimiter, SequenceTheorems, TLAPS

\* Who may have the mailbox of an address.
Fits(e, s) == s \in Subjects /\ (e \in handed \/ s = Holder[e])

HolderInv == \A e \in Spellings : Fits(e, holder[e])

\* Who can open a row.
Opens(i, x) ==
  IF users[i].password # None THEN x = users[i].password ELSE Fits(users[i].email, x)

\* A row is a password's and never linked, or Google's for who has the mailbox.
RowInv(i) ==
  /\ Lower[users[i].email] = users[i].email
  /\ users[i].password # None => users[i].sub = None /\ ~users[i].verified
  /\ users[i].password = None => Fits(users[i].email, users[i].sub) /\ users[i].verified

\* The UNIQUE columns.
UniqueRows ==
  \A i, j \in Rows :
    \/ users[i].email = users[j].email
    \/ users[i].sub # None /\ users[i].sub = users[j].sub
    => i = j

\* Everybody was let into a row that is theirs.
OpenedByOwner == \A o \in opened : o.id \in Rows /\ Opens(o.id, o.with)

\* What a request in flight knows.
RequestInv(h) ==
  /\ pc[h] \in {"bySub", "byEmail", "link", "insert", "issue"} =>
       /\ op[h] \in {"register", "login", "google"}
       /\ email[h] \in Spellings /\ Lower[email[h]] = email[h]
       /\ op[h] = "google" => Fits(email[h], secret[h])
       /\ op[h] # "google" => secret[h] \in Passwords
  /\ pc[h] \in {"bySub", "link"} => op[h] = "google"
  /\ pc[h] = "insert" => op[h] # "login"
  /\ pc[h] = "link" => users[found[h]].email = email[h] /\ users[found[h]].verified
  /\ pc[h] = "issue" => Opens(found[h], secret[h])

IInv ==
  /\ TypeOK
  /\ HolderInv
  /\ \A i \in Rows : RowInv(i)
  /\ UniqueRows
  /\ OpenedByOwner
  /\ \A h \in Requests : RequestInv(h)

-----------------------------------------------------------------------------

\* Nothing is a row in an empty table.
LEMMA InitIInv == Init => IInv
<1> SUFFICES ASSUME Init PROVE IInv
  OBVIOUS
<1>1. Rows = {}
  BY DEF Init, Rows
<1>2. TypeOK
  BY AccountsAssumption DEF Init, TypeOK, Labels
<1>3. HolderInv
  BY AccountsAssumption DEF Init, HolderInv, Fits
<1>4. QED
  BY <1>1, <1>2, <1>3 DEF Init, IInv, UniqueRows, OpenedByOwner, RequestInv

\* What is known of a row: its columns, and that its subject opens it.
LEMMA RowFacts ==
  ASSUME IInv, NEW i \in Rows
  PROVE  /\ i \in Ids /\ users[i].email \in Spellings
         /\ users[i].password \in Passwords \cup {None}
         /\ users[i].password = None => users[i].sub \in Subjects
         /\ users[i].sub # None => Opens(i, users[i].sub) /\ users[i].verified
         /\ i < nextId
<1>1. i \in Ids /\ users[i] \in [email : Spellings, password : Passwords \cup {None},
                                 sub : Subjects \cup {None}, verified : BOOLEAN]
  BY DEF IInv, TypeOK, Rows
<1>2. RowInv(i)
  BY <1>1, AccountsAssumption DEF IInv
<1>3. i < nextId
  BY <1>1, AccountsAssumption DEF IInv, TypeOK, Rows
<1>4. QED
  BY <1>1, <1>2, <1>3, AccountsAssumption DEF RowInv, Opens, Fits

\* A step of one request that leaves the table alone.
LEMMA LocalStep ==
  ASSUME IInv, NEW h \in Requests, UNCHANGED <<holder, handed, users, nextId, sessions, opened>>,
         TypeOK', RequestInv(h)',
         \A g \in Requests \ {h} :
           pc'[g] = pc[g] /\ op'[g] = op[g] /\ email'[g] = email[g]
           /\ secret'[g] = secret[g] /\ found'[g] = found[g]
  PROVE  IInv'
<1>1. Rows' = Rows /\ HolderInv'
  BY DEF Rows, IInv, HolderInv, Fits
<1>2. \A i \in Rows' : RowInv(i)'
  BY <1>1 DEF IInv, RowInv, Fits
<1>3. UniqueRows' /\ OpenedByOwner'
  BY <1>1 DEF IInv, UniqueRows, OpenedByOwner, Opens, Fits
<1>4. ASSUME NEW g \in Requests \ {h} PROVE RequestInv(g)'
  BY <1>4 DEF IInv, RequestInv, Opens, Fits
<1>5. QED
  BY <1>1, <1>2, <1>3, <1>4 DEF IInv

LEMMA CallIInv ==
  ASSUME IInv, NEW h \in Requests, NEW e \in Spellings, NEW p \in Passwords,
         NEW endpoint \in {"register", "login"}, Call(h, endpoint, e, p)
  PROVE  IInv'
<1>1. /\ op' = [op EXCEPT ![h] = endpoint]
      /\ email' = [email EXCEPT ![h] = Lower[e]]
      /\ secret' = [secret EXCEPT ![h] = p]
      /\ pc' = [pc EXCEPT ![h] = "byEmail"]
      /\ UNCHANGED <<holder, handed, users, nextId, sessions, opened, found, answer>>
  BY DEF Call, Being, Goto, table, mailboxes
<1>2. Lower[e] \in Spellings /\ Lower[Lower[e]] = Lower[e]
  BY AccountsAssumption
<1>3. TypeOK'
  BY <1>1, <1>2 DEF IInv, TypeOK, Labels, Rows
<1>4. RequestInv(h)'
  BY <1>1, <1>2 DEF IInv, TypeOK, RequestInv
<1>5. QED
  BY <1>1, <1>3, <1>4, LocalStep DEF IInv, TypeOK

LEMMA CallbackIInv ==
  ASSUME IInv, NEW h \in Requests, NEW e \in Spellings, Callback(h, e)
  PROVE  IInv'
<1>1. /\ op' = [op EXCEPT ![h] = "google"]
      /\ email' = [email EXCEPT ![h] = Lower[e]]
      /\ secret' = [secret EXCEPT ![h] = holder[Lower[e]]]
      /\ pc' = [pc EXCEPT ![h] = "bySub"]
      /\ UNCHANGED <<holder, handed, users, nextId, sessions, opened, found, answer>>
  BY DEF Callback, Being, Goto, table, mailboxes
<1>2. Lower[e] \in Spellings /\ Lower[Lower[e]] = Lower[e] /\ Fits(Lower[e], holder[Lower[e]])
  BY AccountsAssumption DEF IInv, HolderInv
<1>3. TypeOK'
  BY <1>1, <1>2 DEF IInv, TypeOK, Labels, Rows, Fits
<1>4. RequestInv(h)'
  BY <1>1, <1>2 DEF IInv, TypeOK, RequestInv, Fits
<1>5. QED
  BY <1>1, <1>3, <1>4, LocalStep DEF IInv, TypeOK

LEMMA AtOnceIInv ==
  ASSUME IInv, NEW h \in Requests,
         \/ CallbackWithoutIdentity(h)
         \/ \E endpoint \in {"me", "search"}, id \in sessions \cup {None} : Authorise(h, endpoint, id)
  PROVE  IInv'
<1>1. /\ pc' = [pc EXCEPT ![h] = "done"]
      /\ op' = [op EXCEPT ![h] = op'[h]] /\ op'[h] \in {"google", "me", "search"}
      /\ email' = email \/ email' = [email EXCEPT ![h] = None]
      /\ secret' = secret \/ secret' = [secret EXCEPT ![h] = None]
      /\ \E a \in {"ok", "refused"} : answer' = [answer EXCEPT ![h] = a]
      /\ UNCHANGED <<holder, handed, users, nextId, sessions, opened, found>>
  BY DEF IInv, TypeOK, CallbackWithoutIdentity, Authorise, Being, Respond, Goto, table, mailboxes
<1>2. TypeOK'
  BY <1>1 DEF IInv, TypeOK, Labels, Rows
<1>3. RequestInv(h)'
  BY <1>1 DEF IInv, TypeOK, RequestInv
<1>4. QED
  BY <1>1, <1>2, <1>3, LocalStep DEF IInv, TypeOK

LEMMA AnswerIInv == ASSUME IInv, NEW h \in Requests, Answer(h) PROVE IInv'
<1>1. /\ pc' = [pc EXCEPT ![h] = "idle"]
      /\ op' = [op EXCEPT ![h] = None]
      /\ email' = [email EXCEPT ![h] = None]
      /\ secret' = [secret EXCEPT ![h] = None]
      /\ found' = [found EXCEPT ![h] = None]
      /\ answer' = [answer EXCEPT ![h] = None]
      /\ UNCHANGED <<holder, handed, users, nextId, sessions, opened>>
  BY DEF Answer, Goto, table, mailboxes
<1>2. TypeOK'
  BY <1>1 DEF IInv, TypeOK, Labels, Rows
<1>3. RequestInv(h)'
  BY <1>1 DEF IInv, TypeOK, RequestInv
<1>4. QED
  BY <1>1, <1>2, <1>3, LocalStep DEF IInv, TypeOK

\* The SELECTs: a request answers, goes on to write, or settles on a row that
\* its secret opens.
LEMMA LookupIInv ==
  ASSUME IInv, NEW h \in Requests,
         LookupSub(h) \/ LookupToRegister(h) \/ LookupToLogin(h) \/ LookupToLink(h)
  PROVE  IInv'
<1>a. TypeOK /\ RequestInv(h)
  BY DEF IInv
<1>b. UNCHANGED <<holder, handed, users, nextId, sessions, opened, op, email, secret>>
  BY DEF LookupSub, LookupToRegister, LookupToLogin, LookupToLink, table, locals, mailboxes
<1>1. CASE /\ pc' = [pc EXCEPT ![h] = "done"]
           /\ answer' = [answer EXCEPT ![h] = "refused"]
           /\ UNCHANGED found
  <2>1. TypeOK'
    BY <1>a, <1>b, <1>1 DEF TypeOK, Labels, Rows
  <2>2. RequestInv(h)'
    BY <1>a, <1>1 DEF TypeOK, RequestInv
  <2>3. QED
    BY <1>a, <1>b, <1>1, <2>1, <2>2, LocalStep DEF TypeOK
<1>2. CASE /\ pc[h] \in {"bySub", "byEmail"}
           /\ \E l \in {"byEmail", "insert"} :
                pc' = [pc EXCEPT ![h] = l] /\ (l = "insert" => op[h] # "login")
           /\ UNCHANGED <<found, answer>>
  <2>1. TypeOK'
    BY <1>a, <1>b, <1>2 DEF TypeOK, Labels, Rows
  <2>2. RequestInv(h)'
    BY <1>a, <1>b, <1>2 DEF TypeOK, RequestInv, Fits
  <2>3. QED
    BY <1>a, <1>b, <1>2, <2>1, <2>2, LocalStep DEF TypeOK
<1>3. ASSUME NEW i \in Rows, NEW l \in {"issue", "link"}, pc[h] \in {"bySub", "byEmail"},
             found' = [found EXCEPT ![h] = i], pc' = [pc EXCEPT ![h] = l], UNCHANGED answer,
             l = "issue" => Opens(i, secret[h]),
             l = "link" => op[h] = "google" /\ users[i].email = email[h] /\ users[i].verified
      PROVE  IInv'
  <2>1. TypeOK'
    BY <1>a, <1>b, <1>3 DEF TypeOK, Labels, Rows
  <2>2. RequestInv(h)'
    BY <1>a, <1>b, <1>3 DEF TypeOK, RequestInv, Opens, Fits
  <2>3. QED
    BY <1>a, <1>b, <1>3, <2>1, <2>2, LocalStep DEF TypeOK
<1>4. CASE LookupSub(h)
  <2>1. pc[h] = "bySub" /\ secret[h] \in Subjects
    BY <1>a, <1>4 DEF LookupSub, RequestInv, Fits
  <2>2. ASSUME NEW i \in WithSub(secret[h]) PROVE i \in Rows /\ Opens(i, secret[h])
    BY <2>1, RowFacts, AccountsAssumption DEF WithSub
  <2>3. QED
    BY <1>2, <1>3, <1>4, <2>1, <2>2 DEF LookupSub, Goto
<1>5. CASE LookupToRegister(h)
  BY <1>1, <1>2, <1>5 DEF LookupToRegister, Respond, Goto, locals
<1>6. CASE LookupToLogin(h)
  <2>1. pc[h] = "byEmail" /\ secret[h] \in Passwords
    BY <1>a, <1>6 DEF LookupToLogin, RequestInv
  <2>2. ASSUME NEW i \in WithEmail(email[h]), users[i].password = secret[h]
        PROVE  i \in Rows /\ Opens(i, secret[h])
    BY <2>1, <2>2, AccountsAssumption DEF WithEmail, Opens
  <2>3. QED
    BY <1>1, <1>3, <1>6, <2>1, <2>2 DEF LookupToLogin, Respond, Goto
<1>7. CASE LookupToLink(h)
  <2>1. pc[h] = "byEmail" /\ op[h] = "google"
    BY <1>7 DEF LookupToLink
  <2>2. ASSUME NEW i \in WithEmail(email[h]) PROVE i \in Rows /\ users[i].email = email[h]
    BY DEF WithEmail
  <2>3. QED
    BY <1>1, <1>2, <1>3, <1>7, <2>1, <2>2 DEF LookupToLink, Respond, Goto
<1>8. QED
  BY <1>4, <1>5, <1>6, <1>7

\* The UPDATE puts the subject of whoever has the mailbox into its row, and into
\* no other: who could open it before still can.
LEMMA LinkIInv == ASSUME IInv, NEW h \in Requests, Link(h) PROVE IInv'
<1>a. TypeOK /\ RequestInv(h) /\ pc[h] = "link" /\ UniqueRows /\ OpenedByOwner
  BY DEF IInv, Link
<1>b. UNCHANGED <<holder, handed, nextId, sessions, opened, op, email, secret, found>>
  BY DEF Link, locals, mailboxes
<1>1. /\ found[h] \in Rows
      /\ users[found[h]].email = email[h] /\ users[found[h]].verified
      /\ Fits(email[h], secret[h])
  BY <1>a DEF TypeOK, RequestInv
<1>2. /\ found[h] \in Ids
      /\ users[found[h]] \in [email : Spellings, password : Passwords \cup {None},
                               sub : Subjects \cup {None}, verified : BOOLEAN]
      /\ users[found[h]].password = None
  BY <1>1, <1>a DEF IInv, RowInv, TypeOK, Rows
<1>3. CASE UNCHANGED users /\ Respond(h, "error")
  <2>1. TypeOK'
    BY <1>3, <1>a, <1>b DEF Respond, Goto, TypeOK, Labels, Rows
  <2>2. RequestInv(h)'
    BY <1>3, <1>a DEF Respond, Goto, TypeOK, RequestInv
  <2>3. QED
    BY <1>3, <1>a, <1>b, <2>1, <2>2, LocalStep DEF Respond, Goto, TypeOK
<1>4. CASE /\ WithSub(secret[h]) \subseteq {found[h]}
           /\ users' = [users EXCEPT ![found[h]].sub = secret[h]]
           /\ pc' = [pc EXCEPT ![h] = "issue"]
           /\ UNCHANGED answer
  <2> DEFINE row == [users[found[h]] EXCEPT !.sub = secret[h]]
  <2>1. /\ row \in [email : Spellings, password : Passwords \cup {None},
                     sub : Subjects \cup {None}, verified : BOOLEAN]
        /\ row # NoRow
        /\ row.email = email[h] /\ row.password = None /\ row.verified /\ row.sub = secret[h]
    BY <1>1, <1>2, AccountsAssumption DEF Fits, NoRow
  <2>2. /\ users'[found[h]] = row
        /\ \A i \in Ids \ {found[h]} : users'[i] = users[i]
        /\ users' \in [Ids -> [email : Spellings, password : Passwords \cup {None},
                              sub : Subjects \cup {None}, verified : BOOLEAN] \cup {NoRow}]
    BY <1>2, <1>4, <1>a, <2>1 DEF TypeOK
  <2> HIDE DEF row
  <2>3. Rows' = Rows /\ Rows \subseteq Ids
    BY <1>1, <2>1, <2>2 DEF Rows
  <2>4. \A i \in Rows : /\ users'[i].email = users[i].email
                        /\ users'[i].password = users[i].password
                        /\ users'[i].verified = users[i].verified
                        /\ users'[i].sub = IF i = found[h] THEN secret[h] ELSE users[i].sub
    BY <1>1, <1>2, <2>1, <2>2, <2>3
  <2>5. TypeOK'
    <3>1. \A i \in Ids : i >= nextId => users'[i] = NoRow
      BY <1>1, <1>a, <2>2 DEF TypeOK, Rows
    <3>2. /\ pc' \in [Requests -> Labels]
          /\ \A g \in Requests : pc'[g] \in {"link", "issue"} => found[g] \in Rows
      BY <1>1, <1>4, <1>a DEF TypeOK, Labels
    <3>3. QED
      BY <1>4, <1>a, <1>b, <2>2, <2>3, <3>1, <3>2 DEF TypeOK
  <2>6. \A i \in Rows : \A x : Opens(i, x)' <=> Opens(i, x)
    BY <1>b, <2>4 DEF Opens, Fits
  <2>7. ASSUME NEW i \in Rows PROVE RowInv(i)'
    BY <1>1, <1>2, <1>b, <2>4 DEF IInv, RowInv, Fits
  <2>8. UniqueRows'
    <3>1. \A i \in Rows : users[i].sub = secret[h] => i = found[h]
      BY <1>4 DEF WithSub
    <3>2. QED
      BY <1>a, <2>3, <2>4, <3>1 DEF UniqueRows
  <2>9. OpenedByOwner' /\ HolderInv'
    BY <1>a, <1>b, <2>3, <2>6 DEF OpenedByOwner, IInv, HolderInv, Fits
  <2>10. Opens(found[h], secret[h])
    BY <1>1, <1>2 DEF Opens
  <2>11. ASSUME NEW g \in Requests PROVE RequestInv(g)'
    <3>1. RequestInv(g) /\ (pc[g] \in {"link", "issue"} => found[g] \in Rows)
      BY <1>a DEF IInv, TypeOK
    <3>2. CASE g = h
      BY <1>1, <1>4, <1>a, <1>b, <2>6, <2>10, <3>2 DEF RequestInv, TypeOK, Fits
    <3>3. CASE g # h
      BY <1>4, <1>a, <1>b, <2>4, <2>6, <3>1, <3>3 DEF RequestInv, TypeOK, Fits
    <3>4. QED
      BY <3>2, <3>3
  <2>12. QED
    BY <2>3, <2>5, <2>7, <2>8, <2>9, <2>11 DEF IInv
<1>5. QED
  BY <1>3, <1>4 DEF Link, Goto

LEMMA IssueIInv == ASSUME IInv, NEW h \in Requests, Issue(h) PROVE IInv'
<1>a. TypeOK /\ RequestInv(h) /\ OpenedByOwner
  BY DEF IInv
<1>1. /\ pc[h] = "issue"
      /\ sessions' = sessions \cup {found[h]}
      /\ opened' = opened \cup {[id |-> found[h], with |-> secret[h]]}
      /\ pc' = [pc EXCEPT ![h] = "done"]
      /\ answer' = [answer EXCEPT ![h] = "ok"]
      /\ UNCHANGED <<holder, handed, users, nextId, op, email, secret, found>>
  BY DEF Issue, Respond, Goto, locals, mailboxes
<1>2. /\ found[h] \in Rows /\ found[h] \in Ids /\ Opens(found[h], secret[h])
      /\ secret[h] \in Passwords \cup Subjects
  BY <1>1, <1>a DEF TypeOK, RequestInv, Rows, Fits
<1>3. TypeOK'
  BY <1>1, <1>2, <1>a DEF TypeOK, Labels, Rows
<1>4. Rows' = Rows /\ \A i, x : Opens(i, x)' <=> Opens(i, x)
  BY <1>1 DEF Rows, Opens, Fits
<1>5. (\A i \in Rows : RowInv(i))' /\ UniqueRows' /\ HolderInv'
  BY <1>1, <1>4 DEF IInv, RowInv, UniqueRows, HolderInv, Fits
<1>6. OpenedByOwner'
  BY <1>1, <1>2, <1>4, <1>a DEF OpenedByOwner
<1>7. ASSUME NEW g \in Requests PROVE RequestInv(g)'
  <2>1. RequestInv(g)
    BY DEF IInv
  <2>2. QED
    BY <1>1, <1>4, <1>a, <2>1 DEF TypeOK, RequestInv, Fits
<1>8. QED
  BY <1>3, <1>5, <1>6, <1>7 DEF IInv

LEMMA InsertIInv == ASSUME IInv, NEW h \in Requests, Insert(h) PROVE IInv'
<1>a. TypeOK /\ RequestInv(h) /\ OpenedByOwner /\ UniqueRows /\ pc[h] = "insert"
  BY DEF IInv, Insert
<1>b. UNCHANGED <<holder, handed, sessions, opened, op, email, secret>>
  BY DEF Insert, mailboxes
<1>1. CASE UNCHANGED <<users, nextId, found>> /\ Respond(h, "error")
  <2>1. TypeOK'
    BY <1>a, <1>b, <1>1 DEF Respond, Goto, TypeOK, Labels, Rows
  <2>2. RequestInv(h)'
    BY <1>a, <1>1 DEF Respond, Goto, TypeOK, RequestInv
  <2>3. QED
    BY <1>a, <1>b, <1>1, <2>1, <2>2, LocalStep DEF Respond, Goto, TypeOK
<1>2. CASE /\ Unique(NewUser(h)) /\ nextId \in Ids
           /\ users' = [users EXCEPT ![nextId] = NewUser(h)]
           /\ nextId' = nextId + 1
           /\ found' = [found EXCEPT ![h] = nextId]
           /\ pc' = [pc EXCEPT ![h] = "issue"]
           /\ UNCHANGED answer
  <2>. PICK n \in Ids : n = nextId
    BY <1>2
  <2>1. /\ op[h] \in {"register", "google"} /\ email[h] \in Spellings /\ Lower[email[h]] = email[h]
        /\ op[h] = "google" => Fits(email[h], secret[h]) /\ secret[h] \in Subjects
        /\ op[h] = "register" => secret[h] \in Passwords
    BY <1>a DEF RequestInv, Fits
  <2>2. /\ NewUser(h) \in [email : Spellings, password : Passwords \cup {None},
                            sub : Subjects \cup {None}, verified : BOOLEAN]
        /\ NewUser(h) # NoRow
        /\ NewUser(h).email = email[h]
        /\ NewUser(h).password = IF op[h] = "register" THEN secret[h] ELSE None
        /\ NewUser(h).sub = IF op[h] = "google" THEN secret[h] ELSE None
        /\ NewUser(h).verified = (op[h] = "google")
    BY <2>1, AccountsAssumption DEF NewUser, NoRow
  <2>3. /\ users'[n] = NewUser(h)
        /\ \A i \in Ids \ {n} : users'[i] = users[i]
    BY <1>2, <1>a DEF TypeOK
  <2>4. n \notin Rows /\ Rows' = Rows \cup {n} /\ Rows \subseteq Ids
    BY <1>2, <1>a, <2>2, <2>3 DEF TypeOK, Rows
  <2>5. TypeOK'
    <3>1. users' \in [Ids -> [email : Spellings, password : Passwords \cup {None},
                             sub : Subjects \cup {None}, verified : BOOLEAN] \cup {NoRow}]
      BY <1>2, <1>a, <2>2 DEF TypeOK
    <3>2. nextId' \in Nat /\ \A i \in Ids : i >= nextId' => users'[i] = NoRow
      BY <1>2, <1>a, <2>3, AccountsAssumption DEF TypeOK
    <3>3. pc' \in [Requests -> Labels] /\ found' \in [Requests -> Ids \cup {None}]
      BY <1>2, <1>a DEF TypeOK, Labels
    <3>4. \A g \in Requests : pc'[g] \in {"link", "issue"} => found'[g] \in Rows'
      BY <1>2, <1>a, <2>4 DEF TypeOK
    <3>5. /\ holder' \in [Spellings -> Subjects] /\ handed' \subseteq Spellings
          /\ sessions' \subseteq Ids
          /\ opened' \subseteq [id : Ids, with : Passwords \cup Subjects]
          /\ op' \in [Requests -> {"register", "login", "google", "me", "search", None}]
          /\ email' \in [Requests -> Spellings \cup {None}]
          /\ secret' \in [Requests -> Passwords \cup Subjects \cup {None}]
          /\ answer' \in [Requests -> {"ok", "refused", "error", None}]
      BY <1>2, <1>a, <1>b DEF TypeOK
    <3>6. QED
      BY <3>1, <3>2, <3>3, <3>4, <3>5, Zenon DEF TypeOK
  <2>6. RowInv(n)' /\ Opens(n, secret[h])'
    BY <1>b, <2>1, <2>2, <2>3, AccountsAssumption DEF RowInv, Opens, Fits
  <2>7. ASSUME NEW i \in Rows PROVE RowInv(i)' /\ \A x : Opens(i, x)' <=> Opens(i, x)
    BY <1>b, <2>3, <2>4 DEF IInv, RowInv, Opens, Fits
  <2>8. UniqueRows'
    <3>1. ASSUME NEW i \in Rows
          PROVE  /\ users[i].email # email[h]
                 /\ users[i].sub # None => users[i].sub # NewUser(h).sub
      BY <1>2, <2>2 DEF Unique, WithEmail, WithSub
    <3>2. ASSUME NEW i \in Rows
          PROVE  /\ users'[i].email # users'[n].email
                 /\ users'[i].sub # None => users'[i].sub # users'[n].sub
      BY <2>2, <2>3, <2>4, <3>1
    <3>3. \A i \in Rows : users'[i] = users[i]
      BY <2>3, <2>4
    <3>4. SUFFICES ASSUME NEW i \in Rows', NEW j \in Rows',
                          \/ users'[i].email = users'[j].email
                          \/ users'[i].sub # None /\ users'[i].sub = users'[j].sub
                   PROVE  i = j
      BY DEF UniqueRows
    <3>5. CASE i \in Rows /\ j \in Rows
      BY <1>a, <3>3, <3>4, <3>5 DEF UniqueRows
    <3>6. CASE i = n \/ j = n
      BY <2>4, <3>2, <3>4, <3>6
    <3>7. QED
      BY <2>4, <3>5, <3>6
  <2>9. OpenedByOwner'
    BY <1>a, <1>b, <2>4, <2>7 DEF OpenedByOwner
  <2>10. ASSUME NEW g \in Requests PROVE RequestInv(g)'
    <3>1. CASE g = h
      BY <1>2, <1>a, <1>b, <2>1, <2>6, <3>1 DEF TypeOK, RequestInv, Opens, Fits
    <3>2. CASE g # h
      <4>1. /\ RequestInv(g) /\ pc'[g] = pc[g] /\ found'[g] = found[g]
            /\ pc[g] \in {"link", "issue"} => found[g] \in Rows
        BY <1>2, <1>a, <3>2 DEF IInv, TypeOK
      <4>2. \A i \in Rows : users'[i] = users[i]
        BY <2>3, <2>4
      <4>3. op'[g] = op[g] /\ email'[g] = email[g] /\ secret'[g] = secret[g]
        BY <1>b
      <4>4. pc[g] \in {"link", "issue"} =>
              users'[found[g]] = users[found[g]] /\ (Opens(found[g], secret[g])' <=> Opens(found[g], secret[g]))
        BY <1>b, <2>7, <4>1, <4>2 DEF Opens, Fits
      <4>5. QED
        BY <1>b, <4>1, <4>3, <4>4 DEF RequestInv, Fits
    <3>3. QED
      BY <3>1, <3>2
  <2>11. QED
    BY <1>b, <2>4, <2>5, <2>6, <2>7, <2>8, <2>9, <2>10 DEF IInv, HolderInv, Fits
<1>3. QED
  BY <1>1, <1>2 DEF Insert, Goto

\* A restart that loses the file loses who was let in with it.
LEMMA RestartIInv == ASSUME IInv, Restart PROVE IInv'
<1>1. \A g \in Requests : pc'[g] = "idle"
  BY DEF Restart
<1>2. \A g \in Requests : RequestInv(g)'
  BY <1>1 DEF RequestInv
<1>m. UNCHANGED <<holder, handed>> /\ HolderInv'
  BY DEF Restart, mailboxes, IInv, HolderInv, Fits
<1>3. CASE UNCHANGED <<users, opened>>
  <2>1. Rows' = Rows
    BY <1>3 DEF Rows
  <2>2. TypeOK'
    BY <1>3, <2>1 DEF IInv, Restart, mailboxes, TypeOK, Labels
  <2>3. QED
    BY <1>m, <1>2, <1>3, <2>1, <2>2 DEF IInv, RowInv, UniqueRows, OpenedByOwner, Opens, Fits
<1>4. CASE users' = [i \in Ids |-> NoRow] /\ opened' = {}
  <2>1. Rows' = {}
    BY <1>4 DEF Rows
  <2>2. TypeOK'
    BY <1>4 DEF IInv, Restart, mailboxes, TypeOK, Labels
  <2>3. QED
    BY <1>m, <1>2, <1>4, <2>1, <2>2 DEF IInv, UniqueRows, OpenedByOwner
<1>5. QED
  BY <1>3, <1>4 DEF Restart

\* A mailbox that changes hands makes room for a subject, and takes none away.
LEMMA HandOverIInv ==
  ASSUME IInv, NEW e \in Spellings, NEW s \in Subjects, HandOver(e, s) PROVE IInv'
<1>1. /\ holder' = [holder EXCEPT ![e] = s]
      /\ handed' = handed \cup {e}
      /\ UNCHANGED <<users, nextId, sessions, opened, pc, op, email, secret, found, answer>>
  BY DEF HandOver, table, locals
<1>2. Rows' = Rows
  BY <1>1 DEF Rows
<1>3. TypeOK'
  BY <1>1, <1>2 DEF IInv, TypeOK
<1>4. HolderInv'
  BY <1>1 DEF IInv, TypeOK, HolderInv, Fits
<1>5. \A a, x : Fits(a, x) => Fits(a, x)'
  BY <1>1 DEF Fits
<1>6. \A i, x : Opens(i, x) => Opens(i, x)'
  BY <1>1, <1>5 DEF Opens
<1>7. /\ \A i \in Rows' : RowInv(i)'
      /\ UniqueRows' /\ OpenedByOwner'
  BY <1>1, <1>2, <1>5, <1>6 DEF IInv, RowInv, UniqueRows, OpenedByOwner
<1>8. \A h \in Requests : RequestInv(h)'
  BY <1>1, <1>5, <1>6 DEF IInv, RequestInv
<1>9. QED
  BY <1>3, <1>4, <1>7, <1>8 DEF IInv

LEMMA NextIInv == IInv /\ [Next]_vars => IInv'
<1> SUFFICES ASSUME IInv, [Next]_vars PROVE IInv'
  OBVIOUS
<1>1. ASSUME NEW h \in Requests,
             LookupSub(h) \/ LookupToRegister(h) \/ LookupToLogin(h) \/ LookupToLink(h)
             \/ Link(h) \/ Insert(h) \/ Issue(h) \/ Answer(h)
      PROVE  IInv'
  BY <1>1, LookupIInv, LinkIInv, InsertIInv, IssueIInv, AnswerIInv
<1>2. ASSUME NEW h \in Requests, NEW e \in Spellings,
             \/ \E p \in Passwords : Call(h, "register", e, p) \/ Call(h, "login", e, p)
             \/ Callback(h, e)
      PROVE  IInv'
  BY <1>2, CallIInv, CallbackIInv
<1>3. ASSUME NEW h \in Requests,
             \/ CallbackWithoutIdentity(h)
             \/ \E endpoint \in {"me", "search"}, id \in sessions \cup {None} :
                  Authorise(h, endpoint, id)
      PROVE  IInv'
  BY <1>3, AtOnceIInv
<1>4. CASE UNCHANGED vars
  <2>1. UNCHANGED <<holder, handed, Rows, users, nextId, sessions, opened, pc, op, email, secret, found, answer>>
    BY <1>4 DEF vars, Rows
  <2>2. QED
    BY <2>1 DEF IInv, TypeOK, HolderInv, RowInv, UniqueRows, OpenedByOwner, RequestInv, Opens, Fits
<1>5. QED
  BY <1>1, <1>2, <1>3, <1>4, RestartIInv, HandOverIInv DEF Next

LEMMA Inductive == Spec => []IInv
<1>1. QED
  BY InitIInv, NextIInv, PTL DEF Spec

-----------------------------------------------------------------------------

\* The columns and the handlers' variables keep their types.
THEOREM TypeCorrect == Spec => []TypeOK
<1>1. IInv => TypeOK
  BY DEF IInv
<1>2. QED
  BY <1>1, Inductive, PTL

\* Whoever registers an address and whoever owns its mailbox never open the
\* same account, and two Google identities only where the account's mailbox has
\* changed hands (google_oauth.py:65-90).
THEOREM AccountsAreNotShared == Spec => []NeverShared
<1>1. IInv => NeverShared
  <2> SUFFICES ASSUME IInv, NEW a \in opened, NEW b \in opened, a.id = b.id
               PROVE  \/ a.with = b.with
                      \/ {a.with, b.with} \subseteq Subjects /\ users[a.id].email \in handed
    BY DEF NeverShared
  <2>1. Opens(a.id, a.with) /\ Opens(a.id, b.with)
    BY DEF IInv, OpenedByOwner
  <2>2. QED
    BY <2>1 DEF Opens, Fits
<1>2. QED
  BY <1>1, Inductive, PTL

\* A Google identity keeps its account, also when its first sign-ins race,
\* while its mailboxes stay its own (google_oauth.py:65-90).
THEOREM SubjectsKeepAccounts == Spec => []SubjectKeepsAccount
<1>1. IInv => SubjectKeepsAccount
  <2> SUFFICES ASSUME IInv, NEW a \in opened, NEW b \in opened, a.with = b.with, a.with \in Subjects,
                      {users[a.id].email, users[b.id].email} \cap handed = {}
               PROVE  a.id = b.id
    BY DEF SubjectKeepsAccount
  <2>1. a.id \in Rows /\ Opens(a.id, a.with) /\ b.id \in Rows /\ Opens(b.id, a.with)
    BY DEF IInv, OpenedByOwner
  <2>2. ASSUME NEW i \in Rows, Opens(i, a.with), users[i].email \notin handed
        PROVE  users[i].sub = a.with
    <3>1. users[i].password = None
      BY <2>2, RowFacts, AccountsAssumption DEF Opens
    <3>2. QED
      BY <2>2, <3>1 DEF IInv, RowInv, Opens, Fits
  <2>3. a.with # None
    BY AccountsAssumption
  <2>4. QED
    BY <2>1, <2>2, <2>3 DEF IInv, UniqueRows
<1>2. QED
  BY <1>1, Inductive, PTL

\* A mailbox has one account, however it is spelled (google_oauth.py:139).
THEOREM AddressesAreUnique == Spec => []OneAccountPerAddress
<1>1. IInv => OneAccountPerAddress
  BY DEF IInv, RowInv, UniqueRows, OneAccountPerAddress
<1>2. QED
  BY <1>1, Inductive, PTL

-----------------------------------------------------------------------------
\* The limiter.

\* How the deque h relates to the log l of admissions at time c.
MemoryInv(h, l, c) ==
  /\ Len(h) <= MaxRequests
  /\ Len(h) <= Len(l)
  /\ \A i \in 1..Len(h) :
       /\ h[i] <= l[Len(l) - Len(h) + i]
       /\ l[Len(l) - Len(h) + i] <= h[i] + Delay
  /\ \A j \in 1..(Len(l) - Len(h)) : c - l[j] >= Window - Delay

\* A time that was read at most Delay ago.
Fresh(at, c) == at <= c /\ c <= at + Delay

\* The statement of AtMostMaxPerWindow about one log.
Spaced(l) ==
  \A i \in 1..(Len(l) - MaxRequests) : l[i + MaxRequests] - l[i] >= Window - Delay

LimitersInv == \A m \in Limiters : MemoryInv(hits[m], log[m], clock)

HandlersInv == \A t \in Threads : phase[t] = "locking" => Fresh(now[t], clock)

LimiterInv == LimiterTypeOK /\ LimitersInv /\ HandlersInv /\ AtMostMaxPerWindow

\* What remains of a deque once n hits are popped.
LEMMA Suffix ==
  ASSUME NEW h \in Seq(Nat), NEW n \in 0..Len(h)
  PROVE  LET k == SubSeq(h, n + 1, Len(h)) IN
         /\ k \in Seq(Nat)
         /\ Len(k) = Len(h) - n
         /\ \A i \in 1..(Len(h) - n) : k[i] = h[n + i]
<1>1. Len(h) \in Nat /\ \A i \in (n + 1)..Len(h) : h[i] \in Nat
  BY LenProperties
<1> DEFINE k == SubSeq(h, n + 1, Len(h))
<1>2. /\ k \in Seq(Nat)
      /\ Len(k) = IF n + 1 <= Len(h) THEN Len(h) - (n + 1) + 1 ELSE 0
      /\ \A i \in 1 .. Len(h) - (n + 1) + 1 : k[i] = h[(n + 1) + i - 1]
  BY <1>1, SubSeqProperties
<1> HIDE DEF k
<1>3. Len(k) = Len(h) - n
  BY <1>1, <1>2
<1>4. \A i \in 1..(Len(h) - n) : k[i] = h[n + i]
  <2>1. TAKE i \in 1..(Len(h) - n)
  <2>2. i \in 1 .. Len(h) - (n + 1) + 1 /\ (n + 1) + i - 1 = n + i
    BY <1>1
  <2>3. QED
    BY <1>2, <2>2
<1>5. QED
  BY <1>2, <1>3, <1>4 DEF k

\* Popping outdated hits keeps the invariant: they are old enough to forget.
LEMMA PopsKeeps ==
  ASSUME NEW h \in Seq(Nat), NEW l \in Seq(Nat), NEW c \in Nat, NEW at \in Nat,
         Fresh(at, c), MemoryInv(h, l, c), NEW n \in 0..Len(h), Pops(n, h, at)
  PROVE  MemoryInv(SubSeq(h, n + 1, Len(h)), l, c)
<1> DEFINE k == SubSeq(h, n + 1, Len(h))
<1>1. /\ k \in Seq(Nat)
      /\ Len(k) = Len(h) - n
      /\ \A i \in 1..(Len(h) - n) : k[i] = h[n + i]
  BY Suffix
<1> HIDE DEF k
<1>2. /\ Len(h) \in Nat /\ Len(l) \in Nat
      /\ \A i \in 1..Len(h) : h[i] \in Nat
      /\ \A j \in 1..Len(l) : l[j] \in Nat
  BY LenProperties
<1>3. Len(k) <= MaxRequests /\ Len(k) <= Len(l)
  BY <1>1, <1>2, LimiterAssumption DEF MemoryInv
<1>4. \A i \in 1..Len(k) : /\ k[i] <= l[Len(l) - Len(k) + i]
                           /\ l[Len(l) - Len(k) + i] <= k[i] + Delay
  <2>1. TAKE i \in 1..Len(k)
  <2>2. n + i \in 1..Len(h) /\ k[i] = h[n + i]
        /\ Len(l) - Len(k) + i = Len(l) - Len(h) + (n + i)
    BY <1>1, <1>2
  <2>3. QED
    BY <2>2 DEF MemoryInv
<1>5. \A j \in 1..(Len(l) - Len(k)) : c - l[j] >= Window - Delay
  <2>1. TAKE j \in 1..(Len(l) - Len(k))
  <2>2. CASE j <= Len(l) - Len(h)
    BY <1>1, <1>2, <2>2 DEF MemoryInv
  <2>3. CASE j > Len(l) - Len(h)
    <3> DEFINE i == j - (Len(l) - Len(h))
    <3>1. i \in 1..n /\ i \in 1..Len(h) /\ Len(l) - Len(h) + i = j
      <4>1. Len(h) \in Nat /\ Len(l) \in Nat /\ n \in 0..Len(h) /\ Len(k) = Len(h) - n
        BY <1>1, <1>2
      <4>2. QED
        BY <2>3, <4>1
    <3>2. at - h[i] >= Window
      BY <3>1 DEF Pops, Outdated
    <3>3. l[j] <= h[i] + Delay /\ h[i] \in Nat /\ l[j] \in Nat
      <4>1. j \in 1..Len(l)
        BY <1>1, <1>2
      <4>2. QED
        BY <1>2, <3>1, <4>1 DEF MemoryInv
    <3> HIDE DEF i
    <3>4. QED
      BY <3>2, <3>3, LimiterAssumption, SMTT(20) DEF Fresh
  <2>4. QED
    BY <1>1, <1>2, <2>2, <2>3
<1>6. QED
  BY <1>3, <1>4, <1>5 DEF MemoryInv, k

\* Recording an admission keeps the invariant while there is room.
LEMMA AppendKeeps ==
  ASSUME NEW h \in Seq(Nat), NEW l \in Seq(Nat), NEW c \in Nat, NEW at \in Nat,
         Fresh(at, c), MemoryInv(h, l, c), Room(Len(h))
  PROVE  MemoryInv(Append(h, at), Append(l, c), c)
<1> DEFINE k == Append(h, at)
           r == Append(l, c)
<1>1. /\ Len(k) = Len(h) + 1
      /\ \A i \in 1..Len(h) : k[i] = h[i]
      /\ k[Len(h) + 1] = at
  BY AppendProperties
<1>2. /\ Len(r) = Len(l) + 1
      /\ \A i \in 1..Len(l) : r[i] = l[i]
      /\ r[Len(l) + 1] = c
  BY AppendProperties
<1> HIDE DEF k, r
<1>3. Len(h) \in Nat /\ Len(l) \in Nat
  BY LenProperties
<1>4. Len(k) <= MaxRequests /\ Len(k) <= Len(r)
  BY <1>1, <1>2, <1>3, LimiterAssumption DEF MemoryInv, Room
<1>5. \A i \in 1..Len(k) : /\ k[i] <= r[Len(r) - Len(k) + i]
                           /\ r[Len(r) - Len(k) + i] <= k[i] + Delay
  <2>1. TAKE i \in 1..Len(k)
  <2>2. CASE i \in 1..Len(h)
    <3>1. /\ Len(r) - Len(k) + i = Len(l) - Len(h) + i
          /\ Len(l) - Len(h) + i \in 1..Len(l)
      BY <1>1, <1>2, <1>3, <2>2 DEF MemoryInv
    <3>2. QED
      BY <1>1, <1>2, <2>2, <3>1 DEF MemoryInv
  <2>3. CASE i = Len(h) + 1
    <3>1. Len(r) - Len(k) + i = Len(l) + 1
      BY <1>1, <1>2, <1>3, <2>3
    <3>2. QED
      BY <1>1, <1>2, <2>3, <3>1 DEF Fresh
  <2>4. QED
    BY <1>1, <1>3, <2>2, <2>3
<1>6. \A j \in 1..(Len(r) - Len(k)) : c - r[j] >= Window - Delay
  <2>1. TAKE j \in 1..(Len(r) - Len(k))
  <2>2. j \in 1..(Len(l) - Len(h)) /\ j \in 1..Len(l)
    BY <1>1, <1>2, <1>3
  <2>3. QED
    BY <1>2, <2>2 DEF MemoryInv
<1>7. QED
  BY <1>4, <1>5, <1>6 DEF MemoryInv, k, r

\* With room in the deque, the next admission respects the bound: the one
\* MaxRequests before it has left the deque.
LEMMA AppendSpaced ==
  ASSUME NEW h \in Seq(Nat), NEW l \in Seq(Nat), NEW c \in Nat,
         MemoryInv(h, l, c), Room(Len(h)), Spaced(l)
  PROVE  Spaced(Append(l, c))
<1> DEFINE r == Append(l, c)
<1>1. /\ Len(r) = Len(l) + 1
      /\ \A i \in 1..Len(l) : r[i] = l[i]
      /\ r[Len(l) + 1] = c
  BY AppendProperties
<1> HIDE DEF r
<1>2. Len(h) \in Nat /\ Len(l) \in Nat
  BY LenProperties
<1>3. SUFFICES ASSUME NEW i \in 1..(Len(r) - MaxRequests)
               PROVE  r[i + MaxRequests] - r[i] >= Window - Delay
  BY DEF Spaced, r
<1>4. i \in 1..Len(l)
  BY <1>1, <1>2, LimiterAssumption
<1>5. CASE i + MaxRequests <= Len(l)
  <2>1. i \in 1..(Len(l) - MaxRequests) /\ i + MaxRequests \in 1..Len(l)
    BY <1>2, <1>4, <1>5, LimiterAssumption
  <2>2. QED
    BY <1>1, <1>4, <2>1 DEF Spaced
<1>6. CASE i + MaxRequests = Len(l) + 1
  <2>1. i \in 1..(Len(l) - Len(h))
    BY <1>2, <1>4, <1>6, LimiterAssumption DEF Room
  <2>2. QED
    BY <1>1, <1>4, <1>6, <2>1 DEF MemoryInv
<1>7. QED
  BY <1>1, <1>2, <1>3, <1>5, <1>6, LimiterAssumption

\* The empty limiters satisfy the invariant.
LEMMA InitLimiterInv == LimiterInit => LimiterInv
<1> SUFFICES ASSUME LimiterInit PROVE LimiterInv
  OBVIOUS
<1>1. LimiterTypeOK
  BY EmptySeq DEF LimiterInit, LimiterTypeOK
<1>2. LimitersInv
  BY LimiterAssumption DEF LimiterInit, LimitersInv, MemoryInv
<1>3. HandlersInv
  BY DEF LimiterInit, HandlersInv
<1>4. AtMostMaxPerWindow
  BY LimiterAssumption DEF LimiterInit, AtMostMaxPerWindow
<1>5. QED
  BY <1>1, <1>2, <1>3, <1>4 DEF LimiterInv

\* What holds of the limiter a handler is about to decide with.
LEMMA AtTheLock ==
  ASSUME LimiterInv, NEW t \in Threads, phase[t] = "locking"
  PROVE  /\ asking[t] \in Limiters
         /\ hits[asking[t]] \in Seq(Nat)
         /\ log[asking[t]] \in Seq(Nat)
         /\ MemoryInv(hits[asking[t]], log[asking[t]], clock)
         /\ now[t] \in Nat /\ clock \in Nat
         /\ Fresh(now[t], clock)
BY DEF LimiterInv, LimiterTypeOK, LimitersInv, HandlersInv

\* A refusal changes one deque, by popping.
LEMMA RejectLimiterInv ==
  ASSUME LimiterInv, NEW t \in Threads, Reject(t)
  PROVE  LimiterInv'
<1> DEFINE a == asking[t]
           s == hits[a]
<1>1. PICK n \in 0..Len(s) :
        /\ Pops(n, s, now[t])
        /\ hits' = [hits EXCEPT ![a] = SubSeq(s, n + 1, Len(s))]
  BY DEF Reject
<1>2. /\ a \in Limiters /\ s \in Seq(Nat) /\ log[a] \in Seq(Nat)
      /\ MemoryInv(s, log[a], clock)
      /\ now[t] \in Nat /\ clock \in Nat /\ Fresh(now[t], clock)
  BY AtTheLock DEF Reject
<1>3. /\ phase' = [phase EXCEPT ![t] = "idle"]
      /\ UNCHANGED <<clock, asking, now, log>>
  BY DEF Reject
<1>4. SubSeq(s, n + 1, Len(s)) \in Seq(Nat)
  BY <1>2, Suffix
<1>5. MemoryInv(SubSeq(s, n + 1, Len(s)), log[a], clock)
  BY <1>1, <1>2, PopsKeeps
<1> HIDE DEF a, s
<1>6. LimiterTypeOK'
  BY <1>1, <1>2, <1>3, <1>4 DEF LimiterInv, LimiterTypeOK
<1>7. LimitersInv'
  <2>1. SUFFICES ASSUME NEW m \in Limiters PROVE MemoryInv(hits'[m], log[m], clock)
    BY <1>3 DEF LimitersInv
  <2>2. hits'[m] = IF m = a THEN SubSeq(s, n + 1, Len(s)) ELSE hits[m]
    BY <1>1 DEF LimiterInv, LimiterTypeOK
  <2>3. QED
    BY <1>5, <2>2 DEF LimiterInv, LimitersInv
<1>8. HandlersInv'
  BY <1>3 DEF LimiterInv, LimiterTypeOK, HandlersInv
<1>9. AtMostMaxPerWindow'
  BY <1>3 DEF LimiterInv, AtMostMaxPerWindow
<1>10. QED
  BY <1>6, <1>7, <1>8, <1>9 DEF LimiterInv

\* An admission pops, then appends to the deque and to the log.
LEMMA AdmitLimiterInv ==
  ASSUME LimiterInv, NEW t \in Threads, Admit(t)
  PROVE  LimiterInv'
<1> DEFINE a == asking[t]
           s == hits[a]
<1>1. PICK n \in 0..Len(s) :
        /\ Pops(n, s, now[t])
        /\ Room(Len(s) - n)
        /\ hits' = [hits EXCEPT ![a] = Append(SubSeq(s, n + 1, Len(s)), now[t])]
  BY DEF Admit
<1>2. /\ a \in Limiters /\ s \in Seq(Nat) /\ log[a] \in Seq(Nat)
      /\ MemoryInv(s, log[a], clock)
      /\ now[t] \in Nat /\ clock \in Nat /\ Fresh(now[t], clock)
  BY AtTheLock DEF Admit
<1>3. /\ phase' = [phase EXCEPT ![t] = "idle"]
      /\ log' = [log EXCEPT ![a] = Append(log[a], clock)]
      /\ UNCHANGED <<clock, asking, now>>
  BY DEF Admit
<1> DEFINE k == SubSeq(s, n + 1, Len(s))
<1>4. k \in Seq(Nat) /\ Len(k) = Len(s) - n
  BY <1>2, Suffix
<1>5. MemoryInv(k, log[a], clock) /\ Room(Len(k))
  BY <1>1, <1>2, <1>4, PopsKeeps
<1> HIDE DEF a, s, k
<1>6. hits' = [hits EXCEPT ![a] = Append(k, now[t])]
  BY <1>1 DEF k
<1>7. MemoryInv(Append(k, now[t]), Append(log[a], clock), clock)
  BY <1>2, <1>4, <1>5, AppendKeeps
<1>8. Append(k, now[t]) \in Seq(Nat) /\ Append(log[a], clock) \in Seq(Nat)
  BY <1>2, <1>4, AppendProperties
<1>9. LimiterTypeOK'
  BY <1>2, <1>3, <1>6, <1>8 DEF LimiterInv, LimiterTypeOK
<1>10. \A m \in Limiters :
         /\ hits'[m] = IF m = a THEN Append(k, now[t]) ELSE hits[m]
         /\ log'[m] = IF m = a THEN Append(log[a], clock) ELSE log[m]
  BY <1>3, <1>6 DEF LimiterInv, LimiterTypeOK
<1>11. LimitersInv'
  <2>1. SUFFICES ASSUME NEW m \in Limiters PROVE MemoryInv(hits'[m], log'[m], clock)
    BY <1>3 DEF LimitersInv
  <2>2. QED
    BY <1>7, <1>10 DEF LimiterInv, LimitersInv
<1>12. HandlersInv'
  BY <1>3 DEF LimiterInv, LimiterTypeOK, HandlersInv
<1>13. AtMostMaxPerWindow'
  <2>1. SUFFICES ASSUME NEW m \in Limiters PROVE Spaced(log'[m])
    BY DEF AtMostMaxPerWindow, Spaced
  <2>2. Spaced(log[m]) /\ Spaced(log[a])
    BY <1>2 DEF LimiterInv, AtMostMaxPerWindow, Spaced
  <2>3. Spaced(Append(log[a], clock))
    BY <1>2, <1>4, <1>5, <2>2, AppendSpaced
  <2>4. QED
    BY <1>10, <2>2, <2>3
<1>14. QED
  BY <1>9, <1>11, <1>12, <1>13 DEF LimiterInv

\* What has been forgotten only gets older.
LEMMA Ageing ==
  ASSUME NEW h \in Seq(Nat), NEW l \in Seq(Nat), NEW c \in Nat, MemoryInv(h, l, c)
  PROVE  MemoryInv(h, l, c + 1)
<1>1. Len(h) \in Nat /\ Len(l) \in Nat /\ \A j \in 1..Len(l) : l[j] \in Nat
  BY LenProperties
<1>2. \A j \in 1..(Len(l) - Len(h)) : c + 1 - l[j] >= Window - Delay
  BY <1>1, LimiterAssumption DEF MemoryInv
<1>3. QED
  BY <1>2 DEF MemoryInv

\* Time passes for every limiter, within the handlers' waits.
LEMMA TickLimiterInv ==
  ASSUME LimiterInv, Tick
  PROVE  LimiterInv'
<1>1. /\ clock \in Nat /\ clock' = clock + 1 /\ clock' \in Nat
      /\ UNCHANGED <<hits, phase, asking, now, log>>
  BY DEF LimiterInv, LimiterTypeOK, Tick
<1>2. LimiterTypeOK'
  BY <1>1 DEF LimiterInv, LimiterTypeOK
<1>3. LimitersInv'
  <2>1. SUFFICES ASSUME NEW m \in Limiters PROVE MemoryInv(hits[m], log[m], clock + 1)
    BY <1>1 DEF LimitersInv
  <2>2. hits[m] \in Seq(Nat) /\ log[m] \in Seq(Nat) /\ MemoryInv(hits[m], log[m], clock)
    BY DEF LimiterInv, LimiterTypeOK, LimitersInv
  <2>3. QED
    BY <1>1, <2>2, Ageing
<1>4. HandlersInv'
  BY <1>1, LimiterAssumption DEF LimiterInv, LimiterTypeOK, HandlersInv, Fresh, Tick
<1>5. AtMostMaxPerWindow'
  BY <1>1 DEF LimiterInv, AtMostMaxPerWindow
<1>6. QED
  BY <1>2, <1>3, <1>4, <1>5 DEF LimiterInv

\* A restarted instance begins with an empty deque and an empty log.
LEMMA ReplaceLimiterInv ==
  ASSUME LimiterInv, NEW i \in Instances, Replace(i)
  PROVE  LimiterInv'
<1>1. /\ \A m \in Limiters : /\ hits'[m] = IF m[1] = i THEN <<>> ELSE hits[m]
                             /\ log'[m] = IF m[1] = i THEN <<>> ELSE log[m]
      /\ \A t \in Threads : phase'[t] \in {phase[t], "idle"}
      /\ UNCHANGED <<clock, asking, now>>
  BY DEF Replace
<1>2. LimiterTypeOK'
  BY EmptySeq DEF LimiterInv, LimiterTypeOK, Replace
<1>3. LimitersInv'
  <2>1. MemoryInv(<<>>, <<>>, clock)
    BY LimiterAssumption DEF MemoryInv
  <2>2. QED
    BY <1>1, <2>1 DEF LimiterInv, LimitersInv
<1>4. HandlersInv'
  BY <1>1 DEF LimiterInv, LimiterTypeOK, HandlersInv
<1>5. AtMostMaxPerWindow'
  <2>1. Spaced(<<>>)
    BY LimiterAssumption DEF Spaced
  <2>2. \A m \in Limiters : Spaced(log[m])
    BY DEF LimiterInv, AtMostMaxPerWindow, Spaced
  <2>3. \A m \in Limiters : Spaced(log'[m])
    BY <1>1, <2>1, <2>2
  <2>4. QED
    BY <2>3 DEF AtMostMaxPerWindow, Spaced
<1>6. QED
  BY <1>2, <1>3, <1>4, <1>5 DEF LimiterInv

\* Every step keeps the invariant.
LEMMA NextLimiterInv == LimiterInv /\ [LimiterNext]_limiterVars => LimiterInv'
<1> SUFFICES ASSUME LimiterInv, [LimiterNext]_limiterVars PROVE LimiterInv'
  OBVIOUS
<1>1. ASSUME NEW t \in Threads, ReadClock(t) PROVE LimiterInv'
  <2>1. PICK m \in Limiters : asking' = [asking EXCEPT ![t] = m]
    BY <1>1 DEF ReadClock
  <2>2. LimiterTypeOK'
    BY <1>1, <2>1 DEF LimiterInv, LimiterTypeOK, ReadClock
  <2>3. LimitersInv' /\ AtMostMaxPerWindow'
    BY <1>1 DEF LimiterInv, LimitersInv, AtMostMaxPerWindow, ReadClock
  <2>4. HandlersInv'
    BY <1>1, LimiterAssumption DEF LimiterInv, LimiterTypeOK, HandlersInv, Fresh, ReadClock
  <2>5. QED
    BY <2>2, <2>3, <2>4 DEF LimiterInv
<1>2. CASE UNCHANGED limiterVars
  BY <1>2 DEF LimiterInv, LimiterTypeOK, LimitersInv, HandlersInv, AtMostMaxPerWindow, limiterVars
<1>3. QED
  BY <1>1, <1>2, RejectLimiterInv, AdmitLimiterInv, TickLimiterInv, ReplaceLimiterInv DEF LimiterNext

\* The invariant holds in every reachable state.
LEMMA LimiterInvHolds == LimiterSpec => []LimiterInv
BY InitLimiterInv, NextLimiterInv, PTL DEF LimiterSpec

\* The limiter's state is well typed.
THEOREM LimiterTypeCorrect == LimiterSpec => []LimiterTypeOK
<1>1. LimiterInv => LimiterTypeOK
  BY DEF LimiterInv
<1>2. QED
  BY <1>1, LimiterInvHolds, PTL

\* However the handlers are delayed and reordered between reading the clock
\* and taking the lock, admissions are spaced as allow intends.
THEOREM WindowHolds == LimiterSpec => []AtMostMaxPerWindow
<1>1. LimiterInv => AtMostMaxPerWindow
  BY DEF LimiterInv
<1>2. QED
  BY <1>1, LimiterInvHolds, PTL

\* The statement of RejectedOnlyWhenFull about one step.
JustRefusals ==
  \A t \in Threads :
    LET s == log[asking[t]] IN
    Reject(t) => /\ Len(s) >= MaxRequests
                 /\ clock - s[Len(s) - MaxRequests + 1] < Window + Delay

\* The deque that refuses is full, and its head is as old as the admission
\* MaxRequests ago.
LEMMA RefusalIsJust == LimiterInv => JustRefusals
<1> SUFFICES ASSUME LimiterInv, NEW t \in Threads, Reject(t)
             PROVE  LET l == log[asking[t]] IN
                    /\ Len(l) >= MaxRequests
                    /\ clock - l[Len(l) - MaxRequests + 1] < Window + Delay
  BY DEF JustRefusals
<1> DEFINE s == hits[asking[t]]
           l == log[asking[t]]
<1>1. PICK n \in 0..Len(s) : Pops(n, s, now[t]) /\ ~Room(Len(s) - n)
  BY DEF Reject
<1>2. /\ s \in Seq(Nat) /\ l \in Seq(Nat)
      /\ MemoryInv(s, l, clock)
      /\ now[t] \in Nat /\ clock \in Nat /\ Fresh(now[t], clock)
  BY AtTheLock DEF Reject
<1> HIDE DEF s, l
<1>3. Len(s) \in Nat /\ Len(l) \in Nat /\ (\A i \in 1..Len(s) : s[i] \in Nat)
  BY <1>2, LenProperties
<1>4. Len(s) <= MaxRequests /\ Len(s) <= Len(l)
  BY <1>2 DEF MemoryInv
<1>5. n = 0 /\ Len(s) = MaxRequests
  BY <1>1, <1>3, <1>4, LimiterAssumption DEF Room
<1>6. 1 \in 1..Len(s) /\ s[1] \in Nat /\ ~Outdated(s[1], now[t])
  BY <1>1, <1>3, <1>5, LimiterAssumption DEF Pops
<1>7. /\ s[1] <= l[Len(l) - MaxRequests + 1]
      /\ Len(l) - MaxRequests + 1 \in 1..Len(l)
  BY <1>2, <1>3, <1>4, <1>5, <1>6, LimiterAssumption DEF MemoryInv
<1>8. l[Len(l) - MaxRequests + 1] \in Nat
  BY <1>2, <1>7, LenProperties
<1>9. clock - l[Len(l) - MaxRequests + 1] < Window + Delay
  <2>1. now[t] - s[1] < Window
    BY <1>2, <1>6, LimiterAssumption DEF Outdated
  <2>2. clock <= now[t] + Delay
    BY <1>2 DEF Fresh
  <2>3. clock - s[1] < Window + Delay
    BY <1>2, <1>6, <2>1, <2>2, LimiterAssumption
  <2>4. PICK hit, old \in Nat : hit = s[1] /\ old = l[Len(l) - MaxRequests + 1] /\ hit <= old
    BY <1>6, <1>7, <1>8
  <2>5. clock \in Nat /\ clock - hit < Window + Delay
    BY <1>2, <2>3, <2>4
  <2>6. clock - old < Window + Delay
    BY <2>4, <2>5, LimiterAssumption
  <2>7. QED
    BY <2>4, <2>6
<1>10. QED
  BY <1>3, <1>4, <1>5, <1>9 DEF l

\* Nobody is turned away for longer than the window and the longest wait,
\* however hard the limiter is hammered.
THEOREM RefusalsAreJust == LimiterSpec => RejectedOnlyWhenFull
<1>1. LimiterInv => JustRefusals
  BY RefusalIsJust
<1>2. LimiterSpec => [][JustRefusals]_limiterVars
  BY <1>1, LimiterInvHolds, PTL
<1>3. QED
  BY <1>2 DEF RejectedOnlyWhenFull, JustRefusals
=============================================================================
