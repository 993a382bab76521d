------------------------ MODULE RefreshTokensProofs ------------------------
(***************************************************************************)
(* Proofs, for every number of users, tokens and handlers, of the safety    *)
(* properties of RefreshTokens and of its refinement of TokenFamily.        *)
(*                                                                         *)
(* OneLiveTokenPerSignIn is not inductive: a rotation revokes one token and  *)
(* issues another in one commit, so it must be known that what it is about   *)
(* to revoke is still live, that its successor is its own, and that nobody   *)
(* else is about to do the same.                                            *)
(***************************************************************************)
EXTENDS RefreshTokens, TLAPS

\* The sign-in a token descends from has been issued, to the same user.
RootsIssued == \A t \in Issued : root[t] \in Issued /\ Owner[root[t]] = Owner[t]

\* A response can only have ended sessions there were.
EndedIssued == ended \subseteq Issued

\* What a handler knows at each statement.
HandlerInv(h) ==
  /\ pc[h] # "idle" /\ arg[h] # Garbage => arg[h] \in Issued
  /\ pc[h] \in {"insert", "swap", "commit", "revoke", "apply", "logout"} => arg[h] # Garbage
  /\ pc[h] = "lookup" => op[h] \in {"refresh", "logout"}
  /\ pc[h] \in {"insert", "swap", "commit", "revoke", "apply"} => op[h] = "refresh"
  /\ pc[h] = "logout" => op[h] = "logout"
  /\ pc[h] \in {"swap", "commit"} =>
       fresh[h] \in Tokens /\ status[fresh[h]] = "pending" /\ Owner[fresh[h]] = Owner[arg[h]]
  /\ pc[h] \notin {"swap", "commit", "done"} => fresh[h] = NoToken
  /\ \A t \in Holds(h) : t \in Tokens /\ status[t] = "active"
  /\ taken[h] # {} => pc[h] = "apply" /\ taken[h] \subseteq seen[h]
  /\ pc[h] \in {"revoke", "apply"} => status[arg[h]] = "revoked"
  /\ pc[h] = "apply" => seen[h] \subseteq Issued
  /\ pc[h] = "apply" /\ ~ReadCommitted =>
       seen[h] = {t \in Tokens : Owner[t] = Owner[arg[h]] /\ status[t] = "active"}

\* Two requests under way insert different rows, and hold different ones.
Apart(g, h) ==
  /\ pc[g] \in {"swap", "commit"} /\ pc[h] \in {"swap", "commit"} => fresh[g] # fresh[h]
  /\ Holds(g) \cap Holds(h) = {}
  /\ ~ReadCommitted => g \notin Writing \/ h \notin Writing

TableInv == RootsIssued /\ EndedIssued /\ OneLiveTokenPerSignIn /\ ReuseEndsEverySession

IInv ==
  /\ TypeOK
  /\ TableInv
  /\ \A h \in Handlers : HandlerInv(h)
  /\ \A g, h \in Handlers : g # h => Apart(g, h)

-----------------------------------------------------------------------------

\* An empty table satisfies the invariant.
LEMMA InitIInv == Init => IInv
<1> SUFFICES ASSUME Init PROVE IInv
  OBVIOUS
<1> USE RefreshAssumption
<1>1. TypeOK
  BY DEF Init, TypeOK, Labels
<1>2. Issued = {}
  BY DEF Init, Issued
<1>3. TableInv
  BY <1>2 DEF Init, TableInv, RootsIssued, EndedIssued, OneLiveTokenPerSignIn,
              ReuseEndsEverySession
<1>4. \A h \in Handlers : HandlerInv(h)
  BY DEF Init, HandlerInv, Holds
<1>5. \A g, h \in Handlers : Apart(g, h)
  BY DEF Init, Apart, Writing, Holds
<1>6. QED
  BY <1>1, <1>3, <1>4, <1>5 DEF IInv

\* What a handler knows survives a step of others that keeps issued rows
\* issued, its own row pending, what it holds locked, and, where writers are
\* serialized, the live tokens while it revokes.
LEMMA HandlerInvStable ==
  ASSUME TypeOK, NEW g \in Handlers, HandlerInv(g), database' = database,
         pc'[g] = pc[g], arg'[g] = arg[g], op'[g] = op[g],
         fresh'[g] = fresh[g], seen'[g] = seen[g], taken'[g] = taken[g],
         Issued \subseteq Issued',
         pc[g] \in {"swap", "commit"} => status'[fresh[g]] = "pending",
         \A t \in Holds(g) : status'[t] = "active",
         \A t \in Tokens : status[t] = "revoked" => status'[t] = "revoked",
         pc[g] = "apply" /\ ~ReadCommitted =>
           \A t \in Tokens : status[t] = "active" <=> status'[t] = "active"
  PROVE  HandlerInv(g)'
<1>1. pc[g] \in {"revoke", "apply"} => arg[g] \in Tokens
  BY DEF TypeOK, HandlerInv
<1>2. ReadCommitted' = ReadCommitted
  BY DEF ReadCommitted
<1>3. pc[g] = "apply" /\ ~ReadCommitted =>
        seen'[g] = {t \in Tokens : Owner[t] = Owner[arg'[g]] /\ status'[t] = "active"}
  BY DEF HandlerInv
<1>4. \A t \in Holds(g)' : t \in Tokens /\ status'[t] = "active"
  BY DEF HandlerInv, Holds
<1>5. QED
  BY <1>1, <1>2, <1>3, <1>4 DEF HandlerInv

\* Two handlers stay apart while neither begins to write.
LEMMA ApartStable ==
  ASSUME NEW f \in Handlers, NEW g \in Handlers, Apart(f, g), database' = database,
         pc'[f] \in {"swap", "commit", "apply"} => pc'[f] = pc[f],
         pc'[g] \in {"swap", "commit", "apply"} => pc'[g] = pc[g],
         pc'[f] \in {"swap", "commit"} => arg'[f] = arg[f] /\ fresh'[f] = fresh[f],
         pc'[g] \in {"swap", "commit"} => arg'[g] = arg[g] /\ fresh'[g] = fresh[g],
         Holds(f)' \subseteq Holds(f), Holds(g)' \subseteq Holds(g)
  PROVE  Apart(f, g)'
<1>1. ReadCommitted' = ReadCommitted
  BY DEF ReadCommitted
<1>2. (f \in Writing)' => f \in Writing
  BY DEF Writing
<1>3. (g \in Writing)' => g \in Writing
  BY DEF Writing
<1>4. QED
  BY <1>1, <1>2, <1>3 DEF Apart

\* A step of one handler keeps the invariant if it keeps the types, the table
\* and its own facts, and takes from no other handler what that one holds.
LEMMA StepOfOne ==
  ASSUME IInv, NEW h \in Handlers, database' = database,
         TypeOK', TableInv', HandlerInv(h)',
         \A g \in Handlers \ {h} :
           /\ pc'[g] = pc[g] /\ arg'[g] = arg[g] /\ op'[g] = op[g]
           /\ fresh'[g] = fresh[g] /\ seen'[g] = seen[g] /\ taken'[g] = taken[g]
           /\ pc[g] \in {"swap", "commit"} => status'[fresh[g]] = "pending"
           /\ \A t \in Holds(g) : status'[t] = "active"
           /\ pc[g] = "apply" /\ ~ReadCommitted =>
                \A t \in Tokens : status[t] = "active" <=> status'[t] = "active"
           /\ Apart(h, g)',
         Issued \subseteq Issued',
         \A t \in Tokens : status[t] = "revoked" => status'[t] = "revoked"
  PROVE  IInv'
<1>1. ASSUME NEW g \in Handlers, g # h PROVE HandlerInv(g)'
  BY <1>1, HandlerInvStable DEF IInv
<1>2. ASSUME NEW f \in Handlers, NEW g \in Handlers, f # g PROVE Apart(f, g)'
  <2>1. CASE f = h
    BY <1>2, <2>1
  <2>2. CASE g = h
    <3>1. Apart(h, f)'
      BY <1>2, <2>2
    <3>2. QED
      BY <2>2, <3>1 DEF Apart
  <2>3. CASE f # h /\ g # h
    <3>1. Holds(f)' = Holds(f) /\ Holds(g)' = Holds(g)
      BY <1>2, <2>3 DEF Holds
    <3>2. QED
      BY <1>2, <2>3, <3>1, ApartStable DEF IInv
  <2>4. QED
    BY <2>1, <2>2, <2>3
<1>3. QED
  BY <1>1, <1>2 DEF IInv

\* In particular if it leaves the table and the write locks alone.
LEMMA LocalStep ==
  ASSUME IInv, NEW h \in Handlers, UNCHANGED <<database, status, root, ended>>,
         TypeOK', HandlerInv(h)',
         \A g \in Handlers \ {h} :
           /\ pc'[g] = pc[g] /\ arg'[g] = arg[g] /\ op'[g] = op[g]
           /\ fresh'[g] = fresh[g] /\ seen'[g] = seen[g] /\ taken'[g] = taken[g],
         pc'[h] \notin {"swap", "commit", "apply"}, taken'[h] = {}
  PROVE  IInv'
<1>1. Issued' = Issued
  BY DEF Issued
<1>2. TableInv'
  BY <1>1 DEF IInv, TableInv, RootsIssued, EndedIssued, OneLiveTokenPerSignIn, ReuseEndsEverySession
<1>3. ASSUME NEW g \in Handlers \ {h} PROVE Apart(h, g)'
  <2>1. Holds(h)' = {} /\ Holds(g)' = Holds(g)
    BY DEF Holds
  <2>2. QED
    BY <2>1, ApartStable DEF IInv
<1>4. QED
  BY <1>1, <1>2, <1>3, StepOfOne, SMTT(20) DEF IInv, HandlerInv, TypeOK

-----------------------------------------------------------------------------

LEMMA SignInIInv == ASSUME IInv, NEW n \in Tokens, SignIn(n) PROVE IInv'
<1> USE RefreshAssumption
<1>a. TypeOK /\ TableInv
  BY DEF IInv
<1>1. /\ status[n] = "unissued"
      /\ status' = [status EXCEPT ![n] = "active"]
      /\ root' = [root EXCEPT ![n] = n]
      /\ ReadCommitted \/ Writing = {}
      /\ UNCHANGED <<database, expired, ended, pc, arg, op, fresh, seen, answer, at, taken>>
  BY DEF SignIn, Generated, locals, scan
<1>2. TypeOK'
  BY <1>1, <1>a DEF TypeOK, Labels
<1>3. Issued' = Issued \cup {n} /\ n \notin Issued
  BY <1>1, <1>a DEF Issued, TypeOK
<1>4. \A t \in Issued : root'[t] = root[t] /\ status'[t] = status[t] /\ root[t] # n
  BY <1>1, <1>3, <1>a DEF TypeOK, Issued, TableInv, RootsIssued
<1>5. TableInv'
  <2>1. RootsIssued' /\ EndedIssued'
    BY <1>1, <1>3, <1>4, <1>a DEF TableInv, RootsIssued, EndedIssued, TypeOK, Issued
  <2>2. OneLiveTokenPerSignIn'
    BY <1>1, <1>3, <1>4, <1>a DEF TableInv, OneLiveTokenPerSignIn, TypeOK, Issued
  <2>3. ReuseEndsEverySession'
    BY <1>1, <1>3, <1>4, <1>a DEF TableInv, ReuseEndsEverySession, EndedIssued, TypeOK, Issued
  <2>4. QED
    BY <2>1, <2>2, <2>3 DEF TableInv
<1>6. ASSUME NEW g \in Handlers PROVE HandlerInv(g)'
  <2>1. HandlerInv(g)
    BY DEF IInv
  <2>2. ~ReadCommitted => pc[g] # "apply"
    BY <1>1 DEF Writing
  <2>3. /\ pc[g] \in {"swap", "commit"} => status'[fresh[g]] = "pending"
        /\ \A t \in Holds(g) : status'[t] = "active"
    BY <1>1, <1>a, <2>1 DEF HandlerInv, TypeOK
  <2>4. \A t \in Tokens : status[t] = "revoked" => status'[t] = "revoked"
    BY <1>1, <1>a DEF TypeOK
  <2>5. QED
    BY <1>1, <1>3, <1>a, <2>1, <2>2, <2>3, <2>4, HandlerInvStable
<1>7. ASSUME NEW f \in Handlers, NEW g \in Handlers, f # g PROVE Apart(f, g)'
  <2>1. Holds(f)' = Holds(f) /\ Holds(g)' = Holds(g)
    BY <1>1 DEF Holds
  <2>2. QED
    BY <1>1, <1>7, <2>1, ApartStable DEF IInv
<1>8. QED
  BY <1>2, <1>5, <1>6, <1>7 DEF IInv

LEMMA ExpireIInv == ASSUME IInv, NEW t \in Tokens, Expire(t) PROVE IInv'
<1>1. UNCHANGED <<database, status, root, ended, pc, arg, op, fresh, seen, answer, at, taken>>
      /\ expired' = expired \cup {t}
  BY DEF Expire, locals, scan
<1>2. TypeOK'
  BY <1>1 DEF IInv, TypeOK
<1>3. TableInv'
  BY <1>1 DEF IInv, TableInv, RootsIssued, EndedIssued, OneLiveTokenPerSignIn,
              ReuseEndsEverySession, Issued
<1>4. \A h \in Handlers : HandlerInv(h)'
  BY <1>1 DEF IInv, HandlerInv, ReadCommitted, Issued, Holds
<1>5. \A g, h \in Handlers : g # h => Apart(g, h)'
  BY <1>1 DEF IInv, Apart, ReadCommitted, Writing, Holds
<1>6. QED
  BY <1>2, <1>3, <1>4, <1>5 DEF IInv

LEMMA CallIInv ==
  ASSUME IInv, NEW h \in Handlers, NEW endpoint \in {"refresh", "logout"},
         NEW t \in Issued \cup {Garbage}, Call(h, endpoint, t)
  PROVE  IInv'
<1>1. /\ pc[h] = "idle"
      /\ arg' = [arg EXCEPT ![h] = t]
      /\ op' = [op EXCEPT ![h] = endpoint]
      /\ pc' = [pc EXCEPT ![h] = "lookup"]
      /\ UNCHANGED <<database, status, root, expired, ended, fresh, seen, answer, at, taken>>
  BY DEF Call, Goto, table, scan
<1>2. TypeOK'
  BY <1>1 DEF IInv, TypeOK, Labels, Issued
<1>3. HandlerInv(h)'
  BY <1>1, RefreshAssumption DEF IInv, HandlerInv, TypeOK, Issued, Holds
<1>4. taken[h] = {}
  BY <1>1 DEF IInv, HandlerInv
<1>5. QED
  BY <1>1, <1>2, <1>3, <1>4, LocalStep DEF IInv, TypeOK

LEMMA LookupIInv ==
  ASSUME IInv, NEW h \in Handlers, LookupRefresh(h) \/ LookupLogout(h) PROVE IInv'
<1>1. /\ pc[h] = "lookup"
      /\ \E l \in {"done", "revoke", "insert", "logout"} :
           /\ pc' = [pc EXCEPT ![h] = l]
           /\ l = "done" \/ (arg[h] # Garbage /\ (l = "logout" <=> op[h] = "logout"))
           /\ l = "revoke" => status[arg[h]] = "revoked"
      /\ answer' = answer \/ \E a \in {"ok", "rejected"} : answer' = [answer EXCEPT ![h] = a]
      /\ UNCHANGED <<database, status, root, expired, ended, arg, op, fresh, seen, at, taken>>
  BY DEF LookupRefresh, LookupLogout, Goto, Respond, table, scan, PresentsLive
<1>2. TypeOK'
  BY <1>1 DEF IInv, TypeOK, Labels
<1>3. HandlerInv(h)'
  BY <1>1 DEF IInv, HandlerInv, TypeOK, Issued, Holds
<1>4. taken[h] = {}
  BY <1>1 DEF IInv, HandlerInv
<1>5. QED
  BY <1>1, <1>2, <1>3, <1>4, LocalStep DEF IInv, TypeOK

LEMMA AnswerIInv == ASSUME IInv, NEW h \in Handlers, Answer(h) PROVE IInv'
<1>1. /\ pc' = [pc EXCEPT ![h] = "idle"]
      /\ arg' = [arg EXCEPT ![h] = Garbage]
      /\ op' = [op EXCEPT ![h] = "none"]
      /\ fresh' = [fresh EXCEPT ![h] = NoToken]
      /\ seen' = [seen EXCEPT ![h] = {}]
      /\ answer' = [answer EXCEPT ![h] = "none"]
      /\ pc[h] = "done"
      /\ UNCHANGED <<database, status, root, expired, ended, at, taken>>
  BY DEF Answer, Goto, table, scan
<1>2. TypeOK'
  BY <1>1 DEF IInv, TypeOK, Labels
<1>3. HandlerInv(h)'
  BY <1>1 DEF IInv, HandlerInv, TypeOK, Holds
<1>4. taken[h] = {}
  BY <1>1 DEF IInv, HandlerInv
<1>5. QED
  BY <1>1, <1>2, <1>3, <1>4, LocalStep DEF IInv, TypeOK

LEMMA InsertIInv == ASSUME IInv, NEW h \in Handlers, Insert(h) PROVE IInv'
<1>a. TypeOK /\ TableInv /\ HandlerInv(h)
  BY DEF IInv
<1>1. PICK n \in Tokens :
        /\ status[n] = "unissued"
        /\ Owner[n] = Owner[arg[h]]
        /\ status' = [status EXCEPT ![n] = "pending"]
        /\ fresh' = [fresh EXCEPT ![h] = n]
  BY DEF Insert, Generated
<1>2. /\ pc[h] = "insert"
      /\ pc' = [pc EXCEPT ![h] = "swap"]
      /\ ReadCommitted \/ Writing \subseteq {h}
      /\ taken[h] = {}
      /\ UNCHANGED <<database, root, expired, ended, arg, op, seen, answer, at, taken>>
  BY <1>a DEF Insert, CanWrite, Goto, scan, HandlerInv
<1>3. TypeOK'
  BY <1>1, <1>2, <1>a DEF TypeOK, Labels
<1>4. Issued' = Issued /\ \A t \in Tokens : status[t] = "active" <=> status'[t] = "active"
  BY <1>1, <1>a DEF Issued, TypeOK
<1>5. TableInv'
  BY <1>2, <1>4, <1>a DEF TableInv, RootsIssued, EndedIssued, OneLiveTokenPerSignIn, ReuseEndsEverySession
<1>6. HandlerInv(h)'
  BY <1>1, <1>2, <1>4, <1>a DEF HandlerInv, TypeOK, Holds
<1>7. ASSUME NEW g \in Handlers \ {h}
      PROVE  /\ pc[g] \in {"swap", "commit"} => status'[fresh[g]] = "pending" /\ fresh[g] # n
             /\ \A t \in Holds(g) : status'[t] = "active"
  BY <1>1, <1>4, <1>a DEF IInv, HandlerInv, TypeOK, Issued
<1>8. ASSUME NEW g \in Handlers \ {h} PROVE Apart(h, g)'
  BY <1>1, <1>2, <1>7, <1>a DEF Apart, ReadCommitted, Writing, TypeOK, Holds
<1>9. \A t \in Tokens : status[t] = "revoked" => status'[t] = "revoked"
  BY <1>1, <1>a DEF TypeOK
<1>10. QED
  BY <1>1, <1>2, <1>3, <1>4, <1>5, <1>6, <1>7, <1>8, <1>9, <1>a, StepOfOne DEF TypeOK

LEMMA SwapIInv == ASSUME IInv, NEW h \in Handlers, Swap(h) PROVE IInv'
<1>a. TypeOK /\ TableInv /\ HandlerInv(h)
  BY DEF IInv
<1>1. /\ pc[h] = "swap"
      /\ arg[h] \notin LockedRows(h)
      /\ taken[h] = {} /\ Holds(h) = {}
      /\ UNCHANGED <<database, root, expired, ended, arg, op, seen, answer, at, taken>>
  BY <1>a DEF Swap, scan, HandlerInv, Holds
<1>2. arg[h] \in Issued /\ fresh[h] \in Tokens /\ status[fresh[h]] = "pending"
  BY <1>1, <1>a DEF HandlerInv
<1>3. CASE status[arg[h]] = "active"
  <2>1. /\ pc' = [pc EXCEPT ![h] = "commit"]
        /\ UNCHANGED <<status, fresh>>
    BY <1>3 DEF Swap, Goto
  <2>2. TypeOK'
    BY <1>1, <2>1, <1>a DEF TypeOK, Labels
  <2>3. Issued' = Issued
    BY <2>1 DEF Issued
  <2>4. TableInv'
    BY <1>1, <2>1, <2>3, <1>a DEF TableInv, RootsIssued, EndedIssued, OneLiveTokenPerSignIn, ReuseEndsEverySession
  <2>5. HandlerInv(h)'
    BY <1>1, <1>2, <1>3, <2>1, <2>3, <1>a DEF HandlerInv, TypeOK, Holds, Issued
  <2>6. ASSUME NEW g \in Handlers \ {h} PROVE Apart(h, g)'
    <3>1. /\ Holds(g)' = Holds(g) /\ arg[h] \notin Holds(g)
          /\ Holds(h)' = {arg[h]}
      BY <1>1, <2>1, <1>a DEF Holds, LockedRows, TypeOK
    <3>2. Apart(h, g)
      BY DEF IInv
    <3>3. QED
      BY <1>1, <2>1, <3>1, <3>2, <1>a DEF Apart, ReadCommitted, Writing, TypeOK
  <2>7. QED
    BY <1>1, <2>1, <2>2, <2>3, <2>4, <2>5, <2>6, <1>a, StepOfOne DEF IInv, HandlerInv, TypeOK
<1>4. CASE status[arg[h]] # "active"
  <2>1. /\ status' = [status EXCEPT ![fresh[h]] = "unissued"]
        /\ fresh' = [fresh EXCEPT ![h] = NoToken]
        /\ pc' = [pc EXCEPT ![h] = "revoke"]
    BY <1>4 DEF Swap, Goto
  <2>2. TypeOK'
    BY <1>1, <2>1, <1>a DEF TypeOK, Labels
  <2>3. Issued' = Issued /\ \A t \in Tokens : status[t] = "active" <=> status'[t] = "active"
    BY <1>2, <2>1, <1>a DEF Issued, TypeOK
  <2>4. TableInv'
    BY <1>1, <2>3, <1>a DEF TableInv, RootsIssued, EndedIssued, OneLiveTokenPerSignIn, ReuseEndsEverySession
  <2>5. status'[arg[h]] = "revoked"
    BY <1>2, <1>4, <2>1, <1>a DEF Issued, TypeOK
  <2>6. HandlerInv(h)'
    BY <1>1, <2>1, <2>3, <2>5, <1>a DEF HandlerInv, TypeOK, Holds
  <2>7. ASSUME NEW g \in Handlers \ {h}
        PROVE  /\ pc[g] \in {"swap", "commit"} => status'[fresh[g]] = "pending"
               /\ \A t \in Holds(g) : status'[t] = "active"
    <3>1. Apart(h, g) /\ HandlerInv(g)
      BY DEF IInv
    <3>2. QED
      BY <1>1, <1>2, <2>1, <2>3, <3>1, <1>a DEF Apart, HandlerInv, TypeOK, Issued
  <2>8. ASSUME NEW g \in Handlers \ {h} PROVE Apart(h, g)'
    <3>1. Holds(g)' = Holds(g) /\ Holds(h)' = {}
      BY <1>1, <2>1, <1>a DEF Holds, TypeOK
    <3>2. QED
      BY <1>1, <2>1, <3>1, <1>a, ApartStable DEF IInv, TypeOK
  <2>9. \A t \in Tokens : status[t] = "revoked" => status'[t] = "revoked"
    BY <1>2, <2>1, <1>a DEF TypeOK
  <2>10. QED
    BY <1>1, <2>1, <2>2, <2>3, <2>4, <2>6, <2>7, <2>8, <2>9, <1>a, StepOfOne DEF TypeOK
<1>5. QED
  BY <1>3, <1>4

LEMMA CommitIInv == ASSUME IInv, NEW h \in Handlers, Commit(h) PROVE IInv'
<1>a. TypeOK /\ TableInv /\ HandlerInv(h)
  BY DEF IInv
<1>1. /\ pc[h] = "commit"
      /\ status' = [status EXCEPT ![arg[h]] = "revoked", ![fresh[h]] = "active"]
      /\ root' = [root EXCEPT ![fresh[h]] = root[arg[h]]]
      /\ pc' = [pc EXCEPT ![h] = "done"]
      /\ answer' = [answer EXCEPT ![h] = "ok"]
      /\ taken[h] = {} /\ Holds(h) = {arg[h]}
      /\ UNCHANGED <<database, expired, ended, arg, op, fresh, seen, at, taken>>
  BY <1>a DEF Commit, Goto, Respond, scan, HandlerInv, Holds
<1>2. /\ arg[h] \in Issued /\ arg[h] \in Tokens /\ status[arg[h]] = "active"
      /\ fresh[h] \in Tokens /\ status[fresh[h]] = "pending" /\ Owner[fresh[h]] = Owner[arg[h]]
  BY <1>1, <1>a DEF HandlerInv, Issued
<1>3. TypeOK'
  BY <1>1, <1>2, <1>a DEF TypeOK, Labels
<1>4. /\ Issued' = Issued \cup {fresh[h]} /\ fresh[h] \notin Issued
      /\ status'[arg[h]] = "revoked" /\ status'[fresh[h]] = "active"
      /\ \A t \in Tokens \ {arg[h], fresh[h]} : status'[t] = status[t]
      /\ Issued \subseteq Tokens
  BY <1>1, <1>2, <1>a DEF Issued, TypeOK
<1>5. /\ root'[fresh[h]] = root[arg[h]]
      /\ \A t \in Tokens \ {fresh[h]} : root'[t] = root[t]
      /\ root[arg[h]] \in Issued /\ Owner[root[arg[h]]] = Owner[arg[h]]
  BY <1>1, <1>2, <1>a DEF TypeOK, TableInv, RootsIssued
<1>6. TableInv'
  <2>1. RootsIssued' /\ EndedIssued'
    <3>1. ASSUME NEW t \in Issued' PROVE root'[t] \in Issued' /\ Owner[root'[t]] = Owner[t]
      BY <1>2, <1>4, <1>5, <1>a DEF TableInv, RootsIssued
    <3>2. ended' \subseteq Issued'
      BY <1>1, <1>4, <1>a DEF TableInv, EndedIssued
    <3>3. QED
      BY <3>1, <3>2 DEF RootsIssued, EndedIssued
  <2>2. OneLiveTokenPerSignIn'
    BY <1>2, <1>4, <1>5, <1>a DEF TableInv, OneLiveTokenPerSignIn
  <2>3. ReuseEndsEverySession'
    BY <1>1, <1>2, <1>4, <1>5, <1>a DEF TableInv, ReuseEndsEverySession
  <2>4. QED
    BY <2>1, <2>2, <2>3 DEF TableInv
<1>7. HandlerInv(h)'
  BY <1>1, <1>2, <1>4, <1>a DEF HandlerInv, TypeOK, Holds
<1>8. ASSUME NEW g \in Handlers \ {h}
      PROVE  /\ pc[g] \in {"swap", "commit"} => status'[fresh[g]] = "pending"
             /\ \A t \in Holds(g) : status'[t] = "active"
             /\ ~ReadCommitted => pc[g] # "apply"
  <2>1. Apart(h, g) /\ HandlerInv(g)
    BY DEF IInv
  <2>2. QED
    BY <1>1, <1>2, <1>4, <2>1, <1>a DEF Apart, HandlerInv, Issued, Writing
<1>9. ASSUME NEW g \in Handlers \ {h} PROVE Apart(h, g)'
  <2>1. Holds(g)' = Holds(g) /\ Holds(h)' = {}
    BY <1>1, <1>a DEF Holds, TypeOK
  <2>2. QED
    BY <1>1, <1>a, <2>1, ApartStable DEF IInv, TypeOK
<1>10. \A t \in Tokens : status[t] = "revoked" => status'[t] = "revoked"
  BY <1>2, <1>4
<1>11. \A g \in Handlers \ {h} : pc'[g] = pc[g]
  BY <1>1, <1>a DEF TypeOK
<1>12. Issued \subseteq Issued' /\ UNCHANGED <<database, arg, op, fresh, seen, taken>>
  BY <1>1, <1>4
<1>13. QED
  BY <1>3, <1>6, <1>7, <1>8, <1>9, <1>10, <1>11, <1>12, StepOfOne

LEMMA StartRevokeFamilyIInv ==
  ASSUME IInv, NEW h \in Handlers, StartRevokeFamily(h) PROVE IInv'
<1>a. TypeOK /\ TableInv /\ HandlerInv(h)
  BY DEF IInv
<1>1. /\ pc[h] = "revoke"
      /\ ReadCommitted \/ Writing \subseteq {h}
      /\ seen' = [seen EXCEPT ![h] = {t \in Tokens : Owner[t] = Owner[arg[h]] /\ status[t] = "active"}]
      /\ pc' = [pc EXCEPT ![h] = "apply"]
      /\ taken[h] = {}
      /\ UNCHANGED <<database, status, root, expired, ended, arg, op, fresh, answer, at, taken>>
  BY <1>a DEF StartRevokeFamily, CanWrite, Goto, table, scan, HandlerInv
<1>2. TypeOK'
  BY <1>1, <1>a DEF TypeOK, Labels
<1>3. Issued' = Issued
  BY <1>1 DEF Issued
<1>4. TableInv'
  BY <1>1, <1>3, <1>a DEF TableInv, RootsIssued, EndedIssued, OneLiveTokenPerSignIn, ReuseEndsEverySession
<1>5. seen'[h] \subseteq Issued'
  BY <1>1, <1>3, <1>a DEF Issued, TypeOK
<1>6. HandlerInv(h)'
  BY <1>1, <1>3, <1>5, <1>a DEF HandlerInv, TypeOK, Holds
<1>7. ASSUME NEW g \in Handlers \ {h} PROVE Apart(h, g)'
  BY <1>1, <1>a DEF Apart, ReadCommitted, Writing, TypeOK, Holds
<1>8. QED
  BY <1>1, <1>2, <1>3, <1>4, <1>6, <1>7, <1>a, StepOfOne DEF IInv, HandlerInv, TypeOK

\* While it goes from row to row a family-wide update is alone with those it
\* has taken.
LEMMA ScanIInv ==
  ASSUME IInv, NEW h \in Handlers, ReachRow(h) \/ TakeRow(h) PROVE IInv'
<1>a. TypeOK /\ TableInv /\ HandlerInv(h)
  BY DEF IInv
<1>1. /\ pc[h] = "apply"
      /\ UNCHANGED <<database, status, root, expired, ended, pc, arg, op, fresh, seen, answer>>
      /\ \A g \in Handlers \ {h} : taken'[g] = taken[g] /\ at'[g] = at[g]
  BY <1>a DEF ReachRow, TakeRow, table, TypeOK
<1>2. /\ taken[h] \subseteq taken'[h]
      /\ \A t \in taken'[h] \ taken[h] : t \in Remaining(h) /\ t \notin LockedRows(h)
  <2>1. CASE ReachRow(h)
    BY <2>1 DEF ReachRow
  <2>2. CASE TakeRow(h)
    BY <1>a, <2>2 DEF TakeRow, TypeOK
  <2>3. QED
    BY <2>1, <2>2
<1>3. Remaining(h) \subseteq Tokens
  BY <1>a DEF Remaining, TypeOK
<1>4. TypeOK'
  <2>1. CASE ReachRow(h)
    BY <1>1, <1>3, <2>1, <1>a DEF ReachRow, TypeOK, Labels
  <2>2. CASE TakeRow(h)
    BY <1>1, <1>3, <2>2, <1>a DEF TakeRow, TypeOK, Labels
  <2>3. QED
    BY <2>1, <2>2
<1>5. Issued' = Issued
  BY <1>1 DEF Issued
<1>6. TableInv'
  BY <1>1, <1>5, <1>a DEF TableInv, RootsIssued, EndedIssued, OneLiveTokenPerSignIn, ReuseEndsEverySession
<1>7. Holds(h)' = taken'[h] /\ Holds(h) = taken[h]
  BY <1>1 DEF Holds
<1>8. HandlerInv(h)'
  <2>1. \A t \in taken'[h] : t \in Tokens /\ t \in seen[h] /\ status[t] = "active"
    BY <1>1, <1>2, <1>3, <1>7, <1>a DEF HandlerInv, Remaining
  <2>2. QED
    BY <1>1, <1>5, <1>7, <2>1, <1>a DEF HandlerInv, ReadCommitted
<1>9. ASSUME NEW g \in Handlers \ {h} PROVE Apart(h, g)'
  <2>1. Apart(h, g) /\ Holds(g)' = Holds(g)
    BY <1>1 DEF IInv, Holds
  <2>2. Holds(h)' \cap Holds(g)' = {}
    BY <1>2, <1>7, <2>1 DEF Apart, LockedRows
  <2>3. QED
    BY <1>1, <2>1, <2>2 DEF Apart, ReadCommitted, Writing
<1>10. ASSUME NEW g \in Handlers \ {h}
       PROVE  /\ pc[g] \in {"swap", "commit"} => status'[fresh[g]] = "pending"
              /\ \A t \in Holds(g) : status'[t] = "active"
  BY <1>1 DEF IInv, HandlerInv
<1>11. QED
  BY <1>1, <1>4, <1>5, <1>6, <1>8, <1>9, <1>10, StepOfOne

LEMMA CommitRevokeFamilyIInv ==
  ASSUME IInv, NEW h \in Handlers, CommitRevokeFamily(h) PROVE IInv'
<1>a. TypeOK /\ TableInv /\ HandlerInv(h)
  BY DEF IInv
<1>1. /\ pc[h] = "apply"
      /\ Remaining(h) = {}
      /\ status' = [t \in Tokens |-> IF t \in taken[h] THEN "revoked" ELSE status[t]]
      /\ ended' = ended \cup {root[t] : t \in seen[h]}
      /\ pc' = [pc EXCEPT ![h] = "done"]
      /\ answer' = [answer EXCEPT ![h] = "rejected"]
      /\ taken' = [taken EXCEPT ![h] = {}]
      /\ Holds(h) = taken[h]
      /\ UNCHANGED <<database, root, expired, arg, op, fresh, seen, at>>
  BY DEF CommitRevokeFamily, Goto, Respond, Holds
<1>2. /\ Issued' = Issued /\ Issued \subseteq Tokens
      /\ \A t \in Tokens : /\ status'[t] = "active" <=> status[t] = "active" /\ t \notin taken[h]
                           /\ status[t] = "pending" => status'[t] = "pending"
                           /\ status[t] = "revoked" => status'[t] = "revoked"
  BY <1>1, <1>a DEF Issued, TypeOK, HandlerInv
<1>3. arg[h] \in Issued /\ seen[h] \subseteq Issued
  BY <1>1, <1>a DEF HandlerInv
<1>4. {root[t] : t \in seen[h]} \subseteq Issued
  BY <1>3, <1>a DEF TableInv, RootsIssued
<1>5. TypeOK'
  BY <1>1, <1>2, <1>4, <1>a DEF TypeOK, Labels
<1>6. TableInv'
  <2>1. RootsIssued' /\ OneLiveTokenPerSignIn'
    BY <1>1, <1>2, <1>a DEF TableInv, RootsIssued, OneLiveTokenPerSignIn
  <2>2. EndedIssued'
    BY <1>1, <1>2, <1>4, <1>a DEF TableInv, EndedIssued
  <2>3. ASSUME database = "SQLite", NEW t \in Tokens, status'[t] = "active" PROVE root[t] \notin ended'
    <3>1. seen[h] = {s \in Tokens : Owner[s] = Owner[arg[h]] /\ status[s] = "active"}
      BY <1>1, <1>a, <2>3 DEF HandlerInv, ReadCommitted
    <3>2. status[t] = "active" /\ Owner[t] # Owner[arg[h]]
      BY <1>1, <1>2, <2>3, <3>1 DEF Remaining
    <3>3. \A s \in Tokens : status[s] = "active" => Owner[root[s]] = Owner[s]
      BY <1>a DEF TableInv, RootsIssued, Issued
    <3>4. \A s \in seen[h] : root[t] # root[s]
      BY <3>1, <3>2, <3>3
    <3>5. root[t] \notin ended
      BY <1>a, <2>3, <3>2 DEF TableInv, ReuseEndsEverySession
    <3>6. QED
      BY <1>1, <3>4, <3>5
  <2>4. ReuseEndsEverySession'
    BY <1>1, <2>3 DEF ReuseEndsEverySession
  <2>5. QED
    BY <2>1, <2>2, <2>4 DEF TableInv
<1>7. HandlerInv(h)'
  BY <1>1, <1>2, <1>3, <1>a DEF HandlerInv, TypeOK, Holds
<1>8. ASSUME NEW g \in Handlers \ {h}
      PROVE  /\ pc[g] \in {"swap", "commit"} => status'[fresh[g]] = "pending"
             /\ \A t \in Holds(g) : status'[t] = "active"
             /\ ~ReadCommitted => pc[g] # "apply"
  <2>1. Apart(h, g) /\ HandlerInv(g)
    BY DEF IInv
  <2>2. \A t \in Holds(g) : t \in Tokens /\ t \notin taken[h]
    BY <1>1, <2>1 DEF HandlerInv, Apart
  <2>3. QED
    BY <1>1, <1>2, <2>1, <2>2 DEF Apart, HandlerInv, Writing
<1>9. ASSUME NEW g \in Handlers \ {h} PROVE Apart(h, g)'
  <2>1. Holds(g)' = Holds(g) /\ Holds(h)' = {}
    BY <1>1, <1>a DEF Holds, TypeOK
  <2>2. QED
    BY <1>1, <1>a, <2>1, ApartStable DEF IInv, TypeOK
<1>10. \A g \in Handlers \ {h} : pc'[g] = pc[g]
  BY <1>1, <1>a DEF TypeOK
<1>11. UNCHANGED <<database, arg, op, fresh, seen>> /\ \A g \in Handlers \ {h} : taken'[g] = taken[g]
  BY <1>1, <1>a DEF TypeOK
<1>12. QED
  BY <1>2, <1>5, <1>6, <1>7, <1>8, <1>9, <1>10, <1>11, StepOfOne

LEMMA RevokeOneIInv == ASSUME IInv, NEW h \in Handlers, RevokeOne(h) PROVE IInv'
<1>a. TypeOK /\ TableInv /\ HandlerInv(h)
  BY DEF IInv
<1>1. /\ pc[h] = "logout"
      /\ ReadCommitted \/ Writing \subseteq {h}
      /\ arg[h] \notin LockedRows(h)
      /\ status' = [status EXCEPT ![arg[h]] = "revoked"]
      /\ pc' = [pc EXCEPT ![h] = "done"]
      /\ answer' = [answer EXCEPT ![h] = "ok"]
      /\ taken[h] = {}
      /\ UNCHANGED <<database, root, expired, ended, arg, op, fresh, seen, at, taken>>
  BY <1>a DEF RevokeOne, CanWrite, Goto, Respond, scan, HandlerInv
<1>2. arg[h] \in Issued
  BY <1>1, <1>a DEF HandlerInv
<1>3. TypeOK'
  BY <1>1, <1>2, <1>a DEF TypeOK, Labels, Issued
<1>4. /\ Issued' = Issued /\ Issued \subseteq Tokens
      /\ \A t \in Tokens : /\ status'[t] = "active" <=> status[t] = "active" /\ t # arg[h]
                           /\ status[t] = "pending" => status'[t] = "pending"
                           /\ status[t] = "revoked" => status'[t] = "revoked"
  BY <1>1, <1>2, <1>a DEF Issued, TypeOK
<1>5. TableInv'
  BY <1>1, <1>4, <1>a DEF TableInv, RootsIssued, EndedIssued, OneLiveTokenPerSignIn, ReuseEndsEverySession
<1>6. HandlerInv(h)'
  BY <1>1, <1>4, <1>a DEF HandlerInv, TypeOK, Holds
<1>7. ASSUME NEW g \in Handlers \ {h}
      PROVE  /\ pc[g] \in {"swap", "commit"} => status'[fresh[g]] = "pending"
             /\ \A t \in Holds(g) : status'[t] = "active"
             /\ ~ReadCommitted => pc[g] # "apply"
  <2>1. HandlerInv(g)
    BY DEF IInv
  <2>2. \A t \in Holds(g) : t \in Tokens /\ t # arg[h] /\ status[t] = "active"
    BY <1>1, <2>1 DEF HandlerInv, LockedRows
  <2>3. QED
    BY <1>1, <1>4, <2>1, <2>2 DEF HandlerInv, Writing
<1>8. ASSUME NEW g \in Handlers \ {h} PROVE Apart(h, g)'
  <2>1. Holds(g)' = Holds(g) /\ Holds(h)' = {}
    BY <1>1, <1>a DEF Holds, TypeOK
  <2>2. QED
    BY <1>1, <1>a, <2>1, ApartStable DEF IInv, TypeOK
<1>9. \A g \in Handlers \ {h} : pc'[g] = pc[g]
  BY <1>1, <1>a DEF TypeOK
<1>10. UNCHANGED <<database, arg, op, fresh, seen, taken>>
  BY <1>1
<1>11. QED
  BY <1>3, <1>4, <1>5, <1>6, <1>7, <1>8, <1>9, <1>10, StepOfOne

LEMMA FailIInv == ASSUME IInv, NEW h \in Handlers, Fail(h) PROVE IInv'
<1>a. TypeOK /\ TableInv /\ HandlerInv(h)
  BY DEF IInv
<1>1. /\ pc[h] \notin {"idle", "done"}
      /\ status' = [t \in Tokens |-> IF t = fresh[h] THEN "unissued" ELSE status[t]]
      /\ fresh' = [fresh EXCEPT ![h] = NoToken]
      /\ pc' = [pc EXCEPT ![h] = "done"]
      /\ answer' = [answer EXCEPT ![h] = "failed"]
      /\ taken' = [taken EXCEPT ![h] = {}]
      /\ at' = [at EXCEPT ![h] = NoToken]
      /\ UNCHANGED <<database, root, expired, ended, arg, op, seen>>
  BY DEF Fail, Goto, Respond
<1>2. \A t \in Tokens : t = fresh[h] => status[t] = "pending" /\ pc[h] \in {"swap", "commit"}
  BY <1>1, <1>a, RefreshAssumption DEF HandlerInv
<1>3. TypeOK'
  BY <1>1, <1>a DEF TypeOK, Labels
<1>4. /\ Issued' = Issued /\ Issued \subseteq Tokens
      /\ \A t \in Tokens : /\ status'[t] = "active" <=> status[t] = "active"
                           /\ status[t] = "revoked" => status'[t] = "revoked"
  BY <1>1, <1>2, <1>a DEF Issued, TypeOK
<1>5. TableInv'
  BY <1>1, <1>4, <1>a DEF TableInv, RootsIssued, EndedIssued, OneLiveTokenPerSignIn, ReuseEndsEverySession
<1>6. HandlerInv(h)'
  BY <1>1, <1>4, <1>a DEF HandlerInv, TypeOK, Holds
<1>7. ASSUME NEW g \in Handlers \ {h}
      PROVE  /\ pc[g] \in {"swap", "commit"} => status'[fresh[g]] = "pending"
             /\ \A t \in Holds(g) : status'[t] = "active"
  <2>1. HandlerInv(g) /\ Apart(h, g)
    BY DEF IInv
  <2>2. \A t \in Holds(g) : t \in Tokens /\ status[t] = "active"
    BY <2>1 DEF HandlerInv
  <2>3. pc[g] \in {"swap", "commit"} => fresh[g] \in Tokens /\ fresh[g] # fresh[h]
    BY <1>2, <2>1 DEF HandlerInv, Apart
  <2>4. QED
    BY <1>1, <1>4, <2>1, <2>2, <2>3 DEF HandlerInv
<1>8. ASSUME NEW g \in Handlers \ {h} PROVE Apart(h, g)'
  <2>1. Holds(g)' = Holds(g) /\ Holds(h)' = {}
    BY <1>1, <1>a DEF Holds, TypeOK
  <2>2. QED
    BY <1>1, <1>a, <2>1, ApartStable DEF IInv, TypeOK
<1>9. \A g \in Handlers \ {h} : pc'[g] = pc[g] /\ fresh'[g] = fresh[g] /\ taken'[g] = taken[g]
  BY <1>1, <1>a DEF TypeOK
<1>10. UNCHANGED <<database, arg, op, seen>>
  BY <1>1
<1>11. QED
  BY <1>3, <1>4, <1>5, <1>6, <1>7, <1>8, <1>9, <1>10, StepOfOne

LEMMA NextIInv == IInv /\ [Next]_vars => IInv'
<1> SUFFICES ASSUME IInv, [Next]_vars PROVE IInv'
  OBVIOUS
<1>1. ASSUME NEW h \in Handlers, Step(h) \/ Fail(h) \/ BreakCircle(h) PROVE IInv'
  BY <1>1, LookupIInv, InsertIInv, SwapIInv, CommitIInv, StartRevokeFamilyIInv, ScanIInv,
     CommitRevokeFamilyIInv, RevokeOneIInv, AnswerIInv, FailIInv DEF Step, BreakCircle
<1>2. ASSUME NEW t \in Tokens, SignIn(t) \/ Expire(t) PROVE IInv'
  BY <1>2, SignInIInv, ExpireIInv
<1>3. CASE UNCHANGED vars
  <2>1. UNCHANGED <<Issued, ReadCommitted, Writing>>
    BY <1>3 DEF vars, Issued, ReadCommitted, Writing
  <2>2. TypeOK' /\ TableInv'
    BY <1>3, <2>1 DEF vars, IInv, TypeOK, TableInv, RootsIssued, EndedIssued,
                      OneLiveTokenPerSignIn, ReuseEndsEverySession
  <2>3. \A h \in Handlers : HandlerInv(h)'
    BY <1>3, <2>1 DEF vars, IInv, HandlerInv, Holds
  <2>4. \A g, h \in Handlers : g # h => Apart(g, h)'
    BY <1>3, <2>1 DEF vars, IInv, Apart, Holds
  <2>5. QED
    BY <2>2, <2>3, <2>4 DEF IInv
<1>4. QED
  BY <1>1, <1>2, <1>3, CallIInv DEF Next

LEMMA Inductive == Spec => []IInv
<1>1. QED
  BY InitIInv, NextIInv, PTL DEF Spec

-----------------------------------------------------------------------------

\* The table and the handlers' variables keep their types.
THEOREM TypeCorrect == Spec => []TypeOK
<1>1. IInv => TypeOK
  BY DEF IInv
<1>2. QED
  BY <1>1, Inductive, PTL

\* However refreshes, logouts and failures interleave, on either database a
\* sign-in has at most one live token (auth.py:153-167).
THEOREM SessionsDoNotSplit == Spec => []OneLiveTokenPerSignIn
<1>1. IInv => OneLiveTokenPerSignIn
  BY DEF IInv, TableInv
<1>2. QED
  BY <1>1, Inductive, PTL

\* After a replay none of the sessions that were live goes on, on the database
\* that serializes its writers (auth.py:188-193, 221-228).
THEOREM ReuseIsFinal == Spec => []ReuseEndsEverySession
<1>1. IInv => ReuseEndsEverySession
  BY DEF IInv, TableInv
<1>2. QED
  BY <1>1, Inductive, PTL

\* No statement revives a revoked token, not even a rollback (auth.py:221).
THEOREM RevocationIsFinal == Spec => RevokedForGood
<1>1. IInv /\ [Next]_vars =>
        [\A t \in Tokens : status[t] = "revoked" => status'[t] = "revoked"]_vars
  <2> SUFFICES ASSUME IInv, Next, NEW t \in Tokens, status[t] = "revoked"
               PROVE  status'[t] = "revoked"
    OBVIOUS
  <2>a. TypeOK /\ \A h \in Handlers : HandlerInv(h)
    BY DEF IInv
  <2>1. ASSUME NEW n \in Tokens, SignIn(n) \/ Expire(n) PROVE status'[t] = "revoked"
    BY <2>1, <2>a DEF SignIn, Generated, Expire, TypeOK
  <2>2. ASSUME NEW h \in Handlers, LookupRefresh(h) \/ LookupLogout(h) \/ Answer(h)
                                    \/ StartRevokeFamily(h) \/ ReachRow(h) \/ TakeRow(h)
        PROVE  status'[t] = "revoked"
    BY <2>2 DEF LookupRefresh, LookupLogout, Answer, StartRevokeFamily, ReachRow, TakeRow, table
  <2>3. ASSUME NEW h \in Handlers, Insert(h) PROVE status'[t] = "revoked"
    BY <2>3, <2>a DEF Insert, Generated, TypeOK
  <2>4. ASSUME NEW h \in Handlers, Swap(h) \/ Commit(h) PROVE status'[t] = "revoked"
    BY <2>4, <2>a DEF Swap, Commit, HandlerInv, TypeOK
  <2>5. ASSUME NEW h \in Handlers, CommitRevokeFamily(h) \/ RevokeOne(h)
        PROVE  status'[t] = "revoked"
    BY <2>5, <2>a DEF CommitRevokeFamily, RevokeOne, TypeOK
  <2>6. ASSUME NEW h \in Handlers, Fail(h) \/ BreakCircle(h) PROVE status'[t] = "revoked"
    BY <2>6, <2>a, RefreshAssumption DEF Fail, BreakCircle, HandlerInv
  <2>7. ASSUME NEW h \in Handlers, NEW e, NEW x, Call(h, e, x) PROVE status'[t] = "revoked"
    BY <2>7 DEF Call, table
  <2>8. QED
    BY <2>1, <2>2, <2>3, <2>4, <2>5, <2>6, <2>7 DEF Next, Step
<1>2. QED
  BY <1>1, Inductive, PTL DEF Spec, RevokedForGood

-----------------------------------------------------------------------------

\* The table and the calls as TokenFamily sees them.
Mapped == [t \in Tokens |-> IF status[t] = "pending" THEN "unissued" ELSE status[t]]
Calling == [h \in Handlers |-> CallOf(h)]

\* A step of one handler changes no other handler's call.
LEMMA OneCallChanges ==
  ASSUME NEW h \in Handlers, NEW r, CallOf(h)' = r,
         \A g \in Handlers \ {h} :
           pc'[g] = pc[g] /\ arg'[g] = arg[g] /\ op'[g] = op[g]
           /\ fresh'[g] = fresh[g] /\ answer'[g] = answer[g]
  PROVE  Calling' = [Calling EXCEPT ![h] = r]
<1>1. \A g \in Handlers \ {h} : CallOf(g)' = CallOf(g)
  BY DEF CallOf
<1>2. QED
  BY <1>1 DEF Calling

\* A statement that neither begins nor ends a call, nor commits, is invisible.
LEMMA Invisible ==
  ASSUME NEW h \in Handlers, TypeOK, UNCHANGED <<root, expired, ended, arg, op>>,
         pc[h] \notin {"idle", "done"}, pc'[h] \notin {"idle", "done"},
         Mapped' = Mapped,
         \A g \in Handlers \ {h} :
           pc'[g] = pc[g] /\ fresh'[g] = fresh[g] /\ answer'[g] = answer[g]
  PROVE  UNCHANGED Family!vars
<1>1. CallOf(h)' = CallOf(h)
  BY DEF CallOf
<1>2. Calling' = [Calling EXCEPT ![h] = CallOf(h)]
  BY <1>1, OneCallChanges
<1>3. Calling' = Calling
  BY <1>2 DEF Calling
<1>4. QED
  BY <1>3 DEF Family!vars, Mapped, Calling

\* The response that ends a call.
LEMMA Ends ==
  ASSUME NEW h \in Handlers, NEW a, TypeOK, Respond(h, a), UNCHANGED <<arg, op>>,
         pc[h] \notin {"idle", "done"},
         \A g \in Handlers \ {h} : fresh'[g] = fresh[g]
  PROVE  /\ Calling' = [Calling EXCEPT ![h] = Family!Answered(Calling[h], a, fresh'[h])]
         /\ Calling[h] = Family!Asked(op[h], arg[h])
<1>1. /\ pc'[h] = "done" /\ answer'[h] = a
      /\ \A g \in Handlers \ {h} : pc'[g] = pc[g] /\ answer'[g] = answer[g]
  BY DEF TypeOK, Respond, Goto
<1>2. CallOf(h)' = [op |-> op[h], token |-> arg[h], state |-> "answered",
                    answer |-> a, new |-> fresh'[h]]
  BY <1>1 DEF CallOf
<1>3. CallOf(h) = Family!Asked(op[h], arg[h]) /\ Calling[h] = CallOf(h)
  BY DEF Calling, CallOf, Family!Asked
<1>4. CallOf(h)' = Family!Answered(Calling[h], a, fresh'[h])
  BY <1>2, <1>3 DEF Family!Answered, Family!Asked
<1>5. Calling' = [Calling EXCEPT ![h] = Family!Answered(Calling[h], a, fresh'[h])]
  BY <1>1, <1>4, OneCallChanges
<1>6. QED
  BY <1>3, <1>5

LEMMA InitRefines == Init => Family!Init
  BY DEF Init, Family!Init, Family!Idle, CallOf

\* Where writers are serialized, each statement is a step of TokenFamily or
\* invisible to it.
LEMMA StepRefines ==
  ASSUME IInv, Next, ~ReadCommitted PROVE Family!Next \/ UNCHANGED Family!vars
<1>a. TypeOK /\ TableInv /\ \A h \in Handlers : HandlerInv(h)
  BY DEF IInv
<1>b. /\ Mapped \in [Tokens -> {"unissued", "active", "revoked"}]
      /\ \A t \in Issued : Mapped[t] = status[t] /\ t \in Tokens
  BY <1>a DEF Mapped, TypeOK, Issued
<1>1. ASSUME NEW n \in Tokens, SignIn(n) PROVE Family!SignIn(n)
  <2>1. Mapped' = [Mapped EXCEPT ![n] = "active"] /\ Mapped[n] = "unissued"
    BY <1>1, <1>a DEF SignIn, Generated, Mapped, TypeOK
  <2>2. Calling' = Calling
    BY <1>1 DEF SignIn, locals, scan, Calling, CallOf
  <2>3. QED
    BY <1>1, <2>1, <2>2 DEF SignIn, Family!SignIn, Mapped, Calling
<1>2. ASSUME NEW t \in Tokens, Expire(t) PROVE Family!Expire(t)
  <2>1. Mapped' = Mapped /\ Calling' = Calling /\ Mapped[t] # "unissued"
    BY <1>2 DEF Expire, locals, scan, Calling, CallOf, Mapped
  <2>2. QED
    BY <1>2, <2>1 DEF Expire, Family!Expire, Mapped, Calling
<1>3. ASSUME NEW h \in Handlers, NEW e \in {"refresh", "logout"},
             NEW t \in Issued \cup {Garbage}, Call(h, e, t)
      PROVE  Family!Ask(h, e, t) /\ t \in Family!Presentable
  <2>1. Mapped' = Mapped /\ UNCHANGED <<root, expired, ended>>
    BY <1>3 DEF Call, table, Mapped
  <2>2. Calling[h].state = "idle"
    BY <1>3 DEF Call, Calling, CallOf
  <2>3. CallOf(h)' = Family!Asked(e, t)
    BY <1>3, <1>a DEF Call, Goto, CallOf, Family!Asked, TypeOK
  <2>4. Calling' = [Calling EXCEPT ![h] = Family!Asked(e, t)]
    BY <1>3, <1>a, <2>3, OneCallChanges DEF Call, Goto, TypeOK
  <2>5. t \in Family!Presentable
    BY <1>b DEF Family!Presentable, Mapped, Issued
  <2>6. QED
    BY <2>1, <2>2, <2>4, <2>5 DEF Family!Ask, Mapped, Calling
<1>4. ASSUME NEW h \in Handlers, LookupRefresh(h)
      PROVE  Family!Reject(h) \/ UNCHANGED Family!vars
  <2>1. /\ pc[h] = "lookup" /\ op[h] = "refresh" /\ fresh[h] = NoToken
        /\ UNCHANGED <<status, root, expired, ended, arg, op, fresh, seen>>
    BY <1>4, <1>a DEF LookupRefresh, table, HandlerInv
  <2>2. Mapped' = Mapped
    BY <2>1 DEF Mapped
  <2>3. CASE Respond(h, "rejected") /\ arg[h] \in {Garbage} \cup expired
    <3>1. /\ Calling' = [Calling EXCEPT ![h] = Family!Answered(Calling[h], "rejected", NoToken)]
          /\ Calling[h] = Family!Asked("refresh", arg[h])
      BY <1>a, <2>1, <2>3, Ends
    <3>2. QED
      BY <2>1, <2>2, <2>3, <3>1
         DEF Family!Reject, Family!AskedTo, Family!Asked, Family!Reply, Mapped, Calling
  <2>4. CASE pc'[h] \in {"revoke", "insert"} /\ answer' = answer
            /\ \A g \in Handlers \ {h} : pc'[g] = pc[g]
    BY <1>a, <2>1, <2>2, <2>4, Invisible
  <2>5. QED
    BY <1>4, <1>a, <2>3, <2>4 DEF LookupRefresh, Goto, PresentsLive, TypeOK
<1>5. ASSUME NEW h \in Handlers, Insert(h) \/ Swap(h) \/ StartRevokeFamily(h)
                                  \/ ReachRow(h) \/ TakeRow(h)
      PROVE  UNCHANGED Family!vars
  <2>1. /\ pc[h] \in {"insert", "swap", "revoke", "apply"}
        /\ pc'[h] \in {"swap", "commit", "revoke", "apply"}
        /\ \A g \in Handlers \ {h} : pc'[g] = pc[g] /\ fresh'[g] = fresh[g]
        /\ UNCHANGED <<root, expired, ended, arg, op, answer>>
    BY <1>5, <1>a DEF Insert, Swap, StartRevokeFamily, ReachRow, TakeRow, Goto, table, TypeOK
  <2>2. Mapped' = Mapped
    <3>1. CASE Insert(h)
      BY <1>a, <3>1 DEF Insert, Generated, Mapped, TypeOK
    <3>2. CASE Swap(h)
      BY <1>a, <3>2 DEF Swap, HandlerInv, Mapped, TypeOK
    <3>3. CASE StartRevokeFamily(h) \/ ReachRow(h) \/ TakeRow(h)
      BY <3>3 DEF StartRevokeFamily, ReachRow, TakeRow, table, Mapped
    <3>4. QED
      BY <1>5, <3>1, <3>2, <3>3
  <2>3. QED
    BY <1>a, <2>1, <2>2, Invisible
<1>6. ASSUME NEW h \in Handlers, NEW n \in Tokens, fresh[h] = n, Commit(h)
      PROVE  Family!Rotate(h, n)
  <2>1. /\ pc[h] = "commit" /\ op[h] = "refresh"
        /\ arg[h] \in Issued /\ arg[h] # Garbage /\ status[arg[h]] = "active"
        /\ fresh[h] \in Tokens /\ status[fresh[h]] = "pending" /\ Owner[fresh[h]] = Owner[arg[h]]
    BY <1>6, <1>a DEF Commit, HandlerInv, Holds
  <2>2. /\ Mapped' = [Mapped EXCEPT ![arg[h]] = "revoked", ![fresh[h]] = "active"]
        /\ Mapped[arg[h]] = "active" /\ Mapped[fresh[h]] = "unissued"
    BY <1>6, <1>a, <2>1 DEF Commit, Mapped, Issued, TypeOK
  <2>3. /\ Calling' = [Calling EXCEPT ![h] = Family!Answered(Calling[h], "ok", n)]
        /\ Calling[h] = Family!Asked("refresh", arg[h])
    BY <1>6, <1>a, <2>1, Ends DEF Commit
  <2>4. Calling[h].token = arg[h] /\ Calling[h].state = "asked" /\ Calling[h].op = "refresh"
    BY <2>3 DEF Family!Asked
  <2>5. Family!AskedTo(h, "refresh") /\ Family!Reply(h, "ok", n)
    BY <2>3, <2>4 DEF Family!AskedTo, Family!Reply, Calling
  <2>6. root' = [root EXCEPT ![n] = root[Calling[h].token]] /\ UNCHANGED <<expired, ended>>
    BY <1>6, <2>4 DEF Commit
  <2>7. Mapped' = [Mapped EXCEPT ![Calling[h].token] = "revoked", ![n] = "active"]
    BY <1>6, <2>2, <2>4
  <2>8. QED
    BY <1>6, <2>1, <2>2, <2>4, <2>5, <2>6, <2>7 DEF Family!Rotate, Mapped, Calling
<1>7. ASSUME NEW h \in Handlers, CommitRevokeFamily(h) PROVE Family!Reuse(h)
  <2>1. /\ pc[h] = "apply" /\ op[h] = "refresh" /\ fresh[h] = NoToken
        /\ arg[h] \in Issued /\ arg[h] # Garbage /\ status[arg[h]] = "revoked"
        /\ seen[h] = {t \in Tokens : Owner[t] = Owner[arg[h]] /\ status[t] = "active"}
    BY <1>7, <1>a DEF CommitRevokeFamily, HandlerInv
  <2>2. seen[h] = Family!LiveTokens(Owner[arg[h]])
    BY <1>a, <2>1 DEF Family!LiveTokens, TypeOK
  <2>3. Mapped' = [t \in Tokens |-> IF t \in seen[h] THEN "revoked" ELSE Mapped[t]]
    <3>1. taken[h] = seen[h]
      BY <1>7, <1>a, <2>1 DEF CommitRevokeFamily, Remaining, HandlerInv
    <3>2. QED
      BY <1>7, <1>a, <2>1, <3>1 DEF CommitRevokeFamily, Mapped, TypeOK
  <2>4. /\ Calling' = [Calling EXCEPT ![h] = Family!Answered(Calling[h], "rejected", NoToken)]
        /\ Calling[h] = Family!Asked("refresh", arg[h])
    BY <1>7, <1>a, <2>1, Ends DEF CommitRevokeFamily
  <2>5. Calling[h].token = arg[h] /\ Calling[h].state = "asked" /\ Calling[h].op = "refresh"
    BY <2>4 DEF Family!Asked
  <2>6. Family!AskedTo(h, "refresh") /\ Family!Reply(h, "rejected", NoToken)
    BY <2>4, <2>5 DEF Family!AskedTo, Family!Reply, Calling
  <2>7. Family!EndSessions(Family!LiveTokens(Owner[Calling[h].token]))
    BY <1>7, <2>2, <2>3, <2>5 DEF CommitRevokeFamily, Family!EndSessions, Mapped
  <2>8. Mapped[Calling[h].token] = "revoked"
    BY <1>b, <2>1, <2>5
  <2>9. QED
    BY <1>7, <2>1, <2>5, <2>6, <2>7, <2>8
       DEF CommitRevokeFamily, Family!Reuse, Mapped, Calling
<1>8. ASSUME NEW h \in Handlers, LookupLogout(h) \/ RevokeOne(h)
      PROVE  Family!Revoke(h) \/ UNCHANGED Family!vars
  <2>1. /\ pc[h] \in {"lookup", "logout"} /\ op[h] = "logout" /\ fresh[h] = NoToken
        /\ arg[h] # Garbage => arg[h] \in Issued
        /\ UNCHANGED <<root, expired, ended, arg, op, fresh, seen>>
    BY <1>8, <1>a DEF LookupLogout, RevokeOne, table, HandlerInv
  <2>2. CASE pc'[h] = "logout" /\ UNCHANGED <<status, answer>>
            /\ \A g \in Handlers \ {h} : pc'[g] = pc[g]
    <3>1. Mapped' = Mapped
      BY <2>2 DEF Mapped
    <3>2. QED
      BY <1>a, <2>1, <2>2, <3>1, Invisible
  <2>3. CASE /\ Respond(h, "ok")
             /\ Mapped' = IF arg[h] = Garbage THEN Mapped ELSE [Mapped EXCEPT ![arg[h]] = "revoked"]
    <3>1. /\ Calling' = [Calling EXCEPT ![h] = Family!Answered(Calling[h], "ok", NoToken)]
          /\ Calling[h] = Family!Asked("logout", arg[h])
      BY <1>a, <2>1, <2>3, Ends
    <3>2. Calling[h].token = arg[h] /\ Calling[h].state = "asked" /\ Calling[h].op = "logout"
      BY <3>1 DEF Family!Asked
    <3>3. Family!AskedTo(h, "logout") /\ Family!Reply(h, "ok", NoToken)
      BY <3>1, <3>2 DEF Family!AskedTo, Family!Reply, Calling
    <3>4. Mapped' = IF Calling[h].token = Garbage
                      THEN Mapped ELSE [Mapped EXCEPT ![Calling[h].token] = "revoked"]
      BY <2>3, <3>2
    <3>5. QED
      BY <2>1, <3>3, <3>4 DEF Family!Revoke, Mapped, Calling
  <2>4. CASE LookupLogout(h) /\ PresentsLive(h)
    BY <1>a, <2>2, <2>4 DEF LookupLogout, Goto, table, TypeOK
  <2>5. CASE LookupLogout(h) /\ ~PresentsLive(h)
    <3>1. Respond(h, "ok") /\ Mapped' = Mapped
      BY <2>5 DEF LookupLogout, table, Mapped
    <3>2. arg[h] # Garbage => Mapped[arg[h]] = "revoked" /\ arg[h] \in Tokens
      BY <1>b, <2>1, <2>5 DEF PresentsLive, Issued
    <3>3. QED
      BY <1>b, <2>3, <3>1, <3>2
  <2>6. CASE RevokeOne(h)
    <3>1. arg[h] # Garbage /\ arg[h] \in Tokens
      BY <1>a, <1>b, <2>1, <2>6 DEF RevokeOne, HandlerInv
    <3>2. Mapped' = [Mapped EXCEPT ![arg[h]] = "revoked"]
      BY <1>a, <2>6, <3>1 DEF RevokeOne, Mapped, TypeOK
    <3>3. QED
      BY <2>3, <2>6, <3>1, <3>2 DEF RevokeOne
  <2>7. QED
    BY <1>8, <2>4, <2>5, <2>6
<1>9. ASSUME NEW h \in Handlers, Fail(h) PROVE Family!Fail(h)
  <2>1. Mapped' = Mapped
    BY <1>9, <1>a, RefreshAssumption DEF Fail, HandlerInv, Mapped, TypeOK
  <2>2. /\ Calling' = [Calling EXCEPT ![h] = Family!Answered(Calling[h], "failed", NoToken)]
        /\ Calling[h] = Family!Asked(op[h], arg[h])
    BY <1>9, <1>a, Ends DEF Fail, TypeOK
  <2>3. QED
    BY <1>9, <2>1, <2>2 DEF Fail, Family!Fail, Family!Asked, Family!Reply, Mapped, Calling
<1>10. ASSUME NEW h \in Handlers, Answer(h) PROVE Family!Answer(h)
  <2>1. Mapped' = Mapped /\ UNCHANGED <<root, expired, ended>>
    BY <1>10 DEF Answer, table, Mapped
  <2>2. Calling[h].state = "answered"
    BY <1>10 DEF Answer, Calling, CallOf
  <2>3. CallOf(h)' = Family!Idle
    BY <1>10, <1>a DEF Answer, Goto, CallOf, Family!Idle, TypeOK
  <2>4. Calling' = [Calling EXCEPT ![h] = Family!Idle]
    BY <1>10, <1>a, <2>3, OneCallChanges DEF Answer, Goto, TypeOK
  <2>5. QED
    BY <2>1, <2>2, <2>4 DEF Family!Answer, Mapped, Calling
<1>11. ASSUME NEW h \in Handlers, Step(h) \/ Fail(h) \/ BreakCircle(h)
       PROVE  Family!Serve(h) \/ Family!Answer(h) \/ UNCHANGED Family!vars
  <2>1. CASE Commit(h)
    <3>1. PICK n \in Tokens : fresh[h] = n
      BY <1>a, <2>1 DEF Commit, HandlerInv
    <3>2. QED
      BY <1>6, <2>1, <3>1 DEF Family!Serve
  <2>2. CASE Fail(h) \/ BreakCircle(h)
    BY <1>9, <2>2 DEF BreakCircle, Family!Serve
  <2>3. CASE LookupRefresh(h)
    BY <1>4, <2>3 DEF Family!Serve
  <2>4. CASE CommitRevokeFamily(h)
    BY <1>7, <2>4 DEF Family!Serve
  <2>5. CASE LookupLogout(h) \/ RevokeOne(h)
    BY <1>8, <2>5 DEF Family!Serve
  <2>6. QED
    BY <1>5, <1>10, <1>11, <2>1, <2>2, <2>3, <2>4, <2>5 DEF Step
<1>12. QED
  BY <1>1, <1>2, <1>3, <1>11 DEF Next, Family!Next

\* On a database that serializes its writers, the endpoints behave as if each
\* request were one indivisible step: they implement TokenFamily
\* (auth.py:153-242).
THEOREM ImplementsTokenFamily == Spec => ImplementsFamily
<1>1. IInv /\ [Next]_vars => [ReadCommitted \/ Family!Next]_(Family!vars)
  <2>1. CASE UNCHANGED vars
    BY <2>1 DEF vars, Family!vars, CallOf
  <2>2. QED
    BY <2>1, StepRefines
<1>2. QED
  BY <1>1, InitRefines, Inductive, PTL DEF Spec, ImplementsFamily
=============================================================================
