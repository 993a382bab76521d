-------------------------- MODULE LivePricingProofs --------------------------
(***************************************************************************)
(* Proofs, for every number of threads, trips and airports and every size   *)
(* and lifetime of the cache, of what ResponseCache says of the age of an    *)
(* answer and of what is paid for, and LivePricing of the chain of           *)
(* providers.                                                              *)
(*                                                                         *)
(* That nothing is paid for twice is a fact about orders: the cache's keys   *)
(* stand in the order of their last use, so what falls off the front has as  *)
(* many keys used after it as the cache has room for, and every later use    *)
(* keeps it so.                                                             *)
(***************************************************************************)
EXTENDS LivePricing, FiniteSetTheorems, SequenceTheorems, TLAPS

-----------------------------------------------------------------------------
\* The cache.

\* An entry is never older than its value by more than one provider call.
EntryInv(e) == e.at \in Int /\ e.value \in Int /\ e.at <= e.value + MaxFetch

\* A provider call that is under way has not taken too long.
FetchInv(s) ==
  fetch[s] # NoFetch => fetch[s].asked \in Nat /\ fetch[s].asked <= clock
                        /\ clock <= fetch[s].asked + MaxFetch

CacheInv ==
  /\ clock \in Nat
  /\ entry \in [Keys -> [at : Int, value : Int]]
  /\ fetch \in [Searches -> [keys : SUBSET Keys, asked : Int]]
  /\ \A k \in Keys : EntryInv(entry[k])
  /\ \A s \in Searches : FetchInv(s)

\* Nothing is stored and nothing is asked.
LEMMA InitCacheInv == Init => CacheInv
<1> SUFFICES ASSUME Init PROVE CacheInv
  OBVIOUS
<1>1. /\ NoEntry \in [at : Int, value : Int] /\ NoFetch \in [keys : SUBSET Keys, asked : Int]
      /\ EntryInv(NoEntry)
  BY CacheAssumption DEF NoEntry, NoFetch, Never, EntryInv
<1>2. QED
  BY <1>1 DEF Init, CacheInv, FetchInv

\* What a store leaves under a key: what was there, nothing, or what is stored.
LEMMA StoredEntries ==
  ASSUME NEW k \in Keys, NEW when, Store(k, when), CacheInv
  PROVE  \A j \in Keys : entry'[j] \in {entry[j], NoEntry, [at |-> clock, value |-> when]}
  BY DEF Store, CacheInv

LEMMA StoreCacheInv ==
  ASSUME CacheInv, NEW s \in Searches, NEW k \in Keys, fetch[s] # NoFetch,
         Store(k, fetch[s].asked), UNCHANGED clock, fetch' = [fetch EXCEPT ![s] = NoFetch]
  PROVE  CacheInv'
<1>1. EntryInv([at |-> clock, value |-> fetch[s].asked])
      /\ [at |-> clock, value |-> fetch[s].asked] \in [at : Int, value : Int]
  BY CacheAssumption DEF CacheInv, FetchInv, EntryInv
<1>2. EntryInv(NoEntry) /\ NoEntry \in [at : Int, value : Int]
  BY CacheAssumption DEF NoEntry, Never, EntryInv
<1>3. \A j \in Keys : entry'[j] \in {entry[j], NoEntry, [at |-> clock, value |-> fetch[s].asked]}
  BY StoredEntries
<1>4. \A j \in Keys : EntryInv(entry'[j]) /\ entry'[j] \in [at : Int, value : Int]
  BY <1>1, <1>2, <1>3 DEF CacheInv
<1>5. entry' = [j \in Keys |-> entry'[j]]
  BY DEF Store
<1>6. entry' \in [Keys -> [at : Int, value : Int]]
  BY <1>4, <1>5
<1>7. NoFetch \in [keys : SUBSET Keys, asked : Int]
  BY DEF NoFetch, Never
<1>8. \A r \in Searches : FetchInv(r)'
  BY DEF CacheInv, FetchInv
<1>9. QED
  BY <1>4, <1>6, <1>7, <1>8 DEF CacheInv

LEMMA NextCacheInv == ASSUME CacheInv, [Next]_vars PROVE CacheInv'
<1>1. ASSUME NEW s \in Searches, NEW k \in Keys, Hit(k) PROVE CacheInv'
  BY <1>1 DEF Hit, CacheInv, FetchInv
<1>2. ASSUME NEW s \in Searches, NEW k \in Keys, Miss(s, k) PROVE CacheInv'
  <2>1. /\ entry' = [entry EXCEPT ![k] = NoEntry] /\ clock' = clock
        /\ fetch' = [fetch EXCEPT ![s] = [keys |-> {k}, asked |-> clock]]
    BY <1>2 DEF Miss
  <2>2. EntryInv(NoEntry) /\ NoEntry \in [at : Int, value : Int]
    BY CacheAssumption DEF NoEntry, Never, EntryInv
  <2>3. [keys |-> {k}, asked |-> clock] \in [keys : SUBSET Keys, asked : Int]
    BY DEF CacheInv
  <2>4. entry' \in [Keys -> [at : Int, value : Int]] /\ \A j \in Keys : EntryInv(entry'[j])
    BY <2>1, <2>2 DEF CacheInv
  <2>5. fetch' \in [Searches -> [keys : SUBSET Keys, asked : Int]]
    BY <2>1, <2>3 DEF CacheInv
  <2>6. ASSUME NEW r \in Searches PROVE FetchInv(r)'
    BY <2>1, CacheAssumption DEF CacheInv, FetchInv
  <2>7. QED
    BY <2>1, <2>4, <2>5, <2>6 DEF CacheInv
<1>3. ASSUME NEW s \in Searches, ProviderAnswers(s) PROVE CacheInv'
  <2>1. fetch[s] # NoFetch /\ fetch' = [fetch EXCEPT ![s] = NoFetch] /\ UNCHANGED clock
    BY <1>3 DEF ProviderAnswers
  <2>2. CASE \E k \in fetch[s].keys : Store(k, fetch[s].asked)
    <3>1. PICK k \in fetch[s].keys : Store(k, fetch[s].asked)
      BY <2>2
    <3>2. k \in Keys
      BY <3>1 DEF CacheInv
    <3>3. QED
      BY <2>1, <3>1, <3>2, StoreCacheInv
  <2>3. CASE UNCHANGED <<order, entry, used, latest>>
    <3>1. NoFetch \in [keys : SUBSET Keys, asked : Int]
      BY DEF NoFetch, Never
    <3>2. QED
      BY <2>1, <2>3, <3>1 DEF CacheInv, FetchInv
  <2>4. QED
    BY <1>3, <2>2, <2>3 DEF ProviderAnswers
<1>4. CASE Tick
  BY <1>4, CacheAssumption DEF Tick, CacheInv, FetchInv
<1>5. CASE UNCHANGED vars
  BY <1>5 DEF vars, CacheInv, FetchInv
<1>6. QED
  BY <1>1, <1>2, <1>3, <1>4, <1>5 DEF Next, Lookup

\* However searches interleave, no adapter is handed an answer that was asked
\* for longer ago than the time to live and one provider call
\* (response_cache.py, get).
THEOREM AnswersAreRecent == Spec => []ServedIsRecent
<1>1. CacheInv => ServedIsRecent
  BY CacheAssumption DEF CacheInv, EntryInv, ServedIsRecent, Expired
<1>2. CacheInv /\ [Next]_vars => CacheInv'
  BY NextCacheInv
<1>3. QED
  BY InitCacheInv, <1>1, <1>2, PTL DEF Spec

-----------------------------------------------------------------------------
\* The sequences of keys.  Kept is a recursive function on the positions of a
\* sequence: what follows describes the positions it picks.

\* Of a set of numbers there is a least one: the induction used below.
LEMMA LeastNumber ==
  ASSUME NEW T, T \subseteq Nat, T # {}
  PROVE  \E n \in T : \A m \in T : n <= m
<1>1. PICK n \in T : \A m \in T : ~(<<m, n>> \in OpToRel(<, Nat))
  <2> HIDE DEF OpToRel
  <2>1. QED
    BY NatLessThanWellFounded, WFMin
<1>2. \A m \in T : ~(m < n)
  BY <1>1 DEF OpToRel
<1>3. QED
  BY <1>2

\* One element of the table Kept builds from those before it.
KeptStep(t, seq, S, i) ==
  IF i = 0 THEN <<>>
  ELSE IF seq[i] \in S THEN Append(t[i - 1], seq[i]) ELSE t[i - 1]

KeptTable(t, seq, S, n) == t = [i \in 0..n |-> KeptStep(t, seq, S, i)]

\* There is such a table of any length.
LEMMA KeptTableExists ==
  ASSUME NEW seq, NEW S, NEW n \in Nat
  PROVE  \E t : KeptTable(t, seq, S, n)
<1> DEFINE Bad == {m \in Nat : ~\E t : KeptTable(t, seq, S, m)}
<1> SUFFICES ASSUME Bad # {} PROVE FALSE
  OBVIOUS
<1>1. PICK m \in Bad : \A l \in Bad : m <= l
  <2>1. Bad \subseteq Nat
    OBVIOUS
  <2> HIDE DEF Bad
  <2>2. QED
    BY <2>1, LeastNumber
<1>2. m \in Nat /\ m # 0
  <2>1. KeptTable([i \in 0..0 |-> <<>>], seq, S, 0)
    BY DEF KeptTable, KeptStep
  <2>2. QED
    BY <1>1, <2>1
<1>3. PICK t : KeptTable(t, seq, S, m - 1)
  <2>1. m - 1 \in Nat /\ ~(m <= m - 1)
    BY <1>2
  <2>2. QED
    BY <1>1, <2>1
<1> DEFINE u == [i \in 0..m |-> KeptStep(t, seq, S, i)]
<1>4. \A i \in 0..(m - 1) : u[i] = t[i]
  <2>1. \A i \in 0..(m - 1) : t[i] = KeptStep(t, seq, S, i) /\ i \in 0..m
    <3>1. 0..(m - 1) \subseteq 0..m
      BY <1>2
    <3>2. QED
      BY <1>3, <3>1 DEF KeptTable
  <2>2. QED
    BY <2>1
<1>5. \A i \in 0..m : KeptStep(t, seq, S, i) = KeptStep(u, seq, S, i)
  <2>1. \A i \in 0..m : i = 0 \/ i - 1 \in 0..(m - 1)
    BY <1>2
  <2> HIDE DEF u
  <2>2. QED
    BY <1>4, <2>1 DEF KeptStep
<1>6. KeptTable(u, seq, S, m)
  BY <1>5 DEF KeptTable
<1>7. QED
  <2> HIDE DEF u
  <2>1. QED
    BY <1>1, <1>6

\* s is what p picks out of seq: everything in S among the first n elements, in
\* their order.
Picked(s, p, seq, S, n) ==
  /\ s \in Seq(Keys)
  /\ p \in [1..Len(s) -> 1..n]
  /\ \A a, b \in 1..Len(s) : a < b => p[a] < p[b]
  /\ \A a \in 1..Len(s) : s[a] = seq[p[a]] /\ s[a] \in S
  /\ \A m \in 1..n : seq[m] \in S => \E a \in 1..Len(s) : p[a] = m

\* That is what Kept computes.
LEMMA KeptIsPicked ==
  ASSUME NEW seq \in Seq(Keys), NEW S
  PROVE  \E p : Picked(Kept(seq, S), p, seq, S, Len(seq))
<1> DEFINE t == CHOOSE t : KeptTable(t, seq, S, Len(seq))
<1>1. KeptTable(t, seq, S, Len(seq))
  BY KeptTableExists
<1>2. Kept(seq, S) = t[Len(seq)]
  BY DEF Kept, KeptTable, KeptStep
<1> HIDE DEF t
<1>3. \A i \in 0..Len(seq) : t[i] = KeptStep(t, seq, S, i)
  BY <1>1 DEF KeptTable
<1> DEFINE Bad == {n \in 0..Len(seq) : ~\E p : Picked(t[n], p, seq, S, n)}
<1>4. Bad = {}
  <2> SUFFICES ASSUME Bad # {} PROVE FALSE
    OBVIOUS
  <2>1. PICK n \in Bad : \A l \in Bad : n <= l
    <3>1. Bad \subseteq Nat
      OBVIOUS
    <3> HIDE DEF Bad
    <3>2. QED
      BY <3>1, LeastNumber
  <2>2. n \in 0..Len(seq) /\ n # 0
    <3>1. t[0] = <<>>
      BY <1>3 DEF KeptStep
    <3>2. Picked(t[0], [a \in 1..0 |-> a], seq, S, 0)
      BY <3>1 DEF Picked
    <3>3. QED
      BY <2>1, <3>2
  <2>3. n - 1 \in 0..Len(seq) /\ n \in 1..Len(seq) /\ ~(n <= n - 1)
    BY <2>2
  <2>4. PICK p : Picked(t[n - 1], p, seq, S, n - 1)
    BY <2>1, <2>3
  <2>5. t[n] = IF seq[n] \in S THEN Append(t[n - 1], seq[n]) ELSE t[n - 1]
    BY <1>3, <2>2 DEF KeptStep
  <2>6. seq[n] \in Keys
    BY <2>3
  <2>7. CASE seq[n] \notin S
    <3>1. Picked(t[n - 1], p, seq, S, n)
      BY <2>3, <2>4, <2>7 DEF Picked
    <3>2. QED
      BY <2>1, <2>5, <2>7, <3>1
  <2>8. CASE seq[n] \in S
    <3> DEFINE s == t[n - 1]
               r == Append(s, seq[n])
               q == [a \in 1..Len(r) |-> IF a = Len(r) THEN n ELSE p[a]]
    <3>1. /\ r \in Seq(Keys) /\ Len(r) = Len(s) + 1 /\ Len(s) \in Nat
          /\ r[Len(r)] = seq[n] /\ \A a \in 1..Len(s) : r[a] = s[a]
      BY <2>4, <2>6 DEF Picked
    <3> HIDE DEF r
    <3>2. q \in [1..Len(r) -> 1..n]
      BY <2>3, <2>4, <3>1 DEF Picked
    <3>3. /\ Len(r) \in 1..Len(r) /\ q[Len(r)] = n
          /\ \A a \in 1..Len(r) : a = Len(r) \/ a \in 1..Len(s)
          /\ \A a \in 1..Len(s) : a \in 1..Len(r) /\ a < Len(r) /\ q[a] = p[a] /\ p[a] < n
      <4>1. \A a \in 1..Len(s) : a \in 1..Len(r) /\ a < Len(r)
        BY <3>1
      <4>2. \A a \in 1..Len(s) : p[a] \in 1..(n - 1)
        BY <2>4 DEF Picked
      <4>3. \A a \in 1..Len(s) : p[a] < n
        BY <2>3, <4>2
      <4>4. \A a \in 1..Len(s) : q[a] = p[a]
        BY <4>1
      <4>5. Len(r) \in 1..Len(r) /\ \A a \in 1..Len(r) : a = Len(r) \/ a \in 1..Len(s)
        BY <3>1
      <4>6. QED
        BY <4>1, <4>3, <4>4, <4>5
    <3> HIDE DEF q
    <3>4. \A a, b \in 1..Len(r) : a < b => q[a] < q[b]
      BY <2>4, <3>1, <3>3 DEF Picked
    <3>5. \A a \in 1..Len(r) : r[a] = seq[q[a]] /\ r[a] \in S
      BY <2>4, <2>8, <3>1, <3>3 DEF Picked
    <3>6. \A m \in 1..n : seq[m] \in S => \E a \in 1..Len(r) : q[a] = m
      <4> SUFFICES ASSUME NEW m \in 1..n, seq[m] \in S PROVE \E a \in 1..Len(r) : q[a] = m
        OBVIOUS
      <4>1. CASE m = n
        BY <3>3, <4>1
      <4>2. CASE m # n
        <5>1. m \in 1..(n - 1)
          BY <2>3, <4>2
        <5>2. PICK a \in 1..Len(s) : p[a] = m
          BY <2>4, <5>1 DEF Picked
        <5>3. QED
          BY <3>3, <5>2
      <4>3. QED
        BY <4>1, <4>2
    <3>7. Picked(r, q, seq, S, n)
      BY <3>1, <3>2, <3>4, <3>5, <3>6 DEF Picked
    <3>8. QED
      BY <2>1, <2>5, <2>8, <3>7 DEF r
  <2>9. QED
    BY <2>7, <2>8
<1>5. Len(seq) \in 0..Len(seq)
  OBVIOUS
<1>6. QED
  BY <1>2, <1>4, <1>5

\* Kept keeps what is in S, all of it, and its order.
LEMMA KeptFacts ==
  ASSUME NEW seq \in Seq(Keys), NEW S
  PROVE  /\ Kept(seq, S) \in Seq(Keys)
         /\ ToSet(Kept(seq, S)) = ToSet(seq) \cap S
         /\ IsInjective(seq) => IsInjective(Kept(seq, S))
         /\ \A j, k : Before(Kept(seq, S), j, k) <=> Before(seq, j, k) /\ j \in S /\ k \in S
<1>1. PICK p : Picked(Kept(seq, S), p, seq, S, Len(seq))
  BY KeptIsPicked
<1>2. PICK s : s = Kept(seq, S)
  OBVIOUS
<1>3. /\ s \in Seq(Keys) /\ DOMAIN s = 1..Len(s) /\ DOMAIN seq = 1..Len(seq)
      /\ Len(s) \in Nat /\ Len(seq) \in Nat
      /\ \A a \in DOMAIN s : p[a] \in DOMAIN seq /\ s[a] = seq[p[a]] /\ s[a] \in S
      /\ \A a, b \in DOMAIN s : a < b => p[a] < p[b]
      /\ \A m \in DOMAIN seq : seq[m] \in S => \E a \in DOMAIN s : p[a] = m
  <2>1. s \in Seq(Keys) /\ DOMAIN s = 1..Len(s) /\ DOMAIN seq = 1..Len(seq)
        /\ Len(s) \in Nat /\ Len(seq) \in Nat
    BY <1>1, <1>2 DEF Picked
  <2>2. p \in [1..Len(s) -> 1..Len(seq)]
    BY <1>1, <1>2 DEF Picked
  <2>3. QED
    BY <1>1, <1>2, <2>1, <2>2 DEF Picked
<1>4. ToSet(s) = ToSet(seq) \cap S
  BY <1>3 DEF ToSet
<1>5. ASSUME IsInjective(seq) PROVE IsInjective(s)
  <2> SUFFICES ASSUME NEW a \in DOMAIN s, NEW b \in DOMAIN s, s[a] = s[b], a # b PROVE FALSE
    BY DEF IsInjective
  <2>1. p[a] = p[b]
    BY <1>3, <1>5 DEF IsInjective
  <2>2. a < b \/ b < a
    BY <1>3
  <2>3. p[a] < p[b] \/ p[b] < p[a]
    BY <1>3, <2>2
  <2>4. p[a] \in Int /\ p[b] \in Int
    BY <1>3
  <2>5. QED
    BY <2>1, <2>3, <2>4
<1>6. ASSUME NEW j, NEW k, Before(s, j, k) PROVE Before(seq, j, k) /\ j \in S /\ k \in S
  BY <1>3, <1>6 DEF Before
<1>7. ASSUME NEW j, NEW k, Before(seq, j, k), j \in S, k \in S PROVE Before(s, j, k)
  <2>1. PICK m, n \in DOMAIN seq : seq[m] = j /\ seq[n] = k /\ m < n
    BY <1>7 DEF Before
  <2>2. PICK a \in DOMAIN s : p[a] = m
    BY <1>3, <1>7, <2>1
  <2>3. PICK b \in DOMAIN s : p[b] = n
    BY <1>3, <1>7, <2>1
  <2>4. a < b
    <3>1. a # b /\ (b < a => p[b] < p[a])
      BY <1>3, <2>1, <2>2, <2>3
    <3>2. a \in Int /\ b \in Int /\ m \in Int /\ n \in Int
      BY <1>3
    <3>3. QED
      BY <2>1, <2>2, <2>3, <3>1, <3>2
  <2>5. QED
    BY <1>3, <2>1, <2>2, <2>3, <2>4 DEF Before
<1>8. QED
  BY <1>2, <1>3, <1>4, <1>5, <1>6, <1>7

\* A key moved to the end comes after all others, whose order stays.
LEMMA MovedFacts ==
  ASSUME NEW seq \in Seq(Keys), IsInjective(seq), NEW k \in Keys
  PROVE  /\ MovedToEnd(seq, k) \in Seq(Keys)
         /\ IsInjective(MovedToEnd(seq, k))
         /\ ToSet(MovedToEnd(seq, k)) = ToSet(seq) \cup {k}
         /\ \A i, j : Before(MovedToEnd(seq, k), i, j) <=>
              \/ Before(seq, i, j) /\ i # k /\ j # k
              \/ i \in ToSet(seq) \ {k} /\ j = k
<1>1. PICK s : s = Without(seq, k)
  OBVIOUS
<1>2. /\ s \in Seq(Keys) /\ ToSet(s) = ToSet(seq) \ {k} /\ IsInjective(s)
      /\ \A i, j : Before(s, i, j) <=> Before(seq, i, j) /\ i # k /\ j # k
  <2>1. ToSet(seq) \subseteq Keys
    BY DEF ToSet
  <2>2. \A i, j : Before(seq, i, j) => i \in Keys /\ j \in Keys
    BY DEF Before
  <2>3. QED
    BY <1>1, <2>1, <2>2, KeptFacts DEF Without
<1>3. PICK m : m = MovedToEnd(seq, k)
  OBVIOUS
<1>4. /\ m \in Seq(Keys) /\ Len(m) = Len(s) + 1 /\ Len(s) \in Nat
      /\ DOMAIN m = 1..Len(m) /\ DOMAIN s = 1..Len(s)
      /\ m[Len(m)] = k /\ \A a \in 1..Len(s) : m[a] = s[a]
  BY <1>1, <1>2, <1>3 DEF MovedToEnd
<1>5. /\ Len(m) \in DOMAIN m
      /\ \A a \in DOMAIN m : a = Len(m) \/ a \in DOMAIN s
      /\ \A a \in DOMAIN s : a \in DOMAIN m /\ a < Len(m)
  BY <1>4
<1>6. ToSet(m) = ToSet(s) \cup {k}
  BY <1>4, <1>5 DEF ToSet
<1>7. \A a \in DOMAIN s : s[a] # k
  BY <1>2 DEF ToSet
<1>8. IsInjective(m)
  BY <1>2, <1>4, <1>5, <1>7 DEF IsInjective
<1>9. ASSUME NEW i, NEW j, Before(m, i, j) PROVE Before(s, i, j) \/ (i \in ToSet(s) /\ j = k)
  <2>1. PICK a, b \in DOMAIN m : m[a] = i /\ m[b] = j /\ a < b
    BY <1>9 DEF Before
  <2>2. a \in DOMAIN s
    BY <1>4, <1>5, <2>1
  <2>3. QED
    BY <1>4, <1>5, <2>1, <2>2 DEF Before, ToSet
<1>10. ASSUME NEW i, NEW j, Before(s, i, j) PROVE Before(m, i, j)
  BY <1>4, <1>5, <1>10 DEF Before
<1>11. ASSUME NEW i, i \in ToSet(s) PROVE Before(m, i, k)
  BY <1>4, <1>5, <1>11 DEF Before, ToSet
<1>12. QED
  BY <1>2, <1>3, <1>4, <1>6, <1>8, <1>9, <1>10, <1>11

\* What is evicted had MaxEntries keys behind it.
LEMMA EvictedFacts ==
  ASSUME NEW seq \in Seq(Keys), IsInjective(seq), seq # <<>>
  PROVE  /\ Evicted(seq) \in Seq(Keys)
         /\ IsInjective(Evicted(seq))
         /\ ToSet(Evicted(seq)) \subseteq ToSet(seq)
         /\ seq[Len(seq)] \in ToSet(Evicted(seq))
         /\ \A i, j : Before(Evicted(seq), i, j) => Before(seq, i, j)
         /\ \A j \in ToSet(seq) \ ToSet(Evicted(seq)) :
              \E B \in SUBSET Keys :
                /\ IsFiniteSet(B) /\ Cardinality(B) = MaxEntries
                /\ \A k \in B : Before(seq, j, k)
<1>1. /\ Len(seq) \in Nat /\ Len(seq) # 0 /\ DOMAIN seq = 1..Len(seq)
      /\ MaxEntries \in Nat /\ MaxEntries # 0
  BY CacheAssumption
<1>2. CASE Len(seq) <= MaxEntries
  <2>1. Evicted(seq) = seq
    BY <1>1, <1>2 DEF Evicted
  <2>2. seq[Len(seq)] \in ToSet(seq)
    BY <1>1 DEF ToSet
  <2>3. QED
    BY <2>1, <2>2
<1>3. CASE Len(seq) > MaxEntries
  <2> DEFINE d == Len(seq) - MaxEntries
  <2>1. PICK e : e = Evicted(seq)
    OBVIOUS
  <2>2. /\ d \in Nat /\ d # 0 /\ e = SubSeq(seq, d + 1, Len(seq))
        /\ e \in Seq(Keys) /\ Len(e) = MaxEntries /\ DOMAIN e = 1..MaxEntries
        /\ \A a \in 1..MaxEntries : e[a] = seq[d + a]
    <3>1. d \in Nat /\ d # 0
      <4>1. PICK n \in Nat : n = Len(seq)
        BY <1>1
      <4>2. PICK m \in Nat : m = MaxEntries
        BY <1>1
      <4>3. n - m \in Nat /\ n - m # 0
        BY <1>3, <4>1, <4>2
      <4>4. QED
        BY <4>1, <4>2, <4>3
    <3>2. e = SubSeq(seq, d + 1, Len(seq))
      BY <1>3, <2>1 DEF Evicted
    <3>3. d + 1 \in 1..Len(seq) + 1 /\ Len(seq) \in d..Len(seq)
          /\ Len(seq) - (d + 1) + 1 = MaxEntries
      BY <1>1, <1>3
    <3> HIDE DEF d
    <3>4. e \in Seq(Keys) /\ Len(e) = MaxEntries /\ DOMAIN e = 1..Len(e)
      <4>1. \A i \in d + 1..Len(seq) : seq[i] \in Keys
        BY <3>1
      <4>2. d + 1 \in Int /\ Len(seq) \in Int /\ d + 1 <= Len(seq)
        BY <1>1, <3>1, <3>3
      <4>3. /\ SubSeq(seq, d + 1, Len(seq)) \in Seq(Keys)
            /\ Len(SubSeq(seq, d + 1, Len(seq))) = Len(seq) - (d + 1) + 1
        BY <4>1, <4>2, SubSeqProperties
      <4>4. QED
        BY <3>2, <3>3, <4>3
    <3>5. \A a \in 1..MaxEntries : e[a] = seq[d + 1 + a - 1] /\ d + 1 + a - 1 = d + a
      BY <1>1, <3>1, <3>2, <3>3
    <3>6. QED
      BY <3>1, <3>2, <3>4, <3>5
  <2>3. /\ \A a \in 1..MaxEntries : d + a \in DOMAIN seq /\ a \in Int
        /\ \A m \in DOMAIN seq : m <= d \/ m - d \in 1..MaxEntries
        /\ d + MaxEntries = Len(seq) /\ d \in Int /\ MaxEntries \in 1..MaxEntries
    BY <1>1, <1>3
  <2> HIDE DEF d
  <2>4. IsInjective(e)
    BY <2>2, <2>3 DEF IsInjective
  <2>5. ToSet(e) \subseteq ToSet(seq) /\ seq[Len(seq)] \in ToSet(e)
    <3>1. e[MaxEntries] = seq[Len(seq)]
      BY <2>2, <2>3
    <3>2. seq[Len(seq)] \in ToSet(e)
      BY <2>2, <2>3, <3>1 DEF ToSet
    <3>3. ASSUME NEW a \in DOMAIN e PROVE e[a] \in ToSet(seq)
      BY <2>2, <2>3 DEF ToSet
    <3>4. QED
      BY <3>2, <3>3 DEF ToSet
  <2>6. \A i, j : Before(e, i, j) => Before(seq, i, j)
    BY <2>2, <2>3 DEF Before
  <2>7. ASSUME NEW j \in ToSet(seq) \ ToSet(e)
        PROVE  \A k \in ToSet(e) : Before(seq, j, k)
    <3>1. PICK m \in DOMAIN seq : seq[m] = j
      BY DEF ToSet
    <3>2. m <= d
      <4>1. m = d + (m - d)
        BY <1>1, <2>3
      <4>2. QED
        BY <2>2, <2>3, <3>1, <4>1 DEF ToSet
    <3>3. ASSUME NEW k \in ToSet(e) PROVE Before(seq, j, k)
      <4>1. PICK a \in 1..MaxEntries : e[a] = k
        BY <2>2 DEF ToSet
      <4>2. seq[d + a] = k /\ d + a \in DOMAIN seq
        BY <2>2, <2>3, <4>1
      <4>3. m < d + a
        BY <1>1, <2>3, <3>2
      <4>4. QED
        BY <3>1, <4>2, <4>3 DEF Before
    <3>4. QED
      BY <3>3
  <2>8. ToSet(e) \in SUBSET Keys /\ IsFiniteSet(ToSet(e)) /\ Cardinality(ToSet(e)) = MaxEntries
    <3>1. ToSet(e) \in SUBSET Keys
      BY <2>2 DEF ToSet
    <3>2. e \in [1..MaxEntries -> ToSet(e)]
      <4>1. e = [a \in DOMAIN e |-> e[a]] /\ \A a \in DOMAIN e : e[a] \in ToSet(e)
        BY <2>2 DEF ToSet
      <4>2. QED
        BY <2>2, <4>1
    <3>3. e \in Bijection(1..MaxEntries, ToSet(e))
      <4>1. e \in Injection(1..MaxEntries, ToSet(e))
        BY <2>2, <2>4, <3>2 DEF Injection, IsInjective
      <4>2. e \in Surjection(1..MaxEntries, ToSet(e))
        BY <2>2, <3>2 DEF Surjection, ToSet
      <4>3. QED
        BY <4>1, <4>2 DEF Bijection
    <3>4. ExistsBijection(1..MaxEntries, ToSet(e))
      BY <3>3 DEF ExistsBijection
    <3>5. QED
      BY <1>1, <3>1, <3>4, FS_NatBijection, FS_CountingElements
  <2>9. QED
    BY <2>1, <2>2, <2>4, <2>5, <2>6, <2>7, <2>8
<1>4. QED
  BY <1>1, <1>2, <1>3

-----------------------------------------------------------------------------
\* What may be missing from the cache.

\* At least MaxEntries other keys have been used since k was.
PushedOut(k) ==
  \E B \in SUBSET Keys :
    /\ IsFiniteSet(B) /\ Cardinality(B) = MaxEntries
    /\ \A j \in B : Before(used, k, j)

\* The order of the cache is that of the last uses; an entry is what was last
\* stored; and what is no longer there has expired or been pushed out.
UsageInv ==
  /\ order \in Seq(Keys) /\ IsInjective(order)
  /\ used \in Seq(Keys) /\ IsInjective(used)
  /\ latest \in [Keys -> [at : Int, value : Int]]
  /\ ToSet(order) \subseteq ToSet(used)
  /\ \A i, j \in Keys : Before(order, i, j) => Before(used, i, j)
  /\ \A k \in ToSet(order) : entry[k] = latest[k]
  /\ \A k \in Keys : latest[k] # NoEntry => k \in ToSet(used)
  /\ \A k \in Keys :
       k \in ToSet(order) \/ latest[k] = NoEntry \/ Expired(latest[k]) \/ PushedOut(k)

\* Only elements have a place.
LEMMA BeforeInRange ==
  ASSUME NEW seq \in Seq(Keys), NEW i, NEW j, Before(seq, i, j)
  PROVE  i \in ToSet(seq) /\ j \in ToSet(seq) /\ i \in Keys /\ j \in Keys
BY DEF Before, ToSet

\* The empty sequence.
LEMMA EmptyFacts ==
  /\ <<>> \in Seq(Keys) /\ IsInjective(<<>>) /\ ToSet(<<>>) = {}
  /\ \A i, j : ~Before(<<>>, i, j)
BY DEF IsInjective, ToSet, Before

\* Nothing has been used.
LEMMA InitUsage == Init => UsageInv
<1>1. NoEntry \in [at : Int, value : Int]
  BY DEF NoEntry, Never
<1>2. QED
  BY <1>1, EmptyFacts DEF Init, UsageInv

\* Cached is membership.
LEMMA CachedKeys ==
  ASSUME order \in Seq(Keys), NEW k
  PROVE  Cached(k) <=> k \in ToSet(order)
BY DEF Cached, Contains, ToSet

\* Whatever is used, what has been pushed out stays out.
LEMMA UseKeepsOut ==
  ASSUME used \in Seq(Keys), IsInjective(used), NEW k \in Keys, used' = MovedToEnd(used, k)
  PROVE  \A j \in Keys \ {k} : PushedOut(j) => PushedOut(j)'
<1> SUFFICES ASSUME NEW j \in Keys \ {k}, PushedOut(j) PROVE PushedOut(j)'
  OBVIOUS
<1>1. PICK B \in SUBSET Keys : /\ IsFiniteSet(B) /\ Cardinality(B) = MaxEntries
                               /\ \A i \in B : Before(used, j, i)
  BY DEF PushedOut
<1>2. ASSUME NEW i \in B PROVE Before(used', j, i)
  <2>1. Before(used, j, i) /\ j \in ToSet(used)
    BY <1>1, BeforeInRange
  <2>2. QED
    BY <2>1, MovedFacts
<1>3. QED
  BY <1>1, <1>2 DEF PushedOut

\* A use moves its key to the end of both.
LEMMA UsedInStep ==
  ASSUME UsageInv, NEW k \in Keys
  PROVE  LET o == MovedToEnd(order, k)
             u == MovedToEnd(used, k)
         IN  /\ o \in Seq(Keys) /\ IsInjective(o) /\ ToSet(o) = ToSet(order) \cup {k}
             /\ u \in Seq(Keys) /\ IsInjective(u) /\ ToSet(u) = ToSet(used) \cup {k}
             /\ \A i, j \in Keys : Before(o, i, j) => Before(u, i, j)
<1> DEFINE o == MovedToEnd(order, k)
           u == MovedToEnd(used, k)
<1>1. order \in Seq(Keys) /\ IsInjective(order) /\ used \in Seq(Keys) /\ IsInjective(used)
      /\ ToSet(order) \subseteq ToSet(used)
      /\ \A i, j \in Keys : Before(order, i, j) => Before(used, i, j)
  BY DEF UsageInv
<1>2. /\ o \in Seq(Keys) /\ IsInjective(o) /\ ToSet(o) = ToSet(order) \cup {k}
      /\ \A i, j : Before(o, i, j) =>
           \/ Before(order, i, j) /\ i # k /\ j # k
           \/ i \in ToSet(order) \ {k} /\ j = k
  BY <1>1, MovedFacts
<1>3. /\ u \in Seq(Keys) /\ IsInjective(u) /\ ToSet(u) = ToSet(used) \cup {k}
      /\ \A i, j : Before(used, i, j) /\ i # k /\ j # k => Before(u, i, j)
      /\ \A i \in ToSet(used) \ {k} : Before(u, i, k)
  BY <1>1, MovedFacts
<1> HIDE DEF o, u
<1>4. \A i, j \in Keys : Before(o, i, j) => Before(u, i, j)
  BY <1>1, <1>2, <1>3
<1>5. QED
  BY <1>2, <1>3, <1>4 DEF o, u

\* A hit is a use.
LEMMA HitUsage == ASSUME UsageInv, NEW k \in Keys, Hit(k) PROVE UsageInv'
<1>1. /\ order' = MovedToEnd(order, k) /\ used' = MovedToEnd(used, k)
      /\ UNCHANGED <<clock, entry, latest>> /\ k \in ToSet(order)
  BY CachedKeys DEF Hit, UsageInv
<1>2. /\ order' \in Seq(Keys) /\ IsInjective(order') /\ ToSet(order') = ToSet(order)
      /\ used' \in Seq(Keys) /\ IsInjective(used') /\ ToSet(used') = ToSet(used)
  <2>1. k \in ToSet(used)
    BY <1>1 DEF UsageInv
  <2>2. /\ order' \in Seq(Keys) /\ IsInjective(order') /\ ToSet(order') = ToSet(order) \cup {k}
        /\ used' \in Seq(Keys) /\ IsInjective(used') /\ ToSet(used') = ToSet(used) \cup {k}
    BY <1>1, UsedInStep
  <2>3. QED
    BY <1>1, <2>1, <2>2
<1>3. ASSUME NEW i \in Keys, NEW j \in Keys, Before(order', i, j) PROVE Before(used', i, j)
  BY <1>1, <1>3, UsedInStep
<1>4. ASSUME NEW j \in Keys
      PROVE  j \in ToSet(order') \/ latest'[j] = NoEntry \/ Expired(latest[j])' \/ PushedOut(j)'
  BY <1>1, <1>2, UseKeepsOut DEF UsageInv, Expired
<1>5. QED
  BY <1>1, <1>2, <1>3, <1>4 DEF UsageInv

\* A miss drops a key that has expired, or none.
LEMMA MissUsage ==
  ASSUME CacheInv, UsageInv, NEW s \in Searches, NEW k \in Keys, Miss(s, k)
  PROVE  UsageInv'
<1>1. /\ order' = Without(order, k) /\ entry' = [entry EXCEPT ![k] = NoEntry]
      /\ UNCHANGED <<clock, used, latest>>
      /\ k \in ToSet(order) => Expired(entry[k])
  BY CachedKeys DEF Miss, UsageInv
<1>2. /\ order' \in Seq(Keys) /\ IsInjective(order') /\ ToSet(order') = ToSet(order) \ {k}
      /\ \A i, j : Before(order', i, j) => Before(order, i, j)
  <2>1. ToSet(order) \subseteq Keys
    BY DEF UsageInv, ToSet
  <2>2. QED
    BY <1>1, <2>1, KeptFacts DEF UsageInv, Without
<1>3. \A j \in Keys : PushedOut(j) => PushedOut(j)'
  BY <1>1 DEF PushedOut
<1>4. ASSUME NEW j \in Keys
      PROVE  j \in ToSet(order') \/ latest'[j] = NoEntry \/ Expired(latest[j])' \/ PushedOut(j)'
  BY <1>1, <1>2, <1>3 DEF UsageInv, Expired
<1>5. \A j \in ToSet(order') : entry'[j] = entry[j]
  BY <1>1, <1>2 DEF CacheInv
<1>6. QED
  BY <1>1, <1>2, <1>4, <1>5 DEF UsageInv

\* A store is a use of a fresh entry; what it drops has expired, or is evicted
\* from before MaxEntries others.
LEMMA StoreUsage ==
  ASSUME CacheInv, UsageInv, NEW k \in Keys, NEW when \in Int, Store(k, when), UNCHANGED clock
  PROVE  UsageInv'
<1> DEFINE new == [at |-> clock, value |-> when]
           stored == [entry EXCEPT ![k] = new]
           moved == MovedToEnd(order, k)
           fresh == {j \in Keys : ~Expired(stored[j])}
           live == Kept(moved, fresh)
<1>1. /\ order' = Evicted(live)
      /\ entry' = [j \in Keys |-> IF Contains(Evicted(live), j) THEN stored[j] ELSE NoEntry]
      /\ used' = MovedToEnd(used, k)
      /\ latest' = [latest EXCEPT ![k] = new]
      /\ clock' = clock
  BY DEF Store
<1>2. /\ moved \in Seq(Keys) /\ IsInjective(moved) /\ ToSet(moved) = ToSet(order) \cup {k}
      /\ used' \in Seq(Keys) /\ IsInjective(used') /\ ToSet(used') = ToSet(used) \cup {k}
  BY <1>1, UsedInStep
<1>3. \A i, j \in Keys : Before(moved, i, j) => Before(used', i, j)
  BY <1>1, UsedInStep
<1>4. /\ new \in [at : Int, value : Int] /\ stored[k] = new /\ ~Expired(new)
      /\ stored \in [Keys -> [at : Int, value : Int]]
  BY CacheAssumption DEF CacheInv, Expired
<1>5. \A j \in ToSet(moved) : stored[j] = latest'[j]
  BY <1>1, <1>2, <1>4 DEF UsageInv, CacheInv
<1>6. \A j \in Keys \ {k} : latest'[j] = latest[j] /\ stored[j] = entry[j]
  BY <1>1 DEF UsageInv, CacheInv
<1>7. latest' \in [Keys -> [at : Int, value : Int]] /\ latest'[k] = new
  BY <1>1, <1>4 DEF UsageInv
<1>8. fresh \subseteq Keys /\ k \in fresh /\ \A j \in Keys \ fresh : Expired(stored[j])
  BY <1>4
<1> HIDE DEF new, stored, moved, fresh
<1>9. /\ live \in Seq(Keys) /\ IsInjective(live) /\ ToSet(live) = ToSet(moved) \cap fresh
      /\ \A i, j : Before(live, i, j) => Before(moved, i, j)
  BY <1>2, KeptFacts
<1> HIDE DEF live
<1>10. live # <<>> /\ k \in ToSet(live)
  BY <1>2, <1>8, <1>9, EmptyFacts
<1>11. /\ order' \in Seq(Keys) /\ IsInjective(order') /\ ToSet(order') \subseteq ToSet(live)
       /\ \A i, j : Before(order', i, j) => Before(live, i, j)
  BY <1>1, <1>9, <1>10, EvictedFacts
<1>12. ASSUME NEW j \in Keys
       PROVE  j \in ToSet(order') \/ latest'[j] = NoEntry \/ Expired(latest[j])' \/ PushedOut(j)'
  <2>1. CASE j \in ToSet(live)
    <3>1. CASE j \notin ToSet(order')
      <4>1. PICK B \in SUBSET Keys : /\ IsFiniteSet(B) /\ Cardinality(B) = MaxEntries
                                     /\ \A i \in B : Before(live, j, i)
        BY <1>1, <1>9, <1>10, <2>1, <3>1, EvictedFacts
      <4>2. \A i \in B : Before(used', j, i)
        BY <1>3, <1>9, <4>1
      <4>3. QED
        BY <4>1, <4>2 DEF PushedOut
    <3>2. QED
      BY <3>1
  <2>2. CASE j \in ToSet(moved) /\ j \notin ToSet(live)
    <3>1. Expired(stored[j]) /\ stored[j] = latest'[j]
      BY <1>5, <1>8, <1>9, <2>2
    <3>2. QED
      BY <1>1, <3>1 DEF Expired
  <2>3. CASE j \notin ToSet(moved)
    <3>1. j # k /\ j \notin ToSet(order) /\ latest'[j] = latest[j]
      BY <1>2, <1>6, <2>3
    <3>2. PushedOut(j) => PushedOut(j)'
      BY <1>1, <3>1, UseKeepsOut DEF UsageInv
    <3>3. QED
      BY <1>1, <3>1, <3>2 DEF UsageInv, Expired
  <2>4. QED
    BY <2>1, <2>2, <2>3
<1>13. \A j \in ToSet(order') : entry'[j] = latest'[j]
  <2> SUFFICES ASSUME NEW j \in ToSet(order') PROVE entry'[j] = latest'[j]
    OBVIOUS
  <2>1. j \in Keys /\ j \in ToSet(moved) /\ Contains(Evicted(live), j)
    <3>1. j \in ToSet(live) /\ order' \in Seq(Keys)
      BY <1>11
    <3>2. Contains(order', j)
      BY <3>1 DEF ToSet, Contains
    <3>3. live \in Seq(Keys) /\ j \in ToSet(moved)
      BY <1>9, <3>1
    <3>4. j \in Keys
      BY <3>1 DEF ToSet
    <3>5. QED
      BY <1>1, <3>2, <3>3, <3>4
  <2>2. QED
    BY <1>1, <1>5, <2>1
<1>14. ToSet(order') \subseteq ToSet(used')
  BY <1>2, <1>9, <1>11 DEF UsageInv
<1>15. \A i, j \in Keys : Before(order', i, j) => Before(used', i, j)
  BY <1>3, <1>9, <1>11
<1>16. \A j \in Keys : latest'[j] # NoEntry => j \in ToSet(used')
  BY <1>2, <1>6 DEF UsageInv
<1>17. QED
  BY <1>2, <1>7, <1>11, <1>12, <1>13, <1>14, <1>15, <1>16 DEF UsageInv

\* Every step.
LEMMA NextUsage == ASSUME CacheInv, UsageInv, [Next]_vars PROVE UsageInv'
<1>1. ASSUME NEW s \in Searches, NEW k \in Keys, Hit(k) \/ Miss(s, k) PROVE UsageInv'
  BY <1>1, HitUsage, MissUsage
<1>2. ASSUME UNCHANGED <<order, entry, used, latest>>, clock' \in Nat, clock <= clock'
      PROVE  UsageInv'
  <2>1. \A k \in Keys : PushedOut(k) => PushedOut(k)'
    BY <1>2 DEF PushedOut
  <2>2. \A k \in Keys : Expired(latest[k]) => Expired(latest[k])'
    <3> SUFFICES ASSUME NEW k \in Keys, Expired(latest[k]) PROVE Expired(latest[k])'
      OBVIOUS
    <3>1. latest[k].at \in Int
      BY DEF UsageInv
    <3>2. QED
      BY <1>2, <3>1, CacheAssumption DEF Expired, CacheInv
  <2>3. QED
    BY <1>2, <2>1, <2>2 DEF UsageInv
<1>3. ASSUME NEW s \in Searches, ProviderAnswers(s) PROVE UsageInv'
  <2>1. CASE \E k \in fetch[s].keys : Store(k, fetch[s].asked)
    <3>1. PICK k \in fetch[s].keys : Store(k, fetch[s].asked)
      BY <2>1
    <3>2. k \in Keys /\ fetch[s].asked \in Int
      BY <3>1 DEF CacheInv
    <3>3. UNCHANGED clock
      BY <1>3 DEF ProviderAnswers
    <3>4. QED
      BY <3>1, <3>2, <3>3, StoreUsage
  <2>2. CASE UNCHANGED <<order, entry, used, latest>>
    BY <1>2, <1>3, <2>2 DEF ProviderAnswers, CacheInv
  <2>3. QED
    BY <1>3, <2>1, <2>2 DEF ProviderAnswers
<1>4. CASE Tick
  BY <1>2, <1>4 DEF Tick, CacheInv
<1>5. CASE UNCHANGED vars
  BY <1>2, <1>5 DEF vars, CacheInv
<1>6. QED
  BY <1>1, <1>3, <1>4, <1>5 DEF Next, Lookup

\* What was pushed out was pushed out by so many keys used since.
LEMMA PushedOutFar ==
  ASSUME UsageInv, NEW k \in Keys, PushedOut(k)
  PROVE  Cardinality(UsedAfter(k)) >= MaxEntries
<1>1. PICK B \in SUBSET Keys : /\ IsFiniteSet(B) /\ Cardinality(B) = MaxEntries
                               /\ \A j \in B : Before(used, k, j)
  BY DEF PushedOut
<1>2. used \in Seq(Keys)
  BY DEF UsageInv
<1>3. B \subseteq UsedAfter(k) /\ UsedAfter(k) \subseteq ToSet(used)
  BY <1>1, <1>2, BeforeInRange DEF UsedAfter
<1>4. IsFiniteSet(ToSet(used))
  <2>1. IsFiniteSet(1..Len(used)) /\ DOMAIN used = 1..Len(used)
    BY <1>2, FS_Interval
  <2>2. used \in Surjection(1..Len(used), ToSet(used))
    <3>1. used = [a \in DOMAIN used |-> used[a]] /\ \A a \in DOMAIN used : used[a] \in ToSet(used)
      BY <1>2 DEF ToSet
    <3>2. QED
      BY <2>1, <3>1 DEF Surjection, ToSet
  <2>3. QED
    BY <2>1, <2>2, FS_Surjection
<1>5. IsFiniteSet(UsedAfter(k))
  BY <1>3, <1>4, FS_Subset
<1>6. Cardinality(B) <= Cardinality(UsedAfter(k))
  BY <1>3, <1>5, FS_Subset
<1>7. Cardinality(UsedAfter(k)) \in Nat
  BY <1>5, FS_CardinalityType
<1>8. QED
  BY <1>1, <1>6, <1>7, CacheAssumption

\* A search that starts to wait has missed, and a miss needs a reason.
LEMMA AskedInNeed ==
  ASSUME CacheInv, UsageInv, [Next]_vars,
         NEW s \in Searches, fetch[s] = NoFetch, NEW k \in fetch'[s].keys
  PROVE  latest[k] = NoEntry \/ Expired(latest[k]) \/ Cardinality(UsedAfter(k)) >= MaxEntries
<1>1. k \in Keys /\ (k \in ToSet(order) => Expired(entry[k]))
  <2>0. NoFetch.keys = {}
    BY DEF NoFetch
  <2>1. PICK r \in Searches : Lookup(r) \/ ProviderAnswers(r)
    BY <2>0 DEF Next, Tick, vars
  <2>2. CASE Lookup(r)
    <3>1. PICK j \in Keys : Hit(j) \/ Miss(r, j)
      BY <2>2 DEF Lookup
    <3>2. Miss(r, j)
      BY <2>0, <3>1 DEF Hit
    <3>3. fetch'[s] = IF s = r THEN [keys |-> {j}, asked |-> clock] ELSE fetch[s]
      BY <3>2 DEF Miss, CacheInv
    <3>4. k = j
      BY <2>0, <3>3
    <3>5. QED
      BY <3>2, <3>4, CachedKeys DEF Miss, UsageInv
  <2>3. CASE ProviderAnswers(r)
    <3>1. fetch'[s] = NoFetch
      BY <2>3 DEF ProviderAnswers, CacheInv
    <3>2. QED
      BY <2>0, <3>1
  <2>4. QED
    BY <2>1, <2>2, <2>3
<1>2. QED
  BY <1>1, PushedOutFar DEF UsageInv

\* However searches interleave and whatever order keys are used in, a provider
\* is asked only for what was never stored, has expired since it was last
\* stored, or has had MaxEntries other keys used since (response_cache.py, get,
\* set and _prune_locked).
THEOREM NothingIsPaidTwice == Spec => PaidOnlyWhenNeeded
<1>1. Init => CacheInv /\ UsageInv
  BY InitCacheInv, InitUsage
<1>2. CacheInv /\ UsageInv /\ [Next]_vars => (CacheInv /\ UsageInv)'
  BY NextCacheInv, NextUsage
<1> DEFINE Needed ==
      \A s \in Searches :
        fetch[s] = NoFetch =>
          \A k \in fetch'[s].keys :
            \/ latest[k] = NoEntry
            \/ Expired(latest[k])
            \/ Cardinality(UsedAfter(k)) >= MaxEntries
<1>3. CacheInv /\ UsageInv /\ [Next]_vars => [Needed]_vars
  BY AskedInNeed
<1>4. QED
  BY <1>1, <1>2, <1>3, PTL DEF Spec, PaidOnlyWhenNeeded

-----------------------------------------------------------------------------
\* The chain of providers over it.

\* A call that has not been answered.
OpenCall == [stage : Providers \cup {"airports"}, purpose : {"price", "itineraries"}, trip : Trips,
             got : SUBSET Pages, noted : BOOLEAN, dry : SUBSET Providers,
             google : {"unknown", "none", "stripped", "blocked", "failed"}]

\* What a user must be told of.
Walled(c) ==
  c.purpose = "price" /\ ("challenge" \in c.got \/ ("stripped" \in c.got /\ "error" \notin c.got))

\* What Google's outcome says of its pages.
GoogleInv(c) ==
  /\ c.google = "blocked" => "challenge" \in c.got
  /\ c.google = "stripped" => "stripped" \in c.got /\ c.got \cap {"challenge", "error"} = {}
  /\ c.google \notin {"blocked", "stripped"} =>
       "challenge" \notin c.got /\ ("stripped" \in c.got => "error" \in c.got)

\* What a call has asked and noted at each stage of the chain.
ChainInv(c) ==
  /\ c.stage \in Providers \cup {"airports", "idle", "empty"}
  /\ c.stage = "idle" => ~c.noted
  /\ c.stage \notin {"idle", "empty"} => c \in OpenCall
  /\ c.stage \in {"google", "airports"} => ~c.noted /\ c.got = {}
  /\ c.stage \in Fallbacks => GoogleInv(c)
  /\ c.stage = "kiwi" => c.dry = {"google"}
       /\ (c.noted <=> c.purpose = "price" /\ c.google = "blocked")
  /\ c.stage = "serpapi" => c.dry = {"google", "kiwi"} /\ (c.noted <=> Walled(c))
  /\ c.stage = "empty" => {"google", "kiwi"} \subseteq c.dry /\ (HasKey => "serpapi" \in c.dry)
       /\ (c.noted <=> Walled(c))

\* Which answer a thread is waiting for, and that its flag is this call's.
ThreadInv(s) ==
  /\ call[s].stage = "airports" => ~suppressed[s] /\ fetch[s].keys = {Key(s, "google")}
  /\ call[s].stage \in {"google", "idle", "empty"} => fetch[s] = NoFetch
  /\ call[s].stage \in Fallbacks /\ fetch[s] # NoFetch =>
       fetch[s].keys = {Key(s, call[s].stage)}

PricingInv ==
  /\ content \in [Keys -> {"offers", "none"}]
  /\ suppressed \in [Searches -> BOOLEAN]
  /\ fetch \in [Searches -> [keys : SUBSET Keys, asked : Int]]
  /\ clock \in Nat
  /\ call = [s \in Searches |-> call[s]]
  /\ \A s \in Searches : ChainInv(call[s]) /\ ThreadInv(s)

\* Every thread is idle.
LEMMA InitPricingInv == PricingInit => PricingInv
<1> SUFFICES ASSUME PricingInit PROVE PricingInv
  OBVIOUS
<1>1. fetch \in [Searches -> [keys : SUBSET Keys, asked : Int]] /\ clock \in Nat
  BY InitCacheInv DEF PricingInit, CacheInv
<1>2. ChainInv(Idle) /\ Idle.stage = "idle"
  BY DEF ChainInv, Idle, Fallbacks, Providers
<1>3. QED
  BY <1>1, <1>2 DEF PricingInit, Init, PricingInv, ThreadInv, Fallbacks

\* Google's outcome is passed on.
LEMMA AfterGoogleInv ==
  ASSUME NEW c \in OpenCall, ~c.noted,
         NEW outcome \in {"offers", "none", "stripped", "blocked", "failed"},
         outcome # "offers" => GoogleInv([c EXCEPT !.google = outcome])
  PROVE  /\ ChainInv(AfterGoogle(c, outcome))
         /\ AfterGoogle(c, outcome).stage \in {"idle", "kiwi"}
<1>1. CASE outcome = "offers"
  BY <1>1 DEF AfterGoogle, ChainInv, Idle, Fallbacks, Providers
<1>2. CASE outcome # "offers"
  <2>1. PICK b \in BOOLEAN : b = (c.noted \/ (outcome = "blocked" /\ c.purpose = "price"))
    OBVIOUS
  <2>2. PICK n : n = [stage |-> "kiwi", purpose |-> c.purpose, trip |-> c.trip, got |-> c.got,
                      google |-> outcome, noted |-> b, dry |-> {"google"}]
    OBVIOUS
  <2>3. AfterGoogle(c, outcome) = n
    BY <1>2, <2>1, <2>2 DEF AfterGoogle, AskNext
  <2>4. n \in OpenCall
    BY <1>2, <2>1, <2>2 DEF OpenCall, Providers, Fallbacks
  <2>5. /\ n.stage = "kiwi" /\ n.purpose = c.purpose /\ n.got = c.got
        /\ n.google = outcome /\ n.dry = {"google"} /\ n.noted = b
    BY <2>2
  <2>6. n.noted <=> c.purpose = "price" /\ outcome = "blocked"
    BY <2>1, <2>5
  <2>7. GoogleInv(n)
    BY <1>2, <2>5 DEF GoogleInv, OpenCall
  <2>8. QED
    BY <2>3, <2>4, <2>5, <2>6, <2>7 DEF ChainInv, Fallbacks, Providers
<1>3. QED
  BY <1>1, <1>2

\* A fallback has answered.
LEMMA AfterFallbackInv ==
  ASSUME NEW c, ChainInv(c), NEW offers \in BOOLEAN, c.stage \in Fallbacks
  PROVE  /\ ChainInv(AfterFallback(c, c.stage, offers))
         /\ AfterFallback(c, c.stage, offers).stage \in {"idle", "serpapi", "empty"}
         /\ c.stage = "serpapi" => AfterFallback(c, c.stage, offers).stage # "serpapi"
<1>1. c \in OpenCall /\ c.stage \in {"kiwi", "serpapi"} /\ GoogleInv(c)
  BY DEF ChainInv, Fallbacks
<1>2. CASE offers
  BY <1>2 DEF AfterFallback, ChainInv, Idle, Fallbacks, Providers
<1>3. CASE ~offers
  <2>1. PICK b \in BOOLEAN :
          b = (c.noted \/ ((c.stage = "kiwi" /\ c.google = "stripped") /\ c.purpose = "price"))
    OBVIOUS
  <2>2. PICK d : d = c.dry \cup {c.stage}
    OBVIOUS
  <2>3. PICK n : n = [stage |-> "serpapi", purpose |-> c.purpose, trip |-> c.trip, got |-> c.got,
                      google |-> c.google, noted |-> b, dry |-> d]
    OBVIOUS
  <2>4. n = AskNext(c, "serpapi", c.google, c.dry \cup {c.stage},
                    c.stage = "kiwi" /\ c.google = "stripped")
    BY <2>1, <2>2, <2>3 DEF AskNext
  <2>5. n \in OpenCall
    BY <1>1, <2>1, <2>2, <2>3 DEF OpenCall, Providers, Fallbacks
  <2>6. /\ n.stage = "serpapi" /\ n.purpose = c.purpose /\ n.got = c.got
        /\ n.google = c.google /\ n.dry = d /\ n.noted = b
    BY <2>3
  <2>7. n.noted <=> Walled(n)
    <3>1. CASE c.stage = "kiwi"
      BY <1>1, <2>1, <2>6, <3>1 DEF ChainInv, GoogleInv, Walled
    <3>2. CASE c.stage = "serpapi"
      BY <2>1, <2>6, <3>2 DEF ChainInv, Walled
    <3>3. QED
      BY <1>1, <3>1, <3>2
  <2>8. {"google", "kiwi"} \subseteq d /\ c.stage \in d
    BY <1>1, <2>2 DEF ChainInv
  <2>9. CASE c.stage = "kiwi" /\ HasKey
    <3>1. AfterFallback(c, c.stage, offers) = n
      BY <1>3, <2>4, <2>9 DEF AfterFallback
    <3>2. d = {"google", "kiwi"} /\ GoogleInv(n)
      BY <1>1, <2>2, <2>6, <2>9 DEF ChainInv, GoogleInv
    <3>3. QED
      BY <2>5, <2>6, <2>7, <2>9, <3>1, <3>2 DEF ChainInv, Fallbacks, Providers
  <2>10. CASE ~(c.stage = "kiwi" /\ HasKey)
    <3>1. AfterFallback(c, c.stage, offers) = EmptyHanded(n)
      BY <1>3, <2>4, <2>10 DEF AfterFallback
    <3>2. PICK m : m = EmptyHanded(n)
      OBVIOUS
    <3>3. /\ m.stage = "empty" /\ m.purpose = n.purpose /\ m.got = n.got /\ m.dry = n.dry
          /\ m.noted = n.noted
      BY <3>2 DEF EmptyHanded
    <3>4. m.noted <=> Walled(m)
      BY <2>7, <3>3 DEF Walled
    <3>5. HasKey => "serpapi" \in m.dry
      BY <1>1, <2>6, <2>8, <2>10, <3>3
    <3>6. QED
      BY <2>6, <2>8, <3>1, <3>2, <3>3, <3>4, <3>5 DEF ChainInv, Fallbacks, Providers
  <2>11. QED
    BY <2>9, <2>10
<1>4. QED
  BY <1>2, <1>3

\* A step of one thread.
LEMMA ThreadStep ==
  ASSUME PricingInv, NEW s \in Searches, NEW c, call' = [call EXCEPT ![s] = c],
         ChainInv(c), ThreadInv(s)',
         content' \in [Keys -> {"offers", "none"}], clock' = clock,
         suppressed' \in [Searches -> BOOLEAN],
         fetch' \in [Searches -> [keys : SUBSET Keys, asked : Int]],
         \A r \in Searches \ {s} : suppressed'[r] = suppressed[r] /\ fetch'[r] = fetch[r]
  PROVE  PricingInv'
<1>1. call' = [r \in Searches |-> call'[r]] /\ call'[s] = c /\ \A r \in Searches \ {s} : call'[r] = call[r]
  BY DEF PricingInv
<1>2. ASSUME NEW r \in Searches \ {s} PROVE ChainInv(call'[r]) /\ ThreadInv(r)'
  BY <1>1, <1>2 DEF PricingInv, ThreadInv, Key
<1>3. QED
  BY <1>1, <1>2 DEF PricingInv

\* A thread that is in a call asks under a key of the cache.
LEMMA KeyInCache ==
  ASSUME PricingInv, NEW s \in Searches, call[s].stage \notin {"idle", "empty"},
         NEW provider \in Providers
  PROVE  Key(s, provider) \in Keys /\ call[s] \in OpenCall
<1>1. call[s] \in OpenCall
  BY DEF PricingInv, ChainInv
<1>2. call[s].trip \in Trips
  BY <1>1 DEF OpenCall
<1>3. QED
  BY <1>1, <1>2, PricingAssumption DEF Key

\* A hit or a miss, as an adapter sees it.
LEMMA LookupFacts ==
  ASSUME PricingInv, NEW s \in Searches, NEW k \in Keys
  PROVE  /\ Hit(k) => fetch' = fetch /\ clock' = clock
         /\ Miss(s, k) => /\ fetch' \in [Searches -> [keys : SUBSET Keys, asked : Int]]
                          /\ fetch'[s].keys = {k} /\ clock' = clock
                          /\ \A r \in Searches \ {s} : fetch'[r] = fetch[r]
<1>1. [keys |-> {k}, asked |-> clock] \in [keys : SUBSET Keys, asked : Int]
  BY DEF PricingInv
<1>2. [keys |-> {k}, asked |-> clock].keys = {k}
  OBVIOUS
<1>3. QED
  BY <1>1, <1>2 DEF PricingInv, Hit, Miss

\* The end of a fetch.
LEMMA EndFetchFacts ==
  ASSUME PricingInv, NEW s \in Searches, NEW k \in Keys,
         NEW result, NEW reusable, EndFetch(s, k, result, reusable),
         reusable => result \in {"offers", "none"}
  PROVE  /\ fetch' \in [Searches -> [keys : SUBSET Keys, asked : Int]]
         /\ fetch'[s] = NoFetch /\ clock' = clock
         /\ \A r \in Searches \ {s} : fetch'[r] = fetch[r]
         /\ content' \in [Keys -> {"offers", "none"}]
<1>1. NoFetch \in [keys : SUBSET Keys, asked : Int]
  BY DEF NoFetch, Never
<1>2. fetch' = [fetch EXCEPT ![s] = NoFetch] /\ clock' = clock
  BY DEF EndFetch
<1>3. content' \in [Keys -> {"offers", "none"}]
  <2>1. CASE reusable
    BY <2>1 DEF EndFetch, PricingInv
  <2>2. CASE ~reusable
    BY <2>2 DEF EndFetch, PricingInv
  <2>3. QED
    BY <2>1, <2>2
<1>4. QED
  BY <1>1, <1>2, <1>3 DEF PricingInv

LEMMA CallInv == ASSUME PricingInv, NEW s \in Searches, Call(s) PROVE PricingInv'
<1>1. PICK purpose \in {"price", "itineraries"}, t \in Trips :
        call' = [call EXCEPT ![s] = NewCall(purpose, t)]
  BY DEF Call
<1>2. PICK c : c = NewCall(purpose, t)
  OBVIOUS
<1>3. /\ c \in OpenCall /\ c.stage = "google" /\ ~c.noted /\ c.got = {}
  BY <1>2 DEF NewCall, OpenCall, Providers, Fallbacks
<1>4. ChainInv(c)
  BY <1>3 DEF ChainInv, Providers, Fallbacks
<1>5. call'[s] = c /\ fetch[s] = NoFetch /\ UNCHANGED <<vars, suppressed, content>>
  BY <1>1, <1>2 DEF Call, PricingInv, ThreadInv
<1>6. ThreadInv(s)'
  BY <1>3, <1>5 DEF ThreadInv, Fallbacks, vars
<1>7. QED
  BY <1>1, <1>2, <1>4, <1>5, <1>6, ThreadStep DEF PricingInv, vars

LEMMA GoogleLookupInv == ASSUME PricingInv, NEW s \in Searches, GoogleLookup(s) PROVE PricingInv'
<1>1. PICK k \in Keys : k = Key(s, "google")
  BY KeyInCache DEF GoogleLookup, Providers, Fallbacks
<1>2. /\ call[s] \in OpenCall /\ call[s].stage = "google" /\ ~call[s].noted /\ call[s].got = {}
      /\ fetch[s] = NoFetch /\ UNCHANGED content /\ content[k] \in {"offers", "none"}
  BY <1>1 DEF GoogleLookup, PricingInv, ChainInv, ThreadInv, Providers, Fallbacks
<1>3. CASE Hit(k) /\ call' = [call EXCEPT ![s] = AfterGoogle(@, content[k])] /\ UNCHANGED suppressed
  <2>1. PICK c : c = AfterGoogle(call[s], content[k])
    OBVIOUS
  <2>2. GoogleInv([call[s] EXCEPT !.google = "none"])
    BY <1>2 DEF OpenCall, GoogleInv
  <2>3. ChainInv(c) /\ c.stage \in {"idle", "kiwi"}
    BY <1>2, <2>1, <2>2, AfterGoogleInv
  <2>4. call' = [call EXCEPT ![s] = c] /\ fetch' = fetch /\ clock' = clock
    BY <1>3, <2>1, LookupFacts
  <2>5. call'[s] = c
    BY <2>4 DEF PricingInv
  <2>6. ThreadInv(s)'
    BY <1>2, <2>3, <2>4, <2>5 DEF ThreadInv, Fallbacks
  <2>7. QED
    BY <1>2, <1>3, <2>3, <2>4, <2>6, ThreadStep DEF PricingInv
<1>4. CASE /\ Miss(s, k) /\ call' = [call EXCEPT ![s].stage = "airports"]
           /\ suppressed' = [suppressed EXCEPT ![s] = FALSE]
  <2>1. PICK c : c = [call[s] EXCEPT !.stage = "airports"]
    OBVIOUS
  <2>2. /\ c \in OpenCall /\ c.stage = "airports" /\ c.noted = call[s].noted /\ c.got = call[s].got
        /\ c.trip = call[s].trip
    BY <1>2, <2>1 DEF OpenCall
  <2>3. ChainInv(c)
    BY <1>2, <2>2 DEF ChainInv, Providers, Fallbacks
  <2>4. call' = [call EXCEPT ![s] = c]
    BY <1>4, <2>1
  <2>5. call'[s] = c /\ ~suppressed'[s] /\ fetch'[s].keys = {k}
    BY <1>4, <2>4, LookupFacts DEF PricingInv
  <2>6. ThreadInv(s)'
    BY <1>1, <2>2, <2>5 DEF ThreadInv, Fallbacks, Key
  <2>7. suppressed' \in [Searches -> BOOLEAN]
        /\ \A r \in Searches \ {s} : suppressed'[r] = suppressed[r]
    BY <1>4 DEF PricingInv
  <2>8. content' \in [Keys -> {"offers", "none"}]
    BY <1>2 DEF PricingInv
  <2>9. QED
    BY <1>4, <2>3, <2>4, <2>6, <2>7, <2>8, LookupFacts, ThreadStep
<1>5. QED
  BY <1>1, <1>3, <1>4 DEF GoogleLookup

\* What the pages amount to, for a thread whose flag was clear.
LEMMA OutcomeFacts ==
  ASSUME NEW got \in SUBSET (Pages \ {"none"}), NEW flag, flag <=> "stripped" \in got,
         NEW c \in OpenCall, c.got = got
  PROVE  LET outcome == GoogleOutcome(got, flag)
         IN  /\ outcome \in {"offers", "none", "stripped", "blocked", "failed"}
             /\ outcome # "offers" => GoogleInv([c EXCEPT !.google = outcome])
<1> DEFINE outcome == GoogleOutcome(got, flag)
<1>1. outcome \in {"offers", "none", "stripped", "blocked", "failed"}
  BY DEF GoogleOutcome
<1>2. /\ outcome = "blocked" => "challenge" \in got
      /\ outcome = "stripped" => "stripped" \in got /\ got \cap {"challenge", "error"} = {}
      /\ outcome \in {"failed", "none"} =>
           "challenge" \notin got /\ ("stripped" \in got => "error" \in got)
  BY DEF GoogleOutcome
<1> HIDE DEF outcome
<1>3. outcome # "offers" => GoogleInv([c EXCEPT !.google = outcome])
  BY <1>1, <1>2 DEF GoogleInv, OpenCall
<1>4. QED
  BY <1>1, <1>3 DEF outcome

LEMMA GoogleAnswersInv == ASSUME PricingInv, NEW s \in Searches, GoogleAnswers(s) PROVE PricingInv'
<1>1. PICK k \in Keys : k = Key(s, "google")
  BY KeyInCache DEF GoogleAnswers, Providers, Fallbacks
<1>2. /\ call[s] \in OpenCall /\ call[s].stage = "airports" /\ ~call[s].noted
      /\ ~suppressed[s]
  BY DEF GoogleAnswers, PricingInv, ChainInv, ThreadInv
<1>3. PICK pages \in [1..Airports -> Pages] :
       LET got == Range(pages) \ {"none"}
           flag == suppressed[s] \/ "stripped" \in got
           outcome == GoogleOutcome(got, flag)
       IN  /\ suppressed' = [suppressed EXCEPT ![s] = flag]
           /\ EndFetch(s, k, outcome, outcome \in {"offers", "none"})
           /\ call' = [call EXCEPT ![s] = AfterGoogle([@ EXCEPT !.got = got], outcome)]
  BY <1>1 DEF GoogleAnswers
<1>4. PICK got \in SUBSET (Pages \ {"none"}) : got = Range(pages) \ {"none"}
  BY DEF Range
<1>5. PICK flag \in BOOLEAN : flag = (suppressed[s] \/ "stripped" \in got)
  OBVIOUS
<1>6. PICK outcome : outcome = GoogleOutcome(got, flag)
  OBVIOUS
<1>7. PICK c : c = [call[s] EXCEPT !.got = got]
  OBVIOUS
<1>8. /\ c \in OpenCall /\ c.got = got /\ ~c.noted
  BY <1>2, <1>4, <1>7 DEF OpenCall
<1>9. /\ outcome \in {"offers", "none", "stripped", "blocked", "failed"}
      /\ outcome # "offers" => GoogleInv([c EXCEPT !.google = outcome])
  BY <1>2, <1>4, <1>5, <1>6, <1>8, OutcomeFacts
<1>10. PICK n : n = AfterGoogle(c, outcome)
  OBVIOUS
<1>11. ChainInv(n) /\ n.stage \in {"idle", "kiwi"}
  BY <1>8, <1>9, <1>10, AfterGoogleInv
<1>12. /\ suppressed' = [suppressed EXCEPT ![s] = flag]
       /\ EndFetch(s, k, outcome, outcome \in {"offers", "none"})
       /\ call' = [call EXCEPT ![s] = n]
  BY <1>3, <1>4, <1>5, <1>6, <1>7, <1>10
<1>13. /\ fetch' \in [Searches -> [keys : SUBSET Keys, asked : Int]]
       /\ fetch'[s] = NoFetch /\ clock' = clock
       /\ \A r \in Searches \ {s} : fetch'[r] = fetch[r]
       /\ content' \in [Keys -> {"offers", "none"}]
  BY <1>12, EndFetchFacts
<1>14. call'[s] = n
  BY <1>12 DEF PricingInv
<1>15. ThreadInv(s)'
  BY <1>11, <1>13, <1>14 DEF ThreadInv
<1>16. suppressed' \in [Searches -> BOOLEAN]
       /\ \A r \in Searches \ {s} : suppressed'[r] = suppressed[r]
  BY <1>5, <1>12 DEF PricingInv
<1>17. QED
  BY <1>11, <1>12, <1>13, <1>15, <1>16, ThreadStep

LEMMA FallbackLookupInv ==
  ASSUME PricingInv, NEW s \in Searches, NEW p \in Fallbacks, FallbackLookup(s, p)
  PROVE  PricingInv'
<1>1. PICK k \in Keys : k = Key(s, p)
  BY KeyInCache DEF FallbackLookup, Providers, Fallbacks
<1>2. /\ ChainInv(call[s]) /\ call[s].stage = p /\ fetch[s] = NoFetch
      /\ UNCHANGED <<suppressed, content>>
  BY DEF FallbackLookup, PricingInv
<1>3. CASE Hit(k) /\ call' = [call EXCEPT ![s] = AfterFallback(@, p, content[k] = "offers")]
  <2>1. PICK offers \in BOOLEAN : offers = (content[k] = "offers")
    OBVIOUS
  <2>2. PICK c : c = AfterFallback(call[s], call[s].stage, offers)
    OBVIOUS
  <2>3. ChainInv(c)
    BY <1>2, <2>1, <2>2, AfterFallbackInv
  <2>4. call' = [call EXCEPT ![s] = c] /\ fetch' = fetch /\ clock' = clock
    BY <1>2, <1>3, <2>1, <2>2, LookupFacts
  <2>5. call'[s] = c /\ c.stage # "airports"
    BY <1>2, <2>1, <2>2, <2>4, AfterFallbackInv DEF PricingInv
  <2>6. ThreadInv(s)'
    BY <1>2, <2>4, <2>5 DEF ThreadInv
  <2>7. QED
    BY <1>2, <2>3, <2>4, <2>6, ThreadStep DEF PricingInv
<1>4. CASE Miss(s, k) /\ UNCHANGED call
  <2>1. call' = [call EXCEPT ![s] = call[s]] /\ fetch'[s].keys = {k}
    BY <1>4, LookupFacts DEF PricingInv
  <2>2. ThreadInv(s)'
    BY <1>1, <1>2, <1>4, <2>1 DEF ThreadInv, Key, Fallbacks
  <2>3. content' \in [Keys -> {"offers", "none"}] /\ suppressed' \in [Searches -> BOOLEAN]
    BY <1>2 DEF PricingInv
  <2>4. \A r \in Searches \ {s} : suppressed'[r] = suppressed[r]
    BY <1>2
  <2>5. QED
    BY <1>2, <1>4, <2>1, <2>2, <2>3, <2>4, LookupFacts, ThreadStep
<1>5. QED
  BY <1>1, <1>3, <1>4 DEF FallbackLookup

LEMMA FallbackAnswersInv ==
  ASSUME PricingInv, NEW s \in Searches, NEW p \in Fallbacks, FallbackAnswers(s, p)
  PROVE  PricingInv'
<1>1. PICK k \in Keys : k = Key(s, p)
  BY KeyInCache DEF FallbackAnswers, Providers, Fallbacks
<1>2. ChainInv(call[s]) /\ call[s].stage = p /\ UNCHANGED suppressed
  BY DEF FallbackAnswers, PricingInv
<1>3. PICK result \in {"offers", "none", "failed"} :
        /\ EndFetch(s, k, result, result # "failed")
        /\ call' = [call EXCEPT ![s] = AfterFallback(@, p, result = "offers")]
  BY <1>1 DEF FallbackAnswers
<1>4. PICK offers \in BOOLEAN : offers = (result = "offers")
  OBVIOUS
<1>5. PICK c : c = AfterFallback(call[s], call[s].stage, offers)
  OBVIOUS
<1>6. ChainInv(c) /\ c.stage # "airports"
  BY <1>2, <1>4, <1>5, AfterFallbackInv
<1>7. call' = [call EXCEPT ![s] = c]
  BY <1>2, <1>3, <1>4, <1>5
<1>8. /\ fetch' \in [Searches -> [keys : SUBSET Keys, asked : Int]]
      /\ fetch'[s] = NoFetch /\ clock' = clock
      /\ \A r \in Searches \ {s} : fetch'[r] = fetch[r]
      /\ content' \in [Keys -> {"offers", "none"}]
  <2>1. PICK reusable \in BOOLEAN : reusable = (result # "failed")
    OBVIOUS
  <2>2. EndFetch(s, k, result, reusable) /\ (reusable => result \in {"offers", "none"})
    BY <1>3, <2>1
  <2>3. QED
    BY <2>2, EndFetchFacts
<1>9. call'[s] = c
  BY <1>7 DEF PricingInv
<1>10. ThreadInv(s)'
  BY <1>6, <1>8, <1>9 DEF ThreadInv
<1>11. QED
  BY <1>2, <1>6, <1>7, <1>8, <1>10, ThreadStep DEF PricingInv

LEMMA NextPricingInv == ASSUME PricingInv, [PricingNext]_pricingVars PROVE PricingInv'
<1>1. CASE PricingTick
  <2>1. clock' \in Nat /\ UNCHANGED <<fetch, call, suppressed, content>>
    BY <1>1 DEF PricingTick, Tick, PricingInv
  <2>2. QED
    BY <2>1 DEF PricingInv, ThreadInv, Key
<1>2. CASE UNCHANGED pricingVars
  BY <1>2 DEF pricingVars, vars, PricingInv, ThreadInv, Key
<1>3. QED
  BY <1>1, <1>2, CallInv, GoogleLookupInv, GoogleAnswersInv, FallbackLookupInv, FallbackAnswersInv
     DEF PricingNext

LEMMA PricingInvariance == PricingSpec => []PricingInv
<1>1. PricingInv /\ [PricingNext]_pricingVars => PricingInv'
  BY NextPricingInv
<1>2. QED
  BY InitPricingInv, <1>1, PTL DEF PricingSpec

\* However the providers fail, nobody is left with an estimate before each of
\* them has been asked (live_flight_cost_eur and its fallbacks).
THEOREM EveryProviderIsAsked == PricingSpec => []EstimateOnlyWhenExhausted
<1>1. PricingInv => EstimateOnlyWhenExhausted
  <2> SUFFICES ASSUME PricingInv, NEW s \in Unanswered
               PROVE  Providers \ call[s].dry \subseteq IF HasKey THEN {} ELSE {"serpapi"}
    BY DEF EstimateOnlyWhenExhausted
  <2>1. {"google", "kiwi"} \subseteq call[s].dry /\ (HasKey => "serpapi" \in call[s].dry)
    BY DEF Unanswered, PricingInv, ChainInv
  <2>2. QED
    BY <2>1 DEF Providers, Fallbacks
<1>2. QED
  BY <1>1, PricingInvariance, PTL

\* A call that ends without a price reports a block when Google refused this
\* call, and only then, whatever the cache held and the thread did before
\* (provider_status.py).
THEOREM RefusalsAreReported == PricingSpec => []RefusalIsToldApart
<1>1. ASSUME PricingInv, NEW s \in Searches, call[s].noted
      PROVE  call[s].got \cap {"challenge", "stripped"} # {}
  <2>1. ChainInv(call[s])
    BY <1>1 DEF PricingInv
  <2>2. QED
    BY <1>1, <2>1 DEF ChainInv, Walled, GoogleInv, Providers, Fallbacks
<1>2. ASSUME PricingInv, NEW s \in Unanswered, Walled(call[s]) PROVE call[s].noted
  BY <1>2 DEF Unanswered, PricingInv, ChainInv
<1>3. PricingInv => RefusalIsToldApart
  BY <1>1, <1>2 DEF RefusalIsToldApart, WallIsReported, NoFalseAlarm, Walled
<1>4. QED
  BY <1>3, PricingInvariance, PTL

\* A step of the chain is one of a search over the cache, or leaves it alone.
LEMMA StepsOfTheCache ==
  ASSUME PricingInv, [PricingNext]_pricingVars PROVE [Next]_vars
<1>1. ASSUME NEW s \in Searches, Call(s) PROVE [Next]_vars
  BY <1>1 DEF Call
<1>2. ASSUME NEW s \in Searches, GoogleLookup(s) PROVE [Next]_vars
  <2>1. Key(s, "google") \in Keys /\ fetch[s] = NoFetch
    BY <1>2, KeyInCache DEF GoogleLookup, PricingInv, ThreadInv, Providers, Fallbacks
  <2>2. QED
    BY <1>2, <2>1 DEF GoogleLookup, Lookup, Next
<1>3. ASSUME NEW s \in Searches, NEW p \in Fallbacks, FallbackLookup(s, p) PROVE [Next]_vars
  <2>1. Key(s, p) \in Keys /\ fetch[s] = NoFetch
    BY <1>3, KeyInCache DEF FallbackLookup, Providers, Fallbacks
  <2>2. QED
    BY <1>3, <2>1 DEF FallbackLookup, Lookup, Next
<1>4. ASSUME NEW s \in Searches, NEW k, NEW result, NEW reusable,
             EndFetch(s, k, result, reusable), fetch[s].keys = {k}
      PROVE  ProviderAnswers(s)
  <2>1. fetch[s] # NoFetch
    BY <1>4 DEF NoFetch
  <2>2. CASE reusable
    BY <1>4, <2>1, <2>2 DEF EndFetch, ProviderAnswers
  <2>3. CASE ~reusable
    BY <1>4, <2>1, <2>3 DEF EndFetch, ProviderAnswers
  <2>4. QED
    BY <2>2, <2>3
<1>5. ASSUME NEW s \in Searches, GoogleAnswers(s) PROVE [Next]_vars
  <2>1. fetch[s].keys = {Key(s, "google")}
    BY <1>5 DEF GoogleAnswers, PricingInv, ThreadInv
  <2>2. PICK outcome : EndFetch(s, Key(s, "google"), outcome, outcome \in {"offers", "none"})
    BY <1>5 DEF GoogleAnswers
  <2>3. QED
    BY <1>4, <2>1, <2>2 DEF Next
<1>6. ASSUME NEW s \in Searches, NEW p \in Fallbacks, FallbackAnswers(s, p) PROVE [Next]_vars
  <2>1. fetch[s].keys = {Key(s, p)}
    BY <1>6 DEF FallbackAnswers, PricingInv, ThreadInv
  <2>2. PICK result : EndFetch(s, Key(s, p), result, result # "failed")
    BY <1>6 DEF FallbackAnswers
  <2>3. QED
    BY <1>4, <2>1, <2>2 DEF Next
<1>7. CASE PricingTick
  BY <1>7 DEF PricingTick, Next
<1>8. CASE UNCHANGED pricingVars
  BY <1>8 DEF pricingVars
<1>9. QED
  BY <1>1, <1>2, <1>3, <1>5, <1>6, <1>7, <1>8 DEF PricingNext

\* The chain uses the cache as every adapter does, so what is proved of the
\* cache holds under it (response_cache.py).
THEOREM UsesTheCache == PricingSpec => ImplementsCache
<1>1. PricingInit => Init
  BY DEF PricingInit
<1>2. PricingInv /\ [PricingNext]_pricingVars => [Next]_vars
  BY StepsOfTheCache
<1>3. PricingSpec => Spec
  BY <1>1, <1>2, PricingInvariance, PTL DEF PricingSpec, Spec
<1>4. QED
  BY <1>3 DEF ImplementsCache

\* No price comes from an answer older than the cache promises.
THEOREM PricesAreRecent == PricingSpec => []ServedIsRecent
<1>1. Spec => []ServedIsRecent
  BY AnswersAreRecent
<1>2. PricingSpec => Spec
  BY UsesTheCache DEF ImplementsCache
<1>3. QED
  BY <1>1, <1>2

\* And no search of the chain pays for what the cache should have kept.
THEOREM NoPriceIsPaidTwice == PricingSpec => PaidOnlyWhenNeeded
<1>1. Spec => PaidOnlyWhenNeeded
  BY NothingIsPaidTwice
<1>2. PricingSpec => Spec
  BY UsesTheCache DEF ImplementsCache
<1>3. QED
  BY <1>1, <1>2
=============================================================================
