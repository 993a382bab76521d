--------------------------- MODULE ResponseCache ---------------------------
(***************************************************************************)
(* adapters/response_cache.py: the bounded LRU cache with a time to live    *)
(* that the provider adapters share, and the way they all use it: look the  *)
(* key up, on a miss ask the provider, store what it answers.               *)
(*                                                                         *)
(* get and set hold the lock from beginning to end, so each is one step;    *)
(* between an adapter's get and its set other searches run.  An OrderedDict *)
(* is the sequence of its keys, least recently used first, and their        *)
(* entries.                                                                 *)
(***************************************************************************)
EXTENDS Integers, SequencesExt

CONSTANTS
  Searches,     \* threads running an adapter's search function
  Keys,
  MaxEntries,   \* max_entries
  TTL,          \* ttl_seconds
  MaxFetch,     \* longest time a provider takes to answer
  LastInstant   \* bound on the clock

ASSUME CacheAssumption ==
  /\ MaxEntries \in Nat \ {0}
  /\ TTL \in Nat \ {0}
  /\ MaxFetch \in Nat
  /\ LastInstant \in Nat

VARIABLES
  clock,
  order,    \* the keys of _data in its order
  entry,    \* the tuple stored under each: when it was stored, and the value,
            \* which stands for the instant the provider was asked
  fetch,    \* between a miss and the store: the key each search has asked the
            \* provider for, and when
  used,     \* every key ever used, most recently used last (history)
  latest    \* what was last stored under each key (history)

vars == <<clock, order, entry, fetch, used, latest>>

Never == -1
NoEntry == [at |-> Never, value |-> Never]
NoFetch == [keys |-> {}, asked |-> Never]

Init ==
  /\ clock = 0
  /\ order = <<>>
  /\ entry = [k \in Keys |-> NoEntry]
  /\ fetch = [s \in Searches |-> NoFetch]
  /\ used = <<>>
  /\ latest = [k \in Keys |-> NoEntry]

Cached(k) == Contains(order, k)

\* Mutant: an entry lives one instant longer.
ExpiredLate(e) == clock - e.at > TTL

\* _is_expired
Expired(e) == clock - e.at >= TTL

\* The elements of seq that are in S, in their order.
Kept(seq, S) ==
  LET kept[i \in 0..Len(seq)] ==
        IF i = 0 THEN <<>>
        ELSE IF seq[i] \in S THEN Append(kept[i - 1], seq[i]) ELSE kept[i - 1]
  IN  kept[Len(seq)]

Without(seq, k) == Kept(seq, Keys \ {k})

\* del, then insert at the end; and move_to_end.
MovedToEnd(seq, k) == Append(Without(seq, k), k)

\* Mutant: a hit leaves the entry where it is.
HitInPlace(k) ==
  /\ Cached(k)
  /\ ~Expired(entry[k])
  /\ used' = MovedToEnd(used, k)
  /\ UNCHANGED <<clock, order, entry, fetch, latest>>

\* get returns a fresh entry's value and marks it as recently used.
Hit(k) ==
  /\ Cached(k)
  /\ ~Expired(entry[k])
  /\ order' = MovedToEnd(order, k)
  /\ used' = MovedToEnd(used, k)
  /\ UNCHANGED <<clock, entry, fetch, latest>>

\* get returns None, evicting an entry that has expired; the provider is asked.
Miss(s, k) ==
  /\ Cached(k) => Expired(entry[k])
  /\ order' = Without(order, k)
  /\ entry' = [entry EXCEPT ![k] = NoEntry]
  /\ fetch' = [fetch EXCEPT ![s] = [keys |-> {k}, asked |-> clock]]
  /\ UNCHANGED <<clock, used, latest>>

Lookup(s) ==
  /\ fetch[s] = NoFetch
  /\ \E k \in Keys : Hit(k) \/ Miss(s, k)

\* popitem(last=False) down to the bound.
Evicted(seq) == IF Len(seq) > MaxEntries
                  THEN SubSeq(seq, Len(seq) - MaxEntries + 1, Len(seq)) ELSE seq

\* set: store with the time of the call, drop what has expired, then what
\* was used longest ago.
Store(k, when) ==
  LET new == [at |-> clock, value |-> when]
      stored == [entry EXCEPT ![k] = new]
      kept == Evicted(Kept(MovedToEnd(order, k), {j \in Keys : ~Expired(stored[j])}))
  IN  /\ order' = kept
      /\ entry' = [j \in Keys |-> IF Contains(kept, j) THEN stored[j] ELSE NoEntry]
      /\ used' = MovedToEnd(used, k)
      /\ latest' = [latest EXCEPT ![k] = new]

\* The provider's answer is cached, unless it failed, or listed flights
\* without a fare.
ProviderAnswers(s) ==
  /\ fetch[s] # NoFetch
  /\ fetch' = [fetch EXCEPT ![s] = NoFetch]
  /\ \/ \E k \in fetch[s].keys : Store(k, fetch[s].asked)
     \/ UNCHANGED <<order, entry, used, latest>>
  /\ UNCHANGED clock

\* Time passes, as far as the providers' time limits let it.
Tick ==
  /\ clock < LastInstant
  /\ \A s \in Searches : fetch[s] # NoFetch => clock < fetch[s].asked + MaxFetch
  /\ clock' = clock + 1
  /\ UNCHANGED <<order, entry, fetch, used, latest>>

Next ==
  \/ \E s \in Searches : Lookup(s) \/ ProviderAnswers(s)
  \/ Tick

Spec == Init /\ [][Next]_vars

-----------------------------------------------------------------------------

\* Types, the bound on the number of entries included.
TypeOK ==
  /\ clock \in 0..LastInstant
  /\ order \in SeqOf(Keys, MaxEntries)
  /\ IsInjective(order)
  /\ \A k \in Keys : entry[k] # NoEntry <=> Cached(k)
  /\ fetch \in [Searches -> [keys : {{k} : k \in Keys}, asked : 0..LastInstant] \cup {NoFetch}]

\* However long a value waited between the provider and the cache and in the
\* cache, no lookup returns one that was asked for longer ago than the time to
\* live and the time one provider call takes.
ServedIsRecent ==
  \A k \in Keys :
    Cached(k) /\ ~Expired(entry[k]) => clock - entry[k].value < TTL + MaxFetch

Before(seq, j, k) == \E m, n \in DOMAIN seq : seq[m] = j /\ seq[n] = k /\ m < n

\* The keys used after k.
UsedAfter(k) == {j \in ToSet(used) : Before(used, k, j)}

\* The provider is asked only for what was never stored, has expired, or has
\* been pushed out by MaxEntries other keys used since (response_cache.py:
\* "don't pay for the same search twice").
PaidOnlyWhenNeeded ==
  [][\A s \in Searches :
       fetch[s] = NoFetch =>
         \A k \in fetch'[s].keys :
           \/ latest[k] = NoEntry
           \/ Expired(latest[k])
           \/ Cardinality(UsedAfter(k)) >= MaxEntries]_vars
=============================================================================
