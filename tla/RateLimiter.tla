---------------------------- MODULE RateLimiter ----------------------------
(***************************************************************************)
(* api/rate_limit.py: RateLimiter.allow, called by concurrent request       *)
(* handlers.  A limiter lives in the memory of one process: every instance  *)
(* of the service has its own, and a restart empties it.                    *)
(*                                                                         *)
(* allow is two steps.  The clock is read BEFORE the lock is taken, so a    *)
(* handler may decide with a time that is out of date by as long as it      *)
(* waited (at most Delay), and handlers may decide in another order than    *)
(* the one in which they read the clock.                                    *)
(***************************************************************************)
EXTENDS Integers, Sequences, FiniteSets

CONSTANTS
  Instances,    \* processes serving requests
  Keys,         \* what is limited: client addresses, or the one "global" key
  Threads,      \* request handlers
  MaxRequests,  \* max_requests
  Window,       \* window_seconds
  Delay,        \* longest wait between reading the clock and holding the lock
  LastInstant   \* bound on the clock

ASSUME LimiterAssumption ==
  /\ MaxRequests \in Nat \ {0}
  /\ Window \in Nat \ {0}
  /\ Delay \in Nat
  /\ LastInstant \in Nat

Limiters == Instances \X Keys

VARIABLES
  clock,
  hits,     \* _hits: one deque of time stamps per key, of each instance
  phase,    \* "idle", or "locking" between the clock and the lock
  asking,   \* the <<instance, key>> each handler asks about
  now,      \* the time it read
  log       \* when each admission of the running process was decided (history)

limiterVars == <<clock, hits, phase, asking, now, log>>

LimiterInit ==
  /\ clock = 0
  /\ hits = [m \in Limiters |-> <<>>]
  /\ phase = [t \in Threads |-> "idle"]
  /\ asking \in [Threads -> Limiters]
  /\ now = [t \in Threads |-> 0]
  /\ log = [m \in Limiters |-> <<>>]

\* now = time.time()
ReadClock(t) ==
  /\ phase[t] = "idle"
  /\ phase' = [phase EXCEPT ![t] = "locking"]
  /\ \E m \in Limiters : asking' = [asking EXCEPT ![t] = m]
  /\ now' = [now EXCEPT ![t] = clock]
  /\ UNCHANGED <<clock, hits, log>>

\* A hit that has left the window.
Outdated(stamp, at) == at - stamp >= Window

\* popleft while the head is outdated removes the first n hits, no more: an
\* outdated hit behind a fresh one stays.
Pops(n, s, at) ==
  /\ \A i \in 1..n : Outdated(s[i], at)
  /\ n < Len(s) => ~Outdated(s[n + 1], at)

\* Mutant: one hit too many.
RoomAtTheLimit(n) == n <= MaxRequests

Room(n) == n < MaxRequests

\* Mutant: a rejected attempt consumes budget.
RejectRecorded(t) ==
  LET s == hits[asking[t]] IN
  /\ phase[t] = "locking"
  /\ \E n \in 0..Len(s) :
       /\ Pops(n, s, now[t])
       /\ ~Room(Len(s) - n)
       /\ hits' = [hits EXCEPT ![asking[t]] = Append(SubSeq(s, n + 1, Len(s)), now[t])]
  /\ phase' = [phase EXCEPT ![t] = "idle"]
  /\ UNCHANGED <<clock, asking, now, log>>

\* return False: what was popped is gone, nothing is recorded.
Reject(t) ==
  LET s == hits[asking[t]] IN
  /\ phase[t] = "locking"
  /\ \E n \in 0..Len(s) :
       /\ Pops(n, s, now[t])
       /\ ~Room(Len(s) - n)
       /\ hits' = [hits EXCEPT ![asking[t]] = SubSeq(s, n + 1, Len(s))]
  /\ phase' = [phase EXCEPT ![t] = "idle"]
  /\ UNCHANGED <<clock, asking, now, log>>

\* hits.append(now); return True
Admit(t) ==
  LET s == hits[asking[t]] IN
  /\ phase[t] = "locking"
  /\ \E n \in 0..Len(s) :
       /\ Pops(n, s, now[t])
       /\ Room(Len(s) - n)
       /\ hits' = [hits EXCEPT ![asking[t]] = Append(SubSeq(s, n + 1, Len(s)), now[t])]
  /\ log' = [log EXCEPT ![asking[t]] = Append(@, clock)]
  /\ phase' = [phase EXCEPT ![t] = "idle"]
  /\ UNCHANGED <<clock, asking, now>>

\* Time passes, as far as the handlers waiting for the lock let it.
Tick ==
  /\ clock < LastInstant
  /\ \A t \in Threads : phase[t] = "locking" => clock < now[t] + Delay
  /\ clock' = clock + 1
  /\ UNCHANGED <<hits, phase, asking, now, log>>

\* An instance is replaced: its memory and its handlers are gone.
Replace(i) ==
  /\ hits' = [m \in Limiters |-> IF m[1] = i THEN <<>> ELSE hits[m]]
  /\ log' = [m \in Limiters |-> IF m[1] = i THEN <<>> ELSE log[m]]
  /\ phase' = [t \in Threads |-> IF asking[t][1] = i THEN "idle" ELSE phase[t]]
  /\ UNCHANGED <<clock, asking, now>>

LimiterNext ==
  \/ \E t \in Threads : ReadClock(t) \/ Reject(t) \/ Admit(t)
  \/ Tick
  \/ \E i \in Instances : Replace(i)

LimiterSpec == LimiterInit /\ [][LimiterNext]_limiterVars

-----------------------------------------------------------------------------

\* Types of the limiters and of the handlers' variables.
LimiterTypeOK ==
  /\ clock \in Nat
  /\ hits \in [Limiters -> Seq(Nat)]
  /\ phase \in [Threads -> {"idle", "locking"}]
  /\ asking \in [Threads -> Limiters]
  /\ now \in [Threads -> Nat]
  /\ log \in [Limiters -> Seq(Nat)]

\* The bound on admissions, in whatever order the handlers reach the lock:
\* of any MaxRequests + 1 admissions of a key the last is at least a window
\* after the first, less the longest wait for the lock (RateLimiter: "at
\* most max_requests per key within window_seconds").
AtMostMaxPerWindow ==
  \A m \in Limiters : \A i \in 1..(Len(log[m]) - MaxRequests) :
    log[m][i + MaxRequests] - log[m][i] >= Window - Delay

\* A handler is turned away only when the last MaxRequests admissions really
\* are that recent: attempts that were rejected, and hits that are out of
\* order in the deque, lock nobody out for longer (allow: "the window
\* empties out purely by time passing, not by how hard something hammers
\* it").
RejectedOnlyWhenFull ==
  [][\A t \in Threads :
       LET s == log[asking[t]] IN
       Reject(t) => /\ Len(s) >= MaxRequests
                    /\ clock - s[Len(s) - MaxRequests + 1] < Window + Delay]_limiterVars

\* The admissions of key k that any instance made less than a window ago.
Recent(k) ==
  UNION {{<<i, n>> : n \in {n \in DOMAIN log[<<i, k>>] : clock - log[<<i, k>>][n] < Window}} :
           i \in Instances}

\* The budget is one for the whole service (rate_limit.py: "a single, GLOBAL
\* counter ... what it protects is itself global, shared across every
\* visitor").
GlobalBudget == \A k \in Keys : Cardinality(Recent(k)) <= MaxRequests
=============================================================================
