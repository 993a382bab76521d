-------------------------- MODULE SearchResultsProofs --------------------------
(***************************************************************************)
(* Proofs about a date-range search.                                        *)
(*                                                                         *)
(* The window (SearchWindow), for windows of any length, any step and any    *)
(* weekdays: the loop of candidate_start_dates finds the dates it promises,  *)
(* and they cost what the browser quotes.  The dates found so far are the    *)
(* wanted ones before the loop's day; and in a stepped search that day is on *)
(* the grid, so that the days a step passes over are not.  The quote counts  *)
(* the days, and for a weekday the weeks, of the window.                     *)
(*                                                                         *)
(* The rows (DateSearch), for any resorts, estimates, live prices and bounds *)
(* on the number of rows: what is shown.  First what the operators on        *)
(* sequences do: At picks elements in their order, Sorted rearranges them so *)
(* that the keys ascend.  Then what each stage makes of the rows: which rows *)
(* there are (the sets below), that the rows of a resort come best first     *)
(* (Led), and that no resort was pushed out (Represented).  SearchInv says   *)
(* what a stage leaves to the next.                                          *)
(***************************************************************************)
EXTENDS DateSearch, FiniteSetTheorems, SequenceTheorems, TLAPS

-----------------------------------------------------------------------------
\* The grid of a step.

LEMMA Division ==
  ASSUME NEW s \in Nat \ {0}, NEW a \in Int, a % s = 0
  PROVE  \E q \in Int : a = s * q
<1>1. a = s * (a \div s) + (a % s)
  BY Z3T(60)
<1>2. a \div s \in Int
  OBVIOUS
<1>3. QED
  BY <1>1, <1>2

LEMMA Multiple == ASSUME NEW s \in Nat \ {0}, NEW q \in Int PROVE (s * q) % s = 0
OBVIOUS

LEMMA Between ==
  ASSUME NEW s \in Nat \ {0}, NEW q \in Int, NEW p \in Int, s * q < s * p, s * p < s * q + s
  PROVE  FALSE
OBVIOUS

LEMMA NextMultiple == ASSUME NEW s \in Nat \ {0}, NEW q \in Int PROVE s * q + s = s * (q + 1)
OBVIOUS

\* One step on is on the grid again,
LEMMA StepOnGrid ==
  ASSUME NEW s \in Nat \ {0}, NEW a \in Int, a % s = 0
  PROVE  (a + s) % s = 0
<1>1. PICK q \in Int : a = s * q
  BY Division
<1>2. a + s = s * (q + 1)
  BY <1>1, NextMultiple
<1>3. (s * (q + 1)) % s = 0
  BY Multiple
<1>4. QED
  BY <1>2, <1>3

\* and nothing in between is.
LEMMA NothingBetween ==
  ASSUME NEW s \in Nat \ {0}, NEW a \in Int, a % s = 0, NEW d \in Int, a < d, d < a + s
  PROVE  d % s # 0
<1> SUFFICES ASSUME d % s = 0 PROVE FALSE
  OBVIOUS
<1>1. PICK q \in Int : a = s * q
  BY Division
<1>2. PICK p \in Int : d = s * p
  BY Division
<1>3. QED
  BY <1>1, <1>2, Between

-----------------------------------------------------------------------------

LEMMA ClampedType == ASSUME form \in Forms, floor \in Nat PROVE Clamped \in Nat
<1> DEFINE S == {form.earliest, Today, floor}
<1>1. form.earliest \in Nat /\ Today \in Nat
  BY WindowAssumption DEF Forms, Dates
<1>2. \E x \in S : \A y \in S : x >= y
  <2>1. CASE form.earliest >= Today /\ form.earliest >= floor
    BY <1>1, <2>1
  <2>2. CASE Today >= form.earliest /\ Today >= floor
    BY <1>1, <2>2
  <2>3. CASE floor >= form.earliest /\ floor >= Today
    BY <1>1, <2>3
  <2>4. QED
    BY <1>1, <2>1, <2>2, <2>3
<1>3. Clamped \in S
  BY <1>2 DEF Clamped, Max
<1>4. QED
  BY <1>1, <1>3

\* The dates a search from `first` promises before day n.
Promised(first, n) ==
  {d \in first..form.latest :
     /\ d < n
     /\ d + form.nights <= form.latest
     /\ IF form.weekdays = {} THEN (d - first) % form.step = 0 ELSE Weekday(d) \in form.weekdays}

IInv ==
  /\ form \in Forms /\ floor \in Nat
  /\ pc \in {"route", "loop", "done", "rejected", "raised"}
  /\ pc = "route" => out = {}
  /\ pc \notin {"route"} => start = Clamped
  /\ pc = "loop" => form.latest >= start
  /\ pc \in {"loop", "done"} =>
       /\ day \in Nat /\ day >= start
       /\ out = Promised(start, day)
       /\ form.weekdays = {} => (day - start) % form.step = 0
  /\ pc = "done" => day + form.nights > form.latest

LEMMA FormTypes ==
  ASSUME form \in Forms
  PROVE  form.earliest \in Nat /\ form.latest \in Nat /\ form.nights \in Nat \ {0} /\ form.step \in Nat \ {0}
<1>1. /\ form.earliest \in 0..LastDay /\ form.latest \in 0..LastDay
      /\ form.nights \in Nights /\ form.step \in Steps
  BY DEF Forms, Dates
<1>2. Nights \subseteq Nat \ {0} /\ Steps \subseteq Nat \ {0} /\ LastDay \in Nat
  BY WindowAssumption
<1>3. form.nights \in Nat \ {0} /\ form.step \in Nat \ {0}
  BY <1>1, <1>2, Zenon
<1>4. form.earliest \in Nat /\ form.latest \in Nat
  BY <1>1, <1>2
<1>5. QED
  BY <1>3, <1>4

LEMMA InitIInv == Init => IInv
BY WindowAssumption DEF Init, IInv

LEMMA RouteIInv == ASSUME IInv, Route PROVE IInv'
<1>1. UNCHANGED <<form, floor, out>> /\ start' = Clamped /\ day' = Clamped /\ Clamped' = Clamped
  BY DEF Route, Clamped
<1>2. out = {}
  BY DEF Route, IInv
<1>3. Clamped \in Nat
  BY ClampedType DEF IInv
<1>4. form.latest \in Nat /\ form.step \in Nat \ {0}
  BY FormTypes DEF IInv
<1>5. pc' \in {"loop", "rejected", "raised"} /\ (pc' = "loop" => ~(form.latest < Clamped))
  BY DEF Route
<1>6. (Clamped - Clamped) % form.step = 0
  <2>1. Clamped - Clamped = form.step * 0
    BY <1>3, <1>4
  <2>2. QED
    BY <1>4, <2>1, Multiple
<1>7. Promised(start, day)' = {}
  BY <1>1, <1>3, <1>4 DEF Promised
<1>8. QED
  BY <1>1, <1>2, <1>3, <1>4, <1>5, <1>6, <1>7 DEF IInv

LEMMA WalkIInv == ASSUME IInv, Walk PROVE IInv'
<1>1. /\ form \in Forms /\ pc = "loop" /\ start = Clamped /\ day \in Nat /\ day >= start
      /\ form.latest >= start
      /\ out = Promised(start, day)
      /\ form.weekdays = {} => (day - start) % form.step = 0
      /\ UNCHANGED <<form, floor, start>> /\ Clamped' = Clamped
  BY DEF Walk, IInv, Clamped
<1>2. /\ form.latest \in Nat /\ form.nights \in Nat \ {0} /\ form.step \in Nat \ {0}
      /\ start \in Nat
  BY <1>1, FormTypes, ClampedType DEF IInv
<1>3. CASE ~Fits(day) /\ pc' = "done" /\ UNCHANGED <<day, out>>
  <2>1. Promised(start, day)' = Promised(start, day)
    BY <1>1, <1>3 DEF Promised, Weekday
  <2>2. day + form.nights > form.latest
    BY <1>1, <1>2, <1>3 DEF Fits
  <2>3. QED
    BY <1>1, <1>3, <2>1, <2>2 DEF IInv
<1>4. CASE /\ Fits(day) /\ pc' = pc
           /\ out' = IF Wanted(day) THEN out \cup {day} ELSE out
           /\ day' = day + Stride
  <2>1. day + form.nights <= form.latest /\ day \in start..form.latest
    BY <1>1, <1>2, <1>4 DEF Fits
  <2>2. CASE form.weekdays = {}
    <3>1. day' = day + form.step /\ out' = out \cup {day}
      BY <1>4, <2>2 DEF Stride, Wanted
    <3>2. ((day + form.step) - start) % form.step = 0
      <4>1. ((day - start) + form.step) % form.step = 0
        BY <1>1, <1>2, <2>2, StepOnGrid
      <4>2. (day + form.step) - start = (day - start) + form.step
        BY <1>1, <1>2
      <4>3. QED
        BY <4>1, <4>2
    <3>3. ASSUME NEW d \in start..form.latest, day < d, d < day + form.step
          PROVE (d - start) % form.step # 0
      <4>1. day - start < d - start /\ d - start < (day - start) + form.step
        BY <1>1, <1>2, <3>3
      <4>2. d - start \in Int /\ day - start \in Int
        BY <1>1, <1>2
      <4>3. QED
        BY <1>1, <1>2, <2>2, <4>1, <4>2, NothingBetween
    <3>4. Promised(start, day + form.step) = Promised(start, day) \cup {day}
      <4>1. ASSUME NEW d \in start..form.latest
            PROVE d \in Promised(start, day + form.step) <=> d \in Promised(start, day) \cup {day}
        <5>1. CASE d < day
          BY <1>1, <1>2, <2>2, <4>1, <5>1 DEF Promised
        <5>2. CASE d = day
          BY <1>1, <1>2, <2>1, <2>2, <4>1, <5>2 DEF Promised
        <5>3. CASE day < d /\ d < day + form.step
          BY <1>1, <1>2, <2>2, <3>3, <4>1, <5>3 DEF Promised
        <5>4. CASE d >= day + form.step
          BY <1>1, <1>2, <4>1, <5>4 DEF Promised
        <5>5. QED
          BY <1>1, <1>2, <4>1, <5>1, <5>2, <5>3, <5>4
      <4>2. QED
        BY <2>1, <4>1 DEF Promised
    <3>5. Promised(start, day)' = Promised(start, day + form.step)
      BY <1>1, <3>1 DEF Promised, Weekday
    <3>6. day' \in Nat /\ day' >= start
      BY <1>1, <1>2, <3>1
    <3>7. out' = Promised(start, day)'
      BY <1>1, <3>1, <3>4, <3>5
    <3>8. (day' - start) % form.step = 0
      BY <3>1, <3>2
    <3>9. QED
      BY <1>1, <1>4, <3>6, <3>7, <3>8 DEF IInv
  <2>3. CASE form.weekdays # {}
    <3>1. day' = day + 1 /\ out' = IF Weekday(day) \in form.weekdays THEN out \cup {day} ELSE out
      BY <1>4, <2>3 DEF Stride, Wanted
    <3>2. ASSUME NEW d \in start..form.latest
          PROVE d \in Promised(start, day + 1) <=>
                  d \in Promised(start, day) \/ (d = day /\ Weekday(day) \in form.weekdays)
      <4>1. d < day + 1 <=> d < day \/ d = day
        BY <1>1, <1>2
      <4>2. QED
        BY <1>1, <1>2, <2>1, <2>3, <4>1 DEF Promised
    <3>3. Promised(start, day + 1) =
            IF Weekday(day) \in form.weekdays THEN Promised(start, day) \cup {day} ELSE Promised(start, day)
      BY <2>1, <3>2 DEF Promised
    <3>4. Promised(start, day)' = Promised(start, day + 1)
      BY <1>1, <3>1 DEF Promised, Weekday
    <3>5. day' \in Nat /\ day' >= start
      BY <1>1, <1>2, <3>1
    <3>6. out' = Promised(start, day)'
      BY <1>1, <3>1, <3>3, <3>4
    <3>7. QED
      BY <1>1, <1>4, <2>3, <3>5, <3>6 DEF IInv
  <2>4. QED
    BY <2>2, <2>3
<1>5. QED
  BY <1>3, <1>4 DEF Walk

LEMMA IInvHolds == Spec => []IInv
<1>1. IInv /\ [Next]_vars => IInv'
  <2> SUFFICES ASSUME IInv, [Next]_vars PROVE IInv'
    OBVIOUS
  <2>1. CASE UNCHANGED vars
    BY <2>1 DEF vars, IInv, Promised, Clamped, Weekday
  <2>2. QED
    BY <2>1, RouteIInv, WalkIInv DEF Next
<1>2. QED
  BY InitIInv, <1>1, PTL DEF Spec

-----------------------------------------------------------------------------

LEMMA DatesTried ==
  ASSUME IInv
  PROVE  ExactlyTheValidDates
<1> SUFFICES ASSUME pc = "done"
             PROVE  out = {d \in Clamped..form.latest :
                      /\ d + form.nights <= form.latest
                      /\ IF form.weekdays = {} THEN (d - Clamped) % form.step = 0
                                              ELSE (d + FirstWeekday) % 7 \in form.weekdays}
  BY DEF ExactlyTheValidDates, Clamped
<1>1. /\ start = Clamped /\ day \in Nat /\ out = Promised(start, day)
      /\ day + form.nights > form.latest
  BY DEF IInv
<1>2. form.latest \in Nat /\ form.nights \in Nat /\ Clamped \in Nat
  BY FormTypes, ClampedType DEF IInv
<1>3. \A d \in Clamped..form.latest : d + form.nights <= form.latest => d < day
  BY <1>1, <1>2
<1>4. QED
  BY <1>1, <1>2, <1>3 DEF Promised, Weekday

\* Whatever the window, the nights, the step and the weekdays, the dates tried
\* are exactly those the docstring of candidate_start_dates promises.
THEOREM EveryValidDateIsTried == Spec => []ExactlyTheValidDates
BY IInvHolds, DatesTried, PTL
-----------------------------------------------------------------------------
\* What the candidates of a window number, and what they cost.

\* A price is the number of candidates, kept between one and the cap.
LEMMA CostIs ==
  ASSUME NEW n \in Nat
  PROVE  Cost(n) = IF n < 1 THEN 1 ELSE IF n > MaxCredits THEN MaxCredits ELSE n
<1> DEFINE S == {MaxCredits, n}
           least == IF n > MaxCredits THEN MaxCredits ELSE n
           T == {1, least}
           most == IF least < 1 THEN 1 ELSE least
<1>1. MaxCredits \in Nat /\ MaxCredits >= 1
  <2>1. MaxCredits \in Nat \ {0}
    BY WindowAssumption
  <2>2. QED
    BY <2>1
<1>2. Min(S) = least
  <2>1. least \in S /\ \A y \in S : least =< y
    BY <1>1
  <2>2. \A x \in S : (\A y \in S : x =< y) => x = least
    BY <1>1
  <2>3. QED
    BY <2>1, <2>2 DEF Min
<1>3. Max(T) = most
  <2>1. least \in Nat
    BY <1>1
  <2> HIDE DEF least
  <2>2. most \in T /\ \A y \in T : most >= y
    BY <2>1
  <2>3. \A x \in T : (\A y \in T : x >= y) => x = most
    BY <2>1
  <2>4. QED
    BY <2>2, <2>3 DEF Max
<1>4. Cost(n) = most
  BY <1>2, <1>3 DEF Cost
<1>5. QED
  BY <1>1, <1>4

\* The dates of one weekday among the n dates from a on.
OnWeekday(a, n, w) == {d \in a..(a + n - 1) : Weekday(d) = w}

\* Their number is a seventh of n, rounded down or up: they are seven days
\* apart, from one of the first seven dates on.
LEMMA DatesOfAWeekday ==
  ASSUME NEW a \in Nat, NEW n \in Nat \ {0}, NEW w \in 0..6
  PROVE  \E count \in Nat :
           /\ Cardinality(OnWeekday(a, n, w)) = count
           /\ count <= CeilingOfSevenths(n)
           /\ CeilingOfSevenths(n) <= count + 1
<1>0. FirstWeekday \in 0..6
  BY WindowAssumption
<1>1. PICK f \in a..(a + 6) : Weekday(f) = w
  <2>1. \E r \in 0..6 : (a + r + FirstWeekday) % 7 = w
    <3>1. \E m \in 0..6 : (a + FirstWeekday) % 7 = m
      BY <1>0
    <3>2. PICK m \in 0..6 : (a + FirstWeekday) % 7 = m
      BY <3>1
    <3>3. CASE w >= m
      <4>1. (a + (w - m) + FirstWeekday) % 7 = w
        BY <1>0, <3>2, <3>3
      <4>2. QED
        BY <3>3, <4>1
    <3>4. CASE w < m
      <4>1. (a + (w - m + 7) + FirstWeekday) % 7 = w
        BY <1>0, <3>2, <3>4
      <4>2. QED
        BY <3>4, <4>1
    <3>5. QED
      BY <3>3, <3>4
  <2>2. PICK r \in 0..6 : (a + r + FirstWeekday) % 7 = w
    BY <2>1
  <2>3. a + r \in a..(a + 6)
    OBVIOUS
  <2>4. QED
    BY <2>2, <2>3 DEF Weekday
<1> DEFINE last == a + n - 1
           count == IF f > last THEN 0 ELSE (last - f) \div 7 + 1
           nth == [i \in 1..count |-> f + 7 * (i - 1)]
           S == OnWeekday(a, n, w)
<1>2. f \in Nat /\ last \in Nat /\ count \in Nat
  OBVIOUS
<1>3. ASSUME NEW i \in 1..count PROVE nth[i] \in S
  <2>1. nth[i] >= f /\ nth[i] <= last
    BY <1>2
  <2>2. (f + 7 * (i - 1) + FirstWeekday) % 7 = (f + FirstWeekday) % 7
    BY <1>0
  <2>3. QED
    BY <1>1, <2>1, <2>2 DEF OnWeekday, Weekday
<1>4. ASSUME NEW d \in S PROVE \E i \in 1..count : nth[i] = d
  <2>1. d \in a..last /\ (d + FirstWeekday) % 7 = (f + FirstWeekday) % 7
    BY <1>1 DEF OnWeekday, Weekday
  <2>2. (d - f) % 7 = 0
    BY <1>0, <2>1
  <2>3. d - f = 7 * ((d - f) \div 7)
    BY <2>1, <2>2
  <2> DEFINE q == (d - f) \div 7
  <2>4. q \in Int /\ d = f + 7 * q
    BY <2>1, <2>3
  <2>5. q >= 0
    BY <2>1, <2>4
  <2>6. q + 1 \in 1..count /\ nth[q + 1] = d
    BY <2>1, <2>4, <2>5
  <2>7. QED
    BY <2>6
<1>5. nth \in Bijection(1..count, S)
  <2>1. \A i, j \in 1..count : nth[i] = nth[j] => i = j
    BY <1>2
  <2>2. DOMAIN nth = 1..count
    OBVIOUS
  <2> HIDE DEF S
  <2>3. nth \in [1..count -> S]
    BY <1>3
  <2> HIDE DEF nth
  <2>4. QED
    BY <1>4, <2>1, <2>2, <2>3 DEF Bijection, Injection, Surjection, IsInjective
<1>6. Cardinality(S) = count
  <2>1. ExistsBijection(1..count, S)
    BY <1>5 DEF ExistsBijection
  <2> HIDE DEF count, S
  <2>2. QED
    BY <1>2, <2>1, FS_CountingElements
<1>7. count <= CeilingOfSevenths(n) /\ CeilingOfSevenths(n) <= count + 1
  BY DEF CeilingOfSevenths
<1>8. QED
  BY <1>2, <1>6, <1>7

\* In the browser's form the dates tried are all of the window that leave
\* room for the trip, or those of them on one weekday.
LEMMA TriedDates ==
  ASSUME form \in Forms, FromBrowser, Unclamped, Clamped = start,
         ExactlyTheValidDates, pc = "done"
  PROVE  LET n == form.latest - form.earliest - form.nights + 1
         IN  /\ n \in Nat \ {0}
             /\ form.weekdays = {} => out = form.earliest..(form.earliest + n - 1)
             /\ \A w : form.weekdays = {w} => out = OnWeekday(form.earliest, n, w)
<1> DEFINE n == form.latest - form.earliest - form.nights + 1
<1>1. /\ form.earliest \in Nat /\ form.latest \in Nat /\ form.nights \in Nat \ {0}
      /\ form.step = 1 /\ form.latest - form.earliest >= form.nights
      /\ Clamped = form.earliest
  BY FormTypes DEF FromBrowser, Unclamped
<1>2. out = {d \in form.earliest..form.latest :
               /\ d + form.nights <= form.latest
               /\ IF form.weekdays = {} THEN (d - form.earliest) % form.step = 0
                                       ELSE Weekday(d) \in form.weekdays}
  BY <1>1 DEF ExactlyTheValidDates, Clamped, Weekday
<1>3. \A d \in form.earliest..form.latest :
        (d + form.nights <= form.latest <=> d \in form.earliest..(form.earliest + n - 1))
        /\ (d - form.earliest) % 1 = 0
  BY <1>1
<1>4. form.earliest..(form.earliest + n - 1) \subseteq form.earliest..form.latest
  BY <1>1
<1>5. n \in Nat \ {0}
  BY <1>1
<1> HIDE DEF n
<1>6. form.weekdays = {} => out = form.earliest..(form.earliest + n - 1)
  BY <1>1, <1>2, <1>3, <1>4
<1>7. ASSUME NEW w, form.weekdays = {w} PROVE out = OnWeekday(form.earliest, n, w)
  BY <1>2, <1>3, <1>4, <1>7 DEF OnWeekday
<1>8. QED
  BY <1>5, <1>6, <1>7 DEF n

LEMMA QuotedAsCharged ==
  ASSUME IInv
  PROVE  QuoteIsClose
<1> SUFFICES ASSUME pc = "done", FromBrowser, Unclamped,
                    Cardinality(form.weekdays) < 2
             PROVE  IF form.weekdays = {} THEN Quoted = Charged
                    ELSE Charged <= Quoted /\ Quoted <= Charged + 1
  BY DEF QuoteIsClose
<1> DEFINE n == form.latest - form.earliest - form.nights + 1
<1>1. form \in Forms /\ Clamped = start
  BY DEF IInv
<1>2. /\ n \in Nat \ {0}
      /\ form.weekdays = {} => out = form.earliest..(form.earliest + n - 1)
      /\ \A w : form.weekdays = {w} => out = OnWeekday(form.earliest, n, w)
  BY <1>1, DatesTried, TriedDates
<1>3. form.earliest \in Nat
  BY <1>1, FormTypes
<1>4. Quoted = Cost(IF form.weekdays = {} THEN n ELSE CeilingOfSevenths(n))
  BY DEF Quoted
<1> HIDE DEF n
<1>5. CASE form.weekdays = {}
  <2>1. PICK first, last \in Int : first = form.earliest /\ last = first + n - 1 /\ first <= last
    BY <1>2, <1>3
  <2>2. Cardinality(first..last) = last - first + 1
    <3>1. Cardinality(first..last) = IF first > last THEN 0 ELSE last - first + 1
      BY FS_Interval
    <3>2. QED
      BY <2>1, <3>1
  <2>3. Cardinality(out) = n
    BY <1>2, <1>5, <2>1, <2>2
  <2>4. QED
    BY <1>4, <1>5, <2>3 DEF Charged
<1>6. CASE form.weekdays # {}
  <2>1. form.weekdays \in SUBSET (0..6)
    <3>1. form.weekdays \in WeekdaySets
      BY <1>1 DEF Forms
    <3>2. QED
      BY <3>1, WindowAssumption
  <2>2. IsFiniteSet(form.weekdays) /\ Cardinality(form.weekdays) \in Nat
    <3>1. IsFiniteSet(0..6)
      BY 0 \in Int, 6 \in Int, FS_Interval
    <3>2. IsFiniteSet(form.weekdays)
      BY <2>1, <3>1, FS_Subset
    <3>3. QED
      BY <3>2, FS_CardinalityType
  <2>3. Cardinality(form.weekdays) = 1
    BY <1>6, <2>2, FS_EmptySet
  <2>4. PICK w : form.weekdays = {w}
    BY <2>2, <2>3, FS_Singleton
  <2>5. w \in 0..6
    BY <2>1, <2>4
  <2>6. PICK count \in Nat :
          /\ Cardinality(OnWeekday(form.earliest, n, w)) = count
          /\ count <= CeilingOfSevenths(n)
          /\ CeilingOfSevenths(n) <= count + 1
    BY <1>2, <1>3, <2>5, DatesOfAWeekday
  <2>7. Charged = Cost(count) /\ Quoted = Cost(CeilingOfSevenths(n))
    BY <1>2, <1>4, <1>6, <2>4, <2>6 DEF Charged
  <2>8. CeilingOfSevenths(n) \in Nat /\ MaxCredits \in Nat \ {0}
    BY <1>2, WindowAssumption DEF CeilingOfSevenths
  <2>9. /\ Cost(count) <= Cost(CeilingOfSevenths(n))
        /\ Cost(CeilingOfSevenths(n)) <= Cost(count) + 1
    <3>1. Cost(count) = IF count < 1 THEN 1 ELSE IF count > MaxCredits THEN MaxCredits ELSE count
      BY CostIs
    <3> DEFINE c == CeilingOfSevenths(n)
    <3>2. Cost(c) = IF c < 1 THEN 1 ELSE IF c > MaxCredits THEN MaxCredits ELSE c
      BY <2>8, CostIs
    <3> HIDE DEF c
    <3>3. QED
      BY <2>6, <2>8, <3>1, <3>2 DEF c
  <2>10. QED
    BY <1>6, <2>7, <2>9
<1>7. QED
  BY <1>5, <1>6

\* What the browser quotes is what the server charges when any day will do,
\* and for one day of the week at most one credit more, for every window and
\* every length of trip (pendingCost, cost_for_candidate_dates).
THEOREM QuotesAreClose == Spec => []QuoteIsClose
BY IInvHolds, QuotedAsCharged, PTL

-----------------------------------------------------------------------------

\* Of a set of numbers there is a least one: the induction used below.
LEMMA LeastNumber ==
  ASSUME NEW T, T \subseteq Nat, T # {}
  PROVE  \E n \in T : \A m \in T : n <= m
<1>1. PICK n \in T : \A m \in T : ~(<<m, n>> \in OpToRel(<, Nat))
  <2> HIDE DEF OpToRel
  <2>1. QED
    BY NatLessThanWellFounded, WFMin
<1>2. \A m \in T : ~(m < n)
  BY <1>1 DEF OpToRel
<1>3. QED
  BY <1>2

\* Tuples of w numbers are compared as words are: no two different ones are
\* equal, none comes before itself, and the order is transitive.
LEMMA BeforeTotal ==
  ASSUME NEW w \in Nat, NEW a \in [1..w -> Int], NEW b \in [1..w -> Int]
  PROVE  a = b \/ Before(a, b) \/ Before(b, a)
<1> SUFFICES ASSUME a # b PROVE Before(a, b) \/ Before(b, a)
  OBVIOUS
<1> DEFINE Differ == {i \in 1..w : a[i] # b[i]}
<1>1. Differ # {}
  <2> SUFFICES ASSUME Differ = {} PROVE FALSE
    OBVIOUS
  <2>1. \A i \in 1..w : a[i] = b[i]
    OBVIOUS
  <2>2. QED
    BY <2>1
<1>2. PICK i \in Differ : \A j \in Differ : i <= j
  <2>1. Differ \in SUBSET Nat
    OBVIOUS
  <2> HIDE DEF Differ
  <2>2. QED
    BY <1>1, <2>1, LeastNumber
<1>3. i \in 1..w /\ a[i] # b[i] /\ a[i] \in Int /\ b[i] \in Int
  OBVIOUS
<1>4. \A j \in 1..(i - 1) : a[j] = b[j]
  <2> SUFFICES ASSUME NEW j \in 1..(i - 1), a[j] # b[j] PROVE FALSE
    OBVIOUS
  <2>1. j \in 1..w /\ ~(i <= j)
    BY <1>3
  <2>2. QED
    BY <1>2, <2>1
<1>5. DOMAIN a = 1..w /\ DOMAIN b = 1..w
  OBVIOUS
<1>6. CASE a[i] < b[i]
  BY <1>3, <1>4, <1>5, <1>6 DEF Before
<1>7. CASE b[i] < a[i]
  <2>1. \A j \in 1..(i - 1) : b[j] = a[j]
    BY <1>4
  <2>2. QED
    BY <1>3, <2>1, <1>5, <1>7 DEF Before
<1>8. QED
  BY <1>3, <1>6, <1>7

LEMMA BeforeIrreflexive ==
  ASSUME NEW w \in Nat, NEW a \in [1..w -> Int]
  PROVE  ~Before(a, a)
BY DEF Before

LEMMA BeforeTransitive ==
  ASSUME NEW w \in Nat, NEW a \in [1..w -> Int], NEW b \in [1..w -> Int], NEW c \in [1..w -> Int],
         Before(a, b), Before(b, c)
  PROVE  Before(a, c)
<1>1. DOMAIN a = 1..w /\ DOMAIN b = 1..w
  OBVIOUS
<1>2. PICK i \in 1..w : a[i] < b[i] /\ \A j \in 1..(i - 1) : a[j] = b[j]
  BY <1>1 DEF Before
<1>3. PICK k \in 1..w : b[k] < c[k] /\ \A j \in 1..(k - 1) : b[j] = c[j]
  BY <1>1 DEF Before
<1>4. \A n \in 1..w : a[n] \in Int /\ b[n] \in Int /\ c[n] \in Int
  OBVIOUS
<1>5. SUFFICES \E n \in 1..w : a[n] < c[n] /\ \A j \in 1..(n - 1) : a[j] = c[j]
  BY <1>1 DEF Before
<1>6. CASE i < k
  <2>1. \A j \in 1..(i - 1) : j \in 1..(k - 1)
    BY <1>6
  <2>2. i \in 1..(k - 1)
    BY <1>6
  <2>3. a[i] < c[i]
    BY <1>2, <1>3, <2>2
  <2>4. \A j \in 1..(i - 1) : a[j] = c[j]
    BY <1>2, <1>3, <2>1
  <2>5. QED
    BY <2>3, <2>4
<1>7. CASE k < i
  <2>1. \A j \in 1..(k - 1) : j \in 1..(i - 1)
    BY <1>7
  <2>2. k \in 1..(i - 1)
    BY <1>7
  <2>3. a[k] < c[k]
    BY <1>2, <1>3, <2>2
  <2>4. \A j \in 1..(k - 1) : a[j] = c[j]
    BY <1>2, <1>3, <2>1
  <2>5. QED
    BY <2>3, <2>4
<1>8. CASE i = k
  <2>1. a[i] < c[i]
    BY <1>2, <1>3, <1>4, <1>8
  <2>2. \A j \in 1..(i - 1) : a[j] = c[j]
    BY <1>2, <1>3, <1>8
  <2>3. QED
    BY <2>1, <2>2
<1>9. QED
  BY <1>6, <1>7, <1>8

\* Tuples of one, two and three numbers.
LEMMA BeforeOne ==
  ASSUME NEW a \in Int, NEW b \in Int
  PROVE  Before(<<a>>, <<b>>) <=> a < b
<1> DEFINE s == <<a>>
           t == <<b>>
<1>1. DOMAIN s = {1} /\ s[1] = a /\ t[1] = b
  OBVIOUS
<1>2. \A j : j \notin 1..(1 - 1)
  OBVIOUS
<1> HIDE DEF s, t
<1>3. Before(s, t) <=> s[1] < t[1]
  BY <1>1, <1>2 DEF Before
<1>4. QED
  BY <1>1, <1>3 DEF s, t

\* Places of equal keys are told apart by their order.
LEMMA PlacesAreOrdered ==
  ASSUME NEW D \in SUBSET Int, NEW w \in Nat, NEW key \in [D -> [1..w -> Int]]
  PROVE  /\ \A i, j \in D : i = j \/ GoesBefore(key, i, j) \/ GoesBefore(key, j, i)
         /\ \A i \in D : ~GoesBefore(key, i, i)
         /\ \A i, j, k \in D : GoesBefore(key, i, j) /\ GoesBefore(key, j, k) => GoesBefore(key, i, k)
<1>1. \A i \in D : key[i] \in [1..w -> Int] /\ i \in Int
  OBVIOUS
<1>2. \A i, j \in D : key[i] = key[j] \/ Before(key[i], key[j]) \/ Before(key[j], key[i])
  BY <1>1, BeforeTotal
<1>3. \A i \in D : ~Before(key[i], key[i])
  BY <1>1, BeforeIrreflexive
<1>4. \A i, j, k \in D : Before(key[i], key[j]) /\ Before(key[j], key[k]) => Before(key[i], key[k])
  BY <1>1, BeforeTransitive
<1>5. ASSUME NEW i \in D, NEW j \in D PROVE i = j \/ GoesBefore(key, i, j) \/ GoesBefore(key, j, i)
  BY <1>1, <1>2 DEF GoesBefore
<1>6. ASSUME NEW i \in D PROVE ~GoesBefore(key, i, i)
  BY <1>1, <1>3 DEF GoesBefore
<1>7. ASSUME NEW i \in D, NEW j \in D, NEW k \in D, GoesBefore(key, i, j), GoesBefore(key, j, k)
      PROVE  GoesBefore(key, i, k)
  <2>1. CASE key[i] = key[j] /\ i < j
    BY <1>1, <1>7, <2>1 DEF GoesBefore
  <2>2. CASE Before(key[i], key[j])
    <3>1. CASE key[j] = key[k]
      BY <2>2, <3>1 DEF GoesBefore
    <3>2. CASE Before(key[j], key[k])
      BY <1>4, <2>2, <3>2 DEF GoesBefore
    <3>3. QED
      BY <1>7, <3>1, <3>2 DEF GoesBefore
  <2>3. QED
    BY <1>7, <2>1, <2>2 DEF GoesBefore
<1>8. QED
  BY <1>5, <1>6, <1>7

\* Tuples of numbers are functions.
LEMMA OneNumber == ASSUME NEW a \in Int PROVE <<a>> \in [1..1 -> Int]
OBVIOUS

LEMMA TwoNumbers == ASSUME NEW a \in Int, NEW b \in Int PROVE <<a, b>> \in [1..2 -> Int]
OBVIOUS

LEMMA ThreeNumbers ==
  ASSUME NEW a \in Int, NEW b \in Int, NEW c \in Int
  PROVE  <<a, b, c>> \in [1..3 -> Int]
OBVIOUS

\* min finds the place that goes before all others.
LEMMA LeastPlaceFacts ==
  ASSUME NEW n \in Nat \ {0}, NEW w \in Nat, NEW key \in [1..n -> [1..w -> Int]]
  PROVE  /\ LeastPlace(key) \in 1..n
         /\ \A j \in 1..n : j = LeastPlace(key) \/ GoesBefore(key, LeastPlace(key), j)
<1> DEFINE First(i, m) == i \in 1..m /\ \A j \in 1..m : j = i \/ GoesBefore(key, i, j)
           Bad == {m \in 1..n : ~\E i : First(i, m)}
<1>1. /\ \A i, j \in 1..n : i = j \/ GoesBefore(key, i, j) \/ GoesBefore(key, j, i)
      /\ \A i, j, k \in 1..n : GoesBefore(key, i, j) /\ GoesBefore(key, j, k) => GoesBefore(key, i, k)
  <2>1. 1..n \in SUBSET Int
    OBVIOUS
  <2>2. QED
    BY <2>1, PlacesAreOrdered
<1>2. Bad = {}
  <2> SUFFICES ASSUME Bad # {} PROVE FALSE
    OBVIOUS
  <2>1. PICK m \in Bad : \A l \in Bad : m <= l
    <3>1. Bad \in SUBSET Nat
      OBVIOUS
    <3> HIDE DEF Bad
    <3>2. QED
      BY <3>1, LeastNumber
  <2>2. m \in 1..n /\ ~\E i : First(i, m)
    BY <2>1
  <2>3. m # 1
    <3>1. First(1, 1)
      OBVIOUS
    <3>2. QED
      BY <2>2, <3>1
  <2>4. m - 1 \in 1..n /\ ~(m <= m - 1)
    BY <2>2, <2>3
  <2>5. PICK i : First(i, m - 1)
    BY <2>1, <2>4
  <2>6. i \in 1..n /\ i \in 1..m /\ \A j \in 1..m : j = m \/ j \in 1..(m - 1)
    BY <2>2, <2>4, <2>5
  <2>7. CASE GoesBefore(key, i, m)
    <3>1. First(i, m)
      BY <2>5, <2>6, <2>7
    <3>2. QED
      BY <2>2, <3>1
  <2>8. CASE GoesBefore(key, m, i)
    <3>1. \A j \in 1..m : j = m \/ j = i \/ GoesBefore(key, i, j)
      BY <2>5, <2>6
    <3>2. \A j \in 1..m : j \in 1..n
      BY <2>2
    <3>3. \A j \in 1..m : j = m \/ GoesBefore(key, m, j)
      BY <1>1, <2>2, <2>6, <2>8, <3>1, <3>2
    <3>4. First(m, m)
      BY <2>2, <3>3
    <3>5. QED
      BY <2>2, <3>4
  <2>9. i # m
    BY <2>2, <2>5
  <2>10. QED
    BY <1>1, <2>2, <2>6, <2>7, <2>8, <2>9
<1>3. PICK i : First(i, n)
  <2>1. n \in 1..n
    OBVIOUS
  <2>2. QED
    BY <1>2, <2>1
<1>4. i \in DOMAIN key /\ \A j \in DOMAIN key \ {i} : GoesBefore(key, i, j)
  BY <1>3
<1>5. /\ LeastPlace(key) \in DOMAIN key
      /\ \A j \in DOMAIN key \ {LeastPlace(key)} : GoesBefore(key, LeastPlace(key), j)
  BY <1>4 DEF LeastPlace
<1>6. QED
  BY <1>5

\* One element of the table At builds from those before it.
AtStep(t, seq, S, i) ==
  IF i = 0 THEN <<>>
  ELSE IF i \in S THEN Append(t[i - 1], seq[i]) ELSE t[i - 1]

AtTable(t, seq, S, n) == t = [i \in 0..n |-> AtStep(t, seq, S, i)]

\* There is such a table of any length.
LEMMA AtTableExists ==
  ASSUME NEW seq, NEW S, NEW n \in Nat
  PROVE  \E t : AtTable(t, seq, S, n)
<1> DEFINE Bad == {m \in Nat : ~\E t : AtTable(t, seq, S, m)}
<1> SUFFICES ASSUME Bad # {} PROVE FALSE
  OBVIOUS
<1>1. PICK m \in Bad : \A l \in Bad : m <= l
  <2>1. Bad \subseteq Nat
    OBVIOUS
  <2> HIDE DEF Bad
  <2>2. QED
    BY <2>1, LeastNumber
<1>2. m \in Nat /\ m # 0
  <2>1. AtTable([i \in 0..0 |-> <<>>], seq, S, 0)
    BY DEF AtTable, AtStep
  <2>2. QED
    BY <1>1, <2>1
<1>3. PICK t : AtTable(t, seq, S, m - 1)
  <2>1. m - 1 \in Nat /\ ~(m <= m - 1)
    BY <1>2
  <2>2. QED
    BY <1>1, <2>1
<1> DEFINE u == [i \in 0..m |-> AtStep(t, seq, S, i)]
<1>4. \A i \in 0..(m - 1) : u[i] = t[i]
  <2>1. \A i \in 0..(m - 1) : t[i] = AtStep(t, seq, S, i) /\ i \in 0..m
    <3>1. 0..(m - 1) \subseteq 0..m
      BY <1>2
    <3>2. QED
      BY <1>3, <3>1 DEF AtTable
  <2>2. QED
    BY <2>1
<1>5. \A i \in 0..m : AtStep(t, seq, S, i) = AtStep(u, seq, S, i)
  <2>1. \A i \in 0..m : i = 0 \/ i - 1 \in 0..(m - 1)
    BY <1>2
  <2> HIDE DEF u
  <2>2. QED
    BY <1>4, <2>1 DEF AtStep
<1>6. AtTable(u, seq, S, m)
  BY <1>5 DEF AtTable
<1>7. QED
  <2> HIDE DEF u
  <2>1. QED
    BY <1>1, <1>6

\* s is what p picks out of seq: the elements at the positions in S among the
\* first n, in their order.
Picked(s, p, seq, T, S, n) ==
  /\ s \in Seq(T)
  /\ p \in [1..Len(s) -> 1..n]
  /\ \A a, b \in 1..Len(s) : a < b => p[a] < p[b]
  /\ \A a \in 1..Len(s) : s[a] = seq[p[a]] /\ p[a] \in S
  /\ \A m \in 1..n : m \in S => \E a \in 1..Len(s) : p[a] = m

\* That is what At computes.
LEMMA AtIsPicked ==
  ASSUME NEW T, NEW seq \in Seq(T), NEW S
  PROVE  \E p : Picked(At(seq, S), p, seq, T, S, Len(seq))
<1> DEFINE t == CHOOSE t : AtTable(t, seq, S, Len(seq))
<1>1. AtTable(t, seq, S, Len(seq))
  BY AtTableExists
<1>2. At(seq, S) = t[Len(seq)]
  BY DEF At, AtTable, AtStep
<1> HIDE DEF t
<1>3. \A i \in 0..Len(seq) : t[i] = AtStep(t, seq, S, i)
  BY <1>1 DEF AtTable
<1> DEFINE Bad == {n \in 0..Len(seq) : ~\E p : Picked(t[n], p, seq, T, S, n)}
<1>4. Bad = {}
  <2> SUFFICES ASSUME Bad # {} PROVE FALSE
    OBVIOUS
  <2>1. PICK n \in Bad : \A l \in Bad : n <= l
    <3>1. Bad \subseteq Nat
      OBVIOUS
    <3> HIDE DEF Bad
    <3>2. QED
      BY <3>1, LeastNumber
  <2>2. n \in 0..Len(seq) /\ n # 0
    <3>1. t[0] = <<>>
      <4>1. 0 \in 0..Len(seq) /\ AtStep(t, seq, S, 0) = <<>>
        BY DEF AtStep
      <4>2. QED
        BY <1>3, <4>1
    <3>2. Picked(t[0], [a \in 1..0 |-> a], seq, T, S, 0)
      BY <3>1 DEF Picked
    <3>3. QED
      BY <2>1, <3>2
  <2>3. n - 1 \in 0..Len(seq) /\ n \in 1..Len(seq) /\ ~(n <= n - 1)
    BY <2>2
  <2>4. PICK p : Picked(t[n - 1], p, seq, T, S, n - 1)
    BY <2>1, <2>3
  <2>5. t[n] = IF n \in S THEN Append(t[n - 1], seq[n]) ELSE t[n - 1]
    BY <1>3, <2>2 DEF AtStep
  <2>6. seq[n] \in T
    BY <2>3
  <2>7. CASE n \notin S
    <3>1. Picked(t[n - 1], p, seq, T, S, n)
      BY <2>3, <2>4, <2>7 DEF Picked
    <3>2. QED
      BY <2>1, <2>5, <2>7, <3>1
  <2>8. CASE n \in S
    <3> DEFINE s == t[n - 1]
               r == Append(s, seq[n])
               q == [a \in 1..Len(r) |-> IF a = Len(r) THEN n ELSE p[a]]
    <3>1. /\ r \in Seq(T) /\ Len(r) = Len(s) + 1 /\ Len(s) \in Nat
          /\ r[Len(r)] = seq[n] /\ \A a \in 1..Len(s) : r[a] = s[a]
      BY <2>4, <2>6 DEF Picked
    <3> HIDE DEF r
    <3>2. q \in [1..Len(r) -> 1..n]
      BY <2>3, <2>4, <3>1 DEF Picked
    <3>3. /\ Len(r) \in 1..Len(r) /\ q[Len(r)] = n
          /\ \A a \in 1..Len(r) : a = Len(r) \/ a \in 1..Len(s)
          /\ \A a \in 1..Len(s) : a \in 1..Len(r) /\ a < Len(r) /\ q[a] = p[a] /\ p[a] < n
      <4>1. \A a \in 1..Len(s) : a \in 1..Len(r) /\ a < Len(r)
        BY <3>1
      <4>2. \A a \in 1..Len(s) : p[a] \in 1..(n - 1)
        BY <2>4 DEF Picked
      <4>3. \A a \in 1..Len(s) : p[a] < n
        BY <2>3, <4>2
      <4>4. \A a \in 1..Len(s) : q[a] = p[a]
        BY <4>1
      <4>5. Len(r) \in 1..Len(r) /\ \A a \in 1..Len(r) : a = Len(r) \/ a \in 1..Len(s)
        BY <3>1
      <4>6. QED
        BY <4>1, <4>3, <4>4, <4>5
    <3> HIDE DEF q
    <3>4. \A a, b \in 1..Len(r) : a < b => q[a] < q[b]
      BY <2>4, <3>1, <3>3 DEF Picked
    <3>5. \A a \in 1..Len(r) : r[a] = seq[q[a]] /\ q[a] \in S
      BY <2>4, <2>8, <3>1, <3>3 DEF Picked
    <3>6. \A m \in 1..n : m \in S => \E a \in 1..Len(r) : q[a] = m
      <4> SUFFICES ASSUME NEW m \in 1..n, m \in S PROVE \E a \in 1..Len(r) : q[a] = m
        OBVIOUS
      <4>1. CASE m = n
        BY <3>3, <4>1
      <4>2. CASE m # n
        <5>1. m \in 1..(n - 1)
          BY <2>3, <4>2
        <5>2. PICK a \in 1..Len(s) : p[a] = m
          BY <2>4, <5>1 DEF Picked
        <5>3. QED
          BY <3>3, <5>2
      <4>3. QED
        BY <4>1, <4>2
    <3>7. Picked(r, q, seq, T, S, n)
      BY <3>1, <3>2, <3>4, <3>5, <3>6 DEF Picked
    <3>8. QED
      BY <2>1, <2>5, <2>8, <3>7 DEF r
  <2>9. QED
    BY <2>7, <2>8
<1>5. Len(seq) \in 0..Len(seq)
  OBVIOUS
<1>6. QED
  BY <1>2, <1>4, <1>5

-----------------------------------------------------------------------------

\* s is seq rearranged by p so that the keys ascend, and equal keys keep their
\* order.
Rearranged(s, p, seq, T, key) ==
  /\ s \in Seq(T) /\ Len(s) = Len(seq)
  /\ p \in [1..Len(seq) -> 1..Len(seq)]
  /\ \A a \in 1..Len(seq) : s[a] = seq[p[a]]
  /\ \A a, b \in 1..Len(seq) : a < b => GoesBefore(key, p[a], p[b])
  /\ \A m \in 1..Len(seq) : \E a \in 1..Len(seq) : p[a] = m

LEMMA SortedIsRearranged ==
  ASSUME NEW T, NEW seq \in Seq(T), NEW w \in Nat, NEW key \in [DOMAIN seq -> [1..w -> Int]]
  PROVE  \E p : Rearranged(Sorted(seq, key), p, seq, T, key)
<1> DEFINE D == DOMAIN seq
           Ahead(i) == {j \in D : GoesBefore(key, j, i)}
           f == [i \in D |-> Cardinality(Ahead(i)) + 1]
           place == [n \in D |-> CHOOSE i \in D : Cardinality(Ahead(i)) = n - 1]
<1>1. D = 1..Len(seq) /\ Len(seq) \in Nat
  OBVIOUS
<1>2. IsFiniteSet(D) /\ Cardinality(D) = Len(seq)
  <2>1. PICK n \in Nat : n = Len(seq)
    BY <1>1
  <2>2. 1 \in Int /\ n \in Int
    BY <2>1
  <2>3. IsFiniteSet(1..n) /\ Cardinality(1..n) = IF 1 > n THEN 0 ELSE n - 1 + 1
    BY <2>2, FS_Interval
  <2>4. Cardinality(1..n) = n
    BY <2>1, <2>3
  <2>5. QED
    BY <1>1, <2>1, <2>3, <2>4
<1>3. \A i \in D : IsFiniteSet(Ahead(i)) /\ Cardinality(Ahead(i)) \in Nat
  <2> SUFFICES ASSUME NEW i \in D PROVE IsFiniteSet(Ahead(i)) /\ Cardinality(Ahead(i)) \in Nat
    OBVIOUS
  <2>1. Ahead(i) \in SUBSET D
    OBVIOUS
  <2>2. IsFiniteSet(Ahead(i))
    BY <1>2, <2>1, FS_Subset
  <2>3. QED
    BY <2>2, FS_CardinalityType
<1>4. /\ \A i, j \in D : i = j \/ GoesBefore(key, i, j) \/ GoesBefore(key, j, i)
      /\ \A i \in D : ~GoesBefore(key, i, i)
      /\ \A i, j, k \in D : GoesBefore(key, i, j) /\ GoesBefore(key, j, k) => GoesBefore(key, i, k)
  <2>1. D \in SUBSET Int
    BY <1>1
  <2>2. QED
    BY <2>1, PlacesAreOrdered
<1>5. ASSUME NEW i \in D, NEW j \in D, GoesBefore(key, i, j)
      PROVE  Cardinality(Ahead(i)) < Cardinality(Ahead(j))
  <2>1. Ahead(i) \cup {i} \subseteq Ahead(j) /\ i \notin Ahead(i)
    BY <1>4, <1>5
  <2> HIDE DEF Ahead
  <2>2. /\ IsFiniteSet(Ahead(i) \cup {i})
        /\ Cardinality(Ahead(i) \cup {i}) = Cardinality(Ahead(i)) + 1
    BY <1>3, <2>1, FS_AddElement
  <2>3. Cardinality(Ahead(i) \cup {i}) <= Cardinality(Ahead(j))
    BY <1>3, <2>1, FS_Subset
  <2>4. QED
    BY <1>3, <2>2, <2>3
<1>6. \A i \in D : Cardinality(Ahead(i)) + 1 \in D
  <2> SUFFICES ASSUME NEW i \in D PROVE Cardinality(Ahead(i)) + 1 \in D
    OBVIOUS
  <2>1. Ahead(i) \in SUBSET (D \ {i})
    BY <1>4
  <2>2. IsFiniteSet(D \ {i}) /\ Cardinality(D \ {i}) = Len(seq) - 1
    <3> HIDE DEF D
    <3>1. QED
      BY <1>2, FS_RemoveElement
  <2>3. Cardinality(Ahead(i)) <= Len(seq) - 1
    <3> HIDE DEF D, Ahead
    <3>1. QED
      BY <2>1, <2>2, FS_Subset
  <2>4. \A c \in Nat : c <= Len(seq) - 1 => c + 1 \in D
    BY <1>1
  <2>5. QED
    <3> HIDE DEF D, Ahead
    <3>1. QED
      BY <1>3, <2>3, <2>4
<1>7. f \in [D -> D] /\ \A i \in D : f[i] = Cardinality(Ahead(i)) + 1
  BY <1>6
<1>0. \A i, j \in D : f[i] = f[j] => i = j
  <2> SUFFICES ASSUME NEW i \in D, NEW j \in D, f[i] = f[j], i # j PROVE FALSE
    OBVIOUS
  <2> HIDE DEF f, Ahead
  <2>1. Cardinality(Ahead(i)) = Cardinality(Ahead(j))
    BY <1>3, <1>7
  <2>2. Cardinality(Ahead(i)) < Cardinality(Ahead(j)) \/ Cardinality(Ahead(j)) < Cardinality(Ahead(i))
    BY <1>4, <1>5
  <2>3. QED
    BY <1>3, <2>1, <2>2
<1>8. f \in Injection(D, D)
  <2> HIDE DEF f, D
  <2>1. QED
    BY <1>0, <1>7 DEF Injection, IsInjective
<1>9. \A n \in D : \E i \in D : f[i] = n
  <2> HIDE DEF f, D
  <2>1. f \in Surjection(D, D)
    BY <1>2, <1>8, FS_Injection
  <2>2. QED
    BY <2>1 DEF Surjection
<1>10. \A n \in D : place[n] \in D /\ f[place[n]] = n
  <2> SUFFICES ASSUME NEW n \in D PROVE place[n] \in D /\ f[place[n]] = n
    OBVIOUS
  <2>1. PICK i \in D : f[i] = n
    BY <1>9
  <2>2. n \in Nat
    BY <1>1
  <2>3. place[n] = CHOOSE k \in D : Cardinality(Ahead(k)) = n - 1
    OBVIOUS
  <2> HIDE DEF Ahead, f, place
  <2>4. Cardinality(Ahead(i)) = n - 1
    BY <1>3, <1>7, <2>1, <2>2
  <2>5. place[n] \in D /\ Cardinality(Ahead(place[n])) = n - 1
    <3> HIDE DEF D
    <3>1. QED
      BY <2>3, <2>4
  <2>6. QED
    BY <1>7, <2>2, <2>5, SMTT(20)
<1>11. Sorted(seq, key) = [n \in D |-> seq[place[n]]]
  <2>1. [n \in D |-> seq[place[n]]] \in Seq(T)
    <3>1. \A n \in D : place[n] \in D
      BY <1>10
    <3> HIDE DEF place
    <3>2. \A i \in D : seq[i] \in T
      OBVIOUS
    <3>3. [n \in D |-> seq[place[n]]] \in [D -> T]
      BY <3>1, <3>2
    <3>4. [1..Len(seq) -> T] \subseteq Seq(T)
      BY <1>1
    <3>5. QED
      BY <1>1, <3>3, <3>4
  <2>2. \A r \in Seq(T) : <<>> \o r = r
    OBVIOUS
  <2> DEFINE r == [n \in D |-> seq[place[n]]]
  <2>3. Sorted(seq, key) = <<>> \o r
    BY DEF Sorted
  <2> HIDE DEF r
  <2>4. QED
    BY <2>1, <2>2, <2>3 DEF r
<1> HIDE DEF f, place
<1>12. \A a, b \in D : a < b => GoesBefore(key, place[a], place[b])
  <2> SUFFICES ASSUME NEW a \in D, NEW b \in D, a < b PROVE GoesBefore(key, place[a], place[b])
    OBVIOUS
  <2>1. place[a] # place[b]
    BY <1>1, <1>10
  <2>2. ~GoesBefore(key, place[b], place[a])
    <3> SUFFICES ASSUME GoesBefore(key, place[b], place[a]) PROVE FALSE
      OBVIOUS
    <3>1. Cardinality(Ahead(place[b])) < Cardinality(Ahead(place[a]))
      BY <1>5, <1>10
    <3> HIDE DEF Ahead
    <3>2. place[a] \in D /\ place[b] \in D
      BY <1>10
    <3> HIDE DEF D
    <3>3. f[place[b]] = Cardinality(Ahead(place[b])) + 1 /\ f[place[a]] = Cardinality(Ahead(place[a])) + 1
      BY <1>7, <3>2
    <3>4. f[place[b]] = b /\ f[place[a]] = a
      BY <1>10
    <3>5. Cardinality(Ahead(place[b])) \in Nat /\ Cardinality(Ahead(place[a])) \in Nat
      BY <1>3, <3>2
    <3>6. a \in Nat /\ b \in Nat
      BY <1>1
    <3>7. QED
      BY <3>1, <3>3, <3>4, <3>5, <3>6
  <2>3. QED
    BY <1>4, <1>10, <2>1, <2>2
<1>13. \A m \in D : \E a \in D : place[a] = m
  BY <1>0, <1>7, <1>10
<1>14. Rearranged(Sorted(seq, key), place, seq, T, key)
  <2>1. place \in [D -> D]
    BY <1>10 DEF place
  <2>2. Sorted(seq, key) \in Seq(T) /\ Len(Sorted(seq, key)) = Len(seq)
    BY <1>1, <1>10, <1>11
  <2>3. QED
    BY <1>1, <1>11, <1>12, <1>13, <2>1, <2>2 DEF Rearranged
<1>15. QED
  BY <1>14

-----------------------------------------------------------------------------

\* A sequence whose elements are in U is one over U.
LEMMA InSeq ==
  ASSUME NEW T, NEW U, NEW s \in Seq(T), \A i \in 1..Len(s) : s[i] \in U
  PROVE  s \in Seq(U)
<1>1. s = [i \in 1..Len(s) |-> s[i]] /\ Len(s) \in Nat
  OBVIOUS
<1>2. s \in [1..Len(s) -> U]
  BY <1>1
<1>3. QED
  BY <1>1, <1>2

\* At picks elements of the sequence, and misses none.
LEMMA AtFacts ==
  ASSUME NEW T, NEW seq \in Seq(T), NEW S
  PROVE  /\ At(seq, S) \in Seq(T)
         /\ \A a \in 1..Len(At(seq, S)) :
              \E i \in 1..Len(seq) : i \in S /\ At(seq, S)[a] = seq[i]
         /\ \A i \in 1..Len(seq) :
              i \in S => \E a \in 1..Len(At(seq, S)) : At(seq, S)[a] = seq[i]
<1> DEFINE s == At(seq, S)
<1>1. PICK p : Picked(s, p, seq, T, S, Len(seq))
  BY AtIsPicked
<1> HIDE DEF s
<1>2. \A a \in 1..Len(s) : p[a] \in 1..Len(seq) /\ p[a] \in S /\ s[a] = seq[p[a]]
  BY <1>1 DEF Picked
<1>3. \A i \in 1..Len(seq) : i \in S => \E a \in 1..Len(s) : p[a] = i
  BY <1>1 DEF Picked
<1>4. s \in Seq(T)
  BY <1>1 DEF Picked
<1>5. /\ s \in Seq(T)
      /\ \A a \in 1..Len(s) : \E i \in 1..Len(seq) : i \in S /\ s[a] = seq[i]
      /\ \A i \in 1..Len(seq) : i \in S => \E a \in 1..Len(s) : s[a] = seq[i]
  BY <1>2, <1>3, <1>4
<1>6. QED
  BY <1>5 DEF s

\* The last of these alone.
LEMMA AtHas ==
  ASSUME NEW T, NEW seq \in Seq(T), NEW S
  PROVE  \A i \in 1..Len(seq) : i \in S => \E a \in 1..Len(At(seq, S)) : At(seq, S)[a] = seq[i]
BY AtFacts

\* At keeps what is true of the elements it picks,
LEMMA AtIn ==
  ASSUME NEW T, NEW U, NEW seq \in Seq(T), NEW S,
         \A i \in 1..Len(seq) : i \in S => seq[i] \in U
  PROVE  At(seq, S) \in Seq(U)
<1> DEFINE s == At(seq, S)
<1>1. s \in Seq(T) /\ \A a \in 1..Len(s) : \E i \in 1..Len(seq) : i \in S /\ s[a] = seq[i]
  BY AtFacts
<1> HIDE DEF s
<1>2. \A a \in 1..Len(s) : s[a] \in U
  BY <1>1
<1>3. s \in Seq(U)
  BY <1>1, <1>2, InSeq
<1>4. QED
  BY <1>3 DEF s

\* and picks as many as there are positions.
LEMMA AtLength ==
  ASSUME NEW T, NEW seq \in Seq(T), NEW S, S \subseteq 1..Len(seq)
  PROVE  IsFiniteSet(S) /\ Cardinality(S) = Len(At(seq, S))
<1>1. PICK p : Picked(At(seq, S), p, seq, T, S, Len(seq))
  BY AtIsPicked
<1>2. PICK n \in Nat : n = Len(At(seq, S))
  BY <1>1 DEF Picked
<1>3. /\ p \in [1..n -> 1..Len(seq)]
      /\ \A a, b \in 1..n : a < b => p[a] < p[b]
      /\ \A a \in 1..n : p[a] \in S
      /\ \A m \in 1..Len(seq) : m \in S => \E a \in 1..n : p[a] = m
  BY <1>1, <1>2 DEF Picked
<1>4. p \in [1..n -> S]
  BY <1>3
<1>5. ASSUME NEW a \in 1..n, NEW b \in 1..n, p[a] = p[b] PROVE a = b
  <2>1. p[a] \in Int /\ p[b] \in Int
    BY <1>3
  <2>2. ~(p[a] < p[b]) /\ ~(p[b] < p[a])
    BY <1>5, <2>1
  <2>3. QED
    BY <1>3, <2>2
<1>6. p \in Injection(1..n, S)
  BY <1>4, <1>5 DEF Injection, IsInjective
<1>7. p \in Surjection(1..n, S)
  BY <1>3, <1>4 DEF Surjection
<1>8. ExistsBijection(1..n, S)
  BY <1>6, <1>7 DEF ExistsBijection, Bijection
<1>9. QED
  BY <1>2, <1>8, FS_NatBijection, FS_CountingElements

\* What is needed of a sequence that was sorted and one it was sorted from.
SameRows(s, seq, T) ==
  /\ s \in Seq(T)
  /\ Len(s) = Len(seq)
  /\ \A a \in 1..Len(seq) : \E i \in 1..Len(seq) : s[a] = seq[i]
  /\ \A i \in 1..Len(seq) : \E a \in 1..Len(seq) : s[a] = seq[i]

\* list.sort loses nothing.
LEMMA SortedFacts ==
  ASSUME NEW T, NEW seq \in Seq(T), NEW w \in Nat, NEW key \in [DOMAIN seq -> [1..w -> Int]]
  PROVE  SameRows(Sorted(seq, key), seq, T)
<1> DEFINE s == Sorted(seq, key)
<1>1. PICK p : Rearranged(s, p, seq, T, key)
  BY SortedIsRearranged
<1> HIDE DEF s
<1>2. \A a \in 1..Len(seq) : p[a] \in 1..Len(seq) /\ s[a] = seq[p[a]]
  BY <1>1 DEF Rearranged
<1>3. s \in Seq(T) /\ Len(s) = Len(seq) /\ \A m \in 1..Len(seq) : \E a \in 1..Len(seq) : p[a] = m
  BY <1>1 DEF Rearranged
<1>4. SameRows(s, seq, T)
  <2>1. \A a \in 1..Len(seq) : \E i \in 1..Len(seq) : s[a] = seq[i]
    BY <1>2
  <2>2. \A i \in 1..Len(seq) : \E a \in 1..Len(seq) : s[a] = seq[i]
    BY <1>2, <1>3
  <2>3. QED
    BY <1>3, <2>1, <2>2 DEF SameRows
<1>5. QED
  BY <1>4 DEF s

LEMMA MinOfTwo == ASSUME NEW m \in Int, NEW n \in Int PROVE Min({m, n}) = IF m <= n THEN m ELSE n
<1>1. \E x \in {m, n} : \A y \in {m, n} : x <= y
  OBVIOUS
<1>2. Min({m, n}) \in {m, n} /\ Min({m, n}) <= m /\ Min({m, n}) <= n
  BY <1>1 DEF Min
<1>3. QED
  BY <1>2

LEMMA MaxOfTwo == ASSUME NEW m \in Int, NEW n \in Int PROVE Max({m, n}) = IF m <= n THEN n ELSE m
<1>1. \E x \in {m, n} : \A y \in {m, n} : x >= y
  OBVIOUS
<1>2. Max({m, n}) \in {m, n} /\ Max({m, n}) >= m /\ Max({m, n}) >= n
  BY <1>1 DEF Max
<1>3. QED
  BY <1>2

\* A slice, and a list appended to another.
LEMMA TakeFacts ==
  ASSUME NEW T, NEW seq \in Seq(T), NEW n \in Nat
  PROVE  /\ Take(seq, n) \in Seq(T)
         /\ Len(Take(seq, n)) = IF n <= Len(seq) THEN n ELSE Len(seq)
         /\ \A a \in 1..Len(Take(seq, n)) : a \in 1..Len(seq) /\ Take(seq, n)[a] = seq[a]
<1>1. PICK m \in 0..Len(seq) : m = IF n <= Len(seq) THEN n ELSE Len(seq)
  OBVIOUS
<1>2. Take(seq, n) = SubSeq(seq, 1, m)
  BY <1>1, MinOfTwo DEF Take
<1>3. /\ SubSeq(seq, 1, m) \in Seq(T)
      /\ Len(SubSeq(seq, 1, m)) = m
      /\ \A a \in 1..m : SubSeq(seq, 1, m)[a] = seq[a]
  BY <1>1
<1>4. QED
  BY <1>1, <1>2, <1>3

LEMMA JoinFacts ==
  ASSUME NEW T, NEW U, NEW s \in Seq(T), NEW t \in Seq(U)
  PROVE  /\ s \o t \in Seq(T \cup U)
         /\ Len(s \o t) = Len(s) + Len(t)
         /\ \A a \in 1..Len(s) : (s \o t)[a] = s[a]
         /\ \A a \in 1..Len(t) : (s \o t)[Len(s) + a] = t[a]
         /\ \A a \in 1..Len(s \o t) : a \in 1..Len(s) \/ (a - Len(s)) \in 1..Len(t)
<1>1. s \in Seq(T \cup U) /\ t \in Seq(T \cup U)
  BY InSeq
<1>2. QED
  BY <1>1

-----------------------------------------------------------------------------

\* The rows of one resort are numbered in their order.
LEMMA RankFacts ==
  ASSUME NEW T, NEW seq \in Seq(T), NEW i \in 1..Len(seq)
  PROVE  /\ Rank(seq, i) \in Nat \ {0}
         /\ \A j \in 1..Len(seq) : j < i /\ seq[j].resort = seq[i].resort => Rank(seq, j) < Rank(seq, i)
         /\ Rank(seq, i) <= Cardinality({j \in 1..Len(seq) : seq[j].resort = seq[i].resort})
<1> DEFINE upTo(k) == {j \in 1..k : seq[j].resort = seq[k].resort}
           mine == {j \in 1..Len(seq) : seq[j].resort = seq[i].resort}
<1>1. \A k \in 1..Len(seq) : IsFiniteSet(upTo(k)) /\ Cardinality(upTo(k)) \in Nat
  <2> SUFFICES ASSUME NEW k \in 1..Len(seq) PROVE IsFiniteSet(upTo(k)) /\ Cardinality(upTo(k)) \in Nat
    OBVIOUS
  <2>1. IsFiniteSet(1..k)
    <3>1. 1 \in Int /\ k \in Int
      OBVIOUS
    <3>2. QED
      BY <3>1, FS_Interval
  <2>2. upTo(k) \in SUBSET (1..k)
    OBVIOUS
  <2>3. IsFiniteSet(upTo(k))
    BY <2>1, <2>2, FS_Subset
  <2>4. QED
    BY <2>3, FS_CardinalityType
<1>2. \A k \in 1..Len(seq) : Rank(seq, k) = Cardinality(upTo(k))
  BY DEF Rank
<1>3. Cardinality(upTo(i)) # 0
  <2>1. i \in upTo(i)
    OBVIOUS
  <2> HIDE DEF upTo
  <2>2. QED
    BY <1>1, <2>1, FS_EmptySet
<1>4. ASSUME NEW j \in 1..Len(seq), j < i, seq[j].resort = seq[i].resort
      PROVE  Cardinality(upTo(j)) < Cardinality(upTo(i))
  <2>1. upTo(j) \cup {i} \in SUBSET upTo(i) /\ i \notin upTo(j)
    BY <1>4
  <2> HIDE DEF upTo
  <2>2. Cardinality(upTo(j) \cup {i}) = Cardinality(upTo(j)) + 1
    BY <1>1, <2>1, FS_AddElement
  <2>3. Cardinality(upTo(j) \cup {i}) <= Cardinality(upTo(i))
    BY <1>1, <2>1, FS_Subset
  <2>4. QED
    BY <1>1, <2>2, <2>3
<1>5. Cardinality(upTo(i)) <= Cardinality(mine)
  <2>1. upTo(i) \in SUBSET mine
    OBVIOUS
  <2>2. IsFiniteSet(mine)
    <3>1. IsFiniteSet(1..Len(seq))
      <4>1. 1 \in Int /\ Len(seq) \in Int
        OBVIOUS
      <4>2. QED
        BY <4>1, FS_Interval
    <3>2. mine \in SUBSET (1..Len(seq))
      OBVIOUS
    <3>3. QED
      BY <3>1, <3>2, FS_Subset
  <2> HIDE DEF upTo, mine
  <2>3. QED
    BY <2>1, <2>2, FS_Subset
<1> HIDE DEF upTo
<1>6. QED
  BY <1>1, <1>2, <1>3, <1>4, <1>5

\* Every resort of the rows has a first row, and only one.
LEMMA FirstRow ==
  ASSUME NEW T, NEW seq \in Seq(T), NEW i \in 1..Len(seq)
  PROVE  \E j \in 1..Len(seq) : j <= i /\ seq[j].resort = seq[i].resort /\ Rank(seq, j) = 1
<1> DEFINE S == {j \in 1..Len(seq) : seq[j].resort = seq[i].resort}
<1>1. PICK j \in S : \A k \in S : j <= k
  <2>1. S \subseteq Nat /\ i \in S
    OBVIOUS
  <2> HIDE DEF S
  <2>2. QED
    BY <2>1, LeastNumber
<1>2. {k \in 1..j : seq[k].resort = seq[j].resort} = {j}
  BY <1>1
<1>3. Rank(seq, j) = 1
  BY <1>2, FS_Singleton DEF Rank
<1>4. QED
  BY <1>1, <1>3

\* The first rows are one for each resort.
LEMMA FirstsFacts ==
  ASSUME NEW T, NEW seq \in Seq(T)
  PROVE  /\ Firsts(seq) \in Seq(T)
         /\ ResortsOf(Firsts(seq)) = ResortsOf(seq)
         /\ \A a, b \in 1..Len(Firsts(seq)) : Firsts(seq)[a].resort = Firsts(seq)[b].resort => a = b
<1> DEFINE S == {i \in DOMAIN seq : Rank(seq, i) = 1}
           s == Firsts(seq)
<1>1. s = At(seq, S)
  BY DEF Firsts
<1>2. PICK p : Picked(s, p, seq, T, S, Len(seq))
  <2> HIDE DEF S, s
  <2>1. QED
    BY <1>1, AtIsPicked
<1>3. /\ s \in Seq(T) /\ Len(s) \in Nat /\ DOMAIN s = 1..Len(s) /\ DOMAIN seq = 1..Len(seq)
      /\ p \in [1..Len(s) -> 1..Len(seq)]
      /\ \A a, b \in 1..Len(s) : a < b => p[a] < p[b]
      /\ \A a \in 1..Len(s) : s[a] = seq[p[a]] /\ p[a] \in S
      /\ \A m \in 1..Len(seq) : m \in S => \E a \in 1..Len(s) : p[a] = m
  BY <1>2 DEF Picked
<1> HIDE DEF s
<1>4. ResortsOf(s) = ResortsOf(seq)
  <2>1. ASSUME NEW a \in 1..Len(s) PROVE \E i \in 1..Len(seq) : seq[i].resort = s[a].resort
    BY <1>3
  <2>2. ASSUME NEW i \in 1..Len(seq) PROVE \E a \in 1..Len(s) : s[a].resort = seq[i].resort
    <3>1. PICK j \in 1..Len(seq) : seq[j].resort = seq[i].resort /\ Rank(seq, j) = 1
      BY FirstRow
    <3>2. j \in S
      BY <3>1
    <3> HIDE DEF S
    <3>3. PICK a \in 1..Len(s) : p[a] = j
      BY <1>3, <3>2
    <3>4. QED
      BY <1>3, <3>1, <3>3
  <2> HIDE DEF S
  <2>3. ResortsOf(s) = {s[a].resort : a \in 1..Len(s)} /\ ResortsOf(seq) = {seq[a].resort : a \in 1..Len(seq)}
    BY <1>3 DEF ResortsOf
  <2>4. ResortsOf(s) \subseteq ResortsOf(seq)
    BY <2>1, <2>3
  <2>5. ResortsOf(seq) \subseteq ResortsOf(s)
    BY <2>2, <2>3
  <2>6. QED
    BY <2>4, <2>5
<1>5. ASSUME NEW a \in 1..Len(s), NEW b \in 1..Len(s), a < b PROVE s[a].resort # s[b].resort
  <2>1. p[a] \in 1..Len(seq) /\ p[b] \in 1..Len(seq) /\ p[a] < p[b]
    BY <1>3, <1>5
  <2>2. Rank(seq, p[a]) = 1 /\ Rank(seq, p[b]) = 1
    BY <1>3
  <2>3. ~(Rank(seq, p[a]) < Rank(seq, p[b]))
    BY <2>2
  <2>4. seq[p[a]].resort # seq[p[b]].resort
    BY <2>1, <2>3, RankFacts
  <2>5. QED
    BY <1>3, <2>4
<1>6. \A a, b \in 1..Len(s) : s[a].resort = s[b].resort => a = b
  <2>1. \A a, b \in 1..Len(s) : a < b \/ b < a \/ a = b
    BY <1>3
  <2>2. QED
    BY <1>5, <2>1
<1>7. QED
  BY <1>3, <1>4, <1>6 DEF s

-----------------------------------------------------------------------------

\* What a row is, and a request.
RowType == [resort : Resorts, date : Int, flight : Nat, lodging : Nat,
            flightIsLive : BOOLEAN, lodgingIsLive : BOOLEAN, within : BOOLEAN,
            alternatives : SUBSET Int]

AskType == ask \in [budget : Nat, resorts : SUBSET Resorts, pinned : BOOLEAN,
                    live : BOOLEAN, overBudget : BOOLEAN]

\* Within the budget, a score is the budget left over and the appeal.
LEMMA RowFacts ==
  ASSUME AskType, NEW row \in RowType
  PROVE  /\ Total(row) \in Nat /\ Score(row) \in Int /\ WithinBudget(row) \in BOOLEAN
         /\ row.resort \in Resorts /\ row.date \in Int /\ row.flight \in Nat /\ row.lodging \in Nat
         /\ Appeal[row.resort] \in Nat
         /\ WithinBudget(row) => Score(row) = Appeal[row.resort] + (ask.budget - Total(row))
<1>1. /\ row.resort \in Resorts /\ row.date \in Int /\ row.flight \in Nat /\ row.lodging \in Nat
      /\ ask.budget \in Nat /\ Appeal[row.resort] \in Nat
  BY SearchAssumption DEF RowType, AskType
<1>2. Total(row) \in Nat
  BY <1>1 DEF Total
<1>3. Max({0, ask.budget - Total(row)}) = IF 0 <= ask.budget - Total(row) THEN ask.budget - Total(row) ELSE 0
  <2>1. 0 \in Int /\ ask.budget - Total(row) \in Int
    BY <1>1, <1>2
  <2>2. QED
    BY <2>1, MaxOfTwo
<1>4. QED
  BY <1>1, <1>2, <1>3 DEF Score, WithinBudget

LEMMA BestFirstFacts ==
  ASSUME AskType, NEW T, T \subseteq RowType, NEW seq \in Seq(T)
  PROVE  SameRows(BestFirst(seq), seq, T)
<1> DEFINE key == [i \in DOMAIN seq |-> <<-Score(seq[i])>>]
<1>1. key \in [DOMAIN seq -> [1..1 -> Int]]
  <2>1. \A i \in DOMAIN seq : seq[i] \in RowType
    OBVIOUS
  <2>2. \A i \in DOMAIN seq : -Score(seq[i]) \in Int
    BY <2>1, RowFacts
  <2>3. QED
    BY <2>2, OneNumber
<1>2. BestFirst(seq) = Sorted(seq, key)
  BY DEF BestFirst
<1> HIDE DEF key
<1>3. QED
  BY <1>1, <1>2, SortedFacts

LEMMA CheapestFirstFacts ==
  ASSUME AskType, NEW T, T \subseteq RowType, NEW seq \in Seq(T)
  PROVE  SameRows(CheapestFirst(seq), seq, T)
<1> DEFINE key == [i \in DOMAIN seq |-> <<Total(seq[i])>>]
<1>1. key \in [DOMAIN seq -> [1..1 -> Int]]
  <2>1. \A i \in DOMAIN seq : seq[i] \in RowType
    OBVIOUS
  <2>2. \A i \in DOMAIN seq : Total(seq[i]) \in Int
    BY <2>1, RowFacts
  <2>3. QED
    BY <2>2, OneNumber
<1>2. CheapestFirst(seq) = Sorted(seq, key)
  BY DEF CheapestFirst
<1> HIDE DEF key
<1>3. QED
  BY <1>1, <1>2, SortedFacts

LEMMA CapFacts ==
  ASSUME NEW T, NEW seq \in Seq(T), NEW n \in Nat, NEW pad \in BOOLEAN
  PROVE  CapPerResort(seq, n, pad) \in Seq(T)
<1>1. PICK picked : picked = At(seq, {i \in DOMAIN seq : Allowed(Rank(seq, i))})
  OBVIOUS
<1>2. PICK leftovers : leftovers = At(seq, {i \in DOMAIN seq : ~Allowed(Rank(seq, i))})
  OBVIOUS
<1>3. picked \in Seq(T) /\ leftovers \in Seq(T)
  BY <1>1, <1>2, AtFacts
<1>4. PICK both : both = IF pad \/ Cardinality(ResortsOf(seq)) < 2 THEN picked \o leftovers ELSE picked
  OBVIOUS
<1>5. both \in Seq(T)
  BY <1>3, <1>4
<1>6. CapPerResort(seq, n, pad) = Take(both, n)
  BY <1>1, <1>2, <1>4 DEF CapPerResort
<1>7. QED
  BY <1>5, <1>6, TakeFacts

-----------------------------------------------------------------------------
\* Stage 1.

LEMMA PoolType == Pool \in Seq(Resorts)
BY SearchAssumption

LEMMA ShortlistResortsType ==
  ASSUME AskType, NEW pool \in Seq(Resorts)
  PROVE  ShortlistResorts(pool) \in Seq(Resorts)
<1>1. PICK affordable : affordable = At(pool, {i \in DOMAIN pool : CheapestPossible(pool[i]) <= ask.budget})
  OBVIOUS
<1>2. affordable \in Seq(Resorts)
  BY <1>1, AtFacts
<1>3. [i \in DOMAIN affordable |-> <<-Fit[affordable[i]]>>] \in [DOMAIN affordable -> [1..1 -> Int]]
  <2>1. \A i \in DOMAIN affordable : affordable[i] \in Resorts
    BY <1>2
  <2>2. \A r \in Resorts : Fit[r] \in Nat
    BY SearchAssumption
  <2>3. \A i \in DOMAIN affordable : -Fit[affordable[i]] \in Int
    BY <2>1, <2>2
  <2>4. QED
    BY <2>3, OneNumber
<1>4. Sorted(affordable, [i \in DOMAIN affordable |-> <<-Fit[affordable[i]]>>]) \in Seq(Resorts)
  BY <1>2, <1>3, SortedFacts DEF SameRows
<1>5. ShortlistSize \in Nat
  BY SearchAssumption
<1>6. QED
  BY <1>1, <1>4, <1>5, TakeFacts DEF ShortlistResorts

LEMMA ShortlistType == ASSUME AskType PROVE Shortlist \in Seq(Resorts)
<1>1. PICK pool : pool = At(Pool, {i \in DOMAIN Pool : Pool[i] \in ask.resorts})
  OBVIOUS
<1>2. pool \in Seq(Resorts)
  BY <1>1, PoolType, AtFacts
<1>3. ShortlistResorts(pool) \in Seq(Resorts)
  BY <1>2, ShortlistResortsType
<1>4. [i \in DOMAIN pool |-> <<CheapestPossible(pool[i])>>] \in [DOMAIN pool -> [1..1 -> Int]]
  <2>1. \A i \in DOMAIN pool : pool[i] \in Resorts
    BY <1>2
  <2>2. \A r \in Resorts : FlightEstimate[r] \in Nat /\ LodgingEstimate[r] \in [BOOLEAN -> Nat]
    BY SearchAssumption
  <2>3. ASSUME NEW r \in Resorts PROVE FlightEstimate[r] + LodgingEstimate[r][FALSE] \in Int
    <3>1. PICK f \in [BOOLEAN -> Nat] : f = LodgingEstimate[r]
      BY <2>2
    <3>2. PICK lodging \in Nat : lodging = f[FALSE]
      OBVIOUS
    <3>3. PICK flight \in Nat : flight = FlightEstimate[r]
      BY <2>2
    <3>4. LodgingEstimate[r][FALSE] = lodging
      BY <3>1, <3>2, Zenon
    <3>5. FlightEstimate[r] + LodgingEstimate[r][FALSE] = flight + lodging
      BY <3>3, <3>4, Zenon
    <3>6. flight + lodging \in Int
      OBVIOUS
    <3>7. QED
      BY <3>5, <3>6, Zenon
  <2>5. \A i \in DOMAIN pool : CheapestPossible(pool[i]) \in Int
    BY <2>1, <2>3 DEF CheapestPossible
  <2>4. QED
    BY <2>5, OneNumber
<1>5. Sorted(pool, [i \in DOMAIN pool |-> <<CheapestPossible(pool[i])>>]) \in Seq(Resorts)
  BY <1>2, <1>4, SortedFacts DEF SameRows
<1>6. Max({3, ShortlistSize \div 2}) \in Nat
  <2>1. ShortlistSize \in Nat
    BY SearchAssumption
  <2>2. 3 \in Int /\ ShortlistSize \div 2 \in Nat
    BY <2>1
  <2>3. QED
    BY <2>2, MaxOfTwo
<1>7. Take(Sorted(pool, [i \in DOMAIN pool |-> <<CheapestPossible(pool[i])>>]), Max({3, ShortlistSize \div 2}))
        \in Seq(Resorts)
  BY <1>5, <1>6, TakeFacts
<1>8. ask.pinned \in BOOLEAN /\ ask.overBudget \in BOOLEAN
  BY DEF AskType
<1>9. QED
  BY <1>1, <1>2, <1>3, <1>7, <1>8 DEF Shortlist

\* Rows as they are before any was priced live.
Estimates == {row \in RowType : row.within /\ ~IsLive(row)}

LEMMA EstimatedType ==
  ASSUME NEW r \in Resorts, NEW d \in Int
  PROVE  Estimated(r, d) \in Estimates
<1>1. FlightEstimate[r] \in Nat /\ LodgingEstimate[r][(d \in HighSeason)] \in Nat
  <2>1. FlightEstimate[r] \in Nat /\ LodgingEstimate[r] \in [BOOLEAN -> Nat]
    BY SearchAssumption
  <2>2. (d \in HighSeason) \in BOOLEAN
    OBVIOUS
  <2>3. QED
    BY <2>1, <2>2
<1>2. QED
  BY <1>1 DEF Estimated, Estimates, RowType, IsLive

\* The pairs of a resort and a date, counted through.
LEMMA SeqOfSet ==
  ASSUME NEW S, IsFiniteSet(S)
  PROVE  SetToSeq(S) \in Seq(S)
<1>1. Cardinality(S) \in Nat /\ ExistsBijection(1..Cardinality(S), S)
  BY FS_CardinalityType
<1>2. \E f \in [1..Cardinality(S) -> S] : IsInjective(f)
  BY <1>1 DEF ExistsBijection, Bijection, Injection
<1>3. SetToSeq(S) \in [1..Cardinality(S) -> S]
  BY <1>2 DEF SetToSeq
<1>4. QED
  BY <1>1, <1>3

LEMMA GridIndex ==
  ASSUME NEW l \in Nat, NEW n \in Nat, NEW i \in 1..(l * n)
  PROVE  1 + (i - 1) \div n \in 1..l /\ 1 + ((i - 1) % n) \in 1..n
<1>1. l * n \in Nat /\ i \in Nat /\ 1 <= i /\ i <= l * n
  OBVIOUS
<1>2. n # 0
  BY <1>1
<1>3. PICK q \in Int : q = (i - 1) \div n
  BY <1>1, <1>2
<1>4. PICK m \in Int : m = (i - 1) % n /\ 0 <= m /\ m < n
  BY <1>1, <1>2
<1>5. i - 1 = n * q + m
  BY <1>1, <1>2, <1>3, <1>4, Z3T(60)
<1>6. 0 <= q
  <2>1. SUFFICES ASSUME q <= -1 PROVE FALSE
    OBVIOUS
  <2>2. n * q <= n * (-1)
    BY <1>2, <2>1, Z3T(60)
  <2>3. QED
    BY <1>1, <1>2, <1>4, <1>5, <2>2
<1>7. q < l
  <2>1. SUFFICES ASSUME l <= q PROVE FALSE
    OBVIOUS
  <2>2. n * l <= n * q
    BY <1>2, <2>1, Z3T(60)
  <2>3. QED
    BY <1>1, <1>2, <1>4, <1>5, <2>2
<1>8. QED
  BY <1>2, <1>3, <1>4, <1>6, <1>7

LEMMA AllStaticType ==
  ASSUME AskType, out \subseteq Int, IsFiniteSet(out)
  PROVE  AllStatic \in Seq(Estimates)
<1>1. PICK dates \in Seq(out) : dates = SetToSeq(out)
  BY SeqOfSet
<1>2. PICK short \in Seq(Resorts) : short = Shortlist
  BY ShortlistType
<1>3. PICK n \in Nat : n = Len(dates)
  OBVIOUS
<1>4. PICK l \in Nat : l = Len(short)
  OBVIOUS
<1>5. PICK pairs : pairs = [i \in 1..l * n |->
                              Estimated(short[1 + (i - 1) \div n], dates[1 + ((i - 1) % n)])]
  OBVIOUS
<1>6. pairs \in Seq(Estimates)
  <2>1. l * n \in Nat
    OBVIOUS
  <2>2. ASSUME NEW i \in 1..l * n
        PROVE  Estimated(short[1 + (i - 1) \div n], dates[1 + ((i - 1) % n)]) \in Estimates
    <3>1. 1 + (i - 1) \div n \in 1..l /\ 1 + ((i - 1) % n) \in 1..n
      BY GridIndex
    <3>2. short[1 + (i - 1) \div n] \in Resorts
      BY <1>4, <3>1
    <3>3. dates[1 + ((i - 1) % n)] \in Int
      <4>1. dates[1 + ((i - 1) % n)] \in out
        BY <1>3, <3>1
      <4>2. QED
        BY <4>1
    <3>4. QED
      BY <3>2, <3>3, EstimatedType
  <2>3. pairs \in [1..l * n -> Estimates]
    BY <1>5, <2>2
  <2>4. QED
    BY <2>1, <2>3
<1>7. PICK byDate : byDate = Sorted(pairs, [i \in DOMAIN pairs |-> <<pairs[i].date>>])
  OBVIOUS
<1>8. byDate \in Seq(Estimates)
  <2>1. \A i \in DOMAIN pairs : pairs[i].date \in Int
    <3>1. \A i \in DOMAIN pairs : pairs[i] \in Estimates
      BY <1>6
    <3>2. QED
      BY <3>1 DEF Estimates, RowType
  <2>2. [i \in DOMAIN pairs |-> <<pairs[i].date>>] \in [DOMAIN pairs -> [1..1 -> Int]]
    BY <2>1, OneNumber
  <2>3. QED
    BY <1>6, <1>7, <2>2, SortedFacts DEF SameRows
<1> DEFINE key == [i \in DOMAIN byDate |-> <<OneIf(Weekday(byDate[i].date) # 5)>>]
<1>9. Sorted(byDate, key) \in Seq(Estimates)
  <2>1. key \in [DOMAIN byDate -> [1..1 -> Int]]
    BY OneNumber DEF OneIf
  <2> HIDE DEF key
  <2>2. QED
    BY <1>8, <2>1, SortedFacts DEF SameRows
<1>10. BestFirst(Sorted(byDate, key)) \in Seq(Estimates)
  <2>1. Estimates \subseteq RowType
    BY DEF Estimates
  <2> HIDE DEF key
  <2>2. QED
    BY <1>9, <2>1, BestFirstFacts DEF SameRows
<1>11. AllStatic = BestFirst(Sorted(byDate, key))
  BY <1>1, <1>2, <1>3, <1>4, <1>5, <1>7 DEF AllStatic
<1>12. QED
  BY <1>10, <1>11

-----------------------------------------------------------------------------

\* The rows of a search.  One with a live price was looked up (Seen).  Before
\* they are assembled rows are Offers, Fitting the budget or Dear; what is
\* assembled of them is Listed; and what is shown is at least Truthful: its
\* flag agrees with its price.
Seen(row) == IsLive(row) => Pair(row) \in asked
Offers == {row \in RowType : row.within /\ Seen(row)}
Fitting == {row \in Offers : WithinBudget(row)}
Dear == {row \in Offers : ~WithinBudget(row)}
FlaggedRows == {row \in RowType : ~row.within /\ ~WithinBudget(row) /\ Seen(row)}
Truthful == {row \in RowType : row.within = WithinBudget(row)}
Listed == {row \in Truthful : Seen(row)}

LEMMA KindsOfRows ==
  ASSUME AskType
  PROVE  /\ Fitting \subseteq Listed /\ FlaggedRows \subseteq Listed
         /\ Fitting \subseteq RowType /\ Dear \subseteq RowType /\ Offers \subseteq RowType
         /\ Fitting \subseteq Offers /\ Dear \subseteq Offers
         /\ FlaggedRows \subseteq RowType /\ Listed \subseteq RowType
         /\ Listed \subseteq Truthful /\ Truthful \subseteq RowType
<1>1. \A row \in RowType : row.within \in BOOLEAN /\ WithinBudget(row) \in BOOLEAN
  BY DEF RowType, WithinBudget
<1>2. QED
  BY <1>1 DEF Offers, Fitting, Dear, FlaggedRows, Truthful, Listed

\* A row over the budget that is flagged is listed as it should be.
LEMMA FlaggedFacts ==
  ASSUME NEW seq \in Seq(Dear)
  PROVE  /\ Flagged(seq) \in Seq(FlaggedRows) /\ Len(Flagged(seq)) = Len(seq)
         /\ \A i \in 1..Len(seq) : Flagged(seq)[i].resort = seq[i].resort
<1>1. \A i \in 1..Len(seq) : seq[i] \in Dear
  OBVIOUS
<1>2. ASSUME NEW row \in Dear
      PROVE  /\ [row EXCEPT !.within = FALSE] \in FlaggedRows
             /\ [row EXCEPT !.within = FALSE].resort = row.resort
  BY DEF Dear, Offers, FlaggedRows, RowType, WithinBudget, Total, Seen, IsLive, Pair
<1>3. Flagged(seq) = [i \in 1..Len(seq) |-> [seq[i] EXCEPT !.within = FALSE]] /\ Len(seq) \in Nat
  BY DEF Flagged
<1>4. \A i \in 1..Len(seq) : Flagged(seq)[i] \in FlaggedRows /\ Flagged(seq)[i].resort = seq[i].resort
  BY <1>1, <1>2, <1>3
<1>5. Flagged(seq) \in [1..Len(seq) -> FlaggedRows]
  BY <1>3, <1>4
<1>6. QED
  BY <1>3, <1>4, <1>5

\* A live answer changes the prices of a row, never what it is for.
LEMMA RepricedFacts ==
  ASSUME NEW seq \in Seq(RowType), NEW answers \in Answers(seq),
         NEW row \in RowType, Pair(row) \in PairsOf(seq)
  PROVE  /\ Repriced(row, answers) \in RowType
         /\ Pair(Repriced(row, answers)) = Pair(row)
         /\ Repriced(row, answers).resort = row.resort
         /\ Repriced(row, answers).within = row.within
         /\ Repriced(row, answers).alternatives = row.alternatives
<1>1. PICK flight : flight = answers.flights[Leg(row)]
  OBVIOUS
<1>2. PICK lodging : lodging = answers.lodgings[Pair(row)]
  OBVIOUS
<1>3. PICK i \in DOMAIN seq : Pair(seq[i]) = Pair(row)
  BY DEF PairsOf
<1>4. Leg(row) \in {Leg(seq[j]) : j \in DOMAIN seq} /\ Pair(row) \in {Pair(seq[j]) : j \in DOMAIN seq}
  BY <1>3 DEF Pair, Leg
<1>5. flight \in FlightPrices \cup {None} /\ lodging \in LodgingPrices \cup {None}
  BY <1>1, <1>2, <1>4 DEF Answers
<1>6. (flight # None => flight \in Nat) /\ (lodging # None => lodging \in Nat)
  BY <1>5, SearchAssumption
<1>7. Repriced(row, answers) =
        [row EXCEPT !.flight = IF flight \notin {None, row.flight} THEN flight ELSE @,
                    !.lodging = IF lodging \notin {None, row.lodging} THEN lodging ELSE @,
                    !.flightIsLive = @ \/ flight \notin {None, row.flight},
                    !.lodgingIsLive = @ \/ lodging \notin {None, row.lodging}]
  BY <1>1, <1>2 DEF Repriced
<1>8. QED
  BY <1>6, <1>7 DEF RowType, Pair

\* Stage 2 leaves offers: a row priced live is one of those looked up.
LEMMA PriceBestRows ==
  ASSUME NEW seq \in Seq(Estimates), NEW n \in Nat, NEW pad \in BOOLEAN,
         NEW answers \in Answers(CapPerResort(seq, n, pad)), NEW S,
         NEW A, A = PairsOf(CapPerResort(seq, n, pad)),
         NEW O, O = {row \in RowType : row.within /\ (IsLive(row) => Pair(row) \in A)}
  PROVE  AllRepriced(CapPerResort(seq, n, pad), answers) \o At(seq, S) \in Seq(O)
<1>1. PICK chosen : chosen = CapPerResort(seq, n, pad)
  OBVIOUS
<1>2. chosen \in Seq(Estimates)
  BY <1>1, CapFacts
<1>3. chosen \in Seq(RowType)
  BY <1>2, InSeq DEF Estimates
<1>4. ASSUME NEW i \in 1..Len(chosen) PROVE Repriced(chosen[i], answers) \in O
  <2>1. chosen[i] \in RowType /\ chosen[i].within
    BY <1>2 DEF Estimates
  <2>2. Pair(chosen[i]) \in PairsOf(chosen)
    BY <1>2 DEF PairsOf
  <2>3. /\ Repriced(chosen[i], answers) \in RowType
        /\ Pair(Repriced(chosen[i], answers)) = Pair(chosen[i])
        /\ Repriced(chosen[i], answers).within = chosen[i].within
    BY <1>1, <1>3, <2>1, <2>2, RepricedFacts
  <2>4. QED
    BY <1>1, <2>1, <2>2, <2>3
<1>5. AllRepriced(chosen, answers) \in Seq(O)
  <2>1. AllRepriced(chosen, answers) = [i \in 1..Len(chosen) |-> Repriced(chosen[i], answers)]
    BY <1>2 DEF AllRepriced
  <2>2. AllRepriced(chosen, answers) \in [1..Len(chosen) -> O] /\ Len(chosen) \in Nat
    BY <1>2, <1>4, <2>1
  <2>3. QED
    BY <2>2
<1>6. At(seq, S) \in Seq(O)
  <2>1. \A i \in 1..Len(seq) : seq[i] \in O
    BY DEF Estimates
  <2>2. QED
    BY <2>1, AtIn
<1>7. QED
  BY <1>1, <1>5, <1>6

-----------------------------------------------------------------------------
\* The order of the rows of one resort.

\* x may come before y; and every row of a sequence before those after it.
Leads(x, y) == x.resort = y.resort /\ y.within => x.within /\ Total(x) <= Total(y)
Led(seq) == \A i, j \in 1..Len(seq) : i < j => Leads(seq[i], seq[j])

\* Picking, cutting off and appending keep that order.
LEMMA LedAt ==
  ASSUME NEW T, NEW seq \in Seq(T), NEW S, Led(seq)
  PROVE  Led(At(seq, S))
<1>1. PICK p : Picked(At(seq, S), p, seq, T, S, Len(seq))
  BY AtIsPicked
<1>2. PICK s : s = At(seq, S)
  OBVIOUS
<1>3. ASSUME NEW a \in 1..Len(s), NEW b \in 1..Len(s), a < b PROVE Leads(s[a], s[b])
  <2>1. p[a] \in 1..Len(seq) /\ p[b] \in 1..Len(seq) /\ p[a] < p[b] /\ s[a] = seq[p[a]] /\ s[b] = seq[p[b]]
    BY <1>1, <1>2, <1>3 DEF Picked
  <2>2. QED
    BY <2>1 DEF Led
<1>4. QED
  BY <1>2, <1>3 DEF Led

LEMMA LedTake ==
  ASSUME NEW T, NEW seq \in Seq(T), NEW n \in Nat, Led(seq)
  PROVE  Led(Take(seq, n))
BY TakeFacts DEF Led

LEMMA LedJoin ==
  ASSUME NEW T, NEW U, NEW s \in Seq(T), NEW t \in Seq(U), Led(s), Led(t),
         \A a \in 1..Len(s), b \in 1..Len(t) : Leads(s[a], t[b])
  PROVE  Led(s \o t)
<1> DEFINE w == s \o t
<1>1. /\ Len(w) = Len(s) + Len(t) /\ Len(s) \in Nat /\ Len(t) \in Nat
      /\ \A a \in 1..Len(s) : w[a] = s[a]
      /\ \A a \in 1..Len(t) : w[Len(s) + a] = t[a]
      /\ \A a \in 1..Len(w) : a \in 1..Len(s) \/ (a - Len(s)) \in 1..Len(t)
  BY JoinFacts
<1> HIDE DEF w
<1>2. ASSUME NEW a \in 1..Len(w), NEW b \in 1..Len(w), a < b PROVE Leads(w[a], w[b])
  <2>1. CASE b \in 1..Len(s)
    <3>1. a \in 1..Len(s)
      BY <1>1, <1>2, <2>1
    <3>2. QED
      BY <1>1, <1>2, <2>1, <3>1 DEF Led
  <2>2. CASE b \notin 1..Len(s)
    <3>1. PICK d \in 1..Len(t) : b = Len(s) + d
      <4>1. (b - Len(s)) \in 1..Len(t)
        BY <1>1, <2>2
      <4>2. b = Len(s) + (b - Len(s))
        BY <1>1
      <4>3. QED
        BY <4>1, <4>2
    <3>2. w[b] = t[d]
      BY <1>1, <3>1
    <3>3. CASE a \in 1..Len(s)
      BY <1>1, <3>2, <3>3
    <3>4. CASE a \notin 1..Len(s)
      <4>1. PICK c \in 1..Len(t) : a = Len(s) + c
        <5>1. (a - Len(s)) \in 1..Len(t)
          BY <1>1, <3>4
        <5>2. a = Len(s) + (a - Len(s))
          BY <1>1
        <5>3. QED
          BY <5>1, <5>2
      <4>2. w[a] = t[c] /\ c < d
        BY <1>1, <1>2, <3>1, <4>1
      <4>3. QED
        BY <3>2, <4>2 DEF Led
    <3>5. QED
      BY <3>3, <3>4
  <2>3. QED
    BY <2>1, <2>2
<1>3. QED
  BY <1>2 DEF Led, w

\* Of two rows of a resort that fit the budget, the better score is the
\* lower price.
LEMMA ScoreAndPrice ==
  ASSUME AskType, NEW x \in RowType, NEW y \in RowType, WithinBudget(x), WithinBudget(y),
         x.resort = y.resort, Score(y) <= Score(x)
  PROVE  Total(x) <= Total(y)
<1>1. PICK k \in Nat : k = Appeal[x.resort] /\ k = Appeal[y.resort]
  BY RowFacts
<1>2. PICK m \in Nat, n \in Nat : m = Total(x) /\ n = Total(y)
  BY RowFacts
<1>3. PICK budget \in Nat : budget = ask.budget
  BY DEF AskType
<1>4. Score(x) = Appeal[x.resort] + (ask.budget - Total(x)) /\ Score(y) = Appeal[y.resort] + (ask.budget - Total(y))
  BY RowFacts
<1>5. k + (budget - n) <= k + (budget - m)
  BY <1>1, <1>2, <1>3, <1>4
<1>6. m <= n
  BY <1>5
<1>7. QED
  BY <1>2, <1>6

LEMMA BestFirstOrder ==
  ASSUME AskType, NEW T, T \subseteq RowType, NEW seq \in Seq(T),
         NEW a \in 1..Len(seq), NEW b \in 1..Len(seq), a < b
  PROVE  Score(BestFirst(seq)[b]) <= Score(BestFirst(seq)[a])
<1> DEFINE key == [i \in DOMAIN seq |-> <<-Score(seq[i])>>]
<1>1. \A i \in 1..Len(seq) : seq[i] \in RowType
  OBVIOUS
<1>2. \A i \in 1..Len(seq) : Score(seq[i]) \in Int
  BY <1>1, RowFacts
<1>3. DOMAIN seq = 1..Len(seq)
  OBVIOUS
<1>4. key \in [DOMAIN seq -> [1..1 -> Int]] /\ \A i \in 1..Len(seq) : key[i] = <<-Score(seq[i])>>
  BY <1>2, <1>3, OneNumber
<1>5. BestFirst(seq) = Sorted(seq, key)
  BY DEF BestFirst
<1> HIDE DEF key
<1>6. PICK p : Rearranged(BestFirst(seq), p, seq, T, key)
  BY <1>4, <1>5, SortedIsRearranged
<1>7. /\ p[a] \in 1..Len(seq) /\ p[b] \in 1..Len(seq) /\ GoesBefore(key, p[a], p[b])
      /\ BestFirst(seq)[a] = seq[p[a]] /\ BestFirst(seq)[b] = seq[p[b]]
  BY <1>6 DEF Rearranged
<1>8. PICK u \in Int : u = Score(seq[p[a]]) /\ key[p[a]] = <<-u>>
  BY <1>2, <1>4, <1>7
<1>9. PICK v \in Int : v = Score(seq[p[b]]) /\ key[p[b]] = <<-v>>
  BY <1>2, <1>4, <1>7
<1>10. v <= u
  <2>1. Before(<<-u>>, <<-v>>) \/ <<-u>> = <<-v>>
    BY <1>7, <1>8, <1>9 DEF GoesBefore
  <2>2. Before(<<-u>>, <<-v>>) => -u < -v
    BY BeforeOne
  <2>3. QED
    BY <2>1, <2>2
<1>11. QED
  BY <1>7, <1>8, <1>9, <1>10

\* By score, the rows that fit the budget are by price for each resort.
LEMMA LedByScore ==
  ASSUME AskType, NEW seq \in Seq(Fitting)
  PROVE  Led(BestFirst(seq))
<1>1. Fitting \subseteq RowType
  BY KindsOfRows
<1>2. PICK s \in Seq(Fitting) : s = BestFirst(seq) /\ Len(s) = Len(seq)
  BY <1>1, BestFirstFacts DEF SameRows
<1>3. ASSUME NEW a \in 1..Len(seq), NEW b \in 1..Len(seq), a < b PROVE Leads(s[a], s[b])
  <2>1. s[a] \in Fitting /\ s[b] \in Fitting
    BY <1>2
  <2>2. /\ s[a] \in RowType /\ s[a].within /\ WithinBudget(s[a])
        /\ s[b] \in RowType /\ WithinBudget(s[b])
    BY <2>1 DEF Fitting, Offers
  <2>3. Score(s[b]) <= Score(s[a])
    BY <1>1, <1>2, <1>3, BestFirstOrder
  <2>4. QED
    BY <2>2, <2>3, ScoreAndPrice DEF Leads
<1>4. QED
  BY <1>2, <1>3 DEF Led

LEMMA RankType ==
  ASSUME NEW T, NEW seq \in Seq(T), NEW i \in 1..Len(seq)
  PROVE  Rank(seq, i) \in Nat \ {0}
BY RankFacts

\* Rows picked by a lower rank lead those picked by a higher one.
LEMMA LedByRank ==
  ASSUME NEW T, NEW seq \in Seq(T), Led(seq), NEW S, NEW S2,
         \A i, j \in 1..Len(seq) :
           i \in S /\ j \in S2 /\ seq[i].resort = seq[j].resort => Rank(seq, i) < Rank(seq, j)
  PROVE  \A a \in 1..Len(At(seq, S)), b \in 1..Len(At(seq, S2)) : Leads(At(seq, S)[a], At(seq, S2)[b])
<1> SUFFICES ASSUME NEW a \in 1..Len(At(seq, S)), NEW b \in 1..Len(At(seq, S2))
             PROVE  Leads(At(seq, S)[a], At(seq, S2)[b])
  OBVIOUS
<1>1. PICK i \in 1..Len(seq) : i \in S /\ At(seq, S)[a] = seq[i]
  BY AtFacts, SMTT(40)
<1>2. PICK j \in 1..Len(seq) : j \in S2 /\ At(seq, S2)[b] = seq[j]
  BY AtFacts
<1>3. CASE seq[i].resort = seq[j].resort
  <2>1. Rank(seq, i) < Rank(seq, j)
    BY <1>1, <1>2, <1>3
  <2>2. Rank(seq, i) \in Nat /\ Rank(seq, j) \in Nat
    BY RankType
  <2>3. ~(j < i)
    <3>1. j < i => Rank(seq, j) < Rank(seq, i)
      BY <1>3, RankFacts
    <3>2. QED
      BY <2>1, <2>2, <3>1
  <2>4. i # j
    BY <2>1, <2>2
  <2>5. i < j
    BY <2>3, <2>4
  <2>6. QED
    BY <1>1, <1>2, <2>5 DEF Led
<1>4. CASE seq[i].resort # seq[j].resort
  BY <1>1, <1>2, <1>4 DEF Leads
<1>5. QED
  BY <1>3, <1>4

\* The rows cap_per_resort puts off come behind those it keeps.
LEMMA LedCap ==
  ASSUME NEW T, NEW seq \in Seq(T), Led(seq), NEW n \in Nat, NEW pad \in BOOLEAN
  PROVE  Led(CapPerResort(seq, n, pad))
<1>1. PICK S : S = {i \in DOMAIN seq : Allowed(Rank(seq, i))}
  OBVIOUS
<1>2. PICK S2 : S2 = {i \in DOMAIN seq : ~Allowed(Rank(seq, i))}
  OBVIOUS
<1>3. \A i, j \in 1..Len(seq) : i \in S /\ j \in S2 => Rank(seq, i) < Rank(seq, j)
  <2> SUFFICES ASSUME NEW i \in 1..Len(seq), NEW j \in 1..Len(seq), i \in S, j \in S2
               PROVE  Rank(seq, i) < Rank(seq, j)
    OBVIOUS
  <2>1. Rank(seq, i) \in Nat /\ Rank(seq, j) \in Nat /\ MaxPerResort \in Nat
    BY RankType, SearchAssumption
  <2>2. Allowed(Rank(seq, i)) /\ ~Allowed(Rank(seq, j))
    BY <1>1, <1>2
  <2>3. QED
    BY <2>1, <2>2 DEF Allowed
<1>4. \A a \in 1..Len(At(seq, S)), b \in 1..Len(At(seq, S2)) : Leads(At(seq, S)[a], At(seq, S2)[b])
  BY <1>3, LedByRank
<1>5. PICK picked \in Seq(T) : picked = At(seq, S)
  BY AtFacts
<1>6. PICK leftovers \in Seq(T) : leftovers = At(seq, S2)
  BY AtFacts
<1>7. Led(picked) /\ Led(leftovers)
  BY <1>5, <1>6, LedAt
<1>8. Led(picked \o leftovers)
  BY <1>4, <1>5, <1>6, <1>7, LedJoin
<1>9. PICK both : both = IF pad \/ Cardinality(ResortsOf(seq)) < 2 THEN picked \o leftovers ELSE picked
  OBVIOUS
<1>10. both \in Seq(T) /\ Led(both)
  BY <1>7, <1>8, <1>9
<1>11. CapPerResort(seq, n, pad) = Take(both, n)
  BY <1>1, <1>2, <1>5, <1>6, <1>9 DEF CapPerResort
<1>12. QED
  BY <1>10, <1>11, LedTake

-----------------------------------------------------------------------------

\* There is a best row of each week, since the week is one of a row's.
LEMMA SpreadAlternativeDatesType ==
  ASSUME AskType, evaluated \in Seq(RowType), NEW row
  PROVE  SpreadAlternativeDates(row) \in SUBSET Int
<1> DEFINE others == At(evaluated, {i \in DOMAIN evaluated :
                                      /\ evaluated[i].resort = row.resort
                                      /\ Week(evaluated[i].date) # Week(row.date)})
           OfWeek(w) == {i \in DOMAIN others : Week(others[i].date) = w}
           InWeek(w) == BestFirst(At(others, OfWeek(w)))
           firsts == {i \in DOMAIN others : \A j \in 1..(i - 1) : Week(others[j].date) # Week(others[i].date)}
           weeks == At(others, firsts)
           best == [n \in DOMAIN weeks |-> InWeek(Week(weeks[n].date))[1]]
           two == Take(BestFirst(best), 2)
<1>10. SpreadAlternativeDates(row) = {t.date : t \in Range(two)}
  BY DEF SpreadAlternativeDates
<1>1. best = [n \in DOMAIN weeks |-> InWeek(Week(weeks[n].date))[1]]
  OBVIOUS
<1> HIDE DEF best, two
<1>2. others \in Seq(RowType)
  BY AtFacts
<1> HIDE DEF others
<1>3. \A i \in 1..Len(others) : \A w : Week(others[i].date) = w => i \in OfWeek(w)
  BY <1>2
<1> HIDE DEF firsts, OfWeek
<1>4. ASSUME NEW n \in 1..Len(weeks)
      PROVE  InWeek(Week(weeks[n].date))[1] \in RowType
  <2>1. PICK i \in 1..Len(others) : weeks[n] = others[i]
    BY <1>2, AtFacts
  <2>2. PICK w : w = Week(weeks[n].date)
    OBVIOUS
  <2>3. i \in OfWeek(w)
    BY <1>3, <2>1, <2>2
  <2>4. PICK s \in Seq(RowType) : s = At(others, OfWeek(w))
    BY <1>2, AtFacts
  <2>5. 1 \in 1..Len(s)
    <3>1. PICK a \in 1..Len(s) : s[a] = others[i]
      BY <1>2, <2>1, <2>3, <2>4, AtFacts, SMTT(20)
    <3>2. QED
      BY <2>4
  <2>6. SameRows(BestFirst(s), s, RowType)
    BY BestFirstFacts
  <2>7. BestFirst(s)[1] \in RowType
    BY <2>5, <2>6 DEF SameRows
  <2>8. QED
    BY <2>2, <2>4, <2>7
<1>5. weeks \in Seq(RowType)
  BY <1>2, AtFacts
<1> HIDE DEF weeks
<1>7. best \in Seq(RowType)
  <2>1. DOMAIN weeks = 1..Len(weeks) /\ Len(weeks) \in Nat
    BY <1>5
  <2> HIDE DEF InWeek
  <2>2. best \in [1..Len(weeks) -> RowType]
    BY <1>1, <1>4, <2>1
  <2>3. QED
    BY <2>1, <2>2
<1>8. BestFirst(best) \in Seq(RowType)
  BY <1>7, BestFirstFacts DEF SameRows
<1>9. two \in Seq(RowType)
  BY <1>8, TakeFacts DEF two
<1>11. \A t \in Range(two) : t.date \in Int
  <2>1. \A t \in Range(two) : t \in RowType
    BY <1>9 DEF Range
  <2>2. QED
    BY <2>1 DEF RowType
<1>12. QED
  BY <1>10, <1>11

-----------------------------------------------------------------------------

\* Those of the rows in S whose resort was evaluated.
Of(S) == {row \in S : row.resort \in ResortsOf(evaluated)}

LEMMA ResortsOfType ==
  ASSUME NEW T, NEW seq \in Seq(T)
  PROVE  ResortsOf(seq) = {seq[i].resort : i \in 1..Len(seq)}
BY DEF ResortsOf

\* No resort twice: then there are as many resorts as rows.
Distinct(seq) == \A a, b \in 1..Len(seq) : seq[a].resort = seq[b].resort => a = b

LEMMA DistinctCount ==
  ASSUME NEW T, NEW seq \in Seq(T), Distinct(seq)
  PROVE  Cardinality(ResortsOf(seq)) = Len(seq)
<1> DEFINE f == [a \in 1..Len(seq) |-> seq[a].resort]
<1>1. PICK R : R = ResortsOf(seq)
  OBVIOUS
<1>2. R = {seq[i].resort : i \in 1..Len(seq)}
  BY <1>1, ResortsOfType
<1>3. f \in [1..Len(seq) -> R] /\ \A a \in 1..Len(seq) : f[a] = seq[a].resort
  BY <1>2
<1> HIDE DEF f
<1>4. f \in Injection(1..Len(seq), R)
  BY <1>3 DEF Distinct, Injection, IsInjective
<1>5. \A r \in R : \E a \in 1..Len(seq) : f[a] = r
  BY <1>2, <1>3
<1>6. f \in Surjection(1..Len(seq), R)
  BY <1>3, <1>5 DEF Surjection
<1>7. ExistsBijection(1..Len(seq), R)
  BY <1>4, <1>6 DEF ExistsBijection, Bijection
<1>8. Len(seq) \in Nat
  OBVIOUS
<1>9. QED
  BY <1>1, <1>7, <1>8, FS_CountingElements

\* A row for each resort first: what is appended after them, and cut off
\* again, does not push a resort out.
LEMMA FirstComeFirst ==
  ASSUME NEW T, NEW F \in Seq(T), NEW X \in Seq(T), NEW Y \in Seq(T), NEW n \in Nat,
         Distinct(F), NEW all, all = Take(Take(Take(F, n) \o X, n) \o Y, n),
         ResortsOf(all) \subseteq ResortsOf(F)
  PROVE  ResortsOf(all) = ResortsOf(F) \/ Cardinality(ResortsOf(all)) = n
<1>1. PICK m \in Nat : m = IF n <= Len(F) THEN n ELSE Len(F)
  OBVIOUS
<1>2. PICK s1 \in Seq(T) : s1 = Take(F, n)
  BY TakeFacts
<1>3. Len(s1) = m /\ \A a \in 1..m : s1[a] = F[a]
  BY <1>1, <1>2, TakeFacts
<1>4. PICK j1 : j1 = s1 \o X
  OBVIOUS
<1>0. j1 \in Seq(T)
  BY <1>4
<1>5. Len(j1) \in Nat /\ m <= Len(j1) /\ \A a \in 1..m : j1[a] = F[a]
  <2>1. Len(j1) = Len(s1) + Len(X) /\ Len(X) \in Nat
    BY <1>4
  <2>2. \A a \in 1..Len(s1) : j1[a] = s1[a]
    BY <1>4
  <2>3. QED
    BY <1>3, <2>1, <2>2
<1>6. PICK s2 \in Seq(T) : s2 = Take(j1, n)
  BY <1>0, TakeFacts
<1>7. Len(s2) \in Nat /\ m <= Len(s2) /\ Len(s2) <= n /\ \A a \in 1..m : s2[a] = F[a]
  <2>1. Len(s2) = IF n <= Len(j1) THEN n ELSE Len(j1)
    BY <1>0, <1>6, TakeFacts
  <2>2. m <= Len(s2) /\ Len(s2) <= n /\ Len(s2) \in Nat
    BY <1>1, <1>5, <2>1
  <2>3. \A a \in 1..m : a \in 1..Len(s2) /\ s2[a] = j1[a]
    <3>1. \A a \in 1..m : a \in 1..Len(s2)
      BY <2>2
    <3>2. QED
      BY <1>0, <1>6, <3>1, TakeFacts
  <2>4. QED
    BY <1>5, <2>2, <2>3
<1>8. PICK j2 : j2 = s2 \o Y
  OBVIOUS
<1>15. j2 \in Seq(T)
  BY <1>8
<1>9. Len(j2) \in Nat /\ m <= Len(j2) /\ \A a \in 1..m : j2[a] = F[a]
  BY <1>7, <1>8
<1>10. all = Take(j2, n) /\ all \in Seq(T)
  BY <1>2, <1>4, <1>6, <1>8, <1>15, TakeFacts
<1>11. Len(all) \in Nat /\ m <= Len(all) /\ Len(all) <= n /\ \A a \in 1..m : a \in 1..Len(all) /\ all[a] = F[a]
  <2>1. Len(all) = IF n <= Len(j2) THEN n ELSE Len(j2)
    BY <1>10, <1>15, TakeFacts
  <2>2. m <= Len(all) /\ Len(all) <= n /\ Len(all) \in Nat
    BY <1>1, <1>9, <2>1
  <2>3. \A a \in 1..m : a \in 1..Len(all)
    BY <2>2
  <2>4. \A a \in 1..m : all[a] = j2[a]
    BY <1>10, <1>15, <2>3, TakeFacts
  <2>5. QED
    BY <1>9, <2>2, <2>3, <2>4
<1>12. CASE m = Len(F)
  <2>1. ASSUME NEW a \in 1..Len(F) PROVE F[a].resort \in ResortsOf(all)
    <3>1. a \in 1..Len(all) /\ all[a] = F[a]
      BY <1>11, <1>12
    <3>2. ResortsOf(all) = {all[i].resort : i \in 1..Len(all)}
      BY <1>10, ResortsOfType
    <3>3. QED
      BY <3>1, <3>2
  <2>2. ResortsOf(F) = {F[i].resort : i \in 1..Len(F)}
    BY ResortsOfType
  <2>3. QED
    BY <2>1, <2>2
<1>13. CASE m = n
  <2>1. Len(all) = n /\ n <= Len(F)
    BY <1>1, <1>11, <1>13
  <2>2. Distinct(all)
    <3> SUFFICES ASSUME NEW a \in 1..Len(all), NEW b \in 1..Len(all), all[a].resort = all[b].resort
                 PROVE  a = b
      BY DEF Distinct
    <3>1. a \in 1..Len(F) /\ b \in 1..Len(F) /\ a \in 1..m /\ b \in 1..m
      BY <1>13, <2>1
    <3>2. QED
      BY <1>11, <3>1 DEF Distinct
  <2>3. QED
    BY <1>10, <2>1, <2>2, DistinctCount
<1>14. QED
  BY <1>1, <1>12, <1>13

-----------------------------------------------------------------------------

\* Any row may come before a flagged one.
LEMMA FlaggedLast ==
  ASSUME NEW x, NEW y \in FlaggedRows
  PROVE  Leads(x, y)
BY DEF FlaggedRows, Leads

\* Changing the other dates of a row changes nothing else of it.
LEMMA SameResorts ==
  ASSUME NEW T, NEW s \in Seq(T), NEW t \in Seq(T), Len(s) = Len(t),
         \A i \in 1..Len(s) : s[i].resort = t[i].resort
  PROVE  ResortsOf(s) = ResortsOf(t)
<1>1. ResortsOf(s) = {s[i].resort : i \in 1..Len(s)} /\ ResortsOf(t) = {t[i].resort : i \in 1..Len(s)}
  BY DEF ResortsOf
<1>2. ResortsOf(s) \subseteq ResortsOf(t)
  BY <1>1
<1>3. ResortsOf(t) \subseteq ResortsOf(s)
  BY <1>1
<1>4. QED
  BY <1>2, <1>3

LEMMA WithAlternatives ==
  ASSUME AskType, NEW all \in Seq(Of(Listed)), NEW shown,
         shown = [i \in DOMAIN all |->
                    IF Rank(all, i) = 1
                      THEN [all[i] EXCEPT !.alternatives = SpreadAlternativeDates(all[i])] ELSE all[i]],
         evaluated \in Seq(RowType)
  PROVE  /\ shown \in Seq(Of(Listed)) /\ Len(shown) = Len(all)
         /\ ResortsOf(shown) = ResortsOf(all)
         /\ Led(all) => Led(shown)
<1>1. DOMAIN all = 1..Len(all) /\ Len(all) \in Nat /\ \A i \in 1..Len(all) : all[i] \in Of(Listed)
  OBVIOUS
<1>2. ASSUME NEW row \in Of(Listed), NEW dates \in SUBSET Int
      PROVE  LET with == [row EXCEPT !.alternatives = dates]
             IN  /\ with \in Of(Listed) /\ with.resort = row.resort
                 /\ with.within = row.within /\ Total(with) = Total(row)
  BY DEF Of, Listed, Truthful, RowType, WithinBudget, Total, Seen, IsLive, Pair
<1>3. ASSUME NEW i \in 1..Len(all)
      PROVE  /\ shown[i] \in Of(Listed) /\ shown[i].resort = all[i].resort
             /\ shown[i].within = all[i].within /\ Total(shown[i]) = Total(all[i])
  <2>1. CASE Rank(all, i) = 1
    <3>1. shown[i] = [all[i] EXCEPT !.alternatives = SpreadAlternativeDates(all[i])]
      BY <1>1, <2>1
    <3>2. SpreadAlternativeDates(all[i]) \in SUBSET Int
      BY SpreadAlternativeDatesType
    <3>3. QED
      BY <1>1, <1>2, <3>1, <3>2
  <2>2. CASE Rank(all, i) # 1
    BY <1>1, <2>2
  <2>3. QED
    BY <2>1, <2>2
<1>4. shown \in Seq(Of(Listed)) /\ Len(shown) = Len(all)
  <2>1. shown = [i \in 1..Len(all) |-> shown[i]]
    BY <1>1
  <2>2. shown \in [1..Len(all) -> Of(Listed)]
    BY <1>3, <2>1
  <2>3. QED
    BY <1>1, <2>2
<1>5. ResortsOf(shown) = ResortsOf(all)
  BY <1>3, <1>4, SameResorts
<1>6. ASSUME Led(all) PROVE Led(shown)
  <2> SUFFICES ASSUME NEW i \in 1..Len(all), NEW j \in 1..Len(all), i < j PROVE Leads(shown[i], shown[j])
    BY <1>4 DEF Led
  <2>1. Leads(all[i], all[j])
    BY <1>6 DEF Led
  <2>2. /\ shown[i].resort = all[i].resort /\ shown[i].within = all[i].within /\ Total(shown[i]) = Total(all[i])
        /\ shown[j].resort = all[j].resort /\ shown[j].within = all[j].within /\ Total(shown[j]) = Total(all[j])
    BY <1>3
  <2>3. QED
    BY <2>1, <2>2 DEF Leads
<1>7. QED
  BY <1>4, <1>5, <1>6

\* What assemble_coverage_first makes of the rows that fit the budget.
LEMMA CoverageFirstRows ==
  ASSUME AskType, evaluated \in Seq(Offers), NEW results \in Seq(Of(Fitting)), Led(results)
  PROVE  /\ CoverageFirst(results) \in Seq(Of(Listed))
         /\ Led(CoverageFirst(results))
         /\ (/\ ask.overBudget
             /\ \A i \in 1..Len(evaluated) : WithinBudget(evaluated[i]) =>
                                               evaluated[i].resort \in ResortsOf(results)) =>
              \/ ResortsOf(CoverageFirst(results)) = ResortsOf(evaluated)
              \/ Cardinality(ResortsOf(CoverageFirst(results))) = TopN
<1> DEFINE byPrice == CheapestFirst(evaluated)
           priciest == At(byPrice, {i \in DOMAIN byPrice : ask.overBudget /\ ~WithinBudget(byPrice[i])})
           unseen == At(priciest, {i \in DOMAIN priciest : priciest[i].resort \notin ResortsOf(results)})
           firsts == Firsts(results)
           newcomers == Flagged(Firsts(unseen))
           F == firsts \o newcomers
           section1 == Take(F, TopN)
           S2 == {i \in DOMAIN results : Rank(results, i) > 1 /\ Allowed(Rank(results, i))}
           section2 == At(results, S2)
           some == Take(section1 \o section2, TopN)
           extra == At(priciest, {i \in DOMAIN priciest : Pair(priciest[i]) \notin PairsOf(some)})
           Has(r) == Cardinality({i \in DOMAIN some : some[i].resort = r})
           extraRows == At(extra, {i \in DOMAIN extra : Allowed(Has(extra[i].resort) + Rank(extra, i))})
           section3 == Flagged(extraRows)
           all == Take(some \o section3, TopN)
           New == {row \in Of(Dear) : row.resort \notin ResortsOf(results)}
<1>1. CoverageFirst(results) =
        [i \in DOMAIN all |->
           IF Rank(all, i) = 1
             THEN [all[i] EXCEPT !.alternatives = SpreadAlternativeDates(all[i])] ELSE all[i]]
  BY DEF CoverageFirst
<1>2. TopN \in Nat
  BY SearchAssumption
<1>3. /\ Of(Fitting) \subseteq Of(Listed) /\ Of(FlaggedRows) \subseteq Of(Listed)
      /\ Of(Offers) \subseteq RowType /\ Of(Dear) \subseteq Dear /\ Of(Fitting) \subseteq Fitting
      /\ Of(FlaggedRows) \subseteq FlaggedRows /\ New \subseteq Of(Dear)
      /\ Offers \subseteq RowType /\ Dear \subseteq Offers
  BY KindsOfRows DEF Of
<1>4. evaluated \in Seq(Of(Offers)) /\ evaluated \in Seq(RowType)
  <2>1. \A i \in 1..Len(evaluated) : evaluated[i] \in Of(Offers)
    BY DEF Of, ResortsOf
  <2>2. QED
    BY <1>3, <2>1, InSeq
<1>5. SameRows(byPrice, evaluated, Of(Offers))
  BY <1>3, <1>4, CheapestFirstFacts
<1>6. byPrice \in Seq(Of(Offers))
  BY <1>5 DEF SameRows
<1>7. priciest \in Seq(Of(Dear))
  <2>1. \A i \in 1..Len(byPrice) : ~WithinBudget(byPrice[i]) => byPrice[i] \in Of(Dear)
    BY <1>6 DEF Of, Dear
  <2> HIDE DEF byPrice
  <2>2. QED
    BY <1>6, <2>1, AtIn
<1>8. unseen \in Seq(New)
  <2> HIDE DEF priciest
  <2>1. \A i \in 1..Len(priciest) : priciest[i].resort \notin ResortsOf(results) => priciest[i] \in New
    BY <1>7
  <2> HIDE DEF New
  <2>2. QED
    BY <1>7, <2>1, AtIn
<1>9. firsts \in Seq(Of(Fitting)) /\ ResortsOf(firsts) = ResortsOf(results) /\ Distinct(firsts)
  BY FirstsFacts DEF Distinct
<1>10. PICK fresh \in Seq(New) : /\ fresh = Firsts(unseen) /\ ResortsOf(fresh) = ResortsOf(unseen)
                                 /\ Distinct(fresh)
  <2> HIDE DEF unseen, New
  <2>1. QED
    BY <1>8, FirstsFacts DEF Distinct
<1>11. /\ newcomers \in Seq(Of(FlaggedRows)) /\ Len(newcomers) = Len(fresh)
       /\ \A i \in 1..Len(fresh) : newcomers[i].resort = fresh[i].resort /\ fresh[i] \in New
  <2>1. newcomers = Flagged(fresh)
    BY <1>10
  <2>2. \A i \in 1..Len(fresh) : fresh[i] \in New /\ fresh[i] \in Dear
    BY <1>3, <1>10
  <2>3. fresh \in Seq(Dear)
    BY <1>10, <2>2, InSeq
  <2>4. /\ Flagged(fresh) \in Seq(FlaggedRows) /\ Len(Flagged(fresh)) = Len(fresh)
        /\ \A i \in 1..Len(fresh) : Flagged(fresh)[i].resort = fresh[i].resort
    BY <2>3, FlaggedFacts
  <2>5. \A i \in 1..Len(fresh) : Flagged(fresh)[i] \in Of(FlaggedRows)
    BY <2>2, <2>4 DEF Of
  <2>6. Flagged(fresh) \in Seq(Of(FlaggedRows))
    BY <2>4, <2>5, InSeq
  <2> HIDE DEF newcomers, New
  <2>7. QED
    BY <2>1, <2>2, <2>4, <2>6
<1>12. \A i \in 1..Len(newcomers) : newcomers[i].resort \notin ResortsOf(results) /\ newcomers[i] \in FlaggedRows
  <2> HIDE DEF newcomers
  <2>1. \A i \in 1..Len(newcomers) : newcomers[i] \in FlaggedRows
    BY <1>3, <1>11
  <2>2. QED
    BY <1>11, <2>1
<1>13. F \in Seq(Of(Listed))
  <2>1. firsts \in Seq(Of(Listed)) /\ newcomers \in Seq(Of(Listed))
    BY <1>3, <1>9, <1>11, InSeq
  <2> HIDE DEF firsts, newcomers
  <2>2. QED
    BY <2>1
<1>14. section1 \in Seq(Of(Listed))
  <2> HIDE DEF F
  <2>1. QED
    BY <1>2, <1>13, TakeFacts
<1>15. section2 \in Seq(Of(Fitting)) /\ section2 \in Seq(Of(Listed))
  <2> HIDE DEF S2
  <2>1. section2 \in Seq(Of(Fitting))
    BY AtFacts
  <2>2. QED
    BY <1>3, <2>1, InSeq
<1>16. some \in Seq(Of(Listed))
  <2> HIDE DEF section1, section2
  <2>1. section1 \o section2 \in Seq(Of(Listed))
    BY <1>14, <1>15
  <2>2. QED
    BY <1>2, <2>1, TakeFacts
<1>17. section3 \in Seq(FlaggedRows) /\ section3 \in Seq(Of(Listed))
  <2>1. extra \in Seq(Of(Dear))
    <3> HIDE DEF priciest
    <3>1. QED
      BY <1>7, AtFacts
  <2>2. extraRows \in Seq(Of(Dear))
    <3> HIDE DEF extra
    <3>1. QED
      BY <2>1, AtFacts
  <2> HIDE DEF extraRows
  <2>3. extraRows \in Seq(Dear) /\ \A i \in 1..Len(extraRows) : extraRows[i].resort \in ResortsOf(evaluated)
    BY <1>3, <2>2, InSeq DEF Of
  <2>4. /\ section3 \in Seq(FlaggedRows) /\ Len(section3) = Len(extraRows)
        /\ \A i \in 1..Len(extraRows) : section3[i].resort = extraRows[i].resort
    BY <2>3, FlaggedFacts
  <2> HIDE DEF section3
  <2>5. \A i \in 1..Len(section3) : section3[i] \in Of(FlaggedRows)
    BY <2>3, <2>4, SMTT(40) DEF Of
  <2>6. \A i \in 1..Len(section3) : section3[i] \in Of(Listed)
    BY <1>3, <2>5
  <2>7. QED
    BY <2>4, <2>6, InSeq
<1>18. all \in Seq(Of(Listed))
  <2> HIDE DEF some, section3
  <2>1. some \o section3 \in Seq(Of(Listed))
    BY <1>16, <1>17
  <2>2. QED
    BY <1>2, <2>1, TakeFacts
<1>19. Led(all)
  <2>1. Led(firsts)
    <3> DEFINE S1 == {i \in DOMAIN results : Rank(results, i) = 1}
    <3>1. firsts = At(results, S1)
      BY DEF Firsts
    <3> HIDE DEF S1, firsts
    <3>2. QED
      BY <3>1, LedAt
  <2>2. Led(newcomers)
    <3> HIDE DEF newcomers
    <3>1. QED
      BY <1>12, FlaggedLast DEF Led
  <2>3. Led(F)
    <3> HIDE DEF firsts, newcomers
    <3>1. \A a \in 1..Len(firsts), b \in 1..Len(newcomers) : Leads(firsts[a], newcomers[b])
      BY <1>12, FlaggedLast
    <3>2. QED
      BY <1>9, <1>11, <2>1, <2>2, <3>1, LedJoin
  <2>4. Led(section1)
    <3> HIDE DEF F
    <3>1. QED
      BY <1>2, <1>13, <2>3, LedTake
  <2>5. Led(section2)
    <3> HIDE DEF S2
    <3>1. QED
      BY LedAt
  <2>6. \A a \in 1..Len(firsts), b \in 1..Len(section2) : Leads(firsts[a], section2[b])
    <3> DEFINE S1 == {i \in DOMAIN results : Rank(results, i) = 1}
    <3>1. firsts = At(results, S1)
      BY DEF Firsts
    <3>2. \A i, j \in 1..Len(results) : i \in S1 /\ j \in S2 => Rank(results, i) < Rank(results, j)
      <4>1. \A i, j \in 1..Len(results) : i \in S1 /\ j \in S2 => Rank(results, i) = 1 /\ Rank(results, j) > 1
        OBVIOUS
      <4>2. \A j \in 1..Len(results) : Rank(results, j) \in Nat
        BY RankType
      <4>3. QED
        BY <4>1, <4>2
    <3> HIDE DEF S1, S2, firsts
    <3>3. QED
      BY <3>1, <3>2, LedByRank
  <2>7. \A a \in 1..Len(newcomers), b \in 1..Len(section2) : Leads(newcomers[a], section2[b])
    <3>1. \A b \in 1..Len(section2) : section2[b].resort \in ResortsOf(results)
      <4>1. \A b \in 1..Len(section2) : \E i \in 1..Len(results) : section2[b] = results[i]
        <5> SUFFICES ASSUME NEW b \in 1..Len(section2) PROVE \E i \in 1..Len(results) : section2[b] = results[i]
          OBVIOUS
        <5>1. section2 = At(results, S2)
          OBVIOUS
        <5> HIDE DEF S2, section2
        <5>2. QED
          BY <5>1, AtFacts
      <4>2. ResortsOf(results) = {results[i].resort : i \in 1..Len(results)}
        BY ResortsOfType
      <4> HIDE DEF section2
      <4>3. QED
        BY <4>1, <4>2
    <3> HIDE DEF newcomers, section2
    <3>2. QED
      BY <1>12, <3>1 DEF Leads
  <2>8. \A a \in 1..Len(section1), b \in 1..Len(section2) : Leads(section1[a], section2[b])
    <3> SUFFICES ASSUME NEW a \in 1..Len(section1), NEW b \in 1..Len(section2)
                 PROVE  Leads(section1[a], section2[b])
      OBVIOUS
    <3>1. a \in 1..Len(F) /\ section1[a] = F[a]
      <4> HIDE DEF F
      <4>1. QED
        BY <1>2, <1>13, TakeFacts
    <3> HIDE DEF firsts, newcomers, section1, section2
    <3>2. \/ a \in 1..Len(firsts) /\ F[a] = firsts[a]
          \/ \E c \in 1..Len(newcomers) : F[a] = newcomers[c]
      <4>1. /\ Len(firsts) \in Nat /\ a \in Nat
            /\ \A c \in 1..Len(firsts) : F[c] = firsts[c]
            /\ \A c \in 1..Len(newcomers) : F[Len(firsts) + c] = newcomers[c]
            /\ a \in 1..Len(firsts) \/ (a - Len(firsts)) \in 1..Len(newcomers)
        BY <1>9, <1>11, <3>1, JoinFacts
      <4>2. a = Len(firsts) + (a - Len(firsts))
        BY <4>1
      <4>3. QED
        BY <4>1, <4>2
    <3>3. QED
      BY <2>6, <2>7, <3>1, <3>2
  <2>9. Led(some)
    <3> HIDE DEF section1, section2
    <3>1. Led(section1 \o section2) /\ section1 \o section2 \in Seq(Of(Listed))
      BY <1>14, <1>15, <2>4, <2>5, <2>8, LedJoin
    <3>2. QED
      BY <1>2, <3>1, LedTake
  <2>10. Led(section3) /\ \A a \in 1..Len(some), b \in 1..Len(section3) : Leads(some[a], section3[b])
    <3> HIDE DEF section3, some
    <3>1. QED
      BY <1>17, FlaggedLast DEF Led
  <2>11. QED
    <3> HIDE DEF section3, some
    <3>1. Led(some \o section3) /\ some \o section3 \in Seq(Of(Listed))
      BY <1>16, <1>17, <2>9, <2>10, LedJoin
    <3>2. QED
      BY <1>2, <3>1, LedTake
<1>20. ASSUME ask.overBudget,
              \A i \in 1..Len(evaluated) : WithinBudget(evaluated[i]) => evaluated[i].resort \in ResortsOf(results)
       PROVE  ResortsOf(all) = ResortsOf(evaluated) \/ Cardinality(ResortsOf(all)) = TopN
  <2>1. ASSUME NEW i \in 1..Len(evaluated)
        PROVE  \/ evaluated[i].resort \in ResortsOf(results)
               \/ \E a \in 1..Len(fresh) : fresh[a].resort = evaluated[i].resort
    <3> SUFFICES ASSUME evaluated[i].resort \notin ResortsOf(results)
                 PROVE  \E a \in 1..Len(fresh) : fresh[a].resort = evaluated[i].resort
      OBVIOUS
    <3>1. ~WithinBudget(evaluated[i])
      BY <1>20
    <3>2. PICK b \in 1..Len(byPrice) : byPrice[b] = evaluated[i]
      BY <1>5 DEF SameRows
    <3>3. PICK c \in 1..Len(priciest) : priciest[c] = evaluated[i]
      <4> DEFINE W == {k \in DOMAIN byPrice : ask.overBudget /\ ~WithinBudget(byPrice[k])}
      <4>1. b \in W /\ priciest = At(byPrice, W)
        BY <1>6, <1>20, <3>1, <3>2
      <4> HIDE DEF byPrice, priciest, W
      <4>2. QED
        BY <1>6, <3>2, <4>1, AtFacts
    <3>4. PICK d \in 1..Len(unseen) : unseen[d] = evaluated[i]
      <4> DEFINE W == {k \in DOMAIN priciest : priciest[k].resort \notin ResortsOf(results)}
      <4>0. unseen = At(priciest, W)
        OBVIOUS
      <4> HIDE DEF priciest, unseen
      <4>1. c \in W /\ unseen = At(priciest, W)
        BY <1>7, <3>3, <4>0
      <4> HIDE DEF W
      <4>2. \A k \in 1..Len(priciest) :
              k \in W => \E d \in 1..Len(At(priciest, W)) : At(priciest, W)[d] = priciest[k]
        BY <1>7, AtHas
      <4>3. QED
        BY <3>3, <4>1, <4>2
    <3> HIDE DEF unseen, New
    <3>5. evaluated[i].resort \in ResortsOf(unseen)
      BY <1>8, <3>4, ResortsOfType
    <3>6. ResortsOf(fresh) = {fresh[a].resort : a \in 1..Len(fresh)}
      BY <1>10, ResortsOfType
    <3>7. QED
      BY <1>10, <3>5, <3>6
  <2>2. /\ Len(firsts) \in Nat /\ Len(newcomers) \in Nat /\ Len(F) = Len(firsts) + Len(newcomers)
        /\ \A a \in 1..Len(firsts) : F[a] = firsts[a]
        /\ \A a \in 1..Len(newcomers) : F[Len(firsts) + a] = newcomers[a]
        /\ \A a \in 1..Len(F) : a \in 1..Len(firsts) \/ (a - Len(firsts)) \in 1..Len(newcomers)
    <3>1. F = firsts \o newcomers
      OBVIOUS
    <3> HIDE DEF firsts, newcomers, F
    <3>2. Len(firsts) \in Nat /\ Len(newcomers) \in Nat
      BY <1>9, <1>11
    <3>5. /\ firsts \o newcomers \in Seq(Of(Fitting) \cup Of(FlaggedRows))
          /\ Len(firsts \o newcomers) = Len(firsts) + Len(newcomers)
          /\ \A a \in 1..Len(firsts) : (firsts \o newcomers)[a] = firsts[a]
          /\ \A a \in 1..Len(newcomers) : (firsts \o newcomers)[Len(firsts) + a] = newcomers[a]
          /\ \A a \in 1..Len(firsts \o newcomers) : a \in 1..Len(firsts) \/ (a - Len(firsts)) \in 1..Len(newcomers)
      BY <1>9, <1>11, JoinFacts
    <3>3. /\ F \in Seq(Of(Fitting) \cup Of(FlaggedRows))
          /\ Len(F) = Len(firsts) + Len(newcomers)
          /\ \A a \in 1..Len(firsts) : F[a] = firsts[a]
          /\ \A a \in 1..Len(newcomers) : F[Len(firsts) + a] = newcomers[a]
          /\ \A a \in 1..Len(F) : a \in 1..Len(firsts) \/ (a - Len(firsts)) \in 1..Len(newcomers)
      BY <3>1, <3>5
    <3>4. QED
      BY <3>2, <3>3
  <2>3. ResortsOf(firsts) = {firsts[a].resort : a \in 1..Len(firsts)}
    <3> HIDE DEF firsts
    <3>1. QED
      BY <1>9, ResortsOfType
  <2> HIDE DEF firsts, newcomers, F, New
  <2>4. ASSUME NEW a \in 1..Len(firsts) PROVE a \in 1..Len(F) /\ F[a].resort = firsts[a].resort
    BY <2>2
  <2>5. ASSUME NEW a \in 1..Len(newcomers)
        PROVE  Len(firsts) + a \in 1..Len(F) /\ F[Len(firsts) + a].resort = fresh[a].resort
    BY <1>11, <2>2
  <2>6. ASSUME NEW i \in 1..Len(evaluated) PROVE \E a \in 1..Len(F) : F[a].resort = evaluated[i].resort
    <3>1. CASE evaluated[i].resort \in ResortsOf(results)
      <4>1. PICK a \in 1..Len(firsts) : firsts[a].resort = evaluated[i].resort
        BY <1>9, <2>3, <3>1
      <4>2. QED
        BY <2>4, <4>1
    <3>2. CASE evaluated[i].resort \notin ResortsOf(results)
      <4>1. PICK a \in 1..Len(fresh) : fresh[a].resort = evaluated[i].resort
        BY <2>1, <3>2
      <4>2. QED
        BY <1>11, <2>5, <4>1
    <3>3. QED
      BY <3>1, <3>2
  <2>7. ResortsOf(F) = ResortsOf(evaluated)
    <3>1. ResortsOf(F) = {F[a].resort : a \in 1..Len(F)}
      BY <1>13, ResortsOfType
    <3>2. ResortsOf(evaluated) = {evaluated[a].resort : a \in 1..Len(evaluated)}
      BY ResortsOfType
    <3>3. ResortsOf(evaluated) \subseteq ResortsOf(F)
      BY <2>6, <3>1, <3>2
    <3>4. ResortsOf(F) \subseteq ResortsOf(evaluated)
      <4>1. \A a \in 1..Len(F) : F[a] \in Of(Listed)
        BY <1>13
      <4>2. QED
        BY <3>1, <4>1 DEF Of
    <3>5. QED
      BY <3>3, <3>4
  <2>8. Distinct(F)
    <3>1. ASSUME NEW a \in 1..Len(F), NEW b \in 1..Len(F), F[a].resort = F[b].resort, a < b PROVE FALSE
      <4>1. CASE b \in 1..Len(firsts)
        <5>1. a \in 1..Len(firsts) /\ b \in 1..Len(firsts) /\ firsts[a].resort = firsts[b].resort
          BY <2>2, <3>1, <4>1
        <5>2. a = b
          BY <1>9, <5>1 DEF Distinct
        <5>3. QED
          BY <2>2, <3>1, <5>2
      <4>2. CASE b \notin 1..Len(firsts)
        <5>1. PICK d \in 1..Len(newcomers) : b = Len(firsts) + d
          <6>1. (b - Len(firsts)) \in 1..Len(newcomers) /\ b = Len(firsts) + (b - Len(firsts))
            BY <2>2, <4>2
          <6>2. QED
            BY <6>1
        <5>2. CASE a \in 1..Len(firsts)
          <6>1. firsts[a].resort = newcomers[d].resort
            BY <2>2, <3>1, <5>1, <5>2
          <6>2. firsts[a].resort \in ResortsOf(results)
            BY <1>9, <2>3, <5>2
          <6>3. QED
            BY <1>12, <6>1, <6>2
        <5>3. CASE a \notin 1..Len(firsts)
          <6>1. PICK c \in 1..Len(newcomers) : a = Len(firsts) + c
            <7>1. (a - Len(firsts)) \in 1..Len(newcomers) /\ a = Len(firsts) + (a - Len(firsts))
              BY <2>2, <5>3
            <7>2. QED
              BY <7>1
          <6>2. fresh[c].resort = fresh[d].resort /\ c \in 1..Len(fresh) /\ d \in 1..Len(fresh)
            BY <1>11, <2>5, <3>1, <5>1, <6>1
          <6>3. c = d
            BY <1>10, <6>2 DEF Distinct
          <6>4. QED
            BY <2>2, <3>1, <5>1, <6>1, <6>3
        <5>4. QED
          BY <5>2, <5>3
      <4>3. QED
        BY <4>1, <4>2
    <3>2. \A a, b \in 1..Len(F) : a < b \/ b < a \/ a = b
      BY <2>2
    <3>3. QED
      BY <3>1, <3>2 DEF Distinct
  <2>9. ResortsOf(all) \subseteq ResortsOf(F)
    <3> HIDE DEF all
    <3>1. ResortsOf(all) = {all[a].resort : a \in 1..Len(all)}
      BY <1>18, ResortsOfType
    <3>2. \A a \in 1..Len(all) : all[a] \in Of(Listed)
      BY <1>18
    <3>3. QED
      BY <2>7, <3>1, <3>2 DEF Of
  <2> HIDE DEF section2, section3
  <2>10. ResortsOf(all) = ResortsOf(F) \/ Cardinality(ResortsOf(all)) = TopN
    <3>1. all = Take(Take(Take(F, TopN) \o section2, TopN) \o section3, TopN)
      OBVIOUS
    <3> HIDE DEF all
    <3>2. QED
      BY <1>2, <1>13, <1>15, <1>17, <2>8, <2>9, <3>1, FirstComeFirst
  <2>11. QED
    BY <2>7, <2>10
<1> HIDE DEF all
<1>21. PICK shown : shown = CoverageFirst(results)
  OBVIOUS
<1>22. /\ shown \in Seq(Of(Listed)) /\ Len(shown) = Len(all)
       /\ ResortsOf(shown) = ResortsOf(all)
       /\ Led(all) => Led(shown)
  BY <1>1, <1>4, <1>18, <1>21, WithAlternatives
<1>23. QED
  BY <1>19, <1>20, <1>21, <1>22

-----------------------------------------------------------------------------

\* cap_per_resort keeps the first row of a resort, and so some row.
LEMMA CapNonEmpty ==
  ASSUME NEW T, NEW seq \in Seq(T), NEW n \in Nat \ {0}, NEW pad \in BOOLEAN, Len(seq) # 0
  PROVE  Len(CapPerResort(seq, n, pad)) # 0
<1> DEFINE S == {i \in DOMAIN seq : Allowed(Rank(seq, i))}
<1>1. PICK j \in 1..Len(seq) : Rank(seq, j) = 1
  <2>1. 1 \in 1..Len(seq)
    OBVIOUS
  <2>2. QED
    BY <2>1, FirstRow
<1>2. j \in S
  <2>1. MaxPerResort = 0 \/ 1 <= MaxPerResort
    BY SearchAssumption
  <2>2. Allowed(Rank(seq, j))
    BY <1>1, <2>1 DEF Allowed
  <2>3. j \in DOMAIN seq
    OBVIOUS
  <2>4. QED
    BY <2>2, <2>3
<1>3. PICK leftovers \in Seq(T) : leftovers = At(seq, {i \in DOMAIN seq : ~Allowed(Rank(seq, i))})
  BY AtFacts
<1>4. PICK picked : picked = At(seq, S)
  OBVIOUS
<1>5. PICK both : both = IF pad \/ Cardinality(ResortsOf(seq)) < 2 THEN picked \o leftovers ELSE picked
  OBVIOUS
<1>6. CapPerResort(seq, n, pad) = Take(both, n)
  BY <1>3, <1>4, <1>5 DEF CapPerResort
<1> HIDE DEF S
<1>7. picked \in Seq(T) /\ \E a \in 1..Len(picked) : picked[a] = seq[j]
  BY <1>2, <1>4, AtFacts
<1>8. both \in Seq(T) /\ Len(both) # 0
  BY <1>3, <1>5, <1>7
<1>9. Len(Take(both, n)) = IF n <= Len(both) THEN n ELSE Len(both)
  BY <1>8, TakeFacts
<1>10. QED
  BY <1>6, <1>8, <1>9

\* No resort was pushed out, unless there are too many.
Represented(seq) == ResortsOf(seq) = ResortsOf(evaluated) \/ Cardinality(ResortsOf(seq)) = TopN

\* Whatever the case, the rows that are assembled are listed as they should
\* be, the best of each resort leads, and no resort was pushed out.
LEMMA AssembledRows ==
  ASSUME AskType, evaluated \in Seq(Offers)
  PROVE  /\ Assembled \in Seq(Listed)
         /\ Led(Assembled)
         /\ ask.overBudget /\ (\E i \in 1..Len(evaluated) : WithinBudget(evaluated[i])) => Represented(Assembled)
<1> DEFINE W == {i \in DOMAIN evaluated : WithinBudget(evaluated[i])}
           fits == At(evaluated, W)
           results == BestFirst(fits)
<1>1. Assembled =
        CASE results = <<>> /\ ask.overBudget ->
               Take(Flagged(CapPerResort(CheapestFirst(evaluated), Max({TopN, 3}), FALSE)), TopN)
          [] results # <<>> \/ ~ask.overBudget ->
               IF Cardinality(ResortsOf(evaluated)) >= 2
                 THEN CoverageFirst(results) ELSE CapPerResort(results, TopN, FALSE)
  BY DEF Assembled
<1>2. /\ Of(Fitting) \subseteq Listed /\ FlaggedRows \subseteq Listed /\ Of(Listed) \subseteq Listed
      /\ Of(Fitting) \subseteq Fitting /\ Of(Fitting) \subseteq RowType /\ Dear \subseteq RowType
      /\ Of(Fitting) \subseteq Of(Listed)
  BY KindsOfRows DEF Of
<1>3. TopN \in Nat /\ ask.overBudget \in BOOLEAN
  BY SearchAssumption DEF AskType
<1>4. \A i \in 1..Len(evaluated) : evaluated[i] \in Offers /\ evaluated[i].resort \in ResortsOf(evaluated)
  BY DEF ResortsOf
<1>5. \A i \in 1..Len(evaluated) : i \in W <=> WithinBudget(evaluated[i])
  OBVIOUS
<1> HIDE DEF W
<1>6. fits \in Seq(Of(Fitting))
  <2>1. \A i \in 1..Len(evaluated) : i \in W => evaluated[i] \in Of(Fitting)
    BY <1>4, <1>5 DEF Of, Fitting
  <2>2. QED
    BY <2>1, AtIn
<1>7. \A i \in 1..Len(evaluated) : i \in W => \E a \in 1..Len(fits) : fits[a] = evaluated[i]
  BY AtFacts
<1> HIDE DEF fits
<1>8. SameRows(results, fits, Of(Fitting))
  BY <1>2, <1>6, BestFirstFacts
<1>9. Led(results)
  <2>1. fits \in Seq(Fitting)
    BY <1>2, <1>6, InSeq
  <2>2. QED
    BY <2>1, LedByScore
<1> HIDE DEF results
<1>10. results \in Seq(Of(Fitting)) /\ Len(results) = Len(fits)
  BY <1>8 DEF SameRows
<1>11. \A i \in 1..Len(evaluated) :
         WithinBudget(evaluated[i]) => \E a \in 1..Len(results) : results[a] = evaluated[i]
  BY <1>5, <1>7, <1>8 DEF SameRows
<1>12. CASE results = <<>> /\ ask.overBudget
  <2>1. \A i \in 1..Len(evaluated) : ~WithinBudget(evaluated[i])
    BY <1>11, <1>12
  <2>2. evaluated \in Seq(Dear)
    <3>1. \A i \in 1..Len(evaluated) : evaluated[i] \in Dear
      BY <1>4, <2>1 DEF Dear
    <3>2. QED
      BY <3>1, InSeq
  <2>3. CheapestFirst(evaluated) \in Seq(Dear)
    BY <1>2, <2>2, CheapestFirstFacts DEF SameRows
  <2>4. Max({TopN, 3}) \in Nat
    <3>1. 3 \in Int /\ TopN \in Int
      BY <1>3
    <3>2. QED
      BY <1>3, <3>1, MaxOfTwo
  <2>5. PICK cap \in Seq(Dear) : cap = CapPerResort(CheapestFirst(evaluated), Max({TopN, 3}), FALSE)
    BY <2>3, <2>4, CapFacts
  <2>6. Flagged(cap) \in Seq(FlaggedRows)
    BY FlaggedFacts
  <2>7. Take(Flagged(cap), TopN) \in Seq(FlaggedRows)
    BY <1>3, <2>6, TakeFacts
  <2>8. Assembled \in Seq(FlaggedRows)
    BY <1>1, <1>12, <2>5, <2>7
  <2>9. Led(Assembled)
    BY <2>8, FlaggedLast DEF Led
  <2>10. Assembled \in Seq(Listed)
    BY <1>2, <2>8, InSeq
  <2>11. QED
    BY <2>1, <2>9, <2>10
<1>13. CASE ~(results = <<>> /\ ask.overBudget) /\ Cardinality(ResortsOf(evaluated)) >= 2
  <2>1. Assembled = CoverageFirst(results)
    BY <1>1, <1>13
  <2>2. \A i \in 1..Len(evaluated) : WithinBudget(evaluated[i]) => evaluated[i].resort \in ResortsOf(results)
    <3>1. ResortsOf(results) = {results[a].resort : a \in 1..Len(results)}
      BY <1>10, ResortsOfType
    <3>2. QED
      BY <1>11, <3>1
  <2>3. /\ CoverageFirst(results) \in Seq(Of(Listed))
        /\ Led(CoverageFirst(results))
        /\ (/\ ask.overBudget
            /\ \A i \in 1..Len(evaluated) : WithinBudget(evaluated[i]) =>
                                              evaluated[i].resort \in ResortsOf(results)) =>
             \/ ResortsOf(CoverageFirst(results)) = ResortsOf(evaluated)
             \/ Cardinality(ResortsOf(CoverageFirst(results))) = TopN
    BY <1>9, <1>10, CoverageFirstRows
  <2>4. Assembled \in Seq(Listed)
    BY <1>2, <2>1, <2>3, InSeq
  <2>5. QED
    BY <2>1, <2>2, <2>3, <2>4 DEF Represented
<1>14. CASE ~(results = <<>> /\ ask.overBudget) /\ ~(Cardinality(ResortsOf(evaluated)) >= 2)
  <2>1. Assembled = CapPerResort(results, TopN, FALSE)
    BY <1>1, <1>14
  <2>2. Assembled \in Seq(Of(Fitting))
    BY <1>3, <1>10, <2>1, CapFacts
  <2>3. Assembled \in Seq(Listed)
    BY <1>2, <2>2, InSeq
  <2>4. Led(Assembled)
    BY <1>3, <1>9, <1>10, <2>1, LedCap
  <2>5. ASSUME NEW i \in 1..Len(evaluated), WithinBudget(evaluated[i]) PROVE Represented(Assembled)
    <3>1. ResortsOf(Assembled) = {Assembled[a].resort : a \in 1..Len(Assembled)}
      BY <2>2, ResortsOfType
    <3>2. CASE TopN = 0
      <4>1. Len(Assembled) = 0
        <5>1. PICK n : n = Len(Assembled)
          OBVIOUS
        <5>2. \A both \in Seq(Of(Fitting)) : Len(Take(both, 0)) = 0
          <6>1. 0 \in Nat
            OBVIOUS
          <6>2. QED
            BY <6>1, TakeFacts
        <5>3. PICK both \in Seq(Of(Fitting)) : CapPerResort(results, TopN, FALSE) = Take(both, TopN)
          <6>1. PICK picked \in Seq(Of(Fitting)) : picked = At(results, {k \in DOMAIN results : Allowed(Rank(results, k))})
            BY <1>10, AtFacts
          <6>2. PICK leftovers \in Seq(Of(Fitting)) : leftovers = At(results, {k \in DOMAIN results : ~Allowed(Rank(results, k))})
            BY <1>10, AtFacts
          <6>3. CapPerResort(results, TopN, FALSE) =
                  Take(IF FALSE \/ Cardinality(ResortsOf(results)) < 2 THEN picked \o leftovers ELSE picked, TopN)
            BY <6>1, <6>2 DEF CapPerResort
          <6>4. (IF FALSE \/ Cardinality(ResortsOf(results)) < 2 THEN picked \o leftovers ELSE picked) \in Seq(Of(Fitting))
            OBVIOUS
          <6>5. QED
            BY <6>3, <6>4
        <5>4. QED
          BY <2>1, <3>2, <5>2, <5>3
      <4>2. ResortsOf(Assembled) = {}
        BY <3>1, <4>1
      <4>3. QED
        BY <3>2, <4>2, FS_EmptySet DEF Represented
    <3>3. CASE TopN # 0
      <4>1. Len(Assembled) # 0
        <5>1. Len(results) # 0
          BY <1>10, <1>11, <2>5
        <5>2. QED
          BY <1>3, <1>10, <2>1, <3>3, <5>1, CapNonEmpty
      <4>2. 1 \in 1..Len(Assembled)
        BY <2>2, <4>1
      <4>3. \A a \in 1..Len(Assembled) : Assembled[a].resort \in ResortsOf(evaluated)
        <5>1. \A a \in 1..Len(Assembled) : Assembled[a] \in Of(Fitting)
          BY <2>2
        <5>2. QED
          BY <5>1 DEF Of
      <4>4. PICK r : ResortsOf(evaluated) = {r}
        <5>1. IsFiniteSet(ResortsOf(evaluated))
          <6> DEFINE f == [k \in 1..Len(evaluated) |-> evaluated[k].resort]
          <6>1. ResortsOf(evaluated) = {evaluated[k].resort : k \in 1..Len(evaluated)}
            BY ResortsOfType
          <6>2. f \in Surjection(1..Len(evaluated), ResortsOf(evaluated))
            BY <6>1 DEF Surjection
          <6>3. Len(evaluated) \in Nat
            OBVIOUS
          <6> HIDE DEF f
          <6>4. ExistsSurjection(1..Len(evaluated), ResortsOf(evaluated))
            BY <6>2 DEF ExistsSurjection
          <6>5. QED
            BY <6>3, <6>4, FS_NatSurjection
        <5>2. ResortsOf(evaluated) # {}
          BY <4>2, <4>3
        <5>3. Cardinality(ResortsOf(evaluated)) \in Nat /\ Cardinality(ResortsOf(evaluated)) # 0
          BY <5>1, <5>2, FS_CardinalityType, FS_EmptySet
        <5>4. Cardinality(ResortsOf(evaluated)) = 1
          BY <1>14, <5>3
        <5>5. QED
          BY <5>1, <5>4, FS_Singleton
      <4>5. ResortsOf(Assembled) = {r}
        BY <3>1, <4>2, <4>3, <4>4
      <4>6. QED
        BY <4>4, <4>5 DEF Represented
    <3>4. QED
      BY <3>2, <3>3
  <2>6. QED
    BY <2>3, <2>4, <2>5
<1>15. QED
  BY <1>12, <1>13, <1>14

-----------------------------------------------------------------------------

\* finalize.

LEMMA NeedsType ==
  ASSUME rows \in Seq(Listed)
  PROVE  Needs \in Seq(RowType)
<1>1. PICK stale \in Seq(Listed) : stale = At(rows, {i \in DOMAIN rows : ~IsLive(rows[i])})
  BY AtFacts
<1>2. Take(stale, RepriceN) \in Seq(Listed)
  BY TakeFacts, SearchAssumption
<1>3. \A i \in 1..Len(Take(stale, RepriceN)) : Take(stale, RepriceN)[i] \in RowType
  BY <1>2 DEF Listed, Truthful
<1>4. QED
  BY <1>1, <1>2, <1>3, InSeq DEF Needs

\* Rows priced again are flagged again, and stay where they are.
LEMMA RefreshedFacts ==
  ASSUME AskType, rows \in Seq(Listed), NEW answers \in Answers(Needs)
  PROVE  /\ Refreshed(answers) \in Seq(Truthful)
         /\ Len(Refreshed(answers)) = Len(rows)
         /\ \A i \in 1..Len(rows) : /\ Pair(Refreshed(answers)[i]) = Pair(rows[i])
                                    /\ Refreshed(answers)[i].resort = rows[i].resort
<1>1. PICK fresh : fresh = Refreshed(answers)
  OBVIOUS
<1>2. Needs \in Seq(RowType)
  BY NeedsType
<1>3. ASSUME NEW row \in RowType
      PROVE  LET again == [row EXCEPT !.within = WithinBudget(row)]
             IN  again \in Truthful /\ Pair(again) = Pair(row) /\ again.resort = row.resort
  <2>1. PICK flag \in BOOLEAN : flag = WithinBudget(row)
    BY RowFacts
  <2>2. PICK again : again = [row EXCEPT !.within = flag]
    OBVIOUS
  <2>3. /\ again \in RowType /\ again.within = flag /\ again.resort = row.resort /\ again.date = row.date
        /\ again.flight = row.flight /\ again.lodging = row.lodging
    BY <2>2 DEF RowType
  <2>4. WithinBudget(again) = WithinBudget(row)
    BY <2>3 DEF WithinBudget, Total
  <2>5. again \in Truthful
    BY <2>1, <2>3, <2>4 DEF Truthful
  <2>6. QED
    BY <2>1, <2>2, <2>3, <2>5 DEF Pair
<1>4. ASSUME NEW i \in 1..Len(rows)
      PROVE  fresh[i] \in Truthful /\ Pair(fresh[i]) = Pair(rows[i]) /\ fresh[i].resort = rows[i].resort
  <2>1. rows[i] \in Truthful /\ rows[i] \in RowType
    BY DEF Listed, Truthful
  <2>2. CASE Pair(rows[i]) \in PairsOf(Needs)
    <3>1. PICK again : again = Repriced(rows[i], answers)
      OBVIOUS
    <3>2. fresh[i] = [again EXCEPT !.within = WithinBudget(again)]
      BY <1>1, <2>2, <3>1 DEF Refreshed
    <3>3. again \in RowType /\ Pair(again) = Pair(rows[i]) /\ again.resort = rows[i].resort
      BY <1>2, <2>1, <2>2, <3>1, RepricedFacts
    <3>4. QED
      BY <1>3, <3>2, <3>3
  <2>3. CASE Pair(rows[i]) \notin PairsOf(Needs)
    BY <1>1, <2>1, <2>3 DEF Refreshed
  <2>4. QED
    BY <2>2, <2>3
<1>5. DOMAIN fresh = 1..Len(rows) /\ Len(rows) \in Nat /\ fresh = [i \in 1..Len(rows) |-> fresh[i]]
  BY <1>1 DEF Refreshed
<1>6. fresh \in [1..Len(rows) -> Truthful]
  BY <1>4, <1>5
<1>7. fresh \in Seq(Truthful) /\ Len(fresh) = Len(rows)
  BY <1>5, <1>6
<1>8. QED
  BY <1>1, <1>4, <1>7

-----------------------------------------------------------------------------

\* The rows of one resort, sorted twice.
LEMMA RowsOfFacts ==
  ASSUME AskType, NEW seq \in Seq(Truthful), NEW i \in 1..Len(seq),
         NEW mine, mine = RowsOf(seq, seq[i].resort)
  PROVE  /\ mine \in Seq({row \in Truthful : row.resort = seq[i].resort /\ Pair(row) \in PairsOf(seq)})
         /\ Rank(seq, i) \in 1..Len(mine)
         /\ Led(mine)
<1> DEFINE r == seq[i].resort
           S == {j \in DOMAIN seq : seq[j].resort = r}
           sub == At(seq, S)
           U == {row \in Truthful : row.resort = r /\ Pair(row) \in PairsOf(seq)}
           byScore == BestFirst(sub)
           key == [k \in DOMAIN byScore |-> <<OneIf(~byScore[k].within)>>]
<1>1. mine = Sorted(byScore, key)
  BY DEF RowsOf
<1>2. U \subseteq RowType
  BY DEF Truthful
<1>3. \A j \in 1..Len(seq) : j \in S => seq[j] \in U
  <2>1. \A j \in 1..Len(seq) : seq[j] \in Truthful /\ Pair(seq[j]) \in PairsOf(seq)
    BY DEF PairsOf
  <2>2. QED
    BY <2>1
<1>4. S = {j \in 1..Len(seq) : seq[j].resort = seq[i].resort} /\ S \subseteq 1..Len(seq)
  OBVIOUS
<1>5. Rank(seq, i) \in Nat \ {0} /\ Rank(seq, i) <= Cardinality(S)
  BY <1>4, RankFacts
<1> HIDE DEF S, U
<1>6. sub \in Seq(U)
  BY <1>3, AtIn
<1>7. Cardinality(S) = Len(sub)
  BY <1>4, AtLength
<1> HIDE DEF sub
<1>8. SameRows(byScore, sub, U)
  BY <1>2, <1>6, BestFirstFacts
<1>9. byScore \in Seq(U) /\ Len(byScore) = Len(sub)
  BY <1>8 DEF SameRows
<1>10. \A a, b \in 1..Len(byScore) : a < b => Score(byScore[b]) <= Score(byScore[a])
  BY <1>2, <1>6, <1>9, BestFirstOrder
<1> HIDE DEF byScore
<1>11. /\ key \in [DOMAIN byScore -> [1..1 -> Int]]
       /\ \A k \in 1..Len(byScore) : key[k] = IF byScore[k].within THEN <<0>> ELSE <<1>>
  BY <1>9, OneNumber DEF OneIf
<1> HIDE DEF key
<1>12. PICK p : Rearranged(mine, p, byScore, U, key)
  BY <1>1, <1>9, <1>11, SortedIsRearranged
<1>13. mine \in Seq(U) /\ Len(mine) = Len(byScore)
  BY <1>12 DEF Rearranged
<1>14. Rank(seq, i) \in 1..Len(mine)
  <2>1. PICK n \in Nat : n = Len(mine) /\ n = Cardinality(S)
    BY <1>7, <1>9, <1>13
  <2>2. Rank(seq, i) \in 1..n
    BY <1>5, <2>1
  <2>3. QED
    BY <2>1, <2>2
<1>15. ASSUME NEW a \in 1..Len(byScore), NEW b \in 1..Len(byScore), a < b
       PROVE  Leads(mine[a], mine[b])
  <2>1. /\ p[a] \in 1..Len(byScore) /\ p[b] \in 1..Len(byScore) /\ GoesBefore(key, p[a], p[b])
        /\ mine[a] = byScore[p[a]] /\ mine[b] = byScore[p[b]]
    BY <1>12, <1>15 DEF Rearranged
  <2>2. mine[a] \in U /\ mine[b] \in U
    BY <1>9, <2>1
  <2>3. /\ mine[a] \in RowType /\ mine[a].within = WithinBudget(mine[a])
        /\ mine[b] \in RowType /\ mine[b].within = WithinBudget(mine[b])
    BY <2>2 DEF U, Truthful
  <2>4. SUFFICES ASSUME mine[b].within PROVE mine[a].within /\ Total(mine[a]) <= Total(mine[b])
    BY <2>2 DEF Leads, U
  <2>5. key[p[b]] = <<0>>
    BY <1>11, <2>1, <2>4
  <2>6. key[p[a]] = IF mine[a].within THEN <<0>> ELSE <<1>>
    BY <1>11, <2>1
  <2>7. mine[a].within /\ p[a] < p[b]
    <3>1. ~Before(<<1>>, <<0>>) /\ ~Before(<<0>>, <<0>>) /\ <<1>> # <<0>>
      BY BeforeOne
    <3>2. QED
      BY <2>1, <2>5, <2>6, <3>1 DEF GoesBefore
  <2>8. Score(mine[b]) <= Score(mine[a])
    BY <1>10, <2>1, <2>7
  <2>9. mine[a].resort = mine[b].resort
    BY <2>2 DEF U
  <2>10. QED
    BY <2>3, <2>4, <2>7, <2>8, <2>9, ScoreAndPrice
<1>16. Led(mine)
  BY <1>13, <1>15 DEF Led
<1>17. QED
  BY <1>13, <1>14, <1>16 DEF U

\* There is a row for each slot of a resort, and the slots are filled best
\* first.
LEMMA RerankedFacts ==
  ASSUME AskType, NEW seq \in Seq(Truthful)
  PROVE  /\ Reranked(seq) \in Seq(Truthful)
         /\ Len(Reranked(seq)) = Len(seq)
         /\ \A i \in 1..Len(seq) : /\ Reranked(seq)[i].resort = seq[i].resort
                                   /\ Pair(Reranked(seq)[i]) \in PairsOf(seq)
         /\ Led(Reranked(seq))
<1>1. PICK new : new = Reranked(seq)
  OBVIOUS
<1>2. DOMAIN seq = 1..Len(seq) /\ Len(seq) \in Nat
  OBVIOUS
<1> DEFINE Mine(i) == RowsOf(seq, seq[i].resort)
           OtherDates(i) == IF Rank(seq, i) = 1 THEN UNION {row.alternatives : row \in Range(Mine(i))} ELSE {}
<1>3. \A i \in 1..Len(seq) : new[i] = [Mine(i)[Rank(seq, i)] EXCEPT !.alternatives = OtherDates(i)]
  BY <1>1, <1>2 DEF Reranked
<1>4. ASSUME NEW i \in 1..Len(seq)
      PROVE  /\ Mine(i) \in Seq({row \in Truthful : row.resort = seq[i].resort /\ Pair(row) \in PairsOf(seq)})
             /\ Rank(seq, i) \in 1..Len(Mine(i))
             /\ Led(Mine(i))
  <2>1. PICK mine : mine = RowsOf(seq, seq[i].resort)
    OBVIOUS
  <2>2. QED
    BY <2>1, RowsOfFacts
<1>5. \A i, j \in 1..Len(seq) : seq[i].resort = seq[j].resort => Mine(i) = Mine(j)
  OBVIOUS
<1> HIDE DEF Mine
<1>6. \A i \in 1..Len(seq) : OtherDates(i) \in SUBSET Int
  <2> SUFFICES ASSUME NEW i \in 1..Len(seq) PROVE OtherDates(i) \in SUBSET Int
    OBVIOUS
  <2>1. \A row \in Range(Mine(i)) : row \in RowType
    <3>1. PICK mine \in Seq({x \in Truthful : x.resort = seq[i].resort /\ Pair(x) \in PairsOf(seq)}) : mine = Mine(i)
      BY <1>4
    <3>2. \A a \in DOMAIN mine : mine[a] \in Truthful
      OBVIOUS
    <3>3. \A a \in DOMAIN mine : mine[a] \in RowType
      BY <3>2 DEF Truthful
    <3>4. QED
      BY <3>1, <3>3 DEF Range
  <2>2. \A row \in Range(Mine(i)) : row.alternatives \in SUBSET Int
    BY <2>1 DEF RowType
  <2>3. QED
    BY <2>2
<1> HIDE DEF OtherDates
<1>7. ASSUME NEW row \in Truthful, NEW dates \in SUBSET Int
      PROVE  LET with == [row EXCEPT !.alternatives = dates]
             IN  /\ with \in Truthful /\ with.resort = row.resort /\ Pair(with) = Pair(row)
                 /\ with.within = row.within /\ Total(with) = Total(row)
  BY DEF Truthful, RowType, WithinBudget, Total, Pair
<1>8. ASSUME NEW i \in 1..Len(seq)
      PROVE  /\ Mine(i)[Rank(seq, i)] \in Truthful
             /\ new[i] \in Truthful /\ new[i].resort = seq[i].resort /\ Pair(new[i]) \in PairsOf(seq)
             /\ new[i].within = Mine(i)[Rank(seq, i)].within
             /\ Total(new[i]) = Total(Mine(i)[Rank(seq, i)])
             /\ Mine(i)[Rank(seq, i)].resort = seq[i].resort
  <2>1. PICK row : row = Mine(i)[Rank(seq, i)]
    OBVIOUS
  <2>2. row \in Truthful /\ row.resort = seq[i].resort /\ Pair(row) \in PairsOf(seq)
    <3>1. PICK mine \in Seq({x \in Truthful : x.resort = seq[i].resort /\ Pair(x) \in PairsOf(seq)}) : mine = Mine(i)
      BY <1>4
    <3>2. mine[Rank(seq, i)] \in {x \in Truthful : x.resort = seq[i].resort /\ Pair(x) \in PairsOf(seq)}
      BY <1>4, <3>1
    <3>3. QED
      BY <2>1, <3>1, <3>2
  <2>3. PICK dates \in SUBSET Int : dates = OtherDates(i)
    BY <1>6
  <2>4. new[i] = [row EXCEPT !.alternatives = dates]
    BY <1>3, <2>1, <2>3
  <2>5. /\ new[i] \in Truthful /\ new[i].resort = row.resort /\ Pair(new[i]) = Pair(row)
        /\ new[i].within = row.within /\ Total(new[i]) = Total(row)
    <3>1. LET with == [row EXCEPT !.alternatives = dates]
          IN  /\ with \in Truthful /\ with.resort = row.resort /\ Pair(with) = Pair(row)
              /\ with.within = row.within /\ Total(with) = Total(row)
      BY <1>7, <2>2
    <3>2. QED
      BY <2>4, <3>1
  <2>6. QED
    BY <2>1, <2>2, <2>5
<1>9. new \in Seq(Truthful) /\ Len(new) = Len(seq)
  <2>1. new = [i \in 1..Len(seq) |-> new[i]]
    BY <1>1, <1>2 DEF Reranked
  <2>2. new \in [1..Len(seq) -> Truthful]
    BY <1>8, <2>1
  <2>3. QED
    BY <1>2, <2>2
<1>10. ASSUME NEW i \in 1..Len(seq), NEW j \in 1..Len(seq), i < j PROVE Leads(new[i], new[j])
  <2>1. CASE seq[i].resort = seq[j].resort
    <3>1. PICK mine : mine = Mine(i) /\ mine = Mine(j)
      BY <1>5, <2>1
    <3>2. Rank(seq, i) < Rank(seq, j)
      BY <1>10, <2>1, RankFacts
    <3>3. Rank(seq, i) \in 1..Len(mine) /\ Rank(seq, j) \in 1..Len(mine) /\ Led(mine)
      BY <1>4, <3>1
    <3>4. Leads(mine[Rank(seq, i)], mine[Rank(seq, j)])
      BY <3>2, <3>3 DEF Led
    <3>5. /\ new[i].within = mine[Rank(seq, i)].within /\ Total(new[i]) = Total(mine[Rank(seq, i)])
          /\ mine[Rank(seq, i)].resort = seq[i].resort
      BY <1>8, <3>1
    <3>6. /\ new[j].within = mine[Rank(seq, j)].within /\ Total(new[j]) = Total(mine[Rank(seq, j)])
          /\ mine[Rank(seq, j)].resort = seq[j].resort
      BY <1>8, <3>1
    <3>7. QED
      BY <2>1, <3>4, <3>5, <3>6 DEF Leads
  <2>2. CASE seq[i].resort # seq[j].resort
    <3>1. new[i].resort # new[j].resort
      BY <1>8, <2>2
    <3>2. QED
      BY <3>1 DEF Leads
  <2>3. QED
    BY <2>1, <2>2
<1>11. Led(new)
  BY <1>9, <1>10 DEF Led
<1>12. QED
  BY <1>1, <1>8, <1>9, <1>11

-----------------------------------------------------------------------------

\* Of the rows that lack a live price, those beyond the bound on lookups
\* remain unpriced.
LEMMA UnpricedRows ==
  ASSUME rows \in Seq(Listed), NEW P, P \subseteq PairsOf(rows)
  PROVE  Cardinality(P \ (asked \cup PairsOf(Needs))) <= Max({0, Len(rows) - RepriceN})
<1> DEFINE S == {i \in DOMAIN rows : ~IsLive(rows[i])}
           stale == At(rows, S)
           K == (RepriceN + 1)..Len(stale)
           left == {Pair(stale[k]) : k \in K}
<1>1. RepriceN \in Nat /\ Len(rows) \in Nat
  BY SearchAssumption
<1>2. S \subseteq 1..Len(rows)
  OBVIOUS
<1>3. Needs = Take(stale, RepriceN)
  BY DEF Needs
<1>4. \A i \in 1..Len(rows) : i \in S \/ Pair(rows[i]) \in asked
  <2>1. \A i \in 1..Len(rows) : rows[i] \in Listed
    OBVIOUS
  <2>2. QED
    BY <2>1 DEF Listed, Seen
<1> HIDE DEF S
<1>5. /\ stale \in Seq(Listed)
      /\ \A i \in 1..Len(rows) : i \in S => \E a \in 1..Len(stale) : stale[a] = rows[i]
  BY AtFacts
<1>6. Len(stale) <= Len(rows)
  <2>1. IsFiniteSet(S) /\ Cardinality(S) = Len(stale)
    BY <1>2, AtLength
  <2>2. IsFiniteSet(1..Len(rows)) /\ Cardinality(1..Len(rows)) = Len(rows)
    <3>1. PICK n \in Nat : n = Len(rows)
      BY <1>1
    <3>2. 1 \in Int /\ n \in Int
      OBVIOUS
    <3>3. IsFiniteSet(1..n) /\ Cardinality(1..n) = IF 1 > n THEN 0 ELSE n - 1 + 1
      BY <3>2, FS_Interval
    <3>4. Cardinality(1..n) = n
      BY <3>3
    <3>5. QED
      BY <3>1, <3>3, <3>4
  <2>3. S \in SUBSET (1..Len(rows))
    BY <1>2
  <2>4. Cardinality(S) <= Cardinality(1..Len(rows))
    BY <2>2, <2>3, FS_Subset
  <2>5. QED
    BY <2>1, <2>2, <2>4
<1> HIDE DEF stale
<1>7. P \ (asked \cup PairsOf(Needs)) \subseteq left
  <2> SUFFICES ASSUME NEW pair \in P, pair \notin asked, pair \notin PairsOf(Needs) PROVE pair \in left
    OBVIOUS
  <2>1. PICK i \in 1..Len(rows) : pair = Pair(rows[i])
    BY DEF PairsOf
  <2>2. PICK a \in 1..Len(stale) : stale[a] = rows[i]
    BY <1>4, <1>5, <2>1
  <2>3. RepriceN < a
    <3> SUFFICES ASSUME a <= RepriceN PROVE FALSE
      BY <1>1
    <3>1. Len(Needs) = IF RepriceN <= Len(stale) THEN RepriceN ELSE Len(stale)
      BY <1>1, <1>3, <1>5, TakeFacts
    <3>2. a \in 1..Len(Needs)
      BY <1>1, <3>1
    <3>3. Needs \in Seq(Listed) /\ Needs[a] = stale[a]
      BY <1>1, <1>3, <1>5, <3>2, TakeFacts
    <3>4. QED
      BY <2>1, <2>2, <3>2, <3>3 DEF PairsOf
  <2>4. a \in K
    BY <1>1, <1>5, <2>3
  <2> HIDE DEF K
  <2>5. QED
    BY <2>1, <2>2, <2>4
<1>8. IsFiniteSet(K) /\ Cardinality(K) <= IF RepriceN <= Len(stale) THEN Len(stale) - RepriceN ELSE 0
  <2>1. PICK n \in Nat : n = Len(stale)
    BY <1>5
  <2>2. RepriceN + 1 \in Int /\ n \in Int
    BY <1>1
  <2>3. /\ IsFiniteSet((RepriceN + 1)..n)
        /\ Cardinality((RepriceN + 1)..n) = IF RepriceN + 1 > n THEN 0 ELSE n - (RepriceN + 1) + 1
    BY <2>2, FS_Interval
  <2>4. QED
    BY <1>1, <2>1, <2>3
<1>9. IsFiniteSet(left) /\ Cardinality(left) <= Cardinality(K)
  <2> DEFINE f == [k \in K |-> Pair(stale[k])]
  <2>1. f \in Surjection(K, left)
    BY DEF Surjection
  <2> HIDE DEF f, K, left
  <2>2. QED
    BY <1>8, <2>1, FS_Surjection
<1> HIDE DEF left, K
<1>10. Cardinality(P \ (asked \cup PairsOf(Needs))) <= Cardinality(left)
  <2>1. (P \ (asked \cup PairsOf(Needs))) \in SUBSET left
    BY <1>7
  <2>2. QED
    BY <1>9, <2>1, FS_Subset
<1>11. Max({0, Len(rows) - RepriceN}) = IF 0 <= Len(rows) - RepriceN THEN Len(rows) - RepriceN ELSE 0
  <2>1. 0 \in Int /\ Len(rows) - RepriceN \in Int
    BY <1>1
  <2>2. QED
    BY <2>1, MaxOfTwo
<1>12. Cardinality(P \ (asked \cup PairsOf(Needs))) \in Nat /\ Cardinality(left) \in Nat /\ Cardinality(K) \in Nat
  <2>1. IsFiniteSet(P \ (asked \cup PairsOf(Needs)))
    <3>1. (P \ (asked \cup PairsOf(Needs))) \in SUBSET left
      BY <1>7
    <3>2. QED
      BY <1>9, <3>1, FS_Subset
  <2>2. QED
    BY <1>8, <1>9, <2>1, FS_CardinalityType
<1>13. QED
  <2>1. PICK a \in Nat, b \in Nat, c \in Nat, m \in Nat, n \in Nat :
          /\ a = Cardinality(P \ (asked \cup PairsOf(Needs))) /\ b = Cardinality(left) /\ c = Cardinality(K)
          /\ m = Len(stale) /\ n = Len(rows)
    BY <1>1, <1>5, <1>12
  <2>2. a <= b /\ b <= c /\ m <= n /\ c <= IF RepriceN <= m THEN m - RepriceN ELSE 0
    BY <1>6, <1>8, <1>9, <1>10, <2>1
  <2>3. a <= IF 0 <= n - RepriceN THEN n - RepriceN ELSE 0
    BY <1>1, <2>2
  <2>4. QED
    BY <1>11, <2>1, <2>3

-----------------------------------------------------------------------------

WindowStages == {"route", "loop", "done", "rejected", "raised"}

\* While the window is walked, IInv; after that, what a stage leaves to the
\* next.
SearchInv ==
  /\ pc \in WindowStages \cup {"asked", "estimated", "priced", "assembled", "shown"}
  /\ pc \in WindowStages => IInv
  /\ pc \in WindowStages \cup {"asked"} => out \subseteq Int /\ IsFiniteSet(out)
  /\ day \in Int
  /\ AskType
  /\ evaluated \in Seq(Offers)
  /\ pc = "estimated" => evaluated \in Seq(Estimates)
  /\ pc \notin {"assembled", "shown"} => rows = <<>>
  /\ pc = "assembled" => rows \in Seq(Listed)
  /\ rows \in Seq(Truthful) /\ Led(rows)
  /\ pc \in {"assembled", "shown"} /\ ask.overBudget
       /\ (\E i \in 1..Len(evaluated) : WithinBudget(evaluated[i])) => Represented(rows)
  /\ ShownWasPriced

LEMMA InitSearchInv == SearchInit => SearchInv
<1> SUFFICES ASSUME SearchInit PROVE SearchInv
  OBVIOUS
<1>1. IInv
  BY InitIInv DEF SearchInit
<1>2. pc = "route" /\ out = {} /\ day = 0 /\ evaluated = <<>> /\ rows = <<>>
  BY DEF SearchInit, Init
<1>3. AskType
  BY DEF SearchInit, AskType
<1>4. IsFiniteSet(out)
  BY <1>2, FS_EmptySet
<1>5. Led(rows) /\ rows \in Seq(Truthful) /\ evaluated \in Seq(Offers)
  BY <1>2 DEF Led
<1>6. ShownWasPriced
  BY <1>2 DEF ShownWasPriced, Shown
<1>7. QED
  BY <1>1, <1>2, <1>3, <1>4, <1>5, <1>6 DEF SearchInv, WindowStages

\* A step of the window changes nothing of the search.
LEMMA WindowStep ==
  ASSUME SearchInv, Next, UNCHANGED <<ask, evaluated, asked, rows>>
  PROVE  SearchInv'
<1>1. pc \in {"route", "loop"} /\ pc \in WindowStages
  BY DEF Next, Route, Walk, WindowStages
<1>2. IInv
  BY <1>1 DEF SearchInv
<1>3. IInv'
  BY <1>2, RouteIInv, WalkIInv DEF Next
<1>4. pc' \in WindowStages
  BY <1>3 DEF IInv, WindowStages
<1>5. day' \in Int
  <2>1. CASE Route
    <3>1. Clamped \in Nat
      BY <1>2, ClampedType DEF IInv
    <3>2. QED
      BY <2>1, <3>1 DEF Route
  <2>2. CASE Walk
    <3>1. form.step \in Nat
      BY <1>2, FormTypes DEF IInv
    <3>2. Stride \in Nat
      BY <3>1 DEF Stride
    <3>3. QED
      BY <2>2, <3>2 DEF Walk, SearchInv
  <2>3. QED
    BY <2>1, <2>2 DEF Next
<1>6. out' \subseteq Int /\ IsFiniteSet(out')
  <2>1. out \subseteq Int /\ IsFiniteSet(out) /\ day \in Int
    BY <1>1 DEF SearchInv
  <2>2. out' = out \/ out' = out \cup {day}
    BY DEF Next, Route, Walk
  <2>3. IsFiniteSet(out \cup {day})
    BY <2>1, FS_AddElement
  <2>4. QED
    BY <2>1, <2>2, <2>3
<1>7. rows = <<>> /\ rows' = <<>> /\ ask' = ask /\ evaluated' = evaluated /\ asked' = asked
  BY <1>1 DEF SearchInv, WindowStages
<1>8. AskType' /\ evaluated' \in Seq(Offers') /\ rows' \in Seq(Truthful') /\ Led(rows')
  <2>1. Offers' = Offers
    BY <1>7 DEF Offers, Seen
  <2>2. QED
    BY <1>7, <2>1 DEF SearchInv, AskType, Led
<1>9. ShownWasPriced'
  BY <1>4 DEF ShownWasPriced, Shown, WindowStages
<1>10. QED
  <2>1. pc' \notin {"asked", "estimated", "priced", "assembled", "shown"}
    BY <1>4 DEF WindowStages
  <2>2. Led(rows)'
    BY <1>8 DEF Led, Leads, Total
  <2>3. QED
    BY <1>3, <1>4, <1>5, <1>6, <1>7, <1>8, <1>9, <2>1, <2>2 DEF SearchInv

LEMMA AskStep == ASSUME SearchInv, Ask PROVE SearchInv'
<1>1. /\ pc = "done" /\ pc' = "asked" /\ ask' \in Asks
      /\ UNCHANGED <<form, floor, start, day, out, evaluated, asked, rows>>
  BY DEF Ask
<1>2. AskType'
  BY <1>1, SearchAssumption DEF AskType
<1>3. out' \subseteq Int /\ IsFiniteSet(out') /\ day' \in Int /\ rows' = <<>>
  BY <1>1 DEF SearchInv, WindowStages
<1>4. evaluated' \in Seq(Offers')
  <2>1. Offers' = Offers
    BY <1>1 DEF Offers, Seen
  <2>2. QED
    BY <1>1, <2>1 DEF SearchInv
<1>5. rows' \in Seq(Truthful') /\ Led(rows)'
  BY <1>3 DEF Led
<1>6. ShownWasPriced'
  BY <1>1 DEF ShownWasPriced, Shown
<1>7. QED
  BY <1>1, <1>2, <1>3, <1>4, <1>5, <1>6 DEF SearchInv, WindowStages

LEMMA EstimateStep == ASSUME SearchInv, Estimate PROVE SearchInv'
<1>1. /\ pc = "asked" /\ evaluated' = AllStatic
      /\ pc' \in {"shown", "estimated", "priced"}
      /\ pc' = "shown" => evaluated' = <<>>
      /\ UNCHANGED <<form, floor, start, day, out, ask, asked, rows>>
  BY DEF Estimate
<1>2. AskType /\ out \subseteq Int /\ IsFiniteSet(out) /\ rows = <<>> /\ rows' = <<>> /\ day' \in Int
  BY <1>1 DEF SearchInv, WindowStages
<1>3. evaluated' \in Seq(Estimates)
  BY <1>1, <1>2, AllStaticType
<1>4. evaluated' \in Seq(Offers')
  <2>1. \A i \in 1..Len(evaluated') : evaluated'[i] \in Offers'
    BY <1>3 DEF Estimates, Offers, Seen
  <2>2. QED
    BY <1>3, <2>1, InSeq
<1>5. AskType' /\ rows' \in Seq(Truthful') /\ Led(rows)'
  BY <1>1, <1>2 DEF AskType, Led
<1>6. ShownWasPriced'
  <2>1. PairsOf(rows') \ asked' = {} /\ Len(rows') = 0
    BY <1>2 DEF PairsOf
  <2>2. Cardinality(PairsOf(rows') \ asked') = 0
    BY <2>1, FS_EmptySet
  <2>3. 0 - RepriceN \in Int /\ 0 \in Int /\ RepriceN \in Nat
    BY SearchAssumption
  <2>4. Max({0, 0 - RepriceN}) = IF 0 <= 0 - RepriceN THEN 0 - RepriceN ELSE 0
    BY <2>3, MaxOfTwo
  <2>5. 0 <= Max({0, 0 - RepriceN})
    BY <2>3, <2>4
  <2>6. QED
    BY <2>1, <2>2, <2>5 DEF ShownWasPriced, PairsOf
<1>7. pc' = "shown" => ~\E i \in 1..Len(evaluated') : WithinBudget(evaluated[i])'
  BY <1>1
<1>8. QED
  BY <1>1, <1>2, <1>3, <1>4, <1>5, <1>6, <1>7 DEF SearchInv, WindowStages

-----------------------------------------------------------------------------

LEMMA PriceBestStep == ASSUME SearchInv, PriceBest PROVE SearchInv'
<1> DEFINE chosen == CapPerResort(evaluated, RepriceN, TRUE)
           W == {i \in DOMAIN evaluated : Pair(evaluated[i]) \notin PairsOf(chosen)}
<1>1. /\ pc = "estimated" /\ pc' = "priced" /\ asked' = PairsOf(chosen)
      /\ UNCHANGED <<form, floor, start, day, out, ask, rows>>
  BY DEF PriceBest
<1>2. PICK answers \in Answers(chosen) : evaluated' = AllRepriced(chosen, answers) \o At(evaluated, W)
  BY DEF PriceBest
<1> HIDE DEF W
<1>3. AskType /\ rows = <<>> /\ rows' = <<>> /\ day' \in Int /\ evaluated \in Seq(Estimates)
  BY <1>1 DEF SearchInv
<1>4. evaluated' \in Seq(Offers')
  <2>1. Offers' = {row \in RowType : row.within /\ (IsLive(row) => Pair(row) \in asked')}
    BY DEF Offers, Seen
  <2>2. RepriceN \in Nat /\ TRUE \in BOOLEAN
    BY SearchAssumption
  <2>3. AllRepriced(chosen, answers) \o At(evaluated, W) \in Seq(Offers')
    BY <1>1, <1>3, <2>1, <2>2, PriceBestRows
  <2>4. QED
    BY <1>2, <2>3
<1>5. AskType' /\ rows' \in Seq(Truthful') /\ Led(rows)'
  BY <1>1, <1>3 DEF AskType, Led
<1>6. ShownWasPriced'
  BY <1>1 DEF ShownWasPriced, Shown
<1>7. QED
  BY <1>1, <1>3, <1>4, <1>5, <1>6 DEF SearchInv, WindowStages

LEMMA AssembleStep == ASSUME SearchInv, Assemble PROVE SearchInv'
<1>1. /\ pc = "priced" /\ rows' = Assembled
      /\ pc' = IF ask.live THEN "assembled" ELSE "shown"
      /\ UNCHANGED <<form, floor, start, day, out, ask, evaluated, asked>>
  BY DEF Assemble
<1>2. AskType /\ day' \in Int /\ evaluated \in Seq(Offers)
  BY <1>1 DEF SearchInv
<1>3. /\ Assembled \in Seq(Listed)
      /\ Led(Assembled)
      /\ ask.overBudget /\ (\E i \in 1..Len(evaluated) : WithinBudget(evaluated[i])) => Represented(Assembled)
  BY <1>2, AssembledRows
<1>4. Listed' = Listed /\ Truthful' = Truthful /\ Offers' = Offers /\ Listed \subseteq Truthful
  BY <1>1 DEF Listed, Truthful, Offers, Seen, WithinBudget
<1>5. rows' \in Seq(Listed') /\ rows' \in Seq(Truthful')
  <2>1. Assembled \in Seq(Truthful)
    BY <1>3, <1>4, InSeq
  <2>2. QED
    BY <1>1, <1>3, <1>4, <2>1
<1>6. Led(rows)'
  <2>1. PICK shown : shown = Assembled
    OBVIOUS
  <2>2. rows' = shown /\ Led(shown)
    BY <1>1, <1>3, <2>1
  <2>3. QED
    BY <2>2 DEF Led, Leads, Total
<1>7. ask.overBudget /\ (\E i \in 1..Len(evaluated) : WithinBudget(evaluated[i])) =>
        ResortsOf(rows') = ResortsOf(evaluated) \/ Cardinality(ResortsOf(rows')) = TopN
  BY <1>1, <1>3 DEF Represented
<1>8. /\ ask'.overBudget /\ (\E i \in 1..Len(evaluated') : WithinBudget(evaluated[i])')
      => Represented(rows)'
  BY <1>1, <1>7 DEF Represented, WithinBudget, ResortsOf
<1>9. ShownWasPriced'
  BY <1>1 DEF ShownWasPriced, Shown
<1>10. AskType' /\ evaluated' \in Seq(Offers')
  BY <1>1, <1>2, <1>4 DEF AskType
<1>11. pc' \in {"assembled", "shown"}
  BY <1>1
<1>12. QED
  BY <1>2, <1>5, <1>6, <1>8, <1>9, <1>10, <1>11 DEF SearchInv, WindowStages

LEMMA PriceShownStep == ASSUME SearchInv, PriceShown PROVE SearchInv'
<1>1. /\ pc = "assembled" /\ pc' = "shown" /\ asked' = asked \cup PairsOf(Needs)
      /\ UNCHANGED <<form, floor, start, day, out, ask, evaluated>>
      /\ rows' \in IF Needs = <<>> THEN {rows} ELSE {Reranked(Refreshed(a)) : a \in Answers(Needs)}
  BY DEF PriceShown
<1>2. AskType /\ day' \in Int /\ evaluated \in Seq(Offers) /\ rows \in Seq(Listed) /\ rows \in Seq(Truthful) /\ Led(rows)
  BY <1>1 DEF SearchInv
<1>3. /\ rows' \in Seq(Truthful) /\ Len(rows') = Len(rows)
      /\ ResortsOf(rows') = ResortsOf(rows)
      /\ PairsOf(rows') \subseteq PairsOf(rows)
      /\ Led(rows')
  <2>1. CASE Needs = <<>>
    <3>1. rows' = rows
      BY <1>1, <2>1
    <3>2. QED
      BY <1>2, <3>1
  <2>2. CASE Needs # <<>>
    <3>1. PICK a \in Answers(Needs) : rows' = Reranked(Refreshed(a))
      BY <1>1, <2>2
    <3>2. PICK fresh : fresh = Refreshed(a)
      OBVIOUS
    <3>3. /\ fresh \in Seq(Truthful)
          /\ Len(fresh) = Len(rows)
          /\ \A i \in 1..Len(rows) : Pair(fresh[i]) = Pair(rows[i]) /\ fresh[i].resort = rows[i].resort
      BY <1>2, <3>2, RefreshedFacts
    <3>4. PICK new : new = Reranked(fresh)
      OBVIOUS
    <3>5. /\ new \in Seq(Truthful)
          /\ Len(new) = Len(fresh)
          /\ \A i \in 1..Len(fresh) : new[i].resort = fresh[i].resort /\ Pair(new[i]) \in PairsOf(fresh)
          /\ Led(new)
      BY <1>2, <3>3, <3>4, RerankedFacts
    <3>6. ResortsOf(new) = ResortsOf(rows)
      BY <1>2, <3>3, <3>5, SameResorts
    <3>7. PairsOf(new) \subseteq PairsOf(rows)
      <4>1. PairsOf(new) = {Pair(new[i]) : i \in 1..Len(new)}
        BY <3>5 DEF PairsOf
      <4>2. PairsOf(fresh) = {Pair(fresh[i]) : i \in 1..Len(fresh)}
        BY <3>3 DEF PairsOf
      <4>3. PairsOf(rows) = {Pair(rows[i]) : i \in 1..Len(rows)}
        BY <1>2 DEF PairsOf
      <4>4. PairsOf(fresh) \subseteq PairsOf(rows)
        BY <3>3, <4>2, <4>3
      <4>5. PairsOf(new) \subseteq PairsOf(fresh)
        BY <3>5, <4>1
      <4>6. QED
        BY <4>4, <4>5
    <3>8. QED
      BY <3>1, <3>2, <3>3, <3>4, <3>5, <3>6, <3>7
  <2>3. QED
    BY <2>1, <2>2
<1>4. PICK new : new = rows'
  OBVIOUS
<1>5. Truthful' = Truthful /\ AskType' /\ Offers' \in {Offers'}
  BY <1>1, <1>2 DEF Truthful, WithinBudget, AskType
<1>6. evaluated' \in Seq(Offers')
  <2>1. \A i \in 1..Len(evaluated) : evaluated[i] \in Offers'
    BY <1>1, <1>2 DEF Offers, Seen
  <2>2. evaluated \in Seq(Offers')
    BY <1>2, <2>1, InSeq
  <2>3. QED
    BY <1>1, <2>2
<1>7. Led(rows)'
  <2>1. Led(new)
    BY <1>3, <1>4
  <2>2. QED
    BY <1>4, <2>1 DEF Led, Leads, Total
<1>8. /\ ask'.overBudget /\ (\E i \in 1..Len(evaluated') : WithinBudget(evaluated[i])')
      => Represented(rows)'
  <2>1. ask.overBudget /\ (\E i \in 1..Len(evaluated) : WithinBudget(evaluated[i])) => Represented(rows)
    BY <1>1 DEF SearchInv
  <2>2. ask.overBudget /\ (\E i \in 1..Len(evaluated) : WithinBudget(evaluated[i])) =>
          ResortsOf(rows') = ResortsOf(evaluated) \/ Cardinality(ResortsOf(rows')) = TopN
    BY <1>3, <2>1 DEF Represented
  <2>3. QED
    BY <1>1, <2>2 DEF Represented, WithinBudget, ResortsOf
<1>9. ShownWasPriced'
  <2>1. Cardinality(PairsOf(new) \ (asked \cup PairsOf(Needs))) <= Max({0, Len(rows) - RepriceN})
    BY <1>2, <1>3, <1>4, UnpricedRows
  <2>2. Cardinality(PairsOf(new) \ asked') <= Max({0, Len(new) - RepriceN})
    BY <1>1, <1>3, <1>4, <2>1
  <2>3. QED
    BY <1>4, <2>2 DEF ShownWasPriced, PairsOf
<1>10. QED
  BY <1>1, <1>2, <1>3, <1>5, <1>6, <1>7, <1>8, <1>9 DEF SearchInv, WindowStages

LEMMA SearchInvHolds == SearchSpec => []SearchInv
<1>1. SearchInv /\ [SearchNext]_searchVars => SearchInv'
  <2> SUFFICES ASSUME SearchInv, [SearchNext]_searchVars PROVE SearchInv'
    OBVIOUS
  <2>1. CASE UNCHANGED searchVars
    <3>1. IInv => IInv'
      BY <2>1 DEF searchVars, vars, IInv, Promised, Clamped, Weekday
    <3>2. Offers' = Offers /\ Truthful' = Truthful /\ Listed' = Listed
      BY <2>1 DEF searchVars, vars, Offers, Truthful, Listed, Seen, WithinBudget
    <3>3. UNCHANGED <<pc, day, out, ask, evaluated, asked, rows>>
      BY <2>1 DEF searchVars, vars
    <3>4. AskType' /\ evaluated' \in Seq(Offers') /\ rows' \in Seq(Truthful') /\ Led(rows)'
      BY <3>2, <3>3 DEF SearchInv, AskType, Led, Leads, Total
    <3>5. ShownWasPriced'
      BY <3>3 DEF SearchInv, ShownWasPriced, Shown, PairsOf
    <3>6. /\ pc' \in {"assembled", "shown"} /\ ask'.overBudget
             /\ (\E i \in 1..Len(evaluated') : WithinBudget(evaluated[i])')
          => Represented(rows)'
      BY <3>3 DEF SearchInv, Represented, ResortsOf, WithinBudget
    <3>7. QED
      BY <3>1, <3>2, <3>3, <3>4, <3>5, <3>6 DEF SearchInv
  <2>2. QED
    BY <2>1, WindowStep, AskStep, EstimateStep, PriceBestStep, AssembleStep, PriceShownStep DEF SearchNext
<1>2. QED
  BY InitSearchInv, <1>1, PTL DEF SearchSpec

-----------------------------------------------------------------------------

\* The flag of every row that is shown agrees with the price it is shown with,
\* whatever a live lookup answered in either pass (finalize).
THEOREM FlagsTellTheTruth == SearchSpec => []FlagTellsTruth
<1>1. SearchInv => FlagTellsTruth
  <2> SUFFICES ASSUME SearchInv, NEW i \in DOMAIN rows PROVE rows[i].within = WithinBudget(rows[i])
    BY DEF FlagTellsTruth
  <2>1. rows[i] \in Truthful
    BY DEF SearchInv
  <2>2. QED
    BY <2>1 DEF Truthful
<1>2. QED
  BY <1>1, SearchInvHolds, PTL

\* Of the pairs that are shown, all were looked up live but for the rows beyond
\* the bound on lookups, however the first pass changed what is shown.
THEOREM WhatIsShownWasPriced == SearchSpec => []ShownWasPriced
<1>1. SearchInv => ShownWasPriced
  BY DEF SearchInv
<1>2. QED
  BY <1>1, SearchInvHolds, PTL

\* Every resort that was evaluated has a row, or the result is full of rows of
\* different resorts, for any number of rows and any cap per resort.
THEOREM ResortsAreRepresented == SearchSpec => []EveryResortRepresented
<1>1. SearchInv => EveryResortRepresented
  <2> SUFFICES ASSUME SearchInv, pc = "shown", ask.overBudget,
                      \E i \in DOMAIN evaluated : WithinBudget(evaluated[i])
               PROVE  Represented(rows)
    BY DEF EveryResortRepresented, Shown, Represented
  <2>1. DOMAIN evaluated = 1..Len(evaluated)
    BY DEF SearchInv
  <2>2. QED
    BY <2>1 DEF SearchInv
<1>2. QED
  BY <1>1, SearchInvHolds, PTL

\* The first row of a resort is its best one, also after live prices have
\* changed its rows (assemble_coverage_first, cap_per_resort, finalize).
THEOREM TheBestRowLeads == SearchSpec => []LeadsWithBest
<1>1. SearchInv => LeadsWithBest
  <2>1. SearchInv => DOMAIN rows = 1..Len(rows) /\ Led(rows)
    BY DEF SearchInv
  <2>2. QED
    BY <2>1 DEF LeadsWithBest, Led, Leads
<1>2. QED
  BY <1>1, SearchInvHolds, PTL

\* What is proved of the window holds of the search it is part of.
THEOREM TheSearchTriesEveryValidDate == SearchSpec => [](ExactlyTheValidDates /\ QuoteIsClose)
<1>1. SearchInv => ExactlyTheValidDates /\ QuoteIsClose
  <2> SUFFICES ASSUME SearchInv, pc = "done" PROVE ExactlyTheValidDates /\ QuoteIsClose
    BY DEF ExactlyTheValidDates, QuoteIsClose
  <2>1. IInv
    BY DEF SearchInv, WindowStages
  <2>2. QED
    BY <2>1, DatesTried, QuotedAsCharged
<1>2. QED
  BY <1>1, SearchInvHolds, PTL

==============================================================================
