------------------------------ MODULE Ordering ------------------------------
(***************************************************************************)
(* Python's min, sorted and comprehensions over lists, with a key that is a *)
(* tuple, slices of a list, and round() of a quotient.                      *)
(***************************************************************************)
EXTENDS SequencesExt

None == -1

\* Tuples of the same length, compared element by element.
Before(a, b) == \E i \in DOMAIN a : a[i] < b[i] /\ \A j \in 1..(i - 1) : a[j] = b[j]

\* Of two places, the one with the lesser key; of equal keys, the first.
GoesBefore(key, i, j) == Before(key[i], key[j]) \/ (key[i] = key[j] /\ i < j)

\* Where the least key is: the first place, as min() returns it.
LeastPlace(key) == CHOOSE i \in DOMAIN key : \A j \in DOMAIN key \ {i} : GoesBefore(key, i, j)

\* list.sort: ascending and stable.  The n-th element is the one that n - 1
\* others go before.  (\o has TLC compute the sequence once.)
Sorted(seq, key) ==
  LET place == [n \in DOMAIN seq |->
                  CHOOSE i \in DOMAIN seq :
                    Cardinality({j \in DOMAIN seq : GoesBefore(key, j, i)}) = n - 1]
  IN  <<>> \o [n \in DOMAIN seq |-> seq[place[n]]]

\* The elements at the positions in S, in their order.
At(seq, S) ==
  LET upTo[i \in 0..Len(seq)] ==
        IF i = 0 THEN <<>>
        ELSE IF i \in S THEN Append(upTo[i - 1], seq[i]) ELSE upTo[i - 1]
  IN  upTo[Len(seq)]

\* The same with what is done to, asked of or compared in an element.
Mapped(seq, F(_)) == [i \in DOMAIN seq |-> F(seq[i])]
Where(seq, Test(_)) == At(seq, {i \in DOMAIN seq : Test(seq[i])})
PlaceOfLeast(seq, Key(_)) == LeastPlace(Mapped(seq, Key))
Least(seq, Key(_)) == seq[PlaceOfLeast(seq, Key)]
SortedBy(seq, Key(_)) == Sorted(seq, Mapped(seq, Key))

Positions(seq) == [i \in DOMAIN seq |-> i]

\* seq[:n] and seq[n:]
Take(seq, n) == SubSeq(seq, 1, Min({n, Len(seq)}))
Drop(seq, n) == SubSeq(seq, n + 1, Len(seq))

OneIf(condition) == IF condition THEN 1 ELSE 0

\* round(amount / parts), a half upwards: what is told apart is more than one
\* unit.
Share(amount, parts) == (2 * amount + parts) \div (2 * parts)

\* The least of some prices, or None.
Least0(values) == IF values = {} THEN None ELSE Min(values)
=============================================================================
