------------------------------ MODULE OrderingProofs -----------------------------
(***************************************************************************)
(* InOrder lists every element of a finite set once, in the order.         *)
(***************************************************************************)
EXTENDS Ordering, Integers, Sequences, FiniteSetTheorems, FunctionTheorems, WellFoundedInduction,
        TLAPS

\* A total strict order.
Orderly(S, before) ==
  /\ \A d \in S : <<d, d>> \notin before
  /\ \A d, e \in S : d # e => <<d, e>> \in before \/ <<e, d>> \in before
  /\ \A d, e, f \in S : <<d, e>> \in before /\ <<e, f>> \in before => <<d, f>> \in before

Upto(S, before, e) == {d \in S : d = e \/ <<d, e>> \in before}

LEMMA PlaceGrows ==
  ASSUME NEW S, IsFiniteSet(S), NEW before, Orderly(S, before)
  PROVE  /\ \A e \in S : PlaceOf(S, before, e) \in 1..Cardinality(S)
         /\ \A d, e \in S : <<d, e>> \in before => PlaceOf(S, before, d) < PlaceOf(S, before, e)
<1> DEFINE up(e) == Upto(S, before, e)
<1>1. Cardinality(S) \in Nat
  BY FS_CardinalityType
<1>2. ASSUME NEW e \in S
      PROVE /\ IsFiniteSet(up(e)) /\ PlaceOf(S, before, e) = Cardinality(up(e))
            /\ Cardinality(up(e)) \in 1..Cardinality(S)
  <2>1. up(e) \in SUBSET S /\ e \in up(e)
    BY DEF Upto
  <2>2. IsFiniteSet(up(e)) /\ Cardinality(up(e)) <= Cardinality(S)
    <3> HIDE DEF up
    <3> QED BY <2>1, FS_Subset
  <2>3. Cardinality(up(e)) \in Nat
    <3> HIDE DEF up
    <3> QED BY <2>2, FS_CardinalityType
  <2>4. Cardinality(up(e)) # 0
    <3> HIDE DEF up
    <3> QED BY <2>1, <2>2, FS_EmptySet
  <2>5. Cardinality(up(e)) \in 1..Cardinality(S)
    <3> HIDE DEF up
    <3> QED BY <1>1, <2>2, <2>3, <2>4
  <2> QED BY <2>2, <2>5 DEF PlaceOf, Upto
<1>3. ASSUME NEW d \in S, NEW e \in S, <<d, e>> \in before
      PROVE PlaceOf(S, before, d) < PlaceOf(S, before, e)
  <2>1. up(d) \in SUBSET up(e)
    BY <1>3 DEF Orderly, Upto
  <2>2. up(d) # up(e)
    <3>1. e \in up(e)
      BY DEF Upto
    <3>2. e \notin up(d)
      BY <1>3 DEF Orderly, Upto
    <3> QED BY <3>1, <3>2
  <2>3. Cardinality(up(d)) <= Cardinality(up(e)) /\ Cardinality(up(d)) # Cardinality(up(e))
    <3>1. IsFiniteSet(up(e))
      BY <1>2
    <3> HIDE DEF up
    <3> QED BY <2>1, <2>2, <3>1, FS_Subset
  <2>4. Cardinality(up(d)) \in Nat /\ Cardinality(up(e)) \in Nat
    <3> HIDE DEF up
    <3> QED BY <1>1, <1>2
  <2>5. PlaceOf(S, before, d) = Cardinality(up(d)) /\ PlaceOf(S, before, e) = Cardinality(up(e))
    BY <1>2
  <2> HIDE DEF up
  <2> QED BY <2>3, <2>4, <2>5
<1> QED BY <1>2, <1>3

\* Each place is taken by one element: what InOrder lists there.
LEMMA InOrderLists ==
  ASSUME NEW S, IsFiniteSet(S), NEW before, Orderly(S, before)
  PROVE  /\ Cardinality(S) \in Nat /\ InOrder(S, before) \in [1..Cardinality(S) -> S]
         /\ \A n \in 1..Cardinality(S) : PlaceOf(S, before, InOrder(S, before)[n]) = n
         /\ \A e \in S : /\ PlaceOf(S, before, e) \in 1..Cardinality(S)
                         /\ InOrder(S, before)[PlaceOf(S, before, e)] = e
         /\ \A m, n \in 1..Cardinality(S) : m < n =>
               <<InOrder(S, before)[m], InOrder(S, before)[n]>> \in before
<1> DEFINE N == Cardinality(S)
           place == [e \in S |-> PlaceOf(S, before, e)]
           o == InOrder(S, before)
<1>1. N \in Nat
  BY FS_CardinalityType
<1>2. \A e \in S : PlaceOf(S, before, e) \in 1..N
  BY PlaceGrows
<1>3. \A d, e \in S : <<d, e>> \in before => PlaceOf(S, before, d) < PlaceOf(S, before, e)
  BY PlaceGrows
<1>4. \A d, e \in S : PlaceOf(S, before, d) = PlaceOf(S, before, e) => d = e
  <2> SUFFICES ASSUME NEW d \in S, NEW e \in S, d # e
               PROVE  PlaceOf(S, before, d) # PlaceOf(S, before, e)
    OBVIOUS
  <2>1. PlaceOf(S, before, d) \in Int /\ PlaceOf(S, before, e) \in Int
    <3> HIDE DEF N
    <3> QED BY <1>1, <1>2
  <2>2. <<d, e>> \in before \/ <<e, d>> \in before
    BY DEF Orderly
  <2> QED BY <1>3, <2>1, <2>2
<1>5. place \in Injection(S, 1..N)
  BY <1>2, <1>4 DEF Injection, IsInjective
<1>6. IsFiniteSet(1..N) /\ Cardinality(1..N) = N
  <2>1. (1 > N <=> N = 0) /\ N - 1 + 1 = N /\ 1 \in Int /\ N \in Int
    <3> HIDE DEF N
    <3> QED BY <1>1
  <2>2. IsFiniteSet(1..N) /\ Cardinality(1..N) = IF 1 > N THEN 0 ELSE N - 1 + 1
    <3> HIDE DEF N
    <3> QED BY <2>1, FS_Interval
  <2> QED BY <2>1, <2>2
<1>7. place \in Surjection(S, 1..N)
  <2> HIDE DEF place
  <2> QED BY <1>5, <1>6, FS_Injection
<1>8. \A n \in 1..N : \E e \in S : PlaceOf(S, before, e) = n
  BY <1>7 DEF Surjection
<1>9. ASSUME NEW n \in 1..N PROVE o[n] \in S /\ PlaceOf(S, before, o[n]) = n
  <2>1. o[n] = CHOOSE e \in S : PlaceOf(S, before, e) = n
    BY DEF InOrder
  <2> HIDE DEF o
  <2> QED BY <1>8, <2>1
<1>10. o \in [1..N -> S]
  <2>1. o = [n \in 1..N |-> CHOOSE e \in S : PlaceOf(S, before, e) = n]
    BY DEF InOrder
  <2>2. o = [n \in 1..N |-> o[n]]
    BY <2>1
  <2> HIDE DEF o
  <2> QED BY <1>9, <2>2
<1>11. \A e \in S : o[PlaceOf(S, before, e)] = e
  <2> HIDE DEF o
  <2> QED BY <1>2, <1>4, <1>9
<1>12. ASSUME NEW m \in 1..N, NEW n \in 1..N, m < n PROVE <<o[m], o[n]>> \in before
  <2>1. m # n
    <3> HIDE DEF N
    <3> QED BY <1>1, <1>12
  <2>2. o[m] # o[n]
    BY <1>9, <2>1
  <2>3. <<o[m], o[n]>> \in before \/ <<o[n], o[m]>> \in before
    <3> HIDE DEF o
    <3> QED BY <1>9, <2>2 DEF Orderly
  <2>4. <<o[n], o[m]>> \notin before
    <3>1. <<o[n], o[m]>> \in before => n < m
      <4> HIDE DEF o
      <4> QED BY <1>3, <1>9
    <3>2. ~(n < m)
      <4> HIDE DEF N
      <4> QED BY <1>1, <1>12
    <3> QED BY <3>1, <3>2
  <2> QED BY <2>3, <2>4
<1> HIDE DEF o
<1> QED BY <1>1, <1>2, <1>9, <1>10, <1>11, <1>12 DEF o

\* How many come after an element.
LEMMA AfterPlace ==
  ASSUME NEW S, IsFiniteSet(S), NEW before, Orderly(S, before), NEW e \in S
  PROVE  /\ Cardinality({d \in S : <<e, d>> \in before}) \in Nat
         /\ Cardinality(S) = PlaceOf(S, before, e) + Cardinality({d \in S : <<e, d>> \in before})
<1> DEFINE up == Upto(S, before, e)
           after == {d \in S : <<e, d>> \in before}
<1>1. up \in SUBSET S /\ after \in SUBSET S
  BY DEF Upto
<1>2. IsFiniteSet(up) /\ IsFiniteSet(after)
  <2> HIDE DEF up, after
  <2> QED BY <1>1, FS_Subset
<1>3. up \cup after = S /\ up \cap after = {}
  BY DEF Upto, Orderly
<1>4. Cardinality(up) \in Nat /\ Cardinality(after) \in Nat
  BY <1>2, FS_CardinalityType
<1>5. Cardinality(up \cup after) = Cardinality(up) + Cardinality(after) - Cardinality(up \cap after)
  <2> HIDE DEF up, after
  <2> QED BY <1>2, FS_Union
<1>6. Cardinality({}) = 0
  BY FS_EmptySet
<1>7. Cardinality(S) = Cardinality(up) + Cardinality(after) - 0
  BY <1>3, <1>5, <1>6, Zenon
<1>8. PlaceOf(S, before, e) = Cardinality(up)
  BY DEF PlaceOf, Upto
<1> HIDE DEF up, after
<1> QED BY <1>4, <1>7, <1>8 DEF after

\* The least-number principle, for sets.
LEMMA LeastOf ==
  ASSUME NEW T, T \subseteq Nat, T # {}
  PROVE  \E n \in T : \A m \in T : n <= m
<1> DEFINE R == OpToRel(<, Nat)
<1>1. IsWellFoundedOn(R, Nat)
  BY NatLessThanWellFounded
<1>2. \A n, m \in Nat : <<m, n>> \in R <=> m < n
  BY DEF OpToRel
<1> HIDE DEF R
<1>3. \E n \in T : \A m \in T : ~(<<m, n>> \in R)
  BY <1>1, WFMin, Zenon
<1>4. PICK n \in T : \A m \in T : ~(<<m, n>> \in R)
  BY <1>3
<1>5. ASSUME NEW m \in T PROVE n <= m
  <2>1. n \in Nat /\ m \in Nat /\ ~(<<m, n>> \in R)
    BY <1>4, Zenon
  <2>2. ~(m < n)
    BY <1>2, <2>1
  <2> QED BY <2>1, <2>2
<1> QED BY <1>5
=================================================================================
