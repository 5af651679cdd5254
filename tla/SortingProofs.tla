--------------------------- MODULE SortingProofs ---------------------------
(***************************************************************************)
(* What sorting a finite set by a strict total order gives: a sequence     *)
(* that has every member once and no other, each before those it precedes. *)
(***************************************************************************)
EXTENDS Sorting, SequenceTheorems, FiniteSetTheorems, FunctionTheorems, TLAPS

(* R is a strict total order on S. *)
Orders(R, S) ==
  /\ \A x \in S : <<x, x>> \notin R
  /\ \A x, y \in S : x # y => <<x, y>> \in R \/ <<y, x>> \in R
  /\ \A x, y, z \in S : <<x, y>> \in R /\ <<y, z>> \in R => <<x, z>> \in R

(* A member that comes before another has the smaller place. *)
LEMMA PlaceGrows ==
  ASSUME NEW S, IsFiniteSet(S), NEW R, Orders(R, S)
  PROVE  /\ Place(S, R) \in [S -> 1 .. Cardinality(S)]
         /\ \A d, e \in S : <<d, e>> \in R => Place(S, R)[d] < Place(S, R)[e]
<1> DEFINE below(e) == {d \in S : <<d, e>> \in R}
           n == Cardinality(S)
<1>1. n \in Nat
  BY FS_CardinalityType
<1>2. \A e \in S : IsFiniteSet(below(e)) /\ Cardinality(below(e)) \in Nat /\ Cardinality(below(e)) < n
  <2> TAKE e \in S
  <2>1. below(e) \in SUBSET S /\ e \notin below(e)
    BY DEF Orders
  <2> HIDE DEF below
  <2>2. IsFiniteSet(below(e)) /\ Cardinality(below(e)) <= n /\ (n = Cardinality(below(e)) => S = below(e))
    BY <2>1, FS_Subset
  <2>3. Cardinality(below(e)) \in Nat
    BY <2>2, FS_CardinalityType
  <2> QED
    BY <2>1, <2>2, <2>3, <1>1
<1>3. ASSUME NEW d \in S, NEW e \in S, <<d, e>> \in R
      PROVE  Cardinality(below(d)) < Cardinality(below(e))
  <2>1. below(d) \in SUBSET below(e) /\ d \in below(e) /\ d \notin below(d)
    BY <1>3 DEF Orders
  <2> HIDE DEF below
  <2>2. /\ Cardinality(below(d)) <= Cardinality(below(e))
        /\ Cardinality(below(e)) = Cardinality(below(d)) => below(e) = below(d)
    BY <2>1, <1>2, FS_Subset
  <2> QED
    BY <2>1, <2>2, <1>2
<1>4. Place(S, R) = [e \in S |-> Cardinality(below(e)) + 1]
  BY DEF Place
<1> HIDE DEF below, n
<1>5. Place(S, R) \in [S -> 1 .. n]
  BY <1>1, <1>2, <1>4
<1>6. ASSUME NEW d \in S, NEW e \in S, <<d, e>> \in R
      PROVE  Place(S, R)[d] < Place(S, R)[e]
  BY <1>2, <1>3, <1>4, <1>6
<1> QED
  BY <1>5, <1>6 DEF n

(* No two members share a place and no place is empty. *)
LEMMA PlaceBijective ==
  ASSUME NEW S, IsFiniteSet(S), NEW R, Orders(R, S)
  PROVE  Place(S, R) \in Bijection(S, 1 .. Cardinality(S))
<1> DEFINE n == Cardinality(S)
           p == Place(S, R)
<1>1. n \in Nat
  BY FS_CardinalityType
<1>2. p \in [S -> 1 .. n] /\ \A d, e \in S : <<d, e>> \in R => p[d] < p[e]
  BY PlaceGrows
<1> HIDE DEF p
<1>3. \A d, e \in S : p[d] = p[e] => d = e
  <2> SUFFICES ASSUME NEW d \in S, NEW e \in S, d # e PROVE p[d] # p[e]
    OBVIOUS
  <2>1. <<d, e>> \in R \/ <<e, d>> \in R
    BY DEF Orders
  <2>2. p[d] \in 1 .. n /\ p[e] \in 1 .. n
    BY <1>2
  <2> QED
    BY <1>1, <1>2, <2>1, <2>2
<1>4. p \in Injection(S, 1 .. n)
  BY <1>2, <1>3, Fun_IsInj
<1>5. IsFiniteSet(1 .. n) /\ Cardinality(1 .. n) = n
  BY <1>1, FS_Interval
<1>6. Cardinality(S) = Cardinality(1 .. n) <=> p \in Surjection(S, 1 .. n)
  <2> HIDE DEF n
  <2> QED
    BY <1>4, <1>5, FS_Injection
<1>7. p \in Surjection(S, 1 .. n)
  BY <1>5, <1>6
<1> QED
  BY <1>4, <1>7 DEF p, Bijection

(* Sorting a finite set by a strict total order gives every member once,   *)
(* each before those that it precedes: what the sorts of the timeline, of  *)
(* the panel's rows and of the snapshots rest on.                          *)
THEOREM SortedIs ==
  ASSUME NEW S, IsFiniteSet(S), NEW R, Orders(R, S)
  PROVE  LET t == Sorted(S, R)
         IN  /\ t \in Seq(S) /\ Len(t) = Cardinality(S) /\ Range(t) = S
             /\ \A i, j \in 1 .. Len(t) : i < j <=> <<t[i], t[j]>> \in R
             /\ \A i, j \in 1 .. Len(t) : t[i] = t[j] => i = j
<1> DEFINE n == Cardinality(S)
           p == Place(S, R)
           t == Sorted(S, R)
<1>1. n \in Nat
  BY FS_CardinalityType
<1>2. p \in [S -> 1 .. n] /\ \A d, e \in S : <<d, e>> \in R => p[d] < p[e]
  BY PlaceGrows
<1>3. p \in Bijection(S, 1 .. n)
  BY PlaceBijective
<1>4. t = [k \in 1 .. n |-> CHOOSE e \in S : p[e] = k]
  BY DEF Sorted
<1> HIDE DEF p, t
<1>5. \A k \in 1 .. n : \E e \in S : p[e] = k
  <2> HIDE DEF n
  <2> QED
    BY <1>3 DEF Bijection, Surjection
<1>6. \A d, e \in S : p[d] = p[e] => d = e
  BY <1>3, Fun_BijectionProperties
<1>7. \A k \in 1 .. n : t[k] \in S /\ p[t[k]] = k
  BY <1>4, <1>5
<1>8. t \in Seq(S) /\ Len(t) = n /\ DOMAIN t = 1 .. n
  <2> HIDE DEF n
  <2>1. t \in [1 .. n -> S]
    BY <1>4, <1>7
  <2> QED
    BY <1>1, <2>1
<1>9. \A e \in S : p[e] \in 1 .. n /\ t[p[e]] = e
  BY <1>2, <1>6, <1>7
<1>10. Range(t) = S
  <2> HIDE DEF n
  <2> QED
    BY <1>7, <1>8, <1>9 DEF Range
<1>11. ASSUME NEW i \in 1 .. n, NEW j \in 1 .. n PROVE i < j <=> <<t[i], t[j]>> \in R
  <2>1. t[i] \in S /\ t[j] \in S /\ p[t[i]] = i /\ p[t[j]] = j
    BY <1>7
  <2>2. <<t[i], t[j]>> \in R => i < j
    BY <1>2, <2>1
  <2>3. <<t[j], t[i]>> \in R => j < i
    BY <1>2, <2>1
  <2>4. i # j => <<t[i], t[j]>> \in R \/ <<t[j], t[i]>> \in R
    BY <2>1 DEF Orders
  <2>5. i \in Nat /\ j \in Nat
    OBVIOUS
  <2> HIDE DEF n
  <2> QED
    BY <2>2, <2>3, <2>4, <2>5
<1>12. \A i, j \in 1 .. n : t[i] = t[j] => i = j
  BY <1>7
<1>13. Len(t) = n
  BY <1>8
<1> HIDE DEF n
<1> QED
  BY <1>8, <1>10, <1>11, <1>12, <1>13 DEF t, n

(* The order of the numbers is a strict total order on any set of them. *)
LEMMA NumbersOrder ==
  ASSUME NEW S \in SUBSET Nat
  PROVE  Orders({p \in S \X S : p[1] < p[2]}, S)
<1> DEFINE R == {p \in S \X S : p[1] < p[2]}
<1>1. \A x, y \in S : <<x, y>> \in R <=> x < y
  OBVIOUS
<1>2. \A x, y \in S : x \in Nat /\ y \in Nat
  OBVIOUS
<1> HIDE DEF R
<1>3. \A x \in S : <<x, x>> \notin R
  BY <1>1, <1>2
<1>4. \A x, y \in S : x # y => <<x, y>> \in R \/ <<y, x>> \in R
  BY <1>1, <1>2
<1>5. \A x, y, z \in S : <<x, y>> \in R /\ <<y, z>> \in R => <<x, z>> \in R
  BY <1>1, <1>2
<1>6. Orders(R, S)
  BY <1>3, <1>4, <1>5 DEF Orders
<1> QED
  BY <1>6 DEF R

(* Numbers from one on are sorted as they stand. *)
LEMMA SortedInterval ==
  ASSUME NEW n \in Nat
  PROVE  Sorted(1 .. n, {p \in (1 .. n) \X (1 .. n) : p[1] < p[2]}) = [k \in 1 .. n |-> k]
<1> DEFINE S == 1 .. n
           R == {p \in S \X S : p[1] < p[2]}
           place == Place(S, R)
<1>1. Cardinality(S) = n
  BY FS_Interval
<1>2. ASSUME NEW e \in S PROVE place[e] = e
  <2> DEFINE below == {d \in S : <<d, e>> \in R}
  <2>1. below = 1 .. (e - 1)
    OBVIOUS
  <2>2. e \in Int /\ e - 1 \in Nat /\ 1 \in Int /\ e - 1 \in Int
    OBVIOUS
  <2>3. Cardinality(1 .. (e - 1)) = e - 1
    BY <2>2, FS_Interval
  <2>4. place[e] = Cardinality(below) + 1
    BY DEF Place
  <2> HIDE DEF place, below, R, S
  <2>5. Cardinality(below) = e - 1
    BY <2>1, <2>3
  <2> QED
    BY <2>2, <2>4, <2>5
<1>3. Sorted(S, R) = [k \in 1 .. n |-> CHOOSE e \in S : place[e] = k]
  BY <1>1 DEF Sorted
<1> HIDE DEF R, place
<1>4. \A k \in 1 .. n : (CHOOSE e \in S : place[e] = k) = k
  BY <1>2
<1>5. Sorted(S, R) = [k \in 1 .. n |-> k]
  BY <1>3, <1>4
<1> QED
  BY <1>5 DEF R

(* A filter keeps the entries at the positions chosen, in their order: the *)
(* first of them first, all of them if all are chosen.                     *)
LEMMA ChosenIs ==
  ASSUME NEW T, NEW s \in Seq(T), NEW S \in SUBSET (DOMAIN s)
  PROVE  /\ Chosen(s, S) \in Seq(T)
         /\ IsFiniteSet(S) /\ Cardinality(S) \in Nat /\ Len(Chosen(s, S)) = Cardinality(S)
         /\ Range(Chosen(s, S)) = {s[i] : i \in S}
         /\ \A k, l \in DOMAIN Chosen(s, S) : k < l =>
              \E i, j \in S : i < j /\ Chosen(s, S)[k] = s[i] /\ Chosen(s, S)[l] = s[j]
         /\ S # {} => \E i \in S : Chosen(s, S)[1] = s[i] /\ \A j \in S : i <= j
         /\ S = DOMAIN s => Chosen(s, S) = s
<1> DEFINE R  == {p \in S \X S : p[1] < p[2]}
           at == Sorted(S, R)
           c  == Chosen(s, S)
<1>1. DOMAIN s = 1 .. Len(s) /\ Len(s) \in Nat
  OBVIOUS
<1>2. S \in SUBSET Nat /\ S \subseteq 1 .. Len(s) /\ IsFiniteSet(S) /\ Cardinality(S) \in Nat
  <2>1. IsFiniteSet(1 .. Len(s)) /\ S \subseteq 1 .. Len(s)
    BY <1>1, FS_Interval
  <2>2. IsFiniteSet(S)
    BY <2>1, FS_Subset
  <2> QED
    BY <2>1, <2>2, <1>1, FS_CardinalityType
<1>3. c = [k \in DOMAIN at |-> s[at[k]]]
  BY DEF Chosen, Ascending
<1>4. \A i, j \in S : <<i, j>> \in R <=> i < j
  OBVIOUS
<1>5. Orders(R, S)
  BY <1>2, NumbersOrder
<1>6. S = DOMAIN s => at = [k \in 1 .. Len(s) |-> k]
  BY <1>1, SortedInterval
<1> HIDE DEF R
<1>7. /\ at \in Seq(S) /\ Len(at) = Cardinality(S) /\ Range(at) = S
      /\ \A i, j \in 1 .. Len(at) : i < j <=> <<at[i], at[j]>> \in R
  BY <1>2, <1>5, SortedIs
<1> HIDE DEF at, c
<1>8. DOMAIN at = 1 .. Cardinality(S) /\ \A k \in DOMAIN at : at[k] \in S
  BY <1>7
<1>9. DOMAIN c = 1 .. Cardinality(S) /\ \A k \in DOMAIN at : c[k] = s[at[k]]
  BY <1>3, <1>8
<1>10. c \in Seq(T) /\ Len(c) = Cardinality(S)
  <2>1. \A k \in 1 .. Cardinality(S) : c[k] \in T
    BY <1>1, <1>8, <1>9
  <2>2. c = [k \in 1 .. Cardinality(S) |-> c[k]]
    BY <1>3, <1>9
  <2> QED
    BY <1>2, <1>9, <2>1, <2>2
<1>11. Range(c) = {s[i] : i \in S}
  BY <1>7, <1>8, <1>9 DEF Range
<1>12. ASSUME NEW k \in DOMAIN c, NEW l \in DOMAIN c, k < l
       PROVE  \E i, j \in S : i < j /\ c[k] = s[i] /\ c[l] = s[j]
  <2>1. at[k] \in S /\ at[l] \in S /\ <<at[k], at[l]>> \in R
    BY <1>7, <1>8, <1>9, <1>12
  <2> QED
    BY <1>4, <1>8, <1>9, <2>1
<1>13. ASSUME S # {} PROVE \E i \in S : c[1] = s[i] /\ \A j \in S : i <= j
  <2>1. PICK j \in S : TRUE
    BY <1>13
  <2>2. PICK l \in DOMAIN at : at[l] = j
    BY <1>7 DEF Range
  <2>3. 1 \in DOMAIN at
    BY <1>2, <1>8
  <2>4. ASSUME NEW i \in S PROVE at[1] <= i
    <3>1. PICK k \in DOMAIN at : at[k] = i
      BY <1>7 DEF Range
    <3>2. CASE k = 1
      BY <1>2, <3>1, <3>2
    <3>3. CASE 1 < k
      <4>1. 1 \in 1 .. Len(at) /\ k \in 1 .. Len(at)
        BY <1>2, <1>7, <1>8, <2>3
      <4>2. <<at[1], at[k]>> \in R
        BY <1>7, <3>3, <4>1
      <4>3. at[1] \in S /\ at[1] \in Nat /\ i \in Nat
        BY <1>2, <1>8, <2>3
      <4>4. at[1] < i
        BY <1>4, <3>1, <4>2, <4>3
      <4> QED
        BY <4>3, <4>4
    <3>4. k \in Nat /\ (k = 1 \/ 1 < k)
      BY <1>2, <1>8
    <3> QED
      BY <3>2, <3>3, <3>4
  <2> QED
    BY <1>8, <1>9, <2>3, <2>4
<1>14. ASSUME S = DOMAIN s PROVE c = s
  <2>1. c = [k \in 1 .. Len(s) |-> s[k]]
    BY <1>3, <1>6, <1>14
  <2> QED
    BY <1>1, <2>1
<1> QED
  BY <1>2, <1>10, <1>11, <1>12, <1>13, <1>14 DEF c
=============================================================================
