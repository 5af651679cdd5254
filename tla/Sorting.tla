------------------------------ MODULE Sorting ------------------------------
(***************************************************************************)
(* What a sort of the standard library leaves behind: the members of a     *)
(* finite set in the order of a relation.  A member's place is one more    *)
(* than the number of those that come before it.                           *)
(***************************************************************************)
EXTENDS Naturals, FiniteSets

Place(S, R) == [e \in S |-> Cardinality({d \in S : <<d, e>> \in R}) + 1]

Sorted(S, R) ==
  LET place == Place(S, R)
  IN  [k \in 1 .. Cardinality(S) |-> CHOOSE e \in S : place[e] = k]

(* The numbers of S from the least up: the positions that a filter keeps.  *)
Ascending(S) == Sorted(S, {p \in S \X S : p[1] < p[2]})

(* The entries of a sequence at the positions S, in their order. *)
Chosen(s, S) == LET at == Ascending(S) IN [k \in DOMAIN at |-> s[at[k]]]
=============================================================================
