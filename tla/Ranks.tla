------------------------------- MODULE Ranks -------------------------------
(***************************************************************************)
(* What sorted() makes of values: p maps each key, an integer, to its      *)
(* value, an integer too.                                                  *)
(***************************************************************************)
EXTENDS Integers, FiniteSets

(* The place of i among the values from the least up; sorted() keeps equal *)
(* ones in their order.                                                    *)
UpTo(p, i) == {j \in DOMAIN p : p[j] < p[i] \/ (p[j] = p[i] /\ j <= i)}
Rank(p, i) == Cardinality(UpTo(p, i))

(* The key of the k-th value. *)
Nth(p, k) == CHOOSE i \in DOMAIN p : Rank(p, i) = k

(* The keys by rising value, and the numbers of a set. *)
ByValue(p) == [k \in 1..Cardinality(DOMAIN p) |-> Nth(p, k)]
Ascending(S) == ByValue([i \in S |-> i])
=============================================================================
