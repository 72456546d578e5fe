------------------------------- MODULE HashMap -------------------------------
(***************************************************************************)
(* The std::collections::HashMap operations the taxonomy uses, on          *)
(* functions whose domain is the set of keys present.                      *)
(***************************************************************************)
EXTENDS Functions

EmptyMap == [k \in {} |-> {}]

(* `HashMap::insert`, and a committed `InsertInMap::start` when k is new.   *)
Put(m, k, v) == [x \in DOMAIN m \cup {k} |-> IF x = k THEN v ELSE m[x]]

(* `HashMap::remove` of every key of S; a key that is absent is ignored.    *)
Drop(m, S) == Restrict(m, DOMAIN m \ S)

(* m maps some elements of K to elements of V.                              *)
IsMap(m, K, V) == DOMAIN m \subseteq K /\ m \in [DOMAIN m -> V]
=============================================================================
