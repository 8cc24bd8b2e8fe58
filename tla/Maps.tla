-------------------------------- MODULE Maps --------------------------------
(***************************************************************************)
(* Go maps.  A map[string]T is a function whose domain is the set of keys  *)
(* present, so that a missing key, a deleted key and a zero value stay     *)
(* apart the way they do in the code.                                      *)
(***************************************************************************)
EXTENDS Naturals, Functions, FiniteSetsExt

\* m is a map whose keys are in D and whose values are in R.
IsMap(m, D, R) == DOMAIN m \subseteq D /\ m \in [DOMAIN m -> R]

EmptyMap == [x \in {} |-> x]

\* m[k] = v
Put(m, k, v) == [x \in DOMAIN m \cup {k} |-> IF x = k THEN v ELSE m[x]]

\* delete(m, k) for every k of K
Without(m, K) == Restrict(m, DOMAIN m \ K)

\* The value of m[k] read without a presence check: the zero value if absent.
At(m, k) == IF k \in DOMAIN m THEN m[k] ELSE 0

\* The loop that adds up the values of m at the keys of K.
SumOver(m, K) == MapThenSumSet(LAMBDA k : m[k], K)
=============================================================================
