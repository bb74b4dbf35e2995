--------------------------- MODULE MCCollections ---------------------------
(* An instance of Collections and KeyExpr for TLC.  Arrays are              *)
(* interchangeable among themselves, and so are payloads and key            *)
(* expressions.                                                             *)
EXTENDS KeyExpr, TLC

CONSTANTS s1, t1, v1, a1, a2, b1, b2, w1, k1, k2, q1, c1

(* Strings and arrays, payloads and writers, both with views, strings with  *)
(* key expressions, and key expressions with an array of characters.        *)
SmallPrograms == {{t1, v1, a1, a2}, {s1, t1, b1, b2, w1}, {s1, v1, b1, b2},
                  {t1, k1, k2, q1}, {t1, v1, k1, q1},
                  {c1, k1, k2, q1}, {c1, t1, k1, q1}, {c1, v1, k1, q1}}
                   \cup {{t1, v1, a, b} : a \in {a1, a2}, b \in {b1, b2}}

Interchangeable == Permutations({a1, a2}) \cup Permutations({b1, b2})
                     \cup Permutations({k1, k2})
=============================================================================
