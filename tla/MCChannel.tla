------------------------------ MODULE MCChannel ------------------------------
(* Instances of Channel for TLC. *)
EXTENDS Channel

CONSTANTS m1, m2, m3, m4, s1, s2, r1, r2

=============================================================================
