------------------------------- MODULE MCSync -------------------------------
(* Instances of Sync for TLC. *)
EXTENDS Sync

CONSTANTS t1, t2, t3

=============================================================================
