------------------------------- MODULE MCMoves -------------------------------
(* Instances of Moves for TLC. *)
EXTENDS Moves

(* The functions that keep the agreement on moved arguments. *)
Keeping == DOMAIN Api \ {"querying_get"}

=============================================================================
