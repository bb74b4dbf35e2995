-------------------------------- MODULE MCShm --------------------------------
(* Instances of Shm for TLC. *)
EXTENDS Shm, TLC

CONSTANTS t1, t2, r1, r2

ByLayout == [r \in Request |-> "layout"]
Mixed == [r \in Request |-> IF r = r1 THEN "provider" ELSE "layout"]

=============================================================================
