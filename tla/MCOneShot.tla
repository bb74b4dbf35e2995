------------------------------ MODULE MCOneShot ------------------------------
(* Instances of OneShot for TLC. *)
EXTENDS OneShot, TLC

CONSTANTS t1, t2, w1, w2, o1, o2, k1

Mixed == {o1 :> "querier_get" @@ o2 :> "liveliness_get", o1 :> "scout" @@ o2 :> "get",
          o1 :> "scout" @@ o2 :> "info"}
LivelinessGet == {[o \in Op |-> "liveliness_get"]}
OneToken == [o \in Op |-> k1]
NoToken == [o \in Op |-> None]
Timeouts == o1 :> 0 @@ o2 :> 1
ZeroTimeouts == [o \in Op |-> 0]

=============================================================================
