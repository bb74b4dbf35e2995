--------------------------- MODULE ClosureContract ---------------------------
(***************************************************************************)
(* What zenoh-c promises about every closure and every deletable context   *)
(* that an application hands to it.  The documentation of z_closure_sample *)
(* and of the other closure constructors states it in three lines: `call`  *)
(* is never called once `drop` has started; `drop` is called once, after   *)
(* every `call` has ended; calls may run concurrently with one another.    *)
(* The component specifications are shown to implement this one.           *)
(***************************************************************************)

CONSTANTS
  Closure,  \* the closure objects of the application
  Caller    \* the threads that may execute `call`

VARIABLES
  life,     \* life[c]: where closure c is between construction and `drop`
  calls     \* calls[c]: the threads that are executing `call` of c now

contractVars == <<life, calls>>

Life == {"fresh", "owned", "lent", "dropping", "dropped"}

ContractInit ==
  /\ life = [c \in Closure |-> "fresh"]
  /\ calls = [c \in Closure |-> {}]

(* The application constructs a closure in an uninitialized variable.      *)
Construct(c) ==
  /\ life[c] = "fresh"
  /\ life' = [life EXCEPT ![c] = "owned"]
  /\ UNCHANGED calls

(* The application moves the closure into a zenoh-c function.              *)
Lend(c) ==
  /\ life[c] = "owned"
  /\ life' = [life EXCEPT ![c] = "lent"]
  /\ UNCHANGED calls

StartCall(c, k) ==
  /\ life[c] = "lent"
  /\ k \notin calls[c]
  /\ calls' = [calls EXCEPT ![c] = @ \cup {k}]
  /\ UNCHANGED life

EndCall(c, k) ==
  /\ k \in calls[c]
  /\ calls' = [calls EXCEPT ![c] = @ \ {k}]
  /\ UNCHANGED life

(* Whoever owns the closure may drop it, but only when no call is running. *)
StartDrop(c) ==
  /\ life[c] \in {"owned", "lent"}
  /\ calls[c] = {}
  /\ life' = [life EXCEPT ![c] = "dropping"]
  /\ UNCHANGED calls

EndDrop(c) ==
  /\ life[c] = "dropping"
  /\ life' = [life EXCEPT ![c] = "dropped"]
  /\ UNCHANGED calls

ContractNext ==
  \E c \in Closure :
    \/ Construct(c) \/ Lend(c) \/ StartDrop(c) \/ EndDrop(c)
    \/ \E k \in Caller : StartCall(c, k) \/ EndCall(c, k)

ContractSpec == ContractInit /\ [][ContractNext]_contractVars

=============================================================================
