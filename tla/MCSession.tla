------------------------------ MODULE MCSession ------------------------------
(* An instance of Session for TLC.                                         *)
EXTENDS Session, TLC

CONSTANTS e1, e2

(* An advanced subscriber and its sample miss listener.  The subscriber's  *)
(* callback may undeclare the listener, and so waits in a runtime thread.  *)
ExtKind == (e1 :> AdvancedSubscriber) @@ (e2 :> SampleMissListener)
ExtParent == (e1 :> None) @@ (e2 :> e1)
Reentry == {<<e1, e2>>}
=============================================================================
