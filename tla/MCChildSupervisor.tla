-------------------------- MODULE MCChildSupervisor --------------------------
(* Model checking of ChildSupervisor: pipes of one unit, so that each of   *)
(* the two sides can block on the other.                                   *)
EXTENDS ChildSupervisor
=============================================================================
