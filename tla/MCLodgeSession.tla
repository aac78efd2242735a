--------------------------- MODULE MCLodgeSession ---------------------------
(* Model checking of LodgeSession: commands are interchangeable.           *)
EXTENDS LodgeSession, TLC

Symmetry == Permutations(Procs)
=============================================================================
