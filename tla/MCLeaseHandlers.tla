--------------------------- MODULE MCLeaseHandlers ---------------------------
(***************************************************************************)
(* LeaseHandlers for TLC.                                                  *)
(***************************************************************************)
EXTENDS LeaseHandlers, TLC

Symmetry == Permutations(Tenants) \cup Permutations(Units)
=============================================================================
