----------------------------- MODULE MCOccupancy -----------------------------
(***************************************************************************)
(* Occupancy and its reports for TLC: three tenants and two units, so that *)
(* a unit can pass from hand to hand while an earlier tenant's lease is    *)
(* still live; the units are in different properties at different rents.   *)
(***************************************************************************)
EXTENDS LettingReports, TLC

CONSTANTS u1, u2

Addresses == (u1 :> 1) @@ (u2 :> 2)

Rents == (u1 :> 3) @@ (u2 :> 5)

Symmetry == Permutations(Tenants)
=============================================================================
