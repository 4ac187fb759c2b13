----------------------------- MODULE MCBackoffice -----------------------------
(***************************************************************************)
(* Backoffice for TLC: each behaviour calls the endpoints of one desk, so  *)
(* that the tables of the others do not multiply its states.               *)
(***************************************************************************)
EXTENDS Backoffice, TLC

Desks ==
    {MaintenanceEndpoints \cup TechnicianEndpoints,
     DocumentEndpoints,
     PropertyEndpoints \cup UnitEndpoints,
     NotificationEndpoints,
     SettingsEndpoints}

Symmetry == Permutations(Requests) \cup Permutations(Categories) \cup Permutations(Doors)
              \cup Permutations(Settings)
=============================================================================
