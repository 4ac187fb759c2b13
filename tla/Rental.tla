------------------------------- MODULE Rental -------------------------------
(***************************************************************************)
(* The rows the letting side of the backend keeps: units, tenants and      *)
(* leases, reduced to the columns that say who lives where.                *)
(*                                                                         *)
(* A lease is known by the number in its code (L-01 is 1); tenants and     *)
(* units by model values, for their codes are never compared here.  A row  *)
(* that has not been inserted has the status "none".                       *)
(***************************************************************************)
EXTENDS Integers

CONSTANTS
    Tenants,      \* tenants that are, or may be, onboarded
    Units,        \* units of the portfolio
    Nobody,       \* NULL in units.tenantId
    NoUnit,       \* NULL in tenants.unitId
    MaxLeases,    \* bound: how many leases the model lets anybody insert
    SeedLeases    \* leases the seed data inserts, with codes 1..SeedLeases

ASSUME NullAssumption == Nobody \notin Tenants /\ NoUnit \notin Units

ASSUME LeaseAssumption ==
    MaxLeases \in Nat /\ SeedLeases \in Nat /\ SeedLeases <= MaxLeases

Leases == 1..MaxLeases

LeaseStatus == {"active", "ending", "ended"}

TenantStatus == {"active", "prospective", "notice", "vacated", "blacklisted"}

UnitStatus == {"vacant", "occupied"}

(***************************************************************************)
(* Row types.                                                              *)
(***************************************************************************)
LeaseRow == [tenant : Tenants \cup {Nobody}, unit : Units \cup {NoUnit},
             status : LeaseStatus \cup {"none"}]

TenantRow == [status : TenantStatus \cup {"none"}, unit : Units \cup {NoUnit}]

UnitRow == [status : UnitStatus, tenant : Tenants \cup {Nobody}]

NoLease == [tenant |-> Nobody, unit |-> NoUnit, status |-> "none"]

(***************************************************************************)
(* A live lease is one that LeasesService.create counts as held: active or *)
(* ending.  Nothing in the code ever makes a lease "ending"; the seed does. *)
(***************************************************************************)
Live(row) == row.status \in {"active", "ending"}

(***************************************************************************)
(* The values the writers of the three tables store.                       *)
(***************************************************************************)
NewLease(t, u) == [tenant |-> t, unit |-> u, status |-> "active"]

EndedLease(row) == [row EXCEPT !.status = "ended"]

Occupied(t) == [status |-> "occupied", tenant |-> t]

Vacant == [status |-> "vacant", tenant |-> Nobody]

Prospect == [status |-> "prospective", unit |-> NoUnit]

Housed(u) == [status |-> "active", unit |-> u]

\* MUTANT of MovedOut: the unit's enumeration instead of the tenant's.
MovedOutVacant == [status |-> "vacant", unit |-> NoUnit]

MovedOut == [status |-> "vacated", unit |-> NoUnit]

Blacklisted == [status |-> "blacklisted", unit |-> NoUnit]

\* MUTANT of IsNextCode: the codes of ended leases are given out again.
IsNextCodeOfLive(leases, l) ==
    /\ l \in Leases
    /\ \A k \in Leases : k >= l => ~Live(leases[k])
    /\ l > 1 => Live(leases[l - 1])

(***************************************************************************)
(* MAX(code) + 1 over the leases table, as a predicate on the number: it is *)
(* past every existing code and follows one directly, or is the first.     *)
(***************************************************************************)
IsNextCode(leases, l) ==
    /\ l \in Leases
    /\ \A k \in Leases : k >= l => leases[k].status = "none"
    /\ l > 1 => leases[l - 1].status # "none"
=============================================================================
