------------------------------ MODULE Occupancy ------------------------------
(***************************************************************************)
(* What the letting side promises: the leases, units and tenants tables    *)
(* when every request runs alone, one atomic step each.  LeaseHandlers     *)
(* gives the same tables step by step, with its requests interleaved, and  *)
(* implements this module when only one request is in flight.              *)
(*                                                                         *)
(* The PATCH handlers write only columns that are not modelled (contact    *)
(* details, rent, lease terms), so here they are stuttering steps.         *)
(***************************************************************************)
EXTENDS Rental

VARIABLES
    lease,    \* leases table:  code -> row
    unit,     \* units table:   unit -> row
    tenant    \* tenants table: tenant -> row

vars == <<lease, unit, tenant>>

TypeOK ==
    /\ lease \in [Leases -> LeaseRow]
    /\ unit \in [Units -> UnitRow]
    /\ tenant \in [Tenants -> TenantRow]

(***************************************************************************)
(* The seeded database.  Any historic leases, provided no tenant and no    *)
(* unit has two live ones; the live ones have their occupancy pointers     *)
(* wired and their tenants are active or on notice.  The other tenants     *)
(* have left, are blacklisted, or are not onboarded yet.                   *)
(***************************************************************************)
SeedTables ==
    { [l \in Leases |-> IF l <= SeedLeases THEN rows[l] ELSE NoLease] :
         rows \in [1..SeedLeases -> [tenant : Tenants, unit : Units, status : LeaseStatus]] }

LiveOn(l, u) == Live(lease[l]) /\ lease[l].unit = u

LiveOf(l, t) == Live(lease[l]) /\ lease[l].tenant = t

SeedUnit(u) ==
    IF \E l \in Leases : LiveOn(l, u)
    THEN Occupied(lease[CHOOSE l \in Leases : LiveOn(l, u)].tenant)
    ELSE Vacant

SeedHome(t) ==
    IF \E l \in Leases : LiveOf(l, t)
    THEN lease[CHOOSE l \in Leases : LiveOf(l, t)].unit
    ELSE NoUnit

SeedStatus(t) ==
    IF \E l \in Leases : LiveOf(l, t) THEN {"active", "notice"}
    ELSE {"vacated", "blacklisted"} \cup
         (IF \E l \in Leases : lease[l].tenant = t THEN {} ELSE {"none"})

Init ==
    /\ lease \in SeedTables
    /\ \A k, l \in Leases : Live(lease[k]) /\ Live(lease[l]) /\ k # l =>
          lease[k].tenant # lease[l].tenant /\ lease[k].unit # lease[l].unit
    /\ unit = [u \in Units |-> SeedUnit(u)]
    /\ tenant \in [Tenants -> TenantRow]
    /\ \A t \in Tenants : tenant[t].unit = SeedHome(t) /\ tenant[t].status \in SeedStatus(t)
-----------------------------------------------------------------------------
\* POST /tenants: a prospect, with no unit.
Onboard(t) ==
    /\ tenant[t].status = "none"
    /\ tenant' = [tenant EXCEPT ![t] = Prospect]
    /\ UNCHANGED <<lease, unit>>

\* MUTANT of CreateLease: the tenant's other leases are not looked up.
CreateSecondLease(t, u) ==
    /\ tenant[t].status \notin {"none", "blacklisted"}
    /\ unit[u].status = "vacant"
    /\ \E l \in Leases : IsNextCode(lease, l) /\ lease' = [lease EXCEPT ![l] = NewLease(t, u)]
    /\ unit' = [unit EXCEPT ![u] = Occupied(t)]
    /\ tenant' = [tenant EXCEPT ![t] = Housed(u)]

\* POST /leases: refused for an occupied unit, a blacklisted tenant, or a
\* tenant who already holds a live lease; else it houses the tenant.
CreateLease(t, u) ==
    /\ tenant[t].status \notin {"none", "blacklisted"}
    /\ unit[u].status = "vacant"
    /\ \A l \in Leases : ~LiveOf(l, t)
    /\ \E l \in Leases : IsNextCode(lease, l) /\ lease' = [lease EXCEPT ![l] = NewLease(t, u)]
    /\ unit' = [unit EXCEPT ![u] = Occupied(t)]
    /\ tenant' = [tenant EXCEPT ![t] = Housed(u)]

\* MUTANT of Terminate: the tenant row is forgotten.
TerminateUnitOnly(l) ==
    /\ Live(lease[l])
    /\ lease' = [lease EXCEPT ![l] = EndedLease(@)]
    /\ unit' = [unit EXCEPT ![lease[l].unit] = Vacant]
    /\ UNCHANGED tenant

\* MUTANT of Terminate: the unit row is forgotten.
TerminateTenantOnly(l) ==
    /\ Live(lease[l])
    /\ lease' = [lease EXCEPT ![l] = EndedLease(@)]
    /\ tenant' = [tenant EXCEPT ![lease[l].tenant] = MovedOut]
    /\ UNCHANGED unit

\* POST /leases/:code/terminate: ends a live lease and clears the occupancy
\* of the unit and the tenant it names, whoever occupies the unit by then.
Terminate(l) ==
    /\ Live(lease[l])
    /\ lease' = [lease EXCEPT ![l] = EndedLease(@)]
    /\ unit' = [unit EXCEPT ![lease[l].unit] = Vacant]
    /\ tenant' = [tenant EXCEPT ![lease[l].tenant] = MovedOut]

\* MUTANT of Blacklist: the unit is not vacated.
BlacklistInPlace(t) ==
    /\ tenant[t].status \notin {"none", "blacklisted"}
    /\ tenant' = [tenant EXCEPT ![t] = Blacklisted]
    /\ UNCHANGED <<lease, unit>>

\* POST /tenants/:code/blacklist: vacates the tenant's unit, if any.  The
\* tenant's lease is left as it is.
Blacklist(t) ==
    /\ tenant[t].status \notin {"none", "blacklisted"}
    /\ unit' = IF tenant[t].unit = NoUnit THEN unit
               ELSE [unit EXCEPT ![tenant[t].unit] = Vacant]
    /\ tenant' = [tenant EXCEPT ![t] = Blacklisted]
    /\ UNCHANGED lease

Next ==
    \/ \E t \in Tenants : Onboard(t) \/ Blacklist(t)
    \/ \E t \in Tenants, u \in Units : CreateLease(t, u)
    \/ \E l \in Leases : Terminate(l)

Spec == Init /\ [][Next]_vars
-----------------------------------------------------------------------------
\* A tenant never holds two live leases: POST /leases refuses a tenant who
\* holds one, and no other request makes a lease live.
OneLiveLeasePerTenant ==
    \A k, l \in Leases :
       Live(lease[k]) /\ Live(lease[l]) /\ lease[k].tenant = lease[l].tenant => k = l

\* A unit that names an occupant is the unit that occupant names, and the two
\* have a live lease; a unit that names nobody is free to let.  So nobody ever
\* occupies a unit without a lease, though blacklisting leaves leases behind
\* and terminating such a lease vacates its unit under a later tenant.
OccupancyIsBacked ==
    \A u \in Units :
       /\ unit[u].tenant = Nobody => unit[u].status = "vacant"
       /\ \A t \in Tenants :
             unit[u].tenant = t =>
                /\ unit[u].status = "occupied"
                /\ tenant[t].unit = u
                /\ tenant[t].status \in {"active", "notice"}
                /\ \E l \in Leases : LiveOf(l, t) /\ LiveOn(l, u)

\* A tenant who has a unit has a live lease of that unit, even a tenant whose
\* unit was let to somebody else when an older lease of it was terminated.
HousingIsBacked ==
    \A t \in Tenants : tenant[t].unit # NoUnit =>
       \E l \in Leases : LiveOf(l, t) /\ LiveOn(l, tenant[t].unit)

\* An ended lease stays ended, and no lease changes hands or moves to another
\* unit: terminate refuses an ended lease, and nothing else writes the row.
EndedIsFinal ==
    [][\A l \in Leases : lease[l].status # "none" =>
          /\ lease[l].status = "ended" => lease'[l].status = "ended"
          /\ lease'[l].tenant = lease[l].tenant
          /\ lease'[l].unit = lease[l].unit]_vars

\* The comment on the Lease entity: a unit's and a tenant's occupancy columns
\* are derived from the active lease.  A live lease's unit would then always
\* be occupied by its tenant; blacklisting a housed tenant breaks it.
LeaseDecidesOccupancy ==
    \A l \in Leases : Live(lease[l]) => unit[lease[l].unit] = Occupied(lease[l].tenant)
=============================================================================
