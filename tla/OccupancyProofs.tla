--------------------------- MODULE OccupancyProofs ---------------------------
(***************************************************************************)
(* What Occupancy keeps for any number of tenants, units and leases.  The  *)
(* occupancy pointers and the leases are correct only together: a unit's   *)
(* occupant is backed by a lease, that lease is the occupant's only one,   *)
(* and the occupant's own row names the unit.  IInv is their conjunction.  *)
(***************************************************************************)
EXTENDS LettingReports, Totals

\* A row that was inserted names a tenant and a unit.
RowsAreWhole ==
    \A l \in Leases : lease[l].status # "none" =>
       lease[l].tenant \in Tenants /\ lease[l].unit \in Units

IInv ==
    /\ TypeOK
    /\ RowsAreWhole
    /\ OneLiveLeasePerTenant
    /\ OccupancyIsBacked
    /\ HousingIsBacked
-----------------------------------------------------------------------------
(***************************************************************************)
(* The seed data.                                                          *)
(***************************************************************************)

\* A live lease in the seed data is one of the seeded rows: seeding wires
\* occupancy from leases that name a tenant and a unit.
LEMMA SeedRows ==
    ASSUME lease \in SeedTables
    PROVE  /\ lease \in [Leases -> LeaseRow]
           /\ RowsAreWhole
  <1>1. PICK s \in [1..SeedLeases -> [tenant : Tenants, unit : Units, status : LeaseStatus]] :
           lease = [l \in Leases |-> IF l <= SeedLeases THEN s[l] ELSE NoLease]
    BY DEF SeedTables
  <1>2. ASSUME NEW l \in Leases, l <= SeedLeases
        PROVE  /\ lease[l] = s[l]
               /\ s[l] \in [tenant : Tenants, unit : Units, status : LeaseStatus]
    <2>1. l \in 1..SeedLeases
      BY <1>2, LeaseAssumption DEF Leases
    <2> QED BY <1>1, <1>2, <2>1
  <1>3. ASSUME NEW l \in Leases, ~(l <= SeedLeases)
        PROVE  lease[l] = NoLease
    BY <1>1, <1>3
  <1>4. ASSUME NEW l \in Leases
        PROVE  /\ lease[l] \in LeaseRow
               /\ lease[l].status # "none" => lease[l].tenant \in Tenants /\ lease[l].unit \in Units
    <2>1. CASE l <= SeedLeases
      BY <1>2, <2>1 DEF LeaseRow, LeaseStatus
    <2>2. CASE ~(l <= SeedLeases)
      BY <1>3, <2>2 DEF LeaseRow, NoLease
    <2> QED BY <2>1, <2>2
  <1>5. lease = [l \in Leases |-> lease[l]]
    BY <1>1
  <1> QED BY <1>4, <1>5 DEF RowsAreWhole

\* The seed makes a unit name the tenant of a live lease of it, or nobody.
LEMMA SeedUnitIsLet ==
    ASSUME lease \in [Leases -> LeaseRow], RowsAreWhole, NEW u \in Units
    PROVE  \/ SeedUnit(u) = Vacant /\ ~ \E l \in Leases : LiveOn(l, u)
           \/ \E l \in Leases : LiveOn(l, u) /\ SeedUnit(u) = Occupied(lease[l].tenant)
  BY DEF SeedUnit

\* The seed gives a tenant the unit of a live lease of theirs, or none.
LEMMA SeedHomeIsLeased ==
    ASSUME NEW t \in Tenants
    PROVE  \/ SeedHome(t) = NoUnit /\ ~ \E l \in Leases : LiveOf(l, t)
           \/ \E l \in Leases : LiveOf(l, t) /\ SeedHome(t) = lease[l].unit
  BY DEF SeedHome

\* The invariant holds of every seeded database.
LEMMA InitInv == Init => IInv
  <1> SUFFICES ASSUME Init PROVE IInv
    OBVIOUS
  <1>1. lease \in [Leases -> LeaseRow] /\ RowsAreWhole
    BY SeedRows DEF Init
  <1>2. \A l \in Leases : Live(lease[l]) => lease[l].tenant \in Tenants /\ lease[l].unit \in Units
    BY <1>1 DEF RowsAreWhole, Live
  <1>3. OneLiveLeasePerTenant
    BY DEF Init, OneLiveLeasePerTenant
  <1>4. ASSUME NEW u \in Units
        PROVE  /\ unit[u] = SeedUnit(u)
               /\ unit[u] \in UnitRow
    <2>1. unit[u] = SeedUnit(u)
      BY DEF Init
    <2> QED BY <1>1, <1>2, <2>1, SeedUnitIsLet
            DEF UnitRow, UnitStatus, Vacant, Occupied, LiveOn
  <1>5. TypeOK
    <2>1. unit \in [Units -> UnitRow]
      BY <1>4 DEF Init
    <2> QED BY <1>1, <2>1 DEF Init, TypeOK
  <1>6. HousingIsBacked
    BY SeedHomeIsLeased DEF HousingIsBacked, Init, LiveOf, LiveOn
  <1>7. OccupancyIsBacked
    <2> SUFFICES ASSUME NEW u \in Units
                 PROVE  /\ unit[u].tenant = Nobody => unit[u].status = "vacant"
                        /\ \A t \in Tenants : unit[u].tenant = t =>
                              /\ unit[u].status = "occupied"
                              /\ tenant[t].unit = u
                              /\ tenant[t].status \in {"active", "notice"}
                              /\ \E l \in Leases : LiveOf(l, t) /\ LiveOn(l, u)
      BY DEF OccupancyIsBacked
    <2>1. CASE unit[u] = Vacant
      BY <2>1, NullAssumption DEF Vacant
    <2>2. CASE unit[u] # Vacant
      <3>1. PICK l \in Leases : LiveOn(l, u) /\ unit[u] = Occupied(lease[l].tenant)
        BY <1>1, <1>4, <2>2, SeedUnitIsLet
      <3> DEFINE t == lease[l].tenant
      <3>2. t \in Tenants /\ LiveOf(l, t)
        BY <1>2, <3>1 DEF LiveOn, LiveOf
      <3>3. unit[u].tenant = t /\ unit[u].status = "occupied"
        BY <3>1 DEF Occupied
      <3>4. tenant[t].unit = SeedHome(t) /\ tenant[t].status \in SeedStatus(t)
        BY <3>2 DEF Init
      <3>5. tenant[t].status \in {"active", "notice"}
        BY <3>2, <3>4 DEF SeedStatus
      <3>6. PICK k \in Leases : LiveOf(k, t) /\ SeedHome(t) = lease[k].unit
        BY <3>2, SeedHomeIsLeased
      <3>7. k = l
        BY <1>3, <3>2, <3>6 DEF OneLiveLeasePerTenant, LiveOf
      <3>8. tenant[t].unit = u
        BY <3>1, <3>4, <3>6, <3>7 DEF LiveOn
      <3> HIDE DEF t
      <3> QED BY <3>1, <3>2, <3>3, <3>5, <3>8, NullAssumption
    <2> QED BY <2>1, <2>2
  <1> QED BY <1>1, <1>3, <1>5, <1>6, <1>7 DEF IInv
-----------------------------------------------------------------------------
(***************************************************************************)
(* The steps.                                                              *)
(***************************************************************************)

\* What a step leaves to be shown of one unit and of one tenant: the parts of
\* OccupancyIsBacked and HousingIsBacked that speak of it.
UnitBacked(u) ==
    /\ unit[u].tenant = Nobody => unit[u].status = "vacant"
    /\ \A t \in Tenants :
          unit[u].tenant = t =>
             /\ unit[u].status = "occupied"
             /\ tenant[t].unit = u
             /\ tenant[t].status \in {"active", "notice"}
             /\ \E l \in Leases : LiveOf(l, t) /\ LiveOn(l, u)

TenantBacked(t) ==
    tenant[t].unit # NoUnit => \E l \in Leases : LiveOf(l, t) /\ LiveOn(l, tenant[t].unit)

LEMMA BackedByParts ==
    /\ OccupancyIsBacked <=> \A u \in Units : UnitBacked(u)
    /\ HousingIsBacked <=> \A t \in Tenants : TenantBacked(t)
  BY DEF OccupancyIsBacked, HousingIsBacked, UnitBacked, TenantBacked

\* A vacant unit names nobody in particular to defend.
LEMMA VacantBacked == ASSUME NEW u \in Units, unit'[u] = Vacant PROVE UnitBacked(u)'
  BY NullAssumption DEF UnitBacked, Vacant

\* Onboarding touches one tenant, who has no unit and whom no unit names.
LEMMA OnboardInv == ASSUME IInv, NEW t \in Tenants, Onboard(t) PROVE IInv'
  <1> USE DEF IInv
  <1>1. tenant' = [tenant EXCEPT ![t] = Prospect] /\ unit' = unit /\ lease' = lease
    BY DEF Onboard
  <1>2. TypeOK'
    BY <1>1 DEF TypeOK, TenantRow, TenantStatus, Prospect
  <1>3. RowsAreWhole' /\ OneLiveLeasePerTenant'
    BY <1>1 DEF RowsAreWhole, OneLiveLeasePerTenant
  <1>4. ASSUME NEW u \in Units PROVE UnitBacked(u)'
    <2>1. UnitBacked(u) /\ unit[u].tenant # t
      BY BackedByParts DEF UnitBacked, Onboard
    <2> QED BY <1>1, <2>1 DEF UnitBacked, LiveOf, LiveOn, TypeOK
  <1>5. ASSUME NEW s \in Tenants PROVE TenantBacked(s)'
    <2>1. TenantBacked(s)
      BY BackedByParts
    <2>2. CASE s = t
      BY <1>1, <2>2 DEF TenantBacked, TypeOK, Prospect
    <2>3. CASE s # t
      BY <1>1, <2>1, <2>3 DEF TenantBacked, TypeOK, LiveOf, LiveOn
    <2> QED BY <2>2, <2>3
  <1>6. OccupancyIsBacked' /\ HousingIsBacked'
    BY <1>4, <1>5 DEF OccupancyIsBacked, HousingIsBacked, UnitBacked, TenantBacked
  <1> QED BY <1>2, <1>3, <1>6

\* A tenant without a live lease has no unit and is named by none, so the new
\* lease, the unit and the tenant are joined without disturbing another.
LEMMA CreateLeaseInv ==
    ASSUME IInv, NEW t \in Tenants, NEW u \in Units, CreateLease(t, u) PROVE IInv'
  <1> USE DEF IInv
  <1>1. PICK n \in Leases : IsNextCode(lease, n) /\ lease' = [lease EXCEPT ![n] = NewLease(t, u)]
    BY DEF CreateLease
  <1>2. /\ unit' = [unit EXCEPT ![u] = Occupied(t)]
        /\ tenant' = [tenant EXCEPT ![t] = Housed(u)]
        /\ ~ \E l \in Leases : LiveOf(l, t)
    BY DEF CreateLease
  <1>3. lease[n].status = "none"
    BY <1>1 DEF IsNextCode, Leases
  <1>4. lease'[n] = NewLease(t, u) /\ \A l \in Leases : l # n => lease'[l] = lease[l]
    BY <1>1 DEF TypeOK
  <1>5. TypeOK'
    <2>1. NewLease(t, u) \in LeaseRow /\ Occupied(t) \in UnitRow /\ Housed(u) \in TenantRow
      BY DEF NewLease, LeaseRow, LeaseStatus, Occupied, UnitRow, UnitStatus, Housed,
             TenantRow, TenantStatus
    <2> QED BY <1>1, <1>2, <2>1 DEF TypeOK
  <1>6. RowsAreWhole'
    BY <1>4 DEF RowsAreWhole, NewLease
  <1>7. OneLiveLeasePerTenant'
    BY <1>2, <1>4 DEF OneLiveLeasePerTenant, LiveOf, Live, NewLease
  <1>8. \A l \in Leases : Live(lease[l]) => l # n /\ Live(lease'[l]) /\ lease'[l] = lease[l]
    BY <1>3, <1>4 DEF Live
  <1>9. Live(lease'[n]) /\ lease'[n].tenant = t /\ lease'[n].unit = u
    BY <1>4 DEF NewLease, Live
  <1>10. ASSUME NEW v \in Units PROVE UnitBacked(v)'
    <2>1. CASE v = u
      <3>1. unit'[v] = Occupied(t) /\ tenant'[t] = Housed(u)
        BY <1>2, <2>1 DEF TypeOK
      <3> QED BY <1>9, <2>1, <3>1, NullAssumption
              DEF UnitBacked, Occupied, Housed, LiveOf, LiveOn
    <2>2. CASE v # u
      <3>1. UnitBacked(v) /\ unit[v].tenant # t
        BY <1>2, BackedByParts DEF UnitBacked
      <3>2. unit'[v] = unit[v] /\ \A s \in Tenants : s # t => tenant'[s] = tenant[s]
        BY <1>2, <2>2 DEF TypeOK
      <3> QED BY <1>8, <3>1, <3>2 DEF UnitBacked, LiveOf, LiveOn
    <2> QED BY <2>1, <2>2
  <1>11. ASSUME NEW s \in Tenants PROVE TenantBacked(s)'
    <2>1. CASE s = t
      <3>1. tenant'[s].unit = u
        BY <1>2, <2>1 DEF TypeOK, Housed
      <3> QED BY <1>9, <2>1, <3>1 DEF TenantBacked, LiveOf, LiveOn
    <2>2. CASE s # t
      <3>1. TenantBacked(s) /\ tenant'[s] = tenant[s]
        BY <1>2, <2>2, BackedByParts DEF TypeOK
      <3> QED BY <1>8, <3>1 DEF TenantBacked, LiveOf, LiveOn
    <2> QED BY <2>1, <2>2
  <1>12. OccupancyIsBacked' /\ HousingIsBacked'
    BY <1>10, <1>11 DEF OccupancyIsBacked, HousingIsBacked, UnitBacked, TenantBacked
  <1> QED BY <1>5, <1>6, <1>7, <1>12

\* Termination may vacate the unit under somebody else; what is left is still
\* backed, because the tenant it moves out has no other live lease.
LEMMA TerminateInv == ASSUME IInv, NEW l \in Leases, Terminate(l) PROVE IInv'
  <1> USE DEF IInv
  <1> DEFINE t == lease[l].tenant
             u == lease[l].unit
  <1>1. /\ Live(lease[l])
        /\ lease' = [lease EXCEPT ![l] = EndedLease(@)]
        /\ unit' = [unit EXCEPT ![u] = Vacant]
        /\ tenant' = [tenant EXCEPT ![t] = MovedOut]
    BY DEF Terminate
  <1>2. t \in Tenants /\ u \in Units
    BY <1>1 DEF RowsAreWhole, Live
  <1>3. /\ lease'[l] = [lease[l] EXCEPT !.status = "ended"]
        /\ \A k \in Leases : k # l => lease'[k] = lease[k]
    BY <1>1 DEF TypeOK, EndedLease
  <1>4. TypeOK'
    <2>1. EndedLease(lease[l]) \in LeaseRow
      BY DEF TypeOK, LeaseRow, LeaseStatus, EndedLease
    <2>2. Vacant \in UnitRow /\ MovedOut \in TenantRow
      BY DEF Vacant, UnitRow, UnitStatus, MovedOut, TenantRow, TenantStatus
    <2> QED BY <1>1, <1>2, <2>1, <2>2 DEF TypeOK
  <1>5. RowsAreWhole'
    BY <1>2, <1>3 DEF RowsAreWhole, TypeOK, LeaseRow
  <1>6. ~Live(lease'[l])
    BY <1>3 DEF TypeOK, LeaseRow, Live
  <1>7. OneLiveLeasePerTenant'
    BY <1>3, <1>6 DEF OneLiveLeasePerTenant
  <1>8. \A k \in Leases : Live(lease[k]) /\ lease[k].tenant # t => k # l /\ lease'[k] = lease[k]
    BY <1>3
  <1>9. ASSUME NEW v \in Units PROVE UnitBacked(v)'
    <2>1. CASE v = u
      BY <1>1, <2>1, VacantBacked DEF TypeOK
    <2>2. CASE v # u
      <3>1. UnitBacked(v)
        BY BackedByParts
      <3>2. unit[v].tenant # t
        <4>1. SUFFICES ASSUME unit[v].tenant = t PROVE FALSE
          OBVIOUS
        <4>2. PICK k \in Leases : LiveOf(k, t) /\ LiveOn(k, v)
          BY <1>2, <3>1, <4>1 DEF UnitBacked
        <4>3. k = l
          BY <1>1, <4>2 DEF OneLiveLeasePerTenant, LiveOf
        <4> QED BY <2>2, <4>2, <4>3 DEF LiveOn
      <3>3. unit'[v] = unit[v] /\ \A s \in Tenants : s # t => tenant'[s] = tenant[s]
        BY <1>1, <2>2 DEF TypeOK
      <3> HIDE DEF t, u
      <3> QED BY <1>8, <3>1, <3>2, <3>3 DEF UnitBacked, LiveOf, LiveOn
    <2> QED BY <2>1, <2>2
  <1>10. ASSUME NEW s \in Tenants PROVE TenantBacked(s)'
    <2>1. CASE s = t
      BY <1>1, <2>1 DEF TenantBacked, TypeOK, MovedOut
    <2>2. CASE s # t
      <3>1. TenantBacked(s) /\ tenant'[s] = tenant[s]
        BY <1>1, <2>2, BackedByParts DEF TypeOK
      <3> HIDE DEF t, u
      <3> QED BY <1>8, <2>2, <3>1 DEF TenantBacked, LiveOf, LiveOn
    <2> QED BY <2>1, <2>2
  <1>11. OccupancyIsBacked' /\ HousingIsBacked'
    BY <1>9, <1>10 DEF OccupancyIsBacked, HousingIsBacked, UnitBacked, TenantBacked
  <1> QED BY <1>4, <1>5, <1>7, <1>11

\* Blacklisting vacates the only unit that can name the tenant.
LEMMA BlacklistInv == ASSUME IInv, NEW t \in Tenants, Blacklist(t) PROVE IInv'
  <1> USE DEF IInv
  <1>1. /\ unit' = IF tenant[t].unit = NoUnit THEN unit
                   ELSE [unit EXCEPT ![tenant[t].unit] = Vacant]
        /\ tenant' = [tenant EXCEPT ![t] = Blacklisted]
        /\ lease' = lease
    BY DEF Blacklist
  <1>2. TypeOK'
    <2>1. Vacant \in UnitRow /\ Blacklisted \in TenantRow
      BY DEF Vacant, UnitRow, UnitStatus, Blacklisted, TenantRow, TenantStatus
    <2> QED BY <1>1, <2>1 DEF TypeOK
  <1>3. RowsAreWhole' /\ OneLiveLeasePerTenant'
    BY <1>1 DEF RowsAreWhole, OneLiveLeasePerTenant
  <1>4. ASSUME NEW v \in Units PROVE UnitBacked(v)'
    <2>1. CASE v = tenant[t].unit
      BY <1>1, <2>1, NullAssumption, VacantBacked DEF TypeOK
    <2>2. CASE v # tenant[t].unit
      <3>1. UnitBacked(v) /\ unit[v].tenant # t
        BY <2>2, BackedByParts DEF UnitBacked
      <3>2. unit'[v] = unit[v] /\ \A s \in Tenants : s # t => tenant'[s] = tenant[s]
        BY <1>1, <2>2 DEF TypeOK
      <3> QED BY <1>1, <3>1, <3>2 DEF UnitBacked, LiveOf, LiveOn
    <2> QED BY <2>1, <2>2
  <1>5. ASSUME NEW s \in Tenants PROVE TenantBacked(s)'
    <2>1. CASE s = t
      BY <1>1, <2>1 DEF TenantBacked, TypeOK, Blacklisted
    <2>2. CASE s # t
      <3>1. TenantBacked(s) /\ tenant'[s] = tenant[s]
        BY <1>1, <2>2, BackedByParts DEF TypeOK
      <3> QED BY <1>1, <3>1 DEF TenantBacked, LiveOf, LiveOn
    <2> QED BY <2>1, <2>2
  <1>6. OccupancyIsBacked' /\ HousingIsBacked'
    BY <1>4, <1>5 DEF OccupancyIsBacked, HousingIsBacked, UnitBacked, TenantBacked
  <1> QED BY <1>2, <1>3, <1>6

\* Every step keeps the invariant.
LEMMA NextInv == IInv /\ [Next]_vars => IInv'
  <1> SUFFICES ASSUME IInv, [Next]_vars PROVE IInv'
    OBVIOUS
  <1>1. ASSUME NEW t \in Tenants, Onboard(t) PROVE IInv'
    BY <1>1, OnboardInv
  <1>2. ASSUME NEW t \in Tenants, Blacklist(t) PROVE IInv'
    BY <1>2, BlacklistInv
  <1>3. ASSUME NEW t \in Tenants, NEW u \in Units, CreateLease(t, u) PROVE IInv'
    BY <1>3, CreateLeaseInv
  <1>4. ASSUME NEW l \in Leases, Terminate(l) PROVE IInv'
    BY <1>4, TerminateInv
  <1>5. CASE UNCHANGED vars
    BY <1>5 DEF vars, IInv, TypeOK, RowsAreWhole, OneLiveLeasePerTenant, OccupancyIsBacked,
                HousingIsBacked, LiveOf, LiveOn
  <1> QED BY <1>1, <1>2, <1>3, <1>4, <1>5 DEF Next

LEMMA Invariant == Spec => []IInv
  BY InitInv, NextInv, PTL DEF Spec
-----------------------------------------------------------------------------
\* Every reachable table holds rows of its row type.
THEOREM TypeCorrect == Spec => []TypeOK
  <1>1. IInv => TypeOK
    BY DEF IInv
  <1> QED BY <1>1, Invariant, PTL

\* However many tenants and units there are, POST /leases never gives a
\* tenant a second live lease when requests run one at a time.
THEOREM NoSecondLease == Spec => []OneLiveLeasePerTenant
  <1>1. IInv => OneLiveLeasePerTenant
    BY DEF IInv
  <1> QED BY <1>1, Invariant, PTL

\* Nobody ever occupies a unit without a live lease of it, through any history
\* of creations, terminations and blacklistings.
THEOREM OccupancyNeedsLease == Spec => []OccupancyIsBacked
  <1>1. IInv => OccupancyIsBacked
    BY DEF IInv
  <1> QED BY <1>1, Invariant, PTL

\* And no tenant has a unit without one.
THEOREM HousingNeedsLease == Spec => []HousingIsBacked
  <1>1. IInv => HousingIsBacked
    BY DEF IInv
  <1> QED BY <1>1, Invariant, PTL

\* No request revives an ended lease or hands a lease over.
THEOREM EndedForGood == Spec => EndedIsFinal
  <1> DEFINE Kept ==
        \A l \in Leases : lease[l].status # "none" =>
           /\ lease[l].status = "ended" => lease'[l].status = "ended"
           /\ lease'[l].tenant = lease[l].tenant
           /\ lease'[l].unit = lease[l].unit
  <1>1. ASSUME IInv, Next PROVE Kept
    <2>1. ASSUME NEW t \in Tenants, NEW u \in Units, CreateLease(t, u) PROVE Kept
      <3>1. PICK n \in Leases : IsNextCode(lease, n) /\ lease' = [lease EXCEPT ![n] = NewLease(t, u)]
        BY <2>1 DEF CreateLease
      <3>2. lease[n].status = "none"
        BY <3>1 DEF IsNextCode, Leases
      <3> QED BY <1>1, <3>1, <3>2 DEF IInv, TypeOK
    <2>2. ASSUME NEW k \in Leases, Terminate(k) PROVE Kept
      BY <1>1, <2>2 DEF Terminate, EndedLease, IInv, TypeOK, LeaseRow
    <2>3. ASSUME NEW t \in Tenants, Onboard(t) \/ Blacklist(t) PROVE Kept
      BY <2>3 DEF Onboard, Blacklist
    <2> QED BY <1>1, <2>1, <2>2, <2>3 DEF Next
  <1>2. IInv /\ [Next]_vars => [Kept]_vars
    BY <1>1
  <1> QED BY <1>2, Invariant, PTL DEF Spec, EndedIsFinal
-----------------------------------------------------------------------------
(***************************************************************************)
(* Blacklisting is the only gap in the rule that a live lease decides its  *)
(* unit's occupancy.                                                       *)
(***************************************************************************)
LettingNext ==
    \/ \E t \in Tenants : Onboard(t)
    \/ \E t \in Tenants, u \in Units : CreateLease(t, u)
    \/ \E l \in Leases : Terminate(l)

LettingSpec == Init /\ [][LettingNext]_vars

\* The seed wires the unit of every live lease.
LEMMA InitDecides == Init => LeaseDecidesOccupancy
  <1> SUFFICES ASSUME Init, NEW l \in Leases, Live(lease[l])
               PROVE  unit[lease[l].unit] = Occupied(lease[l].tenant)
    BY DEF LeaseDecidesOccupancy
  <1> DEFINE u == lease[l].unit
  <1>1. lease \in [Leases -> LeaseRow] /\ RowsAreWhole
    BY SeedRows DEF Init
  <1>2. u \in Units /\ LiveOn(l, u)
    BY <1>1 DEF RowsAreWhole, Live, LiveOn
  <1>3. PICK k \in Leases : LiveOn(k, u) /\ SeedUnit(u) = Occupied(lease[k].tenant)
    BY <1>1, <1>2, SeedUnitIsLet
  <1>4. k = l
    BY <1>2, <1>3 DEF Init, LiveOn
  <1> QED BY <1>2, <1>3, <1>4 DEF Init

\* A creation lets a vacant unit, which no live lease is of; a termination
\* vacates the unit of no other live lease.
LEMMA LettingDecides ==
    IInv /\ LeaseDecidesOccupancy /\ [LettingNext]_vars => LeaseDecidesOccupancy'
  <1> SUFFICES ASSUME IInv, LeaseDecidesOccupancy, [LettingNext]_vars,
                      NEW k \in Leases, Live(lease'[k])
               PROVE  unit'[lease'[k].unit] = Occupied(lease'[k].tenant)
    BY DEF LeaseDecidesOccupancy
  <1> USE DEF IInv
  <1>1. ASSUME NEW t \in Tenants, NEW u \in Units, CreateLease(t, u)
        PROVE  unit'[lease'[k].unit] = Occupied(lease'[k].tenant)
    <2>1. PICK n \in Leases : lease' = [lease EXCEPT ![n] = NewLease(t, u)]
      BY <1>1 DEF CreateLease
    <2>2. unit' = [unit EXCEPT ![u] = Occupied(t)] /\ unit[u].status = "vacant"
      BY <1>1 DEF CreateLease
    <2>3. CASE k = n
      BY <2>1, <2>2, <2>3 DEF TypeOK, NewLease
    <2>4. CASE k # n
      <3>1. lease'[k] = lease[k]
        BY <2>1, <2>4 DEF TypeOK
      <3>2. unit[lease[k].unit] = Occupied(lease[k].tenant)
        BY <3>1 DEF LeaseDecidesOccupancy
      <3>3. lease[k].unit # u
        BY <2>2, <3>2 DEF Occupied
      <3> QED BY <2>2, <3>1, <3>2, <3>3 DEF TypeOK
    <2> QED BY <2>3, <2>4
  <1>2. ASSUME NEW l \in Leases, Terminate(l)
        PROVE  unit'[lease'[k].unit] = Occupied(lease'[k].tenant)
    <2>1. /\ Live(lease[l])
          /\ lease' = [lease EXCEPT ![l] = EndedLease(@)]
          /\ unit' = [unit EXCEPT ![lease[l].unit] = Vacant]
      BY <1>2 DEF Terminate
    <2>2. k # l
      BY <2>1 DEF TypeOK, LeaseRow, EndedLease, Live
    <2>3. lease'[k] = lease[k]
      BY <2>1, <2>2 DEF TypeOK
    <2>4. /\ unit[lease[k].unit] = Occupied(lease[k].tenant)
          /\ unit[lease[l].unit] = Occupied(lease[l].tenant)
      BY <2>1, <2>3 DEF LeaseDecidesOccupancy
    <2>5. lease[k].unit # lease[l].unit
      BY <2>1, <2>2, <2>3, <2>4 DEF OneLiveLeasePerTenant, Occupied
    <2> QED BY <2>1, <2>3, <2>4, <2>5 DEF TypeOK
  <1>3. ASSUME NEW t \in Tenants, Onboard(t)
        PROVE  unit'[lease'[k].unit] = Occupied(lease'[k].tenant)
    BY <1>3 DEF Onboard, LeaseDecidesOccupancy
  <1>4. CASE UNCHANGED vars
    BY <1>4 DEF vars, LeaseDecidesOccupancy
  <1> QED BY <1>1, <1>2, <1>3, <1>4 DEF LettingNext

\* As long as no tenant is blacklisted, the unit of a live lease is occupied
\* by its tenant, however many there are: POST /tenants/:code/blacklist, which
\* leaves the lease as it is, is the only operation that breaks the rule.
THEOREM LettingDecidesOccupancy == LettingSpec => []LeaseDecidesOccupancy
  <1>1. LettingNext => Next
    BY DEF LettingNext, Next
  <1>2. IInv /\ [LettingNext]_vars => IInv'
    BY <1>1, NextInv
  <1> QED BY <1>2, InitInv, InitDecides, LettingDecides, PTL DEF LettingSpec
-----------------------------------------------------------------------------
(***************************************************************************)
(* The tenant directory counts people with a lease.                        *)
(***************************************************************************)
\* Whoever lives in the portfolio has a unit.
ActiveHaveHomes ==
    \A t \in Tenants : tenant[t].status \in {"active", "notice"} => tenant[t].unit # NoUnit

LEMMA HomesStart == Init => ActiveHaveHomes
  <1> SUFFICES ASSUME Init, NEW t \in Tenants, tenant[t].status \in {"active", "notice"}
               PROVE  tenant[t].unit # NoUnit
    BY DEF ActiveHaveHomes
  <1>1. RowsAreWhole
    BY SeedRows DEF Init
  <1>2. \E l \in Leases : LiveOf(l, t)
    BY DEF Init, SeedStatus
  <1>3. PICK l \in Leases : LiveOf(l, t) /\ tenant[t].unit = lease[l].unit
    BY <1>2, SeedHomeIsLeased DEF Init
  <1> QED BY <1>1, <1>3, NullAssumption DEF RowsAreWhole, LiveOf, Live

LEMMA HomesStay == IInv /\ ActiveHaveHomes /\ [Next]_vars => ActiveHaveHomes'
  <1> SUFFICES ASSUME IInv, ActiveHaveHomes, [Next]_vars PROVE ActiveHaveHomes'
    OBVIOUS
  <1>1. tenant \in [Tenants -> TenantRow]
    BY DEF IInv, TypeOK
  <1>2. ASSUME NEW t \in Tenants, NEW row, tenant' = [tenant EXCEPT ![t] = row],
               row.status \in {"active", "notice"} => row.unit # NoUnit
        PROVE  ActiveHaveHomes'
    BY <1>1, <1>2 DEF ActiveHaveHomes
  <1>3. ASSUME NEW t \in Tenants, Onboard(t) \/ Blacklist(t) PROVE ActiveHaveHomes'
    BY <1>2, <1>3 DEF Onboard, Blacklist, Prospect, Blacklisted
  <1>4. ASSUME NEW t \in Tenants, NEW u \in Units, CreateLease(t, u) PROVE ActiveHaveHomes'
    BY <1>2, <1>4, NullAssumption DEF CreateLease, Housed
  <1>5. ASSUME NEW l \in Leases, Terminate(l) PROVE ActiveHaveHomes'
    <2>1. lease[l].tenant \in Tenants /\ tenant' = [tenant EXCEPT ![lease[l].tenant] = MovedOut]
      BY <1>5 DEF Terminate, IInv, RowsAreWhole, Live
    <2> QED BY <1>2, <2>1 DEF MovedOut
  <1>6. CASE UNCHANGED vars
    BY <1>6 DEF vars, ActiveHaveHomes
  <1> QED BY <1>3, <1>4, <1>5, <1>6 DEF Next

\* Different tenants hold different leases.
LEMMA NoMoreThanLeases ==
    ASSUME IInv, ActiveHaveHomes
    PROVE  ActiveTenantsAreLeased
  <1>1. ASSUME NEW t \in Tenants, tenant[t].status \in {"active", "notice"}
        PROVE  \E l \in LiveLeases : LiveOf(l, t) /\ LiveOn(l, tenant[t].unit)
    BY <1>1 DEF ActiveHaveHomes, IInv, HousingIsBacked, LiveLeases, LiveOf
  <1> DEFINE list == {t \in Tenants : tenant[t].status # "none"}
             A == {t \in list : tenant[t].status = "active"}
             f == [t \in A |-> CHOOSE l \in LiveLeases : LiveOf(l, t)]
  <1>2. \A t \in A : f[t] \in LiveLeases /\ LiveOf(f[t], t)
    BY <1>1
  <1>3. \A s, t \in A : f[s] = f[t] => s = t
    BY <1>2 DEF LiveOf
  <1>4. f \in Injection(A, LiveLeases)
    BY <1>2, <1>3 DEF Injection, IsInjective
  <1>5. IsFiniteSet(LiveLeases)
    <2>1. IsFiniteSet(Leases)
      BY FS_Interval, LeaseAssumption DEF Leases
    <2>2. LiveLeases \in SUBSET Leases
      BY DEF LiveLeases
    <2> QED BY <2>1, <2>2, FS_Subset
  <1>6. Cardinality(A) <= Cardinality(LiveLeases)
    BY <1>4, <1>5, FS_Injection
  <1>7. TenantDirectory.active = Cardinality(A)
    BY DEF TenantDirectory
  <1> QED BY <1>1, <1>6, <1>7 DEF ActiveTenantsAreLeased

\* However leases and tenants come and go, the directory's active tenants all
\* have a live lease, and are no more than the live leases.
THEOREM DirectoryCountsLeases == Spec => []ActiveTenantsAreLeased
  <1>1. IInv /\ ActiveHaveHomes => ActiveTenantsAreLeased
    BY NoMoreThanLeases
  <1>2. Spec => []ActiveHaveHomes
    BY HomesStart, HomesStay, Invariant, PTL DEF Spec
  <1> QED BY <1>1, <1>2, Invariant, PTL
-----------------------------------------------------------------------------
(***************************************************************************)
(* The reports on properties add up.                                       *)
(***************************************************************************)
LEMMA RentIsNumber == \A u \in Units : Rent[u] \in Nat /\ Rent[u] \in Int
  BY PortfolioAssumption

LEMMA VacantOrOccupied ==
    ASSUME IInv
    PROVE  \A u \in Units : unit[u].status = "vacant" <=> unit[u].status # "occupied"
  BY DEF IInv, TypeOK, UnitRow, UnitStatus

\* An occupied unit is let.
LEMMA OccupiedIsLet ==
    ASSUME IInv, NEW u \in Units, unit[u].status = "occupied"
    PROVE  \E l \in LiveLeases : lease[l].unit = u
  <1>1. unit[u].tenant \in Tenants
    BY DEF IInv, TypeOK, UnitRow, OccupancyIsBacked
  <1> QED BY <1>1 DEF IInv, OccupancyIsBacked, LiveLeases, LiveOf, LiveOn

\* A property's vacant units are those that are not occupied.
LEMMA VacantOfProperty ==
    ASSUME IInv, NEW p \in Properties
    PROVE  OccupancyRates[p].vacant
              = Cardinality({u \in Units : unit[u].status = "vacant" /\ PropertyOf[u] = p})
  <1> DEFINE vacant == {u \in Units : unit[u].status = "vacant" /\ PropertyOf[u] = p}
  <1>1. IsFiniteSet(UnitsOf(p)) /\ Occupancies(UnitsOf(p)) \subseteq UnitsOf(p)
    BY PortfolioAssumption, FS_Subset DEF UnitsOf, Occupancies
  <1>2. vacant = UnitsOf(p) \ Occupancies(UnitsOf(p))
    BY VacantOrOccupied DEF UnitsOf, Occupancies
  <1> HIDE DEF vacant
  <1>3. Cardinality(UnitsOf(p) \ Occupancies(UnitsOf(p)))
          = Cardinality(UnitsOf(p)) - Cardinality(Occupancies(UnitsOf(p)))
    <2>1. UnitsOf(p) \cap Occupancies(UnitsOf(p)) = Occupancies(UnitsOf(p))
      BY <1>1
    <2> QED BY <1>1, <2>1, FS_Difference
  <1>4. OccupancyRates[p].vacant
          = Cardinality(UnitsOf(p)) - Cardinality(Occupancies(UnitsOf(p)))
    BY DEF OccupancyRates
  <1> QED BY <1>2, <1>3, <1>4 DEF vacant

LEMMA RentRollAddsUp == ASSUME IInv PROVE RentRollIsLet
  <1>1. ASSUME NEW p \in Properties
        PROVE  /\ RevenueByProperty[p].roll
                     <= RentOf({lease[l].unit : l \in LiveLeases} \cap UnitsOf(p))
               /\ OccupancyRates[p].vacant
                     = RevenueByProperty[p].units - RevenueByProperty[p].occupied
    <2> DEFINE let == {lease[l].unit : l \in LiveLeases} \cap UnitsOf(p)
    <2>1. Occupancies(UnitsOf(p)) \subseteq let
      BY OccupiedIsLet DEF Occupancies, UnitsOf
    <2>2. let \subseteq Units
      BY DEF UnitsOf
    <2> HIDE DEF let
    <2>3. IsFiniteSet(let) /\ \A u \in let : Rent[u] \in Nat
      BY <2>2, PortfolioAssumption, FS_Subset, RentIsNumber
    <2>4. RentOf(Occupancies(UnitsOf(p))) <= RentOf(let)
      BY <2>1, <2>3, SumOfPart DEF RentOf
    <2>5. RevenueByProperty[p].roll = RentOf(Occupancies(UnitsOf(p)))
      BY DEF RevenueByProperty
    <2>6. OccupancyRates[p].vacant
            = RevenueByProperty[p].units - RevenueByProperty[p].occupied
      BY DEF OccupancyRates, RevenueByProperty
    <2> QED BY <2>4, <2>5, <2>6 DEF let
  <1>2. VacancyReport.units =
           SumFunctionOnSet([p \in Properties |-> OccupancyRates[p].vacant], Properties)
    <2> DEFINE vacant == {u \in Units : unit[u].status = "vacant"}
               flag == [u \in Units |-> IF unit[u].status = "vacant" THEN 1 ELSE 0]
               vacancies == [p \in Properties |-> OccupancyRates[p].vacant]
    <2>1. /\ \A u \in Units : flag[u] \in Int
          /\ \A u \in vacant : flag[u] = 1
          /\ \A u \in Units \ vacant : flag[u] = 0
          /\ vacant \subseteq Units
      OBVIOUS
    <2>2. IsFiniteSet(Units) /\ IsFiniteSet(Properties) /\ \A u \in Units : PropertyOf[u] \in Properties
      BY PortfolioAssumption
    <2>3. ASSUME NEW p \in Properties
          PROVE  vacancies[p] = SumFunctionOnSet(flag, {u \in Units : PropertyOf[u] = p})
      <3> DEFINE T == {u \in Units : PropertyOf[u] = p}
                 V == {u \in Units : unit[u].status = "vacant" /\ PropertyOf[u] = p}
      <3>1. vacancies[p] = Cardinality(V)
        BY VacantOfProperty
      <3>2. V \subseteq T /\ (\A u \in V : flag[u] = 1) /\ \A u \in T \ V : flag[u] = 0
        OBVIOUS
      <3>3. IsFiniteSet(T)
        BY <2>2, FS_Subset
      <3> HIDE DEF T, V, flag, vacancies
      <3>4. SumFunctionOnSet(flag, T) = Cardinality(V)
        BY <3>2, <3>3, SumOfFlags
      <3> QED BY <3>1, <3>4 DEF T
    <2>4. VacancyReport.units = Cardinality(vacant)
      BY DEF VacancyReport
    <2> HIDE DEF vacant, flag, vacancies
    <2>5. SumFunctionOnSet(flag, Units) = Cardinality(vacant)
      BY <2>1, <2>2, SumOfFlags
    <2>6. SumFunctionOnSet(vacancies, Properties) = SumFunctionOnSet(flag, Units)
      BY <2>1, <2>2, <2>3, SumOfParts
    <2> QED BY <2>4, <2>5, <2>6 DEF vacancies
  <1>3. VacancyReport.lost + RentOf(Occupancies(Units)) = RentOf(Units)
    <2> DEFINE vacant == {u \in Units : unit[u].status = "vacant"}
    <2>1. vacant \subseteq Units /\ Units \ vacant = Occupancies(Units)
      BY VacantOrOccupied DEF Occupancies
    <2>2. VacancyReport.lost = RentOf(vacant)
      BY DEF VacancyReport
    <2> HIDE DEF vacant
    <2>3. RentOf(Units) = RentOf(vacant) + RentOf(Occupancies(Units))
      BY <2>1, PortfolioAssumption, RentIsNumber, SumSplits DEF RentOf
    <2>4. IsFiniteSet(vacant) /\ IsFiniteSet(Occupancies(Units))
      BY <2>1, PortfolioAssumption, FS_Subset DEF Occupancies
    <2>5. RentOf(vacant) \in Int
      <3>1. \A u \in vacant : Rent[u] \in Int
        BY <2>1, RentIsNumber
      <3> QED BY <2>4, <3>1, SumIsInt DEF RentOf
    <2>6. RentOf(Occupancies(Units)) \in Int
      <3>1. \A u \in Occupancies(Units) : Rent[u] \in Int
        BY RentIsNumber DEF Occupancies
      <3> QED BY <2>4, <3>1, SumIsInt DEF RentOf
    <2> QED BY <2>2, <2>3, <2>5, <2>6
  <1> QED BY <1>1, <1>2, <1>3 DEF RentRollIsLet

\* Every rent the revenue report credits to a property is backed by a live
\* lease, and units and rents add up over any portfolio, however its units are
\* spread over properties.
THEOREM RentRollIsBacked == Spec => []RentRollIsLet
  BY RentRollAddsUp, Invariant, PTL
=============================================================================
