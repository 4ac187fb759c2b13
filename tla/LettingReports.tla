---------------------------- MODULE LettingReports ----------------------------
(***************************************************************************)
(* The reports on who lives where, computed when asked for from the        *)
(* properties, units and tenants tables.  They look at no lease: what a    *)
(* property earns and who is a tenant is read off the status columns.      *)
(***************************************************************************)
EXTENDS Occupancy, FiniteSetsExt

CONSTANTS
    Properties,
    PropertyOf,    \* unit -> its property
    Rent           \* unit -> units.rent, per month

ASSUME PortfolioAssumption ==
    /\ IsFiniteSet(Units) /\ IsFiniteSet(Properties)
    /\ PropertyOf \in [Units -> Properties]
    /\ Rent \in [Units -> Nat]

Occupancies(us) == {u \in us : unit[u].status = "occupied"}

UnitsOf(p) == {u \in Units : PropertyOf[u] = p}

RentOf(us) == SumFunctionOnSet(Rent, us)

\* Math.round((part / whole) * 100).
Percent(part, whole) == IF whole = 0 THEN 0 ELSE (200 * part + whole) \div (2 * whole)

RevenueByProperty ==
    LET total == RentOf(Occupancies(Units)) IN
    [p \in Properties |->
       [occupied |-> Cardinality(Occupancies(UnitsOf(p))),
        units    |-> Cardinality(UnitsOf(p)),
        roll     |-> RentOf(Occupancies(UnitsOf(p))),
        share    |-> Percent(RentOf(Occupancies(UnitsOf(p))), total)]]

OccupancyRates ==
    [p \in Properties |->
       LET occ == Cardinality(Occupancies(UnitsOf(p)))
           us == Cardinality(UnitsOf(p))
       IN [vacant |-> us - occ, rate |-> Percent(occ, us)]]

VacancyReport ==
    LET list == {u \in Units : unit[u].status = "vacant"}
    IN [units |-> Cardinality(list), lost |-> RentOf(list)]

TenantDirectory ==
    LET list == {t \in Tenants : tenant[t].status # "none"}
    IN [total  |-> Cardinality(list),
        active |-> Cardinality({t \in list : tenant[t].status = "active"})]
-----------------------------------------------------------------------------
LiveLeases == {l \in Leases : Live(lease[l])}

\* The revenue report counts occupied units at their rent: no property is
\* credited with rent that no live lease backs, and what the vacancy report
\* calls lost is all the rest, unit by unit as in the occupancy report.
RentRollIsLet ==
    /\ \A p \in Properties :
          /\ RevenueByProperty[p].roll <= RentOf({lease[l].unit : l \in LiveLeases} \cap UnitsOf(p))
          /\ OccupancyRates[p].vacant = RevenueByProperty[p].units - RevenueByProperty[p].occupied
    /\ VacancyReport.units =
          SumFunctionOnSet([p \in Properties |-> OccupancyRates[p].vacant], Properties)
    /\ VacancyReport.lost + RentOf(Occupancies(Units)) = RentOf(Units)

\* The directory's count of active tenants is of people with a lease: all of
\* them, and those on notice, hold different live leases, so they are no more
\* than the live leases, though blacklisting leaves live leases behind that
\* belong to nobody active.
ActiveTenantsAreLeased ==
    /\ \A t \in Tenants : tenant[t].status \in {"active", "notice"} =>
          \E l \in LiveLeases : LiveOf(l, t) /\ LiveOn(l, tenant[t].unit)
    /\ TenantDirectory.active <= Cardinality(LiveLeases)
=============================================================================
