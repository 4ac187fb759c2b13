\* A PATCH of a unit or a tenant while a creation is in flight.
CONSTANTS
    Requests = {r1, r2}
    Ops = {"create", "patchUnit", "patchTenant"}
    Tenants = {t1}
    Units = {u1}
    Nobody = Nobody
    NoUnit = NoUnit
    MaxLeases = 1
    SeedLeases = 0
SPECIFICATION Spec
PROPERTY EditsLeaveOccupancy
CHECK_DEADLOCK FALSE
