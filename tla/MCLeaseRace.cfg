\* Two concurrent creations for one tenant.
CONSTANTS
    Requests = {r1, r2}
    Ops = {"create"}
    Tenants = {t1}
    Units = {u1, u2}
    Nobody = Nobody
    NoUnit = NoUnit
    MaxLeases = 2
    SeedLeases = 0
SPECIFICATION Spec
INVARIANT OneLiveLeasePerTenant
CHECK_DEADLOCK FALSE
