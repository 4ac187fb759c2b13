\* One request at a time: the handlers implement Occupancy.
CONSTANTS
    Requests = {r1}
    Ops = {"onboard", "create", "terminate", "blacklist", "patchUnit", "patchTenant", "patchLease"}
    Tenants = {t1, t2}
    Units = {u1, u2}
    Nobody = Nobody
    NoUnit = NoUnit
    MaxLeases = 3
    SeedLeases = 1
SYMMETRY Symmetry
SPECIFICATION Spec
PROPERTY ImplementsOccupancy
