CONSTANTS
    Tenants = {t1, t2, t3}
    u1 = u1
    u2 = u2
    Units = {u1, u2}
    Properties = {1, 2}
    PropertyOf <- Addresses
    Rent <- Rents
    Nobody = Nobody
    NoUnit = NoUnit
    MaxLeases = 5
    SeedLeases = 1
SPECIFICATION Spec
INVARIANT LeaseDecidesOccupancy
CHECK_DEADLOCK FALSE
