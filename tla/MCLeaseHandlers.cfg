\* Two requests in flight, none of them a PATCH.  Deadlock is NoDeadlock: the
\* system stops where the bound leaves nothing to ask for.
CONSTANTS
    Requests = {r1, r2}
    Ops = {"onboard", "create", "terminate", "blacklist"}
    Tenants = {t1, t2}
    Units = {u1}
    Nobody = Nobody
    NoUnit = NoUnit
    MaxLeases = 3
    SeedLeases = 1
SPECIFICATION FairSpec
INVARIANTS TypeOK LeaseIsWhole CodesAreFree NoDeadlock
PROPERTIES EveryRequestEnds
CHECK_DEADLOCK FALSE
