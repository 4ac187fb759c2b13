\* The tables fill up: the bounds on rows and uploads stop the system.
CONSTANTS
    Requests = {r1, r2}
    Mixes <- Desks
    Categories = {plumbing, security}
    MaxTickets = 2
    MaxTechnicians = 2
    Files = {agreement, scan}
    Agreement = agreement
    MaxDocuments = 2
    MaxUploads = 4
    Doors = {d1, d2, d3}
    Base = 2
    MaxProperties = 2
    MaxUnits = 3
    Settings = {quiet, loud}
    MaxNotifications = 2
    MaxTemplates = 2
    MaxStamps = 3
SYMMETRY Symmetry
SPECIFICATION Spec
INVARIANTS TypeOK NothingIsSkipped AssigneeIsQualified NumbersAreFree ObjectIsOwn OrphansWereAbandoned UnitCodesAreUnique
PROPERTY PutSettingsStand
CHECK_DEADLOCK FALSE
