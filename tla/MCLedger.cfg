\* The system stops where every invoice is paid or void.
CONSTANTS
    Invoices = {i1, i2}
    Amounts = {0, 2}
    Payments = {1, 3}
    Templates = 1
    Slots <- BackgroundWrites
    MaxServed = 2
    MaxIncidents = 1
SPECIFICATION SystemSpec
INVARIANTS TypeOK RemindersTypeOK Conservation StatusTellsBalance ReportsAgree AnnouncedOnce NothingIsDropped
PROPERTIES PaidIsPaid OverdueIsStamped
CHECK_DEADLOCK FALSE
