\* Two requests in flight, never for the same invoice; payments of whole cents.
CONSTANTS
    r1 = r1
    r2 = r2
    i1 = i1
    i2 = i2
    Requests = {r1, r2}
    Invoices = {i1, i2}
    Clerk <- OneInvoiceEach
    Amounts = {0, 1, 3}
    Asked = {4, 8, 16}
    Fraction = 4
    MaxReceipts = 4
    Nothing = Nothing
SPECIFICATION FairSpec
INVARIANTS TypeOK ReceiptsAreDense
PROPERTIES ImplementsLedger EveryRequestEnds
CHECK_DEADLOCK FALSE
