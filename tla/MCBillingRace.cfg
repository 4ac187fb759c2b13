\* Two concurrent payments of one invoice.
CONSTANTS
    r1 = r1
    r2 = r2
    i1 = i1
    i2 = i2
    Requests = {r1, r2}
    Invoices = {i1}
    Clerk <- SharedInvoice
    Amounts = {3}
    Asked = {8, 12}
    Fraction = 4
    MaxReceipts = 3
    Nothing = Nothing
SPECIFICATION Spec
INVARIANT NeverOverpaid
CHECK_DEADLOCK FALSE
