------------------------------- MODULE Reports -------------------------------
(***************************************************************************)
(* The financial reports, computed when asked for from the invoices and    *)
(* the payments tables: the figures on top of each.                        *)
(***************************************************************************)
EXTENDS Ledger, FiniteSetsExt

ASSUME ReportsAssumption == IsFiniteSet(Invoices)

\* Math.round((part / whole) * 100).
Percent(part, whole) == IF whole = 0 THEN 0 ELSE (200 * part + whole) \div (2 * whole)

\* The columns of the invoices table that are added up.
AmountOf == [i \in Invoices |-> invoice[i].amount]

BalanceOf == [i \in Invoices |-> invoice[i].balance]

RentCollection ==
    LET issued == {i \in Invoices : invoice[i].status # "none"}
        expected == SumFunctionOnSet(AmountOf, issued)
        collected == expected - SumFunctionOnSet(BalanceOf, issued)
    IN [expected    |-> expected,
        collected   |-> collected,
        rate        |-> Percent(collected, expected),
        outstanding |-> expected - collected]

\* Void invoices are in the list, with the balance they were voided with.
OutstandingBalances ==
    LET list == {i \in Invoices : invoice[i].balance > 0}
    IN [list |-> list, total |-> SumFunctionOnSet(BalanceOf, list)]

\* incomeVsExpenses, the income: every payment ever received.
Income == SumFunctionOnSet(paid, Invoices)
-----------------------------------------------------------------------------
\* The reports agree although none reads what the other does: the rent
\* collection report, which looks at invoices only, and the income report,
\* which looks at payments only, name the same sum; two reports name the same
\* sum as outstanding; and no more than everything is collected.
ReportsAgree ==
    /\ RentCollection.collected = Income
    /\ RentCollection.outstanding = OutstandingBalances.total
    /\ RentCollection.rate \in 0..100
=============================================================================
