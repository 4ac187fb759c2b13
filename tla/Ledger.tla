-------------------------------- MODULE Ledger --------------------------------
(***************************************************************************)
(* What the billing side promises: invoices and the money received against *)
(* each, when every request runs alone, one atomic step each.  Amounts are *)
(* whole cents, the unit of the decimal(12,2) columns.  Billing gives the  *)
(* same tables statement by statement and implements this module when no   *)
(* two requests in flight address the same invoice.                        *)
(***************************************************************************)
EXTENDS Integers

CONSTANTS
    Invoices,    \* invoices that are, or may be, issued
    Amounts,     \* totals an invoice's line items may add up to; 0 is one
    Payments     \* amounts a payment request may ask to record

ASSUME MoneyAssumption == Amounts \subseteq Nat /\ Payments \subseteq Nat \ {0}

VARIABLES
    invoice,    \* invoices table: invoice -> row
    paid        \* total of the payments rows of each invoice

vars == <<invoice, paid>>

InvoiceStatus == {"due", "partial", "paid", "void"}

InvoiceRow == [status : InvoiceStatus \cup {"none"}, amount : Nat, balance : Nat]

NoInvoice == [status |-> "none", amount |-> 0, balance |-> 0]

FreshInvoice(a) == [status |-> "due", amount |-> a, balance |-> a]

TypeOK ==
    /\ invoice \in [Invoices -> InvoiceRow]
    /\ paid \in [Invoices -> Nat]

\* An invoice of the seed data, for a amount and p of it received.
Seeded(a, p) ==
    [status  |-> IF p = a THEN "paid" ELSE IF p = 0 THEN "due" ELSE "partial",
     amount  |-> a,
     balance |-> a - p]

\* The seed data holds paid, partly paid and unpaid invoices with their
\* payments; an invoice that lease creation has still to issue is absent.
Init ==
    /\ paid \in [Invoices -> Amounts \cup {0}]
    /\ invoice \in [Invoices -> {NoInvoice} \cup
                       {Seeded(a, p) : a \in Amounts, p \in Amounts \cup {0}}]
    /\ \A i \in Invoices :
          \/ invoice[i] = NoInvoice /\ paid[i] = 0
          \/ \E a \in Amounts : a > 0 /\ paid[i] <= a /\ invoice[i] = Seeded(a, paid[i])
-----------------------------------------------------------------------------
Least(a, b) == IF a <= b THEN a ELSE b

\* InvoicesService.createForLease, called by the creation of a lease.
Issue(i, a) ==
    /\ invoice[i].status = "none"
    /\ invoice' = [invoice EXCEPT ![i] = FreshInvoice(a)]
    /\ UNCHANGED paid

\* MUTANT of Record: the amount is not capped.
RecordUncapped(i, q) ==
    /\ invoice[i].status \notin {"none", "void"}
    /\ invoice[i].balance > 0
    /\ invoice' = [invoice EXCEPT ![i].balance = @ - q,
                                  ![i].status = IF invoice[i].balance <= q THEN "paid"
                                               ELSE "partial"]
    /\ paid' = [paid EXCEPT ![i] = @ + q]

\* MUTANT of Record: a balance of zero is not settled.
RecordSettledBelowZero(i, q) ==
    /\ invoice[i].status \notin {"none", "void"}
    /\ invoice[i].balance > 0
    /\ LET got == Least(q, invoice[i].balance)
           left == invoice[i].balance - got
       IN /\ invoice' = [invoice EXCEPT ![i].balance = left,
                                        ![i].status = IF left < 0 THEN "paid" ELSE "partial"]
          /\ paid' = [paid EXCEPT ![i] = @ + got]

\* POST /invoices/:code/payments: refused for a void or a settled invoice,
\* capped at the balance.
Record(i, q) ==
    /\ invoice[i].status \notin {"none", "void"}
    /\ invoice[i].balance > 0
    /\ LET got == Least(q, invoice[i].balance)
           left == invoice[i].balance - got
       IN /\ invoice' = [invoice EXCEPT ![i].balance = left,
                                        ![i].status = IF left <= 0 THEN "paid" ELSE "partial"]
          /\ paid' = [paid EXCEPT ![i] = @ + got]

\* Editing and voiding are refused once balance and amount differ.
Untouched(row) == row.status \notin {"none", "void"} /\ row.balance = row.amount

\* MUTANT of Edit: the balance is left at the old amount.
EditAmountOnly(i, a) ==
    /\ Untouched(invoice[i])
    /\ invoice' = [invoice EXCEPT ![i].amount = a]
    /\ UNCHANGED paid

\* PATCH /invoices/:code: new line items, hence a new amount.
Edit(i, a) ==
    /\ Untouched(invoice[i])
    /\ invoice' = [invoice EXCEPT ![i].amount = a, ![i].balance = a]
    /\ UNCHANGED paid

\* MUTANT of Void: only a settled invoice is refused.
VoidUnlessPaid(i) ==
    /\ invoice[i].status \notin {"none", "void", "paid"}
    /\ invoice' = [invoice EXCEPT ![i].status = "void"]
    /\ UNCHANGED paid

\* MUTANT of Void: a void invoice owes nothing.
VoidAndSettle(i) ==
    /\ Untouched(invoice[i])
    /\ invoice' = [invoice EXCEPT ![i].status = "void", ![i].balance = 0]
    /\ UNCHANGED paid

\* POST /invoices/:code/void.
Void(i) ==
    /\ Untouched(invoice[i])
    /\ invoice' = [invoice EXCEPT ![i].status = "void"]
    /\ UNCHANGED paid

Next ==
    \E i \in Invoices :
       \/ \E a \in Amounts : Issue(i, a) \/ Edit(i, a)
       \/ \E q \in Payments : Record(i, q)
       \/ Void(i)

Spec == Init /\ [][Next]_vars
-----------------------------------------------------------------------------
\* No money appears or vanishes: what an invoice is for is what is still owed
\* plus what was received, across payments, capped payments, edits and voids.
Conservation == \A i \in Invoices : invoice[i].amount = invoice[i].balance + paid[i]

\* The status says how much is owed: a paid invoice is settled by payments, a
\* partial one is neither settled nor untouched, and a due or void one has
\* received nothing (its edit and void guards compare only two columns).
StatusTellsBalance ==
    \A i \in Invoices :
       LET row == invoice[i] IN
       /\ row.status = "paid" => row.balance = 0 /\ paid[i] > 0
       /\ row.status = "partial" => row.balance > 0 /\ paid[i] > 0
       /\ row.status \in {"due", "void", "none"} => row.balance = row.amount /\ paid[i] = 0

\* Once a payment was recorded the amount is fixed, the invoice can never be
\* voided and no payment disappears; a paid or void invoice never changes.
PaidIsPaid ==
    [][\A i \in Invoices :
          /\ paid[i] > 0 => invoice'[i].amount = invoice[i].amount /\ invoice'[i].status # "void"
          /\ paid'[i] >= paid[i]
          /\ invoice[i].status \in {"paid", "void"} => invoice'[i] = invoice[i]]_vars
=============================================================================
