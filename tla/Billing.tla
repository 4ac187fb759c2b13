------------------------------- MODULE Billing -------------------------------
(***************************************************************************)
(* The handlers that write invoices and payments, one step for each        *)
(* statement they await.  A handler decides on the invoice row it read     *)
(* before its transaction, and PaymentsService.record writes the new       *)
(* balance computed from that row.                                         *)
(*                                                                         *)
(* Columns hold whole cents.  A payment request carries a JavaScript       *)
(* number, in steps of 1/Fraction cent; storing it rounds it half up.      *)
(***************************************************************************)
EXTENDS Integers, FiniteSets, FiniteSetsExt

CONSTANTS
    Requests,       \* request slots: how many requests may be in flight
    Invoices,
    Clerk,          \* request slot -> the invoices its requests address
    Amounts,        \* totals of line items, in cents
    Asked,          \* amounts payment requests carry, in 1/Fraction cent
    Fraction,
    MaxReceipts,    \* bound: how many payments are ever recorded
    Nothing         \* the invoice of a receipt code that is not in use

ASSUME BillingAssumption ==
    /\ Clerk \in [Requests -> SUBSET Invoices]
    /\ Amounts \subseteq Nat
    /\ Fraction \in Nat \ {0}
    /\ Asked \subseteq {q \in Nat : q >= Fraction}
    /\ MaxReceipts \in Nat
    /\ Nothing \notin Invoices

VARIABLES
    invoice,    \* invoices table, as in Ledger
    receipt,    \* payments table: number in the code -> row
    req,        \* request slot -> the handler's local state
    held        \* request slot -> locks of its transaction

vars == <<invoice, receipt, req, held>>

Receipts == 1..MaxReceipts

NoReceipt == [invoice |-> Nothing, amount |-> 0]

\* What the payments rows of an invoice add up to.
Received(i) ==
    SumFunctionOnSet([n \in Receipts |-> receipt[n].amount],
                     {n \in Receipts : receipt[n].invoice = i})

Accounts == INSTANCE Ledger WITH
    Payments <- {q \div Fraction : q \in Asked},
    paid <- [i \in Invoices |-> Received(i)]

INSTANCE PgLocks WITH
    Clients <- Requests,
    Tables <- {"invoices", "payments"},
    Rows <- Invoices

Idle == [pc |-> "idle", i |-> Nothing, balance |-> 0, got |-> 0, n |-> 0]

\* The seed's payments have the first codes; later ones continue from there.
SeedReceipts ==
    LET seeded == {i \in Invoices : invoice[i].status \in {"partial", "paid"}} IN
    \E code \in [seeded -> Receipts] :
       /\ \A i, j \in seeded : i # j => code[i] # code[j]
       /\ \A i \in seeded : code[i] <= Cardinality(seeded)
       /\ receipt = [n \in Receipts |->
             IF \E i \in seeded : code[i] = n
             THEN LET i == CHOOSE i \in seeded : code[i] = n
                  IN [invoice |-> i, amount |-> invoice[i].amount - invoice[i].balance]
             ELSE NoReceipt]

SeedInvoices ==
    {Accounts!NoInvoice} \cup
    {Accounts!Seeded(ap[1], ap[2]) : ap \in {ap \in Amounts \X (Amounts \cup {0}) :
                                               ap[1] > 0 /\ ap[2] <= ap[1]}}

Init ==
    /\ invoice \in [Invoices -> SeedInvoices]
    /\ SeedReceipts
    /\ req = [r \in Requests |-> Idle]
    /\ held = [r \in Requests |-> NoLocks]

TypeOK ==
    /\ invoice \in [Invoices -> Accounts!InvoiceRow]
    /\ receipt \in [Receipts -> [invoice : Invoices \cup {Nothing}, amount : Nat]]
    /\ LocksTypeOK
    /\ \A r \in Requests : req[r].pc # "idle" \/ req[r] = Idle
-----------------------------------------------------------------------------
\* Storing a number of 1/Fraction cents in a decimal(12,2) column.
ToCents(x) == (2 * x + Fraction) \div (2 * Fraction)

Begin(r, q) ==
    /\ req[r].pc = "idle"
    /\ req' = [req EXCEPT ![r] = q]
    /\ UNCHANGED <<invoice, receipt, held>>

Answer(r) ==
    /\ req' = [req EXCEPT ![r] = Idle]
    /\ Release(r)
-----------------------------------------------------------------------------
(***************************************************************************)
(* POST /invoices/:code/payments: PaymentsService.record.                  *)
(***************************************************************************)
Recording == {r \in Requests : req[r].pc \in {"payChecked", "receiptInserted", "balanceWritten"}}

\* The bound MaxReceipts, kept by starting no payment that would pass it.
RoomForReceipt ==
    Cardinality({n \in Receipts : receipt[n] # NoReceipt}) + Cardinality(Recording) < MaxReceipts

\* MUTANT of ReadForPayment: the amount is not capped.
ReadUncapped(r, i, q) ==
    LET balance == invoice[i].balance * Fraction IN
    /\ RoomForReceipt
    /\ invoice[i].status \notin {"none", "void"}
    /\ balance > 0
    /\ Begin(r, [Idle EXCEPT !.pc = "payChecked", !.i = i, !.balance = balance, !.got = q])

\* The checks and the capping, on the row just read.  Money in the local
\* state is in 1/Fraction cents.
ReadForPayment(r, i, q) ==
    LET balance == invoice[i].balance * Fraction IN
    /\ RoomForReceipt
    /\ invoice[i].status \notin {"none", "void"}
    /\ balance > 0
    /\ Begin(r, [Idle EXCEPT !.pc = "payChecked", !.i = i, !.balance = balance,
                             !.got = Accounts!Least(q, balance)])

\* MUTANT of InsertReceipt: the table is not locked, only written to.
InsertReceiptUnlocked(r) ==
    /\ req[r].pc = "payChecked"
    /\ Acquire(r, [NoLocks EXCEPT !.rx = {"payments"}])
    /\ \E n \in Receipts :
          /\ \A k \in Receipts : k >= n => receipt[k] = NoReceipt
          /\ n > 1 => receipt[n - 1] # NoReceipt
          /\ req' = [req EXCEPT ![r].pc = "receiptInserted", ![r].n = n]
    /\ UNCHANGED <<invoice, receipt>>

\* LOCK TABLE payments, MAX(code) + 1, INSERT.
InsertReceipt(r) ==
    /\ req[r].pc = "payChecked"
    /\ Acquire(r, TableLock("payments"))
    /\ \E n \in Receipts :
          /\ \A k \in Receipts : k >= n => receipt[k] = NoReceipt
          /\ n > 1 => receipt[n - 1] # NoReceipt
          /\ req' = [req EXCEPT ![r].pc = "receiptInserted", ![r].n = n]
    /\ UNCHANGED <<invoice, receipt>>

WriteBalance(r) ==
    /\ req[r].pc = "receiptInserted"
    /\ Acquire(r, RowUpdate("invoices", req[r].i))
    /\ req' = [req EXCEPT ![r].pc = "balanceWritten"]
    /\ UNCHANGED <<invoice, receipt>>

\* MUTANT of CommitPayment: the handler returns early when the invoice is
\* settled, its transaction still open.
CommitUnlessSettled(r) ==
    LET q == req[r]
        left == q.balance - q.got
    IN
    /\ q.pc = "balanceWritten"
    /\ IF left <= 0
       THEN /\ req' = [req EXCEPT ![r] = Idle]
            /\ UNCHANGED <<invoice, receipt, held>>
       ELSE /\ receipt' = [receipt EXCEPT ![q.n] = [invoice |-> q.i, amount |-> ToCents(q.got)]]
            /\ invoice' = [invoice EXCEPT ![q.i].balance = ToCents(left),
                                          ![q.i].status = "partial"]
            /\ Answer(r)

CommitPayment(r) ==
    LET q == req[r]
        left == q.balance - q.got
    IN
    /\ q.pc = "balanceWritten"
    /\ receipt[q.n] = NoReceipt        \* the unique index on payments.code
    /\ receipt' = [receipt EXCEPT ![q.n] = [invoice |-> q.i, amount |-> ToCents(q.got)]]
    /\ invoice' = [invoice EXCEPT ![q.i].balance = ToCents(left),
                                  ![q.i].status = IF left <= 0 THEN "paid" ELSE "partial"]
    /\ Answer(r)
-----------------------------------------------------------------------------
(***************************************************************************)
(* PATCH /invoices/:code and POST /invoices/:code/void: a check, then one  *)
(* UPDATE in a transaction of its own.                                     *)
(***************************************************************************)
\* MUTANT of Untouched: payments already recorded are not looked for.
NotVoid(row) == row.status \notin {"none", "void"}

Untouched(row) == row.status \notin {"none", "void"} /\ row.balance = row.amount

ReadForEdit(r, i, a) ==
    /\ Untouched(invoice[i])
    /\ Begin(r, [Idle EXCEPT !.pc = "editChecked", !.i = i, !.got = a])

ReadForVoid(r, i) ==
    /\ Untouched(invoice[i])
    /\ Begin(r, [Idle EXCEPT !.pc = "voidChecked", !.i = i])

SaveEdit(r) ==
    LET q == req[r] IN
    /\ q.pc = "editChecked"
    /\ Grantable(r, RowUpdate("invoices", q.i))
    /\ invoice' = [invoice EXCEPT ![q.i].amount = q.got, ![q.i].balance = q.got]
    /\ Answer(r)
    /\ UNCHANGED receipt

SaveVoid(r) ==
    LET q == req[r] IN
    /\ q.pc = "voidChecked"
    /\ Grantable(r, RowUpdate("invoices", q.i))
    /\ invoice' = [invoice EXCEPT ![q.i].status = "void"]
    /\ Answer(r)
    /\ UNCHANGED receipt
-----------------------------------------------------------------------------
(***************************************************************************)
(* InvoicesService.createForLease, inside the creation of a lease, which   *)
(* holds the lock on invoices from here to its commit.                     *)
(***************************************************************************)
InsertInvoice(r, i, a) ==
    /\ req[r].pc = "idle"
    /\ invoice[i].status = "none"
    /\ Acquire(r, TableLock("invoices"))
    /\ req' = [req EXCEPT ![r] = [Idle EXCEPT !.pc = "invoiceInserted", !.i = i, !.got = a]]
    /\ UNCHANGED <<invoice, receipt>>

CommitInvoice(r) ==
    LET q == req[r] IN
    /\ q.pc = "invoiceInserted"
    /\ invoice' = [invoice EXCEPT ![q.i] = Accounts!FreshInvoice(q.got)]
    /\ Answer(r)
    /\ UNCHANGED receipt
-----------------------------------------------------------------------------
\* Any request in flight may fail at any of its awaits; the transaction rolls
\* back.
Fail(r) ==
    /\ req[r].pc # "idle"
    /\ Answer(r)
    /\ UNCHANGED <<invoice, receipt>>

Arrive(r) ==
    \E i \in Clerk[r] :
       \/ \E q \in Asked : ReadForPayment(r, i, q)
       \/ \E a \in Amounts : ReadForEdit(r, i, a) \/ InsertInvoice(r, i, a)
       \/ ReadForVoid(r, i)

Advance(r) ==
    \/ InsertReceipt(r) \/ WriteBalance(r) \/ CommitPayment(r)
    \/ SaveEdit(r) \/ SaveVoid(r) \/ CommitInvoice(r)

Next == \E r \in Requests : Arrive(r) \/ Advance(r) \/ Fail(r)

\* A statement that waits for a lock is granted it in the end: PostgreSQL
\* queues waiters, and every transaction ends.
Fairness == \A r \in Requests : SF_vars(Advance(r))

Spec == Init /\ [][Next]_vars

FairSpec == Spec /\ Fairness
-----------------------------------------------------------------------------
\* As long as no two requests in flight address one invoice and payments are
\* whole cents, every commit is one atomic operation of Ledger on invoices and
\* on the sums of payments, though receipts are numbered across invoices.
ImplementsLedger == Accounts!Spec

\* Receipts are numbered without gaps or repeats, even when payments fail or
\* commit in another order than they arrived: the payment about to commit has
\* the first free code.
ReceiptsAreDense ==
    /\ \A n \in Receipts : n > 1 /\ receipt[n] # NoReceipt => receipt[n - 1] # NoReceipt
    /\ \A r \in Requests : req[r].pc = "balanceWritten" => receipt[req[r].n] = NoReceipt

\* No request keeps the others waiting for ever: payments lock before invoice
\* rows, and every transaction ends.
EveryRequestEnds == \A r \in Requests : req[r].pc # "idle" ~> req[r].pc = "idle"

\* PaymentsService.record's comment: it caps the amount at the remaining
\* balance, so an invoice never receives more than it is for.  Two concurrent
\* payments are both capped at the balance before either.
NeverOverpaid == \A i \in Invoices : Received(i) <= invoice[i].amount
=============================================================================
