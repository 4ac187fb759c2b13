---------------------------- MODULE BillingProofs ----------------------------
(***************************************************************************)
(* What is proved of Billing.  For any number of requests, whichever       *)
(* invoices they address: the types, and that receipts are numbered        *)
(* without gaps, which rests on the lock on payments being held from the   *)
(* numbering to the commit.  For requests in flight that never address the *)
(* same invoice, and payments of whole cents: that each commit is one step *)
(* of Ledger, and that no invoice is then overpaid.                        *)
(***************************************************************************)
EXTENDS Billing, Totals

PaymentPcs == {"payChecked", "receiptInserted", "balanceWritten"}

NumberedPcs == {"receiptInserted", "balanceWritten"}

InvoicePcs == {"editChecked", "voidChecked", "invoiceInserted"}

Local == [pc : {"idle"} \cup PaymentPcs \cup InvoicePcs, i : Invoices \cup {Nothing},
          balance : Nat, got : Nat, n : Nat]

\* What a request remembers: of an invoice it addresses, an amount within the
\* balance it read, the receipt it has inserted.
Remembers(r, q) ==
    /\ q \in Local
    /\ q.pc = "idle" => q = Idle
    /\ q.pc # "idle" => q.i \in Clerk[r]
    /\ q.pc \in PaymentPcs => q.got <= q.balance
    /\ q.pc \in NumberedPcs => q.n \in Receipts

Types ==
    /\ invoice \in [Invoices -> Accounts!InvoiceRow]
    /\ receipt \in [Receipts -> [invoice : Invoices \cup {Nothing}, amount : Nat]]
    /\ req = [r \in Requests |-> req[r]]
    /\ \A r \in Requests : Remembers(r, req[r])

\* The lock on payments is held from the numbering of a receipt on, the one on
\* invoices from the insertion of an invoice.
Behind(pc) ==
    IF pc \in NumberedPcs THEN {"payments"}
    ELSE IF pc = "invoiceInserted" THEN {"invoices"} ELSE {}

LockInv ==
    /\ LocksTypeOK
    /\ LocksExclude
    /\ \A r \in Requests : Behind(req[r].pc) \subseteq held[r].sre

\* Codes are used from the first on, and a receipt that is not yet committed
\* has the first free one.
FirstFree(n) ==
    /\ \A k \in Receipts : k >= n => receipt[k] = NoReceipt
    /\ n > 1 => receipt[n - 1] # NoReceipt

Dense ==
    /\ \A n \in Receipts : n > 1 /\ receipt[n] # NoReceipt => receipt[n - 1] # NoReceipt
    /\ \A r \in Requests : req[r].pc \in NumberedPcs => FirstFree(req[r].n)

BInv == Types /\ LockInv /\ Dense
-----------------------------------------------------------------------------
LEMMA RoundsToNat ==
    ASSUME NEW x \in Nat
    PROVE  ToCents(x) \in Nat
  <1>1. Fraction \in Nat /\ Fraction > 0
    BY BillingAssumption
  <1>2. 2 * x + Fraction \in Nat /\ 2 * Fraction \in Nat /\ 2 * Fraction > 0
    BY <1>1
  <1>3. ASSUME NEW a \in Nat, NEW b \in Nat, b > 0 PROVE a \div b \in Nat
    BY <1>3
  <1> QED BY <1>2, <1>3 DEF ToCents

LEMMA ScaledIsNat ==
    ASSUME NEW x \in Nat
    PROVE  x * Fraction \in Nat
  BY BillingAssumption

LEMMA RowFields ==
    ASSUME Types, NEW i \in Invoices
    PROVE  /\ invoice[i] \in Accounts!InvoiceRow
           /\ invoice[i].amount \in Nat /\ invoice[i].balance \in Nat
  BY DEF Types, Accounts!InvoiceRow

LEMMA ClerksInvoices ==
    ASSUME NEW r \in Requests, NEW i \in Clerk[r]
    PROVE  i \in Invoices /\ i # Nothing
  BY BillingAssumption

LEMMA IdleIsRemembered == ASSUME NEW r PROVE Remembers(r, Idle)
  BY DEF Remembers, Idle, Local, PaymentPcs, NumberedPcs

\* A step of one request's handler that leaves the tables alone.
LEMMA MoveKeepsTypes ==
    ASSUME Types, NEW r \in Requests, NEW q, req' = [req EXCEPT ![r] = q], Remembers(r, q),
           UNCHANGED <<invoice, receipt>>
    PROVE  Types'
  BY DEF Types, Remembers

LEMMA AnswerKeepsTypes ==
    ASSUME Types, NEW r \in Requests, Answer(r),
           invoice' \in [Invoices -> Accounts!InvoiceRow],
           receipt' \in [Receipts -> [invoice : Invoices \cup {Nothing}, amount : Nat]]
    PROVE  Types'
  BY IdleIsRemembered DEF Types, Answer, Remembers

LEMMA ArriveKeepsTypes ==
    ASSUME Types, NEW r \in Requests, Arrive(r)
    PROVE  Types'
  <1>1. PICK i \in Clerk[r] :
           \/ \E q \in Asked : ReadForPayment(r, i, q)
           \/ \E a \in Amounts : ReadForEdit(r, i, a) \/ InsertInvoice(r, i, a)
           \/ ReadForVoid(r, i)
    BY DEF Arrive
  <1>2. i \in Invoices
    BY ClerksInvoices
  <1>3. ASSUME NEW q \in Asked, ReadForPayment(r, i, q) PROVE Types'
    <2> DEFINE balance == invoice[i].balance * Fraction
               got == Accounts!Least(q, balance)
               l == [Idle EXCEPT !.pc = "payChecked", !.i = i, !.balance = balance, !.got = got]
    <2>1. balance \in Nat
      BY <1>2, RowFields, ScaledIsNat
    <2>2. q \in Nat
      BY BillingAssumption
    <2>3. req' = [req EXCEPT ![r] = l] /\ UNCHANGED <<invoice, receipt>>
      BY <1>3 DEF ReadForPayment, Begin
    <2> HIDE DEF balance
    <2>4. got \in Nat /\ got <= balance
      BY <2>1, <2>2 DEF Accounts!Least
    <2> HIDE DEF got
    <2>5. Remembers(r, l)
      BY <1>2, <2>1, <2>4 DEF Idle, Remembers, Local, PaymentPcs, NumberedPcs
    <2> QED BY <2>3, <2>5, MoveKeepsTypes
  <1>4. ASSUME NEW a \in Amounts, ReadForEdit(r, i, a) PROVE Types'
    <2> DEFINE l == [Idle EXCEPT !.pc = "editChecked", !.i = i, !.got = a]
    <2>1. req' = [req EXCEPT ![r] = l] /\ UNCHANGED <<invoice, receipt>>
      BY <1>4 DEF ReadForEdit, Begin
    <2>2. Remembers(r, l)
      BY <1>2, BillingAssumption DEF Idle, Remembers, Local, PaymentPcs, NumberedPcs, InvoicePcs
    <2> QED BY <2>1, <2>2, MoveKeepsTypes
  <1>5. ASSUME NEW a \in Amounts, InsertInvoice(r, i, a) PROVE Types'
    <2> DEFINE l == [Idle EXCEPT !.pc = "invoiceInserted", !.i = i, !.got = a]
    <2>1. req' = [req EXCEPT ![r] = l] /\ UNCHANGED <<invoice, receipt>>
      BY <1>5 DEF InsertInvoice
    <2>2. Remembers(r, l)
      BY <1>2, BillingAssumption DEF Idle, Remembers, Local, PaymentPcs, NumberedPcs, InvoicePcs
    <2> QED BY <2>1, <2>2, MoveKeepsTypes
  <1>6. ASSUME ReadForVoid(r, i) PROVE Types'
    <2> DEFINE l == [Idle EXCEPT !.pc = "voidChecked", !.i = i]
    <2>1. req' = [req EXCEPT ![r] = l] /\ UNCHANGED <<invoice, receipt>>
      BY <1>6 DEF ReadForVoid, Begin
    <2>2. Remembers(r, l)
      BY <1>2 DEF Idle, Remembers, Local, PaymentPcs, NumberedPcs, InvoicePcs
    <2> QED BY <2>1, <2>2, MoveKeepsTypes
  <1> QED BY <1>1, <1>3, <1>4, <1>5, <1>6

LEMMA AdvanceKeepsTypes ==
    ASSUME Types, NEW r \in Requests, Advance(r)
    PROVE  Types'
  <1>1. Remembers(r, req[r])
    BY DEF Types
  <1>2. ASSUME InsertReceipt(r) PROVE Types'
    <2>1. PICK n \in Receipts : req' = [req EXCEPT ![r].pc = "receiptInserted", ![r].n = n]
      BY <1>2 DEF InsertReceipt
    <2> DEFINE l == [req[r] EXCEPT !.pc = "receiptInserted", !.n = n]
    <2>2. req' = [req EXCEPT ![r] = l]
      BY <2>1 DEF Types
    <2>3. Remembers(r, l)
      <3>1. req[r] \in Local /\ req[r].i \in Clerk[r] /\ req[r].got <= req[r].balance
        BY <1>1, <1>2 DEF InsertReceipt, Remembers, PaymentPcs
      <3>2. n \in Nat /\ n \in Receipts
        BY DEF Receipts
      <3>3. l \in Local
        BY <3>1, <3>2 DEF Local, PaymentPcs
      <3>4. l.pc = "receiptInserted" /\ l.n = n /\ l.i = req[r].i
            /\ l.got = req[r].got /\ l.balance = req[r].balance
        BY <3>1 DEF Local
      <3> HIDE DEF l
      <3> QED BY <3>1, <3>2, <3>3, <3>4 DEF Remembers
    <2> QED BY <1>2, <2>2, <2>3, MoveKeepsTypes DEF InsertReceipt
  <1>3. ASSUME WriteBalance(r) PROVE Types'
    <2> DEFINE l == [req[r] EXCEPT !.pc = "balanceWritten"]
    <2>1. req' = [req EXCEPT ![r] = l]
      BY <1>3 DEF WriteBalance
    <2>2. Remembers(r, l)
      BY <1>1, <1>3 DEF WriteBalance, Remembers, Local, PaymentPcs, NumberedPcs
    <2> QED BY <1>3, <2>1, <2>2, MoveKeepsTypes DEF WriteBalance
  <1>4. ASSUME CommitPayment(r) PROVE Types'
    <2> DEFINE q == req[r]
    <2>1. /\ q.i \in Invoices /\ q.n \in Receipts
          /\ q.got \in Nat /\ q.balance \in Nat /\ q.got <= q.balance
      BY <1>1, <1>4, ClerksInvoices
         DEF CommitPayment, Remembers, Local, PaymentPcs, NumberedPcs
    <2>2. ToCents(q.got) \in Nat /\ ToCents(q.balance - q.got) \in Nat
      <3>1. q.balance - q.got \in Nat
        BY <2>1
      <3> QED BY <2>1, <3>1, RoundsToNat
    <2>3. invoice[q.i] \in Accounts!InvoiceRow
      BY <2>1, RowFields
    <2>4. invoice' \in [Invoices -> Accounts!InvoiceRow]
      BY <1>4, <2>1, <2>2, <2>3
         DEF CommitPayment, Types, Accounts!InvoiceRow, Accounts!InvoiceStatus
    <2>5. receipt' \in [Receipts -> [invoice : Invoices \cup {Nothing}, amount : Nat]]
      BY <1>4, <2>1, <2>2 DEF CommitPayment, Types
    <2> QED BY <1>4, <2>4, <2>5, AnswerKeepsTypes DEF CommitPayment
  <1>5. ASSUME SaveEdit(r) PROVE Types'
    <2>1. req[r].i \in Invoices /\ req[r].got \in Nat
      BY <1>1, <1>5, ClerksInvoices DEF SaveEdit, Remembers, Local
    <2>2. invoice' \in [Invoices -> Accounts!InvoiceRow]
      BY <1>5, <2>1, RowFields DEF SaveEdit, Types, Accounts!InvoiceRow
    <2> QED BY <1>5, <2>2, AnswerKeepsTypes DEF SaveEdit, Types
  <1>6. ASSUME SaveVoid(r) PROVE Types'
    <2>1. req[r].i \in Invoices
      BY <1>1, <1>6, ClerksInvoices DEF SaveVoid, Remembers, Local
    <2>2. invoice' \in [Invoices -> Accounts!InvoiceRow]
      BY <1>6, <2>1, RowFields DEF SaveVoid, Types, Accounts!InvoiceRow, Accounts!InvoiceStatus
    <2> QED BY <1>6, <2>2, AnswerKeepsTypes DEF SaveVoid, Types
  <1>7. ASSUME CommitInvoice(r) PROVE Types'
    <2>1. req[r].i \in Invoices /\ req[r].got \in Nat
      BY <1>1, <1>7, ClerksInvoices DEF CommitInvoice, Remembers, Local
    <2>2. invoice' \in [Invoices -> Accounts!InvoiceRow]
      BY <1>7, <2>1
         DEF CommitInvoice, Types, Accounts!InvoiceRow, Accounts!InvoiceStatus,
             Accounts!FreshInvoice
    <2> QED BY <1>7, <2>2, AnswerKeepsTypes DEF CommitInvoice, Types
  <1> QED BY <1>2, <1>3, <1>4, <1>5, <1>6, <1>7 DEF Advance
-----------------------------------------------------------------------------
\* What is granted conflicts with nothing that is held.
LEMMA AcquireExcludes ==
    ASSUME LocksTypeOK, LocksExclude, NEW r \in Requests, NEW want \in LockSet,
           Acquire(r, want)
    PROVE  /\ LocksTypeOK' /\ LocksExclude'
           /\ held'[r].sre = held[r].sre \cup want.sre
           /\ \A s \in Requests : s # r => held'[s] = held[s]
  <1> DEFINE mine == [sre  |-> held[r].sre \cup want.sre,
                      rx   |-> held[r].rx \cup want.rx,
                      rows |-> held[r].rows \cup want.rows]
  <1>1. held \in [Requests -> LockSet]
    BY DEF LocksTypeOK
  <1>2. held' = [held EXCEPT ![r] = mine]
    BY DEF Acquire
  <1>3. held'[r] = mine /\ \A s \in Requests : s # r => held'[s] = held[s]
    BY <1>1, <1>2
  <1>4. LocksTypeOK'
    <2>1. mine \in LockSet
      BY <1>1 DEF LockSet
    <2> HIDE DEF mine
    <2> QED BY <1>1, <1>2, <2>1 DEF LocksTypeOK
  <1>5. LocksExclude'
    <2> SUFFICES ASSUME NEW c \in Requests, NEW d \in Requests, c # d
                 PROVE  ~Conflict(held'[c], held'[d])
      BY DEF LocksExclude
    <2>0. ASSUME NEW s \in Requests, s # r
          PROVE  ~Conflict(want, held[s]) /\ ~Conflict(held[s], held[r])
                 /\ ~Conflict(held[r], held[s])
      BY <2>0 DEF Acquire, Grantable, LocksExclude
    <2>1. CASE c = r
      BY <1>3, <2>0, <2>1 DEF Conflict
    <2>2. CASE d = r
      <3>1. c # r
        BY <2>2
      <3> QED BY <1>3, <2>0, <2>2, <3>1 DEF Conflict
    <2>3. CASE c # r /\ d # r
      BY <1>3, <2>3 DEF LocksExclude
    <2> QED BY <2>1, <2>2, <2>3
  <1> QED BY <1>3, <1>4, <1>5

LEMMA ReleaseExcludes ==
    ASSUME LocksTypeOK, LocksExclude, NEW r \in Requests, Release(r)
    PROVE  /\ LocksTypeOK' /\ LocksExclude'
           /\ \A s \in Requests : s # r => held'[s] = held[s]
  <1>1. /\ held' \in [Requests -> LockSet]
        /\ held'[r] = NoLocks
        /\ \A s \in Requests : s # r => held'[s] = held[s]
    BY DEF Release, LocksTypeOK, LockSet, NoLocks
  <1>2. LocksExclude'
    <2> SUFFICES ASSUME NEW c \in Requests, NEW d \in Requests, c # d
                 PROVE  ~Conflict(held'[c], held'[d])
      BY DEF LocksExclude
    <2>1. CASE c = r \/ d = r
      BY <1>1, <2>1 DEF Conflict, NoLocks
    <2>2. CASE c # r /\ d # r
      BY <1>1, <2>2 DEF LocksExclude
    <2> QED BY <2>1, <2>2
  <1> QED BY <1>1, <1>2 DEF LocksTypeOK

LEMMA AnswerKeepsLocks ==
    ASSUME Types, LockInv, NEW r \in Requests, Answer(r)
    PROVE  LockInv'
  <1>1. req'[r] = Idle /\ \A s \in Requests : s # r => req'[s] = req[s]
    BY DEF Answer, Types
  <1>2. /\ LocksTypeOK' /\ LocksExclude'
        /\ \A s \in Requests : s # r => held'[s] = held[s]
    BY ReleaseExcludes DEF Answer, LockInv
  <1>3. ASSUME NEW s \in Requests PROVE Behind(req'[s].pc) \subseteq held'[s].sre
    <2>1. CASE s = r
      BY <1>1, <2>1 DEF Behind, Idle, NumberedPcs
    <2>2. CASE s # r
      BY <1>1, <1>2, <2>2 DEF LockInv
    <2> QED BY <2>1, <2>2
  <1> QED BY <1>2, <1>3 DEF LockInv

\* A handler that takes a lock and goes on.
LEMMA AcquireKeepsLocks ==
    ASSUME LockInv, NEW r \in Requests, NEW want \in LockSet, Acquire(r, want),
           \A s \in Requests : s # r => req'[s] = req[s],
           Behind(req'[r].pc) \subseteq held[r].sre \cup want.sre
    PROVE  LockInv'
  <1>1. /\ LocksTypeOK' /\ LocksExclude'
        /\ held'[r].sre = held[r].sre \cup want.sre
        /\ \A s \in Requests : s # r => held'[s] = held[s]
    BY AcquireExcludes DEF LockInv
  <1> QED BY <1>1 DEF LockInv

LEMMA BeginKeepsLocks ==
    ASSUME Types, LockInv, NEW r \in Requests, NEW q, Begin(r, q), Behind(q.pc) = {}
    PROVE  LockInv'
  <1>1. /\ req'[r] = q
        /\ \A s \in Requests : s # r => req'[s] = req[s]
        /\ held' = held
    BY DEF Begin, Types
  <1> QED BY <1>1 DEF LockInv, LocksTypeOK, LocksExclude

LEMMA NextKeepsLocks ==
    ASSUME Types, LockInv, [Next]_vars
    PROVE  LockInv'
  <1>1. CASE UNCHANGED vars
    BY <1>1 DEF vars, LockInv, LocksTypeOK, LocksExclude
  <1>2. ASSUME NEW r \in Requests, NEW i \in Clerk[r],
               NEW q, ReadForPayment(r, i, q) \/ ReadForEdit(r, i, q) \/ ReadForVoid(r, i)
        PROVE  LockInv'
    BY <1>2, BeginKeepsLocks
       DEF ReadForPayment, ReadForEdit, ReadForVoid, Idle, Behind, NumberedPcs
  <1>3. ASSUME NEW r \in Requests, NEW i \in Clerk[r], NEW a, InsertInvoice(r, i, a)
        PROVE  LockInv'
    <2>1. req'[r].pc = "invoiceInserted" /\ \A s \in Requests : s # r => req'[s] = req[s]
      BY <1>3 DEF InsertInvoice, Types, Idle
    <2>2. TableLock("invoices") \in LockSet /\ TableLock("invoices").sre = {"invoices"}
      BY DEF TableLock, LockSet
    <2>3. Behind(req'[r].pc) \subseteq held[r].sre \cup TableLock("invoices").sre
      BY <2>1, <2>2 DEF Behind, NumberedPcs
    <2>4. Acquire(r, TableLock("invoices"))
      BY <1>3 DEF InsertInvoice
    <2> QED BY <2>1, <2>2, <2>3, <2>4, AcquireKeepsLocks
  <1>4. ASSUME NEW r \in Requests, InsertReceipt(r) PROVE LockInv'
    <2>1. req'[r].pc = "receiptInserted" /\ \A s \in Requests : s # r => req'[s] = req[s]
      <3>1. req[r] \in Local
        BY DEF Types, Remembers
      <3>2. PICK n \in Receipts : req' = [req EXCEPT ![r].pc = "receiptInserted", ![r].n = n]
        BY <1>4 DEF InsertReceipt
      <3> QED BY <3>1, <3>2 DEF Types, Local
    <2>2. TableLock("payments") \in LockSet /\ TableLock("payments").sre = {"payments"}
      BY DEF TableLock, LockSet
    <2>3. Behind(req'[r].pc) \subseteq held[r].sre \cup TableLock("payments").sre
      BY <2>1, <2>2 DEF Behind, NumberedPcs
    <2>4. Acquire(r, TableLock("payments"))
      BY <1>4 DEF InsertReceipt
    <2> QED BY <2>1, <2>2, <2>3, <2>4, AcquireKeepsLocks
  <1>5. ASSUME NEW r \in Requests, WriteBalance(r) PROVE LockInv'
    <2> DEFINE want == RowUpdate("invoices", req[r].i)
    <2>1. req[r] \in Local /\ req[r].i \in Invoices /\ req[r].pc = "receiptInserted"
      BY <1>5, ClerksInvoices DEF WriteBalance, Types, Remembers
    <2>2. req'[r].pc = "balanceWritten" /\ \A s \in Requests : s # r => req'[s] = req[s]
      BY <1>5, <2>1 DEF WriteBalance, Types, Local
    <2>3. want \in LockSet
      BY <2>1 DEF RowUpdate, LockSet
    <2>4. Behind(req'[r].pc) \subseteq held[r].sre \cup want.sre
      BY <2>1, <2>2 DEF Behind, NumberedPcs, LockInv
    <2>5. Acquire(r, want)
      BY <1>5 DEF WriteBalance
    <2> HIDE DEF want
    <2> QED BY <2>2, <2>3, <2>4, <2>5, AcquireKeepsLocks
  <1>6. ASSUME NEW r \in Requests,
               \/ CommitPayment(r) \/ SaveEdit(r) \/ SaveVoid(r) \/ CommitInvoice(r)
               \/ Fail(r)
        PROVE  LockInv'
    BY <1>6, AnswerKeepsLocks DEF CommitPayment, SaveEdit, SaveVoid, CommitInvoice, Fail
  <1> QED BY <1>1, <1>2, <1>3, <1>4, <1>5, <1>6 DEF Next, Arrive, Advance
-----------------------------------------------------------------------------
\* Two requests are never both past the numbering of a receipt.
LEMMA OneNumbers ==
    ASSUME LockInv, NEW r \in Requests, NEW s \in Requests, r # s,
           req[r].pc \in NumberedPcs, req[s].pc \in NumberedPcs
    PROVE  FALSE
  <1>1. "payments" \in held[r].sre /\ "payments" \in held[s].sre
    BY DEF LockInv, Behind
  <1>2. ~Conflict(held[r], held[s])
    BY DEF LockInv, LocksExclude
  <1> QED BY <1>1, <1>2 DEF Conflict

LEMMA OthersKeepDense ==
    ASSUME Dense, NEW r \in Requests, receipt' = receipt, Types,
           \A s \in Requests : s # r => req'[s] = req[s],
           req'[r].pc \in NumberedPcs => FirstFree(req'[r].n)
    PROVE  Dense'
  <1>1. ASSUME NEW n PROVE FirstFree(n)' <=> FirstFree(n)
    BY DEF FirstFree
  <1> QED BY <1>1 DEF Dense, FirstFree

LEMMA NextKeepsDense ==
    ASSUME BInv, [Next]_vars
    PROVE  Dense'
  <1> USE DEF BInv
  <1>1. CASE UNCHANGED vars
    BY <1>1 DEF vars, Dense, FirstFree
  <1>2. ASSUME NEW r \in Requests, Arrive(r) PROVE Dense'
    <2>1. /\ receipt' = receipt
          /\ req'[r].pc \notin NumberedPcs
          /\ \A s \in Requests : s # r => req'[s] = req[s]
      BY <1>2 DEF Arrive, ReadForPayment, ReadForEdit, ReadForVoid, InsertInvoice, Begin, Idle,
                  Types, NumberedPcs
    <2> QED BY <2>1, OthersKeepDense
  <1>3. ASSUME NEW r \in Requests, InsertReceipt(r) PROVE Dense'
    <2>1. PICK n \in Receipts :
             FirstFree(n) /\ req' = [req EXCEPT ![r].pc = "receiptInserted", ![r].n = n]
      BY <1>3 DEF InsertReceipt, FirstFree
    <2>2. req[r] \in Local
      BY DEF Types, Remembers
    <2>3. req'[r].n = n /\ \A s \in Requests : s # r => req'[s] = req[s]
      BY <2>1, <2>2 DEF Types, Local
    <2> QED BY <1>3, <2>1, <2>3, OthersKeepDense DEF InsertReceipt
  <1>4. ASSUME NEW r \in Requests, WriteBalance(r) PROVE Dense'
    <2>1. req[r] \in Local /\ req[r].pc \in NumberedPcs
      BY <1>4 DEF WriteBalance, Types, Remembers, NumberedPcs
    <2>2. req'[r].n = req[r].n /\ \A s \in Requests : s # r => req'[s] = req[s]
      BY <1>4, <2>1 DEF WriteBalance, Types, Local
    <2>3. FirstFree(req'[r].n)
      BY <2>1, <2>2 DEF Dense
    <2> QED BY <1>4, <2>2, <2>3, OthersKeepDense DEF WriteBalance
  <1>5. ASSUME NEW r \in Requests, CommitPayment(r) PROVE Dense'
    <2> DEFINE m == req[r].n
               row == [invoice |-> req[r].i, amount |-> ToCents(req[r].got)]
    <2>1. m \in Receipts /\ req[r].pc \in NumberedPcs /\ req[r].i # Nothing
      BY <1>5, ClerksInvoices DEF CommitPayment, Types, Remembers, NumberedPcs
    <2>2. receipt' = [receipt EXCEPT ![m] = row] /\ row # NoReceipt
      BY <1>5, <2>1 DEF CommitPayment, NoReceipt
    <2>3. FirstFree(m)
      BY <2>1 DEF Dense
    <2>4. req'[r] = Idle /\ \A s \in Requests : s # r => req'[s] = req[s]
      BY <1>5 DEF CommitPayment, Answer, Types
    <2>5. \A s \in Requests : req'[s].pc \notin NumberedPcs
      BY <2>1, <2>4, OneNumbers DEF Idle, NumberedPcs
    <2>6. receipt \in [Receipts -> [invoice : Invoices \cup {Nothing}, amount : Nat]]
      BY DEF Types
    <2> HIDE DEF row, m
    <2>7. receipt'[m] = row /\ \A k \in Receipts : k # m => receipt'[k] = receipt[k]
      BY <2>1, <2>2, <2>6
    <2>8. ASSUME NEW n \in Receipts, n > 1, receipt'[n] # NoReceipt
          PROVE  receipt'[n - 1] # NoReceipt
      <3>1. n \in Int /\ m \in Int /\ n - 1 \in Receipts
        BY <2>1, <2>8, BillingAssumption DEF Receipts
      <3>2. CASE n = m
        BY <2>3, <2>7, <2>8, <3>1, <3>2 DEF FirstFree
      <3>3. CASE n # m
        <4>1. receipt[n] # NoReceipt /\ receipt[n - 1] # NoReceipt
          BY <2>7, <2>8, <3>3 DEF Dense
        <4> QED BY <2>2, <2>7, <3>1, <4>1
      <3> QED BY <3>2, <3>3
    <2> QED BY <2>5, <2>8 DEF Dense
  <1>6. ASSUME NEW r \in Requests, SaveEdit(r) \/ SaveVoid(r) \/ CommitInvoice(r) \/ Fail(r)
        PROVE  Dense'
    <2>1. receipt' = receipt
      BY <1>6 DEF SaveEdit, SaveVoid, CommitInvoice, Fail
    <2>2. req'[r] = Idle /\ \A s \in Requests : s # r => req'[s] = req[s]
      BY <1>6 DEF SaveEdit, SaveVoid, CommitInvoice, Fail, Answer, Types
    <2>3. req'[r].pc \notin NumberedPcs
      BY <2>2 DEF Idle, NumberedPcs
    <2> QED BY <2>1, <2>2, <2>3, OthersKeepDense
  <1> QED BY <1>1, <1>2, <1>3, <1>4, <1>5, <1>6 DEF Next, Advance
-----------------------------------------------------------------------------
\* The invoices the seed has payments for, and what the code of each is.
SeededWithPayments == {i \in Invoices : invoice[i].status \in {"partial", "paid"}}

SeedOf(code) ==
    /\ code \in [SeededWithPayments -> Receipts]
    /\ \A i, j \in SeededWithPayments : i # j => code[i] # code[j]
    /\ \A i \in SeededWithPayments : code[i] <= Cardinality(SeededWithPayments)
    /\ \A n \in Receipts, i \in SeededWithPayments :
          code[i] = n => receipt[n] = [invoice |-> i,
                                       amount  |-> invoice[i].amount - invoice[i].balance]
    /\ \A n \in Receipts :
          (~ \E i \in SeededWithPayments : code[i] = n) => receipt[n] = NoReceipt

LEMMA SeedHasCodes ==
    ASSUME Init
    PROVE  /\ DOMAIN receipt = Receipts /\ receipt = [n \in Receipts |-> receipt[n]]
           /\ \E code : SeedOf(code)
  <1> DEFINE seeded == SeededWithPayments
             row(i) == [invoice |-> i, amount |-> invoice[i].amount - invoice[i].balance]
  <1>1. PICK code \in [seeded -> Receipts] :
           /\ \A i, j \in seeded : i # j => code[i] # code[j]
           /\ \A i \in seeded : code[i] <= Cardinality(seeded)
           /\ receipt = [n \in Receipts |->
                 IF \E i \in seeded : code[i] = n
                 THEN row(CHOOSE i \in seeded : code[i] = n)
                 ELSE NoReceipt]
    BY DEF Init, SeedReceipts, SeededWithPayments
  <1>2. ASSUME NEW n \in Receipts, NEW i \in seeded, code[i] = n
        PROVE  receipt[n] = row(i)
    <2> DEFINE j == CHOOSE j \in seeded : code[j] = n
    <2>1. j \in seeded /\ code[j] = n
      BY <1>2
    <2>2. j = i
      BY <1>1, <1>2, <2>1
    <2> QED BY <1>1, <1>2, <2>2
  <1>3. ASSUME NEW n \in Receipts, ~ \E i \in seeded : code[i] = n
        PROVE  receipt[n] = NoReceipt
    BY <1>1, <1>3
  <1>4. SeedOf(code)
    BY <1>1, <1>2, <1>3 DEF SeedOf
  <1>5. DOMAIN receipt = Receipts /\ receipt = [n \in Receipts |-> receipt[n]]
    BY <1>1
  <1> QED BY <1>4, <1>5

LEMMA SeededRows ==
    ASSUME Init, NEW i \in Invoices
    PROVE  \/ invoice[i] = Accounts!NoInvoice
           \/ \E a \in Amounts, p \in Amounts \cup {0} :
                 /\ a \in Nat /\ p \in Nat /\ a > 0 /\ p <= a
                 /\ invoice[i] = Accounts!Seeded(a, p)
  <1>1. invoice[i] \in SeedInvoices
    BY DEF Init
  <1>2. CASE invoice[i] # Accounts!NoInvoice
    <2>1. PICK ap \in {ap \in Amounts \X (Amounts \cup {0}) : ap[1] > 0 /\ ap[2] <= ap[1]} :
             invoice[i] = Accounts!Seeded(ap[1], ap[2])
      BY <1>1, <1>2 DEF SeedInvoices
    <2>2. ap[1] \in Amounts /\ ap[2] \in Amounts \cup {0} /\ ap[1] > 0 /\ ap[2] <= ap[1]
      BY <2>1
    <2>3. ap[1] \in Nat /\ ap[2] \in Nat
      <3>1. Amounts \subseteq Nat
        BY BillingAssumption
      <3> DEFINE a == ap[1]
                 p == ap[2]
      <3>2. a \in Amounts /\ p \in Amounts \cup {0}
        BY <2>2
      <3> HIDE DEF a, p
      <3>3. a \in Nat /\ p \in Nat
        BY <3>1, <3>2
      <3> QED BY <3>3 DEF a, p
    <2> QED BY <2>1, <2>2, <2>3
  <1> QED BY <1>2

\* Distinct codes of at most the number of payments are exactly the first ones.
LEMMA CodesAreTheFirst ==
    ASSUME NEW S, NEW bound \in Nat, NEW code \in [S -> 1..bound],
           \A i, j \in S : i # j => code[i] # code[j],
           \A i \in S : code[i] <= Cardinality(S)
    PROVE  \A n \in 1..bound : (\E i \in S : code[i] = n) <=> n <= Cardinality(S)
  <1>1. IsFiniteSet(S) /\ Cardinality(S) \in Nat
    <2>1. IsFiniteSet(1..bound)
      BY FS_Interval
    <2>2. code \in Injection(S, 1..bound)
      BY DEF Injection, IsInjective
    <2>3. IsFiniteSet(S)
      BY <2>1, <2>2, FS_Injection
    <2> QED BY <2>3, FS_CardinalityType
  <1> DEFINE first == 1..Cardinality(S)
  <1>2. IsFiniteSet(first) /\ Cardinality(first) = Cardinality(S)
    <2> DEFINE c == Cardinality(S)
    <2>1. c \in Nat
      BY <1>1
    <2> HIDE DEF c
    <2>2. IsFiniteSet(1..c) /\ Cardinality(1..c) = c
      BY <2>1, FS_Interval
    <2> QED BY <2>2 DEF c
  <1>3. code \in [S -> first]
    BY <1>1
  <1> HIDE DEF first
  <1>4. code \in Injection(S, first)
    BY <1>3 DEF Injection, IsInjective
  <1>5. code \in Surjection(S, first)
    BY <1>2, <1>4, FS_Injection
  <1>6. \A n \in first : \E i \in S : code[i] = n
    BY <1>5 DEF Surjection
  <1> QED BY <1>1, <1>6 DEF first

LEMMA BillingStarts == Init => BInv
  <1> SUFFICES ASSUME Init PROVE BInv
    OBVIOUS
  <1>1. PICK code : SeedOf(code)
    BY SeedHasCodes
  <1>2. req = [r \in Requests |-> Idle] /\ held = [r \in Requests |-> NoLocks]
    BY DEF Init
  <1>3. ASSUME NEW i \in Invoices
        PROVE  /\ invoice[i] \in Accounts!InvoiceRow
               /\ invoice[i].amount - invoice[i].balance \in Nat
    <2>1. CASE invoice[i] = Accounts!NoInvoice
      BY <2>1 DEF Accounts!NoInvoice, Accounts!InvoiceRow
    <2>2. ASSUME NEW a \in Nat, NEW p \in Nat, p <= a, invoice[i] = Accounts!Seeded(a, p)
          PROVE  /\ invoice[i] \in Accounts!InvoiceRow
                 /\ invoice[i].amount - invoice[i].balance \in Nat
      BY <2>2 DEF Accounts!Seeded, Accounts!InvoiceRow, Accounts!InvoiceStatus
    <2> QED BY <2>1, <2>2, SeededRows
  <1>4. invoice \in [Invoices -> Accounts!InvoiceRow]
    <2>1. invoice \in [Invoices -> SeedInvoices]
      BY DEF Init
    <2> QED BY <1>3, <2>1
  <1>5. receipt \in [Receipts -> [invoice : Invoices \cup {Nothing}, amount : Nat]]
    <2>1. ASSUME NEW n \in Receipts
          PROVE  receipt[n] \in [invoice : Invoices \cup {Nothing}, amount : Nat]
      <3>1. CASE \E i \in SeededWithPayments : code[i] = n
        <4>1. PICK i \in SeededWithPayments : code[i] = n
          BY <3>1
        <4>2. receipt[n] = [invoice |-> i, amount |-> invoice[i].amount - invoice[i].balance]
          BY <1>1, <4>1 DEF SeedOf
        <4>3. i \in Invoices
          BY DEF SeededWithPayments
        <4> QED BY <1>3, <4>2, <4>3
      <3>2. CASE ~ \E i \in SeededWithPayments : code[i] = n
        BY <1>1, <3>2 DEF SeedOf, NoReceipt
      <3> QED BY <3>1, <3>2
    <2> QED BY <2>1, SeedHasCodes
  <1>6. Types
    BY <1>2, <1>4, <1>5, IdleIsRemembered DEF Types
  <1>7. LockInv
    BY <1>2 DEF LockInv, LocksTypeOK, LocksExclude, LockSet, Conflict, NoLocks, Behind, Idle,
                NumberedPcs
  <1>8. Dense
    <2> DEFINE S == SeededWithPayments
    <2>1. \A n \in Receipts : (\E i \in S : code[i] = n) <=> n <= Cardinality(S)
      <3>1. /\ code \in [S -> 1..MaxReceipts] /\ MaxReceipts \in Nat
            /\ \A i, j \in S : i # j => code[i] # code[j]
            /\ \A i \in S : code[i] <= Cardinality(S)
        BY <1>1, BillingAssumption DEF SeedOf, Receipts
      <3> HIDE DEF S
      <3> QED BY <3>1, CodesAreTheFirst DEF Receipts
    <2>2. \A n \in Receipts : receipt[n] # NoReceipt <=> n <= Cardinality(S)
      <3>1. ASSUME NEW n \in Receipts, NEW i \in S, code[i] = n PROVE receipt[n] # NoReceipt
        <4>1. receipt[n] = [invoice |-> i, amount |-> invoice[i].amount - invoice[i].balance]
          BY <1>1, <3>1 DEF SeedOf
        <4>2. i # Nothing
          BY BillingAssumption DEF SeededWithPayments
        <4> QED BY <4>1, <4>2 DEF NoReceipt
      <3>2. ASSUME NEW n \in Receipts, ~ \E i \in S : code[i] = n PROVE receipt[n] = NoReceipt
        BY <1>1, <3>2 DEF SeedOf
      <3> QED BY <2>1, <3>1, <3>2
    <2>3. Cardinality(S) \in Int
      <3>1. code \in Injection(S, 1..MaxReceipts)
        BY <1>1 DEF SeedOf, Receipts, Injection, IsInjective
      <3>2. IsFiniteSet(1..MaxReceipts)
        BY BillingAssumption, FS_Interval
      <3>3. IsFiniteSet(S)
        BY <3>1, <3>2, FS_Injection
      <3> QED BY <3>3, FS_CardinalityType
    <2>4. ASSUME NEW n \in Receipts, n > 1, receipt[n] # NoReceipt
          PROVE  receipt[n - 1] # NoReceipt
      <3> HIDE DEF S
      <3>1. n - 1 \in Receipts /\ n \in Int
        BY <2>4, BillingAssumption DEF Receipts
      <3>2. n <= Cardinality(S)
        BY <2>2, <2>4
      <3>3. n - 1 <= Cardinality(S)
        BY <2>3, <3>1, <3>2
      <3> QED BY <2>2, <3>1, <3>3
    <2>5. \A r \in Requests : req[r].pc \notin NumberedPcs
      BY <1>2 DEF Idle, NumberedPcs
    <2> QED BY <2>4, <2>5 DEF Dense
  <1> QED BY <1>6, <1>7, <1>8 DEF BInv

LEMMA BillingHolds == Spec => []BInv
  <1>1. Init => BInv
    BY BillingStarts
  <1>2. BInv /\ [Next]_vars => BInv'
    <2> SUFFICES ASSUME BInv, [Next]_vars PROVE BInv'
      OBVIOUS
    <2>1. Types'
      <3>1. CASE UNCHANGED vars
        BY <3>1 DEF vars, BInv, Types, Remembers
      <3>2. ASSUME NEW r \in Requests, Arrive(r) PROVE Types'
        BY <3>2, ArriveKeepsTypes DEF BInv
      <3>3. ASSUME NEW r \in Requests, Advance(r) PROVE Types'
        BY <3>3, AdvanceKeepsTypes DEF BInv
      <3>4. ASSUME NEW r \in Requests, Fail(r) PROVE Types'
        BY <3>4, AnswerKeepsTypes DEF BInv, Fail, Types
      <3> QED BY <3>1, <3>2, <3>3, <3>4 DEF Next
    <2>2. LockInv' /\ Dense'
      BY NextKeepsLocks, NextKeepsDense DEF BInv
    <2> QED BY <2>1, <2>2 DEF BInv
  <1> QED BY <1>1, <1>2, PTL DEF Spec

\* The tables keep their columns' types: no balance is ever negative, and no
\* handler writes a row it did not address, however requests interleave.
THEOREM BillingTypes == Spec => []TypeOK
  <1>1. BInv => TypeOK
    BY DEF BInv, Types, LockInv, TypeOK, Remembers
  <1> QED BY <1>1, BillingHolds, PTL

\* Receipt codes have no gaps and no repeats, for any number of payments that
\* overlap, fail or commit in another order than they arrived.
THEOREM ReceiptsStayDense == Spec => []ReceiptsAreDense
  <1>1. BInv => ReceiptsAreDense
    <2> SUFFICES ASSUME BInv PROVE ReceiptsAreDense
      OBVIOUS
    <2>1. ASSUME NEW r \in Requests, req[r].pc = "balanceWritten"
          PROVE  receipt[req[r].n] = NoReceipt
      <3>1. FirstFree(req[r].n) /\ req[r].n \in Receipts
        BY <2>1 DEF BInv, Dense, Types, Remembers, NumberedPcs
      <3> QED BY <3>1 DEF FirstFree, Receipts
    <2> QED BY <2>1 DEF BInv, Dense, ReceiptsAreDense
  <1> QED BY <1>1, BillingHolds, PTL
-----------------------------------------------------------------------------
(***************************************************************************)
(* Requests in flight that address different invoices, and payments of     *)
(* whole cents.  What a request has read of its invoice is then still so   *)
(* when it commits.                                                        *)
(***************************************************************************)
Apart == \A r, s \in Requests : r # s => Clerk[r] \cap Clerk[s] = {}

WholeCents == \A q \in Asked : q % Fraction = 0

Current(q) ==
    LET row == invoice[q.i] IN
    /\ q.pc \in PaymentPcs =>
          /\ row.status \notin {"none", "void"} /\ row.balance > 0
          /\ q.balance = row.balance * Fraction
          /\ \E ask \in Asked : q.got = Accounts!Least(ask, q.balance)
    /\ q.pc \in {"editChecked", "voidChecked"} => Untouched(row)
    /\ q.pc = "invoiceInserted" => row.status = "none"
    /\ q.pc \in {"editChecked", "invoiceInserted"} => q.got \in Amounts

Fresh == \A r \in Requests : Current(req[r])

LEMMA OthersStayFresh ==
    ASSUME Types, Fresh, Apart, NEW r \in Requests,
           \A s \in Requests : s # r => req'[s] = req[s],
           \A i \in Invoices : i \notin Clerk[r] => invoice'[i] = invoice[i],
           Current(req[r])'
    PROVE  Fresh'
  <1>1. ASSUME NEW s \in Requests, s # r PROVE Current(req[s])'
    <2>1. req'[s] = req[s] /\ Current(req[s])
      BY <1>1 DEF Fresh
    <2>2. CASE req[s].pc = "idle"
      BY <2>1, <2>2 DEF Current, PaymentPcs
    <2>3. CASE req[s].pc # "idle"
      <3>1. req[s].i \in Clerk[s] /\ req[s].i \notin Clerk[r]
        BY <1>1, <2>3 DEF Types, Remembers, Apart
      <3>2. invoice'[req[s].i] = invoice[req[s].i]
        BY <3>1, ClerksInvoices
      <3> QED BY <2>1, <3>2 DEF Current
    <2> QED BY <2>2, <2>3
  <1> QED BY <1>1 DEF Fresh

LEMMA ArriveStaysFresh ==
    ASSUME Types, Fresh, Apart, NEW r \in Requests, Arrive(r)
    PROVE  Fresh'
  <1>1. invoice' = invoice /\ \A s \in Requests : s # r => req'[s] = req[s]
    BY DEF Arrive, ReadForPayment, ReadForEdit, ReadForVoid, InsertInvoice, Begin, Types
  <1>2. Current(req[r])'
    <2>1. PICK i \in Clerk[r] :
             \/ \E q \in Asked : ReadForPayment(r, i, q)
             \/ \E a \in Amounts : ReadForEdit(r, i, a) \/ InsertInvoice(r, i, a)
             \/ ReadForVoid(r, i)
      BY DEF Arrive
    <2>2. ASSUME NEW q \in Asked, ReadForPayment(r, i, q) PROVE Current(req[r])'
      <3> DEFINE balance == invoice[i].balance * Fraction
      <3>1. /\ req'[r].pc = "payChecked" /\ req'[r].i = i /\ req'[r].balance = balance
            /\ req'[r].got = Accounts!Least(q, balance)
        BY <2>2 DEF ReadForPayment, Begin, Types, Idle
      <3>2. /\ invoice[i].status \notin {"none", "void"}
            /\ balance > 0
        BY <2>2 DEF ReadForPayment
      <3>3. invoice[i].balance > 0
        <4>1. invoice[i].balance \in Nat
          BY ClerksInvoices, RowFields
        <4>2. invoice[i].balance # 0
          BY <3>2, BillingAssumption
        <4> QED BY <4>1, <4>2
      <3> QED BY <1>1, <3>1, <3>2, <3>3 DEF Current, PaymentPcs
    <2>3. ASSUME NEW a \in Amounts, ReadForEdit(r, i, a) PROVE Current(req[r])'
      <3>1. /\ req'[r].pc = "editChecked" /\ req'[r].i = i /\ req'[r].got = a
            /\ Untouched(invoice[i])
        BY <2>3 DEF ReadForEdit, Begin, Types, Idle
      <3> QED BY <1>1, <3>1 DEF Current, PaymentPcs, Untouched
    <2>4. ASSUME NEW a \in Amounts, InsertInvoice(r, i, a) PROVE Current(req[r])'
      <3>1. /\ req'[r].pc = "invoiceInserted" /\ req'[r].i = i /\ req'[r].got = a
            /\ invoice[i].status = "none"
        BY <2>4 DEF InsertInvoice, Types, Idle
      <3> QED BY <1>1, <3>1 DEF Current, PaymentPcs
    <2>5. ASSUME ReadForVoid(r, i) PROVE Current(req[r])'
      <3>1. /\ req'[r].pc = "voidChecked" /\ req'[r].i = i
            /\ Untouched(invoice[i])
        BY <2>5 DEF ReadForVoid, Begin, Types, Idle
      <3> QED BY <1>1, <3>1 DEF Current, PaymentPcs, Untouched
    <2> QED BY <2>1, <2>2, <2>3, <2>4, <2>5
  <1> QED BY <1>1, <1>2, OthersStayFresh

LEMMA AdvanceStaysFresh ==
    ASSUME Types, Fresh, Apart, NEW r \in Requests, Advance(r) \/ Fail(r)
    PROVE  Fresh'
  <1>1. req[r] \in Local /\ (req[r].pc # "idle" => req[r].i \in Clerk[r]) /\ Current(req[r])
    BY DEF Types, Remembers, Fresh
  <1>2. \A s \in Requests : s # r => req'[s] = req[s]
    BY DEF Advance, Fail, InsertReceipt, WriteBalance, CommitPayment, SaveEdit, SaveVoid,
           CommitInvoice, Answer, Types
  <1>3. ASSUME NEW i \in Invoices, i \notin Clerk[r] PROVE invoice'[i] = invoice[i]
    BY <1>1, <1>3 DEF Advance, Fail, InsertReceipt, WriteBalance, CommitPayment, SaveEdit,
                      SaveVoid, CommitInvoice, Types
  <1>4. CASE InsertReceipt(r) \/ WriteBalance(r)
    <2>1. /\ req[r].pc \in PaymentPcs /\ req'[r].pc \in PaymentPcs
          /\ req'[r].i = req[r].i /\ req'[r].balance = req[r].balance /\ req'[r].got = req[r].got
      <3>1. CASE InsertReceipt(r)
        <4>1. PICK n \in Receipts : req' = [req EXCEPT ![r].pc = "receiptInserted", ![r].n = n]
          BY <3>1 DEF InsertReceipt
        <4> QED BY <1>1, <3>1, <4>1 DEF InsertReceipt, PaymentPcs, Types, Local
      <3>2. CASE WriteBalance(r)
        BY <1>1, <3>2 DEF WriteBalance, PaymentPcs, Types, Local
      <3> QED BY <1>4, <3>1, <3>2
    <2>2. invoice' = invoice
      BY <1>4 DEF InsertReceipt, WriteBalance
    <2>3. Current(req[r])'
      BY <1>1, <2>1, <2>2 DEF Current, PaymentPcs
    <2> QED BY <1>2, <1>3, <2>3, OthersStayFresh
  <1>5. CASE Answer(r)
    <2>1. req'[r] = Idle
      BY <1>5 DEF Answer, Types
    <2>2. Current(req[r])'
      BY <2>1 DEF Current, Idle, PaymentPcs
    <2> QED BY <1>2, <1>3, <2>2, OthersStayFresh
  <1> QED BY <1>4, <1>5 DEF Advance, Fail, CommitPayment, SaveEdit, SaveVoid, CommitInvoice

LEMMA FreshHolds == ASSUME Apart PROVE Spec => []Fresh
  <1>1. Init => Fresh
    BY DEF Init, Fresh, Current, Idle, PaymentPcs
  <1>2. BInv /\ Fresh /\ [Next]_vars => Fresh'
    <2> SUFFICES ASSUME BInv, Fresh, [Next]_vars PROVE Fresh'
      OBVIOUS
    <2>1. CASE UNCHANGED vars
      BY <2>1 DEF vars, Fresh, Current
    <2> QED BY <2>1, ArriveStaysFresh, AdvanceStaysFresh DEF BInv, Next
  <1> QED BY <1>1, <1>2, BillingHolds, PTL DEF Spec
-----------------------------------------------------------------------------
\* A whole number of cents is stored as it is.
LEMMA RoundsWholeCents ==
    ASSUME NEW x \in Nat
    PROVE  ToCents(Fraction * x) = x
  <1>1. Fraction \in Nat /\ Fraction > 0
    BY BillingAssumption
  <1> DEFINE m == 2 * Fraction
  <1>2. m \in Nat /\ Fraction < m
    BY <1>1
  <1>3. 2 * (Fraction * x) = m * x
    BY <1>1
  <1>4. (m * x + Fraction) \div m = x
    <2> HIDE DEF m
    <2> QED BY <1>1, <1>2, QuotientIs
  <1> QED BY <1>3, <1>4 DEF ToCents

\* Multiples of Fraction compare as their factors do.
LEMMA ScaledLeast ==
    ASSUME NEW k \in Nat, NEW b \in Nat
    PROVE  /\ Accounts!Least(Fraction * k, b * Fraction) = Fraction * Accounts!Least(k, b)
           /\ Accounts!Least(k, b) \in Nat /\ Accounts!Least(k, b) <= b
           /\ b * Fraction - Fraction * Accounts!Least(k, b)
                = Fraction * (b - Accounts!Least(k, b))
  <1>1. Fraction \in Nat /\ Fraction > 0
    BY BillingAssumption
  <1>2. b * Fraction = Fraction * b /\ Fraction * b \in Nat /\ Fraction * k \in Nat
    BY <1>1
  <1>3. CASE k <= b
    <2>1. Fraction * k <= Fraction * b
      BY <1>1, <1>3, TimesGrows
    <2>2. Accounts!Least(k, b) = k
      BY <1>3 DEF Accounts!Least
    <2>3. Accounts!Least(Fraction * k, b * Fraction) = Fraction * k
      BY <1>2, <2>1 DEF Accounts!Least
    <2>4. b * Fraction - Fraction * k = Fraction * (b - k)
      BY <1>1, <1>3
    <2> QED BY <1>3, <2>2, <2>3, <2>4
  <1>4. CASE b < k
    <2>1. Fraction * (b + 1) <= Fraction * k
      BY <1>1, <1>4, TimesGrows
    <2>2. Fraction * (b + 1) = Fraction * b + Fraction
      BY <1>1
    <2>3. Accounts!Least(k, b) = b
      BY <1>4 DEF Accounts!Least
    <2>4. Accounts!Least(Fraction * k, b * Fraction) = Fraction * b
      BY <1>1, <1>2, <2>1, <2>2 DEF Accounts!Least
    <2>5. b * Fraction - Fraction * b = Fraction * (b - b)
      BY <1>1
    <2> QED BY <2>3, <2>4, <2>5
  <1> QED BY <1>3, <1>4

LEMMA AskedWhole ==
    ASSUME WholeCents, NEW q \in Asked
    PROVE  q \div Fraction \in Nat /\ q = Fraction * (q \div Fraction)
  <1>1. q \in Nat /\ Fraction \in Nat /\ Fraction > 0 /\ q % Fraction = 0
    BY BillingAssumption DEF WholeCents
  <1> QED BY <1>1

LEMMA ReceivedStays ==
    ASSUME receipt' = receipt, NEW i
    PROVE  Received(i)' = Received(i)
  BY DEF Received

\* One payment adds its amount to what its invoice has received, and nothing
\* to the others.
LEMMA ReceivedGrows ==
    ASSUME Types, NEW n \in Receipts, NEW i \in Invoices, NEW m \in Nat,
           receipt[n] = NoReceipt, receipt' = [receipt EXCEPT ![n] = [invoice |-> i, amount |-> m]]
    PROVE  \A j \in Invoices : Received(j)' = Received(j) + (IF j = i THEN m ELSE 0)
  <1> SUFFICES ASSUME NEW j \in Invoices
               PROVE  Received(j)' = Received(j) + (IF j = i THEN m ELSE 0)
    OBVIOUS
  <1> DEFINE f == [k \in Receipts |-> receipt[k].amount]
             g == [k \in Receipts |-> receipt'[k].amount]
             S == {k \in Receipts : receipt[k].invoice = j}
             T == {k \in Receipts : receipt'[k].invoice = j}
  <1>1. Received(j) = SumFunctionOnSet(f, S) /\ Received(j)' = SumFunctionOnSet(g, T)
    BY DEF Received
  <1>2. receipt \in [Receipts -> [invoice : Invoices \cup {Nothing}, amount : Nat]]
    BY DEF Types
  <1>3. /\ receipt'[n] = [invoice |-> i, amount |-> m]
        /\ \A k \in Receipts : k # n => receipt'[k] = receipt[k]
    BY <1>2
  <1>4. n \notin S
    BY BillingAssumption DEF NoReceipt
  <1>5. T = IF j = i THEN S \cup {n} ELSE S
    BY <1>3, <1>4
  <1>6. IsFiniteSet(S)
    <2>1. IsFiniteSet(Receipts)
      BY BillingAssumption, FS_Interval DEF Receipts
    <2> QED BY <2>1, FS_Subset
  <1>7. /\ \A k \in S : f[k] \in Int /\ g[k] = f[k]
        /\ \A k \in S \cup {n} : g[k] \in Int
        /\ g[n] = m
    BY <1>2, <1>3, <1>4
  <1> HIDE DEF f, g, S, T
  <1>8. SumFunctionOnSet(g, S) = SumFunctionOnSet(f, S) /\ SumFunctionOnSet(f, S) \in Int
    <2>1. \A k \in S : f[k] \in Int
      BY <1>7
    <2> QED BY <1>6, <1>7, <2>1, SumsOfEquals, SumIsInt
  <1>9. SumFunctionOnSet(g, S \cup {n}) = g[n] + SumFunctionOnSet(g, S)
    BY <1>4, <1>6, <1>7, SumAdds
  <1> QED BY <1>1, <1>5, <1>7, <1>8, <1>9
-----------------------------------------------------------------------------
(***************************************************************************)
(* Each step of Billing is one of Ledger or changes neither the invoices   *)
(* nor what has been received for them.                                    *)
(***************************************************************************)
PaidFor == [i \in Invoices |-> Received(i)]

LEMMA SameTables ==
    ASSUME UNCHANGED <<invoice, receipt>>
    PROVE  UNCHANGED Accounts!vars
  BY ReceivedStays DEF Accounts!vars

LEMMA PaymentIsRecord ==
    ASSUME Types, Fresh, WholeCents, NEW r \in Requests, CommitPayment(r)
    PROVE  Accounts!Next
  <1> DEFINE q == req[r]
             i == q.i
             b == invoice[i].balance
  <1>1. /\ i \in Invoices /\ q.n \in Receipts /\ q.got \in Nat /\ q.balance \in Nat
        /\ q.pc \in PaymentPcs
    BY ClerksInvoices DEF CommitPayment, Types, Remembers, Local, PaymentPcs, NumberedPcs
  <1>2. /\ invoice[i].status \notin {"none", "void"} /\ b > 0 /\ q.balance = b * Fraction
        /\ \E ask \in Asked : q.got = Accounts!Least(ask, q.balance)
    BY <1>1 DEF Fresh, Current
  <1>3. PICK ask \in Asked : q.got = Accounts!Least(ask, q.balance)
    BY <1>2
  <1> DEFINE k == ask \div Fraction
             m == Accounts!Least(k, b)
  <1>4. b \in Nat /\ k \in Nat /\ ask = Fraction * k
    BY <1>1, RowFields, AskedWhole
  <1> HIDE DEF b, k
  <1>5. /\ q.got = Fraction * m /\ m \in Nat /\ m <= b
        /\ q.balance - q.got = Fraction * (b - m)
    BY <1>2, <1>3, <1>4, ScaledLeast
  <1> HIDE DEF m
  <1>6. /\ ToCents(q.got) = m
        /\ ToCents(q.balance - q.got) = b - m
        /\ q.balance - q.got <= 0 <=> b - m <= 0
    <2>1. b - m \in Nat
      BY <1>4, <1>5
    <2>2. ToCents(Fraction * m) = m /\ ToCents(Fraction * (b - m)) = b - m
      BY <1>5, <2>1, RoundsWholeCents
    <2> DEFINE d == b - m
    <2>3. Fraction * d <= 0 <=> d <= 0
      <3>1. d \in Nat /\ Fraction \in Nat /\ Fraction > 0
        BY <2>1, BillingAssumption
      <3> HIDE DEF d
      <3>2. CASE d = 0
        BY <3>1, <3>2
      <3>3. CASE d > 0
        <4>1. Fraction * 1 <= Fraction * d
          BY <3>1, <3>3, TimesGrows
        <4> QED BY <3>1, <3>3, <4>1
      <3> QED BY <3>1, <3>2, <3>3
    <2> QED BY <1>5, <2>2, <2>3
  <1>7. /\ receipt[q.n] = NoReceipt
        /\ receipt' = [receipt EXCEPT ![q.n] = [invoice |-> i, amount |-> m]]
        /\ invoice' = [invoice EXCEPT ![i].balance = b - m,
                                      ![i].status = IF b - m <= 0 THEN "paid" ELSE "partial"]
    BY <1>6 DEF CommitPayment
  <1>8. \A j \in Invoices : Received(j)' = Received(j) + (IF j = i THEN m ELSE 0)
    BY <1>1, <1>5, <1>7, ReceivedGrows
  <1>9. Received(i) \in Int /\ \A j \in Invoices : Received(j) + 0 = Received(j)
    <2>1. ASSUME NEW j PROVE Received(j) \in Int
      <3> DEFINE f == [n \in Receipts |-> receipt[n].amount]
                 S == {n \in Receipts : receipt[n].invoice = j}
      <3>1. IsFiniteSet(S)
        <4>1. IsFiniteSet(Receipts)
          BY BillingAssumption, FS_Interval DEF Receipts
        <4> QED BY <4>1, FS_Subset
      <3>2. \A n \in S : f[n] \in Int
        BY DEF Types
      <3>3. Received(j) = SumFunctionOnSet(f, S)
        BY DEF Received
      <3> HIDE DEF f, S
      <3> QED BY <3>1, <3>2, <3>3, SumIsInt
    <2> QED BY <2>1
  <1>10. [j \in Invoices |-> Received(j)'] = [PaidFor EXCEPT ![i] = PaidFor[i] + m]
    BY <1>1, <1>8, <1>9 DEF PaidFor
  <1>11. k \in {a \div Fraction : a \in Asked}
    BY DEF k
  <1>12. Accounts!Record(i, k)
    BY <1>1, <1>2, <1>7, <1>10 DEF Accounts!Record, PaidFor, m, b
  <1> QED BY <1>1, <1>11, <1>12 DEF Accounts!Next

LEMMA StepIsAtomic ==
    ASSUME BInv, Fresh, WholeCents, [Next]_vars
    PROVE  [Accounts!Next]_(Accounts!vars)
  <1>1. CASE UNCHANGED vars
    BY <1>1, SameTables DEF vars
  <1>2. ASSUME NEW r \in Requests, Arrive(r) \/ InsertReceipt(r) \/ WriteBalance(r) \/ Fail(r)
        PROVE  UNCHANGED Accounts!vars
    <2>1. UNCHANGED <<invoice, receipt>>
      BY <1>2 DEF Arrive, ReadForPayment, ReadForEdit, ReadForVoid, InsertInvoice, Begin,
                  InsertReceipt, WriteBalance, Fail
    <2> QED BY <2>1, SameTables
  <1>3. ASSUME NEW r \in Requests, CommitPayment(r) PROVE Accounts!Next
    BY <1>3, PaymentIsRecord DEF BInv
  <1>4. ASSUME NEW r \in Requests, SaveEdit(r) \/ SaveVoid(r) \/ CommitInvoice(r)
        PROVE  Accounts!Next
    <2> DEFINE i == req[r].i
    <2>1. i \in Invoices /\ Current(req[r])
      BY <1>4, ClerksInvoices
         DEF SaveEdit, SaveVoid, CommitInvoice, BInv, Types, Remembers, Fresh
    <2>2. \A j \in Invoices : Received(j)' = Received(j)
      BY <1>4, ReceivedStays DEF SaveEdit, SaveVoid, CommitInvoice
    <2>3. PaidFor' = PaidFor
      BY <2>2 DEF PaidFor
    <2>4. CASE SaveEdit(r)
      <3>1. req[r].got \in Amounts /\ Accounts!Untouched(invoice[i])
        BY <2>1, <2>4 DEF SaveEdit, Current, Untouched, Accounts!Untouched
      <3>2. Accounts!Edit(i, req[r].got)
        BY <2>3, <2>4, <3>1 DEF SaveEdit, Accounts!Edit, PaidFor
      <3> QED BY <2>1, <3>1, <3>2 DEF Accounts!Next
    <2>5. CASE SaveVoid(r)
      <3>1. Accounts!Untouched(invoice[i])
        BY <2>1, <2>5 DEF SaveVoid, Current, Untouched, Accounts!Untouched
      <3>2. Accounts!Void(i)
        BY <2>3, <2>5, <3>1 DEF SaveVoid, Accounts!Void, PaidFor
      <3> QED BY <2>1, <3>2 DEF Accounts!Next
    <2>6. CASE CommitInvoice(r)
      <3>1. req[r].got \in Amounts /\ invoice[i].status = "none"
        BY <2>1, <2>6 DEF CommitInvoice, Current
      <3>2. Accounts!Issue(i, req[r].got)
        BY <2>3, <2>6, <3>1 DEF CommitInvoice, Accounts!Issue, PaidFor
      <3> QED BY <2>1, <3>1, <3>2 DEF Accounts!Next
    <2> QED BY <1>4, <2>4, <2>5, <2>6
  <1> QED BY <1>1, <1>2, <1>3, <1>4 DEF Next, Advance

\* A seeded invoice has received what its one payment says, or nothing.
LEMMA SeedReceived ==
    ASSUME Init, NEW i \in Invoices
    PROVE  Received(i) = IF i \in SeededWithPayments THEN invoice[i].amount - invoice[i].balance
                         ELSE 0
  <1>1. PICK code : SeedOf(code)
    BY SeedHasCodes
  <1> DEFINE f == [n \in Receipts |-> receipt[n].amount]
             S == {n \in Receipts : receipt[n].invoice = i}
  <1>2. Received(i) = SumFunctionOnSet(f, S)
    BY DEF Received
  <1>3. i # Nothing
    BY BillingAssumption
  <1>4. ASSUME NEW n \in S
        PROVE  i \in SeededWithPayments /\ code[i] = n
    <2>1. CASE \E j \in SeededWithPayments : code[j] = n
      <3>1. PICK j \in SeededWithPayments : code[j] = n
        BY <2>1
      <3>2. receipt[n] = [invoice |-> j, amount |-> invoice[j].amount - invoice[j].balance]
        BY <1>1, <3>1 DEF SeedOf
      <3>3. j = i
        BY <3>2
      <3> QED BY <3>1, <3>3
    <2>2. CASE ~ \E j \in SeededWithPayments : code[j] = n
      BY <1>1, <1>3, <2>2 DEF SeedOf, NoReceipt
    <2> QED BY <2>1, <2>2
  <1>5. CASE i \notin SeededWithPayments
    <2>1. S = {}
      BY <1>4, <1>5
    <2> QED BY <1>2, <1>5, <2>1, SumOfNone
  <1>6. CASE i \in SeededWithPayments
    <2> DEFINE n == code[i]
    <2>1. /\ n \in Receipts
          /\ receipt[n] = [invoice |-> i, amount |-> invoice[i].amount - invoice[i].balance]
      BY <1>1, <1>6 DEF SeedOf
    <2>2. n \in S /\ \A k \in S : k = n
      BY <1>4, <2>1
    <2>3. S = {n}
      BY <2>2
    <2>4. invoice[i].amount - invoice[i].balance \in Int
      <3>1. Types
        BY BillingStarts DEF BInv
      <3> QED BY <3>1, RowFields
    <2>5. f[n] = invoice[i].amount - invoice[i].balance
      BY <2>1
    <2> HIDE DEF f, S, n
    <2>6. SumFunctionOnSet(f, {n}) = f[n] + SumFunctionOnSet(f, {})
      <3>1. IsFiniteSet({}) /\ n \notin {} /\ {} \cup {n} = {n}
        BY FS_EmptySet
      <3>2. \A y \in {} \cup {n} : f[y] \in Int
        BY <2>4, <2>5
      <3>3. SumFunctionOnSet(f, {} \cup {n}) = f[n] + SumFunctionOnSet(f, {})
        BY <3>1, <3>2, SumAdds
      <3> QED BY <3>1, <3>3
    <2>7. SumFunctionOnSet(f, {}) = 0
      BY SumOfNone
    <2> QED BY <1>2, <1>6, <2>3, <2>4, <2>5, <2>6, <2>7
  <1> QED BY <1>5, <1>6

LEMMA InitIsLedgers == Init => Accounts!Init
  <1> SUFFICES ASSUME Init PROVE Accounts!Init
    OBVIOUS
  <1>1. ASSUME NEW i \in Invoices
        PROVE  \/ invoice[i] = Accounts!NoInvoice /\ Received(i) = 0
               \/ \E a \in Amounts : /\ a > 0 /\ Received(i) <= a
                                     /\ Received(i) \in Amounts \cup {0}
                                     /\ invoice[i] = Accounts!Seeded(a, Received(i))
    <2>1. CASE invoice[i] = Accounts!NoInvoice
      <3>1. i \notin SeededWithPayments
        BY <2>1 DEF SeededWithPayments, Accounts!NoInvoice
      <3> QED BY <2>1, <3>1, SeedReceived
    <2>2. CASE invoice[i] # Accounts!NoInvoice
      <3>1. PICK a \in Amounts, p \in Amounts \cup {0} :
               a \in Nat /\ p \in Nat /\ a > 0 /\ p <= a /\ invoice[i] = Accounts!Seeded(a, p)
        BY <2>2, SeededRows
      <3>2. Received(i) = p
        <4>1. CASE p = 0
          <5>1. i \notin SeededWithPayments
            BY <3>1, <4>1 DEF SeededWithPayments, Accounts!Seeded
          <5> QED BY <4>1, <5>1, SeedReceived
        <4>2. CASE p # 0
          <5>1. i \in SeededWithPayments /\ invoice[i].amount - invoice[i].balance = p
            BY <3>1, <4>2 DEF SeededWithPayments, Accounts!Seeded
          <5> QED BY <5>1, SeedReceived
        <4> QED BY <4>1, <4>2
      <3> QED BY <3>1, <3>2
    <2> QED BY <2>1, <2>2
  <1>2. [i \in Invoices |-> Received(i)] \in [Invoices -> Amounts \cup {0}]
    BY <1>1
  <1>3. invoice \in [Invoices -> {Accounts!NoInvoice} \cup
                        {Accounts!Seeded(a, p) : a \in Amounts, p \in Amounts \cup {0}}]
    <2>1. invoice \in [Invoices -> SeedInvoices]
      BY DEF Init
    <2>2. \A i \in Invoices :
             invoice[i] \in {Accounts!NoInvoice} \cup
                {Accounts!Seeded(a, p) : a \in Amounts, p \in Amounts \cup {0}}
      BY <1>1
    <2> QED BY <2>1, <2>2
  <1> QED BY <1>1, <1>2, <1>3 DEF Accounts!Init

\* As long as no two requests in flight address one invoice, and payments are
\* of whole cents, the awaits in the handlers of invoices and payments make no
\* difference: every commit is one atomic operation of Ledger.
THEOREM ApartTheyAreAtomic ==
    ASSUME Apart, WholeCents
    PROVE  Spec => ImplementsLedger
  <1>1. Init => Accounts!Init
    BY InitIsLedgers
  <1>2. BInv /\ Fresh /\ [Next]_vars => [Accounts!Next]_(Accounts!vars)
    BY StepIsAtomic
  <1>3. Spec => []Fresh
    BY FreshHolds
  <1> QED BY <1>1, <1>2, <1>3, BillingHolds, PTL DEF Spec, ImplementsLedger, Accounts!Spec

Books ==
    \A i \in Invoices :
       LET row == invoice[i] IN
       /\ row.amount \in Nat /\ row.balance \in Nat /\ Received(i) \in Nat
       /\ row.amount = row.balance + Received(i)
       /\ row.status = "none" => Received(i) = 0

LEMMA LedgerKeepsBooks ==
    ASSUME Types, Books, [Accounts!Next]_(Accounts!vars)
    PROVE  Books'
  <1>1. CASE UNCHANGED Accounts!vars
    <2>1. /\ invoice' = invoice
          /\ [i \in Invoices |-> Received(i)'] = [i \in Invoices |-> Received(i)]
      BY <1>1 DEF Accounts!vars
    <2>2. \A i \in Invoices : Received(i)' = Received(i)
      BY <2>1
    <2> QED BY <2>1, <2>2 DEF Books
  <1>2. ASSUME NEW i \in Invoices, NEW row, NEW got,
               invoice' = [invoice EXCEPT ![i] = row],
               [j \in Invoices |-> Received(j)'] = [PaidFor EXCEPT ![i] = got],
               row.amount \in Nat /\ row.balance \in Nat /\ got \in Nat,
               row.amount = row.balance + got,
               row.status = "none" => got = 0
        PROVE  Books'
    <2>1. /\ invoice'[i] = row
          /\ \A j \in Invoices : j # i => invoice'[j] = invoice[j]
      BY <1>2 DEF Types
    <2>2. \A j \in Invoices : Received(j)' = IF j = i THEN got ELSE Received(j)
      BY <1>2 DEF PaidFor
    <2>3. ASSUME NEW j \in Invoices
          PROVE  /\ invoice'[j].amount \in Nat /\ invoice'[j].balance \in Nat
                 /\ Received(j)' \in Nat
                 /\ invoice'[j].amount = invoice'[j].balance + Received(j)'
                 /\ invoice'[j].status = "none" => Received(j)' = 0
      BY <1>2, <2>1, <2>2 DEF Books
    <2> QED BY <2>3 DEF Books
  <1>3. ASSUME NEW i \in Invoices, [j \in Invoices |-> Received(j)'] = PaidFor
        PROVE  [j \in Invoices |-> Received(j)'] = [PaidFor EXCEPT ![i] = Received(i)]
    BY <1>3 DEF PaidFor
  <1>4. ASSUME NEW i \in Invoices, NEW a \in Amounts, Accounts!Issue(i, a) PROVE Books'
    <2> DEFINE row == Accounts!FreshInvoice(a)
    <2>1. /\ invoice' = [invoice EXCEPT ![i] = row] /\ invoice[i].status = "none"
          /\ [j \in Invoices |-> Received(j)'] = PaidFor
      BY <1>4 DEF Accounts!Issue, PaidFor
    <2>2. /\ row.amount \in Nat /\ row.balance \in Nat /\ Received(i) \in Nat
          /\ row.amount = row.balance + Received(i) /\ row.status # "none"
      BY <2>1, BillingAssumption DEF Books, Accounts!FreshInvoice
    <2> HIDE DEF row
    <2> QED BY <1>2, <1>3, <2>1, <2>2
  <1>5. ASSUME NEW i \in Invoices, NEW a \in Amounts, Accounts!Edit(i, a) PROVE Books'
    <2> DEFINE row == [invoice[i] EXCEPT !.amount = a, !.balance = a]
    <2>1. /\ invoice' = [invoice EXCEPT ![i] = row] /\ Accounts!Untouched(invoice[i])
          /\ [j \in Invoices |-> Received(j)'] = PaidFor
      BY <1>5 DEF Accounts!Edit, PaidFor, Types
    <2>2. row.amount = a /\ row.balance = a /\ row.status = invoice[i].status
      BY RowFields DEF Accounts!InvoiceRow
    <2>3. Received(i) = 0 /\ a \in Nat
      BY <2>1, BillingAssumption DEF Books, Accounts!Untouched
    <2> HIDE DEF row
    <2>4. /\ row.amount \in Nat /\ row.balance \in Nat /\ Received(i) \in Nat
          /\ row.amount = row.balance + Received(i)
          /\ row.status = "none" => Received(i) = 0
      BY <2>2, <2>3
    <2> QED BY <1>2, <1>3, <2>1, <2>4
  <1>6. ASSUME NEW i \in Invoices, Accounts!Void(i) PROVE Books'
    <2> DEFINE row == [invoice[i] EXCEPT !.status = "void"]
    <2>1. /\ invoice' = [invoice EXCEPT ![i] = row]
          /\ [j \in Invoices |-> Received(j)'] = PaidFor
      BY <1>6 DEF Accounts!Void, PaidFor, Types
    <2>2. /\ row.amount = invoice[i].amount /\ row.balance = invoice[i].balance
          /\ row.status = "void"
      BY RowFields DEF Accounts!InvoiceRow
    <2> HIDE DEF row
    <2>3. /\ row.amount \in Nat /\ row.balance \in Nat /\ Received(i) \in Nat
          /\ row.amount = row.balance + Received(i) /\ row.status # "none"
      BY <2>2 DEF Books
    <2> QED BY <1>2, <1>3, <2>1, <2>3
  <1>7. ASSUME NEW i \in Invoices, NEW k \in {q \div Fraction : q \in Asked},
               Accounts!Record(i, k)
        PROVE  Books'
    <2> DEFINE b == invoice[i].balance
               got == Accounts!Least(k, b)
               status == IF b - got <= 0 THEN "paid" ELSE "partial"
               row == [invoice[i] EXCEPT !.balance = b - got, !.status = status]
    <2>1. b \in Nat /\ k \in Nat
      <3>1. PICK q \in Asked : k = q \div Fraction
        OBVIOUS
      <3>2. q \in Nat /\ Fraction \in Nat /\ Fraction > 0
        BY BillingAssumption
      <3> QED BY <3>1, <3>2 DEF Books
    <2>2. /\ invoice' = [invoice EXCEPT ![i] = row]
          /\ [j \in Invoices |-> Received(j)'] = [PaidFor EXCEPT ![i] = Received(i) + got]
      BY <1>7 DEF Accounts!Record, PaidFor, Types
    <2>3. /\ row.amount = invoice[i].amount /\ row.balance = b - got
          /\ row.status = status /\ status # "none"
      BY RowFields DEF Accounts!InvoiceRow
    <2>4. got \in Nat /\ got <= b
      <3> HIDE DEF b
      <3> QED BY <2>1 DEF Accounts!Least
    <2> HIDE DEF row, got, status
    <2>5. /\ row.amount \in Nat /\ row.balance \in Nat /\ Received(i) + got \in Nat
          /\ row.amount = row.balance + (Received(i) + got)
      BY <2>1, <2>3, <2>4 DEF Books
    <2> QED BY <1>2, <2>2, <2>3, <2>5
  <1> QED BY <1>1, <1>4, <1>5, <1>6, <1>7 DEF Accounts!Next

LEMMA BooksOpen == Init => Books
  <1> SUFFICES ASSUME Init, NEW i \in Invoices
               PROVE  /\ invoice[i].amount \in Nat /\ invoice[i].balance \in Nat
                      /\ Received(i) \in Nat
                      /\ invoice[i].amount = invoice[i].balance + Received(i)
                      /\ invoice[i].status = "none" => Received(i) = 0
    BY DEF Books
  <1>1. CASE invoice[i] = Accounts!NoInvoice
    BY <1>1, SeedReceived DEF SeededWithPayments, Accounts!NoInvoice
  <1>2. CASE invoice[i] # Accounts!NoInvoice
    <2>1. PICK a \in Amounts, p \in Amounts \cup {0} :
             a \in Nat /\ p \in Nat /\ a > 0 /\ p <= a /\ invoice[i] = Accounts!Seeded(a, p)
      BY <1>2, SeededRows
    <2> QED BY <2>1, SeedReceived DEF SeededWithPayments, Accounts!Seeded
  <1> QED BY <1>1, <1>2

\* PaymentsService.record does cap what an invoice receives at what it is for,
\* however many payments are in flight, when no two are for the same invoice
\* and they are of whole cents.  Without the first condition TLC finds an
\* overpaid invoice.
THEOREM ApartTheyNeverOverpay ==
    ASSUME Apart, WholeCents
    PROVE  Spec => []NeverOverpaid
  <1>1. Init => Books
    BY BooksOpen
  <1>2. BInv /\ Fresh /\ Books /\ [Next]_vars => Books'
    BY StepIsAtomic, LedgerKeepsBooks DEF BInv
  <1>3. Books => NeverOverpaid
    BY DEF Books, NeverOverpaid
  <1>4. Spec => []Fresh
    BY FreshHolds
  <1> QED BY <1>1, <1>2, <1>3, <1>4, BillingHolds, PTL DEF Spec
=============================================================================
