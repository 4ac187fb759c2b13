----------------------------- MODULE LedgerProofs -----------------------------
(***************************************************************************)
(* What Ledger keeps for any set of invoices and any amounts.  The guards  *)
(* of editing and voiding compare two columns, balance and amount; that    *)
(* these tell whether money was received is Conservation, so the three     *)
(* invariants are proved together.  The process behind the ledger, with    *)
(* its background writes and crashes, is then shown to leave it alone, the *)
(* reports computed from it to agree with it, and what follows an answer   *)
(* to be announced once and never dropped.                                 *)
(***************************************************************************)
EXTENDS Reminders, Totals

IInv ==
    /\ TypeOK
    /\ Conservation
    /\ StatusTellsBalance

\* One invoice's share of IInv, for a row and the money received against it.
Sound(row, sum) ==
    /\ row \in InvoiceRow
    /\ sum \in Nat
    /\ row.amount = row.balance + sum
    /\ row.status = "paid" => row.balance = 0 /\ sum > 0
    /\ row.status = "partial" => row.balance > 0 /\ sum > 0
    /\ row.status \in {"due", "void", "none"} => row.balance = row.amount /\ sum = 0

\* The invariant speaks of each invoice by itself.
LEMMA InvByRow ==
    IInv <=> /\ invoice = [i \in Invoices |-> invoice[i]]
             /\ paid = [i \in Invoices |-> paid[i]]
             /\ \A i \in Invoices : Sound(invoice[i], paid[i])
  BY DEF IInv, TypeOK, Conservation, StatusTellsBalance, Sound

\* The seeded invoices, absent, paid, partly paid and due, are sound.
LEMMA InitInv == Init => IInv
  <1> SUFFICES ASSUME Init PROVE IInv
    OBVIOUS
  <1>1. ASSUME NEW i \in Invoices PROVE Sound(invoice[i], paid[i])
    <2>1. CASE invoice[i] = NoInvoice /\ paid[i] = 0
      BY <2>1 DEF Sound, NoInvoice, InvoiceRow
    <2>2. CASE ~(invoice[i] = NoInvoice /\ paid[i] = 0)
      <3>1. PICK a \in Amounts : a > 0 /\ paid[i] <= a /\ invoice[i] = Seeded(a, paid[i])
        BY <2>2 DEF Init
      <3>2. a \in Nat /\ paid[i] \in Nat /\ a - paid[i] \in Nat
        BY <3>1, MoneyAssumption DEF Init
      <3> QED BY <3>1, <3>2 DEF Sound, Seeded, InvoiceRow, InvoiceStatus
    <2> QED BY <2>1, <2>2
  <1>2. invoice = [i \in Invoices |-> invoice[i]] /\ paid = [i \in Invoices |-> paid[i]]
    BY DEF Init
  <1> QED BY <1>1, <1>2, InvByRow
-----------------------------------------------------------------------------
\* A step that rewrites one sound row and the money received against it,
\* soundly, keeps the invariant.
LEMMA OneRowStep ==
    ASSUME IInv, NEW i \in Invoices, NEW row, NEW sum, Sound(row, sum),
           invoice' = [invoice EXCEPT ![i] = row],
           paid' = [paid EXCEPT ![i] = sum]
    PROVE  IInv'
  <1>1. /\ invoice' = [j \in Invoices |-> invoice'[j]]
        /\ paid' = [j \in Invoices |-> paid'[j]]
    BY InvByRow
  <1>2. \A j \in Invoices : Sound(invoice'[j], paid'[j])
    BY InvByRow
  <1> QED BY <1>1, <1>2 DEF IInv, TypeOK, Conservation, StatusTellsBalance, Sound

\* A new invoice owes all of its amount.
LEMMA IssueInv == ASSUME IInv, NEW i \in Invoices, NEW a \in Amounts, Issue(i, a) PROVE IInv'
  <1>1. Sound(invoice[i], paid[i]) /\ paid[i] = 0
    BY InvByRow DEF Issue, Sound
  <1>2. Sound(FreshInvoice(a), 0)
    BY MoneyAssumption DEF Sound, FreshInvoice, InvoiceRow, InvoiceStatus
  <1>3. paid' = [paid EXCEPT ![i] = 0]
    BY <1>1 DEF Issue, IInv, TypeOK
  <1> QED BY <1>2, <1>3, OneRowStep DEF Issue

\* A payment moves what it was capped to from the balance to the payments.
LEMMA RecordInv == ASSUME IInv, NEW i \in Invoices, NEW q \in Payments, Record(i, q) PROVE IInv'
  <1> DEFINE got == Least(q, invoice[i].balance)
             left == invoice[i].balance - got
             row == [invoice[i] EXCEPT !.balance = left,
                                       !.status = IF left <= 0 THEN "paid" ELSE "partial"]
  <1>1. Sound(invoice[i], paid[i]) /\ invoice[i].balance > 0
    BY InvByRow DEF Record
  <1>2. invoice[i] \in InvoiceRow /\ q \in Nat /\ q > 0
    BY <1>1, MoneyAssumption DEF Sound
  <1>3. got \in Nat /\ got > 0 /\ got <= invoice[i].balance
    BY <1>1, <1>2 DEF Least, InvoiceRow
  <1>4. left \in Nat
    BY <1>2, <1>3 DEF InvoiceRow
  <1>5. Sound(row, paid[i] + got)
    <2> HIDE DEF got
    <2>1. /\ row.amount = invoice[i].amount /\ row.balance = left
          /\ row.status = IF left <= 0 THEN "paid" ELSE "partial"
          /\ row \in InvoiceRow
      BY <1>2, <1>4 DEF InvoiceRow, InvoiceStatus
    <2> QED BY <1>1, <1>2, <1>3, <1>4, <2>1 DEF Sound, InvoiceRow
  <1>6. invoice' = [invoice EXCEPT ![i] = row] /\ paid' = [paid EXCEPT ![i] = paid[i] + got]
    BY DEF Record, IInv, TypeOK
  <1> HIDE DEF row, left, got
  <1> QED BY <1>5, <1>6, OneRowStep

\* An invoice whose balance is its amount has received nothing, so a new
\* amount forgets no money.
LEMMA EditInv == ASSUME IInv, NEW i \in Invoices, NEW a \in Amounts, Edit(i, a) PROVE IInv'
  <1> DEFINE row == [invoice[i] EXCEPT !.amount = a, !.balance = a]
  <1>1. /\ Sound(invoice[i], paid[i]) /\ invoice[i] \in InvoiceRow /\ a \in Nat
        /\ invoice[i].balance = invoice[i].amount
    BY InvByRow, MoneyAssumption DEF Edit, Untouched, Sound
  <1>2. paid[i] = 0 /\ invoice[i].status \notin {"paid", "partial"}
    BY <1>1 DEF Sound, InvoiceRow
  <1>3. Sound(row, paid[i])
    <2>1. /\ row.status = invoice[i].status /\ row.amount = a /\ row.balance = a
          /\ row \in InvoiceRow
      BY <1>1 DEF InvoiceRow
    <2> HIDE DEF row
    <2> QED BY <1>1, <1>2, <2>1 DEF Sound, InvoiceRow
  <1>4. invoice' = [invoice EXCEPT ![i] = row] /\ paid' = [paid EXCEPT ![i] = paid[i]]
    BY DEF Edit, IInv, TypeOK
  <1> HIDE DEF row
  <1> QED BY <1>3, <1>4, OneRowStep

\* Nor does voiding it.
LEMMA VoidInv == ASSUME IInv, NEW i \in Invoices, Void(i) PROVE IInv'
  <1> DEFINE row == [invoice[i] EXCEPT !.status = "void"]
  <1>1. /\ Sound(invoice[i], paid[i]) /\ invoice[i] \in InvoiceRow
        /\ invoice[i].balance = invoice[i].amount
    BY InvByRow DEF Void, Untouched, Sound
  <1>2. paid[i] = 0
    BY <1>1 DEF Sound, InvoiceRow
  <1>3. Sound(row, paid[i])
    BY <1>1, <1>2 DEF Sound, InvoiceRow, InvoiceStatus
  <1>4. invoice' = [invoice EXCEPT ![i] = row] /\ paid' = [paid EXCEPT ![i] = paid[i]]
    BY DEF Void, IInv, TypeOK
  <1> HIDE DEF row
  <1> QED BY <1>3, <1>4, OneRowStep

LEMMA NextInv == IInv /\ [Next]_vars => IInv'
  <1> SUFFICES ASSUME IInv, [Next]_vars PROVE IInv'
    OBVIOUS
  <1>1. ASSUME NEW i \in Invoices, NEW a \in Amounts, Issue(i, a) \/ Edit(i, a) PROVE IInv'
    BY <1>1, IssueInv, EditInv
  <1>2. ASSUME NEW i \in Invoices, NEW q \in Payments, Record(i, q) PROVE IInv'
    BY <1>2, RecordInv
  <1>3. ASSUME NEW i \in Invoices, Void(i) PROVE IInv'
    BY <1>3, VoidInv
  <1>4. CASE UNCHANGED vars
    BY <1>4 DEF vars, IInv, TypeOK, Conservation, StatusTellsBalance
  <1> QED BY <1>1, <1>2, <1>3, <1>4 DEF Next

LEMMA Invariant == Spec => []IInv
  BY InitInv, NextInv, PTL DEF Spec
-----------------------------------------------------------------------------
\* Every row has its type: no balance and no sum of payments goes below zero.
THEOREM TypeCorrect == Spec => []TypeOK
  <1>1. IInv => TypeOK
    BY DEF IInv
  <1> QED BY <1>1, Invariant, PTL

\* Whatever the amounts, no money appears or vanishes in PaymentsService.record
\* and InvoicesService.update.
THEOREM MoneyIsConserved == Spec => []Conservation
  <1>1. IInv => Conservation
    BY DEF IInv
  <1> QED BY <1>1, Invariant, PTL

\* And the status those write always says what is owed.
THEOREM StatusIsRight == Spec => []StatusTellsBalance
  <1>1. IInv => StatusTellsBalance
    BY DEF IInv
  <1> QED BY <1>1, Invariant, PTL

\* The comparison of balance and amount, by which InvoicesService refuses to
\* edit or void, protects every invoice that has received money.
THEOREM ReceivedMoneyStays == Spec => PaidIsPaid
  <1> DEFINE Kept ==
        \A i \in Invoices :
           /\ paid[i] > 0 => invoice'[i].amount = invoice[i].amount /\ invoice'[i].status # "void"
           /\ paid'[i] >= paid[i]
           /\ invoice[i].status \in {"paid", "void"} => invoice'[i] = invoice[i]
  <1>1. ASSUME IInv, Next PROVE Kept
    <2> SUFFICES ASSUME NEW j \in Invoices
                 PROVE  /\ paid[j] > 0 => /\ invoice'[j].amount = invoice[j].amount
                                          /\ invoice'[j].status # "void"
                        /\ paid'[j] >= paid[j]
                        /\ invoice[j].status \in {"paid", "void"} => invoice'[j] = invoice[j]
      OBVIOUS
    <2>1. \A i \in Invoices : Sound(invoice[i], paid[i])
      BY <1>1, InvByRow
    <2>2. invoice[j] \in InvoiceRow /\ paid[j] \in Nat
      BY <2>1 DEF Sound
    <2>3. paid[j] > 0 => invoice[j].status \in {"partial", "paid"}
      BY <2>1 DEF Sound, InvoiceRow, InvoiceStatus
    <2>5. ASSUME NEW i \in Invoices, NEW a \in Amounts, Issue(i, a)
          PROVE  /\ paid'[j] = paid[j]
                 /\ invoice'[j] = invoice[j] \/ invoice[j].status = "none"
      BY <1>1, <2>5 DEF Issue, IInv, TypeOK
    <2>6. ASSUME NEW i \in Invoices, NEW q \in Payments, Record(i, q)
          PROVE  \/ invoice'[j] = invoice[j] /\ paid'[j] = paid[j]
                 \/ /\ invoice[j].status \notin {"paid", "void"}
                    /\ invoice'[j].amount = invoice[j].amount
                    /\ invoice'[j].status \in {"paid", "partial"}
                    /\ paid'[j] >= paid[j]
      <3>1. CASE i # j
        BY <1>1, <2>6, <3>1 DEF Record, IInv, TypeOK
      <3>2. CASE i = j
        <4> DEFINE got == Least(q, invoice[j].balance)
        <4>1. got \in Nat
          BY <2>2, MoneyAssumption DEF Least, InvoiceRow
        <4>2. /\ invoice'[j].amount = invoice[j].amount
              /\ invoice'[j].status \in {"paid", "partial"}
              /\ paid'[j] = paid[j] + got
          BY <1>1, <2>6, <3>2 DEF Record, IInv, TypeOK, InvoiceRow
        <4>3. invoice[j].status \notin {"paid", "void"}
          BY <2>1, <2>6, <3>2 DEF Record, Sound
        <4> HIDE DEF got
        <4> QED BY <2>2, <4>1, <4>2, <4>3
      <3> QED BY <3>1, <3>2
    <2>7. ASSUME NEW i \in Invoices, (\E a \in Amounts : Edit(i, a)) \/ Void(i)
          PROVE  /\ paid'[j] = paid[j]
                 /\ invoice'[j] = invoice[j] \/ (paid[j] = 0 /\ invoice[j].status \notin {"paid", "void"})
      <3>1. CASE i # j
        BY <1>1, <2>7, <3>1 DEF Edit, Void, IInv, TypeOK
      <3>2. CASE i = j
        <4>1. /\ paid' = paid
              /\ invoice[j].balance = invoice[j].amount
              /\ invoice[j].status # "void"
          BY <2>7, <3>2 DEF Edit, Void, Untouched
        <4> QED BY <2>1, <2>2, <4>1 DEF Sound, InvoiceRow
      <3> QED BY <3>1, <3>2
    <2> QED BY <1>1, <2>1, <2>2, <2>3, <2>5, <2>6, <2>7 DEF Next
  <1>2. IInv /\ [Next]_vars => [Kept]_vars
    BY <1>1
  <1> QED BY <1>2, Invariant, PTL DEF Spec, PaidIsPaid
-----------------------------------------------------------------------------
(***************************************************************************)
(* The reports.                                                            *)
(***************************************************************************)
\* What is not issued owes nothing.
AbsentOwesNothing == \A i \in Invoices : invoice[i].status = "none" => invoice[i].balance = 0

LEMMA AbsentStarts == Init => AbsentOwesNothing
  <1> SUFFICES ASSUME Init, NEW i \in Invoices, invoice[i].status = "none"
               PROVE  invoice[i].balance = 0
    BY DEF AbsentOwesNothing
  <1>1. CASE invoice[i] = NoInvoice
    BY <1>1 DEF NoInvoice
  <1>2. CASE invoice[i] # NoInvoice
    <2>1. PICK a \in Amounts : invoice[i] = Seeded(a, paid[i])
      BY <1>2 DEF Init
    <2>2. invoice[i].status \in {"paid", "due", "partial"}
      BY <2>1 DEF Seeded
    <2> QED BY <2>2
  <1> QED BY <1>1, <1>2

LEMMA AbsentStays == IInv /\ AbsentOwesNothing /\ [Next]_vars => AbsentOwesNothing'
  <1> SUFFICES ASSUME IInv, AbsentOwesNothing, [Next]_vars PROVE AbsentOwesNothing'
    OBVIOUS
  <1>1. invoice \in [Invoices -> InvoiceRow]
    BY DEF IInv, TypeOK
  <1>2. ASSUME NEW i \in Invoices, NEW row, row.status # "none",
               invoice' = [invoice EXCEPT ![i] = row]
        PROVE  AbsentOwesNothing'
    BY <1>1, <1>2 DEF AbsentOwesNothing
  <1>3. ASSUME NEW i \in Invoices, NEW a \in Amounts, Issue(i, a) PROVE AbsentOwesNothing'
    BY <1>2, <1>3 DEF Issue, FreshInvoice
  <1>4. ASSUME NEW i \in Invoices, NEW a \in Amounts, Edit(i, a) PROVE AbsentOwesNothing'
    <2> DEFINE row == [invoice[i] EXCEPT !.amount = a, !.balance = a]
    <2>1. row.status # "none"
      BY <1>1, <1>4 DEF Edit, Untouched, InvoiceRow
    <2>2. invoice' = [invoice EXCEPT ![i] = row]
      BY <1>4 DEF Edit
    <2> QED BY <1>2, <2>1, <2>2
  <1>5. ASSUME NEW i \in Invoices, NEW q \in Payments, Record(i, q) PROVE AbsentOwesNothing'
    <2> DEFINE left == invoice[i].balance - Least(q, invoice[i].balance)
               row == [invoice[i] EXCEPT !.balance = left,
                                         !.status = IF left <= 0 THEN "paid" ELSE "partial"]
    <2>1. row.status # "none"
      BY <1>1 DEF InvoiceRow
    <2>2. invoice' = [invoice EXCEPT ![i] = row]
      BY <1>5 DEF Record
    <2> QED BY <1>2, <2>1, <2>2
  <1>6. ASSUME NEW i \in Invoices, Void(i) PROVE AbsentOwesNothing'
    <2> DEFINE row == [invoice[i] EXCEPT !.status = "void"]
    <2>1. row.status # "none"
      BY <1>1 DEF InvoiceRow
    <2>2. invoice' = [invoice EXCEPT ![i] = row]
      BY <1>6 DEF Void
    <2> QED BY <1>2, <2>1, <2>2
  <1>7. CASE UNCHANGED vars
    BY <1>7 DEF vars, AbsentOwesNothing
  <1> QED BY <1>3, <1>4, <1>5, <1>6, <1>7 DEF Next

\* A part is no more than 100 percent, rounding included.
LEMMA PercentIsPercent ==
    ASSUME NEW part \in Nat, NEW whole \in Nat, part <= whole
    PROVE  Percent(part, whole) \in 0..100
  <1>1. CASE whole = 0
    BY <1>1 DEF Percent
  <1>2. CASE whole # 0
    <2> DEFINE n == 200 * part + whole
               d == n \div (2 * whole)
    <2>1. n \in Nat /\ n <= 201 * whole /\ 2 * whole \in Nat /\ 2 * whole > 0
      BY <1>2
    <2>2. d \in Nat /\ (2 * whole) * d <= n
      BY <2>1
    <2>3. ASSUME d > 100 PROVE FALSE
      <3> HIDE DEF d
      <3>1. (2 * whole) * 101 <= (2 * whole) * d
        BY <2>1, <2>2, <2>3, TimesGrows
      <3> QED BY <1>2, <2>1, <2>2, <3>1
    <2>4. Percent(part, whole) = d
      BY <1>2 DEF Percent
    <2> HIDE DEF d
    <2> QED BY <2>2, <2>3, <2>4
  <1> QED BY <1>1, <1>2

\* Summed up over the invoices, Conservation is the agreement of the reports.
LEMMA ReportsAddUp ==
    ASSUME IInv, AbsentOwesNothing
    PROVE  ReportsAgree
  <1> DEFINE issued == {i \in Invoices : invoice[i].status # "none"}
             owing == {i \in Invoices : invoice[i].balance > 0}
             amounts == SumFunctionOnSet(AmountOf, issued)
             balances == SumFunctionOnSet(BalanceOf, issued)
             received == SumFunctionOnSet(paid, issued)
  <1>1. \A i \in Invoices : Sound(invoice[i], paid[i])
    BY InvByRow
  <1>2. \A i \in Invoices : /\ AmountOf[i] = invoice[i].amount /\ BalanceOf[i] = invoice[i].balance
                            /\ AmountOf[i] \in Nat /\ BalanceOf[i] \in Nat /\ paid[i] \in Nat
                            /\ AmountOf[i] \in Int /\ BalanceOf[i] \in Int /\ paid[i] \in Int
                            /\ AmountOf[i] = BalanceOf[i] + paid[i]
    <2> SUFFICES ASSUME NEW i \in Invoices
                 PROVE  /\ AmountOf[i] = invoice[i].amount /\ BalanceOf[i] = invoice[i].balance
                        /\ AmountOf[i] \in Nat /\ BalanceOf[i] \in Nat /\ paid[i] \in Nat
                        /\ AmountOf[i] \in Int /\ BalanceOf[i] \in Int /\ paid[i] \in Int
                        /\ AmountOf[i] = BalanceOf[i] + paid[i]
      OBVIOUS
    <2>1. AmountOf[i] = invoice[i].amount /\ BalanceOf[i] = invoice[i].balance
      BY DEF AmountOf, BalanceOf
    <2>2. /\ invoice[i].amount \in Nat /\ invoice[i].balance \in Nat /\ paid[i] \in Nat
          /\ invoice[i].amount = invoice[i].balance + paid[i]
      BY <1>1 DEF Sound, InvoiceRow
    <2> QED BY <2>1, <2>2
  <1>3. /\ IsFiniteSet(issued) /\ issued \subseteq Invoices
        /\ IsFiniteSet(owing) /\ owing \subseteq issued
        /\ \A i \in Invoices \ issued : paid[i] = 0
        /\ \A i \in issued \ owing : BalanceOf[i] = 0
    <2>1. IsFiniteSet(issued) /\ IsFiniteSet(owing)
      BY ReportsAssumption, FS_Subset
    <2>2. owing \subseteq issued
      BY DEF AbsentOwesNothing
    <2>3. \A i \in Invoices \ issued : paid[i] = 0
      BY <1>1 DEF Sound
    <2>4. ASSUME NEW i \in issued \ owing PROVE BalanceOf[i] = 0
      <3>1. i \in Invoices /\ ~(invoice[i].balance > 0)
        OBVIOUS
      <3> QED BY <1>2, <3>1
    <2> QED BY <2>1, <2>2, <2>3, <2>4
  <1> HIDE DEF issued, owing
  <1>4. amounts \in Nat /\ balances \in Nat /\ received \in Nat
    <2>1. \A i \in issued : AmountOf[i] \in Nat
      BY <1>2, <1>3
    <2>2. \A i \in issued : BalanceOf[i] \in Nat
      BY <1>2, <1>3
    <2>3. \A i \in issued : paid[i] \in Nat
      BY <1>2, <1>3
    <2>4. amounts \in Nat
      BY <1>3, <2>1, SumIsNat
    <2>5. balances \in Nat
      BY <1>3, <2>2, SumIsNat
    <2>6. received \in Nat
      BY <1>3, <2>3, SumIsNat
    <2> QED BY <2>4, <2>5, <2>6
  <1>5. amounts = balances + received
    <2>1. \A i \in issued : /\ BalanceOf[i] \in Int /\ paid[i] \in Int
                            /\ AmountOf[i] = BalanceOf[i] + paid[i]
      BY <1>2, <1>3
    <2> QED BY <1>3, <2>1, SumOfSums
  <1>6. received = Income
    <2>1. \A i \in Invoices : paid[i] \in Int
      BY <1>2
    <2> QED BY <1>3, <2>1, ReportsAssumption, SumNarrows DEF Income
  <1>7. balances = SumFunctionOnSet(BalanceOf, owing)
    <2>1. \A i \in issued : BalanceOf[i] \in Int
      BY <1>2, <1>3
    <2> QED BY <1>3, <2>1, SumNarrows
  <1>8. /\ RentCollection.collected = amounts - balances
        /\ RentCollection.outstanding = amounts - (amounts - balances)
        /\ RentCollection.rate = Percent(amounts - balances, amounts)
        /\ OutstandingBalances.total = SumFunctionOnSet(BalanceOf, owing)
    BY DEF RentCollection, OutstandingBalances, issued, owing
  <1> HIDE DEF amounts, balances, received
  <1>9. amounts - balances = received /\ received <= amounts
    BY <1>4, <1>5
  <1>10. RentCollection.rate \in 0..100
    BY <1>4, <1>8, <1>9, PercentIsPercent
  <1>11. RentCollection.outstanding = balances
    BY <1>4, <1>8
  <1> QED BY <1>6, <1>7, <1>8, <1>9, <1>10, <1>11 DEF ReportsAgree

\* The rent collection and the income report, computed from different tables,
\* name the same sum, and the two reports of what is outstanding do.
THEOREM ReportsAlwaysAgree == Spec => []ReportsAgree
  <1>1. Spec => []AbsentOwesNothing
    BY AbsentStarts, AbsentStays, Invariant, PTL DEF Spec
  <1> QED BY <1>1, ReportsAddUp, Invariant, PTL
-----------------------------------------------------------------------------
\* Whatever goes on behind the answers, drains and crashes included, only
\* requests touch the ledger, and the process serves them as Ledger says.
THEOREM SystemServesLedger == SystemSpec => Spec
  <1>1. SystemInit => Init
    BY DEF SystemInit
  <1>2. [SystemNext]_everything => [Next]_vars
    <2> SUFFICES ASSUME [SystemNext]_everything PROVE [Next]_vars
      OBVIOUS
    <2>1. CASE Serve
      BY <2>1 DEF Serve, ledger, vars
    <2>2. CASE TaskStep
      BY <2>2 DEF TaskStep, AllocateEntry, SaveEntry, InsertNotification, ledger, vars
    <2>3. CASE JobStep \/ JobFails
      BY <2>3 DEF JobStep, JobReads, JobFires, JobStamps, JobFails, ledger, vars
    <2>4. CASE (\E s \in Slots : WriteFails(s)) \/ \E i \in Invoices : FallDue(i)
      BY <2>4 DEF WriteFails, FallDue, ledger, vars
    <2>5. CASE Shutdown \/ Drained \/ Die \/ Restart
      BY <2>5 DEF Shutdown, Drained, Die, Restart, GoDown, ledger, vars
    <2>6. CASE UNCHANGED everything
      BY <2>6 DEF everything, ledger, vars
    <2> QED BY <2>1, <2>2, <2>3, <2>4, <2>5, <2>6 DEF SystemNext
  <1> QED BY <1>1, <1>2, PTL DEF SystemSpec, Spec

\* So the books stay right through shutdowns, crashes and restarts.
THEOREM BooksSurviveTrouble ==
    SystemSpec => [](Conservation /\ StatusTellsBalance) /\ PaidIsPaid
  BY SystemServesLedger, MoneyIsConserved, StatusIsRight, ReceivedMoneyStays, PTL
-----------------------------------------------------------------------------
(***************************************************************************)
(* Behind the answers.  What has been promised of an invoice's             *)
(* notifications is what is written plus what a task in flight has still   *)
(* to write, and it is kept by every step, whichever task takes it.  For   *)
(* the audit log the same is said of entries and tasks.                    *)
(***************************************************************************)
Tasks == AuditTask \cup NotifyTask \cup {Free}

AuditSlots == {s \in Slots : task[s].kind = "audit"}

Unnumbered == {s \in AuditSlots : task[s].code = 0}

\* What the job is about to announce, or to stamp, is overdue and not stamped.
RunIsFresh ==
    /\ job.todo \cup job.firing \subseteq overdue \ stamped
    /\ job.todo \cap job.firing = {}

\* Every entry on its way has a code of its own, or will be given one.
CodesAreOwn ==
    /\ \A s \in AuditSlots \ Unnumbered :
          /\ task[s].code \in (1..sequence) \ audit
          /\ \A t \in AuditSlots \ {s} : task[t].code # task[s].code
    /\ Cardinality(Unnumbered) + sequence <= history.served

Announced == stamped \cup job.firing

Announcements(i) == history.lapses[i] + IF i \in Announced THEN 1 ELSE 0

\* An announcement brings what the trigger has templates, and one that is to
\* be repeated has been counted as a lapse.
NoExcess == \A i \in Invoices : notified[i] + Coming(i) <= Templates * Announcements(i)

Calm == history.troubles = 0 /\ ~history.late

\* In calm times a drain waits for all that is in flight, and nothing is lost.
NoLoss ==
    Calm =>
       /\ process = "draining" => \A s \in InFlight : task[s].awaited
       /\ \A i \in Announced : notified[i] + Coming(i) >= Templates
       /\ Cardinality(audit) + Cardinality(AuditSlots) = history.served

RInv == RemindersTypeOK /\ RunIsFresh /\ CodesAreOwn /\ NoExcess /\ NoLoss

\* A task's share in the notifications of an invoice that are to come.
Share(t, i) == IF t.kind = "notify" /\ t.invoice = i THEN t.left ELSE 0

LEMMA Bounds == /\ Templates \in Nat /\ Templates > 0
                /\ MaxServed \in Nat /\ MaxIncidents \in Nat
                /\ IsFiniteSet(Slots) /\ Slots \subseteq Nat
  BY RemindersAssumption

LEMMA Kinds ==
    ASSUME NEW t \in Tasks
    PROVE  /\ t.kind = "audit" <=> t \in AuditTask
           /\ t.kind = "notify" <=> t \in NotifyTask
           /\ t = Free <=> t.kind = "free"
  BY DEF Tasks, AuditTask, NotifyTask, Free

LEMMA ShareIsNat == ASSUME NEW t \in Tasks, NEW i PROVE Share(t, i) \in Nat
  <1>1. CASE t \in NotifyTask
    BY <1>1, Bounds DEF Share, NotifyTask
  <1>2. CASE t \notin NotifyTask
    BY <1>2, Kinds DEF Share
  <1> QED BY <1>1, <1>2

LEMMA ComingIsNat ==
    ASSUME task \in [Slots -> Tasks], NEW i PROVE Coming(i) \in Nat
  <1> DEFINE f == Left(i)
  <1>1. \A s \in Slots : f[s] \in Nat
    <2>1. \A s \in Slots : f[s] = Share(task[s], i)
      BY DEF Left, Share
    <2> QED BY <2>1, ShareIsNat
  <1> HIDE DEF f
  <1>2. SumFunctionOnSet(f, Slots) \in Nat
    BY <1>1, Bounds, SumIsNat
  <1> QED BY <1>2 DEF Coming, f

\* What is to come changes by the share of the task that is changed.
LEMMA ComingMoves ==
    ASSUME task \in [Slots -> Tasks], NEW s \in Slots, NEW t \in Tasks,
           task' = [task EXCEPT ![s] = t], NEW i
    PROVE  Coming(i)' = Coming(i) + Share(t, i) - Share(task[s], i)
  <1> DEFINE f == Left(i)
             g == Left(i)'
  <1>1. \A r \in Slots : f[r] = Share(task[r], i) /\ g[r] = Share(task'[r], i)
    BY DEF Left, Share
  <1>2. \A r \in Slots : task[r] \in Tasks /\ task'[r] \in Tasks
    OBVIOUS
  <1>3. \A r \in Slots : f[r] \in Int /\ g[r] \in Int
    <2>1. \A r \in Slots : f[r] \in Nat /\ g[r] \in Nat
      BY <1>1, <1>2, ShareIsNat
    <2> QED BY <2>1
  <1>4. \A r \in Slots \ {s} : g[r] = f[r]
    <2>1. \A r \in Slots \ {s} : task'[r] = task[r]
      OBVIOUS
    <2> QED BY <1>1, <2>1
  <1>5. f[s] = Share(task[s], i) /\ g[s] = Share(t, i)
    BY <1>1
  <1> HIDE DEF f, g
  <1>6. SumFunctionOnSet(g, Slots) = SumFunctionOnSet(f, Slots) + g[s] - f[s]
    <2>1. IsFiniteSet(Slots)
      BY Bounds
    <2> QED BY <1>3, <1>4, <2>1, SumMoves
  <1> QED BY <1>5, <1>6 DEF Coming, f, g

\* And not at all if no share changes.
LEMMA ComingStays ==
    ASSUME task \in [Slots -> Tasks], NEW i,
           \A s \in Slots : task'[s] \in Tasks /\ Share(task'[s], i) = Share(task[s], i)
    PROVE  Coming(i)' = Coming(i)
  <1> DEFINE f == Left(i)
             g == Left(i)'
  <1>1. \A r \in Slots : f[r] = Share(task[r], i) /\ g[r] = Share(task'[r], i)
    BY DEF Left, Share
  <1>2. \A r \in Slots : f[r] \in Int /\ g[r] = f[r]
    <2>1. \A r \in Slots : f[r] \in Nat
      BY <1>1, ShareIsNat
    <2> QED BY <1>1, <2>1
  <1> HIDE DEF f, g
  <1>3. SumFunctionOnSet(g, Slots) = SumFunctionOnSet(f, Slots)
    BY <1>2, Bounds, SumsOfEquals
  <1> QED BY <1>3 DEF Coming, f, g

LEMMA NoneToCome ==
    ASSUME NEW i, \A s \in Slots : task[s] = Free
    PROVE  Coming(i) = 0
  <1> DEFINE f == Left(i)
  <1>1. \A s \in Slots : f[s] = 0
    BY DEF Left, Free
  <1> HIDE DEF f
  <1>2. SumFunctionOnSet(f, Slots) = 0
    BY <1>1, Bounds, SumOfZeros
  <1> QED BY <1>2 DEF Coming, f

\* Sets of slots are finite, and so is the audit log.
LEMMA CountsAreNumbers ==
    ASSUME RemindersTypeOK
    PROVE  /\ IsFiniteSet(AuditSlots) /\ IsFiniteSet(Unnumbered) /\ IsFiniteSet(audit)
           /\ Cardinality(AuditSlots) \in Nat /\ Cardinality(Unnumbered) \in Nat
           /\ Cardinality(audit) \in Nat
  <1>1. IsFiniteSet(AuditSlots)
    BY Bounds, FS_Subset DEF AuditSlots
  <1>2. IsFiniteSet(Unnumbered)
    BY <1>1, FS_Subset DEF Unnumbered
  <1>3. IsFiniteSet(audit)
    <2>1. sequence \in Int /\ audit \subseteq 1..sequence
      BY DEF RemindersTypeOK
    <2>2. IsFiniteSet(1..sequence)
      BY <2>1, FS_Interval
    <2> QED BY <2>1, <2>2, FS_Subset
  <1> QED BY <1>1, <1>2, <1>3, FS_CardinalityType
-----------------------------------------------------------------------------
LEMMA RemindersStart == SystemInit => RInv
  <1> SUFFICES ASSUME SystemInit PROVE RInv
    OBVIOUS
  <1>1. /\ process = "up" /\ job = NoRun /\ sequence = 0 /\ audit = {} /\ stamped = {}
        /\ task = [s \in Slots |-> Free] /\ notified = [i \in Invoices |-> 0]
        /\ history = [served |-> 0, late |-> FALSE, shutdowns |-> 0, troubles |-> 0,
                      lapses |-> [i \in Invoices |-> 0]]
        /\ overdue \subseteq Invoices
    BY DEF SystemInit
  <1>2. AuditSlots = {} /\ Unnumbered = {} /\ InFlight = {}
    BY <1>1 DEF AuditSlots, Unnumbered, InFlight, Free
  <1>3. Cardinality({}) = 0
    BY FS_EmptySet
  <1>4. RemindersTypeOK
    BY <1>1, Bounds DEF RemindersTypeOK, NoRun
  <1>5. RunIsFresh
    BY <1>1 DEF RunIsFresh, NoRun
  <1>6. CodesAreOwn
    BY <1>1, <1>2, <1>3 DEF CodesAreOwn
  <1>7. NoExcess
    <2> SUFFICES ASSUME NEW i \in Invoices
                 PROVE  notified[i] + Coming(i) <= Templates * Announcements(i)
      BY DEF NoExcess
    <2>1. Coming(i) = 0
      BY <1>1, NoneToCome
    <2>2. Announcements(i) = 0
      BY <1>1 DEF Announcements, Announced, NoRun
    <2> QED BY <1>1, <2>1, <2>2, Bounds
  <1>8. NoLoss
    BY <1>1, <1>2, <1>3 DEF NoLoss, Announced, NoRun
  <1> QED BY <1>4, <1>5, <1>6, <1>7, <1>8 DEF RInv

\* A slot that takes a new task was free.
LEMMA TrackTakesSlot ==
    ASSUME RemindersTypeOK, NEW t \in Tasks, Track(t)
    PROVE  \E s \in Slots : task[s] = Free /\ task' = [task EXCEPT ![s] = t]
  BY DEF Track, InFlight

LEMMA NewTasks ==
    /\ Auditing \in AuditTask /\ Auditing \in Tasks
    /\ \A i \in Invoices : Announcing(i) \in NotifyTask /\ Announcing(i) \in Tasks
  BY Bounds DEF Tasks, AuditTask, NotifyTask, Auditing, Announcing

\* What becomes of a task in its slot.
LEMMA TaskChanges ==
    ASSUME RInv, NEW s \in Slots
    PROVE  /\ AllocateEntry(s) => /\ task[s] \in AuditTask /\ s \in Unnumbered
                                  /\ task' = [task EXCEPT ![s] = [task[s] EXCEPT !.code = NextCode]]
                                  /\ [task[s] EXCEPT !.code = NextCode] \in AuditTask
                                  /\ NextCode \in 0..MaxServed
           /\ SaveEntry(s) => /\ task[s] \in AuditTask /\ s \in AuditSlots \ Unnumbered
                              /\ task' = [task EXCEPT ![s] = Free]
           /\ WriteFails(s) => task' = [task EXCEPT ![s] = Free]
  <1>1. /\ task[s] \in Tasks /\ task \in [Slots -> Tasks]
        /\ sequence \in 0..MaxServed /\ history.served \in 0..MaxServed
    BY DEF RInv, RemindersTypeOK, Tasks
  <1>2. ASSUME AllocateEntry(s)
        PROVE  /\ task[s] \in AuditTask /\ s \in Unnumbered
               /\ task' = [task EXCEPT ![s] = [task[s] EXCEPT !.code = NextCode]]
               /\ [task[s] EXCEPT !.code = NextCode] \in AuditTask
               /\ NextCode \in 0..MaxServed
    <2>1. task[s] \in AuditTask /\ s \in Unnumbered
      BY <1>1, <1>2, Kinds DEF AllocateEntry, Unnumbered, AuditSlots
    <2>2. NextCode \in 0..MaxServed
      <3>1. Cardinality(Unnumbered) \in Nat /\ Cardinality(Unnumbered) > 0
        BY <2>1, CountsAreNumbers, FS_EmptySet DEF RInv
      <3>2. Cardinality(Unnumbered) + sequence <= history.served
        BY DEF RInv, CodesAreOwn
      <3> QED BY <1>1, <3>1, <3>2, Bounds DEF NextCode
    <2>3. [task[s] EXCEPT !.code = NextCode] \in AuditTask
      BY <2>1, <2>2 DEF AuditTask
    <2> QED BY <1>2, <2>1, <2>2, <2>3 DEF AllocateEntry
  <1>3. ASSUME SaveEntry(s)
        PROVE  /\ task[s] \in AuditTask /\ s \in AuditSlots \ Unnumbered
               /\ task' = [task EXCEPT ![s] = Free]
    BY <1>1, <1>3, Kinds DEF SaveEntry, Unnumbered, AuditSlots
  <1>4. ASSUME WriteFails(s) PROVE task' = [task EXCEPT ![s] = Free]
    BY <1>4 DEF WriteFails
  <1> QED BY <1>2, <1>3, <1>4

LEMMA InsertionChanges ==
    ASSUME RInv, NEW s \in Slots, InsertNotification(s)
    PROVE  \E t \in Tasks :
              /\ task' = [task EXCEPT ![s] = t]
              /\ task[s] \in NotifyTask /\ t \in NotifyTask \cup {Free}
              /\ notified' = [notified EXCEPT ![task[s].invoice] = @ + 1]
              /\ \A i \in Invoices : Share(task[s], i) =
                    Share(t, i) + IF i = task[s].invoice THEN 1 ELSE 0
              /\ t # Free => t.awaited = task[s].awaited
  <1> DEFINE t == IF task[s].left = 1 THEN Free ELSE [task[s] EXCEPT !.left = task[s].left - 1]
  <1>1. /\ task[s] \in Tasks /\ task \in [Slots -> Tasks]
    BY DEF RInv, RemindersTypeOK, Tasks
  <1>2. /\ task[s] \in NotifyTask
        /\ notified' = [notified EXCEPT ![task[s].invoice] = @ + 1]
        /\ task' = [task EXCEPT ![s] = t]
    <2>1. task[s] \in NotifyTask
      BY <1>1, Kinds DEF InsertNotification
    <2>2. notified' = [notified EXCEPT ![task[s].invoice] = @ + 1]
      BY DEF InsertNotification
    <2>3. task' = [task EXCEPT ![s] = t]
      BY DEF InsertNotification
    <2> QED BY <2>1, <2>2, <2>3
  <1>3. CASE task[s].left = 1
    <2>1. t = Free
      BY <1>3
    <2>2. \A i \in Invoices : Share(task[s], i) = Share(Free, i) + IF i = task[s].invoice THEN 1 ELSE 0
      BY <1>2, <1>3 DEF Share, Free, NotifyTask
    <2> HIDE DEF t
    <2> QED BY <1>2, <2>1, <2>2 DEF Tasks
  <1>4. CASE task[s].left # 1
    <2>1. /\ t = [task[s] EXCEPT !.left = task[s].left - 1]
          /\ task[s].left - 1 \in 1..Templates
      BY <1>2, <1>4, Bounds DEF NotifyTask
    <2>2. /\ t \in NotifyTask /\ t.kind = "notify" /\ t.invoice = task[s].invoice
          /\ t.left = task[s].left - 1 /\ t.awaited = task[s].awaited /\ t \in Tasks
      BY <1>2, <2>1 DEF NotifyTask, Tasks
    <2>3. \A i \in Invoices : Share(task[s], i) = Share(t, i) + IF i = task[s].invoice THEN 1 ELSE 0
      <3> HIDE DEF t
      <3> QED BY <1>2, <2>1, <2>2 DEF Share, NotifyTask
    <2> HIDE DEF t
    <2> QED BY <1>2, <2>2, <2>3
  <1> QED BY <1>3, <1>4
-----------------------------------------------------------------------------
(***************************************************************************)
(* Each step keeps each part of the invariant.                             *)
(***************************************************************************)
LEMMA HistoryTyped ==
    ASSUME RemindersTypeOK
    PROVE  /\ Lapsed(history).lapses =
                 [i \in Invoices |-> history.lapses[i] + IF i \in job.firing THEN 1 ELSE 0]
           /\ Lapsed(history).lapses \in [Invoices -> Nat]
           /\ Lapsed(Troubled).lapses = Lapsed(history).lapses
           /\ \A f \in {"served", "late", "shutdowns", "troubles"} :
                 Lapsed(history)[f] = history[f]
           /\ \A f \in {"served", "late", "shutdowns", "lapses"} : Troubled[f] = history[f]
           /\ \A f \in {"served", "late", "shutdowns"} : Lapsed(Troubled)[f] = history[f]
           /\ Troubled.troubles = history.troubles + 1
           /\ Lapsed(Troubled).troubles = history.troubles + 1
  BY DEF RemindersTypeOK, Lapsed, Troubled

HistoryType == [served : 0..MaxServed, late : BOOLEAN, shutdowns : 0..MaxIncidents,
                troubles : 0..MaxIncidents, lapses : [Invoices -> Nat]]

LEMMA HistoryStaysTyped ==
    ASSUME RemindersTypeOK
    PROVE  /\ Lapsed(history) \in HistoryType
           /\ MayHappen => Troubled \in HistoryType /\ Lapsed(Troubled) \in HistoryType
           /\ MayHappen => [history EXCEPT !.shutdowns = @ + 1] \in HistoryType
  <1>1. history \in HistoryType
    BY DEF RemindersTypeOK, HistoryType
  <1>2. ASSUME MayHappen
        PROVE  history.shutdowns + 1 \in 0..MaxIncidents /\ history.troubles + 1 \in 0..MaxIncidents
    BY <1>1, <1>2, Bounds DEF MayHappen, HistoryType
  <1>3. \A h \in HistoryType : Lapsed(h) \in HistoryType
    <2> SUFFICES ASSUME NEW h \in HistoryType PROVE Lapsed(h) \in HistoryType
      OBVIOUS
    <2>1. [i \in Invoices |-> h.lapses[i] + IF i \in job.firing THEN 1 ELSE 0] \in [Invoices -> Nat]
      BY DEF HistoryType
    <2> QED BY <2>1 DEF HistoryType, Lapsed
  <1>4. MayHappen => Troubled \in HistoryType
    BY <1>1, <1>2 DEF HistoryType, Troubled
  <1>5. MayHappen => [history EXCEPT !.shutdowns = @ + 1] \in HistoryType
    BY <1>1, <1>2 DEF HistoryType
  <1> QED BY <1>1, <1>3, <1>4, <1>5

\* What a step does to the parts it does not name.
LEMMA TypesStay ==
    ASSUME RInv, [SystemNext]_everything
    PROVE  RemindersTypeOK'
  <1>0. /\ RemindersTypeOK /\ task \in [Slots -> Tasks] /\ history \in HistoryType
        /\ notified \in [Invoices -> Nat] /\ sequence \in 0..MaxServed /\ audit \subseteq 1..sequence
        /\ stamped \subseteq overdue /\ overdue \subseteq Invoices
        /\ process \in {"up", "draining", "down"}
        /\ job \in [todo : SUBSET Invoices, firing : {{}} \cup {{i} : i \in Invoices}]
        /\ process = "down" => job = NoRun /\ \A s \in Slots : task[s] = Free
    BY DEF RInv, RemindersTypeOK, Tasks, HistoryType
  <1>1. ASSUME Serve PROVE RemindersTypeOK'
    <2>1. /\ Running /\ Track(Auditing) /\ history.served < MaxServed
          /\ history' = [history EXCEPT !.served = @ + 1, !.late = @ \/ process = "draining"]
          /\ UNCHANGED <<process, overdue, stamped, job, notified, sequence, audit>>
      BY <1>1 DEF Serve, records
    <2>2. task' \in [Slots -> Tasks]
      <3>1. PICK s \in Slots : task' = [task EXCEPT ![s] = Auditing]
        BY <1>0, <2>1, NewTasks, TrackTakesSlot
      <3> QED BY <1>0, <3>1, NewTasks
    <2>3. history' \in HistoryType
      <3>1. (history.late \/ process = "draining") \in BOOLEAN /\ history.served + 1 \in 0..MaxServed
        BY <1>0, <2>1, Bounds DEF HistoryType
      <3> QED BY <1>0, <2>1, <3>1 DEF HistoryType
    <2> QED BY <1>0, <2>1, <2>2, <2>3 DEF RemindersTypeOK, Tasks, HistoryType, Running
  <1>2. ASSUME NEW s \in Slots, AllocateEntry(s) PROVE RemindersTypeOK'
    <2>1. /\ sequence' = NextCode /\ task[s] # Free
          /\ UNCHANGED <<process, overdue, stamped, job, notified, audit, history>>
      BY <1>2 DEF AllocateEntry, Free
    <2>2. NextCode \in 0..MaxServed /\ task' \in [Slots -> Tasks]
      <3>1. NextCode \in 0..MaxServed
        BY <1>2, TaskChanges
      <3>2. PICK t \in AuditTask : task' = [task EXCEPT ![s] = t]
        BY <1>2, TaskChanges
      <3> QED BY <1>0, <3>1, <3>2 DEF Tasks
    <2>3. audit' \subseteq 1..sequence'
      BY <1>0, <2>1 DEF NextCode
    <2> QED BY <1>0, <2>1, <2>2, <2>3 DEF RemindersTypeOK, Tasks
  <1>3. ASSUME NEW s \in Slots, SaveEntry(s) PROVE RemindersTypeOK'
    <2>1. /\ audit' = audit \cup {task[s].code} /\ task[s] # Free
          /\ UNCHANGED <<process, overdue, stamped, job, notified, sequence, history>>
      BY <1>3 DEF SaveEntry, Free
    <2>2. task' \in [Slots -> Tasks] /\ s \in AuditSlots \ Unnumbered
      BY <1>0, <1>3, TaskChanges DEF Tasks
    <2>3. audit' \subseteq 1..sequence'
      BY <1>0, <2>1, <2>2 DEF RInv, CodesAreOwn
    <2> QED BY <1>0, <2>1, <2>2, <2>3 DEF RemindersTypeOK, Tasks
  <1>4. ASSUME JobReads PROVE RemindersTypeOK'
    <2>1. /\ process = "up" /\ job' = [job EXCEPT !.todo = Candidates]
          /\ UNCHANGED <<process, overdue, stamped, task, notified, sequence, audit, history>>
      BY <1>4 DEF JobReads, records
    <2>2. job' \in [todo : SUBSET Invoices, firing : {{}} \cup {{i} : i \in Invoices}]
      BY <1>0, <2>1 DEF Candidates
    <2> QED BY <1>0, <2>1, <2>2 DEF RemindersTypeOK
  <1>5. ASSUME NEW i \in Invoices, JobFires(i) PROVE RemindersTypeOK'
    <2>1. /\ Running /\ Track(Announcing(i))
          /\ job' = [todo |-> job.todo \ {i}, firing |-> {i}]
          /\ history' = [history EXCEPT !.late = @ \/ process = "draining"]
          /\ UNCHANGED <<process, overdue, stamped, notified, sequence, audit>>
      BY <1>5 DEF JobFires, records
    <2>2. task' \in [Slots -> Tasks]
      <3>1. PICK s \in Slots : task' = [task EXCEPT ![s] = Announcing(i)]
        BY <1>0, <2>1, NewTasks, TrackTakesSlot
      <3> QED BY <1>0, <3>1, NewTasks
    <2>3. history' \in HistoryType
      BY <1>0, <2>1 DEF HistoryType
    <2>4. job' \in [todo : SUBSET Invoices, firing : {{}} \cup {{j} : j \in Invoices}]
      BY <1>0, <2>1
    <2> QED BY <1>0, <2>1, <2>2, <2>3, <2>4 DEF RemindersTypeOK, Tasks, HistoryType, Running
  <1>6. ASSUME JobStamps PROVE RemindersTypeOK'
    <2>1. /\ job.firing # {} /\ stamped' = stamped \cup job.firing
          /\ job' = [job EXCEPT !.firing = {}]
          /\ UNCHANGED <<process, overdue, task, notified, sequence, audit, history>>
      BY <1>6 DEF JobStamps, records
    <2>2. /\ stamped' \subseteq overdue /\ process # "down"
          /\ job' \in [todo : SUBSET Invoices, firing : {{}} \cup {{i} : i \in Invoices}]
      BY <1>0, <2>1 DEF RInv, RunIsFresh, NoRun
    <2> QED BY <1>0, <2>1, <2>2 DEF RemindersTypeOK
  <1>7. ASSUME JobFails PROVE RemindersTypeOK'
    <2>1. /\ MayHappen /\ history' = Lapsed(Troubled) /\ job' = NoRun
          /\ UNCHANGED <<process, overdue, stamped, task, notified, sequence, audit>>
      BY <1>7 DEF JobFails, records
    <2>2. history' \in HistoryType
      BY <1>0, <2>1, HistoryStaysTyped
    <2> QED BY <1>0, <2>1, <2>2 DEF RemindersTypeOK, HistoryType, NoRun
  <1>8. ASSUME NEW s \in Slots, InsertNotification(s) PROVE RemindersTypeOK'
    <2>1. /\ task[s] # Free
          /\ UNCHANGED <<process, overdue, stamped, job, sequence, audit, history>>
      BY <1>8 DEF InsertNotification, Free
    <2>2. task' \in [Slots -> Tasks] /\ notified' \in [Invoices -> Nat]
      <3>1. PICK t \in Tasks :
               /\ task' = [task EXCEPT ![s] = t]
               /\ task[s] \in NotifyTask
               /\ notified' = [notified EXCEPT ![task[s].invoice] = @ + 1]
        BY <1>8, InsertionChanges
      <3> DEFINE i == task[s].invoice
      <3>4. i \in Invoices
        BY <3>1 DEF NotifyTask
      <3> HIDE DEF i
      <3>2. task' \in [Slots -> Tasks]
        BY <1>0, <3>1
      <3>3. notified' \in [Invoices -> Nat]
        <4>1. notified' = [notified EXCEPT ![i] = notified[i] + 1]
          BY <3>1 DEF i
        <4> QED BY <1>0, <3>4, <4>1
      <3> QED BY <3>2, <3>3
    <2> QED BY <1>0, <2>1, <2>2 DEF RemindersTypeOK, Tasks
  <1>9. ASSUME NEW s \in Slots, WriteFails(s) PROVE RemindersTypeOK'
    <2>1. /\ MayHappen /\ history' = Troubled /\ task' = [task EXCEPT ![s] = Free]
          /\ UNCHANGED <<process, overdue, stamped, job, notified, sequence, audit>>
      BY <1>9 DEF WriteFails, records
    <2>2. history' \in HistoryType /\ task' \in [Slots -> Tasks]
      BY <1>0, <2>1, HistoryStaysTyped DEF Tasks
    <2> QED BY <1>0, <2>1, <2>2 DEF RemindersTypeOK, Tasks, HistoryType
  <1>10. ASSUME NEW i \in Invoices, FallDue(i) PROVE RemindersTypeOK'
    <2>1. /\ overdue' = overdue \cup {i}
          /\ UNCHANGED <<process, stamped, job, task, notified, sequence, audit, history>>
      BY <1>10 DEF FallDue, records
    <2> QED BY <1>0, <2>1 DEF RemindersTypeOK
  <1>11. ASSUME Shutdown PROVE RemindersTypeOK'
    <2>1. /\ MayHappen /\ history' = [history EXCEPT !.shutdowns = @ + 1] /\ process' = "draining"
          /\ task' = [s \in Slots |-> IF task[s] = Free THEN Free
                                      ELSE [task[s] EXCEPT !.awaited = TRUE]]
          /\ UNCHANGED <<overdue, stamped, job, notified, sequence, audit>>
      BY <1>11 DEF Shutdown, records
    <2>2. history' \in HistoryType
      BY <1>0, <2>1, HistoryStaysTyped
    <2>3. \A t \in Tasks : t # Free => [t EXCEPT !.awaited = TRUE] \in Tasks
      BY DEF Tasks, AuditTask, NotifyTask
    <2>4. task' \in [Slots -> Tasks]
      BY <1>0, <2>1, <2>3 DEF Tasks
    <2> QED BY <1>0, <2>1, <2>2, <2>4 DEF RemindersTypeOK, Tasks, HistoryType
  <1>12. ASSUME Drained \/ Die PROVE RemindersTypeOK'
    <2>1. /\ process' = "down" /\ job' = NoRun /\ task' = [s \in Slots |-> Free]
          /\ UNCHANGED <<overdue, stamped, notified, sequence, audit>>
      BY <1>12 DEF Drained, Die, GoDown, records
    <2>2. history' \in HistoryType
      BY <1>0, <1>12, HistoryStaysTyped DEF Drained, Die
    <2> QED BY <1>0, <2>1, <2>2 DEF RemindersTypeOK, HistoryType, NoRun
  <1>13. ASSUME Restart \/ UNCHANGED everything PROVE RemindersTypeOK'
    <2>1. /\ process' \in {process, "up"}
          /\ UNCHANGED <<overdue, stamped, job, task, notified, sequence, audit, history>>
      BY <1>13 DEF Restart, everything, records
    <2> QED BY <1>0, <2>1 DEF RemindersTypeOK
  <1> QED BY <1>1, <1>2, <1>3, <1>4, <1>5, <1>6, <1>7, <1>8, <1>9, <1>10, <1>11, <1>12, <1>13
          DEF SystemNext, TaskStep, JobStep

\* The steps that leave the tasks and the log alone.
Elsewhere ==
    \/ JobReads \/ JobStamps \/ JobFails \/ Restart \/ UNCHANGED everything
    \/ \E i \in Invoices : FallDue(i)

LEMMA ElsewhereLeaves ==
    ASSUME Elsewhere
    PROVE  /\ UNCHANGED <<task, notified, sequence, audit>>
           /\ history' \in {history, Lapsed(Troubled)}
           /\ process' = process \/ (process = "down" /\ process' = "up")
  BY DEF Elsewhere, JobReads, JobStamps, JobFails, Restart, FallDue, everything, records

LEMMA StepIsOne ==
    ASSUME [SystemNext]_everything
    PROVE  \/ Serve
           \/ \E s \in Slots : AllocateEntry(s) \/ SaveEntry(s) \/ InsertNotification(s) \/ WriteFails(s)
           \/ \E i \in Invoices : JobFires(i)
           \/ Shutdown \/ Drained \/ Die \/ Elsewhere
  BY DEF SystemNext, TaskStep, JobStep, Elsewhere

\* The job reads what is not stamped, and nothing else stamps.
LEMMA FreshStays == ASSUME RInv, [SystemNext]_everything PROVE RunIsFresh'
  <1>0. /\ RunIsFresh /\ overdue \subseteq Invoices
        /\ job \in [todo : SUBSET Invoices, firing : {{}} \cup {{i} : i \in Invoices}]
    BY DEF RInv, RemindersTypeOK
  <1>1. ASSUME UNCHANGED <<job, stamped>>, overdue \subseteq overdue' PROVE RunIsFresh'
    BY <1>0, <1>1 DEF RunIsFresh
  <1>2. ASSUME UNCHANGED <<overdue, stamped>>, job' = NoRun PROVE RunIsFresh'
    BY <1>2 DEF RunIsFresh, NoRun
  <1>3. CASE Serve \/ Shutdown \/ Restart \/ UNCHANGED everything \/ \E i \in Invoices : FallDue(i)
    BY <1>1, <1>3 DEF Serve, Shutdown, Restart, FallDue, everything
  <1>4. ASSUME NEW s \in Slots,
               AllocateEntry(s) \/ SaveEntry(s) \/ InsertNotification(s) \/ WriteFails(s)
        PROVE  RunIsFresh'
    BY <1>1, <1>4 DEF AllocateEntry, SaveEntry, InsertNotification, WriteFails
  <1>5. CASE Drained \/ Die \/ JobFails
    BY <1>2, <1>5 DEF Drained, Die, GoDown, JobFails
  <1>6. CASE JobReads
    <2>1. /\ job = NoRun /\ job' = [job EXCEPT !.todo = Candidates]
          /\ UNCHANGED <<overdue, stamped>>
      BY <1>6 DEF JobReads
    <2>2. job'.todo = Candidates /\ job'.firing = {}
      BY <2>1 DEF NoRun
    <2> QED BY <2>1, <2>2 DEF RunIsFresh, Candidates
  <1>7. ASSUME NEW i \in Invoices, JobFires(i) PROVE RunIsFresh'
    BY <1>0, <1>7 DEF JobFires, RunIsFresh
  <1>8. CASE JobStamps
    <2>1. /\ stamped' = stamped \cup job.firing /\ UNCHANGED overdue
          /\ job' = [job EXCEPT !.firing = {}]
      BY <1>8 DEF JobStamps
    <2>2. job'.todo = job.todo /\ job'.firing = {}
      BY <1>0, <2>1
    <2> QED BY <1>0, <2>1, <2>2 DEF RunIsFresh
  <1> QED BY <1>3, <1>4, <1>5, <1>6, <1>7, <1>8, StepIsOne DEF Elsewhere

\* No new entries, and none that changes its code, no harm.
LEMMA FewerEntries ==
    ASSUME RInv, UNCHANGED <<sequence, audit>>, history'.served = history.served,
           \A s \in AuditSlots' : s \in AuditSlots /\ task'[s].code = task[s].code
    PROVE  CodesAreOwn'
  <1>1. Unnumbered' \subseteq Unnumbered
    BY DEF Unnumbered
  <1>2. Cardinality(Unnumbered') <= Cardinality(Unnumbered) /\ Cardinality(Unnumbered') \in Nat
    <2>1. IsFiniteSet(Unnumbered)
      BY CountsAreNumbers DEF RInv
    <2> QED BY <1>1, <2>1, FS_Subset, FS_CardinalityType
  <1>3. /\ sequence \in Int /\ history.served \in Int /\ Cardinality(Unnumbered) \in Int
        /\ Cardinality(Unnumbered) + sequence <= history.served
    BY CountsAreNumbers DEF RInv, RemindersTypeOK, CodesAreOwn
  <1>4. Cardinality(Unnumbered') + sequence' <= history'.served
    BY <1>2, <1>3
  <1>5. ASSUME NEW s \in AuditSlots' \ Unnumbered'
        PROVE  /\ task'[s].code \in (1..sequence') \ audit'
               /\ \A t \in AuditSlots' \ {s} : task'[t].code # task'[s].code
    <2>1. s \in AuditSlots \ Unnumbered
      BY DEF Unnumbered
    <2> QED BY <2>1 DEF RInv, CodesAreOwn
  <1> QED BY <1>4, <1>5 DEF CodesAreOwn

\* nextval gives a code that no entry has or had, so no insert is refused.
LEMMA CodesStayOwn == ASSUME RInv, [SystemNext]_everything PROVE CodesAreOwn'
  <1>0. /\ RemindersTypeOK /\ CodesAreOwn /\ task \in [Slots -> Tasks]
        /\ sequence \in Nat /\ history.served \in Nat
        /\ IsFiniteSet(Unnumbered) /\ Cardinality(Unnumbered) \in Nat
    BY CountsAreNumbers DEF RInv, RemindersTypeOK, Tasks
  <1>1. CASE Serve
    <2>1. /\ history'.served = history.served + 1 /\ UNCHANGED <<sequence, audit>>
      BY <1>0, <1>1 DEF Serve, records, RemindersTypeOK
    <2>2. PICK s \in Slots : task[s] = Free /\ task' = [task EXCEPT ![s] = Auditing]
      BY <1>0, <1>1, NewTasks, TrackTakesSlot DEF Serve
    <2>3. /\ AuditSlots' = AuditSlots \cup {s} /\ Unnumbered' = Unnumbered \cup {s}
          /\ s \notin AuditSlots /\ s \notin Unnumbered
          /\ \A r \in Slots \ {s} : task'[r] = task[r]
      BY <1>0, <2>2 DEF AuditSlots, Unnumbered, Auditing, Free
    <2>4. Cardinality(Unnumbered') = Cardinality(Unnumbered) + 1
      BY <1>0, <2>3, FS_AddElement
    <2>5. Cardinality(Unnumbered') + sequence' <= history'.served
      BY <1>0, <2>1, <2>4 DEF CodesAreOwn
    <2>6. ASSUME NEW r \in AuditSlots' \ Unnumbered'
          PROVE  /\ task'[r].code \in (1..sequence') \ audit'
                 /\ \A t \in AuditSlots' \ {r} : task'[t].code # task'[r].code
      <3>1. r \in AuditSlots \ Unnumbered /\ r # s /\ task'[r] = task[r]
        BY <2>3 DEF AuditSlots
      <3>2. task[r].code \in (1..sequence) \ audit /\ task[r].code # 0
        BY <1>0, <3>1 DEF CodesAreOwn
      <3>3. task'[s].code = 0
        BY <1>0, <2>2 DEF Auditing
      <3>4. ASSUME NEW t \in AuditSlots' \ {r} PROVE task'[t].code # task'[r].code
        <4>1. CASE t = s
          BY <3>1, <3>2, <3>3, <4>1
        <4>2. CASE t # s
          <5>1. t \in AuditSlots \ {r} /\ task'[t] = task[t]
            BY <2>3, <4>2 DEF AuditSlots
          <5> QED BY <1>0, <3>1, <5>1 DEF CodesAreOwn
        <4> QED BY <4>1, <4>2
      <3> QED BY <2>1, <3>1, <3>2, <3>4
    <2> QED BY <2>5, <2>6 DEF CodesAreOwn
  <1>2. ASSUME NEW s \in Slots, AllocateEntry(s) PROVE CodesAreOwn'
    <2> DEFINE t == [task[s] EXCEPT !.code = NextCode]
    <2>1. /\ task[s] \in AuditTask /\ s \in Unnumbered /\ task' = [task EXCEPT ![s] = t]
          /\ t \in AuditTask
      BY <1>2, TaskChanges
    <2>2. t.code = sequence + 1 /\ t.kind = "audit"
      BY <2>1 DEF AuditTask, NextCode
    <2>3. sequence' = sequence + 1 /\ UNCHANGED <<audit, history>>
      BY <1>2 DEF AllocateEntry, NextCode
    <2> HIDE DEF t
    <2>4. /\ AuditSlots' = AuditSlots /\ Unnumbered' = Unnumbered \ {s}
          /\ task'[s] = t /\ \A r \in Slots \ {s} : task'[r] = task[r]
      BY <1>0, <2>1, <2>2 DEF AuditSlots, Unnumbered, AuditTask
    <2>5. Cardinality(Unnumbered') = Cardinality(Unnumbered) - 1
      BY <1>0, <2>1, <2>4, FS_RemoveElement
    <2>6. Cardinality(Unnumbered') + sequence' <= history'.served
      BY <1>0, <2>3, <2>5 DEF CodesAreOwn
    <2>7. ASSUME NEW r \in AuditSlots, r \notin Unnumbered' PROVE
             /\ task'[r].code \in (1..sequence') \ audit'
             /\ \A q \in AuditSlots \ {r} : task'[q].code # task'[r].code
      <3>1. \A q \in AuditSlots \ {s} : task'[q].code = task[q].code /\ task[q].code \in 0..sequence
        <4> SUFFICES ASSUME NEW q \in AuditSlots \ {s}
                     PROVE  task'[q].code = task[q].code /\ task[q].code \in 0..sequence
          OBVIOUS
        <4>1. task'[q].code = task[q].code
          BY <2>4 DEF AuditSlots
        <4>2. task[q].code = 0 \/ task[q].code \in 1..sequence
          BY <1>0 DEF CodesAreOwn, Unnumbered
        <4> QED BY <1>0, <4>1, <4>2
      <3>2. audit \subseteq 1..sequence
        BY <1>0 DEF RemindersTypeOK
      <3>3. CASE r = s
        BY <1>0, <2>2, <2>3, <2>4, <3>1, <3>2, <3>3
      <3>4. CASE r # s
        <4>1. r \in AuditSlots \ Unnumbered
          BY <2>4, <2>7, <3>4
        <4>2. task[r].code \in (1..sequence) \ audit
          BY <1>0, <4>1 DEF CodesAreOwn
        <4>3. ASSUME NEW q \in AuditSlots \ {r} PROVE task'[q].code # task'[r].code
          <5>1. CASE q = s
            BY <1>0, <2>2, <2>4, <3>1, <3>4, <4>2, <5>1
          <5>2. CASE q # s
            BY <1>0, <3>1, <3>4, <4>1, <5>2 DEF CodesAreOwn
          <5> QED BY <5>1, <5>2
        <4> QED BY <1>0, <2>3, <3>1, <3>4, <4>2, <4>3
      <3> QED BY <3>3, <3>4
    <2> QED BY <2>4, <2>6, <2>7 DEF CodesAreOwn
  <1>3. ASSUME NEW s \in Slots, SaveEntry(s) PROVE CodesAreOwn'
    <2>1. s \in AuditSlots \ Unnumbered /\ task' = [task EXCEPT ![s] = Free]
      BY <1>3, TaskChanges
    <2>2. audit' = audit \cup {task[s].code} /\ UNCHANGED <<sequence, history>>
      BY <1>3 DEF SaveEntry
    <2>3. /\ AuditSlots' = AuditSlots \ {s} /\ Unnumbered' = Unnumbered
          /\ \A r \in Slots \ {s} : task'[r] = task[r]
      BY <1>0, <2>1 DEF AuditSlots, Unnumbered, Free
    <2>4. ASSUME NEW r \in AuditSlots' \ Unnumbered'
          PROVE  /\ task'[r].code \in (1..sequence') \ audit'
                 /\ \A t \in AuditSlots' \ {r} : task'[t].code # task'[r].code
      <3>1. r \in AuditSlots \ Unnumbered /\ r # s /\ task'[r] = task[r]
        BY <2>3 DEF AuditSlots
      <3>2. task[r].code \in (1..sequence) \ audit /\ task[r].code # task[s].code
        BY <1>0, <2>1, <3>1 DEF CodesAreOwn
      <3>3. \A t \in AuditSlots' \ {r} : t \in AuditSlots \ {r} /\ task'[t] = task[t]
        BY <2>3 DEF AuditSlots
      <3> QED BY <1>0, <2>2, <3>1, <3>2, <3>3 DEF CodesAreOwn
    <2> QED BY <1>0, <2>2, <2>3, <2>4 DEF CodesAreOwn
  <1>4. ASSUME NEW i \in Invoices, JobFires(i) PROVE CodesAreOwn'
    <2>1. history'.served = history.served /\ UNCHANGED <<sequence, audit>>
      BY <1>0, <1>4 DEF JobFires, records, RemindersTypeOK
    <2>2. PICK s \in Slots : task[s] = Free /\ task' = [task EXCEPT ![s] = Announcing(i)]
      BY <1>0, <1>4, NewTasks, TrackTakesSlot DEF JobFires
    <2>3. \A r \in AuditSlots' : r \in AuditSlots /\ task'[r].code = task[r].code
      BY <1>0, <2>2 DEF AuditSlots, Announcing
    <2> QED BY <2>1, <2>3, FewerEntries
  <1>5. ASSUME NEW s \in Slots, InsertNotification(s) PROVE CodesAreOwn'
    <2>1. PICK t \in NotifyTask \cup {Free} : task' = [task EXCEPT ![s] = t]
      BY <1>5, InsertionChanges
    <2>2. t.kind # "audit"
      BY DEF NotifyTask, Free
    <2>3. \A r \in AuditSlots' : r \in AuditSlots /\ task'[r].code = task[r].code
      BY <1>0, <2>1, <2>2 DEF AuditSlots
    <2>4. UNCHANGED <<sequence, audit, history>>
      BY <1>5 DEF InsertNotification
    <2> QED BY <2>3, <2>4, FewerEntries
  <1>6. ASSUME NEW s \in Slots, WriteFails(s) PROVE CodesAreOwn'
    <2>1. task' = [task EXCEPT ![s] = Free]
      BY <1>6, TaskChanges
    <2>2. \A r \in AuditSlots' : r \in AuditSlots /\ task'[r].code = task[r].code
      BY <1>0, <2>1 DEF AuditSlots, Free
    <2>3. history'.served = history.served /\ UNCHANGED <<sequence, audit>>
      BY <1>0, <1>6, HistoryTyped DEF WriteFails, records
    <2> QED BY <2>2, <2>3, FewerEntries
  <1>7. CASE Shutdown
    <2>1. /\ task' = [s \in Slots |-> IF task[s] = Free THEN Free
                                      ELSE [task[s] EXCEPT !.awaited = TRUE]]
          /\ UNCHANGED <<sequence, audit>>
          /\ history' = [history EXCEPT !.shutdowns = @ + 1]
      BY <1>7 DEF Shutdown, records
    <2>2. history'.served = history.served
      BY <1>0, <2>1 DEF RemindersTypeOK
    <2>3. ASSUME NEW r \in AuditSlots' PROVE r \in AuditSlots /\ task'[r].code = task[r].code
      <3>1. r \in Slots /\ task[r] \in Tasks /\ task'[r].kind = "audit"
        BY <1>0 DEF AuditSlots
      <3>2. task'[r] = [task[r] EXCEPT !.awaited = TRUE]
        BY <2>1, <3>1 DEF Free
      <3> QED BY <3>1, <3>2 DEF AuditSlots, Tasks, AuditTask, NotifyTask, Free
    <2> QED BY <2>1, <2>2, <2>3, FewerEntries
  <1>8. CASE Drained \/ Die
    <2>1. task' = [s \in Slots |-> Free] /\ UNCHANGED <<sequence, audit>>
      BY <1>8 DEF Drained, Die, GoDown, records
    <2>2. history'.served = history.served
      BY <1>0, <1>8, HistoryTyped DEF Drained, Die
    <2>3. AuditSlots' = {}
      BY <2>1 DEF AuditSlots, Free
    <2> QED BY <2>1, <2>2, <2>3, FewerEntries
  <1>9. CASE Elsewhere
    <2>1. UNCHANGED <<task, sequence, audit>>
      BY <1>9, ElsewhereLeaves
    <2>2. history'.served = history.served
      BY <1>0, <1>9, ElsewhereLeaves, HistoryTyped
    <2>3. \A r \in AuditSlots' : r \in AuditSlots /\ task'[r].code = task[r].code
      BY <2>1 DEF AuditSlots
    <2> QED BY <2>1, <2>2, <2>3, FewerEntries
  <1> QED BY <1>1, <1>2, <1>3, <1>4, <1>5, <1>6, <1>7, <1>8, <1>9, StepIsOne

\* Written or on the way.
Promised(i) == notified[i] + Coming(i)

LEMMA PromisesAreNat == ASSUME NEW i \in Invoices PROVE RemindersTypeOK => Promised(i) \in Nat
  <1> SUFFICES ASSUME RemindersTypeOK PROVE Promised(i) \in Nat
    OBVIOUS
  <1>1. notified[i] \in Nat /\ task \in [Slots -> Tasks]
    BY DEF RemindersTypeOK, Tasks
  <1>2. Coming(i) \in Nat
    BY <1>1, ComingIsNat
  <1> QED BY <1>1, <1>2 DEF Promised

\* Promises are made by the job, broken by a failed write or the end of the
\* process, and otherwise kept.
LEMMA PromisesAreKept ==
    ASSUME RInv, [SystemNext]_everything, NEW i \in Invoices
    PROVE  IF JobFires(i) THEN Promised(i)' = Promised(i) + Templates
           ELSE \/ Promised(i)' = Promised(i)
                \/ /\ Drained \/ Die \/ \E s \in Slots : WriteFails(s)
                   /\ Promised(i)' <= Promised(i)
  <1>0. /\ RemindersTypeOK /\ task \in [Slots -> Tasks] /\ notified \in [Invoices -> Nat]
        /\ Coming(i) \in Nat /\ notified[i] \in Nat
    BY ComingIsNat DEF RInv, RemindersTypeOK, Tasks
  <1>1. Free \in Tasks /\ Share(Free, i) = 0
    BY DEF Tasks, Share, Free
  <1>2. \A t \in AuditTask : t \in Tasks /\ Share(t, i) = 0
    BY DEF Tasks, Share, AuditTask
  <1>3. ASSUME Serve PROVE Promised(i)' = Promised(i)
    <2>1. PICK s \in Slots : task[s] = Free /\ task' = [task EXCEPT ![s] = Auditing]
      BY <1>0, <1>3, NewTasks, TrackTakesSlot DEF Serve
    <2>2. Coming(i)' = Coming(i) + Share(Auditing, i) - Share(task[s], i)
      BY <1>0, <2>1, NewTasks, ComingMoves
    <2>3. Share(Auditing, i) = 0 /\ Share(task[s], i) = 0
      BY <1>1, <1>2, <2>1, NewTasks
    <2> QED BY <1>0, <1>3, <2>2, <2>3 DEF Promised, Serve, records
  <1>4. ASSUME NEW s \in Slots, AllocateEntry(s) PROVE Promised(i)' = Promised(i)
    <2>1. PICK t \in AuditTask : task' = [task EXCEPT ![s] = t] /\ task[s] \in AuditTask
      BY <1>4, TaskChanges
    <2>2. Coming(i)' = Coming(i) + Share(t, i) - Share(task[s], i)
      BY <1>0, <1>2, <2>1, ComingMoves
    <2>3. Share(t, i) = 0 /\ Share(task[s], i) = 0
      BY <1>2, <2>1
    <2> QED BY <1>0, <1>4, <2>2, <2>3 DEF Promised, AllocateEntry
  <1>5. ASSUME NEW s \in Slots, SaveEntry(s) PROVE Promised(i)' = Promised(i)
    <2>1. task' = [task EXCEPT ![s] = Free] /\ task[s] \in AuditTask
      BY <1>5, TaskChanges
    <2>2. Coming(i)' = Coming(i) + Share(Free, i) - Share(task[s], i)
      BY <1>0, <1>1, <2>1, ComingMoves
    <2>3. Share(task[s], i) = 0
      BY <1>2, <2>1
    <2> QED BY <1>0, <1>1, <1>5, <2>2, <2>3 DEF Promised, SaveEntry
  <1>6. ASSUME NEW s \in Slots, InsertNotification(s) PROVE Promised(i)' = Promised(i)
    <2>1. PICK t \in Tasks :
             /\ task' = [task EXCEPT ![s] = t]
             /\ notified' = [notified EXCEPT ![task[s].invoice] = @ + 1]
             /\ Share(task[s], i) = Share(t, i) + IF i = task[s].invoice THEN 1 ELSE 0
      BY <1>6, InsertionChanges
    <2>2. Coming(i)' = Coming(i) + Share(t, i) - Share(task[s], i)
      BY <1>0, <2>1, ComingMoves
    <2>3. Share(t, i) \in Nat
      BY ShareIsNat
    <2>4. notified'[i] = notified[i] + IF i = task[s].invoice THEN 1 ELSE 0
      BY <1>0, <2>1
    <2> QED BY <1>0, <2>1, <2>2, <2>3, <2>4 DEF Promised
  <1>7. ASSUME NEW s \in Slots, WriteFails(s) PROVE Promised(i)' <= Promised(i)
    <2>1. task' = [task EXCEPT ![s] = Free] /\ task[s] \in Tasks
      BY <1>0, <1>7, TaskChanges
    <2>2. Coming(i)' = Coming(i) + Share(Free, i) - Share(task[s], i)
      BY <1>0, <1>1, <2>1, ComingMoves
    <2>3. Share(task[s], i) \in Nat
      BY <2>1, ShareIsNat
    <2> QED BY <1>0, <1>1, <1>7, <2>2, <2>3 DEF Promised, WriteFails, records
  <1>8. ASSUME NEW j \in Invoices, JobFires(j)
        PROVE  Promised(i)' = Promised(i) + IF i = j THEN Templates ELSE 0
    <2>1. PICK s \in Slots : task[s] = Free /\ task' = [task EXCEPT ![s] = Announcing(j)]
      BY <1>0, <1>8, NewTasks, TrackTakesSlot DEF JobFires
    <2>2. Coming(i)' = Coming(i) + Share(Announcing(j), i) - Share(task[s], i)
      BY <1>0, <2>1, NewTasks, ComingMoves
    <2>3. /\ Share(Announcing(j), i) = IF i = j THEN Templates ELSE 0
          /\ Share(task[s], i) = 0
      BY <1>1, <2>1 DEF Share, Announcing
    <2> QED BY <1>0, <1>8, <2>2, <2>3, Bounds DEF Promised, JobFires, records
  <1> SUFFICES ASSUME ~JobFires(i)
               PROVE  \/ Promised(i)' = Promised(i)
                      \/ /\ Drained \/ Die \/ \E s \in Slots : WriteFails(s)
                         /\ Promised(i)' <= Promised(i)
    BY <1>8
  <1>9. CASE Shutdown
    <2>1. task' = [s \in Slots |-> IF task[s] = Free THEN Free
                                   ELSE [task[s] EXCEPT !.awaited = TRUE]]
      BY <1>9 DEF Shutdown
    <2>2. ASSUME NEW s \in Slots PROVE task'[s] \in Tasks /\ Share(task'[s], i) = Share(task[s], i)
      <3>1. task[s] \in AuditTask \cup NotifyTask \cup {Free}
        BY <1>0 DEF Tasks
      <3>2. CASE task[s] = Free
        BY <1>1, <2>1, <3>2
      <3>3. CASE task[s] \in AuditTask
        <4>1. task[s] # Free
          BY <3>3 DEF AuditTask, Free
        <4>2. [task[s] EXCEPT !.awaited = TRUE] \in AuditTask
          BY <3>3 DEF AuditTask
        <4> QED BY <1>2, <2>1, <3>3, <4>1, <4>2
      <3>4. CASE task[s] \in NotifyTask
        <4>1. task'[s] = [task[s] EXCEPT !.awaited = TRUE]
          BY <2>1, <3>4 DEF NotifyTask, Free
        <4>2. task'[s] \in NotifyTask /\ Share(task'[s], i) = Share(task[s], i)
          BY <3>4, <4>1 DEF NotifyTask, Share
        <4> QED BY <4>2 DEF Tasks
      <3> QED BY <3>1, <3>2, <3>3, <3>4
    <2>3. Coming(i)' = Coming(i)
      BY <1>0, <2>2, ComingStays
    <2> QED BY <1>9, <2>3 DEF Promised, Shutdown, records
  <1>10. CASE Drained \/ Die
    <2>1. task' = [s \in Slots |-> Free] /\ UNCHANGED notified
      BY <1>10 DEF Drained, Die, GoDown, records
    <2>2. Coming(i)' = 0
      <3>1. \A s \in Slots : task'[s] = Free
        BY <2>1
      <3>2. (\A s \in Slots : task[s] = Free) => Coming(i) = 0
        BY NoneToCome
      <3>3. ((\A s \in Slots : task[s] = Free) => Coming(i) = 0)'
        BY <3>2, NoneToCome, PTL
      <3> QED BY <3>1, <3>3
    <2> QED BY <1>0, <1>10, <2>1, <2>2 DEF Promised
  <1>11. CASE Elsewhere
    <2>1. UNCHANGED <<task, notified>>
      BY <1>11, ElsewhereLeaves
    <2>2. Coming(i)' = Coming(i)
      BY <2>1 DEF Coming, Left
    <2> QED BY <2>1, <2>2 DEF Promised
  <1>12. Promised(i) + 0 = Promised(i)
    BY <1>0 DEF Promised
  <1> QED BY <1>3, <1>4, <1>5, <1>6, <1>7, <1>8, <1>9, <1>10, <1>11, <1>12, StepIsOne

\* What is counted for an invoice is only ever counted up, and by the job when
\* it announces the invoice.
LEMMA AnnouncementsStay ==
    ASSUME RInv, [SystemNext]_everything, NEW i \in Invoices
    PROVE  /\ Announcements(i) \in Nat
           /\ Announcements(i)' = Announcements(i) + IF JobFires(i) THEN 1 ELSE 0
  <1>0. /\ RemindersTypeOK /\ RunIsFresh /\ history.lapses \in [Invoices -> Nat]
        /\ job \in [todo : SUBSET Invoices, firing : {{}} \cup {{j} : j \in Invoices}]
    BY DEF RInv, RemindersTypeOK
  <1>1. Announcements(i) \in Nat
    BY <1>0 DEF Announcements
  <1>2. ASSUME ~JobFires(i), Announced' = Announced, history'.lapses = history.lapses
        PROVE  Announcements(i)' = Announcements(i) + IF JobFires(i) THEN 1 ELSE 0
    BY <1>1, <1>2 DEF Announcements
  <1>3. ASSUME ~JobFires(i), UNCHANGED stamped, job' = NoRun,
               history'.lapses = [j \in Invoices |->
                                    history.lapses[j] + IF j \in job.firing THEN 1 ELSE 0]
        PROVE  Announcements(i)' = Announcements(i) + IF JobFires(i) THEN 1 ELSE 0
    <2>1. Announced' = stamped
      BY <1>3 DEF Announced, NoRun
    <2>2. i \in job.firing => i \notin stamped
      BY <1>0 DEF RunIsFresh
    <2>3. history'.lapses[i] = history.lapses[i] + IF i \in job.firing THEN 1 ELSE 0
      BY <1>3
    <2>4. history.lapses[i] \in Nat
      BY <1>0
    <2> QED BY <1>3, <2>1, <2>2, <2>3, <2>4 DEF Announcements, Announced
  <1>4. CASE JobFires(i)
    <2>1. /\ i \in job.todo /\ job.firing = {} /\ UNCHANGED stamped
          /\ job' = [todo |-> job.todo \ {i}, firing |-> {i}]
          /\ history' = [history EXCEPT !.late = @ \/ process = "draining"]
      BY <1>4 DEF JobFires
    <2>2. i \notin Announced /\ i \in Announced' /\ history'.lapses = history.lapses
      BY <1>0, <2>1 DEF Announced, RunIsFresh, RemindersTypeOK
    <2> QED BY <1>0, <1>4, <2>2 DEF Announcements
  <1> SUFFICES ASSUME ~JobFires(i)
               PROVE  Announcements(i)' = Announcements(i) + IF JobFires(i) THEN 1 ELSE 0
    BY <1>1, <1>4
  <1>5. CASE Serve \/ Shutdown
    <2>1. UNCHANGED <<stamped, job>> /\ history'.lapses = history.lapses
      BY <1>0, <1>5 DEF Serve, Shutdown, RemindersTypeOK
    <2> QED BY <1>2, <2>1 DEF Announced
  <1>6. ASSUME NEW s \in Slots,
               AllocateEntry(s) \/ SaveEntry(s) \/ InsertNotification(s) \/ WriteFails(s)
        PROVE  UNCHANGED <<stamped, job>> /\ history'.lapses = history.lapses
    <2>1. Troubled.lapses = history.lapses
      BY <1>0, HistoryTyped
    <2> QED BY <1>6, <2>1 DEF AllocateEntry, SaveEntry, InsertNotification, WriteFails
  <1>7. ASSUME NEW j \in Invoices, j # i, JobFires(j)
        PROVE  i \in Announced' <=> i \in Announced
    BY <1>7 DEF JobFires, Announced
  <1>8. ASSUME NEW j \in Invoices, JobFires(j)
        PROVE  Announcements(i)' = Announcements(i)
    <2>1. history'.lapses = history.lapses
      BY <1>0, <1>8 DEF JobFires, RemindersTypeOK
    <2> QED BY <1>7, <1>8, <2>1 DEF Announcements
  <1>9. CASE JobStamps
    <2>1. Announced' = Announced /\ UNCHANGED history
      BY <1>0, <1>9 DEF JobStamps, Announced
    <2> QED BY <1>2, <2>1
  <1>10. CASE JobReads
    <2>1. job'.firing = job.firing /\ UNCHANGED <<stamped, history>>
      BY <1>0, <1>10 DEF JobReads
    <2> QED BY <1>2, <2>1 DEF Announced
  <1>11. CASE JobFails \/ Drained \/ Die
    <2>1. UNCHANGED stamped /\ job' = NoRun /\ history' \in {Lapsed(Troubled), Lapsed(history)}
      BY <1>11 DEF JobFails, Drained, Die, GoDown
    <2> QED BY <1>0, <1>3, <2>1, HistoryTyped
  <1>12. CASE Restart \/ UNCHANGED everything \/ \E j \in Invoices : FallDue(j)
    <2>1. UNCHANGED <<stamped, job, history>>
      BY <1>12 DEF Restart, FallDue, everything
    <2> QED BY <1>2, <2>1 DEF Announced
  <1>13. ASSUME NEW s \in Slots,
                AllocateEntry(s) \/ SaveEntry(s) \/ InsertNotification(s) \/ WriteFails(s)
         PROVE  Announcements(i)' = Announcements(i) + IF JobFires(i) THEN 1 ELSE 0
    BY <1>2, <1>6, <1>13 DEF Announced
  <1> QED BY <1>1, <1>5, <1>8, <1>9, <1>10, <1>11, <1>12, <1>13, StepIsOne DEF Elsewhere

\* So an invoice is announced again only where a run was cut short.
LEMMA ExcessStaysOut == ASSUME RInv, [SystemNext]_everything PROVE NoExcess'
  <1> SUFFICES ASSUME NEW i \in Invoices
               PROVE  Promised(i)' <= Templates * Announcements(i)'
    BY DEF NoExcess, Promised
  <1>1. /\ Promised(i) \in Nat /\ Templates \in Nat /\ Announcements(i) \in Nat
        /\ Promised(i) <= Templates * Announcements(i)
    BY PromisesAreNat, Bounds, AnnouncementsStay DEF RInv, NoExcess, Promised
  <1>2. Promised(i)' \in Nat
    <2>1. RemindersTypeOK'
      BY TypesStay
    <2>2. (RemindersTypeOK => Promised(i) \in Nat)'
      BY PromisesAreNat, PTL
    <2> QED BY <2>1, <2>2
  <1>3. CASE JobFires(i)
    <2>1. Announcements(i)' = Announcements(i) + 1
      BY <1>3, AnnouncementsStay
    <2>2. Templates * (Announcements(i) + 1) = Templates * Announcements(i) + Templates
      BY <1>1
    <2>3. Templates * Announcements(i) \in Nat
      BY <1>1
    <2>4. Promised(i)' <= Promised(i) + Templates
      BY <1>1, <1>2, PromisesAreKept
    <2> QED BY <1>1, <1>2, <2>1, <2>2, <2>3, <2>4
  <1>4. CASE ~JobFires(i)
    <2>1. Announcements(i)' = Announcements(i)
      BY <1>1, <1>4, AnnouncementsStay
    <2>2. Promised(i)' <= Promised(i)
      BY <1>1, <1>2, <1>4, PromisesAreKept
    <2>3. Templates * Announcements(i) \in Nat
      BY <1>1
    <2> QED BY <1>1, <1>2, <2>1, <2>2, <2>3
  <1> QED BY <1>3, <1>4

\* Times that are calm have been calm, and had no write that failed.
LEMMA CalmWasCalm ==
    ASSUME RInv, [SystemNext]_everything, Calm'
    PROVE  /\ Calm /\ ~Die
           /\ \A s \in Slots : ~WriteFails(s)
           /\ Serve \/ (\E i \in Invoices : JobFires(i)) => process # "draining"
  <1>0. RemindersTypeOK /\ history.troubles \in Nat /\ history.late \in BOOLEAN
    BY DEF RInv, RemindersTypeOK
  <1>1. CASE Serve \/ \E i \in Invoices : JobFires(i)
    <2>1. history'.troubles = history.troubles
      BY <1>0, <1>1 DEF Serve, JobFires, RemindersTypeOK
    <2>2. history'.late = (history.late \/ process = "draining")
      BY <1>0, <1>1 DEF Serve, JobFires, RemindersTypeOK
    <2>3. Calm /\ process # "draining"
      BY <1>0, <2>1, <2>2 DEF Calm
    <2>4. UNCHANGED process /\ history'.shutdowns = history.shutdowns
      BY <1>0, <1>1 DEF Serve, JobFires, RemindersTypeOK
    <2>5. ~Die /\ \A s \in Slots : ~WriteFails(s)
      BY <1>0, <2>1, HistoryTyped DEF Die, WriteFails
    <2> QED BY <2>3, <2>5
  <1>2. CASE ~(Serve \/ \E i \in Invoices : JobFires(i))
    <2>1. \/ history' = history
          \/ history' = Lapsed(history)
          \/ history' = [history EXCEPT !.shutdowns = @ + 1]
          \/ history'.troubles = history.troubles + 1
      BY <1>0, <1>2, HistoryTyped, StepIsOne, ElsewhereLeaves
         DEF AllocateEntry, SaveEntry, InsertNotification, WriteFails, Shutdown, Drained, Die
    <2>2. history'.troubles # history.troubles + 1
      BY <1>0 DEF Calm
    <2>3. history'.troubles = history.troubles /\ history'.late = history.late
      BY <1>0, <2>1, <2>2, HistoryTyped DEF RemindersTypeOK
    <2>4. ~Die /\ \A s \in Slots : ~WriteFails(s)
      BY <1>0, <2>2, HistoryTyped DEF Die, WriteFails
    <2> QED BY <1>2, <2>3, <2>4 DEF Calm
  <1> QED BY <1>1, <1>2

\* A drain that ends, in calm times, ends when nothing is in flight.
LEMMA DrainsToNothing ==
    ASSUME RInv, Calm, Drained
    PROVE  \A s \in Slots : task[s] = Free
  BY DEF RInv, NoLoss, Drained, Settled, Awaited, InFlight

\* Audit entries, written or on the way, are as many as the requests answered.
LEMMA EntriesAreKept ==
    ASSUME RInv, [SystemNext]_everything, Calm'
    PROVE  Cardinality(audit') + Cardinality(AuditSlots') = history'.served
  <1>0. /\ RemindersTypeOK /\ CodesAreOwn /\ task \in [Slots -> Tasks]
        /\ IsFiniteSet(AuditSlots) /\ IsFiniteSet(audit) /\ history.served \in Nat
        /\ Cardinality(AuditSlots) \in Nat /\ Cardinality(audit) \in Nat
        /\ Cardinality(audit) + Cardinality(AuditSlots) = history.served
    BY CalmWasCalm, CountsAreNumbers DEF RInv, RemindersTypeOK, Tasks, NoLoss
  <1>1. ASSUME AuditSlots' = AuditSlots, UNCHANGED audit, history'.served = history.served
        PROVE  Cardinality(audit') + Cardinality(AuditSlots') = history'.served
    BY <1>0, <1>1
  <1>2. CASE Serve
    <2>1. history'.served = history.served + 1 /\ UNCHANGED audit
      BY <1>0, <1>2 DEF Serve, records, RemindersTypeOK
    <2>2. PICK s \in Slots : task[s] = Free /\ task' = [task EXCEPT ![s] = Auditing]
      BY <1>0, <1>2, NewTasks, TrackTakesSlot DEF Serve
    <2>3. AuditSlots' = AuditSlots \cup {s} /\ s \notin AuditSlots
      BY <1>0, <2>2 DEF AuditSlots, Auditing, Free
    <2>4. Cardinality(AuditSlots') = Cardinality(AuditSlots) + 1
      BY <1>0, <2>3, FS_AddElement
    <2> QED BY <1>0, <2>1, <2>4
  <1>3. ASSUME NEW s \in Slots, AllocateEntry(s)
        PROVE  AuditSlots' = AuditSlots /\ UNCHANGED audit /\ history'.served = history.served
    <2>1. PICK t \in AuditTask : task' = [task EXCEPT ![s] = t] /\ task[s] \in AuditTask
      BY <1>3, TaskChanges
    <2>2. t.kind = "audit" /\ task[s].kind = "audit"
      BY <2>1 DEF AuditTask
    <2>3. AuditSlots' = AuditSlots
      BY <1>0, <2>1, <2>2 DEF AuditSlots
    <2> QED BY <1>3, <2>3 DEF AllocateEntry
  <1>4. ASSUME NEW s \in Slots, SaveEntry(s)
        PROVE  Cardinality(audit') + Cardinality(AuditSlots') = history'.served
    <2>1. s \in AuditSlots \ Unnumbered /\ task' = [task EXCEPT ![s] = Free]
      BY <1>4, TaskChanges
    <2>2. task[s].code \notin audit
      BY <1>0, <2>1 DEF CodesAreOwn
    <2>3. audit' = audit \cup {task[s].code} /\ history' = history
      BY <1>4 DEF SaveEntry
    <2>4. AuditSlots' = AuditSlots \ {s}
      BY <1>0, <2>1 DEF AuditSlots, Free
    <2>5. Cardinality(audit') = Cardinality(audit) + 1
      BY <1>0, <2>2, <2>3, FS_AddElement
    <2>6. Cardinality(AuditSlots') = Cardinality(AuditSlots) - 1
      BY <1>0, <2>1, <2>4, FS_RemoveElement
    <2> QED BY <1>0, <2>3, <2>5, <2>6
  <1>5. ASSUME NEW s \in Slots, InsertNotification(s)
        PROVE  AuditSlots' = AuditSlots /\ UNCHANGED audit /\ history'.served = history.served
    <2>1. PICK t \in NotifyTask \cup {Free} :
             task' = [task EXCEPT ![s] = t] /\ task[s] \in NotifyTask
      BY <1>5, InsertionChanges
    <2>2. t.kind # "audit" /\ task[s].kind # "audit"
      BY <2>1 DEF NotifyTask, Free
    <2>3. AuditSlots' = AuditSlots
      BY <1>0, <2>1, <2>2 DEF AuditSlots
    <2> QED BY <1>5, <2>3 DEF InsertNotification
  <1>6. ASSUME NEW i \in Invoices, JobFires(i)
        PROVE  AuditSlots' = AuditSlots /\ UNCHANGED audit /\ history'.served = history.served
    <2>1. history'.served = history.served /\ UNCHANGED audit
      BY <1>0, <1>6 DEF JobFires, records, RemindersTypeOK
    <2>2. PICK s \in Slots : task[s] = Free /\ task' = [task EXCEPT ![s] = Announcing(i)]
      BY <1>0, <1>6, NewTasks, TrackTakesSlot DEF JobFires
    <2>3. AuditSlots' = AuditSlots
      BY <1>0, <2>2 DEF AuditSlots, Announcing, Free
    <2> QED BY <2>1, <2>3
  <1>7. CASE Shutdown
    <2>1. task' = [s \in Slots |-> IF task[s] = Free THEN Free
                                   ELSE [task[s] EXCEPT !.awaited = TRUE]]
      BY <1>7 DEF Shutdown
    <2>2. \A t \in Tasks : t # Free => [t EXCEPT !.awaited = TRUE].kind = t.kind
      BY DEF Tasks, AuditTask, NotifyTask
    <2>3. \A s \in Slots : task'[s].kind = task[s].kind
      BY <1>0, <2>1, <2>2
    <2>4. AuditSlots' = AuditSlots
      BY <2>3 DEF AuditSlots
    <2>5. history'.served = history.served /\ UNCHANGED audit
      BY <1>0, <1>7 DEF Shutdown, records, RemindersTypeOK
    <2> QED BY <1>1, <2>4, <2>5
  <1>8. CASE Drained
    <2>1. \A s \in Slots : task[s] = Free
      BY <1>8, CalmWasCalm, DrainsToNothing
    <2>2. AuditSlots' = AuditSlots
      BY <1>8, <2>1 DEF Drained, GoDown, AuditSlots
    <2>3. history'.served = history.served /\ UNCHANGED audit
      BY <1>0, <1>8, HistoryTyped DEF Drained, GoDown, records
    <2> QED BY <1>1, <2>2, <2>3
  <1>9. CASE Elsewhere
    <2>1. AuditSlots' = AuditSlots /\ UNCHANGED audit
      BY <1>9, ElsewhereLeaves DEF AuditSlots
    <2>2. history'.served = history.served
      BY <1>0, <1>9, ElsewhereLeaves, HistoryTyped
    <2> QED BY <1>1, <2>1, <2>2
  <1> QED BY <1>1, <1>2, <1>3, <1>4, <1>5, <1>6, <1>7, <1>8, <1>9, StepIsOne, CalmWasCalm

\* A drain that has begun, in calm times, waits for every task.
LEMMA DrainsAwait ==
    ASSUME RInv, [SystemNext]_everything, Calm', process' = "draining"
    PROVE  \A s \in InFlight' : task'[s].awaited
  <1>0. /\ task \in [Slots -> Tasks]
        /\ process = "draining" => \A s \in InFlight : task[s].awaited
    BY CalmWasCalm DEF RInv, RemindersTypeOK, Tasks, NoLoss
  <1>1. CASE Shutdown
    <2>1. task' = [s \in Slots |-> IF task[s] = Free THEN Free
                                   ELSE [task[s] EXCEPT !.awaited = TRUE]]
      BY <1>1 DEF Shutdown
    <2>2. \A t \in Tasks : t # Free => [t EXCEPT !.awaited = TRUE].awaited
      BY DEF Tasks, AuditTask, NotifyTask
    <2> QED BY <1>0, <2>1, <2>2 DEF InFlight
  <1>2. ASSUME NEW s \in Slots, NEW t, task' = [task EXCEPT ![s] = t], process = "draining",
               s \in InFlight, t # Free => t.awaited = task[s].awaited
        PROVE  \A r \in InFlight' : task'[r].awaited
    BY <1>0, <1>2 DEF InFlight
  <1>3. ASSUME NEW s \in Slots, AllocateEntry(s) \/ SaveEntry(s) \/ InsertNotification(s)
        PROVE  \A r \in InFlight' : task'[r].awaited
    <2>1. process = "draining"
      BY <1>3 DEF AllocateEntry, SaveEntry, InsertNotification
    <2>2. s \in InFlight
      BY <1>3 DEF AllocateEntry, SaveEntry, InsertNotification, InFlight, Free
    <2>3. ASSUME AllocateEntry(s) PROVE \A r \in InFlight' : task'[r].awaited
      <3> DEFINE t == [task[s] EXCEPT !.code = NextCode]
      <3>1. task' = [task EXCEPT ![s] = t] /\ task[s] \in AuditTask
        BY <2>3, TaskChanges
      <3>2. t.awaited = task[s].awaited
        BY <3>1 DEF AuditTask
      <3> HIDE DEF t
      <3> QED BY <1>2, <2>1, <2>2, <3>1, <3>2
    <2>4. ASSUME SaveEntry(s) PROVE \A r \in InFlight' : task'[r].awaited
      BY <1>2, <2>1, <2>2, <2>4, TaskChanges
    <2>5. ASSUME InsertNotification(s) PROVE \A r \in InFlight' : task'[r].awaited
      <3>1. PICK t \in Tasks : /\ task' = [task EXCEPT ![s] = t]
                               /\ t # Free => t.awaited = task[s].awaited
        BY <2>5, InsertionChanges
      <3> QED BY <1>2, <2>1, <2>2, <3>1
    <2> QED BY <1>3, <2>3, <2>4, <2>5
  <1>4. CASE Elsewhere
    BY <1>0, <1>4, ElsewhereLeaves DEF InFlight
  <1>5. ~Drained
    BY DEF Drained, GoDown
  <1>6. ~Serve /\ \A i \in Invoices : ~JobFires(i)
    BY CalmWasCalm DEF Serve, JobFires
  <1> QED BY <1>1, <1>3, <1>4, <1>5, <1>6, StepIsOne, CalmWasCalm

LEMMA LossStaysOut == ASSUME RInv, [SystemNext]_everything PROVE NoLoss'
  <1> SUFFICES ASSUME Calm'
               PROVE  /\ process' = "draining" => \A s \in InFlight' : task'[s].awaited
                      /\ \A i \in Announced' : Promised(i)' >= Templates
                      /\ Cardinality(audit') + Cardinality(AuditSlots') = history'.served
    BY DEF NoLoss, Promised
  <1>0. /\ RemindersTypeOK /\ RunIsFresh /\ stamped \subseteq Invoices /\ Calm
        /\ job \in [todo : SUBSET Invoices, firing : {{}} \cup {{i} : i \in Invoices}]
        /\ \A i \in Announced : Promised(i) >= Templates
    BY CalmWasCalm DEF RInv, RemindersTypeOK, NoLoss, Promised
  <1>1. ASSUME NEW i \in Announced' PROVE i \in Announced \/ (i \in Invoices /\ JobFires(i))
    <2>1. CASE Serve \/ Shutdown \/ \E s \in Slots : AllocateEntry(s) \/ SaveEntry(s)
                                          \/ InsertNotification(s) \/ WriteFails(s)
      BY <2>1 DEF Serve, Shutdown, AllocateEntry, SaveEntry, InsertNotification, WriteFails,
                  Announced
    <2>2. CASE \E j \in Invoices : JobFires(j)
      BY <2>2 DEF JobFires, Announced
    <2>3. CASE Drained \/ Die
      BY <2>3 DEF Drained, Die, GoDown, Announced, NoRun
    <2>4. CASE JobReads \/ JobStamps
      BY <1>0, <2>4 DEF JobReads, JobStamps, Announced
    <2>5. CASE Elsewhere /\ ~(JobReads \/ JobStamps)
      BY <2>5 DEF Elsewhere, JobFails, Restart, FallDue, everything, Announced, NoRun
    <2> QED BY <2>1, <2>2, <2>3, <2>4, <2>5, StepIsOne
  <1>2. ASSUME NEW i \in Announced' PROVE Promised(i)' >= Templates
    <2>1. i \in Invoices
      BY <1>0, <1>1 DEF Announced
    <2>2. Promised(i) \in Nat /\ Templates \in Nat
      BY <1>0, <2>1, PromisesAreNat, Bounds
    <2>3. CASE JobFires(i)
      <3>1. Promised(i)' = Promised(i) + Templates
        BY <2>1, <2>3, PromisesAreKept
      <3> QED BY <2>2, <3>1
    <2>4. CASE Drained
      <3>1. \A s \in Slots : task[s] = Free
        BY <1>0, <2>4, DrainsToNothing
      <3>2. \A s \in Slots : task'[s] = task[s]
        BY <2>4, <3>1 DEF Drained, GoDown
      <3>3. Left(i)' = Left(i)
        BY <3>2 DEF Left
      <3>4. Promised(i)' = Promised(i)
        BY <2>4, <3>3 DEF Promised, Coming, Drained, GoDown, records
      <3>5. i \in Announced
        BY <2>4 DEF Drained, GoDown, Announced, NoRun
      <3> QED BY <1>0, <3>4, <3>5
    <2>5. CASE ~JobFires(i) /\ ~Drained
      <3>1. Promised(i)' = Promised(i)
        BY <2>1, <2>5, CalmWasCalm, PromisesAreKept
      <3>2. i \in Announced
        BY <1>1, <2>5
      <3> QED BY <1>0, <3>1, <3>2
    <2> QED BY <2>3, <2>4, <2>5
  <1> QED BY <1>2, DrainsAwait, EntriesAreKept

LEMMA RemindersNext == RInv /\ [SystemNext]_everything => RInv'
  BY TypesStay, FreshStays, CodesStayOwn, ExcessStaysOut, LossStaysOut DEF RInv

LEMMA RemindersAlways == SystemSpec => []RInv
  BY RemindersStart, RemindersNext, PTL DEF SystemSpec
-----------------------------------------------------------------------------
\* Whatever writes fail and whenever the process stops, what is behind the
\* answers keeps its type; in particular nextval never runs ahead of the
\* requests that asked for an entry.
THEOREM RemindersTypeCorrect == SystemSpec => []RemindersTypeOK
  <1>1. RInv => RemindersTypeOK
    BY DEF RInv
  <1> QED BY <1>1, RemindersAlways, PTL

\* The stamp keeps the job from announcing an invoice twice, however many runs,
\* crashes and shutdowns there are: each repetition is a run that was cut short.
THEOREM AnnouncedOnceOrCutShort == SystemSpec => []AnnouncedOnce
  <1>1. ASSUME RInv, NEW i \in Invoices
        PROVE  notified[i] <= Templates * (1 + history.lapses[i])
    <2>1. /\ notified[i] \in Nat /\ task \in [Slots -> Tasks] /\ history.lapses[i] \in Nat
          /\ Templates \in Nat
      BY <1>1, Bounds DEF RInv, RemindersTypeOK, Tasks
    <2>2. Coming(i) \in Nat
      BY <2>1, ComingIsNat
    <2>3. Announcements(i) \in Nat /\ Announcements(i) <= 1 + history.lapses[i]
      BY <2>1 DEF Announcements
    <2>4. Templates * Announcements(i) <= Templates * (1 + history.lapses[i])
      BY <2>1, <2>3, TimesGrows
    <2>5. notified[i] + Coming(i) <= Templates * Announcements(i)
      BY <1>1 DEF RInv, NoExcess
    <2>6. Templates * Announcements(i) \in Nat /\ Templates * (1 + history.lapses[i]) \in Nat
      BY <2>1, <2>3
    <2> QED BY <2>1, <2>2, <2>4, <2>5, <2>6
  <1>2. RInv => AnnouncedOnce
    BY <1>1 DEF AnnouncedOnce
  <1> QED BY <1>2, RemindersAlways, PTL

\* The tracker is enough: as long as no write fails and the process is not
\* killed, a shutdown loses no notification and no audit entry, except of what
\* was begun after it had looked.
THEOREM NothingGoesMissing == SystemSpec => []NothingIsDropped
  <1>1. RInv => NothingIsDropped
    BY DEF RInv, NoLoss, Calm, NothingIsDropped, Announced, AuditSlots
  <1> QED BY <1>1, RemindersAlways, PTL

\* The reports agree through all of it.
THEOREM ReportsSurviveTrouble == SystemSpec => []ReportsAgree
  BY SystemServesLedger, ReportsAlwaysAgree, PTL
=============================================================================
