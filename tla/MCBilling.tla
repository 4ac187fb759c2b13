------------------------------ MODULE MCBilling ------------------------------
(***************************************************************************)
(* Billing for TLC: a clerk for each invoice, or two at one invoice.       *)
(***************************************************************************)
EXTENDS Billing, TLC

CONSTANTS r1, r2, i1, i2

OneInvoiceEach == r1 :> {i1} @@ r2 :> {i2}

SharedInvoice == r1 :> {i1} @@ r2 :> {i1}
=============================================================================
