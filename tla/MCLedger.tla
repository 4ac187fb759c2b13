------------------------------- MODULE MCLedger -------------------------------
(***************************************************************************)
(* The ledger for TLC, with what runs behind it: two invoices, payments    *)
(* below, at and above what is owed, and one of each kind of trouble.      *)
(***************************************************************************)
EXTENDS Reminders

BackgroundWrites == 1..2
=============================================================================
