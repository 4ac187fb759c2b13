--------------------------------- MODULE Desk ---------------------------------
(***************************************************************************)
(* What the record-keeping endpoints share: the requests in flight, the    *)
(* locks their transactions hold, and the numbering of new rows.  The      *)
(* modules that extend this one each give the tables and handlers of a     *)
(* component; Backoffice lets all of them run on the same slots.           *)
(***************************************************************************)
EXTENDS Integers, FiniteSets, FiniteSetsExt

CONSTANTS
    Requests,    \* request slots: how many requests may be in flight
    Mixes        \* sets of endpoints that may be called in one behaviour

VARIABLES
    calls,    \* the endpoints called in this behaviour
    req,      \* request slot -> the handler's local state
    held      \* request slot -> locks of its transaction

desk == <<calls, req, held>>

INSTANCE PgLocks WITH
    Clients <- Requests,
    Tables <- {"properties", "units", "technicians", "maintenance_requests", "documents",
               "notifications", "notification_templates"},
    Rows <- {}

Idle == [pc |-> "idle"]

DeskInit ==
    /\ calls \in Mixes
    /\ req = [r \in Requests |-> Idle]
    /\ held = [r \in Requests |-> NoLocks]

At(r, pc) == req[r].pc = pc

Begin(r, op, q) ==
    /\ op \in calls
    /\ req[r] = Idle
    /\ req' = [req EXCEPT ![r] = q]
    /\ UNCHANGED <<calls, held>>

\* MUTANT of Answer: the query runner is never released.
AnswerHolding(r) ==
    /\ req' = [req EXCEPT ![r] = Idle]
    /\ UNCHANGED <<calls, held>>

\* The handler returns or throws; its transaction, if any, has ended.
Answer(r) ==
    /\ req' = [req EXCEPT ![r] = Idle]
    /\ Release(r)
    /\ UNCHANGED calls

\* A write outside any other transaction waits for the locks on its table.
MayWrite(r, table) == Grantable(r, [NoLocks EXCEPT !.rx = {table}])

\* MUTANT of NextNumber: the number of rows instead of the largest code.
CountNumber(used) == Cardinality(used) + 1

\* COALESCE(MAX(code), 0) + 1.
NextNumber(used) == IF used = {} THEN 1 ELSE Max(used) + 1

\* MUTANT of Number: LOCK TABLE forgotten.
NumberUnlocked(r, table, q) ==
    /\ req' = [req EXCEPT ![r] = q]
    /\ UNCHANGED <<calls, held>>

\* LOCK TABLE, then the number of the new row, with which q goes on.
Number(r, table, q) ==
    /\ Acquire(r, TableLock(table))
    /\ req' = [req EXCEPT ![r] = q]
    /\ UNCHANGED calls
=============================================================================
