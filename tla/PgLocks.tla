------------------------------- MODULE PgLocks -------------------------------
(***************************************************************************)
(* The locks of PostgreSQL that the services rely on, external to the      *)
(* repository: LOCK TABLE ... IN SHARE ROW EXCLUSIVE MODE (sre), the ROW   *)
(* EXCLUSIVE table lock every INSERT, UPDATE and DELETE takes (rx), and    *)
(* the lock of each updated row.  All are held until the transaction ends. *)
(* Plain reads take no lock that conflicts with these.                     *)
(***************************************************************************)
CONSTANTS Clients, Tables, Rows

VARIABLE held      \* client -> the locks its open transaction holds

LockSet == [sre : SUBSET Tables, rx : SUBSET Tables, rows : SUBSET Rows]

NoLocks == [sre |-> {}, rx |-> {}, rows |-> {}]

TableLock(tab) == [sre |-> {tab}, rx |-> {}, rows |-> {}]

RowUpdate(tab, row) == [sre |-> {}, rx |-> {tab}, rows |-> {row}]

LocksTypeOK == held \in [Clients -> LockSet]

\* SHARE ROW EXCLUSIVE conflicts with itself and with ROW EXCLUSIVE; a row
\* lock with another lock of the row.
Conflict(a, b) ==
    \/ a.sre \cap (b.sre \cup b.rx) # {}
    \/ a.rx \cap b.sre # {}
    \/ a.rows \cap b.rows # {}

Grantable(c, want) == \A d \in Clients \ {c} : ~Conflict(want, held[d])

Acquire(c, want) ==
    /\ Grantable(c, want)
    /\ held' = [held EXCEPT ![c] = [sre  |-> @.sre \cup want.sre,
                                    rx   |-> @.rx \cup want.rx,
                                    rows |-> @.rows \cup want.rows]]

\* COMMIT or ROLLBACK.
Release(c) == held' = [held EXCEPT ![c] = NoLocks]

\* No two transactions hold conflicting locks.
LocksExclude == \A c, d \in Clients : c # d => ~Conflict(held[c], held[d])
=============================================================================
