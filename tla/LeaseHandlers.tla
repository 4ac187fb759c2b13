---------------------------- MODULE LeaseHandlers ----------------------------
(***************************************************************************)
(* The request handlers that read and write leases, units and tenants, one *)
(* step for each statement a handler awaits, so that the requests in       *)
(* flight interleave as they do on the event loop.  Checks run on rows     *)
(* read before the transaction opens; the transaction's writes become      *)
(* visible at its commit; a read sees committed rows only.                 *)
(*                                                                         *)
(* A request that fails (a refused check, a storage or database error, the *)
(* process dying) drops its locks and its uncommitted writes; an object    *)
(* already uploaded stays in the bucket.                                   *)
(***************************************************************************)
EXTENDS Rental, FiniteSets

CONSTANTS
    Requests,    \* request slots: how many requests may be in flight
    Ops          \* the endpoints being called

Endpoints == {"onboard", "create", "terminate", "blacklist",
              "patchUnit", "patchTenant", "patchLease"}

ASSUME OpsAssumption == Ops \subseteq Endpoints

\* No row of one table is taken for a row of another.
ASSUME RowAssumption ==
    Units \cap Tenants = {} /\ (Units \cup Tenants) \cap Leases = {}

VARIABLES
    lease, unit, tenant,    \* the committed rows, as in Occupancy
    invoice,                \* invoices table:  number -> lease it bills, or 0
    document,               \* documents table: number -> lease it records, or 0
    object,                 \* bucket: document number in the key -> lease it states
    req,                    \* request slot -> the handler's local state
    held                    \* request slot -> locks of its transaction

rows == <<lease, unit, tenant>>
papers == <<invoice, document>>
vars == <<lease, unit, tenant, invoice, document, object, req, held>>

Occ == INSTANCE Occupancy

INSTANCE PgLocks WITH
    Clients <- Requests,
    Tables <- {"leases", "invoices", "units", "tenants", "documents"},
    Rows <- Leases \cup Units \cup Tenants

NoRow == [status |-> "none"]

Idle == [pc |-> "idle", t |-> Nobody, u |-> NoUnit, l |-> 0, inv |-> 0, doc |-> 0,
         row |-> NoRow, cols |-> {}]

Init ==
    /\ Occ!Init
    /\ invoice = [i \in Leases |-> 0]
    /\ document = [d \in Leases |-> 0]
    /\ object = [d \in Leases |-> 0]
    /\ req = [r \in Requests |-> Idle]
    /\ held = [r \in Requests |-> NoLocks]

TypeOK ==
    /\ Occ!TypeOK
    /\ LocksTypeOK
    /\ {invoice, document, object} \subseteq [Leases -> Leases \cup {0}]
    /\ \A r \in Requests : req[r].pc # "idle" \/ req[r] = Idle
-----------------------------------------------------------------------------
(***************************************************************************)
(* The locks each handler's next statement waits for, by handler: LOCK     *)
(* TABLE for the numbered inserts, a row update for the rest.              *)
(***************************************************************************)
CreateWants(q) ==
    CASE q.pc = "createChecked"   -> TableLock("leases")
      [] q.pc = "leaseInserted"   -> TableLock("invoices")
      [] q.pc = "invoiceInserted" -> RowUpdate("units", q.u)
      [] q.pc = "unitOccupied"    -> RowUpdate("tenants", q.t)
      [] q.pc = "tenantHoused"    -> TableLock("documents")

TerminateWants(q) ==
    CASE q.pc = "leaseRead"   -> RowUpdate("leases", q.l)
      [] q.pc = "leaseEnded"  -> RowUpdate("units", q.u)
      [] q.pc = "unitVacated" -> RowUpdate("tenants", q.t)

\* MUTANT of BlacklistWants: the tenant row before the unit row.
TenantRowFirst(q) ==
    CASE q.pc = "offenderRead"  -> RowUpdate("tenants", q.t)
      [] q.pc = "offenderMoved" -> IF q.u = NoUnit THEN RowUpdate("tenants", q.t)
                                   ELSE RowUpdate("units", q.u)

BlacklistWants(q) ==
    CASE q.pc = "offenderRead"  -> RowUpdate("units", q.u)
      [] q.pc = "offenderMoved" -> RowUpdate("tenants", q.t)

SaveWants(q) ==
    CASE q.pc = "unitDiffed"   -> RowUpdate("units", q.u)
      [] q.pc = "tenantDiffed" -> RowUpdate("tenants", q.t)
      [] q.pc = "leaseDiffed"  -> RowUpdate("leases", q.l)

Wants(r) ==
    LET q == req[r] IN
    CASE q.pc \in {"createChecked", "leaseInserted", "invoiceInserted", "unitOccupied",
                   "tenantHoused"} -> CreateWants(q)
      [] q.pc \in {"leaseRead", "leaseEnded", "unitVacated"} -> TerminateWants(q)
      [] q.pc \in {"offenderRead", "offenderMoved"} -> BlacklistWants(q)
      [] q.pc = "prospectGiven" -> TableLock("tenants")
      [] q.pc \in {"unitDiffed", "tenantDiffed", "leaseDiffed"} -> SaveWants(q)
      [] OTHER -> NoLocks

Begin(r, op, q) ==
    /\ op \in Ops
    /\ req[r].pc = "idle"
    /\ req' = [req EXCEPT ![r] = q]
    /\ UNCHANGED <<rows, papers, object, held>>

Goto(r, pc) == req' = [req EXCEPT ![r].pc = pc]

\* The next statement of an open transaction, which waits for its locks.
Statement(r, from, to) ==
    /\ req[r].pc = from
    /\ Acquire(r, Wants(r))
    /\ Goto(r, to)
    /\ UNCHANGED <<rows, papers, object>>

Answer(r) ==
    /\ req' = [req EXCEPT ![r] = Idle]
    /\ Release(r)
-----------------------------------------------------------------------------
(***************************************************************************)
(* POST /leases: LeasesService.create.                                     *)
(***************************************************************************)
Creating == {r \in Requests : req[r].pc \in
               {"tenantRead", "unitRead", "createChecked", "leaseInserted",
                "invoiceInserted", "unitOccupied", "tenantHoused", "agreementStored"}}

\* The bound MaxLeases, kept by starting no creation that would pass it.
RoomForLease ==
    Cardinality({l \in Leases : lease[l].status # "none"}) + Cardinality(Creating) < MaxLeases

ReadTenant(r, t, u) ==
    /\ RoomForLease
    /\ tenant[t].status # "none"
    /\ Begin(r, "create", [Idle EXCEPT !.pc = "tenantRead", !.t = t, !.u = u, !.row = tenant[t]])

\* MUTANT of CanLet: an occupied unit is not refused.
CanLetAnyUnit(r) == req[r].row.status # "blacklisted"

\* The refusals of an occupied unit and of a blacklisted tenant.
CanLet(r) ==
    /\ unit[req[r].u].status # "occupied"
    /\ req[r].row.status # "blacklisted"

ReadUnit(r) ==
    /\ req[r].pc = "tenantRead"
    /\ req' = [req EXCEPT ![r] = IF CanLet(r) THEN [@ EXCEPT !.pc = "unitRead", !.row = NoRow]
                                 ELSE Idle]
    /\ UNCHANGED <<rows, papers, object, held>>

HoldsLease(t) == \E l \in Leases : Live(lease[l]) /\ lease[l].tenant = t

ReadLeases(r) ==
    /\ req[r].pc = "unitRead"
    /\ req' = [req EXCEPT ![r] = IF HoldsLease(@.t) THEN Idle
                                 ELSE [@ EXCEPT !.pc = "createChecked"]]
    /\ UNCHANGED <<rows, papers, object, held>>

IsNextNumber(table, n) ==
    /\ n \in Leases
    /\ \A k \in Leases : k >= n => table[k] = 0
    /\ n > 1 => table[n - 1] # 0

\* MUTANT of InsertLease: MAX(code) read without the table lock.
InsertLeaseUnlocked(r) ==
    /\ req[r].pc = "createChecked"
    /\ \E l \in Leases :
          /\ IsNextCode(lease, l)
          /\ req' = [req EXCEPT ![r].pc = "leaseInserted", ![r].l = l]
    /\ UNCHANGED <<rows, papers, object, held>>

\* The lease and its invoice get the next codes under the locks on their
\* tables, which are held until the transaction ends.
InsertLease(r) ==
    /\ req[r].pc = "createChecked"
    /\ Acquire(r, Wants(r))
    /\ \E l \in Leases :
          /\ IsNextCode(lease, l)
          /\ req' = [req EXCEPT ![r].pc = "leaseInserted", ![r].l = l]
    /\ UNCHANGED <<rows, papers, object>>

InsertInvoice(r) ==
    /\ req[r].pc = "leaseInserted"
    /\ Acquire(r, Wants(r))
    /\ \E i \in Leases :
          /\ IsNextNumber(invoice, i)
          /\ req' = [req EXCEPT ![r].pc = "invoiceInserted", ![r].inv = i]
    /\ UNCHANGED <<rows, papers, object>>

OccupyUnit(r) == Statement(r, "invoiceInserted", "unitOccupied")

OccupyTenant(r) == Statement(r, "unitOccupied", "tenantHoused")

\* MUTANT of StoreAgreement: the row inserted through the injected
\* repository, outside the transaction.
StoreOutside(r) ==
    /\ req[r].pc = "tenantHoused"
    /\ Acquire(r, Wants(r))
    /\ \E d \in Leases :
          /\ IsNextNumber(document, d)
          /\ req' = [req EXCEPT ![r].pc = "agreementStored", ![r].doc = d]
          /\ object' = [object EXCEPT ![d] = req[r].l]
          /\ document' = [document EXCEPT ![d] = req[r].l]
    /\ UNCHANGED <<rows, invoice>>

\* generateLeaseAgreement: the PDF goes to the bucket before its row is
\* inserted, under a key made of the document code just allocated.
StoreAgreement(r) ==
    /\ req[r].pc = "tenantHoused"
    /\ Acquire(r, Wants(r))
    /\ \E d \in Leases :
          /\ IsNextNumber(document, d)
          /\ req' = [req EXCEPT ![r].pc = "agreementStored", ![r].doc = d]
          /\ object' = [object EXCEPT ![d] = req[r].l]
    /\ UNCHANGED <<rows, papers>>

\* The unique indexes on the three code columns.
CodesFree(q) == lease[q.l].status = "none" /\ invoice[q.inv] = 0 /\ document[q.doc] = 0

CommitLease(r) ==
    LET q == req[r] IN
    /\ q.pc = "agreementStored"
    /\ CodesFree(q)
    /\ lease' = [lease EXCEPT ![q.l] = NewLease(q.t, q.u)]
    /\ invoice' = [invoice EXCEPT ![q.inv] = q.l]
    /\ document' = [document EXCEPT ![q.doc] = q.l]
    /\ unit' = [unit EXCEPT ![q.u] = Occupied(q.t)]
    /\ tenant' = [tenant EXCEPT ![q.t] = Housed(q.u)]
    /\ Answer(r)
    /\ UNCHANGED object
-----------------------------------------------------------------------------
(***************************************************************************)
(* POST /leases/:code/terminate: LeasesService.terminate.                  *)
(***************************************************************************)
ReadLease(r, l) ==
    /\ Live(lease[l])
    /\ Begin(r, "terminate", [Idle EXCEPT !.pc = "leaseRead", !.l = l,
                                          !.t = lease[l].tenant, !.u = lease[l].unit])

EndLease(r) == Statement(r, "leaseRead", "leaseEnded")

VacateUnit(r) == Statement(r, "leaseEnded", "unitVacated")

VacateTenant(r) == Statement(r, "unitVacated", "tenantVacated")

CommitTermination(r) ==
    LET q == req[r] IN
    /\ q.pc = "tenantVacated"
    /\ lease' = [lease EXCEPT ![q.l] = EndedLease(@)]
    /\ unit' = [unit EXCEPT ![q.u] = Vacant]
    /\ tenant' = [tenant EXCEPT ![q.t] = MovedOut]
    /\ Answer(r)
    /\ UNCHANGED <<papers, object>>
-----------------------------------------------------------------------------
(***************************************************************************)
(* POST /tenants/:code/blacklist: TenantsService.blacklist.  The unit it   *)
(* vacates is the one read before the transaction.                         *)
(***************************************************************************)
ReadOffender(r, t) ==
    /\ tenant[t].status \notin {"none", "blacklisted"}
    /\ Begin(r, "blacklist",
             [Idle EXCEPT !.pc = IF tenant[t].unit = NoUnit THEN "offenderMoved" ELSE "offenderRead",
                          !.t = t, !.u = tenant[t].unit])

MoveOffender(r) == Statement(r, "offenderRead", "offenderMoved")

MarkOffender(r) == Statement(r, "offenderMoved", "offenderMarked")

CommitBlacklist(r) ==
    LET q == req[r] IN
    /\ q.pc = "offenderMarked"
    /\ unit' = IF q.u = NoUnit THEN unit ELSE [unit EXCEPT ![q.u] = Vacant]
    /\ tenant' = [tenant EXCEPT ![q.t] = Blacklisted]
    /\ Answer(r)
    /\ UNCHANGED <<lease, papers, object>>
-----------------------------------------------------------------------------
(***************************************************************************)
(* POST /tenants: TenantsService.create.                                   *)
(***************************************************************************)
GiveProspect(r, t) ==
    /\ tenant[t].status = "none"
    /\ \A s \in Requests : req[s].pc \in {"prospectGiven", "prospectInserted"} => req[s].t # t
    /\ Begin(r, "onboard", [Idle EXCEPT !.pc = "prospectGiven", !.t = t])

InsertProspect(r) == Statement(r, "prospectGiven", "prospectInserted")

CommitProspect(r) ==
    /\ req[r].pc = "prospectInserted"
    /\ tenant' = [tenant EXCEPT ![req[r].t] = Prospect]
    /\ Answer(r)
    /\ UNCHANGED <<lease, unit, papers, object>>
-----------------------------------------------------------------------------
(***************************************************************************)
(* PATCH of a unit, a tenant or a lease: the entity is loaded, its fields  *)
(* are assigned, and repository.save reads the row once more, compares it  *)
(* with the entity and updates the columns that differ.  The fields of the *)
(* request are not modelled; the columns below are written because they    *)
(* changed between the two reads.                                          *)
(***************************************************************************)
Differing(stale, row) == {c \in DOMAIN row : stale[c] # row[c]}

Merged(row, stale, cols) == [c \in DOMAIN row |-> IF c \in cols THEN stale[c] ELSE row[c]]

Compare(r, from, to, row) ==
    /\ req[r].pc = from
    /\ req' = [req EXCEPT ![r].pc = to, ![r].cols = Differing(req[r].row, row)]
    /\ UNCHANGED <<rows, papers, object, held>>

LoadUnit(r, u) ==
    Begin(r, "patchUnit", [Idle EXCEPT !.pc = "unitLoaded", !.u = u, !.row = unit[u]])

LoadTenant(r, t) ==
    /\ tenant[t].status # "none"
    /\ Begin(r, "patchTenant", [Idle EXCEPT !.pc = "tenantLoaded", !.t = t, !.row = tenant[t]])

LoadLease(r, l) ==
    /\ Live(lease[l])
    /\ Begin(r, "patchLease", [Idle EXCEPT !.pc = "leaseLoaded", !.l = l, !.row = lease[l]])

CompareUnit(r) == Compare(r, "unitLoaded", "unitDiffed", unit[req[r].u])

CompareTenant(r) == Compare(r, "tenantLoaded", "tenantDiffed", tenant[req[r].t])

CompareLease(r) == Compare(r, "leaseLoaded", "leaseDiffed", lease[req[r].l])

\* One UPDATE in a transaction of its own: it waits for the row and commits.
Update(r, from) ==
    /\ req[r].pc = from
    /\ Grantable(r, Wants(r))
    /\ req' = [req EXCEPT ![r] = Idle]
    /\ UNCHANGED <<papers, object, held>>

SaveUnit(r) ==
    /\ Update(r, "unitDiffed")
    /\ unit' = [unit EXCEPT ![req[r].u] = Merged(@, req[r].row, req[r].cols)]
    /\ UNCHANGED <<lease, tenant>>

SaveTenant(r) ==
    /\ Update(r, "tenantDiffed")
    /\ tenant' = [tenant EXCEPT ![req[r].t] = Merged(@, req[r].row, req[r].cols)]
    /\ UNCHANGED <<lease, unit>>

SaveLease(r) ==
    /\ Update(r, "leaseDiffed")
    /\ lease' = [lease EXCEPT ![req[r].l] = Merged(@, req[r].row, req[r].cols)]
    /\ UNCHANGED <<unit, tenant>>
-----------------------------------------------------------------------------
\* Any request in flight may fail at any of its awaits.
Fail(r) ==
    /\ req[r].pc # "idle"
    /\ Answer(r)
    /\ UNCHANGED <<rows, papers, object>>

Arrive(r) ==
    \/ \E t \in Tenants : ReadOffender(r, t) \/ GiveProspect(r, t) \/ LoadTenant(r, t)
    \/ \E t \in Tenants, u \in Units : ReadTenant(r, t, u)
    \/ \E u \in Units : LoadUnit(r, u)
    \/ \E l \in Leases : ReadLease(r, l) \/ LoadLease(r, l)

Advance(r) ==
    \/ ReadUnit(r) \/ ReadLeases(r) \/ InsertLease(r) \/ InsertInvoice(r) \/ OccupyUnit(r)
    \/ OccupyTenant(r) \/ StoreAgreement(r) \/ CommitLease(r)
    \/ EndLease(r) \/ VacateUnit(r) \/ VacateTenant(r) \/ CommitTermination(r)
    \/ MoveOffender(r) \/ MarkOffender(r) \/ CommitBlacklist(r)
    \/ InsertProspect(r) \/ CommitProspect(r)
    \/ CompareUnit(r) \/ SaveUnit(r) \/ CompareTenant(r) \/ SaveTenant(r)
    \/ CompareLease(r) \/ SaveLease(r)

Next == \E r \in Requests : Arrive(r) \/ Advance(r) \/ Fail(r)

\* A statement that waits for a lock is granted it in the end: PostgreSQL
\* queues waiters, and every transaction ends.  Other statements just run.
Fairness == \A r \in Requests : SF_vars(Advance(r))

Spec == Init /\ [][Next]_vars

FairSpec == Spec /\ Fairness
-----------------------------------------------------------------------------
\* With one request in flight at a time, every commit is one atomic operation
\* of Occupancy and every other step, a failure or a PATCH included, changes
\* nothing there.
ImplementsOccupancy == Occ!Spec

\* All or nothing: a lease created here has exactly one invoice and exactly
\* one agreement, the agreement's object in the bucket is the lease's own,
\* and no invoice or agreement is of a lease that was not created, whichever
\* statement or upload fails.
LeaseIsWhole ==
    /\ \A l \in Leases : lease[l].status # "none" /\ l > SeedLeases =>
          /\ Cardinality({i \in Leases : invoice[i] = l}) = 1
          /\ Cardinality({d \in Leases : document[d] = l}) = 1
    /\ \A n \in Leases :
          /\ invoice[n] # 0 => lease[invoice[n]].status # "none"
          /\ document[n] # 0 => lease[document[n]].status # "none" /\ object[n] = document[n]

\* The codes a creation allocated are still free when it commits, so the
\* unique indexes never refuse a lease, an invoice or a document: the lock on
\* each table covers the reading of MAX(code) and the insert.
CodesAreFree == \A r \in Requests : req[r].pc = "agreementStored" => CodesFree(req[r])

\* No set of requests waits in a circle: the handlers take their locks in the
\* order leases, invoices, units, tenants, documents.
WaitsFor(r, s) == r # s /\ Conflict(Wants(r), held[s])

NoDeadlock ==
    \A S \in (SUBSET Requests) \ {{}} : ~ \A r \in S : \E s \in S : WaitsFor(r, s)

\* Every request that starts is answered: no lock is kept for ever.
EveryRequestEnds == \A r \in Requests : req[r].pc # "idle" ~> req[r].pc = "idle"

\* LeasesService.create's comment: a creation validates that the tenant is
\* not already leased elsewhere.  Two concurrent creations both pass the
\* check before either commits.
OneLiveLeasePerTenant == Occ!OneLiveLeasePerTenant

\* ARCHITECTURE.md section 8: PATCH of a unit or a tenant cannot touch the
\* occupancy fields.  The save writes back whatever columns changed between
\* its two reads.
EditsLeaveOccupancy ==
    [][(\E r \in Requests : SaveUnit(r) \/ SaveTenant(r)) => UNCHANGED rows]_vars
=============================================================================
