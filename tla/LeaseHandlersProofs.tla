-------------------------- MODULE LeaseHandlersProofs --------------------------
(***************************************************************************)
(* What the interleaved letting handlers keep, for any number of tenants,  *)
(* units, leases and requests in flight.  The argument is about locks: a   *)
(* code is computed and used under the lock of its table, and every        *)
(* handler takes its locks in the order leases, invoices, units, tenants,  *)
(* documents.                                                              *)
(***************************************************************************)
EXTENDS LeaseHandlers, FiniteSetTheorems, TLAPS

RowsAreWhole ==
    \A l \in Leases : lease[l].status # "none" =>
       lease[l].tenant \in Tenants /\ lease[l].unit \in Units

TablesTyped ==
    /\ lease \in [Leases -> LeaseRow]
    /\ unit \in [Units -> UnitRow]
    /\ tenant \in [Tenants -> TenantRow]
    /\ RowsAreWhole

\* The seeded rows of the leases table name a tenant and a unit.
LEMMA LeasesStart ==
    ASSUME Occ!Init
    PROVE  lease \in [Leases -> LeaseRow] /\ RowsAreWhole
  <1>1. PICK s \in [1..SeedLeases -> [tenant : Tenants, unit : Units, status : LeaseStatus]] :
           lease = [l \in Leases |-> IF l <= SeedLeases THEN s[l] ELSE NoLease]
    BY DEF Occ!Init, Occ!SeedTables, Occ!LeaseStatus, Occ!Leases, Occ!NoLease, LeaseStatus, Leases,
           NoLease
  <1>2. ASSUME NEW l \in Leases
        PROVE  /\ lease[l] \in LeaseRow
               /\ lease[l].status # "none" => lease[l].tenant \in Tenants /\ lease[l].unit \in Units
    <2>1. CASE l <= SeedLeases
      <3>1. l \in 1..SeedLeases
        BY <2>1, LeaseAssumption DEF Leases
      <3>2. lease[l] = s[l] /\ s[l] \in [tenant : Tenants, unit : Units, status : LeaseStatus]
        BY <1>1, <2>1, <3>1
      <3> QED BY <3>2 DEF LeaseRow, LeaseStatus
    <2>2. CASE ~(l <= SeedLeases)
      <3>1. lease[l] = NoLease
        BY <1>1, <2>2
      <3> QED BY <3>1 DEF LeaseRow, NoLease
    <2> QED BY <2>1, <2>2
  <1>3. lease = [l \in Leases |-> lease[l]]
    BY <1>1
  <1> QED BY <1>2, <1>3 DEF RowsAreWhole

\* The seeded occupants are named by live leases.
LEMMA TablesStart ==
    ASSUME Occ!Init
    PROVE  TablesTyped
  <1>1. lease \in [Leases -> LeaseRow] /\ RowsAreWhole
    BY LeasesStart
  <1>2. ASSUME NEW u \in Units PROVE Occ!SeedUnit(u) \in UnitRow
    <2>1. CASE \E l \in Leases : Live(lease[l]) /\ lease[l].unit = u
      <3>1. PICK l \in Leases : Live(lease[l]) /\ Occ!SeedUnit(u) = Occupied(lease[l].tenant)
        BY <2>1 DEF Occ!SeedUnit, Occ!LiveOn, Occ!Live, Occ!Leases, Occ!Occupied, Live, Leases, Occupied
      <3>2. lease[l].tenant \in Tenants
        BY <1>1, <3>1 DEF RowsAreWhole, Live
      <3> QED BY <3>1, <3>2 DEF UnitRow, UnitStatus, Occupied
    <2>2. CASE ~ \E l \in Leases : Live(lease[l]) /\ lease[l].unit = u
      <3>1. Occ!SeedUnit(u) = Vacant
        BY <2>2 DEF Occ!SeedUnit, Occ!LiveOn, Occ!Live, Occ!Leases, Occ!Vacant, Live, Leases, Vacant
      <3> QED BY <3>1 DEF UnitRow, UnitStatus, Vacant
    <2> QED BY <2>1, <2>2
  <1>3. unit \in [Units -> UnitRow]
    BY <1>2 DEF Occ!Init
  <1>4. tenant \in [Tenants -> TenantRow]
    BY DEF Occ!Init, Occ!TenantRow, Occ!TenantStatus, TenantRow, TenantStatus
  <1> QED BY <1>1, <1>3, <1>4 DEF TablesTyped
-----------------------------------------------------------------------------
(***************************************************************************)
(* The order of the locks.                                                 *)
(***************************************************************************)
Rank == [leases |-> 1, invoices |-> 2, units |-> 3, tenants |-> 4, documents |-> 5]

\* Where a handler is: the rank of the last table it has locked.
Level == [idle |-> 0,
          tenantRead |-> 0, unitRead |-> 0, createChecked |-> 0, leaseInserted |-> 1,
          invoiceInserted |-> 2, unitOccupied |-> 3, tenantHoused |-> 4, agreementStored |-> 5,
          leaseRead |-> 0, leaseEnded |-> 1, unitVacated |-> 3, tenantVacated |-> 4,
          offenderRead |-> 0, offenderMoved |-> 3, offenderMarked |-> 4,
          prospectGiven |-> 0, prospectInserted |-> 4,
          unitLoaded |-> 0, unitDiffed |-> 0, tenantLoaded |-> 0, tenantDiffed |-> 0,
          leaseLoaded |-> 0, leaseDiffed |-> 0]

\* The table a handler's next statement is for.
NextTable == [createChecked |-> "leases", leaseInserted |-> "invoices",
              invoiceInserted |-> "units", unitOccupied |-> "tenants",
              tenantHoused |-> "documents",
              leaseRead |-> "leases", leaseEnded |-> "units", unitVacated |-> "tenants",
              offenderRead |-> "units", offenderMoved |-> "tenants",
              prospectGiven |-> "tenants",
              unitDiffed |-> "units", tenantDiffed |-> "tenants", leaseDiffed |-> "leases"]

Numbered == {"leaseInserted", "invoiceInserted", "unitOccupied", "tenantHoused", "agreementStored"}

Invoiced == Numbered \ {"leaseInserted"}

\* The locks h are those of a handler that is at pc.
HoldsRight(pc, h) ==
    /\ pc \in Numbered => "leases" \in h.sre
    /\ pc \in Invoiced => "invoices" \in h.sre
    /\ pc = "agreementStored" => "documents" \in h.sre
    /\ \A tab \in h.sre \cup h.rx : Rank[tab] <= Level[pc]
    /\ \A row \in h.rows : \/ row \in Leases /\ "leases" \in h.rx
                           \/ row \in Units /\ "units" \in h.rx
                           \/ row \in Tenants /\ "tenants" \in h.rx

LocksInv ==
    /\ LocksTypeOK
    /\ LocksExclude
    /\ \A r \in Requests : HoldsRight(req[r].pc, held[r])

Others(r) == \A s \in Requests \ {r} : req'[s] = req[s]

LEMMA KeepLocks ==
    ASSUME LocksInv, NEW r \in Requests, Others(r), held' = held,
           HoldsRight(req'[r].pc, held[r])
    PROVE  LocksInv'
  <1>1. ASSUME NEW s \in Requests PROVE HoldsRight(req'[s].pc, held'[s])
    BY DEF LocksInv, Others
  <1>2. LocksTypeOK' /\ LocksExclude'
    BY DEF LocksInv, LocksTypeOK, LocksExclude
  <1> QED BY <1>1, <1>2 DEF LocksInv, HoldsRight

LEMMA NothingHeldIsRight ==
    ASSUME NEW pc, pc \notin Numbered
    PROVE  HoldsRight(pc, NoLocks)
  BY DEF HoldsRight, NoLocks, Numbered, Invoiced

LEMMA ReleaseKeepsLocks ==
    ASSUME LocksInv, NEW r \in Requests, Others(r), Release(r), req'[r].pc \notin Numbered
    PROVE  LocksInv'
  <1>1. /\ held' \in [Requests -> LockSet]
        /\ held'[r] = NoLocks
        /\ \A s \in Requests \ {r} : held'[s] = held[s]
    BY DEF LocksInv, Release, LocksTypeOK, LockSet, NoLocks
  <1>2. ASSUME NEW c \in Requests, NEW d \in Requests, c # d
        PROVE  ~Conflict(held'[c], held'[d])
    <2>1. CASE c = r \/ d = r
      BY <1>1, <2>1 DEF Conflict, NoLocks
    <2>2. CASE c # r /\ d # r
      BY <1>1, <1>2, <2>2 DEF LocksInv, LocksExclude
    <2> QED BY <2>1, <2>2
  <1>3. ASSUME NEW s \in Requests PROVE HoldsRight(req'[s].pc, held'[s])
    <2>1. CASE s = r
      BY <1>1, <2>1, NothingHeldIsRight
    <2>2. CASE s # r
      BY <1>1, <2>2 DEF LocksInv, Others
    <2> QED BY <2>1, <2>2
  <1> QED BY <1>1, <1>2, <1>3 DEF LocksInv, LocksTypeOK, LocksExclude, HoldsRight

LEMMA AcquireKeepsLocks ==
    ASSUME LocksInv, NEW r \in Requests, NEW want \in LockSet, Others(r), Acquire(r, want),
           HoldsRight(req'[r].pc, [sre  |-> held[r].sre \cup want.sre,
                                   rx   |-> held[r].rx \cup want.rx,
                                   rows |-> held[r].rows \cup want.rows])
    PROVE  LocksInv'
  <1>1. held \in [Requests -> LockSet]
    BY DEF LocksInv, LocksTypeOK
  <1>2. /\ held'[r] = [sre  |-> held[r].sre \cup want.sre,
                       rx   |-> held[r].rx \cup want.rx,
                       rows |-> held[r].rows \cup want.rows]
        /\ \A s \in Requests \ {r} : held'[s] = held[s]
    BY <1>1 DEF Acquire
  <1>3. held' \in [Requests -> LockSet]
    <2>1. held'[r] \in LockSet
      BY <1>1, <1>2 DEF LockSet
    <2> QED BY <1>1, <1>2, <2>1 DEF Acquire
  <1>4. ASSUME NEW c \in Requests, NEW d \in Requests, c # d
        PROVE  ~Conflict(held'[c], held'[d])
    <2>1. ASSUME NEW s \in Requests \ {r}
          PROVE  ~Conflict(want, held[s]) /\ ~Conflict(held[s], held[r]) /\ ~Conflict(held[r], held[s])
      BY DEF Acquire, Grantable, LocksInv, LocksExclude
    <2>2. CASE c = r
      BY <1>2, <1>4, <2>1, <2>2 DEF Conflict
    <2>3. CASE d = r
      BY <1>2, <1>4, <2>1, <2>3 DEF Conflict
    <2>4. CASE c # r /\ d # r
      BY <1>2, <1>4, <2>4 DEF LocksInv, LocksExclude
    <2> QED BY <2>2, <2>3, <2>4
  <1>5. ASSUME NEW s \in Requests PROVE HoldsRight(req'[s].pc, held'[s])
    <2>1. CASE s = r
      BY <1>2, <2>1
    <2>2. CASE s # r
      BY <1>2, <2>2 DEF LocksInv, Others
    <2> QED BY <2>1, <2>2
  <1> QED BY <1>3, <1>4, <1>5 DEF LocksInv, LocksTypeOK, LocksExclude, HoldsRight
-----------------------------------------------------------------------------
(***************************************************************************)
(* What a handler remembers, by where it is.                               *)
(***************************************************************************)
Creations == {"tenantRead", "unitRead", "createChecked"} \cup Numbered

Terminations == {"leaseRead", "leaseEnded", "unitVacated", "tenantVacated"}

Blacklistings == {"offenderRead", "offenderMoved", "offenderMarked"}

LetRow == [tenant : Tenants, unit : Units, status : LeaseStatus]

Remembers(q) ==
    /\ q.pc = "idle" => q = Idle
    /\ q.pc \in Creations => q.t \in Tenants /\ q.u \in Units
    /\ q.pc \in Numbered => q.l \in Leases /\ lease[q.l].status = "none"
    /\ q.pc \in Invoiced => q.inv \in Leases /\ invoice[q.inv] = 0
    /\ q.pc = "agreementStored" => q.doc \in Leases /\ document[q.doc] = 0 /\ object[q.doc] = q.l
    /\ q.pc \in Terminations =>
          q.l \in Leases /\ lease[q.l].status # "none" /\ q.t \in Tenants /\ q.u \in Units
    /\ q.pc \in Blacklistings => q.t \in Tenants /\ q.u \in Units \cup {NoUnit}
    /\ q.pc = "offenderRead" => q.u \in Units
    /\ q.pc \in {"prospectGiven", "prospectInserted"} => q.t \in Tenants
    /\ q.pc \in {"unitLoaded", "unitDiffed"} => q.u \in Units /\ q.row \in UnitRow
    /\ q.pc \in {"tenantLoaded", "tenantDiffed"} => q.t \in Tenants /\ q.row \in TenantRow
    /\ q.pc \in {"leaseLoaded", "leaseDiffed"} =>
          q.l \in Leases /\ lease[q.l].status # "none" /\ q.row \in LetRow

Formed(q) ==
    /\ DOMAIN q = DOMAIN Idle
    /\ q.pc \in DOMAIN Level

\* LeaseIsWhole, with its cardinalities spelt out.
Papers ==
    /\ \A l \in Leases : lease[l].status # "none" /\ l > SeedLeases =>
          /\ \E i \in Leases : \A k \in Leases : invoice[k] = l <=> k = i
          /\ \E d \in Leases : \A k \in Leases : document[k] = l <=> k = d
    /\ \A n \in Leases :
          /\ invoice[n] # 0 => lease[invoice[n]].status # "none"
          /\ document[n] # 0 => lease[document[n]].status # "none" /\ object[n] = document[n]

LettingInv ==
    /\ TablesTyped
    /\ {invoice, document, object} \subseteq [Leases -> Leases \cup {0}]
    /\ Papers
    /\ req = [r \in Requests |-> req[r]]
    /\ \A r \in Requests : Formed(req[r]) /\ Remembers(req[r])

LEMMA MovesOn ==
    ASSUME LettingInv, NEW r \in Requests, UNCHANGED <<rows, papers, object>>,
           req' = [s \in Requests |-> req'[s]], Others(r), Formed(req'[r]), Remembers(req'[r])
    PROVE  LettingInv'
  <1>1. UNCHANGED <<lease, unit, tenant, invoice, document, object>>
    BY DEF rows, papers
  <1>2. ASSUME NEW s \in Requests PROVE Formed(req'[s]) /\ Remembers(req[s])'
    <2>1. CASE s = r
      BY <1>1, <2>1 DEF Remembers
    <2>2. CASE s # r
      BY <1>1, <2>2 DEF Others, LettingInv, Remembers
    <2> QED BY <2>1, <2>2
  <1>3. TablesTyped' /\ Papers' /\ {invoice', document', object'} \subseteq [Leases -> Leases \cup {0}]
    BY <1>1 DEF LettingInv, TablesTyped, RowsAreWhole, Papers
  <1> QED BY <1>2, <1>3 DEF LettingInv, Formed

\* The row that a PATCH or a termination locks, and the lock of a table.
LEMMA WantsNext ==
    ASSUME LettingInv, NEW r \in Requests, NEW pc, pc = req[r].pc
    PROVE  /\ pc \notin DOMAIN NextTable => Wants(r) = NoLocks
           /\ pc \in {"createChecked", "leaseInserted", "tenantHoused"} =>
                 Wants(r) = TableLock(NextTable[pc])
           /\ pc \in {"invoiceInserted", "unitVacated", "leaseEnded", "unitOccupied",
                      "offenderRead", "offenderMoved", "unitDiffed", "tenantDiffed"} =>
                 \E row \in IF NextTable[pc] = "units" THEN Units ELSE Tenants :
                    Wants(r) = RowUpdate(NextTable[pc], row)
           /\ pc \in {"leaseRead", "leaseDiffed"} =>
                 \E row \in Leases : Wants(r) = RowUpdate("leases", row)
           /\ pc = "prospectGiven" => Wants(r) = TableLock("tenants")
  <1> DEFINE q == req[r]
  <1>1. Remembers(q) /\ Formed(q)
    BY DEF LettingInv
  <1> HIDE DEF q
  <1>2. Wants(r) = CASE q.pc \in {"createChecked", "leaseInserted", "invoiceInserted", "unitOccupied",
                                  "tenantHoused"} -> CreateWants(q)
                     [] q.pc \in {"leaseRead", "leaseEnded", "unitVacated"} -> TerminateWants(q)
                     [] q.pc \in {"offenderRead", "offenderMoved"} -> BlacklistWants(q)
                     [] q.pc = "prospectGiven" -> TableLock("tenants")
                     [] q.pc \in {"unitDiffed", "tenantDiffed", "leaseDiffed"} -> SaveWants(q)
                     [] OTHER -> NoLocks
    BY DEF Wants, q
  <1>3. pc = q.pc
    BY DEF q
  <1>4. pc \notin DOMAIN NextTable => Wants(r) = NoLocks
    BY <1>2, <1>3 DEF NextTable
  <1>5. pc \in {"createChecked", "leaseInserted", "tenantHoused"} =>
           Wants(r) = TableLock(NextTable[pc])
    BY <1>2, <1>3 DEF NextTable, CreateWants
  <1>6. /\ pc \in {"invoiceInserted", "leaseEnded", "offenderRead", "unitDiffed"} =>
              NextTable[pc] = "units" /\ q.u \in Units /\ Wants(r) = RowUpdate("units", q.u)
        /\ pc \in {"unitOccupied", "unitVacated", "offenderMoved", "tenantDiffed"} =>
              NextTable[pc] = "tenants" /\ q.t \in Tenants /\ Wants(r) = RowUpdate("tenants", q.t)
        /\ pc \in {"leaseRead", "leaseDiffed"} =>
              q.l \in Leases /\ Wants(r) = RowUpdate("leases", q.l)
        /\ pc = "prospectGiven" => Wants(r) = TableLock("tenants")
    BY <1>1, <1>2, <1>3 DEF NextTable, CreateWants, TerminateWants, BlacklistWants, SaveWants,
          Remembers, Creations, Terminations, Blacklistings, Numbered
  <1> QED BY <1>4, <1>5, <1>6

\* Where a statement that waited for its locks leaves its handler.
After == [createChecked |-> "leaseInserted", leaseInserted |-> "invoiceInserted",
          invoiceInserted |-> "unitOccupied", unitOccupied |-> "tenantHoused",
          tenantHoused |-> "agreementStored",
          leaseRead |-> "leaseEnded", leaseEnded |-> "unitVacated", unitVacated |-> "tenantVacated",
          offenderRead |-> "offenderMoved", offenderMoved |-> "offenderMarked",
          prospectGiven |-> "prospectInserted"]

LEMMA StatementsGoUp ==
    ASSUME NEW pc \in DOMAIN After
    PROVE  /\ pc \in DOMAIN NextTable /\ NextTable[pc] \in DOMAIN Rank
           /\ Rank[NextTable[pc]] <= Level[After[pc]] /\ Level[pc] <= Level[After[pc]]
           /\ Level[pc] \in 0..5 /\ Level[After[pc]] \in 0..5
           /\ After[pc] \in Numbered => pc \in Numbered \/ pc = "createChecked"
           /\ After[pc] \in Invoiced => pc \in Invoiced \/ pc = "leaseInserted"
           /\ After[pc] = "agreementStored" => pc = "tenantHoused"
  <1>1. pc \in {"createChecked", "leaseInserted", "invoiceInserted", "unitOccupied", "tenantHoused",
                "leaseRead", "leaseEnded", "unitVacated", "offenderRead", "offenderMoved",
                "prospectGiven"}
    BY DEF After
  <1> QED BY <1>1 DEF After, NextTable, Rank, Level, Numbered, Invoiced

LEMMA StatementKeepsLocks ==
    ASSUME LocksInv, LettingInv, NEW r \in Requests, Others(r), Acquire(r, Wants(r)),
           req[r].pc \in DOMAIN After, req'[r].pc = After[req[r].pc]
    PROVE  LocksInv'
  <1> DEFINE pc == req[r].pc
             want == Wants(r)
             h == [sre  |-> held[r].sre \cup want.sre,
                   rx   |-> held[r].rx \cup want.rx,
                   rows |-> held[r].rows \cup want.rows]
  <1>1. /\ pc \in DOMAIN NextTable /\ NextTable[pc] \in DOMAIN Rank
        /\ Rank[NextTable[pc]] <= Level[After[pc]] /\ Level[pc] <= Level[After[pc]]
        /\ Level[pc] \in 0..5 /\ Level[After[pc]] \in 0..5
        /\ After[pc] \in Numbered => pc \in Numbered \/ pc = "createChecked"
        /\ After[pc] \in Invoiced => pc \in Invoiced \/ pc = "leaseInserted"
        /\ After[pc] = "agreementStored" => pc = "tenantHoused"
    BY StatementsGoUp
  <1>2. \/ want = TableLock(NextTable[pc])
        \/ /\ pc \notin {"createChecked", "leaseInserted", "tenantHoused"}
           /\ \E row \in CASE NextTable[pc] = "units" -> Units
                           [] NextTable[pc] = "tenants" -> Tenants
                           [] NextTable[pc] = "leases" -> Leases :
                 want = RowUpdate(NextTable[pc], row)
    BY WantsNext DEF After, NextTable
  <1>3. pc \in {"createChecked", "leaseInserted", "tenantHoused"} =>
           want = TableLock(NextTable[pc])
    BY WantsNext
  <1>4. NextTable[pc] \in {"leases", "invoices", "units", "tenants", "documents"}
    BY <1>1 DEF Rank
  <1>5. pc \in {"createChecked", "leaseInserted", "tenantHoused"} \/
        NextTable[pc] \in {"leases", "units", "tenants"}
    BY DEF After, NextTable
  <1>6. want \in LockSet
    BY <1>2, <1>3, <1>4, <1>5 DEF LockSet, TableLock, RowUpdate
  <1>7. HoldsRight(pc, held[r]) /\ held[r] \in LockSet
    BY DEF LocksInv, LocksTypeOK
  <1>8. HoldsRight(After[pc], h)
    <2>1. After[pc] \in Numbered => "leases" \in h.sre
      BY <1>1, <1>3, <1>7 DEF HoldsRight, TableLock, NextTable
    <2>2. After[pc] \in Invoiced => "invoices" \in h.sre
      BY <1>1, <1>3, <1>7 DEF HoldsRight, TableLock, NextTable
    <2>3. After[pc] = "agreementStored" => "documents" \in h.sre
      BY <1>1, <1>3, <1>7 DEF HoldsRight, TableLock, NextTable
    <2>4. ASSUME NEW tab \in h.sre \cup h.rx PROVE Rank[tab] <= Level[After[pc]]
      <3>1. CASE tab \in held[r].sre \cup held[r].rx
        <4>1. Rank[tab] <= Level[pc] /\ tab \in DOMAIN Rank
          BY <1>7, <3>1 DEF HoldsRight, LockSet, Rank
        <4>2. Rank[tab] \in Nat
          BY <4>1 DEF Rank
        <4> QED BY <1>1, <4>1, <4>2
      <3>2. CASE tab \in want.sre \cup want.rx
        <4>1. tab = NextTable[pc]
          BY <1>2, <3>2 DEF TableLock, RowUpdate
        <4> QED BY <1>1, <4>1
      <3> QED BY <2>4, <3>1, <3>2
    <2>5. ASSUME NEW row \in h.rows
          PROVE  \/ row \in Leases /\ "leases" \in h.rx
                 \/ row \in Units /\ "units" \in h.rx
                 \/ row \in Tenants /\ "tenants" \in h.rx
      <3>1. CASE row \in held[r].rows
        BY <1>7, <3>1 DEF HoldsRight
      <3>2. CASE row \in want.rows
        BY <1>2, <1>5, <3>2 DEF TableLock, RowUpdate
      <3> QED BY <2>5, <3>1, <3>2
    <2> QED BY <2>1, <2>2, <2>3, <2>4, <2>5 DEF HoldsRight
  <1>9. HoldsRight(req'[r].pc, h)
    BY <1>8
  <1> QED BY <1>6, <1>9, AcquireKeepsLocks

\* Nothing is locked before the first statement of a transaction.
LEMMA NothingHeldYet ==
    ASSUME LocksInv, NEW r \in Requests, Others(r), held' = held,
           req[r].pc \in DOMAIN Level, Level[req[r].pc] = 0,
           req'[r].pc \in DOMAIN Level \ Numbered
    PROVE  LocksInv'
  <1>1. HoldsRight(req[r].pc, held[r]) /\ held[r] \in LockSet
    BY DEF LocksInv, LocksTypeOK
  <1>2. held[r].sre \cup held[r].rx = {}
    <2>1. ASSUME NEW tab \in held[r].sre \cup held[r].rx PROVE FALSE
      <3>1. Rank[tab] <= 0 /\ tab \in DOMAIN Rank
        BY <1>1 DEF HoldsRight, LockSet, Rank
      <3> QED BY <3>1 DEF Rank
    <2> QED BY <2>1
  <1>3. HoldsRight(req'[r].pc, held[r])
    BY <1>1, <1>2 DEF HoldsRight, Numbered, Invoiced
  <1> QED BY <1>3, KeepLocks

-----------------------------------------------------------------------------
(***************************************************************************)
(* The steps, by what they write.                                          *)
(***************************************************************************)
LEMMA IdleRemembersNothing ==
    Formed(Idle) /\ Remembers(Idle) /\ Remembers(Idle)'
  BY DEF Formed, Remembers, Idle, Level, Creations, Numbered, Invoiced, Terminations, Blacklistings

\* Writing rows of leases that exist, units and tenants leaves the papers,
\* and what the other requests remember, as they are.
LEMMA RowsRewritten ==
    ASSUME LettingInv, NEW r \in Requests, UNCHANGED <<papers, object>>, TablesTyped',
           \A l \in Leases : lease'[l].status = "none" <=> lease[l].status = "none",
           req' = [s \in Requests |-> req'[s]], Others(r), req'[r] = Idle
    PROVE  LettingInv'
  <1>1. UNCHANGED <<invoice, document, object>>
    BY DEF papers
  <1>2. ASSUME NEW s \in Requests PROVE Formed(req'[s]) /\ Remembers(req[s])'
    <2>1. CASE s = r
      BY <2>1, IdleRemembersNothing
    <2>2. CASE s # r
      <3>1. Formed(req[s]) /\ Remembers(req[s]) /\ req'[s] = req[s]
        BY <2>2 DEF LettingInv, Others
      <3>3. Remembers(req[s])'
        BY <1>1, <3>1 DEF Remembers
      <3> QED BY <3>1, <3>3
    <2> QED BY <2>1, <2>2
  <1>3. Papers' /\ {invoice', document', object'} \subseteq [Leases -> Leases \cup {0}]
    <2>1. {invoice, document, object} \subseteq [Leases -> Leases \cup {0}] /\ Papers
      BY DEF LettingInv
    <2>2. \A n \in Leases : invoice[n] \in Leases \cup {0} /\ document[n] \in Leases \cup {0}
      BY <2>1
    <2> QED BY <1>1, <2>1, <2>2 DEF Papers
  <1> QED BY <1>2, <1>3 DEF LettingInv, Formed

LEMMA FailsCleanly ==
    ASSUME LocksInv, LettingInv, NEW r \in Requests, Fail(r)
    PROVE  LocksInv' /\ LettingInv'
  <1>1. req' = [s \in Requests |-> req'[s]] /\ Others(r) /\ req'[r] = Idle
    BY DEF Fail, Answer, LettingInv, Others
  <1>2. LocksInv'
    <2>1. req'[r].pc \notin Numbered
      BY <1>1 DEF Idle, Numbered
    <2> QED BY <1>1, <2>1, ReleaseKeepsLocks DEF Fail, Answer
  <1>3. LettingInv'
    <2>1. UNCHANGED <<rows, papers, object>>
      BY DEF Fail
    <2>2. Remembers(req'[r])
      BY <1>1, IdleRemembersNothing
    <2>3. Formed(req'[r])
      BY <1>1, IdleRemembersNothing
    <2> QED BY <1>1, <2>1, <2>2, <2>3, MovesOn
  <1> QED BY <1>2, <1>3

\* A request that begins has read rows and locked nothing.
LEMMA BeginsClean ==
    ASSUME LocksInv, LettingInv, NEW r \in Requests, NEW op, NEW q, Begin(r, op, q),
           Formed(q), Remembers(q), q.pc \notin Numbered
    PROVE  LocksInv' /\ LettingInv'
  <1>1. req' = [s \in Requests |-> req'[s]] /\ Others(r) /\ req'[r] = q
    BY DEF Begin, LettingInv, Others
  <1>2. UNCHANGED <<rows, papers, object>> /\ held' = held /\ req[r].pc = "idle"
    BY DEF Begin
  <1>3. req'[r].pc \in DOMAIN Level \ Numbered
    BY <1>1 DEF Formed
  <1>4. LocksInv'
    BY <1>1, <1>2, <1>3, NothingHeldYet DEF Level
  <1>5. Formed(req'[r])
    BY <1>1
  <1>6. Remembers(req'[r])
    BY <1>1
  <1> QED BY <1>1, <1>2, <1>4, <1>5, <1>6, MovesOn

LEMMA ArriveKeepsLetting ==
    ASSUME LocksInv, LettingInv, NEW r \in Requests, Arrive(r)
    PROVE  LocksInv' /\ LettingInv'
  <1> USE DEF Level, Creations, Numbered, Invoiced, Terminations, Blacklistings
  <1>1. /\ \A l \in Leases : lease[l] \in LeaseRow
        /\ \A u \in Units : unit[u] \in UnitRow
        /\ \A t \in Tenants : tenant[t] \in TenantRow
        /\ RowsAreWhole
    BY DEF LettingInv, TablesTyped
  <1>2. \A l \in Leases : Live(lease[l]) =>
           lease[l].tenant \in Tenants /\ lease[l].unit \in Units /\ lease[l] \in LetRow
    BY <1>1 DEF RowsAreWhole, Live, LeaseRow, LetRow, LeaseStatus
  <1>3. ASSUME NEW t \in Tenants, ReadOffender(r, t) PROVE LocksInv' /\ LettingInv'
    <2> DEFINE q == [Idle EXCEPT !.pc = IF tenant[t].unit = NoUnit THEN "offenderMoved"
                                        ELSE "offenderRead",
                                 !.t = t, !.u = tenant[t].unit]
    <2>1. tenant[t].unit \in Units \cup {NoUnit}
      BY <1>1 DEF TenantRow
    <2>a. q.pc \in DOMAIN Level \ Numbered
      BY DEF Idle
    <2>b. Formed(q)
      BY <2>a DEF Formed, Idle
    <2>2. Remembers(q)
      BY <2>1, <2>a DEF Remembers, Idle
    <2>3. Begin(r, "blacklist", q)
      BY <1>3 DEF ReadOffender
    <2> HIDE DEF q
    <2> QED BY <2>a, <2>b, <2>2, <2>3, BeginsClean
  <1>4. ASSUME NEW t \in Tenants, GiveProspect(r, t) PROVE LocksInv' /\ LettingInv'
    <2> DEFINE q == [Idle EXCEPT !.pc = "prospectGiven", !.t = t]
    <2>a. q.pc \in DOMAIN Level \ Numbered
      BY DEF Idle
    <2>b. Formed(q)
      BY <2>a DEF Formed, Idle
    <2>1. Remembers(q)
      BY <2>a DEF Remembers, Idle
    <2>2. Begin(r, "onboard", q)
      BY <1>4 DEF GiveProspect
    <2> HIDE DEF q
    <2> QED BY <2>a, <2>b, <2>1, <2>2, BeginsClean
  <1>5. ASSUME NEW t \in Tenants, LoadTenant(r, t) PROVE LocksInv' /\ LettingInv'
    <2> DEFINE q == [Idle EXCEPT !.pc = "tenantLoaded", !.t = t, !.row = tenant[t]]
    <2>a. q.pc \in DOMAIN Level \ Numbered
      BY DEF Idle
    <2>b. Formed(q)
      BY <2>a DEF Formed, Idle
    <2>1. Remembers(q)
      BY <1>1, <2>a DEF Remembers, Idle
    <2>2. Begin(r, "patchTenant", q)
      BY <1>5 DEF LoadTenant
    <2> HIDE DEF q
    <2> QED BY <2>a, <2>b, <2>1, <2>2, BeginsClean
  <1>6. ASSUME NEW t \in Tenants, NEW u \in Units, ReadTenant(r, t, u) PROVE LocksInv' /\ LettingInv'
    <2> DEFINE q == [Idle EXCEPT !.pc = "tenantRead", !.t = t, !.u = u, !.row = tenant[t]]
    <2>a. q.pc \in DOMAIN Level \ Numbered
      BY DEF Idle
    <2>b. Formed(q)
      BY <2>a DEF Formed, Idle
    <2>1. Remembers(q)
      BY <2>a DEF Remembers, Idle
    <2>2. Begin(r, "create", q)
      BY <1>6 DEF ReadTenant
    <2> HIDE DEF q
    <2> QED BY <2>a, <2>b, <2>1, <2>2, BeginsClean
  <1>7. ASSUME NEW u \in Units, LoadUnit(r, u) PROVE LocksInv' /\ LettingInv'
    <2> DEFINE q == [Idle EXCEPT !.pc = "unitLoaded", !.u = u, !.row = unit[u]]
    <2>a. q.pc \in DOMAIN Level \ Numbered
      BY DEF Idle
    <2>b. Formed(q)
      BY <2>a DEF Formed, Idle
    <2>1. Remembers(q)
      BY <1>1, <2>a DEF Remembers, Idle
    <2>2. Begin(r, "patchUnit", q)
      BY <1>7 DEF LoadUnit
    <2> HIDE DEF q
    <2> QED BY <2>a, <2>b, <2>1, <2>2, BeginsClean
  <1>8. ASSUME NEW l \in Leases, ReadLease(r, l) PROVE LocksInv' /\ LettingInv'
    <2> DEFINE q == [Idle EXCEPT !.pc = "leaseRead", !.l = l,
                                 !.t = lease[l].tenant, !.u = lease[l].unit]
    <2>1. lease[l].status # "none" /\ lease[l].tenant \in Tenants /\ lease[l].unit \in Units
      BY <1>2, <1>8 DEF ReadLease, Live
    <2>a. q.pc \in DOMAIN Level \ Numbered
      BY DEF Idle
    <2>b. Formed(q)
      BY <2>a DEF Formed, Idle
    <2>2. Remembers(q)
      BY <2>1, <2>a DEF Remembers, Idle
    <2>3. Begin(r, "terminate", q)
      BY <1>8 DEF ReadLease
    <2> HIDE DEF q
    <2> QED BY <2>a, <2>b, <2>2, <2>3, BeginsClean
  <1>9. ASSUME NEW l \in Leases, LoadLease(r, l) PROVE LocksInv' /\ LettingInv'
    <2> DEFINE q == [Idle EXCEPT !.pc = "leaseLoaded", !.l = l, !.row = lease[l]]
    <2>1. lease[l].status # "none" /\ lease[l] \in LetRow
      BY <1>2, <1>9 DEF LoadLease, Live
    <2>a. q.pc \in DOMAIN Level \ Numbered
      BY DEF Idle
    <2>b. Formed(q)
      BY <2>a DEF Formed, Idle
    <2>2. Remembers(q)
      BY <2>1, <2>a DEF Remembers, Idle
    <2>3. Begin(r, "patchLease", q)
      BY <1>9 DEF LoadLease
    <2> HIDE DEF q
    <2> QED BY <2>a, <2>b, <2>2, <2>3, BeginsClean
  <1> QED BY <1>3, <1>4, <1>5, <1>6, <1>7, <1>8, <1>9 DEF Arrive

\* A read moves its handler on and writes nothing.
LEMMA ReadsWriteNothing ==
    ASSUME LocksInv, LettingInv, NEW r \in Requests, NEW q,
           req' = [req EXCEPT ![r] = q], UNCHANGED <<rows, papers, object, held>>,
           Level[req[r].pc] = 0, Formed(q), Remembers(q), q.pc \notin Numbered
    PROVE  LocksInv' /\ LettingInv'
  <1>1. req' = [s \in Requests |-> req'[s]] /\ Others(r) /\ req'[r] = q
    BY DEF LettingInv, Others
  <1>2. req[r].pc \in DOMAIN Level /\ req'[r].pc \in DOMAIN Level \ Numbered
    BY <1>1 DEF LettingInv, Formed
  <1>3. LocksInv'
    BY <1>1, <1>2, NothingHeldYet
  <1>4. Formed(req'[r])
    BY <1>1
  <1>5. Remembers(req'[r])
    BY <1>1
  <1> QED BY <1>1, <1>3, <1>4, <1>5, MovesOn

LEMMA ReadUnitKeeps ==
    ASSUME LocksInv, LettingInv, NEW r \in Requests, ReadUnit(r)
    PROVE  LocksInv' /\ LettingInv'
  <1> DEFINE q == IF CanLet(r) THEN [req[r] EXCEPT !.pc = "unitRead", !.row = NoRow] ELSE Idle
  <1>1. Formed(req[r]) /\ Remembers(req[r])
    BY DEF LettingInv
  <1>2. req[r].pc = "tenantRead" /\ req' = [req EXCEPT ![r] = q]
    BY DEF ReadUnit, LettingInv
  <1>3. Formed(q) /\ q.pc \notin Numbered
    BY <1>1, IdleRemembersNothing DEF Formed, Level, Idle, Numbered
  <1>4. Remembers(q)
    <2>1. CASE CanLet(r)
      BY <1>1, <1>2, <2>1 DEF Formed, Idle, Remembers, Creations, Numbered, Invoiced, Terminations,
                              Blacklistings
    <2>2. CASE ~CanLet(r)
      BY <2>2, IdleRemembersNothing
    <2> QED BY <2>1, <2>2
  <1>5. Level[req[r].pc] = 0 /\ UNCHANGED <<rows, papers, object, held>>
    BY <1>2 DEF Level, ReadUnit
  <1> HIDE DEF q
  <1> QED BY <1>2, <1>3, <1>4, <1>5, ReadsWriteNothing

LEMMA ReadLeasesKeeps ==
    ASSUME LocksInv, LettingInv, NEW r \in Requests, ReadLeases(r)
    PROVE  LocksInv' /\ LettingInv'
  <1> DEFINE q == IF HoldsLease(req[r].t) THEN Idle ELSE [req[r] EXCEPT !.pc = "createChecked"]
  <1>1. Formed(req[r]) /\ Remembers(req[r])
    BY DEF LettingInv
  <1>2. req[r].pc = "unitRead" /\ req' = [req EXCEPT ![r] = q]
    BY DEF ReadLeases, LettingInv
  <1>3. Formed(q) /\ q.pc \notin Numbered
    BY <1>1, IdleRemembersNothing DEF Formed, Level, Idle, Numbered
  <1>4. Remembers(q)
    <2>1. CASE HoldsLease(req[r].t)
      BY <2>1, IdleRemembersNothing
    <2>2. CASE ~HoldsLease(req[r].t)
      BY <1>1, <1>2, <2>2 DEF Formed, Idle, Remembers, Creations, Numbered, Invoiced, Terminations,
                              Blacklistings
    <2> QED BY <2>1, <2>2
  <1>5. Level[req[r].pc] = 0 /\ UNCHANGED <<rows, papers, object, held>>
    BY <1>2 DEF Level, ReadLeases
  <1> HIDE DEF q
  <1> QED BY <1>2, <1>3, <1>4, <1>5, ReadsWriteNothing

LEMMA ComparesKeep ==
    ASSUME LocksInv, LettingInv, NEW r \in Requests, CompareUnit(r) \/ CompareTenant(r) \/ CompareLease(r)
    PROVE  LocksInv' /\ LettingInv'
  <1>1. Formed(req[r]) /\ Remembers(req[r])
    BY DEF LettingInv
  <1>2. ASSUME NEW from, NEW to, NEW row, Compare(r, from, to, row),
               <<from, to>> \in {<<"unitLoaded", "unitDiffed">>, <<"tenantLoaded", "tenantDiffed">>,
                                 <<"leaseLoaded", "leaseDiffed">>}
        PROVE  LocksInv' /\ LettingInv'
    <2> DEFINE q == [req[r] EXCEPT !.pc = to, !.cols = Differing(req[r].row, row)]
    <2>1. req[r].pc = from /\ req' = [req EXCEPT ![r] = q] /\ UNCHANGED <<rows, papers, object, held>>
      BY <1>2 DEF Compare, LettingInv
    <2>2. Formed(q) /\ q.pc \notin Numbered
      BY <1>1, <1>2 DEF Formed, Level, Idle, Numbered
    <2>3. Remembers(q)
      BY <1>1, <1>2, <2>1 DEF Formed, Idle, Remembers, Creations, Numbered, Invoiced, Terminations,
                              Blacklistings
    <2>4. Level[req[r].pc] = 0
      BY <1>2, <2>1 DEF Level
    <2> HIDE DEF q
    <2> QED BY <2>1, <2>2, <2>3, <2>4, ReadsWriteNothing
  <1>3. CASE CompareUnit(r)
    BY <1>2, <1>3 DEF CompareUnit
  <1>4. CASE CompareTenant(r)
    BY <1>2, <1>4 DEF CompareTenant
  <1>5. CASE CompareLease(r)
    BY <1>2, <1>5 DEF CompareLease
  <1> QED BY <1>3, <1>4, <1>5

\* A statement that waits for its locks and inserts no numbered row.
LEMMA StatementsKeep ==
    ASSUME LocksInv, LettingInv, NEW r \in Requests,
           \/ OccupyUnit(r) \/ OccupyTenant(r) \/ EndLease(r) \/ VacateUnit(r) \/ VacateTenant(r)
           \/ MoveOffender(r) \/ MarkOffender(r) \/ InsertProspect(r)
    PROVE  LocksInv' /\ LettingInv'
  <1>1. Formed(req[r]) /\ Remembers(req[r])
    BY DEF LettingInv
  <1>2. ASSUME NEW from \in DOMAIN After \ {"createChecked", "leaseInserted", "tenantHoused"},
               Statement(r, from, After[from])
        PROVE  LocksInv' /\ LettingInv'
    <2> DEFINE q == [req[r] EXCEPT !.pc = After[from]]
    <2>1. req[r].pc = from /\ req' = [req EXCEPT ![r] = q] /\ UNCHANGED <<rows, papers, object>>
      BY <1>2 DEF Statement, Goto, LettingInv
    <2>2. Formed(q)
      BY <1>1 DEF Formed, Level, Idle, After
    <2>3. Remembers(q)
      BY <1>1, <2>1 DEF Formed, Idle, Remembers, Creations, Numbered, Invoiced, Terminations,
                        Blacklistings, After
    <2>4. q.pc = After[from]
      BY <1>1 DEF Formed, Idle
    <2> HIDE DEF q
    <2>5. req' = [s \in Requests |-> req'[s]] /\ Others(r) /\ req'[r] = q
      BY <2>1 DEF LettingInv, Others
    <2>6. LocksInv'
      BY <1>2, <2>1, <2>4, <2>5, StatementKeepsLocks DEF Statement
    <2>7. Formed(req'[r])
      BY <2>2, <2>5
    <2>8. Remembers(req'[r])
      BY <2>3, <2>5
    <2> QED BY <2>1, <2>5, <2>6, <2>7, <2>8, MovesOn
  <1>3. \E from \in DOMAIN After \ {"createChecked", "leaseInserted", "tenantHoused"} :
           Statement(r, from, After[from])
    BY DEF After, OccupyUnit, OccupyTenant, EndLease, VacateUnit, VacateTenant, MoveOffender,
           MarkOffender, InsertProspect
  <1> QED BY <1>2, <1>3

\* The lease and the invoice get numbers that are unused.
LEMMA NumbersAreGiven ==
    ASSUME LocksInv, LettingInv, NEW r \in Requests, InsertLease(r) \/ InsertInvoice(r)
    PROVE  LocksInv' /\ LettingInv'
  <1>1. Formed(req[r]) /\ Remembers(req[r])
    BY DEF LettingInv
  <1>2. ASSUME NEW q, req' = [req EXCEPT ![r] = q], Acquire(r, Wants(r)),
               UNCHANGED <<rows, papers, object>>, req[r].pc \in DOMAIN After,
               q.pc = After[req[r].pc], Formed(q), Remembers(q)
        PROVE  LocksInv' /\ LettingInv'
    <2>1. req' = [s \in Requests |-> req'[s]] /\ Others(r) /\ req'[r] = q
      BY <1>2 DEF LettingInv, Others
    <2>2. LocksInv'
      BY <1>2, <2>1, StatementKeepsLocks
    <2>3. Formed(req'[r])
      BY <1>2, <2>1
    <2>4. Remembers(req'[r])
      BY <1>2, <2>1
    <2> QED BY <1>2, <2>1, <2>2, <2>3, <2>4, MovesOn
  <1>3. CASE InsertLease(r)
    <2>1. PICK l \in Leases : IsNextCode(lease, l) /\
             req' = [req EXCEPT ![r] = [req[r] EXCEPT !.pc = "leaseInserted", !.l = l]]
      BY <1>3 DEF InsertLease, LettingInv
    <2> DEFINE q == [req[r] EXCEPT !.pc = "leaseInserted", !.l = l]
    <2>2. req[r].pc = "createChecked" /\ Acquire(r, Wants(r)) /\ UNCHANGED <<rows, papers, object>>
      BY <1>3 DEF InsertLease
    <2>3. q.pc = "leaseInserted" /\ Formed(q)
      BY <1>1 DEF Formed, Level, Idle
    <2>4. lease[l].status = "none"
      BY <2>1 DEF IsNextCode, Leases
    <2>5. Remembers(q)
      BY <1>1, <2>2, <2>4 DEF Formed, Idle, Remembers, Creations, Numbered, Invoiced, Terminations,
                              Blacklistings
    <2>6. req' = [req EXCEPT ![r] = q]
      BY <2>1
    <2>7. req[r].pc \in DOMAIN After /\ q.pc = After[req[r].pc]
      BY <2>2, <2>3 DEF After
    <2> HIDE DEF q
    <2> QED BY <1>2, <2>2, <2>3, <2>5, <2>6, <2>7
  <1>4. CASE InsertInvoice(r)
    <2>1. PICK i \in Leases : IsNextNumber(invoice, i) /\
             req' = [req EXCEPT ![r] = [req[r] EXCEPT !.pc = "invoiceInserted", !.inv = i]]
      BY <1>4 DEF InsertInvoice, LettingInv
    <2> DEFINE q == [req[r] EXCEPT !.pc = "invoiceInserted", !.inv = i]
    <2>2. req[r].pc = "leaseInserted" /\ Acquire(r, Wants(r)) /\ UNCHANGED <<rows, papers, object>>
      BY <1>4 DEF InsertInvoice
    <2>3. q.pc = "invoiceInserted" /\ Formed(q)
      BY <1>1 DEF Formed, Level, Idle
    <2>4. invoice[i] = 0
      BY <2>1 DEF IsNextNumber, Leases
    <2>5. Remembers(q)
      BY <1>1, <2>2, <2>4 DEF Formed, Idle, Remembers, Creations, Numbered, Invoiced, Terminations,
                              Blacklistings
    <2>6. req' = [req EXCEPT ![r] = q]
      BY <2>1
    <2>7. req[r].pc \in DOMAIN After /\ q.pc = After[req[r].pc]
      BY <2>2, <2>3 DEF After
    <2> HIDE DEF q
    <2> QED BY <1>2, <2>2, <2>3, <2>5, <2>6, <2>7
  <1> QED BY <1>3, <1>4

\* Two creations never hold the lock of the same table.
LEMMA OneNumbering ==
    ASSUME LocksInv, NEW r \in Requests, NEW s \in Requests, r # s,
           req[r].pc \in Numbered
    PROVE  req[s].pc \notin Numbered
  BY DEF LocksInv, LocksExclude, Conflict, HoldsRight

\* The agreement is uploaded under a number nobody else has been given.
LEMMA StoreAgreementKeeps ==
    ASSUME LocksInv, LettingInv, NEW r \in Requests, StoreAgreement(r)
    PROVE  LocksInv' /\ LettingInv'
  <1>1. Formed(req[r]) /\ Remembers(req[r])
    BY DEF LettingInv
  <1>2. PICK d \in Leases :
           /\ IsNextNumber(document, d)
           /\ req' = [req EXCEPT ![r] = [req[r] EXCEPT !.pc = "agreementStored", !.doc = d]]
           /\ object' = [object EXCEPT ![d] = req[r].l]
    BY DEF StoreAgreement, LettingInv
  <1> DEFINE q == [req[r] EXCEPT !.pc = "agreementStored", !.doc = d]
  <1>3. /\ req[r].pc = "tenantHoused" /\ Acquire(r, Wants(r))
        /\ UNCHANGED <<lease, unit, tenant, invoice, document>>
    BY DEF StoreAgreement, rows, papers
  <1>4. q.pc = "agreementStored" /\ Formed(q)
    BY <1>1 DEF Formed, Level, Idle
  <1>5. document[d] = 0 /\ req[r].l \in Leases
    BY <1>1, <1>2, <1>3 DEF IsNextNumber, Leases, Remembers, Numbered
  <1>6. object \in [Leases -> Leases \cup {0}]
    BY DEF LettingInv
  <1>7. /\ object' \in [Leases -> Leases \cup {0}]
        /\ object'[d] = req[r].l
        /\ \A n \in Leases \ {d} : object'[n] = object[n]
    BY <1>2, <1>5, <1>6
  <1>8. req' = [req EXCEPT ![r] = q]
    BY <1>2
  <1>9. /\ q.pc = "agreementStored" /\ q.t = req[r].t /\ q.u = req[r].u /\ q.l = req[r].l
        /\ q.inv = req[r].inv /\ q.doc = d
    BY <1>1 DEF Formed, Idle
  <1> HIDE DEF q
  <1>10. req' = [s \in Requests |-> req'[s]] /\ Others(r) /\ req'[r] = q
    BY <1>8 DEF LettingInv, Others
  <1>11. LocksInv'
    BY <1>3, <1>4, <1>10, StatementKeepsLocks DEF After
  <1>12. Remembers(req[r])'
    <2>1. /\ req[r].t \in Tenants /\ req[r].u \in Units
          /\ req[r].l \in Leases /\ lease[req[r].l].status = "none"
          /\ req[r].inv \in Leases /\ invoice[req[r].inv] = 0
      BY <1>1, <1>3 DEF Remembers, Creations, Numbered, Invoiced
    <2> QED BY <1>3, <1>5, <1>7, <1>9, <1>10, <2>1
            DEF Remembers, Creations, Numbered, Invoiced, Terminations, Blacklistings
  <1>13. ASSUME NEW s \in Requests PROVE Formed(req'[s]) /\ Remembers(req[s])'
    <2>1. CASE s = r
      BY <1>4, <1>10, <1>12, <2>1
    <2>2. CASE s # r
      <3>1. Formed(req[s]) /\ Remembers(req[s]) /\ req'[s] = req[s]
        BY <1>10, <2>2 DEF LettingInv, Others
      <3>2. req[s].pc # "agreementStored"
        BY <1>3, <2>2, OneNumbering DEF Numbered
      <3>3. Remembers(req[s])'
        BY <1>3, <3>1, <3>2 DEF Remembers
      <3> QED BY <3>1, <3>3
    <2> QED BY <2>1, <2>2
  <1>14. TablesTyped' /\ Papers' /\ {invoice', document', object'} \subseteq [Leases -> Leases \cup {0}]
    <2>1. TablesTyped' /\ {invoice', document', object'} \subseteq [Leases -> Leases \cup {0}]
      BY <1>3, <1>7 DEF LettingInv, TablesTyped, RowsAreWhole
    <2>2. \A n \in Leases : document[n] # 0 => object'[n] = document[n]
      BY <1>5, <1>7 DEF LettingInv, Papers
    <2> QED BY <1>3, <2>1, <2>2 DEF LettingInv, Papers
  <1>15. LettingInv'
    BY <1>10, <1>13, <1>14 DEF LettingInv, Formed
  <1> QED BY <1>11, <1>15

\* The answer of a request that commits.
LEMMA AnswersRelease ==
    ASSUME LocksInv, LettingInv, NEW r \in Requests, Answer(r)
    PROVE  /\ LocksInv'
           /\ req' = [s \in Requests |-> req'[s]] /\ Others(r) /\ req'[r] = Idle
  <1>1. req' = [s \in Requests |-> req'[s]] /\ Others(r) /\ req'[r] = Idle
    BY DEF Answer, LettingInv, Others
  <1>2. req'[r].pc \notin Numbered
    BY <1>1 DEF Idle, Numbered
  <1> QED BY <1>1, <1>2, ReleaseKeepsLocks DEF Answer

\* A creation commits a lease nobody has billed, with an invoice and an
\* agreement of its own.
LEMMA CommitLeaseKeeps ==
    ASSUME LocksInv, LettingInv, NEW r \in Requests, CommitLease(r)
    PROVE  LocksInv' /\ LettingInv'
  <1> DEFINE q == req[r]
             l == q.l
             i == q.inv
             d == q.doc
  <1>1. /\ q.pc = "agreementStored" /\ q.t \in Tenants /\ q.u \in Units
        /\ l \in Leases /\ lease[l].status = "none"
        /\ i \in Leases /\ invoice[i] = 0
        /\ d \in Leases /\ document[d] = 0 /\ object[d] = l
    BY DEF LettingInv, CommitLease, Remembers, Creations, Numbered, Invoiced
  <1>2. /\ lease' = [lease EXCEPT ![l] = NewLease(q.t, q.u)]
        /\ invoice' = [invoice EXCEPT ![i] = l]
        /\ document' = [document EXCEPT ![d] = l]
        /\ unit' = [unit EXCEPT ![q.u] = Occupied(q.t)]
        /\ tenant' = [tenant EXCEPT ![q.t] = Housed(q.u)]
        /\ Answer(r) /\ object' = object
    BY DEF CommitLease
  <1> HIDE DEF q, l, i, d
  <1>3. /\ lease \in [Leases -> LeaseRow] /\ unit \in [Units -> UnitRow]
        /\ tenant \in [Tenants -> TenantRow] /\ RowsAreWhole
        /\ invoice \in [Leases -> Leases \cup {0}] /\ document \in [Leases -> Leases \cup {0}]
        /\ object \in [Leases -> Leases \cup {0}] /\ Papers
    BY DEF LettingInv, TablesTyped
  <1>4. /\ NewLease(q.t, q.u) \in LeaseRow /\ Occupied(q.t) \in UnitRow /\ Housed(q.u) \in TenantRow
        /\ NewLease(q.t, q.u).status = "active"
        /\ NewLease(q.t, q.u).tenant = q.t /\ NewLease(q.t, q.u).unit = q.u
    BY <1>1 DEF NewLease, LeaseRow, LeaseStatus, Occupied, UnitRow, UnitStatus, Housed, TenantRow,
                TenantStatus
  <1>5. /\ lease'[l].status = "active" /\ lease'[l].tenant = q.t /\ lease'[l].unit = q.u
        /\ \A k \in Leases \ {l} : lease'[k] = lease[k]
    BY <1>1, <1>2, <1>3, <1>4
  <1>6. TablesTyped'
    <2>1. lease' \in [Leases -> LeaseRow]
      BY <1>1, <1>2, <1>3, <1>4
    <2>2. unit' \in [Units -> UnitRow]
      BY <1>1, <1>2, <1>3, <1>4
    <2>3. tenant' \in [Tenants -> TenantRow]
      BY <1>1, <1>2, <1>3, <1>4
    <2>4. RowsAreWhole'
      BY <1>1, <1>3, <1>5 DEF RowsAreWhole
    <2> QED BY <2>1, <2>2, <2>3, <2>4 DEF TablesTyped
  <1>7. /\ invoice' \in [Leases -> Leases \cup {0}] /\ document' \in [Leases -> Leases \cup {0}]
        /\ invoice'[i] = l /\ document'[d] = l
        /\ \A k \in Leases : k # i => invoice'[k] = invoice[k]
        /\ \A k \in Leases : k # d => document'[k] = document[k]
    BY <1>1, <1>2, <1>3
  <1>8. \A k \in Leases : invoice[k] # l /\ document[k] # l
    <2>1. l # 0
      BY <1>1 DEF Leases
    <2> QED BY <1>1, <1>3, <2>1 DEF Papers
  <1>9. Papers'
    <2>1. ASSUME NEW k \in Leases, lease'[k].status # "none", k > SeedLeases
          PROVE  /\ \E j \in Leases : \A n \in Leases : invoice'[n] = k <=> n = j
                 /\ \E j \in Leases : \A n \in Leases : document'[n] = k <=> n = j
      <3>1. CASE k = l
        <4>1. \A n \in Leases : (invoice'[n] = k <=> n = i) /\ (document'[n] = k <=> n = d)
          BY <1>7, <1>8, <3>1
        <4> QED BY <1>1, <4>1
      <3>2. CASE k # l
        <4>1. lease[k].status # "none" /\ k # 0
          BY <1>5, <2>1, <3>2 DEF Leases
        <4>2. PICK j \in Leases : \A n \in Leases : invoice[n] = k <=> n = j
          BY <1>3, <2>1, <4>1 DEF Papers
        <4>3. PICK e \in Leases : \A n \in Leases : document[n] = k <=> n = e
          BY <1>3, <2>1, <4>1 DEF Papers
        <4>4. \A n \in Leases : invoice'[n] = k <=> n = j
          BY <1>1, <1>7, <3>2, <4>1, <4>2
        <4>5. \A n \in Leases : document'[n] = k <=> n = e
          BY <1>1, <1>7, <3>2, <4>1, <4>3
        <4> QED BY <4>4, <4>5
      <3> QED BY <3>1, <3>2
    <2>2. ASSUME NEW n \in Leases
          PROVE  /\ invoice'[n] # 0 => lease'[invoice'[n]].status # "none"
                 /\ document'[n] # 0 => lease'[document'[n]].status # "none" /\ object[n] = document'[n]
      <3>1. /\ invoice[n] \in Leases \cup {0} /\ document[n] \in Leases \cup {0}
            /\ invoice[n] # 0 => lease[invoice[n]].status # "none"
            /\ document[n] # 0 => lease[document[n]].status # "none" /\ object[n] = document[n]
        BY <1>3 DEF Papers
      <3>2. invoice'[n] # 0 => lease'[invoice'[n]].status # "none"
        BY <1>1, <1>5, <1>7, <3>1
      <3>3. document'[n] # 0 => lease'[document'[n]].status # "none" /\ object[n] = document'[n]
        BY <1>1, <1>5, <1>7, <3>1
      <3> QED BY <3>2, <3>3
    <2>3. \A n \in Leases :
             /\ invoice'[n] # 0 => lease'[invoice'[n]].status # "none"
             /\ document'[n] # 0 => lease'[document'[n]].status # "none" /\ object'[n] = document'[n]
      BY <1>2, <2>2
    <2> QED BY <2>1, <2>3 DEF Papers
  <1>10. LocksInv' /\ req' = [s \in Requests |-> req'[s]] /\ Others(r) /\ req'[r] = Idle
    BY <1>2, AnswersRelease
  <1>11. ASSUME NEW s \in Requests PROVE Formed(req'[s]) /\ Remembers(req[s])'
    <2>1. CASE s = r
      BY <1>10, <2>1, IdleRemembersNothing
    <2>2. CASE s # r
      <3>1. Formed(req[s]) /\ Remembers(req[s]) /\ req'[s] = req[s]
        BY <1>10, <2>2 DEF LettingInv, Others
      <3>2. req[s].pc \notin Numbered
        BY <1>1, <2>2, OneNumbering DEF Numbered, q
      <3>3. Remembers(req[s])'
        BY <1>5, <3>1, <3>2 DEF Remembers, Numbered, Invoiced
      <3> QED BY <3>1, <3>3
    <2> QED BY <2>1, <2>2
  <1>12. object' \in [Leases -> Leases \cup {0}]
    BY <1>2, <1>3
  <1>13. LettingInv'
    BY <1>6, <1>7, <1>9, <1>10, <1>11, <1>12 DEF LettingInv, Formed
  <1> QED BY <1>10, <1>13

LEMMA CommitTerminationKeeps ==
    ASSUME LocksInv, LettingInv, NEW r \in Requests, CommitTermination(r)
    PROVE  LocksInv' /\ LettingInv'
  <1> DEFINE q == req[r]
  <1>1. /\ q.t \in Tenants /\ q.u \in Units /\ q.l \in Leases /\ lease[q.l].status # "none"
    BY DEF LettingInv, CommitTermination, Remembers, Terminations
  <1>2. /\ lease' = [lease EXCEPT ![q.l] = EndedLease(lease[q.l])]
        /\ unit' = [unit EXCEPT ![q.u] = Vacant]
        /\ tenant' = [tenant EXCEPT ![q.t] = MovedOut]
        /\ Answer(r) /\ UNCHANGED <<papers, object>>
    BY DEF CommitTermination
  <1> HIDE DEF q
  <1>3. /\ lease \in [Leases -> LeaseRow] /\ unit \in [Units -> UnitRow]
        /\ tenant \in [Tenants -> TenantRow] /\ RowsAreWhole
    BY DEF LettingInv, TablesTyped
  <1>4. /\ EndedLease(lease[q.l]) \in LeaseRow
        /\ EndedLease(lease[q.l]).status = "ended"
        /\ EndedLease(lease[q.l]).tenant = lease[q.l].tenant
        /\ EndedLease(lease[q.l]).unit = lease[q.l].unit
    <2>1. lease[q.l] \in LeaseRow
      BY <1>1, <1>3
    <2> QED BY <2>1 DEF EndedLease, LeaseRow, LeaseStatus
  <1>5. /\ lease' \in [Leases -> LeaseRow]
        /\ lease'[q.l] = EndedLease(lease[q.l])
        /\ \A k \in Leases \ {q.l} : lease'[k] = lease[k]
    BY <1>1, <1>2, <1>3, <1>4
  <1>6. Vacant \in UnitRow /\ MovedOut \in TenantRow
    BY DEF Vacant, UnitRow, UnitStatus, MovedOut, TenantRow, TenantStatus
  <1>7. unit' \in [Units -> UnitRow]
    BY <1>1, <1>2, <1>3, <1>6
  <1>8. tenant' \in [Tenants -> TenantRow]
    BY <1>1, <1>2, <1>3, <1>6
  <1>9. RowsAreWhole'
    BY <1>1, <1>3, <1>4, <1>5 DEF RowsAreWhole
  <1>10. TablesTyped'
    BY <1>5, <1>7, <1>8, <1>9 DEF TablesTyped
  <1>11. \A k \in Leases : lease'[k].status = "none" <=> lease[k].status = "none"
    BY <1>1, <1>4, <1>5
  <1>12. LocksInv' /\ req' = [s \in Requests |-> req'[s]] /\ Others(r) /\ req'[r] = Idle
    BY <1>2, AnswersRelease
  <1> QED BY <1>2, <1>10, <1>11, <1>12, RowsRewritten

LEMMA CommitBlacklistKeeps ==
    ASSUME LocksInv, LettingInv, NEW r \in Requests, CommitBlacklist(r)
    PROVE  LocksInv' /\ LettingInv'
  <1> DEFINE q == req[r]
  <1>1. q.t \in Tenants /\ q.u \in Units \cup {NoUnit}
    BY DEF LettingInv, CommitBlacklist, Remembers, Blacklistings
  <1>2. /\ unit' = IF q.u = NoUnit THEN unit ELSE [unit EXCEPT ![q.u] = Vacant]
        /\ tenant' = [tenant EXCEPT ![q.t] = Blacklisted]
        /\ Answer(r) /\ lease' = lease /\ UNCHANGED <<papers, object>>
    BY DEF CommitBlacklist
  <1> HIDE DEF q
  <1>3. /\ lease \in [Leases -> LeaseRow] /\ unit \in [Units -> UnitRow]
        /\ tenant \in [Tenants -> TenantRow] /\ RowsAreWhole
    BY DEF LettingInv, TablesTyped
  <1>4. Vacant \in UnitRow /\ Blacklisted \in TenantRow
    BY DEF Vacant, UnitRow, UnitStatus, Blacklisted, TenantRow, TenantStatus
  <1>5. unit' \in [Units -> UnitRow]
    BY <1>1, <1>2, <1>3, <1>4
  <1>6. tenant' \in [Tenants -> TenantRow]
    BY <1>1, <1>2, <1>3, <1>4
  <1>7. TablesTyped'
    BY <1>2, <1>3, <1>5, <1>6 DEF TablesTyped, RowsAreWhole
  <1>8. LocksInv' /\ req' = [s \in Requests |-> req'[s]] /\ Others(r) /\ req'[r] = Idle
    BY <1>2, AnswersRelease
  <1> QED BY <1>2, <1>7, <1>8, RowsRewritten

LEMMA CommitProspectKeeps ==
    ASSUME LocksInv, LettingInv, NEW r \in Requests, CommitProspect(r)
    PROVE  LocksInv' /\ LettingInv'
  <1> DEFINE q == req[r]
  <1>1. q.t \in Tenants
    BY DEF LettingInv, CommitProspect, Remembers
  <1>2. /\ tenant' = [tenant EXCEPT ![q.t] = Prospect]
        /\ Answer(r) /\ lease' = lease /\ unit' = unit /\ UNCHANGED <<papers, object>>
    BY DEF CommitProspect
  <1> HIDE DEF q
  <1>3. /\ lease \in [Leases -> LeaseRow] /\ unit \in [Units -> UnitRow]
        /\ tenant \in [Tenants -> TenantRow] /\ RowsAreWhole
    BY DEF LettingInv, TablesTyped
  <1>4. Prospect \in TenantRow
    BY DEF Prospect, TenantRow, TenantStatus
  <1>5. tenant' \in [Tenants -> TenantRow]
    BY <1>1, <1>2, <1>3, <1>4
  <1>6. TablesTyped'
    BY <1>2, <1>3, <1>5 DEF TablesTyped, RowsAreWhole
  <1>7. LocksInv' /\ req' = [s \in Requests |-> req'[s]] /\ Others(r) /\ req'[r] = Idle
    BY <1>2, AnswersRelease
  <1> QED BY <1>2, <1>6, <1>7, RowsRewritten

\* A saved row is made of columns of the row and columns of the entity.
LEMMA MergedUnit ==
    ASSUME NEW row \in UnitRow, NEW stale \in UnitRow, NEW cols
    PROVE  Merged(row, stale, cols) \in UnitRow
  BY DEF Merged, UnitRow

LEMMA MergedTenant ==
    ASSUME NEW row \in TenantRow, NEW stale \in TenantRow, NEW cols
    PROVE  Merged(row, stale, cols) \in TenantRow
  BY DEF Merged, TenantRow

LEMMA MergedLease ==
    ASSUME NEW row \in LetRow, NEW stale \in LetRow, NEW cols
    PROVE  Merged(row, stale, cols) \in LetRow
  BY DEF Merged, LetRow

\* A save answers at once and holds nothing.
LEMMA SavesRelease ==
    ASSUME LocksInv, LettingInv, NEW r \in Requests, NEW from, Update(r, from),
           from \in {"unitDiffed", "tenantDiffed", "leaseDiffed"}
    PROVE  /\ LocksInv'
           /\ req' = [s \in Requests |-> req'[s]] /\ Others(r) /\ req'[r] = Idle
           /\ UNCHANGED <<papers, object>>
  <1>1. req' = [s \in Requests |-> req'[s]] /\ Others(r) /\ req'[r] = Idle
    BY DEF Update, LettingInv, Others
  <1>2. Level[req[r].pc] = 0 /\ req[r].pc \in DOMAIN Level
    BY DEF Update, Level
  <1>3. req'[r].pc \in DOMAIN Level \ Numbered
    BY <1>1 DEF Idle, Numbered, Level
  <1> QED BY <1>1, <1>2, <1>3, NothingHeldYet DEF Update

LEMMA SaveUnitKeeps ==
    ASSUME LocksInv, LettingInv, NEW r \in Requests, SaveUnit(r)
    PROVE  LocksInv' /\ LettingInv'
  <1> DEFINE q == req[r]
  <1>1. q.u \in Units /\ q.row \in UnitRow
    BY DEF LettingInv, SaveUnit, Update, Remembers
  <1>2. /\ unit' = [unit EXCEPT ![q.u] = Merged(unit[q.u], q.row, q.cols)]
        /\ lease' = lease /\ tenant' = tenant /\ Update(r, "unitDiffed")
    BY DEF SaveUnit
  <1> HIDE DEF q
  <1>3. /\ lease \in [Leases -> LeaseRow] /\ unit \in [Units -> UnitRow]
        /\ tenant \in [Tenants -> TenantRow] /\ RowsAreWhole
    BY DEF LettingInv, TablesTyped
  <1>4. Merged(unit[q.u], q.row, q.cols) \in UnitRow
    BY <1>1, <1>3, MergedUnit
  <1>5. unit' \in [Units -> UnitRow]
    BY <1>1, <1>2, <1>3, <1>4
  <1>6. TablesTyped'
    BY <1>2, <1>3, <1>5 DEF TablesTyped, RowsAreWhole
  <1> QED BY <1>2, <1>6, SavesRelease, RowsRewritten

LEMMA SaveTenantKeeps ==
    ASSUME LocksInv, LettingInv, NEW r \in Requests, SaveTenant(r)
    PROVE  LocksInv' /\ LettingInv'
  <1> DEFINE q == req[r]
  <1>1. q.t \in Tenants /\ q.row \in TenantRow
    BY DEF LettingInv, SaveTenant, Update, Remembers
  <1>2. /\ tenant' = [tenant EXCEPT ![q.t] = Merged(tenant[q.t], q.row, q.cols)]
        /\ lease' = lease /\ unit' = unit /\ Update(r, "tenantDiffed")
    BY DEF SaveTenant
  <1> HIDE DEF q
  <1>3. /\ lease \in [Leases -> LeaseRow] /\ unit \in [Units -> UnitRow]
        /\ tenant \in [Tenants -> TenantRow] /\ RowsAreWhole
    BY DEF LettingInv, TablesTyped
  <1>4. Merged(tenant[q.t], q.row, q.cols) \in TenantRow
    BY <1>1, <1>3, MergedTenant
  <1>5. tenant' \in [Tenants -> TenantRow]
    BY <1>1, <1>2, <1>3, <1>4
  <1>6. TablesTyped'
    BY <1>2, <1>3, <1>5 DEF TablesTyped, RowsAreWhole
  <1> QED BY <1>2, <1>6, SavesRelease, RowsRewritten

LEMMA SaveLeaseKeeps ==
    ASSUME LocksInv, LettingInv, NEW r \in Requests, SaveLease(r)
    PROVE  LocksInv' /\ LettingInv'
  <1> DEFINE q == req[r]
             row == Merged(lease[q.l], q.row, q.cols)
  <1>1. q.l \in Leases /\ lease[q.l].status # "none" /\ q.row \in LetRow
    BY DEF LettingInv, SaveLease, Update, Remembers
  <1>2. /\ lease' = [lease EXCEPT ![q.l] = row]
        /\ unit' = unit /\ tenant' = tenant /\ Update(r, "leaseDiffed")
    BY DEF SaveLease
  <1> HIDE DEF q
  <1>3. /\ lease \in [Leases -> LeaseRow] /\ unit \in [Units -> UnitRow]
        /\ tenant \in [Tenants -> TenantRow] /\ RowsAreWhole
    BY DEF LettingInv, TablesTyped
  <1>4. lease[q.l] \in LetRow
    <2>1. lease[q.l] \in LeaseRow /\ lease[q.l].tenant \in Tenants /\ lease[q.l].unit \in Units
      BY <1>1, <1>3 DEF RowsAreWhole
    <2> QED BY <1>1, <2>1 DEF LeaseRow, LetRow
  <1>5. row \in LetRow
    BY <1>1, <1>4, MergedLease
  <1> HIDE DEF row
  <1>6. row \in LeaseRow /\ row.status # "none" /\ row.tenant \in Tenants /\ row.unit \in Units
    BY <1>5 DEF LetRow, LeaseRow, LeaseStatus
  <1>7. /\ lease' \in [Leases -> LeaseRow]
        /\ lease'[q.l] = row
        /\ \A k \in Leases \ {q.l} : lease'[k] = lease[k]
    BY <1>1, <1>2, <1>3, <1>6
  <1>8. RowsAreWhole'
    BY <1>1, <1>3, <1>6, <1>7 DEF RowsAreWhole
  <1>9. TablesTyped'
    BY <1>2, <1>3, <1>7, <1>8 DEF TablesTyped
  <1>10. \A k \in Leases : lease'[k].status = "none" <=> lease[k].status = "none"
    BY <1>1, <1>6, <1>7
  <1> QED BY <1>2, <1>9, <1>10, SavesRelease, RowsRewritten

LEMMA AdvanceKeepsLetting ==
    ASSUME LocksInv, LettingInv, NEW r \in Requests, Advance(r)
    PROVE  LocksInv' /\ LettingInv'
  BY ReadUnitKeeps, ReadLeasesKeeps, ComparesKeep, StatementsKeep, NumbersAreGiven,
     StoreAgreementKeeps, CommitLeaseKeeps, CommitTerminationKeeps, CommitBlacklistKeeps,
     CommitProspectKeeps, SaveUnitKeeps, SaveTenantKeeps, SaveLeaseKeeps, Zenon DEF Advance
-----------------------------------------------------------------------------
(***************************************************************************)
(* The invariant of the specification.                                     *)
(***************************************************************************)
\* No request is in flight and no paper is written; every lease is seeded.
LEMMA LettingStarts ==
    ASSUME Init
    PROVE  LocksInv /\ LettingInv
  <1>1. TablesTyped
    BY TablesStart DEF Init
  <1>2. LocksInv
    <2>1. LocksTypeOK /\ LocksExclude
      BY DEF Init, LocksTypeOK, LocksExclude, LockSet, NoLocks, Conflict
    <2>2. ASSUME NEW r \in Requests PROVE HoldsRight(req[r].pc, held[r])
      BY NothingHeldIsRight DEF Init, Idle, Numbered
    <2> QED BY <2>1, <2>2 DEF LocksInv
  <1>3. {invoice, document, object} \subseteq [Leases -> Leases \cup {0}]
    BY DEF Init
  <1>4. Papers
    <2>1. ASSUME NEW l \in Leases, lease[l].status # "none", l > SeedLeases PROVE FALSE
      <3>1. lease[l] = Occ!NoLease
        BY <2>1, LeaseAssumption DEF Init, Occ!Init, Occ!SeedTables, Occ!Leases, Leases
      <3> QED BY <2>1, <3>1 DEF Occ!NoLease
    <2> QED BY <2>1 DEF Init, Papers
  <1>5. req = [r \in Requests |-> req[r]] /\ \A r \in Requests : Formed(req[r]) /\ Remembers(req[r])
    <2>1. ASSUME NEW r \in Requests PROVE Formed(req[r]) /\ Remembers(req[r])
      <3>1. req[r] = Idle
        BY DEF Init
      <3> QED BY <3>1, IdleRemembersNothing
    <2> QED BY <2>1 DEF Init
  <1> QED BY <1>1, <1>2, <1>3, <1>4, <1>5 DEF LettingInv

LEMMA LettingHolds == Spec => [](LocksInv /\ LettingInv)
  <1>1. Init => LocksInv /\ LettingInv
    BY LettingStarts
  <1>2. LocksInv /\ LettingInv /\ [Next]_vars => LocksInv' /\ LettingInv'
    <2> SUFFICES ASSUME LocksInv, LettingInv, [Next]_vars PROVE LocksInv' /\ LettingInv'
      OBVIOUS
    <2>1. CASE Next
      <3>1. PICK r \in Requests : Arrive(r) \/ Advance(r) \/ Fail(r)
        BY <2>1 DEF Next
      <3> QED BY <3>1, ArriveKeepsLetting, AdvanceKeepsLetting, FailsCleanly
    <2>2. CASE UNCHANGED vars
      BY <2>2 DEF vars, rows, papers, LocksInv, LocksTypeOK, LocksExclude, HoldsRight, LettingInv,
                  TablesTyped, RowsAreWhole, Papers, Formed, Remembers
    <2> QED BY <2>1, <2>2
  <1> QED BY <1>1, <1>2, PTL DEF Spec

\* The codes a creation was given are still unused when it commits: nobody
\* else gets a number of a table whose lock it holds (InsertLease,
\* InsertInvoice and StoreAgreement against CommitLease).
THEOREM CodesStayFree == Spec => []CodesAreFree
  <1>1. LettingInv => CodesAreFree
    BY DEF LettingInv, Remembers, Numbered, Invoiced, CodesAreFree, CodesFree
  <1> QED BY <1>1, LettingHolds, PTL

\* Whatever fails, and however creations interleave, a lease that was created
\* has one invoice and one agreement, and no paper is of any other lease.
THEOREM LeasesStayWhole == Spec => []LeaseIsWhole
  <1>1. ASSUME NEW f, NEW l, \E i \in Leases : \A k \in Leases : f[k] = l <=> k = i
        PROVE  Cardinality({k \in Leases : f[k] = l}) = 1
    <2>1. PICK i \in Leases : \A k \in Leases : f[k] = l <=> k = i
      BY <1>1
    <2>2. {k \in Leases : f[k] = l} = {i}
      BY <2>1
    <2> QED BY <2>2, FS_Singleton
  <1>2. LettingInv => LeaseIsWhole
    <2> SUFFICES ASSUME LettingInv PROVE LeaseIsWhole
      OBVIOUS
    <2>1. Papers
      BY DEF LettingInv
    <2>2. ASSUME NEW l \in Leases, lease[l].status # "none", l > SeedLeases
          PROVE  /\ Cardinality({i \in Leases : invoice[i] = l}) = 1
                 /\ Cardinality({d \in Leases : document[d] = l}) = 1
      <3>1. /\ \E i \in Leases : \A k \in Leases : invoice[k] = l <=> k = i
            /\ \E d \in Leases : \A k \in Leases : document[k] = l <=> k = d
        BY <2>1, <2>2 DEF Papers
      <3>2. Cardinality({k \in Leases : invoice[k] = l}) = 1
        BY <1>1, <3>1
      <3>3. Cardinality({k \in Leases : document[k] = l}) = 1
        BY <1>1, <3>1
      <3> QED BY <3>2, <3>3
    <2> QED BY <2>1, <2>2 DEF Papers, LeaseIsWhole
  <1> QED BY <1>2, LettingHolds, PTL

\* A request waits only for one that has locked a table at least as far in
\* the order as the one it wants.
LEMMA WaitingGoesUp ==
    ASSUME LocksInv, LettingInv, NEW r \in Requests, NEW s \in Requests, WaitsFor(r, s)
    PROVE  /\ req[r].pc \in DOMAIN NextTable
           /\ Rank[NextTable[req[r].pc]] <= Level[req[s].pc]
  <1> DEFINE pc == req[r].pc
             h == held[s]
  <1>1. HoldsRight(req[s].pc, h) /\ h \in LockSet
    BY DEF LocksInv, LocksTypeOK
  <1>2. Conflict(Wants(r), h)
    BY DEF WaitsFor
  <1>3. pc \in DOMAIN NextTable
    <2>1. ~Conflict(NoLocks, h)
      BY DEF Conflict, NoLocks
    <2> QED BY <1>2, <2>1, WantsNext
  <1> DEFINE tab == NextTable[pc]
  <1>4. tab \in h.sre \cup h.rx
    <2>1. CASE Wants(r) = TableLock(tab)
      BY <1>2, <2>1 DEF Conflict, TableLock
    <2>2. CASE \E row \in Units : tab = "units" /\ Wants(r) = RowUpdate(tab, row)
      BY <1>1, <1>2, <2>2, RowAssumption DEF Conflict, RowUpdate, HoldsRight
    <2>3. CASE \E row \in Tenants : tab = "tenants" /\ Wants(r) = RowUpdate(tab, row)
      BY <1>1, <1>2, <2>3, RowAssumption DEF Conflict, RowUpdate, HoldsRight
    <2>4. CASE \E row \in Leases : tab = "leases" /\ Wants(r) = RowUpdate(tab, row)
      BY <1>1, <1>2, <2>4, RowAssumption DEF Conflict, RowUpdate, HoldsRight
    <2> QED BY <1>3, <2>1, <2>2, <2>3, <2>4, WantsNext DEF NextTable
  <1> QED BY <1>1, <1>3, <1>4 DEF HoldsRight

\* A handler wants a table further in the order than those it has locked.
LEMMA WantingGoesUp ==
    ASSUME NEW pc \in DOMAIN NextTable
    PROVE  /\ pc \in DOMAIN Level /\ Level[pc] < Rank[NextTable[pc]]
           /\ Level[pc] \in 0..5 /\ Rank[NextTable[pc]] \in 1..5
  <1>1. pc \in {"createChecked", "leaseInserted", "invoiceInserted", "unitOccupied", "tenantHoused",
                "leaseRead", "leaseEnded", "unitVacated", "offenderRead", "offenderMoved",
                "prospectGiven", "unitDiffed", "tenantDiffed", "leaseDiffed"}
    BY DEF NextTable
  <1> QED BY <1>1 DEF NextTable, Rank, Level

\* No circle of requests waits for each other's locks: along such a circle the
\* tables waited for would rise for ever in the order of the locks.
THEOREM NoCircularWait == Spec => []NoDeadlock
  <1>1. ASSUME LocksInv, LettingInv PROVE NoDeadlock
    <2> SUFFICES ASSUME NEW S \in (SUBSET Requests) \ {{}},
                        \A r \in S : \E s \in S : WaitsFor(r, s)
                 PROVE  FALSE
      BY DEF NoDeadlock
    <2> DEFINE want(r) == Rank[NextTable[req[r].pc]]
    <2>1. ASSUME NEW r \in S
          PROVE  want(r) \in 1..5 /\ \E s \in S : want(r) < want(s)
      <3>1. PICK s \in S : WaitsFor(r, s)
        OBVIOUS
      <3>2. PICK t \in S : WaitsFor(s, t)
        OBVIOUS
      <3>3. /\ req[r].pc \in DOMAIN NextTable /\ req[s].pc \in DOMAIN NextTable
            /\ want(r) <= Level[req[s].pc]
        BY <1>1, <3>1, <3>2, WaitingGoesUp
      <3>4. want(r) \in 1..5 /\ want(s) \in 1..5 /\ Level[req[s].pc] \in 0..5
            /\ Level[req[s].pc] < want(s)
        BY <3>3, WantingGoesUp
      <3> QED BY <3>3, <3>4
    <2> HIDE DEF want
    <2>2. \A r \in S : want(r) # 5
      BY <2>1
    <2>3. \A r \in S : want(r) # 4
      BY <2>1, <2>2
    <2>4. \A r \in S : want(r) # 3
      BY <2>1, <2>2, <2>3
    <2>5. \A r \in S : want(r) # 2
      BY <2>1, <2>2, <2>3, <2>4
    <2>6. \A r \in S : want(r) # 1
      BY <2>1, <2>2, <2>3, <2>4, <2>5
    <2>7. S = {}
      BY <2>1, <2>2, <2>3, <2>4, <2>5, <2>6
    <2> QED BY <2>7
  <1>2. LocksInv /\ LettingInv => NoDeadlock
    BY <1>1
  <1> QED BY <1>2, LettingHolds, PTL

\* The tables hold rows, the locks are locks, and a slot with no request in
\* flight remembers nothing.
THEOREM LettingTypes == Spec => []TypeOK
  <1>1. LocksInv /\ LettingInv => TypeOK
    <2> SUFFICES ASSUME LocksInv, LettingInv PROVE TypeOK
      OBVIOUS
    <2>1. Occ!TypeOK
      BY DEF LettingInv, TablesTyped, Occ!TypeOK, Occ!LeaseRow, Occ!UnitRow, Occ!TenantRow,
             Occ!LeaseStatus, Occ!UnitStatus, Occ!TenantStatus, Occ!Leases, LeaseRow, UnitRow,
             TenantRow, LeaseStatus, UnitStatus, TenantStatus, Leases
    <2>2. \A r \in Requests : req[r].pc # "idle" \/ req[r] = Idle
      BY DEF LettingInv, Remembers
    <2> QED BY <2>1, <2>2 DEF TypeOK, LocksInv, LettingInv
  <1> QED BY <1>1, LettingHolds, PTL

-----------------------------------------------------------------------------
(***************************************************************************)
(* One request at a time: what a handler remembers is still so, and its    *)
(* commit is the atomic operation of Occupancy.                            *)
(***************************************************************************)
OneAtATime == \A r, s \in Requests : r = s

Letting == {"unitRead", "createChecked"} \cup Numbered

Current(q) ==
    /\ q.pc = "tenantRead" => tenant[q.t].status # "none" /\ q.row = tenant[q.t]
    /\ q.pc \in Letting =>
          tenant[q.t].status \notin {"none", "blacklisted"} /\ unit[q.u].status = "vacant"
    /\ q.pc \in Letting \ {"unitRead"} => ~HoldsLease(q.t)
    /\ q.pc \in Numbered => IsNextCode(lease, q.l)
    /\ q.pc \in Terminations =>
          Live(lease[q.l]) /\ q.t = lease[q.l].tenant /\ q.u = lease[q.l].unit
    /\ q.pc \in Blacklistings =>
          tenant[q.t].status \notin {"none", "blacklisted"} /\ q.u = tenant[q.t].unit
    /\ q.pc \in {"prospectGiven", "prospectInserted"} => tenant[q.t].status = "none"
    /\ q.pc \in {"unitLoaded", "unitDiffed"} => q.row = unit[q.u]
    /\ q.pc \in {"tenantLoaded", "tenantDiffed"} => q.row = tenant[q.t]
    /\ q.pc \in {"leaseLoaded", "leaseDiffed"} => q.row = lease[q.l]

Solo == \A r \in Requests : Current(req[r])

LEMMA IdleIsCurrent ==
    Current(Idle) /\ Current(Idle)'
  BY DEF Current, Idle, Letting, Numbered, Terminations, Blacklistings

LEMMA SoloMoves ==
    ASSUME OneAtATime, LettingInv, NEW r \in Requests, NEW q, Current(q),
           req' = [req EXCEPT ![r] = q], UNCHANGED rows
    PROVE  Solo'
  <1>1. req'[r] = q /\ \A s \in Requests : s = r
    BY DEF LettingInv, OneAtATime
  <1>2. Current(req'[r])
    BY <1>1
  <1>3. Current(req[r])'
    BY <1>2 DEF Current, rows, HoldsLease, IsNextCode, Live
  <1> QED BY <1>1, <1>3 DEF Solo

LEMMA SoloArrive ==
    ASSUME OneAtATime, LettingInv, NEW r \in Requests, Arrive(r)
    PROVE  Solo' /\ UNCHANGED rows
  <1> USE DEF Idle, Current, Letting, Numbered, Terminations, Blacklistings
  <1>0. ASSUME NEW op, NEW q, Begin(r, op, q), Current(q) PROVE Solo' /\ UNCHANGED rows
    BY <1>0, SoloMoves DEF Begin
  <1>1. ASSUME NEW t \in Tenants, ReadOffender(r, t) PROVE Solo' /\ UNCHANGED rows
    <2> DEFINE q == [Idle EXCEPT !.pc = IF tenant[t].unit = NoUnit THEN "offenderMoved"
                                        ELSE "offenderRead",
                                 !.t = t, !.u = tenant[t].unit]
    <2>1. Current(q) /\ Begin(r, "blacklist", q)
      BY <1>1 DEF ReadOffender
    <2> HIDE DEF q
    <2> QED BY <1>0, <2>1
  <1>2. ASSUME NEW t \in Tenants, GiveProspect(r, t) PROVE Solo' /\ UNCHANGED rows
    <2> DEFINE q == [Idle EXCEPT !.pc = "prospectGiven", !.t = t]
    <2>1. Current(q) /\ Begin(r, "onboard", q)
      BY <1>2 DEF GiveProspect
    <2> HIDE DEF q
    <2> QED BY <1>0, <2>1
  <1>3. ASSUME NEW t \in Tenants, LoadTenant(r, t) PROVE Solo' /\ UNCHANGED rows
    <2> DEFINE q == [Idle EXCEPT !.pc = "tenantLoaded", !.t = t, !.row = tenant[t]]
    <2>1. Current(q) /\ Begin(r, "patchTenant", q)
      BY <1>3 DEF LoadTenant
    <2> HIDE DEF q
    <2> QED BY <1>0, <2>1
  <1>4. ASSUME NEW t \in Tenants, NEW u \in Units, ReadTenant(r, t, u) PROVE Solo' /\ UNCHANGED rows
    <2> DEFINE q == [Idle EXCEPT !.pc = "tenantRead", !.t = t, !.u = u, !.row = tenant[t]]
    <2>1. Current(q) /\ Begin(r, "create", q)
      BY <1>4 DEF ReadTenant
    <2> HIDE DEF q
    <2> QED BY <1>0, <2>1
  <1>5. ASSUME NEW u \in Units, LoadUnit(r, u) PROVE Solo' /\ UNCHANGED rows
    <2> DEFINE q == [Idle EXCEPT !.pc = "unitLoaded", !.u = u, !.row = unit[u]]
    <2>1. Current(q) /\ Begin(r, "patchUnit", q)
      BY <1>5 DEF LoadUnit
    <2> HIDE DEF q
    <2> QED BY <1>0, <2>1
  <1>6. ASSUME NEW l \in Leases, ReadLease(r, l) PROVE Solo' /\ UNCHANGED rows
    <2> DEFINE q == [Idle EXCEPT !.pc = "leaseRead", !.l = l,
                                 !.t = lease[l].tenant, !.u = lease[l].unit]
    <2>1. Current(q) /\ Begin(r, "terminate", q)
      BY <1>6 DEF ReadLease
    <2> HIDE DEF q
    <2> QED BY <1>0, <2>1
  <1>7. ASSUME NEW l \in Leases, LoadLease(r, l) PROVE Solo' /\ UNCHANGED rows
    <2> DEFINE q == [Idle EXCEPT !.pc = "leaseLoaded", !.l = l, !.row = lease[l]]
    <2>1. Current(q) /\ Begin(r, "patchLease", q)
      BY <1>7 DEF LoadLease
    <2> HIDE DEF q
    <2> QED BY <1>0, <2>1
  <1> QED BY <1>1, <1>2, <1>3, <1>4, <1>5, <1>6, <1>7 DEF Arrive

\* The entity equals the row, so the save writes what is there.
LEMMA MergedSame ==
    ASSUME NEW row \in UnitRow \cup TenantRow \cup LeaseRow, NEW cols
    PROVE  Merged(row, row, cols) = row
  <1>1. row = [c \in DOMAIN row |-> row[c]]
    <2>1. CASE row \in UnitRow
      BY <2>1 DEF UnitRow
    <2>2. CASE row \in TenantRow
      BY <2>2 DEF TenantRow
    <2>3. CASE row \in LeaseRow
      BY <2>3 DEF LeaseRow
    <2> QED BY <2>1, <2>2, <2>3
  <1>2. Merged(row, row, cols) = [c \in DOMAIN row |-> row[c]]
    BY DEF Merged
  <1> QED BY <1>1, <1>2

LEMMA SoloReads ==
    ASSUME OneAtATime, LettingInv, Solo, NEW r \in Requests,
           \/ ReadUnit(r) \/ ReadLeases(r)
           \/ CompareUnit(r) \/ CompareTenant(r) \/ CompareLease(r)
    PROVE  Solo' /\ UNCHANGED rows
  <1>1. Formed(req[r]) /\ Remembers(req[r]) /\ Current(req[r])
    BY DEF LettingInv, Solo
  <1>2. /\ \A u \in Units : unit[u] \in UnitRow
        /\ \A t \in Tenants : tenant[t] \in TenantRow
    BY DEF LettingInv, TablesTyped
  <1>3. CASE ReadUnit(r)
    <2> DEFINE q == IF CanLet(r) THEN [req[r] EXCEPT !.pc = "unitRead", !.row = NoRow] ELSE Idle
    <2>1. req[r].pc = "tenantRead" /\ req' = [req EXCEPT ![r] = q] /\ UNCHANGED rows
      BY <1>3 DEF ReadUnit, LettingInv
    <2>2. CASE CanLet(r)
      <3>1. req[r].u \in Units /\ unit[req[r].u].status \in UnitStatus
        BY <1>1, <1>2, <2>1 DEF Remembers, Creations, UnitRow
      <3>2. unit[req[r].u].status = "vacant" /\ tenant[req[r].t].status \notin {"none", "blacklisted"}
        BY <1>1, <2>1, <2>2, <3>1 DEF CanLet, UnitStatus, Current
      <3>3. Current(q)
        BY <1>1, <2>2, <3>2 DEF Formed, Idle, Current, Letting, Numbered, Terminations, Blacklistings
      <3> HIDE DEF q
      <3> QED BY <2>1, <3>3, SoloMoves
    <2>3. CASE ~CanLet(r)
      <3>1. Current(q)
        BY <2>3, IdleIsCurrent
      <3> HIDE DEF q
      <3> QED BY <2>1, <3>1, SoloMoves
    <2> QED BY <2>2, <2>3
  <1>4. CASE ReadLeases(r)
    <2> DEFINE q == IF HoldsLease(req[r].t) THEN Idle ELSE [req[r] EXCEPT !.pc = "createChecked"]
    <2>1. req[r].pc = "unitRead" /\ req' = [req EXCEPT ![r] = q] /\ UNCHANGED rows
      BY <1>4 DEF ReadLeases, LettingInv
    <2>2. Current(q)
      <3>1. CASE HoldsLease(req[r].t)
        BY <3>1, IdleIsCurrent
      <3>2. CASE ~HoldsLease(req[r].t)
        BY <1>1, <2>1, <3>2 DEF Formed, Idle, Current, Letting, Numbered, Terminations, Blacklistings
      <3> QED BY <3>1, <3>2
    <2> HIDE DEF q
    <2> QED BY <2>1, <2>2, SoloMoves
  <1>5. ASSUME NEW from, NEW to, NEW row, Compare(r, from, to, row),
               <<from, to>> \in {<<"unitLoaded", "unitDiffed">>, <<"tenantLoaded", "tenantDiffed">>,
                                 <<"leaseLoaded", "leaseDiffed">>}
        PROVE  Solo' /\ UNCHANGED rows
    <2> DEFINE q == [req[r] EXCEPT !.pc = to, !.cols = Differing(req[r].row, row)]
    <2>1. req[r].pc = from /\ req' = [req EXCEPT ![r] = q] /\ UNCHANGED rows
      BY <1>5 DEF Compare, LettingInv
    <2>2. Current(q)
      BY <1>1, <1>5, <2>1 DEF Formed, Idle, Current, Letting, Numbered, Terminations, Blacklistings
    <2> HIDE DEF q
    <2> QED BY <2>1, <2>2, SoloMoves
  <1> QED BY <1>3, <1>4, <1>5 DEF CompareUnit, CompareTenant, CompareLease

LEMMA SoloStatements ==
    ASSUME OneAtATime, LettingInv, Solo, NEW r \in Requests,
           \/ OccupyUnit(r) \/ OccupyTenant(r) \/ EndLease(r) \/ VacateUnit(r) \/ VacateTenant(r)
           \/ MoveOffender(r) \/ MarkOffender(r) \/ InsertProspect(r)
           \/ InsertLease(r) \/ InsertInvoice(r) \/ StoreAgreement(r)
    PROVE  Solo' /\ UNCHANGED rows
  <1>1. Formed(req[r]) /\ Current(req[r])
    BY DEF LettingInv, Solo
  <1>2. CASE InsertLease(r)
    <2>1. PICK l \in Leases : IsNextCode(lease, l) /\
             req' = [req EXCEPT ![r] = [req[r] EXCEPT !.pc = "leaseInserted", !.l = l]]
      BY <1>2 DEF InsertLease, LettingInv
    <2> DEFINE q == [req[r] EXCEPT !.pc = "leaseInserted", !.l = l]
    <2>2. req[r].pc = "createChecked" /\ UNCHANGED rows
      BY <1>2 DEF InsertLease
    <2>3. Current(q)
      BY <1>1, <2>1, <2>2 DEF Formed, Idle, Current, Letting, Numbered, Terminations, Blacklistings
    <2>4. req' = [req EXCEPT ![r] = q]
      BY <2>1
    <2> HIDE DEF q
    <2> QED BY <2>2, <2>3, <2>4, SoloMoves
  <1>3. CASE InsertInvoice(r)
    <2>1. PICK i \in Leases :
             req' = [req EXCEPT ![r] = [req[r] EXCEPT !.pc = "invoiceInserted", !.inv = i]]
      BY <1>3 DEF InsertInvoice, LettingInv
    <2> DEFINE q == [req[r] EXCEPT !.pc = "invoiceInserted", !.inv = i]
    <2>2. req[r].pc = "leaseInserted" /\ UNCHANGED rows
      BY <1>3 DEF InsertInvoice
    <2>3. Current(q)
      BY <1>1, <2>2 DEF Formed, Idle, Current, Letting, Numbered, Terminations, Blacklistings
    <2>4. req' = [req EXCEPT ![r] = q]
      BY <2>1
    <2> HIDE DEF q
    <2> QED BY <2>2, <2>3, <2>4, SoloMoves
  <1>4. CASE StoreAgreement(r)
    <2>1. PICK d \in Leases :
             req' = [req EXCEPT ![r] = [req[r] EXCEPT !.pc = "agreementStored", !.doc = d]]
      BY <1>4 DEF StoreAgreement, LettingInv
    <2> DEFINE q == [req[r] EXCEPT !.pc = "agreementStored", !.doc = d]
    <2>2. req[r].pc = "tenantHoused" /\ UNCHANGED rows
      BY <1>4 DEF StoreAgreement
    <2>3. Current(q)
      BY <1>1, <2>2 DEF Formed, Idle, Current, Letting, Numbered, Terminations, Blacklistings
    <2>4. req' = [req EXCEPT ![r] = q]
      BY <2>1
    <2> HIDE DEF q
    <2> QED BY <2>2, <2>3, <2>4, SoloMoves
  <1>5. ASSUME NEW from \in DOMAIN After \ {"createChecked", "leaseInserted", "tenantHoused"},
               Statement(r, from, After[from])
        PROVE  Solo' /\ UNCHANGED rows
    <2> DEFINE q == [req[r] EXCEPT !.pc = After[from]]
    <2>1. req[r].pc = from /\ req' = [req EXCEPT ![r] = q] /\ UNCHANGED rows
      BY <1>5 DEF Statement, Goto, LettingInv
    <2>2. Current(q)
      BY <1>1, <2>1 DEF Formed, Idle, Current, Letting, Numbered, Terminations, Blacklistings, After
    <2> HIDE DEF q
    <2> QED BY <2>1, <2>2, SoloMoves
  <1>6. CASE \/ OccupyUnit(r) \/ OccupyTenant(r) \/ EndLease(r) \/ VacateUnit(r) \/ VacateTenant(r)
             \/ MoveOffender(r) \/ MarkOffender(r) \/ InsertProspect(r)
    <2>1. \E from \in DOMAIN After \ {"createChecked", "leaseInserted", "tenantHoused"} :
             Statement(r, from, After[from])
      BY <1>6 DEF After, OccupyUnit, OccupyTenant, EndLease, VacateUnit, VacateTenant, MoveOffender,
                  MarkOffender, InsertProspect
    <2> QED BY <1>5, <2>1
  <1> QED BY <1>2, <1>3, <1>4, <1>6

LEMMA SoloIdles ==
    ASSUME OneAtATime, LettingInv, NEW r \in Requests, req' = [req EXCEPT ![r] = Idle]
    PROVE  Solo'
  <1>1. req'[r] = Idle /\ \A s \in Requests : s = r
    BY DEF LettingInv, OneAtATime
  <1> QED BY <1>1, IdleIsCurrent DEF Solo

LEMMA SoloSaves ==
    ASSUME OneAtATime, LettingInv, Solo, NEW r \in Requests,
           SaveUnit(r) \/ SaveTenant(r) \/ SaveLease(r)
    PROVE  Solo' /\ UNCHANGED rows
  <1>1. Remembers(req[r]) /\ Current(req[r])
    BY DEF LettingInv, Solo
  <1>2. Solo'
    BY SoloIdles DEF SaveUnit, SaveTenant, SaveLease, Update
  <1>3. /\ lease \in [Leases -> LeaseRow] /\ unit \in [Units -> UnitRow]
        /\ tenant \in [Tenants -> TenantRow]
    BY DEF LettingInv, TablesTyped
  <1>4. CASE SaveUnit(r)
    <2> DEFINE u == req[r].u
    <2>1. u \in Units /\ req[r].row = unit[u]
      BY <1>1, <1>4 DEF SaveUnit, Update, Remembers, Current
    <2>2. Merged(unit[u], req[r].row, req[r].cols) = unit[u]
      BY <1>3, <2>1, MergedSame
    <2>3. unit' = unit
      BY <1>3, <1>4, <2>1, <2>2 DEF SaveUnit
    <2> QED BY <1>2, <1>4, <2>3 DEF SaveUnit, rows
  <1>5. CASE SaveTenant(r)
    <2> DEFINE t == req[r].t
    <2>1. t \in Tenants /\ req[r].row = tenant[t]
      BY <1>1, <1>5 DEF SaveTenant, Update, Remembers, Current
    <2>2. Merged(tenant[t], req[r].row, req[r].cols) = tenant[t]
      BY <1>3, <2>1, MergedSame
    <2>3. tenant' = tenant
      BY <1>3, <1>5, <2>1, <2>2 DEF SaveTenant
    <2> QED BY <1>2, <1>5, <2>3 DEF SaveTenant, rows
  <1>6. CASE SaveLease(r)
    <2> DEFINE l == req[r].l
    <2>1. l \in Leases /\ req[r].row = lease[l]
      BY <1>1, <1>6 DEF SaveLease, Update, Remembers, Current
    <2>2. Merged(lease[l], req[r].row, req[r].cols) = lease[l]
      BY <1>3, <2>1, MergedSame
    <2>3. lease' = lease
      BY <1>3, <1>6, <2>1, <2>2 DEF SaveLease
    <2> QED BY <1>2, <1>6, <2>3 DEF SaveLease, rows
  <1> QED BY <1>4, <1>5, <1>6

\* A commit of a request that ran alone is one operation of Occupancy.
LEMMA SoloCommits ==
    ASSUME OneAtATime, LettingInv, Solo, NEW r \in Requests,
           CommitLease(r) \/ CommitTermination(r) \/ CommitBlacklist(r) \/ CommitProspect(r)
    PROVE  Solo' /\ Occ!Next
  <1> DEFINE q == req[r]
  <1>1. Remembers(q) /\ Current(q)
    BY DEF LettingInv, Solo
  <1>2. Solo'
    BY SoloIdles DEF CommitLease, CommitTermination, CommitBlacklist, CommitProspect, Answer
  <1>3. CASE CommitLease(r)
    <2>1. /\ q.t \in Tenants /\ q.u \in Units
          /\ tenant[q.t].status \notin {"none", "blacklisted"} /\ unit[q.u].status = "vacant"
          /\ ~HoldsLease(q.t) /\ IsNextCode(lease, q.l)
      BY <1>1, <1>3 DEF CommitLease, Remembers, Current, Creations, Letting, Numbered
    <2>2. /\ lease' = [lease EXCEPT ![q.l] = NewLease(q.t, q.u)]
          /\ unit' = [unit EXCEPT ![q.u] = Occupied(q.t)]
          /\ tenant' = [tenant EXCEPT ![q.t] = Housed(q.u)]
      BY <1>3 DEF CommitLease
    <2> HIDE DEF q
    <2>3. \A l \in Leases : ~Occ!LiveOf(l, q.t)
      BY <2>1 DEF HoldsLease, Occ!LiveOf, Occ!Live, Live
    <2>4. q.l \in Occ!Leases /\ Occ!IsNextCode(lease, q.l)
      BY <2>1 DEF IsNextCode, Occ!IsNextCode, Leases, Occ!Leases
    <2>5. Occ!CreateLease(q.t, q.u)
      BY <2>1, <2>2, <2>3, <2>4 DEF Occ!CreateLease, Occ!NewLease, Occ!Occupied, Occ!Housed, NewLease,
            Occupied, Housed, Leases, Occ!Leases
    <2> QED BY <1>2, <2>1, <2>5 DEF Occ!Next
  <1>4. CASE CommitTermination(r)
    <2>1. /\ q.l \in Leases /\ Live(lease[q.l]) /\ q.t = lease[q.l].tenant /\ q.u = lease[q.l].unit
      BY <1>1, <1>4 DEF CommitTermination, Remembers, Current, Terminations
    <2>2. /\ lease' = [lease EXCEPT ![q.l] = EndedLease(lease[q.l])]
          /\ unit' = [unit EXCEPT ![q.u] = Vacant]
          /\ tenant' = [tenant EXCEPT ![q.t] = MovedOut]
      BY <1>4 DEF CommitTermination
    <2> HIDE DEF q
    <2>3. Occ!Terminate(q.l)
      BY <2>1, <2>2 DEF Occ!Terminate, Occ!Live, Live, Occ!EndedLease, EndedLease, Occ!Vacant, Vacant,
            Occ!MovedOut, MovedOut
    <2> QED BY <1>2, <2>1, <2>3 DEF Occ!Next, Leases, Occ!Leases
  <1>5. CASE CommitBlacklist(r)
    <2>1. /\ q.t \in Tenants /\ tenant[q.t].status \notin {"none", "blacklisted"}
          /\ q.u = tenant[q.t].unit
      BY <1>1, <1>5 DEF CommitBlacklist, Remembers, Current, Blacklistings
    <2>2. /\ unit' = IF q.u = NoUnit THEN unit ELSE [unit EXCEPT ![q.u] = Vacant]
          /\ tenant' = [tenant EXCEPT ![q.t] = Blacklisted]
          /\ lease' = lease
      BY <1>5 DEF CommitBlacklist
    <2> HIDE DEF q
    <2>3. Occ!Blacklist(q.t)
      BY <2>1, <2>2 DEF Occ!Blacklist, Occ!Vacant, Vacant, Occ!Blacklisted, Blacklisted
    <2> QED BY <1>2, <2>1, <2>3 DEF Occ!Next
  <1>6. CASE CommitProspect(r)
    <2>1. q.t \in Tenants /\ tenant[q.t].status = "none"
      BY <1>1, <1>6 DEF CommitProspect, Remembers, Current
    <2>2. tenant' = [tenant EXCEPT ![q.t] = Prospect] /\ lease' = lease /\ unit' = unit
      BY <1>6 DEF CommitProspect
    <2> HIDE DEF q
    <2>3. Occ!Onboard(q.t)
      BY <2>1, <2>2 DEF Occ!Onboard, Occ!Prospect, Prospect
    <2> QED BY <1>2, <2>1, <2>3 DEF Occ!Next
  <1> QED BY <1>3, <1>4, <1>5, <1>6

LEMMA SoloStep ==
    ASSUME OneAtATime, LettingInv, Solo, [Next]_vars
    PROVE  Solo' /\ [Occ!Next]_(Occ!vars)
  <1>1. CASE Next
    <2>1. PICK r \in Requests : Arrive(r) \/ Advance(r) \/ Fail(r)
      BY <1>1 DEF Next
    <2>2. CASE Fail(r)
      BY <2>2, SoloIdles DEF Fail, Answer, rows, Occ!vars
    <2>3. CASE Arrive(r)
      BY <2>3, SoloArrive DEF rows, Occ!vars
    <2>4. CASE Advance(r)
      BY <2>4, SoloReads, SoloStatements, SoloSaves, SoloCommits DEF Advance, rows, Occ!vars
    <2> QED BY <2>1, <2>2, <2>3, <2>4
  <1>2. CASE UNCHANGED vars
    BY <1>2 DEF vars, rows, Occ!vars, Solo, Current, HoldsLease, IsNextCode, Live
  <1> QED BY <1>1, <1>2

\* With one request in flight at a time, the handlers implement Occupancy,
\* for any tables and any requests that fail on the way.
THEOREM AloneTheyAreAtomic ==
    ASSUME OneAtATime
    PROVE  Spec => ImplementsOccupancy
  <1>1. Init => Occ!Init /\ Solo
    <2> SUFFICES ASSUME Init PROVE Occ!Init /\ Solo
      OBVIOUS
    <2>1. \A r \in Requests : req[r] = Idle
      BY DEF Init
    <2> QED BY <2>1, IdleIsCurrent DEF Init, Solo
  <1>2. LettingInv /\ Solo /\ [Next]_vars => Solo' /\ [Occ!Next]_(Occ!vars)
    BY SoloStep
  <1> QED BY <1>1, <1>2, LettingHolds, PTL DEF Spec, ImplementsOccupancy, Occ!Spec
=============================================================================
