------------------------------ MODULE DeskProofs ------------------------------
(***************************************************************************)
(* What the handlers of Backoffice share, for any number of requests in    *)
(* flight.  MAX(code) + 1 is no code in use; a transaction that has        *)
(* numbered a row holds its table's lock until it ends, so no other can    *)
(* number a row, insert into the table or update it; and the steps of one  *)
(* component do not concern what the requests of another remember.  Two    *)
(* components follow, maintenance and the portfolio; the documents, the    *)
(* inbox and the desk as a whole are in BackofficeProofs.                  *)
(***************************************************************************)
EXTENDS Backoffice, FiniteSetTheorems, WellFoundedInduction, TLAPS

\* A non-empty bounded set of numbers has a largest one.
LEMMA MaxExists ==
    ASSUME NEW bound \in Nat, NEW used \in SUBSET (1..bound), used # {}
    PROVE  /\ Max(used) \in used
           /\ \A k \in used : k <= Max(used)
  <1> DEFINE gaps == {bound - k : k \in used}
  <1>1. gaps \subseteq Nat /\ gaps # {}
    <2>1. \A k \in used : bound - k \in Nat
      OBVIOUS
    <2> QED BY <2>1
  <1>2. PICK g \in gaps : \A h \in gaps : ~(<<h, g>> \in OpToRel(<, Nat))
    <2> HIDE DEF gaps
    <2> QED BY <1>1, NatLessThanWellFounded, WFMin
  <1>3. PICK m \in used : g = bound - m
    OBVIOUS
  <1>4. \A k \in used : m >= k
    <2> SUFFICES ASSUME NEW k \in used, k > m PROVE FALSE
      OBVIOUS
    <2>1. bound - k \in gaps /\ bound - k \in Nat /\ g \in Nat /\ bound - k < g
      BY <1>3
    <2>2. <<bound - k, g>> \in OpToRel(<, Nat)
      BY <2>1 DEF OpToRel
    <2> QED BY <1>2, <2>1, <2>2
  <1>5. \E x \in used : \A y \in used : x >= y
    BY <1>4
  <1>6. Max(used) \in used /\ \A y \in used : Max(used) >= y
    BY <1>5 DEF Max
  <1> QED BY <1>6

\* The number a transaction computes is free.
LEMMA NextIsFree ==
    ASSUME NEW bound \in Nat, NEW used \in SUBSET (1..bound)
    PROVE  NextNumber(used) \notin used
  <1>1. CASE used = {}
    BY <1>1
  <1>2. CASE used # {}
    <2>1. Max(used) \in 1..bound /\ \A k \in used : k <= Max(used)
      BY <1>2, MaxExists
    <2>2. Max(used) + 1 \notin used
      <3> DEFINE m == Max(used)
      <3>1. m \in 1..bound /\ \A k \in used : k <= m
        BY <2>1
      <3> HIDE DEF m
      <3>2. m + 1 \notin used
        BY <3>1
      <3> QED BY <3>2 DEF m
    <2> QED BY <1>2, <2>2 DEF NextNumber
  <1> QED BY <1>1, <1>2
-----------------------------------------------------------------------------
\* Where a handler holds a lock, and the table it is for.
TableOf ==
    [ticketNumbered       |-> "maintenance_requests",
     technicianNumbered   |-> "technicians",
     codeAllocated        |-> "documents",
     objectStored         |-> "documents",
     propertyNumbered     |-> "properties",
     unitNumbered         |-> "units",
     notificationNumbered |-> "notifications",
     templateNumbered     |-> "notification_templates"]

Numbering(q) == q.pc \in DOMAIN TableOf

LockInv ==
    /\ req = [r \in Requests |-> req[r]]
    /\ LocksTypeOK
    /\ LocksExclude
    /\ \A r \in Requests : Numbering(req[r]) => TableOf[req[r].pc] \in held[r].sre

\* Only one transaction at a time is beyond the lock of a table.
LEMMA OneNumbering ==
    ASSUME LockInv, NEW r \in Requests, NEW s \in Requests, r # s,
           Numbering(req[r]), Numbering(req[s])
    PROVE  TableOf[req[r].pc] # TableOf[req[s].pc]
  <1>1. TableOf[req[r].pc] \in held[r].sre /\ TableOf[req[s].pc] \in held[s].sre
    BY DEF LockInv
  <1>2. ~Conflict(held[r], held[s])
    BY DEF LockInv, LocksExclude
  <1> QED BY <1>1, <1>2 DEF Conflict

\* A statement outside a transaction finds nobody beyond the lock.
LEMMA WritersWait ==
    ASSUME LockInv, NEW r \in Requests, NEW s \in Requests, r # s,
           NEW table, MayWrite(r, table), Numbering(req[s])
    PROVE  TableOf[req[s].pc] # table
  <1>1. TableOf[req[s].pc] \in held[s].sre
    BY DEF LockInv
  <1>2. ~Conflict([NoLocks EXCEPT !.rx = {table}], held[s])
    BY DEF MayWrite, Grantable
  <1> QED BY <1>1, <1>2 DEF Conflict, NoLocks

LEMMA MoveKeepsLocks ==
    ASSUME LockInv, NEW r \in Requests, NEW q, req' = [req EXCEPT ![r] = q], held' = held,
           Numbering(q) => TableOf[q.pc] \in held[r].sre
    PROVE  LockInv'
  <1>1. /\ req' = [s \in Requests |-> req'[s]]
        /\ req'[r] = q
        /\ \A s \in Requests : s # r => req'[s] = req[s]
    BY DEF LockInv
  <1>2. LocksTypeOK' /\ LocksExclude'
    BY DEF LockInv, LocksTypeOK, LocksExclude
  <1>3. ASSUME NEW s \in Requests, Numbering(req'[s])
        PROVE  TableOf[req'[s].pc] \in held'[s].sre
    <2>1. CASE s = r
      BY <1>1, <1>3, <2>1
    <2>2. CASE s # r
      BY <1>1, <1>3, <2>2 DEF LockInv
    <2> QED BY <2>1, <2>2
  <1> QED BY <1>1, <1>2, <1>3 DEF LockInv, Numbering

LEMMA AnswerKeepsLocks ==
    ASSUME LockInv, NEW r \in Requests, Answer(r)
    PROVE  LockInv'
  <1>1. /\ req' = [s \in Requests |-> req'[s]]
        /\ req'[r] = Idle
        /\ \A s \in Requests : s # r => req'[s] = req[s]
    BY DEF LockInv, Answer
  <1>2. /\ held' \in [Requests -> LockSet]
        /\ held'[r] = NoLocks
        /\ \A s \in Requests : s # r => held'[s] = held[s]
    BY DEF LockInv, Answer, Release, LocksTypeOK, LockSet, NoLocks
  <1>3. LocksExclude'
    <2> SUFFICES ASSUME NEW c \in Requests, NEW d \in Requests, c # d
                 PROVE  ~Conflict(held'[c], held'[d])
      BY DEF LocksExclude
    <2>1. CASE c = r \/ d = r
      BY <1>2, <2>1 DEF Conflict, NoLocks
    <2>2. CASE c # r /\ d # r
      BY <1>2, <2>2 DEF LockInv, LocksExclude
    <2> QED BY <2>1, <2>2
  <1>4. ASSUME NEW s \in Requests, Numbering(req'[s])
        PROVE  TableOf[req'[s].pc] \in held'[s].sre
    <2>1. CASE s = r
      BY <1>1, <1>4, <2>1 DEF Idle, Numbering, TableOf
    <2>2. CASE s # r
      BY <1>1, <1>2, <1>4, <2>2 DEF LockInv
    <2> QED BY <2>1, <2>2
  <1> QED BY <1>1, <1>2, <1>3, <1>4 DEF LockInv, Numbering, LocksTypeOK

LEMMA NumberKeepsLocks ==
    ASSUME LockInv, NEW r \in Requests, NEW q,
           NEW table \in {"properties", "units", "technicians", "maintenance_requests",
                          "documents", "notifications", "notification_templates"},
           Number(r, table, q), Numbering(q) => TableOf[q.pc] = table
    PROVE  LockInv'
  <1>1. /\ req' = [s \in Requests |-> req'[s]]
        /\ req'[r] = q
        /\ \A s \in Requests : s # r => req'[s] = req[s]
    BY DEF LockInv, Number
  <1>2. /\ held \in [Requests -> LockSet]
        /\ held' = [held EXCEPT ![r] = [sre  |-> @.sre \cup {table},
                                        rx   |-> @.rx \cup {},
                                        rows |-> @.rows \cup {}]]
    BY DEF LockInv, LocksTypeOK, Number, Acquire, TableLock
  <1>3. /\ held'[r] = [sre |-> held[r].sre \cup {table}, rx |-> held[r].rx, rows |-> held[r].rows]
        /\ \A s \in Requests : s # r => held'[s] = held[s]
    BY <1>2
  <1>4. held' \in [Requests -> LockSet]
    <2>1. held'[r] \in LockSet
      BY <1>2, <1>3 DEF LockSet
    <2> QED BY <1>2, <1>3, <2>1
  <1>5. LocksExclude'
    <2> SUFFICES ASSUME NEW c \in Requests, NEW d \in Requests, c # d
                 PROVE  ~Conflict(held'[c], held'[d])
      BY DEF LocksExclude
    <2>0. ASSUME NEW s \in Requests, s # r
          PROVE  ~Conflict(TableLock(table), held[s]) /\ ~Conflict(held[s], held[r])
                 /\ ~Conflict(held[r], held[s])
      BY <2>0 DEF Number, Acquire, Grantable, LockInv, LocksExclude
    <2>1. CASE c = r
      BY <1>3, <2>0, <2>1 DEF Conflict, TableLock
    <2>2. CASE d = r
      <3>1. c # r
        BY <2>2
      <3> QED BY <1>3, <2>0, <2>2, <3>1 DEF Conflict, TableLock
    <2>3. CASE c # r /\ d # r
      BY <1>3, <2>3 DEF LockInv, LocksExclude
    <2> QED BY <2>1, <2>2, <2>3
  <1>6. ASSUME NEW s \in Requests, Numbering(req'[s])
        PROVE  TableOf[req'[s].pc] \in held'[s].sre
    <2>1. CASE s = r
      BY <1>1, <1>3, <1>6, <2>1
    <2>2. CASE s # r
      BY <1>1, <1>3, <1>6, <2>2 DEF LockInv
    <2> QED BY <2>1, <2>2
  <1> QED BY <1>1, <1>4, <1>5, <1>6 DEF LockInv, Numbering, LocksTypeOK

LEMMA BeginKeepsLocks ==
    ASSUME LockInv, NEW r \in Requests, NEW op, NEW q, Begin(r, op, q), ~Numbering(q)
    PROVE  LockInv'
  BY MoveKeepsLocks DEF Begin

LEMMA MaintenanceKeepsLocks ==
    ASSUME LockInv, NEW r \in Requests, MaintenanceArrive(r) \/ MaintenanceAdvance(r)
    PROVE  LockInv'
  <1> USE DEF Numbering, TableOf
  <1>1. ASSUME NEW c \in Categories, Submit(r, c) PROVE LockInv'
    BY <1>1, BeginKeepsLocks DEF Submit
  <1>2. ASSUME NEW n \in Tickets, NEW m \in Technicians, ReadForAssign(r, n, m) PROVE LockInv'
    BY <1>2, BeginKeepsLocks DEF ReadForAssign
  <1>3. ASSUME NEW n \in Tickets, ReadForStart(r, n) \/ ReadForComplete(r, n) \/ ReadForClose(r, n)
        PROVE  LockInv'
    BY <1>3, BeginKeepsLocks DEF ReadForStart, ReadForComplete, ReadForClose
  <1>4. ASSUME NEW skills, NumberTechnician(r, skills) PROVE LockInv'
    BY <1>4, NumberKeepsLocks DEF NumberTechnician
  <1>5. ASSUME NumberTicket(r) PROVE LockInv'
    BY <1>5, NumberKeepsLocks DEF NumberTicket
  <1>6. ASSUME CommitTicket(r) \/ UpdateTicket(r) \/ CommitTechnician(r) PROVE LockInv'
    BY <1>6, AnswerKeepsLocks DEF CommitTicket, UpdateTicket, CommitTechnician
  <1> QED BY <1>1, <1>2, <1>3, <1>4, <1>5, <1>6 DEF MaintenanceArrive, MaintenanceAdvance

LEMMA DocumentsKeepLocks ==
    ASSUME LockInv, NEW r \in Requests, DocumentsArrive(r) \/ DocumentsAdvance(r)
    PROVE  LockInv'
  <1> USE DEF Numbering, TableOf
  <1>1. ASSUME NEW f, FindOwner(r, f) PROVE LockInv'
    BY <1>1, BeginKeepsLocks DEF FindOwner
  <1>2. ASSUME GenerateAgreement(r) PROVE LockInv'
    BY <1>2, BeginKeepsLocks DEF GenerateAgreement
  <1>3. ASSUME NEW n, ReadForRemove(r, n) PROVE LockInv'
    BY <1>3, BeginKeepsLocks DEF ReadForRemove
  <1>4. ASSUME AllocateCode(r) PROVE LockInv'
    BY <1>4, NumberKeepsLocks DEF AllocateCode
  <1>5. ASSUME StoreObject(r) PROVE LockInv'
    <2>1. "documents" \in held[r].sre
      BY <1>5 DEF StoreObject, At, LockInv
    <2> DEFINE q == [pc |-> "objectStored", n |-> req[r].n, file |-> req[r].file, id |-> uploads']
    <2>2. req' = [req EXCEPT ![r] = q] /\ held' = held
      BY <1>5 DEF StoreObject
    <2> QED BY <2>1, <2>2, MoveKeepsLocks
  <1>6. ASSUME RemoveRow(r) PROVE LockInv'
    BY <1>6, MoveKeepsLocks DEF RemoveRow
  <1>7. ASSUME CommitDocument(r) \/ DeleteObject(r) PROVE LockInv'
    BY <1>7, AnswerKeepsLocks DEF CommitDocument, DeleteObject
  <1> QED BY <1>1, <1>2, <1>3, <1>4, <1>5, <1>6, <1>7 DEF DocumentsArrive, DocumentsAdvance

LEMMA PortfolioKeepsLocks ==
    ASSUME LockInv, NEW r \in Requests, PortfolioArrive(r) \/ PortfolioAdvance(r)
    PROVE  LockInv'
  <1> USE DEF Numbering, TableOf
  <1>1. ASSUME NumberProperty(r) \/ NumberUnit(r) PROVE LockInv'
    BY <1>1, NumberKeepsLocks DEF NumberProperty, NumberUnit
  <1>2. ASSUME NEW p, NEW s, LoadProperty(r, p, s) PROVE LockInv'
    BY <1>2, BeginKeepsLocks DEF LoadProperty
  <1>3. ASSUME NEW p, LoadForArchive(r, p) PROVE LockInv'
    BY <1>3, BeginKeepsLocks DEF LoadForArchive
  <1>4. ASSUME NEW p, NEW no, FindProperty(r, p, no) PROVE LockInv'
    BY <1>4, BeginKeepsLocks DEF FindProperty
  <1>5. ASSUME NEW p, NEW k, NEW no, LoadUnit(r, p, k, no) PROVE LockInv'
    BY <1>5, BeginKeepsLocks DEF LoadUnit
  <1>6. ASSUME CommitProperty(r) \/ SaveProperty(r) \/ CommitUnit(r) \/ SaveUnit(r) PROVE LockInv'
    BY <1>6, AnswerKeepsLocks DEF CommitProperty, SaveProperty, CommitUnit, SaveUnit
  <1> QED BY <1>1, <1>2, <1>3, <1>4, <1>5, <1>6 DEF PortfolioArrive, PortfolioAdvance

LEMMA InboxKeepsLocks ==
    ASSUME LockInv, NEW r \in Requests, InboxArrive(r) \/ InboxAdvance(r)
    PROVE  LockInv'
  <1> USE DEF Numbering, TableOf
  <1>1. ASSUME NumberNotification(r) \/ NumberTemplate(r) PROVE LockInv'
    BY <1>1, NumberKeepsLocks DEF NumberNotification, NumberTemplate
  <1>2. ASSUME MarkAllRead(r) PROVE LockInv'
    BY <1>2 DEF MarkAllRead, desk, LockInv, LocksTypeOK, LocksExclude
  <1>3. ASSUME NEW n, ReadForMark(r, n) PROVE LockInv'
    BY <1>3, BeginKeepsLocks DEF ReadForMark
  <1>4. ASSUME NEW op, NEW next, FindSettings(r, op, next) PROVE LockInv'
    BY <1>4, BeginKeepsLocks DEF FindSettings, Found
  <1>5. ASSUME StampSettings(r) PROVE LockInv'
    BY <1>5, MoveKeepsLocks DEF StampSettings
  <1>6. ASSUME InsertSettings(r) PROVE LockInv'
    BY <1>6, MoveKeepsLocks DEF InsertSettings
  <1>7. ASSUME \/ CommitNotification(r) \/ SaveMark(r) \/ CommitTemplates(r)
               \/ AnswerSettings(r) \/ SaveSettings(r)
        PROVE  LockInv'
    BY <1>7, AnswerKeepsLocks
       DEF CommitNotification, SaveMark, CommitTemplates, AnswerSettings, SaveSettings
  <1> QED BY <1>1, <1>2, <1>3, <1>4, <1>5, <1>6, <1>7
          DEF InboxArrive, InboxAdvance, GetSettings, PutSettings

LEMMA LocksInit == Init => LockInv
  <1> SUFFICES ASSUME Init PROVE LockInv
    OBVIOUS
  <1>1. /\ req = [r \in Requests |-> Idle]
        /\ held = [r \in Requests |-> NoLocks]
    BY DEF Init, DeskInit
  <1> QED BY <1>1 DEF LockInv, LocksTypeOK, LocksExclude, LockSet, Conflict, NoLocks,
                      Numbering, TableOf, Idle

LEMMA LocksNext == LockInv /\ [Next]_vars => LockInv'
  <1> SUFFICES ASSUME LockInv, [Next]_vars PROVE LockInv'
    OBVIOUS
  <1>1. CASE UNCHANGED vars
    BY <1>1 DEF vars, desk, LockInv, LocksTypeOK, LocksExclude
  <1>2. ASSUME NEW r \in Requests, Arrive(r) PROVE LockInv'
    BY <1>2, MaintenanceKeepsLocks, DocumentsKeepLocks, PortfolioKeepsLocks, InboxKeepsLocks
       DEF Arrive
  <1>3. ASSUME NEW r \in Requests, Advance(r) PROVE LockInv'
    BY <1>3, MaintenanceKeepsLocks, DocumentsKeepLocks, PortfolioKeepsLocks, InboxKeepsLocks
       DEF Advance
  <1>4. ASSUME NEW r \in Requests, Fail(r) PROVE LockInv'
    BY <1>4, AnswerKeepsLocks DEF Fail
  <1> QED BY <1>1, <1>2, <1>3, <1>4 DEF Next
-----------------------------------------------------------------------------
(***************************************************************************)
(* The handlers of a component leave their request in a state of its own,  *)
(* so that the invariants of one component can ignore the others' steps.   *)
(***************************************************************************)
MaintenancePcs == {"idle", "submitting", "ticketNumbered", "transition", "technicianNumbered"}

DocumentPcs == {"idle", "ownerFound", "codeAllocated", "objectStored", "documentRead", "rowRemoved"}

PortfolioPcs == {"idle", "propertyNumbered", "propertyLoaded", "propertyFound", "unitNumbered",
                 "unitLoaded"}

InboxPcs == {"idle", "notificationNumbered", "marking", "templateNumbered", "settingsMissing",
             "settingsStamped", "settingsFound"}

Moves(r, pcs) == req'[r].pc \in pcs /\ \A s \in Requests \ {r} : req'[s] = req[s]

LEMMA MaintenanceMoves ==
    ASSUME LockInv, NEW r \in Requests, MaintenanceArrive(r) \/ MaintenanceAdvance(r)
    PROVE  Moves(r, MaintenancePcs)
  <1>0. req = [s \in Requests |-> req[s]]
    BY DEF LockInv
  <1> USE <1>0 DEF Moves, MaintenancePcs, Begin, Number, Answer, Idle
  <1>1. ASSUME NEW c \in Categories, Submit(r, c) PROVE Moves(r, MaintenancePcs)
    BY <1>1 DEF Submit
  <1>2. ASSUME NEW n \in Tickets, NEW m \in Technicians, ReadForAssign(r, n, m)
        PROVE  Moves(r, MaintenancePcs)
    BY <1>2 DEF ReadForAssign
  <1>3. ASSUME NEW n \in Tickets, ReadForStart(r, n) PROVE Moves(r, MaintenancePcs)
    BY <1>3 DEF ReadForStart
  <1>4. ASSUME NEW n \in Tickets, ReadForComplete(r, n) PROVE Moves(r, MaintenancePcs)
    BY <1>4 DEF ReadForComplete
  <1>5. ASSUME NEW n \in Tickets, ReadForClose(r, n) PROVE Moves(r, MaintenancePcs)
    BY <1>5 DEF ReadForClose
  <1>6. ASSUME NEW skills, NumberTechnician(r, skills) PROVE Moves(r, MaintenancePcs)
    BY <1>6 DEF NumberTechnician
  <1>7. ASSUME NumberTicket(r) PROVE Moves(r, MaintenancePcs)
    BY <1>7 DEF NumberTicket
  <1>8. ASSUME CommitTicket(r) \/ UpdateTicket(r) \/ CommitTechnician(r)
        PROVE  Moves(r, MaintenancePcs)
    BY <1>8 DEF CommitTicket, UpdateTicket, CommitTechnician
  <1> QED BY <1>1, <1>2, <1>3, <1>4, <1>5, <1>6, <1>7, <1>8
          DEF MaintenanceArrive, MaintenanceAdvance

LEMMA DocumentsMove ==
    ASSUME LockInv, NEW r \in Requests, DocumentsArrive(r) \/ DocumentsAdvance(r)
    PROVE  Moves(r, DocumentPcs)
  <1>0. req = [s \in Requests |-> req[s]]
    BY DEF LockInv
  <1> USE <1>0 DEF Moves, DocumentPcs, Begin, Number, Answer, Idle
  <1>1. ASSUME NEW f, FindOwner(r, f) PROVE Moves(r, DocumentPcs)
    BY <1>1 DEF FindOwner
  <1>2. ASSUME GenerateAgreement(r) PROVE Moves(r, DocumentPcs)
    BY <1>2 DEF GenerateAgreement
  <1>3. ASSUME NEW n, ReadForRemove(r, n) PROVE Moves(r, DocumentPcs)
    BY <1>3 DEF ReadForRemove
  <1>4. ASSUME AllocateCode(r) PROVE Moves(r, DocumentPcs)
    BY <1>4 DEF AllocateCode
  <1>5. ASSUME StoreObject(r) PROVE Moves(r, DocumentPcs)
    BY <1>5 DEF StoreObject
  <1>6. ASSUME RemoveRow(r) PROVE Moves(r, DocumentPcs)
    BY <1>6 DEF RemoveRow
  <1>7. ASSUME CommitDocument(r) \/ DeleteObject(r) PROVE Moves(r, DocumentPcs)
    BY <1>7 DEF CommitDocument, DeleteObject
  <1> QED BY <1>1, <1>2, <1>3, <1>4, <1>5, <1>6, <1>7 DEF DocumentsArrive, DocumentsAdvance

LEMMA PortfolioMoves ==
    ASSUME LockInv, NEW r \in Requests, PortfolioArrive(r) \/ PortfolioAdvance(r)
    PROVE  Moves(r, PortfolioPcs)
  <1>0. req = [s \in Requests |-> req[s]]
    BY DEF LockInv
  <1> USE <1>0 DEF Moves, PortfolioPcs, Begin, Number, Answer, Idle
  <1>1. ASSUME NumberProperty(r) \/ NumberUnit(r) PROVE Moves(r, PortfolioPcs)
    BY <1>1 DEF NumberProperty, NumberUnit
  <1>2. ASSUME NEW p, NEW s, LoadProperty(r, p, s) PROVE Moves(r, PortfolioPcs)
    BY <1>2 DEF LoadProperty
  <1>3. ASSUME NEW p, LoadForArchive(r, p) PROVE Moves(r, PortfolioPcs)
    BY <1>3 DEF LoadForArchive
  <1>4. ASSUME NEW p, NEW no, FindProperty(r, p, no) PROVE Moves(r, PortfolioPcs)
    BY <1>4 DEF FindProperty
  <1>5. ASSUME NEW p, NEW k, NEW no, LoadUnit(r, p, k, no) PROVE Moves(r, PortfolioPcs)
    BY <1>5 DEF LoadUnit
  <1>6. ASSUME CommitProperty(r) \/ SaveProperty(r) \/ CommitUnit(r) \/ SaveUnit(r)
        PROVE  Moves(r, PortfolioPcs)
    BY <1>6 DEF CommitProperty, SaveProperty, CommitUnit, SaveUnit
  <1> QED BY <1>1, <1>2, <1>3, <1>4, <1>5, <1>6 DEF PortfolioArrive, PortfolioAdvance

LEMMA InboxMoves ==
    ASSUME LockInv, NEW r \in Requests, InboxArrive(r) \/ InboxAdvance(r)
    PROVE  Moves(r, InboxPcs)
  <1>0. req = [s \in Requests |-> req[s]]
    BY DEF LockInv
  <1> USE <1>0 DEF Moves, InboxPcs, Begin, Number, Answer, Idle
  <1>1. ASSUME NumberNotification(r) \/ NumberTemplate(r) PROVE Moves(r, InboxPcs)
    BY <1>1 DEF NumberNotification, NumberTemplate
  <1>2. ASSUME MarkAllRead(r) PROVE Moves(r, InboxPcs)
    BY <1>2 DEF MarkAllRead, desk
  <1>3. ASSUME NEW n, ReadForMark(r, n) PROVE Moves(r, InboxPcs)
    BY <1>3 DEF ReadForMark
  <1>4. ASSUME NEW op, NEW next, FindSettings(r, op, next) PROVE Moves(r, InboxPcs)
    BY <1>4 DEF FindSettings, Found
  <1>5. ASSUME StampSettings(r) PROVE Moves(r, InboxPcs)
    BY <1>5 DEF StampSettings
  <1>6. ASSUME InsertSettings(r) PROVE Moves(r, InboxPcs)
    BY <1>6 DEF InsertSettings
  <1>7. ASSUME \/ CommitNotification(r) \/ SaveMark(r) \/ CommitTemplates(r)
               \/ AnswerSettings(r) \/ SaveSettings(r)
        PROVE  Moves(r, InboxPcs)
    BY <1>7 DEF CommitNotification, SaveMark, CommitTemplates, AnswerSettings, SaveSettings
  <1> QED BY <1>1, <1>2, <1>3, <1>4, <1>5, <1>6, <1>7
          DEF InboxArrive, InboxAdvance, GetSettings, PutSettings

LEMMA FailMoves ==
    ASSUME LockInv, NEW r \in Requests, Fail(r)
    PROVE  Moves(r, {"idle"})
  BY DEF LockInv, Fail, Answer, Moves, Idle
-----------------------------------------------------------------------------
(***************************************************************************)
(* Maintenance.  A transition about to update its ticket knows that the    *)
(* stages before its own were passed, and, unless it assigns, that the     *)
(* ticket has been assigned; neither is ever undone, since no update sets  *)
(* a ticket back to "open" and technicians are not edited.                 *)
(***************************************************************************)
MaintenanceRemembers(q) ==
    /\ q.pc = "submitting" => q.category \in Categories
    /\ q.pc = "ticketNumbered" => q.category \in Categories /\ q.n \in Tickets /\ ~Filed(q.n)
    /\ q.pc = "technicianNumbered" =>
          q.skills \in SUBSET Categories /\ q.n \in Technicians /\ ~Hired(q.n)
    /\ q.pc = "transition" =>
          /\ q.n \in Tickets /\ Filed(q.n)
          /\ q.to \in {"assigned", "in_progress", "completed", "closed"}
          /\ UpTo(q.to) \ {q.to} \subseteq visited[q.n]
          /\ IF q.to = "assigned"
             THEN q.assignee \in Technicians /\ Covers(q.assignee, ticket[q.n].category)
             ELSE ticket[q.n].status # "open"

MaintenanceInv ==
    /\ MaintenanceTypeOK
    /\ NothingIsSkipped
    /\ AssigneeIsQualified
    /\ \A r \in Requests : MaintenanceRemembers(req[r])

\* The stages in their order.
LEMMA StagesUpTo ==
    /\ UpTo("open") = {"open"}
    /\ UpTo("assigned") = {"open", "assigned"}
    /\ UpTo("in_progress") = {"open", "assigned", "in_progress"}
    /\ UpTo("completed") = {"open", "assigned", "in_progress", "completed"}
    /\ UpTo("closed") = {"open", "assigned", "in_progress", "completed", "closed"}
  <1>1. /\ DOMAIN Stages = 1..5
        /\ Stages[1] = "open" /\ Stages[2] = "assigned" /\ Stages[3] = "in_progress"
        /\ Stages[4] = "completed" /\ Stages[5] = "closed"
    BY DEF Stages
  <1>2. \A k \in 1..5 : k = 1 \/ k = 2 \/ k = 3 \/ k = 4 \/ k = 5
    OBVIOUS
  <1> HIDE DEF Stages
  <1>3. /\ Rank("open") = 1 /\ Rank("assigned") = 2 /\ Rank("in_progress") = 3
        /\ Rank("completed") = 4 /\ Rank("closed") = 5
    BY <1>1, <1>2 DEF Rank
  <1>4. UpTo("open") = {"open"}
    BY <1>1, <1>3 DEF UpTo
  <1>5. UpTo("assigned") = {"open", "assigned"}
    BY <1>1, <1>3 DEF UpTo
  <1>6. UpTo("in_progress") = {"open", "assigned", "in_progress"}
    BY <1>1, <1>3 DEF UpTo
  <1>7. UpTo("completed") = {"open", "assigned", "in_progress", "completed"}
    BY <1>1, <1>3 DEF UpTo
  <1>8. UpTo("closed") = {"open", "assigned", "in_progress", "completed", "closed"}
    BY <1>1, <1>3 DEF UpTo
  <1> QED BY <1>4, <1>5, <1>6, <1>7, <1>8

LEMMA StagesAreNested ==
    ASSUME NEW s \in UpTo("closed")
    PROVE  s \in UpTo(s) /\ \A t \in UpTo(s) : UpTo(t) \subseteq UpTo(s)
  BY StagesUpTo

\* A step that leaves maintenance alone need only be looked at for what its
\* own request remembers.
LEMMA MaintenanceMovesOn ==
    ASSUME MaintenanceInv, NEW r \in Requests, UNCHANGED maintenance,
           \A s \in Requests \ {r} : req'[s] = req[s],
           MaintenanceRemembers(req'[r])
    PROVE  MaintenanceInv'
  <1>1. ASSUME NEW s \in Requests PROVE MaintenanceRemembers(req[s])'
    <2>1. CASE s = r
      BY <2>1 DEF maintenance, MaintenanceRemembers, Filed, Hired, Covers
    <2>2. CASE s # r
      BY <2>2 DEF maintenance, MaintenanceInv, MaintenanceRemembers, Filed, Hired, Covers
    <2> QED BY <2>1, <2>2
  <1>2. (MaintenanceTypeOK /\ NothingIsSkipped /\ AssigneeIsQualified)'
    BY DEF maintenance, MaintenanceInv, MaintenanceTypeOK, NothingIsSkipped, AssigneeIsQualified,
           Filed, Covers
  <1> QED BY <1>1, <1>2 DEF MaintenanceInv

LEMMA ArrivalsKeepMaintenance ==
    ASSUME LockInv, MaintenanceInv, NEW r \in Requests, MaintenanceArrive(r)
    PROVE  MaintenanceInv'
  <1>0. /\ req = [s \in Requests |-> req[s]]
        /\ \A s \in Requests \ {r} : req'[s] = req[s]
    BY MaintenanceMoves DEF LockInv, Moves
  <1>1. ASSUME UNCHANGED maintenance, MaintenanceRemembers(req'[r]) PROVE MaintenanceInv'
    BY <1>0, <1>1, MaintenanceMovesOn
  <1>2. ASSUME NEW c \in Categories, Submit(r, c) PROVE MaintenanceInv'
    BY <1>0, <1>1, <1>2 DEF Submit, Begin, MaintenanceRemembers
  <1>3. ASSUME NEW n \in Tickets, NEW m \in Technicians, ReadForAssign(r, n, m)
        PROVE  MaintenanceInv'
    <2>1. ticket[n].status = "open" /\ Filed(n) /\ UpTo("assigned") \ {"assigned"} \subseteq visited[n]
      BY <1>3, StagesUpTo DEF ReadForAssign, Filed, MaintenanceInv, MaintenanceTypeOK
    <2>2. /\ req'[r] = [pc |-> "transition", n |-> n, to |-> "assigned", assignee |-> m]
          /\ Covers(m, ticket[n].category)
          /\ UNCHANGED maintenance
      BY <1>0, <1>3 DEF ReadForAssign, Begin
    <2> QED BY <1>1, <2>1, <2>2 DEF MaintenanceRemembers
  <1>4. ASSUME NEW n \in Tickets, NEW to \in {"in_progress", "completed", "closed"},
               ticket[n].status \in UpTo("closed") \ {"open"},
               UpTo(to) \ {to} \subseteq UpTo(ticket[n].status),
               req' = [req EXCEPT ![r] = [pc |-> "transition", n |-> n, to |-> to]],
               UNCHANGED maintenance
        PROVE  MaintenanceInv'
    <2>1. Filed(n) /\ ticket[n].status \in visited[n]
      BY <1>4, StagesUpTo DEF Filed, MaintenanceInv, MaintenanceTypeOK
    <2>2. UpTo(to) \ {to} \subseteq visited[n]
      BY <1>4, <2>1 DEF MaintenanceInv, NothingIsSkipped
    <2>3. req'[r] = [pc |-> "transition", n |-> n, to |-> to]
      BY <1>0, <1>4
    <2> QED BY <1>1, <1>4, <2>1, <2>2, <2>3 DEF MaintenanceRemembers
  <1>5. ASSUME NEW n \in Tickets, ReadForStart(r, n) PROVE MaintenanceInv'
    BY <1>4, <1>5, StagesUpTo DEF ReadForStart, Begin
  <1>6. ASSUME NEW n \in Tickets, ReadForComplete(r, n) PROVE MaintenanceInv'
    BY <1>4, <1>6, StagesUpTo DEF ReadForComplete, Begin
  <1>7. ASSUME NEW n \in Tickets, ReadForClose(r, n) PROVE MaintenanceInv'
    BY <1>4, <1>7, StagesUpTo DEF ReadForClose, Begin
  <1>8. ASSUME NEW skills \in (SUBSET Categories) \ {{}}, NumberTechnician(r, skills)
        PROVE  MaintenanceInv'
    <2> DEFINE hired == {k \in Technicians : Hired(k)}
               m == NextNumber(hired)
    <2>1. m \notin hired
      BY NextIsFree, MaintenanceAssumption DEF Technicians
    <2>2. m \in Technicians /\ UNCHANGED maintenance
      BY <1>8 DEF NumberTechnician
    <2>3. req'[r] = [pc |-> "technicianNumbered", n |-> m, skills |-> skills]
      BY <1>0, <1>8 DEF NumberTechnician, Number
    <2>4. ~Hired(m)
      BY <2>1, <2>2
    <2> HIDE DEF m
    <2>5. MaintenanceRemembers(req'[r])
      BY <2>2, <2>3, <2>4 DEF MaintenanceRemembers
    <2> QED BY <1>1, <2>2, <2>5
  <1> QED BY <1>2, <1>3, <1>5, <1>6, <1>7, <1>8 DEF MaintenanceArrive

LEMMA CommitTicketKeepsMaintenance ==
    ASSUME LockInv, MaintenanceInv, NEW r \in Requests, CommitTicket(r)
    PROVE  MaintenanceInv'
  <1> DEFINE n == req[r].n
             c == req[r].category
  <1>1. n \in Tickets /\ ~Filed(n) /\ c \in Categories
    BY DEF CommitTicket, At, MaintenanceInv, MaintenanceRemembers
  <1>2. /\ ticket' = [ticket EXCEPT ![n] = NewTicket(c)]
        /\ visited' = [visited EXCEPT ![n] = {"open"}]
        /\ technician' = technician
        /\ req' = [req EXCEPT ![r] = Idle]
    BY DEF CommitTicket, Answer
  <1>3. /\ ticket \in [Tickets -> TicketRow \cup {NoTicket}]
        /\ technician \in [Technicians -> TechnicianRow]
        /\ visited \in [Tickets -> SUBSET UpTo("closed")]
    BY DEF MaintenanceInv, MaintenanceTypeOK
  <1>4. NewTicket(c) \in TicketRow
    BY <1>1, StagesUpTo DEF NewTicket, TicketRow
  <1> HIDE DEF n, c
  <1>5. /\ ticket'[n] = NewTicket(c) /\ visited'[n] = {"open"}
        /\ \A k \in Tickets \ {n} : ticket'[k] = ticket[k] /\ visited'[k] = visited[k]
    BY <1>1, <1>2, <1>3
  <1>6. MaintenanceTypeOK'
    <2>1. /\ ticket' \in [Tickets -> TicketRow \cup {NoTicket}]
          /\ visited' \in [Tickets -> SUBSET UpTo("closed")]
      BY <1>1, <1>2, <1>3, <1>4, StagesUpTo
    <2>2. ASSUME NEW k \in Tickets, Filed(k)' PROVE ticket'[k].status \in visited'[k]
      BY <1>5, <2>2 DEF NewTicket, Filed, MaintenanceInv, MaintenanceTypeOK
    <2> QED BY <1>2, <1>3, <2>1, <2>2 DEF MaintenanceTypeOK
  <1>7. NothingIsSkipped'
    BY <1>5, StagesUpTo DEF NothingIsSkipped, MaintenanceInv
  <1>8. AssigneeIsQualified'
    BY <1>2, <1>5 DEF AssigneeIsQualified, MaintenanceInv, Covers, NewTicket
  <1>9. ASSUME NEW s \in Requests PROVE MaintenanceRemembers(req[s])'
    <2>1. CASE s = r
      BY <1>2, <2>1 DEF LockInv, Idle, MaintenanceRemembers
    <2>2. CASE s # r
      <3>1. req'[s] = req[s] /\ MaintenanceRemembers(req[s])
        BY <1>2, <2>2 DEF LockInv, MaintenanceInv
      <3>2. req[s].pc # "ticketNumbered"
        BY <2>2, OneNumbering DEF CommitTicket, At, Numbering, TableOf
      <3>3. req[s].pc = "transition" => req[s].n # n
        BY <1>1, <3>1 DEF MaintenanceRemembers
      <3> QED BY <1>2, <1>5, <3>1, <3>2, <3>3 DEF MaintenanceRemembers, Filed, Hired, Covers
    <2> QED BY <2>1, <2>2
  <1> QED BY <1>6, <1>7, <1>8, <1>9 DEF MaintenanceInv

LEMMA UpdateTicketKeepsMaintenance ==
    ASSUME LockInv, MaintenanceInv, NEW r \in Requests, UpdateTicket(r)
    PROVE  MaintenanceInv'
  <1> DEFINE q == req[r]
             row == [ticket[q.n] EXCEPT !.status = q.to,
                                        !.assignee = IF q.to = "assigned" THEN q.assignee ELSE @]
  <1>1. /\ q.n \in Tickets /\ Filed(q.n)
        /\ q.to \in {"assigned", "in_progress", "completed", "closed"}
        /\ UpTo(q.to) \ {q.to} \subseteq visited[q.n]
        /\ IF q.to = "assigned"
           THEN q.assignee \in Technicians /\ Covers(q.assignee, ticket[q.n].category)
           ELSE ticket[q.n].status # "open"
    BY DEF UpdateTicket, At, MaintenanceInv, MaintenanceRemembers
  <1>2. /\ ticket \in [Tickets -> TicketRow \cup {NoTicket}]
        /\ technician \in [Technicians -> TechnicianRow]
        /\ visited \in [Tickets -> SUBSET UpTo("closed")]
    BY DEF MaintenanceInv, MaintenanceTypeOK
  <1>3. /\ ticket' = [ticket EXCEPT ![q.n].status = q.to,
                                    ![q.n].assignee = IF q.to = "assigned" THEN q.assignee ELSE @]
        /\ visited' = [visited EXCEPT ![q.n] = @ \cup {q.to}]
        /\ technician' = technician
        /\ req' = [req EXCEPT ![r] = Idle]
    BY DEF UpdateTicket, Answer
  <1>4. ticket[q.n] \in TicketRow
    BY <1>1, <1>2 DEF Filed, NoTicket
  <1> HIDE DEF q
  <1>5. /\ ticket'[q.n] = row
        /\ visited'[q.n] = visited[q.n] \cup {q.to}
        /\ \A k \in Tickets \ {q.n} : ticket'[k] = ticket[k] /\ visited'[k] = visited[k]
    BY <1>1, <1>2, <1>3, <1>4 DEF TicketRow
  <1>6. /\ row \in TicketRow
        /\ row.status = q.to
        /\ row.category = ticket[q.n].category
        /\ row.assignee = IF q.to = "assigned" THEN q.assignee ELSE ticket[q.n].assignee
    BY <1>1, <1>4, StagesUpTo DEF TicketRow
  <1> HIDE DEF row
  <1>7. MaintenanceTypeOK'
    <2>1. ticket' \in [Tickets -> TicketRow \cup {NoTicket}]
      <3>1. DOMAIN ticket' = Tickets /\ ticket' = [k \in Tickets |-> ticket'[k]]
        BY <1>2, <1>3
      <3>2. \A k \in Tickets : ticket'[k] \in TicketRow \cup {NoTicket}
        BY <1>2, <1>5, <1>6
      <3> QED BY <3>1, <3>2
    <2>2. visited' \in [Tickets -> SUBSET UpTo("closed")]
      BY <1>1, <1>2, <1>3, StagesUpTo
    <2>3. ASSUME NEW k \in Tickets, Filed(k)' PROVE ticket'[k].status \in visited'[k]
      BY <1>5, <1>6, <2>3 DEF Filed, MaintenanceInv, MaintenanceTypeOK
    <2> QED BY <1>2, <1>3, <2>1, <2>2, <2>3 DEF MaintenanceTypeOK
  <1>8. NothingIsSkipped'
    <2> SUFFICES ASSUME NEW k \in Tickets, NEW s \in visited'[k]
                 PROVE  UpTo(s) \subseteq visited'[k]
      BY DEF NothingIsSkipped
    <2>1. CASE k = q.n /\ s = q.to
      BY <1>1, <1>5, <2>1
    <2>2. CASE ~(k = q.n /\ s = q.to)
      BY <1>1, <1>5, <2>2 DEF NothingIsSkipped, MaintenanceInv
    <2> QED BY <2>1, <2>2
  <1>9. AssigneeIsQualified'
    <2> SUFFICES ASSUME NEW k \in Tickets, ticket'[k].status \notin {"none", "open"}
                 PROVE  /\ ticket'[k].assignee # 0
                        /\ Covers(ticket'[k].assignee, ticket'[k].category)
      BY <1>3 DEF AssigneeIsQualified, Covers
    <2>1. CASE k # q.n
      BY <1>5, <2>1 DEF AssigneeIsQualified, MaintenanceInv
    <2>2. CASE k = q.n /\ q.to = "assigned"
      BY <1>1, <1>5, <1>6, <2>2 DEF Technicians
    <2>3. CASE k = q.n /\ q.to # "assigned"
      <3>1. ticket[k].status \notin {"none", "open"}
        BY <1>1, <2>3 DEF Filed
      <3> QED BY <1>5, <1>6, <2>3, <3>1 DEF AssigneeIsQualified, MaintenanceInv
    <2> QED BY <2>1, <2>2, <2>3
  <1>10. ASSUME NEW s \in Requests PROVE MaintenanceRemembers(req[s])'
    <2>1. CASE s = r
      BY <1>3, <2>1 DEF LockInv, Idle, MaintenanceRemembers
    <2>2. CASE s # r
      <3>1. req'[s] = req[s] /\ MaintenanceRemembers(req[s])
        BY <1>3, <2>2 DEF LockInv, MaintenanceInv
      <3>2. \A k \in Tickets : /\ Filed(k)' <=> Filed(k)
                               /\ visited[k] \subseteq visited'[k]
                               /\ ticket'[k].category = ticket[k].category
                               /\ ticket[k].status # "open" => ticket'[k].status # "open"
        BY <1>1, <1>5, <1>6 DEF Filed
      <3> QED BY <1>3, <3>1, <3>2 DEF MaintenanceRemembers, Hired, Covers
    <2> QED BY <2>1, <2>2
  <1> QED BY <1>7, <1>8, <1>9, <1>10 DEF MaintenanceInv

LEMMA CommitTechnicianKeepsMaintenance ==
    ASSUME LockInv, MaintenanceInv, NEW r \in Requests, CommitTechnician(r)
    PROVE  MaintenanceInv'
  <1> DEFINE m == req[r].n
             row == [status |-> "active", skills |-> req[r].skills]
  <1>1. m \in Technicians /\ ~Hired(m) /\ row \in TechnicianRow
    BY DEF CommitTechnician, At, MaintenanceInv, MaintenanceRemembers, TechnicianRow
  <1>2. /\ technician' = [technician EXCEPT ![m] = row]
        /\ ticket' = ticket /\ visited' = visited
        /\ req' = [req EXCEPT ![r] = Idle]
    BY DEF CommitTechnician, Answer
  <1>3. technician \in [Technicians -> TechnicianRow]
    BY DEF MaintenanceInv, MaintenanceTypeOK
  <1> HIDE DEF m, row
  <1>4. \A k \in Technicians \ {m} : technician'[k] = technician[k]
    BY <1>1, <1>2, <1>3
  <1>5. ASSUME NEW k \in Technicians, NEW c, Covers(k, c) PROVE Covers(k, c)'
    <2>1. k # m
      BY <1>1, <1>5 DEF Covers, Hired
    <2> QED BY <1>4, <1>5, <2>1 DEF Covers
  <1>6. MaintenanceTypeOK' /\ NothingIsSkipped'
    BY <1>1, <1>2, <1>3 DEF MaintenanceInv, MaintenanceTypeOK, NothingIsSkipped, Filed
  <1>7. AssigneeIsQualified'
    <2> SUFFICES ASSUME NEW n \in Tickets, ticket[n].status \notin {"none", "open"}
                 PROVE  /\ ticket[n].assignee # 0
                        /\ Covers(ticket[n].assignee, ticket[n].category)'
      BY <1>2 DEF AssigneeIsQualified, Covers
    <2>1. ticket[n].assignee # 0 /\ Covers(ticket[n].assignee, ticket[n].category)
      BY DEF AssigneeIsQualified, MaintenanceInv
    <2>2. ticket[n].assignee \in Technicians
      BY <2>1 DEF MaintenanceInv, MaintenanceTypeOK, TicketRow, NoTicket
    <2>3. ASSUME NEW k \in Technicians, NEW c, Covers(k, c)
          PROVE  technician'[k].status = "active" /\ c \in technician'[k].skills
      BY <1>5, <2>3 DEF Covers
    <2> QED BY <1>2, <2>1, <2>2, <2>3 DEF Covers
  <1>8. ASSUME NEW s \in Requests PROVE MaintenanceRemembers(req[s])'
    <2>1. CASE s = r
      BY <1>2, <2>1 DEF LockInv, Idle, MaintenanceRemembers
    <2>2. CASE s # r
      <3>1. req'[s] = req[s] /\ MaintenanceRemembers(req[s])
        BY <1>2, <2>2 DEF LockInv, MaintenanceInv
      <3>2. req[s].pc # "technicianNumbered"
        BY <2>2, OneNumbering DEF CommitTechnician, At, Numbering, TableOf
      <3>3. ASSUME NEW k \in Technicians, NEW c, Covers(k, c)
            PROVE  technician'[k].status = "active" /\ c \in technician'[k].skills
        BY <1>5, <3>3 DEF Covers
      <3> QED BY <1>2, <3>1, <3>2, <3>3 DEF MaintenanceRemembers, Filed, Covers
    <2> QED BY <2>1, <2>2
  <1> QED BY <1>6, <1>7, <1>8 DEF MaintenanceInv

LEMMA AdvancesKeepMaintenance ==
    ASSUME LockInv, MaintenanceInv, NEW r \in Requests, MaintenanceAdvance(r)
    PROVE  MaintenanceInv'
  <1>1. ASSUME NumberTicket(r) PROVE MaintenanceInv'
    <2> DEFINE filed == {k \in Tickets : Filed(k)}
               n == NextNumber(filed)
    <2>1. n \notin filed
      BY NextIsFree, MaintenanceAssumption DEF Tickets
    <2>2. n \in Tickets /\ UNCHANGED maintenance
      BY <1>1 DEF NumberTicket
    <2>3. /\ req'[r] = [pc |-> "ticketNumbered", n |-> n, category |-> req[r].category]
          /\ \A s \in Requests \ {r} : req'[s] = req[s]
      BY <1>1 DEF NumberTicket, Number, LockInv
    <2>4. ~Filed(n) /\ req[r].category \in Categories
      BY <1>1, <2>1, <2>2 DEF NumberTicket, At, MaintenanceInv, MaintenanceRemembers
    <2> HIDE DEF n
    <2>5. MaintenanceRemembers(req'[r])
      BY <2>2, <2>3, <2>4 DEF MaintenanceRemembers
    <2> QED BY <2>2, <2>3, <2>5, MaintenanceMovesOn
  <1> QED BY <1>1, CommitTicketKeepsMaintenance, UpdateTicketKeepsMaintenance,
             CommitTechnicianKeepsMaintenance
          DEF MaintenanceAdvance

LEMMA MaintenanceStarts == Init => MaintenanceInv
  <1> SUFFICES ASSUME Init PROVE MaintenanceInv
    OBVIOUS
  <1>1. \A r \in Requests : MaintenanceRemembers(req[r])
    BY DEF Init, DeskInit, Idle, MaintenanceRemembers
  <1>2. MaintenanceTypeOK /\ NothingIsSkipped /\ AssigneeIsQualified
    <2>1. CASE MaintenanceInit
      <3>1. \A n \in Tickets : Filed(n) => ticket[n].status \in UpTo("closed")
        BY <2>1 DEF MaintenanceInit, SeedTickets, Filed, TicketRow, NoTicket
      <3>2. MaintenanceTypeOK
        <4>1. /\ ticket \in [Tickets -> TicketRow \cup {NoTicket}]
              /\ technician \in [Technicians -> TechnicianRow]
              /\ visited = [n \in Tickets |-> IF Filed(n) THEN UpTo(ticket[n].status) ELSE {}]
          BY <2>1 DEF MaintenanceInit, SeedTickets, SeedTechnicians
        <4>2. \A s \in UpTo("closed") : s \in UpTo(s) /\ UpTo(s) \subseteq UpTo("closed")
          BY StagesUpTo
        <4> QED BY <3>1, <4>1, <4>2 DEF MaintenanceTypeOK
      <3>3. NothingIsSkipped
        BY <2>1, <3>1, StagesAreNested DEF MaintenanceInit, NothingIsSkipped
      <3> QED BY <2>1, <3>2, <3>3 DEF MaintenanceInit
    <2>2. CASE /\ ticket = [n \in Tickets |-> NoTicket]
               /\ visited = [n \in Tickets |-> {}]
               /\ technician = [m \in Technicians |-> NoTechnician]
      BY <2>2 DEF MaintenanceTypeOK, NothingIsSkipped, AssigneeIsQualified, NoTicket,
                  NoTechnician, TechnicianRow, Filed
    <2> QED BY <2>1, <2>2 DEF Init
  <1> QED BY <1>1, <1>2 DEF MaintenanceInv

LEMMA MaintenanceNext == LockInv /\ MaintenanceInv /\ [Next]_vars => MaintenanceInv'
  <1> SUFFICES ASSUME LockInv, MaintenanceInv, [Next]_vars PROVE MaintenanceInv'
    OBVIOUS
  <1>1. ASSUME NEW r \in Requests, UNCHANGED maintenance,
               Moves(r, DocumentPcs) \/ Moves(r, PortfolioPcs) \/ Moves(r, InboxPcs)
        PROVE  MaintenanceInv'
    <2>1. MaintenanceRemembers(req'[r])
      BY <1>1 DEF Moves, DocumentPcs, PortfolioPcs, InboxPcs, MaintenanceRemembers
    <2> QED BY <1>1, <2>1, MaintenanceMovesOn DEF Moves
  <1>2. ASSUME NEW r \in Requests, Arrive(r) PROVE MaintenanceInv'
    BY <1>1, <1>2, ArrivalsKeepMaintenance, DocumentsMove, PortfolioMoves, InboxMoves DEF Arrive
  <1>3. ASSUME NEW r \in Requests, Advance(r) PROVE MaintenanceInv'
    BY <1>1, <1>3, AdvancesKeepMaintenance, DocumentsMove, PortfolioMoves, InboxMoves DEF Advance
  <1>4. ASSUME NEW r \in Requests, Fail(r) PROVE MaintenanceInv'
    <2>1. Moves(r, InboxPcs) /\ UNCHANGED maintenance
      BY <1>4, FailMoves DEF Fail, Moves, InboxPcs
    <2> QED BY <1>1, <2>1
  <1>5. CASE UNCHANGED vars
    BY <1>5 DEF vars, desk, maintenance, MaintenanceInv, MaintenanceTypeOK, NothingIsSkipped,
                AssigneeIsQualified, MaintenanceRemembers, Filed, Hired, Covers
  <1> QED BY <1>2, <1>3, <1>4, <1>5 DEF Next
-----------------------------------------------------------------------------
LEMMA MaintenanceAlways == Spec => [](LockInv /\ MaintenanceInv)
  BY LocksInit, LocksNext, MaintenanceStarts, MaintenanceNext, PTL DEF Spec

\* MaintenanceService checks the status it read and then updates blindly; for
\* any number of tickets, technicians and requests in flight, no ticket comes
\* to a stage before it has been through those before it.
THEOREM NoStageSkipped == Spec => []NothingIsSkipped
  <1>1. MaintenanceInv => NothingIsSkipped
    BY DEF MaintenanceInv
  <1> QED BY <1>1, MaintenanceAlways, PTL

\* assign's check of the technician outlives every overlapping request.
THEOREM QualifiedWork == Spec => []AssigneeIsQualified
  <1>1. MaintenanceInv => AssigneeIsQualified
    BY DEF MaintenanceInv
  <1> QED BY <1>1, MaintenanceAlways, PTL
-----------------------------------------------------------------------------
(***************************************************************************)
(* Properties and units.  The code of a unit is computed from how many     *)
(* units its property has; that this is the position the unit gets rests   *)
(* on the lock, and that positions tell units apart on nothing ever being  *)
(* removed.                                                                *)
(***************************************************************************)
PortfolioRemembers(q) ==
    /\ q.pc = "propertyNumbered" => q.p \in Properties /\ ~Registered(q.p)
    /\ q.pc = "propertyLoaded" =>
          q.p \in Properties /\ Registered(q.p) /\ q.status \in PropertyStatus
    /\ q.pc = "propertyFound" => q.p \in Properties /\ q.no \in Doors /\ Registered(q.p)
    /\ q.pc = "unitNumbered" =>
          /\ q.p \in Properties /\ q.no \in Doors /\ Registered(q.p)
          /\ q.n = Len(unit[q.p]) + 1 /\ q.n <= MaxUnits
    /\ q.pc = "unitLoaded" => q.p \in Properties /\ q.no \in Doors /\ q.k \in DOMAIN unit[q.p]

CodesTellPositions ==
    \A p \in Properties : \A k \in DOMAIN unit[p] : unit[p][k].code = UnitCode(p, k)

UnitsFit ==
    \A p \in Properties : Len(unit[p]) <= MaxUnits /\ (~Registered(p) => unit[p] = <<>>)

PortfolioInv ==
    /\ property \in [Properties -> PropertyStatus \cup {"none"}]
    /\ unit \in [Properties -> Seq(UnitRow)]
    /\ UnitsFit
    /\ CodesTellPositions
    /\ \A r \in Requests : PortfolioRemembers(req[r])

LEMMA CodesAreNumbers ==
    ASSUME NEW p \in Nat, NEW k \in Nat
    PROVE  UnitCode(p, k) \in Nat
  BY PortfolioAssumption DEF UnitCode

\* As long as positions fit their digits, codes of two properties never meet.
LEMMA CodesDoNotMeet ==
    ASSUME NEW p \in Nat, NEW q \in Nat, NEW width \in Nat, NEW j \in Nat, NEW k \in Nat,
           p < q, j < width
    PROVE  p * width + j < q * width + k
  <1>1. PICK d \in Nat : q = p + 1 + d
    <2>1. q - p - 1 \in Nat /\ q = p + 1 + (q - p - 1)
      OBVIOUS
    <2> QED BY <2>1
  <1>2. q * width = p * width + width + d * width
    BY <1>1
  <1>3. p * width \in Nat /\ d * width \in Nat
    OBVIOUS
  <1> QED BY <1>2, <1>3

LEMMA PositionsAreCodes ==
    ASSUME PortfolioInv
    PROVE  UnitCodesAreUnique
  <1> SUFFICES ASSUME \A p \in Properties : Len(unit[p]) < Base * Base,
                      NEW p \in Properties, NEW q \in Properties,
                      NEW j \in DOMAIN unit[p], NEW k \in DOMAIN unit[q],
                      unit[p][j].code = unit[q][k].code
               PROVE  p = q /\ j = k
    BY DEF UnitCodesAreUnique
  <1> DEFINE width == Base * Base
  <1>1. width \in Nat /\ p \in Nat /\ q \in Nat
    BY PortfolioAssumption DEF Properties
  <1>2. j \in Nat /\ k \in Nat /\ j < width /\ k < width
    <2>1. unit[p] \in Seq(UnitRow) /\ unit[q] \in Seq(UnitRow)
      BY DEF PortfolioInv
    <2>2. j \in 1..Len(unit[p]) /\ k \in 1..Len(unit[q])
      BY <2>1
    <2>3. Len(unit[p]) < width /\ Len(unit[q]) < width /\ Len(unit[p]) \in Nat /\ Len(unit[q]) \in Nat
      BY <2>1
    <2> HIDE DEF width
    <2> QED BY <2>2, <2>3, <1>1
  <1>3. p * width + j = q * width + k
    BY <1>2 DEF PortfolioInv, CodesTellPositions, UnitCode
  <1> HIDE DEF width
  <1>4. ~(p < q) /\ ~(q < p)
    <2>1. p < q => p * width + j < q * width + k
      BY <1>1, <1>2, CodesDoNotMeet
    <2>2. q < p => q * width + k < p * width + j
      BY <1>1, <1>2, CodesDoNotMeet
    <2>3. p * width \in Nat /\ q * width \in Nat
      BY <1>1
    <2> QED BY <1>1, <1>2, <1>3, <2>1, <2>2, <2>3
  <1>5. p = q
    BY <1>1, <1>4
  <1>6. p * width \in Nat
    BY <1>1
  <1> QED BY <1>2, <1>3, <1>5, <1>6

LEMMA PortfolioMovesOn ==
    ASSUME PortfolioInv, NEW r \in Requests, UNCHANGED portfolio,
           \A s \in Requests \ {r} : req'[s] = req[s],
           PortfolioRemembers(req'[r])
    PROVE  PortfolioInv'
  <1>1. ASSUME NEW s \in Requests PROVE PortfolioRemembers(req[s])'
    <2>1. CASE s = r
      BY <2>1 DEF portfolio, PortfolioRemembers, Registered
    <2>2. CASE s # r
      BY <2>2 DEF portfolio, PortfolioInv, PortfolioRemembers, Registered
    <2> QED BY <2>1, <2>2
  <1> QED BY <1>1 DEF portfolio, PortfolioInv, UnitsFit, CodesTellPositions, Registered
-----------------------------------------------------------------------------
LEMMA ArrivalsKeepPortfolio ==
    ASSUME LockInv, PortfolioInv, NEW r \in Requests, PortfolioArrive(r)
    PROVE  PortfolioInv'
  <1>0. /\ req = [s \in Requests |-> req[s]]
        /\ \A s \in Requests \ {r} : req'[s] = req[s]
    BY PortfolioMoves DEF LockInv, Moves
  <1>1. ASSUME UNCHANGED portfolio, PortfolioRemembers(req'[r]) PROVE PortfolioInv'
    BY <1>0, <1>1, PortfolioMovesOn
  <1>2. ASSUME NumberProperty(r) PROVE PortfolioInv'
    <2> DEFINE registered == {k \in Properties : Registered(k)}
               p == NextNumber(registered)
    <2>1. p \notin registered
      BY NextIsFree, PortfolioAssumption DEF Properties
    <2>2. p \in Properties /\ UNCHANGED portfolio
      BY <1>2 DEF NumberProperty
    <2>3. req'[r] = [pc |-> "propertyNumbered", p |-> p]
      BY <1>0, <1>2 DEF NumberProperty, Number
    <2>4. ~Registered(p)
      BY <2>1, <2>2
    <2> HIDE DEF p
    <2>5. PortfolioRemembers(req'[r])
      BY <2>2, <2>3, <2>4 DEF PortfolioRemembers
    <2> QED BY <1>1, <2>2, <2>5
  <1>3. ASSUME NEW p \in Properties, NEW s \in PropertyStatus, LoadProperty(r, p, s)
        PROVE  PortfolioInv'
    BY <1>0, <1>1, <1>3 DEF LoadProperty, Begin, PortfolioRemembers
  <1>4. ASSUME NEW p \in Properties, LoadForArchive(r, p) PROVE PortfolioInv'
    BY <1>0, <1>1, <1>4 DEF LoadForArchive, Begin, PortfolioRemembers, PropertyStatus
  <1>5. ASSUME NEW p \in Properties, NEW no \in Doors, FindProperty(r, p, no) PROVE PortfolioInv'
    BY <1>0, <1>1, <1>5 DEF FindProperty, Begin, PortfolioRemembers
  <1>6. ASSUME NEW p \in Properties, NEW no \in Doors, NEW k \in DOMAIN unit[p],
               LoadUnit(r, p, k, no)
        PROVE  PortfolioInv'
    BY <1>0, <1>1, <1>6 DEF LoadUnit, Begin, PortfolioRemembers
  <1> QED BY <1>2, <1>3, <1>4, <1>5, <1>6 DEF PortfolioArrive

\* Writing one property that is, or was until now, numbered keeps what the
\* others remember of theirs.
LEMMA PropertyWritesKeepPortfolio ==
    ASSUME LockInv, PortfolioInv, NEW r \in Requests, CommitProperty(r) \/ SaveProperty(r)
    PROVE  PortfolioInv'
  <1> DEFINE p == req[r].p
  <1>1. PICK status \in PropertyStatus : property' = [property EXCEPT ![p] = status]
    BY DEF CommitProperty, SaveProperty, At, PortfolioInv, PortfolioRemembers, PropertyStatus
  <1>2. /\ p \in Properties
        /\ unit' = unit
        /\ req' = [req EXCEPT ![r] = Idle]
    BY DEF CommitProperty, SaveProperty, At, Answer, PortfolioInv, PortfolioRemembers
  <1>3. property \in [Properties -> PropertyStatus \cup {"none"}]
    BY DEF PortfolioInv
  <1>4. /\ Registered(p) \/ req[r].pc = "propertyNumbered"
        /\ Registered(p) => req[r].pc = "propertyLoaded"
    BY DEF CommitProperty, SaveProperty, At, PortfolioInv, PortfolioRemembers
  <1> HIDE DEF p
  <1>5. \A k \in Properties : Registered(k)' <=> Registered(k) \/ k = p
    BY <1>1, <1>2, <1>3 DEF Registered, PropertyStatus
  <1>6. ASSUME NEW s \in Requests PROVE PortfolioRemembers(req[s])'
    <2>1. CASE s = r
      BY <1>2, <2>1 DEF LockInv, Idle, PortfolioRemembers
    <2>2. CASE s # r
      <3>1. req'[s] = req[s] /\ PortfolioRemembers(req[s])
        BY <1>2, <2>2 DEF LockInv, PortfolioInv
      <3>2. req[s].pc = "propertyNumbered" => req[s].p # p
        <4>1. CASE Registered(p)
          BY <3>1, <4>1 DEF PortfolioRemembers
        <4>2. CASE req[r].pc = "propertyNumbered"
          BY <2>2, <4>2, OneNumbering DEF Numbering, TableOf
        <4> QED BY <1>4, <4>1, <4>2
      <3> QED BY <1>2, <1>5, <3>1, <3>2 DEF PortfolioRemembers
    <2> QED BY <2>1, <2>2
  <1>7. UnitsFit'
    BY <1>2, <1>5 DEF PortfolioInv, UnitsFit
  <1> QED BY <1>1, <1>2, <1>3, <1>6, <1>7 DEF PortfolioInv, CodesTellPositions

\* A unit gets the position its code was computed for.
LEMMA CommitUnitKeepsPortfolio ==
    ASSUME LockInv, PortfolioInv, NEW r \in Requests, CommitUnit(r)
    PROVE  PortfolioInv'
  <1> DEFINE q == req[r]
             row == [no |-> q.no, code |-> UnitCode(q.p, q.n)]
  <1>1. /\ q.pc = "unitNumbered"
        /\ q.p \in Properties /\ q.no \in Doors /\ q.n = Len(unit[q.p]) + 1
        /\ q.n <= MaxUnits /\ Registered(q.p)
    BY DEF CommitUnit, At, PortfolioInv, PortfolioRemembers
  <1>2. /\ unit' = unit \/ unit' = [unit EXCEPT ![q.p] = Append(@, row)]
        /\ property' = property
        /\ req' = [req EXCEPT ![r] = Idle]
    BY DEF CommitUnit, Answer
  <1>3. unit \in [Properties -> Seq(UnitRow)]
    BY DEF PortfolioInv
  <1>4. row \in UnitRow
    <2>1. q.p \in Nat /\ q.n \in Nat
      <3>1. unit[q.p] \in Seq(UnitRow)
        BY <1>1, <1>3
      <3>2. Len(unit[q.p]) \in Nat
        BY <3>1
      <3> QED BY <1>1, <3>2 DEF Properties
    <2>2. UnitCode(q.p, q.n) \in Nat
      BY <2>1, CodesAreNumbers
    <2> QED BY <1>1, <2>2 DEF UnitRow
  <1> HIDE DEF row, q
  <1>5. /\ unit' \in [Properties -> Seq(UnitRow)]
        /\ \A p \in Properties \ {q.p} : unit'[p] = unit[p]
        /\ \A p \in Properties : DOMAIN unit[p] \subseteq DOMAIN unit'[p]
        /\ \A p \in Properties : \A k \in DOMAIN unit[p] : unit'[p][k] = unit[p][k]
        /\ \A p \in Properties : \A k \in DOMAIN unit'[p] \ DOMAIN unit[p] :
              p = q.p /\ k = q.n /\ unit'[p][k] = row
        /\ Len(unit'[q.p]) \in {Len(unit[q.p]), q.n}
    <2>1. CASE unit' = unit
      BY <1>3, <2>1
    <2>2. CASE unit' = [unit EXCEPT ![q.p] = Append(@, row)]
      <3> DEFINE old == unit[q.p]
                 new == Append(old, row)
      <3>1. old \in Seq(UnitRow)
        BY <1>1, <1>3
      <3>2. /\ new \in Seq(UnitRow)
            /\ DOMAIN old = 1..Len(old) /\ DOMAIN new = 1..(Len(old) + 1)
            /\ Len(old) \in Nat
            /\ \A k \in 1..Len(old) : new[k] = old[k]
            /\ new[Len(old) + 1] = row /\ Len(new) = Len(old) + 1
        BY <1>4, <3>1
      <3>3. /\ unit'[q.p] = new
            /\ unit' \in [Properties -> Seq(UnitRow)]
            /\ \A p \in Properties \ {q.p} : unit'[p] = unit[p]
        BY <1>1, <1>3, <2>2, <3>2
      <3>4. q.n = Len(old) + 1
        BY <1>1
      <3> HIDE DEF new
      <3>5. ASSUME NEW p \in Properties
            PROVE  /\ DOMAIN unit[p] \subseteq DOMAIN unit'[p]
                   /\ \A k \in DOMAIN unit[p] : unit'[p][k] = unit[p][k]
                   /\ \A k \in DOMAIN unit'[p] \ DOMAIN unit[p] :
                         p = q.p /\ k = q.n /\ unit'[p][k] = row
        <4>1. CASE p # q.p
          BY <3>3, <4>1
        <4>2. CASE p = q.p
          <5>1. unit[p] = old /\ unit'[p] = new
            BY <3>3, <4>2
          <5> HIDE DEF old
          <5> QED BY <3>2, <3>4, <4>2, <5>1
        <4> QED BY <4>1, <4>2
      <3>6. Len(unit'[q.p]) = q.n
        BY <3>2, <3>3, <3>4
      <3> QED BY <3>3, <3>5, <3>6
    <2> QED BY <1>2, <2>1, <2>2
  <1>6. CodesTellPositions'
    <2> SUFFICES ASSUME NEW p \in Properties, NEW k \in DOMAIN unit'[p]
                 PROVE  unit'[p][k].code = UnitCode(p, k)
      BY DEF CodesTellPositions, UnitCode
    <2>1. CASE k \in DOMAIN unit[p]
      <3>1. unit'[p][k] = unit[p][k]
        BY <1>5, <2>1
      <3> QED BY <2>1, <3>1 DEF PortfolioInv, CodesTellPositions
    <2>2. CASE k \notin DOMAIN unit[p]
      <3>1. p = q.p /\ k = q.n /\ unit'[p][k] = row
        BY <1>5, <2>2
      <3> QED BY <3>1 DEF row
    <2> QED BY <2>1, <2>2
  <1>7. ASSUME NEW s \in Requests PROVE PortfolioRemembers(req[s])'
    <2>1. CASE s = r
      BY <1>2, <2>1 DEF LockInv, Idle, PortfolioRemembers
    <2>2. CASE s # r
      <3>1. req'[s] = req[s] /\ PortfolioRemembers(req[s])
        BY <1>2, <2>2 DEF LockInv, PortfolioInv
      <3>2. req[s].pc # "unitNumbered"
        BY <1>1, <2>2, OneNumbering DEF Numbering, TableOf, q
      <3> QED BY <1>2, <1>5, <3>1, <3>2 DEF PortfolioRemembers, Registered
    <2> QED BY <2>1, <2>2
  <1>8. UnitsFit'
    <2> SUFFICES ASSUME NEW p \in Properties
                 PROVE  Len(unit'[p]) <= MaxUnits /\ (~Registered(p)' => unit'[p] = <<>>)
      BY DEF UnitsFit
    <2>1. CASE p = q.p
      BY <1>1, <1>2, <1>5, <2>1 DEF PortfolioInv, UnitsFit, Registered
    <2>2. CASE p # q.p
      BY <1>2, <1>5, <2>2 DEF PortfolioInv, UnitsFit, Registered
    <2> QED BY <2>1, <2>2
  <1> QED BY <1>2, <1>5, <1>6, <1>7, <1>8 DEF PortfolioInv, Registered

\* Renaming a door moves nothing.
LEMMA SaveUnitKeepsPortfolio ==
    ASSUME LockInv, PortfolioInv, NEW r \in Requests, SaveUnit(r)
    PROVE  PortfolioInv'
  <1> DEFINE q == req[r]
             row == [unit[q.p][q.k] EXCEPT !.no = q.no]
  <1>1. q.p \in Properties /\ q.no \in Doors /\ q.k \in DOMAIN unit[q.p]
    BY DEF SaveUnit, At, PortfolioInv, PortfolioRemembers
  <1>2. /\ unit' = unit \/ unit' = [unit EXCEPT ![q.p] = [@ EXCEPT ![q.k] = row]]
        /\ property' = property
        /\ req' = [req EXCEPT ![r] = Idle]
    BY DEF SaveUnit, Answer
  <1>3. unit \in [Properties -> Seq(UnitRow)]
    BY DEF PortfolioInv
  <1>4. unit[q.p][q.k] \in UnitRow /\ q.k \in 1..Len(unit[q.p]) /\ unit[q.p] \in Seq(UnitRow)
    BY <1>1, <1>3
  <1>5. row \in UnitRow /\ row.code = unit[q.p][q.k].code
    BY <1>1, <1>4 DEF UnitRow
  <1> HIDE DEF row, q
  <1>6. /\ [unit[q.p] EXCEPT ![q.k] = row] \in Seq(UnitRow)
        /\ Len([unit[q.p] EXCEPT ![q.k] = row]) = Len(unit[q.p])
    BY <1>4, <1>5
  <1>7. /\ unit' \in [Properties -> Seq(UnitRow)]
        /\ \A p \in Properties : Len(unit'[p]) = Len(unit[p]) /\ DOMAIN unit'[p] = DOMAIN unit[p]
    BY <1>1, <1>2, <1>3, <1>6
  <1>8. ASSUME NEW p \in Properties, NEW k \in DOMAIN unit[p]
        PROVE  unit'[p][k].code = unit[p][k].code
    BY <1>1, <1>2, <1>3, <1>4, <1>5, <1>8
  <1>9. CodesTellPositions'
    BY <1>7, <1>8 DEF PortfolioInv, CodesTellPositions, UnitCode
  <1>10. ASSUME NEW s \in Requests PROVE PortfolioRemembers(req[s])'
    <2>1. CASE s = r
      BY <1>2, <2>1 DEF LockInv, Idle, PortfolioRemembers
    <2>2. CASE s # r
      BY <1>2, <1>7, <2>2 DEF LockInv, PortfolioInv, PortfolioRemembers, Registered
    <2> QED BY <2>1, <2>2
  <1>11. UnitsFit'
    <2> SUFFICES ASSUME NEW p \in Properties
                 PROVE  Len(unit'[p]) <= MaxUnits /\ (~Registered(p)' => unit'[p] = <<>>)
      BY DEF UnitsFit
    <2>1. unit'[p] \in Seq(UnitRow) /\ Len(unit'[p]) = Len(unit[p])
      BY <1>7
    <2>2. Len(unit[p]) <= MaxUnits /\ (~Registered(p) => unit[p] = <<>>)
      BY DEF PortfolioInv, UnitsFit
    <2>3. unit[p] = <<>> => Len(unit'[p]) = 0
      BY <2>1
    <2> QED BY <1>2, <2>1, <2>2, <2>3 DEF Registered
  <1> QED BY <1>2, <1>7, <1>9, <1>10, <1>11 DEF PortfolioInv

LEMMA AdvancesKeepPortfolio ==
    ASSUME LockInv, PortfolioInv, NEW r \in Requests, PortfolioAdvance(r)
    PROVE  PortfolioInv'
  <1>1. ASSUME NumberUnit(r) PROVE PortfolioInv'
    <2>1. /\ req'[r] = [pc |-> "unitNumbered", p |-> req[r].p, no |-> req[r].no,
                        n |-> CountUnits(req[r].p) + 1]
          /\ \A s \in Requests \ {r} : req'[s] = req[s]
          /\ UNCHANGED portfolio
      BY <1>1 DEF NumberUnit, Number, LockInv
    <2>2. /\ req[r].p \in Properties /\ req[r].no \in Doors /\ Registered(req[r].p)
          /\ Len(unit[req[r].p]) < MaxUnits
      BY <1>1 DEF NumberUnit, At, PortfolioInv, PortfolioRemembers
    <2>3. CountUnits(req[r].p) + 1 <= MaxUnits
      <3>1. unit[req[r].p] \in Seq(UnitRow)
        BY <2>2 DEF PortfolioInv
      <3>2. Len(unit[req[r].p]) \in Nat
        BY <3>1
      <3> QED BY <2>2, <3>2, PortfolioAssumption DEF CountUnits
    <2>4. PortfolioRemembers(req'[r])
      BY <2>1, <2>2, <2>3 DEF PortfolioRemembers, CountUnits
    <2> QED BY <2>1, <2>4, PortfolioMovesOn
  <1> QED BY <1>1, PropertyWritesKeepPortfolio, CommitUnitKeepsPortfolio, SaveUnitKeepsPortfolio
          DEF PortfolioAdvance

LEMMA PortfolioStarts == Init => PortfolioInv
  <1> SUFFICES ASSUME Init PROVE PortfolioInv
    OBVIOUS
  <1>1. \A r \in Requests : PortfolioRemembers(req[r])
    BY DEF Init, DeskInit, Idle, PortfolioRemembers
  <1>2. CASE PortfolioInit
    <2>1. PICK seeded \in 0..1, no \in Doors :
             /\ property = [p \in Properties |-> IF p <= seeded THEN "active" ELSE "none"]
             /\ unit = [p \in Properties |-> IF p <= seeded
                                             THEN <<[no |-> no, code |-> UnitCode(p, 1)]>>
                                             ELSE <<>>]
      BY <1>2 DEF PortfolioInit
    <2>2. ASSUME NEW p \in Properties
          PROVE  /\ unit[p] \in Seq(UnitRow)
                 /\ \A k \in DOMAIN unit[p] : unit[p][k].code = UnitCode(p, k)
      <3>1. [no |-> no, code |-> UnitCode(p, 1)] \in UnitRow
        <4>1. UnitCode(p, 1) \in Nat
          BY CodesAreNumbers, PortfolioAssumption DEF Properties
        <4> QED BY <2>1, <4>1 DEF UnitRow
      <3>2. CASE p <= seeded
        <4>1. unit[p] = <<[no |-> no, code |-> UnitCode(p, 1)]>>
          BY <2>1, <3>2
        <4>2. DOMAIN unit[p] = {1} /\ unit[p][1].code = UnitCode(p, 1)
          BY <4>1
        <4> QED BY <3>1, <4>1, <4>2
      <3>3. CASE ~(p <= seeded)
        BY <2>1, <3>3
      <3> QED BY <3>2, <3>3
    <2>3. unit \in [Properties -> Seq(UnitRow)]
      BY <2>1, <2>2
    <2>4. property \in [Properties -> PropertyStatus \cup {"none"}]
      BY <2>1 DEF PropertyStatus
    <2>5. ASSUME NEW p \in Properties
          PROVE  Len(unit[p]) <= MaxUnits /\ (~Registered(p) => unit[p] = <<>>)
      <3>1. CASE p <= seeded
        <4>1. unit[p] = <<[no |-> no, code |-> UnitCode(p, 1)]>> /\ property[p] = "active"
          BY <2>1, <3>1
        <4>2. Len(unit[p]) = 1
          BY <4>1
        <4> QED BY <4>1, <4>2, PortfolioAssumption DEF Registered
      <3>2. CASE ~(p <= seeded)
        BY <2>1, <3>2, PortfolioAssumption
      <3> QED BY <3>1, <3>2
    <2> QED BY <1>1, <2>2, <2>3, <2>4, <2>5 DEF PortfolioInv, UnitsFit, CodesTellPositions
  <1>3. CASE property = [p \in Properties |-> "none"] /\ unit = [p \in Properties |-> <<>>]
    <2>1. UnitsFit
      BY <1>3, PortfolioAssumption DEF UnitsFit
    <2> QED BY <1>1, <1>3, <2>1 DEF PortfolioInv, CodesTellPositions
  <1> QED BY <1>2, <1>3 DEF Init

LEMMA PortfolioNext == LockInv /\ PortfolioInv /\ [Next]_vars => PortfolioInv'
  <1> SUFFICES ASSUME LockInv, PortfolioInv, [Next]_vars PROVE PortfolioInv'
    OBVIOUS
  <1>1. ASSUME NEW r \in Requests, UNCHANGED portfolio,
               Moves(r, DocumentPcs) \/ Moves(r, MaintenancePcs) \/ Moves(r, InboxPcs)
        PROVE  PortfolioInv'
    <2>1. PortfolioRemembers(req'[r])
      BY <1>1 DEF Moves, DocumentPcs, MaintenancePcs, InboxPcs, PortfolioRemembers
    <2> QED BY <1>1, <2>1, PortfolioMovesOn DEF Moves
  <1>2. ASSUME NEW r \in Requests, Arrive(r) PROVE PortfolioInv'
    BY <1>1, <1>2, ArrivalsKeepPortfolio, DocumentsMove, MaintenanceMoves, InboxMoves DEF Arrive
  <1>3. ASSUME NEW r \in Requests, Advance(r) PROVE PortfolioInv'
    BY <1>1, <1>3, AdvancesKeepPortfolio, DocumentsMove, MaintenanceMoves, InboxMoves DEF Advance
  <1>4. ASSUME NEW r \in Requests, Fail(r) PROVE PortfolioInv'
    <2>1. Moves(r, InboxPcs) /\ UNCHANGED portfolio
      BY <1>4, FailMoves DEF Fail, Moves, InboxPcs
    <2> QED BY <1>1, <2>1
  <1>5. CASE UNCHANGED vars
    BY <1>5 DEF vars, desk, portfolio, PortfolioInv, UnitsFit, CodesTellPositions,
                PortfolioRemembers, Registered
  <1> QED BY <1>2, <1>3, <1>4, <1>5 DEF Next
-----------------------------------------------------------------------------
LEMMA PortfolioAlways == Spec => [](LockInv /\ PortfolioInv)
  BY LocksInit, LocksNext, PortfolioStarts, PortfolioNext, PTL DEF Spec

\* UnitsService.create counts under the lock, so for any number of properties,
\* units and requests in flight no two units share a code before a property
\* outgrows the digits of its positions.
THEOREM CodesStayUnique == Spec => []UnitCodesAreUnique
  BY PositionsAreCodes, PortfolioAlways, PTL
=============================================================================
