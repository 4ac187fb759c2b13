------------------------------ MODULE Backoffice ------------------------------
(***************************************************************************)
(* The record-keeping components together: maintenance, documents, the     *)
(* portfolio and the inbox, served by the same request slots.  They write  *)
(* disjoint tables; what they share is the pattern that numbers a row      *)
(* under its table's lock, and requests that fail at any await.            *)
(***************************************************************************)
EXTENDS Maintenance, Documents, Portfolio, Inbox

vars == <<desk, maintenance, documents, portfolio, inbox>>

ASSUME MixAssumption ==
    Mixes \subseteq SUBSET (MaintenanceEndpoints \cup TechnicianEndpoints \cup DocumentEndpoints
                              \cup PropertyEndpoints \cup UnitEndpoints
                              \cup NotificationEndpoints \cup SettingsEndpoints)

\* Tables no request of the mix touches start empty.
Init ==
    /\ DeskInit
    /\ IF calls \cap (MaintenanceEndpoints \cup TechnicianEndpoints) # {} THEN MaintenanceInit
       ELSE /\ ticket = [n \in Tickets |-> NoTicket] /\ visited = [n \in Tickets |-> {}]
            /\ technician = [m \in Technicians |-> NoTechnician]
    /\ IF calls \cap DocumentEndpoints # {} THEN DocumentsInit
       ELSE /\ document = [n \in Codes |-> NoDocument] /\ object = [key \in Keys |-> 0]
            /\ uploads = 0 /\ abandoned = {}
    /\ IF calls \cap (PropertyEndpoints \cup UnitEndpoints) # {} THEN PortfolioInit
       ELSE property = [p \in Properties |-> "none"] /\ unit = [p \in Properties |-> <<>>]
    /\ InboxInit

TypeOK ==
    /\ LocksTypeOK
    /\ \A r \in Requests : At(r, "idle") => req[r] = Idle /\ held[r] = NoLocks
    /\ MaintenanceTypeOK /\ DocumentsTypeOK /\ PortfolioTypeOK /\ InboxTypeOK

\* The transaction rolls back; what went to the bucket stays there.
Fail(r) ==
    /\ req[r] # Idle
    /\ DocumentsFail(r)
    /\ Answer(r)
    /\ UNCHANGED <<maintenance, document, object, uploads, portfolio, inbox>>

Arrive(r) ==
    \/ MaintenanceArrive(r) /\ UNCHANGED <<documents, portfolio, inbox>>
    \/ DocumentsArrive(r) /\ UNCHANGED <<maintenance, portfolio, inbox>>
    \/ PortfolioArrive(r) /\ UNCHANGED <<maintenance, documents, inbox>>
    \/ InboxArrive(r) /\ UNCHANGED <<maintenance, documents, portfolio>>

Advance(r) ==
    \/ MaintenanceAdvance(r) /\ UNCHANGED <<documents, portfolio, inbox>>
    \/ DocumentsAdvance(r) /\ UNCHANGED <<maintenance, portfolio, inbox>>
    \/ PortfolioAdvance(r) /\ UNCHANGED <<maintenance, documents, inbox>>
    \/ InboxAdvance(r) /\ UNCHANGED <<maintenance, documents, portfolio>>

Next == \E r \in Requests : Arrive(r) \/ Advance(r) \/ Fail(r)

Spec == Init /\ [][Next]_vars
-----------------------------------------------------------------------------
\* The number a transaction allocated is still free when it commits, in every
\* numbered table, rows removed or rolled back in between included: the unique
\* indexes never refuse one.
NumbersAreFree ==
    \A r \in Requests :
       /\ At(r, "ticketNumbered") => ~Filed(req[r].n)
       /\ At(r, "technicianNumbered") => ~Hired(req[r].n)
       /\ req[r].pc \in {"codeAllocated", "objectStored"} => ~Exists(req[r].n)
       /\ At(r, "propertyNumbered") => ~Registered(req[r].p)
       /\ At(r, "notificationNumbered") => ~Sent(req[r].n)
       /\ At(r, "templateNumbered") => req[r].n \notin template

\* Two first requests may leave two rows of settings, but the oldest stays the
\* one that counts: a PUT that found its row when nobody was still creating
\* one is what the next GET returns.
PutSettingsStand ==
    [][\A r \in Requests :
          SaveSettings(r) /\ req[r].sure => settings'[Oldest'].prefs = req[r].next]_vars
=============================================================================
