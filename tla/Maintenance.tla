----------------------------- MODULE Maintenance -----------------------------
(***************************************************************************)
(* Maintenance requests, here tickets, and the technicians they are        *)
(* assigned to.  Each transition reads the ticket, checks its status and   *)
(* then updates the row whatever it has become.  The notification fired    *)
(* after the update writes no row modelled here; Reminders has those.      *)
(***************************************************************************)
EXTENDS Desk

CONSTANTS
    Categories,       \* of work: the skills technicians have
    MaxTickets, MaxTechnicians    \* bounds on the rows ever inserted

ASSUME MaintenanceAssumption == MaxTickets \in Nat /\ MaxTechnicians \in Nat

VARIABLES
    ticket,        \* maintenance_requests table: number -> row
    technician,    \* technicians table: number -> row
    visited        \* ticket -> statuses its row has had

maintenance == <<ticket, technician, visited>>

Tickets == 1..MaxTickets

Technicians == 1..MaxTechnicians

MaintenanceEndpoints == {"submit", "assign", "start", "complete", "close"}

TechnicianEndpoints == {"addTechnician"}

\* MaintenanceStatus, in the order of the state machine.
Stages == <<"open", "assigned", "in_progress", "completed", "closed">>

Rank(s) == CHOOSE k \in DOMAIN Stages : Stages[k] = s

UpTo(s) == {Stages[k] : k \in 1..Rank(s)}

TicketRow == [status : UpTo("closed"), category : Categories, assignee : Technicians \cup {0}]

NoTicket == [status |-> "none"]

NewTicket(c) == [status |-> "open", category |-> c, assignee |-> 0]

TechnicianRow == [status : {"none", "active", "on_leave"}, skills : SUBSET Categories]

NoTechnician == [status |-> "none", skills |-> {}]

Filed(n) == ticket[n].status # "none"

Hired(m) == technician[m].status # "none"

MaintenanceTypeOK ==
    /\ ticket \in [Tickets -> TicketRow \cup {NoTicket}]
    /\ technician \in [Technicians -> TechnicianRow]
    /\ visited \in [Tickets -> SUBSET UpTo("closed")]
    /\ \A n \in Tickets : Filed(n) => ticket[n].status \in visited[n]

\* The seeded technicians, one of them on leave.
SeedTechnicians ==
    {rows \in [Technicians -> TechnicianRow] :
        \A m \in Technicians : /\ rows[m].status = "none" <=> rows[m].skills = {}
                               /\ m > 1 /\ rows[m].status # "none" => rows[m - 1].status # "none"}

\* The seeded tickets, at any stage, their codes with gaps; past "open" they
\* have a qualified assignee.
SeedTickets ==
    {rows \in [Tickets -> TicketRow \cup {NoTicket}] :
        \A n \in Tickets : rows[n] # NoTicket => (rows[n].status = "open" <=> rows[n].assignee = 0)}

Covers(m, c) == technician[m].status = "active" /\ c \in technician[m].skills

\* Work past "open" is in the hands of a technician who is active and covers
\* its category, whichever of several assignments was written last.
AssigneeIsQualified ==
    \A n \in Tickets : ticket[n].status \notin {"none", "open"} =>
       ticket[n].assignee # 0 /\ Covers(ticket[n].assignee, ticket[n].category)

MaintenanceInit ==
    /\ technician \in SeedTechnicians
    /\ ticket \in SeedTickets
    /\ AssigneeIsQualified
    /\ visited = [n \in Tickets |-> IF Filed(n) THEN UpTo(ticket[n].status) ELSE {}]
-----------------------------------------------------------------------------
(***************************************************************************)
(* POST /maintenance: MaintenanceService.create.  The unit is looked up    *)
(* before the transaction.                                                 *)
(***************************************************************************)
Submit(r, c) == Begin(r, "submit", [pc |-> "submitting", category |-> c]) /\ UNCHANGED maintenance

NumberTicket(r) ==
    LET n == NextNumber({k \in Tickets : Filed(k)}) IN
    /\ At(r, "submitting")
    /\ n \in Tickets
    /\ Number(r, "maintenance_requests",
              [pc |-> "ticketNumbered", n |-> n, category |-> req[r].category])
    /\ UNCHANGED maintenance

CommitTicket(r) ==
    LET n == req[r].n IN
    /\ At(r, "ticketNumbered")
    /\ ~Filed(n)        \* the unique index on the code
    /\ ticket' = [ticket EXCEPT ![n] = NewTicket(req[r].category)]
    /\ visited' = [visited EXCEPT ![n] = {"open"}]
    /\ Answer(r)
    /\ UNCHANGED technician
-----------------------------------------------------------------------------
(***************************************************************************)
(* The transitions.                                                        *)
(***************************************************************************)
\* MUTANT of ReadForAssign: the technician's skills are not compared.
ReadForAssignAnybody(r, n, m) ==
    /\ ticket[n].status = "open"
    /\ technician[m].status = "active"
    /\ Begin(r, "assign", [pc |-> "transition", n |-> n, to |-> "assigned", assignee |-> m])
    /\ UNCHANGED maintenance

ReadForAssign(r, n, m) ==
    /\ ticket[n].status = "open"
    /\ Covers(m, ticket[n].category)
    /\ Begin(r, "assign", [pc |-> "transition", n |-> n, to |-> "assigned", assignee |-> m])
    /\ UNCHANGED maintenance

ReadForStart(r, n) ==
    /\ ticket[n].status = "assigned"
    /\ Begin(r, "start", [pc |-> "transition", n |-> n, to |-> "in_progress"])
    /\ UNCHANGED maintenance

\* MUTANT of ReadForComplete: assigned work may be completed unstarted.
ReadForCompleteEarly(r, n) ==
    /\ ticket[n].status \in {"assigned", "in_progress"}
    /\ Begin(r, "complete", [pc |-> "transition", n |-> n, to |-> "completed"])
    /\ UNCHANGED maintenance

ReadForComplete(r, n) ==
    /\ ticket[n].status = "in_progress"
    /\ Begin(r, "complete", [pc |-> "transition", n |-> n, to |-> "completed"])
    /\ UNCHANGED maintenance

ReadForClose(r, n) ==
    /\ ticket[n].status = "completed"
    /\ Begin(r, "close", [pc |-> "transition", n |-> n, to |-> "closed"])
    /\ UNCHANGED maintenance

\* requests.update(id, ...): no look at the status the row has by now.
UpdateTicket(r) ==
    LET q == req[r] IN
    /\ At(r, "transition")
    /\ MayWrite(r, "maintenance_requests")
    /\ ticket' = [ticket EXCEPT ![q.n].status = q.to,
                                ![q.n].assignee = IF q.to = "assigned" THEN q.assignee ELSE @]
    /\ visited' = [visited EXCEPT ![q.n] = @ \cup {q.to}]
    /\ Answer(r)
    /\ UNCHANGED technician
-----------------------------------------------------------------------------
(***************************************************************************)
(* POST /technicians.  Technicians are never edited.                       *)
(***************************************************************************)
NumberTechnician(r, skills) ==
    LET m == NextNumber({k \in Technicians : Hired(k)}) IN
    /\ "addTechnician" \in calls
    /\ req[r] = Idle
    /\ m \in Technicians
    /\ Number(r, "technicians", [pc |-> "technicianNumbered", n |-> m, skills |-> skills])
    /\ UNCHANGED maintenance

CommitTechnician(r) ==
    LET m == req[r].n IN
    /\ At(r, "technicianNumbered")
    /\ ~Hired(m)
    /\ technician' = [technician EXCEPT ![m] = [status |-> "active", skills |-> req[r].skills]]
    /\ Answer(r)
    /\ UNCHANGED <<ticket, visited>>
-----------------------------------------------------------------------------
MaintenanceArrive(r) ==
    \/ \E c \in Categories : Submit(r, c)
    \/ \E n \in Tickets :
          \/ \E m \in Technicians : ReadForAssign(r, n, m)
          \/ ReadForStart(r, n) \/ ReadForComplete(r, n) \/ ReadForClose(r, n)
    \/ \E skills \in (SUBSET Categories) \ {{}} : NumberTechnician(r, skills)

MaintenanceAdvance(r) ==
    \/ NumberTicket(r) \/ CommitTicket(r) \/ UpdateTicket(r) \/ CommitTechnician(r)
-----------------------------------------------------------------------------
\* No stage is skipped: however transitions interleave, and although a late
\* one can move a ticket back, a ticket reaches a stage only after every
\* stage before it.
NothingIsSkipped ==
    \A n \in Tickets : \A s \in visited[n] : UpTo(s) \subseteq visited[n]
=============================================================================
