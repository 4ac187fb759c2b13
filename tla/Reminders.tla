------------------------------ MODULE Reminders ------------------------------
(***************************************************************************)
(* What happens behind the answers of the billing requests.  A daily job   *)
(* announces invoices that have become overdue; every answered request     *)
(* leaves an audit entry.  Both write in the background: nobody awaits     *)
(* the write, a tracker holds it, and shutdown waits for the tracked ones, *)
(* but not for ever.  The process may also die, and is then restarted.     *)
(*                                                                         *)
(* Requests are the atomic ones of Ledger.  The other triggers that fire   *)
(* notifications (a lease, a payment, a tenant) live the same way as the   *)
(* audit entry of their request and are left out.                          *)
(***************************************************************************)
EXTENDS Reports

CONSTANTS
    Templates,      \* how many English templates the invoice-overdue trigger has
    Slots,          \* 1..n: bound on the background writes in flight
    MaxServed,      \* bound on the requests answered
    MaxIncidents    \* bound on shutdowns, crashes and failed writes together

ASSUME RemindersAssumption ==
    /\ {Templates, MaxServed, MaxIncidents} \subseteq Nat
    /\ Templates > 0
    /\ Slots \subseteq Nat /\ IsFiniteSet(Slots)

VARIABLES
    process,     \* "up", "draining" on its way down, or "down"
    overdue,     \* invoices whose due date has passed
    stamped,     \* invoices.overdueNotifiedAt is set
    job,         \* the run of the daily job: invoices to announce, and the one
                 \* announced that it is about to stamp
    task,        \* BackgroundTaskTracker.inFlight
    notified,    \* invoice -> its rows in notifications
    sequence,    \* audit_log_code_seq
    audit,       \* audit_logs: codes
    history      \* what has happened so far

ledger == <<invoice, paid>>

records == <<notified, sequence, audit>>

everything == <<ledger, process, overdue, stamped, job, task, records, history>>

Free == [kind |-> "free"]

AuditTask == [kind : {"audit"}, code : 0..MaxServed, awaited : BOOLEAN]

NotifyTask == [kind : {"notify"}, invoice : Invoices, left : 1..Templates, awaited : BOOLEAN]

NoRun == [todo |-> {}, firing |-> {}]

RemindersTypeOK ==
    /\ process \in {"up", "draining", "down"}
    /\ stamped \subseteq overdue /\ overdue \subseteq Invoices
    /\ job \in [todo : SUBSET Invoices, firing : {{}} \cup {{i} : i \in Invoices}]
    /\ task \in [Slots -> AuditTask \cup NotifyTask \cup {Free}]
    /\ notified \in [Invoices -> Nat]
    /\ sequence \in 0..MaxServed
    /\ audit \subseteq 1..sequence
    /\ history \in [served : 0..MaxServed, late : BOOLEAN, shutdowns : 0..MaxIncidents,
                    troubles : 0..MaxIncidents, lapses : [Invoices -> Nat]]
    /\ process = "down" => job = NoRun /\ \A s \in Slots : task[s] = Free

\* The seeded invoices, some past their due date; the log is empty.
SystemInit ==
    /\ Init
    /\ process = "up"
    /\ overdue \in SUBSET {i \in Invoices : invoice[i] # NoInvoice}
    /\ stamped = {}
    /\ job = NoRun
    /\ task = [s \in Slots |-> Free]
    /\ notified = [i \in Invoices |-> 0]
    /\ sequence = 0
    /\ audit = {}
    /\ history = [served |-> 0, late |-> FALSE, shutdowns |-> 0, troubles |-> 0,
                  lapses |-> [i \in Invoices |-> 0]]
-----------------------------------------------------------------------------
InFlight == {s \in Slots : task[s] # Free}

Awaited == {s \in InFlight : task[s].awaited}

\* BackgroundTaskTracker.track.
Track(t) ==
    \E s \in Slots \ InFlight :
       /\ \A r \in Slots \ InFlight : s <= r
       /\ task' = [task EXCEPT ![s] = t]

MayHappen == history.shutdowns + history.troubles < MaxIncidents

Troubled == [history EXCEPT !.troubles = @ + 1]

Running == process \in {"up", "draining"}

Announcing(i) == [kind |-> "notify", invoice |-> i, left |-> Templates, awaited |-> FALSE]

Auditing == [kind |-> "audit", code |-> 0, awaited |-> FALSE]
-----------------------------------------------------------------------------
(***************************************************************************)
(* Requests.  The interceptor tracks the audit entry of every mutation,    *)
(* done or refused, and of every look at one record.  Requests are still   *)
(* served while the shutdown waits.                                        *)
(***************************************************************************)
Serve ==
    /\ Running
    /\ Next \/ UNCHANGED ledger
    /\ Track(Auditing)
    /\ history.served < MaxServed
    /\ history' = [history EXCEPT !.served = @ + 1, !.late = @ \/ process = "draining"]
    /\ UNCHANGED <<process, overdue, stamped, job, records>>

\* AuditService.record: nextval, then the insert.
NextCode == sequence + 1

AllocateEntry(s) ==
    /\ task[s].kind = "audit" /\ task[s].code = 0
    /\ task' = [task EXCEPT ![s].code = NextCode]
    /\ sequence' = NextCode
    /\ UNCHANGED <<ledger, process, overdue, stamped, job, notified, audit, history>>

\* A code that exists is refused, and the refusal only logged.
SaveEntry(s) ==
    /\ task[s].kind = "audit" /\ task[s].code # 0
    /\ audit' = audit \cup {task[s].code}
    /\ task' = [task EXCEPT ![s] = Free]
    /\ UNCHANGED <<ledger, process, overdue, stamped, job, notified, sequence, history>>
-----------------------------------------------------------------------------
(***************************************************************************)
(* The daily job, InvoiceOverdueJob.                                       *)
(***************************************************************************)
Unpaid(i) == invoice[i].status \in {"due", "partial"}

\* MUTANT of Candidates: the stamp is not looked at.
CandidatesAgain == {i \in overdue : Unpaid(i)}

\* MUTANT of Candidates: the due date is not compared.
CandidatesNotDue == {i \in Invoices \ stamped : Unpaid(i)}

\* MUTANT of Candidates: partly paid invoices are left out.
CandidatesUntouched == {i \in overdue \ stamped : invoice[i].status = "due"}

Candidates == {i \in overdue \ stamped : Unpaid(i)}

JobReads ==
    /\ process = "up"
    /\ job = NoRun
    /\ Candidates # {}
    /\ job' = [job EXCEPT !.todo = Candidates]
    /\ UNCHANGED <<ledger, process, overdue, stamped, task, records, history>>

\* The trigger is fired on what was read; the update is awaited next.
JobFires(i) ==
    /\ Running
    /\ i \in job.todo /\ job.firing = {}
    /\ Track(Announcing(i))
    /\ job' = [todo |-> job.todo \ {i}, firing |-> {i}]
    /\ history' = [history EXCEPT !.late = @ \/ process = "draining"]
    /\ UNCHANGED <<ledger, process, overdue, stamped, records>>

JobStamps ==
    /\ job.firing # {}
    /\ stamped' = stamped \cup job.firing
    /\ job' = [job EXCEPT !.firing = {}]
    /\ UNCHANGED <<ledger, process, overdue, task, records, history>>

\* An invoice announced but not stamped: the next run announces it again.
Lapsed(h) == [h EXCEPT !.lapses = [i \in Invoices |-> @[i] + IF i \in job.firing THEN 1 ELSE 0]]

\* The update throws, and the rest of the run is given up.
JobFails ==
    /\ job.firing # {}
    /\ MayHappen
    /\ history' = Lapsed(Troubled)
    /\ job' = NoRun
    /\ UNCHANGED <<ledger, process, overdue, stamped, task, records>>

\* NotificationsService.insert, for one template after the other.
InsertNotification(s) ==
    /\ task[s].kind = "notify"
    /\ notified' = [notified EXCEPT ![task[s].invoice] = @ + 1]
    /\ task' = [task EXCEPT ![s] = IF @.left = 1 THEN Free
                                   ELSE [@ EXCEPT !.left = task[s].left - 1]]
    /\ UNCHANGED <<ledger, process, overdue, stamped, job, sequence, audit, history>>

\* A background write fails: logged, and what is left of the task dropped.
WriteFails(s) ==
    /\ s \in InFlight
    /\ task' = [task EXCEPT ![s] = Free]
    /\ MayHappen
    /\ history' = Troubled
    /\ UNCHANGED <<ledger, process, overdue, stamped, job, records>>

FallDue(i) ==
    /\ invoice[i] # NoInvoice
    /\ i \notin overdue
    /\ overdue' = overdue \cup {i}
    /\ UNCHANGED <<ledger, process, stamped, job, task, records, history>>
-----------------------------------------------------------------------------
(***************************************************************************)
(* The process.                                                            *)
(***************************************************************************)
\* beforeApplicationShutdown waits for the writes in flight as it starts.
Shutdown ==
    /\ process = "up"
    /\ MayHappen
    /\ history' = [history EXCEPT !.shutdowns = @ + 1]
    /\ process' = "draining"
    /\ task' = [s \in Slots |-> IF task[s] = Free THEN Free ELSE [task[s] EXCEPT !.awaited = TRUE]]
    /\ UNCHANGED <<ledger, overdue, stamped, job, records>>

\* MUTANT of Settled: shutdown does not wait.
SettledAtOnce == TRUE

\* allSettled([...inFlight]), or nothing was in flight.
Settled == Awaited = {}

\* The connections are closed, with whatever still needs one.
GoDown ==
    /\ process' = "down"
    /\ job' = NoRun
    /\ task' = [s \in Slots |-> Free]
    /\ UNCHANGED <<ledger, overdue, stamped, records>>

Drained ==
    /\ process = "draining"
    /\ Settled
    /\ history' = Lapsed(history)
    /\ GoDown

\* The five seconds are over, or the process is killed.
Die ==
    /\ Running
    /\ MayHappen
    /\ history' = Lapsed(Troubled)
    /\ GoDown

Restart ==
    /\ process = "down"
    /\ process' = "up"
    /\ UNCHANGED <<ledger, overdue, stamped, job, task, records, history>>

TaskStep == \E s \in Slots : AllocateEntry(s) \/ SaveEntry(s) \/ InsertNotification(s)

JobStep == JobReads \/ (\E i \in Invoices : JobFires(i)) \/ JobStamps

SystemNext ==
    \/ Serve
    \/ TaskStep \/ JobStep \/ JobFails \/ \E s \in Slots : WriteFails(s)
    \/ \E i \in Invoices : FallDue(i)
    \/ Shutdown \/ Drained \/ Die \/ Restart

\* Background writes and the job make progress; the job runs again every day;
\* a drain ends by itself, and the process is restarted.
Fairness ==
    /\ WF_everything(TaskStep)
    /\ WF_everything(JobStep)
    /\ WF_everything(Drained)
    /\ WF_everything(Restart)

SystemSpec == SystemInit /\ [][SystemNext]_everything /\ Fairness
-----------------------------------------------------------------------------
\* The notifications of an invoice that a task in flight has still to write.
Left(i) ==
    [s \in Slots |-> IF task[s].kind = "notify" /\ task[s].invoice = i THEN task[s].left ELSE 0]

Coming(i) == SumFunctionOnSet(Left(i), Slots)

\* "Fires once per invoice, and stamps it so it never fires again": an invoice
\* is announced by as many notifications as the trigger has templates, and
\* again only where a run was cut off between the trigger and the stamp, by
\* the end of the process or a failed update.
AnnouncedOnce ==
    \A i \in Invoices : notified[i] <= Templates * (1 + history.lapses[i])

\* Nothing goes missing without a reason: if no write failed, the process did
\* not die, and nothing was begun after a shutdown had looked for writes in
\* flight, then a stamped invoice has its notifications, written or on the
\* way, and every answered request has its audit entry, written or on the way,
\* through shutdowns and restarts.
NothingIsDropped ==
    history.troubles = 0 /\ ~history.late =>
       /\ \A i \in stamped : notified[i] + Coming(i) >= Templates
       /\ Cardinality(audit) + Cardinality({s \in Slots : task[s].kind = "audit"})
            = history.served

\* Every invoice left unpaid past its due date is announced and stamped,
\* whatever crashes, shutdowns and failed updates cut runs of the job short.
OverdueIsStamped ==
    \A i \in Invoices : (i \in overdue /\ Unpaid(i)) ~> (i \in stamped \/ ~Unpaid(i))
=============================================================================
