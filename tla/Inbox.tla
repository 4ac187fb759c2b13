-------------------------------- MODULE Inbox --------------------------------
(***************************************************************************)
(* The administrators' side of notifications: announcements sent by hand   *)
(* and read flags, pairs of templates, and the settings, one row that is   *)
(* created when somebody first asks for it.  The inserts that triggers     *)
(* cause go through the same handler as announcements do; what loses or    *)
(* repeats them is in Reminders.  The texts of messages and templates are  *)
(* left out, and with them the PATCH of a template.                        *)
(***************************************************************************)
EXTENDS Desk, Sequences

CONSTANTS
    Settings,    \* values a PUT may replace the settings with
    MaxNotifications, MaxTemplates,    \* bounds on the codes ever given,
    MaxStamps                          \* and on the times rows are stamped with

ASSUME InboxAssumption == {MaxNotifications, MaxTemplates, MaxStamps} \subseteq Nat

VARIABLES
    notification,    \* notifications table: number in the code -> is it read?
    template,        \* notification_templates: numbers of the pairs inserted
    settings         \* notification_preferences, in the order of commits

inbox == <<notification, template, settings>>

NotificationEndpoints == {"send", "markRead", "markAllRead", "addTemplate"}

SettingsEndpoints == {"getSettings", "putSettings"}

Notifications == 1..MaxNotifications

TemplatePairs == 1..MaxTemplates

DefaultPrefs == "default"

\* at orders the rows by createdAt, which Postgres takes when the inserting
\* transaction begins and not when it commits.
SettingsRow == [at : 1..MaxStamps, prefs : Settings \cup {DefaultPrefs}]

Sent(n) == notification[n] # "none"

InboxTypeOK ==
    /\ notification \in [Notifications -> {"none", "unread", "read"}]
    /\ template \subseteq TemplatePairs
    /\ settings \in Seq(SettingsRow)
    /\ \A j, k \in DOMAIN settings : settings[j].at = settings[k].at => j = k

\* No seeder writes these tables.
InboxInit ==
    /\ notification = [n \in Notifications |-> "none"]
    /\ template = {}
    /\ settings = <<>>
-----------------------------------------------------------------------------
(***************************************************************************)
(* NotificationsService.                                                   *)
(***************************************************************************)
NumberNotification(r) ==
    LET n == NextNumber({k \in Notifications : Sent(k)}) IN
    /\ "send" \in calls
    /\ req[r] = Idle
    /\ n \in Notifications
    /\ Number(r, "notifications", [pc |-> "notificationNumbered", n |-> n])
    /\ UNCHANGED inbox

CommitNotification(r) ==
    LET n == req[r].n IN
    /\ At(r, "notificationNumbered")
    /\ ~Sent(n)        \* the unique index on the code
    /\ notification' = [notification EXCEPT ![n] = "unread"]
    /\ Answer(r)
    /\ UNCHANGED <<template, settings>>

ReadForMark(r, n) ==
    /\ Sent(n)
    /\ Begin(r, "markRead", [pc |-> "marking", n |-> n])
    /\ UNCHANGED inbox

SaveMark(r) ==
    /\ At(r, "marking")
    /\ MayWrite(r, "notifications")
    /\ notification' = [notification EXCEPT ![req[r].n] = "read"]
    /\ Answer(r)
    /\ UNCHANGED <<template, settings>>

\* One UPDATE.
MarkAllRead(r) ==
    /\ "markAllRead" \in calls
    /\ req[r] = Idle
    /\ MayWrite(r, "notifications")
    /\ notification' = [n \in Notifications |-> IF Sent(n) THEN "read" ELSE "none"]
    /\ UNCHANGED <<desk, template, settings>>

\* NotificationTemplatesService.create: the English and the Swahili row of a
\* pair share the number, of which only the English code is looked at.
NumberTemplate(r) ==
    LET n == NextNumber(template) IN
    /\ "addTemplate" \in calls
    /\ req[r] = Idle
    /\ n \in TemplatePairs
    /\ Number(r, "notification_templates", [pc |-> "templateNumbered", n |-> n])
    /\ UNCHANGED inbox

CommitTemplates(r) ==
    /\ At(r, "templateNumbered")
    /\ req[r].n \notin template
    /\ template' = template \cup {req[r].n}
    /\ Answer(r)
    /\ UNCHANGED <<notification, settings>>
-----------------------------------------------------------------------------
(***************************************************************************)
(* NotificationPreferencesService.  Every request begins with row(), which *)
(* returns the oldest row or inserts one; a PUT then saves into that row.  *)
(***************************************************************************)
Creators == {r \in Requests : req[r].pc \in {"settingsMissing", "settingsStamped"}}

Oldest == CHOOSE k \in DOMAIN settings : \A j \in DOMAIN settings : settings[k].at <= settings[j].at

\* A PUT is sure of its row when it found one that nobody was still creating
\* another beside.
Found(r, op, k, next) ==
    Begin(r, op, [pc |-> "settingsFound", k |-> k, next |-> next, sure |-> Creators = {}])

\* MUTANT of FindSettings: without ORDER BY, any row may come first.
FindSomeSettings(r, op, next) ==
    /\ IF settings = <<>> THEN Begin(r, op, [pc |-> "settingsMissing", next |-> next])
       ELSE \E k \in DOMAIN settings : Found(r, op, k, next)
    /\ UNCHANGED inbox

FindSettings(r, op, next) ==
    /\ IF settings = <<>> THEN Begin(r, op, [pc |-> "settingsMissing", next |-> next])
       ELSE Found(r, op, Oldest, next)
    /\ UNCHANGED inbox

GetSettings(r) == FindSettings(r, "getSettings", DefaultPrefs)

PutSettings(r, next) == FindSettings(r, "putSettings", next)

\* The inserting transaction begins.
StampSettings(r) ==
    LET used == {settings[k].at : k \in DOMAIN settings}
                  \cup {req[q].at : q \in {p \in Requests : At(p, "settingsStamped")}}
    IN /\ At(r, "settingsMissing")
       /\ NextNumber(used) <= MaxStamps
       /\ req' = [req EXCEPT ![r] = [pc |-> "settingsStamped", next |-> @.next, at |-> NextNumber(used)]]
       /\ UNCHANGED <<calls, held, inbox>>

InsertSettings(r) ==
    /\ At(r, "settingsStamped")
    /\ settings' = Append(settings, [at |-> req[r].at, prefs |-> DefaultPrefs])
    /\ req' = [req EXCEPT ![r] = [pc |-> "settingsFound", k |-> Len(settings'), next |-> @.next,
                                  sure |-> FALSE]]
    /\ UNCHANGED <<calls, held, notification, template>>

\* A GET answers with what it found; next is not used.
AnswerSettings(r) ==
    /\ At(r, "settingsFound") /\ req[r].next = DefaultPrefs
    /\ Answer(r)
    /\ UNCHANGED inbox

SaveSettings(r) ==
    /\ At(r, "settingsFound") /\ req[r].next # DefaultPrefs
    /\ settings' = [settings EXCEPT ![req[r].k].prefs = req[r].next]
    /\ Answer(r)
    /\ UNCHANGED <<notification, template>>
-----------------------------------------------------------------------------
InboxArrive(r) ==
    \/ NumberNotification(r) \/ MarkAllRead(r) \/ NumberTemplate(r)
    \/ \E n \in Notifications : ReadForMark(r, n)
    \/ GetSettings(r)
    \/ \E next \in Settings : PutSettings(r, next)

InboxAdvance(r) ==
    \/ CommitNotification(r) \/ SaveMark(r) \/ CommitTemplates(r)
    \/ StampSettings(r) \/ InsertSettings(r) \/ AnswerSettings(r) \/ SaveSettings(r)
=============================================================================
