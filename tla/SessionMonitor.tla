--------------------------- MODULE SessionMonitor ---------------------------
(***************************************************************************)
(* The monitor of the Xiaohongshu session that cron starts every minute:   *)
(* SessionMonitor (app/manually_execute_script/                            *)
(* monitor_xiaohongshu_session.py), which samples the platform at most     *)
(* every half hour and sends one card for an outage.                       *)
(*                                                                         *)
(* A tick reads status.json, and its process may be lost while it samples  *)
(* or while it sends.  The chat drops a card whose incident id it knows    *)
(* (the uuid of the message).  A sample ends within five minutes.          *)
(***************************************************************************)
EXTENDS Naturals, FiniteSets

CONSTANTS
    Incidents,     \* incident ids; there are enough for the cards told apart
    NoIncident

VARIABLES
    tick,          \* where the process is
    probeDue,      \* next_probe_at has passed
    lastReport,    \* last_report: healthy, one that calls for a card, another
    incident,      \* the open incident: its id, sent
    notifyDue,     \* its next_notify_at has passed
    told           \* the incident ids of the cards in the chat since the last
                   \* sample that was healthy

monitorVars == <<tick, probeDue, lastReport, incident, notifyDue, told>>

Reports == {"healthy", "alert", "sample_failed"}
NoneOpen == [id |-> NoIncident, sent |-> FALSE]

MonitorTypeOK ==
    /\ tick \in {"idle", "sample", "notify"}
    /\ probeDue \in BOOLEAN /\ notifyDue \in BOOLEAN
    /\ lastReport \in Reports
    /\ incident \in [id : Incidents \union {NoIncident}, sent : BOOLEAN]
    /\ told \subseteq Incidents

MonitorInit ==
    /\ tick = "idle" /\ probeDue = TRUE
    /\ lastReport = "healthy"
    /\ incident = NoneOpen /\ notifyDue = FALSE
    /\ told = {}

\* The incident the report leaves: a new one gets an id that no card has.
OpenIncident(next) ==
    IF incident.id # NoIncident
    THEN next = incident
    ELSE \E id \in Incidents \ (told \union {NoIncident}) : next = [id |-> id, sent |-> FALSE]

\* After a report: status.json is saved, before a card is sent or at the end.
Conclude(report, probed) ==
    \/ /\ report = "healthy" /\ probed
       /\ incident' = NoneOpen /\ told' = {}
       /\ tick' = "idle" /\ UNCHANGED notifyDue
    \/ /\ report = "alert"
       /\ OpenIncident(incident')
       /\ tick' = IF ~incident'.sent /\ (notifyDue \/ incident.id = NoIncident)
                  THEN "notify" ELSE "idle"
       /\ notifyDue' = (notifyDue /\ tick' = "idle")
       /\ UNCHANGED told
    \/ /\ report = "sample_failed" \/ (report = "healthy" /\ ~probed)
       /\ tick' = "idle" /\ UNCHANGED <<incident, notifyDue, told>>

\* Cron starts the process (flock: one at a time), which looks at the owner:
\* every status but ready calls for a card.
TickDown ==
    /\ tick = "idle"
    /\ lastReport' = "alert"
    /\ Conclude("alert", FALSE)
    /\ UNCHANGED probeDue

TickWait ==
    /\ tick = "idle" /\ ~probeDue
    /\ Conclude(lastReport, FALSE)
    /\ UNCHANGED <<probeDue, lastReport>>

\* The deadline is saved before the sample.
TickProbe ==
    /\ tick = "idle" /\ probeDue
    /\ tick' = "sample" /\ probeDue' = FALSE
    /\ UNCHANGED <<lastReport, incident, notifyDue, told>>

Sampled ==
    /\ tick = "sample"
    /\ lastReport' \in Reports
    /\ Conclude(lastReport', TRUE)
    /\ UNCHANGED probeDue

\* Mutant: the incident is saved with the outcome of its delivery only.
PostedUnsaved ==
    /\ tick = "notify" /\ tick' = "idle"
    /\ \/ told' = told \union {incident.id} /\ incident' \in {NoneOpen, [incident EXCEPT !.sent = TRUE]}
       \/ told' = told /\ incident' = NoneOpen
    /\ UNCHANGED <<probeDue, lastReport, notifyDue>>

\* The message is posted, perhaps; its id is received and saved, perhaps.
Posted ==
    /\ tick = "notify" /\ tick' = "idle"
    /\ \/ told' = told \union {incident.id} /\ incident' \in {incident, [incident EXCEPT !.sent = TRUE]}
       \/ UNCHANGED <<told, incident>>
    /\ UNCHANGED <<probeDue, lastReport, notifyDue>>

\* The process is lost before it has sampled: only the deadline is saved.
TickLost ==
    /\ tick = "sample" /\ tick' = "idle"
    /\ UNCHANGED <<probeDue, lastReport, incident, notifyDue, told>>

HalfHour ==
    /\ tick # "sample" /\ ~probeDue
    /\ probeDue' = TRUE
    /\ UNCHANGED <<tick, lastReport, incident, notifyDue, told>>

NotifyComesDue ==
    /\ ~notifyDue /\ incident.id # NoIncident
    /\ notifyDue' = TRUE
    /\ UNCHANGED <<tick, probeDue, lastReport, incident, told>>

MonitorNext == TickDown \/ TickWait \/ TickProbe \/ Sampled \/ Posted \/ TickLost \/ HalfHour \/ NotifyComesDue

MonitorSpec == MonitorInit /\ [][MonitorNext]_monitorVars

-----------------------------------------------------------------------------

\* An outage, which only a healthy sample ends, puts one card into the chat,
\* however often it is seen, the process lost or a delivery left in doubt: the
\* incident is saved before its card is posted (tick).
OneCardPerOutage == Cardinality(told) <= 1

=============================================================================
