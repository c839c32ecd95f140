---------------------------- MODULE ServicesProofs ----------------------------
(***************************************************************************)
(* The safety of the parts beside the jobs: the owner of the Xiaohongshu   *)
(* session, its monitor and the outbox of status errors, for every number  *)
(* of reads, login tasks, refreshes, callbacks, buckets and incident ids.  *)
(*                                                                         *)
(* A refusal stands in the status until a login is seen, whatever writes   *)
(* the status meanwhile, or until a callback that saw one before overrules *)
(* it (Stopped).                                                           *)
(*                                                                         *)
(* The cards in the chat about an outage are those of the open incident,   *)
(* whose id is stored before the first of them is posted.                  *)
(*                                                                         *)
(* A row that the dispatcher of the outbox has read stays what it was      *)
(* until it is settled, since only a sent row is replaced (Held), and the  *)
(* card in the chat is the one of the row (Current).                       *)
(***************************************************************************)
EXTENDS SessionOwner, SessionMonitor, StatusAlerts, FiniteSetTheorems, TLAPS

-----------------------------------------------------------------------------
(* The owner of the session *)

\* A refusal that stands stops the reads.
Stopped == refused = "yes" => status # "ready"

OwnerInv == OwnerTypeOK /\ Stopped

\* Every step keeps the types.
LEMMA OwnerTypeStep == OwnerTypeOK /\ [OwnerNext]_ownerVars => OwnerTypeOK'
<1> SUFFICES ASSUME OwnerTypeOK, [OwnerNext]_ownerVars PROVE OwnerTypeOK'
  OBVIOUS
<1>1. ASSUME NEW r \in Reads, Ask(r) PROVE OwnerTypeOK'
  BY <1>1 DEF Ask, Move, check_ready, OwnerTypeOK, OwnerStatuses, Idle, readers, logins
<1>2. ASSUME NEW r \in Reads, GiveUp(r) PROVE OwnerTypeOK'
  BY <1>2 DEF GiveUp, Move, LockFree, OwnerTypeOK, OwnerStatuses, Idle, readers, logins
<1>3. ASSUME NEW r \in Reads, Acquire(r) PROVE OwnerTypeOK'
  BY <1>3 DEF Acquire, Move, LockFree, check_ready, OwnerTypeOK, OwnerStatuses, Idle, readers, logins
<1>4. ASSUME NEW r \in Reads, Send(r) PROVE OwnerTypeOK'
  BY <1>4 DEF Send, Move, check_ready, OwnerTypeOK, OwnerStatuses, Idle, readers, logins
<1>5. ASSUME NEW r \in Reads, ObserveRefusal(r) PROVE OwnerTypeOK'
  BY <1>5 DEF ObserveRefusal, Move, OwnerTypeOK, OwnerStatuses, Idle, readers, logins
<1>6. ASSUME NEW r \in Reads, ReadAnswered(r) PROVE OwnerTypeOK'
  BY <1>6 DEF ReadAnswered, Move, OwnerTypeOK, OwnerStatuses, Idle, readers, logins
<1>7. ASSUME NEW r \in Reads, AnsweredStopped(r) PROVE OwnerTypeOK'
  BY <1>7 DEF AnsweredStopped, Move, OwnerTypeOK, OwnerStatuses, Idle, readers, logins
<1>8. ASSUME NEW r \in Reads, AnsweredRefused(r) PROVE OwnerTypeOK'
  BY <1>8 DEF AnsweredRefused, Move, OwnerTypeOK, OwnerStatuses, Idle, readers, logins
<1>9. ASSUME NEW r \in Reads, HiddenDenial(r) PROVE OwnerTypeOK'
  BY <1>9 DEF HiddenDenial, Move, OwnerTypeOK, OwnerStatuses, Idle, readers, logins
<1>10. ASSUME NEW r \in Reads, ReadFailed(r) PROVE OwnerTypeOK'
  BY <1>10 DEF ReadFailed, Move, check_ready, CountError, OwnerTypeOK, OwnerStatuses, Idle, readers, logins
<1>11. ASSUME NEW r \in Reads, Save(r) PROVE OwnerTypeOK'
  BY <1>11 DEF Save, Move, check_ready, CountError, OwnerTypeOK, OwnerStatuses, Idle, readers, logins
<1>12. ASSUME NEW l \in Logins, BeginLogin(l) PROVE OwnerTypeOK'
  BY <1>12 DEF BeginLogin, LoginAt, OwnerTypeOK, OwnerStatuses, Idle, readers, logins
<1>13. ASSUME NEW l \in Logins, Opened(l) PROVE OwnerTypeOK'
  BY <1>13 DEF Opened, LoginAt, OwnerTypeOK, OwnerStatuses, Idle, readers, logins
<1>14. ASSUME NEW l \in Logins, Polled(l) PROVE OwnerTypeOK'
  BY <1>14 DEF Polled, LoginAt, OwnerTypeOK, OwnerStatuses, Idle, readers, logins
<1>15. ASSUME NEW l \in Logins, LoginFails(l) PROVE OwnerTypeOK'
  BY <1>15 DEF LoginFails, LoginAt, OwnerTypeOK, OwnerStatuses, Idle, readers, logins
<1>16. ASSUME NEW l \in Logins, LoginCancelled(l) PROVE OwnerTypeOK'
  BY <1>16 DEF LoginCancelled, LoginAt, OwnerTypeOK, OwnerStatuses, Idle, readers, logins
<1>17. ASSUME NEW o \in Callbacks, MemberSeen(o) PROVE OwnerTypeOK'
  BY <1>17 DEF MemberSeen, OwnerTypeOK, OwnerStatuses, Idle, readers, logins
<1>18. ASSUME NEW o \in Callbacks, ObserveLogin(o) PROVE OwnerTypeOK'
  BY <1>18 DEF ObserveLogin, OwnerTypeOK, OwnerStatuses, Idle, readers, logins
<1>19. ASSUME NEW f \in Refreshes, Refresh(f) PROVE OwnerTypeOK'
  <2>1. refresh' \in [Refreshes -> Logins \union {NoLogin}] /\ loginTask' \in Logins \union {NoLogin}
    BY <1>19 DEF Refresh, OwnerTypeOK
  <2>2. login' \in [Logins -> {Idle, "start", "goto", "poll", "cancelled"}]
    <3>1. CASE loginTask = NoLogin
      BY <1>19, <3>1 DEF Refresh, LoginAt, OwnerTypeOK
    <3>2. CASE loginTask # NoLogin
      BY <1>19, <3>2 DEF Refresh, LoginAt, OwnerTypeOK
    <3>3. QED
      BY <3>1, <3>2
  <2>3. QED
    BY <1>19, <2>1, <2>2 DEF Refresh, readers, OwnerTypeOK
<1>20. ASSUME NEW f \in Refreshes, Relogin(f) PROVE OwnerTypeOK'
  BY <1>20 DEF Relogin, LoginAt, OwnerTypeOK, OwnerStatuses, Idle, readers, logins
<1>21. CASE OwnerRestart
  <2>1. login' \in [Logins -> {Idle, "start", "goto", "poll", "cancelled"}]
    BY <1>21, Zenon DEF OwnerRestart, Started, NoTasks
  <2>2. loginTask' \in Logins \union {NoLogin} /\ refresh' \in [Refreshes -> Logins \union {NoLogin}]
    BY <1>21 DEF OwnerRestart, Started
  <2>3. read' \in [Reads -> {Idle, "queue", "pace", "sent", "refused", "broken", "save"}]
    BY <1>21 DEF OwnerRestart, Started
  <2>4. {loginMode', loading'} \subseteq BOOLEAN
    BY <1>21, Zenon DEF OwnerRestart, Started, OwnerTypeOK
  <2>5. QED
    BY <1>21, <2>1, <2>2, <2>3, <2>4 DEF OwnerRestart, Started, OwnerTypeOK, OwnerStatuses
<1>22. CASE Loaded
  BY <1>22 DEF Loaded, OwnerTypeOK, OwnerStatuses, Idle
<1>23. CASE UNCHANGED ownerVars
  BY <1>23 DEF ownerVars, OwnerTypeOK, OwnerStatuses, Idle
<1>24. QED
  BY <1>1, <1>2, <1>3, <1>4, <1>5, <1>6, <1>7, <1>8, <1>9, <1>10, <1>11, <1>12, <1>13,
     <1>14, <1>15, <1>16, <1>17, <1>18, <1>19, <1>20, <1>21, <1>22, <1>23 DEF OwnerNext

\* Every step keeps what stops the reads.
LEMMA OwnerSafetyStep ==
    OwnerInv /\ [OwnerNext]_ownerVars => Stopped'
<1> SUFFICES ASSUME OwnerInv, [OwnerNext]_ownerVars
             PROVE  Stopped'
  OBVIOUS
<1> USE DEF OwnerInv
<1>1. ASSUME NEW r \in Reads, Ask(r) PROVE Stopped'
  BY <1>1 DEF Ask, Move, check_ready, OwnerTypeOK, Stopped,
     Idle, readers, logins
<1>2. ASSUME NEW r \in Reads, GiveUp(r) PROVE Stopped'
  BY <1>2 DEF GiveUp, Move, LockFree, OwnerTypeOK, Stopped,
     Idle, readers, logins
<1>3. ASSUME NEW r \in Reads, Acquire(r) PROVE Stopped'
  BY <1>3 DEF Acquire, Move, LockFree, check_ready, OwnerTypeOK, Stopped, Idle, readers, logins
<1>4. ASSUME NEW r \in Reads, Send(r) PROVE Stopped'
  BY <1>4 DEF Send, Move, check_ready, OwnerTypeOK, Stopped,
     Idle, readers, logins
<1>5. ASSUME NEW r \in Reads, ObserveRefusal(r) PROVE Stopped'
  BY <1>5 DEF ObserveRefusal, Move, OwnerTypeOK, Stopped,
     Idle, readers, logins
<1>6. ASSUME NEW r \in Reads, ReadAnswered(r) PROVE Stopped'
  BY <1>6 DEF ReadAnswered, Move, OwnerTypeOK, Stopped, Idle,
     readers, logins
<1>7. ASSUME NEW r \in Reads, AnsweredStopped(r) PROVE Stopped'
  BY <1>7 DEF AnsweredStopped, Move, OwnerTypeOK, Stopped,
     Idle, readers, logins
<1>8. ASSUME NEW r \in Reads, AnsweredRefused(r) PROVE Stopped'
  BY <1>8 DEF AnsweredRefused, Move, OwnerTypeOK, Stopped,
     Idle, readers, logins
<1>9. ASSUME NEW r \in Reads, HiddenDenial(r) PROVE Stopped'
  BY <1>9 DEF HiddenDenial, Move, OwnerTypeOK, Stopped, Idle,
     readers, logins
<1>10. ASSUME NEW r \in Reads, ReadFailed(r) PROVE Stopped'
  BY <1>10 DEF ReadFailed, Move, check_ready, CountError, OwnerTypeOK, Stopped, Idle, readers, logins
<1>11. ASSUME NEW r \in Reads, Save(r) PROVE Stopped'
  BY <1>11 DEF Save, Move, check_ready, CountError, OwnerTypeOK, Stopped, Idle, readers, logins
<1>12. ASSUME NEW l \in Logins, BeginLogin(l) PROVE Stopped'
  BY <1>12 DEF BeginLogin, LoginAt, OwnerTypeOK, Stopped, Idle,
     readers, logins
<1>13. ASSUME NEW l \in Logins, Opened(l) PROVE Stopped'
  BY <1>13 DEF Opened, LoginAt, OwnerTypeOK, Stopped, Idle,
     readers, logins
<1>14. ASSUME NEW l \in Logins, Polled(l) PROVE Stopped'
  BY <1>14 DEF Polled, LoginAt, OwnerTypeOK, Stopped, Idle,
     readers, logins
<1>15. ASSUME NEW l \in Logins, LoginFails(l) PROVE Stopped'
  BY <1>15 DEF LoginFails, LoginAt, OwnerTypeOK, Stopped, Idle,
     readers, logins
<1>16. ASSUME NEW l \in Logins, LoginCancelled(l) PROVE Stopped'
  BY <1>16 DEF LoginCancelled, LoginAt, OwnerTypeOK, Stopped, Idle,
     readers, logins
<1>17. ASSUME NEW o \in Callbacks, MemberSeen(o) PROVE Stopped'
  BY <1>17 DEF MemberSeen, OwnerTypeOK, Stopped, Idle,
     readers, logins
<1>18. ASSUME NEW o \in Callbacks, ObserveLogin(o) PROVE Stopped'
  BY <1>18 DEF ObserveLogin, OwnerTypeOK, Stopped, Idle,
     readers, logins
<1>19. ASSUME NEW f \in Refreshes, Refresh(f) PROVE Stopped'
  BY <1>19 DEF Refresh, LoginAt, check_ready, OwnerTypeOK, Stopped, Idle, readers, logins
<1>20. ASSUME NEW f \in Refreshes, Relogin(f) PROVE Stopped'
  BY <1>20 DEF Relogin, LoginAt, OwnerTypeOK, Stopped, Idle,
     readers, logins
<1>21. CASE OwnerRestart
  BY <1>21 DEF OwnerRestart, Started, NoTasks, Idle, OwnerTypeOK, Stopped, Idle
<1>22. CASE Loaded
  BY <1>22 DEF Loaded, OwnerTypeOK, Stopped, Idle
<1>23. CASE UNCHANGED ownerVars
  BY <1>23 DEF ownerVars, OwnerTypeOK, Stopped, Idle
<1>24. QED
  BY <1>1, <1>2, <1>3, <1>4, <1>5, <1>6, <1>7, <1>8, <1>9, <1>10, <1>11, <1>12, <1>13,
     <1>14, <1>15, <1>16, <1>17, <1>18, <1>19, <1>20, <1>21, <1>22, <1>23 DEF OwnerNext

\* The invariant holds at first, ...
LEMMA OwnerInitially == OwnerInit => OwnerInv
<1>1. OwnerInit => OwnerTypeOK
  <2> SUFFICES ASSUME OwnerInit PROVE OwnerTypeOK
    OBVIOUS
  <2>1. status \in OwnerStatuses /\ errors \in 0 .. 2
    BY DEF OwnerInit, OwnerStatuses
  <2>2. read \in [Reads -> {Idle, "queue", "pace", "sent", "refused", "broken", "save"}]
    BY DEF OwnerInit
  <2>3. login \in [Logins -> {Idle, "start", "goto", "poll", "cancelled"}]
    BY DEF OwnerInit, NoTasks
  <2>4. loginTask \in Logins \union {NoLogin} /\ refresh \in [Refreshes -> Logins \union {NoLogin}]
    BY DEF OwnerInit
  <2>5. observing \subseteq Callbacks /\ {loginMode, loading} \subseteq BOOLEAN
    BY Zenon DEF OwnerInit
  <2>6. refused \in {"no", "yes", "overruled"}
    BY DEF OwnerInit
  <2>7. QED
    BY <2>1, <2>2, <2>3, <2>4, <2>5, <2>6 DEF OwnerTypeOK
<1>2. OwnerInit => Stopped
  BY DEF OwnerInit, Stopped
<1>3. QED
  BY <1>1, <1>2 DEF OwnerInv

\* ... and ever after.
LEMMA OwnerInvariant == OwnerSpec => []OwnerInv
<1>1. OwnerInv /\ [OwnerNext]_ownerVars => OwnerInv'
  BY OwnerTypeStep, OwnerSafetyStep DEF OwnerInv
<1>2. QED
  BY OwnerInitially, <1>1, PTL DEF OwnerSpec

-----------------------------------------------------------------------------

\* The variables of the owner keep their types.
THEOREM OwnerTyped == OwnerSpec => []OwnerTypeOK
<1>1. OwnerInv => OwnerTypeOK
  BY DEF OwnerInv
<1>2. QED
  BY <1>1, OwnerInvariant, PTL

\* A read is sent by Send alone, which finds the status ready.
LEMMA SendStep ==
    OwnerInv /\ [OwnerNext]_ownerVars =>
        [\A r \in Reads : (read[r] # "sent" /\ read'[r] = "sent") => refused # "yes"]_ownerVars
<1> SUFFICES ASSUME OwnerInv, OwnerNext, NEW r \in Reads, read[r] # "sent", read'[r] = "sent"
             PROVE  refused # "yes"
  BY DEF ownerVars
<1>1. ASSUME NEW q \in Reads, Send(q) PROVE refused # "yes"
  BY <1>1 DEF Send, Move, check_ready, OwnerInv, OwnerTypeOK, Stopped, Idle
<1>2. CASE \E q \in Reads :
          \/ Ask(q) \/ GiveUp(q) \/ Acquire(q) \/ ObserveRefusal(q) \/ ReadAnswered(q) \/ AnsweredStopped(q)
          \/ AnsweredRefused(q) \/ HiddenDenial(q) \/ ReadFailed(q) \/ Save(q)
  BY <1>2 DEF Ask, GiveUp, Acquire, ObserveRefusal, ReadAnswered, AnsweredStopped, AnsweredRefused,
              HiddenDenial, ReadFailed, Save, Move, OwnerInv, OwnerTypeOK, Idle
<1>3. CASE OwnerRestart \/ Loaded
  BY <1>3 DEF OwnerRestart, Started, Loaded, Idle, OwnerInv, OwnerTypeOK
<1>4. CASE \E l \in Logins : BeginLogin(l) \/ Opened(l) \/ Polled(l) \/ LoginFails(l) \/ LoginCancelled(l)
  BY <1>4 DEF BeginLogin, Opened, Polled, LoginFails, LoginCancelled, readers
<1>5. CASE \E o \in Callbacks : MemberSeen(o) \/ ObserveLogin(o)
  BY <1>5 DEF MemberSeen, ObserveLogin, readers
<1>6. CASE \E f \in Refreshes : Refresh(f) \/ Relogin(f)
  BY <1>6 DEF Refresh, Relogin, readers
<1>7. QED
  BY <1>1, <1>2, <1>3, <1>4, <1>5, <1>6 DEF OwnerNext

\* Once a read is refused, none is sent before a login has been seen or a
\* callback that saw one before the refusal has ended.
THEOREM RefusalStops == OwnerSpec => NoReadAfterRefusal
<1>1. QED
  BY SendStep, OwnerInvariant, PTL DEF OwnerSpec, NoReadAfterRefusal

-----------------------------------------------------------------------------
(* Its monitor *)

\* What the chat was told is the open incident.
ToldIsOpen == told # {} => told = {incident.id} /\ incident.id # NoIncident
\* A card is posted for an open incident.
PostsOpen == tick = "notify" => incident.id # NoIncident

MonitorInv == MonitorTypeOK /\ ToldIsOpen /\ PostsOpen

\* The invariant holds at first.
LEMMA MonitorInitially == MonitorInit => MonitorInv
<1> SUFFICES ASSUME MonitorInit PROVE MonitorInv
  OBVIOUS
<1>1. {probeDue, notifyDue} \subseteq BOOLEAN
  BY Zenon DEF MonitorInit
<1>2. incident \in [id : Incidents \union {NoIncident}, sent : BOOLEAN]
  BY DEF MonitorInit, NoneOpen
<1>3. QED
  BY <1>1, <1>2 DEF MonitorInit, MonitorInv, MonitorTypeOK, Reports, ToldIsOpen, PostsOpen

\* A report keeps the invariant.
LEMMA ConcludeStep ==
    ASSUME MonitorInv, NEW report \in Reports, NEW probed \in BOOLEAN, Conclude(report, probed)
    PROVE  /\ tick' \in {"idle", "notify"} /\ notifyDue' \in BOOLEAN
           /\ incident' \in [id : Incidents \union {NoIncident}, sent : BOOLEAN]
           /\ told' \subseteq Incidents
           /\ ToldIsOpen' /\ PostsOpen'
<1>1. CASE report = "healthy" /\ probed /\ incident' = NoneOpen /\ told' = {}
           /\ tick' = "idle" /\ UNCHANGED notifyDue
  BY <1>1 DEF MonitorInv, MonitorTypeOK, NoneOpen, ToldIsOpen, PostsOpen
<1>2. CASE /\ report = "alert" /\ OpenIncident(incident')
           /\ tick' = IF ~incident'.sent /\ (notifyDue \/ incident.id = NoIncident)
                      THEN "notify" ELSE "idle"
           /\ notifyDue' = (notifyDue /\ tick' = "idle")
           /\ UNCHANGED told
  <2>1. CASE incident.id # NoIncident
    <3>1. incident' = incident
      BY <1>2, <2>1 DEF OpenIncident
    <3>2. QED
      BY <1>2, <2>1, <3>1 DEF MonitorInv, MonitorTypeOK, ToldIsOpen, PostsOpen
  <2>2. CASE incident.id = NoIncident
    <3>1. PICK id \in Incidents \ (told \union {NoIncident}) : incident' = [id |-> id, sent |-> FALSE]
      BY <1>2, <2>2 DEF OpenIncident
    <3>2. QED
      BY <1>2, <2>2, <3>1 DEF MonitorInv, MonitorTypeOK, ToldIsOpen, PostsOpen
  <2>3. QED
    BY <2>1, <2>2
<1>3. CASE tick' = "idle" /\ UNCHANGED <<incident, notifyDue, told>>
  BY <1>3 DEF MonitorInv, MonitorTypeOK, ToldIsOpen, PostsOpen
<1>4. QED
  BY <1>1, <1>2, <1>3 DEF Conclude

\* Every step keeps the invariant.
LEMMA MonitorStep == MonitorInv /\ [MonitorNext]_monitorVars => MonitorInv'
<1> SUFFICES ASSUME MonitorInv, [MonitorNext]_monitorVars PROVE MonitorInv'
  OBVIOUS
<1> USE DEF MonitorInv, ToldIsOpen, PostsOpen
<1>1. CASE TickDown
  <2>1. Conclude("alert", FALSE) /\ UNCHANGED probeDue /\ lastReport' = "alert"
    BY <1>1 DEF TickDown
  <2>2. QED
    BY <2>1, ConcludeStep DEF MonitorTypeOK, Reports
<1>2. CASE TickWait
  <2>1. Conclude(lastReport, FALSE) /\ UNCHANGED <<probeDue, lastReport>>
    BY <1>2 DEF TickWait
  <2>2. QED
    BY <2>1, ConcludeStep DEF MonitorTypeOK
<1>3. CASE Sampled
  <2>1. lastReport' \in Reports /\ Conclude(lastReport', TRUE) /\ UNCHANGED probeDue
    BY <1>3 DEF Sampled
  <2>2. QED
    BY <2>1, ConcludeStep DEF MonitorTypeOK
<1>4. CASE Posted
  <2>1. incident'.id = incident.id /\ incident' \in [id : Incidents \union {NoIncident}, sent : BOOLEAN]
    BY <1>4 DEF Posted, MonitorTypeOK
  <2>2. told' = told \/ told' = told \union {incident.id}
    BY <1>4 DEF Posted
  <2>3. tick' = "idle" /\ UNCHANGED <<probeDue, lastReport, notifyDue>> /\ incident.id # NoIncident
    BY <1>4 DEF Posted
  <2>4. told' \subseteq Incidents
    BY <2>2, <2>3 DEF MonitorTypeOK
  <2>5. QED
    BY <2>1, <2>2, <2>3, <2>4 DEF MonitorTypeOK
<1>5. CASE TickProbe \/ TickLost \/ HalfHour \/ NotifyComesDue \/ UNCHANGED monitorVars
  BY <1>5 DEF TickProbe, TickLost, HalfHour, NotifyComesDue, monitorVars, MonitorTypeOK
<1>6. QED
  BY <1>1, <1>2, <1>3, <1>4, <1>5 DEF MonitorNext

\* An outage puts at most one card into the chat.
THEOREM OutageToldOnce == MonitorSpec => []OneCardPerOutage
<1>1. MonitorInv => OneCardPerOutage
  <2> SUFFICES ASSUME MonitorInv PROVE OneCardPerOutage
    OBVIOUS
  <2>1. CASE told = {}
    <3>1. Cardinality(told) = 0
      BY <2>1, FS_EmptySet
    <3>2. QED
      BY <3>1 DEF OneCardPerOutage
  <2>2. CASE told = {incident.id}
    <3>1. Cardinality(told) = 1
      BY <2>2, FS_Singleton
    <3>2. QED
      BY <3>1 DEF OneCardPerOutage
  <2>3. QED
    BY <2>1, <2>2 DEF MonitorInv, ToldIsOpen
<1>2. QED
  BY <1>1, MonitorInitially, MonitorStep, PTL DEF MonitorSpec

\* The variables of the monitor keep their types.
THEOREM MonitorTyped == MonitorSpec => []MonitorTypeOK
<1>1. MonitorInv => MonitorTypeOK
  BY DEF MonitorInv
<1>2. QED
  BY <1>1, MonitorInitially, MonitorStep, PTL DEF MonitorSpec

-----------------------------------------------------------------------------
(* The outbox of status errors *)

\* The rows have incidents of their own.
Distinct == \A b, c \in Buckets : row[b].id # NoId /\ row[b].id = row[c].id => b = c
\* What the dispatcher has read and not settled is still there, unsent.
Held == \A e \in batch \union posting :
            e.id # NoId /\ row[e.bucket].id = e.id /\ ~row[e.bucket].sent
\* A recent card of a bucket is the one of its row, which is unsent or cooling.
Current == \A b \in Buckets :
               fresh[b] # {} => fresh[b] = {row[b].id} /\ Merges(b) /\ row[b].id \in chat
\* An error that came before the card of its row is in a row that is unsent.
Owed == \A b \in owed : row[b].id \notin chat \union {NoId} /\ ~row[b].sent
\* A row is in its cooldown only once it was sent, and is sent only once the chat
\* has its card.
Cooling == \A b \in Buckets :
              (row[b].cooling => row[b].sent) /\ (row[b].sent => row[b].id \in chat)

Apart == batch \intersect posting = {}

OutboxInv == OutboxTypeOK /\ Distinct /\ Apart /\ Held /\ Current /\ Owed /\ Cooling

Row == [id : Ids \union {NoId}, sent : BOOLEAN, cooling : BOOLEAN, due : BOOLEAN]

\* The invariant holds at first.
LEMMA OutboxInitially == OutboxInit => OutboxInv
<1> SUFFICES ASSUME OutboxInit PROVE OutboxInv
  OBVIOUS
<1>1. NoRow \in Row
  BY DEF NoRow, Row
<1>2. Cardinality(posting) = 0
  BY FS_EmptySet DEF OutboxInit
<1>3. OutboxTypeOK
  BY <1>1, <1>2 DEF OutboxInit, OutboxTypeOK, Row
<1>4. QED
  BY <1>3 DEF OutboxInit, NoRow, OutboxInv, Distinct, Apart, Held, Current, Owed, Cooling

\* An error is recorded: a row that is replaced was sent, and its card is old.
LEMMA RecordStep == ASSUME OutboxInv, NEW b \in Buckets, Record(b) PROVE OutboxInv'
<1> USE DEF OutboxInv, Distinct, Apart, Held, Current, Owed, Cooling
<1>1. /\ owed' \subseteq Buckets
      /\ \A c \in owed' : c \in owed \/ (c = b /\ ~(Merges(b) /\ row[b].id \in chat))
  BY DEF Record, OutboxTypeOK
<1>2. CASE Merges(b)
  <2>1. UNCHANGED <<row, chat, batch, posting, fresh>>
    BY <1>2 DEF Record
  <2>2. OutboxTypeOK'
    BY <1>1, <2>1 DEF OutboxTypeOK
  <2>3. Owed'
    BY <1>1, <1>2, <2>1 DEF Merges
  <2>4. Distinct' /\ Apart' /\ Held' /\ Cooling'
    BY <2>1
  <2>5. Current'
    BY <2>1 DEF Merges
  <2>6. QED
    BY <2>2, <2>3, <2>4, <2>5
<1>3. CASE ~Merges(b)
  <2>1. PICK id \in Ids \ (InUse \union {NoId}) :
            /\ row' = [row EXCEPT ![b] = [id |-> id, sent |-> FALSE, cooling |-> FALSE, due |-> TRUE]]
            /\ chat' = chat \ {id}
    BY <1>3 DEF Record
  <2>2. UNCHANGED <<batch, posting, fresh>>
    BY DEF Record
  <2>3. row' \in [Buckets -> Row] /\ row'[b] = [id |-> id, sent |-> FALSE, cooling |-> FALSE, due |-> TRUE]
    BY <2>1 DEF OutboxTypeOK, Row
  <2>4. \A c \in Buckets \ {b} : row'[c] = row[c]
    BY <2>1 DEF OutboxTypeOK
  <2>5. OutboxTypeOK'
    BY <1>1, <2>1, <2>2, <2>3 DEF OutboxTypeOK, Row
  <2>6. \A c \in Buckets : row[c].id # id
    BY DEF InUse
  <2>7. Distinct'
    BY <2>3, <2>4, <2>6
  <2>8. \A e \in batch \union posting : e.bucket # b /\ e.bucket \in Buckets
    BY <1>3 DEF Merges, OutboxTypeOK, Entry
  <2>9. Held' /\ Apart'
    BY <2>2, <2>4, <2>8
  <2>10. fresh[b] = {}
    BY <1>3
  <2>11. Current'
    BY <2>1, <2>2, <2>3, <2>4, <2>6, <2>10 DEF Merges
  <2>12. /\ row'[b].id = id /\ ~row'[b].sent /\ ~row'[b].cooling /\ id # NoId
         /\ id \notin chat' /\ chat' \subseteq chat
    BY <2>1, <2>3
  <2>13. \A c \in Buckets \ {b} : row'[c].id \in chat' <=> row[c].id \in chat
    BY <2>1, <2>4, <2>6
  <2>14. Owed'
    BY <1>1, <2>4, <2>12, <2>13 DEF OutboxTypeOK
  <2>15. Cooling'
    BY <2>4, <2>12, <2>13
  <2>16. QED
    BY <2>5, <2>7, <2>9, <2>11, <2>14, <2>15
<1>4. QED
  BY <1>2, <1>3

\* The next attempt of a row is put off.
LEMMA AttemptStep == ASSUME OutboxInv, NEW e \in Entry, BeginPost(e) PROVE OutboxInv'
<1> USE DEF OutboxInv, Distinct, Apart, Held, Current, Owed, Cooling
<1>1. batch' = batch \ {e} /\ posting' = {e} /\ e \in batch /\ posting = {} /\ UNCHANGED <<chat, fresh, owed>>
  BY DEF BeginPost
<1>2. row' = [b \in Buckets |-> IF row[b].id = e.id THEN [row[b] EXCEPT !.due = FALSE] ELSE row[b]]
  BY DEF BeginPost, OfIncident
<1>3. \A b \in Buckets : row'[b] \in Row /\ row'[b].id = row[b].id
                        /\ row'[b].sent = row[b].sent /\ row'[b].cooling = row[b].cooling
  <2> SUFFICES ASSUME NEW b \in Buckets
               PROVE  /\ row'[b] \in Row /\ row'[b].id = row[b].id
                      /\ row'[b].sent = row[b].sent /\ row'[b].cooling = row[b].cooling
    OBVIOUS
  <2>1. row[b] \in Row
    BY DEF OutboxTypeOK, Row
  <2>2. row'[b] = [row[b] EXCEPT !.due = FALSE] \/ row'[b] = row[b]
    BY <1>2
  <2>3. QED
    BY <2>1, <2>2 DEF Row
<1>4. Cardinality(posting') = 1
  BY <1>1, FS_Singleton
<1>5. OutboxTypeOK'
  BY <1>1, <1>2, <1>3, <1>4 DEF OutboxTypeOK, Row
<1>6. Distinct' /\ Owed' /\ Cooling'
  BY <1>1, <1>3 DEF OutboxTypeOK
<1>7. Held' /\ Apart'
  BY <1>1, <1>3 DEF OutboxTypeOK, Entry
<1>8. Current'
  BY <1>1, <1>3 DEF Merges
<1>9. QED
  BY <1>5, <1>6, <1>7, <1>8

\* A sent row is marked, and no other one.
LEMMA ConfirmStep == ASSUME OutboxInv, NEW e \in Entry, Confirm(e) PROVE OutboxInv'
<1> USE DEF OutboxInv, Distinct, Apart, Held, Current, Owed, Cooling
<1>1. posting' = {} /\ e \in posting /\ e.id \in chat /\ UNCHANGED <<batch, chat, fresh, owed>>
  BY DEF Confirm
<1>2. row' = [b \in Buckets |-> IF row[b].id = e.id
                                 THEN [row[b] EXCEPT !.sent = TRUE, !.cooling = TRUE] ELSE row[b]]
  BY DEF Confirm, OfIncident
<1>3. e.bucket \in Buckets /\ e.id # NoId /\ row[e.bucket].id = e.id
  BY <1>1 DEF Entry
<1>4. \A b \in Buckets : b # e.bucket => row'[b] = row[b]
  <2> SUFFICES ASSUME NEW b \in Buckets, b # e.bucket PROVE row'[b] = row[b]
    OBVIOUS
  <2>1. row[b].id # e.id
    BY <1>3
  <2>2. QED
    BY <1>2, <2>1
<1>5. row'[e.bucket] \in Row /\ row'[e.bucket].id = e.id /\ row'[e.bucket].sent /\ row'[e.bucket].cooling
  <2>1. row[e.bucket] \in Row
    BY <1>3 DEF OutboxTypeOK, Row
  <2>2. row'[e.bucket] = [row[e.bucket] EXCEPT !.sent = TRUE, !.cooling = TRUE]
    BY <1>2, <1>3
  <2>3. QED
    BY <1>3, <2>1, <2>2 DEF Row
<1>6. \A d \in batch : d.bucket \in Buckets /\ d.bucket # e.bucket
  <2> SUFFICES ASSUME NEW d \in batch, d.bucket = e.bucket PROVE FALSE
    BY DEF OutboxTypeOK, Entry
  <2>1. d.id = e.id /\ d \in Entry
    BY <1>3 DEF OutboxTypeOK
  <2>2. d = e
    BY <2>1 DEF Entry
  <2>3. QED
    BY <2>2, <1>1
<1>7. Cardinality(posting') = 0
  BY <1>1, FS_EmptySet
<1>8. OutboxTypeOK'
  <2>1. \A b \in Buckets : row'[b] \in Row
    BY <1>4, <1>5 DEF OutboxTypeOK, Row
  <2>2. row' \in [Buckets -> Row]
    BY <1>2, <2>1
  <2>3. QED
    BY <1>1, <1>7, <2>2 DEF OutboxTypeOK, Row
<1>9. Distinct'
  BY <1>3, <1>4, <1>5
<1>10. Held' /\ Apart'
  BY <1>1, <1>4, <1>6
<1>11. Current' /\ Cooling'
  BY <1>1, <1>3, <1>4, <1>5 DEF Merges
<1>12. e.bucket \notin owed
  BY <1>1, <1>3
<1>13. Owed'
  BY <1>1, <1>4, <1>12 DEF OutboxTypeOK
<1>14. QED
  BY <1>8, <1>9, <1>10, <1>11, <1>13

\* A card arrives.
LEMMA ArriveStep == ASSUME OutboxInv, NEW e \in Entry, Arrive(e) PROVE OutboxInv'
<1> USE DEF OutboxInv, Distinct, Apart, Held, Current, Owed, Cooling
<1>1. /\ e \in posting /\ e.id \notin chat /\ chat' = chat \union {e.id}
      /\ UNCHANGED <<row, batch, posting>>
  BY DEF Arrive
<1>2. fresh' = [fresh EXCEPT ![e.bucket] = fresh[e.bucket] \union {e.id}] /\ owed' = owed \ {e.bucket}
  BY DEF Arrive
<1>3. e.bucket \in Buckets /\ e.id \in Ids /\ e.id # NoId /\ row[e.bucket].id = e.id /\ ~row[e.bucket].sent
  BY <1>1 DEF Entry
<1>4. fresh'[e.bucket] = {e.id}
  <2>1. fresh[e.bucket] = {}
    BY <1>1, <1>3
  <2>2. QED
    BY <1>2, <1>3, <2>1 DEF OutboxTypeOK
<1>5. OutboxTypeOK'
  BY <1>1, <1>2, <1>3 DEF OutboxTypeOK
<1>6. Current'
  BY <1>1, <1>2, <1>3, <1>4 DEF Merges, OutboxTypeOK
<1>7. \A c \in Buckets \ {e.bucket} : row[c].id # e.id
  BY <1>3
<1>8. Owed'
  BY <1>1, <1>2, <1>3, <1>7 DEF OutboxTypeOK
<1>9. Distinct' /\ Apart' /\ Held' /\ Cooling'
  BY <1>1
<1>10. QED
  BY <1>5, <1>6, <1>8, <1>9

\* The rows to be sent are read.
LEMMA ReadStep == ASSUME OutboxInv, ReadBatch PROVE OutboxInv'
<1> USE DEF OutboxInv, Distinct, Apart, Held, Current, Owed, Cooling
<1>1. batch' = {e \in Entry : row[e.bucket].id = e.id /\ ~row[e.bucket].sent /\ row[e.bucket].due}
  BY DEF ReadBatch
<1>2. posting = {} /\ UNCHANGED <<row, posting, chat, fresh, owed>>
  BY DEF ReadBatch, Settled
<1>3. OutboxTypeOK'
  BY <1>1, <1>2 DEF OutboxTypeOK
<1>4. \A e \in batch' : e.id # NoId
  BY <1>1 DEF Entry
<1>5. QED
  BY <1>1, <1>2, <1>3, <1>4 DEF Merges

\* Every step keeps the invariant.
LEMMA OutboxStep == OutboxInv /\ [OutboxNext]_outboxVars => OutboxInv'
<1> SUFFICES ASSUME OutboxInv, [OutboxNext]_outboxVars PROVE OutboxInv'
  OBVIOUS
<1> USE DEF OutboxInv, Distinct, Apart, Held, Current, Owed, Cooling
<1>1. ASSUME NEW b \in Buckets, CardAges(b) PROVE OutboxInv'
  BY <1>1 DEF CardAges, OutboxTypeOK, Merges
<1>2. ASSUME NEW b \in Buckets, CooldownEnds(b) PROVE OutboxInv'
  <2>1. row' = [row EXCEPT ![b].cooling = FALSE] /\ fresh[b] = {}
    BY <1>2 DEF CooldownEnds
  <2>2. UNCHANGED <<batch, posting, chat, fresh, owed>>
    BY <1>2 DEF CooldownEnds
  <2>3. \A c \in Buckets : /\ row'[c].id = row[c].id /\ row'[c].sent = row[c].sent
                           /\ c # b => row'[c] = row[c]
                           /\ row'[c].cooling => row[c].cooling
    BY <2>1 DEF OutboxTypeOK
  <2>4. OutboxTypeOK'
    <3>1. row[b] \in Row
      BY DEF OutboxTypeOK, Row
    <3>2. [row[b] EXCEPT !.cooling = FALSE] \in Row
      BY <3>1 DEF Row
    <3>3. row' \in [Buckets -> Row]
      BY <2>1, <3>2 DEF OutboxTypeOK, Row
    <3>4. QED
      BY <2>2, <3>3 DEF OutboxTypeOK, Row
  <2>5. QED
    BY <2>1, <2>2, <2>3, <2>4 DEF Merges, OutboxTypeOK, Entry
<1>3. ASSUME NEW b \in Buckets, RowComesDue(b) PROVE OutboxInv'
  <2>1. row' = [row EXCEPT ![b].due = TRUE]
    BY <1>3 DEF RowComesDue
  <2>2. UNCHANGED <<batch, posting, chat, fresh, owed>>
    BY <1>3 DEF RowComesDue
  <2>3. \A c \in Buckets : row'[c].id = row[c].id /\ row'[c].sent = row[c].sent /\ row'[c].cooling = row[c].cooling
    BY <2>1 DEF OutboxTypeOK
  <2>4. OutboxTypeOK'
    <3>1. row[b] \in Row
      BY DEF OutboxTypeOK, Row
    <3>2. [row[b] EXCEPT !.due = TRUE] \in Row
      BY <3>1 DEF Row
    <3>3. row' \in [Buckets -> Row]
      BY <2>1, <3>2 DEF OutboxTypeOK, Row
    <3>4. QED
      BY <2>2, <3>3 DEF OutboxTypeOK, Row
  <2>5. QED
    BY <2>2, <2>3, <2>4 DEF Merges, OutboxTypeOK, Entry
<1>4. ASSUME NEW e \in Entry, PostFails(e) PROVE OutboxInv'
  <2>1. Cardinality({}) = 0
    BY FS_EmptySet
  <2>2. QED
    BY <1>4, <2>1 DEF PostFails, OutboxTypeOK, Merges
<1>5. CASE DispatcherLost
  <2>1. Cardinality({}) = 0
    BY FS_EmptySet
  <2>2. QED
    BY <1>5, <2>1 DEF DispatcherLost, OutboxTypeOK, Merges
<1>6. CASE UNCHANGED outboxVars
  BY <1>6 DEF outboxVars, OutboxTypeOK, Merges
<1>7. QED
  BY <1>1, <1>2, <1>3, <1>4, <1>5, <1>6, RecordStep, AttemptStep, ArriveStep, ConfirmStep, ReadStep
  DEF OutboxNext

\* A bucket gets one card within half an hour, and an error that came before the
\* card of its row stays in that row, unsent, until the card comes.
THEOREM EachToldOnce == OutboxSpec => []ToldOnce
<1>1. OutboxInv => ToldOnce
  <2> SUFFICES ASSUME OutboxInv, NEW b \in Buckets
               PROVE  /\ Cardinality(fresh[b]) <= 1
                      /\ b \in owed => row[b].id \notin chat \union {NoId} /\ ~row[b].sent
    BY DEF ToldOnce
  <2>1. CASE fresh[b] = {}
    <3>1. Cardinality(fresh[b]) = 0
      BY <2>1, FS_EmptySet
    <3>2. QED
      BY <3>1 DEF OutboxInv, Owed
  <2>2. CASE fresh[b] # {}
    <3>1. Cardinality(fresh[b]) = 1
      BY <2>2, FS_Singleton DEF OutboxInv, Current
    <3>2. QED
      BY <3>1 DEF OutboxInv, Owed
  <2>3. QED
    BY <2>1, <2>2
<1>2. QED
  BY <1>1, OutboxInitially, OutboxStep, PTL DEF OutboxSpec

\* The variables of the outbox keep their types.
THEOREM OutboxTyped == OutboxSpec => []OutboxTypeOK
<1>1. OutboxInv => OutboxTypeOK
  BY DEF OutboxInv
<1>2. QED
  BY <1>1, OutboxInitially, OutboxStep, PTL DEF OutboxSpec
=============================================================================
