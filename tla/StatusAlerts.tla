---------------------------- MODULE StatusAlerts ----------------------------
(***************************************************************************)
(* The outbox of status errors: StatusAlerts                               *)
(* (app/services/status_alerts.py), filled by the API and its tasks and    *)
(* drained by the process that cron starts                                 *)
(* (app/manually_execute_script/send_status_alerts.py).                    *)
(*                                                                         *)
(* Every transaction is one step.  The dispatcher may be lost between any  *)
(* two of its steps, and a post may arrive though it reports an error; the *)
(* chat drops a card whose incident id it knows.                           *)
(***************************************************************************)
EXTENDS Naturals, FiniteSets

CONSTANTS
    Buckets,       \* platform, operation and category of an error
    Ids,           \* incident ids; there are enough for the cards told apart
    NoId

VARIABLES
    row,           \* the row of each bucket: its incident, sent, in its cooldown, due
    batch,         \* the rows the dispatcher has read and not settled yet
    posting,       \* the one whose card it posts
    chat,          \* the incidents whose card the chat has got
    fresh,         \* those of each bucket whose card came in the last half hour
    owed           \* the buckets with an error that came before the card of its row

outboxVars == <<row, batch, posting, chat, fresh, owed>>

NoRow == [id |-> NoId, sent |-> FALSE, cooling |-> FALSE, due |-> FALSE]
Entry == [bucket : Buckets, id : Ids \ {NoId}]

OutboxTypeOK ==
    /\ row \in [Buckets -> [id : Ids \union {NoId}, sent : BOOLEAN, cooling : BOOLEAN, due : BOOLEAN]]
    /\ batch \subseteq Entry
    /\ posting \subseteq Entry /\ Cardinality(posting) <= 1
    /\ chat \subseteq Ids /\ fresh \in [Buckets -> SUBSET Ids]
    /\ owed \subseteq Buckets

OutboxInit ==
    /\ row = [b \in Buckets |-> NoRow]
    /\ batch = {} /\ posting = {}
    /\ chat = {} /\ fresh = [b \in Buckets |-> {}]
    /\ owed = {}

\* The ids that are not free to stand for a new incident.
InUse == {row[b].id : b \in Buckets} \union {e.id : e \in batch \union posting} \union UNION {fresh[b] : b \in Buckets}

\* Mutant: a row is replaced unless it was sent lately.
MergesSent(b) == row[b].id # NoId /\ row[b].cooling

\* An error joins the row while that is unsent or was sent in the last half hour.
Merges(b) == row[b].id # NoId /\ (~row[b].sent \/ row[b].cooling)

Record(b) ==
    /\ \/ Merges(b) /\ UNCHANGED <<row, chat>>
       \/ /\ ~Merges(b)
          /\ \E id \in Ids \ (InUse \union {NoId}) :
               /\ row' = [row EXCEPT ![b] = [id |-> id, sent |-> FALSE, cooling |-> FALSE, due |-> TRUE]]
               /\ chat' = chat \ {id}
    /\ owed' = IF Merges(b) /\ row[b].id \in chat THEN owed ELSE owed \union {b}
    /\ UNCHANGED <<batch, posting, fresh>>

Settled == batch = {} /\ posting = {}
OfIncident(id, change(_)) == [b \in Buckets |-> IF row[b].id = id THEN change(row[b]) ELSE row[b]]

\* dispatch: the rows that are unsent and due
ReadBatch ==
    /\ Settled
    /\ batch' = {e \in Entry : row[e.bucket].id = e.id /\ ~row[e.bucket].sent /\ row[e.bucket].due}
    /\ UNCHANGED <<row, posting, chat, fresh, owed>>

\* next_attempt is put off before the card is posted.
BeginPost(e) ==
    /\ e \in batch /\ posting = {}
    /\ batch' = batch \ {e} /\ posting' = {e}
    /\ row' = OfIncident(e.id, LAMBDA x : [x EXCEPT !.due = FALSE])
    /\ UNCHANGED <<chat, fresh, owed>>

\* The chat drops a card whose incident it knows, as one posted again after its
\* answer was lost; the answer is then the message it has.
Arrive(e) ==
    /\ e \in posting /\ e.id \notin chat
    /\ chat' = chat \union {e.id}
    /\ fresh' = [fresh EXCEPT ![e.bucket] = @ \union {e.id}]
    /\ owed' = owed \ {e.bucket}
    /\ UNCHANGED <<row, batch, posting>>

\* The id of the message, or an error, is written to the rows of the incident.
Confirm(e) ==
    /\ e \in posting /\ e.id \in chat
    /\ posting' = {}
    /\ row' = OfIncident(e.id, LAMBDA x : [x EXCEPT !.sent = TRUE, !.cooling = TRUE])
    /\ UNCHANGED <<batch, chat, fresh, owed>>

PostFails(e) ==
    /\ e \in posting
    /\ posting' = {}
    /\ UNCHANGED <<row, batch, chat, fresh, owed>>

\* The dispatcher is lost.
DispatcherLost ==
    /\ ~Settled
    /\ batch' = {} /\ posting' = {}
    /\ UNCHANGED <<row, chat, fresh, owed>>

\* Time: a card is half an hour old, ...
CardAges(b) ==
    /\ fresh[b] # {} /\ \A e \in posting : e.bucket # b
    /\ fresh' = [fresh EXCEPT ![b] = {}]
    /\ UNCHANGED <<row, batch, posting, chat, owed>>

\* ... and then the row is, which was marked after its card had arrived.
CooldownEnds(b) ==
    /\ row[b].cooling /\ fresh[b] = {}
    /\ row' = [row EXCEPT ![b].cooling = FALSE]
    /\ UNCHANGED <<batch, posting, chat, fresh, owed>>

RowComesDue(b) ==
    /\ row[b].id # NoId /\ ~row[b].due
    /\ row' = [row EXCEPT ![b].due = TRUE]
    /\ UNCHANGED <<batch, posting, chat, fresh, owed>>

OutboxNext ==
    \/ ReadBatch \/ DispatcherLost
    \/ \E b \in Buckets : Record(b) \/ CardAges(b) \/ CooldownEnds(b) \/ RowComesDue(b)
    \/ \E e \in Entry : BeginPost(e) \/ Arrive(e) \/ Confirm(e) \/ PostFails(e)

OutboxSpec == OutboxInit /\ [][OutboxNext]_outboxVars

-----------------------------------------------------------------------------

\* A bucket gets one card within half an hour, also when a card arrived and
\* the dispatcher was lost before it could write that down; and an error stays
\* in the outbox, in an unsent row, until the card of that row comes.  That is
\* promised of the errors recorded before that card: one that comes later joins
\* the row until half an hour after it was marked sent, however late the mark is,
\* and no card tells of it (record, dispatch).
ToldOnce ==
    \A b \in Buckets :
        /\ Cardinality(fresh[b]) <= 1
        /\ b \in owed => row[b].id \notin chat \union {NoId} /\ ~row[b].sent
=============================================================================
