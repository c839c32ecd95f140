---------------------------- MODULE SessionOwner ----------------------------
(***************************************************************************)
(* The resident browser that owns the Xiaohongshu session:                 *)
(* XiaohongshuSessionOwner (app/crawlers/xiaohongshu_session.py) behind    *)
(* its private server (app/manually_execute_script/                        *)
(* serve_xiaohongshu_session.py).                                          *)
(*                                                                         *)
(* Reads pass through one lock, slowly.  A read that the platform refuses  *)
(* stops all of them until a login is observed; callbacks of the page, the *)
(* answers of the reads and the login tasks all write the same status.     *)
(*                                                                         *)
(* Assumed of the browser and of time:                                     *)
(*  - a page that was navigated answers no fetch of before;                *)
(*  - the status of a response is seen before its body;                    *)
(*  - the cookies of the browser are read at once.                         *)
(* A callback may take as long as it likes, and the pause before a read    *)
(* may be over when a login has just been observed.                        *)
(***************************************************************************)
EXTENDS Naturals, FiniteSets

CONSTANTS
    Reads,       \* requests of callers and of the health loop
    Refreshes,   \* calls of /login/refresh
    Logins,      \* login tasks, the orphaned ones included
    NoLogin,
    Callbacks    \* observe_login callbacks of responses that name a member

VARIABLES
    status,
    loginMode,   \* login_mode
    errors,      \* failures in a row
    read,        \* where each read is
    loading,     \* whether the page is being navigated
    login,       \* where each login task is
    loginTask,   \* app.state.login_task
    refresh,     \* the login task that each refresh awaits
    observing,   \* the callbacks between their check of loginMode and their end
    refused      \* whether a read was refused since the last login was seen, and
                 \* a callback that saw one before has set the status to ready since

ownerVars == <<status, loginMode, errors, read, loading, login, loginTask, refresh, observing, refused>>
readers == <<errors, read>>
logins == <<loginMode, loading, login, loginTask, refresh, observing>>

OwnerStatuses == {"reauthorization_required", "awaiting_scan", "ready", "risk_limited",
             "transport_stopped"}
Idle == "idle"

OwnerTypeOK ==
    /\ status \in OwnerStatuses
    /\ loginMode \in BOOLEAN
    /\ errors \in 0 .. 2
    /\ read \in [Reads -> {Idle, "queue", "pace", "sent", "refused", "broken", "save"}]
    /\ loading \in BOOLEAN
    /\ login \in [Logins -> {Idle, "start", "goto", "poll", "cancelled"}]
    /\ loginTask \in Logins \union {NoLogin}
    /\ refresh \in [Refreshes -> Logins \union {NoLogin}]
    /\ observing \subseteq Callbacks
    /\ refused \in {"no", "yes", "overruled"}

\* A process that starts asks for authorization, whatever was stored; with
\* --login it starts a login task.
Started(tasks, handle) ==
    /\ status' = "reauthorization_required"
    /\ loginMode' = FALSE
    /\ errors' = 0
    /\ read' = [r \in Reads |-> Idle]
    /\ loading' = FALSE
    /\ login' = tasks
    /\ loginTask' = handle
    /\ refresh' = [f \in Refreshes |-> NoLogin]
    /\ observing' = {}
NoTasks == [l \in Logins |-> Idle]

OwnerInit ==
    /\ status = "reauthorization_required"
    /\ loginMode = FALSE
    /\ errors = 0
    /\ read = [r \in Reads |-> Idle]
    /\ loading = FALSE
    /\ login = NoTasks
    /\ loginTask = NoLogin
    /\ refresh = [f \in Refreshes |-> NoLogin]
    /\ observing = {}
    /\ refused = "no"

\* The process stops, or is lost, and starts again.
OwnerRestart ==
    /\ \/ Started(NoTasks, NoLogin)
       \/ \E l \in Logins : Started([NoTasks EXCEPT ![l] = "start"], l)
    /\ UNCHANGED refused

-----------------------------------------------------------------------------
(* Reads *)

check_ready == status = "ready"
Move(r, place) == read' = [read EXCEPT ![r] = place]
LockFree == \A r \in Reads : read[r] \in {Idle, "queue"}

\* The health loop asks as every caller does.
Ask(r) ==
    /\ read[r] = Idle /\ check_ready
    /\ Move(r, "queue")
    /\ UNCHANGED <<status, errors, logins, refused>>

\* Thirty seconds pass: busy.
GiveUp(r) ==
    /\ read[r] = "queue" /\ ~LockFree
    /\ Move(r, Idle)
    /\ UNCHANGED <<status, errors, logins, refused>>

Acquire(r) ==
    /\ read[r] = "queue" /\ LockFree
    /\ Move(r, IF check_ready THEN "pace" ELSE Idle)
    /\ UNCHANGED <<status, errors, logins, refused>>

\* The pause is over.
Send(r) ==
    /\ read[r] = "pace"
    /\ Move(r, IF check_ready THEN "sent" ELSE Idle)
    /\ UNCHANGED <<status, errors, logins, refused>>

\* observe_network sees a status, or a redirection, that asks for verification.
ObserveRefusal(r) ==
    /\ read[r] = "sent"
    /\ status' = "risk_limited" /\ refused' = "yes"
    /\ Move(r, "refused")
    /\ UNCHANGED <<errors, logins>>

\* A body: of the page, or of a note that is denied, ...
ReadAnswered(r) ==
    /\ read[r] = "sent"
    /\ Move(r, "save") /\ errors' = 0
    /\ UNCHANGED <<status, logins, refused>>

\* ... or of a session that has ended, or of a challenge; inspect() finds out.
AnsweredStopped(r) ==
    /\ read[r] = "sent"
    /\ status' \in {"reauthorization_required", "risk_limited"} /\ refused' = "yes"
    /\ Move(r, "save") /\ errors' = 0
    /\ UNCHANGED logins

\* The body of a refusal that was observed already.
AnsweredRefused(r) ==
    /\ read[r] = "refused"
    /\ status' = "risk_limited"
    /\ Move(r, "save") /\ errors' = 0
    /\ UNCHANGED <<logins, refused>>

\* Mutant: the exception is not looked at for a 461.
HiddenDenialMissed(r) ==
    /\ read[r] \in {"sent", "refused", "broken"}
    /\ refused' = IF read[r] = "sent" THEN "yes" ELSE refused
    /\ Move(r, Idle)
    /\ UNCHANGED <<status, errors, logins>>

\* An exception after a 461: the body that would have told a denied note from a
\* stop is not there.
HiddenDenial(r) ==
    /\ read[r] \in {"sent", "refused", "broken"}
    /\ status' = "risk_limited" /\ refused' = IF read[r] = "sent" THEN "yes" ELSE refused
    /\ Move(r, Idle)
    /\ UNCHANGED <<errors, logins>>

\* Mutant: the fourth failure stops the transport.
CountErrorLate ==
    IF errors + 1 > 3
    THEN status' = "transport_stopped" /\ errors' = 2
    ELSE errors' = errors + 1 /\ UNCHANGED status

\* The third failure in a row, and each after it, stops the transport.
CountError ==
    IF errors + 1 >= 3
    THEN status' = "transport_stopped" /\ errors' = 2
    ELSE errors' = errors + 1 /\ UNCHANGED status

\* Any other exception: a stop is told as such, a plain redirection is no failure.
ReadFailed(r) ==
    /\ read[r] \in {"sent", "refused", "broken"}
    /\ Move(r, Idle)
    /\ \/ ~check_ready /\ UNCHANGED <<status, errors>>
       \/ check_ready /\ read[r] = "sent" /\ errors' = 0 /\ UNCHANGED status
       \/ check_ready /\ CountError
    /\ UNCHANGED <<logins, refused>>

\* The context is saved, or that fails; the lock is released.
Save(r) ==
    /\ read[r] = "save"
    /\ Move(r, Idle)
    /\ \/ UNCHANGED <<status, errors>>
       \/ check_ready /\ CountError
    /\ UNCHANGED <<logins, refused>>

-----------------------------------------------------------------------------
(* Logins *)

LoginAt(l, place) == [login EXCEPT ![l] = place]

BeginLogin(l) ==
    /\ login[l] = "start"
    /\ login' = LoginAt(l, "goto")
    /\ loginMode' = TRUE /\ status' = "awaiting_scan" /\ loading' = TRUE
    /\ UNCHANGED <<readers, loginTask, refresh, observing, refused>>

\* The page is loaded anew: a fetch under way is broken off.
Loaded ==
    /\ loading /\ loading' = FALSE
    /\ read' = [r \in Reads |-> IF read[r] \in {"sent", "refused"} THEN "broken" ELSE read[r]]
    /\ UNCHANGED <<status, errors, loginMode, login, loginTask, refresh, observing, refused>>

Opened(l) ==
    /\ login[l] = "goto" /\ ~loading
    /\ login' = LoginAt(l, "poll")
    /\ UNCHANGED <<status, readers, loginMode, loading, loginTask, refresh, observing, refused>>

\* The poll finds that a login was observed, or that another task has ended.
Polled(l) ==
    /\ login[l] = "poll" /\ ~loginMode
    /\ login' = LoginAt(l, Idle)
    /\ UNCHANGED <<status, readers, loginMode, loading, loginTask, refresh, observing, refused>>

\* Ten minutes are over, or the page failed: the status is set in any case.
LoginFails(l) ==
    /\ \/ login[l] = "poll" /\ status' = "reauthorization_required"
       \/ login[l] \in {"goto", "poll"} /\ status' = "transport_stopped"
    /\ login' = LoginAt(l, Idle) /\ loginMode' = FALSE
    /\ UNCHANGED <<readers, loading, loginTask, refresh, observing, refused>>

LoginCancelled(l) ==
    /\ login[l] = "cancelled"
    /\ login' = LoginAt(l, Idle) /\ loginMode' = FALSE
    /\ UNCHANGED <<status, readers, loading, loginTask, refresh, observing, refused>>

\* A response of the page names a member: the callback checks loginMode, then
\* reads the body and saves the context before it sets the status, whatever has
\* set it since.
MemberSeen(o) ==
    /\ loginMode /\ o \notin observing
    /\ observing' = observing \union {o}
    /\ refused' = "no"
    /\ UNCHANGED <<status, readers, loginMode, loading, login, loginTask, refresh>>

ObserveLogin(o) ==
    /\ o \in observing
    /\ observing' = observing \ {o}
    /\ \/ /\ status' = "ready" /\ loginMode' = FALSE
          /\ refused' = IF refused = "yes" THEN "overruled" ELSE refused
       \/ UNCHANGED <<status, loginMode, refused>>   \* the context could not be saved
    /\ UNCHANGED <<readers, loading, login, loginTask, refresh>>

\* The task before is cancelled and awaited; if it has not begun, it never does.
Refresh(f) ==
    /\ refresh[f] = NoLogin /\ ~check_ready
    /\ IF loginTask = NoLogin
       THEN \E l \in Logins :
                /\ login[l] = Idle
                /\ login' = LoginAt(l, "start") /\ loginTask' = l
                /\ UNCHANGED refresh
       ELSE /\ refresh' = [refresh EXCEPT ![f] = loginTask]
            /\ login' = LoginAt(loginTask, IF login[loginTask] \in {Idle, "start"} THEN Idle ELSE "cancelled")
            /\ UNCHANGED loginTask
    /\ UNCHANGED <<status, loginMode, readers, loading, observing, refused>>

\* The status is not looked at again.
Relogin(f) ==
    /\ refresh[f] # NoLogin /\ login[refresh[f]] = Idle
    /\ \E l \in Logins :
          /\ login[l] = Idle
          /\ login' = LoginAt(l, "start") /\ loginTask' = l
    /\ refresh' = [refresh EXCEPT ![f] = NoLogin]
    /\ UNCHANGED <<status, loginMode, readers, loading, observing, refused>>

-----------------------------------------------------------------------------

OwnerNext ==
    \/ OwnerRestart \/ Loaded
    \/ \E r \in Reads :
          \/ Ask(r) \/ GiveUp(r) \/ Acquire(r) \/ Send(r) \/ ObserveRefusal(r)
          \/ ReadAnswered(r) \/ AnsweredStopped(r) \/ AnsweredRefused(r) \/ HiddenDenial(r)
          \/ ReadFailed(r) \/ Save(r)
    \/ \E l \in Logins : BeginLogin(l) \/ Opened(l) \/ Polled(l) \/ LoginFails(l) \/ LoginCancelled(l)
    \/ \E o \in Callbacks : MemberSeen(o) \/ ObserveLogin(o)
    \/ \E f \in Refreshes : Refresh(f) \/ Relogin(f)

OwnerSpec == OwnerInit /\ [][OwnerNext]_ownerVars

-----------------------------------------------------------------------------

\* After a read was refused, by its status, by its body or by a body that was
\* hidden, none is sent until a login has been seen, however callbacks, login
\* tasks, refreshes and queued reads interleave, unless a callback that saw a
\* login before the refusal ends after it (check_ready, observe_network, inspect,
\* observe_login).
NoReadAfterRefusal ==
    [][\A r \in Reads : (read[r] # "sent" /\ read'[r] = "sent") => refused # "yes"]_ownerVars

=============================================================================
