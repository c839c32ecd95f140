----------------------------- MODULE MCServices -----------------------------
(***************************************************************************)
(* Instances for TLC of the parts that share no state with the others: the *)
(* owner of the Xiaohongshu session, its monitor, the outbox of status     *)
(* errors, the lists of authors' works, the pages of comments, and the     *)
(* cache of results.  A behaviour is one of one part, and TLC explores the *)
(* parts side by side.                                                     *)
(***************************************************************************)
EXTENDS SessionOwner, SessionMonitor, StatusAlerts, AuthorPages, CommentPages,
        CachedResults

VARIABLE part        \* the one that runs

\* Where a part that does not run begins makes no difference.
Aside ==
    /\ part # "comments" =>
           source = "sina" /\ mode = "walk" /\ posted = 0
    /\ part # "lists" => platform = "toutiao" /\ caller = "job" /\ first = 0
    \* Nor does who has the handle first.
    /\ holder = CHOOSE o \in Owners : TRUE

ServicesInit ==
    /\ part \in {"owner", "monitor", "outbox", "lists", "comments", "results"}
    /\ OwnerInit /\ MonitorInit /\ OutboxInit /\ ListsInit /\ CommentsInit /\ ResultsInit
    /\ Aside

OwnerStep ==
    /\ part = "owner" /\ OwnerNext
    /\ UNCHANGED <<part, monitorVars, outboxVars, listVars, commentVars, cacheVars>>

MonitorStep ==
    /\ part = "monitor" /\ MonitorNext
    /\ UNCHANGED <<part, ownerVars, outboxVars, listVars, commentVars, cacheVars>>

OutboxStep ==
    /\ part = "outbox" /\ OutboxNext
    /\ UNCHANGED <<part, ownerVars, monitorVars, listVars, commentVars, cacheVars>>

ListStep ==
    /\ part = "lists" /\ ListsNext
    /\ UNCHANGED <<part, ownerVars, monitorVars, outboxVars, commentVars, cacheVars>>

CommentStep ==
    /\ part = "comments" /\ CommentsNext
    /\ UNCHANGED <<part, ownerVars, monitorVars, outboxVars, listVars, cacheVars>>

CacheStep ==
    /\ part = "results" /\ ResultsNext
    /\ UNCHANGED <<part, ownerVars, monitorVars, outboxVars, listVars, commentVars>>

ServicesNext ==
    OwnerStep \/ MonitorStep \/ OutboxStep \/ ListStep \/ CommentStep \/ CacheStep

ServicesSpec ==
    ServicesInit
        /\ [][ServicesNext]_<<part, ownerVars, monitorVars, outboxVars, listVars,
                              commentVars, cacheVars>>

\* The other parts are where they began.
AllTypeOK ==
    CASE part = "owner" -> OwnerTypeOK [] part = "monitor" -> MonitorTypeOK
      [] part = "outbox" -> OutboxTypeOK [] part = "lists" -> ListsTypeOK
      [] part = "comments" -> CommentsTypeOK [] part = "results" -> TRUE
=============================================================================
