----------------------------- MODULE AuthorJobs -----------------------------
(***************************************************************************)
(* A background job that collects the works of an author: AuthorJobManager *)
(* (app/services/author_job_service.py) over AuthorRepository              *)
(* (app/repositories/author_repository.py).                                *)
(*                                                                         *)
(* The job's task walks the author's list page by page, from the cursor it *)
(* has saved, while detail workers complete the works found so far.  It is *)
(* cancelled, resumed, retried from its cursor, cut off by its deadline,   *)
(* shut down with its process or lost with it; a reader pages through the  *)
(* results meanwhile.  A step is one call of the repository or of the      *)
(* author service, with the code up to the next one.                       *)
(***************************************************************************)
EXTENDS Naturals, Sequences, FiniteSets

CONSTANTS
    Works,
    PageWorks,      \* the lists of works that each page may show when it is asked for
    Listed,         \* the works that are complete on the list, without detail
    Workers,        \* the detail workers
    Limit,          \* how many results a reader asks for
    MaxResumes,     \* bounds of the model: how often the job is resumed, ...
    MaxFaults       \* ... the process stopped or lost, or a write failing

ASSUME AuthorAssumption ==
    /\ IsFiniteSet(Works) /\ Works # {} /\ Listed \subseteq Works
    /\ PageWorks \in Seq(SUBSET Seq(Works)) /\ PageWorks # <<>>
    /\ Limit \in Nat \ {0}
    /\ {MaxResumes, MaxFaults} \subseteq Nat

VARIABLES
    job,       \* its document in author_jobs
    works,     \* the documents of author_works; again says (for the properties)
               \* that a work came with a page that had been saved before
    expiring,  \* whether those have a date of expiry
    task,      \* where the task of the job is, and what it has loaded
    stop,      \* whether its children are being stopped, and what for
    disc,      \* where discover() is
    worker,    \* where each detail worker is, and its work
    control,   \* where the holder of the manager's lock is
    reader,    \* a reader of the results
    lost,      \* writes that never came: the cursor of a page, the end of the job
    faults     \* the resumptions and faults so far

data == <<job, works, expiring>>
vars == <<data, task, stop, disc, worker, control, reader, lost, faults>>

Open == {"queued", "running"}
Statuses == Open \union {"completed", "partial", "failed", "cancelled"}

\* Positions in the list, in the order of their strings.
Positions == Nat \X Nat
Nowhere == <<0, 0>>
Before(a, b) == a[1] < b[1] \/ (a[1] = b[1] /\ a[2] < b[2])
NotAfter(a, b) == a = b \/ Before(a, b)

Absent == [state |-> "absent", sequence |-> Nowhere, again |-> FALSE]
Saved == {w \in Works : works[w].state # "absent"}
In(states) == {w \in Works : works[w].state \in states}
Unfinished == In({"pending", "running"})
Firsts(S) == {w \in S : \A v \in S : NotAfter(works[w].sequence, works[v].sequence)}

TaskPlaces == {"none", "load", "backoff", "gate", "reset", "mark", "prepare", "run",
               "retry", "closing", "expire", "finish", "fail", "lastExpire", "lastFinish"}

NoReader == [pc |-> "idle", running |-> FALSE, bound |-> Nowhere,
             cursor |-> Nowhere, seen |-> {}, early |-> FALSE]

Job == [status : Statuses, cursor : 0 .. Len(PageWorks), done : BOOLEAN,
        retrying : BOOLEAN, deadline : {"none", "set", "passed"}]
Work == [state : {"absent", "pending", "running", "complete", "failed"},
         sequence : Positions, again : BOOLEAN]
Task == [pc : TaskPlaces, cursor : 0 .. Len(PageWorks), done : BOOLEAN,
         error : {"none", "transient", "fatal"}, verdict : Statuses \union {"none"}]
Detail == [pc : {"claim", "decide", "fetch", "complete", "failed", "done"}, work : Works]
Reader == [pc : {"idle", "bound", "rows"}, running : BOOLEAN, bound : Positions,
           cursor : Positions, seen : SUBSET Works, early : BOOLEAN]

TypeOK ==
    /\ job \in Job /\ works \in [Works -> Work] /\ expiring \in BOOLEAN
    /\ task \in Task
    /\ stop \in {"no", "cancel", "abort"}
    /\ disc \in {"fetch", "save", "cursor", "done"}
    /\ worker \in [Workers -> Detail]
    /\ control \in {"free", "wait", "expire", "finish", "shutdown", "prepare", "reset", "launch"}
    /\ reader \in Reader
    /\ lost \subseteq {"cursor", "end"}
    /\ faults \in [resume : 0 .. MaxResumes, fault : 0 .. MaxFaults]

AtRest == [pc |-> "none", cursor |-> 0, done |-> FALSE, error |-> "none", verdict |-> "none"]
Launched == [AtRest EXCEPT !.pc = "load"]
IdleWorkers == [k \in Workers |-> [pc |-> "done", work |-> CHOOSE w \in Works : TRUE]]

\* submit: the document, then the task
Init ==
    /\ job = [status |-> "queued", cursor |-> 0, done |-> FALSE, retrying |-> FALSE, deadline |-> "none"]
    /\ works = [w \in Works |-> Absent]
    /\ expiring = FALSE
    /\ task = Launched
    /\ stop = "no" /\ disc = "done" /\ worker = IdleWorkers
    /\ control = "free"
    /\ reader = NoReader
    /\ lost = {}
    /\ faults = [resume |-> 0, fault |-> 0]

-----------------------------------------------------------------------------
(* The task: _run, _run_attempt *)

At(place) == task.pc = place /\ stop = "no"
Go(place) == task' = [task EXCEPT !.pc = place]
children == <<stop, disc, worker>>
others == <<control, reader, lost, faults>>

\* The position is read anew for every attempt.
Load ==
    /\ At("load")
    /\ task' = [AtRest EXCEPT !.pc = IF job.retrying THEN "backoff" ELSE "gate",
                              !.cursor = job.cursor, !.done = job.done]
    /\ UNCHANGED <<data, children, others>>

\* The sleep until next_retry_at, then one of the manager's two places.
BackoffEnds == At("backoff") /\ Go("gate") /\ UNCHANGED <<data, children, others>>
PassGate == At("gate") /\ Go("reset") /\ UNCHANGED <<data, children, others>>

\* Mutant: the results of an earlier end keep their date.
KeepExpiry ==
    /\ At("reset")
    /\ Go("mark")
    /\ UNCHANGED <<data, children, others>>

ResetExpiry ==
    /\ At("reset")
    /\ expiring' = FALSE
    /\ Go("mark")
    /\ UNCHANGED <<job, works, children, others>>

Mark ==
    /\ At("mark")
    /\ job' = [job EXCEPT !.status = "running", !.retrying = FALSE,
                          !.deadline = IF @ = "none" THEN "set" ELSE @]
    /\ Go(IF job.deadline = "passed" THEN "fail" ELSE "prepare")
    /\ UNCHANGED <<works, expiring, children, others>>

\* Details that an earlier attempt has claimed and not saved are pending again.
Requeued(states) ==
    [w \in Works |-> IF works[w].state \in states
                     THEN [works[w] EXCEPT !.state = "pending"] ELSE works[w]]

Prepare ==
    /\ At("prepare")
    /\ works' = Requeued({"running"})
    /\ Go("run")
    /\ disc' = IF task.done THEN "done" ELSE "fetch"
    /\ worker' = [k \in Workers |-> [worker[k] EXCEPT !.pc = "claim"]]
    /\ UNCHANGED <<job, expiring, stop, others>>

Ended == disc = "done" /\ \A k \in Workers : worker[k].pc = "done"

EndAttempt ==
    /\ At("run") /\ Ended
    /\ Go(CASE task.error = "none" -> "closing"
            [] task.error = "transient" -> "retry"
            [] task.error = "fatal" -> "fail")
    /\ UNCHANGED <<data, children, others>>

\* A temporary failure of the list is tried again later, until the deadline.
Retry ==
    /\ At("retry")
    /\ \/ /\ job.deadline = "passed"
          /\ Go("fail") /\ UNCHANGED job
       \/ /\ job.deadline = "set"
          /\ Go("load") /\ job' = [job EXCEPT !.status = "running", !.retrying = TRUE]
    /\ UNCHANGED <<works, expiring, children, others>>

\* Mutant: details that nobody has fetched are no obstacle.
AllDoneButPending == job.done /\ In({"failed"}) = {}

AllDone == job.done /\ In({"failed"}) = {} /\ Unfinished = {}

\* _finish
Close ==
    /\ At("closing")
    /\ task' = [task EXCEPT !.pc = "expire",
                            !.verdict = IF AllDone THEN "completed" ELSE "partial"]
    /\ UNCHANGED <<data, children, others>>

\* The error path of _run
Fail ==
    /\ At("fail")
    /\ task' = [task EXCEPT !.pc = "lastExpire",
                            !.verdict = IF Saved # {} THEN "partial" ELSE "failed"]
    /\ UNCHANGED <<data, children, others>>

\* finish of the repository: the results get their date first, then the job.
Expire ==
    /\ At("expire") \/ At("lastExpire")
    /\ expiring' = TRUE
    /\ Go(IF task.pc = "expire" THEN "finish" ELSE "lastFinish")
    /\ UNCHANGED <<job, works, children, others>>

Finish ==
    /\ At("finish") \/ At("lastFinish")
    /\ job' = [job EXCEPT !.status = task.verdict, !.retrying = FALSE]
    /\ task' = AtRest
    /\ UNCHANGED <<works, expiring, children, others>>

-----------------------------------------------------------------------------
(* Discovery: _discover, _save_page.  A page and its cursor are written by a *)
(* shielded task, which ends whatever stops discovery.                       *)

Found(outcome, place) ==
    /\ task' = [task EXCEPT !.error = outcome]
    /\ disc' = place

FetchPage ==
    /\ At("run") /\ disc = "fetch"
    /\ Found("none", "save") \/ Found("transient", "done") \/ Found("fatal", "done")
    /\ UNCHANGED <<data, stop, worker, others>>

\* Mutant: every page is numbered as the first.
PositionInPage(page, index) == <<1, index>>

Position(page, index) == <<page, index>>

\* A page that is asked for again, after a crash or an error, may show other
\* works.  One that was saved before keeps its place and its details; a new one
\* takes the place it has now, which another may have taken before it.
SavePage ==
    /\ task.pc = "run" /\ disc = "save"
    /\ \E page \in PageWorks[task.cursor + 1] :
         works' = [w \in Works |->
           IF w \in Saved \/ \A i \in DOMAIN page : page[i] # w THEN works[w]
           ELSE [state |-> IF w \in Listed THEN "complete" ELSE "pending",
                 sequence |-> Position(task.cursor + 1, CHOOSE i \in DOMAIN page : page[i] = w),
                 again |-> \E v \in Saved : works[v].sequence[1] = task.cursor + 1]]
    /\ disc' = "cursor"
    /\ UNCHANGED <<job, expiring, task, stop, worker, others>>

SaveCursor ==
    LET last == task.cursor + 1 = Len(PageWorks)
    IN  /\ task.pc = "run" /\ disc = "cursor"
        /\ job' = [job EXCEPT !.cursor = task.cursor + 1, !.done = last]
        /\ task' = [task EXCEPT !.cursor = @ + 1, !.done = last]
        /\ disc' = IF last \/ stop # "no" THEN "done" ELSE "fetch"
        /\ lost' = lost \ {"cursor"}
        /\ UNCHANGED <<works, expiring, stop, worker, control, reader, faults>>

-----------------------------------------------------------------------------
(* Details: _detail_worker.  Saving one is shielded as well. *)

Put(k, place) == worker' = [worker EXCEPT ![k].pc = place]
Working(k, place) == At("run") /\ worker[k].pc = place

Claim(k) ==
    /\ Working(k, "claim")
    /\ \E w \in Firsts(In({"pending"})) :
         /\ works' = [works EXCEPT ![w].state = "running"]
         /\ worker' = [worker EXCEPT ![k] = [pc |-> "fetch", work |-> w]]
    /\ UNCHANGED <<job, expiring, task, stop, disc, others>>

\* Nothing is pending; what discovery does before the worker goes on counts.
ClaimNone(k) ==
    /\ Working(k, "claim") /\ In({"pending"}) = {}
    /\ Put(k, "decide")
    /\ UNCHANGED <<data, task, stop, disc, others>>

Decide(k) ==
    /\ Working(k, "decide")
    /\ Put(k, IF disc = "done" THEN "done" ELSE "claim")
    /\ UNCHANGED <<data, task, stop, disc, others>>

FetchDetail(k) ==
    /\ Working(k, "fetch")
    /\ Put(k, "complete") \/ Put(k, "failed")
    /\ UNCHANGED <<data, task, stop, disc, others>>

SaveDetail(k) ==
    /\ task.pc = "run" /\ worker[k].pc \in {"complete", "failed"}
    /\ works' = [works EXCEPT ![worker[k].work].state = worker[k].pc]
    /\ Put(k, IF stop = "no" THEN "claim" ELSE "done")
    /\ UNCHANGED <<job, expiring, task, stop, disc, others>>

-----------------------------------------------------------------------------
(* Stopping *)

\* The deadline of the attempt, for its children and for its end.
DeadlinePasses ==
    /\ job.deadline = "set" /\ task.pc \notin {"none", "prepare"}
    /\ job' = [job EXCEPT !.deadline = "passed"]
    /\ \/ /\ task.pc = "run" /\ stop' = IF stop = "no" THEN "abort" ELSE stop
          /\ UNCHANGED task
       \/ /\ task.pc \in {"closing", "expire", "finish"} /\ stop = "no"
          /\ Go("fail") /\ UNCHANGED stop
       \/ /\ task.pc \notin {"run", "closing", "expire", "finish"}
          /\ UNCHANGED <<task, stop>>
    /\ UNCHANGED <<works, expiring, disc, worker, others>>

\* The children stop where they are, but for the writes they have begun.
Unwind ==
    /\ task.pc = "run" /\ stop # "no"
    /\ disc' = IF disc = "fetch" THEN "done" ELSE disc
    /\ worker' = [k \in Workers |->
         IF worker[k].pc \in {"claim", "decide", "fetch"} THEN [worker[k] EXCEPT !.pc = "done"]
         ELSE worker[k]]
    /\ <<disc, worker>>' # <<disc, worker>>
    /\ UNCHANGED <<data, task, stop, others>>

\* The task ends cancelled: its document stays as it is.
Cancelled ==
    /\ stop = "cancel" /\ (task.pc = "run" => Ended) /\ task.pc # "none"
    /\ task' = AtRest /\ stop' = "no"
    /\ UNCHANGED <<data, disc, worker, others>>

Aborted ==
    /\ stop = "abort" /\ Ended
    /\ Go("fail") /\ stop' = "no"
    /\ UNCHANGED <<data, disc, worker, others>>

-----------------------------------------------------------------------------
(* Requests under the manager's lock: cancel and resume *)

Holding(place) == control = place
unheld == <<reader, lost, faults>>

\* A task that is already being stopped by an error of its own may end with it.
Stopped == IF stop = "abort" THEN {"abort", "cancel"} ELSE {"cancel"}

\* Mutant: cancel does not wait for the task.
CancelAtOnce ==
    /\ Holding("free") /\ job.status \in Open
    /\ \/ task.pc # "none" /\ stop' \in Stopped
       \/ task.pc = "none" /\ UNCHANGED stop
    /\ control' = "expire"
    /\ UNCHANGED <<data, task, disc, worker, unheld>>

Cancel ==
    /\ Holding("free")
    /\ \/ task.pc # "none" /\ stop' \in Stopped /\ control' = "wait"
       \/ task.pc = "none" /\ job.status \in Open /\ control' = "expire" /\ UNCHANGED stop
    /\ UNCHANGED <<data, task, disc, worker, unheld>>

CancelWaited ==
    /\ Holding("wait") /\ task.pc = "none"
    /\ control' = IF job.status \in Open THEN "expire" ELSE "free"
    /\ UNCHANGED <<data, task, children, unheld>>

CancelExpire ==
    /\ Holding("expire")
    /\ expiring' = TRUE
    /\ control' = "finish"
    /\ UNCHANGED <<job, works, task, children, unheld>>

CancelFinish ==
    /\ Holding("finish")
    /\ job' = [job EXCEPT !.status = "cancelled", !.retrying = FALSE]
    /\ control' = "free"
    /\ UNCHANGED <<works, expiring, task, children, unheld>>

\* A job that has nothing left to do is not resumed.
Resume ==
    /\ Holding("free") /\ task.pc = "none" /\ job.status # "completed"
    /\ ~AllDone
    /\ faults.resume < MaxResumes /\ faults' = [faults EXCEPT !.resume = @ + 1]
    /\ control' = "prepare"
    /\ UNCHANGED <<data, task, children, reader, lost>>

ResumePrepare ==
    /\ Holding("prepare")
    /\ works' = Requeued({"running", "failed"})
    /\ control' = "reset"
    /\ UNCHANGED <<job, expiring, task, children, unheld>>

ResumeReset ==
    /\ Holding("reset")
    /\ expiring' = FALSE
    /\ control' = "launch"
    /\ UNCHANGED <<job, works, task, children, unheld>>

ResumeLaunch ==
    /\ Holding("launch")
    /\ job' = [job EXCEPT !.status = "queued", !.retrying = FALSE, !.deadline = "none"]
    /\ task' = Launched
    /\ control' = "free"
    /\ lost' = lost \ {"end"}
    /\ UNCHANGED <<works, expiring, children, reader, faults>>

-----------------------------------------------------------------------------
(* Shutdown, crash, failing storage *)

Fault == faults.fault < MaxFaults /\ faults' = [faults EXCEPT !.fault = @ + 1]

\* Mutant: a job whose first attempt has not begun is not taken up.
RelaunchedRunning == IF job.status = "running" THEN Launched ELSE AtRest

\* start: the jobs that have not ended
Relaunched == IF job.status \in Open THEN Launched ELSE AtRest

\* aclose cancels the task and waits for it.
Shutdown ==
    /\ Holding("free") /\ task.pc # "none"
    /\ Fault
    /\ stop' \in Stopped
    /\ control' = "shutdown"
    /\ UNCHANGED <<data, task, disc, worker, reader, lost>>

Restart ==
    /\ Holding("shutdown") /\ task.pc = "none"
    /\ task' = Relaunched
    /\ control' = "free"
    /\ UNCHANGED <<data, children, unheld>>

\* All but the storage is lost, and the process starts again.
Crash ==
    /\ Fault
    /\ task' = Relaunched
    /\ stop' = "no" /\ disc' = "done" /\ worker' = IdleWorkers
    /\ control' = "free"
    /\ reader' = [reader EXCEPT !.pc = "idle"]
    /\ lost' = IF disc = "cursor" THEN lost \union {"cursor"} ELSE lost \ {"end"}
    /\ UNCHANGED data

\* Discovery keeps its error for the end of the attempt ...
PageFault ==
    /\ task.pc = "run" /\ disc \in {"save", "cursor"} /\ Fault
    /\ Found("fatal", "done")
    /\ lost' = IF disc = "cursor" THEN lost \union {"cursor"} ELSE lost
    /\ UNCHANGED <<data, stop, worker, control, reader>>

\* ... a detail worker takes its siblings with it ...
DetailFault(k) ==
    /\ task.pc = "run" /\ worker[k].pc \in {"claim", "complete", "failed"} /\ Fault
    /\ Put(k, "done")
    /\ stop' = IF stop = "no" THEN "abort" ELSE stop
    /\ UNCHANGED <<data, task, disc, control, reader, lost>>

\* ... an end that cannot be written fails, and is left if it fails again.
EndFault ==
    /\ task.pc \in {"closing", "expire", "finish"} /\ stop = "no" /\ Fault
    /\ Go("fail")
    /\ UNCHANGED <<data, children, control, reader, lost>>

LastFault ==
    /\ task.pc \in {"fail", "lastExpire", "lastFinish"} /\ stop = "no" /\ Fault
    /\ task' = AtRest
    /\ lost' = lost \union {"end"}
    /\ UNCHANGED <<data, children, control, reader>>

-----------------------------------------------------------------------------
(* A reader: results.  The job, the first unfinished work and the rows are *)
(* read one after the other.                                               *)

unread == <<data, task, children, control, lost, faults>>

ReadJob ==
    /\ reader.pc = "idle"
    /\ reader' = [reader EXCEPT !.pc = "bound", !.running = job.status \in Open]
    /\ UNCHANGED unread

ReadBound ==
    /\ reader.pc = "bound"
    /\ \E bound \in IF reader.running /\ Unfinished # {}
                    THEN {works[w].sequence : w \in Firsts(Unfinished)} ELSE {Nowhere} :
         reader' = [reader EXCEPT !.pc = "rows", !.bound = bound]
    /\ UNCHANGED unread

Rows ==
    {w \in Saved : /\ Before(reader.cursor, works[w].sequence)
                   /\ reader.bound # Nowhere => Before(works[w].sequence, reader.bound)}

\* The first rows up to the limit, in their order; works at the same place come
\* in any order.
Served ==
    {rows \in SUBSET Rows :
        /\ Cardinality(rows) <= Limit
        /\ rows # Rows => Cardinality(rows) = Limit
        /\ \A w \in rows, v \in Rows \ rows : NotAfter(works[w].sequence, works[v].sequence)}

\* The position of the last of them, if there are any.
Reached(rows) ==
    {p \in {reader.cursor} \union {works[w].sequence : w \in rows} :
        \A w \in rows : NotAfter(works[w].sequence, p)}

\* A job that has ended and has no more rows ends the reading: the next one
\* starts at the beginning.
ReadRows ==
    /\ reader.pc = "rows"
    /\ \E rows \in Served :
         \/ ~reader.running /\ rows = Rows /\ reader' = NoReader
         \/ /\ reader.running \/ rows # Rows
            /\ \E cursor \in Reached(rows) :
                 reader' = [pc |-> "idle", running |-> FALSE, bound |-> Nowhere,
                            cursor |-> cursor, seen |-> reader.seen \union rows,
                            early |-> reader.running /\ rows \intersect Unfinished # {}]
    /\ UNCHANGED unread

-----------------------------------------------------------------------------
Attempt ==
    \/ Load \/ BackoffEnds \/ PassGate \/ ResetExpiry \/ Mark \/ Prepare
    \/ FetchPage \/ SavePage \/ SaveCursor
    \/ \E k \in Workers : Claim(k) \/ ClaimNone(k) \/ Decide(k) \/ FetchDetail(k) \/ SaveDetail(k)
    \/ EndAttempt \/ Retry \/ Close \/ Fail \/ Expire \/ Finish
    \/ Unwind \/ Cancelled \/ Aborted

Manage ==
    \/ Cancel \/ CancelWaited \/ CancelExpire \/ CancelFinish
    \/ Resume \/ ResumePrepare \/ ResumeReset \/ ResumeLaunch
    \/ Shutdown \/ Restart

Disturb ==
    \/ DeadlinePasses \/ Crash \/ PageFault \/ EndFault \/ LastFault
    \/ \E k \in Workers : DetailFault(k)

Read == ReadJob \/ ReadBound \/ ReadRows

Next == Attempt \/ Manage \/ Disturb \/ Read

Spec == Init /\ [][Next]_vars

-----------------------------------------------------------------------------
(* Correctness *)

\* A completed job has walked the whole list and has the details of every work
\* it was shown: of all those saved, which include, for each page, all of a list
\* the page has shown, whatever was cancelled, lost or resumed on the way
\* (_finish).
CompletedMeansAll ==
    job.status = "completed" =>
      /\ \A w \in Saved : works[w].state = "complete"
      /\ \A i \in DOMAIN PageWorks : \E page \in PageWorks[i] :
           \A n \in DOMAIN page : works[page[n]].state = "complete"

\* A work that came when its page was saved again may have the place of another.
Displaced(w) == \E v \in Saved : works[v].again /\ works[v].sequence = works[w].sequence

\* A reader has got every saved work up to its cursor: no caller misses one that
\* is completed after others (AuthorRepository.results), and pages that share
\* works or are saved again as they were put nothing behind the cursor
\* (save_page).  Those are excepted that a page saved again after a crash or an
\* error shows anew, and those at the same places: the code gives both one
\* sequence, and a reader may be past it.
ReaderHasAll ==
    \A w \in Saved :
      NotAfter(works[w].sequence, reader.cursor) => w \in reader.seen \/ Displaced(w)

\* The results of a job do not expire while it works on them, also after an
\* end that was only half written (finish, reset_expiry).
WorksKept == task.pc = "run" => ~expiring

\* Stopping a job leaves no page without its cursor: only a crash or an error
\* of the storage does (_checkpoint).
CheckpointWhole ==
    (\E w \in Saved : works[w].sequence[1] > job.cursor) =>
      disc = "cursor" \/ "cursor" \in lost

\* A job that has not ended has a task, or a request that is about to end it
\* or to start it, unless its end could not be written.
OpenHasTask ==
    job.status \in Open => task.pc # "none" \/ control # "free" \/ "end" \in lost

\* Once a job is cancelled nothing of it changes until it is resumed: cancel
\* has waited for its task (AuthorJobManager.cancel).
CancelledIsStopped ==
    [][job.status = "cancelled" /\ control = "free" => UNCHANGED data]_vars

\* A reader of a running job is never given a work whose details are still to
\* come, for its cursor will not come back to it (AuthorRepository.results).
NoEarlyResult == ~reader.early
=============================================================================
