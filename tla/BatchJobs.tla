------------------------------ MODULE BatchJobs ------------------------------
(***************************************************************************)
(* The asynchronous batch jobs of the service: BatchJobManager             *)
(* (app/services/job_service.py) over its durable repository               *)
(* (app/repositories/*job_repository.py).                                  *)
(*                                                                         *)
(* One event loop runs every coroutine, so a stretch of code between two   *)
(* awaits is one action.  A repository call is awaited through             *)
(* asyncio.to_thread: it is an operation in db that a thread first starts  *)
(* (an update then reads the live job object) and later applies, while the *)
(* loop goes on.  Cancelling the await drops an operation that has not     *)
(* started and abandons, but does not stop, one that has.                  *)
(***************************************************************************)
EXTENDS Naturals, FiniteSets

CONSTANTS
    Jobs,          \* job ids
    Items,         \* item ids of a request (the same for every job)
    NoItem,
    Workers,       \* workers of one job (item_max_concurrency)
    Callers,       \* concurrent HTTP requests that submit, resume or cancel
    Boot,          \* the startup code that resumes interrupted jobs
    NoProc,
    KeyOf,         \* Idempotency-Key sent with the submission of a job
    Outcomes,      \* what a collector may return: "ok", "fail", "argus"
    Hooked,        \* jobs submitted with a webhook_url
    Readers,       \* jobs whose results a consumer follows
    MaxJobs,       \* max_concurrency
    ArgusLimit,    \* consecutive Argus refusals that stop a job (10)
    MaxAttempts,   \* webhook_max_attempts
    PageLimit,     \* limit of a results page
    Timed,         \* whether a job deadline is configured
    LateWrites,    \* whether an abandoned write may land after a later one
    Ops,           \* what clients do: submit, cancel, resume
    MaxCalls, MaxStops   \* bounds: HTTP calls, process stops

Threads == Callers \union {Boot}
Seqs == 0 .. Cardinality(Items)

ASSUME SizesAssumption ==
    /\ IsFiniteSet(Items) /\ NoItem \notin Items /\ Workers # {}
    /\ MaxJobs \in Nat \ {0}
    /\ ArgusLimit \in Nat \ {0}
    /\ MaxAttempts \in Nat \ {0}
    /\ PageLimit \in Nat \ {0}
    /\ MaxCalls \in Nat /\ MaxStops \in Nat
    /\ Timed \in BOOLEAN /\ LateWrites \in BOOLEAN
    /\ Outcomes \subseteq {"ok", "fail", "argus"}
    /\ Ops \subseteq {"submit", "cancel", "resume"}
    /\ Readers \subseteq Jobs

\* Processes: a job's run task, a worker's write task, an HTTP call.  Their
\* names do not collide.
ASSUME NamesAssumption ==
    /\ Boot \notin Callers
    /\ Jobs \intersect Threads = {}
    /\ (Jobs \union Threads) \intersect (Jobs \X Workers) = {}
    /\ NoProc \notin Jobs \union Threads \union (Jobs \X Workers)

VARIABLES
    mode,    \* the process: "up", "boot" (startup), "closing", "down"
    repo,    \* the stored job documents
    rows,    \* the stored results, by job and sequence number
    db,      \* repository operations in flight
    mem,     \* the live StoredJob object of each job
    run,     \* the run task of each job (_tasks, _active_jobs)
    wk,      \* the workers of each job
    slots,   \* jobs that hold BatchJobManager._semaphore
    lock,    \* holder of BatchJobManager._lock
    call,    \* HTTP calls and the startup resume
    boot,    \* interrupted jobs still to resume at startup
    reader,  \* one result consumer per job
    stray,   \* shielded webhook deliveries that outlived their run task
    acked,   \* jobs whose cancellation was answered (history)
    calls, stops   \* counters against MaxCalls, MaxStops

vars == <<mode, repo, rows, db, mem, run, wk, slots, lock, call, boot,
          reader, stray, acked, calls, stops>>

\* What only the clients and the start or end of the process change.
env == <<mode, boot, reader, calls, stops>>

-----------------------------------------------------------------------------
(* Data *)

Ended == {"completed", "failed", "cancelled"}
Open == {"queued", "running"}

StoredJob ==
    [status: {"absent"} \union Open \union Ended,
     error: {"none", "timeout", "shutdown", "restart", "cancelled", "argus"},
     completed: Nat,
     cancelRequested: BOOLEAN,
     webhook: {"none", "pending", "sent", "failed"}]

NoJob == [status |-> "absent", error |-> "none", completed |-> 0,
          cancelRequested |-> FALSE, webhook |-> "none"]

Fresh(j) == [NoJob EXCEPT !.status = "queued",
                          !.webhook = IF j \in Hooked THEN "pending" ELSE "none"]

Interrupted(s) ==
    /\ s.status = "failed"
    /\ s.error \in {"shutdown", "restart"}
    /\ ~s.cancelRequested

Procs == Jobs \union Threads \union (Jobs \X Workers)

Operation ==
    [kind: {"update", "append"}, job: Jobs, own: Procs \union {NoProc}, live: BOOLEAN,
     stage: {"sent", "started"}, val: StoredJob,
     seq: Nat, item: Items \union {NoItem}]

Update(j, p) ==
    [kind |-> "update", job |-> j, own |-> p, live |-> TRUE, stage |-> "sent",
     val |-> NoJob, seq |-> 0, item |-> NoItem]

Append(j, w, n, i) ==
    [kind |-> "append", job |-> j, own |-> <<j, w>>, live |-> TRUE,
     stage |-> "sent", val |-> NoJob, seq |-> n, item |-> i]

RunTask ==
    [pc: {"idle", "sem", "begin", "gather", "cancelling", "drain", "final",
          "save", "hook", "hookSave"},
     block: {"body", "timeout", "cancel"},    \* which block of _run_job
     exc: {"none", "cancel", "error"},        \* what gather raised
     cause: SUBSET {"timeout", "cancel"},     \* cancellations requested
     intr: BOOLEAN,                           \* one is yet to be delivered
     attempt: 1 .. MaxAttempts,
     left: SUBSET Items,                      \* items no worker has taken
     argus: 0 .. ArgusLimit,
     stop: BOOLEAN]                           \* douyin_unavailable

Idle == [pc |-> "idle", block |-> "body", exc |-> "none", cause |-> {},
         intr |-> FALSE, attempt |-> 1, left |-> {}, argus |-> 0,
         stop |-> FALSE]

Worker == [pc: {"off", "next", "collect", "dying", "lock", "append", "dup",
                "count"},
           item: Items \union {NoItem},
           bare: BOOLEAN]   \* awaits the write task without the shield

Off == [pc |-> "off", item |-> NoItem, bare |-> FALSE]

NoCall == [op |-> "none", job |-> NoProc, pc |-> "idle", seen |-> NoJob,
           done |-> {}]

Call ==
    {NoCall} \union
    [op: {"submit", "cancel", "resume"}, job: Jobs,
     pc: {"lock", "read", "check", "insert", "launch", "rows", "build",
          "save", "join"},
     seen: StoredJob, done: SUBSET Items]

Reader == [pc: {"idle", "page"}, offset: Nat, seen: StoredJob, closed: BOOLEAN]

NewReader == [pc |-> "idle", offset |-> 0, seen |-> NoJob, closed |-> FALSE]

\* Mutant: counts the sequence numbers up to the total, stored or not.
FilledUnchecked(j) == Seqs

Filled(j) == {n \in Seqs : rows[j][n] # NoItem}
Done(j) == {rows[j][n] : n \in Filled(j)}

-----------------------------------------------------------------------------
(* Helpers *)

Alive == mode \in {"up", "boot", "closing"}

\* p is awaiting a repository operation that has not been applied yet.
Waiting(p) == \E o \in db : o.own = p /\ o.live

\* The awaits of the processes in S are cancelled.
Abandon(S) ==
    {o \in db : o.own \notin S}
        \union {[o EXCEPT !.live = FALSE] :
                    o \in {q \in db : q.own \in S /\ q.stage = "started"}}

\* The run task of j leaves its updates to a detached coroutine.
Detach(j) ==
    {o \in db : o.own # j}
        \union {[o EXCEPT !.own = NoProc, !.stage = "started",
                         !.val = IF o.stage = "sent" THEN mem[o.job] ELSE @] :
                    o \in {q \in db : q.own = j}}

\* Unless LateWrites, an abandoned write lands before the next operation on
\* the same job starts.
Settled(j) == LateWrites \/ \A o \in db : o.job = j => o.live

\* Mutant: the write task is not shielded from the first cancellation.
CancelUnshielded(s) ==
    IF s.pc \in {"next", "collect", "lock", "append", "count"}
    THEN [s EXCEPT !.pc = "dying"] ELSE s

\* asyncio.Task.cancel on every worker task of j.
CancelWorker(s) ==
    IF s.pc \in {"next", "collect"} THEN [s EXCEPT !.pc = "dying"]
    ELSE IF s.pc \notin {"lock", "append", "count"} THEN s
    ELSE IF s.bare THEN [s EXCEPT !.pc = "dying"]    \* kills the write task
    ELSE [s EXCEPT !.bare = TRUE]

Killed(j) ==
    {w \in Workers : wk[j][w].bare /\ wk[j][w].pc \in {"lock", "append", "count"}}

\* Mutant: a killed write task keeps the lock.
CancelKeepingLock(j) ==
    /\ wk' = [wk EXCEPT ![j] = [w \in Workers |-> CancelWorker(wk[j][w])]]
    /\ db' = Abandon({<<j, w>> : w \in Killed(j)})
    /\ UNCHANGED lock

CancelWorkers(j) ==
    /\ wk' = [wk EXCEPT ![j] = [w \in Workers |-> CancelWorker(wk[j][w])]]
    /\ lock' = IF \E w \in Killed(j) : lock = <<j, w>> THEN NoProc ELSE lock
    /\ db' = Abandon({<<j, w>> : w \in Killed(j)})

\* Mutant: nobody waits for the workers that were cancelled.
AllOffUnawaited(j) == run[j].exc # "none" \/ \A w \in Workers : wk[j][w].pc = "off"

AllOff(j) == \A w \in Workers : wk[j][w].pc = "off"

\* gather keeps the first exception of its children.
FirstExc(j, e) == IF run[j].exc = "none" THEN e ELSE run[j].exc

\* The finally of _run_job: the job leaves _tasks and _active_jobs, and the
\* cancel calls that gathered the task are answered.
Finish(j) ==
    LET joined == {c \in Threads : call[c].pc = "join" /\ call[c].job = j}
    IN  /\ run' = [run EXCEPT ![j] = Idle]
        /\ call' = [c \in Threads |-> IF c \in joined THEN NoCall ELSE call[c]]
        /\ acked' = IF joined # {} THEN acked \union {j} ELSE acked

\* _run_job goes on in block b at pc p.
Goto(j, b, p) ==
    /\ run' = [run EXCEPT ![j].pc = p, ![j].block = b, ![j].attempt = 1,
                          ![j].intr = FALSE]
    /\ UNCHANGED <<call, acked>>

\* except TimeoutError of _run_job.
TimeoutHandler(j, ops) ==
    /\ mem' = [mem EXCEPT ![j].status = "failed", ![j].error = "timeout"]
    /\ db' = ops \union {Update(j, j)}
    /\ Goto(j, "timeout", "save")

\* except CancelledError of _run_job.
CancelHandler(j, ops) ==
    LET m == IF mem[j].status \in Open
             THEN [mem[j] EXCEPT !.status = "failed", !.error = "shutdown"]
             ELSE mem[j]
        notify == m.cancelRequested /\ j \in Hooked
    IN  /\ mem' = [mem EXCEPT ![j] =
                     IF ~notify /\ m.webhook = "pending"
                     THEN [m EXCEPT !.webhook = "failed"] ELSE m]
        /\ db' = IF notify THEN ops ELSE ops \union {Update(j, j)}
        /\ Goto(j, "cancel", IF notify THEN "hook" ELSE "save")

\* _execute_job has ended with exception e: the deadline and the semaphore
\* are left, and a handler, the webhook or the end of the task follows.  A
\* cancellation that came with the deadline only is a TimeoutError.
Leave(j, e, ops) ==
    /\ slots' = slots \ {j}
    /\ CASE e = "cancel" /\ "cancel" \in run[j].cause -> CancelHandler(j, ops)
         [] e = "cancel" /\ "cancel" \notin run[j].cause ->
                TimeoutHandler(j, ops)
         [] e # "cancel" /\ j \in Hooked ->
                /\ Goto(j, "body", "hook")
                /\ db' = ops
                /\ UNCHANGED mem
         [] OTHER -> Finish(j) /\ db' = ops /\ UNCHANGED mem

-----------------------------------------------------------------------------
(* Repository operations.  The primary key of the results is               *)
(* <<job, sequence>>: an append to a taken sequence number raises.         *)

\* A thread starts an operation; an update reads the live object.
StartOp(o) ==
    /\ o.stage = "sent"
    /\ Settled(o.job)
    /\ db' = (db \ {o}) \union
                {[o EXCEPT !.stage = "started",
                           !.val = IF o.kind = "update" THEN mem[o.job] ELSE @]}
    /\ UNCHANGED <<env, repo, rows, mem, run, wk, slots, lock, call, stray,
                   acked>>

ApplyUpdate(o) ==
    /\ o.kind = "update" /\ o.stage = "started"
    /\ repo' = [repo EXCEPT ![o.job] = o.val]
    /\ db' = db \ {o}
    /\ UNCHANGED <<env, rows, mem, run, wk, slots, lock, call, stray, acked>>

\* Mutant: without the primary key a stored result is overwritten.
ApplyOverwriting(o) ==
    /\ o.kind = "append" /\ o.stage = "started"
    /\ db' = db \ {o}
    /\ rows' = [rows EXCEPT ![o.job][o.seq] = o.item]
    /\ UNCHANGED <<env, repo, mem, run, wk, slots, lock, call, stray, acked>>

ApplyAppend(o) ==
    /\ o.kind = "append" /\ o.stage = "started"
    /\ db' = db \ {o}
    /\ IF rows[o.job][o.seq] = NoItem
       THEN /\ rows' = [rows EXCEPT ![o.job][o.seq] = o.item]
            /\ UNCHANGED wk
       ELSE /\ UNCHANGED rows
            /\ IF o.live
               THEN wk' = [wk EXCEPT ![o.job][o.own[2]].pc = "dup"]
               ELSE UNCHANGED wk
    /\ UNCHANGED <<env, repo, mem, run, slots, lock, call, stray, acked>>

-----------------------------------------------------------------------------
(* The run task of a job *)

\* A slot of the semaphore; _execute_job up to its first update_job.
StartJob(j) ==
    /\ run[j].pc = "sem" /\ ~run[j].intr
    /\ Cardinality(slots) < MaxJobs
    /\ slots' = slots \union {j}
    /\ mem' = [mem EXCEPT ![j].status = "running", ![j].error = "none"]
    /\ db' = db \union {Update(j, j)}
    /\ run' = [run EXCEPT ![j].pc = "begin"]
    /\ UNCHANGED <<env, repo, rows, wk, lock, call, stray, acked>>

\* The queue is filled and the workers are created.
StartWorkers(j) ==
    /\ run[j].pc = "begin" /\ ~run[j].intr /\ ~Waiting(j)
    /\ run' = [run EXCEPT ![j].pc = "gather"]
    /\ wk' = [wk EXCEPT ![j] = [w \in Workers |-> [Off EXCEPT !.pc = "next"]]]
    /\ UNCHANGED <<env, repo, rows, db, mem, slots, lock, call, stray, acked>>

\* Mutant: a job that Argus stopped is completed.
GatheredIgnoringStop(j) ==
    /\ run[j].pc = "gather" /\ ~run[j].intr
    /\ run[j].exc = "none" /\ AllOff(j)
    /\ mem' = [mem EXCEPT ![j].status = "completed"]
    /\ db' = db \union {Update(j, j)}
    /\ run' = [run EXCEPT ![j].pc = "final"]
    /\ UNCHANGED <<env, repo, rows, wk, slots, lock, call, stray, acked>>

\* Every worker has returned: the job is completed, or stopped by Argus.
Gathered(j) ==
    /\ run[j].pc = "gather" /\ ~run[j].intr
    /\ run[j].exc = "none" /\ AllOff(j)
    /\ mem' = IF mem[j].cancelRequested THEN mem
              ELSE IF run[j].stop
              THEN [mem EXCEPT ![j].status = "failed", ![j].error = "argus"]
              ELSE [mem EXCEPT ![j].status = "completed"]
    /\ db' = db \union {Update(j, j)}
    /\ run' = [run EXCEPT ![j].pc = "final"]
    /\ UNCHANGED <<env, repo, rows, wk, slots, lock, call, stray, acked>>

\* gather has raised: the finally cancels the remaining workers once more.
Drain(j) ==
    /\ run[j].pc \in {"gather", "cancelling"} /\ ~run[j].intr
    /\ run[j].exc # "none"
    /\ run' = [run EXCEPT ![j].pc = "drain"]
    /\ CancelWorkers(j)
    /\ UNCHANGED <<env, repo, rows, mem, slots, call, stray, acked>>

\* All workers have ended; except Exception and the outer finally.
Drained(j) ==
    /\ run[j].pc = "drain" /\ ~run[j].intr /\ AllOff(j)
    /\ mem' = IF run[j].exc = "error"
              THEN [mem EXCEPT ![j].status = "failed"] ELSE mem
    /\ db' = db \union {Update(j, j)}
    /\ run' = [run EXCEPT ![j].pc = "final"]
    /\ UNCHANGED <<env, repo, rows, wk, slots, lock, call, stray, acked>>

\* The last update_job of _execute_job has returned.
Executed(j) ==
    /\ run[j].pc = "final" /\ ~run[j].intr /\ ~Waiting(j)
    /\ Leave(j, run[j].exc, db)
    /\ UNCHANGED <<env, repo, rows, wk, lock, stray>>

\* Mutant: a timeout is not notified.
SavedSilently(j) ==
    /\ run[j].pc = "save" /\ ~run[j].intr /\ ~Waiting(j)
    /\ Finish(j)
    /\ UNCHANGED <<env, repo, rows, db, mem, wk, slots, lock, stray>>

\* update_job of a handler has returned.
Saved(j) ==
    /\ run[j].pc = "save" /\ ~run[j].intr /\ ~Waiting(j)
    /\ IF run[j].block = "timeout" /\ j \in Hooked
       THEN Goto(j, "timeout", "hook")
       ELSE Finish(j)
    /\ UNCHANGED <<env, repo, rows, db, mem, wk, slots, lock, stray>>

\* _send_webhook: one POST, accepted or not; after the last attempt the
\* notification has failed.
Post(j) ==
    /\ run[j].pc = "hook" /\ ~run[j].intr
    /\ \/ /\ \E status \in {"sent", "failed"} :
                /\ status = "failed" => run[j].attempt = MaxAttempts
                /\ mem' = [mem EXCEPT ![j].webhook = status]
          /\ db' = db \union {Update(j, j)}
          /\ run' = [run EXCEPT ![j].pc = "hookSave"]
       \/ /\ run[j].attempt < MaxAttempts
          /\ run' = [run EXCEPT ![j].attempt = @ + 1]
          /\ UNCHANGED <<mem, db>>
    /\ UNCHANGED <<env, repo, rows, wk, slots, lock, call, stray, acked>>

\* The webhook status is stored; the CancelledError handler saves again.
Posted(j) ==
    /\ run[j].pc = "hookSave" /\ ~run[j].intr /\ ~Waiting(j)
    /\ IF run[j].block = "cancel"
       THEN Goto(j, "cancel", "save") /\ db' = db \union {Update(j, j)}
       ELSE Finish(j) /\ UNCHANGED db
    /\ UNCHANGED <<env, repo, rows, mem, wk, slots, lock, stray>>

\* A detached delivery ends, accepted or given up, and stores the status of
\* the job object it was started with.
StrayPost(r) ==
    /\ stray' = stray \ {r}
    /\ \E status \in {"sent", "failed"} :
         db' = db \union {[Update(r.job, NoProc) EXCEPT
                             !.stage = "started",
                             !.val = [r.val EXCEPT !.webhook = status]]}
    /\ UNCHANGED <<env, repo, rows, mem, run, wk, slots, lock, call, acked>>

-----------------------------------------------------------------------------
(* Cancellation of a run task: the deadline, a cancel call, aclose.        *)

\* The deadline of the asyncio.timeout block.
Deadline(j) ==
    /\ Timed /\ Alive
    /\ run[j].pc \in {"begin", "gather", "cancelling", "drain", "final"}
    /\ "timeout" \notin run[j].cause
    /\ run' = [run EXCEPT ![j].cause = @ \union {"timeout"}, ![j].intr = TRUE]
    /\ UNCHANGED <<env, repo, rows, db, mem, wk, slots, lock, call, stray,
                   acked>>

\* CancelledError at an await outside of the two gathers.  The webhook of the
\* CancelledError handler is shielded: its delivery goes on without the task.
Interrupt(j) ==
    /\ run[j].intr
    /\ stray' = IF run[j].pc = "hook" /\ run[j].block = "cancel"
                THEN stray \union {[job |-> j, val |-> mem[j]]} ELSE stray
    /\ CASE run[j].pc \in {"sem", "begin", "final"} ->
                Leave(j, "cancel", Abandon({j}))
         [] run[j].pc \in {"hook", "hookSave"} /\ run[j].block = "body" ->
                CancelHandler(j, Abandon({j})) /\ UNCHANGED slots
         [] run[j].pc = "save"
              \/ (run[j].pc \in {"hook", "hookSave"} /\ run[j].block = "timeout") ->
                Finish(j) /\ db' = Abandon({j}) /\ UNCHANGED <<mem, slots>>
         [] run[j].pc \in {"hook", "hookSave"} /\ run[j].block = "cancel" ->
                Finish(j) /\ db' = Detach(j) /\ UNCHANGED <<mem, slots>>
         [] OTHER -> FALSE
    /\ UNCHANGED <<env, repo, rows, wk, lock>>

\* CancelledError at one of the gathers: an unfinished gather passes it to
\* the workers; a finished one, and the draining one, raise it themselves.
InterruptGather(j) ==
    LET finished == AllOff(j) \/ (run[j].pc # "drain" /\ run[j].exc # "none")
    IN  /\ run[j].intr
        /\ run[j].pc \in {"gather", "cancelling", "drain"}
        /\ run' = [run EXCEPT
              ![j].intr = FALSE,
              ![j].pc = IF @ = "gather" THEN "cancelling" ELSE @,
              ![j].exc = IF finished \/ run[j].pc = "drain" THEN "cancel" ELSE @]
        /\ IF finished THEN UNCHANGED <<wk, lock, db>> ELSE CancelWorkers(j)
        /\ UNCHANGED <<env, repo, rows, mem, slots, call, stray, acked>>

-----------------------------------------------------------------------------
(* Workers of a job, each with the write task it shields *)

SetWorker(j, w, s) == wk' = [wk EXCEPT ![j][w] = s]

\* The next item of the queue, unless the job stops or the queue is empty.
\* (Queues are per platform: which item a worker finds is left open.)
Take(j, w) ==
    /\ wk[j][w].pc = "next"
    /\ \/ \E i \in run[j].left :
            /\ ~run[j].stop
            /\ run' = [run EXCEPT ![j].left = @ \ {i}]
            /\ SetWorker(j, w, [Off EXCEPT !.pc = "collect", !.item = i])
       \/ /\ run[j].stop \/ run[j].left = {}
          /\ SetWorker(j, w, Off)
          /\ UNCHANGED run
    /\ UNCHANGED <<env, repo, rows, db, mem, slots, lock, call, stray, acked>>

\* _collect_one has returned; a failed or timed-out item is a result too.
\* Argus refusals are counted until a success, and the write task starts.
Collected(j, w) ==
    /\ wk[j][w].pc = "collect"
    /\ \E out \in Outcomes :
         LET n == IF run[j].argus < ArgusLimit THEN run[j].argus + 1
                  ELSE run[j].argus
         IN run' = CASE out = "ok" -> [run EXCEPT ![j].argus = 0]
                     [] out = "fail" -> run
                     [] out = "argus" ->
                          [run EXCEPT ![j].argus = n,
                                      ![j].stop = @ \/ n = ArgusLimit]
    /\ SetWorker(j, w, [wk[j][w] EXCEPT !.pc = "lock"])
    /\ UNCHANGED <<env, repo, rows, db, mem, slots, lock, call, stray, acked>>

\* persist_result: under _lock, the append at sequence stored.completed.
Persist(j, w) ==
    /\ wk[j][w].pc = "lock" /\ lock = NoProc
    /\ lock' = <<j, w>>
    /\ db' = db \union {Append(j, w, mem[j].completed, wk[j][w].item)}
    /\ SetWorker(j, w, [wk[j][w] EXCEPT !.pc = "append"])
    /\ UNCHANGED <<env, repo, rows, mem, run, slots, call, stray, acked>>

\* Mutant: append_result is not awaited.
AppendedUnawaited(j, w) ==
    /\ wk[j][w].pc = "append"
    /\ mem' = [mem EXCEPT ![j].completed = @ + 1]
    /\ db' = db \union {Update(j, <<j, w>>)}
    /\ SetWorker(j, w, [wk[j][w] EXCEPT !.pc = "count"])
    /\ UNCHANGED <<env, repo, rows, run, slots, lock, call, stray, acked>>

\* append_result has returned: the counters, then update_job.
Appended(j, w) ==
    /\ wk[j][w].pc = "append" /\ ~Waiting(<<j, w>>)
    /\ mem' = [mem EXCEPT ![j].completed = @ + 1]
    /\ db' = db \union {Update(j, <<j, w>>)}
    /\ SetWorker(j, w, [wk[j][w] EXCEPT !.pc = "count"])
    /\ UNCHANGED <<env, repo, rows, run, slots, lock, call, stray, acked>>

\* The write task is done; a worker that was cancelled meanwhile raises.
Counted(j, w) ==
    /\ wk[j][w].pc = "count" /\ ~Waiting(<<j, w>>)
    /\ lock' = NoProc
    /\ IF wk[j][w].bare
       THEN /\ SetWorker(j, w, Off)
            /\ run' = [run EXCEPT ![j].exc = FirstExc(j, "cancel")]
       ELSE /\ SetWorker(j, w, [Off EXCEPT !.pc = "next"])
            /\ UNCHANGED run
    /\ UNCHANGED <<env, repo, rows, db, mem, slots, call, stray, acked>>

\* append_result has raised: the exception goes through the worker.
Duplicate(j, w) ==
    /\ wk[j][w].pc = "dup"
    /\ lock' = NoProc
    /\ SetWorker(j, w, Off)
    /\ run' = [run EXCEPT ![j].exc = FirstExc(j, "error")]
    /\ UNCHANGED <<env, repo, rows, db, mem, slots, call, stray, acked>>

\* A cancelled worker has ended.
Die(j, w) ==
    /\ wk[j][w].pc = "dying"
    /\ SetWorker(j, w, Off)
    /\ run' = [run EXCEPT ![j].exc = FirstExc(j, "cancel")]
    /\ UNCHANGED <<env, repo, rows, db, mem, slots, lock, call, stray, acked>>

-----------------------------------------------------------------------------
(* HTTP calls: submit, cancel, resume *)

SetCall(c, r) == call' = [call EXCEPT ![c] = r]

Respond(c) == SetCall(c, NoCall) /\ lock' = NoProc

\* A client that asks for a resume follows the results again afterwards.
Request(c, op, j) ==
    /\ mode = "up" /\ calls < MaxCalls
    /\ call[c].pc = "idle"
    /\ IF op = "submit"
       THEN repo[j] = NoJob /\ \A d \in Threads : call[d].job # j
       ELSE repo[j] # NoJob
    /\ calls' = calls + 1
    /\ SetCall(c, [NoCall EXCEPT !.op = op, !.job = j, !.pc = "lock"])
    /\ reader' = IF op # "resume" THEN reader
                 ELSE [reader EXCEPT ![j] =
                         [NewReader EXCEPT !.offset = reader[j].offset]]
    /\ UNCHANGED <<mode, repo, rows, db, mem, run, wk, slots, lock, boot,
                   stray, acked, stops>>

Acquire(c) ==
    /\ call[c].pc = "lock" /\ lock = NoProc
    /\ lock' = c
    /\ SetCall(c, [call[c] EXCEPT !.pc = "read"])
    /\ UNCHANGED <<env, repo, rows, db, mem, run, wk, slots, stray, acked>>

\* Mutant: the key of a job that has ended is free again.
OpenKeyHolders(j) ==
    {k \in Jobs : KeyOf[k] = KeyOf[j] /\ repo[k].status \in Open}

\* Jobs stored under the Idempotency-Key of j.
KeyHolders(j) == {k \in Jobs : KeyOf[k] = KeyOf[j] /\ repo[k] # NoJob}

\* submit: find_by_idempotency_key answers with the existing job.
FindKey(c) ==
    LET j == call[c].job
    IN  /\ call[c].op = "submit" /\ call[c].pc = "read"
        /\ IF KeyHolders(j) # {}
           THEN Respond(c)
           ELSE SetCall(c, [call[c] EXCEPT !.pc = "insert"]) /\ UNCHANGED lock
        /\ UNCHANGED <<env, repo, rows, db, mem, run, wk, slots, stray,
                       acked>>

\* create_job; the unique index on the key refuses a second job.
CreateJob(c) ==
    LET j == call[c].job
    IN  /\ call[c].pc = "insert"
        /\ IF KeyHolders(j) # {}
           THEN Respond(c) /\ UNCHANGED repo
           ELSE /\ repo' = [repo EXCEPT ![j] = Fresh(j)]
                /\ SetCall(c, [call[c] EXCEPT !.pc = "launch"])
                /\ UNCHANGED lock
        /\ UNCHANGED <<env, rows, db, mem, run, wk, slots, stray, acked>>

\* The job object is registered and its run task created.
Launch(j, stored, pending) ==
    /\ mem' = [mem EXCEPT ![j] = stored]
    /\ run' = [run EXCEPT ![j] = [Idle EXCEPT !.pc = "sem", !.left = pending]]

LaunchNew(c) ==
    /\ call[c].pc = "launch"
    /\ Launch(call[c].job, Fresh(call[c].job), Items)
    /\ Respond(c)
    /\ UNCHANGED <<env, repo, rows, db, wk, slots, stray, acked>>

\* cancel and resume: get_job.
ReadJob(c) ==
    /\ call[c].op \in {"cancel", "resume"} /\ call[c].pc = "read"
    /\ Settled(call[c].job)
    /\ SetCall(c, [call[c] EXCEPT !.pc = "check", !.seen = repo[call[c].job]])
    /\ UNCHANGED <<env, repo, rows, db, mem, run, wk, slots, lock, stray,
                   acked>>

\* cancel: an ended job, or one without a task, is answered as it is; else
\* the live object is marked and stored.
CheckCancel(c) ==
    LET j == call[c].job
    IN  /\ call[c].op = "cancel" /\ call[c].pc = "check"
        /\ IF call[c].seen.status \in Ended \/ run[j].pc = "idle"
           THEN Respond(c) /\ UNCHANGED <<mem, db>>
           ELSE /\ mem' = [mem EXCEPT ![j].cancelRequested = TRUE,
                                      ![j].status = "cancelled",
                                      ![j].error = "cancelled"]
                /\ db' = db \union {Update(j, c)}
                /\ SetCall(c, [call[c] EXCEPT !.pc = "save"])
                /\ UNCHANGED lock
        /\ UNCHANGED <<env, repo, rows, run, wk, slots, stray, acked>>

\* Mutant: cancel answers without awaiting the task.
CancelUnjoined(c) ==
    LET j == call[c].job
    IN  /\ call[c].op = "cancel" /\ call[c].pc = "save" /\ ~Waiting(c)
        /\ Respond(c)
        /\ acked' = acked \union {j}
        /\ run' = IF run[j].pc = "idle" THEN run
                  ELSE [run EXCEPT ![j].cause = @ \union {"cancel"},
                                   ![j].intr = TRUE]
        /\ UNCHANGED <<env, repo, rows, db, mem, wk, slots, stray>>

\* cancel: the lock is released, the task cancelled and awaited.
CancelTask(c) ==
    LET j == call[c].job
    IN  /\ call[c].op = "cancel" /\ call[c].pc = "save" /\ ~Waiting(c)
        /\ lock' = NoProc
        /\ IF run[j].pc = "idle"
           THEN /\ SetCall(c, NoCall)
                /\ acked' = acked \union {j}
                /\ UNCHANGED run
           ELSE /\ SetCall(c, [call[c] EXCEPT !.pc = "join"])
                /\ run' = [run EXCEPT ![j].cause = @ \union {"cancel"},
                                      ![j].intr = TRUE]
                /\ UNCHANGED acked
        /\ UNCHANGED <<env, repo, rows, db, mem, wk, slots, stray>>

\* resume: a job with a task, or a completed one, is answered as it is.
CheckResume(c) ==
    /\ call[c].op = "resume" /\ call[c].pc = "check"
    /\ IF \/ call[c].seen.status \in {"absent", "completed"}
          \/ run[call[c].job].pc # "idle"
       THEN Respond(c)
       ELSE SetCall(c, [call[c] EXCEPT !.pc = "rows"]) /\ UNCHANGED lock
    /\ UNCHANGED <<env, repo, rows, db, mem, run, wk, slots, stray, acked>>

\* resume: get_completed_items.
ReadRows(c) ==
    LET j == call[c].job
    IN  /\ call[c].pc = "rows"
        /\ Settled(j)
        /\ SetCall(c, [call[c] EXCEPT !.pc = "build", !.done = Done(j),
                                      !.seen.completed = Cardinality(Filled(j))])
        /\ UNCHANGED <<env, repo, rows, db, mem, run, wk, slots, lock, stray,
                       acked>>

\* resume: the reset job, which no task shares yet, is stored.
ResetJob(c) ==
    LET j == call[c].job
        stored == [Fresh(j) EXCEPT !.completed = call[c].seen.completed]
    IN  /\ call[c].pc = "build"
        /\ SetCall(c, [call[c] EXCEPT !.pc = "save", !.seen = stored])
        /\ db' = db \union {[Update(j, c) EXCEPT !.stage = "started",
                                                 !.val = stored]}
        /\ UNCHANGED <<env, repo, rows, mem, run, wk, slots, lock, stray,
                       acked>>

\* resume: the job runs again over the items without a result.
LaunchResumed(c) ==
    LET j == call[c].job
    IN  /\ call[c].op = "resume" /\ call[c].pc = "save" /\ ~Waiting(c)
        /\ Launch(j, call[c].seen, Items \ call[c].done)
        /\ Respond(c)
        /\ acked' = IF c = Boot THEN acked ELSE acked \ {j}
        /\ UNCHANGED <<env, repo, rows, db, wk, slots, stray>>

-----------------------------------------------------------------------------
(* GET results, followed page by page until next_cursor is null *)

PollJob(j) ==
    /\ mode = "up" /\ reader[j].pc = "idle" /\ ~reader[j].closed
    /\ repo[j] # NoJob
    /\ \A c \in Callers : ~(call[c].op = "resume" /\ call[c].job = j)
    /\ reader' = [reader EXCEPT ![j].pc = "page", ![j].seen = repo[j]]
    /\ UNCHANGED <<mode, repo, rows, db, mem, run, wk, slots, lock, call,
                   boot, stray, acked, calls, stops>>

\* Mutant: the end of the stored results ends the consumption of a job.
PollRowsIgnoringStatus(j) ==
    LET off == reader[j].offset
        found == Cardinality({n \in Filled(j) : n >= off})
        next == off + IF found < PageLimit THEN found ELSE PageLimit
    IN  /\ mode = "up" /\ reader[j].pc = "page"
        /\ reader' = [reader EXCEPT
              ![j] = [pc |-> "idle", offset |-> next, seen |-> NoJob,
                      closed |-> ~(next < reader[j].seen.completed)]]
        /\ UNCHANGED <<mode, repo, rows, db, mem, run, wk, slots, lock, call,
                       boot, stray, acked, calls, stops>>

PollRows(j) ==
    LET off == reader[j].offset
        found == Cardinality({n \in Filled(j) : n >= off})
        next == off + IF found < PageLimit THEN found ELSE PageLimit
        seen == reader[j].seen
    IN  /\ mode = "up" /\ reader[j].pc = "page"
        /\ reader' = [reader EXCEPT
              ![j] = [pc |-> "idle", offset |-> next, seen |-> NoJob,
                      closed |-> ~(next < seen.completed \/ seen.status \in Open)]]
        /\ UNCHANGED <<mode, repo, rows, db, mem, run, wk, slots, lock, call,
                       boot, stray, acked, calls, stops>>

-----------------------------------------------------------------------------
(* The process stops and starts *)

\* Memory is lost, and so are the operations that have not been applied.
LoseMemory ==
    /\ mode' = "down"
    /\ db' = {} /\ slots' = {} /\ lock' = NoProc /\ boot' = {} /\ stray' = {}
    /\ mem' = [j \in Jobs |-> NoJob]
    /\ run' = [j \in Jobs |-> Idle]
    /\ wk' = [j \in Jobs |-> [w \in Workers |-> Off]]
    /\ call' = [c \in Threads |-> NoCall]
    /\ reader' = [j \in Jobs |-> [reader[j] EXCEPT !.pc = "idle", !.seen = NoJob]]
    /\ UNCHANGED <<repo, rows, acked, calls>>

Crash ==
    /\ Alive /\ stops < MaxStops
    /\ stops' = stops + 1
    /\ LoseMemory

\* aclose, once the server has answered its requests.
Close ==
    /\ mode = "up" /\ stops < MaxStops
    /\ \A c \in Threads : call[c].pc = "idle"
    /\ mode' = "closing"
    /\ stops' = stops + 1
    /\ run' = [j \in Jobs |->
                 IF run[j].pc = "idle" THEN run[j]
                 ELSE [run[j] EXCEPT !.cause = @ \union {"cancel"}, !.intr = TRUE]]
    /\ UNCHANGED <<repo, rows, db, mem, wk, slots, lock, call, boot, reader,
                   stray, acked, calls>>

Closed ==
    /\ mode = "closing" /\ \A j \in Jobs : run[j].pc = "idle"
    /\ LoseMemory
    /\ UNCHANGED stops

\* Mutants: recovery also fails the jobs that have ended, or leaves the queued.
RecoveredAll(j) ==
    IF repo[j] = NoJob THEN repo[j]
    ELSE [repo[j] EXCEPT !.status = "failed", !.error = "restart",
                         !.completed = Cardinality(Filled(j))]

RecoveredRunning(j) ==
    IF repo[j].status # "running" THEN repo[j]
    ELSE [repo[j] EXCEPT !.status = "failed", !.error = "restart",
                         !.completed = Cardinality(Filled(j))]

\* recover_interrupted, then get_interrupted_jobs for resume_interrupted.
Recovered(j) ==
    IF repo[j].status \notin Open THEN repo[j]
    ELSE [repo[j] EXCEPT !.status = "failed", !.error = "restart",
                         !.completed = Cardinality(Filled(j)),
                         !.webhook = IF @ = "pending" THEN "failed" ELSE @]

Recover ==
    /\ mode = "down"
    /\ mode' = "boot"
    /\ repo' = [j \in Jobs |-> Recovered(j)]
    /\ boot' = {j \in Jobs : Interrupted(Recovered(j))}
    /\ UNCHANGED <<rows, db, mem, run, wk, slots, lock, call, reader, stray,
                   acked, calls, stops>>

\* resume_interrupted resumes one job after the other.
BootResume(j) ==
    /\ mode = "boot" /\ call[Boot].pc = "idle" /\ j \in boot
    /\ boot' = boot \ {j}
    /\ SetCall(Boot, [NoCall EXCEPT !.op = "resume", !.job = j, !.pc = "lock"])
    /\ UNCHANGED <<mode, repo, rows, db, mem, run, wk, slots, lock, reader,
                   stray, acked, calls, stops>>

Ready ==
    /\ mode = "boot" /\ call[Boot].pc = "idle" /\ boot = {}
    /\ mode' = "up"
    /\ UNCHANGED <<repo, rows, db, mem, run, wk, slots, lock, call, boot,
                   reader, stray, acked, calls, stops>>

-----------------------------------------------------------------------------
Init ==
    /\ mode = "up"
    /\ repo = [j \in Jobs |-> NoJob]
    /\ rows = [j \in Jobs |-> [n \in Seqs |-> NoItem]]
    /\ db = {} /\ slots = {} /\ lock = NoProc /\ boot = {}
    /\ mem = [j \in Jobs |-> NoJob]
    /\ run = [j \in Jobs |-> Idle]
    /\ wk = [j \in Jobs |-> [w \in Workers |-> Off]]
    /\ call = [c \in Threads |-> NoCall]
    /\ reader = [j \in Jobs |-> NewReader]
    /\ stray = {}
    /\ acked = {} /\ calls = 0 /\ stops = 0

Storage == \E o \in db : StartOp(o) \/ ApplyUpdate(o) \/ ApplyAppend(o)

RunTasks ==
    \E j \in Jobs :
        \/ StartJob(j) \/ StartWorkers(j) \/ Gathered(j) \/ Drain(j)
        \/ Drained(j) \/ Executed(j) \/ Saved(j) \/ Post(j) \/ Posted(j)
        \/ Interrupt(j) \/ InterruptGather(j)

Strays == \E r \in stray : StrayPost(r)

WorkerTasks ==
    \E j \in Jobs, w \in Workers :
        \/ Take(j, w) \/ Collected(j, w) \/ Persist(j, w) \/ Appended(j, w)
        \/ Counted(j, w) \/ Duplicate(j, w) \/ Die(j, w)

CallTasks ==
    \E c \in Threads :
        \/ Acquire(c) \/ FindKey(c) \/ CreateJob(c) \/ LaunchNew(c)
        \/ ReadJob(c) \/ CheckCancel(c) \/ CancelTask(c) \/ CheckResume(c)
        \/ ReadRows(c) \/ ResetJob(c) \/ LaunchResumed(c)

Restart == Closed \/ Recover \/ Ready \/ \E j \in Jobs : BootResume(j)

\* What the service does by itself, once asked.
Service == Storage \/ RunTasks \/ Strays \/ WorkerTasks \/ CallTasks \/ Restart

Clients ==
    \/ \E c \in Callers, j \in Jobs, op \in Ops :
           Request(c, op, j)
    \/ \E j \in Readers : PollJob(j) \/ PollRows(j)

Environment == Clients \/ Crash \/ Close \/ \E j \in Jobs : Deadline(j)

Next == Service \/ Environment

Spec == Init /\ [][Next]_vars

\* Threads finish, collectors return, callers of the lock are served and the
\* process is restarted.
FairSpec == Spec /\ WF_vars(Service)

-----------------------------------------------------------------------------
(* Properties *)

TypeOK ==
    /\ mode \in {"up", "boot", "closing", "down"}
    /\ repo \in [Jobs -> StoredJob]
    /\ rows \in [Jobs -> [Seqs -> Items \union {NoItem}]]
    /\ db \subseteq Operation
    /\ mem \in [Jobs -> StoredJob]
    /\ run \in [Jobs -> RunTask]
    /\ wk \in [Jobs -> [Workers -> Worker]]
    /\ slots \subseteq Jobs
    /\ lock \in Threads \union (Jobs \X Workers) \union {NoProc}
    /\ call \in [Threads -> Call]
    /\ boot \subseteq Jobs
    /\ reader \in [Jobs -> Reader]
    /\ stray \subseteq [job: Jobs, val: StoredJob]
    /\ acked \subseteq Jobs
    /\ calls \in Nat /\ stops \in Nat

WritesLocked ==
    \A j \in Jobs, w \in Workers :
        wk[j][w].pc \in {"append", "dup", "count"} => lock = <<j, w>>

CallsLocked ==
    \A c \in Threads : call[c].pc \notin {"idle", "lock", "join"} => lock = c

TasksCover ==
    \A j \in Jobs : run[j].pc \notin {"gather", "cancelling", "drain"} =>
        \A w \in Workers : wk[j][w].pc = "off"

\* A call is past the checks after which it creates a run task.
Launching(c) ==
    \/ call[c].pc \in {"launch", "rows", "build"}
    \/ call[c].pc = "save" /\ call[c].op = "resume"

LaunchesAlone ==
    \A c \in Threads : Launching(c) => run[call[c].job].pc = "idle"

\* Wherever cancellations hit: what _lock guards is done by one write or call
\* at a time, no worker outlives its run task, and a call that is about to
\* create a run task (job_service.py:176, 224) finds none for its job.
Exclusive == WritesLocked /\ CallsLocked /\ TasksCover /\ LaunchesAlone

\* The progress a poller reads never exceeds the results that get_results can
\* return to it: every sequence number below completed is stored.
ProgressNotAhead ==
    \A j \in Jobs : \A n \in 0 .. repo[j].completed - 1 : n \in Filled(j)

\* A job is stored as completed only when every item has a stored result
\* (docs/API.md:313-314), also after an Argus stop and across resumes.
CompletedHasAll ==
    \A j \in Jobs : repo[j].status = "completed" => Done(j) = Items

\* Nothing works on j and no write for it is in flight.
AtRest(j) ==
    /\ mode = "up"
    /\ run[j].pc = "idle"
    /\ \A o \in db : o.job # j
    /\ \A r \in stray : r.job # j
    /\ \A c \in Threads : call[c].job # j

\* Once nothing is in flight, the stored progress counts exactly the stored
\* results, whatever interrupted the job (docs/API.md:442-443).
ProgressAgrees ==
    \A j \in Jobs : AtRest(j) => repo[j].completed = Cardinality(Filled(j))

\* A job whose cancellation was answered has no task until a client resumes
\* it, wherever the cancellation met the old one, and no result is stored for it.
AckedIsFrozen ==
    [][\A j \in acked \intersect acked' : run'[j].pc = "idle" /\ rows'[j] = rows[j]]_vars

\* The job is then stored as cancelled, unless it was completed before the
\* cancellation reached its task (docs/API.md:311, tests/test_jobs.py:582).
AckedIsCancelled ==
    \A j \in acked : AtRest(j) => repo[j].status \in {"cancelled", "completed"}

\* Two submissions with one Idempotency-Key store one job.
OneJobPerKey ==
    \A j, k \in Jobs :
        repo[j] # NoJob /\ repo[k] # NoJob /\ KeyOf[j] = KeyOf[k] => j = k

\* A consumer whose next_cursor became null has seen every result there is.
ReaderMissesNothing ==
    \A j \in Jobs : reader[j].closed =>
        \A n \in Filled(j) : n < reader[j].offset

\* A job at rest has an outcome for its webhook.
WebhookSettled ==
    \A j \in Jobs : AtRest(j) /\ repo[j].status \in Ended =>
        repo[j].webhook # "pending"

\* Every accepted job ends, also when the process stops in between.
EveryJobEnds ==
    \A j \in Jobs : repo[j].status \in Open ~> repo[j].status \in Ended

\* Every call is answered: the lock is never held for good.
EveryCallAnswered ==
    \A c \in Callers : call[c].pc # "idle" ~> call[c].pc = "idle"

\* To a consumer a job is a log of results that only grows, and a completion
\* that lasts.
Log(j) == [n \in 1 .. Cardinality(Filled(j)) |-> rows[j][n - 1]]

Ledger == INSTANCE JobLedger WITH
              log <- [j \in Jobs |-> Log(j)],
              done <- {j \in Jobs : repo[j].status = "completed"}

\* The job manager implements the log whatever interrupts it ...
ResultsAreALog == Ledger!LogSpec

\* ... and the completion too, over process stops and startup resumes.
ImplementsLedger == Ledger!Spec

=============================================================================
