--------------------------- MODULE BatchJobsProofs ---------------------------
(***************************************************************************)
(* Proofs about BatchJobs, for every value of its constants.               *)
(***************************************************************************)
EXTENDS BatchJobs, FiniteSetTheorems, TLAPS

-----------------------------------------------------------------------------
(* The values the actions write have the types of the variables. *)

\* The initial and the reset values.
LEMMA ValueTypes ==
    /\ NoJob \in StoredJob
    /\ \A j \in Jobs : Fresh(j) \in StoredJob
    /\ Idle \in RunTask
    /\ Off \in Worker
    /\ NoCall \in Call
    /\ NewReader \in Reader
<1>1. NoJob \in StoredJob
  BY DEF NoJob, StoredJob
<1>2. \A j \in Jobs : Fresh(j) \in StoredJob
  BY DEF NoJob, StoredJob, Fresh, Open
<1>3. Idle \in RunTask
  BY SizesAssumption DEF Idle, RunTask
<1>4. Off \in Worker
  BY DEF Off, Worker
<1>5. NoCall \in Call
  BY DEF Call
<1>6. NewReader \in Reader
  BY <1>1 DEF NewReader, Reader
<1>7. QED
  BY <1>1, <1>2, <1>3, <1>4, <1>5, <1>6

\* The number of stored results is a natural number: Items is finite.
LEMMA FilledFinite ==
    ASSUME NEW j
    PROVE  /\ IsFiniteSet(Filled(j))
           /\ Cardinality(Filled(j)) \in Nat
           /\ \A S \in SUBSET Filled(j) : Cardinality(S) \in Nat
<1>1. IsFiniteSet(Seqs)
  BY SizesAssumption, FS_CardinalityType, FS_Interval DEF Seqs
<1>2. \A S \in SUBSET Seqs : IsFiniteSet(S) /\ Cardinality(S) \in Nat
  BY <1>1, FS_Subset, FS_CardinalityType
<1>3. Filled(j) \in SUBSET Seqs
  BY DEF Filled
<1>4. QED
  BY <1>2, <1>3

\* A repository operation that is asked for.
LEMMA UpdateType ==
    ASSUME NEW j \in Jobs, NEW p \in Procs \union {NoProc}
    PROVE  Update(j, p) \in Operation
BY ValueTypes DEF Update, Operation

\* Abandoned and detached operations are operations.
LEMMA AbandonType ==
    ASSUME TypeOK, NEW S
    PROVE  Abandon(S) \subseteq Operation
<1>1. SUFFICES ASSUME NEW o \in db
               PROVE  [o EXCEPT !.live = FALSE] \in Operation
  BY DEF TypeOK, Abandon
<1>2. o \in Operation
  BY DEF TypeOK
<1>3. QED
  BY <1>2 DEF Operation

LEMMA DetachType ==
    ASSUME TypeOK, NEW j \in Jobs
    PROVE  Detach(j) \subseteq Operation
<1>1. SUFFICES ASSUME NEW o \in db
               PROVE  [o EXCEPT !.own = NoProc, !.stage = "started",
                                !.val = IF o.stage = "sent" THEN mem[o.job] ELSE @]
                        \in Operation
  BY DEF TypeOK, Detach
<1>2. o \in Operation /\ mem[o.job] \in StoredJob
  BY DEF TypeOK, Operation
<1>3. QED
  BY <1>2 DEF Operation

\* Cancelling the workers of a job.
LEMMA CancelWorkersType ==
    ASSUME TypeOK, NEW j \in Jobs, CancelWorkers(j)
    PROVE  /\ wk' \in [Jobs -> [Workers -> Worker]]
           /\ lock' \in Threads \union (Jobs \X Workers) \union {NoProc}
           /\ db' \subseteq Operation
<1>1. \A s \in Worker : CancelWorker(s) \in Worker
  BY DEF Worker, CancelWorker
<1>2. wk' \in [Jobs -> [Workers -> Worker]]
  BY <1>1 DEF TypeOK, CancelWorkers
<1>3. lock' \in Threads \union (Jobs \X Workers) \union {NoProc}
  BY DEF TypeOK, CancelWorkers
<1>4. db' \subseteq Operation
  BY AbandonType DEF CancelWorkers
<1>5. QED
  BY <1>2, <1>3, <1>4

\* The end of a run task.
LEMMA FinishType ==
    ASSUME TypeOK, NEW j \in Jobs, Finish(j)
    PROVE  run' \in [Jobs -> RunTask] /\ call' \in [Threads -> Call]
             /\ acked' \subseteq Jobs
BY ValueTypes DEF TypeOK, Finish

LEMMA GotoType ==
    ASSUME TypeOK, NEW j \in Jobs, NEW b \in {"body", "timeout", "cancel"},
           NEW p \in {"save", "hook"}, Goto(j, b, p)
    PROVE  run' \in [Jobs -> RunTask] /\ call' \in [Threads -> Call]
             /\ acked' \subseteq Jobs
<1>1. run[j] \in RunTask
  BY DEF TypeOK
<1>2. [run[j] EXCEPT !.pc = p, !.block = b, !.attempt = 1, !.intr = FALSE]
         \in RunTask
  <2>1. 1 \in 1 .. MaxAttempts
    BY SizesAssumption
  <2>2. QED
    BY <1>1, <2>1 DEF RunTask
<1>3. run' \in [Jobs -> RunTask]
  BY <1>2 DEF Goto, TypeOK
<1>4. QED
  BY <1>3 DEF Goto, TypeOK

LEMMA TimeoutHandlerType ==
    ASSUME TypeOK, NEW j \in Jobs, NEW ops \in SUBSET Operation,
           TimeoutHandler(j, ops)
    PROVE  /\ run' \in [Jobs -> RunTask] /\ call' \in [Threads -> Call]
           /\ acked' \subseteq Jobs
           /\ mem' \in [Jobs -> StoredJob] /\ db' \subseteq Operation
<1>1. mem' \in [Jobs -> StoredJob]
  <2>1. mem[j] \in StoredJob
    BY DEF TypeOK
  <2>2. [mem[j] EXCEPT !.status = "failed", !.error = "timeout"] \in StoredJob
    BY <2>1 DEF StoredJob, Ended
  <2>3. QED
    BY <2>2 DEF TypeOK, TimeoutHandler
<1>2. db' \subseteq Operation
  BY UpdateType DEF TimeoutHandler, Procs
<1>3. QED
  BY <1>1, <1>2, GotoType DEF TimeoutHandler

LEMMA CancelHandlerType ==
    ASSUME TypeOK, NEW j \in Jobs, NEW ops \in SUBSET Operation,
           CancelHandler(j, ops)
    PROVE  /\ run' \in [Jobs -> RunTask] /\ call' \in [Threads -> Call]
           /\ acked' \subseteq Jobs
           /\ mem' \in [Jobs -> StoredJob] /\ db' \subseteq Operation
<1>1. mem' \in [Jobs -> StoredJob]
  <2>1. mem[j] \in StoredJob
    BY DEF TypeOK
  <2> DEFINE m == IF mem[j].status \in Open
                  THEN [mem[j] EXCEPT !.status = "failed", !.error = "shutdown"]
                  ELSE mem[j]
  <2>2. m \in StoredJob /\ [m EXCEPT !.webhook = "failed"] \in StoredJob
    BY <2>1 DEF StoredJob, Ended
  <2>3. QED
    BY <2>2 DEF TypeOK, CancelHandler
<1>2. db' \subseteq Operation
  BY UpdateType DEF CancelHandler, Procs
<1>3. PICK p \in {"save", "hook"} : Goto(j, "cancel", p)
  BY DEF CancelHandler
<1>4. QED
  BY <1>1, <1>2, <1>3, GotoType

LEMMA LeaveType ==
    ASSUME TypeOK, NEW j \in Jobs, NEW e, NEW ops \in SUBSET Operation,
           Leave(j, e, ops)
    PROVE  /\ run' \in [Jobs -> RunTask] /\ call' \in [Threads -> Call]
           /\ acked' \subseteq Jobs /\ slots' \subseteq Jobs
           /\ mem' \in [Jobs -> StoredJob] /\ db' \subseteq Operation
<1>1. slots' \subseteq Jobs
  BY DEF Leave, TypeOK
<1>2. CASE CancelHandler(j, ops)
  BY <1>1, <1>2, CancelHandlerType
<1>3. CASE TimeoutHandler(j, ops)
  BY <1>1, <1>3, TimeoutHandlerType
<1>4. CASE Goto(j, "body", "hook") /\ db' = ops /\ UNCHANGED mem
  BY <1>1, <1>4, GotoType DEF TypeOK
<1>5. CASE Finish(j) /\ db' = ops /\ UNCHANGED mem
  BY <1>1, <1>5, FinishType DEF TypeOK
<1>6. QED
  BY <1>2, <1>3, <1>4, <1>5 DEF Leave

-----------------------------------------------------------------------------
(* Every action preserves the types. *)

\* Elementary changes to a job record or to the state of a run task.
LEMMA JobChanges ==
    ASSUME NEW s \in StoredJob
    PROVE  /\ \A t \in Open \union Ended : [s EXCEPT !.status = t] \in StoredJob
           /\ [s EXCEPT !.status = "running", !.error = "none"] \in StoredJob
           /\ [s EXCEPT !.status = "failed", !.error = "argus"] \in StoredJob
           /\ [s EXCEPT !.cancelRequested = TRUE, !.status = "cancelled",
                        !.error = "cancelled"] \in StoredJob
           /\ [s EXCEPT !.completed = @ + 1] \in StoredJob
           /\ \A n \in Nat : [s EXCEPT !.completed = n] \in StoredJob
           /\ \A h \in {"sent", "failed"} : [s EXCEPT !.webhook = h] \in StoredJob
<1>1. /\ \A t \in Open \union Ended : [s EXCEPT !.status = t] \in StoredJob
      /\ [s EXCEPT !.status = "running", !.error = "none"] \in StoredJob
      /\ [s EXCEPT !.status = "failed", !.error = "argus"] \in StoredJob
  BY DEF StoredJob, Open, Ended
<1>2. [s EXCEPT !.cancelRequested = TRUE, !.status = "cancelled",
                !.error = "cancelled"] \in StoredJob
  BY DEF StoredJob, Open, Ended
<1>3. /\ [s EXCEPT !.completed = @ + 1] \in StoredJob
      /\ \A n \in Nat : [s EXCEPT !.completed = n] \in StoredJob
      /\ \A h \in {"sent", "failed"} : [s EXCEPT !.webhook = h] \in StoredJob
  BY DEF StoredJob
<1>4. QED
  BY <1>1, <1>2, <1>3

LEMMA RunChanges ==
    ASSUME NEW r \in RunTask
    PROVE  /\ \A p \in {"begin", "gather", "drain", "final", "hookSave"} :
                 [r EXCEPT !.pc = p] \in RunTask
           /\ \A e \in {"cancel", "error"} : [r EXCEPT !.exc = e] \in RunTask
           /\ \A x \in {"timeout", "cancel"} :
                 [r EXCEPT !.cause = @ \union {x}, !.intr = TRUE] \in RunTask
BY DEF RunTask

LEMMA StorageType ==
    ASSUME TypeOK, Storage
    PROVE  TypeOK'
<1>1. PICK o \in db : StartOp(o) \/ ApplyUpdate(o) \/ ApplyAppend(o)
  BY DEF Storage
<1>2. o \in Operation
  BY DEF TypeOK
<1>3. CASE StartOp(o)
  <2>1. o.job \in Jobs /\ mem[o.job] \in StoredJob
    BY <1>2 DEF TypeOK, Operation
  <2>2. [o EXCEPT !.stage = "started",
                  !.val = IF o.kind = "update" THEN mem[o.job] ELSE @]
            \in Operation
    BY <1>2, <2>1 DEF Operation
  <2>3. db' \subseteq Operation
    BY <1>3, <2>2 DEF StartOp, TypeOK
  <2>4. QED
    BY <1>3, <2>3 DEF StartOp, TypeOK, env
<1>4. CASE ApplyUpdate(o)
  <2>1. repo' \in [Jobs -> StoredJob]
    BY <1>2, <1>4 DEF ApplyUpdate, TypeOK, Operation
  <2>2. QED
    BY <1>4, <2>1 DEF ApplyUpdate, TypeOK, env
<1>5. CASE ApplyAppend(o)
  <2>1. rows' \in [Jobs -> [Seqs -> Items \union {NoItem}]]
    <3>1. o.item \in Items \union {NoItem}
      BY <1>2 DEF Operation
    <3>2. \A f \in [Seqs -> Items \union {NoItem}] :
             [f EXCEPT ![o.seq] = o.item] \in [Seqs -> Items \union {NoItem}]
      BY <3>1
    <3>3. [rows EXCEPT ![o.job][o.seq] = o.item]
             \in [Jobs -> [Seqs -> Items \union {NoItem}]]
      BY <3>2 DEF TypeOK
    <3>4. QED
      BY <1>5, <3>3 DEF ApplyAppend, TypeOK
  <2>2. wk' \in [Jobs -> [Workers -> Worker]]
    <3>1. \A s \in Worker : [s EXCEPT !.pc = "dup"] \in Worker
      BY DEF Worker
    <3>2. \A f \in [Workers -> Worker] :
             [f EXCEPT ![o.own[2]].pc = "dup"] \in [Workers -> Worker]
      BY <3>1
    <3>3. [wk EXCEPT ![o.job][o.own[2]].pc = "dup"]
             \in [Jobs -> [Workers -> Worker]]
      BY <3>2 DEF TypeOK
    <3>4. QED
      BY <1>5, <3>3 DEF ApplyAppend, TypeOK
  <2>3. QED
    BY <1>5, <2>1, <2>2 DEF ApplyAppend, TypeOK, env
<1>6. QED
  BY <1>1, <1>3, <1>4, <1>5

LEMMA RunTasksType ==
    ASSUME TypeOK, RunTasks
    PROVE  TypeOK'
<1>1. PICK j \in Jobs :
         \/ StartJob(j) \/ StartWorkers(j) \/ Gathered(j) \/ Drain(j)
         \/ Drained(j) \/ Executed(j) \/ Saved(j) \/ Post(j) \/ Posted(j)
         \/ Interrupt(j) \/ InterruptGather(j)
  BY DEF RunTasks
<1>2. mem[j] \in StoredJob /\ run[j] \in RunTask
  BY DEF TypeOK
<1>3. Update(j, j) \in Operation
  BY UpdateType DEF Procs
<1>4. CASE StartJob(j)
  <2>1. mem' \in [Jobs -> StoredJob]
    BY <1>2, <1>4, JobChanges DEF StartJob, TypeOK
  <2>2. run' \in [Jobs -> RunTask]
    BY <1>2, <1>4, RunChanges DEF StartJob, TypeOK
  <2>3. QED
    BY <1>3, <1>4, <2>1, <2>2 DEF StartJob, TypeOK, env
<1>5. CASE StartWorkers(j)
  <2>1. run' \in [Jobs -> RunTask]
    BY <1>2, <1>5, RunChanges DEF StartWorkers, TypeOK
  <2>2. wk' \in [Jobs -> [Workers -> Worker]]
    BY <1>5 DEF StartWorkers, TypeOK, Worker, Off
  <2>3. QED
    BY <1>5, <2>1, <2>2 DEF StartWorkers, TypeOK, env
<1>6. CASE Gathered(j)
  <2>1. mem' \in [Jobs -> StoredJob]
    BY <1>2, <1>6, JobChanges DEF Gathered, TypeOK, Ended
  <2>2. run' \in [Jobs -> RunTask]
    BY <1>2, <1>6, RunChanges DEF Gathered, TypeOK
  <2>3. QED
    BY <1>3, <1>6, <2>1, <2>2 DEF Gathered, TypeOK, env
<1>7. CASE Drain(j)
  <2>1. run' \in [Jobs -> RunTask]
    BY <1>2, <1>7, RunChanges DEF Drain, TypeOK
  <2>2. QED
    BY <1>7, <2>1, CancelWorkersType DEF Drain, TypeOK, env
<1>8. CASE Drained(j)
  <2>1. mem' \in [Jobs -> StoredJob]
    BY <1>2, <1>8, JobChanges DEF Drained, TypeOK, Ended
  <2>2. run' \in [Jobs -> RunTask]
    BY <1>2, <1>8, RunChanges DEF Drained, TypeOK
  <2>3. QED
    BY <1>3, <1>8, <2>1, <2>2 DEF Drained, TypeOK, env
<1>9. CASE Executed(j)
  <2>1. db \in SUBSET Operation
    BY DEF TypeOK
  <2>2. QED
    BY <1>9, <2>1, LeaveType DEF Executed, TypeOK, env
<1>10. CASE Saved(j)
  <2>1. CASE Goto(j, "timeout", "hook")
    BY <1>10, <2>1, GotoType DEF Saved, TypeOK, env
  <2>2. CASE Finish(j)
    BY <1>10, <2>2, FinishType DEF Saved, TypeOK, env
  <2>3. QED
    BY <1>10, <2>1, <2>2 DEF Saved
<1>11. CASE Post(j)
  <2>1. mem' \in [Jobs -> StoredJob]
    <3>1. \A h \in {"sent", "failed"} :
             [mem EXCEPT ![j].webhook = h] \in [Jobs -> StoredJob]
      BY <1>2, JobChanges DEF TypeOK
    <3>2. mem' = mem \/ \E h \in {"sent", "failed"} :
                            mem' = [mem EXCEPT ![j].webhook = h]
      BY <1>11 DEF Post
    <3>3. QED
      BY <3>1, <3>2 DEF TypeOK
  <2>2. run' \in [Jobs -> RunTask]
    <3>1. ASSUME run[j].attempt < MaxAttempts
          PROVE  [run EXCEPT ![j].attempt = @ + 1] \in [Jobs -> RunTask]
      <4>1. run[j].attempt + 1 \in 1 .. MaxAttempts
        BY <1>2, <3>1, SizesAssumption DEF RunTask
      <4>2. [run[j] EXCEPT !.attempt = @ + 1] \in RunTask
        BY <1>2, <4>1 DEF RunTask
      <4>3. QED
        BY <4>2 DEF TypeOK
    <3>2. [run EXCEPT ![j].pc = "hookSave"] \in [Jobs -> RunTask]
      BY <1>2, RunChanges DEF TypeOK
    <3>3. QED
      BY <1>11, <3>1, <3>2 DEF Post
  <2>3. QED
    BY <1>3, <1>11, <2>1, <2>2 DEF Post, TypeOK, env
<1>12. CASE Posted(j)
  <2>1. CASE Goto(j, "cancel", "save") /\ db' = db \union {Update(j, j)}
    BY <1>3, <1>12, <2>1, GotoType DEF Posted, TypeOK, env
  <2>2. CASE Finish(j) /\ UNCHANGED db
    BY <1>12, <2>2, FinishType DEF Posted, TypeOK, env
  <2>3. QED
    BY <1>12, <2>1, <2>2 DEF Posted
<1>13. CASE Interrupt(j)
  <2>1. stray' \subseteq [job: Jobs, val: StoredJob]
    BY <1>2, <1>13 DEF Interrupt, TypeOK
  <2>2. Abandon({j}) \in SUBSET Operation
    BY AbandonType
  <2>3. /\ run' \in [Jobs -> RunTask] /\ call' \in [Threads -> Call]
        /\ acked' \subseteq Jobs /\ slots' \subseteq Jobs
        /\ mem' \in [Jobs -> StoredJob] /\ db' \subseteq Operation
    <3>1. CASE Leave(j, "cancel", Abandon({j}))
      BY <2>2, <3>1, LeaveType
    <3>2. CASE CancelHandler(j, Abandon({j})) /\ UNCHANGED slots
      BY <2>2, <3>2, CancelHandlerType DEF TypeOK
    <3>3. CASE /\ Finish(j) /\ db' = Abandon({j})
               /\ UNCHANGED <<mem, slots>>
      BY <2>2, <3>3, FinishType DEF TypeOK
    <3>4. CASE Finish(j) /\ db' = Detach(j) /\ UNCHANGED <<mem, slots>>
      BY <3>4, FinishType, DetachType DEF TypeOK
    <3>5. QED
      BY <1>13, <3>1, <3>2, <3>3, <3>4 DEF Interrupt
  <2>4. QED
    BY <1>13, <2>1, <2>3 DEF Interrupt, TypeOK, env
<1>14. CASE InterruptGather(j)
  <2>1. run' \in [Jobs -> RunTask]
    <3>1. \A p \in {run[j].pc, "cancelling"}, e \in {run[j].exc, "cancel"} :
             [run[j] EXCEPT !.intr = FALSE, !.pc = p, !.exc = e] \in RunTask
      BY <1>2 DEF RunTask
    <3>2. QED
      BY <1>14, <3>1 DEF InterruptGather, TypeOK
  <2>2. CASE CancelWorkers(j)
    BY <1>14, <2>1, <2>2, CancelWorkersType
       DEF InterruptGather, TypeOK, env
  <2>3. CASE UNCHANGED <<wk, lock, db>>
    BY <1>14, <2>1, <2>3 DEF InterruptGather, TypeOK, env
  <2>4. QED
    BY <1>14, <2>2, <2>3 DEF InterruptGather
<1>15. QED
  BY <1>1, <1>4, <1>5, <1>6, <1>7, <1>8, <1>9, <1>10, <1>11, <1>12, <1>13,
     <1>14

LEMMA WorkerTasksType ==
    ASSUME TypeOK, WorkerTasks
    PROVE  TypeOK'
<1>1. PICK j \in Jobs, w \in Workers :
         \/ Take(j, w) \/ Collected(j, w) \/ Persist(j, w) \/ Appended(j, w)
         \/ Counted(j, w) \/ Duplicate(j, w) \/ Die(j, w)
  BY DEF WorkerTasks
<1>2. mem[j] \in StoredJob /\ run[j] \in RunTask /\ wk[j][w] \in Worker
  BY DEF TypeOK
<1>3. ASSUME NEW s \in Worker, SetWorker(j, w, s)
      PROVE  wk' \in [Jobs -> [Workers -> Worker]]
  <2>1. \A f \in [Workers -> Worker] : [f EXCEPT ![w] = s] \in [Workers -> Worker]
    OBVIOUS
  <2>2. QED
    BY <1>3, <2>1 DEF SetWorker, TypeOK
<1>4. /\ Off \in Worker /\ [Off EXCEPT !.pc = "next"] \in Worker
      /\ \A i \in Items : [Off EXCEPT !.pc = "collect", !.item = i] \in Worker
      /\ \A p \in {"lock", "append", "count"} :
            [wk[j][w] EXCEPT !.pc = p] \in Worker
  BY <1>2 DEF Off, Worker
<1>5. \A e \in {"cancel", "error"} :
         [run EXCEPT ![j].exc = FirstExc(j, e)] \in [Jobs -> RunTask]
  BY <1>2 DEF TypeOK, RunTask, FirstExc
<1>6. CASE Take(j, w)
  <2>1. CASE \E i \in run[j].left :
                /\ run' = [run EXCEPT ![j].left = @ \ {i}]
                /\ SetWorker(j, w, [Off EXCEPT !.pc = "collect", !.item = i])
    <3>1. PICK i \in run[j].left :
                /\ run' = [run EXCEPT ![j].left = @ \ {i}]
                /\ SetWorker(j, w, [Off EXCEPT !.pc = "collect", !.item = i])
      BY <2>1
    <3>2. i \in Items
      BY <1>2 DEF RunTask
    <3>3. [run[j] EXCEPT !.left = @ \ {i}] \in RunTask
      BY <1>2 DEF RunTask
    <3>4. run' \in [Jobs -> RunTask]
      BY <3>1, <3>3 DEF TypeOK
    <3>5. wk' \in [Jobs -> [Workers -> Worker]]
      BY <1>3, <1>4, <3>1, <3>2
    <3>6. QED
      BY <1>6, <3>4, <3>5 DEF Take, TypeOK, env
  <2>2. CASE SetWorker(j, w, Off) /\ UNCHANGED run
    BY <1>3, <1>4, <1>6, <2>2 DEF Take, TypeOK, env
  <2>3. QED
    BY <1>6, <2>1, <2>2 DEF Take
<1>7. CASE Collected(j, w)
  <2>1. run' \in [Jobs -> RunTask]
    <3> DEFINE n == IF run[j].argus < ArgusLimit THEN run[j].argus + 1
                    ELSE run[j].argus
    <3>1. n \in 0 .. ArgusLimit /\ 0 \in 0 .. ArgusLimit
      BY <1>2, SizesAssumption DEF RunTask
    <3> HIDE DEF n
    <3>2. [run EXCEPT ![j].argus = 0] \in [Jobs -> RunTask]
      BY <1>2, <3>1 DEF TypeOK, RunTask
    <3>3. [run EXCEPT ![j].argus = n, ![j].stop = @ \/ n = ArgusLimit]
            \in [Jobs -> RunTask]
      <4>1. [run[j] EXCEPT !.argus = n, !.stop = @ \/ n = ArgusLimit] \in RunTask
        BY <1>2, <3>1 DEF RunTask
      <4>2. QED
        BY <4>1 DEF TypeOK
    <3>4. \/ run' = [run EXCEPT ![j].argus = 0]
          \/ run' = run
          \/ run' = [run EXCEPT ![j].argus = n, ![j].stop = @ \/ n = ArgusLimit]
      BY <1>7, SizesAssumption DEF Collected, n
    <3>5. QED
      BY <3>2, <3>3, <3>4 DEF TypeOK
  <2>2. wk' \in [Jobs -> [Workers -> Worker]]
    BY <1>3, <1>4, <1>7 DEF Collected
  <2>3. QED
    BY <1>7, <2>1, <2>2 DEF Collected, TypeOK, env
<1>8. CASE Persist(j, w)
  <2>1. Append(j, w, mem[j].completed, wk[j][w].item) \in Operation
    BY <1>2, ValueTypes DEF Append, Operation, StoredJob, Worker, Procs
  <2>2. wk' \in [Jobs -> [Workers -> Worker]]
    BY <1>3, <1>4, <1>8 DEF Persist
  <2>3. QED
    BY <1>8, <2>1, <2>2 DEF Persist, TypeOK, env
<1>9. CASE Appended(j, w)
  <2>1. Update(j, <<j, w>>) \in Operation
    BY UpdateType DEF Procs
  <2>2. mem' \in [Jobs -> StoredJob]
    BY <1>2, <1>9, JobChanges DEF Appended, TypeOK
  <2>3. wk' \in [Jobs -> [Workers -> Worker]]
    BY <1>3, <1>4, <1>9 DEF Appended
  <2>4. QED
    BY <1>9, <2>1, <2>2, <2>3 DEF Appended, TypeOK, env
<1>10. CASE Counted(j, w)
  BY <1>3, <1>4, <1>5, <1>10 DEF Counted, TypeOK, env
<1>11. CASE Duplicate(j, w)
  BY <1>3, <1>4, <1>5, <1>11 DEF Duplicate, TypeOK, env
<1>12. CASE Die(j, w)
  BY <1>3, <1>4, <1>5, <1>12 DEF Die, TypeOK, env
<1>13. QED
  BY <1>1, <1>6, <1>7, <1>8, <1>9, <1>10, <1>11, <1>12

LEMMA StraysType ==
    ASSUME TypeOK, Strays
    PROVE  TypeOK'
<1>1. PICK r \in stray : StrayPost(r)
  BY DEF Strays
<1>2. r.job \in Jobs /\ r.val \in StoredJob
  BY DEF TypeOK
<1>3. PICK status \in {"sent", "failed"} :
         db' = db \union {[Update(r.job, NoProc) EXCEPT
                             !.stage = "started",
                             !.val = [r.val EXCEPT !.webhook = status]]}
  BY <1>1 DEF StrayPost
<1>4. db' \subseteq Operation
  <2>1. [r.val EXCEPT !.webhook = status] \in StoredJob
    BY <1>2, JobChanges
  <2>2. Update(r.job, NoProc) \in Operation
    BY <1>2, UpdateType
  <2>3. [Update(r.job, NoProc) EXCEPT !.stage = "started",
                                !.val = [r.val EXCEPT !.webhook = status]]
           \in Operation
    BY <2>1, <2>2 DEF Operation
  <2>4. QED
    BY <1>3, <2>3 DEF TypeOK
<1>5. QED
  BY <1>1, <1>4 DEF StrayPost, TypeOK, env

\* A call in progress names a job.
LEMMA CallTypes ==
    ASSUME TypeOK, NEW c \in Threads, call[c].pc # "idle"
    PROVE  /\ call[c].job \in Jobs
           /\ call[c].seen \in StoredJob
           /\ call[c].done \subseteq Items
           /\ \A p \in {"read", "check", "insert", "launch", "rows", "build",
                        "save", "join"} : [call[c] EXCEPT !.pc = p] \in Call
           /\ \A p \in {"check", "save"}, s \in StoredJob :
                 [call[c] EXCEPT !.pc = p, !.seen = s] \in Call
           /\ \A d \in SUBSET Items, n \in Nat :
                 [call[c] EXCEPT !.pc = "build", !.done = d,
                                 !.seen.completed = n] \in Call
<1> DEFINE Busy == [op: {"submit", "cancel", "resume"}, job: Jobs,
                    pc: {"lock", "read", "check", "insert", "launch", "rows",
                         "build", "save", "join"},
                    seen: StoredJob, done: SUBSET Items]
<1>1. call[c] \in Busy
  BY DEF TypeOK, Call, NoCall
<1>2. call[c].seen \in StoredJob
  BY <1>1
<1>3. \A n \in Nat : [call[c].seen EXCEPT !.completed = n] \in StoredJob
  BY <1>2, JobChanges
<1>4. \A p \in {"read", "check", "insert", "launch", "rows", "build", "save",
                "join"} : [call[c] EXCEPT !.pc = p] \in Busy
  BY <1>1
<1>5. \A p \in {"check", "save"}, s \in StoredJob :
        [call[c] EXCEPT !.pc = p, !.seen = s] \in Busy
  BY <1>1
<1>6. \A d \in SUBSET Items, n \in Nat :
        [call[c] EXCEPT !.pc = "build", !.done = d, !.seen.completed = n]
           \in Busy
  BY <1>1, <1>3
<1>7. call[c].job \in Jobs /\ call[c].done \subseteq Items
  BY <1>1
<1>8. Busy \subseteq Call
  BY DEF Call
<1> HIDE DEF Busy
<1>9. QED
  BY <1>2, <1>4, <1>5, <1>6, <1>7, <1>8

LEMMA LaunchType ==
    ASSUME TypeOK, NEW j \in Jobs, NEW stored \in StoredJob,
           NEW pending \in SUBSET Items, Launch(j, stored, pending)
    PROVE  mem' \in [Jobs -> StoredJob] /\ run' \in [Jobs -> RunTask]
<1>1. [Idle EXCEPT !.pc = "sem", !.left = pending] \in RunTask
  BY ValueTypes DEF RunTask
<1>2. QED
  BY <1>1 DEF Launch, TypeOK

LEMMA CallTasksType ==
    ASSUME TypeOK, CallTasks
    PROVE  TypeOK'
<1>1. PICK c \in Threads :
         \/ Acquire(c) \/ FindKey(c) \/ CreateJob(c) \/ LaunchNew(c)
         \/ ReadJob(c) \/ CheckCancel(c) \/ CancelTask(c) \/ CheckResume(c)
         \/ ReadRows(c) \/ ResetJob(c) \/ LaunchResumed(c)
  BY DEF CallTasks
<1>2. call[c].pc # "idle"
  BY <1>1 DEF Acquire, FindKey, CreateJob, LaunchNew, ReadJob, CheckCancel,
     CancelTask, CheckResume, ReadRows, ResetJob, LaunchResumed
<1> DEFINE j == call[c].job
<1>3. j \in Jobs /\ call[c].seen \in StoredJob /\ call[c].done \subseteq Items
  BY <1>2, CallTypes
<1>4. ASSUME NEW r \in Call, SetCall(c, r)
      PROVE  call' \in [Threads -> Call]
  BY <1>4 DEF SetCall, TypeOK
<1>5. ASSUME Respond(c)
      PROVE  /\ call' \in [Threads -> Call]
             /\ lock' \in Threads \union (Jobs \X Workers) \union {NoProc}
  BY <1>4, <1>5, ValueTypes DEF Respond
<1>6. \A p \in {"read", "check", "insert", "launch", "rows", "build", "save",
                "join"} : [call[c] EXCEPT !.pc = p] \in Call
  BY <1>2, CallTypes
<1>7. Update(j, c) \in Operation
  BY <1>3, UpdateType DEF Procs
<1>8. CASE Acquire(c)
  BY <1>4, <1>6, <1>8 DEF Acquire, TypeOK, env
<1>9. CASE FindKey(c)
  BY <1>4, <1>5, <1>6, <1>9 DEF FindKey, TypeOK, env
<1>10. CASE CreateJob(c)
  <2>1. repo' \in [Jobs -> StoredJob]
    BY <1>3, <1>10, ValueTypes DEF CreateJob, TypeOK
  <2>2. QED
    BY <1>4, <1>5, <1>6, <1>10, <2>1 DEF CreateJob, TypeOK, env
<1>11. CASE LaunchNew(c)
  <2>1. mem' \in [Jobs -> StoredJob] /\ run' \in [Jobs -> RunTask]
    BY <1>3, <1>11, LaunchType, ValueTypes DEF LaunchNew
  <2>2. QED
    BY <1>5, <1>11, <2>1 DEF LaunchNew, TypeOK, env
<1>12. CASE ReadJob(c)
  <2>1. [call[c] EXCEPT !.pc = "check", !.seen = repo[j]] \in Call
    BY <1>2, <1>3, CallTypes DEF TypeOK
  <2>2. call' \in [Threads -> Call]
    BY <1>4, <1>12, <2>1 DEF ReadJob
  <2>3. QED
    BY <1>12, <2>2 DEF ReadJob, TypeOK, env
<1>13. CASE CheckCancel(c)
  <2>1. CASE Respond(c) /\ UNCHANGED <<mem, db>>
    BY <1>5, <1>13, <2>1 DEF CheckCancel, TypeOK, env
  <2>2. CASE /\ mem' = [mem EXCEPT ![j].cancelRequested = TRUE,
                                   ![j].status = "cancelled",
                                   ![j].error = "cancelled"]
             /\ db' = db \union {Update(j, c)}
             /\ SetCall(c, [call[c] EXCEPT !.pc = "save"])
             /\ UNCHANGED lock
    <3>1. mem' \in [Jobs -> StoredJob]
      <4>1. mem[j] \in StoredJob
        BY <1>3 DEF TypeOK
      <4>2. [mem[j] EXCEPT !.cancelRequested = TRUE, !.status = "cancelled",
                           !.error = "cancelled"] \in StoredJob
        BY <4>1, JobChanges
      <4>3. QED
        BY <2>2, <4>2 DEF TypeOK
    <3>2. QED
      BY <1>4, <1>6, <1>7, <1>13, <2>2, <3>1 DEF CheckCancel, TypeOK, env
  <2>3. QED
    BY <1>13, <2>1, <2>2 DEF CheckCancel
<1>14. CASE CancelTask(c)
  <2>1. run' \in [Jobs -> RunTask]
    <3>1. [run[j] EXCEPT !.cause = @ \union {"cancel"}, !.intr = TRUE] \in RunTask
      BY <1>3, RunChanges DEF TypeOK
    <3>2. QED
      BY <1>14, <3>1 DEF CancelTask, TypeOK
  <2>2. call' \in [Threads -> Call]
    BY <1>4, <1>6, <1>14, ValueTypes DEF CancelTask
  <2>3. QED
    BY <1>3, <1>14, <2>1, <2>2 DEF CancelTask, TypeOK, env
<1>15. CASE CheckResume(c)
  BY <1>4, <1>5, <1>6, <1>15 DEF CheckResume, TypeOK, env
<1>16. CASE ReadRows(c)
  <2>1. Done(j) \in SUBSET Items
    BY <1>3 DEF TypeOK, Done, Filled
  <2>2. Cardinality(Filled(j)) \in Nat
    BY FilledFinite
  <2>3. [call[c] EXCEPT !.pc = "build", !.done = Done(j),
                        !.seen.completed = Cardinality(Filled(j))] \in Call
    BY <1>2, <2>1, <2>2, CallTypes
  <2>4. call' \in [Threads -> Call]
    BY <1>4, <1>16, <2>3 DEF ReadRows
  <2>5. UNCHANGED <<env, repo, rows, db, mem, run, wk, slots, lock, stray, acked>>
    BY <1>16 DEF ReadRows
  <2>6. QED
    BY <2>4, <2>5 DEF TypeOK, env
<1>17. CASE ResetJob(c)
  <2> DEFINE stored == [Fresh(j) EXCEPT !.completed = call[c].seen.completed]
  <2>1. stored \in StoredJob
    <3>1. Fresh(j) \in StoredJob /\ call[c].seen.completed \in Nat
      BY <1>3, ValueTypes DEF StoredJob
    <3>2. QED
      BY <3>1, JobChanges
  <2> HIDE DEF stored
  <2>2. [Update(j, c) EXCEPT !.stage = "started", !.val = stored] \in Operation
    BY <1>7, <2>1 DEF Operation
  <2>3. [call[c] EXCEPT !.pc = "save", !.seen = stored] \in Call
    BY <1>2, <2>1, CallTypes
  <2>4. call' \in [Threads -> Call]
    BY <1>4, <1>17, <2>3 DEF ResetJob, stored
  <2>5. db' \subseteq Operation
    BY <1>17, <2>2 DEF ResetJob, stored, TypeOK
  <2>6. QED
    BY <1>17, <2>4, <2>5 DEF ResetJob, TypeOK, env
<1>18. CASE LaunchResumed(c)
  <2>1. mem' \in [Jobs -> StoredJob] /\ run' \in [Jobs -> RunTask]
    BY <1>3, <1>18, LaunchType DEF LaunchResumed
  <2>2. QED
    BY <1>5, <1>18, <2>1 DEF LaunchResumed, TypeOK, env
<1>19. QED
  BY <1>1, <1>8, <1>9, <1>10, <1>11, <1>12, <1>13, <1>14, <1>15, <1>16, <1>17,
     <1>18

LEMMA LoseMemoryType ==
    ASSUME TypeOK, LoseMemory, stops' \in Nat
    PROVE  TypeOK'
<1>1. /\ mem' \in [Jobs -> StoredJob] /\ run' \in [Jobs -> RunTask]
      /\ wk' \in [Jobs -> [Workers -> Worker]]
      /\ call' \in [Threads -> Call]
  BY ValueTypes DEF LoseMemory
<1>2. reader' \in [Jobs -> Reader]
  <2>1. \A r \in Reader : [r EXCEPT !.pc = "idle", !.seen = NoJob] \in Reader
    BY ValueTypes DEF Reader
  <2>2. QED
    BY <2>1 DEF LoseMemory, TypeOK
<1>3. QED
  BY <1>1, <1>2 DEF LoseMemory, TypeOK

LEMMA RestartType ==
    ASSUME TypeOK, Restart
    PROVE  TypeOK'
<1>1. CASE Closed
  BY <1>1, LoseMemoryType DEF Closed, TypeOK
<1>2. CASE Recover
  <2>1. \A j \in Jobs : Recovered(j) \in StoredJob
    <3>1. SUFFICES ASSUME NEW j \in Jobs
                   PROVE  Recovered(j) \in StoredJob
      OBVIOUS
    <3> DEFINE n == Cardinality(Filled(j))
    <3>2. repo[j] \in StoredJob /\ n \in Nat
      BY FilledFinite DEF TypeOK
    <3> HIDE DEF n
    <3>3. [repo[j] EXCEPT !.status = "failed", !.error = "restart",
                          !.completed = n,
                          !.webhook = IF @ = "pending" THEN "failed" ELSE @]
             \in StoredJob
      BY <3>2 DEF StoredJob, Ended
    <3>4. QED
      BY <3>2, <3>3 DEF Recovered, n
  <2>2. repo' \in [Jobs -> StoredJob]
    BY <1>2, <2>1 DEF Recover
  <2>3. QED
    BY <1>2, <2>2 DEF Recover, TypeOK
<1>3. CASE Ready
  BY <1>3 DEF Ready, TypeOK
<1>4. ASSUME NEW j \in Jobs, BootResume(j)
      PROVE  TypeOK'
  <2>1. [NoCall EXCEPT !.op = "resume", !.job = j, !.pc = "lock"] \in Call
    BY ValueTypes DEF NoCall, Call
  <2>2. call' \in [Threads -> Call]
    BY <1>4, <2>1 DEF BootResume, SetCall, TypeOK
  <2>3. QED
    BY <1>4, <2>2 DEF BootResume, TypeOK
<1>5. QED
  BY <1>1, <1>2, <1>3, <1>4 DEF Restart

LEMMA ClientsType ==
    ASSUME TypeOK, Clients
    PROVE  TypeOK'
<1>1. ASSUME NEW c \in Callers, NEW j \in Jobs, NEW op \in Ops,
             Request(c, op, j)
      PROVE  TypeOK'
  <2>1. op \in {"submit", "cancel", "resume"}
    BY SizesAssumption
  <2>2. [NoCall EXCEPT !.op = op, !.job = j, !.pc = "lock"] \in Call
    BY <2>1, ValueTypes DEF NoCall, Call
  <2>3. call' \in [Threads -> Call]
    BY <1>1, <2>2 DEF Request, SetCall, TypeOK, Threads
  <2>4. reader' \in [Jobs -> Reader]
    <3>1. reader[j] \in Reader
      BY DEF TypeOK
    <3>2. [NewReader EXCEPT !.offset = reader[j].offset] \in Reader
      BY <3>1, ValueTypes DEF NewReader, Reader
    <3>3. QED
      BY <1>1, <3>2 DEF Request, TypeOK
  <2>5. calls' \in Nat
    BY <1>1 DEF Request, TypeOK
  <2>6. QED
    BY <1>1, <2>3, <2>4, <2>5 DEF Request, TypeOK
<1>2. ASSUME NEW j \in Readers, PollJob(j)
      PROVE  TypeOK'
  <2>1. j \in Jobs
    BY SizesAssumption
  <2>2. reader[j] \in Reader /\ repo[j] \in StoredJob
    BY <2>1 DEF TypeOK
  <2>3. [reader[j] EXCEPT !.pc = "page", !.seen = repo[j]] \in Reader
    BY <2>2 DEF Reader
  <2>4. reader' \in [Jobs -> Reader]
    BY <1>2, <2>3 DEF PollJob, TypeOK
  <2>5. QED
    BY <1>2, <2>4 DEF PollJob, TypeOK
<1>3. ASSUME NEW j \in Readers, PollRows(j)
      PROVE  TypeOK'
  <2>1. j \in Jobs
    BY SizesAssumption
  <2>2. reader[j] \in Reader
    BY <2>1 DEF TypeOK
  <2> DEFINE off == reader[j].offset
             found == Cardinality({n \in Filled(j) : n >= off})
             next == off + IF found < PageLimit THEN found ELSE PageLimit
             closed == ~(next < reader[j].seen.completed
                           \/ reader[j].seen.status \in Open)
  <2>3. off \in Nat /\ found \in Nat
    BY <2>2, FilledFinite DEF Reader
  <2>4. next \in Nat /\ closed \in BOOLEAN
    BY <2>3, SizesAssumption
  <2>5. reader' = [reader EXCEPT ![j] = [pc |-> "idle", offset |-> next,
                                         seen |-> NoJob, closed |-> closed]]
    BY <1>3 DEF PollRows
  <2> HIDE DEF next, closed
  <2>6. reader' \in [Jobs -> Reader]
    BY <2>4, <2>5, ValueTypes DEF TypeOK, Reader
  <2>7. QED
    BY <1>3, <2>6 DEF PollRows, TypeOK
<1>4. QED
  BY <1>1, <1>2, <1>3 DEF Clients

LEMMA EnvironmentType ==
    ASSUME TypeOK, Environment
    PROVE  TypeOK'
<1>1. CASE Clients
  BY <1>1, ClientsType
<1>2. CASE Crash
  BY <1>2, LoseMemoryType DEF Crash, TypeOK
<1>3. CASE Close
  <2>1. run' \in [Jobs -> RunTask]
    <3>1. \A r \in RunTask :
             [r EXCEPT !.cause = @ \union {"cancel"}, !.intr = TRUE] \in RunTask
      BY RunChanges
    <3>2. \A k \in Jobs : run[k] \in RunTask
      BY DEF TypeOK
    <3>3. run' = [k \in Jobs |->
                    IF run[k].pc = "idle" THEN run[k]
                    ELSE [run[k] EXCEPT !.cause = @ \union {"cancel"},
                                        !.intr = TRUE]]
      BY <1>3 DEF Close
    <3>4. QED
      BY <3>1, <3>2, <3>3
  <2>2. stops' \in Nat
    <3>1. stops \in Nat /\ stops' = stops + 1
      BY <1>3 DEF Close, TypeOK
    <3>2. QED
      BY <3>1
  <2>3. /\ mode' = "closing"
        /\ UNCHANGED <<repo, rows, db, mem, wk, slots, lock, call, boot, reader,
                       stray, acked, calls>>
    BY <1>3 DEF Close
  <2>4. QED
    BY <2>1, <2>2, <2>3 DEF TypeOK
<1>4. ASSUME NEW j \in Jobs, Deadline(j)
      PROVE  TypeOK'
  <2>1. run' \in [Jobs -> RunTask]
    <3>1. [run[j] EXCEPT !.cause = @ \union {"timeout"}, !.intr = TRUE] \in RunTask
      BY RunChanges DEF TypeOK
    <3>2. QED
      BY <1>4, <3>1 DEF Deadline, TypeOK
  <2>2. QED
    BY <1>4, <2>1 DEF Deadline, TypeOK, env
<1>5. QED
  BY <1>1, <1>2, <1>3, <1>4 DEF Environment

\* The state of the job manager always has the types declared for it: every
\* operation in flight names a job, every call in progress too, and no
\* counter leaves its range.
THEOREM TypeCorrect == Spec => []TypeOK
<1>1. Init => TypeOK
  <2>1. ASSUME Init
        PROVE  rows \in [Jobs -> [Seqs -> Items \union {NoItem}]]
    BY <2>1 DEF Init
  <2>2. QED
    BY <2>1, ValueTypes DEF Init, TypeOK
<1>2. TypeOK /\ [Next]_vars => TypeOK'
  <2>1. SUFFICES ASSUME TypeOK, [Next]_vars
                 PROVE  TypeOK'
    OBVIOUS
  <2>2. CASE Service
    BY <2>1, <2>2, StorageType, RunTasksType, StraysType, WorkerTasksType,
       CallTasksType, RestartType DEF Service
  <2>3. CASE Environment
    BY <2>1, <2>3, EnvironmentType
  <2>4. CASE UNCHANGED vars
    BY <2>1, <2>4 DEF vars, TypeOK
  <2>5. QED
    BY <2>1, <2>2, <2>3, <2>4 DEF Next
<1>3. QED
  BY <1>1, <1>2, PTL DEF Spec

-----------------------------------------------------------------------------
(***************************************************************************)
(* For every value of the constants: two submissions with one              *)
(* Idempotency-Key store one job.  The unique index guards the insertion;  *)
(* the rest of the argument is that no other write can store a job, that   *)
(* is, that nothing ever works on a job that has not been stored.          *)
(***************************************************************************)

\* The live object, the run task, the workers, the writes, the detached
\* deliveries and the calls are those of stored jobs.
MemKnown == \A j \in Jobs : mem[j].status # "absent" => repo[j] # NoJob

RunKnown == \A j \in Jobs : run[j].pc # "idle" => mem[j].status # "absent"

WorkersKnown ==
    \A j \in Jobs, w \in Workers :
        wk[j][w].pc # "off" => mem[j].status # "absent"

OpKnown(o) ==
    /\ repo[o.job] # NoJob
    /\ o.kind = "append" \/ o.stage = "sent" => mem[o.job].status # "absent"
    /\ o.kind = "update" /\ o.stage = "started" => o.val.status # "absent"

OpsKnown == \A o \in db : OpKnown(o)

StraysKnown ==
    \A r \in stray : repo[r.job] # NoJob /\ r.val.status # "absent"

CallKnown(c) ==
    call[c].pc # "idle" =>
        /\ call[c].op # "submit" => repo[call[c].job] # NoJob
        /\ call[c].pc = "launch" => repo[call[c].job] # NoJob
        /\ call[c].pc \in {"rows", "build"} => call[c].op = "resume"
        /\ call[c].pc = "save" /\ call[c].op = "resume" =>
               call[c].seen.status # "absent"

CallsKnown == \A c \in Threads : CallKnown(c)

BootKnown == \A j \in boot : repo[j] # NoJob

KnownJobs ==
    /\ MemKnown /\ RunKnown /\ WorkersKnown
    /\ OpsKnown /\ StraysKnown /\ CallsKnown /\ BootKnown

\* No document is removed.
RepoKept == \A j \in Jobs : repo[j] # NoJob => repo'[j] # NoJob

MemKept == \A j \in Jobs : mem[j].status # "absent" => mem'[j].status # "absent"

-----------------------------------------------------------------------------
(* What is known stays known while documents and live objects are kept. *)

LEMMA KeptUpdates ==
    ASSUME TypeOK, KnownJobs, RepoKept, MemKept
    PROVE  /\ \A o \in db : OpKnown(o)'
           /\ \A r \in stray : repo'[r.job] # NoJob /\ r.val.status # "absent"
<1>1. \A o \in db : o.job \in Jobs
  BY DEF TypeOK, Operation
<1>2. \A r \in stray : r.job \in Jobs
  BY DEF TypeOK
<1>3. QED
  BY <1>1, <1>2 DEF KnownJobs, OpsKnown, OpKnown, StraysKnown,
                    RepoKept, MemKept

\* A call whose record does not change.
LEMMA KeptCall ==
    ASSUME TypeOK, KnownJobs, RepoKept, NEW c \in Threads, call'[c] = call[c]
    PROVE  CallKnown(c)'
<1>1. call[c].pc # "idle" => call[c].job \in Jobs
  BY CallTypes
<1>2. QED
  BY <1>1 DEF KnownJobs, CallsKnown, CallKnown, RepoKept

\* Operations abandoned or detached by the task of a known job.
LEMMA AbandonKnown ==
    ASSUME TypeOK, KnownJobs, RepoKept, MemKept, NEW S
    PROVE  \A o \in Abandon(S) : OpKnown(o)'
<1>1. \A o \in db : OpKnown(o)' /\ OpKnown([o EXCEPT !.live = FALSE])'
  BY KeptUpdates DEF TypeOK, Operation, OpKnown
<1>2. QED
  BY <1>1 DEF Abandon

LEMMA DetachKnown ==
    ASSUME TypeOK, KnownJobs, RepoKept, MemKept, NEW j \in Jobs
    PROVE  \A o \in Detach(j) : OpKnown(o)'
<1>1. SUFFICES ASSUME NEW q \in Detach(j)
               PROVE  OpKnown(q)'
  OBVIOUS
<1>2. CASE q \in db
  BY <1>2, KeptUpdates
<1>3. CASE \E o \in db :
              q = [o EXCEPT !.own = NoProc, !.stage = "started",
                            !.val = IF o.stage = "sent" THEN mem[o.job] ELSE @]
  <2>1. PICK o \in db :
               q = [o EXCEPT !.own = NoProc, !.stage = "started",
                             !.val = IF o.stage = "sent" THEN mem[o.job] ELSE @]
    BY <1>3
  <2>2. OpKnown(o)' /\ OpKnown(o) /\ o \in Operation
    BY KeptUpdates DEF KnownJobs, OpsKnown, TypeOK
  <2>3. /\ q.kind = o.kind /\ q.job = o.job /\ q.stage = "started"
        /\ q.val = IF o.stage = "sent" THEN mem[o.job] ELSE o.val
    BY <2>1, <2>2 DEF Operation
  <2>4. QED
    BY <2>2, <2>3 DEF OpKnown, Operation
<1>4. QED
  BY <1>2, <1>3 DEF Detach

\* What an action has to show besides: its additions are known.
LEMMA KnownStep ==
    ASSUME TypeOK, KnownJobs, RepoKept, MemKept,
           \A j \in Jobs : \/ mem'[j].status = "absent" \/ repo'[j] # NoJob,
           \A j \in Jobs : run'[j].pc # "idle" =>
               run[j].pc # "idle" \/ mem'[j].status # "absent",
           \A j \in Jobs, w \in Workers : wk'[j][w].pc # "off" =>
               wk[j][w].pc # "off" \/ mem'[j].status # "absent",
           \A o \in db' : o \in db \/ OpKnown(o)',
           \A r \in stray' : \/ r \in stray
                             \/ repo'[r.job] # NoJob /\ r.val.status # "absent",
           \A c \in Threads : call'[c] = call[c] \/ CallKnown(c)',
           \A j \in boot' : j \in boot \/ repo'[j] # NoJob
    PROVE  KnownJobs'
<1>1. MemKnown'
  BY DEF MemKnown
<1>2. RunKnown' /\ WorkersKnown'
  BY DEF KnownJobs, RunKnown, WorkersKnown, MemKept
<1>3. OpsKnown' /\ StraysKnown'
  BY KeptUpdates DEF OpsKnown, StraysKnown
<1>4. CallsKnown'
  BY KeptCall DEF CallsKnown
<1>5. BootKnown'
  BY DEF KnownJobs, BootKnown, RepoKept, TypeOK
<1>6. QED
  BY <1>1, <1>2, <1>3, <1>4, <1>5 DEF KnownJobs

\* The update a task, a worker or a cancel call asks for.
LEMMA NewUpdateKnown ==
    ASSUME NEW j \in Jobs, NEW p, repo'[j] # NoJob, mem'[j].status # "absent"
    PROVE  OpKnown(Update(j, p))'
BY DEF OpKnown, Update

LEMMA StorageKnown ==
    ASSUME TypeOK, KnownJobs, Storage
    PROVE  KnownJobs' /\ RepoKept
<1>1. PICK o \in db : StartOp(o) \/ ApplyUpdate(o) \/ ApplyAppend(o)
  BY DEF Storage
<1>2. o \in Operation /\ o.job \in Jobs
  BY DEF TypeOK, Operation
<1>3. OpKnown(o)
  BY DEF KnownJobs, OpsKnown
<1>4. CASE StartOp(o)
  <2>1. UNCHANGED <<repo, mem, run, wk, stray, call, boot>>
    BY <1>4 DEF StartOp, env
  <2>2. RepoKept /\ MemKept
    BY <2>1 DEF RepoKept, MemKept
  <2> DEFINE q == [o EXCEPT !.stage = "started",
                            !.val = IF o.kind = "update" THEN mem[o.job] ELSE @]
  <2>3. \A p \in db' : p \in db \/ p = q
    BY <1>4 DEF StartOp
  <2>4. /\ q.kind = o.kind /\ q.job = o.job /\ q.stage = "started"
        /\ o.kind = "update" => q.val = mem[o.job]
    BY <1>2 DEF Operation
  <2>5. o.stage = "sent"
    BY <1>4 DEF StartOp
  <2> HIDE DEF q
  <2>6. \A p \in db' : p \in db \/ OpKnown(p)'
    BY <1>3, <2>1, <2>3, <2>4, <2>5 DEF OpKnown
  <2>7. QED
    BY <2>1, <2>2, <2>6, KnownStep DEF KnownJobs, MemKnown
<1>5. CASE ApplyUpdate(o)
  <2>1. /\ UNCHANGED <<mem, run, wk, stray, call, boot>>
        /\ db' \subseteq db
        /\ repo' = [repo EXCEPT ![o.job] = o.val]
    BY <1>5 DEF ApplyUpdate, env
  <2>2. o.val # NoJob
    BY <1>3, <1>5 DEF ApplyUpdate, OpKnown, NoJob
  <2>3. RepoKept /\ MemKept
    BY <2>1, <2>2 DEF RepoKept, MemKept, TypeOK
  <2>4. QED
    BY <2>1, <2>3, KnownStep DEF KnownJobs, MemKnown, RepoKept
<1>6. CASE ApplyAppend(o)
  <2>1. UNCHANGED <<repo, mem, run, stray, call, boot>> /\ db' \subseteq db
    BY <1>6 DEF ApplyAppend, env
  <2>2. RepoKept /\ MemKept
    BY <2>1 DEF RepoKept, MemKept
  <2>3. \A k \in Jobs, w \in Workers : wk'[k][w].pc # "off" =>
            wk[k][w].pc # "off" \/ mem'[k].status # "absent"
    <3>1. CASE UNCHANGED wk
      BY <3>1
    <3>2. CASE wk' = [wk EXCEPT ![o.job][o.own[2]].pc = "dup"]
      <4>1. mem'[o.job].status # "absent"
        BY <1>3, <1>6, <2>1 DEF OpKnown, ApplyAppend
      <4>2. \A k \in Jobs : k # o.job => wk'[k] = wk[k]
        BY <3>2 DEF TypeOK
      <4>3. QED
        BY <4>1, <4>2
    <3>3. QED
      BY <1>6, <3>1, <3>2 DEF ApplyAppend
  <2>4. QED
    BY <2>1, <2>2, <2>3, KnownStep DEF KnownJobs, MemKnown
<1>7. QED
  BY <1>1, <1>4, <1>5, <1>6

\* A step of the run task of a known job, or of its workers.
LEMMA TaskStep ==
    ASSUME TypeOK, KnownJobs, NEW j \in Jobs, mem[j].status # "absent",
           repo' = repo, boot' = boot,
           \A k \in Jobs : mem'[k] = mem[k] \/ (k = j /\ mem'[k].status # "absent"),
           \A k \in Jobs \ {j} : run'[k] = run[k],
           \A k \in Jobs \ {j} : wk'[k] = wk[k],
           \A o \in db' : \/ o \in db \/ \E p : o = Update(j, p)
                          \/ o.kind = "append" /\ o.job = j
                          \/ o \in Detach(j) \/ \E S : o \in Abandon(S),
           \A r \in stray' : r \in stray \/ r = [job |-> j, val |-> mem[j]],
           \A c \in Threads : call'[c] = call[c] \/ call'[c] = NoCall
    PROVE  KnownJobs' /\ RepoKept
<1>1. RepoKept /\ MemKept
  BY DEF RepoKept, MemKept
<1>2. repo'[j] # NoJob /\ mem'[j].status # "absent"
  BY DEF KnownJobs, MemKnown
<1>3. \A o \in db' : o \in db \/ OpKnown(o)'
  <2>1. SUFFICES ASSUME NEW o \in db', o \notin db
                 PROVE  OpKnown(o)'
    OBVIOUS
  <2>2. CASE \E p : o = Update(j, p)
    BY <1>2, <2>2, NewUpdateKnown
  <2>3. CASE o.kind = "append" /\ o.job = j
    BY <1>2, <2>3 DEF OpKnown
  <2>4. CASE o \in Detach(j)
    BY <1>1, <2>4, DetachKnown
  <2>5. CASE \E S : o \in Abandon(S)
    BY <1>1, <2>5, AbandonKnown
  <2>6. QED
    BY <2>1, <2>2, <2>3, <2>4, <2>5
<1>4. \A r \in stray' : \/ r \in stray
                        \/ repo'[r.job] # NoJob /\ r.val.status # "absent"
  BY <1>2
<1>5. \A c \in Threads : call'[c] = call[c] \/ CallKnown(c)'
  BY DEF CallKnown, NoCall
<1>6. \A k \in Jobs : mem'[k].status = "absent" \/ repo'[k] # NoJob
  BY <1>2 DEF KnownJobs, MemKnown
<1>7. /\ \A k \in Jobs : run'[k].pc # "idle" =>
             run[k].pc # "idle" \/ mem'[k].status # "absent"
      /\ \A k \in Jobs, w \in Workers : wk'[k][w].pc # "off" =>
             wk[k][w].pc # "off" \/ mem'[k].status # "absent"
  BY <1>2
<1>8. QED
  BY <1>1, <1>3, <1>4, <1>5, <1>6, <1>7, KnownStep

\* The ends of _execute_job and the handlers of _run_job are such steps.
TaskEffect(j, ops) ==
    /\ \A k \in Jobs : mem'[k] = mem[k] \/ (k = j /\ mem'[k].status # "absent")
    /\ \A k \in Jobs \ {j} : run'[k] = run[k]
    /\ \A o \in db' : o \in ops \/ o = Update(j, j)
    /\ \A c \in Threads : call'[c] = call[c] \/ call'[c] = NoCall

LEMMA FinishEffect ==
    ASSUME TypeOK, NEW j \in Jobs, Finish(j)
    PROVE  /\ \A k \in Jobs \ {j} : run'[k] = run[k]
           /\ \A c \in Threads : call'[c] = call[c] \/ call'[c] = NoCall
BY DEF Finish, TypeOK

LEMMA GotoEffect ==
    ASSUME TypeOK, NEW j \in Jobs, NEW b, NEW p, Goto(j, b, p)
    PROVE  /\ \A k \in Jobs \ {j} : run'[k] = run[k]
           /\ \A c \in Threads : call'[c] = call[c]
BY DEF Goto, TypeOK

LEMMA TimeoutHandlerEffect ==
    ASSUME TypeOK, NEW j \in Jobs, NEW ops, TimeoutHandler(j, ops)
    PROVE  TaskEffect(j, ops)
<1>1. \A k \in Jobs : mem'[k] = mem[k] \/ (k = j /\ mem'[k].status # "absent")
  BY DEF TimeoutHandler, TypeOK, StoredJob
<1>2. QED
  BY <1>1, GotoEffect DEF TimeoutHandler, TaskEffect

LEMMA CancelHandlerEffect ==
    ASSUME TypeOK, NEW j \in Jobs, NEW ops, mem[j].status # "absent",
           CancelHandler(j, ops)
    PROVE  TaskEffect(j, ops)
<1> DEFINE m == IF mem[j].status \in Open
                THEN [mem[j] EXCEPT !.status = "failed", !.error = "shutdown"]
                ELSE mem[j]
           n == [m EXCEPT !.webhook = "failed"]
<1>1. m.status # "absent" /\ n.status # "absent"
  BY DEF TypeOK, StoredJob
<1>2. mem' = [mem EXCEPT ![j] = m] \/ mem' = [mem EXCEPT ![j] = n]
  BY DEF CancelHandler
<1> HIDE DEF m, n
<1>3. \A k \in Jobs : mem'[k] = mem[k] \/ (k = j /\ mem'[k].status # "absent")
  BY <1>1, <1>2 DEF TypeOK
<1>4. \E p : Goto(j, "cancel", p)
  BY DEF CancelHandler
<1>5. \A o \in db' : o \in ops \/ o = Update(j, j)
  BY DEF CancelHandler
<1>6. QED
  BY <1>3, <1>4, <1>5, GotoEffect DEF TaskEffect

LEMMA LeaveEffect ==
    ASSUME TypeOK, NEW j \in Jobs, NEW e, NEW ops, mem[j].status # "absent",
           Leave(j, e, ops)
    PROVE  TaskEffect(j, ops)
<1>1. CASE CancelHandler(j, ops)
  BY <1>1, CancelHandlerEffect
<1>2. CASE TimeoutHandler(j, ops)
  BY <1>2, TimeoutHandlerEffect
<1>3. CASE Goto(j, "body", "hook") /\ db' = ops /\ UNCHANGED mem
  BY <1>3, GotoEffect DEF TaskEffect
<1>4. CASE Finish(j) /\ db' = ops /\ UNCHANGED mem
  BY <1>4, FinishEffect DEF TaskEffect
<1>5. QED
  BY <1>1, <1>2, <1>3, <1>4 DEF Leave

LEMMA RunTasksKnown ==
    ASSUME TypeOK, KnownJobs, RunTasks
    PROVE  KnownJobs' /\ RepoKept
<1>1. PICK j \in Jobs :
         \/ StartJob(j) \/ StartWorkers(j) \/ Gathered(j) \/ Drain(j)
         \/ Drained(j) \/ Executed(j) \/ Saved(j) \/ Post(j) \/ Posted(j)
         \/ Interrupt(j) \/ InterruptGather(j)
  BY DEF RunTasks
<1>2. mem[j].status # "absent"
  <2>1. run[j].pc # "idle"
    BY <1>1 DEF StartJob, StartWorkers, Gathered, Drain, Drained, Executed,
       Saved, Post, Posted, Interrupt, InterruptGather
  <2>2. QED
    BY <2>1 DEF KnownJobs, RunKnown
<1>3. mem[j] \in StoredJob
  BY DEF TypeOK
<1>4. CASE StartJob(j)
  <2>1. \A k \in Jobs : mem'[k] = mem[k] \/ (k = j /\ mem'[k].status # "absent")
    BY <1>3, <1>4 DEF StartJob, TypeOK, StoredJob
  <2>2. QED
    BY <1>2, <1>4, <2>1, TaskStep DEF StartJob, TypeOK, env
<1>5. CASE StartWorkers(j)
  BY <1>2, <1>5, TaskStep DEF StartWorkers, TypeOK, env
<1>6. CASE Gathered(j)
  <2>1. CASE UNCHANGED mem
    BY <1>2, <1>6, <2>1, TaskStep DEF Gathered, TypeOK, env
  <2>2. CASE mem' = [mem EXCEPT ![j].status = "failed", ![j].error = "argus"]
    <3>1. \A k \in Jobs : mem'[k] = mem[k] \/ (k = j /\ mem'[k].status # "absent")
      BY <1>3, <2>2 DEF TypeOK, StoredJob
    <3>2. QED
      BY <1>2, <1>6, <3>1, TaskStep DEF Gathered, TypeOK, env
  <2>3. CASE mem' = [mem EXCEPT ![j].status = "completed"]
    BY <1>2, <1>3, <1>6, <2>3, TaskStep DEF Gathered, TypeOK, StoredJob, env
  <2>4. QED
    BY <1>6, <2>1, <2>2, <2>3 DEF Gathered
<1>7. CASE Drain(j)
  BY <1>2, <1>7, TaskStep DEF Drain, CancelWorkers, TypeOK, env
<1>8. CASE Drained(j)
  BY <1>2, <1>3, <1>8, TaskStep DEF Drained, TypeOK, StoredJob, env
<1>9. CASE Executed(j)
  BY <1>2, <1>9, LeaveEffect, TaskStep DEF Executed, TaskEffect, env
<1>10. CASE Saved(j)
  BY <1>2, <1>10, FinishEffect, GotoEffect, TaskStep DEF Saved, env
<1>11. CASE Post(j)
  <2>1. \A k \in Jobs : mem'[k] = mem[k] \/ (k = j /\ mem'[k].status # "absent")
    <3>1. \A h : [mem[j] EXCEPT !.webhook = h].status = mem[j].status
      BY <1>3 DEF StoredJob
    <3>2. \/ mem' = mem
          \/ \E h : mem' = [mem EXCEPT ![j] = [mem[j] EXCEPT !.webhook = h]]
      BY <1>11 DEF Post, TypeOK
    <3>3. QED
      BY <1>2, <3>1, <3>2 DEF TypeOK
  <2>2. \A k \in Jobs \ {j} : run'[k] = run[k]
    BY <1>11 DEF Post, TypeOK
  <2>3. \A o \in db' : o \in db \/ o = Update(j, j)
    BY <1>11 DEF Post
  <2>4. UNCHANGED <<repo, boot, wk, stray, call>>
    BY <1>11 DEF Post, env
  <2>5. QED
    BY <1>2, <2>1, <2>2, <2>3, <2>4, TaskStep
<1>12. CASE Posted(j)
  BY <1>2, <1>12, FinishEffect, GotoEffect, TaskStep DEF Posted, env
<1>13. CASE Interrupt(j)
  BY <1>2, <1>13, LeaveEffect, CancelHandlerEffect, FinishEffect, TaskStep
     DEF Interrupt, TaskEffect, env
<1>14. CASE InterruptGather(j)
  BY <1>2, <1>14, TaskStep DEF InterruptGather, CancelWorkers, TypeOK, env
<1>15. QED
  BY <1>1, <1>4, <1>5, <1>6, <1>7, <1>8, <1>9, <1>10, <1>11, <1>12, <1>13,
     <1>14

LEMMA WorkerTasksKnown ==
    ASSUME TypeOK, KnownJobs, WorkerTasks
    PROVE  KnownJobs' /\ RepoKept
<1>1. PICK j \in Jobs, w \in Workers :
         \/ Take(j, w) \/ Collected(j, w) \/ Persist(j, w) \/ Appended(j, w)
         \/ Counted(j, w) \/ Duplicate(j, w) \/ Die(j, w)
  BY DEF WorkerTasks
<1>2. mem[j].status # "absent"
  <2>1. wk[j][w].pc # "off"
    BY <1>1 DEF Take, Collected, Persist, Appended, Counted, Duplicate, Die
  <2>2. QED
    BY <2>1 DEF KnownJobs, WorkersKnown
<1>3. mem[j] \in StoredJob
  BY DEF TypeOK
<1>4. \A s : SetWorker(j, w, s) => \A k \in Jobs \ {j} : wk'[k] = wk[k]
  BY DEF SetWorker, TypeOK
<1>5. CASE Take(j, w)
  BY <1>2, <1>4, <1>5, TaskStep DEF Take, TypeOK, env
<1>6. CASE Collected(j, w)
  <2>1. \A k \in Jobs \ {j} : run'[k] = run[k]
    BY <1>6, SizesAssumption DEF Collected, TypeOK
  <2>2. QED
    BY <1>2, <1>4, <1>6, <2>1, TaskStep DEF Collected, env
<1>7. CASE Persist(j, w)
  <2>1. \A i, n : Append(j, w, n, i).kind = "append" /\ Append(j, w, n, i).job = j
    BY DEF Append
  <2>2. QED
    BY <1>2, <1>4, <1>7, <2>1, TaskStep DEF Persist, env
<1>8. CASE Appended(j, w)
  BY <1>2, <1>3, <1>4, <1>8, TaskStep DEF Appended, TypeOK, StoredJob, env
<1>9. CASE Counted(j, w)
  BY <1>2, <1>4, <1>9, TaskStep DEF Counted, TypeOK, env
<1>10. CASE Duplicate(j, w)
  BY <1>2, <1>4, <1>10, TaskStep DEF Duplicate, TypeOK, env
<1>11. CASE Die(j, w)
  BY <1>2, <1>4, <1>11, TaskStep DEF Die, TypeOK, env
<1>12. QED
  BY <1>1, <1>5, <1>6, <1>7, <1>8, <1>9, <1>10, <1>11

LEMMA StraysKnownStep ==
    ASSUME TypeOK, KnownJobs, Strays
    PROVE  KnownJobs' /\ RepoKept
<1>1. PICK r \in stray : StrayPost(r)
  BY DEF Strays
<1>2. r.job \in Jobs /\ r.val \in StoredJob
  BY DEF TypeOK
<1>3. repo[r.job] # NoJob /\ r.val.status # "absent"
  BY DEF KnownJobs, StraysKnown
<1>4. UNCHANGED <<repo, mem, run, wk, call, boot>> /\ stray' \subseteq stray
  BY <1>1 DEF StrayPost, env
<1>5. RepoKept /\ MemKept
  BY <1>4 DEF RepoKept, MemKept
<1>6. \A o \in db' : o \in db \/ OpKnown(o)'
  <2>1. PICK status \in {"sent", "failed"} :
           db' = db \union {[Update(r.job, NoProc) EXCEPT
                                !.stage = "started",
                                !.val = [r.val EXCEPT !.webhook = status]]}
    BY <1>1 DEF StrayPost
  <2>2. [r.val EXCEPT !.webhook = status].status = r.val.status
    BY <1>2 DEF StoredJob
  <2>3. QED
    BY <1>3, <1>4, <2>1, <2>2 DEF OpKnown, Update
<1>7. QED
  BY <1>4, <1>5, <1>6, KnownStep DEF KnownJobs, MemKnown

LEMMA CallTasksKnown ==
    ASSUME TypeOK, KnownJobs, CallTasks
    PROVE  KnownJobs' /\ RepoKept
<1>1. PICK c \in Threads :
         \/ Acquire(c) \/ FindKey(c) \/ CreateJob(c) \/ LaunchNew(c)
         \/ ReadJob(c) \/ CheckCancel(c) \/ CancelTask(c) \/ CheckResume(c)
         \/ ReadRows(c) \/ ResetJob(c) \/ LaunchResumed(c)
  BY DEF CallTasks
<1> DEFINE j == call[c].job
<1>2. call[c].pc # "idle"
  BY <1>1 DEF Acquire, FindKey, CreateJob, LaunchNew, ReadJob, CheckCancel,
     CancelTask, CheckResume, ReadRows, ResetJob, LaunchResumed
<1>3. j \in Jobs /\ call[c].seen \in StoredJob /\ call[c] \in Call
  BY <1>2, CallTypes DEF TypeOK
<1>4. CallKnown(c)
  BY DEF KnownJobs, CallsKnown
<1>5. \A r : SetCall(c, r) => call'[c] = r /\ \A d \in Threads \ {c} : call'[d] = call[d]
  BY DEF SetCall, TypeOK
<1>6. Respond(c) => CallKnown(c)' /\ \A d \in Threads \ {c} : call'[d] = call[d]
  BY <1>5 DEF Respond, CallKnown, NoCall
<1>7. ASSUME UNCHANGED <<repo, mem, run, wk, db, stray, boot>>,
             \A d \in Threads \ {c} : call'[d] = call[d],
             CallKnown(c)'
      PROVE  KnownJobs' /\ RepoKept
  <2>1. RepoKept /\ MemKept
    BY <1>7 DEF RepoKept, MemKept
  <2>2. \A d \in Threads : call'[d] = call[d] \/ CallKnown(d)'
    BY <1>7
  <2>3. QED
    BY <1>7, <2>1, <2>2, KnownStep DEF KnownJobs, MemKnown
\* The record of c keeps its operation and its job.
<1>8. ASSUME NEW p, NEW r, SetCall(c, r), repo' = repo,
             r.op = call[c].op, r.job = j, r.pc = p,
             p \in {"rows", "build"} => r.op = "resume",
             p = "launch" => repo[j] # NoJob,
             p = "save" /\ r.op = "resume" => r.seen.status # "absent"
      PROVE  CallKnown(c)' /\ \A d \in Threads \ {c} : call'[d] = call[d]
  BY <1>2, <1>4, <1>5, <1>8 DEF CallKnown
<1>9. \A p : LET r == [call[c] EXCEPT !.pc = p]
             IN  r.op = call[c].op /\ r.job = j /\ r.pc = p
                   /\ r.seen = call[c].seen
  BY <1>3 DEF Call, NoCall
<1>10. CASE Acquire(c)
  BY <1>7, <1>8, <1>9, <1>10 DEF Acquire, env
<1>11. CASE FindKey(c)
  BY <1>6, <1>7, <1>8, <1>9, <1>11 DEF FindKey, env
<1>12. CASE CreateJob(c)
  <2>1. UNCHANGED <<mem, run, wk, db, stray, boot>>
    BY <1>12 DEF CreateJob, env
  <2>2. CASE Respond(c) /\ UNCHANGED repo
    BY <1>6, <1>7, <2>1, <2>2
  <2>3. CASE /\ repo' = [repo EXCEPT ![j] = Fresh(j)]
             /\ SetCall(c, [call[c] EXCEPT !.pc = "launch"])
    <3>1. Fresh(j) # NoJob
      BY DEF Fresh, NoJob
    <3>2. RepoKept /\ MemKept /\ repo'[j] # NoJob
      BY <1>3, <2>1, <2>3, <3>1 DEF RepoKept, MemKept, TypeOK
    <3>3. /\ \A d \in Threads \ {c} : call'[d] = call[d]
          /\ call'[c].op = call[c].op /\ call'[c].job = j
          /\ call'[c].pc = "launch"
      BY <1>5, <1>9, <2>3
    <3>4. CallKnown(c)'
      BY <3>2, <3>3 DEF CallKnown
    <3>5. \A d \in Threads : call'[d] = call[d] \/ CallKnown(d)'
      BY <3>3, <3>4
    <3>6. QED
      BY <2>1, <3>2, <3>5, KnownStep DEF KnownJobs, MemKnown, RepoKept
  <2>4. QED
    BY <1>12, <2>2, <2>3 DEF CreateJob
<1>13. ASSUME NEW stored, stored.status # "absent", NEW pending,
              repo[j] # NoJob, Launch(j, stored, pending), Respond(c),
              UNCHANGED <<repo, wk, db, stray, boot>>
       PROVE  KnownJobs' /\ RepoKept
  <2>1. RepoKept /\ MemKept
    BY <1>3, <1>13 DEF RepoKept, MemKept, Launch, TypeOK
  <2>2. mem'[j].status # "absent"
    BY <1>3, <1>13 DEF Launch, TypeOK
  <2>3. \A k \in Jobs : mem'[k].status = "absent" \/ repo'[k] # NoJob
    BY <1>13 DEF Launch, TypeOK, KnownJobs, MemKnown
  <2>4. \A k \in Jobs : run'[k].pc # "idle" =>
            run[k].pc # "idle" \/ mem'[k].status # "absent"
    BY <1>13, <2>2 DEF Launch, TypeOK
  <2>5. \A d \in Threads : call'[d] = call[d] \/ CallKnown(d)'
    BY <1>6, <1>13
  <2>6. QED
    BY <1>13, <2>1, <2>3, <2>4, <2>5, KnownStep
<1>14. CASE LaunchNew(c)
  <2>1. Fresh(j).status # "absent"
    BY DEF Fresh, NoJob
  <2>2. QED
    BY <1>2, <1>4, <1>13, <1>14, <2>1 DEF LaunchNew, CallKnown, env
<1>15. CASE ReadJob(c)
  <2>1. LET r == [call[c] EXCEPT !.pc = "check", !.seen = repo[j]]
        IN  r.op = call[c].op /\ r.job = j /\ r.pc = "check"
    BY <1>3 DEF Call, NoCall
  <2>2. QED
    BY <1>7, <1>8, <1>15, <2>1 DEF ReadJob, env
<1>16. CASE CheckCancel(c)
  <2>1. UNCHANGED <<repo, run, wk, stray, boot>> /\ call[c].op = "cancel"
    BY <1>16 DEF CheckCancel, env
  <2>2. CASE Respond(c) /\ UNCHANGED <<mem, db>>
    BY <1>6, <1>7, <2>1, <2>2
  <2>3. CASE /\ mem' = [mem EXCEPT ![j].cancelRequested = TRUE,
                                   ![j].status = "cancelled",
                                   ![j].error = "cancelled"]
             /\ db' = db \union {Update(j, c)}
             /\ SetCall(c, [call[c] EXCEPT !.pc = "save"])
    <3>1. repo[j] # NoJob
      BY <1>2, <1>4, <2>1 DEF CallKnown
    <3>2. /\ mem'[j].status = "cancelled"
          /\ \A k \in Jobs \ {j} : mem'[k] = mem[k]
      BY <1>3, <2>3 DEF TypeOK, StoredJob
    <3>3. RepoKept /\ MemKept
      BY <2>1, <3>2 DEF RepoKept, MemKept
    <3>4. \A o \in db' : o \in db \/ OpKnown(o)'
      BY <1>3, <2>1, <2>3, <3>1, <3>2, NewUpdateKnown
    <3>5. \A d \in Threads : call'[d] = call[d] \/ CallKnown(d)'
      BY <1>8, <1>9, <2>1, <2>3
    <3>6. \A k \in Jobs : mem'[k].status = "absent" \/ repo'[k] # NoJob
      BY <2>1, <3>1, <3>2 DEF KnownJobs, MemKnown
    <3>7. QED
      BY <2>1, <3>3, <3>4, <3>5, <3>6, KnownStep
  <2>4. QED
    BY <1>16, <2>2, <2>3 DEF CheckCancel
<1>17. CASE CancelTask(c)
  <2>1. UNCHANGED <<repo, mem, wk, db, stray, boot>> /\ call[c].op = "cancel"
    BY <1>17 DEF CancelTask, env
  <2>2. \A k \in Jobs : run'[k].pc = run[k].pc
    <3>1. [run[j] EXCEPT !.cause = @ \union {"cancel"}, !.intr = TRUE].pc = run[j].pc
      BY <1>3 DEF TypeOK, RunTask
    <3>2. run' = run \/ run' = [run EXCEPT ![j] =
                [run[j] EXCEPT !.cause = @ \union {"cancel"}, !.intr = TRUE]]
      BY <1>3, <1>17 DEF CancelTask, TypeOK
    <3>3. QED
      BY <3>1, <3>2 DEF TypeOK
  <2>3. \A d \in Threads : call'[d] = call[d] \/ CallKnown(d)'
    <3>1. CASE SetCall(c, NoCall)
      BY <1>5, <3>1 DEF CallKnown, NoCall
    <3>2. CASE SetCall(c, [call[c] EXCEPT !.pc = "join"])
      BY <1>8, <1>9, <2>1, <3>2
    <3>3. QED
      BY <1>17, <3>1, <3>2 DEF CancelTask
  <2>4. RepoKept /\ MemKept
    BY <2>1 DEF RepoKept, MemKept
  <2>5. QED
    BY <2>1, <2>2, <2>3, <2>4, KnownStep DEF KnownJobs, MemKnown
<1>18. CASE CheckResume(c)
  <2>1. UNCHANGED <<repo, mem, run, wk, db, stray, boot>>
    BY <1>18 DEF CheckResume, env
  <2>2. CASE Respond(c)
    BY <1>6, <1>7, <2>1, <2>2
  <2>3. CASE SetCall(c, [call[c] EXCEPT !.pc = "rows"])
    <3>1. call[c].op = "resume"
      BY <1>18 DEF CheckResume
    <3>2. QED
      BY <1>7, <1>8, <1>9, <2>1, <2>3, <3>1
  <2>4. QED
    BY <1>18, <2>2, <2>3 DEF CheckResume
<1>19. CASE ReadRows(c)
  <2>1. LET r == [call[c] EXCEPT !.pc = "build", !.done = Done(j),
                              !.seen.completed = Cardinality(Filled(j))]
        IN  r.op = call[c].op /\ r.job = j /\ r.pc = "build"
    BY <1>3 DEF Call, NoCall
  <2>2. call[c].op = "resume"
    BY <1>2, <1>4, <1>19 DEF ReadRows, CallKnown
  <2>3. QED
    BY <1>7, <1>8, <1>19, <2>1, <2>2 DEF ReadRows, env
<1>20. CASE ResetJob(c)
  <2> DEFINE stored == [Fresh(j) EXCEPT !.completed = call[c].seen.completed]
             q == [Update(j, c) EXCEPT !.stage = "started", !.val = stored]
             r == [call[c] EXCEPT !.pc = "save", !.seen = stored]
  <2>1. stored.status # "absent"
    BY DEF Fresh, NoJob
  <2>2. q.kind = "update" /\ q.job = j /\ q.stage = "started" /\ q.val = stored
    <3> HIDE DEF stored
    <3>1. QED
      BY DEF Update
  <2>3. r.op = call[c].op /\ r.job = j /\ r.pc = "save" /\ r.seen = stored
    BY <1>3 DEF Call, NoCall
  <2>4. call[c].op = "resume" /\ repo[j] # NoJob
    BY <1>2, <1>4, <1>20 DEF ResetJob, CallKnown
  <2>5. /\ UNCHANGED <<repo, mem, run, wk, stray, boot>>
        /\ db' = db \union {q} /\ SetCall(c, r)
    BY <1>20 DEF ResetJob, env
  <2> HIDE DEF stored, q, r
  <2>6. RepoKept /\ MemKept
    BY <2>5 DEF RepoKept, MemKept
  <2>7. \A o \in db' : o \in db \/ OpKnown(o)'
    BY <2>1, <2>2, <2>4, <2>5 DEF OpKnown
  <2>8. \A d \in Threads : call'[d] = call[d] \/ CallKnown(d)'
    BY <1>8, <2>1, <2>3, <2>4, <2>5
  <2>9. QED
    BY <2>5, <2>6, <2>7, <2>8, KnownStep DEF KnownJobs, MemKnown
<1>21. CASE LaunchResumed(c)
  <2>1. call[c].seen.status # "absent" /\ repo[j] # NoJob
    BY <1>2, <1>4, <1>21 DEF LaunchResumed, CallKnown
  <2>2. /\ Launch(j, call[c].seen, Items \ call[c].done) /\ Respond(c)
        /\ UNCHANGED <<repo, wk, db, stray, boot>>
    BY <1>21 DEF LaunchResumed, env
  <2>3. QED
    BY <1>13, <2>1, <2>2
<1>22. QED
  BY <1>1, <1>10, <1>11, <1>12, <1>14, <1>15, <1>16, <1>17, <1>18, <1>19,
     <1>20, <1>21

LEMMA RestartKnown ==
    ASSUME TypeOK, KnownJobs, Restart
    PROVE  KnownJobs' /\ RepoKept
<1>1. ASSUME LoseMemory
      PROVE  KnownJobs' /\ RepoKept
  BY <1>1 DEF LoseMemory, KnownJobs, MemKnown, RunKnown, WorkersKnown, OpsKnown,
     StraysKnown, CallsKnown, CallKnown, BootKnown, RepoKept, NoJob, Idle, Off,
     NoCall
<1>2. CASE Closed
  BY <1>1, <1>2 DEF Closed
<1>3. CASE Recover
  <2>1. UNCHANGED <<mem, run, wk, db, stray, call>>
    BY <1>3 DEF Recover
  <2>2. /\ \A j \in Jobs : repo[j] # NoJob => Recovered(j) # NoJob
        /\ \A j \in Jobs : Interrupted(Recovered(j)) => Recovered(j) # NoJob
    <3>1. SUFFICES ASSUME NEW j \in Jobs
                   PROVE  /\ repo[j] # NoJob => Recovered(j) # NoJob
                          /\ Interrupted(Recovered(j)) => Recovered(j) # NoJob
      OBVIOUS
    <3>2. repo[j] \in StoredJob
      BY DEF TypeOK
    <3>3. repo[j].status \in Open => Recovered(j).status = "failed"
      BY <3>2 DEF Recovered, StoredJob
    <3>4. repo[j].status \notin Open => Recovered(j) = repo[j]
      BY DEF Recovered
    <3>5. NoJob.status = "absent"
      BY DEF NoJob
    <3>6. QED
      BY <3>3, <3>4, <3>5 DEF Interrupted
  <2>3. RepoKept /\ MemKept
    BY <1>3, <2>1, <2>2 DEF Recover, RepoKept, MemKept
  <2>4. \A j \in boot' : repo'[j] # NoJob
    BY <1>3, <2>2 DEF Recover
  <2>5. QED
    BY <2>1, <2>3, <2>4, KnownStep DEF KnownJobs, MemKnown, RepoKept
<1>4. CASE Ready
  <2>1. UNCHANGED <<repo, mem, run, wk, db, stray, call, boot>>
    BY <1>4 DEF Ready
  <2>2. RepoKept /\ MemKept
    BY <2>1 DEF RepoKept, MemKept
  <2>3. QED
    BY <2>1, <2>2, KnownStep DEF KnownJobs, MemKnown
<1>5. ASSUME NEW j \in Jobs, BootResume(j)
      PROVE  KnownJobs' /\ RepoKept
  <2>1. UNCHANGED <<repo, mem, run, wk, db, stray>> /\ boot' \subseteq boot
    BY <1>5 DEF BootResume
  <2>2. RepoKept /\ MemKept
    BY <2>1 DEF RepoKept, MemKept
  <2>3. repo[j] # NoJob
    BY <1>5 DEF BootResume, KnownJobs, BootKnown
  <2>4. /\ call'[Boot].job = j /\ call'[Boot].pc = "lock"
        /\ \A d \in Threads \ {Boot} : call'[d] = call[d]
    BY <1>5 DEF BootResume, SetCall, TypeOK, NoCall, Threads
  <2>5. \A d \in Threads : call'[d] = call[d] \/ CallKnown(d)'
    BY <2>1, <2>3, <2>4 DEF CallKnown
  <2>6. QED
    BY <2>1, <2>2, <2>5, KnownStep DEF KnownJobs, MemKnown
<1>6. QED
  BY <1>2, <1>3, <1>4, <1>5 DEF Restart

LEMMA EnvironmentKnown ==
    ASSUME TypeOK, KnownJobs, Environment
    PROVE  KnownJobs' /\ RepoKept
<1>1. ASSUME UNCHANGED <<repo, mem, wk, db, stray, boot>>,
             \A k \in Jobs : run'[k].pc = run[k].pc,
             \A c \in Threads : call'[c] = call[c] \/ CallKnown(c)'
      PROVE  KnownJobs' /\ RepoKept
  <2>1. RepoKept /\ MemKept
    BY <1>1 DEF RepoKept, MemKept
  <2>2. QED
    BY <1>1, <2>1, KnownStep DEF KnownJobs, MemKnown
<1>2. ASSUME NEW c \in Callers, NEW j \in Jobs, NEW op \in Ops,
             Request(c, op, j)
      PROVE  KnownJobs' /\ RepoKept
  <2>1. \A d \in Threads : call'[d] = call[d] \/ CallKnown(d)'
    <3>1. /\ call'[c].op = op /\ call'[c].job = j /\ call'[c].pc = "lock"
          /\ \A d \in Threads \ {c} : call'[d] = call[d]
      BY <1>2 DEF Request, SetCall, TypeOK, NoCall, Threads
    <3>2. op # "submit" => repo'[j] # NoJob
      BY <1>2 DEF Request
    <3>3. CallKnown(c)'
      BY <3>1, <3>2 DEF CallKnown
    <3>4. QED
      BY <3>1, <3>3
  <2>2. QED
    BY <1>1, <1>2, <2>1 DEF Request, env
<1>3. ASSUME NEW j \in Readers, PollJob(j) \/ PollRows(j)
      PROVE  KnownJobs' /\ RepoKept
  BY <1>1, <1>3 DEF PollJob, PollRows, env
<1>4. CASE Crash
  BY <1>4 DEF Crash, LoseMemory, KnownJobs, MemKnown, RunKnown, WorkersKnown,
     OpsKnown, StraysKnown, CallsKnown, CallKnown, BootKnown, RepoKept, NoJob,
     Idle, Off, NoCall
<1>5. CASE Close
  <2>1. \A k \in Jobs : run'[k].pc = run[k].pc
    <3>1. \A r \in RunTask :
             [r EXCEPT !.cause = @ \union {"cancel"}, !.intr = TRUE].pc = r.pc
      BY DEF RunTask
    <3>2. \A k \in Jobs : run[k] \in RunTask
      BY DEF TypeOK
    <3>3. run' = [k \in Jobs |->
                    IF run[k].pc = "idle" THEN run[k]
                    ELSE [run[k] EXCEPT !.cause = @ \union {"cancel"},
                                        !.intr = TRUE]]
      BY <1>5 DEF Close
    <3>4. QED
      BY <3>1, <3>2, <3>3
  <2>2. QED
    BY <1>1, <1>5, <2>1 DEF Close, env
<1>6. ASSUME NEW j \in Jobs, Deadline(j)
      PROVE  KnownJobs' /\ RepoKept
  <2>1. \A k \in Jobs : run'[k].pc = run[k].pc
    <3>1. [run[j] EXCEPT !.cause = @ \union {"timeout"}, !.intr = TRUE].pc = run[j].pc
      BY DEF TypeOK, RunTask
    <3>2. run' = [run EXCEPT ![j] =
                [run[j] EXCEPT !.cause = @ \union {"timeout"}, !.intr = TRUE]]
      BY <1>6 DEF Deadline, TypeOK
    <3>3. QED
      BY <3>1, <3>2 DEF TypeOK
  <2>2. QED
    BY <1>1, <1>6, <2>1 DEF Deadline, env
<1>7. QED
  BY <1>2, <1>3, <1>4, <1>5, <1>6 DEF Environment, Clients

-----------------------------------------------------------------------------
(* The theorems *)

\* Nothing works on a job that has not been stored: no task, worker, write,
\* detached webhook, call or startup resume.
THEOREM JobsKnown == Spec => []KnownJobs
<1>1. Init => KnownJobs
  BY DEF Init, KnownJobs, MemKnown, RunKnown, WorkersKnown, OpsKnown, StraysKnown,
     CallsKnown, CallKnown, BootKnown, NoJob, Idle, Off, NoCall
<1>2. TypeOK /\ KnownJobs /\ [Next]_vars => KnownJobs'
  <2>1. SUFFICES ASSUME TypeOK, KnownJobs, [Next]_vars
                 PROVE  KnownJobs'
    OBVIOUS
  <2>2. CASE Service
    BY <2>1, <2>2, StorageKnown, RunTasksKnown, StraysKnownStep,
       WorkerTasksKnown, CallTasksKnown, RestartKnown DEF Service
  <2>3. CASE Environment
    BY <2>1, <2>3, EnvironmentKnown
  <2>4. CASE UNCHANGED vars
    BY <2>1, <2>4 DEF vars, KnownJobs, MemKnown, RunKnown, WorkersKnown, OpsKnown,
       OpKnown, StraysKnown, CallsKnown, CallKnown, BootKnown
  <2>5. QED
    BY <2>1, <2>2, <2>3, <2>4 DEF Next
<1>3. QED
  BY <1>1, <1>2, TypeCorrect, PTL DEF Spec

\* Only create_job stores a document where there was none.
LEMMA StoredByCreateJob ==
    ASSUME TypeOK, KnownJobs, [Next]_vars
    PROVE  \/ \E c \in Threads : CreateJob(c)
           \/ \A k \in Jobs : repo[k] = NoJob => repo'[k] = NoJob
<1>1. CASE Storage
  <2>1. PICK o \in db : StartOp(o) \/ ApplyUpdate(o) \/ ApplyAppend(o)
    BY <1>1 DEF Storage
  <2>2. CASE ApplyUpdate(o)
    BY <2>2 DEF ApplyUpdate, KnownJobs, OpsKnown, OpKnown
  <2>3. QED
    BY <2>1, <2>2 DEF StartOp, ApplyAppend
<1>2. CASE RunTasks \/ Strays \/ WorkerTasks
  <2>1. ASSUME NEW j \in Jobs,
               \/ StartJob(j) \/ StartWorkers(j) \/ Gathered(j) \/ Drain(j)
               \/ Drained(j) \/ Executed(j) \/ Saved(j) \/ Post(j) \/ Posted(j)
               \/ Interrupt(j) \/ InterruptGather(j)
        PROVE  repo' = repo
    BY <2>1 DEF StartJob, StartWorkers, Gathered, Drain, Drained, Executed, Saved,
       Post, Posted, Interrupt, InterruptGather
  <2>2. ASSUME NEW r \in stray, StrayPost(r)
        PROVE  repo' = repo
    BY <2>2 DEF StrayPost
  <2>3. ASSUME NEW j \in Jobs, NEW w \in Workers,
               \/ Take(j, w) \/ Collected(j, w) \/ Persist(j, w) \/ Appended(j, w)
               \/ Counted(j, w) \/ Duplicate(j, w) \/ Die(j, w)
        PROVE  repo' = repo
    BY <2>3 DEF Take, Collected, Persist, Appended, Counted, Duplicate, Die
  <2>4. repo' = repo
    BY <1>2, <2>1, <2>2, <2>3 DEF RunTasks, Strays, WorkerTasks
  <2>5. QED
    BY <2>4
<1>3. CASE CallTasks
  <2>1. ASSUME NEW c \in Threads,
               \/ Acquire(c) \/ FindKey(c) \/ LaunchNew(c) \/ ReadJob(c)
               \/ CheckCancel(c) \/ CancelTask(c) \/ CheckResume(c)
               \/ ReadRows(c) \/ ResetJob(c) \/ LaunchResumed(c)
        PROVE  repo' = repo
    BY <2>1 DEF Acquire, FindKey, LaunchNew, ReadJob, CheckCancel, CancelTask,
       CheckResume, ReadRows, ResetJob, LaunchResumed
  <2>2. repo' = repo \/ \E c \in Threads : CreateJob(c)
    BY <1>3, <2>1 DEF CallTasks
  <2>3. QED
    BY <2>2
<1>4. CASE Restart
  <2>1. CASE Recover
    <3>1. NoJob.status \notin Open
      BY DEF NoJob, Open
    <3>2. \A k \in Jobs : repo'[k] = Recovered(k)
      BY <2>1 DEF Recover
    <3>3. QED
      BY <3>1, <3>2 DEF Recovered
  <2>2. CASE Closed \/ Ready \/ \E j \in Jobs : BootResume(j)
    BY <2>2 DEF Closed, LoseMemory, Ready, BootResume
  <2>3. QED
    BY <1>4, <2>1, <2>2 DEF Restart
<1>5. CASE Environment
  BY <1>5 DEF Environment, Clients, Request, PollJob, PollRows, Crash, LoseMemory,
     Close, Deadline
<1>6. CASE UNCHANGED vars
  BY <1>6 DEF vars
<1>7. QED
  BY <1>1, <1>2, <1>3, <1>4, <1>5, <1>6 DEF Next, Service

\* Two submissions with one Idempotency-Key, at any distance and with any
\* number of restarts between them, store one job.
THEOREM KeysUnique == Spec => []OneJobPerKey
<1>1. Init => OneJobPerKey
  BY DEF Init, OneJobPerKey
<1>2. TypeOK /\ KnownJobs /\ OneJobPerKey /\ [Next]_vars => OneJobPerKey'
  <2>1. SUFFICES ASSUME TypeOK, KnownJobs, OneJobPerKey, [Next]_vars
                 PROVE  OneJobPerKey'
    OBVIOUS
  <2>2. CASE \A k \in Jobs : repo[k] = NoJob => repo'[k] = NoJob
    BY <2>1, <2>2 DEF OneJobPerKey
  <2>3. ASSUME NEW c \in Threads, CreateJob(c)
        PROVE  OneJobPerKey'
    <3>1. CASE KeyHolders(call[c].job) # {}
      BY <2>1, <2>3, <3>1 DEF CreateJob, OneJobPerKey
    <3>2. CASE KeyHolders(call[c].job) = {}
      <4>1. repo' = [repo EXCEPT ![call[c].job] = Fresh(call[c].job)]
        BY <2>3, <3>2 DEF CreateJob
      <4>2. \A k \in Jobs : k # call[c].job => repo'[k] = repo[k]
        BY <2>1, <4>1 DEF TypeOK
      <4>3. \A k \in Jobs : repo[k] # NoJob => KeyOf[k] # KeyOf[call[c].job]
        BY <3>2 DEF KeyHolders
      <4>4. QED
        BY <2>1, <4>2, <4>3 DEF OneJobPerKey
    <3>3. QED
      BY <3>1, <3>2
  <2>4. QED
    BY <2>1, <2>2, <2>3, StoredByCreateJob
<1>3. QED
  BY <1>1, <1>2, TypeCorrect, JobsKnown, PTL DEF Spec

-----------------------------------------------------------------------------
(***************************************************************************)
(* What BatchJobManager._lock guards is exclusive, no worker outlives the  *)
(* run task of its job, and a job has one run task at a time.  The lock is *)
(* given back by the step that kills a write task, so the argument needs   *)
(* to know which worker an append in flight belongs to.                    *)
(***************************************************************************)

Held(o) == o.kind = "append" /\ o.live

\* An append that is awaited is awaited by its worker, and only that one.
Awaited ==
    /\ \A o \in db : Held(o) =>
          \E w \in Workers : o.own = <<o.job, w>> /\ wk[o.job][w].pc = "append"
    /\ \A o, q \in db : Held(o) /\ Held(q) /\ o.own = q.own => o = q

LockInv == Exclusive /\ Awaited

Past(c) == call[c].pc \notin {"idle", "lock", "join"}

Gathering == {"gather", "cancelling", "drain"}
Writing == {"append", "dup", "count"}

-----------------------------------------------------------------------------
(* Operations in flight *)

\* Giving up or detaching operations leaves no new one to wait for.
LEMMA AbandonHeld ==
    ASSUME TypeOK, NEW S, NEW o \in Abandon(S), o.live
    PROVE  o \in db /\ o.own \notin S
<1>1. CASE o \in db /\ o.own \notin S
  BY <1>1
<1>2. CASE \E q \in db : o = [q EXCEPT !.live = FALSE]
  <2>1. PICK q \in db : o = [q EXCEPT !.live = FALSE]
    BY <1>2
  <2>2. q \in Operation
    BY DEF TypeOK
  <2>3. o.live = FALSE
    BY <2>1, <2>2 DEF Operation
  <2>4. QED
    BY <2>3
<1>3. QED
  BY <1>1, <1>2 DEF Abandon

LEMMA DetachHeld ==
    ASSUME TypeOK, Awaited, NEW j \in Jobs, NEW o \in Detach(j), Held(o)
    PROVE  o \in db
<1>1. CASE o \in db
  BY <1>1
<1>2. CASE \E q \in db : q.own = j /\
              o = [q EXCEPT !.own = NoProc, !.stage = "started",
                            !.val = IF q.stage = "sent" THEN mem[q.job] ELSE @]
  <2>1. PICK q \in db : q.own = j /\
              o = [q EXCEPT !.own = NoProc, !.stage = "started",
                            !.val = IF q.stage = "sent" THEN mem[q.job] ELSE @]
    BY <1>2
  <2>2. q \in Operation /\ q.job \in Jobs
    BY DEF TypeOK, Operation
  <2>3. Held(q)
    BY <2>1, <2>2 DEF Held, Operation
  <2>4. PICK w \in Workers : q.own = <<q.job, w>>
    BY <2>3 DEF Awaited
  <2>5. <<q.job, w>> \in Jobs \X Workers
    BY <2>2
  <2>6. QED
    BY <2>1, <2>4, <2>5, NamesAssumption
<1>3. QED
  BY <1>1, <1>2 DEF Detach

\* An update is not an append.
LEMMA UpdateNotHeld ==
    ASSUME NEW j, NEW p
    PROVE  ~Held(Update(j, p))
BY DEF Held, Update

\* Awaited is kept when no worker leaves its append and nothing is appended.
LEMMA AwaitedKept ==
    ASSUME Awaited,
           \A o \in db' : Held(o) => o \in db,
           \A o \in db' : Held(o) => wk'[o.job] = wk[o.job]
    PROVE  Awaited'
BY DEF Awaited, Held

-----------------------------------------------------------------------------
(* Steps of one run task, which change neither the workers nor the lock *)

LEMMA TaskLock ==
    ASSUME TypeOK, LockInv, NEW j \in Jobs, run[j].pc # "idle",
           UNCHANGED <<wk, lock>>,
           \A k \in Jobs \ {j} : run'[k] = run[k],
           run'[j].pc \in Gathering \/ \A w \in Workers : wk[j][w].pc = "off",
           \A c \in Threads : call'[c] = call[c] \/ call'[c] = NoCall,
           \A o \in db' : Held(o) => o \in db
    PROVE  LockInv'
<1>1. WritesLocked'
  BY DEF LockInv, Exclusive, WritesLocked
<1>2. CallsLocked'
  BY DEF LockInv, Exclusive, CallsLocked, NoCall
<1>3. TasksCover'
  BY DEF LockInv, Exclusive, TasksCover, Gathering
<1>4. LaunchesAlone'
  <2>1. SUFFICES ASSUME NEW c \in Threads, Launching(c)'
                 PROVE  run'[call'[c].job].pc = "idle"
    BY DEF LaunchesAlone
  <2>2. call'[c] = call[c]
    BY <2>1 DEF Launching, NoCall
  <2>3. Launching(c)
    BY <2>1, <2>2 DEF Launching
  <2>4. call[c].job \in Jobs
    BY <2>3, CallTypes DEF Launching
  <2>5. run[call[c].job].pc = "idle"
    BY <2>3 DEF LockInv, Exclusive, LaunchesAlone
  <2>6. QED
    BY <2>2, <2>4, <2>5
<1>5. Awaited'
  BY AwaitedKept DEF LockInv
<1>6. QED
  BY <1>1, <1>2, <1>3, <1>4, <1>5 DEF LockInv, Exclusive

\* The handlers end in Finish or Goto, outside of the gathers, when no worker
\* is left.
LeftEffect(j, ops) ==
    /\ \A k \in Jobs \ {j} : run'[k] = run[k]
    /\ \A c \in Threads : call'[c] = call[c] \/ call'[c] = NoCall
    /\ \A o \in db' : Held(o) => o \in ops

LEMMA LeftByFinish ==
    ASSUME TypeOK, NEW j \in Jobs, NEW ops, Finish(j), db' = ops
    PROVE  LeftEffect(j, ops)
BY FinishEffect DEF LeftEffect

LEMMA LeftByGoto ==
    ASSUME TypeOK, NEW j \in Jobs, NEW ops, NEW b, NEW p, Goto(j, b, p),
           \A o \in db' : o \in ops \/ o = Update(j, j)
    PROVE  LeftEffect(j, ops)
BY GotoEffect, UpdateNotHeld DEF LeftEffect

LEMMA LeftByTimeout ==
    ASSUME TypeOK, NEW j \in Jobs, NEW ops, TimeoutHandler(j, ops)
    PROVE  LeftEffect(j, ops)
BY LeftByGoto DEF TimeoutHandler

LEMMA LeftByCancel ==
    ASSUME TypeOK, NEW j \in Jobs, NEW ops, CancelHandler(j, ops)
    PROVE  LeftEffect(j, ops)
<1>1. \E p : Goto(j, "cancel", p)
  BY DEF CancelHandler
<1>2. \A o \in db' : o \in ops \/ o = Update(j, j)
  BY DEF CancelHandler
<1>3. QED
  BY <1>1, <1>2, LeftByGoto

LEMMA LeftByLeave ==
    ASSUME TypeOK, NEW j \in Jobs, NEW e, NEW ops, Leave(j, e, ops)
    PROVE  LeftEffect(j, ops)
<1>1. CASE CancelHandler(j, ops)
  BY <1>1, LeftByCancel
<1>2. CASE TimeoutHandler(j, ops)
  BY <1>2, LeftByTimeout
<1>3. CASE Goto(j, "body", "hook") /\ db' = ops
  BY <1>3, LeftByGoto
<1>4. CASE Finish(j) /\ db' = ops
  BY <1>4, LeftByFinish
<1>5. QED
  BY <1>1, <1>2, <1>3, <1>4 DEF Leave

\* A cancellation of the workers of j: a killed write task gives the lock
\* back, and its append is awaited by nobody.
LEMMA CancelWorkersLock ==
    ASSUME TypeOK, LockInv, NEW j \in Jobs, CancelWorkers(j),
           \A k \in Jobs \ {j} : run'[k] = run[k],
           run[j].pc \in Gathering, run'[j].pc \in Gathering,
           call' = call
    PROVE  LockInv'
<1>1. /\ \A k \in Jobs \ {j} : wk'[k] = wk[k]
      /\ \A w \in Workers : wk'[j][w] = CancelWorker(wk[j][w])
      /\ db' = Abandon({<<j, w>> : w \in Killed(j)})
      /\ lock' = IF \E w \in Killed(j) : lock = <<j, w>> THEN NoProc ELSE lock
  BY DEF CancelWorkers, TypeOK
<1>2. \A w \in Workers : wk[j][w] \in Worker
  BY DEF TypeOK
<1>3. \A w \in Workers : wk'[j][w].pc \in Writing =>
          wk'[j][w].pc = wk[j][w].pc /\ w \notin Killed(j)
  <2>1. SUFFICES ASSUME NEW w \in Workers, wk'[j][w].pc \in Writing
                 PROVE  wk'[j][w].pc = wk[j][w].pc /\ w \notin Killed(j)
    OBVIOUS
  <2>2. /\ [wk[j][w] EXCEPT !.pc = "dying"].pc = "dying"
        /\ [wk[j][w] EXCEPT !.bare = TRUE].pc = wk[j][w].pc
    BY <1>2 DEF Worker
  <2>3. QED
    BY <1>1, <2>1, <2>2 DEF CancelWorker, Killed, Writing
<1>4. WritesLocked'
  <2>1. SUFFICES ASSUME NEW k \in Jobs, NEW w \in Workers,
                        wk'[k][w].pc \in Writing
                 PROVE  lock' = <<k, w>>
    BY DEF WritesLocked, Writing
  <2>2. wk[k][w].pc \in Writing /\ (k = j => w \notin Killed(j))
    BY <1>1, <1>3, <2>1
  <2>3. lock = <<k, w>>
    BY <2>2 DEF LockInv, Exclusive, WritesLocked, Writing
  <2>4. QED
    BY <1>1, <2>2, <2>3
<1>5. CallsLocked'
  <2>1. SUFFICES ASSUME NEW c \in Threads, Past(c)'
                 PROVE  lock' = c
    BY DEF CallsLocked, Past
  <2>2. lock = c
    BY <2>1 DEF LockInv, Exclusive, CallsLocked, Past
  <2>3. \A w \in Workers : c # <<j, w>>
    BY NamesAssumption
  <2>4. QED
    BY <1>1, <2>2, <2>3 DEF Killed
<1>6. TasksCover'
  BY <1>1 DEF LockInv, Exclusive, TasksCover, Gathering
<1>7. LaunchesAlone'
  <2>1. \A c \in Threads : Launching(c) => call[c].job # j
    BY DEF LockInv, Exclusive, LaunchesAlone, Gathering
  <2>2. \A c \in Threads : Launching(c) => call[c].job \in Jobs
    BY CallTypes DEF Launching
  <2>3. QED
    BY <2>1, <2>2 DEF LockInv, Exclusive, LaunchesAlone, Launching
<1>8. \A o \in db' : Held(o) => o \in db /\ o.own \notin {<<j, w>> : w \in Killed(j)}
  BY <1>1, AbandonHeld DEF Held
<1>9. Awaited'
  <2>1. ASSUME NEW o \in db', Held(o)
        PROVE  \E w \in Workers : o.own = <<o.job, w>> /\ wk'[o.job][w].pc = "append"
    <3>1. PICK w \in Workers : o.own = <<o.job, w>> /\ wk[o.job][w].pc = "append"
      BY <1>8, <2>1 DEF LockInv, Awaited
    <3>2. o.job \in Jobs
      BY <1>8, <2>1 DEF TypeOK, Operation
    <3>3. CASE o.job = j
      <4>1. w \notin Killed(j) /\ ~wk[j][w].bare
        BY <1>8, <2>1, <3>1, <3>3 DEF Killed
      <4>2. wk'[j][w].pc = "append"
        <5>1. wk'[j][w] = [wk[j][w] EXCEPT !.bare = TRUE]
          BY <1>1, <3>1, <3>3, <4>1 DEF CancelWorker
        <5>2. QED
          BY <1>2, <3>1, <3>3, <5>1 DEF Worker
      <4>3. QED
        BY <3>1, <3>3, <4>2
    <3>4. QED
      BY <1>1, <3>1, <3>2, <3>3
  <2>2. QED
    BY <1>8, <2>1 DEF LockInv, Awaited, Held
<1>10. QED
  BY <1>4, <1>5, <1>6, <1>7, <1>9 DEF LockInv, Exclusive

LEMMA RunTasksLock ==
    ASSUME TypeOK, LockInv, RunTasks
    PROVE  LockInv'
<1>1. PICK j \in Jobs :
         \/ StartJob(j) \/ StartWorkers(j) \/ Gathered(j) \/ Drain(j)
         \/ Drained(j) \/ Executed(j) \/ Saved(j) \/ Post(j) \/ Posted(j)
         \/ Interrupt(j) \/ InterruptGather(j)
  BY DEF RunTasks
<1>2. run[j] \in RunTask
  BY DEF TypeOK
<1>3. run[j].pc \notin Gathering => \A w \in Workers : wk[j][w].pc = "off"
  BY DEF LockInv, Exclusive, TasksCover, Gathering
\* A step outside of the gathers, or out of them when the workers are off.
<1>4. ASSUME NEW ops, LeftEffect(j, ops), \A o \in ops : Held(o) => o \in db,
             \A w \in Workers : wk[j][w].pc = "off",
             run[j].pc # "idle", UNCHANGED <<wk, lock>>
      PROVE  LockInv'
  BY <1>4, TaskLock DEF LeftEffect
<1>5. \A p : Held(Update(j, p)) => FALSE
  BY UpdateNotHeld
<1>6. CASE StartJob(j)
  <2>1. /\ run[j].pc = "sem" /\ UNCHANGED <<wk, lock, call>>
        /\ db' = db \union {Update(j, j)}
        /\ \A k \in Jobs \ {j} : run'[k] = run[k]
    BY <1>6 DEF StartJob, TypeOK
  <2>2. LeftEffect(j, db)
    BY <1>5, <2>1 DEF LeftEffect
  <2>3. QED
    BY <1>3, <1>4, <2>1, <2>2 DEF Gathering
<1>7. CASE StartWorkers(j)
  <2>1. /\ run[j].pc = "begin" /\ UNCHANGED <<db, lock, call>>
        /\ \A k \in Jobs \ {j} : run'[k] = run[k] /\ wk'[k] = wk[k]
        /\ \A w \in Workers : wk'[j][w].pc = "next"
        /\ run'[j].pc = "gather"
    BY <1>7 DEF StartWorkers, TypeOK, RunTask, Off
  <2>2. \A w \in Workers : wk[j][w].pc = "off"
    BY <1>3, <2>1 DEF Gathering
  <2>3. WritesLocked' /\ CallsLocked'
    BY <2>1 DEF LockInv, Exclusive, WritesLocked, CallsLocked
  <2>4. TasksCover'
    BY <2>1 DEF LockInv, Exclusive, TasksCover
  <2>5. LaunchesAlone'
    <3>1. \A c \in Threads : Launching(c) => call[c].job # j
      BY <2>1 DEF LockInv, Exclusive, LaunchesAlone
    <3>2. \A c \in Threads : Launching(c) => call[c].job \in Jobs
      BY CallTypes DEF Launching
    <3>3. QED
      BY <2>1, <3>1, <3>2 DEF LockInv, Exclusive, LaunchesAlone, Launching
  <2>6. \A o \in db' : Held(o) => o \in db /\ o.job \in Jobs \ {j}
    BY <2>1, <2>2 DEF LockInv, Awaited, TypeOK, Operation
  <2>7. Awaited'
    BY <2>1, <2>6, AwaitedKept DEF LockInv
  <2>8. QED
    BY <2>3, <2>4, <2>5, <2>7 DEF LockInv, Exclusive
<1>8. CASE Gathered(j)
  <2>1. /\ run[j].pc = "gather" /\ UNCHANGED <<wk, lock, call>> /\ AllOff(j)
        /\ db' = db \union {Update(j, j)}
        /\ \A k \in Jobs \ {j} : run'[k] = run[k]
    BY <1>8 DEF Gathered, TypeOK
  <2>2. LeftEffect(j, db)
    BY <1>5, <2>1 DEF LeftEffect
  <2>3. QED
    BY <1>4, <2>1, <2>2 DEF AllOff
<1>9. CASE Drain(j)
  <2>1. /\ run[j].pc \in Gathering /\ CancelWorkers(j) /\ call' = call
        /\ \A k \in Jobs \ {j} : run'[k] = run[k]
        /\ run'[j].pc \in Gathering
    BY <1>9 DEF Drain, TypeOK, RunTask, Gathering
  <2>2. QED
    BY <2>1, CancelWorkersLock
<1>10. CASE Drained(j)
  <2>1. /\ run[j].pc = "drain" /\ UNCHANGED <<wk, lock, call>> /\ AllOff(j)
        /\ db' = db \union {Update(j, j)}
        /\ \A k \in Jobs \ {j} : run'[k] = run[k]
    BY <1>10 DEF Drained, TypeOK
  <2>2. LeftEffect(j, db)
    BY <1>5, <2>1 DEF LeftEffect
  <2>3. QED
    BY <1>4, <2>1, <2>2 DEF AllOff
<1>11. CASE Executed(j)
  <2>1. run[j].pc = "final" /\ UNCHANGED <<wk, lock>> /\ LeftEffect(j, db)
    BY <1>11, LeftByLeave DEF Executed
  <2>2. QED
    BY <1>3, <1>4, <2>1 DEF Gathering
<1>12. CASE Saved(j)
  <2>1. run[j].pc = "save" /\ UNCHANGED <<wk, lock>> /\ LeftEffect(j, db)
    BY <1>12, LeftByGoto, LeftByFinish DEF Saved
  <2>2. QED
    BY <1>3, <1>4, <2>1 DEF Gathering
<1>13. CASE Post(j)
  <2>1. /\ run[j].pc = "hook" /\ UNCHANGED <<wk, lock, call>>
        /\ \A o \in db' : o \in db \/ o = Update(j, j)
        /\ \A k \in Jobs \ {j} : run'[k] = run[k]
    BY <1>13 DEF Post, TypeOK
  <2>2. LeftEffect(j, db)
    BY <1>5, <2>1 DEF LeftEffect
  <2>3. QED
    BY <1>3, <1>4, <2>1, <2>2 DEF Gathering
<1>14. CASE Posted(j)
  <2>1. run[j].pc = "hookSave" /\ UNCHANGED <<wk, lock>>
    BY <1>14 DEF Posted
  <2>2. LeftEffect(j, db)
    BY <1>14, LeftByGoto, LeftByFinish DEF Posted
  <2>3. QED
    BY <1>3, <1>4, <2>1, <2>2 DEF Gathering
<1>15. CASE Interrupt(j)
  <2>1. /\ run[j].pc \notin Gathering /\ run[j].pc # "idle"
        /\ UNCHANGED <<wk, lock>>
    BY <1>15 DEF Interrupt, Gathering
  <2>2. LeftEffect(j, Abandon({j})) \/ LeftEffect(j, Detach(j))
    BY <1>15, LeftByLeave, LeftByCancel, LeftByFinish DEF Interrupt
  <2>3. /\ \A o \in Abandon({j}) : Held(o) => o \in db
        /\ \A o \in Detach(j) : Held(o) => o \in db
    BY AbandonHeld, DetachHeld DEF Held, LockInv
  <2>4. QED
    BY <1>3, <1>4, <2>1, <2>2, <2>3
<1>16. CASE InterruptGather(j)
  <2>1. /\ run[j].pc \in Gathering /\ run'[j].pc \in Gathering
        /\ \A k \in Jobs \ {j} : run'[k] = run[k]
        /\ call' = call
    BY <1>16 DEF InterruptGather, TypeOK, RunTask, Gathering
  <2>2. CASE CancelWorkers(j)
    BY <2>1, <2>2, CancelWorkersLock
  <2>3. CASE UNCHANGED <<wk, lock, db>>
    BY <2>1, <2>3, TaskLock DEF Gathering
  <2>4. QED
    BY <1>16, <2>2, <2>3 DEF InterruptGather
<1>17. QED
  BY <1>1, <1>6, <1>7, <1>8, <1>9, <1>10, <1>11, <1>12, <1>13, <1>14, <1>15,
     <1>16

LEMMA StorageLock ==
    ASSUME TypeOK, LockInv, Storage
    PROVE  LockInv'
<1>1. PICK o \in db : StartOp(o) \/ ApplyUpdate(o) \/ ApplyAppend(o)
  BY DEF Storage
<1>2. o \in Operation /\ o.job \in Jobs
  BY DEF TypeOK, Operation
<1>3. ASSUME UNCHANGED <<wk, lock, call, run>>, Awaited'
      PROVE  LockInv'
  BY <1>3 DEF LockInv, Exclusive, WritesLocked, CallsLocked, TasksCover,
     LaunchesAlone, Launching
<1>4. CASE StartOp(o)
  <2> DEFINE q == [o EXCEPT !.stage = "started",
                            !.val = IF o.kind = "update" THEN mem[o.job] ELSE @]
  <2>1. /\ db' = (db \ {o}) \union {q}
        /\ UNCHANGED <<wk, lock, call, run>>
    BY <1>4 DEF StartOp
  <2>2. /\ q.kind = o.kind /\ q.job = o.job /\ q.live = o.live
        /\ q.own = o.own
    BY <1>2 DEF Operation
  <2> HIDE DEF q
  <2>3. Awaited'
    BY <2>1, <2>2 DEF LockInv, Awaited, Held
  <2>4. QED
    BY <1>3, <2>1, <2>3
<1>5. CASE ApplyUpdate(o)
  <2>1. UNCHANGED <<wk, lock, call, run>> /\ db' \subseteq db
    BY <1>5 DEF ApplyUpdate
  <2>2. QED
    BY <1>3, <2>1, AwaitedKept DEF LockInv
<1>6. CASE ApplyAppend(o)
  <2>1. UNCHANGED <<lock, call, run>> /\ db' = db \ {o} /\ o.kind = "append"
    BY <1>6 DEF ApplyAppend
  <2>2. CASE UNCHANGED wk
    BY <1>3, <2>1, <2>2, AwaitedKept DEF LockInv
  <2>3. CASE o.live /\ wk' = [wk EXCEPT ![o.job][o.own[2]].pc = "dup"]
    <3>1. PICK w \in Workers : o.own = <<o.job, w>> /\ wk[o.job][w].pc = "append"
      BY <2>1, <2>3 DEF LockInv, Awaited, Held
    <3>2. lock = <<o.job, w>>
      BY <1>2, <3>1 DEF LockInv, Exclusive, WritesLocked
    <3>3. /\ \A k \in Jobs \ {o.job} : wk'[k] = wk[k]
          /\ \A v \in Workers \ {w} : wk'[o.job][v] = wk[o.job][v]
      BY <2>3, <3>1 DEF TypeOK
    <3>4. WritesLocked'
      BY <2>1, <3>2, <3>3 DEF LockInv, Exclusive, WritesLocked
    <3>5. CallsLocked'
      BY <2>1 DEF LockInv, Exclusive, CallsLocked
    <3>6. run[o.job].pc \in Gathering
      BY <1>2, <3>1 DEF LockInv, Exclusive, TasksCover, Gathering
    <3>7. TasksCover'
      BY <2>1, <3>3, <3>6 DEF LockInv, Exclusive, TasksCover, Gathering
    <3>8. LaunchesAlone'
      BY <2>1 DEF LockInv, Exclusive, LaunchesAlone, Launching
    <3>9. Awaited'
      <4>1. ASSUME NEW q \in db', Held(q)
            PROVE  \E v \in Workers : q.own = <<q.job, v>>
                                        /\ wk'[q.job][v].pc = "append"
        <5>1. PICK v \in Workers : q.own = <<q.job, v>> /\ wk[q.job][v].pc = "append"
          BY <2>1, <4>1 DEF LockInv, Awaited
        <5>2. q # o /\ q \in db /\ q.job \in Jobs
          BY <2>1 DEF TypeOK, Operation
        <5>3. q.own # o.own
          BY <2>1, <2>3, <4>1, <5>2 DEF LockInv, Awaited, Held
        <5>4. QED
          BY <3>1, <3>3, <5>1, <5>2, <5>3
      <4>2. QED
        BY <2>1, <4>1 DEF LockInv, Awaited, Held
    <3>10. QED
      BY <3>4, <3>5, <3>7, <3>8, <3>9 DEF LockInv, Exclusive
  <2>4. QED
    BY <1>6, <2>2, <2>3 DEF ApplyAppend
<1>7. QED
  BY <1>1, <1>4, <1>5, <1>6

\* A step of the worker w of j which is not cancelled: the other workers stay,
\* and what is awaited is w's own append, if anything is new.
LEMMA WorkerLock ==
    ASSUME TypeOK, LockInv, NEW j \in Jobs, NEW w \in Workers,
           wk[j][w].pc # "off",
           \A k \in Jobs \ {j} : wk'[k] = wk[k],
           \A v \in Workers \ {w} : wk'[j][v] = wk[j][v],
           \A k \in Jobs : run'[k].pc = run[k].pc,
           call' = call,
           \/ lock' = lock /\ (wk'[j][w].pc \in Writing => lock = <<j, w>>)
           \/ lock = NoProc /\ lock' = <<j, w>>
           \/ lock = <<j, w>> /\ lock' = NoProc /\ wk'[j][w].pc \notin Writing,
           Awaited'
    PROVE  LockInv'
<1>1. NoProc \notin Threads /\ <<j, w>> \notin Threads
      /\ \A k \in Jobs, v \in Workers : <<k, v>> # NoProc
  BY NamesAssumption
<1>2. WritesLocked'
  <2>1. SUFFICES ASSUME NEW k \in Jobs, NEW v \in Workers,
                        wk'[k][v].pc \in Writing
                 PROVE  lock' = <<k, v>>
    BY DEF WritesLocked, Writing
  <2>2. CASE k = j /\ v = w
    BY <1>1, <2>1, <2>2
  <2>3. CASE ~(k = j /\ v = w)
    <3>1. wk'[k][v] = wk[k][v]
      BY <2>3
    <3>2. lock = <<k, v>>
      BY <2>1, <3>1 DEF LockInv, Exclusive, WritesLocked, Writing
    <3>3. QED
      BY <1>1, <2>3, <3>2
  <2>4. QED
    BY <2>2, <2>3
<1>3. CallsLocked'
  BY <1>1 DEF LockInv, Exclusive, CallsLocked
<1>4. TasksCover'
  BY DEF LockInv, Exclusive, TasksCover
<1>5. LaunchesAlone'
  <2>1. \A c \in Threads : Launching(c) => call[c].job \in Jobs
    BY CallTypes DEF Launching
  <2>2. QED
    BY <2>1 DEF LockInv, Exclusive, LaunchesAlone, Launching
<1>6. QED
  BY <1>2, <1>3, <1>4, <1>5 DEF LockInv, Exclusive

\* A worker with no append to wait for goes on.
LEMMA WorkerAwaited ==
    ASSUME TypeOK, Awaited, NEW j \in Jobs, NEW w \in Workers,
           \/ wk[j][w].pc # "append"
           \/ \A o \in db : o.own = <<j, w>> => ~o.live,
           \A k \in Jobs \ {j} : wk'[k] = wk[k],
           \A v \in Workers \ {w} : wk'[j][v] = wk[j][v],
           \A o \in db' : Held(o) => o \in db
    PROVE  Awaited'
<1>1. ASSUME NEW o \in db', Held(o)
      PROVE  \E v \in Workers : o.own = <<o.job, v>> /\ wk'[o.job][v].pc = "append"
  <2>1. PICK v \in Workers : o.own = <<o.job, v>> /\ wk[o.job][v].pc = "append"
    BY <1>1 DEF Awaited
  <2>2. o \in db /\ o.job \in Jobs
    BY <1>1 DEF TypeOK, Operation
  <2>3. ~(o.job = j /\ v = w)
    BY <1>1, <2>1, <2>2 DEF Held
  <2>4. QED
    BY <2>1, <2>2, <2>3
<1>2. QED
  BY <1>1 DEF Awaited, Held

LEMMA WorkerTasksLock ==
    ASSUME TypeOK, LockInv, WorkerTasks
    PROVE  LockInv'
<1>1. PICK j \in Jobs, w \in Workers :
         \/ Take(j, w) \/ Collected(j, w) \/ Persist(j, w) \/ Appended(j, w)
         \/ Counted(j, w) \/ Duplicate(j, w) \/ Die(j, w)
  BY DEF WorkerTasks
<1>2. wk[j][w] \in Worker /\ run[j] \in RunTask
  BY DEF TypeOK
<1>3. \A s : SetWorker(j, w, s) =>
        /\ \A k \in Jobs \ {j} : wk'[k] = wk[k]
        /\ \A v \in Workers \ {w} : wk'[j][v] = wk[j][v]
        /\ wk'[j][w] = s
  BY DEF SetWorker, TypeOK
<1>4. /\ Off.pc = "off"
      /\ \A p : [Off EXCEPT !.pc = p].pc = p
      /\ \A p, i : [Off EXCEPT !.pc = p, !.item = i].pc = p
      /\ \A p : [wk[j][w] EXCEPT !.pc = p].pc = p
  BY <1>2 DEF Off, Worker
<1>5. wk[j][w].pc \in Writing => lock = <<j, w>>
  BY DEF LockInv, Exclusive, WritesLocked, Writing
<1>6. CASE Take(j, w)
  <2>1. \A k \in Jobs : run'[k].pc = run[k].pc
    <3>1. \A l : [run[j] EXCEPT !.left = l].pc = run[j].pc
      BY <1>2 DEF RunTask
    <3>2. run' = run \/ \E l : run' = [run EXCEPT ![j] = [run[j] EXCEPT !.left = l]]
      BY <1>6 DEF Take, TypeOK
    <3>3. QED
      BY <3>1, <3>2 DEF TypeOK
  <2>2. /\ wk[j][w].pc = "next" /\ UNCHANGED <<lock, call, db>>
    BY <1>6 DEF Take
  <2>3. /\ \A k \in Jobs \ {j} : wk'[k] = wk[k]
        /\ \A v \in Workers \ {w} : wk'[j][v] = wk[j][v]
        /\ wk'[j][w].pc \in {"collect", "off"}
    <3>1. CASE SetWorker(j, w, Off)
      BY <1>3, <1>4, <3>1
    <3>2. ASSUME NEW i, SetWorker(j, w, [Off EXCEPT !.pc = "collect", !.item = i])
          PROVE  /\ \A k \in Jobs \ {j} : wk'[k] = wk[k]
                 /\ \A v \in Workers \ {w} : wk'[j][v] = wk[j][v]
                 /\ wk'[j][w].pc = "collect"
      <4> DEFINE s == [Off EXCEPT !.pc = "collect", !.item = i]
      <4>1. s.pc = "collect"
        BY DEF Off
      <4> HIDE DEF s
      <4>2. SetWorker(j, w, s)
        BY <3>2 DEF s
      <4>3. QED
        BY <1>3, <4>1, <4>2
    <3>3. QED
      BY <1>6, <3>1, <3>2 DEF Take
  <2>4. Awaited'
    BY <2>2, <2>3, WorkerAwaited DEF LockInv
  <2>5. QED
    BY <2>1, <2>2, <2>3, <2>4, WorkerLock DEF Writing
<1>7. CASE Collected(j, w)
  <2>1. \A k \in Jobs : run'[k].pc = run[k].pc
    <3> DEFINE n == IF run[j].argus < ArgusLimit THEN run[j].argus + 1
                    ELSE run[j].argus
    <3>1. \/ run' = run
          \/ run' = [run EXCEPT ![j].argus = 0]
          \/ run' = [run EXCEPT ![j].argus = n, ![j].stop = @ \/ n = ArgusLimit]
      BY <1>7, SizesAssumption DEF Collected, n
    <3> HIDE DEF n
    <3>2. [run EXCEPT ![j].argus = 0][j].pc = run[j].pc
      BY <1>2 DEF TypeOK, RunTask
    <3>3. [run EXCEPT ![j].argus = n, ![j].stop = @ \/ n = ArgusLimit][j].pc
             = run[j].pc
      BY <1>2 DEF TypeOK, RunTask
    <3>4. run'[j].pc = run[j].pc
      BY <3>1, <3>2, <3>3
    <3>5. \A k \in Jobs \ {j} : run'[k] = run[k]
      BY <3>1 DEF TypeOK
    <3>6. QED
      BY <3>4, <3>5
  <2>2. /\ wk[j][w].pc = "collect" /\ UNCHANGED <<lock, call, db>>
        /\ SetWorker(j, w, [wk[j][w] EXCEPT !.pc = "lock"])
    BY <1>7 DEF Collected
  <2>3. /\ \A k \in Jobs \ {j} : wk'[k] = wk[k]
        /\ \A v \in Workers \ {w} : wk'[j][v] = wk[j][v]
        /\ wk'[j][w].pc = "lock"
    BY <1>3, <1>4, <2>2
  <2>4. Awaited'
    BY <2>2, <2>3, WorkerAwaited DEF LockInv
  <2>5. QED
    BY <2>1, <2>2, <2>3, <2>4, WorkerLock DEF Writing
<1>8. CASE Persist(j, w)
  <2> DEFINE q == Append(j, w, mem[j].completed, wk[j][w].item)
  <2>1. /\ wk[j][w].pc = "lock" /\ lock = NoProc /\ lock' = <<j, w>>
        /\ UNCHANGED <<call, run>> /\ db' = db \union {q}
        /\ SetWorker(j, w, [wk[j][w] EXCEPT !.pc = "append"])
    BY <1>8 DEF Persist
  <2>2. /\ \A k \in Jobs \ {j} : wk'[k] = wk[k]
        /\ \A v \in Workers \ {w} : wk'[j][v] = wk[j][v]
        /\ wk'[j][w].pc = "append"
    BY <1>3, <1>4, <2>1
  <2>3. q.job = j /\ q.own = <<j, w>>
    BY DEF Append
  <2> HIDE DEF q
  <2>4. \A o \in db : Held(o) => o.own # <<j, w>> /\ o.job \in Jobs
    <3>1. SUFFICES ASSUME NEW o \in db, Held(o)
                   PROVE  o.own # <<j, w>> /\ o.job \in Jobs
      OBVIOUS
    <3>2. \E v \in Workers : o.own = <<o.job, v>> /\ wk[o.job][v].pc = "append"
      BY <3>1 DEF LockInv, Awaited
    <3>3. o.job \in Jobs
      BY <3>1 DEF TypeOK, Operation
    <3>4. QED
      BY <2>1, <3>2, <3>3
  <2>5. Awaited'
    <3>1. ASSUME NEW o \in db', Held(o)
          PROVE  \E v \in Workers : o.own = <<o.job, v>>
                                      /\ wk'[o.job][v].pc = "append"
      <4>1. CASE o = q
        BY <2>2, <2>3, <4>1
      <4>2. CASE o # q
        <5>1. o \in db
          BY <2>1, <4>2
        <5>2. PICK v \in Workers : o.own = <<o.job, v>>
                                     /\ wk[o.job][v].pc = "append"
          BY <3>1, <5>1 DEF LockInv, Awaited
        <5>3. o.own # <<j, w>> /\ o.job \in Jobs
          BY <2>4, <3>1, <5>1
        <5>4. QED
          BY <2>2, <5>2, <5>3
      <4>3. QED
        BY <4>1, <4>2
    <3>2. \A o, p \in db' : Held(o) /\ Held(p) /\ o.own = p.own => o = p
      BY <2>1, <2>3, <2>4 DEF LockInv, Awaited
    <3>3. QED
      BY <3>1, <3>2 DEF Awaited, Held
  <2>6. QED
    BY <2>1, <2>2, <2>5, WorkerLock
<1>9. CASE Appended(j, w)
  <2>1. /\ wk[j][w].pc = "append" /\ UNCHANGED <<lock, call, run>>
        /\ db' = db \union {Update(j, <<j, w>>)}
        /\ SetWorker(j, w, [wk[j][w] EXCEPT !.pc = "count"])
        /\ \A o \in db : o.own = <<j, w>> => ~o.live
    BY <1>9 DEF Appended, Waiting
  <2>2. /\ \A k \in Jobs \ {j} : wk'[k] = wk[k]
        /\ \A v \in Workers \ {w} : wk'[j][v] = wk[j][v]
        /\ wk'[j][w].pc = "count"
    BY <1>3, <1>4, <2>1
  <2>3. \A o \in db' : Held(o) => o \in db
    BY <2>1, UpdateNotHeld
  <2>4. Awaited'
    BY <2>1, <2>2, <2>3, WorkerAwaited DEF LockInv
  <2>5. QED
    BY <1>5, <2>1, <2>2, <2>4, WorkerLock DEF Writing
<1>10. CASE Counted(j, w) \/ Duplicate(j, w) \/ Die(j, w)
  <2>1. \A k \in Jobs : run'[k].pc = run[k].pc
    <3>1. \A e : [run[j] EXCEPT !.exc = e].pc = run[j].pc
      BY <1>2 DEF RunTask
    <3>2. run' = run \/ \E e : run' = [run EXCEPT ![j] = [run[j] EXCEPT !.exc = e]]
      BY <1>10 DEF Counted, Duplicate, Die, TypeOK
    <3>3. QED
      BY <3>1, <3>2 DEF TypeOK
  <2>2. /\ wk[j][w].pc \in {"count", "dup", "dying"} /\ UNCHANGED <<call, db>>
        /\ wk[j][w].pc = "dying" => lock' = lock
        /\ wk[j][w].pc # "dying" => lock' = NoProc
        /\ \E s : SetWorker(j, w, s) /\ s.pc \in {"next", "off"}
    BY <1>4, <1>10 DEF Counted, Duplicate, Die
  <2>3. /\ \A k \in Jobs \ {j} : wk'[k] = wk[k]
        /\ \A v \in Workers \ {w} : wk'[j][v] = wk[j][v]
        /\ wk'[j][w].pc \in {"next", "off"}
    BY <1>3, <2>2
  <2>4. Awaited'
    BY <2>2, <2>3, WorkerAwaited DEF LockInv
  <2>5. QED
    BY <1>5, <2>1, <2>2, <2>3, <2>4, WorkerLock DEF Writing
<1>11. QED
  BY <1>1, <1>6, <1>7, <1>8, <1>9, <1>10

LEMMA StraysLock ==
    ASSUME TypeOK, LockInv, Strays
    PROVE  LockInv'
<1>1. PICK r \in stray : StrayPost(r)
  BY DEF Strays
<1>2. UNCHANGED <<wk, lock, call, run>>
  BY <1>1 DEF StrayPost
<1>3. \A o \in db' : Held(o) => o \in db
  <2>1. PICK h \in {"sent", "failed"} :
           db' = db \union {[Update(r.job, NoProc) EXCEPT
                               !.stage = "started",
                               !.val = [r.val EXCEPT !.webhook = h]]}
    BY <1>1 DEF StrayPost
  <2>2. \A v : [Update(r.job, NoProc) EXCEPT !.stage = "started",
                                            !.val = v].kind = "update"
    BY DEF Update
  <2>3. QED
    BY <2>1, <2>2 DEF Held
<1>4. QED
  BY <1>2, <1>3, AwaitedKept DEF LockInv, Exclusive, WritesLocked, CallsLocked,
     TasksCover, LaunchesAlone, Launching

-----------------------------------------------------------------------------
(* Calls *)

\* A step of the call c, which may take the lock, give it back or, holding it,
\* create the run task of a job without one.
LEMMA CallLock ==
    ASSUME TypeOK, LockInv, NEW c \in Threads,
           wk' = wk,
           \A d \in Threads \ {c} : call'[d] = call[d],
           \A k \in Jobs : \/ run'[k].pc = run[k].pc
                           \/ run[k].pc = "idle" /\ lock = c,
           \/ lock' = lock /\ (Past(c)' => lock = c)
           \/ lock = NoProc /\ lock' = c
           \/ lock = c /\ lock' = NoProc /\ ~Past(c)',
           Launching(c)' => run'[call'[c].job].pc = "idle",
           \A o \in db' : Held(o) => o \in db
    PROVE  LockInv'
<1>1. c # NoProc /\ \A k \in Jobs, w \in Workers : <<k, w>> # NoProc /\ <<k, w>> # c
  BY NamesAssumption
<1>2. WritesLocked'
  BY <1>1 DEF LockInv, Exclusive, WritesLocked
<1>3. CallsLocked'
  <2>1. NoProc \notin Threads
    BY NamesAssumption
  <2>2. \A d \in Threads : Past(d) => lock = d
    BY DEF LockInv, Exclusive, CallsLocked, Past
  <2>3. ASSUME NEW d \in Threads \ {c}, Past(d)'
        PROVE  lock' = d
    BY <2>1, <2>2, <2>3 DEF Past
  <2>4. Past(c)' => lock' = c
    OBVIOUS
  <2>5. QED
    BY <2>3, <2>4 DEF CallsLocked, Past
<1>4. TasksCover'
  BY DEF LockInv, Exclusive, TasksCover
<1>5. LaunchesAlone'
  <2>1. ASSUME NEW d \in Threads \ {c}, Launching(d)'
        PROVE  run'[call'[d].job].pc = "idle"
    <3>1. Launching(d) /\ call'[d] = call[d]
      BY <2>1 DEF Launching
    <3>2. call[d].job \in Jobs /\ run[call[d].job].pc = "idle"
      BY <3>1, CallTypes DEF Launching, LockInv, Exclusive, LaunchesAlone
    <3>3. lock = d
      BY <3>1 DEF Launching, LockInv, Exclusive, CallsLocked
    <3>4. QED
      BY <3>1, <3>2, <3>3
  <2>2. QED
    BY <2>1 DEF LaunchesAlone
<1>6. Awaited'
  BY AwaitedKept DEF LockInv
<1>7. QED
  BY <1>2, <1>3, <1>4, <1>5, <1>6 DEF LockInv, Exclusive

LEMMA CallTasksLock ==
    ASSUME TypeOK, KnownJobs, LockInv, CallTasks
    PROVE  LockInv'
<1>1. PICK c \in Threads :
         \/ Acquire(c) \/ FindKey(c) \/ CreateJob(c) \/ LaunchNew(c)
         \/ ReadJob(c) \/ CheckCancel(c) \/ CancelTask(c) \/ CheckResume(c)
         \/ ReadRows(c) \/ ResetJob(c) \/ LaunchResumed(c)
  BY DEF CallTasks
<1> DEFINE j == call[c].job
<1>2. call[c].pc # "idle"
  BY <1>1 DEF Acquire, FindKey, CreateJob, LaunchNew, ReadJob, CheckCancel,
     CancelTask, CheckResume, ReadRows, ResetJob, LaunchResumed
<1>3. j \in Jobs /\ call[c] \in Call
  BY <1>2, CallTypes DEF TypeOK
<1>4. Past(c) => lock = c
  BY DEF LockInv, Exclusive, CallsLocked, Past
<1>5. \A r : SetCall(c, r) => call'[c] = r /\ \A d \in Threads \ {c} : call'[d] = call[d]
  BY DEF SetCall, TypeOK
<1>6. ASSUME Respond(c), Past(c), wk' = wk,
             \A k \in Jobs : \/ run'[k].pc = run[k].pc
                             \/ run[k].pc = "idle",
             \A o \in db' : Held(o) => o \in db
      PROVE  LockInv'
  <2>1. lock = c /\ lock' = NoProc /\ call'[c] = NoCall
    BY <1>4, <1>5, <1>6 DEF Respond
  <2>2. ~Past(c)' /\ ~Launching(c)'
    BY <2>1 DEF Past, Launching, NoCall
  <2>3. \A d \in Threads \ {c} : call'[d] = call[d]
    BY <1>5, <1>6 DEF Respond
  <2>4. QED
    BY <1>6, <2>1, <2>2, <2>3, CallLock
<1>7. ASSUME NEW r, SetCall(c, r), Past(c), UNCHANGED <<wk, run, lock>>,
             r.job = j,
             \/ r.pc \in {"launch", "rows", "build"}
             \/ r.pc = "save" /\ r.op = "resume"
             => run[j].pc = "idle",
             \A o \in db' : Held(o) => o \in db
      PROVE  LockInv'
  <2>1. call'[c] = r /\ \A d \in Threads \ {c} : call'[d] = call[d]
    BY <1>5, <1>7
  <2>2. Launching(c)' => run'[call'[c].job].pc = "idle"
    BY <1>7, <2>1 DEF Launching
  <2>3. QED
    BY <1>4, <1>7, <2>1, <2>2, CallLock
<1>8. \A p : LET r == [call[c] EXCEPT !.pc = p]
             IN  r.op = call[c].op /\ r.job = j /\ r.pc = p
  BY <1>3 DEF Call, NoCall
<1>9. CASE Acquire(c)
  <2>1. /\ lock = NoProc /\ lock' = c /\ UNCHANGED <<wk, run, db>>
        /\ SetCall(c, [call[c] EXCEPT !.pc = "read"])
    BY <1>9 DEF Acquire
  <2>2. call'[c].pc = "read" /\ \A d \in Threads \ {c} : call'[d] = call[d]
    BY <1>5, <1>8, <2>1
  <2>3. ~Launching(c)'
    BY <2>2 DEF Launching
  <2>4. QED
    BY <2>1, <2>2, <2>3, CallLock
<1>10. CASE FindKey(c)
  <2>1. Past(c) /\ UNCHANGED <<wk, run, db>>
    BY <1>10 DEF FindKey, Past
  <2>2. CASE Respond(c)
    BY <1>6, <2>1, <2>2
  <2>3. CASE SetCall(c, [call[c] EXCEPT !.pc = "insert"]) /\ UNCHANGED lock
    BY <1>7, <1>8, <2>1, <2>3
  <2>4. QED
    BY <1>10, <2>2, <2>3 DEF FindKey
<1>11. CASE CreateJob(c)
  <2>1. Past(c) /\ UNCHANGED <<wk, run, db>>
    BY <1>11 DEF CreateJob, Past
  <2>2. CASE Respond(c)
    BY <1>6, <2>1, <2>2
  <2>3. CASE /\ KeyHolders(j) = {}
             /\ SetCall(c, [call[c] EXCEPT !.pc = "launch"]) /\ UNCHANGED lock
    <3>1. repo[j] = NoJob
      BY <1>3, <2>3 DEF KeyHolders
    <3>2. run[j].pc = "idle"
      BY <1>3, <3>1 DEF KnownJobs, MemKnown, RunKnown
    <3>3. QED
      BY <1>7, <1>8, <2>1, <2>3, <3>2
  <2>4. QED
    BY <1>11, <2>2, <2>3 DEF CreateJob
<1>12. CASE LaunchNew(c) \/ LaunchResumed(c)
  <2>1. /\ Past(c) /\ Launching(c) /\ UNCHANGED <<wk, db>> /\ Respond(c)
        /\ \E v, pending : Launch(j, v, pending)
    BY <1>12 DEF LaunchNew, LaunchResumed, Past, Launching
  <2>2. run[j].pc = "idle"
    BY <2>1 DEF LockInv, Exclusive, LaunchesAlone
  <2>3. \A k \in Jobs \ {j} : run'[k] = run[k]
    BY <2>1 DEF Launch, TypeOK
  <2>4. QED
    BY <1>6, <2>1, <2>2, <2>3
<1>13. CASE ReadJob(c)
  <2>1. LET r == [call[c] EXCEPT !.pc = "check", !.seen = repo[j]]
        IN  r.job = j /\ r.pc = "check"
    BY <1>3 DEF Call, NoCall
  <2>2. QED
    BY <1>7, <1>13, <2>1 DEF ReadJob, Past
<1>14. CASE CheckCancel(c)
  <2>1. Past(c) /\ call[c].op = "cancel" /\ UNCHANGED <<wk, run>>
    BY <1>14 DEF CheckCancel, Past
  <2>2. CASE Respond(c) /\ UNCHANGED db
    BY <1>6, <2>1, <2>2
  <2>3. CASE /\ db' = db \union {Update(j, c)}
             /\ SetCall(c, [call[c] EXCEPT !.pc = "save"])
             /\ UNCHANGED lock
    <3> DEFINE r == [call[c] EXCEPT !.pc = "save"]
    <3>1. r.job = j /\ r.pc = "save" /\ r.op = "cancel"
      BY <1>8, <2>1
    <3>2. \A o \in db' : Held(o) => o \in db
      BY <1>3, <2>3, UpdateNotHeld
    <3>3. SetCall(c, r) /\ UNCHANGED <<wk, run, lock>>
      BY <2>1, <2>3
    <3> HIDE DEF r
    <3>4. QED
      BY <1>7, <2>1, <3>1, <3>2, <3>3
  <2>4. QED
    BY <1>14, <2>2, <2>3 DEF CheckCancel
<1>15. CASE CancelTask(c)
  <2>1. /\ Past(c) /\ UNCHANGED <<wk, db>> /\ lock' = NoProc
        /\ call[c].op = "cancel"
    BY <1>15 DEF CancelTask, Past
  <2>2. \A k \in Jobs : run'[k].pc = run[k].pc
    <3>1. [run[j] EXCEPT !.cause = @ \union {"cancel"}, !.intr = TRUE].pc = run[j].pc
      BY <1>3 DEF TypeOK, RunTask
    <3>2. run' = run \/ run' = [run EXCEPT ![j] =
                [run[j] EXCEPT !.cause = @ \union {"cancel"}, !.intr = TRUE]]
      BY <1>3, <1>15 DEF CancelTask, TypeOK
    <3>3. QED
      BY <3>1, <3>2 DEF TypeOK
  <2>3. /\ \A d \in Threads \ {c} : call'[d] = call[d]
        /\ call'[c].pc \in {"idle", "join"}
    <3>1. CASE SetCall(c, NoCall)
      BY <1>5, <3>1 DEF NoCall
    <3>2. CASE SetCall(c, [call[c] EXCEPT !.pc = "join"])
      BY <1>5, <1>8, <3>2
    <3>3. QED
      BY <1>15, <3>1, <3>2 DEF CancelTask
  <2>4. ~Past(c)' /\ ~Launching(c)'
    BY <2>3 DEF Past, Launching
  <2>5. QED
    BY <1>4, <2>1, <2>2, <2>3, <2>4, CallLock
<1>16. CASE CheckResume(c)
  <2>1. Past(c) /\ UNCHANGED <<wk, run, db>>
    BY <1>16 DEF CheckResume, Past
  <2>2. CASE Respond(c)
    BY <1>6, <2>1, <2>2
  <2>3. CASE /\ run[j].pc = "idle" /\ UNCHANGED lock
             /\ SetCall(c, [call[c] EXCEPT !.pc = "rows"])
    BY <1>7, <1>8, <2>1, <2>3
  <2>4. QED
    BY <1>16, <2>2, <2>3 DEF CheckResume
<1>17. CASE ReadRows(c)
  <2>1. LET r == [call[c] EXCEPT !.pc = "build", !.done = Done(j),
                              !.seen.completed = Cardinality(Filled(j))]
        IN  r.job = j /\ r.pc = "build"
    BY <1>3 DEF Call, NoCall
  <2>2. Past(c) /\ Launching(c)
    BY <1>17 DEF ReadRows, Past, Launching
  <2>3. run[j].pc = "idle"
    BY <2>2 DEF LockInv, Exclusive, LaunchesAlone
  <2>4. QED
    BY <1>7, <1>17, <2>1, <2>2, <2>3 DEF ReadRows
<1>18. CASE ResetJob(c)
  <2> DEFINE stored == [Fresh(j) EXCEPT !.completed = call[c].seen.completed]
             q == [Update(j, c) EXCEPT !.stage = "started", !.val = stored]
             r == [call[c] EXCEPT !.pc = "save", !.seen = stored]
  <2>1. UNCHANGED <<wk, run, lock>> /\ db' = db \union {q} /\ SetCall(c, r)
    BY <1>18 DEF ResetJob
  <2>2. Past(c) /\ Launching(c)
    BY <1>18 DEF ResetJob, Past, Launching
  <2>3. run[j].pc = "idle"
    BY <2>2 DEF LockInv, Exclusive, LaunchesAlone
  <2>4. r.job = j
    BY <1>3 DEF Call, NoCall
  <2>5. ~Held(q)
    <3> HIDE DEF stored
    <3>1. QED
      BY DEF Held, Update
  <2> HIDE DEF stored, q, r
  <2>6. QED
    BY <1>7, <2>1, <2>2, <2>3, <2>4, <2>5
<1>19. QED
  BY <1>1, <1>9, <1>10, <1>11, <1>12, <1>13, <1>14, <1>15, <1>16, <1>17, <1>18

-----------------------------------------------------------------------------
(* Process stops and starts, and the environment *)

\* The guarded state is as it was; a call may start to wait for the lock.
LEMMA StillLock ==
    ASSUME TypeOK, LockInv, UNCHANGED <<wk, lock, db>>,
           \A k \in Jobs : run'[k].pc = run[k].pc,
           \A c \in Threads : call'[c] = call[c] \/ call'[c].pc = "lock"
    PROVE  LockInv'
<1>1. WritesLocked' /\ TasksCover'
  BY DEF LockInv, Exclusive, WritesLocked, TasksCover
<1>2. CallsLocked'
  BY DEF LockInv, Exclusive, CallsLocked
<1>3. LaunchesAlone'
  <2>1. SUFFICES ASSUME NEW c \in Threads, Launching(c)'
                 PROVE  run'[call'[c].job].pc = "idle"
    BY DEF LaunchesAlone
  <2>2. Launching(c) /\ call'[c] = call[c]
    BY <2>1 DEF Launching
  <2>3. call[c].job \in Jobs /\ run[call[c].job].pc = "idle"
    BY <2>2, CallTypes DEF Launching, LockInv, Exclusive, LaunchesAlone
  <2>4. QED
    BY <2>2, <2>3
<1>4. Awaited'
  BY DEF LockInv, Awaited
<1>5. QED
  BY <1>1, <1>2, <1>3, <1>4 DEF LockInv, Exclusive

\* A stopped process holds nothing.
LEMMA LoseMemoryLock ==
    ASSUME LoseMemory
    PROVE  LockInv'
BY DEF LoseMemory, LockInv, Exclusive, WritesLocked, CallsLocked, TasksCover,
   LaunchesAlone, Launching, Awaited, Idle, Off, NoCall

LEMMA RestartLock ==
    ASSUME TypeOK, LockInv, Restart
    PROVE  LockInv'
<1>1. CASE Closed
  BY <1>1, LoseMemoryLock DEF Closed
<1>2. CASE Recover \/ Ready
  BY <1>2, StillLock DEF Recover, Ready
<1>3. ASSUME NEW j \in Jobs, BootResume(j)
      PROVE  LockInv'
  <2>1. /\ call'[Boot].pc = "lock"
        /\ \A d \in Threads \ {Boot} : call'[d] = call[d]
    BY <1>3 DEF BootResume, SetCall, TypeOK, NoCall, Threads
  <2>2. QED
    BY <1>3, <2>1, StillLock DEF BootResume
<1>4. QED
  BY <1>1, <1>2, <1>3 DEF Restart

LEMMA EnvironmentLock ==
    ASSUME TypeOK, LockInv, Environment
    PROVE  LockInv'
<1>1. ASSUME NEW c \in Callers, NEW j \in Jobs, NEW op \in Ops,
             Request(c, op, j)
      PROVE  LockInv'
  <2>1. /\ call'[c].pc = "lock"
        /\ \A d \in Threads \ {c} : call'[d] = call[d]
    BY <1>1 DEF Request, SetCall, TypeOK, NoCall, Threads
  <2>2. QED
    BY <1>1, <2>1, StillLock DEF Request
<1>2. ASSUME NEW j \in Readers, PollJob(j) \/ PollRows(j)
      PROVE  LockInv'
  BY <1>2, StillLock DEF PollJob, PollRows
<1>3. CASE Crash
  BY <1>3, LoseMemoryLock DEF Crash
<1>4. CASE Close
  <2>1. \A r \in RunTask :
           [r EXCEPT !.cause = @ \union {"cancel"}, !.intr = TRUE].pc = r.pc
    BY DEF RunTask
  <2>2. \A k \in Jobs : run[k] \in RunTask
    BY DEF TypeOK
  <2>3. run' = [k \in Jobs |->
                  IF run[k].pc = "idle" THEN run[k]
                  ELSE [run[k] EXCEPT !.cause = @ \union {"cancel"}, !.intr = TRUE]]
    BY <1>4 DEF Close
  <2>4. \A k \in Jobs : run'[k].pc = run[k].pc
    BY <2>1, <2>2, <2>3
  <2>5. QED
    BY <1>4, <2>4, StillLock DEF Close
<1>5. ASSUME NEW j \in Jobs, Deadline(j)
      PROVE  LockInv'
  <2>1. [run[j] EXCEPT !.cause = @ \union {"timeout"}, !.intr = TRUE].pc = run[j].pc
    BY DEF TypeOK, RunTask
  <2>2. run' = [run EXCEPT ![j] =
              [run[j] EXCEPT !.cause = @ \union {"timeout"}, !.intr = TRUE]]
    BY <1>5 DEF Deadline, TypeOK
  <2>3. \A k \in Jobs : run'[k].pc = run[k].pc
    BY <2>1, <2>2 DEF TypeOK
  <2>4. QED
    BY <1>5, <2>3, StillLock DEF Deadline
<1>6. QED
  BY <1>1, <1>2, <1>3, <1>4, <1>5 DEF Environment, Clients

-----------------------------------------------------------------------------
(* The theorems *)

\* The lock, the workers of a run task and the appends in flight always agree
\* on who is writing a result.
THEOREM LockAgrees == Spec => []LockInv
<1>1. Init => LockInv
  BY DEF Init, LockInv, Exclusive, WritesLocked, CallsLocked, TasksCover,
     LaunchesAlone, Launching, Awaited, Idle, Off, NoCall
<1>2. TypeOK /\ KnownJobs /\ LockInv /\ [Next]_vars => LockInv'
  <2>1. SUFFICES ASSUME TypeOK, KnownJobs, LockInv, [Next]_vars
                 PROVE  LockInv'
    OBVIOUS
  <2>2. CASE Service
    BY <2>1, <2>2, StorageLock, RunTasksLock, StraysLock, WorkerTasksLock,
       CallTasksLock, RestartLock DEF Service
  <2>3. CASE Environment
    BY <2>1, <2>3, EnvironmentLock
  <2>4. CASE UNCHANGED vars
    BY <2>1, <2>4, StillLock DEF vars
  <2>5. QED
    BY <2>1, <2>2, <2>3, <2>4 DEF Next
<1>3. QED
  BY <1>1, <1>2, TypeCorrect, JobsKnown, PTL DEF Spec

\* However cancellations, deadlines and process stops interleave with them,
\* one write or call at a time does what BatchJobManager._lock guards, a run
\* task outlives its workers, and a job never gets a second run task.
THEOREM LockExclusive == Spec => []Exclusive
<1>1. LockInv => Exclusive
  BY DEF LockInv
<1>2. QED
  BY <1>1, LockAgrees, PTL
-----------------------------------------------------------------------------
(***************************************************************************)
(* Whose the operations in flight are.  An update that is awaited is       *)
(* awaited by the run task, the worker or the call that asked for it, at   *)
(* the place where that one waits, so that whoever goes on has none.       *)
(***************************************************************************)

\* The process p is at an await of an update of j.
Awaits(p, j) ==
    \/ p = j /\ run[j].pc \in {"begin", "final", "save", "hookSave"}
    \/ \E w \in Workers : p = <<j, w>> /\ wk[j][w].pc = "count"
    \/ p \in Threads /\ call[p].pc = "save" /\ call[p].job = j
    \/ p = NoProc

OpOwned(o) ==
    /\ o.own \in {o.job} \union ({o.job} \X Workers) \union Threads \union {NoProc}
    /\ o.kind = "append" => o.own \in {o.job} \X Workers
    /\ o.kind = "update" /\ o.live => Awaits(o.own, o.job)
    /\ o.stage = "sent" => o.live
    /\ o.stage = "sent" \/ o.kind = "append" => o.val = NoJob

OwnersInv == \A o \in db : OpOwned(o)

\* An update that a process asks for, and an append.
LEMMA UpdateOwned ==
    ASSUME NEW j \in Jobs, NEW p, Awaits(p, j)'
    PROVE  OpOwned(Update(j, p))'
BY DEF OpOwned, Awaits, Update

LEMMA AppendOwned ==
    ASSUME NEW j \in Jobs, NEW w \in Workers, NEW n, NEW i
    PROVE  OpOwned(Append(j, w, n, i))'
BY DEF OpOwned, Append

\* What was given up is awaited by nobody.
LEMMA DeadOwned ==
    ASSUME TypeOK, OwnersInv, NEW q \in db, q.stage = "started"
    PROVE  OpOwned([q EXCEPT !.live = FALSE])'
<1> DEFINE o == [q EXCEPT !.live = FALSE]
<1>1. q \in Operation
  BY DEF TypeOK
<1>2. /\ o.own = q.own /\ o.job = q.job /\ o.kind = q.kind /\ o.stage = q.stage
      /\ o.val = q.val /\ o.live = FALSE
  BY <1>1 DEF Operation
<1> HIDE DEF o
<1>3. OpOwned(q)
  BY DEF OwnersInv
<1>4. OpOwned(o)'
  BY <1>2, <1>3 DEF OpOwned
<1>5. QED
  BY <1>4 DEF o

\* After a step only those in X have stopped to wait, and no awaited operation
\* is theirs.
LEMMA OwnersStep ==
    ASSUME TypeOK, OwnersInv, NEW X,
           \A k \in Jobs : \A p : p \notin X /\ Awaits(p, k) => Awaits(p, k)',
           \A o \in db' : \/ o \in db /\ (o.own \in X => ~o.live)
                          \/ o \in Abandon(X)
                          \/ OpOwned(o)'
    PROVE  OwnersInv'
<1>1. ASSUME NEW o \in db, o.own \in X => ~o.live
      PROVE  OpOwned(o)'
  <2>1. OpOwned(o) /\ o.job \in Jobs
    BY DEF OwnersInv, TypeOK, Operation
  <2>2. QED
    BY <1>1, <2>1 DEF OpOwned
<1>2. ASSUME NEW o \in Abandon(X)
      PROVE  OpOwned(o)'
  BY <1>1, <1>2, DeadOwned DEF Abandon
<1>3. QED
  BY <1>1, <1>2 DEF OwnersInv

\* The operations of other jobs stay as they are when those of j or of its
\* workers are given up.
OpsOf(j, ops) == {o \in ops : o.job = j}

LEMMA AbandonOthers ==
    ASSUME TypeOK, OwnersInv, NEW j \in Jobs, NEW k \in Jobs \ {j},
           NEW S \in SUBSET ({j} \union ({j} \X Workers))
    PROVE  OpsOf(k, Abandon(S)) = OpsOf(k, db)
<1>1. ASSUME NEW o \in db, o.own \in S
      PROVE  o.job = j
  <2>1. o.own \in {o.job} \union ({o.job} \X Workers) \union Threads \union {NoProc}
    BY DEF OwnersInv, OpOwned
  <2>2. o.job \in Jobs
    BY DEF TypeOK, Operation
  <2>3. QED
    BY <1>1, <2>1, <2>2, NamesAssumption
<1>2. \A q \in db : [q EXCEPT !.live = FALSE].job = q.job
  BY DEF TypeOK, Operation
<1>3. QED
  BY <1>1, <1>2 DEF OpsOf, Abandon

-----------------------------------------------------------------------------
(* The run task *)

\* A step of the run task of j: its workers and the calls that still wait stay.
LEMMA TaskOwners ==
    ASSUME TypeOK, OwnersInv, NEW j \in Jobs, wk' = wk,
           \A k \in Jobs \ {j} : run'[k] = run[k],
           \A c \in Threads : call'[c] = call[c] \/ call[c].pc # "save",
           NEW ops,
           \/ ops = db /\ (run'[j].pc \in {"begin", "final", "save", "hookSave"} \/ ~Waiting(j)
                            \/ run[j].pc \notin {"begin", "final", "save", "hookSave"})
           \/ ops = Abandon({j}),
           \A o \in db' : \/ o \in ops
                          \/ o = Update(j, j) /\ run'[j].pc \in {"begin", "final", "save", "hookSave"}
    PROVE  OwnersInv'
<1>1. \A k \in Jobs : \A p : p # j /\ Awaits(p, k) => Awaits(p, k)'
  BY DEF Awaits
<1>2. run'[j].pc \in {"begin", "final", "save", "hookSave"} => Awaits(j, j)'
  BY DEF Awaits
<1>3. \A o \in db' : o \in ops \/ OpOwned(o)'
  BY <1>2, UpdateOwned
<1>4. CASE ops = Abandon({j})
  BY <1>1, <1>3, <1>4, OwnersStep
<1>5. CASE ops = db /\ ~Waiting(j)
  <2>1. \A o \in db : o.own \in {j} => ~o.live
    BY <1>5 DEF Waiting
  <2>2. QED
    BY <1>1, <1>3, <1>5, <2>1, OwnersStep
<1>6. CASE ops = db /\ ~(run[j].pc \in {"begin", "final", "save", "hookSave"} /\ run'[j].pc \notin {"begin", "final", "save", "hookSave"})
  <2>1. ASSUME NEW k \in Jobs, Awaits(j, k)
        PROVE  Awaits(j, k)'
    <3>1. CASE k = j
      BY <1>6, <2>1, <3>1 DEF Awaits
    <3>2. CASE k # j
      BY <2>1, <3>2 DEF Awaits
    <3>3. QED
      BY <3>1, <3>2
  <2> DEFINE X == {}
  <2>2. \A o \in db' : (o \in db /\ (o.own \in X => ~o.live)) \/ OpOwned(o)'
    BY <1>3, <1>6
  <2>3. \A k \in Jobs : \A p : p \notin X /\ Awaits(p, k) => Awaits(p, k)'
    BY <1>1, <2>1
  <2> HIDE DEF X
  <2>4. QED
    BY <2>2, <2>3, OwnersStep
<1>7. QED
  BY <1>4, <1>5, <1>6

\* What the ends of _execute_job and the handlers of _run_job do besides.
SavesEffect(j, ops) ==
    /\ \A k \in Jobs \ {j} : run'[k] = run[k]
    /\ \A c \in Threads : call'[c] = call[c] \/ (call[c].pc = "join" /\ call'[c] = NoCall)
    /\ \A o \in db' : o \in ops \/ (o = Update(j, j) /\ run'[j].pc = "save")

LEMMA FinishSaves ==
    ASSUME TypeOK, NEW j \in Jobs, NEW ops, Finish(j), db' = ops
    PROVE  SavesEffect(j, ops)
BY DEF Finish, TypeOK, SavesEffect

LEMMA GotoSaves ==
    ASSUME TypeOK, NEW j \in Jobs, NEW ops, NEW b, NEW p, Goto(j, b, p),
           db' = ops \/ (p = "save" /\ db' = ops \union {Update(j, j)})
    PROVE  SavesEffect(j, ops) /\ run'[j].pc = p
<1>1. run'[j] = [run[j] EXCEPT !.pc = p, !.block = b, !.attempt = 1, !.intr = FALSE]
  BY DEF Goto, TypeOK
<1>2. run'[j].pc = p
  BY <1>1 DEF TypeOK, RunTask
<1>3. QED
  BY <1>2 DEF SavesEffect, Goto, TypeOK

LEMMA HandlerSaves ==
    ASSUME TypeOK, NEW j \in Jobs, NEW ops, TimeoutHandler(j, ops) \/ CancelHandler(j, ops)
    PROVE  SavesEffect(j, ops)
<1>1. CASE TimeoutHandler(j, ops)
  BY <1>1, GotoSaves DEF TimeoutHandler
<1>2. CASE CancelHandler(j, ops)
  <2>1. \/ Goto(j, "cancel", "hook") /\ db' = ops
        \/ Goto(j, "cancel", "save") /\ db' = ops \union {Update(j, j)}
    BY <1>2 DEF CancelHandler
  <2>2. QED
    BY <2>1, GotoSaves
<1>3. QED
  BY <1>1, <1>2

LEMMA LeaveSaves ==
    ASSUME TypeOK, NEW j \in Jobs, NEW e, NEW ops, Leave(j, e, ops)
    PROVE  SavesEffect(j, ops)
<1>1. CASE CancelHandler(j, ops) \/ TimeoutHandler(j, ops)
  BY <1>1, HandlerSaves
<1>2. CASE Goto(j, "body", "hook") /\ db' = ops
  BY <1>2, GotoSaves
<1>3. CASE Finish(j) /\ db' = ops
  BY <1>3, FinishSaves
<1>4. QED
  BY <1>1, <1>2, <1>3 DEF Leave

\* A cancellation of the workers of j: the update of a worker that goes on is
\* still awaited.
LEMMA CancelWorkersOwners ==
    ASSUME TypeOK, OwnersInv, NEW j \in Jobs, CancelWorkers(j),
           \A k \in Jobs \ {j} : run'[k] = run[k],
           run[j].pc \in Gathering, call' = call
    PROVE  OwnersInv'
<1> DEFINE X == {<<j, w>> : w \in Killed(j)}
<1>1. /\ \A k \in Jobs \ {j} : wk'[k] = wk[k]
      /\ \A w \in Workers : wk'[j][w] = CancelWorker(wk[j][w])
      /\ db' = Abandon(X)
  BY DEF CancelWorkers, TypeOK
<1>2. ASSUME NEW w \in Workers, wk[j][w].pc = "count", w \notin Killed(j)
      PROVE  wk'[j][w].pc = "count"
  <2>1. wk'[j][w] = [wk[j][w] EXCEPT !.bare = TRUE]
    BY <1>1, <1>2 DEF CancelWorker, Killed
  <2>2. QED
    BY <1>2, <2>1 DEF TypeOK, Worker
<1>3. ASSUME NEW k \in Jobs, NEW p, p \notin X, Awaits(p, k)
      PROVE  Awaits(p, k)'
  <2>1. CASE p = k /\ run[k].pc \in {"begin", "final", "save", "hookSave"}
    BY <2>1 DEF Awaits, Gathering
  <2>2. ASSUME NEW w \in Workers, p = <<k, w>>, wk[k][w].pc = "count"
        PROVE  Awaits(p, k)'
    <3>1. wk'[k][w].pc = "count"
      BY <1>1, <1>2, <1>3, <2>2
    <3>2. QED
      BY <2>2, <3>1 DEF Awaits
  <2>3. QED
    BY <1>3, <2>1, <2>2 DEF Awaits
<1> HIDE DEF X
<1>4. QED
  BY <1>1, <1>3, OwnersStep

LEMMA RunTasksOwners ==
    ASSUME TypeOK, LockInv, OwnersInv, RunTasks
    PROVE  OwnersInv'
<1>1. PICK j \in Jobs :
         \/ StartJob(j) \/ StartWorkers(j) \/ Gathered(j) \/ Drain(j)
         \/ Drained(j) \/ Executed(j) \/ Saved(j) \/ Post(j) \/ Posted(j)
         \/ Interrupt(j) \/ InterruptGather(j)
  BY DEF RunTasks
<1>2. run[j] \in RunTask
  BY DEF TypeOK
\* The end of a wait, or none before.
<1>3. ASSUME UNCHANGED wk, SavesEffect(j, db),
             ~Waiting(j) \/ run[j].pc \notin {"begin", "final", "save", "hookSave"}
      PROVE  OwnersInv'
  BY <1>3, TaskOwners DEF SavesEffect
<1>4. ASSUME UNCHANGED wk, SavesEffect(j, Abandon({j}))
      PROVE  OwnersInv'
  BY <1>4, TaskOwners DEF SavesEffect
\* An update that is saved in the body or behind a webhook.
<1>5. ASSUME UNCHANGED <<wk, call>>, \A k \in Jobs \ {j} : run'[k] = run[k],
             \/ db' = db /\ run[j].pc \notin {"begin", "final", "save", "hookSave"}
             \/ db' = db \union {Update(j, j)} /\ run'[j].pc \in {"begin", "final", "save", "hookSave"}
      PROVE  OwnersInv'
  BY <1>5, TaskOwners
<1>6. CASE StartJob(j)
  <2>1. /\ UNCHANGED <<wk, call>> /\ db' = db \union {Update(j, j)}
        /\ \A k \in Jobs \ {j} : run'[k] = run[k]
        /\ run'[j].pc = "begin"
    BY <1>6 DEF StartJob, TypeOK, RunTask
  <2>2. QED
    BY <1>5, <2>1
<1>7. CASE StartWorkers(j)
  <2> DEFINE X == {j}
  <2>1. /\ run[j].pc = "begin" /\ UNCHANGED <<db, call>> /\ ~Waiting(j)
        /\ \A k \in Jobs \ {j} : run'[k] = run[k] /\ wk'[k] = wk[k]
    BY <1>7 DEF StartWorkers, TypeOK
  <2>2. \A w \in Workers : wk[j][w].pc = "off"
    BY <2>1 DEF LockInv, Exclusive, TasksCover
  <2>3. \A k \in Jobs : \A p : p \notin X /\ Awaits(p, k) => Awaits(p, k)'
    BY <2>1, <2>2 DEF Awaits
  <2>4. \A o \in db' : o \in db /\ (o.own \in X => ~o.live)
    BY <2>1 DEF Waiting
  <2> HIDE DEF X
  <2>5. QED
    BY <2>3, <2>4, OwnersStep
<1>8. CASE Gathered(j) \/ Drained(j)
  <2>1. /\ UNCHANGED <<wk, call>> /\ db' = db \union {Update(j, j)}
        /\ \A k \in Jobs \ {j} : run'[k] = run[k]
        /\ run'[j].pc = "final"
    BY <1>8 DEF Gathered, Drained, TypeOK, RunTask
  <2>2. QED
    BY <1>5, <2>1
<1>9. CASE Drain(j)
  <2>1. /\ run[j].pc \in Gathering /\ CancelWorkers(j) /\ call' = call
        /\ \A k \in Jobs \ {j} : run'[k] = run[k]
    BY <1>9 DEF Drain, TypeOK, Gathering
  <2>2. QED
    BY <2>1, CancelWorkersOwners
<1>10. CASE Executed(j)
  BY <1>3, <1>10, LeaveSaves DEF Executed
<1>11. CASE Saved(j)
  BY <1>3, <1>11, GotoSaves, FinishSaves DEF Saved
<1>12. CASE Post(j)
  <2>1. /\ run[j].pc = "hook" /\ UNCHANGED <<wk, call>>
        /\ \A k \in Jobs \ {j} : run'[k] = run[k]
        /\ \/ db' = db
           \/ db' = db \union {Update(j, j)} /\ run'[j].pc = "hookSave"
    BY <1>12 DEF Post, TypeOK, RunTask
  <2>2. QED
    BY <1>5, <2>1
<1>13. CASE Posted(j)
  BY <1>3, <1>13, GotoSaves, FinishSaves DEF Posted
<1>14. CASE Interrupt(j)
  <2>1. CASE SavesEffect(j, Abandon({j}))
    BY <1>4, <1>14, <2>1 DEF Interrupt
  <2>2. CASE db' = Detach(j) /\ Finish(j) /\ UNCHANGED wk
    <3>1. ASSUME NEW o \in Detach(j)
          PROVE  (o \in db /\ o.own # j) \/ OpOwned(o)'
      <4>1. CASE \E q \in db : /\ q.own = j
                               /\ o = [q EXCEPT !.own = NoProc, !.stage = "started",
                                          !.val = IF q.stage = "sent" THEN mem[q.job] ELSE @]
        <5>1. PICK q \in db : /\ q.own = j
                              /\ o = [q EXCEPT !.own = NoProc, !.stage = "started",
                                         !.val = IF q.stage = "sent" THEN mem[q.job] ELSE @]
          BY <4>1
        <5>2. q \in Operation /\ OpOwned(q)
          BY DEF TypeOK, OwnersInv
        <5>3. /\ o.own = NoProc /\ o.kind = q.kind /\ o.job = q.job
              /\ o.stage = "started"
          BY <5>1, <5>2 DEF Operation
        <5>4. q.job \in Jobs /\ j \notin {q.job} \X Workers
          BY <5>2, NamesAssumption DEF Operation
        <5>5. q.kind # "append"
          BY <5>1, <5>2, <5>4 DEF OpOwned
        <5>6. QED
          BY <5>3, <5>5 DEF OpOwned, Awaits
      <4>2. QED
        BY <4>1 DEF Detach
    <3>2. \A k \in Jobs : \A p : p # j /\ Awaits(p, k) => Awaits(p, k)'
      <4>1. SavesEffect(j, db')
        BY <2>2, FinishSaves
      <4>2. QED
        BY <2>2, <4>1 DEF Awaits, SavesEffect
    <3> DEFINE X == {j}
    <3>3. \A o \in db' : (o \in db /\ (o.own \in X => ~o.live)) \/ OpOwned(o)'
      BY <2>2, <3>1
    <3>4. \A k \in Jobs : \A p : p \notin X /\ Awaits(p, k) => Awaits(p, k)'
      BY <3>2
    <3> HIDE DEF X
    <3>5. QED
      BY <3>3, <3>4, OwnersStep
  <2>3. QED
    BY <1>14, <2>1, <2>2, LeaveSaves, HandlerSaves, FinishSaves DEF Interrupt
<1>15. CASE InterruptGather(j)
  <2>1. /\ run[j].pc \in Gathering /\ call' = call
        /\ \A k \in Jobs \ {j} : run'[k] = run[k]
    BY <1>15 DEF InterruptGather, TypeOK, Gathering
  <2>2. CASE CancelWorkers(j)
    BY <2>1, <2>2, CancelWorkersOwners
  <2>3. CASE UNCHANGED <<wk, lock, db>>
    BY <1>5, <2>1, <2>3 DEF Gathering
  <2>4. QED
    BY <1>15, <2>2, <2>3 DEF InterruptGather
<1>16. QED
  BY <1>1, <1>6, <1>7, <1>8, <1>9, <1>10, <1>11, <1>12, <1>13, <1>14, <1>15

-----------------------------------------------------------------------------
(* The workers, the threads and the calls *)

\* What a worker of j does to the run task of j.
LEMMA WorkerRun ==
    ASSUME TypeOK, NEW j \in Jobs, NEW w \in Workers,
           \/ Take(j, w) \/ Collected(j, w) \/ Persist(j, w) \/ Appended(j, w)
           \/ Counted(j, w) \/ Duplicate(j, w) \/ Die(j, w)
    PROVE  /\ \A k \in Jobs \ {j} : run'[k] = run[k]
           /\ run'[j].pc = run[j].pc /\ run'[j].block = run[j].block
           /\ run'[j].cause = run[j].cause
           /\ run'[j].intr <=> run[j].intr
           /\ run'[j].exc # run[j].exc => \/ Counted(j, w) /\ wk[j][w].bare
                                         \/ Duplicate(j, w) \/ Die(j, w)
<1>1. run[j] \in RunTask
  BY DEF TypeOK
<1> DEFINE Keeps(r) == /\ r.pc = run[j].pc /\ r.block = run[j].block /\ r.cause = run[j].cause
                       /\ r.intr = run[j].intr
           Leaves(r) == Keeps(r) /\ r.exc = run[j].exc
<1>2. /\ \A l : Leaves([run[j] EXCEPT !.left = l])
      /\ \A n : Leaves([run[j] EXCEPT !.argus = n])
      /\ \A n, b : Leaves([run[j] EXCEPT !.argus = n, !.stop = b])
      /\ Leaves(run[j])
      /\ \A e : Keeps([run[j] EXCEPT !.exc = e])
  BY <1>1 DEF RunTask
<1> HIDE DEF Keeps, Leaves
<1>3. /\ \A r : run' = [run EXCEPT ![j] = r] =>
            run'[j] = r /\ \A k \in Jobs \ {j} : run'[k] = run[k]
      /\ run' = run => run'[j] = run[j] /\ \A k \in Jobs \ {j} : run'[k] = run[k]
  BY DEF TypeOK
<1>4. CASE Take(j, w)
  <2>1. run' = run \/ \E l : run' = [run EXCEPT ![j] = [run[j] EXCEPT !.left = l]]
    BY <1>4 DEF Take, TypeOK
  <2>2. Leaves(run'[j]) /\ \A k \in Jobs \ {j} : run'[k] = run[k]
    BY <1>2, <1>3, <2>1
  <2>3. QED
    BY <2>2 DEF Leaves, Keeps
<1>5. CASE Collected(j, w)
  <2>1. \/ run' = run
        \/ \E n : run' = [run EXCEPT ![j] = [run[j] EXCEPT !.argus = n]]
        \/ \E n, b : run' = [run EXCEPT ![j] = [run[j] EXCEPT !.argus = n, !.stop = b]]
    <3> DEFINE n == IF run[j].argus < ArgusLimit THEN run[j].argus + 1 ELSE run[j].argus
    <3>1. PICK out \in Outcomes :
             run' = CASE out = "ok" -> [run EXCEPT ![j].argus = 0]
                      [] out = "fail" -> run
                      [] out = "argus" ->
                           [run EXCEPT ![j].argus = n, ![j].stop = @ \/ n = ArgusLimit]
      BY <1>5 DEF Collected
    <3> HIDE DEF n
    <3>2. out \in {"ok", "fail", "argus"}
      BY SizesAssumption
    <3>3. QED
      BY <3>1, <3>2 DEF TypeOK
  <2>2. \E r : Leaves(r) /\ ((run' = run /\ r = run[j]) \/ run' = [run EXCEPT ![j] = r])
    <3>1. ASSUME NEW n, run' = [run EXCEPT ![j] = [run[j] EXCEPT !.argus = n]]
          PROVE  \E r : Leaves(r) /\ run' = [run EXCEPT ![j] = r]
      BY <1>2, <3>1
    <3>2. ASSUME NEW n, NEW b, run' = [run EXCEPT ![j] = [run[j] EXCEPT !.argus = n, !.stop = b]]
          PROVE  \E r : Leaves(r) /\ run' = [run EXCEPT ![j] = r]
      BY <1>2, <3>2
    <3>3. QED
      BY <1>2, <2>1, <3>1, <3>2
  <2>3. Leaves(run'[j]) /\ \A k \in Jobs \ {j} : run'[k] = run[k]
    BY <1>3, <2>2
  <2>4. QED
    BY <2>3 DEF Leaves, Keeps
<1>6. CASE Persist(j, w) \/ Appended(j, w)
  BY <1>6 DEF Persist, Appended
<1>7. CASE Counted(j, w) \/ Duplicate(j, w) \/ Die(j, w)
  <2>1. \/ run' = run
        \/ /\ \E e : run' = [run EXCEPT ![j] = [run[j] EXCEPT !.exc = e]]
           /\ (Counted(j, w) /\ wk[j][w].bare) \/ Duplicate(j, w) \/ Die(j, w)
    BY <1>7 DEF Counted, Duplicate, Die, TypeOK
  <2>2. CASE run' = run
    BY <2>2
  <2>3. ASSUME NEW e, run' = [run EXCEPT ![j] = [run[j] EXCEPT !.exc = e]]
        PROVE  Keeps(run'[j]) /\ \A k \in Jobs \ {j} : run'[k] = run[k]
    <3>1. run'[j] = [run[j] EXCEPT !.exc = e] /\ \A k \in Jobs \ {j} : run'[k] = run[k]
      BY <2>3 DEF TypeOK
    <3>2. QED
      BY <1>2, <3>1
  <2>4. QED
    BY <2>1, <2>2, <2>3 DEF Keeps
<1>8. QED
  BY <1>4, <1>5, <1>6, <1>7

\* What cancelling the run task of j does to it.
LEMMA CancelRun ==
    ASSUME TypeOK, NEW j \in Jobs, NEW x \in {"timeout", "cancel"},
           run' = [run EXCEPT ![j].cause = @ \union {x}, ![j].intr = TRUE]
    PROVE  /\ \A k \in Jobs \ {j} : run'[k] = run[k]
           /\ run'[j].pc = run[j].pc /\ run'[j].block = run[j].block /\ run'[j].exc = run[j].exc
           /\ run'[j].cause = run[j].cause \union {x}
           /\ run'[j].intr
<1>1. run'[j] = [run[j] EXCEPT !.cause = run[j].cause \union {x}, !.intr = TRUE]
  BY DEF TypeOK
<1>2. run[j] \in RunTask
  BY DEF TypeOK
<1>3. run'[j].intr
  BY <1>1, <1>2 DEF RunTask
<1>4. QED
  BY <1>1, <1>2, <1>3 DEF RunTask, TypeOK

LEMMA WorkerTasksOwners ==
    ASSUME TypeOK, OwnersInv, WorkerTasks
    PROVE  OwnersInv'
<1>1. PICK j \in Jobs, w \in Workers :
         \/ Take(j, w) \/ Collected(j, w) \/ Persist(j, w) \/ Appended(j, w)
         \/ Counted(j, w) \/ Duplicate(j, w) \/ Die(j, w)
  BY DEF WorkerTasks
<1>2. wk[j][w] \in Worker /\ run[j] \in RunTask
  BY DEF TypeOK
<1>3. /\ \A k \in Jobs \ {j} : wk'[k] = wk[k]
      /\ \A v \in Workers \ {w} : wk'[j][v] = wk[j][v]
      /\ call' = call
  <2>1. \A s : SetWorker(j, w, s) => /\ \A k \in Jobs \ {j} : wk'[k] = wk[k]
                                     /\ \A v \in Workers \ {w} : wk'[j][v] = wk[j][v]
    BY DEF SetWorker, TypeOK
  <2>2. \E s : SetWorker(j, w, s)
    BY <1>1 DEF Take, Collected, Persist, Appended, Counted, Duplicate, Die
  <2>3. call' = call
    BY <1>1 DEF Take, Collected, Persist, Appended, Counted, Duplicate, Die
  <2>4. QED
    BY <2>1, <2>2, <2>3
<1>4. \A k \in Jobs : run'[k].pc = run[k].pc
  BY <1>1, WorkerRun
<1>5. ASSUME NEW k \in Jobs, NEW p, Awaits(p, k), p = <<j, w>> => wk[j][w].pc # "count"
      PROVE  Awaits(p, k)'
  <2>1. ASSUME NEW v \in Workers, p = <<k, v>>, wk[k][v].pc = "count"
        PROVE  Awaits(p, k)'
    <3>1. wk'[k][v] = wk[k][v]
      BY <1>3, <1>5, <2>1
    <3>2. QED
      BY <2>1, <3>1 DEF Awaits
  <2>2. QED
    BY <1>3, <1>4, <1>5, <2>1 DEF Awaits
<1> DEFINE None == {}
<1>6. ASSUME wk[j][w].pc # "count", \A o \in db' : o \in db \/ OpOwned(o)'
      PROVE  OwnersInv'
  <2>1. \A k \in Jobs : \A p : p \notin None /\ Awaits(p, k) => Awaits(p, k)'
    BY <1>5, <1>6
  <2>2. \A o \in db' : (o \in db /\ (o.own \in None => ~o.live)) \/ OpOwned(o)'
    BY <1>6
  <2> HIDE DEF None
  <2>3. QED
    BY <2>1, <2>2, OwnersStep
<1>7. CASE Take(j, w) \/ Collected(j, w) \/ Duplicate(j, w) \/ Die(j, w)
  BY <1>6, <1>7 DEF Take, Collected, Duplicate, Die
<1>8. CASE Persist(j, w)
  BY <1>6, <1>8, AppendOwned DEF Persist
<1>9. CASE Appended(j, w)
  <2>1. wk'[j][w].pc = "count"
    BY <1>2, <1>9 DEF Appended, SetWorker, TypeOK, Worker
  <2>2. Awaits(<<j, w>>, j)'
    BY <2>1 DEF Awaits
  <2>3. QED
    BY <1>6, <1>9, <2>2, UpdateOwned DEF Appended
<1>10. CASE Counted(j, w)
  <2> DEFINE X == {<<j, w>>}
  <2>1. \A k \in Jobs : \A p : p \notin X /\ Awaits(p, k) => Awaits(p, k)'
    BY <1>5
  <2>2. \A o \in db' : o \in db /\ (o.own \in X => ~o.live)
    BY <1>10 DEF Counted, Waiting
  <2> HIDE DEF X
  <2>3. QED
    BY <2>1, <2>2, OwnersStep
<1>11. QED
  BY <1>1, <1>7, <1>8, <1>9, <1>10

LEMMA StorageOwners ==
    ASSUME TypeOK, LockInv, OwnersInv, Storage
    PROVE  OwnersInv'
<1>1. PICK o \in db : StartOp(o) \/ ApplyUpdate(o) \/ ApplyAppend(o)
  BY DEF Storage
<1>2. o \in Operation /\ OpOwned(o)
  BY DEF TypeOK, OwnersInv
<1> DEFINE None == {}
<1>3. ASSUME \A k \in Jobs : \A p : Awaits(p, k) => Awaits(p, k)',
             \A q \in db' : q \in db \/ OpOwned(q)'
      PROVE  OwnersInv'
  <2>1. \A k \in Jobs : \A p : p \notin None /\ Awaits(p, k) => Awaits(p, k)'
    BY <1>3
  <2>2. \A q \in db' : (q \in db /\ (q.own \in None => ~q.live)) \/ OpOwned(q)'
    BY <1>3
  <2> HIDE DEF None
  <2>3. QED
    BY <2>1, <2>2, OwnersStep
<1>4. CASE StartOp(o)
  <2> DEFINE s == [o EXCEPT !.stage = "started",
                            !.val = IF o.kind = "update" THEN mem[o.job] ELSE @]
  <2>1. /\ s.own = o.own /\ s.job = o.job /\ s.kind = o.kind /\ s.live = o.live
        /\ s.stage = "started" /\ (s.kind = "append" => s.val = o.val)
    BY <1>2 DEF Operation
  <2>2. db' = (db \ {o}) \union {s} /\ UNCHANGED <<run, wk, call>>
    BY <1>4 DEF StartOp
  <2> HIDE DEF s
  <2>3. \A k \in Jobs : \A p : Awaits(p, k) => Awaits(p, k)'
    BY <2>2 DEF Awaits
  <2>4. o.job \in Jobs
    BY <1>2 DEF Operation
  <2>5. ASSUME NEW q \in db', q = s
        PROVE  OpOwned(q)'
    BY <1>2, <2>1, <2>3, <2>4, <2>5 DEF OpOwned
  <2>6. QED
    BY <1>3, <2>2, <2>3, <2>5
<1>5. CASE ApplyUpdate(o)
  <2>1. \A k \in Jobs : \A p : Awaits(p, k) => Awaits(p, k)'
    BY <1>5 DEF Awaits, ApplyUpdate
  <2>2. QED
    BY <1>3, <1>5, <2>1 DEF ApplyUpdate
<1>6. CASE ApplyAppend(o)
  <2>1. ASSUME NEW k \in Jobs, NEW v \in Workers, wk[k][v].pc = "count"
        PROVE  wk'[k][v].pc = "count"
    <3>1. CASE UNCHANGED wk
      BY <2>1, <3>1
    <3>2. CASE o.live /\ o.kind = "append" /\ wk' = [wk EXCEPT ![o.job][o.own[2]].pc = "dup"]
      <4>1. PICK w \in Workers : o.own = <<o.job, w>> /\ wk[o.job][w].pc = "append"
        BY <3>2 DEF LockInv, Awaited, Held
      <4>2. ~(k = o.job /\ v = w)
        BY <2>1, <4>1
      <4>3. wk'[k][v] = wk[k][v]
        BY <1>2, <3>2, <4>1, <4>2 DEF TypeOK, Operation
      <4>4. QED
        BY <2>1, <4>3
    <3>3. QED
      BY <1>6, <3>1, <3>2 DEF ApplyAppend
  <2>2. \A k \in Jobs : \A p : Awaits(p, k) => Awaits(p, k)'
    BY <1>6, <2>1 DEF Awaits, ApplyAppend
  <2>3. QED
    BY <1>3, <1>6, <2>2 DEF ApplyAppend
<1>7. QED
  BY <1>1, <1>4, <1>5, <1>6

LEMMA StraysOwners ==
    ASSUME TypeOK, OwnersInv, Strays
    PROVE  OwnersInv'
<1>1. PICK r \in stray : StrayPost(r)
  BY DEF Strays
<1>2. PICK status \in {"sent", "failed"} :
         db' = db \union {[Update(r.job, NoProc) EXCEPT
                             !.stage = "started",
                             !.val = [r.val EXCEPT !.webhook = status]]}
  BY <1>1 DEF StrayPost
<1> DEFINE v == [r.val EXCEPT !.webhook = status]
           o == [Update(r.job, NoProc) EXCEPT !.stage = "started", !.val = v]
           None == {}
<1> HIDE DEF v
<1>3. o.own = NoProc /\ o.kind = "update" /\ o.stage = "started"
  BY DEF Update
<1>4. db' = db \union {o}
  BY <1>2 DEF v
<1> HIDE DEF o
<1>5. OpOwned(o)'
  BY <1>3 DEF OpOwned, Awaits
<1>6. \A k \in Jobs : \A p : p \notin None /\ Awaits(p, k) => Awaits(p, k)'
  BY <1>1 DEF StrayPost, Awaits
<1>7. \A q \in db' : (q \in db /\ (q.own \in None => ~q.live)) \/ OpOwned(q)'
  BY <1>4, <1>5
<1> HIDE DEF None
<1>8. QED
  BY <1>6, <1>7, OwnersStep

\* A step of the call c, or of nobody that waits.
LEMMA CallOwners ==
    ASSUME TypeOK, OwnersInv, UNCHANGED wk,
           \A k \in Jobs : \/ run'[k].pc = run[k].pc
                           \/ run[k].pc \notin {"begin", "final", "save", "hookSave"},
           NEW c \in Threads, \A d \in Threads \ {c} : call'[d] = call[d],
           \A o \in db' : o \in db \/ OpOwned(o)',
           call[c].pc = "save" => ~Waiting(c)
    PROVE  OwnersInv'
<1> DEFINE X == IF call[c].pc = "save" THEN {c} ELSE {}
<1>1. ASSUME NEW k \in Jobs, NEW p, p \notin X, Awaits(p, k)
      PROVE  Awaits(p, k)'
  <2>1. CASE p \in Threads /\ call[p].pc = "save" /\ call[p].job = k
    BY <1>1, <2>1 DEF Awaits
  <2>2. QED
    BY <1>1, <2>1 DEF Awaits
<1>2. \A o \in db' : (o \in db /\ (o.own \in X => ~o.live)) \/ OpOwned(o)'
  BY DEF Waiting
<1> HIDE DEF X
<1>3. QED
  BY <1>1, <1>2, OwnersStep

LEMMA CallTasksOwners ==
    ASSUME TypeOK, LockInv, OwnersInv, CallTasks
    PROVE  OwnersInv'
<1>1. PICK c \in Threads :
         \/ Acquire(c) \/ FindKey(c) \/ CreateJob(c) \/ LaunchNew(c)
         \/ ReadJob(c) \/ CheckCancel(c) \/ CancelTask(c) \/ CheckResume(c)
         \/ ReadRows(c) \/ ResetJob(c) \/ LaunchResumed(c)
  BY DEF CallTasks
<1>2. call[c].pc # "idle"
  BY <1>1 DEF Acquire, FindKey, CreateJob, LaunchNew, ReadJob, CheckCancel,
     CancelTask, CheckResume, ReadRows, ResetJob, LaunchResumed
<1>3. PICK j \in Jobs : j = call[c].job /\ call[c] \in Call
  BY <1>2, CallTypes DEF TypeOK
<1>4. \A r : SetCall(c, r) => call'[c] = r /\ \A d \in Threads \ {c} : call'[d] = call[d]
  BY DEF SetCall, TypeOK
<1>5. CASE Acquire(c) \/ FindKey(c) \/ CreateJob(c) \/ ReadJob(c) \/ CheckResume(c) \/ ReadRows(c)
  <2>1. UNCHANGED <<wk, run, db>> /\ call[c].pc # "save" /\ \A d \in Threads \ {c} : call'[d] = call[d]
    BY <1>4, <1>5 DEF Acquire, FindKey, CreateJob, ReadJob, CheckResume, ReadRows, Respond
  <2>2. QED
    BY <2>1, CallOwners
<1>6. CASE LaunchNew(c) \/ LaunchResumed(c)
  <2>1. /\ UNCHANGED <<wk, db>> /\ (call[c].pc = "save" => ~Waiting(c))
        /\ \A d \in Threads \ {c} : call'[d] = call[d]
        /\ \A k \in Jobs \ {j} : run'[k] = run[k]
        /\ Launching(c)
    BY <1>3, <1>4, <1>6 DEF LaunchNew, LaunchResumed, Launch, Respond, TypeOK, Launching
  <2>2. run[j].pc = "idle"
    BY <1>3, <2>1 DEF LockInv, Exclusive, LaunchesAlone
  <2>3. QED
    BY <2>1, <2>2, CallOwners
<1>7. CASE CheckCancel(c)
  <2>1. CASE UNCHANGED <<wk, run, db>> /\ Respond(c)
    BY <1>4, <1>7, <2>1, CallOwners DEF CheckCancel, Respond
  <2>2. CASE /\ UNCHANGED <<wk, run>> /\ db' = db \union {Update(j, c)}
             /\ SetCall(c, [call[c] EXCEPT !.pc = "save"])
    <3>1. call'[c].pc = "save" /\ call'[c].job = j
      BY <1>3, <1>4, <2>2 DEF Call, NoCall
    <3>2. Awaits(c, j)'
      BY <3>1 DEF Awaits
    <3>3. OpOwned(Update(j, c))'
      BY <1>3, <3>2, UpdateOwned
    <3>4. call[c].pc # "save" /\ \A d \in Threads \ {c} : call'[d] = call[d]
      BY <1>4, <1>7, <2>2 DEF CheckCancel
    <3>5. QED
      BY <2>2, <3>3, <3>4, CallOwners
  <2>3. QED
    BY <1>3, <1>7, <2>1, <2>2 DEF CheckCancel
<1>8. CASE CancelTask(c)
  <2>1. /\ UNCHANGED <<wk, db>> /\ ~Waiting(c)
        /\ \A d \in Threads \ {c} : call'[d] = call[d]
    BY <1>4, <1>8 DEF CancelTask
  <2>2. \A k \in Jobs : run'[k].pc = run[k].pc
    BY <1>3, <1>8, CancelRun DEF CancelTask
  <2>3. QED
    BY <2>1, <2>2, CallOwners
<1>9. CASE ResetJob(c)
  <2> DEFINE stored == [Fresh(j) EXCEPT !.completed = call[c].seen.completed]
             q == [Update(j, c) EXCEPT !.stage = "started", !.val = stored]
  <2>1. /\ UNCHANGED <<wk, run>> /\ db' = db \union {q} /\ call[c].pc # "save"
        /\ SetCall(c, [call[c] EXCEPT !.pc = "save", !.seen = stored])
    BY <1>3, <1>9 DEF ResetJob
  <2> HIDE DEF stored
  <2>2. /\ q.own = c /\ q.job = j /\ q.kind = "update" /\ q.stage = "started"
    BY DEF Update
  <2>3. call'[c].pc = "save" /\ call'[c].job = j
    <3>1. call'[c] = [call[c] EXCEPT !.pc = "save", !.seen = stored]
      BY <1>4, <2>1
    <3>2. QED
      BY <1>3, <3>1 DEF Call, NoCall
  <2> HIDE DEF q
  <2>4. ASSUME NEW o \in db', o = q
        PROVE  OpOwned(o)'
    BY <2>2, <2>3, <2>4 DEF OpOwned, Awaits
  <2>5. QED
    BY <1>4, <2>1, <2>4, CallOwners
<1>10. QED
  BY <1>1, <1>5, <1>6, <1>7, <1>8, <1>9

LEMMA RestOwners ==
    ASSUME TypeOK, OwnersInv, Restart \/ Environment \/ UNCHANGED vars
    PROVE  OwnersInv'
<1>1. CASE LoseMemory
  BY <1>1 DEF LoseMemory, OwnersInv
<1>2. ASSUME UNCHANGED <<wk, db>>, \A k \in Jobs : run'[k].pc = run[k].pc,
             \A c \in Threads : call'[c] = call[c] \/ call[c].pc = "idle"
      PROVE  OwnersInv'
  <2> DEFINE None == {}
  <2>1. \A k \in Jobs : \A p : p \notin None /\ Awaits(p, k) => Awaits(p, k)'
    BY <1>2 DEF Awaits
  <2>2. \A q \in db' : q \in db /\ (q.own \in None => ~q.live)
    BY <1>2
  <2> HIDE DEF None
  <2>3. QED
    BY <2>1, <2>2, OwnersStep
<1>3. CASE Restart
  <2>1. CASE Recover \/ Ready
    BY <1>2, <2>1 DEF Recover, Ready
  <2>2. ASSUME NEW j \in Jobs, BootResume(j) PROVE OwnersInv'
    BY <1>2, <2>2 DEF BootResume, SetCall, TypeOK
  <2>3. QED
    BY <1>1, <1>3, <2>1, <2>2 DEF Restart, Closed
<1>4. CASE Environment
  <2>1. ASSUME NEW c \in Callers, NEW j \in Jobs, NEW op \in Ops, Request(c, op, j)
        PROVE  OwnersInv'
    BY <1>2, <2>1 DEF Request, SetCall, TypeOK
  <2>2. ASSUME NEW j \in Readers, PollJob(j) \/ PollRows(j)
        PROVE  OwnersInv'
    BY <1>2, <2>2 DEF PollJob, PollRows
  <2>3. CASE Close
    <3>1. \A r \in RunTask :
             [r EXCEPT !.cause = @ \union {"cancel"}, !.intr = TRUE].pc = r.pc
      BY DEF RunTask
    <3>2. \A k \in Jobs : run[k] \in RunTask
      BY DEF TypeOK
    <3>3. run' = [k \in Jobs |->
                    IF run[k].pc = "idle" THEN run[k]
                    ELSE [run[k] EXCEPT !.cause = @ \union {"cancel"}, !.intr = TRUE]]
      BY <2>3 DEF Close
    <3>4. \A k \in Jobs : run'[k].pc = run[k].pc
      BY <3>1, <3>2, <3>3
    <3>5. QED
      BY <1>2, <2>3, <3>4 DEF Close
  <2>4. ASSUME NEW j \in Jobs, Deadline(j) PROVE OwnersInv'
    <3>1. \A k \in Jobs : run'[k].pc = run[k].pc
      BY <2>4 DEF Deadline, TypeOK, RunTask
    <3>2. QED
      BY <1>2, <2>4, <3>1 DEF Deadline
  <2>5. QED
    BY <1>1, <1>4, <2>1, <2>2, <2>3, <2>4 DEF Environment, Clients, Crash
<1>5. CASE UNCHANGED vars
  BY <1>2, <1>5 DEF vars
<1>6. QED
  BY <1>3, <1>4, <1>5

\* An update in flight is awaited by its process, and by nobody once that one
\* went on.
THEOREM UpdatesOwned == Spec => []OwnersInv
<1>1. Init => OwnersInv
  BY DEF Init, OwnersInv
<1>2. TypeOK /\ LockInv /\ OwnersInv /\ [Next]_vars => OwnersInv'
  BY StorageOwners, RunTasksOwners, StraysOwners, WorkerTasksOwners, CallTasksOwners,
     RestOwners DEF Next, Service
<1>3. QED
  BY <1>1, <1>2, TypeCorrect, LockAgrees, PTL DEF Spec

-----------------------------------------------------------------------------
(* A process that is not stopped, and what a step leaves of the other jobs *)

Calm == mode = "up" /\ boot = {} /\ stops = 0 /\ call[Boot] = NoCall

CallStep(c) ==
    \/ Acquire(c) \/ FindKey(c) \/ CreateJob(c) \/ LaunchNew(c)
    \/ ReadJob(c) \/ CheckCancel(c) \/ CancelTask(c) \/ CheckResume(c)
    \/ ReadRows(c) \/ ResetJob(c) \/ LaunchResumed(c)

LEMMA CalmStep ==
    ASSUME MaxStops = 0, TypeOK, Calm, [Next]_vars
    PROVE  Calm' /\ (Next => Storage \/ RunTasks \/ Strays \/ WorkerTasks \/ Clients
                               \/ (\E c \in Callers : CallStep(c))
                               \/ \E j \in Jobs : Deadline(j))
<1>1. Boot \in Threads /\ Boot \notin Callers /\ Threads = Callers \union {Boot}
  BY NamesAssumption DEF Threads
<1>2. ~Restart /\ ~Crash /\ ~Close
  BY DEF Calm, Restart, Closed, Recover, Ready, BootResume, Crash, Close
<1>3. CASE UNCHANGED vars /\ ~Next
  BY <1>3 DEF vars, Calm
<1> SUFFICES ASSUME Next
             PROVE  Calm' /\ (Storage \/ RunTasks \/ Strays \/ WorkerTasks \/ Clients
                                \/ (\E c \in Callers : CallStep(c)) \/ \E j \in Jobs : Deadline(j))
  BY <1>3
<1>4. CASE Storage \/ Strays \/ WorkerTasks
  <2>1. UNCHANGED env /\ call' = call
    <3>1. CASE Storage
      BY <3>1 DEF Storage, StartOp, ApplyUpdate, ApplyAppend
    <3>2. CASE Strays
      BY <3>2 DEF Strays, StrayPost
    <3>3. CASE WorkerTasks
      <4>1. PICK j \in Jobs, w \in Workers :
               \/ Take(j, w) \/ Collected(j, w) \/ Persist(j, w) \/ Appended(j, w)
               \/ Counted(j, w) \/ Duplicate(j, w) \/ Die(j, w)
        BY <3>3 DEF WorkerTasks
      <4>2. QED
        BY <4>1 DEF Take, Collected, Persist, Appended, Counted, Duplicate, Die
    <3>4. QED
      BY <1>4, <3>1, <3>2, <3>3
  <2>2. QED
    BY <1>4, <2>1 DEF Calm, env
<1>5. CASE RunTasks
  <2>1. PICK j \in Jobs :
           \/ StartJob(j) \/ StartWorkers(j) \/ Gathered(j) \/ Drain(j)
           \/ Drained(j) \/ Executed(j) \/ Saved(j) \/ Post(j) \/ Posted(j)
           \/ Interrupt(j) \/ InterruptGather(j)
    BY <1>5 DEF RunTasks
  <2>2. UNCHANGED <<mode, boot, stops>>
    BY <2>1 DEF StartJob, StartWorkers, Gathered, Drain, Drained, Executed, Saved, Post, Posted,
       Interrupt, InterruptGather, env
  <2>3. call'[Boot] = call[Boot] \/ call'[Boot] = NoCall
    <3>1. CASE \E ops : SavesEffect(j, ops)
      BY <1>1, <3>1 DEF SavesEffect
    <3>2. CASE StartJob(j) \/ StartWorkers(j) \/ Gathered(j) \/ Drain(j) \/ Drained(j) \/ Post(j)
                 \/ InterruptGather(j)
      BY <3>2 DEF StartJob, StartWorkers, Gathered, Drain, Drained, Post, InterruptGather
    <3>3. CASE Executed(j)
      BY <3>1, <3>3, LeaveSaves DEF Executed
    <3>4. CASE Saved(j) \/ Posted(j)
      BY <3>4, <1>1 DEF Saved, Posted, Goto, Finish
    <3>5. CASE Interrupt(j)
      BY <3>1, <3>5, LeaveSaves, HandlerSaves, FinishSaves DEF Interrupt
    <3>6. QED
      BY <2>1, <3>2, <3>3, <3>4, <3>5
  <2>4. QED
    BY <1>5, <2>2, <2>3 DEF Calm
<1>6. CASE CallTasks
  <2>1. PICK c \in Threads :
           \/ Acquire(c) \/ FindKey(c) \/ CreateJob(c) \/ LaunchNew(c)
           \/ ReadJob(c) \/ CheckCancel(c) \/ CancelTask(c) \/ CheckResume(c)
           \/ ReadRows(c) \/ ResetJob(c) \/ LaunchResumed(c)
    BY <1>6 DEF CallTasks
  <2>2. call[c].pc # "idle"
    BY <2>1 DEF Acquire, FindKey, CreateJob, LaunchNew, ReadJob, CheckCancel, CancelTask,
       CheckResume, ReadRows, ResetJob, LaunchResumed
  <2>3. c # Boot
    BY <2>2 DEF Calm, NoCall
  <2>4. UNCHANGED <<mode, boot, stops>>
    BY <2>1 DEF Acquire, FindKey, CreateJob, LaunchNew, ReadJob, CheckCancel, CancelTask,
       CheckResume, ReadRows, ResetJob, LaunchResumed, env
  <2>5. \E r : SetCall(c, r)
    BY <2>1 DEF Acquire, FindKey, CreateJob, LaunchNew, ReadJob, CheckCancel, CancelTask,
       CheckResume, ReadRows, ResetJob, LaunchResumed, Respond
  <2>6. call'[Boot] = call[Boot]
    BY <1>1, <2>3, <2>5 DEF SetCall, TypeOK
  <2>7. QED
    BY <1>1, <2>1, <2>3, <2>4, <2>6 DEF Calm, CallStep
<1>7. CASE Clients
  <2>1. UNCHANGED <<mode, boot, stops>> /\ call'[Boot] = call[Boot]
    BY <1>1, <1>7 DEF Clients, Request, PollJob, PollRows, SetCall, TypeOK
  <2>2. QED
    BY <1>7, <2>1 DEF Calm
<1>8. ASSUME NEW j \in Jobs, Deadline(j) PROVE Calm' /\ \E k \in Jobs : Deadline(k)
  BY <1>8 DEF Deadline, Calm, env
<1>9. QED
  BY <1>2, <1>4, <1>5, <1>6, <1>7, <1>8 DEF Next, Service, Environment

LEMMA AlwaysCalm ==
    ASSUME MaxStops = 0
    PROVE  Spec => []Calm
<1>1. Init => Calm
  BY DEF Init, Calm, Threads
<1>2. TypeOK /\ Calm /\ [Next]_vars => Calm'
  BY CalmStep
<1>3. QED
  BY <1>1, <1>2, TypeCorrect, PTL DEF Spec

\* What there is of a job, but for its calls and its consumer.
Same(k) ==
    /\ run'[k] = run[k] /\ wk'[k] = wk[k] /\ mem'[k] = mem[k]
    /\ repo'[k] = repo[k] /\ rows'[k] = rows[k]
    /\ OpsOf(k, db') = OpsOf(k, db)

OpStep(o) == StartOp(o) \/ ApplyUpdate(o) \/ ApplyAppend(o)

TaskStepOf(j) ==
    \/ StartJob(j) \/ StartWorkers(j) \/ Gathered(j) \/ Drain(j)
    \/ Drained(j) \/ Executed(j) \/ Saved(j) \/ Post(j) \/ Posted(j)
    \/ Interrupt(j) \/ InterruptGather(j)

WorkStep(j, w) ==
    \/ Take(j, w) \/ Collected(j, w) \/ Persist(j, w) \/ Appended(j, w)
    \/ Counted(j, w) \/ Duplicate(j, w) \/ Die(j, w)

LEMMA OpSame ==
    ASSUME TypeOK, OwnersInv, NEW o \in db, OpStep(o), NEW k \in Jobs, k # o.job
    PROVE  Same(k)
<1>1. o \in Operation /\ OpOwned(o)
  BY DEF TypeOK, OwnersInv
<1>2. CASE StartOp(o)
  <2>1. [o EXCEPT !.stage = "started", !.val = IF o.kind = "update" THEN mem[o.job] ELSE @].job = o.job
    BY <1>1 DEF Operation
  <2>2. OpsOf(k, db') = OpsOf(k, db)
    BY <1>2, <2>1 DEF StartOp, OpsOf
  <2>3. QED
    BY <1>2, <2>2 DEF StartOp, Same
<1>3. CASE ApplyUpdate(o)
  BY <1>3 DEF ApplyUpdate, Same, OpsOf, TypeOK
<1>4. CASE ApplyAppend(o)
  BY <1>4 DEF ApplyAppend, Same, OpsOf, TypeOK
<1>5. QED
  BY <1>2, <1>3, <1>4 DEF OpStep

LEMMA LeaveMem ==
    ASSUME TypeOK, NEW j \in Jobs, NEW e, NEW ops,
           Leave(j, e, ops) \/ CancelHandler(j, ops) \/ TimeoutHandler(j, ops)
    PROVE  \A k \in Jobs \ {j} : mem'[k] = mem[k]
BY DEF Leave, CancelHandler, TimeoutHandler, TypeOK

LEMMA TaskSame ==
    ASSUME TypeOK, OwnersInv, NEW j \in Jobs, TaskStepOf(j), NEW k \in Jobs, k # j
    PROVE  Same(k)
<1>1. ASSUME NEW S \in SUBSET ({j} \union ({j} \X Workers)), NEW ops,
             ops = db \/ ops = Abandon(S),
             db' = ops \/ db' = ops \union {Update(j, j)},
             run'[k] = run[k], wk'[k] = wk[k], mem'[k] = mem[k], UNCHANGED <<repo, rows>>
      PROVE  Same(k)
  <2>1. OpsOf(k, ops) = OpsOf(k, db)
    BY <1>1, AbandonOthers
  <2>2. OpsOf(k, db') = OpsOf(k, ops)
    BY <1>1 DEF OpsOf, Update
  <2>3. QED
    BY <1>1, <2>1, <2>2 DEF Same
<1>2. ASSUME db' = db \/ db' = db \union {Update(j, j)},
             run'[k] = run[k], wk'[k] = wk[k], mem'[k] = mem[k], UNCHANGED <<repo, rows>>
      PROVE  Same(k)
  <2>1. {} \in SUBSET ({j} \union ({j} \X Workers))
    OBVIOUS
  <2>2. QED
    BY <1>1, <1>2, <2>1
<1>3. ASSUME CancelWorkers(j), run'[k] = run[k], mem'[k] = mem[k], UNCHANGED <<repo, rows>>
      PROVE  Same(k)
  <2>1. PICK S : S = {<<j, w>> : w \in Killed(j)} /\ db' = Abandon(S)
    BY <1>3 DEF CancelWorkers
  <2>2. S \in SUBSET ({j} \union ({j} \X Workers))
    BY <2>1 DEF Killed
  <2>3. wk'[k] = wk[k]
    BY <1>3 DEF CancelWorkers, TypeOK
  <2>4. QED
    BY <1>1, <1>3, <2>1, <2>2, <2>3
<1>4. CASE StartJob(j) \/ StartWorkers(j) \/ Gathered(j) \/ Drained(j) \/ Post(j)
  <2>1. db' = db \/ db' = db \union {Update(j, j)}
    BY <1>4 DEF StartJob, StartWorkers, Gathered, Drained, Post
  <2>2. run'[k] = run[k] /\ wk'[k] = wk[k] /\ mem'[k] = mem[k] /\ UNCHANGED <<repo, rows>>
    BY <1>4 DEF StartJob, StartWorkers, Gathered, Drained, Post, TypeOK
  <2>3. QED
    BY <1>2, <2>1, <2>2
<1>5. CASE Drain(j)
  BY <1>3, <1>5 DEF Drain, TypeOK
<1>6. CASE InterruptGather(j)
  <2>1. run'[k] = run[k] /\ mem'[k] = mem[k] /\ UNCHANGED <<repo, rows>>
    BY <1>6 DEF InterruptGather, TypeOK
  <2>2. CancelWorkers(j) \/ UNCHANGED <<wk, db>>
    BY <1>6 DEF InterruptGather
  <2>3. QED
    BY <1>2, <1>3, <2>1, <2>2
<1>7. CASE Executed(j)
  <2>1. SavesEffect(j, db) /\ mem'[k] = mem[k] /\ UNCHANGED <<repo, rows, wk>>
    BY <1>7, LeaveSaves, LeaveMem DEF Executed
  <2>2. db' = db \/ db' = db \union {Update(j, j)}
    BY <1>7 DEF Executed, Leave, CancelHandler, TimeoutHandler
  <2>3. QED
    BY <1>2, <2>1, <2>2 DEF SavesEffect
<1>8. CASE Saved(j) \/ Posted(j)
  <2>1. db' = db \/ db' = db \union {Update(j, j)}
    BY <1>8 DEF Saved, Posted
  <2>2. run'[k] = run[k] /\ UNCHANGED <<repo, rows, mem, wk>>
    BY <1>8 DEF Saved, Posted, Goto, Finish, TypeOK
  <2>3. QED
    BY <1>2, <2>1, <2>2
<1>9. CASE Interrupt(j)
  <2>1. UNCHANGED <<repo, rows, wk>>
    BY <1>9 DEF Interrupt
  <2>2. CASE \/ Leave(j, "cancel", Abandon({j})) \/ CancelHandler(j, Abandon({j}))
             \/ Finish(j) /\ db' = Abandon({j}) /\ UNCHANGED mem
    <3>1. SavesEffect(j, Abandon({j})) /\ mem'[k] = mem[k]
      BY <2>2, LeaveSaves, HandlerSaves, FinishSaves, LeaveMem
    <3>2. db' = Abandon({j}) \/ db' = Abandon({j}) \union {Update(j, j)}
      BY <2>2 DEF Leave, CancelHandler, TimeoutHandler
    <3>3. {j} \in SUBSET ({j} \union ({j} \X Workers))
      OBVIOUS
    <3>4. QED
      BY <1>1, <2>1, <3>1, <3>2, <3>3 DEF SavesEffect
  <2>3. CASE Finish(j) /\ db' = Detach(j) /\ UNCHANGED mem
    <3>1. ASSUME NEW o \in db, o.own = j PROVE o.job = j
      <4>1. o.own \in {o.job} \union ({o.job} \X Workers) \union Threads \union {NoProc}
        BY DEF OwnersInv, OpOwned
      <4>2. o.job \in Jobs
        BY DEF TypeOK, Operation
      <4>3. QED
        BY <3>1, <4>1, <4>2, NamesAssumption
    <3>2. \A q \in db : [q EXCEPT !.own = NoProc, !.stage = "started",
                            !.val = IF q.stage = "sent" THEN mem[q.job] ELSE @].job = q.job
      BY DEF TypeOK, Operation
    <3>3. OpsOf(k, Detach(j)) = OpsOf(k, db)
      <4>1. ASSUME NEW q \in Detach(j), q.job = k PROVE q \in db
        <5>1. \/ q \in db
              \/ \E o \in db : /\ o.own = j
                              /\ q = [o EXCEPT !.own = NoProc, !.stage = "started",
                                               !.val = IF o.stage = "sent" THEN mem[o.job] ELSE @]
          BY DEF Detach
        <5>2. QED
          BY <3>1, <3>2, <4>1, <5>1
      <4>2. \A q \in db : q.job = k => q \in Detach(j)
        BY <3>1 DEF Detach
      <4>3. QED
        BY <4>1, <4>2 DEF OpsOf
    <3>4. run'[k] = run[k]
      BY <2>3 DEF Finish, TypeOK
    <3>5. QED
      BY <2>1, <2>3, <3>3, <3>4 DEF Same
  <2>4. QED
    BY <1>9, <2>2, <2>3 DEF Interrupt
<1>10. QED
  BY <1>4, <1>5, <1>6, <1>7, <1>8, <1>9 DEF TaskStepOf

LEMMA WorkSame ==
    ASSUME TypeOK, OwnersInv, NEW j \in Jobs, NEW w \in Workers, WorkStep(j, w),
           NEW k \in Jobs, k # j
    PROVE  Same(k)
<1>1. run'[k] = run[k]
  BY WorkerRun DEF WorkStep
<1>2. wk'[k] = wk[k]
  BY DEF WorkStep, Take, Collected, Persist, Appended, Counted, Duplicate, Die, SetWorker, TypeOK
<1>3. mem'[k] = mem[k] /\ UNCHANGED <<repo, rows>>
  BY DEF WorkStep, Take, Collected, Persist, Appended, Counted, Duplicate, Die, TypeOK
<1>4. \/ db' = db \/ db' = db \union {Update(j, <<j, w>>)}
      \/ \E n, i : db' = db \union {Append(j, w, n, i)}
  BY DEF WorkStep, Take, Collected, Persist, Appended, Counted, Duplicate, Die
<1>5. OpsOf(k, db') = OpsOf(k, db)
  BY <1>4 DEF OpsOf, Update, Append
<1>6. QED
  BY <1>1, <1>2, <1>3, <1>5 DEF Same

LEMMA CallSame ==
    ASSUME TypeOK, OwnersInv, NEW c \in Threads, CallStep(c), NEW k \in Jobs, k # call[c].job
    PROVE  Same(k)
<1>1. call[c].pc # "idle"
  BY DEF CallStep, Acquire, FindKey, CreateJob, LaunchNew, ReadJob, CheckCancel, CancelTask,
     CheckResume, ReadRows, ResetJob, LaunchResumed
<1>2. PICK j \in Jobs : j = call[c].job
  BY <1>1, CallTypes
<1>3. CASE Acquire(c) \/ FindKey(c) \/ ReadJob(c) \/ CheckResume(c) \/ ReadRows(c)
  BY <1>3 DEF Acquire, FindKey, ReadJob, CheckResume, ReadRows, Same, OpsOf
<1>4. CASE CreateJob(c)
  BY <1>2, <1>4 DEF CreateJob, Same, TypeOK
<1>5. CASE LaunchNew(c) \/ LaunchResumed(c)
  BY <1>2, <1>5 DEF LaunchNew, LaunchResumed, Launch, Same, TypeOK
<1>6. CASE CheckCancel(c)
  <2>1. db' = db \/ db' = db \union {Update(j, c)}
    BY <1>2, <1>6 DEF CheckCancel
  <2>2. OpsOf(k, db') = OpsOf(k, db)
    BY <1>2, <2>1 DEF OpsOf, Update
  <2>3. QED
    BY <1>2, <1>6, <2>2 DEF CheckCancel, Same, TypeOK
<1>7. CASE CancelTask(c)
  BY <1>2, <1>7 DEF CancelTask, Same, TypeOK
<1>8. CASE ResetJob(c)
  <2>1. \E v : db' = db \union {[Update(j, c) EXCEPT !.stage = "started", !.val = v]}
    BY <1>2, <1>8 DEF ResetJob
  <2>2. \A v : [Update(j, c) EXCEPT !.stage = "started", !.val = v].job = j
    BY DEF Update
  <2>3. OpsOf(k, db') = OpsOf(k, db)
    BY <1>2, <2>1, <2>2 DEF OpsOf
  <2>4. QED
    BY <1>8, <2>3 DEF ResetJob, Same
<1>9. QED
  BY <1>3, <1>4, <1>5, <1>6, <1>7, <1>8 DEF CallStep

\* A step of a process that is not stopped is one of an operation, the run
\* task, a worker or a call of some job, of which alone it changes anything;
\* or of a client or a detached delivery.
LEMMA StepOnJob ==
    ASSUME MaxStops = 0, TypeOK, OwnersInv, Calm, [Next]_vars, stray = {}
    PROVE  \A k \in Jobs :
              \/ Same(k)
              \/ \E o \in OpsOf(k, db) : OpStep(o)
              \/ TaskStepOf(k) \/ \E w \in Workers : WorkStep(k, w)
              \/ \E c \in Callers : call[c].job = k /\ CallStep(c)
              \/ Deadline(k)
<1> SUFFICES ASSUME NEW k \in Jobs
             PROVE  \/ Same(k)
                    \/ \E o \in OpsOf(k, db) : OpStep(o)
                    \/ TaskStepOf(k) \/ \E w \in Workers : WorkStep(k, w)
                    \/ \E c \in Callers : call[c].job = k /\ CallStep(c)
                    \/ Deadline(k)
  OBVIOUS
<1>1. CASE UNCHANGED vars
  BY <1>1 DEF vars, Same, OpsOf
<1>2. CASE Storage
  <2>1. PICK o \in db : OpStep(o)
    BY <1>2 DEF Storage, OpStep
  <2>2. QED
    BY <2>1, OpSame DEF OpsOf
<1>3. CASE RunTasks
  <2>1. PICK j \in Jobs : TaskStepOf(j)
    BY <1>3 DEF RunTasks, TaskStepOf
  <2>2. QED
    BY <2>1, TaskSame
<1>4. CASE WorkerTasks
  <2>1. PICK j \in Jobs, w \in Workers : WorkStep(j, w)
    BY <1>4 DEF WorkerTasks, WorkStep
  <2>2. QED
    BY <2>1, WorkSame
<1>5. CASE Clients
  BY <1>5 DEF Clients, Request, PollJob, PollRows, Same, OpsOf
<1>6. ASSUME NEW c \in Callers, CallStep(c)
      PROVE  Same(k) \/ \E d \in Callers : call[d].job = k /\ CallStep(d)
  BY <1>6, CallSame DEF Threads
<1>7. ASSUME NEW j \in Jobs, Deadline(j)
      PROVE  Same(k) \/ Deadline(k)
  BY <1>7 DEF Deadline, Same, OpsOf, TypeOK
<1>8. ~Strays
  BY DEF Strays
<1>9. QED
  BY <1>1, <1>2, <1>3, <1>4, <1>5, <1>6, <1>7, <1>8, CalmStep

-----------------------------------------------------------------------------
(***************************************************************************)
(* The outcome of the webhook.  Unless a job is cancelled or the process   *)
(* stops, a run task ends behind the update that stores whether its        *)
(* webhook was accepted, and that update starts after every other one of   *)
(* the job: a document that is stored then has its outcome.                *)
(***************************************************************************)

NoCancels == "cancel" \notin Ops /\ MaxStops = 0 /\ ~LateWrites

\* The webhook has an outcome, or the job is yet to run.
Fine(v) == v.webhook # "pending" \/ v.status = "queued"

CallHook(c) ==
    /\ call[c].op # "cancel"
    /\ call[c].pc \in {"rows", "build", "save"} => call[c].op = "resume"
    /\ call[c].pc = "save" =>
          /\ call[c].seen.status = "queued"
          /\ call[c].job \notin Hooked => call[c].seen.webhook # "pending"

\* Only the deadline interrupts a run r.
RunHook(r) ==
    /\ "cancel" \notin r.cause /\ r.block # "cancel"
    /\ r.intr => r.pc \in {"begin", "gather", "cancelling", "drain", "final"}
    /\ r.pc = "save" => r.block = "timeout"

\* Without a webhook_url nothing is pending in the live object m, the stored
\* document v and the operations us of j.
Unhooked(j, m, v, us) ==
    j \notin Hooked => /\ m.webhook # "pending" /\ v.webhook # "pending"
                       /\ \A o \in us : o.val.webhook # "pending"

\* An update of the run task of j that is awaited, and one that has not started.
Owes(j, us) == \E o \in us : o.own = j /\ o.live
Sends(j, us) == \E o \in us : o.own = j /\ o.live /\ o.stage = "sent"

\* While the outcome is stored it is either yet to be written or in every
\* operation that is left; when the task is gone, in all there is of the job.
OutcomeKept(j, r, m, v, us) ==
    /\ r.pc = "idle" => Fine(m) /\ Fine(v) /\ \A o \in us : Fine(o.val)
    /\ r.pc = "hookSave" =>
          /\ Fine(m)
          /\ \A o \in us : o.live => Fine(o.val)
          /\ Sends(j, us) \/ \A o \in us : Fine(o.val)
          /\ Owes(j, us) \/ Fine(v)

JobHook(j, r, m, v, us) ==
    /\ RunHook(r)
    /\ Unhooked(j, m, v, us)
    /\ OutcomeKept(j, r, m, v, us)
    /\ \A o \in us : o.own # NoProc

HookInv ==
    /\ stray = {}
    /\ \A c \in Threads : CallHook(c)
    /\ \A j \in Jobs : JobHook(j, run[j], mem[j], repo[j], OpsOf(j, db))

LEMMA FineValues ==
  /\ Fine(NoJob) /\ NoJob.webhook # "pending"
  /\ \A j : Fine(Fresh(j)) /\ Fresh(j).status = "queued"
            /\ (j \notin Hooked => Fresh(j).webhook # "pending")
BY DEF Fine, NoJob, Fresh

LEMMA AbandonVals ==
    ASSUME TypeOK, NEW S, NEW j \in Jobs
    PROVE  \A o \in OpsOf(j, Abandon(S)) :
              \E q \in OpsOf(j, db) : o.val = q.val /\ o.own = q.own
<1>1. ASSUME NEW q \in db
      PROVE  LET o == [q EXCEPT !.live = FALSE]
             IN  o.val = q.val /\ o.own = q.own /\ o.job = q.job
  BY DEF TypeOK, Operation
<1>2. ASSUME NEW o \in Abandon(S), o.job = j
      PROVE  \E q \in OpsOf(j, db) : o.val = q.val /\ o.own = q.own
  <2>1. CASE o \in db
    BY <1>2, <2>1 DEF OpsOf
  <2>2. CASE \E q \in db : o = [q EXCEPT !.live = FALSE]
    BY <1>1, <1>2, <2>2 DEF OpsOf
  <2>3. QED
    BY <1>2, <2>1, <2>2 DEF Abandon
<1>3. QED
  BY <1>2 DEF OpsOf

-----------------------------------------------------------------------------
(* The run task *)

\* A step to a place where nothing is asked of the outcome.
LEMMA OnwardHook ==
    ASSUME NEW j \in Jobs, JobHook(j, run[j], mem[j], repo[j], OpsOf(j, db)),
           RunHook(run'[j]), run'[j].pc \notin {"idle", "hookSave"},
           repo'[j] = repo[j],
           mem'[j].webhook = mem[j].webhook \/ mem'[j].webhook # "pending",
           \A o \in OpsOf(j, db') : \/ o.val = NoJob /\ o.own # NoProc
                                    \/ \E q \in OpsOf(j, db) : o.val = q.val /\ o.own = q.own
    PROVE  JobHook(j, run'[j], mem'[j], repo'[j], OpsOf(j, db'))
BY FineValues DEF JobHook, Unhooked, OutcomeKept

\* The end of the task of a job without a webhook, or behind its outcome.
LEMMA FinishHook ==
    ASSUME TypeOK, NEW j \in Jobs, JobHook(j, run[j], mem[j], repo[j], OpsOf(j, db)),
           Finish(j), UNCHANGED <<mem, repo, db>>,
           j \notin Hooked \/ (run[j].pc = "hookSave" /\ ~Waiting(j))
    PROVE  JobHook(j, run'[j], mem'[j], repo'[j], OpsOf(j, db'))
<1>1. run'[j] = Idle
  BY DEF Finish, TypeOK
<1>2. RunHook(run'[j])
  BY <1>1 DEF RunHook, Idle
<1>3. CASE j \notin Hooked
  BY <1>2, <1>3 DEF JobHook, Unhooked, OutcomeKept, Fine
<1>4. CASE run[j].pc = "hookSave" /\ ~Waiting(j)
  <2>1. ~Owes(j, OpsOf(j, db)) /\ ~Sends(j, OpsOf(j, db))
    BY <1>4 DEF Owes, Sends, Waiting, OpsOf
  <2>2. QED
    BY <1>2, <1>4, <2>1 DEF JobHook, Unhooked, OutcomeKept
<1>5. QED
  BY <1>3, <1>4

LEMMA GotoHook ==
    ASSUME TypeOK, NEW j \in Jobs, NEW b, NEW p, Goto(j, b, p),
           RunHook(run[j]), b # "cancel", p = "save" => b = "timeout"
    PROVE  RunHook(run'[j]) /\ run'[j].pc = p
<1>1. run'[j] = [run[j] EXCEPT !.pc = p, !.block = b, !.attempt = 1, !.intr = FALSE]
  BY DEF Goto, TypeOK
<1>2. run[j] \in RunTask
  BY DEF TypeOK
<1>3. /\ run'[j].pc = p /\ run'[j].block = b /\ run'[j].cause = run[j].cause
  BY <1>1, <1>2 DEF RunTask
<1>4. ~run'[j].intr
  BY <1>1, <1>2 DEF RunTask
<1>5. QED
  BY <1>3, <1>4 DEF RunHook

\* The deadline ends the body, or it ends by itself.
LEMMA LeaveHook ==
    ASSUME TypeOK, NEW j \in Jobs, JobHook(j, run[j], mem[j], repo[j], OpsOf(j, db)),
           NEW e, NEW S, NEW ops, ops = db \/ ops = Abandon(S),
           e # "cancel" => ops = db,
           Leave(j, e, ops), repo' = repo
    PROVE  JobHook(j, run'[j], mem'[j], repo'[j], OpsOf(j, db'))
<1>1. RunHook(run[j]) /\ "cancel" \notin run[j].cause
  BY DEF JobHook, RunHook
<1>2. \A o \in OpsOf(j, ops) : \E q \in OpsOf(j, db) : o.val = q.val /\ o.own = q.own
  BY AbandonVals
<1>3. CASE TimeoutHandler(j, ops)
  <2>1. RunHook(run'[j]) /\ run'[j].pc = "save"
    BY <1>1, <1>3, GotoHook DEF TimeoutHandler
  <2>2. mem'[j].webhook = mem[j].webhook
    BY <1>3 DEF TimeoutHandler, TypeOK, StoredJob
  <2>3. \A o \in OpsOf(j, db') : o \in OpsOf(j, ops) \/ o = Update(j, j)
    BY <1>3 DEF TimeoutHandler, OpsOf
  <2>4. Update(j, j).val = NoJob /\ Update(j, j).own # NoProc
    BY NamesAssumption DEF Update
  <2>5. QED
    BY <1>2, <2>1, <2>2, <2>3, <2>4, OnwardHook
<1>4. CASE Goto(j, "body", "hook") /\ db' = ops /\ UNCHANGED mem
  <2>1. RunHook(run'[j]) /\ run'[j].pc = "hook"
    BY <1>1, <1>4, GotoHook
  <2>2. QED
    BY <1>2, <1>4, <2>1, OnwardHook
<1>5. CASE e # "cancel" /\ j \notin Hooked /\ Finish(j) /\ db' = ops /\ UNCHANGED mem
  BY <1>5, FinishHook
<1>6. QED
  BY <1>1, <1>3, <1>4, <1>5 DEF Leave

\* When the webhook is sent, no other operation of the job is awaited.
LEMMA HookAlone ==
    ASSUME TypeOK, LockInv, OwnersInv, HookInv, NEW j \in Jobs, run[j].pc = "hook"
    PROVE  \A o \in OpsOf(j, db) : ~o.live
<1> SUFFICES ASSUME NEW o \in db, o.job = j, o.live
             PROVE  FALSE
  BY DEF OpsOf
<1>1. \A w \in Workers : wk[j][w].pc = "off"
  BY DEF LockInv, Exclusive, TasksCover
<1>2. OpOwned(o) /\ o \in Operation /\ o.own # NoProc
  BY DEF OwnersInv, TypeOK, HookInv, JobHook, OpsOf
<1>3. o.kind # "append"
  BY <1>1 DEF LockInv, Awaited, Held
<1>4. Awaits(o.own, j)
  BY <1>2, <1>3 DEF OpOwned, Operation
<1>5. PICK c \in Threads : o.own = c /\ call[c].pc = "save" /\ call[c].job = j
  BY <1>1, <1>2, <1>4 DEF Awaits
<1>6. call[c].op = "resume"
  BY <1>5 DEF HookInv, CallHook
<1>7. QED
  BY <1>5, <1>6 DEF LockInv, Exclusive, LaunchesAlone, Launching

LEMMA TaskHook ==
    ASSUME TypeOK, LockInv, OwnersInv, HookInv, NEW j \in Jobs, TaskStepOf(j)
    PROVE  JobHook(j, run'[j], mem'[j], repo'[j], OpsOf(j, db'))
<1>1. JobHook(j, run[j], mem[j], repo[j], OpsOf(j, db)) /\ RunHook(run[j])
  BY DEF HookInv, JobHook
<1>2. run[j] \in RunTask /\ mem[j] \in StoredJob
  BY DEF TypeOK
<1>3. Update(j, j).val = NoJob /\ Update(j, j).own # NoProc
  BY NamesAssumption DEF Update
\* On the way to the end of the body.
<1>4. ASSUME run'[j].pc \in {"begin", "gather", "cancelling", "drain", "final"},
             run'[j].cause = run[j].cause, run'[j].block = run[j].block,
             mem'[j].webhook = mem[j].webhook, repo' = repo,
             NEW S,
             \A o \in db' : o \in db \/ o \in Abandon(S) \/ o = Update(j, j)
      PROVE  JobHook(j, run'[j], mem'[j], repo'[j], OpsOf(j, db'))
  <2>1. RunHook(run'[j])
    BY <1>1, <1>4 DEF RunHook
  <2>2. \A o \in OpsOf(j, db') :
           o \in OpsOf(j, db) \/ o \in OpsOf(j, Abandon(S)) \/ o = Update(j, j)
    BY <1>4 DEF OpsOf
  <2>3. QED
    BY <1>1, <1>3, <1>4, <2>1, <2>2, AbandonVals, OnwardHook
<1>5. CASE StartJob(j) \/ StartWorkers(j) \/ Gathered(j) \/ Drained(j)
  <2>1. \E p \in {"begin", "gather", "final"} : run' = [run EXCEPT ![j].pc = p]
    BY <1>5 DEF StartJob, StartWorkers, Gathered, Drained
  <2>2. /\ run'[j].pc \in {"begin", "gather", "cancelling", "drain", "final"}
        /\ run'[j].cause = run[j].cause /\ run'[j].block = run[j].block
    BY <1>2, <2>1 DEF TypeOK, RunTask
  <2>3. mem'[j].webhook = mem[j].webhook /\ repo' = repo
    BY <1>2, <1>5 DEF StartJob, StartWorkers, Gathered, Drained, TypeOK, StoredJob
  <2>4. \A o \in db' : o \in db \/ o = Update(j, j)
    BY <1>5 DEF StartJob, StartWorkers, Gathered, Drained
  <2>5. QED
    BY <1>4, <2>2, <2>3, <2>4
<1>6. CASE Drain(j) \/ InterruptGather(j)
  <2>1. /\ run'[j].pc \in {"begin", "gather", "cancelling", "drain", "final"}
        /\ run'[j].cause = run[j].cause /\ run'[j].block = run[j].block
    <3>1. CASE Drain(j)
      BY <1>2, <3>1 DEF Drain, TypeOK, RunTask
    <3>2. CASE InterruptGather(j)
      <4>1. \E p \in {"cancelling", "drain"} : \E e :
                   run'[j] = [run[j] EXCEPT !.intr = FALSE, !.pc = p, !.exc = e]
        BY <1>2, <3>2 DEF InterruptGather, TypeOK
      <4>2. PICK p \in {"cancelling", "drain"} : \E e :
               run'[j] = [run[j] EXCEPT !.intr = FALSE, !.pc = p, !.exc = e]
        BY <4>1
      <4>3. PICK e : run'[j] = [run[j] EXCEPT !.intr = FALSE, !.pc = p, !.exc = e]
        BY <4>2
      <4>4. QED
        BY <1>2, <4>3 DEF RunTask
    <3>3. QED
      BY <1>6, <3>1, <3>2
  <2>2. mem' = mem /\ repo' = repo
    BY <1>6 DEF Drain, InterruptGather
  <2>3. \E S : \A o \in db' : o \in db \/ o \in Abandon(S)
    BY <1>6 DEF Drain, InterruptGather, CancelWorkers
  <2>4. QED
    BY <1>4, <2>1, <2>2, <2>3
<1>7. CASE Executed(j)
  <2>1. Leave(j, run[j].exc, db) /\ repo' = repo
    BY <1>7 DEF Executed
  <2>2. QED
    BY <1>1, <2>1, LeaveHook
<1>8. CASE Saved(j)
  <2>1. UNCHANGED <<mem, repo, db>> /\ run[j].block = "timeout"
    BY <1>1, <1>8 DEF Saved, RunHook
  <2>2. CASE j \in Hooked
    <3>1. Goto(j, "timeout", "hook")
      BY <1>8, <2>1, <2>2 DEF Saved
    <3>2. RunHook(run'[j]) /\ run'[j].pc = "hook"
      BY <1>1, <3>1, GotoHook
    <3>3. QED
      BY <1>1, <2>1, <3>2, OnwardHook
  <2>3. CASE j \notin Hooked
    BY <1>1, <1>8, <2>1, <2>3, FinishHook DEF Saved
  <2>4. QED
    BY <2>2, <2>3
<1>9. CASE Post(j)
  <2>1. run[j].pc = "hook" /\ repo' = repo
    BY <1>9 DEF Post
  <2>2. CASE /\ \E status \in {"sent", "failed"} : mem' = [mem EXCEPT ![j].webhook = status]
             /\ db' = db \union {Update(j, j)}
             /\ run' = [run EXCEPT ![j].pc = "hookSave"]
    <3>1. mem'[j].webhook \in {"sent", "failed"}
      BY <1>2, <2>2 DEF TypeOK, StoredJob
    <3>2. /\ run'[j].pc = "hookSave" /\ run'[j].cause = run[j].cause
          /\ run'[j].block = run[j].block
      BY <1>2, <2>2 DEF TypeOK, RunTask
    <3>3. run'[j].intr <=> run[j].intr
      BY <1>2, <2>2 DEF TypeOK, RunTask
    <3>4. RunHook(run'[j])
      BY <1>1, <2>1, <3>2, <3>3 DEF RunHook
    <3>5. OpsOf(j, db') = OpsOf(j, db) \union {Update(j, j)}
      BY <2>2 DEF OpsOf, Update
    <3>6. Update(j, j).own = j /\ Update(j, j).live /\ Update(j, j).stage = "sent"
      BY DEF Update
    <3>7. Owes(j, OpsOf(j, db')) /\ Sends(j, OpsOf(j, db'))
      BY <3>5, <3>6 DEF Owes, Sends
    <3>8. \A o \in OpsOf(j, db') : o.live => Fine(o.val)
      BY <1>3, <2>1, <3>5, HookAlone, FineValues
    <3>9. Unhooked(j, mem'[j], repo'[j], OpsOf(j, db'))
      BY <1>1, <1>3, <2>1, <3>1, <3>5, FineValues DEF JobHook, Unhooked
    <3>10. QED
      BY <1>1, <1>3, <3>1, <3>2, <3>4, <3>5, <3>7, <3>8, <3>9 DEF JobHook, OutcomeKept, Fine
  <2>3. CASE run' = [run EXCEPT ![j].attempt = @ + 1] /\ UNCHANGED <<mem, db>>
    <3>1. /\ run'[j].pc = "hook" /\ run'[j].cause = run[j].cause
          /\ run'[j].block = run[j].block
      BY <1>2, <2>1, <2>3 DEF TypeOK, RunTask
    <3>2. run'[j].intr <=> run[j].intr
      BY <1>2, <2>3 DEF TypeOK, RunTask
    <3>3. RunHook(run'[j])
      BY <1>1, <2>1, <3>1, <3>2 DEF RunHook
    <3>4. QED
      BY <1>1, <2>1, <2>3, <3>1, <3>3, OnwardHook
  <2>4. QED
    BY <1>9, <2>2, <2>3 DEF Post
<1>10. CASE Posted(j)
  <2>1. run[j].block # "cancel"
    BY <1>1 DEF RunHook
  <2>2. QED
    BY <1>1, <1>10, <2>1, FinishHook DEF Posted
<1>11. CASE Interrupt(j)
  <2>1. Leave(j, "cancel", Abandon({j})) /\ repo' = repo
    BY <1>1, <1>11 DEF Interrupt, RunHook
  <2>2. QED
    BY <1>1, <2>1, LeaveHook
<1>12. QED
  BY <1>5, <1>6, <1>7, <1>8, <1>9, <1>10, <1>11 DEF TaskStepOf

-----------------------------------------------------------------------------
(* Operations, workers, calls *)

LEMMA WorkHook ==
    ASSUME TypeOK, HookInv, NEW j \in Jobs, NEW w \in Workers, WorkStep(j, w)
    PROVE  JobHook(j, run'[j], mem'[j], repo'[j], OpsOf(j, db'))
<1>1. /\ run'[j].pc = run[j].pc /\ run'[j].block = run[j].block
      /\ run'[j].cause = run[j].cause
  BY WorkerRun DEF WorkStep
<1>2. run'[j].intr <=> run[j].intr
  BY WorkerRun DEF WorkStep
<1>3. JobHook(j, run[j], mem[j], repo[j], OpsOf(j, db)) /\ mem[j] \in StoredJob
  BY DEF HookInv, TypeOK
<1>4. RunHook(run'[j])
  BY <1>1, <1>2, <1>3 DEF JobHook, RunHook
<1>5. mem'[j].webhook = mem[j].webhook /\ mem'[j].status = mem[j].status /\ repo' = repo
  <2>1. mem' = mem \/ mem' = [mem EXCEPT ![j].completed = @ + 1]
    BY DEF WorkStep, Take, Collected, Persist, Appended, Counted, Duplicate, Die
  <2>2. mem'[j].webhook = mem[j].webhook /\ mem'[j].status = mem[j].status
    BY <1>3, <2>1 DEF TypeOK, StoredJob
  <2>3. repo' = repo
    BY DEF WorkStep, Take, Collected, Persist, Appended, Counted, Duplicate, Die
  <2>4. QED
    BY <2>2, <2>3
<1>6. \/ db' = db
      \/ \E o : /\ db' = db \union {o} /\ o.val = NoJob
                /\ o.own = <<j, w>> /\ o.live
  <2>1. /\ Update(j, <<j, w>>).val = NoJob /\ Update(j, <<j, w>>).own = <<j, w>>
        /\ Update(j, <<j, w>>).live
    BY DEF Update
  <2>2. \A n, i : /\ Append(j, w, n, i).val = NoJob /\ Append(j, w, n, i).own = <<j, w>>
                  /\ Append(j, w, n, i).live
    BY DEF Append
  <2>3. \/ db' = db \/ db' = db \union {Update(j, <<j, w>>)}
        \/ \E n, i : db' = db \union {Append(j, w, n, i)}
    BY DEF WorkStep, Take, Collected, Persist, Appended, Counted, Duplicate, Die
  <2>4. QED
    BY <2>1, <2>2, <2>3
<1>7. CASE db' = db
  BY <1>1, <1>3, <1>4, <1>5, <1>7 DEF JobHook, Unhooked, OutcomeKept, Fine
<1>8. ASSUME NEW o, db' = db \union {o}, o.val = NoJob, o.own = <<j, w>>, o.live
      PROVE  JobHook(j, run'[j], mem'[j], repo'[j], OpsOf(j, db'))
  <2>1. /\ \A q \in OpsOf(j, db') : q \in OpsOf(j, db) \/ q = o
        /\ OpsOf(j, db) \subseteq OpsOf(j, db')
    BY <1>8 DEF OpsOf
  <2>2. o.own # NoProc
    BY <1>8, NamesAssumption
  <2>3. Unhooked(j, mem'[j], repo'[j], OpsOf(j, db'))
    BY <1>3, <1>5, <1>8, <2>1, FineValues DEF JobHook, Unhooked
  <2>4. Fine(mem[j]) => Fine(mem'[j])
    BY <1>5 DEF Fine
  <2>5. Fine(o.val)
    BY <1>8, FineValues
  <2>6. /\ Owes(j, OpsOf(j, db)) => Owes(j, OpsOf(j, db'))
        /\ Sends(j, OpsOf(j, db)) => Sends(j, OpsOf(j, db'))
    BY <2>1 DEF Owes, Sends
  <2>7. OutcomeKept(j, run'[j], mem'[j], repo'[j], OpsOf(j, db'))
    BY <1>1, <1>3, <1>5, <2>1, <2>4, <2>5, <2>6 DEF JobHook, OutcomeKept
  <2>8. QED
    BY <1>3, <1>4, <1>8, <2>1, <2>2, <2>3, <2>7 DEF JobHook
<1>9. QED
  BY <1>6, <1>7, <1>8

\* An update that starts reads the outcome; one that is applied stores it.
LEMMA OpHook ==
    ASSUME TypeOK, OwnersInv, HookInv, ~LateWrites,
           NEW j \in Jobs, NEW o \in OpsOf(j, db), OpStep(o)
    PROVE  JobHook(j, run'[j], mem'[j], repo'[j], OpsOf(j, db'))
<1>1. o \in db /\ o.job = j /\ o \in Operation /\ OpOwned(o) /\ o.own # NoProc
  BY DEF OpsOf, TypeOK, OwnersInv, HookInv, JobHook
<1>2. JobHook(j, run[j], mem[j], repo[j], OpsOf(j, db))
  BY DEF HookInv
<1>3. run' = run /\ mem' = mem
  BY DEF OpStep, StartOp, ApplyUpdate, ApplyAppend
<1>4. CASE StartOp(o)
  <2> DEFINE s == [o EXCEPT !.stage = "started",
                            !.val = IF o.kind = "update" THEN mem[o.job] ELSE @]
  <2>1. /\ s.job = j /\ s.own = o.own /\ s.stage = "started"
        /\ s.val = mem[j] \/ s.val = o.val
    BY <1>1 DEF Operation
  <2>2. s.live <=> o.live
    BY <1>1 DEF Operation
  <2>3. db' = (db \ {o}) \union {s} /\ repo' = repo /\ \A q \in OpsOf(j, db) : q.live
    BY <1>1, <1>4 DEF StartOp, Settled, OpsOf
  <2> HIDE DEF s
  <2>4. OpsOf(j, db') = (OpsOf(j, db) \ {o}) \union {s}
    BY <2>1, <2>3 DEF OpsOf
  <2>5. o.live
    BY <2>3
  <2>6. Owes(j, OpsOf(j, db)) => Owes(j, OpsOf(j, db'))
    BY <2>1, <2>2, <2>4 DEF Owes
  <2>7. Unhooked(j, mem'[j], repo'[j], OpsOf(j, db'))
    BY <1>2, <1>3, <2>1, <2>3, <2>4 DEF JobHook, Unhooked
  <2>8. OutcomeKept(j, run'[j], mem'[j], repo'[j], OpsOf(j, db'))
    BY <1>2, <1>3, <2>1, <2>3, <2>4, <2>5, <2>6 DEF JobHook, OutcomeKept
  <2>9. QED
    BY <1>1, <1>2, <1>3, <2>1, <2>4, <2>7, <2>8 DEF JobHook
<1>5. CASE ApplyUpdate(o)
  <2>1. repo'[j] = o.val /\ OpsOf(j, db') = OpsOf(j, db) \ {o} /\ o.stage = "started"
    BY <1>1, <1>5 DEF ApplyUpdate, OpsOf, TypeOK
  <2>2. Sends(j, OpsOf(j, db)) => Sends(j, OpsOf(j, db'))
    BY <2>1 DEF Sends
  <2>3. Sends(j, OpsOf(j, db)) => Owes(j, OpsOf(j, db'))
    BY <2>1 DEF Sends, Owes
  <2>4. Unhooked(j, mem'[j], repo'[j], OpsOf(j, db'))
    BY <1>2, <1>3, <2>1 DEF JobHook, Unhooked
  <2>5. OutcomeKept(j, run'[j], mem'[j], repo'[j], OpsOf(j, db'))
    BY <1>2, <1>3, <2>1, <2>2, <2>3 DEF JobHook, OutcomeKept
  <2>6. QED
    BY <1>2, <1>3, <2>1, <2>4, <2>5 DEF JobHook
<1>6. CASE ApplyAppend(o)
  <2>1. repo' = repo /\ OpsOf(j, db') = OpsOf(j, db) \ {o}
    BY <1>1, <1>6 DEF ApplyAppend, OpsOf
  <2>2. o.own # j
    BY <1>1, <1>6, NamesAssumption DEF ApplyAppend, OpOwned
  <2>3. /\ Sends(j, OpsOf(j, db)) => Sends(j, OpsOf(j, db'))
        /\ Owes(j, OpsOf(j, db)) => Owes(j, OpsOf(j, db'))
    BY <2>1, <2>2 DEF Sends, Owes
  <2>4. Unhooked(j, mem'[j], repo'[j], OpsOf(j, db'))
    BY <1>2, <1>3, <2>1 DEF JobHook, Unhooked
  <2>5. OutcomeKept(j, run'[j], mem'[j], repo'[j], OpsOf(j, db'))
    BY <1>2, <1>3, <2>1, <2>3 DEF JobHook, OutcomeKept
  <2>6. QED
    BY <1>2, <1>3, <2>1, <2>4, <2>5 DEF JobHook
<1>7. QED
  BY <1>4, <1>5, <1>6 DEF OpStep

\* A call stores and launches a job that is yet to run.
LEMMA CallStepHook ==
    ASSUME TypeOK, HookInv, NEW c \in Threads, NEW j \in Jobs, call[c].job = j, CallStep(c)
    PROVE  JobHook(j, run'[j], mem'[j], repo'[j], OpsOf(j, db'))
<1>1. JobHook(j, run[j], mem[j], repo[j], OpsOf(j, db))
  BY DEF HookInv
<1>2. CallHook(c)
  BY DEF HookInv
<1>3. CASE \/ Acquire(c) \/ FindKey(c) \/ ReadJob(c) \/ CheckResume(c) \/ ReadRows(c)
  <2>1. UNCHANGED <<run, mem, repo, db>>
    BY <1>3 DEF Acquire, FindKey, ReadJob, CheckResume, ReadRows
  <2>2. QED
    BY <1>1, <2>1
<1>4. CASE CreateJob(c)
  <2>1. UNCHANGED <<run, mem, db>> /\ (repo'[j] = repo[j] \/ repo'[j] = Fresh(j))
    BY <1>4 DEF CreateJob, TypeOK
  <2>2. QED
    BY <1>1, <2>1, FineValues DEF JobHook, Unhooked, OutcomeKept
<1>5. CASE LaunchNew(c) \/ LaunchResumed(c)
  <2>1. mem'[j] = Fresh(j) \/ (mem'[j] = call[c].seen /\ call[c].pc = "save")
    BY <1>5 DEF LaunchNew, LaunchResumed, Launch, TypeOK
  <2>2. UNCHANGED <<repo, db>>
    BY <1>5 DEF LaunchNew, LaunchResumed
  <2>3. j \notin Hooked => mem'[j].webhook # "pending"
    BY <1>2, <2>1, FineValues DEF CallHook
  <2>4. RunHook(run'[j]) /\ run'[j].pc = "sem"
    <3>1. \E l : run'[j] = [Idle EXCEPT !.pc = "sem", !.left = l]
      BY <1>5 DEF LaunchNew, LaunchResumed, Launch, TypeOK
    <3>2. QED
      BY <3>1 DEF RunHook, Idle
  <2>5. QED
    BY <1>1, <2>2, <2>3, <2>4 DEF JobHook, Unhooked, OutcomeKept
<1>6. CASE ResetJob(c)
  <2> DEFINE stored == [Fresh(j) EXCEPT !.completed = call[c].seen.completed]
             q == [Update(j, c) EXCEPT !.stage = "started", !.val = stored]
  <2>1. UNCHANGED <<run, mem, repo>> /\ db' = db \union {q}
    BY <1>6 DEF ResetJob
  <2>2. stored.webhook = Fresh(j).webhook /\ stored.status = "queued"
    BY DEF Fresh, NoJob
  <2> HIDE DEF stored
  <2>3. q.val = stored /\ q.own = c /\ q.job = j
    BY DEF Update
  <2> HIDE DEF q
  <2>4. Fine(q.val) /\ (j \notin Hooked => q.val.webhook # "pending") /\ q.own # NoProc
    BY <2>2, <2>3, FineValues, NamesAssumption DEF Fine
  <2>5. OpsOf(j, db') = OpsOf(j, db) \union {q}
    BY <2>1, <2>3 DEF OpsOf
  <2>6. /\ Owes(j, OpsOf(j, db)) => Owes(j, OpsOf(j, db'))
        /\ Sends(j, OpsOf(j, db)) => Sends(j, OpsOf(j, db'))
    BY <2>5 DEF Owes, Sends
  <2>7. QED
    BY <1>1, <2>1, <2>4, <2>5, <2>6 DEF JobHook, Unhooked, OutcomeKept
<1>7. ~CheckCancel(c) /\ ~CancelTask(c)
  BY <1>2 DEF CallHook, CheckCancel, CancelTask
<1>8. QED
  BY <1>3, <1>4, <1>5, <1>6, <1>7 DEF CallStep

LEMMA DeadlineHook ==
    ASSUME TypeOK, HookInv, NEW j \in Jobs, Deadline(j)
    PROVE  JobHook(j, run'[j], mem'[j], repo'[j], OpsOf(j, db'))
<1>1. JobHook(j, run[j], mem[j], repo[j], OpsOf(j, db)) /\ UNCHANGED <<mem, repo, db>>
  BY DEF HookInv, Deadline
<1>2. /\ run'[j].pc = run[j].pc /\ run'[j].block = run[j].block
      /\ run'[j].cause = run[j].cause \union {"timeout"}
  BY CancelRun DEF Deadline
<1>3. run[j].pc \in {"begin", "gather", "cancelling", "drain", "final"}
  BY DEF Deadline
<1>4. RunHook(run'[j])
  BY <1>1, <1>2, <1>3 DEF JobHook, RunHook
<1>5. QED
  BY <1>1, <1>2, <1>4 DEF JobHook, OutcomeKept

\* A step of a run task answers calls at most.
LEMMA CallsOfTask ==
    ASSUME TypeOK, NEW j \in Jobs, TaskStepOf(j)
    PROVE  \A c \in Threads : call'[c] = call[c] \/ call'[c] = NoCall
<1>1. ASSUME NEW ops, SavesEffect(j, ops)
      PROVE  \A c \in Threads : call'[c] = call[c] \/ call'[c] = NoCall
  BY <1>1 DEF SavesEffect
<1>2. CASE \/ StartJob(j) \/ StartWorkers(j) \/ Gathered(j) \/ Drain(j) \/ Drained(j) \/ Post(j)
           \/ InterruptGather(j)
  BY <1>2 DEF StartJob, StartWorkers, Gathered, Drain, Drained, Post, InterruptGather
<1>3. CASE Executed(j)
  BY <1>1, <1>3, LeaveSaves DEF Executed
<1>4. CASE Saved(j) \/ Posted(j)
  BY <1>4, FinishEffect, GotoEffect DEF Saved, Posted
<1>5. CASE Interrupt(j)
  BY <1>1, <1>5, LeaveSaves, HandlerSaves, FinishEffect DEF Interrupt
<1>6. QED
  BY <1>2, <1>3, <1>4, <1>5 DEF TaskStepOf

\* No call cancels a job, and a resume stores one that is yet to run.
LEMMA CallsHook ==
    ASSUME NoCancels, TypeOK, Calm, \A c \in Threads : CallHook(c), [Next]_vars
    PROVE  \A c \in Threads : CallHook(c)'
<1>1. ASSUME NEW c \in Threads, call'[c] = call[c] \/ call'[c] = NoCall
      PROVE  CallHook(c)'
  BY <1>1 DEF CallHook, NoCall
<1>2. CASE UNCHANGED vars
  BY <1>1, <1>2 DEF vars
<1>3. CASE Storage \/ Strays \/ WorkerTasks \/ \E j \in Jobs : Deadline(j)
  <2>1. call' = call
    <3>1. CASE Storage
      BY <3>1 DEF Storage, StartOp, ApplyUpdate, ApplyAppend
    <3>2. CASE Strays
      BY <3>2 DEF Strays, StrayPost
    <3>3. CASE WorkerTasks
      <4>1. PICK j \in Jobs, w \in Workers : WorkStep(j, w)
        BY <3>3 DEF WorkerTasks, WorkStep
      <4>2. QED
        BY <4>1 DEF WorkStep, Take, Collected, Persist, Appended, Counted, Duplicate, Die
    <3>4. QED
      BY <1>3, <3>1, <3>2, <3>3 DEF Deadline
  <2>2. QED
    BY <1>1, <2>1
<1>4. CASE RunTasks
  <2>1. PICK j \in Jobs : TaskStepOf(j)
    BY <1>4 DEF RunTasks, TaskStepOf
  <2>2. \A c \in Threads : call'[c] = call[c] \/ call'[c] = NoCall
    BY <2>1, CallsOfTask
  <2>3. QED
    BY <1>1, <2>2
<1>5. CASE Clients
  <2>1. ASSUME NEW c \in Callers, NEW op \in Ops, NEW j \in Jobs, Request(c, op, j),
               NEW d \in Threads
        PROVE  CallHook(d)'
    <3>1. CASE d # c
      BY <1>1, <2>1, <3>1 DEF Request, SetCall
    <3>2. CASE d = c
      <4>1. call'[d] = [NoCall EXCEPT !.op = op, !.job = j, !.pc = "lock"] /\ op # "cancel"
        BY <2>1, <3>2 DEF Request, SetCall, TypeOK, NoCancels
      <4>2. call'[d].op = op /\ call'[d].pc = "lock"
        BY <4>1 DEF NoCall
      <4>3. QED
        BY <4>1, <4>2 DEF CallHook
    <3>3. QED
      BY <3>1, <3>2
  <2>2. ASSUME NEW j \in Readers, PollJob(j) \/ PollRows(j)
        PROVE  \A d \in Threads : CallHook(d)'
    BY <1>1, <2>2 DEF PollJob, PollRows
  <2>3. QED
    BY <1>5, <2>1, <2>2 DEF Clients
<1>6. ASSUME NEW c \in Callers, CallStep(c), NEW d \in Threads
      PROVE  CallHook(d)'
  <2>1. call[c].pc # "idle" /\ c \in Threads /\ CallHook(c)
    BY <1>6 DEF CallStep, Acquire, FindKey, CreateJob, LaunchNew, ReadJob, CheckCancel, CancelTask,
       CheckResume, ReadRows, ResetJob, LaunchResumed, Threads
  <2>2. PICK j \in Jobs : j = call[c].job /\ call[c] \in Call
    BY <2>1, CallTypes DEF TypeOK
  <2>3. \A r : SetCall(c, r) => call'[c] = r /\ \A e \in Threads \ {c} : call'[e] = call[e]
    BY <2>1 DEF SetCall, TypeOK
  <2>4. CASE d # c
    <3>1. \E r : SetCall(c, r)
      BY <1>6 DEF CallStep, Acquire, FindKey, CreateJob, LaunchNew, ReadJob, CheckCancel, CancelTask,
         CheckResume, ReadRows, ResetJob, LaunchResumed, Respond
    <3>2. QED
      BY <1>1, <2>3, <2>4, <3>1
  <2>5. CASE d = c
    <3>1. ASSUME NEW p \in {"read", "check", "insert", "launch"},
                 call'[c] = [call[c] EXCEPT !.pc = p]
          PROVE  CallHook(c)'
      BY <2>1, <2>2, <3>1 DEF CallHook, Call, NoCall
    <3>2. CASE Acquire(c) \/ FindKey(c) \/ CreateJob(c) \/ LaunchNew(c) \/ LaunchResumed(c)
      <4>1. call'[c] = NoCall \/ \E p \in {"read", "check", "insert", "launch"} :
                                     call'[c] = [call[c] EXCEPT !.pc = p]
        BY <2>3, <3>2 DEF Acquire, FindKey, CreateJob, LaunchNew, LaunchResumed, Respond
      <4>2. QED
        BY <1>1, <2>1, <2>5, <3>1, <4>1
    <3>3. CASE ReadJob(c)
      <4>1. call'[c] = [call[c] EXCEPT !.pc = "check", !.seen = repo[call[c].job]]
        BY <2>3, <3>3 DEF ReadJob
      <4>2. call'[c].pc = "check" /\ call'[c].op = call[c].op
        BY <2>1, <2>2, <4>1 DEF Call, NoCall
      <4>3. QED
        BY <2>1, <2>5, <4>2 DEF CallHook
    <3>4. CASE CheckResume(c)
      <4>1. call'[c] = NoCall \/ call'[c] = [call[c] EXCEPT !.pc = "rows"]
        BY <2>3, <3>4 DEF CheckResume, Respond
      <4>2. call[c].op = "resume"
        BY <3>4 DEF CheckResume
      <4>3. call'[c] = NoCall \/ (call'[c].pc = "rows" /\ call'[c].op = "resume")
        BY <2>1, <2>2, <4>1, <4>2 DEF Call, NoCall
      <4>4. QED
        BY <1>1, <2>1, <2>5, <4>3 DEF CallHook
    <3>5. CASE ReadRows(c)
      <4>1. \E e, n : call'[c] = [call[c] EXCEPT !.pc = "build", !.done = e, !.seen.completed = n]
        BY <2>3, <3>5 DEF ReadRows
      <4>2. call[c].op = "resume"
        BY <2>1, <3>5 DEF ReadRows, CallHook
      <4>3. call'[c].pc = "build" /\ call'[c].op = "resume"
        BY <2>1, <2>2, <4>1, <4>2 DEF Call, NoCall
      <4>4. QED
        BY <2>1, <2>5, <4>3 DEF CallHook
    <3>6. CASE ResetJob(c)
      <4> DEFINE stored == [Fresh(j) EXCEPT !.completed = call[c].seen.completed]
      <4>1. call'[c] = [call[c] EXCEPT !.pc = "save", !.seen = stored]
        BY <2>2, <2>3, <3>6 DEF ResetJob
      <4>2. call[c].op = "resume"
        BY <2>1, <3>6 DEF ResetJob, CallHook
      <4>3. stored.status = "queued" /\ (j \notin Hooked => stored.webhook # "pending")
        BY DEF Fresh, NoJob
      <4> HIDE DEF stored
      <4>4. /\ call'[c].pc = "save" /\ call'[c].op = "resume" /\ call'[c].job = j
            /\ call'[c].seen = stored
        BY <2>1, <2>2, <4>1, <4>2 DEF Call, NoCall
      <4>5. QED
        BY <2>5, <4>3, <4>4 DEF CallHook
    <3>7. ~CheckCancel(c) /\ ~CancelTask(c)
      BY <2>1 DEF CallHook, CheckCancel, CancelTask
    <3>8. QED
      BY <1>6, <2>5, <3>2, <3>3, <3>4, <3>5, <3>6, <3>7 DEF CallStep
  <2>6. QED
    BY <2>4, <2>5
<1>7. QED
  BY <1>2, <1>3, <1>4, <1>5, <1>6, CalmStep DEF NoCancels

LEMMA HookStep ==
    ASSUME NoCancels, TypeOK, LockInv, OwnersInv, Calm, HookInv, [Next]_vars
    PROVE  HookInv'
<1>1. \A c \in Threads : CallHook(c)'
  BY CallsHook DEF HookInv
<1>2. stray' = {}
  <2>1. CASE UNCHANGED vars \/ Strays
    BY <2>1 DEF vars, HookInv, Strays
  <2>2. CASE Storage
    BY <2>2 DEF HookInv, Storage, StartOp, ApplyUpdate, ApplyAppend
  <2>3. CASE RunTasks
    <3>1. PICK j \in Jobs : TaskStepOf(j)
      BY <2>3 DEF RunTasks, TaskStepOf
    <3>2. run[j].block # "cancel"
      BY DEF HookInv, JobHook, RunHook
    <3>3. QED
      BY <3>1, <3>2 DEF HookInv, TaskStepOf, StartJob, StartWorkers, Gathered, Drain, Drained,
         Executed, Saved, Post, Posted, Interrupt, InterruptGather
  <2>4. CASE WorkerTasks
    <3>1. PICK j \in Jobs, w \in Workers : WorkStep(j, w)
      BY <2>4 DEF WorkerTasks, WorkStep
    <3>2. QED
      BY <3>1 DEF HookInv, WorkStep, Take, Collected, Persist, Appended, Counted, Duplicate, Die
  <2>5. CASE Clients
    BY <2>5 DEF HookInv, Clients, Request, PollJob, PollRows
  <2>6. ASSUME NEW c \in Callers, CallStep(c) PROVE stray' = {}
    BY <2>6 DEF HookInv, CallStep, Acquire, FindKey, CreateJob, LaunchNew, ReadJob, CheckCancel,
       CancelTask, CheckResume, ReadRows, ResetJob, LaunchResumed
  <2>7. ASSUME NEW j \in Jobs, Deadline(j) PROVE stray' = {}
    BY <2>7 DEF HookInv, Deadline
  <2>8. QED
    BY <2>1, <2>2, <2>3, <2>4, <2>5, <2>6, <2>7, CalmStep DEF NoCancels
<1>3. ASSUME NEW j \in Jobs
      PROVE  JobHook(j, run'[j], mem'[j], repo'[j], OpsOf(j, db'))
  <2>1. \/ Same(j)
        \/ \E o \in OpsOf(j, db) : OpStep(o)
        \/ TaskStepOf(j) \/ \E w \in Workers : WorkStep(j, w)
        \/ \E c \in Callers : call[c].job = j /\ CallStep(c)
        \/ Deadline(j)
    BY StepOnJob DEF HookInv, NoCancels
  <2>2. CASE Same(j)
    BY <2>2 DEF HookInv, Same
  <2>3. Callers \subseteq Threads
    BY DEF Threads
  <2>4. QED
    BY <2>1, <2>2, <2>3, OpHook, TaskHook, WorkHook, CallStepHook, DeadlineHook DEF NoCancels
<1>4. QED
  BY <1>1, <1>2, <1>3 DEF HookInv

\* While no client cancels and the process is not stopped, a job has an
\* outcome of its webhook once it has ended and nothing is in flight: each end
\* of the run task goes through _send_webhook, which stores the outcome last
\* (job_service.py:350, 361 and 579).
THEOREM WebhookOutcome ==
    ASSUME NoCancels
    PROVE  Spec => []WebhookSettled
<1>1. Init => HookInv
  <2> SUFFICES ASSUME Init PROVE HookInv
    OBVIOUS
  <2>1. \A c \in Threads : CallHook(c)
    BY DEF Init, CallHook, NoCall
  <2>2. ASSUME NEW j \in Jobs
        PROVE  JobHook(j, run[j], mem[j], repo[j], OpsOf(j, db))
    <3>1. run[j] = Idle /\ mem[j] = NoJob /\ repo[j] = NoJob /\ OpsOf(j, db) = {}
      BY DEF Init, OpsOf
    <3>2. RunHook(Idle) /\ Idle.pc = "idle"
      BY DEF RunHook, Idle
    <3>3. QED
      BY <3>1, <3>2, FineValues DEF JobHook, Unhooked, OutcomeKept
  <2>3. QED
    BY <2>1, <2>2 DEF Init, HookInv
<1>2. TypeOK /\ LockInv /\ OwnersInv /\ Calm /\ HookInv /\ [Next]_vars => HookInv'
  BY HookStep
<1>3. HookInv => WebhookSettled
  BY DEF HookInv, JobHook, OutcomeKept, Fine, WebhookSettled, AtRest, Ended
<1>4. MaxStops = 0
  BY DEF NoCancels
<1>5. Spec => []Calm
  BY <1>4, AlwaysCalm
<1>6. QED
  BY <1>1, <1>2, <1>3, <1>5, TypeCorrect, LockAgrees, UpdatesOwned, PTL DEF Spec

=============================================================================
