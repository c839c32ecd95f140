-------------------------- MODULE AuthorJobsProofs --------------------------
(***************************************************************************)
(* Proofs about AuthorJobs, for every list of pages, any number of works   *)
(* and detail workers, of resumptions and of faults.                       *)
(***************************************************************************)
EXTENDS AuthorJobs, FiniteSetTheorems, TLAPS

-----------------------------------------------------------------------------
(* Types *)

\* The bounds are numbers, and the list has a page.
LEMMA Sizes ==
    /\ MaxResumes \in Nat /\ MaxFaults \in Nat
    /\ Len(PageWorks) \in Nat /\ Len(PageWorks) > 0
    /\ 0 \in 0 .. Len(PageWorks)
BY AuthorAssumption

\* The task has read where the list was left.
Cursors ==
    /\ job.done <=> job.cursor = Len(PageWorks)
    /\ task.pc \notin {"none", "load"} => task.cursor = job.cursor /\ task.done = job.done
    /\ disc # "done" => task.pc = "run" /\ task.cursor < Len(PageWorks)

\* An end that is being written has a verdict, and a job that has a task is open.
Judged ==
    /\ task.pc \in {"expire", "finish"} => task.verdict \in {"completed", "partial"}
    /\ task.pc \in {"lastExpire", "lastFinish"} => task.verdict \in {"partial", "failed"}
    /\ task.pc # "none" => job.status \in Open

\* Who stops the task waits for it, and who writes about a job has stopped it.
Stops ==
    /\ stop = "abort" => task.pc = "run"
    /\ stop = "cancel" => task.pc # "none" /\ control \in {"wait", "shutdown"}
    /\ control \in {"expire", "finish", "prepare", "reset", "launch"} => task.pc = "none"
    /\ control \in {"expire", "finish"} => job.status \in Open
    /\ control \in {"prepare", "reset", "launch"} => job.status # "completed"

\* Once an attempt has taken the date off the results, only an end puts it back.
Kept == task.pc \in {"mark", "prepare", "run"} => ~expiring

\* A job is judged completed, and stays so, with every saved work complete.
Completed ==
    /\ job.status = "completed" => AllDone
    /\ task.pc \in {"expire", "finish"} /\ task.verdict = "completed" => AllDone

\* A detail worker holds a work that is saved.
Claimed ==
    \A k \in Workers : worker[k].pc \in {"fetch", "complete", "failed"} =>
                         works[worker[k].work].state # "absent"

\* A page is saved before the cursor passes it, and nothing is saved beyond it.
PageSaved(i) == \E page \in PageWorks[i] : \A n \in DOMAIN page : page[n] \in Saved
Passed(i) ==
    \/ i <= job.cursor
    \/ disc = "cursor" /\ i = job.cursor + 1
    \/ \E w \in Saved : i <= works[w].sequence[1]
Walked ==
    /\ \A w \in Saved : works[w].sequence[1] \in 1 .. job.cursor + 1
    /\ \A i \in DOMAIN PageWorks : Passed(i) => PageSaved(i)
    /\ CheckpointWhole

\* A reader stands at the beginning or at a work, and two works are at one place
\* only when the page of one was saved again.
Placed ==
    /\ reader.cursor = Nowhere \/ \E w \in Saved : works[w].sequence = reader.cursor
    /\ \A v, w \in Saved : works[v].sequence = works[w].sequence =>
                             v = w \/ works[v].again \/ works[w].again
    /\ ReaderHasAll

\* The steps that neither save a page or its cursor nor move the reader.
Still ==
    /\ \A w \in Works : /\ works'[w].sequence = works[w].sequence
                        /\ works'[w].again <=> works[w].again
                        /\ works'[w].state = "absent" <=> works[w].state = "absent"
    /\ job'.cursor = job.cursor
    /\ disc' = "cursor" => disc = "cursor"
    /\ disc = "cursor" => disc' = "cursor" \/ "cursor" \in lost'
    /\ "cursor" \in lost => "cursor" \in lost'
    /\ reader'.cursor = reader.cursor /\ reader'.seen = reader.seen
Walk == SavePage \/ SaveCursor \/ ReadRows \/ Still

\* The task that rests and the one just launched are tasks.
LEMMA Rest == AtRest \in Task /\ Launched \in Task
BY Sizes DEF Task, AtRest, Launched, TaskPlaces

\* The idle detail workers are detail workers.
LEMMA Idles == IdleWorkers \in [Workers -> Detail]
BY AuthorAssumption DEF IdleWorkers, Detail

\* The client that has not read yet is a reader.
LEMMA NoReaderType == NoReader \in Reader
BY DEF NoReader, Reader, Positions, Nowhere

\* A submitted job is of the declared types.
LEMMA InitType == Init => TypeOK
<1> SUFFICES ASSUME Init PROVE TypeOK
  OBVIOUS
<1>1. job \in Job
  BY AuthorAssumption DEF Init, Job, Statuses, Open
<1>2. works \in [Works -> Work]
  <2>1. Absent \in Work
    BY DEF Work, Absent, Nowhere, Positions
  <2>2. QED
    BY <2>1 DEF Init
<1>3. task \in Task
  BY Rest DEF Init
<1>4. faults \in [resume : 0 .. MaxResumes, fault : 0 .. MaxFaults]
  BY Sizes DEF Init
<1>5. worker \in [Workers -> Detail] /\ reader \in Reader
  BY Idles, NoReaderType DEF Init
<1>6. QED
  BY <1>1, <1>2, <1>3, <1>4, <1>5 DEF Init, TypeOK

\* A fault is taken off a bounded count.
LEMMA FaultType ==
    ASSUME TypeOK, Fault
    PROVE  faults' \in [resume : 0 .. MaxResumes, fault : 0 .. MaxFaults]
BY Sizes DEF TypeOK, Fault

\* A reader gets to the position of a work, or stays where it is.
LEMMA ReachedType ==
    ASSUME TypeOK, NEW rows \in SUBSET Works
    PROVE  Reached(rows) \subseteq Positions
BY DEF TypeOK, Reached, Work, Reader

\* Every step of the job, its requests and its reader keeps the types.
LEMMA TypeStep ==
    ASSUME TypeOK, Cursors, Judged, [Next]_vars
    PROVE  TypeOK'
<1> USE Sizes DEF TypeOK
<1>1. CASE Load
  <2>1. task' \in Task
    <3>1. PICK p \in TaskPlaces :
            task' = [AtRest EXCEPT !.pc = p, !.cursor = job.cursor, !.done = job.done]
      BY <1>1 DEF Load, TaskPlaces
    <3>2. job.cursor \in 0 .. Len(PageWorks) /\ job.done \in BOOLEAN
      BY DEF Job
    <3>3. QED
      BY <3>1, <3>2 DEF AtRest, Task
  <2>2. QED
    BY <1>1, <2>1 DEF Load, AtRest, At, data, children, others
<1>2. CASE BackoffEnds
  <2>1. task' \in Task
    BY <1>2 DEF BackoffEnds, At, Go, data, children, others,
      Task, TaskPlaces, Statuses, Open
  <2>2. QED
    BY <1>2, <2>1 DEF BackoffEnds, At, Go, data, children, others
<1>3. CASE PassGate
  <2>1. task' \in Task
    BY <1>3 DEF PassGate, At, Go, data, children, others, Task,
      TaskPlaces, Statuses, Open
  <2>2. QED
    BY <1>3, <2>1 DEF PassGate, At, Go, data, children, others
<1>4. CASE ResetExpiry
  <2>1. task' \in Task
    BY <1>4 DEF ResetExpiry, At, Go, children, others, Task,
      TaskPlaces, Statuses, Open
  <2>2. QED
    BY <1>4, <2>1 DEF ResetExpiry, At, Go, children, others
<1>5. CASE Mark
  <2>1. job' \in Job
    BY <1>5 DEF Mark, At, Go, children, others, Job, Statuses, Open
  <2>2. task' \in Task
    BY <1>5 DEF Mark, At, Go, children, others, Task, TaskPlaces,
      Statuses, Open
  <2>3. QED
    BY <1>5, <2>1, <2>2 DEF Mark, At, Go, children, others
<1>6. CASE Prepare
  <2>1. works' \in [Works -> Work]
    BY <1>6 DEF Prepare, Requeued, At, Go, others,
      Work
  <2>2. task' \in Task
    BY <1>6 DEF Prepare, Requeued, At, Go, others, Task,
      TaskPlaces, Statuses, Open
  <2>3. worker' \in [Workers -> Detail]
    BY <1>6 DEF Prepare, Requeued, At, Go,
      others, Detail
  <2>4. QED
    BY <1>6, <2>1, <2>2, <2>3 DEF Prepare, Requeued, At, Go, others
<1>7. CASE FetchPage
  <2>1. task' \in Task
    BY <1>7 DEF FetchPage, Found, At, data, others, Task,
      TaskPlaces, Statuses, Open
  <2>2. QED
    BY <1>7, <2>1 DEF FetchPage, Found, At, data, others
<1>8. CASE SavePage
  <2>1. works' \in [Works -> Work]
    <3>1. task.cursor + 1 \in Nat
      BY DEF Task
    <3> DEFINE Index(page, w) == CHOOSE i \in DOMAIN page : page[i] = w
    <3>2. task.cursor + 1 \in 1 .. Len(PageWorks)
      BY <1>8 DEF SavePage, Cursors, Task
    <3>3. PageWorks[task.cursor + 1] \subseteq Seq(Works)
      BY <3>2, AuthorAssumption
    <3>4. ASSUME NEW page \in PageWorks[task.cursor + 1], NEW w \in Works,
                 NEW i \in DOMAIN page, page[i] = w
          PROVE  Position(task.cursor + 1, Index(page, w)) \in Positions
      <4>1. Index(page, w) \in DOMAIN page
        BY <3>4
      <4> HIDE DEF Index
      <4>2. Index(page, w) \in Nat
        BY <4>1, <3>3
      <4>3. QED
        BY <4>2, <3>1 DEF Position, Positions
    <3> DEFINE before == \E v \in Saved : works[v].sequence[1] = task.cursor + 1
    <3>5. before \in BOOLEAN
      OBVIOUS
    <3>6. PICK page \in PageWorks[task.cursor + 1] :
            works' = [w \in Works |->
              IF w \in Saved \/ \A i \in DOMAIN page : page[i] # w THEN works[w]
              ELSE [state |-> IF w \in Listed THEN "complete" ELSE "pending",
                    sequence |-> Position(task.cursor + 1, Index(page, w)), again |-> before]]
      BY <1>8 DEF SavePage
    <3> HIDE DEF Index, before
    <3>7. \A w \in Works : works'[w] \in Work
      BY <3>4, <3>5, <3>6 DEF Work
    <3>8. QED
      BY <3>6, <3>7
  <2>2. QED
    BY <1>8, <2>1 DEF SavePage, Position, Saved, others
<1>9. CASE SaveCursor
  <2>1. job' \in Job
    <3>1. task.cursor + 1 \in 0 .. Len(PageWorks)
      BY <1>9 DEF SaveCursor, Cursors, Task
    <3>2. QED
      BY <3>1, <1>9 DEF SaveCursor, Job
  <2>2. task' \in Task
    <3>1. task.cursor + 1 \in 0 .. Len(PageWorks)
      BY <1>9 DEF SaveCursor, Cursors, Task
    <3>2. QED
      BY <3>1, <1>9 DEF SaveCursor, Task
  <2>3. QED
    BY <1>9, <2>1, <2>2 DEF SaveCursor
<1>10. ASSUME NEW k \in Workers, Claim(k) PROVE TypeOK'
  <2>1. works' \in [Works -> Work]
    <3>1. PICK w \in Works : works' = [works EXCEPT ![w].state = "running"]
      BY <1>10 DEF Claim, Firsts, In
    <3>2. QED
      BY <3>1 DEF Work
  <2>2. worker' \in [Workers -> Detail]
    <3>1. PICK w \in Works : worker' = [worker EXCEPT ![k] = [pc |-> "fetch", work |-> w]]
      BY <1>10 DEF Claim, Firsts, In
    <3>2. QED
      BY <3>1 DEF Detail
  <2>3. QED
    BY <1>10, <2>1, <2>2 DEF Claim, Working, Firsts, In, others, At
<1>11. ASSUME NEW k \in Workers, ClaimNone(k) PROVE TypeOK'
  <2>1. worker' \in [Workers -> Detail]
    BY <1>11 DEF ClaimNone, Working, Put, data,
      others, At, Detail
  <2>2. QED
    BY <1>11, <2>1 DEF ClaimNone, Working, Put, data, others, At
<1>12. ASSUME NEW k \in Workers, Decide(k) PROVE TypeOK'
  <2>1. worker' \in [Workers -> Detail]
    BY <1>12 DEF Decide, Working, Put, data,
      others, At, Detail
  <2>2. QED
    BY <1>12, <2>1 DEF Decide, Working, Put, data, others, At
<1>13. ASSUME NEW k \in Workers, FetchDetail(k) PROVE TypeOK'
  <2>1. worker' \in [Workers -> Detail]
    <3>1. PICK p \in {"complete", "failed"} : worker' = [worker EXCEPT ![k].pc = p]
      BY <1>13 DEF FetchDetail, Put
    <3>2. QED
      BY <3>1 DEF Detail
  <2>2. QED
    BY <1>13, <2>1 DEF FetchDetail, Working, Put, data, others, At
<1>14. ASSUME NEW k \in Workers, SaveDetail(k) PROVE TypeOK'
  <2>1. works' \in [Works -> Work]
    BY <1>14 DEF SaveDetail, Put, others, Work
  <2>2. worker' \in [Workers -> Detail]
    BY <1>14 DEF SaveDetail, Put, others, Detail
  <2>3. QED
    BY <1>14, <2>1, <2>2 DEF SaveDetail, Put, others
<1>15. CASE EndAttempt
  <2>1. task' \in Task
    BY <1>15 DEF EndAttempt, Ended, At, Go, data, children,
      others, Task, TaskPlaces, Statuses, Open
  <2>2. QED
    BY <1>15, <2>1 DEF EndAttempt, Ended, At, Go, data, children, others
<1>16. CASE Retry
  <2>1. job' \in Job
    BY <1>16 DEF Retry, At, Go, children, others, Job, Statuses,
      Open
  <2>2. task' \in Task
    BY <1>16 DEF Retry, At, Go, children, others, Task,
      TaskPlaces, Statuses, Open
  <2>3. QED
    BY <1>16, <2>1, <2>2 DEF Retry, At, Go, children, others
<1>17. CASE Close
  <2>1. task' \in Task
    BY <1>17 DEF Close, At, data, children, others, AllDone,
      Task, TaskPlaces, Statuses, Open
  <2>2. QED
    BY <1>17, <2>1 DEF Close, At, data, children, others, AllDone
<1>18. CASE Fail
  <2>1. task' \in Task
    BY <1>18 DEF Fail, At, data, children, others, Task,
      TaskPlaces, Statuses, Open
  <2>2. QED
    BY <1>18, <2>1 DEF Fail, At, data, children, others
<1>19. CASE Expire
  <2>1. task' \in Task
    BY <1>19 DEF Expire, At, Go, children, others, Task,
      TaskPlaces, Statuses, Open
  <2>2. QED
    BY <1>19, <2>1 DEF Expire, At, Go, children, others
<1>20. CASE Finish
  <2>1. job' \in Job
    <3>1. task.verdict \in Statuses
      BY <1>20 DEF Finish, At, Judged, Statuses
    <3>2. QED
      BY <3>1, <1>20 DEF Finish, Job
  <2>2. task' \in Task
    BY Rest, <1>20 DEF Finish
  <2>3. QED
    BY <1>20, <2>1, <2>2 DEF Finish, AtRest, At, children, others
<1>21. CASE Unwind
  <2>1. worker' \in [Workers -> Detail]
    BY <1>21 DEF Unwind, data, others, Detail
  <2>2. QED
    BY <1>21, <2>1 DEF Unwind, data, others
<1>22. CASE Cancelled
  <2>1. task' \in Task
    BY Rest, <1>22 DEF Cancelled
  <2>2. QED
    BY <1>22, <2>1 DEF Cancelled, Ended, AtRest, data, others
<1>23. CASE Aborted
  <2>1. task' \in Task
    BY <1>23 DEF Aborted, Ended, Go, data, others, Task,
      TaskPlaces, Statuses, Open
  <2>2. QED
    BY <1>23, <2>1 DEF Aborted, Ended, Go, data, others
<1>24. CASE Cancel
  <2>1. QED
    BY <1>24 DEF Cancel, Stopped, Holding, data, unheld, Open
<1>25. CASE CancelWaited
  <2>1. QED
    BY <1>25 DEF CancelWaited, Holding, data, children, unheld, Open
<1>26. CASE CancelExpire
  <2>1. QED
    BY <1>26 DEF CancelExpire, Holding, children, unheld
<1>27. CASE CancelFinish
  <2>1. job' \in Job
    BY <1>27 DEF CancelFinish, Holding, children, unheld, Job,
      Statuses, Open
  <2>2. QED
    BY <1>27, <2>1 DEF CancelFinish, Holding, children, unheld
<1>28. CASE Resume
  <2>1. faults' \in [resume : 0 .. MaxResumes, fault : 0 .. MaxFaults]
    BY <1>28 DEF
      Resume, Holding, data, children, AllDone
  <2>2. QED
    BY <1>28, <2>1 DEF Resume, Holding, data, children, AllDone
<1>29. CASE ResumePrepare
  <2>1. works' \in [Works -> Work]
    BY <1>29 DEF ResumePrepare, Holding, Requeued,
      children, unheld, Work
  <2>2. QED
    BY <1>29, <2>1 DEF ResumePrepare, Holding, Requeued, children, unheld
<1>30. CASE ResumeReset
  <2>1. QED
    BY <1>30 DEF ResumeReset, Holding, children, unheld
<1>31. CASE ResumeLaunch
  <2>1. job' \in Job
    BY <1>31 DEF ResumeLaunch, Holding, Launched, AtRest, children,
      Job, Statuses, Open
  <2>2. task' \in Task
    BY Rest, <1>31 DEF ResumeLaunch
  <2>3. QED
    BY <1>31, <2>1, <2>2 DEF ResumeLaunch, Holding, Launched, AtRest,
      children
<1>32. CASE Shutdown
  <2>1. faults' \in [resume : 0 .. MaxResumes, fault : 0 .. MaxFaults]
    BY FaultType, <1>32 DEF Shutdown
  <2>2. QED
    BY <1>32, <2>1 DEF Shutdown, Fault, Stopped, Holding, data
<1>33. CASE Restart
  <2>1. task' \in Task
    BY Rest, <1>33 DEF Restart, Relaunched
  <2>2. QED
    BY <1>33, <2>1 DEF Restart, Holding, Relaunched, Launched, AtRest, data,
      children, unheld
<1>34. CASE DeadlinePasses
  <2>1. job' \in Job
    BY <1>34 DEF DeadlinePasses, Go, others, Job, Statuses, Open
  <2>2. task' \in Task
    BY <1>34 DEF DeadlinePasses, Go, others, Task, TaskPlaces,
      Statuses, Open
  <2>3. QED
    BY <1>34, <2>1, <2>2 DEF DeadlinePasses, Go, others
<1>35. CASE Crash
  <2>1. task' \in Task
    BY Rest, <1>35 DEF Crash, Relaunched
  <2>2. worker' \in [Workers -> Detail]
    BY Idles, <1>35 DEF Crash
  <2>3. reader' \in Reader
    BY <1>35 DEF Crash, Fault, Relaunched, Launched, AtRest,
      IdleWorkers, data, Reader, Positions, Nowhere
  <2>4. faults' \in [resume : 0 .. MaxResumes, fault : 0 .. MaxFaults]
    BY FaultType, <1>35 DEF Crash
  <2>5. QED
    BY <1>35, <2>1, <2>2, <2>3, <2>4 DEF Crash, Fault, Relaunched, Launched,
      AtRest, IdleWorkers, data
<1>36. CASE PageFault
  <2>1. task' \in Task
    BY <1>36 DEF PageFault, Fault, Found, data, Task, TaskPlaces,
      Statuses, Open
  <2>2. faults' \in [resume : 0 .. MaxResumes, fault : 0 .. MaxFaults]
    BY FaultType, <1>36 DEF PageFault
  <2>3. QED
    BY <1>36, <2>1, <2>2 DEF PageFault, Fault, Found, data
<1>37. ASSUME NEW k \in Workers, DetailFault(k) PROVE TypeOK'
  <2>1. worker' \in [Workers -> Detail]
    BY <1>37 DEF DetailFault, Fault, Put, data,
      Detail
  <2>2. faults' \in [resume : 0 .. MaxResumes, fault : 0 .. MaxFaults]
    BY FaultType, <1>37 DEF DetailFault
  <2>3. QED
    BY <1>37, <2>1, <2>2 DEF DetailFault, Fault, Put, data
<1>38. CASE EndFault
  <2>1. task' \in Task
    BY <1>38 DEF EndFault, Fault, Go, data, children, Task,
      TaskPlaces, Statuses, Open
  <2>2. faults' \in [resume : 0 .. MaxResumes, fault : 0 .. MaxFaults]
    BY FaultType, <1>38 DEF EndFault
  <2>3. QED
    BY <1>38, <2>1, <2>2 DEF EndFault, Fault, Go, data, children
<1>39. CASE LastFault
  <2>1. task' \in Task
    BY Rest, <1>39 DEF LastFault
  <2>2. faults' \in [resume : 0 .. MaxResumes, fault : 0 .. MaxFaults]
    BY FaultType, <1>39 DEF LastFault
  <2>3. QED
    BY <1>39, <2>1, <2>2 DEF LastFault, Fault, AtRest, data, children
<1>40. CASE ReadJob
  <2>1. reader' \in Reader
    <3>1. reader' = [reader EXCEPT !.pc = "bound", !.running = (job.status \in Open)]
      BY <1>40 DEF ReadJob
    <3>2. (job.status \in Open) \in BOOLEAN
      OBVIOUS
    <3>3. QED
      BY <3>1, <3>2 DEF Reader
  <2>2. QED
    BY <1>40, <2>1 DEF ReadJob, unread, Open, data, children
<1>41. CASE ReadBound
  <2>1. reader' \in Reader
    <3>1. PICK b \in Positions : reader' = [reader EXCEPT !.pc = "rows", !.bound = b]
      BY <1>41 DEF ReadBound, Firsts, Unfinished, In, Work, Positions, Nowhere
    <3>2. QED
      BY <3>1 DEF Reader
  <2>2. QED
    BY <1>41, <2>1 DEF ReadBound, unread, data, children
<1>42. CASE ReadRows
  <2>1. reader' \in Reader
    <3>1. Rows \subseteq Works
      BY DEF Rows, Saved
    <3>2. CASE reader' = NoReader
      BY <3>2, NoReaderType
    <3>3. ASSUME NEW rows \in SUBSET Rows, NEW c \in Reached(rows),
                 reader' = [pc |-> "idle", running |-> FALSE, bound |-> Nowhere,
                            cursor |-> c, seen |-> reader.seen \union rows,
                            early |-> reader.running /\ rows \intersect Unfinished # {}]
          PROVE  reader' \in Reader
      <4>1. c \in Positions /\ Nowhere \in Positions
        BY <3>1, ReachedType DEF Nowhere, Positions
      <4>2. reader.running \in BOOLEAN /\ reader.seen \in SUBSET Works
        BY DEF Reader
      <4>3. (reader.running /\ rows \intersect Unfinished # {}) \in BOOLEAN
        BY <4>2
      <4>4. QED
        BY <3>1, <3>3, <4>1, <4>2, <4>3 DEF Reader
    <3>4. QED
      BY <3>2, <3>3, <1>42 DEF ReadRows, Served
  <2>2. QED
    BY <1>42, <2>1 DEF ReadRows, NoReader, unread, data, children
<1>43. CASE UNCHANGED vars
  BY <1>43 DEF vars, data
<1>44. QED
  BY <1>1, <1>2, <1>3, <1>4, <1>5, <1>6, <1>7, <1>8, <1>9, <1>10, <1>11,
     <1>12, <1>13, <1>14, <1>15, <1>16, <1>17, <1>18, <1>19, <1>20, <1>21, <1>22, <1>23,
     <1>24, <1>25, <1>26, <1>27, <1>28, <1>29, <1>30, <1>31, <1>32, <1>33, <1>34, <1>35,
     <1>36, <1>37, <1>38, <1>39, <1>40, <1>41, <1>42, <1>43
  DEF Next, Attempt, Manage, Disturb, Read

-----------------------------------------------------------------------------
(* The invariant, one part after the other *)

\* The task and the stored job agree on where the list was left after every step.
LEMMA CursorsStep ==
    ASSUME TypeOK, Cursors, Judged, Stops, [Next]_vars
    PROVE  Cursors'
<1> USE DEF Cursors, TypeOK, Job, Task, Stops
<1>1. CASE Load
  BY <1>1, Sizes DEF Load, AtRest, At, data, children, others
<1>2. CASE BackoffEnds
  BY <1>2, Sizes DEF BackoffEnds, At, Go, data, children, others
<1>3. CASE PassGate
  BY <1>3, Sizes DEF PassGate, At, Go, data, children, others
<1>4. CASE ResetExpiry
  BY <1>4, Sizes DEF ResetExpiry, At, Go, children, others
<1>5. CASE Mark
  BY <1>5, Sizes DEF Mark, At, Go, children, others
<1>6. CASE Prepare
  BY <1>6, Sizes DEF Prepare, Requeued, At, Go, others
<1>7. CASE FetchPage
  BY <1>7, Sizes DEF FetchPage, Found, At, data, others
<1>8. CASE SavePage
  BY <1>8, Sizes DEF SavePage, Position, Saved, others
<1>9. CASE SaveCursor
  <2>1. /\ task.pc = "run" /\ task.cursor \in Nat /\ task.cursor < Len(PageWorks)
        /\ task.cursor = job.cursor
    BY <1>9 DEF SaveCursor
  <2>2. /\ job'.cursor = task.cursor + 1 /\ job'.done = (task.cursor + 1 = Len(PageWorks))
        /\ task'.cursor = task.cursor + 1 /\ task'.done = job'.done
        /\ task'.pc = "run"
    BY <1>9, <2>1 DEF SaveCursor
  <2>3. disc' # "done" => task.cursor + 1 # Len(PageWorks)
    BY <1>9 DEF SaveCursor
  <2>4. disc' # "done" => task'.cursor < Len(PageWorks)
    BY <2>1, <2>2, <2>3, Sizes
  <2>5. job'.done <=> job'.cursor = Len(PageWorks)
    BY <2>2
  <2>6. task'.cursor = job'.cursor /\ task'.done = job'.done
    BY <2>2
  <2>7. QED
    BY <2>2, <2>4, <2>5, <2>6
<1>10. ASSUME NEW k \in Workers, Claim(k) PROVE Cursors'
  BY <1>10, Sizes DEF Claim, Working, Firsts, In, others, At
<1>11. ASSUME NEW k \in Workers, ClaimNone(k) PROVE Cursors'
  BY <1>11, Sizes DEF ClaimNone, Working, Put, data, others, At
<1>12. ASSUME NEW k \in Workers, Decide(k) PROVE Cursors'
  BY <1>12, Sizes DEF Decide, Working, Put, data, others, At
<1>13. ASSUME NEW k \in Workers, FetchDetail(k) PROVE Cursors'
  BY <1>13, Sizes DEF FetchDetail, Working, Put, data, others, At
<1>14. ASSUME NEW k \in Workers, SaveDetail(k) PROVE Cursors'
  BY <1>14, Sizes DEF SaveDetail, Put, others
<1>15. CASE EndAttempt
  BY <1>15, Sizes DEF EndAttempt, Ended, At, Go, data, children, others
<1>16. CASE Retry
  BY <1>16, Sizes DEF Retry, At, Go, children, others
<1>17. CASE Close
  BY <1>17, Sizes DEF Close, At, data, children, others, AllDone
<1>18. CASE Fail
  BY <1>18, Sizes DEF Fail, At, data, children, others
<1>19. CASE Expire
  BY <1>19, Sizes DEF Expire, At, Go, children, others
<1>20. CASE Finish
  BY <1>20, Sizes DEF Finish, AtRest, At, children, others
<1>21. CASE Unwind
  BY <1>21, Sizes DEF Unwind, data, others
<1>22. CASE Cancelled
  BY <1>22, Sizes DEF Cancelled, Ended, AtRest, data, others
<1>23. CASE Aborted
  BY <1>23, Sizes DEF Aborted, Ended, Go, data, others
<1>24. CASE Cancel
  BY <1>24, Sizes DEF Cancel, Stopped, Holding, data, unheld, Open
<1>25. CASE CancelWaited
  BY <1>25, Sizes DEF CancelWaited, Holding, data, children, unheld, Open
<1>26. CASE CancelExpire
  BY <1>26, Sizes DEF CancelExpire, Holding, children, unheld
<1>27. CASE CancelFinish
  BY <1>27, Sizes DEF CancelFinish, Holding, children, unheld
<1>28. CASE Resume
  BY <1>28, Sizes DEF Resume, Holding, data, children, AllDone
<1>29. CASE ResumePrepare
  BY <1>29, Sizes DEF ResumePrepare, Holding, Requeued, children, unheld
<1>30. CASE ResumeReset
  BY <1>30, Sizes DEF ResumeReset, Holding, children, unheld
<1>31. CASE ResumeLaunch
  BY <1>31, Sizes DEF ResumeLaunch, Holding, Launched, AtRest, children
<1>32. CASE Shutdown
  BY <1>32, Sizes DEF Shutdown, Fault, Stopped, Holding, data
<1>33. CASE Restart
  BY <1>33, Sizes DEF Restart, Holding, Relaunched, Launched, AtRest, data, children,
    unheld
<1>34. CASE DeadlinePasses
  BY <1>34, Sizes DEF DeadlinePasses, Go, others
<1>35. CASE Crash
  BY <1>35, Sizes DEF Crash, Fault, Relaunched, Launched, AtRest, IdleWorkers, data
<1>36. CASE PageFault
  BY <1>36, Sizes DEF PageFault, Fault, Found, data
<1>37. ASSUME NEW k \in Workers, DetailFault(k) PROVE Cursors'
  BY <1>37, Sizes DEF DetailFault, Fault, Put, data
<1>38. CASE EndFault
  BY <1>38, Sizes DEF EndFault, Fault, Go, data, children
<1>39. CASE LastFault
  BY <1>39, Sizes DEF LastFault, Fault, AtRest, data, children
<1>40. CASE ReadJob
  BY <1>40, Sizes DEF ReadJob, unread, Open, data, children
<1>41. CASE ReadBound
  BY <1>41, Sizes DEF ReadBound, unread, data, children
<1>42. CASE ReadRows
  BY <1>42, Sizes DEF ReadRows, NoReader, unread, data, children
<1>43. CASE UNCHANGED vars
  BY <1>43 DEF vars, data
<1>44. QED
  BY <1>1, <1>2, <1>3, <1>4, <1>5, <1>6, <1>7, <1>8, <1>9, <1>10, <1>11,
     <1>12, <1>13, <1>14, <1>15, <1>16, <1>17, <1>18, <1>19, <1>20, <1>21, <1>22, <1>23,
     <1>24, <1>25, <1>26, <1>27, <1>28, <1>29, <1>30, <1>31, <1>32, <1>33, <1>34, <1>35,
     <1>36, <1>37, <1>38, <1>39, <1>40, <1>41, <1>42, <1>43
  DEF Next, Attempt, Manage, Disturb, Read

\* No step writes an end without a verdict, or closes a job that has a task.
LEMMA JudgedStep ==
    ASSUME TypeOK, Stops, Judged, [Next]_vars
    PROVE  Judged'
<1> USE DEF Judged, TypeOK, Job, Task, Stops, Open
<1>1. CASE Load
  BY <1>1 DEF Load, AtRest, At, data, children, others
<1>2. CASE BackoffEnds
  BY <1>2 DEF BackoffEnds, At, Go, data, children, others
<1>3. CASE PassGate
  BY <1>3 DEF PassGate, At, Go, data, children, others
<1>4. CASE ResetExpiry
  BY <1>4 DEF ResetExpiry, At, Go, children, others
<1>5. CASE Mark
  BY <1>5 DEF Mark, At, Go, children, others
<1>6. CASE Prepare
  BY <1>6 DEF Prepare, Requeued, At, Go, others
<1>7. CASE FetchPage
  BY <1>7 DEF FetchPage, Found, At, data, others
<1>8. CASE SavePage
  BY <1>8 DEF SavePage, Position, Saved, others
<1>9. CASE SaveCursor
  BY <1>9 DEF SaveCursor
<1>10. ASSUME NEW k \in Workers, Claim(k) PROVE Judged'
  BY <1>10 DEF Claim, Working, Firsts, In, others, At
<1>11. ASSUME NEW k \in Workers, ClaimNone(k) PROVE Judged'
  BY <1>11 DEF ClaimNone, Working, Put, data, others, At
<1>12. ASSUME NEW k \in Workers, Decide(k) PROVE Judged'
  BY <1>12 DEF Decide, Working, Put, data, others, At
<1>13. ASSUME NEW k \in Workers, FetchDetail(k) PROVE Judged'
  BY <1>13 DEF FetchDetail, Working, Put, data, others, At
<1>14. ASSUME NEW k \in Workers, SaveDetail(k) PROVE Judged'
  BY <1>14 DEF SaveDetail, Put, others
<1>15. CASE EndAttempt
  BY <1>15 DEF EndAttempt, Ended, At, Go, data, children, others
<1>16. CASE Retry
  BY <1>16 DEF Retry, At, Go, children, others
<1>17. CASE Close
  BY <1>17 DEF Close, At, data, children, others, AllDone
<1>18. CASE Fail
  BY <1>18 DEF Fail, At, data, children, others
<1>19. CASE Expire
  BY <1>19 DEF Expire, At, Go, children, others
<1>20. CASE Finish
  BY <1>20 DEF Finish, AtRest, At, children, others
<1>21. CASE Unwind
  BY <1>21 DEF Unwind, data, others
<1>22. CASE Cancelled
  BY <1>22 DEF Cancelled, Ended, AtRest, data, others
<1>23. CASE Aborted
  BY <1>23 DEF Aborted, Ended, Go, data, others
<1>24. CASE Cancel
  BY <1>24 DEF Cancel, Stopped, Holding, data, unheld
<1>25. CASE CancelWaited
  BY <1>25 DEF CancelWaited, Holding, data, children, unheld
<1>26. CASE CancelExpire
  BY <1>26 DEF CancelExpire, Holding, children, unheld
<1>27. CASE CancelFinish
  BY <1>27 DEF CancelFinish, Holding, children, unheld
<1>28. CASE Resume
  BY <1>28 DEF Resume, Holding, data, children, AllDone
<1>29. CASE ResumePrepare
  BY <1>29 DEF ResumePrepare, Holding, Requeued, children, unheld
<1>30. CASE ResumeReset
  BY <1>30 DEF ResumeReset, Holding, children, unheld
<1>31. CASE ResumeLaunch
  BY <1>31 DEF ResumeLaunch, Holding, Launched, AtRest, children
<1>32. CASE Shutdown
  BY <1>32 DEF Shutdown, Fault, Stopped, Holding, data
<1>33. CASE Restart
  BY <1>33 DEF Restart, Holding, Relaunched, Launched, AtRest, data, children, unheld
<1>34. CASE DeadlinePasses
  BY <1>34 DEF DeadlinePasses, Go, others
<1>35. CASE Crash
  BY <1>35 DEF Crash, Fault, Relaunched, Launched, AtRest, IdleWorkers, data
<1>36. CASE PageFault
  BY <1>36 DEF PageFault, Fault, Found, data
<1>37. ASSUME NEW k \in Workers, DetailFault(k) PROVE Judged'
  BY <1>37 DEF DetailFault, Fault, Put, data
<1>38. CASE EndFault
  BY <1>38 DEF EndFault, Fault, Go, data, children
<1>39. CASE LastFault
  BY <1>39 DEF LastFault, Fault, AtRest, data, children
<1>40. CASE ReadJob
  BY <1>40 DEF ReadJob, unread, data, children
<1>41. CASE ReadBound
  BY <1>41 DEF ReadBound, unread, data, children
<1>42. CASE ReadRows
  BY <1>42 DEF ReadRows, NoReader, unread, data, children
<1>43. CASE UNCHANGED vars
  BY <1>43 DEF vars, data
<1>44. QED
  BY <1>1, <1>2, <1>3, <1>4, <1>5, <1>6, <1>7, <1>8, <1>9, <1>10, <1>11,
     <1>12, <1>13, <1>14, <1>15, <1>16, <1>17, <1>18, <1>19, <1>20, <1>21, <1>22, <1>23,
     <1>24, <1>25, <1>26, <1>27, <1>28, <1>29, <1>30, <1>31, <1>32, <1>33, <1>34, <1>35,
     <1>36, <1>37, <1>38, <1>39, <1>40, <1>41, <1>42, <1>43
  DEF Next, Attempt, Manage, Disturb, Read

\* Every step keeps the order in which a task is stopped, waited for and written about.
LEMMA StopsStep ==
    ASSUME TypeOK, Stops, Judged, [Next]_vars
    PROVE  Stops'
<1> USE DEF Stops, TypeOK, Job, Task, Judged, Open
<1>1. CASE Load
  BY <1>1 DEF Load, AtRest, At, data, children, others
<1>2. CASE BackoffEnds
  BY <1>2 DEF BackoffEnds, At, Go, data, children, others
<1>3. CASE PassGate
  BY <1>3 DEF PassGate, At, Go, data, children, others
<1>4. CASE ResetExpiry
  BY <1>4 DEF ResetExpiry, At, Go, children, others
<1>5. CASE Mark
  BY <1>5 DEF Mark, At, Go, children, others
<1>6. CASE Prepare
  BY <1>6 DEF Prepare, Requeued, At, Go, others
<1>7. CASE FetchPage
  BY <1>7 DEF FetchPage, Found, At, data, others
<1>8. CASE SavePage
  BY <1>8 DEF SavePage, Position, Saved, others
<1>9. CASE SaveCursor
  BY <1>9 DEF SaveCursor
<1>10. ASSUME NEW k \in Workers, Claim(k) PROVE Stops'
  BY <1>10 DEF Claim, Working, Firsts, In, others, At
<1>11. ASSUME NEW k \in Workers, ClaimNone(k) PROVE Stops'
  BY <1>11 DEF ClaimNone, Working, Put, data, others, At
<1>12. ASSUME NEW k \in Workers, Decide(k) PROVE Stops'
  BY <1>12 DEF Decide, Working, Put, data, others, At
<1>13. ASSUME NEW k \in Workers, FetchDetail(k) PROVE Stops'
  BY <1>13 DEF FetchDetail, Working, Put, data, others, At
<1>14. ASSUME NEW k \in Workers, SaveDetail(k) PROVE Stops'
  BY <1>14 DEF SaveDetail, Put, others
<1>15. CASE EndAttempt
  BY <1>15 DEF EndAttempt, Ended, At, Go, data, children, others
<1>16. CASE Retry
  BY <1>16 DEF Retry, At, Go, children, others
<1>17. CASE Close
  BY <1>17 DEF Close, At, data, children, others, AllDone
<1>18. CASE Fail
  BY <1>18 DEF Fail, At, data, children, others
<1>19. CASE Expire
  BY <1>19 DEF Expire, At, Go, children, others
<1>20. CASE Finish
  BY <1>20 DEF Finish, AtRest, At, children, others
<1>21. CASE Unwind
  BY <1>21 DEF Unwind, data, others
<1>22. CASE Cancelled
  BY <1>22 DEF Cancelled, Ended, AtRest, data, others
<1>23. CASE Aborted
  BY <1>23 DEF Aborted, Ended, Go, data, others
<1>24. CASE Cancel
  BY <1>24 DEF Cancel, Stopped, Holding, data, unheld
<1>25. CASE CancelWaited
  BY <1>25 DEF CancelWaited, Holding, data, children, unheld
<1>26. CASE CancelExpire
  BY <1>26 DEF CancelExpire, Holding, children, unheld
<1>27. CASE CancelFinish
  BY <1>27 DEF CancelFinish, Holding, children, unheld
<1>28. CASE Resume
  BY <1>28 DEF Resume, Holding, data, children, AllDone
<1>29. CASE ResumePrepare
  BY <1>29 DEF ResumePrepare, Holding, Requeued, children, unheld
<1>30. CASE ResumeReset
  BY <1>30 DEF ResumeReset, Holding, children, unheld
<1>31. CASE ResumeLaunch
  BY <1>31 DEF ResumeLaunch, Holding, Launched, AtRest, children
<1>32. CASE Shutdown
  BY <1>32 DEF Shutdown, Fault, Stopped, Holding, data
<1>33. CASE Restart
  BY <1>33 DEF Restart, Holding, Relaunched, Launched, AtRest, data, children, unheld
<1>34. CASE DeadlinePasses
  BY <1>34 DEF DeadlinePasses, Go, others
<1>35. CASE Crash
  BY <1>35 DEF Crash, Fault, Relaunched, Launched, AtRest, IdleWorkers, data
<1>36. CASE PageFault
  BY <1>36 DEF PageFault, Fault, Found, data
<1>37. ASSUME NEW k \in Workers, DetailFault(k) PROVE Stops'
  BY <1>37 DEF DetailFault, Fault, Put, data
<1>38. CASE EndFault
  BY <1>38 DEF EndFault, Fault, Go, data, children
<1>39. CASE LastFault
  BY <1>39 DEF LastFault, Fault, AtRest, data, children
<1>40. CASE ReadJob
  BY <1>40 DEF ReadJob, unread, data, children
<1>41. CASE ReadBound
  BY <1>41 DEF ReadBound, unread, data, children
<1>42. CASE ReadRows
  BY <1>42 DEF ReadRows, NoReader, unread, data, children
<1>43. CASE UNCHANGED vars
  BY <1>43 DEF vars, data
<1>44. QED
  BY <1>1, <1>2, <1>3, <1>4, <1>5, <1>6, <1>7, <1>8, <1>9, <1>10, <1>11,
     <1>12, <1>13, <1>14, <1>15, <1>16, <1>17, <1>18, <1>19, <1>20, <1>21, <1>22, <1>23,
     <1>24, <1>25, <1>26, <1>27, <1>28, <1>29, <1>30, <1>31, <1>32, <1>33, <1>34, <1>35,
     <1>36, <1>37, <1>38, <1>39, <1>40, <1>41, <1>42, <1>43
  DEF Next, Attempt, Manage, Disturb, Read

\* No step of a running attempt dates the results.
LEMMA WorksKeptStep ==
    ASSUME TypeOK, Stops, Kept, [Next]_vars
    PROVE  Kept'
<1> USE DEF Kept, TypeOK, Task, Stops
<1>1. CASE Load
  BY <1>1 DEF Load, AtRest, At, data, children, others
<1>2. CASE BackoffEnds
  BY <1>2 DEF BackoffEnds, At, Go, data, children, others
<1>3. CASE PassGate
  BY <1>3 DEF PassGate, At, Go, data, children, others
<1>4. CASE ResetExpiry
  BY <1>4 DEF ResetExpiry, At, Go, children, others
<1>5. CASE Mark
  BY <1>5 DEF Mark, At, Go, children, others
<1>6. CASE Prepare
  BY <1>6 DEF Prepare, Requeued, At, Go, others
<1>7. CASE FetchPage
  BY <1>7 DEF FetchPage, Found, At, data, others
<1>8. CASE SavePage
  BY <1>8 DEF SavePage, Position, Saved, others
<1>9. CASE SaveCursor
  BY <1>9 DEF SaveCursor
<1>10. ASSUME NEW k \in Workers, Claim(k) PROVE Kept'
  BY <1>10 DEF Claim, Working, Firsts, In, others, At
<1>11. ASSUME NEW k \in Workers, ClaimNone(k) PROVE Kept'
  BY <1>11 DEF ClaimNone, Working, Put, data, others, At
<1>12. ASSUME NEW k \in Workers, Decide(k) PROVE Kept'
  BY <1>12 DEF Decide, Working, Put, data, others, At
<1>13. ASSUME NEW k \in Workers, FetchDetail(k) PROVE Kept'
  BY <1>13 DEF FetchDetail, Working, Put, data, others, At
<1>14. ASSUME NEW k \in Workers, SaveDetail(k) PROVE Kept'
  BY <1>14 DEF SaveDetail, Put, others
<1>15. CASE EndAttempt
  BY <1>15 DEF EndAttempt, Ended, At, Go, data, children, others
<1>16. CASE Retry
  BY <1>16 DEF Retry, At, Go, children, others
<1>17. CASE Close
  BY <1>17 DEF Close, At, data, children, others, AllDone
<1>18. CASE Fail
  BY <1>18 DEF Fail, At, data, children, others
<1>19. CASE Expire
  BY <1>19 DEF Expire, At, Go, children, others
<1>20. CASE Finish
  BY <1>20 DEF Finish, AtRest, At, children, others
<1>21. CASE Unwind
  BY <1>21 DEF Unwind, data, others
<1>22. CASE Cancelled
  BY <1>22 DEF Cancelled, Ended, AtRest, data, others
<1>23. CASE Aborted
  BY <1>23 DEF Aborted, Ended, Go, data, others
<1>24. CASE Cancel
  BY <1>24 DEF Cancel, Stopped, Holding, data, unheld, Open
<1>25. CASE CancelWaited
  BY <1>25 DEF CancelWaited, Holding, data, children, unheld, Open
<1>26. CASE CancelExpire
  BY <1>26 DEF CancelExpire, Holding, children, unheld
<1>27. CASE CancelFinish
  BY <1>27 DEF CancelFinish, Holding, children, unheld
<1>28. CASE Resume
  BY <1>28 DEF Resume, Holding, data, children, AllDone
<1>29. CASE ResumePrepare
  BY <1>29 DEF ResumePrepare, Holding, Requeued, children, unheld
<1>30. CASE ResumeReset
  BY <1>30 DEF ResumeReset, Holding, children, unheld
<1>31. CASE ResumeLaunch
  BY <1>31 DEF ResumeLaunch, Holding, Launched, AtRest, children
<1>32. CASE Shutdown
  BY <1>32 DEF Shutdown, Fault, Stopped, Holding, data
<1>33. CASE Restart
  BY <1>33 DEF Restart, Holding, Relaunched, Launched, AtRest, data, children, unheld
<1>34. CASE DeadlinePasses
  BY <1>34 DEF DeadlinePasses, Go, others
<1>35. CASE Crash
  BY <1>35 DEF Crash, Fault, Relaunched, Launched, AtRest, IdleWorkers, data
<1>36. CASE PageFault
  BY <1>36 DEF PageFault, Fault, Found, data
<1>37. ASSUME NEW k \in Workers, DetailFault(k) PROVE Kept'
  BY <1>37 DEF DetailFault, Fault, Put, data
<1>38. CASE EndFault
  BY <1>38 DEF EndFault, Fault, Go, data, children
<1>39. CASE LastFault
  BY <1>39 DEF LastFault, Fault, AtRest, data, children
<1>40. CASE ReadJob
  BY <1>40 DEF ReadJob, unread, Open, data, children
<1>41. CASE ReadBound
  BY <1>41 DEF ReadBound, unread, data, children
<1>42. CASE ReadRows
  BY <1>42 DEF ReadRows, NoReader, unread, data, children
<1>43. CASE UNCHANGED vars
  BY <1>43 DEF vars, data
<1>44. QED
  BY <1>1, <1>2, <1>3, <1>4, <1>5, <1>6, <1>7, <1>8, <1>9, <1>10, <1>11,
     <1>12, <1>13, <1>14, <1>15, <1>16, <1>17, <1>18, <1>19, <1>20, <1>21, <1>22, <1>23,
     <1>24, <1>25, <1>26, <1>27, <1>28, <1>29, <1>30, <1>31, <1>32, <1>33, <1>34, <1>35,
     <1>36, <1>37, <1>38, <1>39, <1>40, <1>41, <1>42, <1>43
  DEF Next, Attempt, Manage, Disturb, Read

\* No step leaves an open job without a task, a request or a lost end.
LEMMA OpenHasTaskStep ==
    ASSUME TypeOK, Stops, Judged, OpenHasTask, [Next]_vars
    PROVE  OpenHasTask'
<1> USE DEF OpenHasTask, TypeOK, Job, Task, Stops, Judged, Open
<1>1. CASE Load
  BY <1>1 DEF Load, AtRest, At, data, children, others
<1>2. CASE BackoffEnds
  BY <1>2 DEF BackoffEnds, At, Go, data, children, others
<1>3. CASE PassGate
  BY <1>3 DEF PassGate, At, Go, data, children, others
<1>4. CASE ResetExpiry
  BY <1>4 DEF ResetExpiry, At, Go, children, others
<1>5. CASE Mark
  BY <1>5 DEF Mark, At, Go, children, others
<1>6. CASE Prepare
  BY <1>6 DEF Prepare, Requeued, At, Go, others
<1>7. CASE FetchPage
  BY <1>7 DEF FetchPage, Found, At, data, others
<1>8. CASE SavePage
  BY <1>8 DEF SavePage, Position, Saved, others
<1>9. CASE SaveCursor
  BY <1>9 DEF SaveCursor
<1>10. ASSUME NEW k \in Workers, Claim(k) PROVE OpenHasTask'
  BY <1>10 DEF Claim, Working, Firsts, In, others, At
<1>11. ASSUME NEW k \in Workers, ClaimNone(k) PROVE OpenHasTask'
  BY <1>11 DEF ClaimNone, Working, Put, data, others, At
<1>12. ASSUME NEW k \in Workers, Decide(k) PROVE OpenHasTask'
  BY <1>12 DEF Decide, Working, Put, data, others, At
<1>13. ASSUME NEW k \in Workers, FetchDetail(k) PROVE OpenHasTask'
  BY <1>13 DEF FetchDetail, Working, Put, data, others, At
<1>14. ASSUME NEW k \in Workers, SaveDetail(k) PROVE OpenHasTask'
  BY <1>14 DEF SaveDetail, Put, others
<1>15. CASE EndAttempt
  BY <1>15 DEF EndAttempt, Ended, At, Go, data, children, others
<1>16. CASE Retry
  BY <1>16 DEF Retry, At, Go, children, others
<1>17. CASE Close
  BY <1>17 DEF Close, At, data, children, others, AllDone
<1>18. CASE Fail
  BY <1>18 DEF Fail, At, data, children, others
<1>19. CASE Expire
  BY <1>19 DEF Expire, At, Go, children, others
<1>20. CASE Finish
  BY <1>20 DEF Finish, AtRest, At, children, others
<1>21. CASE Unwind
  BY <1>21 DEF Unwind, data, others
<1>22. CASE Cancelled
  BY <1>22 DEF Cancelled, Ended, AtRest, data, others
<1>23. CASE Aborted
  BY <1>23 DEF Aborted, Ended, Go, data, others
<1>24. CASE Cancel
  BY <1>24 DEF Cancel, Stopped, Holding, data, unheld
<1>25. CASE CancelWaited
  BY <1>25 DEF CancelWaited, Holding, data, children, unheld
<1>26. CASE CancelExpire
  BY <1>26 DEF CancelExpire, Holding, children, unheld
<1>27. CASE CancelFinish
  BY <1>27 DEF CancelFinish, Holding, children, unheld
<1>28. CASE Resume
  BY <1>28 DEF Resume, Holding, data, children, AllDone
<1>29. CASE ResumePrepare
  BY <1>29 DEF ResumePrepare, Holding, Requeued, children, unheld
<1>30. CASE ResumeReset
  BY <1>30 DEF ResumeReset, Holding, children, unheld
<1>31. CASE ResumeLaunch
  BY <1>31 DEF ResumeLaunch, Holding, Launched, AtRest, children
<1>32. CASE Shutdown
  BY <1>32 DEF Shutdown, Fault, Stopped, Holding, data
<1>33. CASE Restart
  BY <1>33 DEF Restart, Holding, Relaunched, Launched, AtRest, data, children, unheld
<1>34. CASE DeadlinePasses
  BY <1>34 DEF DeadlinePasses, Go, others
<1>35. CASE Crash
  BY <1>35 DEF Crash, Fault, Relaunched, Launched, AtRest, IdleWorkers, data
<1>36. CASE PageFault
  BY <1>36 DEF PageFault, Fault, Found, data
<1>37. ASSUME NEW k \in Workers, DetailFault(k) PROVE OpenHasTask'
  BY <1>37 DEF DetailFault, Fault, Put, data
<1>38. CASE EndFault
  BY <1>38 DEF EndFault, Fault, Go, data, children
<1>39. CASE LastFault
  BY <1>39 DEF LastFault, Fault, AtRest, data, children
<1>40. CASE ReadJob
  BY <1>40 DEF ReadJob, unread, data, children
<1>41. CASE ReadBound
  BY <1>41 DEF ReadBound, unread, data, children
<1>42. CASE ReadRows
  BY <1>42 DEF ReadRows, NoReader, unread, data, children
<1>43. CASE UNCHANGED vars
  BY <1>43 DEF vars, data
<1>44. QED
  BY <1>1, <1>2, <1>3, <1>4, <1>5, <1>6, <1>7, <1>8, <1>9, <1>10, <1>11,
     <1>12, <1>13, <1>14, <1>15, <1>16, <1>17, <1>18, <1>19, <1>20, <1>21, <1>22, <1>23,
     <1>24, <1>25, <1>26, <1>27, <1>28, <1>29, <1>30, <1>31, <1>32, <1>33, <1>34, <1>35,
     <1>36, <1>37, <1>38, <1>39, <1>40, <1>41, <1>42, <1>43
  DEF Next, Attempt, Manage, Disturb, Read

\* No step changes a cancelled job that no request works on.
LEMMA CancelledStep ==
    ASSUME TypeOK, Stops, Judged, [Next]_vars
    PROVE  job.status = "cancelled" /\ control = "free" => UNCHANGED data
<1> USE DEF TypeOK, Job, Task, Stops, Judged, Open, data
<1>1. CASE Load
  BY <1>1 DEF Load, AtRest, At, children, others
<1>2. CASE BackoffEnds
  BY <1>2 DEF BackoffEnds, At, Go, children, others
<1>3. CASE PassGate
  BY <1>3 DEF PassGate, At, Go, children, others
<1>4. CASE ResetExpiry
  BY <1>4 DEF ResetExpiry, At, Go, children, others
<1>5. CASE Mark
  BY <1>5 DEF Mark, At, Go, children, others
<1>6. CASE Prepare
  BY <1>6 DEF Prepare, Requeued, At, Go, others
<1>7. CASE FetchPage
  BY <1>7 DEF FetchPage, Found, At, others
<1>8. CASE SavePage
  BY <1>8 DEF SavePage, Position, Saved, others
<1>9. CASE SaveCursor
  BY <1>9 DEF SaveCursor
<1>10. ASSUME NEW k \in Workers, Claim(k) PROVE job.status = "cancelled" /\ control = "free" => UNCHANGED data
  BY <1>10 DEF Claim, Working, Firsts, In, others, At
<1>11. ASSUME NEW k \in Workers, ClaimNone(k) PROVE job.status = "cancelled" /\ control = "free" => UNCHANGED data
  BY <1>11 DEF ClaimNone, Working, Put, others, At
<1>12. ASSUME NEW k \in Workers, Decide(k) PROVE job.status = "cancelled" /\ control = "free" => UNCHANGED data
  BY <1>12 DEF Decide, Working, Put, others, At
<1>13. ASSUME NEW k \in Workers, FetchDetail(k) PROVE job.status = "cancelled" /\ control = "free" => UNCHANGED data
  BY <1>13 DEF FetchDetail, Working, Put, others, At
<1>14. ASSUME NEW k \in Workers, SaveDetail(k) PROVE job.status = "cancelled" /\ control = "free" => UNCHANGED data
  BY <1>14 DEF SaveDetail, Put, others
<1>15. CASE EndAttempt
  BY <1>15 DEF EndAttempt, Ended, At, Go, children, others
<1>16. CASE Retry
  BY <1>16 DEF Retry, At, Go, children, others
<1>17. CASE Close
  BY <1>17 DEF Close, At, children, others, AllDone
<1>18. CASE Fail
  BY <1>18 DEF Fail, At, children, others
<1>19. CASE Expire
  BY <1>19 DEF Expire, At, Go, children, others
<1>20. CASE Finish
  BY <1>20 DEF Finish, AtRest, At, children, others
<1>21. CASE Unwind
  BY <1>21 DEF Unwind, others
<1>22. CASE Cancelled
  BY <1>22 DEF Cancelled, Ended, AtRest, others
<1>23. CASE Aborted
  BY <1>23 DEF Aborted, Ended, Go, others
<1>24. CASE Cancel
  BY <1>24 DEF Cancel, Stopped, Holding, unheld
<1>25. CASE CancelWaited
  BY <1>25 DEF CancelWaited, Holding, children, unheld
<1>26. CASE CancelExpire
  BY <1>26 DEF CancelExpire, Holding, children, unheld
<1>27. CASE CancelFinish
  BY <1>27 DEF CancelFinish, Holding, children, unheld
<1>28. CASE Resume
  BY <1>28 DEF Resume, Holding, children, AllDone
<1>29. CASE ResumePrepare
  BY <1>29 DEF ResumePrepare, Holding, Requeued, children, unheld
<1>30. CASE ResumeReset
  BY <1>30 DEF ResumeReset, Holding, children, unheld
<1>31. CASE ResumeLaunch
  BY <1>31 DEF ResumeLaunch, Holding, Launched, AtRest, children
<1>32. CASE Shutdown
  BY <1>32 DEF Shutdown, Fault, Stopped, Holding
<1>33. CASE Restart
  BY <1>33 DEF Restart, Holding, Relaunched, Launched, AtRest, children, unheld
<1>34. CASE DeadlinePasses
  BY <1>34 DEF DeadlinePasses, Go, others
<1>35. CASE Crash
  BY <1>35 DEF Crash, Fault, Relaunched, Launched, AtRest, IdleWorkers
<1>36. CASE PageFault
  BY <1>36 DEF PageFault, Fault, Found
<1>37. ASSUME NEW k \in Workers, DetailFault(k) PROVE job.status = "cancelled" /\ control = "free" => UNCHANGED data
  BY <1>37 DEF DetailFault, Fault, Put
<1>38. CASE EndFault
  BY <1>38 DEF EndFault, Fault, Go, children
<1>39. CASE LastFault
  BY <1>39 DEF LastFault, Fault, AtRest, children
<1>40. CASE ReadJob
  BY <1>40 DEF ReadJob, unread, children
<1>41. CASE ReadBound
  BY <1>41 DEF ReadBound, unread, children
<1>42. CASE ReadRows
  BY <1>42 DEF ReadRows, NoReader, unread, children
<1>43. CASE UNCHANGED vars
  BY <1>43 DEF vars, data
<1>44. QED
  BY <1>1, <1>2, <1>3, <1>4, <1>5, <1>6, <1>7, <1>8, <1>9, <1>10, <1>11,
     <1>12, <1>13, <1>14, <1>15, <1>16, <1>17, <1>18, <1>19, <1>20, <1>21, <1>22, <1>23,
     <1>24, <1>25, <1>26, <1>27, <1>28, <1>29, <1>30, <1>31, <1>32, <1>33, <1>34, <1>35,
     <1>36, <1>37, <1>38, <1>39, <1>40, <1>41, <1>42, <1>43
  DEF Next, Attempt, Manage, Disturb, Read

\* After a job is judged completed, no step adds a work or takes one back.
LEMMA CompletedStep ==
    ASSUME TypeOK, Cursors, Stops, Judged, Completed, [Next]_vars
    PROVE  Completed'
<1> USE DEF Completed, TypeOK, Job, Task, Stops, Judged, Open, AllDone, Unfinished, In
<1>1. CASE Load
  BY <1>1 DEF Load, AtRest, At, data, children, others
<1>2. CASE BackoffEnds
  BY <1>2 DEF BackoffEnds, At, Go, data, children, others
<1>3. CASE PassGate
  BY <1>3 DEF PassGate, At, Go, data, children, others
<1>4. CASE ResetExpiry
  BY <1>4 DEF ResetExpiry, At, Go, children, others
<1>5. CASE Mark
  BY <1>5 DEF Mark, At, Go, children, others
<1>6. CASE Prepare
  BY <1>6 DEF Prepare, Requeued, At, Go, others
<1>7. CASE FetchPage
  BY <1>7 DEF FetchPage, Found, At, data, others
<1>8. CASE SavePage
  BY <1>8 DEF SavePage, Position, Saved, others
<1>9. CASE SaveCursor
  BY <1>9 DEF SaveCursor
<1>10. ASSUME NEW k \in Workers, Claim(k) PROVE Completed'
  BY <1>10 DEF Claim, Working, Firsts, others, At
<1>11. ASSUME NEW k \in Workers, ClaimNone(k) PROVE Completed'
  BY <1>11 DEF ClaimNone, Working, Put, data, others, At
<1>12. ASSUME NEW k \in Workers, Decide(k) PROVE Completed'
  BY <1>12 DEF Decide, Working, Put, data, others, At
<1>13. ASSUME NEW k \in Workers, FetchDetail(k) PROVE Completed'
  BY <1>13 DEF FetchDetail, Working, Put, data, others, At
<1>14. ASSUME NEW k \in Workers, SaveDetail(k) PROVE Completed'
  BY <1>14 DEF SaveDetail, Put, others
<1>15. CASE EndAttempt
  BY <1>15 DEF EndAttempt, Ended, At, Go, data, children, others
<1>16. CASE Retry
  BY <1>16 DEF Retry, At, Go, children, others
<1>17. CASE Close
  BY <1>17 DEF Close, At, data, children, others
<1>18. CASE Fail
  BY <1>18 DEF Fail, At, data, children, others
<1>19. CASE Expire
  BY <1>19 DEF Expire, At, Go, children, others
<1>20. CASE Finish
  BY <1>20 DEF Finish, AtRest, At, children, others
<1>21. CASE Unwind
  BY <1>21 DEF Unwind, data, others
<1>22. CASE Cancelled
  BY <1>22 DEF Cancelled, Ended, AtRest, data, others
<1>23. CASE Aborted
  BY <1>23 DEF Aborted, Ended, Go, data, others
<1>24. CASE Cancel
  BY <1>24 DEF Cancel, Stopped, Holding, data, unheld
<1>25. CASE CancelWaited
  BY <1>25 DEF CancelWaited, Holding, data, children, unheld
<1>26. CASE CancelExpire
  BY <1>26 DEF CancelExpire, Holding, children, unheld
<1>27. CASE CancelFinish
  BY <1>27 DEF CancelFinish, Holding, children, unheld
<1>28. CASE Resume
  BY <1>28 DEF Resume, Holding, data, children
<1>29. CASE ResumePrepare
  BY <1>29 DEF ResumePrepare, Holding, Requeued, children, unheld
<1>30. CASE ResumeReset
  BY <1>30 DEF ResumeReset, Holding, children, unheld
<1>31. CASE ResumeLaunch
  BY <1>31 DEF ResumeLaunch, Holding, Launched, AtRest, children
<1>32. CASE Shutdown
  BY <1>32 DEF Shutdown, Fault, Stopped, Holding, data
<1>33. CASE Restart
  BY <1>33 DEF Restart, Holding, Relaunched, Launched, AtRest, data, children, unheld
<1>34. CASE DeadlinePasses
  BY <1>34 DEF DeadlinePasses, Go, others
<1>35. CASE Crash
  BY <1>35 DEF Crash, Fault, Relaunched, Launched, AtRest, IdleWorkers, data
<1>36. CASE PageFault
  BY <1>36 DEF PageFault, Fault, Found, data
<1>37. ASSUME NEW k \in Workers, DetailFault(k) PROVE Completed'
  BY <1>37 DEF DetailFault, Fault, Put, data
<1>38. CASE EndFault
  BY <1>38 DEF EndFault, Fault, Go, data, children
<1>39. CASE LastFault
  BY <1>39 DEF LastFault, Fault, AtRest, data, children
<1>40. CASE ReadJob
  BY <1>40 DEF ReadJob, unread, data, children
<1>41. CASE ReadBound
  BY <1>41 DEF ReadBound, unread, data, children
<1>42. CASE ReadRows
  BY <1>42 DEF ReadRows, NoReader, unread, data, children
<1>43. CASE UNCHANGED vars
  BY <1>43 DEF vars, data
<1>44. QED
  BY <1>1, <1>2, <1>3, <1>4, <1>5, <1>6, <1>7, <1>8, <1>9, <1>10, <1>11,
     <1>12, <1>13, <1>14, <1>15, <1>16, <1>17, <1>18, <1>19, <1>20, <1>21, <1>22, <1>23,
     <1>24, <1>25, <1>26, <1>27, <1>28, <1>29, <1>30, <1>31, <1>32, <1>33, <1>34, <1>35,
     <1>36, <1>37, <1>38, <1>39, <1>40, <1>41, <1>42, <1>43
  DEF Next, Attempt, Manage, Disturb, Read

\* A saved work that is held stays saved.
LEMMA ClaimedStep ==
    ASSUME TypeOK, Claimed, [Next]_vars
    PROVE  Claimed'
<1> USE DEF Claimed, TypeOK, Work, Detail
<1>1. CASE Load
  BY <1>1 DEF Load, AtRest, At, data, children, others
<1>2. CASE BackoffEnds
  BY <1>2 DEF BackoffEnds, At, Go, data, children, others
<1>3. CASE PassGate
  BY <1>3 DEF PassGate, At, Go, data, children, others
<1>4. CASE ResetExpiry
  BY <1>4 DEF ResetExpiry, At, Go, children, others
<1>5. CASE Mark
  BY <1>5 DEF Mark, At, Go, children, others
<1>6. CASE Prepare
  BY <1>6 DEF Prepare, Requeued, At, Go, others
<1>7. CASE FetchPage
  BY <1>7 DEF FetchPage, Found, At, data, others
<1>8. CASE SavePage
  BY <1>8 DEF SavePage, Position, Saved, others
<1>9. CASE SaveCursor
  BY <1>9 DEF SaveCursor
<1>10. ASSUME NEW k \in Workers, Claim(k) PROVE Claimed'
  BY <1>10 DEF Claim, Working, Firsts, In, others, At
<1>11. ASSUME NEW k \in Workers, ClaimNone(k) PROVE Claimed'
  BY <1>11 DEF ClaimNone, Working, Put, data, others, At
<1>12. ASSUME NEW k \in Workers, Decide(k) PROVE Claimed'
  BY <1>12 DEF Decide, Working, Put, data, others, At
<1>13. ASSUME NEW k \in Workers, FetchDetail(k) PROVE Claimed'
  BY <1>13 DEF FetchDetail, Working, Put, data, others, At
<1>14. ASSUME NEW k \in Workers, SaveDetail(k) PROVE Claimed'
  BY <1>14 DEF SaveDetail, Put, others
<1>15. CASE EndAttempt
  BY <1>15 DEF EndAttempt, Ended, At, Go, data, children, others
<1>16. CASE Retry
  BY <1>16 DEF Retry, At, Go, children, others
<1>17. CASE Close
  BY <1>17 DEF Close, At, data, children, others, AllDone
<1>18. CASE Fail
  BY <1>18 DEF Fail, At, data, children, others
<1>19. CASE Expire
  BY <1>19 DEF Expire, At, Go, children, others
<1>20. CASE Finish
  BY <1>20 DEF Finish, AtRest, At, children, others
<1>21. CASE Unwind
  BY <1>21 DEF Unwind, data, others
<1>22. CASE Cancelled
  BY <1>22 DEF Cancelled, Ended, AtRest, data, others
<1>23. CASE Aborted
  BY <1>23 DEF Aborted, Ended, Go, data, others
<1>24. CASE Cancel
  BY <1>24 DEF Cancel, Stopped, Holding, data, unheld, Open
<1>25. CASE CancelWaited
  BY <1>25 DEF CancelWaited, Holding, data, children, unheld, Open
<1>26. CASE CancelExpire
  BY <1>26 DEF CancelExpire, Holding, children, unheld
<1>27. CASE CancelFinish
  BY <1>27 DEF CancelFinish, Holding, children, unheld
<1>28. CASE Resume
  BY <1>28 DEF Resume, Holding, data, children, AllDone
<1>29. CASE ResumePrepare
  BY <1>29 DEF ResumePrepare, Holding, Requeued, children, unheld
<1>30. CASE ResumeReset
  BY <1>30 DEF ResumeReset, Holding, children, unheld
<1>31. CASE ResumeLaunch
  BY <1>31 DEF ResumeLaunch, Holding, Launched, AtRest, children
<1>32. CASE Shutdown
  BY <1>32 DEF Shutdown, Fault, Stopped, Holding, data
<1>33. CASE Restart
  BY <1>33 DEF Restart, Holding, Relaunched, Launched, AtRest, data, children, unheld
<1>34. CASE DeadlinePasses
  BY <1>34 DEF DeadlinePasses, Go, others
<1>35. CASE Crash
  BY <1>35 DEF Crash, Fault, Relaunched, Launched, AtRest, IdleWorkers, data
<1>36. CASE PageFault
  BY <1>36 DEF PageFault, Fault, Found, data
<1>37. ASSUME NEW k \in Workers, DetailFault(k) PROVE Claimed'
  BY <1>37 DEF DetailFault, Fault, Put, data
<1>38. CASE EndFault
  BY <1>38 DEF EndFault, Fault, Go, data, children
<1>39. CASE LastFault
  BY <1>39 DEF LastFault, Fault, AtRest, data, children
<1>40. CASE ReadJob
  BY <1>40 DEF ReadJob, unread, Open, data, children
<1>41. CASE ReadBound
  BY <1>41 DEF ReadBound, unread, data, children
<1>42. CASE ReadRows
  BY <1>42 DEF ReadRows, NoReader, unread, data, children
<1>43. CASE UNCHANGED vars
  BY <1>43 DEF vars, data
<1>44. QED
  BY <1>1, <1>2, <1>3, <1>4, <1>5, <1>6, <1>7, <1>8, <1>9, <1>10, <1>11,
     <1>12, <1>13, <1>14, <1>15, <1>16, <1>17, <1>18, <1>19, <1>20, <1>21, <1>22, <1>23,
     <1>24, <1>25, <1>26, <1>27, <1>28, <1>29, <1>30, <1>31, <1>32, <1>33, <1>34, <1>35,
     <1>36, <1>37, <1>38, <1>39, <1>40, <1>41, <1>42, <1>43
  DEF Next, Attempt, Manage, Disturb, Read

\* Only SavePage, SaveCursor and ReadRows touch pages, cursors and the reader.
LEMMA WalkStep ==
    ASSUME TypeOK, Cursors, Claimed, [Next]_vars
    PROVE  Walk
<1> USE DEF Walk, Still, TypeOK, Work, Job, Task, Cursors, Claimed, Detail
<1>1. CASE Load
  BY <1>1 DEF Load, AtRest, At, data, children, others
<1>2. CASE BackoffEnds
  BY <1>2 DEF BackoffEnds, At, Go, data, children, others
<1>3. CASE PassGate
  BY <1>3 DEF PassGate, At, Go, data, children, others
<1>4. CASE ResetExpiry
  BY <1>4 DEF ResetExpiry, At, Go, children, others
<1>5. CASE Mark
  BY <1>5 DEF Mark, At, Go, children, others
<1>6. CASE Prepare
  BY <1>6 DEF Prepare, Requeued, At, Go, others
<1>7. CASE FetchPage
  BY <1>7 DEF FetchPage, Found, At, data, others
<1>8. CASE SavePage
  BY <1>8 DEF SavePage, Position, Saved, others
<1>9. CASE SaveCursor
  BY <1>9 DEF SaveCursor
<1>10. ASSUME NEW k \in Workers, Claim(k) PROVE Walk
  BY <1>10 DEF Claim, Working, Firsts, In, others, At
<1>11. ASSUME NEW k \in Workers, ClaimNone(k) PROVE Walk
  BY <1>11 DEF ClaimNone, Working, Put, data, others, At
<1>12. ASSUME NEW k \in Workers, Decide(k) PROVE Walk
  BY <1>12 DEF Decide, Working, Put, data, others, At
<1>13. ASSUME NEW k \in Workers, FetchDetail(k) PROVE Walk
  BY <1>13 DEF FetchDetail, Working, Put, data, others, At
<1>14. ASSUME NEW k \in Workers, SaveDetail(k) PROVE Walk
  BY <1>14 DEF SaveDetail, Put, others
<1>15. CASE EndAttempt
  BY <1>15 DEF EndAttempt, Ended, At, Go, data, children, others
<1>16. CASE Retry
  BY <1>16 DEF Retry, At, Go, children, others
<1>17. CASE Close
  BY <1>17 DEF Close, At, data, children, others, AllDone
<1>18. CASE Fail
  BY <1>18 DEF Fail, At, data, children, others
<1>19. CASE Expire
  BY <1>19 DEF Expire, At, Go, children, others
<1>20. CASE Finish
  BY <1>20 DEF Finish, AtRest, At, children, others
<1>21. CASE Unwind
  BY <1>21 DEF Unwind, data, others
<1>22. CASE Cancelled
  BY <1>22 DEF Cancelled, Ended, AtRest, data, others
<1>23. CASE Aborted
  BY <1>23 DEF Aborted, Ended, Go, data, others
<1>24. CASE Cancel
  BY <1>24 DEF Cancel, Stopped, Holding, data, unheld, Open
<1>25. CASE CancelWaited
  BY <1>25 DEF CancelWaited, Holding, data, children, unheld, Open
<1>26. CASE CancelExpire
  BY <1>26 DEF CancelExpire, Holding, children, unheld
<1>27. CASE CancelFinish
  BY <1>27 DEF CancelFinish, Holding, children, unheld
<1>28. CASE Resume
  BY <1>28 DEF Resume, Holding, data, children, AllDone
<1>29. CASE ResumePrepare
  BY <1>29 DEF ResumePrepare, Holding, Requeued, children, unheld
<1>30. CASE ResumeReset
  BY <1>30 DEF ResumeReset, Holding, children, unheld
<1>31. CASE ResumeLaunch
  BY <1>31 DEF ResumeLaunch, Holding, Launched, AtRest, children
<1>32. CASE Shutdown
  BY <1>32 DEF Shutdown, Fault, Stopped, Holding, data
<1>33. CASE Restart
  BY <1>33 DEF Restart, Holding, Relaunched, Launched, AtRest, data, children, unheld
<1>34. CASE DeadlinePasses
  BY <1>34 DEF DeadlinePasses, Go, others
<1>35. CASE Crash
  BY <1>35 DEF Crash, Fault, Relaunched, Launched, AtRest, IdleWorkers, data
<1>36. CASE PageFault
  BY <1>36 DEF PageFault, Fault, Found, data
<1>37. ASSUME NEW k \in Workers, DetailFault(k) PROVE Walk
  BY <1>37 DEF DetailFault, Fault, Put, data
<1>38. CASE EndFault
  BY <1>38 DEF EndFault, Fault, Go, data, children
<1>39. CASE LastFault
  BY <1>39 DEF LastFault, Fault, AtRest, data, children
<1>40. CASE ReadJob
  BY <1>40 DEF ReadJob, unread, Open, data, children
<1>41. CASE ReadBound
  BY <1>41 DEF ReadBound, unread, data, children
<1>42. CASE ReadRows
  BY <1>42 DEF ReadRows, NoReader, unread, data, children
<1>43. CASE UNCHANGED vars
  BY <1>43 DEF vars, data
<1>44. QED
  BY <1>1, <1>2, <1>3, <1>4, <1>5, <1>6, <1>7, <1>8, <1>9, <1>10, <1>11,
     <1>12, <1>13, <1>14, <1>15, <1>16, <1>17, <1>18, <1>19, <1>20, <1>21, <1>22, <1>23,
     <1>24, <1>25, <1>26, <1>27, <1>28, <1>29, <1>30, <1>31, <1>32, <1>33, <1>34, <1>35,
     <1>36, <1>37, <1>38, <1>39, <1>40, <1>41, <1>42, <1>43
  DEF Next, Attempt, Manage, Disturb, Read

-----------------------------------------------------------------------------
(* Pages, cursors and the reader *)

\* The order of the positions.
LEMMA Order ==
    ASSUME NEW a \in Positions, NEW b \in Positions, NEW c \in Positions
    PROVE  /\ NotAfter(a, b) \/ Before(b, a)
           /\ NotAfter(a, b) /\ Before(b, c) => Before(a, c)
           /\ Before(a, b) /\ NotAfter(b, c) => Before(a, c)
           /\ Before(a, b) => a # b
           /\ a[1] >= 1 => ~NotAfter(a, Nowhere)
BY DEF Positions, Before, NotAfter, Nowhere

\* Saving a page adds the works it shows that were not saved before, at places
\* of their own beyond the cursor of the list.
LEMMA SavePageAdds ==
    ASSUME TypeOK, Cursors, SavePage
    PROVE  /\ job.cursor + 1 \in DOMAIN PageWorks /\ task.cursor = job.cursor
           /\ \A w \in Saved : works'[w] = works[w]
           /\ \E page \in PageWorks[job.cursor + 1] :
                /\ \A w \in Works \ Saved :
                     \/ works'[w] = works[w]
                     \/ /\ works'[w].sequence[1] = job.cursor + 1
                        /\ works'[w].again <=>
                             \E v \in Saved : works[v].sequence[1] = job.cursor + 1
                        /\ page[works'[w].sequence[2]] = w
                /\ \A n \in DOMAIN page : page[n] \in Works /\ works'[page[n]].state # "absent"
           /\ disc' = "cursor" /\ UNCHANGED <<job, reader>>
<1>1. task.cursor = job.cursor /\ task.cursor < Len(PageWorks) /\ task.cursor \in Nat
  BY DEF Cursors, SavePage, TypeOK, Task
<1>2. job.cursor + 1 \in DOMAIN PageWorks
  BY <1>1, AuthorAssumption
<1> DEFINE Index(page, w) == CHOOSE i \in DOMAIN page : page[i] = w
           before == \E v \in Saved : works[v].sequence[1] = task.cursor + 1
           place == task.cursor + 1
<1>3. PICK page \in PageWorks[place] :
        works' = [w \in Works |->
          IF w \in Saved \/ \A i \in DOMAIN page : page[i] # w THEN works[w]
          ELSE [state |-> IF w \in Listed THEN "complete" ELSE "pending",
                sequence |-> Position(place, Index(page, w)), again |-> before]]
  BY DEF SavePage
<1>4. page \in Seq(Works)
  BY <1>1, <1>2, AuthorAssumption
<1>5. \A n \in DOMAIN page : page[n] \in Works
  BY <1>4
<1>6. ASSUME NEW w \in Works, NEW i \in DOMAIN page, page[i] = w
      PROVE  page[Index(page, w)] = w
  BY <1>6
<1>7. before \in BOOLEAN
  OBVIOUS
<1>8. disc' = "cursor" /\ UNCHANGED <<job, reader>>
  BY DEF SavePage, others
<1> HIDE DEF Index, before, place
<1>9. \A w \in Saved : works'[w] = works[w]
  BY <1>3 DEF Saved
<1>10. ASSUME NEW w \in Works \ Saved, works'[w] # works[w]
       PROVE  /\ works'[w].sequence[1] = place
              /\ works'[w].again <=> before
              /\ page[works'[w].sequence[2]] = w
  <2>1. PICK i \in DOMAIN page : page[i] = w
    BY <1>3, <1>10
  <2>2. works'[w] = [state |-> IF w \in Listed THEN "complete" ELSE "pending",
                     sequence |-> <<place, Index(page, w)>>, again |-> before]
    BY <1>3, <2>1 DEF Position
  <2>3. works'[w].sequence = <<place, Index(page, w)>> /\ works'[w].again = before
    BY <2>2
  <2>4. works'[w].sequence[1] = place /\ works'[w].sequence[2] = Index(page, w)
    BY <2>3
  <2>5. works'[w].again <=> before
    BY <2>3
  <2>6. QED
    BY <2>1, <2>4, <2>5, <1>6
<1>11. ASSUME NEW n \in DOMAIN page PROVE works'[page[n]].state # "absent"
  <2>1. CASE page[n] \in Saved
    BY <2>1, <1>9 DEF Saved
  <2>2. CASE page[n] \notin Saved
    <3>1. works'[page[n]].state \in {"complete", "pending"}
      BY <2>2, <1>3, <1>5
    <3>2. QED
      BY <3>1
  <2>3. QED
    BY <2>1, <2>2
<1>12. place = job.cursor + 1 /\ page \in PageWorks[job.cursor + 1]
  BY <1>1 DEF place
<1>13. before <=> \E v \in Saved : works[v].sequence[1] = job.cursor + 1
  BY <1>1 DEF before
<1>14. \A w \in Works \ Saved :
         \/ works'[w] = works[w]
         \/ /\ works'[w].sequence[1] = job.cursor + 1
            /\ works'[w].again <=> \E v \in Saved : works[v].sequence[1] = job.cursor + 1
            /\ page[works'[w].sequence[2]] = w
  BY <1>10, <1>12, <1>13
<1>15. \A n \in DOMAIN page : page[n] \in Works /\ works'[page[n]].state # "absent"
  BY <1>5, <1>11
<1>16. QED
  BY <1>1, <1>2, <1>8, <1>9, <1>12, <1>14, <1>15

\* No step passes a page that is not saved, or saves one beyond the next.
LEMMA WalkedStep ==
    ASSUME TypeOK, TypeOK', Cursors, Claimed, Walked, [Next]_vars
    PROVE  Walked'
<1>1. Walk
  BY WalkStep
<1>2. job.cursor \in Nat /\ \A w \in Works : works[w].sequence \in Nat \X Nat
  BY DEF TypeOK, Job, Work, Positions
<1>3. CASE SavePage
  <2>1. Saved \subseteq Saved' /\ \A w \in Saved : works'[w] = works[w]
    BY <1>3, SavePageAdds DEF Saved
  <2>2. \A w \in Saved' \ Saved : works'[w].sequence[1] = job.cursor + 1
    BY <1>3, SavePageAdds DEF Saved
  <2>3. PageSaved(job.cursor + 1)'
    BY <1>3, SavePageAdds DEF Saved, PageSaved
  <2>4. job' = job /\ disc' = "cursor"
    BY <1>3, SavePageAdds
  <2>5. \A i \in DOMAIN PageWorks : PageSaved(i) => PageSaved(i)'
    BY <2>1 DEF PageSaved
  <2>6. \A i \in DOMAIN PageWorks : Passed(i)' => Passed(i) \/ i = job.cursor + 1
    <3>1. SUFFICES ASSUME NEW i \in DOMAIN PageWorks, Passed(i)'
                   PROVE  Passed(i) \/ i = job.cursor + 1
      OBVIOUS
    <3>2. i \in Nat
      BY AuthorAssumption
    <3>3. CASE i <= job'.cursor
      BY <3>3, <2>4 DEF Passed
    <3>4. CASE i = job'.cursor + 1
      BY <3>4, <2>4
    <3>5. CASE \E w \in Saved' : i <= works'[w].sequence[1]
      <4>1. PICK w \in Saved' : i <= works'[w].sequence[1]
        BY <3>5
      <4>2. CASE w \in Saved
        BY <4>1, <4>2, <2>1 DEF Passed
      <4>3. CASE w \notin Saved
        BY <4>1, <4>3, <2>2, <3>2, <1>2 DEF Passed
      <4>4. QED
        BY <4>2, <4>3
    <3>6. QED
      BY <3>1, <3>3, <3>4, <3>5 DEF Passed
  <2>7. \A w \in Saved' : works'[w].sequence[1] \in 1 .. job'.cursor + 1
    BY <2>1, <2>2, <2>4, <1>2 DEF Walked
  <2>8. QED
    BY <2>3, <2>4, <2>5, <2>6, <2>7 DEF Walked, CheckpointWhole
<1>4. CASE SaveCursor
  <2>1. /\ UNCHANGED works /\ disc = "cursor" /\ job'.cursor = job.cursor + 1
        /\ disc' # "cursor"
    BY <1>4 DEF SaveCursor, TypeOK, Job, Cursors
  <2>2. Saved' = Saved
    BY <2>1 DEF Saved
  <2>3. \A i \in DOMAIN PageWorks : PageSaved(i)' <=> PageSaved(i)
    BY <2>2 DEF PageSaved
  <2>4. \A i \in DOMAIN PageWorks : Passed(i)' => Passed(i)
    <3>1. \A i \in DOMAIN PageWorks : i \in Nat
      BY AuthorAssumption
    <3>2. QED
      BY <3>1, <2>1, <2>2, <1>2 DEF Passed
  <2>5. \A w \in Saved : works[w].sequence[1] \in 1 .. job'.cursor + 1
                           /\ ~(works[w].sequence[1] > job'.cursor)
    BY <2>1, <1>2 DEF Walked
  <2>6. QED
    BY <2>1, <2>2, <2>3, <2>4, <2>5 DEF Walked, CheckpointWhole
<1>5. CASE ReadRows
  BY <1>5 DEF ReadRows, unread, data, children, Walked, Passed, PageSaved, Saved, CheckpointWhole
<1>6. CASE Still
  <2>1. Saved' = Saved /\ \A w \in Works : works'[w].sequence = works[w].sequence
    BY <1>6 DEF Still, Saved
  <2>2. \A i \in DOMAIN PageWorks : PageSaved(i)' <=> PageSaved(i)
    BY <2>1 DEF PageSaved
  <2>3. \A i \in DOMAIN PageWorks : Passed(i)' => Passed(i)
    BY <1>6, <2>1 DEF Still, Passed, Saved
  <2>4. CheckpointWhole'
    BY <1>6, <2>1 DEF Still, Walked, CheckpointWhole, Saved
  <2>5. QED
    BY <1>6, <2>1, <2>2, <2>3, <2>4 DEF Still, Walked, Saved
<1>7. QED
  BY <1>1, <1>3, <1>4, <1>5, <1>6 DEF Walk

\* What is served to a reader is all there is up to where its cursor goes, but
\* for the works that share a place.
LEMMA ServedAll ==
    ASSUME TypeOK, Placed, NEW rows \in Served, NEW cursor \in Reached(rows), NEW w \in Saved,
           NotAfter(works[w].sequence, cursor), Before(reader.cursor, works[w].sequence)
    PROVE  w \in rows \/ Displaced(w)
<1> DEFINE seq(v) == works[v].sequence
<1>1. reader.cursor \in Positions /\ reader.bound \in Positions
        /\ \A v \in Works : seq(v) \in Positions
  BY DEF TypeOK, Work, Reader
<1>2. Saved \subseteq Works /\ Rows \subseteq Saved /\ rows \subseteq Rows
  BY DEF Saved, Rows, Served
<1>3. cursor # reader.cursor
  BY <1>1, <1>2, Order DEF NotAfter
<1>4. PICK v \in rows : cursor = seq(v)
  BY <1>3 DEF Reached
<1>5. NotAfter(seq(w), seq(v))
  BY <1>4
<1>6. w \in Rows
  <2>1. reader.bound # Nowhere => Before(seq(v), reader.bound)
    BY <1>2, <1>4 DEF Rows
  <2>2. reader.bound # Nowhere => Before(seq(w), reader.bound)
    BY <2>1, <1>5, <1>1, <1>2, Order
  <2>3. QED
    BY <2>2 DEF Rows
<1>7. CASE seq(w) = seq(v)
  BY <1>2, <1>7 DEF Placed, Displaced
<1>8. CASE seq(w) # seq(v)
  <2>1. ~NotAfter(seq(v), seq(w))
    BY <1>1, <1>2, <1>5, <1>8, Order DEF NotAfter
  <2>2. QED
    BY <1>6, <2>1 DEF Served
<1>9. QED
  BY <1>7, <1>8

\* No step moves the reader past a work it has not been given.
LEMMA PlacedStep ==
    ASSUME TypeOK, TypeOK', Cursors, Claimed, Walked, Placed, [Next]_vars
    PROVE  Placed'
<1>1. Walk
  BY WalkStep
<1>2. /\ job.cursor \in Nat /\ reader.cursor \in Positions /\ Saved \subseteq Works
      /\ \A w \in Works : works[w].sequence \in Positions
  BY DEF TypeOK, Job, Work, Reader, Saved
<1>3. CASE SavePage
  <2>1. Saved \subseteq Saved' /\ \A w \in Saved : works'[w] = works[w]
    BY <1>3, SavePageAdds DEF Saved
  <2>2. reader' = reader
    BY <1>3, SavePageAdds
  <2> DEFINE before == \E v \in Saved : works[v].sequence[1] = job.cursor + 1
  <2>3. PICK page \in PageWorks[job.cursor + 1] :
          \A w \in Works \ Saved :
            \/ works'[w] = works[w]
            \/ /\ works'[w].sequence[1] = job.cursor + 1
               /\ works'[w].again <=> before
               /\ page[works'[w].sequence[2]] = w
    BY <1>3, SavePageAdds
  <2>4. \A w \in Saved' \ Saved :
          /\ works'[w].sequence[1] = job.cursor + 1
          /\ works'[w].again <=> before
          /\ page[works'[w].sequence[2]] = w
    BY <2>3 DEF Saved
  <2>5. ASSUME NEW w \in Saved', w \notin Saved, NotAfter(works'[w].sequence, reader.cursor)
        PROVE  works'[w].again
    <3>1. works'[w].sequence[1] = job.cursor + 1
      BY <2>4, <2>5
    <3>2. works'[w].sequence \in Positions
      BY <2>5 DEF TypeOK, Work, Saved
    <3>3. reader.cursor # Nowhere
      BY <3>1, <3>2, <2>5, <1>2, Order
    <3>4. PICK v \in Saved : works[v].sequence = reader.cursor
      BY <3>3 DEF Placed
    <3>5. job.cursor + 1 <= works[v].sequence[1]
      BY <3>1, <3>2, <3>4, <2>5, <1>2 DEF NotAfter, Before, Positions
    <3>6. works[v].sequence[1] = job.cursor + 1
      BY <3>5, <1>2 DEF Walked
    <3>7. QED
      BY <3>6, <2>4, <2>5
  <2>6. \A w \in Saved : Displaced(w) => Displaced(w)'
    BY <2>1 DEF Displaced
  <2>7. ReaderHasAll'
    <3>1. ASSUME NEW w \in Saved', NotAfter(works'[w].sequence, reader.cursor)
          PROVE  w \in reader.seen \/ Displaced(w)'
      <4>1. CASE w \in Saved
        BY <4>1, <3>1, <2>1, <2>6 DEF Placed, ReaderHasAll
      <4>2. CASE w \notin Saved
        BY <4>2, <3>1, <2>5 DEF Displaced
      <4>3. QED
        BY <4>1, <4>2
    <3>2. QED
      BY <3>1, <2>2 DEF ReaderHasAll
  <2>8. ASSUME NEW v \in Saved', NEW w \in Saved', works'[v].sequence = works'[w].sequence
        PROVE  v = w \/ works'[v].again \/ works'[w].again
    <3>1. CASE v \in Saved /\ w \in Saved
      BY <3>1, <2>1, <2>8 DEF Placed
    <3>2. CASE v \in Saved /\ w \notin Saved
      BY <3>2, <2>1, <2>4, <2>8
    <3>3. CASE v \notin Saved /\ w \in Saved
      BY <3>3, <2>1, <2>4, <2>8
    <3>4. CASE v \notin Saved /\ w \notin Saved
      BY <3>4, <2>4, <2>8
    <3>5. QED
      BY <3>1, <3>2, <3>3, <3>4
  <2>9. reader'.cursor = Nowhere \/ \E w \in Saved' : works'[w].sequence = reader'.cursor
    BY <2>1, <2>2 DEF Placed
  <2>10. QED
    BY <2>7, <2>8, <2>9 DEF Placed
<1>4. CASE SaveCursor
  BY <1>4 DEF SaveCursor, Placed, ReaderHasAll, Displaced, Saved
<1>5. CASE ReadRows
  <2>1. works' = works /\ Saved' = Saved
    BY <1>5 DEF ReadRows, unread, data, Saved
  <2>2. \A w \in Saved : Displaced(w)' <=> Displaced(w)
    BY <2>1 DEF Displaced
  <2>3. CASE reader' = NoReader
    <3>1. \A w \in Saved : ~NotAfter(works[w].sequence, Nowhere)
      BY <1>2, Order DEF Walked
    <3>2. QED
      BY <2>1, <2>3, <3>1 DEF NoReader, Placed, ReaderHasAll
  <2>4. ASSUME NEW rows \in Served, NEW c \in Reached(rows),
               reader'.cursor = c, reader'.seen = reader.seen \union rows
        PROVE  Placed'
    <3>1. c = Nowhere \/ \E w \in Saved : works[w].sequence = c
      BY DEF Reached, Placed, Served, Rows
    <3>2. ASSUME NEW w \in Saved, NotAfter(works[w].sequence, c)
          PROVE  w \in reader.seen \union rows \/ Displaced(w)
      <4>1. CASE NotAfter(works[w].sequence, reader.cursor)
        BY <4>1 DEF Placed, ReaderHasAll
      <4>2. CASE Before(reader.cursor, works[w].sequence)
        BY <4>2, <3>2, ServedAll
      <4>3. QED
        BY <4>1, <4>2, <1>2, Order
    <3>3. QED
      BY <2>1, <2>2, <2>4, <3>1, <3>2 DEF Placed, ReaderHasAll
  <2>5. QED
    BY <1>5, <2>3, <2>4 DEF ReadRows
<1>6. CASE Still
  <2>1. /\ Saved' = Saved
        /\ \A w \in Works : /\ works'[w].sequence = works[w].sequence
                            /\ works'[w].again <=> works[w].again
    BY <1>6 DEF Still, Saved
  <2>2. \A w \in Saved : Displaced(w)' <=> Displaced(w)
    BY <1>2, <2>1 DEF Displaced
  <2>3. QED
    BY <1>2, <1>6, <2>1, <2>2 DEF Still, Placed, ReaderHasAll
<1>7. QED
  BY <1>1, <1>3, <1>4, <1>5, <1>6 DEF Walk

-----------------------------------------------------------------------------
(* The theorems *)

IInv ==
    /\ TypeOK /\ Cursors /\ Judged /\ Stops /\ Kept /\ OpenHasTask
    /\ Completed /\ Claimed /\ Walked /\ Placed

\* The invariant holds of a submitted job.
LEMMA IInvInit == Init => IInv
<1> SUFFICES ASSUME Init PROVE IInv
  OBVIOUS
<1>1. TypeOK
  BY InitType
<1>2. Saved = {}
  BY DEF Init, Saved, Absent
<1>3. Cursors
  BY Sizes DEF Init, Cursors, Launched, AtRest
<1>4. Judged /\ Stops /\ Kept /\ OpenHasTask /\ Completed
  BY DEF Init, Judged, Stops, Kept, OpenHasTask, Completed, Launched, AtRest, Open
<1>5. Claimed
  BY DEF Init, Claimed, IdleWorkers
<1>6. Walked
  <2>1. \A i \in DOMAIN PageWorks : i \in Nat /\ i > 0
    BY AuthorAssumption
  <2>2. job.cursor = 0 /\ disc = "done"
    BY DEF Init
  <2>3. \A i \in DOMAIN PageWorks : ~Passed(i)
    BY <1>2, <2>1, <2>2 DEF Passed
  <2>4. QED
    BY <1>2, <2>3 DEF Walked, CheckpointWhole
<1>7. Placed
  BY <1>2 DEF Init, Placed, ReaderHasAll, NoReader
<1>8. QED
  BY <1>1, <1>3, <1>4, <1>5, <1>6, <1>7 DEF IInv

\* Every step keeps the invariant.
LEMMA IInvStep == IInv /\ [Next]_vars => IInv'
<1> SUFFICES ASSUME IInv, [Next]_vars PROVE IInv'
  OBVIOUS
<1> USE DEF IInv
<1>1. TypeOK'
  BY TypeStep
<1>2. Cursors' /\ Judged' /\ Stops'
  BY CursorsStep, JudgedStep, StopsStep
<1>3. Kept' /\ OpenHasTask' /\ Completed' /\ Claimed'
  BY WorksKeptStep, OpenHasTaskStep, CompletedStep, ClaimedStep
<1>4. Walked' /\ Placed'
  BY <1>1, WalkedStep, PlacedStep
<1>5. QED
  BY <1>1, <1>2, <1>3, <1>4

\* The invariant holds of every reachable state of a job.
LEMMA Invariant == Spec => []IInv
BY IInvInit, IInvStep, PTL DEF Spec

\* A work that is neither absent, unfinished nor failed is complete.
LEMMA DoneIsComplete ==
    ASSUME IInv
    PROVE  CompletedMeansAll
<1> SUFFICES ASSUME job.status = "completed"
             PROVE  /\ \A w \in Saved : works[w].state = "complete"
                    /\ \A i \in DOMAIN PageWorks : \E page \in PageWorks[i] :
                         \A n \in DOMAIN page : works[page[n]].state = "complete"
  BY DEF CompletedMeansAll
<1>1. AllDone
  BY DEF IInv, Completed
<1>2. ASSUME NEW w \in Saved PROVE works[w].state = "complete"
  <2>1. works[w].state \in {"absent", "pending", "running", "complete", "failed"}
    BY DEF IInv, TypeOK, Work, Saved
  <2>2. QED
    BY <1>1, <2>1 DEF AllDone, Unfinished, In, Saved
<1>3. ASSUME NEW i \in DOMAIN PageWorks PROVE PageSaved(i)
  <2>1. i <= job.cursor
    BY <1>1, AuthorAssumption DEF AllDone, IInv, Cursors
  <2>2. QED
    BY <2>1 DEF IInv, Walked, Passed
<1>4. QED
  BY <1>2, <1>3 DEF PageSaved

\* Every reachable state of the author job is of the declared types.
THEOREM TypeCorrect == Spec => []TypeOK
<1>1. IInv => TypeOK
  BY DEF IInv
<1>2. QED
  BY <1>1, Invariant, PTL

\* A completed job has every saved work, and for each page all of a list it has
\* shown, with the details, whatever was cancelled, lost or resumed on the way.
THEOREM CompletedIsWhole == Spec => []CompletedMeansAll
<1>1. IInv => CompletedMeansAll
  BY DoneIsComplete
<1>2. QED
  BY <1>1, Invariant, PTL

\* A reader has every saved work up to its cursor, whatever is saved meanwhile,
\* but for the works of a page saved again that share their places.
THEOREM ReaderComplete == Spec => []ReaderHasAll
<1>1. IInv => ReaderHasAll
  BY DEF IInv, Placed
<1>2. QED
  BY <1>1, Invariant, PTL

\* Only a crash or an error of the storage leaves a page without its cursor.
THEOREM CheckpointsWhole == Spec => []CheckpointWhole
<1>1. IInv => CheckpointWhole
  BY DEF IInv, Walked
<1>2. QED
  BY <1>1, Invariant, PTL

\* The results of a job do not expire while it works on them.
THEOREM ResultsKept == Spec => []WorksKept
<1>1. IInv => WorksKept
  BY DEF IInv, Kept, WorksKept
<1>2. QED
  BY <1>1, Invariant, PTL

\* An open job has a task or a request that deals with it, unless the write of
\* its end failed twice.
THEOREM OpenIsTaken == Spec => []OpenHasTask
<1>1. IInv => OpenHasTask
  BY DEF IInv
<1>2. QED
  BY <1>1, Invariant, PTL

\* Nothing of a cancelled job changes until it is resumed.
THEOREM CancelledRests == Spec => CancelledIsStopped
<1>1. IInv /\ [Next]_vars =>
        [job.status = "cancelled" /\ control = "free" => UNCHANGED data]_vars
  BY CancelledStep DEF IInv
<1>2. QED
  BY <1>1, Invariant, PTL DEF Spec, CancelledIsStopped
=============================================================================
