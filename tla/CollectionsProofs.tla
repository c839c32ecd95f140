------------------------- MODULE CollectionsProofs -------------------------
(***************************************************************************)
(* For any number of callers, keys and platforms, and any limits: whoever   *)
(* leaves a collection, in whatever order, the last one and only the last  *)
(* one takes it along; nobody who slept for an older opening of a circuit  *)
(* removes the one in force; the semaphores bound what runs upstream,      *)
(* though places are reserved, handed on and kept over cancellations; and  *)
(* those who wait for each other never do so in a circle.                  *)
(***************************************************************************)
EXTENDS Collections, FiniteSetTheorems, TLAPS

Waiting(tk) == {c \in Callers : Awaits(c, tk)}

Caller == [pc : CallerPlaces, key : Keys \union {Idle.key}, reaps : TaskPlaces, reserved : BOOLEAN]
Task == [pc : TaskPlaces, n : Nat, reserved : BOOLEAN, protocol : Results \union {NoResult}]

Shape ==
    /\ caller \in [Callers -> Caller]
    /\ task \in [TaskKeys -> Task]
    /\ waiters \in [TaskKeys -> Nat]

\* Whoever is under way has asked for something.
Named == \A c \in Callers : caller[c].pc # "idle" => caller[c].key \in Keys

IInv == Shape /\ Named /\ WaitersCounted

\* Those who await a task are finitely many.
LEMMA WaitingFinite ==
  ASSUME NEW tk
  PROVE  IsFiniteSet(Waiting(tk)) /\ Cardinality(Waiting(tk)) \in Nat
<1>1. Waiting(tk) \subseteq Callers /\ IsFiniteSet(Callers)
  BY CollectionsAssumption DEF Waiting
<1>2. QED
  BY <1>1, FS_Subset, FS_CardinalityType

\* The counts, written with the set of those who await.
LEMMA CountedByWaiting ==
  WaitersCounted <=> \A tk \in TaskKeys : /\ waiters[tk] = Cardinality(Waiting(tk))
                                          /\ task[tk].pc # "none" <=> Waiting(tk) # {}
BY Zenon DEF WaitersCounted, Waiting

LEMMA CountedByWaitingNext ==
  WaitersCounted' <=> \A tk \in TaskKeys : /\ waiters'[tk] = Cardinality(Waiting(tk)')
                                           /\ task'[tk].pc # "none" <=> Waiting(tk)' # {}
BY Zenon DEF WaitersCounted, Waiting, TaskKeys

LEMMA IdleShape == Idle \in Caller /\ Idle.pc = "idle" /\ Idle.reserved = FALSE /\ Idle.reaps = "none"
BY DEF Idle, Caller, CallerPlaces, TaskPlaces

LEMMA NoTaskShape == NoTask \in Task /\ NoTask.pc = "none"
BY DEF NoTask, Task, TaskPlaces

\* Whoever awaits, awaits the task of a key.
LEMMA AwaitedKey ==
  ASSUME IInv, NEW c \in Callers, caller[c].pc = "await"
  PROVE  /\ caller[c].key \in Keys
         /\ TaskKey(c, caller[c].key) \in TaskKeys
         /\ c \in Waiting(TaskKey(c, caller[c].key))
<1>1. caller[c].key \in Keys
  BY SMT DEF IInv, Named
<1>2. (c \in Batch) \in BOOLEAN
  OBVIOUS
<1>3. TaskKey(c, caller[c].key) \in TaskKeys
  BY <1>1, <1>2, Zenon DEF TaskKey, TaskKeys
<1>4. QED
  BY <1>1, <1>3 DEF Waiting, Awaits

-----------------------------------------------------------------------------
(* Moves of one caller *)

\* A caller is given a place and what it asks for.
LEMMA Placed ==
  ASSUME IInv, NEW c \in Callers, NEW k \in Keys,
         NEW place \in CallerPlaces \ {"idle"}, Place(c, k, place)
  PROVE  /\ caller' \in [Callers -> Caller] /\ Named'
         /\ caller'[c].pc = place /\ caller'[c].key = k
         /\ \A d \in Callers \ {c} : caller'[d] = caller[d]
<1>1. [Idle EXCEPT !.pc = place, !.key = k] \in Caller
  BY IdleShape DEF Caller
<1>2. /\ [Idle EXCEPT !.pc = place, !.key = k].pc = place
      /\ [Idle EXCEPT !.pc = place, !.key = k].key = k
  BY IdleShape DEF Caller
<1>3. /\ caller' \in [Callers -> Caller]
      /\ caller'[c] = [Idle EXCEPT !.pc = place, !.key = k]
      /\ \A d \in Callers \ {c} : caller'[d] = caller[d]
  BY <1>1 DEF IInv, Shape, Place
<1>4. Named'
  BY <1>2, <1>3 DEF IInv, Named
<1>5. QED
  BY <1>2, <1>3, <1>4

\* A caller goes away.
LEMMA Returned ==
  ASSUME IInv, NEW c \in Callers, Return(c)
  PROVE  /\ caller' \in [Callers -> Caller] /\ Named'
         /\ caller'[c].pc = "idle"
         /\ \A d \in Callers \ {c} : caller'[d] = caller[d]
<1>1. /\ caller' \in [Callers -> Caller]
      /\ caller'[c] = Idle
      /\ \A d \in Callers \ {c} : caller'[d] = caller[d]
  BY IdleShape DEF IInv, Shape, Return
<1>2. Named'
  BY <1>1, IdleShape DEF IInv, Named
<1>3. QED
  BY <1>1, <1>2, IdleShape

-----------------------------------------------------------------------------
(* Steps after which everybody awaits what they did before *)

LEMMA SameWaiters ==
  ASSUME IInv, waiters' = waiters,
         \A tk \in TaskKeys : task'[tk].pc = "none" <=> task[tk].pc = "none",
         \A tk \in TaskKeys : Waiting(tk)' = Waiting(tk)
  PROVE  WaitersCounted'
BY CountedByWaiting, CountedByWaitingNext DEF IInv

\* A caller moves that awaits nothing, before and after.
LEMMA QuietCaller ==
  ASSUME IInv, NEW c \in Callers, caller[c].pc # "await", caller'[c].pc # "await",
         \A d \in Callers \ {c} : caller'[d] = caller[d],
         task' = task, waiters' = waiters
  PROVE  WaitersCounted'
<1>1. ASSUME NEW tk \in TaskKeys PROVE Waiting(tk)' = Waiting(tk)
  BY DEF Waiting, Awaits, TaskKey
<1>2. QED
  BY <1>1, SameWaiters

\* A task moves on, and is there before and after.
LEMMA QuietTask ==
  ASSUME IInv, NEW tk \in TaskKeys, task[tk].pc # "none", task'[tk].pc # "none",
         \A other \in TaskKeys \ {tk} : task'[other] = task[other],
         caller' = caller, waiters' = waiters
  PROVE  WaitersCounted'
<1>1. ASSUME NEW other \in TaskKeys PROVE Waiting(other)' = Waiting(other)
  BY DEF Waiting, Awaits, TaskKey
<1>2. \A other \in TaskKeys : task'[other].pc = "none" <=> task[other].pc = "none"
  OBVIOUS
<1>3. QED
  BY <1>1, <1>2, SameWaiters

-----------------------------------------------------------------------------
(* Who joins, who leaves, and a task that ends *)

\* A new task is a task, and is there.
LEMMA NewTaskShape ==
  ASSUME NEW c
  PROVE  NewTask(c) \in Task /\ NewTask(c).pc # "none"
<1>1. (c \in Batch) \in BOOLEAN
  OBVIOUS
<1>2. QED
  BY <1>1, NoTaskShape DEF NewTask, Task, TaskPlaces, Inside

\* Whoever joins is one more, and finds a task.
LEMMA JoinCounts ==
  ASSUME IInv, NEW c \in Callers, NEW k \in Keys, caller[c].pc # "await", Join(c, k)
  PROVE  IInv'
<1> DEFINE tk == TaskKey(c, k)
<1>1. tk \in TaskKeys
  <2>1. (c \in Batch) \in BOOLEAN
    OBVIOUS
  <2>2. QED
    BY <2>1, Zenon DEF TaskKey, TaskKeys
<1>2. /\ caller' \in [Callers -> Caller] /\ Named'
      /\ caller'[c].pc = "await" /\ caller'[c].key = k
      /\ \A d \in Callers \ {c} : caller'[d] = caller[d]
  BY Placed DEF Join, CallerPlaces
<1>3. /\ task' \in [TaskKeys -> Task] /\ task'[tk].pc # "none"
      /\ \A other \in TaskKeys \ {tk} : task'[other] = task[other]
  BY <1>1, NewTaskShape DEF IInv, Shape, Join
<1>4. /\ waiters' \in [TaskKeys -> Nat] /\ waiters'[tk] = waiters[tk] + 1
      /\ \A other \in TaskKeys \ {tk} : waiters'[other] = waiters[other]
  BY <1>1 DEF IInv, Shape, Join
<1>5. Waiting(tk)' = Waiting(tk) \union {c} /\ c \notin Waiting(tk)
  BY <1>2 DEF Waiting, Awaits, TaskKey
<1>6. \A other \in TaskKeys \ {tk} : Waiting(other)' = Waiting(other)
  BY <1>2 DEF Waiting, Awaits, TaskKey
<1>7. Cardinality(Waiting(tk)') = Cardinality(Waiting(tk)) + 1
  BY <1>5, WaitingFinite, FS_AddElement
<1>8. ASSUME NEW other \in TaskKeys
      PROVE  /\ waiters'[other] = Cardinality(Waiting(other)')
             /\ task'[other].pc # "none" <=> Waiting(other)' # {}
  <2>1. CASE other = tk
    BY <1>1, <1>3, <1>4, <1>5, <1>7, <2>1, CountedByWaiting DEF IInv
  <2>2. CASE other # tk
    BY <1>3, <1>4, <1>6, <2>2, CountedByWaiting DEF IInv
  <2>3. QED
    BY <2>1, <2>2
<1>9. WaitersCounted'
  BY <1>8, CountedByWaitingNext
<1>10. QED
  BY <1>2, <1>3, <1>4, <1>9 DEF IInv, Shape

\* Whoever leaves others behind is one less.
LEMMA LeaveCounts ==
  ASSUME IInv, NEW c \in Callers, NEW tk \in TaskKeys, Awaits(c, tk), Leave(c, tk)
  PROVE  IInv'
<1>1. c \in Waiting(tk)
  BY DEF Waiting
<1>2. /\ caller' \in [Callers -> Caller] /\ Named'
      /\ caller'[c].pc = "idle"
      /\ \A d \in Callers \ {c} : caller'[d] = caller[d]
  BY Returned DEF Leave
<1>3. /\ waiters[tk] > 1 /\ waiters[tk] = Cardinality(Waiting(tk))
      /\ task[tk].pc # "none"
  BY <1>1, CountedByWaiting DEF IInv, Leave
<1>4. /\ waiters' \in [TaskKeys -> Nat] /\ waiters'[tk] = waiters[tk] - 1
      /\ \A other \in TaskKeys \ {tk} : waiters'[other] = waiters[other]
  BY <1>1, <1>3 DEF IInv, Shape, Leave
<1>5. Waiting(tk)' = Waiting(tk) \ {c}
  BY <1>2 DEF Waiting, Awaits, TaskKey
<1>6. \A other \in TaskKeys \ {tk} : Waiting(other)' = Waiting(other)
  BY <1>2 DEF Waiting, Awaits, TaskKey
<1>7. Cardinality(Waiting(tk) \ {c}) = Cardinality(Waiting(tk)) - 1
  BY <1>1, WaitingFinite, FS_RemoveElement
<1>8. Waiting(tk) \ {c} # {}
  <2>1. Cardinality(Waiting(tk) \ {c}) # 0
    BY <1>3, <1>7, WaitingFinite
  <2>2. QED
    BY <2>1, FS_EmptySet
<1>9. task' = task
  BY DEF Leave
<1>10. ASSUME NEW other \in TaskKeys
       PROVE  /\ waiters'[other] = Cardinality(Waiting(other)')
              /\ task'[other].pc # "none" <=> Waiting(other)' # {}
  <2>1. CASE other = tk
    BY <1>1, <1>3, <1>4, <1>5, <1>7, <1>8, <1>9, <2>1
  <2>2. CASE other # tk
    BY <1>4, <1>6, <1>9, <2>2, CountedByWaiting DEF IInv
  <2>3. QED
    BY <2>1, <2>2
<1>11. WaitersCounted'
  BY <1>10, CountedByWaitingNext
<1>12. QED
  BY <1>2, <1>4, <1>9, <1>11 DEF IInv, Shape

\* A task that ends leaves nobody behind who awaits it.
LEMMA EndedTask ==
  ASSUME IInv, NEW tk \in TaskKeys, Waiting(tk)' = {},
         waiters'[tk] = 0, task'[tk].pc = "none",
         \A other \in TaskKeys \ {tk} : /\ Waiting(other)' = Waiting(other)
                                        /\ waiters'[other] = waiters[other]
                                        /\ task'[other] = task[other]
  PROVE  WaitersCounted'
<1>1. ASSUME NEW other \in TaskKeys
      PROVE  /\ waiters'[other] = Cardinality(Waiting(other)')
             /\ task'[other].pc # "none" <=> Waiting(other)' # {}
  <2>1. CASE other = tk
    BY <2>1, FS_EmptySet
  <2>2. CASE other # tk
    BY <2>2, CountedByWaiting DEF IInv
  <2>3. QED
    BY <2>1, <2>2
<1>2. QED
  BY <1>1, CountedByWaitingNext

\* The last one to leave takes the task along.
LEMMA AbandonCounts ==
  ASSUME IInv, NEW c \in Callers, NEW tk \in TaskKeys, Awaits(c, tk), Abandon(c, tk)
  PROVE  IInv'
<1>1. c \in Waiting(tk) /\ caller[c].key \in Keys
  BY AwaitedKey DEF Waiting, Awaits
<1>2. task[tk].pc \in TaskPlaces /\ task[tk].reserved \in BOOLEAN
  BY DEF IInv, Shape, Task
<1>3. /\ caller' \in [Callers -> Caller]
      /\ caller'[c].pc = "reaping" /\ caller'[c].key = caller[c].key
      /\ \A d \in Callers \ {c} : caller'[d] = caller[d]
  <2> DEFINE r == [caller[c] EXCEPT !.pc = "reaping", !.reaps = task[tk].pc,
                                    !.reserved = task[tk].reserved]
  <2>1. caller[c] \in Caller /\ caller \in [Callers -> Caller]
    BY DEF IInv, Shape
  <2>2. r \in Caller /\ r.pc = "reaping" /\ r.key = caller[c].key
    BY <1>2, <2>1 DEF Caller, CallerPlaces
  <2>3. caller' = [caller EXCEPT ![c] = r]
    BY <2>1 DEF Abandon, Caller
  <2>4. QED
    BY <2>1, <2>2, <2>3
<1>4. Named'
  BY <1>1, <1>3 DEF IInv, Named
<1>5. Waiting(tk) = {c}
  <2>1. Cardinality(Waiting(tk)) <= 1 /\ IsFiniteSet(Waiting(tk))
    BY <1>1, CountedByWaiting, WaitingFinite DEF IInv, Abandon
  <2>2. Cardinality(Waiting(tk) \ {c}) = Cardinality(Waiting(tk)) - 1
    BY <1>1, <2>1, FS_RemoveElement
  <2>3. IsFiniteSet(Waiting(tk) \ {c}) /\ Cardinality(Waiting(tk) \ {c}) \in Nat
    BY <2>1, FS_Subset, FS_CardinalityType
  <2>4. Waiting(tk) \ {c} = {}
    BY <2>1, <2>2, <2>3, WaitingFinite, FS_EmptySet
  <2>5. QED
    BY <1>1, <2>4
<1>6. Waiting(tk)' = {}
  BY <1>3, <1>5 DEF Waiting, Awaits, TaskKey
<1>7. \A other \in TaskKeys \ {tk} : Waiting(other)' = Waiting(other)
  BY <1>3 DEF Waiting, Awaits, TaskKey
<1>8. /\ waiters' \in [TaskKeys -> Nat] /\ waiters'[tk] = 0
      /\ \A other \in TaskKeys \ {tk} : waiters'[other] = waiters[other]
  BY <1>1 DEF IInv, Shape, Abandon
<1>9. /\ task' \in [TaskKeys -> Task] /\ task'[tk].pc = "none"
      /\ \A other \in TaskKeys \ {tk} : task'[other] = task[other]
  BY <1>1, NoTaskShape DEF IInv, Shape, Abandon
<1>10. WaitersCounted'
  BY <1>1, <1>6, <1>7, <1>8, <1>9, EndedTask
<1>11. QED
  BY <1>3, <1>4, <1>8, <1>9, <1>10 DEF IInv, Shape

\* A task that has ended answers all who await it.
LEMMA AnswerCounts ==
  ASSUME IInv, NEW tk \in TaskKeys, Answer(tk)
  PROVE  IInv'
<1>1. \A c \in Callers : caller'[c] = IF Awaits(c, tk) THEN Idle ELSE caller[c]
  BY DEF Answer
<1>2. caller' \in [Callers -> Caller]
  BY IdleShape DEF Answer, IInv, Shape
<1>3. Named'
  BY <1>1, IdleShape DEF IInv, Named
<1>4. Waiting(tk)' = {}
  BY <1>1, IdleShape DEF Waiting, Awaits, TaskKey
<1>5. \A other \in TaskKeys \ {tk} : Waiting(other)' = Waiting(other)
  BY <1>1, IdleShape DEF Waiting, Awaits, TaskKey
<1>6. /\ waiters' \in [TaskKeys -> Nat] /\ waiters'[tk] = 0
      /\ \A other \in TaskKeys \ {tk} : waiters'[other] = waiters[other]
  <2>1. waiters[tk] = Cardinality(Waiting(tk)) /\ waiters[tk] \in Nat
    BY CountedByWaiting DEF IInv, Shape
  <2>2. waiters' = [waiters EXCEPT ![tk] = @ - Cardinality(Waiting(tk))]
    BY Zenon DEF Answer, Waiting
  <2>3. QED
    BY <2>1, <2>2 DEF IInv, Shape
<1>7. /\ task' \in [TaskKeys -> Task] /\ task'[tk].pc = "none"
      /\ \A other \in TaskKeys \ {tk} : task'[other] = task[other]
  BY NoTaskShape DEF IInv, Shape, Answer
<1>8. WaitersCounted'
  BY <1>4, <1>5, <1>6, <1>7, EndedTask
<1>9. QED
  BY <1>2, <1>3, <1>6, <1>7, <1>8 DEF IInv, Shape

-----------------------------------------------------------------------------
(* The actions, those of callers first *)

\* A caller moves that awaits nothing, and its tasks are as they were.
LEMMA MovedCounts ==
  ASSUME IInv, NEW c \in Callers, caller[c].pc # "await",
         NEW k \in Keys, NEW place \in CallerPlaces \ {"idle", "await"},
         Place(c, k, place), task' = task, waiters' = waiters
  PROVE  IInv'
<1>1. /\ caller' \in [Callers -> Caller] /\ Named'
      /\ caller'[c].pc = place
      /\ \A d \in Callers \ {c} : caller'[d] = caller[d]
  BY Placed
<1>2. WaitersCounted'
  BY <1>1, QuietCaller
<1>3. QED
  BY <1>1, <1>2 DEF IInv, Shape

LEMMA ReturnedCounts ==
  ASSUME IInv, NEW c \in Callers, caller[c].pc # "await",
         Return(c), task' = task, waiters' = waiters
  PROVE  IInv'
<1>1. /\ caller' \in [Callers -> Caller] /\ Named'
      /\ caller'[c].pc = "idle"
      /\ \A d \in Callers \ {c} : caller'[d] = caller[d]
  BY Returned
<1>2. WaitersCounted'
  BY <1>1, QuietCaller
<1>3. QED
  BY <1>1, <1>2 DEF IInv, Shape

LEMMA RequestCounts ==
  ASSUME IInv, NEW c \in Callers, NEW k \in Keys, caller[c].pc # "await",
         Hit(c, k) \/ Join(c, k)
  PROVE  IInv'
<1>1. CASE Hit(c, k)
  BY <1>1, ReturnedCounts DEF Hit
<1>2. CASE Join(c, k)
  BY <1>2, JoinCounts
<1>3. QED
  BY <1>1, <1>2

LEMMA StartCounts ==
  ASSUME IInv, NEW c \in Callers, NEW k \in Keys, Request(c, k) \/ StartItem(c, k)
  PROVE  IInv'
<1>1. CASE Request(c, k)
  BY <1>1, RequestCounts DEF Request
<1>2. CASE StartReady(c, k)
  BY <1>2, MovedCounts DEF StartReady, CallerPlaces
<1>3. CASE StartCooling(c, k)
  BY <1>3, MovedCounts DEF StartCooling, CallerPlaces
<1>4. QED
  BY <1>1, <1>2, <1>3 DEF StartItem

LEMMA AdvanceCounts ==
  ASSUME IInv, NEW c \in Callers, Advance(c)
  PROVE  IInv'
<1>1. caller[c].pc # "idle" => caller[c].key \in Keys
  BY DEF IInv, Named
<1>2. CASE Wake(c)
  BY <1>1, <1>2, MovedCounts DEF Wake, CallerPlaces
<1>3. CASE ReservePlatform(c)
  BY <1>1, <1>3, MovedCounts DEF ReservePlatform, CallerPlaces
<1>4. CASE CollectItem(c)
  BY <1>1, <1>4, RequestCounts DEF CollectItem
<1>5. CASE Reaped(c)
  BY <1>5, ReturnedCounts DEF Reaped
<1>6. QED
  BY <1>2, <1>3, <1>4, <1>5 DEF Advance

LEMMA CancelCounts ==
  ASSUME IInv, NEW c \in Callers, Cancel(c)
  PROVE  IInv'
<1>1. CASE CancelEarly(c)
  BY <1>1, ReturnedCounts DEF CancelEarly
<1>2. CASE CancelAwait(c)
  <2>1. PICK tk \in TaskKeys : Awaits(c, tk) /\ tk = TaskKey(c, caller[c].key)
    BY <1>2, AwaitedKey DEF CancelAwait, Waiting
  <2>2. Leave(c, tk) \/ Abandon(c, tk)
    BY <1>2, <2>1 DEF CancelAwait
  <2>3. QED
    BY <2>1, <2>2, LeaveCounts, AbandonCounts
<1>3. QED
  BY <1>1, <1>2 DEF Cancel

-----------------------------------------------------------------------------
(* The actions of tasks *)

\* A task changes its place, its attempt and what it keeps, and is there.
LEMMA TaskCounts ==
  ASSUME IInv, NEW tk \in TaskKeys, task[tk].pc # "none",
         NEW t \in Task, t.pc # "none", task' = [task EXCEPT ![tk] = t],
         caller' = caller, waiters' = waiters
  PROVE  IInv'
<1>1. /\ task' \in [TaskKeys -> Task] /\ task'[tk].pc # "none"
      /\ \A other \in TaskKeys \ {tk} : task'[other] = task[other]
  BY DEF IInv, Shape
<1>2. WaitersCounted'
  BY <1>1, QuietTask
<1>3. Named'
  BY DEF IInv, Named
<1>4. QED
  BY <1>1, <1>2, <1>3 DEF IInv, Shape

\* It moves to a place, ...
LEMMA MoveCounts ==
  ASSUME IInv, NEW tk \in TaskKeys, task[tk].pc # "none",
         NEW place \in TaskPlaces \ {"none"}, Move(tk, place),
         caller' = caller, waiters' = waiters
  PROVE  IInv'
<1> DEFINE t == [task[tk] EXCEPT !.pc = place]
<1>1. t \in Task /\ t.pc # "none"
  BY DEF IInv, Shape, Task
<1>2. task' = [task EXCEPT ![tk] = t]
  BY DEF Move
<1>3. QED
  BY <1>1, <1>2, TaskCounts

\* ... begins its attempts, ...
LEMMA BegunCounts ==
  ASSUME IInv, NEW tk \in TaskKeys, task[tk].pc # "none", task' = Begun(tk),
         caller' = caller, waiters' = waiters
  PROVE  IInv'
<1> DEFINE t == [task[tk] EXCEPT !.pc = "protocol", !.n = 1]
<1>1. t \in Task /\ t.pc # "none"
  BY DEF IInv, Shape, Task, TaskPlaces, Inside
<1>2. task' = [task EXCEPT ![tk] = t]
  BY DEF Begun, IInv, Shape, Task
<1>3. QED
  BY <1>1, <1>2, TaskCounts

\* ... goes on to the next one, ...
LEMMA NextAttemptCounts ==
  ASSUME IInv, NEW tk \in TaskKeys, task[tk].pc # "none",
         task' = [task EXCEPT ![tk].n = @ + 1],
         caller' = caller, waiters' = waiters
  PROVE  IInv'
<1> DEFINE t == [task[tk] EXCEPT !.n = @ + 1]
<1>1. t \in Task /\ t.pc # "none"
  BY DEF IInv, Shape, Task
<1>2. task' = [task EXCEPT ![tk] = t]
  OBVIOUS
<1>3. QED
  BY <1>1, <1>2, TaskCounts

\* ... or to the browser.
LEMMA TryBrowserCounts ==
  ASSUME IInv, NEW tk \in TaskKeys, task[tk].pc # "none",
         NEW r \in Results, TryBrowser(tk, r)
  PROVE  IInv'
<1> DEFINE kept == IF r.enrich THEN r ELSE NoResult
           t == [task[tk] EXCEPT !.pc = "browser", !.n = 1, !.protocol = kept]
<1>1. t \in Task /\ t.pc # "none"
  BY DEF IInv, Shape, Task, TaskPlaces, Inside
<1>2. task' = [task EXCEPT ![tk] = t]
  BY DEF TryBrowser, IInv, Shape, Task
<1>3. QED
  BY <1>1, <1>2, TaskCounts DEF TryBrowser

LEMMA CollectCounts ==
  ASSUME IInv, NEW tk \in TaskKeys, Collect(tk)
  PROVE  IInv'
<1>1. CASE TakePlatform(tk)
  BY <1>1, MoveCounts DEF TakePlatform, TaskPlaces
<1>2. CASE TakeGlobal(tk)
  BY <1>2, MoveCounts DEF TakeGlobal, TaskPlaces, Inside
<1>3. CASE Enter(tk)
  BY <1>3, BegunCounts DEF Enter
<1>4. CASE EnterCooling(tk)
  BY <1>4, MoveCounts DEF EnterCooling, TaskPlaces, Inside
<1>5. CASE WakeTask(tk)
  BY <1>5, BegunCounts DEF WakeTask
<1>6. CASE Protocol(tk)
  <2>1. PICK r \in Results : Retry(tk, r) \/ TryBrowser(tk, r) \/ Settle(tk, r)
    BY <1>6 DEF Protocol
  <2>2. CASE Retry(tk, r)
    BY <1>6, <2>2, NextAttemptCounts DEF Protocol, Retry
  <2>3. CASE TryBrowser(tk, r)
    BY <1>6, <2>3, TryBrowserCounts DEF Protocol
  <2>4. CASE Settle(tk, r)
    BY <2>4, AnswerCounts DEF Settle, Finish
  <2>5. QED
    BY <2>1, <2>2, <2>3, <2>4
<1>7. CASE Raise(tk)
  BY <1>7, AnswerCounts DEF Raise
<1>8. CASE Browse(tk)
  <2>1. CASE BrowserRetry(tk)
    BY <1>8, <2>1, NextAttemptCounts DEF Browse, BrowserRetry
  <2>2. CASE BrowserSettle(tk)
    BY <2>2, AnswerCounts DEF BrowserSettle, Finish
  <2>3. CASE BrowserTimeout(tk)
    BY <2>3, AnswerCounts DEF BrowserTimeout, Finish
  <2>4. QED
    BY <1>8, <2>1, <2>2, <2>3 DEF Browse
<1>9. QED
  BY <1>1, <1>2, <1>3, <1>4, <1>5, <1>6, <1>7, <1>8 DEF Collect

-----------------------------------------------------------------------------
(* The counts hold in every state *)

LEMMA StillCounts ==
  ASSUME IInv, UNCHANGED <<caller, task, waiters>>
  PROVE  IInv'
<1>1. \A tk \in TaskKeys : Waiting(tk)' = Waiting(tk)
  BY DEF Waiting, Awaits, TaskKey
<1>2. WaitersCounted'
  BY <1>1, SameWaiters
<1>3. QED
  BY <1>2 DEF IInv, Shape, Named

LEMMA InitCounts == Init => IInv
<1> SUFFICES ASSUME Init PROVE IInv
  OBVIOUS
<1>1. Shape
  BY IdleShape, NoTaskShape DEF Init, Shape
<1>2. Named
  BY IdleShape DEF Init, Named
<1>3. \A tk \in TaskKeys : Waiting(tk) = {}
  BY IdleShape DEF Init, Waiting, Awaits
<1>4. \A tk \in TaskKeys : waiters[tk] = 0 /\ task[tk].pc = "none"
  BY NoTaskShape DEF Init
<1>5. WaitersCounted
  BY <1>3, <1>4, CountedByWaiting, FS_EmptySet
<1>6. QED
  BY <1>1, <1>2, <1>5 DEF IInv

LEMMA NextCounts == IInv /\ [Next]_vars => IInv'
<1> SUFFICES ASSUME IInv, [Next]_vars PROVE IInv'
  OBVIOUS
<1>1. CASE Progress
  <2>1. ASSUME NEW p \in Platforms, Elapse(p) PROVE IInv'
    BY <2>1, StillCounts DEF Elapse
  <2>2. QED
    BY <1>1, <2>1, AdvanceCounts, CollectCounts DEF Progress
<1>2. ASSUME NEW c \in Callers, NEW k \in Keys, Request(c, k) \/ StartItem(c, k)
      PROVE  IInv'
  BY <1>2, StartCounts
<1>3. ASSUME NEW c \in Callers, Cancel(c) PROVE IInv'
  BY <1>3, CancelCounts
<1>4. ASSUME NEW k \in Keys, Age(k) PROVE IInv'
  BY <1>4, StillCounts DEF Age
<1>5. CASE UNCHANGED vars
  BY <1>5, StillCounts DEF vars
<1>6. QED
  BY <1>1, <1>2, <1>3, <1>4, <1>5 DEF Next

\* Whatever callers come, share, are cancelled or answered, in any order: the
\* count of a collection is the number of those who await it, and the
\* collection is there exactly as long as there are any (_fetch_cached).
THEOREM Counted == Spec => []WaitersCounted
<1>1. Spec => []IInv
  BY InitCounts, NextCounts, PTL DEF Spec
<1>2. IInv => WaitersCounted
  BY DEF IInv
<1>3. QED
  BY <1>1, <1>2, PTL

-----------------------------------------------------------------------------
(* The circuits *)

\* Nobody sleeps for a circuit that is closed.
Circuit == {x \in [fails : Nat, opening : {"closed", "open", "elapsed"},
                   sleepers : SUBSET (Callers \union TaskKeys)] :
               x.opening = "closed" => x.sleepers = {}}

Circuits == circuit \in [Platforms -> Circuit]

\* What a step does to the circuits: one that was in force is closed only by a
\* task that ends.
Honours ==
    \A p \in Platforms :
      InForce(circuit[p]) /\ circuit'[p].opening = "closed" =>
        \E tk \in TasksAt(p, {"protocol", "browser"}) : task'[tk].pc = "none"

LEMMA HonouredByHonours == CooldownHonoured <=> [][Honours]_vars
BY DEF CooldownHonoured, Honours

\* The step concerns one platform, and does not close its circuit in force.
LEMMA OneCircuit ==
  ASSUME Circuits, NEW q \in Platforms, NEW x \in Circuit,
         circuit' = [circuit EXCEPT ![q] = x],
         InForce(circuit[q]) => x.opening # "closed"
  PROVE  Circuits' /\ Honours
<1>1. Circuits' /\ circuit'[q] = x /\ \A p \in Platforms \ {q} : circuit'[p] = circuit[p]
  BY DEF Circuits
<1>2. QED
  BY <1>1 DEF Honours, InForce

LEMMA SameCircuits ==
  ASSUME Circuits, circuit' = circuit
  PROVE  Circuits' /\ Honours
BY DEF Circuits, Honours, InForce

\* What callers and tasks do to the circuit of a platform on their way.
LEMMA OnTheWay ==
  ASSUME NEW x \in Circuit, NEW a \in Callers \union TaskKeys
  PROVE  /\ InForce(x) => Asleep(x, a) \in Circuit /\ Asleep(x, a).opening = x.opening
         /\ Gone(x, a) \in Circuit /\ Gone(x, a).opening = x.opening
         /\ Passed(x) \in Circuit
         /\ Woken(x, a) \in Circuit
         /\ a \notin x.sleepers => Woken(x, a) = x
BY DEF Circuit, Asleep, Gone, Passed, Woken, InForce

\* An opening removes itself when it has elapsed, a sleeper its own one only.
LEMMA AwakeCircuit ==
  ASSUME Circuits, NEW q \in Platforms, NEW a \in Callers \union TaskKeys, MayWake(a, q),
         circuit' = [circuit EXCEPT ![q] = Woken(@, a)]
  PROVE  Circuits' /\ Honours
<1>1. circuit[q] \in Circuit /\ circuit' = [circuit EXCEPT ![q] = Woken(circuit[q], a)]
  BY DEF Circuits
<1>2. InForce(circuit[q]) => a \notin circuit[q].sleepers
  BY DEF MayWake, InForce
<1>3. InForce(circuit[q]) => Woken(circuit[q], a).opening # "closed"
  BY <1>1, <1>2, OnTheWay DEF InForce
<1>4. QED
  BY <1>1, <1>3, OnTheWay, OneCircuit

LEMMA PassedCircuit ==
  ASSUME Circuits, NEW q \in Platforms, ~InForce(circuit[q]),
         circuit' = [circuit EXCEPT ![q] = Passed(@)]
  PROVE  Circuits' /\ Honours
<1>1. Passed(circuit[q]) \in Circuit /\ circuit' = [circuit EXCEPT ![q] = Passed(circuit[q])]
  BY DEF Circuits, Passed, Circuit
<1>2. QED
  BY <1>1, OneCircuit

LEMMA AsleepCircuit ==
  ASSUME Circuits, NEW q \in Platforms, NEW a \in Callers \union TaskKeys,
         \/ InForce(circuit[q]) /\ circuit' = [circuit EXCEPT ![q] = Asleep(@, a)]
         \/ circuit' = [circuit EXCEPT ![q] = Gone(@, a)]
  PROVE  Circuits' /\ Honours
<1>1. circuit[q] \in Circuit
  BY DEF Circuits
<1>2. \/ InForce(circuit[q]) /\ circuit' = [circuit EXCEPT ![q] = Asleep(circuit[q], a)]
      \/ circuit' = [circuit EXCEPT ![q] = Gone(circuit[q], a)]
  OBVIOUS
<1>3. QED
  BY <1>1, <1>2, OnTheWay, OneCircuit DEF InForce

\* The outcome of a collection, which ends.
LEMMA FinishedCircuit ==
  ASSUME IInv, Circuits, NEW tk \in TaskKeys, NEW r,
         task[tk].pc \in {"protocol", "browser"}, Finish(tk, r)
  PROVE  Circuits' /\ Honours
<1> DEFINE q == PlatformOf[tk[1]]
           x == Recorded(circuit[q], r)
<1>1. q \in Platforms
  BY CollectionsAssumption DEF TaskKeys
<1>2. circuit[q] \in Circuit
  BY <1>1 DEF Circuits
<1>3. x \in Circuit
  BY <1>2, CrawlerAssumption DEF Circuit, Recorded, ClosedCircuit
<1>4. circuit' = [circuit EXCEPT ![q] = x]
  BY DEF Finish, Collects
<1>5. Circuits' /\ \A p \in Platforms \ {q} : circuit'[p] = circuit[p]
  BY <1>1, <1>3, <1>4 DEF Circuits
<1>6. task'[tk].pc = "none"
  BY NoTaskShape DEF Finish, Answer, IInv, Shape
<1>7. tk \in TasksAt(q, {"protocol", "browser"})
  BY DEF TasksAt
<1>8. QED
  BY <1>5, <1>6, <1>7 DEF Honours, InForce

-----------------------------------------------------------------------------
(* The actions, and the circuits *)

LEMMA AskedPlatform ==
  ASSUME IInv, NEW c \in Callers, caller[c].pc # "idle"
  PROVE  Asked(c) \in Platforms
<1>1. caller[c].key \in Keys
  BY DEF IInv, Named
<1>2. QED
  BY <1>1, CollectionsAssumption DEF Asked

LEMMA RequestCircuit ==
  ASSUME Circuits, NEW c, NEW k, Hit(c, k) \/ Join(c, k)
  PROVE  Circuits' /\ Honours
BY SameCircuits DEF Hit, Join

LEMMA StartCircuit ==
  ASSUME Circuits, NEW c \in Callers, NEW k \in Keys, Request(c, k) \/ StartItem(c, k)
  PROVE  Circuits' /\ Honours
<1>1. PlatformOf[k] \in Platforms
  BY CollectionsAssumption
<1>2. CASE Request(c, k)
  BY <1>2, RequestCircuit DEF Request
<1>3. CASE StartReady(c, k)
  BY <1>1, <1>3, PassedCircuit DEF StartReady
<1>4. CASE StartCooling(c, k)
  BY <1>1, <1>4, AsleepCircuit DEF StartCooling
<1>5. QED
  BY <1>2, <1>3, <1>4 DEF StartItem

LEMMA AdvanceCircuit ==
  ASSUME IInv, Circuits, NEW c \in Callers, Advance(c)
  PROVE  Circuits' /\ Honours
<1>1. CASE Wake(c)
  BY <1>1, AskedPlatform, AwakeCircuit DEF Wake
<1>2. CASE ReservePlatform(c) \/ Reaped(c)
  BY <1>2, SameCircuits DEF ReservePlatform, Reaped
<1>3. CASE CollectItem(c)
  BY <1>3, RequestCircuit DEF CollectItem
<1>4. QED
  BY <1>1, <1>2, <1>3 DEF Advance

LEMMA CancelCircuit ==
  ASSUME IInv, Circuits, NEW c \in Callers, Cancel(c)
  PROVE  Circuits' /\ Honours
<1>1. CASE CancelEarly(c)
  BY <1>1, AskedPlatform, AsleepCircuit DEF CancelEarly
<1>2. CASE CancelAwait(c)
  <2>1. PICK tk \in TaskKeys : Leave(c, tk) \/ Abandon(c, tk)
    BY <1>2, AwaitedKey DEF CancelAwait
  <2>2. CASE Leave(c, tk)
    BY <2>2, SameCircuits DEF Leave
  <2>3. CASE Abandon(c, tk)
    <3>1. PlatformOf[tk[1]] \in Platforms
      BY CollectionsAssumption DEF TaskKeys
    <3>2. QED
      BY <2>3, <3>1, AsleepCircuit DEF Abandon
  <2>4. QED
    BY <2>1, <2>2, <2>3
<1>3. QED
  BY <1>1, <1>2 DEF Cancel

LEMMA CollectCircuit ==
  ASSUME IInv, Circuits, NEW tk \in TaskKeys, Collect(tk)
  PROVE  Circuits' /\ Honours
<1>1. Collects(tk) \in Platforms
  BY CollectionsAssumption DEF TaskKeys, Collects
<1>2. CASE TakePlatform(tk) \/ TakeGlobal(tk) \/ Raise(tk)
  BY <1>2, SameCircuits DEF TakePlatform, TakeGlobal, Raise
<1>3. CASE Enter(tk)
  BY <1>1, <1>3, PassedCircuit DEF Enter
<1>4. CASE EnterCooling(tk)
  BY <1>1, <1>4, AsleepCircuit DEF EnterCooling
<1>5. CASE WakeTask(tk)
  BY <1>1, <1>5, AwakeCircuit DEF WakeTask
<1>6. CASE Protocol(tk)
  <2>1. PICK r \in Results : Retry(tk, r) \/ TryBrowser(tk, r) \/ Settle(tk, r)
    BY <1>6 DEF Protocol
  <2>2. CASE Retry(tk, r) \/ TryBrowser(tk, r)
    BY <2>2, SameCircuits DEF Retry, TryBrowser
  <2>3. CASE Settle(tk, r)
    BY <1>6, <2>3, FinishedCircuit DEF Protocol, Settle
  <2>4. QED
    BY <2>1, <2>2, <2>3
<1>7. CASE Browse(tk)
  <2>1. CASE BrowserRetry(tk)
    BY <2>1, SameCircuits DEF BrowserRetry
  <2>2. CASE BrowserSettle(tk) \/ BrowserTimeout(tk)
    <3>1. PICK r : Finish(tk, r)
      BY <2>2 DEF BrowserSettle, BrowserTimeout
    <3>2. QED
      BY <1>7, <3>1, FinishedCircuit DEF Browse
  <2>3. QED
    BY <1>7, <2>1, <2>2 DEF Browse
<1>8. QED
  BY <1>2, <1>3, <1>4, <1>5, <1>6, <1>7 DEF Collect

LEMMA NextCircuit ==
  ASSUME IInv, Circuits, [Next]_vars
  PROVE  Circuits' /\ (Honours \/ UNCHANGED vars)
<1>1. CASE Progress
  <2>1. ASSUME NEW p \in Platforms, Elapse(p) PROVE Circuits' /\ Honours
    <3> DEFINE x == [circuit[p] EXCEPT !.opening = "elapsed"]
    <3>1. x \in Circuit /\ x.opening = "elapsed"
      BY DEF Circuits, Circuit
    <3>2. circuit' = [circuit EXCEPT ![p] = x]
      BY <2>1 DEF Elapse, Circuits, Circuit
    <3>3. QED
      BY <3>1, <3>2, OneCircuit
  <2>2. QED
    BY <1>1, <2>1, AdvanceCircuit, CollectCircuit DEF Progress
<1>2. ASSUME NEW c \in Callers, NEW k \in Keys, Request(c, k) \/ StartItem(c, k)
      PROVE  Circuits' /\ Honours
  BY <1>2, StartCircuit
<1>3. ASSUME NEW c \in Callers, Cancel(c) PROVE Circuits' /\ Honours
  BY <1>3, CancelCircuit
<1>4. ASSUME NEW k \in Keys, Age(k) PROVE Circuits' /\ Honours
  BY <1>4, SameCircuits DEF Age
<1>5. CASE UNCHANGED vars
  BY <1>5 DEF vars, Circuits
<1>6. QED
  BY <1>1, <1>2, <1>3, <1>4, <1>5 DEF Next

\* Whoever wakes, from whatever opening: a circuit in force is closed early
\* only by a collection of its platform that ends (_wait_for_circuit_cooldown,
\* _record_circuit_outcome).
THEOREM Honoured == Spec => CooldownHonoured
<1>1. Init => IInv /\ Circuits
  <2>1. Init => Circuits
    BY DEF Init, Circuits, Circuit, ClosedCircuit
  <2>2. QED
    BY <2>1, InitCounts
<1>2. IInv /\ Circuits /\ [Next]_vars => (IInv /\ Circuits)' /\ [Honours]_vars
  BY NextCounts, NextCircuit
<1>3. Spec => [][Honours]_vars
  BY <1>1, <1>2, PTL DEF Spec
<1>4. QED
  BY <1>3, HonouredByHonours

-----------------------------------------------------------------------------
(* Capacity.  The users of a semaphore, of a platform's or of the          *)
(* service's, over the collections of the keys K: items at one of the      *)
(* places cp, and tasks without reserved capacity at one of the places tp, *)
(* the cancelled ones too that have not ended.                             *)

CallerUses(r, K, cp) == r.key \in K /\ r.pc \in cp
TaskUses(t, tp) == t.pc \in tp /\ ~t.reserved
EndUses(r, K, tp) == r.key \in K /\ r.reaps \in tp /\ ~r.reserved

Users(K, cp, tp) ==
    {c \in Batch : CallerUses(caller[c], K, cp)}
    \union {tk \in TaskKeys : tk[1] \in K /\ TaskUses(task[tk], tp)}
    \union {<<c>> : c \in {d \in Callers : EndUses(caller[d], K, tp)}}

\* The places of the two kinds of semaphores.
Semaphore(K, cp, tp) ==
    /\ K \subseteq Keys
    /\ {"await", "reaping"} \subseteq cp /\ cp \subseteq {"global", "await", "reaping"}
    /\ Inside \subseteq tp /\ tp \subseteq {"global"} \union Inside
    /\ "global" \in cp <=> "global" \in tp

KeysOf(p) == {k \in Keys : PlatformOf[k] = p}

\* The tasks that run in the capacity of an item are those of items, and have
\* never to wait for it.
Reservations ==
    /\ \A tk \in TaskKeys : task[tk].pc # "none" =>
          task[tk].reserved = tk[2] /\ (tk[2] => task[tk].pc \in Inside)
    /\ \A c \in Callers : IF caller[c].pc = "reaping"
                          THEN caller[c].reserved = (c \in Batch)
                          ELSE caller[c].reaps = "none"

LEMMA PlatformUsersAre ==
  ASSUME IInv, Reservations, NEW p \in Platforms
  PROVE  PlatformUsers(p) = Users(KeysOf(p), {"global", "await", "reaping"}, {"global"} \union Inside)
<1> DEFINE tp == {"global"} \union Inside
           cp == {"global", "await", "reaping"}
<1>1. \A c \in Callers : caller[c].pc # "idle" => caller[c].key \in Keys
  BY DEF IInv, Named
<1>2. \A c \in Callers : caller[c].reaps \in tp => caller[c].pc = "reaping"
  BY DEF Reservations, Inside
<1>3. \A c \in Batch : c \in On(p) /\ caller[c].pc \in cp <=> CallerUses(caller[c], KeysOf(p), cp)
  BY <1>1, CollectionsAssumption DEF CallerUses, KeysOf, On
<1>4. \A tk \in TaskKeys : PlatformOf[tk[1]] = p <=> tk[1] \in KeysOf(p)
  BY DEF KeysOf, TaskKeys
<1>5. \A c \in Callers : c \in EndingAt(p, tp) /\ ~caller[c].reserved
                           <=> EndUses(caller[c], KeysOf(p), tp)
  BY <1>1, <1>2 DEF EndUses, KeysOf, EndingAt, On
<1>6. {c \in On(p) \intersect Batch : caller[c].pc \in cp} = {c \in Batch : CallerUses(caller[c], KeysOf(p), cp)}
  BY <1>3, CollectionsAssumption DEF On
<1>7. {tk \in TasksAt(p, tp) : ~task[tk].reserved}
        = {tk \in TaskKeys : tk[1] \in KeysOf(p) /\ TaskUses(task[tk], tp)}
  BY <1>4 DEF TasksAt, TaskUses
<1>8. {c \in EndingAt(p, tp) : ~caller[c].reserved} = {d \in Callers : EndUses(caller[d], KeysOf(p), tp)}
  BY <1>5 DEF EndingAt, On
<1>9. QED
  BY <1>6, <1>7, <1>8, Zenon DEF PlatformUsers, Users

LEMMA GlobalUsersAre ==
  ASSUME IInv, Reservations
  PROVE  GlobalUsers = Users(Keys, {"await", "reaping"}, Inside)
<1>1. \A c \in Callers : caller[c].pc # "idle" => caller[c].key \in Keys
  BY DEF IInv, Named
<1>2. \A c \in Callers : caller[c].reaps \in Inside => caller[c].pc = "reaping"
  BY DEF Reservations, Inside
<1>3. \A k \in Keys : PlatformOf[k] \in Platforms
  BY CollectionsAssumption
<1>4. {c \in Batch : caller[c].pc \in {"await", "reaping"}}
        = {c \in Batch : CallerUses(caller[c], Keys, {"await", "reaping"})}
  BY <1>1, CollectionsAssumption DEF CallerUses
<1>5. UNION {{tk \in TasksAt(p, Inside) : ~task[tk].reserved} : p \in Platforms}
        = {tk \in TaskKeys : tk[1] \in Keys /\ TaskUses(task[tk], Inside)}
  BY <1>3 DEF TasksAt, TaskUses, TaskKeys
<1>6. UNION {{<<c>> : c \in {c \in EndingAt(p, Inside) : ~caller[c].reserved}} : p \in Platforms}
        = {<<c>> : c \in {d \in Callers : EndUses(caller[d], Keys, Inside)}}
  <2> DEFINE E(p) == {c \in EndingAt(p, Inside) : ~caller[c].reserved}
             F == {d \in Callers : EndUses(caller[d], Keys, Inside)}
  <2>1. ASSUME NEW d \in F
        PROVE  \E p \in Platforms : d \in E(p)
    BY <1>1, <1>2, <1>3 DEF EndingAt, On, EndUses
  <2>2. \A p \in Platforms : E(p) \subseteq F
    BY <1>1, <1>2 DEF EndingAt, On, EndUses
  <2> HIDE DEF E, F
  <2>3. UNION {{<<c>> : c \in E(p)} : p \in Platforms} = {<<c>> : c \in F}
    BY <2>1, <2>2
  <2>4. QED
    BY <2>3, Zenon DEF E, F
<1> DEFINE A == {c \in Batch : caller[c].pc \in {"await", "reaping"}}
           B == UNION {{tk \in TasksAt(p, Inside) : ~task[tk].reserved} : p \in Platforms}
           C == UNION {{<<c>> : c \in {c \in EndingAt(p, Inside) : ~caller[c].reserved}} : p \in Platforms}
<1>7. GlobalUsers = A \union B \union C
  BY Zenon DEF GlobalUsers
<1> HIDE DEF A, B, C
<1>8. QED
  BY <1>4, <1>5, <1>6, <1>7 DEF Users, A, B, C

\* There are finitely many users: every task is awaited by a caller.
LEMMA UsersFinite ==
  ASSUME IInv, NEW K, NEW cp, NEW tp, Semaphore(K, cp, tp)
  PROVE  IsFiniteSet(Users(K, cp, tp))
<1> DEFINE A == {c \in Callers : caller[c].pc = "await"}
           L == {tk \in TaskKeys : task[tk].pc # "none"}
           f == [c \in A |-> TaskKey(c, caller[c].key)]
           E == {d \in Callers : EndUses(caller[d], K, tp)}
           g == [d \in E |-> <<d>>]
<1>1. IsFiniteSet(Callers) /\ IsFiniteSet(A) /\ IsFiniteSet(E)
  <2>1. A \subseteq Callers /\ E \subseteq Callers
    OBVIOUS
  <2> HIDE DEF A, E
  <2>2. QED
    BY <2>1, CollectionsAssumption, FS_Subset
<1>2. IsFiniteSet(L)
  <2>1. ASSUME NEW c \in A
        PROVE  TaskKey(c, caller[c].key) \in L
    BY AwaitedKey, CountedByWaiting DEF IInv
  <2>2. ASSUME NEW tk \in L
        PROVE  \E c \in A : TaskKey(c, caller[c].key) = tk
    <3>1. Waiting(tk) # {}
      BY CountedByWaiting DEF IInv
    <3>2. QED
      BY <3>1 DEF Waiting, Awaits
  <2>3. f \in Surjection(A, L)
    <3> HIDE DEF A, L
    <3>1. QED
      BY <2>1, <2>2 DEF Surjection
  <2> HIDE DEF A, L, f
  <2>4. QED
    BY <1>1, <2>3, FS_Surjection
<1>3. IsFiniteSet({<<c>> : c \in E})
  <2> HIDE DEF E
  <2>1. g \in Surjection(E, {<<c>> : c \in E})
    BY DEF Surjection
  <2> HIDE DEF g
  <2>2. QED
    BY <1>1, <2>1, FS_Surjection
<1>4. IsFiniteSet({tk \in TaskKeys : tk[1] \in K /\ TaskUses(task[tk], tp)})
  <2>1. {tk \in TaskKeys : tk[1] \in K /\ TaskUses(task[tk], tp)} \subseteq L
    BY DEF TaskUses, Semaphore, Inside
  <2> HIDE DEF L
  <2>2. QED
    BY <1>2, <2>1, FS_Subset
<1>5. IsFiniteSet({c \in Batch : CallerUses(caller[c], K, cp)})
  <2>1. {c \in Batch : CallerUses(caller[c], K, cp)} \subseteq Callers
    BY CollectionsAssumption
  <2>2. QED
    BY <1>1, <2>1, FS_Subset
<1> HIDE DEF E
<1>6. QED
  BY <1>3, <1>4, <1>5, FS_Union DEF Users, E

\* A bound stays in force when nobody comes, when one comes to a place that
\* was free, and when one takes the place of another.
LEMMA BoundKept ==
  ASSUME NEW U, NEW V, NEW n \in Nat, IsFiniteSet(U), Cardinality(U) <= n,
         \/ V \subseteq U
         \/ Cardinality(U) < n /\ \E x : V \subseteq U \union {x}
         \/ \E x \in U : \E y : V \subseteq (U \ {x}) \union {y}
  PROVE  Cardinality(V) <= n
<1>1. Cardinality(U) \in Nat
  BY FS_CardinalityType
<1>2. CASE V \subseteq U
  <2>1. Cardinality(V) <= Cardinality(U) /\ IsFiniteSet(V)
    BY <1>2, FS_Subset
  <2>2. QED
    BY <1>1, <2>1, FS_CardinalityType
<1>3. ASSUME Cardinality(U) < n, NEW x, V \subseteq U \union {x}
      PROVE  Cardinality(V) <= n
  <2>1. IsFiniteSet(U \union {x}) /\ Cardinality(U \union {x}) <= n
    BY <1>1, <1>3, FS_AddElement
  <2>2. IsFiniteSet(V) /\ Cardinality(V) <= Cardinality(U \union {x})
    BY <1>3, <2>1, FS_Subset
  <2>3. QED
    BY <2>1, <2>2, FS_CardinalityType
<1>4. ASSUME NEW x \in U, NEW y, V \subseteq (U \ {x}) \union {y}
      PROVE  Cardinality(V) <= n
  <2> DEFINE W == U \ {x}
  <2>1. IsFiniteSet(W) /\ Cardinality(W) = Cardinality(U) - 1
    BY FS_RemoveElement
  <2> HIDE DEF W
  <2>2. IsFiniteSet(W \union {y}) /\ Cardinality(W \union {y}) <= n
    <3>1. /\ IsFiniteSet(W \union {y})
          /\ Cardinality(W \union {y}) = IF y \in W THEN Cardinality(W) ELSE Cardinality(W) + 1
      BY <2>1, FS_AddElement
    <3>2. QED
      BY <1>1, <2>1, <3>1
  <2>3. IsFiniteSet(V) /\ Cardinality(V) <= Cardinality(W \union {y})
    BY <1>4, <2>2, FS_Subset DEF W
  <2>4. QED
    BY <2>2, <2>3, FS_CardinalityType
<1>5. QED
  BY <1>2, <1>3, <1>4

-----------------------------------------------------------------------------
(* What a step does to the users of a semaphore *)

\* There is a place for one more.
Admits(K, cp, tp) ==
    IF "global" \in cp
    THEN \E p \in Platforms : PlatformFree(p) /\ K \intersect KeysOf(p) # {}
    ELSE GlobalFree

Shrinks(K, cp, tp) == Users(K, cp, tp)' \subseteq Users(K, cp, tp)

Moved(K, cp, tp) ==
    \/ Shrinks(K, cp, tp)
    \/ Admits(K, cp, tp) /\ \E x : Users(K, cp, tp)' \subseteq Users(K, cp, tp) \union {x}
    \/ \E x \in Users(K, cp, tp) : \E y :
          Users(K, cp, tp)' \subseteq (Users(K, cp, tp) \ {x}) \union {y}

\* Only x may be new.
LEMMA UsersWith ==
  ASSUME NEW K, NEW cp, NEW tp, NEW x,
         \A c \in Batch \ {x} : CallerUses(caller'[c], K, cp) => CallerUses(caller[c], K, cp),
         \A tk \in TaskKeys \ {x} : TaskUses(task'[tk], tp) => TaskUses(task[tk], tp),
         \A c \in Callers : EndUses(caller'[c], K, tp) => EndUses(caller[c], K, tp) \/ x = <<c>>
  PROVE  Users(K, cp, tp)' \subseteq Users(K, cp, tp) \union {x}
BY DEF Users

LEMMA UsersLess ==
  ASSUME NEW K, NEW cp, NEW tp,
         \A c \in Batch : CallerUses(caller'[c], K, cp) => CallerUses(caller[c], K, cp),
         \A tk \in TaskKeys : tk[1] \in K /\ TaskUses(task'[tk], tp) => TaskUses(task[tk], tp),
         \A c \in Callers : EndUses(caller'[c], K, tp) => EndUses(caller[c], K, tp)
  PROVE  Shrinks(K, cp, tp)
BY DEF Users, Shrinks

\* A caller moves, and cancels no collection.
LEMMA CallerMoves ==
  ASSUME Reservations, NEW c \in Callers, task' = task,
         caller'[c].pc # "reaping", caller'[c].reaps = "none",
         \A d \in Callers \ {c} : caller'[d] = caller[d],
         NEW K, NEW cp, NEW tp, Semaphore(K, cp, tp)
  PROVE  /\ Reservations'
         /\ Users(K, cp, tp)' \subseteq Users(K, cp, tp) \union {c}
         /\ (c \in Batch /\ CallerUses(caller'[c], K, cp) => CallerUses(caller[c], K, cp))
              => Shrinks(K, cp, tp)
<1>1. Reservations'
  BY DEF Reservations
<1>2. ~EndUses(caller'[c], K, tp)
  BY DEF EndUses, Semaphore, Inside
<1>3. \A d \in Callers : EndUses(caller'[d], K, tp) => EndUses(caller[d], K, tp)
  BY <1>2
<1>4. \A d \in Batch \ {c} : CallerUses(caller'[d], K, cp) => CallerUses(caller[d], K, cp)
  BY CollectionsAssumption
<1>5. Users(K, cp, tp)' \subseteq Users(K, cp, tp) \union {c}
  BY <1>3, <1>4, UsersWith
<1>6. (c \in Batch /\ CallerUses(caller'[c], K, cp) => CallerUses(caller[c], K, cp))
        => Shrinks(K, cp, tp)
  BY <1>3, <1>4, UsersLess
<1>7. QED
  BY <1>1, <1>5, <1>6

\* A task moves on.
LEMMA TaskMoves ==
  ASSUME Reservations, NEW tk \in TaskKeys, caller' = caller,
         task[tk].pc # "none", task'[tk].reserved = task[tk].reserved,
         task[tk].pc \in Inside => task'[tk].pc \in Inside,
         \A other \in TaskKeys \ {tk} : task'[other] = task[other],
         NEW K, NEW cp, NEW tp
  PROVE  /\ Reservations'
         /\ Users(K, cp, tp)' \subseteq Users(K, cp, tp) \union {tk}
         /\ (tk[1] \in K /\ TaskUses(task'[tk], tp) => TaskUses(task[tk], tp))
              => Shrinks(K, cp, tp)
<1>1. Reservations'
  BY DEF Reservations
<1>2. QED
  BY <1>1, UsersWith, UsersLess

\* A caller is given a place, or goes.
LEMMA PlacedAlone ==
  ASSUME IInv, NEW c \in Callers, NEW k \in Keys,
         NEW place \in CallerPlaces \ {"idle"}, Place(c, k, place)
  PROVE  /\ caller'[c].pc = place /\ caller'[c].key = k /\ caller'[c].reaps = "none"
         /\ \A d \in Callers \ {c} : caller'[d] = caller[d]
<1>1. [Idle EXCEPT !.pc = place, !.key = k].reaps = "none"
  BY IdleShape DEF Caller
<1>2. caller'[c] = [Idle EXCEPT !.pc = place, !.key = k]
  BY DEF IInv, Shape, Place
<1>3. QED
  BY <1>1, <1>2, Placed

LEMMA ReturnedAlone ==
  ASSUME IInv, NEW c \in Callers, Return(c)
  PROVE  /\ caller'[c].pc = "idle" /\ caller'[c].reaps = "none"
         /\ \A d \in Callers \ {c} : caller'[d] = caller[d]
<1>1. caller'[c] = Idle
  BY DEF IInv, Shape, Return
<1>2. QED
  BY <1>1, IdleShape, Returned

\* Whoever goes away leaves its places.
LEMMA ReturnedShrinks ==
  ASSUME IInv, Reservations, NEW c \in Callers, Return(c), task' = task,
         NEW K, NEW cp, NEW tp, Semaphore(K, cp, tp)
  PROVE  Reservations' /\ Shrinks(K, cp, tp)
<1>1. /\ caller'[c].pc = "idle" /\ caller'[c].reaps = "none"
      /\ \A d \in Callers \ {c} : caller'[d] = caller[d]
  BY ReturnedAlone
<1>2. ~CallerUses(caller'[c], K, cp)
  BY <1>1 DEF CallerUses, Semaphore
<1>3. QED
  BY <1>1, <1>2, CallerMoves

-----------------------------------------------------------------------------
(* The actions, and the users of a semaphore *)

\* A place that is reserved was free.
LEMMA ReserveMoved ==
  ASSUME IInv, Reservations, NEW c \in Callers, ReservePlatform(c),
         NEW K, NEW cp, NEW tp, Semaphore(K, cp, tp)
  PROVE  Reservations' /\ Moved(K, cp, tp)
<1>1. caller[c].key \in Keys /\ Asked(c) \in Platforms
  BY AskedPlatform DEF ReservePlatform, IInv, Named
<1>2. /\ caller'[c].pc = "global" /\ caller'[c].key = caller[c].key
      /\ caller'[c].reaps = "none"
      /\ \A d \in Callers \ {c} : caller'[d] = caller[d]
  BY <1>1, PlacedAlone DEF ReservePlatform, CallerPlaces
<1>3. task' = task
  BY DEF ReservePlatform
<1>4. /\ Reservations'
      /\ Users(K, cp, tp)' \subseteq Users(K, cp, tp) \union {c}
      /\ ~CallerUses(caller'[c], K, cp) => Shrinks(K, cp, tp)
  BY <1>2, <1>3, CallerMoves
<1>5. CASE CallerUses(caller'[c], K, cp)
  <2>1. "global" \in cp /\ caller[c].key \in K
    BY <1>2, <1>5 DEF CallerUses
  <2>2. caller[c].key \in KeysOf(Asked(c))
    BY <1>1 DEF KeysOf, Asked
  <2>3. PlatformFree(Asked(c))
    BY DEF ReservePlatform
  <2>4. Admits(K, cp, tp)
    BY <1>1, <2>1, <2>2, <2>3 DEF Admits
  <2>5. QED
    BY <1>4, <2>4 DEF Moved
<1>6. QED
  BY <1>4, <1>5 DEF Moved

\* A request joins or starts a task that waits for its capacity, an item one
\* that runs in the capacity of the item.
LEMMA JoinMoved ==
  ASSUME IInv, Reservations, NEW c \in Callers, NEW k \in Keys, Join(c, k),
         c \in Batch => caller[c].pc = "global" /\ caller[c].key = k /\ GlobalFree,
         NEW K, NEW cp, NEW tp, Semaphore(K, cp, tp)
  PROVE  Reservations' /\ Moved(K, cp, tp)
<1> DEFINE tk == TaskKey(c, k)
           b == c \in Batch
<1>1. b \in BOOLEAN /\ tk = <<k, b>> /\ tk \in TaskKeys /\ tk[2] = b
  <2>1. b \in BOOLEAN
    OBVIOUS
  <2>2. tk = <<k, b>>
    BY Zenon DEF TaskKey
  <2> HIDE DEF tk, b
  <2>3. tk \in TaskKeys /\ tk[2] = b
    BY <2>1, <2>2 DEF TaskKeys
  <2>4. QED
    BY <2>1, <2>2, <2>3
<1>2. /\ caller'[c].pc = "await" /\ caller'[c].key = k /\ caller'[c].reaps = "none"
      /\ \A d \in Callers \ {c} : caller'[d] = caller[d]
  BY PlacedAlone DEF Join, CallerPlaces
<1>3. /\ \A other \in TaskKeys \ {tk} : task'[other] = task[other]
      /\ task'[tk] = IF task[tk].pc = "none" THEN NewTask(c) ELSE task[tk]
  BY <1>1 DEF IInv, Shape, Join
<1>4. /\ NewTask(c).reserved = b
      /\ NewTask(c).pc = IF b THEN "enter" ELSE "platform"
  BY DEF NewTask, NoTask
<1> HIDE DEF tk, b
<1>5. \A other \in TaskKeys : task'[other].pc # "none" =>
         task'[other].reserved = other[2] /\ (other[2] => task'[other].pc \in Inside)
  BY <1>1, <1>3, <1>4 DEF Reservations, Inside
<1>6. Reservations'
  BY <1>2, <1>5 DEF Reservations
<1>7. ~TaskUses(NewTask(c), tp)
  BY <1>1, <1>4 DEF TaskUses, Semaphore, Inside
<1>8. \A other \in TaskKeys : TaskUses(task'[other], tp) => TaskUses(task[other], tp)
  BY <1>3, <1>7
<1>9. \A d \in Callers : EndUses(caller'[d], K, tp) => EndUses(caller[d], K, tp)
  <2>1. ~EndUses(caller'[c], K, tp)
    BY <1>2 DEF EndUses, Semaphore, Inside
  <2>2. QED
    BY <1>2, <2>1
<1>10. \A d \in Batch \ {c} : CallerUses(caller'[d], K, cp) => CallerUses(caller[d], K, cp)
  BY <1>2, CollectionsAssumption
<1>11. CASE c \notin Batch \/ "global" \in cp
  <2>1. c \in Batch => (CallerUses(caller'[c], K, cp) => CallerUses(caller[c], K, cp))
    BY <1>2, <1>11 DEF CallerUses
  <2>2. Shrinks(K, cp, tp)
    BY <1>8, <1>9, <1>10, <2>1, UsersLess
  <2>3. QED
    BY <1>6, <2>2 DEF Moved
<1>12. CASE c \in Batch /\ "global" \notin cp
  <2>1. Admits(K, cp, tp)
    BY <1>12 DEF Admits
  <2>2. Users(K, cp, tp)' \subseteq Users(K, cp, tp) \union {c}
    BY <1>8, <1>9, <1>10, UsersWith
  <2>3. QED
    BY <1>6, <2>1, <2>2 DEF Moved
<1>13. QED
  BY <1>11, <1>12

LEMMA RequestMoved ==
  ASSUME IInv, Reservations, NEW c \in Callers, NEW k \in Keys, Hit(c, k) \/ Join(c, k),
         c \in Batch => caller[c].pc = "global" /\ caller[c].key = k /\ GlobalFree,
         NEW K, NEW cp, NEW tp, Semaphore(K, cp, tp)
  PROVE  Reservations' /\ Moved(K, cp, tp)
<1>1. CASE Hit(c, k)
  BY <1>1, ReturnedShrinks DEF Hit, Moved
<1>2. CASE Join(c, k)
  BY <1>2, JoinMoved
<1>3. QED
  BY <1>1, <1>2

\* Whoever waits for the circuit or the platform uses nothing yet.
LEMMA WaitsOutside ==
  ASSUME IInv, Reservations, NEW c \in Callers, NEW k \in Keys,
         NEW place \in {"cooling", "platform"}, Place(c, k, place), task' = task,
         NEW K, NEW cp, NEW tp, Semaphore(K, cp, tp)
  PROVE  Reservations' /\ Moved(K, cp, tp)
<1>1. /\ caller'[c].pc = place /\ caller'[c].reaps = "none"
      /\ \A d \in Callers \ {c} : caller'[d] = caller[d]
  BY PlacedAlone DEF CallerPlaces
<1>2. ~CallerUses(caller'[c], K, cp)
  BY <1>1 DEF CallerUses, Semaphore
<1>3. QED
  BY <1>1, <1>2, CallerMoves DEF Moved

LEMMA StartMoved ==
  ASSUME IInv, Reservations, NEW c \in Callers, NEW k \in Keys,
         Request(c, k) \/ StartItem(c, k),
         NEW K, NEW cp, NEW tp, Semaphore(K, cp, tp)
  PROVE  Reservations' /\ Moved(K, cp, tp)
<1>1. CASE Request(c, k)
  BY <1>1, RequestMoved DEF Request
<1>2. CASE StartItem(c, k)
  BY <1>2, WaitsOutside DEF StartItem, StartReady, StartCooling
<1>3. QED
  BY <1>1, <1>2

LEMMA AdvanceMoved ==
  ASSUME IInv, Reservations, NEW c \in Callers, Advance(c),
         NEW K, NEW cp, NEW tp, Semaphore(K, cp, tp)
  PROVE  Reservations' /\ Moved(K, cp, tp)
<1>1. caller[c].pc # "idle" => caller[c].key \in Keys
  BY DEF IInv, Named
<1>2. CASE Wake(c)
  BY <1>1, <1>2, WaitsOutside DEF Wake
<1>3. CASE ReservePlatform(c)
  BY <1>3, ReserveMoved
<1>4. CASE CollectItem(c)
  BY <1>1, <1>4, RequestMoved DEF CollectItem
<1>5. CASE Reaped(c)
  BY <1>5, ReturnedShrinks DEF Reaped, Moved
<1>6. QED
  BY <1>2, <1>3, <1>4, <1>5 DEF Advance

\* A collection that is cancelled keeps its places until it has ended, those
\* of its own or those of the item.
LEMMA AbandonMoved ==
  ASSUME IInv, Reservations, NEW c \in Callers, NEW tk \in TaskKeys,
         Awaits(c, tk), Abandon(c, tk),
         NEW K, NEW cp, NEW tp, Semaphore(K, cp, tp)
  PROVE  Reservations' /\ Moved(K, cp, tp)
<1> DEFINE b == c \in Batch
<1>1. tk = <<caller[c].key, b>> /\ caller[c].pc = "await"
  BY DEF Awaits, TaskKey
<1>2. b \in BOOLEAN
  OBVIOUS
<1> HIDE DEF b
<1>3. tk[1] = caller[c].key /\ tk[2] = b
  BY <1>1
<1>4. task[tk].reserved = b
  <2>1. c \in Waiting(tk)
    BY DEF Waiting
  <2>2. task[tk].pc # "none"
    BY <2>1, CountedByWaiting DEF IInv
  <2>3. QED
    BY <1>3, <2>2 DEF Reservations
<1>5. /\ caller'[c].pc = "reaping" /\ caller'[c].key = caller[c].key
      /\ caller'[c].reaps = task[tk].pc /\ caller'[c].reserved = b
      /\ \A d \in Callers \ {c} : caller'[d] = caller[d]
  <2> DEFINE r == [caller[c] EXCEPT !.pc = "reaping", !.reaps = task[tk].pc,
                                    !.reserved = task[tk].reserved]
  <2>1. caller[c] \in Caller /\ caller \in [Callers -> Caller]
    BY DEF IInv, Shape
  <2>2. /\ r.pc = "reaping" /\ r.key = caller[c].key /\ r.reaps = task[tk].pc
        /\ r.reserved = task[tk].reserved
    BY <2>1 DEF Caller
  <2>3. caller' = [caller EXCEPT ![c] = r]
    BY <2>1 DEF Abandon, Caller
  <2> HIDE DEF r
  <2>4. QED
    BY <1>4, <2>1, <2>2, <2>3
<1>6. /\ task'[tk].pc = "none"
      /\ \A other \in TaskKeys \ {tk} : task'[other] = task[other]
  BY NoTaskShape DEF Abandon, IInv, Shape
<1>7. Reservations'
  BY <1>5, <1>6 DEF Reservations, b
<1>8. \A other \in TaskKeys : TaskUses(task'[other], tp) => TaskUses(task[other], tp)
  <2>1. ~TaskUses(task'[tk], tp)
    BY <1>6 DEF TaskUses, Semaphore, Inside
  <2>2. QED
    BY <1>6, <2>1
<1>9. \A d \in Batch : CallerUses(caller'[d], K, cp) => CallerUses(caller[d], K, cp)
  <2>1. CallerUses(caller'[c], K, cp) => CallerUses(caller[c], K, cp)
    BY <1>1, <1>5 DEF CallerUses, Semaphore
  <2>2. QED
    BY <1>5, <2>1, CollectionsAssumption
<1>10. CASE ~EndUses(caller'[c], K, tp)
  <2>1. \A d \in Callers : EndUses(caller'[d], K, tp) => EndUses(caller[d], K, tp)
    BY <1>5, <1>10
  <2>2. QED
    BY <1>7, <1>8, <1>9, <2>1, UsersLess DEF Moved
<1>11. CASE EndUses(caller'[c], K, tp)
  <2>1. tk[1] \in K /\ TaskUses(task[tk], tp)
    BY <1>3, <1>4, <1>5, <1>11 DEF EndUses, TaskUses
  <2>2. tk \in Users(K, cp, tp)
    BY <2>1 DEF Users
  <2>3. \A d \in Callers : EndUses(caller'[d], K, tp) => EndUses(caller[d], K, tp) \/ <<c>> = <<d>>
    BY <1>5
  <2>4. Users(K, cp, tp)' \subseteq Users(K, cp, tp) \union {<<c>>}
    BY <1>8, <1>9, <2>3, UsersWith
  <2>5. tk \notin Users(K, cp, tp)'
    <3>1. ~TaskUses(task'[tk], tp)
      BY <1>6 DEF TaskUses, Semaphore, Inside
    <3>2. tk \notin Batch
      BY CollectionsAssumption
    <3>3. \A d : tk # <<d>>
      BY <1>1
    <3>4. QED
      BY <3>1, <3>2, <3>3 DEF Users
  <2>6. QED
    BY <1>7, <2>2, <2>4, <2>5 DEF Moved
<1>12. QED
  BY <1>10, <1>11

LEMMA CancelMoved ==
  ASSUME IInv, Reservations, NEW c \in Callers, Cancel(c),
         NEW K, NEW cp, NEW tp, Semaphore(K, cp, tp)
  PROVE  Reservations' /\ Moved(K, cp, tp)
<1>1. CASE CancelEarly(c)
  BY <1>1, ReturnedShrinks DEF CancelEarly, Moved
<1>2. CASE CancelAwait(c)
  <2>1. PICK tk \in TaskKeys : Awaits(c, tk) /\ (Leave(c, tk) \/ Abandon(c, tk))
    BY <1>2, AwaitedKey DEF CancelAwait, Awaits
  <2>2. CASE Leave(c, tk)
    BY <2>2, ReturnedShrinks DEF Leave, Moved
  <2>3. CASE Abandon(c, tk)
    BY <2>1, <2>3, AbandonMoved
  <2>4. QED
    BY <2>1, <2>2, <2>3
<1>3. QED
  BY <1>1, <1>2 DEF Cancel

\* A collection that ends leaves its places, and so do the items.
LEMMA AnswerMoved ==
  ASSUME IInv, Reservations, NEW tk \in TaskKeys, Answer(tk),
         NEW K, NEW cp, NEW tp, Semaphore(K, cp, tp)
  PROVE  Reservations' /\ Moved(K, cp, tp)
<1>1. \A c \in Callers : caller'[c] = caller[c] \/ (caller'[c] = Idle /\ caller[c].pc = "await")
  BY DEF Answer, Awaits
<1>2. /\ task'[tk].pc = "none"
      /\ \A other \in TaskKeys \ {tk} : task'[other] = task[other]
  BY NoTaskShape DEF Answer, IInv, Shape
<1>3. Reservations'
  BY <1>1, <1>2, IdleShape DEF Reservations
<1>4. ~CallerUses(Idle, K, cp) /\ ~EndUses(Idle, K, tp)
  BY IdleShape DEF CallerUses, EndUses, Semaphore, Inside
<1>5. ~TaskUses(task'[tk], tp)
  BY <1>2 DEF TaskUses, Semaphore, Inside
<1>6. \A c \in Callers : /\ CallerUses(caller'[c], K, cp) => CallerUses(caller[c], K, cp)
                         /\ EndUses(caller'[c], K, tp) => EndUses(caller[c], K, tp)
  BY <1>1, <1>4
<1>7. \A other \in TaskKeys : TaskUses(task'[other], tp) => TaskUses(task[other], tp)
  BY <1>2, <1>5
<1>8. Shrinks(K, cp, tp)
  BY <1>6, <1>7, UsersLess, CollectionsAssumption
<1>9. QED
  BY <1>3, <1>8 DEF Moved

\* A task goes on at another place of those inside.
LEMMA InsideMoved ==
  ASSUME IInv, Reservations, NEW tk \in TaskKeys, caller' = caller,
         task[tk].pc \in Inside, task'[tk].pc \in Inside,
         task'[tk].reserved = task[tk].reserved,
         \A other \in TaskKeys \ {tk} : task'[other] = task[other],
         NEW K, NEW cp, NEW tp, Semaphore(K, cp, tp)
  PROVE  Reservations' /\ Moved(K, cp, tp)
<1>1. TaskUses(task'[tk], tp) => TaskUses(task[tk], tp)
  BY DEF TaskUses, Semaphore
<1>2. task[tk].pc # "none"
  BY DEF Inside
<1>3. QED
  BY <1>1, <1>2, TaskMoves DEF Moved

\* A task that waits takes a place that was free.
LEMMA TakeMoved ==
  ASSUME IInv, Reservations, NEW tk \in TaskKeys, TakePlatform(tk) \/ TakeGlobal(tk),
         NEW K, NEW cp, NEW tp, Semaphore(K, cp, tp)
  PROVE  Reservations' /\ Moved(K, cp, tp)
<1>1. /\ caller' = caller /\ task[tk].pc # "none"
      /\ \A other \in TaskKeys \ {tk} : task'[other] = task[other]
  BY DEF TakePlatform, TakeGlobal, Move, IInv, Shape
<1>2. PICK place \in {"global", "enter"} : Move(tk, place)
  BY DEF TakePlatform, TakeGlobal
<1>3. task'[tk].reserved = task[tk].reserved /\ task'[tk].pc = place
  BY <1>2 DEF Move, IInv, Shape, Task
<1>4. /\ Reservations'
      /\ Users(K, cp, tp)' \subseteq Users(K, cp, tp) \union {tk}
      /\ (tk[1] \in K /\ TaskUses(task'[tk], tp) => TaskUses(task[tk], tp))
           => Shrinks(K, cp, tp)
  <2>1. task[tk].pc \notin Inside
    BY DEF TakePlatform, TakeGlobal, Inside
  <2>2. QED
    BY <1>1, <1>3, <2>1, TaskMoves
<1>5. CASE ~(tk[1] \in K /\ TaskUses(task'[tk], tp)) \/ TaskUses(task[tk], tp)
  BY <1>4, <1>5 DEF Moved
<1>6. CASE tk[1] \in K /\ TaskUses(task'[tk], tp) /\ ~TaskUses(task[tk], tp)
  <2>1. place \in tp /\ task[tk].pc \notin tp
    BY <1>3, <1>6 DEF TaskUses
  <2>2. Admits(K, cp, tp)
    <3>1. CASE TakePlatform(tk)
      <4>1. "global" \in cp
        BY <1>3, <2>1, <3>1 DEF TakePlatform, Move, IInv, Shape, Task, Semaphore, Inside
      <4>2. tk[1] \in KeysOf(Collects(tk)) /\ Collects(tk) \in Platforms
        BY CollectionsAssumption DEF TaskKeys, KeysOf, Collects
      <4>3. QED
        BY <1>6, <3>1, <4>1, <4>2 DEF Admits, TakePlatform
    <3>2. CASE TakeGlobal(tk)
      BY <2>1, <3>2 DEF TakeGlobal, Semaphore, Admits
    <3>3. QED
      BY <3>1, <3>2
  <2>3. QED
    BY <1>4, <2>2 DEF Moved
<1>7. QED
  BY <1>5, <1>6

LEMMA CollectMoved ==
  ASSUME IInv, Reservations, NEW tk \in TaskKeys, Collect(tk),
         NEW K, NEW cp, NEW tp, Semaphore(K, cp, tp)
  PROVE  Reservations' /\ Moved(K, cp, tp)
<1>1. CASE TakePlatform(tk) \/ TakeGlobal(tk)
  BY <1>1, TakeMoved
<1>2. CASE Raise(tk)
  BY <1>2, AnswerMoved DEF Raise
<1>3. ASSUME NEW r, Finish(tk, r)
      PROVE  Reservations' /\ Moved(K, cp, tp)
  BY <1>3, AnswerMoved DEF Finish
<1>4. ASSUME caller' = caller, task[tk].pc \in Inside,
             \/ \E place \in Inside : task' = [task EXCEPT ![tk].pc = place]
             \/ \E n : task' = [task EXCEPT ![tk].n = n]
             \/ task' = Begun(tk)
             \/ \E x : task' = [task EXCEPT ![tk].pc = "browser", ![tk].n = 1,
                                             ![tk].protocol = x]
      PROVE  Reservations' /\ Moved(K, cp, tp)
  <2>1. task \in [TaskKeys -> Task]
    BY DEF IInv, Shape
  <2>2. \A other \in TaskKeys \ {tk} : task'[other] = task[other]
    BY <1>4, <2>1 DEF Begun
  <2>3. task'[tk].pc \in Inside /\ task'[tk].reserved = task[tk].reserved
    BY <1>4, <2>1 DEF Begun, Task, Inside
  <2>4. QED
    BY <1>4, <2>2, <2>3, InsideMoved
<1>5. CASE Enter(tk) \/ EnterCooling(tk) \/ WakeTask(tk)
  BY <1>4, <1>5 DEF Enter, EnterCooling, WakeTask, Move, Inside
<1>6. CASE Protocol(tk)
  <2>1. PICK r \in Results : Retry(tk, r) \/ TryBrowser(tk, r) \/ Settle(tk, r)
    BY <1>6 DEF Protocol
  <2>2. task[tk].pc \in Inside
    BY <1>6 DEF Protocol, Inside
  <2>3. CASE Settle(tk, r)
    BY <1>3, <2>3 DEF Settle
  <2>4. CASE Retry(tk, r)
    <3>1. PICK n : task' = [task EXCEPT ![tk].n = n]
      BY <2>4 DEF Retry
    <3>2. QED
      BY <1>4, <2>2, <2>4, <3>1 DEF Retry
  <2>5. CASE TryBrowser(tk, r)
    <3>1. PICK x : task' = [task EXCEPT ![tk].pc = "browser", ![tk].n = 1, ![tk].protocol = x]
      BY <2>5 DEF TryBrowser
    <3>2. QED
      BY <1>4, <2>2, <2>5, <3>1 DEF TryBrowser
  <2>6. QED
    BY <2>1, <2>3, <2>4, <2>5
<1>7. CASE Browse(tk)
  <2>1. task[tk].pc \in Inside
    BY <1>7 DEF Browse, Inside
  <2>2. CASE BrowserRetry(tk)
    <3>1. PICK n : task' = [task EXCEPT ![tk].n = n]
      BY <2>2 DEF BrowserRetry
    <3>2. QED
      BY <1>4, <2>1, <2>2, <3>1 DEF BrowserRetry
  <2>3. CASE BrowserSettle(tk) \/ BrowserTimeout(tk)
    <3>1. PICK r : Finish(tk, r)
      BY <2>3 DEF BrowserSettle, BrowserTimeout
    <3>2. QED
      BY <1>3, <3>1
  <2>4. QED
    BY <1>7, <2>2, <2>3 DEF Browse
<1>8. QED
  BY <1>1, <1>2, <1>5, <1>6, <1>7 DEF Collect

LEMMA NextMoved ==
  ASSUME IInv, Reservations, [Next]_vars,
         NEW K, NEW cp, NEW tp, Semaphore(K, cp, tp)
  PROVE  Reservations' /\ Moved(K, cp, tp)
<1>1. CASE UNCHANGED <<caller, task>>
  <2>1. Reservations'
    BY <1>1 DEF Reservations
  <2>2. Shrinks(K, cp, tp)
    BY <1>1, UsersLess
  <2>3. QED
    BY <2>1, <2>2 DEF Moved
<1>2. ASSUME NEW p \in Platforms, Elapse(p)
      PROVE  UNCHANGED <<caller, task>>
  BY <1>2 DEF Elapse
<1>3. ASSUME NEW k \in Keys, Age(k)
      PROVE  UNCHANGED <<caller, task>>
  BY <1>3 DEF Age
<1>4. UNCHANGED vars => UNCHANGED <<caller, task>>
  BY DEF vars
<1>5. QED
  BY <1>1, <1>2, <1>3, <1>4, StartMoved, AdvanceMoved, CancelMoved, CollectMoved
     DEF Next, Progress

-----------------------------------------------------------------------------
(* What runs upstream has a place in the semaphores *)

Upstreams(K) ==
    {tk \in TaskKeys : tk[1] \in K /\ task[tk].pc \in Inside}
    \union {<<c>> : c \in {d \in Callers : caller[d].key \in K /\ caller[d].reaps \in Inside}}

LEMMA UpstreamsAre ==
  ASSUME IInv, Reservations
  PROVE  /\ \A p \in Platforms : Upstream(p) = Upstreams(KeysOf(p))
         /\ UNION {Upstream(p) : p \in Platforms} = Upstreams(Keys)
<1>1. \A c \in Callers : caller[c].reaps \in Inside => caller[c].key \in Keys
  BY DEF IInv, Named, Reservations, Inside
<1>2. ASSUME NEW p \in Platforms
      PROVE  Upstream(p) = Upstreams(KeysOf(p))
  <2>1. TasksAt(p, Inside) = {tk \in TaskKeys : tk[1] \in KeysOf(p) /\ task[tk].pc \in Inside}
    BY DEF TasksAt, KeysOf, TaskKeys
  <2>2. EndingAt(p, Inside) = {d \in Callers : caller[d].key \in KeysOf(p) /\ caller[d].reaps \in Inside}
    BY <1>1 DEF EndingAt, On, KeysOf
  <2>3. QED
    BY <2>1, <2>2, Zenon DEF Upstream, Upstreams
<1>3. \A p \in Platforms : Upstreams(KeysOf(p)) \subseteq Upstreams(Keys)
  BY DEF Upstreams, KeysOf
<1>4. ASSUME NEW x \in Upstreams(Keys)
      PROVE  \E p \in Platforms : x \in Upstreams(KeysOf(p))
  <2>1. \A k \in Keys : PlatformOf[k] \in Platforms /\ k \in KeysOf(PlatformOf[k])
    BY CollectionsAssumption DEF KeysOf
  <2>2. QED
    BY <2>1 DEF Upstreams
<1>5. UNION {Upstream(p) : p \in Platforms} = Upstreams(Keys)
  BY <1>2, <1>3, <1>4
<1>6. QED
  BY <1>2, <1>5

\* Who stands for what runs in the capacity of an item: a caller that awaits
\* it, or the one that has cancelled it.
Stands(x, c) ==
    \/ x \in TaskKeys /\ c \in Waiting(x)
    \/ x = <<c>> /\ c \in Callers /\ caller[c].pc = "reaping"

LEMMA StandsAlone ==
  ASSUME NEW x, NEW y, NEW c, Stands(x, c), Stands(y, c)
  PROVE  x = y
<1>1. CASE caller[c].pc = "await"
  <2>1. caller[c].pc # "reaping"
    BY <1>1
  <2>2. x = TaskKey(c, caller[c].key) /\ y = TaskKey(c, caller[c].key)
    BY <2>1, Zenon DEF Stands, Waiting, Awaits
  <2>3. QED
    BY <2>2
<1>2. CASE caller[c].pc # "await"
  BY <1>2, Zenon DEF Stands, Waiting, Awaits
<1>3. QED
  BY <1>1, <1>2

LEMMA ReservedStands ==
  ASSUME IInv, Reservations, NEW K, NEW cp, NEW tp, Semaphore(K, cp, tp),
         NEW x \in Upstreams(K), x \notin Users(K, cp, tp)
  PROVE  \E c \in Users(K, cp, tp) \intersect Callers : Stands(x, c)
<1>1. ASSUME x \in TaskKeys, x[1] \in K, task[x].pc \in Inside
      PROVE  \E c \in Users(K, cp, tp) \intersect Callers : Stands(x, c)
  <2>1. task[x].pc \in tp /\ task[x].pc # "none"
    BY <1>1 DEF Semaphore, Inside
  <2>2. x[2] = TRUE
    <3>1. x[2] \in BOOLEAN
      BY <1>1 DEF TaskKeys
    <3>2. task[x].reserved
      BY <1>1, <2>1 DEF Users, TaskUses
    <3>3. QED
      BY <1>1, <2>1, <3>1, <3>2 DEF Reservations
  <2>3. PICK c \in Callers : caller[c].pc = "await" /\ TaskKey(c, caller[c].key) = x
    <3>1. Waiting(x) # {}
      BY <1>1, <2>1, CountedByWaiting DEF IInv
    <3>2. QED
      BY <3>1 DEF Waiting, Awaits
  <2> DEFINE b == c \in Batch
  <2>4. x = <<caller[c].key, b>>
    BY <2>3, Zenon DEF TaskKey
  <2> HIDE DEF b
  <2>5. x[1] = caller[c].key /\ x[2] = b
    BY <2>4
  <2>6. c \in Batch
    BY <2>2, <2>5 DEF b
  <2>7. c \in Users(K, cp, tp)
    BY <1>1, <2>3, <2>5, <2>6 DEF Users, CallerUses, Semaphore
  <2>8. Stands(x, c)
    BY <1>1, <2>3 DEF Stands, Waiting, Awaits
  <2>9. QED
    BY <2>7, <2>8
<1>2. ASSUME NEW c \in Callers, x = <<c>>, caller[c].key \in K, caller[c].reaps \in Inside
      PROVE  \E d \in Users(K, cp, tp) \intersect Callers : Stands(x, d)
  <2>1. caller[c].reaps \in tp /\ caller[c].pc = "reaping"
    BY <1>2 DEF Semaphore, Inside, Reservations
  <2>2. caller[c].reserved
    BY <1>2, <2>1 DEF Users, EndUses
  <2>3. c \in Batch
    BY <2>1, <2>2 DEF Reservations
  <2>4. c \in Users(K, cp, tp)
    BY <1>2, <2>1, <2>3 DEF Users, CallerUses, Semaphore
  <2>5. QED
    BY <1>2, <2>1, <2>4 DEF Stands
<1>3. QED
  BY <1>1, <1>2 DEF Upstreams

\* No more runs upstream than there are users of the semaphore.
LEMMA UpstreamsFit ==
  ASSUME IInv, Reservations, NEW K, NEW cp, NEW tp, Semaphore(K, cp, tp),
         NEW n \in Nat, Cardinality(Users(K, cp, tp)) <= n
  PROVE  Cardinality(Upstreams(K)) <= n
<1> DEFINE U == Users(K, cp, tp)
           V == Upstreams(K)
           g == [x \in V |-> IF x \in U THEN x ELSE CHOOSE c \in U \intersect Callers : Stands(x, c)]
<1>1. \A x \in V \ U : g[x] \in U \intersect Callers /\ Stands(x, g[x])
  BY ReservedStands
<1>2. \A x \in V : x \in U => g[x] = x
  OBVIOUS
<1>3. \A x \in V : x \notin Callers
  BY CollectionsAssumption DEF Upstreams
<1>4. g = [x \in V |-> g[x]]
  OBVIOUS
<1>5. IsFiniteSet(U) /\ Cardinality(U) <= n
  BY UsersFinite
<1> HIDE DEF g, U, V
<1>6. \A x \in V : g[x] \in U
  BY <1>1, <1>2
<1>7. \A x, y \in V : g[x] = g[y] => x = y
  BY <1>1, <1>2, <1>3, StandsAlone
<1>8. g \in Injection(V, U)
  BY <1>4, <1>6, <1>7 DEF Injection, IsInjective
<1>9. IsFiniteSet(V) /\ Cardinality(V) <= Cardinality(U)
  BY <1>5, <1>8, FS_Injection
<1>10. QED
  BY <1>5, <1>9, FS_CardinalityType DEF V

-----------------------------------------------------------------------------
(* The limits *)

\* No semaphore is held more often than it has places.
Capacity ==
    /\ \A p \in Platforms :
         Cardinality(Users(KeysOf(p), {"global", "await", "reaping"}, {"global"} \union Inside))
           <= PlatformLimit[p]
    /\ Cardinality(Users(Keys, {"await", "reaping"}, Inside)) <= GlobalLimit

LEMMA Semaphores ==
  /\ \A p \in Platforms :
       Semaphore(KeysOf(p), {"global", "await", "reaping"}, {"global"} \union Inside)
  /\ Semaphore(Keys, {"await", "reaping"}, Inside)
BY DEF Semaphore, KeysOf, Inside

LEMMA Limits ==
  GlobalLimit \in Nat /\ \A p \in Platforms : PlatformLimit[p] \in Nat
BY CollectionsAssumption

LEMMA InitCapacity == Init => Reservations /\ Capacity
<1> SUFFICES ASSUME Init PROVE Reservations /\ Capacity
  OBVIOUS
<1>1. /\ \A c \in Callers : caller[c].pc = "idle" /\ caller[c].reaps = "none"
      /\ \A tk \in TaskKeys : task[tk].pc = "none"
  BY IdleShape, NoTaskShape DEF Init
<1>2. ASSUME NEW K, NEW cp, NEW tp, Semaphore(K, cp, tp)
      PROVE  Cardinality(Users(K, cp, tp)) = 0
  <2>1. Users(K, cp, tp) = {}
    BY <1>1, <1>2, CollectionsAssumption
       DEF Users, CallerUses, TaskUses, EndUses, Semaphore, Inside
  <2>2. QED
    BY <2>1, FS_EmptySet
<1>3. Capacity
  BY <1>2, Semaphores, Limits DEF Capacity
<1>4. QED
  BY <1>1, <1>3 DEF Reservations

\* Whatever happens to its users, the bound of a semaphore stays in force.
LEMMA SemaphoreKept ==
  ASSUME IInv, Reservations, [Next]_vars,
         NEW K, NEW cp, NEW tp, Semaphore(K, cp, tp),
         NEW n \in Nat, Cardinality(Users(K, cp, tp)) <= n,
         Admits(K, cp, tp) => Cardinality(Users(K, cp, tp)) < n
  PROVE  Cardinality(Users(K, cp, tp)') <= n
<1>1. Moved(K, cp, tp)
  BY NextMoved
<1>2. IsFiniteSet(Users(K, cp, tp))
  BY UsersFinite
<1> DEFINE U == Users(K, cp, tp)
           V == Users(K, cp, tp)'
<1>3. \/ V \subseteq U
      \/ Cardinality(U) < n /\ \E x : V \subseteq U \union {x}
      \/ \E x \in U : \E y : V \subseteq (U \ {x}) \union {y}
  BY <1>1 DEF Moved, Shrinks
<1> HIDE DEF U, V
<1>4. IsFiniteSet(U) /\ Cardinality(U) <= n
  BY <1>2 DEF U
<1>5. Cardinality(V) <= n
  BY <1>3, <1>4, BoundKept
<1>6. QED
  BY <1>5 DEF V

LEMMA NextCapacity ==
  IInv /\ Reservations /\ Capacity /\ [Next]_vars => (Reservations /\ Capacity)'
<1> SUFFICES ASSUME IInv, Reservations, Capacity, [Next]_vars
             PROVE  Reservations' /\ Capacity'
  OBVIOUS
<1>1. Reservations'
  BY NextMoved, Semaphores
<1>2. ASSUME NEW p \in Platforms
      PROVE  Cardinality(Users(KeysOf(p), {"global", "await", "reaping"}, {"global"} \union Inside)')
               <= PlatformLimit[p]
  <2> DEFINE K == KeysOf(p)
             cp == {"global", "await", "reaping"}
             tp == {"global"} \union Inside
  <2>1. Cardinality(Users(K, cp, tp)) <= PlatformLimit[p] /\ Semaphore(K, cp, tp)
    BY Semaphores DEF Capacity
  <2>2. Admits(K, cp, tp) => PlatformFree(p)
    BY DEF Admits, KeysOf
  <2>3. PlatformFree(p) => Cardinality(Users(K, cp, tp)) < PlatformLimit[p]
    BY PlatformUsersAre DEF PlatformFree
  <2> HIDE DEF K, cp, tp
  <2>4. Cardinality(Users(K, cp, tp)') <= PlatformLimit[p]
    BY <2>1, <2>2, <2>3, Limits, SemaphoreKept
  <2>5. QED
    BY <2>4 DEF K, cp, tp
<1>3. Cardinality(Users(Keys, {"await", "reaping"}, Inside)') <= GlobalLimit
  <2> DEFINE cp == {"await", "reaping"}
  <2>1. Cardinality(Users(Keys, cp, Inside)) <= GlobalLimit /\ Semaphore(Keys, cp, Inside)
    BY Semaphores DEF Capacity
  <2>2. Admits(Keys, cp, Inside) => Cardinality(Users(Keys, cp, Inside)) < GlobalLimit
    BY GlobalUsersAre DEF Admits, GlobalFree
  <2> HIDE DEF cp
  <2>3. QED
    BY <2>1, <2>2, Limits, SemaphoreKept DEF cp
<1>4. Capacity'
  BY <1>2, <1>3 DEF Capacity
<1>5. QED
  BY <1>1, <1>4

\* What runs upstream is within the limit of its platform and within that of
\* the service, with any number of requests and items, shared, cancelled and
\* taken over: an item's reservation covers exactly one collection at a time,
\* and a cancelled collection is counted until it has ended (collection_slot,
\* _collect_with_budget).
THEOREM Bounded == Spec => []CollectionsBounded
<1>1. Spec => [](IInv /\ Reservations /\ Capacity)
  BY InitCounts, NextCounts, InitCapacity, NextCapacity, PTL DEF Spec
<1>2. IInv /\ Reservations /\ Capacity => CollectionsBounded
  <2> SUFFICES ASSUME IInv, Reservations, Capacity PROVE CollectionsBounded
    OBVIOUS
  <2>1. ASSUME NEW p \in Platforms
        PROVE  Cardinality(Upstream(p)) <= PlatformLimit[p]
    BY Semaphores, Limits, UpstreamsFit, UpstreamsAre DEF Capacity
  <2>2. Cardinality(UNION {Upstream(p) : p \in Platforms}) <= GlobalLimit
    BY Semaphores, Limits, UpstreamsFit, UpstreamsAre DEF Capacity
  <2>3. QED
    BY <2>1, <2>2 DEF CollectionsBounded
<1>3. QED
  BY <1>1, <1>2, PTL

-----------------------------------------------------------------------------
(* Nobody waits for ever *)

\* Of those who sleep, the circuit is open, or its end has come.
LEMMA SleepEnds ==
  ASSUME Circuits, NEW a, NEW p \in Platforms
  PROVE  MayWake(a, p) \/ InForce(circuit[p])
<1>1. circuit[p] \in Circuit
  BY DEF Circuits
<1>2. QED
  BY <1>1 DEF MayWake, InForce, Circuit

\* However requests and items share collections, leave and are cancelled, one
\* of those under way goes on by itself.  An item that holds its platform and
\* the service awaits a collection in its own capacity, which never waits for
\* a semaphore; so whoever waits for one waits for a collection upstream, or
\* for an item that awaits one.
THEOREM NeverStandsStill == Spec => []NoStandstill
<1>1. IInv /\ Reservations /\ Circuits => NoStandstill
  <2> SUFFICES ASSUME IInv, Reservations, Circuits,
                      NEW d \in Callers, caller[d].pc # "idle",
                      \A c \in Callers : ~Proceeds(c),
                      \A tk \in TaskKeys : ~Collecting(tk)
               PROVE  FALSE
    BY DEF NoStandstill
  <2>1. \A c \in Callers : caller[c].pc \notin {"cooling", "reaping"}
    BY AskedPlatform, SleepEnds DEF Proceeds
  <2>2. \A tk \in TaskKeys : task[tk].pc \notin Inside
    <3>1. \A tk \in TaskKeys : Collects(tk) \in Platforms
      BY CollectionsAssumption DEF Collects, TaskKeys
    <3>2. QED
      BY <3>1, SleepEnds DEF Collecting, Inside
  <2>3. \A c \in Callers : caller[c].reaps = "none"
    BY <2>1 DEF Reservations
  <2>4. ASSUME NEW c \in Batch
        PROVE  caller[c].pc # "await"
    <3> SUFFICES ASSUME caller[c].pc = "await" PROVE FALSE
      OBVIOUS
    <3> DEFINE tk == TaskKey(c, caller[c].key)
    <3>1. tk \in TaskKeys /\ task[tk].pc # "none"
      BY AwaitedKey, CountedByWaiting, CollectionsAssumption DEF IInv
    <3>2. tk[2]
      BY DEF TaskKey
    <3>3. QED
      BY <2>2, <3>1, <3>2 DEF Reservations
  <2>5. GlobalFree
    <3>1. Users(Keys, {"await", "reaping"}, Inside) = {}
      BY <2>1, <2>2, <2>3, <2>4, CollectionsAssumption
         DEF Users, CallerUses, TaskUses, EndUses, Inside
    <3>2. Cardinality(GlobalUsers) = 0
      BY <3>1, GlobalUsersAre, FS_EmptySet
    <3>3. QED
      BY <3>2, CollectionsAssumption DEF GlobalFree
  <2>6. /\ \A c \in Callers : caller[c].pc # "global"
        /\ \A tk \in TaskKeys : task[tk].pc # "global"
    BY <2>5 DEF Proceeds, Collecting
  <2>7. ASSUME NEW p \in Platforms
        PROVE  PlatformFree(p)
    <3>1. Users(KeysOf(p), {"global", "await", "reaping"}, {"global"} \union Inside) = {}
      BY <2>1, <2>2, <2>3, <2>4, <2>6, CollectionsAssumption
         DEF Users, CallerUses, TaskUses, EndUses, Inside
    <3>2. Cardinality(PlatformUsers(p)) = 0
      BY <3>1, PlatformUsersAre, FS_EmptySet
    <3>3. PlatformLimit[p] \in Nat \ {0}
      BY CollectionsAssumption
    <3>4. QED
      BY <3>2, <3>3 DEF PlatformFree
  <2>8. caller[d].pc = "await"
    <3>1. caller[d].pc \in CallerPlaces /\ caller[d].pc # "platform"
      BY <2>7, AskedPlatform DEF Proceeds, IInv, Shape, Caller
    <3>2. QED
      BY <2>1, <2>6, <3>1 DEF CallerPlaces
  <2> DEFINE tk == TaskKey(d, caller[d].key)
  <2>9. tk \in TaskKeys /\ task[tk].pc # "none"
    BY <2>8, AwaitedKey, CountedByWaiting DEF IInv
  <2> HIDE DEF tk
  <2>10. task[tk].pc \in TaskPlaces /\ Collects(tk) \in Platforms
    BY <2>9, CollectionsAssumption DEF IInv, Shape, Task, Collects, TaskKeys
  <2>11. QED
    BY <2>2, <2>6, <2>7, <2>9, <2>10 DEF Collecting, TaskPlaces
<1>2. Init => IInv /\ Reservations /\ Circuits
  <2>1. Init => Circuits
    BY DEF Init, Circuits, Circuit, ClosedCircuit
  <2>2. QED
    BY <2>1, InitCounts, InitCapacity
<1>3. IInv /\ Reservations /\ Circuits /\ [Next]_vars => (IInv /\ Reservations /\ Circuits)'
  BY NextCounts, NextMoved, NextCircuit, Semaphores
<1>4. QED
  BY <1>1, <1>2, <1>3, PTL DEF Spec

=============================================================================
