-------------------------- MODULE BatchJobsResults --------------------------
(***************************************************************************)
(* For every value of the constants: the results of a job are a log with   *)
(* one result for an item, the stored progress never runs ahead of it, and *)
(* a job is completed only with all of its results.  Writes abandoned by a *)
(* cancellation may land at any later moment, so the argument is about     *)
(* what an append may still do to the log, whoever awaits it: it extends   *)
(* the log by an item that is not in it, or its place is taken.  Then:     *)
(* when only the process interrupts jobs, a completion lasts too, and the  *)
(* job manager implements JobLedger.  At the end: when a run is            *)
(* interrupted at most once, the progress at rest is exact, an answered    *)
(* cancellation is final, and a consumer misses no result.                 *)
(***************************************************************************)
EXTENDS BatchJobsProofs

\* The first n results of j are stored; their items.
Covered(j, n) == \A m \in 0 .. n - 1 : m \in Filled(j)
Written(j, n) == {rows[j][m] : m \in {k \in Filled(j) : k < n}}

\* The results of j have no gap, and no item twice.
RowsLog(j) ==
    /\ \A n \in Filled(j) : Covered(j, n)
    /\ \A m, n \in Filled(j) : rows[j][m] = rows[j][n] => m = n

\* A document of j that memory, a write in flight or the store may hold.
Sound(j, v) ==
    /\ Covered(j, v.completed)
    /\ v.status = "completed" => Items \subseteq Done(j)

OpSound(o) ==
    /\ o.kind = "update" /\ o.stage = "started" => Sound(o.job, o.val)
    /\ o.kind = "append" =>
         /\ Covered(o.job, o.seq)
         /\ o.item \in Items
         /\ o.seq \notin Filled(o.job) => o.item \notin Done(o.job)

\* A resume has read the results it will not collect again.
HasRead(r) == r.pc = "build" \/ (r.pc = "save" /\ r.op = "resume")

CallSound(r) ==
    r.pc # "idle" =>
        /\ Sound(r.job, r.seen)
        /\ HasRead(r) => r.done = Written(r.job, r.seen.completed)

HasItem == {"collect", "lock", "append"}

\* Of a run of j that counts n results: an item is left, or with one of the
\* workers ws, or counted.
Shares(j, left, ws, n) ==
    /\ left \intersect Written(j, n) = {}
    /\ \A w \in Workers : ws[w].pc \in HasItem =>
          ws[w].item \in Items \ (left \union Written(j, n))
    /\ \A v, w \in Workers :
          ws[v].pc \in HasItem /\ ws[w].pc \in HasItem /\ ws[v].item = ws[w].item
             => v = w

\* A worker awaits the append behind the counted results, or it was applied.
Appends(j, ws, ops, n) ==
    \A w \in Workers : ws[w].pc = "append" =>
        \/ \E o \in ops : /\ Held(o) /\ o.own = <<j, w>> /\ o.job = j
                          /\ o.seq = n /\ o.item = ws[w].item
        \/ n \in Filled(j) /\ rows[j][n] = ws[w].item

\* The items of the workers, of those too that end with an exception.
InHand(ws) ==
    {ws[w].item : w \in {v \in Workers : ws[v].pc \in HasItem \union {"dup", "dying"}}}

\* A run r without exception and Argus stop forgets no item.
Planned(j, r, ws, n) ==
    r.pc \in {"sem", "begin", "gather"} /\ r.exc = "none" /\ ~r.stop =>
        /\ Items \subseteq r.left \union InHand(ws) \union Written(j, n)
        /\ r.pc = "gather" /\ (\E w \in Workers : ws[w].pc = "off") => r.left = {}

RunSound(j, r, ws, ops, n) ==
    Shares(j, r.left, ws, n) /\ Appends(j, ws, ops, n) /\ Planned(j, r, ws, n)

ResultsInv ==
    /\ \A j \in Jobs :
         /\ RowsLog(j)
         /\ Sound(j, repo[j]) /\ Sound(j, mem[j])
         /\ RunSound(j, run[j], wk[j], db, mem[j].completed)
    /\ \A o \in db : OpSound(o)
    /\ \A r \in stray : Sound(r.job, r.val)
    /\ \A c \in Threads : CallSound(call[c])

-----------------------------------------------------------------------------
(* The log of results *)

\* The stored results are the first ones.
LEMMA LogSize ==
    ASSUME NEW j, RowsLog(j)
    PROVE  /\ Covered(j, Cardinality(Filled(j)))
           /\ Written(j, Cardinality(Filled(j))) = Done(j)
<1> DEFINE k == Cardinality(Filled(j))
<1>1. IsFiniteSet(Filled(j)) /\ k \in Nat /\ Filled(j) \subseteq Nat
  <2>1. Filled(j) \subseteq Seqs /\ Seqs \subseteq Nat
    BY DEF Filled, Seqs
  <2>2. QED
    BY <2>1, FilledFinite
<1>2. Filled(j) \subseteq 0 .. k - 1
  <2>1. SUFFICES ASSUME NEW n \in Filled(j)
                 PROVE  n \in 0 .. k - 1
    OBVIOUS
  <2>2. 0 .. n \in SUBSET Filled(j)
    BY <1>1, <2>1 DEF RowsLog, Covered
  <2>3. n \in Nat /\ Cardinality(0 .. n) = n + 1
    BY <1>1, FS_Interval
  <2>4. n + 1 <= k
    BY <1>1, <2>2, <2>3, FS_Subset
  <2>5. QED
    BY <1>1, <2>3, <2>4
<1>3. IsFiniteSet(0 .. k - 1) /\ Cardinality(0 .. k - 1) = k
  <2>1. k - 1 \in Int /\ 0 \in Int
    BY <1>1
  <2>2. /\ IsFiniteSet(0 .. k - 1)
        /\ Cardinality(0 .. k - 1) = IF 0 > k - 1 THEN 0 ELSE k - 1 - 0 + 1
    BY <2>1, FS_Interval
  <2>3. QED
    BY <1>1, <2>2
<1>4. Filled(j) = 0 .. k - 1
  BY <1>2, <1>3, FS_Subset
<1>5. Covered(j, k)
  BY <1>4 DEF Covered
<1>6. {m \in Filled(j) : m < k} = Filled(j)
  BY <1>1, <1>4
<1>7. QED
  BY <1>5, <1>6 DEF Written, Done

\* There is a place behind the log for an item that has no result.
LEMMA RoomForResult ==
    ASSUME TypeOK, NEW j \in Jobs, RowsLog(j),
           NEW n \in Nat, Covered(j, n), NEW i \in Items, i \notin Done(j)
    PROVE  n \in Seqs
<1> DEFINE S == 0 .. n - 1
           T == Items \ {i}
           f == [m \in S |-> rows[j][m]]
<1>1. IsFiniteSet(Items) /\ Cardinality(Items) \in Nat
  BY SizesAssumption, FS_CardinalityType
<1>2. IsFiniteSet(T) /\ Cardinality(T) = Cardinality(Items) - 1
  BY <1>1, FS_RemoveElement
<1>3. S \subseteq Filled(j)
  BY DEF Covered
<1>4. \A m \in Filled(j) : rows[j][m] \in T
  BY DEF TypeOK, Filled, Done
<1>5. f \in Injection(S, T)
  <2>1. f \in [S -> T]
    BY <1>3, <1>4
  <2>2. \A a, b \in S : f[a] = f[b] => a = b
    BY <1>3 DEF RowsLog
  <2>3. QED
    BY <2>1, <2>2 DEF Injection, IsInjective
<1>6. Cardinality(S) <= Cardinality(T)
  BY <1>2, <1>5, FS_Injection
<1>7. Cardinality(S) = n
  <2>1. Cardinality(S) = IF 0 > n - 1 THEN 0 ELSE n - 1 - 0 + 1
    BY FS_Interval
  <2>2. QED
    BY <2>1
<1>8. QED
  BY <1>1, <1>2, <1>6, <1>7 DEF Seqs

\* What is said about results only depends on the stored rows.
LEMMA SameRows ==
    ASSUME UNCHANGED rows
    PROVE  /\ \A j : RowsLog(j)' <=> RowsLog(j)
           /\ \A j, v : Sound(j, v)' <=> Sound(j, v)
           /\ \A o : OpSound(o)' <=> OpSound(o)
           /\ \A r : CallSound(r)' <=> CallSound(r)
           /\ \A j, r, ws, ops, n :
                 RunSound(j, r, ws, ops, n)' <=> RunSound(j, r, ws, ops, n)
<1>1. \A j : Filled(j)' = Filled(j)
  BY DEF Filled
<1>2. \A j : Done(j)' = Done(j)
  BY <1>1 DEF Done
<1>3. \A j, n : Covered(j, n)' <=> Covered(j, n)
  BY <1>1 DEF Covered
<1>4. \A j, n : Written(j, n)' = Written(j, n)
  BY <1>1 DEF Written
<1>5. \A j : RowsLog(j)' <=> RowsLog(j)
  BY <1>1, <1>3 DEF RowsLog
<1>6. \A j, v : Sound(j, v)' <=> Sound(j, v)
  BY <1>2, <1>3 DEF Sound
<1>7. \A o : OpSound(o)' <=> OpSound(o)
  BY <1>1, <1>2, <1>3, <1>6 DEF OpSound
<1>8. \A r : CallSound(r)' <=> CallSound(r)
  BY <1>4, <1>6 DEF CallSound
<1>9. \A j, left, ws, n : Shares(j, left, ws, n)' <=> Shares(j, left, ws, n)
  BY <1>4 DEF Shares
<1>10. ASSUME NEW j, NEW ws, NEW ops, NEW n
       PROVE  Appends(j, ws, ops, n)' <=> Appends(j, ws, ops, n)
  <2>1. Filled(j)' = Filled(j) /\ rows' = rows
    BY <1>1
  <2>2. QED
    BY <2>1 DEF Appends, Held
<1>11. \A j, r, ws, n : Planned(j, r, ws, n)' <=> Planned(j, r, ws, n)
  BY <1>4 DEF Planned
<1>12. \A j, r, ws, ops, n :
          RunSound(j, r, ws, ops, n)' <=> RunSound(j, r, ws, ops, n)
  BY <1>9, <1>10, <1>11 DEF RunSound
<1>13. QED
  BY <1>5, <1>6, <1>7, <1>8, <1>12

\* A step that stores no result keeps the invariant when what it writes to
\* memory, to the store and to the calls is sound.
LEMMA ResultsStep ==
    ASSUME ResultsInv, UNCHANGED rows,
           \A j \in Jobs :
              /\ Sound(j, repo'[j]) /\ Sound(j, mem'[j])
              /\ RunSound(j, run'[j], wk'[j], db', mem'[j].completed),
           \A o \in db' : OpSound(o),
           \A r \in stray' : Sound(r.job, r.val),
           \A c \in Threads : CallSound(call'[c])
    PROVE  ResultsInv'
<1>1. \A j \in Jobs : RowsLog(j)
  BY DEF ResultsInv
<1>2. \A j \in Jobs :
         /\ RowsLog(j)'
         /\ Sound(j, repo[j])' /\ Sound(j, mem[j])'
         /\ RunSound(j, run[j], wk[j], db, mem[j].completed)'
  BY <1>1, SameRows
<1>3. /\ \A o \in db' : OpSound(o)'
      /\ \A r \in stray' : Sound(r.job, r.val)'
      /\ \A c \in Threads : CallSound(call[c])'
  BY SameRows
<1>4. QED
  BY <1>2, <1>3 DEF ResultsInv

\* Sound documents: a new job, and a job document with another progress or
\* status.
LEMMA NewSound ==
    ASSUME NEW j
    PROVE  /\ Sound(j, NoJob) /\ Sound(j, Fresh(j))
           /\ CallSound(NoCall)
           /\ \A p : OpSound(Update(j, p))
BY DEF Sound, Covered, NoJob, Fresh, CallSound, NoCall, OpSound, Update

LEMMA SameSound ==
    ASSUME NEW j, NEW u, NEW v, Sound(j, u), v.completed = u.completed,
           v.status \in {u.status, "failed", "running", "cancelled", "queued"}
    PROVE  Sound(j, v)
BY DEF Sound

\* Fewer items left, and workers that end, change or keep what they do with
\* the item they have.
LEMMA SharesLess ==
    ASSUME NEW j, NEW left, NEW ws, NEW n, Shares(j, left, ws, n),
           NEW rest \in SUBSET left, NEW vs,
           \A w \in Workers : vs[w].pc \in HasItem =>
              ws[w].pc \in HasItem /\ vs[w].item = ws[w].item
    PROVE  Shares(j, rest, vs, n)
BY DEF Shares

\* Workers keep waiting for the operations that stay in flight.
LEMMA AppendsKept ==
    ASSUME NEW j, NEW ws, NEW n, NEW ops, NEW qs, Appends(j, ws, ops, n),
           NEW vs,
           \A w \in Workers : vs[w].pc = "append" =>
              ws[w].pc = "append" /\ vs[w].item = ws[w].item,
           \A o \in ops, w \in Workers :
              Held(o) /\ o.own = <<j, w>> /\ vs[w].pc = "append" => o \in qs
    PROVE  Appends(j, vs, qs, n)
BY DEF Appends

-----------------------------------------------------------------------------
(* Repository operations *)

\* More results: what was stored stays where it is, and a new result is the
\* next one of its job.
Grows(j, n, i) ==
    /\ n \in Seqs /\ n \notin Filled(j) /\ Covered(j, n)
    /\ i \in Items \ Done(j)
    /\ rows' = [rows EXCEPT ![j][n] = i]

LEMMA GrownRows ==
    ASSUME TypeOK, NEW j \in Jobs, NEW n, NEW i, RowsLog(j), Grows(j, n, i)
    PROVE  /\ \A k \in Jobs \ {j} : rows'[k] = rows[k]
           /\ \A m \in Seqs \ {n} : rows'[j][m] = rows[j][m]
           /\ rows'[j][n] = i
           /\ \A k \in Jobs \ {j} : Filled(k)' = Filled(k)
           /\ Filled(j)' = Filled(j) \union {n}
           /\ Filled(j) = 0 .. n - 1
           /\ \A m : \A k \in Jobs : Written(k, m) \subseteq Done(k)
           /\ \A k \in Jobs : Done(k) \subseteq Items
<1>1. /\ \A k \in Jobs \ {j} : rows'[k] = rows[k]
      /\ \A m \in Seqs \ {n} : rows'[j][m] = rows[j][m]
      /\ rows'[j][n] = i
  BY DEF Grows, TypeOK
<1>2. \A k \in Jobs \ {j} : Filled(k)' = Filled(k)
  BY <1>1 DEF Filled
<1>3. i # NoItem
  BY SizesAssumption DEF Grows
<1>4. Filled(j)' = Filled(j) \union {n}
  BY <1>1, <1>3 DEF Filled, Grows
<1>5. Filled(j) = 0 .. n - 1
  <2>1. 0 .. n - 1 \subseteq Filled(j)
    BY DEF Grows, Covered
  <2>2. ASSUME NEW m \in Filled(j)
        PROVE  m \in 0 .. n - 1
    <3>1. m \in Nat /\ n \in Nat
      BY DEF Filled, Seqs, Grows
    <3>2. Covered(j, m)
      BY DEF RowsLog
    <3>3. n \notin 0 .. m - 1 /\ n # m
      BY <2>2, <3>2 DEF Covered, Grows
    <3>4. QED
      BY <3>1, <3>3
  <2>3. QED
    BY <2>1, <2>2
<1>6. \A m : \A k \in Jobs : Written(k, m) \subseteq Done(k)
  BY DEF Written, Done
<1>7. \A k \in Jobs : Done(k) \subseteq Items
  BY DEF TypeOK, Done, Filled
<1>8. QED
  BY <1>1, <1>2, <1>4, <1>5, <1>6, <1>7

\* What held before about the results of k still does.
LEMMA GrownSound ==
    ASSUME TypeOK, NEW j \in Jobs, NEW n, NEW i, RowsLog(j), Grows(j, n, i)
    PROVE  /\ \A m : \A k \in Jobs : Covered(k, m) => Covered(k, m)'
           /\ \A k \in Jobs, m \in Nat :
                 Covered(k, m) => Written(k, m)' = Written(k, m)
           /\ \A k \in Jobs : Done(k) \subseteq Done(k)'
           /\ \A v : \A k \in Jobs : Sound(k, v) => Sound(k, v)'
<1>1. \A k \in Jobs : Filled(k) \subseteq Filled(k)'
  BY GrownRows
<1>2. \A k \in Jobs : \A m \in Filled(k) : rows'[k][m] = rows[k][m]
  BY GrownRows DEF Filled, Grows
<1>3. \A m : \A k \in Jobs : Covered(k, m) => Covered(k, m)'
  BY <1>1 DEF Covered
<1>4. ASSUME NEW k \in Jobs, NEW m \in Nat, Covered(k, m)
      PROVE  Written(k, m)' = Written(k, m)
  <2>1. {a \in Filled(k)' : a < m} = {a \in Filled(k) : a < m}
    <3>1. CASE k = j
      <4>1. n \in Nat /\ n \notin 0 .. m - 1
        BY <1>4, <3>1 DEF Covered, Grows, Seqs
      <4>2. ~(n < m)
        BY <4>1
      <4>3. QED
        BY <3>1, <4>2, GrownRows
    <3>2. CASE k # j
      BY <3>2, GrownRows
    <3>3. QED
      BY <3>1, <3>2
  <2> DEFINE T == {a \in Filled(k) : a < m}
  <2>2. \A a \in T : rows'[k][a] = rows[k][a]
    BY <1>2
  <2>3. Written(k, m) = {rows[k][a] : a \in T}
    BY DEF Written
  <2>4. Written(k, m)' = {rows'[k][a] : a \in T}
    BY <2>1 DEF Written
  <2> HIDE DEF T
  <2>5. \A x : x \in {rows'[k][a] : a \in T} <=> x \in {rows[k][a] : a \in T}
    BY <2>2
  <2>6. QED
    BY <2>3, <2>4, <2>5
<1>5. \A k \in Jobs : Done(k) \subseteq Done(k)'
  BY <1>1, <1>2 DEF Done
<1>6. \A v : \A k \in Jobs : Sound(k, v) => Sound(k, v)'
  BY <1>3, <1>5 DEF Sound
<1>7. QED
  BY <1>3, <1>4, <1>5, <1>6

\* The log has one more item.
LEMMA GrownLog ==
    ASSUME TypeOK, NEW j \in Jobs, NEW n, NEW i,
           \A k \in Jobs : RowsLog(k), Grows(j, n, i)
    PROVE  \A k \in Jobs : RowsLog(k)'
<1>1. ASSUME NEW k \in Jobs, k # j
      PROVE  RowsLog(k)'
  <2>1. Filled(k)' = Filled(k) /\ rows'[k] = rows[k]
    BY <1>1, GrownRows
  <2>2. QED
    BY <2>1 DEF RowsLog, Covered
<1>2. RowsLog(j)'
  <2>1. n \in Nat /\ Filled(j)' = 0 .. n
    <3>1. n \in Nat
      BY DEF Grows, Seqs
    <3>2. Filled(j)' = (0 .. n - 1) \union {n}
      BY GrownRows
    <3>3. QED
      BY <3>1, <3>2
  <2>2. \A m \in Filled(j)' : Covered(j, m)'
    BY <2>1 DEF Covered
  <2>3. \A a \in Filled(j) : rows'[j][a] = rows[j][a] /\ rows[j][a] # i
    BY GrownRows DEF Done, Filled, Grows
  <2>4. rows'[j][n] = i /\ Filled(j)' = Filled(j) \union {n}
    BY GrownRows
  <2>5. \A a, b \in Filled(j)' : rows'[j][a] = rows'[j][b] => a = b
    BY <2>3, <2>4 DEF RowsLog
  <2>6. QED
    BY <2>2, <2>5 DEF RowsLog
<1>3. QED
  BY <1>1, <1>2

\* An applied append that finds its place free extends the log; whoever was
\* to append behind the log finds a result there.
LEMMA GrownResults ==
    ASSUME TypeOK, LockInv, ResultsInv, NEW o \in db, o.kind = "append",
           o.seq \notin Filled(o.job),
           rows' = [rows EXCEPT ![o.job][o.seq] = o.item],
           db' = db \ {o}, UNCHANGED <<repo, mem, run, wk, stray, call>>
    PROVE  ResultsInv'
<1> DEFINE j == o.job
           n == o.seq
<1>1. j \in Jobs /\ n \in Nat
  BY DEF TypeOK, Operation
<1>2. Covered(j, n) /\ o.item \in Items \ Done(j)
  BY DEF ResultsInv, OpSound
<1>3. \A k \in Jobs : RowsLog(k)
  BY DEF ResultsInv
<1>4. n \in Seqs
  BY <1>1, <1>2, <1>3, RoomForResult
<1>5. Grows(j, n, o.item)
  BY <1>2, <1>4 DEF Grows
<1> HIDE DEF j, n
<1>6. \A k \in Jobs : RowsLog(k)'
  BY <1>1, <1>3, <1>5, GrownLog
<1>7. \A v : \A k \in Jobs : Sound(k, v) => Sound(k, v)'
  BY <1>1, <1>3, <1>5, GrownSound
<1>8. \A k \in Jobs, m \in Nat : Covered(k, m) => Written(k, m)' = Written(k, m)
  BY <1>1, <1>3, <1>5, GrownSound
<1>9. \A k \in Jobs : mem[k].completed \in Nat
  BY DEF TypeOK, StoredJob
<1>10. \A k \in Jobs : Written(k, mem[k].completed)' = Written(k, mem[k].completed)
  <2>1. \A k \in Jobs : Covered(k, mem[k].completed)
    BY DEF ResultsInv, Sound
  <2>2. mem' = mem
    OBVIOUS
  <2>3. QED
    BY <1>8, <1>9, <2>1, <2>2
<1>11. \A q \in db' : OpSound(q)'
  <2>1. SUFFICES ASSUME NEW q \in db'
                 PROVE  OpSound(q)'
    OBVIOUS
  <2>2. q \in db /\ q.job \in Jobs /\ q.seq \in Nat /\ OpSound(q)
    BY DEF TypeOK, Operation, ResultsInv
  <2>3. q.kind = "update" /\ q.stage = "started" => Sound(q.job, q.val)'
    BY <1>7, <2>2 DEF OpSound
  <2>4. ASSUME q.kind = "append"
        PROVE  Covered(q.job, q.seq)'
    BY <1>1, <1>3, <1>5, <2>2, <2>4, GrownSound DEF OpSound
  <2>5. ASSUME q.kind = "append", q.seq \notin Filled(q.job)'
        PROVE  q.item \notin Done(q.job)'
    <3>1. CASE q.job # j
      <4>1. Filled(q.job)' = Filled(q.job) /\ rows'[q.job] = rows[q.job]
        BY <1>1, <1>3, <1>5, <2>2, <3>1, GrownRows
      <4>2. Done(q.job)' = Done(q.job)
        BY <4>1 DEF Done
      <4>3. QED
        BY <2>2, <2>5, <4>1, <4>2 DEF OpSound
    <3>2. CASE q.job = j
      <4>1. Filled(j)' = Filled(j) \union {n} /\ Filled(j) = 0 .. n - 1
        BY <1>1, <1>3, <1>5, GrownRows
      <4>2. Covered(j, q.seq)
        BY <2>2, <2>5, <3>2 DEF OpSound
      <4>3. q.seq \notin 0 .. n - 1 /\ q.seq # n
        BY <2>5, <3>2, <4>1
      <4>4. n \in 0 .. q.seq - 1
        BY <1>1, <2>2, <4>3
      <4>5. n \in Filled(j)
        BY <4>2, <4>4 DEF Covered
      <4>6. n \notin 0 .. n - 1
        BY <1>1
      <4>7. QED
        BY <4>1, <4>5, <4>6
    <3>3. QED
      BY <3>1, <3>2
  <2>6. QED
    BY <2>2, <2>3, <2>4, <2>5 DEF OpSound
<1>12. \A k \in Jobs : RunSound(k, run[k], wk[k], db, mem[k].completed)'
  <2>1. SUFFICES ASSUME NEW k \in Jobs
                 PROVE  RunSound(k, run[k], wk[k], db, mem[k].completed)'
    OBVIOUS
  <2>2. RunSound(k, run[k], wk[k], db, mem[k].completed)
    BY DEF ResultsInv
  <2>3. Shares(k, run[k].left, wk[k], mem[k].completed)'
    BY <1>10, <2>2 DEF RunSound, Shares
  <2>4. Planned(k, run[k], wk[k], mem[k].completed)'
    BY <1>10, <2>2 DEF RunSound, Planned
  <2>5. Appends(k, wk[k], db, mem[k].completed)'
    <3>1. SUFFICES ASSUME NEW w \in Workers, wk[k][w].pc = "append"
                   PROVE  \/ \E q \in db \ {o} :
                                /\ Held(q) /\ q.own = <<k, w>> /\ q.job = k
                                /\ q.seq = mem[k].completed
                                /\ q.item = wk[k][w].item
                          \/ /\ mem[k].completed \in Filled(k)'
                             /\ rows'[k][mem[k].completed] = wk[k][w].item
      BY DEF Appends, Held
    <3>2. CASE /\ mem[k].completed \in Filled(k)
               /\ rows[k][mem[k].completed] = wk[k][w].item
      <4>1. mem[k].completed \in Filled(k)'
        BY <1>1, <1>3, <1>5, <3>2, GrownRows
      <4>2. rows'[k][mem[k].completed] = rows[k][mem[k].completed]
        <5>1. CASE k = j
          <6>1. mem[k].completed \in Seqs \ {n}
            BY <1>5, <3>2, <5>1 DEF Filled, Grows
          <6>2. QED
            BY <1>1, <1>3, <1>5, <5>1, <6>1, GrownRows
        <5>2. CASE k # j
          BY <1>1, <1>3, <1>5, <5>2, GrownRows
        <5>3. QED
          BY <5>1, <5>2
      <4>3. QED
        BY <3>2, <4>1, <4>2
    <3>3. ASSUME NEW q \in db, Held(q), q.own = <<k, w>>, q.job = k,
                 q.seq = mem[k].completed, q.item = wk[k][w].item
          PROVE  \/ q \in db \ {o}
                 \/ /\ mem[k].completed \in Filled(k)'
                    /\ rows'[k][mem[k].completed] = wk[k][w].item
      <4>1. CASE q = o
        <5>1. k = j /\ mem[k].completed = n /\ wk[k][w].item = o.item
          BY <3>3, <4>1 DEF j, n
        <5>2. n \in Filled(j)' /\ rows'[j][n] = o.item
          BY <1>1, <1>3, <1>5, GrownRows
        <5>3. QED
          BY <5>1, <5>2
      <4>2. QED
        BY <4>1
    <3>4. QED
      BY <2>2, <3>1, <3>2, <3>3 DEF RunSound, Appends
  <2>6. QED
    BY <2>3, <2>4, <2>5 DEF RunSound
<1>13. \A c \in Threads : CallSound(call[c])'
  <2>1. SUFFICES ASSUME NEW c \in Threads, call[c].pc # "idle"
                 PROVE  CallSound(call[c])'
    BY DEF CallSound
  <2>2. call[c].job \in Jobs /\ call[c].seen \in StoredJob
    BY <2>1, CallTypes
  <2>3. call[c].seen.completed \in Nat /\ CallSound(call[c])
    BY <2>2 DEF StoredJob, ResultsInv
  <2>4. Sound(call[c].job, call[c].seen)'
    BY <1>7, <2>1, <2>2, <2>3 DEF CallSound
  <2>5. Written(call[c].job, call[c].seen.completed)'
          = Written(call[c].job, call[c].seen.completed)
    BY <1>8, <2>1, <2>2, <2>3 DEF CallSound, Sound
  <2>6. QED
    BY <2>1, <2>3, <2>4, <2>5 DEF CallSound, HasRead
<1>14. /\ \A k \in Jobs : Sound(k, repo[k])' /\ Sound(k, mem[k])'
       /\ \A r \in stray : Sound(r.job, r.val)'
  BY <1>7 DEF ResultsInv, TypeOK
<1>15. stray' = stray
  OBVIOUS
<1>16. QED
  BY <1>6, <1>11, <1>12, <1>13, <1>14, <1>15 DEF ResultsInv

LEMMA StorageResults ==
    ASSUME TypeOK, LockInv, ResultsInv, Storage
    PROVE  ResultsInv'
<1>1. PICK o \in db : StartOp(o) \/ ApplyUpdate(o) \/ ApplyAppend(o)
  BY DEF Storage
<1>2. o \in Operation /\ o.job \in Jobs /\ OpSound(o)
  BY DEF TypeOK, Operation, ResultsInv
<1>3. /\ \A j \in Jobs : Sound(j, repo[j]) /\ Sound(j, mem[j])
      /\ \A j \in Jobs : RunSound(j, run[j], wk[j], db, mem[j].completed)
      /\ \A q \in db : OpSound(q)
      /\ \A r \in stray : Sound(r.job, r.val)
      /\ \A c \in Threads : CallSound(call[c])
  BY DEF ResultsInv
<1>4. CASE StartOp(o)
  <2> DEFINE q == [o EXCEPT !.stage = "started",
                            !.val = IF o.kind = "update" THEN mem[o.job] ELSE @]
  <2>1. /\ db' = (db \ {o}) \union {q}
        /\ UNCHANGED <<repo, rows, mem, run, wk, call, stray>>
    BY <1>4 DEF StartOp
  <2>2. /\ q.kind = o.kind /\ q.job = o.job /\ q.live = o.live
        /\ q.own = o.own /\ q.seq = o.seq /\ q.item = o.item
        /\ q.kind = "update" => q.val = mem[o.job]
    BY <1>2 DEF Operation
  <2> HIDE DEF q
  <2>3. OpSound(q)
    BY <1>2, <1>3, <2>2 DEF OpSound
  <2>4. \A p \in db' : OpSound(p)
    BY <1>3, <2>1, <2>3
  <2>5. ASSUME NEW j \in Jobs
        PROVE  RunSound(j, run'[j], wk'[j], db', mem'[j].completed)
    <3>1. Appends(j, wk[j], db', mem[j].completed)
      BY <1>3, <2>1, <2>2 DEF RunSound, Appends, Held
    <3>2. QED
      BY <1>3, <2>1, <3>1 DEF RunSound
  <2>6. QED
    BY <1>3, <2>1, <2>4, <2>5, ResultsStep
<1>5. CASE ApplyUpdate(o)
  <2>1. /\ db' = db \ {o} /\ repo' = [repo EXCEPT ![o.job] = o.val]
        /\ UNCHANGED <<rows, mem, run, wk, call, stray>> /\ ~Held(o)
        /\ Sound(o.job, o.val)
    BY <1>2, <1>5 DEF ApplyUpdate, Held, OpSound
  <2>2. \A j \in Jobs : Sound(j, repo'[j])
    BY <1>3, <2>1 DEF TypeOK
  <2>3. ASSUME NEW j \in Jobs
        PROVE  RunSound(j, run'[j], wk'[j], db', mem'[j].completed)
    <3>1. Appends(j, wk[j], db', mem[j].completed)
      BY <1>3, <2>1 DEF RunSound, Appends
    <3>2. QED
      BY <1>3, <2>1, <3>1 DEF RunSound
  <2>4. QED
    BY <1>3, <2>1, <2>2, <2>3, ResultsStep
<1>6. CASE ApplyAppend(o) /\ o.seq \notin Filled(o.job)
  <2>1. o.kind = "append" /\ db' = db \ {o} /\ UNCHANGED <<repo, mem, run, stray, call>>
    BY <1>6 DEF ApplyAppend
  <2>2. o.seq \in Seqs
    <3>1. o.seq \in Nat
      BY <1>2 DEF Operation
    <3>2. Covered(o.job, o.seq) /\ o.item \in Items /\ o.item \notin Done(o.job)
      BY <1>2, <1>6, <2>1 DEF OpSound
    <3>3. RowsLog(o.job)
      BY <1>2 DEF ResultsInv
    <3>4. QED
      BY <1>2, <3>1, <3>2, <3>3, RoomForResult
  <2>3. rows[o.job][o.seq] = NoItem
    BY <1>6, <2>2 DEF Filled
  <2>4. rows' = [rows EXCEPT ![o.job][o.seq] = o.item] /\ wk' = wk
    BY <1>6, <2>3 DEF ApplyAppend
  <2>5. QED
    BY <1>6, <2>1, <2>4, GrownResults
<1>7. CASE ApplyAppend(o) /\ o.seq \in Filled(o.job)
  <2>1. /\ o.kind = "append" /\ db' = db \ {o}
        /\ UNCHANGED <<repo, rows, mem, run, stray, call>>
        /\ o.live => wk' = [wk EXCEPT ![o.job][o.own[2]].pc = "dup"]
        /\ ~o.live => wk' = wk
    BY <1>7 DEF ApplyAppend, Filled
  <2>2. CASE ~o.live
    <3>1. ASSUME NEW j \in Jobs
          PROVE  RunSound(j, run'[j], wk'[j], db', mem'[j].completed)
      <4>1. Appends(j, wk[j], db', mem[j].completed)
        BY <1>3, <2>1, <2>2 DEF RunSound, Appends, Held
      <4>2. QED
        BY <1>3, <2>1, <2>2, <4>1 DEF RunSound
    <3>2. QED
      BY <1>3, <2>1, <3>1, ResultsStep
  <2>3. CASE o.live
    <3>1. PICK w \in Workers : o.own = <<o.job, w>> /\ wk[o.job][w].pc = "append"
      BY <2>1, <2>3 DEF LockInv, Awaited, Held
    <3>2. /\ \A k \in Jobs \ {o.job} : wk'[k] = wk[k]
          /\ \A v \in Workers \ {w} : wk'[o.job][v] = wk[o.job][v]
          /\ wk'[o.job][w] = [wk[o.job][w] EXCEPT !.pc = "dup"]
      <4>1. o.own[2] = w
        BY <3>1
      <4>2. wk' = [wk EXCEPT ![o.job][w].pc = "dup"]
        BY <2>1, <2>3, <4>1
      <4>3. QED
        BY <1>2, <4>2 DEF TypeOK
    <3>3. wk'[o.job][w].pc = "dup" /\ wk'[o.job][w].item = wk[o.job][w].item
      BY <1>2, <3>2 DEF TypeOK, Worker
    <3>4. ASSUME NEW j \in Jobs
          PROVE  RunSound(j, run'[j], wk'[j], db', mem'[j].completed)
      <4>1. RunSound(j, run[j], wk[j], db, mem[j].completed)
        BY <1>3
      <4>2. \A v \in Workers : /\ wk'[j][v].item = wk[j][v].item
                               /\ \/ wk'[j][v].pc = wk[j][v].pc
                                  \/ /\ wk[j][v].pc = "append"
                                     /\ wk'[j][v].pc = "dup"
        BY <3>1, <3>2, <3>3
      <4>3. Shares(j, run[j].left, wk'[j], mem[j].completed)
        BY <4>1, <4>2, SharesLess DEF RunSound, HasItem
      <4>4. Appends(j, wk'[j], db', mem[j].completed)
        <5>1. \A q \in db, v \in Workers :
                 Held(q) /\ q.own = <<j, v>> /\ wk'[j][v].pc = "append" => q \in db'
          <6>1. SUFFICES ASSUME NEW v \in Workers, o.own = <<j, v>>
                         PROVE  wk'[j][v].pc # "append"
            BY <2>1
          <6>2. v = w /\ j = o.job
            BY <3>1, <6>1
          <6>3. QED
            BY <3>3, <6>2
        <5>2. \A v \in Workers : wk'[j][v].pc = "append" =>
                 wk[j][v].pc = "append" /\ wk'[j][v].item = wk[j][v].item
          BY <4>2
        <5>3. Appends(j, wk[j], db, mem[j].completed)
          BY <4>1 DEF RunSound
        <5>4. QED
          BY <5>1, <5>2, <5>3, AppendsKept
      <4>5. InHand(wk[j]) \subseteq InHand(wk'[j])
        BY <4>2 DEF InHand, HasItem
      <4>6. Planned(j, run[j], wk'[j], mem[j].completed)
        BY <4>1, <4>2, <4>5 DEF RunSound, Planned
      <4>7. QED
        BY <2>1, <4>3, <4>4, <4>6 DEF RunSound
    <3>5. QED
      BY <1>3, <2>1, <3>4, ResultsStep
  <2>4. QED
    BY <2>2, <2>3
<1>8. QED
  BY <1>1, <1>4, <1>5, <1>6, <1>7

LEMMA StraysResults ==
    ASSUME TypeOK, ResultsInv, Strays
    PROVE  ResultsInv'
<1>1. PICK r \in stray : StrayPost(r)
  BY DEF Strays
<1>2. PICK h \in {"sent", "failed"} :
         db' = db \union {[Update(r.job, NoProc) EXCEPT
                             !.stage = "started",
                             !.val = [r.val EXCEPT !.webhook = h]]}
  BY <1>1 DEF StrayPost
<1> DEFINE v == [r.val EXCEPT !.webhook = h]
           q == [Update(r.job, NoProc) EXCEPT !.stage = "started", !.val = v]
<1>3. /\ UNCHANGED <<repo, rows, mem, run, wk, call>> /\ stray' \subseteq stray
      /\ db' = db \union {q}
  BY <1>1, <1>2 DEF StrayPost
<1>4. r.val \in StoredJob /\ Sound(r.job, r.val)
  BY DEF TypeOK, ResultsInv
<1>5. v.completed = r.val.completed /\ v.status = r.val.status
  BY <1>4 DEF StoredJob
<1>6. Sound(r.job, v)
  BY <1>4, <1>5, SameSound
<1>7. q.kind = "update" /\ q.job = r.job /\ q.val = v
  <2> HIDE DEF v
  <2>1. QED
    BY DEF Update
<1> HIDE DEF v, q
<1>8. OpSound(q)
  BY <1>6, <1>7 DEF OpSound
<1>9. ASSUME NEW j \in Jobs
      PROVE  RunSound(j, run'[j], wk'[j], db', mem'[j].completed)
  <2>1. RunSound(j, run[j], wk[j], db, mem[j].completed)
    BY DEF ResultsInv
  <2>2. Appends(j, wk[j], db', mem[j].completed)
    BY <1>3, <2>1, AppendsKept DEF RunSound
  <2>3. QED
    BY <1>3, <2>1, <2>2 DEF RunSound
<1>10. QED
  BY <1>3, <1>8, <1>9, ResultsStep DEF ResultsInv

-----------------------------------------------------------------------------
(* The run task of a job *)

Early == {"sem", "begin", "gather"}

\* A step of the run task of j that leaves the workers alone: it counts no
\* result and plans no item anew.
TaskResult(j, ops) ==
    /\ \A k \in Jobs \ {j} : run'[k] = run[k] /\ mem'[k] = mem[k]
    /\ mem'[j].completed = mem[j].completed /\ Sound(j, mem'[j])
    /\ run'[j].left \subseteq run[j].left
    /\ run'[j].pc \in Early =>
          /\ run'[j].left = run[j].left /\ run[j].pc \in Early
          /\ run'[j].pc = "gather" => run[j].pc = "gather"
          /\ run'[j].exc = run[j].exc /\ run'[j].stop = run[j].stop
    /\ \A c \in Threads : call'[c] = call[c] \/ call'[c] = NoCall
    /\ \A o \in db' : o \in ops \/ o = Update(j, j)
    /\ ops \subseteq db'

LEMMA TaskResults ==
    ASSUME TypeOK, ResultsInv, NEW j \in Jobs, NEW ops, TaskResult(j, ops),
           UNCHANGED <<rows, repo, wk>>,
           \A o \in ops : OpSound(o),
           \A o \in db : Held(o) => o \in ops,
           \A r \in stray' : r \in stray \/ Sound(r.job, r.val)
    PROVE  ResultsInv'
<1>1. /\ \A k \in Jobs : Sound(k, repo[k]) /\ Sound(k, mem[k])
      /\ \A k \in Jobs : RunSound(k, run[k], wk[k], db, mem[k].completed)
      /\ \A r \in stray : Sound(r.job, r.val)
      /\ \A c \in Threads : CallSound(call[c])
  BY DEF ResultsInv
<1>2. \A k \in Jobs : Sound(k, repo'[k]) /\ Sound(k, mem'[k])
  BY <1>1 DEF TaskResult
<1>3. \A o \in db' : OpSound(o)
  BY NewSound DEF TaskResult
<1>4. \A c \in Threads : CallSound(call'[c])
  BY <1>1, NewSound DEF TaskResult
<1>5. ASSUME NEW k \in Jobs
      PROVE  RunSound(k, run'[k], wk'[k], db', mem'[k].completed)
  <2>1. RunSound(k, run[k], wk[k], db, mem[k].completed) /\ wk'[k] = wk[k]
    BY <1>1
  <2>2. /\ mem'[k].completed = mem[k].completed
        /\ run'[k].left \subseteq run[k].left
        /\ run'[k].pc \in Early =>
              /\ run'[k].left = run[k].left /\ run[k].pc \in Early
              /\ run'[k].pc = "gather" => run[k].pc = "gather"
              /\ run'[k].exc = run[k].exc /\ run'[k].stop = run[k].stop
    BY DEF TaskResult
  <2>3. Shares(k, run'[k].left, wk[k], mem[k].completed)
    BY <2>1, <2>2, SharesLess DEF RunSound
  <2>4. \A o \in db : Held(o) => o \in db'
    BY DEF TaskResult
  <2>5. Appends(k, wk[k], db', mem[k].completed)
    BY <2>1, <2>4 DEF RunSound, Appends
  <2>6. Planned(k, run'[k], wk[k], mem[k].completed)
    BY <2>1, <2>2 DEF RunSound, Planned, Early
  <2>7. QED
    BY <2>1, <2>2, <2>3, <2>5, <2>6 DEF RunSound
<1>6. \A r \in stray' : Sound(r.job, r.val)
  BY <1>1
<1>7. QED
  BY <1>2, <1>3, <1>4, <1>5, <1>6, ResultsStep

\* Operations given up or detached are sound, and no append that a worker
\* awaits is among those of a run task.
LEMMA AbandonSound ==
    ASSUME TypeOK, ResultsInv, NEW S
    PROVE  \A o \in Abandon(S) : OpSound(o)
<1>1. \A o \in db : o \in Operation /\ OpSound(o)
  BY DEF TypeOK, ResultsInv
<1>2. ASSUME NEW o \in db
      PROVE  OpSound([o EXCEPT !.live = FALSE])
  <2> DEFINE q == [o EXCEPT !.live = FALSE]
  <2>1. /\ q.kind = o.kind /\ q.job = o.job /\ q.stage = o.stage
        /\ q.val = o.val /\ q.seq = o.seq /\ q.item = o.item
    BY <1>1 DEF Operation
  <2> HIDE DEF q
  <2>2. OpSound(q)
    BY <1>1, <2>1 DEF OpSound
  <2>3. QED
    BY <2>2 DEF q
<1>3. QED
  BY <1>1, <1>2 DEF Abandon

LEMMA GivenUpSound ==
    ASSUME TypeOK, LockInv, ResultsInv, NEW j \in Jobs
    PROVE  /\ \A o \in Abandon({j}) : OpSound(o)
           /\ \A o \in Detach(j) : OpSound(o)
           /\ \A o \in db : Held(o) => o \in Abandon({j}) /\ o \in Detach(j)
<1>1. \A o \in db : o \in Operation /\ o.job \in Jobs /\ OpSound(o)
  BY DEF TypeOK, Operation, ResultsInv
<1>2. ASSUME NEW o \in db
      PROVE  OpSound([o EXCEPT !.own = NoProc, !.stage = "started",
                               !.val = IF o.stage = "sent" THEN mem[o.job] ELSE @])
  <2> DEFINE q == [o EXCEPT !.own = NoProc, !.stage = "started",
                            !.val = IF o.stage = "sent" THEN mem[o.job] ELSE @]
  <2>1. /\ q.kind = o.kind /\ q.job = o.job /\ q.seq = o.seq /\ q.item = o.item
        /\ q.val = IF o.stage = "sent" THEN mem[o.job] ELSE o.val
    BY <1>1 DEF Operation
  <2>2. o.stage \in {"sent", "started"} /\ Sound(o.job, mem[o.job])
    BY <1>1 DEF Operation, ResultsInv
  <2> HIDE DEF q
  <2>3. OpSound(q)
    BY <1>1, <2>1, <2>2 DEF OpSound
  <2>4. QED
    BY <2>3 DEF q
<1>3. \A o \in db : Held(o) => o.own # j
  <2>1. SUFFICES ASSUME NEW o \in db, Held(o)
                 PROVE  o.own # j
    OBVIOUS
  <2>2. PICK w \in Workers : o.own = <<o.job, w>>
    BY <2>1 DEF LockInv, Awaited
  <2>3. QED
    BY <1>1, <2>2, NamesAssumption
<1>4. \A o \in Abandon({j}) : OpSound(o)
  BY AbandonSound
<1>5. \A o \in Detach(j) : OpSound(o)
  BY <1>1, <1>2 DEF Detach
<1>6. \A o \in db : Held(o) => o \in Abandon({j}) /\ o \in Detach(j)
  BY <1>3 DEF Abandon, Detach
<1>7. QED
  BY <1>4, <1>5, <1>6

\* The ends of _execute_job, the handlers and the end of the task.
LEMMA FinishResult ==
    ASSUME TypeOK, ResultsInv, NEW j \in Jobs, NEW ops, Finish(j), mem' = mem,
           \/ db' = ops
           \/ db' = ops \union {Update(j, j)}
    PROVE  TaskResult(j, ops)
<1>1. /\ \A k \in Jobs \ {j} : run'[k] = run[k]
      /\ \A c \in Threads : call'[c] = call[c] \/ call'[c] = NoCall
  BY FinishEffect
<1>2. run'[j].left = {} /\ run'[j].pc = "idle"
  BY DEF Finish, TypeOK, Idle
<1>3. QED
  BY <1>1, <1>2 DEF TaskResult, ResultsInv, Early

LEMMA GotoResult ==
    ASSUME TypeOK, NEW j \in Jobs, NEW ops, NEW b,
           NEW p \in {"save", "hook"}, Goto(j, b, p),
           \A k \in Jobs \ {j} : mem'[k] = mem[k],
           mem'[j].completed = mem[j].completed, Sound(j, mem'[j]),
           \/ db' = ops
           \/ db' = ops \union {Update(j, j)}
    PROVE  TaskResult(j, ops)
<1>1. /\ \A k \in Jobs \ {j} : run'[k] = run[k]
      /\ \A c \in Threads : call'[c] = call[c]
  BY GotoEffect
<1>2. run'[j].left = run[j].left /\ run'[j].pc = p
  BY DEF Goto, TypeOK, RunTask
<1>3. QED
  BY <1>1, <1>2 DEF TaskResult, Early

LEMMA TimeoutResult ==
    ASSUME TypeOK, ResultsInv, NEW j \in Jobs, NEW ops, TimeoutHandler(j, ops)
    PROVE  TaskResult(j, ops)
<1>1. /\ \A k \in Jobs \ {j} : mem'[k] = mem[k]
      /\ mem'[j].completed = mem[j].completed /\ mem'[j].status = "failed"
  BY DEF TimeoutHandler, TypeOK, StoredJob
<1>2. Sound(j, mem'[j])
  BY <1>1, SameSound DEF ResultsInv
<1>3. QED
  BY <1>1, <1>2, GotoResult DEF TimeoutHandler

LEMMA CancelResult ==
    ASSUME TypeOK, ResultsInv, NEW j \in Jobs, NEW ops, CancelHandler(j, ops)
    PROVE  TaskResult(j, ops)
<1> DEFINE m == IF mem[j].status \in Open
                THEN [mem[j] EXCEPT !.status = "failed", !.error = "shutdown"]
                ELSE mem[j]
           n == [m EXCEPT !.webhook = "failed"]
<1>1. /\ m.completed = mem[j].completed /\ m.status \in {mem[j].status, "failed"}
      /\ n.completed = mem[j].completed /\ n.status \in {mem[j].status, "failed"}
  BY DEF TypeOK, StoredJob
<1>2. mem' = [mem EXCEPT ![j] = m] \/ mem' = [mem EXCEPT ![j] = n]
  BY DEF CancelHandler
<1> HIDE DEF m, n
<1>3. /\ \A k \in Jobs \ {j} : mem'[k] = mem[k]
      /\ mem'[j].completed = mem[j].completed
      /\ mem'[j].status \in {mem[j].status, "failed"}
  BY <1>1, <1>2 DEF TypeOK
<1>4. Sound(j, mem'[j])
  BY <1>3, SameSound DEF ResultsInv
<1>5. /\ \E p \in {"save", "hook"} : Goto(j, "cancel", p)
      /\ db' = ops \/ db' = ops \union {Update(j, j)}
  BY DEF CancelHandler
<1>6. QED
  BY <1>3, <1>4, <1>5, GotoResult

LEMMA LeaveResult ==
    ASSUME TypeOK, ResultsInv, NEW j \in Jobs, NEW e, NEW ops, Leave(j, e, ops)
    PROVE  TaskResult(j, ops)
<1>1. CASE CancelHandler(j, ops)
  BY <1>1, CancelResult
<1>2. CASE TimeoutHandler(j, ops)
  BY <1>2, TimeoutResult
<1>3. CASE Goto(j, "body", "hook") /\ db' = ops /\ UNCHANGED mem
  BY <1>3, GotoResult DEF ResultsInv
<1>4. CASE Finish(j) /\ db' = ops /\ UNCHANGED mem
  BY <1>4, FinishResult
<1>5. QED
  BY <1>1, <1>2, <1>3, <1>4 DEF Leave

\* A cancellation of the workers: those that are not killed go on, and their
\* appends stay in flight.
LEMMA CancelWorkersResult ==
    ASSUME TypeOK, LockInv, ResultsInv, NEW j \in Jobs, CancelWorkers(j),
           UNCHANGED <<rows, repo, mem, call, stray>>,
           \A k \in Jobs \ {j} : run'[k] = run[k],
           run'[j].left = run[j].left, run'[j].pc \notin Early
    PROVE  ResultsInv'
<1> DEFINE S == {<<j, w>> : w \in Killed(j)}
<1>1. /\ \A k \in Jobs \ {j} : wk'[k] = wk[k]
      /\ \A w \in Workers : wk'[j][w] = CancelWorker(wk[j][w])
      /\ db' = Abandon(S)
  BY DEF CancelWorkers, TypeOK
<1>2. \A w \in Workers : wk'[j][w].pc \in HasItem =>
          /\ wk'[j][w].pc = wk[j][w].pc /\ wk'[j][w].item = wk[j][w].item
          /\ w \notin Killed(j)
  <2>1. SUFFICES ASSUME NEW w \in Workers, wk'[j][w].pc \in HasItem
                 PROVE  /\ wk'[j][w].pc = wk[j][w].pc
                        /\ wk'[j][w].item = wk[j][w].item
                        /\ w \notin Killed(j)
    OBVIOUS
  <2>2. wk[j][w] \in Worker
    BY DEF TypeOK
  <2>3. /\ [wk[j][w] EXCEPT !.pc = "dying"].pc = "dying"
        /\ [wk[j][w] EXCEPT !.bare = TRUE].pc = wk[j][w].pc
        /\ [wk[j][w] EXCEPT !.bare = TRUE].item = wk[j][w].item
    BY <2>2 DEF Worker
  <2>4. QED
    BY <1>1, <2>1, <2>3 DEF CancelWorker, Killed, HasItem
<1>3. \A o \in db' : OpSound(o)
  BY <1>1, AbandonSound
<1>4. \A o \in db : o.own \notin S => o \in db'
  BY <1>1 DEF Abandon
<1>5. ASSUME NEW k \in Jobs
      PROVE  RunSound(k, run'[k], wk'[k], db', mem'[k].completed)
  <2>1. RunSound(k, run[k], wk[k], db, mem[k].completed)
    BY DEF ResultsInv
  <2>2. CASE k = j
    <3>1. Shares(j, run[j].left, wk'[j], mem[j].completed)
      BY <1>2, <2>1, <2>2, SharesLess DEF RunSound
    <3>2. Appends(j, wk'[j], db', mem[j].completed)
      <4>1. \A o \in db, w \in Workers :
               Held(o) /\ o.own = <<j, w>> /\ wk'[j][w].pc = "append" => o \in db'
        BY <1>2, <1>4 DEF HasItem
      <4>2. \A w \in Workers : wk'[j][w].pc = "append" =>
               wk[j][w].pc = "append" /\ wk'[j][w].item = wk[j][w].item
        BY <1>2 DEF HasItem
      <4>3. Appends(j, wk[j], db, mem[j].completed)
        BY <2>1, <2>2 DEF RunSound
      <4>4. QED
        BY <4>1, <4>2, <4>3, AppendsKept
    <3>3. Planned(j, run'[j], wk'[j], mem[j].completed)
      BY DEF Planned, Early
    <3>4. QED
      BY <2>2, <3>1, <3>2, <3>3 DEF RunSound
  <2>3. CASE k # j
    <3>1. \A o \in db, w \in Workers : o.own = <<k, w>> => o \in db'
      BY <1>4, <2>3
    <3>2. Appends(k, wk[k], db, mem[k].completed)
      BY <2>1 DEF RunSound
    <3>3. Appends(k, wk[k], db', mem[k].completed)
      BY <3>1, <3>2, AppendsKept
    <3>4. QED
      BY <1>1, <2>1, <2>3, <3>3 DEF RunSound
  <2>4. QED
    BY <2>2, <2>3
<1>6. QED
  BY <1>3, <1>5, ResultsStep DEF ResultsInv

\* When every worker of an undisturbed run has returned, every item has a
\* result.
LEMMA AllWritten ==
    ASSUME TypeOK, ResultsInv, NEW j \in Jobs, run[j].pc = "gather",
           run[j].exc = "none", ~run[j].stop, AllOff(j)
    PROVE  Items \subseteq Done(j)
<1>1. Planned(j, run[j], wk[j], mem[j].completed)
  BY DEF ResultsInv, RunSound
<1>2. InHand(wk[j]) = {}
  BY DEF AllOff, InHand, HasItem
<1>3. run[j].left = {}
  BY <1>1, SizesAssumption DEF Planned, AllOff
<1>4. Items \subseteq Written(j, mem[j].completed)
  BY <1>1, <1>2, <1>3 DEF Planned
<1>5. QED
  BY <1>4 DEF Written, Done

LEMMA RunTasksResults ==
    ASSUME TypeOK, LockInv, ResultsInv, RunTasks
    PROVE  ResultsInv'
<1>1. PICK j \in Jobs :
         \/ StartJob(j) \/ StartWorkers(j) \/ Gathered(j) \/ Drain(j)
         \/ Drained(j) \/ Executed(j) \/ Saved(j) \/ Post(j) \/ Posted(j)
         \/ Interrupt(j) \/ InterruptGather(j)
  BY DEF RunTasks
<1>2. run[j] \in RunTask /\ mem[j] \in StoredJob /\ Sound(j, mem[j])
  BY DEF TypeOK, ResultsInv
<1>3. \A o \in db : OpSound(o)
  BY DEF ResultsInv
\* A step from db, without a detached delivery.
<1>4. ASSUME TaskResult(j, db), UNCHANGED <<rows, repo, wk, stray>>
      PROVE  ResultsInv'
  BY <1>3, <1>4, TaskResults
<1>5. \A p : LET r == [run[j] EXCEPT !.pc = p]
             IN  /\ r.pc = p /\ r.left = run[j].left /\ r.exc = run[j].exc
                 /\ r.stop = run[j].stop
  BY <1>2 DEF RunTask
\* The run task changes its document and goes on to pc p.
<1>6. ASSUME NEW v, v.completed = mem[j].completed, Sound(j, v),
             mem' = [mem EXCEPT ![j] = v],
             NEW p, run' = [run EXCEPT ![j] = [run[j] EXCEPT !.pc = p]],
             p \in Early => p # "gather" /\ run[j].pc \in Early,
             db' = db \union {Update(j, j)}, UNCHANGED <<rows, repo, wk, stray, call>>
      PROVE  ResultsInv'
  <2>1. /\ \A k \in Jobs \ {j} : run'[k] = run[k] /\ mem'[k] = mem[k]
        /\ mem'[j] = v /\ run'[j] = [run[j] EXCEPT !.pc = p]
    BY <1>6 DEF TypeOK
  <2>2. TaskResult(j, db)
    BY <1>5, <1>6, <2>1 DEF TaskResult
  <2>3. QED
    BY <1>4, <1>6, <2>2
<1>7. CASE StartJob(j)
  <2> DEFINE v == [mem[j] EXCEPT !.status = "running", !.error = "none"]
  <2>1. v.completed = mem[j].completed /\ v.status = "running"
    BY <1>2 DEF StoredJob
  <2>2. Sound(j, v)
    BY <1>2, <2>1, SameSound
  <2>3. /\ mem' = [mem EXCEPT ![j] = v] /\ run[j].pc \in Early
        /\ run' = [run EXCEPT ![j] = [run[j] EXCEPT !.pc = "begin"]]
        /\ db' = db \union {Update(j, j)}
        /\ UNCHANGED <<rows, repo, wk, stray, call>>
    BY <1>7 DEF StartJob, TypeOK, Early
  <2> HIDE DEF v
  <2>4. QED
    BY <1>6, <2>1, <2>2, <2>3
<1>8. CASE StartWorkers(j)
  <2>1. /\ run[j].pc = "begin"
        /\ run' = [run EXCEPT ![j] = [run[j] EXCEPT !.pc = "gather"]]
        /\ wk' = [wk EXCEPT ![j] = [w \in Workers |-> [Off EXCEPT !.pc = "next"]]]
        /\ UNCHANGED <<rows, repo, mem, db, stray, call>>
    BY <1>8 DEF StartWorkers, TypeOK
  <2>2. /\ \A k \in Jobs \ {j} : run'[k] = run[k] /\ wk'[k] = wk[k]
        /\ run'[j].pc = "gather" /\ run'[j].left = run[j].left
        /\ run'[j].exc = run[j].exc /\ run'[j].stop = run[j].stop
        /\ \A w \in Workers : wk'[j][w].pc = "next"
    BY <1>5, <2>1 DEF TypeOK, Off
  <2>3. \A w \in Workers : wk[j][w].pc = "off"
    BY <2>1 DEF LockInv, Exclusive, TasksCover
  <2>4. ASSUME NEW k \in Jobs
        PROVE  RunSound(k, run'[k], wk'[k], db', mem'[k].completed)
    <3>1. RunSound(k, run[k], wk[k], db, mem[k].completed)
      BY DEF ResultsInv
    <3>2. CASE k # j
      BY <2>1, <2>2, <3>1, <3>2
    <3>3. CASE k = j
      <4>1. Shares(j, run[j].left, wk'[j], mem[j].completed)
        BY <2>2, <3>1, <3>3 DEF RunSound, Shares, HasItem
      <4>2. Appends(j, wk'[j], db, mem[j].completed)
        BY <2>2 DEF Appends
      <4>3. InHand(wk[j]) = {}
        BY <2>3 DEF InHand, HasItem
      <4>4. Planned(j, run'[j], wk'[j], mem[j].completed)
        BY <2>1, <2>2, <3>1, <3>3, <4>3 DEF RunSound, Planned
      <4>5. QED
        BY <2>1, <2>2, <3>3, <4>1, <4>2, <4>4 DEF RunSound
    <3>4. QED
      BY <3>2, <3>3
  <2>5. QED
    BY <2>1, <2>4, ResultsStep DEF ResultsInv
<1>9. CASE Gathered(j)
  <2>1. PICK s \in {"completed", "failed"}, e \in {"argus"} :
           /\ \/ mem' = mem
              \/ mem' = [mem EXCEPT ![j].status = s, ![j].error = e]
              \/ mem' = [mem EXCEPT ![j].status = s]
           /\ s = "completed" => ~run[j].stop
    BY <1>9, Zenon DEF Gathered
  <2>2. /\ run[j].pc = "gather" /\ run[j].exc = "none" /\ AllOff(j)
        /\ run' = [run EXCEPT ![j] = [run[j] EXCEPT !.pc = "final"]]
        /\ db' = db \union {Update(j, j)}
        /\ UNCHANGED <<rows, repo, wk, stray, call>>
    BY <1>9 DEF Gathered, TypeOK
  <2>3. s = "completed" => Items \subseteq Done(j)
    BY <2>1, <2>2, AllWritten
  <2>4. /\ [mem[j] EXCEPT !.status = s, !.error = e].completed = mem[j].completed
        /\ [mem[j] EXCEPT !.status = s, !.error = e].status = s
        /\ [mem[j] EXCEPT !.status = s].completed = mem[j].completed
        /\ [mem[j] EXCEPT !.status = s].status = s
    BY <1>2 DEF StoredJob
  <2>5. PICK v : /\ mem' = [mem EXCEPT ![j] = v]
                 /\ v.completed = mem[j].completed
                 /\ v.status \in {mem[j].status, s}
    <3>1. mem = [mem EXCEPT ![j] = mem[j]]
      BY DEF TypeOK
    <3>2. [mem EXCEPT ![j].status = s, ![j].error = e]
            = [mem EXCEPT ![j] = [mem[j] EXCEPT !.status = s, !.error = e]]
      BY DEF TypeOK
    <3>3. [mem EXCEPT ![j].status = s]
            = [mem EXCEPT ![j] = [mem[j] EXCEPT !.status = s]]
      BY DEF TypeOK
    <3>4. QED
      BY <2>1, <2>4, <3>1, <3>2, <3>3
  <2>6. Sound(j, v)
    BY <1>2, <2>1, <2>3, <2>5 DEF Sound
  <2>7. QED
    BY <1>6, <2>2, <2>5, <2>6 DEF Early
<1>10. CASE Drained(j)
  <2>1. /\ mem' = mem \/ mem' = [mem EXCEPT ![j].status = "failed"]
        /\ run' = [run EXCEPT ![j] = [run[j] EXCEPT !.pc = "final"]]
        /\ db' = db \union {Update(j, j)}
        /\ UNCHANGED <<rows, repo, wk, stray, call>>
    BY <1>10 DEF Drained, TypeOK
  <2>2. PICK v : /\ mem' = [mem EXCEPT ![j] = v]
                 /\ v.completed = mem[j].completed
                 /\ v.status \in {mem[j].status, "failed"}
    <3>1. mem = [mem EXCEPT ![j] = mem[j]]
      BY DEF TypeOK
    <3>2. [mem EXCEPT ![j].status = "failed"]
            = [mem EXCEPT ![j] = [mem[j] EXCEPT !.status = "failed"]]
      BY DEF TypeOK
    <3>3. /\ [mem[j] EXCEPT !.status = "failed"].completed = mem[j].completed
          /\ [mem[j] EXCEPT !.status = "failed"].status = "failed"
      BY <1>2 DEF StoredJob
    <3>4. QED
      BY <2>1, <3>1, <3>2, <3>3
  <2>3. Sound(j, v)
    BY <1>2, <2>2, SameSound
  <2>4. QED
    BY <1>6, <2>1, <2>2, <2>3 DEF Early
<1>11. CASE Drain(j)
  <2>1. /\ CancelWorkers(j) /\ UNCHANGED <<rows, repo, mem, call, stray>>
        /\ \A k \in Jobs \ {j} : run'[k] = run[k]
        /\ run'[j] = [run[j] EXCEPT !.pc = "drain"]
    BY <1>11 DEF Drain, TypeOK
  <2>2. run'[j].left = run[j].left /\ run'[j].pc \notin Early
    BY <1>5, <2>1 DEF Early
  <2>3. QED
    BY <2>1, <2>2, CancelWorkersResult
<1>12. CASE Executed(j)
  <2>1. TaskResult(j, db) /\ UNCHANGED <<rows, repo, wk, stray>>
    BY <1>12, LeaveResult DEF Executed
  <2>2. QED
    BY <1>4, <2>1
<1>13. CASE Saved(j)
  <2>1. TaskResult(j, db) /\ UNCHANGED <<rows, repo, wk, stray>>
    BY <1>2, <1>13, GotoResult, FinishResult DEF Saved
  <2>2. QED
    BY <1>4, <2>1
<1>14. CASE Post(j)
  <2>1. CASE /\ \E h \in {"sent", "failed"} : mem' = [mem EXCEPT ![j].webhook = h]
             /\ db' = db \union {Update(j, j)}
             /\ run' = [run EXCEPT ![j].pc = "hookSave"]
    <3>1. PICK h \in {"sent", "failed"} : mem' = [mem EXCEPT ![j].webhook = h]
      BY <2>1
    <3> DEFINE v == [mem[j] EXCEPT !.webhook = h]
    <3>2. v.completed = mem[j].completed /\ v.status = mem[j].status
      BY <1>2 DEF StoredJob
    <3>3. mem' = [mem EXCEPT ![j] = v]
      BY <3>1 DEF TypeOK
    <3>4. run' = [run EXCEPT ![j] = [run[j] EXCEPT !.pc = "hookSave"]]
      BY <2>1 DEF TypeOK
    <3>5. UNCHANGED <<rows, repo, wk, stray, call>>
      BY <1>14 DEF Post
    <3> HIDE DEF v
    <3>6. Sound(j, v)
      BY <1>2, <3>2, SameSound
    <3>7. QED
      BY <1>6, <2>1, <3>2, <3>3, <3>4, <3>5, <3>6 DEF Early
  <2>2. CASE run' = [run EXCEPT ![j].attempt = @ + 1] /\ UNCHANGED <<mem, db>>
    <3>1. /\ \A k \in Jobs \ {j} : run'[k] = run[k]
          /\ run'[j].left = run[j].left /\ run'[j].pc = "hook"
      BY <1>2, <1>14, <2>2 DEF Post, TypeOK, RunTask
    <3>2. TaskResult(j, db) /\ UNCHANGED <<rows, repo, wk, stray>>
      BY <1>2, <1>14, <2>2, <3>1 DEF Post, TaskResult, Early
    <3>3. QED
      BY <1>4, <3>2
  <2>3. QED
    BY <1>14, <2>1, <2>2 DEF Post
<1>15. CASE Posted(j)
  <2>1. TaskResult(j, db) /\ UNCHANGED <<rows, repo, wk, stray>>
    BY <1>2, <1>15, GotoResult, FinishResult DEF Posted
  <2>2. QED
    BY <1>4, <2>1
<1>16. CASE Interrupt(j)
  <2>1. \A r \in stray' : r \in stray \/ Sound(r.job, r.val)
    BY <1>2, <1>16 DEF Interrupt
  <2>2. UNCHANGED <<rows, repo, wk>>
    BY <1>16 DEF Interrupt
  <2>3. TaskResult(j, Abandon({j})) \/ TaskResult(j, Detach(j))
    BY <1>16, LeaveResult, CancelResult, FinishResult DEF Interrupt
  <2>4. QED
    BY <2>1, <2>2, <2>3, GivenUpSound, TaskResults
<1>17. CASE InterruptGather(j)
  <2>1. /\ UNCHANGED <<rows, repo, mem, call, stray>>
        /\ \A k \in Jobs \ {j} : run'[k] = run[k]
        /\ run'[j].left = run[j].left /\ run'[j].pc \notin Early
    BY <1>2, <1>17 DEF InterruptGather, TypeOK, RunTask, Early
  <2>2. CASE CancelWorkers(j)
    BY <2>1, <2>2, CancelWorkersResult
  <2>3. CASE UNCHANGED <<wk, lock, db>>
    <3>1. TaskResult(j, db)
      BY <1>2, <2>1, <2>3 DEF TaskResult
    <3>2. QED
      BY <1>4, <2>1, <2>3, <3>1
  <2>4. QED
    BY <1>17, <2>2, <2>3 DEF InterruptGather
<1>18. QED
  BY <1>1, <1>7, <1>8, <1>9, <1>10, <1>11, <1>12, <1>13, <1>14, <1>15, <1>16,
     <1>17

-----------------------------------------------------------------------------
(* The workers *)

\* A step of a worker of j.
LEMMA WorkerResults ==
    ASSUME TypeOK, ResultsInv, NEW j \in Jobs,
           UNCHANGED <<rows, repo, call, stray>>,
           \A k \in Jobs \ {j} : run'[k] = run[k] /\ wk'[k] = wk[k] /\ mem'[k] = mem[k],
           Sound(j, mem'[j]),
           db \subseteq db', \A o \in db' : o \in db \/ OpSound(o),
           RunSound(j, run'[j], wk'[j], db', mem'[j].completed)
    PROVE  ResultsInv'
<1>1. ASSUME NEW k \in Jobs, k # j
      PROVE  RunSound(k, run'[k], wk'[k], db', mem'[k].completed)
  <2>1. RunSound(k, run[k], wk[k], db, mem[k].completed)
    BY DEF ResultsInv
  <2>2. Appends(k, wk[k], db', mem[k].completed)
    BY <2>1, AppendsKept DEF RunSound
  <2>3. QED
    BY <1>1, <2>1, <2>2 DEF RunSound
<1>2. \A o \in db' : OpSound(o)
  BY DEF ResultsInv
<1>3. \A k \in Jobs : Sound(k, mem'[k]) /\ Sound(k, repo'[k])
  BY DEF ResultsInv
<1>4. QED
  BY <1>1, <1>2, <1>3, ResultsStep DEF ResultsInv

\* The counted results and the place behind them.
LEMMA NextPlace ==
    ASSUME NEW j, NEW n \in Nat, RowsLog(j), Covered(j, n)
    PROVE  /\ n \notin Filled(j) => Done(j) = Written(j, n)
           /\ n \in Filled(j) => /\ Covered(j, n + 1)
                                 /\ Written(j, n + 1) = Written(j, n) \union {rows[j][n]}
<1>1. Filled(j) \subseteq Nat
  BY DEF Filled, Seqs
<1>2. ASSUME n \notin Filled(j)
      PROVE  Done(j) = Written(j, n)
  <2>1. \A m \in Filled(j) : m < n
    <3>1. SUFFICES ASSUME NEW m \in Filled(j), m > n
                   PROVE  FALSE
      BY <1>1, <1>2
    <3>2. n \in 0 .. m - 1
      BY <1>1, <3>1
    <3>3. QED
      BY <1>2, <3>2 DEF RowsLog, Covered
  <2>2. {m \in Filled(j) : m < n} = Filled(j)
    BY <2>1
  <2>3. QED
    BY <2>2 DEF Done, Written
<1>3. ASSUME n \in Filled(j)
      PROVE  /\ Covered(j, n + 1)
             /\ Written(j, n + 1) = Written(j, n) \union {rows[j][n]}
  <2>1. Covered(j, n + 1)
    BY <1>3 DEF Covered
  <2>2. {m \in Filled(j) : m < n + 1} = {m \in Filled(j) : m < n} \union {n}
    BY <1>1, <1>3
  <2>3. QED
    BY <2>1, <2>2 DEF Written
<1>4. QED
  BY <1>2, <1>3

LEMMA WorkerTasksResults ==
    ASSUME TypeOK, LockInv, ResultsInv, WorkerTasks
    PROVE  ResultsInv'
<1>1. PICK j \in Jobs, w \in Workers :
         \/ Take(j, w) \/ Collected(j, w) \/ Persist(j, w) \/ Appended(j, w)
         \/ Counted(j, w) \/ Duplicate(j, w) \/ Die(j, w)
  BY DEF WorkerTasks
<1> DEFINE n == mem[j].completed
           left == run[j].left
<1>2. /\ wk[j][w] \in Worker /\ run[j] \in RunTask /\ n \in Nat
      /\ left \subseteq Items
  BY DEF TypeOK, RunTask, StoredJob
<1>3. /\ Sound(j, mem[j]) /\ RowsLog(j) /\ Covered(j, n)
      /\ Shares(j, left, wk[j], n) /\ Appends(j, wk[j], db, n)
      /\ Planned(j, run[j], wk[j], n)
  BY DEF ResultsInv, RunSound, Sound
<1>4. \A s : SetWorker(j, w, s) =>
        /\ \A k \in Jobs \ {j} : wk'[k] = wk[k]
        /\ \A v \in Workers \ {w} : wk'[j][v] = wk[j][v]
        /\ wk'[j][w] = s
  BY DEF SetWorker, TypeOK
<1>5. /\ Off.pc = "off"
      /\ \A p : [Off EXCEPT !.pc = p].pc = p
      /\ \A p, i : /\ [Off EXCEPT !.pc = p, !.item = i].pc = p
                   /\ [Off EXCEPT !.pc = p, !.item = i].item = i
      /\ \A p : /\ [wk[j][w] EXCEPT !.pc = p].pc = p
                /\ [wk[j][w] EXCEPT !.pc = p].item = wk[j][w].item
  BY <1>2 DEF Off, Worker
<1> HIDE DEF n, left
\* The worker w is at pc p now, with its item or without one.
<1>6. ASSUME NEW p, NEW s, SetWorker(j, w, s), s.pc = p
       PROVE  /\ \A k \in Jobs \ {j} : wk'[k] = wk[k]
              /\ \A v \in Workers \ {w} : wk'[j][v] = wk[j][v]
              /\ wk'[j][w].pc = p /\ wk'[j][w].item = s.item
  BY <1>4, <1>6
<1>7. ASSUME NEW p, SetWorker(j, w, [wk[j][w] EXCEPT !.pc = p])
       PROVE  /\ \A k \in Jobs \ {j} : wk'[k] = wk[k]
              /\ \A v \in Workers \ {w} : wk'[j][v] = wk[j][v]
              /\ wk'[j][w].pc = p /\ wk'[j][w].item = wk[j][w].item
  <2> DEFINE s == [wk[j][w] EXCEPT !.pc = p]
  <2>1. s.pc = p /\ s.item = wk[j][w].item /\ SetWorker(j, w, s)
    BY <1>5, <1>7
  <2> HIDE DEF s
  <2>2. QED
    BY <1>6, <2>1
<1>8. ASSUME \A v \in Workers : wk'[j][v].pc = "append" =>
                 wk[j][v].pc = "append" /\ wk'[j][v].item = wk[j][v].item
       PROVE  Appends(j, wk'[j], db, n)
  BY <1>3, <1>8 DEF Appends
\* A step that leaves the documents and the operations alone.
<1>9. ASSUME UNCHANGED <<rows, repo, call, stray, mem, db>>,
             \A k \in Jobs \ {j} : run'[k] = run[k] /\ wk'[k] = wk[k],
             Shares(j, run'[j].left, wk'[j], n), Appends(j, wk'[j], db, n),
             Planned(j, run'[j], wk'[j], n)
      PROVE  ResultsInv'
  <2>1. RunSound(j, run'[j], wk'[j], db', mem'[j].completed)
    BY <1>9 DEF RunSound, n
  <2>2. QED
    BY <1>3, <1>9, <2>1, WorkerResults
\* A worker that has no item from now on, in a run that has the same left.
<1>10. ASSUME NEW s, SetWorker(j, w, s), s.pc \in {"off", "next"},
             UNCHANGED <<rows, repo, call, stray, mem, db>>,
             \A k \in Jobs \ {j} : run'[k] = run[k], run'[j].left = left,
             Planned(j, run'[j], wk'[j], n)
      PROVE  ResultsInv'
  <2>1. /\ \A k \in Jobs \ {j} : wk'[k] = wk[k]
        /\ \A v \in Workers \ {w} : wk'[j][v] = wk[j][v]
        /\ wk'[j][w].pc \in {"off", "next"}
    BY <1>4, <1>10
  <2>2. Shares(j, left, wk'[j], n)
    BY <1>3, <2>1, SharesLess DEF HasItem
  <2>3. Appends(j, wk'[j], db, n)
    BY <1>8, <2>1
  <2>4. QED
    BY <1>9, <1>10, <2>1, <2>2, <2>3
<1>11. CASE Take(j, w)
  <2>1. wk[j][w].pc = "next" /\ UNCHANGED <<rows, repo, call, stray, mem, db>>
    BY <1>11 DEF Take
  <2>2. ASSUME NEW i \in left, ~run[j].stop,
               run' = [run EXCEPT ![j].left = @ \ {i}],
               SetWorker(j, w, [Off EXCEPT !.pc = "collect", !.item = i])
        PROVE  ResultsInv'
    <3>1. /\ \A k \in Jobs \ {j} : run'[k] = run[k] /\ wk'[k] = wk[k]
          /\ run'[j].left = left \ {i} /\ run'[j].pc = run[j].pc
          /\ run'[j].exc = run[j].exc /\ run'[j].stop = run[j].stop
      BY <1>2, <1>4, <2>2 DEF TypeOK, RunTask, left
    <3>2. /\ \A v \in Workers \ {w} : wk'[j][v] = wk[j][v]
          /\ wk'[j][w].pc = "collect" /\ wk'[j][w].item = i
      <4> DEFINE s == [Off EXCEPT !.pc = "collect", !.item = i]
      <4>1. s.pc = "collect" /\ s.item = i /\ SetWorker(j, w, s)
        BY <1>5, <2>2
      <4> HIDE DEF s
      <4>2. QED
        BY <1>4, <4>1
    <3>3. Shares(j, left \ {i}, wk'[j], n)
      <4>1. i \in Items /\ i \notin Written(j, n)
        BY <1>2, <1>3 DEF Shares
      <4>2. \A v \in Workers \ {w} : wk[j][v].pc \in HasItem => wk[j][v].item # i
        BY <1>3, <2>2 DEF Shares
      <4>3. QED
        BY <1>3, <3>2, <4>1, <4>2 DEF Shares
    <3>4. Appends(j, wk'[j], db, n)
      BY <1>8, <3>2
    <3>5. InHand(wk'[j]) = InHand(wk[j]) \union {i}
      BY <2>1, <3>2 DEF InHand, HasItem
    <3>6. Planned(j, run'[j], wk'[j], n)
      BY <1>3, <2>1, <2>2, <3>1, <3>2, <3>5 DEF Planned, left
    <3>7. QED
      BY <1>9, <2>1, <3>1, <3>3, <3>4, <3>6
  <2>3. ASSUME run[j].stop \/ left = {}, SetWorker(j, w, Off), run' = run
        PROVE  ResultsInv'
    <3>1. /\ \A v \in Workers \ {w} : wk'[j][v] = wk[j][v]
          /\ wk'[j][w] = Off
      BY <1>4, <2>3
    <3>2. InHand(wk'[j]) = InHand(wk[j])
      BY <1>5, <2>1, <3>1 DEF InHand, HasItem
    <3>3. Planned(j, run[j], wk'[j], n)
      BY <1>3, <2>3, <3>2 DEF Planned, left
    <3>4. QED
      BY <1>5, <1>10, <2>1, <2>3, <3>3 DEF left
  <2>4. QED
    BY <1>11, <2>2, <2>3 DEF Take, left
<1>12. CASE Collected(j, w)
  <2>1. /\ wk[j][w].pc = "collect"
        /\ UNCHANGED <<rows, repo, call, stray, mem, db>>
        /\ SetWorker(j, w, [wk[j][w] EXCEPT !.pc = "lock"])
    BY <1>12 DEF Collected
  <2>2. /\ \A k \in Jobs \ {j} : wk'[k] = wk[k]
        /\ \A v \in Workers \ {w} : wk'[j][v] = wk[j][v]
        /\ wk'[j][w].pc = "lock" /\ wk'[j][w].item = wk[j][w].item
    BY <1>7, <2>1
  <2>3. /\ \A k \in Jobs \ {j} : run'[k] = run[k]
        /\ run'[j].left = left /\ run'[j].pc = run[j].pc
        /\ run'[j].exc = run[j].exc /\ (~run'[j].stop => ~run[j].stop)
    <3> DEFINE a == IF run[j].argus < ArgusLimit THEN run[j].argus + 1
                    ELSE run[j].argus
    <3>1. \/ run' = run
          \/ run' = [run EXCEPT ![j].argus = 0]
          \/ run' = [run EXCEPT ![j].argus = a, ![j].stop = @ \/ a = ArgusLimit]
      BY <1>12, SizesAssumption DEF Collected, a
    <3> HIDE DEF a
    <3>2. CASE run' = run \/ run' = [run EXCEPT ![j].argus = 0]
      BY <1>2, <3>2 DEF TypeOK, RunTask, left
    <3>3. CASE run' = [run EXCEPT ![j].argus = a, ![j].stop = @ \/ a = ArgusLimit]
      <4>1. run' = [run EXCEPT ![j] = [run[j] EXCEPT !.argus = a,
                                               !.stop = @ \/ a = ArgusLimit]]
        BY <3>3 DEF TypeOK
      <4> DEFINE b == run[j].stop \/ a = ArgusLimit
                 r == [run[j] EXCEPT !.argus = a, !.stop = b]
      <4>2. run' = [run EXCEPT ![j] = r] /\ (run[j].stop => b)
        BY <4>1
      <4> HIDE DEF b
      <4>3. /\ r.left = run[j].left /\ r.pc = run[j].pc /\ r.exc = run[j].exc
            /\ r.stop = b
        BY <1>2 DEF RunTask
      <4> HIDE DEF r
      <4>4. run'[j] = r /\ \A k \in Jobs \ {j} : run'[k] = run[k]
        BY <4>2 DEF TypeOK
      <4>5. QED
        BY <4>2, <4>3, <4>4 DEF left
    <3>4. QED
      BY <3>1, <3>2, <3>3
  <2>4. Shares(j, left, wk'[j], n)
    BY <1>3, <2>1, <2>2, SharesLess DEF HasItem
  <2>5. Appends(j, wk'[j], db, n)
    BY <1>8, <2>2
  <2>6. InHand(wk'[j]) = InHand(wk[j])
    BY <2>1, <2>2 DEF InHand, HasItem
  <2>7. Planned(j, run'[j], wk'[j], n)
    BY <1>3, <2>1, <2>2, <2>3, <2>6 DEF Planned, left
  <2>8. QED
    BY <1>9, <2>1, <2>2, <2>3, <2>4, <2>5, <2>7
<1>13. CASE Persist(j, w)
  <2> DEFINE q == Append(j, w, n, wk[j][w].item)
  <2>1. /\ wk[j][w].pc = "lock" /\ db' = db \union {q}
        /\ UNCHANGED <<rows, repo, call, stray, mem, run>>
        /\ SetWorker(j, w, [wk[j][w] EXCEPT !.pc = "append"])
    BY <1>13 DEF Persist, n
  <2>2. /\ \A k \in Jobs \ {j} : wk'[k] = wk[k]
        /\ \A v \in Workers \ {w} : wk'[j][v] = wk[j][v]
        /\ wk'[j][w].pc = "append" /\ wk'[j][w].item = wk[j][w].item
    BY <1>7, <2>1
  <2>3. /\ q.kind = "append" /\ q.live = TRUE /\ q.job = j /\ q.own = <<j, w>>
        /\ q.seq = n /\ q.item = wk[j][w].item
    BY DEF Append
  <2> HIDE DEF q
  <2>4. wk[j][w].item \in Items \ (left \union Written(j, n))
    BY <1>3, <2>1 DEF Shares, HasItem
  <2>5. n \notin Filled(j) => Done(j) = Written(j, n)
    BY <1>2, <1>3, NextPlace
  <2>6. OpSound(q)
    BY <1>3, <2>3, <2>4, <2>5 DEF OpSound
  <2>7. Shares(j, left, wk'[j], n)
    BY <1>3, <2>1, <2>2, SharesLess DEF HasItem
  <2>8. Appends(j, wk'[j], db', n)
    BY <1>3, <2>1, <2>2, <2>3 DEF Appends, Held
  <2>9. InHand(wk'[j]) = InHand(wk[j])
    BY <2>1, <2>2 DEF InHand, HasItem
  <2>10. Planned(j, run[j], wk'[j], n)
    BY <1>3, <2>1, <2>2, <2>9 DEF Planned
  <2>11. RunSound(j, run'[j], wk'[j], db', mem'[j].completed)
    BY <2>1, <2>7, <2>8, <2>10 DEF RunSound, left, n
  <2>12. QED
    BY <1>3, <2>1, <2>2, <2>6, <2>11, WorkerResults
<1>14. CASE Appended(j, w)
  <2> DEFINE v0 == [mem[j] EXCEPT !.completed = @ + 1]
  <2>1. /\ wk[j][w].pc = "append" /\ db' = db \union {Update(j, <<j, w>>)}
        /\ mem' = [mem EXCEPT ![j] = v0]
        /\ UNCHANGED <<rows, repo, call, stray, run>>
        /\ SetWorker(j, w, [wk[j][w] EXCEPT !.pc = "count"])
        /\ \A o \in db : o.own = <<j, w>> => ~o.live
    BY <1>14 DEF Appended, Waiting, TypeOK
  <2>2. /\ \A k \in Jobs \ {j} : wk'[k] = wk[k]
        /\ \A v \in Workers \ {w} : wk'[j][v] = wk[j][v]
        /\ wk'[j][w].pc = "count" /\ wk'[j][w].item = wk[j][w].item
    BY <1>7, <2>1
  <2>3. v0.completed = n + 1 /\ v0.status = mem[j].status
    BY DEF TypeOK, StoredJob, n
  <2> HIDE DEF v0
  <2>4. mem'[j] = v0 /\ \A k \in Jobs \ {j} : mem'[k] = mem[k]
    BY <2>1 DEF TypeOK
  <2>5. n \in Filled(j) /\ rows[j][n] = wk[j][w].item
    BY <1>3, <2>1 DEF Appends, Held
  <2>6. /\ Covered(j, n + 1)
        /\ Written(j, n + 1) = Written(j, n) \union {wk[j][w].item}
    BY <1>2, <1>3, <2>5, NextPlace
  <2>7. Sound(j, v0)
    BY <1>3, <2>3, <2>6 DEF Sound
  <2>8. Shares(j, left, wk'[j], n + 1)
    <3>1. wk[j][w].item \notin left
      BY <1>3, <2>1 DEF Shares, HasItem
    <3>2. \A v \in Workers \ {w} :
             wk[j][v].pc \in HasItem => wk[j][v].item # wk[j][w].item
      BY <1>3, <2>1 DEF Shares, HasItem
    <3>3. wk'[j][w].pc \notin HasItem
      BY <2>2 DEF HasItem
    <3>4. QED
      BY <1>3, <2>2, <2>6, <3>1, <3>2, <3>3 DEF Shares
  <2>9. Appends(j, wk'[j], db', n + 1)
    <3>1. lock = <<j, w>>
      BY <2>1 DEF LockInv, Exclusive, WritesLocked
    <3>2. \A v \in Workers : wk[j][v].pc = "append" => v = w
      BY <3>1 DEF LockInv, Exclusive, WritesLocked
    <3>3. QED
      BY <2>2, <3>2 DEF Appends
  <2>10. InHand(wk[j]) \subseteq InHand(wk'[j]) \union {wk[j][w].item}
    BY <2>2 DEF InHand
  <2>11. Planned(j, run[j], wk'[j], n + 1)
    BY <1>3, <2>1, <2>2, <2>6, <2>10 DEF Planned
  <2>12. RunSound(j, run'[j], wk'[j], db', mem'[j].completed)
    BY <2>1, <2>3, <2>4, <2>8, <2>9, <2>11 DEF RunSound, left
  <2>13. OpSound(Update(j, <<j, w>>))
    BY NewSound
  <2>14. QED
    BY <2>1, <2>2, <2>4, <2>7, <2>12, <2>13, WorkerResults
<1>15. ASSUME NEW e \in {"cancel", "error"}, SetWorker(j, w, Off),
              run' = [run EXCEPT ![j].exc = FirstExc(j, e)],
              UNCHANGED <<rows, repo, call, stray, mem, db>>
       PROVE  ResultsInv'
  <2>1. FirstExc(j, e) # "none"
    BY DEF FirstExc
  <2>2. /\ \A k \in Jobs \ {j} : run'[k] = run[k]
        /\ run'[j].left = left /\ run'[j].exc # "none"
    BY <1>2, <1>15, <2>1 DEF TypeOK, RunTask, left
  <2>3. Planned(j, run'[j], wk'[j], n)
    BY <2>2 DEF Planned
  <2>4. QED
    BY <1>5, <1>10, <1>15, <2>2, <2>3
<1>16. CASE Counted(j, w)
  <2>1. /\ wk[j][w].pc = "count" /\ UNCHANGED <<rows, repo, call, stray, mem, db>>
    BY <1>16 DEF Counted
  <2>2. CASE SetWorker(j, w, [Off EXCEPT !.pc = "next"]) /\ run' = run
    <3>1. /\ \A v \in Workers \ {w} : wk'[j][v] = wk[j][v]
          /\ wk'[j][w].pc = "next"
      <4> DEFINE s == [Off EXCEPT !.pc = "next"]
      <4>1. s.pc = "next" /\ SetWorker(j, w, s)
        BY <1>5, <2>2
      <4> HIDE DEF s
      <4>2. QED
        BY <1>6, <4>1
    <3>2. InHand(wk'[j]) = InHand(wk[j])
      BY <2>1, <3>1 DEF InHand, HasItem
    <3>3. Planned(j, run[j], wk'[j], n)
      BY <1>3, <3>1, <3>2 DEF Planned
    <3>4. QED
      BY <1>5, <1>10, <2>1, <2>2, <3>3 DEF left
  <2>3. CASE /\ SetWorker(j, w, Off)
             /\ run' = [run EXCEPT ![j].exc = FirstExc(j, "cancel")]
    BY <1>15, <2>1, <2>3
  <2>4. QED
    BY <1>16, <2>2, <2>3 DEF Counted
<1>17. CASE Duplicate(j, w)
  BY <1>15, <1>17 DEF Duplicate
<1>18. CASE Die(j, w)
  BY <1>15, <1>18 DEF Die
<1>19. QED
  BY <1>1, <1>11, <1>12, <1>13, <1>14, <1>16, <1>17, <1>18

-----------------------------------------------------------------------------
(* Calls *)

\* A step of the call c that creates no run task.
LEMMA CallResults ==
    ASSUME TypeOK, ResultsInv, NEW c \in Threads,
           UNCHANGED <<rows, wk, stray>>,
           \A d \in Threads \ {c} : call'[d] = call[d], CallSound(call'[c]),
           \A k \in Jobs : Sound(k, repo'[k]) /\ Sound(k, mem'[k]),
           \A k \in Jobs :
              /\ mem'[k].completed = mem[k].completed
              /\ run'[k].left = run[k].left /\ run'[k].pc = run[k].pc
              /\ run'[k].exc = run[k].exc /\ run'[k].stop = run[k].stop,
           db \subseteq db', \A o \in db' : o \in db \/ OpSound(o)
    PROVE  ResultsInv'
<1>1. ASSUME NEW k \in Jobs
      PROVE  RunSound(k, run'[k], wk'[k], db', mem'[k].completed)
  <2>1. RunSound(k, run[k], wk[k], db, mem[k].completed)
    BY DEF ResultsInv
  <2>2. Appends(k, wk[k], db', mem[k].completed)
    BY <2>1 DEF RunSound, Appends
  <2>3. QED
    BY <2>1, <2>2 DEF RunSound, Planned
<1>2. \A o \in db' : OpSound(o)
  BY DEF ResultsInv
<1>3. \A d \in Threads : CallSound(call'[d])
  BY DEF ResultsInv
<1>4. QED
  BY <1>1, <1>2, <1>3, ResultsStep DEF ResultsInv

\* A run task starts with the items that have no counted result.
LEMMA LaunchResults ==
    ASSUME TypeOK, LockInv, ResultsInv, NEW j \in Jobs, run[j].pc = "idle",
           NEW v, Sound(j, v), NEW pending,
           pending = Items \ Written(j, v.completed), Launch(j, v, pending),
           UNCHANGED <<rows, repo, db, wk, stray>>,
           \A c \in Threads : call'[c] = call[c] \/ call'[c] = NoCall
    PROVE  ResultsInv'
<1> DEFINE n == v.completed
           r == [Idle EXCEPT !.pc = "sem", !.left = pending]
<1>1. /\ mem'[j] = v /\ run'[j] = r
      /\ \A k \in Jobs \ {j} : mem'[k] = mem[k] /\ run'[k] = run[k]
  BY DEF Launch, TypeOK
<1>2. \A w \in Workers : wk[j][w].pc = "off"
  BY DEF LockInv, Exclusive, TasksCover
<1>3. r.left = Items \ Written(j, n) /\ r.pc = "sem"
  BY DEF Idle
<1> HIDE DEF r
<1>4. Shares(j, r.left, wk[j], n)
  BY <1>2, <1>3 DEF Shares, HasItem
<1>5. Appends(j, wk[j], db, n)
  BY <1>2 DEF Appends
<1>6. Planned(j, r, wk[j], n)
  BY <1>3 DEF Planned
<1>7. \A k \in Jobs : RunSound(k, run'[k], wk'[k], db', mem'[k].completed)
  BY <1>1, <1>4, <1>5, <1>6 DEF RunSound, ResultsInv
<1>8. \A k \in Jobs : Sound(k, mem'[k]) /\ Sound(k, repo'[k])
  BY <1>1 DEF ResultsInv
<1>9. \A c \in Threads : CallSound(call'[c])
  BY NewSound DEF ResultsInv
<1>10. QED
  BY <1>7, <1>8, <1>9, ResultsStep DEF ResultsInv

LEMMA CallTasksResults ==
    ASSUME TypeOK, LockInv, ResultsInv, CallTasks
    PROVE  ResultsInv'
<1>1. PICK c \in Threads :
         \/ Acquire(c) \/ FindKey(c) \/ CreateJob(c) \/ LaunchNew(c)
         \/ ReadJob(c) \/ CheckCancel(c) \/ CancelTask(c) \/ CheckResume(c)
         \/ ReadRows(c) \/ ResetJob(c) \/ LaunchResumed(c)
  BY DEF CallTasks
<1> DEFINE j == call[c].job
<1>2. call[c].pc # "idle"
  BY <1>1 DEF Acquire, FindKey, CreateJob, LaunchNew, ReadJob, CheckCancel,
     CancelTask, CheckResume, ReadRows, ResetJob, LaunchResumed
<1>3. j \in Jobs /\ call[c] \in Call /\ call[c].seen \in StoredJob
  BY <1>2, CallTypes DEF TypeOK
<1>4. /\ Sound(j, call[c].seen)
      /\ HasRead(call[c]) => call[c].done = Written(j, call[c].seen.completed)
      /\ \A k \in Jobs : Sound(k, repo[k]) /\ Sound(k, mem[k])
  BY <1>2 DEF ResultsInv, CallSound
<1>5. \A r : SetCall(c, r) => call'[c] = r /\ \A d \in Threads \ {c} : call'[d] = call[d]
  BY DEF SetCall, TypeOK
\* The call goes on, or is answered, and nothing else changes.
<1>6. ASSUME NEW r, SetCall(c, r), CallSound(r),
             UNCHANGED <<rows, repo, mem, run, db, wk, stray>>
      PROVE  ResultsInv'
  BY <1>4, <1>5, <1>6, CallResults
<1>7. ASSUME Respond(c), UNCHANGED <<rows, repo, mem, run, db, wk, stray>>
      PROVE  ResultsInv'
  BY <1>6, <1>7, NewSound DEF Respond
<1>8. \A p : LET r == [call[c] EXCEPT !.pc = p]
             IN  /\ r.op = call[c].op /\ r.job = j /\ r.pc = p
                 /\ r.seen = call[c].seen /\ r.done = call[c].done
  BY <1>3 DEF Call, NoCall
<1>9. \A p : p # "build" /\ p # "save" => CallSound([call[c] EXCEPT !.pc = p])
  BY <1>4, <1>8 DEF CallSound, HasRead
<1>10. CASE Acquire(c)
  BY <1>6, <1>9, <1>10 DEF Acquire
<1>11. CASE FindKey(c)
  BY <1>6, <1>7, <1>9, <1>11 DEF FindKey
<1>12. CASE CheckResume(c)
  BY <1>6, <1>7, <1>9, <1>12 DEF CheckResume
<1>13. CASE CreateJob(c)
  <2>1. UNCHANGED <<rows, mem, run, db, wk, stray>>
    BY <1>13 DEF CreateJob
  <2>2. CASE Respond(c) /\ UNCHANGED repo
    BY <1>7, <2>1, <2>2
  <2>3. CASE /\ repo' = [repo EXCEPT ![j] = Fresh(j)]
             /\ SetCall(c, [call[c] EXCEPT !.pc = "launch"])
    <3>1. \A k \in Jobs : Sound(k, repo'[k])
      BY <1>3, <1>4, <2>3, NewSound DEF TypeOK
    <3>2. CallSound(call'[c]) /\ \A d \in Threads \ {c} : call'[d] = call[d]
      BY <1>5, <1>9, <2>3
    <3>3. QED
      BY <1>4, <2>1, <3>1, <3>2, CallResults
  <2>4. QED
    BY <1>13, <2>2, <2>3 DEF CreateJob
<1>14. CASE ReadJob(c)
  <2> DEFINE r == [call[c] EXCEPT !.pc = "check", !.seen = repo[j]]
  <2>1. r.job = j /\ r.pc = "check" /\ r.seen = repo[j]
    BY <1>3 DEF Call, NoCall
  <2>2. SetCall(c, r) /\ UNCHANGED <<rows, repo, mem, run, db, wk, stray>>
    BY <1>14 DEF ReadJob
  <2> HIDE DEF r
  <2>3. CallSound(r)
    BY <1>3, <1>4, <2>1 DEF CallSound, HasRead
  <2>4. QED
    BY <1>6, <2>2, <2>3
<1>15. CASE CheckCancel(c)
  <2>1. UNCHANGED <<rows, repo, run, wk, stray>> /\ call[c].op = "cancel"
    BY <1>15 DEF CheckCancel
  <2>2. CASE Respond(c) /\ UNCHANGED <<mem, db>>
    BY <1>7, <2>1, <2>2
  <2>3. CASE /\ mem' = [mem EXCEPT ![j].cancelRequested = TRUE,
                                   ![j].status = "cancelled",
                                   ![j].error = "cancelled"]
             /\ db' = db \union {Update(j, c)}
             /\ SetCall(c, [call[c] EXCEPT !.pc = "save"])
    <3> DEFINE v == [mem[j] EXCEPT !.cancelRequested = TRUE,
                        !.status = "cancelled", !.error = "cancelled"]
               r == [call[c] EXCEPT !.pc = "save"]
    <3>1. v.completed = mem[j].completed /\ v.status = "cancelled"
      BY <1>3 DEF TypeOK, StoredJob
    <3>2. mem' = [mem EXCEPT ![j] = v]
      BY <1>3, <2>3 DEF TypeOK
    <3>3. r.pc = "save" /\ r.op = "cancel" /\ r.job = j /\ r.seen = call[c].seen
      BY <1>8, <2>1
    <3>4. call'[c] = r /\ \A d \in Threads \ {c} : call'[d] = call[d]
      BY <1>5, <2>3
    <3> HIDE DEF v, r
    <3>5. CallSound(call'[c])
      BY <1>4, <3>3, <3>4 DEF CallSound, HasRead
    <3>6. /\ \A k \in Jobs : mem'[k].completed = mem[k].completed
          /\ \A k \in Jobs : Sound(k, mem'[k])
      BY <1>3, <1>4, <3>1, <3>2, SameSound DEF TypeOK
    <3>7. /\ db \subseteq db' /\ \A o \in db' : o \in db \/ OpSound(o)
      BY <2>3, NewSound
    <3>8. QED
      BY <1>4, <2>1, <3>4, <3>5, <3>6, <3>7, CallResults
  <2>4. QED
    BY <1>15, <2>2, <2>3 DEF CheckCancel
<1>16. CASE CancelTask(c)
  <2>1. UNCHANGED <<rows, repo, mem, db, wk, stray>>
    BY <1>16 DEF CancelTask
  <2>2. \A k \in Jobs :
           /\ run'[k].left = run[k].left /\ run'[k].pc = run[k].pc
           /\ run'[k].exc = run[k].exc /\ run'[k].stop = run[k].stop
    <3> DEFINE r == [run[j] EXCEPT !.cause = @ \union {"cancel"}, !.intr = TRUE]
    <3>1. r.left = run[j].left /\ r.pc = run[j].pc /\ r.exc = run[j].exc
            /\ r.stop = run[j].stop
      BY <1>3 DEF TypeOK, RunTask
    <3>2. run' = run \/ run' = [run EXCEPT ![j] = r]
      BY <1>3, <1>16 DEF CancelTask, TypeOK
    <3> HIDE DEF r
    <3>3. QED
      BY <1>3, <3>1, <3>2 DEF TypeOK
  <2>3. CallSound(call'[c]) /\ \A d \in Threads \ {c} : call'[d] = call[d]
    <3>1. CASE SetCall(c, NoCall)
      BY <1>5, <3>1, NewSound
    <3>2. CASE SetCall(c, [call[c] EXCEPT !.pc = "join"])
      BY <1>5, <1>9, <3>2
    <3>3. QED
      BY <1>16, <3>1, <3>2 DEF CancelTask
  <2>4. QED
    BY <1>4, <2>1, <2>2, <2>3, CallResults
<1>17. CASE ReadRows(c)
  <2> DEFINE k == Cardinality(Filled(j))
             r == [call[c] EXCEPT !.pc = "build", !.done = Done(j),
                                  !.seen.completed = k]
  <2>1. SetCall(c, r) /\ UNCHANGED <<rows, repo, mem, run, db, wk, stray>>
    BY <1>17 DEF ReadRows
  <2>2. /\ r.job = j /\ r.pc = "build" /\ r.done = Done(j)
        /\ r.seen.completed = k /\ r.seen.status = call[c].seen.status
    BY <1>2, <1>3 DEF Call, NoCall, StoredJob
  <2>3. Covered(j, k) /\ Written(j, k) = Done(j)
    BY <1>3, LogSize DEF ResultsInv
  <2> HIDE DEF r, k
  <2>4. CallSound(r)
    BY <1>4, <2>2, <2>3 DEF CallSound, Sound
  <2>5. QED
    BY <1>6, <2>1, <2>4
<1>18. CASE ResetJob(c)
  <2> DEFINE stored == [Fresh(j) EXCEPT !.completed = call[c].seen.completed]
             q == [Update(j, c) EXCEPT !.stage = "started", !.val = stored]
             r == [call[c] EXCEPT !.pc = "save", !.seen = stored]
  <2>1. /\ call[c].pc = "build" /\ UNCHANGED <<rows, repo, mem, run, wk, stray>>
        /\ db' = db \union {q} /\ SetCall(c, r)
    BY <1>18 DEF ResetJob
  <2>2. stored.completed = call[c].seen.completed /\ stored.status = "queued"
    BY DEF Fresh, NoJob
  <2>3. Sound(j, stored)
    BY <1>4, <2>2, SameSound
  <2>4. r.job = j /\ r.seen = stored /\ r.done = call[c].done
    BY <1>3 DEF Call, NoCall
  <2>5. q.kind = "update" /\ q.job = j /\ q.val = stored
    <3> HIDE DEF stored
    <3>1. QED
      BY DEF Update
  <2> HIDE DEF stored, q, r
  <2>6. CallSound(r)
    BY <1>4, <2>1, <2>2, <2>3, <2>4 DEF CallSound, HasRead
  <2>7. OpSound(q)
    BY <2>3, <2>5 DEF OpSound
  <2>8. call'[c] = r /\ \A d \in Threads \ {c} : call'[d] = call[d]
    BY <1>5, <2>1
  <2>9. QED
    BY <1>4, <2>1, <2>6, <2>7, <2>8, CallResults
<1>19. \A d \in Threads : Respond(c) => call'[d] = call[d] \/ call'[d] = NoCall
  BY <1>5 DEF Respond
<1>20. CASE LaunchNew(c)
  <2>1. /\ Launch(j, Fresh(j), Items) /\ Respond(c) /\ Launching(c)
        /\ UNCHANGED <<rows, repo, db, wk, stray>>
    BY <1>20 DEF LaunchNew, Launching
  <2>2. run[j].pc = "idle"
    BY <2>1 DEF LockInv, Exclusive, LaunchesAlone
  <2>3. Written(j, Fresh(j).completed) = {}
    BY DEF Written, Fresh, NoJob, Filled, Seqs
  <2>4. Items = Items \ Written(j, Fresh(j).completed)
    BY <2>3
  <2>5. QED
    BY <1>3, <1>19, <2>1, <2>2, <2>4, NewSound, LaunchResults
<1>21. CASE LaunchResumed(c)
  <2>1. /\ Launch(j, call[c].seen, Items \ call[c].done) /\ Respond(c)
        /\ Launching(c) /\ HasRead(call[c])
        /\ UNCHANGED <<rows, repo, db, wk, stray>>
    BY <1>21 DEF LaunchResumed, Launching, HasRead
  <2>2. run[j].pc = "idle"
    BY <2>1 DEF LockInv, Exclusive, LaunchesAlone
  <2>3. Items \ call[c].done = Items \ Written(j, call[c].seen.completed)
    BY <1>4, <2>1
  <2>4. QED
    BY <1>3, <1>4, <1>19, <2>1, <2>2, <2>3, LaunchResults
<1>22. QED
  BY <1>1, <1>10, <1>11, <1>12, <1>13, <1>14, <1>15, <1>16, <1>17, <1>18,
     <1>20, <1>21

-----------------------------------------------------------------------------
(* Process stops and starts, and the environment *)

\* Memory, operations and run tasks go on as they are, but for pending
\* cancellations of the run tasks.
LEMMA StillResults ==
    ASSUME TypeOK, ResultsInv, UNCHANGED <<rows, mem, db, wk, stray>>,
           \A k \in Jobs :
              /\ run'[k].left = run[k].left /\ run'[k].pc = run[k].pc
              /\ run'[k].exc = run[k].exc /\ run'[k].stop = run[k].stop,
           \A k \in Jobs : Sound(k, repo'[k]),
           \A c \in Threads : call'[c] = call[c] \/ CallSound(call'[c])
    PROVE  ResultsInv'
<1>1. ASSUME NEW k \in Jobs
      PROVE  RunSound(k, run'[k], wk'[k], db', mem'[k].completed)
  <2>1. RunSound(k, run[k], wk[k], db, mem[k].completed)
    BY DEF ResultsInv
  <2>2. QED
    BY <2>1 DEF RunSound, Planned
<1>2. \A c \in Threads : CallSound(call'[c])
  BY DEF ResultsInv
<1>3. QED
  BY <1>1, <1>2, ResultsStep DEF ResultsInv

\* The stored results and job documents survive.
LEMMA LoseMemoryResults ==
    ASSUME TypeOK, ResultsInv, LoseMemory
    PROVE  ResultsInv'
<1>1. /\ UNCHANGED <<rows, repo>> /\ db' = {} /\ stray' = {}
      /\ mem' = [j \in Jobs |-> NoJob]
      /\ run' = [j \in Jobs |-> Idle]
      /\ wk' = [j \in Jobs |-> [w \in Workers |-> Off]]
      /\ call' = [c \in Threads |-> NoCall]
  BY DEF LoseMemory
<1>2. ASSUME NEW j \in Jobs
      PROVE  RunSound(j, run'[j], wk'[j], db', mem'[j].completed)
  <2>1. run'[j].left = {} /\ run'[j].pc = "idle" /\ \A w \in Workers : wk'[j][w].pc = "off"
    BY <1>1 DEF Idle, Off
  <2>2. QED
    BY <2>1 DEF RunSound, Shares, Appends, Planned, HasItem
<1>3. QED
  BY <1>1, <1>2, NewSound, ResultsStep DEF ResultsInv

\* A call that starts has read nothing.
LEMMA NewCallSound ==
    ASSUME NEW j, NEW op
    PROVE  CallSound([NoCall EXCEPT !.op = op, !.job = j, !.pc = "lock"])
BY DEF CallSound, NoCall, HasRead, Sound, Covered, NoJob

LEMMA RestartResults ==
    ASSUME TypeOK, ResultsInv, Restart
    PROVE  ResultsInv'
<1>1. CASE Closed
  BY <1>1, LoseMemoryResults DEF Closed
<1>2. CASE Recover
  <2>1. ASSUME NEW j \in Jobs
        PROVE  Sound(j, Recovered(j))
    <3>1. Sound(j, repo[j]) /\ RowsLog(j)
      BY DEF ResultsInv
    <3>2. CASE repo[j].status \notin Open
      BY <3>1, <3>2 DEF Recovered
    <3>3. CASE repo[j].status \in Open
      <4>1. /\ Recovered(j).completed = Cardinality(Filled(j))
            /\ Recovered(j).status = "failed"
        BY <3>3 DEF Recovered, TypeOK, StoredJob
      <4>2. Covered(j, Cardinality(Filled(j)))
        BY <3>1, LogSize
      <4>3. QED
        BY <4>1, <4>2 DEF Sound
    <3>4. QED
      BY <3>2, <3>3
  <2>2. repo' = [j \in Jobs |-> Recovered(j)]
          /\ UNCHANGED <<rows, mem, run, db, wk, stray, call>>
    BY <1>2 DEF Recover
  <2>3. \A j \in Jobs : Sound(j, repo'[j])
    BY <2>1, <2>2
  <2>4. QED
    BY <2>2, <2>3, StillResults
<1>3. CASE Ready
  BY <1>3, StillResults DEF Ready, ResultsInv
<1>4. ASSUME NEW j \in Jobs, BootResume(j)
      PROVE  ResultsInv'
  <2>1. CallSound(call'[Boot]) /\ \A c \in Threads \ {Boot} : call'[c] = call[c]
    BY <1>4, NewCallSound DEF BootResume, SetCall, TypeOK, Threads
  <2>2. UNCHANGED <<rows, repo, mem, run, db, wk, stray>>
    BY <1>4 DEF BootResume
  <2>3. QED
    BY <2>1, <2>2, StillResults DEF ResultsInv
<1>5. QED
  BY <1>1, <1>2, <1>3, <1>4 DEF Restart

LEMMA EnvironmentResults ==
    ASSUME TypeOK, ResultsInv, Environment
    PROVE  ResultsInv'
<1>1. \A k \in Jobs : Sound(k, repo[k])
  BY DEF ResultsInv
<1>2. ASSUME NEW c \in Callers, NEW j \in Jobs, NEW op \in Ops, Request(c, op, j)
      PROVE  ResultsInv'
  <2>1. CallSound(call'[c]) /\ \A d \in Threads \ {c} : call'[d] = call[d]
    BY <1>2, NewCallSound DEF Request, SetCall, TypeOK, Threads
  <2>2. UNCHANGED <<rows, repo, mem, run, db, wk, stray>>
    BY <1>2 DEF Request
  <2>3. QED
    BY <1>1, <2>1, <2>2, StillResults
<1>3. ASSUME NEW j \in Readers, PollJob(j) \/ PollRows(j)
      PROVE  ResultsInv'
  <2>1. UNCHANGED <<rows, repo, mem, run, db, wk, stray, call>>
    BY <1>3 DEF PollJob, PollRows
  <2>2. QED
    BY <1>1, <2>1, StillResults
<1>4. CASE Crash
  BY <1>4, LoseMemoryResults DEF Crash
<1>5. CASE Close
  <2>1. \A k \in Jobs :
           /\ run'[k].left = run[k].left /\ run'[k].pc = run[k].pc
           /\ run'[k].exc = run[k].exc /\ run'[k].stop = run[k].stop
    <3>1. \A r \in RunTask :
             LET s == [r EXCEPT !.cause = @ \union {"cancel"}, !.intr = TRUE]
             IN  /\ s.left = r.left /\ s.pc = r.pc /\ s.exc = r.exc
                 /\ s.stop = r.stop
      BY DEF RunTask
    <3>2. \A k \in Jobs : run[k] \in RunTask
      BY DEF TypeOK
    <3>3. run' = [k \in Jobs |->
                    IF run[k].pc = "idle" THEN run[k]
                    ELSE [run[k] EXCEPT !.cause = @ \union {"cancel"}, !.intr = TRUE]]
      BY <1>5 DEF Close
    <3>4. QED
      BY <3>1, <3>2, <3>3
  <2>2. UNCHANGED <<rows, repo, mem, db, wk, stray, call>>
    BY <1>5 DEF Close
  <2>3. QED
    BY <1>1, <2>1, <2>2, StillResults
<1>6. ASSUME NEW j \in Jobs, Deadline(j)
      PROVE  ResultsInv'
  <2> DEFINE r == [run[j] EXCEPT !.cause = @ \union {"timeout"}, !.intr = TRUE]
  <2>1. /\ r.left = run[j].left /\ r.pc = run[j].pc /\ r.exc = run[j].exc
        /\ r.stop = run[j].stop
    BY DEF TypeOK, RunTask
  <2>2. run' = [run EXCEPT ![j] = r]
    BY <1>6 DEF Deadline, TypeOK
  <2>3. UNCHANGED <<rows, repo, mem, db, wk, stray, call>>
    BY <1>6 DEF Deadline
  <2> HIDE DEF r
  <2>4. \A k \in Jobs :
           /\ run'[k].left = run[k].left /\ run'[k].pc = run[k].pc
           /\ run'[k].exc = run[k].exc /\ run'[k].stop = run[k].stop
    BY <2>1, <2>2 DEF TypeOK
  <2>5. QED
    BY <1>1, <2>3, <2>4, StillResults
<1>7. QED
  BY <1>2, <1>3, <1>4, <1>5, <1>6 DEF Environment, Clients

-----------------------------------------------------------------------------
(* The theorems *)

\* Every append that may still be applied extends the log of its job by an
\* item without a result, or finds its place taken; every job document in
\* memory, in a write in flight or in the store is covered by the log; and no
\* item of an undisturbed run is forgotten.
THEOREM ResultsAgree == Spec => []ResultsInv
<1>1. Init => ResultsInv
  <2>1. SUFFICES ASSUME Init
                 PROVE  ResultsInv
    OBVIOUS
  <2>2. /\ rows = [j \in Jobs |-> [n \in Seqs |-> NoItem]]
        /\ repo = [j \in Jobs |-> NoJob] /\ mem = [j \in Jobs |-> NoJob]
        /\ db = {} /\ stray = {} /\ run = [j \in Jobs |-> Idle]
        /\ wk = [j \in Jobs |-> [w \in Workers |-> Off]]
        /\ call = [c \in Threads |-> NoCall]
    BY <2>1 DEF Init
  <2>3. \A j \in Jobs : Filled(j) = {}
    BY <2>2 DEF Filled
  <2>4. ASSUME NEW j \in Jobs
        PROVE  RunSound(j, run[j], wk[j], db, mem[j].completed)
    <3>1. run[j].left = {} /\ run[j].pc = "idle" /\ \A w \in Workers : wk[j][w].pc = "off"
      BY <2>2 DEF Idle, Off
    <3>2. QED
      BY <3>1 DEF RunSound, Shares, Appends, Planned, HasItem
  <2>5. \A j \in Jobs : RowsLog(j)
    BY <2>3 DEF RowsLog
  <2>6. QED
    BY <2>2, <2>4, <2>5, NewSound DEF ResultsInv
<1>2. TypeOK /\ LockInv /\ ResultsInv /\ [Next]_vars => ResultsInv'
  <2>1. SUFFICES ASSUME TypeOK, LockInv, ResultsInv, [Next]_vars
                 PROVE  ResultsInv'
    OBVIOUS
  <2>2. CASE Service
    BY <2>1, <2>2, StorageResults, RunTasksResults, StraysResults,
       WorkerTasksResults, CallTasksResults, RestartResults DEF Service
  <2>3. CASE Environment
    BY <2>1, <2>3, EnvironmentResults
  <2>4. CASE UNCHANGED vars
    BY <2>1, <2>4, StillResults DEF vars, ResultsInv
  <2>5. QED
    BY <2>1, <2>2, <2>3, <2>4 DEF Next
<1>3. QED
  BY <1>1, <1>2, TypeCorrect, LockAgrees, PTL DEF Spec

\* The progress a poller reads never exceeds the results that get_results can
\* return: not when a cancellation abandons a write that lands later, not
\* when two runs of one job append to one place, not over process stops.
THEOREM ProgressBehindResults == Spec => []ProgressNotAhead
<1>1. ResultsInv => ProgressNotAhead
  BY DEF ResultsInv, Sound, Covered, ProgressNotAhead
<1>2. QED
  BY <1>1, ResultsAgree, PTL

\* A job is stored as completed only when every item has a stored result.
THEOREM CompletedIsComplete == Spec => []CompletedHasAll
<1>1. TypeOK /\ ResultsInv => CompletedHasAll
  <2>1. SUFFICES ASSUME TypeOK, ResultsInv, NEW j \in Jobs,
                        repo[j].status = "completed"
                 PROVE  Done(j) = Items
    BY DEF CompletedHasAll
  <2>2. Done(j) \subseteq Items
    BY <2>1 DEF TypeOK, Done, Filled
  <2>3. Items \subseteq Done(j)
    BY <2>1 DEF ResultsInv, Sound
  <2>4. QED
    BY <2>2, <2>3
<1>2. QED
  BY <1>1, ResultsAgree, TypeCorrect, PTL

-----------------------------------------------------------------------------
(* The ledger *)

\* Nothing but an append changes the stored results.
LEMMA WhoWritesRows ==
    ASSUME [Next]_vars
    PROVE  UNCHANGED rows \/ \E o \in db : ApplyAppend(o) /\ rows[o.job][o.seq] = NoItem
<1>1. CASE Storage
  BY <1>1 DEF Storage, StartOp, ApplyUpdate, ApplyAppend
<1>2. CASE RunTasks
  BY <1>2 DEF RunTasks, StartJob, StartWorkers, Gathered, Drain, Drained,
     Executed, Saved, Post, Posted, Interrupt, InterruptGather
<1>3. CASE Strays
  BY <1>3 DEF Strays, StrayPost
<1>4. CASE WorkerTasks
  <2>1. \A j, w : Collected(j, w) => UNCHANGED rows
    BY DEF Collected
  <2>2. QED
    BY <1>4, <2>1 DEF WorkerTasks, Take, Persist, Appended, Counted, Duplicate, Die
<1>5. CASE CallTasks
  BY <1>5 DEF CallTasks, Acquire, FindKey, CreateJob, LaunchNew, ReadJob,
     CheckCancel, CancelTask, CheckResume, ReadRows, ResetJob, LaunchResumed
<1>6. CASE Restart
  BY <1>6 DEF Restart, Closed, LoseMemory, Recover, Ready, BootResume
<1>7. CASE Environment
  BY <1>7 DEF Environment, Clients, Request, PollJob, PollRows, Crash,
     LoseMemory, Close, Deadline
<1>8. CASE UNCHANGED vars
  BY <1>8 DEF vars
<1>9. QED
  BY <1>1, <1>2, <1>3, <1>4, <1>5, <1>6, <1>7, <1>8 DEF Next, Service

\* ... and it extends the log of its job.
LEMMA RowsGrow ==
    ASSUME TypeOK, ResultsInv, [Next]_vars, ~UNCHANGED rows
    PROVE  \E j \in Jobs, n \in Nat, i \in Items : Grows(j, n, i)
<1>1. PICK o \in db : ApplyAppend(o) /\ rows[o.job][o.seq] = NoItem
  BY WhoWritesRows
<1>2. o \in Operation /\ o.job \in Jobs /\ o.seq \in Nat /\ o.kind = "append"
  BY <1>1 DEF TypeOK, Operation, ApplyAppend
<1>3. Covered(o.job, o.seq) /\ o.item \in Items
  BY <1>2 DEF ResultsInv, OpSound
<1>4. o.seq \notin Filled(o.job)
  BY <1>1 DEF Filled
<1>5. o.item \in Items \ Done(o.job)
  BY <1>2, <1>4 DEF ResultsInv, OpSound
<1>6. o.seq \in Seqs
  BY <1>2, <1>3, <1>5, RoomForResult DEF ResultsInv
<1>7. rows' = [rows EXCEPT ![o.job][o.seq] = o.item]
  BY <1>1 DEF ApplyAppend
<1>8. Grows(o.job, o.seq, o.item)
  BY <1>3, <1>4, <1>5, <1>6, <1>7 DEF Grows
<1>9. QED
  BY <1>2, <1>3, <1>8

\* A step of the job manager is a delivery of the ledger, or none.
LEMMA StepDelivers ==
    ASSUME TypeOK, ResultsInv, [Next]_vars, ~UNCHANGED rows
    PROVE  \E j \in Jobs, i \in Items : Ledger!Deliver(j, i)
<1>1. PICK j \in Jobs, n \in Nat, i \in Items : Grows(j, n, i)
  BY RowsGrow
<1>2. RowsLog(j)
  BY DEF ResultsInv
<1>3. /\ \A k \in Jobs \ {j} : rows'[k] = rows[k] /\ Filled(k)' = Filled(k)
      /\ \A m \in Seqs \ {n} : rows'[j][m] = rows[j][m]
      /\ rows'[j][n] = i
      /\ Filled(j) = 0 .. n - 1 /\ Filled(j)' = (0 .. n - 1) \union {n}
  BY <1>1, <1>2, GrownRows
<1>4. Filled(j)' = 0 .. n
  BY <1>3
<1>5. Cardinality(0 .. n - 1) = n /\ Cardinality(0 .. n) = n + 1
  <2>1. 0 \in Int /\ n - 1 \in Int /\ n \in Int
    OBVIOUS
  <2>2. /\ Cardinality(0 .. n - 1) = IF 0 > n - 1 THEN 0 ELSE n - 1 - 0 + 1
        /\ Cardinality(0 .. n) = IF 0 > n THEN 0 ELSE n - 0 + 1
    BY <2>1, FS_Interval
  <2>3. QED
    BY <2>2
<1>6. Log(j) = [m \in 1 .. n |-> rows[j][m - 1]]
  BY <1>3, <1>5 DEF Log
<1>7. Log(j)' = [m \in 1 .. n + 1 |-> rows'[j][m - 1]]
  BY <1>4, <1>5 DEF Log
<1>8. \A m \in 1 .. n : rows'[j][m - 1] = rows[j][m - 1]
  <2>1. 0 .. n - 1 \subseteq Seqs \ {n}
    BY <1>3 DEF Filled
  <2>2. QED
    BY <1>3, <2>1
<1>9. \A m \in 1 .. n : rows[j][m - 1] \in Done(j)
  <2>1. \A m \in 1 .. n : m - 1 \in Filled(j)
    BY <1>3
  <2>2. QED
    BY <2>1 DEF Done
<1>10. \A m \in 1 .. n : rows[j][m - 1] # i
  BY <1>1, <1>9 DEF Grows
<1>11. Log(j)' = Ledger!Append(Log(j), i)
  BY <1>3, <1>6, <1>7, <1>8
<1>12. \A k \in Jobs \ {j} : Log(k)' = Log(k)
  BY <1>3 DEF Log
<1>13. i \notin Ledger!InLog(j)
  BY <1>6, <1>10 DEF Ledger!InLog
<1>14. Ledger!Deliver(j, i)
  BY <1>11, <1>12, <1>13 DEF Ledger!Deliver
<1>15. QED
  BY <1>14

LEMMA LedgerStarts ==
    ASSUME Init
    PROVE  Ledger!Init
<1>1. \A j \in Jobs : Log(j) = <<>>
  <2>1. \A j \in Jobs : Filled(j) = {}
    BY DEF Init, Filled
  <2>2. Cardinality({}) = 0
    BY FS_EmptySet
  <2>3. ASSUME NEW j \in Jobs
        PROVE  Log(j) = <<>>
    <3>1. Log(j) = [n \in 1 .. 0 |-> rows[j][n - 1]]
      BY <2>1, <2>2 DEF Log
    <3>2. 1 .. 0 = {}
      OBVIOUS
    <3>3. QED
      BY <3>1, <3>2
  <2>4. QED
    BY <2>3
<1>2. \A j \in Jobs : repo[j].status # "completed"
  BY DEF Init, NoJob
<1>3. QED
  BY <1>1, <1>2 DEF Ledger!Init

\* The job manager implements the log of the ledger: to a consumer its results
\* only grow, by one item at a time that is not there yet, so that a cursor
\* stays valid through cancellations, timeouts, resumes and process stops.
THEOREM LogImplemented == Spec => ResultsAreALog
<1>1. Init => Ledger!Init
  BY LedgerStarts
<1>2. TypeOK /\ ResultsInv /\ [Next]_vars =>
        [\E j \in Jobs, i \in Items : Ledger!Deliver(j, i)]_[j \in Jobs |-> Log(j)]
  <2>1. SUFFICES ASSUME UNCHANGED rows
                 PROVE  UNCHANGED [j \in Jobs |-> Log(j)]
    BY StepDelivers
  <2>2. QED
    BY <2>1 DEF Log, Filled
<1>3. QED
  BY <1>1, <1>2, TypeCorrect, ResultsAgree, PTL
     DEF Spec, ResultsAreALog, Ledger!LogSpec

-----------------------------------------------------------------------------
(* A completion lasts, as long as nobody but the process interrupts a job *)

\* The updates of j among the operations ops.
Updates(j, ops) == {o \in ops : o.kind = "update" /\ o.job = j}

Completed(v) == v.status = "completed"

\* Of a run r of j with workers ws and updates us in flight: before anything
\* interrupts it, each update is awaited, so that none is left when it
\* completes.
RunClean(j, r, ws, us) ==
    /\ r.intr => "cancel" \in r.cause
    /\ r.block = "cancel" => r.pc = "save"
    /\ r.pc = "sem" => us = {}
    /\ r.pc = "begin" => \A o \in us : o.live /\ o.own = j
    /\ r.pc = "gather" => \A o \in us :
          o.live /\ \E w \in Workers : o.own = <<j, w>> /\ ws[w].pc = "count"

\* The live object m of a run r, the stored document v and the updates in
\* flight: a completed object stays so, and what may still be stored agrees.
Lasts(r, m, v, us) ==
    /\ ~m.cancelRequested
    /\ Completed(m) => /\ r.pc \in {"idle", "final", "hook", "hookSave", "save"}
                       /\ r.pc = "final" => r.exc = "none"
    /\ \A o \in us : o.stage = "started" => (Completed(o.val) <=> Completed(m))
    /\ Completed(v) => Completed(m) \/ (r.pc = "idle" /\ us = {})

JobLasting(j) ==
    /\ RunClean(j, run[j], wk[j], Updates(j, db))
    /\ Lasts(run[j], mem[j], repo[j], Updates(j, db))

\* j has not run since the process was started, or since it was submitted.
Unstarted(j) == run[j].pc = "idle" /\ ~Completed(mem[j]) /\ ~Completed(repo[j])

\* The call c is on the way to a run task.
Starts(c) == call[c].pc = "launch" \/ (call[c].op = "resume" /\ call[c].pc # "idle")

CallLasting(c) ==
    /\ call[c].pc \in {"rows", "build"} => call[c].op = "resume"
    /\ call[c].pc # "idle" => IF c = Boot THEN call[c].op = "resume" /\ mode = "boot"
                              ELSE call[c].op = "submit" /\ mode \notin {"boot", "down"}
    /\ Starts(c) =>
          /\ Unstarted(call[c].job)
          /\ \A o \in Updates(call[c].job, db) :
                call[c].pc = "save" /\ o.own = c /\ o.live /\ o.stage = "started"
          /\ call[c].pc = "save" => ~Completed(call[c].seen) /\ ~call[c].seen.cancelRequested

BootLasting(j) ==
    /\ mode = "boot" /\ Unstarted(j) /\ Updates(j, db) = {}
    /\ call[Boot].pc # "idle" => call[Boot].job # j

DownEmpty ==
    mode = "down" => \A j \in Jobs : run[j].pc = "idle" /\ mem[j] = NoJob /\ Updates(j, db) = {}

\* Whose an update is.
Owned == \A o \in db : o.kind = "update" =>
            o.own \in {o.job} \union ({o.job} \X Workers) \union Threads

LastingInv ==
    /\ \A j \in Jobs : JobLasting(j)
    /\ \A c \in Threads : CallLasting(c)
    /\ \A j \in boot : BootLasting(j)
    /\ Owned /\ DownEmpty /\ stray = {}

LEMMA NothingCompleted ==
  /\ ~Completed(NoJob) /\ ~NoJob.cancelRequested
  /\ \A j : ~Completed(Fresh(j)) /\ ~Fresh(j).cancelRequested
BY DEF Completed, NoJob, Fresh

\* The updates of j after more operations were given up, or updates were added.
LEMMA UpdatesGivenUp ==
    ASSUME TypeOK, NEW S, NEW j, NEW o \in Updates(j, Abandon(S))
    PROVE  \/ o \in Updates(j, db) /\ o.own \notin S
           \/ \E q \in Updates(j, db) : /\ q.own \in S /\ o.own = q.own
                                        /\ o.stage = q.stage /\ o.val = q.val
<1>1. CASE o \in db /\ o.own \notin S
  BY <1>1 DEF Updates
<1>2. CASE \E q \in db : q.own \in S /\ o = [q EXCEPT !.live = FALSE]
  <2>1. PICK q \in db : q.own \in S /\ o = [q EXCEPT !.live = FALSE]
    BY <1>2
  <2>2. q \in Operation
    BY <2>1 DEF TypeOK
  <2>3. /\ o.kind = q.kind /\ o.job = q.job /\ o.own = q.own
        /\ o.stage = q.stage /\ o.val = q.val
    BY <2>1, <2>2 DEF Operation
  <2>4. QED
    BY <2>1, <2>3 DEF Updates
<1>3. QED
  BY <1>1, <1>2 DEF Updates, Abandon

LEMMA NewUpdate ==
    ASSUME NEW j, NEW p
    PROVE  /\ \A o \in {Update(j, p)} : o.own = p /\ o.live /\ o.stage = "sent"
           /\ Updates(j, {Update(j, p)}) = {Update(j, p)}
           /\ \A k : k # j => Updates(k, {Update(j, p)}) = {}
BY DEF Update, Updates

LEMMA UpdatesUnion ==
    ASSUME NEW j, NEW A, NEW B
    PROVE  Updates(j, A \union B) = Updates(j, A) \union Updates(j, B)
BY DEF Updates

LEMMA CallJob ==
    ASSUME TypeOK, NEW c \in Threads, call[c].pc # "idle"
    PROVE  call[c].job \in Jobs
BY DEF TypeOK, Call, NoCall

-----------------------------------------------------------------------------
(* Steps of the tasks of j *)

\* A step of the tasks of j, which is running, leaves the other jobs alone.
LEMMA LastingStep ==
    ASSUME TypeOK, LastingInv, NEW j \in Jobs, run[j].pc # "idle",
           UNCHANGED <<mode, boot, stray, repo>>,
           \A k \in Jobs \ {j} : /\ run'[k] = run[k] /\ mem'[k] = mem[k] /\ wk'[k] = wk[k]
                                 /\ Updates(k, db') \subseteq Updates(k, db),
           \A c \in Threads : call'[c] = call[c] \/ call'[c] = NoCall,
           JobLasting(j)', Owned'
    PROVE  LastingInv'
<1>1. ASSUME NEW k \in Jobs PROVE JobLasting(k)'
  <2>1. CASE k # j
    <3>1. JobLasting(k) /\ run'[k] = run[k] /\ mem'[k] = mem[k] /\ wk'[k] = wk[k]
          /\ repo'[k] = repo[k] /\ Updates(k, db') \subseteq Updates(k, db)
      BY <2>1 DEF LastingInv
    <3>2. QED
      BY <3>1 DEF JobLasting, RunClean, Lasts
  <2>2. QED
    BY <2>1
<1>2. ASSUME NEW c \in Threads PROVE CallLasting(c)'
  <2>1. CASE call'[c] = NoCall
    BY <2>1 DEF CallLasting, Starts, NoCall
  <2>2. CASE call'[c] = call[c]
    <3>1. CallLasting(c)
      BY DEF LastingInv
    <3>2. Starts(c) => call[c].job # j
      BY <3>1 DEF CallLasting, Unstarted
    <3>3. Starts(c) => call[c].job \in Jobs
      BY CallJob DEF Starts
    <3>4. QED
      BY <2>2, <3>1, <3>2, <3>3 DEF CallLasting, Starts, Unstarted
  <2>3. QED
    BY <2>1, <2>2
<1>3. ASSUME NEW k \in boot' PROVE BootLasting(k)'
  <2>1. BootLasting(k) /\ k # j
    BY <1>3 DEF LastingInv, BootLasting, Unstarted
  <2>2. k \in Jobs \ {j} /\ Boot \in Threads
    BY <1>3, <2>1 DEF TypeOK, Threads
  <2>3. QED
    BY <2>1, <2>2 DEF BootLasting, Unstarted, NoCall
<1>4. DownEmpty'
  BY DEF LastingInv, DownEmpty
<1>5. QED
  BY <1>1, <1>2, <1>3, <1>4 DEF LastingInv

\* Where a run task is when its workers have ended.
LateOnes == {"idle", "final", "hook", "hookSave", "save"}

\* The operations after a step of the run task of j, or of its workers.
OwnSteps(j, ops) ==
    \A o \in ops : \/ o \in db \/ o = Update(j, j)
                   \/ \E S \in SUBSET ({j} \union ({j} \X Workers)) : o \in Abandon(S)

LEMMA OwnUpdates ==
    ASSUME TypeOK, LastingInv, NEW j \in Jobs, NEW ops, OwnSteps(j, ops)
    PROVE  /\ \A k \in Jobs \ {j} : Updates(k, ops) \subseteq Updates(k, db)
           /\ \A o \in Updates(j, ops) :
                 \/ o.stage = "sent"
                 \/ \E q \in Updates(j, db) : o.stage = q.stage /\ o.val = q.val
           /\ \A o \in ops : o.kind = "update" =>
                 o.own \in {o.job} \union ({o.job} \X Workers) \union Threads
<1> DEFINE Mine == {j} \union ({j} \X Workers)
<1>1. \A o \in db : o.kind = "update" =>
         o.own \in {o.job} \union ({o.job} \X Workers) \union Threads
  BY DEF LastingInv, Owned
<1>2. ASSUME NEW k \in Jobs \ {j}, NEW o \in Updates(k, db) PROVE o.own \notin Mine
  <2>1. o.own \in {k} \union ({k} \X Workers) \union Threads
    BY <1>1 DEF Updates
  <2>2. QED
    BY <1>2, <2>1, NamesAssumption
<1>3. ASSUME NEW o \in ops, o.kind = "update"
      PROVE  /\ o.job # j => o \in db
             /\ o.job = j => \/ o.stage = "sent"
                             \/ \E q \in Updates(j, db) : o.stage = q.stage /\ o.val = q.val
             /\ o.own \in {o.job} \union ({o.job} \X Workers) \union Threads
  <2>1. CASE o \in db
    BY <1>1, <1>3, <2>1 DEF Updates
  <2>2. CASE o = Update(j, j)
    BY <2>2 DEF Update
  <2>3. CASE \E S \in SUBSET Mine : o \in Abandon(S)
    <3>1. PICK S \in SUBSET Mine : o \in Abandon(S)
      BY <2>3
    <3>2. \A p \in db : p.job \in Jobs
      BY DEF TypeOK, Operation
    <3>3. o \in Updates(o.job, Abandon(S))
      BY <1>3, <3>1 DEF Updates
    <3>4. \/ o \in Updates(o.job, db) /\ o.own \notin S
          \/ \E q \in Updates(o.job, db) : /\ q.own \in S /\ o.own = q.own
                                           /\ o.stage = q.stage /\ o.val = q.val
      BY <3>3, UpdatesGivenUp
    <3>5. CASE o \in Updates(o.job, db)
      BY <1>1, <3>5 DEF Updates
    <3>6. ASSUME NEW q \in Updates(o.job, db), q.own \in S, o.own = q.own,
                 o.stage = q.stage, o.val = q.val
          PROVE  o.job = j /\ o.own \in {o.job} \union ({o.job} \X Workers) \union Threads
      <4>1. q \in db /\ q.job = o.job /\ q.kind = "update" /\ o.job \in Jobs
        BY <3>2, <3>6 DEF Updates
      <4>2. QED
        BY <1>1, <1>2, <3>6, <4>1
    <3>7. QED
      BY <3>4, <3>5, <3>6 DEF Updates
  <2>4. QED
    BY <1>3, <2>1, <2>2, <2>3 DEF OwnSteps
<1>4. QED
  BY <1>3 DEF Updates

\* A step that brings the run task of j further, past its first gather.
LEMMA LateStep ==
    ASSUME TypeOK, LastingInv, NEW j \in Jobs, run[j].pc # "idle",
           UNCHANGED <<mode, boot, stray, repo>>,
           \A k \in Jobs \ {j} : run'[k] = run[k] /\ mem'[k] = mem[k] /\ wk'[k] = wk[k],
           \A c \in Threads : call'[c] = call[c] \/ call'[c] = NoCall,
           OwnSteps(j, db'),
           run'[j].pc \in LateOnes \union {"cancelling", "drain"},
           run'[j].intr => "cancel" \in run'[j].cause,
           run'[j].block = "cancel" => run'[j].pc = "save",
           ~mem'[j].cancelRequested,
           Completed(mem'[j]) <=> Completed(mem[j]),
           Completed(mem[j]) => run'[j].pc \in LateOnes \ {"final"}
    PROVE  LastingInv'
<1>1. /\ \A k \in Jobs \ {j} : Updates(k, db') \subseteq Updates(k, db)
      /\ \A o \in Updates(j, db') :
            \/ o.stage = "sent"
            \/ \E q \in Updates(j, db) : o.stage = q.stage /\ o.val = q.val
      /\ Owned'
  BY OwnUpdates DEF Owned
<1>2. JobLasting(j)
  BY DEF LastingInv
<1>3. RunClean(j, run'[j], wk'[j], Updates(j, db'))
  BY DEF RunClean, LateOnes
<1>4. Lasts(run'[j], mem'[j], repo'[j], Updates(j, db'))
  <2>1. \A o \in Updates(j, db') : o.stage = "started" =>
           (Completed(o.val) <=> Completed(mem'[j]))
    BY <1>1, <1>2 DEF JobLasting, Lasts
  <2>2. Completed(repo'[j]) => Completed(mem'[j])
    BY <1>2 DEF JobLasting, Lasts
  <2>3. QED
    BY <2>1, <2>2 DEF Lasts, LateOnes
<1>5. JobLasting(j)'
  BY <1>3, <1>4 DEF JobLasting
<1>6. QED
  BY <1>1, <1>5, LastingStep

\* The ends of _execute_job and the handlers: with a completed object only
\* those that keep it.
LEMMA LateFinish ==
    ASSUME TypeOK, LastingInv, NEW j \in Jobs, run[j].pc # "idle", Finish(j), mem' = mem,
           UNCHANGED <<mode, boot, stray, repo, wk>>, OwnSteps(j, db')
    PROVE  LastingInv'
<1>1. /\ \A k \in Jobs \ {j} : run'[k] = run[k]
      /\ \A c \in Threads : call'[c] = call[c] \/ call'[c] = NoCall
  BY FinishEffect
<1>2. run'[j].pc = "idle" /\ run'[j].intr = FALSE /\ run'[j].block = "body"
  BY DEF Finish, TypeOK, Idle
<1>3. ~mem[j].cancelRequested
  BY DEF LastingInv, JobLasting, Lasts
<1>4. QED
  BY <1>1, <1>2, <1>3, LateStep DEF LateOnes

LEMMA LateGoto ==
    ASSUME TypeOK, LastingInv, NEW j \in Jobs, run[j].pc # "idle", NEW b,
           NEW p \in {"save", "hook"}, Goto(j, b, p), b = "cancel" => p = "save",
           \A k \in Jobs \ {j} : mem'[k] = mem[k],
           ~mem'[j].cancelRequested, Completed(mem'[j]) <=> Completed(mem[j]),
           UNCHANGED <<mode, boot, stray, repo, wk>>, OwnSteps(j, db')
    PROVE  LastingInv'
<1>1. /\ \A k \in Jobs \ {j} : run'[k] = run[k]
      /\ \A c \in Threads : call'[c] = call[c]
  BY GotoEffect
<1>2. run'[j].pc = p /\ run'[j].intr = FALSE /\ run'[j].block = b
  BY DEF Goto, TypeOK, RunTask
<1>3. QED
  BY <1>1, <1>2, LateStep DEF LateOnes

LEMMA LateTimeout ==
    ASSUME TypeOK, LastingInv, NEW j \in Jobs, run[j].pc # "idle", NEW ops,
           TimeoutHandler(j, ops), ~Completed(mem[j]),
           UNCHANGED <<mode, boot, stray, repo, wk>>, OwnSteps(j, db')
    PROVE  LastingInv'
<1>1. /\ \A k \in Jobs \ {j} : mem'[k] = mem[k]
      /\ mem'[j].cancelRequested = mem[j].cancelRequested /\ mem'[j].status = "failed"
  BY DEF TimeoutHandler, TypeOK, StoredJob
<1>2. ~mem[j].cancelRequested
  BY DEF LastingInv, JobLasting, Lasts
<1>3. QED
  BY <1>1, <1>2, LateGoto DEF TimeoutHandler, Completed

LEMMA LateCancel ==
    ASSUME TypeOK, LastingInv, NEW j \in Jobs, run[j].pc # "idle", NEW ops,
           CancelHandler(j, ops),
           UNCHANGED <<mode, boot, stray, repo, wk>>, OwnSteps(j, db')
    PROVE  LastingInv'
<1> DEFINE m == IF mem[j].status \in Open
                THEN [mem[j] EXCEPT !.status = "failed", !.error = "shutdown"]
                ELSE mem[j]
           n == [m EXCEPT !.webhook = "failed"]
<1>1. /\ m.cancelRequested = mem[j].cancelRequested
      /\ m.status \in {mem[j].status, "failed"} /\ (Completed(mem[j]) => m = mem[j])
      /\ n.cancelRequested = mem[j].cancelRequested /\ n.status = m.status
  BY DEF TypeOK, StoredJob, Completed, Open
<1>2. ~mem[j].cancelRequested
  BY DEF LastingInv, JobLasting, Lasts
<1>3. /\ mem' = [mem EXCEPT ![j] = m] \/ mem' = [mem EXCEPT ![j] = n]
      /\ ~m.cancelRequested => Goto(j, "cancel", "save")
  BY DEF CancelHandler
<1> HIDE DEF m, n
<1>4. /\ \A k \in Jobs \ {j} : mem'[k] = mem[k]
      /\ mem'[j] = m \/ mem'[j] = n
  BY <1>3 DEF TypeOK
<1>5. ~mem'[j].cancelRequested /\ (Completed(mem'[j]) <=> Completed(mem[j]))
  BY <1>1, <1>2, <1>4 DEF Completed
<1>6. QED
  BY <1>1, <1>2, <1>3, <1>4, <1>5, LateGoto

LEMMA LateLeave ==
    ASSUME TypeOK, LastingInv, NEW j \in Jobs, run[j].pc # "idle", NEW e, NEW ops,
           Leave(j, e, ops), e = "cancel" /\ "cancel" \notin run[j].cause => ~Completed(mem[j]),
           UNCHANGED <<mode, boot, stray, repo, wk>>, OwnSteps(j, db')
    PROVE  LastingInv'
<1>1. CASE CancelHandler(j, ops)
  BY <1>1, LateCancel
<1>2. CASE TimeoutHandler(j, ops) /\ e = "cancel" /\ "cancel" \notin run[j].cause
  BY <1>2, LateTimeout
<1>3. CASE Goto(j, "body", "hook") /\ UNCHANGED mem
  <2>1. ~mem[j].cancelRequested
    BY DEF LastingInv, JobLasting, Lasts
  <2>2. QED
    BY <1>3, <2>1, LateGoto
<1>4. CASE Finish(j) /\ UNCHANGED mem
  BY <1>4, LateFinish
<1>5. QED
  BY <1>1, <1>2, <1>3, <1>4 DEF Leave

\* What happens to the operations in these steps.
LEMMA OwnStepsOf ==
    ASSUME NEW j \in Jobs
    PROVE  /\ OwnSteps(j, db) /\ OwnSteps(j, db \union {Update(j, j)})
           /\ \A S \in SUBSET ({j} \union ({j} \X Workers)) :
                 OwnSteps(j, Abandon(S)) /\ OwnSteps(j, Abandon(S) \union {Update(j, j)})
BY DEF OwnSteps

LEMMA LeaveOps ==
    ASSUME NEW j, NEW e, NEW ops, Leave(j, e, ops)
    PROVE  db' = ops \/ db' = ops \union {Update(j, j)}
BY DEF Leave, CancelHandler, TimeoutHandler

LEMMA CancelWorkersLasting ==
    ASSUME TypeOK, LastingInv, NEW j \in Jobs, CancelWorkers(j),
           run[j].pc \in Gathering, UNCHANGED <<mode, boot, stray, repo, mem, call>>,
           \A k \in Jobs \ {j} : run'[k] = run[k],
           run'[j].pc \in {"cancelling", "drain"},
           run'[j].intr => "cancel" \in run'[j].cause,
           run'[j].block = run[j].block
    PROVE  LastingInv'
<1>1. /\ \A k \in Jobs \ {j} : wk'[k] = wk[k]
      /\ OwnSteps(j, db')
  <2>1. {<<j, w>> : w \in Killed(j)} \in SUBSET ({j} \union ({j} \X Workers))
    BY DEF Killed
  <2>2. QED
    BY <2>1, OwnStepsOf DEF CancelWorkers, TypeOK
<1>2. JobLasting(j)
  BY DEF LastingInv
<1>3. ~Completed(mem[j]) /\ ~mem[j].cancelRequested /\ run[j].block # "cancel"
  BY <1>2 DEF JobLasting, Lasts, RunClean, Gathering
<1>4. QED
  BY <1>1, <1>3, LateStep DEF Gathering

LEMMA RunTasksLasting ==
    ASSUME TypeOK, LockInv, LastingInv, RunTasks
    PROVE  LastingInv'
<1>1. PICK j \in Jobs :
         \/ StartJob(j) \/ StartWorkers(j) \/ Gathered(j) \/ Drain(j)
         \/ Drained(j) \/ Executed(j) \/ Saved(j) \/ Post(j) \/ Posted(j)
         \/ Interrupt(j) \/ InterruptGather(j)
  BY DEF RunTasks
<1>2. run[j] \in RunTask /\ mem[j] \in StoredJob
  BY DEF TypeOK
<1>3. /\ RunClean(j, run[j], wk[j], Updates(j, db))
      /\ Lasts(run[j], mem[j], repo[j], Updates(j, db))
      /\ stray = {}
  BY DEF LastingInv, JobLasting
<1>4. \A p, r : r = [run[j] EXCEPT !.pc = p] =>
         /\ r.pc = p /\ r.intr = run[j].intr /\ r.exc = run[j].exc
         /\ r.cause = run[j].cause /\ r.block = run[j].block
  BY <1>2 DEF RunTask
<1>5. \A v, s :
         /\ v = [mem[j] EXCEPT !.status = s] =>
               v.status = s /\ v.cancelRequested = mem[j].cancelRequested
         /\ v = [mem[j] EXCEPT !.webhook = s] =>
               v.status = mem[j].status /\ v.cancelRequested = mem[j].cancelRequested
  BY <1>2 DEF StoredJob
\* The run task sets its object to v, has it stored and goes on to pc p.
<1>6. ASSUME NEW v, v.cancelRequested = mem[j].cancelRequested,
             mem' = [mem EXCEPT ![j] = v],
             NEW p, run' = [run EXCEPT ![j] = [run[j] EXCEPT !.pc = p]],
             UNCHANGED <<mode, boot, stray, repo, wk, call>>
      PROVE  /\ \A k \in Jobs \ {j} : run'[k] = run[k] /\ mem'[k] = mem[k] /\ wk'[k] = wk[k]
             /\ mem'[j] = v /\ ~mem'[j].cancelRequested
             /\ run'[j].pc = p /\ run'[j].intr = run[j].intr /\ run'[j].exc = run[j].exc
             /\ run'[j].cause = run[j].cause /\ run'[j].block = run[j].block
  <2>1. /\ \A k \in Jobs \ {j} : run'[k] = run[k] /\ mem'[k] = mem[k]
        /\ mem'[j] = v /\ run'[j] = [run[j] EXCEPT !.pc = p]
    BY <1>6 DEF TypeOK
  <2>2. /\ run'[j].pc = p /\ run'[j].intr = run[j].intr /\ run'[j].exc = run[j].exc
        /\ run'[j].cause = run[j].cause /\ run'[j].block = run[j].block
    BY <1>4, <2>1
  <2>3. ~mem'[j].cancelRequested
    BY <1>3, <1>6, <2>1 DEF Lasts
  <2>4. QED
    BY <1>6, <2>1, <2>2, <2>3
<1>7. ASSUME NEW v, v.cancelRequested = mem[j].cancelRequested,
             Completed(v) <=> Completed(mem[j]),
             mem' = [mem EXCEPT ![j] = v],
             NEW p \in {"final", "hook", "hookSave"},
             run' = [run EXCEPT ![j] = [run[j] EXCEPT !.pc = p]],
             run[j].pc \notin {"idle", "save"}, p = "final" => ~Completed(mem[j]),
             UNCHANGED <<mode, boot, stray, repo, wk, call>>, OwnSteps(j, db')
      PROVE  LastingInv'
  <2>1. run[j].block # "cancel"
    BY <1>3, <1>7 DEF RunClean
  <2>2. /\ \A k \in Jobs \ {j} : run'[k] = run[k] /\ mem'[k] = mem[k] /\ wk'[k] = wk[k]
        /\ mem'[j] = v /\ ~mem'[j].cancelRequested
        /\ run'[j].pc = p /\ run'[j].intr = run[j].intr
        /\ run'[j].cause = run[j].cause /\ run'[j].block = run[j].block
    BY <1>6, <1>7
  <2>3. run'[j].intr => "cancel" \in run'[j].cause
    BY <1>3, <2>2 DEF RunClean
  <2>4. QED
    BY <1>7, <2>1, <2>2, <2>3, LateStep DEF LateOnes
<1>8. CASE StartJob(j)
  <2> DEFINE v == [mem[j] EXCEPT !.status = "running", !.error = "none"]
             us == Updates(j, db')
  <2>1. v.cancelRequested = mem[j].cancelRequested /\ ~Completed(v)
    BY <1>2 DEF StoredJob, Completed
  <2>2. /\ mem' = [mem EXCEPT ![j] = v] /\ run[j].pc = "sem" /\ ~run[j].intr
        /\ run' = [run EXCEPT ![j] = [run[j] EXCEPT !.pc = "begin"]]
        /\ db' = db \union {Update(j, j)}
        /\ UNCHANGED <<mode, boot, stray, repo, wk, call>>
    BY <1>8 DEF StartJob, TypeOK, env
  <2> HIDE DEF v
  <2>3. /\ \A k \in Jobs \ {j} : run'[k] = run[k] /\ mem'[k] = mem[k] /\ wk'[k] = wk[k]
        /\ mem'[j] = v /\ ~mem'[j].cancelRequested
        /\ run'[j].pc = "begin" /\ ~run'[j].intr /\ run'[j].block = run[j].block
    BY <1>6, <2>1, <2>2
  <2>4. us = {Update(j, j)}
    <3>1. us = Updates(j, db) \union Updates(j, {Update(j, j)})
      BY <2>2, UpdatesUnion
    <3>2. QED
      <4>1. Updates(j, db) = {}
        BY <1>3, <2>2 DEF RunClean
      <4>2. QED
        BY <3>1, <4>1, NewUpdate
  <2>5. RunClean(j, run'[j], wk'[j], us)
    <3>1. \A o \in us : o.own = j /\ o.live
      BY <2>4, NewUpdate
    <3>2. run[j].block # "cancel"
      BY <1>3, <2>2 DEF RunClean
    <3>3. QED
      BY <2>3, <3>1, <3>2 DEF RunClean
  <2>6. Lasts(run'[j], mem'[j], repo'[j], us)
    <3>1. ~Completed(repo[j])
      BY <1>3, <2>2 DEF Lasts
    <3>2. \A o \in us : o.stage = "sent"
      BY <2>4, NewUpdate
    <3>3. QED
      BY <2>1, <2>2, <2>3, <3>1, <3>2 DEF Lasts
  <2>7. JobLasting(j)'
    BY <2>5, <2>6 DEF JobLasting
  <2>8. /\ \A k \in Jobs \ {j} : Updates(k, db') \subseteq Updates(k, db)
        /\ Owned'
    BY <2>2, OwnUpdates, OwnStepsOf DEF Owned
  <2>9. QED
    BY <2>2, <2>3, <2>7, <2>8, LastingStep
<1>9. CASE StartWorkers(j)
  <2>1. /\ run[j].pc = "begin" /\ ~run[j].intr /\ ~Waiting(j)
        /\ run' = [run EXCEPT ![j] = [run[j] EXCEPT !.pc = "gather"]]
        /\ \A k \in Jobs \ {j} : wk'[k] = wk[k]
        /\ UNCHANGED <<mode, boot, stray, repo, mem, call, db>>
    BY <1>9 DEF StartWorkers, TypeOK, env
  <2>2. /\ \A k \in Jobs \ {j} : run'[k] = run[k]
        /\ run'[j] = [run[j] EXCEPT !.pc = "gather"]
    BY <2>1 DEF TypeOK
  <2>3. /\ run'[j].pc = "gather" /\ run'[j].intr = run[j].intr
        /\ run'[j].block = run[j].block
    BY <1>4, <2>2
  <2>4. Updates(j, db) = {}
    BY <1>3, <2>1 DEF RunClean, Waiting, Updates
  <2>5. JobLasting(j)'
    BY <1>3, <2>1, <2>3, <2>4 DEF JobLasting, RunClean, Lasts
  <2>6. Owned'
    BY <2>1 DEF LastingInv, Owned
  <2>7. QED
    BY <2>1, <2>2, <2>5, <2>6, LastingStep
<1>10. CASE Gathered(j)
  <2>1. /\ run[j].pc = "gather" /\ run[j].exc = "none" /\ AllOff(j) /\ ~run[j].intr
        /\ run' = [run EXCEPT ![j] = [run[j] EXCEPT !.pc = "final"]]
        /\ db' = db \union {Update(j, j)}
        /\ UNCHANGED <<mode, boot, stray, repo, wk, call>>
    BY <1>10 DEF Gathered, TypeOK, env
  <2>2. PICK v : /\ mem' = [mem EXCEPT ![j] = v]
                 /\ v.cancelRequested = mem[j].cancelRequested
    <3>1. PICK v : /\ mem' = [mem EXCEPT ![j] = v]
                   /\ \/ v = mem[j]
                      \/ v = [mem[j] EXCEPT !.status = "failed", !.error = "argus"]
                      \/ v = [mem[j] EXCEPT !.status = "completed"]
      <4>1. \/ mem' = [mem EXCEPT ![j] = mem[j]]
            \/ mem' = [mem EXCEPT ![j] = [mem[j] EXCEPT !.status = "failed", !.error = "argus"]]
            \/ mem' = [mem EXCEPT ![j] = [mem[j] EXCEPT !.status = "completed"]]
        BY <1>10 DEF Gathered, TypeOK
      <4>2. QED
        BY <4>1, Zenon
    <3>2. v.cancelRequested = mem[j].cancelRequested
      BY <1>2, <3>1 DEF StoredJob
    <3>3. QED
      BY <3>1, <3>2
  <2>3. /\ \A k \in Jobs \ {j} : run'[k] = run[k] /\ mem'[k] = mem[k] /\ wk'[k] = wk[k]
        /\ mem'[j] = v /\ ~mem'[j].cancelRequested
        /\ run'[j].pc = "final" /\ ~run'[j].intr /\ run'[j].exc = "none"
        /\ run'[j].block = run[j].block
    BY <1>6, <2>1, <2>2
  <2>4. Updates(j, db') = {Update(j, j)}
    <3>1. Updates(j, db) = {}
      BY <1>3, <2>1 DEF RunClean, AllOff
    <3>2. QED
      <4>1. Updates(j, db') = Updates(j, db) \union Updates(j, {Update(j, j)})
        BY <2>1, UpdatesUnion
      <4>2. QED
        BY <3>1, <4>1, NewUpdate
  <2>5. \A o \in Updates(j, db') : o.stage = "sent"
    BY <2>4, NewUpdate
  <2>6. JobLasting(j)'
    BY <1>3, <2>1, <2>3, <2>5 DEF JobLasting, RunClean, Lasts
  <2>7. /\ \A k \in Jobs \ {j} : Updates(k, db') \subseteq Updates(k, db)
        /\ Owned'
    BY <2>1, OwnUpdates, OwnStepsOf DEF Owned
  <2>8. QED
    BY <2>1, <2>3, <2>6, <2>7, LastingStep
<1>11. CASE Drain(j)
  <2>1. /\ run[j].pc \in Gathering /\ CancelWorkers(j) /\ ~run[j].intr
        /\ UNCHANGED <<mode, boot, stray, repo, mem, call>>
        /\ \A k \in Jobs \ {j} : run'[k] = run[k]
        /\ run'[j] = [run[j] EXCEPT !.pc = "drain"]
    BY <1>11 DEF Drain, TypeOK, Gathering, env
  <2>2. QED
    <3>1. /\ run'[j].pc = "drain" /\ run'[j].intr = run[j].intr
          /\ run'[j].block = run[j].block
      BY <1>2, <2>1 DEF RunTask
    <3>2. QED
      BY <2>1, <3>1, CancelWorkersLasting
<1>12. CASE Drained(j)
  <2>1. /\ run[j].pc = "drain" /\ ~run[j].intr
        /\ run' = [run EXCEPT ![j] = [run[j] EXCEPT !.pc = "final"]]
        /\ db' = db \union {Update(j, j)}
        /\ UNCHANGED <<mode, boot, stray, repo, wk, call>>
    BY <1>12 DEF Drained, TypeOK, env
  <2>2. ~Completed(mem[j])
    BY <1>3, <2>1 DEF Lasts
  <2>3. PICK v : /\ mem' = [mem EXCEPT ![j] = v] /\ ~Completed(v)
                 /\ v.cancelRequested = mem[j].cancelRequested
    <3>1. PICK v : /\ mem' = [mem EXCEPT ![j] = v]
                   /\ v = mem[j] \/ v = [mem[j] EXCEPT !.status = "failed"]
      <4>1. \/ mem' = [mem EXCEPT ![j] = mem[j]]
            \/ mem' = [mem EXCEPT ![j] = [mem[j] EXCEPT !.status = "failed"]]
        BY <1>12 DEF Drained, TypeOK
      <4>2. QED
        BY <4>1, Zenon
    <3>2. v.cancelRequested = mem[j].cancelRequested
          /\ (v.status = mem[j].status \/ v.status = "failed")
      BY <1>5, <3>1
    <3>3. QED
      BY <2>2, <3>1, <3>2 DEF Completed
  <2>4. QED
    BY <1>7, <2>1, <2>2, <2>3, OwnStepsOf
<1>13. CASE Executed(j)
  <2>1. /\ run[j].pc = "final" /\ Leave(j, run[j].exc, db)
        /\ UNCHANGED <<mode, boot, stray, repo, wk>>
    BY <1>13 DEF Executed, env
  <2>2. run[j].exc = "cancel" => ~Completed(mem[j])
    BY <1>3, <2>1 DEF Lasts
  <2>3. OwnSteps(j, db')
    BY <2>1, LeaveOps, OwnStepsOf
  <2>4. QED
    BY <2>1, <2>2, <2>3, LateLeave
<1>14. CASE Saved(j)
  <2>1. /\ run[j].pc = "save" /\ UNCHANGED <<mode, boot, stray, repo, wk, mem, db>>
        /\ Goto(j, "timeout", "hook") \/ Finish(j)
    BY <1>14 DEF Saved, env
  <2>2. ~mem[j].cancelRequested /\ OwnSteps(j, db')
    BY <1>3, <2>1, OwnStepsOf DEF Lasts
  <2>3. QED
    BY <2>1, <2>2, LateGoto, LateFinish
<1>15. CASE Post(j)
  <2>1. run[j].pc = "hook" /\ UNCHANGED <<mode, boot, stray, repo, wk, call>>
    BY <1>15 DEF Post, env
  <2>2. ASSUME NEW s, mem' = [mem EXCEPT ![j] = [mem[j] EXCEPT !.webhook = s]],
               db' = db \union {Update(j, j)},
               run' = [run EXCEPT ![j] = [run[j] EXCEPT !.pc = "hookSave"]]
        PROVE  LastingInv'
    <3> DEFINE v == [mem[j] EXCEPT !.webhook = s]
    <3>1. v.status = mem[j].status /\ v.cancelRequested = mem[j].cancelRequested
      BY <1>5
    <3>2. mem' = [mem EXCEPT ![j] = v] /\ OwnSteps(j, db')
      BY <2>2, OwnStepsOf
    <3> HIDE DEF v
    <3>3. QED
      BY <1>7, <2>1, <2>2, <3>1, <3>2 DEF Completed
  <2>3. ASSUME run' = [run EXCEPT ![j].attempt = @ + 1], UNCHANGED <<mem, db>>
        PROVE  LastingInv'
    <3>1. /\ \A k \in Jobs \ {j} : run'[k] = run[k]
          /\ run'[j] = [run[j] EXCEPT !.attempt = @ + 1]
      BY <2>3 DEF TypeOK
    <3>2. /\ run'[j].pc = "hook" /\ run'[j].intr = run[j].intr
          /\ run'[j].cause = run[j].cause /\ run'[j].block = run[j].block
      BY <1>2, <2>1, <3>1 DEF RunTask
    <3>3. run[j].block # "cancel" /\ ~mem[j].cancelRequested
          /\ (run[j].intr => "cancel" \in run[j].cause)
      BY <1>3, <2>1 DEF RunClean, Lasts
    <3>4. OwnSteps(j, db')
      BY <2>3, OwnStepsOf
    <3>5. QED
      BY <2>1, <2>3, <3>1, <3>2, <3>3, <3>4, LateStep DEF LateOnes
  <2>4. \/ \E s : /\ mem' = [mem EXCEPT ![j] = [mem[j] EXCEPT !.webhook = s]]
                  /\ db' = db \union {Update(j, j)}
                  /\ run' = [run EXCEPT ![j] = [run[j] EXCEPT !.pc = "hookSave"]]
        \/ run' = [run EXCEPT ![j].attempt = @ + 1] /\ UNCHANGED <<mem, db>>
    BY <1>15 DEF Post, TypeOK
  <2>5. QED
    BY <2>2, <2>3, <2>4
<1>16. CASE Posted(j)
  <2>1. run[j].pc = "hookSave" /\ UNCHANGED <<mode, boot, stray, repo, wk, mem>>
    BY <1>16 DEF Posted, env
  <2>2. run[j].block # "cancel" /\ OwnSteps(j, db)
    BY <1>3, <2>1, OwnStepsOf DEF RunClean
  <2>3. Finish(j) /\ db' = db
    BY <1>16, <2>2 DEF Posted
  <2>4. QED
    BY <2>1, <2>2, <2>3, LateFinish
<1>17. CASE Interrupt(j)
  <2>1. /\ run[j].pc \notin Gathering /\ run[j].pc # "idle" /\ "cancel" \in run[j].cause
        /\ UNCHANGED <<mode, boot, repo, wk>>
    BY <1>3, <1>17 DEF Interrupt, Gathering, env, RunClean
  <2>2. run[j].block = "cancel" => run[j].pc = "save"
    BY <1>3 DEF RunClean
  <2>3. stray' = stray
    BY <1>17, <2>2 DEF Interrupt
  <2>4. /\ {j} \in SUBSET ({j} \union ({j} \X Workers))
        /\ OwnSteps(j, Abandon({j})) /\ OwnSteps(j, Abandon({j}) \union {Update(j, j)})
    BY OwnStepsOf
  <2>5. CASE Leave(j, "cancel", Abandon({j}))
    <3>1. OwnSteps(j, db')
      BY <2>4, <2>5, LeaveOps
    <3>2. QED
      BY <2>1, <2>3, <2>5, <3>1, LateLeave
  <2>6. CASE CancelHandler(j, Abandon({j}))
    <3>1. OwnSteps(j, db')
      BY <2>4, <2>6 DEF CancelHandler
    <3>2. QED
      BY <2>1, <2>3, <2>6, <3>1, LateCancel
  <2>7. CASE Finish(j) /\ db' = Abandon({j}) /\ UNCHANGED mem
    BY <2>1, <2>3, <2>4, <2>7, LateFinish
  <2>8. QED
    BY <1>17, <2>2, <2>5, <2>6, <2>7 DEF Interrupt
<1>18. CASE InterruptGather(j)
  <2>1. /\ run[j].pc \in Gathering /\ run[j].intr
        /\ UNCHANGED <<mode, boot, stray, repo, mem, call>>
        /\ \A k \in Jobs \ {j} : run'[k] = run[k]
        /\ run'[j].pc \in {"cancelling", "drain"} /\ run'[j].intr = FALSE
        /\ run'[j].block = run[j].block
    BY <1>2, <1>18 DEF InterruptGather, TypeOK, RunTask, Gathering, env
  <2>2. CASE CancelWorkers(j)
    BY <2>1, <2>2, CancelWorkersLasting
  <2>3. CASE UNCHANGED <<wk, lock, db>>
    <3>1. ~Completed(mem[j]) /\ ~mem[j].cancelRequested /\ run[j].block # "cancel"
      BY <1>3, <2>1 DEF Lasts, RunClean, Gathering
    <3>2. OwnSteps(j, db')
      BY <2>3, OwnStepsOf
    <3>3. QED
      BY <2>1, <2>3, <3>1, <3>2, LateStep DEF Gathering
  <2>4. QED
    BY <1>18, <2>2, <2>3 DEF InterruptGather
<1>19. QED
  BY <1>1, <1>8, <1>9, <1>10, <1>11, <1>12, <1>13, <1>14, <1>15, <1>16, <1>17,
     <1>18

-----------------------------------------------------------------------------
(* Repository operations and workers *)

\* Operations are started, or applied, or given to the store.
LEMMA LastingOps ==
    ASSUME TypeOK, TypeOK', LastingInv, UNCHANGED <<mode, boot, stray, call, run, mem>>,
           \A j \in Jobs, w \in Workers :
              wk[j][w].pc = "count" => wk'[j][w].pc = "count",
           \A k \in Jobs : \/ repo'[k] = repo[k]
                           \/ \E q \in Updates(k, db) : q.stage = "started" /\ repo'[k] = q.val,
           \A k \in Jobs : \A p \in Updates(k, db') : \E q \in Updates(k, db) :
              /\ p.own = q.own /\ p.live = q.live
              /\ \/ p.stage = q.stage /\ p.val = q.val
                 \/ q.stage = "sent" /\ p.stage = "started" /\ p.val = mem[k]
    PROVE  LastingInv'
<1>1. ASSUME NEW k \in Jobs PROVE JobLasting(k)'
  <2>1. RunClean(k, run[k], wk[k], Updates(k, db)) /\ Lasts(run[k], mem[k], repo[k], Updates(k, db))
    BY DEF LastingInv, JobLasting
  <2>2. RunClean(k, run'[k], wk'[k], Updates(k, db'))
    BY <2>1 DEF RunClean
  <2>3. \A p \in Updates(k, db') : p.stage = "started" =>
           (Completed(p.val) <=> Completed(mem[k]))
    <3>1. ASSUME NEW p \in Updates(k, db'), p.stage = "started"
          PROVE  Completed(p.val) <=> Completed(mem[k])
      <4>1. PICK q \in Updates(k, db) :
               \/ p.stage = q.stage /\ p.val = q.val
               \/ q.stage = "sent" /\ p.stage = "started" /\ p.val = mem[k]
        OBVIOUS
      <4>2. QED
        BY <2>1, <3>1, <4>1 DEF Lasts
    <3>2. QED
      BY <3>1
  <2>4. Completed(repo'[k]) => Completed(mem[k]) \/ (run[k].pc = "idle" /\ Updates(k, db') = {})
    BY <2>1 DEF Lasts
  <2>5. Lasts(run'[k], mem'[k], repo'[k], Updates(k, db'))
    BY <2>1, <2>3, <2>4 DEF Lasts
  <2>6. QED
    BY <2>2, <2>5 DEF JobLasting
<1>2. ASSUME NEW k \in Jobs, Unstarted(k) PROVE Unstarted(k)'
  <2>1. Lasts(run[k], mem[k], repo[k], Updates(k, db))
    BY DEF LastingInv, JobLasting
  <2>2. QED
    BY <1>2, <2>1 DEF Unstarted, Lasts
<1>3. ASSUME NEW c \in Threads PROVE CallLasting(c)'
  <2>1. CallLasting(c)
    BY DEF LastingInv
  <2>2. Starts(c) => call[c].job \in Jobs
    BY CallJob DEF Starts
  <2>3. Starts(c) => \A o \in Updates(call[c].job, db') :
           call[c].pc = "save" /\ o.own = c /\ o.live /\ o.stage = "started"
    BY <2>1, <2>2 DEF CallLasting
  <2>4. Starts(c) => Unstarted(call[c].job)'
    BY <1>2, <2>1, <2>2 DEF CallLasting
  <2>5. QED
    BY <2>1, <2>3, <2>4 DEF CallLasting, Starts, Unstarted
<1>4. ASSUME NEW k \in boot' PROVE BootLasting(k)'
  <2>1. BootLasting(k) /\ k \in Jobs
    BY <1>4 DEF LastingInv, TypeOK
  <2>2. Unstarted(k)' /\ Updates(k, db') = {}
    BY <1>2, <2>1 DEF BootLasting
  <2>3. QED
    BY <2>1, <2>2 DEF BootLasting
<1>5. Owned'
  <2>1. ASSUME NEW p \in db', p.kind = "update"
        PROVE  p.own \in {p.job} \union ({p.job} \X Workers) \union Threads
    <3>1. p.job \in Jobs /\ p \in Updates(p.job, db')
      BY <2>1 DEF Updates, TypeOK, Operation
    <3>2. PICK q \in Updates(p.job, db) : p.own = q.own
      BY <3>1
    <3>3. QED
      BY <3>2 DEF LastingInv, Owned, Updates
  <2>2. QED
    BY <2>1 DEF Owned
<1>6. DownEmpty'
  BY DEF LastingInv, DownEmpty
<1>7. QED
  BY <1>1, <1>3, <1>4, <1>5, <1>6 DEF LastingInv

LEMMA StorageLasting ==
    ASSUME TypeOK, TypeOK', LockInv, LastingInv, Storage
    PROVE  LastingInv'
<1>1. PICK o \in db : StartOp(o) \/ ApplyUpdate(o) \/ ApplyAppend(o)
  BY DEF Storage
<1>2. o \in Operation
  BY <1>1 DEF TypeOK
<1>3. CASE StartOp(o)
  <2> DEFINE q == [o EXCEPT !.stage = "started",
                            !.val = IF o.kind = "update" THEN mem[o.job] ELSE @]
  <2>1. /\ q.kind = o.kind /\ q.job = o.job /\ q.own = o.own /\ q.live = o.live
        /\ q.stage = "started" /\ (o.kind = "update" => q.val = mem[o.job])
    BY <1>2 DEF Operation
  <2>2. /\ o.stage = "sent" /\ db' = (db \ {o}) \union {q}
        /\ UNCHANGED <<mode, boot, stray, call, run, mem, wk, repo>>
    BY <1>3 DEF StartOp, env
  <2> HIDE DEF q
  <2>3. ASSUME NEW k \in Jobs, NEW p \in Updates(k, db')
        PROVE  \E r \in Updates(k, db) :
                 /\ p.own = r.own /\ p.live = r.live
                 /\ \/ p.stage = r.stage /\ p.val = r.val
                    \/ r.stage = "sent" /\ p.stage = "started" /\ p.val = mem[k]
    <3>1. CASE p = q
      <4>1. o \in Updates(k, db) /\ p.val = mem[k]
        BY <1>1, <2>1, <2>3, <3>1 DEF Updates
      <4>2. QED
        BY <2>1, <2>2, <3>1, <4>1
    <3>2. CASE p \in db
      <4>1. p \in Updates(k, db)
        BY <2>3, <3>2 DEF Updates
      <4>2. QED
        BY <4>1
    <3>3. QED
      BY <2>2, <2>3, <3>1, <3>2 DEF Updates
  <2>4. QED
    BY <2>2, <2>3, LastingOps
<1>4. ASSUME db' = db \ {o}
      PROVE  \A k \in Jobs : \A p \in Updates(k, db') : \E r \in Updates(k, db) :
                 p.own = r.own /\ p.live = r.live /\ p.stage = r.stage /\ p.val = r.val
  BY <1>4 DEF Updates
<1>5. CASE ApplyUpdate(o)
  <2>1. /\ o.kind = "update" /\ o.stage = "started" /\ db' = db \ {o}
        /\ repo' = [repo EXCEPT ![o.job] = o.val]
        /\ UNCHANGED <<mode, boot, stray, call, run, mem, wk>>
    BY <1>5 DEF ApplyUpdate, env
  <2>2. \A k \in Jobs : \/ repo'[k] = repo[k]
                        \/ \E q \in Updates(k, db) : q.stage = "started" /\ repo'[k] = q.val
    <3>1. o \in Updates(o.job, db) /\ o.job \in Jobs
      BY <1>1, <1>2, <2>1 DEF Updates, Operation
    <3>2. repo'[o.job] = o.val /\ \A k \in Jobs \ {o.job} : repo'[k] = repo[k]
      BY <2>1, <3>1 DEF TypeOK
    <3>3. QED
      BY <2>1, <3>1, <3>2
  <2>3. QED
    BY <1>4, <2>1, <2>2, LastingOps
<1>6. CASE ApplyAppend(o)
  <2>1. /\ db' = db \ {o} /\ UNCHANGED <<mode, boot, stray, call, run, mem, repo>>
        /\ o.kind = "append"
        /\ \/ UNCHANGED wk
           \/ o.live /\ wk' = [wk EXCEPT ![o.job][o.own[2]].pc = "dup"]
    BY <1>6 DEF ApplyAppend, env
  <2>2. \A j \in Jobs, w \in Workers : wk[j][w].pc = "count" => wk'[j][w].pc = "count"
    <3>1. CASE o.live /\ wk' = [wk EXCEPT ![o.job][o.own[2]].pc = "dup"]
      <4>1. PICK w \in Workers : o.own = <<o.job, w>> /\ wk[o.job][w].pc = "append"
        BY <1>1, <2>1, <3>1 DEF LockInv, Awaited, Held
      <4>2. \A j \in Jobs, v \in Workers : <<j, v>> # <<o.job, w>> => wk'[j][v] = wk[j][v]
        BY <3>1, <4>1 DEF TypeOK
      <4>3. QED
        BY <4>1, <4>2
    <3>2. QED
      BY <2>1, <3>1
  <2>3. QED
    BY <1>4, <2>1, <2>2, LastingOps
<1>7. QED
  BY <1>1, <1>3, <1>5, <1>6

\* A step of worker w of j, whose run task waits for it.
LEMMA WorkerLasting ==
    ASSUME TypeOK, LastingInv, NEW j \in Jobs, NEW w \in Workers,
           run[j].pc \in Gathering, UNCHANGED <<mode, boot, stray, repo, call>>,
           \A k \in Jobs \ {j} : run'[k] = run[k] /\ mem'[k] = mem[k] /\ wk'[k] = wk[k],
           \A v \in Workers \ {w} : wk'[j][v] = wk[j][v],
           run'[j].pc = run[j].pc, run'[j].intr = run[j].intr,
           run'[j].cause = run[j].cause, run'[j].block = run[j].block,
           mem'[j].status = mem[j].status,
           mem'[j].cancelRequested = mem[j].cancelRequested,
           wk[j][w].pc = "count" => ~Waiting(<<j, w>>),
           \/ \A o \in db' : o \in db \/ o.kind # "update"
           \/ db' = db \union {Update(j, <<j, w>>)} /\ wk'[j][w].pc = "count"
    PROVE  LastingInv'
<1> DEFINE u == Update(j, <<j, w>>)
<1>1. /\ u.kind = "update" /\ u.job = j /\ u.own = <<j, w>> /\ u.live /\ u.stage = "sent"
  BY DEF Update
<1> HIDE DEF u
<1>2. \A o \in db' : \/ o \in db \/ o.kind # "update"
                     \/ o = u /\ wk'[j][w].pc = "count"
  BY DEF u
<1>3. \A k \in Jobs \ {j} : Updates(k, db') \subseteq Updates(k, db)
  BY <1>1, <1>2 DEF Updates
<1>4. \A o \in Updates(j, db') : o \in Updates(j, db) \/ (o = u /\ wk'[j][w].pc = "count")
  BY <1>2 DEF Updates
<1>5. RunClean(j, run[j], wk[j], Updates(j, db)) /\ Lasts(run[j], mem[j], repo[j], Updates(j, db))
  BY DEF LastingInv, JobLasting
<1>6. RunClean(j, run'[j], wk'[j], Updates(j, db'))
  <2>1. ASSUME NEW o \in Updates(j, db'), run[j].pc = "gather"
        PROVE  o.live /\ \E v \in Workers : o.own = <<j, v>> /\ wk'[j][v].pc = "count"
    <3>1. CASE o \in Updates(j, db)
      <4>1. PICK v \in Workers : o.live /\ o.own = <<j, v>> /\ wk[j][v].pc = "count"
        BY <1>5, <2>1, <3>1 DEF RunClean
      <4>2. v # w
        BY <3>1, <4>1 DEF Waiting, Updates
      <4>3. QED
        BY <4>1, <4>2
    <3>2. QED
      BY <1>1, <1>4, <2>1, <3>1
  <2>2. QED
    BY <1>5, <2>1 DEF RunClean, Gathering
<1>7. Lasts(run'[j], mem'[j], repo'[j], Updates(j, db'))
  BY <1>1, <1>4, <1>5 DEF Lasts, Completed, Gathering
<1>8. JobLasting(j)'
  BY <1>6, <1>7 DEF JobLasting
<1>9. Owned'
  BY <1>1, <1>2 DEF LastingInv, Owned
<1>10. QED
  BY <1>3, <1>8, <1>9, LastingStep DEF Gathering

LEMMA WorkerTasksLasting ==
    ASSUME TypeOK, LockInv, LastingInv, WorkerTasks
    PROVE  LastingInv'
<1>1. PICK j \in Jobs, w \in Workers :
         \/ Take(j, w) \/ Collected(j, w) \/ Persist(j, w) \/ Appended(j, w)
         \/ Counted(j, w) \/ Duplicate(j, w) \/ Die(j, w)
  BY DEF WorkerTasks
<1>2. wk[j][w] \in Worker /\ run[j] \in RunTask /\ mem[j] \in StoredJob
  BY DEF TypeOK
<1>3. \A s : SetWorker(j, w, s) =>
        /\ \A k \in Jobs \ {j} : wk'[k] = wk[k]
        /\ \A v \in Workers \ {w} : wk'[j][v] = wk[j][v]
  BY DEF SetWorker, TypeOK
<1>4. /\ UNCHANGED <<mode, boot, stray, repo, call>>
      /\ run[j].pc \in Gathering
      /\ \A k \in Jobs \ {j} : wk'[k] = wk[k]
      /\ \A v \in Workers \ {w} : wk'[j][v] = wk[j][v]
  <2>1. UNCHANGED <<mode, boot, stray, repo, call>> /\ wk[j][w].pc # "off"
    BY <1>1 DEF Take, Collected, Persist, Appended, Counted, Duplicate, Die, env
  <2>2. run[j].pc \in Gathering
    BY <2>1 DEF LockInv, Exclusive, TasksCover, Gathering
  <2>3. \E s : SetWorker(j, w, s)
    BY <1>1 DEF Take, Collected, Persist, Appended, Counted, Duplicate, Die
  <2>4. QED
    BY <1>3, <2>1, <2>2, <2>3
<1>5. /\ \A k \in Jobs \ {j} : run'[k] = run[k]
      /\ run'[j].pc = run[j].pc /\ run'[j].intr = run[j].intr
      /\ run'[j].cause = run[j].cause /\ run'[j].block = run[j].block
  <2>1. CASE Take(j, w)
    <3>1. run' = run \/ \E i \in run[j].left : run' = [run EXCEPT ![j].left = @ \ {i}]
      BY <2>1 DEF Take
    <3>2. QED
      BY <1>2, <3>1 DEF RunTask, TypeOK
  <2>2. CASE Collected(j, w)
    <3> DEFINE n == IF run[j].argus < ArgusLimit THEN run[j].argus + 1 ELSE run[j].argus
    <3>1. PICK out \in Outcomes :
             run' = CASE out = "ok" -> [run EXCEPT ![j].argus = 0]
                      [] out = "fail" -> run
                      [] out = "argus" ->
                           [run EXCEPT ![j].argus = n, ![j].stop = @ \/ n = ArgusLimit]
      BY <2>2 DEF Collected
    <3> HIDE DEF n
    <3>2. \/ run' = [run EXCEPT ![j].argus = 0] \/ run' = run
          \/ run' = [run EXCEPT ![j].argus = n, ![j].stop = @ \/ n = ArgusLimit]
      BY <3>1, SizesAssumption
    <3>3. QED
      BY <1>2, <3>2 DEF RunTask, TypeOK
  <2>3. CASE Counted(j, w) \/ Duplicate(j, w) \/ Die(j, w)
    <3>1. run' = run \/ run' = [run EXCEPT ![j].exc = FirstExc(j, "cancel")]
          \/ run' = [run EXCEPT ![j].exc = FirstExc(j, "error")]
      BY <2>3 DEF Counted, Duplicate, Die
    <3>2. QED
      BY <1>2, <3>1 DEF RunTask, TypeOK
  <2>4. CASE Persist(j, w) \/ Appended(j, w)
    BY <2>4 DEF Persist, Appended
  <2>5. QED
    BY <1>1, <2>1, <2>2, <2>3, <2>4
<1>6. /\ \A k \in Jobs \ {j} : mem'[k] = mem[k]
      /\ mem'[j].status = mem[j].status
      /\ mem'[j].cancelRequested = mem[j].cancelRequested
  <2>1. CASE Appended(j, w)
    BY <1>2, <2>1 DEF Appended, StoredJob, TypeOK
  <2>2. CASE ~Appended(j, w)
    BY <1>1, <2>2 DEF Take, Collected, Persist, Counted, Duplicate, Die
  <2>3. QED
    BY <2>1, <2>2
<1>7. wk[j][w].pc = "count" => ~Waiting(<<j, w>>)
  BY <1>1 DEF Take, Collected, Persist, Appended, Counted, Duplicate, Die
<1>8. CASE Appended(j, w)
  <2>1. wk'[j][w].pc = "count" /\ db' = db \union {Update(j, <<j, w>>)}
    BY <1>2, <1>8 DEF Appended, SetWorker, TypeOK, Worker
  <2>2. QED
    BY <1>4, <1>5, <1>6, <1>7, <2>1, WorkerLasting
<1>9. CASE ~Appended(j, w)
  <2>1. \A o \in db' : o \in db \/ o.kind # "update"
    <3>1. db' = db \/ db' = db \union {Append(j, w, mem[j].completed, wk[j][w].item)}
      BY <1>1, <1>9 DEF Take, Collected, Persist, Counted, Duplicate, Die
    <3>2. Append(j, w, mem[j].completed, wk[j][w].item).kind = "append"
      BY DEF Append
    <3>3. QED
      BY <3>1, <3>2
  <2>2. QED
    BY <1>4, <1>5, <1>6, <1>7, <2>1, WorkerLasting
<1>10. QED
  BY <1>8, <1>9

-----------------------------------------------------------------------------
(* Calls *)

LEMMA SameLasting ==
    ASSUME LastingInv, UNCHANGED <<mode, boot, stray, repo, mem, run, wk, db, call>>
    PROVE  LastingInv'
<1>1. \A j : Unstarted(j)' <=> Unstarted(j)
  BY DEF Unstarted
<1>2. \A c : (Starts(c)' <=> Starts(c)) /\ (CallLasting(c)' <=> CallLasting(c))
  BY <1>1 DEF Starts, CallLasting, Unstarted
<1>3. \A j : (JobLasting(j)' <=> JobLasting(j)) /\ (BootLasting(j)' <=> BootLasting(j))
  BY <1>1 DEF JobLasting, BootLasting
<1>4. QED
  BY <1>2, <1>3 DEF LastingInv, Owned, DownEmpty

\* A call that holds the lock is the only one on the way to a run task.
LEMMA StartsAlone ==
    ASSUME LockInv, LastingInv, NEW c \in Threads, Past(c), NEW d \in Threads, d # c
    PROVE  ~Starts(d)
<1>1. CallLasting(c) /\ CallLasting(d) /\ call[c].pc # "idle"
  BY DEF LastingInv, Past
<1>2. lock = c /\ (call[d].pc = "launch" => lock = d)
  BY DEF LockInv, Exclusive, CallsLocked, Past
<1>3. SUFFICES ASSUME Starts(d) PROVE FALSE
  OBVIOUS
<1>4. call[d].pc # "idle"
  BY <1>3 DEF Starts
<1>5. CASE d = Boot
  BY <1>1, <1>4, <1>5 DEF CallLasting
<1>6. CASE d # Boot
  BY <1>1, <1>2, <1>3, <1>4, <1>6 DEF CallLasting, Starts
<1>7. QED
  BY <1>5, <1>6

\* While startup resumes a job, the calls are idle and the job is its own.
LEMMA BootAlone ==
    ASSUME LastingInv, NEW c \in Threads, call[c].pc # "idle", NEW k \in boot
    PROVE  c = Boot /\ call[c].job # k
BY DEF LastingInv, CallLasting, BootLasting

\* A call goes on, or is answered, and nothing else happens.
LEMMA CallOnly ==
    ASSUME LastingInv, NEW c \in Threads, call[c].pc # "idle",
           UNCHANGED <<mode, boot, stray, repo, mem, run, wk, db>>,
           \A d \in Threads \ {c} : call'[d] = call[d],
           \/ call'[c] = NoCall
           \/ /\ call'[c].op = call[c].op /\ call'[c].job = call[c].job
              /\ call[c].pc # "save" /\ call'[c].pc \notin {"launch", "save"}
              /\ call'[c].pc \in {"rows", "build"} => call[c].op = "resume"
    PROVE  LastingInv'
<1>1. \A j : Unstarted(j)' <=> Unstarted(j)
  BY DEF Unstarted
<1>2. ASSUME NEW d \in Threads PROVE CallLasting(d)'
  <2>1. CASE d # c
    <3>1. CallLasting(d) /\ call'[d] = call[d]
      BY <2>1 DEF LastingInv
    <3>2. QED
      BY <1>1, <3>1 DEF CallLasting, Starts, Unstarted
  <2>2. CASE d = c /\ call'[c] = NoCall
    BY <2>2 DEF CallLasting, Starts, NoCall
  <2>3. CASE d = c /\ call'[c] # NoCall
    <3>1. CallLasting(c)
      BY DEF LastingInv
    <3>2. Starts(c)' => Starts(c)
      BY <2>3 DEF Starts
    <3>3. Starts(c) => Unstarted(call[c].job) /\ Updates(call[c].job, db) = {}
      BY <2>3, <3>1 DEF CallLasting
    <3>4. QED
      BY <1>1, <2>3, <3>1, <3>2, <3>3 DEF CallLasting, Unstarted
  <2>4. QED
    BY <2>1, <2>2, <2>3
<1>3. ASSUME NEW k \in boot' PROVE BootLasting(k)'
  <2>1. BootLasting(k) /\ Boot \in Threads
    BY <1>3 DEF LastingInv, Threads
  <2>2. call'[Boot].pc # "idle" => call'[Boot].job = call[Boot].job /\ call[Boot].pc # "idle"
    BY <2>1 DEF NoCall
  <2>3. QED
    BY <1>1, <2>1, <2>2 DEF BootLasting, Unstarted
<1>4. \A j : JobLasting(j)' <=> JobLasting(j)
  BY DEF JobLasting
<1>5. QED
  BY <1>2, <1>3, <1>4 DEF LastingInv, Owned, DownEmpty

\* A run task is created for the job of c, which has not run.
LEMMA LaunchLasting ==
    ASSUME TypeOK, LockInv, LastingInv, NEW c \in Threads, NEW v, NEW pending,
           Past(c), Starts(c), Updates(call[c].job, db) = {},
           ~Completed(v), ~v.cancelRequested,
           Launch(call[c].job, v, pending), Respond(c),
           UNCHANGED <<mode, boot, stray, repo, wk, db>>
    PROVE  LastingInv'
<1> DEFINE j == call[c].job
           r == [Idle EXCEPT !.pc = "sem", !.left = pending]
<1>1. j \in Jobs /\ call[c].pc # "idle"
  BY CallJob DEF Past
<1>2. r.pc = "sem" /\ r.intr = FALSE /\ r.block = "body"
  BY DEF Idle
<1>3. /\ mem' = [mem EXCEPT ![j] = v] /\ run' = [run EXCEPT ![j] = r]
      /\ call' = [call EXCEPT ![c] = NoCall]
  BY DEF Launch, Respond, SetCall
<1>4. Unstarted(j) /\ Updates(j, db) = {}
  BY DEF LastingInv, CallLasting
<1> HIDE DEF j, r
<1>5. /\ mem'[j] = v /\ run'[j] = r /\ call'[c] = NoCall
      /\ \A k \in Jobs \ {j} : mem'[k] = mem[k] /\ run'[k] = run[k]
      /\ \A d \in Threads \ {c} : call'[d] = call[d]
  BY <1>1, <1>3 DEF TypeOK
<1>6. ASSUME NEW k \in Jobs PROVE JobLasting(k)'
  <2>1. CASE k = j
    <3>1. RunClean(j, run'[j], wk'[j], Updates(j, db'))
      BY <1>2, <1>4, <1>5 DEF RunClean
    <3>2. Lasts(run'[j], mem'[j], repo'[j], Updates(j, db'))
      BY <1>4, <1>5 DEF Lasts, Unstarted
    <3>3. QED
      BY <2>1, <3>1, <3>2 DEF JobLasting
  <2>2. CASE k # j
    <3>1. JobLasting(k) /\ run'[k] = run[k] /\ mem'[k] = mem[k]
      BY <1>5, <2>2 DEF LastingInv
    <3>2. QED
      BY <3>1 DEF JobLasting
  <2>3. QED
    BY <2>1, <2>2
<1>7. ASSUME NEW d \in Threads PROVE CallLasting(d)'
  <2>1. CASE d = c
    BY <1>5, <2>1 DEF CallLasting, Starts, NoCall
  <2>2. CASE d # c
    <3>1. CallLasting(d) /\ ~Starts(d) /\ call'[d] = call[d]
      BY <1>5, <2>2, StartsAlone DEF LastingInv
    <3>2. QED
      BY <3>1 DEF CallLasting, Starts
  <2>3. QED
    BY <2>1, <2>2
<1>8. ASSUME NEW k \in boot' PROVE BootLasting(k)'
  <2>1. BootLasting(k) /\ k \in Jobs /\ Boot \in Threads
    BY <1>8 DEF LastingInv, Threads, TypeOK
  <2>2. c = Boot /\ k # j
    BY <1>1, <1>8, BootAlone DEF j
  <2>3. QED
    BY <1>5, <2>1, <2>2 DEF BootLasting, Unstarted, NoCall
<1>9. Owned' /\ DownEmpty' /\ stray' = {}
  <2>1. mode # "down"
    BY <1>1 DEF LastingInv, CallLasting
  <2>2. QED
    BY <2>1 DEF LastingInv, Owned, DownEmpty
<1>10. QED
  BY <1>6, <1>7, <1>8, <1>9 DEF LastingInv

LEMMA CallTasksLasting ==
    ASSUME TypeOK, KnownJobs, LockInv, LastingInv, CallTasks
    PROVE  LastingInv'
<1>1. PICK c \in Threads :
         \/ Acquire(c) \/ FindKey(c) \/ CreateJob(c) \/ LaunchNew(c)
         \/ ReadJob(c) \/ CheckCancel(c) \/ CancelTask(c) \/ CheckResume(c)
         \/ ReadRows(c) \/ ResetJob(c) \/ LaunchResumed(c)
  BY DEF CallTasks
<1> DEFINE j == call[c].job
<1>2. call[c].pc # "idle" /\ j \in Jobs /\ call[c] \in Call
  <2>1. call[c].pc # "idle"
    BY <1>1 DEF Acquire, FindKey, CreateJob, LaunchNew, ReadJob, CheckCancel,
       CancelTask, CheckResume, ReadRows, ResetJob, LaunchResumed
  <2>2. QED
    BY <2>1, CallJob DEF TypeOK
<1>3. CallLasting(c)
  BY DEF LastingInv
<1>4. call[c].op # "cancel"
  BY <1>2, <1>3 DEF CallLasting
<1>5. \A r : SetCall(c, r) =>
         call'[c] = r /\ \A d \in Threads \ {c} : call'[d] = call[d]
  BY DEF SetCall, TypeOK
<1>6. \A p : /\ [call[c] EXCEPT !.pc = p].pc = p
             /\ [call[c] EXCEPT !.pc = p].op = call[c].op
             /\ [call[c] EXCEPT !.pc = p].job = j
  BY <1>2 DEF Call, NoCall
<1>7. CASE Acquire(c)
  <2>1. /\ SetCall(c, [call[c] EXCEPT !.pc = "read"]) /\ call[c].pc = "lock"
        /\ UNCHANGED <<mode, boot, stray, repo, mem, run, wk, db>>
    BY <1>7 DEF Acquire, env
  <2>2. /\ call'[c] = [call[c] EXCEPT !.pc = "read"]
        /\ \A d \in Threads \ {c} : call'[d] = call[d]
    BY <1>5, <2>1
  <2>3. call'[c].pc = "read" /\ call'[c].op = call[c].op /\ call'[c].job = j
    BY <1>6, <2>2
  <2>4. QED
    BY <1>2, <2>1, <2>2, <2>3, CallOnly
<1>8. ASSUME Respond(c), UNCHANGED <<mode, boot, stray, repo, mem, run, wk, db>>
      PROVE  LastingInv'
  <2>1. call'[c] = NoCall /\ \A d \in Threads \ {c} : call'[d] = call[d]
    BY <1>5, <1>8 DEF Respond
  <2>2. QED
    BY <1>2, <1>8, <2>1, CallOnly
<1>9. CASE FindKey(c)
  <2>1. UNCHANGED <<mode, boot, stray, repo, mem, run, wk, db>>
    BY <1>9 DEF FindKey, env
  <2>2. CASE Respond(c)
    BY <1>8, <2>1, <2>2
  <2>3. CASE SetCall(c, [call[c] EXCEPT !.pc = "insert"])
    <3>1. /\ call'[c] = [call[c] EXCEPT !.pc = "insert"]
          /\ \A d \in Threads \ {c} : call'[d] = call[d]
      BY <1>5, <2>3
    <3>2. call[c].pc # "save"
      BY <1>9 DEF FindKey
    <3>3. call'[c].pc = "insert" /\ call'[c].op = call[c].op /\ call'[c].job = j
      BY <1>6, <3>1
    <3>4. QED
      BY <1>2, <2>1, <3>1, <3>2, <3>3, CallOnly
  <2>4. QED
    BY <1>9, <2>2, <2>3 DEF FindKey
<1>10. CASE CreateJob(c)
  <2>1. call[c].pc = "insert" /\ UNCHANGED <<mode, boot, stray, mem, run, wk, db>>
    BY <1>10 DEF CreateJob, env
  <2>2. CASE Respond(c) /\ UNCHANGED repo
    BY <1>8, <2>1, <2>2
  <2>3. CASE /\ KeyHolders(j) = {} /\ repo' = [repo EXCEPT ![j] = Fresh(j)]
             /\ SetCall(c, [call[c] EXCEPT !.pc = "launch"])
    <3>1. /\ call'[c] = [call[c] EXCEPT !.pc = "launch"]
          /\ \A d \in Threads \ {c} : call'[d] = call[d]
      BY <1>5, <2>3
    <3>2. call'[c].pc = "launch" /\ call'[c].op = call[c].op /\ call'[c].job = j
      BY <1>6, <3>1
    <3>3. repo'[j] = Fresh(j) /\ \A k \in Jobs \ {j} : repo'[k] = repo[k]
      BY <1>2, <2>3 DEF TypeOK
    <3>4. repo[j] = NoJob
      BY <1>2, <2>3 DEF KeyHolders
    <3>5. \A k \in Jobs : Unstarted(k) => Unstarted(k)'
      BY <2>1, <3>3, NothingCompleted DEF Unstarted
    <3>6. /\ run'[j].pc = "idle" /\ ~Completed(mem'[j]) /\ ~Completed(repo'[j])
          /\ Updates(j, db') = {}
      <4>1. mem[j].status = "absent" /\ run[j].pc = "idle"
        BY <1>2, <3>4 DEF KnownJobs, MemKnown, RunKnown
      <4>2. \A o \in db : o.job # j
        BY <3>4 DEF KnownJobs, OpsKnown, OpKnown
      <4>3. ~Completed(mem[j])
        BY <4>1 DEF Completed
      <4>4. ~Completed(repo'[j])
        BY <3>3, NothingCompleted
      <4>5. Updates(j, db') = {}
        BY <2>1, <4>2 DEF Updates
      <4>6. QED
        BY <2>1, <4>1, <4>3, <4>4, <4>5
    <3>7. ASSUME NEW k \in Jobs PROVE JobLasting(k)'
      <4>1. JobLasting(k)
        BY DEF LastingInv
      <4>2. Completed(repo'[k]) => repo'[k] = repo[k]
        BY <3>3, NothingCompleted
      <4>3. QED
        BY <2>1, <4>1, <4>2 DEF JobLasting, Lasts
    <3>8. ASSUME NEW d \in Threads PROVE CallLasting(d)'
      <4>1. CASE d = c
        BY <1>2, <1>3, <2>1, <3>2, <3>6, <4>1 DEF CallLasting, Unstarted
      <4>2. CASE d # c
        <5>1. CallLasting(d) /\ call'[d] = call[d]
          BY <3>1, <4>2 DEF LastingInv
        <5>2. Starts(d) => call[d].job \in Jobs
          BY CallJob DEF Starts
        <5>3. QED
          BY <2>1, <3>5, <5>1, <5>2 DEF CallLasting, Starts, Unstarted
      <4>3. QED
        BY <4>1, <4>2
    <3>9. ASSUME NEW k \in boot' PROVE BootLasting(k)'
      <4>1. BootLasting(k) /\ k \in Jobs
        BY <2>1, <3>9 DEF LastingInv, TypeOK
      <4>2. c = Boot /\ j # k
        BY <1>2, <2>1, <3>9, BootAlone
      <4>3. QED
        BY <2>1, <3>2, <3>5, <4>1, <4>2 DEF BootLasting, Unstarted
    <3>10. Owned' /\ DownEmpty' /\ stray' = {}
      BY <2>1 DEF LastingInv, Owned, DownEmpty
    <3>11. QED
      BY <3>7, <3>8, <3>9, <3>10 DEF LastingInv
  <2>4. QED
    BY <1>10, <2>2, <2>3 DEF CreateJob
<1>11. CASE LaunchNew(c)
  <2>1. /\ Starts(c) /\ Past(c) /\ Updates(j, db) = {}
    BY <1>3, <1>11 DEF LaunchNew, Starts, Past, CallLasting
  <2>2. QED
    BY <1>11, <2>1, NothingCompleted, LaunchLasting DEF LaunchNew, env
<1>12. CASE ReadJob(c)
  <2> DEFINE r == [call[c] EXCEPT !.pc = "check", !.seen = repo[j]]
  <2>1. /\ SetCall(c, r) /\ call[c].pc = "read"
        /\ UNCHANGED <<mode, boot, stray, repo, mem, run, wk, db>>
    BY <1>12 DEF ReadJob, env
  <2>2. r.pc = "check" /\ r.op = call[c].op /\ r.job = j
    BY <1>2 DEF Call, NoCall
  <2> HIDE DEF r
  <2>3. call'[c] = r /\ \A d \in Threads \ {c} : call'[d] = call[d]
    BY <1>5, <2>1
  <2>4. QED
    BY <1>2, <2>1, <2>2, <2>3, CallOnly
<1>13. CASE CheckResume(c)
  <2>1. /\ UNCHANGED <<mode, boot, stray, repo, mem, run, wk, db>>
        /\ call[c].op = "resume" /\ call[c].pc = "check"
        /\ Respond(c) \/ SetCall(c, [call[c] EXCEPT !.pc = "rows"])
    BY <1>13 DEF CheckResume, env
  <2>2. CASE SetCall(c, [call[c] EXCEPT !.pc = "rows"])
    <3>1. /\ call'[c] = [call[c] EXCEPT !.pc = "rows"]
          /\ \A d \in Threads \ {c} : call'[d] = call[d]
      BY <1>5, <2>2
    <3>2. call'[c].pc = "rows" /\ call'[c].op = call[c].op /\ call'[c].job = j
      BY <1>6, <3>1
    <3>3. QED
      BY <1>2, <2>1, <3>1, <3>2, CallOnly
  <2>3. QED
    BY <1>8, <2>1, <2>2
<1>14. CASE ReadRows(c)
  <2> DEFINE r == [call[c] EXCEPT !.pc = "build", !.done = Done(j),
                                  !.seen.completed = Cardinality(Filled(j))]
  <2>1. /\ SetCall(c, r) /\ call[c].pc = "rows"
        /\ UNCHANGED <<mode, boot, stray, repo, mem, run, wk, db>>
    BY <1>14 DEF ReadRows, env
  <2>2. r.pc = "build" /\ r.op = call[c].op /\ r.job = j
    BY <1>2 DEF Call, NoCall
  <2> HIDE DEF r
  <2>3. call'[c] = r /\ \A d \in Threads \ {c} : call'[d] = call[d]
    BY <1>5, <2>1
  <2>4. call[c].op = "resume"
    BY <1>3, <2>1 DEF CallLasting
  <2>5. QED
    BY <1>2, <2>1, <2>2, <2>3, <2>4, CallOnly
<1>15. CASE ResetJob(c)
  <2> DEFINE stored == [Fresh(j) EXCEPT !.completed = call[c].seen.completed]
             u == [Update(j, c) EXCEPT !.stage = "started", !.val = stored]
             r == [call[c] EXCEPT !.pc = "save", !.seen = stored]
  <2>1. stored.status = "queued" /\ stored.cancelRequested = FALSE
    BY DEF Fresh, NoJob
  <2>2. ~Completed(stored) /\ ~stored.cancelRequested
    BY <2>1 DEF Completed
  <2>3. /\ call[c].pc = "build" /\ SetCall(c, r) /\ db' = db \union {u}
        /\ UNCHANGED <<mode, boot, stray, repo, mem, run, wk>>
    BY <1>15 DEF ResetJob, env
  <2> HIDE DEF stored
  <2>4. /\ u.kind = "update" /\ u.job = j /\ u.own = c /\ u.live
        /\ u.stage = "started" /\ u.val = stored
    BY DEF Update
  <2>5. r.pc = "save" /\ r.op = call[c].op /\ r.job = j /\ r.seen = stored
    BY <1>2 DEF Call, NoCall
  <2> HIDE DEF u, r
  <2>6. call'[c] = r /\ \A d \in Threads \ {c} : call'[d] = call[d]
    BY <1>5, <2>3
  <2>7. call[c].op = "resume" /\ Starts(c) /\ Past(c)
    BY <1>3, <2>3 DEF CallLasting, Starts, Past
  <2>8. Unstarted(j) /\ Updates(j, db) = {}
    BY <1>3, <2>3, <2>7 DEF CallLasting
  <2>9. Updates(j, db') = {u} /\ \A k \in Jobs \ {j} : Updates(k, db') = Updates(k, db)
    BY <2>3, <2>4, <2>8 DEF Updates
  <2>10. ASSUME NEW k \in Jobs PROVE JobLasting(k)'
    <3>1. JobLasting(k)
      BY DEF LastingInv
    <3>2. CASE k = j
      BY <2>2, <2>3, <2>4, <2>8, <2>9, <3>1, <3>2 DEF JobLasting, Lasts, RunClean, Unstarted
    <3>3. CASE k # j
      BY <2>3, <2>9, <3>1, <3>3 DEF JobLasting
    <3>4. QED
      BY <3>2, <3>3
  <2>11. ASSUME NEW d \in Threads PROVE CallLasting(d)'
    <3>1. CASE d = c
      BY <1>2, <1>3, <2>2, <2>3, <2>4, <2>5, <2>6, <2>7, <2>8, <2>9, <3>1
         DEF CallLasting, Starts, Unstarted
    <3>2. CASE d # c
      <4>1. CallLasting(d) /\ ~Starts(d) /\ call'[d] = call[d]
        BY <2>6, <2>7, <3>2, StartsAlone DEF LastingInv
      <4>2. QED
        BY <2>3, <4>1 DEF CallLasting, Starts
    <3>3. QED
      BY <3>1, <3>2
  <2>12. ASSUME NEW k \in boot' PROVE BootLasting(k)'
    <3>1. BootLasting(k) /\ k \in Jobs
      BY <2>3, <2>12 DEF LastingInv, TypeOK
    <3>2. c = Boot /\ j # k
      BY <1>2, <2>3, <2>12, BootAlone
    <3>3. QED
      BY <2>3, <2>5, <2>6, <2>9, <3>1, <3>2 DEF BootLasting, Unstarted
  <2>13. Owned' /\ DownEmpty' /\ stray' = {}
    <3>1. mode # "down"
      BY <1>2, <1>3 DEF CallLasting
    <3>2. QED
      BY <2>3, <2>4, <3>1 DEF LastingInv, Owned, DownEmpty
  <2>14. QED
    BY <2>10, <2>11, <2>12, <2>13 DEF LastingInv
<1>16. CASE LaunchResumed(c)
  <2>1. /\ call[c].op = "resume" /\ call[c].pc = "save" /\ ~Waiting(c)
        /\ Starts(c) /\ Past(c)
    BY <1>16 DEF LaunchResumed, Starts, Past
  <2>2. Updates(j, db) = {}
    BY <1>3, <2>1 DEF CallLasting, Waiting, Updates
  <2>3. ~Completed(call[c].seen) /\ ~call[c].seen.cancelRequested
    BY <1>3, <2>1 DEF CallLasting
  <2>4. QED
    BY <1>16, <2>1, <2>2, <2>3, LaunchLasting DEF LaunchResumed, env
<1>17. QED
  BY <1>1, <1>4, <1>7, <1>9, <1>10, <1>11, <1>12, <1>13, <1>14, <1>15, <1>16
     DEF CheckCancel, CancelTask

-----------------------------------------------------------------------------
(* The process stops and starts; clients *)

LEMMA LoseMemoryLasting ==
    ASSUME LastingInv, LoseMemory
    PROVE  LastingInv'
<1>1. /\ mode' = "down" /\ db' = {} /\ boot' = {} /\ stray' = {} /\ repo' = repo
      /\ \A j \in Jobs : mem'[j] = NoJob /\ run'[j] = Idle
      /\ \A c \in Threads : call'[c] = NoCall
  BY DEF LoseMemory
<1>2. \A j : Updates(j, db') = {}
  BY <1>1 DEF Updates
<1>3. \A j \in Jobs : JobLasting(j)'
  BY <1>1, <1>2, NothingCompleted DEF JobLasting, RunClean, Lasts, Idle
<1>4. \A c \in Threads : CallLasting(c)'
  BY <1>1 DEF CallLasting, Starts, NoCall
<1>5. QED
  BY <1>1, <1>2, <1>3, <1>4 DEF LastingInv, Owned, DownEmpty, Idle

LEMMA RestartLasting ==
    ASSUME TypeOK, LastingInv, Restart
    PROVE  LastingInv'
<1>1. CASE Closed
  BY <1>1, LoseMemoryLasting DEF Closed
<1>2. CASE Recover
  <2>1. /\ mode = "down" /\ mode' = "boot"
        /\ \A k \in Jobs : repo'[k] = Recovered(k)
        /\ boot' = {k \in Jobs : Interrupted(Recovered(k))}
        /\ UNCHANGED <<stray, mem, run, wk, db, call>>
    BY <1>2 DEF Recover
  <2>2. \A k \in Jobs : run[k].pc = "idle" /\ ~Completed(mem[k]) /\ Updates(k, db) = {}
    BY <2>1, NothingCompleted DEF LastingInv, DownEmpty
  <2>3. \A c \in Threads : call[c].pc = "idle"
    BY <2>1 DEF LastingInv, CallLasting
  <2>4. ASSUME NEW k \in Jobs PROVE JobLasting(k)'
    <3>1. JobLasting(k)
      BY DEF LastingInv
    <3>2. QED
      BY <2>1, <2>2, <3>1 DEF JobLasting, Lasts
  <2>5. \A c \in Threads : CallLasting(c)'
    BY <2>1, <2>3 DEF CallLasting, Starts
  <2>6. ASSUME NEW k \in boot' PROVE BootLasting(k)'
    <3>1. k \in Jobs /\ ~Completed(repo'[k])
      BY <2>1, <2>6 DEF Interrupted, Completed
    <3>2. Boot \in Threads
      BY DEF Threads
    <3>3. QED
      BY <2>1, <2>2, <2>3, <3>1, <3>2 DEF BootLasting, Unstarted
  <2>7. QED
    BY <2>1, <2>4, <2>5, <2>6 DEF LastingInv, Owned, DownEmpty
<1>3. CASE Ready
  <2>1. /\ mode = "boot" /\ mode' = "up" /\ call[Boot].pc = "idle" /\ boot' = {}
        /\ UNCHANGED <<stray, repo, mem, run, wk, db, call>>
    BY <1>3 DEF Ready
  <2>2. \A c \in Threads : call[c].pc = "idle"
    BY <2>1 DEF LastingInv, CallLasting
  <2>3. \A c \in Threads : CallLasting(c)'
    BY <2>1, <2>2 DEF CallLasting, Starts
  <2>4. \A j : JobLasting(j)' <=> JobLasting(j)
    BY <2>1 DEF JobLasting
  <2>5. QED
    BY <2>1, <2>3, <2>4 DEF LastingInv, Owned, DownEmpty
<1>4. ASSUME NEW j \in Jobs, BootResume(j) PROVE LastingInv'
  <2> DEFINE r == [NoCall EXCEPT !.op = "resume", !.job = j, !.pc = "lock"]
  <2>1. r.op = "resume" /\ r.job = j /\ r.pc = "lock"
    BY DEF NoCall
  <2>2. /\ mode = "boot" /\ call[Boot].pc = "idle" /\ j \in boot /\ boot' = boot \ {j}
        /\ SetCall(Boot, r) /\ UNCHANGED <<mode, stray, repo, mem, run, wk, db>>
    BY <1>4 DEF BootResume
  <2> HIDE DEF r
  <2>3. /\ call'[Boot] = r /\ \A c \in Threads \ {Boot} : call'[c] = call[c]
        /\ Boot \in Threads
    BY <2>2 DEF SetCall, TypeOK, Threads
  <2>4. \A k : Unstarted(k)' <=> Unstarted(k)
    BY <2>2 DEF Unstarted
  <2>5. BootLasting(j)
    BY <2>2 DEF LastingInv
  <2>6. ASSUME NEW c \in Threads PROVE CallLasting(c)'
    <3>1. CASE c = Boot
      BY <2>1, <2>2, <2>3, <2>4, <2>5, <3>1 DEF CallLasting, BootLasting, Unstarted
    <3>2. CASE c # Boot
      <4>1. CallLasting(c) /\ call'[c] = call[c]
        BY <2>3, <3>2 DEF LastingInv
      <4>2. QED
        BY <2>2, <2>4, <4>1 DEF CallLasting, Starts, Unstarted
    <3>3. QED
      BY <3>1, <3>2
  <2>7. ASSUME NEW k \in boot' PROVE BootLasting(k)'
    <3>1. BootLasting(k) /\ k # j
      BY <2>2, <2>7 DEF LastingInv
    <3>2. QED
      BY <2>1, <2>2, <2>3, <2>4, <3>1 DEF BootLasting, Unstarted
  <2>8. \A k : JobLasting(k)' <=> JobLasting(k)
    BY <2>2 DEF JobLasting
  <2>9. QED
    BY <2>2, <2>6, <2>7, <2>8 DEF LastingInv, Owned, DownEmpty
<1>5. QED
  BY <1>1, <1>2, <1>3, <1>4 DEF Restart

\* Clients submit jobs and read them, and no deadline is configured.
SubmitOnly == Ops \subseteq {"submit"} /\ ~Timed

LEMMA EnvironmentLasting ==
    ASSUME SubmitOnly, TypeOK, LastingInv, Environment
    PROVE  LastingInv'
<1>1. ASSUME NEW c \in Callers, NEW j \in Jobs, NEW op \in Ops, Request(c, op, j)
      PROVE  LastingInv'
  <2> DEFINE r == [NoCall EXCEPT !.op = op, !.job = j, !.pc = "lock"]
  <2>1. r.op = op /\ r.pc = "lock" /\ op = "submit"
    BY DEF NoCall, SubmitOnly
  <2>2. /\ mode = "up" /\ SetCall(c, r) /\ call[c].pc = "idle"
        /\ UNCHANGED <<mode, boot, stray, repo, mem, run, wk, db>>
    BY <1>1 DEF Request
  <2> HIDE DEF r
  <2>3. /\ c \in Threads /\ c # Boot
        /\ call'[c] = r /\ \A d \in Threads \ {c} : call'[d] = call[d]
    BY <2>2, NamesAssumption DEF SetCall, TypeOK, Threads
  <2>4. \A k : Unstarted(k)' <=> Unstarted(k)
    BY <2>2 DEF Unstarted
  <2>5. ASSUME NEW d \in Threads PROVE CallLasting(d)'
    <3>1. CASE d = c
      BY <2>1, <2>2, <2>3, <3>1 DEF CallLasting, Starts
    <3>2. CASE d # c
      <4>1. CallLasting(d) /\ call'[d] = call[d]
        BY <2>3, <3>2 DEF LastingInv
      <4>2. QED
        BY <2>2, <2>4, <4>1 DEF CallLasting, Starts, Unstarted
    <3>3. QED
      BY <3>1, <3>2
  <2>6. boot' = {}
    BY <2>2 DEF LastingInv, BootLasting
  <2>7. \A k : JobLasting(k)' <=> JobLasting(k)
    BY <2>2 DEF JobLasting
  <2>8. QED
    BY <2>2, <2>5, <2>6, <2>7 DEF LastingInv, Owned, DownEmpty
<1>2. ASSUME NEW j \in Readers, PollJob(j) \/ PollRows(j) PROVE LastingInv'
  BY <1>2, SameLasting DEF PollJob, PollRows
<1>3. CASE Crash
  BY <1>3, LoseMemoryLasting DEF Crash
<1>4. CASE Close
  <2>1. /\ mode = "up" /\ mode' = "closing" /\ \A c \in Threads : call[c].pc = "idle"
        /\ UNCHANGED <<boot, stray, repo, mem, wk, db, call>>
        /\ \A j \in Jobs : run'[j] = IF run[j].pc = "idle" THEN run[j]
              ELSE [run[j] EXCEPT !.cause = @ \union {"cancel"}, !.intr = TRUE]
    BY <1>4 DEF Close
  <2>2. ASSUME NEW j \in Jobs PROVE JobLasting(j)'
    <3>1. RunClean(j, run[j], wk[j], Updates(j, db)) /\ Lasts(run[j], mem[j], repo[j], Updates(j, db))
      BY DEF LastingInv, JobLasting
    <3>2. /\ run'[j].pc = run[j].pc /\ run'[j].block = run[j].block
          /\ run'[j].exc = run[j].exc
          /\ run'[j] = run[j] \/ "cancel" \in run'[j].cause
      <4> DEFINE r == [run[j] EXCEPT !.cause = @ \union {"cancel"}, !.intr = TRUE]
      <4>1. /\ r.pc = run[j].pc /\ r.block = run[j].block /\ r.exc = run[j].exc
            /\ r.cause = run[j].cause \union {"cancel"}
        BY DEF TypeOK, RunTask
      <4>2. run'[j] = run[j] \/ run'[j] = r
        BY <2>1
      <4> HIDE DEF r
      <4>3. QED
        BY <4>1, <4>2
    <3>3. RunClean(j, run'[j], wk'[j], Updates(j, db'))
      BY <2>1, <3>1, <3>2 DEF RunClean
    <3>4. Lasts(run'[j], mem'[j], repo'[j], Updates(j, db'))
      BY <2>1, <3>1, <3>2 DEF Lasts
    <3>5. QED
      BY <3>3, <3>4 DEF JobLasting
  <2>3. \A c \in Threads : CallLasting(c)'
    BY <2>1 DEF CallLasting, Starts
  <2>4. boot' = {}
    BY <2>1 DEF LastingInv, BootLasting
  <2>5. QED
    BY <2>1, <2>2, <2>3, <2>4 DEF LastingInv, Owned, DownEmpty
<1>5. ASSUME NEW j \in Jobs, Deadline(j) PROVE LastingInv'
  BY <1>5 DEF Deadline, SubmitOnly
<1>6. QED
  BY <1>1, <1>2, <1>3, <1>4, <1>5 DEF Environment, Clients

LEMMA LastingStays ==
    ASSUME SubmitOnly, TypeOK, TypeOK', KnownJobs, LockInv, LastingInv, [Next]_vars
    PROVE  LastingInv'
<1>1. CASE Strays
  BY <1>1 DEF Strays, LastingInv
<1>2. CASE UNCHANGED vars
  BY <1>2, SameLasting DEF vars
<1>3. QED
  BY <1>1, <1>2, StorageLasting, RunTasksLasting, WorkerTasksLasting,
     CallTasksLasting, RestartLasting, EnvironmentLasting DEF Next, Service

\* While clients only submit jobs and no deadline is configured, an update of
\* a completed job that is still in flight stores it as completed, and none
\* is left for a job that runs again (_execute_job, _run_job).
THEOREM CompletionLasts ==
    ASSUME SubmitOnly
    PROVE  Spec => []LastingInv
<1>1. Init => LastingInv
  <2> SUFFICES ASSUME Init PROVE LastingInv
    OBVIOUS
  <2>1. /\ mode = "up" /\ db = {} /\ boot = {} /\ stray = {}
        /\ \A j \in Jobs : mem[j] = NoJob /\ run[j] = Idle /\ repo[j] = NoJob
        /\ \A c \in Threads : call[c] = NoCall
    BY DEF Init
  <2>2. \A j : Updates(j, db) = {}
    BY <2>1 DEF Updates
  <2>3. \A j \in Jobs : JobLasting(j)
    BY <2>1, <2>2, NothingCompleted DEF JobLasting, RunClean, Lasts, Idle
  <2>4. \A c \in Threads : CallLasting(c)
    BY <2>1 DEF CallLasting, Starts, NoCall
  <2>5. QED
    BY <2>1, <2>3, <2>4 DEF LastingInv, Owned, DownEmpty
<1>2. LastingInv /\ TypeOK /\ TypeOK' /\ KnownJobs /\ LockInv /\ [Next]_vars => LastingInv'
  BY LastingStays
<1>3. QED
  BY <1>1, <1>2, TypeCorrect, JobsKnown, LockAgrees, PTL DEF Spec

-----------------------------------------------------------------------------
(* The completion of the ledger *)

LEMMA LogItems ==
    ASSUME TypeOK, NEW j \in Jobs, RowsLog(j)
    PROVE  Ledger!InLog(j) = Done(j)
<1> DEFINE k == Cardinality(Filled(j))
<1>1. k \in Nat /\ Filled(j) \subseteq Nat
  <2>1. Filled(j) \subseteq Seqs /\ Seqs \subseteq Nat
    BY DEF Filled, Seqs
  <2>2. QED
    BY <2>1, FilledFinite
<1>2. \A m \in 0 .. k - 1 : m \in Filled(j)
  BY LogSize DEF Covered
<1>3. Done(j) = {rows[j][m] : m \in {n \in Filled(j) : n < k}}
  BY LogSize DEF Written
<1> HIDE DEF k
<1>4. Ledger!InLog(j) = {rows[j][m - 1] : m \in 1 .. k}
  BY DEF Ledger!InLog, Log, k
<1>5. \A m \in 1 .. k : m - 1 \in Filled(j)
  BY <1>1, <1>2
<1>6. ASSUME NEW m \in Filled(j), m < k
      PROVE  m + 1 \in 1 .. k /\ rows[j][m] = rows[j][(m + 1) - 1]
  BY <1>1, <1>6
<1>7. Ledger!InLog(j) \subseteq Done(j)
  BY <1>4, <1>5 DEF Done
<1>8. Done(j) \subseteq Ledger!InLog(j)
  BY <1>3, <1>4, <1>6
<1>9. QED
  BY <1>7, <1>8

\* What writes the documents.
LEMMA WhoWritesRepo ==
    ASSUME [Next]_vars
    PROVE  \/ UNCHANGED repo
           \/ \E o \in db : ApplyUpdate(o)
           \/ Recover
           \/ \E c \in Threads : CreateJob(c) /\ KeyHolders(call[c].job) = {}
<1>1. CASE Storage
  BY <1>1 DEF Storage, StartOp, ApplyAppend
<1>2. CASE RunTasks
  BY <1>2 DEF RunTasks, StartJob, StartWorkers, Gathered, Drain, Drained,
     Executed, Saved, Post, Posted, Interrupt, InterruptGather
<1>3. CASE Strays
  BY <1>3 DEF Strays, StrayPost
<1>4. CASE WorkerTasks
  <2>1. \A j, w : Collected(j, w) => UNCHANGED repo
    BY DEF Collected
  <2>2. QED
    BY <1>4, <2>1 DEF WorkerTasks, Take, Persist, Appended, Counted, Duplicate, Die
<1>5. CASE CallTasks
  <2>1. \A c \in Threads : CreateJob(c) => UNCHANGED repo \/ KeyHolders(call[c].job) = {}
    BY DEF CreateJob
  <2>2. QED
    BY <1>5, <2>1 DEF CallTasks, Acquire, FindKey, LaunchNew, ReadJob, CheckCancel,
       CancelTask, CheckResume, ReadRows, ResetJob, LaunchResumed
<1>6. CASE Restart
  BY <1>6 DEF Restart, Closed, LoseMemory, Ready, BootResume
<1>7. CASE Environment
  BY <1>7 DEF Environment, Clients, Request, PollJob, PollRows, Crash,
     LoseMemory, Close, Deadline
<1>8. CASE UNCHANGED vars
  BY <1>8 DEF vars
<1>9. QED
  BY <1>1, <1>2, <1>3, <1>4, <1>5, <1>6, <1>7, <1>8 DEF Next, Service

\* Only the update of a completed job changes which jobs are completed, once.
LEMMA StepCompletes ==
    ASSUME TypeOK, ResultsInv, LastingInv, [Next]_vars
    PROVE  \/ \A k \in Jobs : Completed(repo'[k]) <=> Completed(repo[k])
           \/ \E j \in Jobs :
                 /\ ~Completed(repo[j]) /\ Completed(repo'[j]) /\ Items \subseteq Done(j)
                 /\ \A k \in Jobs \ {j} : repo'[k] = repo[k]
                 /\ UNCHANGED rows
<1>1. CASE UNCHANGED repo
  BY <1>1
<1>2. CASE \E o \in db : ApplyUpdate(o)
  <2>1. PICK o \in db : ApplyUpdate(o)
    BY <1>2
  <2>2. /\ o.kind = "update" /\ o.stage = "started" /\ UNCHANGED rows
        /\ repo' = [repo EXCEPT ![o.job] = o.val]
    BY <2>1 DEF ApplyUpdate
  <2>3. o.job \in Jobs /\ o \in Updates(o.job, db)
    BY <2>2 DEF TypeOK, Operation, Updates
  <2>4. repo'[o.job] = o.val /\ \A k \in Jobs \ {o.job} : repo'[k] = repo[k]
    BY <2>2, <2>3 DEF TypeOK
  <2>5. /\ Completed(o.val) <=> Completed(mem[o.job])
        /\ Completed(repo[o.job]) => Completed(mem[o.job])
    BY <2>2, <2>3 DEF LastingInv, JobLasting, Lasts
  <2>6. Completed(o.val) => Items \subseteq Done(o.job)
    BY <2>2 DEF ResultsInv, OpSound, Sound, Completed
  <2>7. QED
    BY <2>2, <2>3, <2>4, <2>5, <2>6
<1>3. CASE Recover
  <2>1. ASSUME NEW k \in Jobs
        PROVE  Completed(repo'[k]) <=> Completed(repo[k])
    <3>1. repo'[k] = Recovered(k)
      BY <1>3 DEF Recover
    <3>2. repo[k].status \in Open => Recovered(k).status = "failed"
      BY DEF Recovered, TypeOK, StoredJob
    <3>3. repo[k].status \notin Open => Recovered(k) = repo[k]
      BY DEF Recovered
    <3>4. QED
      BY <3>1, <3>2, <3>3 DEF Completed, Open
  <2>2. QED
    BY <2>1
<1>4. CASE \E c \in Threads : CreateJob(c) /\ KeyHolders(call[c].job) = {}
  <2>1. PICK c \in Threads : CreateJob(c) /\ KeyHolders(call[c].job) = {}
    BY <1>4
  <2>2. call[c].pc # "idle" /\ repo' = [repo EXCEPT ![call[c].job] = Fresh(call[c].job)]
    BY <2>1 DEF CreateJob
  <2>3. call[c].job \in Jobs
    BY <2>2, CallJob
  <2>4. repo[call[c].job] = NoJob
    BY <2>1, <2>3 DEF KeyHolders
  <2>5. \A k \in Jobs : repo'[k] = repo[k] \/ (repo[k] = NoJob /\ repo'[k] = Fresh(k))
    BY <2>2, <2>3, <2>4 DEF TypeOK
  <2>6. QED
    BY <2>5, NothingCompleted
<1>5. QED
  BY <1>1, <1>2, <1>3, <1>4, WhoWritesRepo

\* A step of the job manager is a step of the ledger, or none.
LEMMA StepOfLedger ==
    ASSUME TypeOK, ResultsInv, LastingInv, [Next]_vars
    PROVE  [Ledger!Next]_<<[j \in Jobs |-> Log(j)],
                           {j \in Jobs : repo[j].status = "completed"}>>
<1> DEFINE done == {j \in Jobs : repo[j].status = "completed"}
<1>1. CASE ~UNCHANGED rows
  <2>1. PICK j \in Jobs, i \in Items : Ledger!Deliver(j, i)
    BY <1>1, StepDelivers
  <2>2. UNCHANGED repo
    BY <1>1, WhoWritesRows DEF ApplyAppend
  <2>3. i \notin Done(j)
    BY <2>1, LogItems DEF Ledger!Deliver, ResultsInv
  <2>4. j \notin done
    BY <2>3 DEF ResultsInv, Sound
  <2>5. UNCHANGED done
    BY <2>2
  <2>6. Ledger!Next
    BY <2>1, <2>4, <2>5 DEF Ledger!Next
  <2>7. QED
    BY <2>6
<1>2. CASE UNCHANGED rows
  <2>1. UNCHANGED [j \in Jobs |-> Log(j)]
    BY <1>2 DEF Log, Filled
  <2>2. CASE \A k \in Jobs : Completed(repo'[k]) <=> Completed(repo[k])
    <3>1. UNCHANGED done
      BY <2>2 DEF Completed
    <3>2. QED
      BY <2>1, <3>1
  <2>3. ASSUME NEW j \in Jobs, ~Completed(repo[j]), Completed(repo'[j]),
               Items \subseteq Done(j), \A k \in Jobs \ {j} : repo'[k] = repo[k]
        PROVE  Ledger!Next
    <3>1. Done(j) = Items
      BY <2>3 DEF TypeOK, Done, Filled
    <3>2. Ledger!InLog(j) = Items
      BY <3>1, LogItems DEF ResultsInv
    <3>3. j \notin done /\ done' = done \union {j}
      BY <2>3 DEF Completed
    <3>4. Ledger!Complete(j)
      BY <2>1, <3>2, <3>3 DEF Ledger!Complete
    <3>5. QED
      BY <3>3, <3>4 DEF Ledger!Next
  <2>4. QED
    BY <2>2, <2>3, StepCompletes
<1>3. QED
  BY <1>1, <1>2

\* The job manager implements the whole ledger: when clients only submit jobs
\* and no deadline is configured, a job is completed for good, whatever stops
\* and startup resumes meet its last writes.
THEOREM LedgerImplemented ==
    ASSUME SubmitOnly
    PROVE  Spec => ImplementsLedger
<1>1. Init => Ledger!Init
  BY LedgerStarts
<1>2. TypeOK /\ ResultsInv /\ LastingInv /\ [Next]_vars =>
        [Ledger!Next]_<<[j \in Jobs |-> Log(j)],
                        {j \in Jobs : repo[j].status = "completed"}>>
  BY StepOfLedger
<1>3. QED
  BY <1>1, <1>2, TypeCorrect, ResultsAgree, CompletionLasts, PTL
     DEF Spec, ImplementsLedger, Ledger!Spec

-----------------------------------------------------------------------------
(***************************************************************************)
(* The progress at rest.  When a run is interrupted at most once, its one  *)
(* worker keeps its write task: no append is abandoned, so that it always  *)
(* counts the result that it stored.  An update that a document may still  *)
(* get then has the count of the results that are there, but for the one   *)
(* that a worker has stored and not counted yet.                           *)
(***************************************************************************)

\* What may interrupt a run.
Causes == (IF Timed THEN {"timeout"} ELSE {}) \union (IF "cancel" \in Ops THEN {"cancel"} ELSE {})

\* The process is not stopped, and a run that may be interrupted has one
\* worker and is interrupted once: by the deadline, or by the one client.
OneInterruption ==
    /\ MaxStops = 0 /\ ~LateWrites
    /\ Causes # {} => \E w : Workers = {w}
    /\ "cancel" \in Ops => ~Timed /\ \E c : Callers = {c}

Joined(j) == \E c \in Threads : call[c].pc = "join" /\ call[c].job = j

\* The process p awaits one of the operations us.
Awaiting(p, us) == \E o \in us : o.own = p /\ o.live

\* A worker has stored a result and not counted it; has counted it and not
\* stored the count.
Landed(j, ws, us) == \E w \in Workers : ws[w].pc = "append" /\ ~Awaiting(<<j, w>>, us)
Counting(j, ws, us) == \E w \in Workers : ws[w].pc = "count" /\ Awaiting(<<j, w>>, us)

\* Of a run r with the workers ws.
RunOnce(r, ws) ==
    /\ r.cause \subseteq Causes
    /\ r.intr => r.cause # {} /\ r.block = "body"
    /\ r.block # "body" \/ r.exc # "none" => r.cause # {}
    /\ r.pc \in {"sem", "begin"} => r.exc = "none"
    /\ r.pc = "drain" => r.exc # "none"
    /\ \A w \in Workers :
         /\ ws[w].pc # "dup"
         /\ r.exc # "none" => ws[w].pc = "off"
         /\ ws[w].bare => ws[w].pc # "off" /\ r.cause # {} /\ ~r.intr
         /\ ws[w].pc = "dying" => r.cause # {}

OpsOnce(j, r, ws, us) ==
    /\ \A o \in us : o.own # NoProc /\ (o.kind = "append" => o.live)
    /\ r.pc \in Gathering => \A o \in us : o.live
    /\ r.pc = "begin" => Sends(j, us) \/ \A o \in us : o.live
    /\ (\E w \in Workers : ws[w].pc = "append") => \A o \in us : o.kind # "update"

\* F are the sequence numbers that are stored.  They have no gap and cover
\* what is counted, so a count is exact if it is not among them.
Counts(j, F, m, v, ws, us) ==
    /\ Landed(j, ws, us) => m.completed \in F /\ m.completed + 1 \notin F
    /\ ~Landed(j, ws, us) => m.completed \notin F
    /\ Landed(j, ws, us) \/ Counting(j, ws, us) \/ v.completed \notin F
    /\ \A o \in us : o.kind = "update" /\ o.stage = "started" => o.val.completed \notin F

JobOnce(j, r, m, v, ws, us, F) ==
    RunOnce(r, ws) /\ OpsOnce(j, r, ws, us) /\ Counts(j, F, m, v, ws, us)

CallOnce(c) ==
    /\ call[c].pc = "launch" => 0 \notin Filled(call[c].job)
    /\ HasRead(call[c]) => call[c].seen.completed \notin Filled(call[c].job)
    /\ "cancel" \notin Ops => call[c].op # "cancel"

OnceInv ==
    /\ stray = {}
    /\ \A c \in Threads : CallOnce(c)
    /\ \A j \in Jobs : JobOnce(j, run[j], mem[j], repo[j], wk[j], OpsOf(j, db), Filled(j))
    /\ \A j \in Jobs : "cancel" \in Ops /\ run[j].cause # {} => Joined(j)

-----------------------------------------------------------------------------
(* The run task *)

\* A job of which no worker writes.
Still(ws) == \A w \in Workers : ws[w].pc \notin {"append", "count"}

LEMMA StillCounts ==
    ASSUME NEW j, NEW ws, NEW us, Still(ws)
    PROVE  ~Landed(j, ws, us) /\ ~Counting(j, ws, us)
BY DEF Still, Landed, Counting

\* Operations after a step of the run task: as they were, given up, or asked for.
TaskOps(j, us) ==
    \A o \in us :
        \/ o \in OpsOf(j, db)
        \/ o = Update(j, j)
        \/ \E q \in OpsOf(j, db) : /\ q.own = j /\ o.own = j /\ o.kind = q.kind
                                   /\ o.stage = q.stage /\ o.val = q.val

LEMMA AbandonTaskOps ==
    ASSUME TypeOK, NEW j \in Jobs, NEW ops, ops = db \/ ops = Abandon({j}),
           db' = ops \/ db' = ops \union {Update(j, j)}
    PROVE  TaskOps(j, OpsOf(j, db'))
<1>1. ASSUME NEW q \in db, NEW o, o = [q EXCEPT !.live = FALSE]
      PROVE  /\ o.own = q.own /\ o.kind = q.kind /\ o.job = q.job
             /\ o.stage = q.stage /\ o.val = q.val
  BY <1>1 DEF TypeOK, Operation
<1>2. SUFFICES ASSUME NEW o \in ops, o.job = j
               PROVE  \/ o \in OpsOf(j, db)
                      \/ \E q \in OpsOf(j, db) : /\ q.own = j /\ o.own = j /\ o.kind = q.kind
                                                 /\ o.stage = q.stage /\ o.val = q.val
  BY DEF TaskOps, OpsOf
<1>3. CASE o \in db
  BY <1>2, <1>3 DEF OpsOf
<1>4. ASSUME NEW q \in db, q.own = j, o = [q EXCEPT !.live = FALSE]
      PROVE  \E p \in OpsOf(j, db) : /\ p.own = j /\ o.own = j /\ o.kind = p.kind
                                     /\ o.stage = p.stage /\ o.val = p.val
  BY <1>1, <1>2, <1>4 DEF OpsOf
<1>5. QED
  BY <1>2, <1>3, <1>4 DEF Abandon

\* A step of the run task of j, of which no worker writes, that ends outside
\* of the gathers: what it counts is what it counted.
LEMMA TaskOnce ==
    ASSUME TypeOK, OwnersInv, NEW j \in Jobs,
           JobOnce(j, run[j], mem[j], repo[j], wk[j], OpsOf(j, db), Filled(j)),
           Still(wk[j]), UNCHANGED <<wk, repo, rows>>,
           mem'[j].completed = mem[j].completed,
           TaskOps(j, OpsOf(j, db')),
           RunOnce(run'[j], wk[j]),
           run'[j].pc \notin Gathering,
           run'[j].pc = "begin" => Sends(j, OpsOf(j, db'))
    PROVE  JobOnce(j, run'[j], mem'[j], repo'[j], wk'[j], OpsOf(j, db'), Filled(j)')
<1>1. Filled(j)' = Filled(j)
  BY DEF Filled
<1>2. /\ Update(j, j).kind = "update" /\ Update(j, j).stage = "sent"
      /\ Update(j, j).own # NoProc
  BY NamesAssumption DEF Update
<1>3. \A q \in OpsOf(j, db) : q.own = j => q.kind # "append"
  BY NamesAssumption DEF OwnersInv, OpOwned, OpsOf
<1>4. OpsOnce(j, run'[j], wk'[j], OpsOf(j, db'))
  <2>1. \A o \in OpsOf(j, db') : o.own # NoProc /\ (o.kind = "append" => o.live)
    BY <1>2, <1>3, NamesAssumption DEF TaskOps, JobOnce, OpsOnce
  <2>2. QED
    BY <2>1 DEF OpsOnce, Still
<1>5. \A o \in OpsOf(j, db') : o.kind = "update" /\ o.stage = "started" =>
                                   o.val.completed \notin Filled(j)
  BY <1>2 DEF TaskOps, JobOnce, Counts
<1>6. Counts(j, Filled(j)', mem'[j], repo'[j], wk'[j], OpsOf(j, db'))
  BY <1>1, <1>5, StillCounts DEF Counts, JobOnce
<1>7. QED
  BY <1>4, <1>6 DEF JobOnce

LEMMA GotoOnce ==
    ASSUME TypeOK, NEW j \in Jobs, RunOnce(run[j], wk[j]), NEW b, NEW p, Goto(j, b, p),
           b # "body" => run[j].cause # {},
           p \in {"save", "hook"}
    PROVE  RunOnce(run'[j], wk[j]) /\ run'[j].pc = p
<1>1. run'[j] = [run[j] EXCEPT !.pc = p, !.block = b, !.attempt = 1, !.intr = FALSE]
  BY DEF Goto, TypeOK
<1>2. run[j] \in RunTask
  BY DEF TypeOK
<1>3. /\ run'[j].pc = p /\ run'[j].block = b /\ run'[j].cause = run[j].cause
      /\ run'[j].exc = run[j].exc
  BY <1>1, <1>2 DEF RunTask
<1>4. ~run'[j].intr
  BY <1>1, <1>2 DEF RunTask
<1>5. QED
  BY <1>3, <1>4 DEF RunOnce

LEMMA FinishOnce ==
    ASSUME TypeOK, NEW j \in Jobs, RunOnce(run[j], wk[j]), Finish(j),
           \A w \in Workers : wk[j][w].pc = "off"
    PROVE  RunOnce(run'[j], wk[j]) /\ run'[j].pc = "idle"
<1>1. run'[j] = Idle
  BY DEF Finish, TypeOK
<1>2. QED
  BY <1>1 DEF RunOnce, Idle

\* The end of the body and the handlers.
LEMMA LeaveOnce ==
    ASSUME TypeOK, OwnersInv, NEW j \in Jobs,
           JobOnce(j, run[j], mem[j], repo[j], wk[j], OpsOf(j, db), Filled(j)),
           \A w \in Workers : wk[j][w].pc = "off",
           UNCHANGED <<wk, repo, rows>>,
           NEW e, NEW ops, ops = db \/ ops = Abandon({j}),
           \/ Leave(j, e, ops) /\ (e = "cancel" => run[j].cause # {})
           \/ CancelHandler(j, ops) /\ run[j].cause # {}
           \/ Finish(j) /\ db' = ops /\ UNCHANGED mem
    PROVE  JobOnce(j, run'[j], mem'[j], repo'[j], wk'[j], OpsOf(j, db'), Filled(j)')
<1>1. RunOnce(run[j], wk[j]) /\ Still(wk[j])
  BY DEF JobOnce, Still
<1>2. ASSUME RunOnce(run'[j], wk[j]) /\ run'[j].pc \in {"idle", "hook", "save"},
             mem'[j].completed = mem[j].completed,
             db' = ops \/ db' = ops \union {Update(j, j)}
      PROVE  JobOnce(j, run'[j], mem'[j], repo'[j], wk'[j], OpsOf(j, db'), Filled(j)')
  BY <1>1, <1>2, AbandonTaskOps, TaskOnce DEF Gathering
<1>3. CASE Finish(j) /\ db' = ops /\ UNCHANGED mem
  BY <1>1, <1>2, <1>3, FinishOnce
<1>4. CASE CancelHandler(j, ops) /\ run[j].cause # {}
  <2>1. \E p \in {"save", "hook"} : Goto(j, "cancel", p)
    BY <1>4 DEF CancelHandler
  <2>2. mem'[j].completed = mem[j].completed
    BY <1>4 DEF CancelHandler, TypeOK, StoredJob
  <2>3. db' = ops \/ db' = ops \union {Update(j, j)}
    BY <1>4 DEF CancelHandler
  <2>4. RunOnce(run'[j], wk[j]) /\ run'[j].pc \in {"hook", "save"}
    BY <1>1, <1>4, <2>1, GotoOnce
  <2>5. QED
    BY <1>2, <2>2, <2>3, <2>4
<1>5. CASE TimeoutHandler(j, ops) /\ run[j].cause # {}
  <2>1. mem'[j].completed = mem[j].completed
    BY <1>5 DEF TimeoutHandler, TypeOK, StoredJob
  <2>2. Goto(j, "timeout", "save") /\ db' = ops \union {Update(j, j)}
    BY <1>5 DEF TimeoutHandler
  <2>3. QED
    BY <1>1, <1>2, <1>5, <2>1, <2>2, GotoOnce
<1>6. CASE Goto(j, "body", "hook") /\ db' = ops /\ UNCHANGED mem
  BY <1>1, <1>2, <1>6, GotoOnce
<1>7. CASE Leave(j, e, ops) /\ (e = "cancel" => run[j].cause # {})
  <2>1. \/ CancelHandler(j, ops) /\ e = "cancel"
        \/ TimeoutHandler(j, ops) /\ e = "cancel"
        \/ Goto(j, "body", "hook") /\ db' = ops /\ UNCHANGED mem
        \/ Finish(j) /\ db' = ops /\ UNCHANGED mem
    BY <1>7 DEF Leave
  <2>2. QED
    BY <1>3, <1>4, <1>5, <1>6, <1>7, <2>1
<1>8. QED
  BY <1>3, <1>4, <1>7

\* The run task goes on to p.
LEMMA MovesOn ==
    ASSUME TypeOK, NEW j \in Jobs, NEW p, run' = [run EXCEPT ![j].pc = p]
    PROVE  /\ run'[j].pc = p /\ run'[j].exc = run[j].exc /\ run'[j].cause = run[j].cause
           /\ run'[j].block = run[j].block /\ (run'[j].intr <=> run[j].intr)
<1>1. run'[j] = [run[j] EXCEPT !.pc = p] /\ run[j] \in RunTask
  BY DEF TypeOK
<1>2. run'[j].intr <=> run[j].intr
  BY <1>1 DEF RunTask
<1>3. QED
  BY <1>1, <1>2 DEF RunTask

LEMMA TaskStepOnce ==
    ASSUME TypeOK, LockInv, OwnersInv, OnceInv, NEW j \in Jobs, TaskStepOf(j)
    PROVE  JobOnce(j, run'[j], mem'[j], repo'[j], wk'[j], OpsOf(j, db'), Filled(j)')
<1>1. JobOnce(j, run[j], mem[j], repo[j], wk[j], OpsOf(j, db), Filled(j))
      /\ RunOnce(run[j], wk[j])
  BY DEF OnceInv, JobOnce
<1>2. run[j] \in RunTask /\ mem[j] \in StoredJob
  BY DEF TypeOK
<1>3. run[j].pc \notin Gathering => \A w \in Workers : wk[j][w].pc = "off"
  BY DEF LockInv, Exclusive, TasksCover, Gathering
<1>4. AllOff(j) <=> \A w \in Workers : wk[j][w].pc = "off"
  BY DEF AllOff
<1>5. rows' = rows /\ Filled(j)' = Filled(j)
  <2>1. rows' = rows
    BY DEF TaskStepOf, StartJob, StartWorkers, Gathered, Drain, Drained,
       Executed, Saved, Post, Posted, Interrupt, InterruptGather
  <2>2. QED
    BY <2>1 DEF Filled
\* The body.
<1>7. CASE StartJob(j)
  <2>1. /\ run'[j].pc = "begin" /\ run'[j].exc = run[j].exc /\ run'[j].cause = run[j].cause
        /\ run'[j].block = run[j].block /\ (run'[j].intr <=> run[j].intr)
    BY <1>7, MovesOn DEF StartJob
  <2>2. run[j].pc = "sem" /\ UNCHANGED <<wk, repo>> /\ db' = db \union {Update(j, j)}
    BY <1>7 DEF StartJob
  <2>3. RunOnce(run'[j], wk[j])
    BY <1>1, <2>1, <2>2 DEF RunOnce
  <2>4. mem'[j].completed = mem[j].completed
    <3>1. mem' = [mem EXCEPT ![j].status = "running", ![j].error = "none"]
      BY <1>7 DEF StartJob
    <3>2. mem'[j] = [mem[j] EXCEPT !.status = "running", !.error = "none"]
      BY <3>1 DEF TypeOK
    <3>3. QED
      BY <1>2, <3>2 DEF StoredJob
  <2>5. Sends(j, OpsOf(j, db'))
    <3>1. /\ Update(j, j).job = j /\ Update(j, j).own = j /\ Update(j, j).live
          /\ Update(j, j).stage = "sent"
      BY DEF Update
    <3>2. QED
      BY <2>2, <3>1 DEF Sends, OpsOf
  <2>6. Still(wk[j])
    BY <1>3, <2>2 DEF Still, Gathering
  <2>7. TaskOps(j, OpsOf(j, db'))
    BY <2>2 DEF TaskOps, OpsOf
  <2>8. QED
    BY <1>1, <1>5, <2>1, <2>2, <2>3, <2>4, <2>5, <2>6, <2>7, TaskOnce DEF Gathering
<1>8. CASE StartWorkers(j)
  <2>1. /\ run'[j].pc = "gather" /\ run'[j].exc = run[j].exc /\ run'[j].cause = run[j].cause
        /\ run'[j].block = run[j].block /\ (run'[j].intr <=> run[j].intr)
    BY <1>8, MovesOn DEF StartWorkers
  <2>2. \A w \in Workers : wk'[j][w].pc = "next" /\ ~wk'[j][w].bare
    BY <1>8 DEF StartWorkers, TypeOK, Off
  <2>3. run[j].pc = "begin" /\ UNCHANGED <<mem, repo, db>> /\ ~Waiting(j)
    BY <1>8 DEF StartWorkers
  <2>4. RunOnce(run'[j], wk'[j])
    BY <1>1, <2>1, <2>2, <2>3 DEF RunOnce
  <2>5. \A o \in OpsOf(j, db) : o.live
    BY <1>1, <2>3 DEF JobOnce, OpsOnce, Sends, Waiting, OpsOf
  <2>6. OpsOnce(j, run'[j], wk'[j], OpsOf(j, db'))
    BY <1>1, <2>1, <2>2, <2>3, <2>5 DEF JobOnce, OpsOnce
  <2>7. Still(wk[j]) /\ Still(wk'[j])
    BY <1>3, <2>2, <2>3 DEF Still, Gathering
  <2>8. Counts(j, Filled(j)', mem'[j], repo'[j], wk'[j], OpsOf(j, db'))
    BY <1>1, <1>5, <2>3, <2>7, StillCounts DEF JobOnce, Counts
  <2>9. QED
    BY <2>4, <2>6, <2>8 DEF JobOnce
<1>9. CASE Gathered(j) \/ Drained(j)
  <2>1. /\ run'[j].pc = "final" /\ run'[j].exc = run[j].exc /\ run'[j].cause = run[j].cause
        /\ run'[j].block = run[j].block /\ (run'[j].intr <=> run[j].intr)
    BY <1>9, MovesOn DEF Gathered, Drained
  <2>2. UNCHANGED <<wk, repo>> /\ db' = db \union {Update(j, j)} /\ AllOff(j)
    BY <1>9 DEF Gathered, Drained
  <2>3. RunOnce(run'[j], wk[j])
    BY <1>1, <2>1 DEF RunOnce
  <2>4. mem'[j].completed = mem[j].completed
    BY <1>2, <1>9 DEF Gathered, Drained, TypeOK, StoredJob
  <2>5. Still(wk[j])
    BY <1>4, <2>2 DEF Still
  <2>6. TaskOps(j, OpsOf(j, db'))
    BY <2>2 DEF TaskOps, OpsOf
  <2>7. QED
    BY <1>1, <1>5, <2>1, <2>2, <2>3, <2>4, <2>5, <2>6, TaskOnce DEF Gathering
\* The gathers: nobody is killed.
<1>10. ASSUME CancelWorkers(j), Killed(j) = {} PROVE db' = db
  <2>1. db' = Abandon({})
    BY <1>10 DEF CancelWorkers
  <2>2. QED
    BY <2>1 DEF Abandon
<1>11. CASE Drain(j)
  <2>1. /\ run'[j].pc = "drain" /\ run'[j].exc = run[j].exc /\ run'[j].cause = run[j].cause
        /\ run'[j].block = run[j].block /\ (run'[j].intr <=> run[j].intr)
    BY <1>11, MovesOn DEF Drain
  <2>2. run[j].pc \in Gathering /\ run[j].exc # "none" /\ CancelWorkers(j) /\ UNCHANGED <<mem, repo>>
    BY <1>11 DEF Drain, Gathering
  <2>3. \A w \in Workers : wk[j][w].pc = "off"
    BY <1>1, <2>2 DEF RunOnce
  <2>4. Killed(j) = {}
    BY <2>3 DEF Killed
  <2>5. \A w \in Workers : wk'[j][w] = wk[j][w]
    BY <2>2, <2>3 DEF CancelWorkers, CancelWorker, TypeOK
  <2>6. db' = db
    BY <1>10, <2>2, <2>4
  <2>7. RunOnce(run'[j], wk'[j])
    BY <1>1, <2>1, <2>2, <2>5 DEF RunOnce
  <2>8. OpsOnce(j, run'[j], wk'[j], OpsOf(j, db'))
    BY <1>1, <2>1, <2>2, <2>5, <2>6 DEF JobOnce, OpsOnce, Gathering
  <2>9. Counts(j, Filled(j)', mem'[j], repo'[j], wk'[j], OpsOf(j, db'))
    BY <1>1, <1>5, <2>2, <2>5, <2>6 DEF JobOnce, Counts, Landed, Counting
  <2>10. QED
    BY <2>7, <2>8, <2>9 DEF JobOnce
<1>12. CASE InterruptGather(j)
  <2> DEFINE finished == AllOff(j) \/ (run[j].pc # "drain" /\ run[j].exc # "none")
  <2>1. /\ run[j].intr /\ run[j].pc \in Gathering /\ UNCHANGED <<mem, repo>>
        /\ IF finished THEN UNCHANGED <<wk, lock, db>> ELSE CancelWorkers(j)
    BY <1>12 DEF InterruptGather, Gathering
  <2>2. finished <=> AllOff(j)
    BY <1>1, <1>4 DEF RunOnce
  <2>3. run[j].pc = "drain" => AllOff(j)
    BY <1>1, <1>4 DEF RunOnce
  <2>4. run'[j] = [run[j] EXCEPT !.intr = FALSE,
                      !.pc = IF @ = "gather" THEN "cancelling" ELSE @,
                      !.exc = IF finished \/ run[j].pc = "drain" THEN "cancel" ELSE @]
    BY <1>12 DEF InterruptGather, TypeOK
  <2> HIDE DEF finished
  <2>5. /\ run'[j].pc = IF run[j].pc = "gather" THEN "cancelling" ELSE run[j].pc
        /\ run'[j].exc = IF AllOff(j) THEN "cancel" ELSE run[j].exc
        /\ run'[j].cause = run[j].cause /\ run'[j].block = run[j].block
    BY <1>2, <2>2, <2>3, <2>4 DEF RunTask
  <2>6. ~run'[j].intr
    BY <1>2, <2>4 DEF RunTask
  <2>7. run'[j].pc \in Gathering
    BY <2>1, <2>5 DEF Gathering
  <2>8. run[j].cause # {} /\ \A w \in Workers : ~wk[j][w].bare
    BY <1>1, <2>1 DEF RunOnce
  <2>9. CASE AllOff(j)
    <3>1. UNCHANGED <<wk, db>>
      BY <2>1, <2>2, <2>9
    <3>2. RunOnce(run'[j], wk'[j])
      BY <1>1, <1>4, <2>1, <2>5, <2>6, <2>8, <2>9, <3>1 DEF RunOnce, Gathering
    <3>3. OpsOnce(j, run'[j], wk'[j], OpsOf(j, db'))
      BY <1>1, <2>1, <2>7, <3>1 DEF JobOnce, OpsOnce, Gathering
    <3>4. Counts(j, Filled(j)', mem'[j], repo'[j], wk'[j], OpsOf(j, db'))
      BY <1>1, <1>5, <2>1, <3>1 DEF JobOnce
    <3>5. QED
      BY <3>2, <3>3, <3>4 DEF JobOnce
  <2>10. CASE ~AllOff(j)
    <3>1. CancelWorkers(j) /\ Killed(j) = {} /\ run[j].exc = "none" /\ run[j].pc # "drain"
      BY <1>1, <1>4, <2>1, <2>2, <2>3, <2>8, <2>10 DEF Killed, RunOnce
    <3>2. db' = db
      BY <1>10, <3>1
    <3>3. \A w \in Workers : wk[j][w] \in Worker /\ wk'[j][w] = CancelWorker(wk[j][w])
      BY <3>1 DEF CancelWorkers, TypeOK
    <3>4. ASSUME NEW w \in Workers
          PROVE  /\ \A p \in {"append", "count", "dup", "off"} :
                       wk'[j][w].pc = p <=> wk[j][w].pc = p
                 /\ wk'[j][w].bare => wk'[j][w].pc # "off"
      <4>1. \/ wk'[j][w] = wk[j][w]
            \/ wk'[j][w] = [wk[j][w] EXCEPT !.pc = "dying"] /\ wk[j][w].pc \in {"next", "collect"}
            \/ wk'[j][w] = [wk[j][w] EXCEPT !.bare = TRUE] /\ wk[j][w].pc \in {"lock", "append", "count"}
        BY <2>8, <3>3 DEF CancelWorker
      <4>2. QED
        BY <2>8, <3>3, <4>1 DEF Worker
    <3>5. RunOnce(run'[j], wk'[j])
      BY <1>1, <2>1, <2>5, <2>6, <2>8, <2>10, <3>1, <3>4 DEF RunOnce, Gathering
    <3>6. OpsOnce(j, run'[j], wk'[j], OpsOf(j, db'))
      BY <1>1, <2>1, <2>7, <3>2, <3>4 DEF JobOnce, OpsOnce, Gathering
    <3>7. /\ Landed(j, wk'[j], OpsOf(j, db')) <=> Landed(j, wk[j], OpsOf(j, db))
          /\ Counting(j, wk'[j], OpsOf(j, db')) <=> Counting(j, wk[j], OpsOf(j, db))
      BY <3>2, <3>4 DEF Landed, Counting
    <3>8. Counts(j, Filled(j)', mem'[j], repo'[j], wk'[j], OpsOf(j, db'))
      BY <1>1, <1>5, <2>1, <3>2, <3>7 DEF JobOnce, Counts
    <3>9. QED
      BY <3>5, <3>6, <3>8 DEF JobOnce
  <2>11. QED
    BY <2>9, <2>10
\* After the body.
<1>13. CASE Executed(j)
  <2>1. run[j].pc = "final" /\ Leave(j, run[j].exc, db) /\ UNCHANGED <<repo, wk>>
    BY <1>13 DEF Executed
  <2>2. run[j].exc = "cancel" => run[j].cause # {}
    BY <1>1 DEF RunOnce
  <2>3. QED
    BY <1>1, <1>3, <1>5, <2>1, <2>2, LeaveOnce DEF Gathering
<1>14. CASE Saved(j)
  <2>1. run[j].pc = "save" /\ UNCHANGED <<repo, wk, mem, db>>
    BY <1>14 DEF Saved
  <2>2. CASE Finish(j)
    BY <1>1, <1>3, <1>5, <2>1, <2>2, LeaveOnce DEF Gathering
  <2>3. CASE Goto(j, "timeout", "hook") /\ run[j].block = "timeout"
    <3>1. run[j].cause # {}
      BY <1>1, <2>3 DEF RunOnce
    <3>2. RunOnce(run'[j], wk[j]) /\ run'[j].pc = "hook"
      BY <1>1, <2>3, <3>1, GotoOnce
    <3>3. Still(wk[j]) /\ TaskOps(j, OpsOf(j, db'))
      BY <1>3, <2>1 DEF Still, TaskOps, Gathering
    <3>4. QED
      BY <1>1, <1>5, <2>1, <3>2, <3>3, TaskOnce DEF Gathering
  <2>4. QED
    BY <1>14, <2>2, <2>3 DEF Saved
<1>15. CASE Post(j)
  <2>1. run[j].pc = "hook" /\ ~run[j].intr /\ UNCHANGED <<repo, wk>>
    BY <1>15 DEF Post
  <2>2. mem'[j].completed = mem[j].completed
    BY <1>2, <1>15 DEF Post, TypeOK, StoredJob
  <2>3. ASSUME run' = [run EXCEPT ![j].pc = "hookSave"]
        PROVE  RunOnce(run'[j], wk[j]) /\ run'[j].pc \in {"hook", "hookSave"}
    BY <1>1, <2>1, <2>3, MovesOn DEF RunOnce
  <2>4. ASSUME run' = [run EXCEPT ![j].attempt = @ + 1]
        PROVE  RunOnce(run'[j], wk[j]) /\ run'[j].pc \in {"hook", "hookSave"}
    <3>1. /\ run'[j].pc = run[j].pc /\ run'[j].exc = run[j].exc
          /\ run'[j].cause = run[j].cause /\ run'[j].block = run[j].block
      BY <1>2, <2>4 DEF TypeOK, RunTask
    <3>2. run'[j].intr <=> run[j].intr
      BY <1>2, <2>4 DEF TypeOK, RunTask
    <3>3. QED
      BY <1>1, <2>1, <3>1, <3>2 DEF RunOnce
  <2>5. RunOnce(run'[j], wk[j]) /\ run'[j].pc \in {"hook", "hookSave"}
    <3>1. run' = [run EXCEPT ![j].pc = "hookSave"] \/ run' = [run EXCEPT ![j].attempt = @ + 1]
      BY <1>15 DEF Post
    <3>2. QED
      BY <2>3, <2>4, <3>1
  <2>6. Still(wk[j]) /\ TaskOps(j, OpsOf(j, db'))
    BY <1>3, <1>15, <2>1 DEF Post, Still, TaskOps, OpsOf, Gathering
  <2>7. QED
    BY <1>1, <1>5, <2>1, <2>2, <2>5, <2>6, TaskOnce DEF Gathering
<1>16. CASE Posted(j)
  <2>1. run[j].pc = "hookSave" /\ UNCHANGED <<repo, wk, mem>>
    BY <1>16 DEF Posted
  <2>2. CASE Finish(j) /\ UNCHANGED db
    BY <1>1, <1>3, <1>5, <2>1, <2>2, LeaveOnce DEF Gathering
  <2>3. CASE Goto(j, "cancel", "save") /\ db' = db \union {Update(j, j)} /\ run[j].block = "cancel"
    <3>1. run[j].cause # {}
      BY <1>1, <2>3 DEF RunOnce
    <3>2. RunOnce(run'[j], wk[j]) /\ run'[j].pc = "save"
      BY <1>1, <2>3, <3>1, GotoOnce
    <3>3. Still(wk[j]) /\ TaskOps(j, OpsOf(j, db'))
      BY <1>3, <2>1, <2>3 DEF Still, TaskOps, OpsOf, Gathering
    <3>4. QED
      BY <1>1, <1>5, <2>1, <3>2, <3>3, TaskOnce DEF Gathering
  <2>4. QED
    BY <1>16, <2>2, <2>3 DEF Posted
<1>17. CASE Interrupt(j)
  <2>1. run[j].intr /\ UNCHANGED <<repo, wk>>
    BY <1>17 DEF Interrupt
  <2>2. run[j].cause # {} /\ run[j].block = "body"
    BY <1>1, <2>1 DEF RunOnce
  <2>3. /\ run[j].pc \notin Gathering
        /\ \/ Leave(j, "cancel", Abandon({j})) \/ CancelHandler(j, Abandon({j}))
           \/ Finish(j) /\ db' = Abandon({j}) /\ UNCHANGED mem
    BY <1>17, <2>2 DEF Interrupt, Gathering
  <2>4. QED
    BY <1>1, <1>3, <1>5, <2>1, <2>2, <2>3, LeaveOnce
<1>18. QED
  BY <1>7, <1>8, <1>9, <1>11, <1>12, <1>13, <1>14, <1>15, <1>16, <1>17 DEF TaskStepOf

-----------------------------------------------------------------------------
(* The workers *)

\* What a worker awaits is of its job.
LEMMA AwaitedOfJob ==
    ASSUME TypeOK, OwnersInv, NEW j \in Jobs, NEW w \in Workers
    PROVE  Waiting(<<j, w>>) <=> Awaiting(<<j, w>>, OpsOf(j, db))
<1>1. ASSUME NEW o \in db, o.own = <<j, w>>
      PROVE  o.job = j
  <2>1. o.own \in {o.job} \union ({o.job} \X Workers) \union Threads \union {NoProc}
    BY DEF OwnersInv, OpOwned
  <2>2. o.job \in Jobs
    BY DEF TypeOK, Operation
  <2>3. QED
    BY <1>1, <2>1, <2>2, NamesAssumption
<1>2. QED
  BY <1>1 DEF Waiting, Awaiting, OpsOf

\* Nobody else writes beside a worker that writes, or while the lock is free.
LEMMA WritesAlone ==
    ASSUME LockInv, NEW j \in Jobs, NEW w \in Workers,
           lock = NoProc \/ wk[j][w].pc \in {"append", "dup", "count"}
    PROVE  \A v \in Workers \ {w} : wk[j][v].pc \notin {"append", "dup", "count"}
<1>1. ASSUME NEW v \in Workers \ {w}, wk[j][v].pc \in {"append", "dup", "count"}
      PROVE  FALSE
  <2>1. lock = <<j, v>>
    BY <1>1 DEF LockInv, Exclusive, WritesLocked
  <2>2. lock # NoProc
    BY <2>1, NamesAssumption
  <2>3. lock = <<j, w>>
    BY <2>2 DEF LockInv, Exclusive, WritesLocked
  <2>4. QED
    BY <2>1, <2>3
<1>2. QED
  BY <1>1

\* The run stays as it is when its worker w gets on, or ends as the last one.
LEMMA WorkerOnce ==
    ASSUME NEW j \in Jobs, NEW w \in Workers, NEW r, NEW q, NEW ws, NEW us,
           RunOnce(r, ws), ws[w].pc # "off", r.pc \in Gathering, OneInterruption,
           q.pc = r.pc, q.block = r.block, q.cause = r.cause, q.intr <=> r.intr,
           \A v \in Workers \ {w} : us[v] = ws[v],
           us[w].pc # "dup",
           us[w].bare => ws[w].bare /\ us[w].pc # "off",
           us[w].pc = "dying" => r.cause # {},
           q.exc = r.exc \/ (us[w].pc = "off" /\ r.cause # {})
    PROVE  RunOnce(q, us)
<1>1. r.exc = "none" /\ r.pc \notin {"drain"}
  BY DEF RunOnce
<1>2. CASE q.exc = r.exc
  BY <1>1, <1>2 DEF RunOnce
<1>3. CASE us[w].pc = "off" /\ r.cause # {}
  <2>1. \A v \in Workers : v = w
    BY <1>3 DEF RunOnce, OneInterruption
  <2>2. QED
    BY <1>1, <1>3, <2>1 DEF RunOnce, Gathering
<1>4. QED
  BY <1>2, <1>3

LEMMA WorkStepOnce ==
    ASSUME TypeOK, LockInv, OwnersInv, OnceInv, OneInterruption,
           NEW j \in Jobs, NEW w \in Workers, WorkStep(j, w)
    PROVE  JobOnce(j, run'[j], mem'[j], repo'[j], wk'[j], OpsOf(j, db'), Filled(j)')
<1>1. /\ JobOnce(j, run[j], mem[j], repo[j], wk[j], OpsOf(j, db), Filled(j))
      /\ RunOnce(run[j], wk[j])
  BY DEF OnceInv, JobOnce
<1>2. wk[j][w] \in Worker /\ run[j] \in RunTask /\ mem[j] \in StoredJob
  BY DEF TypeOK
<1>3. Filled(j)' = Filled(j) /\ repo' = repo
  <2>1. rows' = rows /\ repo' = repo
    BY DEF WorkStep, Take, Collected, Persist, Appended, Counted, Duplicate, Die
  <2>2. QED
    BY <2>1 DEF Filled
<1>4. wk[j][w].pc # "off" /\ run[j].pc \in Gathering /\ run[j].exc = "none"
  <2>1. wk[j][w].pc # "off"
    BY DEF WorkStep, Take, Collected, Persist, Appended, Counted, Duplicate, Die
  <2>2. QED
    BY <1>1, <2>1 DEF LockInv, Exclusive, TasksCover, Gathering, RunOnce
<1>5. /\ run'[j].pc = run[j].pc /\ run'[j].block = run[j].block
      /\ run'[j].cause = run[j].cause /\ (run'[j].intr <=> run[j].intr)
      /\ run'[j].exc # run[j].exc => (Counted(j, w) /\ wk[j][w].bare) \/ Die(j, w)
  <2>1. ~Duplicate(j, w)
    BY <1>1 DEF Duplicate, RunOnce
  <2>2. QED
    BY <2>1, WorkerRun DEF WorkStep
<1>6. \A s : SetWorker(j, w, s) => wk'[j][w] = s /\ \A v \in Workers \ {w} : wk'[j][v] = wk[j][v]
  BY DEF SetWorker, TypeOK
<1>7. \A o \in OpsOf(j, db) : o.live
  BY <1>1, <1>4 DEF JobOnce, OpsOnce
\* Before the write.
<1>8. ASSUME \A v \in Workers \ {w} : wk'[j][v] = wk[j][v],
             wk'[j][w].pc \notin {"append", "count"}, wk[j][w].pc \notin {"append", "count"},
             UNCHANGED <<mem, db>>, RunOnce(run'[j], wk'[j])
      PROVE  JobOnce(j, run'[j], mem'[j], repo'[j], wk'[j], OpsOf(j, db'), Filled(j)')
  <2>1. OpsOnce(j, run'[j], wk'[j], OpsOf(j, db'))
    BY <1>1, <1>5, <1>8 DEF JobOnce, OpsOnce
  <2>2. /\ Landed(j, wk'[j], OpsOf(j, db')) <=> Landed(j, wk[j], OpsOf(j, db))
        /\ Counting(j, wk'[j], OpsOf(j, db')) <=> Counting(j, wk[j], OpsOf(j, db))
    BY <1>8 DEF Landed, Counting
  <2>3. QED
    BY <1>1, <1>3, <1>8, <2>1, <2>2 DEF JobOnce, Counts
<1>9. CASE Take(j, w)
  <2>1. wk[j][w].pc = "next" /\ UNCHANGED <<mem, db>>
    BY <1>9 DEF Take
  <2>2. \/ SetWorker(j, w, Off)
        \/ \E i : SetWorker(j, w, [Off EXCEPT !.pc = "collect", !.item = i])
    BY <1>9 DEF Take
  <2>3. wk'[j][w].pc \in {"off", "collect"} /\ ~wk'[j][w].bare
    <3>1. CASE SetWorker(j, w, Off)
      <4>1. wk'[j][w] = Off
        BY <1>6, <3>1
      <4>2. QED
        BY <4>1 DEF Off
    <3>2. ASSUME NEW i, SetWorker(j, w, [Off EXCEPT !.pc = "collect", !.item = i])
          PROVE  wk'[j][w].pc = "collect" /\ ~wk'[j][w].bare
      <4>1. wk'[j][w] = [Off EXCEPT !.pc = "collect", !.item = i]
        BY <1>6, <3>2
      <4>2. QED
        BY <4>1 DEF Off
    <3>3. QED
      BY <2>2, <3>1, <3>2
  <2>4. \A v \in Workers \ {w} : wk'[j][v] = wk[j][v]
    BY <1>6, <2>2
  <2>5. run'[j].exc = run[j].exc
    BY <1>5, <2>1 DEF Counted, Die
  <2>6. RunOnce(run'[j], wk'[j])
    BY <1>1, <1>4, <1>5, <2>3, <2>4, <2>5, WorkerOnce
  <2>7. QED
    BY <1>8, <2>1, <2>3, <2>4, <2>6
<1>10. CASE Collected(j, w)
  <2>1. wk[j][w].pc = "collect" /\ UNCHANGED <<mem, db>>
    BY <1>10 DEF Collected
  <2>2. SetWorker(j, w, [wk[j][w] EXCEPT !.pc = "lock"])
    BY <1>10 DEF Collected
  <2>3. wk'[j][w].pc = "lock" /\ (wk'[j][w].bare => wk[j][w].bare)
    BY <1>2, <1>6, <2>2 DEF Worker
  <2>4. \A v \in Workers \ {w} : wk'[j][v] = wk[j][v]
    BY <1>6, <2>2
  <2>5. run'[j].exc = run[j].exc
    BY <1>5, <2>1 DEF Counted, Die
  <2>6. RunOnce(run'[j], wk'[j])
    BY <1>1, <1>4, <1>5, <2>3, <2>4, <2>5, WorkerOnce
  <2>7. QED
    BY <1>8, <2>1, <2>3, <2>4, <2>6
<1>11. CASE Die(j, w)
  <2>1. wk[j][w].pc = "dying" /\ UNCHANGED <<mem, db>> /\ SetWorker(j, w, Off)
    BY <1>11 DEF Die
  <2>2. wk'[j][w].pc = "off" /\ ~wk'[j][w].bare /\ \A v \in Workers \ {w} : wk'[j][v] = wk[j][v]
    BY <1>6, <2>1 DEF Off
  <2>3. run[j].cause # {}
    BY <1>1, <2>1 DEF RunOnce
  <2>4. RunOnce(run'[j], wk'[j])
    BY <1>1, <1>4, <1>5, <2>2, <2>3, WorkerOnce
  <2>5. QED
    BY <1>8, <2>1, <2>2, <2>4
\* The write.
<1>12. CASE Persist(j, w)
  <2>1. wk[j][w].pc = "lock" /\ lock = NoProc /\ UNCHANGED <<mem, run>>
        /\ \E n, i : db' = db \union {Append(j, w, n, i)}
    BY <1>12 DEF Persist
  <2>2. wk'[j][w] = [wk[j][w] EXCEPT !.pc = "append"] /\ \A v \in Workers \ {w} : wk'[j][v] = wk[j][v]
    BY <1>6, <1>12 DEF Persist
  <2>3. wk'[j][w].pc = "append" /\ (wk'[j][w].bare => wk[j][w].bare)
    BY <1>2, <2>2 DEF Worker
  <2>4. \A v \in Workers : wk[j][v].pc \notin {"append", "count"}
    BY <2>1, WritesAlone
  <2>5. PICK a : /\ db' = db \union {a} /\ a.kind = "append" /\ a.job = j
                 /\ a.own = <<j, w>> /\ a.live
    <3>1. \A n, i : LET a == Append(j, w, n, i)
                    IN  /\ a.kind = "append" /\ a.job = j /\ a.own = <<j, w>> /\ a.live
      BY DEF Append
    <3>2. QED
      BY <2>1, <3>1
  <2>6. OpsOf(j, db') = OpsOf(j, db) \union {a}
    BY <2>5 DEF OpsOf
  <2>7. \A o \in OpsOf(j, db) : o.kind # "update"
    <3>1. SUFFICES ASSUME NEW o \in OpsOf(j, db), o.kind = "update"
                   PROVE  FALSE
      OBVIOUS
    <3>2. Awaits(o.own, j)
      BY <1>7, <3>1 DEF OwnersInv, OpOwned, OpsOf
    <3>3. o.own # NoProc
      BY <1>1 DEF JobOnce, OpsOnce
    <3>4. PICK c \in Threads : call[c].pc = "save"
      BY <1>4, <2>4, <3>2, <3>3 DEF Awaits, Gathering
    <3>5. lock = c
      BY <3>4 DEF LockInv, Exclusive, CallsLocked
    <3>6. QED
      BY <2>1, <3>5, NamesAssumption
  <2>8. RunOnce(run'[j], wk'[j])
    <3>1. run'[j].exc = run[j].exc /\ wk'[j][w].pc \notin {"dup", "off", "dying"}
      BY <2>1, <2>3
    <3>2. wk'[j][w].bare => wk[j][w].bare /\ wk'[j][w].pc # "off"
      BY <2>3
    <3>3. \A v \in Workers \ {w} : wk'[j][v] = wk[j][v]
      BY <2>2
    <3>4. QED
      BY <1>1, <1>4, <1>5, <3>1, <3>2, <3>3, WorkerOnce
  <2>9. a.own # NoProc
    BY <2>5, NamesAssumption
  <2>10. OpsOnce(j, run'[j], wk'[j], OpsOf(j, db'))
    BY <1>1, <1>4, <1>5, <1>7, <2>5, <2>6, <2>7, <2>9 DEF JobOnce, OpsOnce, Gathering
  <2>11. ~Landed(j, wk'[j], OpsOf(j, db'))
    BY <2>2, <2>3, <2>4, <2>5, <2>6 DEF Landed, Awaiting
  <2>12. ~Landed(j, wk[j], OpsOf(j, db)) /\ ~Counting(j, wk[j], OpsOf(j, db))
    BY <2>4 DEF Landed, Counting
  <2>13. Counts(j, Filled(j)', mem'[j], repo'[j], wk'[j], OpsOf(j, db'))
    BY <1>1, <1>3, <2>1, <2>5, <2>6, <2>11, <2>12 DEF JobOnce, Counts
  <2>14. QED
    BY <2>8, <2>10, <2>13 DEF JobOnce
<1>13. CASE Appended(j, w)
  <2>1. /\ wk[j][w].pc = "append" /\ ~Waiting(<<j, w>>) /\ UNCHANGED run
        /\ db' = db \union {Update(j, <<j, w>>)}
    BY <1>13 DEF Appended
  <2>2. wk'[j][w] = [wk[j][w] EXCEPT !.pc = "count"] /\ \A v \in Workers \ {w} : wk'[j][v] = wk[j][v]
    BY <1>6, <1>13 DEF Appended
  <2>3. wk'[j][w].pc = "count" /\ (wk'[j][w].bare => wk[j][w].bare)
    BY <1>2, <2>2 DEF Worker
  <2>4. \A v \in Workers \ {w} : wk[j][v].pc \notin {"append", "count"}
    BY <2>1, WritesAlone
  <2>5. mem'[j].completed = mem[j].completed + 1
    BY <1>2, <1>13 DEF Appended, TypeOK, StoredJob
  <2>6. /\ Update(j, <<j, w>>).kind = "update" /\ Update(j, <<j, w>>).job = j
        /\ Update(j, <<j, w>>).own = <<j, w>> /\ Update(j, <<j, w>>).live
        /\ Update(j, <<j, w>>).stage = "sent"
    BY DEF Update
  <2>7. OpsOf(j, db') = OpsOf(j, db) \union {Update(j, <<j, w>>)}
    BY <2>1, <2>6 DEF OpsOf
  <2>8. RunOnce(run'[j], wk'[j])
    <3>1. run'[j].exc = run[j].exc /\ wk'[j][w].pc \notin {"dup", "off", "dying"}
      BY <2>1, <2>3
    <3>2. wk'[j][w].bare => wk[j][w].bare /\ wk'[j][w].pc # "off"
      BY <2>3
    <3>3. \A v \in Workers \ {w} : wk'[j][v] = wk[j][v]
      BY <2>2
    <3>4. QED
      BY <1>1, <1>4, <1>5, <3>1, <3>2, <3>3, WorkerOnce
  <2>9. Update(j, <<j, w>>).own # NoProc
    BY <2>6, NamesAssumption
  <2>10. \A v \in Workers : wk'[j][v].pc # "append"
    BY <2>2, <2>3, <2>4
  <2>11. OpsOnce(j, run'[j], wk'[j], OpsOf(j, db'))
    <3>1. \A o \in OpsOf(j, db') : /\ o.own # NoProc /\ (o.kind = "append" => o.live)
                                   /\ o.live
      BY <1>1, <1>7, <2>6, <2>7, <2>9 DEF JobOnce, OpsOnce
    <3>2. QED
      BY <2>10, <3>1 DEF OpsOnce
  <2>12. Landed(j, wk[j], OpsOf(j, db))
    BY <2>1, AwaitedOfJob DEF Landed
  <2>13. ~Landed(j, wk'[j], OpsOf(j, db')) /\ Counting(j, wk'[j], OpsOf(j, db'))
    BY <2>2, <2>3, <2>4, <2>6, <2>7 DEF Landed, Counting, Awaiting
  <2>14. \A o \in OpsOf(j, db') : ~(o.kind = "update" /\ o.stage = "started")
    BY <1>1, <2>1, <2>6, <2>7 DEF JobOnce, OpsOnce
  <2>15. Counts(j, Filled(j)', mem'[j], repo'[j], wk'[j], OpsOf(j, db'))
    BY <1>1, <1>3, <2>5, <2>12, <2>13, <2>14 DEF JobOnce, Counts
  <2>16. QED
    BY <2>8, <2>11, <2>15 DEF JobOnce
<1>14. CASE Counted(j, w)
  <2>1. wk[j][w].pc = "count" /\ ~Waiting(<<j, w>>) /\ UNCHANGED <<mem, db>>
    BY <1>14 DEF Counted
  <2>2. \/ SetWorker(j, w, Off) /\ wk[j][w].bare
        \/ SetWorker(j, w, [Off EXCEPT !.pc = "next"]) /\ ~wk[j][w].bare
    BY <1>14 DEF Counted
  <2>3. /\ ~wk'[j][w].bare /\ wk'[j][w].pc = IF wk[j][w].bare THEN "off" ELSE "next"
        /\ \A v \in Workers \ {w} : wk'[j][v] = wk[j][v]
    BY <1>6, <2>2 DEF Off
  <2>4. \A v \in Workers \ {w} : wk[j][v].pc \notin {"append", "count"}
    BY <2>1, WritesAlone
  <2>5. run'[j].exc = run[j].exc \/ (wk'[j][w].pc = "off" /\ run[j].cause # {})
    <3>1. CASE wk[j][w].bare
      BY <1>1, <2>3, <3>1 DEF RunOnce
    <3>2. CASE ~wk[j][w].bare
      BY <1>5, <2>1, <3>2 DEF Die
    <3>3. QED
      BY <3>1, <3>2
  <2>6. wk'[j][w].pc \in {"off", "next"}
    BY <2>3
  <2>7. RunOnce(run'[j], wk'[j])
    BY <1>1, <1>4, <1>5, <2>3, <2>5, <2>6, WorkerOnce
  <2>8. Still(wk'[j])
    BY <2>3, <2>4, <2>6 DEF Still
  <2>9. ~Landed(j, wk[j], OpsOf(j, db)) /\ ~Counting(j, wk[j], OpsOf(j, db))
    BY <2>1, <2>4, AwaitedOfJob DEF Landed, Counting
  <2>10. OpsOnce(j, run'[j], wk'[j], OpsOf(j, db'))
    BY <1>1, <1>5, <2>1, <2>8 DEF JobOnce, OpsOnce, Still
  <2>11. Counts(j, Filled(j)', mem'[j], repo'[j], wk'[j], OpsOf(j, db'))
    BY <1>1, <1>3, <2>1, <2>8, <2>9, StillCounts DEF JobOnce, Counts
  <2>12. QED
    BY <2>7, <2>10, <2>11 DEF JobOnce
<1>15. ~Duplicate(j, w)
  BY <1>1 DEF Duplicate, RunOnce
<1>16. QED
  BY <1>9, <1>10, <1>11, <1>12, <1>13, <1>14, <1>15 DEF WorkStep

-----------------------------------------------------------------------------
(* The repository *)

\* The append that is applied is the one of the worker that writes, and its
\* place is free.
LEMMA AppendLands ==
    ASSUME TypeOK, LockInv, ResultsInv, OnceInv,
           NEW j \in Jobs, NEW o \in OpsOf(j, db), ApplyAppend(o)
    PROVE  /\ o.seq = mem[j].completed /\ Grows(j, o.seq, o.item)
           /\ wk' = wk /\ OpsOf(j, db') = OpsOf(j, db) \ {o} /\ UNCHANGED <<run, mem, repo>>
           /\ \E w \in Workers : wk[j][w].pc = "append" /\ o.own = <<j, w>>
<1>1. /\ o \in db /\ o.job = j /\ o \in Operation /\ o.kind = "append"
      /\ UNCHANGED <<run, mem, repo>> /\ db' = db \ {o}
  BY DEF OpsOf, TypeOK, ApplyAppend
<1>2. JobOnce(j, run[j], mem[j], repo[j], wk[j], OpsOf(j, db), Filled(j))
  BY DEF OnceInv
<1>3. o.live
  BY <1>1, <1>2 DEF JobOnce, OpsOnce
<1>4. PICK w \in Workers : o.own = <<j, w>> /\ wk[j][w].pc = "append"
  BY <1>1, <1>3 DEF LockInv, Awaited, Held
<1>5. \A v \in Workers \ {w} : wk[j][v].pc # "append"
  BY <1>4, WritesAlone
<1>6. Awaiting(<<j, w>>, OpsOf(j, db))
  BY <1>3, <1>4 DEF Awaiting
<1>7. ~Landed(j, wk[j], OpsOf(j, db))
  BY <1>5, <1>6 DEF Landed
<1>8. mem[j].completed \notin Filled(j)
  BY <1>2, <1>7 DEF JobOnce, Counts
<1>9. PICK q \in db : Held(q) /\ q.own = <<j, w>> /\ q.seq = mem[j].completed
  BY <1>4, <1>8 DEF ResultsInv, RunSound, Appends
<1>10. q = o
  BY <1>1, <1>3, <1>4, <1>9 DEF LockInv, Awaited, Held
<1>11. o.seq \notin Filled(j) /\ o.seq \in Nat
  BY <1>1, <1>8, <1>9, <1>10 DEF Operation
<1>12. Covered(j, o.seq) /\ o.item \in Items \ Done(j) /\ RowsLog(j)
  BY <1>1, <1>11 DEF ResultsInv, OpSound
<1>13. o.seq \in Seqs
  BY <1>11, <1>12, RoomForResult
<1>14. rows[j][o.seq] = NoItem
  BY <1>11, <1>13 DEF Filled
<1>15. rows' = [rows EXCEPT ![j][o.seq] = o.item] /\ wk' = wk
  BY <1>1, <1>14 DEF ApplyAppend
<1>16. Grows(j, o.seq, o.item)
  BY <1>11, <1>12, <1>13, <1>15 DEF Grows
<1>17. OpsOf(j, db') = OpsOf(j, db) \ {o}
  BY <1>1 DEF OpsOf
<1>18. QED
  BY <1>1, <1>4, <1>9, <1>10, <1>15, <1>16, <1>17

LEMMA OpStepOnce ==
    ASSUME TypeOK, LockInv, OwnersInv, ResultsInv, OnceInv, ~LateWrites,
           NEW j \in Jobs, NEW o \in OpsOf(j, db), OpStep(o)
    PROVE  JobOnce(j, run'[j], mem'[j], repo'[j], wk'[j], OpsOf(j, db'), Filled(j)')
<1>1. o \in db /\ o.job = j /\ o \in Operation /\ OpOwned(o)
  BY DEF OpsOf, TypeOK, OwnersInv
<1>2. JobOnce(j, run[j], mem[j], repo[j], wk[j], OpsOf(j, db), Filled(j))
  BY DEF OnceInv
<1>3. o.own # NoProc
  BY <1>2 DEF JobOnce, OpsOnce
<1>4. CASE StartOp(o)
  <2> DEFINE s == [o EXCEPT !.stage = "started",
                            !.val = IF o.kind = "update" THEN mem[o.job] ELSE @]
  <2>1. /\ s.job = j /\ s.own = o.own /\ s.kind = o.kind
        /\ s.kind = "update" => s.val = mem[j]
    BY <1>1 DEF Operation
  <2>2. s.live <=> o.live
    BY <1>1 DEF Operation
  <2>3. /\ db' = (db \ {o}) \union {s} /\ \A q \in OpsOf(j, db) : q.live
        /\ UNCHANGED <<repo, run, mem, wk, rows>>
    BY <1>1, <1>4 DEF StartOp, Settled, OpsOf
  <2> HIDE DEF s
  <2>4. OpsOf(j, db') = (OpsOf(j, db) \ {o}) \union {s}
    BY <2>1, <2>3 DEF OpsOf
  <2>5. Filled(j)' = Filled(j)
    BY <2>3 DEF Filled
  <2>6. \A q \in OpsOf(j, db') : q.live
    BY <2>2, <2>3, <2>4
  <2>7. \A p : Awaiting(p, OpsOf(j, db')) <=> Awaiting(p, OpsOf(j, db))
    BY <2>1, <2>3, <2>4, <2>6 DEF Awaiting
  <2>8. OpsOnce(j, run[j], wk[j], OpsOf(j, db'))
    BY <1>2, <2>1, <2>4, <2>6 DEF JobOnce, OpsOnce
  <2>9. s.kind = "update" => ~Landed(j, wk[j], OpsOf(j, db))
    BY <1>2, <2>1 DEF JobOnce, OpsOnce, Landed
  <2>10. s.kind = "update" => s.val.completed \notin Filled(j)
    BY <1>2, <2>1, <2>9 DEF JobOnce, Counts
  <2>11. /\ Landed(j, wk[j], OpsOf(j, db')) <=> Landed(j, wk[j], OpsOf(j, db))
         /\ Counting(j, wk[j], OpsOf(j, db')) <=> Counting(j, wk[j], OpsOf(j, db))
    BY <2>7 DEF Landed, Counting
  <2>12. Counts(j, Filled(j), mem[j], repo[j], wk[j], OpsOf(j, db'))
    BY <1>2, <2>4, <2>10, <2>11 DEF JobOnce, Counts
  <2>13. QED
    BY <1>2, <2>3, <2>5, <2>8, <2>12 DEF JobOnce
<1>5. CASE ApplyUpdate(o)
  <2>1. /\ o.kind = "update" /\ o.stage = "started" /\ repo'[j] = o.val
        /\ OpsOf(j, db') = OpsOf(j, db) \ {o} /\ UNCHANGED <<run, mem, wk, rows>>
    BY <1>1, <1>5 DEF ApplyUpdate, OpsOf, TypeOK
  <2>2. Filled(j)' = Filled(j)
    BY <2>1 DEF Filled
  <2>3. \A w \in Workers : wk[j][w].pc # "append"
    BY <1>2, <2>1 DEF JobOnce, OpsOnce
  <2>4. Sends(j, OpsOf(j, db)) => Sends(j, OpsOf(j, db'))
    BY <2>1 DEF Sends
  <2>5. OpsOnce(j, run[j], wk[j], OpsOf(j, db'))
    BY <1>2, <2>1, <2>3, <2>4 DEF JobOnce, OpsOnce
  <2>6. ~Landed(j, wk[j], OpsOf(j, db)) /\ ~Landed(j, wk[j], OpsOf(j, db'))
    BY <2>3 DEF Landed
  <2>7. repo'[j].completed \notin Filled(j)
    BY <1>2, <2>1 DEF JobOnce, Counts
  <2>8. Counts(j, Filled(j), mem[j], repo'[j], wk[j], OpsOf(j, db'))
    BY <1>2, <2>1, <2>6, <2>7 DEF JobOnce, Counts
  <2>9. QED
    BY <1>2, <2>1, <2>2, <2>5, <2>8 DEF JobOnce
<1>6. CASE ApplyAppend(o)
  <2>1. /\ o.seq = mem[j].completed /\ Grows(j, o.seq, o.item)
        /\ wk' = wk /\ OpsOf(j, db') = OpsOf(j, db) \ {o} /\ UNCHANGED <<run, mem, repo>>
    BY <1>6, AppendLands
  <2>2. PICK w \in Workers : wk[j][w].pc = "append" /\ o.own = <<j, w>>
    BY <1>6, AppendLands
  <2>3. RowsLog(j)
    BY DEF ResultsInv
  <2>4. /\ Filled(j)' = Filled(j) \union {mem[j].completed}
        /\ Filled(j) = 0 .. mem[j].completed - 1
    BY <2>1, <2>3, GrownRows
  <2>5. mem[j].completed \in Nat
    BY DEF TypeOK, StoredJob
  <2>6. mem[j].completed \in Filled(j)' /\ mem[j].completed + 1 \notin Filled(j)'
    BY <2>4, <2>5
  <2>7. ~Awaiting(<<j, w>>, OpsOf(j, db'))
    <3>1. SUFFICES ASSUME NEW q \in OpsOf(j, db), q # o, q.own = <<j, w>>, q.live
                   PROVE  FALSE
      BY <2>1 DEF Awaiting
    <3>2. q.kind = "append" /\ o.kind = "append" /\ o.live
      <4>1. q \in Operation /\ q.kind # "update"
        BY <1>2, <2>2 DEF JobOnce, OpsOnce, OpsOf, TypeOK
      <4>2. QED
        BY <1>2, <1>6, <4>1 DEF Operation, ApplyAppend, JobOnce, OpsOnce
    <3>3. QED
      BY <1>1, <2>2, <3>1, <3>2 DEF LockInv, Awaited, Held, OpsOf
  <2>8. Landed(j, wk[j], OpsOf(j, db'))
    BY <2>2, <2>7 DEF Landed
  <2>9. run[j].pc # "begin"
    BY <2>2 DEF LockInv, Exclusive, TasksCover
  <2>10. OpsOnce(j, run[j], wk[j], OpsOf(j, db'))
    BY <1>2, <2>1, <2>9 DEF JobOnce, OpsOnce
  <2>11. \A q \in OpsOf(j, db') : q.kind # "update"
    BY <1>2, <2>1, <2>2 DEF JobOnce, OpsOnce
  <2>12. Counts(j, Filled(j)', mem[j], repo[j], wk[j], OpsOf(j, db'))
    BY <2>6, <2>8, <2>11 DEF Counts
  <2>13. QED
    BY <1>2, <2>1, <2>10, <2>12 DEF JobOnce
<1>7. QED
  BY <1>4, <1>5, <1>6 DEF OpStep

-----------------------------------------------------------------------------
(* The calls and the deadline *)

\* The first cancellation of a run.
LEMMA InterruptedOnce ==
    ASSUME NEW r, NEW q, NEW ws, NEW x \in Causes, RunOnce(r, ws), r.cause = {},
           q.pc = r.pc, q.block = r.block, q.exc = r.exc, q.cause = {x}
    PROVE  RunOnce(q, ws)
BY DEF RunOnce

\* The run of j is the same but for a cancellation, and so are its counts.
LEMMA CancelOnce ==
    ASSUME OnceInv, NEW j \in Jobs, NEW x \in Causes, run[j].cause = {},
           run'[j].pc = run[j].pc, run'[j].block = run[j].block, run'[j].exc = run[j].exc,
           run'[j].cause = {x}, UNCHANGED <<mem, repo, wk, db, rows>>
    PROVE  JobOnce(j, run'[j], mem'[j], repo'[j], wk'[j], OpsOf(j, db'), Filled(j)')
<1>1. JobOnce(j, run[j], mem[j], repo[j], wk[j], OpsOf(j, db), Filled(j))
  BY DEF OnceInv
<1>2. RunOnce(run'[j], wk[j])
  BY <1>1, InterruptedOnce DEF JobOnce
<1>3. OpsOnce(j, run'[j], wk[j], OpsOf(j, db))
  BY <1>1 DEF JobOnce, OpsOnce
<1>4. Filled(j)' = Filled(j)
  BY DEF Filled
<1>5. QED
  BY <1>1, <1>2, <1>3, <1>4 DEF JobOnce

LEMMA DeadlineOnce ==
    ASSUME OneInterruption, TypeOK, OnceInv, NEW j \in Jobs, Deadline(j)
    PROVE  JobOnce(j, run'[j], mem'[j], repo'[j], wk'[j], OpsOf(j, db'), Filled(j)')
<1>1. /\ UNCHANGED <<mem, repo, wk, db, rows>>
      /\ run' = [run EXCEPT ![j].cause = @ \union {"timeout"}, ![j].intr = TRUE]
      /\ Timed /\ "timeout" \notin run[j].cause
  BY DEF Deadline
<1>2. run[j].cause \subseteq Causes
  BY DEF OnceInv, JobOnce, RunOnce
<1>3. Causes = {"timeout"}
  BY <1>1 DEF Causes, OneInterruption
<1>4. run[j].cause = {}
  BY <1>1, <1>2, <1>3
<1>5. /\ run'[j].pc = run[j].pc /\ run'[j].block = run[j].block /\ run'[j].exc = run[j].exc
      /\ run'[j].cause = run[j].cause \union {"timeout"}
  BY <1>1 DEF TypeOK, RunTask
<1>6. QED
  BY <1>1, <1>3, <1>4, <1>5, CancelOnce

\* An operation that is sent for j beside workers that do not write.
LEMMA SentOnce ==
    ASSUME NEW j \in Jobs, JobOnce(j, run[j], mem[j], repo[j], wk[j], OpsOf(j, db), Filled(j)),
           Still(wk[j]), NEW o, o.job = j, o.own # NoProc, o.kind = "update", o.live,
           o.stage = "started" => o.val.completed \notin Filled(j),
           db' = db \union {o}, UNCHANGED <<run, repo, wk, rows>>,
           mem'[j].completed = mem[j].completed
    PROVE  JobOnce(j, run'[j], mem'[j], repo'[j], wk'[j], OpsOf(j, db'), Filled(j)')
<1>1. OpsOf(j, db') = OpsOf(j, db) \union {o}
  BY DEF OpsOf
<1>2. Filled(j)' = Filled(j)
  BY DEF Filled
<1>3. Sends(j, OpsOf(j, db)) => Sends(j, OpsOf(j, db'))
  BY <1>1 DEF Sends
<1>4. OpsOnce(j, run[j], wk[j], OpsOf(j, db'))
  BY <1>1, <1>3 DEF JobOnce, OpsOnce, Still
<1>5. Counts(j, Filled(j), mem'[j], repo[j], wk[j], OpsOf(j, db'))
  BY <1>1, StillCounts DEF JobOnce, Counts
<1>6. QED
  BY <1>2, <1>4, <1>5 DEF JobOnce

\* The run task of j is created.
LEMMA LaunchOnce ==
    ASSUME TypeOK, LockInv, NEW j \in Jobs, run[j].pc = "idle",
           JobOnce(j, run[j], mem[j], repo[j], wk[j], OpsOf(j, db), Filled(j)),
           NEW v, v.completed \notin Filled(j), NEW pending, Launch(j, v, pending),
           UNCHANGED <<rows, repo, db, wk>>
    PROVE  JobOnce(j, run'[j], mem'[j], repo'[j], wk'[j], OpsOf(j, db'), Filled(j)')
<1> DEFINE r == [Idle EXCEPT !.pc = "sem", !.left = pending]
<1>1. mem'[j] = v /\ run'[j] = r /\ Filled(j)' = Filled(j)
  BY DEF Launch, TypeOK, Filled
<1>2. r.pc = "sem" /\ r.block = "body" /\ r.exc = "none" /\ r.cause = {}
  BY DEF Idle
<1>3. ~r.intr
  BY DEF Idle
<1> HIDE DEF r
<1>4. \A w \in Workers : wk[j][w].pc = "off"
  BY DEF LockInv, Exclusive, TasksCover
<1>5. RunOnce(r, wk[j])
  BY <1>2, <1>3, <1>4 DEF RunOnce, JobOnce
<1>6. OpsOnce(j, r, wk[j], OpsOf(j, db))
  BY <1>2, <1>4 DEF JobOnce, OpsOnce, Gathering
<1>7. Counts(j, Filled(j), v, repo[j], wk[j], OpsOf(j, db))
  BY <1>4, StillCounts DEF JobOnce, Counts, Still
<1>8. QED
  BY <1>1, <1>5, <1>6, <1>7 DEF JobOnce

LEMMA CallStepOnce ==
    ASSUME OneInterruption, TypeOK, KnownJobs, LockInv, Calm, OnceInv,
           NEW c \in Callers, NEW j \in Jobs, call[c].job = j, CallStep(c)
    PROVE  JobOnce(j, run'[j], mem'[j], repo'[j], wk'[j], OpsOf(j, db'), Filled(j)')
<1>1. JobOnce(j, run[j], mem[j], repo[j], wk[j], OpsOf(j, db), Filled(j))
  BY DEF OnceInv
<1>2. c \in Threads /\ CallOnce(c) /\ c # NoProc
  BY NamesAssumption DEF OnceInv, Threads
<1>3. UNCHANGED <<rows, wk>> /\ Filled(j)' = Filled(j)
  BY DEF CallStep, Acquire, FindKey, CreateJob, LaunchNew, ReadJob, CheckCancel, CancelTask,
     CheckResume, ReadRows, ResetJob, LaunchResumed, Filled
\* A call that holds the lock finds no worker that writes.
<1>4. call[c].pc \notin {"idle", "lock", "join"} => Still(wk[j])
  <2>1. SUFFICES ASSUME call[c].pc \notin {"idle", "lock", "join"}, NEW w \in Workers,
                        wk[j][w].pc \in {"append", "count"}
                 PROVE  FALSE
    BY DEF Still
  <2>2. lock = c /\ lock = <<j, w>>
    BY <1>2, <2>1 DEF LockInv, Exclusive, CallsLocked, WritesLocked
  <2>3. QED
    BY <1>2, <2>2, NamesAssumption
<1>5. run[j].pc = "idle" => Still(wk[j])
  BY DEF LockInv, Exclusive, TasksCover, Still
<1>6. CASE \/ Acquire(c) \/ FindKey(c) \/ ReadJob(c) \/ CheckResume(c) \/ ReadRows(c)
  <2>1. UNCHANGED <<run, mem, repo, db>>
    BY <1>6 DEF Acquire, FindKey, ReadJob, CheckResume, ReadRows
  <2>2. QED
    BY <1>1, <1>3, <2>1
<1>7. CASE CreateJob(c)
  <2>1. UNCHANGED <<run, mem, db>>
    BY <1>7 DEF CreateJob
  <2>2. CASE repo' = repo
    BY <1>1, <1>3, <2>1, <2>2
  <2>3. CASE KeyHolders(j) = {} /\ repo'[j] = Fresh(j)
    <3>1. repo[j] = NoJob
      BY <2>3 DEF KeyHolders
    <3>2. run[j].pc = "idle"
      BY <3>1 DEF KnownJobs, RunKnown, MemKnown
    <3>3. repo[j].completed = 0 /\ repo'[j].completed = 0
      BY <2>3, <3>1 DEF NoJob, Fresh
    <3>4. Counts(j, Filled(j), mem[j], repo'[j], wk[j], OpsOf(j, db))
      BY <1>1, <1>5, <3>2, <3>3, StillCounts DEF JobOnce, Counts
    <3>5. QED
      BY <1>1, <1>3, <2>1, <3>4 DEF JobOnce
  <2>4. QED
    BY <1>7, <2>2, <2>3 DEF CreateJob, TypeOK
<1>8. CASE LaunchNew(c)
  <2>1. call[c].pc = "launch" /\ Launch(j, Fresh(j), Items) /\ UNCHANGED <<repo, db>>
    BY <1>8 DEF LaunchNew
  <2>2. run[j].pc = "idle"
    BY <1>2, <2>1 DEF LockInv, Exclusive, LaunchesAlone, Launching
  <2>3. Fresh(j).completed \notin Filled(j)
    BY <1>2, <2>1 DEF CallOnce, Fresh, NoJob
  <2>4. QED
    BY <1>1, <1>3, <2>1, <2>2, <2>3, LaunchOnce
<1>9. CASE LaunchResumed(c)
  <2>1. /\ call[c].op = "resume" /\ call[c].pc = "save"
        /\ Launch(j, call[c].seen, Items \ call[c].done) /\ UNCHANGED <<repo, db>>
    BY <1>9 DEF LaunchResumed
  <2>2. run[j].pc = "idle"
    BY <1>2, <2>1 DEF LockInv, Exclusive, LaunchesAlone, Launching
  <2>3. call[c].seen.completed \notin Filled(j)
    BY <1>2, <2>1 DEF CallOnce, HasRead
  <2>4. QED
    BY <1>1, <1>3, <2>1, <2>2, <2>3, LaunchOnce
<1>10. CASE ResetJob(c)
  <2> DEFINE stored == [Fresh(j) EXCEPT !.completed = call[c].seen.completed]
             o == [Update(j, c) EXCEPT !.stage = "started", !.val = stored]
  <2>1. /\ call[c].pc = "build" /\ db' = db \union {o} /\ UNCHANGED <<repo, run, mem>>
    BY <1>10 DEF ResetJob
  <2>2. stored.completed \notin Filled(j)
    BY <1>2, <2>1 DEF CallOnce, HasRead, Fresh, NoJob
  <2> HIDE DEF stored
  <2>3. o.job = j /\ o.own = c /\ o.kind = "update" /\ o.live /\ o.val = stored
    BY DEF Update
  <2> HIDE DEF o
  <2>4. QED
    BY <1>1, <1>2, <1>3, <1>4, <2>1, <2>2, <2>3, SentOnce
<1>11. CASE CheckCancel(c)
  <2>1. UNCHANGED <<repo, run>> /\ call[c].pc = "check"
    BY <1>11 DEF CheckCancel
  <2>2. CASE UNCHANGED <<mem, db>>
    BY <1>1, <1>3, <2>1, <2>2
  <2>3. CASE /\ mem' = [mem EXCEPT ![j].cancelRequested = TRUE, ![j].status = "cancelled",
                                   ![j].error = "cancelled"]
             /\ db' = db \union {Update(j, c)}
    <3>1. mem'[j].completed = mem[j].completed
      <4>1. mem'[j] = [mem[j] EXCEPT !.cancelRequested = TRUE, !.status = "cancelled",
                                     !.error = "cancelled"]
        BY <2>3 DEF TypeOK
      <4>2. mem[j] \in StoredJob
        BY DEF TypeOK
      <4>3. QED
        BY <4>1, <4>2 DEF StoredJob
    <3> DEFINE o == Update(j, c)
    <3>2. o.job = j /\ o.own = c /\ o.kind = "update" /\ o.live /\ o.stage = "sent"
      BY DEF Update
    <3>3. db' = db \union {o}
      BY <2>3
    <3> HIDE DEF o
    <3>4. QED
      BY <1>1, <1>2, <1>3, <1>4, <2>1, <3>1, <3>2, <3>3, SentOnce
  <2>4. QED
    BY <1>11, <2>2, <2>3 DEF CheckCancel
<1>12. CASE CancelTask(c)
  <2>1. call[c].op = "cancel" /\ call[c].pc = "save" /\ UNCHANGED <<mem, repo, db>>
    BY <1>12 DEF CancelTask
  <2>2. CASE UNCHANGED run
    BY <1>1, <1>3, <2>1, <2>2
  <2>3. CASE run' = [run EXCEPT ![j].cause = @ \union {"cancel"}, ![j].intr = TRUE]
    <3>1. "cancel" \in Ops /\ "cancel" \in Causes
      BY <1>2, <2>1 DEF CallOnce, Causes
    <3>2. ~Joined(j)
      <4>1. Callers = {c}
        BY <3>1 DEF OneInterruption
      <4>2. call[Boot].pc = "idle"
        BY DEF Calm, NoCall
      <4>3. \A d \in Threads : call[d].pc # "join"
        BY <2>1, <4>1, <4>2 DEF Threads
      <4>4. QED
        BY <4>3 DEF Joined
    <3>3. run[j].cause = {}
      BY <3>1, <3>2 DEF OnceInv
    <3>4. /\ run'[j].pc = run[j].pc /\ run'[j].block = run[j].block /\ run'[j].exc = run[j].exc
          /\ run'[j].cause = run[j].cause \union {"cancel"}
      BY <2>3, CancelRun
    <3>5. run'[j].cause = {"cancel"}
      BY <3>3, <3>4
    <3>6. QED
      BY <1>3, <2>1, <3>1, <3>3, <3>4, <3>5, CancelOnce
  <2>4. QED
    BY <1>12, <2>2, <2>3 DEF CancelTask
<1>13. QED
  BY <1>6, <1>7, <1>8, <1>9, <1>10, <1>11, <1>12 DEF CallStep

\* A step of the run task ends it, or leaves its cancellations and the calls.
LEMMA TaskEnds ==
    ASSUME TypeOK, NEW j \in Jobs, TaskStepOf(j)
    PROVE  \/ Finish(j)
           \/ /\ run'[j].pc # "idle" /\ run'[j].cause = run[j].cause
              /\ UNCHANGED <<call, acked>>
<1>1. run[j] \in RunTask
  BY DEF TypeOK
<1>2. ASSUME NEW b, NEW p \in {"save", "hook"}, Goto(j, b, p)
      PROVE  run'[j].pc # "idle" /\ run'[j].cause = run[j].cause /\ UNCHANGED <<call, acked>>
  <2>1. run'[j] = [run[j] EXCEPT !.pc = p, !.block = b, !.attempt = 1, !.intr = FALSE]
    BY <1>2 DEF Goto, TypeOK
  <2>2. run'[j].pc # "idle" /\ run'[j].cause = run[j].cause
    BY <1>1, <2>1 DEF RunTask
  <2>3. QED
    BY <1>2, <2>2 DEF Goto
<1>3. ASSUME NEW ops, CancelHandler(j, ops) \/ TimeoutHandler(j, ops)
      PROVE  run'[j].pc # "idle" /\ run'[j].cause = run[j].cause /\ UNCHANGED <<call, acked>>
  <2>1. \E b : \E p \in {"save", "hook"} : Goto(j, b, p)
    BY <1>3 DEF CancelHandler, TimeoutHandler
  <2>2. QED
    BY <1>2, <2>1
<1>4. ASSUME NEW e, NEW ops, Leave(j, e, ops)
      PROVE  \/ Finish(j)
             \/ run'[j].pc # "idle" /\ run'[j].cause = run[j].cause /\ UNCHANGED <<call, acked>>
  <2>1. \/ CancelHandler(j, ops) \/ TimeoutHandler(j, ops)
        \/ Goto(j, "body", "hook") \/ Finish(j)
    BY <1>4 DEF Leave
  <2>2. QED
    BY <1>2, <1>3, <2>1
<1>5. CASE StartJob(j) \/ StartWorkers(j) \/ Gathered(j) \/ Drain(j) \/ Drained(j)
  <2>1. \E p \in {"begin", "gather", "final", "drain"} : run' = [run EXCEPT ![j].pc = p]
    BY <1>5 DEF StartJob, StartWorkers, Gathered, Drain, Drained
  <2>2. UNCHANGED <<call, acked>>
    BY <1>5 DEF StartJob, StartWorkers, Gathered, Drain, Drained
  <2>3. QED
    BY <2>1, <2>2, MovesOn
<1>6. CASE Post(j)
  <2>1. \/ run'[j] = [run[j] EXCEPT !.pc = "hookSave"]
        \/ run'[j] = [run[j] EXCEPT !.attempt = run[j].attempt + 1]
    BY <1>6 DEF Post, TypeOK
  <2>2. run[j].pc = "hook" /\ UNCHANGED <<call, acked>>
    BY <1>6 DEF Post
  <2>3. QED
    BY <1>1, <2>1, <2>2 DEF RunTask
<1>7. CASE Executed(j)
  BY <1>4, <1>7 DEF Executed
<1>8. CASE Saved(j)
  BY <1>2, <1>8 DEF Saved
<1>9. CASE Posted(j)
  BY <1>2, <1>9 DEF Posted
<1>10. CASE Interrupt(j)
  <2>1. \/ Leave(j, "cancel", Abandon({j})) \/ CancelHandler(j, Abandon({j})) \/ Finish(j)
    BY <1>10 DEF Interrupt
  <2>2. QED
    BY <1>3, <1>4, <2>1
<1>11. CASE InterruptGather(j)
  <2>1. \E e : run'[j] = [run[j] EXCEPT !.intr = FALSE,
                             !.pc = IF run[j].pc = "gather" THEN "cancelling" ELSE run[j].pc,
                             !.exc = e]
    BY <1>11 DEF InterruptGather, TypeOK
  <2>2. run[j].pc \in {"gather", "cancelling", "drain"} /\ UNCHANGED <<call, acked>>
    BY <1>11 DEF InterruptGather
  <2>3. QED
    BY <1>1, <2>1, <2>2 DEF RunTask
<1>12. QED
  BY <1>5, <1>6, <1>7, <1>8, <1>9, <1>10, <1>11 DEF TaskStepOf

\* What a step does to a call.
LEMMA CallsOfStep ==
    ASSUME MaxStops = 0, TypeOK, Calm, [Next]_vars, NEW d \in Threads
    PROVE  \/ call'[d] = call[d]
           \/ \E k \in Jobs : /\ Finish(k) /\ call[d].pc = "join" /\ call[d].job = k
                              /\ call'[d] = NoCall
           \/ d \in Callers /\ CallStep(d)
           \/ \E op \in Ops, k \in Jobs :
                 /\ d \in Callers /\ Request(d, op, k) /\ call[d].pc = "idle"
                 /\ call'[d].op = op /\ call'[d].job = k /\ call'[d].pc = "lock"
<1>1. CASE UNCHANGED vars
  BY <1>1 DEF vars
<1>2. CASE Storage \/ Strays \/ \E j \in Jobs : Deadline(j)
  BY <1>2 DEF Storage, StartOp, ApplyUpdate, ApplyAppend, Strays, StrayPost, Deadline
<1>3. CASE WorkerTasks
  <2>1. PICK j \in Jobs, w \in Workers : WorkStep(j, w)
    BY <1>3 DEF WorkerTasks, WorkStep
  <2>2. QED
    BY <2>1 DEF WorkStep, Take, Collected, Persist, Appended, Counted, Duplicate, Die
<1>4. CASE RunTasks
  <2>1. PICK j \in Jobs : TaskStepOf(j)
    BY <1>4 DEF RunTasks, TaskStepOf
  <2>2. CASE UNCHANGED call
    BY <2>2
  <2>3. CASE Finish(j)
    BY <2>3 DEF Finish
  <2>4. QED
    BY <2>1, <2>2, <2>3, TaskEnds
<1>5. CASE Clients
  <2>1. ASSUME NEW j \in Readers, PollJob(j) \/ PollRows(j)
        PROVE  call' = call
    BY <2>1 DEF PollJob, PollRows
  <2>2. ASSUME NEW c \in Callers, NEW op \in Ops, NEW j \in Jobs, Request(c, op, j)
        PROVE  \/ call'[d] = call[d]
               \/ /\ d = c /\ call[d].pc = "idle"
                  /\ call'[d].op = op /\ call'[d].job = j /\ call'[d].pc = "lock"
    <3>1. /\ call[c].pc = "idle"
          /\ call' = [call EXCEPT ![c] = [NoCall EXCEPT !.op = op, !.job = j, !.pc = "lock"]]
      BY <2>2 DEF Request, SetCall
    <3>2. CASE d # c
      BY <3>1, <3>2 DEF TypeOK
    <3>3. CASE d = c
      <4>1. call'[d] = [NoCall EXCEPT !.op = op, !.job = j, !.pc = "lock"]
        BY <3>1, <3>3 DEF TypeOK
      <4>2. call'[d].pc = "lock" /\ call'[d].op = op /\ call'[d].job = j
        BY <4>1 DEF NoCall
      <4>3. QED
        BY <3>1, <3>3, <4>2
    <3>4. QED
      BY <3>2, <3>3
  <2>3. QED
    BY <1>5, <2>1, <2>2 DEF Clients
<1>6. ASSUME NEW c \in Callers, CallStep(c)
      PROVE  call'[d] = call[d] \/ (d \in Callers /\ CallStep(d))
  <2>1. CASE d = c
    BY <1>6, <2>1
  <2>2. CASE d # c
    <3>1. \E r : call' = [call EXCEPT ![c] = r]
      BY <1>6 DEF CallStep, Acquire, FindKey, CreateJob, LaunchNew, ReadJob, CheckCancel, CancelTask,
         CheckResume, ReadRows, ResetJob, LaunchResumed, Respond, SetCall
    <3>2. QED
      BY <2>2, <3>1 DEF TypeOK
  <2>3. QED
    BY <2>1, <2>2
<1>7. QED
  BY <1>1, <1>2, <1>3, <1>4, <1>5, <1>6, CalmStep

\* Results are stored for a job that runs.
LEMMA StoresRunning ==
    ASSUME TypeOK, LockInv, ResultsInv, OnceInv, [Next]_vars, NEW k \in Jobs, rows'[k] # rows[k]
    PROVE  run[k].pc \in Gathering
<1>1. ~UNCHANGED rows
  OBVIOUS
<1>2. PICK o \in db : ApplyAppend(o) /\ rows[o.job][o.seq] = NoItem
  BY <1>1, WhoWritesRows
<1>3. rows' = [rows EXCEPT ![o.job][o.seq] = o.item] /\ o.job \in Jobs
  BY <1>2 DEF ApplyAppend, TypeOK, Operation
<1>4. o.job = k
  BY <1>3 DEF TypeOK
<1>5. PICK w \in Workers : wk[k][w].pc = "append"
  BY <1>2, <1>4, AppendLands DEF OpsOf
<1>6. QED
  BY <1>5 DEF LockInv, Exclusive, TasksCover, Gathering

\* The number of the results is not one of their sequence numbers.
LEMMA LogEnds ==
    ASSUME NEW j, RowsLog(j)
    PROVE  Cardinality(Filled(j)) \notin Filled(j)
<1> DEFINE k == Cardinality(Filled(j))
<1>1. IsFiniteSet(Filled(j)) /\ k \in Nat
  BY FilledFinite
<1>2. SUFFICES ASSUME k \in Filled(j) PROVE FALSE
  OBVIOUS
<1>3. 0 .. k \in SUBSET Filled(j)
  <2>1. Covered(j, k)
    BY <1>2 DEF RowsLog
  <2>2. \A m \in 0 .. k : m = k \/ m \in 0 .. k - 1
    BY <1>1
  <2> HIDE DEF k
  <2>3. QED
    BY <1>2, <2>1, <2>2 DEF Covered
<1>4. Cardinality(0 .. k) = k + 1
  BY <1>1, FS_Interval
<1>5. Cardinality(0 .. k) <= k
  BY <1>1, <1>3, FS_Subset
<1>6. QED
  BY <1>1, <1>4, <1>5

LEMMA CallsOnce ==
    ASSUME OneInterruption, TypeOK, KnownJobs, LockInv, ResultsInv, Calm, OnceInv, [Next]_vars
    PROVE  \A c \in Threads : CallOnce(c)'
<1> SUFFICES ASSUME NEW c \in Threads
             PROVE  CallOnce(c)'
  OBVIOUS
<1>1. CallOnce(c)
  BY DEF OnceInv
<1>2. ASSUME NEW k \in Jobs, k = call[c].job, Launching(c)
      PROVE  Filled(k)' = Filled(k)
  <2>1. run[k].pc = "idle"
    BY <1>2 DEF LockInv, Exclusive, LaunchesAlone
  <2>2. rows'[k] = rows[k]
    BY <2>1, StoresRunning DEF Gathering
  <2>3. QED
    BY <2>2 DEF Filled
<1>3. CASE call'[c] = call[c]
  <2>1. CASE Launching(c)
    <3>1. call[c].pc # "idle"
      BY <2>1 DEF Launching
    <3>2. PICK k \in Jobs : k = call[c].job
      BY <3>1, CallTypes
    <3>3. Filled(k)' = Filled(k) /\ k = call'[c].job
      BY <1>2, <1>3, <2>1, <3>2
    <3>4. QED
      BY <1>1, <1>3, <3>2, <3>3 DEF CallOnce
  <2>2. CASE ~Launching(c)
    BY <1>1, <1>3, <2>2 DEF CallOnce, Launching, HasRead
  <2>3. QED
    BY <2>1, <2>2
<1>4. CASE call'[c] = NoCall
  BY <1>4 DEF CallOnce, HasRead, NoCall
<1>5. CASE call'[c].pc = "lock" /\ call'[c].op \in Ops
  BY <1>5 DEF CallOnce, HasRead
<1>6. CASE CallStep(c)
  <2>1. call[c].pc # "idle"
    BY <1>6 DEF CallStep, Acquire, FindKey, CreateJob, LaunchNew, ReadJob, CheckCancel, CancelTask,
       CheckResume, ReadRows, ResetJob, LaunchResumed
  <2>2. PICK j \in Jobs : j = call[c].job /\ call[c] \in Call
    BY <2>1, CallTypes DEF TypeOK
  <2>3. \A r : SetCall(c, r) => call'[c] = r
    BY DEF SetCall, TypeOK
  <2>5. ASSUME NEW p \in {"read", "check", "insert", "launch", "rows", "save", "join"},
               call'[c] = [call[c] EXCEPT !.pc = p],
               p = "launch" => 0 \notin Filled(j)',
               p = "save" => call[c].op = "cancel"
        PROVE  CallOnce(c)'
    <3>1. call'[c].pc = p /\ call'[c].op = call[c].op /\ call'[c].job = j
      BY <2>1, <2>2, <2>5 DEF Call, NoCall
    <3>2. QED
      BY <1>1, <2>5, <3>1 DEF CallOnce, HasRead
  <2>6. CASE Acquire(c) \/ FindKey(c) \/ LaunchNew(c) \/ LaunchResumed(c) \/ CheckResume(c)
             \/ CheckCancel(c) \/ CancelTask(c)
    <3>1. call'[c] = NoCall \/ \E p \in {"read", "insert", "rows", "save", "join"} :
             call'[c] = [call[c] EXCEPT !.pc = p] /\ (p = "save" => call[c].op = "cancel")
      BY <2>3, <2>6 DEF Acquire, FindKey, LaunchNew, LaunchResumed, CheckResume, CheckCancel,
         CancelTask, Respond
    <3>2. QED
      BY <1>4, <2>5, <3>1
  <2>7. CASE CreateJob(c)
    <3>1. CASE call'[c] = NoCall
      BY <1>4, <3>1
    <3>2. CASE KeyHolders(j) = {} /\ call'[c] = [call[c] EXCEPT !.pc = "launch"]
      <4>1. repo[j] = NoJob
        BY <3>2 DEF KeyHolders
      <4>2. run[j].pc = "idle"
        BY <4>1 DEF KnownJobs, RunKnown, MemKnown
      <4>3. Still(wk[j])
        BY <4>2 DEF LockInv, Exclusive, TasksCover, Still
      <4>4. repo[j].completed \notin Filled(j)
        BY <4>3, StillCounts DEF OnceInv, JobOnce, Counts
      <4>5. 0 \notin Filled(j)
        BY <4>1, <4>4 DEF NoJob
      <4>6. Filled(j)' = Filled(j)
        BY <2>7 DEF CreateJob, Filled
      <4>7. QED
        BY <2>5, <3>2, <4>5, <4>6
    <3>3. QED
      BY <2>2, <2>3, <2>7, <3>1, <3>2 DEF CreateJob, Respond
  <2>8. CASE ReadJob(c)
    <3>1. call'[c] = [call[c] EXCEPT !.pc = "check", !.seen = repo[call[c].job]]
      BY <2>3, <2>8 DEF ReadJob
    <3>2. call'[c].pc = "check" /\ call'[c].op = call[c].op
      BY <2>1, <2>2, <3>1 DEF Call, NoCall
    <3>3. QED
      BY <1>1, <3>2 DEF CallOnce, HasRead
  <2>9. CASE ReadRows(c)
    <3> DEFINE n == Cardinality(Filled(j))
    <3>1. call[c].pc = "rows" /\ Filled(j)' = Filled(j)
          /\ \E e : call'[c] = [call[c] EXCEPT !.pc = "build", !.done = e, !.seen.completed = n]
      BY <2>2, <2>3, <2>9 DEF ReadRows, Filled
    <3>2. call[c].seen \in StoredJob
      BY <2>1, CallTypes
    <3>3. n \notin Filled(j)
      BY LogEnds DEF ResultsInv
    <3> HIDE DEF n
    <3>4. /\ call'[c].pc = "build" /\ call'[c].op = call[c].op /\ call'[c].job = j
          /\ call'[c].seen.completed = n
      BY <2>1, <2>2, <3>1, <3>2 DEF Call, NoCall, StoredJob
    <3>5. QED
      BY <1>1, <3>1, <3>3, <3>4 DEF CallOnce
  <2>10. CASE ResetJob(c)
    <3> DEFINE n == call[c].seen.completed
               stored == [Fresh(j) EXCEPT !.completed = n]
    <3>1. call[c].pc = "build" /\ call'[c] = [call[c] EXCEPT !.pc = "save", !.seen = stored]
          /\ Filled(j)' = Filled(j)
      BY <2>2, <2>3, <2>10 DEF ResetJob, Filled
    <3>2. n \notin Filled(j)
      BY <1>1, <2>2, <3>1 DEF CallOnce, HasRead
    <3>3. stored.completed = n
      BY DEF Fresh, NoJob
    <3> HIDE DEF stored, n
    <3>4. /\ call'[c].pc = "save" /\ call'[c].op = call[c].op /\ call'[c].job = j
          /\ call'[c].seen = stored
      BY <2>1, <2>2, <3>1 DEF Call, NoCall
    <3>5. QED
      BY <1>1, <3>1, <3>2, <3>3, <3>4 DEF CallOnce
  <2>11. QED
    BY <1>6, <2>6, <2>7, <2>8, <2>9, <2>10 DEF CallStep
<1>7. MaxStops = 0
  BY DEF OneInterruption
<1>8. QED
  BY <1>3, <1>4, <1>5, <1>6, <1>7, CallsOfStep

-----------------------------------------------------------------------------
(* Who waits for the cancelled task *)

LEMMA JoinedStays ==
    ASSUME OneInterruption, "cancel" \in Ops, TypeOK, OwnersInv, Calm, OnceInv, [Next]_vars,
           NEW j \in Jobs, run'[j].cause # {}
    PROVE  Joined(j)'
<1>1. MaxStops = 0 /\ ~Timed /\ stray = {}
  BY DEF OneInterruption, OnceInv
<1>2. ~Finish(j)
  BY DEF Finish, TypeOK, Idle
<1>3. CASE run[j].cause # {}
  <2>1. PICK c \in Threads : call[c].pc = "join" /\ call[c].job = j
    BY <1>3 DEF OnceInv, Joined
  <2>2. ~CallStep(c)
    BY <2>1 DEF CallStep, Acquire, FindKey, CreateJob, LaunchNew, ReadJob, CheckCancel, CancelTask,
       CheckResume, ReadRows, ResetJob, LaunchResumed
  <2>3. call'[c] = call[c]
    BY <1>1, <1>2, <2>1, <2>2, CallsOfStep
  <2>4. QED
    BY <2>1, <2>3 DEF Joined
<1>4. CASE run[j].cause = {}
  <2>1. run'[j].cause # run[j].cause
    BY <1>4
  <2>2. ASSUME NEW o \in OpsOf(j, db), OpStep(o) PROVE FALSE
    BY <2>1, <2>2 DEF OpStep, StartOp, ApplyUpdate, ApplyAppend
  <2>3. ~TaskStepOf(j)
    BY <1>2, <2>1, TaskEnds
  <2>4. ASSUME NEW w \in Workers, WorkStep(j, w) PROVE FALSE
    BY <2>1, <2>4, WorkerRun DEF WorkStep
  <2>5. ~Deadline(j) /\ ~Same(j)
    BY <1>1, <2>1 DEF Deadline, Same
  <2>6. PICK c \in Callers : call[c].job = j /\ CallStep(c)
    BY <1>1, <2>2, <2>3, <2>4, <2>5, StepOnJob
  <2>7. c \in Threads
    BY DEF Threads
  <2>8. ~LaunchNew(c) /\ ~LaunchResumed(c)
    <3>1. SUFFICES ASSUME NEW v, NEW l, Launch(j, v, l) PROVE FALSE
      BY <2>6 DEF LaunchNew, LaunchResumed
    <3>2. run'[j] = [Idle EXCEPT !.pc = "sem", !.left = l]
      BY <3>1 DEF Launch, TypeOK
    <3>3. QED
      BY <3>2 DEF Idle
  <2>9. CancelTask(c)
    BY <2>1, <2>6, <2>8 DEF CallStep, Acquire, FindKey, CreateJob, ReadJob, CheckCancel, CheckResume,
       ReadRows, ResetJob
  <2>10. call'[c] = [call[c] EXCEPT !.pc = "join"]
    BY <2>1, <2>7, <2>9 DEF CancelTask, SetCall, TypeOK
  <2>11. call[c] \in Call /\ call[c].pc # "idle"
    BY <2>7, <2>9 DEF TypeOK, CancelTask
  <2>12. call'[c].pc = "join" /\ call'[c].job = j
    BY <2>6, <2>10, <2>11 DEF Call, NoCall
  <2>13. QED
    BY <2>7, <2>12 DEF Joined
<1>5. QED
  BY <1>3, <1>4

LEMMA StrayOnce ==
    ASSUME TypeOK, Calm, OnceInv, MaxStops = 0, [Next]_vars
    PROVE  stray' = {}
<1>1. stray = {}
  BY DEF OnceInv
<1>2. CASE UNCHANGED vars \/ Strays
  BY <1>1, <1>2 DEF vars, Strays
<1>3. CASE Storage
  BY <1>1, <1>3 DEF Storage, StartOp, ApplyUpdate, ApplyAppend
<1>4. CASE RunTasks
  <2>1. PICK j \in Jobs : TaskStepOf(j)
    BY <1>4 DEF RunTasks, TaskStepOf
  <2>2. ~(run[j].intr /\ run[j].block = "cancel")
    BY DEF OnceInv, JobOnce, RunOnce
  <2>3. QED
    BY <1>1, <2>1, <2>2 DEF TaskStepOf, StartJob, StartWorkers, Gathered, Drain, Drained,
       Executed, Saved, Post, Posted, Interrupt, InterruptGather
<1>5. CASE WorkerTasks
  <2>1. PICK j \in Jobs, w \in Workers : WorkStep(j, w)
    BY <1>5 DEF WorkerTasks, WorkStep
  <2>2. QED
    BY <1>1, <2>1 DEF WorkStep, Take, Collected, Persist, Appended, Counted, Duplicate, Die
<1>6. CASE Clients
  BY <1>1, <1>6 DEF Clients, Request, PollJob, PollRows
<1>7. ASSUME NEW c \in Callers, CallStep(c) PROVE stray' = {}
  BY <1>1, <1>7 DEF CallStep, Acquire, FindKey, CreateJob, LaunchNew, ReadJob, CheckCancel,
     CancelTask, CheckResume, ReadRows, ResetJob, LaunchResumed
<1>8. ASSUME NEW j \in Jobs, Deadline(j) PROVE stray' = {}
  BY <1>1, <1>8 DEF Deadline
<1>9. QED
  BY <1>2, <1>3, <1>4, <1>5, <1>6, <1>7, <1>8, CalmStep

LEMMA OnceStep ==
    ASSUME OneInterruption, TypeOK, KnownJobs, LockInv, OwnersInv, ResultsInv, Calm, OnceInv,
           [Next]_vars
    PROVE  OnceInv'
<1>1. MaxStops = 0 /\ ~LateWrites /\ stray = {} /\ Callers \subseteq Threads
  BY DEF OneInterruption, OnceInv, Threads
<1>2. stray' = {}
  BY <1>1, StrayOnce
<1>3. \A c \in Threads : CallOnce(c)'
  BY CallsOnce
<1>4. ASSUME NEW j \in Jobs
      PROVE  JobOnce(j, run'[j], mem'[j], repo'[j], wk'[j], OpsOf(j, db'), Filled(j)')
  <2>1. \/ Same(j)
        \/ \E o \in OpsOf(j, db) : OpStep(o)
        \/ TaskStepOf(j) \/ \E w \in Workers : WorkStep(j, w)
        \/ \E c \in Callers : call[c].job = j /\ CallStep(c)
        \/ Deadline(j)
    BY <1>1, StepOnJob
  <2>2. CASE Same(j)
    <3>1. Filled(j)' = Filled(j)
      BY <2>2 DEF Same, Filled
    <3>2. JobOnce(j, run[j], mem[j], repo[j], wk[j], OpsOf(j, db), Filled(j))
      BY DEF OnceInv
    <3>3. QED
      BY <2>2, <3>1, <3>2 DEF Same
  <2>3. CASE \E o \in OpsOf(j, db) : OpStep(o)
    BY <1>1, <2>3, OpStepOnce
  <2>4. CASE TaskStepOf(j)
    BY <2>4, TaskStepOnce
  <2>5. CASE \E w \in Workers : WorkStep(j, w)
    BY <2>5, WorkStepOnce
  <2>6. CASE \E c \in Callers : call[c].job = j /\ CallStep(c)
    BY <2>6, CallStepOnce
  <2>7. CASE Deadline(j)
    BY <2>7, DeadlineOnce
  <2>8. QED
    BY <2>1, <2>2, <2>3, <2>4, <2>5, <2>6, <2>7
<1>5. ASSUME NEW j \in Jobs, "cancel" \in Ops, run'[j].cause # {}
      PROVE  Joined(j)'
  BY <1>5, JoinedStays
<1>6. \A j \in Jobs :
         JobOnce(j, run[j], mem[j], repo[j], wk[j], OpsOf(j, db), Filled(j))'
  BY <1>4 DEF JobOnce, RunOnce, OpsOnce, Counts, Landed, Counting, Awaiting, Sends
<1>7. QED
  BY <1>2, <1>3, <1>5, <1>6 DEF OnceInv

\* A count that covers stored results only, and is none of their sequence
\* numbers, is the number of the results.
LEMMA ExactCount ==
    ASSUME NEW j, RowsLog(j), NEW n \in Nat, Covered(j, n), n \notin Filled(j)
    PROVE  n = Cardinality(Filled(j))
<1> DEFINE k == Cardinality(Filled(j))
<1>1. k \in Nat
  BY FilledFinite
<1>2. Covered(j, k) /\ k \notin Filled(j)
  BY LogSize, LogEnds
<1> HIDE DEF k
<1>3. ~(n < k) /\ ~(k < n)
  BY <1>1, <1>2 DEF Covered
<1>4. n = k
  BY <1>1, <1>3
<1>5. QED
  BY <1>4 DEF k

LEMMA OnceStarts ==
    ASSUME Init
    PROVE  OnceInv
<1>1. ASSUME NEW j \in Jobs
      PROVE  JobOnce(j, run[j], mem[j], repo[j], wk[j], OpsOf(j, db), Filled(j))
  <2>1. /\ run[j] = Idle /\ mem[j] = NoJob /\ repo[j] = NoJob /\ OpsOf(j, db) = {}
        /\ wk[j] = [w \in Workers |-> Off]
    BY <1>1 DEF Init, OpsOf
  <2>2. Filled(j) = {}
    BY DEF Init, Filled
  <2>3. \A w \in Workers : wk[j][w].pc = "off" /\ ~wk[j][w].bare
    BY <2>1 DEF Off
  <2>4. RunOnce(run[j], wk[j])
    BY <2>1, <2>3 DEF RunOnce, Idle
  <2>5. OpsOnce(j, run[j], wk[j], OpsOf(j, db))
    BY <2>1, <2>3 DEF OpsOnce, Idle
  <2>6. Counts(j, Filled(j), mem[j], repo[j], wk[j], OpsOf(j, db))
    BY <2>1, <2>2, <2>3 DEF Counts, Landed
  <2>7. QED
    BY <2>4, <2>5, <2>6 DEF JobOnce
<1>2. \A c \in Threads : CallOnce(c)
  BY DEF Init, CallOnce, HasRead, NoCall
<1>3. \A j \in Jobs : run[j].cause = {}
  BY DEF Init, Idle
<1>4. QED
  BY <1>1, <1>2, <1>3 DEF OnceInv, Init

LEMMA OnceAlways ==
    ASSUME OneInterruption
    PROVE  Spec => []OnceInv
<1>1. MaxStops = 0
  BY DEF OneInterruption
<1>2. Spec => []Calm
  BY <1>1, AlwaysCalm
<1>3. Init => OnceInv
  BY OnceStarts
<1>4. TypeOK /\ KnownJobs /\ LockInv /\ OwnersInv /\ ResultsInv /\ Calm /\ OnceInv /\ [Next]_vars
         => OnceInv'
  BY OnceStep
<1>5. QED
  BY <1>2, <1>3, <1>4, TypeCorrect, JobsKnown, LockAgrees, UpdatesOwned, ResultsAgree, PTL DEF Spec

\* When a run is interrupted at most once, the progress that is stored once
\* nothing is in flight counts the results exactly: the write task that a
\* worker shields finishes the update of an append it has made
\* (job_service.py:449-465, docs/API.md:442-443).
THEOREM ProgressExact ==
    ASSUME OneInterruption
    PROVE  Spec => []ProgressAgrees
<1>1. TypeOK /\ LockInv /\ ResultsInv /\ OnceInv => ProgressAgrees
  <2>1. SUFFICES ASSUME TypeOK, LockInv, ResultsInv, OnceInv, NEW j \in Jobs, AtRest(j)
                 PROVE  repo[j].completed = Cardinality(Filled(j))
    BY DEF ProgressAgrees
  <2>2. Still(wk[j])
    BY <2>1 DEF AtRest, LockInv, Exclusive, TasksCover, Still
  <2>3. repo[j].completed \notin Filled(j)
    BY <2>1, <2>2, StillCounts DEF OnceInv, JobOnce, Counts
  <2>4. repo[j].completed \in Nat /\ Covered(j, repo[j].completed) /\ RowsLog(j)
    BY <2>1 DEF TypeOK, StoredJob, ResultsInv, Sound
  <2>5. QED
    BY <2>3, <2>4, ExactCount
<1>2. Spec => []OnceInv
  BY OnceAlways
<1>3. QED
  BY <1>1, <1>2, TypeCorrect, LockAgrees, ResultsAgree, PTL

-----------------------------------------------------------------------------
(***************************************************************************)
(* An answered cancellation.  The job of a call that was answered has no   *)
(* task, is stored, so that no submission creates it, and no call is about *)
(* to launch it; a job without a task has no append in flight.             *)
(***************************************************************************)

AckedJob(j) ==
    /\ run[j].pc = "idle" /\ repo[j] # NoJob
    /\ \A c \in Threads : ~(call[c].pc = "launch" /\ call[c].job = j)

AckedInv == \A j \in acked : AckedJob(j)

LEMMA DocumentStays ==
    ASSUME TypeOK, KnownJobs, Calm, [Next]_vars, NEW j \in Jobs, repo[j] # NoJob
    PROVE  repo'[j] # NoJob
<1>1. CASE UNCHANGED repo
  BY <1>1
<1>2. ASSUME NEW o \in db, ApplyUpdate(o)
      PROVE  repo'[j] # NoJob
  <2>1. o.val.status # "absent" /\ repo' = [repo EXCEPT ![o.job] = o.val]
    BY <1>2 DEF ApplyUpdate, KnownJobs, OpsKnown, OpKnown
  <2>2. repo'[j] = repo[j] \/ repo'[j] = o.val
    BY <2>1 DEF TypeOK
  <2>3. QED
    BY <2>1, <2>2 DEF NoJob
<1>3. ASSUME NEW c \in Threads, CreateJob(c)
      PROVE  repo'[j] # NoJob
  <2>1. repo'[j] = repo[j] \/ repo'[j] = Fresh(j)
    BY <1>3 DEF CreateJob, TypeOK
  <2>2. Fresh(j).status = "queued" /\ NoJob.status = "absent"
    BY DEF Fresh, NoJob
  <2>3. QED
    BY <2>1, <2>2
<1>4. ~Recover
  BY DEF Recover, Calm
<1>5. QED
  BY <1>1, <1>2, <1>3, <1>4, WhoWritesRepo

\* A job without a task has none of its steps.
LEMMA IdleTask ==
    ASSUME LockInv, NEW j \in Jobs, run[j].pc = "idle"
    PROVE  /\ ~TaskStepOf(j) /\ ~Deadline(j)
           /\ \A w \in Workers : ~WorkStep(j, w)
<1>1. ~Interrupt(j)
  BY DEF Interrupt
<1>2. ~TaskStepOf(j) /\ ~Deadline(j)
  BY <1>1 DEF TaskStepOf, StartJob, StartWorkers, Gathered, Drain, Drained, Executed, Saved, Post,
     Posted, InterruptGather, Deadline
<1>3. \A w \in Workers : wk[j][w].pc = "off"
  BY DEF LockInv, Exclusive, TasksCover
<1>4. QED
  BY <1>2, <1>3 DEF WorkStep, Take, Collected, Persist, Appended, Counted, Duplicate, Die

\* Only create_job makes a call that launches, of a job that was not stored.
LEMMA WhoLaunches ==
    ASSUME TypeOK, NEW c \in Threads, CallStep(c), call'[c].pc = "launch"
    PROVE  /\ call'[c].job = call[c].job
           /\ call[c].job \in Jobs /\ repo[call[c].job] = NoJob
<1>1. call[c].pc # "idle" /\ call[c].pc # "launch"
  BY DEF CallStep, Acquire, FindKey, CreateJob, LaunchNew, ReadJob, CheckCancel, CancelTask,
     CheckResume, ReadRows, ResetJob, LaunchResumed, Respond, SetCall, NoCall, TypeOK
<1>2. PICK j \in Jobs : j = call[c].job /\ call[c] \in Call
  BY <1>1, CallTypes DEF TypeOK
<1>3. \A r : SetCall(c, r) => call'[c] = r
  BY DEF SetCall, TypeOK
<1>4. \A p : p # "launch" => call'[c] # [call[c] EXCEPT !.pc = p]
  BY <1>1, <1>2 DEF Call, NoCall
<1>5. call'[c] # NoCall
  BY DEF NoCall
<1>6. ASSUME NEW p, NEW v, NEW e, call'[c] = [call[c] EXCEPT !.pc = p, !.seen = v]
                                  \/ call'[c] = [call[c] EXCEPT !.pc = p, !.done = e, !.seen = v],
             p # "launch"
      PROVE  FALSE
  BY <1>1, <1>2, <1>6 DEF Call, NoCall
<1>7. CreateJob(c)
  <2>1. ~Acquire(c) /\ ~FindKey(c) /\ ~LaunchNew(c) /\ ~LaunchResumed(c) /\ ~CheckCancel(c)
        /\ ~CancelTask(c) /\ ~CheckResume(c)
    BY <1>3, <1>4, <1>5 DEF Acquire, FindKey, LaunchNew, LaunchResumed, CheckCancel, CancelTask,
       CheckResume, Respond
  <2>2. ~ReadJob(c)
    BY <1>3, <1>6 DEF ReadJob
  <2>3. ~ReadRows(c)
    <3>1. SUFFICES ASSUME ReadRows(c) PROVE FALSE
      OBVIOUS
    <3>2. \E e, n : call'[c] = [call[c] EXCEPT !.pc = "build", !.done = e, !.seen.completed = n]
      BY <1>3, <3>1 DEF ReadRows
    <3>3. call'[c].pc = "build"
      BY <1>1, <1>2, <3>2 DEF Call, NoCall
    <3>4. QED
      BY <3>3
  <2>4. ~ResetJob(c)
    <3>1. SUFFICES ASSUME ResetJob(c) PROVE FALSE
      OBVIOUS
    <3>2. \E v : call'[c] = [call[c] EXCEPT !.pc = "save", !.seen = v]
      BY <1>3, <3>1 DEF ResetJob
    <3>3. QED
      BY <1>6, <3>2
  <2>5. QED
    BY <2>1, <2>2, <2>3, <2>4 DEF CallStep
<1>8. KeyHolders(j) = {} /\ call'[c] = [call[c] EXCEPT !.pc = "launch"]
  BY <1>2, <1>3, <1>5, <1>7 DEF CreateJob, Respond
<1>9. call'[c].job = j
  BY <1>1, <1>2, <1>8 DEF Call, NoCall
<1>10. repo[j] = NoJob
  BY <1>8 DEF KeyHolders
<1>11. QED
  BY <1>2, <1>9, <1>10

\* A job whose cancellation is answered by this step: the task ends, or the
\* call finds none.
LEMMA NewlyAcked ==
    ASSUME MaxStops = 0, TypeOK, KnownJobs, LockInv, Calm, [Next]_vars,
           NEW j \in acked', j \notin acked
    PROVE  /\ j \in Jobs /\ run'[j].pc = "idle" /\ repo[j] # NoJob
           /\ \A c \in Threads : ~(call'[c].pc = "launch" /\ call'[c].job = j)
<1>1. CASE Storage \/ Strays \/ Clients \/ UNCHANGED vars \/ \E k \in Jobs : Deadline(k)
  BY <1>1 DEF Storage, StartOp, ApplyUpdate, ApplyAppend, Strays, StrayPost, Clients, Request,
     PollJob, PollRows, vars, Deadline
<1>2. ~WorkerTasks
  <2>1. SUFFICES ASSUME NEW k \in Jobs, NEW w \in Workers, WorkStep(k, w)
                 PROVE  FALSE
    BY DEF WorkerTasks, WorkStep
  <2>2. QED
    BY <2>1 DEF WorkStep, Take, Collected, Persist, Appended, Counted, Duplicate, Die
<1>3. CASE RunTasks
  <2>1. PICK k \in Jobs : TaskStepOf(k)
    BY <1>3 DEF RunTasks, TaskStepOf
  <2>2. Finish(k)
    BY <2>1, TaskEnds
  <2>3. k = j /\ run'[k] = Idle
    BY <2>2 DEF Finish, TypeOK
  <2>4. run[j].pc # "idle"
    BY <2>1, <2>3, IdleTask
  <2>5. repo[j] # NoJob
    BY <2>3, <2>4 DEF KnownJobs, RunKnown, MemKnown
  <2>6. \A c \in Threads : ~(call[c].pc = "launch" /\ call[c].job = j)
    BY <2>4 DEF LockInv, Exclusive, LaunchesAlone, Launching
  <2>7. \A c \in Threads : call'[c] = call[c] \/ call'[c] = NoCall
    BY <2>2 DEF Finish
  <2>8. QED
    BY <2>3, <2>5, <2>6, <2>7 DEF Idle, NoCall
<1>4. ASSUME NEW c \in Callers, CallStep(c)
      PROVE  /\ j \in Jobs /\ run'[j].pc = "idle" /\ repo[j] # NoJob
             /\ \A d \in Threads : ~(call'[d].pc = "launch" /\ call'[d].job = j)
  <2>1. c \in Threads
    BY DEF Threads
  <2>2. CancelTask(c)
    BY <1>4 DEF CallStep, Acquire, FindKey, CreateJob, LaunchNew, ReadJob, CheckCancel, CheckResume,
       ReadRows, ResetJob, LaunchResumed
  <2>3. /\ j = call[c].job /\ run[j].pc = "idle" /\ UNCHANGED run /\ SetCall(c, NoCall)
        /\ call[c].op = "cancel" /\ call[c].pc = "save"
    BY <2>2 DEF CancelTask
  <2>4. j \in Jobs /\ repo[j] # NoJob
    BY <2>1, <2>3, CallTypes DEF KnownJobs, CallsKnown, CallKnown
  <2>5. ASSUME NEW d \in Threads, call'[d].pc = "launch"
        PROVE  FALSE
    <3>1. d # c /\ call'[d] = call[d]
      BY <2>1, <2>3, <2>5 DEF SetCall, TypeOK, NoCall
    <3>2. lock = d /\ lock = c
      BY <2>1, <2>3, <2>5, <3>1 DEF LockInv, Exclusive, CallsLocked
    <3>3. QED
      BY <3>1, <3>2
  <2>6. QED
    BY <2>3, <2>4, <2>5
<1>5. QED
  BY <1>1, <1>2, <1>3, <1>4, CalmStep

LEMMA AckedStep ==
    ASSUME MaxStops = 0, TypeOK, KnownJobs, LockInv, OwnersInv, Calm, stray = {}, AckedInv,
           [Next]_vars
    PROVE  AckedInv'
<1> SUFFICES ASSUME NEW j \in acked'
             PROVE  AckedJob(j)'
  BY DEF AckedInv
<1>1. CASE j \notin acked
  <2>1. /\ j \in Jobs /\ run'[j].pc = "idle" /\ repo[j] # NoJob
        /\ \A c \in Threads : ~(call'[c].pc = "launch" /\ call'[c].job = j)
    BY <1>1, NewlyAcked
  <2>2. repo'[j] # NoJob
    BY <2>1, DocumentStays
  <2>3. QED
    BY <2>1, <2>2 DEF AckedJob
<1>2. CASE j \in acked
  <2>1. j \in Jobs /\ AckedJob(j) /\ run[j].pc = "idle" /\ repo[j] # NoJob
    BY <1>2 DEF TypeOK, AckedInv, AckedJob
  <2>2. repo'[j] # NoJob
    BY <2>1, DocumentStays
  <2>3. run'[j].pc = "idle"
    <3>1. CASE Same(j) \/ \E o \in OpsOf(j, db) : OpStep(o)
      BY <2>1, <3>1 DEF Same, OpStep, StartOp, ApplyUpdate, ApplyAppend
    <3>2. ASSUME NEW c \in Callers, call[c].job = j, CallStep(c)
          PROVE  run'[j] = run[j]
      <4>1. c \in Threads /\ c # Boot
        BY NamesAssumption DEF Threads
      <4>2. ~LaunchNew(c)
        BY <2>1, <3>2, <4>1 DEF LaunchNew, AckedJob
      <4>3. ~LaunchResumed(c)
        BY <3>2, <4>1 DEF LaunchResumed
      <4>4. QED
        BY <2>1, <3>2, <4>2, <4>3 DEF CallStep, Acquire, FindKey, CreateJob, ReadJob, CheckCancel,
           CancelTask, CheckResume, ReadRows, ResetJob
    <3>3. QED
      BY <2>1, <3>1, <3>2, IdleTask, StepOnJob
  <2>4. ASSUME NEW c \in Threads, call'[c].pc = "launch", call'[c].job = j
        PROVE  FALSE
    <3>1. CASE call'[c] = call[c]
      BY <2>1, <2>4, <3>1 DEF AckedJob
    <3>2. CASE CallStep(c)
      BY <2>1, <2>4, <3>2, WhoLaunches
    <3>3. QED
      BY <2>4, <3>1, <3>2, CallsOfStep DEF NoCall
  <2>5. QED
    BY <2>2, <2>3, <2>4 DEF AckedJob
<1>3. QED
  BY <1>1, <1>2

\* The answer to a cancellation is final: the job has no task, and no result
\* is stored for it, until a client resumes it (cancel gathers the task,
\* job_service.py:281-305, which has awaited its write tasks).
THEOREM CancellationHolds ==
    ASSUME OneInterruption
    PROVE  Spec => AckedIsFrozen
<1>1. Init => AckedInv
  BY DEF Init, AckedInv
<1>2. MaxStops = 0
  BY DEF OneInterruption
<1>3. TypeOK /\ KnownJobs /\ LockInv /\ OwnersInv /\ Calm /\ OnceInv /\ AckedInv /\ [Next]_vars
         => AckedInv'
  BY <1>2, AckedStep DEF OnceInv
<1>4. TypeOK /\ LockInv /\ ResultsInv /\ OnceInv /\ AckedInv /\ AckedInv' /\ [Next]_vars
         => [\A j \in acked \intersect acked' : run'[j].pc = "idle" /\ rows'[j] = rows[j]]_vars
  <2>1. SUFFICES ASSUME TypeOK, LockInv, ResultsInv, OnceInv, AckedInv, AckedInv', [Next]_vars,
                        NEW j \in acked \intersect acked'
                 PROVE  run'[j].pc = "idle" /\ rows'[j] = rows[j]
    OBVIOUS
  <2>2. j \in Jobs /\ run[j].pc = "idle" /\ run'[j].pc = "idle"
    BY <2>1 DEF TypeOK, AckedInv, AckedJob
  <2>3. run[j].pc \notin Gathering
    BY <2>2 DEF Gathering
  <2>4. QED
    BY <2>1, <2>2, <2>3, StoresRunning
<1>5. Spec => []Calm
  BY <1>2, AlwaysCalm
<1>6. Spec => []OnceInv
  BY OnceAlways
<1>7. QED
  BY <1>1, <1>3, <1>4, <1>5, <1>6, TypeCorrect, JobsKnown, LockAgrees, UpdatesOwned, ResultsAgree, PTL
     DEF Spec, AckedIsFrozen

-----------------------------------------------------------------------------
(***************************************************************************)
(* The consumer.  Without cancellations a job that anybody may read as     *)
(* ended stores no more results until it is resumed, and what is counted   *)
(* is then all there is.                                                   *)
(***************************************************************************)

EndsOnce == OneInterruption /\ "cancel" \notin Ops

\* A run r whose job is ended in memory, in the store, or in a write that is
\* on its way there, stores no more results.
JobEnds(r, m, v, us) ==
    /\ v # NoJob => v.status # "absent"
    /\ \/ m.status \in Ended \/ v.status \in Ended
       \/ \E o \in us : o.kind = "update" /\ o.stage = "started" /\ o.val.status \in Ended
       => r.pc \in LateOnes

\* A run is launched with a queued document, and no other write in flight.
CallEnds(c, j) ==
    /\ call[c].pc = "launch" => repo[j].status = "queued"
    /\ call[c].pc \in {"launch", "build"} => OpsOf(j, db) = {}
    /\ call[c].pc \in {"rows", "build", "save"} => call[c].op = "resume"
    /\ call[c].pc = "save" =>
         /\ call[c].seen.status = "queued"
         /\ \A o \in OpsOf(j, db) : /\ o.own = c /\ o.live /\ o.stage = "started"
                                    /\ o.val.status = "queued"
         /\ OpsOf(j, db) = {} => repo[j].status = "queued"

\* The job j has no run that stores results, and gets none.
Frozen(j) ==
    /\ run[j].pc \in LateOnes /\ repo[j] # NoJob
    /\ \A c \in Threads : call[c].job = j => call[c].op # "resume" /\ call[c].pc # "launch"

ReadsEnd(j) ==
    /\ reader[j].pc = "page" /\ reader[j].seen.status \notin Open =>
          Frozen(j) /\ reader[j].seen.completed \notin Filled(j)
    /\ reader[j].closed => Frozen(j) /\ \A n \in Filled(j) : n < reader[j].offset
    /\ reader[j].pc = "page" =>
          repo[j] # NoJob /\ \A c \in Threads : call[c].job = j => call[c].op # "resume"

ReaderInv ==
    /\ \A j \in Jobs : JobEnds(run[j], mem[j], repo[j], OpsOf(j, db)) /\ ReadsEnd(j)
    /\ \A c \in Threads : CallEnds(c, call[c].job)

\* A run that stores no more results is not started again but by a call.
LEMMA LateTask ==
    ASSUME TypeOK, NEW j \in Jobs, TaskStepOf(j)
    PROVE  \/ run'[j].pc \in LateOnes
           \/ /\ run[j].pc \notin LateOnes
              /\ StartJob(j) \/ StartWorkers(j) \/ Drain(j) \/ InterruptGather(j)
<1>1. ASSUME NEW b, NEW p \in {"save", "hook"}, Goto(j, b, p)
      PROVE  run'[j].pc \in LateOnes
  <2>1. run'[j] = [run[j] EXCEPT !.pc = p, !.block = b, !.attempt = 1, !.intr = FALSE]
    BY <1>1 DEF Goto, TypeOK
  <2>2. run[j] \in RunTask
    BY DEF TypeOK
  <2>3. run'[j].pc = p
    BY <2>1, <2>2 DEF RunTask
  <2>4. QED
    BY <2>3 DEF LateOnes
<1>2. ASSUME Finish(j)
      PROVE  run'[j].pc \in LateOnes
  BY <1>2 DEF Finish, TypeOK, Idle, LateOnes
<1>3. ASSUME NEW ops, CancelHandler(j, ops) \/ TimeoutHandler(j, ops)
      PROVE  run'[j].pc \in LateOnes
  <2>1. \E b : \E p \in {"save", "hook"} : Goto(j, b, p)
    BY <1>3 DEF CancelHandler, TimeoutHandler
  <2>2. QED
    BY <1>1, <2>1
<1>4. ASSUME NEW e, NEW ops, Leave(j, e, ops)
      PROVE  run'[j].pc \in LateOnes
  <2>1. \/ CancelHandler(j, ops) \/ TimeoutHandler(j, ops)
        \/ Goto(j, "body", "hook") \/ Finish(j)
    BY <1>4 DEF Leave
  <2>2. QED
    BY <1>1, <1>2, <1>3, <2>1
<1>5. CASE StartJob(j) \/ StartWorkers(j) \/ Drain(j) \/ InterruptGather(j)
  BY <1>5 DEF StartJob, StartWorkers, Drain, InterruptGather, LateOnes
<1>6. CASE Gathered(j) \/ Drained(j)
  BY <1>6, MovesOn DEF Gathered, Drained, LateOnes
<1>7. CASE Post(j)
  <2>1. \/ run'[j] = [run[j] EXCEPT !.pc = "hookSave"]
        \/ run'[j] = [run[j] EXCEPT !.attempt = run[j].attempt + 1]
    BY <1>7 DEF Post, TypeOK
  <2>2. run[j].pc = "hook" /\ run[j] \in RunTask
    BY <1>7 DEF Post, TypeOK
  <2>3. QED
    BY <2>1, <2>2 DEF RunTask, LateOnes
<1>8. CASE Executed(j)
  BY <1>4, <1>8 DEF Executed
<1>9. CASE Saved(j)
  BY <1>1, <1>2, <1>9 DEF Saved
<1>10. CASE Posted(j)
  BY <1>1, <1>2, <1>10 DEF Posted
<1>11. CASE Interrupt(j)
  <2>1. \/ Leave(j, "cancel", Abandon({j})) \/ CancelHandler(j, Abandon({j})) \/ Finish(j)
    BY <1>11 DEF Interrupt
  <2>2. QED
    BY <1>2, <1>3, <1>4, <2>1
<1>12. QED
  BY <1>5, <1>6, <1>7, <1>8, <1>9, <1>10, <1>11 DEF TaskStepOf

\* A call ends, or goes on for the same job.
LEMMA CallGoesOn ==
    ASSUME TypeOK, NEW c \in Threads, CallStep(c)
    PROVE  /\ call[c].pc \notin {"idle", "join"} /\ call[c].job \in Jobs /\ call[c] \in Call
           /\ \/ call'[c] = NoCall
              \/ call'[c].op = call[c].op /\ call'[c].job = call[c].job
<1>1. call[c].pc \notin {"idle", "join"}
  BY DEF CallStep, Acquire, FindKey, CreateJob, LaunchNew, ReadJob, CheckCancel, CancelTask,
     CheckResume, ReadRows, ResetJob, LaunchResumed
<1>2. call[c].job \in Jobs /\ call[c] \in Call
  BY <1>1, CallTypes DEF TypeOK
<1>3. \A r : SetCall(c, r) => call'[c] = r
  BY DEF SetCall, TypeOK
<1>4. ASSUME NEW p, NEW v, NEW e, NEW n,
             \/ call'[c] = [call[c] EXCEPT !.pc = p]
             \/ call'[c] = [call[c] EXCEPT !.pc = p, !.seen = v]
             \/ call'[c] = [call[c] EXCEPT !.pc = p, !.done = e, !.seen.completed = n]
      PROVE  call'[c].op = call[c].op /\ call'[c].job = call[c].job
  BY <1>1, <1>2, <1>4 DEF Call, NoCall
<1>5. CASE \/ Acquire(c) \/ FindKey(c) \/ CreateJob(c) \/ LaunchNew(c) \/ CheckCancel(c)
           \/ CancelTask(c) \/ CheckResume(c) \/ LaunchResumed(c)
  <2>1. call'[c] = NoCall \/ \E p : call'[c] = [call[c] EXCEPT !.pc = p]
    BY <1>3, <1>5 DEF Acquire, FindKey, CreateJob, LaunchNew, CheckCancel, CancelTask, CheckResume,
       LaunchResumed, Respond
  <2>2. QED
    BY <1>1, <1>2, <1>4, <2>1
<1>6. CASE ReadJob(c)
  <2>1. \E p, v : call'[c] = [call[c] EXCEPT !.pc = p, !.seen = v]
    BY <1>3, <1>6 DEF ReadJob
  <2>2. QED
    BY <1>1, <1>2, <1>4, <2>1
<1>7. CASE ResetJob(c)
  <2>1. \E p, v : call'[c] = [call[c] EXCEPT !.pc = p, !.seen = v]
    BY <1>3, <1>7 DEF ResetJob
  <2>2. QED
    BY <1>1, <1>2, <1>4, <2>1
<1>8. CASE ReadRows(c)
  <2>1. \E e, n : call'[c] = [call[c] EXCEPT !.pc = "build", !.done = e, !.seen.completed = n]
    BY <1>3, <1>8 DEF ReadRows
  <2>2. QED
    BY <1>1, <1>2, <1>4, <2>1
<1>9. QED
  BY <1>5, <1>6, <1>7, <1>8 DEF CallStep

\* While a call holds the lock no other one goes on.
LEMMA HolderAlone ==
    ASSUME LockInv, NEW c \in Threads, NEW d \in Threads, Past(c), CallStep(d)
    PROVE  d = c
<1>1. lock = c /\ c # NoProc
  BY NamesAssumption DEF LockInv, Exclusive, CallsLocked, Past
<1>2. call[d].pc \notin {"idle", "join"}
  BY DEF CallStep, Acquire, FindKey, CreateJob, LaunchNew, ReadJob, CheckCancel, CancelTask,
     CheckResume, ReadRows, ResetJob, LaunchResumed
<1>3. call[d].pc = "lock" => lock = NoProc
  BY DEF CallStep, Acquire, FindKey, CreateJob, LaunchNew, ReadJob, CheckCancel, CancelTask,
     CheckResume, ReadRows, ResetJob, LaunchResumed
<1>4. QED
  BY <1>1, <1>2, <1>3 DEF LockInv, Exclusive, CallsLocked

\* A call that has found the job without a task finds no write in flight
\* either.
LEMMA NothingInFlight ==
    ASSUME ~LateWrites, TypeOK, LockInv, OwnersInv, OnceInv, NEW c \in Threads, NEW j \in Jobs,
           call[c].job = j, call[c].pc = "rows", Settled(j)
    PROVE  OpsOf(j, db) = {}
<1>1. SUFFICES ASSUME NEW o \in db, o.job = j PROVE FALSE
  BY DEF OpsOf
<1>2. o \in Operation /\ OpOwned(o) /\ o.live /\ o.own # NoProc
  BY <1>1 DEF TypeOK, OwnersInv, Settled, OnceInv, JobOnce, OpsOnce, OpsOf
<1>3. run[j].pc = "idle" /\ lock = c
  BY DEF LockInv, Exclusive, LaunchesAlone, Launching, CallsLocked
<1>4. \A w \in Workers : wk[j][w].pc = "off"
  BY <1>3 DEF LockInv, Exclusive, TasksCover
<1>5. CASE o.kind = "append"
  BY <1>1, <1>2, <1>4, <1>5 DEF LockInv, Awaited, Held
<1>6. CASE o.kind = "update"
  <2>1. Awaits(o.own, j)
    BY <1>1, <1>2, <1>6 DEF OpOwned
  <2>2. o.own \in Threads /\ call[o.own].pc = "save"
    BY <1>2, <1>3, <1>4, <2>1 DEF Awaits
  <2>3. lock = o.own
    BY <2>2 DEF LockInv, Exclusive, CallsLocked
  <2>4. QED
    BY <1>3, <2>2, <2>3
<1>7. QED
  BY <1>2, <1>5, <1>6 DEF Operation

\* An operation on j that is started, or applied.
LEMMA OpEnds ==
    ASSUME TypeOK, KnownJobs, NEW j \in Jobs, NEW o \in OpsOf(j, db), OpStep(o),
           JobEnds(run[j], mem[j], repo[j], OpsOf(j, db))
    PROVE  JobEnds(run'[j], mem'[j], repo'[j], OpsOf(j, db'))
<1>1. o \in db /\ o.job = j /\ o \in Operation
  BY DEF OpsOf, TypeOK
<1>2. CASE StartOp(o)
  <2> DEFINE s == [o EXCEPT !.stage = "started",
                            !.val = IF o.kind = "update" THEN mem[o.job] ELSE @]
  <2>1. s.kind = o.kind /\ (s.kind = "update" => s.val = mem[j])
    BY <1>1 DEF Operation
  <2>2. db' = (db \ {o}) \union {s} /\ UNCHANGED <<repo, run, mem>>
    BY <1>2 DEF StartOp
  <2> HIDE DEF s
  <2>3. \A q \in OpsOf(j, db') : q \in OpsOf(j, db) \/ q = s
    BY <2>2 DEF OpsOf
  <2>4. QED
    BY <2>1, <2>2, <2>3 DEF JobEnds
<1>3. CASE ApplyUpdate(o)
  <2>1. /\ o.kind = "update" /\ o.stage = "started" /\ repo'[j] = o.val
        /\ db' = db \ {o} /\ UNCHANGED <<run, mem>>
    BY <1>1, <1>3 DEF ApplyUpdate, TypeOK
  <2>2. o.val.status # "absent"
    BY <1>1, <2>1 DEF KnownJobs, OpsKnown, OpKnown
  <2>3. \A q \in OpsOf(j, db') : q \in OpsOf(j, db)
    BY <2>1 DEF OpsOf
  <2>4. QED
    BY <2>1, <2>2, <2>3 DEF JobEnds
<1>4. CASE ApplyAppend(o)
  <2>1. db' = db \ {o} /\ UNCHANGED <<run, mem, repo>>
    BY <1>4 DEF ApplyAppend
  <2>2. \A q \in OpsOf(j, db') : q \in OpsOf(j, db)
    BY <2>1 DEF OpsOf
  <2>3. QED
    BY <2>1, <2>2 DEF JobEnds
<1>5. QED
  BY <1>2, <1>3, <1>4 DEF OpStep

\* Operations that were there before, given up or not.
LEMMA AbandonValues ==
    ASSUME TypeOK, NEW j \in Jobs, NEW S, NEW o \in OpsOf(j, Abandon(S))
    PROVE  \E q \in OpsOf(j, db) : o.kind = q.kind /\ o.stage = q.stage /\ o.val = q.val
<1>1. CASE o \in db
  BY <1>1 DEF OpsOf
<1>2. ASSUME NEW q \in db, o = [q EXCEPT !.live = FALSE]
      PROVE  \E p \in OpsOf(j, db) : o.kind = p.kind /\ o.stage = p.stage /\ o.val = p.val
  <2>1. /\ o.kind = q.kind /\ o.job = q.job /\ o.stage = q.stage /\ o.val = q.val
    BY <1>2 DEF TypeOK, Operation
  <2>2. q \in OpsOf(j, db)
    BY <2>1 DEF OpsOf
  <2>3. QED
    BY <2>1, <2>2
<1>3. QED
  BY <1>1, <1>2 DEF Abandon, OpsOf

\* A step of the run task of j.
LEMMA TaskStepEnds ==
    ASSUME TypeOK, NEW j \in Jobs, TaskStepOf(j),
           JobEnds(run[j], mem[j], repo[j], OpsOf(j, db))
    PROVE  JobEnds(run'[j], mem'[j], repo'[j], OpsOf(j, db'))
<1>1. repo' = repo
  BY DEF TaskStepOf, StartJob, StartWorkers, Gathered, Drain, Drained, Executed, Saved, Post, Posted,
     Interrupt, InterruptGather
<1>2. CASE run'[j].pc \in LateOnes
  BY <1>1, <1>2 DEF JobEnds
<1>3. CASE run[j].pc \notin LateOnes /\ StartJob(j)
  <2>1. mem'[j].status = "running" /\ db' = db \union {Update(j, j)}
    <3>1. mem'[j] = [mem[j] EXCEPT !.status = "running", !.error = "none"] /\ mem[j] \in StoredJob
      BY <1>3 DEF StartJob, TypeOK
    <3>2. QED
      BY <1>3, <3>1 DEF StoredJob, StartJob
  <2>2. Update(j, j).stage = "sent"
    BY DEF Update
  <2>3. \A o \in OpsOf(j, db') : o \in OpsOf(j, db) \/ o.stage = "sent"
    BY <2>1, <2>2 DEF OpsOf
  <2>4. QED
    BY <1>1, <1>3, <2>1, <2>3 DEF JobEnds, Ended
<1>4. CASE run[j].pc \notin LateOnes /\ (StartWorkers(j) \/ Drain(j) \/ InterruptGather(j))
  <2>1. mem' = mem
    BY <1>4 DEF StartWorkers, Drain, InterruptGather
  <2>2. db' = db \/ \E S : db' = Abandon(S)
    BY <1>4 DEF StartWorkers, Drain, InterruptGather, CancelWorkers
  <2>3. \A o \in OpsOf(j, db') :
           \E q \in OpsOf(j, db) : o.kind = q.kind /\ o.stage = q.stage /\ o.val = q.val
    BY <2>2, AbandonValues
  <2>4. QED
    BY <1>1, <1>4, <2>1, <2>3 DEF JobEnds
<1>5. QED
  BY <1>2, <1>3, <1>4, LateTask

\* A step of a worker of j.
LEMMA WorkStepEnds ==
    ASSUME TypeOK, NEW j \in Jobs, NEW w \in Workers, WorkStep(j, w),
           JobEnds(run[j], mem[j], repo[j], OpsOf(j, db))
    PROVE  /\ run'[j].pc = run[j].pc
           /\ JobEnds(run'[j], mem'[j], repo'[j], OpsOf(j, db'))
<1>1. run'[j].pc = run[j].pc
  BY WorkerRun DEF WorkStep
<1>2. repo' = repo
  BY DEF WorkStep, Take, Collected, Persist, Appended, Counted, Duplicate, Die
<1>3. mem'[j].status = mem[j].status
  <2>1. mem' = mem \/ mem'[j] = [mem[j] EXCEPT !.completed = @ + 1]
    BY DEF WorkStep, Take, Collected, Persist, Appended, Counted, Duplicate, Die, TypeOK
  <2>2. mem[j] \in StoredJob
    BY DEF TypeOK
  <2>3. QED
    BY <2>1, <2>2 DEF StoredJob
<1>4. \E o : o.stage = "sent" /\ (db' = db \/ db' = db \union {o})
  <2>1. \A n, i : Append(j, w, n, i).stage = "sent"
    BY DEF Append
  <2>2. Update(j, <<j, w>>).stage = "sent"
    BY DEF Update
  <2>3. \/ db' = db \/ \E n, i : db' = db \union {Append(j, w, n, i)}
        \/ db' = db \union {Update(j, <<j, w>>)}
    BY DEF WorkStep, Take, Collected, Persist, Appended, Counted, Duplicate, Die
  <2>4. QED
    BY <2>1, <2>2, <2>3
<1>5. \A o \in OpsOf(j, db') : o \in OpsOf(j, db) \/ o.stage = "sent"
  BY <1>4 DEF OpsOf
<1>6. QED
  BY <1>1, <1>2, <1>3, <1>5 DEF JobEnds

\* A step of a call on j.
LEMMA CallStepEnds ==
    ASSUME EndsOnce, TypeOK, LockInv, OwnersInv, OnceInv,
           NEW c \in Threads, NEW j \in Jobs, call[c].job = j, CallStep(c), CallEnds(c, j),
           JobEnds(run[j], mem[j], repo[j], OpsOf(j, db))
    PROVE  JobEnds(run'[j], mem'[j], repo'[j], OpsOf(j, db'))
<1>1. call[c].op # "cancel"
  BY DEF OnceInv, CallOnce, EndsOnce
<1>2. CASE Acquire(c) \/ FindKey(c) \/ ReadJob(c) \/ CheckResume(c) \/ ReadRows(c)
  BY <1>2 DEF Acquire, FindKey, ReadJob, CheckResume, ReadRows
<1>3. Fresh(j).status = "queued" /\ "queued" \notin Ended /\ NoJob.status = "absent"
  BY DEF Fresh, NoJob, Ended
<1>4. CASE CreateJob(c)
  <2>1. UNCHANGED <<run, mem, db>> /\ (repo' = repo \/ repo'[j] = Fresh(j))
    BY <1>4 DEF CreateJob, TypeOK
  <2>2. QED
    BY <1>3, <2>1 DEF JobEnds
<1>5. CASE LaunchNew(c)
  <2>1. /\ call[c].pc = "launch" /\ Launch(j, Fresh(j), Items)
        /\ UNCHANGED <<repo, db>>
    BY <1>5 DEF LaunchNew
  <2>2. repo[j].status = "queued" /\ OpsOf(j, db) = {}
    BY <2>1 DEF CallEnds
  <2>3. mem'[j] = Fresh(j)
    BY <2>1 DEF Launch, TypeOK
  <2>4. QED
    BY <1>3, <2>1, <2>2, <2>3 DEF JobEnds
<1>6. CASE LaunchResumed(c)
  <2>1. /\ call[c].pc = "save" /\ ~Waiting(c) /\ mem'[j] = call[c].seen
        /\ UNCHANGED <<repo, db>>
    BY <1>6 DEF LaunchResumed, Launch, TypeOK
  <2>2. OpsOf(j, db) = {}
    BY <2>1 DEF CallEnds, Waiting, OpsOf
  <2>3. repo[j].status = "queued" /\ mem'[j].status = "queued"
    BY <2>1, <2>2 DEF CallEnds
  <2>4. QED
    BY <1>3, <2>1, <2>2, <2>3 DEF JobEnds
<1>7. CASE ResetJob(c)
  <2> DEFINE stored == [Fresh(j) EXCEPT !.completed = call[c].seen.completed]
             o == [Update(j, c) EXCEPT !.stage = "started", !.val = stored]
  <2>1. db' = db \union {o} /\ UNCHANGED <<repo, run, mem>>
    BY <1>7 DEF ResetJob
  <2>2. stored.status = "queued"
    BY <1>3 DEF Fresh, NoJob
  <2> HIDE DEF stored
  <2>3. o.val = stored
    BY DEF Update
  <2> HIDE DEF o
  <2>4. \A q \in OpsOf(j, db') : q \in OpsOf(j, db) \/ q = o
    BY <2>1 DEF OpsOf
  <2>5. QED
    BY <1>3, <2>1, <2>2, <2>3, <2>4 DEF JobEnds
<1>8. ~CheckCancel(c) /\ ~CancelTask(c)
  BY <1>1 DEF CheckCancel, CancelTask
<1>9. QED
  BY <1>2, <1>4, <1>5, <1>6, <1>7, <1>8 DEF CallStep

LEMMA JobEndsStep ==
    ASSUME EndsOnce, TypeOK, KnownJobs, LockInv, OwnersInv, Calm, OnceInv, ReaderInv, [Next]_vars,
           NEW j \in Jobs
    PROVE  JobEnds(run'[j], mem'[j], repo'[j], OpsOf(j, db'))
<1>1. /\ JobEnds(run[j], mem[j], repo[j], OpsOf(j, db))
      /\ \A c \in Callers : c \in Threads /\ CallEnds(c, call[c].job)
  BY DEF ReaderInv, Threads
<1>2. MaxStops = 0 /\ stray = {}
  BY DEF EndsOnce, OneInterruption, OnceInv
<1>3. CASE Same(j)
  BY <1>1, <1>3 DEF Same
<1>4. CASE \E o \in OpsOf(j, db) : OpStep(o)
  BY <1>1, <1>4, OpEnds
<1>5. CASE TaskStepOf(j)
  BY <1>1, <1>5, TaskStepEnds
<1>6. CASE \E w \in Workers : WorkStep(j, w)
  BY <1>1, <1>6, WorkStepEnds
<1>7. CASE \E c \in Callers : call[c].job = j /\ CallStep(c)
  BY <1>1, <1>7, CallStepEnds
<1>8. CASE Deadline(j)
  <2>1. /\ run' = [run EXCEPT ![j].cause = @ \union {"timeout"}, ![j].intr = TRUE]
        /\ UNCHANGED <<repo, mem, db>>
    BY <1>8 DEF Deadline
  <2>2. run'[j].pc = run[j].pc
    BY <2>1 DEF TypeOK, RunTask
  <2>3. QED
    BY <1>1, <2>1, <2>2 DEF JobEnds
<1>9. QED
  BY <1>2, <1>3, <1>4, <1>5, <1>6, <1>7, <1>8, StepOnJob

\* A step of the call c itself.
LEMMA CallEndsMoves ==
    ASSUME EndsOnce, TypeOK, KnownJobs, LockInv, OwnersInv, OnceInv,
           NEW c \in Threads, NEW j \in Jobs, call[c].job = j, CallEnds(c, j), CallStep(c)
    PROVE  CallEnds(c, call[c].job)'
<1>1. call[c].op # "cancel" /\ ~LateWrites /\ call[c] \in Call /\ call[c].pc # "idle"
  BY CallGoesOn DEF OnceInv, CallOnce, EndsOnce, OneInterruption
<1>2. NoCall.pc = "idle"
  BY DEF NoCall
<1>3. \A r : SetCall(c, r) => call'[c] = r
  BY DEF SetCall, TypeOK
<1>4. CASE call'[c].pc \notin {"launch", "rows", "build", "save"}
  BY <1>4 DEF CallEnds
<1>5. ASSUME NEW p, call'[c] = [call[c] EXCEPT !.pc = p]
      PROVE  call'[c].pc = p /\ call'[c].op = call[c].op /\ call'[c].job = j
  BY <1>1, <1>5 DEF Call, NoCall
<1>6. CASE Acquire(c) \/ FindKey(c) \/ LaunchNew(c) \/ LaunchResumed(c)
  <2>1. call'[c] = NoCall \/ \E p \in {"read", "insert"} : call'[c] = [call[c] EXCEPT !.pc = p]
    BY <1>3, <1>6 DEF Acquire, FindKey, LaunchNew, LaunchResumed, Respond
  <2>2. QED
    BY <1>2, <1>4, <1>5, <2>1
<1>7. CASE ReadJob(c)
  <2>1. \E v : call'[c] = [call[c] EXCEPT !.pc = "check", !.seen = v]
    BY <1>3, <1>7 DEF ReadJob
  <2>2. call'[c].pc = "check"
    BY <1>1, <2>1 DEF Call, NoCall
  <2>3. QED
    BY <1>4, <2>2
<1>8. CASE CheckResume(c)
  <2>1. call[c].op = "resume" /\ (call'[c] = NoCall \/ call'[c] = [call[c] EXCEPT !.pc = "rows"])
    BY <1>3, <1>8 DEF CheckResume, Respond
  <2>2. CASE call'[c] = NoCall
    BY <1>2, <1>4, <2>2
  <2>3. CASE call'[c] = [call[c] EXCEPT !.pc = "rows"]
    BY <1>5, <2>1, <2>3 DEF CallEnds
  <2>4. QED
    BY <2>1, <2>2, <2>3
<1>9. CASE CreateJob(c)
  <2>1. CASE call'[c] = NoCall
    BY <1>2, <1>4, <2>1
  <2>2. CASE /\ KeyHolders(j) = {} /\ repo'[j] = Fresh(j) /\ db' = db
             /\ call'[c] = [call[c] EXCEPT !.pc = "launch"]
    <3>1. repo[j] = NoJob
      BY <2>2 DEF KeyHolders
    <3>2. OpsOf(j, db) = {}
      BY <3>1 DEF KnownJobs, OpsKnown, OpKnown, OpsOf
    <3>3. Fresh(j).status = "queued"
      BY DEF Fresh, NoJob
    <3>4. OpsOf(j, db)' = {}
      BY <2>2, <3>2 DEF OpsOf
    <3>5. call'[c].pc = "launch" /\ call'[c].job = j
      BY <1>5, <2>2
    <3>6. QED
      BY <2>2, <3>3, <3>4, <3>5 DEF CallEnds, OpsOf
  <2>3. QED
    BY <1>3, <1>9, <2>1, <2>2 DEF CreateJob, Respond, TypeOK
<1>10. CASE ReadRows(c)
  <2>1. call[c].pc = "rows" /\ Settled(j) /\ db' = db
    BY <1>10 DEF ReadRows
  <2>2. OpsOf(j, db) = {} /\ call[c].op = "resume"
    BY <1>1, <2>1, NothingInFlight DEF CallEnds
  <2>3. \E e, n : call'[c] = [call[c] EXCEPT !.pc = "build", !.done = e, !.seen.completed = n]
    BY <1>3, <1>10 DEF ReadRows
  <2>4. call'[c].pc = "build"
    BY <1>1, <2>3 DEF Call, NoCall
  <2>5. call'[c].op = "resume" /\ call'[c].job = j
    BY <1>1, <2>2, <2>3 DEF Call, NoCall
  <2>6. QED
    BY <2>1, <2>2, <2>4, <2>5 DEF CallEnds, OpsOf
<1>11. CASE ResetJob(c)
  <2> DEFINE stored == [Fresh(j) EXCEPT !.completed = call[c].seen.completed]
             o == [Update(j, c) EXCEPT !.stage = "started", !.val = stored]
  <2>1. /\ call[c].pc = "build" /\ db' = db \union {o}
        /\ call'[c] = [call[c] EXCEPT !.pc = "save", !.seen = stored]
    BY <1>3, <1>11 DEF ResetJob
  <2>2. stored.status = "queued"
    BY DEF Fresh, NoJob
  <2> HIDE DEF stored
  <2>3. o.job = j /\ o.own = c /\ o.live /\ o.stage = "started" /\ o.val = stored
    BY DEF Update
  <2> HIDE DEF o
  <2>4. OpsOf(j, db) = {} /\ call[c].op = "resume"
    BY <2>1 DEF CallEnds
  <2>5. OpsOf(j, db)' = {o}
    BY <2>1, <2>3, <2>4 DEF OpsOf
  <2>6. call'[c].pc = "save" /\ call'[c].seen = stored
    BY <1>1, <2>1 DEF Call, NoCall
  <2>7. call'[c].op = "resume" /\ call'[c].job = j
    BY <1>1, <2>1, <2>4 DEF Call, NoCall
  <2>8. OpsOf(call[c].job, db)' = {o}
    BY <2>5, <2>7 DEF OpsOf
  <2>9. QED
    BY <2>2, <2>3, <2>6, <2>7, <2>8 DEF CallEnds
<1>12. ~CheckCancel(c) /\ ~CancelTask(c)
  BY <1>1 DEF CheckCancel, CancelTask
<1>13. QED
  BY <1>6, <1>7, <1>8, <1>9, <1>10, <1>11, <1>12 DEF CallStep

LEMMA CallEndsStep ==
    ASSUME EndsOnce, TypeOK, KnownJobs, LockInv, OwnersInv, Calm, OnceInv, ReaderInv, [Next]_vars,
           NEW c \in Threads
    PROVE  CallEnds(c, call[c].job)'
<1>1. CallEnds(c, call[c].job) /\ MaxStops = 0 /\ stray = {} /\ Callers \subseteq Threads
  BY DEF ReaderInv, EndsOnce, OneInterruption, OnceInv, Threads
<1>2. CASE call'[c].pc \notin {"launch", "rows", "build", "save"}
  BY <1>2 DEF CallEnds
<1>3. CASE CallStep(c)
  <2>1. PICK j \in Jobs : call[c].job = j
    BY <1>3, CallGoesOn
  <2>2. QED
    BY <1>1, <1>3, <2>1, CallEndsMoves
<1>4. CASE call'[c] = call[c] /\ call[c].pc = "rows"
  BY <1>1, <1>4 DEF CallEnds
<1>5. CASE ~CallStep(c) /\ call'[c] = call[c] /\ call[c].pc \in {"launch", "build", "save"}
  <2>1. PICK j \in Jobs : call[c].job = j
    BY <1>5, CallTypes DEF TypeOK
  <2>2. run[j].pc = "idle"
    BY <1>1, <1>5, <2>1 DEF LockInv, Exclusive, LaunchesAlone, Launching, CallEnds
  <2>3. ~\E d \in Callers : CallStep(d)
    BY <1>1, <1>5, HolderAlone DEF Past
  <2>4. \/ Same(j)
        \/ \E o \in OpsOf(j, db) : OpStep(o)
    BY <1>1, <2>2, <2>3, StepOnJob, IdleTask
  <2>5. CASE Same(j)
    <3>1. CallEnds(c, j)'
      BY <1>1, <1>5, <2>1, <2>5 DEF CallEnds, Same, OpsOf
    <3>2. QED
      BY <1>5, <2>1, <3>1 DEF CallEnds, OpsOf
  <2>6. ASSUME NEW o \in OpsOf(j, db), OpStep(o)
        PROVE  CallEnds(c, call[c].job)'
    <3>1. /\ call[c].pc = "save" /\ o.own = c /\ o.stage = "started" /\ o.val.status = "queued"
          /\ o.job = j /\ OpOwned(o)
      BY <1>1, <1>5, <2>1, <2>6 DEF CallEnds, OpsOf, OwnersInv
    <3>2. ApplyUpdate(o)
      <4>1. ~StartOp(o)
        BY <3>1 DEF StartOp
      <4>2. ~ApplyAppend(o)
        BY <2>1, <3>1, NamesAssumption DEF ApplyAppend, OpOwned
      <4>3. QED
        BY <2>6, <4>1, <4>2 DEF OpStep
    <3>3. repo'[j].status = "queued" /\ db' = db \ {o}
      BY <3>1, <3>2 DEF ApplyUpdate, TypeOK
    <3>4. \A q \in OpsOf(j, db)' : q \in OpsOf(j, db)
      BY <3>3 DEF OpsOf
    <3>5. OpsOf(call[c].job, db)' = OpsOf(j, db)'
      BY <1>5, <2>1 DEF OpsOf
    <3>6. QED
      BY <1>1, <1>5, <2>1, <3>1, <3>3, <3>4, <3>5 DEF CallEnds
  <2>7. QED
    BY <2>4, <2>5, <2>6
<1>6. ASSUME call'[c] = NoCall
      PROVE  CallEnds(c, call[c].job)'
  BY <1>2, <1>6 DEF NoCall
<1>7. \/ call'[c] = call[c] \/ call'[c] = NoCall \/ CallStep(c) \/ call'[c].pc = "lock"
  BY <1>1, CallsOfStep
<1>8. QED
  BY <1>2, <1>3, <1>4, <1>5, <1>6, <1>7

\* A client resumes j.
Resumes(j) == \E c \in Callers : Request(c, "resume", j)

\* What a step does to the calls on a job that is stored and not resumed.
LEMMA CallsOnJob ==
    ASSUME MaxStops = 0, TypeOK, Calm, [Next]_vars, NEW j \in Jobs, ~Resumes(j), repo[j] # NoJob,
           NEW d \in Threads, call'[d].job = j
    PROVE  \/ call[d].job = j /\ call'[d].op = call[d].op
                /\ (call'[d].pc = "launch" => call[d].pc = "launch")
           \/ call'[d].op # "resume" /\ call'[d].pc # "launch"
<1>1. NoCall.job = NoProc /\ NoProc \notin Jobs
  BY NamesAssumption DEF NoCall
<1>2. CASE call'[d] = call[d]
  BY <1>2
<1>3. CASE call'[d] = NoCall
  BY <1>1, <1>3
<1>4. CASE CallStep(d)
  <2>1. call'[d].op = call[d].op /\ call'[d].job = call[d].job
    BY <1>1, <1>4, CallGoesOn
  <2>2. call'[d].pc # "launch"
    BY <1>4, <2>1, WhoLaunches
  <2>3. QED
    BY <2>1, <2>2
<1>5. ASSUME NEW op \in Ops, NEW k \in Jobs, d \in Callers, Request(d, op, k),
             call'[d].op = op, call'[d].job = k, call'[d].pc = "lock"
      PROVE  call'[d].op # "resume" /\ call'[d].pc # "launch"
  BY <1>5 DEF Resumes
<1>6. QED
  BY <1>2, <1>3, <1>4, <1>5, CallsOfStep

\* A job that gets no more results keeps those it has until it is resumed.
LEMMA FrozenStays ==
    ASSUME EndsOnce, TypeOK, KnownJobs, LockInv, OwnersInv, ResultsInv, Calm, OnceInv, [Next]_vars,
           NEW j \in Jobs, Frozen(j), ~Resumes(j)
    PROVE  Frozen(j)' /\ rows'[j] = rows[j]
<1>1. MaxStops = 0 /\ stray = {} /\ Callers \subseteq Threads
  BY DEF EndsOnce, OneInterruption, OnceInv, Threads
<1>2. /\ run[j].pc \in LateOnes /\ repo[j] # NoJob
      /\ \A c \in Threads : call[c].job = j => call[c].op # "resume" /\ call[c].pc # "launch"
  BY DEF Frozen
<1>3. rows'[j] = rows[j]
  BY <1>2, StoresRunning DEF LateOnes, Gathering
<1>4. repo'[j] # NoJob
  BY <1>2, DocumentStays
<1>5. \A c \in Threads : call'[c].job = j => call'[c].op # "resume" /\ call'[c].pc # "launch"
  BY <1>1, <1>2, CallsOnJob
<1>6. ASSUME NEW c \in Callers, call[c].job = j, CallStep(c)
      PROVE  run'[j].pc = run[j].pc
  <2>1. call[c].op # "resume" /\ call[c].pc # "launch"
    BY <1>1, <1>2, <1>6
  <2>2. CASE CancelTask(c)
    <3>1. run' = run \/ run' = [run EXCEPT ![j].cause = @ \union {"cancel"}, ![j].intr = TRUE]
      BY <1>6, <2>2 DEF CancelTask
    <3>2. QED
      BY <3>1, CancelRun
  <2>3. QED
    BY <1>6, <2>1, <2>2 DEF CallStep, Acquire, FindKey, CreateJob, LaunchNew, ReadJob, CheckCancel,
       CheckResume, ReadRows, ResetJob, LaunchResumed
<1>7. run'[j].pc \in LateOnes
  <2>1. CASE Same(j)
    BY <1>2, <2>1 DEF Same
  <2>2. CASE \E o \in OpsOf(j, db) : OpStep(o)
    BY <1>2, <2>2 DEF OpStep, StartOp, ApplyUpdate, ApplyAppend
  <2>3. CASE TaskStepOf(j)
    BY <1>2, <2>3, LateTask
  <2>4. CASE \E w \in Workers : WorkStep(j, w)
    BY <1>2, <2>4, WorkerRun DEF WorkStep
  <2>5. CASE \E c \in Callers : call[c].job = j /\ CallStep(c)
    BY <1>2, <1>6, <2>5
  <2>6. CASE Deadline(j)
    BY <1>2, <2>6 DEF Deadline, LateOnes, TypeOK, RunTask
  <2>7. QED
    BY <1>1, <2>1, <2>2, <2>3, <2>4, <2>5, <2>6, StepOnJob
<1>8. QED
  BY <1>3, <1>4, <1>5, <1>7 DEF Frozen

\* Only its client moves a consumer.
LEMMA ReaderMoves ==
    ASSUME MaxStops = 0, TypeOK, Calm, [Next]_vars
    PROVE  \/ reader' = reader
           \/ \E c \in Callers, k \in Jobs : Request(c, "resume", k)
           \/ \E k \in Jobs : PollJob(k) \/ PollRows(k)
<1>1. CASE UNCHANGED vars
  BY <1>1 DEF vars
<1>2. CASE Storage \/ Strays \/ \E j \in Jobs : Deadline(j)
  BY <1>2 DEF Storage, StartOp, ApplyUpdate, ApplyAppend, Strays, StrayPost, Deadline, env
<1>3. ASSUME NEW j \in Jobs, TaskStepOf(j)
      PROVE  reader' = reader
  BY <1>3 DEF TaskStepOf, StartJob, StartWorkers, Gathered, Drain, Drained, Executed, Saved, Post,
     Posted, Interrupt, InterruptGather, env
<1>4. ASSUME NEW j \in Jobs, NEW w \in Workers, WorkStep(j, w)
      PROVE  reader' = reader
  BY <1>4 DEF WorkStep, Take, Collected, Persist, Appended, Counted, Duplicate, Die, env
<1>5. ASSUME NEW c \in Callers, CallStep(c)
      PROVE  reader' = reader
  BY <1>5 DEF CallStep, Acquire, FindKey, CreateJob, LaunchNew, ReadJob, CheckCancel, CancelTask,
     CheckResume, ReadRows, ResetJob, LaunchResumed, env
<1>6. CASE Clients
  BY <1>6, SizesAssumption DEF Clients, Request
<1>7. CASE RunTasks
  BY <1>3, <1>7 DEF RunTasks, TaskStepOf
<1>8. CASE WorkerTasks
  BY <1>4, <1>8 DEF WorkerTasks, WorkStep
<1>9. QED
  BY <1>1, <1>2, <1>5, <1>6, <1>7, <1>8, CalmStep

\* What a page that closes the consumption has shown.
LEMMA PageEnds ==
    ASSUME TypeOK, ResultsInv, NEW j \in Jobs, PollRows(j), ReadsEnd(j)
    PROVE  ReadsEnd(j)'
<1> DEFINE off == reader[j].offset
           found == Cardinality({n \in Filled(j) : n >= off})
           next == off + IF found < PageLimit THEN found ELSE PageLimit
           seen == reader[j].seen
           shut == ~(next < seen.completed \/ seen.status \in Open)
<1>1. /\ reader[j].pc = "page"
      /\ reader' = [reader EXCEPT ![j] = [pc |-> "idle", offset |-> next, seen |-> NoJob,
                                          closed |-> shut]]
      /\ UNCHANGED <<repo, rows, run, call>>
  BY DEF PollRows
<1>2. off \in Nat /\ seen.completed \in Nat
  BY DEF TypeOK, Reader, StoredJob
<1>3. found \in Nat
  <2>1. IsFiniteSet(Filled(j))
    BY FilledFinite
  <2>2. IsFiniteSet({n \in Filled(j) : n >= off})
    BY <2>1, FS_Subset
  <2>3. QED
    BY <2>2, FS_CardinalityType
<1>4. next \in Nat
  BY <1>2, <1>3, SizesAssumption
<1>5. shut => seen.status \notin Open /\ seen.completed <= next
  BY <1>2, <1>4
<1> HIDE DEF found, next, shut
<1>6. /\ reader'[j].pc = "idle" /\ reader'[j].offset = next
      /\ reader'[j].closed <=> shut
  BY <1>1 DEF TypeOK
<1>7. Filled(j)' = Filled(j) /\ (Frozen(j)' <=> Frozen(j))
  BY <1>1 DEF Filled, Frozen
<1>8. ASSUME shut
      PROVE  Frozen(j) /\ \A n \in Filled(j) : n < next
  <2>1. Frozen(j) /\ seen.completed \notin Filled(j)
    BY <1>1, <1>5, <1>8 DEF ReadsEnd
  <2>2. ASSUME NEW n \in Filled(j)
        PROVE  n < next
    <3>1. n \in Nat /\ Covered(j, n)
      BY FilledFinite DEF ResultsInv, RowsLog, Filled, Seqs
    <3>2. ~(seen.completed < n) /\ seen.completed # n
      BY <1>2, <2>1, <3>1 DEF Covered
    <3>3. QED
      BY <1>2, <1>4, <1>5, <1>8, <3>1, <3>2
  <2>3. QED
    BY <2>1, <2>2
<1>9. QED
  BY <1>6, <1>7, <1>8 DEF ReadsEnd

\* A consumer that reads the document of j.
LEMMA DocumentRead ==
    ASSUME EndsOnce, TypeOK, Calm, OnceInv, LockInv, ReaderInv, NEW j \in Jobs, PollJob(j)
    PROVE  ReadsEnd(j)'
<1>1. /\ ~reader[j].closed /\ repo[j] # NoJob
      /\ \A c \in Callers : ~(call[c].op = "resume" /\ call[c].job = j)
      /\ reader' = [reader EXCEPT ![j].pc = "page", ![j].seen = repo[j]]
      /\ UNCHANGED <<repo, rows, run, call>>
  BY DEF PollJob
<1>2. reader'[j] = [reader[j] EXCEPT !.pc = "page", !.seen = repo[j]] /\ reader[j] \in Reader
  BY <1>1 DEF TypeOK
<1>3. reader'[j].seen = repo[j]
  BY <1>2 DEF Reader
<1>4. ~reader'[j].closed
  BY <1>1, <1>2 DEF Reader
<1>5. call[Boot].job = NoProc /\ NoProc \notin Jobs
  BY NamesAssumption DEF Calm, NoCall
<1>6. \A c \in Threads : call[c].job = j => call[c].op # "resume"
  BY <1>1, <1>5 DEF Threads
<1>7. ASSUME repo[j].status \notin Open
      PROVE  Frozen(j) /\ repo[j].completed \notin Filled(j)
  <2>1. JobEnds(run[j], mem[j], repo[j], OpsOf(j, db))
    BY DEF ReaderInv
  <2>2. repo[j].status \in Ended
    BY <1>1, <1>7, <2>1 DEF JobEnds, TypeOK, StoredJob
  <2>3. run[j].pc \in LateOnes
    BY <2>1, <2>2 DEF JobEnds
  <2>4. \A c \in Threads : call[c].job = j => call[c].pc # "launch"
    BY <2>2 DEF ReaderInv, CallEnds, Ended
  <2>5. Still(wk[j])
    BY <2>3 DEF LockInv, Exclusive, TasksCover, Still, LateOnes
  <2>6. JobOnce(j, run[j], mem[j], repo[j], wk[j], OpsOf(j, db), Filled(j))
    BY DEF OnceInv
  <2>7. repo[j].completed \notin Filled(j)
    BY <2>5, <2>6, StillCounts DEF JobOnce, Counts
  <2>8. QED
    BY <1>1, <1>6, <2>3, <2>4, <2>7 DEF Frozen
<1>8. /\ Filled(j)' = Filled(j) /\ (Frozen(j) => Frozen(j)')
      /\ \A c \in Threads : call'[c] = call[c]
      /\ repo' = repo
  BY <1>1 DEF Filled, Frozen
<1>9. reader'[j].seen.status \notin Open => Frozen(j)' /\ reader'[j].seen.completed \notin Filled(j)'
  BY <1>3, <1>7, <1>8
<1>10. QED
  BY <1>1, <1>4, <1>6, <1>8, <1>9 DEF ReadsEnd

\* The consumer of j is left where it is.
LEMMA ReadStays ==
    ASSUME EndsOnce, TypeOK, KnownJobs, LockInv, OwnersInv, ResultsInv, Calm, OnceInv, [Next]_vars,
           NEW j \in Jobs, ReadsEnd(j), reader'[j] = reader[j], ~Resumes(j)
    PROVE  ReadsEnd(j)'
<1>1. MaxStops = 0
  BY DEF EndsOnce, OneInterruption
<1>2. Frozen(j) => Frozen(j)' /\ Filled(j)' = Filled(j)
  BY FrozenStays DEF Filled
<1>3. ASSUME reader[j].pc = "page"
      PROVE  repo'[j] # NoJob /\ \A c \in Threads : call'[c].job = j => call'[c].op # "resume"
  <2>1. repo[j] # NoJob /\ \A c \in Threads : call[c].job = j => call[c].op # "resume"
    BY <1>3 DEF ReadsEnd
  <2>2. repo'[j] # NoJob
    BY <2>1, DocumentStays
  <2>3. QED
    BY <1>1, <2>1, <2>2, CallsOnJob
<1>4. QED
  BY <1>2, <1>3 DEF ReadsEnd

LEMMA ReadsEndStep ==
    ASSUME EndsOnce, TypeOK, KnownJobs, LockInv, OwnersInv, ResultsInv, Calm, OnceInv, ReaderInv,
           [Next]_vars, NEW j \in Jobs
    PROVE  ReadsEnd(j)'
<1>1. MaxStops = 0 /\ ReadsEnd(j)
  BY DEF EndsOnce, OneInterruption, ReaderInv
<1>2. ASSUME NEW c \in Callers, Request(c, "resume", j)
      PROVE  ReadsEnd(j)'
  <2>1. reader'[j] = [NewReader EXCEPT !.offset = reader[j].offset]
    BY <1>2 DEF Request, TypeOK
  <2>2. reader'[j].pc = "idle"
    BY <2>1 DEF NewReader
  <2>3. ~reader'[j].closed
    BY <2>1 DEF NewReader
  <2>4. QED
    BY <2>2, <2>3 DEF ReadsEnd
<1>3. CASE PollJob(j)
  BY <1>3, DocumentRead
<1>4. CASE PollRows(j)
  BY <1>1, <1>4, PageEnds
<1>5. CASE ~Resumes(j) /\ reader'[j] = reader[j]
  BY <1>1, <1>5, ReadStays
<1>6. ASSUME NEW k \in Jobs, k # j, \/ \E c \in Callers : Request(c, "resume", k)
                                    \/ PollJob(k) \/ PollRows(k)
      PROVE  reader'[j] = reader[j]
  BY <1>6 DEF Request, PollJob, PollRows, TypeOK
<1>7. QED
  BY <1>1, <1>2, <1>3, <1>4, <1>5, <1>6, ReaderMoves DEF Resumes

LEMMA ReaderStarts ==
    ASSUME Init
    PROVE  ReaderInv
<1>1. ASSUME NEW j \in Jobs
      PROVE  JobEnds(run[j], mem[j], repo[j], OpsOf(j, db)) /\ ReadsEnd(j)
  <2>1. /\ run[j].pc = "idle" /\ repo[j] = NoJob /\ reader[j].pc = "idle"
        /\ OpsOf(j, db) = {}
    BY DEF Init, OpsOf, Idle, NewReader
  <2>2. ~reader[j].closed
    BY DEF Init, NewReader
  <2>3. QED
    BY <2>1, <2>2 DEF JobEnds, ReadsEnd, LateOnes
<1>2. \A c \in Threads : call[c].pc = "idle"
  BY DEF Init, NoCall
<1>3. QED
  BY <1>1, <1>2 DEF ReaderInv, CallEnds

\* Without process stops and cancellations, a consumer that follows next_cursor
\* until it is null has seen every result that the job ever gets before it is
\* resumed: the job is stored as ended only after its last worker has counted
\* its result (job_service.py:476-506), and get_results reads the job before
\* the results (job_service.py:251-270).
THEOREM ReaderSeesAll ==
    ASSUME EndsOnce
    PROVE  Spec => []ReaderMissesNothing
<1>1. OneInterruption /\ MaxStops = 0
  BY DEF EndsOnce, OneInterruption
<1>2. Spec => []Calm
  BY <1>1, AlwaysCalm
<1>3. Spec => []OnceInv
  BY <1>1, OnceAlways
<1>4. Init => ReaderInv
  BY ReaderStarts
<1>5. TypeOK /\ KnownJobs /\ LockInv /\ OwnersInv /\ ResultsInv /\ Calm /\ OnceInv /\ ReaderInv
         /\ [Next]_vars => ReaderInv'
  <2>1. SUFFICES ASSUME TypeOK, KnownJobs, LockInv, OwnersInv, ResultsInv, Calm, OnceInv, ReaderInv,
                        [Next]_vars
                 PROVE  ReaderInv'
    OBVIOUS
  <2>2. \A j \in Jobs : JobEnds(run'[j], mem'[j], repo'[j], OpsOf(j, db'))
    BY <2>1, JobEndsStep
  <2>3. \A j \in Jobs : JobEnds(run[j], mem[j], repo[j], OpsOf(j, db))'
    BY <2>2 DEF JobEnds, OpsOf
  <2>4. \A j \in Jobs : ReadsEnd(j)'
    BY <2>1, ReadsEndStep
  <2>5. \A c \in Threads : CallEnds(c, call[c].job)'
    BY <2>1, CallEndsStep
  <2>6. QED
    BY <2>3, <2>4, <2>5 DEF ReaderInv
<1>6. ReaderInv => ReaderMissesNothing
  BY DEF ReaderInv, ReadsEnd, ReaderMissesNothing
<1>7. QED
  BY <1>2, <1>3, <1>4, <1>5, <1>6, TypeCorrect, JobsKnown, LockAgrees, UpdatesOwned, ResultsAgree,
     PTL DEF Spec
=============================================================================
