-------------------------- MODULE ProxyLeasesProofs --------------------------
(***************************************************************************)
(* Proofs about the proxy pool and its borrowers, for any number of        *)
(* endpoints, tasks, users of an endpoint and places of the pool.          *)
(***************************************************************************)
EXTENDS ProxyLeases, FiniteSetTheorems, TLAPS

-----------------------------------------------------------------------------
(* The pool by itself *)

\* q is p after endpoints were closed, or forgotten because nobody uses them.
Closes(p, q) ==
    /\ q \in Pools
    /\ q.inFlight = p.inFlight /\ q.fetching = p.fetching
    /\ q.slots \subseteq p.slots /\ Active(q) \subseteq Active(p)
    /\ q.exclusive \subseteq p.exclusive
    /\ \A e \in Endpoints : p.inFlight[e] # 0 =>
          /\ e \in p.slots => e \in q.slots
          /\ e \in p.exclusive => e \in q.exclusive

LEMMA ClosesItself == ASSUME NEW p \in Pools PROVE Closes(p, p)
BY DEF Closes

LEMMA ClosesOn ==
  ASSUME NEW p, NEW q, NEW r, Closes(p, q), Closes(q, r)
  PROVE  Closes(p, r)
BY DEF Closes

\* Slots that leave the pool take what was known of them along.
LEMMA DroppedType ==
  ASSUME NEW p \in Pools, NEW gone
  PROVE  Dropped(p, gone) \in Pools
<1> DEFINE s == [e \in Endpoints |-> IF e \in gone THEN 0 ELSE p.errors[e]]
           v == [e \in Endpoints |-> IF e \in gone THEN 0 ELSE p.life[e]]
           b == {x \in p.banned : x[1] \notin gone}
<1>1. s \in [Endpoints -> 0 .. ErrorLimit]
  <2>1. 0 \in 0 .. ErrorLimit
    BY PoolAssumption
  <2>2. QED
    BY <2>1 DEF Pools
<1>2. v \in [Endpoints -> Lives]
  <2>1. 0 \in Lives
    BY DEF Lives, Expired, Long
  <2>2. QED
    BY <2>1 DEF Pools
<1>3. b \in SUBSET (Endpoints \X Platforms)
  BY DEF Pools
<1>4. Dropped(p, gone) =
        [p EXCEPT !.slots = p.slots \ gone, !.draining = p.draining \ gone,
                  !.exclusive = p.exclusive \ gone, !.cooling = p.cooling \ gone,
                  !.banned = b, !.errors = s, !.life = v]
  BY DEF Dropped, Pools
<1> HIDE DEF s, v, b
<1>5. Dropped(p, gone) =
        [slots |-> p.slots \ gone, draining |-> p.draining \ gone,
         exclusive |-> p.exclusive \ gone, inFlight |-> p.inFlight, life |-> v,
         cooling |-> p.cooling \ gone, banned |-> b, errors |-> s,
         retired |-> p.retired, fetching |-> p.fetching]
  BY <1>4 DEF Pools
<1>6. /\ p.slots \ gone \in SUBSET Endpoints /\ p.draining \ gone \in SUBSET Endpoints
      /\ p.exclusive \ gone \in SUBSET Endpoints /\ p.cooling \ gone \in SUBSET Endpoints
      /\ p.inFlight \in [Endpoints -> Nat] /\ p.retired \in SUBSET Endpoints
      /\ p.fetching \in BOOLEAN
  BY DEF Pools
<1>7. QED
  BY <1>1, <1>2, <1>3, <1>5, <1>6 DEF Pools

\* _mark_expired_and_cleanup
LEMMA CleanedCloses ==
  ASSUME NEW p \in Pools
  PROVE  Closes(p, Cleaned(p))
<1> DEFINE drains == p.draining \union {e \in p.slots : p.life[e] = Expired}
           gone == {e \in drains : p.inFlight[e] = 0}
           d == [p EXCEPT !.draining = drains]
<1>1. d \in Pools /\ d.slots = p.slots /\ d.draining = drains
      /\ d.exclusive = p.exclusive /\ d.inFlight = p.inFlight /\ d.fetching = p.fetching
  BY DEF Pools
<1>2. Cleaned(p) = Dropped(d, gone)
  BY DEF Cleaned
<1>3. Dropped(d, gone) \in Pools
  BY <1>1, DroppedType
<1>4. /\ Dropped(d, gone).slots = p.slots \ gone
      /\ Dropped(d, gone).draining = drains \ gone
      /\ Dropped(d, gone).exclusive = p.exclusive \ gone
      /\ Dropped(d, gone).inFlight = p.inFlight
      /\ Dropped(d, gone).fetching = p.fetching
  BY <1>1 DEF Dropped, Pools
<1>5. QED
  BY <1>2, <1>3, <1>4 DEF Closes, Active

\* An endpoint that is retired takes no more leases.
LEMMA RetiringCloses ==
  ASSUME NEW p \in Pools, NEW e \in Endpoints, NEW opt \in BOOLEAN
  PROVE  /\ Closes(p, Retiring(p, e, opt))
         /\ e \notin Active(Retiring(p, e, opt))
<1>1. Retiring(p, e, opt) \in Pools
  BY DEF Retiring, Pools
<1>2. /\ Retiring(p, e, opt).slots = p.slots
      /\ Retiring(p, e, opt).draining = p.draining \union {e}
      /\ Retiring(p, e, opt).exclusive = p.exclusive
      /\ Retiring(p, e, opt).inFlight = p.inFlight
      /\ Retiring(p, e, opt).fetching = p.fetching
  BY DEF Retiring, Pools
<1>3. QED
  BY <1>1, <1>2 DEF Closes, Active

\* The active endpoints are finitely many.
LEMMA ActiveFinite ==
  ASSUME NEW p \in Pools
  PROVE  IsFiniteSet(Active(p)) /\ Cardinality(Active(p)) \in Nat
<1>1. Active(p) \subseteq Endpoints /\ IsFiniteSet(Endpoints)
  BY PoolAssumption DEF Active, Pools
<1>2. QED
  BY <1>1, FS_Subset, FS_CardinalityType

LEMMA ClosesFewer ==
  ASSUME NEW p \in Pools, NEW q, Closes(p, q)
  PROVE  Cardinality(Active(q)) <= Cardinality(Active(p))
BY ActiveFinite, FS_Subset DEF Closes

\* The endpoints that a borrower may be given are active, and free for it.
LEMMA ReplacedCloses ==
  ASSUME NEW p \in Pools, NEW req, NEW opt \in BOOLEAN, NEW q \in Replaced(p, req, opt)
  PROVE  /\ Closes(p, q)
         /\ q = p \/ (~p.fetching /\ \E e \in Active(p) : e \notin Active(q))
<1>1. CASE q = p
  BY <1>1, ClosesItself
<1>2. CASE q # p
  <2>1. PICK e \in Active(p) : q = Cleaned(Retiring(p, e, opt)) /\ ~p.fetching
    BY <1>2 DEF Replaced
  <2>2. e \in Endpoints
    BY DEF Active, Pools
  <2>3. Closes(p, Retiring(p, e, opt)) /\ e \notin Active(Retiring(p, e, opt))
    BY <2>2, RetiringCloses
  <2>4. Closes(Retiring(p, e, opt), q)
    BY <2>1, <2>3, CleanedCloses DEF Closes
  <2>5. QED
    BY <2>1, <2>3, <2>4, ClosesOn DEF Closes
<1>3. QED
  BY <1>1, <1>2

\* Who finds nothing free and may not buy finds as many endpoints in use as the
\* pool may have.
LEMMA FullWhenWaiting ==
  ASSUME NEW p \in Pools, NEW req, NEW opt \in BOOLEAN, NEW q \in Replaced(p, req, opt),
         Cardinality(Active(p)) <= PoolSize, ~p.fetching,
         Candidates(p, req, opt) = {}, ~MayFetch(q)
  PROVE  q = p /\ Cardinality(Active(p)) >= PoolSize /\ \A e \in Active(p) : p.inFlight[e] # 0
<1>1. Closes(p, q) /\ (q = p \/ \E e \in Active(p) : e \notin Active(q))
  BY ReplacedCloses
<1>2. /\ IsFiniteSet(Active(p)) /\ Cardinality(Active(p)) \in Nat
      /\ q \in Pools /\ Cardinality(Active(q)) \in Nat /\ PoolSize \in Nat
  BY <1>1, ActiveFinite, PoolAssumption DEF Closes
<1>3. q = p
  <2> SUFFICES ASSUME NEW e \in Active(p), e \notin Active(q) PROVE FALSE
    BY <1>1
  <2>1. Active(q) \subseteq Active(p) \ {e}
    BY <1>1 DEF Closes
  <2>2. IsFiniteSet(Active(p) \ {e}) /\ Cardinality(Active(p) \ {e}) = Cardinality(Active(p)) - 1
    BY <1>2, FS_RemoveElement
  <2>3. Cardinality(Active(q)) < PoolSize
    BY <1>2, <2>1, <2>2, FS_Subset
  <2>4. QED
    BY <1>1, <2>3 DEF MayFetch, Closes
<1>4. Cardinality(Active(p)) >= PoolSize
  BY <1>2, <1>3 DEF MayFetch
<1>5. ASSUME NEW e \in Active(p), p.inFlight[e] = 0 PROVE FALSE
  <2>1. e \notin Candidates(p, req, opt) /\ 0 < MaxUsers
    BY PoolAssumption
  <2>2. ~Eligible(p, e, req, opt)
    BY <1>5, <2>1 DEF Candidates
  <2>3. opt
    BY <2>2 DEF Eligible
  <2>4. q # p
    <3> DEFINE idle == {f \in Active(p) : p.inFlight[f] = 0 /\ ~Eligible(p, f, req, opt)}
               first == {f \in idle : \A g \in idle : p.life[f] <= p.life[g]}
    <3>1. e \in idle
      BY <1>5, <2>2
    <3>2. Replaced(p, req, opt) = {Cleaned(Retiring(p, f, opt)) : f \in first}
      BY <1>4, <2>3, <3>1 DEF Replaced
    <3>3. PICK f \in Active(p) : q = Cleaned(Retiring(p, f, opt))
      BY <3>2
    <3>4. f \in Endpoints
      BY DEF Active, Pools
    <3>5. /\ Closes(p, Retiring(p, f, opt)) /\ f \notin Active(Retiring(p, f, opt))
          /\ Closes(Retiring(p, f, opt), q)
      BY <3>3, <3>4, RetiringCloses, CleanedCloses DEF Closes
    <3>6. QED
      BY <3>5 DEF Closes
  <2>5. QED
    BY <1>3, <2>4
<1>6. QED
  BY <1>3, <1>4, <1>5

\* One lease of an endpoint comes back: what happens to the pool besides.
LEMMA ReturnedFields ==
  ASSUME NEW p \in Pools, NEW e \in Endpoints
  PROVE  /\ Returned(p, e) \in Pools
         /\ Returned(p, e).slots = p.slots /\ Returned(p, e).draining = p.draining
         /\ Returned(p, e).fetching = p.fetching
         /\ Returned(p, e).inFlight = [p.inFlight EXCEPT ![e] = Lowered(@)]
         /\ Returned(p, e).exclusive = IF Lowered(p.inFlight[e]) = 0 THEN p.exclusive \ {e}
                                       ELSE p.exclusive
<1>1. p.inFlight \in [Endpoints -> Nat] /\ p.exclusive \in SUBSET Endpoints
  BY DEF Pools
<1>2. Lowered(p.inFlight[e]) \in Nat
  BY <1>1 DEF Lowered
<1> DEFINE g == [p.inFlight EXCEPT ![e] = Lowered(@)]
           x == IF Lowered(p.inFlight[e]) = 0 THEN p.exclusive \ {e} ELSE p.exclusive
<1>3. g \in [Endpoints -> Nat] /\ x \in SUBSET Endpoints
  BY <1>1, <1>2
<1>4. Returned(p, e) = [p EXCEPT !.inFlight = g, !.exclusive = x]
  BY DEF Returned, Pools
<1> HIDE DEF g, x
<1>5. Returned(p, e) \in Pools
  BY <1>3, <1>4 DEF Pools
<1>6. QED
  BY <1>4, <1>5 DEF Pools, g, x

\* What the pool does besides, when a lease comes back, closes endpoints.
LEMMA OnSuccessCloses ==
  ASSUME NEW p \in Pools, NEW e \in p.slots, NEW opt \in BOOLEAN
  PROVE  Closes(Returned(p, e), OnSuccess(p, e, opt))
<1>1. e \in Endpoints
  BY DEF Pools
<1> DEFINE q == Returned(p, e)
           g == [q.errors EXCEPT ![e] = IF opt /\ e \notin p.cooling THEN Lowered(@) ELSE @]
           r == [q EXCEPT !.errors = g]
<1>2. q \in Pools
  BY <1>1, ReturnedFields
<1>3. OnSuccess(p, e, opt) = Cleaned(r)
  BY <1>2 DEF OnSuccess, Pools
<1>4. g \in [Endpoints -> 0 .. ErrorLimit]
  <2>1. q.errors \in [Endpoints -> 0 .. ErrorLimit] /\ ErrorLimit \in Nat
    BY <1>2, PoolAssumption DEF Pools
  <2>2. Lowered(q.errors[e]) \in 0 .. ErrorLimit
    BY <1>1, <2>1 DEF Lowered
  <2>3. QED
    BY <1>1, <2>1, <2>2
<1> HIDE DEF q, g
<1>5. r \in Pools /\ Closes(q, r)
  BY <1>2, <1>4 DEF Pools, Closes, Active
<1>6. Closes(r, Cleaned(r))
  BY <1>5, CleanedCloses
<1>7. QED
  BY <1>3, <1>5, <1>6, ClosesOn DEF q

LEMMA DiscardedCloses ==
  ASSUME NEW p \in Pools, NEW e \in Endpoints, NEW opt \in BOOLEAN
  PROVE  Closes(p, Discarded(p, e, opt))
<1> DEFINE r == IF e \in p.draining THEN p ELSE Retiring(p, e, opt)
<1>1. r \in Pools /\ Closes(p, r)
  BY RetiringCloses, ClosesItself DEF Closes
<1>2. Closes(r, Cleaned(r))
  BY <1>1, CleanedCloses
<1>3. Discarded(p, e, opt) = Cleaned(r)
  BY DEF Discarded
<1>4. QED
  BY <1>1, <1>2, <1>3, ClosesOn

LEMMA OnFailureCloses ==
  ASSUME NEW p \in Pools, NEW e \in p.slots, NEW opt \in BOOLEAN,
         NEW kind, NEW platform \in Platforms
  PROVE  Closes(Returned(p, e), OnFailure(p, e, kind, platform, opt))
<1>1. e \in Endpoints
  BY DEF Pools
<1> DEFINE q == Returned(p, e)
           b == q.banned \union {<<e, platform>>}
           c == q.cooling \union {e}
           g == [q.errors EXCEPT ![e] = IF @ < ErrorLimit THEN @ + 1 ELSE @]
           noted == CASE kind = "task" -> q
                      [] kind = "platform" -> [q EXCEPT !.banned = b]
                      [] OTHER -> [q EXCEPT !.cooling = c, !.errors = g]
<1>2. q \in Pools
  BY <1>1, ReturnedFields
<1>3. OnFailure(p, e, kind, platform, opt) =
        IF ~opt THEN Discarded(q, e, opt)
        ELSE IF noted.errors[e] < ErrorLimit THEN Cleaned(noted)
        ELSE Discarded(noted, e, opt)
  BY <1>2 DEF OnFailure, Pools
<1>4. g \in [Endpoints -> 0 .. ErrorLimit]
  <2>1. q.errors \in [Endpoints -> 0 .. ErrorLimit] /\ ErrorLimit \in Nat
    BY <1>2, PoolAssumption DEF Pools
  <2>2. q.errors[e] < ErrorLimit => q.errors[e] + 1 \in 0 .. ErrorLimit
    BY <1>1, <2>1
  <2>3. QED
    BY <1>1, <2>1, <2>2
<1>5. b \in SUBSET (Endpoints \X Platforms) /\ c \in SUBSET Endpoints
  BY <1>1, <1>2 DEF Pools
<1> HIDE DEF q, g, b, c
<1>6. /\ [q EXCEPT !.banned = b] \in Pools /\ Closes(q, [q EXCEPT !.banned = b])
      /\ [q EXCEPT !.cooling = c, !.errors = g] \in Pools
      /\ Closes(q, [q EXCEPT !.cooling = c, !.errors = g])
  BY <1>2, <1>4, <1>5 DEF Pools, Closes, Active
<1>7. noted \in Pools /\ Closes(q, noted)
  BY <1>2, <1>6, ClosesItself
<1> HIDE DEF noted
<1>8. Closes(noted, Cleaned(noted)) /\ Closes(noted, Discarded(noted, e, opt))
      /\ Closes(q, Discarded(q, e, opt))
  BY <1>1, <1>2, <1>7, CleanedCloses, DiscardedCloses
<1>9. Closes(q, Cleaned(noted)) /\ Closes(q, Discarded(noted, e, opt))
  BY <1>7, <1>8, ClosesOn
<1>10. QED
  BY <1>3, <1>8, <1>9 DEF q

-----------------------------------------------------------------------------
(* The pool and the leases it gave out *)

Held(l, e) == {t \in Tasks : l[t] = e}
Leases == [Tasks -> Endpoints \union {NoEndpoint}]

\* The pool p and the leases l of tasks in the roles r agree: every lease is
\* counted, on an endpoint that has a slot; one for a task alone is noted.
Book(p, l, r, opt) ==
    /\ p \in Pools /\ l \in Leases
    /\ \A e \in Endpoints :
        /\ p.inFlight[e] = Cardinality(Held(l, e))
        /\ Held(l, e) # {} => e \in p.slots
    /\ opt => \A t \in Tasks :
        l[t] # NoEndpoint /\ r[t] # "plain" =>
            l[t] \in p.exclusive /\ \A u \in Tasks \ {t} : l[u] # l[t]
    /\ Cardinality(Active(p)) <= PoolSize

LEMMA HeldFinite ==
  ASSUME NEW l \in Leases, NEW e
  PROVE  /\ IsFiniteSet(Held(l, e)) /\ Cardinality(Held(l, e)) \in Nat
         /\ Cardinality(Held(l, e)) = 0 <=> Held(l, e) = {}
<1>1. Held(l, e) \subseteq Tasks /\ IsFiniteSet(Tasks)
  BY LeasesAssumption DEF Held
<1>2. QED
  BY <1>1, FS_Subset, FS_CardinalityType, FS_EmptySet

\* The endpoint of a lease has a slot, and users.
LEMMA BookUsed ==
  ASSUME NEW p, NEW l, NEW r, NEW opt, Book(p, l, r, opt),
         NEW t \in Tasks, l[t] # NoEndpoint
  PROVE  l[t] \in Endpoints /\ l[t] \in p.slots /\ p.inFlight[l[t]] # 0
<1>1. l \in Leases /\ l[t] \in Endpoints /\ t \in Held(l, l[t])
  BY DEF Book, Leases, Held
<1>2. QED
  BY <1>1, HeldFinite DEF Book

LEMMA BookCloses ==
  ASSUME NEW p, NEW q, NEW l, NEW r, NEW opt, Book(p, l, r, opt), Closes(p, q)
  PROVE  Book(q, l, r, opt)
<1>1. Cardinality(Active(q)) <= PoolSize
  <2>1. p \in Pools /\ q \in Pools /\ Cardinality(Active(p)) <= PoolSize
    BY DEF Book, Closes
  <2>2. Cardinality(Active(q)) <= Cardinality(Active(p))
    BY <2>1, ClosesFewer
  <2>3. QED
    BY <2>1, <2>2, ActiveFinite, PoolAssumption
<1>2. q \in Pools /\ l \in Leases
  BY DEF Book, Closes
<1>3. ASSUME NEW e \in Endpoints
      PROVE  q.inFlight[e] = Cardinality(Held(l, e)) /\ (Held(l, e) # {} => e \in q.slots)
  <2>1. l \in Leases /\ p.inFlight[e] = Cardinality(Held(l, e)) /\ (Held(l, e) # {} => e \in p.slots)
    BY DEF Book
  <2>2. Held(l, e) # {} => p.inFlight[e] # 0
    BY <2>1, HeldFinite
  <2>3. QED
    BY <2>1, <2>2 DEF Closes
<1>4. ASSUME opt, NEW t \in Tasks, l[t] # NoEndpoint, r[t] # "plain"
      PROVE  l[t] \in q.exclusive /\ \A u \in Tasks \ {t} : l[u] # l[t]
  <2>1. l[t] \in Endpoints /\ p.inFlight[l[t]] # 0
    BY <1>4, BookUsed
  <2>2. l[t] \in p.exclusive /\ \A u \in Tasks \ {t} : l[u] # l[t]
    BY <1>4 DEF Book
  <2>3. QED
    BY <2>1, <2>2 DEF Closes
<1>5. QED
  BY <1>1, <1>2, <1>3, <1>4 DEF Book

\* A task without a lease may take up any role.
LEMMA BookRole ==
  ASSUME NEW p, NEW l, NEW r, NEW opt, Book(p, l, r, opt),
         NEW t \in Tasks, l[t] = NoEndpoint, NEW s,
         \A u \in Tasks \ {t} : s[u] = r[u]
  PROVE  Book(p, l, s, opt)
BY DEF Book

\* The endpoint that is selected is active, has room, and is alone to whom asks
\* for one of its own.
LEMMA SelectedFree ==
  ASSUME NEW p \in Pools, NEW req, NEW opt \in BOOLEAN, NEW e \in Selected(p, req, opt)
  PROVE  /\ e \in Endpoints /\ e \in Active(p) /\ e \in p.slots /\ p.inFlight[e] < MaxUsers
         /\ opt => e \notin p.exclusive /\ (req.exclusive => p.inFlight[e] = 0)
BY DEF Selected, Candidates, Eligible, Active, Pools

LEMMA LeasedFields ==
  ASSUME NEW p \in Pools, NEW e \in Endpoints, NEW req, NEW opt \in BOOLEAN
  PROVE  /\ Leased(p, e, req, opt) \in Pools
         /\ Leased(p, e, req, opt).slots = p.slots
         /\ Leased(p, e, req, opt).draining = p.draining
         /\ Leased(p, e, req, opt).fetching = p.fetching
         /\ Leased(p, e, req, opt).inFlight = [p.inFlight EXCEPT ![e] = @ + 1]
         /\ ~opt => Leased(p, e, req, opt).exclusive = p.exclusive
         /\ opt /\ req.exclusive => Leased(p, e, req, opt).exclusive = p.exclusive \union {e}
         /\ opt /\ ~req.exclusive => Leased(p, e, req, opt).exclusive = p.exclusive \ {e}
<1> DEFINE g == [p.inFlight EXCEPT ![e] = @ + 1]
           x == IF ~opt THEN p.exclusive
                ELSE IF req.exclusive THEN p.exclusive \union {e} ELSE p.exclusive \ {e}
<1>1. p.inFlight \in [Endpoints -> Nat] /\ p.exclusive \in SUBSET Endpoints
  BY DEF Pools
<1>2. g \in [Endpoints -> Nat] /\ x \in SUBSET Endpoints
  BY <1>1
<1>3. Leased(p, e, req, opt) = [p EXCEPT !.inFlight = g, !.exclusive = x]
  BY DEF Leased, Pools
<1> HIDE DEF g, x
<1>4. Leased(p, e, req, opt) \in Pools
  BY <1>2, <1>3 DEF Pools
<1>5. QED
  BY <1>3, <1>4 DEF Pools, g, x

LEMMA LeasedLeaves ==
  ASSUME NEW p \in Pools, NEW e \in Endpoints, NEW req, NEW opt \in BOOLEAN
  PROVE  /\ Active(Leased(p, e, req, opt)) = Active(p)
         /\ Leased(p, e, req, opt).fetching = p.fetching
<1> DEFINE g == [p.inFlight EXCEPT ![e] = @ + 1]
           x == IF ~opt THEN p.exclusive
                ELSE IF req.exclusive THEN p.exclusive \union {e} ELSE p.exclusive \ {e}
<1>1. Leased(p, e, req, opt) = [p EXCEPT !.inFlight = g, !.exclusive = x]
  BY DEF Leased, Pools
<1> HIDE DEF g, x
<1>2. QED
  BY <1>1 DEF Pools, Active

LEMMA BookLeased ==
  ASSUME NEW p, NEW l, NEW r, NEW opt \in BOOLEAN, Book(p, l, r, opt),
         NEW t \in Tasks, l[t] = NoEndpoint,
         NEW req, req.exclusive = (r[t] # "plain"), NEW e \in Selected(p, req, opt)
  PROVE  Book(Leased(p, e, req, opt), [l EXCEPT ![t] = e], r, opt)
<1> DEFINE q == Leased(p, e, req, opt)
           k == [l EXCEPT ![t] = e]
<1>1. p \in Pools /\ l \in Leases
  BY DEF Book
<1>2. /\ e \in Endpoints /\ e \in Active(p) /\ e \in p.slots /\ p.inFlight[e] < MaxUsers
      /\ opt => e \notin p.exclusive /\ (req.exclusive => p.inFlight[e] = 0)
  BY <1>1, SelectedFree
<1>3. /\ q \in Pools /\ q.slots = p.slots /\ q.draining = p.draining
      /\ q.inFlight = [p.inFlight EXCEPT ![e] = @ + 1]
      /\ opt /\ req.exclusive => q.exclusive = p.exclusive \union {e}
      /\ opt /\ ~req.exclusive => q.exclusive = p.exclusive \ {e}
  <2>1. p \in Pools /\ e \in Endpoints
    BY <1>1, <1>2
  <2>2. QED
    BY <2>1, LeasedFields
<1>4. k \in Leases /\ k[t] = e /\ \A u \in Tasks \ {t} : k[u] = l[u]
  BY <1>1, <1>2 DEF Leases
<1> HIDE DEF q, k
<1>5. NoEndpoint \notin Endpoints
  BY LeasesAssumption
<1>6. Held(k, e) = Held(l, e) \union {t} /\ t \notin Held(l, e)
  BY <1>2, <1>4, <1>5 DEF Held
<1>7. Cardinality(Held(k, e)) = Cardinality(Held(l, e)) + 1
  BY <1>1, <1>6, HeldFinite, FS_AddElement
<1>8. ASSUME NEW f \in Endpoints
      PROVE  q.inFlight[f] = Cardinality(Held(k, f)) /\ (Held(k, f) # {} => f \in q.slots)
  <2>1. p.inFlight[f] = Cardinality(Held(l, f)) /\ (Held(l, f) # {} => f \in p.slots)
    BY DEF Book
  <2>2. p.inFlight \in [Endpoints -> Nat]
    BY <1>1 DEF Pools
  <2>3. CASE f = e
    BY <1>2, <1>3, <1>7, <2>1, <2>2, <2>3
  <2>4. CASE f # e
    <3>1. Held(k, f) = Held(l, f)
      BY <1>4, <1>5, <2>4 DEF Held
    <3>2. QED
      BY <1>3, <2>1, <2>2, <2>4, <3>1
  <2>5. QED
    BY <2>3, <2>4
<1>9. ASSUME opt, NEW u \in Tasks, k[u] # NoEndpoint, r[u] # "plain"
      PROVE  k[u] \in q.exclusive /\ \A v \in Tasks \ {u} : k[v] # k[u]
  <2>1. CASE u = t
    <3>1. req.exclusive /\ p.inFlight[e] = 0
      BY <1>2, <1>9, <2>1
    <3>2. Held(l, e) = {}
      BY <1>1, <1>2, <3>1, HeldFinite DEF Book
    <3>3. QED
      BY <1>3, <1>4, <1>9, <2>1, <3>1, <3>2 DEF Held
  <2>2. CASE u # t
    <3>1. k[u] = l[u] /\ l[u] \in p.exclusive /\ \A v \in Tasks \ {u} : l[v] # l[u]
      BY <1>4, <1>9, <2>2 DEF Book
    <3>2. l[u] # e
      BY <1>2, <1>9, <3>1
    <3>3. QED
      BY <1>3, <1>4, <1>9, <3>1, <3>2
  <2>3. QED
    BY <2>1, <2>2
<1>10. Active(q) = Active(p)
  BY <1>3 DEF Active
<1>11. Book(q, k, r, opt)
  BY <1>3, <1>4, <1>8, <1>9, <1>10 DEF Book
<1>12. QED
  BY <1>11 DEF q, k

LEMMA BookReturned ==
  ASSUME NEW p, NEW l, NEW r, NEW opt \in BOOLEAN, Book(p, l, r, opt),
         NEW t \in Tasks, l[t] # NoEndpoint
  PROVE  Book(Returned(p, l[t]), [l EXCEPT ![t] = NoEndpoint], r, opt)
<1> DEFINE e == l[t]
           q == Returned(p, e)
           k == [l EXCEPT ![t] = NoEndpoint]
<1>1. p \in Pools /\ l \in Leases
  BY DEF Book
<1>2. e \in Endpoints /\ e \in p.slots /\ p.inFlight[e] # 0
  BY BookUsed
<1>3. /\ q \in Pools /\ q.slots = p.slots /\ q.draining = p.draining
      /\ q.inFlight = [p.inFlight EXCEPT ![e] = Lowered(@)]
      /\ q.exclusive = IF Lowered(p.inFlight[e]) = 0 THEN p.exclusive \ {e} ELSE p.exclusive
  BY <1>1, <1>2, ReturnedFields
<1>4. k \in Leases /\ k[t] = NoEndpoint /\ \A u \in Tasks \ {t} : k[u] = l[u]
  BY <1>1 DEF Leases
<1>5. l[t] = e
  OBVIOUS
<1> HIDE DEF q, k, e
<1>6. NoEndpoint \notin Endpoints
  BY LeasesAssumption
<1>7. Held(k, e) = Held(l, e) \ {t} /\ t \in Held(l, e)
  BY <1>2, <1>4, <1>5, <1>6 DEF Held
<1>8. Cardinality(Held(k, e)) = Cardinality(Held(l, e)) - 1
  BY <1>1, <1>7, HeldFinite, FS_RemoveElement
<1>9. p.inFlight[e] = Cardinality(Held(l, e)) /\ p.inFlight \in [Endpoints -> Nat]
  BY <1>1, <1>2 DEF Book, Pools
<1>10. Lowered(p.inFlight[e]) = Cardinality(Held(k, e))
  BY <1>2, <1>8, <1>9 DEF Lowered
<1>11. ASSUME NEW f \in Endpoints
       PROVE  q.inFlight[f] = Cardinality(Held(k, f)) /\ (Held(k, f) # {} => f \in q.slots)
  <2>1. p.inFlight[f] = Cardinality(Held(l, f)) /\ (Held(l, f) # {} => f \in p.slots)
    BY DEF Book
  <2>2. CASE f = e
    BY <1>2, <1>3, <1>9, <1>10, <2>2
  <2>3. CASE f # e
    <3>1. Held(k, f) = Held(l, f)
      BY <1>4, <1>5, <1>6, <2>3 DEF Held
    <3>2. QED
      BY <1>3, <1>9, <2>1, <2>3, <3>1
  <2>4. QED
    BY <2>2, <2>3
<1>12. ASSUME opt, NEW u \in Tasks, k[u] # NoEndpoint, r[u] # "plain"
       PROVE  k[u] \in q.exclusive /\ \A v \in Tasks \ {u} : k[v] # k[u]
  <2>1. u # t /\ k[u] = l[u]
    BY <1>4, <1>12
  <2>2. l[u] \in p.exclusive /\ \A v \in Tasks \ {u} : l[v] # l[u]
    BY <1>12, <2>1 DEF Book
  <2>3. l[u] # e
    BY <1>5, <2>1, <2>2
  <2>4. QED
    BY <1>3, <1>4, <1>12, <2>1, <2>2, <2>3
<1>13. Active(q) = Active(p)
  BY <1>3 DEF Active
<1>14. Book(q, k, r, opt)
  BY <1>3, <1>4, <1>11, <1>12, <1>13 DEF Book
<1>15. QED
  BY <1>14 DEF q, k, e

\* What the supplier's answer adds was not in the pool, and leaves it no larger
\* than it may be.
LEMMA BookAdded ==
  ASSUME NEW p, NEW l, NEW r, NEW opt \in BOOLEAN, Book(p, l, r, opt),
         NEW found \in SUBSET Endpoints, NEW life \in Lives,
         Cardinality(found) <= FetchCount(p, opt)
  PROVE  /\ Book(Added(p, found, life, opt), l, r, opt)
         /\ Added(p, found, life, opt).fetching = p.fetching
         /\ Active(Added(p, found, life, opt)) \intersect p.slots \subseteq Active(p)
<1> DEFINE new == found \ (p.slots \union (IF opt THEN p.retired ELSE {}))
           s == p.slots \union new
           v == [e \in Endpoints |-> IF e \in new THEN life ELSE p.life[e]]
           q == Added(p, found, life, opt)
<1>1. p \in Pools
  BY DEF Book
<1>2. s \in SUBSET Endpoints /\ v \in [Endpoints -> Lives]
  BY <1>1 DEF Pools
<1>3. q = [p EXCEPT !.slots = s, !.life = v]
  BY DEF Added
<1>4. new \subseteq found /\ new \intersect p.slots = {} /\ s = p.slots \union new
  OBVIOUS
<1> HIDE DEF new, s, v, q
<1>5. q \in Pools
  BY <1>1, <1>2, <1>3 DEF Pools
<1>6. /\ q.slots = s /\ q.draining = p.draining /\ q.exclusive = p.exclusive
      /\ q.inFlight = p.inFlight /\ q.fetching = p.fetching
  BY <1>1, <1>3 DEF Pools
<1>7. Cardinality(Active(q)) <= PoolSize
  <2>1. IsFiniteSet(found) /\ Cardinality(found) \in Nat /\ IsFiniteSet(Active(p))
        /\ Cardinality(Active(p)) \in Nat /\ Cardinality(Active(q)) \in Nat
        /\ PoolSize \in Nat /\ RefillBatch \in Nat
    BY <1>1, <1>5, ActiveFinite, PoolAssumption, FS_Subset, FS_CardinalityType
  <2>2. Active(q) \subseteq Active(p) \union found
    BY <1>4, <1>6 DEF Active
  <2>3. /\ IsFiniteSet(Active(p) \union found)
        /\ Cardinality(Active(p) \union found) <= Cardinality(Active(p)) + Cardinality(found)
        /\ Cardinality(Active(p) \union found) \in Nat
    <3>1. /\ IsFiniteSet(Active(p) \union found)
          /\ Cardinality(Active(p) \union found) =
               Cardinality(Active(p)) + Cardinality(found) - Cardinality(Active(p) \cap found)
      BY <2>1, FS_Union
    <3>2. Cardinality(Active(p) \cap found) \in Nat
      BY <2>1, FS_Intersection, FS_CardinalityType
    <3>3. QED
      BY <2>1, <3>1, <3>2, FS_CardinalityType
  <2>4. Cardinality(Active(q)) <= Cardinality(Active(p) \union found)
    BY <2>2, <2>3, FS_Subset
  <2>5. FetchCount(p, opt) <= PoolSize - Cardinality(Active(p))
    BY <2>1 DEF FetchCount
  <2>6. FetchCount(p, opt) \in Int
    BY <2>1 DEF FetchCount
  <2>7. QED
    BY <2>1, <2>3, <2>4, <2>5, <2>6
<1>8. Book(q, l, r, opt)
  BY <1>4, <1>5, <1>6, <1>7 DEF Book
<1>9. Active(q) \intersect p.slots \subseteq Active(p)
  BY <1>6 DEF Active
<1>10. QED
  BY <1>6, <1>8, <1>9 DEF q

\* A lease that comes back after a success, or after a failure.
LEMMA BookOnSuccess ==
  ASSUME NEW p, NEW l, NEW r, NEW opt \in BOOLEAN, Book(p, l, r, opt),
         NEW t \in Tasks, l[t] # NoEndpoint
  PROVE  /\ Book(OnSuccess(p, l[t], opt), [l EXCEPT ![t] = NoEndpoint], r, opt)
         /\ OnSuccess(p, l[t], opt).fetching = p.fetching
         /\ Active(OnSuccess(p, l[t], opt)) \subseteq Active(p)
<1>1. p \in Pools /\ l[t] \in Endpoints /\ l[t] \in p.slots
  BY BookUsed DEF Book
<1>2. Book(Returned(p, l[t]), [l EXCEPT ![t] = NoEndpoint], r, opt)
  BY BookReturned
<1>3. Closes(Returned(p, l[t]), OnSuccess(p, l[t], opt))
  BY <1>1, OnSuccessCloses
<1>4. Book(OnSuccess(p, l[t], opt), [l EXCEPT ![t] = NoEndpoint], r, opt)
  BY <1>2, <1>3, BookCloses
<1>5. Returned(p, l[t]).fetching = p.fetching /\ Active(Returned(p, l[t])) = Active(p)
  BY <1>1, ReturnedFields DEF Active
<1>6. QED
  BY <1>3, <1>4, <1>5 DEF Closes

LEMMA BookOnFailure ==
  ASSUME NEW p, NEW l, NEW r, NEW opt \in BOOLEAN, Book(p, l, r, opt),
         NEW t \in Tasks, l[t] # NoEndpoint, NEW kind \in Kinds, NEW platform \in Platforms
  PROVE  /\ Book(OnFailure(p, l[t], kind, platform, opt), [l EXCEPT ![t] = NoEndpoint], r, opt)
         /\ OnFailure(p, l[t], kind, platform, opt).fetching = p.fetching
         /\ Active(OnFailure(p, l[t], kind, platform, opt)) \subseteq Active(p)
<1>1. p \in Pools /\ l[t] \in Endpoints /\ l[t] \in p.slots
  BY BookUsed DEF Book
<1>2. Book(Returned(p, l[t]), [l EXCEPT ![t] = NoEndpoint], r, opt)
  BY BookReturned
<1>3. Closes(Returned(p, l[t]), OnFailure(p, l[t], kind, platform, opt))
  BY <1>1, OnFailureCloses
<1>4. Book(OnFailure(p, l[t], kind, platform, opt), [l EXCEPT ![t] = NoEndpoint], r, opt)
  BY <1>2, <1>3, BookCloses
<1>5. Returned(p, l[t]).fetching = p.fetching /\ Active(Returned(p, l[t])) = Active(p)
  BY <1>1, ReturnedFields DEF Active
<1>6. QED
  BY <1>3, <1>4, <1>5 DEF Closes

-----------------------------------------------------------------------------
(* Who waits, and for whom *)

Used(l) == {e \in Endpoints : Held(l, e) # {}}

\* With the tasks at the places c and the leases l: the pool believes in a buyer
\* when there is one, there is at most one, and who waits waits for it or for
\* the holders of a full pool.
Wakes(c, l, fetching) ==
    /\ fetching <=> \E u \in Tasks : c[u] = "fetch"
    /\ \A t, u \in Tasks : c[t] = "fetch" /\ c[u] = "fetch" => t = u
    /\ \A t \in Tasks : c[t] = "wait" =>
          (\E u \in Tasks : c[u] = "fetch") \/ Cardinality(Used(l)) >= PoolSize

LEMMA UsedFinite ==
  ASSUME NEW l
  PROVE  IsFiniteSet(Used(l)) /\ Cardinality(Used(l)) \in Nat
<1>1. Used(l) \subseteq Endpoints /\ IsFiniteSet(Endpoints)
  BY PoolAssumption DEF Used
<1>2. QED
  BY <1>1, FS_Subset, FS_CardinalityType

\* A step of a task that neither waits nor buys and gives no lease back.
LEMMA WakesGoto ==
  ASSUME NEW c \in [Tasks -> Places], NEW l, NEW k, NEW f, Wakes(c, l, f),
         NEW t \in Tasks, c[t] # "fetch", NEW place, place \notin {"wait", "fetch"},
         Used(l) \subseteq Used(k)
  PROVE  Wakes([c EXCEPT ![t] = place], k, f)
<1> DEFINE d == [c EXCEPT ![t] = place]
<1>1. \A u \in Tasks : (d[u] = "fetch" <=> c[u] = "fetch") /\ (d[u] = "wait" => c[u] = "wait")
  OBVIOUS
<1>2. Cardinality(Used(l)) >= PoolSize => Cardinality(Used(k)) >= PoolSize
  BY UsedFinite, FS_Subset, PoolAssumption
<1> HIDE DEF d
<1>3. Wakes(d, k, f)
  BY <1>1, <1>2 DEF Wakes
<1>4. QED
  BY <1>3 DEF d

\* A step that wakes everybody.
LEMMA WakesNotify ==
  ASSUME NEW c \in [Tasks -> Places], NEW l, NEW k, NEW f, Wakes(c, l, f),
         NEW t \in Tasks, NEW place, place \notin {"wait", "fetch"},
         NEW d, d = [u \in Tasks |-> IF u = t THEN place
                                    ELSE IF c[u] = "wait" THEN "woken" ELSE c[u]]
  PROVE  Wakes(d, k, IF c[t] = "fetch" THEN FALSE ELSE f)
<1>1. \A u \in Tasks : (d[u] = "fetch" <=> c[u] = "fetch" /\ u # t) /\ d[u] # "wait"
  OBVIOUS
<1>2. QED
  BY <1>1 DEF Wakes

LEMMA WakesBought ==
  ASSUME NEW c \in [Tasks -> Places], NEW l, NEW k, NEW f, Wakes(c, l, f),
         NEW t \in Tasks, c[t] = "fetch", NEW place, place \notin {"wait", "fetch"},
         NEW d, d = [u \in Tasks |-> IF u = t THEN place
                                    ELSE IF c[u] = "wait" THEN "woken" ELSE c[u]]
  PROVE  Wakes(d, k, FALSE)
<1>1. \A u \in Tasks : (d[u] = "fetch" <=> c[u] = "fetch" /\ u # t) /\ d[u] # "wait"
  OBVIOUS
<1>2. QED
  BY <1>1 DEF Wakes

LEMMA WakesBuy ==
  ASSUME NEW c \in [Tasks -> Places], NEW l, Wakes(c, l, FALSE), NEW t \in Tasks
  PROVE  Wakes([c EXCEPT ![t] = "fetch"], l, TRUE)
BY DEF Wakes

LEMMA WakesWait ==
  ASSUME NEW c \in [Tasks -> Places], NEW l, NEW f, Wakes(c, l, f), NEW t \in Tasks,
         c[t] # "fetch", f \/ Cardinality(Used(l)) >= PoolSize
  PROVE  Wakes([c EXCEPT ![t] = "wait"], l, f)
BY DEF Wakes

-----------------------------------------------------------------------------
(* The inductive invariant *)

\* TypeOK, without the pool and the leases that Book speaks of.
Types ==
    /\ plan \in Plans /\ optimized \in BOOLEAN
    /\ role \in [Tasks -> Roles \union {"none"}]
    /\ pc \in [Tasks -> Places]
    /\ goal \in [Tasks -> Goals]
    /\ failed \in [Tasks -> Kinds]
    /\ started \in [Tasks -> BOOLEAN]
    /\ need \in [Tasks -> Lives]
    /\ identity \in [Tasks -> Endpoints \union {NoEndpoint, Stray}]
    /\ minter \in Tasks \union {NoTask}
    /\ browsers \subseteq Tasks

Booked == Book(pool, lease, role, optimized)
Waking == Wakes(pc, lease, pool.fetching)

SessionsPlaced == sessions \in [Endpoints -> Endpoints \union {NoEndpoint}]

Borrowing == {"acquire", "wait", "woken", "fetch"}
OnLease == {"sent", "look", "lock", "recheck", "mint", "launch", "minting", "open",
            "browsing", "closing", "unwinding"}
InBrowser == {"open", "browsing", "closing", "unwinding"}

\* Where a task has a lease, and where it has none.
LeaseAt(t) ==
    /\ pc[t] \in Borrowing \union {"idle"} => lease[t] = NoEndpoint
    /\ pc[t] \in OnLease => lease[t] # NoEndpoint
    /\ started[t] => lease[t] # NoEndpoint
    /\ pc[t] = "minting" => started[t]

\* Where a task has the visitors' lock, or a browser.
LocksAt(t) ==
    /\ minter = t => \/ pc[t] \in {"recheck", "mint", "launch", "minting"}
                     \/ pc[t] \in Borrowing /\ goal[t] \in {"recheck", "mint", "launch"}
    /\ t \in browsers <=> \/ pc[t] \in InBrowser
                          \/ pc[t] \in Borrowing /\ goal[t] = "open"

\* A request needs no more of its lease than a visitor does: the visitor that a
\* task has is of its lease, which it keeps, or of another one than the lease
\* under which it was filed.
VisitorAt(t) ==
    RequestNeed = Short =>
        /\ identity[t] # NoEndpoint =>
              identity[t] = Stray \/ (identity[t] = lease[t] /\ started[t])
        /\ role[t] = "douyin" /\ pc[t] \in Borrowing /\ goal[t] = "sent" => identity[t] = Stray
        /\ role[t] = "douyin" /\ pc[t] = "sent" => identity[t] \in {lease[t], Stray}

\* A task has a role of its plan, but for the ones that are out; a plain
\* collection queues for nothing but a lease to send its request through.
RoleAt(t) ==
    /\ role[t] \in plan[t] \union {"none"}
    /\ role[t] = "none" => pc[t] = "idle"
    /\ role[t] = "plain" => \/ pc[t] \in {"ready", "sent"}
                            \/ pc[t] \in Borrowing /\ goal[t] = "sent"

Own(t) == LeaseAt(t) /\ LocksAt(t) /\ VisitorAt(t) /\ RoleAt(t)

IInv ==
    /\ Types /\ SessionsPlaced
    /\ Booked /\ Waking
    /\ \A t \in Tasks : Own(t)

\* What a step of t leaves to the other tasks.
Others(t) ==
    /\ \A u \in Tasks \ {t} :
        /\ pc'[u] = pc[u] \/ (pc[u] = "wait" /\ pc'[u] = "woken")
        /\ role'[u] = role[u] /\ goal'[u] = goal[u] /\ lease'[u] = lease[u]
        /\ started'[u] = started[u] /\ identity'[u] = identity[u]
    /\ plan' = plan /\ (minter' # minter => minter' \in {t, NoTask})
    /\ browsers' \ {t} = browsers \ {t}

\* Once in use a lease is only given up by leaving.
Stable(t) == started[t] /\ lease'[t] # lease[t] => pc'[t] = "idle"

TableStep == [Table!Next]_<<lease, Active(pool)>>

\* A step of t keeps the invariant, and the promise of the table of leases.
Keeps(t) ==
    /\ Types' /\ SessionsPlaced' /\ Booked' /\ Waking'
    /\ Own(t)' /\ Others(t) /\ Stable(t) /\ TableStep

LEMMA OthersKeep ==
  ASSUME IInv, NEW t \in Tasks, Others(t), NEW u \in Tasks \ {t}
  PROVE  Own(u)'
<1>1. Own(u) /\ pc \in [Tasks -> Places]
  BY DEF IInv, Types
<1>2. /\ pc'[u] = pc[u] \/ (pc[u] = "wait" /\ pc'[u] = "woken")
      /\ role'[u] = role[u] /\ goal'[u] = goal[u] /\ lease'[u] = lease[u]
      /\ started'[u] = started[u] /\ identity'[u] = identity[u]
  BY DEF Others
<1>3. minter' = u => minter = u
  BY LeasesAssumption DEF Others
<1>4. u \in browsers' <=> u \in browsers
  BY DEF Others
<1>5. LeaseAt(u)'
  BY <1>1, <1>2 DEF Own, LeaseAt, Borrowing, OnLease
<1>6. LocksAt(u)'
  BY <1>1, <1>2, <1>3, <1>4 DEF Own, LocksAt, InBrowser, Borrowing
<1>7. VisitorAt(u)'
  BY <1>1, <1>2 DEF Own, VisitorAt, Borrowing
<1>8. RoleAt(u)'
  BY <1>1, <1>2 DEF Others, Own, RoleAt, Borrowing
<1>9. QED
  BY <1>5, <1>6, <1>7, <1>8 DEF Own

LEMMA KeepsInvariant ==
  ASSUME IInv, NEW t \in Tasks, Keeps(t)
  PROVE  /\ IInv' /\ TableStep
         /\ \A u \in Tasks : started[u] /\ lease'[u] # lease[u] => pc'[u] = "idle"
<1>1. \A u \in Tasks : Own(u)'
  BY OthersKeep DEF Keeps
<1>2. IInv'
  BY <1>1 DEF Keeps, IInv
<1>3. ASSUME NEW u \in Tasks, started[u], lease'[u] # lease[u] PROVE pc'[u] = "idle"
  BY <1>3 DEF Keeps, Others, Stable
<1>4. QED
  BY <1>2, <1>3 DEF Keeps

LEMMA TableCounts ==
  ASSUME NEW S
  PROVE  Table!Cardinality(S) = Cardinality(S)
BY DEF Table!Cardinality, Cardinality

\* Steps of the table of leases.
LEMMA TableCloses ==
  ASSUME lease' = lease, Active(pool') \subseteq Active(pool)
  PROVE  TableStep
BY DEF TableStep, Table!Next, Table!Close

LEMMA TableReturns ==
  ASSUME NEW t \in Tasks, lease[t] # NoEndpoint, lease' = [lease EXCEPT ![t] = NoEndpoint],
         Active(pool') \subseteq Active(pool)
  PROVE  TableStep
BY DEF TableStep, Table!Next, Table!Return, Table!Close

-----------------------------------------------------------------------------
(* Borrowing *)

LEMMA CleanedBooked ==
  ASSUME IInv
  PROVE  /\ Closes(pool, Cleaned(pool)) /\ Book(Cleaned(pool), lease, role, optimized)
         /\ Cleaned(pool) \in Pools /\ optimized \in BOOLEAN
<1>1. pool \in Pools /\ Booked /\ optimized \in BOOLEAN
  BY DEF IInv, Booked, Book, Types
<1>2. Closes(pool, Cleaned(pool))
  BY <1>1, CleanedCloses
<1>3. QED
  BY <1>1, <1>2, BookCloses DEF Booked, Closes

LEMMA GrantKeeps ==
  ASSUME IInv, NEW t \in Tasks, Grant(t)
  PROVE  Keeps(t)
<1> DEFINE p == Cleaned(pool)
<1>1. PICK e \in Selected(p, Req(t), optimized) :
        pool' = Leased(p, e, Req(t), optimized) /\ lease' = [lease EXCEPT ![t] = e]
  BY DEF Grant
<1>2. /\ Closes(pool, p) /\ Book(p, lease, role, optimized) /\ p \in Pools
      /\ optimized \in BOOLEAN
  BY CleanedBooked
<1>3. /\ Types /\ Own(t) /\ lease \in Leases /\ Waking /\ SessionsPlaced
      /\ pc[t] \in {"acquire", "woken"}
  BY DEF IInv, Booked, Book, Grant
<1>4. lease[t] = NoEndpoint
  BY <1>3 DEF Own, LeaseAt, Borrowing
<1>5. Req(t).exclusive = (role[t] # "plain")
  BY DEF Req, Exclusive
<1> HIDE DEF p
<1>6. Book(pool', lease', role, optimized)
  BY <1>1, <1>2, <1>4, <1>5, BookLeased
<1>7. /\ pc' = [pc EXCEPT ![t] = goal[t]]
      /\ started' = [started EXCEPT ![t] = @ \/ goal[t] = "sent"]
      /\ UNCHANGED <<plan, optimized, role, goal, failed, need, identity, sessions, minter,
                     browsers>>
  BY DEF Grant, Goto, Reach, setting, locks
<1>8. goal[t] \in Goals /\ goal[t] \in Places
  BY <1>3 DEF Types, Places
<1>9. e \in Endpoints /\ e \in Active(p) /\ p.inFlight[e] < MaxUsers /\ e # NoEndpoint
  <2>1. e \in Endpoints /\ e \in Active(p) /\ p.inFlight[e] < MaxUsers
    BY <1>1, <1>2, SelectedFree
  <2>2. QED
    BY <2>1, LeasesAssumption
<1>10. pool'.fetching = pool.fetching /\ Active(pool') = Active(p)
  <2>1. p \in Pools /\ e \in Endpoints
    BY <1>2, <1>9
  <2>2. QED
    BY <1>1, <1>2, <2>1, LeasedLeaves DEF Closes
<1>11. Types'
  BY <1>3, <1>7, <1>8 DEF Types
<1>12. Booked'
  BY <1>6, <1>7 DEF Booked
<1>13. SessionsPlaced'
  BY <1>3, <1>7 DEF SessionsPlaced
<1>14. Waking'
  <2>1. Used(lease) \subseteq Used(lease')
    BY <1>1, <1>3, <1>4, LeasesAssumption DEF Used, Held, Leases
  <2>2. pc \in [Tasks -> Places] /\ pc[t] # "fetch" /\ goal[t] \notin {"wait", "fetch"}
        /\ Wakes(pc, lease, pool.fetching)
    BY <1>3, <1>8 DEF Types, Waking, Goals
  <2>3. Wakes([pc EXCEPT ![t] = goal[t]], lease', pool.fetching)
    BY <2>1, <2>2, WakesGoto
  <2>4. QED
    BY <1>7, <1>10, <2>3 DEF Waking
<1>15. /\ pc'[t] = goal[t] /\ lease'[t] = e /\ goal'[t] = goal[t]
       /\ started'[t] = (started[t] \/ goal[t] = "sent")
       /\ identity'[t] = identity[t] /\ role'[t] = role[t] /\ minter' = minter
       /\ browsers' = browsers
  BY <1>1, <1>3, <1>7 DEF Types, Leases
<1>16. Own(t)'
  <2>1. LeaseAt(t)'
    BY <1>8, <1>9, <1>15 DEF LeaseAt, Goals, Borrowing, OnLease
  <2>2. LocksAt(t)'
    BY <1>3, <1>8, <1>15 DEF LocksAt, InBrowser, Own, Borrowing, Goals
  <2>3. VisitorAt(t)'
    BY <1>3, <1>4, <1>8, <1>15 DEF VisitorAt, Own, LeaseAt, Borrowing, Goals
  <2>4. RoleAt(t)'
    BY <1>3, <1>7, <1>15 DEF RoleAt, Own, Borrowing
  <2>5. QED
    BY <2>1, <2>2, <2>3, <2>4 DEF Own
<1>17. Others(t)
  BY <1>1, <1>3, <1>7 DEF Others, Types, Leases
<1>18. Stable(t)
  BY <1>3, <1>4 DEF Stable, Own, LeaseAt
<1>19. TableStep
  <2>1. Active(pool') \subseteq Active(pool)
    BY <1>2, <1>10 DEF Closes
  <2>2. Table!Cardinality(Table!Users(e)) < MaxUsers
    <3>1. Table!Users(e) = Held(lease, e)
      BY DEF Table!Users, Held
    <3>2. QED
      BY <1>2, <1>9, <3>1, TableCounts DEF Book
  <2>3. Table!Grant(t, e) /\ Table!Close
    BY <1>1, <1>4, <1>9, <1>10, <2>1, <2>2 DEF Table!Grant, Table!Close
  <2>4. QED
    BY <1>9, <2>3 DEF TableStep, Table!Next
<1>20. QED
  BY <1>11, <1>12, <1>13, <1>14, <1>16, <1>17, <1>18, <1>19 DEF Keeps

\* Buying and waiting close endpoints at most.
LEMMA ReplacedBooked ==
  ASSUME IInv, NEW t \in Tasks, NEW p \in Replaced(Cleaned(pool), Req(t), optimized)
  PROVE  /\ p \in Pools /\ Book(p, lease, role, optimized)
         /\ p.fetching = pool.fetching /\ Active(p) \subseteq Active(pool)
<1>1. /\ Closes(pool, Cleaned(pool)) /\ Book(Cleaned(pool), lease, role, optimized)
      /\ Cleaned(pool) \in Pools /\ optimized \in BOOLEAN
  BY CleanedBooked
<1>2. Closes(Cleaned(pool), p)
  BY <1>1, ReplacedCloses
<1>3. QED
  BY <1>1, <1>2, BookCloses DEF Closes

LEMMA BuyKeeps ==
  ASSUME IInv, NEW t \in Tasks, Buy(t)
  PROVE  Keeps(t)
<1>1. PICK p \in Replaced(Cleaned(pool), Req(t), optimized) :
        MayFetch(p) /\ pool' = [p EXCEPT !.fetching = TRUE]
  BY DEF Buy
<1>2. /\ p \in Pools /\ Book(p, lease, role, optimized)
      /\ p.fetching = pool.fetching /\ Active(p) \subseteq Active(pool)
  BY ReplacedBooked
<1>3. Types /\ Own(t) /\ lease \in Leases /\ Waking /\ SessionsPlaced
  BY DEF IInv, Booked, Book
<1>4. /\ pc[t] \in {"acquire", "woken"} /\ pc' = [pc EXCEPT ![t] = "fetch"]
      /\ UNCHANGED <<plan, optimized, role, goal, lease, failed, started, need, identity,
                     sessions, minter, browsers>>
  BY DEF Buy, Goto, setting, locks
<1>5. Closes(p, pool') \/ (pool' \in Pools /\ Active(pool') = Active(p) /\ pool'.fetching
                           /\ Book(pool', lease, role, optimized))
  BY <1>1, <1>2 DEF Book, Pools, Active
<1>6. Book(pool', lease, role, optimized) /\ Active(pool') \subseteq Active(pool)
  BY <1>2, <1>5, BookCloses DEF Closes
<1>7. pool'.fetching = TRUE /\ pool.fetching = FALSE
  <2>1. pool \in Pools
    BY DEF IInv, Booked, Book
  <2>2. QED
    BY <1>1, <1>2, <2>1 DEF MayFetch, Pools
<1>8. Types'
  BY <1>3, <1>4 DEF Types, Places
<1>9. Waking'
  <2>1. Wakes([pc EXCEPT ![t] = "fetch"], lease, TRUE)
    BY <1>3, <1>7, WakesBuy DEF Waking, Types
  <2>2. QED
    BY <1>4, <1>7, <2>1 DEF Waking
<1>10. pc'[t] = "fetch"
  BY <1>3, <1>4 DEF Types
<1>11. Own(t)'
  BY <1>3, <1>4, <1>10 DEF Own, LeaseAt, LocksAt, InBrowser, VisitorAt, RoleAt, Borrowing, OnLease
<1>12. Others(t) /\ Stable(t)
  BY <1>3, <1>4 DEF Others, Stable, Types
<1>13. TableStep
  BY <1>4, <1>6, TableCloses
<1>14. QED
  BY <1>3, <1>4, <1>6, <1>8, <1>9, <1>11, <1>12, <1>13
  DEF Keeps, Booked, SessionsPlaced

LEMMA WaitKeeps ==
  ASSUME IInv, NEW t \in Tasks, Wait(t)
  PROVE  Keeps(t)
<1> DEFINE c == Cleaned(pool)
<1>1. pool' \in Replaced(c, Req(t), optimized) /\ ~MayFetch(pool')
  BY DEF Wait
<1>2. /\ Book(pool', lease, role, optimized)
      /\ pool'.fetching = pool.fetching /\ Active(pool') \subseteq Active(pool)
  BY <1>1, ReplacedBooked
<1>3. Types /\ Own(t) /\ lease \in Leases /\ Waking /\ SessionsPlaced
  BY DEF IInv, Booked, Book
<1>4. /\ pc[t] \in {"acquire", "woken"} /\ pc' = [pc EXCEPT ![t] = "wait"]
      /\ UNCHANGED <<plan, optimized, role, goal, lease, failed, started, need, identity,
                     sessions, minter, browsers>>
  BY DEF Wait, Goto, setting, locks
<1>5. pool.fetching \/ Cardinality(Used(lease)) >= PoolSize
  <2> SUFFICES ASSUME ~pool.fetching PROVE Cardinality(Used(lease)) >= PoolSize
    OBVIOUS
  <2>1. Candidates(c, Req(t), optimized) = {}
    BY DEF Wait, NothingFree
  <2>2. /\ Closes(pool, c) /\ Book(c, lease, role, optimized) /\ c \in Pools
        /\ optimized \in BOOLEAN
    BY CleanedBooked
  <2>3. Cardinality(Active(c)) <= PoolSize /\ ~c.fetching
    BY <2>2 DEF Book, Closes
  <2> HIDE DEF c
  <2>4. Cardinality(Active(c)) >= PoolSize /\ \A e \in Active(c) : c.inFlight[e] # 0
    BY <1>1, <2>1, <2>2, <2>3, FullWhenWaiting
  <2>5. ASSUME NEW e \in Active(c) PROVE e \in Used(lease)
    <3>1. e \in Endpoints
      BY <2>2 DEF Active, Pools
    <3>2. Held(lease, e) # {}
      BY <1>3, <2>2, <2>4, <3>1, HeldFinite DEF Book
    <3>3. QED
      BY <3>1, <3>2 DEF Used
  <2>6. Cardinality(Active(c)) <= Cardinality(Used(lease))
    BY <2>5, UsedFinite, FS_Subset
  <2>7. QED
    BY <2>2, <2>4, <2>6, UsedFinite, ActiveFinite, PoolAssumption
<1>6. Types'
  BY <1>3, <1>4 DEF Types, Places
<1>7. Waking'
  <2>1. Wakes([pc EXCEPT ![t] = "wait"], lease, pool.fetching)
    BY <1>3, <1>4, <1>5, WakesWait DEF Waking, Types
  <2>2. QED
    BY <1>2, <1>4, <2>1 DEF Waking
<1>8. pc'[t] = "wait"
  BY <1>3, <1>4 DEF Types
<1>9. Own(t)'
  BY <1>3, <1>4, <1>8 DEF Own, LeaseAt, LocksAt, InBrowser, VisitorAt, RoleAt, Borrowing, OnLease
<1>10. Others(t) /\ Stable(t)
  BY <1>3, <1>4 DEF Others, Stable, Types
<1>11. TableStep
  BY <1>2, <1>4, TableCloses
<1>12. QED
  BY <1>2, <1>3, <1>4, <1>6, <1>7, <1>9, <1>10, <1>11
  DEF Keeps, Booked, SessionsPlaced

-----------------------------------------------------------------------------
(* A lease that lasts, is exchanged, or ends the step *)

\* Where Proceed takes a task: on with its lease, or to borrow one.
Went(t, seconds, place) ==
    \/ /\ lease[t] # NoEndpoint /\ lease'[t] = lease[t]
       /\ pc'[t] = place /\ goal'[t] = goal[t]
       /\ started'[t] = (started[t] \/ place = "sent")
    \/ /\ lease[t] = NoEndpoint \/ (optimized /\ ~started[t] /\ pool.life[lease[t]] < seconds)
       /\ lease'[t] = NoEndpoint /\ pc'[t] = "acquire" /\ goal'[t] = place
       /\ started'[t] = FALSE

Aside(t) ==
    \A u \in Tasks \ {t} :
        /\ pc'[u] = pc[u] \/ (pc[u] = "wait" /\ pc'[u] = "woken")
        /\ goal'[u] = goal[u] /\ lease'[u] = lease[u] /\ started'[u] = started[u]

Typed == /\ pc' \in [Tasks -> Places] /\ goal' \in [Tasks -> Goals]
         /\ started' \in [Tasks -> BOOLEAN]

LEMMA ProceedGoes ==
  ASSUME IInv, NEW t \in Tasks, NEW seconds, NEW place \in Goals, Proceed(t, seconds, place),
         pc[t] # "fetch", UNCHANGED <<role, optimized>>
  PROVE  Went(t, seconds, place) /\ Aside(t) /\ Typed /\ Booked' /\ Waking' /\ TableStep
<1>1. /\ pc \in [Tasks -> Places] /\ goal \in [Tasks -> Goals] /\ started \in [Tasks -> BOOLEAN]
      /\ lease \in Leases /\ optimized \in BOOLEAN /\ pool \in Pools /\ Own(t)
      /\ Book(pool, lease, role, optimized) /\ Wakes(pc, lease, pool.fetching)
  BY DEF IInv, Booked, Book, Types, Waking
<1>2. place \in Places /\ "acquire" \in Places /\ place \notin {"wait", "fetch"}
      /\ "woken" \in Places
  BY DEF Places, Goals
<1>3. CASE /\ lease[t] # NoEndpoint /\ Goto(t, place) /\ Reach(t, place)
           /\ UNCHANGED <<pool, goal, lease>>
  <2>1. /\ pc' = [pc EXCEPT ![t] = place]
        /\ started' = [started EXCEPT ![t] = @ \/ (place = "sent")]
        /\ pool' = pool /\ goal' = goal /\ lease' = lease
    BY <1>3 DEF Goto, Reach
  <2>2. Went(t, seconds, place) /\ Aside(t) /\ Typed
    BY <1>1, <1>2, <1>3, <2>1 DEF Went, Aside, Typed
  <2>3. Booked' /\ TableStep
    BY <1>1, <2>1, TableCloses DEF Booked
  <2>4. Wakes([pc EXCEPT ![t] = place], lease, pool.fetching)
    BY <1>1, <1>2, WakesGoto
  <2>5. QED
    BY <2>1, <2>2, <2>3, <2>4 DEF Waking
<1>4. CASE /\ lease[t] = NoEndpoint /\ Goto(t, "acquire") /\ goal' = [goal EXCEPT ![t] = place]
           /\ UNCHANGED <<pool, lease, started>>
  <2>1. /\ pc' = [pc EXCEPT ![t] = "acquire"]
        /\ pool' = pool /\ started' = started /\ lease' = lease
    BY <1>4 DEF Goto
  <2>2. started[t] = FALSE
    BY <1>1, <1>4 DEF Own, LeaseAt
  <2>3. Went(t, seconds, place) /\ Aside(t) /\ Typed
    BY <1>1, <1>2, <1>4, <2>1, <2>2 DEF Went, Aside, Typed
  <2>4. Booked' /\ TableStep
    BY <1>1, <2>1, TableCloses DEF Booked
  <2>5. Wakes([pc EXCEPT ![t] = "acquire"], lease, pool.fetching)
    BY <1>1, <1>2, WakesGoto
  <2>6. QED
    BY <2>1, <2>3, <2>4, <2>5 DEF Waking
<1>5. CASE /\ lease[t] # NoEndpoint /\ optimized /\ ~started[t] /\ pool.life[lease[t]] < seconds
           /\ pool' = OnSuccess(pool, lease[t], optimized)
           /\ lease' = [lease EXCEPT ![t] = NoEndpoint]
           /\ NotifyGoto(t, "acquire") /\ goal' = [goal EXCEPT ![t] = place]
           /\ UNCHANGED started
  <2>1. pc' = [u \in Tasks |-> IF u = t THEN "acquire"
                               ELSE IF pc[u] = "wait" THEN "woken" ELSE pc[u]]
    BY <1>5 DEF NotifyGoto
  <2>2. Went(t, seconds, place) /\ Aside(t) /\ Typed
    <3>1. pc'[t] = "acquire" /\ lease'[t] = NoEndpoint /\ goal'[t] = place
          /\ started'[t] = FALSE
      BY <1>1, <1>5, <2>1 DEF Leases
    <3>2. Went(t, seconds, place)
      BY <1>5, <3>1 DEF Went
    <3>3. Aside(t)
      BY <1>1, <1>5, <2>1 DEF Aside, Leases
    <3>4. Typed
      BY <1>1, <1>2, <1>5, <2>1 DEF Typed
    <3>5. QED
      BY <3>2, <3>3, <3>4
  <2>3. /\ Book(pool', lease', role, optimized) /\ pool'.fetching = pool.fetching
        /\ Active(pool') \subseteq Active(pool)
    <3>1. lease[t] # NoEndpoint
      BY <1>5
    <3>2. /\ Book(OnSuccess(pool, lease[t], optimized), [lease EXCEPT ![t] = NoEndpoint],
                  role, optimized)
          /\ OnSuccess(pool, lease[t], optimized).fetching = pool.fetching
          /\ Active(OnSuccess(pool, lease[t], optimized)) \subseteq Active(pool)
      BY <1>1, <3>1, BookOnSuccess
    <3>3. QED
      BY <1>5, <3>2
  <2>4. Booked'
    BY <2>3 DEF Booked
  <2>5. TableStep
    BY <1>5, <2>3, TableReturns
  <2>6. Wakes(pc', lease', pool.fetching)
    BY <1>1, <2>1, WakesNotify
  <2>7. QED
    BY <2>2, <2>3, <2>4, <2>5, <2>6 DEF Waking
<1>6. QED
  BY <1>3, <1>4, <1>5 DEF Proceed

LEMMA AskingType ==
  ASSUME Types, NEW t \in Tasks, NEW seconds \in {Short, Long}, Asking(t, seconds)
  PROVE  need' \in [Tasks -> Lives]
<1>1. seconds \in Lives
  BY DEF Short, Long, Lives, Expired
<1>2. need \in [Tasks -> Lives]
  BY DEF Types
<1>3. QED
  BY <1>1, <1>2 DEF Asking

\* ensure_proxy_lifetime that succeeds, with the locks the step takes.
LEMMA EnsureKeeps ==
  ASSUME IInv, NEW t \in Tasks, NEW seconds \in {Short, Long}, NEW place \in Goals,
         Ensure(t, seconds, place), pc[t] # "fetch",
         minter' \in {minter, t}, browsers' \in {browsers, browsers \union {t}},
         minter' = t => place \in {"recheck", "mint", "launch"},
         t \in browsers' <=> place = "open",
         role[t] = "douyin" /\ place = "sent" => identity[t] # NoEndpoint,
         pc[t] # "idle", role[t] = "plain" => place = "sent"
  PROVE  Keeps(t)
<1>1. /\ Proceed(t, seconds, place) /\ Asking(t, seconds)
      /\ UNCHANGED <<plan, optimized, role, identity, sessions>>
  BY DEF Ensure, setting, locks
<1>2. Went(t, seconds, place) /\ Aside(t) /\ Typed /\ Booked' /\ Waking' /\ TableStep
  BY <1>1, ProceedGoes
<1>3. Types /\ Own(t) /\ SessionsPlaced
  BY DEF IInv
<1>4. need' \in [Tasks -> Lives] /\ failed' = failed
  BY <1>1, <1>3, AskingType DEF Proceed
<1>5. Types'
  BY <1>1, <1>2, <1>3, <1>4 DEF Types, Typed
<1>6. Own(t)'
  <2>1. LeaseAt(t)'
    BY <1>2 DEF Went, LeaseAt, Borrowing, OnLease, Goals
  <2>2. LocksAt(t)'
    BY <1>2 DEF Went, LocksAt, InBrowser, Borrowing, Goals
  <2>3. VisitorAt(t)'
    BY <1>1, <1>2, <1>3 DEF Went, VisitorAt, Own, LeaseAt, Borrowing, Goals
  <2>4. RoleAt(t)'
    BY <1>1, <1>2, <1>3 DEF Went, RoleAt, Own, Borrowing
  <2>5. QED
    BY <2>1, <2>2, <2>3, <2>4 DEF Own
<1>7. Others(t)
  BY <1>1, <1>2 DEF Others, Aside
<1>8. Stable(t)
  BY <1>2, <1>3 DEF Stable, Went, Own, LeaseAt
<1>9. QED
  BY <1>1, <1>2, <1>3, <1>5, <1>6, <1>7, <1>8 DEF Keeps, SessionsPlaced

\* A lease in use that is too short: the task goes on without its locks.
LEMMA TooShortKeeps ==
  ASSUME IInv, NEW t \in Tasks, NEW seconds \in {Short, Long}, TooShort(t, seconds),
         Asking(t, seconds), pc[t] \notin {"fetch", "idle"}, UNCHANGED <<plan, optimized, role>>,
         SessionsPlaced', identity' \in [Tasks -> Endpoints \union {NoEndpoint, Stray}],
         identity'[t] \in {identity[t], lease[t], Stray},
         \A u \in Tasks \ {t} : identity'[u] = identity[u]
  PROVE  Keeps(t)
<1>1. /\ lease[t] # NoEndpoint /\ started[t] /\ failed' = [failed EXCEPT ![t] = "task"]
      /\ pc' = [pc EXCEPT ![t] = "ready"]
      /\ minter' = (IF minter = t THEN NoTask ELSE minter) /\ browsers' = browsers \ {t}
      /\ pool' = pool /\ goal' = goal /\ lease' = lease /\ started' = started
  BY DEF TooShort, Goto, Unlocked
<1>2. /\ Types /\ Own(t) /\ Booked /\ Wakes(pc, lease, pool.fetching)
      /\ "ready" \in Places /\ "task" \in Kinds
  BY DEF IInv, Waking, Places, Kinds
<1>3. need' \in [Tasks -> Lives]
  BY <1>2, AskingType
<1>4. Types'
  BY <1>1, <1>2, <1>3 DEF Types
<1>5. pc'[t] = "ready" /\ minter' # t /\ t \notin browsers'
  BY <1>1, <1>2, LeasesAssumption DEF Types
<1>6. Own(t)'
  BY <1>1, <1>2, <1>5 DEF Own, LeaseAt, LocksAt, InBrowser, VisitorAt, RoleAt, Borrowing, OnLease
<1>7. Others(t) /\ Stable(t)
  BY <1>1, <1>2 DEF Others, Stable, Types
<1>8. Booked' /\ TableStep
  BY <1>1, <1>2, TableCloses DEF Booked
<1>9. Waking'
  <2>1. Wakes([pc EXCEPT ![t] = "ready"], lease, pool.fetching)
    BY <1>2, WakesGoto DEF Types
  <2>2. QED
    BY <1>1, <2>1 DEF Waking
<1>10. QED
  BY <1>4, <1>6, <1>7, <1>8, <1>9 DEF Keeps

LEMMA EnsureFailsKeeps ==
  ASSUME IInv, NEW t \in Tasks, NEW seconds \in {Short, Long}, EnsureFails(t, seconds),
         pc[t] \notin {"fetch", "idle"}
  PROVE  Keeps(t)
<1>1. /\ TooShort(t, seconds) /\ Asking(t, seconds)
      /\ UNCHANGED <<plan, optimized, role, identity, sessions>>
  BY DEF EnsureFails, setting, locks
<1>2. /\ SessionsPlaced /\ identity \in [Tasks -> Endpoints \union {NoEndpoint, Stray}]
  BY DEF IInv, Types
<1>3. SessionsPlaced' /\ identity' \in [Tasks -> Endpoints \union {NoEndpoint, Stray}]
      /\ identity'[t] \in {identity[t], lease[t], Stray}
      /\ \A u \in Tasks \ {t} : identity'[u] = identity[u]
  BY <1>1, <1>2 DEF SessionsPlaced
<1>4. QED
  BY <1>1, <1>3, TooShortKeeps

\* A visitor of the lease is taken, and the request follows.
LEMMA UseKeeps ==
  ASSUME IInv, NEW t \in Tasks, pc[t] \in {"look", "recheck", "mint", "minting"},
         NEW v, v = Stray \/ (v = lease[t]
                              /\ (started[t] \/ (optimized => pool.life[lease[t]] >= Short))),
         Use(t, v), SessionsPlaced'
  PROVE  Keeps(t)
<1>1. /\ identity' = [identity EXCEPT ![t] = v] /\ Asking(t, RequestNeed)
      /\ (Proceed(t, RequestNeed, "sent") /\ Unlocked(t)) \/ TooShort(t, RequestNeed)
      /\ UNCHANGED <<plan, optimized, role>>
  BY DEF Use, setting, locks
<1>2. /\ Types /\ Own(t) /\ lease \in Leases /\ pool \in Pools
      /\ RequestNeed \in {Short, Long} /\ "sent" \in Goals
  BY LeasesAssumption DEF IInv, Booked, Book, Goals
<1>3. lease[t] # NoEndpoint
  BY <1>2 DEF Own, LeaseAt, OnLease
<1>4. /\ identity' \in [Tasks -> Endpoints \union {NoEndpoint, Stray}] /\ identity'[t] = v
      /\ \A u \in Tasks \ {t} : identity'[u] = identity[u]
  BY <1>1, <1>2 DEF Types, Leases
<1>5. CASE TooShort(t, RequestNeed)
  BY <1>1, <1>2, <1>4, <1>5, TooShortKeeps
<1>6. CASE Proceed(t, RequestNeed, "sent") /\ Unlocked(t)
  <2>1. Went(t, RequestNeed, "sent") /\ Aside(t) /\ Typed /\ Booked' /\ Waking' /\ TableStep
    BY <1>1, <1>2, <1>6, ProceedGoes
  <2>2. minter' = (IF minter = t THEN NoTask ELSE minter) /\ browsers' = browsers \ {t}
    BY <1>6 DEF Unlocked
  <2>3. need' \in [Tasks -> Lives] /\ failed' = failed
    BY <1>1, <1>2, <1>6, AskingType DEF Proceed
  <2>4. Types'
    BY <1>1, <1>2, <1>4, <2>1, <2>2, <2>3 DEF Types, Typed
  <2>5. minter' # t /\ t \notin browsers'
    BY <1>2, <2>2, LeasesAssumption DEF Types
  <2>6. LeaseAt(t)' /\ LocksAt(t)'
    BY <2>1, <2>5 DEF Went, LeaseAt, LocksAt, InBrowser, Borrowing, OnLease
  <2>7. VisitorAt(t)'
    <3> SUFFICES ASSUME RequestNeed = Short PROVE VisitorAt(t)'
      BY DEF VisitorAt
    <3>1. CASE v = Stray
      BY <1>4, <3>1 DEF VisitorAt
    <3>2. CASE v = lease[t] /\ v # Stray
      <4>1. ~(optimized /\ ~started[t] /\ pool.life[lease[t]] < RequestNeed)
        <5>1. lease[t] \in Endpoints
          BY <1>2, <1>3 DEF Leases
        <5>2. pool.life[lease[t]] \in Nat
          BY <1>2, <5>1 DEF Pools, Lives, Expired, Long
        <5>3. QED
          BY <3>2, <5>2 DEF Short
      <4>2. /\ lease'[t] = lease[t] /\ pc'[t] = "sent"
            /\ started'[t] = (started[t] \/ "sent" = "sent")
        BY <1>3, <2>1, <4>1 DEF Went
      <4>3. QED
        BY <1>4, <3>2, <4>2 DEF VisitorAt, Borrowing
    <3>3. QED
      BY <3>1, <3>2
  <2>8. Others(t)
    BY <1>1, <1>4, <2>1, <2>2 DEF Others, Aside
  <2>9. Stable(t)
    BY <1>2, <1>3, <2>1 DEF Stable, Went
  <2>10. RoleAt(t)'
    BY <1>1, <1>2, <2>1 DEF Went, RoleAt, Own, Borrowing
  <2>11. QED
    BY <2>1, <2>4, <2>6, <2>7, <2>8, <2>9, <2>10 DEF Keeps, Own
<1>7. QED
  BY <1>1, <1>5, <1>6

-----------------------------------------------------------------------------
(* The steps of a collection *)

LEMMA RequestKeeps ==
  ASSUME IInv, NEW t \in Tasks, Request(t) \/ VisitorRequest(t)
  PROVE  Keeps(t)
<1>1. /\ pc[t] = "ready" /\ Own(t) /\ minter # t /\ t \notin browsers
      /\ RequestNeed \in {Short, Long}
      /\ {"sent", "look"} \subseteq Goals
  BY LeasesAssumption DEF IInv, Own, LocksAt, InBrowser, Borrowing, Request, VisitorRequest, Goals
<1>2. CASE EnsureFails(t, RequestNeed) \/ EnsureFails(t, Short)
  BY <1>1, <1>2, EnsureFailsKeeps
<1>3. CASE /\ Ensure(t, RequestNeed, "sent") /\ UNCHANGED <<minter, browsers>>
           /\ role[t] # "douyin" \/ identity[t] # NoEndpoint
  <2>1. minter' = minter /\ browsers' = browsers
    BY <1>3
  <2>2. QED
    BY <1>1, <1>3, <2>1, EnsureKeeps
<1>4. CASE role[t] = "douyin" /\ Ensure(t, Short, "look") /\ UNCHANGED <<minter, browsers>>
  <2>1. minter' = minter /\ browsers' = browsers
    BY <1>4
  <2>2. QED
    BY <1>1, <1>4, <2>1, EnsureKeeps
<1>5. QED
  BY <1>2, <1>3, <1>4 DEF Request, VisitorRequest, locks

\* A step that leaves the pool and the leases alone.
LEMMA QuietKeeps ==
  ASSUME IInv, NEW t \in Tasks, NEW place \in Places, place \notin {"wait", "fetch"},
         pc[t] # "fetch", pc' = [pc EXCEPT ![t] = place],
         UNCHANGED <<pool, lease, optimized>>, role' = role \/ lease[t] = NoEndpoint,
         Types', SessionsPlaced', Own(t)', Others(t)
  PROVE  Keeps(t)
<1>1. /\ pc \in [Tasks -> Places] /\ Book(pool, lease, role, optimized)
      /\ Wakes(pc, lease, pool.fetching) /\ pool' = pool /\ lease' = lease
      /\ optimized' = optimized
  BY DEF IInv, Types, Booked, Waking
<1>2. Book(pool, lease, role', optimized)
  BY <1>1, BookRole DEF Others
<1>3. Booked' /\ TableStep
  BY <1>1, <1>2, TableCloses DEF Booked
<1>4. Wakes([pc EXCEPT ![t] = place], lease, pool.fetching)
  BY <1>1, WakesGoto
<1>5. Waking' /\ Stable(t)
  BY <1>1, <1>4 DEF Waking, Stable
<1>6. QED
  BY <1>3, <1>5 DEF Keeps

LEMMA ResponseKeeps ==
  ASSUME IInv, NEW t \in Tasks, NEW kind \in Outcomes, Response(t, kind)
  PROVE  Keeps(t)
<1>1. /\ pc[t] = "sent" /\ failed' \in {failed, [failed EXCEPT ![t] = kind]}
      /\ pc' = [pc EXCEPT ![t] = "ready"]
      /\ UNCHANGED <<plan, optimized, role, pool, goal, lease, started, need, identity, sessions,
                     minter, browsers>>
  BY DEF Response, Goto, setting, locks
<1>2. Types /\ SessionsPlaced /\ Own(t) /\ kind \in Kinds /\ "ready" \in Places
  BY LeasesAssumption DEF IInv, Outcomes, Kinds, Places
<1>3. Types' /\ SessionsPlaced' /\ pc'[t] = "ready"
  BY <1>1, <1>2 DEF Types, SessionsPlaced
<1>4. Own(t)'
  BY <1>1, <1>2, <1>3 DEF Own, LeaseAt, LocksAt, InBrowser, VisitorAt, RoleAt, Borrowing, OnLease
<1>5. Others(t)
  BY <1>1, <1>2 DEF Others, Types
<1>6. QED
  BY <1>1, <1>2, <1>3, <1>4, <1>5, QuietKeeps

LEMMA BeginKeeps ==
  ASSUME IInv, NEW t \in Tasks, NEW r \in Roles, Begin(t, r)
  PROVE  Keeps(t)
<1>1. /\ pc[t] = "idle" /\ role' = [role EXCEPT ![t] = r]
      /\ need' = [need EXCEPT ![t] = BaseNeed(r)] /\ pc' = [pc EXCEPT ![t] = "ready"]
      /\ UNCHANGED <<plan, optimized, pool, goal, lease, failed, started, identity, sessions,
                     minter, browsers>>
  BY DEF Begin, Goto, setting, locks
<1>2. Types /\ SessionsPlaced /\ Own(t) /\ BaseNeed(r) \in Lives /\ "ready" \in Places
  BY DEF IInv, BaseNeed, Lives, Long, Short, Expired, Places
<1>3. lease[t] = NoEndpoint
  BY <1>1, <1>2 DEF Own, LeaseAt
<1>4. /\ Types' /\ SessionsPlaced' /\ pc'[t] = "ready" /\ role'[t] = r
      /\ r \in plan'[t] /\ r # "none"
  BY <1>1, <1>2 DEF Types, SessionsPlaced, Begin, setting, locks, Roles
<1>5. Own(t)'
  BY <1>1, <1>2, <1>4 DEF Own, LeaseAt, LocksAt, InBrowser, VisitorAt, RoleAt, Borrowing, OnLease
<1>6. Others(t)
  BY <1>1, <1>2 DEF Others, Types
<1>7. QED
  BY <1>1, <1>2, <1>3, <1>4, <1>5, <1>6, QuietKeeps

\* A task that leaves its scope gives its lease back, and leaves its locks.
LEMMA LeftKeeps ==
  ASSUME IInv, NEW t \in Tasks, NEW kind \in Kinds, Left(t, kind), pc[t] # "fetch",
         UNCHANGED <<plan, optimized, sessions>>
  PROVE  Keeps(t)
<1>1. /\ pool' = HandedBack(t, kind)
      /\ lease' = [lease EXCEPT ![t] = NoEndpoint] /\ role' = [role EXCEPT ![t] = "none"]
      /\ failed' = [failed EXCEPT ![t] = "none"] /\ started' = [started EXCEPT ![t] = FALSE]
      /\ need' = [need EXCEPT ![t] = 0] /\ identity' = [identity EXCEPT ![t] = NoEndpoint]
      /\ goal' = [goal EXCEPT ![t] = "sent"]
      /\ minter' = (IF minter = t THEN NoTask ELSE minter) /\ browsers' = browsers \ {t}
  BY DEF Left, Reset, Unlocked
<1>2. /\ pc \in [Tasks -> Places] /\ Types /\ SessionsPlaced /\ lease \in Leases
      /\ Book(pool, lease, role, optimized) /\ Wakes(pc, lease, pool.fetching)
      /\ optimized \in BOOLEAN
  BY DEF IInv, Types, Booked, Book, Waking
<1>3. /\ "idle" \in Places /\ "woken" \in Places /\ "none" \in Kinds /\ "sent" \in Goals
      /\ 0 \in Lives
  BY DEF Places, Kinds, Goals, Lives, Expired, Long
<1>4. \/ lease[t] = NoEndpoint /\ pc' = [pc EXCEPT ![t] = "idle"]
      \/ /\ lease[t] # NoEndpoint
         /\ pc' = [u \in Tasks |-> IF u = t THEN "idle"
                                   ELSE IF pc[u] = "wait" THEN "woken" ELSE pc[u]]
  BY DEF Left, Goto, NotifyGoto
<1>5. /\ pc' \in [Tasks -> Places] /\ pc'[t] = "idle"
      /\ \A u \in Tasks \ {t} : pc'[u] = pc[u] \/ (pc[u] = "wait" /\ pc'[u] = "woken")
  BY <1>2, <1>3, <1>4
<1>6. Types'
  BY <1>1, <1>2, <1>3, <1>5 DEF Types
<1>7. SessionsPlaced'
  BY <1>2 DEF SessionsPlaced
<1>8. /\ lease'[t] = NoEndpoint /\ started'[t] = FALSE /\ identity'[t] = NoEndpoint
      /\ minter' # t /\ t \notin browsers' /\ goal'[t] = "sent" /\ role'[t] = "none"
  BY <1>1, <1>2, LeasesAssumption DEF Types, Leases
<1>9. Own(t)'
  BY <1>5, <1>8 DEF Own, LeaseAt, LocksAt, InBrowser, VisitorAt, RoleAt, Borrowing, OnLease
<1>10. Others(t)
  BY <1>1, <1>2, <1>5 DEF Others, Types, Leases
<1>11. CASE lease[t] = NoEndpoint
  <2>1. lease' = lease /\ pool' = pool
    BY <1>1, <1>2, <1>11 DEF HandedBack, Leases
  <2>2. pc' = [pc EXCEPT ![t] = "idle"]
    BY <1>4, <1>11
  <2>3. QED
    BY <1>3, <1>6, <1>7, <1>9, <1>10, <1>11, <2>1, <2>2, QuietKeeps
<1>12. CASE lease[t] # NoEndpoint
  <2>1. /\ Book(pool', lease', role, optimized) /\ pool'.fetching = pool.fetching
        /\ Active(pool') \subseteq Active(pool)
    <3>1. CASE kind = "none"
      <4>1. pool' = OnSuccess(pool, lease[t], optimized)
        BY <1>1, <1>12, <3>1 DEF HandedBack
      <4>2. /\ Book(OnSuccess(pool, lease[t], optimized), [lease EXCEPT ![t] = NoEndpoint],
                    role, optimized)
            /\ OnSuccess(pool, lease[t], optimized).fetching = pool.fetching
            /\ Active(OnSuccess(pool, lease[t], optimized)) \subseteq Active(pool)
        BY <1>2, <1>12, BookOnSuccess
      <4>3. QED
        BY <1>1, <4>1, <4>2
    <3>2. CASE kind # "none"
      <4>1. pool' = OnFailure(pool, lease[t], kind, PlatformOf[t], optimized)
        BY <1>1, <1>12, <3>2 DEF HandedBack
      <4>2. /\ PlatformOf[t] \in Platforms /\ optimized \in BOOLEAN
            /\ Book(pool, lease, role, optimized) /\ lease[t] # NoEndpoint
        BY <1>2, <1>12, LeasesAssumption
      <4>3. /\ Book(OnFailure(pool, lease[t], kind, PlatformOf[t], optimized),
                    [lease EXCEPT ![t] = NoEndpoint], role, optimized)
            /\ OnFailure(pool, lease[t], kind, PlatformOf[t], optimized).fetching = pool.fetching
            /\ Active(OnFailure(pool, lease[t], kind, PlatformOf[t], optimized))
                 \subseteq Active(pool)
        BY <4>2, BookOnFailure
      <4>4. lease' = [lease EXCEPT ![t] = NoEndpoint]
        BY <1>1
      <4>5. QED
        BY <4>1, <4>3, <4>4
    <3>3. QED
      BY <3>1, <3>2
  <2>2. Booked'
    <3>1. \A u \in Tasks \ {t} : role'[u] = role[u]
      BY <1>10 DEF Others
    <3>2. Book(pool', lease', role', optimized)
      BY <1>8, <2>1, <3>1, BookRole
    <3>3. QED
      BY <3>2 DEF Booked
  <2>3. Wakes(pc', lease', pool.fetching)
    <3>1. /\ pc \in [Tasks -> Places] /\ Wakes(pc, lease, pool.fetching)
          /\ pc' = [u \in Tasks |-> IF u = t THEN "idle"
                                    ELSE IF pc[u] = "wait" THEN "woken" ELSE pc[u]]
      BY <1>2, <1>4, <1>12
    <3>2. QED
      BY <3>1, WakesNotify
  <2>4. TableStep
    BY <1>1, <1>12, <2>1, TableReturns
  <2>5. QED
    BY <1>5, <1>6, <1>7, <1>9, <1>10, <2>1, <2>2, <2>3, <2>4 DEF Keeps, Waking, Stable
<1>13. QED
  BY <1>11, <1>12

LEMMA LeavingKeeps ==
  ASSUME IInv, NEW t \in Tasks, NEW verdict \in Outcomes,
         Finish(t, verdict) \/ EndFallback(t, verdict)
  PROVE  Keeps(t)
<1>1. verdict \in Kinds /\ Recorded(t, verdict) \in Kinds
  BY LeasesAssumption DEF Outcomes, Kinds, Recorded, IInv, Types
<1>2. pc[t] # "fetch" /\ UNCHANGED <<plan, optimized, sessions>>
      /\ \E kind \in {verdict, Recorded(t, verdict)} : Left(t, kind)
  BY DEF Finish, EndFallback, setting, locks
<1>3. QED
  BY <1>1, <1>2, LeftKeeps

-----------------------------------------------------------------------------
(* The steps that get a visitor *)

\* A visitor that is kept is the lease's own, or it was minted on another lease.
LEMMA VisitorTaken ==
  ASSUME IInv, NEW t \in Tasks, pc[t] \in {"look", "recheck", "mint"}, TakeVisitor(t)
  PROVE  Keeps(t)
<1>1. Own(t) /\ SessionsPlaced /\ lease \in Leases /\ sessions' = sessions
  BY DEF IInv, Booked, Book, TakeVisitor
<1>2. SessionsPlaced'
  BY <1>1 DEF SessionsPlaced
<1>3. CASE sessions[lease[t]] = lease[t]
  <2>1. (optimized => pool.life[lease[t]] >= Short) /\ Use(t, lease[t])
    BY <1>3 DEF TakeVisitor, Kept
  <2>2. QED
    BY <1>2, <2>1, UseKeeps
<1>4. CASE sessions[lease[t]] # lease[t]
  <2>1. Use(t, Stray)
    BY <1>4 DEF TakeVisitor
  <2>2. QED
    BY <1>2, <2>1, UseKeeps
<1>5. QED
  BY <1>3, <1>4

LEMMA LookKeeps ==
  ASSUME IInv, NEW t \in Tasks, Look(t)
  PROVE  Keeps(t)
<1>1. CASE TakeVisitor(t)
  BY <1>1, VisitorTaken DEF Look
<1>2. CASE /\ pc' = [pc EXCEPT ![t] = "lock"]
           /\ UNCHANGED <<plan, optimized, role, pool, goal, lease, failed, started, need, identity,
                          sessions, minter, browsers>>
  <2>1. Types /\ SessionsPlaced /\ Own(t) /\ "lock" \in Places /\ pc[t] = "look"
    BY DEF IInv, Places, Look
  <2>2. Types' /\ SessionsPlaced' /\ pc'[t] = "lock"
    BY <1>2, <2>1 DEF Types, SessionsPlaced
  <2>3. Own(t)'
    BY <1>2, <2>1, <2>2 DEF Own, LeaseAt, LocksAt, InBrowser, VisitorAt, RoleAt, Borrowing, OnLease
  <2>4. Others(t)
    BY <1>2, <2>1 DEF Others, Types
  <2>5. QED
    BY <1>2, <2>1, <2>2, <2>3, <2>4, QuietKeeps
<1>3. QED
  BY <1>1, <1>2 DEF Look, Goto, setting, locks

LEMMA LockKeeps ==
  ASSUME IInv, NEW t \in Tasks, Lock(t)
  PROVE  Keeps(t)
<1>1. /\ pc[t] = "lock" /\ role[t] # "plain" /\ t \notin browsers /\ "recheck" \in Goals
  BY DEF IInv, Own, LocksAt, InBrowser, RoleAt, Borrowing, Lock, Goals
<1>2. CASE Ensure(t, Short, "recheck") /\ minter' = t /\ UNCHANGED browsers
  BY <1>1, <1>2, EnsureKeeps
<1>3. CASE EnsureFails(t, Short)
  BY <1>1, <1>3, EnsureFailsKeeps
<1>4. QED
  BY <1>2, <1>3 DEF Lock

LEMMA RecheckKeeps ==
  ASSUME IInv, NEW t \in Tasks, Recheck(t)
  PROVE  Keeps(t)
<1>1. /\ pc[t] = "recheck" /\ role[t] # "plain" /\ t \notin browsers /\ "mint" \in Goals
  BY DEF IInv, Own, LocksAt, InBrowser, RoleAt, Borrowing, Recheck, Goals
<1>2. CASE Ensure(t, Long, "mint") /\ UNCHANGED <<minter, browsers>>
  <2>1. minter' = minter /\ browsers' = browsers
    BY <1>2
  <2>2. QED
    BY <1>1, <1>2, <2>1, EnsureKeeps
<1>3. CASE EnsureFails(t, Long)
  BY <1>1, <1>3, EnsureFailsKeeps
<1>4. CASE TakeVisitor(t)
  BY <1>1, <1>4, VisitorTaken
<1>5. QED
  BY <1>2, <1>3, <1>4 DEF Recheck, locks

LEMMA MintKeeps ==
  ASSUME IInv, NEW t \in Tasks, Mint(t)
  PROVE  Keeps(t)
<1>1. /\ pc[t] = "mint" /\ role[t] # "plain" /\ t \notin browsers /\ "launch" \in Goals
  BY DEF IInv, Own, LocksAt, InBrowser, RoleAt, Borrowing, Mint, Goals
<1>2. CASE Ensure(t, Long, "launch") /\ UNCHANGED <<minter, browsers>>
  <2>1. minter' = minter /\ browsers' = browsers
    BY <1>2
  <2>2. QED
    BY <1>1, <1>2, <2>1, EnsureKeeps
<1>3. CASE EnsureFails(t, Long)
  BY <1>1, <1>3, EnsureFailsKeeps
<1>4. CASE TakeVisitor(t)
  BY <1>1, <1>4, VisitorTaken
<1>5. QED
  BY <1>2, <1>3, <1>4 DEF Mint

LEMMA LaunchKeeps ==
  ASSUME IInv, NEW t \in Tasks, Launch(t)
  PROVE  Keeps(t)
<1>1. /\ pc' = [pc EXCEPT ![t] = "minting"] /\ started' = [started EXCEPT ![t] = TRUE]
      /\ UNCHANGED <<plan, optimized, role, pool, goal, lease, failed, need, identity,
                     sessions, minter, browsers>>
  BY DEF Launch, Goto, setting, locks
<1>2. Types /\ SessionsPlaced /\ Own(t) /\ "minting" \in Places /\ pc[t] = "launch"
  BY DEF IInv, Places, Launch
<1>3. Types' /\ SessionsPlaced' /\ pc'[t] = "minting" /\ started'[t] = TRUE
  BY <1>1, <1>2 DEF Types, SessionsPlaced
<1>4. Own(t)'
  BY <1>1, <1>2, <1>3
  DEF Own, LeaseAt, LocksAt, InBrowser, VisitorAt, RoleAt, Borrowing, OnLease
<1>5. Others(t)
  BY <1>1, <1>2 DEF Others, Types
<1>6. QED
  BY <1>1, <1>2, <1>3, <1>4, <1>5, QuietKeeps

LEMMA MintedKeeps ==
  ASSUME IInv, NEW t \in Tasks, Minted(t)
  PROVE  Keeps(t)
<1>1. Own(t) /\ SessionsPlaced /\ lease \in Leases /\ pc[t] = "minting"
  BY DEF IInv, Booked, Book, Minted
<1>2. lease[t] \in Endpoints /\ started[t]
  BY <1>1 DEF Own, LeaseAt, OnLease, Leases
<1>3. SessionsPlaced' /\ Use(t, lease[t])
  BY <1>1, <1>2 DEF SessionsPlaced, Minted
<1>4. QED
  BY <1>1, <1>2, <1>3, UseKeeps

-----------------------------------------------------------------------------
(* The steps with a browser *)

\* A browser is closed, or a visitor was not to be had: the locks are left.
LEMMA UnlockedKeeps ==
  ASSUME IInv, NEW t \in Tasks, pc[t] \in {"minting", "browsing", "closing"},
         Goto(t, "ready"), Unlocked(t), failed' \in [Tasks -> Kinds],
         UNCHANGED <<setting, role, pool, goal, lease, started, need, identity, sessions>>
  PROVE  Keeps(t)
<1>1. /\ pc' = [pc EXCEPT ![t] = "ready"]
      /\ minter' = (IF minter = t THEN NoTask ELSE minter) /\ browsers' = browsers \ {t}
      /\ UNCHANGED <<plan, optimized, role, pool, goal, lease, started, need, identity,
                     sessions>>
  BY DEF Goto, Unlocked, setting
<1>2. Types /\ SessionsPlaced /\ Own(t) /\ "ready" \in Places
  BY DEF IInv, Places
<1>3. Types' /\ SessionsPlaced' /\ pc'[t] = "ready" /\ minter' # t /\ t \notin browsers'
  BY <1>1, <1>2, LeasesAssumption DEF Types, SessionsPlaced
<1>4. Own(t)'
  BY <1>1, <1>2, <1>3
  DEF Own, LeaseAt, LocksAt, InBrowser, VisitorAt, RoleAt, Borrowing, OnLease
<1>5. Others(t)
  BY <1>1, <1>2 DEF Others, Types
<1>6. QED
  BY <1>1, <1>2, <1>3, <1>4, <1>5, QuietKeeps

\* The close waits, after a page or after a cancellation: nothing is left yet.
LEMMA ClosingKeeps ==
  ASSUME IInv, NEW t \in Tasks, pc[t] = "browsing", NEW place \in {"closing", "unwinding"},
         Goto(t, place), failed' \in [Tasks -> Kinds], role[t] # "plain",
         UNCHANGED <<setting, role, pool, goal, lease, started, need, identity, sessions,
                     locks>>
  PROVE  Keeps(t)
<1>1. /\ pc' = [pc EXCEPT ![t] = place]
      /\ UNCHANGED <<plan, optimized, role, pool, goal, lease, started, need, identity,
                     sessions, minter, browsers>>
  BY DEF Goto, setting, locks
<1>2. /\ Types /\ SessionsPlaced /\ Own(t)
      /\ place \in Places /\ place \notin {"wait", "fetch"}
  BY DEF IInv, Places
<1>3. Types' /\ SessionsPlaced' /\ pc'[t] = place
  BY <1>1, <1>2 DEF Types, SessionsPlaced
<1>4. Own(t)'
  BY <1>1, <1>2, <1>3
  DEF Own, LeaseAt, LocksAt, InBrowser, VisitorAt, RoleAt, Borrowing, OnLease
<1>5. Others(t)
  BY <1>1, <1>2 DEF Others, Types
<1>6. QED
  BY <1>1, <1>2, <1>3, <1>4, <1>5, QuietKeeps

LEMMA PageKeeps ==
  ASSUME IInv, NEW t \in Tasks,
         MintFails(t) \/ Closed(t) \/ \E k \in Outcomes : Browsed(t, k)
  PROVE  Keeps(t)
<1>1. failed \in [Tasks -> Kinds]
  BY DEF IInv, Types
<1>2. CASE MintFails(t) \/ Closed(t)
  BY <1>1, <1>2, UnlockedKeeps DEF MintFails, Closed
<1>3. CASE \E k \in Outcomes : Browsed(t, k)
  <2>1. PICK k \in Outcomes : Browsed(t, k)
    BY <1>3
  <2>2. Recorded(t, k) \in Kinds
    BY <1>1, LeasesAssumption DEF Recorded, Outcomes, Kinds
  <2>3. failed' \in [Tasks -> Kinds]
    BY <1>1, <2>1, <2>2 DEF Browsed
  <2>4. CASE Goto(t, "ready") /\ Unlocked(t)
    BY <2>1, <2>3, <2>4, UnlockedKeeps DEF Browsed
  <2>5. CASE Goto(t, "closing") /\ UNCHANGED locks
    BY <2>1, <2>3, <2>5, ClosingKeeps DEF Browsed
  <2>6. QED
    BY <2>1, <2>4, <2>5 DEF Browsed
<1>4. QED
  BY <1>2, <1>3

LEMMA OpenBrowserKeeps ==
  ASSUME IInv, NEW t \in Tasks, OpenBrowser(t)
  PROVE  Keeps(t)
<1>1. /\ pc[t] = "ready" /\ role[t] = "author"
      /\ UNCHANGED <<plan, optimized, role, pool, lease, failed, started, need, identity,
                     sessions, minter, browsers>>
  BY DEF OpenBrowser, setting, locks
<1>2. Types /\ SessionsPlaced /\ Own(t) /\ {"sem", "acquire"} \subseteq Places /\ "sem" \in Goals
  BY DEF IInv, Places, Goals
<1>3. PICK place \in {"sem", "acquire"} :
        /\ pc' = [pc EXCEPT ![t] = place] /\ goal' \in {goal, [goal EXCEPT ![t] = "sem"]}
        /\ place = "acquire" => lease[t] = NoEndpoint /\ goal' = [goal EXCEPT ![t] = "sem"]
  BY DEF OpenBrowser, Goto
<1>4. Types' /\ SessionsPlaced' /\ pc'[t] = place
  BY <1>1, <1>2, <1>3 DEF Types, SessionsPlaced
<1>5. minter # t /\ t \notin browsers
  BY <1>1, <1>2 DEF Own, LocksAt, InBrowser, Borrowing
<1>6. Own(t)'
  <2>1. /\ place = "acquire" => goal'[t] = "sem"
        /\ lease'[t] = lease[t] /\ started'[t] = started[t] /\ identity'[t] = identity[t]
        /\ role'[t] = role[t] /\ minter' # t /\ t \notin browsers' /\ plan' = plan
    BY <1>1, <1>2, <1>3, <1>5 DEF Types
  <2>2. LeaseAt(t)' /\ VisitorAt(t)'
    BY <1>1, <1>2, <1>3, <1>4, <2>1 DEF Own, LeaseAt, VisitorAt, Borrowing, OnLease
  <2>3. LocksAt(t)' /\ RoleAt(t)'
    BY <1>1, <1>2, <1>3, <1>4, <2>1 DEF Own, LocksAt, InBrowser, RoleAt, Borrowing
  <2>4. QED
    BY <2>2, <2>3 DEF Own
<1>7. Others(t)
  BY <1>1, <1>2, <1>3 DEF Others, Types
<1>8. place \in Places /\ place \notin {"wait", "fetch"}
  BY <1>2
<1>9. QED
  BY <1>1, <1>3, <1>4, <1>6, <1>7, <1>8, QuietKeeps

LEMMA TakeBrowserKeeps ==
  ASSUME IInv, NEW t \in Tasks, TakeBrowser(t)
  PROVE  Keeps(t)
<1>1. /\ pc[t] = "sem" /\ role[t] # "plain" /\ minter # t /\ "open" \in Goals
  BY DEF IInv, Own, LocksAt, InBrowser, RoleAt, Borrowing, TakeBrowser, Goals
<1>2. CASE Ensure(t, Long, "open") /\ browsers' = browsers \union {t} /\ UNCHANGED minter
  BY <1>1, <1>2, EnsureKeeps
<1>3. CASE EnsureFails(t, Long)
  BY <1>1, <1>3, EnsureFailsKeeps
<1>4. QED
  BY <1>2, <1>3 DEF TakeBrowser

LEMMA BrowseKeeps ==
  ASSUME IInv, NEW t \in Tasks, Browse(t)
  PROVE  Keeps(t)
<1>1. /\ pc[t] = "open" /\ pc' = [pc EXCEPT ![t] = "browsing"]
      /\ started' = [started EXCEPT ![t] = TRUE]
      /\ UNCHANGED <<plan, optimized, role, pool, goal, lease, failed, need, identity, sessions,
                     minter, browsers>>
  BY DEF Browse, Goto, setting, locks
<1>2. Types /\ SessionsPlaced /\ Own(t) /\ "browsing" \in Places
  BY DEF IInv, Places
<1>3. Types' /\ SessionsPlaced' /\ pc'[t] = "browsing" /\ started'[t] = TRUE
  BY <1>1, <1>2 DEF Types, SessionsPlaced
<1>4. Own(t)'
  BY <1>1, <1>2, <1>3 DEF Own, LeaseAt, LocksAt, InBrowser, VisitorAt, RoleAt, Borrowing, OnLease
<1>5. Others(t)
  BY <1>1, <1>2 DEF Others, Types
<1>6. QED
  BY <1>1, <1>2, <1>3, <1>4, <1>5, QuietKeeps

LEMMA BeginFallbackKeeps ==
  ASSUME IInv, NEW t \in Tasks, BeginFallback(t)
  PROVE  Keeps(t)
<1>1. /\ pc[t] = "idle" /\ role' = [role EXCEPT ![t] = "fallback"]
      /\ need' = [need EXCEPT ![t] = BaseNeed("fallback")]
      /\ goal' = [goal EXCEPT ![t] = "open"] /\ pc' = [pc EXCEPT ![t] = "acquire"]
      /\ browsers' = browsers \union {t}
      /\ UNCHANGED <<plan, optimized, pool, lease, failed, started, identity, sessions, minter>>
  BY DEF BeginFallback, Goto, setting, locks
<1>2. /\ Types /\ SessionsPlaced /\ Own(t) /\ BaseNeed("fallback") \in Lives
      /\ "acquire" \in Places /\ "open" \in Goals /\ "fallback" \in Roles
  BY DEF IInv, BaseNeed, Lives, Long, Short, Expired, Places, Goals, Roles
<1>3. lease[t] = NoEndpoint
  BY <1>1, <1>2 DEF Own, LeaseAt
<1>4. /\ Types' /\ SessionsPlaced' /\ pc'[t] = "acquire" /\ goal'[t] = "open"
      /\ role'[t] = "fallback" /\ "fallback" \in plan'[t]
  BY <1>1, <1>2 DEF Types, SessionsPlaced, BeginFallback, setting, locks
<1>5. Own(t)'
  BY <1>1, <1>2, <1>3, <1>4 DEF Own, LeaseAt, LocksAt, InBrowser, VisitorAt, RoleAt, Borrowing, OnLease
<1>6. Others(t)
  BY <1>1, <1>2 DEF Others, Types
<1>7. QED
  BY <1>1, <1>2, <1>3, <1>4, <1>5, <1>6, QuietKeeps

-----------------------------------------------------------------------------
(* The end of a purchase *)

\* Endpoints that are added were in no task's use.
LEMMA TableBuys ==
  ASSUME IInv, Book(pool', lease, role, optimized),
         Active(pool') \intersect pool.slots \subseteq Active(pool)
  PROVE  Table!Buy
<1>1. Book(pool, lease, role, optimized)
  BY DEF IInv, Booked
<1>2. ASSUME NEW e \in Active(pool') \ Active(pool), e \in Table!InUse PROVE FALSE
  <2>1. e \in Endpoints /\ Held(lease, e) # {}
    BY <1>2 DEF Table!InUse, Table!Users, Held
  <2>2. e \in pool.slots
    BY <1>1, <2>1 DEF Book
  <2>3. QED
    BY <1>2, <2>2
<1>3. Table!Cardinality(Active(pool')) <= PoolSize
  BY TableCounts DEF Book
<1>4. QED
  BY <1>2, <1>3 DEF Table!Buy

\* The buyer ends without a lease: it was cancelled, or the pool refused.
LEMMA BuyerLeft ==
  ASSUME IInv, NEW t \in Tasks, pc[t] = "fetch",
         Book(pool', lease, role, optimized), pool'.fetching = FALSE,
         Active(pool') \intersect pool.slots \subseteq Active(pool),
         \/ NotifyGoto(t, "idle") /\ Reset(t)
         \/ /\ NotifyGoto(t, "ready") /\ Unlocked(t)
            /\ UNCHANGED <<role, goal, lease, failed, started, need, identity>>,
         UNCHANGED <<plan, optimized, sessions>>
  PROVE  Keeps(t)
<1>1. /\ Types /\ SessionsPlaced /\ lease \in Leases /\ Own(t)
      /\ pc \in [Tasks -> Places] /\ Wakes(pc, lease, pool.fetching)
  BY DEF IInv, Types, Booked, Book, Waking
<1>2. lease[t] = NoEndpoint /\ started[t] = FALSE
  BY <1>1 DEF Own, LeaseAt, Borrowing, Types
<1>3. /\ "idle" \in Places /\ "ready" \in Places /\ "woken" \in Places /\ "none" \in Kinds
      /\ "sent" \in Goals /\ 0 \in Lives
  BY DEF Places, Kinds, Goals, Lives, Expired, Long
<1>4. PICK place \in {"idle", "ready"} :
        /\ pc' = [u \in Tasks |-> IF u = t THEN place
                                  ELSE IF pc[u] = "wait" THEN "woken" ELSE pc[u]]
        /\ (place = "ready" => UNCHANGED <<role, goal, lease, failed, started, need, identity>>)
        /\ (place = "idle" => Reset(t))
        /\ Unlocked(t)
  BY DEF NotifyGoto, Reset
<1>5. minter' = (IF minter = t THEN NoTask ELSE minter) /\ browsers' = browsers \ {t}
  BY <1>4 DEF Unlocked
<1>6. /\ pc' \in [Tasks -> Places] /\ pc'[t] = place
      /\ \A u \in Tasks \ {t} : pc'[u] = pc[u] \/ (pc[u] = "wait" /\ pc'[u] = "woken")
  BY <1>1, <1>3, <1>4
<1>7. /\ lease' = lease
      /\ role' \in [Tasks -> Roles \union {"none"}] /\ goal' \in [Tasks -> Goals]
      /\ failed' \in [Tasks -> Kinds] /\ started' \in [Tasks -> BOOLEAN]
      /\ need' \in [Tasks -> Lives] /\ identity' \in [Tasks -> Endpoints \union {NoEndpoint, Stray}]
      /\ started'[t] = FALSE /\ identity'[t] \in {identity[t], NoEndpoint}
      /\ place = "ready" => role'[t] = role[t] /\ goal'[t] = goal[t]
      /\ place = "idle" => role'[t] = "none"
      /\ \A u \in Tasks \ {t} : /\ role'[u] = role[u] /\ goal'[u] = goal[u]
                               /\ started'[u] = started[u] /\ identity'[u] = identity[u]
  <2>1. CASE place = "ready"
    BY <1>1, <1>2, <1>4, <2>1 DEF Types
  <2>2. CASE place = "idle"
    <3>1. /\ lease' = [lease EXCEPT ![t] = NoEndpoint] /\ role' = [role EXCEPT ![t] = "none"]
          /\ failed' = [failed EXCEPT ![t] = "none"] /\ started' = [started EXCEPT ![t] = FALSE]
          /\ need' = [need EXCEPT ![t] = 0] /\ identity' = [identity EXCEPT ![t] = NoEndpoint]
          /\ goal' = [goal EXCEPT ![t] = "sent"]
      BY <1>4, <2>2 DEF Reset
    <3>2. lease' = lease
      BY <1>1, <1>2, <3>1 DEF Leases
    <3>3. /\ role' \in [Tasks -> Roles \union {"none"}] /\ goal' \in [Tasks -> Goals]
          /\ failed' \in [Tasks -> Kinds] /\ started' \in [Tasks -> BOOLEAN]
          /\ need' \in [Tasks -> Lives] /\ identity' \in [Tasks -> Endpoints \union {NoEndpoint, Stray}]
      BY <1>1, <1>3, <3>1 DEF Types
    <3>4. /\ started'[t] = FALSE /\ identity'[t] = NoEndpoint /\ role'[t] = "none"
          /\ \A u \in Tasks \ {t} : /\ role'[u] = role[u] /\ goal'[u] = goal[u]
                                   /\ started'[u] = started[u] /\ identity'[u] = identity[u]
      BY <1>1, <3>1 DEF Types
    <3>5. QED
      BY <2>2, <3>2, <3>3, <3>4
  <2>3. QED
    BY <2>1, <2>2
<1>8. minter' # t /\ t \notin browsers'
  BY <1>1, <1>5, LeasesAssumption DEF Types
<1>9. Types' /\ SessionsPlaced'
  BY <1>1, <1>5, <1>6, <1>7 DEF Types, SessionsPlaced
<1>10. Own(t)'
  BY <1>1, <1>2, <1>6, <1>7, <1>8
  DEF Own, LeaseAt, LocksAt, InBrowser, VisitorAt, RoleAt, Borrowing, OnLease
<1>11. Others(t)
  BY <1>5, <1>6, <1>7 DEF Others
<1>12. Booked'
  BY <1>2, <1>7, BookRole DEF Booked
<1>13. Waking'
  <2>1. Wakes(pc', lease', FALSE)
    <3>1. /\ pc \in [Tasks -> Places] /\ Wakes(pc, lease, pool.fetching)
          /\ place \notin {"wait", "fetch"}
          /\ pc' = [u \in Tasks |-> IF u = t THEN place
                                    ELSE IF pc[u] = "wait" THEN "woken" ELSE pc[u]]
      BY <1>1, <1>4
    <3>2. QED
      BY <3>1, WakesBought
  <2>2. QED
    BY <2>1 DEF Waking
<1>14. TableStep
  BY <1>7, TableBuys DEF TableStep, Table!Next
<1>15. QED
  BY <1>7, <1>9, <1>10, <1>11, <1>12, <1>13, <1>14 DEF Keeps, Stable

LEMMA CancelKeeps ==
  ASSUME IInv, NEW t \in Tasks, Cancel(t)
  PROVE  Keeps(t)
<1>1. CASE pc[t] = "fetch" /\ GivesUp(t) /\ Reset(t)
  <2>1. /\ pool' = [pool EXCEPT !.fetching = FALSE]
        /\ NotifyGoto(t, "idle") /\ Reset(t) /\ UNCHANGED <<plan, optimized, sessions>>
    BY <1>1 DEF Cancel, GivesUp, setting, locks
  <2>2. Book(pool, lease, role, optimized) /\ pool \in Pools
    BY DEF IInv, Booked, Book
  <2>3. pool' \in Pools /\ pool'.fetching = FALSE /\ Active(pool') = Active(pool)
        /\ Book(pool', lease, role, optimized)
    BY <2>1, <2>2 DEF Book, Pools, Active
  <2>4. QED
    BY <1>1, <2>1, <2>3, BuyerLeft
<1>2. CASE /\ pc[t] # "fetch"
           /\ \E k \in CancelKinds(t) : Left(t, k)
  <2>1. PICK k \in CancelKinds(t) : Left(t, k)
    BY <1>2
  <2>2. k \in Kinds
    BY DEF CancelKinds, Kinds, IInv, Types
  <2>3. QED
    BY <1>2, <2>1, <2>2, LeftKeeps DEF Cancel, setting
<1>3. CASE Interrupted(t)
  <2>1. failed' \in [Tasks -> Kinds]
    BY <1>3 DEF IInv, Types, Interrupted
  <2>2. QED
    BY <1>3, <2>1, ClosingKeeps DEF Interrupted, Cancel
<1>4. QED
  BY <1>1, <1>2, <1>3 DEF Cancel, Abandoned

\* The close is done, and the cancelled task leaves.
LEMMA UnwoundKeeps ==
  ASSUME IInv, NEW t \in Tasks, Unwound(t)
  PROVE  Keeps(t)
<1>1. PICK k \in CancelKinds(t) : Left(t, k)
  BY DEF Unwound
<1>2. k \in Kinds
  BY DEF CancelKinds, Kinds, IInv, Types
<1>3. QED
  BY <1>1, <1>2, LeftKeeps DEF Unwound, setting

\* The supplier's answer, merged into the pool.
LEMMA AnswerBooked ==
  ASSUME IInv, NEW found \in SUBSET Endpoints, NEW life \in Lives,
         Cardinality(found) <= FetchCount(pool, optimized),
         NEW q, q = Cleaned([Added(pool, found, life, optimized) EXCEPT !.fetching = FALSE])
  PROVE  /\ Book(q, lease, role, optimized) /\ q.fetching = FALSE
         /\ Active(q) \intersect pool.slots \subseteq Active(pool)
<1> DEFINE p == Added(pool, found, life, optimized)
           r == [p EXCEPT !.fetching = FALSE]
<1>1. Book(pool, lease, role, optimized) /\ optimized \in BOOLEAN
  BY DEF IInv, Booked, Types
<1>2. /\ Book(p, lease, role, optimized)
      /\ Active(p) \intersect pool.slots \subseteq Active(pool)
  BY <1>1, BookAdded
<1> HIDE DEF p
<1>3. r \in Pools /\ r.fetching = FALSE /\ Active(r) = Active(p)
      /\ Book(r, lease, role, optimized)
  BY <1>2 DEF Book, Pools, Active
<1>4. q = Cleaned(r)
  BY DEF p
<1> HIDE DEF r
<1>5. Closes(r, q)
  BY <1>3, <1>4, CleanedCloses
<1>6. QED
  BY <1>2, <1>3, <1>5, BookCloses DEF Closes

LEMMA AnswerKeeps ==
  ASSUME IInv, NEW t \in Tasks, Answer(t)
  PROVE  Keeps(t)
<1>1. PICK found \in SUBSET Endpoints, life \in Lives :
        /\ Cardinality(found) <= FetchCount(pool, optimized)
        /\ Bought(t, Added(pool, found, life, optimized))
  BY DEF Answer
<1> DEFINE q == Cleaned([Added(pool, found, life, optimized) EXCEPT !.fetching = FALSE])
<1>2. pc[t] = "fetch" /\ UNCHANGED <<plan, optimized, sessions>>
  BY DEF Answer, setting, locks
<1>3. /\ Book(q, lease, role, optimized) /\ q.fetching = FALSE
      /\ Active(q) \intersect pool.slots \subseteq Active(pool)
  BY <1>1, AnswerBooked
<1>4. \/ Refused(t) /\ pool' = q
      \/ \E e \in Selected(q, Req(t), optimized) :
             /\ pool' = Leased(q, e, Req(t), optimized)
             /\ lease' = [lease EXCEPT ![t] = e]
             /\ NotifyGoto(t, goal[t]) /\ Reach(t, goal[t])
             /\ UNCHANGED <<role, goal, failed, need, identity, minter, browsers>>
  BY <1>1 DEF Bought, locks
<1> HIDE DEF q
<1>5. CASE Refused(t) /\ pool' = q
  <2>1. \/ NotifyGoto(t, "idle") /\ Reset(t)
        \/ /\ NotifyGoto(t, "ready") /\ Unlocked(t)
           /\ UNCHANGED <<role, goal, lease, failed, started, need, identity>>
    BY <1>5 DEF Refused
  <2>2. QED
    BY <1>2, <1>3, <1>5, <2>1, BuyerLeft
<1>6. CASE \E e \in Selected(q, Req(t), optimized) :
             /\ pool' = Leased(q, e, Req(t), optimized)
             /\ lease' = [lease EXCEPT ![t] = e]
             /\ NotifyGoto(t, goal[t]) /\ Reach(t, goal[t])
             /\ UNCHANGED <<role, goal, failed, need, identity, minter, browsers>>
  <2>1. PICK e \in Selected(q, Req(t), optimized) :
             /\ pool' = Leased(q, e, Req(t), optimized)
             /\ lease' = [lease EXCEPT ![t] = e]
             /\ NotifyGoto(t, goal[t]) /\ Reach(t, goal[t])
             /\ UNCHANGED <<role, goal, failed, need, identity, minter, browsers>>
    BY <1>6
  <2>2. /\ Types /\ Own(t) /\ lease \in Leases /\ SessionsPlaced /\ optimized \in BOOLEAN
        /\ Wakes(pc, lease, pool.fetching) /\ q \in Pools
    BY <1>3 DEF IInv, Booked, Book, Waking, Types
  <2>3. lease[t] = NoEndpoint
    BY <1>2, <2>2 DEF Own, LeaseAt, Borrowing
  <2>4. Req(t).exclusive = (role[t] # "plain")
    BY DEF Req, Exclusive
  <2>5. Book(pool', lease', role, optimized)
    BY <1>3, <2>1, <2>2, <2>3, <2>4, BookLeased
  <2>6. e \in Endpoints /\ e \in Active(q) /\ q.inFlight[e] < MaxUsers /\ e # NoEndpoint
    <3>1. e \in Endpoints /\ e \in Active(q) /\ q.inFlight[e] < MaxUsers
      BY <2>1, <2>2, SelectedFree
    <3>2. QED
      BY <3>1, LeasesAssumption
  <2>7. pool'.fetching = FALSE /\ Active(pool') = Active(q)
    <3>1. e \in Endpoints
      BY <2>6
    <3>2. QED
      BY <1>3, <2>1, <2>2, <3>1, LeasedLeaves
  <2>8. /\ pc' = [u \in Tasks |-> IF u = t THEN goal[t]
                                  ELSE IF pc[u] = "wait" THEN "woken" ELSE pc[u]]
        /\ started' = [started EXCEPT ![t] = @ \/ goal[t] = "sent"]
        /\ goal[t] \in Goals /\ goal[t] \in Places /\ "woken" \in Places
    BY <2>1, <2>2 DEF NotifyGoto, Reach, Types, Places
  <2>9. /\ pc' \in [Tasks -> Places] /\ pc'[t] = goal[t] /\ lease'[t] = e
        /\ started' \in [Tasks -> BOOLEAN] /\ started'[t] = (started[t] \/ goal[t] = "sent")
        /\ \A u \in Tasks \ {t} : /\ pc'[u] = pc[u] \/ (pc[u] = "wait" /\ pc'[u] = "woken")
                                 /\ started'[u] = started[u] /\ lease'[u] = lease[u]
    BY <2>1, <2>2, <2>8 DEF Types, Leases
  <2>10. Types' /\ SessionsPlaced'
    BY <1>2, <2>1, <2>2, <2>9 DEF Types, SessionsPlaced
  <2>11. Booked'
    BY <1>2, <2>1, <2>5 DEF Booked
  <2>12. Waking'
    <3>1. /\ goal[t] \notin {"wait", "fetch"} /\ pc \in [Tasks -> Places]
          /\ Wakes(pc, lease, pool.fetching) /\ pc[t] = "fetch"
          /\ pc' = [u \in Tasks |-> IF u = t THEN goal[t]
                                    ELSE IF pc[u] = "wait" THEN "woken" ELSE pc[u]]
      BY <1>2, <2>2, <2>8 DEF Goals, Types
    <3>2. Wakes(pc', lease', FALSE)
      BY <3>1, WakesBought
    <3>3. QED
      BY <2>7, <3>2 DEF Waking
  <2>13. Own(t)'
    <3>1. LeaseAt(t)'
      BY <2>1, <2>6, <2>8, <2>9 DEF LeaseAt, Goals, Borrowing, OnLease
    <3>2. LocksAt(t)'
      BY <1>2, <2>1, <2>2, <2>8, <2>9 DEF LocksAt, InBrowser, Own, Borrowing, Goals
    <3>3. VisitorAt(t)'
      BY <1>2, <2>1, <2>2, <2>3, <2>8, <2>9 DEF VisitorAt, Own, LeaseAt, Borrowing, Goals
    <3>4. RoleAt(t)'
      BY <1>2, <2>1, <2>2, <2>9 DEF RoleAt, Own, Borrowing
    <3>5. QED
      BY <3>1, <3>2, <3>3, <3>4 DEF Own
  <2>14. Others(t) /\ Stable(t)
    BY <1>2, <2>1, <2>2, <2>3, <2>9 DEF Others, Stable, Own, LeaseAt
  <2>15. TableStep
    <3>1. Cardinality(Held(lease, e)) < MaxUsers
      BY <1>3, <2>6 DEF Book
    <3>2. Table!Cardinality(Table!Users(e)) < MaxUsers
      BY <3>1, TableCounts DEF Table!Users, Held
    <3>3. Table!Grant(t, e)
      BY <2>1, <2>3, <2>6, <2>7, <3>2 DEF Table!Grant
    <3>4. Table!Buy
      <4>1. Cardinality(Active(pool')) <= PoolSize
        BY <2>5 DEF Book
      <4>2. (Active(pool') \ Active(pool)) \intersect Table!InUse = {}
        <5> SUFFICES ASSUME NEW f \in Active(q), f \notin Active(pool), f \in Table!InUse
                     PROVE FALSE
          BY <2>7
        <5>1. f \in Endpoints /\ Held(lease, f) # {}
          BY DEF Table!InUse, Table!Users, Held
        <5>2. f \in pool.slots
          BY <5>1 DEF IInv, Booked, Book
        <5>3. QED
          BY <1>3, <5>2
      <4>3. QED
        BY <4>1, <4>2, TableCounts DEF Table!Buy
    <3>5. QED
      BY <2>6, <3>3, <3>4 DEF TableStep, Table!Next
  <2>16. QED
    BY <2>10, <2>11, <2>12, <2>13, <2>14, <2>15 DEF Keeps
<1>7. QED
  BY <1>4, <1>5, <1>6

-----------------------------------------------------------------------------
(* Every step *)

\* Time passes for an endpoint.
LEMMA AgeCloses ==
  ASSUME IInv, NEW e \in Endpoints, Age(e)
  PROVE  Closes(pool, pool')
<1>1. pool \in Pools
  BY DEF IInv, Booked, Book
<1> DEFINE v == [pool.life EXCEPT ![e] = @ - 1]
<1>2. pool' = [pool EXCEPT !.life = v]
  BY <1>1 DEF Age, Pools
<1>3. v \in [Endpoints -> Lives]
  BY <1>1 DEF Age, Pools, Lives, Expired, Long
<1> HIDE DEF v
<1>4. QED
  BY <1>1, <1>2, <1>3 DEF Closes, Pools, Active

LEMMA LapseCloses ==
  ASSUME IInv, NEW e \in Endpoints, Lapse(e)
  PROVE  Closes(pool, pool')
<1>1. pool \in Pools
  BY DEF IInv, Booked, Book
<1>2. CASE pool' = [pool EXCEPT !.cooling = @ \ {e}]
  BY <1>1, <1>2 DEF Closes, Pools, Active
<1>3. CASE \E b \in pool.banned : pool' = [pool EXCEPT !.banned = @ \ {b}]
  BY <1>1, <1>3 DEF Closes, Pools, Active
<1>4. CASE pool' = [pool EXCEPT !.retired = @ \ {e}]
  BY <1>1, <1>4 DEF Closes, Pools, Active
<1>5. QED
  BY <1>2, <1>3, <1>4 DEF Lapse

LEMMA UnchangedKeeps ==
  ASSUME IInv, UNCHANGED <<setting, taskVars, locks>>,
         Closes(pool, pool'), SessionsPlaced'
  PROVE  IInv' /\ TableStep
<1>1. UNCHANGED <<plan, optimized, role, pc, goal, lease, failed, started, need, identity,
                  minter, browsers>>
  BY DEF setting, locks, taskVars
<1>2. /\ Types /\ Book(pool, lease, role, optimized) /\ Wakes(pc, lease, pool.fetching)
      /\ \A t \in Tasks : Own(t)
  BY DEF IInv, Booked, Waking
<1>3. Types'
  BY <1>1, <1>2 DEF Types
<1>4. Booked'
  BY <1>1, <1>2, BookCloses DEF Booked
<1>5. Waking'
  BY <1>1, <1>2 DEF Waking, Closes
<1>6. \A t \in Tasks : Own(t)'
  BY <1>1, <1>2 DEF Own, LeaseAt, LocksAt, InBrowser, VisitorAt, RoleAt
<1>7. TableStep
  BY <1>1, TableCloses DEF Closes
<1>8. QED
  BY <1>3, <1>4, <1>5, <1>6, <1>7 DEF IInv

LEMMA StepKeeps ==
  ASSUME IInv, NEW t \in Tasks, Step(t)
  PROVE  Keeps(t)
<1>1. CASE Grant(t) \/ Buy(t) \/ Wait(t) \/ Answer(t)
  BY <1>1, GrantKeeps, BuyKeeps, WaitKeeps, AnswerKeeps
<1>2. CASE Request(t) \/ VisitorRequest(t)
  BY <1>2, RequestKeeps
<1>3. CASE \E k \in Outcomes : Response(t, k) \/ Finish(t, k) \/ EndFallback(t, k)
  BY <1>3, ResponseKeeps, LeavingKeeps
<1>4. CASE Look(t) \/ Lock(t) \/ Recheck(t) \/ Mint(t) \/ Launch(t) \/ Minted(t)
  BY <1>4, LookKeeps, LockKeeps, RecheckKeeps, MintKeeps, LaunchKeeps, MintedKeeps
<1>5. CASE \/ MintFails(t) \/ OpenBrowser(t) \/ TakeBrowser(t) \/ Browse(t)
           \/ Closed(t) \/ Unwound(t) \/ \E k \in Outcomes : Browsed(t, k)
  BY <1>5, PageKeeps, OpenBrowserKeeps, TakeBrowserKeeps, BrowseKeeps, UnwoundKeeps
<1>6. QED
  BY <1>1, <1>2, <1>3, <1>4, <1>5 DEF Step

\* What every step does.
Steady == \A t \in Tasks : started[t] /\ lease'[t] # lease[t] => pc'[t] = "idle"

LEMMA NextKeeps ==
  ASSUME IInv, [Next]_vars
  PROVE  IInv' /\ TableStep /\ (Steady \/ UNCHANGED vars)
<1>1. CASE \E t \in Tasks : Step(t) \/ BeginFallback(t) \/ Cancel(t) \/ \E r \in Roles : Begin(t, r)
  <2>1. PICK t \in Tasks : Step(t) \/ BeginFallback(t) \/ Cancel(t) \/ \E r \in Roles : Begin(t, r)
    BY <1>1
  <2>2. Keeps(t)
    BY <2>1, StepKeeps, BeginFallbackKeeps, CancelKeeps, BeginKeeps
  <2>3. QED
    BY <2>2, KeepsInvariant DEF Steady
<1>2. CASE \E e \in Endpoints : Age(e) \/ Lapse(e)
  <2>1. PICK e \in Endpoints : Age(e) \/ Lapse(e)
    BY <1>2
  <2>2. Closes(pool, pool') /\ UNCHANGED <<setting, taskVars, sessions, locks>>
    BY <2>1, AgeCloses, LapseCloses DEF Age, Lapse
  <2>3. SessionsPlaced'
    BY <2>2 DEF IInv, SessionsPlaced
  <2>4. Steady
    BY <2>2 DEF Steady, taskVars
  <2>5. QED
    BY <2>2, <2>3, <2>4, UnchangedKeeps
<1>3. CASE \E e \in Endpoints : Expire(e)
  <2>1. PICK e \in Endpoints : sessions' = [sessions EXCEPT ![e] = NoEndpoint]
    BY <1>3 DEF Expire
  <2>2. UNCHANGED <<setting, pool, taskVars, locks>>
    BY <1>3 DEF Expire
  <2>3. SessionsPlaced'
    BY <2>1 DEF IInv, SessionsPlaced
  <2>4. Closes(pool, pool')
    BY <2>2, ClosesItself DEF IInv, Booked, Book
  <2>5. Steady
    BY <2>2 DEF Steady, taskVars
  <2>6. QED
    BY <2>2, <2>3, <2>4, <2>5, UnchangedKeeps
<1>4. CASE UNCHANGED vars
  <2>1. UNCHANGED <<setting, pool, taskVars, sessions, locks>>
    BY <1>4 DEF vars
  <2>2. Closes(pool, pool')
    BY <2>1, ClosesItself DEF IInv, Booked, Book
  <2>3. SessionsPlaced'
    BY <2>1 DEF IInv, SessionsPlaced
  <2>4. QED
    BY <1>4, <2>1, <2>2, <2>3, UnchangedKeeps
<1>5. QED
  BY <1>1, <1>2, <1>3, <1>4 DEF Next

LEMMA InitInvariant ==
  ASSUME Init
  PROVE  IInv
<1>1. EmptyPool \in Pools
  BY PoolAssumption DEF EmptyPool, Pools, Lives, Expired, Long
<1>2. lease \in Leases /\ \A e \in Endpoints : Held(lease, e) = {}
  BY LeasesAssumption DEF Init, Leases, Held
<1>3. Booked
  <2>1. Active(pool) = {} /\ Cardinality({}) = 0 /\ 0 <= PoolSize
    BY PoolAssumption, FS_EmptySet DEF Init, EmptyPool, Active
  <2>2. \A e \in Endpoints : pool.inFlight[e] = 0
    BY DEF Init, EmptyPool
  <2>3. \A t \in Tasks : lease[t] = NoEndpoint
    BY DEF Init
  <2>4. QED
    BY <1>1, <1>2, <2>1, <2>2, <2>3 DEF Init, Booked, Book
<1>4. Types
  BY LeasesAssumption DEF Init, Types, Places, Goals, Kinds, Lives, Expired, Long
<1>5. SessionsPlaced
  BY DEF Init, SessionsPlaced
<1>6. Waking
  BY DEF Init, EmptyPool, Waking, Wakes
<1>7. \A t \in Tasks : Own(t)
  BY LeasesAssumption DEF Init, Own, LeaseAt, LocksAt, InBrowser, VisitorAt, RoleAt, Borrowing, OnLease
<1>8. QED
  BY <1>3, <1>4, <1>5, <1>6, <1>7 DEF IInv

LEMMA Invariant == Spec => []IInv
<1>1. IInv /\ [Next]_vars => IInv'
  BY NextKeeps
<1>2. QED
  BY <1>1, InitInvariant, PTL DEF Spec

-----------------------------------------------------------------------------
(* The places of the browser semaphore *)

\* Nobody is given a place that is not there, the ones that browsers left open
\* have taken counted in.
Room ==
    /\ key \in Endpoints \union {NoEndpoint}
    /\ browsers \subseteq Tasks /\ orphans \in Nat
    /\ Cardinality(browsers) + orphans <= BrowserSlots

\* A step takes no place, takes a free one, or leaves its own with a browser.
RoomStep(t) ==
    /\ key' \in {key, NoEndpoint, lease[t]}
    /\ \/ browsers' \subseteq browsers /\ orphans' = orphans
       \/ PlaceFree /\ browsers' = browsers \union {t} /\ orphans' = orphans
       \/ t \in browsers /\ browsers' = browsers \ {t} /\ orphans' = orphans + 1

LEMMA RoomKept ==
  ASSUME IInv, Room, NEW t \in Tasks, RoomStep(t)
  PROVE  Room'
<1>1. IsFiniteSet(browsers) /\ Cardinality(browsers) \in Nat /\ BrowserSlots \in Nat
  BY LeasesAssumption, FS_Subset, FS_CardinalityType DEF Room
<1>2. key' \in Endpoints \union {NoEndpoint}
  BY DEF Room, RoomStep, IInv, Booked, Book, Leases
<1>3. CASE browsers' \subseteq browsers /\ orphans' = orphans
  <2>1. IsFiniteSet(browsers') /\ Cardinality(browsers') \in Nat
        /\ Cardinality(browsers') <= Cardinality(browsers)
    BY <1>1, <1>3, FS_Subset, FS_CardinalityType
  <2>2. QED
    BY <1>1, <1>2, <1>3, <2>1 DEF Room
<1>4. CASE PlaceFree /\ browsers' = browsers \union {t} /\ orphans' = orphans
  <2>1. Cardinality(browsers') \in {Cardinality(browsers), Cardinality(browsers) + 1}
    BY <1>1, <1>4, FS_AddElement
  <2>2. QED
    BY <1>1, <1>2, <1>4, <2>1 DEF Room, PlaceFree
<1>5. CASE t \in browsers /\ browsers' = browsers \ {t} /\ orphans' = orphans + 1
  <2>1. Cardinality(browsers') = Cardinality(browsers) - 1
    BY <1>1, <1>5, FS_RemoveElement
  <2>2. QED
    BY <1>1, <1>2, <1>5, <2>1 DEF Room
<1>6. QED
  BY <1>3, <1>4, <1>5 DEF RoomStep

\* The helpers that leave the locks, or leave them alone.
LEMMA UnlockedRoom ==
  ASSUME NEW t \in Tasks, UNCHANGED orphans, Unlocked(t) \/ UNCHANGED locks
  PROVE  RoomStep(t)
BY DEF Unlocked, locks, RoomStep

LEMMA LeftRoom ==
  ASSUME NEW t \in Tasks, UNCHANGED orphans, NEW kind, Left(t, kind)
  PROVE  RoomStep(t)
BY UnlockedRoom DEF Left, Reset

LEMMA FailsRoom ==
  ASSUME NEW t \in Tasks, NEW seconds, EnsureFails(t, seconds)
  PROVE  RoomStep(t)
BY UnlockedRoom DEF EnsureFails, TooShort

LEMMA UseRoom ==
  ASSUME NEW t \in Tasks, NEW v, Use(t, v), UNCHANGED orphans
  PROVE  RoomStep(t)
BY UnlockedRoom DEF Use, TooShort

LEMMA BorrowRoom ==
  ASSUME NEW t \in Tasks, Grant(t) \/ Buy(t) \/ Wait(t) \/ Answer(t)
  PROVE  RoomStep(t)
<1>1. CASE Grant(t) \/ Buy(t) \/ Wait(t)
  BY <1>1, UnlockedRoom DEF Grant, Buy, Wait
<1>2. CASE Answer(t)
  <2>1. PICK p : Bought(t, p) /\ UNCHANGED orphans
    BY <1>2 DEF Answer
  <2>2. Unlocked(t) \/ UNCHANGED locks
    BY <2>1 DEF Bought, Refused, Reset
  <2>3. QED
    BY <2>1, <2>2, UnlockedRoom
<1>3. QED
  BY <1>1, <1>2

LEMMA VisitorRoom ==
  ASSUME NEW t \in Tasks,
         \/ Request(t) \/ VisitorRequest(t) \/ Look(t) \/ Lock(t) \/ Recheck(t)
         \/ Mint(t) \/ Launch(t) \/ Minted(t) \/ MintFails(t)
  PROVE  RoomStep(t)
<1>1. CASE EnsureFails(t, Short) \/ EnsureFails(t, Long) \/ EnsureFails(t, RequestNeed)
  BY <1>1, FailsRoom
<1>2. CASE TakeVisitor(t) \/ Minted(t)
  BY <1>2, UseRoom DEF TakeVisitor, Minted
<1>3. CASE UNCHANGED orphans /\ (Unlocked(t) \/ UNCHANGED locks)
  BY <1>3, UnlockedRoom
<1>4. CASE UNCHANGED <<orphans, browsers>> /\ key' \in {key, lease[t]}
  BY <1>4 DEF RoomStep
<1>5. QED
  BY <1>1, <1>2, <1>3, <1>4
  DEF Request, VisitorRequest, Look, Lock, Recheck, Mint, Launch, MintFails, Ensure

LEMMA BrowserRoom ==
  ASSUME NEW t \in Tasks,
         \/ OpenBrowser(t) \/ TakeBrowser(t) \/ Browse(t) \/ Closed(t) \/ Unwound(t)
         \/ BeginFallback(t)
         \/ \E k \in Outcomes : Response(t, k) \/ Finish(t, k) \/ Browsed(t, k)
                               \/ EndFallback(t, k)
         \/ \E r \in Roles : Begin(t, r)
  PROVE  RoomStep(t)
<1>1. CASE OpenBrowser(t) \/ Browse(t) \/ Closed(t) \/ \E r \in Roles : Begin(t, r)
  BY <1>1, UnlockedRoom DEF OpenBrowser, Browse, Closed, Begin
<1>2. CASE \E k \in Outcomes : Response(t, k) \/ Browsed(t, k)
  BY <1>2, UnlockedRoom DEF Response, Browsed
<1>3. CASE Unwound(t) \/ \E k \in Outcomes : Finish(t, k) \/ EndFallback(t, k)
  BY <1>3, LeftRoom DEF Unwound, Finish, EndFallback
<1>4. CASE TakeBrowser(t) \/ BeginFallback(t)
  <2>1. CASE EnsureFails(t, Long)
    BY <2>1, FailsRoom
  <2>2. CASE PlaceFree /\ browsers' = browsers \union {t} /\ UNCHANGED <<key, orphans>>
    BY <2>2 DEF RoomStep
  <2>3. QED
    BY <1>4, <2>1, <2>2 DEF TakeBrowser, BeginFallback, Ensure
<1>5. QED
  BY <1>1, <1>2, <1>3, <1>4

LEMMA CancelRoom ==
  ASSUME IInv, NEW t \in Tasks, Cancel(t)
  PROVE  RoomStep(t)
<1>1. CASE pc[t] = "fetch" /\ Reset(t) /\ UNCHANGED orphans
  BY <1>1, UnlockedRoom DEF Reset
<1>2. CASE UNCHANGED orphans /\ \E k \in CancelKinds(t) : Left(t, k)
  BY <1>2, LeftRoom
<1>3. CASE Interrupted(t)
  BY <1>3, UnlockedRoom DEF Interrupted
<1>4. CASE Abandoned(t)
  <2>1. t \in browsers
    BY <1>4 DEF Abandoned, IInv, Own, LocksAt, InBrowser
  <2>2. PICK k \in CancelKinds(t) : Left(t, k)
    BY <1>4 DEF Abandoned
  <2>3. Unlocked(t)
    BY <2>2 DEF Left, Reset
  <2>4. QED
    BY <1>4, <2>1, <2>3 DEF Unlocked, Abandoned, RoomStep
<1>5. QED
  BY <1>1, <1>2, <1>3, <1>4 DEF Cancel

LEMMA NextRoom ==
  ASSUME IInv, Room, [Next]_vars
  PROVE  Room'
<1>1. ASSUME NEW t \in Tasks,
             Step(t) \/ BeginFallback(t) \/ Cancel(t) \/ \E r \in Roles : Begin(t, r)
      PROVE  Room'
  <2>1. RoomStep(t)
    BY <1>1, BorrowRoom, VisitorRoom, BrowserRoom, CancelRoom DEF Step
  <2>2. QED
    BY <2>1, RoomKept
<1>2. CASE (\E e \in Endpoints : Age(e) \/ Lapse(e) \/ Expire(e)) \/ UNCHANGED vars
  <2>1. UNCHANGED <<key, browsers, orphans>>
    BY <1>2 DEF Age, Lapse, Expire, vars, locks
  <2>2. QED
    BY <2>1 DEF Room
<1>3. QED
  BY <1>1, <1>2 DEF Next

LEMMA RoomInvariant == Spec => []Room
<1>1. Init => Room
  BY LeasesAssumption, FS_EmptySet DEF Init, Room
<1>2. IInv /\ Room /\ [Next]_vars => Room'
  BY NextRoom
<1>3. QED
  BY <1>1, <1>2, Invariant, PTL DEF Spec

-----------------------------------------------------------------------------
(* What follows *)

\* Every variable has its type in every state, the counters of the pool, which
\* are lowered and raised in many places, included.
THEOREM TypeCorrect == Spec => []TypeOK
<1>1. IInv /\ Room => TypeOK
  BY DEF IInv, Types, SessionsPlaced, Booked, Book, Leases, Room, TypeOK
<1>2. QED
  BY <1>1, Invariant, RoomInvariant, PTL

\* HoldingsExact for any number of tasks and endpoints: in_flight is the number of
\* the tasks that hold a lease of the endpoint, whichever way leases come back, an
\* endpoint that is held has its slot, a task has a browser's place from its start
\* to its close and no lock when it is out, and with the browsers that cancelled
\* closes left open no more places are taken than there are.
THEOREM HoldingsAreExact == Spec => []HoldingsExact
<1>1. IInv /\ Room => HoldingsExact
  <2> SUFFICES ASSUME IInv, Room PROVE HoldingsExact
    OBVIOUS
  <2>1. ASSUME NEW e \in Endpoints
        PROVE  /\ pool.inFlight[e] = Cardinality(Holders(e))
               /\ Holders(e) # {} => e \in pool.slots
    <3>1. Holders(e) = Held(lease, e)
      BY DEF Holders, Held
    <3>2. QED
      BY <3>1 DEF IInv, Booked, Book
  <2>2. ASSUME NEW t \in Tasks, pc[t] \in {"idle", "ready", "sent", "lock", "sem"}
        PROVE  minter # t /\ t \notin browsers
    BY <2>2 DEF IInv, Own, LocksAt, InBrowser, Borrowing
  <2>3. ASSUME NEW t \in Tasks, pc[t] \in {"open", "browsing", "closing", "unwinding"}
        PROVE  t \in browsers
    BY <2>3 DEF IInv, Own, LocksAt, InBrowser
  <2>4. QED
    BY <2>1, <2>2, <2>3 DEF HoldingsExact, Room
<1>2. QED
  BY <1>1, Invariant, RoomInvariant, PTL

\* ExclusiveAlone for any number of tasks and endpoints: with optimized leases, a
\* task that asked for an endpoint of its own shares it with no other.
THEOREM ExclusiveIsAlone == Spec => []ExclusiveAlone
<1>1. IInv => ExclusiveAlone
  <2> SUFFICES ASSUME IInv, optimized, NEW t \in Tasks, NEW u \in Tasks, t # u,
                      lease[t] = lease[u], lease[t] # NoEndpoint
               PROVE  ~Exclusive(t) /\ ~Exclusive(u)
    BY DEF ExclusiveAlone
  <2>1. \A v \in Tasks : lease[v] # NoEndpoint /\ role[v] # "plain" =>
          \A w \in Tasks \ {v} : lease[w] # lease[v]
    BY DEF IInv, Booked, Book
  <2>2. QED
    BY <2>1 DEF Exclusive
<1>2. QED
  BY <1>1, Invariant, PTL

\* NoLostWakeup for any number of tasks and endpoints: who waits on the pool's
\* condition waits for a buyer, or for the holders of as many endpoints as the
\* pool may have, and the pool believes in a buyer only while there is one.
THEOREM NoWakeupIsLost == Spec => []NoLostWakeup
<1>1. IInv => NoLostWakeup
  <2>1. Used(lease) = {e \in Endpoints : Holders(e) # {}}
    BY DEF Used, Held, Holders
  <2>2. QED
    BY <2>1 DEF IInv, Waking, Wakes, NoLostWakeup
<1>2. QED
  BY <1>1, Invariant, PTL

\* At no time do two tasks buy endpoints, and no more than PoolSize endpoints take
\* leases.
THEOREM OneBuyer ==
  Spec => [](/\ \A t, u \in Tasks : pc[t] = "fetch" /\ pc[u] = "fetch" => t = u
             /\ Cardinality(Active(pool)) <= PoolSize)
<1>1. IInv => /\ \A t, u \in Tasks : pc[t] = "fetch" /\ pc[u] = "fetch" => t = u
              /\ Cardinality(Active(pool)) <= PoolSize
  BY DEF IInv, Waking, Wakes, Booked, Book
<1>2. QED
  BY <1>1, Invariant, PTL

\* VisitorFiled, as long as a request asks no more life of its lease than a
\* visitor does (REQUEST_TIMEOUT_SECONDS at most 30): a Douyin request carries a
\* visitor only through the endpoint that visitor was minted on, unless it was
\* filed under another one than it was minted on.
THEOREM VisitorsAreFiled ==
  ASSUME RequestNeed = Short
  PROVE  Spec => []VisitorFiled
<1>1. IInv => VisitorFiled
  BY DEF IInv, Own, VisitorAt, VisitorFiled
<1>2. QED
  BY <1>1, Invariant, PTL

\* IdentityStable for any number of tasks and endpoints: a lease that a request
\* or a browser went through is kept until the scope ends.
THEOREM IdentityIsStable == Spec => IdentityStable
<1>1. IInv /\ [Next]_vars =>
        [\A t \in Tasks : started[t] /\ lease'[t] # lease[t] => pc'[t] = "idle"]_vars
  BY NextKeeps DEF Steady
<1>2. QED
  BY <1>1, Invariant, PTL DEF Spec, IdentityStable

\* The pool and its borrowers implement LeaseTable: at most PoolSize endpoints
\* take leases, at most MaxUsers tasks hold one, and what was closed takes no
\* lease before its users are gone and it is bought anew.
THEOREM PoolImplementsTable == Spec => ImplementsTable
<1>1. Init => Table!Init
  BY DEF Init, EmptyPool, Active, Table!Init
<1>2. IInv /\ [Next]_vars => [Table!Next]_<<lease, Active(pool)>>
  BY NextKeeps DEF TableStep
<1>3. QED
  BY <1>1, <1>2, Invariant, PTL DEF Spec, ImplementsTable, Table!Spec

\* NoStandstill, while no more collections than the pool has endpoints are of the
\* kinds that may keep a lease and wait (for the visitors' lock, for a browser):
\* a borrower that waits is then never waiting for tasks that all wait as well,
\* unless browsers that were left open have taken every place.
\* Those who hold leases without being able to move would be all of these
\* collections, so none of them is left to hold the lock or the browser.
THEOREM NobodyStandsStill ==
  ASSUME \A p \in Plans : Cardinality(Queueing(p)) <= PoolSize
  PROVE  Spec => []NoStandstill
<1> DEFINE Moves(u) == \/ pc[u] \in {"ready", "woken", "fetch", "sent", "minting", "browsing",
                                     "closing", "unwinding"} \union Passing
                       \/ pc[u] = "lock" /\ minter = NoTask
                       \/ pc[u] = "sem" /\ PlaceFree
<1>1. IInv /\ Room => NoStandstill
  <2> SUFFICES ASSUME IInv, Room, orphans < BrowserSlots, NEW t \in Tasks, pc[t] = "wait",
                      \A u \in Tasks : ~Moves(u)
               PROVE  FALSE
    BY DEF NoStandstill
  <2>1. /\ lease \in Leases /\ Types /\ Wakes(pc, lease, pool.fetching)
        /\ \A u \in Tasks : LeaseAt(u) /\ LocksAt(u) /\ RoleAt(u)
    BY DEF IInv, Booked, Book, Waking, Own
  <2> DEFINE H == {u \in Tasks : lease[u] # NoEndpoint}
             Q == Queueing(plan)
             f == [u \in H |-> lease[u]]
  <2>2. Cardinality(Used(lease)) >= PoolSize
    BY <2>1 DEF Wakes
  <2>3. ASSUME NEW u \in H PROVE pc[u] \in {"lock", "sem"} /\ u \in Q
    <3>1. u \in Tasks /\ pc[u] \in Places /\ ~Moves(u) /\ lease[u] # NoEndpoint
          /\ LeaseAt(u) /\ RoleAt(u)
      BY <2>1 DEF Types
    <3>2. pc[u] \in {"lock", "sem"}
      BY <3>1 DEF LeaseAt, Borrowing, Places, Goals, Passing
    <3>3. QED
      BY <3>1, <3>2 DEF RoleAt, Queueing, Borrowing
  <2>4. f \in Surjection(H, Used(lease))
    <3>1. f \in [H -> Used(lease)]
      BY <2>1 DEF Leases, Used, Held
    <3>2. \A e \in Used(lease) : \E u \in H : f[u] = e
      BY LeasesAssumption DEF Used, Held
    <3>3. QED
      BY <3>1, <3>2 DEF Surjection
  <2>5. IsFiniteSet(Q) /\ Cardinality(Q) \in Nat /\ Cardinality(Q) <= PoolSize /\ H \subseteq Q
    <3>1. Q \subseteq Tasks /\ IsFiniteSet(Tasks)
      BY LeasesAssumption DEF Queueing
    <3>2. QED
      BY <2>1, <2>3, <3>1, FS_Subset, FS_CardinalityType DEF Types
  <2>6. IsFiniteSet(H) /\ Cardinality(H) \in Nat
    BY <2>5, FS_Subset, FS_CardinalityType
  <2>7. Cardinality(Used(lease)) <= Cardinality(H) /\ PoolSize \in Nat \ {0}
    BY <2>4, <2>6, FS_Surjection, PoolAssumption
  <2>8. \A q \in Q : q \in H
    <3> SUFFICES ASSUME NEW q \in Q, q \notin H PROVE FALSE
      OBVIOUS
    <3>1. H \subseteq Q \ {q}
      BY <2>5
    <3>2. IsFiniteSet(Q \ {q}) /\ Cardinality(Q \ {q}) = Cardinality(Q) - 1
      BY <2>5, FS_RemoveElement
    <3>3. Cardinality(H) <= Cardinality(Q) - 1
      BY <3>1, <3>2, FS_Subset
    <3>4. QED
      BY <2>2, <2>5, <2>6, <2>7, <3>3, UsedFinite
  <2> HIDE DEF f
  \* Who has a lock has no lease, or can move.
  <2>9. ASSUME NEW u \in Tasks, minter = u \/ u \in browsers PROVE FALSE
    <3>1. ~Moves(u) /\ LocksAt(u) /\ LeaseAt(u) /\ RoleAt(u)
      BY <2>1
    <3>2. pc[u] \in Borrowing /\ goal[u] # "sent"
      BY <2>9, <3>1 DEF LocksAt, InBrowser, Passing
    <3>3. lease[u] = NoEndpoint /\ u \in Q
      BY <3>1, <3>2 DEF LeaseAt, RoleAt, Borrowing, Queueing
    <3>4. QED
      BY <2>8, <3>3
  <2>10. PICK u \in Tasks : pc[u] \in {"lock", "sem"}
    <3>1. H # {}
      BY <2>2, <2>6, <2>7, UsedFinite, FS_EmptySet
    <3>2. QED
      BY <2>3, <3>1
  <2>11. CASE pc[u] = "lock"
    <3>1. minter # NoTask
      BY <2>11
    <3>2. QED
      BY <2>1, <2>9, <3>1 DEF Types
  <2>12. CASE pc[u] = "sem"
    <3>1. browsers = {}
      BY <2>1, <2>9 DEF Types
    <3>2. PlaceFree
      BY <3>1, FS_EmptySet, LeasesAssumption DEF PlaceFree, Room
    <3>3. QED
      BY <2>12, <3>2
  <2>13. QED
    BY <2>10, <2>11, <2>12
<1>2. QED
  BY <1>1, Invariant, RoomInvariant, PTL
=============================================================================
