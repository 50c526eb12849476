------------------- MODULE BackendConcurrencyLimiterProofs -------------------
(***************************************************************************)
(* Proofs about BackendConcurrencyLimiter and, at the end, about its       *)
(* composition with hot reload, LimiterReload: for every set of sites and  *)
(* requests, every choice of limits and every sequence of configurations.  *)
(***************************************************************************)
EXTENDS LimiterReload, FiniteSetTheorems, FunctionTheorems, SequenceTheorems, TLAPS

-----------------------------------------------------------------------------
(* The functions of one site's state.                                      *)

\* A state with nothing to hold on to, when retired, is replaced by NoSite.
LEMMA ReclaimType ==
  ASSUME NEW x \in SiteState
  PROVE  /\ NoSite \in SiteState
         /\ Reclaim(x) \in SiteState
         /\ Reclaim(x).queue = x.queue
         /\ Reclaim(x).active = x.active
BY DEF SiteState, NoSite, Reclaim

\* The promotion loop takes a prefix of the queue and stops at the limit.
LEMMA PromoteFacts ==
  ASSUME NEW x \in SiteState
  PROVE  /\ PromotionCount(x) \in 0 .. Len(x.queue)
         /\ Promote(x) \in SiteState
         /\ Promote(x).active = x.active + PromotionCount(x)
         /\ Promote(x).maximum_active = x.maximum_active
         /\ Promote(x).present = x.present
         /\ Promote(x).retired = x.retired
         /\ Len(Promote(x).queue) = Len(x.queue) - PromotionCount(x)
         /\ \A i \in 1 .. Len(Promote(x).queue) :
              Promote(x).queue[i] = x.queue[i + PromotionCount(x)]
         /\ Promote(x).queue # << >> => Promote(x).active >= x.maximum_active
         /\ PromotionCount(x) # 0 => Promote(x).active <= x.maximum_active
         /\ PromotedOf(x) \subseteq Requests
<1> DEFINE k == PromotionCount(x)
<1>1. x.queue \in Seq(Requests) /\ x.active \in Nat /\ x.maximum_active \in Nat
  BY DEF SiteState
<1>2. k \in 0 .. Len(x.queue)
  BY <1>1 DEF PromotionCount
<1>3. /\ k = Len(x.queue) \/ x.active + k >= x.maximum_active
      /\ k # 0 => x.active + k <= x.maximum_active
  BY <1>1 DEF PromotionCount
<1> HIDE DEF k
<1>4. DEFINE q == SubSeq(x.queue, k + 1, Len(x.queue))
<1>5. /\ q \in Seq(Requests)
      /\ Len(q) = Len(x.queue) - k
      /\ \A i \in 1 .. Len(q) : q[i] = x.queue[i + k]
  BY <1>1, <1>2
<1>6. q # << >> => k # Len(x.queue)
  BY <1>1, <1>2, <1>5
<1> HIDE DEF q
<1>7. Promote(x) = [x EXCEPT !.active = x.active + k, !.queue = q]
  BY DEF Promote, SiteState, k, q
<1>8. PromotedOf(x) \subseteq Requests
  BY <1>1, <1>2 DEF PromotedOf, k
<1>9. /\ Promote(x) \in SiteState
      /\ Promote(x).active = x.active + k
      /\ Promote(x).maximum_active = x.maximum_active
      /\ Promote(x).present = x.present
      /\ Promote(x).retired = x.retired
      /\ Promote(x).queue = q
  <2>1. x.active + k \in Nat
    BY <1>1, <1>2
  <2> QED
    BY <1>5, <1>7, <2>1 DEF SiteState
<1> QED
  BY <1>1, <1>2, <1>3, <1>5, <1>6, <1>8, <1>9 DEF k

\* Erasing a waiter keeps the others, in order.
LEMMA WithoutFacts ==
  ASSUME NEW q \in Seq(Requests), NEW r \in Range(q)
  PROVE  /\ Without(q, r) \in Seq(Requests)
         /\ Len(Without(q, r)) = Len(q) - 1
         /\ \E p \in DOMAIN q : q[p] = r /\ \A i \in 1 .. Len(q) - 1 :
              Without(q, r)[i] = IF i < p THEN q[i] ELSE q[i + 1]
<1> DEFINE p == CHOOSE j \in DOMAIN q : q[j] = r
<1>1. p \in 1 .. Len(q) /\ q[p] = r
  BY DEF Range
<1> DEFINE a == SubSeq(q, 1, p - 1)
           b == SubSeq(q, p + 1, Len(q))
<1>2. /\ a \in Seq(Requests) /\ Len(a) = p - 1 /\ \A i \in 1 .. p - 1 : a[i] = q[i]
  BY <1>1
<1>3. /\ b \in Seq(Requests) /\ Len(b) = Len(q) - p
      /\ \A i \in 1 .. Len(q) - p : b[i] = q[i + p]
  BY <1>1
<1>4. Without(q, r) = a \o b
  BY DEF Without
<1> HIDE DEF p, a, b
<1>5. a \o b \in Seq(Requests) /\ Len(a \o b) = Len(q) - 1
  BY <1>1, <1>2, <1>3, ConcatProperties
<1>6. ASSUME NEW i \in 1 .. Len(q) - 1
      PROVE  (a \o b)[i] = IF i < p THEN q[i] ELSE q[i + 1]
  <2>0. i \in 1 .. Len(a) + Len(b)
    BY <1>1, <1>2, <1>3
  <2>1. (a \o b)[i] = IF i <= Len(a) THEN a[i] ELSE b[i - Len(a)]
    BY <1>2, <1>3, <2>0, ConcatProperties
  <2>2. CASE i < p
    BY <1>1, <1>2, <2>1, <2>2
  <2>3. CASE ~(i < p)
    <3>1. i - Len(a) = i + 1 - p /\ i + 1 - p \in 1 .. Len(q) - p
      BY <1>1, <1>2, <2>3
    <3>2. b[i + 1 - p] = q[i + 1 - p + p] /\ i + 1 - p + p = i + 1
      BY <1>1, <1>3, <3>1
    <3> QED
      BY <1>1, <1>2, <2>1, <2>3, <3>1, <3>2
  <2> QED
    BY <2>2, <2>3
<1>7. p \in DOMAIN q
  BY <1>1
<1> QED
  BY <1>1, <1>4, <1>5, <1>6, <1>7

\* release() passes the slot to the oldest waiter ...
LEMMA ReleaseHandsOver ==
  ASSUME NEW x \in SiteState, ReleaseNext(x) # {}
  PROVE  /\ x.present /\ x.active <= x.maximum_active /\ x.queue # << >>
         /\ ReleaseNext(x) = {Head(x.queue)}
         /\ ReleaseSite(x) \in SiteState
         /\ ReleaseSite(x) = [x EXCEPT !.queue = Tail(x.queue)]
<1>1. x.present /\ x.active <= x.maximum_active /\ x.queue # << >>
  BY DEF ReleaseNext
<1>2. x.active \in Nat /\ x.maximum_active \in Nat /\ x.queue \in Seq(Requests)
  BY DEF SiteState
<1>3. ReleaseSite(x) = [x EXCEPT !.queue = Tail(x.queue)]
  BY <1>1, <1>2 DEF ReleaseSite, SiteState
<1>4. Tail(x.queue) \in Seq(Requests)
  BY <1>1, <1>2
<1> QED
  BY <1>1, <1>3, <1>4 DEF ReleaseNext, SiteState

\* ... or gives it up, and keeps the queue.
LEMMA ReleaseGivesUp ==
  ASSUME NEW x \in SiteState, ReleaseNext(x) = {}
  PROVE  /\ ReleaseSite(x) \in SiteState
         /\ ReleaseSite(x).queue = x.queue
         /\ ReleaseSite(x).active = IF x.present /\ x.active # 0 THEN x.active - 1
                                                               ELSE x.active
         /\ x.present /\ x.queue # << >> => ReleaseSite(x).active >= x.maximum_active
         /\ ReleaseSite(x).maximum_active = x.maximum_active \/ x.queue = << >>
         /\ ReleaseSite(x).present /\ ReleaseSite(x).retired =>
              ReleaseSite(x).active > 0 \/ x.queue # << >> \/ ~x.present
<1>1. x.active \in Nat /\ x.maximum_active \in Nat /\ x.queue \in Seq(Requests)
  BY DEF SiteState
<1>0. ~(x.present /\ x.active <= x.maximum_active /\ x.queue # << >>)
  BY Zenon DEF ReleaseNext
<1>2. CASE ~x.present
  BY <1>1, <1>2 DEF ReleaseSite
<1>3. CASE x.present /\ x.active = 0
  <2>1. x.queue = << >>
    BY <1>0, <1>1, <1>3
  <2> DEFINE y == [x EXCEPT !.active = 0]
  <2>2. ReleaseSite(x) = Reclaim(y)
    BY <1>1, <1>3, <2>1 DEF ReleaseSite
  <2>3. y \in SiteState /\ y.active = 0 /\ y.queue = << >>
    BY <2>1 DEF SiteState
  <2> HIDE DEF y
  <2>4. /\ Reclaim(y) \in SiteState
        /\ Reclaim(y).queue = << >>
        /\ Reclaim(y).active = 0
    BY <2>3, ReclaimType
  <2>5. ~(Reclaim(y).present /\ Reclaim(y).retired)
    BY <2>3 DEF Reclaim, NoSite
  <2> QED
    BY <1>1, <1>3, <2>1, <2>2, <2>4, <2>5
<1>4. CASE x.present /\ x.active # 0
  <2> DEFINE y == [x EXCEPT !.active = x.active - 1]
  <2>1. x.active > x.maximum_active \/ x.queue = << >>
    BY <1>0, <1>1, <1>4
  <2>2. ReleaseSite(x) = Reclaim(y)
    BY <1>1, <1>4, <2>1 DEF ReleaseSite
  <2>3. x.active - 1 \in Nat
    BY <1>1, <1>4
  <2>4. y \in SiteState /\ y.active = x.active - 1 /\ y.queue = x.queue
        /\ y.maximum_active = x.maximum_active
    BY <2>3 DEF SiteState
  <2> HIDE DEF y
  <2>5. /\ Reclaim(y) \in SiteState
        /\ Reclaim(y).queue = y.queue
        /\ Reclaim(y).active = y.active
    BY <2>4, ReclaimType
  <2>6. Reclaim(y).maximum_active = y.maximum_active \/ y.queue = << >>
    BY DEF Reclaim
  <2>7. Reclaim(y).present /\ Reclaim(y).retired => y.active # 0 \/ y.queue # << >>
    BY DEF Reclaim, NoSite
  <2> QED
    BY <1>1, <1>4, <2>1, <2>2, <2>3, <2>4, <2>5, <2>6, <2>7
<1> QED
  BY <1>2, <1>3, <1>4

\* release() leaves a well-typed site and hands its slot to a request, if to anybody.
LEMMA ReleaseType ==
  ASSUME NEW x \in SiteState
  PROVE  ReleaseSite(x) \in SiteState /\ ReleaseNext(x) \subseteq Requests
<1>1. CASE ReleaseNext(x) = {}
  BY <1>1, ReleaseGivesUp
<1>2. CASE ReleaseNext(x) # {}
  <2>1. x.queue \in Seq(Requests)
    BY DEF SiteState
  <2>2. x.queue # << >> /\ ReleaseNext(x) = {Head(x.queue)} /\ ReleaseSite(x) \in SiteState
    BY <1>2, ReleaseHandsOver
  <2> QED
    BY <2>1, <2>2
<1> QED
  BY <1>1, <1>2

-----------------------------------------------------------------------------
(* Type correctness.                                                       *)

USE RequestsFinite, SiteOfType, LimitsType, FailuresType

\* The empty limiter has its type.
LEMMA TypeInit == Init => TypeOK
<1> SUFFICES ASSUME Init PROVE TypeOK
  OBVIOUS
<1>1. NoSite \in SiteState
  BY DEF NoSite, SiteState
<1>2. << >> \in Seq(Results)
  OBVIOUS
<1>3. answers \in [Requests -> Seq(Results)]
  BY <1>2 DEF Init
<1>4. site \in [Sites -> SiteState]
  BY <1>1 DEF Init
<1> QED
  BY <1>3, <1>4 DEF Init, TypeOK, TimerStates

\* The limits of a snapshot leave a well-formed site.
LEMMA WithLimitsFacts ==
  ASSUME NEW x \in SiteState, NEW l \in Limits
  PROVE  /\ WithLimits(x, l) \in SiteState
         /\ WithLimits(x, l).present
         /\ ~WithLimits(x, l).retired
         /\ WithLimits(x, l).active = x.active
         /\ WithLimits(x, l).queue = x.queue
         /\ WithLimits(x, l).maximum_active \in Nat \ {0}
BY DEF WithLimits, SiteState

\* async_acquire's three outcomes for the site.
LEMMA AdmitFacts ==
  ASSUME NEW y \in SiteState, NEW r \in Requests
  PROVE  /\ Admit(y, r) \in SiteState
         /\ Admit(y, r).active = IF CanEnter(y) THEN y.active + 1 ELSE y.active
         /\ Admit(y, r).queue = IF CanEnter(y) \/ QueueFull(y) THEN y.queue
                                ELSE Append(y.queue, r)
         /\ Admit(y, r).maximum_active = y.maximum_active
         /\ Admit(y, r).present = y.present
         /\ Admit(y, r).retired = y.retired
<1>1. y.active + 1 \in Nat /\ y.rejected + 1 \in Nat /\ Append(y.queue, r) \in Seq(Requests)
  BY DEF SiteState
<1>2. CASE CanEnter(y)
  <2>1. Admit(y, r) = [y EXCEPT !.active = y.active + 1]
    BY <1>2 DEF Admit
  <2> QED
    BY <1>1, <1>2, <2>1 DEF SiteState
<1>3. CASE QueueFull(y)
  <2>1. Admit(y, r) = [y EXCEPT !.rejected = y.rejected + 1] /\ ~CanEnter(y)
    BY <1>3 DEF Admit, QueueFull
  <2> QED
    BY <1>1, <1>3, <2>1 DEF SiteState
<1>4. CASE ~CanEnter(y) /\ ~QueueFull(y)
  <2>1. Admit(y, r) = [y EXCEPT !.queue = Append(y.queue, r)]
    BY <1>4 DEF Admit
  <2> QED
    BY <1>1, <1>4, <2>1 DEF SiteState
<1> QED
  BY <1>2, <1>3, <1>4

\* Removing a waiter from the queue, with and without counting a timeout.
LEMMA EraseFacts ==
  ASSUME NEW x \in SiteState, NEW r \in Range(x.queue),
         NEW z \in {Dequeue(x, r), Expire(x, r)}
  PROVE  /\ z \in SiteState
         /\ z.queue = Without(x.queue, r)
         /\ z.active = x.active
         /\ z.maximum_active = x.maximum_active \/ z.queue = << >>
         /\ z = NoSite \/ (z.present = x.present /\ z.maximum_active = x.maximum_active)
         /\ z.present /\ z.retired => x.active # 0 \/ z.queue # << >>
<1>1. x.queue \in Seq(Requests)
  BY DEF SiteState
<1>2. Without(x.queue, r) \in Seq(Requests)
  BY <1>1, WithoutFacts
<1>3. x.rejected + 1 \in Nat /\ x.timeouts + 1 \in Nat
  BY DEF SiteState
<1>4. PICK y : /\ z = Reclaim(y)
               /\ \/ y = [x EXCEPT !.queue = Without(x.queue, r)]
                  \/ y = [x EXCEPT !.queue = Without(x.queue, r),
                                   !.rejected = x.rejected + 1,
                                   !.timeouts = x.timeouts + 1]
  BY DEF Dequeue, Expire
<1>5. /\ y \in SiteState
      /\ y.queue = Without(x.queue, r)
      /\ y.active = x.active
      /\ y.maximum_active = x.maximum_active
      /\ y.present = x.present
  BY <1>2, <1>3, <1>4 DEF SiteState
<1>6. /\ Reclaim(y) \in SiteState
      /\ Reclaim(y).queue = y.queue
      /\ Reclaim(y).active = y.active
  BY <1>5, ReclaimType
<1>7. \/ Reclaim(y) = y /\ (y.retired => y.active # 0 \/ y.queue # << >>)
      \/ Reclaim(y) = NoSite /\ y.queue = << >>
  BY DEF Reclaim
<1>8. ~NoSite.present
  BY DEF NoSite
<1>9. CASE Reclaim(y) = y /\ (y.retired => y.active # 0 \/ y.queue # << >>)
  BY <1>4, <1>5, <1>9
<1>10. CASE Reclaim(y) = NoSite /\ y.queue = << >>
  <2>1. z = NoSite /\ z \in SiteState /\ z.queue = << >> /\ z.active = x.active
    BY <1>4, <1>5, <1>6, <1>10
  <2>2. Without(x.queue, r) = << >>
    BY <1>5, <1>10
  <2> QED
    BY <1>8, <2>1, <2>2
<1> QED
  BY <1>7, <1>9, <1>10

\* Whom the promotion loop comes to later are requests.
LEMMA PromotedAfterType ==
  ASSUME NEW x \in SiteState, NEW p
  PROVE  PromotedAfter(x, p) \subseteq Requests
<1>1. x.queue \in Seq(Requests) /\ PromotionCount(x) \in 0 .. Len(x.queue)
  BY PromoteFacts DEF SiteState
<1>2. \A j \in 1 .. PromotionCount(x) : x.queue[j] \in Requests
  BY <1>1
<1> QED
  BY <1>2 DEF PromotedAfter

\* Every step of the limiter keeps the type of its state.
LEMMA TypeStep == TypeOK /\ [Next]_vars => TypeOK'
<1> SUFFICES ASSUME TypeOK, [Next]_vars PROVE TypeOK'
  OBVIOUS
<1> USE DEF TypeOK
<1>1. ASSUME NEW r \in Requests, NEW l \in Limits, AsyncAcquire(r, l)
      PROVE  TypeOK'
  <2> DEFINE s == SiteOf[r]
             x == WithLimits(site[s], l)
             y == Promote(x)
  <2>1. x \in SiteState
    BY WithLimitsFacts
  <2>2. y \in SiteState /\ PromotedOf(x) \subseteq Requests
    BY <2>1, PromoteFacts
  <2>3. Admit(y, r) \in SiteState
    BY <2>2, AdmitFacts
  <2>4. /\ site' = [site EXCEPT ![s] = Admit(y, r)]
        /\ promoted' = promoted \cup PromotedOf(x) \cup (IF CanEnter(y) THEN {r} ELSE {})
    BY <1>1 DEF AsyncAcquire
  <2> HIDE DEF x, y
  <2>5. site' \in [Sites -> SiteState] /\ promoted' \subseteq Requests
    BY <2>2, <2>3, <2>4
  <2>6. timer' \in [Requests -> TimerStates]
    BY <1>1 DEF AsyncAcquire, TimerStates
  <2>7. \A p : PromotedAfter(x, p) \subseteq Requests
    BY <2>1, PromotedAfterType DEF x
  <2>8. behind' \in [Requests -> SUBSET Requests]
    <3>1. \A p \in Requests :
            (IF p \notin PromotedOf(x) THEN behind[p]
             ELSE PromotedAfter(x, p) \cup (IF CanEnter(y) \/ QueueFull(y) THEN {r} ELSE {}))
              \in SUBSET Requests
      BY <2>7
    <3>2. behind' = [p \in Requests |->
            IF p \notin PromotedOf(x) THEN behind[p]
            ELSE PromotedAfter(x, p) \cup (IF CanEnter(y) \/ QueueFull(y) THEN {r} ELSE {})]
      BY <1>1 DEF AsyncAcquire, x, y
    <3> QED
      BY <3>1, <3>2
  <2>9. refusing' \subseteq Requests
    BY <1>1 DEF AsyncAcquire
  <2> QED
    BY <1>1, <2>5, <2>6, <2>8, <2>9 DEF AsyncAcquire
<1>2. ASSUME NEW r \in Requests, HandOff(r)
      PROVE  TypeOK'
  <2>1. timer' \in [Requests -> TimerStates]
    BY <1>2 DEF HandOff, TimerStates, Disarm
  <2>2. posts' \subseteq Requests \X Results
    BY <1>2 DEF HandOff, Results
  <2>3. behind' \in [Requests -> SUBSET Requests]
    BY <1>2 DEF HandOff
  <2> QED
    BY <1>2, <2>1, <2>2, <2>3 DEF HandOff
<1>3. ASSUME NEW r \in Requests, NEW controlBlock \in BOOLEAN,
             AllocationFails(r, controlBlock)
      PROVE  TypeOK'
  <2> DEFINE s == SiteOf[r]
             x == site[s]
             once == ReleaseSite(x)
  <2>1. x \in SiteState
    OBVIOUS
  <2>2. once \in SiteState /\ ReleaseNext(x) \subseteq Requests
    BY <2>1, ReleaseType
  <2>3. ReleaseSite(once) \in SiteState /\ ReleaseNext(once) \subseteq Requests
    BY <2>2, ReleaseType
  <2>4. /\ site' = [site EXCEPT ![s] = IF controlBlock THEN ReleaseSite(once) ELSE once]
        /\ next' = (next \ {r}) \cup ReleaseNext(x)
                      \cup (IF controlBlock THEN ReleaseNext(once) ELSE {})
    BY <1>3 DEF AllocationFails
  <2> HIDE DEF once, x
  <2>5. site' \in [Sites -> SiteState] /\ next' \subseteq Requests
    BY <2>2, <2>3, <2>4
  <2>6. timer' \in [Requests -> TimerStates]
    BY <1>3 DEF AllocationFails, TimerStates, Disarm
  <2>7. answers' \in [Requests -> Seq(Results)]
    BY <1>3 DEF AllocationFails, Results
  <2>8. failures' \in Nat /\ doubled' \in BOOLEAN
    BY <1>3 DEF AllocationFails
  <2> QED
    BY <1>3, <2>5, <2>6, <2>7, <2>8 DEF AllocationFails
<1>4. ASSUME NEW r \in Requests, NEW result \in Results, RunHandler(r, result)
      PROVE  TypeOK'
  BY <1>4 DEF RunHandler, UnchangedHandOffs
<1>5. ASSUME NEW r \in Requests, Release(r)
      PROVE  TypeOK'
  <2>1. site[SiteOf[r]] \in SiteState
    OBVIOUS
  <2>2. /\ ReleaseSite(site[SiteOf[r]]) \in SiteState
        /\ ReleaseNext(site[SiteOf[r]]) \subseteq Requests
    BY <2>1, ReleaseType
  <2> QED
    BY <1>5, <2>2 DEF Release, UnchangedHandOffs
<1>6. ASSUME NEW r \in Requests, CancelPending(r)
      PROVE  TypeOK'
  <2>1. site[SiteOf[r]] \in SiteState /\ r \in Range(site[SiteOf[r]].queue)
    BY <1>6 DEF CancelPending, Queued
  <2>2. Dequeue(site[SiteOf[r]], r) \in SiteState
    BY <2>1, EraseFacts
  <2>3. timer' \in [Requests -> TimerStates]
    BY <1>6 DEF CancelPending, TimerStates, Disarm
  <2> QED
    BY <1>6, <2>2, <2>3 DEF CancelPending, UnchangedHandOffs
<1>7. ASSUME NEW r \in Requests, TimerExpires(r)
      PROVE  TypeOK'
  BY <1>7 DEF TimerExpires, TimerStates, UnchangedHandOffs
<1>8. ASSUME NEW r \in Requests, TimeoutPending(r)
      PROVE  TypeOK'
  <2>1. timer' \in [Requests -> TimerStates]
    BY <1>8 DEF TimeoutPending, TimerStates
  <2>2. posts' \subseteq Requests \X Results
    BY <1>8 DEF TimeoutPending, Results
  <2>3. Queued(r) => Expire(site[SiteOf[r]], r) \in SiteState
    BY EraseFacts DEF Queued
  <2> QED
    BY <1>8, <2>1, <2>2, <2>3 DEF TimeoutPending, UnchangedHandOffs
<1>9. ASSUME NEW s \in Sites, NEW l \in Limits, UpdateLimits(s, l)
      PROVE  TypeOK'
  <2> DEFINE x == WithLimits(site[s], l)
  <2>1. x \in SiteState
    BY WithLimitsFacts
  <2>2. Promote(x) \in SiteState /\ PromotedOf(x) \subseteq Requests
    BY <2>1, PromoteFacts
  <2>3. site' = [site EXCEPT ![s] = Promote(x)] /\ promoted' = promoted \cup PromotedOf(x)
    BY <1>9 DEF UpdateLimits
  <2>4. \A p \in Requests :
          (IF p \in PromotedOf(x) THEN PromotedAfter(x, p) ELSE behind[p]) \in SUBSET Requests
    BY <2>1, PromotedAfterType
  <2>5. behind' \in [Requests -> SUBSET Requests]
    BY <1>9, <2>4 DEF UpdateLimits
  <2> HIDE DEF x
  <2> QED
    BY <1>9, <2>2, <2>3, <2>5 DEF UpdateLimits
<1>10. ASSUME NEW ids \in SUBSET Sites, RetainSites(ids)
       PROVE  TypeOK'
  <2>1. \A s \in Sites : Reclaim([site[s] EXCEPT !.retired = TRUE]) \in SiteState
    <3> TAKE s \in Sites
    <3>1. [site[s] EXCEPT !.retired = TRUE] \in SiteState
      BY ZenonT(60) DEF SiteState
    <3> QED
      BY <3>1, ReclaimType
  <2> QED
    BY <1>10, <2>1 DEF RetainSites, UnchangedHandOffs
<1>11. CASE Clear
  <2>1. NoSite \in SiteState
    BY DEF NoSite, SiteState
  <2>2. timer' \in [Requests -> TimerStates]
    BY <1>11 DEF Clear, TimerStates, Disarm
  <2> QED
    BY <1>11, <2>1, <2>2 DEF Clear, UnchangedHandOffs
<1>12. CASE UNCHANGED vars
  BY <1>12 DEF vars
<1>13. ASSUME NEW r \in Requests, NEW built \in BOOLEAN, HandOffThrows(r, built)
       PROVE  TypeOK'
  <2>1. site[SiteOf[r]] \in SiteState
    OBVIOUS
  <2>2. /\ ReleaseSite(site[SiteOf[r]]) \in SiteState
        /\ ReleaseNext(site[SiteOf[r]]) \subseteq Requests
    BY <2>1, ReleaseType
  <2>3. site' \in [Sites -> SiteState] /\ next' \subseteq Requests
    BY <1>13, <2>2 DEF HandOffThrows
  <2>4. timer' \in [Requests -> TimerStates]
    BY <1>13 DEF HandOffThrows, TimerStates, Disarm
  <2>5. behind' \in [Requests -> SUBSET Requests] /\ behind[r] \subseteq Requests
    BY <1>13 DEF HandOffThrows
  <2>6. /\ promoted' \subseteq Requests /\ refusing' \subseteq Requests
        /\ leaked' \subseteq Requests /\ handler' \subseteq Requests
    BY <1>13 DEF HandOffThrows
  <2>7. lost' \subseteq Requests
    BY <1>13, <2>5 DEF HandOffThrows
  <2>8. failures' \in Nat
    BY <1>13 DEF HandOffThrows
  <2> QED
    BY <1>13, <2>3, <2>4, <2>5, <2>6, <2>7, <2>8 DEF HandOffThrows
<1>14. ASSUME NEW r \in Requests, TimeoutThrows(r)
       PROVE  TypeOK'
  <2>1. timer' \in [Requests -> TimerStates]
    BY <1>14 DEF TimeoutThrows, TimerStates
  <2>2. Expire(site[SiteOf[r]], r) \in SiteState
    BY <1>14, EraseFacts DEF TimeoutThrows, Queued
  <2> QED
    BY <1>14, <2>1, <2>2 DEF TimeoutThrows
<1> QED
  BY <1>1, <1>2, <1>3, <1>4, <1>5, <1>6, <1>7, <1>8, <1>9, <1>10, <1>11, <1>12, <1>13, <1>14
     DEF Next

\* Every variable keeps its type, whatever the sites, requests and limits.
THEOREM TypeCorrect == Spec => []TypeOK
BY TypeInit, TypeStep, PTL DEF Spec

-----------------------------------------------------------------------------
(* Work conservation, reclaiming and fresh absent sites concern the site    *)
(* alone: every function of the module preserves SiteInv.                  *)

SiteInv(x) ==
  /\ IF x.present THEN x.maximum_active > 0 ELSE x.active = 0 /\ x.queue = << >>
  /\ x.queue # << >> => x.active >= x.maximum_active
  /\ x.present /\ x.retired => x.active > 0 \/ x.queue # << >>

\* The state of a site that async_acquire is about to create satisfies SiteInv.
LEMMA SiteInvNoSite == SiteInv(NoSite)
BY DEF SiteInv, NoSite

\* Promotion under new limits establishes work conservation from scratch.
LEMMA SiteInvPromote ==
  ASSUME NEW x \in SiteState, NEW l \in Limits
  PROVE  SiteInv(Promote(WithLimits(x, l)))
<1> DEFINE w == WithLimits(x, l)
<1>1. w \in SiteState /\ w.present /\ ~w.retired /\ w.maximum_active > 0
  BY WithLimitsFacts
<1> HIDE DEF w
<1>2. /\ Promote(w).maximum_active = w.maximum_active
      /\ Promote(w).present
      /\ ~Promote(w).retired
      /\ Promote(w).queue # << >> => Promote(w).active >= w.maximum_active
  BY <1>1, PromoteFacts
<1> QED
  BY <1>1, <1>2 DEF SiteInv, w

\* async_acquire keeps SiteInv: it queues a request only at the limit.
LEMMA SiteInvAdmit ==
  ASSUME NEW y \in SiteState, SiteInv(y), y.present, ~y.retired, NEW r \in Requests
  PROVE  SiteInv(Admit(y, r))
<1>1. y.active \in Nat /\ y.maximum_active \in Nat
  BY DEF SiteState
<1>2. CASE CanEnter(y)
  BY <1>1, <1>2, AdmitFacts DEF SiteInv, CanEnter
<1>3. CASE ~CanEnter(y)
  <2>1. y.active >= y.maximum_active
    BY <1>1, <1>3 DEF CanEnter, SiteInv
  <2> QED
    BY <1>1, <1>3, <2>1, AdmitFacts DEF SiteInv
<1> QED
  BY <1>2, <1>3

\* release() keeps SiteInv: the freed slot goes to the queue or the site is
\* reclaimed.
LEMMA SiteInvRelease ==
  ASSUME NEW x \in SiteState, SiteInv(x)
  PROVE  SiteInv(ReleaseSite(x))
<1>1. x.active \in Nat /\ x.maximum_active \in Nat /\ x.queue \in Seq(Requests)
  BY DEF SiteState
<1>2. CASE ReleaseNext(x) = {}
  <2> DEFINE z == ReleaseSite(x)
  <2>1. /\ z \in SiteState
        /\ z.queue = x.queue
        /\ z.active = IF x.present /\ x.active # 0 THEN x.active - 1 ELSE x.active
        /\ x.present /\ x.queue # << >> => z.active >= x.maximum_active
        /\ z.maximum_active = x.maximum_active \/ x.queue = << >>
        /\ z.present /\ z.retired => z.active > 0 \/ x.queue # << >> \/ ~x.present
    BY <1>2, ReleaseGivesUp
  <2>2. ~x.present => z = x
    BY DEF ReleaseSite
  <2>3. x.present => z = NoSite \/ (z.present /\ z.maximum_active = x.maximum_active)
    <3>1. ~(x.present /\ x.active <= x.maximum_active /\ x.queue # << >>)
      BY <1>2, Zenon DEF ReleaseNext
    <3> SUFFICES ASSUME x.present
                 PROVE  z = NoSite \/ (z.present /\ z.maximum_active = x.maximum_active)
      OBVIOUS
    <3> DEFINE n == IF x.active # 0 THEN x.active - 1 ELSE 0
               y == [x EXCEPT !.active = n]
    <3>2. z = Reclaim(y)
      BY <1>1, <3>1 DEF ReleaseSite
    <3>3. y.present /\ y.maximum_active = x.maximum_active
      BY DEF SiteState
    <3> HIDE DEF y, z
    <3> QED
      BY <3>2, <3>3 DEF Reclaim
  <2> SUFFICES SiteInv(z)
    OBVIOUS
  <2> HIDE DEF z
  <2>4. CASE ~x.present
    BY <2>2, <2>4
  <2>5. CASE x.present
    BY <1>1, <2>1, <2>3, <2>5 DEF SiteInv, NoSite
  <2> QED
    BY <2>4, <2>5
<1>3. CASE ReleaseNext(x) # {}
  <2>1. /\ x.present /\ x.active <= x.maximum_active /\ x.queue # << >>
        /\ ReleaseSite(x) = [x EXCEPT !.queue = Tail(x.queue)]
    BY <1>3, ReleaseHandsOver
  <2>2. x.active >= x.maximum_active
    BY <2>1 DEF SiteInv
  <2>3. x.maximum_active > 0 /\ x.active > 0
    BY <1>1, <2>1, <2>2 DEF SiteInv
  <2>4. /\ ReleaseSite(x).present
        /\ ReleaseSite(x).active = x.active
        /\ ReleaseSite(x).maximum_active = x.maximum_active
    BY <2>1 DEF SiteState
  <2> QED
    BY <1>1, <2>1, <2>2, <2>3, <2>4 DEF SiteInv
<1> QED
  BY <1>2, <1>3

\* Cancelling or timing out a queued waiter keeps SiteInv.
LEMMA SiteInvErase ==
  ASSUME NEW x \in SiteState, SiteInv(x), NEW r \in Range(x.queue),
         NEW z \in {Dequeue(x, r), Expire(x, r)}
  PROVE  SiteInv(z)
<1>1. x.active \in Nat /\ x.maximum_active \in Nat /\ x.queue \in Seq(Requests)
  BY DEF SiteState
<1>2. x.queue # << >>
  BY DEF Range
<1>3. x.present /\ x.active >= x.maximum_active
  BY <1>2 DEF SiteInv
<1>4. /\ z.active = x.active
      /\ z.maximum_active = x.maximum_active \/ z.queue = << >>
      /\ z = NoSite \/ (z.present = x.present /\ z.maximum_active = x.maximum_active)
      /\ z.present /\ z.retired => x.active # 0 \/ z.queue # << >>
  BY EraseFacts
<1>5. CASE z = NoSite
  BY <1>5, SiteInvNoSite
<1>6. CASE z.present = x.present /\ z.maximum_active = x.maximum_active
  <2>1. z.present /\ x.maximum_active > 0
    BY <1>3, <1>6 DEF SiteInv
  <2> QED
    BY <1>1, <1>3, <1>4, <1>6, <2>1 DEF SiteInv
<1> QED
  BY <1>4, <1>5, <1>6

\* retain_sites() keeps SiteInv: a site that is idle when retired is erased.
LEMMA SiteInvRetire ==
  ASSUME NEW x \in SiteState, SiteInv(x), x.present
  PROVE  SiteInv(Reclaim([x EXCEPT !.retired = TRUE]))
<1> DEFINE y == [x EXCEPT !.retired = TRUE]
<1>1. /\ y \in SiteState /\ y.present /\ y.active = x.active /\ y.queue = x.queue
      /\ y.maximum_active = x.maximum_active /\ y.active \in Nat
  BY DEF SiteState
<1> SUFFICES SiteInv(Reclaim(y))
  OBVIOUS
<1> HIDE DEF y
<1>2. CASE y.retired /\ y.active = 0 /\ y.queue = << >>
  BY <1>2, SiteInvNoSite DEF Reclaim
<1>3. CASE ~(y.retired /\ y.active = 0 /\ y.queue = << >>)
  <2>1. Reclaim(y) = y
    BY <1>3 DEF Reclaim
  <2> QED
    BY <1>1, <1>3, <2>1 DEF SiteInv
<1> QED
  BY <1>2, <1>3

SitesInv == \A s \in Sites : SiteInv(site[s])

\* Every step keeps SiteInv of every site.
LEMMA SitesInvStep == TypeOK /\ SitesInv /\ [Next]_vars => SitesInv'
<1> SUFFICES ASSUME TypeOK, SitesInv, [Next]_vars, NEW t \in Sites
             PROVE  SiteInv(site'[t])
  BY DEF SitesInv
<1> USE DEF TypeOK, SitesInv
<1>0. site[t] \in SiteState /\ SiteInv(site[t])
  OBVIOUS
<1>1. ASSUME NEW r \in Requests, NEW l \in Limits, AsyncAcquire(r, l)
      PROVE  SiteInv(site'[t])
  <2> DEFINE s == SiteOf[r]
             y == Promote(WithLimits(site[s], l))
  <2>1. site[s] \in SiteState
    OBVIOUS
  <2>2. WithLimits(site[s], l) \in SiteState /\ WithLimits(site[s], l).present
        /\ ~WithLimits(site[s], l).retired
    BY <2>1, WithLimitsFacts
  <2>3. y \in SiteState /\ y.present /\ ~y.retired /\ SiteInv(y)
    BY <2>1, <2>2, PromoteFacts, SiteInvPromote
  <2>4. site' = [site EXCEPT ![s] = Admit(y, r)]
    BY <1>1 DEF AsyncAcquire
  <2> HIDE DEF y
  <2>5. SiteInv(Admit(y, r))
    BY <2>3, SiteInvAdmit
  <2> QED
    BY <1>0, <2>4, <2>5
<1>2. ASSUME NEW r \in Requests, NEW controlBlock \in BOOLEAN,
             AllocationFails(r, controlBlock)
      PROVE  SiteInv(site'[t])
  <2> DEFINE s == SiteOf[r]
             once == ReleaseSite(site[s])
  <2>1. once \in SiteState /\ SiteInv(once)
    BY ReleaseType, SiteInvRelease
  <2>2. SiteInv(ReleaseSite(once))
    BY <2>1, SiteInvRelease
  <2>3. site' = [site EXCEPT ![s] = IF controlBlock THEN ReleaseSite(once) ELSE once]
    BY <1>2 DEF AllocationFails
  <2> HIDE DEF once
  <2> QED
    BY <1>0, <2>1, <2>2, <2>3
<1>3. ASSUME NEW r \in Requests, Release(r)
      PROVE  SiteInv(site'[t])
  <2>1. SiteInv(ReleaseSite(site[SiteOf[r]]))
    BY SiteInvRelease
  <2> QED
    BY <1>0, <1>3, <2>1 DEF Release
<1>4. ASSUME NEW r \in Requests, CancelPending(r)
      PROVE  SiteInv(site'[t])
  <2>1. SiteInv(Dequeue(site[SiteOf[r]], r))
    BY <1>4, SiteInvErase DEF CancelPending, Queued
  <2> QED
    BY <1>0, <1>4, <2>1 DEF CancelPending
<1>5. ASSUME NEW r \in Requests, TimeoutPending(r)
      PROVE  SiteInv(site'[t])
  <2>1. Queued(r) => SiteInv(Expire(site[SiteOf[r]], r))
    BY SiteInvErase DEF Queued
  <2> QED
    BY <1>0, <1>5, <2>1 DEF TimeoutPending
<1>6. ASSUME NEW s \in Sites, NEW l \in Limits, UpdateLimits(s, l)
      PROVE  SiteInv(site'[t])
  <2>1. SiteInv(Promote(WithLimits(site[s], l)))
    BY SiteInvPromote
  <2> QED
    BY <1>0, <1>6, <2>1 DEF UpdateLimits
<1>7. ASSUME NEW ids \in SUBSET Sites, RetainSites(ids)
      PROVE  SiteInv(site'[t])
  <2>1. site[t].present => SiteInv(Reclaim([site[t] EXCEPT !.retired = TRUE]))
    BY <1>0, SiteInvRetire
  <2> QED
    BY <1>0, <1>7, <2>1 DEF RetainSites
<1>8. CASE Clear
  BY <1>8, SiteInvNoSite DEF Clear
<1>9. CASE UNCHANGED site
  BY <1>0, <1>9
<1>10. ASSUME NEW r \in Requests,
              HandOff(r) \/ TimerExpires(r) \/ \E result \in Results : RunHandler(r, result)
       PROVE  UNCHANGED site
  BY <1>10 DEF HandOff, TimerExpires, RunHandler
<1>11. UNCHANGED vars => UNCHANGED site
  BY DEF vars
<1>12. ASSUME NEW r \in Requests, NEW built \in BOOLEAN, HandOffThrows(r, built)
       PROVE  SiteInv(site'[t])
  <2>1. SiteInv(ReleaseSite(site[SiteOf[r]]))
    BY SiteInvRelease
  <2> QED
    BY <1>0, <1>12, <2>1 DEF HandOffThrows
<1>13. ASSUME NEW r \in Requests, TimeoutThrows(r)
       PROVE  SiteInv(site'[t])
  <2>1. SiteInv(Expire(site[SiteOf[r]], r))
    BY <1>13, SiteInvErase DEF TimeoutThrows, Queued
  <2> QED
    BY <1>0, <1>13, <2>1 DEF TimeoutThrows
<1> QED
  BY <1>1, <1>2, <1>3, <1>4, <1>5, <1>6, <1>7, <1>8, <1>9, <1>10, <1>11, <1>12, <1>13 DEF Next

\* Every site satisfies SiteInv in every reachable state.
LEMMA SitesInvAlways == Spec => []SitesInv
<1>1. Init => SitesInv
  BY SiteInvNoSite DEF Init, SitesInv
<1> QED
  BY <1>1, SitesInvStep, TypeCorrect, PTL DEF Spec

\* No waiter waits while its site has a free slot: raised and lowered limits,
\* releases, timeouts, cancellations, retirements and clears in any order.
THEOREM WorkConservingHolds == Spec => []WorkConserving
<1>1. SitesInv => WorkConserving
  BY DEF SitesInv, SiteInv, WorkConserving
<1> QED
  BY <1>1, SitesInvAlways, PTL

\* The limiter never keeps an entry for a deleted site without permit or waiter.
THEOREM NoZombieSiteHolds == Spec => []NoZombieSite
<1>1. SitesInv => NoZombieSite
  BY DEF SitesInv, SiteInv, NoZombieSite
<1> QED
  BY <1>1, SitesInvAlways, PTL

-----------------------------------------------------------------------------
(* A request's way through queue, hand-off, post and permit.               *)

Stations == QueueSound /\ SlotsApart

\* Promotion under new limits: a prefix leaves, the rest stays.
LEMMA PromotionSplit ==
  ASSUME NEW x \in SiteState, NEW l \in Limits,
         \A i, j \in DOMAIN x.queue : x.queue[i] = x.queue[j] => i = j
  PROVE  LET w == WithLimits(x, l)
             q == Promote(w).queue
         IN  /\ q \in Seq(Requests)
             /\ \A i, j \in DOMAIN q : q[i] = q[j] => i = j
             /\ \A i \in DOMAIN q : q[i] \notin PromotedOf(w)
             /\ \A i \in DOMAIN q : \E j \in DOMAIN x.queue : q[i] = x.queue[j]
             /\ \A p \in PromotedOf(w) : \E j \in DOMAIN x.queue : p = x.queue[j]
             /\ IsFiniteSet(PromotedOf(w))
             /\ Cardinality(PromotedOf(w)) = PromotionCount(w)
             /\ Promote(w).active = x.active + Cardinality(PromotedOf(w))
             /\ PromotedOf(w) # {} => Promote(w).active <= l[1]
<1> DEFINE w == WithLimits(x, l)
           q == Promote(w).queue
           k == PromotionCount(w)
<1>1. w \in SiteState /\ w.queue = x.queue /\ w.active = x.active /\ w.maximum_active = l[1]
  BY WithLimitsFacts DEF WithLimits, SiteState
<1>2. x.queue \in Seq(Requests) /\ x.active \in Nat
  BY DEF SiteState
<1>3. /\ k \in 0 .. Len(x.queue)
      /\ Promote(w) \in SiteState
      /\ Promote(w).active = x.active + k
      /\ Len(q) = Len(x.queue) - k
      /\ \A i \in 1 .. Len(q) : q[i] = x.queue[i + k]
      /\ k # 0 => Promote(w).active <= l[1]
  BY <1>1, PromoteFacts
<1>4. PromotedOf(w) = {x.queue[i] : i \in 1 .. k}
  BY <1>1 DEF PromotedOf
<1>5. q \in Seq(Requests)
  BY <1>3 DEF SiteState
<1> HIDE DEF w, q, k
<1>6. DOMAIN x.queue = 1 .. Len(x.queue) /\ DOMAIN q = 1 .. Len(q)
  BY <1>2, <1>5
<1>7. /\ \A i, j \in DOMAIN q : q[i] = q[j] => i = j
      /\ \A i \in DOMAIN q : q[i] \notin PromotedOf(w)
      /\ \A i \in DOMAIN q : \E j \in DOMAIN x.queue : q[i] = x.queue[j]
      /\ \A p \in PromotedOf(w) : \E j \in DOMAIN x.queue : p = x.queue[j]
  <2>1. \A i \in DOMAIN q : i + k \in DOMAIN x.queue /\ i + k \notin 1 .. k
    BY <1>2, <1>3, <1>6
  <2>2. \A i \in 1 .. k : i \in DOMAIN x.queue
    BY <1>2, <1>3, <1>6
  <2>3. \A i, j \in DOMAIN q : i + k = j + k => i = j
    BY <1>3, <1>6
  <2>4. \A i \in DOMAIN q : q[i] = x.queue[i + k]
    BY <1>3, <1>6
  <2>5. \A i, j \in DOMAIN q : q[i] = q[j] => i = j
    BY <2>1, <2>3, <2>4
  <2>6. \A i \in DOMAIN q : q[i] \notin PromotedOf(w)
    <3> SUFFICES ASSUME NEW i \in DOMAIN q, NEW j \in 1 .. k, q[i] = x.queue[j]
                 PROVE  FALSE
      BY <1>4
    <3> QED
      BY <2>1, <2>2, <2>4
  <2> QED
    BY <1>4, <2>1, <2>2, <2>4, <2>5, <2>6
<1>8. IsFiniteSet(PromotedOf(w)) /\ Cardinality(PromotedOf(w)) = k
  <2> DEFINE f == [i \in 1 .. k |-> x.queue[i]]
  <2>1. \A i \in 1 .. k : i \in DOMAIN x.queue
    BY <1>2, <1>3, <1>6
  <2>2. f \in Bijection(1 .. k, PromotedOf(w))
    <3>1. f \in [1 .. k -> PromotedOf(w)]
      BY <1>4
    <3>2. \A a, b \in 1 .. k : f[a] = f[b] => a = b
      BY <2>1
    <3>3. \A p \in PromotedOf(w) : \E i \in 1 .. k : f[i] = p
      BY <1>4
    <3> QED
      BY <3>1, <3>2, <3>3, Fun_IsBij
  <2>3. IsFiniteSet(1 .. k) /\ Cardinality(1 .. k) = k
    <3>1. k \in Nat /\ k \in Int /\ 1 \in Int
      BY <1>2, <1>3
    <3>2. /\ IsFiniteSet(1 .. k)
          /\ Cardinality(1 .. k) = IF 1 > k THEN 0 ELSE k - 1 + 1
      BY <3>1, FS_Interval, Zenon
    <3> QED
      BY <3>1, <3>2
  <2>4. ExistsBijection(1 .. k, PromotedOf(w))
    BY <2>2 DEF ExistsBijection
  <2> QED
    BY <2>3, <2>4, FS_Bijection
<1>9. PromotedOf(w) # {} => k # 0
  BY <1>3, <1>4
<1> QED
  BY <1>3, <1>5, <1>7, <1>8, <1>9 DEF w, q, k

\* release(): the oldest waiter leaves, or nobody.
LEMMA ReleaseSplit ==
  ASSUME NEW x \in SiteState,
         \A i, j \in DOMAIN x.queue : x.queue[i] = x.queue[j] => i = j
  PROVE  LET q == ReleaseSite(x).queue
         IN  /\ q \in Seq(Requests)
             /\ \A i, j \in DOMAIN q : q[i] = q[j] => i = j
             /\ \A i \in DOMAIN q : q[i] \notin ReleaseNext(x)
             /\ \A i \in DOMAIN q : \E j \in DOMAIN x.queue : q[i] = x.queue[j]
             /\ \A p \in ReleaseNext(x) : \E j \in DOMAIN x.queue : p = x.queue[j]
<1>1. x.queue \in Seq(Requests)
  BY DEF SiteState
<1>2. CASE ReleaseNext(x) = {}
  BY <1>1, <1>2, ReleaseGivesUp
<1>3. CASE ReleaseNext(x) # {}
  <2>1. /\ x.queue # << >>
        /\ ReleaseNext(x) = {Head(x.queue)}
        /\ ReleaseSite(x).queue = Tail(x.queue)
    BY <1>3, ReleaseHandsOver DEF SiteState
  <2> DEFINE q == Tail(x.queue)
  <2>2. /\ q \in Seq(Requests) /\ Len(q) = Len(x.queue) - 1
        /\ \A i \in 1 .. Len(q) : q[i] = x.queue[i + 1]
        /\ Head(x.queue) = x.queue[1] /\ 1 \in DOMAIN x.queue
    BY <1>1, <2>1, HeadTailProperties
  <2> HIDE DEF q
  <2>3. \A i \in DOMAIN q : i + 1 \in DOMAIN x.queue /\ i + 1 # 1 /\ q[i] = x.queue[i + 1]
    BY <1>1, <2>2
  <2>4. \A i, j \in DOMAIN q : i + 1 = j + 1 => i = j
    BY <2>2
  <2>5. /\ \A i, j \in DOMAIN q : q[i] = q[j] => i = j
        /\ \A i \in DOMAIN q : q[i] # x.queue[1]
        /\ \A i \in DOMAIN q : \E j \in DOMAIN x.queue : q[i] = x.queue[j]
    BY <2>2, <2>3, <2>4
  <2> QED
    BY <2>1, <2>2, <2>5 DEF q
<1> QED
  BY <1>2, <1>3

\* Erasing a waiter leaves the others.
LEMMA EraseSplit ==
  ASSUME NEW p \in Seq(Requests), NEW r \in Range(p),
         \A i, j \in DOMAIN p : p[i] = p[j] => i = j
  PROVE  LET q == Without(p, r)
         IN  /\ q \in Seq(Requests)
             /\ \A i, j \in DOMAIN q : q[i] = q[j] => i = j
             /\ \A i \in DOMAIN q : q[i] # r
             /\ \A i \in DOMAIN q : \E j \in DOMAIN p : q[i] = p[j]
<1> DEFINE q == Without(p, r)
<1>1. /\ q \in Seq(Requests)
      /\ Len(q) = Len(p) - 1
  BY WithoutFacts
<1>2. PICK m \in DOMAIN p : p[m] = r /\ \A i \in 1 .. Len(p) - 1 :
              q[i] = IF i < m THEN p[i] ELSE p[i + 1]
  BY WithoutFacts
<1> HIDE DEF q
<1> DEFINE at(i) == IF i < m THEN i ELSE i + 1
<1>3. \A i \in DOMAIN q : at(i) \in DOMAIN p /\ at(i) # m /\ q[i] = p[at(i)]
  BY <1>1, <1>2
<1>4. \A i, j \in DOMAIN q : at(i) = at(j) => i = j
  BY <1>1, <1>2
<1> HIDE DEF at
<1>5. /\ \A i, j \in DOMAIN q : q[i] = q[j] => i = j
      /\ \A i \in DOMAIN q : q[i] # r
      /\ \A i \in DOMAIN q : \E j \in DOMAIN p : q[i] = p[j]
  BY <1>2, <1>3, <1>4
<1> QED
  BY <1>1, <1>5 DEF q

\* QueueSound, entry by entry.
LEMMA QueueFacts ==
  ASSUME TypeOK, Stations, NEW t \in Sites, NEW j \in DOMAIN site[t].queue
  PROVE  /\ site[t].queue[j] \in Requests
         /\ SiteOf[site[t].queue[j]] = t
         /\ site[t].queue[j] \in called
         /\ site[t].queue[j] \notin promoted
         /\ site[t].queue[j] \notin next
         /\ site[t].queue[j] \notin holding
         /\ site[t].queue[j] \notin leaked
         /\ site[t].queue[j] \notin refusing
         /\ <<site[t].queue[j], "granted">> \notin posts
<1>1. site[t].queue \in Seq(Requests)
  BY DEF TypeOK, SiteState
<1>2. site[t].queue[j] \in Requests
  BY <1>1
<1> QED
  BY <1>2, Zenon DEF Stations, QueueSound

\* A step that takes the requests N out of one queue and gives them a slot.
LEMMA QueueShrinks ==
  ASSUME TypeOK, Stations, NEW s \in Sites, NEW q \in Seq(Requests), NEW N,
         \A i, j \in DOMAIN q : q[i] = q[j] => i = j,
         \A i \in DOMAIN q : q[i] \notin N,
         \A i \in DOMAIN q : \E j \in DOMAIN site[s].queue : q[i] = site[s].queue[j],
         \A p \in N : \E j \in DOMAIN site[s].queue : p = site[s].queue[j],
         \A t \in Sites : site'[t].queue = IF t = s THEN q ELSE site[t].queue,
         promoted' \subseteq promoted \cup N, next' \subseteq next \cup N,
         holding' \subseteq holding, called' = called,
         leaked' \subseteq leaked \cup promoted, refusing' \subseteq refusing,
         \A p \in Requests : <<p, "granted">> \in posts' => <<p, "granted">> \in posts
  PROVE  /\ QueueSound'
         /\ \A p \in N : /\ p \in Requests /\ p \in called /\ SiteOf[p] = s
                         /\ p \notin promoted /\ p \notin next /\ p \notin holding
                         /\ p \notin leaked /\ p \notin refusing
                         /\ <<p, "granted">> \notin posts
<1>2. \A p \in N : /\ p \in Requests /\ p \in called /\ SiteOf[p] = s
                   /\ p \notin promoted /\ p \notin next /\ p \notin holding
                   /\ p \notin leaked /\ p \notin refusing
                   /\ <<p, "granted">> \notin posts
  <2> TAKE p \in N
  <2>1. PICK j \in DOMAIN site[s].queue : p = site[s].queue[j]
    OBVIOUS
  <2> QED
    BY <2>1, QueueFacts
<1>3. ASSUME NEW t \in Sites, NEW i \in DOMAIN site'[t].queue
      PROVE  /\ SiteOf[site'[t].queue[i]] = t
             /\ site'[t].queue[i] \in called
             /\ site'[t].queue[i] \notin promoted' /\ site'[t].queue[i] \notin next'
             /\ site'[t].queue[i] \notin holding'
             /\ site'[t].queue[i] \notin leaked' /\ site'[t].queue[i] \notin refusing'
             /\ <<site'[t].queue[i], "granted">> \notin posts'
  <2>1. PICK j \in DOMAIN site[t].queue : site'[t].queue[i] = site[t].queue[j]
    OBVIOUS
  <2>2. /\ SiteOf[site[t].queue[j]] = t
        /\ site[t].queue[j] \in called
        /\ site[t].queue[j] \notin promoted /\ site[t].queue[j] \notin next
        /\ site[t].queue[j] \notin holding
        /\ site[t].queue[j] \notin leaked /\ site[t].queue[j] \notin refusing
        /\ <<site[t].queue[j], "granted">> \notin posts
        /\ site[t].queue[j] \in Requests
    BY QueueFacts
  <2>3. site'[t].queue[i] \notin N
    BY <1>2, <2>1, <2>2
  <2> QED
    BY <2>1, <2>2, <2>3
<1>4. ASSUME NEW t \in Sites, NEW i \in DOMAIN site'[t].queue, NEW j \in DOMAIN site'[t].queue,
             site'[t].queue[i] = site'[t].queue[j]
      PROVE  i = j
  BY <1>4 DEF Stations, QueueSound
<1> QED
  BY <1>2, <1>3, <1>4 DEF QueueSound

\* Every step keeps the queues sound and the stations of a slot's way disjoint.
LEMMA StationsStep == TypeOK /\ Stations /\ [Next]_vars => Stations'
<1> SUFFICES ASSUME TypeOK, Stations, [Next]_vars PROVE Stations'
  OBVIOUS
<1>0. /\ site \in [Sites -> SiteState]
      /\ \A s \in Sites : site[s] \in SiteState /\ site[s].queue \in Seq(Requests)
  BY DEF TypeOK, SiteState
<1>1. ASSUME NEW r \in Requests, NEW l \in Limits, AsyncAcquire(r, l)
      PROVE  Stations'
  <2> DEFINE s == SiteOf[r]
             w == WithLimits(site[s], l)
             y == Promote(w)
             q == y.queue
  <2>1. /\ q \in Seq(Requests)
        /\ \A i, j \in DOMAIN q : q[i] = q[j] => i = j
        /\ \A i \in DOMAIN q : q[i] \notin PromotedOf(w)
        /\ \A i \in DOMAIN q : \E j \in DOMAIN site[s].queue : q[i] = site[s].queue[j]
        /\ \A p \in PromotedOf(w) : \E j \in DOMAIN site[s].queue : p = site[s].queue[j]
    BY <1>0, PromotionSplit DEF Stations, QueueSound
  <2>2. y \in SiteState
    BY <1>0, WithLimitsFacts, PromoteFacts
  <2>3. /\ site' = [site EXCEPT ![s] = Admit(y, r)]
        /\ promoted' = promoted \cup PromotedOf(w) \cup (IF CanEnter(y) THEN {r} ELSE {})
        /\ refusing' = IF QueueFull(y) THEN refusing \cup {r} ELSE refusing
        /\ called' = called \cup {r}
        /\ r \notin called
        /\ next' = next /\ holding' = holding /\ posts' = posts /\ leaked' = leaked
    BY <1>1 DEF AsyncAcquire
  <2>4. Admit(y, r).queue = IF CanEnter(y) \/ QueueFull(y) THEN q ELSE Append(q, r)
    BY <2>2, AdmitFacts
  <2> HIDE DEF w, y, q, s
  <2>5. s \in Sites /\ s = SiteOf[r]
    BY DEF s
  <2>6. \A p \in Requests : <<p, "granted">> \in posts' <=> <<p, "granted">> \in posts
    BY <2>3
  <2>7. /\ r \notin promoted /\ r \notin next /\ r \notin holding
        /\ r \notin leaked /\ r \notin refusing /\ <<r, "granted">> \notin posts
    BY <2>3 DEF Stations, SlotsApart
  <2>8. \A i \in DOMAIN q : /\ q[i] \in called /\ q[i] # r /\ SiteOf[q[i]] = s
                            /\ q[i] \notin promoted /\ q[i] \notin next
                            /\ q[i] \notin holding /\ <<q[i], "granted">> \notin posts
                            /\ q[i] \notin leaked /\ q[i] \notin refusing
                            /\ q[i] \in Requests
    <3> TAKE i \in DOMAIN q
    <3>1. PICK j \in DOMAIN site[s].queue : q[i] = site[s].queue[j]
      BY <2>1
    <3> QED
      BY <2>3, <2>5, <3>1, QueueFacts
  <2>9. \A p \in PromotedOf(w) : /\ p \in called /\ p # r /\ SiteOf[p] = s
                                 /\ p \notin promoted /\ p \notin next
                                 /\ p \notin holding /\ <<p, "granted">> \notin posts
                                 /\ p \notin leaked /\ p \notin refusing
                                 /\ p \in Requests
    <3> TAKE p \in PromotedOf(w)
    <3>1. PICK j \in DOMAIN site[s].queue : p = site[s].queue[j]
      BY <2>1
    <3> QED
      BY <2>3, <2>5, <3>1, QueueFacts
  <2>10. SlotsApart'
    <3>1. CanEnter(y) => ~QueueFull(y)
      BY DEF QueueFull
    <3> QED
      BY <2>3, <2>6, <2>7, <2>9, <3>1 DEF Stations, SlotsApart
  <2>11. ASSUME NEW t \in Sites, t # s
         PROVE  /\ site'[t].queue = site[t].queue
                /\ \A i \in DOMAIN site[t].queue :
                     site[t].queue[i] \notin promoted' /\ site[t].queue[i] \notin refusing'
    <3>1. site'[t] = site[t]
      BY <1>0, <2>3, <2>11
    <3>2. ASSUME NEW i \in DOMAIN site[t].queue
          PROVE  site[t].queue[i] \notin promoted' /\ site[t].queue[i] \notin refusing'
      <4>1. /\ SiteOf[site[t].queue[i]] = t /\ site[t].queue[i] \in called
            /\ site[t].queue[i] \notin promoted /\ site[t].queue[i] \notin refusing
        BY QueueFacts
      <4>2. site[t].queue[i] \notin PromotedOf(w) /\ site[t].queue[i] # r
        BY <2>3, <2>9, <2>11, <4>1
      <4> QED
        BY <2>3, <4>1, <4>2
    <3> QED
      BY <3>1, <3>2
  <2>12. site'[s].queue = IF CanEnter(y) \/ QueueFull(y) THEN q ELSE Append(q, r)
    BY <1>0, <2>3, <2>4, <2>5
  <2>13. \/ site'[s].queue = q
         \/ site'[s].queue = Append(q, r) /\ r \notin promoted' /\ r \notin refusing'
    <3>1. CASE CanEnter(y) \/ QueueFull(y)
      BY <2>12, <3>1
    <3>2. CASE ~(CanEnter(y) \/ QueueFull(y))
      BY <2>3, <2>7, <2>9, <2>12, <3>2
    <3> QED
      BY <3>1, <3>2
  <2>14. ASSUME NEW t \in Sites, NEW i \in DOMAIN site'[t].queue
         PROVE  /\ SiteOf[site'[t].queue[i]] = t
                /\ site'[t].queue[i] \in called'
                /\ site'[t].queue[i] \notin promoted' /\ site'[t].queue[i] \notin next'
                /\ site'[t].queue[i] \notin holding'
                /\ site'[t].queue[i] \notin leaked' /\ site'[t].queue[i] \notin refusing'
                /\ <<site'[t].queue[i], "granted">> \notin posts'
    <3> DEFINE e == site'[t].queue[i]
    <3>1. CASE t # s
      <4>1. e = site[t].queue[i] /\ i \in DOMAIN site[t].queue /\ e \notin promoted'
            /\ e \notin refusing'
        BY <2>11, <3>1
      <4>2. /\ e \in Requests /\ SiteOf[e] = t /\ e \in called /\ e \notin next
            /\ e \notin holding /\ e \notin leaked /\ <<e, "granted">> \notin posts
        BY <4>1, QueueFacts
      <4> HIDE DEF e
      <4>3. /\ <<e, "granted">> \notin posts' /\ e \in called' /\ e \notin next'
            /\ e \notin holding' /\ e \notin leaked'
        BY <2>3, <2>6, <4>2
      <4> QED
        BY <4>1, <4>2, <4>3 DEF e
    <3>2. CASE t = s
      <4>1. \/ e = r /\ r \notin promoted' /\ r \notin refusing'
            \/ \E j \in DOMAIN q : e = q[j]
        <5>1. CASE site'[s].queue = q
          BY <3>2, <5>1
        <5>2. CASE site'[s].queue = Append(q, r) /\ r \notin promoted' /\ r \notin refusing'
          <6>1. DOMAIN Append(q, r) = 1 .. Len(q) + 1 /\ DOMAIN q = 1 .. Len(q) /\ Len(q) \in Nat
            BY <2>1
          <6>2. \A m \in 1 .. Len(q) : Append(q, r)[m] = q[m]
            BY <2>1
          <6>3. Append(q, r)[Len(q) + 1] = r
            BY <2>1
          <6>4. i \in 1 .. Len(q) + 1
            BY <3>2, <5>2, <6>1
          <6> QED
            BY <3>2, <5>2, <6>1, <6>2, <6>3, <6>4
        <5> QED
          BY <2>13, <5>1, <5>2
      <4> HIDE DEF e
      <4>2. CASE e = r /\ r \notin promoted' /\ r \notin refusing'
        BY <2>3, <2>5, <2>6, <2>7, <3>2, <4>2 DEF e
      <4>3. CASE \E j \in DOMAIN q : e = q[j]
        <5>1. PICK j \in DOMAIN q : e = q[j]
          BY <4>3
        <5>2. /\ e \in called /\ e # r /\ SiteOf[e] = s
              /\ e \notin promoted /\ e \notin next
              /\ e \notin holding /\ <<e, "granted">> \notin posts
              /\ e \notin leaked /\ e \notin refusing
              /\ e \in Requests /\ e \notin PromotedOf(w)
          BY <2>1, <2>8, <5>1
        <5>3. /\ e \in called' /\ e \notin promoted' /\ e \notin next' /\ e \notin holding'
              /\ e \notin leaked' /\ e \notin refusing' /\ <<e, "granted">> \notin posts'
          BY <2>3, <2>6, <5>2
        <5> QED
          BY <3>2, <5>2, <5>3 DEF e
      <4> QED
        BY <4>1, <4>2, <4>3
    <3> QED
      BY <3>1, <3>2
  <2>15. ASSUME NEW t \in Sites, NEW i \in DOMAIN site'[t].queue,
                NEW j \in DOMAIN site'[t].queue, site'[t].queue[i] = site'[t].queue[j]
         PROVE  i = j
    <3>1. CASE t # s
      BY <2>11, <2>15, <3>1 DEF Stations, QueueSound
    <3>2. CASE t = s /\ site'[s].queue = q
      BY <2>1, <2>15, <3>2
    <3>3. CASE t = s /\ site'[s].queue = Append(q, r)
      <4>1. DOMAIN Append(q, r) = 1 .. Len(q) + 1 /\ DOMAIN q = 1 .. Len(q) /\ Len(q) \in Nat
        BY <2>1
      <4>2. /\ \A m \in 1 .. Len(q) : Append(q, r)[m] = q[m]
            /\ \A m \in 1 .. Len(q) : q[m] # r
        <5>1. \A m \in 1 .. Len(q) : Append(q, r)[m] = q[m]
          BY <2>1
        <5>2. \A m \in 1 .. Len(q) : q[m] # r
          BY <2>8, <4>1
        <5> QED
          BY <5>1, <5>2
      <4>3. Append(q, r)[Len(q) + 1] = r
        BY <2>1
      <4>4. i \in 1 .. Len(q) + 1 /\ j \in 1 .. Len(q) + 1
            /\ Append(q, r)[i] = Append(q, r)[j]
        BY <2>15, <3>3, <4>1
      <4> QED
        BY <2>1, <4>1, <4>2, <4>3, <4>4
    <3> QED
      BY <2>13, <3>1, <3>2, <3>3
  <2> QED
    BY <2>10, <2>14, <2>15 DEF Stations, QueueSound
<1>2. ASSUME NEW r \in Requests, HandOff(r)
      PROVE  Stations'
  <2>1. \A p \in Requests : <<p, "granted">> \in posts' <=>
          <<p, "granted">> \in posts \/ (p = r /\ r \notin refusing)
    BY <1>2 DEF HandOff
  <2>2. /\ r \in promoted \cup refusing \cup next /\ site' = site /\ promoted' = promoted \ {r}
        /\ refusing' = refusing \ {r} /\ next' = next \ {r} /\ holding' = holding
        /\ leaked' = leaked /\ called' = called
    BY <1>2 DEF HandOff, Served
  <2>3. QueueSound'
    <3>1. ASSUME NEW s \in Sites, NEW i \in DOMAIN site[s].queue
          PROVE  /\ SiteOf[site[s].queue[i]] = s
                 /\ site[s].queue[i] \in called'
                 /\ site[s].queue[i] \notin promoted' /\ site[s].queue[i] \notin next'
                 /\ site[s].queue[i] \notin holding'
                 /\ site[s].queue[i] \notin leaked' /\ site[s].queue[i] \notin refusing'
                 /\ <<site[s].queue[i], "granted">> \notin posts'
      BY <2>1, <2>2, QueueFacts
    <3> QED
      BY <2>2, <3>1 DEF Stations, QueueSound
  <2>4. SlotsApart'
    <3>1. \A p \in promoted \cup next \cup holding \cup leaked \cup refusing : p \in Requests
      BY DEF TypeOK
    <3> QED
      BY <2>1, <2>2, <3>1 DEF Stations, SlotsApart
  <2> QED
    BY <2>3, <2>4 DEF Stations
<1>3. ASSUME NEW r \in Requests, NEW controlBlock \in BOOLEAN,
             AllocationFails(r, controlBlock)
      PROVE  Stations'
  <2> DEFINE s == SiteOf[r]
             x == site[s]
             once == ReleaseSite(x)
             z == IF controlBlock THEN ReleaseSite(once) ELSE once
             N == ReleaseNext(x) \cup (IF controlBlock THEN ReleaseNext(once) ELSE {})
             q == z.queue
  <2>1. /\ once \in SiteState
        /\ once.queue \in Seq(Requests)
        /\ \A i, j \in DOMAIN once.queue : once.queue[i] = once.queue[j] => i = j
        /\ \A i \in DOMAIN once.queue : once.queue[i] \notin ReleaseNext(x)
        /\ \A i \in DOMAIN once.queue : \E j \in DOMAIN x.queue : once.queue[i] = x.queue[j]
        /\ \A p \in ReleaseNext(x) : \E j \in DOMAIN x.queue : p = x.queue[j]
    BY <1>0, ReleaseType, ReleaseSplit DEF Stations, QueueSound
  <2>2. /\ site' = [site EXCEPT ![s] = z]
        /\ next' \subseteq next \cup N
        /\ \A p \in next' : p \in N \/ (p \in next /\ p # r)
        /\ promoted' = promoted /\ holding' = holding /\ posts' = posts /\ called' = called
        /\ leaked' = leaked /\ refusing' = refusing
    BY <1>3 DEF AllocationFails
  <2> HIDE DEF once
  <2>3. /\ ReleaseSite(once).queue \in Seq(Requests)
        /\ \A i, j \in DOMAIN ReleaseSite(once).queue :
             ReleaseSite(once).queue[i] = ReleaseSite(once).queue[j] => i = j
        /\ \A i \in DOMAIN ReleaseSite(once).queue :
             ReleaseSite(once).queue[i] \notin ReleaseNext(once)
        /\ \A i \in DOMAIN ReleaseSite(once).queue :
             \E j \in DOMAIN once.queue : ReleaseSite(once).queue[i] = once.queue[j]
        /\ \A p \in ReleaseNext(once) : \E j \in DOMAIN once.queue : p = once.queue[j]
    BY <2>1, ReleaseSplit
  <2>4. /\ q \in Seq(Requests)
        /\ \A i, j \in DOMAIN q : q[i] = q[j] => i = j
        /\ \A i \in DOMAIN q : q[i] \notin N
        /\ \A i \in DOMAIN q : \E j \in DOMAIN x.queue : q[i] = x.queue[j]
        /\ \A p \in N : \E j \in DOMAIN x.queue : p = x.queue[j]
    <3>1. CASE controlBlock
      <4>1. q = ReleaseSite(once).queue /\ N = ReleaseNext(x) \cup ReleaseNext(once)
        BY <3>1
      <4> HIDE DEF q, N, x
      <4>2. \A i \in DOMAIN q : \E j \in DOMAIN once.queue : q[i] = once.queue[j]
        BY <2>3, <4>1
      <4>3. \A i \in DOMAIN q : q[i] \notin N
        BY <2>1, <2>3, <4>1, <4>2
      <4>4. \A i \in DOMAIN q : \E j \in DOMAIN x.queue : q[i] = x.queue[j]
        BY <2>1, <4>2
      <4>5. \A p \in N : \E j \in DOMAIN x.queue : p = x.queue[j]
        BY <2>1, <2>3, <4>1
      <4> QED
        BY <2>3, <4>1, <4>3, <4>4, <4>5
    <3>2. CASE ~controlBlock
      BY <2>1, <3>2
    <3> QED
      BY <3>1, <3>2
  <2> HIDE DEF N, z
  <2>5. \A t \in Sites : site'[t].queue = IF t = s THEN q ELSE site[t].queue
    BY <1>0, <2>2
  <2> HIDE DEF q
  <2>6. /\ QueueSound'
        /\ \A p \in N : /\ p \in Requests /\ p \in called /\ SiteOf[p] = s
                        /\ p \notin promoted /\ p \notin next /\ p \notin holding
                        /\ p \notin leaked /\ p \notin refusing
                        /\ <<p, "granted">> \notin posts
    <3>1. /\ promoted' \subseteq promoted \cup N /\ holding' \subseteq holding
          /\ leaked' \subseteq leaked \cup promoted /\ refusing' \subseteq refusing
      BY <2>2
    <3>2. /\ \A i \in DOMAIN q : \E j \in DOMAIN site[s].queue : q[i] = site[s].queue[j]
          /\ \A p \in N : \E j \in DOMAIN site[s].queue : p = site[s].queue[j]
      BY <2>4
    <3>3. s \in Sites
      OBVIOUS
    <3>4. /\ next' \subseteq next \cup N /\ called' = called
          /\ \A p \in Requests : <<p, "granted">> \in posts' => <<p, "granted">> \in posts
      BY <2>2
    <3>5. /\ q \in Seq(Requests)
          /\ \A i, j \in DOMAIN q : q[i] = q[j] => i = j
          /\ \A i \in DOMAIN q : q[i] \notin N
      BY <2>4
    <3> HIDE DEF s, x
    <3> QED
      BY <2>5, <3>1, <3>2, <3>3, <3>4, <3>5, QueueShrinks
  <2>7. SlotsApart'
    BY <2>2, <2>6 DEF Stations, SlotsApart
  <2> QED
    BY <2>6, <2>7 DEF Stations
<1>4. ASSUME NEW r \in Requests, NEW result \in Results, RunHandler(r, result)
      PROVE  Stations'
  <2>1. \A p \in Requests : <<p, "granted">> \in posts' <=>
          <<p, "granted">> \in posts /\ ~(p = r /\ result = "granted")
    BY <1>4 DEF RunHandler
  <2>2. \A p : p \in holding' <=> p \in holding \/ (p = r /\ result = "granted")
    BY <1>4 DEF RunHandler
  <2>3. result = "granted" => <<r, "granted">> \in posts
    BY <1>4 DEF RunHandler
  <2>4. /\ site' = site /\ promoted' = promoted /\ next' = next /\ called' = called
        /\ leaked' = leaked /\ refusing' = refusing
    BY <1>4 DEF RunHandler, UnchangedHandOffs
  <2>5. QueueSound'
    <3>1. ASSUME NEW s \in Sites, NEW i \in DOMAIN site[s].queue
          PROVE  /\ SiteOf[site[s].queue[i]] = s
                 /\ site[s].queue[i] \in called'
                 /\ site[s].queue[i] \notin promoted' /\ site[s].queue[i] \notin next'
                 /\ site[s].queue[i] \notin holding'
                 /\ site[s].queue[i] \notin leaked' /\ site[s].queue[i] \notin refusing'
                 /\ <<site[s].queue[i], "granted">> \notin posts'
      BY <2>1, <2>2, <2>3, <2>4, QueueFacts
    <3> QED
      BY <2>4, <3>1 DEF Stations, QueueSound
  <2>6. SlotsApart'
    <3>1. \A p \in promoted \cup next \cup holding \cup leaked \cup refusing : p \in Requests
      BY DEF TypeOK
    <3> QED
      BY <2>1, <2>2, <2>3, <2>4, <3>1 DEF Stations, SlotsApart
  <2> QED
    BY <2>5, <2>6 DEF Stations
<1>5. ASSUME NEW r \in Requests, Release(r)
      PROVE  Stations'
  <2> DEFINE s == SiteOf[r]
             N == ReleaseNext(site[s])
             q == ReleaseSite(site[s]).queue
  <2>1. /\ q \in Seq(Requests)
        /\ \A i, j \in DOMAIN q : q[i] = q[j] => i = j
        /\ \A i \in DOMAIN q : q[i] \notin N
        /\ \A i \in DOMAIN q : \E j \in DOMAIN site[s].queue : q[i] = site[s].queue[j]
        /\ \A p \in N : \E j \in DOMAIN site[s].queue : p = site[s].queue[j]
    BY <1>0, ReleaseSplit DEF Stations, QueueSound
  <2>2. /\ \A t \in Sites : site'[t].queue = IF t = s THEN q ELSE site[t].queue
        /\ next' = next \cup N
        /\ promoted' = promoted /\ holding' = holding \ {r} /\ posts' = posts
        /\ called' = called /\ leaked' = leaked /\ refusing' = refusing
    BY <1>0, <1>5 DEF Release, UnchangedHandOffs
  <2> HIDE DEF N, q
  <2>3. /\ QueueSound'
        /\ \A p \in N : /\ p \in Requests /\ p \in called /\ SiteOf[p] = s
                        /\ p \notin promoted /\ p \notin next /\ p \notin holding
                        /\ p \notin leaked /\ p \notin refusing
                        /\ <<p, "granted">> \notin posts
    <3>1. /\ promoted' \subseteq promoted \cup N /\ next' \subseteq next \cup N
          /\ leaked' \subseteq leaked \cup promoted /\ holding' \subseteq holding
      BY <2>2
    <3>2. s \in Sites
      OBVIOUS
    <3>3. \A p \in Requests : <<p, "granted">> \in posts' => <<p, "granted">> \in posts
      BY <2>2
    <3> HIDE DEF s
    <3> QED
      BY <2>1, <2>2, <3>1, <3>2, <3>3, QueueShrinks
  <2>4. SlotsApart'
    BY <2>2, <2>3 DEF Stations, SlotsApart
  <2> QED
    BY <2>3, <2>4 DEF Stations
<1>6. ASSUME NEW r \in Requests, Queued(r),
             NEW z \in {Dequeue(site[SiteOf[r]], r), Expire(site[SiteOf[r]], r)},
             site' = [site EXCEPT ![SiteOf[r]] = z],
             promoted' = promoted, next' = next, holding' = holding, called' = called,
             leaked' = leaked, refusing' = refusing,
             \A p \in Requests : <<p, "granted">> \in posts' <=> <<p, "granted">> \in posts
      PROVE  Stations'
  <2> DEFINE s == SiteOf[r]
             q == Without(site[s].queue, r)
  <2>1. r \in Range(site[s].queue) /\ z.queue = q
    BY <1>0, <1>6, EraseFacts DEF Queued
  <2>2. /\ q \in Seq(Requests)
        /\ \A i, j \in DOMAIN q : q[i] = q[j] => i = j
        /\ \A i \in DOMAIN q : q[i] \notin {}
        /\ \A i \in DOMAIN q : \E j \in DOMAIN site[s].queue : q[i] = site[s].queue[j]
    BY <1>0, <2>1, EraseSplit DEF Stations, QueueSound
  <2>3. \A t \in Sites : site'[t].queue = IF t = s THEN q ELSE site[t].queue
    BY <1>0, <1>6, <2>1
  <2> HIDE DEF q
  <2>4. QueueSound'
    <3> DEFINE N == {}
    <3>1. /\ promoted' \subseteq promoted \cup N /\ next' \subseteq next \cup N
          /\ leaked' \subseteq leaked \cup promoted
          /\ \A i \in DOMAIN q : q[i] \notin N
          /\ \A p \in N : \E j \in DOMAIN site[s].queue : p = site[s].queue[j]
      BY <1>6
    <3> HIDE DEF N, s
    <3>2. s \in Sites
      BY DEF s
    <3> QED
      BY ZenonT(60), <1>6, <2>2, <2>3, <3>1, <3>2, QueueShrinks
  <2>5. SlotsApart'
    <3>1. \A p \in promoted \cup next \cup holding \cup leaked \cup refusing : p \in Requests
      BY DEF TypeOK
    <3> QED
      BY <1>6, <3>1 DEF Stations, SlotsApart
  <2> QED
    BY <2>4, <2>5 DEF Stations
<1>7. ASSUME NEW r \in Requests, CancelPending(r)
      PROVE  Stations'
  BY <1>6, <1>7 DEF CancelPending, UnchangedHandOffs
<1>8. CASE /\ \A t \in Sites : site'[t].queue = site[t].queue
           /\ UNCHANGED <<promoted, refusing, next, holding, called, posts, leaked>>
  BY <1>8 DEF Stations, QueueSound, SlotsApart
<1>9. ASSUME NEW r \in Requests, TimeoutPending(r)
      PROVE  Stations'
  <2>1. CASE Queued(r)
    <3>1. \A p \in Requests : <<p, "granted">> \in posts' <=> <<p, "granted">> \in posts
      BY <1>9, <2>1 DEF TimeoutPending
    <3> QED
      BY <1>6, <1>9, <2>1, <3>1 DEF TimeoutPending, UnchangedHandOffs
  <2>2. CASE ~Queued(r)
    BY <1>8, <1>9, <2>2 DEF TimeoutPending, UnchangedHandOffs
  <2> QED
    BY <2>1, <2>2
<1>10. ASSUME NEW s \in Sites, NEW l \in Limits, UpdateLimits(s, l)
       PROVE  Stations'
  <2> DEFINE w == WithLimits(site[s], l)
             q == Promote(w).queue
             N == PromotedOf(w)
  <2>1. /\ q \in Seq(Requests)
        /\ \A i, j \in DOMAIN q : q[i] = q[j] => i = j
        /\ \A i \in DOMAIN q : q[i] \notin N
        /\ \A i \in DOMAIN q : \E j \in DOMAIN site[s].queue : q[i] = site[s].queue[j]
        /\ \A p \in N : \E j \in DOMAIN site[s].queue : p = site[s].queue[j]
    BY <1>0, PromotionSplit DEF Stations, QueueSound
  <2>2. /\ \A t \in Sites : site'[t].queue = IF t = s THEN q ELSE site[t].queue
        /\ promoted' = promoted \cup N
        /\ next' = next /\ holding' = holding /\ posts' = posts /\ called' = called
        /\ leaked' = leaked /\ refusing' = refusing
    BY <1>0, <1>10 DEF UpdateLimits
  <2> HIDE DEF w, N, q
  <2>3. /\ QueueSound'
        /\ \A p \in N : /\ p \in Requests /\ p \in called /\ SiteOf[p] = s
                        /\ p \notin promoted /\ p \notin next /\ p \notin holding
                        /\ p \notin leaked /\ p \notin refusing
                        /\ <<p, "granted">> \notin posts
    <3>1. /\ promoted' \subseteq promoted \cup N /\ next' \subseteq next \cup N
          /\ leaked' \subseteq leaked \cup promoted
      BY <2>2
    <3> QED
      BY <2>1, <2>2, <3>1, QueueShrinks
  <2>4. SlotsApart'
    BY <2>2, <2>3 DEF Stations, SlotsApart
  <2> QED
    BY <2>3, <2>4 DEF Stations
<1>11. ASSUME NEW ids \in SUBSET Sites, RetainSites(ids)
       PROVE  Stations'
  <2>1. ASSUME NEW t \in Sites
        PROVE  Reclaim([site[t] EXCEPT !.retired = TRUE]).queue = site[t].queue
    <3>1. /\ [site[t] EXCEPT !.retired = TRUE] \in SiteState
          /\ [site[t] EXCEPT !.retired = TRUE].queue = site[t].queue
      BY <1>0 DEF SiteState
    <3> QED
      BY <3>1, ReclaimType
  <2>2. \A t \in Sites : site'[t].queue = site[t].queue
    BY <1>11, <2>1 DEF RetainSites
  <2> QED
    BY <1>8, <1>11, <2>2 DEF RetainSites, UnchangedHandOffs
<1>12. CASE Clear
  <2>1. \A t \in Sites : site'[t].queue = << >>
    BY <1>12 DEF Clear, NoSite
  <2>2. QueueSound'
    BY <2>1 DEF QueueSound
  <2> QED
    BY <1>12, <2>2 DEF Clear, UnchangedHandOffs, Stations, SlotsApart
<1>13. ASSUME NEW r \in Requests, TimerExpires(r)
       PROVE  Stations'
  BY <1>8, <1>13 DEF TimerExpires, UnchangedHandOffs
<1>14. CASE UNCHANGED vars
  BY <1>8, <1>14 DEF vars
<1>15. ASSUME NEW r \in Requests, NEW built \in BOOLEAN, HandOffThrows(r, built)
       PROVE  Stations'
  <2> DEFINE s == SiteOf[r]
             N == IF site' = site /\ next' = next THEN {} ELSE ReleaseNext(site[s])
             q == IF site' = site /\ next' = next THEN site[s].queue
                                                  ELSE ReleaseSite(site[s]).queue
  <2>1. /\ \/ site' = site /\ next' = next
           \/ site' = [site EXCEPT ![s] = ReleaseSite(@)] /\ next' = next \cup ReleaseNext(site[s])
        /\ promoted' \subseteq promoted /\ refusing' \subseteq refusing
        /\ \A p \in leaked' : p \in leaked \/ (p \in promoted /\ p \notin promoted')
        /\ holding' = holding /\ posts' = posts /\ called' = called
    BY <1>15 DEF HandOffThrows
  <2>2. /\ ReleaseSite(site[s]).queue \in Seq(Requests)
        /\ \A i, j \in DOMAIN ReleaseSite(site[s]).queue :
             ReleaseSite(site[s]).queue[i] = ReleaseSite(site[s]).queue[j] => i = j
        /\ \A i \in DOMAIN ReleaseSite(site[s]).queue :
             ReleaseSite(site[s]).queue[i] \notin ReleaseNext(site[s])
        /\ \A i \in DOMAIN ReleaseSite(site[s]).queue :
             \E j \in DOMAIN site[s].queue : ReleaseSite(site[s]).queue[i] = site[s].queue[j]
        /\ \A p \in ReleaseNext(site[s]) : \E j \in DOMAIN site[s].queue : p = site[s].queue[j]
    BY <1>0, ReleaseSplit DEF Stations, QueueSound
  <2>3. /\ site[s].queue \in Seq(Requests)
        /\ \A i, j \in DOMAIN site[s].queue : site[s].queue[i] = site[s].queue[j] => i = j
    BY <1>0 DEF Stations, QueueSound
  <2>4. /\ q \in Seq(Requests)
        /\ \A i, j \in DOMAIN q : q[i] = q[j] => i = j
        /\ \A i \in DOMAIN q : q[i] \notin N
        /\ \A i \in DOMAIN q : \E j \in DOMAIN site[s].queue : q[i] = site[s].queue[j]
        /\ \A p \in N : \E j \in DOMAIN site[s].queue : p = site[s].queue[j]
    <3>1. CASE site' = site /\ next' = next
      <4>1. q = site[s].queue /\ N = {}
        BY <3>1
      <4> QED
        BY <2>3, <4>1
    <3>2. CASE ~(site' = site /\ next' = next)
      <4>1. q = ReleaseSite(site[s]).queue /\ N = ReleaseNext(site[s])
        BY <3>2
      <4> QED
        BY <2>2, <4>1
    <3> QED
      BY <3>1, <3>2
  <2>5. /\ \A t \in Sites : site'[t].queue = IF t = s THEN q ELSE site[t].queue
        /\ next' = next \cup N
    BY <1>0, <2>1
  <2> HIDE DEF N, q
  <2>6. /\ promoted' \subseteq promoted \cup N /\ next' \subseteq next \cup N
        /\ leaked' \subseteq leaked \cup promoted
    BY <2>1, <2>5
  <2>7. /\ QueueSound'
        /\ \A p \in N : /\ p \in Requests /\ p \in called /\ SiteOf[p] = s
                        /\ p \notin promoted /\ p \notin next /\ p \notin holding
                        /\ p \notin leaked /\ p \notin refusing
                        /\ <<p, "granted">> \notin posts
    BY <2>1, <2>4, <2>5, <2>6, QueueShrinks
  <2>8. SlotsApart'
    BY <2>1, <2>5, <2>7 DEF Stations, SlotsApart
  <2> QED
    BY <2>7, <2>8 DEF Stations
<1>16. ASSUME NEW r \in Requests, TimeoutThrows(r)
       PROVE  Stations'
  BY <1>6, <1>16 DEF TimeoutThrows
<1> QED
  BY <1>1, <1>2, <1>3, <1>4, <1>5, <1>7, <1>9, <1>10, <1>11, <1>12, <1>13, <1>14, <1>15, <1>16
     DEF Next

\* In every reachable state the queues are sound and the stations of a slot disjoint.
LEMMA StationsAlways == Spec => []Stations
<1>1. Init => Stations
  BY DEF Init, Stations, QueueSound, SlotsApart, NoSite
<1> QED
  BY <1>1, StationsStep, TypeCorrect, PTL DEF Spec

-----------------------------------------------------------------------------
(* The count of slots.                                                     *)

\* The requests that hold a slot of a site are finitely many.
LEMMA SlotsFinite ==
  ASSUME NEW s
  PROVE  IsFiniteSet(Slots(s)) /\ Cardinality(Slots(s)) \in Nat
<1>1. Slots(s) \in SUBSET Requests
  BY DEF Slots
<1> QED
  BY <1>1, FS_Subset, FS_CardinalityType

\* New slots add up.
LEMMA CountAdded ==
  ASSUME NEW S, NEW N, IsFiniteSet(S), IsFiniteSet(N), \A p \in N : p \notin S
  PROVE  /\ IsFiniteSet(S \cup N)
         /\ Cardinality(S \cup N) = Cardinality(S) + Cardinality(N)
         /\ Cardinality(S) \in Nat /\ Cardinality(N) \in Nat
<1>1. S \cap N = {}
  OBVIOUS
<1>2. Cardinality({}) = 0
  BY FS_EmptySet
<1>3. Cardinality(S) \in Nat /\ Cardinality(N) \in Nat
  BY FS_CardinalityType
<1>4. /\ IsFiniteSet(S \cup N)
      /\ Cardinality(S \cup N) = Cardinality(S) + Cardinality(N) - Cardinality(S \cap N)
  BY FS_Union
<1>5. Cardinality(S \cap N) = 0
  BY <1>1, <1>2, Zenon
<1> QED
  BY <1>3, <1>4, <1>5

\* ReleaseNext is at most one request.
LEMMA ReleaseNextCount ==
  ASSUME NEW x \in SiteState
  PROVE  /\ IsFiniteSet(ReleaseNext(x))
         /\ Cardinality(ReleaseNext(x)) = IF ReleaseNext(x) = {} THEN 0 ELSE 1
<1>1. CASE ReleaseNext(x) = {}
  BY <1>1, FS_EmptySet
<1>2. CASE ReleaseNext(x) # {}
  <2>1. ReleaseNext(x) = {Head(x.queue)}
    BY <1>2, ReleaseHandsOver
  <2>2. IsFiniteSet({Head(x.queue)}) /\ Cardinality({Head(x.queue)}) = 1
    BY FS_Singleton
  <2> QED
    BY <1>2, <2>1, <2>2
<1> QED
  BY <1>1, <1>2

\* release() of one of the slots S keeps the count.
LEMMA ReleaseCount ==
  ASSUME NEW x \in SiteState, SiteInv(x), NEW S, IsFiniteSet(S), NEW r \in S,
         \A p \in ReleaseNext(x) : p \notin S, x.active <= Cardinality(S)
  PROVE  LET S2 == (S \ {r}) \cup ReleaseNext(x)
         IN  /\ IsFiniteSet(S2)
             /\ ReleaseSite(x).active <= Cardinality(S2)
             /\ x.active = Cardinality(S) => ReleaseSite(x).active = Cardinality(S2)
<1> DEFINE N == ReleaseNext(x)
           D == S \ {r}
<1>1. x.active \in Nat /\ Cardinality(S) \in Nat
  BY FS_CardinalityType DEF SiteState
<1>2. IsFiniteSet(D) /\ Cardinality(D) = Cardinality(S) - 1 /\ Cardinality(D) \in Nat
  BY FS_RemoveElement, FS_CardinalityType
<1>3. IsFiniteSet(N) /\ Cardinality(N) = IF N = {} THEN 0 ELSE 1
  BY ReleaseNextCount
<1>4. \A p \in N : p \notin D
  OBVIOUS
<1> HIDE DEF N, D
<1>5. IsFiniteSet(D \cup N) /\ Cardinality(D \cup N) = Cardinality(D) + Cardinality(N)
  BY <1>2, <1>3, <1>4, CountAdded
<1>6. CASE N = {}
  <2>1. ReleaseSite(x).active = IF x.present /\ x.active # 0 THEN x.active - 1 ELSE x.active
    BY <1>6, ReleaseGivesUp DEF N
  <2>2. ~x.present => x.active = 0
    BY DEF SiteInv
  <2>3. /\ ReleaseSite(x).active <= Cardinality(D \cup N)
        /\ x.active = Cardinality(S) => ReleaseSite(x).active = Cardinality(D \cup N)
    BY <1>1, <1>2, <1>3, <1>5, <1>6, <2>1, <2>2
  <2> QED
    BY <1>5, <2>3 DEF N, D
<1>7. CASE N # {}
  <2>1. ReleaseSite(x).active = x.active
    BY <1>7, ReleaseHandsOver DEF N, SiteState
  <2>2. /\ ReleaseSite(x).active <= Cardinality(D \cup N)
        /\ x.active = Cardinality(S) => ReleaseSite(x).active = Cardinality(D \cup N)
    BY <1>1, <1>2, <1>3, <1>5, <1>7, <2>1
  <2> QED
    BY <1>5, <2>2 DEF N, D
<1> QED
  BY <1>6, <1>7

\* A release too many never makes the count exceed the slots.
LEMMA ExtraReleaseCount ==
  ASSUME NEW x \in SiteState, NEW S, IsFiniteSet(S),
         \A p \in ReleaseNext(x) : p \notin S, x.active <= Cardinality(S)
  PROVE  /\ IsFiniteSet(S \cup ReleaseNext(x))
         /\ ReleaseSite(x).active <= Cardinality(S \cup ReleaseNext(x))
<1> DEFINE N == ReleaseNext(x)
<1>1. x.active \in Nat /\ Cardinality(S) \in Nat
  BY FS_CardinalityType DEF SiteState
<1>2. IsFiniteSet(N) /\ Cardinality(N) = IF N = {} THEN 0 ELSE 1
  BY ReleaseNextCount
<1>3. IsFiniteSet(S \cup N) /\ Cardinality(S \cup N) = Cardinality(S) + Cardinality(N)
  BY <1>2, CountAdded
<1>4. ReleaseSite(x).active <= x.active
  <2>1. CASE N = {}
    BY <1>1, <2>1, ReleaseGivesUp
  <2>2. CASE N # {}
    <3>1. ReleaseSite(x) = [x EXCEPT !.queue = Tail(@)]
      BY <2>2, ReleaseHandsOver DEF N
    <3>2. ReleaseSite(x).active = x.active
      BY <3>1 DEF SiteState
    <3> QED
      BY <1>1, <3>2
  <2> QED
    BY <2>1, <2>2
<1>5. ReleaseSite(x).active \in Nat
  BY ReleaseType DEF SiteState
<1> QED
  BY <1>1, <1>2, <1>3, <1>4, <1>5

\* The step of one site whose slots grow by a set N counted into `active`.
LEMMA AccountingGrows ==
  ASSUME SlotsExact, NEW s \in Sites, NEW N, IsFiniteSet(N), \A p \in N : p \notin Slots(s),
         site[s].active \in Nat, Slots(s)' = Slots(s) \cup N,
         site'[s].active = site[s].active + Cardinality(N),
         cleared' = cleared, doubled' = doubled
  PROVE  /\ site'[s].active <= Cardinality(Slots(s)')
         /\ ~cleared' /\ ~doubled' => site'[s].active = Cardinality(Slots(s)')
<1>1. /\ Cardinality(Slots(s) \cup N) = Cardinality(Slots(s)) + Cardinality(N)
      /\ Cardinality(Slots(s)) \in Nat /\ Cardinality(N) \in Nat
  BY SlotsFinite, CountAdded
<1>2. /\ site[s].active <= Cardinality(Slots(s))
      /\ ~cleared /\ ~doubled => site[s].active = Cardinality(Slots(s))
  BY DEF SlotsExact, NoSlotUnaccounted, SlotAccounting
<1> QED
  BY <1>1, <1>2

\* A site whose slots and count do not change.
LEMMA AccountingKept ==
  ASSUME SlotsExact, NEW s \in Sites, Slots(s)' = Slots(s),
         site'[s].active = site[s].active, cleared' = cleared, doubled => doubled'
  PROVE  /\ site'[s].active <= Cardinality(Slots(s)')
         /\ ~cleared' /\ ~doubled' => site'[s].active = Cardinality(Slots(s)')
BY DEF SlotsExact, NoSlotUnaccounted, SlotAccounting

\* Every step keeps the relation between the active count of a site and the
\* permits outstanding.
LEMMA AccountingStep ==
  TypeOK /\ SitesInv /\ Stations /\ SlotsExact /\ [Next]_vars => SlotsExact'
<1> SUFFICES ASSUME TypeOK, SitesInv, Stations, SlotsExact, [Next]_vars, NEW t \in Sites
             PROVE  /\ site'[t].active <= Cardinality(Slots(t)')
                    /\ ~cleared' /\ ~doubled' => site'[t].active = Cardinality(Slots(t)')
  BY DEF SlotsExact, NoSlotUnaccounted, SlotAccounting
<1> DEFINE Goal == /\ site'[t].active <= Cardinality(Slots(t)')
                   /\ ~cleared' /\ ~doubled' => site'[t].active = Cardinality(Slots(t)')
<1>0. /\ site \in [Sites -> SiteState]
      /\ \A s \in Sites : /\ site[s] \in SiteState /\ SiteInv(site[s])
                          /\ site[s].active \in Nat
                          /\ \A i, j \in DOMAIN site[s].queue :
                               site[s].queue[i] = site[s].queue[j] => i = j
  BY DEF TypeOK, SiteState, SitesInv, Stations, QueueSound
<1>1. ASSUME NEW s \in Sites, NEW j \in DOMAIN site[s].queue
      PROVE  /\ site[s].queue[j] \in Requests
             /\ SiteOf[site[s].queue[j]] = s
             /\ site[s].queue[j] \in called
             /\ site[s].queue[j] \notin Slots(s)
  BY QueueFacts DEF Slots
<1>2. ASSUME NEW r \in Requests, NEW l \in Limits, AsyncAcquire(r, l)
      PROVE  Goal
  <2> DEFINE s == SiteOf[r]
             w == WithLimits(site[s], l)
             y == Promote(w)
             E == IF CanEnter(y) THEN {r} ELSE {}
             N == PromotedOf(w) \cup E
  <2>1. /\ IsFiniteSet(PromotedOf(w))
        /\ y.active = site[s].active + Cardinality(PromotedOf(w))
        /\ \A p \in PromotedOf(w) : \E j \in DOMAIN site[s].queue : p = site[s].queue[j]
    BY <1>0, PromotionSplit
  <2>2. y \in SiteState
    BY <1>0, WithLimitsFacts, PromoteFacts
  <2>3. /\ site' = [site EXCEPT ![s] = Admit(y, r)]
        /\ promoted' = promoted \cup N
        /\ r \notin called /\ posts' = posts /\ leaked' = leaked
        /\ next' = next /\ holding' = holding /\ cleared' = cleared /\ doubled' = doubled
    BY <1>2 DEF AsyncAcquire
  <2>4. Admit(y, r).active = IF CanEnter(y) THEN y.active + 1 ELSE y.active
    BY <2>2, AdmitFacts
  <2> HIDE DEF w, y
  <2>5. \A p \in Requests : <<p, "granted">> \in posts' <=> <<p, "granted">> \in posts
    BY <2>3
  <2>6. IsFiniteSet(E) /\ Cardinality(E) = IF CanEnter(y) THEN 1 ELSE 0
    BY FS_EmptySet, FS_Singleton
  <2>7. \A p \in N : p \in Requests /\ SiteOf[p] = s /\ p \notin Slots(s)
    <3>1. r \notin Slots(s)
      BY <2>3 DEF Slots, Stations, SlotsApart
    <3>2. \A p \in PromotedOf(w) : p \in Requests /\ SiteOf[p] = s /\ p \notin Slots(s)
      BY <1>1, <2>1
    <3> QED
      BY <3>1, <3>2
  <2>8. \A p \in E : p \notin PromotedOf(w)
    BY <1>1, <2>1, <2>3
  <2> HIDE DEF E
  <2>9. IsFiniteSet(N) /\ Cardinality(N) = Cardinality(PromotedOf(w)) + Cardinality(E)
        /\ Cardinality(PromotedOf(w)) \in Nat
    BY <2>1, <2>6, <2>8, CountAdded
  <2>10. site'[s].active = site[s].active + Cardinality(N)
    BY <1>0, <2>1, <2>3, <2>4, <2>6, <2>9
  <2> HIDE DEF N
  <2>11. CASE t = s
    <3>1. Slots(s)' = Slots(s) \cup N
      BY <2>3, <2>5, <2>7 DEF Slots
    <3> QED
      BY <1>0, <2>3, <2>7, <2>9, <2>10, <2>11, <3>1, AccountingGrows
  <2>12. CASE t # s
    <3>1. Slots(t)' = Slots(t)
      BY <2>3, <2>5, <2>7, <2>12 DEF Slots
    <3>2. site'[t].active = site[t].active
      BY <1>0, <2>3, <2>12
    <3> QED
      BY <2>3, <3>1, <3>2, AccountingKept
  <2> QED
    BY <2>11, <2>12
<1>3. ASSUME NEW r \in Requests, HandOff(r)
      PROVE  Goal
  <2>1. r \in refusing => r \notin promoted /\ r \notin next
    BY DEF Stations, SlotsApart
  <2>2. /\ promoted' = promoted \ {r} /\ next' = next \ {r} /\ holding' = holding
        /\ leaked' = leaked /\ r \in promoted \cup refusing \cup next
        /\ \A p \in Requests : <<p, "granted">> \in posts' <=>
             <<p, "granted">> \in posts \/ (p = r /\ r \notin refusing)
    BY <1>3 DEF HandOff, Served
  <2>3. Slots(t)' = Slots(t)
    BY <2>1, <2>2 DEF Slots
  <2> QED
    BY <1>3, <2>3, AccountingKept DEF HandOff
<1>4. ASSUME NEW r \in Requests, NEW controlBlock \in BOOLEAN,
             AllocationFails(r, controlBlock)
      PROVE  Goal
  <2> DEFINE s == SiteOf[r]
             x == site[s]
             once == ReleaseSite(x)
             S1 == (Slots(s) \ {r}) \cup ReleaseNext(x)
  <2>1. /\ site' = [site EXCEPT ![s] = IF controlBlock THEN ReleaseSite(once) ELSE once]
        /\ next' = (next \ {r}) \cup ReleaseNext(x)
                      \cup (IF controlBlock THEN ReleaseNext(once) ELSE {})
        /\ doubled' = (doubled \/ controlBlock)
        /\ promoted' = promoted /\ posts' = posts /\ holding' = holding
        /\ cleared' = cleared /\ leaked' = leaked /\ r \in next
    BY <1>4 DEF AllocationFails
  <2>2. /\ once \in SiteState
        /\ \A p \in ReleaseNext(x) : p \notin Slots(s) /\ p \in Requests /\ SiteOf[p] = s
        /\ \A i, j \in DOMAIN once.queue : once.queue[i] = once.queue[j] => i = j
        /\ \A i \in DOMAIN once.queue : once.queue[i] \notin ReleaseNext(x)
        /\ \A i \in DOMAIN once.queue : \E j \in DOMAIN x.queue : once.queue[i] = x.queue[j]
    <3>1. /\ \A p \in ReleaseNext(x) : \E j \in DOMAIN x.queue : p = x.queue[j]
          /\ \A i, j \in DOMAIN once.queue : once.queue[i] = once.queue[j] => i = j
          /\ \A i \in DOMAIN once.queue : once.queue[i] \notin ReleaseNext(x)
          /\ \A i \in DOMAIN once.queue : \E j \in DOMAIN x.queue : once.queue[i] = x.queue[j]
      BY <1>0, ReleaseSplit
    <3>2. once \in SiteState
      BY <1>0, ReleaseType
    <3>3. \A p \in ReleaseNext(x) : p \notin Slots(s) /\ p \in Requests /\ SiteOf[p] = s
      BY <1>1, <3>1
    <3> QED
      BY <3>1, <3>2, <3>3
  <2>3. r \in Slots(s) /\ IsFiniteSet(Slots(s)) /\ x.active <= Cardinality(Slots(s))
        /\ (~cleared /\ ~doubled => x.active = Cardinality(Slots(s)))
    BY <2>1, SlotsFinite DEF Slots, SlotsExact, NoSlotUnaccounted, SlotAccounting
  <2>4. /\ IsFiniteSet(S1)
        /\ once.active <= Cardinality(S1)
        /\ x.active = Cardinality(Slots(s)) => once.active = Cardinality(S1)
    BY <1>0, <2>2, <2>3, ReleaseCount
  <2>5. \A p \in ReleaseNext(once) : p \notin S1 /\ p \in Requests /\ SiteOf[p] = s
    <3>1. \A p \in ReleaseNext(once) : \E j \in DOMAIN once.queue : p = once.queue[j]
      BY <2>2, ReleaseSplit
    <3> QED
      BY <1>1, <2>2, <3>1
  <2> HIDE DEF once
  <2>6. /\ IsFiniteSet(S1 \cup ReleaseNext(once))
        /\ ReleaseSite(once).active <= Cardinality(S1 \cup ReleaseNext(once))
    BY <2>2, <2>4, <2>5, ExtraReleaseCount
  <2>7. r \notin promoted /\ r \notin holding /\ r \notin leaked /\ <<r, "granted">> \notin posts
    BY <2>1 DEF Stations, SlotsApart
  <2>8. CASE t # s
    <3>1. Slots(t)' = Slots(t)
      BY <2>1, <2>2, <2>5, <2>8 DEF Slots
    <3>2. site'[t].active = site[t].active
      BY <1>0, <2>1, <2>8
    <3> QED
      BY <2>1, <3>1, <3>2, AccountingKept
  <2>9. CASE t = s /\ controlBlock
    <3>1. Slots(s)' = S1 \cup ReleaseNext(once)
      BY <2>1, <2>2, <2>5, <2>7, <2>9 DEF Slots
    <3>2. site'[s].active = ReleaseSite(once).active
      BY <1>0, <2>1, <2>9
    <3> QED
      BY <2>1, <2>6, <2>9, <3>1, <3>2
  <2>10. CASE t = s /\ ~controlBlock
    <3>1. Slots(s)' = S1
      BY <2>1, <2>2, <2>7, <2>10 DEF Slots
    <3>2. site'[s].active = once.active
      BY <1>0, <2>1, <2>10
    <3> QED
      BY <2>1, <2>3, <2>4, <2>10, <3>1, <3>2
  <2> QED
    BY <2>8, <2>9, <2>10
<1>5. ASSUME NEW r \in Requests, NEW result \in Results, RunHandler(r, result)
      PROVE  Goal
  <2>1. Slots(t)' = Slots(t)
    BY <1>5 DEF RunHandler, UnchangedHandOffs, Slots
  <2> QED
    BY <1>5, <2>1, AccountingKept DEF RunHandler
<1>6. ASSUME NEW r \in Requests, Release(r)
      PROVE  Goal
  <2> DEFINE s == SiteOf[r]
             x == site[s]
             S1 == (Slots(s) \ {r}) \cup ReleaseNext(x)
  <2>1. /\ site' = [site EXCEPT ![s] = ReleaseSite(x)]
        /\ next' = next \cup ReleaseNext(x) /\ doubled' = doubled /\ cleared' = cleared
        /\ promoted' = promoted /\ posts' = posts /\ holding' = holding \ {r}
        /\ leaked' = leaked /\ r \in holding
    BY <1>6 DEF Release, UnchangedHandOffs
  <2>2. \A p \in ReleaseNext(x) : p \notin Slots(s) /\ p \in Requests /\ SiteOf[p] = s
    <3>1. \A p \in ReleaseNext(x) : \E j \in DOMAIN x.queue : p = x.queue[j]
      BY <1>0, ReleaseSplit
    <3> QED
      BY <1>1, <3>1
  <2>3. r \in Slots(s) /\ IsFiniteSet(Slots(s)) /\ x.active <= Cardinality(Slots(s))
        /\ (~cleared /\ ~doubled => x.active = Cardinality(Slots(s)))
    BY <2>1, SlotsFinite DEF Slots, SlotsExact, NoSlotUnaccounted, SlotAccounting
  <2>4. /\ ReleaseSite(x).active <= Cardinality(S1)
        /\ x.active = Cardinality(Slots(s)) => ReleaseSite(x).active = Cardinality(S1)
    BY <1>0, <2>2, <2>3, ReleaseCount
  <2>5. r \notin promoted /\ r \notin next /\ r \notin leaked /\ <<r, "granted">> \notin posts
    BY <2>1 DEF Stations, SlotsApart
  <2>6. CASE t # s
    <3>1. Slots(t)' = Slots(t)
      BY <2>1, <2>2, <2>6 DEF Slots
    <3>2. site'[t].active = site[t].active
      BY <1>0, <2>1, <2>6
    <3> QED
      BY <2>1, <3>1, <3>2, AccountingKept
  <2>7. CASE t = s
    <3>1. Slots(s)' = S1
      BY <2>1, <2>2, <2>5 DEF Slots
    <3>2. site'[s].active = ReleaseSite(x).active
      BY <1>0, <2>1
    <3> QED
      BY <2>1, <2>3, <2>4, <2>7, <3>1, <3>2
  <2> QED
    BY <2>6, <2>7
<1>7. ASSUME NEW s \in Sites, NEW z, z.active = site[s].active,
             site' = [site EXCEPT ![s] = z], promoted' = promoted, next' = next,
             holding' = holding, leaked' = leaked, cleared' = cleared, doubled' = doubled,
             \A p \in Requests : <<p, "granted">> \in posts' <=> <<p, "granted">> \in posts
      PROVE  Goal
  <2>1. Slots(t)' = Slots(t)
    BY <1>7 DEF Slots
  <2>2. site'[t].active = site[t].active
    BY <1>0, <1>7
  <2> QED
    BY <1>7, <2>1, <2>2, AccountingKept
<1>8. ASSUME NEW r \in Requests, CancelPending(r)
      PROVE  Goal
  <2>1. Dequeue(site[SiteOf[r]], r).active = site[SiteOf[r]].active
    BY <1>0, <1>8, EraseFacts DEF CancelPending, Queued
  <2> QED
    BY <1>7, <1>8, <2>1 DEF CancelPending, UnchangedHandOffs
<1>9. ASSUME NEW r \in Requests, TimeoutPending(r)
      PROVE  Goal
  <2>1. \A p \in Requests : <<p, "granted">> \in posts' <=> <<p, "granted">> \in posts
    BY <1>9 DEF TimeoutPending
  <2>2. CASE Queued(r)
    <3>1. Expire(site[SiteOf[r]], r).active = site[SiteOf[r]].active
      BY <1>0, <2>2, EraseFacts DEF Queued
    <3> QED
      BY <1>7, <1>9, <2>1, <2>2, <3>1 DEF TimeoutPending, UnchangedHandOffs
  <2>3. CASE ~Queued(r)
    <3>1. Slots(t)' = Slots(t)
      BY <1>9, <2>1 DEF TimeoutPending, UnchangedHandOffs, Slots
    <3> QED
      BY <1>9, <2>3, <3>1, AccountingKept DEF TimeoutPending
  <2> QED
    BY <2>2, <2>3
<1>10. ASSUME NEW s \in Sites, NEW l \in Limits, UpdateLimits(s, l)
       PROVE  Goal
  <2> DEFINE w == WithLimits(site[s], l)
             N == PromotedOf(w)
  <2>1. /\ IsFiniteSet(N)
        /\ Promote(w).active = site[s].active + Cardinality(N)
        /\ \A p \in N : \E j \in DOMAIN site[s].queue : p = site[s].queue[j]
    BY <1>0, PromotionSplit
  <2>2. /\ site' = [site EXCEPT ![s] = Promote(w)]
        /\ promoted' = promoted \cup N
        /\ next' = next /\ holding' = holding /\ posts' = posts
        /\ leaked' = leaked /\ cleared' = cleared /\ doubled' = doubled
    BY <1>10 DEF UpdateLimits
  <2>3. \A p \in N : p \in Requests /\ SiteOf[p] = s /\ p \notin Slots(s)
    BY <1>1, <2>1
  <2> HIDE DEF w, N
  <2>4. CASE t = s
    <3>1. Slots(s)' = Slots(s) \cup N
      BY <2>2, <2>3 DEF Slots
    <3>2. site'[s].active = site[s].active + Cardinality(N)
      BY <1>0, <2>1, <2>2
    <3> QED
      BY <1>0, <2>1, <2>2, <2>3, <2>4, <3>1, <3>2, AccountingGrows
  <2>5. CASE t # s
    <3>1. Slots(t)' = Slots(t)
      BY <2>2, <2>3, <2>5 DEF Slots
    <3>2. site'[t].active = site[t].active
      BY <1>0, <2>2, <2>5
    <3> QED
      BY <2>2, <3>1, <3>2, AccountingKept
  <2> QED
    BY <2>4, <2>5
<1>11. ASSUME NEW ids \in SUBSET Sites, RetainSites(ids)
       PROVE  Goal
  <2>1. Reclaim([site[t] EXCEPT !.retired = TRUE]).active = site[t].active
    <3>1. /\ [site[t] EXCEPT !.retired = TRUE] \in SiteState
          /\ [site[t] EXCEPT !.retired = TRUE].active = site[t].active
      BY <1>0 DEF SiteState
    <3> QED
      BY <3>1, ReclaimType
  <2>2. site'[t].active = site[t].active
    BY <1>11, <2>1 DEF RetainSites
  <2>3. Slots(t)' = Slots(t)
    BY <1>11 DEF RetainSites, UnchangedHandOffs, Slots
  <2> QED
    BY <1>11, <2>2, <2>3, AccountingKept DEF RetainSites
<1>12. CASE Clear
  <2>1. site'[t].active = 0 /\ cleared'
    BY <1>12 DEF Clear, NoSite
  <2>2. Slots(t)' = Slots(t)
    BY <1>12 DEF Clear, UnchangedHandOffs, Slots
  <2>3. Cardinality(Slots(t)) \in Nat
    BY SlotsFinite
  <2> QED
    BY <2>1, <2>2, <2>3
<1>13. CASE UNCHANGED <<site, promoted, next, posts, holding, leaked, cleared, doubled>>
  <2>1. Slots(t)' = Slots(t)
    BY <1>13 DEF Slots
  <2> QED
    BY <1>13, <2>1, AccountingKept
<1>14. ASSUME NEW r \in Requests, TimerExpires(r)
       PROVE  Goal
  BY <1>13, <1>14 DEF TimerExpires, UnchangedHandOffs
<1>15. CASE UNCHANGED vars
  BY <1>13, <1>15 DEF vars
<1>16. ASSUME NEW r \in Requests, NEW built \in BOOLEAN, HandOffThrows(r, built)
       PROVE  Goal
  <2> DEFINE s == SiteOf[r]
             x == site[s]
             S1 == (Slots(s) \ {r}) \cup ReleaseNext(x)
  <2>1. /\ posts' = posts /\ holding' = holding /\ cleared' = cleared /\ doubled' = doubled
    BY <1>16 DEF HandOffThrows
  <2>2. CASE ~(built /\ r \in promoted)
    <3>1. /\ site' = site /\ next' = next
          /\ \A p : p \in promoted' \/ p \in leaked' <=> p \in promoted \/ p \in leaked
      BY <1>16, <2>2 DEF HandOffThrows
    <3>2. Slots(t)' = Slots(t)
      BY <2>1, <3>1 DEF Slots
    <3> QED
      BY <2>1, <3>1, <3>2, AccountingKept
  <2>3. CASE built /\ r \in promoted
    <3>1. /\ site' = [site EXCEPT ![s] = ReleaseSite(x)]
          /\ next' = next \cup ReleaseNext(x)
          /\ \A p : p # r =>
               (p \in promoted' \/ p \in leaked' <=> p \in promoted \/ p \in leaked)
          /\ r \notin promoted' /\ (r \in leaked' => r \in leaked)
      BY <1>16, <2>3 DEF HandOffThrows
    <3>2. \A p \in ReleaseNext(x) : p \notin Slots(s) /\ p \in Requests /\ SiteOf[p] = s
      <4>1. \A p \in ReleaseNext(x) : \E j \in DOMAIN x.queue : p = x.queue[j]
        BY <1>0, ReleaseSplit
      <4> QED
        BY <1>1, <4>1
    <3>3. r \in Slots(s) /\ IsFiniteSet(Slots(s)) /\ x.active <= Cardinality(Slots(s))
          /\ (~cleared /\ ~doubled => x.active = Cardinality(Slots(s)))
      BY <2>3, SlotsFinite DEF Slots, SlotsExact, NoSlotUnaccounted, SlotAccounting
    <3>4. /\ ReleaseSite(x).active <= Cardinality(S1)
          /\ x.active = Cardinality(Slots(s)) => ReleaseSite(x).active = Cardinality(S1)
      BY <1>0, <3>2, <3>3, ReleaseCount
    <3>5. r \notin next /\ r \notin holding /\ r \notin leaked /\ <<r, "granted">> \notin posts
      BY <2>3 DEF Stations, SlotsApart
    <3>6. CASE t # s
      <4>1. Slots(t)' = Slots(t)
        BY <2>1, <3>1, <3>2, <3>6 DEF Slots
      <4>2. site'[t].active = site[t].active
        BY <1>0, <3>1, <3>6
      <4> QED
        BY <2>1, <4>1, <4>2, AccountingKept
    <3>7. CASE t = s
      <4>1. Slots(s)' = S1
        <5>1. ASSUME NEW p \in Requests
              PROVE  p \in Slots(s)' <=> p \in S1
          <6>1. CASE p = r
            BY <2>1, <3>1, <3>2, <3>3, <3>5, <6>1 DEF Slots
          <6>2. CASE p # r
            BY <2>1, <3>1, <3>2, <6>2 DEF Slots
          <6> QED
            BY <6>1, <6>2
        <5>2. \A p \in Slots(s)' \cup S1 : p \in Requests
          BY <3>2 DEF Slots
        <5> QED
          BY <5>1, <5>2
      <4>2. site'[s].active = ReleaseSite(x).active
        BY <1>0, <3>1
      <4> QED
        BY <2>1, <3>3, <3>4, <3>7, <4>1, <4>2
    <3> QED
      BY <3>6, <3>7
  <2> QED
    BY <2>2, <2>3
<1>17. ASSUME NEW r \in Requests, TimeoutThrows(r)
       PROVE  Goal
  <2>1. Expire(site[SiteOf[r]], r).active = site[SiteOf[r]].active
    BY <1>0, <1>17, EraseFacts DEF TimeoutThrows, Queued
  <2> QED
    BY <1>7, <1>17, <2>1 DEF TimeoutThrows
<1> QED
  BY <1>2, <1>3, <1>4, <1>5, <1>6, <1>8, <1>9, <1>10, <1>11, <1>12, <1>14, <1>15, <1>16, <1>17
     DEF Next

\* The only capacity a site loses is that of the hand-offs of async_acquire and
\* update_limits that throw (`leaked`): `active` never counts more than the slots in
\* use and those, failures inside release() and clear() included, and until clear() or
\* a doubled release it is their number.
THEOREM SlotsExactHolds == Spec => []SlotsExact
<1>1. Init => SlotsExact
  <2> SUFFICES ASSUME Init, NEW s \in Sites
               PROVE  site[s].active = Cardinality(Slots(s)) /\ site[s].active <= site[s].active
    BY DEF SlotsExact, NoSlotUnaccounted, SlotAccounting
  <2>1. site[s].active = 0
    BY DEF Init, NoSite
  <2>2. Slots(s) = {}
    BY DEF Init, Slots
  <2> QED
    BY <2>1, <2>2, FS_EmptySet
<1> QED
  BY <1>1, AccountingStep, TypeCorrect, SitesInvAlways, StationsAlways, PTL DEF Spec

\* The whole inductive invariant.
THEOREM IInvHolds == Spec => []IInv
<1>1. TypeOK /\ SitesInv /\ Stations /\ SlotsExact => IInv
  BY DEF IInv, SitesInv, SiteInv, Stations, SlotsExact, EntrySound, WorkConserving, NoZombieSite
<1> QED
  BY <1>1, TypeCorrect, SitesInvAlways, StationsAlways, SlotsExactHolds, PTL

-----------------------------------------------------------------------------
(* Order.  Whatever gives slots to waiters pops them off the front of the   *)
(* queue: t is q without its first k waiters, Front(q, k).                 *)

Pops(q, k, t) ==
  /\ k \in 0 .. Len(q)
  /\ t \in Seq(Requests)
  /\ Len(t) = Len(q) - k
  /\ \A i \in 1 .. Len(t) : t[i] = q[i + k]

Front(q, k) == {q[i] : i \in 1 .. k}

Distinct(q) == \A i, j \in DOMAIN q : q[i] = q[j] => i = j

\* The promotion loops of async_acquire and update_limits pop from the front.
LEMMA PromotePops ==
  ASSUME NEW x \in SiteState, NEW l \in Limits
  PROVE  LET w == WithLimits(x, l)
         IN  /\ Pops(x.queue, PromotionCount(w), Promote(w).queue)
             /\ PromotedOf(w) = Front(x.queue, PromotionCount(w))
<1> DEFINE w == WithLimits(x, l)
           k == PromotionCount(w)
           q == Promote(w).queue
<1>1. w \in SiteState /\ w.queue = x.queue
  BY WithLimitsFacts
<1>2. PromotedOf(w) = Front(x.queue, k)
  BY <1>1 DEF PromotedOf, Front
<1> HIDE DEF w
<1>3. /\ k \in 0 .. Len(w.queue)
      /\ Promote(w) \in SiteState
      /\ Len(q) = Len(w.queue) - k
      /\ \A i \in 1 .. Len(q) : q[i] = w.queue[i + k]
  BY <1>1, PromoteFacts
<1>4. q \in Seq(Requests)
  BY <1>3 DEF SiteState
<1> HIDE DEF k, q
<1>5. Pops(x.queue, k, q)
  BY <1>1, <1>3, <1>4 DEF Pops
<1> QED
  BY <1>2, <1>5 DEF k, q, w

\* release() pops the waiter it hands its slot to, or nobody.
LEMMA ReleasePops ==
  ASSUME NEW x \in SiteState
  PROVE  \E k \in Nat : /\ Pops(x.queue, k, ReleaseSite(x).queue)
                        /\ ReleaseNext(x) = Front(x.queue, k)
<1>1. x.queue \in Seq(Requests)
  BY DEF SiteState
<1>2. CASE ReleaseNext(x) = {}
  <2>1. ReleaseSite(x).queue = x.queue
    BY <1>2, ReleaseGivesUp
  <2>2. Pops(x.queue, 0, ReleaseSite(x).queue)
    BY <1>1, <2>1 DEF Pops
  <2>3. Front(x.queue, 0) = {}
    BY DEF Front
  <2> QED
    BY <1>2, <2>2, <2>3
<1>3. CASE ReleaseNext(x) # {}
  <2>1. /\ x.queue # << >>
        /\ ReleaseNext(x) = {Head(x.queue)}
        /\ ReleaseSite(x) = [x EXCEPT !.queue = Tail(x.queue)]
    BY <1>3, ReleaseHandsOver
  <2>2. ReleaseSite(x).queue = Tail(x.queue)
    BY <2>1 DEF SiteState
  <2>3. Pops(x.queue, 1, ReleaseSite(x).queue)
    BY <1>1, <2>1, <2>2 DEF Pops
  <2>4. Front(x.queue, 1) = {Head(x.queue)}
    BY <1>1, <2>1 DEF Front
  <2> QED
    BY <2>1, <2>3, <2>4
<1> QED
  BY <1>2, <1>3

\* Popping a waiters and then b more is popping a + b.
LEMMA PopsTwice ==
  ASSUME NEW q \in Seq(Requests), NEW a \in Nat, NEW t, NEW b \in Nat, NEW u,
         Pops(q, a, t), Pops(t, b, u)
  PROVE  Pops(q, a + b, u) /\ Front(q, a + b) = Front(q, a) \cup Front(t, b)
<1>0. /\ Len(q) \in Nat /\ Len(t) \in Nat /\ Len(u) \in Nat
      /\ a <= Len(q) /\ b <= Len(t) /\ Len(t) = Len(q) - a /\ Len(u) = Len(t) - b
      /\ u \in Seq(Requests)
      /\ \A i \in 1 .. Len(t) : t[i] = q[i + a]
      /\ \A i \in 1 .. Len(u) : u[i] = t[i + b]
  BY DEF Pops
<1>1. Pops(q, a + b, u)
  <2>1. ASSUME NEW i \in 1 .. Len(u) PROVE u[i] = q[i + (a + b)]
    <3>1. (i + b) \in 1 .. Len(t) /\ (i + b) + a = i + (a + b)
      BY <1>0
    <3>2. u[i] = t[i + b] /\ t[i + b] = q[(i + b) + a]
      BY <1>0, <3>1
    <3> QED
      BY <3>1, <3>2
  <2>2. (a + b) \in 0 .. Len(q) /\ Len(u) = Len(q) - (a + b)
    BY <1>0
  <2> QED
    BY <1>0, <2>1, <2>2 DEF Pops
<1>2. \A i \in 1 .. b : t[i] = q[i + a]
  BY DEF Pops
<1>3. ASSUME NEW p \in Front(q, a + b)
      PROVE  p \in Front(q, a) \cup Front(t, b)
  <2>1. PICK i \in 1 .. (a + b) : p = q[i]
    BY DEF Front
  <2>2. CASE i <= a
    BY <2>1, <2>2 DEF Front
  <2>3. CASE i > a
    <3>1. (i - a) \in 1 .. b /\ (i - a) + a = i
      BY <2>3
    <3>2. t[i - a] = p
      BY <1>2, <2>1, <3>1
    <3> QED
      BY <3>1, <3>2 DEF Front
  <2> QED
    BY <2>2, <2>3
<1>4. Front(q, a) \subseteq Front(q, a + b)
  BY DEF Front
<1>5. Front(t, b) \subseteq Front(q, a + b)
  <2> SUFFICES ASSUME NEW i \in 1 .. b PROVE t[i] \in Front(q, a + b)
    BY DEF Front
  <2>1. t[i] = q[i + a] /\ (i + a) \in 1 .. (a + b)
    BY <1>2
  <2> QED
    BY <2>1 DEF Front
<1> QED
  BY <1>1, <1>3, <1>4, <1>5

\* What is left after popping is what was queued without the front, and stood
\* behind all of the front.
LEMMA PopsOrder ==
  ASSUME NEW q \in Seq(Requests), Distinct(q), NEW k, NEW t, Pops(q, k, t)
  PROVE  /\ Range(t) = Range(q) \ Front(q, k)
         /\ Front(q, k) \subseteq Range(q)
         /\ Distinct(t)
         /\ \A p \in Front(q, k) : \A i \in DOMAIN q :
              q[i] \in Range(t) => \E j \in 1 .. (i - 1) : q[j] = p
<1>1. /\ DOMAIN q = 1 .. Len(q) /\ DOMAIN t = 1 .. Len(t)
      /\ Len(q) \in Nat /\ Len(t) \in Nat /\ Len(t) = Len(q) - k /\ k \in 0 .. Len(q)
      /\ \A i \in 1 .. Len(t) : t[i] = q[i + k]
  BY DEF Pops
<1>2. ASSUME NEW i \in DOMAIN q, q[i] \in Range(t)
      PROVE  i > k
  <2>1. PICK m \in DOMAIN t : t[m] = q[i]
    BY <1>2 DEF Range
  <2>2. t[m] = q[m + k] /\ (m + k) \in DOMAIN q /\ m + k > k
    BY <1>1
  <2>3. i = m + k
    BY <2>1, <2>2 DEF Distinct
  <2> QED
    BY <2>2, <2>3
<1>3. ASSUME NEW i \in DOMAIN q, i > k
      PROVE  q[i] \in Range(t)
  <2>1. (i - k) \in DOMAIN t /\ (i - k) + k = i
    BY <1>1, <1>3
  <2>2. t[i - k] = q[i]
    BY <1>1, <2>1
  <2> QED
    BY <2>1, <2>2 DEF Range
<1>4. Front(q, k) \subseteq Range(q)
  BY <1>1 DEF Front, Range
<1>5. Range(t) \subseteq Range(q)
  <2> SUFFICES ASSUME NEW m \in DOMAIN t PROVE t[m] \in Range(q)
    BY DEF Range
  <2>1. t[m] = q[m + k] /\ (m + k) \in DOMAIN q
    BY <1>1
  <2> QED
    BY <2>1 DEF Range
<1>6. ASSUME NEW p \in Front(q, k) PROVE p \notin Range(t)
  <2>1. PICK i \in 1 .. k : p = q[i]
    BY DEF Front
  <2>2. i \in DOMAIN q /\ ~(i > k)
    BY <1>1
  <2> QED
    BY <1>2, <2>1, <2>2
<1>7. ASSUME NEW p \in Range(q), p \notin Front(q, k) PROVE p \in Range(t)
  <2>1. PICK i \in DOMAIN q : p = q[i]
    BY DEF Range
  <2>2. i > k
    BY <1>1, <1>7, <2>1 DEF Front
  <2> QED
    BY <1>3, <2>1, <2>2
<1>8. Distinct(t)
  <2> SUFFICES ASSUME NEW i \in DOMAIN t, NEW j \in DOMAIN t, t[i] = t[j] PROVE i = j
    BY DEF Distinct
  <2>0. /\ (i + k) \in DOMAIN q /\ (j + k) \in DOMAIN q
        /\ t[i] = q[i + k] /\ t[j] = q[j + k]
    BY <1>1
  <2>1. q[i + k] = q[j + k]
    BY <2>0
  <2>2. i + k = j + k
    BY <2>0, <2>1 DEF Distinct
  <2> QED
    BY <1>1, <2>2
<1>9. ASSUME NEW p \in Front(q, k), NEW i \in DOMAIN q, q[i] \in Range(t)
      PROVE  \E j \in 1 .. (i - 1) : q[j] = p
  <2>1. i > k
    BY <1>2, <1>9
  <2>2. PICK j \in 1 .. k : q[j] = p
    BY DEF Front
  <2>3. j \in 1 .. (i - 1)
    BY <1>1, <2>1
  <2> QED
    BY <2>2, <2>3
<1> QED
  BY <1>4, <1>5, <1>6, <1>7, <1>8, <1>9

\* A waiter that is cancelled or times out leaves; the others stay.
LEMMA EraseRange ==
  ASSUME NEW p \in Seq(Requests), NEW r \in Range(p), Distinct(p)
  PROVE  /\ Without(p, r) \in Seq(Requests)
         /\ Range(Without(p, r)) = Range(p) \ {r}
<1> DEFINE q == Without(p, r)
<1>1. /\ q \in Seq(Requests) /\ Len(q) = Len(p) - 1
      /\ \E m \in DOMAIN p : p[m] = r /\ \A i \in 1 .. Len(p) - 1 :
           q[i] = IF i < m THEN p[i] ELSE p[i + 1]
  BY WithoutFacts
<1> HIDE DEF q
<1>2. PICK m \in DOMAIN p : p[m] = r /\ \A i \in 1 .. Len(p) - 1 :
           q[i] = IF i < m THEN p[i] ELSE p[i + 1]
  BY <1>1
<1>3. DOMAIN p = 1 .. Len(p) /\ DOMAIN q = 1 .. Len(q) /\ Len(p) \in Nat /\ Len(q) \in Nat
  BY <1>1
<1>4. ASSUME NEW i \in DOMAIN q PROVE q[i] \in Range(p) \ {r}
  <2>1. CASE i < m
    <3>1. q[i] = p[i] /\ i \in DOMAIN p /\ i # m
      BY <1>1, <1>2, <1>3, <2>1
    <3> QED
      BY <1>2, <3>1 DEF Range, Distinct
  <2>2. CASE ~(i < m)
    <3>1. q[i] = p[i + 1] /\ (i + 1) \in DOMAIN p /\ i + 1 # m
      BY <1>1, <1>2, <1>3, <2>2
    <3> QED
      BY <1>2, <3>1 DEF Range, Distinct
  <2> QED
    BY <2>1, <2>2
<1>5. ASSUME NEW i \in DOMAIN p, p[i] # r PROVE p[i] \in Range(q)
  <2>1. i # m
    BY <1>2, <1>5
  <2>2. CASE i < m
    <3>1. i \in DOMAIN q /\ q[i] = p[i]
      BY <1>1, <1>2, <1>3, <2>2
    <3> QED
      BY <3>1 DEF Range
  <2>3. CASE i > m
    <3>1. (i - 1) \in DOMAIN q /\ q[i - 1] = p[i]
      BY <1>1, <1>2, <1>3, <2>3
    <3> QED
      BY <3>1 DEF Range
  <2> QED
    BY <1>3, <2>1, <2>2, <2>3
<1> QED
  BY SMTT(40), <1>1, <1>4, <1>5 DEF q, Range

-----------------------------------------------------------------------------
(* The effect of an action on the queues.                                  *)

\* The queue of s becomes u, the others keep theirs.
OnlyQueue(s, u) ==
  \A t \in Sites : site'[t].queue = IF t = s THEN u ELSE site[t].queue

\* async_acquire pops waiters, then grants, refuses or queues its caller.
LEMMA AcquireEffect ==
  ASSUME TypeOK, NEW r \in Requests, NEW l \in Limits, AsyncAcquire(r, l)
  PROVE  LET q == site[SiteOf[r]].queue
         IN  \E k \in Nat : \E u \in Seq(Requests) :
               /\ Pops(q, k, u)
               /\ \/ /\ u = << >> /\ OnlyQueue(SiteOf[r], u)
                     /\ promoted' = promoted \cup Front(q, k) \cup {r}
                     /\ refusing' = refusing
                  \/ /\ OnlyQueue(SiteOf[r], u)
                     /\ promoted' = promoted \cup Front(q, k)
                     /\ refusing' = refusing \cup {r}
                  \/ /\ OnlyQueue(SiteOf[r], Append(u, r))
                     /\ promoted' = promoted \cup Front(q, k)
                     /\ refusing' = refusing
<1> DEFINE s == SiteOf[r]
           q == site[s].queue
           w == WithLimits(site[s], l)
           y == Promote(w)
           k == PromotionCount(w)
           u == y.queue
<1>1. site \in [Sites -> SiteState] /\ s \in Sites /\ site[s] \in SiteState
  BY SiteOfType DEF TypeOK
<1>2. Pops(q, k, u) /\ PromotedOf(w) = Front(q, k)
  BY <1>1, PromotePops
<1>3. y \in SiteState
  BY <1>1, WithLimitsFacts, PromoteFacts
<1>4. /\ site' = [site EXCEPT ![s] = Admit(y, r)]
      /\ promoted' = promoted \cup PromotedOf(w) \cup (IF CanEnter(y) THEN {r} ELSE {})
      /\ refusing' = IF QueueFull(y) THEN refusing \cup {r} ELSE refusing
  BY DEF AsyncAcquire
<1>5. Admit(y, r).queue = IF CanEnter(y) \/ QueueFull(y) THEN u ELSE Append(u, r)
  BY <1>3, AdmitFacts
<1>6. k \in Nat /\ u \in Seq(Requests)
  <2>1. Len(q) \in Nat
    BY <1>1 DEF SiteState
  <2> QED
    BY <1>2, <2>1 DEF Pops
<1>7. (CanEnter(y) => u = << >>) /\ (CanEnter(y) => ~QueueFull(y))
  BY DEF CanEnter, QueueFull
<1> HIDE DEF w, y, k, u, s
<1>8. OnlyQueue(s, Admit(y, r).queue)
  BY <1>1, <1>4 DEF OnlyQueue
<1>9. CASE CanEnter(y)
  <2>1. /\ u = << >> /\ OnlyQueue(s, u)
        /\ promoted' = promoted \cup Front(q, k) \cup {r}
        /\ refusing' = refusing
    BY <1>2, <1>4, <1>5, <1>7, <1>8, <1>9
  <2> QED
    BY <1>2, <1>6, <2>1 DEF s
<1>10. CASE QueueFull(y)
  <2>1. /\ OnlyQueue(s, u)
        /\ promoted' = promoted \cup Front(q, k)
        /\ refusing' = refusing \cup {r}
    BY <1>2, <1>4, <1>5, <1>7, <1>8, <1>10
  <2> QED
    BY <1>2, <1>6, <2>1 DEF s
<1>11. CASE ~CanEnter(y) /\ ~QueueFull(y)
  <2>1. /\ OnlyQueue(s, Append(u, r))
        /\ promoted' = promoted \cup Front(q, k)
        /\ refusing' = refusing
    BY <1>2, <1>4, <1>5, <1>8, <1>11
  <2> QED
    BY <1>2, <1>6, <2>1 DEF s
<1> QED
  BY <1>9, <1>10, <1>11

\* update_limits pops waiters.
LEMMA UpdateEffect ==
  ASSUME TypeOK, NEW s \in Sites, NEW l \in Limits, UpdateLimits(s, l)
  PROVE  LET q == site[s].queue
         IN  \E k \in Nat : \E u \in Seq(Requests) :
               /\ Pops(q, k, u) /\ OnlyQueue(s, u)
               /\ promoted' = promoted \cup Front(q, k)
<1> DEFINE q == site[s].queue
           w == WithLimits(site[s], l)
           k == PromotionCount(w)
           u == Promote(w).queue
<1>1. site \in [Sites -> SiteState] /\ site[s] \in SiteState /\ Len(q) \in Nat
  BY DEF TypeOK, SiteState
<1>2. Pops(q, k, u) /\ PromotedOf(w) = Front(q, k)
  BY <1>1, PromotePops
<1>3. site' = [site EXCEPT ![s] = Promote(w)] /\ promoted' = promoted \cup PromotedOf(w)
  BY DEF UpdateLimits
<1> HIDE DEF w, k
<1>4. OnlyQueue(s, u)
  BY <1>1, <1>3 DEF OnlyQueue
<1>5. k \in Nat /\ u \in Seq(Requests)
  BY <1>1, <1>2 DEF Pops
<1> QED
  BY <1>2, <1>3, <1>4, <1>5

\* ~Permit pops the waiter that gets the slot.
LEMMA ReleaseEffect ==
  ASSUME TypeOK, NEW r \in Requests, Release(r)
  PROVE  LET q == site[SiteOf[r]].queue
         IN  \E k \in Nat : \E u \in Seq(Requests) :
               /\ Pops(q, k, u) /\ OnlyQueue(SiteOf[r], u)
               /\ next' = next \cup Front(q, k)
<1> DEFINE s == SiteOf[r]
           q == site[s].queue
           u == ReleaseSite(site[s]).queue
<1>1. site \in [Sites -> SiteState] /\ s \in Sites /\ site[s] \in SiteState
  BY SiteOfType DEF TypeOK
<1>2. PICK k \in Nat : Pops(q, k, u) /\ ReleaseNext(site[s]) = Front(q, k)
  BY <1>1, ReleasePops
<1>3. site' = [site EXCEPT ![s] = ReleaseSite(site[s])]
      /\ next' = next \cup ReleaseNext(site[s])
  BY DEF Release
<1>4. OnlyQueue(s, u)
  BY <1>1, <1>3 DEF OnlyQueue
<1>5. u \in Seq(Requests)
  BY <1>2 DEF Pops
<1> QED
  BY <1>2, <1>3, <1>4, <1>5

\* A failed hand-off pops one waiter for every slot it gives back.
LEMMA FailEffect ==
  ASSUME TypeOK, NEW r \in Requests, NEW controlBlock \in BOOLEAN,
         AllocationFails(r, controlBlock)
  PROVE  LET q == site[SiteOf[r]].queue
         IN  \E k \in Nat : \E u \in Seq(Requests) :
               /\ Pops(q, k, u) /\ OnlyQueue(SiteOf[r], u)
               /\ next' = (next \ {r}) \cup Front(q, k)
<1> DEFINE s == SiteOf[r]
           q == site[s].queue
           once == ReleaseSite(site[s])
           twice == ReleaseSite(once)
<1>1. site \in [Sites -> SiteState] /\ s \in Sites /\ site[s] \in SiteState
      /\ q \in Seq(Requests)
  BY SiteOfType DEF TypeOK, SiteState
<1>2. PICK a \in Nat : Pops(q, a, once.queue) /\ ReleaseNext(site[s]) = Front(q, a)
  BY <1>1, ReleasePops
<1>3. once \in SiteState
  BY <1>1, ReleaseType
<1>4. /\ site' = [site EXCEPT ![s] = IF controlBlock THEN ReleaseSite(once) ELSE once]
      /\ next' = (next \ {r}) \cup ReleaseNext(site[s])
                   \cup (IF controlBlock THEN ReleaseNext(once) ELSE {})
  BY DEF AllocationFails
<1> HIDE DEF once
<1>5. PICK b \in Nat : Pops(once.queue, b, twice.queue)
                       /\ ReleaseNext(once) = Front(once.queue, b)
  BY <1>3, ReleasePops
<1> HIDE DEF twice
<1>6. Pops(q, a + b, twice.queue) /\ Front(q, a + b) = Front(q, a) \cup Front(once.queue, b)
  BY <1>1, <1>2, <1>5, PopsTwice
<1>7. once.queue \in Seq(Requests) /\ twice.queue \in Seq(Requests)
  BY <1>2, <1>5 DEF Pops
<1>8. CASE controlBlock
  <2>1. site' = [site EXCEPT ![s] = twice]
    BY <1>4, <1>8 DEF twice
  <2>2. OnlyQueue(s, twice.queue)
    BY <1>1, <2>1 DEF OnlyQueue
  <2>3. next' = (next \ {r}) \cup Front(q, a + b)
    BY <1>2, <1>4, <1>5, <1>6, <1>8
  <2>4. a + b \in Nat
    OBVIOUS
  <2> QED
    BY <1>6, <1>7, <2>2, <2>3, <2>4
<1>9. CASE ~controlBlock
  <2>1. OnlyQueue(s, once.queue)
    BY <1>1, <1>4, <1>9 DEF OnlyQueue
  <2>2. next' = (next \ {r}) \cup Front(q, a)
    BY <1>2, <1>4, <1>9
  <2> QED
    BY <1>2, <1>7, <2>1, <2>2
<1> QED
  BY <1>8, <1>9

\* A throwing hand-off pops a waiter if it gives its slot back.
LEMMA ThrowEffect ==
  ASSUME TypeOK, NEW r \in Requests, NEW built \in BOOLEAN, HandOffThrows(r, built)
  PROVE  LET q == site[SiteOf[r]].queue
         IN  \E k \in Nat : \E u \in Seq(Requests) :
               /\ Pops(q, k, u) /\ OnlyQueue(SiteOf[r], u)
               /\ next' = next \cup Front(q, k)
<1> DEFINE s == SiteOf[r]
           q == site[s].queue
           u == ReleaseSite(site[s]).queue
<1>1. /\ site \in [Sites -> SiteState] /\ s \in Sites /\ site[s] \in SiteState
      /\ q \in Seq(Requests)
  BY SiteOfType DEF TypeOK, SiteState
<1>2. PICK k \in Nat : Pops(q, k, u) /\ ReleaseNext(site[s]) = Front(q, k)
  BY <1>1, ReleasePops
<1>3. CASE site' = [site EXCEPT ![s] = ReleaseSite(site[s])]
           /\ next' = next \cup ReleaseNext(site[s])
  <2>1. OnlyQueue(s, u)
    BY <1>1, <1>3 DEF OnlyQueue
  <2>2. u \in Seq(Requests)
    BY <1>2 DEF Pops
  <2> QED
    BY <1>2, <1>3, <2>1, <2>2
<1>4. CASE site' = site /\ next' = next
  <2>1. OnlyQueue(s, q)
    BY <1>1, <1>4 DEF OnlyQueue
  <2>2. Pops(q, 0, q) /\ Front(q, 0) = {}
    BY <1>1 DEF Pops, Front
  <2>3. next' = next \cup Front(q, 0)
    BY <1>4, <2>2
  <2> QED
    BY <1>1, <2>1, <2>2, <2>3
<1> QED
  BY <1>3, <1>4 DEF HandOffThrows

\* cancel_pending and the timer's handler take one waiter out.
LEMMA EraseEffect ==
  ASSUME TypeOK, NEW r \in Requests, Queued(r),
         \/ CancelPending(r)
         \/ TimeoutPending(r)
         \/ TimeoutThrows(r)
  PROVE  OnlyQueue(SiteOf[r], Without(site[SiteOf[r]].queue, r))
<1> DEFINE s == SiteOf[r]
<1>1. site \in [Sites -> SiteState] /\ s \in Sites /\ site[s] \in SiteState
  BY SiteOfType DEF TypeOK
<1>2. PICK z \in {Dequeue(site[s], r), Expire(site[s], r)} : site' = [site EXCEPT ![s] = z]
  BY DEF CancelPending, TimeoutPending, TimeoutThrows
<1>3. z.queue = Without(site[s].queue, r)
  BY <1>1, <1>2, EraseFacts DEF Queued
<1> QED
  BY <1>1, <1>2, <1>3 DEF OnlyQueue

\* retain_sites touches no queue.
LEMMA RetainEffect ==
  ASSUME TypeOK, NEW ids \in SUBSET Sites, RetainSites(ids), NEW t \in Sites
  PROVE  site'[t].queue = site[t].queue
<1>1. site[t] \in SiteState
  BY DEF TypeOK
<1>2. [site[t] EXCEPT !.retired = TRUE] \in SiteState
      /\ [site[t] EXCEPT !.retired = TRUE].queue = site[t].queue
  BY <1>1 DEF SiteState
<1>3. Reclaim([site[t] EXCEPT !.retired = TRUE]).queue = site[t].queue
  BY <1>2, ReclaimType
<1> QED
  BY <1>3 DEF RetainSites

\* What popping leaves queued; and those popped were queued, without a slot.
LEMMA PopsQueued ==
  ASSUME TypeOK, Stations, NEW s \in Sites, NEW k, NEW u, Pops(site[s].queue, k, u)
  PROVE  LET F == Front(site[s].queue, k)
         IN  /\ \A p \in F : /\ p \in Requests /\ SiteOf[p] = s /\ p \in called /\ Queued(p)
                             /\ p \notin promoted /\ p \notin next /\ p \notin holding
                             /\ p \notin refusing
             /\ OnlyQueue(s, u) =>
                  \A p \in Requests : Queued(p)' <=> Queued(p) /\ p \notin F
             /\ \A r \in Requests : SiteOf[r] = s /\ OnlyQueue(s, Append(u, r)) =>
                  \A p \in Requests : Queued(p)' <=> (p = r \/ (Queued(p) /\ p \notin F))
<1> DEFINE q == site[s].queue
           F == Front(q, k)
<1>1. q \in Seq(Requests) /\ Distinct(q) /\ u \in Seq(Requests)
  BY DEF TypeOK, SiteState, Stations, QueueSound, Distinct, Pops
<1>2. Range(u) = Range(q) \ F /\ F \subseteq Range(q)
  BY <1>1, PopsOrder
<1>3. ASSUME NEW p \in Range(q)
      PROVE  /\ p \in Requests /\ SiteOf[p] = s /\ p \in called /\ Queued(p)
             /\ p \notin promoted /\ p \notin next /\ p \notin holding /\ p \notin refusing
  <2>1. PICK j \in DOMAIN q : p = q[j]
    BY DEF Range
  <2>2. /\ p \in Requests /\ SiteOf[p] = s /\ p \in called
        /\ p \notin promoted /\ p \notin next /\ p \notin holding /\ p \notin refusing
    BY <2>1, QueueFacts
  <2> QED
    BY <2>2 DEF Queued
<1>4. \A r \in Requests : Range(Append(u, r)) = Range(u) \cup {r}
  <2> TAKE r \in Requests
  <2>1. /\ Append(u, r) \in Seq(Requests) /\ Len(Append(u, r)) = Len(u) + 1
        /\ Append(u, r)[Len(u) + 1] = r
        /\ \A i \in 1 .. Len(u) : Append(u, r)[i] = u[i]
        /\ DOMAIN u = 1 .. Len(u) /\ DOMAIN Append(u, r) = 1 .. (Len(u) + 1)
        /\ Len(u) \in Nat
    BY <1>1
  <2> HIDE DEF q
  <2>2. 1 .. (Len(u) + 1) = (1 .. Len(u)) \cup {Len(u) + 1}
    BY <2>1
  <2> QED
    BY <2>1, <2>2 DEF Range
<1>5. \A p \in Requests : Queued(p) /\ SiteOf[p] = s => p \in Range(q)
  BY DEF Queued
<1>6. SiteOf \in [Requests -> Sites]
  BY SiteOfType
<1> HIDE DEF q, F
<1>7. ASSUME OnlyQueue(s, u), NEW p \in Requests
      PROVE  Queued(p)' <=> Queued(p) /\ p \notin F
  <2>1. CASE SiteOf[p] = s
    BY <1>2, <1>3, <1>5, <1>7, <2>1 DEF Queued, OnlyQueue
  <2>2. CASE SiteOf[p] # s
    <3>1. site'[SiteOf[p]].queue = site[SiteOf[p]].queue
      BY <1>6, <1>7, <2>2 DEF OnlyQueue
    <3>2. p \notin F
      BY <1>2, <1>3, <2>2
    <3> QED
      BY <3>1, <3>2 DEF Queued
  <2> QED
    BY <2>1, <2>2
<1>8. ASSUME NEW r \in Requests, SiteOf[r] = s, OnlyQueue(s, Append(u, r)), NEW p \in Requests
      PROVE  Queued(p)' <=> (p = r \/ (Queued(p) /\ p \notin F))
  <2>1. CASE SiteOf[p] = s
    BY <1>2, <1>3, <1>4, <1>5, <1>8, <2>1 DEF Queued, OnlyQueue
  <2>2. CASE SiteOf[p] # s
    <3>1. site'[SiteOf[p]].queue = site[SiteOf[p]].queue
      BY <1>6, <1>8, <2>2 DEF OnlyQueue
    <3>2. p \notin F
      BY <1>2, <1>3, <2>2
    <3> QED
      BY <1>8, <2>2, <3>1, <3>2 DEF Queued
  <2> QED
    BY <2>1, <2>2
<1>9. \A p \in F : /\ p \in Requests /\ SiteOf[p] = s /\ p \in called /\ Queued(p)
                   /\ p \notin promoted /\ p \notin next /\ p \notin holding /\ p \notin refusing
  BY <1>2, <1>3
<1> QED
  BY <1>7, <1>8, <1>9 DEF q, F

\* What erasing a waiter leaves queued.
LEMMA EraseQueued ==
  ASSUME TypeOK, Stations, NEW r \in Requests, Queued(r),
         OnlyQueue(SiteOf[r], Without(site[SiteOf[r]].queue, r))
  PROVE  \A p \in Requests : Queued(p)' <=> Queued(p) /\ p # r
<1> DEFINE s == SiteOf[r]
           q == site[s].queue
<1>1. SiteOf \in [Requests -> Sites] /\ s \in Sites
  BY SiteOfType
<1>2. q \in Seq(Requests) /\ Distinct(q)
  BY <1>1 DEF TypeOK, SiteState, Stations, QueueSound, Distinct
<1>3. Range(Without(q, r)) = Range(q) \ {r}
  BY <1>2, EraseRange DEF Queued
<1> TAKE p \in Requests
<1>4. CASE SiteOf[p] = s
  BY <1>1, <1>3, <1>4 DEF Queued, OnlyQueue
<1>5. CASE SiteOf[p] # s
  BY <1>1, <1>5 DEF Queued, OnlyQueue
<1> QED
  BY <1>4, <1>5

-----------------------------------------------------------------------------
(* First in, first out.                                                    *)

Gains == (promoted' \cup next') \ (promoted \cup next)

\* An action that pops waiters into slots, and lets its caller enter an empty
\* queue or append itself, keeps the order.
LEMMA OrderPops ==
  ASSUME TypeOK, Stations, NEW s \in Sites, NEW k, NEW u, Pops(site[s].queue, k, u), NEW v,
         OnlyQueue(s, v),
         \/ v = u
         \/ \E r \in Requests : r \notin called /\ v = Append(u, r),
         \A p \in Gains : \/ p \in Front(site[s].queue, k)
                          \/ v = << >> /\ SiteOf[p] = s
  PROVE  FirstInFirstOut
<1> DEFINE q == site[s].queue
           F == Front(q, k)
<1>1. q \in Seq(Requests) /\ Distinct(q) /\ u \in Seq(Requests)
  BY DEF TypeOK, SiteState, Stations, QueueSound, Distinct, Pops
<1>a. Pops(q, k, u)
  OBVIOUS
<1> HIDE DEF q
<1>2. /\ Range(u) = Range(q) \ F
      /\ \A p \in F : \A i \in DOMAIN q :
           q[i] \in Range(u) => \E j \in 1 .. (i - 1) : q[j] = p
  BY <1>1, <1>a, PopsOrder
<1> USE DEF q
<1>3. \A p \in F : SiteOf[p] = s
  BY PopsQueued
<1>4. \A i \in DOMAIN q : q[i] \in called
  BY QueueFacts
<1>5. site'[s].queue = v /\ \A t \in Sites : t # s => site'[t].queue = site[t].queue
  BY DEF OnlyQueue
<1>6. ASSUME NEW i \in DOMAIN v
      PROVE  v[i] \in Range(q) \/ i = Len(v)
  <2>1. CASE v = u
    BY <1>2, <1>6, <2>1 DEF Range
  <2>2. CASE \E r \in Requests : r \notin called /\ v = Append(u, r)
    <3>1. PICK r \in Requests : v = Append(u, r)
      BY <2>2
    <3>2. Len(v) = Len(u) + 1 /\ ((i \in DOMAIN u /\ v[i] = u[i]) \/ i = Len(u) + 1)
      BY <1>1, <1>6, <3>1
    <3> QED
      BY <1>2, <3>2 DEF Range
  <2> QED
    BY <2>1, <2>2
<1>7. ASSUME NEW i \in DOMAIN q, q[i] \in Range(v)
      PROVE  q[i] \in Range(u) /\ v # << >>
  <2>1. PICK m \in DOMAIN v : v[m] = q[i]
    BY <1>7 DEF Range
  <2>2. CASE v = u
    BY <1>1, <1>7, <2>1, <2>2 DEF Range
  <2>3. CASE \E r \in Requests : r \notin called /\ v = Append(u, r)
    <3>1. PICK r \in Requests : r \notin called /\ v = Append(u, r)
      BY <2>3
    <3>2. \/ m \in DOMAIN u /\ v[m] = u[m]
          \/ v[m] = r
      BY <1>1, <2>1, <3>1
    <3>3. v # << >>
      BY <1>1, <3>1
    <3> QED
      BY <1>4, <2>1, <3>1, <3>2, <3>3 DEF Range
  <2> QED
    BY <2>2, <2>3
<1> HIDE DEF q, F
<1>8. ASSUME NEW p \in Gains, NEW i \in DOMAIN site[SiteOf[p]].queue,
             site[SiteOf[p]].queue[i] \in Range(site'[SiteOf[p]].queue)
      PROVE  \E j \in 1 .. (i - 1) : site[SiteOf[p]].queue[j] = p
  <2>1. SiteOf[p] = s /\ (p \in F \/ v = << >>)
    BY <1>3, <1>8 DEF F, q
  <2>2. i \in DOMAIN q /\ q[i] \in Range(v)
    BY <1>5, <1>8, <2>1 DEF q
  <2>3. p \in F /\ q[i] \in Range(u)
    BY <1>7, <2>1, <2>2
  <2> QED
    BY <1>2, <2>1, <2>2, <2>3 DEF q
<1>9. ASSUME NEW t \in Sites, NEW i \in DOMAIN site'[t].queue
      PROVE  site'[t].queue[i] \in Range(site[t].queue) \/ i = Len(site'[t].queue)
  <2>1. CASE t = s
    BY <1>5, <1>6, <1>9, <2>1 DEF q
  <2>2. CASE t # s
    BY <1>5, <1>9, <2>2 DEF Range
  <2> QED
    BY <2>1, <2>2
<1> QED
  BY <1>8, <1>9 DEF FirstInFirstOut, Gains

\* So does one that gives nobody a slot and queues nobody.
LEMMA OrderKept ==
  ASSUME Gains = {}, \A t \in Sites : Range(site'[t].queue) \subseteq Range(site[t].queue)
  PROVE  FirstInFirstOut
<1>1. \A t \in Sites : \A i \in DOMAIN site'[t].queue :
        site'[t].queue[i] \in Range(site[t].queue)
  BY DEF Range
<1> QED
  BY <1>1 DEF FirstInFirstOut, Gains

\* Every step keeps the order of the queues.
LEMMA OrderStep == TypeOK /\ Stations /\ [Next]_vars => [FirstInFirstOut]_vars
<1> SUFFICES ASSUME TypeOK, Stations, Next PROVE FirstInFirstOut
  OBVIOUS
<1>0. SiteOf \in [Requests -> Sites]
  BY SiteOfType
<1>1. ASSUME NEW r \in Requests, NEW l \in Limits, AsyncAcquire(r, l)
      PROVE  FirstInFirstOut
  <2> DEFINE s == SiteOf[r]
             q == site[s].queue
  <2>1. r \notin called /\ next' = next
    BY <1>1 DEF AsyncAcquire
  <2>2. PICK k \in Nat, u \in Seq(Requests) :
          /\ Pops(q, k, u)
          /\ \/ /\ u = << >> /\ OnlyQueue(s, u)
                /\ promoted' = promoted \cup Front(q, k) \cup {r}
             \/ /\ OnlyQueue(s, u)
                /\ promoted' = promoted \cup Front(q, k)
             \/ /\ OnlyQueue(s, Append(u, r))
                /\ promoted' = promoted \cup Front(q, k)
    BY <1>1, AcquireEffect
  <2>3. CASE u = << >> /\ OnlyQueue(s, u) /\ promoted' = promoted \cup Front(q, k) \cup {r}
    <3>1. \A p \in Gains : p \in Front(q, k) \/ (u = << >> /\ SiteOf[p] = s)
      BY <2>1, <2>3 DEF Gains
    <3> QED
      BY <1>0, <2>2, <2>3, <3>1, OrderPops
  <2>4. CASE OnlyQueue(s, u) /\ promoted' = promoted \cup Front(q, k)
    <3>1. \A p \in Gains : p \in Front(q, k)
      BY <2>1, <2>4 DEF Gains
    <3> QED
      BY <1>0, <2>2, <2>4, <3>1, OrderPops
  <2>5. CASE OnlyQueue(s, Append(u, r)) /\ promoted' = promoted \cup Front(q, k)
    <3>1. \A p \in Gains : p \in Front(q, k)
      BY <2>1, <2>5 DEF Gains
    <3> QED
      BY <1>0, <2>1, <2>2, <2>5, <3>1, OrderPops
  <2> QED
    BY <2>2, <2>3, <2>4, <2>5
<1>2. ASSUME NEW r \in Requests, NEW controlBlock \in BOOLEAN, AllocationFails(r, controlBlock)
      PROVE  FirstInFirstOut
  <2>1. PICK k \in Nat, u \in Seq(Requests) :
          /\ Pops(site[SiteOf[r]].queue, k, u) /\ OnlyQueue(SiteOf[r], u)
          /\ next' = (next \ {r}) \cup Front(site[SiteOf[r]].queue, k)
    BY <1>2, FailEffect
  <2>2. \A p \in Gains : p \in Front(site[SiteOf[r]].queue, k)
    BY <1>2, <2>1 DEF Gains, AllocationFails
  <2> QED
    BY <1>0, <2>1, <2>2, OrderPops
<1>3. ASSUME NEW r \in Requests, Release(r)
      PROVE  FirstInFirstOut
  <2>1. PICK k \in Nat, u \in Seq(Requests) :
          /\ Pops(site[SiteOf[r]].queue, k, u) /\ OnlyQueue(SiteOf[r], u)
          /\ next' = next \cup Front(site[SiteOf[r]].queue, k)
    BY <1>3, ReleaseEffect
  <2>2. \A p \in Gains : p \in Front(site[SiteOf[r]].queue, k)
    BY <1>3, <2>1 DEF Gains, Release, UnchangedHandOffs
  <2> QED
    BY <1>0, <2>1, <2>2, OrderPops
<1>4. ASSUME NEW s \in Sites, NEW l \in Limits, UpdateLimits(s, l)
      PROVE  FirstInFirstOut
  <2>1. PICK k \in Nat, u \in Seq(Requests) :
          /\ Pops(site[s].queue, k, u) /\ OnlyQueue(s, u)
          /\ promoted' = promoted \cup Front(site[s].queue, k)
    BY <1>4, UpdateEffect
  <2>2. \A p \in Gains : p \in Front(site[s].queue, k)
    BY <1>4, <2>1 DEF Gains, UpdateLimits
  <2> QED
    BY <2>1, <2>2, OrderPops
<1>5. ASSUME NEW r \in Requests,
             CancelPending(r) \/ (TimeoutPending(r) /\ Queued(r)) \/ TimeoutThrows(r)
      PROVE  FirstInFirstOut
  <2>1. Queued(r) /\ Gains = {}
    BY <1>5 DEF CancelPending, TimeoutPending, TimeoutThrows, UnchangedHandOffs, Gains
  <2>2. OnlyQueue(SiteOf[r], Without(site[SiteOf[r]].queue, r))
    BY <1>5, <2>1, EraseEffect
  <2>3. site[SiteOf[r]].queue \in Seq(Requests) /\ Distinct(site[SiteOf[r]].queue)
    BY <1>0 DEF TypeOK, SiteState, Stations, QueueSound, Distinct
  <2>4. Range(Without(site[SiteOf[r]].queue, r)) \subseteq Range(site[SiteOf[r]].queue)
    BY <2>1, <2>3, EraseRange DEF Queued
  <2> QED
    BY <2>1, <2>2, <2>4, OrderKept DEF OnlyQueue
<1>6. ASSUME NEW ids \in SUBSET Sites, RetainSites(ids)
      PROVE  FirstInFirstOut
  <2>1. Gains = {}
    BY <1>6 DEF RetainSites, UnchangedHandOffs, Gains
  <2> QED
    BY <1>6, <2>1, RetainEffect, OrderKept
<1>7. CASE Clear
  <2>1. Gains = {} /\ \A t \in Sites : Range(site'[t].queue) = {}
    BY <1>7 DEF Clear, UnchangedHandOffs, Gains, NoSite, Range
  <2> QED
    BY <2>1, OrderKept
<1>8. ASSUME NEW r \in Requests,
             \/ HandOff(r) \/ TimerExpires(r) \/ (TimeoutPending(r) /\ ~Queued(r))
             \/ \E result \in Results : RunHandler(r, result)
      PROVE  FirstInFirstOut
  <2>1. Gains = {} /\ site' = site
    BY <1>8 DEF HandOff, TimerExpires, RunHandler, TimeoutPending, UnchangedHandOffs, Gains
  <2> QED
    BY <2>1, OrderKept
<1>9. ASSUME NEW r \in Requests, NEW built \in BOOLEAN, HandOffThrows(r, built)
      PROVE  FirstInFirstOut
  <2>1. PICK k \in Nat, u \in Seq(Requests) :
          /\ Pops(site[SiteOf[r]].queue, k, u) /\ OnlyQueue(SiteOf[r], u)
          /\ next' = next \cup Front(site[SiteOf[r]].queue, k)
    BY <1>9, ThrowEffect
  <2>2. promoted' \subseteq promoted
    BY <1>9 DEF HandOffThrows
  <2>3. \A p \in Gains : p \in Front(site[SiteOf[r]].queue, k)
    BY <2>1, <2>2 DEF Gains
  <2> QED
    BY <1>0, <2>1, <2>3, OrderPops
<1> QED
  BY <1>1, <1>2, <1>3, <1>4, <1>5, <1>6, <1>7, <1>8, <1>9 DEF Next

\* No request overtakes a waiter of its site: async_acquire, update_limits and
\* release() take waiters from the front, cancellations and timeouts keep the order
\* of the rest, and async_acquire grants a slot to its caller only over an empty queue.
THEOREM NoOvertakingHolds == Spec => NoOvertaking
<1>1. TypeOK /\ Stations /\ [Next]_vars => [FirstInFirstOut]_vars
  BY OrderStep
<1> QED
  BY <1>1, TypeCorrect, StationsAlways, PTL DEF Spec, NoOvertaking

-----------------------------------------------------------------------------
(* The limit in force.                                                     *)

\* A step that gives somebody a slot of t leaves `active` within the limit.
LEMMA GrantsWithinLimit ==
  ASSUME TypeOK, Stations, Next, ~doubled', NEW t \in Sites
  PROVE  Slots(t)' \subseteq Slots(t) \/ site'[t].active <= site'[t].maximum_active
<1> DEFINE Goal == Slots(t)' \subseteq Slots(t) \/ site'[t].active <= site'[t].maximum_active
<1>0. /\ SiteOf \in [Requests -> Sites]
      /\ site \in [Sites -> SiteState]
      /\ \A s \in Sites : site[s] \in SiteState /\ Distinct(site[s].queue)
  BY SiteOfType DEF TypeOK, Stations, QueueSound, Distinct
<1>1. ASSUME NEW s \in Sites, NEW l \in Limits, t = s
      PROVE  LET w == WithLimits(site[s], l)
                 y == Promote(w)
             IN  /\ y \in SiteState /\ y.active \in Nat /\ y.maximum_active \in Nat
                 /\ PromotedOf(w) # {} => y.active <= y.maximum_active
  <2> DEFINE w == WithLimits(site[s], l)
             y == Promote(w)
  <2>1. PromotedOf(w) # {} => y.active <= l[1]
    BY <1>0, PromotionSplit DEF Distinct
  <2>2. w \in SiteState /\ w.maximum_active = l[1]
    BY <1>0, WithLimitsFacts DEF WithLimits, SiteState
  <2> HIDE DEF w
  <2>3. y \in SiteState /\ y.maximum_active = w.maximum_active
    BY <2>2, PromoteFacts
  <2>4. y.active \in Nat /\ y.maximum_active \in Nat
    BY <2>3 DEF SiteState
  <2> QED
    BY <2>1, <2>2, <2>3, <2>4 DEF w
<1>2. ASSUME NEW s \in Sites, NEW k, NEW u, Pops(site[s].queue, k, u), t # s
      PROVE  \A p \in Front(site[s].queue, k) : SiteOf[p] # t
  BY <1>2, PopsQueued
<1>3. ASSUME NEW r \in Requests, NEW l \in Limits, AsyncAcquire(r, l)
      PROVE  Goal
  <2> DEFINE s == SiteOf[r]
             w == WithLimits(site[s], l)
             y == Promote(w)
  <2>1. /\ site' = [site EXCEPT ![s] = Admit(y, r)]
        /\ promoted' = promoted \cup PromotedOf(w) \cup (IF CanEnter(y) THEN {r} ELSE {})
        /\ posts' = posts /\ next' = next /\ holding' = holding /\ leaked' = leaked
    BY <1>3 DEF AsyncAcquire
  <2>2. \A p \in Requests : <<p, "granted">> \in posts' <=> <<p, "granted">> \in posts
    BY <2>1
  <2>3. CASE t = s
    <3>1. /\ y \in SiteState /\ y.active \in Nat /\ y.maximum_active \in Nat
          /\ PromotedOf(w) # {} => y.active <= y.maximum_active
      BY <1>0, <1>1, <2>3
    <3>2. CanEnter(y) => y.active < y.maximum_active
      BY DEF CanEnter
    <3> HIDE DEF w, y
    <3>3. /\ Admit(y, r).active = IF CanEnter(y) THEN y.active + 1 ELSE y.active
          /\ Admit(y, r).maximum_active = y.maximum_active
      BY <3>1, AdmitFacts
    <3>4. site'[t] = Admit(y, r)
      BY <1>0, <2>1, <2>3
    <3>5. CASE CanEnter(y) \/ PromotedOf(w) # {}
      BY <3>1, <3>2, <3>3, <3>4, <3>5
    <3>6. CASE ~CanEnter(y) /\ PromotedOf(w) = {}
      BY <2>1, <2>2, <3>6 DEF Slots
    <3> QED
      BY <3>5, <3>6
  <2>4. CASE t # s
    <3>1. Pops(site[s].queue, PromotionCount(w), y.queue)
          /\ PromotedOf(w) = Front(site[s].queue, PromotionCount(w))
      BY <1>0, PromotePops
    <3>2. \A p \in PromotedOf(w) \cup {r} : SiteOf[p] # t
      BY ZenonT(60), <1>0, <1>2, <2>4, <3>1
    <3> QED
      BY <2>1, <2>2, <3>2 DEF Slots
  <2> QED
    BY <2>3, <2>4
<1>4. ASSUME NEW s \in Sites, NEW l \in Limits, UpdateLimits(s, l)
      PROVE  Goal
  <2> DEFINE w == WithLimits(site[s], l)
             y == Promote(w)
  <2>1. /\ site' = [site EXCEPT ![s] = y]
        /\ promoted' = promoted \cup PromotedOf(w)
        /\ posts' = posts /\ next' = next /\ holding' = holding /\ leaked' = leaked
    BY <1>4 DEF UpdateLimits
  <2>2. CASE t = s
    <3>1. PromotedOf(w) # {} => y.active <= y.maximum_active
      BY <1>1, <2>2
    <3>2. site'[t] = y
      BY <1>0, <2>1, <2>2
    <3>3. PromotedOf(w) = {} => Slots(t)' \subseteq Slots(t)
      BY <2>1 DEF Slots
    <3> QED
      BY <3>1, <3>2, <3>3
  <2>3. CASE t # s
    <3>1. Pops(site[s].queue, PromotionCount(w), y.queue)
          /\ PromotedOf(w) = Front(site[s].queue, PromotionCount(w))
      BY <1>0, PromotePops
    <3>2. \A p \in PromotedOf(w) : SiteOf[p] # t
      BY <1>2, <2>3, <3>1
    <3> QED
      BY <2>1, <3>2 DEF Slots
  <2> QED
    BY <2>2, <2>3
<1>5. ASSUME NEW r \in Requests, site' = [site EXCEPT ![SiteOf[r]] = ReleaseSite(site[SiteOf[r]])],
             next' \subseteq next \cup ReleaseNext(site[SiteOf[r]]),
             promoted' \subseteq promoted, leaked' \subseteq leaked \cup promoted,
             posts' = posts, holding' \subseteq holding
      PROVE  Goal
  <2> DEFINE s == SiteOf[r]
             x == site[s]
  <2>1. x \in SiteState
    BY <1>0
  <2>2. CASE ReleaseNext(x) = {}
    BY <1>5, <2>2 DEF Slots
  <2>3. CASE ReleaseNext(x) # {} /\ t = s
    <3>1. x.active <= x.maximum_active /\ ReleaseSite(x) = [x EXCEPT !.queue = Tail(x.queue)]
      BY <2>1, <2>3, ReleaseHandsOver
    <3>2. ReleaseSite(x).active <= ReleaseSite(x).maximum_active
      BY <2>1, <3>1 DEF SiteState
    <3>3. site'[t] = ReleaseSite(x)
      BY <1>0, <1>5, <2>3
    <3> QED
      BY <3>2, <3>3
  <2>4. CASE t # s
    <3>0. PICK k \in Nat : /\ Pops(x.queue, k, ReleaseSite(x).queue)
                           /\ ReleaseNext(x) = Front(x.queue, k)
      BY <2>1, ReleasePops
    <3>1. \A p \in ReleaseNext(x) : SiteOf[p] # t
      BY <1>0, <1>2, <2>4, <3>0
    <3> QED
      BY <1>5, <3>1 DEF Slots
  <2> QED
    BY <2>2, <2>3, <2>4
<1>6. ASSUME NEW r \in Requests, Release(r)
      PROVE  Goal
  <2>1. /\ site' = [site EXCEPT ![SiteOf[r]] = ReleaseSite(site[SiteOf[r]])]
        /\ next' \subseteq next \cup ReleaseNext(site[SiteOf[r]])
        /\ promoted' \subseteq promoted /\ leaked' \subseteq leaked \cup promoted
        /\ posts' = posts /\ holding' \subseteq holding
    BY <1>6 DEF Release, UnchangedHandOffs
  <2> QED
    BY <1>5, <2>1
<1>7. ASSUME NEW r \in Requests, NEW controlBlock \in BOOLEAN, AllocationFails(r, controlBlock)
      PROVE  Goal
  <2>0. ~controlBlock
    BY <1>7 DEF AllocationFails
  <2>1. /\ site' = [site EXCEPT ![SiteOf[r]] = ReleaseSite(site[SiteOf[r]])]
        /\ next' \subseteq next \cup ReleaseNext(site[SiteOf[r]])
        /\ promoted' \subseteq promoted /\ leaked' \subseteq leaked \cup promoted
        /\ posts' = posts /\ holding' \subseteq holding
    BY <1>7, <2>0 DEF AllocationFails
  <2> QED
    BY <1>5, <2>1
<1>8. ASSUME NEW r \in Requests, HandOff(r)
      PROVE  Goal
  BY <1>8 DEF HandOff, Served, Slots
<1>9. ASSUME NEW r \in Requests, NEW result \in Results, RunHandler(r, result)
      PROVE  Goal
  BY <1>9 DEF RunHandler, UnchangedHandOffs, Slots
<1>10. ASSUME NEW r \in Requests, TimeoutPending(r) \/ TimeoutThrows(r)
       PROVE  Goal
  BY <1>10 DEF TimeoutPending, TimeoutThrows, UnchangedHandOffs, Slots
<1>11. ASSUME NEW r \in Requests, CancelPending(r) \/ TimerExpires(r)
       PROVE  Goal
  BY <1>11 DEF CancelPending, TimerExpires, UnchangedHandOffs, Slots
<1>12. ASSUME Clear \/ \E ids \in SUBSET Sites : RetainSites(ids)
       PROVE  Goal
  BY <1>12 DEF Clear, RetainSites, UnchangedHandOffs, Slots
<1>13. ASSUME NEW r \in Requests, NEW built \in BOOLEAN, HandOffThrows(r, built)
       PROVE  Goal
  <2>1. /\ promoted' \subseteq promoted /\ leaked' \subseteq leaked \cup promoted
        /\ posts' = posts /\ holding' \subseteq holding
    BY <1>13 DEF HandOffThrows
  <2>2. CASE /\ site' = [site EXCEPT ![SiteOf[r]] = ReleaseSite(site[SiteOf[r]])]
             /\ next' \subseteq next \cup ReleaseNext(site[SiteOf[r]])
    BY <1>5, <2>1, <2>2
  <2>3. CASE next' = next
    BY <2>1, <2>3 DEF Slots
  <2> QED
    BY <1>13, <2>2, <2>3 DEF HandOffThrows
<1> QED
  BY <1>3, <1>4, <1>6, <1>7, <1>8, <1>9, <1>10, <1>11, <1>12, <1>13 DEF Next

\* After a limit was lowered the site only shrinks: no step gives anybody a slot and
\* leaves more in use than the limit in force, whoever gives it (async_acquire,
\* update_limits or release()), as long as the count is exact.
THEOREM LimitRespectedHolds == Spec => LimitRespected
<1>1. TypeOK /\ Stations /\ SlotsExact' /\ [Next]_vars
        => [~cleared' /\ ~doubled' => WithinLimit]_vars
  <2> SUFFICES ASSUME TypeOK, Stations, SlotsExact', Next, ~cleared', ~doubled', NEW t \in Sites
               PROVE  Slots(t)' \subseteq Slots(t)
                      \/ Cardinality(Slots(t)') <= site'[t].maximum_active
    BY DEF WithinLimit
  <2>1. site'[t].active = Cardinality(Slots(t)')
    BY DEF SlotsExact, SlotAccounting
  <2> QED
    BY <2>1, GrantsWithinLimit
<1> QED
  BY <1>1, TypeCorrect, StationsAlways, SlotsExactHolds, PTL DEF Spec, LimitRespected

-----------------------------------------------------------------------------
(* One outcome for every request.                                          *)

Posted(p) == \E result \in Results : <<p, result>> \in posts

OnItsWay(p) ==
  Queued(p) \/ p \in promoted \/ p \in refusing \/ p \in next \/ Posted(p)

\* A handler is kept exactly as long as its request is on its way to an answer or
\* lost, and is posted once.
One(p) ==
  /\ p \in handler <=> OnItsWay(p) \/ p \in lost
  /\ p \in lost => ~OnItsWay(p)
  /\ p \in handler => p \in called
  /\ p \in handler \/ p \notin called => answers[p] = << >>
  /\ Posted(p) => ~Queued(p) /\ p \notin promoted /\ p \notin refusing /\ p \notin next
  /\ \A a, b \in Results : <<p, a>> \in posts /\ <<p, b>> \in posts => a = b
  /\ Len(answers[p]) <= 1

Outcome == \A p \in Requests : One(p)

\* Posting the handler of a request that has none posted leaves one posted.
LEMMA PostsOnce ==
  ASSUME \A p \in Requests : One(p), NEW r \in Requests, ~Posted(r), NEW result \in Results,
         posts' = posts \cup {<<r, result>>}
  PROVE  \A p \in Requests : \A a, b \in Results :
           <<p, a>> \in posts' /\ <<p, b>> \in posts' => a = b
<1> SUFFICES ASSUME NEW p \in Requests, NEW a \in Results, NEW b \in Results,
                    <<p, a>> \in posts', <<p, b>> \in posts'
             PROVE  a = b
  OBVIOUS
<1>1. CASE p = r
  BY <1>1 DEF Posted
<1>2. CASE p # r
  BY <1>2 DEF One
<1> QED
  BY <1>1, <1>2

\* Every step keeps a request on its way, or ends it.
LEMMA OutcomeStep == TypeOK /\ Stations /\ Outcome /\ [Next]_vars => Outcome'
<1> SUFFICES ASSUME TypeOK, Stations, Outcome, [Next]_vars PROVE Outcome'
  OBVIOUS
<1>0. SiteOf \in [Requests -> Sites]
  BY SiteOfType
<1>a. \A p \in Requests : One(p)
  BY DEF Outcome
<1>b. ASSUME \A p \in Requests : One(p)' PROVE Outcome'
  BY <1>b DEF Outcome
<1>c. \A p \in Requests : Queued(p) => /\ p \notin promoted /\ p \notin refusing
                                       /\ p \notin next /\ p \in called
  <2> SUFFICES ASSUME NEW p \in Requests, Queued(p)
               PROVE  p \notin promoted /\ p \notin refusing /\ p \notin next /\ p \in called
    OBVIOUS
  <2>1. PICK j \in DOMAIN site[SiteOf[p]].queue : p = site[SiteOf[p]].queue[j]
    BY DEF Queued, Range
  <2>2. SiteOf[p] \in Sites
    BY <1>0
  <2>3. /\ site[SiteOf[p]].queue[j] \in called
        /\ site[SiteOf[p]].queue[j] \notin promoted
        /\ site[SiteOf[p]].queue[j] \notin refusing
        /\ site[SiteOf[p]].queue[j] \notin next
    BY <2>2, QueueFacts
  <2> QED
    BY <2>1, <2>3
<1>d. /\ \A p \in promoted : p \notin next
      /\ \A p \in refusing : p \notin promoted /\ p \notin next
  BY DEF Stations, SlotsApart
<1>e. answers \in [Requests -> Seq(Results)]
  BY DEF TypeOK
<1>1. ASSUME NEW r \in Requests, NEW l \in Limits, AsyncAcquire(r, l)
      PROVE  \A p \in Requests : One(p)'
  <2> DEFINE s == SiteOf[r]
             q == site[s].queue
  <2>1. /\ r \notin called /\ next' = next /\ answers' = answers /\ posts' = posts
        /\ lost' = lost /\ called' = called \cup {r} /\ handler' = handler \cup {r}
    BY <1>1 DEF AsyncAcquire
  <2>2. PICK k \in Nat, u \in Seq(Requests) :
          /\ Pops(q, k, u)
          /\ \/ /\ u = << >> /\ OnlyQueue(s, u)
                /\ promoted' = promoted \cup Front(q, k) \cup {r}
                /\ refusing' = refusing
             \/ /\ OnlyQueue(s, u)
                /\ promoted' = promoted \cup Front(q, k)
                /\ refusing' = refusing \cup {r}
             \/ /\ OnlyQueue(s, Append(u, r))
                /\ promoted' = promoted \cup Front(q, k)
                /\ refusing' = refusing
    BY <1>1, AcquireEffect
  <2> DEFINE F == Front(q, k)
  <2>3. /\ \A p \in F : p \in Requests /\ Queued(p) /\ p \in called
        /\ OnlyQueue(s, u) => \A p \in Requests : Queued(p)' <=> Queued(p) /\ p \notin F
        /\ OnlyQueue(s, Append(u, r)) =>
             \A p \in Requests : Queued(p)' <=> (p = r \/ (Queued(p) /\ p \notin F))
    BY <1>0, <2>2, PopsQueued
  <2>o. One(r)
    BY <1>a
  <2>4. /\ r \notin F /\ ~Queued(r) /\ r \notin promoted /\ r \notin refusing /\ r \notin next
        /\ ~Posted(r) /\ r \notin handler /\ r \notin lost /\ answers[r] = << >>
    BY <2>o, <2>1, <2>3 DEF One, OnItsWay
  <2>p. \A p \in Requests : Posted(p)' <=> Posted(p)
    BY <2>1 DEF Posted
  <2>5. CASE /\ u = << >> /\ OnlyQueue(s, u)
             /\ promoted' = promoted \cup F \cup {r} /\ refusing' = refusing
    <3>1. \A p \in Requests : Queued(p)' <=> Queued(p) /\ p \notin F
      BY <2>3, <2>5
    <3> HIDE DEF F
    <3> QED
      BY <1>a, <2>1, <2>3, <2>4, <2>5, <2>p, <3>1 DEF One, OnItsWay
  <2>6. CASE /\ OnlyQueue(s, u)
             /\ promoted' = promoted \cup F /\ refusing' = refusing \cup {r}
    <3>1. \A p \in Requests : Queued(p)' <=> Queued(p) /\ p \notin F
      BY <2>3, <2>6
    <3> HIDE DEF F
    <3> QED
      BY <1>a, <2>1, <2>3, <2>4, <2>6, <2>p, <3>1 DEF One, OnItsWay
  <2>7. CASE /\ OnlyQueue(s, Append(u, r))
             /\ promoted' = promoted \cup F /\ refusing' = refusing
    <3>1. \A p \in Requests : Queued(p)' <=> (p = r \/ (Queued(p) /\ p \notin F))
      BY <2>3, <2>7
    <3> HIDE DEF F
    <3> QED
      BY <1>a, <2>1, <2>3, <2>4, <2>7, <2>p, <3>1 DEF One, OnItsWay
  <2> QED
    BY <2>2, <2>5, <2>6, <2>7
<1>2. ASSUME NEW r \in Requests, HandOff(r)
      PROVE  \A p \in Requests : One(p)'
  <2> DEFINE result == IF r \in refusing THEN "queue_full" ELSE "granted"
  <2>0. result \in Results
    BY DEF Results
  <2>1. /\ r \in promoted \cup refusing \cup next
        /\ promoted' = promoted \ {r} /\ refusing' = refusing \ {r} /\ next' = next \ {r}
        /\ posts' = posts \cup {<<r, result>>}
        /\ handler' = handler /\ called' = called /\ answers' = answers /\ lost' = lost
    BY <1>2 DEF HandOff, Served
  <2> HIDE DEF result
  <2>2. \A p \in Requests : Queued(p)' <=> Queued(p)
    BY <1>2 DEF HandOff, Queued
  <2>3. \A p \in Requests : Posted(p)' <=> Posted(p) \/ p = r
    BY <2>0, <2>1 DEF Posted
  <2>o. One(r)
    BY <1>a
  <2>4. r \in handler /\ ~Queued(r) /\ ~Posted(r)
    BY <1>c, <2>o, <2>1 DEF One, OnItsWay
  <2>5. \A p \in Requests : \A a, b \in Results :
          <<p, a>> \in posts' /\ <<p, b>> \in posts' => a = b
    BY <1>a, <2>0, <2>1, <2>4, PostsOnce
  <2> QED
    BY <1>a, <2>1, <2>2, <2>3, <2>4, <2>5 DEF One, OnItsWay
<1>3. ASSUME NEW r \in Requests, NEW controlBlock \in BOOLEAN, AllocationFails(r, controlBlock)
      PROVE  \A p \in Requests : One(p)'
  <2> DEFINE s == SiteOf[r]
             q == site[s].queue
  <2>1. PICK k \in Nat, u \in Seq(Requests) :
          /\ Pops(q, k, u) /\ OnlyQueue(s, u)
          /\ next' = (next \ {r}) \cup Front(q, k)
    BY <1>3, FailEffect
  <2> DEFINE F == Front(q, k)
  <2>2. /\ \A p \in F : p \in Requests /\ Queued(p) /\ p \in called
        /\ \A p \in Requests : Queued(p)' <=> Queued(p) /\ p \notin F
    BY <1>0, <2>1, PopsQueued
  <2>3. /\ r \in next
        /\ answers' = IF r \in handler
                      THEN [answers EXCEPT ![r] = Append(@, "queue_full")] ELSE answers
        /\ handler' = handler \ {r}
        /\ promoted' = promoted /\ posts' = posts /\ called' = called
        /\ refusing' = refusing /\ lost' = lost
    BY <1>3 DEF AllocationFails
  <2>4. \A p \in Requests : Posted(p)' <=> Posted(p)
    BY <2>3 DEF Posted
  <2>5. /\ r \in handler /\ answers[r] = << >> /\ ~Queued(r) /\ ~Posted(r) /\ r \notin F
        /\ r \notin promoted /\ r \notin refusing /\ r \notin lost
    <3>1. One(r)
      BY <1>a
    <3>2. r \in handler /\ ~Queued(r) /\ ~Posted(r) /\ r \notin lost
      BY <1>c, <2>3, <3>1 DEF One, OnItsWay
    <3> QED
      BY <1>d, <2>2, <2>3, <3>1, <3>2 DEF One
  <2>6. \A p \in Requests : IF p = r THEN answers'[p] = <<"queue_full">>
                                     ELSE answers'[p] = answers[p]
    BY <1>e, <2>3, <2>5
  <2>7. Len(<<"queue_full">>) <= 1
    OBVIOUS
  <2> HIDE DEF F
  <2>8. ASSUME NEW p \in Requests, p # r PROVE One(p)'
    BY <1>a, <2>1, <2>2, <2>3, <2>4, <2>5, <2>6, <2>8 DEF One, OnItsWay, F
  <2>9. One(r)'
    BY <1>a, <2>1, <2>2, <2>3, <2>4, <2>5, <2>6, <2>7 DEF One, OnItsWay, F
  <2> QED
    BY <2>8, <2>9
<1>4. ASSUME NEW r \in Requests, NEW result \in Results, RunHandler(r, result)
      PROVE  \A p \in Requests : One(p)'
  <2>1. /\ <<r, result>> \in posts
        /\ posts' = posts \ {<<r, result>>}
        /\ answers' = IF r \in handler
                      THEN [answers EXCEPT ![r] = Append(@, result)] ELSE answers
        /\ handler' = handler \ {r}
        /\ promoted' = promoted /\ next' = next /\ called' = called
        /\ refusing' = refusing /\ lost' = lost
    BY <1>4 DEF RunHandler, UnchangedHandOffs
  <2>2. \A p \in Requests : Queued(p)' <=> Queued(p)
    BY <1>4 DEF RunHandler, Queued
  <2>3. Posted(r)
    BY <2>1 DEF Posted
  <2>4. /\ r \in handler /\ answers[r] = << >> /\ ~Queued(r)
        /\ r \notin promoted /\ r \notin refusing /\ r \notin next /\ r \notin lost
        /\ \A a \in Results : <<r, a>> \in posts => a = result
    <3>1. One(r)
      BY <1>a
    <3> QED
      BY <2>1, <2>3, <3>1 DEF One, OnItsWay
  <2>5. \A p \in Requests : Posted(p)' <=> Posted(p) /\ p # r
    BY <2>1, <2>4 DEF Posted
  <2>6. \A p \in Requests : IF p = r THEN answers'[p] = <<result>>
                                     ELSE answers'[p] = answers[p]
    BY <1>e, <2>1, <2>4
  <2>7. Len(<<result>>) <= 1
    OBVIOUS
  <2>8. ASSUME NEW p \in Requests, p # r PROVE One(p)'
    BY <1>a, <2>1, <2>2, <2>4, <2>5, <2>6, <2>8 DEF One, OnItsWay
  <2>9. One(r)'
    BY <1>a, <2>1, <2>2, <2>4, <2>5, <2>6, <2>7 DEF One, OnItsWay
  <2> QED
    BY <2>8, <2>9
<1>5. ASSUME NEW s \in Sites, NEW k \in Nat, NEW u \in Seq(Requests),
             Pops(site[s].queue, k, u), OnlyQueue(s, u),
             \/ next' = next \cup Front(site[s].queue, k) /\ promoted' = promoted
             \/ promoted' = promoted \cup Front(site[s].queue, k) /\ next' = next,
             UNCHANGED << handler, refusing, posts, called, answers, lost >>
      PROVE  \A p \in Requests : One(p)'
  <2> DEFINE F == Front(site[s].queue, k)
  <2>2. /\ \A p \in F : p \in Requests /\ Queued(p) /\ p \in called
        /\ \A p \in Requests : Queued(p)' <=> Queued(p) /\ p \notin F
    BY <1>5, PopsQueued
  <2>3. \A p \in Requests : Posted(p)' <=> Posted(p)
    BY <1>5 DEF Posted
  <2>4. promoted' \cup next' = promoted \cup next \cup F
    BY <1>5
  <2> HIDE DEF F
  <2> QED
    BY <1>5, <1>a, <2>2, <2>3, <2>4 DEF One, OnItsWay
<1>6. ASSUME NEW r \in Requests, Release(r)
      PROVE  \A p \in Requests : One(p)'
  <2>1. PICK k \in Nat, u \in Seq(Requests) :
          /\ Pops(site[SiteOf[r]].queue, k, u) /\ OnlyQueue(SiteOf[r], u)
          /\ next' = next \cup Front(site[SiteOf[r]].queue, k)
    BY <1>6, ReleaseEffect
  <2>2. UNCHANGED << handler, refusing, posts, called, answers, lost, promoted >>
    BY <1>6 DEF Release, UnchangedHandOffs
  <2>3. SiteOf[r] \in Sites
    BY <1>0
  <2> QED
    BY <1>5, <2>1, <2>2, <2>3
<1>7. ASSUME NEW s \in Sites, NEW l \in Limits, UpdateLimits(s, l)
      PROVE  \A p \in Requests : One(p)'
  <2>1. PICK k \in Nat, u \in Seq(Requests) :
          /\ Pops(site[s].queue, k, u) /\ OnlyQueue(s, u)
          /\ promoted' = promoted \cup Front(site[s].queue, k)
    BY <1>7, UpdateEffect
  <2>2. UNCHANGED << handler, refusing, posts, called, answers, lost, next >>
    BY <1>7 DEF UpdateLimits
  <2> QED
    BY <1>5, <2>1, <2>2
<1>8. ASSUME NEW r \in Requests, CancelPending(r)
      PROVE  \A p \in Requests : One(p)'
  <2>1. /\ Queued(r) /\ handler' = handler \ {r}
        /\ promoted' = promoted /\ next' = next /\ posts' = posts
        /\ called' = called /\ answers' = answers /\ refusing' = refusing /\ lost' = lost
    BY <1>8 DEF CancelPending, UnchangedHandOffs
  <2>2. \A p \in Requests : Queued(p)' <=> Queued(p) /\ p # r
    BY <1>8, <2>1, EraseEffect, EraseQueued
  <2>3. \A p \in Requests : Posted(p)' <=> Posted(p)
    BY <2>1 DEF Posted
  <2>4. /\ r \notin promoted /\ r \notin refusing /\ r \notin next /\ ~Posted(r)
        /\ r \notin lost /\ r \in called
    <3>1. One(r)
      BY <1>a
    <3> QED
      BY <1>c, <2>1, <3>1 DEF One, OnItsWay
  <2> QED
    BY <1>a, <2>1, <2>2, <2>3, <2>4 DEF One, OnItsWay
<1>9. ASSUME NEW r \in Requests, TimeoutPending(r), Queued(r)
      PROVE  \A p \in Requests : One(p)'
  <2>1. /\ posts' = posts \cup {<<r, "queue_timeout">>} /\ handler' = handler
        /\ promoted' = promoted /\ next' = next
        /\ called' = called /\ answers' = answers /\ refusing' = refusing /\ lost' = lost
    BY <1>9 DEF TimeoutPending, UnchangedHandOffs
  <2>2. \A p \in Requests : Queued(p)' <=> Queued(p) /\ p # r
    BY <1>9, EraseEffect, EraseQueued
  <2>3. \A p \in Requests : Posted(p)' <=> Posted(p) \/ p = r
    BY <2>1 DEF Posted, Results
  <2>4. /\ r \notin promoted /\ r \notin refusing /\ r \notin next /\ ~Posted(r)
        /\ r \in handler /\ r \notin lost
    <3>1. One(r)
      BY <1>a
    <3> QED
      BY <1>9, <1>c, <3>1 DEF One, OnItsWay
  <2>5. \A p \in Requests : \A a, b \in Results :
          <<p, a>> \in posts' /\ <<p, b>> \in posts' => a = b
    BY <1>a, <2>1, <2>4, PostsOnce DEF Results
  <2> QED
    BY <1>a, <2>1, <2>2, <2>3, <2>4, <2>5 DEF One, OnItsWay
<1>10. ASSUME \A p \in Requests : Queued(p)' <=> Queued(p),
              UNCHANGED << handler, promoted, refusing, next, posts, called, answers, lost >>
       PROVE  \A p \in Requests : One(p)'
  <2>1. \A p \in Requests : Posted(p)' <=> Posted(p)
    BY <1>10 DEF Posted
  <2> QED
    BY <1>10, <1>a, <2>1 DEF One, OnItsWay
<1>11. ASSUME NEW r \in Requests, TimerExpires(r) \/ (TimeoutPending(r) /\ ~Queued(r))
       PROVE  \A p \in Requests : One(p)'
  <2>1. UNCHANGED << site, handler, promoted, refusing, next, posts, called, answers, lost >>
    BY <1>11 DEF TimerExpires, TimeoutPending, UnchangedHandOffs
  <2> QED
    BY <1>10, <2>1 DEF Queued
<1>12. ASSUME NEW ids \in SUBSET Sites, RetainSites(ids)
       PROVE  \A p \in Requests : One(p)'
  <2>1. UNCHANGED << handler, promoted, refusing, next, posts, called, answers, lost >>
    BY <1>12 DEF RetainSites, UnchangedHandOffs
  <2>2. \A p \in Requests : Queued(p)' <=> Queued(p)
    BY <1>0, <1>12, RetainEffect DEF Queued
  <2> QED
    BY <1>10, <2>1, <2>2
<1>13. ASSUME Clear
       PROVE  \A p \in Requests : One(p)'
  <2>1. /\ handler' = {p \in handler : ~Queued(p)}
        /\ UNCHANGED << promoted, refusing, next, posts, called, answers, lost >>
        /\ \A s \in Sites : site'[s].queue = << >>
    BY <1>13 DEF Clear, UnchangedHandOffs, NoSite
  <2>2. \A p \in Requests : ~Queued(p)'
    BY <1>0, <2>1 DEF Queued, Range
  <2>3. \A p \in Requests : Posted(p)' <=> Posted(p)
    BY <2>1 DEF Posted
  <2> QED
    BY <1>a, <1>c, <2>1, <2>2, <2>3 DEF One, OnItsWay
<1>14. ASSUME UNCHANGED vars
       PROVE  \A p \in Requests : One(p)'
  BY <1>10, <1>14 DEF vars, Queued
<1>15. ASSUME NEW r \in Requests, NEW built \in BOOLEAN, HandOffThrows(r, built)
       PROVE  \A p \in Requests : One(p)'
  <2> DEFINE q == site[SiteOf[r]].queue
  <2>1. PICK k \in Nat, u \in Seq(Requests) :
          Pops(q, k, u) /\ OnlyQueue(SiteOf[r], u) /\ next' = next \cup Front(q, k)
    BY <1>15, ThrowEffect
  <2> DEFINE F == Front(q, k)
  <2>2. /\ \A p \in F : p \in Requests /\ Queued(p) /\ p \in called
        /\ \A p \in Requests : Queued(p)' <=> Queued(p) /\ p \notin F
    BY <1>0, <2>1, PopsQueued
  <2>3. PICK gone, away :
          /\ gone \subseteq promoted \cup refusing /\ away \subseteq gone
          /\ promoted' = promoted \ gone /\ refusing' = refusing \ gone
          /\ \A p : p \in lost' <=> p \in lost \/ (p \in gone /\ p \notin away)
          /\ \A p : p \in handler' <=> p \in handler /\ p \notin away
    <3> DEFINE gone == ({r} \cup behind[r]) \cap (promoted \cup refusing)
               away == {p \in gone : timer[p] = "none"}
    <3>1. Served(r) /\ r \notin next
      BY <1>15 DEF HandOffThrows
    <3>2. /\ promoted' = promoted \ gone /\ refusing' = refusing \ gone
          /\ lost' = lost \cup {p \in gone : timer[p] # "none"}
          /\ handler' = {p \in handler : p \notin gone \/ timer[p] # "none"}
      BY <1>15 DEF HandOffThrows
    <3> HIDE DEF gone
    <3>3. /\ gone \subseteq promoted \cup refusing /\ away \subseteq gone
      BY DEF gone
    <3>4. /\ \A p : p \in lost' <=> p \in lost \/ (p \in gone /\ p \notin away)
          /\ \A p : p \in handler' <=> p \in handler /\ p \notin away
      BY <3>2
    <3> QED
      BY <3>2, <3>3, <3>4
  <2>4. UNCHANGED << posts, called, answers >>
    BY <1>15 DEF HandOffThrows
  <2>5. \A p \in Requests : Posted(p)' <=> Posted(p)
    BY <2>4 DEF Posted
  <2> HIDE DEF F
  <2>6. ASSUME NEW p \in Requests, p \in gone PROVE One(p)'
    <3>1. One(p)
      BY <1>a
    <3>2. ~Queued(p) /\ p \notin next /\ ~Posted(p) /\ p \in handler /\ p \notin lost
          /\ p \notin F
      BY <1>c, <1>d, <2>2, <2>3, <2>6, <3>1 DEF One, OnItsWay
    <3>3. ~OnItsWay(p)'
      BY <2>1, <2>2, <2>3, <2>5, <2>6, <3>2 DEF OnItsWay, F
    <3> QED
      BY <2>3, <2>4, <2>5, <2>6, <3>1, <3>2, <3>3 DEF One, OnItsWay
  <2>7. ASSUME NEW p \in Requests, p \notin gone PROVE One(p)'
    <3>1. One(p)
      BY <1>a
    <3>2. /\ p \in promoted' <=> p \in promoted
          /\ p \in refusing' <=> p \in refusing
          /\ p \in handler' <=> p \in handler
          /\ p \in lost' <=> p \in lost
          /\ p \in next' <=> p \in next \/ p \in F
      BY <2>1, <2>3, <2>7 DEF F
    <3> QED
      BY <2>2, <2>4, <2>5, <3>1, <3>2 DEF One, OnItsWay
  <2> QED
    BY <2>6, <2>7
<1>16. ASSUME NEW r \in Requests, TimeoutThrows(r)
       PROVE  \A p \in Requests : One(p)'
  <2>1. /\ Queued(r) /\ lost' = lost \cup {r} /\ handler' = handler
        /\ UNCHANGED << promoted, refusing, next, posts, called, answers >>
    BY <1>16 DEF TimeoutThrows
  <2>2. \A p \in Requests : Queued(p)' <=> Queued(p) /\ p # r
    BY <1>16, <2>1, EraseEffect, EraseQueued
  <2>3. \A p \in Requests : Posted(p)' <=> Posted(p)
    BY <2>1 DEF Posted
  <2>4. r \notin promoted /\ r \notin refusing /\ r \notin next /\ ~Posted(r) /\ r \in handler
    <3>1. One(r)
      BY <1>a
    <3> QED
      BY <1>c, <2>1, <3>1 DEF One, OnItsWay
  <2> QED
    BY <1>a, <2>1, <2>2, <2>3, <2>4 DEF One, OnItsWay
<1> QED
  BY <1>b, <1>1, <1>2, <1>3, <1>4, <1>6, <1>7, <1>8, <1>9, <1>11, <1>12, <1>13, <1>14, <1>15, <1>16
     DEF Next

\* async_acquire's promise, and where it ends: nobody is answered twice, and nobody is
\* forgotten but the waiters of a hand-off or a timeout that threw, although
\* cancellations, timeouts, releases, failed hand-offs and clear() race for a request.
THEOREM ExactlyOneOutcomeHolds == Spec => []ExactlyOneOutcome
<1>1. Init => Outcome
  <2> SUFFICES ASSUME Init, NEW p \in Requests
               PROVE  /\ p \notin handler /\ ~Queued(p) /\ p \notin promoted /\ p \notin next
                      /\ p \notin refusing /\ p \notin lost
                      /\ ~Posted(p) /\ answers[p] = << >> /\ posts = {}
    BY DEF Outcome, One, OnItsWay
  <2>1. SiteOf[p] \in Sites
    BY SiteOfType
  <2> QED
    BY <2>1 DEF Init, Queued, Posted, NoSite, Range
<1>2. TypeOK /\ Stations /\ Outcome => ExactlyOneOutcome
  <2> SUFFICES ASSUME TypeOK, Stations, Outcome, NEW r \in called
               PROVE  /\ Cardinality(Places(r)) = (IF r \in lost THEN 0 ELSE 1)
                      /\ Len(answers[r]) <= 1
    BY DEF ExactlyOneOutcome
  <2>0. r \in Requests /\ SiteOf[r] \in Sites
    BY SiteOfType DEF TypeOK
  <2>1. Queued(r) => r \notin promoted /\ r \notin refusing /\ r \notin next
    <3> SUFFICES ASSUME Queued(r) PROVE r \notin promoted /\ r \notin refusing /\ r \notin next
      OBVIOUS
    <3>1. PICK j \in DOMAIN site[SiteOf[r]].queue : r = site[SiteOf[r]].queue[j]
      BY DEF Queued, Range
    <3>2. /\ site[SiteOf[r]].queue[j] \notin promoted
          /\ site[SiteOf[r]].queue[j] \notin refusing
          /\ site[SiteOf[r]].queue[j] \notin next
      BY <2>0, QueueFacts
    <3> QED
      BY <3>1, <3>2
  <2>2. /\ r \in promoted => r \notin next
        /\ r \in refusing => r \notin promoted /\ r \notin next
    BY DEF Stations, SlotsApart
  <2>3. /\ r \in handler <=> OnItsWay(r) \/ r \in lost
        /\ r \in lost => ~OnItsWay(r)
        /\ r \in handler => answers[r] = << >>
        /\ Posted(r) => ~Queued(r) /\ r \notin promoted /\ r \notin refusing /\ r \notin next
        /\ Len(answers[r]) <= 1
    BY <2>0 DEF Outcome, One
  <2>4. ASSUME r \notin lost PROVE \E place : Places(r) = {place}
    <3>1. CASE Queued(r)
      BY <2>1, <2>2, <2>3, <2>4, <3>1 DEF Places, OnItsWay, Posted
    <3>2. CASE r \in promoted
      BY <2>1, <2>2, <2>3, <2>4, <3>2 DEF Places, OnItsWay, Posted
    <3>3. CASE r \in next
      BY <2>1, <2>2, <2>3, <2>4, <3>3 DEF Places, OnItsWay, Posted
    <3>4. CASE Posted(r)
      BY <2>1, <2>2, <2>3, <2>4, <3>4 DEF Places, OnItsWay, Posted
    <3>7. CASE r \in refusing
      BY <2>1, <2>2, <2>3, <2>4, <3>7 DEF Places, OnItsWay, Posted
    <3>5. CASE ~OnItsWay(r) /\ answers[r] = << >>
      BY <2>3, <2>4, <3>5 DEF Places, OnItsWay, Posted
    <3>6. CASE ~OnItsWay(r) /\ answers[r] # << >>
      BY <2>3, <2>4, <3>6 DEF Places, OnItsWay, Posted
    <3> QED
      BY <3>1, <3>2, <3>3, <3>4, <3>5, <3>6, <3>7 DEF OnItsWay
  <2>5. ASSUME r \in lost PROVE Places(r) = {}
    BY <2>3, <2>5 DEF Places, OnItsWay, Posted
  <2> QED
    BY <2>3, <2>4, <2>5, FS_Singleton, FS_EmptySet
<1> QED
  BY <1>1, <1>2, OutcomeStep, TypeCorrect, StationsAlways, PTL DEF Spec

-----------------------------------------------------------------------------
(***************************************************************************)
(* LimiterReload: the limiter keeps its own specification while reloads    *)
(* and requests with old snapshots run into each other, so all that is     *)
(* proved above holds under hot reload too; and a commit takes hold.       *)
(***************************************************************************)
\* The state of a reload and of the snapshots in use.
ReloadTypeOK ==
  /\ published \in Configs /\ target \in Configs
  /\ loaded \in [Requests -> Limits \cup {<< >>}]
  /\ commit \in {"idle", "limits", "publish"}
  /\ todo \subseteq Configured(target) /\ (commit # "limits" => todo = {})

\* A site's entry x obeys the limits l of a configuration: it has them, or is on its way
\* out if the configuration has no such site.
Obeys(x, l) ==
  x.present => IF l = NotConfigured THEN x.retired
               ELSE <<x.maximum_active, x.maximum_queue>> = l /\ ~x.retired

\* At every stage of a commit the limiter uses the limits in force, except where a request
\* with a replaced snapshot has written others.
InForceUsed == \A s \in Sites \ stale : Obeys(site[s], InForce(s))

\* The inductive invariant.
ReloadInv == TypeOK /\ ReloadTypeOK /\ InForceUsed

-----------------------------------------------------------------------------
(* A step of the limiter, and the entry of a site                          *)

\* The limits of a configuration are limits.
LEMMA ConfiguredLimits ==
  ASSUME NEW c \in Configs, NEW s \in Sites
  PROVE  c[s] \in Limits \cup {NotConfigured} /\ (s \in Configured(c) <=> c[s] # NotConfigured)
BY ConfigsType DEF Configured

\* No limits of a site are those of a site that is not there: maximum_active is positive.
LEMMA LimitsAreConfigured ==
  ASSUME NEW l \in Limits
  PROVE  l # NotConfigured /\ l # << >> /\ l = <<l[1], l[2]>>
BY LimitsType DEF NotConfigured

\* release(), cancel_pending and timeout_pending leave a site its limits, or no entry.
LEMMA EntryKept ==
  ASSUME NEW x \in SiteState, NEW r, NEW l
  PROVE  /\ Obeys(x, l) => Obeys(ReleaseSite(x), l)
         /\ Obeys(x, l) => Obeys(Dequeue(x, r), l)
         /\ Obeys(x, l) => Obeys(Expire(x, r), l)
<1>1. ASSUME NEW y, y.present = x.present, y.retired = x.retired,
             y.maximum_active = x.maximum_active, y.maximum_queue = x.maximum_queue
      PROVE  Obeys(x, l) => Obeys(y, l) /\ Obeys(Reclaim(y), l)
  BY <1>1 DEF Obeys, Reclaim, NoSite
<1>2. Obeys(x, l) => Obeys(ReleaseSite(x), l)
  <2> DEFINE a == [x EXCEPT !.active = @ - 1]
             q == [x EXCEPT !.queue = Tail(@)]
             b == [x EXCEPT !.active = IF @ # 0 THEN @ - 1 ELSE 0]
  <2>1. ReleaseSite(x) \in {x, Reclaim(a), q, Reclaim(b)}
    BY DEF ReleaseSite
  <2>2. \A y \in {a, q, b} :
          /\ y.present = x.present /\ y.retired = x.retired
          /\ y.maximum_active = x.maximum_active /\ y.maximum_queue = x.maximum_queue
    BY DEF SiteState
  <2> HIDE DEF a, q, b
  <2> QED  BY <1>1, <2>1, <2>2
<1>3. (Obeys(x, l) => Obeys(Dequeue(x, r), l)) /\ (Obeys(x, l) => Obeys(Expire(x, r), l))
  <2> DEFINE d == [x EXCEPT !.queue = Without(@, r)]
             e == [x EXCEPT !.queue = Without(@, r), !.rejected = @ + 1, !.timeouts = @ + 1]
  <2>1. Dequeue(x, r) = Reclaim(d) /\ Expire(x, r) = Reclaim(e)
    BY DEF Dequeue, Expire
  <2>2. \A y \in {d, e} :
          /\ y.present = x.present /\ y.retired = x.retired
          /\ y.maximum_active = x.maximum_active /\ y.maximum_queue = x.maximum_queue
    BY DEF SiteState
  <2> HIDE DEF d, e
  <2> QED  BY <1>1, <2>1, <2>2
<1> QED  BY <1>2, <1>3

\* async_acquire and update_limits write the limits they are given.
LEMMA EntryWritten ==
  ASSUME NEW x \in SiteState, NEW l \in Limits, NEW r
  PROVE  LET y == Promote(WithLimits(x, l))
         IN  Obeys(y, l) /\ Obeys(Admit(y, r), l)
<1> DEFINE w == WithLimits(x, l)
           y == Promote(w)
<1>1. l # NotConfigured /\ l = <<l[1], l[2]>>
  BY LimitsAreConfigured
<1>2. w.maximum_active = l[1] /\ w.maximum_queue = l[2] /\ w.retired = FALSE /\ w \in SiteState
  BY LimitsType DEF WithLimits, SiteState
<1> HIDE DEF w
<1>3. y.maximum_active = l[1] /\ y.maximum_queue = l[2] /\ y.retired = FALSE
  BY <1>2 DEF Promote, SiteState
<1>4. /\ "active" \in DOMAIN y /\ "rejected" \in DOMAIN y /\ "queue" \in DOMAIN y
  BY <1>2 DEF Promote, SiteState
<1> HIDE DEF y
<1>5. LET z == Admit(y, r)
      IN  z.maximum_active = l[1] /\ z.maximum_queue = l[2] /\ z.retired = FALSE
  BY <1>3 DEF Admit
<1>6. Obeys(y, l)
  BY <1>1, <1>3 DEF Obeys
<1>7. Obeys(Admit(y, r), l)
  BY <1>1, <1>5 DEF Obeys
<1> QED  BY <1>6, <1>7 DEF y, w

\* Every step of the system is a step of the limiter, with limits it allows, or leaves
\* the limiter alone.
LEMMA LimiterSteps == ReloadTypeOK /\ [ReloadNext]_allVars => [Next]_vars
<1> SUFFICES ASSUME ReloadTypeOK, [ReloadNext]_allVars PROVE [Next]_vars
  OBVIOUS
<1>1. ASSUME NEW r \in Requests, AcquireLoaded(r) PROVE Next
  <2>1. loaded[r] \in Limits
    BY <1>1 DEF AcquireLoaded, ReloadTypeOK
  <2> QED  BY <1>1, <2>1 DEF AcquireLoaded, Next
<1>2. ASSUME NEW s \in Sites, CommitLimits(s) PROVE [Next]_vars
  <2>1. target[s] \in Limits
    BY <1>2, ConfiguredLimits DEF CommitLimits, ReloadTypeOK
  <2> QED  BY <1>2, <2>1 DEF CommitLimits, Next
<1>3. CASE CommitRetain
  <2>1. Configured(target) \in SUBSET Sites
    BY DEF Configured
  <2> QED  BY <1>3, <2>1 DEF CommitRetain, Next
<1>4. CASE LimiterStep
  BY <1>4 DEF LimiterStep, Next
<1>5. CASE (\E r \in Requests : LoadSnapshot(r)) \/ (\E c \in Configs : PrepareReload(c))
           \/ CommitPublish \/ UNCHANGED allVars
  BY <1>5 DEF LoadSnapshot, PrepareReload, CommitPublish, allVars
<1> QED  BY <1>1, <1>2, <1>3, <1>4, <1>5 DEF ReloadNext

-----------------------------------------------------------------------------
(* The invariant                                                           *)

\* Nothing is in progress at first, and no site has an entry.
LEMMA ReloadInvInit == ReloadInit => ReloadInv
<1> SUFFICES ASSUME ReloadInit PROVE ReloadInv
  OBVIOUS
<1>1. TypeOK
  BY TypeInit DEF ReloadInit
<1>2. ReloadTypeOK
  BY DEF ReloadInit, ReloadTypeOK
<1>3. InForceUsed
  BY DEF ReloadInit, Init, InForceUsed, Obeys, NoSite
<1> QED  BY <1>1, <1>2, <1>3 DEF ReloadInv

\* The snapshots and the commit keep their types.
LEMMA ReloadTypeStep == ReloadTypeOK /\ [ReloadNext]_allVars => ReloadTypeOK'
<1> SUFFICES ASSUME ReloadTypeOK, [ReloadNext]_allVars PROVE ReloadTypeOK'
  OBVIOUS
<1>1. ASSUME NEW r \in Requests, LoadSnapshot(r) PROVE ReloadTypeOK'
  <2>1. published[SiteOf[r]] \in Limits
    BY <1>1, SiteOfType, ConfiguredLimits DEF LoadSnapshot, ReloadTypeOK
  <2> QED  BY <1>1, <2>1 DEF LoadSnapshot, ReloadTypeOK, Configured
<1>2. ASSUME NEW r \in Requests, AcquireLoaded(r) PROVE ReloadTypeOK'
  BY <1>2 DEF AcquireLoaded, ReloadTypeOK, Configured
<1>3. ASSUME NEW c \in Configs, PrepareReload(c) PROVE ReloadTypeOK'
  BY <1>3 DEF PrepareReload, ReloadTypeOK, Configured
<1>4. ASSUME NEW s \in Sites, CommitLimits(s) PROVE ReloadTypeOK'
  BY <1>4 DEF CommitLimits, ReloadTypeOK, Configured
<1>5. CASE CommitRetain
  BY <1>5 DEF CommitRetain, ReloadTypeOK, Configured
<1>6. CASE CommitPublish
  BY <1>6 DEF CommitPublish, ReloadTypeOK, Configured
<1>7. CASE LimiterStep \/ UNCHANGED allVars
  BY <1>7 DEF LimiterStep, allVars, reloadVars, ReloadTypeOK, Configured
<1> QED  BY <1>1, <1>2, <1>3, <1>4, <1>5, <1>6, <1>7 DEF ReloadNext

\* Every step leaves the sites that are not stale with the limits in force.
LEMMA InForceStep == ReloadInv /\ [ReloadNext]_allVars => InForceUsed'
<1> SUFFICES ASSUME ReloadInv, [ReloadNext]_allVars, NEW s \in Sites \ stale'
             PROVE  Obeys(site'[s], InForce(s)')
  BY DEF InForceUsed
<1>0. /\ site \in [Sites -> SiteState] /\ site[s] \in SiteState /\ ReloadTypeOK /\ s \in Sites
      /\ (s \notin stale => Obeys(site[s], InForce(s)))
  BY DEF ReloadInv, TypeOK, InForceUsed
<1>1. ASSUME NEW r \in Requests, LoadSnapshot(r) PROVE Obeys(site'[s], InForce(s)')
  BY <1>0, <1>1 DEF LoadSnapshot, InForce, Configured, vars
<1>2. ASSUME NEW r \in Requests, AcquireLoaded(r) PROVE Obeys(site'[s], InForce(s)')
  <2> DEFINE u == SiteOf[r]
  <2>1. /\ u \in Sites /\ loaded[r] \in Limits /\ InForce(s)' = InForce(s)
        /\ site[u] \in SiteState
    BY <1>0, <1>2, SiteOfType DEF AcquireLoaded, ReloadTypeOK, InForce, Configured
  <2>2. site' = [site EXCEPT ![u] = Admit(Promote(WithLimits(site[u], loaded[r])), r)]
    BY <1>2 DEF AcquireLoaded, AsyncAcquire
  <2>3. CASE s # u
    BY <1>0, <1>2, <2>1, <2>2, <2>3 DEF AcquireLoaded
  <2>4. CASE s = u
    <3>1. loaded[r] = InForce(s)
      BY <1>0, <1>2, <2>4 DEF AcquireLoaded
    <3>2. Obeys(site'[s], loaded[r])
      BY <1>0, <2>1, <2>2, <2>4, EntryWritten
    <3> QED  BY <2>1, <3>1, <3>2
  <2> QED  BY <2>3, <2>4
<1>3. ASSUME NEW c \in Configs, PrepareReload(c) PROVE Obeys(site'[s], InForce(s)')
  BY <1>0, <1>3 DEF PrepareReload, InForce, Configured, vars
<1>4. ASSUME NEW u \in Sites, CommitLimits(u) PROVE Obeys(site'[s], InForce(s)')
  <2>1. /\ target[u] \in Limits /\ site[u] \in SiteState /\ u \in Configured(target)
        /\ target[u] # NotConfigured
    BY <1>0, <1>4, ConfiguredLimits DEF CommitLimits, ReloadTypeOK
  <2>2. CASE s = u
    <3>1. InForce(s)' = target[s]
      BY <1>0, <1>4, <2>1, <2>2 DEF CommitLimits, InForce, Configured
    <3>2. CASE site[u].present
      <4>1. site' = [site EXCEPT ![u] = Promote(WithLimits(site[u], target[u]))]
        BY <1>4, <3>2 DEF CommitLimits, UpdateLimits
      <4> QED  BY <1>0, <2>1, <2>2, <3>1, <4>1, EntryWritten
    <3>3. CASE ~site[u].present
      <4>1. site' = site
        BY <1>4, <3>3 DEF CommitLimits, vars
      <4> QED  BY <2>2, <3>3, <4>1 DEF Obeys
    <3> QED  BY <3>2, <3>3
  <2>3. CASE s # u
    <3>1. site'[s] = site[s]
      BY <1>0, <1>4, <2>3 DEF CommitLimits, UpdateLimits, vars
    <3>2. InForce(s)' = InForce(s) /\ s \notin stale
      BY <1>0, <1>4, <2>3 DEF CommitLimits, InForce, Configured
    <3> QED  BY <1>0, <3>1, <3>2
  <2> QED  BY <2>2, <2>3
<1>5. CASE CommitRetain
  <2>1. InForce(s)' = target[s] /\ todo = {} /\ commit = "limits"
    BY <1>5 DEF CommitRetain, InForce
  <2>2. site'[s] = IF site[s].present /\ s \notin Configured(target)
                   THEN Reclaim([site[s] EXCEPT !.retired = TRUE]) ELSE site[s]
    BY <1>0, <1>5 DEF CommitRetain, RetainSites
  <2>3. CASE s \in Configured(target)
    <3>1. s \notin stale /\ InForce(s) = target[s]
      BY <1>0, <1>5, <2>1, <2>3 DEF CommitRetain, InForce
    <3> QED  BY <1>0, <2>1, <2>2, <2>3, <3>1
  <2>4. CASE s \notin Configured(target)
    <3>1. target[s] = NotConfigured
      BY <1>0, <2>4 DEF Configured
    <3>2. [site[s] EXCEPT !.retired = TRUE].retired = TRUE
      BY <1>0 DEF SiteState
    <3> QED  BY <2>1, <2>2, <2>4, <3>1, <3>2 DEF Obeys, Reclaim, NoSite
  <2> QED  BY <2>3, <2>4
<1>6. CASE CommitPublish
  BY <1>0, <1>6 DEF CommitPublish, InForce, vars
<1>7. CASE LimiterStep
  <2>1. InForce(s)' = InForce(s) /\ s \notin stale
    BY <1>0, <1>7 DEF LimiterStep, reloadVars, InForce, Configured
  <2>2. PICK r \in Requests :
          \/ HandOff(r) \/ (\E result \in Results : RunHandler(r, result))
          \/ (\E built \in BOOLEAN : HandOffThrows(r, built))
          \/ (\E controlBlock \in BOOLEAN : AllocationFails(r, controlBlock))
          \/ Release(r) \/ CancelPending(r) \/ TimerExpires(r) \/ TimeoutPending(r)
          \/ TimeoutThrows(r)
    BY <1>7 DEF LimiterStep
  <2>3. \/ site' = site
        \/ site' = [site EXCEPT ![SiteOf[r]] = ReleaseSite(@)]
        \/ site' = [site EXCEPT ![SiteOf[r]] = ReleaseSite(ReleaseSite(@))]
        \/ site' = [site EXCEPT ![SiteOf[r]] = Dequeue(@, r)]
        \/ site' = [site EXCEPT ![SiteOf[r]] = Expire(@, r)]
    <3>1. ASSUME NEW controlBlock \in BOOLEAN, AllocationFails(r, controlBlock)
          PROVE  \/ site' = [site EXCEPT ![SiteOf[r]] = ReleaseSite(@)]
                 \/ site' = [site EXCEPT ![SiteOf[r]] = ReleaseSite(ReleaseSite(@))]
      BY <3>1 DEF AllocationFails
    <3> QED
      BY <2>2, <3>1 DEF HandOff, HandOffThrows, RunHandler, Release, CancelPending,
                        TimerExpires, TimeoutPending, TimeoutThrows
  <2>4. site'[s] \in {site[s], ReleaseSite(site[s]), ReleaseSite(ReleaseSite(site[s])),
                      Dequeue(site[s], r), Expire(site[s], r)}
    BY <1>0, <2>3
  <2>5. ReleaseSite(site[s]) \in SiteState
    BY <1>0, ReleaseType
  <2> QED  BY <1>0, <2>1, <2>4, <2>5, EntryKept
<1>8. CASE UNCHANGED allVars
  BY <1>0, <1>8 DEF allVars, vars, reloadVars, InForce, Configured
<1> QED  BY <1>1, <1>2, <1>3, <1>4, <1>5, <1>6, <1>7, <1>8 DEF ReloadNext

\* The invariant of the limiter under reload.
THEOREM ReloadInvHolds == ReloadSpec => []ReloadInv
<1>1. ReloadInv /\ [ReloadNext]_allVars => ReloadInv'
  BY LimiterSteps, TypeStep, ReloadTypeStep, InForceStep DEF ReloadInv
<1> QED  BY <1>1, ReloadInvInit, PTL DEF ReloadSpec

\* Under hot reload, whatever snapshots requests carry, the limiter keeps its own
\* specification: the theorems about it hold in the running server.
THEOREM ReloadKeepsLimiter == ReloadSpec => Spec
<1>1. ReloadInit => Init
  BY DEF ReloadInit
<1>2. ReloadInv /\ [ReloadNext]_allVars => [Next]_vars
  BY LimiterSteps DEF ReloadInv
<1> QED  BY <1>1, <1>2, ReloadInvHolds, PTL DEF ReloadSpec, Spec

\* After the commit of a reload every site runs with the published limits or is
\* retired, unless a request with a replaced snapshot has written its own.
THEOREM CommitTakesHoldHolds == ReloadSpec => []CommitTakesHold
<1>1. ReloadInv => CommitTakesHold
  <2> SUFFICES ASSUME ReloadInv, commit = "idle", NEW s \in Sites \ stale, site[s].present
               PROVE  IF s \in Configured(published)
                      THEN /\ <<site[s].maximum_active, site[s].maximum_queue>> = published[s]
                           /\ ~site[s].retired
                      ELSE site[s].retired
    BY DEF CommitTakesHold
  <2>1. InForce(s) = published[s]
    BY DEF InForce
  <2>2. Obeys(site[s], published[s])
    BY <2>1 DEF ReloadInv, InForceUsed
  <2> QED  BY <2>2 DEF Obeys, Configured
<1> QED  BY <1>1, ReloadInvHolds, PTL

\* The slots the limiter counts are those that permits and posted handlers hold, and
\* nobody waits beside a free slot, also while limits change under the requests.
THEOREM SafeUnderReload == ReloadSpec => [](SlotsExact /\ WorkConserving)
<1>1. IInv => SlotsExact /\ WorkConserving
  BY DEF IInv
<1> QED  BY <1>1, ReloadKeepsLimiter, IInvHolds, PTL

=============================================================================
