---------------------- MODULE BackendConcurrencyLimiter ----------------------
(***************************************************************************)
(* src/src/proxy/BackendConcurrencyLimiter.cpp: the process-wide limiter   *)
(* that bounds, per site, the backend requests in progress and queues the  *)
(* rest first-in first-out with a timeout.                                 *)
(*                                                                         *)
(* Every public operation takes the limiter's mutex once, changes the map  *)
(* of sites, releases the mutex and only then cancels timers, builds       *)
(* permits and posts handlers.  The critical section is one action here;   *)
(* what follows the unlock is a separate action of the same thread         *)
(* (HandOff, RunHandler), because other threads run in between, and may    *)
(* throw: release() catches that, async_acquire, update_limits and         *)
(* timeout_pending do not.                                                 *)
(*                                                                         *)
(* A waiter's `completed` flag is only ever flipped inside the mutex       *)
(* together with the removal of the waiter from its queue, so "completed"  *)
(* is "called and not in the queue" and needs no variable.                 *)
(***************************************************************************)
EXTENDS Integers, Sequences, FiniteSets, Functions

CONSTANTS
  Sites,            \* site ids
  Requests,         \* calls of async_acquire; each is made at most once
  SiteOf,           \* the site a request is routed to
  Limits,           \* <<maximum_active, maximum_queue>> pairs of the snapshots
  MaxAllocFailures  \* bound: allocations that fail after an unlock

ASSUME RequestsFinite == IsFiniteSet(Requests)
ASSUME SiteOfType == SiteOf \in [Requests -> Sites]
\* ConfigService.cpp:949 refuses a site whose maximum_active is 0.
ASSUME LimitsType == Limits \subseteq (Nat \ {0}) \X Nat
ASSUME FailuresType == MaxAllocFailures \in Nat

Results == {"granted", "queue_full", "queue_timeout"}
TimerStates == {"none", "armed", "expired", "off"}

SiteState ==
  [ present: BOOLEAN, active: Nat, maximum_active: Nat, maximum_queue: Nat,
    rejected: Nat, timeouts: Nat, queue: Seq(Requests), retired: BOOLEAN ]

VARIABLES
  site,      \* Impl::sites; an absent key is NoSite
  timer,     \* Pending::State::timer of each request
  handler,   \* requests whose Pending::State::handler is set
  promoted,  \* slot counted in `active` by async_acquire or update_limits,
             \* hand-off after the unlock still to come
  refusing,  \* callers of async_acquire whose queue_full is still to be posted
  behind,    \* whom the loop that hands over to a request comes to after it
  next,      \* the same, for the waiter release() took over a slot for
  posts,     \* <<request, result>> handlers posted to an executor, not yet run
  holding,   \* requests whose handler received the Permit and keeps it
  called,    \* requests that have called async_acquire
  answers,   \* history: the results each request's handler was called with
  cleared,   \* history: clear() has run
  failures,  \* allocation failures so far (bounded by MaxAllocFailures)
  leaked,    \* history: requests whose slot has no permit to give it back
  lost,      \* history: waiters whose handler nobody will call
  doubled    \* history: a failed control block released a slot twice

vars == << site, timer, handler, promoted, refusing, behind, next, posts, holding, called,
           answers, cleared, failures, leaked, lost, doubled >>

-----------------------------------------------------------------------------
(* The critical sections, as functions of one site's state.                *)

\* What operator[] default-constructs: an absent key and a fresh one agree.
NoSite ==
  [ present |-> FALSE, active |-> 0, maximum_active |-> 0, maximum_queue |-> 0,
    rejected |-> 0, timeouts |-> 0, queue |-> << >>, retired |-> FALSE ]

\* A retired site is erased with its last permit or waiter.
Reclaim(x) ==
  IF x.retired /\ x.active = 0 /\ x.queue = << >> THEN NoSite ELSE x

\* Mutant: the promotion loop leaves the last slot free.
PromotionCountOneShort(x) ==
  LET free == IF x.active + 1 < x.maximum_active THEN x.maximum_active - x.active - 1 ELSE 0
  IN  IF free <= Len(x.queue) THEN free ELSE Len(x.queue)

\* How many waiters the promotion loops of async_acquire and update_limits pop.
PromotionCount(x) ==
  LET free == IF x.active < x.maximum_active THEN x.maximum_active - x.active ELSE 0
  IN  IF free <= Len(x.queue) THEN free ELSE Len(x.queue)

PromotedOf(x) == {x.queue[i] : i \in 1 .. PromotionCount(x)}

\* The waiters that the loop over `promoted` comes to after p.
PromotedAfter(x, p) ==
  {x.queue[j] : j \in {k \in 1 .. PromotionCount(x) : \E i \in 1 .. k - 1 : x.queue[i] = p}}

Promote(x) ==
  [x EXCEPT !.active = @ + PromotionCount(x),
            !.queue = SubSeq(@, PromotionCount(x) + 1, Len(@))]

\* The snapshot's limits, as a call writes them over whatever the site had.
WithLimits(x, l) ==
  [x EXCEPT !.present = TRUE, !.retired = FALSE,
            !.maximum_active = l[1], !.maximum_queue = l[2]]

\* Mutant: <= for < in the capacity test.
CanEnterOneMore(y) == y.queue = << >> /\ y.active <= y.maximum_active

\* async_acquire's decision about its caller, after the promotions.
CanEnter(y) == y.queue = << >> /\ y.active < y.maximum_active
QueueFull(y) == ~CanEnter(y) /\ Len(y.queue) >= y.maximum_queue
\* Mutant: the caller is queued at the front.
AdmitInFront(y, r) ==
  IF CanEnter(y) THEN [y EXCEPT !.active = @ + 1]
  ELSE IF QueueFull(y) THEN [y EXCEPT !.rejected = @ + 1]
  ELSE [y EXCEPT !.queue = <<r>> \o @]

Admit(y, r) ==
  IF CanEnter(y) THEN [y EXCEPT !.active = @ + 1]
  ELSE IF QueueFull(y) THEN [y EXCEPT !.rejected = @ + 1]
  ELSE [y EXCEPT !.queue = Append(@, r)]

\* Mutant: a slot that nobody waits for is never given back.
ReleaseSiteKeeps(x) ==
  IF x.present /\ x.queue # << >> THEN [x EXCEPT !.queue = Tail(@)] ELSE x

\* release(): shrink towards a lowered limit, or hand the slot to the oldest
\* waiter, or give it back.
ReleaseSite(x) ==
  IF ~x.present THEN x
  ELSE IF x.active > x.maximum_active THEN Reclaim([x EXCEPT !.active = @ - 1])
  ELSE IF x.queue # << >> THEN [x EXCEPT !.queue = Tail(@)]
  ELSE Reclaim([x EXCEPT !.active = IF @ # 0 THEN @ - 1 ELSE 0])

ReleaseNext(x) ==
  IF x.present /\ x.active <= x.maximum_active /\ x.queue # << >>
  THEN {Head(x.queue)} ELSE {}

\* queue.erase(waiter), by position: a waiter is in its queue at most once.
Without(q, r) ==
  LET i == CHOOSE j \in DOMAIN q : q[j] = r
  IN  SubSeq(q, 1, i - 1) \o SubSeq(q, i + 1, Len(q))

\* What cancel_pending and timeout_pending do to the site of a queued waiter.
Dequeue(x, r) == Reclaim([x EXCEPT !.queue = Without(@, r)])
Expire(x, r) ==
  Reclaim([x EXCEPT !.queue = Without(@, r), !.rejected = @ + 1, !.timeouts = @ + 1])

Queued(r) == r \in Range(site[SiteOf[r]].queue)

\* timer->cancel(): too late for a wait that has already expired.
Disarm(t) == IF t = "armed" THEN "off" ELSE t

-----------------------------------------------------------------------------
Init ==
  /\ site = [s \in Sites |-> NoSite]
  /\ timer = [r \in Requests |-> "none"]
  /\ handler = {}
  /\ promoted = {}
  /\ refusing = {}
  /\ behind = [r \in Requests |-> {}]
  /\ next = {}
  /\ posts = {}
  /\ holding = {}
  /\ called = {}
  /\ answers = [r \in Requests |-> << >>]
  /\ cleared = FALSE
  /\ failures = 0
  /\ leaked = {}
  /\ lost = {}
  /\ doubled = FALSE

\* async_acquire: create or refresh the site, promote old waiters first, then
\* grant, refuse or queue the caller.  A caller that is not queued is served last.
AsyncAcquire(r, l) ==
  LET s == SiteOf[r]
      x == WithLimits(site[s], l)
      y == Promote(x)
  IN
  /\ r \notin called
  /\ called' = called \cup {r}
  /\ handler' = handler \cup {r}
  /\ site' = [site EXCEPT ![s] = Admit(y, r)]
  /\ promoted' = promoted \cup PromotedOf(x) \cup (IF CanEnter(y) THEN {r} ELSE {})
  /\ refusing' = IF QueueFull(y) THEN refusing \cup {r} ELSE refusing
  /\ behind' = [p \in Requests |->
       IF p \notin PromotedOf(x) THEN behind[p]
       ELSE PromotedAfter(x, p) \cup (IF CanEnter(y) \/ QueueFull(y) THEN {r} ELSE {})]
  /\ timer' = [timer EXCEPT ![r] = IF CanEnter(y) \/ QueueFull(y) THEN "none" ELSE "armed"]
  /\ UNCHANGED << next, posts, holding, answers, cleared, failures, leaked, lost, doubled >>

\* A thread that is past its unlock serves one request after the other.
Served(r) ==
  /\ r \in promoted \cup refusing \cup next
  /\ \A p \in promoted : r \notin behind[p]

\* After the unlock: cancel the waiter's timer, build its permit, post its
\* handler.  The same for the promoted waiters, for a caller that gets its answer
\* at once, and for release()'s `next`.
HandOff(r) ==
  /\ Served(r)
  /\ promoted' = promoted \ {r}
  /\ refusing' = refusing \ {r}
  /\ next' = next \ {r}
  /\ behind' = [behind EXCEPT ![r] = {}]
  /\ timer' = [timer EXCEPT ![r] = Disarm(@)]
  /\ posts' = posts \cup {<<r, IF r \in refusing THEN "queue_full" ELSE "granted">>}
  /\ UNCHANGED << site, handler, holding, called, answers, cleared, failures, leaked, lost,
                  doubled >>

\* The same throws in async_acquire or update_limits, and ends the loop: the waiters
\* it did not come to are neither answered nor queued, and their slots have no
\* permit.  The slot of r comes back if its permit was `built`: the control block or
\* the post has failed and the permit is destroyed.  A caller learns of the exception,
\* and its State dies with the call.
HandOffThrows(r, built) ==
  LET s == SiteOf[r]
      gone == ({r} \cup behind[r]) \cap (promoted \cup refusing)
      back == built /\ r \in promoted
  IN
  /\ r \notin next /\ Served(r)
  /\ failures < MaxAllocFailures
  /\ failures' = failures + 1
  /\ promoted' = promoted \ gone
  /\ refusing' = refusing \ gone
  /\ behind' = [behind EXCEPT ![r] = {}]
  /\ timer' = [timer EXCEPT ![r] = Disarm(@)]
  /\ leaked' = leaked \cup ((promoted \cap gone) \ (IF back THEN {r} ELSE {}))
  /\ lost' = lost \cup {p \in gone : timer[p] # "none"}
  /\ handler' = {p \in handler : p \notin gone \/ timer[p] # "none"}
  /\ site' = IF back THEN [site EXCEPT ![s] = ReleaseSite(@)] ELSE site
  /\ next' = IF back THEN next \cup ReleaseNext(site[s]) ELSE next
  /\ UNCHANGED << posts, holding, called, answers, cleared, doubled >>

\* release()'s catch around the permit's allocation: the waiter is told
\* queue_full on the spot and the slot is released once more.  `new Permit`
\* failing leaves no permit; the shared_ptr's control block failing destroys
\* one, whose destructor has then already released the slot.
AllocationFails(r, controlBlock) ==
  LET s == SiteOf[r]
      once == ReleaseSite(site[s])
  IN
  /\ r \in next
  /\ failures < MaxAllocFailures
  /\ failures' = failures + 1
  /\ timer' = [timer EXCEPT ![r] = Disarm(@)]
  /\ answers' = IF r \in handler
                THEN [answers EXCEPT ![r] = Append(@, "queue_full")] ELSE answers
  /\ handler' = handler \ {r}
  /\ site' = [site EXCEPT ![s] = IF controlBlock THEN ReleaseSite(once) ELSE once]
  /\ next' = (next \ {r}) \cup ReleaseNext(site[s])
               \cup (IF controlBlock THEN ReleaseNext(once) ELSE {})
  /\ doubled' = (doubled \/ controlBlock)
  /\ UNCHANGED << promoted, refusing, behind, posts, holding, called, cleared, leaked, lost >>

UnchangedHandOffs == UNCHANGED << promoted, refusing, behind, failures, leaked, lost >>

\* A posted handler runs on the request's executor; a granted one receives the
\* permit and keeps it until it destroys it (Release).
RunHandler(r, result) ==
  /\ <<r, result>> \in posts
  /\ posts' = posts \ {<<r, result>>}
  /\ answers' = IF r \in handler
                THEN [answers EXCEPT ![r] = Append(@, result)] ELSE answers
  /\ handler' = handler \ {r}
  /\ holding' = IF result = "granted" THEN holding \cup {r} ELSE holding
  /\ UNCHANGED << site, timer, next, called, cleared, doubled >> /\ UnchangedHandOffs

\* ~Permit.
Release(r) ==
  LET s == SiteOf[r] IN
  /\ r \in holding
  /\ holding' = holding \ {r}
  /\ site' = [site EXCEPT ![s] = ReleaseSite(@)]
  /\ next' = next \cup ReleaseNext(site[s])
  /\ UNCHANGED << timer, handler, posts, called, answers, cleared, doubled >>
  /\ UnchangedHandOffs

\* Pending::cancel: nothing happens to a request that already left the queue.
CancelPending(r) ==
  LET s == SiteOf[r] IN
  /\ Queued(r)
  /\ site' = [site EXCEPT ![s] = Dequeue(@, r)]
  /\ timer' = [timer EXCEPT ![r] = Disarm(@)]
  /\ handler' = handler \ {r}
  /\ UNCHANGED << next, posts, holding, called, answers, cleared, doubled >>
  /\ UnchangedHandOffs

\* The wait ends with success; from here on cancelling the timer is too late.
TimerExpires(r) ==
  /\ timer[r] = "armed"
  /\ timer' = [timer EXCEPT ![r] = "expired"]
  /\ UNCHANGED << site, handler, next, posts, holding, called, answers, cleared, doubled >>
  /\ UnchangedHandOffs

\* Mutants: the timer's handler answers a waiter that is gone already; it removes
\* the waiter without answering it.
TimeoutRegardless(r) ==
  LET s == SiteOf[r] IN
  /\ timer[r] = "expired"
  /\ timer' = [timer EXCEPT ![r] = "off"]
  /\ site' = IF Queued(r) THEN [site EXCEPT ![s] = Expire(@, r)] ELSE site
  /\ posts' = posts \cup {<<r, "queue_timeout">>}
  /\ UNCHANGED << handler, next, holding, called, answers, cleared, doubled >>
  /\ UnchangedHandOffs

TimeoutUnanswered(r) ==
  LET s == SiteOf[r] IN
  /\ timer[r] = "expired"
  /\ timer' = [timer EXCEPT ![r] = "off"]
  /\ site' = IF Queued(r) THEN [site EXCEPT ![s] = Expire(@, r)] ELSE site
  /\ UNCHANGED << handler, next, posts, holding, called, answers, cleared, doubled >>
  /\ UnchangedHandOffs

\* The timer's completion handler; it loses against whoever removed the waiter.
TimeoutPending(r) ==
  LET s == SiteOf[r] IN
  /\ timer[r] = "expired"
  /\ timer' = [timer EXCEPT ![r] = "off"]
  /\ site' = IF Queued(r) THEN [site EXCEPT ![s] = Expire(@, r)] ELSE site
  /\ posts' = IF Queued(r) THEN posts \cup {<<r, "queue_timeout">>} ELSE posts
  /\ UNCHANGED << handler, next, holding, called, answers, cleared, doubled >>
  /\ UnchangedHandOffs

\* Its post throws: the waiter has left the queue, and nobody answers it.
TimeoutThrows(r) ==
  LET s == SiteOf[r] IN
  /\ timer[r] = "expired" /\ Queued(r)
  /\ failures < MaxAllocFailures
  /\ failures' = failures + 1
  /\ timer' = [timer EXCEPT ![r] = "off"]
  /\ site' = [site EXCEPT ![s] = Expire(@, r)]
  /\ lost' = lost \cup {r}
  /\ UNCHANGED << handler, promoted, refusing, behind, next, posts, holding, called, answers,
                  cleared, leaked, doubled >>

\* update_limits: a configuration commit; ignores a site without state.
UpdateLimits(s, l) ==
  LET x == WithLimits(site[s], l) IN
  /\ site[s].present
  /\ site' = [site EXCEPT ![s] = Promote(x)]
  /\ promoted' = promoted \cup PromotedOf(x)
  /\ behind' = [p \in Requests |->
                  IF p \in PromotedOf(x) THEN PromotedAfter(x, p) ELSE behind[p]]
  /\ UNCHANGED << timer, handler, refusing, next, posts, holding, called, answers, cleared,
                  failures, leaked, lost, doubled >>

\* retain_sites: sites that are gone from the configuration are retired.
RetainSites(ids) ==
  /\ site' = [s \in Sites |->
                IF site[s].present /\ s \notin ids
                THEN Reclaim([site[s] EXCEPT !.retired = TRUE]) ELSE site[s]]
  /\ UNCHANGED << timer, handler, next, posts, holding, called, answers, cleared, doubled >>
  /\ UnchangedHandOffs

\* clear: every waiter is dropped without an answer, every count forgotten.
Clear ==
  /\ ~cleared
  /\ cleared' = TRUE
  /\ site' = [s \in Sites |-> NoSite]
  /\ timer' = [r \in Requests |-> IF Queued(r) THEN Disarm(timer[r]) ELSE timer[r]]
  /\ handler' = {r \in handler : ~Queued(r)}
  /\ UNCHANGED << next, posts, holding, called, answers, doubled >> /\ UnchangedHandOffs

Next ==
  \/ \E r \in Requests :
       \/ \E l \in Limits : AsyncAcquire(r, l)
       \/ HandOff(r)
       \/ \E built \in BOOLEAN : HandOffThrows(r, built)
       \/ \E controlBlock \in BOOLEAN : AllocationFails(r, controlBlock)
       \/ \E result \in Results : RunHandler(r, result)
       \/ Release(r)
       \/ CancelPending(r)
       \/ TimerExpires(r)
       \/ TimeoutPending(r)
       \/ TimeoutThrows(r)
  \/ \E s \in Sites, l \in Limits : UpdateLimits(s, l)
  \/ \E ids \in SUBSET Sites : RetainSites(ids)
  \/ Clear

Spec == Init /\ [][Next]_vars

\* The io_context threads keep running: expired timers fire, hand-offs after an
\* unlock finish, posted handlers run.  Nothing is assumed of cancel, release,
\* reloads or new requests.
Fairness ==
  \A r \in Requests :
    /\ WF_vars(HandOff(r))
    /\ WF_vars(\E result \in Results : RunHandler(r, result))
    /\ WF_vars(TimerExpires(r))
    /\ WF_vars(TimeoutPending(r))

-----------------------------------------------------------------------------
(* Properties                                                              *)

\* Requests of site s that occupy a backend slot: it is on its way to them, or they
\* hold it, or it went with a hand-off that threw.
Slots(s) ==
  {r \in Requests : SiteOf[r] = s /\ (r \in promoted \/ r \in next \/ r \in leaked
                      \/ <<r, "granted">> \in posts \/ r \in holding)}

\* Every variable has its type.
TypeOK ==
  /\ site \in [Sites -> SiteState]
  /\ timer \in [Requests -> TimerStates]
  /\ handler \subseteq Requests
  /\ promoted \subseteq Requests
  /\ refusing \subseteq Requests
  /\ behind \in [Requests -> SUBSET Requests]
  /\ next \subseteq Requests
  /\ posts \subseteq Requests \X Results
  /\ holding \subseteq Requests
  /\ called \subseteq Requests
  /\ answers \in [Requests -> Seq(Results)]
  /\ cleared \in BOOLEAN
  /\ failures \in Nat
  /\ leaked \subseteq Requests
  /\ lost \subseteq Requests
  /\ doubled \in BOOLEAN

\* No waiter waits while its site has a free slot: whatever mixture of raised and
\* lowered limits, releases, timeouts, cancellations and clears came before.
WorkConserving ==
  \A s \in Sites : site[s].queue # << >> => site[s].active >= site[s].maximum_active

\* `active` never counts a slot that nobody has and no throwing hand-off took along.
NoSlotUnaccounted ==
  \A s \in Sites : site[s].active <= Cardinality(Slots(s))

\* Until clear() forgets the counts, `active` is exactly the number of those slots,
\* unless a failed control block in release() gave one back twice.
SlotAccounting ==
  ~cleared /\ ~doubled => \A s \in Sites : site[s].active = Cardinality(Slots(s))

\* The accounting of async_acquire, release, update_limits and clear().  The capacity
\* a site loses for good is exactly what async_acquire and update_limits lose when they
\* throw between counting a slot and building its permit (`leaked`); retirements,
\* limits, clear() and a failure inside release() cost nothing, and what is not lost
\* is counted exactly until clear() or a doubled release.
SlotsExact == NoSlotUnaccounted /\ SlotAccounting

\* BackendConcurrencyLimiter.cpp:218: "an allocation failure cannot permanently consume
\* capacity".  True of release(), and false of async_acquire and update_limits.
CapacityComesBack == leaked = {}

\* The state of a deleted site goes with its last permit or waiter; it is not
\* kept for every site id that ever existed.
NoZombieSite ==
  \A s \in Sites : site[s].present /\ site[s].retired =>
                     site[s].active > 0 \/ site[s].queue # << >>

Places(r) ==
  {p \in {"queue", "promoted", "refusing", "next", "posted", "answered", "dropped"} :
     CASE p = "queue"    -> Queued(r)
       [] p = "promoted" -> r \in promoted
       [] p = "refusing" -> r \in refusing
       [] p = "next"     -> r \in next
       [] p = "posted"   -> \E result \in Results : <<r, result>> \in posts
       [] p = "answered" -> answers[r] # << >>
       [] p = "dropped"  -> r \notin handler /\ answers[r] = << >>}

\* Nobody is answered twice, and nobody is forgotten: after async_acquire a request is
\* at exactly one place on its way to one answer, or was cancelled, or its call threw.
\* Only the waiters of a hand-off or a timeout that threw (`lost`) are nowhere, and
\* nothing that comes later, their timers included, answers them.
ExactlyOneOutcome ==
  \A r \in called :
    Cardinality(Places(r)) = (IF r \in lost THEN 0 ELSE 1) /\ Len(answers[r]) <= 1

\* A queue holds distinct requests of its own site that have no slot yet.
QueueSound ==
  \A s \in Sites :
    LET q == site[s].queue IN
    /\ \A i, j \in DOMAIN q : q[i] = q[j] => i = j
    /\ \A i \in DOMAIN q :
         /\ SiteOf[q[i]] = s
         /\ q[i] \in called
         /\ q[i] \notin promoted /\ q[i] \notin next /\ q[i] \notin holding
         /\ q[i] \notin leaked /\ q[i] \notin refusing
         /\ <<q[i], "granted">> \notin posts

\* The stations of a slot's way to its holder are disjoint.
SlotsApart ==
  /\ \A r \in promoted : r \notin next /\ r \notin holding /\ <<r, "granted">> \notin posts
  /\ \A r \in next : r \notin holding /\ <<r, "granted">> \notin posts
  /\ \A r \in holding : <<r, "granted">> \notin posts
  /\ \A r \in leaked : r \notin promoted /\ r \notin next /\ r \notin holding
                         /\ <<r, "granted">> \notin posts
  /\ \A r \in promoted \cup next \cup holding \cup leaked : r \in called
  /\ \A r \in refusing : r \in called /\ r \notin promoted /\ r \notin next
  /\ \A r \in Requests : <<r, "granted">> \in posts => r \in called

\* A site without an entry has no state; one with an entry admits somebody.
EntrySound ==
  \A s \in Sites : IF site[s].present THEN site[s].maximum_active > 0
                   ELSE site[s].active = 0 /\ site[s].queue = << >>

\* The inductive invariant behind the safety theorems: release() is right about
\* the count only because queued requests have no slot, no request has two, and
\* an absent site has no waiters.
IInv ==
  /\ TypeOK
  /\ QueueSound
  /\ SlotsApart
  /\ EntrySound
  /\ WorkConserving
  /\ NoZombieSite
  /\ SlotsExact

\* First in, first out: when a request gets a slot, no older waiter of its site
\* is left in the queue, and a newcomer queues behind everybody.
FirstInFirstOut ==
  /\ \A r \in (promoted' \cup next') \ (promoted \cup next) :
       LET s == SiteOf[r]
           q == site[s].queue
       IN  \A i \in DOMAIN q :
             q[i] \in Range(site'[s].queue) => \E j \in 1 .. (i - 1) : q[j] = r
  /\ \A s \in Sites :
       LET q == site'[s].queue
       IN  \A i \in DOMAIN q : q[i] \in Range(site[s].queue) \/ i = Len(q)

\* No request overtakes a waiter of its site, in whatever order releases, raised
\* limits, cancellations, timeouts and failed hand-offs empty the queue.
NoOvertaking == [][FirstInFirstOut]_vars

\* Nobody gets a slot in a step that leaves more slots in use than the limit in force.
WithinLimit ==
  \A s \in Sites : Slots(s)' \subseteq Slots(s)
                  \/ Cardinality(Slots(s)') <= site'[s].maximum_active

\* A site over a lowered limit only shrinks, as long as its count is exact: until
\* clear() or a doubled release.
LimitRespected == [][~cleared' /\ ~doubled' => WithinLimit]_vars

\* Every request gets its answer, or is cancelled or dropped by clear(), however
\* long the slots stay taken: the queue's timeout sees to it, unless its own post or
\* the hand-off that overtook it threw.
EventuallyAnswered ==
  \A r \in Requests : r \in called ~> r \notin handler \/ r \in lost

=============================================================================
