# Verification of the reverse proxy: TLA+ models, model checking and proofs

The repository is a Windows reverse proxy in C++20 (Boost.Asio / Beast) with an
administration plane.  This directory models its concurrent core in TLA+, checks
the models with TLC on small instances and proves the central safety properties
with TLAPS for every instance.

## 1. The system

Worker threads run one `io_context`.  Each connection, listener and transaction
lives on a strand, so a handler is atomic with respect to the other handlers of the same
object; handlers of different objects interleave freely, and mutexes guard the process-wide
singletons.

| component | state | operations | talks to |
|---|---|---|---|
| `BackendConcurrencyLimiter` | per site: `active`, FIFO `queue`, limits, `retired`, counters (one mutex) | async_acquire, permit release, cancel, timeout, update_limits, retain_sites, clear | transactions (posted handlers), ServerCore (reload) |
| `BackendConnectionPool` | per key: list of idle connections, `next_expiration_`, reaper thread | acquire, release, clear, reaper loop, destructor | transactions |
| `ProxyTransaction` | permit, backend stream, pending operations, flags, deferred finish | start, cancel, about thirty completion handlers | limiter, pool, session |
| `HttpSession`, `TlsHttpSession` | parser, response, proxy operation, `closing_` | start, stop, read, dispatch, write, close | listener, transaction, dispatcher |
| `HttpListener`, `TlsListener` | acceptor, sessions, `retired`, `stopping`, retry delay | accept, retire, stop, drain | ServerCore, admission, sessions |
| `ConnectionAdmission` | number of connections | try_acquire, permit destructor | listeners |
| `ServerCore` | listener maps, retired listeners, workers, published snapshot | start, prepare_reload/commit, stop, wait | everything above |
| `RuntimeConfigStore` | published snapshot | load, publish | ServerCore, sessions |
| `ConfigService` / `ConfigRepository` | configuration in SQLite, revision | save, delete, import, rollback | ServerCore, AdminApi |
| `LogManager` | bounded queue, writer thread, drop counters, two rotating files | enqueue, writer loop, flush, destructor | everything |
| `AuthService` | admin sessions, failed logins | login, validate, logout | AdminApi |
| `RequestDispatcher` | the request and the snapshot it loaded | start, complete, cancel | router, policy, authenticator; hands over to a transaction |
| `RequestPolicy` | per site: token buckets with bans in an LRU table (one mutex), stateless filters | evaluate | dispatcher, on every worker thread |
| `VirtualHostRouter`, `HostNormalizer`, `ClientIpResolver`, `UrlAuthenticator` | none (pure) | match, normalise, resolve, verify | dispatcher |
| `TlsContextManager` | SNI contexts | load, select | TLS listener |
| `AdminServer` | loopback acceptor, at most 128 sessions, one thread | start, stop, wait, accept, read, write | AdminApi, probes |
| `AdminApi` | none | handle_async | ConfigService, AuthService, ServerCore, BackendProbe |
| `BackendProbe` | socket, timer, `finished_` | start, cancel, completion handlers | admin sessions |
| `Application` | the objects of a process, `active_server`, the stop callback | run_server | everything |
| `WindowsService` | `current_state_`, stop source | execute, control, report | service control manager, Application |

What is hard here: completions of client and backend I/O in any order; cancellation and
timeouts racing late answers; requests that carry an old snapshot across a reload; slots and
connections that must come back on every path; a reaper asleep on a deadline that
others move; failures in the middle of a commit; a clock that is read before the lock it is used
under; a connection whose handshake is older than the configuration its request meets; objects
destroyed while a stop is delivered on another thread.  `PROJECT.json` lists these hazards at their lines.

What makes each component correct: the limiter never invents or over-commits a slot, loses none that
an exception did not take along, and keeps its waiters in order; the pool never shares a connection and never forgets an idle one;
a transaction completes once, only after both sides are quiet, and reuses no connection in the middle of an
exchange; a session closes once and gives its admission permit back; the listeners are those of the
published snapshot and stop ends; the log loses and reorders nothing it accepted; the stored and
the served configuration are the same; a rate limiter admits exactly what its rate allows and keeps its
word to those it refuses; what reaches a backend was routed, authenticated and attributed
to a client soundly; a stop ends the process, whenever it comes, and nothing is used after its destruction.

## 2. Modules

| module | models | how |
|---|---|---|
| `BackendConcurrencyLimiter` | `proxy/BackendConcurrencyLimiter.cpp` | `site` is `Impl::sites`. Each critical section of the mutex is one action (`AsyncAcquire`, `Release`, `CancelPending`, `TimeoutPending`, `UpdateLimits`, `RetainSites`, `Clear`); what follows the unlock is `HandOff` (cancel the timer, build the permit, post), one request after the other (`behind`); if it throws, `AllocationFails` (the catch block of `release()`) or `HandOffThrows` (`async_acquire` and `update_limits`, which have none). `TimeoutThrows` is the same of the timeout's post, and `RunHandler` the posted handler. `leaked` and `lost` record the slots and the waiters that an exception took along. |
| `LimiterReload` | limiter + `ServerCore::prepare_reload` + snapshot loading | EXTENDS the limiter. A request loads the snapshot once and acquires later with the limits it read; the commit is one action per limiter call, publishing last. |
| `ProxyTransaction` | `proxy/ProxyTransaction.hpp` | `tx` is the object, each handler an operator from the object to the object, `Completes(op)` the completion of any operation in flight with any outcome; every handler may also throw (`Thrown`). Undefined behaviour sets `fault`. |
| `BackendConnectionPool` | `proxy/BackendConnectionPool.cpp` | lists per key, `next_expiration`, the reaper's condition variable with pending `notify_one` calls that may come when it does not wait, a clock. |
| `Server` | `core/ServerCore.cpp`, both listeners, `ConnectionAdmission` | one set of definitions for `HttpListener` and `TlsListener`, whose control is the same: the operators on a listener's record are mapped to `HttpListener.cpp`, the handlers to `TlsListener.cpp`. `tasks` is what was dispatched to a listener's strand. Counters are modulo `Modulus`. |
| `Session` | `HttpSession`, `TlsHttpSession` | `tls` tells which; the operators that differ exist twice (`HttpClose`, `TlsClose`). The proxy transaction is seen through its completion, which `ProxyTransaction` justifies (`CompletionQuiesces`). |
| `SessionContract` | what `Server` assumes of a session | abstract specification: idle/busy/closed, one release of the permit, never idle again once stopping, and then closed. `Session` refines it (`KeepsContract`, liveness included). |
| `LogManager` | `logging/LogManager.cpp` | producers, queue, writer thread line by line, rotation one file system call at a time, `flush()` (with which `recent_lines()` begins), destructor, writer's death (`Dies`). A stream has a buffer (`unflushed`) and a badbit: `FlushFails` and `CloseStream` are the two failures the code does not look at, `WriteToBadStream` the write that finds the first one out. A line is the number of its call; 0 is a drop report, or a line of an earlier process. |
| `ConfigService` | `ConfigService.cpp`, `ConfigRepository.cpp`, start-up in `Application.cpp` | `db` is the SQLite file; a save is `Prepare`, `CommitTransaction` or `RollBack`, `Activate`; start-up is one action per transaction; `Crash` may come between any two. |
| `Lists` | loops that filter a list | `Select`, used by the modules below and by `ConfigService`; a recursive function, so that it can be proved about. |
| `VirtualHostRouter` | `VirtualHostRouter.cpp`, name search of `TlsContextManager.cpp` | pure operators; a host is the sequence of its labels. |
| `ClientIpResolver` | `ClientIpResolver.cpp` | pure operators; the walk is a recursive function over the chain. |
| `UrlAuthenticator` | `UrlAuthenticator.cpp` | pure operators; a digest is the tuple it was computed from. |
| `RequestPolicy` | `RequestPolicy.cpp` | the table of a rate limiter as a value and `Check` as a function on it; the filters before and after it in the order of `evaluate`. Tokens are counted in fractions, so that the code's doubles are integers; a tick is some whole milliseconds. |
| `RequestDispatcher` | `RequestDispatcher.cpp` | EXTENDS the four above. `start()` is split where threads overtake each other: `Answer` (refused before the limiter), `ReadClock`, `LockedCheck` or `CheckThrows` (the critical section), `Forward` (the rest, and the hand-over). `DispatchInit`, `DispatchNext`, `DispatchSpec` carry their prefix because `ConfigAndDispatcherProofs` extends `ConfigService` as well. |
| `BackendProbe` | `BackendProbe.cpp` | a probe is a record, each handler an operator on it. |
| `AdminServer` | `AdminServer.cpp`, `AdminApi::handle_async` | EXTENDS the probe. One action per handler of listener and session; `thread` is the one that runs them. |
| `Application` | `run_server`, `ServiceRuntime` | EXTENDS the admin server. `main` is where `run_server` is, `requester` where the thread is that delivers a stop; the callback is three actions, the destructors one each. `core` is `ServerCore` as `Server` shows it: it runs until stop, and then drains. |
| `...Proofs` | | the theorems about the module it is named after, and their proofs (section 5); `ConfigAndDispatcherProofs` is about the two that work on lists, `ConfigService` and `RequestDispatcher`, and `LimiterReload` is treated beside the limiter. |
| `MC...` | | values of the constants for TLC. |

Abstractions worth knowing.  Contents (headers, bodies, log text, PEM data, host syntax) are model
values.  In `ConfigService` the field-by-field validation is what makes a candidate
`Buildable` and a transaction satisfy `Constraints`; a refused save is a stuttering step.
SQLite's atomic and durable transactions, Asio's completions and the clock are external and
modelled from how the code uses them.  Statistics nobody reads back are left out.

## 3. Runs

| run | checks | instance |
|---|---|---|
| `limiter` | `WorkConserving` nobody waits under a free slot; `SlotsExact` the count is the slots handed out and those an exception leaked, no other; `ExactlyOneOutcome` one answer for each request that no exception lost; `NoOvertaking` FIFO; `LimitRespected` | 1 site, 4 interchangeable requests, limits (1 active, 2 queued) and (2, 1), one failed allocation or post after any unlock, one `clear()` |
| `limiter_reload` | `CommitTakesHold` committed limits are in force except where a stale request overwrote them; `EventuallyAnswered` | 2 sites, 3 requests, 2 reloads among 4 configurations that raise, lower, delete and recreate, one failed allocation or post |
| `proxy` | `CompletionQuiesces`, `ReuseSafe`, `OnceEachWay`, `SafeUse`, `StartsNothingMore`, `AlwaysCompletes` | every request profile, no bound: the state space is finite |
| `pool` | `OneOwner`, `IdleEventuallyLeaves` | 3 connections, 2 keys, clock 0..3, time to live 0 or 2, 2 notifications outstanding |
| `server` | `AdmissionExact`, `OpenSessionReachable`, `ListenerNeverDeaf`, `ListenersMatchSnapshot`, `GateHoldsUntilPublished`, `StopEnds`, `DrainedListenerReclaimed` | 2 ports (one HTTPS), 2 connections for 1 admission slot, 1 reload that adds or drops a port, one failed allocation |
| `session` | `TransactionOwnsStream`, `ClosedMeansReleased`, `KeepsContract` (refinement) | one connection of either class, no bound |
| `log` | `AccountingExact`, `FilesInOrder`, `DrainedMeansOnDisk`, `NobodyWaitsForever` | 4 events, queue of 2, files of 2 lines (1 of them old at the start) with 2 predecessors, 1 reader, 2 failures of any kind |
| `config` | `ServedIsStored`, `RestartRequiredAccurate`, `ChangesTraceable`, `StartsAgain` | 2 hosts, 2 certificates, 1 backup, revisions to 6, 2 crashes |
| `dispatch` | `ExactBucket` a client is admitted exactly when its admissions fit rate and burst; `RefusalHonest` Retry-After and bans hold; `TableSound`; `HandedOverSoundly` | 2 threads; 3 interchangeable clients at a limiter with bans or without, a table of 2, 4 checks, a clean-up at the 4th, 8 half-seconds, one failed insertion; 122 single requests through every filter, across a reload |
| `application` | `UsedWhileAlive` nothing is destroyed under another thread; `AnswersOnce` a dashboard request is answered once; `StopEndsProcess` | console and service, 3 admin sessions, 1 of which probes, 2 open at a time; no other bound |
| `proxy_backend_failure`, `pool_deadline` | violated, see section 4 | |

`TypeOK` of each module documents the state; where the module has proofs it is a theorem, and no run spends a
property on it.

Why the bounds are enough to be interesting.  Four requests fill two slots and a queue of two,
or over-fill one slot after a limit was lowered; a failure and a `clear()` may fall anywhere.
Three connections and two keys give one list that is popped while another holds the nearest
deadline.  One admission slot for
two connections makes every refusal happen, and the reload may fall anywhere; that the safety properties
hold through any number of reloads, a draining listener overlapping the next commit, is proved.  Four log events overflow a queue of two while
the writer holds one, rotate the files and find a stream bad that a failed flush left; that no line too many is deleted is also
proved, for any number of rotations.  Six revisions leave
three saves after the seeded start.  Three clients for a table of two make evictions of banned clients, four checks
are enough to empty a bucket, be banned and come back, and two threads put an older reading after a newer one;
the other filters do not share anything, so each of their requests is explored alone.  Two open admin sessions let a walk
over the sessions end before the second and a third connection be refused, with a probe, an API call and a keep-alive connection in
every order.  Deadlock checking is off where the system may stop for good
(all requests answered, the connection closed, a bound reached); `pool` keeps it on, because
a transaction can always connect or let go of a connection, and so does `application`, where only a process
that has ended may stand still.

Fairness.  `EventuallyAnswered`: hand-offs, posted handlers and expired timers run, because
the `io_context` threads do; nothing is assumed of releases, cancellations or new requests.  A waiter that an exception lost
(section 4) is never answered, and the property says so; `AlwaysCompletes` takes it that the limiter answers.
`AlwaysCompletes`: an operation in flight completes if it has a deadline (`expires_after` on the
stream), or once its socket is cancelled or closed; tunnel reads and writes have no deadline and
are not assumed to end by themselves.  `IdleEventuallyLeaves`: time passes, the reaper thread is
scheduled, threads past an unlock notify; no acquire or release is assumed.  `StopEnds`,
`DrainedListenerReclaimed`: strands run their tasks, a stopped session ends (which `KeepsContract`
shows, every session operation having a deadline), cancelled accepts complete.  `NobodyWaitsForever`: the writer and the waiting
threads are scheduled; and `flush()` is promised to return only once logging pauses (`LoggingPauses`, a condition of the property,
which `MaxEvents` makes true of every behaviour TLC sees): under steady logging it may starve (section 4).  `StartsAgain`: the service manager restarts a process that ended; crashes are
bounded, so the process is assumed to survive some start.  `StopEndsProcess`: threads run, reads and writes
of the dashboard end at their deadlines (15 s and 30 s), a probe's timer fires and the resolver
returns, `ServerCore` drains (`StopEnds`); no client has to connect, and nobody has to ask for a stop.

## 4. Where code and text disagree

Two disagreements have a run of their own.  In `proxy_backend_failure` the backend fails while the request body is being
uploaded, the upload's handlers do not test `backend_close_requested_` and use the released stream, or a
second error response replaces the one being written (`ProxyTransaction.hpp:613`).  In `pool_deadline` an idle
connection outlives its deadline while the reaper sleeps on: `acquire()` resets `next_expiration_`, and a `release()`
before the reaper wakes arms it with its own, later deadline (`BackendConnectionPool.cpp:168`), while README.md:136
says that each idle connection is closed on time.  It was met as a proof that failed: that the reaper is armed
early enough is not inductive, and TLC has the trace.  The connection still leaves (`IdleEventuallyLeaves`).

Three more are stated as definitions that are false of the code.  Listing one of them as the INVARIANT of the named cfg
shows the trace.

* `CapacityComesBack` (`limiter.cfg`): `release()` sees to it that "an allocation failure cannot permanently consume
  capacity" (`BackendConcurrencyLimiter.cpp:218`).  `async_acquire` (142, 154) and `update_limits` (358) build permits
  after `++active` with no catch: if `new Permit` throws, the slot is leaked, and so are the slots of the promoted waiters the
  loop has not come to.  These waiters have left the queue, their timers find nothing, and their handlers never run; the
  exception of `update_limits` is swallowed at `ServerCore.cpp:284-292`.  The post of a timeout (299) loses its waiter in the
  same way.  `SlotsExact` and `ExactlyOneOutcome` say that nothing else is lost.
* `RaisedLimitAdmitsQueue` (`limiter_reload.cfg`): README.md:24 promises that a raised limit admits the queue at
  once.  A request that loaded the old snapshot calls `async_acquire` after the commit and writes the old
  limit back (`BackendConcurrencyLimiter.cpp:102`), and the queue stays.
* `StopWalksSafely` (`server.cfg`): `stop_on_executor` of a listener walks `sessions_` while an idle session's
  `stop()`, run in place, erases its own entry (`HttpListener.cpp:230`).  `AdminServer.cpp:490` has the same
  loop; there the model lets the walk end early, after any session, and `StopEndsProcess` shows that the sessions it
  did not reach end all the same.

Others were met while modelling.  Where nothing else is said the model has the behaviour; the properties of section 3 are
stated so that they hold of the code as it is, and say where they make room for it.

* `BackendConcurrencyLimiter.cpp:209`, `ConnectionAdmission.cpp:34`: when only the
  control block of `shared_ptr<Permit>{new Permit}` cannot be allocated, the permit's destructor and the
  catch block both give the slot back.  `doubled` records it; `SlotsExact`, `LimitRespected` and
  `AdmissionExact` exclude it from the count; that no slot is counted which nobody has (`NoSlotUnaccounted`) holds with it.
* `BackendConcurrencyLimiter.cpp:99`: a stale request also revives a deleted site's entry, which is then
  never reclaimed (README.md:125-126 says it goes with its last permit).
* `ProxyTransaction.hpp:926`: an error between 101 and the tunnel is answered with an HTTP 502
  inside the upgraded connection; `OnceEachWay` therefore speaks of requests that are no Upgrade.
* `LogManager.cpp:313`, `334`: the result of `stream.flush()` is not looked at.  If it fails, the queue is empty, the writer idle
  and `flush()` returns, with the lines still in the buffer; the next write to that stream ends logging for good, unless a
  rotation reopens the stream first.  `DrainedMeansOnDisk` excludes a stream whose flush failed.
* `LogManager.cpp:415`: nor is the result of `close()`.  What it could not write is gone, though counted as accepted; `lost`
  records it, and `AccountingExact` and `FilesInOrder` speak of the lines that are left.
* `LogManager.cpp:193`: `flush()` returns only if it wakes while the queue is empty and the writer idle.  Under steady logging
  it may wait for ever, and with it the admin thread, which reads the logs through `recent_lines()` (`AdminApi.cpp:729`).
* `LogManager.cpp:230`: a rotation between two files that `recent_lines()` reads makes it return
  the same lines twice; the files themselves are in order (`FilesInOrder`).  The reading is not modelled.
* `ConfigService.cpp:413`: taking the default flag off a certificate edits a list sorted default-first,
  so the running server keeps that certificate as the fallback while SQLite, at the same revision, lists another
  first.  `ServedIsStored` leaves the fallback certificate aside.
* `ConfigService.cpp:254`: in recovery mode `restart_required()` is true and nothing is served, while
  `admin-ui/src/App.vue:748` tells the administrator that the last valid snapshot is kept.
* `ProxyTransaction.hpp:722`: a response delimited by the end of its connection is forwarded to a keep-alive
  client with nothing that tells where it ends.
* `BackendConnectionPool.cpp:166`: if `push_back` throws after `idle_[key]` made an empty list, the next `acquire()`
  of the key calls `back()` on it.  This one is not in the model: `OneOwner` speaks of a `release()` whose allocations succeed.
* `RequestPolicy.cpp:163`: a reading older than the entry's makes `elapsed` negative and takes tokens away.  It is no
  error: the tokens come back with the next reading, and `ExactBucket` holds because of it.
* `VirtualHostRouter.cpp:47`: every (protocol, port) router and every reload builds policies of its own, so
  buckets and bans are per router and are forgotten by a reload; the model has one table per site and snapshot.
* `ClientIpResolver.cpp:91`: the 64 entries that are read are the leftmost of `X-Forwarded-For`, so that of a longer
  chain the walk starts in the middle.

## 5. Proofs

Eight modules hold theorems.  Each proves, for every value of the constants that its assumptions allow, the safety
properties its component's runs check, and each has the same shape: lemmas about the operators, one lemma per conjunct
of the inductive invariant with one step per action, then `Spec => []IInv` and its consequences.  Every
inductive invariant was first checked by TLC on the instances of section 3.

| module | theorems | assumptions |
|---|---|---|
| `BackendConcurrencyLimiterProofs` | `TypeCorrect`, `WorkConservingHolds`, `NoZombieSiteHolds`, `SlotsExactHolds`, `NoOvertakingHolds`, `LimitRespectedHolds`, `ExactlyOneOutcomeHolds`, `IInvHolds`; under reload `CommitTakesHoldHolds`, `ReloadKeepsLimiter`, `ReloadInvHolds`, `SafeUnderReload` | `RequestsFinite`; `SiteOfType` (each request has a site); `LimitsType` (a limit admits at least one request, which `ConfigService.cpp:949` enforces); `FailuresType`; `ConfigsType` (a configuration gives a site limits the limiter allows, or none) |
| `ProxyTransactionProofs` | `TypeCorrect`, `CompletionQuiescesHolds`, `ReuseSafeHolds`, `OnceEachWayHolds`, `SafeUseHolds`, `StartsNothingMoreHolds`, `IInvHolds` | `ProfilesType`: the profiles are profiles, any of them |
| `BackendConnectionPoolProofs` | `TypeCorrect`, `OneOwnerHolds`, `ReaperArmed`, `NoneComesBack`, `OwningHolds` | types of the constants |
| `ServerProofs` | `TypeCorrect`, `AdmissionExactHolds`, `OpenSessionReachableHolds`, `ListenerNeverDeafHolds`, `ListenersMatchSnapshotHolds`, `GateHoldsUntilPublishedHolds`, `IInvHolds` | `ServerAssumption`: finitely many sessions, the names of strand tasks are no sessions, the limit is positive and the machine word larger than all connections |
| `SessionProofs` | `TypeCorrect`, `TransactionOwnsStreamHolds`, `ClosedMeansReleasedHolds`, `RefinesContract`, `IInvHolds` | none |
| `LogManagerProofs` | `TypeCorrect`, `AccountingExactHolds`, `DrainedMeansOnDiskHolds`, `FilesInOrderHolds`, `IInvHolds` | `LogAssumption`: capacity at least 2, a file holds a line, at least one rotated file |
| `ApplicationProofs` | `ControlHolds`, `UsedWhileAliveHolds`, `ServingHolds`, `AnswersOnceHolds` | `AdminAssumption`: finitely many slots |
| `ConfigAndDispatcherProofs` | of the configuration `TypeCorrect`, `ServedIsStoredHolds`, `RestartRequiredAccurateHolds`, `ChangesTraceableHolds`, `SeededOnce`, `ServiceInvHolds`; of the dispatcher `DispatchTypeCorrect`, `TableSoundHolds`, `ExactBucketHolds`, `RefusalHonestHolds`, `HandedOverSoundlyHolds`, `DispatchInvHolds` | `ConfigAssumption`: types, and a bound that leaves room for the schema and the example site; `PolicyAssumption`: a tick is whole milliseconds, table size and clean-up period are positive; `SiteSpecAssumption`: what the constructors of `RequestPolicy` and `RateLimiter` let through (positive window and maximum, a deny rule's status); `DispatcherAssumption`: finitely many threads, bindings as the router's constructor accepts them; `TrafficAssumption`: a request is what the parser makes of one and names a published snapshot; `ChainAssumption`, `SkewAssumption`: types |

**The limiter.**  Neither half of `SlotsExact` is inductive: that `release()` may take one off `active`, or pass the
slot to the head of the queue, is right only if the head has no slot yet, the released slot was counted once, and an
entry that is missing has no waiters.  So `IInv` adds `QueueSound` (a queue holds distinct requests of its own site
without a slot), `SlotsApart` (promoted, next, posted, holding and leaked requests are disjoint) and `EntrySound` (a missing
entry is empty, a present one has a positive limit).  What the critical sections do to one site's record is stated in
lemmas (`PromoteFacts`, `ReleaseHandsOver`, `EraseFacts`, `SiteInvRelease`...) without reference to the rest of the
state; `StationsStep` shows that a request is at one station at a time; `AccountingStep` turns that into cardinalities.
`NoOvertaking` rests on what the critical sections take from a queue being a prefix of it (`PromotePops`,
`ReleasePops`), which composes when a reload promotes twice (`PopsTwice`), or one request that left on its own
(`EraseRange`).  `ExactlyOneOutcome` needs the invariant `Outcome`: a handler is kept exactly while its request is
queued, promoted, next, about to be refused or posted, and posted at most once, or for ever if an exception lost it.  What an
exception takes along is the rest of one loop (`behind`), which is promoted or refused and nowhere else.

**The limiter under reload.**  `ReloadKeepsLimiter` shows that every step of the composed system is a step of the limiter
or leaves it alone, so the limiter's theorems hold there as they stand (`SafeUnderReload` names two).  `CommitTakesHold`
speaks of the time after a commit only; `InForceUsed` says the same at every stage of one, with the limits the commit
has come to (`InForce`).

**The transaction.**  The object is one record and a handler a function on it, so the proof follows the code: what each
member function leaves behind (`FinishDeferredSettles`, `SendErrorSettles`, `AbortSettles`...), then each handler, then
the actions.  `Sound` holds between any two statements, so also where an exception leaves a handler: which operations
are in flight together (`Shape`), what the handler of each one relies on (`Awaits`), and how the backend's stream, the
permit and the deferred completion go together.  `Settled` holds where a handler returns or has been aborted: a backend
that was given up has the error response in flight or the transaction on its way out.  Both are needed: that no handler
dereferences a released stream follows from `Settled` when it is called, and `ThrownSettles` shows that `Sound` alone is
enough for `abort_from_exception_noexcept` to restore it, whichever of its operations the handler had started.  The one
way to undefined behaviour the model has, a backend that fails under an unfinished upload, is part of the statement
`SafeUse` and is shown to be the only one.

**The pool.**  That a popped connection is in no list rests on each list holding a connection once and under
its own key, and that the reaper may overwrite its list of expired connections on that list being empty except while
it closes (`Owning`).  `erase-remove` is a rank function (`Rank`, `Pick`), whose bijectivity is `RankIsBijective`.
`ReaperArmed` is the safety half of `IdleEventuallyLeaves`: although every `notify_one` follows the unlock and is lost when
nobody waits, the reaper sleeps without a deadline only while nothing is idle.  The stronger statement, that it
wakes in time for every connection, could not be proved because it is false (section 4).

**The server.**  None of its invariants is inductive by itself.  That a session is reachable rests on where a listener
that may admit one is (the revision gate) and on the removal of a session being dispatched only by its `close()`; that
the maps match the snapshot rests on what they are at each stage of a reload, on each new listener being really new,
and on the retirement or stop waiting in the strand of one that is still bound.

**The session.**  A handler may throw anywhere, so its invariant has two parts: `Sound` holds between any two
statements, `Settled` where a handler has returned or has been aborted.  `RefinesContract` shows that every step is a
step of `SessionContract` or a stutter.

**The log.**  An accepted event is in one place: the queue, the writer's hands, a file, or what a failed `close()` lost.  That
an eviction removes exactly one needs the queue's numbers to be distinct and above all that is written (`Ordered`) or lost
(`LostOld`).  `Quiet` says at every place of the writer's loop what it has left unreported, or unflushed in a stream that is
not bad; `Woken` that whoever waits in `flush()` waits for something.  A failed `close()` takes lines from the current file only, for
nothing else is still buffered (`Buffered`, `ShortenedPieces`).  `FilesInOrder` asks for some cut of
the history into files; `CutSound` follows one such cut through every file system call of a rotation (`MovedPieces`)
and says how far apart its places are (`RotationMoves`): it is this distance, not the cut, that shows that nothing
younger than `RotatedFileCount` full files is deleted.

**The application.**  `Control` says where `run_server`, the stop's thread and the admin thread can be and which objects
exist then; `Serving` says what an admin session owes its client.  They share only the admin thread.

**The configuration.**  The service builds a snapshot from its own lists with a predicted id, and the repository runs
a transaction afterwards; `CandidateIsStored` shows, change by change, that a restart would build the same service
from what was stored.  What an import stores is a fold over the backup's rows, and what a deletion leaves is `Select`:
both are followed row by row, and the induction is the refutation of a least counterexample (`IntervalInduction`),
because the library's induction theorems cannot be instantiated.  `ServiceInv` carries the result through the stages of
a save (`SaveInv`: prepared for this database, or committed and equal to it), of a start and of a crash
(`HandlerInv`, `SchemaInv`); that no id comes back needs every id ever used to be below the sequence (`IdsInv`), which
every change keeps (`StoredGrows`), and that the example site is seeded once needs it to be still there while the mark
is missing (`SeedInv`).

**The dispatcher.**  A rate limiter is compared with the log of its admissions.  That each prefix of the log conforms
is not inductive, since a bucket is a number and not a log.  `Balanced` relates the two: after each admission the
bucket, had only the admissions from there on drawn on it, would hold some allowance, and the real bucket holds the
least of these.  The least allowance moves with the reading of the clock in both directions, which is why a reading
that was overtaken neither grants nor loses a token (`TokensDecide`, `AdmitBalanced`, `RefuseBalanced`).  `EntryKept`
adds what the client was told: its ban is the entry's, and at its Retry-After the bucket has refilled to a token
(`RetryLongEnough`).  `SiteKept` says so of every entry, that a running ban keeps its entry in the table, and that
the list names the entries in the order of the checks (`Listed`, from the algebra of `Select`: `SelectTwice`,
`SelectAppend`); `CheckKeepsSite` and `ThrowKeepsSite` are its two steps.  `HandedOverSoundly` rests on `JobKept` (a
request that passed was not refused, in the snapshot it loaded), on the longest of nested domains being unique
(`FindBest`), on the walk through the proxies (`WalkNearest`), and on two tokens in a query both being seen
(`SelectTwoRows`).  Of an `X-Forwarded-For` longer than the maximum nothing is claimed about the client (section 4).

Only model-checked: liveness and everything with ENABLED, which is out of TLAPS's reach (`EventuallyAnswered`,
`AlwaysCompletes`, the first half of `IdleEventuallyLeaves`, `StopEnds`, `DrainedListenerReclaimed`, the fairness of
`KeepsContract`, `NobodyWaitsForever`, the first half of `StartsAgain`, `StopEndsProcess`).  Every other property of
the passing runs is a theorem.

## 6. Not modelled

* `AuthService` (admin sessions, expiry, login back-off): all its callers are on the one admin thread, so it is
  sequential code with a clock.  It is next in the plan.
* Parsing and rendering: `AdminApi`'s JSON, `HostNormalizer`, header rewriting, log formatting, response contents,
  static files, the string predicates of policy conditions.  They keep no state; the models have their outcomes.
* Boost, OpenSSL and SQLite are third-party; the admin-ui is a browser program; installing and removing the
  service are calls of the Windows API.
* In modelled components: the emergency closes after a failed dispatch (`HttpListener.cpp:235`, which drops the drained
  handler or stops no session, and `AdminServer.cpp:496`, after which a process in recovery mode ends by itself
  and a control that is being answered may report an older state over STOPPED); a failed allocation inside the
  pool's `release()` (section 4) or inside a critical section of the limiter (the entry at `BackendConcurrencyLimiter.cpp:98`, the
  list of promoted waiters at 117 and 352, timer and queue node at 128-132, the list of `clear()`); `new Pending` failing at 151
  for a caller that is queued, which stays queued with nobody to cancel it; a log file that a failed flush or close has
  written half of a line of, and rotated log files of an earlier process; `BackendProbe::start` throwing after its timer was armed (`BackendProbe.cpp:61`: the request is
  answered with 409, and again when the timer fires); the milliseconds that `seconds_until` truncates; handlers
  of a dashboard session that throw, beyond the close they lead to; an exception of `run_server` between the start of the
  admin thread and `ready()` (`Application.cpp:160-182`), which unwinds as a failed start does.
* `ConfigService`: two enabled sites with one host on different ports are refused at `Buildable`, where the code gets as far
  as the UNIQUE constraint of the transaction; either way the save is refused and nothing changes.

## 7. Plan

Done: the limiter, limiter under reload, transaction, pool, server, session with its contract, log, configuration,
dispatcher with router, policy, resolver and authenticator, and the process with its dashboard; their safety
properties are proved.  Next, in this order:

1. An abstract FIFO semaphore that the limiter implements, its refinement proved beside the limiter's theorems.
2. `AuthService`.
