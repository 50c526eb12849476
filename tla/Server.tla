------------------------------- MODULE Server -------------------------------
(***************************************************************************)
(* ServerCore with its listeners, the admission counter and the sessions   *)
(* it accepts: start, hot reload of the port set, retirement and draining  *)
(* of listeners, and stop.                                                 *)
(*                                                                         *)
(* A listener's handlers run on its strand and a step of the model is one  *)
(* handler.  `tasks` holds what other threads dispatched to the strand, in *)
(* order.  A session is reduced to what its owner can see of it (module    *)
(* Session has the rest): idle (handshake or waiting for a header), busy   *)
(* (a transaction or a response in progress), closed.                      *)
(***************************************************************************)
EXTENDS Naturals, Sequences, FiniteSets

CONSTANTS
  Ports,               \* ports of any configuration
  TlsPorts,            \* the HTTPS ones
  Plans,               \* port sets a configuration may ask for
  Sessions,            \* connections clients open
  MaximumConnections,  \* options_.maximum_connections
  Modulus,             \* 2^64: the counters are std::size_t
  MaxReloads,          \* bound on prepare_reload calls
  MaxAllocFailures     \* bound on failed permit allocations

ASSUME ServerAssumption ==
  /\ TlsPorts \subseteq Ports
  /\ IsFiniteSet(Sessions) /\ Sessions \cap {"retire", "stop"} = {}
  /\ Plans # {} /\ Plans \subseteq SUBSET Ports
  /\ MaximumConnections \in Nat \ {0}
  /\ Modulus \in Nat /\ Modulus > Cardinality(Sessions) + MaximumConnections
  /\ MaxReloads \in Nat /\ MaxAllocFailures \in Nat

Ids == Ports \X (1 .. (MaxReloads + 1))  \* a listener: its port, and which one of that port
Nobody == <<>>

VARIABLES
  published,   \* runtime_store_: the snapshot's revision and port set
  listener,    \* every HttpListener and TlsListener ever made
  current,     \* http_listeners_ and tls_listeners_
  retired,     \* retired_http_listeners_ and retired_tls_listeners_
  prepared,    \* the PreparedReload that holds control_mutex_, if any
  reloads,     \* prepare_reload calls so far
  session,     \* every session: its listener, its state, a stop() under way
  active,      \* ConnectionAdmission: connections counted
  failures,    \* failed allocations so far
  doubled,     \* a failed control block gave a connection back twice
  server,      \* new, running, stopping, stopped
  fault        \* sessions_ was changed under the loop that walks it

vars == << published, listener, current, retired, prepared, reloads, session,
           active, failures, doubled, server, fault >>

Listener ==
  [made: BOOLEAN, minimum_runtime_revision: Nat, open: BOOLEAN,
   accept: {"none", "pending", "retry"}, retired: BOOLEAN, stopping: BOOLEAN,
   sessions: SUBSET Sessions, on_drained: {"none", "set", "posted", "done"},
   tasks: Seq({"retire", "stop"} \cup Sessions)]

Unmade ==
  [made |-> FALSE, minimum_runtime_revision |-> 0, open |-> FALSE, accept |-> "none",
   retired |-> FALSE, stopping |-> FALSE, sessions |-> {}, on_drained |-> "none",
   tasks |-> << >>]

NoReload == [state |-> "none", next |-> {}, added |-> {}, gone |-> {}]

-----------------------------------------------------------------------------
(* The listener's own steps, on its record                                 *)

\* Constructed, bound, and started with the revision it must wait for.
StartedListener(revision) ==
  [Unmade EXCEPT !.made = TRUE, !.minimum_runtime_revision = revision,
                 !.open = TRUE, !.accept = "pending"]

\* Mutant: the drained handler does not wait for the sessions.
NotifyIfRetired(x) ==
  IF x.retired /\ x.on_drained = "set" THEN [x EXCEPT !.on_drained = "posted"] ELSE x

\* The drained handler is moved out before it is called: it runs once.
NotifyIfDrained(x) ==
  IF x.retired /\ x.sessions = {} /\ x.on_drained = "set"
  THEN [x EXCEPT !.on_drained = "posted"] ELSE x

Finished(x) == x.retired \/ x.stopping \/ ~x.open

\* The handler returns without another accept.
AcceptEnds(x) == NotifyIfDrained([x EXCEPT !.accept = "none"])

AcceptNext(x) ==
  IF Finished(x) THEN AcceptEnds(x)
  ELSE [x EXCEPT !.accept = "pending"]

ScheduleAcceptRetry(x) ==
  IF Finished(x) THEN AcceptEnds(x)
  ELSE [x EXCEPT !.accept = "retry"]

\* Mutant: no retry after an error.
AcceptErrorGivesUp(x, aborted) == AcceptEnds(x)

\* on_accept with an error: only a cancelled accept is not tried again.
AcceptError(x, aborted) ==
  NotifyIfDrained(IF ~aborted /\ x.open /\ ~x.stopping THEN ScheduleAcceptRetry(x)
                  ELSE [x EXCEPT !.accept = "none"])

\* sessions_.emplace, then the next accept.
Admit(x, s) == AcceptNext([x EXCEPT !.sessions = @ \cup {s}])

RetireOnExecutor(x) ==
  NotifyIfDrained([x EXCEPT !.retired = TRUE, !.on_drained = "set", !.open = FALSE])

\* Mutant: the last session leaves unnoticed.
EraseSessionSilently(x, s) == [x EXCEPT !.sessions = @ \ {s}]

EraseSession(x, s) == NotifyIfDrained([x EXCEPT !.sessions = @ \ {s}])

\* stop_on_executor: the acceptor is closed; the sessions that close in place go.
CloseAcceptor(x, inPlace) == [x EXCEPT !.open = FALSE, !.sessions = @ \ inPlace]

\* stop(): the flag is visible at once, the rest happens on the strand.
RequestStop(x) == [x EXCEPT !.stopping = TRUE, !.tasks = Append(@, "stop")]

Open(s) == session[s].state \in {"idle", "busy"}
\* Mutant: no revision gate.
GateAlwaysOpen(x) == TRUE

GateOpen(x) == published.revision >= x.minimum_runtime_revision
HasTlsContexts == published.ports \cap TlsPorts # {}

-----------------------------------------------------------------------------
Init ==
  /\ \E plan \in Plans : published = [revision |-> 1, ports |-> plan]
  /\ listener = [l \in Ids |-> Unmade]
  /\ current = {} /\ retired = {}
  /\ prepared = NoReload /\ reloads = 0
  /\ session = [s \in Sessions |-> [at |-> Nobody, state |-> "none", stop |-> FALSE]]
  /\ active = 0 /\ failures = 0 /\ doubled = FALSE
  /\ server = "new" /\ fault = FALSE

\* start(): every listener of the snapshot is bound before any is started.
Start ==
  /\ server = "new"
  /\ server' = "running"
  /\ current' = published.ports \X {1}
  /\ listener' = [l \in Ids |-> IF l \in current' THEN StartedListener(published.revision)
                                 ELSE listener[l]]
  /\ UNCHANGED << published, retired, prepared, reloads, session, active, failures,
                  doubled, fault >>

\* start() when a port cannot be bound: nothing is served.
StartFails ==
  /\ server = "new"
  /\ server' = "stopped"
  /\ UNCHANGED << published, listener, current, retired, prepared, reloads, session,
                  active, failures, doubled, fault >>

-----------------------------------------------------------------------------
(* Accepting                                                               *)

AcceptFails(l, aborted) ==
  /\ listener[l].accept = "pending"
  /\ aborted => ~listener[l].open
  /\ listener' = [listener EXCEPT ![l] = AcceptError(@, aborted)]
  /\ UNCHANGED << published, current, retired, prepared, reloads, session, active,
                  failures, doubled, server, fault >>

\* on_accept of a connection the listener may not serve: it is closed.
AcceptRefused(l) ==
  /\ listener[l].accept = "pending"
  /\ \/ /\ listener[l].stopping \/ listener[l].retired
        /\ listener' = [listener EXCEPT ![l] = AcceptEnds(@)]
     \/ /\ ~listener[l].stopping /\ ~listener[l].retired
        /\ ~GateOpen(listener[l]) \/ active >= MaximumConnections
        /\ listener' = [listener EXCEPT ![l] = ScheduleAcceptRetry(@)]
  /\ UNCHANGED << published, current, retired, prepared, reloads, session, active,
                  failures, doubled, server, fault >>

Admissible(l) ==
  /\ listener[l].accept = "pending"
  /\ ~listener[l].stopping /\ ~listener[l].retired
  /\ GateOpen(listener[l])
  /\ active < MaximumConnections

\* on_accept that ends in a session.  The session owns the admission permit.
AcceptSession(l, s) ==
  /\ Admissible(l)
  /\ l[1] \in TlsPorts => HasTlsContexts
  /\ session[s].state = "none"
  /\ session' = [session EXCEPT ![s] = [at |-> l, state |-> "idle", stop |-> FALSE]]
  /\ active' = (active + 1) % Modulus
  /\ listener' = [listener EXCEPT ![l] = Admit(@, s)]
  /\ UNCHANGED << published, current, retired, prepared, reloads, failures, doubled,
                  server, fault >>

\* TlsListener::on_accept when the snapshot has no certificate any more: the
\* permit goes back with the scope.
AcceptWithoutTls(l) ==
  /\ Admissible(l)
  /\ l[1] \in TlsPorts /\ ~HasTlsContexts
  /\ listener' = [listener EXCEPT ![l] = AcceptNext(@)]
  /\ UNCHANGED << published, current, retired, prepared, reloads, session, active,
                  failures, doubled, server, fault >>

\* try_acquire() or the session's construction throws: on_accept catches it and
\* tries again later.  A permit whose control block cannot be allocated is
\* deleted, which gives the connection back, and the catch gives it back again.
AcceptThrows(l, controlBlock) ==
  /\ Admissible(l)
  /\ failures < MaxAllocFailures
  /\ failures' = failures + 1
  /\ active' = IF controlBlock THEN (active + Modulus - 1) % Modulus ELSE active
  /\ doubled' = (doubled \/ controlBlock)
  /\ listener' = [listener EXCEPT ![l] = ScheduleAcceptRetry(@)]
  /\ UNCHANGED << published, current, retired, prepared, reloads, session, server, fault >>

\* The retry timer: cancelled by retire or stop, unless it has expired already.
AcceptRetry(l) ==
  /\ listener[l].accept = "retry"
  /\ \/ listener' = [listener EXCEPT ![l] = AcceptNext(@)]
     \/ /\ ~listener[l].open
        /\ listener' = [listener EXCEPT ![l].accept = "none"]
  /\ UNCHANGED << published, current, retired, prepared, reloads, session, active,
                  failures, doubled, server, fault >>

-----------------------------------------------------------------------------
(* The sessions, as their listener sees them                               *)

\* Sessions whose close() is under way in this step leave the admission count
\* and dispatch their removal to the listener.
Closed(s) == [session[s] EXCEPT !.state = "closed", !.stop = FALSE]

\* Mutant: the permit stays in the close handler.
CloseSessionKeepsPermit(s) ==
  /\ session' = [session EXCEPT ![s] = Closed(s)]
  /\ UNCHANGED active
  /\ listener' = [listener EXCEPT ![session[s].at].tasks = Append(@, s)]

CloseSession(s) ==
  /\ session' = [session EXCEPT ![s] = Closed(s)]
  /\ active' = (active + Modulus - 1) % Modulus
  /\ listener' = [listener EXCEPT ![session[s].at].tasks = Append(@, s)]

\* A request header arrives; or the response is out and the connection is kept.
SessionWorks(s) ==
  /\ \/ session[s].state = "idle" /\ session' = [session EXCEPT ![s].state = "busy"]
     \/ /\ session[s].state = "busy" /\ ~listener[session[s].at].stopping
        /\ session' = [session EXCEPT ![s].state = "idle"]
  /\ UNCHANGED << published, listener, current, retired, prepared, reloads, active,
                  failures, doubled, server, fault >>

\* The client leaves, a timeout, an error, or no keep-alive.
SessionEnds(s) ==
  /\ Open(s)
  /\ CloseSession(s)
  /\ UNCHANGED << published, current, retired, prepared, reloads, failures, doubled,
                  server, fault >>

\* stop_on_executor of the session: an idle one closes, a busy one is cancelled
\* or finishes its response and then sees the stopping flag.
SessionStops(s) ==
  /\ session[s].stop
  /\ \/ session[s].state = "idle" /\ CloseSession(s)
     \/ /\ session[s].state # "idle"
        /\ session' = [session EXCEPT ![s].stop = FALSE]
        /\ UNCHANGED << listener, active >>
  /\ UNCHANGED << published, current, retired, prepared, reloads, failures, doubled,
                  server, fault >>

-----------------------------------------------------------------------------
(* The listener's strand                                                   *)

Dispatched(l, task) == listener[l].tasks # << >> /\ Head(listener[l].tasks) = task
Rest(x) == [x EXCEPT !.tasks = Tail(@)]

Retire(l) ==
  /\ Dispatched(l, "retire")
  /\ listener' = [listener EXCEPT ![l] = RetireOnExecutor(Rest(@))]
  /\ UNCHANGED << published, current, retired, prepared, reloads, session, active,
                  failures, doubled, server, fault >>

SessionClosed(l, s) ==
  /\ Dispatched(l, s)
  /\ listener' = [listener EXCEPT ![l] = EraseSession(Rest(@), s)]
  /\ UNCHANGED << published, current, retired, prepared, reloads, session, active,
                  failures, doubled, server, fault >>

\* stop_on_executor walks sessions_ and calls stop() on each.  asio::dispatch
\* queues the call when the session's strand is busy and runs it in place when
\* it is free; then an idle session closes in place and its close handler, already
\* on this strand, erases the entry the loop stands on.
StopOnExecutor(l) ==
  /\ Dispatched(l, "stop")
  /\ \E inPlace \in SUBSET {s \in listener[l].sessions : session[s].state = "idle"} :
       /\ fault' = (inPlace # {})
       /\ listener' = [listener EXCEPT ![l] = CloseAcceptor(Rest(@), inPlace)]
       /\ session' = [s \in Sessions |->
                        IF s \in inPlace THEN Closed(s)
                        ELSE IF s \in listener[l].sessions /\ Open(s)
                             THEN [session[s] EXCEPT !.stop = TRUE] ELSE session[s]]
       /\ active' = (active + Modulus - Cardinality(inPlace)) % Modulus
  /\ UNCHANGED << published, current, retired, prepared, reloads, failures, doubled, server >>

\* The posted drained handler takes control_mutex_ and forgets the listener.
Drained(l) ==
  /\ listener[l].on_drained = "posted"
  /\ prepared.state = "none"
  /\ listener' = [listener EXCEPT ![l].on_drained = "done"]
  /\ retired' = retired \ {l}
  /\ UNCHANGED << published, current, prepared, reloads, session, active, failures,
                  doubled, server, fault >>

-----------------------------------------------------------------------------
(* Reload and stop                                                         *)

\* The next listener of a port.
Fresh(p) == <<p, 1 + Cardinality({l \in Ids : l[1] = p /\ listener[l].made})>>

\* prepare_reload: takes control_mutex_ and keeps it; ports that are new get a
\* listener that is already accepting, but waits for the next revision.
PrepareReload(plan) ==
  LET added == {Fresh(p) : p \in plan \ {l[1] : l \in current}} IN
  /\ server = "running" /\ prepared.state = "none"
  /\ reloads < MaxReloads
  /\ reloads' = reloads + 1
  /\ prepared' = [state |-> "prepared", next |-> plan, added |-> added,
                  gone |-> {l \in current : l[1] \notin plan}]
  /\ listener' = [l \in Ids |-> IF l \in added THEN StartedListener(published.revision + 1)
                                 ELSE listener[l]]
  /\ UNCHANGED << published, current, retired, session, active, failures, doubled,
                  server, fault >>

\* ~PreparedReload without a commit (a port could not be bound, or the database
\* transaction failed): the listeners it made are stopped.
AbandonReload ==
  /\ prepared.state = "prepared"
  /\ prepared' = NoReload
  /\ listener' = [l \in Ids |-> IF l \in prepared.added THEN RequestStop(listener[l])
                                 ELSE listener[l]]
  /\ UNCHANGED << published, current, retired, reloads, session, active, failures,
                  doubled, server, fault >>

\* Mutant: listeners of dropped ports stay in the map.
CommitSwapKeeps ==
  /\ prepared.state = "prepared"
  /\ prepared' = [prepared EXCEPT !.state = "swapped"]
  /\ current' = current \cup prepared.added
  /\ UNCHANGED << published, listener, retired, reloads, session, active, failures,
                  doubled, server, fault >>

\* The commit, first part: the maps are swapped and the listeners of dropped
\* ports are told to retire.
CommitSwap ==
  /\ prepared.state = "prepared"
  /\ prepared' = [prepared EXCEPT !.state = "swapped"]
  /\ current' = (current \cup prepared.added) \ prepared.gone
  /\ retired' = retired \cup prepared.gone
  /\ listener' = [l \in Ids |-> IF l \in prepared.gone
                                 THEN [listener[l] EXCEPT !.tasks = Append(@, "retire")]
                                 ELSE listener[l]]
  /\ UNCHANGED << published, reloads, session, active, failures, doubled, server, fault >>

\* The commit, last part: publication opens the gate, and the lock is released.
CommitPublish ==
  /\ prepared.state = "swapped"
  /\ published' = [revision |-> published.revision + 1, ports |-> prepared.next]
  /\ prepared' = NoReload
  /\ UNCHANGED << listener, current, retired, reloads, session, active, failures,
                  doubled, server, fault >>

\* Mutant: retired listeners are not stopped.
StopCurrentOnly ==
  /\ server = "running" /\ prepared.state = "none"
  /\ server' = "stopping"
  /\ listener' = [l \in Ids |-> IF l \in current THEN RequestStop(listener[l])
                                 ELSE listener[l]]
  /\ UNCHANGED << published, current, retired, prepared, reloads, session, active,
                  failures, doubled, fault >>

\* stop(): under control_mutex_, so never in the middle of a reload.
Stop ==
  /\ server = "running" /\ prepared.state = "none"
  /\ server' = "stopping"
  /\ listener' = [l \in Ids |-> IF l \in current \cup retired THEN RequestStop(listener[l])
                                 ELSE listener[l]]
  /\ UNCHANGED << published, current, retired, prepared, reloads, session, active,
                  failures, doubled, fault >>

\* io_context::run returns on every worker once no work is left; wait() joins
\* them and drops the listeners.
Wait ==
  /\ server = "stopping"
  /\ \A l \in Ids : /\ listener[l].accept = "none" /\ listener[l].tasks = << >>
                    /\ listener[l].on_drained # "posted"
  /\ \A s \in Sessions : ~Open(s)
  /\ server' = "stopped"
  /\ current' = {} /\ retired' = {}
  /\ UNCHANGED << published, listener, prepared, reloads, session, active, failures,
                  doubled, fault >>

ListenerStep(l) ==
  \/ \E aborted \in BOOLEAN : AcceptFails(l, aborted)
  \/ AcceptRefused(l)
  \/ \E s \in Sessions : AcceptSession(l, s) \/ SessionClosed(l, s)
  \/ AcceptWithoutTls(l)
  \/ \E controlBlock \in BOOLEAN : AcceptThrows(l, controlBlock)
  \/ AcceptRetry(l)
  \/ Retire(l) \/ StopOnExecutor(l) \/ Drained(l)

Next ==
  /\ ~fault
  /\ \/ Start \/ StartFails
     \/ \E l \in Ids : ListenerStep(l)
     \/ \E s \in Sessions : SessionWorks(s) \/ SessionEnds(s) \/ SessionStops(s)
     \/ \E plan \in Plans : PrepareReload(plan)
     \/ AbandonReload \/ CommitSwap \/ CommitPublish
     \/ Stop \/ Wait

Spec == Init /\ [][Next]_vars

\* What the workers, the timers and the administration thread guarantee: a
\* dispatched or posted handler runs, a cancelled accept and a timer complete, a
\* prepared reload is committed or dropped, and a session told to stop ends
\* (the transaction completes when cancelled, a write has a deadline).  Clients
\* guarantee nothing, and nobody has to call reload or stop.
Fairness ==
  /\ WF_vars(Start) /\ WF_vars(CommitSwap \/ AbandonReload) /\ WF_vars(CommitPublish)
  /\ WF_vars(Wait)
  /\ \A l \in Ids :
       /\ WF_vars(Retire(l)) /\ WF_vars(StopOnExecutor(l)) /\ WF_vars(Drained(l))
       /\ WF_vars(AcceptFails(l, TRUE)) /\ WF_vars(AcceptRetry(l))
       /\ \A s \in Sessions : WF_vars(SessionClosed(l, s))
  /\ \A s \in Sessions :
       /\ WF_vars(SessionStops(s))
       /\ WF_vars(session[s].at # Nobody /\ listener[session[s].at].stopping /\ SessionEnds(s))

FairSpec == Spec /\ Fairness

-----------------------------------------------------------------------------
(* Properties                                                              *)

\* Every variable has its type.
TypeOK ==
  /\ published \in [revision: Nat \ {0}, ports: Plans]
  /\ listener \in [Ids -> Listener]
  /\ current \subseteq Ids /\ retired \subseteq Ids
  /\ prepared \in [state: {"none", "prepared", "swapped"}, next: Plans \cup {{}},
                   added: SUBSET Ids, gone: SUBSET Ids]
  /\ reloads \in 0 .. MaxReloads
  /\ session \in [Sessions -> [at: Ids \cup {Nobody}, stop: BOOLEAN,
                               state: {"none", "idle", "busy", "closed"}]]
  /\ active \in 0 .. (Modulus - 1)
  /\ failures \in 0 .. MaxAllocFailures
  /\ doubled \in BOOLEAN /\ fault \in BOOLEAN
  /\ server \in {"new", "running", "stopping", "stopped"}

OpenSessions == {s \in Sessions : Open(s)}

\* The admission count is the number of open connections, through every refusal,
\* failed construction, retirement and stop; so the limit is a hard one.
AdmissionExact ==
  ~doubled => active = Cardinality(OpenSessions) /\ active <= MaximumConnections

\* stop() reaches every connection: the listener of an open session is always in
\* one of the two maps that stop() walks, and knows the session.
OpenSessionReachable ==
  \A s \in OpenSessions :
    session[s].at \in current \cup retired /\ s \in listener[session[s].at].sessions

\* A listener in service is never left deaf: an accept or a retry is pending,
\* whatever errors, refusals and exceptions came before.
ListenerNeverDeaf ==
  \A l \in current : ~Finished(listener[l]) => listener[l].accept # "none"

\* Outside a reload there is exactly one listener for every published port; and at
\* any time a bound acceptor belongs to the running configuration, to the reload
\* being prepared, or is about to be closed, so no socket outlives its purpose.
ListenersMatchSnapshot ==
  /\ server \in {"running", "stopping"} /\ prepared.state = "none" =>
       /\ {l[1] : l \in current} = published.ports
       /\ \A l, m \in current : l[1] = m[1] => l = m
       /\ current \cap retired = {}
  /\ \A l \in Ids :
       listener[l].open => \/ l \in current \cup prepared.added
                          \/ \E i \in DOMAIN listener[l].tasks :
                               listener[l].tasks[i] \in {"retire", "stop"}

\* A listener that a reload made ahead of its commit serves nobody before the
\* publication, and none after the reload was dropped.
GateHoldsUntilPublished ==
  [][\A l \in Ids : ~(listener'[l].sessions \subseteq listener[l].sessions) =>
       /\ l \in current \cup retired
       /\ listener[l].minimum_runtime_revision <= published.revision]_vars

\* Idle connections are closed on stop (README.md:174), and doing so never
\* changes the table of sessions under the loop that walks it.
StopWalksSafely == ~fault

\* stop() comes to an end: every session closes and the workers return.
StopEnds == server = "stopping" ~> server = "stopped" \/ fault

\* A retired listener whose last connection is gone leaves the server.
DrainedListenerReclaimed ==
  \A l \in Ids :
    l \in retired /\ listener[l].retired /\ listener[l].sessions = {}
      ~> l \notin retired \/ fault

=============================================================================
