----------------------------- MODULE AdminServer -----------------------------
(***************************************************************************)
(* The dashboard's HTTP server: a listener on the loopback address, its    *)
(* sessions, and the one thread that runs all their handlers.  stop() may  *)
(* be called on any thread.                                                *)
(*                                                                         *)
(* A session is `open` until close(); `op` is the read or write that is    *)
(* outstanding, also after close() has cancelled it; `owed` says that a    *)
(* request was read and not answered yet.  `left` stands for handlers that *)
(* probes of earlier requests still have outstanding.                      *)
(***************************************************************************)
EXTENDS BackendProbe, Integers, FiniteSets

CONSTANTS
  Slots,              \* sessions that can exist at a time
  Probers,            \* those whose clients test backends
  MaximumConnections  \* maximum_admin_connections (128)

ASSUME AdminAssumption ==
  IsFiniteSet(Slots) /\ Probers \subseteq Slots /\ MaximumConnections \in 1..Cardinality(Slots)

VARIABLES
  thread,    \* the worker thread: "none", "idle", a handler it is in, "ended"
  listener,  \* AdminListener
  session    \* AdminSession, by slot

adminVars == << thread, listener, session >>

NoSession == [open |-> FALSE, op |-> "none", owed |-> 0, probe |-> NoProbe, left |-> FALSE]

AdminInit ==
  /\ thread = "none"
  /\ listener = [started |-> FALSE, stop_called |-> FALSE, stopping |-> FALSE,
                 posted |-> FALSE, accept |-> "none", open |-> TRUE]
  /\ session = [s \in Slots |-> NoSession]

OpenSessions == {s \in Slots : session[s].open}

Handlers(s) == Outstanding(s.probe) \/ s.left

-----------------------------------------------------------------------------
(* AdminServer                                                             *)

\* start(): the first accept, then the thread.
StartAdmin ==
  /\ listener' = [listener EXCEPT !.started = TRUE, !.accept = "accept"]
  /\ thread' = "idle"
  /\ UNCHANGED session

\* stop() as others see it: the flag at once, the rest on the listener's strand.
Stopped(l) ==
  IF ~l.started \/ l.stop_called THEN l
  ELSE [l EXCEPT !.stop_called = TRUE, !.stopping = TRUE, !.posted = TRUE]

\* The io_context has nothing left to wait for; `kept` is work of others on it.
EndThread(kept) ==
  /\ thread = "idle" /\ ~kept
  /\ listener.accept = "none" /\ ~listener.posted
  /\ \A s \in Slots : session[s].op = "none" /\ ~Handlers(session[s])
  /\ thread' = "ended"
  /\ UNCHANGED << listener, session >>

-----------------------------------------------------------------------------
(* AdminListener                                                           *)

\* schedule_accept_retry, unless the listener is stopping.
Retry(l) == [l EXCEPT !.accept = IF l.stopping \/ ~l.open THEN "none" ELSE "retry"]

\* on_accept with a connection: session->start() reads, and the next accept is posted.
OnAccept(s) ==
  /\ thread = "idle" /\ listener.accept = "accept" /\ ~listener.stopping
  /\ Cardinality(OpenSessions) < MaximumConnections
  /\ session[s] = NoSession
  /\ session' = [session EXCEPT ![s] = [@ EXCEPT !.open = TRUE, !.op = "read"]]
  /\ UNCHANGED << thread, listener >>

\* One that finds the listener stopping is closed, and one too many as well.
OnAcceptRefused ==
  /\ thread = "idle" /\ listener.accept = "accept"
  /\ listener.stopping \/ Cardinality(OpenSessions) >= MaximumConnections
  /\ listener' = Retry(listener)
  /\ UNCHANGED << thread, session >>

\* on_accept with an error, or no memory for the session.
OnAcceptError ==
  /\ thread = "idle" /\ listener.accept = "accept"
  /\ listener' = Retry(listener)
  /\ UNCHANGED << thread, session >>

OnAcceptRetry ==
  /\ thread = "idle" /\ listener.accept = "retry"
  /\ listener' = [listener EXCEPT !.accept = IF listener.stopping THEN "none" ELSE "accept"]
  /\ UNCHANGED << thread, session >>

\* The call of completion_ has been taken note of.
Settled(p) == [p EXCEPT !.called = FALSE]

\* close() and abort_noexcept() of a session: its probe is cancelled, and the
\* completion finds the session closed.
Closed(s) == [s EXCEPT !.open = FALSE, !.owed = 0, !.probe = Settled(Cancel(@))]

\* stop_on_executor.  close() runs inside the loop over sessions_ and erases its
\* entry there, so the loop may end early: the sessions it has not reached stay.
StopOnExecutor ==
  /\ thread = "idle" /\ listener.posted
  /\ listener' = [listener EXCEPT !.posted = FALSE, !.open = FALSE, !.accept = "none"]
  /\ \E reached \in SUBSET OpenSessions :
       /\ OpenSessions # {} => reached # {}
       /\ session' = [s \in Slots |-> IF s \in reached THEN Closed(session[s]) ELSE session[s]]
  /\ UNCHANGED thread

-----------------------------------------------------------------------------
(* AdminSession                                                            *)

\* A request has been read.
Owe(s) == [s EXCEPT !.owed = @ + 1]

\* write_response: the answer to what is owed.
Write(s) == [s EXCEPT !.op = "write", !.owed = @ - 1]

\* A slot whose session is closed and has no handler left can be used again.
Reap(s) == IF ~s.open /\ s.op = "none" /\ ~Handlers(s) THEN NoSession ELSE s

\* on_read with an error, the end of the stream or the deadline; or the handler
\* of a read that close() cancelled.
OnReadError(s) ==
  /\ thread = "idle" /\ session[s].op = "read"
  /\ session' = [session EXCEPT ![s] = Reap(Closed([@ EXCEPT !.op = "none"]))]
  /\ UNCHANGED << thread, listener >>

\* on_read of a file, or of a request that AdminApi::handle_async refuses.  A read
\* that was done when close() came is answered on the closed socket.
OnReadStatic(s) ==
  /\ thread = "idle" /\ session[s].op = "read"
  /\ session' = [session EXCEPT ![s] = Write(Owe(@))]
  /\ UNCHANGED << thread, listener >>

\* on_read of POST /api/backends/test: the answer is left to the probe.
OnReadProbe(s) ==
  /\ s \in Probers
  /\ thread = "idle" /\ session[s].op = "read" /\ session[s].open
  /\ session' = [session EXCEPT ![s] =
       [Owe(@) EXCEPT !.op = "none", !.probe = StartProbe, !.left = Handlers(session[s])]]
  /\ UNCHANGED << thread, listener >>

\* A handler q of the probe has run: its completion writes, if the session is open.
Completed(s, q) ==
  LET t == [s EXCEPT !.probe = Settled(q)]
  IN  Reap(IF q.called /\ s.open THEN Write(t) ELSE t)

ProbeIo(s, ok, tls) ==
  /\ thread = "idle" /\ session[s].probe.io # "none"
  /\ session' = [session EXCEPT ![s] = Completed(@, OnIo(@.probe, ok, tls))]
  /\ UNCHANGED << thread, listener >>

ProbeTimeout(s) ==
  /\ thread = "idle" /\ session[s].probe.timer
  /\ session' = [session EXCEPT ![s] = Completed(@, OnTimeout(@.probe))]
  /\ UNCHANGED << thread, listener >>

\* The handlers of earlier probes find them finished.
ProbesLeft(s) ==
  /\ thread = "idle" /\ session[s].left
  /\ session' = [session EXCEPT ![s] = Reap([@ EXCEPT !.left = FALSE])]
  /\ UNCHANGED << thread, listener >>

\* Mutant: only the client decides whether the connection is kept.
WrittenKeeping(s, keep_alive) ==
  IF s.open /\ keep_alive THEN [s EXCEPT !.op = "read"] ELSE Reap(Closed([s EXCEPT !.op = "none"]))

\* on_write.
Written(s, keep_alive) ==
  IF s.open /\ keep_alive /\ ~listener.stopping THEN [s EXCEPT !.op = "read"]
  ELSE Reap(Closed([s EXCEPT !.op = "none"]))

OnWrite(s, keep_alive) ==
  /\ thread = "idle" /\ session[s].op = "write"
  /\ session' = [session EXCEPT ![s] = Written(@, keep_alive)]
  /\ UNCHANGED << thread, listener >>

=============================================================================
