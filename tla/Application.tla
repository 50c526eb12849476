---------------------------- MODULE Application ----------------------------
(***************************************************************************)
(* Application::run_server from the first object to the last, as a console *)
(* program or under the service control manager (ServiceRuntime).          *)
(*                                                                         *)
(* Four threads meet here: the one of run_server (`main`), the one that    *)
(* delivers a stop (`requester`: the control handler, or the admin thread  *)
(* in its signal handler), the admin thread, and those of ServerCore       *)
(* (`core`).  std::stop_source runs the stop callback on the requester's   *)
(* thread, step by step, and the destructor of std::stop_callback waits    *)
(* for it.  ServerCore is what Server shows of it: it runs until stop(),   *)
(* and then its threads end.                                               *)
(***************************************************************************)
EXTENDS AdminServer

VARIABLES
  mode,       \* "console" or "service"
  main,       \* where run_server is
  core,       \* the ServerCore object
  active,     \* active_server is not null
  callback,   \* the stop_callback is registered
  requester,  \* where the thread that delivers a stop or a control is
  held,       \* it has read a pointer from active_server
  using,      \* the admin thread is in a call to the ServerCore
  stop_requested,
  signals,    \* an async_wait for signals is pending on the admin io_context
  current_state,  \* ServiceRuntime::current_state_
  scm         \* the state last reported to the service control manager

appVars == << mode, main, core, active, callback, requester, held, using, stop_requested, signals,
              current_state, scm >>
vars == << adminVars, appVars >>

Init ==
  /\ AdminInit
  /\ mode \in {"console", "service"}
  /\ main = "server"
  /\ core = "none"
  /\ active = FALSE
  /\ callback = TRUE
  /\ requester = "idle"
  /\ held = FALSE
  /\ using = FALSE
  /\ stop_requested = FALSE
  /\ signals = FALSE
  /\ current_state = "start_pending"
  /\ scm = "start_pending"

-----------------------------------------------------------------------------
(* ServerCore, seen from outside                                           *)

CoreStopped(c) == IF c = "running" THEN "stopping" ELSE c

\* The sessions have ended and the workers left the io_context.
CoreDrains ==
  /\ core = "stopping"
  /\ core' = "drained"
  /\ UNCHANGED << adminVars, mode, main, active, callback, requester, held, using, stop_requested,
                  signals, current_state, scm >>

-----------------------------------------------------------------------------
(* run_server                                                              *)

Report(state) == current_state' = state /\ scm' = IF mode = "service" THEN state ELSE scm

\* The data plane is built and started, or given up for the recovery mode.
StartServer ==
  /\ main = "server"
  /\ \/ core' = "running" /\ main' = "publish"
     \/ core' = "none" /\ main' = "admin"
  /\ UNCHANGED << adminVars, mode, active, callback, requester, held, using, stop_requested, signals,
                  current_state, scm >>

StoreActive ==
  /\ main = "publish"
  /\ active' = TRUE
  /\ main' = "admin"
  /\ UNCHANGED << adminVars, mode, core, callback, requester, held, using, stop_requested, signals,
                  current_state, scm >>

\* admin_server.start() and, on a console, the wait for signals.
StartAdminServer ==
  /\ main = "admin"
  /\ StartAdmin
  /\ signals' = (mode = "console")
  /\ main' = "ready"
  /\ UNCHANGED << mode, core, active, callback, requester, held, using, stop_requested, current_state, scm >>

\* The thread of the admin server cannot be made: the exception unwinds run_server.
StartAdminThrows ==
  /\ main = "admin"
  /\ listener' = [listener EXCEPT !.started = TRUE, !.accept = "accept"]
  /\ main' = "unwind callback"
  /\ UNCHANGED << thread, session, mode, core, active, callback, requester, held, using, stop_requested, signals,
                  current_state, scm >>

Ready ==
  /\ main = "ready"
  /\ main' = "check"
  /\ Report("running")
  /\ UNCHANGED << adminVars, mode, core, active, callback, requester, held, using, stop_requested, signals >>

\* A stop that has been requested by now is repeated.  Every source of one, the signals
\* and the controls, comes after active_server was stored, so the callback finds the
\* server as well.
CheckStop ==
  /\ main = "check"
  /\ listener' = IF stop_requested THEN Stopped(listener) ELSE listener
  /\ core' = IF stop_requested THEN CoreStopped(core) ELSE core
  /\ main' = IF core = "none" THEN "admin wait" ELSE "wait"
  /\ UNCHANGED << thread, session, mode, active, callback, requester, held, using, stop_requested, signals,
                  current_state, scm >>

\* server->wait() returns.
WaitServer ==
  /\ main = "wait" /\ core = "drained"
  /\ main' = "clear"
  /\ UNCHANGED << adminVars, mode, core, active, callback, requester, held, using, stop_requested, signals,
                  current_state, scm >>

ClearActive ==
  /\ main = "clear"
  /\ active' = FALSE
  /\ listener' = Stopped(listener)
  /\ main' = "admin wait"
  /\ UNCHANGED << thread, session, mode, core, callback, requester, held, using, stop_requested, signals,
                  current_state, scm >>

\* wait() joins the thread, if there is one.
AdminAwaited == thread \in {"none", "ended"}

WaitAdmin ==
  /\ main = "admin wait" /\ AdminAwaited
  /\ main' = "unwind callback"
  /\ UNCHANGED << adminVars, mode, core, active, callback, requester, held, using, stop_requested, signals,
                  current_state, scm >>

\* The locals go in the reverse order of their declaration.  ~stop_callback waits
\* for a callback that runs on another thread.
InCallback == requester \in {"stop admin", "load server", "stop server"}

\* Mutant: the callback may outlive its registration.
CallbackNeverRuns == TRUE

CallbackDone == ~InCallback

UnwindCallback ==
  /\ main = "unwind callback" /\ CallbackDone
  /\ callback' = FALSE
  /\ main' = "unwind admin"
  /\ UNCHANGED << adminVars, mode, core, active, requester, held, using, stop_requested, signals,
                  current_state, scm >>

\* ~AdminServer: stop() and wait().
UnwindAdmin ==
  /\ main = "unwind admin"
  /\ listener' = Stopped(listener)
  /\ main' = "unwind admin wait"
  /\ UNCHANGED << thread, session, mode, core, active, callback, requester, held, using, stop_requested,
                  signals, current_state, scm >>

UnwindAdminWait ==
  /\ main = "unwind admin wait" /\ AdminAwaited
  /\ main' = "unwind server"
  /\ UNCHANGED << adminVars, mode, core, active, callback, requester, held, using, stop_requested, signals,
                  current_state, scm >>

\* ~ServerCore stops and waits, if nobody has.
UnwindServer ==
  /\ main = "unwind server"
  /\ core' = IF core \in {"none", "drained"} THEN "gone" ELSE CoreStopped(core)
  /\ main' = IF core' = "gone" THEN "report" ELSE main
  /\ UNCHANGED << adminVars, mode, active, callback, requester, held, using, stop_requested, signals,
                  current_state, scm >>

\* ServiceRuntime::execute after the worker has returned or thrown.
ReportStopped ==
  /\ main = "report"
  /\ main' = "ended"
  /\ Report("stopped")
  /\ UNCHANGED << adminVars, mode, core, active, callback, requester, held, using, stop_requested, signals >>

-----------------------------------------------------------------------------
(* The thread that asks for the stop                                       *)

\* SERVICE_CONTROL_STOP or SHUTDOWN, which the manager sends to a service it
\* believes is running, one control at a time.
ControlStop ==
  /\ mode = "service" /\ scm = "running" /\ requester = "idle"
  /\ IF current_state = "running"
     THEN Report("stop_pending") /\ requester' = "request"
     ELSE UNCHANGED << current_state, scm, requester >>
  /\ UNCHANGED << adminVars, mode, main, core, active, callback, held, using, stop_requested, signals >>

\* SERVICE_CONTROL_INTERROGATE reads the state and reports it again.
ControlInterrogate ==
  /\ mode = "service" /\ scm = "running" /\ requester = "idle"
  /\ requester' = current_state
  /\ UNCHANGED << adminVars, mode, main, core, active, callback, held, using, stop_requested, signals,
                  current_state, scm >>

ReportAgain ==
  /\ requester \in {"start_pending", "running", "stop_pending", "stopped"}
  /\ Report(requester)
  /\ requester' = "idle"
  /\ UNCHANGED << adminVars, mode, main, core, active, callback, held, using, stop_requested, signals >>

\* SIGINT or SIGTERM: the handler runs on the admin thread.
Signal ==
  /\ signals /\ thread = "idle"
  /\ signals' = FALSE
  /\ thread' = "signal"
  /\ requester' = "request"
  /\ UNCHANGED << listener, session, mode, main, core, active, callback, held, using, stop_requested,
                  current_state, scm >>

\* request_stop(): the first call runs the callback, if it is still registered.
RequestStop ==
  /\ requester = "request"
  /\ stop_requested' = TRUE
  /\ requester' = IF callback /\ ~stop_requested THEN "stop admin" ELSE "return"
  /\ UNCHANGED << adminVars, mode, main, core, active, callback, held, using, signals, current_state, scm >>

CallbackStopsAdmin ==
  /\ requester = "stop admin"
  /\ listener' = Stopped(listener)
  /\ requester' = "load server"
  /\ UNCHANGED << thread, session, mode, main, core, active, callback, held, using, stop_requested, signals,
                  current_state, scm >>

CallbackLoadsServer ==
  /\ requester = "load server"
  /\ held' = active
  /\ requester' = IF active THEN "stop server" ELSE "return"
  /\ UNCHANGED << adminVars, mode, main, core, active, callback, using, stop_requested, signals,
                  current_state, scm >>

CallbackStopsServer ==
  /\ requester = "stop server"
  /\ core' = CoreStopped(core)
  /\ held' = FALSE
  /\ requester' = "return"
  /\ UNCHANGED << adminVars, mode, main, active, callback, using, stop_requested, signals,
                  current_state, scm >>

RequestReturns ==
  /\ requester = "return"
  /\ requester' = "idle"
  /\ thread' = IF thread = "signal" THEN "idle" ELSE thread
  /\ UNCHANGED << listener, session, mode, main, core, active, callback, held, using, stop_requested,
                  signals, current_state, scm >>

-----------------------------------------------------------------------------
(* Requests that call into the ServerCore                                  *)

\* on_read of a request for the listeners' status, through active_server, or of a
\* change of the configuration, through the reload handler.
OnReadApi(s) ==
  /\ thread = "idle" /\ session[s].op = "read" /\ session[s].open
  /\ thread' = "api"
  /\ using' \in {active, core # "none"}
  /\ session' = [session EXCEPT ![s] = [Owe(@) EXCEPT !.op = "none"]]
  /\ UNCHANGED << listener, mode, main, core, active, callback, requester, held, stop_requested,
                  signals, current_state, scm >>

Served(s) == session[s].owed = 1 /\ session[s].probe.finished

ApiReturns(s) ==
  /\ thread = "api" /\ Served(s)
  /\ thread' = "idle"
  /\ using' = FALSE
  /\ session' = [session EXCEPT ![s] = Write(@)]
  /\ UNCHANGED << listener, mode, main, core, active, callback, requester, held, stop_requested,
                  signals, current_state, scm >>

-----------------------------------------------------------------------------
(* The specification                                                       *)

MainStep ==
  \/ StartServer \/ StoreActive \/ StartAdminServer \/ StartAdminThrows \/ Ready \/ CheckStop
  \/ WaitServer \/ ClearActive \/ WaitAdmin \/ UnwindCallback \/ UnwindAdmin \/ UnwindAdminWait
  \/ UnwindServer \/ ReportStopped

RequesterStep ==
  \/ ReportAgain \/ RequestStop \/ CallbackStopsAdmin \/ CallbackLoadsServer \/ CallbackStopsServer
  \/ RequestReturns

AdminListens == /\ (\E s \in Slots : OnAccept(s)) \/ OnAcceptRefused \/ OnAcceptError
                /\ UNCHANGED appVars
AdminRetries == OnAcceptRetry /\ UNCHANGED appVars
AdminStops == StopOnExecutor /\ UNCHANGED appVars
AdminEnds == EndThread(signals) /\ UNCHANGED appVars
Reads(s) ==
  \/ /\ OnReadError(s) \/ OnReadStatic(s) \/ OnReadProbe(s)
     /\ UNCHANGED appVars
  \/ OnReadApi(s)
Writes(s) == (\E keep_alive \in BOOLEAN : OnWrite(s, keep_alive)) /\ UNCHANGED appVars
Probes(s) == (\E ok, tls \in BOOLEAN : ProbeIo(s, ok, tls)) /\ UNCHANGED appVars
TimesOut(s) == ProbeTimeout(s) /\ UNCHANGED appVars
Leaves(s) == ProbesLeft(s) /\ UNCHANGED appVars

Terminated == main = "ended" /\ requester = "idle" /\ UNCHANGED vars

Next ==
  \/ MainStep \/ RequesterStep \/ CoreDrains
  \/ ControlStop \/ ControlInterrogate \/ Signal
  \/ AdminListens \/ AdminRetries \/ AdminStops \/ AdminEnds
  \/ \E s \in Slots : Reads(s) \/ Writes(s) \/ Probes(s) \/ TimesOut(s) \/ Leaves(s) \/ ApiReturns(s)
  \/ Terminated

\* Threads that can run do; the deadlines of reads and writes, the timer of a probe
\* and the resolver's return bring every handler about; ServerCore drains, as Server
\* shows.  Nothing makes clients connect or anyone ask for a stop.
Fairness ==
  /\ WF_vars(MainStep) /\ WF_vars(RequesterStep) /\ WF_vars(CoreDrains)
  /\ WF_vars(AdminRetries) /\ WF_vars(AdminStops) /\ WF_vars(AdminEnds)
  /\ \A s \in Slots :
       /\ WF_vars(Reads(s)) /\ WF_vars(Writes(s)) /\ WF_vars(Probes(s))
       /\ WF_vars(TimesOut(s)) /\ WF_vars(Leaves(s)) /\ WF_vars(ApiReturns(s))

Spec == Init /\ [][Next]_vars /\ Fairness

-----------------------------------------------------------------------------
(* Properties                                                              *)

\* The stop callback, the admin thread and the ServerCore are used by threads that
\* do not own them: no object run_server destroys is gone while another thread is
\* in it, and the service reports STOPPED only when nothing of the server is left.
UsedWhileAlive ==
  /\ held \/ using => core \notin {"none", "gone"}
  /\ InCallback => callback
  /\ thread \notin {"none", "ended"} => main \notin {"unwind server", "report", "ended"}
  /\ mode = "service" /\ scm = "stopped" =>
       core = "gone" /\ ~callback /\ ~held /\ ~using /\ thread \in {"none", "ended"}

\* An admin session that is open has exactly one thing going on: it reads, it
\* writes the answer to its request, or the request is with the API or a probe that
\* has not completed.  So a request is answered once, whichever of the probe's
\* timer, its handlers and a close comes first, and two writes never meet.
AnswersOnce ==
  /\ Cardinality(OpenSessions) <= MaximumConnections
  /\ \A s \in Slots :
       /\ session[s].owed \in {0, 1}
       /\ session[s].op # "none" => session[s].owed = 0
       /\ session[s].open /\ session[s].op = "none" =>
            /\ session[s].owed = 1
            /\ (thread = "api" /\ Served(s)) # ~session[s].probe.finished

\* A stop that is asked for, by a control or a signal at any moment, and a failed
\* start end the process; and the last state the manager is told is STOPPED, also
\* if it asks for the state in between.
StopEndsProcess ==
  (requester = "request" \/ main = "unwind callback")
    ~> [](main = "ended" /\ (mode = "service" => scm = "stopped"))

=============================================================================
