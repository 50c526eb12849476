-------------------------- MODULE ApplicationProofs --------------------------
(***************************************************************************)
(* Proofs about Application.  Its invariant has two parts that only share  *)
(* the admin thread: Control says where the threads can be and which       *)
(* objects exist then, Serving what an admin session owes its client.      *)
(***************************************************************************)
EXTENDS Application, FiniteSetTheorems, TLAPS

Mains == {"server", "publish", "admin", "ready", "check", "wait", "clear", "admin wait",
          "unwind callback", "unwind admin", "unwind admin wait", "unwind server", "report",
          "ended"}
States == {"start_pending", "running", "stop_pending", "stopped"}
Requesters == States \cup {"idle", "request", "stop admin", "load server", "stop server",
                         "return"}

ControlType ==
  /\ mode \in {"console", "service"} /\ main \in Mains
  /\ core \in {"none", "running", "stopping", "drained", "gone"}
  /\ active \in BOOLEAN /\ callback \in BOOLEAN /\ held \in BOOLEAN /\ using \in BOOLEAN
  /\ stop_requested \in BOOLEAN /\ signals \in BOOLEAN
  /\ requester \in Requesters
  /\ current_state \in States /\ scm \in States
  /\ thread \in {"none", "idle", "signal", "api", "ended"}

\* Where run_server is says which objects there are.
Control ==
  /\ main = "server" => core = "none" /\ ~active /\ ~held /\ ~using
  /\ main \in {"server", "publish", "admin"} => thread = "none"
  /\ main = "publish" => core \notin {"none", "gone"}
  /\ active \/ held \/ using => core # "none"
  /\ core = "gone" <=> main \in {"report", "ended"}
  /\ held => requester = "stop server"
  /\ InCallback => callback
  /\ callback <=> main \notin {"unwind admin", "unwind admin wait", "unwind server", "report",
                               "ended"}
  /\ using => thread = "api"
  /\ main \in {"unwind server", "report", "ended"} => thread \in {"none", "ended"}
  /\ signals => mode = "console"
  /\ mode = "console" /\ thread # "signal" => requester = "idle"
  /\ current_state = "stopped" \/ requester = "stopped" \/ (mode = "service" /\ scm = "stopped")
       => main = "ended"

\* Every step of run_server keeps the control invariant: an object goes only after the
\* threads that may be in it have been waited for.
LEMMA MainKeepsControl ==
  ASSUME ControlType, Control, MainStep
  PROVE  ControlType' /\ Control'
<1>1. CASE StartServer
  <2>1. ControlType'
    BY <1>1 DEF StartServer, ControlType, Mains, adminVars
  <2>2. Control'
    BY <1>1 DEF StartServer, ControlType, Control, InCallback, adminVars
  <2> QED  BY <2>1, <2>2
<1>2. CASE StoreActive
  <2>1. ControlType'
    BY <1>2 DEF StoreActive, ControlType, Mains, adminVars
  <2>2. Control'
    BY <1>2 DEF StoreActive, ControlType, Control, InCallback, adminVars
  <2> QED  BY <2>1, <2>2
<1>3. CASE StartAdminServer
  <2>1. ControlType'
    BY <1>3 DEF StartAdminServer, StartAdmin, ControlType, Mains, adminVars
  <2>2. Control'
    BY <1>3 DEF StartAdminServer, StartAdmin, ControlType, Control, InCallback, adminVars
  <2> QED  BY <2>1, <2>2
<1>4. CASE StartAdminThrows
  <2>1. ControlType'
    BY <1>4 DEF StartAdminThrows, ControlType, Mains, adminVars
  <2>2. Control'
    BY <1>4 DEF StartAdminThrows, ControlType, Control, InCallback, adminVars
  <2> QED  BY <2>1, <2>2
<1>5. CASE Ready
  <2>1. ControlType'
    BY <1>5 DEF Ready, Report, ControlType, Mains, States, adminVars
  <2>2. Control'
    BY <1>5 DEF Ready, Report, ControlType, Control, InCallback, adminVars
  <2> QED  BY <2>1, <2>2
<1>6. CASE CheckStop
  <2>1. ControlType'
    BY <1>6 DEF CheckStop, CoreStopped, ControlType, Mains, adminVars
  <2>2. Control'
    BY <1>6 DEF CheckStop, CoreStopped, ControlType, Control, InCallback, adminVars
  <2> QED  BY <2>1, <2>2
<1>7. CASE WaitServer
  <2>1. ControlType'
    BY <1>7 DEF WaitServer, ControlType, Mains, adminVars
  <2>2. Control'
    BY <1>7 DEF WaitServer, ControlType, Control, InCallback, adminVars
  <2> QED  BY <2>1, <2>2
<1>8. CASE ClearActive
  <2>1. ControlType'
    BY <1>8 DEF ClearActive, ControlType, Mains, adminVars
  <2>2. Control'
    BY <1>8 DEF ClearActive, ControlType, Control, InCallback, adminVars
  <2> QED  BY <2>1, <2>2
<1>9. CASE WaitAdmin
  <2>1. ControlType'
    BY <1>9 DEF WaitAdmin, ControlType, Mains, adminVars
  <2>2. Control'
    BY <1>9 DEF WaitAdmin, ControlType, Control, InCallback, adminVars
  <2> QED  BY <2>1, <2>2
<1>10. CASE UnwindCallback
  <2>1. ControlType'
    BY <1>10 DEF UnwindCallback, CallbackDone, ControlType, Mains, adminVars
  <2>2. Control'
    BY <1>10 DEF UnwindCallback, CallbackDone, ControlType, Control, InCallback, adminVars
  <2> QED  BY <2>1, <2>2
<1>11. CASE UnwindAdmin
  <2>1. ControlType'
    BY <1>11 DEF UnwindAdmin, ControlType, Mains, adminVars
  <2>2. Control'
    BY <1>11 DEF UnwindAdmin, ControlType, Control, InCallback, adminVars
  <2> QED  BY <2>1, <2>2
<1>12. CASE UnwindAdminWait
  <2>1. ControlType'
    BY <1>12 DEF UnwindAdminWait, AdminAwaited, ControlType, Mains, adminVars
  <2>2. Control'
    BY <1>12 DEF UnwindAdminWait, AdminAwaited, ControlType, Control, InCallback, adminVars
  <2> QED  BY <2>1, <2>2
<1>13. CASE UnwindServer
  <2>1. ControlType'
    BY <1>13 DEF UnwindServer, CoreStopped, ControlType, Mains, adminVars
  <2>2. Control'
    BY <1>13 DEF UnwindServer, CoreStopped, ControlType, Control, InCallback, adminVars
  <2> QED  BY <2>1, <2>2
<1>14. CASE ReportStopped
  <2>1. ControlType'
    BY <1>14 DEF ReportStopped, Report, ControlType, Mains, States, adminVars
  <2>2. Control'
    BY <1>14 DEF ReportStopped, Report, ControlType, Control, InCallback, adminVars
  <2> QED  BY <2>1, <2>2
<1> QED
  BY <1>1, <1>2, <1>3, <1>4, <1>5, <1>6, <1>7, <1>8, <1>9, <1>10, <1>11, <1>12, <1>13, <1>14 DEF MainStep

\* Every step of the thread that asks for the stop keeps it, the stop callback included.
LEMMA RequesterKeepsControl ==
  ASSUME ControlType, Control, RequesterStep
  PROVE  ControlType' /\ Control'
<1>1. CASE ReportAgain
  <2>1. ControlType'
    <3>1. current_state' \in States /\ scm' \in States /\ requester' \in Requesters
      BY <1>1 DEF ReportAgain, Report, ControlType, States, Requesters
    <3> QED  BY <1>1, <3>1 DEF ReportAgain, ControlType, adminVars
  <2>2. Control'
    BY <1>1 DEF ReportAgain, Report, ControlType, Control, InCallback, adminVars
  <2> QED  BY <2>1, <2>2
<1>2. CASE RequestStop
  <2>1. ControlType'
    BY <1>2 DEF RequestStop, ControlType, Requesters, adminVars
  <2>2. Control'
    BY <1>2 DEF RequestStop, ControlType, Control, InCallback, adminVars
  <2> QED  BY <2>1, <2>2
<1>3. CASE CallbackStopsAdmin
  <2>1. ControlType'
    BY <1>3 DEF CallbackStopsAdmin, ControlType, Requesters, adminVars
  <2>2. Control'
    BY <1>3 DEF CallbackStopsAdmin, ControlType, Control, InCallback, adminVars
  <2> QED  BY <2>1, <2>2
<1>4. CASE CallbackLoadsServer
  <2>1. ControlType'
    BY <1>4 DEF CallbackLoadsServer, ControlType, Requesters, adminVars
  <2>2. Control'
    BY <1>4 DEF CallbackLoadsServer, ControlType, Control, InCallback, adminVars
  <2> QED  BY <2>1, <2>2
<1>5. CASE CallbackStopsServer
  <2>1. ControlType'
    BY <1>5 DEF CallbackStopsServer, CoreStopped, ControlType, Requesters, adminVars
  <2>2. Control'
    BY <1>5 DEF CallbackStopsServer, CoreStopped, ControlType, Control, InCallback, adminVars
  <2> QED  BY <2>1, <2>2
<1>6. CASE RequestReturns
  <2>1. ControlType'
    BY <1>6 DEF RequestReturns, ControlType, Requesters, adminVars
  <2>2. Control'
    BY <1>6 DEF RequestReturns, ControlType, Control, InCallback, adminVars
  <2> QED  BY <2>1, <2>2
<1> QED
  BY <1>1, <1>2, <1>3, <1>4, <1>5, <1>6 DEF RequesterStep

\* So do a control of the service manager, a signal, and the end of ServerCore's threads.
LEMMA EnvironmentKeepsControl ==
  ASSUME ControlType, Control, CoreDrains \/ ControlStop \/ ControlInterrogate \/ Signal
  PROVE  ControlType' /\ Control'
<1>1. CASE CoreDrains
  <2>1. ControlType'
    BY <1>1 DEF CoreDrains, ControlType, adminVars
  <2>2. Control'
    BY <1>1 DEF CoreDrains, ControlType, Control, InCallback, adminVars
  <2> QED  BY <2>1, <2>2
<1>2. CASE ControlStop
  <2>1. ControlType'
    <3>1. current_state' \in States /\ scm' \in States /\ requester' \in Requesters
      BY <1>2 DEF ControlStop, Report, ControlType, States, Requesters
    <3> QED  BY <1>2, <3>1 DEF ControlStop, ControlType, adminVars
  <2>2. Control'
    BY <1>2 DEF ControlStop, Report, ControlType, Control, InCallback, adminVars
  <2> QED  BY <2>1, <2>2
<1>3. CASE ControlInterrogate
  <2>1. ControlType'
    BY <1>3 DEF ControlInterrogate, ControlType, Requesters, adminVars
  <2>2. Control'
    BY <1>3 DEF ControlInterrogate, ControlType, States, Control, InCallback, adminVars
  <2> QED  BY <2>1, <2>2
<1>4. CASE Signal
  <2>1. ControlType'
    BY <1>4 DEF Signal, ControlType, Requesters
  <2>2. Control'
    BY <1>4 DEF Signal, ControlType, Control, InCallback
  <2> QED  BY <2>1, <2>2
<1> QED  BY <1>1, <1>2, <1>3, <1>4

\* A handler of the admin thread that leaves run_server's objects alone keeps it, and so
\* does the end of that thread.
LEMMA ThreadKeepsControl ==
  ASSUME ControlType, Control, UNCHANGED appVars,
         thread' = thread \/ (thread = "idle" /\ thread' = "ended")
  PROVE  ControlType' /\ Control'
<1>1. ControlType'
  BY DEF ControlType, appVars
<1>2. Control'
  BY DEF ControlType, Control, InCallback, appVars
<1> QED  BY <1>1, <1>2

\* A request that calls into the ServerCore keeps it: the call is made on the admin
\* thread, which run_server waits for before the ServerCore goes.
LEMMA ApiKeepsControl ==
  ASSUME ControlType, Control, NEW s \in Slots, OnReadApi(s) \/ ApiReturns(s)
  PROVE  ControlType' /\ Control'
<1>1. CASE OnReadApi(s)
  <2>1. using' \in BOOLEAN /\ (using' => core # "none")
    BY <1>1 DEF OnReadApi, ControlType, Control
  <2>2. ControlType'
    BY <1>1, <2>1 DEF OnReadApi, ControlType
  <2>3. Control'
    BY <1>1, <2>1 DEF OnReadApi, ControlType, Control, InCallback
  <2> QED  BY <2>2, <2>3
<1>2. CASE ApiReturns(s)
  <2>1. ControlType'
    BY <1>2 DEF ApiReturns, ControlType
  <2>2. Control'
    BY <1>2 DEF ApiReturns, ControlType, Control, InCallback
  <2> QED  BY <2>1, <2>2
<1> QED  BY <1>1, <1>2

\* Every step keeps the control invariant.
LEMMA NextKeepsControl ==
  ASSUME ControlType, Control, [Next]_vars
  PROVE  ControlType' /\ Control'
<1>1. CASE MainStep
  BY <1>1, MainKeepsControl
<1>2. CASE RequesterStep
  BY <1>2, RequesterKeepsControl
<1>3. CASE CoreDrains \/ ControlStop \/ ControlInterrogate \/ Signal
  BY <1>3, EnvironmentKeepsControl
<1>4. CASE AdminListens \/ AdminRetries \/ AdminStops \/ AdminEnds
  <2>1. UNCHANGED appVars /\ (thread' = thread \/ (thread = "idle" /\ thread' = "ended"))
    BY <1>4 DEF AdminListens, AdminRetries, AdminStops, AdminEnds, OnAccept, OnAcceptRefused,
                OnAcceptError, OnAcceptRetry, StopOnExecutor, EndThread
  <2> QED  BY <2>1, ThreadKeepsControl
<1>5. ASSUME NEW s \in Slots, Reads(s) \/ Writes(s) \/ Probes(s) \/ TimesOut(s) \/ Leaves(s)
      PROVE  ControlType' /\ Control'
  <2>1. CASE OnReadApi(s)
    BY <2>1, ApiKeepsControl
  <2>2. CASE ~OnReadApi(s)
    <3>1. UNCHANGED appVars /\ thread' = thread
      BY <1>5, <2>2 DEF Reads, Writes, Probes, TimesOut, Leaves, OnReadError, OnReadStatic,
                        OnReadProbe, OnWrite, ProbeIo, ProbeTimeout, ProbesLeft
    <3> QED  BY <3>1, ThreadKeepsControl
  <2> QED  BY <2>1, <2>2
<1>6. ASSUME NEW s \in Slots, ApiReturns(s)
      PROVE  ControlType' /\ Control'
  BY <1>6, ApiKeepsControl
<1>7. CASE Terminated \/ UNCHANGED vars
  BY <1>7, ThreadKeepsControl DEF Terminated, vars, adminVars
<1> QED  BY <1>1, <1>2, <1>3, <1>4, <1>5, <1>6, <1>7 DEF Next

\* run_server starts with nothing but its stop callback.
LEMMA ControlInit ==
  ASSUME Init
  PROVE  ControlType /\ Control
<1>1. ControlType
  BY DEF Init, AdminInit, ControlType, Mains, States, Requesters
<1>2. Control
  BY DEF Init, AdminInit, Control, InCallback
<1> QED  BY <1>1, <1>2

\* The control invariant holds in every reachable state, in a console and in a service.
THEOREM ControlHolds == Spec => [](ControlType /\ Control)
<1>1. Init => ControlType /\ Control
  BY ControlInit
<1>2. (ControlType /\ Control) /\ [Next]_vars => (ControlType /\ Control)'
  BY NextKeepsControl
<1> QED  BY <1>1, <1>2, PTL DEF Spec

\* No object run_server destroys is gone while the stop callback or the admin thread is in
\* it, and STOPPED is reported only when nothing of the server is left.
THEOREM UsedWhileAliveHolds == Spec => []UsedWhileAlive
<1>1. ControlType /\ Control => UsedWhileAlive
  BY DEF ControlType, Control, UsedWhileAlive, InCallback
<1> QED  BY <1>1, ControlHolds, PTL

-----------------------------------------------------------------------------
(* The admin sessions                                                      *)

Probe == [io: {"none", "resolve", "connect", "handshake"}, timer: BOOLEAN, finished: BOOLEAN,
          called: BOOLEAN]

SessionType == [open: BOOLEAN, op: {"none", "read", "write"}, owed: {0, 1}, probe: Probe,
                left: BOOLEAN]

\* An answer is owed exactly while an open session neither reads nor writes, and a
\* probe that runs belongs to such a session.
Ordered(r) ==
  /\ r \in SessionType
  /\ ~r.probe.called
  /\ r.op # "none" \/ ~r.open => r.owed = 0
  /\ r.open /\ r.op = "none" => r.owed = 1
  /\ ~r.probe.finished => r.open /\ r.op = "none"

\* The request is with the API: it is owed an answer and no probe will give it.
InApi(r) == r.owed = 1 /\ r.probe.finished

Serving ==
  /\ session \in [Slots -> SessionType]
  /\ \A s \in Slots : Ordered(session[s])
  /\ \A s \in Slots : InApi(session[s]) => thread = "api"
  /\ \A s, t \in Slots : InApi(session[s]) /\ InApi(session[t]) => s = t
  /\ Cardinality(OpenSessions) <= MaximumConnections

\* A slot without a session owes nothing.
LEMMA NoSessionOrdered == Ordered(NoSession) /\ ~InApi(NoSession) /\ ~NoSession.open
BY DEF Ordered, InApi, NoSession, NoProbe, SessionType, Probe

\* Letting go of a closed session without handlers keeps the order.
LEMMA ReapOrdered ==
  ASSUME NEW r, Ordered(r), ~InApi(r)
  PROVE  LET z == Reap(r) IN Ordered(z) /\ ~InApi(z) /\ (z.open => r.open)
BY NoSessionOrdered DEF Reap

\* cancel() finishes a probe, and its completion has been taken note of.
LEMMA CancelFinishes ==
  ASSUME NEW p \in Probe
  PROVE  LET q == Settled(Cancel(p)) IN q \in Probe /\ ~q.called /\ q.finished
BY DEF Settled, Cancel, Finish, Probe

\* close() leaves a session that owes nothing, whatever it was doing.
LEMMA ClosedOrdered ==
  ASSUME NEW r \in SessionType
  PROVE  LET z == Closed(r) IN Ordered(z) /\ ~InApi(z) /\ ~z.open
<1> DEFINE q == Settled(Cancel(r.probe))
           z == [r EXCEPT !.open = FALSE, !.owed = 0, !.probe = q]
<1>1. q \in Probe /\ ~q.called /\ q.finished
  BY CancelFinishes DEF SessionType
<1>2. Closed(r) = z
  BY DEF Closed
<1> HIDE DEF q
<1>3. z \in SessionType /\ z.open = FALSE /\ z.owed = 0 /\ z.probe = q /\ z.op = r.op
  BY <1>1 DEF SessionType
<1> HIDE DEF z
<1> QED  BY <1>1, <1>2, <1>3 DEF Ordered, InApi

\* Reading a request changes nothing but what is owed.
LEMMA OweOwes ==
  ASSUME NEW r \in SessionType, r.owed = 0
  PROVE  LET o == Owe(r)
         IN  /\ o \in SessionType /\ o.owed = 1
             /\ o.probe = r.probe /\ o.open = r.open /\ o.op = r.op
<1>1. Owe(r) = [r EXCEPT !.owed = 1]
  BY DEF Owe
<1> QED  BY <1>1 DEF SessionType

\* write_response gives the one answer that is owed.
LEMMA WriteOrdered ==
  ASSUME NEW r \in SessionType, r.owed = 1, r.probe.finished, ~r.probe.called
  PROVE  LET z == Write(r) IN Ordered(z) /\ ~InApi(z) /\ z.open = r.open
<1> DEFINE z == Write(r)
<1>1. z = [r EXCEPT !.op = "write", !.owed = 0]
  BY DEF Write, SessionType
<1> HIDE DEF z
<1>2. z \in SessionType /\ z.open = r.open /\ z.owed = 0 /\ z.probe = r.probe /\ z.op = "write"
  BY <1>1 DEF SessionType
<1> QED  BY <1>2 DEF z, Ordered, InApi

\* What a handler of a probe makes of it: it calls the completion exactly if it
\* finishes the probe.
Reports(p, q) ==
  /\ q \in Probe
  /\ p.finished => q.finished
  /\ q.called <=> (q.finished /\ ~p.finished)

\* finish() calls the completion exactly if the probe was not finished.
LEMMA FinishReports ==
  ASSUME NEW p \in Probe, NEW q \in Probe, ~q.called, q.finished = p.finished
  PROVE  Reports(p, Finish(q))
BY DEF Finish, Reports, Probe

\* So does every handler of the probe's resolver, connect and handshake.
LEMMA OnIoReports ==
  ASSUME NEW p \in Probe, ~p.called, p.io # "none", NEW ok \in BOOLEAN, NEW tls \in BOOLEAN
  PROVE  Reports(p, OnIo(p, ok, tls))
<1> DEFINE q(io) == [p EXCEPT !.io = io]
<1>1. ASSUME NEW io \in {"none", "connect", "handshake"}
      PROVE  q(io) \in Probe /\ ~q(io).called /\ q(io).finished = p.finished
  BY DEF Probe
<1>2. Reports(p, Finish(q("none")))
  BY <1>1, FinishReports
<1>3. ASSUME NEW io \in {"none", "connect", "handshake"}
      PROVE  Reports(p, q(io))
  BY <1>1, <1>3 DEF Reports, Probe
<1> HIDE DEF q
<1>4. CASE p.io = "resolve"
  BY <1>2, <1>3, <1>4 DEF OnIo, OnResolved, q
<1>5. CASE p.io = "connect"
  BY <1>2, <1>3, <1>5 DEF OnIo, OnConnected, q
<1>6. CASE p.io = "handshake"
  BY <1>2, <1>6 DEF OnIo, OnTlsHandshake, q
<1> QED  BY <1>4, <1>5, <1>6 DEF Probe

\* So does its timer.
LEMMA OnTimeoutReports ==
  ASSUME NEW p \in Probe, ~p.called
  PROVE  Reports(p, OnTimeout(p))
<1> DEFINE q == [p EXCEPT !.timer = FALSE]
<1>1. q \in Probe /\ ~q.called /\ q.finished = p.finished
  BY DEF Probe
<1>2. Reports(p, Finish(q))
  BY <1>1, FinishReports
<1>3. p.finished => Reports(p, q)
  BY <1>1 DEF Reports
<1> QED  BY <1>2, <1>3 DEF OnTimeout

\* The completion of a probe writes the answer its session owes, or finds it closed.
LEMMA CompletedOrdered ==
  ASSUME NEW r, NEW q, Ordered(r), ~InApi(r), Reports(r.probe, q)
  PROVE  LET z == Completed(r, q) IN Ordered(z) /\ ~InApi(z) /\ (z.open => r.open)
<1> DEFINE p == Settled(q)
           t == [r EXCEPT !.probe = p]
<1>1. p \in Probe /\ ~p.called /\ p.finished = q.finished
  BY DEF Reports, Settled, Probe
<1> HIDE DEF p
<1>2. t \in SessionType /\ t.probe = p /\ t.open = r.open /\ t.owed = r.owed /\ t.op = r.op
  BY <1>1 DEF Ordered, SessionType
<1>3. Completed(r, q) = Reap(IF q.called /\ r.open THEN Write(t) ELSE t)
  BY DEF Completed, p
<1> HIDE DEF t
<1>4. CASE q.called /\ r.open
  <2>1. t.owed = 1 /\ t.probe.finished /\ ~t.probe.called
    BY <1>1, <1>2, <1>4 DEF Reports, Ordered
  <2>2. LET z == Write(t) IN Ordered(z) /\ ~InApi(z) /\ z.open = r.open
    BY <1>2, <2>1, WriteOrdered
  <2> QED  BY <1>3, <1>4, <2>2, ReapOrdered
<1>5. CASE ~(q.called /\ r.open)
  <2>1. q.finished <=> r.probe.finished
    BY <1>5 DEF Reports, Ordered
  <2>2. Ordered(t) /\ ~InApi(t)
    BY <1>1, <1>2, <2>1 DEF Ordered, InApi
  <2> QED  BY <1>2, <1>3, <1>5, <2>2, ReapOrdered
<1> QED  BY <1>4, <1>5

\* A handler that changes one session and opens none keeps the sessions' invariant.
LEMMA ReplacingKeepsServing ==
  ASSUME Serving, NEW s \in Slots, NEW z, Ordered(z), ~InApi(z),
         z.open => session[s].open,
         \A t \in Slots \ {s} : ~InApi(session[t]),
         session' = [session EXCEPT ![s] = z]
  PROVE  Serving'
<1>1. session' \in [Slots -> SessionType]
  BY DEF Serving, Ordered
<1>2. \A t \in Slots : Ordered(session'[t]) /\ ~InApi(session'[t])
  BY DEF Serving
<1>3. OpenSessions' \subseteq OpenSessions
  BY DEF OpenSessions, Serving
<1>4. Cardinality(OpenSessions') <= MaximumConnections
  <2>1. IsFiniteSet(OpenSessions)
    BY AdminAssumption, FS_Subset DEF OpenSessions
  <2>2. Cardinality(OpenSessions') <= Cardinality(OpenSessions) /\ IsFiniteSet(OpenSessions')
    BY <1>3, <2>1, FS_Subset
  <2>3. Cardinality(OpenSessions) \in Nat /\ Cardinality(OpenSessions') \in Nat
    BY <2>1, <2>2, FS_CardinalityType
  <2>4. MaximumConnections \in Int
    BY AdminAssumption, FS_CardinalityType
  <2> QED  BY <2>2, <2>3, <2>4 DEF Serving
<1> QED  BY <1>1, <1>2, <1>4 DEF Serving

\* Between two handlers no request is with the API: it answers within its handler.
LEMMA NobodyInApi ==
  ASSUME Serving, thread # "api"
  PROVE  \A t \in Slots : ~InApi(session[t])
BY DEF Serving

\* on_accept takes one connection more, and never the one too many.
LEMMA OnAcceptKeepsServing ==
  ASSUME Serving, NEW s \in Slots, OnAccept(s)
  PROVE  Serving'
<1> DEFINE z == [NoSession EXCEPT !.open = TRUE, !.op = "read"]
<1>0. /\ z \in SessionType /\ z.open = TRUE /\ z.op = "read" /\ z.owed = 0
      /\ z.probe = NoSession.probe
  BY NoSessionOrdered DEF Ordered, NoSession, SessionType
<1>1. Ordered(z) /\ ~InApi(z)
  <2> HIDE DEF z
  <2> QED  BY <1>0, NoSessionOrdered DEF Ordered, InApi
<1>2. session' = [session EXCEPT ![s] = z]
  BY DEF OnAccept
<1> HIDE DEF z
<1>3. session' \in [Slots -> SessionType]
  BY <1>1, <1>2 DEF Serving, Ordered
<1>4. \A t \in Slots : Ordered(session'[t]) /\ ~InApi(session'[t])
  BY <1>1, <1>2, NobodyInApi DEF Serving, OnAccept
<1>5. Cardinality(OpenSessions') <= MaximumConnections
  <2>1. IsFiniteSet(OpenSessions)
    BY AdminAssumption, FS_Subset DEF OpenSessions
  <2>2. OpenSessions' \subseteq OpenSessions \cup {s}
    BY <1>2 DEF OpenSessions, Serving
  <2>3. s \notin OpenSessions
    BY DEF OpenSessions, OnAccept, NoSession
  <2>4. /\ IsFiniteSet(OpenSessions \cup {s})
        /\ Cardinality(OpenSessions \cup {s}) = Cardinality(OpenSessions) + 1
    BY <2>1, <2>3, FS_AddElement
  <2>5. Cardinality(OpenSessions') <= Cardinality(OpenSessions) + 1 /\ IsFiniteSet(OpenSessions')
    BY <2>2, <2>4, FS_Subset
  <2>6. Cardinality(OpenSessions) \in Nat /\ Cardinality(OpenSessions') \in Nat
    BY <2>1, <2>5, FS_CardinalityType
  <2>7. MaximumConnections \in Int
    BY AdminAssumption, FS_CardinalityType
  <2> QED  BY <2>5, <2>6, <2>7 DEF OnAccept
<1> QED  BY <1>3, <1>4, <1>5 DEF Serving

\* stop_on_executor closes the sessions its loop reaches and leaves the others in order.
LEMMA StopOnExecutorKeepsServing ==
  ASSUME Serving, StopOnExecutor
  PROVE  Serving'
<1>1. PICK reached \in SUBSET OpenSessions :
        session' = [s \in Slots |-> IF s \in reached THEN Closed(session[s]) ELSE session[s]]
  BY DEF StopOnExecutor
<1>2. ASSUME NEW s \in Slots
      PROVE  /\ Ordered(session'[s]) /\ ~InApi(session'[s])
             /\ session'[s].open => session[s].open
  <2>1. session[s] \in SessionType /\ Ordered(session[s]) /\ ~InApi(session[s])
    BY NobodyInApi DEF Serving, StopOnExecutor
  <2>2. CASE s \in reached
    BY <1>1, <2>1, <2>2, ClosedOrdered
  <2>3. CASE s \notin reached
    BY <1>1, <2>1, <2>3
  <2> QED  BY <2>2, <2>3
<1>3. session' \in [Slots -> SessionType]
  <2>1. \A s \in Slots : session'[s] \in SessionType
    BY <1>2 DEF Ordered
  <2> QED  BY <1>1, <2>1
<1>4. Cardinality(OpenSessions') <= MaximumConnections
  <2>1. IsFiniteSet(OpenSessions)
    BY AdminAssumption, FS_Subset DEF OpenSessions
  <2>2. OpenSessions' \subseteq OpenSessions
    BY <1>2 DEF OpenSessions
  <2>3. Cardinality(OpenSessions') <= Cardinality(OpenSessions) /\ IsFiniteSet(OpenSessions')
    BY <2>1, <2>2, FS_Subset
  <2>4. Cardinality(OpenSessions) \in Nat /\ Cardinality(OpenSessions') \in Nat
    BY <2>1, <2>3, FS_CardinalityType
  <2>5. MaximumConnections \in Int
    BY AdminAssumption, FS_CardinalityType
  <2> QED  BY <2>3, <2>4, <2>5 DEF Serving
<1> QED  BY <1>2, <1>3, <1>4 DEF Serving

\* Every handler of a session or of its probe keeps the sessions' invariant.
LEMMA SessionKeepsServing ==
  ASSUME Serving, NEW s \in Slots,
         \/ OnReadError(s) \/ OnReadStatic(s) \/ OnReadProbe(s) \/ ProbeTimeout(s)
         \/ ProbesLeft(s)
         \/ \E keep_alive \in BOOLEAN : OnWrite(s, keep_alive)
         \/ \E ok, tls \in BOOLEAN : ProbeIo(s, ok, tls)
  PROVE  Serving'
<1> DEFINE r == session[s]
           n == [r EXCEPT !.op = "none"]
           Good(z) == Ordered(z) /\ ~InApi(z) /\ (z.open => r.open)
<1>1. /\ Ordered(r) /\ r \in SessionType
      /\ \A t \in Slots : ~InApi(session[t])
  BY NobodyInApi DEF Serving, Ordered, OnReadError, OnReadStatic, OnReadProbe, ProbeTimeout,
     ProbesLeft, OnWrite, ProbeIo
<1>2. SUFFICES \E z : Good(z) /\ session' = [session EXCEPT ![s] = z]
  BY <1>1, ReplacingKeepsServing
<1> HIDE DEF r
<1>3. n \in SessionType
  BY <1>1 DEF SessionType
<1>4. Good(Reap(Closed(n)))
  BY <1>3, ClosedOrdered, ReapOrdered
<1>5. CASE OnReadError(s)
  BY <1>4, <1>5 DEF OnReadError, r
<1>6. CASE OnReadStatic(s)
  <2> DEFINE o == Owe(r)
  <2>1. r.op = "read" /\ session' = [session EXCEPT ![s] = Write(o)]
    BY <1>6 DEF OnReadStatic, r
  <2>2. o \in SessionType /\ o.owed = 1 /\ o.probe = r.probe /\ o.open = r.open
    BY <1>1, <2>1, OweOwes DEF Ordered
  <2> HIDE DEF o
  <2>3. Good(Write(o))
    BY <1>1, <2>1, <2>2, WriteOrdered DEF Ordered
  <2> QED  BY <2>1, <2>3
<1>7. CASE OnReadProbe(s)
  <2> DEFINE h == Handlers(r)
             o == Owe(r)
             z == [o EXCEPT !.op = "none", !.probe = StartProbe, !.left = h]
  <2>1. r.op = "read" /\ r.open /\ r.owed = 0 /\ h \in BOOLEAN
    BY <1>1, <1>7 DEF OnReadProbe, r, Ordered, Handlers, Outstanding, SessionType
  <2>2. session' = [session EXCEPT ![s] = z]
    BY <1>7, <2>1 DEF OnReadProbe, r
  <2> HIDE DEF h
  <2>3. StartProbe \in Probe /\ ~StartProbe.called /\ ~StartProbe.finished
    BY DEF StartProbe, Probe
  <2>4. o \in SessionType /\ o.owed = 1 /\ o.open = r.open
    BY <1>1, <2>1, OweOwes
  <2> HIDE DEF o
  <2>5. /\ z \in SessionType /\ z.op = "none" /\ z.owed = 1 /\ z.open = r.open
        /\ z.probe = StartProbe
    BY <2>1, <2>3, <2>4 DEF SessionType
  <2> HIDE DEF z
  <2>6. Good(z)
    BY <2>1, <2>3, <2>5 DEF Ordered, InApi
  <2> QED  BY <2>2, <2>6
<1>8. CASE ProbeTimeout(s)
  <2>1. Reports(r.probe, OnTimeout(r.probe))
    BY <1>1, OnTimeoutReports DEF Ordered, SessionType
  <2>2. Good(Completed(r, OnTimeout(r.probe)))
    BY <1>1, <2>1, CompletedOrdered DEF r
  <2> QED  BY <1>8, <2>2 DEF ProbeTimeout, r
<1>9. CASE ProbesLeft(s)
  <2> DEFINE z == [r EXCEPT !.left = FALSE]
  <2>1. /\ z \in SessionType /\ z.op = r.op /\ z.owed = r.owed /\ z.open = r.open
        /\ z.probe = r.probe
    BY <1>1 DEF SessionType
  <2>2. session' = [session EXCEPT ![s] = Reap(z)]
    BY <1>9 DEF ProbesLeft, r
  <2>3. ~InApi(r)
    BY <1>1 DEF r
  <2> HIDE DEF z
  <2>4. Ordered(z) /\ ~InApi(z)
    BY <1>1, <2>1, <2>3 DEF Ordered, InApi
  <2> QED  BY <2>1, <2>2, <2>4, ReapOrdered
<1>10. ASSUME NEW keep_alive \in BOOLEAN, OnWrite(s, keep_alive)
       PROVE  \E z : Good(z) /\ session' = [session EXCEPT ![s] = z]
  <2> DEFINE z == [r EXCEPT !.op = "read"]
  <2>1. r.op = "write" /\ session' = [session EXCEPT ![s] = Written(r, keep_alive)]
    BY <1>10 DEF OnWrite, r
  <2>2. /\ z \in SessionType /\ z.op = "read" /\ z.owed = r.owed /\ z.open = r.open
        /\ z.probe = r.probe
    BY <1>1 DEF SessionType
  <2>3. Good(z)
    <3> HIDE DEF z
    <3> QED  BY <1>1, <2>1, <2>2 DEF Ordered, InApi
  <2>4. Good(Written(r, keep_alive))
    <3> HIDE DEF z, n, Good
    <3> QED  BY <1>4, <2>3 DEF Written, z, n
  <2> QED  BY <2>1, <2>4
<1>11. ASSUME NEW ok \in BOOLEAN, NEW tls \in BOOLEAN, ProbeIo(s, ok, tls)
       PROVE  \E z : Good(z) /\ session' = [session EXCEPT ![s] = z]
  <2>1. r.probe.io # "none"
    BY <1>11 DEF ProbeIo, r
  <2>2. Reports(r.probe, OnIo(r.probe, ok, tls))
    BY <1>1, <2>1, OnIoReports DEF Ordered, SessionType
  <2>3. Good(Completed(r, OnIo(r.probe, ok, tls)))
    BY <1>1, <2>2, CompletedOrdered DEF r
  <2> QED  BY <1>11, <2>3 DEF ProbeIo, r
<1> QED  BY <1>5, <1>6, <1>7, <1>8, <1>9, <1>10, <1>11

\* The API takes one request at a time and answers it once.
LEMMA ApiKeepsServing ==
  ASSUME Serving, NEW s \in Slots, OnReadApi(s) \/ ApiReturns(s)
  PROVE  Serving'
<1> DEFINE r == session[s]
<1>1. Ordered(r) /\ r \in SessionType
  BY DEF Serving
<1>2. CASE OnReadApi(s)
  <2> DEFINE o == Owe(r)
             z == [o EXCEPT !.op = "none"]
  <2>1. r.op = "read" /\ r.open /\ r.owed = 0 /\ r.probe.finished /\ thread = "idle"
    BY <1>1, <1>2 DEF OnReadApi, Ordered
  <2>2. session' = [session EXCEPT ![s] = z] /\ thread' = "api"
    BY <1>2, <2>1 DEF OnReadApi
  <2>3. \A t \in Slots : ~InApi(session[t])
    BY <2>1, NobodyInApi
  <2>4. o \in SessionType /\ o.owed = 1 /\ o.open = r.open /\ o.probe = r.probe
    BY <1>1, <2>1, OweOwes
  <2> HIDE DEF o
  <2>5. /\ z \in SessionType /\ z.op = "none" /\ z.owed = 1 /\ z.open = r.open
        /\ z.probe = r.probe
    BY <2>4 DEF SessionType
  <2> HIDE DEF z
  <2>6. Ordered(z)
    BY <1>1, <2>1, <2>5 DEF Ordered
  <2>7. session' \in [Slots -> SessionType]
    BY <2>2, <2>5 DEF Serving
  <2>8. \A t \in Slots : /\ Ordered(session'[t])
                         /\ InApi(session'[t]) => t = s
    BY <2>2, <2>3, <2>6 DEF Serving
  <2>9. OpenSessions' = OpenSessions
    BY <2>2, <2>5 DEF OpenSessions, Serving
  <2> QED  BY <2>2, <2>7, <2>8, <2>9 DEF Serving
<1>3. CASE ApiReturns(s)
  <2>1. r.owed = 1 /\ r.probe.finished /\ session' = [session EXCEPT ![s] = Write(r)]
    BY <1>3 DEF ApiReturns, Served
  <2>2. Ordered(Write(r)) /\ ~InApi(Write(r)) /\ Write(r).open = r.open
    BY <1>1, <2>1, WriteOrdered DEF Ordered
  <2>3. \A t \in Slots \ {s} : ~InApi(session[t])
    BY <2>1 DEF Serving, InApi
  <2> QED  BY <2>1, <2>2, <2>3, ReplacingKeepsServing
<1> QED  BY <1>2, <1>3

\* A step that leaves the sessions alone keeps their invariant.
LEMMA OthersKeepServing ==
  ASSUME Serving, session' = session, thread' = thread \/ thread # "api"
  PROVE  Serving'
<1>1. OpenSessions' = OpenSessions
  BY DEF OpenSessions
<1> QED  BY <1>1 DEF Serving

\* Every step keeps the sessions' invariant.
LEMMA NextKeepsServing ==
  ASSUME Control, Serving, [Next]_vars
  PROVE  Serving'
<1>1. CASE MainStep \/ RequesterStep \/ CoreDrains \/ ControlStop \/ ControlInterrogate \/ Signal
           \/ AdminRetries \/ AdminEnds \/ Terminated \/ UNCHANGED vars
  <2>1. session' = session /\ (thread' = thread \/ thread # "api")
    <3>1. CASE MainStep
      BY <3>1 DEF MainStep, StartServer, StoreActive, StartAdminServer, StartAdmin,
                  StartAdminThrows, Ready, CheckStop, WaitServer, ClearActive, WaitAdmin,
                  UnwindCallback, UnwindAdmin, UnwindAdminWait, UnwindServer, ReportStopped,
                  adminVars, Control
    <3>2. CASE RequesterStep
      BY <3>2 DEF RequesterStep, ReportAgain, RequestStop, CallbackStopsAdmin,
                  CallbackLoadsServer, CallbackStopsServer, RequestReturns, adminVars
    <3>3. CASE CoreDrains \/ ControlStop \/ ControlInterrogate \/ Signal
      BY <3>3 DEF CoreDrains, ControlStop, ControlInterrogate, Signal, adminVars
    <3>4. CASE AdminRetries \/ AdminEnds \/ Terminated \/ UNCHANGED vars
      BY <3>4 DEF AdminRetries, OnAcceptRetry, AdminEnds, EndThread, Terminated, vars, adminVars
    <3> QED  BY <1>1, <3>1, <3>2, <3>3, <3>4
  <2> QED  BY <2>1, OthersKeepServing
<1>2. CASE AdminListens
  <2>1. ASSUME NEW s \in Slots, OnAccept(s) PROVE Serving'
    BY <2>1, OnAcceptKeepsServing
  <2>2. CASE OnAcceptRefused \/ OnAcceptError
    BY <2>2, OthersKeepServing DEF OnAcceptRefused, OnAcceptError
  <2> QED  BY <1>2, <2>1, <2>2 DEF AdminListens
<1>3. CASE AdminStops
  BY <1>3, StopOnExecutorKeepsServing DEF AdminStops
<1>4. ASSUME NEW s \in Slots,
             Reads(s) \/ Writes(s) \/ Probes(s) \/ TimesOut(s) \/ Leaves(s) \/ ApiReturns(s)
      PROVE  Serving'
  <2>1. CASE OnReadApi(s) \/ ApiReturns(s)
    BY <2>1, ApiKeepsServing
  <2>2. CASE ~(OnReadApi(s) \/ ApiReturns(s))
    BY <1>4, <2>2, SessionKeepsServing DEF Reads, Writes, Probes, TimesOut, Leaves
  <2> QED  BY <2>1, <2>2
<1> QED  BY <1>1, <1>2, <1>3, <1>4 DEF Next

\* There is no session at the start.
LEMMA ServingInit ==
  ASSUME Init
  PROVE  Serving
<1>1. /\ session = [s \in Slots |-> NoSession]
      /\ Ordered(NoSession) /\ ~InApi(NoSession) /\ ~NoSession.open
  BY NoSessionOrdered DEF Init, AdminInit
<1>2. OpenSessions = {}
  BY <1>1 DEF OpenSessions
<1>3. Cardinality(OpenSessions) <= MaximumConnections
  BY <1>2, FS_EmptySet, AdminAssumption, FS_CardinalityType
<1>4. session \in [Slots -> SessionType]
  BY <1>1 DEF Ordered
<1> QED  BY <1>1, <1>3, <1>4 DEF Serving

\* The sessions' invariant holds in every reachable state, for any number of slots.
THEOREM ServingHolds == Spec => []Serving
<1>1. Init => Serving
  BY ServingInit
<1>2. Control /\ Serving /\ [Next]_vars => Serving'
  BY NextKeepsServing
<1> QED  BY <1>1, <1>2, ControlHolds, PTL DEF Spec

\* Every request to the dashboard is answered once, whichever of a probe's timer, its
\* handlers and a close comes first, and there are never more sessions than allowed.
THEOREM AnswersOnceHolds == Spec => []AnswersOnce
<1>1. Serving => AnswersOnce
  BY DEF Serving, AnswersOnce, Ordered, InApi, Served, SessionType
<1> QED  BY <1>1, ServingHolds, PTL
=============================================================================
