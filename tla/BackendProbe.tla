---------------------------- MODULE BackendProbe ----------------------------
(***************************************************************************)
(* A connection test for the dashboard (ProbeState): resolve, connect and, *)
(* for https, a handshake, against one timer.  A probe is a record, every  *)
(* handler of ProbeState an operator on it.  `io` and `timer` are the      *)
(* handlers still outstanding: an operation that was cancelled runs its    *)
(* handler all the same, and a timer that had expired runs it without an   *)
(* error.  `called` says that the handler has called completion_.          *)
(***************************************************************************)
EXTENDS Naturals

NoProbe == [io |-> "none", timer |-> FALSE, finished |-> TRUE, called |-> FALSE]

\* start(); resolving is left to a thread of the resolver.
StartProbe == [io |-> "resolve", timer |-> TRUE, finished |-> FALSE, called |-> FALSE]

\* Mutant: finish() does not look whether it has run already.
FinishAgain(p) == [p EXCEPT !.finished = TRUE, !.called = TRUE]

\* finish() and abort_noexcept(): the first to come reports, whatever its result.
Finish(p) == IF p.finished THEN p ELSE [p EXCEPT !.finished = TRUE, !.called = TRUE]

Cancel(p) == Finish(p)

OnTimeout(p) ==
  LET q == [p EXCEPT !.timer = FALSE]
  IN  IF p.finished THEN q ELSE Finish(q)

OnResolved(p, ok) ==
  IF p.finished THEN [p EXCEPT !.io = "none"]
  ELSE IF ok THEN [p EXCEPT !.io = "connect"]
  ELSE Finish([p EXCEPT !.io = "none"])

\* on_connected and, if the backend speaks https, on_tls_connected.
OnConnected(p, ok, tls) ==
  IF p.finished THEN [p EXCEPT !.io = "none"]
  ELSE IF ok /\ tls THEN [p EXCEPT !.io = "handshake"]
  ELSE Finish([p EXCEPT !.io = "none"])

\* The one handler that leaves the question to finish().
OnTlsHandshake(p) == Finish([p EXCEPT !.io = "none"])

\* The handler of the operation that is outstanding.
OnIo(p, ok, tls) ==
  CASE p.io = "resolve" -> OnResolved(p, ok)
    [] p.io = "connect" -> OnConnected(p, ok, tls)
    [] p.io = "handshake" -> OnTlsHandshake(p)

Outstanding(p) == p.io # "none" \/ p.timer

=============================================================================
