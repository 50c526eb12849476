------------------------------- MODULE Session -------------------------------
(***************************************************************************)
(* HttpSession and TlsHttpSession: one client connection, from its accept  *)
(* to its close.  All handlers run on the session's strand, so a step is a *)
(* handler; the listener's stopping flag is set from outside at any time.  *)
(* The proxy transaction (module ProxyTransaction) is seen through its     *)
(* completion: it holds references to the stream and the parser until the  *)
(* completion is called, and a cancelled one never asks for keep-alive.    *)
(* Any handler may throw; the guard around it then aborts the session.     *)
(***************************************************************************)
EXTENDS Naturals, FiniteSets

VARIABLES
  tls,        \* a TlsHttpSession
  stopping,   \* *stopping_, owned by the listener
  stop,       \* stop() dispatched: no, posted, or run
  x           \* the session's members

vars == << tls, stopping, stop, x >>

SessionState ==
  [ ops: SUBSET {"handshake", "read", "write", "shutdown"},  \* on the client's stream
    write_keep_alive: BOOLEAN,   \* what on_write was bound to
    handshake_complete: BOOLEAN,
    socket_open: BOOLEAN,
    parser: BOOLEAN,             \* parser_ has a value
    parser_done: BOOLEAN,
    response: BOOLEAN,           \* response_
    dispatcher: BOOLEAN,         \* dispatcher_
    proxy_operation: BOOLEAN,    \* proxy_operation_
    transaction: {"none", "running", "cancelled"},  \* the transaction itself
    request_id: BOOLEAN,         \* an entry in the HttpRequestRegistry
    closing: BOOLEAN,
    closed: BOOLEAN,
    on_close: BOOLEAN ]          \* on_close_ not called yet: it holds the permit

-----------------------------------------------------------------------------
(* Members shared by the two classes                                       *)

CancelTransaction(y) ==
  [y EXCEPT !.transaction = IF @ = "running" THEN "cancelled" ELSE @]

ReadRequest(y) ==
  [y EXCEPT !.request_id = FALSE, !.parser = TRUE, !.parser_done = FALSE,
            !.ops = @ \cup {"read"}]

WriteResponse(y, keep) ==
  [y EXCEPT !.response = TRUE, !.write_keep_alive = keep, !.ops = @ \cup {"write"}]

\* Late results are dropped; only a TlsHttpSession is ever closing but not closed.
Gone(y) == y.closed \/ y.closing

\* on_proxy_response, on_dispatch_response: unread body forbids keep-alive.
OnDispatchResponse(y, keep) ==
  IF Gone(y) THEN [y EXCEPT !.dispatcher = FALSE]
  ELSE WriteResponse([y EXCEPT !.dispatcher = FALSE], keep /\ ~stopping /\ y.parser_done)

StartProxy(y) == [y EXCEPT !.proxy_operation = TRUE, !.transaction = "running"]

\* RequestDispatcher::start: the checks, the routing and the policies end in a
\* local response or in a proxy transaction.
DispatchResults == {"respond", "respond_close", "proxy"}
Dispatch(y, d) ==
  LET z == [y EXCEPT !.dispatcher = TRUE, !.request_id = TRUE]
  IN  IF d = "proxy" THEN StartProxy(z) ELSE OnDispatchResponse(z, d = "respond")

\* abort_noexcept
HttpAbort(y) ==
  [CancelTransaction(y) EXCEPT
     !.closed = TRUE, !.request_id = FALSE, !.dispatcher = FALSE,
     !.proxy_operation = FALSE, !.socket_open = FALSE, !.on_close = FALSE]

TlsAbort(y) == [HttpAbort(y) EXCEPT !.closing = TRUE]

Abort(y) == IF tls THEN TlsAbort(y) ELSE HttpAbort(y)

\* A handler takes y to z, or throws on the way.
Run(y, z) == x' \in {z, Abort(y), Abort(z)}

-----------------------------------------------------------------------------
(* HttpSession                                                             *)

\* close()
HttpClose(y) ==
  IF y.closed THEN y
  ELSE [CancelTransaction(y) EXCEPT
          !.closed = TRUE, !.request_id = FALSE, !.dispatcher = FALSE,
          !.proxy_operation = FALSE, !.socket_open = FALSE, !.on_close = FALSE]

HttpStopOnExecutor(y) ==
  IF y.proxy_operation THEN CancelTransaction(y)
  ELSE IF ~y.response THEN HttpClose(y) ELSE y

-----------------------------------------------------------------------------
(* TlsHttpSession: closing is a TLS shutdown first, and takes a while.     *)

\* Mutant: the request stays in the list of live requests.
CloseSocketKeepsRequest(y) ==
  IF y.closed THEN y
  ELSE [y EXCEPT !.closed = TRUE, !.closing = TRUE, !.socket_open = FALSE,
                 !.on_close = FALSE]

CloseSocket(y) ==
  IF y.closed THEN y
  ELSE [y EXCEPT !.closed = TRUE, !.closing = TRUE, !.request_id = FALSE,
                 !.socket_open = FALSE, !.on_close = FALSE]

\* close()
TlsClose(y) ==
  IF y.closed \/ y.closing THEN y
  ELSE LET z == [CancelTransaction(y) EXCEPT !.closing = TRUE, !.dispatcher = FALSE,
                                             !.proxy_operation = FALSE]
       IN  IF ~y.handshake_complete THEN CloseSocket(z)
           ELSE [z EXCEPT !.ops = @ \cup {"shutdown"}]

\* Mutant: stop() cancels the transaction and starts the TLS shutdown at once.
TlsStopShutsDown(y) ==
  IF y.proxy_operation THEN TlsClose(y)
  ELSE IF ~y.response THEN CloseSocket(y) ELSE y

TlsStopOnExecutor(y) ==
  IF y.proxy_operation THEN CancelTransaction(y)
  ELSE IF ~y.response THEN CloseSocket(y) ELSE y

OnHandshake(y, ok) ==
  IF ~ok THEN CloseSocket(y) ELSE ReadRequest([y EXCEPT !.handshake_complete = TRUE])

Close(y) == IF tls THEN TlsClose(y) ELSE HttpClose(y)

-----------------------------------------------------------------------------
\* The constructor, and start() on the listener's strand: the handshake or the
\* first header is awaited.
Init ==
  /\ tls \in BOOLEAN
  /\ stopping = FALSE /\ stop = "no"
  /\ x = [ops |-> {IF tls THEN "handshake" ELSE "read"}, write_keep_alive |-> FALSE,
          handshake_complete |-> FALSE, socket_open |-> TRUE, parser |-> ~tls,
          parser_done |-> FALSE, response |-> FALSE, dispatcher |-> FALSE,
          proxy_operation |-> FALSE, transaction |-> "none", request_id |-> FALSE,
          closing |-> FALSE, closed |-> FALSE, on_close |-> TRUE]

Ended(op) == [x EXCEPT !.ops = @ \ {op}]

\* Also when the socket was closed in the meantime: the handshake may have
\* succeeded before.
Handshake(ok) ==
  /\ "handshake" \in x.ops
  /\ Run(Ended("handshake"), OnHandshake(Ended("handshake"), ok))
  /\ UNCHANGED << tls, stopping, stop >>

\* on_header_read with an error: a declared body over the limit is answered 413,
\* everything else ends the connection.
HeaderFails(bodyLimit) ==
  /\ "read" \in x.ops
  /\ LET y == Ended("read")
     IN  Run(y, IF bodyLimit THEN WriteResponse(y, FALSE) ELSE Close(y))
  /\ UNCHANGED << tls, stopping, stop >>

\* on_header_read without an error: the peer's address of a closed socket cannot
\* be read.
HttpHeaderRead(d, done) ==
  /\ ~tls /\ "read" \in x.ops
  /\ LET y == [Ended("read") EXCEPT !.parser_done = done]
     IN  Run(y, IF ~x.socket_open THEN HttpClose(y) ELSE Dispatch(y, d))
  /\ UNCHANGED << tls, stopping, stop >>

\* The same, and the connection needs the context its SNI selected.
TlsHeaderRead(d, done, selected) ==
  /\ tls /\ "read" \in x.ops
  /\ LET y == [Ended("read") EXCEPT !.parser_done = done]
     IN  Run(y, IF ~x.socket_open \/ ~selected THEN TlsClose(y) ELSE Dispatch(y, d))
  /\ UNCHANGED << tls, stopping, stop >>

\* The transaction calls its completion, on_stream_complete.
StreamComplete(keep) ==
  /\ x.transaction # "none"
  /\ keep => x.transaction = "running"
  /\ LET y == [x EXCEPT !.transaction = "none"]
         z == [y EXCEPT !.proxy_operation = FALSE, !.parser = FALSE, !.dispatcher = FALSE,
                        !.request_id = FALSE]
     IN  Run(y, IF Gone(z) THEN z
                ELSE IF ~keep \/ stopping THEN Close(z) ELSE ReadRequest(z))
  /\ UNCHANGED << tls, stopping, stop >>

\* Mutant: the stopping flag is not read again after the write.
WrittenIgnoresStop(ok) ==
  /\ "write" \in x.ops
  /\ LET y == Ended("write")
         z == [y EXCEPT !.response = FALSE, !.parser = FALSE, !.request_id = FALSE]
     IN  Run(y, IF ~ok THEN Close(y)
                ELSE IF ~y.write_keep_alive THEN Close(z) ELSE ReadRequest(z))
  /\ UNCHANGED << tls, stopping, stop >>

\* on_write
Written(ok) ==
  /\ "write" \in x.ops
  /\ LET y == Ended("write")
         z == [y EXCEPT !.response = FALSE, !.parser = FALSE, !.request_id = FALSE]
     IN  Run(y, IF ~ok THEN Close(y)
                ELSE IF ~y.write_keep_alive \/ stopping THEN Close(z) ELSE ReadRequest(z))
  /\ UNCHANGED << tls, stopping, stop >>

OnShutdown ==
  /\ "shutdown" \in x.ops
  /\ Run(Ended("shutdown"), CloseSocket(Ended("shutdown")))
  /\ UNCHANGED << tls, stopping, stop >>

\* The listener stops: the flag first, the session's stop() some time later.
ListenerStops ==
  /\ ~stopping /\ stopping' = TRUE
  /\ UNCHANGED << tls, stop, x >>

StopPosted ==
  /\ stopping /\ stop = "no" /\ ~x.closed
  /\ stop' = "posted"
  /\ UNCHANGED << tls, stopping, x >>

StopOnExecutor ==
  /\ stop = "posted"
  /\ stop' = "run"
  /\ Run(x, IF tls THEN TlsStopOnExecutor(x) ELSE HttpStopOnExecutor(x))
  /\ UNCHANGED << tls, stopping >>

Next ==
  \/ \E ok \in BOOLEAN : Handshake(ok) \/ Written(ok)
  \/ \E bodyLimit \in BOOLEAN : HeaderFails(bodyLimit)
  \/ \E d \in DispatchResults, done \in BOOLEAN :
        HttpHeaderRead(d, done) \/ \E selected \in BOOLEAN : TlsHeaderRead(d, done, selected)
  \/ \E keep \in BOOLEAN : StreamComplete(keep)
  \/ OnShutdown \/ ListenerStops \/ StopPosted \/ StopOnExecutor

Spec == Init /\ [][Next]_vars

\* Every operation on the client's stream has a deadline (handshake 10 s, header,
\* write, shutdown 5 s), so it completes, at worst with an error; a cancelled transaction
\* completes (ProxyTransaction, CancelCompletes); a listener that stops calls
\* stop() of its sessions, and a dispatched call runs.
Fairness ==
  /\ WF_vars(Handshake(FALSE)) /\ WF_vars(HeaderFails(FALSE))
  /\ WF_vars(Written(FALSE)) /\ WF_vars(OnShutdown)
  /\ WF_vars(x.transaction = "cancelled" /\ StreamComplete(FALSE))
  /\ WF_vars(StopPosted) /\ WF_vars(StopOnExecutor)

FairSpec == Spec /\ Fairness

-----------------------------------------------------------------------------
(* Properties                                                              *)

\* Every variable has its type; an HttpSession has no TLS state.
TypeOK ==
  /\ tls \in BOOLEAN /\ stopping \in BOOLEAN
  /\ stop \in {"no", "posted", "run"}
  /\ x \in SessionState
  /\ x.handshake_complete \/ x.closing => tls

\* The client's stream has one user at a time: the session with one operation, or
\* the transaction; in particular no TLS shutdown starts before the transaction
\* has let go of the stream (README.md:26).  And the parser the transaction refers
\* to stays until its completion, through stop, close and exceptions.
TransactionOwnsStream ==
  /\ Cardinality(x.ops) + (IF x.transaction = "none" THEN 0 ELSE 1) <= 1
  /\ x.transaction # "none" \/ "read" \in x.ops => x.parser

\* A connection is closed exactly when its close handler has run and taken the
\* permit with it; until then something is under way that will make it go on, so
\* no exception, stop or failed write leaves a connection nobody waits for.  The
\* list of live requests shows a request only while one is being served.
ClosedMeansReleased ==
  /\ x.closed <=> ~x.on_close
  /\ x.closed => ~x.request_id /\ ~x.socket_open
  /\ ~x.closed => x.ops # {} \/ x.transaction # "none"
  /\ x.request_id => x.dispatcher \/ x.response \/ x.closing

state == IF x.closed THEN "closed"
         ELSE IF x.response \/ x.transaction # "none" \/ x.closing THEN "busy" ELSE "idle"

Contract == INSTANCE SessionContract WITH released <- ~x.on_close

\* The session keeps the contract its listener is built on.
KeepsContract == Contract!Spec

=============================================================================
