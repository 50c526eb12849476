-------------------------- MODULE ProxyTransaction --------------------------
(***************************************************************************)
(* src/src/proxy/ProxyTransaction.hpp: one proxied request, from the call  *)
(* of start() to its completion callback.                                  *)
(*                                                                         *)
(* Every handler runs on the session's strand, so a handler is one action. *)
(* What interleaves is the completion of the operations in flight: reads   *)
(* and writes on the client's and on the backend's socket, the resolver,   *)
(* the connect timer, the limiter's answer and cancel() from the session.  *)
(* `tx` is the object; the handlers are functions from the object as the   *)
(* runtime hands it to them to the object as they leave it.                *)
(*                                                                         *)
(* A dereference of the destroyed backend_stream_, and the destruction of  *)
(* error_response_ under an asynchronous write, are undefined.  They set   *)
(* `fault`, after which nothing is claimed and nothing happens.            *)
(***************************************************************************)
EXTENDS Integers, FiniteSets

CONSTANTS
  Profiles  \* the requests and site settings that are explored

\* What the constructor and the handlers read and never write.
Profile ==
  [ websocket: BOOLEAN,                        \* an Upgrade request
    body: {"none", "length", "chunked"},       \* how the body is framed
    expect: BOOLEAN,                           \* Expect: 100-continue
    client_keep_alive: BOOLEAN,
    backend_keep_alive: BOOLEAN,               \* settings_ and backend_ agree
    https: BOOLEAN ]                           \* the backend's protocol

ASSUME ProfilesType == Profiles \subseteq Profile

BackendReads == {"response_header", "response_body_read", "upgrade_response",
                 "backend_tunnel_read"}
BackendWrites == {"request_header", "request_body_write", "request_last_chunk",
                  "client_buffer_flush", "backend_tunnel_write"}
BackendOps == BackendReads \cup BackendWrites \cup {"connect", "tls_handshake"}
ClientReads == {"request_body_read", "client_tunnel_read"}
ClientWrites == {"continue_write", "response_header_write", "response_body_write",
                 "upgrade_write", "backend_buffer_flush", "client_tunnel_write",
                 "error_write"}
ClientOps == ClientReads \cup ClientWrites

Transaction ==
  [ acquire: {"idle", "waiting", "cancelled", "answered"},  \* pending_acquire_
    permit: BOOLEAN,
    backend_stream: {"none", "open", "closed"},
    backend_close_requested: BOOLEAN,
    backend_from_pool: BOOLEAN,
    retried_pooled_connection: BOOLEAN,
    connecting: BOOLEAN,
    resolving: BOOLEAN,                  \* async_resolve in flight
    ops: SUBSET (BackendOps \cup ClientOps),  \* the counted operations in flight
    parser_done: BOOLEAN,                \* client_parser_.is_done()
    request_upload_complete: BOOLEAN,
    response_header_started: BOOLEAN,
    early_backend_response: BOOLEAN,
    stop_request_upload: BOOLEAN,
    response_transfer_buffer: BOOLEAN,
    response_done: BOOLEAN,              \* response_parser_->is_done()
    backend_keep_alive: BOOLEAN,
    client_keep_alive: BOOLEAN,
    error_keep_alive: BOOLEAN,
    deferred_finish: {"none", "close", "keep"},
    client_cancel_requested: BOOLEAN,
    completed: {"no", "close", "keep"},  \* completed_ and the completion's argument
    fault: {"none", "no_stream", "response_replaced"},
    sent: SUBSET {"response", "upgrade", "error"}, \* history: what the client gets:
                           \* a response, a 101 that arrived, an own error
    delivered: Nat,        \* history: backend connections that got request bytes
    pooled: BOOLEAN,       \* history: the stream went back to the pool
    cancelled: BOOLEAN ]   \* history: the session has cancelled

VARIABLES req, tx

vars == << req, tx >>

-----------------------------------------------------------------------------
(* The members every handler is built from.                                *)

BackendPending(t) == t.ops \cap BackendOps # {}
ClientPending(t) == t.ops \cap ClientOps # {}

\* maybe_release_closed_backend
ReleaseClosedBackend(t) ==
  IF t.backend_close_requested /\ ~BackendPending(t)
  THEN [t EXCEPT !.backend_stream = "none"] ELSE t

\* close_backend
CloseBackend(t) ==
  IF t.backend_stream = "none" THEN t
  ELSE ReleaseClosedBackend([t EXCEPT !.backend_close_requested = TRUE,
                                      !.backend_stream = "closed"])

\* pending_acquire_->cancel()
CancelAcquire(t) ==
  [t EXCEPT !.acquire = IF @ = "waiting" THEN "cancelled" ELSE @]

\* finish
Finish(t, keep) ==
  IF t.completed # "no" THEN t
  ELSE [CancelAcquire(t) EXCEPT !.completed = keep, !.connecting = FALSE,
                                !.permit = FALSE]

\* Mutant: maybe_finish_deferred does not wait for the client's side.
FinishOverClient(t) ==
  IF t.deferred_finish = "none" \/ BackendPending(t) THEN t
  ELSE Finish([ReleaseClosedBackend(t) EXCEPT !.deferred_finish = "none"],
              t.deferred_finish)

\* maybe_finish_deferred
FinishDeferred(t) ==
  IF t.deferred_finish = "none" \/ BackendPending(t) \/ ClientPending(t) THEN t
  ELSE Finish([ReleaseClosedBackend(t) EXCEPT !.deferred_finish = "none"],
              t.deferred_finish)

\* finish_when_io_quiesced
FinishWhenQuiesced(t, keep) ==
  IF t.completed # "no" THEN t
  ELSE FinishDeferred([t EXCEPT !.deferred_finish = keep,
                                !.client_cancel_requested = @ \/ ClientPending(t)])

\* finish_backend_operation, finish_client_operation
FinishOperation(t, op) ==
  LET u == [t EXCEPT !.ops = @ \ {op}]
  IN  IF op \in BackendOps THEN ReleaseClosedBackend(u) ELSE u

\* start_client_operation
StartClient(t, op) == [t EXCEPT !.ops = @ \cup {op}]

\* start_backend_operation around with_backend, which dereferences the stream.
StartBackend(t, op) ==
  IF t.backend_stream = "none" THEN [t EXCEPT !.fault = "no_stream"]
  ELSE [t EXCEPT !.ops = @ \cup {op}]

\* send_error; `retain` says that the status does not itself forbid keep-alive.
\* Assigning error_response_ destroys the response an earlier send_error writes.
SendError(t, retain) ==
  LET u == CloseBackend(t)
      keep == t.client_keep_alive /\ t.parser_done /\ retain
  IN  IF "error_write" \in t.ops THEN [u EXCEPT !.fault = "response_replaced"]
      ELSE StartClient([u EXCEPT !.error_keep_alive = keep,
                                 !.sent = @ \cup {"error"}], "error_write")

\* fail: 502 or 504
Fail(t) ==
  IF t.completed # "no" THEN t
  ELSE SendError([t EXCEPT !.connecting = FALSE], TRUE)

\* fail_after_header, finish_tunnel
FailAfterHeader(t) ==
  IF t.completed # "no" THEN t ELSE FinishWhenQuiesced(CloseBackend(t), "close")

\* abort_from_exception_noexcept
Abort(t) ==
  LET u == CloseBackend([CancelAcquire(t) EXCEPT !.connecting = FALSE])
  IN  IF t.completed # "no" THEN u
      ELSE FinishDeferred([u EXCEPT !.deferred_finish = "close",
                                    !.client_cancel_requested = TRUE])

\* The two early exits the handlers begin with.
Quiescing(t) == t.deferred_finish # "none" \/ t.completed # "no"
Closing(t) == Quiescing(t) \/ t.backend_close_requested

-----------------------------------------------------------------------------
(* The handlers: t is the object, o the outcome of the operation.          *)

\* connect_backend; OpenSSL may refuse the server name of an HTTPS backend.
ConnectBackend(t, refused) ==
  LET u == [t EXCEPT !.backend_from_pool = FALSE, !.backend_close_requested = FALSE,
                     !.backend_stream = "open"]
  IN  IF refused THEN Fail(u)
      ELSE [u EXCEPT !.connecting = TRUE, !.resolving = TRUE]

\* write_request_header
WriteRequestHeader(t) == StartBackend(t, "request_header")

\* on_backend_permit: the limiter refuses, or grants and then the transfer
\* buffer is missing, the pool has a connection, or a new one is made.
OnBackendPermit(t, o) ==
  LET u == [t EXCEPT !.acquire = "answered"]
      held == [u EXCEPT !.permit = TRUE]
  IN  IF t.completed # "no" THEN u
      ELSE IF o = "refused" THEN SendError(u, TRUE)
      ELSE IF o = "no_memory" THEN SendError(held, TRUE)
      ELSE IF o = "pooled"
      THEN WriteRequestHeader([held EXCEPT !.backend_close_requested = FALSE,
                                           !.backend_stream = "open",
                                           !.backend_from_pool = TRUE])
      ELSE ConnectBackend(held, o = "bad_sni")

OnConnectTimeout(t) == Fail(CloseBackend([t EXCEPT !.connecting = FALSE]))

OnResolved(t, o) ==
  LET u == [t EXCEPT !.resolving = FALSE]
  IN  IF ~t.connecting \/ t.completed # "no" THEN u
      ELSE IF o = "error" THEN Fail(u)
      ELSE StartBackend(u, "connect")

OnConnect(t, o) ==
  IF Closing(t) THEN FinishDeferred(t)
  ELSE IF ~t.connecting THEN t
  ELSE IF o = "error" THEN Fail(t)
  ELSE IF req.https THEN StartBackend(t, "tls_handshake")
  ELSE WriteRequestHeader([t EXCEPT !.connecting = FALSE])

OnTlsHandshake(t, o) ==
  IF Closing(t) THEN FinishDeferred(t)
  ELSE IF ~t.connecting THEN t
  ELSE IF o = "error" THEN Fail(t)
  ELSE WriteRequestHeader([t EXCEPT !.connecting = FALSE])

ReadResponseHeader(t) ==
  IF t.response_header_started \/ t.completed # "no" THEN t
  ELSE StartBackend([t EXCEPT !.response_header_started = TRUE], "response_header")

ReadRequestBodyChunk(t) ==
  IF t.completed # "no" \/ t.stop_request_upload THEN t
  ELSE StartClient(t, "request_body_read")

\* Mutant: a pooled connection is retried although it took part of the request.
RetryPartlySent(t, o) ==
  LET zero == o \in {"zero", "zero_bad_sni"}
      reached == [t EXCEPT !.delivered = IF zero THEN @ ELSE @ + 1]
      fresh == [reached EXCEPT !.backend_from_pool = FALSE]
  IN  IF Closing(t) THEN FinishDeferred(reached)
      ELSE IF o # "ok" /\ t.backend_from_pool /\ ~t.retried_pooled_connection
      THEN ConnectBackend(
             CloseBackend([reached EXCEPT !.retried_pooled_connection = TRUE]), FALSE)
      ELSE IF o # "ok" THEN Fail(reached)
      ELSE IF req.websocket THEN StartBackend(fresh, "upgrade_response")
      ELSE ReadResponseHeader([fresh EXCEPT !.request_upload_complete = TRUE])

\* "zero" and "partial" are failures before and after the first byte; after
\* "zero_bad_sni" the reconnection has no server name either.
OnRequestHeaderWritten(t, o) ==
  LET zero == o \in {"zero", "zero_bad_sni"}
      reached == [t EXCEPT !.delivered = IF zero THEN @ ELSE @ + 1]
      fresh == [reached EXCEPT !.backend_from_pool = FALSE]
  IN  IF Closing(t) THEN FinishDeferred(reached)
      ELSE IF zero /\ t.backend_from_pool /\ ~t.retried_pooled_connection
      THEN ConnectBackend(CloseBackend([t EXCEPT !.retried_pooled_connection = TRUE]),
                          o = "zero_bad_sni")
      ELSE IF o # "ok" THEN Fail(reached)
      ELSE IF req.websocket THEN StartBackend(fresh, "upgrade_response")
      ELSE IF t.parser_done
      THEN ReadResponseHeader([fresh EXCEPT !.request_upload_complete = TRUE])
      ELSE IF req.expect THEN StartClient(fresh, "continue_write")
      ELSE ReadRequestBodyChunk(ReadResponseHeader(fresh))

OnContinueWritten(t, o) ==
  IF Quiescing(t) THEN FinishDeferred(t)
  ELSE IF o = "error" THEN Fail(t)
  ELSE ReadRequestBodyChunk(ReadResponseHeader(t))

FinishRequestBody(t) ==
  IF t.completed # "no" \/ t.stop_request_upload THEN t
  ELSE IF req.body = "chunked" THEN StartBackend(t, "request_last_chunk")
  ELSE [t EXCEPT !.request_upload_complete = TRUE]

\* Mutants: when a piece of the body arrives, the early response, or the check
\* whether everything has quiesced, is forgotten.
BodyReadAfterEarlyResponse(t, o) ==
  IF t.deferred_finish # "none" THEN FinishDeferred(t)
  ELSE IF t.completed # "no" \/ o = "error" THEN t
  ELSE StartBackend(t, "request_body_write")

BodyReadForgetsToFinish(t, o) ==
  IF Quiescing(t) \/ t.stop_request_upload THEN t
  ELSE IF o = "error" THEN SendError(t, FALSE)
  ELSE StartBackend(t, "request_body_write")

\* An error is answered 408, 413 or 400, which all forbid keep-alive; the
\* parser is done after "data_done" and "empty_done".
OnRequestBodyRead(t, o) ==
  LET u == [t EXCEPT !.parser_done = o \in {"data_done", "empty_done"}]
  IN  IF t.deferred_finish # "none" THEN FinishDeferred(u)
      ELSE IF t.completed # "no" \/ t.stop_request_upload THEN u
      ELSE IF o = "error" THEN SendError(u, FALSE)
      ELSE IF o = "empty_done" THEN FinishRequestBody(u)
      ELSE IF o = "empty" THEN ReadRequestBodyChunk(u)
      ELSE StartBackend(u, "request_body_write")

OnRequestBodyWritten(t, o) ==
  IF t.deferred_finish # "none" THEN FinishDeferred(t)
  ELSE IF t.completed # "no" \/ t.stop_request_upload THEN t
  ELSE IF o = "error" THEN Fail(t)
  ELSE IF t.parser_done THEN FinishRequestBody(t)
  ELSE ReadRequestBodyChunk(t)

OnRequestBodyFinished(t, o) ==
  IF t.deferred_finish # "none" THEN FinishDeferred(t)
  ELSE IF t.completed # "no" \/ t.stop_request_upload THEN t
  ELSE IF o = "error" THEN Fail(t)
  ELSE [t EXCEPT !.request_upload_complete = TRUE]

\* Mutant: an early response shares the upload's buffer.
EarlyResponseSharesBuffer(t, o) ==
  LET early == ~t.request_upload_complete
  IN  IF t.backend_close_requested \/ t.completed # "no" THEN FinishDeferred(t)
      ELSE IF o = "error" THEN Fail(t)
      ELSE StartClient([t EXCEPT !.early_backend_response = early,
                                 !.stop_request_upload = early,
                                 !.client_keep_alive = @ /\ ~early],
                       "response_header_write")

\* "interim" is a 1xx, "switch" an uninvited 101; a final response may be
\* complete with its header or not, and its connection reusable or not.  An
\* early response gets a buffer of its own, if there is memory for it.
OnResponseHeader(t, o) ==
  LET early == ~t.request_upload_complete
      done == o \in {"done", "done_close"}
      final == [t EXCEPT !.early_backend_response = early,
                         !.stop_request_upload = early,
                         !.client_keep_alive = @ /\ ~early,
                         !.response_transfer_buffer = early /\ ~done,
                         !.response_done = done,
                         !.backend_keep_alive = o \in {"done", "more"} /\ ~early,
                         !.sent = @ \cup {"response"}]
      noBuffer == [t EXCEPT !.early_backend_response = TRUE,
                            !.stop_request_upload = TRUE, !.client_keep_alive = FALSE]
  IN  IF t.backend_close_requested \/ t.completed # "no" THEN FinishDeferred(t)
      ELSE IF o = "error" THEN Fail(t)
      ELSE IF o = "interim"
      THEN ReadResponseHeader([t EXCEPT !.response_header_started = FALSE])
      ELSE IF o = "switch" THEN SendError(t, TRUE)
      ELSE IF o = "no_memory" /\ early THEN SendError(noBuffer, TRUE)
      ELSE StartClient(final, "response_header_write")

\* Mutant: the connection is reused although the upload was cut short.
FinishNormalUnchecked(t) ==
  LET keep == IF t.client_keep_alive THEN "keep" ELSE "close"
  IN  IF req.backend_keep_alive /\ t.backend_stream = "open"
      THEN Finish([t EXCEPT !.backend_stream = "none", !.pooled = TRUE], keep)
      ELSE Finish(CloseBackend(t), keep)

\* finish_normal
FinishNormal(t) ==
  IF t.early_backend_response \/ ~t.request_upload_complete
  THEN FinishWhenQuiesced(CloseBackend(t), "close")
  ELSE LET keep == IF t.client_keep_alive THEN "keep" ELSE "close"
           reusable == req.backend_keep_alive /\ t.backend_keep_alive
                       /\ t.backend_stream = "open"
       IN  IF reusable
           THEN Finish([t EXCEPT !.backend_stream = "none", !.pooled = TRUE], keep)
           ELSE Finish(CloseBackend(t), keep)

\* read_body_chunk
ReadBodyChunk(t) == StartBackend(t, "response_body_read")

\* "done": the header was all of the serialized response.
OnHeaderWritten(t, o) ==
  IF Quiescing(t) THEN FinishDeferred(t)
  ELSE IF o = "error" THEN FailAfterHeader(t)
  ELSE IF ~t.response_done THEN ReadBodyChunk(t)
  ELSE IF o = "done" THEN FinishNormal(t)
  ELSE StartClient(t, "response_body_write")

OnBodyRead(t, o) ==
  IF t.backend_close_requested \/ t.completed # "no" THEN FinishDeferred(t)
  ELSE IF o = "error" THEN FailAfterHeader(t)
  ELSE StartClient([t EXCEPT !.response_done = o = "done"], "response_body_write")

\* "done" is the serializer's end, or need_buffer while the response goes on.
OnBodyWritten(t, o) ==
  IF Quiescing(t) THEN FinishDeferred(t)
  ELSE IF o = "error" THEN FailAfterHeader(t)
  ELSE IF o = "more" THEN StartClient(t, "response_body_write")
  ELSE IF t.response_done THEN FinishNormal(t)
  ELSE ReadBodyChunk(t)

OnUpgradeResponse(t, o) ==
  IF Closing(t) THEN FinishDeferred(t)
  ELSE IF o = "error" THEN Fail(t)
  ELSE IF o \in {"rejected", "no_memory"} THEN SendError(t, TRUE)
  ELSE StartClient(t, "upgrade_write")

ReadFromClient(t) == StartClient(t, "client_tunnel_read")
ReadFromBackend(t) == StartBackend(t, "backend_tunnel_read")
StartTunnel(t) == ReadFromBackend(ReadFromClient(t))

\* The bytes that came with the handshakes are passed on before the tunnel
\* starts, the client's first.
OnUpgradeWritten(t, o) ==
  LET u == [t EXCEPT !.sent = @ \cup {"upgrade"}]
  IN  IF Quiescing(t) THEN FinishDeferred(t)
      ELSE IF o = "error" THEN Fail(t)
      ELSE IF o = "client" THEN StartBackend(u, "client_buffer_flush")
      ELSE IF o = "backend" THEN StartClient(u, "backend_buffer_flush")
      ELSE StartTunnel(u)

OnClientBufferFlushed(t, o) ==
  IF Closing(t) THEN FinishDeferred(t)
  ELSE IF o = "error" THEN Fail(t)
  ELSE IF o = "backend" THEN StartClient(t, "backend_buffer_flush")
  ELSE StartTunnel(t)

OnBackendBufferFlushed(t, o) ==
  IF Quiescing(t) THEN FinishDeferred(t)
  ELSE IF o = "error" THEN Fail(t)
  ELSE StartTunnel(t)

OnClientTunnelRead(t, o) ==
  IF Quiescing(t) THEN FinishDeferred(t)
  ELSE IF o = "error" THEN FailAfterHeader(t)
  ELSE StartBackend(t, "backend_tunnel_write")

OnBackendTunnelWritten(t, o) ==
  IF Closing(t) THEN FinishDeferred(t)
  ELSE IF o = "error" THEN FailAfterHeader(t)
  ELSE ReadFromClient(t)

OnBackendTunnelRead(t, o) ==
  IF Closing(t) THEN FinishDeferred(t)
  ELSE IF o = "error" THEN FailAfterHeader(t)
  ELSE StartClient(t, "client_tunnel_write")

OnClientTunnelWritten(t, o) ==
  IF Quiescing(t) THEN FinishDeferred(t)
  ELSE IF o = "error" THEN FailAfterHeader(t)
  ELSE ReadFromBackend(t)

OnErrorWritten(t, o) ==
  IF Quiescing(t) THEN FinishDeferred(t)
  ELSE FinishWhenQuiesced(t, IF o = "ok" /\ t.error_keep_alive THEN "keep" ELSE "close")

-----------------------------------------------------------------------------
Outcomes(op) ==
  CASE op = "request_header"   -> {"ok", "zero", "zero_bad_sni", "partial"}
    [] op = "request_body_read" -> {"error", "data", "data_done", "empty", "empty_done"}
    [] op = "response_header"  -> {"error", "interim", "switch", "no_memory", "done",
                                   "done_close", "more", "more_close"}
    [] op = "response_header_write" -> {"error", "more", "done"}
    [] op \in {"response_body_read", "response_body_write"} -> {"error", "more", "done"}
    [] op = "upgrade_response" -> {"error", "rejected", "no_memory", "ok"}
    [] op \in {"upgrade_write", "client_buffer_flush"} ->
         {"error", "client", "backend", "neither"}
    [] OTHER -> {"ok", "error"}

\* The handler bound to each operation.
Handle(op, t, o) ==
  CASE op = "connect"               -> OnConnect(t, o)
    [] op = "tls_handshake"         -> OnTlsHandshake(t, o)
    [] op = "request_header"        -> OnRequestHeaderWritten(t, o)
    [] op = "continue_write"        -> OnContinueWritten(t, o)
    [] op = "request_body_read"     -> OnRequestBodyRead(t, o)
    [] op = "request_body_write"    -> OnRequestBodyWritten(t, o)
    [] op = "request_last_chunk"    -> OnRequestBodyFinished(t, o)
    [] op = "response_header"       -> OnResponseHeader(t, o)
    [] op = "response_header_write" -> OnHeaderWritten(t, o)
    [] op = "response_body_read"    -> OnBodyRead(t, o)
    [] op = "response_body_write"   -> OnBodyWritten(t, o)
    [] op = "upgrade_response"      -> OnUpgradeResponse(t, o)
    [] op = "upgrade_write"         -> OnUpgradeWritten(t, o)
    [] op = "client_buffer_flush"   -> OnClientBufferFlushed(t, o)
    [] op = "backend_buffer_flush"  -> OnBackendBufferFlushed(t, o)
    [] op = "client_tunnel_read"    -> OnClientTunnelRead(t, o)
    [] op = "backend_tunnel_write"  -> OnBackendTunnelWritten(t, o)
    [] op = "backend_tunnel_read"   -> OnBackendTunnelRead(t, o)
    [] op = "client_tunnel_write"   -> OnClientTunnelWritten(t, o)
    [] op = "error_write"           -> OnErrorWritten(t, o)

\* The states after an exception in a handler that would have taken t to r: it
\* leaves some operation unstarted, and guarded_handler's catch aborts.  Of two
\* operations the handler starts, the first may be in flight already.
Thrown(t, r) ==
  LET new == r.ops \ t.ops
      first == new \cap {"response_header", "client_tunnel_read"}
  IN  {Abort([r EXCEPT !.ops = (@ \ new) \cup started, !.sent = t.sent]) :
         started \in {{}, first} \ {new}}

Run(t, r) == tx' \in {r} \cup Thrown(t, r) /\ UNCHANGED req

Idle ==
  [ acquire |-> "idle", permit |-> FALSE, backend_stream |-> "none",
    backend_close_requested |-> FALSE, backend_from_pool |-> FALSE,
    retried_pooled_connection |-> FALSE, connecting |-> FALSE, resolving |-> FALSE,
    ops |-> {}, parser_done |-> TRUE, request_upload_complete |-> FALSE,
    response_header_started |-> FALSE, early_backend_response |-> FALSE,
    stop_request_upload |-> FALSE, response_transfer_buffer |-> FALSE,
    response_done |-> FALSE, backend_keep_alive |-> FALSE,
    client_keep_alive |-> FALSE, error_keep_alive |-> FALSE,
    deferred_finish |-> "none", client_cancel_requested |-> FALSE,
    completed |-> "no", fault |-> "none", sent |-> {}, delivered |-> 0,
    pooled |-> FALSE, cancelled |-> FALSE ]

\* The constructor; the session's parser, which has read the header, is done
\* unless that announced a body.
Init ==
  /\ req \in Profiles
  /\ tx = [Idle EXCEPT !.parser_done = req.body = "none",
                       !.client_keep_alive = req.client_keep_alive]

Alive == tx.fault = "none"

\* start_on_executor; async_acquire may throw.
Start ==
  /\ Alive /\ tx.acquire = "idle" /\ tx.completed = "no"
  /\ tx' \in {[tx EXCEPT !.acquire = "waiting"], Abort(tx)}
  /\ UNCHANGED req

\* The limiter's handler; a cancelled wait may still be answered if the answer
\* had been posted before.
PermitArrives ==
  /\ Alive /\ tx.acquire \in {"waiting", "cancelled"}
  /\ \E o \in {"refused", "fresh"}
             \cup (IF req.https THEN {"bad_sni"} ELSE {})
             \cup (IF req.websocket THEN {} ELSE {"no_memory"})
             \cup (IF req.backend_keep_alive /\ ~req.websocket THEN {"pooled"} ELSE {}) :
       Run(tx, OnBackendPermit(tx, o))

\* The connect timer; its handler returns unless still connecting.
ConnectTimeout ==
  /\ Alive /\ tx.connecting /\ tx.completed = "no"
  /\ Run(tx, OnConnectTimeout(tx))

Resolved ==
  /\ Alive /\ tx.resolving
  /\ \E o \in {"ok", "error"} : Run(tx, OnResolved(tx, o))

\* An operation on a socket completes, whether by itself, by its timeout or
\* because the socket was cancelled or closed.
Completes(op) ==
  /\ Alive /\ op \in tx.ops
  /\ \E o \in Outcomes(op) :
       LET t == FinishOperation(tx, op) IN Run(t, Handle(op, t, o))

\* cancel_on_executor, from the session's stop().
Cancel ==
  /\ Alive /\ tx.completed = "no"
  /\ LET t == [CancelAcquire(tx) EXCEPT !.connecting = FALSE, !.cancelled = TRUE]
     IN  tx' = FinishWhenQuiesced(CloseBackend(t), "close")
  /\ UNCHANGED req

Next ==
  \/ Start
  \/ PermitArrives
  \/ ConnectTimeout
  \/ Resolved
  \/ \E op \in BackendOps \cup ClientOps : Completes(op)
  \/ Cancel

Spec == Init /\ [][Next]_vars

\* Once the tunnel is up, neither socket has a deadline.
Unbounded == {"client_buffer_flush", "client_tunnel_read", "client_tunnel_write",
              "backend_tunnel_read", "backend_tunnel_write"}

\* What ends an operation: its deadline, the cancellation of the client's
\* socket, or the closing of the backend's.
Ends(op) ==
  \/ op \notin Unbounded
  \/ tx.deferred_finish # "none"
  \/ op \in BackendOps /\ tx.backend_close_requested

\* Handlers of ended operations run: the strand is never blocked.
Fairness ==
  \A op \in BackendOps \cup ClientOps : WF_vars(Ends(op) /\ Completes(op))

FairSpec == Spec /\ Fairness

-----------------------------------------------------------------------------
(* Properties                                                              *)

\* Every variable has its type.
TypeOK == req \in Profiles /\ tx \in Transaction

\* The session may close or shut down TLS when the completion is called: by then
\* no callback of either side is outstanding, the backend stream is gone, the
\* permit is released and no place in the limiter's queue is left behind.  Until
\* then a backend connection, and any operation on one, is covered by the permit,
\* so the limiter's bound is a bound on what the backend really sees.
CompletionQuiesces ==
  /\ tx.completed # "no" =>
       /\ tx.ops = {} /\ tx.backend_stream = "none"
       /\ ~tx.permit /\ tx.acquire # "waiting"
  /\ tx.backend_stream # "none" \/ BackendPending(tx) => tx.permit

\* No connection is used again in the middle of an exchange.  The next request is
\* read from the client's connection only if this request's body was consumed to
\* its end, its response was not cut off by cancelling the socket and no early
\* response left part of the upload on the wire.  The backend's goes back to the
\* pool only after the whole request went out, the whole response came in and
\* nothing is in flight on it.
ReuseSafe ==
  /\ tx.completed = "keep" =>
       /\ tx.parser_done /\ req.client_keep_alive
       /\ ~tx.client_cancel_requested /\ ~tx.cancelled /\ ~tx.early_backend_response
  /\ tx.pooled =>
       /\ tx.request_upload_complete /\ tx.response_done /\ tx.delivered = 1
       /\ ~BackendPending(tx) /\ ~req.websocket

\* A request reaches at most one backend connection, so the reconnection after a
\* stale pooled connection never repeats a request that was partly sent; and a
\* request that is not an Upgrade gets one response, the backend's or the proxy's
\* own, never one inside the other.
OnceEachWay ==
  /\ tx.delivered <= 1
  /\ ~req.websocket => Cardinality(tx.sent) <= 1

\* Streams and buffers have one user although upload, early response, error
\* response and tunnel overlap: each socket has at most one read and one write in
\* flight, as Asio requires; the shared 16 KiB block is not filled with the
\* response while the upload still uses it; and undefined behaviour is confined
\* to a failed backend under an unfinished upload.
SafeUse ==
  /\ \A class \in {BackendReads, BackendWrites, ClientReads, ClientWrites} :
       Cardinality(tx.ops \cap class) <= 1
  /\ "response_body_read" \in tx.ops /\ ~tx.response_transfer_buffer =>
       tx.ops \cap {"request_body_read", "request_body_write"} = {}
  /\ ~Alive => req.body # "none" /\ "error" \in tx.sent /\ ~tx.request_upload_complete

\* tests/StabilityIntegration.cpp:302-304: a request whose backend fails is
\* answered 502.  No step after the failure uses the destroyed backend stream or
\* destroys the response that is being written.
BackendFailureAnswered == Alive

\* Whoever asked for quiescence, nothing new is started while the operations in
\* flight are waited for, nor after the completion; and an early response ends the
\* upload for good, no further body byte is read or sent.
StartsNothingMore ==
  [][/\ Quiescing(tx) => tx'.ops \subseteq tx.ops /\ tx'.fault = tx.fault
     /\ tx.stop_request_upload =>
          (tx'.ops \ tx.ops) \cap {"request_body_read", "request_body_write",
                                   "request_last_chunk"} = {}]_vars

\* A cancelled transaction completes, whatever was in flight, and so does one that
\* answers with an error of its own.
AlwaysCompletes ==
  /\ tx.cancelled ~> tx.completed # "no"
  /\ "error" \in tx.sent ~> tx.completed # "no" \/ ~Alive

=============================================================================
