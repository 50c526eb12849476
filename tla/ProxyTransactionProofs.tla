----------------------- MODULE ProxyTransactionProofs -----------------------
(***************************************************************************)
(* Proofs about ProxyTransaction.  The object is one record and a handler  *)
(* is a function on it, so the lemmas follow the code: first what each     *)
(* member function leaves behind, then each handler, then the              *)
(* specification.  The invariant has two parts because an operation ends   *)
(* before its handler decides what is next, and because a handler may      *)
(* throw: Sound holds between any two statements, Settled only where a     *)
(* handler returns or has been aborted.                                    *)
(***************************************************************************)
EXTENDS ProxyTransaction, FiniteSetTheorems, TLAPS

\* The operations, by the stage of the exchange they belong to.
Opening == {"connect", "tls_handshake"}
Upload == {"request_body_read", "request_body_write", "request_last_chunk"}
Response == {"response_header_write", "response_body_read", "response_body_write"}
Upgrade == {"upgrade_response", "upgrade_write", "client_buffer_flush",
            "backend_buffer_flush"}
Tunnel == {"client_tunnel_read", "backend_tunnel_write", "backend_tunnel_read",
           "client_tunnel_write"}
Main == Opening \cup {"request_header", "continue_write", "response_header"}
        \cup Response \cup Upgrade

\* Which operations are in flight together: one of the main line, beside it one of the
\* upload while a response is awaited or passed on, or an error response; and in the
\* tunnel one for each direction.
Shape(ops) ==
  /\ \A a, b \in ops : a \in Main /\ b \in Main => a = b
  /\ \A a, b \in ops : a \in Upload /\ b \in Upload => a = b
  /\ ~("client_tunnel_read" \in ops /\ "backend_tunnel_write" \in ops)
  /\ ~("backend_tunnel_read" \in ops /\ "client_tunnel_write" \in ops)
  /\ \A a, b \in ops : a \in Tunnel => b \in Tunnel
  /\ "error_write" \in ops =>
       \A a \in ops : a \in {"error_write", "response_header"} \/ a \in Opening \/ a \in Upload
  /\ \A a, b \in ops : a \in Upload =>
       b \in {"error_write", "response_header"} \/ b \in Upload \/ b \in Response

\* Nothing has been sent to the backend.
Unsent(t) ==
  /\ t.delivered = 0 /\ ~t.response_header_started /\ ~t.request_upload_complete
  /\ ~t.stop_request_upload /\ ~t.early_backend_response
  /\ "response" \notin t.sent /\ "upgrade" \notin t.sent /\ ~t.pooled

\* What the handler of an operation in flight relies on.
Awaits(t, op) ==
  /\ t.acquire = "answered" /\ t.completed = "no" /\ ~t.pooled
  /\ t.connecting => op \in Opening /\ ~t.resolving
  /\ op = "error_write" =>
       /\ "error" \in t.sent /\ t.backend_stream # "open"
       /\ t.error_keep_alive => t.parser_done /\ t.client_keep_alive
  /\ op # "error_write" => t.backend_close_requested \/ t.backend_stream = "open"
  /\ op \in Opening => Unsent(t)
  /\ op = "request_header" => Unsent(t)
  /\ op \in {"continue_write", "response_header"} \cup Response \cup Upload =>
       t.delivered = 1 /\ ~req.websocket
  /\ op \in Upgrade \cup Tunnel => req.websocket
  /\ op \in Upgrade => "response" \notin t.sent
  /\ op = "continue_write" =>
       /\ ~t.response_header_started /\ ~t.stop_request_upload /\ ~t.parser_done
       /\ ~t.request_upload_complete /\ "response" \notin t.sent
  /\ op = "response_header" => "response" \notin t.sent
  /\ op \in Response =>
       /\ (t.early_backend_response /\ t.stop_request_upload) \/ t.request_upload_complete
       /\ t.early_backend_response =>
            t.response_transfer_buffer \/ (op # "response_body_read" /\ t.response_done)
  /\ op \in Upload =>
       /\ ~t.request_upload_complete /\ req.body # "none"
       /\ t.stop_request_upload \/ "response" \notin t.sent
  /\ op = "request_body_read" => ~t.parser_done
  /\ op = "request_last_chunk" => t.parser_done

\* What may be claimed of a transaction that hands the client's connection back.
Reusable(t) ==
  /\ t.parser_done /\ req.client_keep_alive
  /\ ~t.client_cancel_requested /\ ~t.cancelled /\ ~t.early_backend_response

\* Before the limiter has answered.
Unanswered(t) ==
  /\ t.ops = {} /\ t.backend_stream = "none" /\ ~t.permit
  /\ ~t.connecting /\ ~t.resolving /\ ~t.backend_from_pool
  /\ ~t.backend_close_requested /\ t.sent = {} /\ Unsent(t)

\* What holds between any two statements of a handler, so also where an exception
\* leaves it.
Sound(t) ==
  /\ t \in Transaction
  /\ Shape(t.ops)
  /\ \A op \in t.ops : Awaits(t, op)
  /\ t.acquire # "answered" => Unanswered(t)
  /\ BackendPending(t) => t.backend_stream # "none"
  /\ t.backend_stream # "none" => t.permit
  /\ t.backend_stream = "open" => ~t.backend_close_requested
  /\ t.backend_stream = "closed" => t.backend_close_requested
  /\ t.connecting =>
       /\ t.backend_stream = "open" /\ t.deferred_finish = "none" /\ t.completed = "no"
       /\ t.acquire = "answered" /\ Unsent(t) /\ t.sent = {}
  /\ t.backend_from_pool => ~t.resolving
  /\ t.deferred_finish # "none" => t.backend_stream # "open" /\ t.completed = "no"
  /\ t.deferred_finish = "keep" => Reusable(t) /\ t.ops \cap ClientOps = {}
  /\ t.completed # "no" =>
       t.ops = {} /\ t.backend_stream = "none" /\ ~t.permit /\ t.acquire # "waiting"
  /\ t.completed = "keep" => Reusable(t)
  /\ t.pooled =>
       /\ t.request_upload_complete /\ t.response_done
       /\ t.delivered = 1 /\ ~req.websocket
  /\ t.delivered <= 1
  /\ ~req.websocket => "upgrade" \notin t.sent /\ ~("response" \in t.sent /\ "error" \in t.sent)
  /\ req.body = "none" => t.parser_done
  /\ t.request_upload_complete => t.parser_done
  /\ t.client_keep_alive => req.client_keep_alive /\ ~t.early_backend_response
  /\ t.fault # "none" => req.body # "none" /\ "error" \in t.sent /\ ~t.request_upload_complete

\* What a handler has restored when it returns: a backend that was given up and an error
\* that was sent leave the error response in flight or the transaction on its way out.
Settled(t) ==
  /\ t.backend_close_requested \/ "error" \in t.sent =>
       "error_write" \in t.ops \/ Quiescing(t)
  /\ ~Quiescing(t) => ~t.client_cancel_requested /\ ~t.cancelled
  /\ t.acquire # "answered" /\ t.completed = "no" =>
       t.deferred_finish = "none" /\ t.acquire # "cancelled"
  /\ t.pooled => t.completed # "no"

\* The inductive invariant.
IInv == req \in Profiles /\ Sound(tx) /\ Settled(tx)

\* The exchange with the backend has not moved on between t and u.
SameProgress(t, u) ==
  /\ u.backend_from_pool = t.backend_from_pool /\ u.resolving = t.resolving
  /\ u.retried_pooled_connection = t.retried_pooled_connection
  /\ u.parser_done = t.parser_done
  /\ u.request_upload_complete = t.request_upload_complete
  /\ u.response_header_started = t.response_header_started
  /\ u.early_backend_response = t.early_backend_response
  /\ u.stop_request_upload = t.stop_request_upload
  /\ u.response_transfer_buffer = t.response_transfer_buffer
  /\ u.response_done = t.response_done
  /\ u.backend_keep_alive = t.backend_keep_alive
  /\ u.client_keep_alive = t.client_keep_alive
  /\ u.delivered = t.delivered /\ u.pooled = t.pooled

\* Nor has the exchange with the client.
SameExchange(t, u) ==
  /\ SameProgress(t, u)
  /\ u.error_keep_alive = t.error_keep_alive
  /\ u.fault = t.fault /\ u.sent = t.sent

\* u differs from t at most in the backend's connection and the operations in flight.
SameRest(t, u) ==
  /\ SameExchange(t, u)
  /\ u.acquire = t.acquire /\ u.permit = t.permit /\ u.connecting = t.connecting
  /\ u.deferred_finish = t.deferred_finish /\ u.completed = t.completed
  /\ u.client_cancel_requested = t.client_cancel_requested /\ u.cancelled = t.cancelled

-----------------------------------------------------------------------------
(* The members' functions                                                  *)

\* close_backend leaves no open connection, and none at all unless an operation still
\* uses it.
LEMMA CloseBackendFrame ==
  ASSUME NEW t \in Transaction
  PROVE  LET u == CloseBackend(t)
         IN  /\ u \in Transaction /\ SameRest(t, u) /\ u.ops = t.ops
             /\ t.backend_stream = "none" =>
                  /\ u.backend_stream = "none"
                  /\ u.backend_close_requested = t.backend_close_requested
             /\ t.backend_stream # "none" =>
                  /\ u.backend_close_requested = TRUE
                  /\ u.backend_stream = IF BackendPending(t) THEN "closed" ELSE "none"
<1> DEFINE u == [t EXCEPT !.backend_close_requested = TRUE, !.backend_stream = "closed"]
           v == [u EXCEPT !.backend_stream = "none"]
<1>1. CASE t.backend_stream = "none"
  BY <1>1 DEF CloseBackend, SameRest, SameExchange, SameProgress
<1>2. CASE t.backend_stream # "none"
  <2>1. /\ u \in Transaction /\ SameRest(t, u) /\ u.ops = t.ops
        /\ u.backend_close_requested = TRUE /\ u.backend_stream = "closed"
    BY DEF Transaction, SameRest, SameExchange, SameProgress
  <2>2. BackendPending(u) <=> BackendPending(t)
    BY <2>1 DEF BackendPending, SameRest
  <2>3. CloseBackend(t) = IF BackendPending(t) THEN u ELSE v
    BY <1>2, <2>1, <2>2 DEF CloseBackend, ReleaseClosedBackend
  <2> HIDE DEF u
  <2>4. /\ v \in Transaction /\ SameRest(u, v) /\ v.ops = u.ops
        /\ v.backend_close_requested = TRUE /\ v.backend_stream = "none"
    BY <2>1 DEF Transaction, SameRest, SameExchange, SameProgress
  <2> HIDE DEF v
  <2>5. SameRest(t, v)
    BY <2>1, <2>4 DEF SameRest, SameExchange, SameProgress
  <2> QED  BY <1>2, <2>1, <2>3, <2>4, <2>5
<1> QED  BY <1>1, <1>2

\* Fewer operations in flight, and the backend's connection gone once it was given up
\* and none of them uses it, is sound.
LEMMA FewerOperations ==
  ASSUME NEW t, NEW u \in Transaction, Sound(t), SameRest(t, u),
         u.ops \subseteq t.ops, u.backend_close_requested = t.backend_close_requested,
         \/ u.backend_stream = t.backend_stream
         \/ /\ u.backend_stream = "none" /\ ~BackendPending(u)
            /\ t.backend_close_requested
  PROVE  /\ Sound(u) 
         /\ \A op : Awaits(t, op) => Awaits(u, op)
<1>1. \A op : Awaits(t, op) => Awaits(u, op)
  BY DEF Awaits, SameRest, SameExchange, SameProgress, Sound, Unsent
<1>2. Shape(u.ops)
  BY DEF Shape, Sound
<1>3. Unanswered(t) => Unanswered(u)
  BY DEF Unanswered, SameRest, SameExchange, SameProgress, Unsent
<1>4. BackendPending(u) => BackendPending(t)
  BY DEF BackendPending
<1>5. Unsent(t) => Unsent(u)
  BY DEF SameRest, SameExchange, SameProgress, Unsent
<1>6. Reusable(t) => Reusable(u)
  BY DEF SameRest, SameExchange, SameProgress, Reusable
<1> QED  BY <1>1, <1>2, <1>3, <1>4, <1>5, <1>6 DEF Sound, SameRest, SameExchange, SameProgress

\* An operation ends before its handler runs.
LEMMA OperationEnds ==
  ASSUME NEW t, NEW op, Sound(t), op \in t.ops
  PROVE  LET u == FinishOperation(t, op)
         IN  /\ Sound(u) /\ SameRest(t, u) /\ Awaits(u, op)
             /\ u.ops = t.ops \ {op}
             /\ u.backend_close_requested = t.backend_close_requested
             /\ Settled(t) /\ op # "error_write" => Settled(u)
<1> DEFINE v == [t EXCEPT !.ops = @ \ {op}]
           w == [v EXCEPT !.backend_stream = "none"]
           u == FinishOperation(t, op)
<1>1. /\ v \in Transaction /\ SameRest(t, v) /\ v.ops = t.ops \ {op}
      /\ v.backend_close_requested = t.backend_close_requested
      /\ v.backend_stream = t.backend_stream
  BY DEF Sound, Transaction, SameRest, SameExchange, SameProgress
<1>2. u = v \/ (u = w /\ v.backend_close_requested /\ ~BackendPending(v))
  BY DEF FinishOperation, ReleaseClosedBackend
<1> HIDE DEF v
<1>3. /\ w \in Transaction /\ SameRest(t, w) /\ w.ops = t.ops \ {op}
      /\ w.backend_close_requested = t.backend_close_requested
      /\ w.backend_stream = "none"
      /\ BackendPending(w) <=> BackendPending(v)
  BY <1>1 DEF Transaction, SameRest, SameExchange, SameProgress, BackendPending
<1> HIDE DEF u, w
<1>4. Awaits(t, op)
  BY DEF Sound
<1>5. Sound(u) /\ Awaits(u, op)
  BY <1>1, <1>2, <1>3, <1>4, FewerOperations
<1>6. Settled(t) /\ op # "error_write" => Settled(u)
  BY <1>1, <1>2, <1>3 DEF Settled, Quiescing, SameRest, SameExchange, SameProgress
<1> QED  BY <1>1, <1>2, <1>3, <1>5, <1>6 DEF u

\* finish, called with everything quiet, leaves a completed transaction.
LEMMA FinishSettles ==
  ASSUME NEW t, NEW keep \in {"close", "keep"}, Sound(t), t.completed = "no",
         t.deferred_finish = "none", t.ops = {}, t.backend_stream = "none",
         keep = "keep" => Reusable(t)
  PROVE  LET u == Finish(t, keep)
         IN  /\ Sound(u) /\ Settled(u) /\ SameExchange(t, u)
             /\ u.ops = {} /\ u.completed = keep
<1> DEFINE c == CancelAcquire(t)
           u == Finish(t, keep)
<1>1. /\ c \in Transaction /\ SameExchange(t, c) /\ c.ops = {} /\ c.backend_stream = "none"
      /\ c.backend_close_requested = t.backend_close_requested
      /\ c.acquire = IF t.acquire = "waiting" THEN "cancelled" ELSE t.acquire
      /\ c.deferred_finish = "none" /\ c.cancelled = t.cancelled
      /\ c.client_cancel_requested = t.client_cancel_requested
  BY DEF Sound, Transaction, SameExchange, SameProgress, CancelAcquire
<1>2. u = [c EXCEPT !.completed = keep, !.connecting = FALSE, !.permit = FALSE]
  BY DEF Finish
<1> HIDE DEF c, u
<1>3. /\ u \in Transaction /\ SameExchange(t, u) /\ u.ops = {} /\ u.backend_stream = "none"
      /\ u.backend_close_requested = t.backend_close_requested
      /\ u.acquire = IF t.acquire = "waiting" THEN "cancelled" ELSE t.acquire
      /\ u.deferred_finish = "none" /\ u.cancelled = t.cancelled
      /\ u.client_cancel_requested = t.client_cancel_requested
      /\ u.completed = keep /\ u.connecting = FALSE /\ u.permit = FALSE
  BY ZenonT(60), <1>1, <1>2 DEF Transaction, SameExchange, SameProgress
<1>4. Reusable(t) => Reusable(u)
  BY <1>3 DEF Reusable, SameExchange, SameProgress
<1>5. Unanswered(t) => Unanswered(u)
  BY <1>3 DEF Unanswered, Unsent, SameExchange, SameProgress
<1>6. ~BackendPending(u) /\ Shape(u.ops)
  BY <1>3 DEF BackendPending, Shape
<1>7. Sound(u)
  BY <1>3, <1>4, <1>5, <1>6 DEF Sound, SameExchange, SameProgress
<1>8. Settled(u)
  BY <1>3 DEF Settled, Quiescing
<1> QED  BY <1>3, <1>7, <1>8 DEF u

\* maybe_finish_deferred either changes nothing or completes the transaction.
LEMMA FinishDeferredSettles ==
  ASSUME NEW t, Sound(t), t.deferred_finish = "none" => Settled(t),
         t.deferred_finish # "none" => ~t.pooled
  PROVE  LET u == FinishDeferred(t)
         IN  /\ Sound(u) /\ Settled(u) /\ SameExchange(t, u)
             /\ u.ops = t.ops
<1> DEFINE u == FinishDeferred(t)
           d == t.deferred_finish
           r == ReleaseClosedBackend(t)
           e == [r EXCEPT !.deferred_finish = "none"]
<1>1. CASE t.deferred_finish = "none"
  BY <1>1 DEF FinishDeferred, SameExchange, SameProgress
<1>2. CASE t.deferred_finish # "none" /\ t.ops # {}
  <2>1. t.ops \subseteq BackendOps \cup ClientOps
    BY DEF Sound, Transaction
  <2>2. u = t
    BY <1>2, <2>1 DEF FinishDeferred, BackendPending, ClientPending
  <2>3. t.acquire = "answered"
    BY <1>2 DEF Sound, Awaits
  <2>4. Settled(t)
    BY <1>2, <2>3 DEF Settled, Quiescing
  <2> QED  BY <2>2, <2>4 DEF SameExchange, SameProgress
<1>3. CASE t.deferred_finish # "none" /\ t.ops = {}
  <2>1. ~BackendPending(t) /\ ~ClientPending(t)
    BY <1>3 DEF BackendPending, ClientPending
  <2>2. t \in Transaction /\ d \in {"close", "keep"} /\ t.completed = "no"
    BY <1>3 DEF Sound, Transaction
  <2>3. /\ r \in Transaction /\ SameRest(t, r) /\ r.ops = {}
        /\ r.backend_close_requested = t.backend_close_requested
        /\ r.backend_stream = "none"
    BY <1>3, <2>1, <2>2
       DEF Sound, ReleaseClosedBackend, Transaction, SameRest, SameExchange, SameProgress
  <2>4. u = Finish(e, d)
    BY <1>3, <2>1 DEF FinishDeferred
  <2> HIDE DEF r
  <2>5. /\ e \in Transaction /\ SameExchange(t, e) /\ e.ops = {}
        /\ e.backend_close_requested = t.backend_close_requested
        /\ e.backend_stream = "none" /\ e.deferred_finish = "none"
        /\ e.acquire = t.acquire /\ e.permit = t.permit /\ e.connecting = t.connecting
        /\ e.completed = t.completed /\ e.cancelled = t.cancelled
        /\ e.client_cancel_requested = t.client_cancel_requested
    BY <2>3 DEF Transaction, SameRest, SameExchange, SameProgress
  <2> HIDE DEF e
  <2>6. ~t.connecting
    BY <1>3 DEF Sound
  <2>7. Unanswered(t) => Unanswered(e)
    BY <2>5 DEF Unanswered, Unsent, SameExchange, SameProgress
  <2>8. Reusable(t) => Reusable(e)
    BY <2>5 DEF Reusable, SameExchange, SameProgress
  <2>9. ~BackendPending(e) /\ Shape(e.ops)
    BY <2>5 DEF BackendPending, Shape
  <2>10. Sound(e)
    BY <2>2, <2>5, <2>6, <2>7, <2>8, <2>9 DEF Sound, SameExchange, SameProgress
  <2>11. d = "keep" => Reusable(e)
    BY <2>8 DEF Sound
  <2>12. Sound(u) /\ Settled(u) /\ SameExchange(e, u) /\ u.ops = {}
    BY <2>2, <2>4, <2>5, <2>10, <2>11, FinishSettles
  <2>13. SameExchange(t, u)
    BY <2>5, <2>12 DEF SameExchange, SameProgress
  <2> QED  BY <1>3, <2>12, <2>13
<1> QED  BY <1>1, <1>2, <1>3

\* finish_when_io_quiesced, called with the backend's connection given up.
LEMMA FinishWhenQuiescedSettles ==
  ASSUME NEW t, NEW keep \in {"close", "keep"}, Sound(t), t.completed = "no", ~t.pooled,
         ~t.connecting, t.backend_stream # "open",
         keep = "keep" => Reusable(t) /\ ~ClientPending(t)
  PROVE  LET u == FinishWhenQuiesced(t, keep)
         IN  /\ Sound(u) /\ Settled(u) /\ SameExchange(t, u)
             /\ u.ops = t.ops
<1> DEFINE v == [t EXCEPT !.deferred_finish = keep,
                          !.client_cancel_requested = @ \/ ClientPending(t)]
           u == FinishWhenQuiesced(t, keep)
<1>1. u = FinishDeferred(v)
  BY DEF FinishWhenQuiesced
<1>2. /\ v \in Transaction /\ SameExchange(t, v) /\ v.ops = t.ops
      /\ v.backend_close_requested = t.backend_close_requested
      /\ v.backend_stream = t.backend_stream /\ v.deferred_finish = keep
      /\ v.acquire = t.acquire /\ v.permit = t.permit /\ v.connecting = t.connecting
      /\ v.completed = t.completed /\ v.cancelled = t.cancelled
      /\ v.client_cancel_requested = (t.client_cancel_requested \/ ClientPending(t))
  <2>1. (t.client_cancel_requested \/ ClientPending(t)) \in BOOLEAN
    BY DEF ClientPending
  <2> QED  BY ZenonT(60), <2>1 DEF Sound, Transaction, SameExchange, SameProgress
<1> HIDE DEF v, u
<1>3. Unanswered(t) => Unanswered(v)
  BY <1>2 DEF Unanswered, Unsent, SameExchange, SameProgress
<1>4. keep = "keep" => Reusable(v)
  BY <1>2 DEF Reusable, SameExchange, SameProgress
<1>5. (BackendPending(v) <=> BackendPending(t)) /\ (~ClientPending(t) <=> v.ops \cap ClientOps = {})
  BY <1>2 DEF BackendPending, ClientPending
<1>6. \A op : Awaits(t, op) => Awaits(v, op)
  BY <1>2 DEF Awaits, Unsent, SameExchange, SameProgress
<1>7. Sound(v)
  BY <1>2, <1>3, <1>4, <1>5, <1>6 DEF Sound, SameExchange, SameProgress
<1>8. Sound(u) /\ Settled(u) /\ SameExchange(v, u) /\ u.ops = v.ops
  BY <1>1, <1>2, <1>7, FinishDeferredSettles DEF SameExchange, SameProgress
<1>9. SameExchange(t, u)
  BY <1>2, <1>8 DEF SameExchange, SameProgress
<1> QED  BY <1>2, <1>8, <1>9 DEF u

\* close_backend, called when nothing waits for the connection to open.
LEMMA CloseBackendSound ==
  ASSUME NEW t, Sound(t), ~t.connecting
  PROVE  LET u == CloseBackend(t)
         IN  /\ Sound(u) /\ SameRest(t, u) /\ u.ops = t.ops
             /\ u.backend_stream # "open"
             /\ \A op : Awaits(t, op) => Awaits(u, op)
             /\ t.backend_close_requested => u.backend_close_requested
<1> DEFINE u == CloseBackend(t)
<1>0. t \in Transaction
  BY DEF Sound
<1>1. /\ u \in Transaction /\ SameRest(t, u) /\ u.ops = t.ops
      /\ t.backend_stream = "none" =>
           /\ u.backend_stream = "none"
           /\ u.backend_close_requested = t.backend_close_requested
      /\ t.backend_stream # "none" =>
           /\ u.backend_close_requested = TRUE
           /\ u.backend_stream = IF BackendPending(t) THEN "closed" ELSE "none"
  BY <1>0, CloseBackendFrame
<1> HIDE DEF u
<1>2. \A op : Awaits(t, op) => Awaits(u, op)
  BY <1>1 DEF Awaits, SameRest, SameExchange, SameProgress, Sound, Unsent
<1>3. Unanswered(t) => Unanswered(u)
  BY <1>1 DEF Unanswered, SameRest, SameExchange, SameProgress, Unsent
<1>4. BackendPending(u) <=> BackendPending(t)
  BY <1>1 DEF BackendPending
<1>6. Reusable(t) => Reusable(u)
  BY <1>1 DEF SameRest, SameExchange, SameProgress, Reusable
<1>7. Sound(u)
  BY <1>1, <1>2, <1>3, <1>4, <1>6 DEF Sound, SameRest, SameExchange, SameProgress
<1>8. t.backend_close_requested => u.backend_close_requested
  BY <1>1
<1> QED  BY <1>1, <1>2, <1>7, <1>8 DEF u

\* fail_after_header and finish_tunnel give the backend up and wait for what is in flight.
LEMMA FailAfterHeaderSettles ==
  ASSUME NEW t, Sound(t), t.completed = "no", ~t.pooled, ~t.connecting
  PROVE  LET u == FailAfterHeader(t)
         IN  /\ Sound(u) /\ Settled(u) /\ SameExchange(t, u)
             /\ u.ops = t.ops
<1> DEFINE c == CloseBackend(t)
           u == FailAfterHeader(t)
<1>1. Sound(c) /\ SameRest(t, c) /\ c.ops = t.ops /\ c.backend_stream # "open"
  BY CloseBackendSound
<1>2. u = FinishWhenQuiesced(c, "close")
  BY DEF FailAfterHeader
<1> HIDE DEF c, u
<1>3. c.completed = "no" /\ ~c.pooled /\ ~c.connecting
  BY <1>1 DEF SameRest, SameExchange, SameProgress
<1>4. Sound(u) /\ Settled(u) /\ SameExchange(c, u) /\ u.ops = c.ops
  BY <1>1, <1>2, <1>3, FinishWhenQuiescedSettles
<1>5. SameExchange(t, u)
  BY <1>1, <1>4 DEF SameRest, SameExchange, SameProgress
<1> QED  BY <1>1, <1>4, <1>5 DEF u

\* A transaction that stops waiting for its permit and for the connection.
LEMMA StopWaiting ==
  ASSUME NEW t, Sound(t)
  PROVE  LET b == [CancelAcquire(t) EXCEPT !.connecting = FALSE]
         IN  /\ Sound(b) /\ SameExchange(t, b) /\ b.ops = t.ops /\ b.connecting = FALSE
             /\ b.completed = t.completed
<1> DEFINE a == CancelAcquire(t)
           b == [a EXCEPT !.connecting = FALSE]
<1>1. /\ b \in Transaction /\ SameExchange(t, b) /\ b.ops = t.ops
      /\ b.backend_stream = t.backend_stream /\ b.permit = t.permit
      /\ b.backend_close_requested = t.backend_close_requested
      /\ b.acquire = IF t.acquire = "waiting" THEN "cancelled" ELSE t.acquire
      /\ b.deferred_finish = t.deferred_finish /\ b.cancelled = t.cancelled
      /\ b.client_cancel_requested = t.client_cancel_requested
      /\ b.completed = t.completed /\ b.connecting = FALSE
  <2>1. /\ a \in Transaction /\ SameExchange(t, a) /\ a.ops = t.ops
        /\ a.backend_stream = t.backend_stream /\ a.permit = t.permit
        /\ a.backend_close_requested = t.backend_close_requested
        /\ a.acquire = IF t.acquire = "waiting" THEN "cancelled" ELSE t.acquire
        /\ a.deferred_finish = t.deferred_finish /\ a.cancelled = t.cancelled
        /\ a.client_cancel_requested = t.client_cancel_requested
        /\ a.completed = t.completed
    BY DEF Sound, Transaction, SameExchange, SameProgress, CancelAcquire
  <2> HIDE DEF a
  <2> QED  BY <2>1 DEF Transaction, SameExchange, SameProgress
<1> HIDE DEF b
<1>3. \A op : Awaits(t, op) => Awaits(b, op)
  BY <1>1 DEF Awaits, Unsent, SameExchange, SameProgress
<1>4. Unanswered(t) => Unanswered(b)
  BY <1>1 DEF Unanswered, Unsent, SameExchange, SameProgress
<1>5. Reusable(t) => Reusable(b)
  BY <1>1 DEF Reusable, SameExchange, SameProgress
<1>6. BackendPending(b) <=> BackendPending(t)
  BY <1>1 DEF BackendPending
<1>7. Sound(b)
  BY <1>1, <1>3, <1>4, <1>5, <1>6 DEF Sound, SameExchange, SameProgress
<1> QED  BY <1>1, <1>7 DEF b

\* The transaction decides to complete without keep-alive, once everything is quiet.
LEMMA CloseWhenQuiet ==
  ASSUME NEW c, NEW d \in Transaction, Sound(c), c.connecting = FALSE,
         c.backend_stream # "open", c.completed = "no", ~c.pooled,
         SameExchange(c, d), d.ops = c.ops, d.connecting = FALSE,
         d.backend_stream = c.backend_stream, d.permit = c.permit,
         d.backend_close_requested = c.backend_close_requested,
         d.acquire = c.acquire, d.completed = c.completed, d.deferred_finish = "close"
  PROVE  LET u == FinishDeferred(d)
         IN  Sound(u) /\ Settled(u) /\ SameExchange(c, u) /\ u.ops = c.ops
<1>1. \A op : Awaits(c, op) => Awaits(d, op)
  BY DEF Awaits, Unsent, SameExchange, SameProgress
<1>2. Unanswered(c) => Unanswered(d)
  BY DEF Unanswered, Unsent, SameExchange, SameProgress
<1>3. BackendPending(d) <=> BackendPending(c)
  BY DEF BackendPending
<1>4. Sound(d)
  BY <1>1, <1>2, <1>3 DEF Sound, SameExchange, SameProgress
<1>5. ~d.pooled
  BY DEF SameExchange, SameProgress
<1>6. LET u == FinishDeferred(d)
      IN  Sound(u) /\ Settled(u) /\ SameExchange(d, u) /\ u.ops = d.ops
  BY <1>4, <1>5, FinishDeferredSettles
<1> QED  BY <1>6 DEF SameExchange, SameProgress

\* abort_from_exception_noexcept, wherever the exception was thrown.
LEMMA AbortSettles ==
  ASSUME NEW t, Sound(t), t.pooled => t.completed # "no"
  PROVE  LET u == Abort(t) IN Sound(u) /\ Settled(u) /\ u.ops = t.ops
<1> DEFINE b == [CancelAcquire(t) EXCEPT !.connecting = FALSE]
           c == CloseBackend(b)
           d == [c EXCEPT !.deferred_finish = "close", !.client_cancel_requested = TRUE]
<1>1. /\ Sound(b) /\ SameExchange(t, b) /\ b.ops = t.ops /\ b.connecting = FALSE
      /\ b.completed = t.completed
  BY StopWaiting
<1>2. Abort(t) = IF t.completed # "no" THEN c ELSE FinishDeferred(d)
  BY DEF Abort
<1> HIDE DEF b
<1>3. /\ Sound(c) /\ SameRest(b, c) /\ c.ops = b.ops /\ c.backend_stream # "open"
      /\ c.connecting = FALSE
  BY <1>1, CloseBackendSound DEF SameRest
<1> HIDE DEF c
<1>4. CASE t.completed # "no"
  <2>1. c.completed # "no"
    BY <1>1, <1>3, <1>4 DEF SameRest
  <2> QED  BY <1>1, <1>2, <1>3, <1>4, <2>1 DEF Settled, Quiescing
<1>5. CASE t.completed = "no"
  <2>1. c.completed = "no" /\ ~c.pooled
    BY <1>1, <1>3, <1>5 DEF SameRest, SameExchange, SameProgress
  <2>2. /\ d \in Transaction /\ SameExchange(c, d) /\ d.ops = c.ops
        /\ d.backend_stream = c.backend_stream /\ d.permit = c.permit
        /\ d.backend_close_requested = c.backend_close_requested
        /\ d.acquire = c.acquire /\ d.deferred_finish = "close"
        /\ d.completed = c.completed /\ d.connecting = FALSE
    BY ZenonT(60), <1>3 DEF Sound, Transaction, SameExchange, SameProgress
  <2> HIDE DEF d
  <2>3. LET u == FinishDeferred(d)
        IN  Sound(u) /\ Settled(u) /\ SameExchange(c, u) /\ u.ops = c.ops
    BY <1>3, <2>1, <2>2, CloseWhenQuiet
  <2> QED  BY <1>1, <1>2, <1>3, <1>5, <2>3
<1> QED  BY <1>4, <1>5

\* The handlers stop waiting for the connection without further ado.
LEMMA StopConnecting ==
  ASSUME NEW t, Sound(t)
  PROVE  LET u == [t EXCEPT !.connecting = FALSE]
         IN  /\ Sound(u) /\ SameExchange(t, u) /\ u.ops = t.ops /\ u.connecting = FALSE
             /\ u.backend_stream = t.backend_stream /\ u.completed = t.completed
             /\ u.backend_close_requested = t.backend_close_requested
             /\ u.deferred_finish = t.deferred_finish /\ u.acquire = t.acquire
             /\ u.client_cancel_requested = t.client_cancel_requested
             /\ u.cancelled = t.cancelled
             /\ Settled(t) => Settled(u)
<1> DEFINE u == [t EXCEPT !.connecting = FALSE]
<1>1. /\ u \in Transaction /\ SameExchange(t, u) /\ u.ops = t.ops /\ u.connecting = FALSE
      /\ u.backend_stream = t.backend_stream /\ u.permit = t.permit
      /\ u.backend_close_requested = t.backend_close_requested
      /\ u.acquire = t.acquire
      /\ u.deferred_finish = t.deferred_finish /\ u.cancelled = t.cancelled
      /\ u.client_cancel_requested = t.client_cancel_requested
      /\ u.completed = t.completed
  BY DEF Sound, Transaction, SameExchange, SameProgress
<1> HIDE DEF u
<1>2. \A op : Awaits(t, op) => Awaits(u, op)
  BY <1>1 DEF Awaits, Unsent, SameExchange, SameProgress
<1>3. Unanswered(t) => Unanswered(u)
  BY <1>1 DEF Unanswered, Unsent, SameExchange, SameProgress
<1>4. Reusable(t) => Reusable(u)
  BY <1>1 DEF Reusable, SameExchange, SameProgress
<1>5. BackendPending(u) <=> BackendPending(t)
  BY <1>1 DEF BackendPending
<1>6. Sound(u)
  BY <1>1, <1>2, <1>3, <1>4, <1>5 DEF Sound, SameExchange, SameProgress
<1>7. Settled(t) => Settled(u)
  BY <1>1 DEF Settled, Quiescing, SameExchange, SameProgress
<1> QED  BY <1>1, <1>6, <1>7 DEF u

\* What a handler may leave behind, called with t.
Leaves(t, r) ==
  /\ Sound(r) /\ Settled(r)
  /\ t.sent \subseteq r.sent
  /\ r.fault # "none" => "error" \in t.sent
  /\ Quiescing(t) => r.ops \subseteq t.ops /\ r.fault = t.fault
  /\ t.stop_request_upload => (r.ops \ t.ops) \cap Upload = {}

\* An error may be sent: no response has been, and what is in flight does not write to
\* the client.
MayAnswer(t) ==
  /\ ~Quiescing(t) /\ ~t.client_cancel_requested /\ ~t.cancelled
  /\ t.acquire = "answered" /\ "response" \notin t.sent /\ ~t.pooled
  /\ \A op \in t.ops : op = "response_header" \/ op \in Opening \/ op \in Upload

\* send_error when no error response is being written.
LEMMA SendErrorSettles ==
  ASSUME NEW t, NEW retain \in BOOLEAN, Sound(t), ~t.connecting, MayAnswer(t)
  PROVE  LET u == SendError(t, retain)
         IN  /\ Sound(u) /\ Settled(u)
             /\ u.ops = t.ops \cup {"error_write"} /\ u.fault = t.fault
             /\ u.sent = t.sent \cup {"error"}
<1> DEFINE c == CloseBackend(t)
           k == t.client_keep_alive /\ t.parser_done /\ retain
           v == [c EXCEPT !.error_keep_alive = k, !.sent = @ \cup {"error"}]
           u == [v EXCEPT !.ops = @ \cup {"error_write"}]
<1>0. t \in Transaction /\ k \in BOOLEAN /\ ~t.pooled
  BY DEF Sound, Transaction, MayAnswer
<1>1. /\ Sound(c) /\ c \in Transaction /\ SameRest(t, c) /\ c.ops = t.ops
      /\ c.backend_stream # "open" /\ c.connecting = FALSE
  <2>1. t.connecting = FALSE
    BY DEF Sound, Transaction
  <2>2. Sound(c) /\ SameRest(t, c) /\ c.ops = t.ops /\ c.backend_stream # "open"
    BY <2>1, CloseBackendSound
  <2> QED  BY <2>1, <2>2 DEF SameRest, Sound
<1>2. SendError(t, retain) = u
  BY DEF SendError, StartClient, MayAnswer, Opening, Upload
<1> HIDE DEF c, k
<1>3. /\ v \in Transaction /\ SameProgress(c, v) /\ v.ops = c.ops
      /\ v.error_keep_alive = k /\ v.sent = c.sent \cup {"error"} /\ v.fault = c.fault
      /\ v.backend_stream = c.backend_stream /\ v.permit = c.permit
      /\ v.backend_close_requested = c.backend_close_requested
      /\ v.acquire = c.acquire /\ v.connecting = c.connecting
      /\ v.deferred_finish = c.deferred_finish /\ v.cancelled = c.cancelled
      /\ v.client_cancel_requested = c.client_cancel_requested
      /\ v.completed = c.completed
  BY ZenonT(60), <1>0, <1>1 DEF Transaction, SameProgress
<1> HIDE DEF v
<1>4. /\ u \in Transaction /\ SameProgress(c, u) /\ u.ops = c.ops \cup {"error_write"}
      /\ u.error_keep_alive = k /\ u.sent = c.sent \cup {"error"} /\ u.fault = c.fault
      /\ u.backend_stream = c.backend_stream /\ u.permit = c.permit
      /\ u.backend_close_requested = c.backend_close_requested
      /\ u.acquire = c.acquire /\ u.connecting = c.connecting
      /\ u.deferred_finish = c.deferred_finish /\ u.cancelled = c.cancelled
      /\ u.client_cancel_requested = c.client_cancel_requested
      /\ u.completed = c.completed
  <2>1. "error_write" \in ClientOps
    BY DEF ClientOps, ClientWrites
  <2> QED  BY <1>3, <2>1 DEF Transaction, SameProgress
<1> HIDE DEF u
<1>5. /\ c.acquire = "answered" /\ c.completed = "no" /\ c.deferred_finish = "none"
      /\ "response" \notin c.sent /\ ~c.pooled
      /\ ~c.client_cancel_requested /\ ~c.cancelled
  BY <1>0, <1>1 DEF MayAnswer, SameRest, SameExchange, SameProgress, Quiescing
<1>6. Shape(u.ops)
  <2>1. \A op \in c.ops : op = "response_header" \/ op \in Opening \/ op \in Upload
    BY <1>1 DEF MayAnswer
  <2>2. /\ "error_write" \notin Main /\ "error_write" \notin Upload
        /\ "error_write" \notin Tunnel
        /\ \A op \in c.ops : op \notin Tunnel
    BY <2>1 DEF Main, Opening, Upload, Tunnel, Response, Upgrade
  <2>3. Shape(c.ops)
    BY <1>1 DEF Sound
  <2> QED  BY <1>4, <2>1, <2>2, <2>3 DEF Shape, Tunnel
<1>7. k => u.parser_done /\ u.client_keep_alive
  BY <1>1, <1>4 DEF k, SameRest, SameExchange, SameProgress
<1>8. \A op : Awaits(c, op) => Awaits(u, op)
  BY <1>1, <1>4, <1>7 DEF Awaits, Unsent, SameProgress
<1>9. Awaits(u, "error_write")
  BY <1>1, <1>4, <1>5, <1>7
     DEF Awaits, SameProgress, Opening, Upload, Response, Upgrade, Tunnel
<1>10. BackendPending(u) <=> BackendPending(c)
  BY <1>4 DEF BackendPending, BackendOps, BackendReads, BackendWrites
<1>11. Sound(u)
  BY <1>1, <1>4, <1>5, <1>6, <1>8, <1>9, <1>10 DEF Sound, SameProgress
<1>12. Settled(u)
  BY <1>4, <1>5 DEF Settled, Quiescing, SameProgress
<1>13. c.fault = t.fault /\ c.sent = t.sent
  BY <1>1 DEF SameRest, SameExchange
<1> QED  BY <1>1, <1>2, <1>4, <1>11, <1>12, <1>13

\* fail before any response was passed on.
LEMMA FailSettles ==
  ASSUME NEW t, Sound(t), MayAnswer(t)
  PROVE  LET u == Fail(t)
         IN  /\ Sound(u) /\ Settled(u)
             /\ u.ops = t.ops \cup {"error_write"} /\ u.fault = t.fault
             /\ u.sent = t.sent \cup {"error"}
<1> DEFINE v == [t EXCEPT !.connecting = FALSE]
<1>1. /\ Sound(v) /\ SameExchange(t, v) /\ v.ops = t.ops /\ v.connecting = FALSE
      /\ v.completed = t.completed /\ v.deferred_finish = t.deferred_finish
      /\ v.acquire = t.acquire /\ v.cancelled = t.cancelled
      /\ v.client_cancel_requested = t.client_cancel_requested
  BY StopConnecting
<1>2. Fail(t) = SendError(v, TRUE)
  BY DEF Fail, MayAnswer, Quiescing
<1> HIDE DEF v
<1>3. MayAnswer(v) /\ v.fault = t.fault /\ v.sent = t.sent
  BY <1>1 DEF MayAnswer, Quiescing, SameExchange, SameProgress
<1>4. LET u == SendError(v, TRUE)
      IN  /\ Sound(u) /\ Settled(u)
          /\ u.ops = v.ops \cup {"error_write"} /\ u.fault = v.fault
          /\ u.sent = v.sent \cup {"error"}
  BY <1>1, <1>3, SendErrorSettles
<1> QED  BY <1>1, <1>2, <1>3, <1>4

\* A second error response replaces the first one, which is still being written: from
\* there on nothing is claimed but that an upload was under way.
LEMMA SendErrorTwice ==
  ASSUME NEW t, NEW retain \in BOOLEAN, Sound(t), Settled(t), ~t.connecting,
         "error_write" \in t.ops, req.body # "none", ~t.request_upload_complete
  PROVE  LET u == SendError(t, retain)
         IN  /\ Sound(u) /\ Settled(u) /\ u.ops = t.ops /\ u.sent = t.sent
             /\ "error" \in t.sent
<1> DEFINE c == CloseBackend(t)
           u == [c EXCEPT !.fault = "response_replaced"]
<1>1. /\ Sound(c) /\ SameRest(t, c) /\ c.ops = t.ops /\ "error" \in t.sent
  BY CloseBackendSound DEF Sound, Awaits
<1>2. SendError(t, retain) = u
  BY DEF SendError
<1> HIDE DEF c
<1>3. /\ u \in Transaction /\ SameProgress(c, u) /\ u.ops = c.ops
      /\ u.error_keep_alive = c.error_keep_alive /\ u.sent = c.sent
      /\ u.backend_stream = c.backend_stream /\ u.permit = c.permit
      /\ u.backend_close_requested = c.backend_close_requested
      /\ u.acquire = c.acquire /\ u.connecting = c.connecting
      /\ u.deferred_finish = c.deferred_finish /\ u.cancelled = c.cancelled
      /\ u.client_cancel_requested = c.client_cancel_requested
      /\ u.completed = c.completed
  BY <1>1 DEF Sound, Transaction, SameProgress
<1> HIDE DEF u
<1>4. \A op : Awaits(c, op) => Awaits(u, op)
  BY <1>3 DEF Awaits, Unsent, SameProgress
<1>5. Unanswered(c) => Unanswered(u)
  BY <1>3 DEF Unanswered, Unsent, SameProgress
<1>6. Reusable(c) => Reusable(u)
  BY <1>3 DEF Reusable, SameProgress
<1>7. BackendPending(u) <=> BackendPending(c)
  BY <1>3 DEF BackendPending
<1>8. Unsent(c) => Unsent(u)
  BY <1>3 DEF Unsent, SameProgress
<1>9. c.sent = t.sent /\ c.request_upload_complete = t.request_upload_complete
  BY <1>1 DEF SameRest, SameExchange, SameProgress
<1>10. Sound(u)
  BY <1>1, <1>3, <1>4, <1>5, <1>6, <1>7, <1>8, <1>9 DEF Sound, SameProgress
<1>11. Settled(u)
  BY <1>1, <1>3 DEF Settled, Quiescing, SameRest, SameExchange, SameProgress
<1> QED  BY <1>1, <1>2, <1>3, <1>9, <1>10, <1>11

\* The states an exception leaves behind are sound and settled.
LEMMA ThrownSettles ==
  ASSUME NEW t, NEW r, NEW z \in Thrown(t, r), Sound(t), Leaves(t, r)
  PROVE  /\ Sound(z) /\ Settled(z)
         /\ z.ops \subseteq r.ops /\ ~(r.ops \subseteq t.ops)
<1> DEFINE new == r.ops \ t.ops
           first == new \cap {"response_header", "client_tunnel_read"}
<1>1. PICK started \in {{}, first} \ {new} :
        z = Abort([r EXCEPT !.ops = (@ \ new) \cup started, !.sent = t.sent])
  BY DEF Thrown
<1> DEFINE w == [r EXCEPT !.ops = (@ \ new) \cup started, !.sent = t.sent]
           v == [r EXCEPT !.ops = (@ \ new) \cup started]
<1>2. /\ started \subseteq new /\ started # new /\ "error_write" \notin started
      /\ t.sent \subseteq r.sent /\ Sound(r) /\ r \in Transaction
  BY DEF Leaves, Sound
<1>3. new # {}
  BY <1>2
<1>4. /\ v \in Transaction /\ SameRest(r, v) /\ v.ops = (r.ops \ new) \cup started
      /\ v.backend_stream = r.backend_stream
      /\ v.backend_close_requested = r.backend_close_requested
  BY <1>2 DEF Transaction, SameRest, SameExchange, SameProgress
<1>5. w = [v EXCEPT !.sent = t.sent]
  OBVIOUS
<1> HIDE DEF new, first, v
<1>6. v.ops \subseteq r.ops
  BY <1>2, <1>4 DEF new
<1>7. Sound(v) /\ \A op : Awaits(r, op) => Awaits(v, op)
  BY <1>2, <1>4, <1>6, FewerOperations
<1>8. /\ w \in Transaction /\ SameProgress(v, w) /\ w.ops = v.ops
      /\ w.error_keep_alive = v.error_keep_alive /\ w.sent = t.sent /\ w.fault = v.fault
      /\ w.backend_stream = v.backend_stream /\ w.permit = v.permit
      /\ w.backend_close_requested = v.backend_close_requested
      /\ w.acquire = v.acquire /\ w.connecting = v.connecting
      /\ w.deferred_finish = v.deferred_finish /\ w.cancelled = v.cancelled
      /\ w.client_cancel_requested = v.client_cancel_requested
      /\ w.completed = v.completed
  <2> DEFINE x == [v EXCEPT !.sent = t.sent]
  <2>1. t.sent \in SUBSET {"response", "upgrade", "error"}
    BY DEF Sound, Transaction
  <2>2. v \in Transaction
    BY <1>4
  <2>3. x \in Transaction
    BY <2>1, <2>2 DEF Transaction
  <2>4. SameProgress(v, x)
    BY <2>2 DEF Transaction, SameProgress
  <2>5. /\ x.ops = v.ops
        /\ x.error_keep_alive = v.error_keep_alive /\ x.sent = t.sent /\ x.fault = v.fault
        /\ x.backend_stream = v.backend_stream /\ x.permit = v.permit
        /\ x.backend_close_requested = v.backend_close_requested
        /\ x.acquire = v.acquire /\ x.connecting = v.connecting
        /\ x.deferred_finish = v.deferred_finish /\ x.cancelled = v.cancelled
        /\ x.client_cancel_requested = v.client_cancel_requested
        /\ x.completed = v.completed
    BY <2>2 DEF Transaction
  <2> HIDE DEF x, w
  <2>6. w = x
    BY <1>5 DEF x
  <2> QED  BY <2>3, <2>4, <2>5, <2>6
<1> HIDE DEF w
<1>9. /\ v.sent = r.sent /\ v.fault = r.fault /\ v.pooled = r.pooled
      /\ v.completed = r.completed
  BY <1>4 DEF SameRest, SameExchange, SameProgress
<1>10. "error_write" \in w.ops => "error" \in t.sent
  BY <1>2, <1>4, <1>8 DEF Sound, Awaits, new
<1>11. \A op \in w.ops : Awaits(w, op)
  <2>1. \A op : Awaits(v, op) /\ (op = "error_write" => "error" \in t.sent) => Awaits(w, op)
    BY <1>2, <1>8, <1>9 DEF Awaits, Unsent, SameProgress
  <2> QED  BY <1>7, <1>8, <1>10, <2>1 DEF Sound
<1>12. Unanswered(v) => Unanswered(w)
  BY <1>2, <1>8, <1>9 DEF Unanswered, Unsent, SameProgress
<1>13. Reusable(v) => Reusable(w)
  BY <1>8 DEF Reusable, SameProgress
<1>14. BackendPending(w) <=> BackendPending(v)
  BY <1>8 DEF BackendPending
<1>15. Unsent(v) => Unsent(w)
  BY <1>2, <1>8, <1>9 DEF Unsent, SameProgress
<1>16. v.sent = {} => w.sent = {}
  BY <1>2, <1>8, <1>9
<1>17. r.fault # "none" => "error" \in t.sent
  BY DEF Leaves
<1>18. Sound(w)
  BY <1>2, <1>7, <1>8, <1>9, <1>11, <1>12, <1>13, <1>14, <1>15, <1>16, <1>17
     DEF Sound, SameProgress
<1>19. w.pooled => w.completed # "no"
  BY <1>8, <1>9 DEF SameProgress, Leaves, Settled
<1>20. Sound(z) /\ Settled(z) /\ z.ops = w.ops
  BY <1>1, <1>18, <1>19, AbortSettles DEF w
<1> QED  BY <1>3, <1>6, <1>8, <1>20 DEF new

\* An operation is started whose handler may rely on what it needs.
LEMMA StartSettles ==
  ASSUME NEW t, NEW op \in BackendOps \cup ClientOps, Sound(t), Settled(t),
         Awaits(t, op), t.deferred_finish = "none", Shape(t.ops \cup {op}),
         op \in BackendOps => t.backend_stream # "none"
  PROVE  LET u == [t EXCEPT !.ops = @ \cup {op}]
         IN  /\ Sound(u) /\ Settled(u) /\ SameRest(t, u)
             /\ u.ops = t.ops \cup {op} /\ u.backend_stream = t.backend_stream
             /\ u.backend_close_requested = t.backend_close_requested
<1> DEFINE u == [t EXCEPT !.ops = @ \cup {op}]
<1>1. /\ u \in Transaction /\ SameRest(t, u) /\ u.ops = t.ops \cup {op}
      /\ u.backend_stream = t.backend_stream
      /\ u.backend_close_requested = t.backend_close_requested
  BY DEF Sound, Transaction, SameRest, SameExchange, SameProgress
<1> HIDE DEF u
<1>2. \A o : Awaits(t, o) => Awaits(u, o)
  BY <1>1 DEF Awaits, Unsent, SameRest, SameExchange, SameProgress
<1>3. t.acquire = "answered" /\ t.completed = "no"
  BY DEF Awaits
<1>4. BackendPending(u) => u.backend_stream # "none"
  BY <1>1 DEF BackendPending, Sound
<1>5. Unsent(t) => Unsent(u)
  BY <1>1 DEF Unsent, SameRest, SameExchange, SameProgress
<1>6. Sound(u)
  BY <1>1, <1>2, <1>3, <1>4, <1>5 DEF Sound, SameRest, SameExchange, SameProgress
<1>7. Settled(u)
  BY <1>1 DEF Settled, Quiescing, SameRest, SameExchange, SameProgress
<1> QED  BY <1>1, <1>6, <1>7 DEF u

-----------------------------------------------------------------------------
(* The handlers                                                            *)

\* The handler of op is called with t.
Due(t, op) ==
  /\ Sound(t) /\ Awaits(t, op) /\ Shape(t.ops \cup {op}) /\ op \notin t.ops
  /\ t.fault = "none"
  /\ op # "error_write" => Settled(t)
  /\ ~Quiescing(t) => ~t.client_cancel_requested /\ ~t.cancelled

\* An operation ends, and its handler is called.
LEMMA HandlerIsDue ==
  ASSUME NEW op, IInv, Alive, op \in tx.ops
  PROVE  LET t == FinishOperation(tx, op)
         IN  /\ Due(t, op) /\ SameRest(tx, t) /\ t.ops = tx.ops \ {op}
<1> DEFINE t == FinishOperation(tx, op)
<1>1. /\ Sound(t) /\ SameRest(tx, t) /\ Awaits(t, op) /\ t.ops = tx.ops \ {op}
      /\ op # "error_write" => Settled(t)
  BY OperationEnds DEF IInv
<1> HIDE DEF t
<1>2. t.ops \cup {op} = tx.ops
  BY <1>1
<1>3. Shape(tx.ops)
  BY DEF IInv, Sound
<1>4. ~Quiescing(t) => ~t.client_cancel_requested /\ ~t.cancelled
  BY <1>1 DEF IInv, Settled, Quiescing, SameRest
<1>5. t.fault = "none"
  BY <1>1 DEF Alive, SameRest, SameExchange
<1> QED  BY <1>1, <1>2, <1>3, <1>4, <1>5 DEF Due, t

\* A handler that returns at once, or after maybe_finish_deferred.
LEMMA ReturnsAtOnce ==
  ASSUME NEW t, NEW op, Due(t, op), op # "error_write" \/ Quiescing(t)
  PROVE  /\ op # "error_write" => Leaves(t, t)
         /\ Leaves(t, FinishDeferred(t))
<1>1. Settled(t)
  <2>1. CASE op # "error_write"
    BY <2>1 DEF Due
  <2>2. CASE Quiescing(t)
    BY <2>2 DEF Due, Awaits, Settled
  <2> QED  BY <2>1, <2>2
<1>2. Sound(t) /\ t.fault = "none" /\ ~t.pooled
  BY DEF Due, Awaits
<1>3. LET u == FinishDeferred(t)
      IN  /\ Sound(u) /\ Settled(u) /\ SameExchange(t, u)
          /\ u.ops = t.ops
  BY <1>1, <1>2, FinishDeferredSettles
<1> QED  BY <1>1, <1>2, <1>3 DEF Leaves, SameExchange

\* What else is in flight when the handler of op is called.
LEMMA Company ==
  ASSUME NEW t, NEW op, Due(t, op)
  PROVE  /\ op \in Opening => t.ops \subseteq {"error_write"}
         /\ op \in {"request_header", "continue_write"} \cup Upgrade => t.ops = {}
         /\ op = "response_header" => t.ops \subseteq {"error_write"} \cup Upload
         /\ op \in Response => t.ops \subseteq Upload
         /\ op \in Upload => t.ops \subseteq {"error_write", "response_header"} \cup Response
         /\ op \in {"client_tunnel_read", "backend_tunnel_write"} =>
              /\ t.ops \subseteq {"backend_tunnel_read", "client_tunnel_write"}
              /\ ~({"backend_tunnel_read", "client_tunnel_write"} \subseteq t.ops)
         /\ op \in {"backend_tunnel_read", "client_tunnel_write"} =>
              /\ t.ops \subseteq {"client_tunnel_read", "backend_tunnel_write"}
              /\ ~({"client_tunnel_read", "backend_tunnel_write"} \subseteq t.ops)
         /\ op = "error_write" => t.ops \subseteq {"response_header"} \cup Opening \cup Upload
<1> DEFINE S == t.ops \cup {op}
<1>1. Shape(S) /\ op \in S /\ op \notin t.ops /\ t.ops \subseteq S
  BY DEF Due
<1>2. t.ops \subseteq Main \cup Upload \cup Tunnel \cup {"error_write"}
  BY DEF Due, Sound, Transaction, BackendOps, BackendReads, BackendWrites, ClientOps,
         ClientReads, ClientWrites, Main, Opening, Response, Upgrade, Upload, Tunnel
<1> HIDE DEF S
<1>3. ASSUME op \in Opening PROVE t.ops \subseteq {"error_write"}
  BY <1>1, <1>2, <1>3 DEF Shape, Main, Opening, Upload, Response, Tunnel
<1>4. ASSUME op \in {"request_header", "continue_write"} \cup Upgrade PROVE t.ops = {}
  BY <1>1, <1>2, <1>4 DEF Shape, Main, Opening, Upload, Response, Tunnel, Upgrade
<1>5. ASSUME op = "response_header" PROVE t.ops \subseteq {"error_write"} \cup Upload
  BY <1>1, <1>2, <1>5 DEF Shape, Main, Tunnel
<1>6. ASSUME op \in Response PROVE t.ops \subseteq Upload
  <2>1. /\ op \in Main /\ op \notin Tunnel /\ op \notin Opening /\ op \notin Upload
        /\ op \notin {"error_write", "response_header"}
    BY <1>6 DEF Main, Opening, Upload, Response, Tunnel
  <2> QED  BY <1>1, <1>2, <2>1 DEF Shape
<1>7. ASSUME op \in Upload
      PROVE  t.ops \subseteq {"error_write", "response_header"} \cup Response
  BY <1>1, <1>2, <1>7 DEF Shape
<1>8. ASSUME op \in {"client_tunnel_read", "backend_tunnel_write"}
      PROVE  /\ t.ops \subseteq {"backend_tunnel_read", "client_tunnel_write"}
             /\ ~({"backend_tunnel_read", "client_tunnel_write"} \subseteq t.ops)
  <2>1. op \in Tunnel
    BY <1>8 DEF Tunnel
  <2>2. t.ops \subseteq Tunnel
    BY <1>1, <2>1 DEF Shape
  <2>3. /\ ~("client_tunnel_read" \in S /\ "backend_tunnel_write" \in S)
        /\ ~("backend_tunnel_read" \in S /\ "client_tunnel_write" \in S)
    BY <1>1 DEF Shape
  <2> QED  BY <1>1, <1>8, <2>2, <2>3 DEF Tunnel
<1>9. ASSUME op \in {"backend_tunnel_read", "client_tunnel_write"}
      PROVE  /\ t.ops \subseteq {"client_tunnel_read", "backend_tunnel_write"}
             /\ ~({"client_tunnel_read", "backend_tunnel_write"} \subseteq t.ops)
  <2>1. op \in Tunnel
    BY <1>9 DEF Tunnel
  <2>2. t.ops \subseteq Tunnel
    BY <1>1, <2>1 DEF Shape
  <2>3. /\ ~("client_tunnel_read" \in S /\ "backend_tunnel_write" \in S)
        /\ ~("backend_tunnel_read" \in S /\ "client_tunnel_write" \in S)
    BY <1>1 DEF Shape
  <2> QED  BY <1>1, <1>9, <2>2, <2>3 DEF Tunnel
<1>10. ASSUME op = "error_write"
       PROVE  t.ops \subseteq {"response_header"} \cup Opening \cup Upload
  BY <1>1, <1>2, <1>10 DEF Shape
<1> QED  BY <1>3, <1>4, <1>5, <1>6, <1>7, <1>8, <1>9, <1>10

\* Where a handler goes on, the backend's connection is open and no error was sent.
LEMMA GoesOn ==
  ASSUME NEW t, NEW op, Due(t, op), op # "error_write", ~Quiescing(t),
         ~t.backend_close_requested \/ "error_write" \notin t.ops
  PROVE  /\ t \in Transaction /\ Sound(t) /\ Settled(t) /\ t.fault = "none"
         /\ t.backend_stream = "open" /\ t.backend_close_requested = FALSE
         /\ "error_write" \notin t.ops /\ "error" \notin t.sent
         /\ t.acquire = "answered" /\ t.completed = "no" /\ t.deferred_finish = "none"
         /\ t.permit /\ ~t.pooled
<1>1. Sound(t) /\ Settled(t) /\ t \in Transaction /\ Awaits(t, op) /\ t.fault = "none"
  BY DEF Due, Sound
<1>2. t.completed = "no" /\ t.deferred_finish = "none"
  BY DEF Quiescing
<1>3. ~t.backend_close_requested
  BY <1>1 DEF Settled
<1>4. t.backend_stream = "open"
  BY <1>1, <1>3 DEF Awaits
<1>5. "error_write" \notin t.ops
  BY <1>1, <1>4 DEF Sound, Awaits
<1>6. "error" \notin t.sent
  BY <1>1, <1>5 DEF Settled
<1>7. t.backend_close_requested = FALSE /\ t.permit
  BY <1>1, <1>3, <1>4 DEF Sound, Transaction
<1> QED  BY <1>1, <1>2, <1>4, <1>5, <1>6, <1>7 DEF Awaits

\* A handler that answers with an error.
LEMMA ErrorLeaves ==
  ASSUME NEW t, Sound(t), MayAnswer(t), t.fault = "none"
  PROVE  /\ Leaves(t, Fail(t))
         /\ ~t.connecting => \A retain \in BOOLEAN : Leaves(t, SendError(t, retain))
<1>1. "error_write" \notin Upload
  BY DEF Upload
<1>2. Leaves(t, Fail(t))
  BY <1>1, FailSettles DEF Leaves, MayAnswer
<1>3. ASSUME NEW retain \in BOOLEAN, ~t.connecting PROVE Leaves(t, SendError(t, retain))
  BY <1>1, <1>3, SendErrorSettles DEF Leaves, MayAnswer
<1> QED  BY <1>2, <1>3

\* A handler, called with t, that starts op in the state v.
LEMMA StartLeaves ==
  ASSUME NEW t, NEW v, NEW op \in BackendOps \cup ClientOps,
         ~Quiescing(t), Sound(v), Settled(v), v.fault = "none", t.sent \subseteq v.sent,
         (v.ops \ t.ops) \cap Upload = {}, op \in Upload => ~t.stop_request_upload,
         Awaits(v, op), v.deferred_finish = "none", Shape(v.ops \cup {op}),
         op \in BackendOps => v.backend_stream # "none"
  PROVE  /\ Leaves(t, StartClient(v, op))
         /\ op \in BackendOps => Leaves(t, StartBackend(v, op))
<1> DEFINE u == [v EXCEPT !.ops = @ \cup {op}]
<1>1. /\ Sound(u) /\ Settled(u) /\ SameRest(v, u) /\ u.ops = v.ops \cup {op}
  BY StartSettles
<1>2. StartClient(v, op) = u /\ (op \in BackendOps => StartBackend(v, op) = u)
  BY DEF StartClient, StartBackend
<1> HIDE DEF u
<1>3. Leaves(t, u)
  BY <1>1 DEF Leaves, SameRest, SameExchange
<1> QED  BY <1>2, <1>3

\* An operation beside the ones that may accompany it.
LEMMA ShapeOfStart ==
  ASSUME NEW S, Shape(S), NEW op,
         \/ S = {}
         \/ S \subseteq Upload /\ op \in {"response_header"} \cup Response
         \/ S \subseteq {"error_write", "response_header"} \cup Response /\ op \in Upload
         \/ /\ S \subseteq {"backend_tunnel_read", "client_tunnel_write"}
            /\ op \in {"client_tunnel_read", "backend_tunnel_write"}
         \/ /\ S \subseteq {"client_tunnel_read", "backend_tunnel_write"}
            /\ op \in {"backend_tunnel_read", "client_tunnel_write"}
  PROVE  Shape(S \cup {op})
<1>1. CASE S = {}
  BY <1>1 DEF Shape
<1>2. CASE S \subseteq Upload /\ op \in {"response_header"} \cup Response
  <2>1. /\ op \notin Upload /\ op \notin Tunnel /\ op # "error_write"
        /\ \A a \in S : a \notin Main /\ a \notin Tunnel /\ a # "error_write"
    BY <1>2 DEF Main, Opening, Upload, Response, Tunnel, Upgrade
  <2>2. "client_tunnel_read" \in Tunnel /\ "backend_tunnel_read" \in Tunnel
    BY DEF Tunnel
  <2> QED  BY <1>2, <2>1, <2>2 DEF Shape
<1>3. CASE S \subseteq {"error_write", "response_header"} \cup Response /\ op \in Upload
  <2>1. /\ op \notin Main /\ op \notin Tunnel /\ op # "error_write"
        /\ \A a \in S : a \notin Upload /\ a \notin Tunnel
    BY <1>3 DEF Main, Opening, Upload, Response, Tunnel, Upgrade
  <2>2. "client_tunnel_read" \in Tunnel /\ "backend_tunnel_read" \in Tunnel
    BY DEF Tunnel
  <2> QED  BY <1>3, <2>1, <2>2 DEF Shape
<1>4. CASE \/ /\ S \subseteq {"backend_tunnel_read", "client_tunnel_write"}
              /\ op \in {"client_tunnel_read", "backend_tunnel_write"}
           \/ /\ S \subseteq {"client_tunnel_read", "backend_tunnel_write"}
              /\ op \in {"backend_tunnel_read", "client_tunnel_write"}
  <2>1. /\ \A a \in S \cup {op} : a \in Tunnel /\ a \notin Main /\ a \notin Upload
        /\ "error_write" \notin S \cup {op}
    BY <1>4 DEF Main, Opening, Upload, Response, Tunnel, Upgrade
  <2>2. /\ ~("client_tunnel_read" \in S \cup {op} /\ "backend_tunnel_write" \in S \cup {op})
        /\ ~("backend_tunnel_read" \in S \cup {op} /\ "client_tunnel_write" \in S \cup {op})
    BY <1>4 DEF Shape
  <2> QED  BY <2>1, <2>2 DEF Shape
<1> QED  BY <1>1, <1>2, <1>3, <1>4

\* connect_backend, called with nothing in flight and nothing sent.
LEMMA ConnectBackendLeaves ==
  ASSUME NEW s, NEW t, NEW refused \in BOOLEAN, ~Quiescing(s), s.sent = {},
         Sound(t), t.ops = {}, t.permit, t.acquire = "answered", t.completed = "no",
         t.deferred_finish = "none", t.sent = {}, Unsent(t), ~t.resolving,
         ~t.client_cancel_requested, ~t.cancelled, t.fault = "none"
  PROVE  Leaves(s, ConnectBackend(t, refused))
<1> DEFINE u == [t EXCEPT !.backend_from_pool = FALSE, !.backend_close_requested = FALSE,
                          !.backend_stream = "open"]
           v == [u EXCEPT !.connecting = TRUE, !.resolving = TRUE]
<1>1. /\ u \in Transaction /\ u.ops = {} /\ u.permit = t.permit /\ u.acquire = "answered"
      /\ u.completed = "no" /\ u.deferred_finish = "none" /\ u.sent = {}
      /\ u.connecting = t.connecting /\ u.resolving = FALSE
      /\ u.client_cancel_requested = t.client_cancel_requested
      /\ u.cancelled = t.cancelled /\ u.fault = "none"
      /\ u.backend_from_pool = FALSE /\ u.backend_close_requested = FALSE
      /\ u.backend_stream = "open" /\ u.parser_done = t.parser_done
      /\ u.client_keep_alive = t.client_keep_alive
      /\ u.delivered = t.delivered /\ u.pooled = t.pooled
      /\ u.response_header_started = t.response_header_started
      /\ u.request_upload_complete = t.request_upload_complete
      /\ u.stop_request_upload = t.stop_request_upload
      /\ u.early_backend_response = t.early_backend_response
  BY ZenonT(60) DEF Sound, Transaction
<1>2. ConnectBackend(t, refused) = IF refused THEN Fail(u) ELSE v
  BY DEF ConnectBackend
<1> HIDE DEF u
<1>3. Unsent(u) /\ Shape(u.ops) /\ ~BackendPending(u)
  BY <1>1 DEF Unsent, Shape, BackendPending
<1>4. Sound(u)
  BY <1>1, <1>3 DEF Sound, Unsent
<1>5. Settled(u) /\ MayAnswer(u)
  BY <1>1, <1>3 DEF Settled, MayAnswer, Quiescing, Unsent
<1>6. Leaves(s, Fail(u))
  BY <1>1, <1>4, <1>5, FailSettles DEF Leaves, Upload
<1>7. /\ v \in Transaction /\ v.ops = {} /\ v.permit = t.permit /\ v.acquire = "answered"
      /\ v.completed = "no" /\ v.deferred_finish = "none" /\ v.sent = {}
      /\ v.connecting = TRUE /\ v.resolving = TRUE
      /\ v.client_cancel_requested = t.client_cancel_requested
      /\ v.cancelled = t.cancelled /\ v.fault = "none"
      /\ v.backend_from_pool = FALSE /\ v.backend_close_requested = FALSE
      /\ v.backend_stream = "open" /\ v.parser_done = t.parser_done
      /\ v.client_keep_alive = t.client_keep_alive
      /\ v.delivered = t.delivered /\ v.pooled = t.pooled
      /\ v.response_header_started = t.response_header_started
      /\ v.request_upload_complete = t.request_upload_complete
      /\ v.stop_request_upload = t.stop_request_upload
      /\ v.early_backend_response = t.early_backend_response
  BY <1>1 DEF Transaction
<1> HIDE DEF v
<1>8. Unsent(v) /\ Shape(v.ops) /\ ~BackendPending(v)
  BY <1>7 DEF Unsent, Shape, BackendPending
<1>9. Sound(v)
  BY <1>7, <1>8 DEF Sound, Unsent
<1>10. Settled(v)
  BY <1>7, <1>8 DEF Settled, Quiescing, Unsent
<1>11. Leaves(s, v)
  BY <1>7, <1>9, <1>10 DEF Leaves
<1> QED  BY <1>2, <1>6, <1>11

\* write_request_header, called with nothing in flight and nothing sent.
LEMMA WriteRequestHeaderLeaves ==
  ASSUME NEW s, NEW t, ~Quiescing(s), s.sent = {},
         Sound(t), Settled(t), t.ops = {}, t.backend_stream = "open", ~t.connecting,
         t.acquire = "answered", t.completed = "no", t.deferred_finish = "none",
         Unsent(t), t.fault = "none"
  PROVE  Leaves(s, WriteRequestHeader(t))
<1>1. Awaits(t, "request_header")
  BY DEF Awaits, Unsent, Opening, Response, Upload, Upgrade, Tunnel
<1>2. "request_header" \in BackendOps /\ "request_header" \notin Upload
  BY DEF BackendOps, BackendWrites, Upload
<1>3. Shape(t.ops \cup {"request_header"})
  BY ShapeOfStart DEF Sound
<1> QED  BY <1>1, <1>2, <1>3, StartLeaves DEF WriteRequestHeader

\* The handlers of the connect and of the TLS handshake.
LEMMA OpeningLeaves ==
  ASSUME NEW t, NEW op \in Opening, NEW o, Due(t, op)
  PROVE  Leaves(t, OnConnect(t, o)) /\ Leaves(t, OnTlsHandshake(t, o))
<1>0. op # "error_write"
  BY DEF Opening
<1>1. CASE Closing(t) \/ ~t.connecting
  BY <1>0, <1>1, ReturnsAtOnce DEF OnConnect, OnTlsHandshake
<1>2. CASE ~Closing(t) /\ t.connecting
  <2>1. /\ t \in Transaction /\ Sound(t) /\ Settled(t) /\ t.fault = "none"
        /\ t.backend_stream = "open" /\ t.backend_close_requested = FALSE
        /\ "error_write" \notin t.ops /\ t.acquire = "answered" /\ t.completed = "no"
        /\ t.deferred_finish = "none" /\ ~Quiescing(t)
    BY <1>0, <1>2, GoesOn DEF Closing
  <2>2. t.ops = {}
    BY <2>1, Company
  <2>3. Unsent(t) /\ t.sent = {} /\ Awaits(t, op)
    BY <1>2, <2>1 DEF Sound, Due
  <2>4. Leaves(t, Fail(t))
    <3>1. MayAnswer(t)
      BY <2>1, <2>2, <2>3 DEF MayAnswer, Settled, Unsent
    <3> QED  BY <2>1, <3>1, ErrorLeaves
  <2>5. Leaves(t, StartBackend(t, "tls_handshake"))
    <3>1. Awaits(t, "tls_handshake")
      BY <2>3 DEF Awaits, Opening, Response, Upload, Upgrade, Tunnel
    <3>2. Shape(t.ops \cup {"tls_handshake"})
      BY <2>1, <2>2, ShapeOfStart DEF Sound
    <3>3. "tls_handshake" \in BackendOps /\ "tls_handshake" \notin Upload
      BY DEF BackendOps, Upload
    <3> QED  BY <2>1, <2>2, <3>1, <3>2, <3>3, StartLeaves
  <2> DEFINE v == [t EXCEPT !.connecting = FALSE]
  <2>6. Leaves(t, WriteRequestHeader(v))
    <3>1. /\ Sound(v) /\ SameExchange(t, v) /\ v.ops = t.ops /\ v.connecting = FALSE
          /\ v.backend_stream = t.backend_stream /\ v.completed = t.completed
          /\ v.deferred_finish = t.deferred_finish /\ v.acquire = t.acquire /\ Settled(v)
      BY <2>1, StopConnecting
    <3> HIDE DEF v
    <3>2. Unsent(v) /\ v.fault = "none"
      BY <2>1, <2>3, <3>1 DEF SameExchange, SameProgress, Unsent
    <3> QED  BY <2>1, <2>2, <2>3, <3>1, <3>2, WriteRequestHeaderLeaves
  <2> QED  BY <1>2, <2>4, <2>5, <2>6 DEF OnConnect, OnTlsHandshake
<1> QED  BY <1>1, <1>2

\* The limiter's answer.
LEMMA PermitLeaves ==
  ASSUME NEW o, IInv, Alive, tx.acquire \in {"waiting", "cancelled"}
  PROVE  Leaves(tx, OnBackendPermit(tx, o))
<1> DEFINE u == [tx EXCEPT !.acquire = "answered"]
           h == [u EXCEPT !.permit = TRUE]
           p == [h EXCEPT !.backend_close_requested = FALSE, !.backend_stream = "open",
                          !.backend_from_pool = TRUE]
<1>1. tx \in Transaction /\ Sound(tx) /\ Settled(tx) /\ Unanswered(tx) /\ tx.fault = "none"
  BY DEF IInv, Sound, Alive
<1>2. /\ u \in Transaction /\ SameExchange(tx, u) /\ u.ops = tx.ops
      /\ u.acquire = "answered" /\ u.permit = tx.permit /\ u.connecting = tx.connecting
      /\ u.deferred_finish = tx.deferred_finish /\ u.completed = tx.completed
      /\ u.client_cancel_requested = tx.client_cancel_requested
      /\ u.cancelled = tx.cancelled /\ u.backend_stream = tx.backend_stream
      /\ u.backend_close_requested = tx.backend_close_requested
  BY <1>1 DEF Transaction, SameExchange, SameProgress
<1> HIDE DEF u
<1>3. Shape(u.ops) /\ u.ops = {} /\ ~BackendPending(u)
  BY <1>1, <1>2 DEF Shape, Unanswered, BackendPending
<1>4. Reusable(tx) => Reusable(u)
  BY <1>2 DEF Reusable, SameExchange, SameProgress
<1>5. Sound(u)
  BY <1>1, <1>2, <1>3, <1>4 DEF Sound, Unanswered, SameExchange, SameProgress
<1>6. Settled(u)
  BY <1>1, <1>2 DEF Settled, Quiescing, SameExchange, SameProgress
<1>7. CASE tx.completed # "no"
  <2>1. Leaves(tx, u)
    BY <1>1, <1>2, <1>5, <1>6 DEF Leaves, SameExchange
  <2> QED  BY <1>7, <2>1 DEF OnBackendPermit, u
<1>8. CASE tx.completed = "no"
  <2>1. /\ ~Quiescing(tx) /\ tx.deferred_finish = "none"
        /\ ~tx.client_cancel_requested /\ ~tx.cancelled
    BY <1>1, <1>8 DEF Settled, Quiescing
  <2>2. /\ u.sent = {} /\ Unsent(u) /\ ~u.connecting /\ ~u.resolving /\ u.fault = "none"
        /\ u.backend_stream = "none" /\ u.completed = "no" /\ u.deferred_finish = "none"
        /\ ~u.client_cancel_requested /\ ~u.cancelled /\ ~u.backend_close_requested
    BY <1>1, <1>2, <1>8, <2>1 DEF Unanswered, Unsent, SameExchange, SameProgress
  <2>3. Leaves(tx, SendError(u, TRUE))
    <3>1. MayAnswer(u)
      BY <1>2, <1>3, <2>2 DEF MayAnswer, Quiescing, Unsent
    <3> QED  BY ZenonT(60), <1>1, <1>2, <1>3, <1>5, <1>6, <2>1, <2>2, <3>1, SendErrorSettles
             DEF Leaves, Upload, SameExchange
  <2>4. /\ h \in Transaction /\ SameExchange(u, h) /\ h.ops = {} /\ h.permit = TRUE
        /\ h.acquire = "answered" /\ h.connecting = u.connecting
        /\ h.deferred_finish = u.deferred_finish /\ h.completed = u.completed
        /\ h.client_cancel_requested = u.client_cancel_requested
        /\ h.cancelled = u.cancelled /\ h.backend_stream = u.backend_stream
        /\ h.backend_close_requested = u.backend_close_requested
    BY <1>2, <1>3 DEF Transaction, SameExchange, SameProgress
  <2> HIDE DEF h
  <2>5. Shape(h.ops) /\ ~BackendPending(h)
    BY <2>4 DEF Shape, BackendPending
  <2>6. Sound(h)
    BY <1>5, <2>2, <2>4, <2>5 DEF Sound, SameExchange, SameProgress
  <2>7. Settled(h)
    BY <1>6, <1>3, <2>2, <2>4 DEF Settled, Quiescing, SameExchange, SameProgress
  <2>8. /\ h.sent = {} /\ Unsent(h) /\ ~h.connecting /\ ~h.resolving /\ h.fault = "none"
        /\ h.completed = "no" /\ h.deferred_finish = "none"
        /\ ~h.client_cancel_requested /\ ~h.cancelled
    BY <2>2, <2>4 DEF Unsent, SameExchange, SameProgress
  <2>9. tx.sent = {}
    BY <1>1 DEF Unanswered
  <2>10. Leaves(tx, SendError(h, TRUE))
    <3>1. MayAnswer(h)
      BY <2>4, <2>8 DEF MayAnswer, Quiescing, Unsent
    <3> QED  BY <2>1, <2>4, <2>6, <2>7, <2>8, <2>9, <3>1, SendErrorSettles DEF Leaves, Upload
  <2>11. Leaves(tx, ConnectBackend(h, o = "bad_sni"))
    BY <2>1, <2>4, <2>6, <2>8, <2>9, ConnectBackendLeaves
  <2>12. Leaves(tx, WriteRequestHeader(p))
    <3>1. /\ p \in Transaction /\ p.ops = {} /\ p.permit = TRUE /\ p.acquire = "answered"
          /\ p.completed = "no" /\ p.deferred_finish = "none" /\ p.sent = {}
          /\ p.connecting = h.connecting /\ p.resolving = h.resolving
          /\ p.client_cancel_requested = h.client_cancel_requested
          /\ p.cancelled = h.cancelled /\ p.fault = "none"
          /\ p.backend_close_requested = FALSE
          /\ p.backend_stream = "open" /\ p.parser_done = h.parser_done
          /\ p.client_keep_alive = h.client_keep_alive
          /\ p.delivered = h.delivered /\ p.pooled = h.pooled
          /\ p.response_header_started = h.response_header_started
          /\ p.request_upload_complete = h.request_upload_complete
          /\ p.stop_request_upload = h.stop_request_upload
          /\ p.early_backend_response = h.early_backend_response
      BY <2>4, <2>8 DEF Transaction
    <3> HIDE DEF p
    <3>2. Unsent(p) /\ Shape(p.ops) /\ ~BackendPending(p)
      BY <2>8, <3>1 DEF Unsent, Shape, BackendPending
    <3>3. Sound(p)
      BY <2>6, <2>8, <3>1, <3>2 DEF Sound, Unsent
    <3>4. Settled(p)
      BY <2>8, <3>1 DEF Settled, Quiescing, Unsent
    <3> QED  BY <2>1, <2>8, <2>9, <3>1, <3>2, <3>3, <3>4, WriteRequestHeaderLeaves
  <2> QED  BY <1>8, <2>3, <2>10, <2>11, <2>12 DEF OnBackendPermit, u, h, p
<1> QED  BY <1>7, <1>8

\* The answer of the resolver.
LEMMA ResolvedLeaves ==
  ASSUME NEW o, IInv, Alive, tx.resolving
  PROVE  Leaves(tx, OnResolved(tx, o))
<1> DEFINE u == [tx EXCEPT !.resolving = FALSE]
<1>1. tx \in Transaction /\ Sound(tx) /\ Settled(tx) /\ tx.fault = "none"
  BY DEF IInv, Sound, Alive
<1>2. /\ u \in Transaction /\ u.ops = tx.ops /\ u.resolving = FALSE
      /\ u.backend_stream = tx.backend_stream
      /\ u.backend_close_requested = tx.backend_close_requested
      /\ u.acquire = tx.acquire /\ u.permit = tx.permit /\ u.connecting = tx.connecting
      /\ u.deferred_finish = tx.deferred_finish /\ u.completed = tx.completed
      /\ u.client_cancel_requested = tx.client_cancel_requested
      /\ u.cancelled = tx.cancelled
      /\ u.error_keep_alive = tx.error_keep_alive /\ u.fault = tx.fault /\ u.sent = tx.sent
      /\ u.backend_from_pool = tx.backend_from_pool /\ u.parser_done = tx.parser_done
      /\ u.request_upload_complete = tx.request_upload_complete
      /\ u.response_header_started = tx.response_header_started
      /\ u.early_backend_response = tx.early_backend_response
      /\ u.stop_request_upload = tx.stop_request_upload
      /\ u.response_transfer_buffer = tx.response_transfer_buffer
      /\ u.response_done = tx.response_done
      /\ u.client_keep_alive = tx.client_keep_alive
      /\ u.delivered = tx.delivered /\ u.pooled = tx.pooled
  BY ZenonT(60), <1>1 DEF Transaction
<1> HIDE DEF u
<1>3. \A op : Awaits(tx, op) => Awaits(u, op)
  BY <1>2 DEF Awaits, Unsent
<1>4. Reusable(tx) => Reusable(u)
  BY <1>2 DEF Reusable
<1>5. (BackendPending(u) <=> BackendPending(tx)) /\ (Unsent(tx) => Unsent(u))
  BY <1>2 DEF BackendPending, Unsent
<1>6. tx.acquire = "answered"
  BY <1>1 DEF Sound, Unanswered
<1>7. Sound(u)
  BY <1>1, <1>2, <1>3, <1>4, <1>5, <1>6 DEF Sound
<1>8. Settled(u)
  BY <1>1, <1>2 DEF Settled, Quiescing
<1>9. CASE ~tx.connecting \/ tx.completed # "no"
  <2>1. Leaves(tx, u)
    BY <1>1, <1>2, <1>7, <1>8 DEF Leaves
  <2> QED  BY <1>9, <2>1 DEF OnResolved, u
<1>10. CASE tx.connecting /\ tx.completed = "no"
  <2>1. /\ tx.backend_stream = "open" /\ tx.deferred_finish = "none" /\ Unsent(u)
        /\ tx.sent = {} /\ ~Quiescing(tx)
    BY <1>1, <1>5, <1>10 DEF Sound, Quiescing
  <2>2. u.ops = {}
    BY <1>1, <1>2, <1>10 DEF Sound, Awaits
  <2>3. Leaves(tx, Fail(u))
    <3>1. MayAnswer(u)
      BY <1>2, <1>6, <1>8, <1>10, <2>1, <2>2 DEF MayAnswer, Quiescing, Settled, Unsent
    <3> QED  BY <1>1, <1>2, <1>7, <1>8, <2>1, <2>2, <3>1, FailSettles DEF Leaves, Upload
  <2>4. Leaves(tx, StartBackend(u, "connect"))
    <3>1. Awaits(u, "connect")
      BY <1>2, <1>6, <1>10, <2>1
         DEF Awaits, Unsent, Opening, Response, Upload, Upgrade, Tunnel
    <3>2. Shape(u.ops \cup {"connect"})
      BY <1>7, <2>2, ShapeOfStart DEF Sound
    <3>3. "connect" \in BackendOps /\ "connect" \notin Upload
      BY DEF BackendOps, Upload
    <3> QED  BY <1>1, <1>2, <1>7, <1>8, <2>1, <2>2, <3>1, <3>2, <3>3, StartLeaves
  <2> QED  BY <1>10, <2>3, <2>4 DEF OnResolved, u
<1> QED  BY <1>9, <1>10

\* The connect timer.
LEMMA TimeoutLeaves ==
  ASSUME IInv, Alive, tx.connecting, tx.completed = "no"
  PROVE  Leaves(tx, OnConnectTimeout(tx))
<1> DEFINE v == [tx EXCEPT !.connecting = FALSE]
           c == CloseBackend(v)
<1>1. /\ tx \in Transaction /\ Sound(tx) /\ Settled(tx) /\ tx.fault = "none"
      /\ tx.deferred_finish = "none" /\ Unsent(tx) /\ tx.acquire = "answered"
      /\ \A op \in tx.ops : op \in Opening
  BY DEF IInv, Sound, Alive, Awaits
<1>2. /\ Sound(v) /\ SameExchange(tx, v) /\ v.ops = tx.ops /\ v.connecting = FALSE
      /\ v.completed = tx.completed /\ v.deferred_finish = tx.deferred_finish
      /\ v.acquire = tx.acquire /\ v.cancelled = tx.cancelled
      /\ v.client_cancel_requested = tx.client_cancel_requested
  BY <1>1, StopConnecting
<1> HIDE DEF v
<1>3. Sound(c) /\ SameRest(v, c) /\ c.ops = v.ops
  BY <1>2, CloseBackendSound
<1> HIDE DEF c
<1>4. ~Quiescing(tx) /\ ~tx.client_cancel_requested /\ ~tx.cancelled
  BY <1>1 DEF Quiescing, Settled
<1>5. MayAnswer(c) /\ c.sent = tx.sent /\ c.fault = "none"
  BY <1>1, <1>2, <1>3, <1>4
     DEF MayAnswer, Quiescing, Unsent, SameRest, SameExchange, SameProgress
<1>6. Leaves(tx, Fail(c))
  BY <1>1, <1>2, <1>3, <1>4, <1>5, FailSettles DEF Leaves, Upload
<1> QED  BY <1>6 DEF OnConnectTimeout, v, c

\* read_response_header, called by a handler with the backend's connection open.
LEMMA ReadResponseHeaderSettles ==
  ASSUME NEW t, Sound(t), Settled(t), ~t.response_header_started, ~t.connecting,
         t.acquire = "answered", t.completed = "no", t.deferred_finish = "none", ~t.pooled,
         t.backend_stream = "open", t.delivered = 1, ~req.websocket,
         "response" \notin t.sent, t.ops \subseteq Upload
  PROVE  LET u == ReadResponseHeader(t)
         IN  /\ Sound(u) /\ Settled(u) /\ u.ops = t.ops \cup {"response_header"}
             /\ u.sent = t.sent /\ u.fault = t.fault /\ u.delivered = t.delivered
             /\ u.completed = t.completed /\ u.deferred_finish = t.deferred_finish
             /\ u.acquire = t.acquire /\ u.backend_stream = t.backend_stream
             /\ u.stop_request_upload = t.stop_request_upload /\ u.pooled = t.pooled
             /\ u.request_upload_complete = t.request_upload_complete
             /\ u.parser_done = t.parser_done /\ u.connecting = t.connecting
<1> DEFINE v == [t EXCEPT !.response_header_started = TRUE]
           u == [v EXCEPT !.ops = @ \cup {"response_header"}]
<1>1. /\ v \in Transaction /\ v.ops = t.ops /\ v.resolving = t.resolving
      /\ v.backend_stream = t.backend_stream
      /\ v.backend_close_requested = t.backend_close_requested
      /\ v.acquire = t.acquire /\ v.permit = t.permit /\ v.connecting = t.connecting
      /\ v.deferred_finish = t.deferred_finish /\ v.completed = t.completed
      /\ v.client_cancel_requested = t.client_cancel_requested
      /\ v.cancelled = t.cancelled
      /\ v.error_keep_alive = t.error_keep_alive /\ v.fault = t.fault /\ v.sent = t.sent
      /\ v.backend_from_pool = t.backend_from_pool /\ v.parser_done = t.parser_done
      /\ v.request_upload_complete = t.request_upload_complete
      /\ v.early_backend_response = t.early_backend_response
      /\ v.stop_request_upload = t.stop_request_upload
      /\ v.response_transfer_buffer = t.response_transfer_buffer
      /\ v.response_done = t.response_done
      /\ v.client_keep_alive = t.client_keep_alive
      /\ v.delivered = t.delivered /\ v.pooled = t.pooled
  BY DEF Sound, Transaction
<1>2. ReadResponseHeader(t) = u
  BY <1>1 DEF ReadResponseHeader, StartBackend
<1> HIDE DEF v
<1>3. \A op \in Upload : Awaits(t, op) => Awaits(v, op)
  BY <1>1 DEF Awaits, Upload, Opening, Response, Upgrade, Tunnel
<1>4. BackendPending(v) <=> BackendPending(t)
  BY <1>1 DEF BackendPending
<1>5. Sound(v)
  BY <1>1, <1>3, <1>4 DEF Sound
<1>6. Settled(v)
  BY <1>1 DEF Settled, Quiescing
<1>7. Awaits(v, "response_header")
  BY <1>1 DEF Awaits, Opening, Response, Upload, Upgrade, Tunnel
<1>8. Shape(v.ops \cup {"response_header"})
  BY <1>1, <1>5, ShapeOfStart DEF Sound
<1>9. "response_header" \in BackendOps
  BY DEF BackendOps, BackendReads
<1>10. /\ Sound(u) /\ Settled(u) /\ SameRest(v, u) /\ u.ops = v.ops \cup {"response_header"}
       /\ u.backend_stream = v.backend_stream
  BY <1>1, <1>5, <1>6, <1>7, <1>8, <1>9, StartSettles
<1> HIDE DEF u
<1> QED  BY <1>1, <1>2, <1>10 DEF SameRest, SameExchange, SameProgress

\* read_request_body_chunk, called by a handler when the upload goes on.
LEMMA ReadBodyLeaves ==
  ASSUME NEW s, NEW t, ~Quiescing(s), s.sent \subseteq t.sent,
         (t.ops \ s.ops) \cap Upload = {}, s.stop_request_upload => t.stop_request_upload,
         Sound(t), Settled(t), ~t.connecting, t.fault = "none",
         t.acquire = "answered", t.completed = "no", t.deferred_finish = "none", ~t.pooled,
         t.backend_close_requested \/ t.backend_stream = "open", t.delivered = 1,
         ~req.websocket, ~t.request_upload_complete, ~t.parser_done,
         t.stop_request_upload \/ "response" \notin t.sent,
         t.ops \subseteq {"error_write", "response_header"} \cup Response
  PROVE  Leaves(s, ReadRequestBodyChunk(t))
<1>1. CASE t.stop_request_upload
  BY <1>1 DEF ReadRequestBodyChunk, Leaves
<1>2. CASE ~t.stop_request_upload
  <2>1. ReadRequestBodyChunk(t) = StartClient(t, "request_body_read")
    BY <1>2 DEF ReadRequestBodyChunk
  <2>2. req.body # "none"
    BY DEF Sound
  <2>3. Awaits(t, "request_body_read")
    BY <1>2, <2>2 DEF Awaits, Opening, Response, Upload, Upgrade, Tunnel
  <2>4. Shape(t.ops \cup {"request_body_read"})
    BY ShapeOfStart DEF Sound, Upload
  <2>5. /\ "request_body_read" \in ClientOps /\ "request_body_read" \notin BackendOps
        /\ "request_body_read" \in Upload
    BY DEF ClientOps, ClientReads, BackendOps, BackendReads, BackendWrites, Upload
  <2> QED  BY <1>2, <2>1, <2>3, <2>4, <2>5, StartLeaves
<1> QED  BY <1>1, <1>2

\* A state with nothing in flight on an open connection.
LEMMA QuietSound ==
  ASSUME NEW t, NEW u \in Transaction, Sound(t), Settled(t), ~Quiescing(t), u.ops = {},
         t.acquire = "answered", t.backend_stream = "open", ~t.connecting, ~t.pooled,
         u.acquire = t.acquire, u.permit = t.permit, u.backend_stream = t.backend_stream,
         u.backend_close_requested = t.backend_close_requested,
         u.connecting = t.connecting, u.deferred_finish = t.deferred_finish,
         u.client_cancel_requested = t.client_cancel_requested,
         u.cancelled = t.cancelled, u.completed = t.completed, u.fault = t.fault,
         u.pooled = t.pooled, u.sent = t.sent, "error" \notin t.sent, t.fault = "none",
         u.parser_done = t.parser_done, u.resolving = t.resolving,
         u.client_keep_alive = t.client_keep_alive,
         u.early_backend_response = t.early_backend_response,
         u.backend_from_pool => t.backend_from_pool,
         u.request_upload_complete => t.parser_done, u.delivered <= 1
  PROVE  Sound(u) /\ Settled(u)
<1>1. Shape(u.ops) /\ ~BackendPending(u)
  BY DEF Shape, BackendPending
<1>2. t.deferred_finish = "none" /\ t.completed = "no"
  BY DEF Quiescing
<1>3. Sound(u)
  BY <1>1, <1>2 DEF Sound
<1>4. Settled(u)
  BY <1>2 DEF Settled, Quiescing, Sound
<1> QED  BY <1>3, <1>4

\* on_request_header_written: the connection was lost before the first byte and is
\* replaced, or the request has reached this one backend connection.
LEMMA RequestHeaderLeaves ==
  ASSUME NEW t, NEW o, Due(t, "request_header")
  PROVE  Leaves(t, OnRequestHeaderWritten(t, o))
<1> DEFINE zero == o \in {"zero", "zero_bad_sni"}
           n == IF zero THEN t.delivered ELSE t.delivered + 1
           v == [t EXCEPT !.delivered = IF zero THEN @ ELSE @ + 1]
           f == [v EXCEPT !.backend_from_pool = FALSE]
           g == [f EXCEPT !.request_upload_complete = TRUE]
           p == [t EXCEPT !.retried_pooled_connection = TRUE]
           c == CloseBackend(p)
<1>1. /\ Sound(t) /\ Settled(t) /\ t \in Transaction /\ Unsent(t) /\ t.fault = "none"
      /\ ~t.connecting /\ Awaits(t, "request_header")
  BY DEF Due, Sound, Awaits, Opening
<1>2. t.ops = {}
  BY Company
<1>3. n \in Nat /\ n <= 1 /\ (~zero => n = 1) /\ t.delivered = 0
  BY <1>1 DEF Unsent
<1>4. /\ v \in Transaction /\ v.ops = {} /\ v.delivered = n
      /\ v.acquire = t.acquire /\ v.permit = t.permit /\ v.backend_stream = t.backend_stream
      /\ v.backend_close_requested = t.backend_close_requested
      /\ v.connecting = t.connecting /\ v.deferred_finish = t.deferred_finish
      /\ v.client_cancel_requested = t.client_cancel_requested
      /\ v.cancelled = t.cancelled /\ v.completed = t.completed /\ v.fault = t.fault
      /\ v.pooled = t.pooled /\ v.sent = t.sent
      /\ v.parser_done = t.parser_done /\ v.resolving = t.resolving
      /\ v.client_keep_alive = t.client_keep_alive
      /\ v.early_backend_response = t.early_backend_response
      /\ v.backend_from_pool = t.backend_from_pool
      /\ v.request_upload_complete = t.request_upload_complete
      /\ v.response_header_started = t.response_header_started
      /\ v.stop_request_upload = t.stop_request_upload
  BY <1>1, <1>2, <1>3 DEF Transaction
<1>5. OnRequestHeaderWritten(t, o) =
        IF Closing(t) THEN FinishDeferred(v)
        ELSE IF zero /\ t.backend_from_pool /\ ~t.retried_pooled_connection
        THEN ConnectBackend(c, o = "zero_bad_sni")
        ELSE IF o # "ok" THEN Fail(v)
        ELSE IF req.websocket THEN StartBackend(f, "upgrade_response")
        ELSE IF t.parser_done THEN ReadResponseHeader(g)
        ELSE IF req.expect THEN StartClient(f, "continue_write")
        ELSE ReadRequestBodyChunk(ReadResponseHeader(f))
  BY DEF OnRequestHeaderWritten
<1> HIDE DEF v, n
<1>6. CASE Closing(t)
  <2>1. Shape(v.ops) /\ ~BackendPending(v) /\ (Reusable(t) => Reusable(v))
    BY <1>4 DEF Shape, BackendPending, Reusable
  <2>2. Sound(v) /\ Settled(v) /\ ~v.pooled
    <3>1. Sound(v)
      BY <1>1, <1>2, <1>3, <1>4, <2>1 DEF Sound, Awaits
    <3> QED  BY <1>1, <1>2, <1>4, <3>1 DEF Settled, Quiescing, Awaits
  <2>3. LET u == FinishDeferred(v)
        IN  Sound(u) /\ Settled(u) /\ SameExchange(v, u) /\ u.ops = v.ops
    BY <2>2, FinishDeferredSettles
  <2>4. Leaves(t, FinishDeferred(v))
    BY <1>1, <1>2, <1>4, <2>3 DEF Leaves, SameExchange
  <2> QED  BY <1>5, <1>6, <2>4
<1>7. CASE ~Closing(t)
  <2>1. /\ t.backend_stream = "open" /\ t.backend_close_requested = FALSE
        /\ "error" \notin t.sent /\ t.acquire = "answered" /\ t.completed = "no"
        /\ t.deferred_finish = "none" /\ t.permit /\ ~Quiescing(t) /\ ~t.pooled
        /\ ~t.client_cancel_requested /\ ~t.cancelled
    BY <1>7, GoesOn DEF Closing, Due
  <2>2. t.sent = {}
    BY <1>1, <2>1 DEF Unsent, Transaction
  <2>3. Sound(v) /\ Settled(v)
    BY <1>1, <1>2, <1>3, <1>4, <2>1, QuietSound DEF Unsent
  <2>4. ASSUME zero, t.backend_from_pool
        PROVE  Leaves(t, ConnectBackend(c, o = "zero_bad_sni"))
    <3>1. /\ p \in Transaction /\ p.ops = {} /\ p.delivered = t.delivered
          /\ p.acquire = t.acquire /\ p.permit = t.permit
          /\ p.backend_stream = t.backend_stream
          /\ p.backend_close_requested = t.backend_close_requested
          /\ p.connecting = t.connecting /\ p.deferred_finish = t.deferred_finish
          /\ p.client_cancel_requested = t.client_cancel_requested
          /\ p.cancelled = t.cancelled /\ p.completed = t.completed /\ p.fault = t.fault
          /\ p.pooled = t.pooled /\ p.sent = t.sent
          /\ p.parser_done = t.parser_done /\ p.resolving = t.resolving
          /\ p.client_keep_alive = t.client_keep_alive
          /\ p.early_backend_response = t.early_backend_response
          /\ p.backend_from_pool = t.backend_from_pool
          /\ p.request_upload_complete = t.request_upload_complete
          /\ p.response_header_started = t.response_header_started
          /\ p.stop_request_upload = t.stop_request_upload
      BY <1>1, <1>2 DEF Transaction
    <3> HIDE DEF p
    <3>2. Sound(p) /\ Unsent(p)
      <4>1. Unsent(p)
        BY <1>1, <3>1 DEF Unsent
      <4>2. /\ p.delivered <= 1 /\ (p.backend_from_pool => t.backend_from_pool)
            /\ (p.request_upload_complete => t.parser_done)
        BY <1>1, <1>3, <3>1 DEF Unsent
      <4> QED  BY <1>1, <2>1, <3>1, <4>1, <4>2, QuietSound
    <3>3. Sound(c) /\ SameRest(p, c) /\ c.ops = p.ops
      BY <1>1, <3>1, <3>2, CloseBackendSound
    <3> HIDE DEF c
    <3>4. ~t.resolving
      BY <1>1, <2>4 DEF Sound
    <3>5. /\ c.ops = {} /\ c.permit /\ c.acquire = "answered" /\ c.completed = "no"
          /\ c.deferred_finish = "none" /\ c.sent = {} /\ Unsent(c) /\ ~c.resolving
          /\ ~c.client_cancel_requested /\ ~c.cancelled /\ c.fault = "none"
      BY <1>1, <2>1, <2>2, <3>1, <3>2, <3>3, <3>4
         DEF SameRest, SameExchange, SameProgress, Unsent
    <3> QED  BY <2>1, <2>2, <3>3, <3>5, ConnectBackendLeaves
  <2>5. Leaves(t, Fail(v))
    <3>1. MayAnswer(v)
      BY <1>1, <1>4, <2>1, <2>2 DEF MayAnswer, Quiescing
    <3> QED  BY <1>1, <1>2, <1>4, <2>1, <2>2, <2>3, <3>1, FailSettles DEF Leaves, Upload
  <2>6. ASSUME o = "ok"
        PROVE  /\ req.websocket => Leaves(t, StartBackend(f, "upgrade_response"))
               /\ ~req.websocket /\ t.parser_done => Leaves(t, ReadResponseHeader(g))
               /\ ~req.websocket /\ ~t.parser_done => Leaves(t, StartClient(f, "continue_write"))
               /\ ~req.websocket /\ ~t.parser_done =>
                    Leaves(t, ReadRequestBodyChunk(ReadResponseHeader(f)))
    <3>0. n = 1
      BY <1>3, <2>6
    <3>1. /\ f \in Transaction /\ f.ops = {} /\ f.delivered = 1
          /\ f.acquire = t.acquire /\ f.permit = t.permit
          /\ f.backend_stream = t.backend_stream
          /\ f.backend_close_requested = t.backend_close_requested
          /\ f.connecting = t.connecting /\ f.deferred_finish = t.deferred_finish
          /\ f.client_cancel_requested = t.client_cancel_requested
          /\ f.cancelled = t.cancelled /\ f.completed = t.completed /\ f.fault = t.fault
          /\ f.pooled = t.pooled /\ f.sent = t.sent
          /\ f.parser_done = t.parser_done /\ f.resolving = t.resolving
          /\ f.client_keep_alive = t.client_keep_alive
          /\ f.early_backend_response = t.early_backend_response
          /\ f.backend_from_pool = FALSE
          /\ f.request_upload_complete = t.request_upload_complete
          /\ f.response_header_started = t.response_header_started
          /\ f.stop_request_upload = t.stop_request_upload
      BY <1>4, <3>0 DEF Transaction
    <3> HIDE DEF f
    <3>2. Sound(f) /\ Settled(f)
      <4>1. /\ f.delivered <= 1 /\ (f.backend_from_pool => t.backend_from_pool)
            /\ (f.request_upload_complete => t.parser_done)
        BY <1>1, <3>1 DEF Unsent
      <4> QED  BY <1>1, <2>1, <3>1, <4>1, QuietSound
    <3>3. ASSUME req.websocket PROVE Leaves(t, StartBackend(f, "upgrade_response"))
      <4>1. Awaits(f, "upgrade_response")
        BY <1>1, <2>1, <3>1, <3>3
           DEF Awaits, Unsent, Opening, Response, Upload, Upgrade, Tunnel
      <4>2. Shape(f.ops \cup {"upgrade_response"})
        BY <3>1, <3>2, ShapeOfStart DEF Sound
      <4>3. "upgrade_response" \in BackendOps /\ "upgrade_response" \notin Upload
        BY DEF BackendOps, BackendReads, Upload
      <4> QED  BY <1>1, <2>1, <3>1, <3>2, <4>1, <4>2, <4>3, StartLeaves
    <3>4. ASSUME ~req.websocket, t.parser_done PROVE Leaves(t, ReadResponseHeader(g))
      <4>1. /\ g \in Transaction /\ g.ops = {} /\ g.delivered = 1
            /\ g.acquire = t.acquire /\ g.permit = t.permit
            /\ g.backend_stream = t.backend_stream
            /\ g.backend_close_requested = t.backend_close_requested
            /\ g.connecting = t.connecting /\ g.deferred_finish = t.deferred_finish
            /\ g.client_cancel_requested = t.client_cancel_requested
            /\ g.cancelled = t.cancelled /\ g.completed = t.completed /\ g.fault = t.fault
            /\ g.pooled = t.pooled /\ g.sent = t.sent
            /\ g.parser_done = t.parser_done /\ g.resolving = t.resolving
            /\ g.client_keep_alive = t.client_keep_alive
            /\ g.early_backend_response = t.early_backend_response
            /\ g.backend_from_pool = FALSE
            /\ g.response_header_started = t.response_header_started
        BY <3>1 DEF Transaction
      <4> HIDE DEF g
      <4>2. Sound(g) /\ Settled(g)
        <5>1. /\ g.delivered <= 1 /\ (g.backend_from_pool => t.backend_from_pool)
              /\ (g.request_upload_complete => t.parser_done)
          BY <3>4, <4>1
        <5> QED  BY <1>1, <2>1, <4>1, <5>1, QuietSound
      <4>3. LET u == ReadResponseHeader(g)
            IN  /\ Sound(u) /\ Settled(u) /\ u.ops = g.ops \cup {"response_header"}
                /\ u.sent = g.sent /\ u.fault = g.fault
        BY <1>1, <2>1, <2>2, <3>4, <4>1, <4>2, ReadResponseHeaderSettles DEF Unsent
      <4> QED  BY <1>1, <1>2, <2>1, <4>1, <4>3 DEF Leaves, Upload
    <3>5. ASSUME ~req.websocket, ~t.parser_done
          PROVE  Leaves(t, StartClient(f, "continue_write"))
      <4>1. Awaits(f, "continue_write")
        BY <1>1, <2>1, <3>1, <3>5
           DEF Awaits, Unsent, Opening, Response, Upload, Upgrade, Tunnel
      <4>2. Shape(f.ops \cup {"continue_write"})
        BY <3>1, <3>2, ShapeOfStart DEF Sound
      <4>3. /\ "continue_write" \in ClientOps /\ "continue_write" \notin BackendOps
            /\ "continue_write" \notin Upload
        BY DEF ClientOps, ClientWrites, BackendOps, BackendReads, BackendWrites, Upload
      <4> QED  BY <1>1, <2>1, <3>1, <3>2, <4>1, <4>2, <4>3, StartLeaves
    <3>6. ASSUME ~req.websocket, ~t.parser_done
          PROVE  Leaves(t, ReadRequestBodyChunk(ReadResponseHeader(f)))
      <4> DEFINE u == ReadResponseHeader(f)
      <4>1. /\ Sound(u) /\ Settled(u) /\ u.ops = f.ops \cup {"response_header"}
            /\ u.sent = f.sent /\ u.fault = f.fault /\ u.delivered = f.delivered
            /\ u.completed = f.completed /\ u.deferred_finish = f.deferred_finish
            /\ u.acquire = f.acquire /\ u.backend_stream = f.backend_stream
            /\ u.stop_request_upload = f.stop_request_upload /\ u.pooled = f.pooled
            /\ u.request_upload_complete = f.request_upload_complete
            /\ u.parser_done = f.parser_done /\ u.connecting = f.connecting
        BY <1>1, <2>1, <2>2, <3>1, <3>2, <3>6, ReadResponseHeaderSettles DEF Unsent
      <4> HIDE DEF u
      <4>2. (u.ops \ t.ops) \cap Upload = {}
        BY <3>1, <4>1 DEF Upload
      <4> QED  BY <1>1, <2>1, <2>2, <3>1, <3>6, <4>1, <4>2, ReadBodyLeaves DEF Unsent, u
    <3> QED  BY <3>3, <3>4, <3>5, <3>6
  <2> QED  BY <1>5, <1>7, <2>4, <2>5, <2>6
<1> QED  BY <1>6, <1>7

\* on_continue_written: the upload and the wait for the response begin.
LEMMA ContinueLeaves ==
  ASSUME NEW t, NEW o, Due(t, "continue_write")
  PROVE  Leaves(t, OnContinueWritten(t, o))
<1>1. CASE Quiescing(t)
  BY <1>1, ReturnsAtOnce DEF OnContinueWritten
<1>2. CASE ~Quiescing(t)
  <2>1. t.ops = {}
    BY Company
  <2>2. /\ t \in Transaction /\ Sound(t) /\ Settled(t) /\ t.fault = "none"
        /\ t.backend_stream = "open" /\ t.backend_close_requested = FALSE
        /\ t.acquire = "answered" /\ t.completed = "no" /\ t.deferred_finish = "none"
        /\ ~t.pooled /\ ~t.client_cancel_requested /\ ~t.cancelled
    BY <1>2, <2>1, GoesOn DEF Due
  <2>3. /\ ~t.connecting /\ t.delivered = 1 /\ ~req.websocket
        /\ ~t.response_header_started /\ ~t.stop_request_upload /\ ~t.parser_done
        /\ ~t.request_upload_complete /\ "response" \notin t.sent
    BY DEF Due, Awaits, Opening
  <2>4. Leaves(t, Fail(t))
    <3>1. MayAnswer(t)
      BY <1>2, <2>1, <2>2, <2>3 DEF MayAnswer
    <3> QED  BY <2>2, <3>1, ErrorLeaves
  <2> DEFINE u == ReadResponseHeader(t)
  <2>5. Leaves(t, ReadRequestBodyChunk(u))
    <3>1. /\ Sound(u) /\ Settled(u) /\ u.ops = t.ops \cup {"response_header"}
          /\ u.sent = t.sent /\ u.fault = t.fault /\ u.delivered = t.delivered
          /\ u.completed = t.completed /\ u.deferred_finish = t.deferred_finish
          /\ u.acquire = t.acquire /\ u.backend_stream = t.backend_stream
          /\ u.stop_request_upload = t.stop_request_upload /\ u.pooled = t.pooled
          /\ u.request_upload_complete = t.request_upload_complete
          /\ u.parser_done = t.parser_done /\ u.connecting = t.connecting
      BY <2>1, <2>2, <2>3, ReadResponseHeaderSettles
    <3> HIDE DEF u
    <3>2. (u.ops \ t.ops) \cap Upload = {}
      BY <3>1 DEF Upload
    <3> QED  BY <1>2, <2>1, <2>2, <2>3, <3>1, <3>2, ReadBodyLeaves
  <2> QED  BY <1>2, <2>4, <2>5 DEF OnContinueWritten
<1> QED  BY <1>1, <1>2

\* Where the upload goes on: the handler may rely on this.
LEMMA UploadGoesOn ==
  ASSUME NEW t, NEW op \in Upload, Due(t, op), t.deferred_finish = "none",
         ~t.stop_request_upload
  PROVE  /\ t \in Transaction /\ Sound(t) /\ Settled(t) /\ t.fault = "none"
         /\ ~Quiescing(t) /\ ~t.client_cancel_requested /\ ~t.cancelled
         /\ t.acquire = "answered" /\ t.completed = "no" /\ ~t.connecting /\ ~t.pooled
         /\ t.backend_close_requested \/ t.backend_stream = "open"
         /\ t.delivered = 1 /\ ~req.websocket /\ req.body # "none"
         /\ ~t.request_upload_complete /\ "response" \notin t.sent
         /\ t.ops \subseteq {"error_write", "response_header"}
<1>1. op # "error_write" /\ op \notin Opening
  BY DEF Upload, Opening
<1>2. Sound(t) /\ Settled(t) /\ t \in Transaction /\ Awaits(t, op) /\ t.fault = "none"
  BY <1>1 DEF Due, Sound
<1>3. /\ t.completed = "no" /\ ~Quiescing(t) /\ t.acquire = "answered" /\ ~t.connecting
      /\ ~t.pooled /\ (t.backend_close_requested \/ t.backend_stream = "open")
      /\ t.delivered = 1 /\ ~req.websocket /\ req.body # "none"
      /\ ~t.request_upload_complete /\ "response" \notin t.sent
  BY <1>1, <1>2 DEF Awaits, Quiescing
<1>4. t.ops \subseteq {"error_write", "response_header"} \cup Response
  BY Company
<1>5. \A a \in t.ops : a \notin Response
  BY <1>2, <1>3 DEF Sound, Awaits
<1> QED  BY <1>2, <1>3, <1>4, <1>5 DEF Due

\* The upload fails.
LEMMA UploadFails ==
  ASSUME NEW t, NEW op \in Upload, Due(t, op), t.deferred_finish = "none",
         ~t.stop_request_upload
  PROVE  /\ Leaves(t, Fail(t))
         /\ \A retain \in BOOLEAN : Leaves(t, SendError(t, retain))
<1>1. /\ t \in Transaction /\ Sound(t) /\ Settled(t) /\ t.fault = "none"
      /\ ~Quiescing(t) /\ ~t.client_cancel_requested /\ ~t.cancelled
      /\ t.acquire = "answered" /\ t.completed = "no" /\ ~t.connecting /\ ~t.pooled
      /\ req.body # "none" /\ ~t.request_upload_complete /\ "response" \notin t.sent
      /\ t.ops \subseteq {"error_write", "response_header"}
  BY UploadGoesOn
<1>2. CASE "error_write" \notin t.ops
  <2>1. MayAnswer(t)
    BY <1>1, <1>2 DEF MayAnswer
  <2> QED  BY <1>1, <2>1, ErrorLeaves
<1>3. CASE "error_write" \in t.ops
  <2>1. ASSUME NEW retain \in BOOLEAN PROVE Leaves(t, SendError(t, retain))
    BY <1>1, <1>3, SendErrorTwice DEF Leaves
  <2> DEFINE v == [t EXCEPT !.connecting = FALSE]
  <2>2. /\ Sound(v) /\ SameExchange(t, v) /\ v.ops = t.ops /\ v.connecting = FALSE
        /\ Settled(v)
    BY <1>1, StopConnecting
  <2>3. Fail(t) = SendError(v, TRUE)
    BY <1>1 DEF Fail
  <2> HIDE DEF v
  <2>4. v.sent = t.sent /\ ~v.request_upload_complete
    BY <1>1, <2>2 DEF SameExchange, SameProgress
  <2>5. LET u == SendError(v, TRUE)
        IN  /\ Sound(u) /\ Settled(u) /\ u.ops = v.ops /\ u.sent = v.sent
            /\ "error" \in v.sent
    BY <1>1, <1>3, <2>2, <2>4, SendErrorTwice
  <2>6. Leaves(t, Fail(t))
    BY <1>1, <2>2, <2>3, <2>4, <2>5 DEF Leaves
  <2> QED  BY <2>1, <2>6
<1> QED  BY <1>2, <1>3

\* The upload's next write to the backend: the connection may have been destroyed by
\* the failure whose error response is in flight.
LEMMA UploadWrites ==
  ASSUME NEW t, NEW op \in Upload, Due(t, op), t.deferred_finish = "none",
         ~t.stop_request_upload, NEW next \in {"request_body_write", "request_last_chunk"},
         next = "request_last_chunk" => t.parser_done
  PROVE  Leaves(t, StartBackend(t, next))
<1>1. /\ t \in Transaction /\ Sound(t) /\ Settled(t) /\ t.fault = "none"
      /\ ~Quiescing(t) /\ t.acquire = "answered" /\ t.completed = "no"
      /\ ~t.connecting /\ ~t.pooled
      /\ t.backend_close_requested \/ t.backend_stream = "open"
      /\ t.delivered = 1 /\ ~req.websocket /\ req.body # "none"
      /\ ~t.request_upload_complete /\ "response" \notin t.sent
      /\ t.ops \subseteq {"error_write", "response_header"}
  BY UploadGoesOn
<1>2. CASE t.backend_stream # "none"
  <2>1. Awaits(t, next)
    BY <1>1 DEF Awaits, Opening, Response, Upload, Upgrade, Tunnel
  <2>2. next \in BackendOps /\ next \in Upload
    BY DEF BackendOps, BackendWrites, Upload
  <2>3. Shape(t.ops \cup {next})
    BY <1>1, <2>2, ShapeOfStart DEF Sound
  <2> QED  BY <1>1, <1>2, <2>1, <2>2, <2>3, StartLeaves
<1>3. CASE t.backend_stream = "none"
  <2> DEFINE u == [t EXCEPT !.fault = "no_stream"]
  <2>1. "error" \in t.sent
    BY <1>1, <1>3 DEF Settled, Sound, Awaits
  <2>2. StartBackend(t, next) = u
    BY <1>3 DEF StartBackend
  <2>3. /\ u \in Transaction /\ SameProgress(t, u) /\ u.ops = t.ops
        /\ u.error_keep_alive = t.error_keep_alive /\ u.sent = t.sent
        /\ u.backend_stream = t.backend_stream /\ u.permit = t.permit
        /\ u.backend_close_requested = t.backend_close_requested
        /\ u.acquire = t.acquire /\ u.connecting = t.connecting
        /\ u.deferred_finish = t.deferred_finish /\ u.cancelled = t.cancelled
        /\ u.client_cancel_requested = t.client_cancel_requested
        /\ u.completed = t.completed
    BY <1>1 DEF Transaction, SameProgress
  <2> HIDE DEF u
  <2>4. \A a : Awaits(t, a) => Awaits(u, a)
    BY <2>3 DEF Awaits, Unsent, SameProgress
  <2>5. BackendPending(u) <=> BackendPending(t)
    BY <2>3 DEF BackendPending
  <2>6. Sound(u)
    BY <1>1, <2>1, <2>3, <2>4, <2>5 DEF Sound, SameProgress
  <2>7. Settled(u)
    BY <1>1, <2>3 DEF Settled, Quiescing, SameProgress
  <2> QED  BY <1>1, <2>1, <2>2, <2>3, <2>6, <2>7 DEF Leaves
<1> QED  BY <1>2, <1>3

\* The upload is complete.
LEMMA UploadCompletes ==
  ASSUME NEW t, NEW op \in Upload, Due(t, op), t.deferred_finish = "none",
         ~t.stop_request_upload, t.parser_done
  PROVE  /\ Leaves(t, [t EXCEPT !.request_upload_complete = TRUE])
         /\ Leaves(t, FinishRequestBody(t))
<1> DEFINE u == [t EXCEPT !.request_upload_complete = TRUE]
<1>1. /\ t \in Transaction /\ Sound(t) /\ Settled(t) /\ t.fault = "none"
      /\ ~Quiescing(t) /\ t.acquire = "answered" /\ t.completed = "no"
      /\ ~t.connecting /\ ~t.pooled
      /\ t.ops \subseteq {"error_write", "response_header"}
  BY UploadGoesOn
<1>2. /\ u \in Transaction /\ u.ops = t.ops /\ u.request_upload_complete = TRUE
      /\ u.backend_stream = t.backend_stream
      /\ u.backend_close_requested = t.backend_close_requested
      /\ u.acquire = t.acquire /\ u.permit = t.permit /\ u.connecting = t.connecting
      /\ u.deferred_finish = t.deferred_finish /\ u.completed = t.completed
      /\ u.client_cancel_requested = t.client_cancel_requested
      /\ u.cancelled = t.cancelled
      /\ u.error_keep_alive = t.error_keep_alive /\ u.fault = t.fault /\ u.sent = t.sent
      /\ u.backend_from_pool = t.backend_from_pool /\ u.parser_done = t.parser_done
      /\ u.resolving = t.resolving
      /\ u.early_backend_response = t.early_backend_response
      /\ u.client_keep_alive = t.client_keep_alive
      /\ u.delivered = t.delivered /\ u.pooled = t.pooled
  BY <1>1 DEF Transaction
<1> HIDE DEF u
<1>3. ASSUME NEW a \in {"error_write", "response_header"}, Awaits(t, a) PROVE Awaits(u, a)
  BY <1>2, <1>3 DEF Awaits, Opening, Response, Upload, Upgrade, Tunnel
<1>4. BackendPending(u) <=> BackendPending(t)
  BY <1>2 DEF BackendPending
<1>5. Sound(u)
  BY <1>1, <1>2, <1>3, <1>4 DEF Sound
<1>6. Settled(u)
  BY <1>1, <1>2 DEF Settled, Quiescing
<1>7. Leaves(t, u)
  BY <1>1, <1>2, <1>5, <1>6 DEF Leaves
<1>8. Leaves(t, StartBackend(t, "request_last_chunk"))
  BY UploadWrites
<1> QED  BY <1>1, <1>7, <1>8 DEF FinishRequestBody, u

\* The upload reads on.
LEMMA UploadReads ==
  ASSUME NEW t, NEW op \in Upload, Due(t, op), t.deferred_finish = "none",
         ~t.stop_request_upload, ~t.parser_done
  PROVE  Leaves(t, ReadRequestBodyChunk(t))
BY UploadGoesOn, ReadBodyLeaves

\* The handlers of the upload's writes.
LEMMA UploadWrittenLeaves ==
  ASSUME NEW t, NEW o
  PROVE  /\ Due(t, "request_body_write") => Leaves(t, OnRequestBodyWritten(t, o))
         /\ Due(t, "request_last_chunk") => Leaves(t, OnRequestBodyFinished(t, o))
<1>1. ASSUME NEW op \in {"request_body_write", "request_last_chunk"}, Due(t, op)
      PROVE  /\ Leaves(t, t) /\ Leaves(t, FinishDeferred(t)) /\ t.completed = "no"
             /\ op \in Upload
  BY <1>1, ReturnsAtOnce DEF Due, Awaits, Upload
<1>2. ASSUME Due(t, "request_body_write") PROVE Leaves(t, OnRequestBodyWritten(t, o))
  BY <1>1, <1>2, UploadFails, UploadCompletes, UploadReads DEF OnRequestBodyWritten
<1>3. ASSUME Due(t, "request_last_chunk") PROVE Leaves(t, OnRequestBodyFinished(t, o))
  <2>1. t.parser_done
    BY <1>3 DEF Due, Awaits
  <2> QED  BY <1>1, <1>3, <2>1, UploadFails, UploadCompletes DEF OnRequestBodyFinished
<1> QED  BY <1>2, <1>3

\* on_request_body_read: a piece of the body, its end or an error.
LEMMA BodyReadLeaves ==
  ASSUME NEW t, NEW o, Due(t, "request_body_read")
  PROVE  Leaves(t, OnRequestBodyRead(t, o))
<1> DEFINE d == o \in {"data_done", "empty_done"}
           u == [t EXCEPT !.parser_done = d]
<1>0. d \in BOOLEAN
  OBVIOUS
<1> HIDE DEF d
<1>1. /\ Sound(t) /\ Settled(t) /\ t \in Transaction /\ t.fault = "none"
      /\ Awaits(t, "request_body_read")
  BY DEF Due, Sound
<1>2. /\ u \in Transaction /\ u.ops = t.ops /\ u.parser_done = d
      /\ u.backend_stream = t.backend_stream
      /\ u.backend_close_requested = t.backend_close_requested
      /\ u.acquire = t.acquire /\ u.permit = t.permit /\ u.connecting = t.connecting
      /\ u.deferred_finish = t.deferred_finish /\ u.completed = t.completed
      /\ u.client_cancel_requested = t.client_cancel_requested
      /\ u.cancelled = t.cancelled
      /\ u.error_keep_alive = t.error_keep_alive /\ u.fault = t.fault /\ u.sent = t.sent
      /\ u.backend_from_pool = t.backend_from_pool /\ u.resolving = t.resolving
      /\ u.request_upload_complete = t.request_upload_complete
      /\ u.response_header_started = t.response_header_started
      /\ u.early_backend_response = t.early_backend_response
      /\ u.stop_request_upload = t.stop_request_upload
      /\ u.response_transfer_buffer = t.response_transfer_buffer
      /\ u.response_done = t.response_done
      /\ u.client_keep_alive = t.client_keep_alive
      /\ u.delivered = t.delivered /\ u.pooled = t.pooled
  BY <1>0, <1>1 DEF Transaction
<1>3. OnRequestBodyRead(t, o) =
        IF t.deferred_finish # "none" THEN FinishDeferred(u)
        ELSE IF t.completed # "no" \/ t.stop_request_upload THEN u
        ELSE IF o = "error" THEN SendError(u, FALSE)
        ELSE IF o = "empty_done" THEN FinishRequestBody(u)
        ELSE IF o = "empty" THEN ReadRequestBodyChunk(u)
        ELSE StartBackend(u, "request_body_write")
  BY DEF OnRequestBodyRead, d
<1> HIDE DEF u
<1>4. /\ "request_body_read" \in Upload /\ "request_body_write" \in Upload
      /\ "request_body_read" \notin Opening
  BY DEF Upload, Opening
<1>5. /\ t.parser_done = FALSE /\ t.completed = "no" /\ ~t.request_upload_complete
      /\ req.body # "none" /\ t.acquire = "answered" /\ ~t.pooled /\ ~t.connecting
      /\ t.deferred_finish # "keep"
  BY <1>1, <1>4 DEF Awaits, Sound, Transaction, Reusable
<1>6. t.ops \subseteq {"error_write", "response_header"} \cup Response
  BY <1>4, Company
<1>7. ASSUME NEW a \in {"error_write", "response_header"} \cup Response, Awaits(t, a)
      PROVE  Awaits(u, a)
  BY <1>2, <1>5, <1>7 DEF Awaits, Opening, Response, Upload, Upgrade, Tunnel
<1>8. BackendPending(u) <=> BackendPending(t)
  BY <1>2 DEF BackendPending
<1>9. Sound(u)
  BY ZenonT(60), <1>1, <1>2, <1>5, <1>6, <1>7, <1>8 DEF Sound
<1>10. Settled(u) /\ (Quiescing(u) <=> Quiescing(t))
  BY <1>1, <1>2 DEF Settled, Quiescing
<1>11. Awaits(u, "request_body_write")
  BY <1>1, <1>2 DEF Awaits, Opening, Response, Upload, Upgrade, Tunnel
<1>12. Due(u, "request_body_write")
  <2>1. Shape(u.ops \cup {"request_body_write"})
    BY <1>2, <1>4, <1>6, <1>9, ShapeOfStart DEF Sound
  <2>2. "request_body_write" \notin u.ops
    BY <1>2, <1>6 DEF Response
  <2> QED  BY <1>1, <1>2, <1>9, <1>10, <1>11, <2>1, <2>2 DEF Due
<1>13. ASSUME NEW r, Leaves(u, r) PROVE Leaves(t, r)
  BY <1>2, <1>10, <1>13 DEF Leaves
<1>14. Leaves(u, u) /\ Leaves(u, FinishDeferred(u))
  BY <1>12, ReturnsAtOnce
<1>15. ASSUME t.deferred_finish = "none", ~t.stop_request_upload
       PROVE  /\ Leaves(u, SendError(u, FALSE))
              /\ d => Leaves(u, FinishRequestBody(u))
              /\ ~d => Leaves(u, ReadRequestBodyChunk(u))
              /\ Leaves(u, StartBackend(u, "request_body_write"))
  <2>1. u.deferred_finish = "none" /\ ~u.stop_request_upload
    BY <1>2, <1>15
  <2>2. Leaves(u, SendError(u, FALSE))
    BY <1>4, <1>12, <2>1, UploadFails
  <2>3. d => Leaves(u, FinishRequestBody(u))
    BY <1>2, <1>4, <1>12, <2>1, UploadCompletes
  <2>4. ~d => Leaves(u, ReadRequestBodyChunk(u))
    BY <1>2, <1>4, <1>12, <2>1, UploadReads
  <2>5. Leaves(u, StartBackend(u, "request_body_write"))
    BY <1>4, <1>12, <2>1, UploadWrites
  <2> QED  BY <2>2, <2>3, <2>4, <2>5
<1> QED  BY <1>3, <1>5, <1>13, <1>14, <1>15 DEF d

\* A handler gives the exchange up and waits for what is in flight.
LEMMA FailAfterHeaderLeaves ==
  ASSUME NEW t, NEW op, Due(t, op), op \notin Opening
  PROVE  Leaves(t, FailAfterHeader(t))
<1>1. /\ Sound(t) /\ t.fault = "none" /\ t.completed = "no" /\ ~t.pooled /\ ~t.connecting
  BY DEF Due, Awaits
<1>2. LET u == FailAfterHeader(t)
      IN  Sound(u) /\ Settled(u) /\ SameExchange(t, u) /\ u.ops = t.ops
  BY <1>1, FailAfterHeaderSettles
<1> QED  BY <1>1, <1>2 DEF Leaves, SameExchange

\* finish_normal, called when the response has been passed on to its end.
LEMMA FinishNormalLeaves ==
  ASSUME NEW t, NEW op \in Response, Due(t, op), ~Quiescing(t), t.response_done
  PROVE  Leaves(t, FinishNormal(t))
<1>0. op # "error_write" /\ op \notin Opening /\ "error_write" \notin Upload
  BY DEF Response, Opening, Upload
<1>1. t.ops \subseteq Upload
  BY Company
<1>2. /\ t \in Transaction /\ Sound(t) /\ Settled(t) /\ t.fault = "none"
      /\ t.backend_stream = "open" /\ t.acquire = "answered" /\ t.completed = "no"
      /\ t.deferred_finish = "none" /\ ~t.pooled /\ ~t.client_cancel_requested
      /\ ~t.cancelled /\ ~t.connecting /\ t.delivered = 1 /\ ~req.websocket
      /\ "error" \notin t.sent
  BY <1>0, <1>1, GoesOn DEF Due, Awaits
<1>3. CASE t.early_backend_response \/ ~t.request_upload_complete
  <2>1. FinishNormal(t) = FailAfterHeader(t)
    BY <1>2, <1>3 DEF FinishNormal, FailAfterHeader
  <2> QED  BY <1>0, <2>1, FailAfterHeaderLeaves
<1>4. CASE ~t.early_backend_response /\ t.request_upload_complete
  <2> DEFINE keep == IF t.client_keep_alive THEN "keep" ELSE "close"
             p == [t EXCEPT !.backend_stream = "none", !.pooled = TRUE]
             c == CloseBackend(t)
  <2>1. t.ops = {}
    BY <1>1, <1>2, <1>4 DEF Sound, Awaits
  <2>2. keep = "keep" => Reusable(t)
    BY <1>2, <1>4 DEF Sound, Reusable
  <2>3. keep \in {"close", "keep"}
    OBVIOUS
  <2>4. FinishNormal(t) \in {Finish(p, keep), Finish(c, keep)}
    BY <1>4 DEF FinishNormal
  <2> HIDE DEF keep
  <2>5. Leaves(t, Finish(p, keep))
    <3>1. /\ p \in Transaction /\ p.ops = {} /\ p.delivered = t.delivered
          /\ p.acquire = t.acquire /\ p.permit = t.permit
          /\ p.backend_stream = "none"
          /\ p.backend_close_requested = t.backend_close_requested
          /\ p.connecting = t.connecting /\ p.deferred_finish = t.deferred_finish
          /\ p.client_cancel_requested = t.client_cancel_requested
          /\ p.cancelled = t.cancelled /\ p.completed = t.completed /\ p.fault = t.fault
          /\ p.pooled = TRUE /\ p.sent = t.sent
          /\ p.parser_done = t.parser_done /\ p.resolving = t.resolving
          /\ p.client_keep_alive = t.client_keep_alive
          /\ p.early_backend_response = t.early_backend_response
          /\ p.backend_from_pool = t.backend_from_pool
          /\ p.request_upload_complete = t.request_upload_complete
          /\ p.response_done = t.response_done
      BY <1>2, <2>1 DEF Transaction
    <3> HIDE DEF p
    <3>2. Shape(p.ops) /\ ~BackendPending(p) /\ (Reusable(t) => Reusable(p))
      BY <3>1 DEF Shape, BackendPending, Reusable
    <3>3. Sound(p)
      BY <1>2, <1>4, <3>1, <3>2 DEF Sound
    <3>4. LET u == Finish(p, keep)
          IN  Sound(u) /\ Settled(u) /\ SameExchange(p, u) /\ u.ops = {}
      BY <1>2, <2>2, <2>3, <3>1, <3>2, <3>3, FinishSettles
    <3> QED  BY <1>2, <2>1, <3>1, <3>4 DEF Leaves, SameExchange
  <2>6. Leaves(t, Finish(c, keep))
    <3>1. Sound(c) /\ SameRest(t, c) /\ c.ops = t.ops
      BY <1>2, CloseBackendSound
    <3>2. ~BackendPending(t)
      BY <2>1 DEF BackendPending
    <3>3. c.backend_stream = "none"
      BY <1>2, <3>2, CloseBackendFrame
    <3> HIDE DEF c
    <3>4. /\ c.completed = "no" /\ c.deferred_finish = "none" /\ c.ops = {}
          /\ c.sent = t.sent /\ c.fault = t.fault /\ (Reusable(t) => Reusable(c))
      BY <1>2, <2>1, <3>1 DEF SameRest, SameExchange, SameProgress, Reusable
    <3>5. LET u == Finish(c, keep)
          IN  Sound(u) /\ Settled(u) /\ SameExchange(c, u) /\ u.ops = {}
      BY <2>2, <2>3, <3>1, <3>3, <3>4, FinishSettles
    <3> QED  BY <1>2, <2>1, <3>4, <3>5 DEF Leaves, SameExchange
  <2> QED  BY <2>4, <2>5, <2>6
<1> QED  BY <1>3, <1>4

\* What on_response_header notes of a final response.
Noted(t, early, cka, own, done, bka) ==
  [t EXCEPT !.early_backend_response = early,
            !.stop_request_upload = early,
            !.client_keep_alive = cka,
            !.response_transfer_buffer = own,
            !.response_done = done,
            !.backend_keep_alive = bka,
            !.sent = @ \cup {"response"}]

\* How it then stands: f beside the t the handler was called with.
Notes(t, f, early, cka, own, done) ==
  /\ f \in Transaction /\ f.ops = t.ops /\ f.resolving = t.resolving
  /\ f.response_header_started = t.response_header_started
  /\ f.backend_stream = t.backend_stream
  /\ f.backend_close_requested = t.backend_close_requested
  /\ f.acquire = t.acquire /\ f.permit = t.permit /\ f.connecting = t.connecting
  /\ f.deferred_finish = t.deferred_finish /\ f.completed = t.completed
  /\ f.client_cancel_requested = t.client_cancel_requested
  /\ f.cancelled = t.cancelled
  /\ f.error_keep_alive = t.error_keep_alive /\ f.fault = t.fault
  /\ f.sent = t.sent \cup {"response"}
  /\ f.backend_from_pool = t.backend_from_pool /\ f.parser_done = t.parser_done
  /\ f.request_upload_complete = t.request_upload_complete
  /\ f.early_backend_response = early /\ f.stop_request_upload = early
  /\ f.response_transfer_buffer = own /\ f.response_done = done
  /\ f.client_keep_alive = cka
  /\ f.delivered = t.delivered /\ f.pooled = t.pooled

\* Noting a final response changes nothing else.
LEMMA FinalResponse ==
  ASSUME NEW t \in Transaction, NEW early \in BOOLEAN, NEW cka \in BOOLEAN,
         NEW own \in BOOLEAN, NEW done \in BOOLEAN, NEW bka \in BOOLEAN
  PROVE  Notes(t, Noted(t, early, cka, own, done, bka), early, cka, own, done)
<1> DEFINE f == Noted(t, early, cka, own, done, bka)
<1>1. f \in Transaction
  BY ZenonT(60) DEF Transaction, Noted
<1>2. /\ f.ops = t.ops /\ f.resolving = t.resolving
      /\ f.response_header_started = t.response_header_started
      /\ f.backend_stream = t.backend_stream
      /\ f.backend_close_requested = t.backend_close_requested
      /\ f.acquire = t.acquire /\ f.permit = t.permit /\ f.connecting = t.connecting
      /\ f.deferred_finish = t.deferred_finish /\ f.completed = t.completed
      /\ f.client_cancel_requested = t.client_cancel_requested
      /\ f.cancelled = t.cancelled
      /\ f.error_keep_alive = t.error_keep_alive /\ f.fault = t.fault
      /\ f.backend_from_pool = t.backend_from_pool /\ f.parser_done = t.parser_done
      /\ f.request_upload_complete = t.request_upload_complete
      /\ f.delivered = t.delivered /\ f.pooled = t.pooled
  BY DEF Transaction, Noted
<1>3. /\ f.sent = t.sent \cup {"response"}
      /\ f.early_backend_response = early /\ f.stop_request_upload = early
      /\ f.response_transfer_buffer = own /\ f.response_done = done
      /\ f.client_keep_alive = cka
  BY DEF Transaction, Noted
<1> HIDE DEF f
<1>4. Notes(t, f, early, cka, own, done)
  BY <1>1, <1>2, <1>3 DEF Notes
<1> QED  BY <1>4 DEF f

\* on_response_header: the backend's answer, possibly before the upload has ended.
LEMMA ResponseHeaderLeaves ==
  ASSUME NEW t, NEW o, Due(t, "response_header")
  PROVE  Leaves(t, OnResponseHeader(t, o))
<1> DEFINE early == ~t.request_upload_complete
           done == o \in {"done", "done_close"}
           bka == o \in {"done", "more"} /\ ~early
           cka == t.client_keep_alive /\ ~early
           own == early /\ ~done
           f == [t EXCEPT !.early_backend_response = early,
                          !.stop_request_upload = early,
                          !.client_keep_alive = cka,
                          !.response_transfer_buffer = own,
                          !.response_done = done,
                          !.backend_keep_alive = bka,
                          !.sent = @ \cup {"response"}]
           n == [t EXCEPT !.early_backend_response = TRUE,
                          !.stop_request_upload = TRUE, !.client_keep_alive = FALSE]
           i == [t EXCEPT !.response_header_started = FALSE]
<1>0. /\ early \in BOOLEAN /\ done \in BOOLEAN /\ bka \in BOOLEAN
      /\ cka \in BOOLEAN /\ own \in BOOLEAN /\ t \in Transaction
  BY DEF Due, Sound, Transaction
<1>1. OnResponseHeader(t, o) =
        IF t.backend_close_requested \/ t.completed # "no" THEN FinishDeferred(t)
        ELSE IF o = "error" THEN Fail(t)
        ELSE IF o = "interim" THEN ReadResponseHeader(i)
        ELSE IF o = "switch" THEN SendError(t, TRUE)
        ELSE IF o = "no_memory" /\ early THEN SendError(n, TRUE)
        ELSE StartClient(f, "response_header_write")
  BY DEF OnResponseHeader
<1> HIDE DEF done, bka
<1>2. CASE t.backend_close_requested \/ t.completed # "no"
  BY <1>1, <1>2, ReturnsAtOnce
<1>3. CASE ~t.backend_close_requested /\ t.completed = "no"
  <2>1. ~Quiescing(t)
    BY <1>3 DEF Due, Sound, Awaits, Quiescing
  <2>2. /\ Sound(t) /\ Settled(t) /\ t.fault = "none"
        /\ t.backend_stream = "open" /\ t.backend_close_requested = FALSE
        /\ "error_write" \notin t.ops /\ "error" \notin t.sent
        /\ t.acquire = "answered" /\ t.completed = "no" /\ t.deferred_finish = "none"
        /\ ~t.pooled /\ ~t.client_cancel_requested /\ ~t.cancelled
    BY <1>3, <2>1, GoesOn DEF Due
  <2>3. t.ops \subseteq Upload
    BY <2>2, Company
  <2>4. ~t.connecting /\ "response" \notin t.sent /\ t.delivered = 1 /\ ~req.websocket
    BY DEF Due, Awaits, Opening
  <2>5. MayAnswer(t)
    BY <2>1, <2>2, <2>3, <2>4 DEF MayAnswer
  <2>6. Leaves(t, Fail(t)) /\ Leaves(t, SendError(t, TRUE))
    BY <2>2, <2>4, <2>5, ErrorLeaves
  <2>7. Leaves(t, ReadResponseHeader(i))
    <3>1. /\ i \in Transaction /\ i.ops = t.ops /\ i.resolving = t.resolving
          /\ i.response_header_started = FALSE
          /\ i.backend_stream = t.backend_stream
          /\ i.backend_close_requested = t.backend_close_requested
          /\ i.acquire = t.acquire /\ i.permit = t.permit /\ i.connecting = t.connecting
          /\ i.deferred_finish = t.deferred_finish /\ i.completed = t.completed
          /\ i.client_cancel_requested = t.client_cancel_requested
          /\ i.cancelled = t.cancelled
          /\ i.error_keep_alive = t.error_keep_alive /\ i.fault = t.fault /\ i.sent = t.sent
          /\ i.backend_from_pool = t.backend_from_pool /\ i.parser_done = t.parser_done
          /\ i.request_upload_complete = t.request_upload_complete
          /\ i.early_backend_response = t.early_backend_response
          /\ i.stop_request_upload = t.stop_request_upload
          /\ i.client_keep_alive = t.client_keep_alive
          /\ i.delivered = t.delivered /\ i.pooled = t.pooled
      BY <1>0 DEF Transaction
    <3> HIDE DEF i
    <3>2. \A op \in Upload : Awaits(t, op) => Awaits(i, op)
      BY <3>1 DEF Awaits, Upload, Opening, Response, Upgrade, Tunnel
    <3>3. BackendPending(i) <=> BackendPending(t)
      BY <3>1 DEF BackendPending
    <3>4. Sound(i)
      BY <2>2, <2>3, <2>4, <3>1, <3>2, <3>3 DEF Sound
    <3>5. Settled(i)
      BY <2>2, <3>1 DEF Settled, Quiescing
    <3>6. LET u == ReadResponseHeader(i)
          IN  /\ Sound(u) /\ Settled(u) /\ u.ops = i.ops \cup {"response_header"}
              /\ u.sent = i.sent /\ u.fault = i.fault
      BY <2>2, <2>3, <2>4, <3>1, <3>4, <3>5, ReadResponseHeaderSettles
    <3> QED  BY <2>1, <2>2, <3>1, <3>6 DEF Leaves, Upload
  <2>8. Leaves(t, SendError(n, TRUE))
    <3>1. /\ n \in Transaction /\ n.ops = t.ops /\ n.resolving = t.resolving
          /\ n.response_header_started = t.response_header_started
          /\ n.backend_stream = t.backend_stream
          /\ n.backend_close_requested = t.backend_close_requested
          /\ n.acquire = t.acquire /\ n.permit = t.permit /\ n.connecting = t.connecting
          /\ n.deferred_finish = t.deferred_finish /\ n.completed = t.completed
          /\ n.client_cancel_requested = t.client_cancel_requested
          /\ n.cancelled = t.cancelled
          /\ n.error_keep_alive = t.error_keep_alive /\ n.fault = t.fault /\ n.sent = t.sent
          /\ n.backend_from_pool = t.backend_from_pool /\ n.parser_done = t.parser_done
          /\ n.request_upload_complete = t.request_upload_complete
          /\ n.stop_request_upload = TRUE
          /\ n.client_keep_alive = FALSE
          /\ n.delivered = t.delivered /\ n.pooled = t.pooled
      BY <1>0 DEF Transaction
    <3> HIDE DEF n
    <3>2. \A op \in Upload : Awaits(t, op) => Awaits(n, op)
      BY <3>1 DEF Awaits, Upload, Opening, Response, Upgrade, Tunnel
    <3>3. BackendPending(n) <=> BackendPending(t)
      BY <3>1 DEF BackendPending
    <3>4. Sound(n)
      BY <2>2, <2>3, <2>4, <3>1, <3>2, <3>3 DEF Sound
    <3>5. MayAnswer(n)
      BY <2>5, <3>1 DEF MayAnswer, Quiescing
    <3>6. LET u == SendError(n, TRUE)
          IN  /\ Sound(u) /\ Settled(u)
              /\ u.ops = n.ops \cup {"error_write"} /\ u.fault = n.fault
              /\ u.sent = n.sent \cup {"error"}
      BY <2>4, <3>1, <3>4, <3>5, SendErrorSettles
    <3> QED  BY <2>1, <2>2, <3>1, <3>6 DEF Leaves, Upload
  <2>9. Leaves(t, StartClient(f, "response_header_write"))
    <3>0. /\ early = ~t.request_upload_complete /\ cka = (t.client_keep_alive /\ ~early)
          /\ own = (early /\ ~done)
      OBVIOUS
    <3> HIDE DEF early, cka, own
    <3>01. f = Noted(t, early, cka, own, done, bka)
      BY DEF Noted
    <3> HIDE DEF f
    <3>02. Notes(t, f, early, cka, own, done)
      BY <1>0, <3>01, FinalResponse
    <3>1. /\ f \in Transaction /\ f.ops = t.ops /\ f.resolving = t.resolving
          /\ f.response_header_started = t.response_header_started
          /\ f.backend_stream = t.backend_stream
          /\ f.backend_close_requested = t.backend_close_requested
          /\ f.acquire = t.acquire /\ f.permit = t.permit /\ f.connecting = t.connecting
          /\ f.deferred_finish = t.deferred_finish /\ f.completed = t.completed
          /\ f.client_cancel_requested = t.client_cancel_requested
          /\ f.cancelled = t.cancelled
          /\ f.error_keep_alive = t.error_keep_alive /\ f.fault = t.fault
          /\ f.sent = t.sent \cup {"response"}
          /\ f.backend_from_pool = t.backend_from_pool /\ f.parser_done = t.parser_done
          /\ f.request_upload_complete = t.request_upload_complete
          /\ f.early_backend_response = early /\ f.stop_request_upload = early
          /\ f.response_transfer_buffer = own /\ f.response_done = done
          /\ f.client_keep_alive = cka
          /\ f.delivered = t.delivered /\ f.pooled = t.pooled
      BY <3>02 DEF Notes
    <3>2. \A op \in Upload : Awaits(t, op) => Awaits(f, op)
      BY ZenonT(60), <3>0, <3>1 DEF Awaits, Upload, Opening, Response, Upgrade, Tunnel
    <3>3. BackendPending(f) <=> BackendPending(t)
      BY <3>1 DEF BackendPending
    <3>4. Sound(f)
      BY <2>2, <2>3, <2>4, <3>0, <3>1, <3>2, <3>3 DEF Sound
    <3>5. Settled(f)
      BY <2>2, <3>1 DEF Settled, Quiescing
    <3>6. Awaits(f, "response_header_write")
      BY <2>2, <2>4, <3>0, <3>1 DEF Awaits, Upload, Opening, Response, Upgrade, Tunnel
    <3>7. Shape(f.ops \cup {"response_header_write"})
      BY <2>3, <3>1, <3>4, ShapeOfStart DEF Sound, Response
    <3>8. /\ "response_header_write" \in ClientOps /\ "response_header_write" \notin BackendOps
          /\ "response_header_write" \notin Upload
      BY DEF ClientOps, ClientWrites, BackendOps, BackendReads, BackendWrites, Upload
    <3> QED  BY <2>1, <2>2, <3>1, <3>4, <3>5, <3>6, <3>7, <3>8, StartLeaves
  <2> QED  BY <1>1, <1>3, <2>6, <2>7, <2>8, <2>9
<1> QED  BY <1>2, <1>3

\* The handlers that pass the response on.
LEMMA ResponseLeaves ==
  ASSUME NEW t, NEW o
  PROVE  /\ Due(t, "response_header_write") => Leaves(t, OnHeaderWritten(t, o))
         /\ Due(t, "response_body_read") => Leaves(t, OnBodyRead(t, o))
         /\ Due(t, "response_body_write") => Leaves(t, OnBodyWritten(t, o))
<1>1. ASSUME NEW op \in Response, Due(t, op)
      PROVE  /\ Leaves(t, FinishDeferred(t)) /\ Leaves(t, FailAfterHeader(t))
             /\ t.backend_close_requested \/ t.completed # "no" \/ ~Quiescing(t)
             /\ ~Quiescing(t) =>
                  /\ t \in Transaction /\ Sound(t) /\ Settled(t) /\ t.fault = "none"
                  /\ t.backend_stream = "open" /\ t.deferred_finish = "none"
                  /\ t.ops \subseteq Upload /\ Awaits(t, op)
                  /\ t.response_done => Leaves(t, FinishNormal(t))
  <2>1. op # "error_write" /\ op \notin Opening /\ "error_write" \notin Upload
    BY DEF Response, Opening, Upload
  <2>2. t.ops \subseteq Upload
    BY <1>1, Company
  <2>3. t.backend_close_requested \/ t.completed # "no" \/ ~Quiescing(t)
    BY <1>1, <2>1 DEF Due, Sound, Awaits, Quiescing
  <2> QED  BY <1>1, <2>1, <2>2, <2>3, ReturnsAtOnce, FailAfterHeaderLeaves, GoesOn,
              FinishNormalLeaves DEF Due
<1>2. /\ "response_header_write" \in Response /\ "response_body_read" \in Response
      /\ "response_body_write" \in Response
      /\ "response_body_read" \in BackendOps /\ "response_body_write" \in ClientOps
      /\ "response_body_write" \notin BackendOps
      /\ \A a \in Response : a \notin Upload
  BY DEF Response, Upload, BackendOps, BackendReads, BackendWrites, ClientOps, ClientWrites
<1>3. ASSUME NEW op \in Response, Due(t, op), ~Quiescing(t),
             op # "response_body_read"
      PROVE  Leaves(t, StartClient(t, "response_body_write"))
  <2>1. Awaits(t, "response_body_write")
    BY <1>3 DEF Due, Awaits, Opening, Response, Upload, Upgrade, Tunnel
  <2>2. Shape(t.ops \cup {"response_body_write"})
    BY <1>1, <1>2, <1>3, ShapeOfStart DEF Sound
  <2> QED  BY <1>1, <1>2, <1>3, <2>1, <2>2, StartLeaves
<1>4. ASSUME NEW op \in Response, Due(t, op), ~Quiescing(t), ~t.response_done
      PROVE  Leaves(t, ReadBodyChunk(t))
  <2>1. Awaits(t, "response_body_read")
    BY <1>4 DEF Due, Awaits, Opening, Response, Upload, Upgrade, Tunnel
  <2>2. Shape(t.ops \cup {"response_body_read"})
    BY <1>1, <1>2, <1>4, ShapeOfStart DEF Sound
  <2> QED  BY <1>1, <1>2, <1>4, <2>1, <2>2, StartLeaves DEF ReadBodyChunk
<1>5. ASSUME Due(t, "response_header_write") PROVE Leaves(t, OnHeaderWritten(t, o))
  BY <1>1, <1>2, <1>3, <1>4, <1>5 DEF OnHeaderWritten
<1>6. ASSUME Due(t, "response_body_write") PROVE Leaves(t, OnBodyWritten(t, o))
  BY <1>1, <1>2, <1>3, <1>4, <1>6 DEF OnBodyWritten
<1>7. ASSUME Due(t, "response_body_read") PROVE Leaves(t, OnBodyRead(t, o))
  <2> DEFINE d == o = "done"
             u == [t EXCEPT !.response_done = d]
  <2>0. d \in BOOLEAN
    OBVIOUS
  <2>1. CASE t.backend_close_requested \/ t.completed # "no" \/ o = "error"
    BY <1>1, <1>2, <1>7, <2>1 DEF OnBodyRead
  <2>2. CASE ~t.backend_close_requested /\ t.completed = "no" /\ o # "error"
    <3>1. /\ ~Quiescing(t) /\ t \in Transaction /\ Sound(t) /\ Settled(t)
          /\ t.fault = "none" /\ t.deferred_finish = "none"
          /\ t.ops \subseteq Upload /\ Awaits(t, "response_body_read")
      BY <1>1, <1>2, <1>7, <2>2
    <3>2. OnBodyRead(t, o) = StartClient(u, "response_body_write")
      BY <2>2 DEF OnBodyRead
    <3> HIDE DEF d
    <3>3. /\ u \in Transaction /\ u.ops = t.ops /\ u.resolving = t.resolving
          /\ u.response_header_started = t.response_header_started
          /\ u.backend_stream = t.backend_stream
          /\ u.backend_close_requested = t.backend_close_requested
          /\ u.acquire = t.acquire /\ u.permit = t.permit /\ u.connecting = t.connecting
          /\ u.deferred_finish = t.deferred_finish /\ u.completed = t.completed
          /\ u.client_cancel_requested = t.client_cancel_requested
          /\ u.cancelled = t.cancelled
          /\ u.error_keep_alive = t.error_keep_alive /\ u.fault = t.fault
          /\ u.sent = t.sent /\ u.response_transfer_buffer = t.response_transfer_buffer
          /\ u.backend_from_pool = t.backend_from_pool /\ u.parser_done = t.parser_done
          /\ u.request_upload_complete = t.request_upload_complete
          /\ u.early_backend_response = t.early_backend_response
          /\ u.stop_request_upload = t.stop_request_upload
          /\ u.client_keep_alive = t.client_keep_alive
          /\ u.delivered = t.delivered /\ u.pooled = t.pooled
      BY <2>0, <3>1 DEF Transaction
    <3> HIDE DEF u
    <3>4. \A op \in Upload : Awaits(t, op) => Awaits(u, op)
      BY <3>3 DEF Awaits, Upload, Opening, Response, Upgrade, Tunnel
    <3>5. BackendPending(u) <=> BackendPending(t)
      BY <3>3 DEF BackendPending
    <3>6. ~t.connecting /\ ~t.pooled /\ t.acquire = "answered"
      BY <3>1 DEF Awaits, Opening
    <3>7. Sound(u)
      BY <2>2, <3>1, <3>3, <3>4, <3>5, <3>6 DEF Sound
    <3>8. Settled(u)
      BY <3>1, <3>3 DEF Settled, Quiescing
    <3>9. Awaits(u, "response_body_write")
      BY <3>1, <3>3 DEF Awaits, Upload, Opening, Response, Upgrade, Tunnel
    <3>10. Shape(u.ops \cup {"response_body_write"})
      BY <1>2, <3>1, <3>3, <3>7, ShapeOfStart DEF Sound
    <3> QED  BY <1>2, <3>1, <3>2, <3>3, <3>7, <3>8, <3>9, <3>10, StartLeaves
  <2> QED  BY <2>1, <2>2
<1> QED  BY <1>5, <1>6, <1>7

-----------------------------------------------------------------------------
(* The upgrade and the tunnel                                              *)

\* Where a handler of the upgrade goes on, it is alone, and it may answer with an error.
LEMMA UpgradeGoesOn ==
  ASSUME NEW t, NEW op \in Upgrade, Due(t, op)
  PROVE  /\ Leaves(t, FinishDeferred(t))
         /\ ~Quiescing(t) =>
              /\ t \in Transaction /\ Sound(t) /\ Settled(t) /\ t.fault = "none"
              /\ t.backend_stream = "open" /\ t.acquire = "answered"
              /\ t.completed = "no" /\ t.deferred_finish = "none" /\ ~t.pooled
              /\ ~t.connecting /\ t.ops = {} /\ req.websocket /\ "response" \notin t.sent
              /\ Leaves(t, Fail(t)) /\ Leaves(t, SendError(t, TRUE))
<1>1. op # "error_write" /\ op \notin Opening
  BY DEF Upgrade, Opening
<1>2. t.ops = {} /\ Awaits(t, op) /\ req.websocket /\ "response" \notin t.sent
      /\ ~t.connecting
  BY <1>1, Company DEF Due, Awaits
<1>3. Leaves(t, FinishDeferred(t))
  BY <1>1, ReturnsAtOnce
<1>4. ASSUME ~Quiescing(t)
      PROVE  /\ t \in Transaction /\ Sound(t) /\ Settled(t) /\ t.fault = "none"
             /\ t.backend_stream = "open" /\ t.acquire = "answered"
             /\ t.completed = "no" /\ t.deferred_finish = "none" /\ ~t.pooled
  BY <1>1, <1>2, <1>4, GoesOn
<1>5. ASSUME ~Quiescing(t) PROVE MayAnswer(t)
  BY <1>2, <1>4, <1>5 DEF MayAnswer, Due
<1> QED  BY <1>2, <1>3, <1>4, <1>5, ErrorLeaves

\* A handler that starts one operation of the upgrade, in the state v.
LEMMA UpgradeStarts ==
  ASSUME NEW t, NEW v, NEW op \in Upgrade, ~Quiescing(t), Sound(v), Settled(v),
         v.fault = "none", t.sent \subseteq v.sent, v.ops = {},
         v.backend_stream = "open", v.acquire = "answered", v.completed = "no",
         v.deferred_finish = "none", ~v.pooled, ~v.connecting, req.websocket,
         "response" \notin v.sent
  PROVE  /\ op \in ClientOps => Leaves(t, StartClient(v, op))
         /\ op \in BackendOps => Leaves(t, StartBackend(v, op))
<1>1. Awaits(v, op)
  BY DEF Awaits, Opening, Response, Upload, Upgrade, Tunnel
<1>2. Shape({}) /\ Shape(v.ops \cup {op})
  BY ShapeOfStart DEF Sound
<1>3. op \notin Upload
  BY DEF Upload, Upgrade
<1> QED  BY <1>1, <1>2, <1>3, StartLeaves

\* The tunnel starts with a read in each direction.
LEMMA StartTunnelLeaves ==
  ASSUME NEW t, NEW v, ~Quiescing(t), Sound(v), Settled(v),
         v.fault = "none", t.sent \subseteq v.sent, v.ops = {},
         v.backend_stream = "open", v.acquire = "answered", v.completed = "no",
         v.deferred_finish = "none", ~v.pooled, ~v.connecting, req.websocket
  PROVE  Leaves(t, StartTunnel(v))
<1> DEFINE u == [v EXCEPT !.ops = @ \cup {"client_tunnel_read"}]
<1>0. /\ "client_tunnel_read" \in ClientOps /\ "client_tunnel_read" \notin BackendOps
      /\ "backend_tunnel_read" \in BackendOps
      /\ "client_tunnel_read" \notin Upload /\ "backend_tunnel_read" \notin Upload
  BY DEF ClientOps, ClientReads, ClientWrites, BackendOps, BackendReads, BackendWrites, Upload
<1>1. Awaits(v, "client_tunnel_read") /\ Awaits(v, "backend_tunnel_read")
  BY DEF Awaits, Opening, Response, Upload, Upgrade, Tunnel
<1>2. Shape(v.ops \cup {"client_tunnel_read"})
  BY ShapeOfStart DEF Sound
<1>3. /\ Sound(u) /\ Settled(u) /\ SameRest(v, u) /\ u.ops = v.ops \cup {"client_tunnel_read"}
      /\ u.backend_stream = v.backend_stream
      /\ u.backend_close_requested = v.backend_close_requested
  BY <1>0, <1>1, <1>2, StartSettles
<1>4. StartTunnel(v) = StartBackend(u, "backend_tunnel_read")
  BY DEF StartTunnel, ReadFromBackend, ReadFromClient, StartClient
<1> HIDE DEF u
<1>5. Awaits(u, "backend_tunnel_read")
  BY <1>1, <1>3 DEF Awaits, Unsent, SameRest, SameExchange, SameProgress
<1>6. Shape(u.ops \cup {"backend_tunnel_read"})
  BY <1>3, ShapeOfStart DEF Sound
<1>7. /\ u.fault = "none" /\ u.sent = v.sent /\ u.deferred_finish = "none"
      /\ (u.ops \ t.ops) \cap Upload = {}
  BY <1>0, <1>3 DEF SameRest, SameExchange
<1> QED  BY <1>0, <1>3, <1>4, <1>5, <1>6, <1>7, StartLeaves

\* The handlers of the upgrade.
LEMMA UpgradeLeaves ==
  ASSUME NEW t, NEW o
  PROVE  /\ Due(t, "upgrade_response") => Leaves(t, OnUpgradeResponse(t, o))
         /\ Due(t, "upgrade_write") => Leaves(t, OnUpgradeWritten(t, o))
         /\ Due(t, "client_buffer_flush") => Leaves(t, OnClientBufferFlushed(t, o))
         /\ Due(t, "backend_buffer_flush") => Leaves(t, OnBackendBufferFlushed(t, o))
<1>0. /\ "upgrade_write" \in ClientOps /\ "backend_buffer_flush" \in ClientOps
      /\ "client_buffer_flush" \in BackendOps
      /\ "upgrade_response" \in Upgrade /\ "upgrade_write" \in Upgrade
      /\ "client_buffer_flush" \in Upgrade /\ "backend_buffer_flush" \in Upgrade
  BY DEF ClientOps, ClientReads, ClientWrites, BackendOps, BackendReads, BackendWrites, Upgrade
<1>1. ASSUME Due(t, "upgrade_response") PROVE Leaves(t, OnUpgradeResponse(t, o))
  <2>1. ASSUME ~Quiescing(t) PROVE Leaves(t, StartClient(t, "upgrade_write"))
    BY <1>0, <1>1, <2>1, UpgradeGoesOn, UpgradeStarts
  <2> QED  BY <1>0, <1>1, <2>1, UpgradeGoesOn DEF OnUpgradeResponse, Closing
<1>2. ASSUME Due(t, "upgrade_write") PROVE Leaves(t, OnUpgradeWritten(t, o))
  <2> DEFINE u == [t EXCEPT !.sent = @ \cup {"upgrade"}]
  <2>1. ASSUME ~Quiescing(t)
        PROVE  /\ Leaves(t, StartBackend(u, "client_buffer_flush"))
               /\ Leaves(t, StartClient(u, "backend_buffer_flush"))
               /\ Leaves(t, StartTunnel(u))
    <3>1. /\ t \in Transaction /\ Sound(t) /\ Settled(t) /\ t.fault = "none"
          /\ t.backend_stream = "open" /\ t.acquire = "answered"
          /\ t.completed = "no" /\ t.deferred_finish = "none" /\ ~t.pooled
          /\ ~t.connecting /\ t.ops = {} /\ req.websocket /\ "response" \notin t.sent
      BY <1>0, <1>2, <2>1, UpgradeGoesOn
    <3>2. /\ u \in Transaction /\ SameProgress(t, u) /\ u.ops = t.ops
          /\ u.error_keep_alive = t.error_keep_alive /\ u.fault = t.fault
          /\ u.sent = t.sent \cup {"upgrade"}
          /\ u.backend_stream = t.backend_stream /\ u.permit = t.permit
          /\ u.backend_close_requested = t.backend_close_requested
          /\ u.acquire = t.acquire /\ u.connecting = t.connecting
          /\ u.deferred_finish = t.deferred_finish /\ u.cancelled = t.cancelled
          /\ u.client_cancel_requested = t.client_cancel_requested
          /\ u.completed = t.completed
      BY <3>1 DEF Transaction, SameProgress
    <3> HIDE DEF u
    <3>3. Shape(u.ops) /\ ~BackendPending(u)
      BY <3>1, <3>2 DEF Sound, BackendPending
    <3>4. Sound(u)
      BY <3>1, <3>2, <3>3 DEF Sound, SameProgress
    <3>5. Settled(u)
      BY <3>1, <3>2 DEF Settled, Quiescing, SameProgress
    <3>6. ~u.pooled
      BY <3>1, <3>2 DEF SameProgress
    <3>7. t.sent \subseteq u.sent /\ "response" \notin u.sent
      BY <3>1, <3>2
    <3>8. Leaves(t, StartTunnel(u))
      BY <2>1, <3>1, <3>2, <3>4, <3>5, <3>6, <3>7, StartTunnelLeaves
    <3>9. /\ Leaves(t, StartBackend(u, "client_buffer_flush"))
          /\ Leaves(t, StartClient(u, "backend_buffer_flush"))
      BY <1>0, <2>1, <3>1, <3>2, <3>4, <3>5, <3>6, <3>7, UpgradeStarts
    <3> QED  BY <3>8, <3>9
  <2> HIDE DEF u
  <2> QED  BY <1>0, <1>2, <2>1, UpgradeGoesOn DEF OnUpgradeWritten, u
<1>3. ASSUME NEW op \in Upgrade, Due(t, op), ~Quiescing(t)
      PROVE  Leaves(t, StartTunnel(t)) /\ Leaves(t, StartClient(t, "backend_buffer_flush"))
  <2>1. Leaves(t, StartTunnel(t))
    BY <1>3, UpgradeGoesOn, StartTunnelLeaves
  <2>2. Leaves(t, StartClient(t, "backend_buffer_flush"))
    BY <1>0, <1>3, UpgradeGoesOn, UpgradeStarts
  <2> QED  BY <2>1, <2>2
<1>4. ASSUME Due(t, "client_buffer_flush") PROVE Leaves(t, OnClientBufferFlushed(t, o))
  BY <1>0, <1>3, <1>4, UpgradeGoesOn DEF OnClientBufferFlushed, Closing
<1>5. ASSUME Due(t, "backend_buffer_flush") PROVE Leaves(t, OnBackendBufferFlushed(t, o))
  BY <1>0, <1>3, <1>5, UpgradeGoesOn DEF OnBackendBufferFlushed
<1> QED  BY <1>1, <1>2, <1>4, <1>5

\* The handlers of the tunnel.
LEMMA TunnelLeaves ==
  ASSUME NEW t, NEW o
  PROVE  /\ Due(t, "client_tunnel_read") => Leaves(t, OnClientTunnelRead(t, o))
         /\ Due(t, "backend_tunnel_write") => Leaves(t, OnBackendTunnelWritten(t, o))
         /\ Due(t, "backend_tunnel_read") => Leaves(t, OnBackendTunnelRead(t, o))
         /\ Due(t, "client_tunnel_write") => Leaves(t, OnClientTunnelWritten(t, o))
<1> DEFINE Up == {"client_tunnel_read", "backend_tunnel_write"}
           Down == {"backend_tunnel_read", "client_tunnel_write"}
<1>0. /\ "client_tunnel_read" \in ClientOps /\ "client_tunnel_write" \in ClientOps
      /\ "backend_tunnel_read" \in BackendOps /\ "backend_tunnel_write" \in BackendOps
      /\ "client_tunnel_read" \notin BackendOps /\ "client_tunnel_write" \notin BackendOps
      /\ Up \subseteq Tunnel /\ Down \subseteq Tunnel
      /\ \A op \in Tunnel : op # "error_write" /\ op \notin Opening /\ op \notin Upload
      /\ "error_write" \notin Tunnel
  BY DEF ClientOps, ClientReads, ClientWrites, BackendOps, BackendReads, BackendWrites,
         Tunnel, Opening, Upload
<1>1. ASSUME NEW op \in Tunnel, Due(t, op)
      PROVE  Leaves(t, FinishDeferred(t)) /\ Leaves(t, FailAfterHeader(t))
  BY <1>0, <1>1, ReturnsAtOnce, FailAfterHeaderLeaves
<1>2. ASSUME NEW op \in Tunnel, Due(t, op), ~Quiescing(t), NEW next \in Tunnel,
             (op \in Up /\ next \in Up) \/ (op \in Down /\ next \in Down)
      PROVE  /\ next \in ClientOps => Leaves(t, StartClient(t, next))
             /\ next \in BackendOps => Leaves(t, StartBackend(t, next))
  <2>1. t.ops \subseteq IF op \in Up THEN Down ELSE Up
    BY <1>2, Company
  <2>2. "error_write" \notin t.ops
    BY <2>1
  <2>3. /\ t \in Transaction /\ Sound(t) /\ Settled(t) /\ t.fault = "none"
        /\ t.backend_stream = "open" /\ t.deferred_finish = "none"
        /\ Awaits(t, op)
    BY <1>0, <1>2, <2>2, GoesOn DEF Due
  <2>4. Awaits(t, next)
    BY <1>0, <1>2, <2>3 DEF Awaits, Opening, Response, Upload, Upgrade, Tunnel
  <2>5. Shape(t.ops \cup {next})
    <3>1. Shape(t.ops)
      BY <2>3 DEF Sound
    <3> QED  BY <1>2, <2>1, <3>1, ShapeOfStart
  <2> QED  BY <1>0, <1>2, <2>3, <2>4, <2>5, StartLeaves
<1>3. ASSUME Due(t, "client_tunnel_read") PROVE Leaves(t, OnClientTunnelRead(t, o))
  <2>1. ~Quiescing(t) => Leaves(t, StartBackend(t, "backend_tunnel_write"))
    BY <1>0, <1>2, <1>3
  <2> QED  BY <1>0, <1>1, <1>3, <2>1 DEF OnClientTunnelRead
<1>4. ASSUME Due(t, "backend_tunnel_write") PROVE Leaves(t, OnBackendTunnelWritten(t, o))
  <2>1. ~Quiescing(t) => Leaves(t, StartClient(t, "client_tunnel_read"))
    BY <1>0, <1>2, <1>4
  <2> QED  BY <1>0, <1>1, <1>4, <2>1 DEF OnBackendTunnelWritten, Closing, ReadFromClient
<1>5. ASSUME Due(t, "backend_tunnel_read") PROVE Leaves(t, OnBackendTunnelRead(t, o))
  <2>1. ~Quiescing(t) => Leaves(t, StartClient(t, "client_tunnel_write"))
    BY <1>0, <1>2, <1>5
  <2> QED  BY <1>0, <1>1, <1>5, <2>1 DEF OnBackendTunnelRead, Closing
<1>6. ASSUME Due(t, "client_tunnel_write") PROVE Leaves(t, OnClientTunnelWritten(t, o))
  <2>1. ~Quiescing(t) => Leaves(t, StartBackend(t, "backend_tunnel_read"))
    BY <1>0, <1>2, <1>6
  <2> QED  BY <1>0, <1>1, <1>6, <2>1 DEF OnClientTunnelWritten, ReadFromBackend
<1> QED  BY <1>3, <1>4, <1>5, <1>6

\* The error response has been written.
LEMMA ErrorWrittenLeaves ==
  ASSUME NEW t, NEW o, Due(t, "error_write")
  PROVE  Leaves(t, OnErrorWritten(t, o))
<1> DEFINE keep == IF o = "ok" /\ t.error_keep_alive THEN "keep" ELSE "close"
<1>1. CASE Quiescing(t)
  BY <1>1, ReturnsAtOnce DEF OnErrorWritten
<1>2. CASE ~Quiescing(t)
  <2>1. /\ Sound(t) /\ Awaits(t, "error_write") /\ t.fault = "none"
        /\ ~t.client_cancel_requested /\ ~t.cancelled
        /\ t.completed = "no" /\ t.backend_stream # "open" /\ ~t.pooled /\ ~t.connecting
    BY <1>2 DEF Due, Awaits, Opening
  <2>2. keep \in {"close", "keep"}
    OBVIOUS
  <2>3. t.ops \subseteq {"response_header"} \cup Opening \cup Upload
    BY Company
  <2>4. t.error_keep_alive => Reusable(t) /\ ~ClientPending(t)
    <3>1. t.error_keep_alive => t.parser_done /\ t.client_keep_alive
      BY <2>1 DEF Awaits
    <3>2. t.client_keep_alive => req.client_keep_alive /\ ~t.early_backend_response
      BY <2>1 DEF Sound
    <3>3. t.parser_done => "request_body_read" \notin t.ops
      BY <2>1 DEF Sound, Awaits
    <3>4. t.parser_done => ~ClientPending(t)
      BY <2>3, <3>3 DEF ClientPending, ClientOps, ClientReads, ClientWrites, Opening, Upload
    <3> QED  BY <2>1, <3>1, <3>2, <3>4 DEF Reusable
  <2> QED  BY <1>2, <2>1, <2>2, <2>3, <2>4, FinishWhenQuiescedSettles
              DEF OnErrorWritten, Leaves, SameExchange
<1> QED  BY <1>1, <1>2

-----------------------------------------------------------------------------
(* The specification                                                       *)

\* Every handler leaves a sound and settled transaction behind.
LEMMA HandleLeaves ==
  ASSUME NEW t, NEW o, NEW op \in BackendOps \cup ClientOps, Due(t, op)
  PROVE  Leaves(t, Handle(op, t, o))
<1>1. CASE op \in {"connect", "tls_handshake", "request_header", "continue_write"}
  BY <1>1, OpeningLeaves, RequestHeaderLeaves, ContinueLeaves DEF Handle, Opening
<1>2. CASE op \in Upload
  BY <1>2, BodyReadLeaves, UploadWrittenLeaves DEF Handle, Upload
<1>3. CASE op \in {"response_header"} \cup Response
  BY <1>3, ResponseHeaderLeaves, ResponseLeaves DEF Handle, Response
<1>4. CASE op \in Upgrade
  BY <1>4, UpgradeLeaves DEF Handle, Upgrade
<1>5. CASE op \in Tunnel
  BY <1>5, TunnelLeaves DEF Handle, Tunnel
<1>6. CASE op = "error_write"
  BY <1>6, ErrorWrittenLeaves DEF Handle
<1> QED  BY <1>1, <1>2, <1>3, <1>4, <1>5, <1>6
            DEF BackendOps, BackendReads, BackendWrites, ClientOps, ClientReads, ClientWrites,
                Upload, Response, Upgrade, Tunnel

\* u, after a step from t: sound and settled, with nothing started that must not be.
Follows(t, u) ==
  /\ Sound(u) /\ Settled(u)
  /\ Quiescing(t) => u.ops \subseteq t.ops /\ u.fault = t.fault
  /\ t.stop_request_upload => (u.ops \ t.ops) \cap Upload = {}

\* A handler returns or throws.
LEMMA RunFollows ==
  ASSUME NEW t, NEW r, Sound(t), Leaves(t, r), Run(t, r)
  PROVE  Follows(t, tx') /\ req' = req
<1>1. CASE tx' = r
  BY <1>1 DEF Run, Leaves, Follows
<1>2. CASE tx' \in Thrown(t, r)
  <2>1. /\ Sound(tx') /\ Settled(tx')
        /\ tx'.ops \subseteq r.ops /\ ~(r.ops \subseteq t.ops)
    BY <1>2, ThrownSettles
  <2>2. ~Quiescing(t)
    BY <2>1 DEF Leaves
  <2>3. t.stop_request_upload => (r.ops \ t.ops) \cap Upload = {}
    BY DEF Leaves
  <2> QED  BY <2>1, <2>2, <2>3 DEF Follows, Run
<1> QED  BY <1>1, <1>2 DEF Run

\* Every step.
LEMMA NextFollows ==
  ASSUME IInv, Next
  PROVE  Follows(tx, tx') /\ req' = req
<1>0. Sound(tx) /\ Settled(tx) /\ tx \in Transaction
  BY DEF IInv, Sound
<1>1. CASE Start
  <2>1. tx.acquire = "idle" /\ tx.completed = "no" /\ req' = req
        /\ (tx' = [tx EXCEPT !.acquire = "waiting"] \/ tx' = Abort(tx))
    BY <1>1 DEF Start
  <2>2. ~Quiescing(tx) /\ ~tx.pooled /\ Unanswered(tx) /\ tx.deferred_finish = "none"
    BY <1>0, <2>1 DEF Settled, Quiescing, Sound
  <2>3. CASE tx' = Abort(tx)
    BY <1>0, <2>1, <2>2, <2>3, AbortSettles DEF Follows
  <2>4. CASE tx' = [tx EXCEPT !.acquire = "waiting"]
    <3>1. /\ tx' \in Transaction /\ SameExchange(tx, tx') /\ tx'.ops = tx.ops
          /\ tx'.acquire = "waiting" /\ tx'.permit = tx.permit
          /\ tx'.backend_stream = tx.backend_stream /\ tx'.connecting = tx.connecting
          /\ tx'.backend_close_requested = tx.backend_close_requested
          /\ tx'.deferred_finish = tx.deferred_finish /\ tx'.completed = tx.completed
          /\ tx'.client_cancel_requested = tx.client_cancel_requested
          /\ tx'.cancelled = tx.cancelled
      BY <1>0, <2>4 DEF Transaction, SameExchange, SameProgress
    <3> DEFINE u == tx'
    <3> HIDE DEF u
    <3>2. Unanswered(u)
      BY <2>2, <3>1 DEF u, Unanswered, Unsent, SameExchange, SameProgress
    <3>3. Shape(u.ops) /\ ~BackendPending(u) /\ u.ops = {}
      BY <3>2 DEF Unanswered, Shape, BackendPending
    <3>4. Sound(u)
      BY <1>0, <2>1, <2>2, <3>1, <3>2, <3>3 DEF u, Sound, SameExchange, SameProgress
    <3>5. Settled(u)
      BY <1>0, <2>1, <2>2, <3>1 DEF u, Settled, Quiescing, SameExchange, SameProgress
    <3> QED  BY <2>1, <2>2, <3>1, <3>4, <3>5 DEF u, Follows
  <2> QED  BY <2>1, <2>3, <2>4
<1>2. CASE PermitArrives
  BY <1>0, <1>2, PermitLeaves, RunFollows DEF PermitArrives
<1>3. CASE ConnectTimeout
  BY <1>0, <1>3, TimeoutLeaves, RunFollows DEF ConnectTimeout
<1>4. CASE Resolved
  BY <1>0, <1>4, ResolvedLeaves, RunFollows DEF Resolved
<1>5. ASSUME NEW op \in BackendOps \cup ClientOps, Completes(op)
      PROVE  Follows(tx, tx') /\ req' = req
  <2> DEFINE t == FinishOperation(tx, op)
  <2>1. PICK o \in Outcomes(op) : Run(t, Handle(op, t, o))
    BY <1>5 DEF Completes
  <2>2. Alive /\ op \in tx.ops
    BY <1>5 DEF Completes
  <2>3. Due(t, op) /\ SameRest(tx, t) /\ t.ops = tx.ops \ {op}
    BY <2>2, HandlerIsDue
  <2> HIDE DEF t
  <2>4. Sound(t) /\ Leaves(t, Handle(op, t, o))
    BY <2>3, HandleLeaves DEF Due
  <2>5. Follows(t, tx') /\ req' = req
    BY <2>1, <2>4, RunFollows
  <2>6. /\ Quiescing(tx) = Quiescing(t) /\ t.fault = tx.fault
        /\ t.stop_request_upload = tx.stop_request_upload
    BY <2>3 DEF SameRest, SameExchange, SameProgress, Quiescing
  <2> QED  BY <2>3, <2>5, <2>6 DEF Follows
<1>6. CASE Cancel
  <2> DEFINE b == [CancelAcquire(tx) EXCEPT !.connecting = FALSE]
             t == [b EXCEPT !.cancelled = TRUE]
             c == CloseBackend(b)
             e == CloseBackend(t)
             q == e.client_cancel_requested \/ ClientPending(e)
             d == [e EXCEPT !.deferred_finish = "close", !.client_cancel_requested = q]
  <2>1. tx' = FinishWhenQuiesced(e, "close") /\ tx.completed = "no" /\ req' = req
    BY <1>6 DEF Cancel
  <2>2. /\ Sound(b) /\ SameExchange(tx, b) /\ b.ops = tx.ops /\ b.connecting = FALSE
        /\ b.completed = "no" /\ b \in Transaction
    BY <1>0, <2>1, StopWaiting DEF Sound
  <2> HIDE DEF b
  <2>3. Sound(c) /\ SameRest(b, c) /\ c.ops = b.ops /\ c.backend_stream # "open"
    BY <2>2, CloseBackendSound
  <2>4. /\ t \in Transaction /\ SameExchange(b, t) /\ t.ops = b.ops
        /\ t.backend_stream = b.backend_stream /\ t.permit = b.permit
        /\ t.backend_close_requested = b.backend_close_requested
        /\ t.acquire = b.acquire /\ t.connecting = b.connecting
        /\ t.completed = b.completed
    BY <2>2 DEF Transaction, SameExchange, SameProgress
  <2> HIDE DEF t
  <2>5. BackendPending(t) <=> BackendPending(b)
    BY <2>4 DEF BackendPending
  <2>6. /\ e \in Transaction /\ SameRest(t, e) /\ e.ops = t.ops
        /\ e.backend_stream = c.backend_stream
        /\ e.backend_close_requested = c.backend_close_requested
    BY <2>2, <2>4, <2>5, CloseBackendFrame
  <2>7. /\ SameExchange(c, e) /\ e.permit = c.permit /\ e.acquire = c.acquire
        /\ e.connecting = FALSE /\ c.connecting = FALSE
        /\ e.completed = "no" /\ c.completed = "no"
    BY <2>2, <2>3, <2>4, <2>6 DEF SameRest, SameExchange, SameProgress
  <2>8. tx' = FinishDeferred(d)
    BY <2>1, <2>7 DEF FinishWhenQuiesced
  <2> HIDE DEF c, e
  <2>9. /\ d \in Transaction /\ SameExchange(e, d) /\ d.ops = e.ops
        /\ d.backend_stream = e.backend_stream /\ d.permit = e.permit
        /\ d.backend_close_requested = e.backend_close_requested
        /\ d.acquire = e.acquire /\ d.connecting = e.connecting
        /\ d.completed = e.completed /\ d.deferred_finish = "close"
    <3>1. q \in BOOLEAN
      OBVIOUS
    <3> HIDE DEF q
    <3> QED  BY ZenonT(60), <2>6, <3>1 DEF Transaction, SameExchange, SameProgress
  <2> HIDE DEF d
  <2>10. SameExchange(c, d)
    BY <2>7, <2>9 DEF SameExchange, SameProgress
  <2>11. ~c.pooled
    BY <1>0, <2>1, <2>2, <2>3 DEF Settled, SameRest, SameExchange, SameProgress
  <2>12. LET u == FinishDeferred(d)
         IN  Sound(u) /\ Settled(u) /\ SameExchange(c, u) /\ u.ops = c.ops
    <3>1. /\ d.ops = c.ops /\ d.connecting = FALSE /\ d.backend_stream = c.backend_stream
          /\ d.permit = c.permit /\ d.acquire = c.acquire /\ d.completed = c.completed
          /\ d.backend_close_requested = c.backend_close_requested
      BY <2>3, <2>4, <2>6, <2>7, <2>9
    <3> QED  BY <2>3, <2>7, <2>9, <2>10, <2>11, <3>1, CloseWhenQuiet
  <2>13. c.fault = tx.fault
    BY <2>2, <2>3 DEF SameRest, SameExchange
  <2> QED  BY <2>1, <2>2, <2>3, <2>8, <2>12, <2>13 DEF Follows, SameExchange
<1> QED  BY <1>1, <1>2, <1>3, <1>4, <1>5, <1>6 DEF Next

\* A transaction that has only been constructed.
LEMMA InitSound == Init => IInv
<1> SUFFICES ASSUME Init PROVE IInv
  OBVIOUS
<1> DEFINE d == req.body = "none"
           k == req.client_keep_alive
<1>1. req \in Profiles /\ req \in Profile /\ d \in BOOLEAN /\ k \in BOOLEAN
  BY ProfilesType DEF Init, Profile
<1>2. tx = [Idle EXCEPT !.parser_done = d, !.client_keep_alive = k]
  BY DEF Init
<1> HIDE DEF d
<1>3. tx \in Transaction
  BY ZenonT(60), <1>1, <1>2 DEF Idle, Transaction
<1>4. /\ tx.ops = {} /\ tx.sent = {} /\ tx.delivered = 0 /\ tx.parser_done = d
      /\ tx.client_keep_alive = k /\ tx.acquire = "idle" /\ tx.backend_stream = "none"
      /\ tx.deferred_finish = "none" /\ tx.completed = "no" /\ tx.fault = "none"
  BY <1>2 DEF Idle
<1>5. /\ ~tx.permit /\ ~tx.connecting /\ ~tx.resolving /\ ~tx.backend_from_pool
      /\ ~tx.backend_close_requested /\ ~tx.response_header_started
      /\ ~tx.request_upload_complete /\ ~tx.stop_request_upload
      /\ ~tx.early_backend_response /\ ~tx.pooled
      /\ ~tx.client_cancel_requested /\ ~tx.cancelled
  BY <1>2 DEF Idle
<1>6. Unanswered(tx) /\ Shape(tx.ops) /\ ~BackendPending(tx)
  BY <1>4, <1>5 DEF Unanswered, Unsent, Shape, BackendPending
<1>7. (req.body = "none" => tx.parser_done) /\ (tx.client_keep_alive => req.client_keep_alive)
      /\ tx.delivered <= 1
  <2>1. req.body = "none" => d = TRUE
    BY DEF d
  <2>2. tx.client_keep_alive => req.client_keep_alive
    BY <1>4
  <2> QED  BY <1>4, <2>1, <2>2
<1>8. Sound(tx)
  BY <1>3, <1>4, <1>5, <1>6, <1>7 DEF Sound
<1>9. Settled(tx)
  BY <1>4, <1>5 DEF Settled, Quiescing
<1> QED  BY <1>1, <1>8, <1>9 DEF IInv

\* IInv is inductive.
LEMMA NextSound == IInv /\ [Next]_vars => IInv'
<1> SUFFICES ASSUME IInv, [Next]_vars PROVE IInv'
  OBVIOUS
<1>1. CASE Next
  <2>1. Sound(tx') /\ Settled(tx') /\ req' = req
    BY <1>1, NextFollows DEF Follows
  <2>2. Sound(tx)' /\ Settled(tx)'
    BY <2>1 DEF Sound, Settled, Shape, Awaits, Unsent, Unanswered, Reusable, BackendPending,
                Quiescing
  <2> QED  BY <2>1, <2>2 DEF IInv
<1>2. CASE UNCHANGED vars
  BY <1>2 DEF vars, IInv, Sound, Settled, Shape, Awaits, Unsent, Unanswered, Reusable,
              BackendPending, Quiescing
<1> QED  BY <1>1, <1>2

\* The invariant the theorems below are read off from.
THEOREM IInvHolds == Spec => []IInv
BY InitSound, NextSound, PTL DEF Spec

\* Every variable keeps its type.
THEOREM TypeCorrect == Spec => []TypeOK
<1>1. IInv => TypeOK
  BY DEF IInv, Sound, TypeOK
<1> QED  BY <1>1, IInvHolds, PTL

\* When the completion is called, no callback is outstanding, the backend's connection
\* and the permit are gone; until then whatever uses the backend has the permit.
THEOREM CompletionQuiescesHolds == Spec => []CompletionQuiesces
<1>1. IInv => CompletionQuiesces
  BY DEF IInv, Sound, CompletionQuiesces
<1> QED  BY <1>1, IInvHolds, PTL

\* No connection, the client's or the backend's, is used again in the middle of an
\* exchange.
THEOREM ReuseSafeHolds == Spec => []ReuseSafe
<1>1. IInv => ReuseSafe
  <2> SUFFICES ASSUME IInv PROVE ReuseSafe
    OBVIOUS
  <2>1. tx.pooled => tx.completed # "no" /\ tx.ops = {}
    BY DEF IInv, Sound, Settled
  <2>2. tx.pooled => ~BackendPending(tx)
    BY <2>1 DEF BackendPending
  <2> QED  BY <2>2 DEF IInv, Sound, ReuseSafe, Reusable
<1> QED  BY <1>1, IInvHolds, PTL

\* A set of which any two members are equal has at most one.
LEMMA AtMostOne ==
  ASSUME NEW S, \A a, b \in S : a = b
  PROVE  Cardinality(S) <= 1
<1>1. CASE S = {}
  BY <1>1, FS_EmptySet
<1>2. CASE S # {}
  <2>1. PICK a \in S : TRUE
    BY <1>2
  <2>2. S = {a}
    BY <2>1
  <2> QED  BY <2>2, FS_Singleton
<1> QED  BY <1>1, <1>2

\* A request reaches at most one backend connection, and one that is not an Upgrade is
\* answered at most once.
THEOREM OnceEachWayHolds == Spec => []OnceEachWay
<1>1. IInv => OnceEachWay
  <2> SUFFICES ASSUME IInv PROVE OnceEachWay
    OBVIOUS
  <2>1. tx.delivered <= 1 /\ tx.sent \subseteq {"response", "upgrade", "error"}
    BY DEF IInv, Sound, Transaction
  <2>2. ASSUME ~req.websocket PROVE Cardinality(tx.sent) <= 1
    <3>1. "upgrade" \notin tx.sent /\ ~("response" \in tx.sent /\ "error" \in tx.sent)
      BY <2>2 DEF IInv, Sound
    <3>2. \A a, b \in tx.sent : a = b
      BY <2>1, <3>1
    <3> QED  BY <3>2, AtMostOne
  <2> QED  BY <2>1, <2>2 DEF OnceEachWay
<1> QED  BY <1>1, IInvHolds, PTL

\* Streams and buffers have one user, and undefined behaviour is confined to a backend
\* that fails under an unfinished upload.
THEOREM SafeUseHolds == Spec => []SafeUse
<1>1. IInv => SafeUse
  <2> SUFFICES ASSUME IInv PROVE SafeUse
    OBVIOUS
  <2>1. Shape(tx.ops) /\ \A op \in tx.ops : Awaits(tx, op)
    BY DEF IInv, Sound
  <2>2. Cardinality(tx.ops \cap BackendReads) <= 1
    <3>1. \A a \in BackendReads : a \in Main \/ a = "backend_tunnel_read"
      BY DEF BackendReads, Main, Response, Upgrade
    <3>2. "backend_tunnel_read" \in Tunnel /\ \A a \in Main : a \notin Tunnel
      BY DEF Main, Opening, Response, Upgrade, Tunnel
    <3>3. \A a, b \in tx.ops \cap BackendReads : a = b
      BY <2>1, <3>1, <3>2 DEF Shape
    <3> QED  BY <3>3, AtMostOne
  <2>3. Cardinality(tx.ops \cap BackendWrites) <= 1
    <3>1. \A a \in BackendWrites :
            a \in {"request_header", "client_buffer_flush"} \/ a \in Upload
            \/ a = "backend_tunnel_write"
      BY DEF BackendWrites, Upload
    <3>2. /\ "backend_tunnel_write" \in Tunnel
          /\ \A a \in {"request_header", "client_buffer_flush"} :
               /\ a \in Main /\ a \notin Tunnel /\ a \notin Upload
               /\ a \notin {"error_write", "response_header"} \cup Response
          /\ \A a \in Upload : a \notin Tunnel
      BY DEF Main, Response, Upgrade, Upload, Tunnel
    <3>3. \A a, b \in tx.ops \cap BackendWrites : a = b
      BY <2>1, <3>1, <3>2 DEF Shape
    <3> QED  BY <3>3, AtMostOne
  <2>4. Cardinality(tx.ops \cap ClientReads) <= 1
    <3>1. \A a \in ClientReads : a = "client_tunnel_read" \/ a \in Upload
      BY DEF ClientReads, Upload
    <3>2. "client_tunnel_read" \in Tunnel /\ \A a \in Upload : a \notin Tunnel
      BY DEF Upload, Tunnel
    <3>3. \A a, b \in tx.ops \cap ClientReads : a = b
      BY <2>1, <3>1, <3>2 DEF Shape
    <3> QED  BY <3>3, AtMostOne
  <2>5. Cardinality(tx.ops \cap ClientWrites) <= 1
    <3>1. \A a \in ClientWrites :
            a \in {"error_write", "client_tunnel_write"} \/ (a \in Main /\ a \notin Opening)
      BY DEF ClientWrites, Main, Opening, Response, Upgrade
    <3>2. /\ "client_tunnel_write" \in Tunnel /\ "error_write" \notin Tunnel
          /\ "response_header" \notin ClientWrites
          /\ \A a \in Main : a \notin Tunnel /\ a \notin Upload
      BY DEF Main, Opening, Response, Upgrade, Upload, Tunnel, ClientWrites
    <3>3. \A a, b \in tx.ops \cap ClientWrites : a = b
      BY <2>1, <3>1, <3>2 DEF Shape
    <3> QED  BY <3>3, AtMostOne
  <2>6. ASSUME "response_body_read" \in tx.ops, ~tx.response_transfer_buffer
        PROVE  tx.ops \cap {"request_body_read", "request_body_write"} = {}
    <3>1. tx.request_upload_complete
      BY <2>1, <2>6 DEF Awaits, Response
    <3>2. \A op \in tx.ops : op \notin Upload
      BY <2>1, <3>1 DEF Awaits
    <3> QED  BY <3>2 DEF Upload
  <2>7. ~Alive => req.body # "none" /\ "error" \in tx.sent /\ ~tx.request_upload_complete
    BY DEF IInv, Sound, Alive
  <2> QED  BY <2>2, <2>3, <2>4, <2>5, <2>6, <2>7 DEF SafeUse
<1> QED  BY <1>1, IInvHolds, PTL

\* Nothing is started while the operations in flight are waited for or after the
\* completion, and an early response ends the upload for good.
THEOREM StartsNothingMoreHolds == Spec => StartsNothingMore
<1> DEFINE A == /\ Quiescing(tx) => tx'.ops \subseteq tx.ops /\ tx'.fault = tx.fault
                /\ tx.stop_request_upload =>
                     (tx'.ops \ tx.ops) \cap {"request_body_read", "request_body_write",
                                              "request_last_chunk"} = {}
<1>1. IInv /\ [Next]_vars => [A]_vars
  BY NextFollows DEF Follows, Upload
<1> QED  BY <1>1, IInvHolds, PTL DEF Spec, StartsNothingMore

=============================================================================
