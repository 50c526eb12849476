---------------------------- MODULE SessionProofs ----------------------------
(***************************************************************************)
(* Proofs about Session.  The members are one record and a handler is a    *)
(* function on it, so the lemmas follow the code: first what each member   *)
(* function leaves behind, then each handler, then the specification.  The *)
(* invariant has two parts because a handler may throw anywhere: Sound     *)
(* holds between any two statements, Settled only where a handler returns  *)
(* or has been aborted.                                                    *)
(***************************************************************************)
EXTENDS Session, FiniteSetTheorems, TLAPS

\* What holds of the members between any two statements of a handler, so also where
\* an exception leaves it.
Sound(y) ==
  /\ y \in SessionState
  /\ y.handshake_complete \/ y.closing => tls
  /\ "handshake" \in y.ops \/ "shutdown" \in y.ops => tls
  /\ \A a, b \in y.ops : a = b
  /\ y.transaction # "none" => y.ops = {}
  /\ y.transaction # "none" \/ "read" \in y.ops => y.parser
  /\ y.closed <=> ~y.on_close
  /\ y.closed => ~y.request_id /\ ~y.socket_open

\* What a handler has restored when it returns: something is under way until the
\* session is closed, and while it is closing that is the TLS shutdown.
Settled(y) ==
  /\ ~y.closed => y.ops # {} \/ y.transaction # "none"
  /\ y.closing /\ ~y.closed => "shutdown" \in y.ops
  /\ y.request_id => y.dispatcher \/ y.response \/ y.closing

\* The inductive invariant.
IInv ==
  /\ tls \in BOOLEAN /\ stopping \in BOOLEAN
  /\ stop \in {"no", "posted", "run"}
  /\ Sound(x) /\ Settled(x)

\* The stream is the handler's own: its operation has ended and nothing else runs.
Free(y) == y.ops = {} /\ y.transaction = "none" /\ (y.closing => y.closed)

\* The session waits for its handshake or its next request: state = "idle".
Idle(y) == ~y.closed /\ ~y.response /\ y.transaction = "none" /\ ~y.closing

\* z is a state a handler may leave behind.
Leaves(z) ==
  /\ Sound(z) /\ Settled(z)
  /\ x.closed => z.closed
  /\ Idle(z) => Idle(x) \/ ~stopping

-----------------------------------------------------------------------------
(* The members' functions                                                  *)

\* A session that closes its socket, runs its close handler and drops its request, and
\* leaves its operations, its parser and the transaction's reference to it alone, is in
\* a state a handler may leave.
LEMMA ReleasingSettles ==
  ASSUME NEW y, NEW z \in SessionState, Sound(y),
         z.closed, ~z.on_close, ~z.request_id, ~z.socket_open,
         z.closing => tls, z.handshake_complete = y.handshake_complete,
         z.ops = y.ops, z.parser = y.parser,
         z.transaction = "none" <=> y.transaction = "none"
  PROVE  Sound(z) /\ Settled(z)
BY DEF Sound, Settled, SessionState

\* cancel() of the transaction changes nothing else, and the transaction stays until
\* its completion.
LEMMA CancelKeepsTheRest ==
  ASSUME NEW y \in SessionState
  PROVE  LET z == CancelTransaction(y)
         IN  /\ z \in SessionState
             /\ z.closing = y.closing /\ z.handshake_complete = y.handshake_complete
             /\ z.ops = y.ops /\ z.parser = y.parser /\ z.response = y.response
             /\ z.closed = y.closed /\ z.on_close = y.on_close
             /\ z.request_id = y.request_id /\ z.socket_open = y.socket_open
             /\ z.dispatcher = y.dispatcher
             /\ z.transaction = "none" <=> y.transaction = "none"
BY DEF CancelTransaction, SessionState

\* What abort_noexcept releases and what it leaves alone.
LEMMA HttpAbortReleases ==
  ASSUME NEW y, Sound(y)
  PROVE  LET z == HttpAbort(y)
         IN  /\ z \in SessionState
             /\ z.closed /\ ~z.on_close /\ ~z.request_id /\ ~z.socket_open
             /\ z.closing = y.closing /\ z.handshake_complete = y.handshake_complete
             /\ z.ops = y.ops /\ z.parser = y.parser
             /\ z.transaction = "none" <=> y.transaction = "none"
<1> DEFINE c == CancelTransaction(y)
<1>1. /\ c \in SessionState
      /\ c.closing = y.closing /\ c.handshake_complete = y.handshake_complete
      /\ c.ops = y.ops /\ c.parser = y.parser
      /\ c.transaction = "none" <=> y.transaction = "none"
  BY CancelKeepsTheRest DEF Sound
<1> HIDE DEF c
<1>2. HttpAbort(y) = [c EXCEPT !.closed = TRUE, !.request_id = FALSE, !.dispatcher = FALSE,
                               !.proxy_operation = FALSE, !.socket_open = FALSE,
                               !.on_close = FALSE]
  BY DEF HttpAbort, c
<1> QED  BY <1>1, <1>2 DEF SessionState

\* Wherever a handler throws, abort_noexcept leaves a closed session in order.
LEMMA AbortSettles ==
  ASSUME NEW y, tls \in BOOLEAN, Sound(y)
  PROVE  Sound(Abort(y)) /\ Settled(Abort(y)) /\ Abort(y).closed
<1> DEFINE h == HttpAbort(y)
           t == [h EXCEPT !.closing = TRUE]
<1> HIDE DEF h
<1>1. /\ h \in SessionState
      /\ h.closed /\ ~h.on_close /\ ~h.request_id /\ ~h.socket_open
      /\ h.closing = y.closing /\ h.handshake_complete = y.handshake_complete
      /\ h.ops = y.ops /\ h.parser = y.parser
      /\ h.transaction = "none" <=> y.transaction = "none"
  BY HttpAbortReleases DEF h
<1>2. Sound(h) /\ Settled(h)
  BY <1>1, ReleasingSettles DEF Sound
<1>3. ASSUME tls PROVE Sound(t) /\ Settled(t) /\ t.closed
  <2>1. /\ t \in SessionState
        /\ t.closed /\ ~t.on_close /\ ~t.request_id /\ ~t.socket_open
        /\ t.closing /\ t.handshake_complete = h.handshake_complete
        /\ t.ops = h.ops /\ t.parser = h.parser
        /\ t.transaction = "none" <=> h.transaction = "none"
    BY <1>1 DEF SessionState
  <2> QED  BY <1>2, <1>3, <2>1, ReleasingSettles
<1> QED  BY <1>1, <1>2, <1>3 DEF Abort, TlsAbort, h

\* HttpSession::close() leaves a closed session in order.
LEMMA HttpCloseSettles ==
  ASSUME NEW y, Sound(y)
  PROVE  Sound(HttpClose(y)) /\ Settled(HttpClose(y)) /\ HttpClose(y).closed
<1>1. CASE y.closed
  BY <1>1 DEF HttpClose, Sound, Settled
<1>2. CASE ~y.closed
  <2> DEFINE z == HttpClose(y)
  <2>0. z = HttpAbort(y)
    BY <1>2 DEF HttpClose, HttpAbort
  <2>1. /\ z \in SessionState
        /\ z.closed /\ ~z.on_close /\ ~z.request_id /\ ~z.socket_open
        /\ z.closing = y.closing /\ z.handshake_complete = y.handshake_complete
        /\ z.ops = y.ops /\ z.parser = y.parser
        /\ z.transaction = "none" <=> y.transaction = "none"
    BY <2>0, HttpAbortReleases
  <2> HIDE DEF z
  <2>2. z.closing => tls
    BY <2>1 DEF Sound
  <2>3. Sound(z) /\ Settled(z)
    BY <2>1, <2>2, ReleasingSettles
  <2> QED  BY <2>1, <2>3 DEF z
<1> QED  BY <1>1, <1>2

\* TlsHttpSession::close_socket() leaves a closed session in order.
LEMMA CloseSocketSettles ==
  ASSUME NEW y, Sound(y), tls
  PROVE  Sound(CloseSocket(y)) /\ Settled(CloseSocket(y)) /\ CloseSocket(y).closed
<1>1. CASE y.closed
  BY <1>1 DEF CloseSocket, Sound, Settled
<1>2. CASE ~y.closed
  <2> DEFINE z == CloseSocket(y)
  <2>1. /\ z \in SessionState
        /\ z.closed /\ ~z.on_close /\ ~z.request_id /\ ~z.socket_open
        /\ z.handshake_complete = y.handshake_complete
        /\ z.ops = y.ops /\ z.parser = y.parser
        /\ z.transaction = "none" <=> y.transaction = "none"
    BY <1>2 DEF Sound, CloseSocket, SessionState
  <2> HIDE DEF z
  <2>2. Sound(z) /\ Settled(z)
    BY <2>1, ReleasingSettles
  <2> QED  BY <2>1, <2>2 DEF z
<1> QED  BY <1>1, <1>2

\* TlsHttpSession::close(), called with the stream free, closes or is in its TLS
\* shutdown: the session is not idle afterwards.
LEMMA TlsCloseSettles ==
  ASSUME NEW y, Sound(y), Free(y), tls
  PROVE  /\ Sound(TlsClose(y)) /\ Settled(TlsClose(y)) 
         /\ ~Idle(TlsClose(y))
         /\ y.closed => TlsClose(y).closed
<1> DEFINE z == [CancelTransaction(y) EXCEPT !.closing = TRUE, !.dispatcher = FALSE,
                                             !.proxy_operation = FALSE]
           w == [z EXCEPT !.ops = @ \cup {"shutdown"}]
<1>1. CASE y.closed
  BY <1>1 DEF TlsClose, Sound, Settled, Idle
<1>2. CASE ~y.closed
  <2>1. /\ z \in SessionState
        /\ z.closing /\ z.closed = FALSE /\ z.on_close = y.on_close 
        /\ z.transaction = "none" /\ z.ops = {}
    BY <1>2 DEF Sound, Free, CancelTransaction, SessionState
  <2> HIDE DEF z
  <2>2. Sound(z)
    BY <1>2, <2>1 DEF Sound
  <2>3. /\ w \in SessionState
        /\ w.closing /\ w.closed = FALSE /\ w.on_close = y.on_close 
        /\ w.transaction = "none" /\ w.ops = {"shutdown"}
    BY <2>1 DEF SessionState
  <2> HIDE DEF w
  <2>4. Sound(w) /\ Settled(w) /\ ~Idle(w)
    BY <1>2, <2>3 DEF Sound, Settled, Idle
  <2>5. y.closing = FALSE
    BY <1>2 DEF Free, Sound, SessionState
  <2>6. Sound(CloseSocket(z)) /\ Settled(CloseSocket(z)) /\ ~Idle(CloseSocket(z))
    BY <2>2, CloseSocketSettles DEF Idle
  <2> QED  BY <1>2, <2>4, <2>5, <2>6 DEF TlsClose, z, w
<1> QED  BY <1>1, <1>2

\* close() of either class, called with the stream free.
LEMMA CloseSettles ==
  ASSUME NEW y, tls \in BOOLEAN, Sound(y), Free(y)
  PROVE  /\ Sound(Close(y)) /\ Settled(Close(y))
         /\ ~Idle(Close(y))
         /\ y.closed => Close(y).closed
BY HttpCloseSettles, TlsCloseSettles DEF Close, Idle

\* read_request(), called with the stream free: the read is the one operation, with a
\* parser of its own.
LEMMA ReadRequestSettles ==
  ASSUME NEW y, Sound(y), Free(y)
  PROVE  LET z == ReadRequest(y)
         IN  /\ Sound(z) /\ Settled(z)
             /\ z.closed = y.closed /\ z.response = y.response
             /\ z.transaction = y.transaction /\ z.closing = y.closing
<1> DEFINE z == ReadRequest(y)
<1>1. /\ z \in SessionState
      /\ z.request_id = FALSE /\ z.parser = TRUE /\ z.ops = {"read"}
      /\ z.closed = y.closed /\ z.response = y.response
      /\ z.transaction = "none" /\ z.closing = y.closing
      /\ z.handshake_complete = y.handshake_complete
      /\ z.on_close = y.on_close /\ z.socket_open = y.socket_open
  BY DEF Sound, Free, ReadRequest, SessionState
<1> HIDE DEF z
<1>2. Sound(z)
  BY <1>1 DEF Sound
<1>3. Settled(z)
  BY <1>1 DEF Settled, Free
<1> QED  BY <1>1, <1>2, <1>3 DEF z, Free

\* write_response(), called with the stream free: the write is the one operation.
LEMMA WriteResponseSettles ==
  ASSUME NEW y, NEW keep \in BOOLEAN, Sound(y), Free(y)
  PROVE  LET z == WriteResponse(y, keep)
         IN  /\ Sound(z) /\ Settled(z) /\ ~Idle(z)
             /\ z.closed = y.closed
<1> DEFINE z == WriteResponse(y, keep)
<1>1. /\ z \in SessionState
      /\ z.request_id = y.request_id /\ z.parser = y.parser /\ z.ops = {"write"}
      /\ z.closed = y.closed /\ z.response = TRUE
      /\ z.transaction = "none" /\ z.closing = y.closing
      /\ z.handshake_complete = y.handshake_complete
      /\ z.on_close = y.on_close /\ z.socket_open = y.socket_open
  BY DEF Sound, Free, WriteResponse, SessionState
<1> HIDE DEF z
<1>2. Sound(z)
  BY <1>1 DEF Sound
<1>3. Settled(z) /\ ~Idle(z)
  BY <1>1 DEF Settled, Free, Idle
<1> QED  BY <1>1, <1>2, <1>3 DEF z

\* The dispatcher ends in a response being written or in a transaction that owns the
\* stream.
LEMMA DispatchSettles ==
  ASSUME NEW y, NEW d \in DispatchResults, stopping \in BOOLEAN,
         Sound(y), Free(y), ~y.closed, y.parser
  PROVE  LET z == Dispatch(y, d) IN Sound(z) /\ Settled(z) /\ ~Idle(z)
<1> DEFINE c == [y EXCEPT !.dispatcher = TRUE, !.request_id = TRUE]
<1>1. /\ c \in SessionState /\ c.dispatcher = TRUE
      /\ c.closing = y.closing /\ c.handshake_complete = y.handshake_complete
      /\ c.ops = {} /\ c.parser = y.parser /\ c.transaction = "none"
      /\ c.closed = y.closed /\ c.on_close = y.on_close
  BY DEF Sound, Free, SessionState
<1> HIDE DEF c
<1>2. y.closed = FALSE /\ y.closing = FALSE
  BY DEF Sound, Free, SessionState
<1>3. CASE d = "proxy"
  <2> DEFINE z == StartProxy(c)
  <2>1. /\ z \in SessionState
        /\ z.closing = FALSE /\ z.handshake_complete = y.handshake_complete
        /\ z.ops = {} /\ z.parser = y.parser /\ z.transaction = "running"
        /\ z.closed = FALSE /\ z.on_close = y.on_close /\ z.dispatcher = TRUE
    BY <1>1, <1>2 DEF StartProxy, SessionState
  <2> HIDE DEF z
  <2>2. Sound(z) /\ Settled(z) /\ ~Idle(z)
    BY <1>2, <2>1 DEF Sound, Settled, Idle
  <2> QED  BY <1>3, <2>2 DEF Dispatch, c, z
<1>4. CASE d # "proxy"
  <2> DEFINE z == [c EXCEPT !.dispatcher = FALSE]
             keep == (d = "respond") /\ ~stopping /\ c.parser_done
  <2>1. /\ z \in SessionState
        /\ z.closing = FALSE /\ z.handshake_complete = y.handshake_complete
        /\ z.ops = {} /\ z.parser = y.parser /\ z.transaction = "none"
        /\ z.closed = FALSE /\ z.on_close = y.on_close
    BY <1>1, <1>2 DEF SessionState
  <2>2. keep \in BOOLEAN
    BY <1>1
  <2>3. ~Gone(c)
    BY <1>1, <1>2 DEF Gone
  <2>4. Dispatch(y, d) = WriteResponse(z, keep)
    BY <1>4, <2>3 DEF Dispatch, OnDispatchResponse, c
  <2> HIDE DEF z, keep
  <2>5. Sound(z) /\ Free(z)
    BY <1>2, <2>1 DEF Sound, Free
  <2> QED  BY <2>2, <2>4, <2>5, WriteResponseSettles
<1> QED  BY <1>3, <1>4

-----------------------------------------------------------------------------
(* The handlers                                                            *)

\* A handler that may leave z leaves a state in order also where it throws, before or
\* after its effects.
LEMMA RunLeaves ==
  ASSUME NEW y, NEW z, IInv, Sound(y), Leaves(z), Run(y, z)
  PROVE  /\ Sound(x') /\ Settled(x')
         /\ x.closed => x'.closed
         /\ Idle(x') => Idle(x) \/ ~stopping
<1>1. CASE x' = z
  BY <1>1 DEF Leaves
<1>2. CASE x' = Abort(y)
  BY <1>2, AbortSettles DEF IInv, Idle
<1>3. CASE x' = Abort(z)
  BY <1>3, AbortSettles DEF IInv, Idle, Leaves
<1> QED  BY <1>1, <1>2, <1>3 DEF Run

\* When an operation's handler starts, the stream is free: no other operation and no
\* transaction uses it.
LEMMA OperationEnds ==
  ASSUME NEW op, IInv, op \in x.ops
  PROVE  LET y == Ended(op)
         IN  /\ Sound(y) /\ y.ops = {} /\ y.transaction = "none"
             /\ op # "shutdown" => Free(y)
             /\ y.closed = x.closed /\ y.response = x.response
             /\ y.closing = x.closing /\ y.parser = x.parser
             /\ y.socket_open = x.socket_open
<1> DEFINE y == Ended(op)
<1>1. x.ops = {op} /\ x.transaction = "none"
  BY DEF IInv, Sound
<1>2. /\ y \in SessionState /\ y.ops = {} /\ y.transaction = "none"
      /\ y.closing = x.closing /\ y.handshake_complete = x.handshake_complete
      /\ y.parser = x.parser /\ y.response = x.response
      /\ y.closed = x.closed /\ y.on_close = x.on_close
      /\ y.request_id = x.request_id /\ y.socket_open = x.socket_open
  BY <1>1 DEF Ended, IInv, Sound, SessionState
<1> HIDE DEF y
<1>3. Sound(y)
  BY <1>2 DEF IInv, Sound
<1>4. op # "shutdown" => Free(y)
  BY <1>1, <1>2 DEF IInv, Settled, Free
<1> QED  BY <1>2, <1>3, <1>4 DEF y

\* What a step keeps.
Kept ==
  /\ IInv'
  /\ x.closed => x'.closed
  /\ Idle(x') => Idle(x) \/ ~stopping

\* The frame of the handler lemmas: a handler keeps the invariant, never reopens a
\* closed session, and makes a busy one idle only while its listener is not stopping.
LEMMA HandlerKeeps ==
  ASSUME NEW y, NEW z, IInv, Sound(y), Leaves(z), Run(y, z),
         tls' = tls, stopping' = stopping, stop' \in {"no", "posted", "run"}
  PROVE  Kept
<1>1. /\ Sound(x') /\ Settled(x')
      /\ x.closed => x'.closed
      /\ Idle(x') => Idle(x) \/ ~stopping
  BY RunLeaves
<1>2. Sound(x)' /\ Settled(x)'
  BY <1>1 DEF Sound, Settled
<1> QED  BY <1>1, <1>2 DEF Kept, IInv

\* on_handshake keeps the invariant, also on a socket closed meanwhile.
LEMMA HandshakeKeeps ==
  ASSUME NEW ok \in BOOLEAN, IInv, Handshake(ok)
  PROVE  Kept
<1> DEFINE y == Ended("handshake")
           c == [y EXCEPT !.handshake_complete = TRUE]
           z == OnHandshake(y, ok)
<1>1. "handshake" \in x.ops /\ tls
  BY DEF Handshake, IInv, Sound
<1>2. /\ Sound(y) /\ Free(y)
      /\ y.closed = x.closed /\ y.response = x.response
      /\ y.closing = x.closing /\ y.transaction = "none"
  BY <1>1, OperationEnds
<1> HIDE DEF y
<1>3. CASE ~ok
  <2>1. z = CloseSocket(y)
    BY <1>3
    DEF OnHandshake
  <2> QED  BY <1>1, <1>2, <2>1, CloseSocketSettles, HandlerKeeps 
           DEF Leaves, Idle, Handshake, IInv, y
<1>4. CASE ok
  <2>1. /\ c \in SessionState /\ c.ops = {} /\ c.transaction = "none"
        /\ c.closing = y.closing /\ c.handshake_complete = TRUE
        /\ c.closed = y.closed /\ c.on_close = y.on_close /\ c.response = y.response
        /\ c.request_id = y.request_id /\ c.socket_open = y.socket_open
    BY <1>2 DEF Sound, Free, SessionState
  <2>2. z = ReadRequest(c)
    BY <1>4 DEF OnHandshake
  <2> HIDE DEF c, z
  <2>3. Sound(c) /\ Free(c)
    BY <1>1, <1>2, <2>1 DEF Sound, Free
  <2>4. Leaves(z)
    <3>1. /\ Sound(z) /\ Settled(z)
          /\ z.closed = c.closed /\ z.response = c.response
          /\ z.transaction = c.transaction /\ z.closing = c.closing
      BY <2>2, <2>3, ReadRequestSettles
    <3>2. x.transaction = "none"
      BY <1>1 DEF IInv, Sound
    <3> QED  BY <1>2, <2>1, <3>1, <3>2 DEF Leaves, Idle
  <2> QED  BY <1>2, <2>4, HandlerKeeps DEF Handshake, IInv, y, z
<1> QED  BY <1>3, <1>4

\* on_header_read with an error keeps the invariant.
LEMMA HeaderFailsKeeps ==
  ASSUME NEW bodyLimit \in BOOLEAN, IInv, HeaderFails(bodyLimit)
  PROVE  Kept
<1> DEFINE y == Ended("read")
           z == IF bodyLimit THEN WriteResponse(y, FALSE) ELSE Close(y)
<1>1. Sound(y) /\ Free(y) /\ y.closed = x.closed
  BY OperationEnds DEF HeaderFails
<1>2. Run(y, z) /\ UNCHANGED << tls, stopping, stop >>
  BY DEF HeaderFails
<1> HIDE DEF y
<1>3. Leaves(z)
  <2>1. CASE bodyLimit
    BY <1>1, <2>1, WriteResponseSettles DEF Leaves
  <2>2. CASE ~bodyLimit
    BY <1>1, <2>2, CloseSettles DEF Leaves, IInv
  <2> QED  BY <2>1, <2>2
<1> QED  BY <1>1, <1>2, <1>3, HandlerKeeps DEF IInv

\* on_header_read starts with the stream free and the parser in place; an open socket
\* belongs to a session that is not closed.
LEMMA HeaderEnds ==
  ASSUME NEW done \in BOOLEAN, IInv, "read" \in x.ops
  PROVE  LET y == [Ended("read") EXCEPT !.parser_done = done]
         IN  /\ Sound(y) /\ Free(y) /\ y.parser /\ y.closed = x.closed
             /\ x.socket_open => ~y.closed
<1> DEFINE e == Ended("read")
           y == [e EXCEPT !.parser_done = done]
<1>1. /\ Sound(e) /\ Free(e) /\ e.closed = x.closed /\ e.parser = x.parser
      /\ e.socket_open = x.socket_open
  BY OperationEnds
<1> HIDE DEF e
<1>2. /\ y \in SessionState /\ y.ops = {} /\ y.transaction = "none"
      /\ y.closing = e.closing /\ y.handshake_complete = e.handshake_complete
      /\ y.parser = e.parser
      /\ y.closed = e.closed /\ y.on_close = e.on_close
      /\ y.request_id = e.request_id /\ y.socket_open = e.socket_open
  BY <1>1 DEF Sound, Free, SessionState
<1> HIDE DEF y
<1>3. Sound(y) /\ Free(y)
  BY <1>1, <1>2 DEF Sound, Free
<1>4. x.parser /\ (x.socket_open => ~x.closed)
  BY DEF IInv, Sound
<1> QED  BY <1>1, <1>2, <1>3, <1>4 DEF y, e

\* on_header_read of either class keeps the invariant.
LEMMA HeaderReadKeeps ==
  ASSUME NEW d \in DispatchResults, NEW done \in BOOLEAN, NEW selected \in BOOLEAN, IInv,
         HttpHeaderRead(d, done) \/ TlsHeaderRead(d, done, selected)
  PROVE  Kept
<1> DEFINE y == [Ended("read") EXCEPT !.parser_done = done]
           h == IF ~x.socket_open THEN HttpClose(y) ELSE Dispatch(y, d)
           t == IF ~x.socket_open \/ ~selected THEN TlsClose(y) ELSE Dispatch(y, d)
<1>1. /\ Sound(y) /\ Free(y) /\ y.parser /\ y.closed = x.closed
      /\ x.socket_open => ~y.closed
  BY HeaderEnds DEF HttpHeaderRead, TlsHeaderRead
<1>2. /\ Run(y, h) \/ (tls /\ Run(y, t))
      /\ UNCHANGED << tls, stopping, stop >>
  <2>1. CASE HttpHeaderRead(d, done)
    BY <2>1 DEF HttpHeaderRead
  <2>2. CASE TlsHeaderRead(d, done, selected)
    BY <2>2 DEF TlsHeaderRead
  <2> QED  BY <2>1, <2>2
<1> HIDE DEF y
<1>3. x.socket_open => Sound(Dispatch(y, d)) /\ Settled(Dispatch(y, d))
                         /\ ~Idle(Dispatch(y, d)) /\ ~x.closed
  BY <1>1, DispatchSettles DEF IInv
<1>4. Leaves(h)
  <2>1. CASE x.socket_open
    BY <1>3, <2>1 DEF Leaves
  <2>2. CASE ~x.socket_open
    BY <1>1, <2>2, HttpCloseSettles DEF Leaves, Idle
  <2> QED  BY <2>1, <2>2
<1>5. ASSUME tls PROVE Leaves(t)
  <2>1. CASE x.socket_open /\ selected
    BY <1>3, <2>1 DEF Leaves
  <2>2. CASE ~(x.socket_open /\ selected)
    BY <1>1, <1>5, <2>2, TlsCloseSettles DEF Leaves
  <2> QED  BY <2>1, <2>2
<1> HIDE DEF h, t
<1> QED  BY <1>1, <1>2, <1>4, <1>5, HandlerKeeps DEF IInv

\* on_stream_complete keeps the invariant, also after close() and after stop().
LEMMA StreamCompleteKeeps ==
  ASSUME NEW keep \in BOOLEAN, IInv, StreamComplete(keep)
  PROVE  Kept
<1> DEFINE y == [x EXCEPT !.transaction = "none"]
           w == [y EXCEPT !.proxy_operation = FALSE, !.parser = FALSE, !.dispatcher = FALSE,
                          !.request_id = FALSE]
           z == IF Gone(w) THEN w
                ELSE IF ~keep \/ stopping THEN Close(w) ELSE ReadRequest(w)
<1>1. x.transaction # "none" /\ Run(y, z) /\ UNCHANGED << tls, stopping, stop >>
  BY DEF StreamComplete
<1>2. x.ops = {} /\ (x.closing => x.closed)
  BY <1>1 DEF IInv, Sound, Settled
<1>3. /\ y \in SessionState /\ y.ops = {} /\ y.transaction = "none"
      /\ y.closing = x.closing /\ y.handshake_complete = x.handshake_complete
      /\ y.closed = x.closed /\ y.on_close = x.on_close
      /\ y.request_id = x.request_id /\ y.socket_open = x.socket_open
  BY <1>2 DEF IInv, Sound, SessionState
<1> HIDE DEF y
<1>4. Sound(y)
  BY <1>3 DEF IInv, Sound
<1>5. /\ w \in SessionState /\ w.ops = {} /\ w.transaction = "none"
      /\ w.closing = y.closing /\ w.handshake_complete = y.handshake_complete
      /\ w.closed = y.closed /\ w.on_close = y.on_close
      /\ w.request_id = FALSE /\ w.socket_open = y.socket_open
  BY <1>3 DEF SessionState
<1> HIDE DEF w
<1>6. Sound(w) /\ Free(w)
  BY <1>2, <1>3, <1>4, <1>5 DEF Sound, Free
<1>7. Leaves(z)
  <2>1. CASE Gone(w)
    BY <1>2, <1>3, <1>5, <1>6, <2>1 DEF Gone, Leaves, Settled, Idle
  <2>2. CASE ~Gone(w) /\ (~keep \/ stopping)
    BY <1>3, <1>5, <1>6, <2>2, CloseSettles DEF Leaves, IInv
  <2>3. CASE ~Gone(w) /\ ~(~keep \/ stopping)
    BY <1>3, <1>5, <1>6, <2>3, ReadRequestSettles DEF Leaves
  <2> QED  BY <2>1, <2>2, <2>3
<1> HIDE DEF z
<1> QED  BY <1>1, <1>4, <1>7, HandlerKeeps DEF IInv

\* on_write keeps the invariant: it reads the stopping flag before it reads again.
LEMMA WrittenKeeps ==
  ASSUME NEW ok \in BOOLEAN, IInv, Written(ok)
  PROVE  Kept
<1> DEFINE y == Ended("write")
           w == [y EXCEPT !.response = FALSE, !.parser = FALSE, !.request_id = FALSE]
           z == IF ~ok THEN Close(y)
                ELSE IF ~y.write_keep_alive \/ stopping THEN Close(w) ELSE ReadRequest(w)
<1>1. Run(y, z) /\ UNCHANGED << tls, stopping, stop >>
  BY DEF Written
<1>2. Sound(y) /\ Free(y) /\ y.closed = x.closed
  BY OperationEnds DEF Written
<1> HIDE DEF y
<1>3. /\ w \in SessionState /\ w.ops = {} /\ w.transaction = "none"
      /\ w.closing = y.closing /\ w.handshake_complete = y.handshake_complete
      /\ w.closed = y.closed /\ w.on_close = y.on_close
      /\ w.request_id = FALSE /\ w.socket_open = y.socket_open
  BY <1>2 DEF Sound, Free, SessionState
<1> HIDE DEF w
<1>4. Sound(w) /\ Free(w)
  BY <1>2, <1>3 DEF Sound, Free
<1>5. Leaves(z)
  <2>1. CASE ~ok
    BY <1>2, <2>1, CloseSettles DEF Leaves, IInv
  <2>2. CASE ok /\ (~y.write_keep_alive \/ stopping)
    BY <1>2, <1>3, <1>4, <2>2, CloseSettles DEF Leaves, IInv
  <2>3. CASE ok /\ ~(~y.write_keep_alive \/ stopping)
    BY <1>2, <1>3, <1>4, <2>3, ReadRequestSettles DEF Leaves
  <2> QED  BY <2>1, <2>2, <2>3
<1> HIDE DEF z
<1> QED  BY <1>1, <1>2, <1>5, HandlerKeeps DEF IInv

\* The end of the TLS shutdown closes the socket and keeps the invariant.
LEMMA OnShutdownKeeps ==
  ASSUME IInv, OnShutdown
  PROVE  Kept
<1> DEFINE y == Ended("shutdown")
           z == CloseSocket(y)
<1>1. Run(y, z) /\ UNCHANGED << tls, stopping, stop >> /\ tls
  BY DEF OnShutdown, IInv, Sound
<1>2. Sound(y)
  BY OperationEnds DEF OnShutdown
<1> HIDE DEF y
<1>3. Leaves(z)
  BY <1>1, <1>2, CloseSocketSettles DEF Leaves, Idle
<1> HIDE DEF z
<1> QED  BY <1>1, <1>2, <1>3, HandlerKeeps DEF IInv

\* stop() keeps the invariant: it cancels a transaction without touching its stream.
LEMMA StopOnExecutorKeeps ==
  ASSUME IInv, StopOnExecutor
  PROVE  Kept
<1> DEFINE c == CancelTransaction(x)
           z == IF tls THEN TlsStopOnExecutor(x) ELSE HttpStopOnExecutor(x)
<1>1. Run(x, z) /\ UNCHANGED << tls, stopping >> /\ stop' = "run"
  BY DEF StopOnExecutor
<1>2. /\ c \in SessionState
      /\ c.closing = x.closing /\ c.handshake_complete = x.handshake_complete
      /\ c.ops = x.ops /\ c.parser = x.parser /\ c.response = x.response
      /\ c.closed = x.closed /\ c.on_close = x.on_close
      /\ c.request_id = x.request_id /\ c.socket_open = x.socket_open
      /\ c.dispatcher = x.dispatcher
      /\ c.transaction = "none" <=> x.transaction = "none"
  BY CancelKeepsTheRest DEF IInv, Sound
<1> HIDE DEF c
<1>3. Leaves(c)
  BY <1>2 DEF IInv, Sound, Settled, Leaves, Idle
<1>4. Leaves(x)
  BY DEF IInv, Leaves
<1>5. Leaves(HttpClose(x))
  BY HttpCloseSettles DEF IInv, Leaves, Idle
<1>6. tls => Leaves(CloseSocket(x))
  BY CloseSocketSettles DEF IInv, Leaves, Idle
<1>7. Leaves(z)
  BY <1>3, <1>4, <1>5, <1>6 DEF TlsStopOnExecutor, HttpStopOnExecutor, c
<1> HIDE DEF z
<1> QED  BY <1>1, <1>7, HandlerKeeps DEF IInv

-----------------------------------------------------------------------------
(* The specification                                                       *)

\* Every step keeps the invariant, never reopens a closed session, and makes a busy one
\* idle only while the listener is not stopping.
LEMMA NextKeeps ==
  ASSUME IInv, [Next]_vars
  PROVE  Kept
<1>1. ASSUME NEW ok \in BOOLEAN, Handshake(ok) PROVE Kept
  BY <1>1, HandshakeKeeps
<1>2. ASSUME NEW ok \in BOOLEAN, Written(ok) PROVE Kept
  BY <1>2, WrittenKeeps
<1>3. ASSUME NEW bodyLimit \in BOOLEAN, HeaderFails(bodyLimit) PROVE Kept
  BY <1>3, HeaderFailsKeeps
<1>4. ASSUME NEW d \in DispatchResults, NEW done \in BOOLEAN, HttpHeaderRead(d, done)
      PROVE  Kept
  <2>1. TRUE \in BOOLEAN
    OBVIOUS
  <2> QED  BY <1>4, <2>1, HeaderReadKeeps
<1>5. ASSUME NEW d \in DispatchResults, NEW done \in BOOLEAN, NEW selected \in BOOLEAN,
             TlsHeaderRead(d, done, selected)
      PROVE  Kept
  BY <1>5, HeaderReadKeeps
<1>6. ASSUME NEW keep \in BOOLEAN, StreamComplete(keep) PROVE Kept
  BY <1>6, StreamCompleteKeeps
<1>7. ASSUME OnShutdown PROVE Kept
  BY <1>7, OnShutdownKeeps
<1>8. ASSUME ListenerStops \/ StopPosted \/ UNCHANGED vars PROVE Kept
  <2>1. x' = x /\ tls' = tls /\ stopping' \in BOOLEAN /\ stop' \in {"no", "posted", "run"}
    BY <1>8 DEF ListenerStops, StopPosted, vars, IInv
  <2> QED  BY <2>1 DEF Kept, IInv, Sound, Settled
<1>9. ASSUME StopOnExecutor PROVE Kept
  BY <1>9, StopOnExecutorKeeps
<1> QED
  BY <1>1, <1>2, <1>3, <1>4, <1>5, <1>6, <1>7, <1>8, <1>9 DEF Next

\* A session starts with its first operation under way.
LEMMA InitHolds ==
  ASSUME Init
  PROVE  IInv
BY DEF Init, IInv, Sound, Settled, SessionState

\* The inductive invariant holds in every reachable state of a session, plain or TLS,
\* with an exception possible in every handler.
THEOREM IInvHolds == Spec => []IInv
<1>1. Init => IInv
  BY InitHolds
<1>2. IInv /\ [Next]_vars => IInv'
  BY NextKeeps DEF Kept
<1> QED  BY <1>1, <1>2, PTL DEF Spec

\* Every member keeps its type, and an HttpSession never has TLS state.
THEOREM TypeCorrect == Spec => []TypeOK
<1>1. IInv => TypeOK
  BY DEF IInv, TypeOK, Sound
<1> QED  BY <1>1, IInvHolds, PTL

\* The client's stream has one user at a time and the transaction's parser outlives the
\* transaction: for every order of handlers, stop() and exceptions.
THEOREM TransactionOwnsStreamHolds == Spec => []TransactionOwnsStream
<1>1. IInv => TransactionOwnsStream
  <2> SUFFICES ASSUME IInv PROVE TransactionOwnsStream
    OBVIOUS
  <2>1. CASE x.ops = {}
    BY <2>1, FS_EmptySet DEF IInv, Sound, TransactionOwnsStream
  <2>2. CASE x.ops # {}
    <3>1. PICK op \in x.ops : x.ops = {op}
      BY <2>2 DEF IInv, Sound
    <3>2. Cardinality({op}) = 1
      BY FS_Singleton
    <3>3. x.transaction = "none"
      BY <2>2 DEF IInv, Sound
    <3> QED  BY <3>1, <3>2, <3>3 DEF IInv, Sound, TransactionOwnsStream
  <2> QED  BY <2>1, <2>2
<1> QED  BY <1>1, IInvHolds, PTL

\* A session gives its permit back exactly by closing, and until it is closed something
\* is under way that runs its next handler.
THEOREM ClosedMeansReleasedHolds == Spec => []ClosedMeansReleased
<1>1. IInv => ClosedMeansReleased
  BY DEF IInv, ClosedMeansReleased, Sound, Settled
<1> QED  BY <1>1, IInvHolds, PTL

\* The contract without its fairness.
ContractSafety == Contract!Init /\ [][Contract!Next]_(Contract!contractVars)

\* Every step of a session is a step of the contract its listener is built on, or no
\* step of it: the permit comes back once, and a session whose listener is stopping never
\* becomes idle again.
THEOREM RefinesContract == Spec => ContractSafety
<1>1. Init => Contract!Init
  BY DEF Init, Contract!Init, state
<1>2. IInv /\ IInv' /\ [Next]_vars => [Contract!Next]_(Contract!contractVars)
  <2> SUFFICES ASSUME IInv, [Next]_vars
               PROVE  [Contract!Next]_(Contract!contractVars)
    OBVIOUS
  <2>1. Kept
    BY NextKeeps
  <2>2. CASE ListenerStops
    <3>1. stopping' = TRUE /\ x' = x
      BY <2>2 DEF ListenerStops
    <3>2. Contract!StopRequested
      BY <3>1 DEF Contract!StopRequested, state
    <3> QED  BY <3>2 DEF Contract!Next
  <2>3. CASE ~ListenerStops
    <3>1. stopping' = stopping
      BY <2>3 DEF Next, vars, Handshake, Written, HeaderFails, HttpHeaderRead, TlsHeaderRead,
                  StreamComplete, OnShutdown, StopPosted, StopOnExecutor
    <3>2. x.closed = ~x.on_close /\ x'.closed = ~x'.on_close
      BY <2>1 DEF Kept, IInv, Sound, SessionState
    <3>3. /\ state = IF x.closed THEN "closed" ELSE IF Idle(x) THEN "idle" ELSE "busy"
          /\ state' = IF x'.closed THEN "closed" ELSE IF Idle(x') THEN "idle" ELSE "busy"
      BY DEF state, Idle
    <3>4. CASE x'.closed /\ ~x.closed
      <4>1. Contract!Close
        BY <3>1, <3>2, <3>3, <3>4 DEF Contract!Close
      <4> QED  BY <4>1 DEF Contract!Next
    <3>5. CASE x'.closed /\ x.closed
      BY <3>1, <3>2, <3>3, <3>5 DEF Contract!contractVars
    <3>6. CASE ~x'.closed
      <4>1. ~x.closed
        BY <2>1, <3>6 DEF Kept
      <4>2. CASE Idle(x) = Idle(x')
        BY <3>1, <3>2, <3>3, <3>6, <4>1, <4>2 DEF Contract!contractVars
      <4>3. CASE Idle(x) /\ ~Idle(x')
        <5>1. Contract!Work
          BY <3>1, <3>2, <3>3, <3>6, <4>1, <4>3 DEF Contract!Work
        <5> QED  BY <5>1 DEF Contract!Next
      <4>4. CASE ~Idle(x) /\ Idle(x')
        <5>1. ~stopping
          BY <2>1, <4>4 DEF Kept
        <5>2. Contract!Keep
          BY <3>1, <3>2, <3>3, <3>6, <4>1, <4>4, <5>1 DEF Contract!Keep
        <5> QED  BY <5>2 DEF Contract!Next
      <4> QED  BY <4>2, <4>3, <4>4 DEF Idle
    <3> QED  BY <3>4, <3>5, <3>6
  <2> QED  BY <2>2, <2>3
<1> QED  BY <1>1, <1>2, IInvHolds, PTL DEF Spec, ContractSafety
=============================================================================
