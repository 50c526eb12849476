---------------------------- MODULE ServerProofs ----------------------------
(***************************************************************************)
(* Proofs about Server, for any ports, plans, sessions and limits.         *)
(*                                                                         *)
(* None of the four invariants is inductive by itself.  That a session is  *)
(* reachable rests on where a listener that may admit one is               *)
(* (ListenersPlaced: the revision gate), and on the removal of a session   *)
(* being dispatched only by its close() (TasksClosed).  That the maps      *)
(* match the snapshot rests on what they are during a reload (Maps), on    *)
(* each new listener being really new (Numbered), and, for what is still   *)
(* bound, on the retirement or stop waiting in its queue (OpenPurposeful). *)
(***************************************************************************)
EXTENDS Server, FiniteSetTheorems, SequenceTheorems, TLAPS

-----------------------------------------------------------------------------
Tasks(x) == {x.tasks[i] : i \in DOMAIN x.tasks}

\* A retirement or a stop has been dispatched to the listener's strand.
ToClose(x) == "retire" \in Tasks(x) \/ "stop" \in Tasks(x)

\* What holds of a listener by itself: it is deaf only when finished, and its
\* drained handler has been posted only when it was retired and empty.
ListenerSound(x) ==
  /\ x.accept = "none" => Finished(x)
  /\ x.on_drained \in {"posted", "done"} => x.retired /\ x.sessions = {}

ListenersSound == \A l \in Ids : ListenerSound(listener[l])

\* A listener that might admit a connection is in the maps, or its gate is closed.
Placed(l) ==
  \/ l \in current \cup retired
  \/ /\ prepared.state = "prepared" /\ l \in prepared.added
     /\ listener[l].minimum_runtime_revision > published.revision
  \/ listener[l].stopping \/ listener[l].retired \/ listener[l].accept = "none"

ListenersPlaced == \A l \in Ids : Placed(l)

\* An open acceptor has its purpose, or its end is on the way; after stop() all
\* that are open are about to close.
Purposeful(l) ==
  listener[l].open =>
    \/ ToClose(listener[l])
    \/ server \notin {"stopping", "stopped"} /\ l \in current \cup prepared.added

OpenPurposeful == \A l \in Ids : Purposeful(l)

\* The listeners made for a port are the first of it: Fresh is the next one.
Made(l) == listener[l].made
Numbered ==
  /\ \A p \in Ports : \E k \in 0 .. (IF server = "new" THEN 0 ELSE reloads + 1) :
       \A i \in 1 .. (MaxReloads + 1) : Made(<<p, i>>) <=> i <= k
  /\ \A l \in current \cup retired : Made(l)
  /\ server = "new" => reloads = 0

PortsOf(S) == {l[1] : l \in S}
OnePerPort(S) == \A l, m \in S : l[1] = m[1] => l = m

\* The two maps, and the reload under way.
Maps ==
  /\ server \in {"running", "stopping"} =>
       /\ PortsOf(current) = IF prepared.state = "swapped" THEN prepared.next
                             ELSE published.ports
       /\ OnePerPort(current) /\ current \cap retired = {}
  /\ server \in {"new", "stopped"} => current = {} /\ retired = {}
  /\ prepared.state = "none" => prepared = NoReload
  /\ prepared.state # "none" => server = "running" /\ prepared.next \in Plans
  /\ prepared.state = "prepared" =>
       /\ prepared.added \cap (current \cup retired) = {}
       /\ PortsOf(prepared.added) = prepared.next \ PortsOf(current)
       /\ OnePerPort(prepared.added) /\ \A l \in prepared.added : Made(l)
       /\ prepared.gone = {l \in current : l[1] \notin prepared.next}
  /\ prepared.state = "swapped" => prepared.added \subseteq current

\* Removal of a session is dispatched only by its close().
TasksClosed ==
  \A l \in Ids : \A s \in Sessions :
    s \in Tasks(listener[l]) => session[s].state = "closed"

\* The listeners' part of the invariant.
Listeners ==
  /\ listener \in [Ids -> Listener]
  /\ current \subseteq Ids /\ retired \subseteq Ids /\ prepared.added \subseteq Ids
  /\ ListenersSound /\ ListenersPlaced /\ OpenPurposeful /\ Numbered /\ Maps

\* The sessions' part.
Served == TasksClosed /\ OpenSessionReachable /\ AdmissionExact

IInv == TypeOK /\ Listeners /\ Served

-----------------------------------------------------------------------------
(* The counter                                                             *)

\* std::size_t arithmetic: a value within range is unchanged by the wrap, once around too.
LEMMA ModKeeps ==
  ASSUME NEW M \in Nat \ {0}, NEW a \in 0 .. (M - 1)
  PROVE  a % M = a /\ (a + M) % M = a
OBVIOUS

\* Whatever is added or taken, the counter stays within std::size_t.
LEMMA ModRange ==
  ASSUME NEW M \in Nat \ {0}, NEW a \in Int
  PROVE  a % M \in 0 .. (M - 1)
OBVIOUS

-----------------------------------------------------------------------------
(* One listener                                                            *)

\* What a step of its own, or a task dispatched to it, may do to a listener.
Kept(x, y) ==
  /\ y \in Listener /\ ListenerSound(y)
  /\ y.made = x.made /\ y.minimum_runtime_revision = x.minimum_runtime_revision
  /\ y.open => x.open /\ (ToClose(x) => ToClose(y))
  /\ x.stopping => y.stopping
  /\ x.retired => y.retired
  /\ x.accept = "none" => y.accept = "none"

\* notify_if_drained posts the drained handler of a retired listener without sessions, and
\* changes nothing else.
LEMMA NotifyKeeps ==
  ASSUME NEW x \in Listener, x.accept = "none" => Finished(x),
         x.on_drained \in {"posted", "done"} => x.retired /\ x.sessions = {}
  PROVE  /\ NotifyIfDrained(x) \in Listener /\ ListenerSound(NotifyIfDrained(x))
         /\ NotifyIfDrained(x).made = x.made
         /\ NotifyIfDrained(x).minimum_runtime_revision = x.minimum_runtime_revision
         /\ NotifyIfDrained(x).open = x.open
         /\ NotifyIfDrained(x).accept = x.accept
         /\ NotifyIfDrained(x).retired = x.retired
         /\ NotifyIfDrained(x).stopping = x.stopping
         /\ NotifyIfDrained(x).sessions = x.sessions
         /\ NotifyIfDrained(x).tasks = x.tasks
<1>1. CASE x.retired /\ x.sessions = {} /\ x.on_drained = "set"
  BY <1>1 DEF NotifyIfDrained, Listener, ListenerSound, Finished
<1>2. CASE ~(x.retired /\ x.sessions = {} /\ x.on_drained = "set")
  BY <1>2 DEF NotifyIfDrained, ListenerSound
<1> QED  BY <1>1, <1>2

\* A finished listener may leave its accept loop.
LEMMA AcceptEndsKeeps ==
  ASSUME NEW x \in Listener, ListenerSound(x), Finished(x)
  PROVE  /\ Kept(x, AcceptEnds(x))
         /\ AcceptEnds(x).sessions = x.sessions /\ AcceptEnds(x).tasks = x.tasks
<1> DEFINE z == [x EXCEPT !.accept = "none"]
<1>1. /\ z \in Listener /\ Finished(z) /\ ListenerSound(z) /\ z.accept = "none"
      /\ z.made = x.made /\ z.minimum_runtime_revision = x.minimum_runtime_revision
      /\ z.open = x.open /\ z.retired = x.retired /\ z.stopping = x.stopping
      /\ z.sessions = x.sessions /\ z.tasks = x.tasks
  BY DEF Listener, ListenerSound, Finished
<1>2. AcceptEnds(x) = NotifyIfDrained(z)
  BY DEF AcceptEnds
<1> HIDE DEF z
<1> QED  BY <1>1, <1>2, NotifyKeeps DEF Kept, ToClose, Tasks, ListenerSound

\* accept_next accepts again, unless the listener is finished.
LEMMA AcceptNextKeeps ==
  ASSUME NEW x \in Listener, ListenerSound(x), x.accept # "none"
  PROVE  /\ Kept(x, AcceptNext(x))
         /\ AcceptNext(x).sessions = x.sessions /\ AcceptNext(x).tasks = x.tasks
<1>1. CASE Finished(x)
  BY <1>1, AcceptEndsKeeps DEF AcceptNext
<1>2. CASE ~Finished(x)
  <2> DEFINE z == [x EXCEPT !.accept = "pending"]
  <2>1. /\ z \in Listener /\ ListenerSound(z) /\ z.accept = "pending"
        /\ z.made = x.made /\ z.minimum_runtime_revision = x.minimum_runtime_revision
        /\ z.open = x.open /\ z.retired = x.retired /\ z.stopping = x.stopping
        /\ z.sessions = x.sessions /\ z.tasks = x.tasks
    BY DEF Listener, ListenerSound
  <2>2. AcceptNext(x) = z
    BY <1>2 DEF AcceptNext
  <2> HIDE DEF z
  <2> QED  BY <2>1, <2>2 DEF Kept, ToClose, Tasks
<1> QED  BY <1>1, <1>2

\* schedule_accept_retry arms the timer, unless the listener is finished.
LEMMA ScheduleAcceptRetryKeeps ==
  ASSUME NEW x \in Listener, ListenerSound(x), x.accept # "none"
  PROVE  /\ Kept(x, ScheduleAcceptRetry(x))
         /\ ScheduleAcceptRetry(x).sessions = x.sessions
         /\ ScheduleAcceptRetry(x).tasks = x.tasks
<1>1. CASE Finished(x)
  BY <1>1, AcceptEndsKeeps DEF ScheduleAcceptRetry
<1>2. CASE ~Finished(x)
  <2> DEFINE z == [x EXCEPT !.accept = "retry"]
  <2>1. /\ z \in Listener /\ ListenerSound(z) /\ z.accept = "retry"
        /\ z.made = x.made /\ z.minimum_runtime_revision = x.minimum_runtime_revision
        /\ z.open = x.open /\ z.retired = x.retired /\ z.stopping = x.stopping
        /\ z.sessions = x.sessions /\ z.tasks = x.tasks
    BY DEF Listener, ListenerSound
  <2>2. ScheduleAcceptRetry(x) = z
    BY <1>2 DEF ScheduleAcceptRetry
  <2> HIDE DEF z
  <2> QED  BY <2>1, <2>2 DEF Kept, ToClose, Tasks
<1> QED  BY <1>1, <1>2

\* on_accept with an error ends the accept loop of a finished listener only: the error of a
\* cancelled accept comes with a closed acceptor.
LEMMA AcceptErrorKeeps ==
  ASSUME NEW x \in Listener, ListenerSound(x), x.accept # "none",
         NEW aborted \in BOOLEAN, aborted => ~x.open
  PROVE  /\ Kept(x, AcceptError(x, aborted))
         /\ AcceptError(x, aborted).sessions = x.sessions
         /\ AcceptError(x, aborted).tasks = x.tasks
<1>1. CASE ~aborted /\ x.open /\ ~x.stopping
  <2> DEFINE z == ScheduleAcceptRetry(x)
  <2>1. Kept(x, z) /\ z.sessions = x.sessions /\ z.tasks = x.tasks
    BY ScheduleAcceptRetryKeeps
  <2>2. AcceptError(x, aborted) = NotifyIfDrained(z)
    BY <1>1 DEF AcceptError
  <2> HIDE DEF z
  <2> QED  BY <2>1, <2>2, NotifyKeeps DEF Kept, ToClose, Tasks, ListenerSound
<1>2. CASE ~(~aborted /\ x.open /\ ~x.stopping)
  <2>1. AcceptError(x, aborted) = AcceptEnds(x)
    BY <1>2 DEF AcceptError, AcceptEnds
  <2>2. Finished(x)
    BY <1>2 DEF Finished
  <2> QED  BY <2>1, <2>2, AcceptEndsKeeps
<1> QED  BY <1>1, <1>2

\* A retry timer is cancelled only by closing the acceptor.
LEMMA RetryCancelledKeeps ==
  ASSUME NEW x \in Listener, ListenerSound(x), ~x.open
  PROVE  /\ Kept(x, [x EXCEPT !.accept = "none"])
         /\ [x EXCEPT !.accept = "none"].sessions = x.sessions
         /\ [x EXCEPT !.accept = "none"].tasks = x.tasks
<1> DEFINE z == [x EXCEPT !.accept = "none"]
<1>1. /\ z \in Listener /\ Finished(z) /\ ListenerSound(z) /\ z.accept = "none"
      /\ z.made = x.made /\ z.minimum_runtime_revision = x.minimum_runtime_revision
      /\ z.open = x.open /\ z.retired = x.retired /\ z.stopping = x.stopping
      /\ z.sessions = x.sessions /\ z.tasks = x.tasks
  BY DEF Listener, ListenerSound, Finished
<1> HIDE DEF z
<1>2. Kept(x, z) /\ z.sessions = x.sessions /\ z.tasks = x.tasks
  BY <1>1 DEF Kept, ToClose, Tasks
<1> QED  BY <1>2 DEF z

\* Taking a session in leaves the listener sound, for it is not retired.
LEMMA AdmitKeeps ==
  ASSUME NEW x \in Listener, ListenerSound(x), x.accept # "none", ~x.retired,
         NEW s \in Sessions
  PROVE  /\ Kept(x, Admit(x, s))
         /\ Admit(x, s).sessions = x.sessions \cup {s} /\ Admit(x, s).tasks = x.tasks
<1> DEFINE z == [x EXCEPT !.sessions = @ \cup {s}]
<1>1. /\ z \in Listener /\ ListenerSound(z) /\ z.accept = x.accept
      /\ z.made = x.made /\ z.minimum_runtime_revision = x.minimum_runtime_revision
      /\ z.open = x.open /\ z.retired = x.retired /\ z.stopping = x.stopping
      /\ z.sessions = x.sessions \cup {s} /\ z.tasks = x.tasks
  BY DEF Listener, ListenerSound, Finished
<1>2. Admit(x, s) = AcceptNext(z)
  BY DEF Admit
<1> HIDE DEF z
<1>3. /\ Kept(z, AcceptNext(z))
      /\ AcceptNext(z).sessions = z.sessions /\ AcceptNext(z).tasks = z.tasks
  BY <1>1, AcceptNextKeeps
<1> QED  BY <1>1, <1>2, <1>3 DEF Kept, ToClose, Tasks

-----------------------------------------------------------------------------
(* What is dispatched to the strand                                        *)

Task == {"retire", "stop"} \cup Sessions

\* A handler takes the first task and leaves the others.
LEMMA RestTasks ==
  ASSUME NEW x \in Listener, x.tasks # << >>
  PROVE  /\ Rest(x) \in Listener /\ Head(x.tasks) \in Task
         /\ Rest(x) = [x EXCEPT !.tasks = Tail(x.tasks)]
         /\ Tasks(x) = {Head(x.tasks)} \cup Tasks(Rest(x))
<1>1. x.tasks \in Seq(Task)
  BY DEF Listener, Task
<1>2. /\ Head(x.tasks) \in Task /\ Tail(x.tasks) \in Seq(Task)
      /\ Len(x.tasks) \in Nat \ {0} /\ Len(Tail(x.tasks)) = Len(x.tasks) - 1
      /\ Head(x.tasks) = x.tasks[1]
      /\ \A i \in 1 .. Len(Tail(x.tasks)) : Tail(x.tasks)[i] = x.tasks[i + 1]
      /\ DOMAIN x.tasks = 1 .. Len(x.tasks)
      /\ DOMAIN Tail(x.tasks) = 1 .. Len(Tail(x.tasks))
  BY <1>1, HeadTailProperties, EmptySeq, LenProperties
<1>3. Rest(x) = [x EXCEPT !.tasks = Tail(x.tasks)] /\ Rest(x) \in Listener
      /\ Rest(x).tasks = Tail(x.tasks)
  BY <1>2 DEF Rest, Listener, Task
<1>4. Tasks(x) = {Head(x.tasks)} \cup Tasks(Rest(x))
  <2>1. ASSUME NEW i \in DOMAIN x.tasks
        PROVE  x.tasks[i] \in {Head(x.tasks)} \cup Tasks(Rest(x))
    <3>1. CASE i = 1
      BY <1>2, <3>1
    <3>2. CASE i # 1
      <4>1. i - 1 \in DOMAIN Tail(x.tasks) /\ Tail(x.tasks)[i - 1] = x.tasks[i]
        BY <1>2, <3>2
      <4> QED  BY <1>3, <4>1 DEF Tasks
    <3> QED  BY <3>1, <3>2
  <2>2. ASSUME NEW i \in DOMAIN Tail(x.tasks)
        PROVE  Tail(x.tasks)[i] \in Tasks(x)
    BY <1>2 DEF Tasks
  <2>3. Head(x.tasks) \in Tasks(x)
    BY <1>2 DEF Tasks
  <2> QED  BY <1>3, <2>1, <2>2, <2>3 DEF Tasks
<1> QED  BY <1>2, <1>3, <1>4

\* Dispatching a task to the strand changes nothing but the tasks.
LEMMA DispatchKeeps ==
  ASSUME NEW x \in Listener, ListenerSound(x), NEW t \in Task
  PROVE  LET z == [x EXCEPT !.tasks = Append(x.tasks, t)]
         IN  /\ Kept(x, z) /\ z.sessions = x.sessions
             /\ Tasks(z) = Tasks(x) \cup {t}
<1> DEFINE z == [x EXCEPT !.tasks = Append(x.tasks, t)]
<1>1. x.tasks \in Seq(Task)
  BY DEF Listener, Task
<1>2. /\ Append(x.tasks, t) \in Seq(Task)
      /\ DOMAIN Append(x.tasks, t) = 1 .. (Len(x.tasks) + 1)
      /\ \A i \in 1 .. Len(x.tasks) : Append(x.tasks, t)[i] = x.tasks[i]
      /\ Append(x.tasks, t)[Len(x.tasks) + 1] = t
      /\ DOMAIN x.tasks = 1 .. Len(x.tasks) /\ Len(x.tasks) \in Nat
  BY <1>1, AppendProperties, LenProperties
<1>3. /\ z \in Listener /\ ListenerSound(z) /\ z.accept = x.accept
      /\ z.made = x.made /\ z.minimum_runtime_revision = x.minimum_runtime_revision
      /\ z.open = x.open /\ z.retired = x.retired /\ z.stopping = x.stopping
      /\ z.sessions = x.sessions /\ z.tasks = Append(x.tasks, t)
  BY <1>2 DEF Listener, Task, ListenerSound, Finished
<1> HIDE DEF z
<1>4. Tasks(z) = Tasks(x) \cup {t}
  <2>1. ASSUME NEW i \in 1 .. (Len(x.tasks) + 1)
        PROVE  Append(x.tasks, t)[i] \in Tasks(x) \cup {t}
    BY <1>2 DEF Tasks
  <2>2. ASSUME NEW i \in DOMAIN x.tasks
        PROVE  x.tasks[i] \in Tasks(z)
    BY <1>2, <1>3 DEF Tasks
  <2>3. t \in Tasks(z)
    BY <1>2, <1>3 DEF Tasks
  <2> QED  BY <1>2, <1>3, <2>1, <2>2, <2>3 DEF Tasks
<1>5. Kept(x, z)
  BY <1>3, <1>4 DEF Kept, ToClose
<1> QED  BY <1>3, <1>4, <1>5 DEF z

\* stop() sets the flag and dispatches.
LEMMA RequestStopKeeps ==
  ASSUME NEW x \in Listener, ListenerSound(x)
  PROVE  /\ Kept(x, RequestStop(x)) /\ RequestStop(x).sessions = x.sessions
         /\ Tasks(RequestStop(x)) = Tasks(x) \cup {"stop"} /\ RequestStop(x).stopping
<1> DEFINE y == [x EXCEPT !.tasks = Append(x.tasks, "stop")]
           z == RequestStop(x)
<1>1. Kept(x, y) /\ y.sessions = x.sessions /\ Tasks(y) = Tasks(x) \cup {"stop"}
  BY DispatchKeeps DEF Task
<1>2. y \in Listener /\ z = [y EXCEPT !.stopping = TRUE]
  BY <1>1 DEF Kept, RequestStop, Listener
<1> HIDE DEF y, z
<1>3. /\ z \in Listener /\ ListenerSound(z) /\ z.accept = y.accept
      /\ z.made = y.made /\ z.minimum_runtime_revision = y.minimum_runtime_revision
      /\ z.open = y.open /\ z.retired = y.retired /\ z.stopping
      /\ z.sessions = y.sessions /\ z.tasks = y.tasks
  BY <1>1, <1>2 DEF Kept, Listener, ListenerSound, Finished
<1>4. Tasks(z) = Tasks(y)
  BY <1>3 DEF Tasks
<1>5. Kept(x, z)
  BY <1>1, <1>3, <1>4 DEF Kept, ToClose
<1> QED  BY <1>1, <1>3, <1>4, <1>5 DEF z

\* retire_on_executor closes the acceptor, so the task it came from may go.
LEMMA RetireKeeps ==
  ASSUME NEW x \in Listener, ListenerSound(x), x.tasks # << >>
  PROVE  LET y == RetireOnExecutor(Rest(x))
         IN  Kept(x, y) /\ y.sessions = x.sessions /\ Tasks(y) \subseteq Tasks(x)
<1> DEFINE r == Rest(x)
           z == [r EXCEPT !.retired = TRUE, !.on_drained = "set", !.open = FALSE]
           y == RetireOnExecutor(r)
<1>1. /\ r \in Listener /\ Tasks(r) \subseteq Tasks(x) /\ r = [x EXCEPT !.tasks = Tail(x.tasks)]
  BY RestTasks
<1>2. /\ r.accept = x.accept
      /\ r.made = x.made /\ r.minimum_runtime_revision = x.minimum_runtime_revision
      /\ r.stopping = x.stopping /\ r.sessions = x.sessions
  BY <1>1 DEF Listener
<1> HIDE DEF r
<1>3. /\ z \in Listener /\ ListenerSound(z) /\ z.accept = r.accept
      /\ z.made = r.made /\ z.minimum_runtime_revision = r.minimum_runtime_revision
      /\ ~z.open /\ z.retired /\ z.stopping = r.stopping
      /\ z.sessions = r.sessions /\ z.tasks = r.tasks
  BY <1>1 DEF Listener, ListenerSound, Finished
<1>4. y = NotifyIfDrained(z)
  BY DEF RetireOnExecutor
<1> HIDE DEF z, y
<1>5. /\ y \in Listener /\ ListenerSound(y) /\ y.accept = z.accept
      /\ y.made = z.made /\ y.minimum_runtime_revision = z.minimum_runtime_revision
      /\ ~y.open /\ y.retired /\ y.stopping = z.stopping
      /\ y.sessions = z.sessions /\ y.tasks = z.tasks
  BY <1>3, <1>4, NotifyKeeps DEF ListenerSound
<1>6. Tasks(y) = Tasks(r)
  BY <1>3, <1>5 DEF Tasks
<1>7. Kept(x, y)
  BY <1>2, <1>3, <1>5 DEF Kept
<1> QED  BY <1>1, <1>2, <1>3, <1>5, <1>6, <1>7 DEF y, r

\* The close handler takes its session out and leaves a retirement or a stop behind it in
\* the queue.
LEMMA EraseSessionKeeps ==
  ASSUME NEW x \in Listener, ListenerSound(x), x.tasks # << >>, NEW s \in Sessions,
         Head(x.tasks) = s
  PROVE  LET y == EraseSession(Rest(x), s)
         IN  Kept(x, y) /\ y.sessions = x.sessions \ {s} /\ Tasks(y) \subseteq Tasks(x)
<1> DEFINE r == Rest(x)
           z == [r EXCEPT !.sessions = @ \ {s}]
           y == EraseSession(r, s)
<1>1. /\ r \in Listener /\ Tasks(x) = {s} \cup Tasks(r) /\ r = [x EXCEPT !.tasks = Tail(x.tasks)]
  BY RestTasks
<1>2. /\ r.accept = x.accept /\ r.open = x.open /\ r.retired = x.retired
      /\ r.made = x.made /\ r.minimum_runtime_revision = x.minimum_runtime_revision
      /\ r.stopping = x.stopping /\ r.sessions = x.sessions /\ r.on_drained = x.on_drained
  BY <1>1 DEF Listener
<1> HIDE DEF r
<1>3. /\ z \in Listener /\ z.accept = r.accept
      /\ z.made = r.made /\ z.minimum_runtime_revision = r.minimum_runtime_revision
      /\ z.open = r.open /\ z.retired = r.retired /\ z.stopping = r.stopping
      /\ z.sessions = r.sessions \ {s} /\ z.tasks = r.tasks /\ z.on_drained = r.on_drained
  BY <1>1 DEF Listener
<1>4. y = NotifyIfDrained(z)
  BY DEF EraseSession
<1> HIDE DEF z, y
<1>5. z.accept = "none" => Finished(z)
  BY <1>2, <1>3 DEF ListenerSound, Finished
<1>6. /\ y \in Listener /\ ListenerSound(y) /\ y.accept = z.accept
      /\ y.made = z.made /\ y.minimum_runtime_revision = z.minimum_runtime_revision
      /\ y.open = z.open /\ y.retired = z.retired /\ y.stopping = z.stopping
      /\ y.sessions = z.sessions /\ y.tasks = z.tasks
  BY <1>2, <1>3, <1>4, <1>5, NotifyKeeps DEF ListenerSound
<1>7. Tasks(y) = Tasks(r)
  BY <1>3, <1>6 DEF Tasks
<1>8. ToClose(x) => ToClose(y)
  BY <1>1, <1>7, ServerAssumption DEF ToClose
<1>9. Kept(x, y)
  BY <1>2, <1>3, <1>6, <1>8 DEF Kept
<1> QED  BY <1>1, <1>2, <1>3, <1>6, <1>7, <1>9 DEF y, r

\* stop_on_executor closes the acceptor, so the task it came from may go.
LEMMA CloseAcceptorKeeps ==
  ASSUME NEW x \in Listener, ListenerSound(x), x.tasks # << >>, NEW P
  PROVE  LET y == CloseAcceptor(Rest(x), P)
         IN  Kept(x, y) /\ y.sessions = x.sessions \ P /\ Tasks(y) \subseteq Tasks(x)
<1> DEFINE r == Rest(x)
           y == CloseAcceptor(r, P)
<1>1. /\ r \in Listener /\ Tasks(r) \subseteq Tasks(x) /\ r = [x EXCEPT !.tasks = Tail(x.tasks)]
  BY RestTasks
<1>2. /\ r.accept = x.accept /\ r.retired = x.retired
      /\ r.made = x.made /\ r.minimum_runtime_revision = x.minimum_runtime_revision
      /\ r.stopping = x.stopping /\ r.sessions = x.sessions /\ r.on_drained = x.on_drained
  BY <1>1 DEF Listener
<1> HIDE DEF r
<1>3. /\ y \in Listener /\ y.accept = r.accept
      /\ y.made = r.made /\ y.minimum_runtime_revision = r.minimum_runtime_revision
      /\ ~y.open /\ y.retired = r.retired /\ y.stopping = r.stopping
      /\ y.sessions = r.sessions \ P /\ y.tasks = r.tasks /\ y.on_drained = r.on_drained
  BY <1>1 DEF Listener, CloseAcceptor
<1> HIDE DEF y
<1>4. ListenerSound(y)
  BY <1>2, <1>3 DEF ListenerSound, Finished
<1>5. Tasks(y) = Tasks(r)
  BY <1>3 DEF Tasks
<1>6. Kept(x, y)
  BY <1>2, <1>3, <1>4 DEF Kept
<1> QED  BY <1>1, <1>2, <1>3, <1>5, <1>6 DEF y, r

-----------------------------------------------------------------------------
(* The listeners as a whole                                                *)

\* A listener that is left alone is kept.
LEMMA KeptItself ==
  ASSUME NEW x \in Listener, ListenerSound(x)
  PROVE  Kept(x, x)
BY DEF Kept

\* A listener is its port and its number.
LEMMA IdsType ==
  /\ \A l \in Ids : /\ l[1] \in Ports /\ l[2] \in 1 .. (MaxReloads + 1)
                    /\ l = <<l[1], l[2]>>
  /\ \A p \in Ports, i \in 1 .. (MaxReloads + 1) :
       <<p, i>> \in Ids /\ <<p, i>>[1] = p /\ <<p, i>>[2] = i
BY DEF Ids

\* A step of one listener leaves the others alone.
LEMMA OneListenerKept ==
  ASSUME Listeners, NEW l \in Ids, NEW y, Kept(listener[l], y),
         listener' = [listener EXCEPT ![l] = y]
  PROVE  /\ listener' \in [Ids -> Listener] /\ listener'[l] = y
         /\ \A m \in Ids : Kept(listener[m], listener'[m])
         /\ \A m \in Ids : m # l => listener'[m] = listener[m]
<1>1. y \in Listener
  BY DEF Kept
<1>2. /\ listener' \in [Ids -> Listener] /\ listener'[l] = y
      /\ \A m \in Ids : m # l => listener'[m] = listener[m]
  BY <1>1 DEF Listeners
<1>3. ASSUME NEW m \in Ids PROVE Kept(listener[m], listener'[m])
  <2>1. Kept(listener[m], listener[m])
    BY KeptItself DEF Listeners, ListenersSound
  <2> QED  BY <1>2, <2>1
<1> QED  BY <1>2, <1>3

\* No step but a start makes a listener.
LEMMA KeptMade ==
  ASSUME Listeners, \A l \in Ids : Kept(listener[l], listener'[l])
  PROVE  /\ \A l \in Ids : Made(l)' = Made(l)
         /\ \A p \in Ports, i \in 1 .. (MaxReloads + 1) : Made(<<p, i>>)' = Made(<<p, i>>)
<1>1. \A l \in Ids : Made(l)' = Made(l)
  BY DEF Kept, Made
<1> QED  BY <1>1, IdsType

\* The numbering depends on what is made, not on what becomes of it.
LEMMA KeptNumbered ==
  ASSUME Listeners, \A l \in Ids : Kept(listener[l], listener'[l]),
         UNCHANGED reloads, server # "new" => server' # "new",
         server = "new" => server' = "new",
         current' \cup retired' \subseteq Ids,
         \A l \in current' \cup retired' : Made(l)
  PROVE  Numbered'
<1>1. \A p \in Ports : \E k \in 0 .. (IF server' = "new" THEN 0 ELSE reloads' + 1) :
        \A i \in 1 .. (MaxReloads + 1) : Made(<<p, i>>)' <=> i <= k
  <2>1. \A p \in Ports : \E k \in 0 .. (IF server' = "new" THEN 0 ELSE reloads' + 1) :
          \A i \in 1 .. (MaxReloads + 1) : Made(<<p, i>>) <=> i <= k
    BY DEF Listeners, Numbered
  <2> QED  BY <2>1, KeptMade
<1>2. \A l \in current' \cup retired' : Made(l)'
  BY KeptMade
<1> QED  BY <1>1, <1>2 DEF Listeners, Numbered

\* A step that keeps every listener and leaves the maps alone keeps the listeners' invariant.
LEMMA KeptListeners ==
  ASSUME Listeners, listener' \in [Ids -> Listener],
         \A l \in Ids : Kept(listener[l], listener'[l]),
         UNCHANGED << published, current, retired, prepared, reloads, server >>
  PROVE  Listeners'
<1>1. ListenersSound'
  BY DEF ListenersSound, Kept
<1>2. ASSUME NEW l \in Ids PROVE Placed(l)'
  <2>1. Placed(l) /\ Kept(listener[l], listener'[l])
    BY DEF Listeners, ListenersPlaced
  <2> QED  BY <2>1 DEF Placed, Kept
<1>3. ASSUME NEW l \in Ids PROVE Purposeful(l)'
  <2>1. Purposeful(l) /\ Kept(listener[l], listener'[l])
    BY DEF Listeners, OpenPurposeful
  <2> QED  BY <2>1 DEF Purposeful, Kept
<1>4. Numbered'
  BY KeptNumbered DEF Listeners, Numbered
<1>5. Maps'
  <2>1. \A l \in prepared.added : Made(l)' = Made(l)
    BY KeptMade DEF Listeners
  <2> QED  BY <2>1 DEF Listeners, Maps
<1> QED  BY <1>1, <1>2, <1>3, <1>4, <1>5 DEF Listeners, ListenersPlaced, OpenPurposeful

\* A started listener accepts, has no session and no task.
LEMMA StartedSound ==
  ASSUME NEW r \in Nat
  PROVE  LET y == StartedListener(r)
         IN  /\ y \in Listener /\ ListenerSound(y) /\ y.made /\ y.sessions = {}
             /\ y.minimum_runtime_revision = r /\ Tasks(y) = {}
<1> DEFINE y == StartedListener(r)
<1>1. << >> \in Seq({"retire", "stop"} \cup Sessions) /\ DOMAIN << >> = {}
  BY EmptySeq
<1>2. /\ Unmade \in Listener /\ Unmade.sessions = {} /\ Unmade.tasks = << >>
      /\ Unmade.on_drained = "none"
  BY <1>1 DEF Unmade, Listener
<1>3. /\ y \in Listener /\ y.made /\ y.minimum_runtime_revision = r /\ y.accept = "pending"
      /\ y.sessions = Unmade.sessions /\ y.tasks = Unmade.tasks
      /\ y.on_drained = Unmade.on_drained
  BY <1>2 DEF StartedListener, Listener
<1> HIDE DEF y
<1>4. ListenerSound(y)
  BY <1>2, <1>3 DEF ListenerSound
<1>5. Tasks(y) = {}
  BY <1>1, <1>2, <1>3 DEF Tasks
<1> QED  BY <1>2, <1>3, <1>4, <1>5 DEF y

\* The listener prepare_reload makes for a port has never been made before, and the bound on
\* reloads leaves a number for it.
LEMMA FreshIsNext ==
  ASSUME Listeners, reloads \in 0 .. MaxReloads, reloads < MaxReloads, server # "new",
         NEW p \in Ports
  PROVE  \E k \in 0 .. (reloads + 1) :
           /\ Fresh(p) = <<p, k + 1>> /\ k + 1 \in 1 .. (MaxReloads + 1)
           /\ \A i \in 1 .. (MaxReloads + 1) : Made(<<p, i>>) <=> i <= k
<1>1. PICK k \in 0 .. (reloads + 1) : \A i \in 1 .. (MaxReloads + 1) : Made(<<p, i>>) <=> i <= k
  BY DEF Listeners, Numbered
<1>2. MaxReloads \in Nat /\ k \in Nat /\ k + 1 \in 1 .. (MaxReloads + 1)
  BY ServerAssumption
<1> DEFINE S == {l \in Ids : l[1] = p /\ listener[l].made}
           f == [i \in 1 .. k |-> <<p, i>>]
<1>3. \A i \in 1 .. k : i \in 1 .. (MaxReloads + 1) /\ <<p, i>> \in S
  BY <1>1, <1>2, IdsType DEF Made
<1>4. ASSUME NEW l \in S PROVE l[2] \in 1 .. k /\ l = <<p, l[2]>>
  <2>1. l[2] \in 1 .. (MaxReloads + 1) /\ l = <<p, l[2]>>
    BY IdsType
  <2>2. Made(<<p, l[2]>>)
    BY <2>1 DEF Made
  <2> QED  BY <1>1, <1>2, <2>1, <2>2
<1>5. f \in Bijection(1 .. k, S)
  <2>1. f \in [1 .. k -> S]
    BY <1>3
  <2>2. \A i, j \in 1 .. k : f[i] = f[j] => i = j
    OBVIOUS
  <2>3. \A l \in S : \E i \in 1 .. k : f[i] = l
    BY <1>4
  <2> HIDE DEF f, S
  <2> QED  BY <2>1, <2>2, <2>3 DEF Bijection, Injection, Surjection, IsInjective
<1>6. Cardinality(S) = k
  <2>1. IsFiniteSet(1 .. k) /\ Cardinality(1 .. k) = k
    BY <1>2, FS_Interval
  <2>2. ExistsBijection(1 .. k, S)
    BY <1>5 DEF ExistsBijection
  <2> HIDE DEF S
  <2> QED  BY <2>1, <2>2, FS_Bijection
<1>7. Fresh(p) = <<p, k + 1>>
  BY <1>2, <1>6 DEF Fresh
<1> QED  BY <1>1, <1>2, <1>7

-----------------------------------------------------------------------------
(* Steps of a listener that concern no session                             *)

\* A step that leaves the sessions and the count alone, and takes no open session from its
\* listener, keeps the sessions' invariant.
LEMMA QuietSessions ==
  ASSUME IInv, UNCHANGED << session, active, doubled >>,
         \A s \in Sessions : Open(s) => /\ session[s].at \in current' \cup retired'
                                        /\ s \in listener'[session[s].at].sessions,
         \A l \in Ids : Tasks(listener'[l]) \subseteq Tasks(listener[l]) \cup {"retire", "stop"}
  PROVE  Served'
<1>1. \A s \in Sessions : Open(s)' = Open(s)
  BY DEF Open
<1>2. OpenSessions' = OpenSessions
  BY <1>1 DEF OpenSessions
<1>3. TasksClosed'
  BY ServerAssumption DEF IInv, Served, TasksClosed
<1>4. OpenSessionReachable'
  BY <1>2 DEF OpenSessions, OpenSessionReachable
<1>5. AdmissionExact'
  BY <1>2 DEF IInv, Served, AdmissionExact
<1> QED  BY <1>3, <1>4, <1>5 DEF Served

\* So does a step of one listener that takes no open session out.
LEMMA ListenerStepKeeps ==
  ASSUME IInv, NEW l \in Ids, NEW y, Kept(listener[l], y),
         \A s \in listener[l].sessions : Open(s) => s \in y.sessions,
         Tasks(y) \subseteq Tasks(listener[l]),
         listener' = [listener EXCEPT ![l] = y],
         UNCHANGED << published, current, retired, prepared, reloads, session, active,
                      failures, doubled, server, fault >>
  PROVE  IInv'
<1>1. /\ listener' \in [Ids -> Listener] /\ listener'[l] = y
      /\ \A m \in Ids : Kept(listener[m], listener'[m])
      /\ \A m \in Ids : m # l => listener'[m] = listener[m]
  BY OneListenerKept DEF IInv
<1>2. TypeOK'
  BY <1>1 DEF IInv, TypeOK
<1>3. Listeners'
  BY <1>1, KeptListeners DEF IInv
<1>4. \A s \in Sessions : Open(s) => /\ session[s].at \in current' \cup retired'
                                     /\ s \in listener'[session[s].at].sessions
  <2> SUFFICES ASSUME NEW s \in Sessions, Open(s)
               PROVE  /\ session[s].at \in current \cup retired
                      /\ s \in listener'[session[s].at].sessions
    OBVIOUS
  <2>1. /\ session[s].at \in current \cup retired /\ session[s].at \in Ids
        /\ s \in listener[session[s].at].sessions
    BY DEF IInv, Served, OpenSessionReachable, OpenSessions, Listeners
  <2> QED  BY <1>1, <2>1
<1>5. Served'
  <2>1. \A m \in Ids : Tasks(listener'[m]) \subseteq Tasks(listener[m]) \cup {"retire", "stop"}
    BY <1>1
  <2> QED  BY <1>4, <2>1, QuietSessions
<1> QED  BY <1>2, <1>3, <1>5 DEF IInv

\* The invariant, for one listener.
LEMMA SoundListener ==
  ASSUME IInv, NEW l \in Ids
  PROVE  listener[l] \in Listener /\ ListenerSound(listener[l])
BY DEF IInv, Listeners, ListenersSound

\* What is dispatched depends on the queue alone.
LEMMA SameTasks ==
  ASSUME NEW x, NEW y, y.tasks = x.tasks
  PROVE  Tasks(y) = Tasks(x)
BY DEF Tasks

\* on_accept with an error keeps the invariant.
LEMMA AcceptFailsInv ==
  ASSUME IInv, NEW l \in Ids, NEW aborted \in BOOLEAN, AcceptFails(l, aborted)
  PROVE  IInv'
<1> DEFINE x == listener[l]
           y == AcceptError(x, aborted)
<1>1. x \in Listener /\ ListenerSound(x) /\ x.accept # "none" /\ (aborted => ~x.open)
  BY SoundListener DEF AcceptFails
<1>2. /\ listener' = [listener EXCEPT ![l] = y]
      /\ UNCHANGED << published, current, retired, prepared, reloads, session, active,
                      failures, doubled, server, fault >>
  BY DEF AcceptFails
<1>3. Kept(x, y) /\ y.sessions = x.sessions /\ Tasks(y) = Tasks(x)
  BY <1>1, AcceptErrorKeeps, SameTasks
<1> HIDE DEF y
<1> QED  BY <1>2, <1>3, ListenerStepKeeps

\* on_accept of a connection that may not be served keeps it.
LEMMA AcceptRefusedInv ==
  ASSUME IInv, NEW l \in Ids, AcceptRefused(l)
  PROVE  IInv'
<1> DEFINE x == listener[l]
<1>1. x \in Listener /\ ListenerSound(x) /\ x.accept # "none"
  BY SoundListener DEF AcceptRefused
<1>2. PICK y : /\ (y = AcceptEnds(x) /\ Finished(x)) \/ y = ScheduleAcceptRetry(x)
               /\ listener' = [listener EXCEPT ![l] = y]
  BY DEF AcceptRefused, Finished
<1>3. UNCHANGED << published, current, retired, prepared, reloads, session, active,
                   failures, doubled, server, fault >>
  BY DEF AcceptRefused
<1>4. Kept(x, y) /\ y.sessions = x.sessions /\ Tasks(y) = Tasks(x)
  BY <1>1, <1>2, AcceptEndsKeeps, ScheduleAcceptRetryKeeps, SameTasks
<1> QED  BY <1>2, <1>3, <1>4, ListenerStepKeeps

\* on_accept without a certificate keeps it.
LEMMA AcceptWithoutTlsInv ==
  ASSUME IInv, NEW l \in Ids, AcceptWithoutTls(l)
  PROVE  IInv'
<1> DEFINE x == listener[l]
           y == AcceptNext(x)
<1>1. x \in Listener /\ ListenerSound(x) /\ x.accept # "none"
  BY SoundListener DEF AcceptWithoutTls, Admissible
<1>2. /\ listener' = [listener EXCEPT ![l] = y]
      /\ UNCHANGED << published, current, retired, prepared, reloads, session, active,
                      failures, doubled, server, fault >>
  BY DEF AcceptWithoutTls
<1>3. Kept(x, y) /\ y.sessions = x.sessions /\ Tasks(y) = Tasks(x)
  BY <1>1, AcceptNextKeeps, SameTasks
<1> HIDE DEF y
<1> QED  BY <1>2, <1>3, ListenerStepKeeps

\* The retry timer keeps it.
LEMMA AcceptRetryInv ==
  ASSUME IInv, NEW l \in Ids, AcceptRetry(l)
  PROVE  IInv'
<1> DEFINE x == listener[l]
<1>1. x \in Listener /\ ListenerSound(x) /\ x.accept # "none"
  BY SoundListener DEF AcceptRetry
<1>2. UNCHANGED << published, current, retired, prepared, reloads, session, active,
                   failures, doubled, server, fault >>
  BY DEF AcceptRetry
<1>3. CASE listener' = [listener EXCEPT ![l] = AcceptNext(x)]
  <2> DEFINE y == AcceptNext(x)
  <2>1. Kept(x, y) /\ y.sessions = x.sessions /\ Tasks(y) = Tasks(x)
    BY <1>1, AcceptNextKeeps, SameTasks
  <2>2. listener' = [listener EXCEPT ![l] = y]
    BY <1>3
  <2> HIDE DEF y
  <2> QED  BY <1>2, <2>1, <2>2, ListenerStepKeeps
<1>4. CASE ~x.open /\ listener' = [listener EXCEPT ![l].accept = "none"]
  <2> DEFINE y == [x EXCEPT !.accept = "none"]
  <2>1. Kept(x, y) /\ y.sessions = x.sessions /\ Tasks(y) = Tasks(x)
    BY <1>1, <1>4, RetryCancelledKeeps, SameTasks
  <2>2. listener' = [listener EXCEPT ![l] = y]
    BY <1>4
  <2> HIDE DEF y
  <2> QED  BY <1>2, <2>1, <2>2, ListenerStepKeeps
<1> QED  BY <1>3, <1>4 DEF AcceptRetry

\* retire_on_executor keeps it.
LEMMA RetireInv ==
  ASSUME IInv, NEW l \in Ids, Retire(l)
  PROVE  IInv'
<1> DEFINE x == listener[l]
           y == RetireOnExecutor(Rest(x))
<1>1. x \in Listener /\ ListenerSound(x) /\ x.tasks # << >>
  BY SoundListener DEF Retire, Dispatched
<1>2. /\ listener' = [listener EXCEPT ![l] = y]
      /\ UNCHANGED << published, current, retired, prepared, reloads, session, active,
                      failures, doubled, server, fault >>
  BY DEF Retire
<1>3. Kept(x, y) /\ y.sessions = x.sessions /\ Tasks(y) \subseteq Tasks(x)
  BY <1>1, RetireKeeps
<1> HIDE DEF y
<1> QED  BY <1>2, <1>3, ListenerStepKeeps

\* The close handler takes out a session that is closed already.
LEMMA SessionClosedInv ==
  ASSUME IInv, NEW l \in Ids, NEW s \in Sessions, SessionClosed(l, s)
  PROVE  IInv'
<1> DEFINE x == listener[l]
           y == EraseSession(Rest(x), s)
<1>1. x \in Listener /\ ListenerSound(x) /\ x.tasks # << >> /\ Head(x.tasks) = s
  BY SoundListener DEF SessionClosed, Dispatched
<1>2. /\ listener' = [listener EXCEPT ![l] = y]
      /\ UNCHANGED << published, current, retired, prepared, reloads, session, active,
                      failures, doubled, server, fault >>
  BY DEF SessionClosed
<1>3. Kept(x, y) /\ y.sessions = x.sessions \ {s} /\ Tasks(y) \subseteq Tasks(x)
  BY <1>1, EraseSessionKeeps
<1>4. ~Open(s)
  <2>1. s \in Tasks(x)
    BY <1>1, RestTasks
  <2> QED  BY <2>1 DEF IInv, Served, TasksClosed, Open
<1> HIDE DEF y
<1> QED  BY <1>2, <1>3, <1>4, ListenerStepKeeps

-----------------------------------------------------------------------------
(* Admission                                                               *)

\* There are finitely many open sessions.
LEMMA OpenFinite ==
  /\ IsFiniteSet(OpenSessions) /\ Cardinality(OpenSessions) \in Nat
  /\ Cardinality(OpenSessions) <= Cardinality(Sessions) /\ Cardinality(Sessions) \in Nat
  /\ OpenSessions \subseteq Sessions
<1>1. OpenSessions \subseteq Sessions
  BY DEF OpenSessions
<1> QED  BY <1>1, ServerAssumption, FS_Subset, FS_CardinalityType

\* The counter is wide enough for the sessions and the limit.
LEMMA CounterType ==
  /\ Modulus \in Nat \ {0} /\ MaximumConnections \in Nat \ {0}
  /\ Modulus > Cardinality(Sessions) + MaximumConnections /\ Cardinality(Sessions) \in Nat
BY ServerAssumption, FS_CardinalityType

\* A failed allocation leaves the count exact or marks it as given back twice.
LEMMA AcceptThrowsInv ==
  ASSUME IInv, NEW l \in Ids, NEW controlBlock \in BOOLEAN, AcceptThrows(l, controlBlock)
  PROVE  IInv'
<1> DEFINE x == listener[l]
           y == ScheduleAcceptRetry(x)
<1>1. x \in Listener /\ ListenerSound(x) /\ x.accept # "none"
  BY SoundListener DEF AcceptThrows, Admissible
<1>2. /\ listener' = [listener EXCEPT ![l] = y]
      /\ failures < MaxAllocFailures /\ failures' = failures + 1
      /\ active' = IF controlBlock THEN (active + Modulus - 1) % Modulus ELSE active
      /\ doubled' = (doubled \/ controlBlock)
      /\ UNCHANGED << published, current, retired, prepared, reloads, session, server, fault >>
  BY DEF AcceptThrows
<1>3. Kept(x, y) /\ y.sessions = x.sessions /\ Tasks(y) = Tasks(x)
  BY <1>1, ScheduleAcceptRetryKeeps, SameTasks
<1> HIDE DEF y
<1>4. /\ listener' \in [Ids -> Listener] /\ listener'[l] = y
      /\ \A m \in Ids : Kept(listener[m], listener'[m])
      /\ \A m \in Ids : m # l => listener'[m] = listener[m]
  BY <1>2, <1>3, OneListenerKept DEF IInv
<1>5. active' \in 0 .. (Modulus - 1)
  <2>1. active \in 0 .. (Modulus - 1)
    BY DEF IInv, TypeOK
  <2>2. active + Modulus - 1 \in Int
    BY <2>1, CounterType
  <2> QED  BY <1>2, <2>1, <2>2, ModRange, CounterType
<1>6. failures' \in 0 .. MaxAllocFailures /\ doubled' \in BOOLEAN
  BY <1>2, ServerAssumption DEF IInv, TypeOK
<1>7. TypeOK'
  BY <1>2, <1>4, <1>5, <1>6 DEF IInv, TypeOK
<1>8. Listeners'
  BY <1>2, <1>4, KeptListeners DEF IInv
<1>9. \A s \in Sessions : Open(s)' = Open(s)
  BY <1>2 DEF Open
<1>10. OpenSessions' = OpenSessions
  BY <1>9 DEF OpenSessions
<1>11. TasksClosed'
  <2>1. \A m \in Ids : Tasks(listener'[m]) = Tasks(listener[m])
    BY <1>3, <1>4
  <2> QED  BY <1>2, <2>1 DEF IInv, Served, TasksClosed
<1>12. OpenSessionReachable'
  <2>1. \A m \in Ids : listener'[m].sessions = listener[m].sessions
    BY <1>3, <1>4
  <2> QED  BY <1>2, <1>10, <2>1 DEF IInv, Served, OpenSessionReachable, Listeners
<1>13. AdmissionExact'
  BY <1>2, <1>10 DEF IInv, Served, AdmissionExact
<1> QED  BY <1>7, <1>8, <1>11, <1>12, <1>13 DEF IInv, Served

\* A listener that admits a connection is in one of the two maps: one that a reload has made
\* ahead waits for a later revision, and one that was dropped is stopping or retired.
LEMMA AdmissiblePlaced ==
  ASSUME IInv, NEW l \in Ids, Admissible(l)
  PROVE  l \in current \cup retired
<1>1. published.revision \in Nat /\ listener[l].minimum_runtime_revision \in Nat
  BY SoundListener DEF IInv, TypeOK, Listener
<1>2. Placed(l)
  BY DEF IInv, Listeners, ListenersPlaced
<1> QED  BY <1>1, <1>2 DEF Placed, Admissible, GateOpen

\* Admission counts the one session it opens.
LEMMA AcceptSessionInv ==
  ASSUME IInv, NEW l \in Ids, NEW s \in Sessions, AcceptSession(l, s)
  PROVE  IInv'
<1> DEFINE x == listener[l]
           y == Admit(x, s)
           new == [at |-> l, state |-> "idle", stop |-> FALSE]
<1>1. x \in Listener /\ ListenerSound(x) /\ x.accept # "none" /\ ~x.retired
  BY SoundListener DEF AcceptSession, Admissible
<1>2. /\ listener' = [listener EXCEPT ![l] = y]
      /\ session[s].state = "none" /\ session' = [session EXCEPT ![s] = new]
      /\ active < MaximumConnections /\ active' = (active + 1) % Modulus
      /\ UNCHANGED << published, current, retired, prepared, reloads, failures, doubled,
                      server, fault >>
  BY DEF AcceptSession, Admissible
<1>3. Kept(x, y) /\ y.sessions = x.sessions \cup {s} /\ Tasks(y) = Tasks(x)
  BY <1>1, AdmitKeeps, SameTasks
<1>4. l \in current \cup retired
  BY AdmissiblePlaced DEF AcceptSession
<1>5. active \in 0 .. (Modulus - 1)
  BY DEF IInv, TypeOK
<1>6. active' = active + 1 /\ active' \in 0 .. (Modulus - 1)
  <2>1. active + 1 \in 0 .. (Modulus - 1)
    BY <1>2, <1>5, CounterType
  <2> QED  BY <1>2, <2>1, ModKeeps, CounterType
<1> DEFINE SType == [at: Ids \cup {Nobody}, stop: BOOLEAN,
                     state: {"none", "idle", "busy", "closed"}]
<1>7. new \in SType /\ new.at = l /\ new.state = "idle"
  OBVIOUS
<1>8. session \in [Sessions -> SType]
  BY DEF IInv, TypeOK
<1> HIDE DEF y, new, SType
<1>9. /\ session' \in [Sessions -> SType] /\ session'[s] = new
      /\ \A t \in Sessions : t # s => session'[t] = session[t]
  BY <1>2, <1>7, <1>8
<1>10. /\ listener' \in [Ids -> Listener] /\ listener'[l] = y
       /\ \A m \in Ids : Kept(listener[m], listener'[m])
       /\ \A m \in Ids : m # l => listener'[m] = listener[m]
  BY <1>2, <1>3, OneListenerKept DEF IInv
<1>11. TypeOK'
  BY <1>2, <1>6, <1>9, <1>10 DEF IInv, TypeOK, SType
<1>12. Listeners'
  BY <1>2, <1>10, KeptListeners DEF IInv
<1>13. /\ Open(s)' /\ ~Open(s)
       /\ \A t \in Sessions : t # s => Open(t)' = Open(t)
  BY <1>2, <1>7, <1>9 DEF Open
<1>14. OpenSessions' = OpenSessions \cup {s} /\ s \notin OpenSessions
  BY <1>13 DEF OpenSessions
<1>15. TasksClosed'
  <2>1. \A m \in Ids : Tasks(listener'[m]) = Tasks(listener[m])
    BY <1>3, <1>10
  <2>2. ASSUME NEW m \in Ids, NEW t \in Sessions, t \in Tasks(listener[m])
        PROVE  session'[t].state = "closed"
    <3>1. session[t].state = "closed"
      BY <2>2 DEF IInv, Served, TasksClosed
    <3> QED  BY <1>2, <1>9, <3>1
  <2> QED  BY <2>1, <2>2 DEF TasksClosed
<1>16. OpenSessionReachable'
  <2>1. ASSUME NEW t \in OpenSessions'
        PROVE  session'[t].at \in current \cup retired /\ t \in listener'[session'[t].at].sessions
    <3>1. CASE t = s
      BY <1>3, <1>4, <1>7, <1>9, <1>10, <3>1
    <3>2. CASE t # s
      <4>1. t \in OpenSessions /\ session'[t] = session[t]
        BY <1>9, <1>14, <2>1, <3>2 DEF OpenSessions
      <4>2. /\ session[t].at \in current \cup retired /\ session[t].at \in Ids
            /\ t \in listener[session[t].at].sessions
        BY <4>1 DEF IInv, Served, OpenSessionReachable, Listeners
      <4> QED  BY <1>3, <1>10, <4>1, <4>2
    <3> QED  BY <3>1, <3>2
  <2> QED  BY <1>2, <2>1 DEF OpenSessionReachable
<1>17. AdmissionExact'
  <2>1. Cardinality(OpenSessions') = Cardinality(OpenSessions) + 1
    BY <1>14, OpenFinite, FS_AddElement
  <2> QED  BY <1>2, <1>5, <1>6, <2>1, OpenFinite, CounterType DEF IInv, Served, AdmissionExact
<1> QED  BY <1>11, <1>12, <1>15, <1>16, <1>17 DEF IInv, Served

-----------------------------------------------------------------------------
(* Sessions                                                                *)

SessionRecord == [at: Ids \cup {Nobody}, stop: BOOLEAN,
                  state: {"none", "idle", "busy", "closed"}]

\* close() gives back the one permit of its session and dispatches its removal.
LEMMA CloseSessionInv ==
  ASSUME IInv, NEW s \in Sessions, Open(s), CloseSession(s),
         UNCHANGED << published, current, retired, prepared, reloads, failures, doubled,
                      server, fault >>
  PROVE  IInv'
<1> DEFINE l == session[s].at
           x == listener[l]
           y == [x EXCEPT !.tasks = Append(x.tasks, s)]
<1>1. l \in current \cup retired /\ l \in Ids
  BY DEF IInv, Served, OpenSessionReachable, OpenSessions, Listeners
<1>2. x \in Listener /\ ListenerSound(x)
  BY <1>1, SoundListener
<1>3. Kept(x, y) /\ y.sessions = x.sessions /\ Tasks(y) = Tasks(x) \cup {s}
  BY <1>2, DispatchKeeps DEF Task
<1>4. listener' = [listener EXCEPT ![l] = y]
  BY DEF CloseSession
<1>5. session \in [Sessions -> SessionRecord]
  BY DEF IInv, TypeOK, SessionRecord
<1>6. Closed(s) \in SessionRecord /\ Closed(s).state = "closed"
  BY <1>5 DEF Closed, SessionRecord
<1> HIDE DEF l, x, y
<1>7. /\ session' \in [Sessions -> SessionRecord] /\ session'[s].state = "closed"
      /\ \A t \in Sessions : t # s => session'[t] = session[t]
  BY <1>5, <1>6 DEF CloseSession
<1>8. /\ listener' \in [Ids -> Listener] /\ listener'[l] = y
      /\ \A m \in Ids : Kept(listener[m], listener'[m])
      /\ \A m \in Ids : m # l => listener'[m] = listener[m]
  BY <1>1, <1>3, <1>4, OneListenerKept DEF IInv, x
<1>9. active \in 0 .. (Modulus - 1) /\ active' = (active + Modulus - 1) % Modulus
  BY DEF IInv, TypeOK, CloseSession
<1>10. active' \in 0 .. (Modulus - 1)
  <2>1. active + Modulus - 1 \in Int
    BY <1>9, CounterType
  <2> QED  BY <1>9, <2>1, ModRange, CounterType
<1>11. TypeOK'
  BY <1>7, <1>8, <1>10 DEF IInv, TypeOK, SessionRecord
<1>12. Listeners'
  BY <1>8, KeptListeners DEF IInv
<1>13. ~Open(s)' /\ \A t \in Sessions : t # s => Open(t)' = Open(t)
  BY <1>7 DEF Open
<1>14. OpenSessions' = OpenSessions \ {s} /\ s \in OpenSessions
  BY <1>13 DEF OpenSessions
<1>15. TasksClosed'
  <2>1. ASSUME NEW m \in Ids, NEW t \in Sessions, t \in Tasks(listener'[m])
        PROVE  session'[t].state = "closed"
    <3>1. t = s \/ t \in Tasks(listener[m])
      BY <1>3, <1>8, <2>1 DEF x
    <3>2. t \in Tasks(listener[m]) => session[t].state = "closed"
      BY DEF IInv, Served, TasksClosed
    <3> QED  BY <1>7, <3>1, <3>2
  <2> QED  BY <2>1 DEF TasksClosed
<1>16. OpenSessionReachable'
  <2>1. ASSUME NEW t \in OpenSessions'
        PROVE  session'[t].at \in current \cup retired /\ t \in listener'[session'[t].at].sessions
    <3>1. t \in OpenSessions /\ session'[t] = session[t]
      BY <1>7, <1>14, <2>1 DEF OpenSessions
    <3>2. /\ session[t].at \in current \cup retired /\ session[t].at \in Ids
          /\ t \in listener[session[t].at].sessions
      BY <3>1 DEF IInv, Served, OpenSessionReachable, Listeners
    <3> QED  BY <1>3, <1>8, <3>1, <3>2 DEF x
  <2> QED  BY <2>1 DEF OpenSessionReachable
<1>17. AdmissionExact'
  <2>1. Cardinality(OpenSessions') = Cardinality(OpenSessions) - 1
        /\ Cardinality(OpenSessions') \in Nat
    <3>1. IsFiniteSet(OpenSessions \ {s})
          /\ Cardinality(OpenSessions \ {s}) = Cardinality(OpenSessions) - 1
      BY <1>14, OpenFinite, FS_RemoveElement
    <3> QED  BY <1>14, <3>1, FS_CardinalityType
  <2>2. ASSUME ~doubled
        PROVE  active' = Cardinality(OpenSessions') /\ active' <= MaximumConnections
    <3>1. active = Cardinality(OpenSessions) /\ active <= MaximumConnections
      BY <2>2 DEF IInv, Served, AdmissionExact
    <3>2. active - 1 \in 0 .. (Modulus - 1)
      BY <1>9, <2>1, <3>1, OpenFinite, CounterType
    <3>3. (active - 1 + Modulus) % Modulus = active - 1
      BY <3>2, ModKeeps, CounterType
    <3>4. active + Modulus - 1 = active - 1 + Modulus
      BY <1>9, CounterType
    <3> QED  BY <1>9, <2>1, <3>1, <3>3, <3>4, CounterType
  <2> QED  BY <2>2 DEF AdmissionExact
<1> QED  BY <1>11, <1>12, <1>15, <1>16, <1>17 DEF IInv, Served

\* A session that goes on working stays open.
LEMMA SessionWorksInv ==
  ASSUME IInv, NEW s \in Sessions,
         SessionWorks(s) \/ (SessionStops(s) /\ session[s].state # "idle")
  PROVE  IInv'
<1>1. session \in [Sessions -> SessionRecord]
  BY DEF IInv, TypeOK, SessionRecord
<1>2. PICK z : /\ z \in SessionRecord /\ z.at = session[s].at
               /\ (z.state \in {"idle", "busy"}) = Open(s)
               /\ z.state = "closed" <=> session[s].state = "closed"
               /\ session' = [session EXCEPT ![s] = z]
  <2>1. CASE session[s].state = "idle" /\ session' = [session EXCEPT ![s].state = "busy"]
    <3> WITNESS [session[s] EXCEPT !.state = "busy"]
    <3> QED  BY <1>1, <2>1 DEF SessionRecord, Open
  <2>2. CASE session[s].state = "busy" /\ session' = [session EXCEPT ![s].state = "idle"]
    <3> WITNESS [session[s] EXCEPT !.state = "idle"]
    <3> QED  BY <1>1, <2>2 DEF SessionRecord, Open
  <2>3. CASE session' = [session EXCEPT ![s].stop = FALSE]
    <3> WITNESS [session[s] EXCEPT !.stop = FALSE]
    <3> QED  BY <1>1, <2>3 DEF SessionRecord, Open
  <2> QED  BY <2>1, <2>2, <2>3 DEF SessionWorks, SessionStops
<1>3. UNCHANGED << published, listener, current, retired, prepared, reloads, active,
                   failures, doubled, server, fault >>
  BY DEF SessionWorks, SessionStops
<1>4. /\ session' \in [Sessions -> SessionRecord]
      /\ \A t \in Sessions : /\ session'[t].at = session[t].at /\ Open(t)' = Open(t)
                             /\ session'[t].state = "closed" <=> session[t].state = "closed"
  BY <1>1, <1>2 DEF Open
<1>5. TypeOK'
  BY <1>3, <1>4 DEF IInv, TypeOK, SessionRecord
<1>6. Listeners'
  <2>1. \A m \in Ids : Kept(listener[m], listener'[m])
    BY <1>3, KeptItself, SoundListener
  <2> QED  BY <1>3, <2>1, KeptListeners DEF IInv, Listeners
<1>7. OpenSessions' = OpenSessions
  BY <1>4 DEF OpenSessions
<1>8. TasksClosed'
  BY <1>3, <1>4 DEF IInv, Served, TasksClosed
<1>9. OpenSessionReachable'
  <2>1. OpenSessions \subseteq Sessions
    BY OpenFinite
  <2> QED  BY <1>3, <1>4, <1>7, <2>1 DEF IInv, Served, OpenSessionReachable
<1>10. AdmissionExact'
  BY <1>3, <1>7 DEF IInv, Served, AdmissionExact
<1> QED  BY <1>5, <1>6, <1>8, <1>9, <1>10 DEF IInv, Served

\* stop_on_executor gives back one permit for each session that closes in place.
LEMMA StopOnExecutorInv ==
  ASSUME IInv, NEW l \in Ids, StopOnExecutor(l)
  PROVE  IInv'
<1> DEFINE x == listener[l]
           Idle == {s \in listener[l].sessions : session[s].state = "idle"}
<1>1. PICK P \in SUBSET Idle :
        /\ fault' = (P # {})
        /\ listener' = [listener EXCEPT ![l] = CloseAcceptor(Rest(x), P)]
        /\ session' = [s \in Sessions |->
                         IF s \in P THEN Closed(s)
                         ELSE IF s \in x.sessions /\ Open(s)
                              THEN [session[s] EXCEPT !.stop = TRUE] ELSE session[s]]
        /\ active' = (active + Modulus - Cardinality(P)) % Modulus
  BY DEF StopOnExecutor
<1> DEFINE y == CloseAcceptor(Rest(x), P)
<1>2. UNCHANGED << published, current, retired, prepared, reloads, failures, doubled, server >>
  BY DEF StopOnExecutor
<1>3. x \in Listener /\ ListenerSound(x) /\ x.tasks # << >>
  BY SoundListener DEF StopOnExecutor, Dispatched
<1>4. Kept(x, y) /\ y.sessions = x.sessions \ P /\ Tasks(y) \subseteq Tasks(x)
  BY <1>3, CloseAcceptorKeeps
<1>5. session \in [Sessions -> SessionRecord]
  BY DEF IInv, TypeOK, SessionRecord
<1>6. ASSUME NEW s \in Sessions
      PROVE  /\ session'[s] \in SessionRecord /\ session'[s].at = session[s].at
             /\ s \in P => session'[s].state = "closed"
             /\ s \notin P => session'[s].state = session[s].state
  <2>1. session[s] \in SessionRecord
    BY <1>5
  <2>2. CASE s \in P
    <3>1. session'[s] = Closed(s)
      BY <1>1, <2>2
    <3> QED  BY <2>1, <2>2, <3>1 DEF Closed, SessionRecord
  <2>3. CASE s \notin P
    <3>1. session'[s] = [session[s] EXCEPT !.stop = TRUE] \/ session'[s] = session[s]
      BY <1>1, <2>3
    <3> QED  BY <2>1, <2>3, <3>1 DEF SessionRecord
  <2> QED  BY <2>2, <2>3
<1>7. session' \in [Sessions -> SessionRecord]
  <2>1. session' = [s \in Sessions |-> session'[s]]
    BY <1>1
  <2> QED  BY <1>6, <2>1
<1>8. P \subseteq OpenSessions
  <2>1. x.sessions \subseteq Sessions
    BY <1>3 DEF Listener
  <2> QED  BY <2>1 DEF OpenSessions, Open
<1>9. listener' = [listener EXCEPT ![l] = y]
  BY <1>1
<1> HIDE DEF y, x, Idle
<1>10. /\ listener' \in [Ids -> Listener] /\ listener'[l] = y
       /\ \A m \in Ids : Kept(listener[m], listener'[m])
       /\ \A m \in Ids : m # l => listener'[m] = listener[m]
  BY <1>4, <1>9, OneListenerKept DEF IInv, x
<1>11. /\ IsFiniteSet(P) /\ Cardinality(P) \in Nat
       /\ Cardinality(P) <= Cardinality(OpenSessions)
  BY <1>8, OpenFinite, FS_Subset, FS_CardinalityType
<1>12. active \in 0 .. (Modulus - 1)
  BY DEF IInv, TypeOK
<1>13. active' \in 0 .. (Modulus - 1)
  <2>1. active + Modulus - Cardinality(P) \in Int
    BY <1>11, <1>12, CounterType
  <2> QED  BY <1>1, <2>1, ModRange, CounterType
<1>14. fault' \in BOOLEAN
  BY <1>1
<1>15. TypeOK'
  BY <1>2, <1>7, <1>10, <1>13, <1>14 DEF IInv, TypeOK, SessionRecord
<1>16. Listeners'
  BY <1>2, <1>10, KeptListeners DEF IInv
<1>17. \A s \in Sessions : Open(s)' <=> Open(s) /\ s \notin P
  BY <1>6 DEF Open
<1>18. OpenSessions' = OpenSessions \ P
  BY <1>17 DEF OpenSessions
<1>19. TasksClosed'
  <2>1. ASSUME NEW m \in Ids, NEW t \in Sessions, t \in Tasks(listener'[m])
        PROVE  session'[t].state = "closed"
    <3>1. t \in Tasks(listener[m])
      BY <1>4, <1>10, <2>1 DEF x
    <3>2. session[t].state = "closed"
      BY <3>1 DEF IInv, Served, TasksClosed
    <3> QED  BY <1>6, <3>2
  <2> QED  BY <2>1 DEF TasksClosed
<1>20. OpenSessionReachable'
  <2>1. ASSUME NEW t \in OpenSessions'
        PROVE  session'[t].at \in current \cup retired /\ t \in listener'[session'[t].at].sessions
    <3>1. t \in OpenSessions /\ t \notin P /\ session'[t].at = session[t].at
      BY <1>6, <1>18, <2>1 DEF OpenSessions
    <3>2. /\ session[t].at \in current \cup retired /\ session[t].at \in Ids
          /\ t \in listener[session[t].at].sessions
      BY <3>1 DEF IInv, Served, OpenSessionReachable, Listeners
    <3> QED  BY <1>4, <1>10, <3>1, <3>2 DEF x
  <2> QED  BY <1>2, <2>1 DEF OpenSessionReachable
<1>21. AdmissionExact'
  <2>1. Cardinality(OpenSessions') = Cardinality(OpenSessions) - Cardinality(P)
    <3>1. OpenSessions \cap P = P
      BY <1>8
    <3>2. Cardinality(OpenSessions \ P)
            = Cardinality(OpenSessions) - Cardinality(OpenSessions \cap P)
      <4>1. IsFiniteSet(OpenSessions)
        BY OpenFinite
      <4> QED  BY <4>1, FS_Difference
    <3> QED  BY <1>18, <3>1, <3>2
  <2>2. ASSUME ~doubled
        PROVE  active' = Cardinality(OpenSessions') /\ active' <= MaximumConnections
    <3> DEFINE n == active - Cardinality(P)
    <3>1. active = Cardinality(OpenSessions) /\ active <= MaximumConnections
      BY <2>2 DEF IInv, Served, AdmissionExact
    <3>2. n \in 0 .. (Modulus - 1) /\ n <= MaximumConnections
      BY <1>11, <1>12, <3>1, OpenFinite, CounterType
    <3>3. active + Modulus - Cardinality(P) = n + Modulus
      BY <1>11, <1>12, CounterType
    <3> HIDE DEF n
    <3>4. active' = n
      BY <1>1, <3>2, <3>3, ModKeeps, CounterType
    <3> QED  BY <2>1, <3>1, <3>2, <3>4 DEF n
  <2> QED  BY <1>2, <2>2 DEF AdmissionExact
<1> QED  BY <1>15, <1>16, <1>19, <1>20, <1>21 DEF IInv, Served

-----------------------------------------------------------------------------
(* Reload, retirement and stop                                             *)

\* The drained handler forgets a listener that has no session left.
LEMMA DrainedInv ==
  ASSUME IInv, NEW l \in Ids, Drained(l)
  PROVE  IInv'
<1> DEFINE x == listener[l]
           y == [x EXCEPT !.on_drained = "done"]
<1>1. /\ x \in Listener /\ ListenerSound(x) /\ x.on_drained = "posted"
      /\ x.retired /\ x.sessions = {}
  BY SoundListener DEF Drained, ListenerSound
<1>2. /\ y \in Listener /\ y.accept = x.accept
      /\ y.made = x.made /\ y.minimum_runtime_revision = x.minimum_runtime_revision
      /\ y.open = x.open /\ y.retired = x.retired /\ y.stopping = x.stopping
      /\ y.sessions = x.sessions /\ y.tasks = x.tasks
  BY <1>1 DEF Listener
<1>3. /\ listener' = [listener EXCEPT ![l] = y]
      /\ prepared.state = "none" /\ retired' = retired \ {l}
      /\ UNCHANGED << published, current, prepared, reloads, session, active, failures,
                      doubled, server, fault >>
  BY DEF Drained
<1> HIDE DEF y
<1>4. Kept(x, y) /\ Tasks(y) = Tasks(x)
  BY <1>1, <1>2 DEF Kept, ListenerSound, Finished, ToClose, Tasks
<1>5. /\ listener' \in [Ids -> Listener] /\ listener'[l] = y
      /\ \A m \in Ids : Kept(listener[m], listener'[m])
      /\ \A m \in Ids : m # l => listener'[m] = listener[m]
  BY <1>3, <1>4, OneListenerKept DEF IInv
<1>6. TypeOK'
  BY <1>3, <1>5 DEF IInv, TypeOK
<1>7. Listeners'
  <2>1. ListenersSound'
    BY <1>5 DEF ListenersSound, Kept
  <2>2. ASSUME NEW m \in Ids PROVE Placed(m)'
    <3>1. CASE m = l
      BY <1>1, <1>2, <1>5, <3>1 DEF Placed
    <3>2. CASE m # l
      BY <1>3, <1>5, <3>2 DEF IInv, Listeners, ListenersPlaced, Placed
    <3> QED  BY <3>1, <3>2
  <2>3. ASSUME NEW m \in Ids PROVE Purposeful(m)'
    <3>1. Purposeful(m) /\ Kept(listener[m], listener'[m])
      BY <1>5 DEF IInv, Listeners, OpenPurposeful
    <3> QED  BY <1>3, <3>1 DEF Purposeful, Kept
  <2>4. Numbered'
    <3>1. current' \cup retired' \subseteq current \cup retired
      BY <1>3
    <3>2. current \cup retired \subseteq Ids /\ \A m \in current \cup retired : Made(m)
      BY DEF IInv, Listeners, Numbered
    <3> QED  BY <1>3, <1>5, <3>1, <3>2, KeptNumbered DEF IInv
  <2>5. Maps'
    BY <1>3 DEF IInv, Listeners, Maps
  <2>6. current' \subseteq Ids /\ retired' \subseteq Ids /\ prepared'.added \subseteq Ids
    BY <1>3 DEF IInv, Listeners
  <2> QED  BY <1>5, <2>1, <2>2, <2>3, <2>4, <2>5, <2>6
           DEF Listeners, ListenersPlaced, OpenPurposeful
<1>8. \A s \in Sessions : Open(s) => /\ session[s].at \in current' \cup retired'
                                     /\ s \in listener'[session[s].at].sessions
  <2> SUFFICES ASSUME NEW s \in Sessions, Open(s)
               PROVE  /\ session[s].at \in current' \cup retired'
                      /\ s \in listener'[session[s].at].sessions
    OBVIOUS
  <2>1. /\ session[s].at \in current \cup retired /\ session[s].at \in Ids
        /\ s \in listener[session[s].at].sessions
    BY DEF IInv, Served, OpenSessionReachable, OpenSessions, Listeners
  <2> QED  BY <1>1, <1>3, <1>5, <2>1
<1>9. Served'
  <2>1. \A m \in Ids : Tasks(listener'[m]) \subseteq Tasks(listener[m]) \cup {"retire", "stop"}
    BY <1>4, <1>5
  <2> QED  BY <1>3, <1>8, <2>1, QuietSessions
<1> QED  BY <1>6, <1>7, <1>9 DEF IInv

\* What a step of the administration thread leaves to be shown.
LEMMA ControlStep ==
  ASSUME IInv, TypeOK', \A m \in Ids : Kept(listener[m], listener'[m]),
         \A m \in Ids : /\ listener'[m].sessions = listener[m].sessions
                        /\ Tasks(listener'[m]) \subseteq Tasks(listener[m]) \cup {"retire", "stop"},
         current \cup retired \subseteq current' \cup retired',
         \A m \in current' \cup retired' : Made(m),
         UNCHANGED << reloads, session, active, doubled >>,
         server # "new" => server' # "new", server = "new" => server' = "new",
         \A m \in Ids : Placed(m)' /\ Purposeful(m)', Maps'
  PROVE  IInv'
<1>1. /\ listener' \in [Ids -> Listener] /\ current' \subseteq Ids /\ retired' \subseteq Ids
      /\ prepared'.added \subseteq Ids
  BY DEF TypeOK
<1>2. ListenersSound'
  BY DEF ListenersSound, Kept
<1>3. Numbered'
  BY <1>1, KeptNumbered DEF IInv
<1>4. Listeners'
  BY <1>1, <1>2, <1>3 DEF Listeners, ListenersPlaced, OpenPurposeful
<1>5. \A s \in Sessions : Open(s) => /\ session[s].at \in current' \cup retired'
                                     /\ s \in listener'[session[s].at].sessions
  <2> SUFFICES ASSUME NEW s \in Sessions, Open(s)
               PROVE  /\ session[s].at \in current' \cup retired'
                      /\ s \in listener'[session[s].at].sessions
    OBVIOUS
  <2>1. /\ session[s].at \in current \cup retired /\ session[s].at \in Ids
        /\ s \in listener[session[s].at].sessions
    BY DEF IInv, Served, OpenSessionReachable, OpenSessions, Listeners
  <2> QED  BY <2>1
<1>6. Served'
  BY <1>5, QuietSessions
<1> QED  BY <1>4, <1>6 DEF IInv

\* The fields of the reload and of the snapshot have their types.
LEMMA PreparedType ==
  ASSUME TypeOK
  PROVE  /\ prepared.state \in {"none", "prepared", "swapped"}
         /\ prepared.added \subseteq Ids /\ prepared.gone \subseteq Ids
         /\ published.revision \in Nat \ {0} /\ published.ports \in Plans
         /\ published.ports \subseteq Ports
BY ServerAssumption DEF TypeOK

\* So has the reload that is none.
LEMMA NoReloadType ==
  /\ NoReload \in [state: {"none", "prepared", "swapped"}, next: Plans \cup {{}},
                   added: SUBSET Ids, gone: SUBSET Ids]
  /\ NoReload.state = "none" /\ NoReload.added = {}
BY DEF NoReload

\* stop() dispatches to every listener there is, under control_mutex_.
LEMMA StopInv ==
  ASSUME IInv, Stop
  PROVE  IInv'
<1>1. /\ server = "running" /\ prepared.state = "none" /\ server' = "stopping"
      /\ listener' = [l \in Ids |-> IF l \in current \cup retired THEN RequestStop(listener[l])
                                     ELSE listener[l]]
      /\ UNCHANGED << published, current, retired, prepared, reloads, session, active,
                      failures, doubled, fault >>
  BY DEF Stop
<1>2. ASSUME NEW m \in Ids
      PROVE  /\ Kept(listener[m], listener'[m])
             /\ listener'[m].sessions = listener[m].sessions
             /\ Tasks(listener'[m]) \subseteq Tasks(listener[m]) \cup {"retire", "stop"}
             /\ m \in current \cup retired => "stop" \in Tasks(listener'[m])
  BY <1>1, SoundListener, RequestStopKeeps, KeptItself
<1>3. listener' \in [Ids -> Listener]
  BY <1>1, <1>2 DEF Kept
<1>4. TypeOK'
  BY <1>1, <1>3 DEF IInv, TypeOK
<1>5. prepared.added = {}
  BY <1>1, NoReloadType DEF IInv, Listeners, Maps
<1>6. ASSUME NEW m \in Ids PROVE Placed(m)'
  <2>1. Placed(m) /\ Kept(listener[m], listener'[m])
    BY <1>2 DEF IInv, Listeners, ListenersPlaced
  <2> QED  BY <1>1, <2>1 DEF Placed, Kept
<1>7. ASSUME NEW m \in Ids PROVE Purposeful(m)'
  <2>1. Purposeful(m) /\ Kept(listener[m], listener'[m])
    BY <1>2 DEF IInv, Listeners, OpenPurposeful
  <2>2. CASE m \in current
    BY <1>2, <2>2 DEF Purposeful, ToClose
  <2>3. CASE m \notin current
    BY <1>5, <2>1, <2>3 DEF Purposeful, Kept
  <2> QED  BY <2>2, <2>3
<1>8. Maps'
  BY <1>1 DEF IInv, Listeners, Maps
<1>9. \A m \in current' \cup retired' : Made(m)
  BY <1>1 DEF IInv, Listeners, Numbered
<1> QED  BY <1>1, <1>2, <1>4, <1>6, <1>7, <1>8, <1>9, ControlStep

\* A dropped reload stops the listeners it made.
LEMMA AbandonReloadInv ==
  ASSUME IInv, AbandonReload
  PROVE  IInv'
<1>1. /\ prepared.state = "prepared" /\ prepared' = NoReload
      /\ listener' = [l \in Ids |-> IF l \in prepared.added THEN RequestStop(listener[l])
                                     ELSE listener[l]]
      /\ UNCHANGED << published, current, retired, reloads, session, active, failures,
                      doubled, server, fault >>
  BY DEF AbandonReload
<1>2. ASSUME NEW m \in Ids
      PROVE  /\ Kept(listener[m], listener'[m])
             /\ listener'[m].sessions = listener[m].sessions
             /\ Tasks(listener'[m]) \subseteq Tasks(listener[m]) \cup {"retire", "stop"}
             /\ m \in prepared.added => "stop" \in Tasks(listener'[m]) /\ listener'[m].stopping
  BY <1>1, SoundListener, RequestStopKeeps, KeptItself
<1>3. listener' \in [Ids -> Listener]
  BY <1>1, <1>2 DEF Kept
<1>4. TypeOK'
  BY <1>1, <1>3, NoReloadType DEF IInv, TypeOK
<1>5. ASSUME NEW m \in Ids PROVE Placed(m)'
  <2>1. Placed(m) /\ Kept(listener[m], listener'[m])
    BY <1>2 DEF IInv, Listeners, ListenersPlaced
  <2> QED  BY <1>1, <1>2, <2>1 DEF Placed, Kept
<1>6. ASSUME NEW m \in Ids PROVE Purposeful(m)'
  <2>1. Purposeful(m) /\ Kept(listener[m], listener'[m])
    BY <1>2 DEF IInv, Listeners, OpenPurposeful
  <2>2. CASE m \in prepared.added
    BY <1>2, <2>2 DEF Purposeful, ToClose
  <2>3. CASE m \notin prepared.added
    BY <1>1, <2>1, <2>3 DEF Purposeful, Kept
  <2> QED  BY <2>2, <2>3
<1>7. Maps'
  BY <1>1, NoReloadType DEF IInv, Listeners, Maps
<1>8. \A m \in current' \cup retired' : Made(m)
  BY <1>1 DEF IInv, Listeners, Numbered
<1> QED  BY <1>1, <1>2, <1>4, <1>5, <1>6, <1>7, <1>8, ControlStep

\* The commit takes in the new listeners, and the dropped ones move to the retired map.
LEMMA CommitSwapInv ==
  ASSUME IInv, CommitSwap
  PROVE  IInv'
<1> DEFINE added == prepared.added
           gone == prepared.gone
<1>1. /\ prepared.state = "prepared" /\ prepared' = [prepared EXCEPT !.state = "swapped"]
      /\ current' = (current \cup added) \ gone /\ retired' = retired \cup gone
      /\ listener' = [l \in Ids |-> IF l \in gone
                                     THEN [listener[l] EXCEPT !.tasks = Append(@, "retire")]
                                     ELSE listener[l]]
      /\ UNCHANGED << published, reloads, session, active, failures, doubled, server, fault >>
  BY DEF CommitSwap
<1>2. /\ prepared'.state = "swapped" /\ prepared'.next = prepared.next
      /\ prepared'.added = added /\ prepared'.gone = gone
      /\ prepared' \in [state: {"none", "prepared", "swapped"}, next: Plans \cup {{}},
                        added: SUBSET Ids, gone: SUBSET Ids]
  BY <1>1 DEF IInv, TypeOK
<1>3. /\ added \subseteq Ids /\ gone \subseteq current /\ current \subseteq Ids
      /\ added \cap (current \cup retired) = {} /\ retired \subseteq Ids
      /\ PortsOf(added) = prepared.next \ PortsOf(current)
      /\ OnePerPort(added) /\ OnePerPort(current)
      /\ gone = {l \in current : l[1] \notin prepared.next}
      /\ current \cap retired = {} /\ server = "running" /\ prepared.next \in Plans
      /\ \A l \in added \cup current \cup retired : Made(l)
  BY <1>1 DEF IInv, Listeners, Maps, Numbered
<1> HIDE DEF added, gone
<1>4. ASSUME NEW m \in Ids
      PROVE  /\ Kept(listener[m], listener'[m])
             /\ listener'[m].sessions = listener[m].sessions
             /\ Tasks(listener'[m]) \subseteq Tasks(listener[m]) \cup {"retire", "stop"}
             /\ m \in gone => "retire" \in Tasks(listener'[m])
  <2>1. listener[m] \in Listener /\ ListenerSound(listener[m])
    BY SoundListener
  <2>2. CASE m \in gone
    <3>1. listener'[m] = [listener[m] EXCEPT !.tasks = Append(listener[m].tasks, "retire")]
      BY <1>1, <2>2
    <3>2. "retire" \in Task
      BY DEF Task
    <3>3. /\ Kept(listener[m], listener'[m])
          /\ listener'[m].sessions = listener[m].sessions
          /\ Tasks(listener'[m]) = Tasks(listener[m]) \cup {"retire"}
      BY <2>1, <3>1, <3>2, DispatchKeeps
    <3> QED  BY <3>3
  <2>3. CASE m \notin gone
    BY <1>1, <2>1, <2>3, KeptItself
  <2> QED  BY <2>2, <2>3
<1>5. listener' \in [Ids -> Listener]
  <2>1. listener' = [l \in Ids |-> listener'[l]]
    BY <1>1
  <2> QED  BY <1>4, <2>1 DEF Kept
<1>6. TypeOK'
  BY <1>1, <1>2, <1>3, <1>5 DEF IInv, TypeOK
<1>7. ASSUME NEW m \in Ids PROVE Placed(m)'
  <2>1. Placed(m) /\ Kept(listener[m], listener'[m])
    BY <1>4 DEF IInv, Listeners, ListenersPlaced
  <2> QED  BY <1>1, <2>1 DEF Placed, Kept, added
<1>8. ASSUME NEW m \in Ids PROVE Purposeful(m)'
  <2>1. Purposeful(m) /\ Kept(listener[m], listener'[m])
    BY <1>4 DEF IInv, Listeners, OpenPurposeful
  <2>2. CASE m \in gone
    BY <1>4, <2>2 DEF Purposeful, ToClose
  <2>3. CASE m \notin gone
    BY <1>1, <1>2, <2>1, <2>3 DEF Purposeful, Kept, added
  <2> QED  BY <2>2, <2>3
<1>9. Maps'
  <2>1. PortsOf(current') = prepared.next
    <3>1. ASSUME NEW l \in current' PROVE l[1] \in prepared.next
      BY <1>1, <1>3 DEF PortsOf
    <3>2. ASSUME NEW p \in prepared.next PROVE \E l \in current' : p = l[1]
      <4>1. CASE p \in PortsOf(current)
        BY <1>1, <1>3, <4>1 DEF PortsOf
      <4>2. CASE p \notin PortsOf(current)
        <5>1. PICK l \in added : p = l[1]
          BY <1>3, <4>2 DEF PortsOf
        <5> QED  BY <1>1, <1>3, <5>1
      <4> QED  BY <4>1, <4>2
    <3> QED  BY <3>1, <3>2 DEF PortsOf
  <2>2. OnePerPort(current')
    <3>1. \A l \in added, m \in current : l[1] # m[1]
      BY <1>3 DEF PortsOf
    <3> QED  BY <1>1, <1>3, <3>1 DEF OnePerPort
  <2>3. current' \cap retired' = {} /\ added \subseteq current'
    BY <1>1, <1>3
  <2> QED  BY <1>1, <1>2, <1>3, <2>1, <2>2, <2>3 DEF Maps
<1>10. current \cup retired \subseteq current' \cup retired'
  BY <1>1
<1>11. \A m \in current' \cup retired' : Made(m)
  BY <1>1, <1>3
<1> QED  BY <1>1, <1>4, <1>6, <1>7, <1>8, <1>9, <1>10, <1>11, ControlStep

\* The publication makes the maps those of the snapshot.
LEMMA CommitPublishInv ==
  ASSUME IInv, CommitPublish
  PROVE  IInv'
<1>1. /\ prepared.state = "swapped" /\ prepared' = NoReload
      /\ published' = [revision |-> published.revision + 1, ports |-> prepared.next]
      /\ UNCHANGED << listener, current, retired, reloads, session, active, failures,
                      doubled, server, fault >>
  BY DEF CommitPublish
<1>2. published'.ports = prepared.next /\ prepared.next \in Plans
  BY <1>1 DEF IInv, Listeners, Maps
<1>3. published' \in [revision: Nat \ {0}, ports: Plans]
  BY <1>1, <1>2, PreparedType DEF IInv
<1>4. TypeOK'
  BY <1>1, <1>3, NoReloadType DEF IInv, TypeOK
<1>5. \A m \in Ids : Kept(listener[m], listener'[m])
  BY <1>1, SoundListener, KeptItself
<1>6. ASSUME NEW m \in Ids PROVE Placed(m)'
  BY <1>1 DEF IInv, Listeners, ListenersPlaced, Placed
<1>7. ASSUME NEW m \in Ids PROVE Purposeful(m)'
  BY <1>1 DEF IInv, Listeners, OpenPurposeful, Purposeful, Maps
<1>8. Maps'
  BY <1>1, <1>2, NoReloadType DEF IInv, Listeners, Maps
<1>9. \A m \in current' \cup retired' : Made(m)
  BY <1>1 DEF IInv, Listeners, Numbered
<1> QED  BY <1>1, <1>4, <1>5, <1>6, <1>7, <1>8, <1>9, ControlStep

\* prepare_reload makes one listener for each new port, behind the gate.
LEMMA PrepareReloadInv ==
  ASSUME IInv, NEW plan \in Plans, PrepareReload(plan)
  PROVE  IInv'
<1> DEFINE dropped == plan \ PortsOf(current)
           added == {Fresh(p) : p \in dropped}
           gone == {l \in current : l[1] \notin plan}
           r == published.revision + 1
<1>1. /\ server = "running" /\ prepared.state = "none"
      /\ reloads < MaxReloads /\ reloads' = reloads + 1
      /\ prepared' = [state |-> "prepared", next |-> plan, added |-> added, gone |-> gone]
      /\ listener' = [l \in Ids |-> IF l \in added THEN StartedListener(r) ELSE listener[l]]
      /\ UNCHANGED << published, current, retired, session, active, failures, doubled,
                      server, fault >>
  BY DEF PrepareReload, PortsOf
<1>2. /\ r \in Nat /\ r > published.revision /\ plan \subseteq Ports
      /\ reloads \in 0 .. MaxReloads /\ MaxReloads \in Nat /\ reloads \in Nat
  BY PreparedType, ServerAssumption DEF IInv, TypeOK
<1>3. \A p \in Ports : \E k \in 0 .. (reloads + 1) :
        /\ Fresh(p) = <<p, k + 1>> /\ k + 1 \in 1 .. (MaxReloads + 1)
        /\ \A i \in 1 .. (MaxReloads + 1) : Made(<<p, i>>) <=> i <= k
  BY <1>1, <1>2, FreshIsNext DEF IInv
<1>4. \A p \in Ports : Fresh(p) \in Ids /\ Fresh(p)[1] = p /\ ~Made(Fresh(p))
  <2> SUFFICES ASSUME NEW p \in Ports PROVE Fresh(p) \in Ids /\ Fresh(p)[1] = p /\ ~Made(Fresh(p))
    OBVIOUS
  <2>1. PICK k \in 0 .. (reloads + 1) :
          /\ Fresh(p) = <<p, k + 1>> /\ k + 1 \in 1 .. (MaxReloads + 1)
          /\ \A i \in 1 .. (MaxReloads + 1) : Made(<<p, i>>) <=> i <= k
    BY <1>3
  <2>2. ~(k + 1 <= k)
    BY <1>2
  <2> QED  BY <2>1, <2>2, IdsType
<1>5. /\ current \subseteq Ids /\ retired \subseteq Ids
      /\ \A l \in current \cup retired : Made(l)
      /\ prepared.added = {}
  BY <1>1, NoReloadType DEF IInv, Listeners, Numbered, Maps
<1>6. dropped \subseteq Ports
  BY <1>2
<1> HIDE DEF r, dropped
<1>7. /\ added \subseteq Ids /\ added \cap (current \cup retired) = {}
      /\ PortsOf(added) = dropped /\ OnePerPort(added)
      /\ \A l \in added : ~Made(l)
  BY <1>4, <1>5, <1>6 DEF PortsOf, OnePerPort
<1>8. /\ StartedListener(r) \in Listener /\ ListenerSound(StartedListener(r))
      /\ StartedListener(r).made /\ StartedListener(r).minimum_runtime_revision = r
      /\ Tasks(StartedListener(r)) = {}
  BY <1>2, StartedSound
<1>9. /\ prepared'.state = "prepared" /\ prepared'.next = plan
      /\ prepared'.added = added /\ prepared'.gone = gone
  BY <1>1
<1>10. prepared' \in [state: {"none", "prepared", "swapped"}, next: Plans \cup {{}},
                      added: SUBSET Ids, gone: SUBSET Ids]
  <2>1. gone \in SUBSET Ids /\ added \in SUBSET Ids /\ plan \in Plans \cup {{}}
    BY <1>5, <1>7
  <2> HIDE DEF added, gone
  <2> QED  BY <1>1, <2>1
<1> HIDE DEF added
<1>11. \A l \in Ids : /\ l \in added => listener'[l] = StartedListener(r)
                      /\ l \notin added => listener'[l] = listener[l]
  BY <1>1
<1>12. \A l \in Ids : listener'[l] \in Listener /\ ListenerSound(listener'[l])
  BY <1>8, <1>11, SoundListener
<1>13. listener' \in [Ids -> Listener]
  <2>1. listener' = [l \in Ids |-> listener'[l]]
    BY <1>1
  <2> QED  BY <1>12, <2>1
<1>14. TypeOK'
  <2>1. reloads' \in 0 .. MaxReloads
    BY <1>1, <1>2
  <2> QED  BY <1>1, <1>10, <1>13, <2>1 DEF IInv, TypeOK
<1>15. ASSUME NEW m \in Ids PROVE Placed(m)'
  <2>1. CASE m \in added
    BY <1>1, <1>2, <1>8, <1>9, <1>11, <2>1 DEF Placed
  <2>2. CASE m \notin added
    <3>1. Placed(m)
      BY DEF IInv, Listeners, ListenersPlaced
    <3> QED  BY <1>1, <1>11, <2>2, <3>1 DEF Placed
  <2> QED  BY <2>1, <2>2
<1>16. ASSUME NEW m \in Ids PROVE Purposeful(m)'
  <2>1. CASE m \in added
    BY <1>1, <1>9, <2>1 DEF Purposeful
  <2>2. CASE m \notin added
    <3>1. Purposeful(m)
      BY DEF IInv, Listeners, OpenPurposeful
    <3> QED  BY <1>1, <1>5, <1>11, <2>2, <3>1 DEF Purposeful
  <2> QED  BY <2>1, <2>2
<1>17. \A l \in Ids : Made(l)' <=> Made(l) \/ l \in added
  BY <1>8, <1>11 DEF Made
<1>18. Numbered'
  <2>1. ASSUME NEW p \in Ports
        PROVE  \E k \in 0 .. (reloads' + 1) :
                 \A i \in 1 .. (MaxReloads + 1) : Made(<<p, i>>)' <=> i <= k
    <3>1. PICK k \in 0 .. (reloads + 1) :
            /\ Fresh(p) = <<p, k + 1>> /\ k + 1 \in 1 .. (MaxReloads + 1)
            /\ \A i \in 1 .. (MaxReloads + 1) : Made(<<p, i>>) <=> i <= k
      BY <1>3
    <3>2. \A i \in 1 .. (MaxReloads + 1) : <<p, i>> \in Ids
      BY IdsType
    <3>3. \A i \in 1 .. (MaxReloads + 1) : <<p, i>> \in added <=> p \in dropped /\ i = k + 1
      <4>1. ASSUME NEW i \in 1 .. (MaxReloads + 1), <<p, i>> \in added
            PROVE  p \in dropped /\ i = k + 1
        <5>1. PICK q \in dropped : <<p, i>> = Fresh(q)
          BY <4>1 DEF added
        <5>2. q = p
          BY <1>4, <1>6, <5>1
        <5> QED  BY <3>1, <5>1, <5>2
      <4>2. p \in dropped => <<p, k + 1>> \in added
        BY <3>1 DEF added
      <4> QED  BY <4>1, <4>2
    <3>4. CASE p \in dropped
      <4>1. \A i \in 1 .. (MaxReloads + 1) : Made(<<p, i>>)' <=> i <= k \/ i = k + 1
        BY <1>17, <3>1, <3>2, <3>3, <3>4
      <4>2. \A i \in 1 .. (MaxReloads + 1) : Made(<<p, i>>)' <=> i <= k + 1
        BY <1>2, <3>1, <4>1
      <4>3. k + 1 \in 0 .. (reloads' + 1)
        BY <1>1, <1>2
      <4> QED  BY <4>2, <4>3
    <3>5. CASE p \notin dropped
      <4>1. \A i \in 1 .. (MaxReloads + 1) : Made(<<p, i>>)' <=> i <= k
        BY <1>17, <3>1, <3>2, <3>3, <3>5
      <4>2. k \in 0 .. (reloads' + 1)
        BY <1>1, <1>2
      <4> QED  BY <4>1, <4>2
    <3> QED  BY <3>4, <3>5
  <2>2. \A l \in current' \cup retired' : Made(l)'
    BY <1>1, <1>5, <1>17
  <2> QED  BY <1>1, <2>1, <2>2 DEF Numbered
<1>19. Maps'
  <2>1. /\ PortsOf(current) = published.ports
        /\ OnePerPort(current) /\ current \cap retired = {}
    BY <1>1 DEF IInv, Listeners, Maps
  <2>2. \A l \in added : Made(l)'
    BY <1>7, <1>17
  <2>3. PortsOf(added) = plan \ PortsOf(current)
    BY <1>7 DEF dropped
  <2> QED  BY <1>1, <1>7, <1>9, <2>1, <2>2, <2>3 DEF Maps
<1>20. Listeners'
  BY <1>1, <1>5, <1>7, <1>9, <1>12, <1>13, <1>15, <1>16, <1>18, <1>19
  DEF Listeners, ListenersSound, ListenersPlaced, OpenPurposeful
<1>21. \A s \in Sessions : Open(s) => /\ session[s].at \in current' \cup retired'
                                      /\ s \in listener'[session[s].at].sessions
  <2> SUFFICES ASSUME NEW s \in Sessions, Open(s)
               PROVE  /\ session[s].at \in current' \cup retired'
                      /\ s \in listener'[session[s].at].sessions
    OBVIOUS
  <2>1. /\ session[s].at \in current \cup retired /\ session[s].at \in Ids
        /\ s \in listener[session[s].at].sessions
    BY DEF IInv, Served, OpenSessionReachable, OpenSessions, Listeners
  <2> QED  BY <1>1, <1>7, <1>11, <2>1
<1>22. Served'
  <2>1. \A m \in Ids : Tasks(listener'[m]) \subseteq Tasks(listener[m]) \cup {"retire", "stop"}
    BY <1>8, <1>11
  <2> QED  BY <1>1, <1>21, <2>1, QuietSessions
<1> QED  BY <1>14, <1>20, <1>22 DEF IInv

\* start() makes one listener for each port of the snapshot.
LEMMA StartInv ==
  ASSUME IInv, Start
  PROVE  IInv'
<1> DEFINE made == published.ports \X {1}
           r == published.revision
<1>1. /\ server = "new" /\ server' = "running" /\ current' = made
      /\ listener' = [l \in Ids |-> IF l \in made THEN StartedListener(r) ELSE listener[l]]
      /\ UNCHANGED << published, retired, prepared, reloads, session, active, failures,
                      doubled, fault >>
  BY DEF Start
<1>2. r \in Nat /\ published.ports \subseteq Ports /\ MaxReloads \in Nat
  BY PreparedType, ServerAssumption DEF IInv
<1>3. /\ made \subseteq Ids /\ PortsOf(made) = published.ports /\ OnePerPort(made)
  <2>1. \A l \in made : l = <<l[1], 1>> /\ l[1] \in published.ports
    OBVIOUS
  <2>2. \A p \in published.ports : <<p, 1>> \in made /\ <<p, 1>>[1] = p
    OBVIOUS
  <2>3. 1 \in 1 .. (MaxReloads + 1)
    BY <1>2
  <2> HIDE DEF made
  <2>4. made \subseteq Ids
    BY <1>2, <2>1, <2>3, IdsType
  <2>5. PortsOf(made) = published.ports
    BY ZenonT(60), <2>1, <2>2 DEF PortsOf
  <2>6. OnePerPort(made)
    BY <2>1 DEF OnePerPort
  <2> QED  BY <2>4, <2>5, <2>6
<1>4. \A p \in Ports, i \in 1 .. (MaxReloads + 1) :
        <<p, i>> \in made <=> p \in published.ports /\ i = 1
  OBVIOUS
<1> HIDE DEF made, r
<1>5. /\ StartedListener(r) \in Listener /\ ListenerSound(StartedListener(r))
      /\ StartedListener(r).made /\ Tasks(StartedListener(r)) = {}
  BY <1>2, StartedSound
<1>6. /\ current = {} /\ retired = {} /\ reloads = 0
      /\ prepared.state = "none" /\ prepared = NoReload /\ prepared.added = {}
  BY <1>1, PreparedType, NoReloadType DEF IInv, Listeners, Maps, Numbered
<1>7. \A l \in Ids : /\ l \in made => listener'[l] = StartedListener(r)
                     /\ l \notin made => listener'[l] = listener[l]
  BY <1>1
<1>8. \A l \in Ids : listener'[l] \in Listener /\ ListenerSound(listener'[l])
  BY <1>5, <1>7, SoundListener
<1>9. listener' \in [Ids -> Listener]
  <2>1. listener' = [l \in Ids |-> listener'[l]]
    BY <1>1
  <2> QED  BY <1>8, <2>1
<1>10. TypeOK'
  BY <1>1, <1>3, <1>9 DEF IInv, TypeOK
<1>11. ASSUME NEW m \in Ids PROVE Placed(m)' /\ Purposeful(m)'
  <2>1. CASE m \in made
    BY <1>1, <2>1 DEF Placed, Purposeful
  <2>2. CASE m \notin made
    <3>1. Placed(m) /\ Purposeful(m)
      BY DEF IInv, Listeners, ListenersPlaced, OpenPurposeful
    <3> QED  BY <1>1, <1>6, <1>7, <2>2, <3>1 DEF Placed, Purposeful
  <2> QED  BY <2>1, <2>2
<1>12. \A l \in Ids : Made(l)' <=> Made(l) \/ l \in made
  BY <1>5, <1>7 DEF Made
<1>13. Numbered'
  <2>1. ASSUME NEW p \in Ports
        PROVE  \E k \in 0 .. (reloads' + 1) :
                 \A i \in 1 .. (MaxReloads + 1) : Made(<<p, i>>)' <=> i <= k
    <3>1. \A i \in 1 .. (MaxReloads + 1) : ~Made(<<p, i>>) /\ <<p, i>> \in Ids
      <4>1. PICK k \in 0 .. 0 : \A i \in 1 .. (MaxReloads + 1) : Made(<<p, i>>) <=> i <= k
        BY <1>1 DEF IInv, Listeners, Numbered
      <4> QED  BY <1>2, <4>1, IdsType
    <3>2. CASE p \in published.ports
      <4>1. \A i \in 1 .. (MaxReloads + 1) : Made(<<p, i>>)' <=> i <= 1
        BY <1>2, <1>4, <1>12, <3>1, <3>2
      <4> QED  BY <1>1, <1>6, <4>1
    <3>3. CASE p \notin published.ports
      <4>1. \A i \in 1 .. (MaxReloads + 1) : Made(<<p, i>>)' <=> i <= 0
        BY <1>2, <1>4, <1>12, <3>1, <3>3
      <4> QED  BY <1>1, <1>6, <4>1
    <3> QED  BY <3>2, <3>3
  <2>2. \A l \in current' \cup retired' : Made(l)'
    BY <1>1, <1>3, <1>6, <1>12
  <2> QED  BY <1>1, <2>1, <2>2 DEF Numbered
<1>14. Maps'
  BY <1>1, <1>3, <1>6 DEF Maps
<1>15. Listeners'
  BY <1>1, <1>3, <1>6, <1>8, <1>9, <1>11, <1>13, <1>14
  DEF Listeners, ListenersSound, ListenersPlaced, OpenPurposeful
<1>16. \A s \in Sessions : ~Open(s)
  BY <1>6 DEF IInv, Served, OpenSessionReachable, OpenSessions
<1>17. Served'
  <2>1. \A m \in Ids : Tasks(listener'[m]) \subseteq Tasks(listener[m]) \cup {"retire", "stop"}
    BY <1>5, <1>7
  <2> QED  BY <1>1, <1>16, <2>1, QuietSessions
<1> QED  BY <1>10, <1>15, <1>17 DEF IInv

\* A failed start and wait() leave nothing behind.
LEMMA EndInv ==
  ASSUME IInv, StartFails \/ Wait
  PROVE  IInv'
<1>1. /\ server' = "stopped" /\ server \in {"new", "stopping"}
      /\ current' = {} /\ retired' = {}
      /\ UNCHANGED << published, listener, prepared, reloads, session, active, failures,
                      doubled, fault >>
      /\ \A s \in Sessions : ~Open(s)
  BY DEF StartFails, Wait, IInv, Listeners, Maps, Served, OpenSessionReachable, OpenSessions
<1>2. TypeOK'
  BY <1>1 DEF IInv, TypeOK
<1>3. prepared.state = "none" /\ prepared = NoReload /\ prepared.added = {}
  BY <1>1, PreparedType, NoReloadType DEF IInv, Listeners, Maps
<1>4. ASSUME NEW m \in Ids PROVE Placed(m)'
  <2>1. CASE StartFails
    <3>1. Placed(m) /\ current = {} /\ retired = {}
      BY <2>1 DEF StartFails, IInv, Listeners, ListenersPlaced, Maps
    <3> QED  BY <1>1, <3>1 DEF Placed
  <2>2. CASE Wait
    BY <1>1, <2>2 DEF Wait, Placed
  <2> QED  BY <2>1, <2>2
<1>5. ASSUME NEW m \in Ids PROVE Purposeful(m)'
  <2>1. Purposeful(m) /\ (server = "new" => current = {})
    BY DEF IInv, Listeners, OpenPurposeful, Maps
  <2> QED  BY <1>1, <1>3, <2>1 DEF Purposeful
<1>6. Numbered'
  <2>1. \A p \in Ports : \E k \in 0 .. (reloads + 1) :
          \A i \in 1 .. (MaxReloads + 1) : Made(<<p, i>>) <=> i <= k
    <3>1. reloads \in Nat
      BY ServerAssumption DEF IInv, TypeOK
    <3>2. 0 .. (IF server = "new" THEN 0 ELSE reloads + 1) \subseteq 0 .. (reloads + 1)
      BY <3>1
    <3> QED  BY <3>2 DEF IInv, Listeners, Numbered
  <2>2. \A p \in Ports, i \in 1 .. (MaxReloads + 1) : Made(<<p, i>>)' = Made(<<p, i>>)
    BY <1>1 DEF Made
  <2> QED  BY <1>1, <2>1, <2>2 DEF Numbered
<1>7. Maps'
  BY <1>1, <1>3, NoReloadType DEF Maps
<1>8. Listeners'
  BY <1>1, <1>3, <1>4, <1>5, <1>6, <1>7
  DEF IInv, Listeners, ListenersSound, ListenersPlaced, OpenPurposeful
<1>9. Served'
  BY <1>1, QuietSessions
<1> QED  BY <1>2, <1>8, <1>9 DEF IInv

-----------------------------------------------------------------------------
(* The theorems                                                            *)

\* The invariant holds at the start.
LEMMA InitInv ==
  ASSUME Init
  PROVE  IInv
<1>1. << >> \in Seq({"retire", "stop"} \cup Sessions) /\ DOMAIN << >> = {}
  BY EmptySeq
<1>2. /\ Unmade \in Listener /\ Unmade.made = FALSE /\ Unmade.open = FALSE
      /\ Unmade.accept = "none" /\ Unmade.on_drained = "none" /\ Unmade.tasks = << >>
  BY <1>1 DEF Unmade, Listener
<1>3. /\ ListenerSound(Unmade) /\ Tasks(Unmade) = {}
  BY <1>1, <1>2 DEF ListenerSound, Finished, Tasks
<1>4. /\ listener \in [Ids -> Listener] /\ \A l \in Ids : listener[l] = Unmade
  BY <1>2 DEF Init
<1>5. \A s \in Sessions : ~Open(s)
  BY DEF Init, Open
<1>6. published \in [revision: Nat \ {0}, ports: Plans]
  BY DEF Init
<1>7. session \in [Sessions -> [at: Ids \cup {Nobody}, stop: BOOLEAN,
                                state: {"none", "idle", "busy", "closed"}]]
  BY DEF Init
<1>8. active \in 0 .. (Modulus - 1) /\ reloads \in 0 .. MaxReloads
      /\ failures \in 0 .. MaxAllocFailures
  BY ServerAssumption, CounterType DEF Init
<1>9. TypeOK
  BY <1>4, <1>6, <1>7, <1>8, NoReloadType DEF Init, TypeOK
<1>10. ListenersSound /\ ListenersPlaced /\ OpenPurposeful
  BY <1>2, <1>3, <1>4
  DEF ListenersSound, ListenersPlaced, Placed, OpenPurposeful, Purposeful
<1>11. Numbered
  <2>1. \A p \in Ports, i \in 1 .. (MaxReloads + 1) : ~Made(<<p, i>>) /\ ~(i <= 0)
    <3>1. \A p \in Ports, i \in 1 .. (MaxReloads + 1) : <<p, i>> \in Ids
      BY IdsType
    <3>2. \A l \in Ids : ~Made(l)
      BY <1>2, <1>4 DEF Made
    <3>3. \A i \in 1 .. (MaxReloads + 1) : ~(i <= 0)
      BY ServerAssumption
    <3> QED  BY <3>1, <3>2, <3>3
  <2> QED  BY <2>1 DEF Init, Numbered
<1>12. Maps
  BY NoReloadType DEF Init, Maps
<1>13. Listeners
  BY <1>4, <1>10, <1>11, <1>12, NoReloadType DEF Init, Listeners
<1>14. Served
  <2>1. OpenSessions = {}
    BY <1>5 DEF OpenSessions
  <2>2. TasksClosed
    BY <1>3, <1>4 DEF TasksClosed
  <2>3. AdmissionExact
    BY <2>1, FS_EmptySet, ServerAssumption DEF Init, AdmissionExact
  <2> QED  BY <2>1, <2>2, <2>3 DEF Served, OpenSessionReachable
<1> QED  BY <1>9, <1>13, <1>14 DEF IInv

\* Every step keeps the invariant.
LEMMA NextInv ==
  ASSUME IInv, [Next]_vars
  PROVE  IInv'
<1>1. CASE Start
  BY <1>1, StartInv
<1>2. CASE StartFails \/ Wait
  BY <1>2, EndInv
<1>3. ASSUME NEW l \in Ids, ListenerStep(l) PROVE IInv'
  <2>1. ASSUME NEW aborted \in BOOLEAN, AcceptFails(l, aborted) PROVE IInv'
    BY <2>1, AcceptFailsInv
  <2>2. CASE AcceptRefused(l)
    BY <2>2, AcceptRefusedInv
  <2>3. ASSUME NEW s \in Sessions, AcceptSession(l, s) PROVE IInv'
    BY <2>3, AcceptSessionInv
  <2>4. ASSUME NEW s \in Sessions, SessionClosed(l, s) PROVE IInv'
    BY <2>4, SessionClosedInv
  <2>5. CASE AcceptWithoutTls(l)
    BY <2>5, AcceptWithoutTlsInv
  <2>6. ASSUME NEW controlBlock \in BOOLEAN, AcceptThrows(l, controlBlock) PROVE IInv'
    BY <2>6, AcceptThrowsInv
  <2>7. CASE AcceptRetry(l)
    BY <2>7, AcceptRetryInv
  <2>8. CASE Retire(l)
    BY <2>8, RetireInv
  <2>9. CASE StopOnExecutor(l)
    BY <2>9, StopOnExecutorInv
  <2>10. CASE Drained(l)
    BY <2>10, DrainedInv
  <2> QED
    BY <1>3, <2>1, <2>2, <2>3, <2>4, <2>5, <2>6, <2>7, <2>8, <2>9, <2>10 DEF ListenerStep
<1>4. ASSUME NEW s \in Sessions, SessionWorks(s) \/ SessionEnds(s) \/ SessionStops(s)
      PROVE  IInv'
  <2>1. CASE SessionWorks(s) \/ (SessionStops(s) /\ session[s].state # "idle")
    BY <2>1, SessionWorksInv
  <2>2. CASE SessionEnds(s) \/ (SessionStops(s) /\ session[s].state = "idle")
    <3>1. /\ Open(s) /\ CloseSession(s)
          /\ UNCHANGED << published, current, retired, prepared, reloads, failures, doubled,
                          server, fault >>
      BY <2>2 DEF SessionEnds, SessionStops, Open
    <3> QED  BY <3>1, CloseSessionInv
  <2> QED  BY <1>4, <2>1, <2>2
<1>5. ASSUME NEW plan \in Plans, PrepareReload(plan) PROVE IInv'
  BY <1>5, PrepareReloadInv
<1>6. CASE AbandonReload
  BY <1>6, AbandonReloadInv
<1>7. CASE CommitSwap
  BY <1>7, CommitSwapInv
<1>8. CASE CommitPublish
  BY <1>8, CommitPublishInv
<1>9. CASE Stop
  BY <1>9, StopInv
<1>10. CASE UNCHANGED vars
  BY ZenonT(60), <1>10
  DEF vars, IInv, TypeOK, Listeners, ListenersSound, ListenersPlaced, Placed, OpenPurposeful,
      Purposeful, Numbered, Made, Maps, Served, TasksClosed, OpenSessionReachable,
      OpenSessions, Open, AdmissionExact
<1> QED
  BY <1>1, <1>2, <1>3, <1>4, <1>5, <1>6, <1>7, <1>8, <1>9, <1>10 DEF Next

\* The inductive invariant holds in every reachable state, for any ports, plans, sessions and
\* limits, and any number of reloads and failures.
THEOREM IInvHolds == Spec => []IInv
<1>1. Init => IInv
  BY InitInv
<1>2. IInv /\ [Next]_vars => IInv'
  BY NextInv
<1> QED  BY <1>1, <1>2, PTL DEF Spec

\* Every variable keeps its type; the admission count in particular stays in std::size_t.
THEOREM TypeCorrect == Spec => []TypeOK
<1>1. IInv => TypeOK
  BY DEF IInv
<1> QED  BY <1>1, IInvHolds, PTL

\* The admission count is the number of open connections and never beyond the limit,
\* unless a failed control block has given one back twice.
THEOREM AdmissionExactHolds == Spec => []AdmissionExact
<1>1. IInv => AdmissionExact
  BY DEF IInv, Served
<1> QED  BY <1>1, IInvHolds, PTL

\* stop() reaches every open connection, whatever reloads, retirements and drains came
\* before.
THEOREM OpenSessionReachableHolds == Spec => []OpenSessionReachable
<1>1. IInv => OpenSessionReachable
  BY DEF IInv, Served
<1> QED  BY <1>1, IInvHolds, PTL

\* A listener in service always has an accept or a retry pending.
THEOREM ListenerNeverDeafHolds == Spec => []ListenerNeverDeaf
<1>1. IInv => ListenerNeverDeaf
  BY DEF IInv, Listeners, ListenersSound, ListenerSound, ListenerNeverDeaf
<1> QED  BY <1>1, IInvHolds, PTL

\* Outside a reload the listeners are those of the published ports, one for each, and no
\* acceptor outlives its purpose.
THEOREM ListenersMatchSnapshotHolds == Spec => []ListenersMatchSnapshot
<1>1. IInv => ListenersMatchSnapshot
  <2> SUFFICES ASSUME IInv PROVE ListenersMatchSnapshot
    OBVIOUS
  <2>1. ASSUME NEW l \in Ids, listener[l].open
        PROVE  \/ l \in current \cup prepared.added
               \/ \E i \in DOMAIN listener[l].tasks : listener[l].tasks[i] \in {"retire", "stop"}
    <3>1. Purposeful(l)
      BY DEF IInv, Listeners, OpenPurposeful
    <3> QED  BY <2>1, <3>1 DEF Purposeful, ToClose, Tasks
  <2>2. ASSUME server \in {"running", "stopping"}, prepared.state = "none"
        PROVE  /\ {l[1] : l \in current} = published.ports
               /\ \A l, m \in current : l[1] = m[1] => l = m
               /\ current \cap retired = {}
    BY <2>2 DEF IInv, Listeners, Maps, PortsOf, OnePerPort
  <2> QED  BY <2>1, <2>2 DEF ListenersMatchSnapshot
<1> QED  BY <1>1, IInvHolds, PTL

-----------------------------------------------------------------------------
(* The revision gate                                                       *)

\* No listener gains a session.
Shrinks == \A l \in Ids : listener'[l].sessions \subseteq listener[l].sessions

\* A step of one listener that adds no session to it adds none to any.
LEMMA OneShrinks ==
  ASSUME IInv, NEW m \in Ids, NEW y, listener' = [listener EXCEPT ![m] = y],
         y.sessions \subseteq listener[m].sessions
  PROVE  Shrinks
BY DEF IInv, Listeners, Shrinks

\* Of the listener's steps only on_accept takes a session in.
LEMMA ListenerStepShrinks ==
  ASSUME IInv, NEW m \in Ids, ListenerStep(m),
         ~\E s \in Sessions : AcceptSession(m, s)
  PROVE  Shrinks
<1> DEFINE x == listener[m]
<1>1. x \in Listener /\ ListenerSound(x)
  BY SoundListener
<1>2. ASSUME NEW aborted \in BOOLEAN, AcceptFails(m, aborted) PROVE Shrinks
  <2>1. /\ x.accept # "none" /\ (aborted => ~x.open)
        /\ listener' = [listener EXCEPT ![m] = AcceptError(x, aborted)]
    BY <1>2 DEF AcceptFails
  <2> QED  BY <1>1, <2>1, AcceptErrorKeeps, OneShrinks
<1>3. CASE AcceptRefused(m)
  <2>1. /\ x.accept # "none"
        /\ \/ listener' = [listener EXCEPT ![m] = AcceptEnds(x)] /\ Finished(x)
           \/ listener' = [listener EXCEPT ![m] = ScheduleAcceptRetry(x)]
    BY <1>3 DEF AcceptRefused, Finished
  <2> QED  BY <1>1, <2>1, AcceptEndsKeeps, ScheduleAcceptRetryKeeps, OneShrinks
<1>4. ASSUME NEW s \in Sessions, SessionClosed(m, s) PROVE Shrinks
  <2>1. /\ x.tasks # << >> /\ Head(x.tasks) = s
        /\ listener' = [listener EXCEPT ![m] = EraseSession(Rest(x), s)]
    BY <1>4 DEF SessionClosed, Dispatched
  <2>2. EraseSession(Rest(x), s).sessions = x.sessions \ {s}
    BY <1>1, <2>1, EraseSessionKeeps
  <2> QED  BY <2>1, <2>2, OneShrinks
<1>5. CASE AcceptWithoutTls(m)
  <2>1. x.accept # "none" /\ listener' = [listener EXCEPT ![m] = AcceptNext(x)]
    BY <1>5 DEF AcceptWithoutTls, Admissible
  <2> QED  BY <1>1, <2>1, AcceptNextKeeps, OneShrinks
<1>6. ASSUME NEW controlBlock \in BOOLEAN, AcceptThrows(m, controlBlock) PROVE Shrinks
  <2>1. x.accept # "none" /\ listener' = [listener EXCEPT ![m] = ScheduleAcceptRetry(x)]
    BY <1>6 DEF AcceptThrows, Admissible
  <2> QED  BY <1>1, <2>1, ScheduleAcceptRetryKeeps, OneShrinks
<1>7. CASE AcceptRetry(m)
  <2>1. /\ x.accept # "none"
        /\ \/ listener' = [listener EXCEPT ![m] = AcceptNext(x)]
           \/ ~x.open /\ listener' = [listener EXCEPT ![m] = [x EXCEPT !.accept = "none"]]
    BY <1>7 DEF AcceptRetry
  <2>2. AcceptNext(x).sessions = x.sessions
    BY <1>1, <2>1, AcceptNextKeeps
  <2>3. [x EXCEPT !.accept = "none"].sessions = x.sessions
    BY <1>1 DEF Listener
  <2> QED  BY <2>1, <2>2, <2>3, OneShrinks
<1>8. CASE Retire(m)
  <2>1. x.tasks # << >> /\ listener' = [listener EXCEPT ![m] = RetireOnExecutor(Rest(x))]
    BY <1>8 DEF Retire, Dispatched
  <2>2. RetireOnExecutor(Rest(x)).sessions = x.sessions
    BY <1>1, <2>1, RetireKeeps
  <2> QED  BY <2>1, <2>2, OneShrinks
<1>9. CASE StopOnExecutor(m)
  <2>1. PICK P : listener' = [listener EXCEPT ![m] = CloseAcceptor(Rest(x), P)]
    BY <1>9 DEF StopOnExecutor
  <2>2. x.tasks # << >>
    BY <1>9 DEF StopOnExecutor, Dispatched
  <2>3. CloseAcceptor(Rest(x), P).sessions = x.sessions \ P
    BY <1>1, <2>2, CloseAcceptorKeeps
  <2> QED  BY <2>1, <2>3, OneShrinks
<1>10. CASE Drained(m)
  <2>1. listener' = [listener EXCEPT ![m] = [x EXCEPT !.on_drained = "done"]]
    BY <1>10 DEF Drained
  <2>2. [x EXCEPT !.on_drained = "done"].sessions = x.sessions
    BY <1>1 DEF Listener
  <2> QED  BY <2>1, <2>2, OneShrinks
<1> QED
  BY <1>2, <1>3, <1>4, <1>5, <1>6, <1>7, <1>8, <1>9, <1>10 DEF ListenerStep

\* No step of a session or of the administration thread does.
LEMMA OthersShrink ==
  ASSUME IInv, Next, ~\E l \in Ids : ListenerStep(l)
  PROVE  Shrinks
<1>1. CASE listener' = listener
  BY <1>1 DEF Shrinks
<1>2. ASSUME NEW s \in Sessions, Open(s), CloseSession(s) PROVE Shrinks
  <2> DEFINE l == session[s].at
             x == listener[l]
             y == [x EXCEPT !.tasks = Append(x.tasks, s)]
  <2>1. l \in Ids
    BY <1>2 DEF IInv, Served, OpenSessionReachable, OpenSessions, Listeners
  <2>2. listener' = [listener EXCEPT ![l] = y]
    BY <1>2 DEF CloseSession
  <2>3. y.sessions = x.sessions
    BY <2>1, SoundListener DEF Listener
  <2> HIDE DEF l, y
  <2> QED  BY <2>1, <2>2, <2>3, OneShrinks
<1>3. ASSUME NEW s \in Sessions, SessionWorks(s) \/ SessionEnds(s) \/ SessionStops(s)
      PROVE  Shrinks
  BY <1>1, <1>2, <1>3 DEF SessionWorks, SessionEnds, SessionStops, Open
<1>4. ASSUME NEW r \in Nat,
             \A l \in Ids : \/ listener'[l] = StartedListener(r)
                            \/ listener'[l] = listener[l]
      PROVE  Shrinks
  <2>1. StartedListener(r).sessions = {}
    BY <1>4, StartedSound
  <2> QED  BY <1>4, <2>1 DEF Shrinks
<1>5. published.revision \in Nat /\ published.revision + 1 \in Nat
  BY PreparedType DEF IInv
<1>6. CASE Start
  <2>1. \A l \in Ids : \/ listener'[l] = StartedListener(published.revision)
                       \/ listener'[l] = listener[l]
    BY <1>6 DEF Start
  <2> QED  BY <1>4, <1>5, <2>1
<1>7. ASSUME NEW plan \in Plans, PrepareReload(plan) PROVE Shrinks
  <2>1. \A l \in Ids : \/ listener'[l] = StartedListener(published.revision + 1)
                       \/ listener'[l] = listener[l]
    BY <1>7 DEF PrepareReload
  <2> QED  BY <1>4, <1>5, <2>1
<1>8. CASE Stop \/ AbandonReload
  <2>1. \A l \in Ids : \/ listener'[l] = RequestStop(listener[l])
                       \/ listener'[l] = listener[l]
    BY <1>8 DEF Stop, AbandonReload
  <2>2. \A l \in Ids : RequestStop(listener[l]).sessions = listener[l].sessions
    BY SoundListener, RequestStopKeeps
  <2> QED  BY <2>1, <2>2 DEF Shrinks
<1>9. CASE CommitSwap
  <2>1. \A l \in Ids : \/ listener'[l] = [listener[l] EXCEPT !.tasks =
                                            Append(listener[l].tasks, "retire")]
                       \/ listener'[l] = listener[l]
    BY <1>9 DEF CommitSwap
  <2>2. \A l \in Ids : [listener[l] EXCEPT !.tasks =
                          Append(listener[l].tasks, "retire")].sessions = listener[l].sessions
    BY SoundListener DEF Listener
  <2> QED  BY <2>1, <2>2 DEF Shrinks
<1>10. CASE StartFails \/ CommitPublish \/ Wait
  BY <1>1, <1>10 DEF StartFails, CommitPublish, Wait
<1> QED
  BY <1>3, <1>6, <1>7, <1>8, <1>9, <1>10 DEF Next

\* A listener made ahead of a commit serves nobody before the publication, and nobody at all
\* if the reload is dropped.
THEOREM GateHoldsUntilPublishedHolds == Spec => GateHoldsUntilPublished
<1> DEFINE Gated(l) == ~(listener'[l].sessions \subseteq listener[l].sessions) =>
                         /\ l \in current \cup retired
                         /\ listener[l].minimum_runtime_revision <= published.revision
<1>1. ASSUME IInv, [Next]_vars PROVE \A l \in Ids : Gated(l)
  <2>1. CASE UNCHANGED vars
    BY <2>1 DEF vars
  <2>2. CASE Next /\ ~\E m \in Ids : ListenerStep(m)
    BY <1>1, <2>2, OthersShrink DEF Shrinks
  <2>3. ASSUME NEW m \in Ids, ListenerStep(m) PROVE \A l \in Ids : Gated(l)
    <3>1. CASE ~\E s \in Sessions : AcceptSession(m, s)
      BY <1>1, <2>3, <3>1, ListenerStepShrinks DEF Shrinks
    <3>2. ASSUME NEW s \in Sessions, AcceptSession(m, s) PROVE \A l \in Ids : Gated(l)
      <4>1. \A l \in Ids : l # m => listener'[l] = listener[l]
        BY <1>1, <3>2 DEF AcceptSession, IInv, Listeners
      <4>2. /\ m \in current \cup retired
            /\ listener[m].minimum_runtime_revision <= published.revision
        <5>1. published.revision \in Nat /\ listener[m].minimum_runtime_revision \in Nat
          BY <1>1, SoundListener DEF IInv, TypeOK, Listener
        <5> QED  BY <1>1, <3>2, <5>1, AdmissiblePlaced DEF AcceptSession, Admissible, GateOpen
      <4> QED  BY <4>1, <4>2
    <3> QED  BY <3>1, <3>2
  <2> QED  BY <1>1, <2>1, <2>2, <2>3
<1> QED  BY <1>1, IInvHolds, PTL DEF Spec, GateHoldsUntilPublished
=============================================================================
