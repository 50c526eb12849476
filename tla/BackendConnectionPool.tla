------------------------ MODULE BackendConnectionPool ------------------------
(***************************************************************************)
(* src/src/proxy/BackendConnectionPool.cpp: idle backend connections, kept *)
(* per pool key as a stack, and the reaper thread that closes each at the  *)
(* moment its time to live ends.                                           *)
(*                                                                         *)
(* A critical section under the pool's mutex is one action.  What a thread *)
(* does after the unlock - notifying the reaper, checking a popped         *)
(* connection, closing sockets - is an action of its own.  The clock is    *)
(* absolute and stops at MaxTime; no connection is released so late that   *)
(* its deadline would lie beyond.                                          *)
(***************************************************************************)
EXTENDS Integers, Sequences, FiniteSets, SequencesExt

CONSTANTS
  Conns,        \* backend connections
  Keys,         \* pool keys: protocol, address, host, SNI, verification
  KeyOf,        \* the key a connection belongs to
  Ttls,         \* idle times to live the settings take, in clock ticks
  MaximumIdle,  \* values of maximum_idle
  MaxTime,      \* bound: the clock's last value
  MaxNotifies   \* bound: threads between an unlock and their notify_one

ASSUME KeyOfType == KeyOf \in [Conns -> Keys]
ASSUME TtlsType == Ttls \subseteq Nat
ASSUME MaximumIdleType == MaximumIdle \subseteq Nat
ASSUME BoundsType == MaxTime \in Nat /\ MaxNotifies \in Nat

Never == MaxTime + 1  \* an unset optional<time_point>
IdleConnection == [stream: Conns, released_at: 0 .. MaxTime, expires_at: 0 .. MaxTime]

VARIABLES
  now,              \* steady_clock
  idle,             \* idle_: the lists by key
  keys,             \* the keys present in idle_
  next_expiration,  \* next_expiration_
  notifies,         \* notify_one calls owed by threads that have unlocked
  reaper,           \* "running", "waiting", "closing" or "exited"
  wait_until,       \* the deadline the waiting reaper gave to wait_until
  expired,          \* the reaper's list of connections to close
  popped,           \* <<connection, idle_ttl>> an acquire is about to check
  draining,         \* connections clear() is about to close
  busy,             \* connections in the hands of a transaction
  closed,           \* connections that are closed
  stopping          \* stopping_

vars == << now, idle, keys, next_expiration, notifies, reaper, wait_until, expired,
           popped, draining, busy, closed, stopping >>

-----------------------------------------------------------------------------
Streams(list) == {list[i].stream : i \in DOMAIN list}
AllIdle == UNION {ToSet(idle[k]) : k \in Keys}

\* The reaper's scan for the nearest deadline.
Nearest ==
  IF AllIdle = {} THEN Never
  ELSE CHOOSE e \in {x.expires_at : x \in AllIdle} :
         \A x \in AllIdle : e <= x.expires_at

\* list.erase of every place but those in S; the others keep their order.
Rank(S, i) == Cardinality({j \in S : j <= i})
Pick(list, S) ==
  [n \in 1 .. Cardinality(S) |-> list[CHOOSE i \in S : Rank(S, i) = n]]

Notify(owed) == notifies' = IF owed THEN notifies + 1 ELSE notifies

\* Mutant: the popped connection stays in its list.
KeepBack(list) == list

\* connections.pop_back()
PopBack(list) == SubSeq(list, 1, Len(list) - 1)

\* if (connections.empty()) idle_.erase(found), after one connection was taken.
EraseEmptied(k) == IF Len(idle[k]) = 1 THEN keys \ {k} ELSE keys

ExpiresAt(ttl) == now + ttl

\* release has a new nearest deadline.
NewDeadline(expires) == next_expiration = Never \/ expires < next_expiration

\* release keeps the connection, if it is healthy.
Retainable(c, ttl, max) ==
  max # 0 /\ ttl > 0 /\ ~stopping /\ Len(idle[KeyOf[c]]) < max

\* Mutant: the deadline is not recomputed after it was reset.
ArmedDeadline == next_expiration

\* The reaper recomputes only if nobody has set a deadline since the last reset.
Deadline == IF next_expiration = Never THEN Nearest ELSE next_expiration

Init ==
  /\ now = 0
  /\ idle = [k \in Keys |-> << >>]
  /\ keys = {}
  /\ next_expiration = Never
  /\ notifies = 0
  /\ reaper = "running"
  /\ wait_until = Never
  /\ expired = {}
  /\ popped = {}
  /\ draining = {}
  /\ busy = {}
  /\ closed = Conns
  /\ stopping = FALSE

\* A transaction connects to its backend.
Connect(c) ==
  /\ c \in closed
  /\ closed' = closed \ {c}
  /\ busy' = busy \cup {c}
  /\ UNCHANGED << now, idle, keys, next_expiration, notifies, reaper, wait_until,
                  expired, popped, draining, stopping >>

\* acquire, under the mutex: take the newest connection of the key.
Pop(k, ttl) ==
  LET connection == idle[k][Len(idle[k])]
      nearest == next_expiration # Never /\ connection.expires_at <= next_expiration
  IN
  /\ k \in keys
  /\ notifies < MaxNotifies
  /\ idle' = [idle EXCEPT ![k] = PopBack(@)]
  /\ keys' = EraseEmptied(k)
  /\ popped' = popped \cup {<<connection, ttl>>}
  /\ next_expiration' = IF nearest THEN Never ELSE next_expiration
  /\ Notify(nearest)
  /\ UNCHANGED << now, reaper, wait_until, expired, draining, busy, closed, stopping >>

\* acquire, after the unlock: hand the connection out, or close it and go round
\* again.  `healthy` is reusable()'s probe of the socket.
Check(p, healthy) ==
  LET c == p[1].stream
      fresh == /\ p[2] > 0 /\ now <= p[1].expires_at
               /\ now - p[1].released_at <= p[2] /\ healthy
  IN
  /\ p \in popped
  /\ popped' = popped \ {p}
  /\ busy' = IF fresh THEN busy \cup {c} ELSE busy
  /\ closed' = IF fresh THEN closed ELSE closed \cup {c}
  /\ UNCHANGED << now, idle, keys, next_expiration, notifies, reaper, wait_until,
                  expired, draining, stopping >>

\* release that closes: no pool, no time to live, an unhealthy connection, or a
\* pool that is full or stopping.  operator[] creates no list here, because
\* maximum_idle is not 0 when it is reached.
ReleaseCloses(c, ttl, max, healthy) ==
  /\ c \in busy
  /\ ~healthy \/ ~Retainable(c, ttl, max)
  /\ busy' = busy \ {c}
  /\ closed' = closed \cup {c}
  /\ UNCHANGED << now, idle, keys, next_expiration, notifies, reaper, wait_until,
                  expired, popped, draining, stopping >>

\* release that keeps the connection.
ReleaseRetains(c, ttl, max) ==
  LET k == KeyOf[c]
      expires == ExpiresAt(ttl)
  IN
  /\ c \in busy
  /\ Retainable(c, ttl, max)
  /\ now + ttl <= MaxTime /\ notifies < MaxNotifies
  /\ busy' = busy \ {c}
  /\ idle' = [idle EXCEPT ![k] =
       Append(@, [stream |-> c, released_at |-> now, expires_at |-> expires])]
  /\ keys' = keys \cup {k}
  /\ next_expiration' = IF NewDeadline(expires) THEN expires ELSE next_expiration
  /\ Notify(NewDeadline(expires))
  /\ UNCHANGED << now, reaper, wait_until, expired, popped, draining, closed, stopping >>

\* reaper_wakeup_.notify_one: lost unless the reaper waits.
NotifyOne ==
  /\ notifies > 0
  /\ notifies' = notifies - 1
  /\ reaper' = IF reaper = "waiting" THEN "running" ELSE reaper
  /\ UNCHANGED << now, idle, keys, next_expiration, wait_until, expired, popped,
                  draining, busy, closed, stopping >>

\* clear, which ServerCore::stop and the destructor call.
Clear ==
  /\ notifies < MaxNotifies
  /\ reaper = "exited" \/ ~stopping
  /\ draining' = draining \cup {x.stream : x \in AllIdle}
  /\ idle' = [k \in Keys |-> << >>]
  /\ keys' = {}
  /\ next_expiration' = Never
  /\ Notify(TRUE)
  /\ UNCHANGED << now, reaper, wait_until, expired, popped, busy, closed, stopping >>

\* clear closes what it took, after the unlock.
ClearCloses ==
  /\ draining # {}
  /\ closed' = closed \cup draining
  /\ draining' = {}
  /\ UNCHANGED << now, idle, keys, next_expiration, notifies, reaper, wait_until,
                  expired, popped, busy, stopping >>

\* The destructor's first half; it then notifies, joins the reaper and clears.
Destroy ==
  /\ ~stopping /\ notifies < MaxNotifies
  /\ stopping' = TRUE
  /\ Notify(TRUE)
  /\ UNCHANGED << now, idle, keys, next_expiration, reaper, wait_until, expired,
                  popped, draining, busy, closed >>

\* run_reaper, from the top of its loop to the wait.
ReaperLoop ==
  /\ reaper = "running"
  /\ IF stopping
     THEN reaper' = "exited" /\ UNCHANGED << next_expiration, wait_until >>
     ELSE /\ reaper' = "waiting"
          /\ next_expiration' = Deadline
          /\ wait_until' = Deadline
  /\ UNCHANGED << now, idle, keys, notifies, expired, popped, draining, busy, closed,
                  stopping >>

\* The places of a list whose connections stay: expires_at > now.
Live(list) == {i \in DOMAIN list : list[i].expires_at > now}

\* The wait times out, and the expired connections leave the lists.
ReaperSweeps ==
  /\ reaper = "waiting" /\ wait_until <= now
  /\ reaper' = "closing"
  /\ expired' = {x.stream : x \in {y \in AllIdle : y.expires_at <= now}}
  /\ idle' = [k \in Keys |-> Pick(idle[k], Live(idle[k]))]
  /\ keys' = {k \in keys : Live(idle[k]) # {}}
  /\ next_expiration' = Never
  /\ wait_until' = Never
  /\ UNCHANGED << now, notifies, popped, draining, busy, closed, stopping >>

\* The reaper closes them without the mutex and takes it again.
ReaperCloses ==
  /\ reaper = "closing"
  /\ reaper' = "running"
  /\ closed' = closed \cup expired
  /\ expired' = {}
  /\ UNCHANGED << now, idle, keys, next_expiration, notifies, wait_until, popped,
                  draining, busy, stopping >>

Tick ==
  /\ now < MaxTime
  /\ now' = now + 1
  /\ UNCHANGED << idle, keys, next_expiration, notifies, reaper, wait_until, expired,
                  popped, draining, busy, closed, stopping >>

Next ==
  \/ \E c \in Conns :
       \/ Connect(c)
       \/ \E ttl \in Ttls, max \in MaximumIdle :
            \/ \E healthy \in BOOLEAN : ReleaseCloses(c, ttl, max, healthy)
            \/ ReleaseRetains(c, ttl, max)
  \/ \E k \in Keys, ttl \in Ttls : Pop(k, ttl)
  \/ \E p \in popped, healthy \in BOOLEAN : Check(p, healthy)
  \/ NotifyOne
  \/ Clear
  \/ ClearCloses
  \/ Destroy
  \/ ReaperLoop
  \/ ReaperSweeps
  \/ ReaperCloses
  \/ Tick

Spec == Init /\ [][Next]_vars

\* Time passes, threads finish what they began, the reaper thread is scheduled.
\* Nothing is assumed of the transactions: no acquire, release or clear need come.
Fairness ==
  /\ WF_vars(Tick)
  /\ WF_vars(NotifyOne)
  /\ WF_vars(ReaperLoop)
  /\ WF_vars(ReaperSweeps)
  /\ WF_vars(ReaperCloses)
  /\ WF_vars(ClearCloses)

FairSpec == Spec /\ Fairness

-----------------------------------------------------------------------------
(* Properties                                                              *)

\* Every variable has its type.
TypeOK ==
  /\ now \in 0 .. MaxTime
  /\ idle \in [Keys -> Seq(IdleConnection)]
  /\ keys \subseteq Keys
  /\ next_expiration \in 0 .. Never
  /\ notifies \in Nat
  /\ reaper \in {"running", "waiting", "closing", "exited"}
  /\ wait_until \in 0 .. Never
  /\ expired \subseteq Conns
  /\ popped \subseteq IdleConnection \X Ttls
  /\ draining \subseteq Conns
  /\ busy \subseteq Conns
  /\ closed \subseteq Conns
  /\ stopping \in BOOLEAN

Owners(c) ==
  {o \in {"busy", "closed", "expired", "draining", "popped", "idle"} :
     CASE o = "busy"     -> c \in busy
       [] o = "closed"   -> c \in closed
       [] o = "expired"  -> c \in expired
       [] o = "draining" -> c \in draining
       [] o = "popped"   -> \E p \in popped : p[1].stream = c
       [] o = "idle"     -> \E k \in Keys : c \in Streams(idle[k])}

\* A connection has one owner: two transactions never share one, and none is
\* closed by the reaper or clear() while a transaction uses it, or lost.  And a
\* key is in the map exactly while its list has a connection, so acquire always
\* finds a back() to take, whatever pops, sweeps and clears came before.
OneOwner ==
  /\ \A c \in Conns :
       /\ Cardinality(Owners(c)) = 1
       /\ \A k \in Keys : \A i, j \in DOMAIN idle[k] :
            idle[k][i].stream = c /\ idle[k][j].stream = c => i = j /\ k = KeyOf[c]
  /\ \A p, q \in popped : p[1].stream = q[1].stream => p = q
  /\ \A k \in Keys : k \in keys <=> idle[k] # << >>

\* README.md:136-137: an idle connection does not stay even if no request ever
\* comes again; it is closed or taken.  Once the destructor has begun, none comes
\* back: what a late release brings is closed, so clear() leaves nothing behind.
IdleEventuallyLeaves ==
  /\ \A c \in Conns : (\E x \in AllIdle : x.stream = c /\ ~stopping)
                        ~> (c \notin {x.stream : x \in AllIdle} \/ stopping)
  /\ [][stopping => \A k \in Keys : Len(idle'[k]) <= Len(idle[k])]_vars

\* README.md:136: every idle connection has a deadline of its own, and the reaper
\* closes it at that moment.  So the reaper never sleeps on, with nobody about to
\* wake it, past the deadline of a connection that is still idle.
ClosedAtItsDeadline ==
  reaper = "waiting" /\ notifies = 0 /\ now < wait_until =>
    \A x \in AllIdle : now < x.expires_at

=============================================================================
