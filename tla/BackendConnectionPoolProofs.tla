--------------------- MODULE BackendConnectionPoolProofs ---------------------
(***************************************************************************)
(* Proofs about BackendConnectionPool, for any connections, keys, times to *)
(* live and limits.                                                        *)
(*                                                                         *)
(* OneOwner is not inductive as it stands: that a popped connection is in  *)
(* no list rests on each list holding a connection once and under its own  *)
(* key, and that the reaper may overwrite its list of expired connections  *)
(* on the list being empty except while it closes.  Owning adds both.      *)
(***************************************************************************)
EXTENDS BackendConnectionPool, FiniteSetTheorems, SequenceTheorems, WellFoundedInduction, TLAPS

\* A place's rank among the places that stay numbers them 1, 2, ... without gap or repetition.
LEMMA RankIsBijective ==
  ASSUME NEW n \in Nat, NEW S \in SUBSET (1 .. n)
  PROVE  /\ Cardinality(S) \in Nat
         /\ \A i \in S : Rank(S, i) \in 1 .. Cardinality(S)
         /\ \A i, j \in S : Rank(S, i) = Rank(S, j) => i = j
         /\ \A m \in 1 .. Cardinality(S) : \E i \in S : Rank(S, i) = m
<1> DEFINE Upto(i) == {j \in S : j <= i}
<1>0. S \subseteq Nat
  OBVIOUS
<1>1. IsFiniteSet(S) /\ Cardinality(S) \in Nat
  <2>1. IsFiniteSet(1 .. n)
    BY FS_Interval
  <2> QED  BY <2>1, FS_Subset, FS_CardinalityType
<1>2. ASSUME NEW i \in S
      PROVE  /\ IsFiniteSet(Upto(i)) /\ Cardinality(Upto(i)) \in Nat
             /\ Cardinality(Upto(i)) <= Cardinality(S)
  BY <1>1, FS_Subset, FS_CardinalityType
<1>3. ASSUME NEW i \in S
      PROVE  Cardinality(Upto(i)) > 0
  <2>1. i \in Upto(i)
    OBVIOUS
  <2> HIDE DEF Upto
  <2> QED  BY <1>2, <2>1, FS_EmptySet
<1>4. ASSUME NEW i \in S, NEW j \in S, i < j
      PROVE  Cardinality(Upto(i)) < Cardinality(Upto(j))
  <2>1. Upto(i) \subseteq Upto(j) /\ j \in Upto(j) /\ j \notin Upto(i)
    <3>1. i \in Nat /\ j \in Nat /\ \A e \in S : e \in Nat
      BY <1>0
    <3>2. \A e \in S : e <= i => e <= j
      BY <1>4, <3>1
    <3>3. ~(j <= i) /\ j <= j
      BY <1>4, <3>1
    <3> QED  BY <3>2, <3>3
  <2>2. Upto(i) # Upto(j)
    BY <2>1
  <2> HIDE DEF Upto
  <2> QED  BY <1>2, <2>1, <2>2, FS_Subset
<1>5. \A i \in S : Rank(S, i) = Cardinality(Upto(i))
  BY DEF Rank
<1>6. \A i \in S : Rank(S, i) \in 1 .. Cardinality(S)
  <2> HIDE DEF Upto
  <2> QED  BY <1>1, <1>2, <1>3, <1>5
<1>7. \A i, j \in S : Rank(S, i) = Rank(S, j) => i = j
  <2> SUFFICES ASSUME NEW i \in S, NEW j \in S, Rank(S, i) = Rank(S, j), i # j
               PROVE  FALSE
    OBVIOUS
  <2> HIDE DEF Upto
  <2>1. Cardinality(Upto(i)) = Cardinality(Upto(j)) /\ Cardinality(Upto(i)) \in Nat
    BY <1>2, <1>5
  <2>2. i < j \/ j < i
    BY <1>0
  <2> QED  BY <1>4, <2>1, <2>2
<1>8. ASSUME NEW m \in 1 .. Cardinality(S), \A i \in S : Rank(S, i) # m
      PROVE  FALSE
  <2> DEFINE c == Cardinality(S)
             T == (1 .. c) \ {m}
             f == [i \in S |-> Rank(S, i)]
  <2>1. IsFiniteSet(1 .. c) /\ Cardinality(1 .. c) = c
    BY <1>1, FS_Interval
  <2>2. IsFiniteSet(T) /\ Cardinality(T) = c - 1
    BY <2>1, FS_RemoveElement
  <2>3. f \in [S -> T]
    BY <1>6, <1>8
  <2>4. PICK i, j \in S : i # j /\ f[i] = f[j]
    <3>1. Cardinality(T) < Cardinality(S)
      BY <1>1, <2>2
    <3> HIDE DEF T, f, c
    <3> QED  BY <1>1, <2>2, <2>3, <3>1, FS_PigeonHole
  <2> QED  BY <1>7, <2>4
<1> QED  BY <1>1, <1>6, <1>7, <1>8

\* What the sweep leaves in a list is a list of exactly the connections that stay.
LEMMA PickKeepsOthers ==
  ASSUME NEW A, NEW list \in Seq(A), NEW S \in SUBSET DOMAIN list
  PROVE  /\ Pick(list, S) \in Seq(A)
         /\ Pick(list, S) = << >> <=> S = {}
         /\ \A n \in DOMAIN Pick(list, S) : \E i \in S : /\ Rank(S, i) = n
                                                         /\ Pick(list, S)[n] = list[i]
         /\ \A i \in S : \E n \in DOMAIN Pick(list, S) : Pick(list, S)[n] = list[i]
<1> DEFINE q == Pick(list, S)
           at(n) == CHOOSE i \in S : Rank(S, i) = n
           c == Cardinality(S)
<1>1. S \subseteq 1 .. Len(list) /\ Len(list) \in Nat
  BY LenProperties
<1>2. /\ c \in Nat
      /\ \A i \in S : Rank(S, i) \in 1 .. c
      /\ \A i, j \in S : Rank(S, i) = Rank(S, j) => i = j
      /\ \A m \in 1 .. c : \E i \in S : Rank(S, i) = m
  BY <1>1, RankIsBijective
<1>3. q = [n \in 1 .. c |-> list[at(n)]]
  BY DEF Pick
<1>4. ASSUME NEW n \in 1 .. c
      PROVE  at(n) \in S /\ Rank(S, at(n)) = n
  BY <1>2
<1> HIDE DEF at, q
<1>5. \A i \in S : list[i] \in A
  BY <1>1, ElementOfSeq
<1>6. q \in Seq(A) /\ DOMAIN q = 1 .. c
  <2>1. q \in [1 .. c -> A]
    BY <1>3, <1>4, <1>5
  <2> QED  BY <1>2, <2>1, IsASeq
<1>7. \A n \in 1 .. c : \E i \in S : Rank(S, i) = n /\ q[n] = list[i]
  BY <1>3, <1>4
<1>8. \A i \in S : \E n \in 1 .. c : q[n] = list[i]
  BY <1>2, <1>3, <1>4
<1>9. q = << >> <=> S = {}
  BY <1>6, <1>7, <1>8, EmptySeq, <1>2
<1> QED  BY <1>6, <1>7, <1>8, <1>9 DEF q

\* A set of natural numbers that is not empty has a least element.
LEMMA LeastOfNaturals ==
  ASSUME NEW T \in SUBSET Nat, T # {}
  PROVE  \E m \in T : \A k \in T : m <= k
<1> DEFINE R == OpToRel(<, Nat)
<1>1. IsWellFoundedOn(R, Nat)
  BY NatLessThanWellFounded
<1>2. \A a, b \in Nat : a < b => <<a, b>> \in R
  BY DEF OpToRel
<1> HIDE DEF R
<1>3. PICK m \in T : \A y \in T : ~(<<y, m>> \in R)
  BY <1>1, WFMin
<1>4. ASSUME NEW k \in T PROVE m <= k
  <2>1. m \in Nat /\ k \in Nat /\ <<k, m>> \notin R
    BY <1>3
  <2>2. ~(k < m)
    BY <1>2, <2>1
  <2> QED  BY <2>1, <2>2
<1> QED  BY <1>4

-----------------------------------------------------------------------------
InIdle(c) == \E k \in Keys : \E i \in DOMAIN idle[k] : idle[k][i].stream = c
InPopped(c) == \E p \in popped : p[1].stream = c

\* A connection is in one place.
Once(c) ==
  /\ c \in busy \/ c \in closed \/ c \in expired \/ c \in draining \/ InPopped(c) \/ InIdle(c)
  /\ c \in busy => c \notin closed /\ c \notin expired /\ c \notin draining
  /\ c \in closed => c \notin expired /\ c \notin draining
  /\ c \in expired => c \notin draining
  /\ InPopped(c) => c \notin busy /\ c \notin closed /\ c \notin expired /\ c \notin draining
  /\ InIdle(c) => c \notin busy /\ c \notin closed /\ c \notin expired /\ c \notin draining
                  /\ ~InPopped(c)

\* The lists hold a connection once, under its key.
Listed ==
  /\ \A k \in Keys : \A i \in DOMAIN idle[k] : KeyOf[idle[k][i].stream] = k
  /\ \A k \in Keys : \A i, j \in DOMAIN idle[k] :
       idle[k][i].stream = idle[k][j].stream => i = j

PoppedOnce == \A p, q \in popped : p[1].stream = q[1].stream => p = q

KeysListed == \A k \in Keys : k \in keys <=> idle[k] # << >>

\* The reaper's list is empty before it sweeps.
ExpiredClosing == expired # {} => reaper = "closing"

Owning ==
  /\ TypeOK /\ Listed /\ PoppedOnce /\ KeysListed /\ ExpiredClosing
  /\ \A c \in Conns : Once(c)

\* A waiting reaper to whom no notify is owed sleeps until the pool's own deadline,
\* and it sleeps without one only while no connection is idle.
Armed ==
  reaper = "waiting" /\ notifies = 0 =>
    /\ wait_until = next_expiration
    /\ next_expiration = Never => AllIdle = {}

-----------------------------------------------------------------------------
\* Never lies beyond the clock.
LEMMA NeverType == Never \in Nat /\ MaxTime \in Nat /\ Never = MaxTime + 1
BY BoundsType DEF Never

\* What TypeOK says of one list: its length, its places and its connections.
LEMMA ListType ==
  ASSUME TypeOK, NEW k \in Keys
  PROVE  /\ idle[k] \in Seq(IdleConnection) /\ Len(idle[k]) \in Nat
         /\ DOMAIN idle[k] = 1 .. Len(idle[k])
         /\ \A i \in DOMAIN idle[k] : idle[k][i] \in IdleConnection /\ idle[k][i] \in AllIdle
         /\ idle[k] = << >> <=> DOMAIN idle[k] = {}
<1>1. idle[k] \in Seq(IdleConnection)
  BY DEF TypeOK
<1>2. Len(idle[k]) \in Nat /\ DOMAIN idle[k] = 1 .. Len(idle[k])
  BY <1>1, LenProperties
<1>3. \A i \in DOMAIN idle[k] : idle[k][i] \in IdleConnection
  BY <1>1, <1>2, ElementOfSeq
<1>4. \A i \in DOMAIN idle[k] : idle[k][i] \in AllIdle
  BY DEF AllIdle, ToSet
<1>5. idle[k] = << >> <=> DOMAIN idle[k] = {}
  <2>1. idle[k] = << >> <=> Len(idle[k]) = 0
    BY <1>1, EmptySeq
  <2>2. 1 .. Len(idle[k]) = {} <=> Len(idle[k]) = 0
    BY <1>2
  <2> QED  BY <1>2, <2>1, <2>2
<1> QED  BY <1>1, <1>2, <1>3, <1>4, <1>5

\* AllIdle is what the lists hold, no more and no less.
LEMMA AllIdleType ==
  ASSUME TypeOK
  PROVE  /\ AllIdle \subseteq IdleConnection
         /\ \A x \in AllIdle : \E k \in Keys : \E i \in DOMAIN idle[k] : x = idle[k][i]
         /\ \A c : InIdle(c) <=> \E x \in AllIdle : x.stream = c
<1>1. \A x \in AllIdle : \E k \in Keys : \E i \in DOMAIN idle[k] : x = idle[k][i]
  BY DEF AllIdle, ToSet
<1>2. AllIdle \subseteq IdleConnection
  BY <1>1, ListType
<1>3. ASSUME NEW c PROVE InIdle(c) <=> \E x \in AllIdle : x.stream = c
  <2>1. ASSUME InIdle(c) PROVE \E x \in AllIdle : x.stream = c
    <3>1. PICK k \in Keys : \E i \in DOMAIN idle[k] : idle[k][i].stream = c
      BY <2>1 DEF InIdle
    <3>2. PICK i \in DOMAIN idle[k] : idle[k][i].stream = c
      BY <3>1
    <3> QED  BY <3>2, ListType
  <2>2. ASSUME NEW x \in AllIdle, x.stream = c PROVE InIdle(c)
    BY <1>1, <2>2 DEF InIdle
  <2> QED  BY <2>1, <2>2
<1> QED  BY <1>1, <1>2, <1>3

\* The scan of run_reaper finds the nearest deadline, and none exactly if nothing is idle.
LEMMA NearestIsNearest ==
  ASSUME TypeOK
  PROVE  /\ Nearest \in 0 .. Never
         /\ AllIdle = {} <=> Nearest = Never
         /\ \A x \in AllIdle : Nearest <= x.expires_at
<1>1. CASE AllIdle = {}
  BY <1>1, NeverType DEF Nearest
<1>2. CASE AllIdle # {}
  <2> DEFINE T == {x.expires_at : x \in AllIdle}
             P(e) == \A x \in AllIdle : e <= x.expires_at
  <2>1. T \subseteq 0 .. MaxTime /\ T \subseteq Nat /\ T # {}
    BY <1>2, AllIdleType, NeverType DEF IdleConnection
  <2>2. PICK m \in T : \A k \in T : m <= k
    BY <2>1, LeastOfNaturals
  <2>3. m \in T /\ P(m)
    BY <2>2
  <2>4. Nearest = CHOOSE e \in T : P(e)
    BY <1>2 DEF Nearest
  <2>5. Nearest \in T /\ P(Nearest)
    BY <2>3, <2>4
  <2> QED  BY <1>2, <2>1, <2>5, NeverType
<1> QED  BY <1>1, <1>2

-----------------------------------------------------------------------------
(* Steps that leave the lists alone                                        *)

\* Whether a connection is in one place depends only on where it is.
LEMMA OnceFrom ==
  ASSUME NEW c, idle' = idle, popped' = popped
  PROVE  InIdle(c)' = InIdle(c) /\ InPopped(c)' = InPopped(c)
BY DEF InIdle, InPopped

\* What the lists hold, and under which key, depends only on the lists.
LEMMA SameLists ==
  ASSUME idle' = idle
  PROVE  AllIdle' = AllIdle /\ (Listed => Listed')
BY DEF AllIdle, Listed

\* A new connection belongs to the transaction that opened it.
LEMMA ConnectOwning ==
  ASSUME Owning, NEW c \in Conns, Connect(c)
  PROVE  Owning'
<1>1. TypeOK'
  BY DEF Owning, TypeOK, Connect
<1>2. Listed' /\ PoppedOnce' /\ KeysListed' /\ ExpiredClosing'
  BY DEF Owning, Connect, Listed, PoppedOnce, KeysListed, ExpiredClosing
<1>3. ASSUME NEW d \in Conns PROVE Once(d)'
  <2>1. Once(d) /\ InIdle(d)' = InIdle(d) /\ InPopped(d)' = InPopped(d)
    BY OnceFrom DEF Owning, Connect
  <2> QED  BY <2>1 DEF Connect, Once
<1> QED  BY <1>1, <1>2, <1>3 DEF Owning

\* A release that closes takes the connection from its transaction.
LEMMA ReleaseClosesOwning ==
  ASSUME Owning, NEW c \in Conns, NEW ttl \in Ttls, NEW max \in MaximumIdle,
         NEW healthy \in BOOLEAN, ReleaseCloses(c, ttl, max, healthy)
  PROVE  Owning'
<1>1. TypeOK'
  BY DEF Owning, TypeOK, ReleaseCloses
<1>2. Listed' /\ PoppedOnce' /\ KeysListed' /\ ExpiredClosing'
  BY DEF Owning, ReleaseCloses, Listed, PoppedOnce, KeysListed, ExpiredClosing
<1>3. ASSUME NEW d \in Conns PROVE Once(d)'
  <2>1. Once(d) /\ InIdle(d)' = InIdle(d) /\ InPopped(d)' = InPopped(d)
    BY OnceFrom DEF Owning, ReleaseCloses
  <2> QED  BY <2>1 DEF ReleaseCloses, Once
<1> QED  BY <1>1, <1>2, <1>3 DEF Owning

\* clear() closes what it took from the lists and nothing else.
LEMMA ClearClosesOwning ==
  ASSUME Owning, ClearCloses
  PROVE  Owning'
<1>1. TypeOK'
  BY DEF Owning, TypeOK, ClearCloses
<1>2. Listed' /\ PoppedOnce' /\ KeysListed' /\ ExpiredClosing'
  BY DEF Owning, ClearCloses, Listed, PoppedOnce, KeysListed, ExpiredClosing
<1>3. ASSUME NEW d \in Conns PROVE Once(d)'
  <2>1. Once(d) /\ InIdle(d)' = InIdle(d) /\ InPopped(d)' = InPopped(d)
    BY OnceFrom DEF Owning, ClearCloses
  <2> QED  BY <2>1 DEF ClearCloses, Once
<1> QED  BY <1>1, <1>2, <1>3 DEF Owning

\* The reaper closes what it swept and nothing else.
LEMMA ReaperClosesOwning ==
  ASSUME Owning, ReaperCloses
  PROVE  Owning'
<1>1. TypeOK'
  BY DEF Owning, TypeOK, ReaperCloses
<1>2. Listed' /\ PoppedOnce' /\ KeysListed' /\ ExpiredClosing'
  BY DEF Owning, ReaperCloses, Listed, PoppedOnce, KeysListed, ExpiredClosing
<1>3. ASSUME NEW d \in Conns PROVE Once(d)'
  <2>1. Once(d) /\ InIdle(d)' = InIdle(d) /\ InPopped(d)' = InPopped(d)
    BY OnceFrom DEF Owning, ReaperCloses
  <2> QED  BY <2>1 DEF ReaperCloses, Once
<1> QED  BY <1>1, <1>2, <1>3 DEF Owning

\* A notify, the destructor's first half, the reaper going to sleep and the clock move no
\* connection.
LEMMA BystandersOwning ==
  ASSUME Owning, NotifyOne \/ Destroy \/ ReaperLoop \/ Tick \/ UNCHANGED vars
  PROVE  Owning'
<1>1. TypeOK'
  <2>1. Nearest \in 0 .. Never
    BY NearestIsNearest DEF Owning
  <2>2. CASE NotifyOne
    BY <2>2 DEF Owning, TypeOK, NotifyOne
  <2>3. CASE Destroy
    BY <2>3 DEF Owning, TypeOK, Destroy, Notify
  <2>4. CASE ReaperLoop
    BY <2>1, <2>4 DEF Owning, TypeOK, ReaperLoop, Deadline
  <2>5. CASE Tick
    BY <2>5, NeverType DEF Owning, TypeOK, Tick
  <2>6. CASE UNCHANGED vars
    BY <2>6 DEF Owning, TypeOK, vars
  <2> QED  BY <2>2, <2>3, <2>4, <2>5, <2>6
<1>2. /\ UNCHANGED << idle, keys, expired, popped, draining, busy, closed >>
      /\ reaper = "closing" => reaper' = "closing"
  BY DEF NotifyOne, Destroy, ReaperLoop, Tick, vars
<1>3. Listed' /\ PoppedOnce' /\ KeysListed' /\ ExpiredClosing'
  BY <1>2 DEF Owning, Listed, PoppedOnce, KeysListed, ExpiredClosing
<1>4. ASSUME NEW d \in Conns PROVE Once(d)'
  <2>1. Once(d) /\ InIdle(d)' = InIdle(d) /\ InPopped(d)' = InPopped(d)
    BY <1>2, OnceFrom DEF Owning
  <2> QED  BY <1>2, <2>1 DEF Once
<1> QED  BY <1>1, <1>3, <1>4 DEF Owning

\* A popped connection goes to the transaction that popped it or is closed.
LEMMA CheckOwning ==
  ASSUME Owning, NEW p \in popped, NEW healthy \in BOOLEAN, Check(p, healthy)
  PROVE  Owning'
<1> DEFINE c == p[1].stream
<1>1. c \in Conns
  BY DEF Owning, TypeOK, IdleConnection
<1>2. /\ UNCHANGED << now, idle, keys, next_expiration, notifies, reaper, wait_until, expired,
                      draining, stopping >>
      /\ popped' = popped \ {p}
      /\ \/ busy' = busy \cup {c} /\ closed' = closed
         \/ busy' = busy /\ closed' = closed \cup {c}
  BY DEF Check
<1>3. TypeOK'
  BY <1>1, <1>2 DEF Owning, TypeOK
<1>4. Listed' /\ PoppedOnce' /\ KeysListed' /\ ExpiredClosing'
  BY <1>2 DEF Owning, Listed, PoppedOnce, KeysListed, ExpiredClosing
<1>5. ASSUME NEW d \in Conns PROVE Once(d)'
  <2>1. InIdle(d)' = InIdle(d)
    BY <1>2 DEF InIdle
  <2>2. CASE d = c
    <3>1. InPopped(d) /\ ~InPopped(d)'
      BY <1>2, <2>2 DEF InPopped, Owning, PoppedOnce
    <3> QED  BY <1>2, <2>1, <2>2, <3>1 DEF Owning, Once
  <2>3. CASE d # c
    <3>1. InPopped(d)' <=> InPopped(d)
      BY <1>2, <2>3 DEF InPopped
    <3> QED  BY <1>2, <2>1, <2>3, <3>1 DEF Owning, Once
  <2> QED  BY <2>2, <2>3
<1> QED  BY <1>3, <1>4, <1>5 DEF Owning

-----------------------------------------------------------------------------
(* Steps that change the lists                                             *)

\* acquire takes the connection at the back() of a list out of it; the list goes with its
\* last connection.
LEMMA PopOwning ==
  ASSUME Owning, NEW k \in Keys, NEW ttl \in Ttls, Pop(k, ttl)
  PROVE  Owning'
<1> DEFINE n == Len(idle[k])
           x == idle[k][n]
           c == x.stream
           back == PopBack(idle[k])
<1>1. /\ idle[k] \in Seq(IdleConnection) /\ n \in Nat /\ DOMAIN idle[k] = 1 .. n
      /\ \A i \in DOMAIN idle[k] : idle[k][i] \in IdleConnection
      /\ idle[k] = << >> <=> DOMAIN idle[k] = {}
  BY ListType DEF Owning
<1>2. idle[k] # << >>
  BY DEF Pop, Owning, KeysListed
<1>3. n \in DOMAIN idle[k] /\ n > 0
  BY <1>1, <1>2
<1>4. x \in IdleConnection /\ c \in Conns
  BY <1>1, <1>3 DEF IdleConnection
<1>5. /\ back \in Seq(IdleConnection) /\ DOMAIN back = 1 .. (n - 1)
      /\ \A i \in 1 .. (n - 1) : back[i] = idle[k][i]
  BY <1>1, <1>3, SubSeqProperties DEF PopBack
<1>6. back = << >> <=> n = 1
  <2>1. back = << >> <=> Len(back) = 0
    BY <1>5, EmptySeq
  <2>2. Len(back) \in Nat /\ DOMAIN back = 1 .. Len(back)
    BY <1>5, LenProperties
  <2>3. 1 .. Len(back) = 1 .. (n - 1)
    BY <1>5, <2>2
  <2> HIDE DEF back, n
  <2>4. Len(back) = 0 <=> n = 1
    BY <1>1, <1>3, <2>2, <2>3
  <2> QED  BY <2>1, <2>4
<1>7. /\ idle' = [idle EXCEPT ![k] = back]
      /\ keys' = IF n = 1 THEN keys \ {k} ELSE keys
      /\ popped' = popped \cup {<<x, ttl>>}
      /\ next_expiration' \in {Never, next_expiration}
      /\ notifies' \in {notifies, notifies + 1}
      /\ UNCHANGED << now, reaper, wait_until, expired, draining, busy, closed, stopping >>
  BY DEF Pop, EraseEmptied, Notify
<1>8. idle \in [Keys -> Seq(IdleConnection)]
  BY DEF Owning, TypeOK
<1> HIDE DEF x, n, back, c
<1>9. /\ idle'[k] = back
      /\ \A l \in Keys : l # k => idle'[l] = idle[l]
  BY <1>7, <1>8
<1>10. TypeOK'
  <2>1. idle' \in [Keys -> Seq(IdleConnection)]
    BY <1>5, <1>7, <1>8
  <2>2. popped' \subseteq IdleConnection \X Ttls
    BY <1>4, <1>7 DEF Owning, TypeOK
  <2>3. next_expiration' \in 0 .. Never /\ notifies' \in Nat
    BY <1>7, NeverType DEF Owning, TypeOK
  <2> QED  BY <1>7, <2>1, <2>2, <2>3 DEF Owning, TypeOK
<1>11. Listed'
  <2>1. \A i \in 1 .. (n - 1) : i \in DOMAIN idle[k]
    BY <1>1, <1>3
  <2>2. ASSUME NEW l \in Keys
        PROVE  /\ \A i \in DOMAIN idle'[l] : KeyOf[idle'[l][i].stream] = l
               /\ \A i, j \in DOMAIN idle'[l] :
                    idle'[l][i].stream = idle'[l][j].stream => i = j
    <3>1. CASE l = k
      <4>1. \A i \in DOMAIN idle[k] : KeyOf[idle[k][i].stream] = k
        BY DEF Owning, Listed
      <4>2. \A i, j \in DOMAIN idle[k] : idle[k][i].stream = idle[k][j].stream => i = j
        BY DEF Owning, Listed
      <4>3. \A i \in 1 .. (n - 1) : KeyOf[back[i].stream] = k
        BY <1>5, <2>1, <4>1
      <4>4. \A i, j \in 1 .. (n - 1) : back[i].stream = back[j].stream => i = j
        BY <1>5, <2>1, <4>2
      <4> QED  BY <1>5, <1>9, <3>1, <4>3, <4>4
    <3>2. CASE l # k
      BY <1>9, <3>2 DEF Owning, Listed
    <3> QED  BY <3>1, <3>2
  <2> QED  BY <2>2 DEF Listed
<1>12. ~InPopped(c) /\ InIdle(c)
  BY <1>3, <1>4 DEF Owning, Once, InIdle, x, c
<1>13. PoppedOnce'
  <2>1. \A p \in popped : p[1].stream # c
    BY <1>12 DEF InPopped
  <2>2. <<x, ttl>>[1].stream = c
    BY DEF c
  <2> QED  BY <1>7, <2>1, <2>2 DEF Owning, PoppedOnce
<1>14. KeysListed'
  BY <1>2, <1>6, <1>7, <1>9 DEF Owning, KeysListed
<1>15. ExpiredClosing'
  BY <1>7 DEF Owning, ExpiredClosing
<1>16. ASSUME NEW d \in Conns PROVE Once(d)'
  <2>1. InPopped(d)' <=> InPopped(d) \/ d = c
    <3>1. <<x, ttl>>[1].stream = c
      BY DEF c
    <3> QED  BY <1>7, <3>1 DEF InPopped
  <2>2. CASE d = c
    <3>1. ~InIdle(d)'
      <4> SUFFICES ASSUME NEW l \in Keys, NEW i \in DOMAIN idle'[l], idle'[l][i].stream = c
                   PROVE  FALSE
        BY <2>2 DEF InIdle
      <4>1. KeyOf[c] = k
        BY <1>3 DEF Owning, Listed, c, x
      <4>2. l = k
        BY <1>11, <4>1 DEF Listed
      <4>3. i \in 1 .. (n - 1) /\ idle[k][i].stream = c
        BY <1>5, <1>9, <4>2
      <4>4. i \in DOMAIN idle[k] /\ i # n
        BY <1>1, <1>3, <4>3
      <4> QED  BY <1>3, <4>3, <4>4 DEF Owning, Listed, c, x
    <3> QED  BY <1>7, <1>12, <2>1, <2>2, <3>1 DEF Owning, Once
  <2>3. CASE d # c
    <3>1. InIdle(d)' => InIdle(d)
      <4> SUFFICES ASSUME NEW l \in Keys, NEW i \in DOMAIN idle'[l], idle'[l][i].stream = d
                   PROVE  InIdle(d)
        BY DEF InIdle
      <4>1. i \in DOMAIN idle[l] /\ idle[l][i].stream = d
        BY <1>1, <1>3, <1>5, <1>9
      <4> QED  BY <4>1 DEF InIdle
    <3>2. InIdle(d) => InIdle(d)'
      <4> SUFFICES ASSUME NEW l \in Keys, NEW i \in DOMAIN idle[l], idle[l][i].stream = d
                   PROVE  InIdle(d)'
        BY DEF InIdle
      <4>1. l = k => i # n
        BY <2>3 DEF c, x
      <4>2. i \in DOMAIN idle'[l] /\ idle'[l][i].stream = d
        BY <1>1, <1>3, <1>5, <1>9, <4>1
      <4> QED  BY <4>2 DEF InIdle
    <3> QED  BY <1>7, <2>1, <2>3, <3>1, <3>2 DEF Owning, Once
  <2> QED  BY <2>2, <2>3
<1> QED  BY <1>10, <1>11, <1>13, <1>14, <1>15, <1>16 DEF Owning

\* release puts the connection at the back() of its key's list.
LEMMA ReleaseRetainsOwning ==
  ASSUME Owning, NEW c \in Conns, NEW ttl \in Ttls, NEW max \in MaximumIdle,
         ReleaseRetains(c, ttl, max)
  PROVE  Owning'
<1> DEFINE k == KeyOf[c]
           n == Len(idle[k])
           x == [stream |-> c, released_at |-> now, expires_at |-> now + ttl]
           longer == Append(idle[k], x)
<1>1. k \in Keys
  BY KeyOfType
<1> HIDE DEF k
<1>2. idle[k] \in Seq(IdleConnection) /\ n \in Nat /\ DOMAIN idle[k] = 1 .. n
  BY <1>1, ListType DEF Owning
<1>3. x \in IdleConnection /\ now + ttl \in 0 .. MaxTime /\ x.stream = c
  BY TtlsType, NeverType DEF ReleaseRetains, Owning, TypeOK, IdleConnection
<1>4. /\ idle' = [idle EXCEPT ![k] = longer]
      /\ keys' = keys \cup {k}
      /\ busy' = busy \ {c} /\ c \in busy
      /\ next_expiration' \in {now + ttl, next_expiration}
      /\ notifies' \in {notifies, notifies + 1}
      /\ UNCHANGED << now, reaper, wait_until, expired, popped, draining, closed, stopping >>
  BY DEF ReleaseRetains, ExpiresAt, Notify, k
<1> HIDE DEF x, n
<1>5. /\ longer \in Seq(IdleConnection) /\ DOMAIN longer = 1 .. (n + 1)
      /\ \A i \in 1 .. n : longer[i] = idle[k][i]
      /\ longer[n + 1] = x /\ longer # << >>
  BY <1>2, <1>3, AppendProperties DEF n
<1> HIDE DEF longer
<1>6. idle \in [Keys -> Seq(IdleConnection)]
  BY DEF Owning, TypeOK
<1>7. /\ idle'[k] = longer
      /\ \A l \in Keys : l # k => idle'[l] = idle[l]
  BY <1>1, <1>4, <1>6
<1>8. TypeOK'
  <2>1. idle' \in [Keys -> Seq(IdleConnection)]
    BY <1>4, <1>5, <1>6
  <2>2. next_expiration' \in 0 .. Never /\ notifies' \in Nat
    BY <1>3, <1>4, NeverType DEF Owning, TypeOK
  <2> QED  BY <1>1, <1>4, <2>1, <2>2 DEF Owning, TypeOK
<1>9. ~InIdle(c) /\ ~InPopped(c) /\ c \notin closed /\ c \notin expired /\ c \notin draining
  BY <1>4 DEF Owning, Once
<1>10. \A i \in 1 .. n : idle[k][i].stream # c
  BY <1>1, <1>2, <1>9 DEF InIdle
<1>11. Listed'
  <2>1. ASSUME NEW l \in Keys
        PROVE  /\ \A i \in DOMAIN idle'[l] : KeyOf[idle'[l][i].stream] = l
               /\ \A i, j \in DOMAIN idle'[l] :
                    idle'[l][i].stream = idle'[l][j].stream => i = j
    <3>1. CASE l = k
      <4>1. \A i \in 1 .. (n + 1) : i \in 1 .. n \/ i = n + 1
        BY <1>2
      <4>2. \A i \in 1 .. n : KeyOf[longer[i].stream] = k
        BY <1>1, <1>2, <1>5 DEF Owning, Listed
      <4>3. KeyOf[longer[n + 1].stream] = k
        BY <1>3, <1>5 DEF k
      <4>4. \A i, j \in 1 .. n : longer[i].stream = longer[j].stream => i = j
        BY <1>1, <1>2, <1>5 DEF Owning, Listed
      <4>5. \A i \in 1 .. n : longer[i].stream # longer[n + 1].stream
        BY <1>3, <1>5, <1>10
      <4>6. \A i, j \in 1 .. (n + 1) : longer[i].stream = longer[j].stream => i = j
        BY <4>1, <4>4, <4>5
      <4>7. \A i \in 1 .. (n + 1) : KeyOf[longer[i].stream] = k
        BY <4>1, <4>2, <4>3
      <4> QED  BY <1>5, <1>7, <3>1, <4>6, <4>7
    <3>2. CASE l # k
      BY <1>7, <3>2 DEF Owning, Listed
    <3> QED  BY <3>1, <3>2
  <2> QED  BY <2>1 DEF Listed
<1>12. PoppedOnce' /\ ExpiredClosing'
  BY <1>4 DEF Owning, PoppedOnce, ExpiredClosing
<1>13. KeysListed'
  BY <1>4, <1>5, <1>7 DEF Owning, KeysListed
<1>14. ASSUME NEW d \in Conns PROVE Once(d)'
  <2>1. InPopped(d)' = InPopped(d)
    BY <1>4 DEF InPopped
  <2>2. InIdle(c)'
    <3>1. n + 1 \in DOMAIN idle'[k] /\ idle'[k][n + 1].stream = c
      BY <1>2, <1>3, <1>5, <1>7
    <3> QED  BY <1>1, <3>1 DEF InIdle
  <2>3. d # c => (InIdle(d)' <=> InIdle(d))
    <3>1. ASSUME d # c, NEW l \in Keys, NEW i \in DOMAIN idle'[l], idle'[l][i].stream = d
          PROVE  InIdle(d)
      <4>1. i \in DOMAIN idle[l] /\ idle[l][i].stream = d
        BY <1>2, <1>3, <1>5, <1>7, <3>1
      <4> QED  BY <4>1 DEF InIdle
    <3>2. ASSUME NEW l \in Keys, NEW i \in DOMAIN idle[l], idle[l][i].stream = d
          PROVE  InIdle(d)'
      <4>1. i \in DOMAIN idle'[l] /\ idle'[l][i].stream = d
        BY <1>2, <1>5, <1>7, <3>2
      <4> QED  BY <4>1 DEF InIdle
    <3> QED  BY <3>1, <3>2 DEF InIdle
  <2> QED  BY <1>4, <1>9, <2>1, <2>2, <2>3 DEF Owning, Once
<1> QED  BY <1>8, <1>11, <1>12, <1>13, <1>14 DEF Owning

\* clear() takes every idle connection, and every list goes.
LEMMA ClearOwning ==
  ASSUME Owning, Clear
  PROVE  Owning'
<1>1. /\ idle' = [k \in Keys |-> << >>] /\ keys' = {}
      /\ draining' = draining \cup {x.stream : x \in AllIdle}
      /\ next_expiration' = Never /\ notifies' = notifies + 1
      /\ UNCHANGED << now, reaper, wait_until, expired, popped, busy, closed, stopping >>
  BY DEF Clear, Notify
<1>2. TypeOK'
  <2>1. {x.stream : x \in AllIdle} \subseteq Conns
    BY AllIdleType DEF IdleConnection, Owning
  <2>2. idle' \in [Keys -> Seq(IdleConnection)]
    BY <1>1, EmptySeq
  <2> QED  BY <1>1, <2>1, <2>2, NeverType DEF Owning, TypeOK
<1>3. \A k \in Keys : idle'[k] = << >> /\ DOMAIN idle'[k] = {}
  BY <1>1
<1>4. Listed' /\ PoppedOnce' /\ KeysListed' /\ ExpiredClosing'
  BY <1>1, <1>3 DEF Owning, Listed, PoppedOnce, KeysListed, ExpiredClosing
<1>5. ASSUME NEW d \in Conns PROVE Once(d)'
  <2>1. InPopped(d)' = InPopped(d)
    BY <1>1 DEF InPopped
  <2>2. ~InIdle(d)'
    BY <1>3 DEF InIdle
  <2>3. d \in draining' <=> d \in draining \/ InIdle(d)
    BY <1>1, AllIdleType DEF Owning
  <2> QED  BY <1>1, <2>1, <2>2, <2>3 DEF Owning, Once
<1> QED  BY <1>2, <1>4, <1>5 DEF Owning

\* The sweep splits each list: what has expired goes to the reaper, the rest stays, and an
\* emptied list goes.
LEMMA ReaperSweepsOwning ==
  ASSUME Owning, ReaperSweeps
  PROVE  Owning'
<1>1. /\ idle' = [k \in Keys |-> Pick(idle[k], Live(idle[k]))]
      /\ expired' = {x.stream : x \in {y \in AllIdle : y.expires_at <= now}}
      /\ keys' = {k \in keys : Live(idle[k]) # {}}
      /\ reaper' = "closing" /\ reaper = "waiting"
      /\ next_expiration' = Never /\ wait_until' = Never
      /\ UNCHANGED << now, notifies, popped, draining, busy, closed, stopping >>
  BY DEF ReaperSweeps
<1>2. ASSUME NEW k \in Keys
      PROVE  LET S == Live(idle[k])
             IN  /\ S \subseteq DOMAIN idle[k]
                 /\ idle'[k] \in Seq(IdleConnection)
                 /\ idle'[k] = << >> <=> S = {}
                 /\ \A n \in DOMAIN idle'[k] : \E i \in S : Rank(S, i) = n /\ idle'[k][n] = idle[k][i]
                 /\ \A i \in S : \E n \in DOMAIN idle'[k] : idle'[k][n] = idle[k][i]
  <2> DEFINE S == Live(idle[k])
  <2>1. S \subseteq DOMAIN idle[k] /\ idle[k] \in Seq(IdleConnection)
    BY ListType DEF Live, Owning
  <2>2. idle'[k] = Pick(idle[k], S)
    BY <1>1
  <2> HIDE DEF S
  <2> QED  BY <2>1, <2>2, PickKeepsOthers DEF S
<1>3. TypeOK'
  <2>1. idle' \in [Keys -> Seq(IdleConnection)]
    BY <1>1, <1>2
  <2>2. expired' \subseteq Conns
    BY <1>1, AllIdleType DEF IdleConnection, Owning
  <2> QED  BY <1>1, <2>1, <2>2, NeverType DEF Owning, TypeOK
<1>4. Listed'
  <2>1. ASSUME NEW k \in Keys, NEW n \in DOMAIN idle'[k] PROVE KeyOf[idle'[k][n].stream] = k
    <3>1. PICK i \in DOMAIN idle[k] : idle'[k][n] = idle[k][i]
      BY <1>2, <2>1
    <3> QED  BY <3>1 DEF Owning, Listed
  <2>2. ASSUME NEW k \in Keys, NEW n \in DOMAIN idle'[k], NEW m \in DOMAIN idle'[k],
               idle'[k][n].stream = idle'[k][m].stream
        PROVE  n = m
    <3> DEFINE S == Live(idle[k])
    <3>1. PICK i \in S : Rank(S, i) = n /\ idle'[k][n] = idle[k][i]
      BY <1>2, <2>2
    <3>2. PICK j \in S : Rank(S, j) = m /\ idle'[k][m] = idle[k][j]
      BY <1>2, <2>2
    <3>3. i \in DOMAIN idle[k] /\ j \in DOMAIN idle[k]
      BY <1>2, <3>1, <3>2
    <3>4. i = j
      BY <2>2, <3>1, <3>2, <3>3 DEF Owning, Listed
    <3> QED  BY <3>1, <3>2, <3>4
  <2> QED  BY <2>1, <2>2 DEF Listed
<1>5. PoppedOnce' /\ ExpiredClosing'
  BY <1>1 DEF Owning, PoppedOnce, ExpiredClosing
<1>6. KeysListed'
  <2>1. ASSUME NEW k \in Keys PROVE k \in keys' <=> idle'[k] # << >>
    <3>1. Live(idle[k]) # {} => k \in keys
      <4>1. idle[k] = << >> => DOMAIN idle[k] = {}
        BY ListType DEF Owning
      <4> QED  BY <1>2, <4>1 DEF Owning, KeysListed
    <3> QED  BY <1>1, <1>2, <3>1
  <2> QED  BY <2>1 DEF KeysListed
<1>7. ASSUME NEW d \in Conns PROVE Once(d)'
  <2>1. InPopped(d)' = InPopped(d)
    BY <1>1 DEF InPopped
  <2>2. expired = {}
    BY <1>1 DEF Owning, ExpiredClosing
  <2>3. InIdle(d)' <=> \E k \in Keys : \E i \in Live(idle[k]) : idle[k][i].stream = d
    <3>1. ASSUME NEW k \in Keys, NEW n \in DOMAIN idle'[k], idle'[k][n].stream = d
          PROVE  \E i \in Live(idle[k]) : idle[k][i].stream = d
      BY <1>2, <3>1
    <3>2. ASSUME NEW k \in Keys, NEW i \in Live(idle[k]), idle[k][i].stream = d
          PROVE  \E n \in DOMAIN idle'[k] : idle'[k][n].stream = d
      BY <1>2, <3>2
    <3> QED  BY <3>1, <3>2 DEF InIdle
  <2>4. d \in expired' <=> \E k \in Keys : \E i \in DOMAIN idle[k] :
                             idle[k][i].stream = d /\ idle[k][i].expires_at <= now
    <3>1. ASSUME d \in expired'
          PROVE  \E k \in Keys : \E i \in DOMAIN idle[k] :
                   idle[k][i].stream = d /\ idle[k][i].expires_at <= now
      <4>1. PICK x \in AllIdle : x.stream = d /\ x.expires_at <= now
        BY <1>1, <3>1
      <4> QED  BY <4>1, AllIdleType DEF Owning
    <3>2. ASSUME NEW k \in Keys, NEW i \in DOMAIN idle[k],
                 idle[k][i].stream = d, idle[k][i].expires_at <= now
          PROVE  d \in expired'
      <4>1. idle[k][i] \in AllIdle
        BY ListType DEF Owning
      <4> QED  BY <1>1, <3>2, <4>1
    <3> QED  BY <3>1, <3>2
  <2>5. \A k \in Keys : \A i \in DOMAIN idle[k] : i \in Live(idle[k]) <=> ~(idle[k][i].expires_at <= now)
    <3>1. ASSUME NEW k \in Keys, NEW i \in DOMAIN idle[k]
          PROVE  idle[k][i].expires_at \in Int /\ now \in Int
      <4>1. idle[k][i] \in IdleConnection
        BY ListType DEF Owning
      <4> QED  BY <4>1, NeverType DEF IdleConnection, Owning, TypeOK
    <3> QED  BY <3>1 DEF Live
  <2>6. InIdle(d) <=> d \in expired' \/ InIdle(d)'
    BY <1>2, <2>3, <2>4, <2>5 DEF InIdle
  <2>7. ~(d \in expired' /\ InIdle(d)')
    <3> SUFFICES ASSUME NEW k \in Keys, NEW i \in DOMAIN idle[k], idle[k][i].stream = d,
                        idle[k][i].expires_at <= now,
                        NEW l \in Keys, NEW j \in Live(idle[l]), idle[l][j].stream = d
                 PROVE  FALSE
      BY <2>3, <2>4
    <3>1. j \in DOMAIN idle[l]
      BY <1>2
    <3>2. k = l
      BY <3>1 DEF Owning, Listed
    <3>3. i = j
      BY <3>1, <3>2 DEF Owning, Listed
    <3> QED  BY <2>5, <3>1, <3>2, <3>3
  <2> QED  BY <1>1, <2>1, <2>2, <2>6, <2>7 DEF Owning, Once
<1> QED  BY <1>3, <1>4, <1>5, <1>6, <1>7 DEF Owning

-----------------------------------------------------------------------------
(* The theorems                                                            *)

\* Every step keeps the owners' invariant.
LEMMA NextOwning ==
  ASSUME Owning, [Next]_vars
  PROVE  Owning'
<1>1. ASSUME NEW c \in Conns, Connect(c) PROVE Owning'
  BY <1>1, ConnectOwning
<1>2. ASSUME NEW c \in Conns, NEW ttl \in Ttls, NEW max \in MaximumIdle,
             NEW healthy \in BOOLEAN, ReleaseCloses(c, ttl, max, healthy)
      PROVE  Owning'
  BY <1>2, ReleaseClosesOwning
<1>3. ASSUME NEW c \in Conns, NEW ttl \in Ttls, NEW max \in MaximumIdle,
             ReleaseRetains(c, ttl, max)
      PROVE  Owning'
  BY <1>3, ReleaseRetainsOwning
<1>4. ASSUME NEW k \in Keys, NEW ttl \in Ttls, Pop(k, ttl) PROVE Owning'
  BY <1>4, PopOwning
<1>5. ASSUME NEW p \in popped, NEW healthy \in BOOLEAN, Check(p, healthy) PROVE Owning'
  BY <1>5, CheckOwning
<1>6. CASE NotifyOne \/ Destroy \/ ReaperLoop \/ Tick \/ UNCHANGED vars
  BY <1>6, BystandersOwning
<1>7. CASE Clear
  BY <1>7, ClearOwning
<1>8. CASE ClearCloses
  BY <1>8, ClearClosesOwning
<1>9. CASE ReaperSweeps
  BY <1>9, ReaperSweepsOwning
<1>10. CASE ReaperCloses
  BY <1>10, ReaperClosesOwning
<1> QED
  BY <1>1, <1>2, <1>3, <1>4, <1>5, <1>6, <1>7, <1>8, <1>9, <1>10 DEF Next

\* The pool starts empty.
LEMMA InitOwning ==
  ASSUME Init
  PROVE  Owning
<1>1. TypeOK
  <2>1. idle \in [Keys -> Seq(IdleConnection)]
    BY EmptySeq DEF Init
  <2>2. now \in 0 .. MaxTime /\ notifies \in Nat
        /\ next_expiration \in 0 .. Never /\ wait_until \in 0 .. Never
    BY NeverType DEF Init
  <2> QED  BY <2>1, <2>2 DEF Init, TypeOK
<1>2. \A k \in Keys : idle[k] = << >> /\ DOMAIN idle[k] = {}
  BY DEF Init
<1>3. Listed /\ PoppedOnce /\ KeysListed /\ ExpiredClosing
  BY <1>2 DEF Init, Listed, PoppedOnce, KeysListed, ExpiredClosing
<1>4. ASSUME NEW c \in Conns PROVE Once(c)
  BY <1>2 DEF Init, Once, InIdle, InPopped
<1> QED  BY <1>1, <1>3, <1>4 DEF Owning

\* The owners' invariant holds in every reachable state, for any connections, keys, times
\* to live, limits and bounds.
THEOREM OwningHolds == Spec => []Owning
<1>1. Init => Owning
  BY InitOwning
<1>2. Owning /\ [Next]_vars => Owning'
  BY NextOwning
<1> QED  BY <1>1, <1>2, PTL DEF Spec

\* Every variable of the pool keeps its type.
THEOREM TypeCorrect == Spec => []TypeOK
<1>1. Owning => TypeOK
  BY DEF Owning
<1> QED  BY <1>1, OwningHolds, PTL

\* Being in one place is having one owner.
LEMMA OnceIsOneOwner ==
  ASSUME NEW c, Once(c)
  PROVE  Cardinality(Owners(c)) = 1
<1>1. InIdle(c) <=> \E k \in Keys : c \in Streams(idle[k])
  BY DEF InIdle, Streams
<1> DEFINE Is(o) == CASE o = "busy"     -> c \in busy
                      [] o = "closed"   -> c \in closed
                      [] o = "expired"  -> c \in expired
                      [] o = "draining" -> c \in draining
                      [] o = "popped"   -> InPopped(c)
                      [] o = "idle"     -> InIdle(c)
           Names == {"busy", "closed", "expired", "draining", "popped", "idle"}
<1>2. Owners(c) = {o \in Names : Is(o)}
  BY <1>1 DEF Owners, InPopped
<1>3. \E o \in Names : \A n \in Names : Is(n) <=> n = o
  BY DEF Once
<1>4. PICK o \in Names : Owners(c) = {o}
  <2> HIDE DEF Is, Names
  <2> QED  BY <1>2, <1>3
<1> QED  BY <1>4, FS_Singleton

\* A connection has one owner at every moment, however acquires, releases, clears and the
\* reaper interleave, and acquire always finds a back() under a key the map has.
THEOREM OneOwnerHolds == Spec => []OneOwner
<1>1. Owning => OneOwner
  <2> SUFFICES ASSUME Owning PROVE OneOwner
    OBVIOUS
  <2>1. \A c \in Conns : Cardinality(Owners(c)) = 1
    BY OnceIsOneOwner DEF Owning
  <2> QED  BY <2>1 DEF Owning, Listed, PoppedOnce, KeysListed, OneOwner
<1> QED  BY <1>1, OwningHolds, PTL

-----------------------------------------------------------------------------
(* The reaper's deadline                                                   *)

\* acquire keeps the deadline, or resets it and owes the reaper a notify.
LEMMA PopArmed ==
  ASSUME Owning, Armed, NEW k \in Keys, NEW ttl \in Ttls, Pop(k, ttl)
  PROVE  Armed'
<1>1. Owning'
  BY PopOwning
<1>2. AllIdle' \subseteq AllIdle
  <2> SUFFICES ASSUME NEW y \in AllIdle' PROVE y \in AllIdle
    OBVIOUS
  <2>1. PICK l \in Keys : \E i \in DOMAIN idle'[l] : y = idle'[l][i]
    BY DEF AllIdle, ToSet
  <2>2. PICK i \in DOMAIN idle'[l] : y = idle'[l][i]
    BY <2>1
  <2>3. idle \in [Keys -> Seq(IdleConnection)] /\ idle' = [idle EXCEPT ![k] = PopBack(@)]
    BY DEF Pop, Owning, TypeOK
  <2>4. CASE l # k
    BY <2>2, <2>3, <2>4, ListType DEF Owning
  <2>5. CASE l = k
    <3>1. idle[k] \in Seq(IdleConnection) /\ Len(idle[k]) \in Nat
          /\ DOMAIN idle[k] = 1 .. Len(idle[k])
      BY ListType DEF Owning
    <3>2. Len(idle[k]) # 0
      BY <3>1, EmptySeq DEF Pop, Owning, KeysListed
    <3>3. /\ DOMAIN PopBack(idle[k]) = 1 .. (Len(idle[k]) - 1)
          /\ \A j \in 1 .. (Len(idle[k]) - 1) : PopBack(idle[k])[j] = idle[k][j]
      BY <3>1, <3>2, SubSeqProperties DEF PopBack
    <3>4. i \in DOMAIN idle[k] /\ y = idle[k][i]
      BY <2>2, <2>3, <2>5, <3>1, <3>2, <3>3
    <3> QED  BY <3>4, ListType DEF Owning
  <2> QED  BY <2>4, <2>5
<1>3. /\ UNCHANGED << reaper, wait_until >>
      /\ \/ next_expiration' = Never /\ notifies' = notifies + 1
         \/ next_expiration' = next_expiration /\ notifies' = notifies
  BY DEF Pop, Notify
<1>4. notifies \in Nat
  BY DEF Owning, TypeOK
<1>5. CASE next_expiration' = Never /\ notifies' = notifies + 1
  BY <1>4, <1>5 DEF Armed
<1>6. CASE next_expiration' = next_expiration /\ notifies' = notifies
  BY <1>2, <1>3, <1>6 DEF Armed
<1> QED  BY <1>3, <1>5, <1>6

\* release keeps a deadline that is set, or sets one and owes the reaper a notify.
LEMMA ReleaseRetainsArmed ==
  ASSUME Owning, Armed, NEW c \in Conns, NEW ttl \in Ttls, NEW max \in MaximumIdle,
         ReleaseRetains(c, ttl, max)
  PROVE  Armed'
<1> DEFINE k == KeyOf[c]
           e == now + ttl
           x == [stream |-> c, released_at |-> now, expires_at |-> e]
<1>1. /\ idle' = [idle EXCEPT ![k] = Append(@, x)]
      /\ next_expiration' = IF NewDeadline(e) THEN e ELSE next_expiration
      /\ notifies' = IF NewDeadline(e) THEN notifies + 1 ELSE notifies
      /\ UNCHANGED << reaper, wait_until >>
  BY DEF ReleaseRetains, ExpiresAt, Notify
<1>2. /\ notifies \in Nat /\ e \in 0 .. MaxTime /\ next_expiration \in 0 .. Never
      /\ idle \in [Keys -> Seq(IdleConnection)] /\ k \in Keys
      /\ x.expires_at = e
  BY TtlsType, NeverType, KeyOfType DEF ReleaseRetains, Owning, TypeOK
<1> HIDE DEF k, x, e
<1>3. \A y \in AllIdle' : y \in AllIdle \/ y = x
  <2> SUFFICES ASSUME NEW y \in AllIdle' PROVE y \in AllIdle \/ y = x
    OBVIOUS
  <2>1. PICK l \in Keys : \E i \in DOMAIN idle'[l] : y = idle'[l][i]
    BY DEF AllIdle, ToSet
  <2>2. PICK i \in DOMAIN idle'[l] : y = idle'[l][i]
    BY <2>1
  <2>3. CASE l # k
    BY <1>1, <1>2, <2>2, <2>3, ListType DEF Owning
  <2>4. CASE l = k
    <3>1. idle[k] \in Seq(IdleConnection) /\ Len(idle[k]) \in Nat
          /\ DOMAIN idle[k] = 1 .. Len(idle[k])
      BY <1>2, ListType DEF Owning
    <3>2. /\ idle'[k] = Append(idle[k], x)
          /\ DOMAIN idle'[k] = 1 .. (Len(idle[k]) + 1)
          /\ \A j \in 1 .. Len(idle[k]) : idle'[k][j] = idle[k][j]
          /\ idle'[k][Len(idle[k]) + 1] = x
      BY <1>1, <1>2, <3>1
    <3>3. (i \in DOMAIN idle[k] /\ y = idle[k][i]) \/ y = x
      BY <2>2, <2>4, <3>1, <3>2
    <3> QED  BY <1>2, <3>3, ListType DEF Owning
  <2> QED  BY <2>3, <2>4
<1>4. CASE NewDeadline(e)
  BY <1>1, <1>2, <1>4 DEF Armed
<1>5. CASE ~NewDeadline(e)
  BY <1>1, <1>2, <1>5 DEF NewDeadline, Armed
<1> QED  BY <1>4, <1>5

\* Every step keeps the reaper armed.
LEMMA NextArmed ==
  ASSUME Owning, Armed, [Next]_vars
  PROVE  Armed'
<1>1. ASSUME NEW c \in Conns, NEW ttl \in Ttls, NEW max \in MaximumIdle,
             ReleaseRetains(c, ttl, max)
      PROVE  Armed'
  BY <1>1, ReleaseRetainsArmed
<1>2. ASSUME NEW k \in Keys, NEW ttl \in Ttls, Pop(k, ttl) PROVE Armed'
  BY <1>2, PopArmed
<1>3. notifies \in Nat
  BY DEF Owning, TypeOK
<1>4. idle' = idle => AllIdle' = AllIdle
  BY DEF AllIdle
<1>5. CASE UNCHANGED << idle, next_expiration, notifies, reaper, wait_until >>
  BY <1>4, <1>5 DEF Armed
<1>6. ASSUME NEW c \in Conns, Connect(c) PROVE Armed'
  BY <1>5, <1>6 DEF Connect
<1>7. ASSUME NEW c \in Conns, NEW ttl \in Ttls, NEW max \in MaximumIdle,
             NEW healthy \in BOOLEAN, ReleaseCloses(c, ttl, max, healthy)
      PROVE  Armed'
  BY <1>5, <1>7 DEF ReleaseCloses
<1>8. ASSUME NEW p \in popped, NEW healthy \in BOOLEAN, Check(p, healthy) PROVE Armed'
  BY <1>5, <1>8 DEF Check
<1>9. CASE ClearCloses \/ Tick \/ UNCHANGED vars
  BY <1>5, <1>9 DEF ClearCloses, Tick, vars
<1>10. CASE NotifyOne
  BY <1>3, <1>4, <1>10 DEF NotifyOne, Armed
<1>11. CASE Clear \/ Destroy
  BY <1>3, <1>11 DEF Clear, Destroy, Notify, Armed
<1>12. CASE ReaperLoop
  <2>1. AllIdle = {} <=> Nearest = Never
    BY NearestIsNearest DEF Owning
  <2> QED  BY <1>4, <1>12, <2>1 DEF ReaperLoop, Deadline, Armed
<1>13. CASE ReaperSweeps \/ ReaperCloses
  BY <1>13 DEF ReaperSweeps, ReaperCloses, Armed
<1> QED
  BY <1>1, <1>2, <1>6, <1>7, <1>8, <1>9, <1>10, <1>11, <1>12, <1>13 DEF Next

\* The safety half of IdleEventuallyLeaves: no wake-up is lost.  When nobody is about to
\* notify it, the reaper sleeps without a deadline only while nothing is idle, although
\* every notify_one is made after the unlock and is lost if the reaper is not waiting.
THEOREM ReaperArmed == Spec => []Armed
<1>1. Init => Owning /\ Armed
  BY InitOwning DEF Init, Armed
<1>2. Owning /\ Armed /\ [Next]_vars => Owning' /\ Armed'
  BY NextOwning, NextArmed
<1> QED  BY <1>1, <1>2, PTL DEF Spec

\* The second conjunct of IdleEventuallyLeaves: once the destructor has set stopping_, no
\* list grows again, so the clear() that ends the destructor leaves nothing behind.
THEOREM NoneComesBack ==
  Spec => [][stopping => \A k \in Keys : Len(idle'[k]) <= Len(idle[k])]_vars
<1> DEFINE Shrinks == \A k \in Keys : Len(idle'[k]) <= Len(idle[k])
<1>1. ASSUME Owning, [Next]_vars, stopping PROVE Shrinks
  <2>1. \A k \in Keys : /\ idle[k] \in Seq(IdleConnection) /\ Len(idle[k]) \in Nat
                        /\ DOMAIN idle[k] = 1 .. Len(idle[k])
    BY <1>1, ListType DEF Owning
  <2>2. CASE idle' = idle
    BY <2>1, <2>2
  <2>3. ASSUME NEW k \in Keys, NEW ttl \in Ttls, Pop(k, ttl) PROVE Shrinks
    <3>1. idle' = [idle EXCEPT ![k] = PopBack(@)] /\ idle \in [Keys -> Seq(IdleConnection)]
      BY <1>1, <2>3 DEF Pop, Owning, TypeOK
    <3>2. Len(idle[k]) # 0
      BY <1>1, <2>1, <2>3, EmptySeq DEF Pop, Owning, KeysListed
    <3>3. Len(PopBack(idle[k])) <= Len(idle[k])
      BY <2>1, <3>2, SubSeqProperties DEF PopBack
    <3> QED  BY <2>1, <3>1, <3>3
  <2>4. CASE Clear
    BY <2>1, <2>4, EmptySeq DEF Clear
  <2>5. CASE ReaperSweeps
    <3> SUFFICES ASSUME NEW k \in Keys PROVE Len(idle'[k]) <= Len(idle[k])
      OBVIOUS
    <3>1. Live(idle[k]) \subseteq 1 .. Len(idle[k])
      BY <2>1 DEF Live
    <3>2. Cardinality(Live(idle[k])) \in Nat /\ Cardinality(Live(idle[k])) <= Len(idle[k])
      <4>1. /\ IsFiniteSet(1 .. Len(idle[k]))
            /\ Cardinality(1 .. Len(idle[k])) = Len(idle[k])
        BY <2>1, FS_Interval
      <4> QED  BY <3>1, <4>1, FS_Subset, FS_CardinalityType
    <3>3. idle'[k] = Pick(idle[k], Live(idle[k]))
      BY <2>5 DEF ReaperSweeps
    <3>4. Len(Pick(idle[k], Live(idle[k]))) = Cardinality(Live(idle[k]))
      BY <3>2 DEF Pick
    <3> QED  BY <3>2, <3>3, <3>4
  <2> QED
    BY <1>1, <2>2, <2>3, <2>4, <2>5
    DEF Next, vars, Connect, ReleaseCloses, ReleaseRetains, Retainable, Check, NotifyOne,
        ClearCloses, Destroy, ReaperLoop, ReaperCloses, Tick
<1> QED  BY <1>1, OwningHolds, PTL DEF Spec
=============================================================================
