-------------------------- MODULE LogManagerProofs --------------------------
(***************************************************************************)
(* What holds of the log for every queue capacity, file size and number of *)
(* rotated files.                                                          *)
(*                                                                         *)
(* The counters are exact because an event is in one place: the queue, the *)
(* writer's hands, or handed to a file.  That an eviction takes away       *)
(* exactly one event needs the numbers in the queue to be distinct, and    *)
(* that what it takes is nowhere else needs them to be larger than what is *)
(* written, or lost by a failed close(): hence Ordered and LostOld.        *)
(* DrainedMeansOnDisk looks only at an idle writer; Quiet says at every    *)
(* place of its loop what it has left behind, failed flushes apart, and    *)
(* Woken that a reader waits only for what is not there yet.  FilesInOrder *)
(* asks for some cut of the history into files; CutSound says of one cut   *)
(* how far apart its places are at every file system call of a rotation.   *)
(* What a failed close() takes away is the end of the history and of the   *)
(* current file alike, because only lines of that file are still buffered  *)
(* (Buffered): the cut stays a cut.                                        *)
(***************************************************************************)
EXTENDS LogManager, FiniteSetTheorems, SequenceTheorems, TLAPS

-----------------------------------------------------------------------------
(* The operators the log is built from.                                    *)

\* erase() of one event keeps the others in their order.
LEMMA RemoveAtFacts ==
  ASSUME NEW S, NEW q \in Seq(S), NEW p \in 1 .. Len(q)
  PROVE  /\ RemoveAt(q, p) \in Seq(S)
         /\ Len(RemoveAt(q, p)) = Len(q) - 1
         /\ \A i \in 1 .. (Len(q) - 1) : RemoveAt(q, p)[i] = IF i < p THEN q[i] ELSE q[i + 1]
<1> DEFINE a == SubSeq(q, 1, p - 1)
           b == SubSeq(q, p + 1, Len(q))
<1>0. Len(q) \in Nat /\ p \in Nat
  OBVIOUS
<1>1. /\ a \in Seq(S) /\ Len(a) = p - 1
      /\ \A i \in 1 .. (p - 1) : a[i] = q[i]
  OBVIOUS
<1>2. b \in Seq(S) /\ Len(b) = Len(q) - p
      /\ \A i \in 1 .. (Len(q) - p) : b[i] = q[i + p]
  OBVIOUS
<1>3. RemoveAt(q, p) = a \o b
  BY DEF RemoveAt
<1> HIDE DEF a, b
<1>4. /\ a \o b \in Seq(S) /\ Len(a \o b) = Len(a) + Len(b)
      /\ \A i \in 1 .. (Len(a) + Len(b)) : (a \o b)[i] = IF i <= Len(a) THEN a[i] ELSE b[i - Len(a)]
  BY <1>1, <1>2, ConcatProperties
<1>5. ASSUME NEW i \in 1 .. (Len(q) - 1)
      PROVE  (a \o b)[i] = IF i < p THEN q[i] ELSE q[i + 1]
  <2>1. CASE i < p
    BY <1>0, <1>1, <1>2, <1>4, <2>1
  <2>2. CASE ~(i < p)
    <3>1. (i - (p - 1)) \in 1 .. (Len(q) - p) /\ (i - (p - 1)) + p = i + 1
      BY <1>0, <2>2
    <3>2. b[i - (p - 1)] = q[i + 1]
      BY <1>2, <3>1
    <3>3. (a \o b)[i] = b[i - (p - 1)]
      BY <1>0, <1>1, <1>2, <1>4, <2>2
    <3> QED
      BY <2>2, <3>2, <3>3
  <2> QED
    BY <2>1, <2>2
<1>6. Len(a \o b) = Len(q) - 1
  BY <1>0, <1>1, <1>2, <1>4
<1> QED
  BY <1>3, <1>4, <1>5, <1>6

\* What push_back finds: the queue, or the queue without an access event, with room.
LEMMA RoomFacts ==
  ASSUME TypeOK, NEW k \in Kinds, ~TurnedAway(k), NEW q \in RoomFor(k)
  PROVE  /\ q \in Seq(Event) /\ Len(q) \in Nat /\ Len(q) < QueueCapacity
         /\ ~Evicting(k) => q = queue
         /\ Evicting(k) => /\ Len(q) >= 1
                           /\ k = "error"
                           /\ \E p \in 1 .. Len(queue) :
                                queue[p].kind = "access" /\ q = RemoveAt(queue, p)
<1>0. /\ QueueCapacity \in Nat /\ QueueCapacity >= 2
      /\ queue \in Seq(Event) /\ Len(queue) \in Nat /\ Len(queue) <= QueueCapacity
  BY LogAssumption DEF TypeOK
<1>1. CASE ~Evicting(k)
  <2>1. q = queue
    BY <1>1 DEF RoomFor
  <2>2. ~Full
    BY <1>1 DEF TurnedAway, Evicting, Kinds
  <2> QED
    BY <1>0, <1>1, <2>1, <2>2 DEF Full
<1>2. CASE Evicting(k)
  <2>1. PICK p \in OldestAccess : q = RemoveAt(queue, p)
    BY <1>2 DEF RoomFor
  <2>2. p \in 1 .. Len(queue) /\ queue[p].kind = "access"
    BY <1>0 DEF OldestAccess, Queued
  <2>3. q \in Seq(Event) /\ Len(q) = Len(queue) - 1
    BY <1>0, <2>1, <2>2, RemoveAtFacts
  <2>4. Len(queue) = QueueCapacity /\ k = "error"
    BY <1>0, <1>2 DEF Evicting, Full
  <2> QED
    BY <1>0, <1>2, <2>1, <2>2, <2>3, <2>4
<1> QED
  BY <1>1, <1>2

\* The operations on a file keep its type.
LEMMA FileType ==
  ASSUME NEW f \in File
  PROVE  /\ Flushed(f) \in File
         /\ \A line \in Nat : Written(f, line) \in File
         /\ \A i \in 1 .. (RotatedFileCount + 1) : Moved(f, i) \in File
<1>0. RotatedFileCount \in Nat /\ RotatedFileCount >= 1
  BY LogAssumption
<1>1. Flushed(f) \in File
  BY DEF Flushed, File
<1>b. f.bad \in BOOLEAN
  BY DEF File
<1>2. ASSUME NEW line \in Nat PROVE Written(f, line) \in File
  <2>1. Append(f.current, line) \in Seq(Nat) /\ f.unflushed + 1 \in Nat
    BY DEF File
  <2> QED
    BY <2>1 DEF Written, File
<1>3. ASSUME NEW i \in 1 .. (RotatedFileCount + 1) PROVE Moved(f, i) \in File
  <2>0. f.rotated \in [1 .. RotatedFileCount -> Seq(Nat)] /\ f.current \in Seq(Nat) /\ << >> \in Seq(Nat)
    BY DEF File
  <2>1. CASE i > RotatedFileCount
    <3>1. [f.rotated EXCEPT ![RotatedFileCount] = << >>] \in [1 .. RotatedFileCount -> Seq(Nat)]
      BY <2>0
    <3> QED
      BY <2>1, <3>1 DEF Moved, File
  <2>2. CASE i = 1
    <3>1. [f.rotated EXCEPT ![1] = f.current] \in [1 .. RotatedFileCount -> Seq(Nat)]
      BY <2>0
    <3>2. MoveCurrent(f) \in File
      BY <2>0, <3>1 DEF MoveCurrent, File
    <3> QED
      BY <1>0, <2>2, <3>2 DEF Moved
  <2>3. CASE 1 < i /\ i <= RotatedFileCount
    <3>0. (i - 1) \in 1 .. RotatedFileCount
      BY <1>0, <2>3
    <3>1. [f.rotated EXCEPT ![i] = f.rotated[i - 1], ![i - 1] = << >>]
            \in [1 .. RotatedFileCount -> Seq(Nat)]
      BY <2>0, <3>0
    <3>2. MoveUp(f, i) \in File
      BY <3>1 DEF MoveUp, File
    <3> QED
      BY <1>0, <2>3, <3>2 DEF Moved
  <2> QED
    BY <1>0, <2>1, <2>2, <2>3
<1> QED
  BY <1>1, <1>2, <1>3

\* A piece of a sequence.
LEMMA PieceType ==
  ASSUME NEW s \in Seq(Nat), NEW a \in Int, a >= 1, NEW b \in Int, b <= Len(s)
  PROVE  SubSeq(s, a, b) \in Seq(Nat)
<1>1. CASE b < a
  <2>1. SubSeq(s, a, b) = << >>
    BY <1>1
  <2> QED
    BY <2>1
<1>2. CASE a <= b
  BY <1>2
<1> QED
  BY <1>1, <1>2

\* What a failed close() leaves of a sequence.
LEMMA Shortened ==
  ASSUME NEW s \in Seq(Nat), NEW n \in Nat, n <= Len(s)
  PROVE  /\ WithoutLast(s, n) \in Seq(Nat)
         /\ Len(s) - n \in Nat /\ Len(WithoutLast(s, n)) = Len(s) - n
         /\ \A j \in 1 .. (Len(s) - n) : WithoutLast(s, n)[j] = s[j]
<1> DEFINE m == Len(s) - n
<1>1. Len(s) \in Nat /\ m \in Nat /\ m <= Len(s)
  OBVIOUS
<1>2. WithoutLast(s, n) = SubSeq(s, 1, m)
  BY DEF WithoutLast
<1> HIDE DEF m
<1>3. SubSeq(s, 1, m) \in Seq(Nat)
  BY <1>1, PieceType
<1>4. Len(SubSeq(s, 1, m)) = m
  BY <1>1
<1>5. ASSUME NEW j \in 1 .. m PROVE SubSeq(s, 1, m)[j] = s[j]
  BY <1>1
<1> QED
  BY <1>1, <1>2, <1>3, <1>4, <1>5 DEF m

-----------------------------------------------------------------------------
(* Types.                                                                  *)

\* The initial state has its type.
LEMMA TypeInit == Init => TypeOK
<1> SUFFICES ASSUME Init PROVE TypeOK
  OBVIOUS
<1>0. /\ RotatedFileCount \in Nat /\ MaxEvents \in Nat /\ MaxFailures \in Nat
      /\ QueueCapacity \in Nat /\ OldLines \in Nat
  BY LogAssumption
<1>o. OldFile \in Seq(Nat)
  BY <1>0 DEF OldFile
<1>1. queue \in Seq(Event) /\ Len(queue) <= QueueCapacity
  BY <1>0 DEF Init
<1>2. accepted \in [Kinds -> Nat] /\ dropped \in [Kinds -> Nat] /\ reported \in [Kinds -> Nat]
  BY DEF Init
<1>3. writer \in Writer
  BY <1>0 DEF Init, Writer, Kinds
<1>4. [current |-> OldFile, unflushed |-> 0, bad |-> FALSE,
       rotated |-> [i \in 1 .. RotatedFileCount |-> << >>]] \in File
  BY <1>o DEF File
<1>5. file \in [Kinds -> File] /\ history \in [Kinds -> Seq(Nat)] /\ lost \in [Kinds -> SUBSET Nat]
  BY <1>4, <1>o DEF Init
<1>6. reader \in [Readers -> Reading]
  BY DEF Init, Reading
<1>7. submitted \in 0 .. MaxEvents /\ failures \in 0 .. MaxFailures /\ notices \in Nat
  BY <1>0 DEF Init
<1>8. stopping \in BOOLEAN /\ busy \in BOOLEAN /\ failed \in BOOLEAN /\ thrown \in BOOLEAN
  BY DEF Init
<1> QED
  BY <1>1, <1>2, <1>3, <1>5, <1>6, <1>7, <1>8 DEF TypeOK

-----------------------------------------------------------------------------
(* The inductive invariant.                                                *)

InHands == writer.pc \in {"write", "rotate"}

\* Where the writer is, and what the flags say about it.
Control ==
  /\ busy <=> writer.pc \notin {"top", "waiting", "exited"}
  /\ failed => stopping /\ writer.pc = "exited" /\ queue = << >>
  /\ writer.last => stopping /\ queue = << >>
  /\ writer.pc \in {"top", "waiting", "check"} => ~writer.last
  /\ writer.pc = "exited" => failed \/ writer.last
  /\ InHands /\ writer.last => writer.next = "flush"
  /\ InHands /\ writer.next = "flush" => writer.line = 0
  /\ writer.pc = "rotate" => writer.index \in 1 .. (RotatedFileCount + 1)

\* Nobody waits in flush() for what is already there.
Woken == \A r \in Readers : reader[r] = "waiting" => ~Drained

\* What is in a stream's buffer was written to its file.
Buffered ==
  \A k \in Kinds : file[k].unflushed <= Len(file[k].current)
                  /\ file[k].unflushed <= Len(history[k])

\* Files, hands and queue hold the events in the order of their calls.
Ordered ==
  /\ \A i, j \in DOMAIN queue : i < j => queue[i].id < queue[j].id
  /\ \A i \in DOMAIN queue : queue[i].id <= submitted
  /\ \A k \in Kinds : Increasing(history[k])
  /\ \A k \in Kinds : \A i \in DOMAIN history[k] :
       /\ history[k][i] <= submitted
       /\ \A j \in DOMAIN queue : history[k][i] < queue[j].id
  /\ InHands =>
       /\ writer.line <= submitted
       /\ \A j \in DOMAIN queue : writer.line < queue[j].id
       /\ writer.line # 0 => \A k \in Kinds : \A i \in DOMAIN history[k] :
                               history[k][i] < writer.line

\* What a close() has lost is older than what waits.
LostOld ==
  \A k \in Kinds : \A x \in lost[k] :
    x <= submitted /\ \A j \in DOMAIN queue : x < queue[j].id

\* The drops have been reported, as far as the writer has got.
Summed == \/ writer.pc \in {"top", "waiting", "flush", "release", "exited"}
          \/ InHands /\ writer.next = "flush"

\* With an empty queue, what the writer has left behind is reported, and on disk
\* unless a flush() has failed.
Quiet ==
  ~failed /\ queue = << >> =>
    /\ writer.pc \in {"top", "waiting", "release", "exited"} =>
         \A k \in Kinds : file[k].unflushed = 0 \/ file[k].bad
    /\ Summed /\ ~thrown => reported = dropped

IInv ==
  /\ TypeOK /\ Control /\ Woken /\ Buffered /\ Ordered /\ LostOld /\ Quiet
  /\ AccountingExact

\* The events of a kind are finitely many numbers of calls.
LEMMA KeptFinite ==
  ASSUME TypeOK, Ordered, LostOld, NEW k \in Kinds
  PROVE  /\ Kept(k) \subseteq 1 .. submitted
         /\ IsFiniteSet(Kept(k)) /\ Cardinality(Kept(k)) \in Nat
<1>0. /\ submitted \in Nat /\ queue \in Seq(Event) /\ history[k] \in Seq(Nat)
      /\ writer \in Writer /\ lost[k] \subseteq Nat
  BY LogAssumption DEF TypeOK
<1>1. Range(history[k]) \ {0} \subseteq 1 .. submitted
  <2> SUFFICES ASSUME NEW i \in DOMAIN history[k], history[k][i] # 0
               PROVE  history[k][i] \in 1 .. submitted
    BY DEF Range
  <2>1. history[k][i] \in Nat /\ history[k][i] <= submitted
    BY <1>0 DEF Ordered
  <2> QED
    BY <1>0, <2>1
<1>2. Ids(queue, k) \subseteq 1 .. submitted
  <2> SUFFICES ASSUME NEW i \in DOMAIN queue PROVE queue[i].id \in 1 .. submitted
    BY DEF Ids
  <2>0. queue[i] \in Event /\ MaxEvents \in Nat
    BY <1>0, LogAssumption
  <2>1. queue[i].id \in Nat /\ queue[i].id >= 1 /\ queue[i].id <= submitted
    BY <2>0 DEF Ordered, Event
  <2> QED
    BY <1>0, <2>1
<1>3. InHand(k) \subseteq 1 .. submitted
  <2>1. writer.line \in Nat
    BY <1>0 DEF Writer
  <2> QED
    BY <1>0, <2>1 DEF InHand, Ordered, InHands
<1>l. lost[k] \ {0} \subseteq 1 .. submitted
  BY <1>0 DEF LostOld
<1>4. Kept(k) \subseteq 1 .. submitted
  BY <1>1, <1>2, <1>3, <1>l DEF Kept, Handed
<1>i. 1 \in Int /\ submitted \in Int
  BY <1>0
<1>5. IsFiniteSet(1 .. submitted)
  BY ONLY <1>i, FS_Interval
<1>6. IsFiniteSet(Kept(k))
  BY <1>4, <1>5, FS_Subset
<1> QED
  BY <1>4, <1>6, FS_CardinalityType

\* An evicted event was accepted: the counter does not pass below zero.
LEMMA EvictedCounted ==
  ASSUME IInv, NEW k \in Kinds, ~TurnedAway(k), Evicting(k)
  PROVE  accepted["access"] \in Nat /\ accepted["access"] >= 1
<1>1. ~failed
  BY DEF IInv, Control, TurnedAway
<1>2. accepted["access"] = Cardinality(Kept("access")) /\ "access" \in Kinds
  BY <1>1 DEF IInv, AccountingExact, Kinds
<1>3. Queued("access") # {}
  BY DEF TurnedAway, Evicting
<1>4. Kept("access") # {}
  BY <1>3 DEF Kept, Ids, Queued
<1>5. IsFiniteSet(Kept("access")) /\ Cardinality(Kept("access")) \in Nat
  BY <1>2, KeptFinite DEF IInv
<1>6. Cardinality(Kept("access")) # 0
  BY <1>4, <1>5, FS_EmptySet
<1> QED
  BY <1>2, <1>5, <1>6

\* Every step keeps the types.
LEMMA TypeStep == IInv /\ [Next]_vars => TypeOK'
<1> SUFFICES ASSUME IInv, [Next]_vars PROVE TypeOK'
  OBVIOUS
<1>0. /\ RotatedFileCount \in Nat /\ RotatedFileCount >= 1 /\ MaxEvents \in Nat
      /\ MaxFailures \in Nat /\ QueueCapacity \in Nat /\ QueueCapacity >= 2
  BY LogAssumption
<1>a. TypeOK
  BY DEF IInv
<1>b. /\ queue \in Seq(Event) /\ Len(queue) \in Nat /\ Len(queue) <= QueueCapacity
      /\ accepted \in [Kinds -> Nat] /\ dropped \in [Kinds -> Nat]
      /\ reported \in [Kinds -> Nat]
      /\ submitted \in 0 .. MaxEvents /\ writer \in Writer
      /\ file \in [Kinds -> File] /\ history \in [Kinds -> Seq(Nat)]
      /\ lost \in [Kinds -> SUBSET Nat]
      /\ notices \in Nat /\ reader \in [Readers -> Reading]
      /\ failures \in 0 .. MaxFailures /\ stopping \in BOOLEAN /\ busy \in BOOLEAN
      /\ failed \in BOOLEAN /\ thrown \in BOOLEAN
  BY <1>a DEF TypeOK
<1>c. \A c \in [Kinds -> Nat], k \in Kinds : Bump(c, k) \in [Kinds -> Nat]
  BY DEF Bump
<1>1. ASSUME NEW k \in Kinds, Enqueue(k)
      PROVE  TypeOK'
  <2>0. /\ submitted' = submitted + 1 /\ submitted < MaxEvents
        /\ UNCHANGED << reported, stopping, busy, writer, file, history, lost, reader, failed >>
    BY <1>1 DEF Enqueue
  <2>s. submitted' \in 1 .. MaxEvents
    BY <1>0, <1>b, <2>0
  <2>1. CASE Drop(k)
    <3>1. dropped' \in [Kinds -> Nat]
      BY <1>b, <1>c, <2>1 DEF Drop
    <3>2. UNCHANGED << queue, accepted, notices, failures, thrown >>
      BY <2>1 DEF Drop
    <3> QED
      BY <1>b, <2>0, <2>s, <3>1, <3>2 DEF TypeOK
  <2> DEFINE lessOne == [accepted EXCEPT !["access"] = @ - 1]
  <2>2. ~TurnedAway(k) /\ Evicting(k) => lessOne \in [Kinds -> Nat]
    <3> SUFFICES ASSUME ~TurnedAway(k), Evicting(k) PROVE lessOne \in [Kinds -> Nat]
      OBVIOUS
    <3>1. accepted["access"] \in Nat /\ accepted["access"] >= 1
      BY EvictedCounted
    <3>2. accepted["access"] - 1 \in Nat
      BY <3>1
    <3> QED
      BY <1>b, <3>2
  <2> HIDE DEF lessOne
  <2>3. CASE Accept(k)
    <3>0. ~TurnedAway(k)
      BY <2>3 DEF Accept
    <3>1. PICK q \in RoomFor(k) : queue' = Append(q, [kind |-> k, id |-> submitted'])
      BY <2>3 DEF Accept
    <3>2. q \in Seq(Event) /\ Len(q) \in Nat /\ Len(q) < QueueCapacity
      BY <1>a, <3>0, RoomFacts
    <3>3. [kind |-> k, id |-> submitted'] \in Event
      BY <2>s DEF Event
    <3>4. queue' \in Seq(Event) /\ Len(queue') <= QueueCapacity
      BY <1>0, <3>1, <3>2, <3>3
    <3>5. dropped' \in [Kinds -> Nat]
      BY <1>b, <1>c, <2>3 DEF Accept, Kinds
    <3>6. accepted' = Bump(IF Evicting(k) THEN lessOne ELSE accepted, k)
      BY <2>3 DEF Accept, lessOne
    <3>7. accepted' \in [Kinds -> Nat]
      BY <1>b, <1>c, <2>2, <3>0, <3>6
    <3>8. notices' = notices + 1 /\ UNCHANGED << failures, thrown >>
      BY <2>3 DEF Accept
    <3> QED
      BY <1>b, <2>0, <2>s, <3>4, <3>5, <3>7, <3>8 DEF TypeOK
  <2>4. CASE AllocationFails(k)
    <3>0. ~TurnedAway(k) /\ queue' \in RoomFor(k)
      BY <2>4 DEF AllocationFails
    <3>1. queue' \in Seq(Event) /\ Len(queue') <= QueueCapacity
      BY <1>0, <1>a, <3>0, RoomFacts
    <3>2. dropped' \in [Kinds -> Nat]
      BY <1>b, <1>c, <2>4 DEF AllocationFails, Kinds
    <3>3. accepted' \in [Kinds -> Nat]
      BY <1>b, <2>2, <2>4, <3>0 DEF AllocationFails, lessOne
    <3>4. failures' \in 0 .. MaxFailures /\ thrown' \in BOOLEAN /\ UNCHANGED notices
      BY <1>0, <1>b, <2>4 DEF AllocationFails
    <3> QED
      BY <1>b, <2>0, <2>s, <3>1, <3>2, <3>3, <3>4 DEF TypeOK
  <2> QED
    BY <1>1, <2>1, <2>3, <2>4 DEF Enqueue
<1>r. NotifyDrained => reader' \in [Readers -> Reading]
  BY <1>b DEF NotifyDrained, Reading
<1>2. CASE NotifyReady
  <2>1. writer' \in Writer
    BY <1>2, <1>b DEF NotifyReady, Writer
  <2>2. notices' \in Nat
    BY <1>2, <1>b DEF NotifyReady
  <2> QED
    BY <1>2, <1>b, <2>1, <2>2 DEF NotifyReady, TypeOK
<1>3. CASE WriterTop
  <2>1. CASE queue = << >>
    <3>1. writer' \in Writer /\ busy' \in BOOLEAN /\ queue' = queue
      BY <1>3, <1>b, <2>1 DEF WriterTop, Writer
    <3> QED
      BY <1>3, <1>b, <3>1 DEF WriterTop, UnchangedCounters, TypeOK
  <2>2. CASE queue # << >>
    <3>0. /\ Head(queue) \in Event /\ Tail(queue) \in Seq(Event)
          /\ Len(Tail(queue)) = Len(queue) - 1
      BY <1>b, <2>2
    <3>1. queue' = Tail(queue) /\ busy' = TRUE
          /\ writer' = [writer EXCEPT !.pc = "write", !.kind = Head(queue).kind,
                                      !.line = Head(queue).id, !.next = "check"]
      BY <1>3, <2>2 DEF WriterTop
    <3>2. Head(queue).kind \in Kinds /\ Head(queue).id \in Nat
      BY <1>0, <3>0 DEF Event
    <3>3. writer' \in Writer
      BY <1>b, <3>1, <3>2 DEF Writer
    <3>4. Len(queue') <= QueueCapacity
      BY <1>0, <1>b, <3>0, <3>1
    <3> QED
      BY <1>3, <1>b, <3>0, <3>1, <3>3, <3>4 DEF WriterTop, UnchangedCounters, TypeOK
  <2> QED
    BY <2>1, <2>2
<1>4. CASE WriteLine
  <2>0. /\ writer.kind \in Kinds /\ writer.line \in Nat /\ file[writer.kind] \in File
        /\ history[writer.kind] \in Seq(Nat)
    BY <1>b DEF Writer
  <2>1. /\ writer' = [writer EXCEPT !.pc = writer.next]
        /\ file' = [file EXCEPT ![writer.kind] = Written(@, writer.line)]
        /\ history' = [history EXCEPT ![writer.kind] = Append(@, writer.line)]
    BY <1>4 DEF WriteLine
  <2>2. writer' \in Writer
    BY <1>b, <2>1 DEF Writer
  <2>3. file' \in [Kinds -> File]
    BY <1>b, <2>0, <2>1, FileType
  <2>4. Append(history[writer.kind], writer.line) \in Seq(Nat)
    BY <2>0
  <2>5. history' \in [Kinds -> Seq(Nat)]
    BY <1>b, <2>1, <2>4
  <2> QED
    BY <1>4, <1>b, <2>2, <2>3, <2>5 DEF WriteLine, UnchangedCounters, TypeOK
<1>16. CASE CloseStream
  <2> DEFINE k == writer.kind
  <2>0. /\ k \in Kinds /\ file[k] \in File /\ history[k] \in Seq(Nat)
        /\ file[k].current \in Seq(Nat) /\ file[k].unflushed \in Nat
    BY <1>b DEF Writer, File
  <2>1. PICK n \in 0 .. file[k].unflushed :
          /\ n = 0 \/ file[k].bad \/ failures < MaxFailures
          /\ failures' = IF n = 0 \/ file[k].bad THEN failures ELSE failures + 1
          /\ file' = [file EXCEPT ![k].current = WithoutLast(@, n), ![k].unflushed = 0]
          /\ history' = [history EXCEPT ![k] = WithoutLast(@, n)]
          /\ lost' = [lost EXCEPT ![k] = @ \cup LastOf(history[k], n)]
    BY <1>16 DEF CloseStream
  <2>2. n \in Nat /\ n <= Len(file[k].current) /\ n <= Len(history[k])
    BY <2>0 DEF IInv, Buffered
  <2>3. WithoutLast(file[k].current, n) \in Seq(Nat) /\ WithoutLast(history[k], n) \in Seq(Nat)
    BY <2>0, <2>2, Shortened
  <2>4. [file[k] EXCEPT !.current = WithoutLast(@, n), !.unflushed = 0] \in File
    BY <2>0, <2>3 DEF File
  <2>5. file' = [file EXCEPT ![k] = [file[k] EXCEPT !.current = WithoutLast(@, n), !.unflushed = 0]]
    BY <1>b, <2>0, <2>1
  <2>6. LastOf(history[k], n) \subseteq Nat
    <3>1. Len(history[k]) \in Nat
      BY <2>0
    <3>2. \A i \in (Len(history[k]) - n + 1) .. Len(history[k]) : i \in 1 .. Len(history[k])
      BY <2>2, <3>1
    <3> QED
      BY <2>0, <3>2 DEF LastOf
  <2>7. file' \in [Kinds -> File]
    BY <1>b, <2>0, <2>4, <2>5
  <2>8. history' \in [Kinds -> Seq(Nat)]
    BY <1>b, <2>0, <2>1, <2>3
  <2>9. lost' \in [Kinds -> SUBSET Nat]
    BY <1>b, <2>0, <2>1, <2>6
  <2>10. failures' \in 0 .. MaxFailures
    BY <1>0, <1>b, <2>1
  <2>11. writer' \in Writer
    <3>1. RotatedFileCount + 1 \in 0 .. (RotatedFileCount + 1)
      BY <1>0
    <3>2. writer' = [writer EXCEPT !.pc = "rotate", !.index = RotatedFileCount + 1]
      BY <1>16 DEF CloseStream
    <3> QED
      BY <1>b, <3>1, <3>2 DEF Writer
  <2>12. UNCHANGED << queue, accepted, dropped, reported, submitted, stopping, busy, notices,
                      reader, failed, thrown >>
    BY <1>16 DEF CloseStream
  <2> HIDE DEF k
  <2> QED
    BY <1>b, <2>7, <2>8, <2>9, <2>10, <2>11, <2>12 DEF TypeOK
<1>17. ASSUME NEW k \in Kinds, FlushFails(k) PROVE TypeOK'
  <2>1. file' = [file EXCEPT ![k] = [file[k] EXCEPT !.bad = TRUE]]
    BY <1>17, <1>b DEF FlushFails
  <2>2. [file[k] EXCEPT !.bad = TRUE] \in File
    BY <1>b DEF File
  <2>3. file' \in [Kinds -> File]
    BY <1>b, <2>1, <2>2
  <2>4. failures' \in 0 .. MaxFailures
    BY <1>0, <1>17, <1>b DEF FlushFails
  <2> QED
    BY <1>17, <1>b, <2>3, <2>4 DEF FlushFails, TypeOK
<1>5. CASE Rotate
  <2>0. writer.kind \in Kinds /\ file[writer.kind] \in File
        /\ writer.index \in 1 .. (RotatedFileCount + 1)
    BY <1>5, <1>b DEF Rotate, Writer, IInv, Control
  <2>1. Moved(file[writer.kind], writer.index) \in File
    BY <2>0, FileType
  <2>2. file' \in [Kinds -> File]
    BY <1>5, <1>b, <2>0, <2>1 DEF Rotate
  <2>3. writer' \in Writer
    <3>1. writer.index # 1 => writer.index - 1 \in 0 .. (RotatedFileCount + 1)
      BY <1>0, <2>0
    <3> QED
      BY <1>5, <1>b, <3>1 DEF Rotate, Writer
  <2> QED
    BY <1>5, <1>b, <2>2, <2>3 DEF Rotate, UnchangedCounters, TypeOK
<1>6. CASE CheckEmpty
  <2>1. writer' \in Writer
    BY <1>6, <1>b DEF CheckEmpty, Writer
  <2> QED
    BY <1>6, <1>b, <2>1 DEF CheckEmpty, UnchangedCounters, TypeOK
<1>7. CASE WriteDropSummary
  <2>1. writer' \in Writer
    BY <1>7, <1>b DEF WriteDropSummary, Writer, Kinds
  <2> QED
    BY <1>7, <1>b, <2>1 DEF WriteDropSummary, UnchangedCounters, TypeOK
<1>8. CASE FlushStreams
  <2>1. writer' \in Writer
    BY <1>8, <1>b DEF FlushStreams, Writer
  <2>2. file' \in [Kinds -> File]
    BY <1>8, <1>b, FileType DEF FlushStreams
  <2> QED
    BY <1>8, <1>b, <2>1, <2>2 DEF FlushStreams, UnchangedCounters, TypeOK
<1>9. CASE ReleaseWriter
  <2>1. writer' \in Writer
    BY <1>9, <1>b DEF ReleaseWriter, Writer
  <2>2. reader' \in [Readers -> Reading]
    BY <1>9, <1>b, <1>r DEF ReleaseWriter
  <2> QED
    BY <1>9, <1>b, <2>1, <2>2 DEF ReleaseWriter, UnchangedCounters, TypeOK
<1>10. CASE WriterFails \/ WriteToBadStream
  <2>1. writer' \in Writer
    BY <1>10, <1>b DEF WriterFails, WriteToBadStream, Dies, Writer
  <2>2. reader' \in [Readers -> Reading]
    BY <1>10, <1>r DEF WriterFails, WriteToBadStream, Dies
  <2>3. failures' \in 0 .. MaxFailures
    BY <1>0, <1>10, <1>b DEF WriterFails, WriteToBadStream
  <2>e. queue' = << >>
    BY <1>10 DEF WriterFails, WriteToBadStream, Dies
  <2>4. queue' \in Seq(Event) /\ Len(queue') <= QueueCapacity
    BY <1>0, <2>e
  <2> QED
    BY <1>10, <1>b, <2>1, <2>2, <2>3, <2>4 DEF WriterFails, WriteToBadStream, Dies, TypeOK
<1>11. CASE Destroy
  <2>1. writer' \in Writer
    BY <1>11, <1>b DEF Destroy, Writer
  <2> QED
    BY <1>11, <1>b, <2>1 DEF Destroy, UnchangedCounters, TypeOK
<1>12. ASSUME UnchangedForReaders, reader' \in [Readers -> Reading] PROVE TypeOK'
  BY <1>12, <1>b DEF UnchangedForReaders, TypeOK
<1>13. ASSUME NEW r \in Readers, Flush(r) \/ CallFlush(r)
       PROVE  TypeOK'
  <2>1. reader' \in [Readers -> Reading]
    BY <1>13, <1>b DEF Flush, CallFlush, Reading
  <2> QED
    BY <1>12, <1>13, <2>1 DEF Flush, CallFlush
<1>15. CASE UNCHANGED vars
  BY <1>15, <1>b DEF vars, TypeOK
<1> QED
  BY <1>1, <1>2, <1>3, <1>4, <1>5, <1>6, <1>7, <1>8, <1>9, <1>10, <1>11, <1>13, <1>15, <1>16, <1>17
     DEF Next, WriterStep

\* Every step keeps the flags in agreement with the writer's place.
LEMMA ControlStep == IInv /\ [Next]_vars => Control'
<1> SUFFICES ASSUME IInv, [Next]_vars PROVE Control'
  OBVIOUS
<1>0. RotatedFileCount \in Nat /\ RotatedFileCount >= 1
  BY LogAssumption
<1>a. TypeOK /\ Control
  BY DEF IInv
<1>b. /\ writer \in Writer
      /\ stopping \in BOOLEAN /\ busy \in BOOLEAN /\ failed \in BOOLEAN
  BY <1>a DEF TypeOK
<1>1. ASSUME NEW k \in Kinds, Enqueue(k)
      PROVE  Control'
  <2>1. UNCHANGED << stopping, busy, writer, failed >>
    BY <1>1 DEF Enqueue
  <2>2. stopping => queue' = queue
    BY <1>1 DEF Enqueue, Drop, Accept, AllocationFails, TurnedAway
  <2> QED
    BY <1>a, <2>1, <2>2 DEF Control, InHands
<1>2. CASE NotifyReady
  BY <1>2, <1>a, <1>b DEF NotifyReady, Control, InHands, Writer
<1>3. CASE WriterTop
  <2>0. ~failed /\ ~writer.last /\ UNCHANGED << stopping, failed >>
    BY <1>3, <1>a DEF WriterTop, Control, UnchangedCounters
  <2>1. CASE queue = << >> /\ ~stopping
    <3>1. writer' = [writer EXCEPT !.pc = "waiting"] /\ UNCHANGED << queue, busy >>
      BY <1>3, <2>1 DEF WriterTop
    <3> QED
      BY <1>3, <1>a, <1>b, <2>0, <3>1 DEF Control, InHands, Writer, WriterTop
  <2>2. CASE queue = << >> /\ stopping
    <3>1. writer' = [writer EXCEPT !.pc = "summary", !.last = TRUE] /\ busy' = TRUE
          /\ queue' = queue
      BY <1>3, <2>2 DEF WriterTop
    <3> QED
      BY <1>a, <1>b, <2>0, <2>2, <3>1 DEF Control, InHands, Writer
  <2>3. CASE queue # << >>
    <3>1. writer' = [writer EXCEPT !.pc = "write", !.kind = Head(queue).kind,
                                   !.line = Head(queue).id, !.next = "check"]
          /\ busy' = TRUE
      BY <1>3, <2>3 DEF WriterTop
    <3>2. writer'.pc = "write" /\ writer'.next = "check" /\ ~writer'.last
      BY <1>b, <2>0, <3>1 DEF Writer
    <3> QED
      BY <1>a, <2>0, <3>1, <3>2 DEF Control, InHands
  <2> QED
    BY <2>1, <2>2, <2>3
<1>4. CASE WriteLine
  <2>0. ~failed /\ UNCHANGED << stopping, failed, queue, busy >> /\ writer.pc = "write"
    BY <1>4, <1>a DEF WriteLine, Control, UnchangedCounters
  <2>1. writer' = [writer EXCEPT !.pc = writer.next]
    BY <1>4 DEF WriteLine
  <2>2. writer'.pc = writer.next /\ writer'.last = writer.last /\ writer.next \in {"check", "flush"}
    BY <1>b, <2>1 DEF Writer
  <2> QED
    BY <1>a, <2>0, <2>2 DEF Control, InHands
<1>16. CASE CloseStream
  <2>0. ~failed /\ UNCHANGED << stopping, failed, queue, busy >> /\ writer.pc = "write"
    BY <1>16, <1>a DEF CloseStream, Control
  <2>1. writer' = [writer EXCEPT !.pc = "rotate", !.index = RotatedFileCount + 1]
    BY <1>16 DEF CloseStream
  <2>2. /\ writer'.pc = "rotate" /\ writer'.index = RotatedFileCount + 1
        /\ writer'.next = writer.next /\ writer'.last = writer.last /\ writer'.line = writer.line
    BY <1>b, <2>1 DEF Writer
  <2>3. RotatedFileCount + 1 \in 1 .. (RotatedFileCount + 1)
    BY <1>0
  <2> QED
    BY <1>a, <2>0, <2>2, <2>3 DEF Control, InHands
<1>5. CASE Rotate
  <2>0. ~failed /\ UNCHANGED << stopping, failed, queue, busy >> /\ writer.pc = "rotate"
        /\ writer.index \in 1 .. (RotatedFileCount + 1)
    BY <1>5, <1>a DEF Rotate, Control, UnchangedCounters
  <2>1. /\ writer'.next = writer.next /\ writer'.last = writer.last /\ writer'.line = writer.line
        /\ \/ writer'.pc = "write"
           \/ writer.index # 1 /\ writer'.pc = "rotate" /\ writer'.index = writer.index - 1
    BY <1>5, <1>b DEF Rotate, Writer
  <2>2. writer.index # 1 => writer.index - 1 \in 1 .. (RotatedFileCount + 1)
    BY <1>0, <2>0
  <2> QED
    BY <1>a, <2>0, <2>1, <2>2 DEF Control, InHands
<1>6. ASSUME UNCHANGED << stopping, failed, queue, busy >>,
             writer.pc \in {"check", "summary", "flush"}, writer'.last = writer.last,
             \/ writer'.pc \in {"flush", "release", "summary"}
             \/ writer'.pc = "write" /\ writer'.next = "flush" /\ writer'.line = 0
      PROVE  Control'
  BY <1>6, <1>a DEF Control, InHands
<1>7. CASE CheckEmpty
  <2>1. writer'.last = writer.last /\ writer'.pc \in {"release", "summary"}
    BY <1>7, <1>b DEF CheckEmpty, Writer
  <2> QED
    BY <1>6, <1>7, <2>1 DEF CheckEmpty, UnchangedCounters
<1>8. CASE WriteDropSummary
  <2>1. /\ writer'.last = writer.last
        /\ \/ writer'.pc = "flush"
           \/ writer'.pc = "write" /\ writer'.next = "flush" /\ writer'.line = 0
    BY <1>8, <1>b DEF WriteDropSummary, Writer
  <2> QED
    BY <1>6, <1>8, <2>1 DEF WriteDropSummary, UnchangedCounters
<1>9. CASE FlushStreams
  <2>1. writer'.last = writer.last /\ writer'.pc = "release"
    BY <1>9, <1>b DEF FlushStreams, Writer
  <2> QED
    BY <1>6, <1>9, <2>1 DEF FlushStreams, UnchangedCounters
<1>10. CASE ReleaseWriter
  <2>1. /\ writer'.last = writer.last
        /\ writer'.pc = IF writer.last THEN "exited" ELSE "top"
    BY <1>10, <1>b DEF ReleaseWriter, Writer
  <2>2. ~failed /\ UNCHANGED << queue, stopping, failed >> /\ busy' = FALSE
    BY <1>10, <1>a DEF ReleaseWriter, Control, UnchangedCounters
  <2> QED
    BY <1>a, <2>1, <2>2 DEF Control, InHands
<1>11. CASE WriterFails \/ WriteToBadStream
  <2>1. writer'.pc = "exited"
    BY <1>11, <1>b DEF WriterFails, WriteToBadStream, Dies, Writer
  <2>2. failed' = TRUE /\ busy' = FALSE /\ stopping' = TRUE /\ queue' = << >>
    BY <1>11 DEF WriterFails, WriteToBadStream, Dies
  <2> QED
    BY <2>1, <2>2 DEF Control, InHands
<1>12. CASE Destroy
  <2>1. ~writer.last /\ ~failed /\ stopping' = TRUE /\ UNCHANGED << queue, busy, failed >>
    BY <1>12, <1>a DEF Destroy, Control, UnchangedCounters
  <2>2. /\ writer'.last = writer.last /\ writer'.index = writer.index
        /\ writer'.next = writer.next /\ writer'.line = writer.line
        /\ writer'.pc = IF writer.pc = "waiting" THEN "top" ELSE writer.pc
    BY <1>12, <1>b DEF Destroy, Writer
  <2> QED
    BY <1>a, <2>1, <2>2 DEF Control, InHands
<1>13. CASE UnchangedForReaders
  BY <1>13, <1>a DEF Control, InHands, UnchangedForReaders
<1>14. ASSUME NEW k \in Kinds, FlushFails(k) PROVE Control'
  BY <1>14, <1>a DEF FlushFails, Control, InHands
<1>15. CASE UNCHANGED vars
  BY <1>15, <1>a DEF vars, Control, InHands
<1> QED
  BY <1>1, <1>2, <1>3, <1>4, <1>5, <1>7, <1>8, <1>9, <1>10, <1>11, <1>12, <1>13, <1>14, <1>15, <1>16
     DEF Next, WriterStep, Flush, CallFlush

\* Every step that drains the queue wakes those who wait.
LEMMA WokenStep == IInv /\ [Next]_vars => Woken'
<1> SUFFICES ASSUME IInv, [Next]_vars PROVE Woken'
  OBVIOUS
<1>a. TypeOK /\ Control /\ Woken
  BY DEF IInv
<1>b. queue \in Seq(Event) /\ busy \in BOOLEAN /\ reader \in [Readers -> Reading]
  BY <1>a DEF TypeOK
<1>1. ASSUME UNCHANGED reader, Drained' => Drained PROVE Woken'
  BY <1>1, <1>a DEF Woken
<1>2. ASSUME NotifyDrained PROVE Woken'
  BY <1>2 DEF Woken, NotifyDrained
\* An eviction leaves an event behind.
<1>3. ASSUME NEW k \in Kinds, Enqueue(k) PROVE Woken'
  <2>0. UNCHANGED << busy, reader >>
    BY <1>3 DEF Enqueue
  <2>1. CASE Drop(k)
    BY <1>1, <2>0, <2>1 DEF Drop, Drained
  <2>2. CASE Accept(k)
    <3>1. ~TurnedAway(k)
      BY <2>2 DEF Accept
    <3>2. PICK q \in RoomFor(k) : queue' = Append(q, [kind |-> k, id |-> submitted'])
      BY <2>2 DEF Accept
    <3>3. q \in Seq(Event)
      BY <1>a, <3>1, RoomFacts
    <3> DEFINE e == [kind |-> k, id |-> submitted']
    <3>4. queue' = Append(q, e)
      BY <3>2
    <3> HIDE DEF e
    <3>5. queue' # << >>
      BY <3>3, <3>4
    <3> QED
      BY <1>1, <2>0, <3>5 DEF Drained
  <2>3. CASE AllocationFails(k)
    <3>1. ~TurnedAway(k) /\ queue' \in RoomFor(k)
      BY <2>3 DEF AllocationFails
    <3>2. queue' = queue \/ (queue' \in Seq(Event) /\ Len(queue') >= 1)
      BY <1>a, <3>1, RoomFacts
    <3>3. queue' = << >> => queue = << >>
      BY <3>2
    <3> QED
      BY <1>1, <2>0, <3>3 DEF Drained
  <2> QED
    BY <1>3, <2>1, <2>2, <2>3 DEF Enqueue
<1>4. CASE WriterTop
  <2>1. UNCHANGED reader /\ (busy' = TRUE \/ UNCHANGED << queue, busy >>)
    BY <1>4 DEF WriterTop
  <2> QED
    BY <1>1, <2>1 DEF Drained
<1>5. CASE ReleaseWriter
  <2>1. NotifyDrained \/ (UNCHANGED << reader, queue >> /\ queue # << >>)
    BY <1>5 DEF ReleaseWriter
  <2> QED
    BY <1>1, <1>2, <2>1 DEF Drained
<1>6. CASE WriterFails \/ WriteToBadStream
  BY <1>2, <1>6 DEF WriterFails, WriteToBadStream, Dies
<1>7. CASE NotifyReady \/ WriteLine \/ CloseStream \/ Rotate \/ CheckEmpty \/ WriteDropSummary
           \/ FlushStreams \/ Destroy \/ (\E k \in Kinds : FlushFails(k))
  <2>1. UNCHANGED << reader, queue, busy >>
    BY <1>7 DEF NotifyReady, WriteLine, CloseStream, Rotate, CheckEmpty, WriteDropSummary,
                FlushStreams, Destroy, FlushFails
  <2> QED
    BY <1>1, <2>1 DEF Drained
<1>8. ASSUME NEW r \in Readers, Flush(r) \/ CallFlush(r) PROVE Woken'
  <2>1. UNCHANGED << queue, busy >>
    BY <1>8 DEF Flush, CallFlush, UnchangedForReaders
  <2>2. \A t \in Readers : reader'[t] = "waiting" => reader[t] = "waiting" \/ ~Drained
    BY <1>8, <1>b DEF Flush, CallFlush
  <2> QED
    BY <1>a, <2>1, <2>2 DEF Woken, Drained
<1>9. CASE UNCHANGED vars
  BY <1>1, <1>9 DEF vars, Drained
<1> QED
  BY <1>3, <1>4, <1>5, <1>6, <1>7, <1>8, <1>9 DEF Next, WriterStep

\* Every step keeps what is buffered within what is written.
LEMMA BufferedStep == IInv /\ [Next]_vars => Buffered'
<1> SUFFICES ASSUME IInv, [Next]_vars, NEW k \in Kinds
             PROVE  file'[k].unflushed <= Len(file'[k].current)
                    /\ file'[k].unflushed <= Len(history'[k])
  BY DEF Buffered
<1> DEFINE Goal == file'[k].unflushed <= Len(file'[k].current)
                   /\ file'[k].unflushed <= Len(history'[k])
<1>a. /\ file \in [Kinds -> File] /\ history \in [Kinds -> Seq(Nat)] /\ writer \in Writer
      /\ writer.kind \in Kinds /\ writer.line \in Nat
  BY DEF IInv, TypeOK, Writer
<1>b. /\ file[k].unflushed \in Nat /\ file[k].current \in Seq(Nat) /\ history[k] \in Seq(Nat)
      /\ Len(file[k].current) \in Nat /\ Len(history[k]) \in Nat /\ file[k] \in File
  BY <1>a DEF File
<1>c. file[k].unflushed <= Len(file[k].current) /\ file[k].unflushed <= Len(history[k])
  BY DEF IInv, Buffered
<1>1. ASSUME file'[k].unflushed \in {0, file[k].unflushed}, file'[k].current = file[k].current,
             history'[k] = history[k]
      PROVE  Goal
  BY <1>1, <1>b, <1>c
<1>2. CASE UNCHANGED << file, history >>
  BY <1>1, <1>2
<1>3. CASE WriteLine
  <2>1. CASE k = writer.kind
    <3>1. file'[k] = Written(file[k], writer.line) /\ history'[k] = Append(history[k], writer.line)
      BY <1>3, <1>a, <2>1 DEF WriteLine
    <3>2. /\ file'[k].current = Append(file[k].current, writer.line)
          /\ file'[k].unflushed = file[k].unflushed + 1
      BY <1>b, <3>1 DEF Written, File
    <3>3. Len(file'[k].current) = Len(file[k].current) + 1 /\ Len(history'[k]) = Len(history[k]) + 1
      BY <1>a, <1>b, <3>1, <3>2
    <3> QED
      BY <1>b, <1>c, <3>2, <3>3
  <2>2. CASE k # writer.kind
    BY <1>1, <1>3, <1>a, <2>2 DEF WriteLine
  <2> QED
    BY <2>1, <2>2
<1>4. CASE CloseStream
  <2>1. CASE k = writer.kind
    <3>1. PICK n \in 0 .. file[k].unflushed :
            /\ file' = [file EXCEPT ![k].current = WithoutLast(@, n), ![k].unflushed = 0]
            /\ history' = [history EXCEPT ![k] = WithoutLast(@, n)]
      BY <1>4, <2>1 DEF CloseStream
    <3>2. n \in Nat /\ n <= Len(file[k].current) /\ n <= Len(history[k])
      BY <1>b, <1>c
    <3>3. /\ file'[k].current = WithoutLast(file[k].current, n) /\ file'[k].unflushed = 0
          /\ history'[k] = WithoutLast(history[k], n)
      BY <1>a, <1>b, <3>1 DEF File
    <3>4. Len(file'[k].current) \in Nat /\ Len(history'[k]) \in Nat
      BY <1>b, <3>2, <3>3, Shortened
    <3> QED
      BY <3>3, <3>4
  <2>2. CASE k # writer.kind
    BY <1>1, <1>4, <1>a, <2>2 DEF CloseStream
  <2> QED
    BY <2>1, <2>2
<1>5. CASE Rotate
  <2>1. CASE k = writer.kind
    <3>1. file'[k] = Moved(file[k], writer.index) /\ history' = history
      BY <1>5, <1>a, <2>1 DEF Rotate
    <3>2. \/ file'[k].unflushed = 0 /\ file'[k].current = << >>
          \/ file'[k].unflushed = file[k].unflushed /\ file'[k].current = file[k].current
      BY <1>b, <3>1 DEF Moved, MoveCurrent, MoveUp, File
    <3>3. Len(<< >>) = 0
      OBVIOUS
    <3> QED
      BY <1>1, <1>b, <3>1, <3>2, <3>3
  <2>2. CASE k # writer.kind
    BY <1>1, <1>5, <1>a, <2>2 DEF Rotate
  <2> QED
    BY <2>1, <2>2
<1>6. CASE FlushStreams
  <2>1. file'[k] = Flushed(file[k]) /\ history' = history
    BY <1>6 DEF FlushStreams
  <2> QED
    BY <1>1, <1>b, <2>1 DEF Flushed, File
<1>7. ASSUME NEW t \in Kinds, FlushFails(t) PROVE Goal
  <2>1. file'[k].unflushed = file[k].unflushed /\ file'[k].current = file[k].current /\ history' = history
    BY <1>7, <1>a, <1>b DEF FlushFails, File
  <2> QED
    BY <1>1, <2>1
<1>8. CASE NotifyReady \/ WriterTop \/ CheckEmpty \/ WriteDropSummary \/ ReleaseWriter
           \/ WriterFails \/ WriteToBadStream \/ Destroy \/ (\E t \in Kinds : Enqueue(t))
           \/ (\E r \in Readers : Flush(r) \/ CallFlush(r)) \/ UNCHANGED vars
  <2>1. UNCHANGED << file, history >>
    BY <1>8 DEF NotifyReady, WriterTop, CheckEmpty, WriteDropSummary, ReleaseWriter, WriterFails,
                WriteToBadStream, Dies, Destroy, Enqueue, Flush, CallFlush, UnchangedForReaders, vars
  <2> QED
    BY <1>2, <2>1
<1> QED
  BY <1>3, <1>4, <1>5, <1>6, <1>7, <1>8 DEF Next, WriterStep

\* Every step keeps what flush() relies on.
LEMMA QuietStep == IInv /\ [Next]_vars => Quiet'
<1> SUFFICES ASSUME IInv, [Next]_vars, ~failed', queue' = << >>
             PROVE  /\ writer'.pc \in {"top", "waiting", "release", "exited"} =>
                         \A k \in Kinds : file'[k].unflushed = 0 \/ file'[k].bad
                    /\ Summed' /\ ~thrown' => reported' = dropped'
  BY DEF Quiet
<1> DEFINE Goal == /\ writer'.pc \in {"top", "waiting", "release", "exited"} =>
                         \A k \in Kinds : file'[k].unflushed = 0 \/ file'[k].bad
                   /\ Summed' /\ ~thrown' => reported' = dropped'
<1>a. TypeOK /\ Control /\ Quiet
  BY DEF IInv
<1>b. writer \in Writer /\ file \in [Kinds -> File] /\ queue \in Seq(Event)
  BY <1>a DEF TypeOK
<1>1. ASSUME NEW k \in Kinds, Enqueue(k)
      PROVE  Goal
  <2>0. ~stopping /\ ~failed /\ UNCHANGED << writer, file, reported >>
    BY <1>1 DEF Enqueue, Destroyed
  <2>1. CASE Drop(k)
    <3>1. Full /\ queue' = queue
      BY <2>0, <2>1 DEF Drop, TurnedAway
    <3>2. QueueCapacity \in Nat /\ QueueCapacity >= 2 /\ Len(queue) >= QueueCapacity /\ Len(queue) = 0
      BY <3>1, LogAssumption DEF Full
    <3> QED
      BY <3>2
  <2>2. CASE Accept(k)
    <3>0. ~TurnedAway(k)
      BY <2>2 DEF Accept
    <3>1. PICK q \in RoomFor(k) : queue' = Append(q, [kind |-> k, id |-> submitted'])
      BY <2>2 DEF Accept
    <3>2. q \in Seq(Event) /\ Len(q) \in Nat
      BY <1>a, <3>0, <3>1, RoomFacts
    <3> DEFINE e == [kind |-> k, id |-> submitted']
    <3>3. queue' = Append(q, e)
      BY <3>1
    <3> HIDE DEF e
    <3>4. Append(q, e) # << >>
      BY <3>2
    <3> QED
      BY <3>3, <3>4
  <2>3. CASE AllocationFails(k)
    <3>0. ~TurnedAway(k) /\ queue' \in RoomFor(k) /\ thrown' = TRUE
      BY <2>3 DEF AllocationFails
    <3>1. ~Evicting(k) /\ queue' = queue
      BY <1>a, <3>0, RoomFacts
    <3> QED
      BY <1>a, <2>0, <3>0, <3>1 DEF Quiet
  <2> QED
    BY <1>1, <2>1, <2>2, <2>3 DEF Enqueue
<1>2. ASSUME UNCHANGED << queue, dropped, reported, file, failed, thrown >>,
             \/ (writer'.pc = writer.pc /\ writer'.next = writer.next)
             \/ (writer.pc = "waiting" /\ writer'.pc = "top")
             \/ (writer.pc = "top" /\ writer'.pc = "waiting")
             \/ (writer.pc = "release" /\ writer'.pc \in {"top", "exited"})
      PROVE  Goal
  BY <1>2, <1>a DEF Quiet, Summed, InHands
<1>3. ASSUME UNCHANGED << queue, dropped, reported, failed, thrown >>,
             \/ (InHands /\ writer'.pc \in {"write", "rotate"} /\ writer'.next = writer.next)
             \/ (InHands /\ writer'.pc = "flush" /\ writer.next = "flush")
             \/ writer'.pc \in {"check", "summary"}
             \/ (writer'.pc = "write" /\ writer'.next = "check")
      PROVE  Goal
  BY <1>3, <1>a DEF Quiet, Summed, InHands
<1>4. CASE NotifyReady
  <2>1. \/ (writer'.pc = writer.pc /\ writer'.next = writer.next)
        \/ (writer.pc = "waiting" /\ writer'.pc = "top")
    BY <1>4, <1>b DEF NotifyReady, Writer
  <2>2. UNCHANGED << queue, dropped, reported, file, failed, thrown >>
    BY <1>4 DEF NotifyReady
  <2> QED
    BY <1>2, <2>1, <2>2
<1>5. CASE WriterTop
  <2>0. UNCHANGED << dropped, reported, file, failed, thrown >> /\ writer.pc = "top"
    BY <1>5 DEF WriterTop, UnchangedCounters
  <2>1. CASE queue = << >> /\ ~stopping
    <3>1. writer'.pc = "waiting" /\ queue' = queue
      BY <1>5, <1>b, <2>1 DEF WriterTop, Writer
    <3> QED
      BY <1>2, <2>0, <3>1
  <2>2. CASE queue = << >> /\ stopping
    <3>1. writer'.pc = "summary"
      BY <1>5, <1>b, <2>2 DEF WriterTop, Writer
    <3> QED
      BY <2>0, <3>1 DEF Summed, InHands
  <2>3. CASE queue # << >>
    <3>1. writer'.pc = "write" /\ writer'.next = "check"
      BY <1>5, <1>b, <2>3 DEF WriterTop, Writer
    <3> QED
      BY <2>0, <3>1 DEF Summed, InHands
  <2> QED
    BY <2>1, <2>2, <2>3
<1>6. CASE WriteLine \/ CloseStream
  <2>0. UNCHANGED << queue, dropped, reported, failed, thrown >> /\ writer.pc = "write"
    BY <1>6 DEF WriteLine, CloseStream, UnchangedCounters
  <2>1. \/ (writer'.pc = "rotate" /\ writer'.next = writer.next)
        \/ (writer'.pc = "flush" /\ writer.next = "flush")
        \/ writer'.pc = "check"
    BY <1>6, <1>b DEF WriteLine, CloseStream, Writer
  <2>2. InHands
    BY <2>0 DEF InHands
  <2> QED
    BY <1>3, <2>0, <2>1, <2>2
<1>7. CASE Rotate
  <2>0. UNCHANGED << queue, dropped, reported, failed, thrown >> /\ writer.pc = "rotate"
    BY <1>7 DEF Rotate, UnchangedCounters
  <2>1. writer'.pc \in {"write", "rotate"} /\ writer'.next = writer.next
    BY <1>7, <1>b DEF Rotate, Writer
  <2>2. InHands
    BY <2>0 DEF InHands
  <2> QED
    BY <1>3, <2>0, <2>1, <2>2
<1>8. CASE CheckEmpty
  <2>0. UNCHANGED << queue, dropped, reported, failed, thrown >>
    BY <1>8 DEF CheckEmpty, UnchangedCounters
  <2>1. writer'.pc = "summary"
    BY <1>8, <1>b, <2>0 DEF CheckEmpty, Writer
  <2> QED
    BY <1>3, <2>0, <2>1
<1>9. CASE WriteDropSummary
  <2>0. reported' = dropped /\ dropped' = dropped
    BY <1>9 DEF WriteDropSummary, UnchangedCounters
  <2>1. writer'.pc \in {"flush", "write"}
    BY <1>9, <1>b DEF WriteDropSummary, Writer
  <2> QED
    BY <2>0, <2>1
<1>10. CASE FlushStreams
  <2>0. UNCHANGED << queue, dropped, reported, failed, thrown >> /\ writer.pc = "flush"
    BY <1>10 DEF FlushStreams, UnchangedCounters
  <2>1. \A k \in Kinds : file'[k].unflushed = 0 \/ file'[k].bad
    BY <1>10, <1>b DEF FlushStreams, Flushed, File
  <2>2. ~thrown => reported = dropped
    BY <1>a, <2>0 DEF Quiet, Summed
  <2> QED
    BY <2>0, <2>1, <2>2
<1>11. CASE ReleaseWriter
  <2>0. UNCHANGED << queue, dropped, reported, file, failed, thrown >> /\ writer.pc = "release"
    BY <1>11 DEF ReleaseWriter, UnchangedCounters
  <2>1. writer'.pc \in {"top", "exited"}
    BY <1>11, <1>b DEF ReleaseWriter, Writer
  <2> QED
    BY <1>2, <2>0, <2>1
<1>12. CASE WriterFails \/ WriteToBadStream
  BY <1>12 DEF WriterFails, WriteToBadStream, Dies
<1>13. CASE Destroy
  <2>0. UNCHANGED << queue, dropped, reported, file, failed, thrown >>
    BY <1>13 DEF Destroy, UnchangedCounters
  <2>1. \/ (writer'.pc = writer.pc /\ writer'.next = writer.next)
        \/ (writer.pc = "waiting" /\ writer'.pc = "top")
    BY <1>13, <1>b DEF Destroy, Writer
  <2> QED
    BY <1>2, <2>0, <2>1
<1>14. CASE UNCHANGED vars \/ UnchangedForReaders
  BY <1>2, <1>14 DEF vars, UnchangedForReaders
<1>15. ASSUME NEW k \in Kinds, FlushFails(k) PROVE Goal
  <2>1. UNCHANGED << queue, dropped, reported, failed, thrown, writer >> /\ writer.pc = "flush"
    BY <1>15 DEF FlushFails
  <2>2. ~thrown => reported = dropped
    BY <1>a, <2>1 DEF Quiet, Summed
  <2> QED
    BY <2>1, <2>2
<1> QED
  BY <1>1, <1>4, <1>5, <1>6, <1>7, <1>8, <1>9, <1>10, <1>11, <1>12, <1>13, <1>14, <1>15
     DEF Next, WriterStep, Flush, CallFlush

\* What push_back finds is in order, and holds only what the queue held.
LEMMA RoomOrder ==
  ASSUME IInv, NEW k \in Kinds, ~TurnedAway(k), NEW q \in RoomFor(k)
  PROVE  /\ \A i \in DOMAIN q : \E m \in DOMAIN queue : q[i] = queue[m]
         /\ \A i, j \in DOMAIN q : i < j => q[i].id < q[j].id
<1>0. TypeOK /\ queue \in Seq(Event) /\ Len(queue) \in Nat /\ DOMAIN queue = 1 .. Len(queue)
  BY DEF IInv, TypeOK
<1>1. \A i, j \in DOMAIN queue : i < j => queue[i].id < queue[j].id
  BY DEF IInv, Ordered
<1>2. CASE ~Evicting(k)
  <2>1. q = queue
    BY <1>0, <1>2, RoomFacts
  <2> QED
    BY <1>1, <2>1
<1>3. CASE Evicting(k)
  <2>1. PICK p \in 1 .. Len(queue) : q = RemoveAt(queue, p)
    BY <1>0, <1>3, RoomFacts
  <2>2. /\ q \in Seq(Event) /\ Len(q) = Len(queue) - 1
        /\ \A i \in 1 .. (Len(queue) - 1) : q[i] = IF i < p THEN queue[i] ELSE queue[i + 1]
    BY <1>0, <2>1, RemoveAtFacts
  <2>3. DOMAIN q = 1 .. (Len(queue) - 1)
    BY <2>2
  <2>4. ASSUME NEW i \in DOMAIN q
        PROVE  \E m \in DOMAIN queue : q[i] = queue[m]
    <3>1. i \in 1 .. Len(queue) /\ i + 1 \in 1 .. Len(queue)
      BY <1>0, <2>3
    <3> QED
      BY <1>0, <2>2, <2>3, <3>1
  <2>5. ASSUME NEW i \in DOMAIN q, NEW j \in DOMAIN q, i < j
        PROVE  q[i].id < q[j].id
    <3>1. /\ i \in 1 .. Len(queue) /\ i + 1 \in 1 .. Len(queue)
          /\ j \in 1 .. Len(queue) /\ j + 1 \in 1 .. Len(queue)
          /\ i < j /\ i < j + 1 /\ i + 1 < j + 1
      BY <1>0, <2>3, <2>5
    <3>2. /\ queue[i].id < queue[j].id /\ queue[i].id < queue[j + 1].id
          /\ queue[i + 1].id < queue[j + 1].id
      BY <1>0, <1>1, <3>1
    <3>3. i < p \/ ~(j < p)
      BY <1>0, <3>1
    <3> QED
      BY <2>2, <2>3, <3>2, <3>3
  <2> QED
    BY <2>4, <2>5
<1> QED
  BY <1>2, <1>3

\* Every step keeps the events in the order of their calls.
LEMMA OrderedStep == IInv /\ [Next]_vars => Ordered'
<1> SUFFICES ASSUME IInv, [Next]_vars PROVE Ordered'
  OBVIOUS
<1>a. TypeOK /\ Control /\ Ordered
  BY DEF IInv
<1>b. /\ writer \in Writer /\ queue \in Seq(Event) /\ Len(queue) \in Nat
      /\ DOMAIN queue = 1 .. Len(queue)
      /\ history \in [Kinds -> Seq(Nat)] /\ submitted \in Nat /\ writer.line \in Nat
      /\ writer.kind \in Kinds
  BY <1>a, LogAssumption DEF TypeOK, Writer
<1>c. \A i \in DOMAIN queue : queue[i].id \in Nat /\ queue[i].id >= 1 /\ queue[i].id <= submitted
  <2> SUFFICES ASSUME NEW i \in DOMAIN queue
               PROVE  queue[i].id \in Nat /\ queue[i].id >= 1 /\ queue[i].id <= submitted
    OBVIOUS
  <2>1. queue[i] \in Event /\ MaxEvents \in Nat
    BY <1>b, LogAssumption
  <2> QED
    BY <1>a, <2>1 DEF Event, Ordered
<1>d. \A k \in Kinds : \A i \in DOMAIN history[k] :
        history[k][i] \in Nat /\ history[k][i] <= submitted
  BY <1>a, <1>b DEF Ordered
<1>1. ASSUME NEW q \in Seq(Event), UNCHANGED << writer, history >>, submitted' = submitted + 1,
             \A i \in DOMAIN q : \E m \in DOMAIN queue : q[i] = queue[m],
             \A i, j \in DOMAIN q : i < j => q[i].id < q[j].id,
             \/ queue' = q
             \/ \E k \in Kinds : queue' = Append(q, [kind |-> k, id |-> submitted + 1])
      PROVE  Ordered'
  <2>0. \A i \in DOMAIN q : q[i].id \in Nat /\ q[i].id <= submitted
    BY <1>1, <1>c
  <2>1. /\ \A i \in DOMAIN queue' :
             \/ \E m \in DOMAIN queue : queue'[i] = queue[m]
             \/ queue'[i].id = submitted + 1
        /\ \A i, j \in DOMAIN queue' : i < j => queue'[i].id < queue'[j].id
    <3>1. CASE queue' = q
      BY <1>1, <3>1
    <3>2. ASSUME NEW k \in Kinds, queue' = Append(q, [kind |-> k, id |-> submitted + 1])
          PROVE  <2>1
      <4> DEFINE e == [kind |-> k, id |-> submitted + 1]
      <4>1. e.id = submitted + 1 /\ queue' = Append(q, e)
        BY <3>2
      <4> HIDE DEF e
      <4>2. /\ Len(q) \in Nat /\ DOMAIN q = 1 .. Len(q)
            /\ DOMAIN queue' = 1 .. (Len(q) + 1)
            /\ \A i \in 1 .. Len(q) : queue'[i] = q[i]
            /\ queue'[Len(q) + 1] = e
        BY <4>1
      <4>3. \A i \in DOMAIN queue' : i \in DOMAIN q \/ i = Len(q) + 1
        BY <4>2
      <4>4. ASSUME NEW i \in DOMAIN queue', NEW j \in DOMAIN queue', i < j
            PROVE  queue'[i].id < queue'[j].id
        <5>1. i \in DOMAIN q
          BY <4>2, <4>4
        <5>2. queue'[i] = q[i] /\ q[i].id \in Nat /\ q[i].id <= submitted
          BY <2>0, <4>2, <5>1
        <5>3. CASE j \in DOMAIN q
          BY <1>1, <4>2, <4>4, <5>1, <5>2, <5>3
        <5>4. CASE j = Len(q) + 1
          <6>1. queue'[j].id = submitted + 1
            BY <4>1, <4>2, <5>4
          <6> QED
            BY <1>b, <5>2, <6>1
        <5> QED
          BY <4>3, <5>3, <5>4
      <4>5. ASSUME NEW i \in DOMAIN queue'
            PROVE  \/ \E m \in DOMAIN queue : queue'[i] = queue[m]
                   \/ queue'[i].id = submitted + 1
        BY <1>1, <4>1, <4>2, <4>3
      <4> QED
        BY <4>4, <4>5
    <3> QED
      BY <1>1, <3>1, <3>2
  <2>2. \A i \in DOMAIN queue' :
          /\ queue'[i].id <= submitted + 1
          /\ \A k \in Kinds : \A h \in DOMAIN history[k] : history[k][h] < queue'[i].id
          /\ InHands => writer.line < queue'[i].id
    <3> SUFFICES ASSUME NEW i \in DOMAIN queue'
                 PROVE  /\ queue'[i].id <= submitted + 1
                        /\ \A k \in Kinds : \A h \in DOMAIN history[k] : history[k][h] < queue'[i].id
                        /\ InHands => writer.line < queue'[i].id
      OBVIOUS
    <3>1. CASE \E m \in DOMAIN queue : queue'[i] = queue[m]
      <4>1. PICK m \in DOMAIN queue : queue'[i] = queue[m]
        BY <3>1
      <4>2. queue[m].id \in Nat /\ queue[m].id <= submitted
        BY <1>c
      <4>3. queue'[i].id <= submitted + 1
        BY <1>b, <4>1, <4>2
      <4> QED
        BY <1>a, <4>1, <4>3 DEF Ordered
    <3>2. CASE queue'[i].id = submitted + 1
      <4>1. InHands => writer.line <= submitted
        BY <1>a DEF Ordered
      <4> QED
        BY <1>b, <1>d, <3>2, <4>1
    <3> QED
      BY <2>1, <3>1, <3>2
  <2>3. \A k \in Kinds : \A i \in DOMAIN history[k] : history[k][i] <= submitted + 1
    BY <1>b, <1>d
  <2>4. InHands => writer.line <= submitted + 1
    BY <1>a, <1>b DEF Ordered
  <2>5. InHands' = InHands /\ UNCHANGED << writer, history >> /\ submitted' = submitted + 1
    BY <1>1 DEF InHands
  <2>6. /\ \A k \in Kinds : Increasing(history'[k])
        /\ \A k \in Kinds : \A i \in DOMAIN history'[k] :
             /\ history'[k][i] <= submitted'
             /\ \A j \in DOMAIN queue' : history'[k][i] < queue'[j].id
    BY <1>a, <2>2, <2>3, <2>5 DEF Ordered
  <2>7. InHands' =>
          /\ writer'.line <= submitted'
          /\ \A j \in DOMAIN queue' : writer'.line < queue'[j].id
          /\ writer'.line # 0 => \A k \in Kinds : \A i \in DOMAIN history'[k] :
                               history'[k][i] < writer'.line
    BY <1>a, <2>2, <2>4, <2>5 DEF Ordered
  <2> QED
    BY <2>1, <2>2, <2>5, <2>6, <2>7 DEF Ordered
<1>2. ASSUME NEW k \in Kinds, Enqueue(k)
      PROVE  Ordered'
  <2>0. submitted' = submitted + 1 /\ UNCHANGED << writer, history >>
    BY <1>2 DEF Enqueue
  <2>1. CASE Drop(k)
    <3>1. queue' = queue
      BY <2>1 DEF Drop
    <3>2. \A i, j \in DOMAIN queue : i < j => queue[i].id < queue[j].id
      BY <1>a DEF Ordered
    <3> QED
      BY <1>1, <1>b, <2>0, <3>1, <3>2
  <2>2. CASE Accept(k)
    <3>1. ~TurnedAway(k)
      BY <2>2 DEF Accept
    <3>2. PICK q \in RoomFor(k) : queue' = Append(q, [kind |-> k, id |-> submitted'])
      BY <2>2 DEF Accept
    <3>3. q \in Seq(Event)
      BY <1>a, <3>1, RoomFacts
    <3> QED
      BY <1>1, <2>0, <3>1, <3>2, <3>3, RoomOrder
  <2>3. CASE AllocationFails(k)
    <3>1. ~TurnedAway(k) /\ queue' \in RoomFor(k)
      BY <2>3 DEF AllocationFails
    <3>2. PICK q \in RoomFor(k) : queue' = q
      BY <3>1
    <3>3. q \in Seq(Event)
      BY <1>a, <3>1, RoomFacts
    <3> QED
      BY <1>1, <2>0, <3>1, <3>2, <3>3, RoomOrder
  <2> QED
    BY <1>2, <2>1, <2>2, <2>3 DEF Enqueue
<1>3. ASSUME UNCHANGED << queue, history, submitted >>,
             InHands' => \/ (InHands /\ writer'.line = writer.line)
                         \/ writer'.line = 0
      PROVE  Ordered'
  <2>1. InHands' =>
          /\ writer'.line <= submitted'
          /\ \A j \in DOMAIN queue' : writer'.line < queue'[j].id
          /\ writer'.line # 0 => \A k \in Kinds : \A i \in DOMAIN history'[k] :
                               history'[k][i] < writer'.line
    <3>1. CASE InHands /\ writer'.line = writer.line
      BY <1>3, <1>a, <3>1 DEF Ordered
    <3>2. CASE writer'.line = 0
      BY <1>3, <1>b, <1>c, <3>2
    <3> QED
      BY <1>3, <3>1, <3>2
  <2> QED
    BY <1>3, <1>a, <2>1 DEF Ordered
<1>4. CASE NotifyReady
  <2>1. UNCHANGED << queue, history, submitted >>
    BY <1>4 DEF NotifyReady
  <2>2. InHands' => InHands /\ writer'.line = writer.line
    BY <1>4, <1>b DEF NotifyReady, Writer, InHands
  <2> QED
    BY <1>3, <2>1, <2>2
<1>5. CASE WriterTop
  <2>0. UNCHANGED << history, submitted >> /\ writer.pc = "top"
    BY <1>5 DEF WriterTop, UnchangedCounters
  <2>1. CASE queue = << >>
    <3>1. writer'.pc \in {"waiting", "summary"} /\ queue' = queue
      BY <1>5, <1>b, <2>1 DEF WriterTop, Writer
    <3> QED
      BY <1>3, <2>0, <3>1 DEF InHands
  <2>2. CASE queue # << >>
    <3>1. /\ queue' = Tail(queue) /\ writer'.line = Head(queue).id
      BY <1>5, <1>b, <2>2 DEF WriterTop, Writer
    <3>2. /\ Head(queue) = queue[1] /\ 1 \in DOMAIN queue
          /\ DOMAIN Tail(queue) = 1 .. (Len(queue) - 1)
          /\ \A i \in 1 .. (Len(queue) - 1) : Tail(queue)[i] = queue[i + 1]
      BY <1>b, <2>2
    <3>3. \A i \in DOMAIN queue' :
            /\ queue'[i] = queue[i + 1] /\ i + 1 \in DOMAIN queue
            /\ queue[1].id < queue'[i].id
      <4> SUFFICES ASSUME NEW i \in DOMAIN queue'
                   PROVE  /\ queue'[i] = queue[i + 1] /\ i + 1 \in DOMAIN queue
                          /\ queue[1].id < queue'[i].id
        OBVIOUS
      <4>1. i \in 1 .. (Len(queue) - 1) /\ i + 1 \in 1 .. Len(queue) /\ 1 < i + 1
        BY <1>b, <3>1, <3>2
      <4> QED
        BY <1>a, <1>b, <3>1, <3>2, <4>1 DEF Ordered
    <3>4. \A i, j \in DOMAIN queue' : i < j => queue'[i].id < queue'[j].id
      <4> SUFFICES ASSUME NEW i \in DOMAIN queue', NEW j \in DOMAIN queue', i < j
                   PROVE  queue'[i].id < queue'[j].id
        OBVIOUS
      <4>1. i + 1 < j + 1
        BY <1>b, <3>1, <3>2
      <4> QED
        BY <1>a, <3>3, <4>1 DEF Ordered
    <3>5. \A k \in Kinds : \A i \in DOMAIN history[k] :
            /\ history[k][i] < queue[1].id
            /\ \A j \in DOMAIN queue' : history[k][i] < queue'[j].id
      BY <1>a, <3>2, <3>3 DEF Ordered
    <3>6. \A i \in DOMAIN queue' : queue'[i].id <= submitted
      BY <1>c, <3>3
    <3>7. queue[1].id <= submitted
      BY <1>c, <3>2
    <3>8. writer'.line = queue[1].id
      BY <3>1, <3>2
    <3>9. \A k \in Kinds : Increasing(history'[k])
      BY <1>a, <2>0 DEF Ordered
    <3>10. \A k \in Kinds : \A i \in DOMAIN history'[k] :
             /\ history'[k][i] <= submitted'
             /\ \A j \in DOMAIN queue' : history'[k][i] < queue'[j].id
      BY <1>d, <2>0, <3>5
    <3>11. /\ writer'.line <= submitted'
           /\ \A j \in DOMAIN queue' : writer'.line < queue'[j].id
           /\ \A k \in Kinds : \A i \in DOMAIN history'[k] : history'[k][i] < writer'.line
      BY <2>0, <3>3, <3>5, <3>7, <3>8
    <3> QED
      BY <2>0, <3>4, <3>6, <3>9, <3>10, <3>11 DEF Ordered
  <2> QED
    BY <2>1, <2>2
<1>6. CASE WriteLine
  <2>0. UNCHANGED << queue, submitted >> /\ writer.pc = "write" /\ InHands
    BY <1>6 DEF WriteLine, UnchangedCounters, InHands
  <2>1. /\ history' = [history EXCEPT ![writer.kind] = Append(@, writer.line)]
        /\ writer'.pc \in {"check", "flush"}
    BY <1>6, <1>b DEF WriteLine, Writer
  <2>2. ~InHands'
    BY <2>1 DEF InHands
  <2>3. /\ writer.line <= submitted
        /\ \A j \in DOMAIN queue : writer.line < queue[j].id
        /\ writer.line # 0 => \A k \in Kinds : \A i \in DOMAIN history[k] :
                             history[k][i] < writer.line
    BY <1>a, <2>0 DEF Ordered
  <2>4. ASSUME NEW k \in Kinds
        PROVE  /\ Increasing(history'[k])
               /\ \A i \in DOMAIN history'[k] :
                    /\ history'[k][i] <= submitted
                    /\ \A j \in DOMAIN queue : history'[k][i] < queue[j].id
    <3>1. CASE k # writer.kind
      <4>1. history'[k] = history[k]
        BY <1>b, <2>1, <3>1
      <4> QED
        BY <1>a, <4>1 DEF Ordered
    <3>2. CASE k = writer.kind
      <4>1. /\ history[k] \in Seq(Nat) /\ Len(history[k]) \in Nat
            /\ history'[k] = Append(history[k], writer.line)
        BY <1>b, <2>1, <3>2
      <4>2. /\ DOMAIN history[k] = 1 .. Len(history[k])
            /\ DOMAIN history'[k] = 1 .. (Len(history[k]) + 1)
            /\ \A i \in 1 .. Len(history[k]) : history'[k][i] = history[k][i]
            /\ history'[k][Len(history[k]) + 1] = writer.line
        BY <1>b, <4>1
      <4>3. \A i \in DOMAIN history'[k] : i \in DOMAIN history[k] \/ i = Len(history[k]) + 1
        BY <4>1, <4>2
      <4>4. \A i \in DOMAIN history'[k] :
                    /\ history'[k][i] <= submitted
                    /\ \A j \in DOMAIN queue : history'[k][i] < queue[j].id
        BY <1>a, <2>3, <4>2, <4>3 DEF Ordered
      <4>5. ASSUME NEW i \in DOMAIN history'[k], NEW j \in DOMAIN history'[k], i < j,
                   history'[k][i] # 0, history'[k][j] # 0
            PROVE  history'[k][i] < history'[k][j]
        <5>1. i \in DOMAIN history[k] /\ history'[k][i] = history[k][i]
          BY <4>1, <4>2, <4>5
        <5>2. CASE j \in DOMAIN history[k]
          <6>1. history'[k][j] = history[k][j] /\ Increasing(history[k])
            BY <1>a, <4>2, <5>2 DEF Ordered
          <6> QED
            BY <4>5, <5>1, <5>2, <6>1 DEF Increasing
        <5>3. CASE j = Len(history[k]) + 1
          BY <2>3, <4>2, <4>5, <5>1, <5>3
        <5> QED
          BY <4>3, <5>2, <5>3
      <4> QED
        BY <4>4, <4>5 DEF Increasing
    <3> QED
      BY <3>1, <3>2
  <2> QED
    BY <1>a, <2>0, <2>2, <2>4 DEF Ordered
<1>13. CASE CloseStream
  <2>0. /\ UNCHANGED << queue, submitted >> /\ writer.pc = "write" /\ InHands
        /\ writer' = [writer EXCEPT !.pc = "rotate", !.index = RotatedFileCount + 1]
    BY <1>13 DEF CloseStream, InHands
  <2>1. InHands' /\ writer'.line = writer.line
    BY <1>b, <2>0 DEF Writer, InHands
  <2>2. PICK n \in 0 .. file[writer.kind].unflushed :
          history' = [history EXCEPT ![writer.kind] = WithoutLast(@, n)]
    BY <1>13 DEF CloseStream
  <2>3. ASSUME NEW k \in Kinds
        PROVE  \A i \in DOMAIN history'[k] : i \in DOMAIN history[k] /\ history'[k][i] = history[k][i]
    <3>1. CASE k # writer.kind
      BY <1>b, <2>2, <3>1
    <3>2. CASE k = writer.kind
      <4>0. history'[k] = WithoutLast(history[k], n) /\ history[k] \in Seq(Nat)
        BY <1>b, <2>2, <3>2
      <4>1. file[k] \in File /\ file[k].unflushed <= Len(history[k])
        BY <1>a DEF TypeOK, IInv, Buffered
      <4>2. n \in Nat /\ n <= Len(history[k]) /\ Len(history[k]) \in Nat
        BY <3>2, <4>0, <4>1 DEF File
      <4>3. /\ history'[k] \in Seq(Nat) /\ Len(history'[k]) = Len(history[k]) - n
            /\ \A j \in 1 .. (Len(history[k]) - n) : history'[k][j] = history[k][j]
        BY <4>0, <4>2, Shortened
      <4>4. DOMAIN history'[k] = 1 .. (Len(history[k]) - n) /\ DOMAIN history[k] = 1 .. Len(history[k])
        BY <4>0, <4>3
      <4>5. \A j \in 1 .. (Len(history[k]) - n) : j \in 1 .. Len(history[k])
        BY <4>2
      <4> QED
        BY <4>3, <4>4, <4>5
    <3> QED
      BY <3>1, <3>2
  <2>4. \A k \in Kinds : Increasing(history'[k])
    BY <1>a, <2>3 DEF Ordered, Increasing
  <2>5. \A k \in Kinds : \A i \in DOMAIN history'[k] :
          /\ history'[k][i] <= submitted'
          /\ \A j \in DOMAIN queue' : history'[k][i] < queue'[j].id
    BY <1>a, <2>0, <2>3 DEF Ordered
  <2>6. /\ writer'.line <= submitted'
        /\ \A j \in DOMAIN queue' : writer'.line < queue'[j].id
        /\ writer'.line # 0 => \A k \in Kinds : \A i \in DOMAIN history'[k] :
                               history'[k][i] < writer'.line
    BY <1>a, <2>0, <2>1, <2>3 DEF Ordered
  <2> QED
    BY <1>a, <2>0, <2>4, <2>5, <2>6 DEF Ordered
<1>7. CASE Rotate
  <2>1. UNCHANGED << queue, history, submitted >> /\ InHands
    BY <1>7 DEF Rotate, UnchangedCounters, InHands
  <2>2. writer'.line = writer.line
    BY <1>7, <1>b DEF Rotate, Writer
  <2> QED
    BY <1>3, <2>1, <2>2
<1>8. CASE CheckEmpty \/ FlushStreams \/ ReleaseWriter \/ \E k \in Kinds : FlushFails(k)
  <2>1. UNCHANGED << queue, history, submitted >>
    BY <1>8 DEF CheckEmpty, FlushStreams, ReleaseWriter, FlushFails, UnchangedCounters
  <2>2. ~InHands'
    BY <1>8, <1>b DEF CheckEmpty, FlushStreams, ReleaseWriter, FlushFails, Writer, InHands
  <2> QED
    BY <1>3, <2>1, <2>2
<1>9. CASE WriteDropSummary
  <2>1. UNCHANGED << queue, history, submitted >>
    BY <1>9 DEF WriteDropSummary, UnchangedCounters
  <2>2. InHands' => writer'.line = 0
    BY <1>9, <1>b DEF WriteDropSummary, Writer, InHands
  <2> QED
    BY <1>3, <2>1, <2>2
<1>10. CASE WriterFails \/ WriteToBadStream
  <2>1. queue' = << >> /\ UNCHANGED << history, submitted >>
    BY <1>10 DEF WriterFails, WriteToBadStream, Dies
  <2>2. ~InHands'
    BY <1>10, <1>b DEF WriterFails, WriteToBadStream, Dies, Writer, InHands
  <2>3. DOMAIN queue' = {}
    BY <2>1
  <2> QED
    BY <1>a, <2>1, <2>2, <2>3 DEF Ordered
<1>11. CASE Destroy
  <2>1. UNCHANGED << queue, history, submitted >>
    BY <1>11 DEF Destroy, UnchangedCounters
  <2>2. InHands' => InHands /\ writer'.line = writer.line
    BY <1>11, <1>b DEF Destroy, Writer, InHands
  <2> QED
    BY <1>3, <2>1, <2>2
<1>12. CASE UNCHANGED vars \/ UnchangedForReaders
  <2>1. UNCHANGED << queue, history, submitted, writer >>
    BY <1>12 DEF vars, UnchangedForReaders
  <2> QED
    BY <1>3, <2>1 DEF InHands
<1> QED
  BY <1>2, <1>4, <1>5, <1>6, <1>7, <1>8, <1>9, <1>10, <1>11, <1>12, <1>13
     DEF Next, WriterStep, Flush, CallFlush

\* What is in the queue after a call was there, or is the event of the call.
LEMMA QueuedFrom ==
  ASSUME IInv, NEW k \in Kinds, Enqueue(k)
  PROVE  \A i \in DOMAIN queue' :
           (\E m \in DOMAIN queue : queue'[i] = queue[m]) \/ queue'[i].id = submitted + 1
<1>0. submitted' = submitted + 1 /\ TypeOK
  BY DEF Enqueue, IInv
<1>1. CASE Drop(k)
  BY <1>1 DEF Drop
<1>2. CASE AllocationFails(k)
  <2>1. ~TurnedAway(k) /\ queue' \in RoomFor(k)
    BY <1>2 DEF AllocationFails
  <2>2. PICK q \in RoomFor(k) : queue' = q
    BY <2>1
  <2> QED
    BY <2>1, <2>2, RoomOrder
<1>3. CASE Accept(k)
  <2>1. ~TurnedAway(k)
    BY <1>3 DEF Accept
  <2>2. PICK q \in RoomFor(k) : queue' = Append(q, [kind |-> k, id |-> submitted'])
    BY <1>3 DEF Accept
  <2>3. q \in Seq(Event) /\ \A i \in DOMAIN q : \E m \in DOMAIN queue : q[i] = queue[m]
    BY <1>0, <2>1, RoomFacts, RoomOrder
  <2> DEFINE e == [kind |-> k, id |-> submitted']
  <2>4. e.id = submitted + 1 /\ queue' = Append(q, e)
    BY <1>0, <2>2
  <2> HIDE DEF e
  <2>5. /\ Len(q) \in Nat /\ DOMAIN q = 1 .. Len(q)
        /\ DOMAIN queue' = 1 .. (Len(q) + 1)
        /\ \A i \in 1 .. Len(q) : queue'[i] = q[i]
        /\ queue'[Len(q) + 1] = e
    BY <2>3, <2>4
  <2>6. \A i \in DOMAIN queue' : i \in DOMAIN q \/ i = Len(q) + 1
    BY <2>5
  <2> QED
    BY <2>3, <2>4, <2>5, <2>6
<1> QED
  BY <1>1, <1>2, <1>3 DEF Enqueue

\* Every step keeps what is lost older than what waits.
LEMMA LostStep == IInv /\ [Next]_vars => LostOld'
<1> SUFFICES ASSUME IInv, [Next]_vars, NEW k \in Kinds, NEW x \in lost'[k]
             PROVE  x <= submitted' /\ \A j \in DOMAIN queue' : x < queue'[j].id
  BY DEF LostOld
<1> DEFINE Goal == x <= submitted' /\ \A j \in DOMAIN queue' : x < queue'[j].id
<1>a. TypeOK /\ Ordered /\ LostOld
  BY DEF IInv
<1>b. /\ submitted \in Nat /\ queue \in Seq(Event) /\ lost \in [Kinds -> SUBSET Nat]
      /\ history \in [Kinds -> Seq(Nat)]
  BY <1>a, LogAssumption DEF TypeOK
<1>c. ASSUME x \in lost[k]
      PROVE  x \in Nat /\ x <= submitted /\ \A j \in DOMAIN queue : x < queue[j].id
  BY <1>a, <1>b, <1>c DEF LostOld
<1>1. CASE UNCHANGED << submitted, queue, lost >>
  BY <1>1, <1>c
<1>2. ASSUME NEW t \in Kinds, Enqueue(t) PROVE Goal
  <2>1. submitted' = submitted + 1 /\ lost' = lost
    BY <1>2 DEF Enqueue
  <2>2. x \in Nat /\ x <= submitted /\ \A j \in DOMAIN queue : x < queue[j].id
    BY <1>c, <2>1
  <2>3. x <= submitted + 1 /\ x < submitted + 1
    BY <1>b, <2>2
  <2> QED
    BY <1>2, <2>1, <2>2, <2>3, QueuedFrom
<1>3. CASE WriterTop
  <2>1. UNCHANGED << submitted, lost >> /\ (queue' = queue \/ (queue # << >> /\ queue' = Tail(queue)))
    BY <1>3 DEF WriterTop, UnchangedCounters
  <2>2. CASE queue' = queue
    BY <1>1, <2>1, <2>2
  <2>3. CASE queue # << >> /\ queue' = Tail(queue)
    <3>1. \A j \in DOMAIN queue' : j + 1 \in DOMAIN queue /\ queue'[j] = queue[j + 1]
      BY <1>b, <2>3
    <3> QED
      BY <1>c, <2>1, <3>1
  <2> QED
    BY <2>1, <2>2, <2>3
<1>4. CASE WriterFails \/ WriteToBadStream
  <2>1. UNCHANGED << submitted, lost >> /\ queue' = << >>
    BY <1>4 DEF WriterFails, WriteToBadStream, Dies
  <2>2. DOMAIN queue' = {}
    BY <2>1
  <2> QED
    BY <1>c, <2>1, <2>2
<1>5. CASE CloseStream
  <2>1. UNCHANGED << submitted, queue >>
    BY <1>5 DEF CloseStream
  <2>2. PICK n \in 0 .. file[writer.kind].unflushed :
          lost' = [lost EXCEPT ![writer.kind] = @ \cup LastOf(history[writer.kind], n)]
    BY <1>5 DEF CloseStream
  <2>3. CASE x \in lost[k]
    BY <1>c, <2>1, <2>3
  <2>4. CASE x \notin lost[k]
    <3>1. k = writer.kind /\ x \in LastOf(history[k], n)
      BY <1>b, <2>2, <2>4
    <3>2. file[k] \in File /\ file[k].unflushed <= Len(history[k]) /\ Len(history[k]) \in Nat
      BY <1>a, <1>b DEF TypeOK, IInv, Buffered
    <3>3. n \in Nat /\ n <= Len(history[k])
      BY <3>1, <3>2 DEF File
    <3>4. PICK i \in (Len(history[k]) - n + 1) .. Len(history[k]) : x = history[k][i]
      BY <3>1 DEF LastOf
    <3>5. i \in DOMAIN history[k]
      BY <1>b, <3>2, <3>3
    <3> QED
      BY <1>a, <2>1, <3>4, <3>5 DEF Ordered
  <2> QED
    BY <2>3, <2>4
<1>6. CASE NotifyReady \/ WriteLine \/ Rotate \/ CheckEmpty \/ WriteDropSummary \/ FlushStreams
           \/ ReleaseWriter \/ Destroy \/ (\E t \in Kinds : FlushFails(t))
           \/ (\E r \in Readers : Flush(r) \/ CallFlush(r)) \/ UNCHANGED vars
  <2>1. UNCHANGED << submitted, queue, lost >>
    BY <1>6 DEF NotifyReady, WriteLine, Rotate, CheckEmpty, WriteDropSummary, FlushStreams,
                ReleaseWriter, Destroy, FlushFails, Flush, CallFlush, UnchangedForReaders, vars,
                UnchangedCounters
  <2> QED
    BY <1>1, <2>1
<1> QED
  BY <1>2, <1>3, <1>4, <1>5, <1>6 DEF Next, WriterStep

\* push_back adds the event to those of its kind.
LEMMA IdsAppend ==
  ASSUME NEW q \in Seq(Event), NEW e \in Event, NEW k \in Kinds
  PROVE  Ids(Append(q, e), k) = Ids(q, k) \cup (IF e.kind = k THEN {e.id} ELSE {})
<1>1. /\ Len(q) \in Nat /\ DOMAIN q = 1 .. Len(q) /\ DOMAIN Append(q, e) = 1 .. (Len(q) + 1)
      /\ \A i \in 1 .. Len(q) : Append(q, e)[i] = q[i]
      /\ Append(q, e)[Len(q) + 1] = e
  OBVIOUS
<1>2. \A i \in DOMAIN Append(q, e) : i \in DOMAIN q \/ i = Len(q) + 1
  BY <1>1
<1>3. \A i \in DOMAIN q : i \in DOMAIN Append(q, e)
  BY <1>1
<1>4. Len(q) + 1 \in DOMAIN Append(q, e)
  BY <1>1
<1> DEFINE a == Append(q, e)
<1> HIDE DEF a
<1>5. \A x \in Ids(a, k) : x \in Ids(q, k) \/ (e.kind = k /\ x = e.id)
  BY <1>1, <1>2 DEF Ids, a
<1>6. Ids(q, k) \subseteq Ids(a, k)
  BY <1>1, <1>3 DEF Ids, a
<1>7. e.kind = k => e.id \in Ids(a, k)
  BY <1>1, <1>4 DEF Ids, a
<1> QED
  BY <1>5, <1>6, <1>7 DEF a

\* pop_front takes the first event from those of its kind.
LEMMA IdsTail ==
  ASSUME NEW q \in Seq(Event), q # << >>, NEW k \in Kinds
  PROVE  Ids(q, k) = Ids(Tail(q), k) \cup (IF Head(q).kind = k THEN {Head(q).id} ELSE {})
<1>1. /\ Len(q) \in Nat /\ DOMAIN q = 1 .. Len(q) /\ Len(q) >= 1
      /\ DOMAIN Tail(q) = 1 .. (Len(q) - 1)
      /\ \A i \in 1 .. (Len(q) - 1) : Tail(q)[i] = q[i + 1]
      /\ Head(q) = q[1]
  OBVIOUS
<1>2. \A i \in DOMAIN q : i = 1 \/ (i - 1 \in DOMAIN Tail(q) /\ Tail(q)[i - 1] = q[i])
  BY <1>1
<1>3. \A i \in DOMAIN Tail(q) : i + 1 \in DOMAIN q /\ Tail(q)[i] = q[i + 1]
  BY <1>1
<1>4. 1 \in DOMAIN q
  BY <1>1
<1>5. \A x \in Ids(q, k) : x \in Ids(Tail(q), k) \/ (q[1].kind = k /\ x = q[1].id)
  BY <1>2 DEF Ids
<1>6. Ids(Tail(q), k) \subseteq Ids(q, k)
  BY <1>3 DEF Ids
<1>7. q[1].kind = k => q[1].id \in Ids(q, k)
  BY <1>4 DEF Ids
<1> QED
  BY <1>1, <1>5, <1>6, <1>7

\* erase() takes one event from those of its kind.
LEMMA IdsRemove ==
  ASSUME NEW q \in Seq(Event), NEW p \in 1 .. Len(q), NEW k \in Kinds,
         \A i, j \in DOMAIN q : i < j => q[i].id < q[j].id
  PROVE  Ids(RemoveAt(q, p), k) = Ids(q, k) \ {q[p].id}
<1> DEFINE a == RemoveAt(q, p)
<1>1. /\ a \in Seq(Event) /\ Len(a) = Len(q) - 1 /\ Len(q) \in Nat /\ DOMAIN q = 1 .. Len(q)
      /\ \A i \in 1 .. (Len(q) - 1) : a[i] = IF i < p THEN q[i] ELSE q[i + 1]
  BY RemoveAtFacts
<1> HIDE DEF a
<1>2. DOMAIN a = 1 .. (Len(q) - 1)
  BY <1>1
<1>d. \A i \in DOMAIN q : i # p => q[i].id # q[p].id
  <2> SUFFICES ASSUME NEW i \in DOMAIN q, i # p PROVE q[i].id # q[p].id
    OBVIOUS
  <2>1. i < p \/ p < i
    BY <1>1
  <2>2. q[i] \in Event /\ q[p] \in Event /\ MaxEvents \in Nat /\ p \in DOMAIN q
    BY <1>1, LogAssumption
  <2>3. q[i].id \in Nat /\ q[p].id \in Nat
    BY <2>2 DEF Event
  <2> QED
    BY <2>1, <2>2, <2>3
<1>3. ASSUME NEW i \in DOMAIN a
      PROVE  \E m \in DOMAIN q : m # p /\ a[i] = q[m]
  <2>1. i \in 1 .. Len(q) /\ i + 1 \in 1 .. Len(q)
    BY <1>1, <1>2
  <2>2. CASE i < p
    BY <1>1, <1>2, <2>1, <2>2
  <2>3. CASE ~(i < p)
    BY <1>1, <1>2, <2>1, <2>3
  <2> QED
    BY <2>2, <2>3
<1>4. ASSUME NEW m \in DOMAIN q, m # p
      PROVE  \E i \in DOMAIN a : a[i] = q[m]
  <2>1. CASE m < p
    <3>1. m \in 1 .. (Len(q) - 1)
      BY <1>1, <2>1
    <3> QED
      BY <1>1, <1>2, <2>1, <3>1
  <2>2. CASE m > p
    <3>1. m - 1 \in 1 .. (Len(q) - 1) /\ ~(m - 1 < p) /\ (m - 1) + 1 = m
      BY <1>1, <2>2
    <3>2. a[m - 1] = q[m]
      BY <1>1, <3>1
    <3> QED
      BY <1>2, <3>1, <3>2
  <2>3. m < p \/ m > p
    BY <1>1, <1>4
  <2> QED
    BY <2>1, <2>2, <2>3
<1>5. Ids(a, k) \subseteq Ids(q, k) \ {q[p].id}
  BY <1>3, <1>d DEF Ids
<1>6. Ids(q, k) \ {q[p].id} \subseteq Ids(a, k)
  <2> SUFFICES ASSUME NEW m \in DOMAIN q, q[m].kind = k, q[m].id # q[p].id
               PROVE  q[m].id \in Ids(a, k)
    BY DEF Ids
  <2>1. PICK i \in DOMAIN a : a[i] = q[m]
    BY <1>4
  <2> QED
    BY <2>1 DEF Ids
<1> QED
  BY <1>5, <1>6 DEF a

\* What is kept of a kind once the oldest access event has made room.
LEMMA KeptRoom ==
  ASSUME IInv, NEW k \in Kinds, ~TurnedAway(k), NEW q \in RoomFor(k), Evicting(k)
  PROVE  \E id \in Kept("access") :
           \A t \in Kinds :
             Handed(t) \cup Ids(q, t) \cup InHand(t)
               = IF t = "access" THEN Kept(t) \ {id} ELSE Kept(t)
<1>0. TypeOK /\ Ordered /\ queue \in Seq(Event) /\ Len(queue) \in Nat
      /\ DOMAIN queue = 1 .. Len(queue)
  BY DEF IInv, TypeOK
<1>1. PICK p \in 1 .. Len(queue) : queue[p].kind = "access" /\ q = RemoveAt(queue, p)
  BY <1>0, RoomFacts
<1>o. \A i, j \in DOMAIN queue : i < j => queue[i].id < queue[j].id
  BY <1>0 DEF Ordered
<1> DEFINE id == queue[p].id
<1>2. \A t \in Kinds : Ids(q, t) = Ids(queue, t) \ {id}
  BY <1>0, <1>1, <1>o, IdsRemove
<1>3. id \in Ids(queue, "access")
  BY <1>0, <1>1 DEF Ids
<1>4. \A t \in Kinds : id \notin Handed(t)
  <2> SUFFICES ASSUME NEW t \in Kinds PROVE id \notin Range(history[t]) /\ id \notin lost[t]
    BY DEF Handed
  <2>1. id \notin Range(history[t])
    <3> SUFFICES ASSUME NEW i \in DOMAIN history[t], history[t][i] = id
                 PROVE  FALSE
      BY DEF Range
    <3>1. history[t][i] < id
      BY <1>0 DEF Ordered
    <3>2. history[t][i] \in Nat
      BY SMTT(40), <1>0 DEF TypeOK
    <3> QED
      BY <3>1, <3>2
  <2>2. id \notin lost[t]
    <3> SUFFICES ASSUME id \in lost[t] PROVE FALSE
      OBVIOUS
    <3>1. id < id
      BY <1>0 DEF IInv, LostOld
    <3>2. id \in Nat
      BY <1>0 DEF TypeOK
    <3> QED
      BY <3>1, <3>2
  <2> QED
    BY <2>1, <2>2
<1>5. \A t \in Kinds : id \notin InHand(t)
  <2> SUFFICES ASSUME NEW t \in Kinds, id \in InHand(t) PROVE FALSE
    OBVIOUS
  <2>1. InHands /\ writer.line = id
    BY DEF InHand, InHands
  <2>2. writer.line < id
    BY <1>0, <2>1 DEF Ordered
  <2>3. writer.line \in Nat
    BY <1>0 DEF TypeOK, Writer
  <2> QED
    BY <2>1, <2>2, <2>3
<1>6. id \notin Ids(queue, "error")
  <2> SUFFICES ASSUME NEW i \in DOMAIN queue, queue[i].kind = "error", queue[i].id = id
               PROVE  FALSE
    BY DEF Ids
  <2>1. i # p
    BY <1>1
  <2>2. i < p \/ p < i
    BY <1>0, <2>1
  <2>3. queue[i] \in Event /\ queue[p] \in Event /\ MaxEvents \in Nat
    BY <1>0, LogAssumption
  <2>4. queue[i].id \in Nat /\ queue[p].id \in Nat
    BY <2>3 DEF Event
  <2> QED
    BY <1>0, <1>o, <2>2, <2>4
<1> HIDE DEF id
<1>7. id \in Kept("access")
  BY <1>3 DEF Kept
<1>8. ASSUME NEW t \in Kinds
      PROVE  Handed(t) \cup Ids(q, t) \cup InHand(t)
               = IF t = "access" THEN Kept(t) \ {id} ELSE Kept(t)
  BY <1>2, <1>4, <1>5, <1>6, <1>8 DEF Kept, Kinds
<1> QED
  BY <1>7, <1>8

\* An eviction and a drop are two events dropped, one of them counted before.
LEMMA EvictedBalance ==
  ASSUME accepted["access"] \in Nat, accepted["error"] \in Nat,
         dropped["access"] \in Nat, dropped["error"] \in Nat,
         accepted["access"] + accepted["error"] + dropped["access"] + dropped["error"] = submitted
  PROVE  (accepted["access"] - 1) + accepted["error"] + (dropped["access"] + 1)
           + (dropped["error"] + 1) = submitted + 1
<1> DEFINE a == accepted["access"]
           b == accepted["error"]
           c == dropped["access"]
           d == dropped["error"]
<1>1. a \in Nat /\ b \in Nat /\ c \in Nat /\ d \in Nat /\ submitted = a + b + c + d
  OBVIOUS
<1> HIDE DEF a, b, c, d
<1>2. (a - 1) + b + (c + 1) + (d + 1) = (a + b + c + d) + 1
  BY <1>1
<1> QED
  BY <1>1, <1>2 DEF a, b, c, d

\* Every step keeps the counters exact.
LEMMA AccountingStep == IInv /\ [Next]_vars /\ TypeOK' => AccountingExact'
<1> SUFFICES ASSUME IInv, [Next]_vars, TypeOK' PROVE AccountingExact'
  OBVIOUS
<1>a. TypeOK /\ Control /\ Ordered /\ LostOld /\ AccountingExact
  BY DEF IInv
<1>b. /\ writer \in Writer /\ queue \in Seq(Event) /\ MaxEvents \in Nat
      /\ history \in [Kinds -> Seq(Nat)] /\ submitted \in Nat /\ submitted \in 0 .. MaxEvents
      /\ accepted \in [Kinds -> Nat] /\ dropped \in [Kinds -> Nat]
      /\ writer.kind \in Kinds /\ writer.line \in Nat
  <2>1. /\ MaxEvents \in Nat /\ submitted \in 0 .. MaxEvents
    BY <1>a, LogAssumption DEF TypeOK
  <2>2. submitted \in Nat
    BY <2>1
  <2>3. writer \in Writer
    BY <1>a DEF TypeOK
  <2>4. writer.kind \in Kinds /\ writer.line \in Nat
    BY <2>3 DEF Writer
  <2> QED
    BY <1>a, <2>1, <2>2, <2>3, <2>4 DEF TypeOK
<1>k. /\ "access" \in Kinds /\ "error" \in Kinds
      /\ \A k \in Kinds : k = "access" \/ k = "error"
  BY DEF Kinds
<1>c. /\ accepted["access"] \in Nat /\ accepted["error"] \in Nat
      /\ dropped["access"] \in Nat /\ dropped["error"] \in Nat
      /\ accepted["access"] + accepted["error"] + dropped["access"] + dropped["error"] = submitted
  BY <1>a, <1>b, <1>k DEF AccountingExact
<1>d. \A k \in Kinds : /\ Kept(k) \subseteq 1 .. submitted /\ IsFiniteSet(Kept(k))
                       /\ Cardinality(Kept(k)) \in Nat
  BY <1>a, KeptFinite
<1>s. ASSUME UNCHANGED << accepted, dropped, submitted >>, failed' = failed,
             \A k \in Kinds : Kept(k)' = Kept(k)
      PROVE  AccountingExact'
  BY <1>a, <1>s DEF AccountingExact
<1>1. ASSUME NEW k \in Kinds, Enqueue(k)
      PROVE  AccountingExact'
  <2>0. submitted' = submitted + 1 /\ submitted < MaxEvents
        /\ UNCHANGED << writer, history, lost, failed >>
    BY <1>1 DEF Enqueue
  <2>1. \A t \in Kinds : /\ InHand(t)' = InHand(t)
                         /\ Kept(t)' = Handed(t) \cup Ids(queue', t) \cup InHand(t)
    BY <2>0 DEF Kept, InHand, Handed
  <2>2. CASE Drop(k)
    <3>1. queue' = queue /\ accepted' = accepted /\ dropped' = Bump(dropped, k)
      BY <2>2 DEF Drop
    <3>2. \A t \in Kinds : Kept(t)' = Kept(t)
      BY <2>1, <3>1 DEF Kept
    <3>3. \A t \in Kinds : dropped'[t] = IF t = k THEN dropped[t] + 1 ELSE dropped[t]
      BY <1>b, <3>1 DEF Bump
    <3>4. accepted'["access"] + accepted'["error"] + dropped'["access"] + dropped'["error"]
            = submitted'
      <4>1. CASE k = "access"
        <5>1. dropped'["access"] = dropped["access"] + 1 /\ dropped'["error"] = dropped["error"]
          BY <1>k, <3>3, <4>1
        <5> QED
          BY <1>c, <2>0, <3>1, <5>1
      <4>2. CASE k = "error"
        <5>1. dropped'["access"] = dropped["access"] /\ dropped'["error"] = dropped["error"] + 1
          BY <1>k, <3>3, <4>2
        <5> QED
          BY <1>c, <2>0, <3>1, <5>1
      <4> QED
        BY <1>k, <4>1, <4>2
    <3> QED
      BY <1>a, <2>0, <3>1, <3>2, <3>4 DEF AccountingExact
  <2> DEFINE less == IF Evicting(k) THEN [accepted EXCEPT !["access"] = @ - 1] ELSE accepted
             more == IF Evicting(k) THEN Bump(dropped, "access") ELSE dropped
             ev == IF Evicting(k) THEN 1 ELSE 0
             \* What stays kept of kind t before the event is in.
             left(q, t) == Handed(t) \cup Ids(q, t) \cup InHand(t)
  <2>3. ASSUME ~TurnedAway(k)
        PROVE  /\ less \in [Kinds -> Nat] /\ more \in [Kinds -> Nat]
               /\ less["access"] = accepted["access"] - ev /\ less["error"] = accepted["error"]
               /\ more["access"] = dropped["access"] + ev /\ more["error"] = dropped["error"]
    <3>1. CASE Evicting(k)
      <4>1. accepted["access"] >= 1
        BY <2>3, <3>1, EvictedCounted
      <4>2. accepted["access"] - 1 \in Nat
        BY <1>c, <4>1
      <4>3. /\ less = [accepted EXCEPT !["access"] = accepted["access"] - 1]
            /\ more = [dropped EXCEPT !["access"] = dropped["access"] + 1] /\ ev = 1
        BY <3>1 DEF Bump
      <4> HIDE DEF less, more, ev
      <4>d. dropped["access"] + 1 \in Nat
        BY <1>c
      <4>l. less \in [Kinds -> Nat]
        BY <1>b, <4>2, <4>3
      <4>4. more \in [Kinds -> Nat]
        BY <1>b, <4>d, <4>3
      <4>5. /\ less["access"] = accepted["access"] - 1 /\ less["error"] = accepted["error"]
            /\ more["access"] = dropped["access"] + 1 /\ more["error"] = dropped["error"]
        BY <1>b, <1>k, <4>3
      <4> QED
        BY <4>3, <4>l, <4>4, <4>5
    <3>2. CASE ~Evicting(k)
      <4>1. less = accepted /\ more = dropped /\ ev = 0
        BY <3>2
      <4> HIDE DEF less, more, ev
      <4>2. accepted["access"] = accepted["access"] - 0 /\ dropped["access"] = dropped["access"] + 0
        BY <1>c
      <4> QED
        BY <1>b, <4>1, <4>2
    <3> QED
      BY <3>1, <3>2
  <2>4. ASSUME ~TurnedAway(k), NEW q \in RoomFor(k)
        PROVE  \A t \in Kinds : /\ left(q, t) \subseteq 1 .. submitted /\ IsFiniteSet(left(q, t))
                                /\ ~failed => less[t] = Cardinality(left(q, t))
    <3>0. ~failed => \A t \in Kinds : accepted[t] = Cardinality(Kept(t))
      BY <1>a DEF AccountingExact
    <3>1. CASE ~Evicting(k)
      <4>1. q = queue /\ less = accepted
        BY <1>a, <2>4, <3>1, RoomFacts
      <4>2. \A t \in Kinds : left(q, t) = Kept(t)
        BY <4>1 DEF Kept
      <4> QED
        BY <1>d, <3>0, <4>1, <4>2
    <3>2. CASE Evicting(k)
      <4>1. PICK id \in Kept("access") :
              \A t \in Kinds : left(q, t) = IF t = "access" THEN Kept(t) \ {id} ELSE Kept(t)
        BY <2>4, <3>2, KeptRoom
      <4>2. /\ IsFiniteSet(Kept("access") \ {id})
            /\ Cardinality(Kept("access") \ {id}) = Cardinality(Kept("access")) - 1
        BY <1>d, <1>k, FS_RemoveElement
      <4>3. /\ less["access"] = accepted["access"] - 1 /\ less["error"] = accepted["error"]
        BY <2>3, <2>4, <3>2
      <4> HIDE DEF left, less
      <4>4. left(q, "access") = Kept("access") \ {id} /\ left(q, "error") = Kept("error")
        BY <1>k, <4>1
      <4>5. /\ left(q, "access") \subseteq 1 .. submitted /\ IsFiniteSet(left(q, "access"))
            /\ ~failed => less["access"] = Cardinality(left(q, "access"))
        BY <1>d, <1>k, <3>0, <4>2, <4>3, <4>4
      <4>6. /\ left(q, "error") \subseteq 1 .. submitted /\ IsFiniteSet(left(q, "error"))
            /\ ~failed => less["error"] = Cardinality(left(q, "error"))
        BY <1>d, <1>k, <3>0, <4>3, <4>4
      <4> QED
        BY <1>k, <4>5, <4>6
    <3> QED
      BY <3>1, <3>2
  <2>5. CASE Accept(k)
    <3>0. ~TurnedAway(k) /\ accepted' = Bump(less, k) /\ dropped' = more
      BY <2>5 DEF Accept
    <3>1. PICK q \in RoomFor(k) : queue' = Append(q, [kind |-> k, id |-> submitted'])
      BY <2>5 DEF Accept
    <3> DEFINE e == [kind |-> k, id |-> submitted + 1]
    <3>2. e \in Event /\ e.kind = k /\ e.id = submitted + 1 /\ queue' = Append(q, e)
      BY <1>b, <2>0, <3>1 DEF Event
    <3>3. q \in Seq(Event)
      BY <1>a, <3>0, RoomFacts
    <3> HIDE DEF e
    <3>4. \A t \in Kinds : Ids(queue', t) = Ids(q, t) \cup (IF t = k THEN {submitted + 1} ELSE {})
      BY <3>2, <3>3, IdsAppend
    <3>5. \A t \in Kinds : Kept(t)' = left(q, t) \cup (IF t = k THEN {submitted + 1} ELSE {})
      BY <2>1, <3>4
    <3>6. \A t \in Kinds : accepted'[t] = IF t = k THEN less[t] + 1 ELSE less[t]
      BY <2>3, <3>0 DEF Bump
    <3>7. /\ less["access"] = accepted["access"] - ev /\ less["error"] = accepted["error"]
          /\ dropped'["access"] = dropped["access"] + ev /\ dropped'["error"] = dropped["error"]
          /\ ev \in {0, 1}
      BY <2>3, <3>0
    <3>l. \A t \in Kinds : /\ left(q, t) \subseteq 1 .. submitted /\ IsFiniteSet(left(q, t))
                           /\ ~failed => less[t] = Cardinality(left(q, t))
      BY <2>4, <3>0
    <3> HIDE DEF less, more, ev, left
    <3>8. accepted'["access"] + accepted'["error"] + dropped'["access"] + dropped'["error"]
            = submitted'
      <4>1. CASE k = "access"
        <5>1. accepted'["access"] = less["access"] + 1 /\ accepted'["error"] = less["error"]
          BY <1>k, <3>6, <4>1
        <5> QED
          BY <1>c, <2>0, <3>7, <5>1
      <4>2. CASE k = "error"
        <5>1. accepted'["access"] = less["access"] /\ accepted'["error"] = less["error"] + 1
          BY <1>k, <3>6, <4>2
        <5> QED
          BY <1>c, <2>0, <3>7, <5>1
      <4> QED
        BY <1>k, <4>1, <4>2
    <3>9. ASSUME NEW t \in Kinds, ~failed'
          PROVE  accepted'[t] = Cardinality(Kept(t)')
      <4>0. ~failed
        BY <2>0, <3>9
      <4>1. CASE t = k
        <5>1. submitted + 1 \notin left(q, t)
          BY <1>b, <3>l
        <5>2. Cardinality(left(q, t) \cup {submitted + 1}) = Cardinality(left(q, t)) + 1
          BY <3>l, <5>1, FS_AddElement
        <5> QED
          BY <3>5, <3>6, <3>l, <4>0, <4>1, <5>2
      <4>2. CASE t # k
        <5>1. Kept(t)' = left(q, t)
          BY <3>5, <4>2
        <5> QED
          BY <3>6, <3>l, <4>0, <4>2, <5>1
      <4> QED
        BY <4>1, <4>2
    <3> QED
      BY <3>8, <3>9 DEF AccountingExact
  <2>6. CASE AllocationFails(k)
    <3>0. ~TurnedAway(k) /\ accepted' = less /\ dropped' = Bump(more, k)
      BY <2>6 DEF AllocationFails
    <3>1. PICK q \in RoomFor(k) : queue' = q
      BY <2>6 DEF AllocationFails
    <3>2. \A t \in Kinds : Kept(t)' = left(q, t)
      BY <2>1, <3>1
    <3>6. \A t \in Kinds : dropped'[t] = IF t = k THEN more[t] + 1 ELSE more[t]
      BY <2>3, <3>0 DEF Bump
    <3>7. /\ accepted'["access"] = accepted["access"] - ev /\ accepted'["error"] = accepted["error"]
          /\ more["access"] = dropped["access"] + ev /\ more["error"] = dropped["error"]
          /\ ev \in {0, 1}
      BY <2>3, <3>0
    <3>l. ~failed => \A t \in Kinds : less[t] = Cardinality(left(q, t))
      BY <2>4, <3>0
    <3> HIDE DEF less, more, ev, left
    <3>8. accepted'["access"] + accepted'["error"] + dropped'["access"] + dropped'["error"]
            = submitted'
      <4>1. CASE k = "access"
        <5>1. dropped'["access"] = more["access"] + 1 /\ dropped'["error"] = more["error"]
          BY <1>k, <3>6, <4>1
        <5> QED
          BY <1>c, <2>0, <3>7, <5>1
      <4>2. CASE k = "error"
        <5>1. dropped'["access"] = more["access"] /\ dropped'["error"] = more["error"] + 1
          BY <1>k, <3>6, <4>2
        <5>2. dropped'["access"] = dropped["access"] + ev /\ dropped'["error"] = dropped["error"] + 1
          BY <3>7, <5>1
        <5>3. CASE ev = 0
          BY <1>c, <2>0, <3>7, <5>2, <5>3
        <5>4. CASE ev = 1
          <6>1. /\ accepted'["access"] = accepted["access"] - 1
                /\ accepted'["error"] = accepted["error"]
                /\ dropped'["access"] = dropped["access"] + 1
                /\ dropped'["error"] = dropped["error"] + 1
            BY <3>7, <5>2, <5>4
          <6>3. (accepted["access"] - 1) + accepted["error"] + (dropped["access"] + 1)
                  + (dropped["error"] + 1) = submitted + 1
            BY <1>c, EvictedBalance
          <6> QED
            BY <2>0, <6>1, <6>3
        <5> QED
          BY <3>7, <5>3, <5>4
      <4> QED
        BY <1>k, <4>1, <4>2
    <3>9. ~failed' => \A t \in Kinds : accepted'[t] = Cardinality(Kept(t)')
      BY <2>0, <3>0, <3>2, <3>l
    <3> QED
      BY <3>8, <3>9 DEF AccountingExact
  <2> QED
    BY <1>1, <2>2, <2>5, <2>6 DEF Enqueue
<1>2. ASSUME UNCHANGED << queue, history, lost, accepted, dropped, submitted, failed >>,
             \A k \in Kinds : InHand(k)' = InHand(k)
      PROVE  AccountingExact'
  <2>1. \A k \in Kinds : Kept(k)' = Kept(k)
    BY <1>2 DEF Kept, Handed
  <2> QED
    BY <1>2, <1>s, <2>1
<1>3. CASE NotifyReady
  <2>1. UNCHANGED << queue, history, lost, accepted, dropped, submitted, failed >>
    BY <1>3 DEF NotifyReady
  <2>2. \A k \in Kinds : InHand(k)' = InHand(k)
    BY <1>3, <1>b DEF NotifyReady, Writer, InHand
  <2> QED
    BY <1>2, <2>1, <2>2
<1>4. CASE WriterTop
  <2>0. UNCHANGED << history, lost, accepted, dropped, submitted, failed >> /\ writer.pc = "top"
    BY <1>4 DEF WriterTop, UnchangedCounters
  <2>1. CASE queue = << >>
    <3>1. writer'.pc \in {"waiting", "summary"} /\ queue' = queue
      BY <1>4, <1>b, <2>1 DEF WriterTop, Writer
    <3>2. \A k \in Kinds : InHand(k)' = InHand(k)
      BY <2>0, <3>1 DEF InHand
    <3> QED
      BY <1>2, <2>0, <3>1, <3>2
  <2>2. CASE queue # << >>
    <3>1. /\ queue' = Tail(queue) /\ writer'.pc = "write"
          /\ writer'.line = Head(queue).id /\ writer'.kind = Head(queue).kind
      BY <1>4, <1>b, <2>2 DEF WriterTop, Writer
    <3>2. Head(queue) \in Event
      BY <1>b, <2>2
    <3>3. Head(queue).id # 0
      BY <1>b, <3>2 DEF Event
    <3>4. ASSUME NEW k \in Kinds PROVE Kept(k)' = Kept(k)
      <4>1. InHand(k) = {} /\ InHand(k)' = IF Head(queue).kind = k THEN {Head(queue).id} ELSE {}
        BY <2>0, <3>1, <3>3 DEF InHand
      <4>2. Ids(queue, k) = Ids(queue', k) \cup (IF Head(queue).kind = k THEN {Head(queue).id} ELSE {})
        BY <1>b, <2>2, <3>1, IdsTail
      <4>3. Kept(k)' = Handed(k) \cup Ids(queue', k) \cup InHand(k)'
        BY <2>0 DEF Kept, Handed
      <4> QED
        BY <4>1, <4>2, <4>3 DEF Kept
    <3> QED
      BY <1>s, <2>0, <3>4
  <2> QED
    BY <2>1, <2>2
<1>5. CASE WriteLine
  <2>0. UNCHANGED << queue, accepted, dropped, submitted, failed >> /\ writer.pc = "write"
    BY <1>5 DEF WriteLine, UnchangedCounters
  <2>1. /\ history' = [history EXCEPT ![writer.kind] = Append(@, writer.line)]
        /\ writer'.pc \in {"check", "flush"} /\ lost' = lost
    BY <1>5, <1>b DEF WriteLine, Writer
  <2>2. ASSUME NEW k \in Kinds PROVE Kept(k)' = Kept(k)
    <3>1. InHand(k)' = {} /\ InHand(k) = IF writer.kind = k THEN {writer.line} \ {0} ELSE {}
      BY <2>0, <2>1 DEF InHand
    <3>2. Range(history'[k]) = Range(history[k]) \cup (IF writer.kind = k THEN {writer.line} ELSE {})
      <4>1. CASE k = writer.kind
        <5> DEFINE h == history[k]
                   g == Append(h, writer.line)
        <5>1. history'[k] = g /\ h \in Seq(Nat)
          BY <1>b, <2>1, <4>1
        <5>2. /\ DOMAIN h = 1 .. Len(h) /\ DOMAIN g = 1 .. (Len(h) + 1) /\ Len(h) \in Nat
              /\ \A i \in 1 .. Len(h) : g[i] = h[i]
              /\ g[Len(h) + 1] = writer.line
          BY <1>b, <5>1
        <5>3. \A i \in DOMAIN g : i \in DOMAIN h \/ i = Len(h) + 1
          BY <5>2
        <5>4. Len(h) + 1 \in DOMAIN g /\ \A i \in DOMAIN h : i \in DOMAIN g
          BY <5>2
        <5> HIDE DEF h, g
        <5>5. Range(g) = Range(h) \cup {writer.line}
          BY <5>2, <5>3, <5>4 DEF Range
        <5> QED
          BY <4>1, <5>1, <5>5 DEF h
      <4>2. CASE k # writer.kind
        BY <1>b, <2>1, <4>2
      <4> QED
        BY <4>1, <4>2
    <3>3. Kept(k)' = ((Range(history'[k]) \cup lost[k]) \ {0}) \cup Ids(queue, k) \cup InHand(k)'
      BY <2>0, <2>1 DEF Kept, Handed
    <3> QED
      BY <3>1, <3>2, <3>3 DEF Kept, Handed
  <2> QED
    BY <1>s, <2>0, <2>2
\* The lines that a close() loses were handed to the file.
<1>12. CASE CloseStream
  <2>0. /\ UNCHANGED << queue, accepted, dropped, submitted, failed >> /\ writer.pc = "write"
        /\ writer' = [writer EXCEPT !.pc = "rotate", !.index = RotatedFileCount + 1]
    BY <1>12 DEF CloseStream
  <2>1. writer'.line = writer.line /\ writer'.kind = writer.kind /\ writer'.pc = "rotate"
    BY <1>b, <2>0 DEF Writer
  <2>2. PICK n \in 0 .. file[writer.kind].unflushed :
          /\ history' = [history EXCEPT ![writer.kind] = WithoutLast(@, n)]
          /\ lost' = [lost EXCEPT ![writer.kind] = @ \cup LastOf(history[writer.kind], n)]
    BY <1>12 DEF CloseStream
  <2>3. ASSUME NEW k \in Kinds PROVE Kept(k)' = Kept(k)
    <3>1. InHand(k)' = InHand(k)
      BY <2>0, <2>1 DEF InHand
    <3>2. Handed(k)' = Handed(k)
      <4>1. CASE k # writer.kind
        <5>1. history'[k] = history[k] /\ lost'[k] = lost[k]
          BY <1>a, <1>b, <2>2, <4>1 DEF TypeOK
        <5> QED
          BY <5>1 DEF Handed
      <4>2. CASE k = writer.kind
        <5>1. /\ history'[k] = WithoutLast(history[k], n)
              /\ lost'[k] = lost[k] \cup LastOf(history[k], n)
          BY <1>a, <1>b, <2>2, <4>2 DEF TypeOK
        <5> DEFINE h == history[k]
                   g == WithoutLast(h, n)
        <5>2. h \in Seq(Nat) /\ file[k] \in File /\ file[k].unflushed <= Len(h)
          BY <1>a, <1>b DEF TypeOK, IInv, Buffered
        <5>3. n \in Nat /\ n <= Len(h) /\ Len(h) \in Nat
          BY <4>2, <5>2 DEF File
        <5> HIDE DEF h, g
        <5>4. /\ g \in Seq(Nat) /\ Len(g) = Len(h) - n
              /\ \A j \in 1 .. (Len(h) - n) : g[j] = h[j]
          BY <5>2, <5>3, Shortened DEF g
        <5>5. DOMAIN h = 1 .. Len(h) /\ DOMAIN g = 1 .. (Len(h) - n)
          BY <5>2, <5>4
        <5>6. \A j \in DOMAIN h : j \in DOMAIN g \/ j \in (Len(h) - n + 1) .. Len(h)
          BY <5>3, <5>5
        <5>7. /\ \A j \in DOMAIN g : j \in DOMAIN h
              /\ \A j \in (Len(h) - n + 1) .. Len(h) : j \in DOMAIN h
          BY <5>3, <5>5
        <5>8. \A j \in DOMAIN g : g[j] = h[j]
          BY <5>4, <5>5
        <5>9. Range(h) = Range(g) \cup LastOf(h, n)
          <6>1. Range(h) \subseteq Range(g) \cup LastOf(h, n)
            BY <5>6, <5>8 DEF Range, LastOf
          <6>2. Range(g) \cup LastOf(h, n) \subseteq Range(h)
            BY <5>7, <5>8 DEF Range, LastOf
          <6> QED
            BY <6>1, <6>2
        <5>10. Handed(k) = (Range(h) \cup lost[k]) \ {0}
          BY DEF Handed, h
        <5>11. Handed(k)' = (Range(g) \cup (lost[k] \cup LastOf(h, n))) \ {0}
          BY <5>1 DEF Handed, g, h
        <5> QED
          BY <5>9, <5>10, <5>11
      <4> QED
        BY <4>1, <4>2
    <3> QED
      BY <2>0, <3>1, <3>2 DEF Kept
  <2> QED
    BY <1>s, <2>0, <2>3
<1>6. CASE Rotate
  <2>1. UNCHANGED << queue, history, lost, accepted, dropped, submitted, failed >>
    BY <1>6 DEF Rotate, UnchangedCounters
  <2>2. /\ writer'.line = writer.line /\ writer'.kind = writer.kind
        /\ writer'.pc \in {"write", "rotate"} /\ writer.pc = "rotate"
    BY <1>6, <1>b DEF Rotate, Writer
  <2>3. \A k \in Kinds : InHand(k)' = InHand(k)
    BY <2>2 DEF InHand
  <2> QED
    BY <1>2, <2>1, <2>3
<1>7. CASE CheckEmpty \/ FlushStreams \/ ReleaseWriter \/ \E k \in Kinds : FlushFails(k)
  <2>1. UNCHANGED << queue, history, lost, accepted, dropped, submitted, failed >>
    BY <1>7 DEF CheckEmpty, FlushStreams, ReleaseWriter, FlushFails, UnchangedCounters
  <2>2. writer.pc \in {"check", "flush", "release"}
        /\ writer'.pc \in {"summary", "release", "exited", "top", "flush"}
    BY <1>7, <1>b DEF CheckEmpty, FlushStreams, ReleaseWriter, FlushFails, Writer
  <2>3. \A k \in Kinds : InHand(k)' = InHand(k)
    BY <2>2 DEF InHand
  <2> QED
    BY <1>2, <2>1, <2>3
<1>8. CASE WriteDropSummary
  <2>1. UNCHANGED << queue, history, lost, accepted, dropped, submitted, failed >>
        /\ writer.pc = "summary"
    BY <1>8 DEF WriteDropSummary, UnchangedCounters
  <2>2. writer'.pc = "flush" \/ writer'.line = 0
    BY <1>8, <1>b DEF WriteDropSummary, Writer
  <2>3. \A k \in Kinds : InHand(k)' = InHand(k)
    BY <2>1, <2>2 DEF InHand
  <2> QED
    BY <1>2, <2>1, <2>3
<1>9. CASE WriterFails \/ WriteToBadStream
  <2>1. failed' = TRUE /\ UNCHANGED << accepted, dropped, submitted >>
    BY <1>9 DEF WriterFails, WriteToBadStream, Dies
  <2> QED
    BY <1>a, <2>1 DEF AccountingExact
<1>10. CASE Destroy
  <2>1. UNCHANGED << queue, history, lost, accepted, dropped, submitted, failed >>
    BY <1>10 DEF Destroy, UnchangedCounters
  <2>2. \A k \in Kinds : InHand(k)' = InHand(k)
    BY <1>10, <1>b DEF Destroy, Writer, InHand
  <2> QED
    BY <1>2, <2>1, <2>2
<1>11. CASE UNCHANGED vars \/ UnchangedForReaders
  <2>1. UNCHANGED << queue, history, lost, accepted, dropped, submitted, failed, writer >>
    BY <1>11 DEF vars, UnchangedForReaders
  <2> QED
    BY <1>2, <2>1 DEF InHand
<1> QED
  BY <1>1, <1>3, <1>4, <1>5, <1>6, <1>7, <1>8, <1>9, <1>10, <1>11, <1>12
     DEF Next, WriterStep, Flush, CallFlush

-----------------------------------------------------------------------------
(* Rotation.  A cut of the history into files witnesses FilesInOrder; the  *)
(* invariant says how far apart the places are where it is cut.            *)

\* Number i begins after i - 1 full files.
Settled(cut) ==
  \A i \in 1 .. (RotatedFileCount + 1) :
    cut[i] > 0 => cut[1] - cut[i] >= (i - 1) * MaxFileLines

\* The same while rotate() is about to make number ix: the files above it have moved
\* up already.
Moving(h, cut, ix) ==
  /\ Len(h) - cut[1] >= MaxFileLines
  /\ \A i \in 1 .. (RotatedFileCount + 1) :
       cut[i] > 0 => (IF i > ix THEN Len(h) ELSE cut[1]) - cut[i] >= (i - 1) * MaxFileLines

\* Number ix, which rotate() is about to make, is empty.
Vacated(f, ix) == ix <= RotatedFileCount => f.rotated[ix] = << >>

\* The current file is the newest.
Newest(cut) == \A i \in 1 .. (RotatedFileCount + 1) : cut[i] <= cut[1]

Rotating(k) == writer.pc = "rotate" /\ writer.kind = k

\* Lost lines shorten a file: how far apart the cuts are is said only without them.
CutWell(k, cut) ==
  /\ Pieces(history[k], file[k], cut)
  /\ Newest(cut)
  /\ Rotating(k) => Vacated(file[k], writer.index)
  /\ lost[k] = {} =>
       /\ LongEnough(history[k], cut)
       /\ ~Rotating(k) /\ writer.pc # "exited" => Settled(cut)
       /\ Rotating(k) => Moving(history[k], cut, writer.index)

CutSound == \A k \in Kinds : \E cut \in Cuts(history[k]) : CutWell(k, cut)

\* One more full file.
LEMMA OneMoreFile ==
  ASSUME NEW i \in Nat, i >= 1
  PROVE  /\ (i - 1) * MaxFileLines + MaxFileLines = i * MaxFileLines
         /\ i * MaxFileLines \in Nat /\ (i - 1) * MaxFileLines \in Nat
<1>1. MaxFileLines \in Nat
  BY LogAssumption
<1> QED
  BY <1>1

\* The places where a history is cut are numbers of its lines.
LEMMA CutType ==
  ASSUME NEW h \in Seq(Nat), NEW cut \in Cuts(h), NEW i \in 0 .. (RotatedFileCount + 1)
  PROVE  Cut(h, cut, i) \in Nat /\ Cut(h, cut, i) <= Len(h)
<1>0. RotatedFileCount \in Nat /\ Len(h) \in Nat
  BY LogAssumption
<1>1. CASE i = 0
  BY <1>0, <1>1 DEF Cut
<1>2. CASE i # 0
  <2>1. i \in 1 .. (RotatedFileCount + 1)
    BY <1>0, <1>2
  <2>2. cut[i] \in 0 .. Len(h)
    BY <2>1 DEF Cuts
  <2> QED
    BY <1>0, <1>2, <2>2 DEF Cut
<1> QED
  BY <1>1, <1>2

\* A piece of a history is empty exactly when it is cut twice at the same place.
LEMMA EmptyPiece ==
  ASSUME NEW h \in Seq(Nat), NEW a \in Nat, NEW b \in Nat, a <= b, b <= Len(h)
  PROVE  SubSeq(h, a + 1, b) = << >> <=> a = b
<1>1. Len(h) \in Nat
  OBVIOUS
<1>2. CASE a = b
  BY <1>1, <1>2
<1>3. CASE a < b
  <2>1. Len(SubSeq(h, a + 1, b)) = b - a
    BY <1>1, <1>3
  <2>2. b - a # 0 /\ a # b
    BY <1>3
  <2>3. SubSeq(h, a + 1, b) # << >>
    BY <2>1, <2>2
  <2> QED
    BY <2>2, <2>3
<1> QED
  BY <1>2, <1>3

\* A piece of a history, line by line.
LEMMA PieceFacts ==
  ASSUME NEW h \in Seq(Nat), NEW a \in Nat, NEW b \in Nat, a <= b, b <= Len(h)
  PROVE  /\ SubSeq(h, a + 1, b) \in Seq(Nat)
         /\ Len(SubSeq(h, a + 1, b)) = b - a
         /\ \A j \in 1 .. (b - a) : SubSeq(h, a + 1, b)[j] = h[a + j]
<1>1. Len(h) \in Nat
  OBVIOUS
<1>2. CASE a = b
  <2>1. SubSeq(h, a + 1, b) = << >> /\ b - a = 0
    BY <1>1, <1>2
  <2> QED
    BY <2>1
<1>3. CASE a < b
  <2>1. SubSeq(h, a + 1, b) \in Seq(Nat)
    BY <1>1, <1>3
  <2>2. Len(SubSeq(h, a + 1, b)) = b - a
    BY <1>1, <1>3
  <2>3. ASSUME NEW j \in 1 .. (b - a) PROVE SubSeq(h, a + 1, b)[j] = h[a + j]
    <3>1. (a + 1) + j - 1 = a + j
      BY <1>1
    <3>2. SubSeq(h, a + 1, b)[j] = h[(a + 1) + j - 1]
      BY <1>1, <1>3
    <3> QED
      BY <3>1, <3>2
  <2> QED
    BY <2>1, <2>2, <2>3
<1> QED
  BY <1>2, <1>3

\* A line appended to a sequence.
LEMMA AppendFacts ==
  ASSUME NEW h \in Seq(Nat), NEW x \in Nat
  PROVE  /\ Append(h, x) \in Seq(Nat) /\ Len(h) \in Nat /\ Len(Append(h, x)) = Len(h) + 1
         /\ \A j \in 1 .. Len(h) : Append(h, x)[j] = h[j]
         /\ Append(h, x)[Len(h) + 1] = x
OBVIOUS

\* The newest piece of a history grows by the line that is written.
LEMMA PieceGrows ==
  ASSUME NEW h \in Seq(Nat), NEW x \in Nat, NEW a \in Nat, a <= Len(h)
  PROVE  Append(SubSeq(h, a + 1, Len(h)), x) = SubSeq(Append(h, x), a + 1, Len(h) + 1)
<1> DEFINE g == Append(h, x)
           u == SubSeq(h, a + 1, Len(h))
           v == SubSeq(g, a + 1, Len(h) + 1)
           w == Append(u, x)
           n == Len(h)
<1>1. /\ g \in Seq(Nat) /\ n \in Nat /\ Len(g) = n + 1
      /\ \A j \in 1 .. n : g[j] = h[j]
      /\ g[n + 1] = x
  BY AppendFacts
<1>2. u \in Seq(Nat) /\ Len(u) = n - a /\ \A j \in 1 .. (n - a) : u[j] = h[a + j]
  BY <1>1, PieceFacts
<1> HIDE DEF g, u
<1>3. v \in Seq(Nat) /\ Len(v) = (n + 1) - a /\ \A j \in 1 .. ((n + 1) - a) : v[j] = g[a + j]
  <2>1. a <= n + 1 /\ n + 1 <= Len(g) /\ n + 1 \in Nat
    BY <1>1
  <2> QED
    BY <1>1, <2>1, PieceFacts
<1>4. /\ w \in Seq(Nat) /\ Len(w) = Len(u) + 1
      /\ \A j \in 1 .. Len(u) : w[j] = u[j]
      /\ w[Len(u) + 1] = x
  BY <1>2, AppendFacts
<1> HIDE DEF v, w, n
<1>n. a <= n
  BY DEF n
<1>5. Len(w) = Len(v)
  BY <1>1, <1>2, <1>3, <1>4, <1>n
<1>6. ASSUME NEW j \in 1 .. Len(w) PROVE w[j] = v[j]
  <2>0. j \in Nat /\ j >= 1 /\ j <= (n - a) + 1 /\ j \in 1 .. ((n + 1) - a)
    BY <1>1, <1>2, <1>4, <1>n
  <2>1. CASE j <= n - a
    <3>1. j \in 1 .. (n - a) /\ a + j \in 1 .. n
      BY <1>1, <1>n, <2>0, <2>1
    <3>2. w[j] = h[a + j]
      BY <1>2, <1>4, <3>1
    <3> QED
      BY <1>1, <1>3, <2>0, <3>1, <3>2
  <2>2. CASE ~(j <= n - a)
    <3>1. j = Len(u) + 1 /\ a + j = n + 1
      BY <1>1, <1>2, <1>n, <2>0, <2>2
    <3> QED
      BY <1>1, <1>3, <1>4, <2>0, <3>1
  <2> QED
    BY <2>1, <2>2
<1>7. w = v
  BY <1>3, <1>4, <1>5, <1>6, SeqEqual
<1> QED
  BY <1>7 DEF w, v, u, g, n

\* An older piece stays as it is.
LEMMA PieceStays ==
  ASSUME NEW h \in Seq(Nat), NEW x \in Nat, NEW a \in Nat, NEW b \in Nat, a <= b, b <= Len(h)
  PROVE  SubSeq(Append(h, x), a + 1, b) = SubSeq(h, a + 1, b)
<1> DEFINE g == Append(h, x)
           u == SubSeq(h, a + 1, b)
           v == SubSeq(g, a + 1, b)
<1>1. /\ g \in Seq(Nat) /\ Len(h) \in Nat /\ Len(g) = Len(h) + 1
      /\ \A j \in 1 .. Len(h) : g[j] = h[j]
  BY AppendFacts
<1>2. u \in Seq(Nat) /\ Len(u) = b - a /\ \A j \in 1 .. (b - a) : u[j] = h[a + j]
  BY PieceFacts
<1> HIDE DEF g, u
<1>3. v \in Seq(Nat) /\ Len(v) = b - a /\ \A j \in 1 .. (b - a) : v[j] = g[a + j]
  <2>1. b <= Len(g)
    BY <1>1
  <2> QED
    BY <1>1, <2>1, PieceFacts
<1> HIDE DEF v
<1>4. ASSUME NEW j \in 1 .. Len(v) PROVE v[j] = u[j]
  <2>1. j \in 1 .. (b - a) /\ a + j \in 1 .. Len(h)
    BY <1>1, <1>3
  <2> QED
    BY <1>1, <1>2, <1>3, <2>1
<1>5. v = u
  BY <1>2, <1>3, <1>4, SeqEqual
<1> QED
  BY <1>5 DEF u, v, g

\* The files of a history, each by itself.
LEMMA PieceAt ==
  ASSUME NEW h \in Seq(Nat), NEW f \in File, NEW cut \in Cuts(h), Pieces(h, f, cut),
         NEW i \in 0 .. RotatedFileCount
  PROVE  /\ Cut(h, cut, i + 1) \in Nat /\ Cut(h, cut, i) \in Nat
         /\ Cut(h, cut, i + 1) <= Cut(h, cut, i) /\ Cut(h, cut, i) <= Len(h)
         /\ FileNumber(f, i) = SubSeq(h, Cut(h, cut, i + 1) + 1, Cut(h, cut, i))
<1>0. RotatedFileCount \in Nat
  BY LogAssumption
<1>1. i \in 0 .. (RotatedFileCount + 1) /\ i + 1 \in 0 .. (RotatedFileCount + 1)
  BY <1>0
<1>2. /\ Cut(h, cut, i + 1) \in Nat /\ Cut(h, cut, i) \in Nat /\ Cut(h, cut, i) <= Len(h)
  BY <1>1, CutType
<1> QED
  BY <1>2 DEF Pieces

\* Writing a line lengthens the history and the current file by it.
LEMMA WrittenPieces ==
  ASSUME NEW h \in Seq(Nat), NEW f \in File, NEW cut \in Cuts(h), Pieces(h, f, cut),
         NEW x \in Nat
  PROVE  cut \in Cuts(Append(h, x)) /\ Pieces(Append(h, x), Written(f, x), cut)
<1> DEFINE g == Append(h, x)
<1>0. RotatedFileCount \in Nat /\ Len(h) \in Nat
  BY LogAssumption
<1>1. /\ g \in Seq(Nat) /\ Len(g) = Len(h) + 1
      /\ \A j \in 1 .. Len(h) : g[j] = h[j]
      /\ g[Len(h) + 1] = x
  OBVIOUS
<1> HIDE DEF g
<1>2. cut \in Cuts(g)
  <2>1. \A j \in 1 .. (RotatedFileCount + 1) : cut[j] \in 0 .. Len(g)
    BY <1>0, <1>1 DEF Cuts
  <2> QED
    BY <2>1 DEF Cuts
<1>3. f.current \in Seq(Nat)
  BY DEF File
<1>4. /\ Written(f, x).current = Append(f.current, x)
      /\ Written(f, x).rotated = f.rotated
  BY DEF Written, File
<1>5. ASSUME NEW i \in 0 .. RotatedFileCount
      PROVE  /\ Cut(g, cut, i + 1) <= Cut(g, cut, i)
             /\ FileNumber(Written(f, x), i) = SubSeq(g, Cut(g, cut, i + 1) + 1, Cut(g, cut, i))
  <2> DEFINE a == Cut(h, cut, i + 1)
             b == Cut(h, cut, i)
  <2>1. /\ a \in Nat /\ b \in Nat /\ a <= b /\ b <= Len(h)
        /\ FileNumber(f, i) = SubSeq(h, a + 1, b)
    BY PieceAt
  <2>2. Cut(g, cut, i + 1) = a
    BY <1>0 DEF Cut
  <2>3. CASE i = 0
    <3>1. b = Len(h) /\ Cut(g, cut, i) = Len(h) + 1 /\ f.current = SubSeq(h, a + 1, b)
      BY <1>1, <2>1, <2>3 DEF Cut, FileNumber
    <3>2. FileNumber(Written(f, x), i) = Append(SubSeq(h, a + 1, b), x)
      BY <1>4, <2>3, <3>1 DEF FileNumber
    <3> HIDE DEF a, b
    <3>3. Append(SubSeq(h, a + 1, Len(h)), x) = SubSeq(g, a + 1, Len(h) + 1)
      BY <2>1, <3>1, PieceGrows DEF g
    <3>4. a <= Len(h) + 1
      BY <1>0, <2>1, <3>1
    <3> QED
      BY <2>2, <3>1, <3>2, <3>3, <3>4
  <2>4. CASE i # 0
    <3>1. Cut(g, cut, i) = b
      BY <2>4 DEF Cut
    <3>2. FileNumber(Written(f, x), i) = FileNumber(f, i)
      BY <1>4, <2>4 DEF FileNumber
    <3> HIDE DEF a, b
    <3>3. SubSeq(g, a + 1, b) = SubSeq(h, a + 1, b)
      BY <2>1, PieceStays DEF g
    <3> QED
      BY <2>1, <2>2, <3>1, <3>2, <3>3
  <2> QED
    BY <2>3, <2>4
<1> QED
  BY <1>2, <1>5 DEF Pieces, g

\* One call of rotate() makes number ix of number ix - 1.
LEMMA MovedFile ==
  ASSUME NEW f \in File, NEW ix \in 1 .. (RotatedFileCount + 1),
         ix <= RotatedFileCount => f.rotated[ix] = << >>,
         NEW i \in 0 .. RotatedFileCount
  PROVE  FileNumber(Moved(f, ix), i) =
           IF i = ix - 1 THEN << >>
           ELSE IF i = ix THEN FileNumber(f, ix - 1) ELSE FileNumber(f, i)
<1>0. RotatedFileCount \in Nat /\ RotatedFileCount >= 1
  BY LogAssumption
<1>1. f.rotated \in [1 .. RotatedFileCount -> Seq(Nat)] /\ f.current \in Seq(Nat)
  BY DEF File
<1> DEFINE m == Moved(f, ix)
<1>2. CASE ix > RotatedFileCount
  <2>1. ix = RotatedFileCount + 1 /\ ix - 1 = RotatedFileCount /\ ix - 1 \in 1 .. RotatedFileCount
    BY <1>0, <1>2
  <2>2. /\ m.current = f.current
        /\ m.rotated = [f.rotated EXCEPT ![RotatedFileCount] = << >>]
    BY <1>2 DEF Moved, File
  <2> HIDE DEF m
  <2>3. CASE i = 0
    <3>1. ix - 1 # 0 /\ ix # 0
      BY <1>0, <2>1
    <3> QED
      BY <2>2, <2>3, <3>1 DEF FileNumber, m
  <2>4. CASE i # 0
    <3>1. i \in 1 .. RotatedFileCount /\ i # ix
      BY <1>0, <2>1, <2>4
    <3>2. m.rotated[i] = IF i = RotatedFileCount THEN << >> ELSE f.rotated[i]
      BY <1>1, <2>2, <3>1
    <3> QED
      BY <2>1, <2>4, <3>1, <3>2 DEF FileNumber, m
  <2> QED
    BY <2>3, <2>4 DEF m
<1>3. CASE ix = 1
  <2>1. m = MoveCurrent(f)
    BY <1>0, <1>3 DEF Moved
  <2>2. m.current = << >> /\ m.rotated = [f.rotated EXCEPT ![1] = f.current]
    BY <2>1 DEF MoveCurrent, File
  <2> HIDE DEF m
  <2>3. CASE i = 0
    BY <1>3, <2>2, <2>3 DEF FileNumber, m
  <2>4. CASE i # 0
    <3>1. i \in 1 .. RotatedFileCount
      BY <1>0, <2>4
    <3>2. m.rotated[i] = IF i = 1 THEN f.current ELSE f.rotated[i]
      BY <1>1, <2>2, <3>1
    <3> QED
      BY <1>3, <2>4, <3>2 DEF FileNumber, m
  <2> QED
    BY <2>3, <2>4
<1>4. CASE 1 < ix /\ ix <= RotatedFileCount
  <2>1. /\ ix \in 1 .. RotatedFileCount /\ ix - 1 \in 1 .. RotatedFileCount
        /\ ix - 1 # ix /\ ix - 1 # 0 /\ ix # 0 /\ ~(ix > RotatedFileCount) /\ ix # 1
    BY <1>0, <1>4
  <2>2. /\ m.current = f.current /\ m.rotated \in [1 .. RotatedFileCount -> Seq(Nat)]
        /\ m.rotated[ix] = f.rotated[ix - 1] /\ m.rotated[ix - 1] = << >>
        /\ \A j \in 1 .. RotatedFileCount : j # ix /\ j # ix - 1 => m.rotated[j] = f.rotated[j]
    <3>1. CASE f.rotated[ix - 1] = << >>
      <4>1. m = f
        BY <2>1, <3>1 DEF Moved
      <4> QED
        BY <1>1, <1>4, <3>1, <4>1
    <3>2. CASE f.rotated[ix - 1] # << >>
      <4>1. m = MoveUp(f, ix)
        BY <2>1, <3>2 DEF Moved
      <4>2. /\ m.current = f.current
            /\ m.rotated = [f.rotated EXCEPT ![ix] = f.rotated[ix - 1], ![ix - 1] = << >>]
        BY <4>1 DEF MoveUp, File
      <4> HIDE DEF m
      <4> QED
        <5>0. \A j \in 1 .. RotatedFileCount : f.rotated[j] \in Seq(Nat)
          BY <1>1
        <5>1. f.rotated[ix - 1] \in Seq(Nat) /\ << >> \in Seq(Nat)
          BY <2>1, <5>0
        <5>2. m.rotated \in [1 .. RotatedFileCount -> Seq(Nat)]
          BY <1>1, <4>2, <5>1
        <5>3. /\ m.rotated[ix] = f.rotated[ix - 1] /\ m.rotated[ix - 1] = << >>
              /\ \A j \in 1 .. RotatedFileCount :
                   j # ix /\ j # ix - 1 => m.rotated[j] = f.rotated[j]
          BY <1>1, <2>1, <4>2
        <5> QED
          BY <4>2, <5>2, <5>3
    <3> QED
      BY <3>1, <3>2
  <2> HIDE DEF m
  <2>3. CASE i = 0
    BY <2>1, <2>2, <2>3 DEF FileNumber, m
  <2>4. CASE i # 0
    <3>1. i \in 1 .. RotatedFileCount
      BY <1>0, <2>4
    <3> QED
      BY <2>1, <2>2, <2>4, <3>1 DEF FileNumber, m
  <2> QED
    BY <2>3, <2>4
<1> QED
  BY <1>0, <1>2, <1>3, <1>4

\* Moving a file moves one cut of the history.
LEMMA MovedPieces ==
  ASSUME NEW h \in Seq(Nat), NEW f \in File, NEW cut \in Cuts(h), Pieces(h, f, cut),
         NEW ix \in 1 .. (RotatedFileCount + 1),
         ix <= RotatedFileCount => f.rotated[ix] = << >>,
         NEW new, new = [cut EXCEPT ![ix] = Cut(h, cut, ix - 1)]
  PROVE  new \in Cuts(h) /\ Pieces(h, Moved(f, ix), new)
<1>0. RotatedFileCount \in Nat /\ RotatedFileCount >= 1 /\ Len(h) \in Nat
  BY LogAssumption
<1>1. /\ ix - 1 \in 0 .. RotatedFileCount /\ ix - 1 \in 0 .. (RotatedFileCount + 1)
      /\ ix \in Nat /\ ix # 0 /\ ix - 1 # ix /\ (ix - 1) + 1 = ix
  BY <1>0
<1>2. Cut(h, cut, ix - 1) \in 0 .. Len(h)
  BY <1>0, <1>1, CutType
<1>3. new \in Cuts(h)
  BY <1>2 DEF Cuts
<1>4. /\ new[ix] = Cut(h, cut, ix - 1)
      /\ \A j \in 1 .. (RotatedFileCount + 1) : j # ix => new[j] = cut[j]
  BY DEF Cuts
<1>5. ASSUME NEW j \in 0 .. (RotatedFileCount + 1)
      PROVE  Cut(h, new, j) = IF j = ix THEN Cut(h, cut, ix - 1) ELSE Cut(h, cut, j)
  <2>1. CASE j = 0
    BY <1>1, <2>1 DEF Cut
  <2>2. CASE j # 0
    <3>1. j \in 1 .. (RotatedFileCount + 1)
      BY <1>0, <2>2
    <3>2. Cut(h, new, j) = new[j] /\ Cut(h, cut, j) = cut[j]
      BY <2>2 DEF Cut
    <3> QED
      BY <1>4, <3>1, <3>2
  <2> QED
    BY <2>1, <2>2
<1>6. ASSUME NEW i \in 0 .. RotatedFileCount
      PROVE  /\ Cut(h, new, i + 1) <= Cut(h, new, i)
             /\ FileNumber(Moved(f, ix), i) = SubSeq(h, Cut(h, new, i + 1) + 1, Cut(h, new, i))
  <2>0. i \in 0 .. (RotatedFileCount + 1) /\ i + 1 \in 0 .. (RotatedFileCount + 1) /\ i \in Nat
    BY <1>0
  <2> DEFINE moved == FileNumber(Moved(f, ix), i)
  <2>1. moved = IF i = ix - 1 THEN << >>
                ELSE IF i = ix THEN FileNumber(f, ix - 1) ELSE FileNumber(f, i)
    BY MovedFile
  <2> HIDE DEF moved
  <2>2. CASE i = ix - 1
    <3>1. i + 1 = ix /\ i # ix
      BY <1>1, <2>2
    <3>2. Cut(h, new, i + 1) = Cut(h, cut, i) /\ Cut(h, new, i) = Cut(h, cut, i)
      BY <1>5, <2>0, <2>2, <3>1
    <3>3. Cut(h, cut, i) \in Nat /\ Cut(h, cut, i) <= Len(h)
      BY <2>0, CutType
    <3>4. SubSeq(h, Cut(h, cut, i) + 1, Cut(h, cut, i)) = << >>
      BY <3>3, EmptyPiece
    <3>5. moved = << >>
      BY <2>1, <2>2
    <3>6. Cut(h, cut, i) <= Cut(h, cut, i)
      BY <3>3
    <3> QED
      BY <3>2, <3>4, <3>5, <3>6 DEF moved
  <2>3. CASE i = ix
    <3>1. i + 1 # ix /\ ix <= RotatedFileCount
      BY <1>0, <1>1, <2>3
    <3>2. Cut(h, new, i + 1) = Cut(h, cut, i + 1) /\ Cut(h, new, i) = Cut(h, cut, ix - 1)
      BY <1>5, <2>0, <2>3, <3>1
    <3>3. /\ Cut(h, cut, i + 1) \in Nat /\ Cut(h, cut, i) \in Nat
          /\ Cut(h, cut, i + 1) <= Cut(h, cut, i) /\ Cut(h, cut, i) <= Len(h)
          /\ FileNumber(f, i) = SubSeq(h, Cut(h, cut, i + 1) + 1, Cut(h, cut, i))
      BY PieceAt
    <3>4. FileNumber(f, i) = << >>
      BY <1>1, <2>3, <3>1 DEF FileNumber
    <3>5. Cut(h, cut, i + 1) = Cut(h, cut, i)
      <4>1. SubSeq(h, Cut(h, cut, i + 1) + 1, Cut(h, cut, i)) = << >>
              <=> Cut(h, cut, i + 1) = Cut(h, cut, i)
        BY <3>3, EmptyPiece
      <4> QED
        BY <3>3, <3>4, <4>1
    <3>6. /\ Cut(h, cut, (ix - 1) + 1) <= Cut(h, cut, ix - 1)
          /\ FileNumber(f, ix - 1) = SubSeq(h, Cut(h, cut, (ix - 1) + 1) + 1, Cut(h, cut, ix - 1))
      BY <1>1, PieceAt
    <3>7. Cut(h, cut, (ix - 1) + 1) = Cut(h, cut, i + 1)
      BY <1>1, <2>3, <3>5
    <3>8. moved = FileNumber(f, ix - 1)
      BY <1>1, <2>1, <2>3
    <3> QED
      BY <3>2, <3>6, <3>7, <3>8 DEF moved
  <2>4. CASE i # ix /\ i # ix - 1
    <3>1. i + 1 # ix
      BY <1>1, <2>0, <2>4
    <3>2. Cut(h, new, i + 1) = Cut(h, cut, i + 1) /\ Cut(h, new, i) = Cut(h, cut, i)
      BY <1>5, <2>0, <2>4, <3>1
    <3>3. /\ Cut(h, cut, i + 1) <= Cut(h, cut, i)
          /\ FileNumber(f, i) = SubSeq(h, Cut(h, cut, i + 1) + 1, Cut(h, cut, i))
      BY PieceAt
    <3> QED
      BY <2>1, <2>4, <3>2, <3>3 DEF moved
  <2> QED
    BY <2>2, <2>3, <2>4
<1> QED
  BY <1>3, <1>6 DEF Pieces

\* A piece that lies in front of what a close() loses stays.
LEMMA PieceKept ==
  ASSUME NEW h \in Seq(Nat), NEW n \in Nat, n <= Len(h),
         NEW a \in Nat, NEW b \in Nat, a <= b, b <= Len(h) - n
  PROVE  SubSeq(WithoutLast(h, n), a + 1, b) = SubSeq(h, a + 1, b)
<1> DEFINE g == WithoutLast(h, n)
           u == SubSeq(h, a + 1, b)
           v == SubSeq(g, a + 1, b)
<1>n. Len(h) \in Nat
  OBVIOUS
<1>1. /\ g \in Seq(Nat) /\ Len(g) = Len(h) - n
      /\ \A j \in 1 .. (Len(h) - n) : g[j] = h[j]
  BY Shortened
<1>0. b <= Len(h)
  BY <1>n
<1>2. u \in Seq(Nat) /\ Len(u) = b - a /\ \A j \in 1 .. (b - a) : u[j] = h[a + j]
  BY <1>0, PieceFacts
<1> HIDE DEF g, u
<1>3. v \in Seq(Nat) /\ Len(v) = b - a /\ \A j \in 1 .. (b - a) : v[j] = g[a + j]
  BY <1>1, PieceFacts
<1> HIDE DEF v
<1>4. ASSUME NEW j \in 1 .. Len(v) PROVE v[j] = u[j]
  <2>1. j \in 1 .. (b - a) /\ a + j \in 1 .. (Len(h) - n)
    BY <1>n, <1>1, <1>3
  <2> QED
    BY <1>1, <1>2, <1>3, <2>1
<1>5. v = u
  BY <1>2, <1>3, <1>4, SeqEqual
<1> QED
  BY <1>5 DEF u, v, g

\* A close() that fails shortens the history and the current file by the same lines.
LEMMA ShortenedPieces ==
  ASSUME NEW h \in Seq(Nat), NEW f \in File, NEW cut \in Cuts(h), Pieces(h, f, cut), Newest(cut),
         NEW n \in Nat, n <= Len(f.current),
         NEW g, g.current = WithoutLast(f.current, n), g.rotated = f.rotated
  PROVE  cut \in Cuts(WithoutLast(h, n)) /\ Pieces(WithoutLast(h, n), g, cut)
<1> DEFINE w == WithoutLast(h, n)
           c == cut[1]
<1>0. RotatedFileCount \in Nat /\ RotatedFileCount >= 1 /\ Len(h) \in Nat
      /\ 0 \in 0 .. RotatedFileCount /\ 1 \in 1 .. (RotatedFileCount + 1) /\ 0 + 1 = 1
  BY LogAssumption
<1>1. c \in Nat /\ c <= Len(h) /\ \A j \in 1 .. (RotatedFileCount + 1) : cut[j] \in Nat /\ cut[j] <= c
  BY <1>0 DEF Cuts, Newest
<1>2. f.current = SubSeq(h, c + 1, Len(h))
  BY <1>0 DEF Pieces, Cut, FileNumber
<1> HIDE DEF c
<1>3. /\ f.current \in Seq(Nat) /\ Len(f.current) = Len(h) - c
      /\ \A j \in 1 .. (Len(h) - c) : f.current[j] = h[c + j]
  BY <1>0, <1>1, <1>2, PieceFacts
<1>4. n <= Len(h) /\ c <= Len(h) - n /\ Len(h) - n \in Nat
  BY <1>0, <1>1, <1>3
<1>5. /\ w \in Seq(Nat) /\ Len(w) = Len(h) - n
      /\ \A j \in 1 .. (Len(h) - n) : w[j] = h[j]
  BY <1>4, Shortened
<1> HIDE DEF w
<1>6. cut \in Cuts(w)
  <2>1. \A j \in 1 .. (RotatedFileCount + 1) : cut[j] \in 0 .. Len(w)
    BY <1>1, <1>4, <1>5
  <2> QED
    BY <2>1 DEF Cuts
<1>7. g.current = SubSeq(w, c + 1, Len(w))
  <2> DEFINE u == WithoutLast(f.current, n)
             v == SubSeq(w, c + 1, Len(w))
  <2>0. f.current \in Seq(Nat)
    BY <1>3
  <2>1. /\ u \in Seq(Nat) /\ Len(u) = Len(f.current) - n
        /\ \A j \in 1 .. (Len(f.current) - n) : u[j] = f.current[j]
    BY <2>0, Shortened
  <2>2. v \in Seq(Nat) /\ Len(v) = Len(w) - c /\ \A j \in 1 .. (Len(w) - c) : v[j] = w[c + j]
    <3>1. w \in Seq(Nat) /\ c \in Nat /\ Len(w) \in Nat /\ c <= Len(w) /\ Len(w) <= Len(w)
      BY <1>1, <1>4, <1>5
    <3> QED
      BY ONLY <3>1, PieceFacts
  <2>3. g.current = u
    OBVIOUS
  <2> HIDE DEF u, v
  <2>4. Len(u) = Len(v)
    BY <1>0, <1>1, <1>3, <1>5, <2>1, <2>2
  <2>5. ASSUME NEW j \in 1 .. Len(v) PROVE v[j] = u[j]
    <3>1. /\ j \in 1 .. (Len(f.current) - n) /\ j \in 1 .. (Len(h) - c) /\ j \in 1 .. (Len(w) - c)
          /\ c + j \in 1 .. (Len(h) - n)
      BY <1>0, <1>1, <1>3, <1>4, <1>5, <2>2
    <3> QED
      BY <1>3, <1>5, <2>1, <2>2, <3>1
  <2>6. u = v
    BY <2>1, <2>2, <2>4, <2>5, SeqEqual
  <2> QED
    BY <2>3, <2>6 DEF v
<1>8. ASSUME NEW i \in 0 .. RotatedFileCount
      PROVE  /\ Cut(w, cut, i + 1) <= Cut(w, cut, i)
             /\ FileNumber(g, i) = SubSeq(w, Cut(w, cut, i + 1) + 1, Cut(w, cut, i))
  <2>1. CASE i = 0
    <3>1. Cut(w, cut, 0) = Len(w) /\ Cut(w, cut, 0 + 1) = c
      BY <1>0 DEF Cut, c
    <3> QED
      BY <1>4, <1>5, <1>7, <2>1, <3>1 DEF FileNumber
  <2>2. CASE i # 0
    <3>1. i + 1 # 0 /\ i \in 1 .. (RotatedFileCount + 1) /\ i + 1 \in 1 .. (RotatedFileCount + 1)
      BY <1>0, <2>2
    <3>2. /\ Cut(w, cut, i) = cut[i] /\ Cut(w, cut, i + 1) = cut[i + 1]
          /\ Cut(h, cut, i) = cut[i] /\ Cut(h, cut, i + 1) = cut[i + 1]
      BY <2>2, <3>1 DEF Cut
    <3>3. cut[i + 1] <= cut[i] /\ FileNumber(f, i) = SubSeq(h, cut[i + 1] + 1, cut[i])
      BY <3>2 DEF Pieces
    <3>4. cut[i] \in Nat /\ cut[i + 1] \in Nat /\ cut[i] <= Len(h) - n
      BY <1>1, <1>4, <3>1
    <3>5. SubSeq(w, cut[i + 1] + 1, cut[i]) = SubSeq(h, cut[i + 1] + 1, cut[i])
      BY <1>4, <3>3, <3>4, PieceKept DEF w
    <3>6. FileNumber(g, i) = FileNumber(f, i)
      BY <2>2 DEF FileNumber
    <3> QED
      BY <3>2, <3>3, <3>5, <3>6
  <2> QED
    BY <2>1, <2>2
<1> QED
  BY <1>6, <1>8 DEF Pieces, w

\* A rotation starts with a full file.
LEMMA RotationStarts ==
  ASSUME NEW h \in Seq(Nat), NEW f \in File, NEW cut \in Cuts(h), Pieces(h, f, cut),
         Settled(cut), NeedsRotation(f)
  PROVE  Moving(h, cut, RotatedFileCount + 1)
<1>0. RotatedFileCount \in Nat /\ RotatedFileCount >= 1 /\ MaxFileLines \in Nat /\ Len(h) \in Nat
  BY LogAssumption
<1>1. f.current \in Seq(Nat) /\ Len(f.current) \in Nat
  BY DEF File
<1>2. 0 \in 0 .. RotatedFileCount /\ 0 + 1 = 1 /\ 1 \in 1 .. (RotatedFileCount + 1)
  BY <1>0
<1>3. cut[1] \in Nat /\ cut[1] <= Len(h)
  BY <1>0, <1>2 DEF Cuts
<1>4. f.current = SubSeq(h, cut[1] + 1, Len(h))
  BY <1>2 DEF Pieces, Cut, FileNumber
<1>5. Len(f.current) = Len(h) - cut[1]
  BY <1>0, <1>3, <1>4, PieceFacts
<1>6. Len(h) - cut[1] >= MaxFileLines
  BY <1>0, <1>1, <1>3, <1>5 DEF NeedsRotation
<1>7. \A i \in 1 .. (RotatedFileCount + 1) : ~(i > RotatedFileCount + 1)
  BY <1>0
<1> QED
  BY <1>6, <1>7 DEF Moving, Settled

\* A rotation moves the cuts apart by one full file.
LEMMA RotationMoves ==
  ASSUME NEW h \in Seq(Nat), NEW cut \in Cuts(h),
         NEW ix \in 1 .. (RotatedFileCount + 1), Moving(h, cut, ix), LongEnough(h, cut),
         NEW new, new = [cut EXCEPT ![ix] = Cut(h, cut, ix - 1)]
  PROVE  /\ LongEnough(h, new)
         /\ ix # 1 => Moving(h, new, ix - 1)
         /\ ix = 1 => Settled(new)
<1>0. RotatedFileCount \in Nat /\ RotatedFileCount >= 1 /\ MaxFileLines \in Nat /\ Len(h) \in Nat
  BY LogAssumption
<1>1. ix \in Nat /\ ix - 1 \in 0 .. RotatedFileCount /\ 1 \in 1 .. (RotatedFileCount + 1)
      /\ RotatedFileCount + 1 \in 1 .. (RotatedFileCount + 1)
  BY <1>0
<1>2. \A j \in 1 .. (RotatedFileCount + 1) : cut[j] \in Nat /\ cut[j] <= Len(h)
  BY <1>0 DEF Cuts
<1>3. /\ new[ix] = Cut(h, cut, ix - 1)
      /\ \A j \in 1 .. (RotatedFileCount + 1) : j # ix => new[j] = cut[j]
  BY DEF Cuts
<1>4. /\ Len(h) - cut[1] >= MaxFileLines
      /\ \A i \in 1 .. (RotatedFileCount + 1) :
           cut[i] > 0 => (IF i > ix THEN Len(h) ELSE cut[1]) - cut[i] >= (i - 1) * MaxFileLines
  BY DEF Moving
\* The cut that has moved is a full file further from the end.
<1>5. ix # 1 => /\ new[ix] = cut[ix - 1] /\ new[ix] \in Nat
                /\ new[ix] > 0 => Len(h) - new[ix] >= (ix - 1) * MaxFileLines
  <2> SUFFICES ASSUME ix # 1
               PROVE  /\ new[ix] = cut[ix - 1] /\ new[ix] \in Nat
                      /\ new[ix] > 0 => Len(h) - new[ix] >= (ix - 1) * MaxFileLines
    OBVIOUS
  <2> DEFINE j == ix - 1
  <2>1. j \in 1 .. (RotatedFileCount + 1) /\ j # 0 /\ ~(j > ix) /\ j \in Nat /\ j >= 1
    BY <1>0, <1>1
  <2>2. new[ix] = cut[j]
    BY <1>3, <2>1 DEF Cut
  <2>3. cut[j] > 0 => cut[1] - cut[j] >= (j - 1) * MaxFileLines
    BY <1>4, <2>1
  <2>4. (j - 1) * MaxFileLines + MaxFileLines = j * MaxFileLines
        /\ j * MaxFileLines \in Nat /\ (j - 1) * MaxFileLines \in Nat
    BY <2>1, OneMoreFile
  <2> DEFINE x == j * MaxFileLines
             y == (j - 1) * MaxFileLines
  <2>5. y + MaxFileLines = x /\ x \in Nat /\ y \in Nat /\ (cut[j] > 0 => cut[1] - cut[j] >= y)
    BY <2>3, <2>4
  <2>6. cut[j] \in Nat /\ cut[1] \in Nat
    BY <1>1, <1>2, <2>1
  <2> HIDE DEF x, y, j
  <2>7. cut[j] > 0 => Len(h) - cut[j] >= x
    BY <1>0, <1>4, <2>5, <2>6
  <2> QED
    BY <2>2, <2>6, <2>7 DEF x, j
<1>6. LongEnough(h, new)
  <2>1. CASE ix = RotatedFileCount + 1
    <3>1. ix # 1 /\ ix - 1 = RotatedFileCount
      BY <1>0, <2>1
    <3>2. new[ix] \in Nat /\ (new[ix] > 0 => Len(h) - new[ix] >= RotatedFileCount * MaxFileLines)
      BY <1>5, <3>1
    <3>3. new[ix] = 0 \/ new[ix] > 0
      BY <3>2
    <3> QED
      BY <2>1, <3>2, <3>3 DEF LongEnough
  <2>2. CASE ix # RotatedFileCount + 1
    <3>1. new[RotatedFileCount + 1] = cut[RotatedFileCount + 1]
      BY <1>1, <1>3, <2>2
    <3> QED
      BY <3>1 DEF LongEnough
  <2> QED
    BY <2>1, <2>2
<1>7. ASSUME ix # 1 PROVE Moving(h, new, ix - 1)
  <2>0. ix - 1 \in 1 .. (RotatedFileCount + 1) /\ ix - 1 # 0
    BY <1>0, <1>1, <1>7
  <2>1. new[1] = cut[1]
    BY <1>1, <1>3, <1>7
  <2>3. ASSUME NEW i \in 1 .. (RotatedFileCount + 1), new[i] > 0
        PROVE  (IF i > ix - 1 THEN Len(h) ELSE new[1]) - new[i] >= (i - 1) * MaxFileLines
    <3>1. CASE i = ix
      <4>1. i > ix - 1
        BY <1>1, <3>1
      <4> QED
        BY <1>5, <1>7, <2>3, <3>1, <4>1
    <3>2. CASE i # ix
      <4>1. new[i] = cut[i] /\ (i > ix - 1 <=> i > ix)
        BY <1>1, <1>3, <3>2
      <4> QED
        BY <1>4, <2>1, <2>3, <4>1
    <3> QED
      BY <3>1, <3>2
  <2> QED
    BY <1>4, <2>1, <2>3 DEF Moving
<1>8. ASSUME ix = 1 PROVE Settled(new)
  <2>1. new[1] = Len(h)
    BY <1>3, <1>8 DEF Cut
  <2>2. ASSUME NEW i \in 1 .. (RotatedFileCount + 1), new[i] > 0
        PROVE  new[1] - new[i] >= (i - 1) * MaxFileLines
    <3>1. CASE i = 1
      <4>1. (i - 1) * MaxFileLines = 0 /\ new[1] - new[i] = 0
        BY <1>0, <2>1, <3>1
      <4> QED
        BY <4>1
    <3>2. CASE i # 1
      <4>1. new[i] = cut[i] /\ i > ix
        BY <1>0, <1>3, <1>8, <3>2
      <4> QED
        BY <1>4, <2>1, <2>2, <4>1
    <3> QED
      BY <3>1, <3>2
  <2> QED
    BY <2>2 DEF Settled
<1> QED
  BY <1>6, <1>7, <1>8

\* It keeps the current file the newest, and leaves the next number empty.
LEMMA RotationKeeps ==
  ASSUME NEW h \in Seq(Nat), NEW f \in File, NEW cut \in Cuts(h), Newest(cut),
         NEW ix \in 1 .. (RotatedFileCount + 1), Vacated(f, ix),
         NEW new, new = [cut EXCEPT ![ix] = Cut(h, cut, ix - 1)]
  PROVE  /\ Newest(new)
         /\ ix # 1 => Vacated(Moved(f, ix), ix - 1)
<1>0. RotatedFileCount \in Nat /\ RotatedFileCount >= 1 /\ Len(h) \in Nat
      /\ 1 \in 1 .. (RotatedFileCount + 1) /\ ix - 1 \in 0 .. RotatedFileCount
  BY LogAssumption
<1>1. \A j \in 1 .. (RotatedFileCount + 1) : cut[j] \in Nat /\ cut[j] <= Len(h) /\ cut[j] <= cut[1]
  BY <1>0 DEF Cuts, Newest
<1>2. /\ new[ix] = Cut(h, cut, ix - 1)
      /\ \A j \in 1 .. (RotatedFileCount + 1) : j # ix => new[j] = cut[j]
  BY DEF Cuts
<1>3. CASE ix = 1
  <2>1. new[1] = Len(h)
    BY <1>2, <1>3 DEF Cut
  <2>2. \A j \in 1 .. (RotatedFileCount + 1) : new[j] <= Len(h)
    BY <1>0, <1>1, <1>2, <1>3, <2>1
  <2> QED
    BY <1>3, <2>1, <2>2 DEF Newest
<1>4. CASE ix # 1
  <2>1. ix - 1 # 0 /\ ix - 1 \in 1 .. (RotatedFileCount + 1)
    BY <1>0, <1>4
  <2>2. new[ix] = cut[ix - 1] /\ new[1] = cut[1]
    BY <1>0, <1>2, <1>4, <2>1 DEF Cut
  <2>3. \A j \in 1 .. (RotatedFileCount + 1) : new[j] <= new[1]
    BY <1>1, <1>2, <2>1, <2>2
  <2>4. FileNumber(Moved(f, ix), ix - 1) = << >>
    BY <1>0, MovedFile DEF Vacated
  <2> QED
    BY <2>1, <2>3, <2>4 DEF Newest, Vacated, FileNumber
<1> QED
  BY <1>3, <1>4

\* Every step, each call of a rotation included, keeps the history well cut.
LEMMA CutStep == IInv /\ CutSound /\ [Next]_vars => CutSound'
<1> SUFFICES ASSUME IInv, CutSound, [Next]_vars, NEW k \in Kinds
             PROVE  \E new \in Cuts(history'[k]) : CutWell(k, new)'
  BY DEF CutSound
<1> DEFINE Goal == \E new \in Cuts(history'[k]) : CutWell(k, new)'
           h == history[k]
           f == file[k]
<1>a. TypeOK /\ Control
  BY DEF IInv
<1>b. /\ writer \in Writer /\ writer.line \in Nat /\ writer.kind \in Kinds
      /\ history \in [Kinds -> Seq(Nat)] /\ file \in [Kinds -> File]
      /\ h \in Seq(Nat) /\ f \in File /\ lost \in [Kinds -> SUBSET Nat]
  BY <1>a DEF TypeOK, Writer
<1>c. PICK cut \in Cuts(h) : CutWell(k, cut)
  BY DEF CutSound
<1>d. /\ Pieces(h, f, cut) /\ Newest(cut)
      /\ lost[k] = {} => LongEnough(h, cut)
  BY <1>c DEF CutWell
<1>1. ASSUME history'[k] = h, lost'[k] = lost[k], file'[k].current = f.current, file'[k].rotated = f.rotated,
             Rotating(k)' => Rotating(k) /\ writer'.index = writer.index,
             ~Rotating(k)' /\ writer'.pc # "exited" => ~Rotating(k) /\ writer.pc # "exited"
      PROVE  Goal
  <2>1. Pieces(history'[k], file'[k], cut)
    BY <1>1, <1>d DEF Pieces, FileNumber
  <2>2. lost'[k] = {} => LongEnough(history'[k], cut)
    BY <1>1, <1>d
  <2>3. lost'[k] = {} /\ ~Rotating(k)' /\ writer'.pc # "exited" => Settled(cut)
    BY <1>1, <1>c DEF CutWell
  <2>4. lost'[k] = {} /\ Rotating(k)' => Moving(history'[k], cut, writer'.index)
    BY <1>1, <1>c DEF CutWell, Moving
  <2>6. Rotating(k)' => Vacated(file'[k], writer'.index)
    BY <1>1, <1>c DEF CutWell, Vacated
  <2>5. CutWell(k, cut)'
    BY <1>d, <2>1, <2>2, <2>3, <2>4, <2>6 DEF CutWell
  <2> QED
    BY <1>1, <2>5
<1>2. ASSUME history' = history, lost' = lost, file' = file, writer'.index = writer.index,
             writer'.kind = writer.kind,
             \/ writer'.pc = writer.pc
             \/ writer'.pc = "exited"
             \/ writer.pc \notin {"rotate", "exited"} /\ writer'.pc # "rotate"
      PROVE  Goal
  BY <1>1, <1>2 DEF Rotating
<1>3. ASSUME NEW t \in Kinds, Enqueue(t)
      PROVE  Goal
  BY <1>2, <1>3 DEF Enqueue
<1>4. CASE NotifyReady \/ Destroy
  <2>1. history' = history /\ lost' = lost /\ file' = file
    BY <1>4 DEF NotifyReady, Destroy
  <2>2. /\ writer'.index = writer.index /\ writer'.kind = writer.kind
        /\ writer'.pc = writer.pc \/ (writer.pc = "waiting" /\ writer'.pc = "top")
    BY <1>4, <1>b DEF NotifyReady, Destroy, Writer
  <2> QED
    BY <1>2, <2>1, <2>2
<1>5. CASE WriterTop \/ WriteDropSummary
  <2>1. history' = history /\ lost' = lost /\ file' = file
    BY <1>5 DEF WriterTop, WriteDropSummary
  <2>2. writer.pc \in {"top", "summary"} /\ writer'.pc \in {"waiting", "summary", "write", "flush"}
    BY <1>5, <1>b DEF WriterTop, WriteDropSummary, Writer
  <2> QED
    BY <1>1, <2>1, <2>2 DEF Rotating
<1>6. CASE WriteLine
  <2>0. writer.pc = "write" /\ lost' = lost
    BY <1>6 DEF WriteLine
  <2>1. /\ file' = [file EXCEPT ![writer.kind] = Written(file[writer.kind], writer.line)]
        /\ history' = [history EXCEPT ![writer.kind] = Append(history[writer.kind], writer.line)]
        /\ writer'.pc \in {"check", "flush"}
    BY <1>6, <1>b DEF WriteLine, Writer
  <2>2. CASE k # writer.kind
    <3>1. file'[k] = file[k] /\ history'[k] = history[k]
      BY <1>b, <2>1, <2>2
    <3> QED
      BY <1>1, <2>0, <2>1, <2>2, <3>1 DEF Rotating
  <2>3. CASE k = writer.kind
    <3>1. file'[k] = Written(f, writer.line) /\ history'[k] = Append(h, writer.line)
      BY <1>b, <2>1, <2>3
    <3>2. cut \in Cuts(history'[k]) /\ Pieces(history'[k], file'[k], cut)
      BY <1>b, <1>d, <3>1, WrittenPieces
    <3>3. lost[k] = {} => Settled(cut)
      BY <1>c, <2>0 DEF CutWell, Rotating
    <3>4. lost[k] = {} => LongEnough(history'[k], cut)
      <4>0. RotatedFileCount \in Nat /\ MaxFileLines \in Nat
        BY LogAssumption
      <4> DEFINE j == RotatedFileCount + 1
                 x == RotatedFileCount * MaxFileLines
      <4>1. j \in 1 .. (RotatedFileCount + 1) /\ x \in Nat
        BY <4>0
      <4>2. cut[j] \in 0 .. Len(h)
        BY <4>1 DEF Cuts
      <4>3. Len(h) \in Nat /\ Len(history'[k]) = Len(h) + 1
        BY <1>b, <3>1, AppendFacts
      <4>4. lost[k] = {} => cut[j] = 0 \/ Len(h) - cut[j] >= x
        BY <1>d DEF LongEnough
      <4> HIDE DEF j, x
      <4>5. lost[k] = {} => cut[j] = 0 \/ Len(history'[k]) - cut[j] >= x
        BY <4>1, <4>2, <4>3, <4>4
      <4> QED
        BY <4>5 DEF LongEnough, j, x
    <3>5. ~Rotating(k)'
      BY <2>1 DEF Rotating
    <3>6. CutWell(k, cut)'
      BY <1>d, <2>0, <3>2, <3>3, <3>4, <3>5 DEF CutWell
    <3> QED
      BY <3>2, <3>6
  <2> QED
    BY <2>2, <2>3
\* The same cut, of a history that may have become shorter.
<1>11. CASE CloseStream
  <2>0. writer.pc = "write" /\ NeedsRotation(file[writer.kind])
    BY <1>11 DEF CloseStream
  <2>1. /\ writer'.pc = "rotate" /\ writer'.kind = writer.kind
        /\ writer'.index = RotatedFileCount + 1
    BY <1>11, <1>b DEF CloseStream, Writer
  <2>2. PICK n \in 0 .. file[writer.kind].unflushed :
          /\ file' = [file EXCEPT ![writer.kind].current = WithoutLast(@, n),
                                  ![writer.kind].unflushed = 0]
          /\ history' = [history EXCEPT ![writer.kind] = WithoutLast(@, n)]
          /\ lost' = [lost EXCEPT ![writer.kind] = @ \cup LastOf(history[writer.kind], n)]
    BY <1>11 DEF CloseStream
  <2>3. CASE k # writer.kind
    <3>1. file'[k] = file[k] /\ history'[k] = history[k] /\ lost'[k] = lost[k]
      BY <1>b, <2>2, <2>3
    <3> QED
      BY <1>1, <2>0, <2>1, <2>3, <3>1 DEF Rotating
  <2>4. CASE k = writer.kind
    <3>1. /\ history'[k] = WithoutLast(h, n) /\ lost'[k] = lost[k] \cup LastOf(h, n)
          /\ file'[k].current = WithoutLast(f.current, n) /\ file'[k].rotated = f.rotated
      BY <1>b, <2>2, <2>4 DEF File
    <3>2. n \in Nat /\ n <= Len(f.current) /\ n <= Len(h)
      <4>1. f.unflushed \in Nat /\ f.unflushed <= Len(f.current) /\ f.unflushed <= Len(h)
            /\ Len(h) \in Nat /\ Len(f.current) \in Nat
        BY <1>b DEF IInv, Buffered, File
      <4> QED
        BY <2>4, <4>1
    <3>3. cut \in Cuts(history'[k]) /\ Pieces(history'[k], file'[k], cut)
      BY <1>b, <1>d, <3>1, <3>2, ShortenedPieces
    <3>4. Vacated(file'[k], writer'.index)
      <4>1. ~(RotatedFileCount + 1 <= RotatedFileCount)
        BY LogAssumption
      <4> QED
        BY <2>1, <4>1 DEF Vacated
    <3>5. ASSUME lost'[k] = {}
          PROVE  LongEnough(history'[k], cut) /\ Moving(history'[k], cut, writer'.index)
      <4>1. lost[k] = {} /\ LastOf(h, n) = {}
        BY <3>1, <3>5
      <4>2. n = 0
        <5> SUFFICES ASSUME n # 0 PROVE FALSE
          OBVIOUS
        <5>1. Len(h) \in (Len(h) - n + 1) .. Len(h)
          BY <1>b, <3>2
        <5> QED
          BY <4>1, <5>1 DEF LastOf
      <4>3. history'[k] = h
        <5>1. Len(h) \in Nat /\ Len(h) - 0 = Len(h)
          BY <1>b
        <5>2. /\ history'[k] \in Seq(Nat) /\ Len(history'[k]) = Len(h)
              /\ \A j \in 1 .. Len(h) : history'[k][j] = h[j]
          BY <1>b, <3>1, <3>2, <4>2, <5>1, Shortened
        <5> QED
          BY <1>b, <5>2, SeqEqual
      <4>4. Settled(cut)
        BY <1>c, <2>0, <4>1 DEF CutWell, Rotating
      <4>5. Moving(h, cut, RotatedFileCount + 1)
        BY <1>b, <1>d, <2>0, <2>4, <4>4, RotationStarts
      <4> QED
        BY <1>d, <2>1, <4>1, <4>3, <4>5
    <3>6. Rotating(k)'
      BY <2>1, <2>4 DEF Rotating
    <3>7. CutWell(k, cut)'
      BY <1>d, <3>3, <3>4, <3>5, <3>6 DEF CutWell
    <3> QED
      BY <3>3, <3>7
  <2> QED
    BY <2>3, <2>4
<1>7. CASE Rotate
  <2>0. /\ writer.pc = "rotate" /\ writer.index \in 1 .. (RotatedFileCount + 1)
        /\ history' = history /\ lost' = lost
        /\ file' = [file EXCEPT ![writer.kind] = Moved(file[writer.kind], writer.index)]
    BY <1>7, <1>a DEF Rotate, Control
  <2>1. /\ writer'.kind = writer.kind
        /\ writer.index = 1 => writer'.pc = "write"
        /\ writer.index # 1 => writer'.pc = "rotate" /\ writer'.index = writer.index - 1
    BY <1>7, <1>b DEF Rotate, Writer
  <2>2. CASE k # writer.kind
    <3>1. file'[k] = file[k]
      BY <1>b, <2>0, <2>2
    <3> QED
      BY <1>1, <2>0, <2>1, <2>2, <3>1 DEF Rotating
  <2>3. CASE k = writer.kind
    <3> DEFINE ix == writer.index
    <3>0. PICK new : new = [cut EXCEPT ![ix] = Cut(h, cut, ix - 1)]
      OBVIOUS
    <3>1. file'[k] = Moved(f, ix) /\ history'[k] = h
      BY <1>b, <2>0, <2>3
    <3>2. Vacated(f, ix) /\ (lost[k] = {} => Moving(h, cut, ix))
      BY <1>c, <2>0, <2>3 DEF CutWell, Rotating
    <3>3. ix <= RotatedFileCount => f.rotated[ix] = << >>
      BY <3>2 DEF Vacated
    <3>4. new \in Cuts(h) /\ Pieces(h, Moved(f, ix), new)
      BY <1>b, <1>d, <2>0, <3>0, <3>3, MovedPieces
    <3>5. lost[k] = {} => /\ LongEnough(h, new)
                          /\ ix # 1 => Moving(h, new, ix - 1)
                          /\ ix = 1 => Settled(new)
      BY <1>b, <1>d, <2>0, <3>0, <3>2, RotationMoves
    <3>8. Newest(new) /\ (ix # 1 => Vacated(Moved(f, ix), ix - 1))
      BY <1>b, <1>d, <2>0, <3>0, <3>2, RotationKeeps
    <3>6. Rotating(k)' <=> ix # 1
      BY <2>1, <2>3 DEF Rotating
    <3>7. CutWell(k, new)'
      BY <2>0, <2>1, <3>1, <3>4, <3>5, <3>6, <3>8 DEF CutWell
    <3> QED
      BY <3>1, <3>4, <3>7
  <2> QED
    BY <2>2, <2>3
<1>8. CASE FlushStreams
  <2>1. /\ history' = history /\ lost' = lost /\ file'[k] = Flushed(f) /\ writer.pc = "flush"
        /\ writer'.pc = "release"
    BY <1>8, <1>b DEF FlushStreams, Writer
  <2>2. file'[k].current = f.current /\ file'[k].rotated = f.rotated
    BY <1>b, <2>1 DEF Flushed, File
  <2> QED
    BY <1>1, <2>1, <2>2 DEF Rotating
<1>12. ASSUME NEW t \in Kinds, FlushFails(t) PROVE Goal
  <2>1. history' = history /\ lost' = lost /\ writer' = writer
    BY <1>12 DEF FlushFails
  <2>2. file'[k].current = f.current /\ file'[k].rotated = f.rotated
    BY <1>12, <1>b DEF FlushFails, File
  <2> QED
    BY <1>1, <2>1, <2>2 DEF Rotating
<1>9. CASE CheckEmpty \/ ReleaseWriter \/ WriterFails \/ WriteToBadStream
  <2>1. history' = history /\ lost' = lost /\ file' = file
    BY <1>9 DEF CheckEmpty, ReleaseWriter, WriterFails, WriteToBadStream, Dies
  <2>2. \/ writer.pc \in {"check", "release"} /\ writer'.pc \in {"summary", "release", "top", "exited"}
        \/ writer'.pc = "exited"
    BY <1>9, <1>b DEF CheckEmpty, ReleaseWriter, WriterFails, WriteToBadStream, Dies, Writer
  <2> QED
    BY <1>1, <2>1, <2>2 DEF Rotating
<1>10. CASE UNCHANGED vars \/ UnchangedForReaders
  <2>1. history' = history /\ lost' = lost /\ file' = file /\ writer' = writer
    BY <1>10 DEF vars, UnchangedForReaders
  <2> QED
    BY <1>2, <2>1
<1> QED
  BY <1>3, <1>4, <1>5, <1>6, <1>7, <1>8, <1>9, <1>10, <1>11, <1>12
     DEF Next, WriterStep, Flush, CallFlush

-----------------------------------------------------------------------------
(* What holds of every run of the log.                                     *)

\* The inductive invariant holds: the queue, the writer's hands and what was written
\* to the files make up the accepted events, in order; and the writer leaves nothing
\* behind in a buffer unless a flush() has failed, and nobody waiting.
THEOREM IInvHolds == Spec => []IInv
<1>1. Init => IInv
  <2> SUFFICES ASSUME Init PROVE IInv
    OBVIOUS
  <2>1. TypeOK
    BY TypeInit
  <2>2. /\ queue = << >> /\ DOMAIN queue = {} /\ submitted = 0
        /\ \A k \in Kinds : /\ history[k] = OldFile /\ lost[k] = {}
                            /\ \A i \in DOMAIN history[k] : history[k][i] = 0
    BY DEF Init, OldFile
  <2>3. writer.pc = "top" /\ ~writer.last
    BY DEF Init
  <2>4. Control
    BY <2>3 DEF Init, Control, InHands
  <2>w. Woken
    BY DEF Init, Woken
  <2>b. Buffered
    <3> SUFFICES ASSUME NEW k \in Kinds
                 PROVE  file[k].unflushed <= Len(file[k].current)
                        /\ file[k].unflushed <= Len(history[k])
      BY DEF Buffered
    <3>1. file[k].unflushed = 0
      BY DEF Init
    <3>2. Len(file[k].current) \in Nat /\ Len(history[k]) \in Nat
      BY <2>1 DEF TypeOK, File
    <3> QED
      BY <3>1, <3>2
  <2>l. LostOld
    BY <2>2 DEF LostOld
  <2>5. Ordered
    BY <2>2, <2>3 DEF Ordered, InHands, Increasing
  <2>6. Quiet
    BY DEF Init, Quiet
  <2>7. \A k \in Kinds : Kept(k) = {}
    BY <2>2, <2>3 DEF Kept, Handed, InHand, Ids, Range
  <2>8. Cardinality({}) = 0
    BY FS_EmptySet
  <2>9. /\ \A k \in Kinds : accepted[k] = 0 /\ dropped[k] = 0
        /\ "access" \in Kinds /\ "error" \in Kinds /\ submitted = 0
    BY DEF Init, Kinds
  <2>10. AccountingExact
    BY <2>7, <2>8, <2>9 DEF AccountingExact
  <2> QED
    BY <2>1, <2>4, <2>5, <2>6, <2>10, <2>w, <2>b, <2>l DEF IInv
<1>2. IInv /\ [Next]_vars => IInv'
  BY TypeStep, ControlStep, WokenStep, BufferedStep, QuietStep, OrderedStep, LostStep,
     AccountingStep DEF IInv
<1> QED
  BY <1>1, <1>2, PTL DEF Spec

\* Every variable keeps its type and the queue its bound, through evictions.
THEOREM TypeCorrect == Spec => []TypeOK
<1>1. IInv => TypeOK
  BY DEF IInv
<1> QED
  BY <1>1, IInvHolds, PTL

\* Every call is accepted or dropped, and what is accepted was written to its file, or
\* is in the queue or in the writer's hands, as long as the writer lives.
THEOREM AccountingExactHolds == Spec => []AccountingExact
<1>1. IInv => AccountingExact
  BY DEF IInv
<1> QED
  BY <1>1, IInvHolds, PTL

\* What flush() waits for: an empty queue and an idle writer mean that nobody is left
\* waiting, that every drop has been reported and that every line is on disk but for
\* the streams whose flush() has failed, which the code does not look at.
THEOREM DrainedMeansOnDiskHolds == Spec => []DrainedMeansOnDisk
<1>1. IInv => DrainedMeansOnDisk
  <2> SUFFICES ASSUME IInv, Drained
               PROVE  /\ \A r \in Readers : reader[r] # "waiting"
                      /\ ~failed => \A k \in Kinds : file[k].unflushed = 0 \/ file[k].bad
                      /\ ~failed /\ ~thrown => reported = dropped
    BY DEF DrainedMeansOnDisk
  <2>1. writer.pc \in {"top", "waiting", "exited"}
    BY DEF IInv, Control, Drained
  <2>2. \A r \in Readers : reader[r] # "waiting"
    BY DEF IInv, Woken
  <2> QED
    BY <2>1, <2>2 DEF IInv, Quiet, Summed, Drained
<1> QED
  BY <1>1, IInvHolds, PTL

\* Each file holds its events in the order of their calls; rotation keeps the newest
\* lines without a gap, at every one of its file system calls, and never deletes a
\* line that is younger than RotatedFileCount full files unless a close() has lost some.
THEOREM FilesInOrderHolds == Spec => []FilesInOrder
<1>1. Init => CutSound
  <2> SUFFICES ASSUME Init, NEW k \in Kinds
               PROVE  \E cut \in Cuts(history[k]) : CutWell(k, cut)
    BY DEF CutSound
  <2>0. RotatedFileCount \in Nat /\ RotatedFileCount >= 1
    BY LogAssumption
  <2> DEFINE cut == [i \in 1 .. (RotatedFileCount + 1) |-> 0]
  <2>1. /\ history[k] = OldFile /\ file[k].current = OldFile /\ lost[k] = {}
        /\ \A i \in 1 .. RotatedFileCount : file[k].rotated[i] = << >>
        /\ writer.pc = "top"
    BY DEF Init
  <2>o. OldFile \in Seq(Nat) /\ Len(OldFile) \in Nat
    BY LogAssumption DEF OldFile
  <2>2. cut \in Cuts(history[k]) /\ cut[RotatedFileCount + 1] = 0
        /\ \A i \in 1 .. (RotatedFileCount + 1) : cut[i] = 0
    BY <2>0, <2>1, <2>o DEF Cuts
  <2> HIDE DEF cut
  <2>3. /\ \A i \in 1 .. (RotatedFileCount + 1) : Cut(history[k], cut, i) = 0
        /\ Cut(history[k], cut, 0) = Len(OldFile)
    BY <2>0, <2>1, <2>2 DEF Cut
  <2>4. << >> = SubSeq(OldFile, 0 + 1, 0)
    BY <2>o
  <2>7. OldFile = SubSeq(OldFile, 0 + 1, Len(OldFile))
    <3> DEFINE g == SubSeq(OldFile, 0 + 1, Len(OldFile))
    <3>0. 0 \in Nat /\ 0 <= Len(OldFile) /\ Len(OldFile) - 0 = Len(OldFile)
      BY <2>o
    <3>1. g \in Seq(Nat) /\ Len(g) = Len(OldFile) /\ \A j \in 1 .. Len(OldFile) : g[j] = OldFile[0 + j]
      BY <2>o, <3>0, PieceFacts
    <3>2. \A j \in 1 .. Len(OldFile) : 0 + j = j
      BY <2>o
    <3> HIDE DEF g
    <3>3. g = OldFile
      BY <2>o, <3>1, <3>2, SeqEqual
    <3> QED
      BY <3>3 DEF g
  <2>5. Pieces(history[k], file[k], cut)
    <3> SUFFICES ASSUME NEW i \in 0 .. RotatedFileCount
                 PROVE  /\ Cut(history[k], cut, i + 1) <= Cut(history[k], cut, i)
                        /\ FileNumber(file[k], i) =
                             SubSeq(history[k], Cut(history[k], cut, i + 1) + 1, Cut(history[k], cut, i))
      BY DEF Pieces
    <3>1. i + 1 \in 1 .. (RotatedFileCount + 1) /\ Cut(history[k], cut, i + 1) = 0
      BY <2>0, <2>3
    <3>2. CASE i = 0
      BY <2>1, <2>3, <2>7, <2>o, <3>1, <3>2 DEF FileNumber
    <3>3. CASE i # 0
      <4>1. i \in 1 .. RotatedFileCount /\ i \in 1 .. (RotatedFileCount + 1)
        BY <2>0, <3>3
      <4>2. FileNumber(file[k], i) = << >> /\ Cut(history[k], cut, i) = 0
        BY <2>1, <2>3, <3>3, <4>1 DEF FileNumber
      <4> QED
        BY <2>1, <2>4, <3>1, <4>2
    <3> QED
      BY <3>2, <3>3
  <2>6. LongEnough(history[k], cut) /\ Settled(cut) /\ Newest(cut) /\ ~Rotating(k)
    BY <2>0, <2>1, <2>2 DEF LongEnough, Settled, Newest, Rotating
  <2> QED
    BY <2>2, <2>5, <2>6 DEF CutWell
<1>2. CutSound /\ IInv => FilesInOrder
  BY DEF CutSound, CutWell, FilesInOrder, IInv, Ordered
<1>3. IInv /\ CutSound /\ [Next]_vars => CutSound'
  BY CutStep
<1> QED
  BY <1>1, <1>2, <1>3, IInvHolds, PTL DEF Spec
=============================================================================
