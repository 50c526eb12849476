----------------------------- MODULE LogManager -----------------------------
(***************************************************************************)
(* LogManager: producers put events into a bounded queue; one writer       *)
(* thread moves them to access.log and error.log, rotates the files and    *)
(* reports what an overload dropped; flush() and recent_lines() wait for   *)
(* the writer.  A step is a critical section of mutex_, or a step of the   *)
(* writer on its files.                                                    *)
(*                                                                         *)
(* An event is its kind and the number of the call that made it; a line    *)
(* that reports drops, or that an earlier process wrote, is 0.  A file     *)
(* holds MaxFileLines lines.  A stream keeps lines in its buffer until it  *)
(* is flushed or closed; the code tests a stream after write() and open(), *)
(* and never after flush() or close().                                     *)
(***************************************************************************)
EXTENDS Naturals, Sequences, FiniteSets, SequencesExt, FiniteSetsExt

CONSTANTS
  QueueCapacity,      \* options_.queue_capacity
  MaxFileLines,       \* options_.max_file_bytes, in lines
  RotatedFileCount,   \* options_.rotated_file_count
  OldLines,           \* lines that an earlier process left in each file
  Readers,            \* threads that call flush() or recent_lines()
  MaxEvents,          \* bound on log_access and log_error calls
  MaxFailures         \* bound on failed allocations and file operations

ASSUME LogAssumption ==
  /\ QueueCapacity \in Nat /\ QueueCapacity >= 2
  /\ MaxFileLines \in Nat \ {0} /\ RotatedFileCount \in Nat \ {0}
  /\ OldLines \in Nat
  /\ MaxEvents \in Nat /\ MaxFailures \in Nat

Kinds == {"access", "error"}

VARIABLES
  queue,       \* queue_
  accepted, dropped, reported,  \* the counters, for each kind
  submitted,   \* calls so far: numbers the events
  stopping,    \* stopping_
  busy,        \* writer_busy_
  writer,      \* the writer thread: where it is, the line in its hands
  file,        \* the two RotatingFiles with their rotated predecessors
  history,     \* every line ever written to each, but for those lost
  lost,        \* the lines of each that a close() failed to write
  notices,     \* producers between their unlock and ready_.notify_one()
  reader,      \* the threads in flush() and recent_lines()
  failures,    \* failures so far
  failed,      \* the writer died of an exception
  thrown       \* an enqueue() failed to allocate

vars == << queue, accepted, dropped, reported, submitted, stopping, busy, writer, file,
           history, lost, notices, reader, failures, failed, thrown >>

\* unflushed: lines at the end of current that may still be in the stream's buffer;
\* bad: its badbit, which a failed flush() leaves set.
File == [current: Seq(Nat), unflushed: Nat, bad: BOOLEAN,
         rotated: [1 .. RotatedFileCount -> Seq(Nat)]]

\* The writer's place in its loop, the line in its hands with its kind, where
\* write_line returns to, the file rotate() is at, and whether this is the last round.
Writer == [pc: {"top", "waiting", "write", "rotate", "check", "summary", "flush", "release",
                "exited"},
           kind: Kinds, line: Nat, next: {"check", "flush"},
           index: 0 .. (RotatedFileCount + 1), last: BOOLEAN]

Event == [kind: Kinds, id: 1 .. MaxEvents]

\* A thread outside flush(), about to look at its condition, or waiting for it.
Reading == {"away", "flush", "waiting"}

-----------------------------------------------------------------------------
\* What open_file finds and appends to.
OldFile == [i \in 1 .. OldLines |-> 0]

Init ==
  /\ queue = << >>
  /\ accepted = [k \in Kinds |-> 0] /\ dropped = accepted /\ reported = accepted
  /\ submitted = 0
  /\ stopping = FALSE /\ busy = FALSE
  /\ writer = [pc |-> "top", kind |-> "error", line |-> 0, next |-> "check",
               index |-> 0, last |-> FALSE]
  /\ file = [k \in Kinds |-> [current |-> OldFile, unflushed |-> 0, bad |-> FALSE,
                              rotated |-> [i \in 1 .. RotatedFileCount |-> << >>]]]
  /\ history = [k \in Kinds |-> OldFile] /\ lost = [k \in Kinds |-> {}]
  /\ notices = 0
  /\ reader = [r \in Readers |-> "away"]
  /\ failures = 0 /\ failed = FALSE /\ thrown = FALSE

-----------------------------------------------------------------------------
(* Producers                                                               *)

Destroyed == stopping /\ ~failed

Bump(counter, k) == [counter EXCEPT ![k] = @ + 1]

Queued(k) == {i \in DOMAIN queue : queue[i].kind = k}
\* Where std::find_if stops.
OldestAccess == {i \in Queued("access") : \A j \in Queued("access") : i <= j}

Full == Len(queue) >= QueueCapacity

\* An event is turned away: by a dead writer, or by a full queue unless it is an
\* error and an access event can make room.
TurnedAway(k) == stopping \/ (Full /\ (k = "access" \/ Queued("access") = {}))

Drop(k) ==
  /\ TurnedAway(k)
  /\ dropped' = Bump(dropped, k)
  /\ UNCHANGED << queue, accepted, notices, failures, thrown >>

\* The oldest access event makes room for an error.
Evicting(k) == Full /\ k = "error"

\* The queue as push_back finds it.
RoomFor(k) == IF Evicting(k) THEN {RemoveAt(queue, i) : i \in OldestAccess} ELSE {queue}

\* Mutant: the evicted access event stays counted as accepted.
AcceptUncounted(k) ==
  /\ ~TurnedAway(k)
  /\ \E q \in RoomFor(k) : queue' = Append(q, [kind |-> k, id |-> submitted'])
  /\ dropped' = IF Evicting(k) THEN Bump(dropped, "access") ELSE dropped
  /\ accepted' = Bump(accepted, k)
  /\ notices' = notices + 1
  /\ UNCHANGED << failures, thrown >>

Accept(k) ==
  /\ ~TurnedAway(k)
  /\ \E q \in RoomFor(k) : queue' = Append(q, [kind |-> k, id |-> submitted'])
  /\ dropped' = IF Evicting(k) THEN Bump(dropped, "access") ELSE dropped
  /\ accepted' = Bump(IF Evicting(k) THEN [accepted EXCEPT !["access"] = @ - 1]
                      ELSE accepted, k)
  /\ notices' = notices + 1
  /\ UNCHANGED << failures, thrown >>

\* push_back throws: the event is lost and counted, and so is what made room.
AllocationFails(k) ==
  /\ ~TurnedAway(k) /\ failures < MaxFailures
  /\ failures' = failures + 1 /\ thrown' = TRUE
  /\ queue' \in RoomFor(k)
  /\ accepted' = IF Evicting(k) THEN [accepted EXCEPT !["access"] = @ - 1] ELSE accepted
  /\ dropped' = Bump(IF Evicting(k) THEN Bump(dropped, "access") ELSE dropped, k)
  /\ UNCHANGED notices

\* log_access and log_error
Enqueue(k) ==
  /\ ~Destroyed /\ submitted < MaxEvents
  /\ submitted' = submitted + 1
  /\ Drop(k) \/ Accept(k) \/ AllocationFails(k)
  /\ UNCHANGED << reported, stopping, busy, writer, file, history, lost, reader, failed >>

\* ready_.notify_one(), after the unlock.
NotifyReady ==
  /\ notices > 0 /\ notices' = notices - 1
  /\ writer' = IF writer.pc = "waiting" THEN [writer EXCEPT !.pc = "top"] ELSE writer
  /\ UNCHANGED << queue, accepted, dropped, reported, submitted, stopping, busy, file,
                  history, lost, reader, failures, failed, thrown >>

-----------------------------------------------------------------------------
(* The writer                                                              *)

UnchangedCounters == UNCHANGED << accepted, dropped, submitted, failures, failed, thrown >>

NotifyDrained ==
  reader' = [r \in Readers |-> IF reader[r] = "waiting" THEN "flush" ELSE reader[r]]

\* Mutant: the writer takes an event without marking itself busy.
WriterTopIdle ==
  /\ writer.pc = "top"
  /\ queue # << >>
  /\ queue' = Tail(queue)
  /\ writer' = [writer EXCEPT !.pc = "write", !.kind = Head(queue).kind,
                              !.line = Head(queue).id, !.next = "check"]
  /\ UnchangedCounters
  /\ UNCHANGED << busy, reported, stopping, file, history, lost, notices, reader >>

\* The wait on ready_ and what follows it under the lock.
WriterTop ==
  /\ writer.pc = "top"
  /\ \/ /\ queue = << >> /\ ~stopping
        /\ writer' = [writer EXCEPT !.pc = "waiting"]
        /\ UNCHANGED << queue, busy >>
     \/ /\ queue = << >> /\ stopping
        /\ busy' = TRUE
        /\ writer' = [writer EXCEPT !.pc = "summary", !.last = TRUE]
        /\ UNCHANGED queue
     \/ /\ queue # << >>
        /\ busy' = TRUE
        /\ queue' = Tail(queue)
        /\ writer' = [writer EXCEPT !.pc = "write", !.kind = Head(queue).kind,
                                    !.line = Head(queue).id, !.next = "check"]
  /\ UnchangedCounters
  /\ UNCHANGED << reported, stopping, file, history, lost, notices, reader >>

NeedsRotation(f) == f.current # << >> /\ Len(f.current) + 1 > MaxFileLines

\* flush(): a stream with its badbit set does nothing.
Flushed(f) == IF f.bad THEN f ELSE [f EXCEPT !.unflushed = 0]
Written(f, line) == [f EXCEPT !.current = Append(@, line), !.unflushed = @ + 1]

\* write_line, when the file has room and the stream is good.
WriteLine ==
  /\ writer.pc = "write"
  /\ ~NeedsRotation(file[writer.kind]) /\ ~file[writer.kind].bad
  /\ file' = [file EXCEPT ![writer.kind] = Written(@, writer.line)]
  /\ history' = [history EXCEPT ![writer.kind] = Append(@, writer.line)]
  /\ writer' = [writer EXCEPT !.pc = writer.next]
  /\ UnchangedCounters
  /\ UNCHANGED << queue, reported, stopping, busy, lost, notices, reader >>

\* A sequence without its last n elements, and the set of these.
WithoutLast(s, n) == SubSeq(s, 1, Len(s) - n)
LastOf(s, n) == {s[i] : i \in (Len(s) - n + 1) .. Len(s)}

\* rotate() closes the stream first.  That writes what is still buffered, or fails,
\* which nobody looks at: the last n lines of the file are gone.  The close of a
\* stream whose flush() failed tries once more, and may fail with no new cause.
CloseStream ==
  LET k == writer.kind IN
  /\ writer.pc = "write" /\ NeedsRotation(file[k])
  /\ \E n \in 0 .. file[k].unflushed :
       /\ \/ n = 0 \/ file[k].bad
          \/ failures < MaxFailures
       /\ failures' = IF n = 0 \/ file[k].bad THEN failures ELSE failures + 1
       /\ file' = [file EXCEPT ![k].current = WithoutLast(@, n), ![k].unflushed = 0]
       /\ history' = [history EXCEPT ![k] = WithoutLast(@, n)]
       /\ lost' = [lost EXCEPT ![k] = @ \cup LastOf(history[k], n)]
  /\ writer' = [writer EXCEPT !.pc = "rotate", !.index = RotatedFileCount + 1]
  /\ UNCHANGED << queue, accepted, dropped, reported, submitted, stopping, busy, notices,
                  reader, failed, thrown >>

\* Rename number i - 1 to number i; the current file to number 1, and open a new one.
MoveUp(f, i) ==
  [f EXCEPT !.rotated = [f.rotated EXCEPT ![i] = f.rotated[i - 1], ![i - 1] = << >>]]
MoveCurrent(f) == [current |-> << >>, unflushed |-> 0, bad |-> FALSE,
                   rotated |-> [f.rotated EXCEPT ![1] = f.current]]

\* Mutant: the rotated files do not move up.
MovedOver(f, i) == IF i > 1 THEN f ELSE MoveCurrent(f)

\* One file system call of rotate(): the oldest goes, the others move up, the
\* current file becomes number 1.
Moved(f, i) ==
  IF i > RotatedFileCount
  THEN [f EXCEPT !.rotated = [f.rotated EXCEPT ![RotatedFileCount] = << >>]]
  ELSE IF i = 1 THEN MoveCurrent(f)
  ELSE IF f.rotated[i - 1] = << >> THEN f ELSE MoveUp(f, i)

Rotate ==
  /\ writer.pc = "rotate"
  /\ file' = [file EXCEPT ![writer.kind] = Moved(@, writer.index)]
  /\ writer' = IF writer.index = 1 THEN [writer EXCEPT !.pc = "write"]
               ELSE [writer EXCEPT !.index = @ - 1]
  /\ UnchangedCounters
  /\ UNCHANGED << queue, reported, stopping, busy, history, lost, notices, reader >>

CheckEmpty ==
  /\ writer.pc = "check"
  /\ writer' = [writer EXCEPT !.pc = IF queue = << >> THEN "summary" ELSE "release"]
  /\ UnchangedCounters
  /\ UNCHANGED << queue, reported, stopping, busy, file, history, lost, notices, reader >>

WriteDropSummary ==
  /\ writer.pc = "summary"
  /\ reported' = dropped
  /\ writer' = IF reported = dropped THEN [writer EXCEPT !.pc = "flush"]
               ELSE [writer EXCEPT !.pc = "write", !.kind = "error", !.line = 0,
                                   !.next = "flush"]
  /\ UnchangedCounters
  /\ UNCHANGED << queue, stopping, busy, file, history, lost, notices, reader >>

FlushStreams ==
  /\ writer.pc = "flush"
  /\ file' = [k \in Kinds |-> Flushed(file[k])]
  /\ writer' = [writer EXCEPT !.pc = "release"]
  /\ UnchangedCounters
  /\ UNCHANGED << queue, reported, stopping, busy, history, lost, notices, reader >>

\* The flush() of one stream fails, which nobody looks at.
FlushFails(k) ==
  /\ writer.pc = "flush" /\ file[k].unflushed > 0 /\ ~file[k].bad
  /\ failures < MaxFailures /\ failures' = failures + 1
  /\ file' = [file EXCEPT ![k].bad = TRUE]
  /\ UNCHANGED << queue, accepted, dropped, reported, submitted, stopping, busy, writer,
                  history, lost, notices, reader, failed, thrown >>

\* Mutant: only the end of the thread wakes those who wait in flush().
ReleaseWriterQuietly ==
  /\ writer.pc = "release"
  /\ busy' = FALSE
  /\ IF writer.last THEN NotifyDrained ELSE UNCHANGED reader
  /\ writer' = [writer EXCEPT !.pc = IF writer.last THEN "exited" ELSE "top"]
  /\ UnchangedCounters
  /\ UNCHANGED << queue, reported, stopping, file, history, lost, notices >>

\* writer_busy_ = false, and the end of the loop's body or of the thread.
ReleaseWriter ==
  /\ writer.pc = "release"
  /\ busy' = FALSE
  /\ IF queue = << >> \/ writer.last THEN NotifyDrained ELSE UNCHANGED reader
  /\ writer' = [writer EXCEPT !.pc = IF writer.last THEN "exited" ELSE "top"]
  /\ UnchangedCounters
  /\ UNCHANGED << queue, reported, stopping, file, history, lost, notices >>

\* The writer's catch block: the thread gives up for good.
Dies ==
  /\ failed' = TRUE
  /\ writer' = [writer EXCEPT !.pc = "exited"]
  /\ busy' = FALSE /\ stopping' = TRUE /\ queue' = << >>
  /\ NotifyDrained
  /\ UNCHANGED << accepted, dropped, reported, submitted, file, history, lost, notices,
                  thrown >>

\* A write, a rename or a reopen fails.
WriterFails ==
  /\ writer.pc \in {"write", "rotate"}
  /\ failures < MaxFailures /\ failures' = failures + 1
  /\ Dies

\* write_line finds the badbit that a failed flush() has left.
WriteToBadStream ==
  /\ writer.pc = "write"
  /\ ~NeedsRotation(file[writer.kind]) /\ file[writer.kind].bad
  /\ Dies
  /\ UNCHANGED failures

\* The destructor: the last owner is gone, so nobody logs or reads.
Destroy ==
  /\ ~stopping
  /\ notices = 0 /\ \A r \in Readers : reader[r] = "away"
  /\ stopping' = TRUE
  /\ writer' = IF writer.pc = "waiting" THEN [writer EXCEPT !.pc = "top"] ELSE writer
  /\ UnchangedCounters
  /\ UNCHANGED << queue, reported, busy, file, history, lost, notices, reader >>

-----------------------------------------------------------------------------
(* flush() and recent_lines(), which begins with it                        *)

UnchangedForReaders ==
  UNCHANGED << queue, accepted, dropped, reported, submitted, stopping, busy, writer, file,
               history, lost, notices, failures, failed, thrown >>

CallFlush(r) ==
  /\ ~Destroyed /\ reader[r] = "away"
  /\ reader' = [reader EXCEPT ![r] = "flush"]
  /\ UnchangedForReaders

Drained == queue = << >> /\ ~busy

Flush(r) ==
  /\ reader[r] = "flush"
  /\ reader' = [reader EXCEPT ![r] = IF Drained THEN "away" ELSE "waiting"]
  /\ UnchangedForReaders

-----------------------------------------------------------------------------
WriterStep ==
  \/ WriterTop \/ WriteLine \/ CloseStream \/ Rotate \/ CheckEmpty \/ WriteDropSummary
  \/ FlushStreams \/ ReleaseWriter \/ WriteToBadStream

Next ==
  \/ \E k \in Kinds : Enqueue(k) \/ FlushFails(k)
  \/ NotifyReady
  \/ WriterStep \/ WriterFails
  \/ Destroy
  \/ \E r \in Readers : Flush(r) \/ CallFlush(r)

Spec == Init /\ [][Next]_vars

\* Threads are scheduled; nobody has to log, flush or destroy.
Fairness ==
  /\ WF_vars(WriterStep) /\ WF_vars(NotifyReady)
  /\ \A r \in Readers : WF_vars(Flush(r))

FairSpec == Spec /\ Fairness

-----------------------------------------------------------------------------
(* Properties                                                              *)

\* Every variable has its type, and the queue is bounded.
TypeOK ==
  /\ queue \in Seq(Event) /\ Len(queue) <= QueueCapacity
  /\ accepted \in [Kinds -> Nat] /\ dropped \in [Kinds -> Nat]
  /\ reported \in [Kinds -> Nat] /\ submitted \in 0 .. MaxEvents
  /\ stopping \in BOOLEAN /\ busy \in BOOLEAN
  /\ writer \in Writer
  /\ file \in [Kinds -> File] /\ history \in [Kinds -> Seq(Nat)]
  /\ lost \in [Kinds -> SUBSET Nat]
  /\ notices \in Nat /\ reader \in [Readers -> Reading]
  /\ failures \in 0 .. MaxFailures /\ failed \in BOOLEAN /\ thrown \in BOOLEAN

\* The events of a kind in a queue.
Ids(q, k) == {q[i].id : i \in {j \in DOMAIN q : q[j].kind = k}}

\* The events of a kind that are in the writer's hands.
InHand(k) ==
  IF writer.pc \in {"write", "rotate"} /\ writer.kind = k THEN {writer.line} \ {0} ELSE {}

\* The events of a kind that were written to its file, lost by its close() or not.
Handed(k) == (Range(history[k]) \cup lost[k]) \ {0}

\* The events of a kind that were written, are in the queue or in the writer's hands.
Kept(k) == Handed(k) \cup Ids(queue, k) \cup InHand(k)

\* LoggingTests.cpp:158: every call is accepted or dropped, through evictions and
\* failed allocations; and the events that are accepted are those that wait or have
\* been handed to their file, where only a failed close() takes lines away.
AccountingExact ==
  /\ accepted["access"] + accepted["error"] + dropped["access"] + dropped["error"] = submitted
  /\ ~failed => \A k \in Kinds : accepted[k] = Cardinality(Kept(k))

Increasing(lines) ==
  \A i, j \in DOMAIN lines : i < j /\ lines[i] # 0 /\ lines[j] # 0 => lines[i] < lines[j]

\* Number 0 is the current file.
FileNumber(f, i) == IF i = 0 THEN f.current ELSE f.rotated[i]

\* Where a history h can be cut into files, and the cut in front of number i: the
\* last line that is not in a younger file.
Cuts(h) == [1 .. (RotatedFileCount + 1) -> 0 .. Len(h)]
Cut(h, cut, i) == IF i = 0 THEN Len(h) ELSE cut[i]

\* The files are consecutive pieces of the history.
Pieces(h, f, cut) ==
  \A i \in 0 .. RotatedFileCount :
    /\ Cut(h, cut, i + 1) <= Cut(h, cut, i)
    /\ FileNumber(f, i) = SubSeq(h, Cut(h, cut, i + 1) + 1, Cut(h, cut, i))

\* What rotation has deleted is older than RotatedFileCount full files.
LongEnough(h, cut) ==
  \/ cut[RotatedFileCount + 1] = 0
  \/ Len(h) - cut[RotatedFileCount + 1] >= RotatedFileCount * MaxFileLines

\* Each file holds its events in the order of their calls; and rotation, at every
\* one of its file system calls, keeps the newest lines without a gap, at least
\* RotatedFileCount full files of them unless a close() has lost some.
FilesInOrder ==
  \A k \in Kinds :
    /\ Increasing(history[k])
    /\ \E cut \in Cuts(history[k]) :
         /\ Pieces(history[k], file[k], cut)
         /\ lost[k] = {} => LongEnough(history[k], cut)

\* What flush() waits for: when the queue is empty and the writer idle, whoever made
\* them so has woken all that wait; every drop has been reported; and every line has
\* left the stream's buffer, except where a flush() of the stream has failed, at which
\* the code does not look.
DrainedMeansOnDisk ==
  Drained =>
    /\ \A r \in Readers : reader[r] # "waiting"
    /\ ~failed => \A k \in Kinds : file[k].unflushed = 0 \/ file[k].bad
    /\ ~failed /\ ~thrown => reported = dropped

\* From some time on nothing is logged.
LoggingPauses == <>[][submitted' = submitted]_vars

\* Once logging pauses, flush() returns, whether the writer lives or dies (under
\* steady logging it may wait for ever, for it needs the queue empty and the writer
\* idle at once); and so does the destructor, for which the writer empties the queue
\* and exits.
NobodyWaitsForever ==
  /\ LoggingPauses => \A r \in Readers : reader[r] \in {"flush", "waiting"} ~> reader[r] = "away"
  /\ stopping ~> writer.pc = "exited" /\ queue = << >>

=============================================================================
