------------------------------ MODULE EventLog ------------------------------
(***************************************************************************)
(* The durable event log of the analytics service                          *)
(* (internal/analytics/storage.go), the Shipper that seals, retires and    *)
(* ships its segments (pipeline.go) and the SQLite index that follows it   *)
(* by offsets (eventindex.go).                                             *)
(*                                                                         *)
(* Events are numbered in the order of their appends.  A segment file is   *)
(* the sequence of its lines, and a size or an offset counts lines.  Time  *)
(* passes a day at a time, a day being the rotation period; Shipper and    *)
(* index run beside the appends and share with them only the log's lock    *)
(* and the directory.  A remote store is configured.                       *)
(***************************************************************************)
EXTENDS Naturals, Sequences, FiniteSets

CONSTANTS
  MaxDay, MaxEvents,  \* bounds on the days and on the events appended
  Keep,               \* LogOptions.Retention, in days
  MaxMishaps          \* bound on crashes, failed calls and torn writes

ASSUME EventLogAssumption ==
  MaxDay \in Nat /\ MaxEvents \in Nat /\ Keep \in Nat \ {0} /\ MaxMishaps \in Nat

VARIABLES
  today,      \* the day of the clock
  logged,     \* events handed to Append so far
  segs,       \* the segment files: the lines of each
  remote,     \* events the remote store has
  sent,       \* Shipper.offsets
  sentDisk,   \* shipper.checkpoint
  ship,       \* where ShipNow is, the file it is at, the sizes it listed
  rows,       \* the events in the index's table
  cursor,     \* sqliteEventIndex.cursor
  cursorDisk, \* its checkpoint file
  idx,        \* the scan under way: the segments and lines it has opened
  caughtUp,
  since,      \* coveredSince, 0 for complete history
  mishaps, torn
shipVars  == <<remote, sent, sentDisk, ship>>
indexVars == <<rows, cursor, cursorDisk, idx, caughtUp, since>>
eventLogVars == <<today, logged, segs, shipVars, indexVars, mishaps, torn>>

\* A file by the day it is for, the event a late file was opened for (0: the
\* day's own file) and whether it is compressed.
Segment == [day : 0..MaxDay, own : 0..MaxEvents, zst : BOOLEAN]
RawOf(f) == [day |-> f.day, own |-> f.own, zst |-> FALSE]
ZstOf(f) == [day |-> f.day, own |-> f.own, zst |-> TRUE]
Segments == DOMAIN segs

\* A line cut short, and a line that continues one: neither can be parsed.
TornLine == 0
FusedLine == MaxEvents + 1
LinesOf(s) == {s[i] : i \in DOMAIN s}
EventsOf(s) == LinesOf(s) \cap 1..MaxEvents
Readable(lines) == lines \subseteq 1..MaxEvents
Held == UNION {EventsOf(segs[f]) : f \in Segments}

Offset(o, f) == IF f \in DOMAIN o THEN o[f] ELSE 0
Forget(o, f) == [g \in DOMAIN o \ {f} |-> o[g]]
With(o, f, v) == [g \in DOMAIN o \cup {f} |-> IF g = f THEN v ELSE o[g]]
Merge(new, old) ==
  [g \in DOMAIN new \cup DOMAIN old |-> IF g \in DOMAIN new THEN new[g] ELSE old[g]]
LogLocked == ship.at \in {"sealing", "unlinking"}
Mishap == mishaps < MaxMishaps /\ mishaps' = mishaps + 1
-----------------------------------------------------------------------------
(* fileEventLog.Append *)

\* The file an event of day d goes to: one of its own when the day's file is
\* sealed, or when it is gone and the checkpoint on disk still names it.
AppendFile(d, e) ==
  LET active == [day |-> d, own |-> 0, zst |-> FALSE]
      previouslyShipped ==
        active \notin Segments /\ {active, ZstOf(active)} \cap DOMAIN sentDisk # {}
  IN  IF ZstOf(active) \in Segments \/ previouslyShipped
      THEN [day |-> d, own |-> e, zst |-> FALSE] ELSE active

Write(f, line) ==
  LET before == IF f \in Segments THEN segs[f] ELSE <<>>
  IN  segs' = With(segs, f, Append(before, line))

AppendEvent(d) ==
  /\ logged < MaxEvents /\ ~LogLocked
  /\ logged' = logged + 1
  /\ LET f == AppendFile(d, logged + 1)
         fuses == f \in Segments /\ segs[f][Len(segs[f])] = TornLine
     IN  \/ Write(f, IF fuses THEN FusedLine ELSE logged + 1) /\ UNCHANGED <<mishaps, torn>>
         \/ Mishap /\ Write(f, TornLine) /\ torn' = TRUE
  /\ UNCHANGED <<today, shipVars, indexVars>>

NextDay == /\ today < MaxDay /\ today' = today + 1
           /\ UNCHANGED <<logged, segs, shipVars, indexVars, mishaps, torn>>
-----------------------------------------------------------------------------
(* Shipper.ShipNow: Seal under the log's lock, then the upload. *)

NoFile == [day |-> 0, own |-> 0, zst |-> FALSE]
Idle == [at |-> "idle", file |-> NoFile, todo |-> <<>>]

Sealable == {f \in Segments : ~f.zst /\ f.day < today}

\* A round begins with the first file there is to seal, to retire or to ship.
\* The compressed copy takes its name ...
Compress(f) ==
  /\ ship.at \in {"idle", "sealing"} /\ f \in Sealable
  /\ segs' = With(segs, ZstOf(f), segs[f])
  /\ ship' = [ship EXCEPT !.at = "unlinking", !.file = f]
  /\ UNCHANGED <<today, logged, remote, sent, sentDisk, indexVars, mishaps, torn>>

\* ... and then the plain file goes.
Unlink ==
  /\ ship.at = "unlinking"
  /\ segs' = Forget(segs, ship.file)
  /\ ship' = [Idle EXCEPT !.at = "sealing"]
  /\ UNCHANGED <<today, logged, remote, sent, sentDisk, indexVars, mishaps, torn>>

\* Mutant: retention looks at the age alone.
RetirableByAge == {f \in Segments : f.day + Keep <= today}

\* What retention removes: old enough, and wholly shipped as far as the
\* checkpoint on disk says.
Retirable == {f \in Segments : f.day + Keep <= today /\ Offset(sentDisk, f) = Len(segs[f])}

Retire(f) ==
  /\ ship.at \in {"idle", "sealing"} /\ Sealable = {} /\ f \in Retirable
  /\ segs' = Forget(segs, f)
  /\ ship' = [ship EXCEPT !.at = "sealing"]
  /\ UNCHANGED <<today, logged, remote, sent, sentDisk, indexVars, mishaps, torn>>

\* Seal returns and lets go of the lock; the listing fixes the size up to
\* which each segment is shipped.
ListSegments ==
  LET todo == {f \in Segments : Offset(sent, f) # Len(segs[f])}
  IN  /\ ship.at = "sealing" \/ (ship.at = "idle" /\ todo # {})
      /\ Sealable = {} /\ Retirable = {}
      /\ ship' = IF todo = {} THEN Idle
                 ELSE [Idle EXCEPT !.at = "shipping", !.todo = [f \in todo |-> Len(segs[f])]]
      /\ UNCHANGED <<today, logged, segs, remote, sent, sentDisk, indexVars, mishaps, torn>>

\* The bytes of f from its offset to the listed size, from the start when the
\* offset is past it.
Payload(f) ==
  LET offset == IF Offset(sent, f) > ship.todo[f] THEN 0 ELSE Offset(sent, f)
  IN  EventsOf(SubSeq(segs[f], offset + 1, ship.todo[f]))

\* Put succeeds, or fails with or without the object having arrived.
Put(f) ==
  /\ ship.at = "shipping" /\ f \in DOMAIN ship.todo
  /\ \/ /\ remote' = remote \cup Payload(f)
        /\ ship' = [ship EXCEPT !.at = "saving", !.file = f] /\ UNCHANGED mishaps
     \/ /\ Mishap /\ remote' \in {remote, remote \cup Payload(f)}
        /\ ship' = Idle
  /\ UNCHANGED <<today, logged, segs, sent, sentDisk, indexVars, torn>>

AfterFile == IF DOMAIN ship.todo = {ship.file} THEN Idle
             ELSE [Idle EXCEPT !.at = "shipping", !.todo = Forget(ship.todo, ship.file)]

\* Mutant: the save writes what the segment has now, not what was listed.
SaveCheckpointOfGrown ==
  /\ ship.at = "saving"
  /\ sent' = With(sent, ship.file, Len(segs[ship.file])) /\ sentDisk' = sent'
  /\ ship' = AfterFile
  /\ UNCHANGED <<today, logged, segs, remote, indexVars, mishaps, torn>>

\* The offset is advanced and saved; a failed save takes it back.
SaveCheckpoint ==
  /\ ship.at = "saving"
  /\ \/ /\ sent' = With(sent, ship.file, ship.todo[ship.file]) /\ sentDisk' = sent'
        /\ ship' = AfterFile
        /\ UNCHANGED mishaps
     \/ Mishap /\ ship' = Idle /\ UNCHANGED <<sent, sentDisk>>
  /\ UNCHANGED <<today, logged, segs, remote, indexVars, torn>>
-----------------------------------------------------------------------------
(* The index: catchUpBatch and refreshTails *)

NoScan == [at |-> "idle", marks |-> <<>>, lines |-> {}, batch |-> FALSE, more |-> FALSE, upTo |-> 0]

\* A sealed segment whose plain file the cursor knows is taken to be read.
SealedBefore(f) == f.zst /\ RawOf(f) \in DOMAIN cursor

\* Where reading f starts: an offset into a compressed file is complete or of
\* no use.
ReadFrom(f) == IF f.zst /\ Offset(cursor, f) < Len(segs[f]) THEN 0 ELSE Offset(cursor, f)
Pending == {f \in Segments : ~SealedBefore(f) /\ ReadFrom(f) < Len(segs[f])}
AppendedTo == {f \in Pending : ReadFrom(f) > 0}
Newest(S) == {f \in S : \A g \in S : g.day <= f.day}

\* openSegmentsLocked, newest first: every segment that has grown and, for a
\* batch, one of the others; what is opened is pinned at its size.
OpenBatch(batch) ==
  /\ idx.at = "idle" /\ ~LogLocked
  /\ cursor' = Merge([f \in {g \in Segments : SealedBefore(g)} |-> Len(segs[f])], cursor)
  /\ LET heads == Pending \ AppendedTo
     IN  \E head \in IF batch /\ heads # {} THEN {{h} : h \in Newest(heads)} ELSE {{}} :
           LET opened == AppendedTo \cup head
           IN  idx' = [at |-> "open", batch |-> batch, more |-> batch /\ heads # head,
                       marks |-> [f \in opened |-> Len(segs[f])],
                       lines |-> UNION {LinesOf(SubSeq(segs[f], ReadFrom(f) + 1, Len(segs[f])))
                                        : f \in opened},
                       upTo |-> logged]
  /\ UNCHANGED <<today, logged, segs, shipVars, rows, cursorDisk, caughtUp, since, mishaps, torn>>

\* Mutant: whatever the cursor knows counts as read.
UnreadIfUnknown(c) == {f \in Segments : {f, RawOf(f)} \cap DOMAIN c = {}}

\* What coverage takes to be unread, with cursor c ...
Unread(c) == {f \in Segments : /\ Offset(c, f) < Len(segs[f])
                               /\ ~(f.zst /\ RawOf(f) \in DOMAIN c)}
\* ... and the time it answers: the end of the newest unread segment's day.
Coverage(c) == IF Unread(c) = {} THEN 0
               ELSE (CHOOSE f \in Newest(Unread(c)) : TRUE).day + 1

\* A scan that meets a line it cannot parse stops there, every time; one the
\* database fails may stop anywhere.  What it has read is some part of what
\* it had opened.
ScanStops ==
  /\ idx.at = "open"
  /\ \E got \in SUBSET (idx.lines \cap 1..MaxEvents) : rows' = rows \cup got
  /\ IF Readable(idx.lines) THEN Mishap ELSE UNCHANGED mishaps
  /\ caughtUp' = (caughtUp /\ ~idx.batch)
  /\ idx' = NoScan
  /\ UNCHANGED <<today, logged, segs, shipVars, cursor, cursorDisk, since, torn>>

\* The scan ends, the cursor moves to what was opened and is saved.
ScanEnds ==
  /\ idx.at = "open" /\ Readable(idx.lines)
  /\ rows' = rows \cup idx.lines
  /\ cursor' = Merge(idx.marks, cursor)
  /\ \/ /\ cursorDisk' = cursor' /\ since' = Coverage(cursor')
        /\ caughtUp' = (IF idx.batch THEN ~idx.more ELSE caughtUp)
        /\ UNCHANGED mishaps
     \/ /\ Mishap /\ caughtUp' = (caughtUp /\ ~idx.batch)
        /\ UNCHANGED <<cursorDisk, since>>
  /\ idx' = NoScan
  /\ UNCHANGED <<today, logged, segs, shipVars, torn>>
-----------------------------------------------------------------------------
\* The process dies and starts again: files and rows stay, offsets and cursor
\* are read back, and the coverage is computed before the first scan.
EventLogCrash ==
  /\ Mishap
  /\ \E got \in SUBSET (idx.lines \cap 1..MaxEvents) : rows' = rows \cup got
  /\ sent' = sentDisk /\ cursor' = cursorDisk
  /\ ship' = Idle /\ idx' = NoScan
  /\ caughtUp' = FALSE /\ since' = Coverage(cursorDisk)
  /\ UNCHANGED <<today, logged, segs, remote, sentDisk, cursorDisk, torn>>

EventLogInit ==
  /\ today = 0 /\ logged = 0 /\ segs = <<>> /\ mishaps = 0 /\ torn = FALSE
  /\ remote = {} /\ sent = <<>> /\ sentDisk = <<>> /\ ship = Idle
  /\ rows = {} /\ cursor = <<>> /\ cursorDisk = <<>> /\ idx = NoScan
  /\ caughtUp = FALSE /\ since = 0

ShipNow == \/ Unlink \/ ListSegments \/ SaveCheckpoint
           \/ \E f \in Segments : Compress(f) \/ Retire(f) \/ Put(f)
Index == \/ \E batch \in BOOLEAN : OpenBatch(batch)
         \/ ScanStops \/ ScanEnds

EventLogNext == \/ \E d \in 0..today : AppendEvent(d)
                \/ NextDay \/ ShipNow \/ Index \/ EventLogCrash

\* Shipper and index are driven by tickers; a batch is queued every second and
\* gets the index's mutex and the log's in its turn, also between refreshes.
EventLogFairness == /\ WF_eventLogVars(ShipNow) /\ SF_eventLogVars(OpenBatch(TRUE))
                    /\ WF_eventLogVars(ScanStops \/ ScanEnds)
-----------------------------------------------------------------------------
IsOffsets(o) == DOMAIN o \subseteq Segment /\ \A f \in DOMAIN o : o[f] \in 0..MaxEvents

\* Every variable of the log, its Shipper and its index has its type.
EventLogTypeOK ==
  /\ today \in 0..MaxDay /\ logged \in 0..MaxEvents /\ mishaps \in 0..MaxMishaps
  /\ torn \in BOOLEAN /\ caughtUp \in BOOLEAN /\ since \in 0..MaxDay + 1
  /\ Segments \subseteq Segment
  /\ \A f \in Segments : segs[f] \in Seq(0..MaxEvents + 1) /\ segs[f] # <<>>
  /\ IsOffsets(sent) /\ IsOffsets(sentDisk) /\ IsOffsets(cursor) /\ IsOffsets(cursorDisk)
  /\ remote \subseteq 1..MaxEvents /\ rows \subseteq 1..MaxEvents
  /\ ship.at \in {"idle", "sealing", "unlinking", "shipping", "saving"}
  /\ ship.file \in Segment /\ IsOffsets(ship.todo)
  /\ idx.at \in {"idle", "open"} /\ IsOffsets(idx.marks) /\ idx.lines \subseteq 0..MaxEvents + 1

\* An event leaves the log for good only when it is at the remote store and
\* old enough, whatever uploads and saves have failed, whichever crash left a
\* segment in two files: fileEventLog.Seal, "Retention must not outrun remote
\* durability".
RetentionWaitsForRemote ==
  [][\A f \in Segments : \A e \in EventsOf(segs[f]) :
        (\A g \in DOMAIN segs' : e \notin EventsOf(segs'[g]))
           => e \in remote /\ f.day + Keep <= today]_eventLogVars

\* No offset runs ahead of the table: the lines of a segment below its cursor,
\* in memory or on disk, are rows, also after the segment was sealed; so what
\* a crash or a failed scan loses is read again.
ReadUpToCursor ==
  \A c \in {cursor, cursorDisk} : \A f \in Segments :
    LET known == IF f.zst /\ RawOf(f) \notin DOMAIN c
                 THEN (IF Offset(c, f) >= Len(segs[f]) THEN Len(segs[f]) ELSE 0)
                 ELSE Offset(c, RawOf(f))
    IN  known <= Len(segs[f]) /\ EventsOf(SubSeq(segs[f], 1, known)) \subseteq rows

\* The lines written to a segment after the last scan that saw it and before
\* it was sealed: the index takes the sealed segment for read.
SealedUnread == UNION {EventsOf(SubSeq(segs[f], cursor[RawOf(f)] + 1, Len(segs[f])))
                       : f \in {g \in Segments : SealedBefore(g)}}
\* The events of the days from d on that are logged by now, n of them.
EventsSince(d, n) ==
  {e \in 1..n : \E f \in Segments : f.day >= d /\ e \in EventsOf(segs[f])}

\* What the index answers for.  When it reports where the indexed history
\* starts, every retained event from there on is a row; when it reports that
\* it has caught up, every retained event logged before the scan began is
\* one.  Only the lines a segment got between its last scan and its sealing
\* are excepted.
CoverageKeepsItsWord ==
  ScanEnds /\ mishaps' = mishaps =>
    /\ EventsSince(since', logged) \subseteq rows' \cup SealedUnread'
    /\ idx.batch /\ caughtUp' => EventsSince(0, idx.upTo) \subseteq rows' \cup SealedUnread'

\* What the index says of itself is true: its cursor names only what is in the
\* table, and its coverage only what it has.
IndexKeepsItsWord == [][EventLogTypeOK' /\ ReadUpToCursor' /\ CoverageKeepsItsWord]_eventLogVars

\* With no line torn, every event appended is indexed in the end, unless it
\* leaves the log or was in the unread end of a segment that was sealed.
EventsGetIndexed ==
  \A e \in 1..MaxEvents : e \in Held ~> e \in rows \cup SealedUnread \/ e \notin Held \/ torn

\* Every event appended reaches the remote store, over failed uploads, failed
\* saves and crashes.
EventsGetShipped == \A e \in 1..MaxEvents : e \in Held ~> e \in remote

\* An appended event arrives wherever it is to go.
EventsArrive == EventsGetIndexed /\ EventsGetShipped
=============================================================================
