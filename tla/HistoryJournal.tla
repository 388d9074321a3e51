--------------------------- MODULE HistoryJournal ---------------------------
(***************************************************************************)
(* The commit journal on disk (pkg/openlore/history_blobs.go): commits     *)
(* append to commits.jsonl; once a day a maintenance goroutine seals it    *)
(* into a segment, compresses the segment and removes expired ones; the    *)
(* analytics pipeline follows the records with a cursor; garbage           *)
(* collection follows them with a cursor of its own and then deletes the   *)
(* pre-image blobs that no record refers to.                               *)
(*                                                                         *)
(* Appends, maintenance and collection exclude each other only in part:    *)
(* collection runs in the applier, so nothing is appended meanwhile, and   *)
(* detaching the journal holds the appenders' lock.  The cursors hold no   *)
(* lock, and every directory listing and every open is a step of its own.  *)
(*                                                                         *)
(* Records are numbered in commit order; record r refers to blob r.  They  *)
(* are equally long, so offsets count records.  Segments are numbered in   *)
(* the order of their names.                                               *)
(***************************************************************************)
EXTENDS Naturals, Sequences, FiniteSets, FiniteSetsExt

CONSTANTS
  MaxRecords,  \* bound: records appended
  MaxDay,      \* bound: days
  Retention,   \* days a segment is kept; 0 keeps all
  MaxCollects, \* bound: garbage collections
  MaxCrashes   \* bound: crashes

ASSUME JournalAssumption ==
  {MaxRecords, MaxDay, Retention, MaxCollects, MaxCrashes} \subseteq Nat /\ MaxDay > 0

VARIABLES
  files,    \* records of each file that has been commits.jsonl, oldest first
  linked,   \* commits.jsonl exists; it names the last of them
  dir,      \* names of the sealed ones: <<file, "jsonl" | "zst" | "tmp">>
  stamps,   \* the day of each record
  blobs,    \* pre-images in the blob store
  today,
  due,      \* maintenance has to run
  maint,    \* where it is: see Resting
  cursor,   \* fileHistoryCursor of each reader: see Opening
  read,     \* records each reader has been given since it started
  collects, \* collections so far; the last one is running unless cursor.gc is off
  crashes,
  disturbed \* readers whose journal was changed under a call: see Detach, Prune
journalVars == <<files, linked, dir>>
readerVars == <<cursor, read>>
boundVars == <<collects, crashes>>
vars == <<journalVars, stamps, blobs, today, due, maint, readerVars, boundVars, disturbed>>

Readers == {"analytics", "gc"}
Active == MaxRecords + 2     \* commits.jsonl, after every segment
NoTail == <<0, "none">>
Records(k) == {files[k][i] : i \in 1..Len(files[k])}
Newest == Len(files)

\* fileHistoryCursor.segments: a compressed segment hides the plain one.
Segments == {n[1] : n \in {m \in dir : m[2] # "tmp"}}
Named(k) == <<k, IF <<k, "zst">> \in dir THEN "zst" ELSE "jsonl">>
NewestTail == IF Segments = {} THEN NoTail ELSE Named(Max(Segments))
Retained == UNION {Records(k) : k \in Segments \cup {f \in {Newest} : linked}}
ExpiredBy(k, day) == Retention > 0 /\ stamps[files[k][1]] + Retention < day
Expired(k) == ExpiredBy(k, today)
-----------------------------------------------------------------------------
(* Cursors.  seg, off and last are the position (seg 0 is the empty name); *)
(* tail is sealedTail; fd the open file, 0 if closed; phase what Next goes *)
(* on with, got how the latest call ended.                                 *)

Off == [at |-> "idle", seg |-> 0, off |-> 0, last |-> 0, tail |-> NoTail, fd |-> 0,
        name |-> NoTail, phase |-> "off", got |-> "end"]
Opening == [Off EXCEPT !.at = "list", !.phase = "opening"]
Sealed(c) == cursor[c].seg \in 1..(Active - 1)
\* Only the collection looks at how its calls ended.
Put(c, r) ==
  cursor' = [cursor EXCEPT ![c] = [r EXCEPT !.got = IF c = "gc" THEN @ ELSE "end"]]
Returned(r, g) == [r EXCEPT !.at = "idle", !.got = g, !.name = NoTail, !.phase = "ready"]
OnlyReader == UNCHANGED <<journalVars, stamps, blobs, today, due, maint, boundVars, disturbed>>

\* Next starts: the collection stops calling it after an error and at the end.
Calls(c) ==
  /\ cursor[c].at = "idle"
  /\ c = "gc" => cursor[c].phase # "off" /\ cursor[c].got \in {"opened", "record"}

\* recoverRotation: whether the newest segment is the one this cursor knows.
Unrotated(c) == Sealed(c) \/ Segments = {} \/ cursor[c].tail = NewestTail

\* At the end of a file the answer is "no more", or the next file.
Ended(c) ==
  IF Sealed(c) THEN [cursor[c] EXCEPT !.at = "advance"] ELSE Returned(cursor[c], "end")

\* Next asks before it reads, and again at the end of the file.
GoOn(c) ==
  /\ Unrotated(c)
  /\ \/ Calls(c) /\ Put(c, [cursor[c] EXCEPT !.at = "read", !.phase = "next"])
     \/ cursor[c].at = "again" /\ Put(c, Ended(c))
  /\ UNCHANGED read /\ OnlyReader

\* It looks for its last record, and starts commits.jsonl again without it.
Refind(c) ==
  LET last == cursor[c].last
      where == {p \in Segments \X (1..MaxRecords) :
                  p[2] <= Len(files[p[1]]) /\ files[p[1]][p[2]] = last}
      goal == IF last = 0 THEN <<Min(Segments), 0>>
              ELSE IF where # {} THEN CHOOSE p \in where : TRUE ELSE <<Active, 0>>
  IN
  /\ (Calls(c) \/ cursor[c].at = "again") /\ ~Unrotated(c)
  /\ Put(c, [cursor[c] EXCEPT !.seg = goal[1], !.off = goal[2], !.at = "list", !.phase = "locked"])
  /\ UNCHANGED read /\ OnlyReader

Read(c) ==
  /\ cursor[c].at = "read" /\ cursor[c].fd # 0
  /\ LET k == cursor[c]
         more == k.off < Len(files[k.fd])
     IN
     \/ /\ more
        /\ Put(c, Returned([k EXCEPT !.off = @ + 1, !.last = files[k.fd][k.off + 1]], "record"))
        /\ read' = [read EXCEPT ![c] = @ \cup {files[k.fd][k.off + 1]}]
     \/ /\ ~more /\ UNCHANGED read
        /\ Put(c, IF k.phase = "next" THEN [k EXCEPT !.at = "again"] ELSE Ended(c))
  /\ OnlyReader

\* A closed file cannot be read: the call fails and opens it again.  (What is
\* left in its buffer, if anything, is what follows at the new position too.)
ReadFails(c) ==
  /\ cursor[c].at = "read" /\ cursor[c].fd = 0
  /\ Put(c, [cursor[c] EXCEPT !.at = "list", !.phase = "reopen"])
  /\ UNCHANGED read /\ OnlyReader

\* Mutant: the cursor goes on with commits.jsonl.
AdvanceToActive(c) ==
  /\ cursor[c].at = "advance"
  /\ Put(c, [cursor[c] EXCEPT !.seg = Active, !.off = 0, !.at = "list", !.phase = "locked"])
  /\ UNCHANGED read /\ OnlyReader

\* advance: the file after this one, if this one is still there.
Advance(c) ==
  /\ cursor[c].at = "advance"
  /\ Put(c, IF cursor[c].seg \in Segments
              THEN [cursor[c] EXCEPT !.seg = Min({s \in Segments \cup {Active} : s > @}), !.off = 0,
                                     !.at = "list", !.phase = "locked"]
              ELSE Returned(cursor[c], "end"))
  /\ UNCHANGED read /\ OnlyReader

\* openCurrent lists the directory again ...
List(c) ==
  LET seg == IF cursor[c].seg = 0 /\ Segments # {} THEN Min(Segments) ELSE cursor[c].seg IN
  /\ cursor[c].at = "list"
  /\ Put(c, [cursor[c] EXCEPT !.at = "open", !.fd = 0, !.tail = NewestTail, !.seg = seg,
                              !.name = IF seg \in {0, Active} THEN <<Active, "jsonl">> ELSE Named(seg)])
  /\ UNCHANGED read /\ OnlyReader

\* ... and opens the file at the offset, if it is there and long enough.
Open(c) ==
  LET k == cursor[c]
      file == IF k.name[1] = Active THEN Newest ELSE k.name[1]
      found == IF k.name[1] = Active THEN linked ELSE k.name \in dir
  IN
  /\ k.at = "open"
  /\ Put(c, IF found /\ k.off <= Len(files[file])
              THEN CASE k.phase = "locked" -> [k EXCEPT !.fd = file, !.at = "read", !.name = NoTail]
                     [] k.phase = "opening" -> Returned([k EXCEPT !.fd = file], "opened")
                     [] OTHER -> Returned([k EXCEPT !.fd = file], "error")
              ELSE Returned(k, "error"))
  /\ UNCHANGED read /\ OnlyReader

CursorStep(c) ==
  \/ GoOn(c) \/ Refind(c) \/ Read(c) \/ ReadFails(c) \/ Advance(c) \/ List(c) \/ Open(c)
-----------------------------------------------------------------------------
(* Appends: the applier captures the blob and appends the record under     *)
(* historyRetentionMu; no collection runs then.                            *)

Collecting == cursor["gc"].phase # "off"

AppendRecord ==
  /\ Len(stamps) < MaxRecords /\ ~Collecting /\ maint.at # "create"
  /\ stamps' = Append(stamps, today)
  /\ files' = [files EXCEPT ![Newest] = Append(@, Len(stamps) + 1)]
  /\ blobs' = blobs \cup {Len(stamps) + 1}
  /\ UNCHANGED <<linked, dir, today, due, maint, readerVars, boundVars, disturbed>>

Tomorrow ==
  /\ today < MaxDay /\ today' = today + 1
  /\ due' = (due \/ maint.at = "idle")
  /\ UNCHANGED <<journalVars, stamps, blobs, maint, readerVars, boundVars, disturbed>>
-----------------------------------------------------------------------------
(* Maintenance: RotateCommitJournal                                        *)

Resting == [at |-> "idle", now |-> 0, seg |-> 0, next |-> "none", keep |-> [seg |-> 0, last |-> 0]]
Turn(l) == maint' = [maint EXCEPT !.at = l]
RestNow == maint' = Resting /\ due' = FALSE
OnlyMaint == UNCHANGED <<stamps, blobs, today, readerVars, boundVars>>

\* The cursor's position and the time are taken first, the rest sees them grow old.
Maintain ==
  /\ maint.at = "idle" /\ due
  /\ maint' = [Resting EXCEPT !.at = "pending", !.now = today,
                 !.keep = [f \in {"seg", "last"} |-> cursor["analytics"][f]]]
  /\ OnlyMaint /\ UNCHANGED <<journalVars, due, disturbed>>

\* Segments an earlier run has left uncompressed come first.
Pending ==
  LET plain == {k \in Segments : <<k, "jsonl">> \in dir} IN
  /\ maint.at = "pending"
  /\ IF plain = {} THEN Turn("detach")
     ELSE maint' = [maint EXCEPT !.at = "pack", !.seg = Min(plain), !.next = "pending"]
  /\ OnlyMaint /\ UNCHANGED <<journalVars, due, disturbed>>

\* detachCommitJournal: yesterday's journal becomes a segment.
Detach ==
  /\ maint.at = "detach"
  /\ IF linked /\ files[Newest] # <<>> /\ stamps[files[Newest][1]] # maint.now
       THEN /\ dir' = dir \cup {<<Newest, "jsonl">>} /\ linked' = FALSE
            /\ maint' = [maint EXCEPT !.at = "create", !.seg = Newest, !.next = "resolve"]
            /\ disturbed' = disturbed \cup {c \in Readers : cursor[c].at # "idle"}
       ELSE Turn("resolve") /\ UNCHANGED <<dir, linked, disturbed>>
  /\ OnlyMaint /\ UNCHANGED <<files, due>>

Created == IF linked THEN files ELSE Append(files, <<>>)
Create ==
  /\ maint.at = "create" /\ Turn("pack")
  /\ files' = Created /\ linked' = TRUE
  /\ OnlyMaint /\ UNCHANGED <<dir, due, disturbed>>

\* compressHistorySegment: the temporary file must not exist.
Pack ==
  /\ maint.at = "pack"
  /\ IF <<maint.seg, "tmp">> \in dir THEN RestNow /\ UNCHANGED dir
     ELSE dir' = dir \cup {<<maint.seg, "tmp">>} /\ Turn("publish") /\ UNCHANGED due
  /\ OnlyMaint /\ UNCHANGED <<files, linked, disturbed>>

\* Shutdown or a write error: the temporary file is removed.
PackFails ==
  /\ maint.at = "publish" /\ RestNow
  /\ dir' = dir \ {<<maint.seg, "tmp">>}
  /\ OnlyMaint /\ UNCHANGED <<files, linked, disturbed>>

\* Mutant: the plain segment is removed before the compressed one is in place.
PublishLast ==
  /\ maint.at = "publish" /\ Turn("unlink")
  /\ dir' = dir \ {<<maint.seg, "jsonl">>}
  /\ OnlyMaint /\ UNCHANGED <<files, linked, due, disturbed>>

Publish ==
  /\ maint.at = "publish" /\ Turn("unlink")
  /\ dir' = (dir \ {<<maint.seg, "tmp">>}) \cup {<<maint.seg, "zst">>}
  /\ OnlyMaint /\ UNCHANGED <<files, linked, due, disturbed>>

Unlink ==
  /\ maint.at = "unlink" /\ Turn(maint.next)
  /\ dir' = dir \ {<<maint.seg, "jsonl">>}
  /\ OnlyMaint /\ UNCHANGED <<files, linked, due, disturbed>>

\* A position in commits.jsonl may by now be in a segment: it is restored by a
\* cursor of its own.
Resolve ==
  LET keep == maint.keep
      where == {k \in Segments : keep.last \in Records(k)}
      seg == IF Retention = 0 \/ keep.seg \notin {0, Active} THEN keep.seg
             ELSE IF where # {} THEN CHOOSE k \in where : TRUE
             ELSE IF keep.seg = Active \/ keep.last # 0 THEN Active
             ELSE IF Segments # {} THEN Min(Segments) ELSE 0
  IN
  /\ maint.at = "resolve"
  /\ maint' = [maint EXCEPT !.at = "prune", !.seg = 0, !.keep = [seg |-> seg, last |-> 0]]
  /\ OnlyMaint /\ UNCHANGED <<journalVars, due, disturbed>>

\* pruneHistory, with historySegmentBefore, one segment at a time.
Prunable ==
  {k \in Segments : ExpiredBy(k, maint.now) /\ maint.keep.seg # 0 /\ k < maint.keep.seg}
Prune ==
  /\ maint.at = "prune"
  /\ \/ /\ Prunable = {} /\ RestNow /\ UNCHANGED <<dir, disturbed>>
     \/ \E k \in Prunable :
          /\ \A j \in Prunable : k <= j
          /\ dir' = {n \in dir : n[1] # k}
          /\ disturbed' = disturbed \cup {c \in Readers : cursor[c].phase # "off" /\ cursor[c].seg <= k}
          /\ UNCHANGED <<maint, due>>
  /\ OnlyMaint /\ UNCHANGED <<files, linked>>

Maintenance ==
  \/ Maintain \/ Pending \/ Detach \/ Create \/ Pack \/ PackFails \/ Publish \/ Unlink
  \/ Resolve \/ Prune
-----------------------------------------------------------------------------
(* Garbage collection, in the applier                                      *)

OnlyGC == UNCHANGED <<dir, stamps, today, due, maint, crashes>>
GcOff ==
  /\ cursor' = [cursor EXCEPT !["gc"] = Off] /\ read' = [read EXCEPT !["gc"] = {}]
  /\ disturbed' = disturbed \ {"gc"}

CollectBegins ==
  /\ ~Collecting /\ collects < MaxCollects /\ collects' = collects + 1
  /\ cursor' = [cursor EXCEPT !["gc"] = Opening]
  /\ files' = Created /\ linked' = TRUE
  /\ OnlyGC /\ UNCHANGED <<blobs, read, disturbed>>

\* Mutant: blobs are deleted although the journal could not be read.
SweepAnyway ==
  /\ Collecting /\ cursor["gc"].at = "idle" /\ cursor["gc"].got # "opened"
  /\ \E gone \in SUBSET (blobs \ read["gc"]) : blobs' = blobs \ gone
  /\ GcOff /\ OnlyGC /\ UNCHANGED <<files, linked, collects>>

\* Every record has been read; the walk may stop early (context, I/O error).
Sweep ==
  /\ Collecting /\ cursor["gc"].at = "idle" /\ cursor["gc"].got = "end"
  /\ \E gone \in SUBSET (blobs \ read["gc"]) : blobs' = blobs \ gone
  /\ GcOff /\ OnlyGC /\ UNCHANGED <<files, linked, collects>>

\* An unreadable journal or the end of the context: nothing is deleted.
CollectFails ==
  /\ Collecting /\ cursor["gc"].at = "idle"
  /\ GcOff /\ OnlyGC /\ UNCHANGED <<files, linked, blobs, collects>>
-----------------------------------------------------------------------------
\* A crash, and the start after it: the analytics cursor opens the journal,
\* with no checkpoint, before maintenance starts.
Crash ==
  /\ crashes < MaxCrashes /\ crashes' = crashes + 1
  /\ files' = Created /\ linked' = TRUE
  /\ cursor' = [c \in Readers |->
       IF c = "gc" THEN Off
       ELSE [Off EXCEPT !.phase = "ready", !.tail = NewestTail,
                        !.seg = IF Segments = {} THEN 0 ELSE Min(Segments),
                        !.fd = IF Segments = {} THEN Len(Created) ELSE Min(Segments)]]
  /\ read' = [c \in Readers |-> {}] /\ disturbed' = {}
  /\ maint' = Resting /\ due' = TRUE
  /\ UNCHANGED <<dir, stamps, blobs, today, collects>>

Init ==
  /\ files = <<<<>>>> /\ linked = TRUE /\ dir = {} /\ stamps = <<>> /\ blobs = {}
  /\ today = 1 /\ due = TRUE /\ maint = Resting
  /\ cursor = [c \in Readers |-> IF c = "gc" THEN Off ELSE [Off EXCEPT !.fd = 1, !.phase = "ready"]]
  /\ read = [c \in Readers |-> {}]
  /\ collects = 0 /\ crashes = 0 /\ disturbed = {}

Next ==
  \/ AppendRecord \/ Tomorrow \/ Maintenance
  \/ \E c \in Readers : CursorStep(c)
  \/ CollectBegins \/ Sweep \/ CollectFails
  \/ Crash

Spec == Init /\ [][Next]_vars
-----------------------------------------------------------------------------
TypeOK ==
  /\ files \in Seq(Seq(1..MaxRecords)) /\ Newest <= MaxRecords + 1
  /\ \A k \in 1..(Newest - 1) : files[k] # <<>>
  /\ linked \in BOOLEAN /\ due \in BOOLEAN
  /\ dir \subseteq (1..Newest) \X {"jsonl", "zst", "tmp"}
  /\ stamps \in Seq(1..MaxDay) /\ blobs \subseteq 1..Len(stamps)
  /\ today \in 1..MaxDay /\ collects \in 0..MaxCollects /\ crashes \in 0..MaxCrashes
  /\ maint.at \in {"idle", "pending", "detach", "create", "pack", "publish", "unlink",
                   "resolve", "prune"}
  /\ \A c \in Readers :
       /\ cursor[c].at \in {"idle", "again", "read", "advance", "list", "open"}
       /\ cursor[c].seg \in 0..Active /\ cursor[c].fd \in 0..Newest
       /\ read[c] \subseteq 1..Len(stamps)
  /\ disturbed \subseteq Readers

\* Sealing, compressing and pruning lose no record, also if the process stops
\* between any two of their steps: what has been appended can be listed until
\* the segment it is in has expired (history_blobs.go:802-803, 868-917, 938-975).
RecordsSurvive ==
  \A k \in 1..Newest : Records(k) \subseteq Retained \/ Expired(k)

\* "never prunes the segment containing an optional protected cursor"
\* (history_blobs.go:738-739): the pipeline's cursor is never left in a segment
\* that is gone, though its position was taken before the journal was detached.
CursorSpared == Sealed("analytics") => cursor["analytics"].seg \in Segments

\* "Compare the cursor with an append-order model [...] Rotation, lag,
\* retention and checkpoint/reopen can happen in any generated order"
\* (history_blobs_test.go:34-35): when Next says that there is no more (it returns
\* and has moved no further), the reader has been given every record that is
\* retained, but for what the file it has come to the end of was given meanwhile.
\* It may be wrong only if the journal was detached during a call, or a segment
\* pruned that the reader still needed.
NoMoreMeansAll ==
  \A c \in Readers :
    (/\ cursor[c].at \in {"read", "again", "advance"} /\ cursor'[c].at = "idle"
     /\ cursor'[c].off = cursor[c].off /\ crashes' = crashes /\ c \notin disturbed)
      => Retained \ Records(cursor[c].fd) \subseteq read[c]

\* A reader that goes on over rotation, compression and pruning misses
\* nothing: its segment stays, and "no more" means that it has had all.
ReadersMissNothing == [][TypeOK' /\ CursorSpared' /\ NoMoreMeansAll]_vars

\* A collection that maintenance did not disturb deletes no blob that a
\* retained record refers to, whatever crashed or was half compressed before
\* (history_blobs.go:992-993).
UndisturbedSweepIsSafe ==
  [][(blobs' # blobs /\ "gc" \notin disturbed) => Retained \cap (blobs \ blobs') = {}]_vars

\* Collection "deletes objects not referenced by any record"
\* (history_blobs.go:992-993), and no others.
SweepSparesReferenced == [][Retained \cap (blobs \ blobs') = {}]_vars
=============================================================================
