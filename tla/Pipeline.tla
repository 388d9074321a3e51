------------------------------ MODULE Pipeline ------------------------------
(***************************************************************************)
(* The analytics pipeline (internal/analytics/pipeline.go) behind the      *)
(* Recorder (storage.go), with the processor that derives the scalars of   *)
(* every commit from the history (pkg/openlore/analytics_scalars.go).      *)
(*                                                                         *)
(* An event reaches the worker twice, by the handoff and by the scan of    *)
(* the log; a commit reaches the processor by its event and by the drain.  *)
(* The checkpoint is written after the effects, one file for all of it.    *)
(* The log is one segment here (EventLog has the others), the ring of seen *)
(* ids is never full, and the history cursor loses nothing                 *)
(* (HistoryJournal).                                                       *)
(***************************************************************************)
EXTENDS Naturals, Sequences, FiniteSets, SequencesExt

CONSTANTS
  MaxCommits,             \* bound on the commits
  QueueCap, HandoffCap,   \* the Recorder's queue, the pipeline's Buffer
  MaxMishaps              \* bound on crashes, replays, and on the appends,
                          \* checkpoints and scans that fail

ASSUME PipelineAssumption ==
  /\ MaxCommits \in Nat /\ QueueCap \in Nat \ {0} /\ HandoffCap \in Nat \ {0}
  /\ MaxMishaps \in Nat

VARIABLES
  journaled,   \* commits in the history
  stored,      \* the log
  recording,   \* Recorder.queue
  handoff,     \* Pipeline.handoff
  worker,      \* where the worker is, and its scan
  replay,      \* the Replay under way
  unit,        \* what is being handled or drained, under processMu
  seenIds,     \* Pipeline.seen
  lastEvent,   \* lastEventID
  scanned,     \* the worker's cursor
  pipeCursor,  \* Pipeline.cursor
  position,    \* how far the processor's history cursor is
  fresh,       \* where it was when the processor last began: its commits map
  emitFrom,    \* ScalarProcessor.emitFrom: the first commit it emits
  pipeDisk,    \* pipeline.checkpoint
  derived,     \* scalars events made for each commit
  lost,        \* commits without scalars: an append failed, or Replay skipped them
  consumed,    \* events the consumers have had in this life, and those ever
  twice,       \* those they have had twice in this life
  crossed,     \* a Replay ran within a scan that only consumes
  mishaps      \* crashes, replays and failures so far
liveVars == <<seenIds, lastEvent, scanned, pipeCursor, position, fresh, emitFrom>>
ghosts == <<derived, lost, consumed, twice, crossed, mishaps>>
pipelineVars == <<journaled, stored, recording, handoff, worker, replay, unit, liveVars,
                  pipeDisk, ghosts>>

Commits == 1..MaxCommits
MaxDerived == 1 + MaxMishaps
\* The doc.write of a commit (nth 0) and the scalars derived from it, each new.
StoredEvents == [commit : Commits, nth : 0..MaxDerived]
NoEvent == [commit |-> 0, nth |-> 0]
NoUnit == [by |-> "none", event |-> NoEvent, out |-> <<>>]
NoReplay == [on |-> FALSE, next |-> 0, end |-> 0]
NoWorker == [at |-> "down", next |-> 0, end |-> 0, upTo |-> NoEvent]
Running == worker.at \in {"open", "scan", "wait"}
Unlocked == unit = NoUnit /\ ~replay.on
Mishap == mishaps < MaxMishaps /\ mishaps' = mishaps + 1
InLog(c) == \E i \in DOMAIN stored : stored[i].commit = c /\ stored[i].nth > 0

Hear(e) ==
  /\ consumed' = [now |-> consumed.now \cup {e}, ever |-> consumed.ever \cup {e}]
  /\ twice' = twice \cup ({e} \cap consumed.now)
-----------------------------------------------------------------------------
(* Commits, and the Recorder in front of the log. *)

\* A commit is journaled, and its event queued if there is room.
CommitLands ==
  /\ Running /\ journaled < MaxCommits
  /\ journaled' = journaled + 1
  /\ recording' = IF Len(recording) < QueueCap
                    THEN Append(recording, [commit |-> journaled + 1, nth |-> 0]) ELSE recording
  /\ UNCHANGED <<stored, handoff, worker, replay, unit, liveVars, pipeDisk, ghosts>>

RecorderAppends ==
  /\ recording # <<>> /\ recording' = Tail(recording)
  /\ \/ /\ stored' = Append(stored, Head(recording))
        /\ handoff' = IF Len(handoff) < HandoffCap
                        THEN Append(handoff, Head(recording)) ELSE handoff
        /\ UNCHANGED mishaps
     \/ Mishap /\ UNCHANGED <<stored, handoff>>
  /\ UNCHANGED <<journaled, worker, replay, unit, liveVars, pipeDisk,
                 derived, lost, consumed, twice, crossed>>
-----------------------------------------------------------------------------
(* handleLocked, emitDerived and drainLocked *)

\* Of the commits behind from, those before emitFrom are read and not emitted.
FirstEmitted(from) == IF from + 1 < emitFrom THEN emitFrom ELSE from + 1
Emits(from, to) == [i \in 1..(to + 1 - FirstEmitted(from)) |-> FirstEmitted(from) + i - 1]

\* ScalarProcessor.Process: on to the commit of a doc.write, to the end of the
\* history if the cursor is past it already, nowhere if this life has done it.
AdvanceTo(e) ==
  IF e.nth > 0 \/ e.commit \in (fresh + 1)..position THEN position
  ELSE IF e.commit > position THEN e.commit ELSE journaled

Begin(by, e, to) ==
  /\ unit' = [by |-> by, event |-> e, out |-> Emits(position, to)]
  /\ position' = to

\* handleLocked, up to the first event derived.
Handle(by, e) ==
  /\ seenIds' = seenIds \cup {e}
  /\ IF e \in seenIds THEN UNCHANGED <<unit, position>> ELSE Begin(by, e, AdvanceTo(e))

\* A derived event is appended to the log, marked and consumed; an append that
\* fails is not noticed.
Emit ==
  /\ unit.out # <<>>
  /\ LET c == Head(unit.out)
         e == [commit |-> c, nth |-> derived[c] + 1]
     IN  /\ derived' = [derived EXCEPT ![c] = @ + 1]
         /\ \/ stored' = Append(stored, e) /\ UNCHANGED <<lost, mishaps>>
            \/ Mishap /\ lost' = lost \cup {c} /\ UNCHANGED stored
         /\ seenIds' = seenIds \cup {e} /\ Hear(e)
  /\ unit' = [unit EXCEPT !.out = Tail(@)]
  /\ UNCHANGED <<journaled, recording, handoff, worker, replay, lastEvent, scanned,
                 pipeCursor, position, fresh, emitFrom, pipeDisk, crossed>>

\* Mutant: the checkpoint is written before what it stands for.
FinishUnitEarly ==
  /\ unit.by # "none"
  /\ IF unit.event = NoEvent THEN UNCHANGED <<consumed, twice, lastEvent>>
     ELSE Hear(unit.event) /\ lastEvent' = unit.event
  /\ pipeDisk' = [event |-> lastEvent', segments |-> pipeCursor, position |-> position]
  /\ unit' = IF unit.out = <<>> THEN NoUnit ELSE [unit EXCEPT !.event = NoEvent]
  /\ UNCHANGED <<journaled, stored, recording, handoff, worker, replay, seenIds, scanned,
                 pipeCursor, position, fresh, emitFrom, derived, lost, crossed, mishaps>>

\* The event itself is consumed, and the checkpoint written.
FinishUnit ==
  /\ unit.by # "none" /\ unit.out = <<>>
  /\ IF unit.event = NoEvent THEN UNCHANGED <<consumed, twice, lastEvent>>
     ELSE Hear(unit.event) /\ lastEvent' = unit.event
  /\ \/ /\ pipeDisk' = [event |-> lastEvent', segments |-> pipeCursor, position |-> position]
        /\ UNCHANGED mishaps
     \/ Mishap /\ UNCHANGED pipeDisk
  /\ unit' = NoUnit
  /\ UNCHANGED <<journaled, stored, recording, handoff, worker, replay, seenIds, scanned,
                 pipeCursor, position, fresh, emitFrom, derived, lost, crossed>>
-----------------------------------------------------------------------------
(* The worker: Run and Close *)

\* A checkpoint without offsets resumes behind its event, if the log has it:
\* what comes before is only consumed.
Resume ==
  /\ worker.at \in {"down", "closed"} /\ Unlocked
  /\ LET legacy == pipeDisk.segments = 0 /\ \E i \in DOMAIN stored : stored[i] = pipeDisk.event
     IN  worker' = [NoWorker EXCEPT !.at = "open",
                                    !.upTo = IF legacy THEN pipeDisk.event ELSE NoEvent]
  /\ lastEvent' = pipeDisk.event
  /\ scanned' = pipeDisk.segments /\ pipeCursor' = pipeDisk.segments
  /\ position' = pipeDisk.position /\ fresh' = pipeDisk.position /\ emitFrom' = 1
  /\ seenIds' = {} /\ consumed' = [consumed EXCEPT !.now = {}] /\ twice' = {} /\ crossed' = FALSE
  /\ UNCHANGED <<journaled, stored, recording, handoff, replay, unit, pipeDisk, derived,
                 lost, mishaps>>

OpenScan ==
  /\ worker.at = "open"
  /\ worker' = [worker EXCEPT !.at = "scan", !.next = scanned, !.end = Len(stored)]
  /\ UNCHANGED <<journaled, stored, recording, handoff, replay, unit, liveVars, pipeDisk, ghosts>>

\* consumePersisted, or handle.
ScanEvent ==
  LET e == stored[worker.next + 1] IN
  /\ worker.at = "scan" /\ worker.next < worker.end /\ Unlocked
  /\ worker' = [worker EXCEPT !.next = @ + 1, !.upTo = IF @ = e THEN NoEvent ELSE @]
  /\ IF worker.upTo # NoEvent
       THEN seenIds' = seenIds \cup {e} /\ Hear(e) /\ UNCHANGED <<unit, position>>
       ELSE Handle("scan", e) /\ UNCHANGED <<consumed, twice>>
  /\ UNCHANGED <<journaled, stored, recording, handoff, replay, lastEvent, scanned,
                 pipeCursor, fresh, emitFrom, pipeDisk, derived, lost, crossed, mishaps>>

\* The batch is done: the cursor moves up, and the processors drain.
ScanEndsBatch ==
  /\ worker.at = "scan" /\ worker.next = worker.end /\ Unlocked
  /\ worker' = [NoWorker EXCEPT !.at = "wait"]
  /\ scanned' = worker.end /\ pipeCursor' = worker.end
  /\ Begin("scan", NoEvent, journaled)
  /\ UNCHANGED <<journaled, stored, recording, handoff, replay, seenIds, lastEvent, fresh,
                 emitFrom, pipeDisk, ghosts>>

\* Mutant: the cursor moves up although the scan failed.
ScanFailsForward ==
  /\ worker.at = "scan" /\ unit.by # "scan" /\ Mishap
  /\ worker' = [NoWorker EXCEPT !.at = "wait"] /\ scanned' = worker.end
  /\ UNCHANGED <<journaled, stored, recording, handoff, replay, unit, seenIds, lastEvent,
                 pipeCursor, position, fresh, emitFrom, pipeDisk, derived, lost, consumed,
                 twice, crossed>>

ScanFails ==
  /\ worker.at = "scan" /\ unit.by # "scan" /\ Mishap
  /\ worker' = [NoWorker EXCEPT !.at = "wait"]
  /\ UNCHANGED <<journaled, stored, recording, handoff, replay, unit, liveVars, pipeDisk,
                 derived, lost, consumed, twice, crossed>>

TakeHandoff ==
  /\ worker.at \in {"wait", "closing"} /\ handoff # <<>> /\ Unlocked
  /\ Handle("handoff", Head(handoff)) /\ handoff' = Tail(handoff)
  /\ UNCHANGED <<journaled, stored, recording, worker, replay, lastEvent, scanned, pipeCursor,
                 fresh, emitFrom, pipeDisk, ghosts>>

Ticks ==
  /\ worker.at = "wait" /\ unit.by \notin {"scan", "handoff"}
  /\ worker' = [worker EXCEPT !.at = "open"]
  /\ UNCHANGED <<journaled, stored, recording, handoff, replay, unit, liveVars, pipeDisk, ghosts>>

\* Service.Close, once the Recorder's queue is in the log: the worker stops
\* between two operations ...
StopWorker ==
  /\ worker.at = "wait" /\ unit.by \notin {"scan", "handoff"} /\ recording = <<>>
  /\ worker' = [worker EXCEPT !.at = "closing"]
  /\ UNCHANGED <<journaled, stored, recording, handoff, replay, unit, liveVars, pipeDisk, ghosts>>

\* ... and Close empties the handoff and drains.
CloseDrains ==
  /\ worker.at = "closing" /\ handoff = <<>> /\ Unlocked
  /\ worker' = [worker EXCEPT !.at = "closed"]
  /\ Begin("close", NoEvent, journaled)
  /\ UNCHANGED <<journaled, stored, recording, handoff, replay, seenIds, lastEvent, scanned,
                 pipeCursor, fresh, emitFrom, pipeDisk, ghosts>>

\* What is in memory goes: the values it is given here are those of no process.
Forget ==
  /\ scanned' = 0 /\ pipeCursor' = 0 /\ lastEvent' = NoEvent /\ position' = 0 /\ fresh' = 0
  /\ emitFrom' = 1 /\ seenIds' = {} /\ consumed' = [consumed EXCEPT !.now = {}]
  /\ twice' = {} /\ crossed' = FALSE
Crash ==
  /\ worker.at # "down" /\ Mishap /\ Forget
  /\ worker' = NoWorker /\ replay' = NoReplay /\ unit' = NoUnit
  /\ recording' = <<>> /\ handoff' = <<>>
  /\ UNCHANGED <<journaled, stored, pipeDisk, derived, lost>>
-----------------------------------------------------------------------------
(* Replay holds processMu from its reset to its checkpoint. *)

ReplayBegins ==
  /\ Running /\ Unlocked /\ Mishap
  /\ replay' = [on |-> TRUE, next |-> 0, end |-> Len(stored)]
  /\ \E from \in 1..(journaled + 1) :
       /\ emitFrom' = from
       /\ lost' = lost \cup {c \in 1..(from - 1) : ~InLog(c)}
  /\ seenIds' = {} /\ pipeCursor' = 0 /\ lastEvent' = NoEvent /\ position' = 0 /\ fresh' = 0
  /\ consumed' = [consumed EXCEPT !.now = {}] /\ twice' = {}
  /\ crossed' = (crossed \/ worker.upTo # NoEvent)
  /\ UNCHANGED <<journaled, stored, recording, handoff, worker, unit, scanned, pipeDisk, derived>>

\* An event older than from is not scanned.
ReplayEvent ==
  LET e == stored[replay.next + 1] IN
  /\ replay.on /\ unit = NoUnit /\ replay.next < replay.end
  /\ replay' = [replay EXCEPT !.next = @ + 1]
  /\ IF e.commit < emitFrom THEN UNCHANGED <<seenIds, unit, position>> ELSE Handle("replay", e)
  /\ UNCHANGED <<journaled, stored, recording, handoff, worker, lastEvent, scanned, pipeCursor,
                 fresh, emitFrom, pipeDisk, ghosts>>

ReplayDrains ==
  /\ replay.on /\ unit = NoUnit /\ replay.next = replay.end
  /\ replay' = NoReplay /\ Begin("replay", NoEvent, journaled)
  /\ UNCHANGED <<journaled, stored, recording, handoff, worker, seenIds, lastEvent, scanned,
                 pipeCursor, fresh, emitFrom, pipeDisk, ghosts>>
-----------------------------------------------------------------------------
PipelineInit ==
  /\ journaled = 0 /\ stored = <<>> /\ recording = <<>> /\ handoff = <<>>
  /\ worker = NoWorker /\ replay = NoReplay /\ unit = NoUnit
  /\ seenIds = {} /\ lastEvent = NoEvent /\ scanned = 0 /\ pipeCursor = 0
  /\ position = 0 /\ fresh = 0 /\ emitFrom = 1
  /\ pipeDisk = [event |-> NoEvent, segments |-> 0, position |-> 0]
  /\ derived = [c \in Commits |-> 0] /\ lost = {} /\ twice = {} /\ crossed = FALSE
  /\ consumed = [now |-> {}, ever |-> {}]
  /\ mishaps = 0

HandleUnit == Emit \/ FinishUnit
ScanLog == OpenScan \/ ScanEvent \/ ScanEndsBatch
Replaying == ReplayEvent \/ ReplayDrains
PipelineNext ==
  \/ CommitLands \/ RecorderAppends \/ HandleUnit \/ Resume \/ ScanLog \/ ScanFails \/ TakeHandoff
  \/ Ticks \/ StopWorker \/ CloseDrains \/ Crash \/ ReplayBegins \/ Replaying

PipelineSpec == PipelineInit /\ [][PipelineNext]_pipelineVars
-----------------------------------------------------------------------------
PipelineTypeOK ==
  /\ journaled \in 0..MaxCommits /\ position \in 0..journaled /\ fresh \in 0..position
  /\ stored \in Seq(StoredEvents)
  /\ recording \in Seq(StoredEvents) /\ Len(recording) <= QueueCap
  /\ handoff \in Seq(StoredEvents) /\ Len(handoff) <= HandoffCap
  /\ worker \in [at : {"down", "open", "scan", "wait", "closing", "closed"},
                 next : Nat, end : 0..Len(stored), upTo : StoredEvents \cup {NoEvent}]
  /\ replay \in [on : BOOLEAN, next : Nat, end : 0..Len(stored)]
  /\ unit \in [by : {"none", "scan", "handoff", "replay", "close"},
               event : StoredEvents \cup {NoEvent}, out : Seq(Commits)]
  /\ seenIds \subseteq StoredEvents /\ lastEvent \in StoredEvents \cup {NoEvent}
  /\ scanned \in 0..Len(stored) /\ pipeCursor \in 0..Len(stored)
  /\ emitFrom \in 1..(MaxCommits + 1)
  /\ pipeDisk \in [event : StoredEvents \cup {NoEvent}, segments : 0..Len(stored),
                   position : 0..journaled]
  /\ derived \in [Commits -> 0..MaxDerived] /\ lost \subseteq Commits
  /\ consumed \in [now : SUBSET StoredEvents, ever : SUBSET StoredEvents]
  /\ twice \subseteq consumed.now /\ crossed \in BOOLEAN
  /\ mishaps \in 0..MaxMishaps

\* The checkpoint never passes a commit whose scalars are not in the log, so a
\* crash between an effect and its mark loses nothing (pipeline.go:214-236).
NothingIsPassedOver == \A c \in 1..pipeDisk.position : InLog(c) \/ c \in lost

\* A commit's scalars are derived again only after a crash, a replay or a
\* checkpoint that could not be written, once for each.
RarelyTwice ==
  \A c \in Commits : derived[c] <= 1 + mishaps

\* Within a life of the process consumers have every event once, though it
\* comes by the handoff and by the scan (pipeline.go:192-218).
ConsumedOnce == crossed \/ twice = {}
EffectsBeforeMarks == PipelineTypeOK /\ NothingIsPassedOver /\ RarelyTwice /\ ConsumedOnce

\* Every commit gets its scalars, also when its event was dropped by a full
\* queue; and time and again the consumers have had every event of the log.
EverythingIsDelivered ==
  /\ \A c \in Commits : journaled >= c ~> (InLog(c) \/ c \in lost)
  /\ []<>(ToSet(stored) \subseteq consumed.ever)
=============================================================================
