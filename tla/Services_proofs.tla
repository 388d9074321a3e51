--------------------------- MODULE Services_proofs ---------------------------
(***************************************************************************)
(* Theorems about the services that run beside the commits: the background *)
(* jobs and the shutdown, for any number of jobs and slots; the durable    *)
(* event log, its Shipper and the index that follows it, for any number of *)
(* days, events and failures; and the index of the facts, for any files,   *)
(* writes, views and failures.                                             *)
(***************************************************************************)
EXTENDS JobPool, EventLog, FactsIndexer, FiniteSetTheorems, SequenceTheorems, WellFoundedInduction, TLAPS

(* Types: a job that has an answer has been submitted, and the answers that *)
(* finish knows are the ones WriteBack gives.                               *)

\* The first state is well-typed.
LEMMA InitType == Init => TypeOK
<1>1. Cardinality({}) <= MaxConcurrent
  BY FS_EmptySet, PoolAssumption
<1>2. Init => Cardinality(slots) <= MaxConcurrent
  BY <1>1 DEF Init
<1> QED
  BY <1>2 DEF Init, TypeOK

\* Taking one of the free slots takes no more than there are.
LEMMA SlotTaken ==
  ASSUME TypeOK, NEW j \in JobIds, Acquire(j)
  PROVE  Cardinality(slots \cup {j}) <= MaxConcurrent
<1>1. IsFiniteSet(slots) /\ Cardinality(slots) \in Nat
  BY PoolAssumption, FS_Subset, FS_CardinalityType DEF TypeOK
<1>2. Cardinality(slots \cup {j}) \in {Cardinality(slots), Cardinality(slots) + 1}
  BY <1>1, FS_AddElement
<1>3. Cardinality(slots) < MaxConcurrent
  BY DEF Acquire
<1> QED
  BY <1>1, <1>2, <1>3, PoolAssumption

\* Giving one back leaves no more taken.
LEMMA SlotGiven ==
  ASSUME TypeOK, NEW j \in JobIds
  PROVE  Cardinality(slots \ {j}) <= MaxConcurrent
<1>1. IsFiniteSet(slots) /\ Cardinality(slots) \in Nat
  BY PoolAssumption, FS_Subset, FS_CardinalityType DEF TypeOK
<1>2. Cardinality(slots \ {j}) <= Cardinality(slots) /\ Cardinality(slots \ {j}) \in Nat
  BY <1>1, FS_Subset, FS_CardinalityType
<1>3. Cardinality(slots) <= MaxConcurrent
  BY DEF TypeOK
<1> QED
  BY <1>1, <1>2, <1>3, PoolAssumption

(* What TypeOK says but for the slots, which only Acquire and Release touch. *)
TablesOK ==
  /\ state \in [JobIds -> {"none", "running", "done", "failed"}]
  /\ at \in [JobIds -> {"none", "submitting", "queued", "command", "write", "answered",
                        "finished", "released", "ended"}]
  /\ answer \in [JobIds -> {"none", "ok", "hookfailed", "pending", "refused"}]
  /\ busy \subseteq JobIds /\ early \subseteq JobIds
  /\ drainer \in {"off", "started", "waiting", "woken", "returned"}
  /\ drained \in {"none", "true", "false"}
  /\ stage \in {"serving", "draining", "transports", "writes", "analytics", "exited"}
  /\ late \in BOOLEAN /\ open \in BOOLEAN /\ closed \in BOOLEAN /\ panicked \in BOOLEAN
  /\ store \subseteq JobIds /\ unposted \subseteq store /\ emitted \subseteq store
SlotsOK == slots \subseteq JobIds /\ Cardinality(slots) <= MaxConcurrent

\* A job's steps keep the types.
LEMMA WorkType ==
  ASSUME TypeOK, NEW j \in JobIds, Work(j)
  PROVE  TypeOK'
<1> USE DEF jobVars, stopVars, logVars, At
<1>t. TablesOK /\ SlotsOK
  BY DEF TypeOK, TablesOK, SlotsOK
<1>1. TablesOK'
  <2> USE <1>t DEF TablesOK
  <2>1. CASE Register(j) \/ Launch(j)
    BY <2>1 DEF Register, Launch
  <2>2. CASE Acquire(j) \/ Release(j)
    BY <2>2 DEF Acquire, Release
  <2>3. CASE CommandFails(j) \/ CommandEnds(j)
    BY <2>3 DEF CommandFails, CommandEnds
  <2>4. CASE WriteBack(j)
    BY <2>4 DEF WriteBack
  <2>5. CASE Finish(j)
    BY <2>5 DEF Finish
  <2>6. CASE Done(j)
    BY <2>6 DEF Done
  <2> QED
    BY <2>1, <2>2, <2>3, <2>4, <2>5, <2>6 DEF Work
<1>2. SlotsOK'
  <2>1. CASE Acquire(j)
    <3>1. slots' = slots \cup {j}
      BY <2>1 DEF Acquire
    <3> QED
      BY <1>t, <2>1, <3>1, SlotTaken DEF SlotsOK
  <2>2. CASE Release(j)
    <3>1. slots' = slots \ {j}
      BY <2>2 DEF Release
    <3> QED
      BY <1>t, <3>1, SlotGiven DEF SlotsOK
  <2>3. CASE ~ (Acquire(j) \/ Release(j))
    <3>1. slots' = slots
      BY <2>3 DEF Work, Register, Launch, CommandFails, CommandEnds, WriteBack, Finish, Done
    <3> QED
      BY <1>t, <3>1 DEF SlotsOK
  <2> QED
    BY <2>1, <2>2, <2>3
<1> QED
  BY <1>1, <1>2 DEF TypeOK, TablesOK, SlotsOK

\* So do the steps of Shutdown, Drain and the applier.
LEMMA StopType ==
  ASSUME TypeOK, Stop \/ PostCommit \/ ContextDone
  PROVE  TypeOK'
<1> USE DEF jobVars, stopVars, logVars
<1>t. TablesOK /\ SlotsOK
  BY DEF TypeOK, TablesOK, SlotsOK
<1>1. TablesOK'
  <2> USE <1>t DEF TablesOK
  <2>1. CASE Shutdown
    <3>1. /\ stage' = "draining" /\ drainer' = "started" /\ early' \subseteq JobIds
          /\ UNCHANGED <<jobVars, drained, late, open, closed, logVars, panicked>>
      BY <2>1 DEF Shutdown, Launched
    <3> QED
      BY <3>1
  <2>2. CASE Wait \/ WaitReturns
    <3>1. /\ drainer' \in {"off", "started", "waiting", "woken", "returned"}
          /\ panicked' \in {panicked, TRUE}
          /\ UNCHANGED <<jobVars, drained, stage, late, open, closed, early, logVars>>
      BY <2>2 DEF Wait, WaitReturns
    <3> QED
      BY <3>1
  <2>3. CASE Drain
    <3>1. /\ stage' = "transports" /\ drained' \in {"true", "false"}
          /\ UNCHANGED <<jobVars, drainer, late, open, closed, early, logVars, panicked>>
      BY <2>3 DEF Drain
    <3> QED
      BY <3>1
  <2>4. CASE StopTransports
    <3>1. /\ stage' = "writes" /\ open' \in BOOLEAN
          /\ UNCHANGED <<jobVars, drainer, drained, late, closed, early, logVars, panicked>>
      BY <2>4 DEF StopTransports
    <3> QED
      BY <3>1
  <2>5. CASE CloseLog \/ LogClosed \/ Exit \/ ContextDone
    <3>1. /\ stage' \in {stage, "analytics", "exited"}
          /\ closed' \in BOOLEAN /\ late' \in BOOLEAN
          /\ UNCHANGED <<jobVars, drainer, drained, open, early, logVars, panicked>>
      BY <2>5 DEF CloseLog, LogClosed, Exit, ContextDone
    <3> QED
      BY <3>1
  <2>6. CASE PostCommit
    BY <2>6 DEF PostCommit
  <2> QED
    BY <2>1, <2>2, <2>3, <2>4, <2>5, <2>6 DEF Stop
<1>2. slots' = slots
  BY DEF Stop, Shutdown, Wait, WaitReturns, Drain, StopTransports, CloseLog, LogClosed, Exit,
         ContextDone, PostCommit
<1>3. SlotsOK'
  BY <1>t, <1>2 DEF SlotsOK
<1> QED
  BY <1>1, <1>3 DEF TypeOK, TablesOK, SlotsOK

\* Every variable keeps its type, and no more jobs hold a slot than there are.
THEOREM TypeCorrect == Spec => []TypeOK
<1>1. TypeOK /\ [Next]_vars => TypeOK'
  <2>1. TypeOK /\ UNCHANGED vars => TypeOK'
    BY DEF TypeOK, vars, jobVars, stopVars, logVars
  <2> QED
    BY <2>1, WorkType, StopType DEF Next
<1> QED
  BY <1>1, InitType, PTL DEF Spec
-----------------------------------------------------------------------------
(* The counter of the WaitGroup is exactly the jobs that were started and   *)
(* have not come to their last deferred call, so it is empty only when all  *)
(* that were started have recorded how they ended.                          *)

Ended(j) == at[j] \in {"finished", "released", "ended"}
ICounted ==
  /\ busy = {j \in JobIds : at[j] \notin {"none", "submitting", "ended"}}
  /\ \A j \in JobIds : Ended(j) => state[j] \in {"done", "failed"}
  /\ early \subseteq Launched
  /\ drainer \in {"woken", "returned"} => \A j \in early : Ended(j)
  /\ drained = "true" => drainer = "returned"
  /\ stage = "serving" => drainer = "off"

\* At first nothing is started.
LEMMA InitCounted == Init => ICounted
BY DEF Init, ICounted, Ended, Launched

\* A job's steps keep the count.
LEMMA WorkCounted ==
  ASSUME TypeOK, ICounted, NEW j \in JobIds, Work(j)
  PROVE  ICounted'
<1> USE DEF TypeOK, ICounted, Ended, Launched, jobVars, stopVars, logVars, At
<1>1. CASE Register(j)
  BY <1>1 DEF Register
<1>2. CASE Launch(j)
  BY <1>2 DEF Launch
<1>3. CASE Acquire(j)
  BY <1>3 DEF Acquire
<1>4. CASE CommandFails(j)
  BY <1>4 DEF CommandFails
<1>5. CASE CommandEnds(j)
  BY <1>5 DEF CommandEnds
<1>6. CASE WriteBack(j)
  BY <1>6 DEF WriteBack
<1>7. CASE Finish(j)
  BY <1>7 DEF Finish
<1>8. CASE Release(j)
  BY <1>8 DEF Release
<1>9. CASE Done(j)
  BY <1>9 DEF Done
<1> QED
  BY <1>1, <1>2, <1>3, <1>4, <1>5, <1>6, <1>7, <1>8, <1>9 DEF Work

\* Wait returns only on an empty counter.
LEMMA StopCounted ==
  ASSUME TypeOK, ICounted, Stop \/ PostCommit \/ ContextDone
  PROVE  ICounted'
<1> USE DEF TypeOK, ICounted, Ended, Launched, jobVars, stopVars, logVars
<1>1. CASE Shutdown
  BY <1>1 DEF Shutdown
<1>2. CASE Wait \/ WaitReturns
  BY <1>2 DEF Wait, WaitReturns
<1>3. CASE Drain \/ StopTransports \/ CloseLog \/ LogClosed \/ Exit \/ ContextDone
  BY <1>3 DEF Drain, StopTransports, CloseLog, LogClosed, Exit, ContextDone
<1>4. CASE PostCommit
  BY <1>4 DEF PostCommit
<1> QED
  BY <1>1, <1>2, <1>3, <1>4 DEF Stop

\* The counter counts what was started and not finished.
THEOREM ICountedCorrect == Spec => []ICounted
<1>1. TypeOK /\ ICounted /\ [Next]_vars => ICounted'
  <2>1. ICounted /\ UNCHANGED vars => ICounted'
    BY DEF ICounted, Ended, Launched, vars, jobVars, stopVars, logVars
  <2> QED
    BY <2>1, WorkCounted, StopCounted DEF Next
<1> QED
  BY <1>1, InitCounted, TypeCorrect, PTL DEF Spec

\* When Drain reports success, every job that was running when Shutdown began
\* has recorded how it ended.
THEOREM DrainWaitsForAll == Spec => []DrainedMeansFinished
<1>1. ICounted => DrainedMeansFinished
  BY DEF ICounted, DrainedMeansFinished, Ended, Launched
<1> QED
  BY <1>1, ICountedCorrect, PTL
-----------------------------------------------------------------------------
(* The table and the files.  A job that has not been answered has written   *)
(* nothing and has not ended; the answer that Finish goes by says whether   *)
(* its output is durable, and nothing changes that afterwards.              *)

IHonest ==
  \A j \in JobIds :
    /\ at[j] \in {"none", "submitting", "queued", "command", "write"} =>
         j \notin store /\ state[j] \notin {"done", "failed"}
    /\ at[j] = "answered" =>
         (j \in store <=> answer[j] \in {"ok", "hookfailed"}) /\ state[j] \notin {"done", "failed"}
    /\ Ended(j) =>
         /\ state[j] = "done" => j \in store
         /\ state[j] = "failed" => j \notin store \/ answer[j] = "hookfailed"

\* A job's steps keep its own entry honest and leave the others alone.
LEMMA WorkHonest ==
  ASSUME TypeOK, IHonest, NEW j \in JobIds, Work(j)
  PROVE  IHonest'
<1> USE DEF IHonest, Ended, jobVars, stopVars, logVars, At
<1>t. /\ state \in [JobIds -> {"none", "running", "done", "failed"}]
      /\ answer \in [JobIds -> {"none", "ok", "hookfailed", "pending", "refused"}]
      /\ at \in [JobIds -> {"none", "submitting", "queued", "command", "write", "answered",
                            "finished", "released", "ended"}]
  BY DEF TypeOK
<1>1. CASE Register(j) \/ Launch(j)
  BY <1>1, <1>t DEF Register, Launch
<1>2. CASE Acquire(j) \/ CommandEnds(j)
  BY <1>2, <1>t DEF Acquire, CommandEnds
<1>3. CASE CommandFails(j)
  BY <1>3, <1>t DEF CommandFails
<1>4. CASE WriteBack(j)
  BY <1>4, <1>t DEF WriteBack
<1>5. CASE Finish(j)
  BY <1>5, <1>t DEF Finish
<1>6. CASE Release(j) \/ Done(j)
  BY <1>6, <1>t DEF Release, Done
<1> QED
  BY <1>1, <1>2, <1>3, <1>4, <1>5, <1>6 DEF Work

\* The table never reports a job done whose output is not durable, nor one
\* failed whose output is, but for a failing hook.
THEOREM TableIsHonest == Spec => []TableTellsTruth
<1>1. Init => IHonest
  BY DEF Init, IHonest, Ended
<1>2. ASSUME TypeOK, IHonest, Stop \/ PostCommit \/ ContextDone
      PROVE  IHonest'
  <2>1. UNCHANGED <<jobVars, store>>
    BY <1>2 DEF Stop, Shutdown, Wait, WaitReturns, Drain, StopTransports, CloseLog, LogClosed,
                Exit, ContextDone, PostCommit, logVars
  <2> QED
    BY <1>2, <2>1 DEF IHonest, Ended, jobVars
<1>3. TypeOK /\ IHonest /\ [Next]_vars => IHonest'
  <2>1. IHonest /\ UNCHANGED vars => IHonest'
    BY DEF IHonest, Ended, vars, jobVars, logVars
  <2> QED
    BY <2>1, <1>2, WorkHonest DEF Next
<1>4. TypeOK /\ IHonest => TableTellsTruth
  BY DEF TypeOK, IHonest, Ended, TableTellsTruth
<1> QED
  BY <1>1, <1>3, <1>4, TypeCorrect, PTL DEF Spec
-----------------------------------------------------------------------------
(* The events of the commits.  A durable output has been emitted or its     *)
(* post-commit chain is still to run; once the log is behind Shutdown,      *)
(* nothing more commits, and what was left has run unless the time was up.  *)

IEmits ==
  /\ store \subseteq emitted \cup unposted
  /\ stage \in {"analytics", "exited"} => closed /\ (late \/ unposted = {})

\* Only WriteBack commits, and not on a closed log.
LEMMA WorkEmits ==
  ASSUME IEmits, NEW j \in JobIds, Work(j)
  PROVE  IEmits'
<1> USE DEF IEmits, stopVars, logVars
<1>1. CASE WriteBack(j)
  BY <1>1 DEF WriteBack
<1>2. CASE ~ WriteBack(j)
  <2>1. UNCHANGED <<store, emitted, unposted, stage, closed, late>>
    BY <1>2 DEF Work, Register, Launch, Acquire, CommandFails, CommandEnds, Finish, Release, Done
  <2> QED
    BY <2>1
<1> QED
  BY <1>1, <1>2

\* Shutdown passes the log only when the chain has run or the time is up.
LEMMA StopEmits ==
  ASSUME IEmits, Stop \/ PostCommit \/ ContextDone
  PROVE  IEmits'
<1> USE DEF IEmits, stopVars, logVars
<1>1. CASE Shutdown \/ Wait \/ WaitReturns
  BY <1>1 DEF Shutdown, Wait, WaitReturns
<1>2. CASE Drain \/ StopTransports \/ CloseLog
  BY <1>2 DEF Drain, StopTransports, CloseLog
<1>3. CASE LogClosed \/ Exit
  BY <1>3 DEF LogClosed, Exit
<1>4. CASE ContextDone \/ PostCommit
  BY <1>4 DEF ContextDone, PostCommit
<1> QED
  BY <1>1, <1>2, <1>3, <1>4 DEF Stop

\* Unless the deadline passed, every durable output has its events at exit.
THEOREM CommitsEmit == Spec => []EveryCommitEmits
<1>1. Init => IEmits
  BY DEF Init, IEmits
<1>2. IEmits /\ [Next]_vars => IEmits'
  <2>1. IEmits /\ UNCHANGED vars => IEmits'
    BY DEF IEmits, vars, stopVars, logVars
  <2> QED
    BY <2>1, WorkEmits, StopEmits DEF Next
<1>3. IEmits => EveryCommitEmits
  BY DEF IEmits, EveryCommitEmits
<1> QED
  BY <1>1, <1>2, <1>3, PTL DEF Spec
-----------------------------------------------------------------------------
(* The event log.  The other name of a segment, and what a segment, an       *)
(* offset or a cursor stands for.                                            *)

\* What the first n lines of a segment s tell is in R.
Tells(s, n, R) == \A i \in 1..n : s[i] \in 1..MaxEvents => s[i] \in R

\* How far the segment f of the directory D is read with cursor c.
ReadTo(D, c, f) ==
  IF f.zst /\ RawOf(f) \notin DOMAIN c
  THEN IF Offset(c, f) >= Len(D[f]) THEN Len(D[f]) ELSE 0
  ELSE Offset(c, RawOf(f))
Told(D, c, R) ==
  \A f \in DOMAIN D : ReadTo(D, c, f) <= Len(D[f]) /\ Tells(D[f], ReadTo(D, c, f), R)

\* A cursor names files that are there under one name or the other, or have
\* been shipped, S being the files that have; and nothing that is yet to be sealed.
Named(D, S, c) ==
  /\ \A f \in DOMAIN c : {RawOf(f), ZstOf(f)} \cap (DOMAIN D \cup S) # {}
  /\ \A f \in DOMAIN D : ~f.zst /\ ZstOf(f) \notin DOMAIN D => ZstOf(f) \notin DOMAIN c
Follows(D, S, c, R) == Named(D, S, c) /\ Told(D, c, R)

\* The cursor once the scan that is open has ended.
Scanned == Merge(idx.marks, cursor)

Directory(D) ==
  /\ DOMAIN D \subseteq Segment
  /\ \A f \in DOMAIN D : D[f] \in Seq(0..MaxEvents + 1) /\ D[f] # <<>>

EClock ==
  /\ today \in 0..MaxDay /\ logged \in 0..MaxEvents /\ mishaps \in 0..MaxMishaps /\ torn \in BOOLEAN
EDirectory == Directory(segs) /\ \A f \in Segments : Len(segs[f]) <= logged
EShipTypes ==
  /\ remote \subseteq 1..MaxEvents /\ IsOffsets(sent) /\ IsOffsets(sentDisk)
  /\ ship = [at |-> ship.at, file |-> ship.file, todo |-> ship.todo]
  /\ ship.at \in {"idle", "sealing", "unlinking", "shipping", "saving"}
  /\ ship.file \in Segment /\ IsOffsets(ship.todo)
EIndexTypes ==
  /\ rows \subseteq 1..MaxEvents /\ IsOffsets(cursor) /\ IsOffsets(cursorDisk)
  /\ idx.at \in {"idle", "open"} /\ IsOffsets(idx.marks) /\ idx.lines \subseteq 0..MaxEvents + 1
  /\ idx.upTo \in 0..logged /\ idx.batch \in BOOLEAN /\ idx.more \in BOOLEAN
  /\ caughtUp \in BOOLEAN /\ since \in 0..MaxDay + 1
ETypes == EClock /\ EDirectory /\ EShipTypes /\ EIndexTypes

(* A late file is named after an event that has been appended.               *)
EOwn ==
  \A f \in Segments \cup DOMAIN sent \cup DOMAIN cursor \cup DOMAIN cursorDisk \cup DOMAIN idx.marks :
    f.own <= logged

(* Only files of days gone by are sealed; a segment in two files has the      *)
(* same lines in both; and what is yet to be sealed has not been shipped      *)
(* under the name it gets.                                                    *)
ESealed ==
  /\ \A f \in Segments : f.zst => f.day < today
  /\ \A f \in Segments : ~f.zst =>
       /\ ZstOf(f) \in Segments => segs[ZstOf(f)] = segs[f]
       /\ ZstOf(f) \notin DOMAIN sent /\ ZstOf(f) \notin DOMAIN ship.todo

(* What ShipNow has in hand is there, at least as long as listed.             *)
EShip ==
  /\ ship.at \in {"idle", "sealing", "unlinking"} => DOMAIN ship.todo = {}
  /\ \A f \in DOMAIN ship.todo : f \in Segments /\ ship.todo[f] <= Len(segs[f])
  /\ ship.at = "unlinking" => /\ ~ship.file.zst
                              /\ {ship.file, ZstOf(ship.file)} \subseteq Segments
  /\ ship.at = "saving" => /\ ship.file \in DOMAIN ship.todo
                           /\ Tells(segs[ship.file], ship.todo[ship.file], remote)
ESent ==
  /\ sentDisk = sent
  /\ \A f \in Segments \cap DOMAIN sent :
       sent[f] <= Len(segs[f]) /\ Tells(segs[f], sent[f], remote)

(* The cursor, the one on disk and the one the open scan will leave follow    *)
(* the table and what the scan will add to it.                                *)
ECursors ==
  /\ Follows(segs, DOMAIN sent, cursor, rows)
  /\ Follows(segs, DOMAIN sent, cursorDisk, rows)
  /\ Follows(segs, DOMAIN sent, Scanned, rows \cup idx.lines)

(* A batch that leaves no segment out has opened all there was when it began, *)
(* but for the unread ends of sealed segments.                                *)
Reaches(D, c, R, n) ==
  \A f \in DOMAIN D : \A i \in 1..Len(D[f]) :
    D[f][i] \in 1..n =>
      D[f][i] \in R \/ (f.zst /\ RawOf(f) \in DOMAIN c /\ i > c[RawOf(f)])
EScan ==
  /\ idx.at = "idle" => idx.marks = <<>> /\ idx.lines = {}
  /\ idx.at = "open" /\ idx.batch /\ ~idx.more => Reaches(segs, Scanned, rows \cup idx.lines, idx.upTo)

EInv == ETypes /\ EOwn /\ ESealed /\ EShip /\ ESent /\ ECursors /\ EScan
-----------------------------------------------------------------------------
(* The operators. *)

\* The two names of a segment.
LEMMA SegmentNames ==
  ASSUME NEW f \in Segment
  PROVE  /\ RawOf(f) \in Segment /\ ZstOf(f) \in Segment /\ ~RawOf(f).zst /\ ZstOf(f).zst
         /\ RawOf(f).day = f.day /\ ZstOf(f).day = f.day
         /\ RawOf(f).own = f.own /\ ZstOf(f).own = f.own
         /\ f.day \in Nat /\ f.own \in Nat
         /\ f.zst => ZstOf(f) = f
         /\ ~f.zst => RawOf(f) = f
         /\ RawOf(ZstOf(f)) = RawOf(f) /\ ZstOf(RawOf(f)) = ZstOf(f)
<1>1. PICK d \in 0..MaxDay, o \in 0..MaxEvents, z \in BOOLEAN :
        f = [day |-> d, own |-> o, zst |-> z]
  BY DEF Segment
<1>2. RawOf(f) = [day |-> d, own |-> o, zst |-> FALSE]
  BY <1>1 DEF RawOf
<1>3. ZstOf(f) = [day |-> d, own |-> o, zst |-> TRUE]
  BY <1>1 DEF ZstOf
<1>4. RawOf(ZstOf(f)) = RawOf(f) /\ ZstOf(RawOf(f)) = ZstOf(f)
  BY <1>2, <1>3 DEF RawOf, ZstOf
<1>5. /\ f.day = d /\ f.own = o /\ f.zst = z /\ d \in Nat /\ o \in Nat
      /\ RawOf(f).day = d /\ RawOf(f).own = o /\ RawOf(f).zst = FALSE
      /\ ZstOf(f).day = d /\ ZstOf(f).own = o /\ ZstOf(f).zst = TRUE
  BY <1>1, <1>2, <1>3, EventLogAssumption
<1>6. RawOf(f) \in Segment /\ ZstOf(f) \in Segment
  BY <1>2, <1>3 DEF Segment
<1>7. (z = TRUE => ZstOf(f) = f) /\ (z = FALSE => RawOf(f) = f)
  BY <1>1, <1>2, <1>3
<1> QED
  BY <1>4, <1>5, <1>6, <1>7

\* Of a nonempty set of segments some are the newest.
LEMMA NewestExist ==
  ASSUME NEW S \in SUBSET Segment, S # {}
  PROVE  Newest(S) # {}
<1> DEFINE T == {MaxDay - f.day : f \in S}
<1>1. \A f \in S : f.day \in 0..MaxDay
  BY DEF Segment
<1>2. T \subseteq Nat /\ T # {}
  BY <1>1, EventLogAssumption
<1>3. PICK n \in T : \A m \in T : ~(<<m, n>> \in OpToRel(<, Nat))
  BY <1>2, NatLessThanWellFounded, WFMin, Zenon
<1>4. \A m \in T : ~(m < n)
  BY <1>2, <1>3 DEF OpToRel
<1>5. PICK f \in S : n = MaxDay - f.day
  BY <1>3
<1>6. ASSUME NEW g \in S PROVE g.day <= f.day
  <2>1. MaxDay - g.day \in T /\ ~(MaxDay - g.day < n)
    BY <1>4
  <2> QED
    BY <2>1, <1>1, <1>5, EventLogAssumption
<1> QED
  BY <1>5, <1>6 DEF Newest

\* Lines that are there stay where they are when one is appended.
LEMMA AppendKeeps ==
  ASSUME NEW L, NEW s \in Seq(L), NEW line \in L
  PROVE  /\ Append(s, line) \in Seq(L) /\ Len(Append(s, line)) = Len(s) + 1 /\ Append(s, line) # <<>>
         /\ \A i \in 1..Len(s) : Append(s, line)[i] = s[i]
         /\ Append(s, line)[Len(s) + 1] = line
OBVIOUS

\* The events of a segment are at its places.
LEMMA EventsAre ==
  ASSUME NEW L, NEW s \in Seq(L), NEW a \in 1..(Len(s) + 1), NEW b \in 0..Len(s)
  PROVE  /\ \A e : e \in LinesOf(s) <=> \E i \in 1..Len(s) : s[i] = e
         /\ \A e : e \in LinesOf(SubSeq(s, a, b)) <=> \E i \in a..b : s[i] = e
         /\ \A e : e \in EventsOf(s) <=> e \in 1..MaxEvents /\ \E i \in 1..Len(s) : s[i] = e
         /\ \A e : e \in EventsOf(SubSeq(s, a, b))
                     <=> e \in 1..MaxEvents /\ \E i \in a..b : s[i] = e
<1>1. DOMAIN s = 1..Len(s)
  OBVIOUS
<1>2. LinesOf(s) = {s[i] : i \in 1..Len(s)}
  BY <1>1 DEF LinesOf
<1> DEFINE t == SubSeq(s, a, b)
<1>3. /\ DOMAIN t = 1..Len(t) /\ Len(t) = IF a <= b THEN b - a + 1 ELSE 0
      /\ \A i \in 1..Len(t) : t[i] = s[a + i - 1]
  OBVIOUS
<1>4. \A x : (\E i \in DOMAIN t : t[i] = x) <=> (\E i \in a..b : s[i] = x)
  <2>1. ASSUME NEW i \in DOMAIN t
        PROVE  a + i - 1 \in a..b /\ t[i] = s[a + i - 1]
    BY <1>3, <2>1
  <2>2. ASSUME NEW i \in a..b
        PROVE  i - a + 1 \in DOMAIN t /\ t[i - a + 1] = s[i]
    <3>1. i - a + 1 \in 1..Len(t) /\ a + (i - a + 1) - 1 = i
      BY <1>3, <2>2
    <3> QED
      BY <1>3, <3>1
  <2> QED
    BY <2>1, <2>2
<1>5. LinesOf(t) = {s[i] : i \in a..b}
  BY <1>4 DEF LinesOf
<1> QED
  BY <1>2, <1>5 DEF EventsOf
-----------------------------------------------------------------------------
(* What happens to a segment leaves a cursor that follows the table with     *)
(* it: D is the directory, S the files shipped, R the rows.                  *)

LinesBefore(D, f) == IF f \in DOMAIN D THEN D[f] ELSE <<>>
Appended(D, f, line) == With(D, f, Append(LinesBefore(D, f), line))

\* What setting, dropping and merging entries leaves of a function.
LEMMA WithMeans ==
  ASSUME NEW D, NEW f, NEW v
  PROVE  /\ DOMAIN With(D, f, v) = DOMAIN D \cup {f} /\ With(D, f, v)[f] = v
         /\ \A g \in DOMAIN D : g # f => With(D, f, v)[g] = D[g]
BY DEF With

LEMMA ForgetMeans ==
  ASSUME NEW D, NEW f
  PROVE  /\ DOMAIN Forget(D, f) = DOMAIN D \ {f}
         /\ \A g \in DOMAIN D \ {f} : Forget(D, f)[g] = D[g]
BY DEF Forget

LEMMA MergeMeans ==
  ASSUME NEW c, NEW d
  PROVE  /\ DOMAIN Merge(c, d) = DOMAIN c \cup DOMAIN d
         /\ \A f \in DOMAIN c : Merge(c, d)[f] = c[f]
         /\ \A f \in DOMAIN d \ DOMAIN c : Merge(c, d)[f] = d[f]
BY DEF Merge

\* How far a segment is read, by the kind of its file.
LEMMA ReadToMeans ==
  ASSUME NEW D, NEW c, NEW f \in Segment
  PROVE  /\ ~f.zst => ReadTo(D, c, f) = Offset(c, f)
         /\ RawOf(f) \in DOMAIN c => ReadTo(D, c, f) = c[RawOf(f)]
         /\ f.zst /\ RawOf(f) \notin DOMAIN c =>
              ReadTo(D, c, f) = IF Offset(c, f) >= Len(D[f]) THEN Len(D[f]) ELSE 0
<1>1. ~f.zst => RawOf(f) = f
  BY SegmentNames
<1> QED
  BY <1>1 DEF ReadTo, Offset

LEMMA ReadToType ==
  ASSUME NEW D, NEW c, Directory(D), IsOffsets(c), NEW f \in DOMAIN D
  PROVE  ReadTo(D, c, f) \in Nat /\ Len(D[f]) \in Nat \ {0} /\ Offset(c, f) \in Nat
         /\ f \in Segment
<1>1. f \in Segment /\ Len(D[f]) \in Nat \ {0}
  BY DEF Directory
<1>2. \A g : Offset(c, g) \in Nat
  BY EventLogAssumption DEF IsOffsets, Offset
<1> QED
  BY <1>1, <1>2 DEF ReadTo

\* A line comes to the plain file, the only one of its segment, which is new
\* to the cursor unless it is there.
LEMMA AppendFollows ==
  ASSUME NEW D, NEW S, NEW c, NEW R, NEW f \in Segment, NEW line \in 0..MaxEvents + 1,
         Directory(D), IsOffsets(c), Follows(D, S, c, R),
         ~f.zst, ZstOf(f) \notin DOMAIN D,
         f \in DOMAIN D \/ {f, ZstOf(f)} \cap DOMAIN c = {}
  PROVE  Follows(Appended(D, f, line), S, c, R)
<1> DEFINE E == Appended(D, f, line)
<1>1. DOMAIN E = DOMAIN D \cup {f} /\ E[f] = Append(LinesBefore(D, f), line)
      /\ \A g \in DOMAIN D : g # f => E[g] = D[g]
  BY DEF Appended, With
<1> HIDE DEF E
<1>2. Named(E, S, c)
  <2>1. \A g \in DOMAIN c : {RawOf(g), ZstOf(g)} \cap (DOMAIN E \cup S) # {}
    BY <1>1 DEF Follows, Named
  <2>2. ASSUME NEW g \in DOMAIN E, ~g.zst, ZstOf(g) \notin DOMAIN E
        PROVE  ZstOf(g) \notin DOMAIN c
    <3>1. CASE g \in DOMAIN D
      BY <3>1, <2>2, <1>1 DEF Follows, Named
    <3>2. CASE g \notin DOMAIN D
      BY <3>2, <2>2, <1>1
    <3> QED
      BY <3>1, <3>2
  <2> QED
    BY <2>1, <2>2 DEF Named
<1>3. ASSUME NEW g \in DOMAIN E
      PROVE  ReadTo(E, c, g) <= Len(E[g]) /\ Tells(E[g], ReadTo(E, c, g), R)
  <2>1. CASE g # f
    <3>1. g \in DOMAIN D /\ E[g] = D[g] /\ ReadTo(E, c, g) = ReadTo(D, c, g)
      BY <2>1, <1>1 DEF ReadTo
    <3> QED
      BY <3>1 DEF Follows, Told
  <2>2. CASE g = f /\ f \in DOMAIN D
    <3>1. ReadTo(E, c, f) = ReadTo(D, c, f) /\ ReadTo(D, c, f) \in Nat
      BY <2>2, ReadToMeans, ReadToType
    <3>2. D[f] \in Seq(0..MaxEvents + 1) /\ E[f] = Append(D[f], line)
      BY <2>2, <1>1 DEF Directory, LinesBefore
    <3>3. /\ Len(E[f]) = Len(D[f]) + 1 /\ Len(D[f]) \in Nat
          /\ \A i \in 1..Len(D[f]) : E[f][i] = D[f][i]
      BY <3>2, AppendKeeps
    <3>4. ReadTo(D, c, f) <= Len(D[f]) /\ Tells(D[f], ReadTo(D, c, f), R)
      BY <2>2 DEF Follows, Told
    <3>5. \A i \in 1..ReadTo(D, c, f) : E[f][i] = D[f][i]
      BY <3>1, <3>3, <3>4
    <3> QED
      BY <2>2, <3>1, <3>3, <3>4, <3>5 DEF Tells
  <2>3. CASE g = f /\ f \notin DOMAIN D
    <3>1. ReadTo(E, c, f) = 0
      BY <2>3, ReadToMeans DEF Offset
    <3>2. E[f] \in Seq(0..MaxEvents + 1)
      BY <2>3, <1>1, AppendKeeps DEF LinesBefore
    <3> QED
      BY <2>3, <3>1, <3>2 DEF Tells
  <2> QED
    BY <1>1, <1>3, <2>1, <2>2, <2>3
<1> QED
  BY <1>2, <1>3 DEF Follows, Told, E

\* The compressed copy comes, or comes again.
LEMMA CompressFollows ==
  ASSUME NEW D, NEW S, NEW c, NEW R, NEW f \in DOMAIN D,
         Directory(D), IsOffsets(c), Follows(D, S, c, R),
         ~f.zst, ZstOf(f) \in DOMAIN D => D[ZstOf(f)] = D[f]
  PROVE  Follows(With(D, ZstOf(f), D[f]), S, c, R)
<1> DEFINE z == ZstOf(f)
           E == With(D, z, D[f])
<1>1. DOMAIN E = DOMAIN D \cup {z} /\ E[z] = D[f]
      /\ \A g \in DOMAIN D : g # z => E[g] = D[g]
  BY DEF With
<1>2. f \in Segment /\ z \in Segment /\ z.zst /\ RawOf(z) = f
  BY SegmentNames DEF Directory
<1> HIDE DEF E, z
<1>3. Named(E, S, c)
  <2>1. \A g \in DOMAIN c : {RawOf(g), ZstOf(g)} \cap (DOMAIN E \cup S) # {}
    BY <1>1 DEF Follows, Named
  <2>2. \A g \in DOMAIN E : ~g.zst /\ ZstOf(g) \notin DOMAIN E => ZstOf(g) \notin DOMAIN c
    BY <1>1, <1>2 DEF Follows, Named
  <2> QED
    BY <2>1, <2>2 DEF Named
<1>4. ASSUME NEW g \in DOMAIN E
      PROVE  ReadTo(E, c, g) <= Len(E[g]) /\ Tells(E[g], ReadTo(E, c, g), R)
  <2>1. CASE g # z
    <3>1. g \in DOMAIN D /\ E[g] = D[g] /\ ReadTo(E, c, g) = ReadTo(D, c, g)
      BY <2>1, <1>1 DEF ReadTo
    <3> QED
      BY <3>1 DEF Follows, Told
  <2>2. CASE g = z /\ f \in DOMAIN c
    <3>1. ReadTo(E, c, z) = ReadTo(D, c, f)
      BY <2>2, <1>2, ReadToMeans DEF Offset
    <3> QED
      BY <2>2, <3>1, <1>1 DEF Follows, Told
  <2>3. CASE g = z /\ f \notin DOMAIN c /\ z \in DOMAIN D
    <3>1. E[z] = D[z] /\ ReadTo(E, c, z) = ReadTo(D, c, z)
      BY <2>3, <1>1, <1>2, ReadToMeans DEF z
    <3> QED
      BY <2>3, <3>1 DEF Follows, Told
  <2>4. CASE g = z /\ f \notin DOMAIN c /\ z \notin DOMAIN D
    <3>1. z \notin DOMAIN c
      BY <2>4 DEF Follows, Named, z
    <3>2. Len(D[f]) \in Nat \ {0}
      BY ReadToType
    <3>3. ReadTo(E, c, z) = 0
      BY <2>4, <3>1, <3>2, <1>1, <1>2, ReadToMeans DEF Offset
    <3> QED
      BY <2>4, <3>2, <3>3, <1>1 DEF Tells
  <2> QED
    BY <2>1, <2>2, <2>3, <2>4
<1> QED
  BY <1>3, <1>4 DEF Follows, Told, E, z

\* A file goes: the plain one of two, or one that has been shipped.
LEMMA ForgetFollows ==
  ASSUME NEW D, NEW S, NEW c, NEW R, NEW f \in DOMAIN D,
         Directory(D), IsOffsets(c), Follows(D, S, c, R),
         \/ ~f.zst /\ ZstOf(f) \in DOMAIN D
         \/ f \in S /\ (f.zst => RawOf(f) \notin DOMAIN D)
  PROVE  Follows(Forget(D, f), S, c, R)
<1> DEFINE E == Forget(D, f)
<1>1. DOMAIN E = DOMAIN D \ {f} /\ \A g \in DOMAIN E : E[g] = D[g]
  BY ForgetMeans
<1>2. f \in Segment /\ DOMAIN c \subseteq Segment /\ DOMAIN D \subseteq Segment
  BY DEF Directory, IsOffsets
<1> HIDE DEF E
<1>3. ASSUME NEW g \in DOMAIN c
      PROVE  {RawOf(g), ZstOf(g)} \cap (DOMAIN E \cup S) # {}
  <2>1. CASE f \in S
    BY <2>1, <1>1 DEF Follows, Named
  <2>2. CASE ~f.zst /\ ZstOf(f) \in DOMAIN D
    <3>1. RawOf(g) = f => ZstOf(g) = ZstOf(f) /\ ZstOf(f) # f
      BY <1>2, <2>2, SegmentNames
    <3>2. ZstOf(g) # f
      BY <1>2, <2>2, SegmentNames
    <3> QED
      BY <1>1, <2>2, <3>1, <3>2 DEF Follows, Named
  <2> QED
    BY <2>1, <2>2
<1>4. ASSUME NEW g \in DOMAIN E, ~g.zst, ZstOf(g) \notin DOMAIN E
      PROVE  ZstOf(g) \notin DOMAIN c
  <2>1. ZstOf(g) # f
    BY <1>1, <1>2, <1>4, SegmentNames
  <2> QED
    BY <2>1, <1>1, <1>4 DEF Follows, Named
<1>5. ASSUME NEW g \in DOMAIN E
      PROVE  ReadTo(E, c, g) <= Len(E[g]) /\ Tells(E[g], ReadTo(E, c, g), R)
  <2>1. g \in DOMAIN D /\ E[g] = D[g] /\ ReadTo(E, c, g) = ReadTo(D, c, g)
    BY <1>1 DEF ReadTo
  <2> QED
    BY <2>1 DEF Follows, Told
<1> QED
  BY <1>3, <1>4, <1>5 DEF Follows, Named, Told, E

\* Files shipped and rows added do no harm to a cursor.
LEMMA MoreFollows ==
  ASSUME NEW D, NEW S, NEW c, NEW R, NEW S2, NEW R2, S \subseteq S2, R \subseteq R2, Follows(D, S, c, R)
  PROVE  Follows(D, S2, c, R2)
BY DEF Follows, Named, Told, Tells
-----------------------------------------------------------------------------
(* A scan opens segments, and what it opens it reads to the end.             *)

\* A segment in two files has the same lines in both.
Twins(D) == \A f \in DOMAIN D : ~f.zst /\ ZstOf(f) \in DOMAIN D => D[ZstOf(f)] = D[f]
\* The cursor that stands at the ends of the segments O.
AtEnds(D, O) == [f \in O |-> Len(D[f])]
SealedIn(D, c) == {f \in DOMAIN D : f.zst /\ RawOf(f) \in DOMAIN c}
\* Cursor m is c moved to the ends of O, and covers all when O is all there was
\* to read; or is c with what it takes for read made explicit.
MovesTo(D, O, c, m) == m = Merge(AtEnds(D, O), c)
MayCover(D, O, c, m, R) ==
  (\A f \in DOMAIN D \ (O \cup SealedIn(D, c)) : ReadTo(D, c, f) = Len(D[f]))
     => \A n \in 0..MaxEvents : Reaches(D, m, R, n)
Seals(D, c, m) == m = Merge(AtEnds(D, SealedIn(D, c)), c)
ReadsAlike(D, c, m) ==
  /\ DOMAIN m = DOMAIN c \cup SealedIn(D, c) /\ SealedIn(D, m) = SealedIn(D, c)
  /\ \A f \in DOMAIN D : ReadTo(D, m, f) = ReadTo(D, c, f)

\* The cursor takes the sealed segments whose plain file it knows for read.
LEMMA SealedFollows ==
  ASSUME NEW D, NEW S, NEW c, NEW R, NEW m, Directory(D), IsOffsets(c), Follows(D, S, c, R),
         \A f \in DOMAIN D : Len(D[f]) <= MaxEvents,
         Seals(D, c, m)
  PROVE  IsOffsets(m) /\ Follows(D, S, m, R) /\ ReadsAlike(D, c, m)
<1>1. /\ DOMAIN m = DOMAIN c \cup SealedIn(D, c)
      /\ \A f \in SealedIn(D, c) : m[f] = Len(D[f])
      /\ \A f \in DOMAIN c \ SealedIn(D, c) : m[f] = c[f]
  BY DEF Merge, AtEnds, Seals
<1>2. /\ SealedIn(D, c) \subseteq DOMAIN D /\ DOMAIN D \subseteq Segment /\ DOMAIN c \subseteq Segment
      /\ \A f \in DOMAIN D : Len(D[f]) \in 0..MaxEvents
  <2>1. \A f \in DOMAIN D : Len(D[f]) \in Nat
    BY ReadToType
  <2> QED
    BY <2>1, EventLogAssumption DEF SealedIn, Directory, IsOffsets
<1>3. IsOffsets(m)
  BY <1>1, <1>2 DEF IsOffsets
<1>4. ASSUME NEW f \in Segment
      PROVE  (RawOf(f) \in DOMAIN m <=> RawOf(f) \in DOMAIN c) /\ RawOf(f) \notin SealedIn(D, c)
  <2>1. ~RawOf(f).zst
    BY SegmentNames
  <2> QED
    BY <2>1, <1>1 DEF SealedIn
<1>5. SealedIn(D, m) = SealedIn(D, c)
  BY <1>2, <1>4 DEF SealedIn
<1>6. ASSUME NEW f \in DOMAIN D
      PROVE  ReadTo(D, m, f) = ReadTo(D, c, f)
  <2>1. CASE ~f.zst
    <3>1. f = RawOf(f) /\ f \in Segment
      BY <2>1, <1>2, SegmentNames
    <3>2. Offset(m, f) = Offset(c, f)
      BY <3>1, <1>1, <1>4 DEF Offset
    <3> QED
      BY <2>1, <3>1, <3>2, ReadToMeans
  <2>2. CASE f.zst /\ RawOf(f) \in DOMAIN c
    <3>1. f \in Segment /\ m[RawOf(f)] = c[RawOf(f)] /\ RawOf(f) \in DOMAIN m
      BY <2>2, <1>1, <1>2, <1>4
    <3> QED
      BY <2>2, <3>1, ReadToMeans
  <2>3. CASE f.zst /\ RawOf(f) \notin DOMAIN c
    <3>1. f \in Segment /\ RawOf(f) \notin DOMAIN m /\ f \notin SealedIn(D, c)
      BY <2>3, <1>2, <1>4 DEF SealedIn
    <3>2. Offset(m, f) = Offset(c, f)
      BY <3>1, <1>1 DEF Offset
    <3> QED
      BY <2>3, <3>1, <3>2, ReadToMeans
  <2> QED
    BY <2>1, <2>2, <2>3
<1>7. Named(D, S, m)
  <2>1. ASSUME NEW f \in DOMAIN m PROVE {RawOf(f), ZstOf(f)} \cap (DOMAIN D \cup S) # {}
    <3>1. CASE f \in DOMAIN c
      BY <3>1 DEF Follows, Named
    <3>2. CASE f \in SealedIn(D, c)
      <4>1. ZstOf(f) = f /\ f \in DOMAIN D
        BY <3>2, <1>2, SegmentNames DEF SealedIn
      <4> QED
        BY <4>1
    <3> QED
      BY <3>1, <3>2, <1>1
  <2>2. \A f \in DOMAIN D : ~f.zst /\ ZstOf(f) \notin DOMAIN D => ZstOf(f) \notin DOMAIN m
    BY <1>1, <1>2 DEF Follows, Named
  <2> QED
    BY <2>1, <2>2 DEF Named
<1> QED
  BY <1>1, <1>3, <1>5, <1>6, <1>7 DEF Follows, Told, ReadsAlike

\* Once all lines of the segments opened are read the cursor may stand at
\* their ends; and it covers everything if what was not opened has been read.
LEMMA OpenFollows ==
  ASSUME NEW D, NEW S, NEW c, NEW R, NEW L, NEW m, NEW O \in SUBSET DOMAIN D,
         Directory(D), IsOffsets(c), Follows(D, S, c, R), Twins(D),
         \A f \in DOMAIN D : Len(D[f]) <= MaxEvents,
         \A f \in O : \A i \in 1..Len(D[f]) : i > ReadTo(D, c, f) => D[f][i] \in L,
         O \cap SealedIn(D, c) = {}, MovesTo(D, O, c, m)
  PROVE  IsOffsets(m) /\ Follows(D, S, m, R \cup L) /\ MayCover(D, O, c, m, R \cup L)
<1>1. /\ DOMAIN m = DOMAIN c \cup O
      /\ \A f \in O : m[f] = Len(D[f])
      /\ \A f \in DOMAIN c \ O : m[f] = c[f]
  BY DEF Merge, AtEnds, MovesTo
<1>2. /\ DOMAIN D \subseteq Segment /\ DOMAIN c \subseteq Segment
      /\ \A f \in DOMAIN D : /\ Len(D[f]) \in 0..MaxEvents /\ Len(D[f]) \in Nat \ {0}
                             /\ ReadTo(D, c, f) \in Nat /\ D[f] \in Seq(0..MaxEvents + 1)
  <2>1. \A f \in DOMAIN D : Len(D[f]) \in Nat \ {0} /\ ReadTo(D, c, f) \in Nat
    BY ReadToType
  <2> QED
    BY <2>1, EventLogAssumption DEF Directory, IsOffsets
<1>3. IsOffsets(m)
  BY <1>1, <1>2 DEF IsOffsets
<1>4. ASSUME NEW f \in O
      PROVE  Tells(D[f], Len(D[f]), R \cup L)
  <2>1. f \in DOMAIN D /\ Tells(D[f], ReadTo(D, c, f), R)
    BY DEF Follows, Told
  <2>2. ASSUME NEW i \in 1..Len(D[f]), D[f][i] \in 1..MaxEvents
        PROVE  D[f][i] \in R \cup L
    <3>1. CASE i > ReadTo(D, c, f)
      BY <3>1
    <3>2. CASE ~(i > ReadTo(D, c, f))
      <4>1. i \in 1..ReadTo(D, c, f)
        BY <3>2, <2>1, <1>2
      <4> QED
        BY <4>1, <2>1, <2>2 DEF Tells
    <3> QED
      BY <3>1, <3>2
  <2> QED
    BY <2>2 DEF Tells
<1>5. \A f \in DOMAIN D : /\ ReadTo(D, c, f) <= Len(D[f])
                          /\ Tells(D[f], ReadTo(D, c, f), R \cup L)
  BY DEF Follows, Told, Tells
<1>6. ASSUME NEW f \in DOMAIN D
      PROVE  /\ ReadTo(D, m, f) <= Len(D[f]) /\ Tells(D[f], ReadTo(D, m, f), R \cup L)
             /\ f \notin O => ReadTo(D, m, f) \in {ReadTo(D, c, f), Len(D[f])}
  <2>0. f \in Segment /\ Len(D[f]) <= Len(D[f])
    <3>1. Len(D[f]) \in Nat
      BY <1>2
    <3> QED
      BY <3>1, <1>2
  <2>1. CASE ~f.zst /\ f \in O
    <3>1. ReadTo(D, m, f) = Len(D[f])
      BY <2>0, <2>1, <1>1, ReadToMeans DEF Offset
    <3>8. Tells(D[f], Len(D[f]), R \cup L)
      BY <2>1, <1>4
    <3> QED
      BY <2>0, <2>1, <3>1, <3>8
  <2>2. CASE ~f.zst /\ f \notin O
    <3>1. ReadTo(D, m, f) = ReadTo(D, c, f)
      BY <2>0, <2>2, <1>1, ReadToMeans DEF Offset
    <3> QED
      BY <3>1, <1>5
  <2>3. CASE f.zst /\ RawOf(f) \in O
    <3>1. ReadTo(D, m, f) = Len(D[RawOf(f)])
      BY <2>0, <2>3, <1>1, ReadToMeans
    <3>2. ~RawOf(f).zst /\ ZstOf(RawOf(f)) = f
      BY <2>0, <2>3, SegmentNames
    <3>3. D[f] = D[RawOf(f)]
      BY <2>3, <3>2 DEF Twins
    <3>8. Tells(D[f], Len(D[f]), R \cup L)
      BY <2>3, <3>3, <1>4
    <3> QED
      BY <2>0, <2>3, <3>1, <3>3, <3>8
  <2>4. CASE f.zst /\ RawOf(f) \notin O /\ RawOf(f) \in DOMAIN c
    <3>1. ReadTo(D, m, f) = ReadTo(D, c, f)
      BY <2>0, <2>4, <1>1, ReadToMeans
    <3> QED
      BY <3>1, <1>5
  <2>5. CASE f.zst /\ RawOf(f) \notin O /\ RawOf(f) \notin DOMAIN c /\ f \in O
    <3>1. RawOf(f) \notin DOMAIN m /\ Offset(m, f) = Len(D[f])
      BY <2>5, <1>1 DEF Offset
    <3>2. ReadTo(D, m, f) = Len(D[f])
      BY <2>0, <2>5, <3>1, <1>2, ReadToMeans
    <3>8. Tells(D[f], Len(D[f]), R \cup L)
      BY <2>5, <1>4
    <3> QED
      BY <2>0, <2>5, <3>2, <3>8
  <2>6. CASE f.zst /\ RawOf(f) \notin O /\ RawOf(f) \notin DOMAIN c /\ f \notin O
    <3>1. RawOf(f) \notin DOMAIN m /\ Offset(m, f) = Offset(c, f)
      BY <2>6, <1>1 DEF Offset
    <3>2. ReadTo(D, m, f) = ReadTo(D, c, f)
      BY <2>0, <2>6, <3>1, ReadToMeans
    <3> QED
      BY <3>2, <1>5
  <2> QED
    BY <2>1, <2>2, <2>3, <2>4, <2>5, <2>6
<1>7. Named(D, S, m)
  <2>1. ASSUME NEW f \in DOMAIN m PROVE {RawOf(f), ZstOf(f)} \cap (DOMAIN D \cup S) # {}
    <3>1. CASE f \in DOMAIN c
      BY <3>1 DEF Follows, Named
    <3>2. CASE f \in O
      <4>1. f \in Segment /\ f.zst \in BOOLEAN
        BY <3>2, <1>2 DEF Segment
      <4>2. f \in {RawOf(f), ZstOf(f)}
        BY <4>1, SegmentNames
      <4> QED
        BY <3>2, <4>2
    <3> QED
      BY <3>1, <3>2, <1>1
  <2>2. \A f \in DOMAIN D : ~f.zst /\ ZstOf(f) \notin DOMAIN D => ZstOf(f) \notin DOMAIN m
    BY <1>1 DEF Follows, Named
  <2> QED
    BY <2>1, <2>2 DEF Named
<1>8. ASSUME \A f \in DOMAIN D \ (O \cup SealedIn(D, c)) : ReadTo(D, c, f) = Len(D[f]),
             NEW n \in 0..MaxEvents, NEW f \in DOMAIN D, NEW i \in 1..Len(D[f]), D[f][i] \in 1..n
      PROVE  D[f][i] \in R \cup L \/ (f.zst /\ RawOf(f) \in DOMAIN m /\ i > m[RawOf(f)])
  <2>0. D[f][i] \in 1..MaxEvents
    BY <1>8, EventLogAssumption
  <2>1. CASE f \in O
    BY <2>0, <2>1, <1>4 DEF Tells
  <2>2. CASE f \notin O /\ f \notin SealedIn(D, c)
    <3>1. ReadTo(D, c, f) = Len(D[f])
      BY <2>2, <1>8
    <3> QED
      BY <2>0, <3>1, <1>5 DEF Tells
  <2>3. CASE f \in SealedIn(D, c)
    <3>1. f.zst /\ RawOf(f) \in DOMAIN m /\ f \in Segment
      BY <2>3, <1>1, <1>2 DEF SealedIn
    <3>2. ReadTo(D, m, f) = m[RawOf(f)] /\ m[RawOf(f)] \in Nat
      BY <3>1, <1>3, ReadToMeans, EventLogAssumption DEF IsOffsets
    <3>3. i <= m[RawOf(f)] => i \in 1..ReadTo(D, m, f)
      BY <3>2
    <3> QED
      BY <2>0, <3>1, <3>2, <3>3, <1>6 DEF Tells
  <2> QED
    BY <2>1, <2>2, <2>3
<1> QED
  BY <1>3, <1>6, <1>7, <1>8 DEF Follows, Told, Reaches, MayCover

\* A line appended after the scan began is none of its business.
LEMMA AppendReaches ==
  ASSUME NEW D, NEW c, NEW R, NEW n \in Nat, NEW f \in Segment, NEW line \in 0..MaxEvents + 1,
         Directory(D), Reaches(D, c, R, n), ~f.zst, line \notin 1..n
  PROVE  Reaches(Appended(D, f, line), c, R, n)
<1> DEFINE E == Appended(D, f, line)
<1>1. DOMAIN E = DOMAIN D \cup {f} /\ E[f] = Append(LinesBefore(D, f), line)
      /\ \A g \in DOMAIN D : g # f => E[g] = D[g]
  BY DEF Appended, With
<1> HIDE DEF E
<1>2. LinesBefore(D, f) \in Seq(0..MaxEvents + 1)
  <2>1. CASE f \in DOMAIN D
    BY <2>1 DEF LinesBefore, Directory
  <2>2. CASE f \notin DOMAIN D
    BY <2>2 DEF LinesBefore
  <2> QED
    BY <2>1, <2>2
<1>3. ASSUME NEW g \in DOMAIN E, NEW i \in 1..Len(E[g]), E[g][i] \in 1..n
      PROVE  E[g][i] \in R \/ (g.zst /\ RawOf(g) \in DOMAIN c /\ i > c[RawOf(g)])
  <2>1. CASE g # f
    BY <2>1, <1>1, <1>3 DEF Reaches
  <2>2. CASE g = f
    <3>1. i \in 1..Len(LinesBefore(D, f)) /\ LinesBefore(D, f)[i] = E[g][i]
      BY <2>2, <1>1, <1>2, <1>3, AppendKeeps
    <3>2. f \in DOMAIN D /\ LinesBefore(D, f) = D[f]
      BY <3>1 DEF LinesBefore
    <3> QED
      BY <2>2, <3>1, <3>2, <1>3 DEF Reaches
  <2> QED
    BY <2>1, <2>2
<1> QED
  BY <1>3 DEF Reaches, E

\* The copy, the file that goes and the rows that come change nothing there.
LEMMA CompressReaches ==
  ASSUME NEW D, NEW c, NEW R, NEW n, NEW f \in DOMAIN D, Reaches(D, c, R, n), ~f.zst
  PROVE  Reaches(With(D, ZstOf(f), D[f]), c, R, n)
BY DEF Reaches, With

LEMMA ForgetReaches ==
  ASSUME NEW D, NEW c, NEW R, NEW n, NEW f, Reaches(D, c, R, n)
  PROVE  Reaches(Forget(D, f), c, R, n)
BY DEF Reaches, Forget

LEMMA MoreReaches ==
  ASSUME NEW D, NEW c, NEW R, NEW n, NEW Q, Reaches(D, c, R, n), R \subseteq Q
  PROVE  Reaches(D, c, Q, n)
BY DEF Reaches
-----------------------------------------------------------------------------
(* The steps.  Those of the log and its Shipper leave the index alone.       *)

Cursors == {cursor, cursorDisk, Scanned}

\* The cursor after the scan is one.
LEMMA ScannedType == ETypes => IsOffsets(Scanned)
<1>1. /\ DOMAIN Scanned = DOMAIN idx.marks \cup DOMAIN cursor
      /\ \A f \in DOMAIN Scanned : Scanned[f] = idx.marks[f] \/ Scanned[f] = cursor[f]
      /\ \A f \in DOMAIN Scanned : f \in DOMAIN idx.marks => Scanned[f] = idx.marks[f]
      /\ \A f \in DOMAIN Scanned : f \notin DOMAIN idx.marks => Scanned[f] = cursor[f]
  BY DEF Scanned, Merge
<1> QED
  BY <1>1 DEF ETypes, EIndexTypes, IsOffsets

\* What leaves the index alone keeps what it says of a cursor, of a scan,
\* of the types and of late files.
LEMMA CursorsKept ==
  ASSUME ECursors, UNCHANGED indexVars,
         \A c \in Cursors : \A R : Follows(segs, DOMAIN sent, c, R) => Follows(segs', DOMAIN sent', c, R)
  PROVE  ECursors'
<1>1. /\ cursor' = cursor /\ cursorDisk' = cursorDisk /\ rows' = rows /\ idx' = idx
      /\ Scanned' = Scanned
  BY DEF indexVars, Scanned
<1> QED
  BY <1>1 DEF ECursors, Cursors

LEMMA ScanKept ==
  ASSUME EScan, UNCHANGED indexVars,
         \A c, R : Reaches(segs, c, R, idx.upTo) => Reaches(segs', c, R, idx.upTo)
  PROVE  EScan'
<1>1. cursor' = cursor /\ rows' = rows /\ idx' = idx /\ Scanned' = Scanned
  BY DEF indexVars, Scanned
<1> QED
  BY <1>1 DEF EScan

LEMMA IndexTypesKept ==
  ASSUME EClock, EIndexTypes, UNCHANGED indexVars, logged' \in Nat, logged <= logged'
  PROVE  EIndexTypes'
<1>1. idx.upTo \in 0..logged'
  BY DEF EClock, EIndexTypes
<1> QED
  BY <1>1 DEF EIndexTypes, indexVars

LEMMA OwnKept ==
  ASSUME EOwn, EClock, UNCHANGED indexVars, logged' \in Nat, logged <= logged',
         ETypes,
         \A f \in DOMAIN segs' \cup DOMAIN sent' :
           f \in Segments \cup DOMAIN sent \/ f.own <= logged'
  PROVE  EOwn'
<1>1. cursor' = cursor /\ cursorDisk' = cursorDisk /\ idx' = idx
  BY DEF indexVars
<1>2. /\ Segments \subseteq Segment /\ DOMAIN sent \subseteq Segment /\ DOMAIN cursor \subseteq Segment
      /\ DOMAIN cursorDisk \subseteq Segment /\ DOMAIN idx.marks \subseteq Segment
  BY DEF ETypes, EDirectory, Directory, EShipTypes, EIndexTypes, IsOffsets, Segments
<1>3. ASSUME NEW f \in Segment, f.own <= logged
      PROVE  f.own <= logged'
  BY <1>3, SegmentNames DEF EClock
<1> QED
  BY <1>1, <1>2, <1>3 DEF EOwn, Segments

\* The line of an append comes to the end of a plain file without a sealed
\* one, which is new to everybody unless it is there.
Unheard(f) ==
  {f, ZstOf(f)} \cap (DOMAIN sent \cup DOMAIN cursor \cup DOMAIN cursorDisk \cup DOMAIN idx.marks) = {}

LEMMA AppendLands ==
  ASSUME EInv, NEW d \in 0..today, AppendEvent(d)
  PROVE  \E f \in Segment, line \in 0..MaxEvents + 1 :
           /\ segs' = Appended(segs, f, line)
           /\ line \in 1..MaxEvents => line = logged'
           /\ ~f.zst /\ ZstOf(f) \notin Segments /\ f.own <= logged'
           /\ f \in Segments \/ Unheard(f)
<1> USE DEF Segments
<1> DEFINE active == [day |-> d, own |-> 0, zst |-> FALSE]
           ownFile == [day |-> d, own |-> logged + 1, zst |-> FALSE]
           f == AppendFile(d, logged + 1)
<1>1. /\ logged \in Nat /\ logged < MaxEvents /\ logged' = logged + 1
      /\ d \in 0..MaxDay /\ logged + 1 \in 1..MaxEvents
  BY EventLogAssumption DEF AppendEvent, EInv, ETypes, EClock
<1>2. active \in Segment /\ ownFile \in Segment /\ ~active.zst /\ ~ownFile.zst
      /\ active.own = 0 /\ ownFile.own = logged + 1
  BY <1>1, EventLogAssumption DEF Segment
<1>6. f = ownFile \/ (/\ f = active /\ ZstOf(active) \notin Segments
                      /\ active \in Segments \/ {active, ZstOf(active)} \cap DOMAIN sentDisk = {})
  BY DEF AppendFile
<1>3. \E line \in 0..MaxEvents + 1 :
        segs' = Appended(segs, f, line) /\ (line \in 1..MaxEvents => line = logged')
  <2>1. \E line \in {FusedLine, logged + 1, TornLine} : segs' = Appended(segs, f, line)
    BY DEF AppendEvent, Write, Appended, LinesBefore
  <2>2. FusedLine = MaxEvents + 1 /\ TornLine = 0
    BY DEF FusedLine, TornLine
  <2> QED
    BY <2>1, <2>2, <1>1, EventLogAssumption
<1> HIDE DEF active, ownFile, f
<1>4. CASE f = ownFile
  <2>1. ASSUME NEW g \in Segment,
               g \in Segments \cup DOMAIN sent \cup DOMAIN cursor \cup DOMAIN cursorDisk \cup DOMAIN idx.marks
        PROVE  g # ownFile /\ g # ZstOf(ownFile)
    <3>1. g.own <= logged
      BY <2>1 DEF EInv, EOwn
    <3>2. ownFile.own = logged + 1 /\ ZstOf(ownFile).own = logged + 1
      BY <1>2, SegmentNames
    <3> QED
      BY <3>1, <3>2, <1>1
  <2>2. ZstOf(ownFile) \notin Segments /\ Unheard(ownFile)
    BY <2>1, <1>2, SegmentNames DEF Unheard
  <2> QED
    BY <1>1, <1>2, <1>3, <1>4, <2>2
<1>5. CASE f # ownFile
  <2>1. /\ f = active /\ ZstOf(active) \notin Segments
        /\ active \in Segments \/ {active, ZstOf(active)} \cap DOMAIN sentDisk = {}
    BY <1>5, <1>6
  <2>2. ASSUME active \notin Segments, NEW c \in Cursors
        PROVE  {active, ZstOf(active)} \cap DOMAIN c = {}
    <3>1. Named(segs, DOMAIN sent, c)
      BY DEF EInv, ECursors, Cursors, Follows
    <3>2. sentDisk = sent
      BY DEF EInv, ESent
    <3>3. /\ RawOf(active) = active /\ RawOf(ZstOf(active)) = active
          /\ ZstOf(ZstOf(active)) = ZstOf(active)
      BY <1>2, SegmentNames
    <3> QED
      BY <2>1, <2>2, <3>1, <3>2, <3>3 DEF Named
  <2>3. DOMAIN idx.marks \subseteq DOMAIN Scanned
    BY DEF Scanned, Merge
  <2>4. active \in Segments \/ Unheard(active)
    BY <2>1, <2>2, <2>3 DEF Unheard, Cursors, EInv, ESent
  <2> QED
    BY <1>1, <1>2, <1>3, <2>1, <2>4
<1> QED
  BY <1>4, <1>5

\* Lines that come after are not among those told of.
LEMMA TellsGrows ==
  ASSUME NEW s, NEW t, NEW n, NEW R, n \in Nat, Len(s) \in Nat, n <= Len(s), Tells(s, n, R),
         \A i \in 1..Len(s) : t[i] = s[i]
  PROVE  Tells(t, n, R)
BY DEF Tells

\* An append keeps the invariant.
LEMMA AppendEventKeeps ==
  ASSUME EInv, NEW d \in 0..today, AppendEvent(d)
  PROVE  EInv'
<1> USE DEF Segments
<1>1. PICK f \in Segment, line \in 0..MaxEvents + 1 :
           /\ segs' = Appended(segs, f, line)
           /\ line \in 1..MaxEvents => line = logged'
           /\ ~f.zst /\ ZstOf(f) \notin Segments /\ f.own <= logged'
           /\ f \in Segments \/ Unheard(f)
  BY AppendLands
<1>2. /\ logged' = logged + 1 /\ logged \in Nat /\ logged' \in 0..MaxEvents /\ logged' \in Nat
      /\ logged <= logged'
      /\ today' = today /\ UNCHANGED shipVars /\ UNCHANGED indexVars
      /\ remote' = remote /\ sent' = sent /\ sentDisk' = sentDisk /\ ship' = ship
      /\ ship.at # "unlinking"
      /\ mishaps' \in 0..MaxMishaps /\ torn' \in BOOLEAN
  <2>1. logged \in Nat /\ logged < MaxEvents /\ logged' = logged + 1
    BY EventLogAssumption DEF AppendEvent, EInv, ETypes, EClock
  <2>2. today' = today /\ UNCHANGED shipVars /\ UNCHANGED indexVars /\ ship.at # "unlinking"
    BY DEF AppendEvent, LogLocked
  <2>3. mishaps' \in 0..MaxMishaps /\ torn' \in BOOLEAN
    <3>1. (mishaps' = mishaps /\ torn' = torn) \/ (Mishap /\ torn' = TRUE)
      BY DEF AppendEvent
    <3>2. mishaps \in 0..MaxMishaps /\ torn \in BOOLEAN
      BY DEF EInv, ETypes, EClock
    <3>3. torn' \in BOOLEAN
      BY <3>1, <3>2
    <3>4. mishaps' \in 0..MaxMishaps
      BY <3>1, <3>2, EventLogAssumption DEF Mishap
    <3> QED
      BY <3>3, <3>4
  <2> QED
    BY <2>1, <2>2, <2>3, EventLogAssumption DEF shipVars
<1>3. /\ Directory(segs) /\ \A g \in Segments : Len(segs[g]) \in Nat /\ Len(segs[g]) <= logged
      /\ \A g \in Segments : g \in Segment /\ segs[g] \in Seq(0..MaxEvents + 1)
  BY ReadToType DEF EInv, ETypes, EDirectory, EIndexTypes, Directory
<1> DEFINE s == LinesBefore(segs, f)
<1>4. s \in Seq(0..MaxEvents + 1) /\ Len(s) \in Nat /\ Len(s) <= logged
  <2>1. CASE f \in Segments
    BY <2>1, <1>3 DEF LinesBefore
  <2>2. CASE f \notin Segments
    BY <2>2, <1>2 DEF LinesBefore
  <2> QED
    BY <2>1, <2>2
<1>5. /\ DOMAIN segs' = Segments \cup {f} /\ segs'[f] = Append(s, line)
      /\ \A g \in Segments : g # f => segs'[g] = segs[g]
      /\ f \in Segments => s = segs[f]
  BY <1>1 DEF Appended, With, LinesBefore
<1> HIDE DEF s
<1>6. /\ segs'[f] \in Seq(0..MaxEvents + 1) /\ Len(segs'[f]) = Len(s) + 1 /\ segs'[f] # <<>>
      /\ \A i \in 1..Len(s) : segs'[f][i] = s[i]
  BY <1>4, <1>5, AppendKeeps
<1>7. ASSUME NEW g \in Segments
      PROVE  Len(segs[g]) <= Len(segs'[g]) /\ \A i \in 1..Len(segs[g]) : segs'[g][i] = segs[g][i]
  <2>1. CASE g = f
    BY <2>1, <1>4, <1>5, <1>6
  <2>2. CASE g # f
    BY <2>2, <1>3, <1>5
  <2> QED
    BY <2>1, <2>2
<1>8. EDirectory'
  <2>1. ASSUME NEW g \in DOMAIN segs'
        PROVE  /\ g \in Segment /\ segs'[g] \in Seq(0..MaxEvents + 1) /\ segs'[g] # <<>>
               /\ Len(segs'[g]) <= logged'
    <3>1. CASE g = f
      BY <3>1, <1>2, <1>4, <1>6
    <3>2. CASE g # f
      BY <3>2, <1>2, <1>3, <1>5 DEF Directory
    <3> QED
      BY <3>1, <3>2
  <2> QED
    BY <2>1 DEF EDirectory, Directory
<1>9. EClock' /\ EShipTypes' /\ EIndexTypes'
  <2>1. EClock'
    BY <1>2 DEF EClock, EInv, ETypes
  <2>2. EShipTypes'
    BY <1>2 DEF EShipTypes, EInv, ETypes
  <2>3. EIndexTypes'
    BY <1>2, IndexTypesKept DEF EInv, ETypes
  <2> QED
    BY <2>1, <2>2, <2>3
<1>10. EOwn'
  BY <1>1, <1>2, <1>5, OwnKept DEF EInv, ETypes
<1>11. ESealed'
  <2>1. \A g \in DOMAIN segs' : g.zst => g.day < today'
    BY <1>1, <1>2, <1>5 DEF EInv, ESealed
  <2>2. ASSUME NEW g \in DOMAIN segs', ~g.zst
        PROVE  /\ ZstOf(g) \in DOMAIN segs' => segs'[ZstOf(g)] = segs'[g]
               /\ ZstOf(g) \notin DOMAIN sent /\ ZstOf(g) \notin DOMAIN ship.todo
    <3>1. g \in Segment /\ ZstOf(g) # f
      BY <1>1, <1>3, <1>5, SegmentNames
    <3>2. CASE g = f
      BY <3>1, <3>2, <1>1, <1>5 DEF Unheard, EInv, ESealed, EShip
    <3>3. CASE g # f
      BY <2>2, <3>1, <3>3, <1>5 DEF EInv, ESealed
    <3> QED
      BY <3>2, <3>3
  <2> QED
    BY <2>1, <2>2, <1>2 DEF ESealed
<1>12. EShip'
  <2>1. ASSUME NEW g \in DOMAIN ship.todo
        PROVE  /\ g \in DOMAIN segs' /\ ship.todo[g] <= Len(segs'[g])
               /\ Tells(segs[g], ship.todo[g], remote) => Tells(segs'[g], ship.todo[g], remote)
    <3>1. g \in Segments /\ ship.todo[g] \in Nat /\ ship.todo[g] <= Len(segs[g])
      BY EventLogAssumption DEF EInv, EShip, ETypes, EShipTypes, IsOffsets
    <3>2. Len(segs'[g]) \in Nat
      BY <3>1, <1>3, <1>4, <1>5, <1>6
    <3> QED
      BY <3>1, <3>2, <1>3, <1>5, <1>7, TellsGrows
  <2> QED
    BY <2>1, <1>2 DEF EShip, EInv
<1>13. ESent'
  <2>1. ASSUME NEW g \in DOMAIN segs' \cap DOMAIN sent
        PROVE  sent[g] <= Len(segs'[g]) /\ Tells(segs'[g], sent[g], remote)
    <3>1. g \in Segments
      BY <1>1, <1>5 DEF Unheard
    <3>2. sent[g] \in Nat /\ sent[g] <= Len(segs[g]) /\ Tells(segs[g], sent[g], remote)
      BY <3>1, EventLogAssumption DEF EInv, ESent, ETypes, EShipTypes, IsOffsets
    <3>3. Len(segs'[g]) \in Nat
      BY <3>1, <1>3, <1>4, <1>5, <1>6
    <3> QED
      BY <3>1, <3>2, <3>3, <1>3, <1>7, TellsGrows
  <2> QED
    BY <2>1, <1>2 DEF ESent, EInv
<1>14. ECursors'
  <2>1. ASSUME NEW c \in Cursors, NEW R, Follows(segs, DOMAIN sent, c, R)
        PROVE  Follows(segs', DOMAIN sent', c, R)
    <3>1. IsOffsets(c)
      BY ScannedType DEF Cursors, EInv, ETypes, EIndexTypes
    <3>2. DOMAIN c \subseteq DOMAIN cursor \cup DOMAIN cursorDisk \cup DOMAIN idx.marks
      BY DEF Cursors, Scanned, Merge
    <3>3. f \in DOMAIN segs \/ {f, ZstOf(f)} \cap DOMAIN c = {}
      BY <3>2, <1>1 DEF Unheard
    <3> QED
      BY <2>1, <3>1, <3>3, <1>1, <1>2, <1>3, AppendFollows
  <2> QED
    BY <2>1, <1>2, CursorsKept DEF EInv
<1>15. EScan'
  <2>1. idx.upTo \in Nat /\ line \notin 1..idx.upTo
    BY <1>1, <1>2, EventLogAssumption DEF EInv, ETypes, EIndexTypes
  <2>2. ASSUME NEW c, NEW R, Reaches(segs, c, R, idx.upTo)
        PROVE  Reaches(segs', c, R, idx.upTo)
    BY <2>1, <2>2, <1>1, <1>3, AppendReaches
  <2> QED
    BY <2>2, <1>2, ScanKept DEF EInv
<1> QED
  BY <1>8, <1>9, <1>10, <1>11, <1>12, <1>13, <1>14, <1>15 DEF EInv, ETypes

\* The Shipper's steps on the log: the clock, the events and the index stay.
LEMMA RestKept ==
  ASSUME EInv, UNCHANGED <<today, logged, remote, sent, sentDisk, indexVars, mishaps, torn>>
  PROVE  /\ EClock' /\ EIndexTypes'
         /\ UNCHANGED indexVars /\ logged' = logged /\ logged' \in Nat /\ logged <= logged'
<1>1. logged \in Nat
  BY EventLogAssumption DEF EInv, ETypes, EClock
<1> QED
  BY <1>1, IndexTypesKept DEF EInv, ETypes, EClock

\* So does the compressed copy.
LEMMA CompressKeeps ==
  ASSUME EInv, NEW f \in Segments, Compress(f)
  PROVE  EInv'
<1> USE DEF Segments
<1> DEFINE z == ZstOf(f)
<1>1. /\ segs' = With(segs, z, segs[f]) /\ ~f.zst /\ f.day < today /\ f \in Segments
      /\ ship' = [ship EXCEPT !.at = "unlinking", !.file = f]
      /\ UNCHANGED <<today, logged, remote, sent, sentDisk, indexVars, mishaps, torn>>
      /\ ship.at \in {"idle", "sealing"}
  BY DEF Compress, Sealable
<1>2. /\ DOMAIN segs' = Segments \cup {z} /\ segs'[z] = segs[f]
      /\ \A g \in Segments : g # z => segs'[g] = segs[g]
  BY <1>1 DEF With
<1>3. /\ Directory(segs) /\ f \in Segment /\ z \in Segment /\ z.zst /\ z.day = f.day /\ z.own = f.own
      /\ RawOf(z) = f /\ z # f
      /\ \A g \in Segments : g \in Segment
  BY <1>1, SegmentNames DEF EInv, ETypes, EDirectory, Directory
<1>4. \A g \in Segments : segs'[g] = segs[g]
  BY <1>1, <1>2 DEF EInv, ESealed
<1>5. /\ ship'.at = "unlinking" /\ ship'.file = f /\ ship'.todo = ship.todo
      /\ ship' = [at |-> ship'.at, file |-> ship'.file, todo |-> ship'.todo]
  BY <1>1 DEF EInv, ETypes, EShipTypes
<1>6. DOMAIN ship.todo = {}
  BY <1>1 DEF EInv, EShip
<1> HIDE DEF z
<1>7. EClock' /\ EIndexTypes'
  BY <1>1, RestKept
<1>8. EDirectory'
  BY <1>1, <1>2, <1>3, <1>4 DEF EInv, ETypes, EDirectory, Directory
<1>9. EShipTypes'
  BY <1>1, <1>3, <1>5 DEF EInv, ETypes, EShipTypes
<1>10. EOwn'
  <2>1. \A g \in DOMAIN segs' \cup DOMAIN sent' : g \in Segments \cup DOMAIN sent \/ g.own <= logged'
    BY <1>1, <1>2, <1>3 DEF EInv, EOwn
  <2> QED
    BY <2>1, <1>1, RestKept, OwnKept DEF EInv, ETypes
<1>11. ESealed'
  <2>1. \A g \in DOMAIN segs' : g.zst => g.day < today'
    BY <1>1, <1>2, <1>3 DEF EInv, ESealed
  <2>2. ASSUME NEW g \in DOMAIN segs', ~g.zst
        PROVE  /\ ZstOf(g) \in DOMAIN segs' => segs'[ZstOf(g)] = segs'[g]
               /\ ZstOf(g) \notin DOMAIN sent /\ ZstOf(g) \notin DOMAIN ship.todo
    <3>1. g \in Segments /\ segs'[g] = segs[g]
      BY <1>2, <1>3, <1>4, <2>2
    <3>2. ZstOf(g) \notin DOMAIN sent /\ ZstOf(g) \notin DOMAIN ship.todo
      BY <2>2, <3>1 DEF EInv, ESealed
    <3>3. CASE ZstOf(g) = z
      <4>1. g = f
        BY <2>2, <3>1, <3>3, <1>3, SegmentNames
      <4> QED
        BY <4>1, <3>1, <3>2, <3>3, <1>2
    <3>4. CASE ZstOf(g) # z
      BY <2>2, <3>1, <3>2, <3>4, <1>2 DEF EInv, ESealed
    <3> QED
      BY <3>3, <3>4
  <2> QED
    BY <2>1, <2>2, <1>1, <1>5 DEF ESealed
<1>12. EShip'
  <2>1. z = ZstOf(ship'.file)
    BY <1>5 DEF z
  <2> QED
    BY <2>1, <1>1, <1>2, <1>5, <1>6 DEF EShip
<1>13. ESent'
  <2>1. z \notin DOMAIN sent
    BY <1>1 DEF EInv, ESealed, z
  <2> QED
    BY <2>1, <1>1, <1>2, <1>4 DEF EInv, ESent
<1>14. ECursors'
  <2>1. ASSUME NEW c \in Cursors, NEW R, Follows(segs, DOMAIN sent, c, R)
        PROVE  Follows(segs', DOMAIN sent', c, R)
    <3>1. IsOffsets(c)
      BY ScannedType DEF Cursors, EInv, ETypes, EIndexTypes
    <3>2. ZstOf(f) \in DOMAIN segs => segs[ZstOf(f)] = segs[f]
      BY <1>1 DEF EInv, ESealed
    <3> QED
      BY <2>1, <3>1, <3>2, <1>1, <1>3, CompressFollows DEF z
  <2> QED
    BY <2>1, <1>1, RestKept, CursorsKept DEF EInv
<1>15. EScan'
  <2>1. ASSUME NEW c, NEW R, Reaches(segs, c, R, idx.upTo)
        PROVE  Reaches(segs', c, R, idx.upTo)
    BY <2>1, <1>1, CompressReaches DEF z
  <2> QED
    BY <2>1, <1>1, RestKept, ScanKept DEF EInv
<1> QED
  BY <1>7, <1>8, <1>9, <1>10, <1>11, <1>12, <1>13, <1>14, <1>15 DEF EInv, ETypes

\* A file goes that is sealed under its other name, or has been shipped.
LEMMA RemovalKeeps ==
  ASSUME EInv, NEW f \in Segments, segs' = Forget(segs, f),
         UNCHANGED <<today, logged, remote, sent, sentDisk, indexVars, mishaps, torn>>,
         ship'.at = "sealing", ship'.file \in Segment, DOMAIN ship'.todo = {},
         ship' = [at |-> ship'.at, file |-> ship'.file, todo |-> ship'.todo],
         \/ ~f.zst /\ ZstOf(f) \in Segments
         \/ f \in DOMAIN sent /\ (f.zst => RawOf(f) \notin Segments)
  PROVE  EInv'
<1> USE DEF Segments
<1>1. DOMAIN segs' = Segments \ {f} /\ \A g \in DOMAIN segs' : segs'[g] = segs[g]
  BY DEF Forget
<1>4. Directory(segs)
  BY DEF EInv, ETypes, EDirectory
<1>5. EClock' /\ EIndexTypes'
  BY RestKept
<1>6. EDirectory'
  BY <1>1 DEF EInv, ETypes, EDirectory, Directory
<1>7. EShipTypes'
  BY DEF EInv, ETypes, EShipTypes, IsOffsets
<1>8. EOwn'
  BY <1>1, RestKept, OwnKept DEF EInv, ETypes
<1>9. ESealed'
  BY <1>1 DEF EInv, ESealed
<1>10. EShip'
  BY DEF EShip
<1>11. ESent'
  BY <1>1 DEF EInv, ESent
<1>12. ECursors'
  <2>1. ASSUME NEW c \in Cursors, NEW R, Follows(segs, DOMAIN sent, c, R)
        PROVE  Follows(segs', DOMAIN sent', c, R)
    <3>1. IsOffsets(c)
      BY ScannedType DEF Cursors, EInv, ETypes, EIndexTypes
    <3> QED
      BY <2>1, <3>1, <1>4, ForgetFollows
  <2> QED
    BY <2>1, RestKept, CursorsKept DEF EInv
<1>13. EScan'
  <2>1. ASSUME NEW c, NEW R, Reaches(segs, c, R, idx.upTo)
        PROVE  Reaches(segs', c, R, idx.upTo)
    BY <2>1, ForgetReaches
  <2> QED
    BY <2>1, RestKept, ScanKept DEF EInv
<1> QED
  BY <1>5, <1>6, <1>7, <1>8, <1>9, <1>10, <1>11, <1>12, <1>13 DEF EInv, ETypes

\* Nothing in hand.
LEMMA NoFileType == NoFile \in Segment /\ Idle = [at |-> "idle", file |-> NoFile, todo |-> <<>>]
BY EventLogAssumption DEF NoFile, Segment, Idle

\* The plain file goes when the copy is there.
LEMMA UnlinkKeeps == ASSUME EInv, Unlink PROVE EInv'
<1>1. /\ ship.file \in Segments /\ ~ship.file.zst /\ ZstOf(ship.file) \in Segments
      /\ segs' = Forget(segs, ship.file) /\ ship' = [Idle EXCEPT !.at = "sealing"]
      /\ UNCHANGED <<today, logged, remote, sent, sentDisk, indexVars, mishaps, torn>>
  BY DEF Unlink, EInv, EShip
<1>2. /\ ship'.at = "sealing" /\ ship'.file \in Segment /\ DOMAIN ship'.todo = {}
      /\ ship' = [at |-> ship'.at, file |-> ship'.file, todo |-> ship'.todo]
  BY <1>1, NoFileType
<1> QED
  BY <1>1, <1>2, RemovalKeeps

\* What is retired has been shipped to its last line.
LEMMA RetiredIsShipped ==
  ASSUME EInv, NEW f \in Segments, Retire(f)
  PROVE  /\ f \in DOMAIN sent /\ Tells(segs[f], Len(segs[f]), remote) /\ f.day + Keep <= today
         /\ f.zst => RawOf(f) \notin Segments
<1> USE DEF Segments
<1>1. /\ f.day + Keep <= today /\ Offset(sentDisk, f) = Len(segs[f]) /\ Sealable = {}
  BY DEF Retire, Retirable
<1>2. f \in Segment /\ Len(segs[f]) \in Nat \ {0}
  BY DEF EInv, ETypes, EDirectory, Directory
<1>3. sentDisk = sent /\ f \in DOMAIN sent /\ sent[f] = Len(segs[f])
  BY <1>1, <1>2 DEF EInv, ESent, Offset
<1>4. Tells(segs[f], Len(segs[f]), remote)
  BY <1>3 DEF EInv, ESent
<1>5. ASSUME f.zst, RawOf(f) \in Segments PROVE FALSE
  <2>1. RawOf(f).day < today /\ ~RawOf(f).zst
    BY <1>2, <1>5, SegmentNames DEF EInv, ESealed
  <2> QED
    BY <2>1, <1>1, <1>5 DEF Sealable
<1> QED
  BY <1>1, <1>3, <1>4, <1>5

\* Retention takes only what has been shipped.
LEMMA RetireKeeps == ASSUME EInv, NEW f \in Segments, Retire(f) PROVE EInv'
<1>1. /\ segs' = Forget(segs, f) /\ ship' = [ship EXCEPT !.at = "sealing"]
      /\ UNCHANGED <<today, logged, remote, sent, sentDisk, indexVars, mishaps, torn>>
      /\ ship.at \in {"idle", "sealing"}
  BY DEF Retire
<1>2. /\ ship'.at = "sealing" /\ ship'.file \in Segment /\ DOMAIN ship'.todo = {}
      /\ ship' = [at |-> ship'.at, file |-> ship'.file, todo |-> ship'.todo]
  BY <1>1 DEF EInv, ETypes, EShipTypes, EShip
<1> QED
  BY <1>1, <1>2, RetiredIsShipped, RemovalKeeps

\* A day later what was sealed is still of days gone by.
LEMMA NextDayKeeps == ASSUME EInv, NextDay PROVE EInv'
<1> USE DEF Segments
<1>1. /\ today' = today + 1 /\ today' \in 0..MaxDay /\ segs' = segs
      /\ UNCHANGED <<logged, remote, sent, sentDisk, ship, mishaps, torn>> /\ UNCHANGED indexVars
      /\ logged \in Nat
  BY EventLogAssumption DEF NextDay, EInv, ETypes, EClock, shipVars
<1>2. ETypes'
  BY <1>1, IndexTypesKept DEF EInv, ETypes, EClock, EDirectory, EShipTypes
<1>3. EOwn'
  BY <1>1, OwnKept DEF EInv, ETypes
<1>4. ESealed'
  <2>1. \A f \in Segments : f.day \in Nat
    BY SegmentNames DEF EInv, ETypes, EDirectory, Directory
  <2>2. today \in Nat
    BY EventLogAssumption DEF EInv, ETypes, EClock
  <2> QED
    BY <2>1, <2>2, <1>1 DEF EInv, ESealed
<1>5. EShip' /\ ESent' /\ ECursors' /\ EScan'
  BY <1>1, CursorsKept, ScanKept DEF EInv, EShip, ESent
<1> QED
  BY <1>2, <1>3, <1>4, <1>5 DEF EInv

\* The Shipper's steps that leave the log alone.
LEMMA ShippingKeeps ==
  ASSUME EInv, UNCHANGED <<today, logged, segs, indexVars, torn>>, EShipTypes',
         mishaps' \in 0..MaxMishaps, EShip', ESent',
         DOMAIN sent \subseteq DOMAIN sent', DOMAIN sent' \subseteq Segments \cup DOMAIN sent,
         \A f \in Segments : ~f.zst => ZstOf(f) \notin DOMAIN sent' /\ ZstOf(f) \notin DOMAIN ship'.todo
  PROVE  EInv'
<1> USE DEF Segments
<1>1. UNCHANGED indexVars /\ logged' = logged /\ logged' \in Nat /\ logged <= logged'
  BY EventLogAssumption DEF EInv, ETypes, EClock
<1>2. ETypes'
  BY <1>1, IndexTypesKept DEF EInv, ETypes, EClock, EDirectory
<1>3. EOwn'
  BY <1>1, OwnKept DEF EInv, ETypes
<1>4. ESealed'
  BY DEF EInv, ESealed
<1>5. ECursors'
  BY <1>1, MoreFollows, CursorsKept DEF EInv
<1>6. EScan'
  BY <1>1, ScanKept DEF EInv
<1> QED
  BY <1>2, <1>3, <1>4, <1>5, <1>6 DEF EInv

\* Nothing is listed before all that could be sealed is.
LEMMA ListSegmentsKeeps == ASSUME EInv, ListSegments PROVE EInv'
<1> USE DEF Segments
<1> DEFINE todo == {f \in Segments : Offset(sent, f) # Len(segs[f])}
           listed == [Idle EXCEPT !.at = "shipping", !.todo = [f \in todo |-> Len(segs[f])]]
<1>1. /\ Sealable = {} /\ ship' \in {Idle, listed}
      /\ UNCHANGED <<today, logged, segs, indexVars, torn, remote, sent, sentDisk, mishaps>>
  BY DEF ListSegments
<1>2. /\ Directory(segs) /\ logged \in Nat /\ logged <= MaxEvents
      /\ \A f \in Segments : f \in Segment /\ Len(segs[f]) \in Nat /\ Len(segs[f]) <= logged
  BY EventLogAssumption DEF EInv, ETypes, EClock, EDirectory, Directory
<1>3. /\ ship' = [at |-> ship'.at, file |-> ship'.file, todo |-> ship'.todo]
      /\ ship'.at \in {"idle", "shipping"} /\ ship'.file = NoFile
      /\ ship'.at = "idle" => DOMAIN ship'.todo = {}
      /\ \A f \in DOMAIN ship'.todo : f \in Segments /\ ship'.todo[f] = Len(segs[f])
  <2>1. CASE ship' = Idle
    BY <2>1, NoFileType
  <2>2. CASE ship' = listed
    <3>1. ship' = [at |-> "shipping", file |-> NoFile, todo |-> [f \in todo |-> Len(segs[f])]]
      BY <2>2, NoFileType
    <3> QED
      BY <3>1
  <2> QED
    BY <1>1, <2>1, <2>2
<1> HIDE DEF todo, listed
<1>4. EShipTypes'
  BY <1>1, <1>2, <1>3, NoFileType, EventLogAssumption DEF EInv, ETypes, EShipTypes, IsOffsets
<1>5. EShip'
  BY <1>1, <1>2, <1>3 DEF EShip
<1>6. ESent'
  BY <1>1 DEF EInv, ESent
<1>7. ASSUME NEW f \in Segments, ~f.zst
      PROVE  ZstOf(f) \notin DOMAIN sent /\ ZstOf(f) \notin DOMAIN ship'.todo
  <2>1. ZstOf(f) \notin DOMAIN sent
    BY <1>7 DEF EInv, ESealed
  <2>2. ASSUME ZstOf(f) \in Segments PROVE FALSE
    <3>1. ZstOf(f).day < today /\ ZstOf(f).day = f.day
      BY <1>2, <2>2, SegmentNames DEF EInv, ESealed
    <3> QED
      BY <3>1, <1>1, <1>7 DEF Sealable
  <2> QED
    BY <2>1, <2>2, <1>3
<1> QED
  BY <1>1, <1>4, <1>5, <1>6, <1>7, ShippingKeeps DEF EInv, ETypes, EClock

\* What Put sends, with what was sent before, is all up to the listed size.
LEMMA PayloadTells ==
  ASSUME EInv, NEW f \in DOMAIN ship.todo, NEW R, Payload(f) \cup remote \subseteq R
  PROVE  Tells(segs[f], ship.todo[f], R)
<1> USE DEF Segments
<1> DEFINE n == ship.todo[f]
           o == IF Offset(sent, f) > n THEN 0 ELSE Offset(sent, f)
<1>1. /\ f \in Segments /\ n \in Nat /\ n <= Len(segs[f]) /\ Offset(sent, f) \in Nat
      /\ segs[f] \in Seq(0..MaxEvents + 1) /\ Len(segs[f]) \in Nat
  BY EventLogAssumption
     DEF EInv, EShip, ETypes, EShipTypes, EDirectory, Directory, IsOffsets, Offset
<1>2. o \in Nat /\ o <= n /\ o + 1 \in 1..(Len(segs[f]) + 1) /\ n \in 0..Len(segs[f])
  BY <1>1
<1>3. Payload(f) = EventsOf(SubSeq(segs[f], o + 1, n))
  BY DEF Payload
<1>4. o > 0 => Tells(segs[f], o, remote)
  <2>1. o > 0 => f \in DOMAIN sent /\ o = sent[f]
    BY <1>1 DEF Offset
  <2> QED
    BY <2>1, <1>1 DEF EInv, ESent
<1> HIDE DEF n, o
<1>5. ASSUME NEW i \in 1..n, segs[f][i] \in 1..MaxEvents
      PROVE  segs[f][i] \in R
  <2>1. CASE i <= o
    BY <2>1, <1>2, <1>4, <1>5 DEF Tells
  <2>2. CASE i > o
    <3>1. i \in (o + 1)..n
      BY <2>2, <1>1, <1>2
    <3>2. segs[f][i] \in Payload(f)
      BY <3>1, <1>1, <1>2, <1>3, <1>5, EventsAre
    <3> QED
      BY <3>2
  <2> QED
    BY <2>1, <2>2, <1>1, <1>2
<1> QED
  BY <1>5 DEF Tells, n

\* A put, whether its object arrives or not.
LEMMA PutKeeps == ASSUME EInv, NEW f \in Segments, Put(f) PROVE EInv'
<1> USE DEF Segments
<1>1. /\ ship.at = "shipping" /\ f \in DOMAIN ship.todo
      /\ UNCHANGED <<today, logged, segs, indexVars, torn, sent, sentDisk>>
      /\ \/ /\ remote' = remote \cup Payload(f) /\ mishaps' = mishaps
            /\ ship' = [ship EXCEPT !.at = "saving", !.file = f]
         \/ Mishap /\ remote' \in {remote, remote \cup Payload(f)} /\ ship' = Idle
  BY DEF Put
<1>2. mishaps' \in 0..MaxMishaps
  BY <1>1, EventLogAssumption DEF EInv, ETypes, EClock, Mishap
<1>3. Payload(f) \subseteq 1..MaxEvents
  BY DEF Payload, EventsOf
<1>4. remote \subseteq remote' /\ remote' \subseteq 1..MaxEvents
  BY <1>1, <1>3 DEF EInv, ETypes, EShipTypes
<1>5. f \in Segment
  BY DEF EInv, ETypes, EDirectory, Directory
<1>6. /\ ship' = [at |-> ship'.at, file |-> ship'.file, todo |-> ship'.todo]
      /\ \/ ship'.at = "saving" /\ ship'.file = f /\ ship'.todo = ship.todo
            /\ remote' = remote \cup Payload(f)
         \/ ship'.at = "idle" /\ ship'.file = NoFile /\ DOMAIN ship'.todo = {}
  <2>1. CASE ship' = Idle
    BY <2>1, NoFileType
  <2>2. CASE remote' = remote \cup Payload(f) /\ ship' = [ship EXCEPT !.at = "saving", !.file = f]
    BY <2>2 DEF EInv, ETypes, EShipTypes
  <2> QED
    BY <1>1, <2>1, <2>2
<1>7. EShipTypes'
  BY <1>1, <1>4, <1>5, <1>6, NoFileType DEF EInv, ETypes, EShipTypes, IsOffsets
<1>8. EShip'
  <2>1. CASE ship'.at = "saving"
    <3>1. Tells(segs[f], ship.todo[f], remote')
      BY <2>1, <1>1, <1>6, PayloadTells
    <3> QED
      BY <2>1, <3>1, <1>1, <1>6 DEF EInv, EShip
  <2>2. CASE ship'.at = "idle"
    BY <2>2, <1>6 DEF EShip
  <2> QED
    BY <1>6, <2>1, <2>2
<1>9. ESent'
  BY <1>1, <1>4 DEF EInv, ESent, Tells
<1>10. DOMAIN ship'.todo \subseteq DOMAIN ship.todo
  BY <1>6
<1> QED
  BY <1>1, <1>2, <1>7, <1>8, <1>9, <1>10, ShippingKeeps DEF EInv, ESealed

\* The offset saved is the size listed, all of which has arrived.
LEMMA SaveCheckpointKeeps == ASSUME EInv, SaveCheckpoint PROVE EInv'
<1> USE DEF Segments
<1> DEFINE f == ship.file
<1>1. /\ ship.at = "saving" /\ UNCHANGED <<today, logged, segs, remote, indexVars, torn>>
      /\ \/ /\ sent' = With(sent, f, ship.todo[f]) /\ sentDisk' = sent'
            /\ ship' = AfterFile /\ mishaps' = mishaps
         \/ Mishap /\ ship' = Idle /\ sent' = sent /\ sentDisk' = sentDisk
  BY DEF SaveCheckpoint
<1>2. mishaps' \in 0..MaxMishaps
  BY <1>1, EventLogAssumption DEF EInv, ETypes, EClock, Mishap
<1>3. /\ f \in DOMAIN ship.todo /\ f \in Segments /\ f \in Segment
      /\ ship.todo[f] \in 0..MaxEvents /\ ship.todo[f] <= Len(segs[f])
      /\ Tells(segs[f], ship.todo[f], remote)
  BY <1>1 DEF EInv, EShip, ETypes, EShipTypes, EDirectory, Directory, IsOffsets
<1>4. /\ ship' = [at |-> ship'.at, file |-> ship'.file, todo |-> ship'.todo]
      /\ ship'.at \in {"idle", "shipping"} /\ ship'.file = NoFile
      /\ ship'.at = "idle" => DOMAIN ship'.todo = {}
      /\ \A g \in DOMAIN ship'.todo : g \in DOMAIN ship.todo /\ ship'.todo[g] = ship.todo[g]
  <2>1. CASE ship' = Idle
    BY <2>1, NoFileType
  <2>2. CASE ship' = [Idle EXCEPT !.at = "shipping", !.todo = Forget(ship.todo, f)]
    <3>1. ship' = [at |-> "shipping", file |-> NoFile, todo |-> Forget(ship.todo, f)]
      BY <2>2, NoFileType
    <3>2. ship'.todo = Forget(ship.todo, f)
      BY <3>1
    <3>3. \A g \in DOMAIN ship'.todo : g \in DOMAIN ship.todo /\ ship'.todo[g] = ship.todo[g]
      BY <3>2 DEF Forget
    <3> QED
      BY <3>1, <3>3
  <2> QED
    BY <1>1, <2>1, <2>2 DEF AfterFile
<1>5. /\ sentDisk' = sent' /\ DOMAIN sent \subseteq DOMAIN sent' /\ DOMAIN sent' \subseteq {f} \cup DOMAIN sent
      /\ \A g \in DOMAIN sent' : \/ g \in DOMAIN sent /\ sent'[g] = sent[g]
                                 \/ g = f /\ sent'[g] = ship.todo[f]
  <2>1. CASE sent' = sent /\ sentDisk' = sentDisk
    BY <2>1 DEF EInv, ESent
  <2>2. CASE sent' = With(sent, f, ship.todo[f]) /\ sentDisk' = sent'
    BY <2>2 DEF With
  <2> QED
    BY <1>1, <2>1, <2>2
<1> HIDE DEF f
<1>6. EShipTypes'
  BY <1>1, <1>3, <1>4, <1>5, NoFileType DEF EInv, ETypes, EShipTypes, IsOffsets
<1>7. EShip'
  BY <1>1, <1>4 DEF EInv, EShip
<1>8. ESent'
  BY <1>1, <1>3, <1>5 DEF EInv, ESent
<1>9. \A g \in Segments : ~g.zst => ZstOf(g) \notin DOMAIN sent' /\ ZstOf(g) \notin DOMAIN ship'.todo
  BY <1>3, <1>4, <1>5 DEF EInv, ESealed
<1> QED
  BY <1>1, <1>2, <1>3, <1>5, <1>6, <1>7, <1>8, <1>9, ShippingKeeps
-----------------------------------------------------------------------------
(* The index's steps leave the log and its Shipper alone. *)

\* Coverage is a time, and no segment from there on is unread.
LEMMA CoverageMeans ==
  ASSUME EInv, NEW c
  PROVE  /\ Coverage(c) \in 0..(MaxDay + 1)
         /\ \A f \in Segments : f.day >= Coverage(c) => f \notin Unread(c)
<1> USE DEF Segments
<1>1. /\ Unread(c) \subseteq Segments
      /\ \A f \in Segments : f \in Segment /\ f.day \in 0..MaxDay
  BY DEF Unread, EInv, ETypes, EDirectory, Directory, Segment
<1>2. CASE Unread(c) = {}
  BY <1>2, EventLogAssumption DEF Coverage
<1>3. CASE Unread(c) # {}
  <2> DEFINE n == CHOOSE f \in Newest(Unread(c)) : TRUE
  <2>1. n \in Newest(Unread(c))
    BY <1>1, <1>3, NewestExist
  <2>2. n \in Unread(c) /\ \A g \in Unread(c) : g.day <= n.day
    BY <2>1 DEF Newest
  <2>3. Coverage(c) = n.day + 1 /\ n.day \in 0..MaxDay
    BY <1>1, <1>3, <2>2 DEF Coverage
  <2> HIDE DEF n
  <2> QED
    BY <1>1, <2>2, <2>3, EventLogAssumption
<1> QED
  BY <1>2, <1>3

\* What an index step has to show, the log and its Shipper being left alone.
LEMMA IndexingKeeps ==
  ASSUME EInv, UNCHANGED <<today, logged, segs, shipVars, torn>>, mishaps' \in 0..MaxMishaps,
         EIndexTypes', ECursors', EScan',
         \A f \in DOMAIN cursor' \cup DOMAIN cursorDisk' \cup DOMAIN idx'.marks :
           f \in Segments \cup DOMAIN cursor \cup DOMAIN cursorDisk \cup DOMAIN idx.marks
  PROVE  EInv'
<1> USE DEF Segments
<1>1. UNCHANGED <<remote, sent, sentDisk, ship>>
  BY DEF shipVars
<1>2. ETypes'
  BY <1>1 DEF EInv, ETypes, EClock, EDirectory, EShipTypes
<1>3. EOwn'
  BY <1>1 DEF EInv, EOwn
<1>4. ESealed' /\ EShip' /\ ESent'
  BY <1>1 DEF EInv, ESealed, EShip, ESent
<1> QED
  BY <1>2, <1>3, <1>4 DEF EInv

\* With nothing open the scan would leave the cursor where it is.
LEMMA NothingScanned ==
  ASSUME NEW D, NEW S, NEW c, NEW R, Follows(D, S, c, R)
  PROVE  Follows(D, S, Merge(<<>>, c), R \cup {})
<1>1. /\ DOMAIN Merge(<<>>, c) = DOMAIN c
      /\ \A f \in DOMAIN c : Merge(<<>>, c)[f] = c[f]
  BY DEF Merge
<1>2. \A f : ReadTo(D, Merge(<<>>, c), f) = ReadTo(D, c, f)
  BY <1>1 DEF ReadTo, Offset
<1> QED
  BY <1>1, <1>2 DEF Follows, Named, Told

\* No scan is under way.
LEMMA NoScanMeans ==
  /\ NoScan.at = "idle" /\ NoScan.marks = <<>> /\ NoScan.lines = {} /\ NoScan.upTo = 0
  /\ NoScan.batch = FALSE /\ NoScan.more = FALSE /\ DOMAIN NoScan.marks = {}
BY DEF NoScan

\* A scan is over: its cursor and the one on disk are c and d, its rows R.
LEMMA ScanOver ==
  ASSUME EInv, idx' = NoScan, UNCHANGED <<segs, sent>>,
         Follows(segs, DOMAIN sent, cursor', rows'), Follows(segs, DOMAIN sent, cursorDisk', rows')
  PROVE  ECursors' /\ EScan'
<1>1. /\ idx'.at = "idle" /\ idx'.marks = <<>> /\ idx'.lines = {}
      /\ Scanned' = Merge(<<>>, cursor')
  BY NoScanMeans DEF Scanned
<1>2. Follows(segs, DOMAIN sent, Merge(<<>>, cursor'), rows' \cup {})
  BY NothingScanned
<1> QED
  BY <1>1, <1>2 DEF ECursors, EScan

\* What is pending is read from where the cursor has it; what is not is read.
LEMMA PendingMeans ==
  ASSUME EInv, NEW f \in Segments
  PROVE  /\ f \in Pending =>
              /\ f \notin SealedIn(segs, cursor) /\ ReadFrom(f) = ReadTo(segs, cursor, f)
              /\ ReadFrom(f) \in Nat /\ ReadFrom(f) < Len(segs[f])
         /\ f \notin Pending /\ f \notin SealedIn(segs, cursor) =>
              ReadTo(segs, cursor, f) = Len(segs[f])
<1> USE DEF Segments
<1>1. Directory(segs) /\ IsOffsets(cursor)
  BY DEF EInv, ETypes, EDirectory, EIndexTypes
<1>2. /\ ReadTo(segs, cursor, f) \in Nat /\ Len(segs[f]) \in Nat \ {0} /\ Offset(cursor, f) \in Nat
      /\ f \in Segment
  BY <1>1, ReadToType
<1>3. ReadTo(segs, cursor, f) <= Len(segs[f])
  BY DEF EInv, ECursors, Follows, Told
<1>4. SealedBefore(f) <=> f \in SealedIn(segs, cursor)
  BY DEF SealedBefore, SealedIn
<1>5. f \in Pending <=> f \notin SealedIn(segs, cursor) /\ ReadFrom(f) < Len(segs[f])
  BY <1>4 DEF Pending
<1>6. CASE ~f.zst
  <2>1. ReadFrom(f) = Offset(cursor, f) /\ ReadTo(segs, cursor, f) = Offset(cursor, f)
    BY <1>2, <1>6, ReadToMeans DEF ReadFrom
  <2> QED
    BY <2>1, <1>2, <1>3, <1>5
<1>7. CASE f.zst /\ RawOf(f) \notin DOMAIN cursor
  <2>1. /\ ReadFrom(f) = IF Offset(cursor, f) < Len(segs[f]) THEN 0 ELSE Offset(cursor, f)
        /\ ReadTo(segs, cursor, f) = IF Offset(cursor, f) >= Len(segs[f]) THEN Len(segs[f]) ELSE 0
    BY <1>2, <1>7, ReadToMeans DEF ReadFrom
  <2> QED
    BY <2>1, <1>2, <1>3, <1>5
<1>8. CASE f.zst /\ RawOf(f) \in DOMAIN cursor
  BY <1>5, <1>8 DEF SealedIn
<1> QED
  BY <1>6, <1>7, <1>8

\* A scan that opens has opened some of what is pending, all of it when a
\* batch leaves nothing out.
LEMMA BatchOpens ==
  ASSUME EInv, NEW batch \in BOOLEAN, OpenBatch(batch)
  PROVE  \E O \in SUBSET Pending :
           /\ idx'.at = "open" /\ idx'.marks = AtEnds(segs, O)
           /\ idx'.lines = UNION {LinesOf(SubSeq(segs[f], ReadFrom(f) + 1, Len(segs[f]))) : f \in O}
           /\ idx'.upTo = logged /\ idx'.batch \in BOOLEAN /\ idx'.more \in BOOLEAN
           /\ idx'.batch /\ ~idx'.more => O = Pending
<1> DEFINE heads == Pending \ AppendedTo
           choices == IF batch /\ heads # {} THEN {{h} : h \in Newest(heads)} ELSE {{}}
           lines(O) == UNION {LinesOf(SubSeq(segs[f], ReadFrom(f) + 1, Len(segs[f]))) : f \in O}
           newScan(O, m) == [at |-> "open", batch |-> batch, more |-> m,
                             marks |-> AtEnds(segs, O), lines |-> lines(O), upTo |-> logged]
<1>1. PICK head \in choices : idx' = newScan(AppendedTo \cup head, batch /\ heads # head)
  BY DEF OpenBatch, AtEnds
<1>2. head \subseteq heads
  BY <1>1 DEF Newest
<1>3. heads \cup AppendedTo = Pending
  BY DEF AppendedTo
<1> DEFINE O == AppendedTo \cup head
<1>4. O \in SUBSET Pending
  BY <1>2, <1>3
<1>5. (batch /\ heads # head) \in BOOLEAN
  OBVIOUS
<1>6. batch /\ ~(batch /\ heads # head) => O = Pending
  BY <1>3
<1>7. /\ idx'.at = "open" /\ idx'.marks = AtEnds(segs, O)
      /\ idx'.lines = lines(O) /\ idx'.upTo = logged
      /\ idx'.batch = batch /\ idx'.more = (batch /\ heads # head)
  BY <1>1
<1> HIDE DEF heads, choices, O
<1>8. idx'.batch /\ ~idx'.more => O = Pending
  BY <1>6, <1>7
<1>9. idx'.batch \in BOOLEAN /\ idx'.more \in BOOLEAN
  BY <1>5, <1>7
<1> QED
  BY <1>4, <1>7, <1>8, <1>9

\* A scan opens.
LEMMA OpenBatchKeeps == ASSUME EInv, NEW batch \in BOOLEAN, OpenBatch(batch) PROVE EInv'
<1> USE DEF Segments
<1> DEFINE S == SealedIn(segs, cursor)
<1>1. PICK O \in SUBSET Pending :
           /\ idx'.at = "open" /\ idx'.marks = AtEnds(segs, O)
           /\ idx'.lines = UNION {LinesOf(SubSeq(segs[f], ReadFrom(f) + 1, Len(segs[f]))) : f \in O}
           /\ idx'.upTo = logged /\ idx'.batch \in BOOLEAN /\ idx'.more \in BOOLEAN
           /\ idx'.batch /\ ~idx'.more => O = Pending
  BY BatchOpens
<1>2. /\ cursor' = Merge(AtEnds(segs, S), cursor)
      /\ UNCHANGED <<today, logged, segs, shipVars, rows, cursorDisk, caughtUp, since, mishaps, torn>>
  BY DEF OpenBatch, SealedIn, SealedBefore, AtEnds
<1>3. /\ Directory(segs) /\ IsOffsets(cursor) /\ logged \in Nat /\ logged <= MaxEvents
      /\ \A f \in Segments : /\ segs[f] \in Seq(0..MaxEvents + 1) /\ f \in Segment
                             /\ Len(segs[f]) \in 0..MaxEvents
  BY EventLogAssumption DEF EInv, ETypes, EClock, EDirectory, Directory, EIndexTypes
<1>4. Twins(segs)
  BY DEF EInv, ESealed, Twins
<1>5. /\ IsOffsets(cursor') /\ Follows(segs, DOMAIN sent, cursor', rows)
      /\ DOMAIN cursor' = DOMAIN cursor \cup S /\ SealedIn(segs, cursor') = S
      /\ \A f \in Segments : ReadTo(segs, cursor', f) = ReadTo(segs, cursor, f)
  <2>1. /\ Follows(segs, DOMAIN sent, cursor, rows)
        /\ \A f \in DOMAIN segs : Len(segs[f]) <= MaxEvents
    BY <1>3, EventLogAssumption DEF EInv, ECursors
  <2> HIDE DEF S
  <2>2. Seals(segs, cursor, cursor')
    BY <1>2 DEF S, Seals
  <2>3. Directory(segs) /\ IsOffsets(cursor)
    BY <1>3
  <2>4. IsOffsets(cursor') /\ Follows(segs, DOMAIN sent, cursor', rows) /\ ReadsAlike(segs, cursor, cursor')
    BY <2>1, <2>2, <2>3, SealedFollows
  <2> QED
    BY <2>4 DEF S, ReadsAlike
<1>6. O \subseteq Segments /\ S \subseteq Segments /\ O \cap S = {}
  BY PendingMeans DEF Pending, SealedIn
<1>7. ASSUME NEW f \in O
      PROVE  /\ LinesOf(SubSeq(segs[f], ReadFrom(f) + 1, Len(segs[f]))) \subseteq 0..MaxEvents + 1
             /\ \A i \in 1..Len(segs[f]) : i > ReadTo(segs, cursor', f) => segs[f][i] \in idx'.lines
  <2>1. /\ ReadFrom(f) = ReadTo(segs, cursor', f) /\ ReadFrom(f) \in Nat
        /\ ReadFrom(f) < Len(segs[f])
    BY <1>5, <1>6, PendingMeans
  <2>2. \A e : e \in LinesOf(SubSeq(segs[f], ReadFrom(f) + 1, Len(segs[f])))
                 <=> \E i \in (ReadFrom(f) + 1)..Len(segs[f]) : segs[f][i] = e
    <3>1. /\ ReadFrom(f) + 1 \in 1..(Len(segs[f]) + 1) /\ Len(segs[f]) \in 0..Len(segs[f])
          /\ segs[f] \in Seq(0..MaxEvents + 1)
      BY <2>1, <1>3, <1>6
    <3> HIDE DEF Segments
    <3> DEFINE a == ReadFrom(f) + 1
               s == segs[f]
    <3>2. a \in 1..(Len(s) + 1) /\ Len(s) \in 0..Len(s) /\ s \in Seq(0..MaxEvents + 1)
      BY <3>1
    <3> HIDE DEF a, s
    <3>3. \A e : e \in LinesOf(SubSeq(s, a, Len(s))) <=> \E i \in a..Len(s) : s[i] = e
      BY <3>2, EventsAre
    <3> QED
      BY <3>3 DEF a, s
  <2>3. LinesOf(SubSeq(segs[f], ReadFrom(f) + 1, Len(segs[f]))) \subseteq idx'.lines
    BY <1>1
  <2>4. \A i \in (ReadFrom(f) + 1)..Len(segs[f]) : segs[f][i] \in 0..MaxEvents + 1
    <3>1. \A i \in (ReadFrom(f) + 1)..Len(segs[f]) : i \in 1..Len(segs[f])
      BY <2>1, <1>3, <1>6
    <3>2. segs[f] \in Seq(0..MaxEvents + 1)
      BY <1>3, <1>6
    <3>3. \A i \in 1..Len(segs[f]) : segs[f][i] \in 0..MaxEvents + 1
      BY <3>2, ElementOfSeq
    <3> QED
      BY <3>1, <3>3
  <2>5. \A i \in 1..Len(segs[f]) : i > ReadFrom(f) => i \in (ReadFrom(f) + 1)..Len(segs[f])
    BY <2>1, <1>3, <1>6
  <2> QED
    BY <2>1, <2>2, <2>3, <2>4, <2>5
<1>8. idx'.lines \subseteq 0..MaxEvents + 1
  BY <1>1, <1>7
<1> DEFINE m == Scanned'
<1>9. m = Merge(AtEnds(segs, O), cursor')
  BY <1>1 DEF Scanned
<1> HIDE DEF m
<1>10. /\ Follows(segs, DOMAIN sent, m, rows \cup idx'.lines)
       /\ (\A f \in DOMAIN segs \ (O \cup S) : ReadTo(segs, cursor', f) = Len(segs[f]))
            => \A n \in 0..MaxEvents : Reaches(segs, m, rows \cup idx'.lines, n)
  <2>1. \A f \in DOMAIN segs : Len(segs[f]) <= MaxEvents
    BY <1>3, EventLogAssumption
  <2>2. O \in SUBSET DOMAIN segs /\ O \cap SealedIn(segs, cursor') = {}
    BY <1>5, <1>6
  <2>3. \A f \in O : \A i \in 1..Len(segs[f]) :
          i > ReadTo(segs, cursor', f) => segs[f][i] \in idx'.lines
    BY <1>7
  <2> HIDE DEF S
  <2>4. /\ Follows(segs, DOMAIN sent, m, rows \cup idx'.lines)
        /\ (\A f \in DOMAIN segs \ (O \cup SealedIn(segs, cursor')) :
                ReadTo(segs, cursor', f) = Len(segs[f]))
             => \A n \in 0..MaxEvents : Reaches(segs, m, rows \cup idx'.lines, n)
    <3>1. MovesTo(segs, O, cursor', m)
      BY <1>9 DEF MovesTo
    <3>2. Directory(segs) /\ IsOffsets(cursor') /\ Follows(segs, DOMAIN sent, cursor', rows)
      BY <1>3, <1>5
    <3>3. /\ Follows(segs, DOMAIN sent, m, rows \cup idx'.lines)
          /\ MayCover(segs, O, cursor', m, rows \cup idx'.lines)
      BY <2>1, <2>2, <2>3, <3>1, <3>2, <1>4, OpenFollows
    <3> QED
      BY <3>3 DEF MayCover
  <2> QED
    BY <2>4, <1>5
<1>11. EIndexTypes'
  <2>1. IsOffsets(idx'.marks)
    BY <1>1, <1>3, <1>6 DEF IsOffsets, AtEnds
  <2>2. IsOffsets(cursorDisk) /\ IsOffsets(cursor')
    BY <1>5 DEF EInv, ETypes, EIndexTypes
  <2> QED
    BY <2>1, <2>2, <1>1, <1>2, <1>3, <1>8 DEF EInv, ETypes, EIndexTypes
<1>12. ECursors'
  <2>1. sent' = sent
    BY <1>2 DEF shipVars
  <2> QED
    BY <2>1, <1>2, <1>5, <1>10 DEF EInv, ECursors, m
<1>13. EScan'
  <2>1. ASSUME idx'.batch, ~idx'.more, NEW f \in DOMAIN segs \ (O \cup S)
        PROVE  ReadTo(segs, cursor', f) = Len(segs[f])
    BY <2>1, <1>1, <1>5, PendingMeans
  <2>2. logged \in 0..MaxEvents
    BY <1>3, EventLogAssumption
  <2> HIDE DEF S
  <2>3. idx'.batch /\ ~idx'.more => Reaches(segs, m, rows \cup idx'.lines, logged)
    BY <2>1, <2>2, <1>10
  <2> QED
    BY <2>3, <1>1, <1>2 DEF EScan, m
<1>14. mishaps' \in 0..MaxMishaps
  BY <1>2 DEF EInv, ETypes, EClock
<1>15. DOMAIN idx'.marks = O
  BY <1>1 DEF AtEnds
<1> QED
  BY <1>2, <1>5, <1>6, <1>11, <1>12, <1>13, <1>14, <1>15, IndexingKeeps

\* A scan that stops leaves the cursor where it was.
LEMMA ScanStopsKeeps == ASSUME EInv, ScanStops PROVE EInv'
<1>1. PICK got \in SUBSET (idx.lines \cap 1..MaxEvents) : rows' = rows \cup got
  BY DEF ScanStops
<1>2. /\ idx' = NoScan /\ caughtUp' = (caughtUp /\ ~idx.batch)
      /\ UNCHANGED <<today, logged, segs, shipVars, cursor, cursorDisk, since, torn>>
      /\ Mishap \/ mishaps' = mishaps
  BY DEF ScanStops
<1>3. mishaps' \in 0..MaxMishaps
  BY <1>2, EventLogAssumption DEF EInv, ETypes, EClock, Mishap
<1>4. rows \subseteq rows' /\ rows' \subseteq 1..MaxEvents
  BY <1>1 DEF EInv, ETypes, EIndexTypes
<1>5. EIndexTypes'
  <2>1. caughtUp' \in BOOLEAN
    BY <1>2
  <2>2. 0 \in 0..logged
    BY DEF EInv, ETypes, EClock
  <2>3. IsOffsets(idx'.marks)
    BY <1>2, NoScanMeans DEF IsOffsets
  <2> QED
    BY <2>1, <2>2, <2>3, <1>2, <1>4, NoScanMeans DEF EInv, ETypes, EIndexTypes
<1>6. ECursors' /\ EScan'
  BY <1>2, <1>4, MoreFollows, ScanOver DEF EInv, ECursors, shipVars
<1> QED
  BY <1>2, <1>3, <1>5, <1>6, NoScanMeans, IndexingKeeps

\* A scan that ends has read all it opened.
LEMMA ScanHasRead ==
  ASSUME EInv, ScanEnds
  PROVE  /\ idx.lines \subseteq 1..MaxEvents /\ rows' = rows \cup idx.lines /\ cursor' = Scanned
         /\ IsOffsets(cursor') /\ Follows(segs, DOMAIN sent, cursor', rows')
         /\ Follows(segs, DOMAIN sent, cursorDisk', rows')
         /\ cursorDisk' \in {cursor', cursorDisk}
<1>1. /\ Readable(idx.lines) /\ rows' = rows \cup idx.lines /\ cursor' = Merge(idx.marks, cursor)
      /\ cursorDisk' \in {cursor', cursorDisk}
  BY DEF ScanEnds
<1>2. cursor' = Scanned /\ idx.lines \subseteq 1..MaxEvents
  BY <1>1 DEF Scanned, Readable
<1>3. IsOffsets(cursor')
  BY <1>2, ScannedType DEF EInv
<1>4. Follows(segs, DOMAIN sent, cursor', rows') /\ Follows(segs, DOMAIN sent, cursorDisk, rows')
  BY <1>1, <1>2, MoreFollows DEF EInv, ECursors
<1> QED
  BY <1>1, <1>2, <1>3, <1>4

\* A scan that ends moves the cursor no further than it read.
LEMMA ScanEndsKeeps == ASSUME EInv, ScanEnds PROVE EInv'
<1>1. /\ idx.lines \subseteq 1..MaxEvents /\ rows' = rows \cup idx.lines /\ cursor' = Scanned
      /\ IsOffsets(cursor') /\ Follows(segs, DOMAIN sent, cursor', rows')
      /\ Follows(segs, DOMAIN sent, cursorDisk', rows')
      /\ cursorDisk' \in {cursor', cursorDisk}
  BY ScanHasRead
<1>2. /\ idx' = NoScan /\ UNCHANGED <<today, logged, segs, shipVars, torn>>
      /\ \/ mishaps' = mishaps /\ since' = Coverage(cursor')
         \/ Mishap /\ since' = since
      /\ caughtUp' \in {~idx.more, caughtUp, caughtUp /\ ~idx.batch}
  BY DEF ScanEnds
<1>3. mishaps' \in 0..MaxMishaps
  BY <1>2, EventLogAssumption DEF EInv, ETypes, EClock, Mishap
<1>4. rows' \subseteq 1..MaxEvents
  BY <1>1 DEF EInv, ETypes, EIndexTypes
<1>5. EIndexTypes'
  <2>1. caughtUp' \in BOOLEAN
    BY <1>2 DEF EInv, ETypes, EIndexTypes
  <2>2. 0 \in 0..logged
    BY DEF EInv, ETypes, EClock
  <2>3. IsOffsets(idx'.marks)
    BY <1>2, NoScanMeans DEF IsOffsets
  <2>4. since' \in 0..(MaxDay + 1)
    BY <1>2, CoverageMeans DEF EInv, ETypes, EIndexTypes
  <2>5. IsOffsets(cursorDisk')
    BY <1>1 DEF EInv, ETypes, EIndexTypes
  <2> QED
    BY <2>1, <2>2, <2>3, <2>4, <2>5, <1>1, <1>2, <1>4, NoScanMeans DEF EInv, ETypes, EIndexTypes
<1>6. ECursors' /\ EScan'
  BY <1>1, <1>2, ScanOver DEF shipVars
<1>7. DOMAIN cursor' = DOMAIN idx.marks \cup DOMAIN cursor
  BY <1>1 DEF Scanned, Merge
<1> QED
  BY <1>1, <1>2, <1>3, <1>5, <1>6, <1>7, NoScanMeans, IndexingKeeps

\* After a crash offsets and cursor are those on disk.
LEMMA EventLogCrashKeeps == ASSUME EInv, EventLogCrash PROVE EInv'
<1> USE DEF Segments
<1>1. PICK got \in SUBSET (idx.lines \cap 1..MaxEvents) : rows' = rows \cup got
  BY DEF EventLogCrash
<1>2. /\ sent' = sent /\ sentDisk' = sentDisk /\ cursor' = cursorDisk /\ cursorDisk' = cursorDisk
      /\ ship' = Idle /\ idx' = NoScan /\ caughtUp' = FALSE /\ since' = Coverage(cursorDisk)
      /\ UNCHANGED <<today, logged, segs, remote, torn>> /\ Mishap
  BY DEF EventLogCrash, EInv, ESent
<1>3. /\ ship'.at = "idle" /\ ship'.file \in Segment /\ DOMAIN ship'.todo = {}
      /\ ship' = [at |-> ship'.at, file |-> ship'.file, todo |-> ship'.todo]
  BY <1>2, NoFileType
<1>4. rows \subseteq rows' /\ rows' \subseteq 1..MaxEvents
  BY <1>1 DEF EInv, ETypes, EIndexTypes
<1>5. EIndexTypes'
  <2>1. 0 \in 0..logged
    BY DEF EInv, ETypes, EClock
  <2>2. IsOffsets(idx'.marks)
    BY <1>2, NoScanMeans DEF IsOffsets
  <2>3. since' \in 0..(MaxDay + 1)
    BY <1>2, CoverageMeans
  <2> QED
    BY <2>1, <2>2, <2>3, <1>2, <1>4, NoScanMeans DEF EInv, ETypes, EIndexTypes
<1>6. EClock' /\ EDirectory'
  BY <1>2, EventLogAssumption DEF EInv, ETypes, EClock, EDirectory, Mishap
<1>7. EShipTypes'
  BY <1>2, <1>3 DEF EInv, ETypes, EShipTypes, IsOffsets
<1>8. EOwn'
  BY <1>2, NoScanMeans DEF EInv, EOwn
<1>9. ESealed'
  BY <1>2, <1>3 DEF EInv, ESealed
<1>10. EShip'
  BY <1>3 DEF EShip
<1>11. ESent'
  BY <1>2 DEF EInv, ESent
<1>12. ECursors' /\ EScan'
  BY <1>2, <1>4, MoreFollows, ScanOver DEF EInv, ECursors
<1> QED
  BY <1>5, <1>6, <1>7, <1>8, <1>9, <1>10, <1>11, <1>12 DEF EInv, ETypes

\* The invariant holds at the start and is kept by every step.
LEMMA EventLogStarts == EventLogInit => EInv
<1> SUFFICES ASSUME EventLogInit PROVE EInv
  OBVIOUS
<1> USE DEF Segments
<1>1. /\ today = 0 /\ logged = 0 /\ segs = <<>> /\ mishaps = 0 /\ torn = FALSE
      /\ remote = {} /\ sent = <<>> /\ sentDisk = <<>> /\ ship = Idle
      /\ rows = {} /\ cursor = <<>> /\ cursorDisk = <<>> /\ idx = NoScan
      /\ caughtUp = FALSE /\ since = 0
  BY DEF EventLogInit
<1>2. DOMAIN segs = {} /\ DOMAIN sent = {} /\ DOMAIN sentDisk = {} /\ DOMAIN cursor = {}
      /\ DOMAIN cursorDisk = {} /\ DOMAIN idx.marks = {} /\ DOMAIN ship.todo = {}
      /\ idx.at = "idle" /\ idx.marks = <<>> /\ idx.lines = {}
  BY <1>1, NoScanMeans, NoFileType
<1>3. EClock
  <2>1. 0 \in 0..MaxDay /\ 0 \in 0..MaxEvents /\ 0 \in 0..MaxMishaps
    BY EventLogAssumption
  <2> QED
    BY <1>1, <2>1 DEF EClock
<1>4. EDirectory
  BY <1>2 DEF EDirectory, Directory
<1>5. EShipTypes
  BY <1>1, <1>2, NoFileType DEF EShipTypes, IsOffsets
<1>6. EIndexTypes
  <2>1. 0 \in 0..(MaxDay + 1) /\ 0 \in 0..0
    BY EventLogAssumption
  <2>2. IsOffsets(cursor) /\ IsOffsets(cursorDisk) /\ IsOffsets(idx.marks)
    BY <1>2 DEF IsOffsets
  <2> QED
    BY <2>1, <2>2, <1>1, NoScanMeans DEF EIndexTypes
<1>7. EOwn /\ ESealed
  BY <1>2 DEF EOwn, ESealed
<1>8. EShip
  BY <1>1, <1>2, NoFileType DEF EShip
<1>9. ESent
  BY <1>1, <1>2 DEF ESent
<1>10. ECursors
  <2>1. Follows(segs, DOMAIN sent, cursor, rows) /\ Follows(segs, DOMAIN sent, cursorDisk, rows)
    BY <1>2 DEF Follows, Named, Told
  <2> QED
    BY <2>1, <1>2, NothingScanned DEF ECursors, Scanned
<1>11. EScan
  BY <1>2 DEF EScan
<1> QED
  BY <1>3, <1>4, <1>5, <1>6, <1>7, <1>8, <1>9, <1>10, <1>11 DEF EInv, ETypes

LEMMA EventLogSteps == EInv /\ [EventLogNext]_eventLogVars => EInv'
<1> SUFFICES ASSUME EInv, [EventLogNext]_eventLogVars PROVE EInv'
  OBVIOUS
<1>1. CASE \E d \in 0..today : AppendEvent(d)
  BY <1>1, AppendEventKeeps
<1>2. CASE NextDay
  BY <1>2, NextDayKeeps
<1>3. CASE ShipNow
  BY <1>3, UnlinkKeeps, ListSegmentsKeeps, SaveCheckpointKeeps, CompressKeeps, RetireKeeps, PutKeeps
     DEF ShipNow
<1>4. CASE Index
  BY <1>4, OpenBatchKeeps, ScanStopsKeeps, ScanEndsKeeps DEF Index
<1>5. CASE EventLogCrash
  BY <1>5, EventLogCrashKeeps
<1>6. CASE UNCHANGED eventLogVars
  <2>1. UNCHANGED <<today, logged, segs, remote, sent, sentDisk, ship, rows, cursor, cursorDisk, idx,
                    caughtUp, since, mishaps, torn>>
    BY <1>6 DEF eventLogVars, shipVars, indexVars
  <2>2. ETypes' /\ EOwn' /\ ESealed' /\ EShip' /\ ESent'
    BY <2>1 DEF EInv, ETypes, EClock, EDirectory, EShipTypes, EIndexTypes, EOwn, ESealed, EShip, ESent, Segments
  <2>3. ECursors' /\ EScan'
    BY <2>1 DEF EInv, ECursors, EScan, Scanned
  <2> QED
    BY <2>2, <2>3 DEF EInv
<1> QED
  BY <1>1, <1>2, <1>3, <1>4, <1>5, <1>6 DEF EventLogNext
-----------------------------------------------------------------------------
(* What the log promises of its events, and the index of itself. *)

\* Every step but a retirement leaves each segment's lines under one name.
LEMMA EventsStay ==
  ASSUME EInv, EventLogNext, NEW f \in Segments, ~Retire(f)
  PROVE  \E g \in DOMAIN segs' : LinesOf(segs[f]) \subseteq LinesOf(segs'[g])
<1> USE DEF Segments
<1>1. ASSUME NEW d \in 0..today, AppendEvent(d)
      PROVE  f \in DOMAIN segs' /\ LinesOf(segs[f]) \subseteq LinesOf(segs'[f])
  <2>1. PICK h \in Segment, line \in 0..MaxEvents + 1 : segs' = Appended(segs, h, line)
    BY <1>1, AppendLands
  <2>2. /\ DOMAIN segs' = DOMAIN segs \cup {h}
        /\ f # h => segs'[f] = segs[f]
        /\ f = h => segs'[f] = Append(segs[f], line)
    BY <2>1 DEF Appended, With, LinesBefore
  <2>3. segs[f] \in Seq(0..MaxEvents + 1)
    BY DEF EInv, ETypes, EDirectory, Directory
  <2>4. LinesOf(segs[f]) \subseteq LinesOf(Append(segs[f], line))
    <3>1. \A i \in DOMAIN segs[f] : /\ i \in DOMAIN Append(segs[f], line)
                                    /\ Append(segs[f], line)[i] = segs[f][i]
      BY <2>3
    <3> QED
      BY <3>1 DEF LinesOf
  <2> QED
    BY <2>2, <2>4
<1>2. ASSUME NEW h \in Segments, Compress(h)
      PROVE  f \in DOMAIN segs' /\ segs'[f] = segs[f]
  <2>1. segs' = With(segs, ZstOf(h), segs[h]) /\ ~h.zst
    BY <1>2 DEF Compress, Sealable
  <2>2. f = ZstOf(h) => segs[f] = segs[h]
    BY <2>1 DEF EInv, ESealed
  <2> QED
    BY <2>1, <2>2 DEF With
<1>3. ASSUME Unlink PROVE \E g \in DOMAIN segs' : segs'[g] = segs[f]
  <2>1. /\ segs' = Forget(segs, ship.file) /\ ~ship.file.zst
        /\ {ship.file, ZstOf(ship.file)} \subseteq Segments
        /\ segs[ZstOf(ship.file)] = segs[ship.file]
    BY <1>3 DEF Unlink, EInv, EShip, ESealed
  <2>2. ZstOf(ship.file) # ship.file
    BY <2>1 DEF ZstOf
  <2>3. DOMAIN segs' = DOMAIN segs \ {ship.file} /\ \A g \in DOMAIN segs' : segs'[g] = segs[g]
    BY <2>1 DEF Forget
  <2> QED
    BY <2>1, <2>2, <2>3
<1>4. ASSUME NEW h \in Segments, Retire(h)
      PROVE  f \in DOMAIN segs' /\ segs'[f] = segs[f]
  <2>1. segs' = Forget(segs, h) /\ f # h
    BY <1>4 DEF Retire
  <2> QED
    BY <2>1 DEF Forget
<1>5. ASSUME segs' = segs PROVE \E g \in DOMAIN segs' : segs'[g] = segs[f]
  BY <1>5
<1>6. CASE ListSegments \/ SaveCheckpoint \/ NextDay \/ EventLogCrash \/ \E h \in Segments : Put(h)
  BY <1>5, <1>6 DEF ListSegments, SaveCheckpoint, NextDay, EventLogCrash, Put
<1>7. CASE Index
  BY <1>5, <1>7 DEF Index, OpenBatch, ScanStops, ScanEnds
<1> QED
  BY <1>1, <1>2, <1>3, <1>4, <1>6, <1>7 DEF EventLogNext, ShipNow

\* The event log as it runs, whatever is scheduled.
EventLogSpec == EventLogInit /\ [][EventLogNext]_eventLogVars

\* An event leaves the log for good only when the remote store has it and the
\* retention period has passed (fileEventLog.Seal): a retired segment was
\* shipped to its last line, any other file goes only when its twin stays.
THEOREM EventLogRetains == EventLogSpec => RetentionWaitsForRemote
<1> DEFINE Waits == \A f \in Segments : \A e \in EventsOf(segs[f]) :
                      (\A g \in DOMAIN segs' : e \notin EventsOf(segs'[g]))
                         => e \in remote /\ f.day + Keep <= today
<1>1. ASSUME EInv, EventLogNext PROVE Waits
  <2> SUFFICES ASSUME NEW f \in Segments, NEW e \in EventsOf(segs[f]),
                      \A g \in DOMAIN segs' : e \notin EventsOf(segs'[g])
               PROVE  e \in remote /\ f.day + Keep <= today
    OBVIOUS
  <2>1. Retire(f)
    <3>1. SUFFICES ASSUME ~Retire(f) PROVE FALSE
      OBVIOUS
    <3>2. PICK g \in DOMAIN segs' : LinesOf(segs[f]) \subseteq LinesOf(segs'[g])
      BY <1>1, <3>1, EventsStay
    <3> QED
      BY <3>2 DEF EventsOf
  <2>2. Tells(segs[f], Len(segs[f]), remote) /\ f.day + Keep <= today
    BY <1>1, <2>1, RetiredIsShipped
  <2>3. segs[f] \in Seq(0..MaxEvents + 1)
    BY <1>1 DEF EInv, ETypes, EDirectory, Directory, Segments
  <2>4. \E i \in 1..Len(segs[f]) : segs[f][i] = e
    BY <2>3 DEF EventsOf, LinesOf
  <2>5. e \in 1..MaxEvents
    BY DEF EventsOf
  <2> QED
    BY <2>2, <2>4, <2>5 DEF Tells
<1>2. EInv /\ [EventLogNext]_eventLogVars => [Waits]_eventLogVars
  BY <1>1
<1> QED
  BY <1>2, EventLogStarts, EventLogSteps, PTL DEF EventLogSpec, RetentionWaitsForRemote

\* The lines below the cursor tell the table nothing new, in the words of the
\* property.
LEMMA ToldEvents ==
  ASSUME NEW D, NEW c, NEW R, Directory(D), IsOffsets(c), Told(D, c, R), NEW f \in DOMAIN D
  PROVE  /\ ReadTo(D, c, f) <= Len(D[f])
         /\ EventsOf(SubSeq(D[f], 1, ReadTo(D, c, f))) \subseteq R
<1>1. /\ D[f] \in Seq(0..MaxEvents + 1) /\ ReadTo(D, c, f) \in Nat /\ Len(D[f]) \in Nat
      /\ ReadTo(D, c, f) <= Len(D[f]) /\ Tells(D[f], ReadTo(D, c, f), R)
  BY ReadToType DEF Directory, Told
<1> DEFINE n == ReadTo(D, c, f)
           s == D[f]
<1>2. /\ s \in Seq(0..MaxEvents + 1) /\ 1 \in 1..(Len(s) + 1) /\ n \in 0..Len(s)
      /\ Tells(s, n, R)
  BY <1>1
<1> HIDE DEF n, s
<1>3. \A e : e \in EventsOf(SubSeq(s, 1, n)) <=> e \in 1..MaxEvents /\ \E i \in 1..n : s[i] = e
  BY <1>2, EventsAre
<1>4. EventsOf(SubSeq(s, 1, n)) \subseteq R
  BY <1>2, <1>3 DEF Tells
<1> QED
  BY <1>1, <1>4 DEF n, s

\* A line above the cursor of its plain file is in the unread end.
LEMMA UnreadEnd ==
  ASSUME NEW D, NEW c, Directory(D), IsOffsets(c), NEW f \in DOMAIN D, RawOf(f) \in DOMAIN c,
         NEW i \in 1..Len(D[f]), i > c[RawOf(f)], D[f][i] \in 1..MaxEvents
  PROVE  D[f][i] \in EventsOf(SubSeq(D[f], c[RawOf(f)] + 1, Len(D[f])))
<1> DEFINE a == c[RawOf(f)] + 1
           s == D[f]
<1>1. s \in Seq(0..MaxEvents + 1) /\ Len(s) \in Nat /\ c[RawOf(f)] \in Nat
  BY EventLogAssumption DEF Directory, IsOffsets
<1>2. a \in 1..(Len(s) + 1) /\ i \in a..Len(s) /\ Len(s) \in 0..Len(s) /\ s[i] \in 1..MaxEvents
  BY <1>1
<1> HIDE DEF a, s
<1>3. s[i] \in EventsOf(SubSeq(s, a, Len(s)))
  BY <1>1, <1>2, EventsAre
<1> QED
  BY <1>3 DEF a, s

\* What the end of a scan leaves unread of a sealed segment.
EndsOf(D, c) == UNION {EventsOf(SubSeq(D[f], c[RawOf(f)] + 1, Len(D[f]))) : f \in SealedIn(D, c)}

\* The coverage reported after a scan is what the table has.
LEMMA ScanCovers ==
  ASSUME EInv, ScanEnds, mishaps' = mishaps
  PROVE  CoverageKeepsItsWord
<1> USE DEF Segments
<1>1. /\ cursor' = Scanned /\ rows' = rows \cup idx.lines /\ IsOffsets(cursor')
      /\ Follows(segs, DOMAIN sent, cursor', rows')
  BY ScanHasRead
<1>2. /\ since' = Coverage(cursor') /\ caughtUp' = (IF idx.batch THEN ~idx.more ELSE caughtUp)
      /\ segs' = segs /\ idx.at = "open"
  <2>1. ~Mishap
    BY DEF Mishap, EInv, ETypes, EClock
  <2> QED
    BY <2>1 DEF ScanEnds
<1>3. Directory(segs) /\ Told(segs, cursor', rows')
  BY <1>1 DEF EInv, ETypes, EDirectory, Follows
<1>4. SealedUnread' = EndsOf(segs, cursor')
  BY <1>2 DEF SealedUnread, SealedBefore, EndsOf, SealedIn
<1>5. ASSUME NEW f \in Segments, NEW i \in 1..Len(segs[f]), segs[f][i] \in 1..MaxEvents,
             f.zst, RawOf(f) \in DOMAIN cursor', i > cursor'[RawOf(f)]
      PROVE  segs[f][i] \in SealedUnread'
  <2>1. segs[f][i] \in EventsOf(SubSeq(segs[f], cursor'[RawOf(f)] + 1, Len(segs[f])))
    BY <1>1, <1>3, <1>5, UnreadEnd
  <2>2. f \in SealedIn(segs, cursor')
    BY <1>5 DEF SealedIn
  <2> QED
    BY <2>1, <2>2, <1>4 DEF EndsOf
<1>6. ASSUME NEW f \in Segments, NEW i \in 1..Len(segs[f]), segs[f][i] \in 1..MaxEvents,
             i <= ReadTo(segs, cursor', f)
      PROVE  segs[f][i] \in rows'
  <2>1. ReadTo(segs, cursor', f) \in Nat /\ Len(segs[f]) \in Nat
    BY <1>1, <1>3, ReadToType
  <2>2. i \in 1..ReadTo(segs, cursor', f)
    BY <2>1, <1>6
  <2> QED
    BY <2>2, <1>3, <1>6 DEF Told, Tells
<1>7. \A f \in Segments : segs[f] \in Seq(0..MaxEvents + 1) /\ f \in Segment
  BY <1>3 DEF Directory
<1>8. ASSUME NEW f \in Segments, f.day >= since', NEW i \in 1..Len(segs[f]), segs[f][i] \in 1..MaxEvents
      PROVE  segs[f][i] \in rows' \cup SealedUnread'
  <2>1. f \notin Unread(cursor')
    BY <1>2, <1>8, CoverageMeans
  <2>2. /\ ReadTo(segs, cursor', f) \in Nat /\ Len(segs[f]) \in Nat /\ Offset(cursor', f) \in Nat
        /\ ReadTo(segs, cursor', f) <= Len(segs[f]) /\ f \in Segment
    BY <1>1, <1>3, ReadToType DEF Told
  <2>3. CASE f.zst /\ RawOf(f) \in DOMAIN cursor'
    <3>1. ReadTo(segs, cursor', f) = cursor'[RawOf(f)]
      BY <2>2, <2>3, ReadToMeans
    <3>2. CASE i > cursor'[RawOf(f)]
      BY <1>5, <1>8, <2>3, <3>2
    <3>3. CASE i <= cursor'[RawOf(f)]
      BY <1>6, <1>8, <3>1, <3>3
    <3> QED
      BY <2>2, <3>1, <3>2, <3>3
  <2>4. CASE ~(f.zst /\ RawOf(f) \in DOMAIN cursor')
    <3>1. Offset(cursor', f) >= Len(segs[f])
      BY <2>1, <2>2, <2>4 DEF Unread
    <3>2. CASE ~f.zst
      BY <2>2, <3>1, <3>2, <1>6, <1>8, ReadToMeans
    <3>3. CASE f.zst
      BY <2>2, <2>4, <3>1, <3>3, <1>6, <1>8, ReadToMeans
    <3> QED
      BY <3>2, <3>3
  <2> QED
    BY <2>3, <2>4
<1>9. EventsSince(since', logged) \subseteq rows' \cup SealedUnread'
  <2> SUFFICES ASSUME NEW e \in EventsSince(since', logged) PROVE e \in rows' \cup SealedUnread'
    OBVIOUS
  <2>1. PICK f \in Segments : f.day >= since' /\ e \in EventsOf(segs[f])
    BY DEF EventsSince
  <2>2. PICK i \in 1..Len(segs[f]) : segs[f][i] = e
    BY <2>1, <1>7 DEF EventsOf, LinesOf
  <2>3. e \in 1..MaxEvents
    BY <2>1 DEF EventsOf
  <2> QED
    BY <2>1, <2>2, <2>3, <1>8
<1>10. ASSUME idx.batch, caughtUp'
       PROVE  EventsSince(0, idx.upTo) \subseteq rows' \cup SealedUnread'
  <2> SUFFICES ASSUME NEW e \in EventsSince(0, idx.upTo) PROVE e \in rows' \cup SealedUnread'
    OBVIOUS
  <2>1. PICK f \in Segments : e \in EventsOf(segs[f])
    BY DEF EventsSince
  <2>2. PICK i \in 1..Len(segs[f]) : segs[f][i] = e
    BY <2>1, <1>7 DEF EventsOf, LinesOf
  <2>3. e \in 1..MaxEvents /\ e \in 1..idx.upTo
    BY <2>1 DEF EventsOf, EventsSince
  <2>4. Reaches(segs, cursor', rows', idx.upTo)
    BY <1>1, <1>2, <1>10 DEF EInv, EScan
  <2>5. e \in rows' \/ (f.zst /\ RawOf(f) \in DOMAIN cursor' /\ i > cursor'[RawOf(f)])
    BY <2>2, <2>3, <2>4 DEF Reaches
  <2> QED
    BY <2>2, <2>3, <2>5, <1>5
<1> QED
  BY <1>9, <1>10 DEF CoverageKeepsItsWord

\* The invariant gives the types, and that both cursors follow the table.
LEMMA TypesMean == ETypes => EventLogTypeOK
BY DEF ETypes, EClock, EDirectory, EShipTypes, EIndexTypes, Directory, EventLogTypeOK, Segments

LEMMA CursorsMean == EInv => ReadUpToCursor
<1> SUFFICES ASSUME EInv PROVE ReadUpToCursor
  OBVIOUS
<1>1. /\ Directory(segs) /\ IsOffsets(cursor) /\ IsOffsets(cursorDisk)
      /\ Told(segs, cursor, rows) /\ Told(segs, cursorDisk, rows)
  BY DEF EInv, ETypes, EDirectory, EIndexTypes, ECursors, Follows
<1>2. ASSUME NEW c \in {cursor, cursorDisk}, NEW f \in Segments
      PROVE  /\ ReadTo(segs, c, f) <= Len(segs[f])
             /\ EventsOf(SubSeq(segs[f], 1, ReadTo(segs, c, f))) \subseteq rows
  BY <1>1, <1>2, ToldEvents DEF Segments
<1> QED
  BY <1>2 DEF ReadUpToCursor, ReadTo

\* What the index says of itself is true in every state: both cursors name
\* only what is in the table, and at the end of a scan the coverage reported
\* leaves out no event but in the unread ends of sealed segments
\* (sqliteEventIndex.catchUpBatch, coverage).
THEOREM EventIndexKeepsItsWord == EventLogSpec => IndexKeepsItsWord
<1> DEFINE Word == EventLogTypeOK' /\ ReadUpToCursor' /\ CoverageKeepsItsWord
<1>1. EInv => EventLogTypeOK /\ ReadUpToCursor
  BY TypesMean, CursorsMean DEF EInv
<1>2. EInv => CoverageKeepsItsWord
  BY ScanCovers DEF CoverageKeepsItsWord
<1>3. EInv /\ (EventLogTypeOK /\ ReadUpToCursor)' => [Word]_eventLogVars
  BY <1>2
<1> QED
  BY <1>1, <1>3, EventLogStarts, EventLogSteps, PTL DEF EventLogSpec, IndexKeepsItsWord
-----------------------------------------------------------------------------
(* The facts index.  Where the change of a file is on its way to the facts.  *)

\* The files whose hook has not marked them yet.
Unmarked == {hooks[i] : i \in {k \in DOMAIN hooks : marked => k > 1}}
JobRuns == job.at \notin {"idle", "over"}
\* The run is of the current generation, and at the path f.
JobIsCurrent == JobRuns /\ job.gen = scan.gen
JobAt(f, S) == job.at \in S /\ job.path = f

Versions == 0..MaxWrites + 1
Rows == [FactFiles -> [version : Nat, gen : Nat]]
FTables ==
  /\ version \in [FactFiles -> Versions] /\ hooks \in Seq(FactFiles)
  /\ marked \in BOOLEAN /\ (marked => hooks # <<>>)
  /\ dirty \subseteq FactFiles /\ scanQueue \subseteq Paths /\ missed \subseteq FactFiles
  /\ scan = [gen |-> scan.gen, state |-> scan.state]
  /\ scan.gen \in Nat \ {0} /\ scan.state \in {"updating", "ready", "failed"}
  /\ facts \in Rows
  /\ \A f \in FactFiles : facts[f].version \in Versions /\ facts[f].gen \in 0..scan.gen
FLaneKey ==
  /\ factsWaiting \subseteq {"facts"}
  /\ factsWorking = IF job.at = "idle" THEN {} ELSE {"facts"}
FJob ==
  /\ job = [at |-> job.at, todo |-> job.todo, gen |-> job.gen, ready |-> job.ready,
            path |-> job.path, seen |-> job.seen]
  /\ job.at \in {"idle", "over", "next", "drop", "read", "publish", "complete", "recheck", "finish", "mark"}
  /\ job.gen \in 0..scan.gen /\ job.todo \subseteq Paths /\ job.path \in Paths /\ job.seen \in Versions
  /\ job.at \in {"drop", "read", "publish"} => job.path \in FactFiles
  /\ job.at = "drop" => job.seen = 0
FViewer ==
  /\ viewer = [at |-> viewer.at, path |-> viewer.path, seen |-> viewer.seen]
  /\ viewer.at \in {"idle", "read", "publish"} /\ viewer.path \in Paths /\ viewer.seen \in Versions
  /\ viewer.at # "idle" => viewer.path \in FactFiles /\ viewer.seen # 0
FSpent ==
  /\ spent = [writes |-> spent.writes, views |-> spent.views,
              rescopes |-> spent.rescopes, faults |-> spent.faults]
  /\ spent.writes \in 0..MaxWrites /\ spent.views \in Nat /\ spent.rescopes \in Nat /\ spent.faults \in Nat
FTypes == FTables /\ FLaneKey /\ FJob /\ FViewer /\ FSpent

(* A ready generation has no scan of the root left; a run that has been       *)
(* overtaken has left the new one's to be done; and what a current run is to  *)
(* take is still queued.                                                      *)
FQueue ==
  /\ scan.state = "ready" => Root \notin scanQueue
  /\ JobRuns /\ job.gen # scan.gen => Root \in scanQueue
  /\ JobIsCurrent => /\ job.todo \subseteq scanQueue
                     /\ job.at \in {"drop", "read", "publish", "complete"} =>
                          job.path \in scanQueue /\ job.path \notin job.todo

(* Once older rows have been pruned all rows are of the generation.           *)
FPruned ==
  scan.state = "ready" \/ (job.at = "mark" /\ job.gen = scan.gen) =>
    \A f \in FactFiles : facts[f].version # 0 => facts[f].gen = scan.gen

(* What the lane is not going to look at has been noted as missed.            *)
FLane ==
  scan.state = "ready" =>
    \A f \in scanQueue \cap FactFiles : f \in missed \/ factsWaiting # {} \/ JobRuns

(* A file that is not as the run has seen it has its hook to run, or is       *)
(* marked.                                                                    *)
FSeen ==
  \A f \in FactFiles : JobAt(f, {"drop", "read", "publish"}) =>
    version[f] = job.seen \/ f \in Unmarked \cup dirty

\* The row of f is what a scan would make it.
UpToDate(f) == facts[f].version = version[f] /\ (version[f] = 0 \/ facts[f].gen = scan.gen)
FDone ==
  \A f \in FactFiles : JobAt(f, {"complete"}) /\ job.gen = scan.gen =>
    UpToDate(f) \/ f \in missed \cup Unmarked \cup dirty

(* The change of a file is in the table, noted as missed, or on its way: in a *)
(* hook, in the queue, with the scan of the root, with the pruning of a row   *)
(* whose file is gone, or with the run that is going to queue it again.       *)
Covered(f) ==
  \/ UpToDate(f) \/ f \in missed \/ f \in Hooked \/ f \in scanQueue
  \/ Root \in scanQueue /\ (version[f] # 0 \/ facts[f].gen < scan.gen)
  \/ version[f] = 0 /\ facts[f].gen < scan.gen /\ scan.state # "ready"
  \/ JobAt(f, {"recheck"}) /\ job.gen = scan.gen /\ f \in dirty
FCovered == \A f \in FactFiles : Covered(f)

FInv == FTypes /\ FQueue /\ FPruned /\ FLane /\ FSeen /\ FDone /\ FCovered
-----------------------------------------------------------------------------
(* The hooks *)

LEMMA FilesAreNotRoot == Root \notin FactFiles /\ FactFiles \subseteq Paths /\ Root \in Paths
BY FactsAssumption DEF Paths

LEMMA UnmarkedAreHooked == Unmarked \subseteq Hooked
BY DEF Unmarked, Hooked

LEMMA HookComes ==
  ASSUME FTables, NEW f \in FactFiles, hooks' = Append(hooks, f), marked' = marked
  PROVE  /\ hooks' \in Seq(FactFiles) /\ hooks' # <<>>
         /\ Hooked' = Hooked \cup {f} /\ Unmarked' = Unmarked \cup {f}
<1>1. hooks \in Seq(FactFiles) /\ (marked => hooks # <<>>)
  BY DEF FTables
<1>2. /\ hooks' \in Seq(FactFiles) /\ hooks' # <<>>
      /\ DOMAIN hooks' = DOMAIN hooks \cup {Len(hooks) + 1} /\ hooks'[Len(hooks) + 1] = f
      /\ \A i \in DOMAIN hooks : hooks'[i] = hooks[i] /\ i # Len(hooks) + 1
      /\ marked => Len(hooks) + 1 > 1
  BY <1>1
<1>3. Hooked' = Hooked \cup {f}
  BY <1>2 DEF Hooked
<1>4. Unmarked' = Unmarked \cup {f}
  BY <1>2 DEF Unmarked
<1> QED
  BY <1>2, <1>3, <1>4

LEMMA HookIsMarked ==
  ASSUME FTables, hooks # <<>>, hooks' = hooks
  PROVE  /\ Head(hooks) \in FactFiles /\ Hooked' = Hooked
         /\ Unmarked \subseteq Unmarked' \cup {Head(hooks)}
<1>1. hooks \in Seq(FactFiles)
  BY DEF FTables
<1>2. Head(hooks) \in FactFiles /\ Head(hooks) = hooks[1]
      /\ \A i \in DOMAIN hooks : i > 1 \/ i = 1
  BY <1>1
<1>3. Unmarked \subseteq Unmarked' \cup {Head(hooks)}
  BY <1>2 DEF Unmarked
<1> QED
  BY <1>2, <1>3 DEF Hooked

LEMMA HookGoes ==
  ASSUME FTables, marked, hooks' = Tail(hooks), marked' = FALSE
  PROVE  /\ Head(hooks) \in FactFiles /\ hooks' \in Seq(FactFiles)
         /\ Hooked \subseteq Hooked' \cup {Head(hooks)} /\ Unmarked' = Unmarked
<1>1. hooks \in Seq(FactFiles) /\ hooks # <<>>
  BY DEF FTables
<1>2. /\ Head(hooks) \in FactFiles /\ Head(hooks) = hooks[1] /\ hooks' \in Seq(FactFiles)
      /\ DOMAIN hooks' = 1..(Len(hooks) - 1) /\ DOMAIN hooks = 1..Len(hooks) /\ Len(hooks) \in Nat
      /\ \A i \in 1..(Len(hooks) - 1) : hooks'[i] = hooks[i + 1]
  BY <1>1
<1>3. \A i \in DOMAIN hooks : i = 1 \/ (i - 1 \in DOMAIN hooks' /\ hooks'[i - 1] = hooks[i])
  <2>1. ASSUME NEW i \in DOMAIN hooks, i # 1
        PROVE  i - 1 \in 1..(Len(hooks) - 1) /\ (i - 1) + 1 = i
    BY <1>2, <2>1
  <2> QED
    BY <2>1, <1>2
<1>4. ASSUME NEW i \in DOMAIN hooks'
      PROVE  i + 1 \in DOMAIN hooks /\ i + 1 > 1 /\ hooks[i + 1] = hooks'[i]
  <2>1. i \in 1..(Len(hooks) - 1)
    BY <1>2
  <2>2. i + 1 \in 1..Len(hooks) /\ i + 1 > 1
    BY <2>1, <1>2
  <2> QED
    BY <2>1, <2>2, <1>2
<1>5. ASSUME NEW f \in Hooked PROVE f \in Hooked' \cup {Head(hooks)}
  <2>1. PICK i \in DOMAIN hooks : f = hooks[i]
    BY DEF Hooked
  <2>2. i = 1 \/ (i - 1 \in DOMAIN hooks' /\ hooks'[i - 1] = f)
    BY <2>1, <1>3
  <2> QED
    BY <2>1, <2>2, <1>2 DEF Hooked
<1>6. Unmarked' = {hooks'[i] : i \in DOMAIN hooks'}
  BY DEF Unmarked
<1>7. Unmarked = {hooks[i] : i \in {k \in DOMAIN hooks : k > 1}}
  BY DEF Unmarked
<1>8. \A i \in DOMAIN hooks : i > 1 => i # 1
  BY <1>2
<1>9. ASSUME NEW f \in Unmarked' PROVE f \in Unmarked
  <2>1. PICK i \in DOMAIN hooks' : f = hooks'[i]
    BY <1>6
  <2>2. i + 1 \in DOMAIN hooks /\ i + 1 > 1 /\ hooks[i + 1] = f
    BY <2>1, <1>4
  <2> QED
    BY <2>2, <1>7
<1>10. ASSUME NEW f \in Unmarked PROVE f \in Unmarked'
  <2>1. PICK i \in DOMAIN hooks : i > 1 /\ f = hooks[i]
    BY <1>7
  <2>2. i - 1 \in DOMAIN hooks' /\ hooks'[i - 1] = f
    BY <2>1, <1>3, <1>8
  <2> QED
    BY <2>2, <1>6
<1> QED
  BY <1>2, <1>5, <1>9, <1>10
-----------------------------------------------------------------------------
(* Budgets, rows and runs *)

LEMMA SpendKeeps ==
  ASSUME FSpent, NEW n \in {"writes", "views", "rescopes", "faults"}, Spend(n)
  PROVE  FSpent' /\ (n = "writes" => spent.writes + 2 \in Versions)
<1>1. CASE n = "writes"
  <2>1. /\ spent.writes < MaxWrites
        /\ spent' = [writes |-> spent.writes + 1, views |-> spent.views,
                     rescopes |-> spent.rescopes, faults |-> spent.faults]
    BY <1>1 DEF Spend, FSpent
  <2> QED
    BY <2>1, FactsAssumption DEF FSpent, Versions
<1>2. CASE n = "views"
  <2>1. spent' = [writes |-> spent.writes, views |-> spent.views + 1,
                  rescopes |-> spent.rescopes, faults |-> spent.faults]
    BY <1>2 DEF Spend, FSpent
  <2> QED
    BY <2>1, <1>2 DEF FSpent
<1>3. CASE n = "rescopes"
  <2>1. spent' = [writes |-> spent.writes, views |-> spent.views,
                  rescopes |-> spent.rescopes + 1, faults |-> spent.faults]
    BY <1>3 DEF Spend, FSpent
  <2> QED
    BY <2>1, <1>3 DEF FSpent
<1>4. CASE n = "faults"
  <2>1. spent' = [writes |-> spent.writes, views |-> spent.views,
                  rescopes |-> spent.rescopes, faults |-> spent.faults + 1]
    BY <1>4 DEF Spend, FSpent
  <2> QED
    BY <2>1, <1>4 DEF FSpent
<1> QED
  BY <1>1, <1>2, <1>3, <1>4

LEMMA RowGoes ==
  ASSUME facts \in Rows, NEW p \in FactFiles, facts' = [facts EXCEPT ![p].version = 0]
  PROVE  /\ facts' \in Rows
         /\ facts'[p].version = 0 /\ facts'[p].gen = facts[p].gen
         /\ \A f \in FactFiles : f # p => facts'[f] = facts[f]
BY DEF Rows

LEMMA RowComes ==
  ASSUME facts \in Rows, NEW p \in FactFiles, NEW v \in Nat, NEW g \in Nat,
         facts' = [facts EXCEPT ![p] = [version |-> v, gen |-> g]]
  PROVE  /\ facts' \in Rows
         /\ facts'[p].version = v /\ facts'[p].gen = g
         /\ \A f \in FactFiles : f # p => facts'[f] = facts[f]
BY DEF Rows

LEMMA RowsPruned ==
  ASSUME facts \in Rows, NEW g \in Nat, facts' = WithoutOlder(g)
  PROVE  /\ facts' \in Rows
         /\ \A f \in FactFiles : /\ facts'[f].gen = facts[f].gen
                                 /\ facts'[f].version = IF facts[f].gen < g THEN 0 ELSE facts[f].version
<1>1. \A f \in FactFiles : facts[f] \in [version : Nat, gen : Nat]
  BY DEF Rows
<1>2. \A f \in FactFiles :
        facts'[f] = IF facts[f].gen < g THEN [facts[f] EXCEPT !.version = 0] ELSE facts[f]
  BY DEF WithoutOlder
<1>3. ASSUME NEW f \in FactFiles
      PROVE  /\ facts'[f] \in [version : Nat, gen : Nat] /\ facts'[f].gen = facts[f].gen
             /\ facts'[f].version = IF facts[f].gen < g THEN 0 ELSE facts[f].version
  <2>1. CASE facts[f].gen < g
    <3>1. facts'[f] = [facts[f] EXCEPT !.version = 0]
      BY <1>2, <2>1
    <3> QED
      BY <3>1, <2>1, <1>1
  <2>2. CASE ~(facts[f].gen < g)
    <3>1. facts'[f] = facts[f]
      BY <1>2, <2>2
    <3> QED
      BY <3>1, <2>2, <1>1
  <2> QED
    BY <2>1, <2>2
<1>4. facts' \in Rows
  <2>1. \A f \in FactFiles :
          (IF facts[f].gen < g THEN [facts[f] EXCEPT !.version = 0] ELSE facts[f])
            \in [version : Nat, gen : Nat]
    BY <1>1
  <2> QED
    BY <2>1 DEF WithoutOlder, Rows
<1> QED
  BY <1>3, <1>4

LEMMA NobodyRuns ==
  /\ NoJob.at = "idle" /\ NoJob.todo = {} /\ NoJob.gen = 0 /\ NoJob.path = Root /\ NoJob.seen = 0
  /\ NoJob = [at |-> NoJob.at, todo |-> NoJob.todo, gen |-> NoJob.gen, ready |-> NoJob.ready,
              path |-> NoJob.path, seen |-> NoJob.seen]
  /\ NoViewer.at = "idle" /\ NoViewer.path = Root /\ NoViewer.seen = 0
  /\ NoViewer = [at |-> NoViewer.at, path |-> NoViewer.path, seen |-> NoViewer.seen]
  /\ 0 \in Versions
BY FactsAssumption DEF NoJob, NoViewer, Versions

LEMMA NoRun ==
  ASSUME job' = NoJob, scan'.gen \in Nat
  PROVE  /\ job'.at = "idle" /\ ~JobRuns' /\ ~JobIsCurrent' /\ FJob' /\ FSeen' /\ FDone'
<1>1. /\ job'.at = "idle" /\ job'.gen = 0 /\ job'.todo = {} /\ job'.path = Root /\ job'.seen = 0
      /\ job' = [at |-> job'.at, todo |-> job'.todo, gen |-> job'.gen, ready |-> job'.ready,
                 path |-> job'.path, seen |-> job'.seen]
  BY NobodyRuns
<1>2. 0 \in 0..scan'.gen
  OBVIOUS
<1>3. FJob'
  BY <1>1, <1>2, NobodyRuns, FilesAreNotRoot DEF FJob
<1> QED
  BY <1>1, <1>3 DEF JobRuns, JobIsCurrent, FSeen, FDone, JobAt

\* A run ends, and another is due or not.
LEMMA RunEnds ==
  ASSUME NEW again, EndRun(again), FLaneKey, scan'.gen \in Nat
  PROVE  /\ job'.at = "idle" /\ ~JobRuns' /\ ~JobIsCurrent' /\ FJob' /\ FSeen' /\ FDone' /\ FLaneKey'
         /\ again => factsWaiting' # {}
         /\ factsWaiting # {} => factsWaiting' # {}
<1>1. /\ job' = NoJob /\ factsWorking' = {}
      /\ factsWaiting' = IF again THEN {"facts"} ELSE factsWaiting
  BY DEF EndRun
<1>2. job'.at = "idle" /\ ~JobRuns' /\ ~JobIsCurrent' /\ FJob' /\ FSeen' /\ FDone'
  BY <1>1, NoRun
<1> QED
  BY <1>1, <1>2 DEF FLaneKey

LEMMA Scheduled ==
  ASSUME Schedule, FLaneKey, job'.at = job.at
  PROVE  FLaneKey' /\ factsWaiting' # {}
BY DEF Schedule, FactsLane!Request, FLaneKey

\* A new generation scans from the root.
LEMMA GenerationBegins ==
  ASSUME FInv, NewGeneration, version' = version, facts' = facts, job' \in {job, NoJob}
  PROVE  /\ scan'.gen = scan.gen + 1 /\ scan'.gen \in Nat \ {0} /\ scan'.state = "updating"
         /\ scan' = [gen |-> scan'.gen, state |-> scan'.state]
         /\ scanQueue' \subseteq Paths /\ missed' \subseteq FactFiles
         /\ FJob' /\ FQueue' /\ FPruned' /\ FLane' /\ FDone' /\ FCovered'
         /\ \A f \in FactFiles : facts'[f].version \in Versions /\ facts'[f].gen \in 0..scan'.gen
<1>1. /\ scan' = [gen |-> scan.gen + 1, state |-> "updating"] /\ scanQueue' = {Root} /\ missed' = {}
  BY DEF NewGeneration
<1>2. /\ scan.gen \in Nat /\ job.gen \in 0..scan.gen
      /\ \A f \in FactFiles : facts[f].version \in Versions /\ facts[f].gen \in 0..scan.gen
  BY DEF FInv, FTypes, FTables, FJob
<1>3. /\ scan'.gen = scan.gen + 1 /\ scan'.gen \in Nat \ {0} /\ scan'.state = "updating"
      /\ scan' = [gen |-> scan'.gen, state |-> scan'.state]
  BY <1>1, <1>2
<1>4. FJob' /\ ~JobIsCurrent' /\ FDone'
  <2>1. CASE job' = NoJob
    BY <2>1, <1>3, NoRun
  <2>2. CASE job' = job
    <3>1. job.gen \in 0..scan'.gen /\ job.gen # scan'.gen
      BY <1>2, <1>3
    <3> QED
      BY <2>2, <3>1 DEF FInv, FTypes, FJob, JobIsCurrent, FDone
  <2> QED
    BY <2>1, <2>2
<1>5. FQueue'
  BY <1>1, <1>3, <1>4 DEF FQueue
<1>6. FPruned'
  <2>1. ~(job'.at = "mark" /\ job'.gen = scan'.gen)
    BY <1>4 DEF JobIsCurrent, JobRuns
  <2> QED
    BY <2>1, <1>3 DEF FPruned
<1>7. FLane'
  BY <1>3 DEF FLane
<1>8. \A f \in FactFiles : facts'[f].gen < scan'.gen /\ facts'[f].gen \in 0..scan'.gen
  BY <1>2, <1>3
<1>9. FCovered'
  BY <1>1, <1>8 DEF FCovered, Covered
<1> QED
  BY <1>1, <1>2, <1>3, <1>4, <1>5, <1>6, <1>7, <1>8, <1>9, FilesAreNotRoot
-----------------------------------------------------------------------------
(* The steps: commits, hooks and rescopes *)

LEMMA CommitFileKeeps == ASSUME FInv, NEW p \in FactFiles, CommitFile(p) PROVE FInv'
<1> USE DEF fileVars, tableVars, laneFacts
<1>1. /\ Spend("writes") /\ hooks' = Append(hooks, p)
      /\ UNCHANGED <<marked, dirty, scanQueue, scan, facts, factsWaiting, factsWorking, job, viewer, missed>>
      /\ \E v \in {0, spent.writes + 2} : version' = [version EXCEPT ![p] = v]
  BY DEF CommitFile
<1>2. FSpent' /\ spent.writes + 2 \in Versions
  BY <1>1, SpendKeeps DEF FInv, FTypes
<1>3. /\ hooks' \in Seq(FactFiles) /\ hooks' # <<>>
      /\ Hooked' = Hooked \cup {p} /\ Unmarked' = Unmarked \cup {p}
  BY <1>1, HookComes DEF FInv, FTypes
<1>4. /\ version' \in [FactFiles -> Versions]
      /\ \A f \in FactFiles : f # p => version'[f] = version[f]
  BY <1>1, <1>2, NobodyRuns DEF FInv, FTypes, FTables
<1>5. FTables' /\ FLaneKey' /\ FJob' /\ FViewer'
  BY <1>1, <1>3, <1>4 DEF FInv, FTypes, FTables, FLaneKey, FJob, FViewer
<1>6. FQueue' /\ FPruned' /\ FLane'
  BY <1>1 DEF FInv, FQueue, FPruned, FLane, JobRuns, JobIsCurrent
<1>7. FSeen'
  BY <1>1, <1>3, <1>4 DEF FInv, FSeen, JobAt
<1>8. FDone'
  BY <1>1, <1>3, <1>4 DEF FInv, FDone, JobAt, UpToDate
<1>9. FCovered'
  BY <1>1, <1>3, <1>4 DEF FInv, FCovered, Covered, JobAt, UpToDate
<1> QED
  BY <1>2, <1>5, <1>6, <1>7, <1>8, <1>9 DEF FInv, FTypes

LEMMA HookMarksKeeps == ASSUME FInv, HookMarks PROVE FInv'
<1> USE DEF fileVars, tableVars, laneFacts
<1>1. /\ hooks # <<>> /\ marked' = TRUE /\ dirty' = dirty \cup {Head(hooks)}
      /\ UNCHANGED <<version, hooks, scanQueue, scan, facts, factsWaiting, factsWorking,
                     job, viewer, missed, spent>>
  BY DEF HookMarks
<1>2. /\ Head(hooks) \in FactFiles /\ Hooked' = Hooked
      /\ Unmarked \subseteq Unmarked' \cup {Head(hooks)}
  BY <1>1, HookIsMarked DEF FInv, FTypes
<1>3. FTypes'
  BY <1>1, <1>2 DEF FInv, FTypes, FTables, FLaneKey, FJob, FViewer, FSpent
<1>4. FQueue' /\ FPruned' /\ FLane'
  BY <1>1 DEF FInv, FQueue, FPruned, FLane, JobRuns, JobIsCurrent
<1>5. FSeen' /\ FDone'
  BY <1>1, <1>2 DEF FInv, FSeen, FDone, JobAt, UpToDate
<1>6. FCovered'
  BY <1>1, <1>2 DEF FInv, FCovered, Covered, JobAt, UpToDate
<1> QED
  BY <1>3, <1>4, <1>5, <1>6 DEF FInv

\* A request goes to the queue: a generation that is ready stays ready.
LEMMA Requeued ==
  ASSUME FTables, NEW p \in Paths, Requeue(p)
  PROVE  /\ scan'.gen = scan.gen /\ scan' = [gen |-> scan'.gen, state |-> scan'.state]
         /\ scan'.state \in {"updating", "ready"} /\ (scan'.state = "ready" <=> scan.state = "ready")
         /\ scanQueue' = scanQueue \cup {p} /\ scanQueue' \subseteq Paths
<1>1. /\ scan' = [gen |-> scan.gen, state |-> IF scan.state = "ready" THEN "ready" ELSE "updating"]
      /\ scanQueue' = scanQueue \cup {p}
  BY DEF Requeue, FTables
<1> QED
  BY <1>1 DEF FTables

LEMMA HookQueuesKeeps == ASSUME FInv, HookQueues PROVE FInv'
<1> USE DEF fileVars, tableVars, laneFacts
<1> DEFINE p == Head(hooks)
<1>1. /\ marked /\ marked' = FALSE /\ hooks' = Tail(hooks) /\ Schedule
      /\ UNCHANGED <<version, dirty, facts, job, viewer>>
      /\ \/ Requeue(p) /\ missed' = missed /\ spent' = spent
         \/ Spend("faults") /\ NewGeneration
         \/ Spend("faults") /\ missed' = missed \cup {p} /\ scan' = scan /\ scanQueue' = scanQueue
  BY DEF HookQueues
<1>2. /\ p \in FactFiles /\ hooks' \in Seq(FactFiles)
      /\ Hooked \subseteq Hooked' \cup {p} /\ Unmarked' = Unmarked
  BY <1>1, HookGoes DEF FInv, FTypes
<1> HIDE DEF p
<1>3. FLaneKey' /\ factsWaiting' # {}
  BY <1>1, Scheduled DEF FInv, FTypes
<1>4. FSpent'
  BY <1>1, SpendKeeps DEF FInv, FTypes, FSpent
<1>5. FViewer' /\ FSeen' /\ FLane'
  BY <1>1, <1>2, <1>3 DEF FInv, FTypes, FViewer, FSeen, FLane, JobAt
<1>6. CASE Requeue(p) /\ missed' = missed
  <2>1. /\ scan'.gen = scan.gen /\ scan' = [gen |-> scan'.gen, state |-> scan'.state]
        /\ scan'.state \in {"updating", "ready"} /\ (scan'.state = "ready" <=> scan.state = "ready")
        /\ scanQueue' = scanQueue \cup {p} /\ scanQueue' \subseteq Paths
    BY <1>2, <1>6, Requeued, FilesAreNotRoot DEF FInv, FTypes
  <2>2. FTables' /\ FJob'
    BY <2>1, <1>1, <1>2, <1>6 DEF FInv, FTypes, FTables, FJob
  <2>3. FQueue' /\ FPruned'
    BY <2>1, <1>1, <1>2, FilesAreNotRoot DEF FInv, FQueue, FPruned, JobRuns, JobIsCurrent
  <2>4. FDone'
    BY <2>1, <1>1, <1>2, <1>6 DEF FInv, FDone, JobAt, UpToDate
  <2>5. FCovered'
    BY <2>1, <1>1, <1>2, <1>6 DEF FInv, FCovered, Covered, JobAt, UpToDate
  <2> QED
    BY <2>2, <2>3, <2>4, <2>5, <1>3, <1>4, <1>5 DEF FInv, FTypes
<1>7. CASE NewGeneration
  <2>1. /\ scan'.gen \in Nat \ {0} /\ scan'.state = "updating"
        /\ scan' = [gen |-> scan'.gen, state |-> scan'.state]
        /\ scanQueue' \subseteq Paths /\ missed' \subseteq FactFiles
        /\ FJob' /\ FQueue' /\ FPruned' /\ FDone' /\ FCovered'
        /\ \A f \in FactFiles : facts'[f].version \in Versions /\ facts'[f].gen \in 0..scan'.gen
    BY <1>1, <1>7, GenerationBegins
  <2>2. FTables'
    BY <2>1, <1>1, <1>2 DEF FInv, FTypes, FTables
  <2> QED
    BY <2>1, <2>2, <1>3, <1>4, <1>5 DEF FInv, FTypes
<1>8. CASE missed' = missed \cup {p} /\ scan' = scan /\ scanQueue' = scanQueue
  <2>1. FTables' /\ FJob'
    BY <1>1, <1>2, <1>8 DEF FInv, FTypes, FTables, FJob
  <2>2. FQueue' /\ FPruned' /\ FDone'
    BY <1>1, <1>2, <1>8 DEF FInv, FQueue, FPruned, FDone, JobAt, UpToDate, JobRuns, JobIsCurrent
  <2>3. FCovered'
    BY <1>1, <1>2, <1>8 DEF FInv, FCovered, Covered, JobAt, UpToDate
  <2> QED
    BY <2>1, <2>2, <2>3, <1>3, <1>4, <1>5 DEF FInv, FTypes
<1> QED
  BY <1>1, <1>6, <1>7, <1>8

LEMMA RescopeKeeps == ASSUME FInv, Rescope PROVE FInv'
<1> USE DEF fileVars, tableVars, laneFacts
<1>1. /\ Spend("rescopes") /\ NewGeneration /\ Schedule
      /\ UNCHANGED <<version, hooks, marked, dirty, facts, job, viewer>>
  BY DEF Rescope
<1>2. /\ scan'.gen \in Nat \ {0} /\ scan'.state = "updating"
      /\ scan' = [gen |-> scan'.gen, state |-> scan'.state]
      /\ scanQueue' \subseteq Paths /\ missed' \subseteq FactFiles
      /\ FJob' /\ FQueue' /\ FPruned' /\ FLane' /\ FDone' /\ FCovered'
      /\ \A f \in FactFiles : facts'[f].version \in Versions /\ facts'[f].gen \in 0..scan'.gen
  BY <1>1, GenerationBegins
<1>3. FTables' /\ FLaneKey' /\ FViewer' /\ FSpent'
  BY <1>1, <1>2, Scheduled, SpendKeeps DEF FInv, FTypes, FTables, FViewer
<1>4. FSeen'
  BY <1>1 DEF FInv, FSeen, JobAt, Unmarked
<1> QED
  BY <1>2, <1>3, <1>4 DEF FInv, FTypes
-----------------------------------------------------------------------------
(* The run *)

\* A run starts with what is queued.
LEMMA RunStartsKeeps == ASSUME FInv, RunStarts PROVE FInv'
<1> USE DEF fileVars, tableVars, laneFacts
<1>1. /\ factsWorking = {} /\ factsWorking' = {"facts"} /\ factsWaiting' \subseteq factsWaiting
      /\ UNCHANGED <<version, hooks, marked, dirty, scanQueue, scan, facts, viewer, missed, spent>>
  BY DEF RunStarts, FactsLane!Start
<1>2. PICK todo \in SUBSET scanQueue :
        /\ Cardinality(todo) = BatchSize \/ (Cardinality(todo) < BatchSize /\ todo = scanQueue)
        /\ job' = [NoJob EXCEPT
                     !.at = IF todo = {} /\ scan.state = "ready" THEN "over" ELSE "next",
                     !.todo = todo, !.gen = scan.gen, !.ready = (scan.state = "ready")]
  BY DEF RunStarts
<1>3. todo = {} => scanQueue = {}
  BY <1>2, FS_EmptySet, FactsAssumption
<1>4. /\ job' = [at |-> job'.at, todo |-> job'.todo, gen |-> job'.gen, ready |-> job'.ready,
                 path |-> job'.path, seen |-> job'.seen]
      /\ job'.at \in {"over", "next"} /\ (job'.at = "over" => scanQueue = {})
      /\ job'.todo = todo /\ job'.gen = scan.gen /\ job'.path = Root /\ job'.seen = 0
  BY <1>2, <1>3, NobodyRuns
<1>5. job.at = "idle"
  BY <1>1 DEF FInv, FTypes, FLaneKey
<1>6. FTables' /\ FViewer' /\ FSpent' /\ FLaneKey'
  BY <1>1, <1>4 DEF FInv, FTypes, FTables, FViewer, FSpent, FLaneKey
<1>7. FJob'
  BY <1>1, <1>4, NobodyRuns, FilesAreNotRoot DEF FInv, FTypes, FTables, FJob
<1>8. FQueue' /\ FPruned'
  BY <1>1, <1>4 DEF FInv, FQueue, FPruned, JobRuns, JobIsCurrent
<1>9. FLane' /\ FSeen' /\ FDone'
  BY <1>1, <1>4 DEF FInv, FLane, FSeen, FDone, JobRuns, JobAt
<1>10. FCovered'
  BY <1>1, <1>4, <1>5 DEF FInv, FCovered, Covered, JobAt, UpToDate, Hooked
<1> QED
  BY <1>6, <1>7, <1>8, <1>9, <1>10 DEF FInv, FTypes

LEMMA RunIsBlindKeeps == ASSUME FInv, RunIsBlind PROVE FInv'
<1> USE DEF fileVars, tableVars, laneFacts
<1>1. /\ factsWorking = {} /\ factsWorking' = {"facts"} /\ factsWaiting' \subseteq factsWaiting
      /\ UNCHANGED <<version, hooks, marked, dirty, scanQueue, scan, facts, viewer>>
      /\ Spend("faults") /\ job' = [NoJob EXCEPT !.at = "over"]
      /\ missed' = missed \cup (scanQueue \cap FactFiles)
  BY DEF RunIsBlind, FactsLane!Start
<1>2. /\ job' = [at |-> job'.at, todo |-> job'.todo, gen |-> job'.gen, ready |-> job'.ready,
                 path |-> job'.path, seen |-> job'.seen]
      /\ job'.at = "over" /\ job'.todo = {} /\ job'.gen = 0 /\ job'.path = Root /\ job'.seen = 0
  BY <1>1, NobodyRuns
<1>3. job.at = "idle"
  BY <1>1 DEF FInv, FTypes, FLaneKey
<1>4. FTables' /\ FViewer' /\ FSpent' /\ FLaneKey'
  BY <1>1, <1>2, SpendKeeps DEF FInv, FTypes, FTables, FViewer, FLaneKey
<1>5. FJob'
  BY <1>1, <1>2, NobodyRuns, FilesAreNotRoot DEF FInv, FTypes, FTables, FJob
<1>6. FQueue' /\ FPruned'
  BY <1>1, <1>2 DEF FInv, FQueue, FPruned, JobRuns, JobIsCurrent
<1>7. FLane' /\ FSeen' /\ FDone'
  BY <1>1, <1>2 DEF FLane, FSeen, FDone, JobAt
<1>8. FCovered'
  BY <1>1, <1>3 DEF FInv, FCovered, Covered, JobAt, UpToDate, Hooked
<1> QED
  BY <1>4, <1>5, <1>6, <1>7, <1>8 DEF FInv, FTypes

\* A run is left, with nothing of what it had taken forgotten.
LEMMA RunIsLeft ==
  ASSUME FInv, NEW again, EndRun(again), UNCHANGED <<version, hooks, marked, viewer>>,
         facts' \in Rows,
         \A f \in FactFiles : \/ facts'[f] = facts[f]
                              \/ version[f] = 0 /\ facts'[f].version = 0 /\ facts'[f].gen = facts[f].gen,
         scan'.gen = scan.gen, scan' = [gen |-> scan'.gen, state |-> scan'.state],
         scan'.state \in {scan.state, "failed"},
         dirty' \subseteq FactFiles, missed \subseteq missed', missed' \subseteq FactFiles,
         scanQueue \subseteq scanQueue', scanQueue' \subseteq scanQueue \cup FactFiles,
         FSpent', FLane',
         job.at = "recheck" /\ job.path \in dirty => job.path \in missed'
  PROVE  FInv'
<1>1. /\ job'.at = "idle" /\ ~JobRuns' /\ ~JobIsCurrent' /\ FJob' /\ FSeen' /\ FDone' /\ FLaneKey'
  <2>1. scan'.gen \in Nat /\ FLaneKey
    BY DEF FInv, FTypes, FTables
  <2> QED
    BY <2>1, RunEnds
<1>2. FViewer'
  BY DEF FInv, FTypes, FViewer
<1>3. \A f \in FactFiles : facts'[f].version \in Versions /\ facts'[f].gen = facts[f].gen
                           /\ (facts'[f].version # 0 => facts'[f] = facts[f])
  BY NobodyRuns DEF FInv, FTypes, FTables
<1>4. FTables'
  BY <1>3, FilesAreNotRoot DEF FInv, FTypes, FTables
<1>5. FQueue'
  BY <1>1, FilesAreNotRoot DEF FInv, FQueue
<1>6. FPruned'
  BY <1>1, <1>3 DEF FInv, FPruned
<1>7. FCovered'
  <2>1. ASSUME NEW f \in FactFiles PROVE Covered(f)'
    <3>1. Covered(f) /\ Hooked' = Hooked
      BY DEF FInv, FCovered, Hooked
    <3>2. CASE facts'[f] = facts[f]
      BY <3>1, <3>2 DEF Covered, UpToDate, JobAt
    <3>3. CASE version[f] = 0 /\ facts'[f].version = 0
      BY <3>3 DEF Covered, UpToDate
    <3> QED
      BY <3>2, <3>3
  <2> QED
    BY <2>1 DEF FCovered
<1> QED
  BY <1>1, <1>2, <1>4, <1>5, <1>6, <1>7 DEF FInv, FTypes

\* A run of an older generation leaves a scan that is not ready.
LEMMA OvertakenIsNotReady == ASSUME FInv, JobRuns, job.gen # scan.gen PROVE scan.state # "ready"
BY DEF FInv, FQueue

LEMMA ScanFails ==
  ASSUME FInv, FailScan, JobRuns
  PROVE  /\ scan'.gen = scan.gen /\ scan' = [gen |-> scan'.gen, state |-> scan'.state]
         /\ scan'.state \in {scan.state, "failed"} /\ scan'.state # "ready"
<1>1. scan = [gen |-> scan.gen, state |-> scan.state]
  BY DEF FInv, FTypes, FTables
<1>2. CASE job.gen = scan.gen
  <2>1. scan' = [gen |-> scan.gen, state |-> "failed"]
    BY <1>1, <1>2 DEF FailScan
  <2> QED
    BY <2>1
<1>3. CASE job.gen # scan.gen
  BY <1>1, <1>3, OvertakenIsNotReady DEF FailScan
<1> QED
  BY <1>2, <1>3

LEMMA RunOverKeeps == ASSUME FInv, RunOver PROVE FInv'
<1> USE DEF fileVars, tableVars, laneFacts
<1>1. /\ job.at = "over" /\ EndRun(FALSE)
      /\ UNCHANGED <<version, hooks, marked, dirty, scanQueue, scan, facts, viewer, missed, spent>>
  BY DEF RunOver
<1>2. FTables /\ FSpent'
  BY <1>1 DEF FInv, FTypes, FSpent
<1>3. factsWaiting' = factsWaiting
  BY <1>1 DEF EndRun
<1>4. FLane'
  BY <1>1, <1>3 DEF FInv, FLane, JobRuns
<1> QED
  BY <1>1, <1>2, <1>4, RunIsLeft DEF FTables

LEMMA TakePathKeeps == ASSUME FInv, NEW p \in Paths, TakePath(p) PROVE FInv'
<1> USE DEF fileVars, tableVars, laneFacts
<1>1. /\ job.at = "next" /\ p \in job.todo /\ dirty' = dirty \ {p}
      /\ UNCHANGED <<version, hooks, marked, scanQueue, scan, facts, factsWaiting, factsWorking,
                     viewer, missed, spent>>
      /\ job' = [job EXCEPT !.todo = @ \ {p}, !.path = p,
                        !.seen = IF p = Root THEN 0 ELSE version[p],
                        !.at = CASE p = Root -> "complete"
                                 [] p # Root /\ version[p] = 0 -> "drop"
                                 [] OTHER -> "read"]
  BY DEF TakePath
<1>2. job = [at |-> job.at, todo |-> job.todo, gen |-> job.gen, ready |-> job.ready,
             path |-> job.path, seen |-> job.seen]
  BY DEF FInv, FTypes, FJob
<1>3. /\ job' = [at |-> job'.at, todo |-> job'.todo, gen |-> job'.gen, ready |-> job'.ready,
                 path |-> job'.path, seen |-> job'.seen]
      /\ job'.todo = job.todo \ {p} /\ job'.path = p /\ job'.gen = job.gen
      /\ job'.seen = (IF p = Root THEN 0 ELSE version[p])
      /\ job'.at = CASE p = Root -> "complete"
                     [] p # Root /\ version[p] = 0 -> "drop"
                     [] OTHER -> "read"
  BY <1>1, <1>2
<1>4. /\ job'.at \in {"complete", "drop", "read"} /\ (job'.at = "complete" <=> p = Root)
      /\ job'.at = "drop" => job'.seen = 0
  BY <1>3
<1>5. /\ p # Root => p \in FactFiles
      /\ \A f \in FactFiles : f # Root
  BY FilesAreNotRoot DEF Paths
<1>6. job'.seen \in Versions
  BY <1>3, <1>5, NobodyRuns DEF FInv, FTypes, FTables
<1>7. FTables' /\ FViewer' /\ FSpent'
  BY <1>1 DEF FInv, FTypes, FTables, FViewer, FSpent
<1>8. FLaneKey'
  BY <1>1, <1>4 DEF FInv, FTypes, FLaneKey
<1>9. FJob'
  BY <1>1, <1>3, <1>4, <1>5, <1>6 DEF FInv, FTypes, FJob
<1>10. FQueue'
  BY <1>1, <1>3, <1>4 DEF FInv, FQueue, JobRuns, JobIsCurrent
<1>11. FPruned' /\ FLane'
  BY <1>1, <1>4 DEF FInv, FPruned, FLane, JobRuns
<1>12. FSeen'
  BY <1>1, <1>3, <1>5 DEF FSeen, JobAt
<1>13. FDone'
  BY <1>3, <1>4, <1>5 DEF FDone, JobAt
<1>14. FCovered'
  BY <1>1 DEF FInv, FCovered, Covered, JobAt, UpToDate, Hooked
<1> QED
  BY <1>7, <1>8, <1>9, <1>10, <1>11, <1>12, <1>13, <1>14 DEF FInv, FTypes

\* The run goes on to another step on the same path.
LEMMA JobGoesOn ==
  ASSUME FJob, NEW a, job' = [job EXCEPT !.at = a], scan'.gen = scan.gen,
         a \in {"next", "publish", "complete", "recheck", "finish", "mark"},
         a = "publish" => job.path \in FactFiles
  PROVE  /\ FJob' /\ job'.at = a /\ job'.todo = job.todo /\ job'.gen = job.gen
         /\ job'.path = job.path /\ job'.seen = job.seen
<1>1. job = [at |-> job.at, todo |-> job.todo, gen |-> job.gen, ready |-> job.ready,
             path |-> job.path, seen |-> job.seen]
  BY DEF FJob
<1>2. /\ job' = [at |-> job'.at, todo |-> job'.todo, gen |-> job'.gen, ready |-> job'.ready,
                 path |-> job'.path, seen |-> job'.seen]
      /\ job'.at = a /\ job'.todo = job.todo /\ job'.gen = job.gen
      /\ job'.path = job.path /\ job'.seen = job.seen
  BY <1>1
<1> QED
  BY <1>2 DEF FJob

LEMMA DropFactsKeeps == ASSUME FInv, DropFacts PROVE FInv'
<1> USE DEF fileVars, tableVars, laneFacts
<1>3. job.at = "drop" /\ job.path \in FactFiles /\ job.seen = 0 /\ facts \in Rows
  BY DEF DropFacts, FInv, FTypes, FJob, FTables
<1> PICK p \in FactFiles : p = job.path
  BY <1>3
<1>1. /\ job.at = "drop" /\ job' = [job EXCEPT !.at = "complete"]
      /\ facts' = [facts EXCEPT ![p].version = 0] /\ missed' = missed \ {p}
      /\ UNCHANGED <<version, hooks, marked, dirty, scanQueue, scan, factsWaiting, factsWorking,
                     viewer, spent>>
  BY DEF DropFacts
<1>2. /\ FJob' /\ job'.at = "complete" /\ job'.todo = job.todo /\ job'.gen = job.gen
      /\ job'.path = p /\ job'.seen = job.seen
  BY <1>1, JobGoesOn DEF FInv, FTypes
<1>4. /\ facts' \in Rows /\ facts'[p].version = 0 /\ facts'[p].gen = facts[p].gen
      /\ \A f \in FactFiles : f # p => facts'[f] = facts[f]
  BY <1>1, <1>3, RowGoes
<1>5. version[p] = 0 \/ p \in Unmarked \cup dirty
  BY <1>1, <1>3 DEF FInv, FSeen, JobAt
<1>6. Unmarked' = Unmarked /\ Hooked' = Hooked /\ Unmarked \subseteq Hooked
  BY <1>1, UnmarkedAreHooked DEF Unmarked, Hooked
<1>7. JobRuns /\ (job.gen = scan.gen => p \in scanQueue) /\ (job.gen # scan.gen => Root \in scanQueue)
  BY <1>1 DEF FInv, FQueue, JobRuns, JobIsCurrent
<1>8. FTables'
  BY <1>1, <1>3, <1>4, NobodyRuns DEF FInv, FTypes, FTables
<1>9. FViewer' /\ FSpent' /\ FLaneKey'
  BY <1>1, <1>2 DEF FInv, FTypes, FViewer, FSpent, FLaneKey
<1>10. FQueue'
  BY <1>1, <1>2 DEF FInv, FQueue, JobRuns, JobIsCurrent
<1>11. FPruned'
  BY <1>1, <1>2, <1>4 DEF FInv, FPruned
<1>12. FLane' /\ FSeen'
  BY <1>2 DEF FLane, FSeen, JobRuns, JobAt
<1>13. FDone'
  <2>1. UpToDate(p)' \/ p \in Unmarked' \cup dirty'
    BY <1>1, <1>4, <1>5, <1>6 DEF UpToDate
  <2> QED
    BY <2>1, <1>2 DEF FDone, JobAt
<1>14. FCovered'
  <2>1. Covered(p)'
    BY <1>1, <1>4, <1>5, <1>6, <1>7 DEF Covered, UpToDate
  <2>2. ASSUME NEW f \in FactFiles, f # p PROVE Covered(f)'
    <3>1. Covered(f) /\ facts'[f] = facts[f] /\ (f \in missed => f \in missed')
      BY <1>1, <1>4, <2>2 DEF FInv, FCovered
    <3> QED
      BY <3>1, <1>1, <1>6 DEF Covered, UpToDate, JobAt
  <2> QED
    BY <2>1, <2>2 DEF FCovered
<1> QED
  BY <1>2, <1>8, <1>9, <1>10, <1>11, <1>12, <1>13, <1>14 DEF FInv, FTypes

LEMMA ReadFileKeeps == ASSUME FInv, ReadFile PROVE FInv'
<1> USE DEF fileVars, tableVars, laneFacts
<1>1. /\ job.at = "read" /\ job.path \in FactFiles /\ facts \in Rows
      /\ FTables /\ FJob /\ FLaneKey /\ JobRuns
      /\ UNCHANGED <<version, hooks, marked, viewer, spent>>
  BY DEF ReadFile, FInv, FTypes, FJob, FTables, JobRuns
<1> PICK p \in FactFiles : p = job.path
  BY <1>1
<1>2. \/ /\ facts[p].version = job.seen /\ facts[p].gen = job.gen
         /\ job' = [job EXCEPT !.at = "complete"] /\ missed' = missed \ {p}
         /\ UNCHANGED <<dirty, scanQueue, scan, facts, factsWaiting, factsWorking>>
      \/ /\ job' = [job EXCEPT !.at = "publish"]
         /\ UNCHANGED <<dirty, scanQueue, scan, facts, factsWaiting, factsWorking, missed>>
      \/ /\ version[p] = 0 /\ facts' = [facts EXCEPT ![p].version = 0]
         /\ FailScan /\ EndRun(FALSE) /\ UNCHANGED <<dirty, scanQueue, missed>>
      \/ /\ dirty' = dirty \cup {p} /\ scanQueue' = scanQueue \cup {p}
         /\ FailScan /\ EndRun(TRUE) /\ UNCHANGED <<facts, missed>>
  BY DEF ReadFile
<1>3. FSpent' /\ FViewer'
  BY <1>1 DEF FInv, FTypes, FSpent, FViewer
<1>4. Unmarked' = Unmarked /\ Hooked' = Hooked /\ Unmarked \subseteq Hooked
  BY <1>1, UnmarkedAreHooked DEF Unmarked, Hooked
<1>5. CASE /\ facts[p].version = job.seen /\ facts[p].gen = job.gen
           /\ job' = [job EXCEPT !.at = "complete"] /\ missed' = missed \ {p}
           /\ UNCHANGED <<dirty, scanQueue, scan, facts, factsWaiting, factsWorking>>
  <2>1. /\ FJob' /\ job'.at = "complete" /\ job'.todo = job.todo /\ job'.gen = job.gen
        /\ job'.path = p /\ job'.seen = job.seen
    BY <1>1, <1>5, JobGoesOn
  <2>2. version[p] = job.seen \/ p \in Unmarked \cup dirty
    BY <1>1 DEF FInv, FSeen, JobAt
  <2>3. /\ job.gen = scan.gen => p \in scanQueue
        /\ job.gen # scan.gen => Root \in scanQueue /\ facts[p].gen < scan.gen
    BY <1>1, <1>5 DEF FInv, FQueue, JobIsCurrent, FTables
  <2>4. FTables' /\ FLaneKey'
    BY <1>1, <1>5, <2>1 DEF FTables, FLaneKey
  <2>5. FQueue' /\ FPruned'
    BY <1>1, <1>5, <2>1 DEF FInv, FQueue, FPruned, JobRuns, JobIsCurrent
  <2>6. FLane' /\ FSeen'
    BY <2>1 DEF FLane, FSeen, JobRuns, JobAt
  <2>7. FDone'
    <3>1. job.gen = scan.gen => UpToDate(p)' \/ p \in Unmarked' \cup dirty'
      BY <1>1, <1>4, <1>5, <2>2 DEF UpToDate
    <3> QED
      BY <3>1, <1>5, <2>1 DEF FDone, JobAt
  <2>8. FCovered'
    <3>1. Covered(p)'
      BY <1>1, <1>4, <1>5, <2>2, <2>3 DEF Covered, UpToDate
    <3>2. ASSUME NEW f \in FactFiles, f # p PROVE Covered(f)'
      <4>1. Covered(f) /\ (f \in missed => f \in missed')
        BY <1>5, <3>2 DEF FInv, FCovered
      <4> QED
        BY <4>1, <1>1, <1>4, <1>5 DEF Covered, UpToDate, JobAt
    <3> QED
      BY <3>1, <3>2 DEF FCovered
  <2> QED
    BY <1>3, <2>1, <2>4, <2>5, <2>6, <2>7, <2>8 DEF FInv, FTypes
<1>6. CASE /\ job' = [job EXCEPT !.at = "publish"]
           /\ UNCHANGED <<dirty, scanQueue, scan, facts, factsWaiting, factsWorking, missed>>
  <2>1. /\ FJob' /\ job'.at = "publish" /\ job'.todo = job.todo /\ job'.gen = job.gen
        /\ job'.path = p /\ job'.seen = job.seen
    BY <1>1, <1>6, JobGoesOn
  <2>2. FTables' /\ FLaneKey'
    BY <1>1, <1>6, <2>1 DEF FTables, FLaneKey
  <2>3. FQueue' /\ FPruned' /\ FLane'
    BY <1>1, <1>6, <2>1 DEF FInv, FQueue, FPruned, FLane, JobRuns, JobIsCurrent
  <2>4. FSeen' /\ FDone'
    BY <1>1, <1>4, <1>6, <2>1 DEF FInv, FSeen, FDone, JobAt
  <2>5. FCovered'
    BY <1>1, <1>4, <1>6 DEF FInv, FCovered, Covered, JobAt, UpToDate
  <2> QED
    BY <1>3, <2>1, <2>2, <2>3, <2>4, <2>5 DEF FInv, FTypes
<1>7. CASE /\ version[p] = 0 /\ facts' = [facts EXCEPT ![p].version = 0]
           /\ FailScan /\ EndRun(FALSE) /\ UNCHANGED <<dirty, scanQueue, missed>>
  <2>1. /\ facts' \in Rows /\ facts'[p].version = 0 /\ facts'[p].gen = facts[p].gen
        /\ \A f \in FactFiles : f # p => facts'[f] = facts[f]
    BY <1>1, <1>7, RowGoes
  <2>2. \A f \in FactFiles : \/ facts'[f] = facts[f]
                             \/ version[f] = 0 /\ facts'[f].version = 0 /\ facts'[f].gen = facts[f].gen
    BY <1>7, <2>1
  <2>3. /\ scan'.gen = scan.gen /\ scan' = [gen |-> scan'.gen, state |-> scan'.state]
        /\ scan'.state \in {scan.state, "failed"} /\ FLane'
    BY <1>1, <1>7, ScanFails DEF FLane
  <2> QED
    BY <1>1, <1>3, <1>7, <2>1, <2>2, <2>3, RunIsLeft DEF FTables
<1>8. CASE /\ dirty' = dirty \cup {p} /\ scanQueue' = scanQueue \cup {p}
           /\ FailScan /\ EndRun(TRUE) /\ UNCHANGED <<facts, missed>>
  <2>1. /\ scan'.gen = scan.gen /\ scan' = [gen |-> scan'.gen, state |-> scan'.state]
        /\ scan'.state \in {scan.state, "failed"} /\ FLane'
    BY <1>1, <1>8, ScanFails DEF FLane
  <2> QED
    BY <1>1, <1>3, <1>8, <2>1, RunIsLeft DEF FTables
<1> QED
  BY <1>2, <1>5, <1>6, <1>7, <1>8

LEMMA PublishKeeps == ASSUME FInv, Publish PROVE FInv'
<1> USE DEF fileVars, tableVars, laneFacts
<1>1. /\ job.at = "publish" /\ job.path \in FactFiles /\ job.seen \in Versions /\ facts \in Rows
      /\ FTables /\ FJob /\ FLaneKey /\ JobRuns
      /\ UNCHANGED <<version, hooks, marked, dirty, scanQueue, scan, viewer, spent>>
  BY DEF Publish, FInv, FTypes, FJob, FTables, JobRuns
<1> PICK p \in FactFiles : p = job.path
  BY <1>1
<1>2. FSpent' /\ FViewer'
  BY <1>1 DEF FInv, FTypes, FSpent, FViewer
<1>3. Unmarked' = Unmarked /\ Hooked' = Hooked /\ Unmarked \subseteq Hooked
  BY <1>1, UnmarkedAreHooked DEF Unmarked, Hooked
<1>4. CASE job.gen = scan.gen
  <2>1. /\ facts' = [facts EXCEPT ![p] = [version |-> job.seen, gen |-> job.gen]]
        /\ missed' = missed \ {p} /\ job' = [job EXCEPT !.at = "complete"]
        /\ UNCHANGED <<factsWaiting, factsWorking>>
    BY <1>4 DEF Publish
  <2>2. /\ FJob' /\ job'.at = "complete" /\ job'.todo = job.todo /\ job'.gen = job.gen
        /\ job'.path = p /\ job'.seen = job.seen
    BY <1>1, <2>1, JobGoesOn
  <2>3. job.seen \in Nat /\ job.gen \in Nat /\ job.gen \in 0..scan.gen
    BY <1>1, <1>4, FactsAssumption DEF Versions, FTables
  <2>4. /\ facts' \in Rows /\ facts'[p].version = job.seen /\ facts'[p].gen = job.gen
        /\ \A f \in FactFiles : f # p => facts'[f] = facts[f]
    BY <1>1, <2>1, <2>3 DEF Rows
  <2>5. version[p] = job.seen \/ p \in Unmarked \cup dirty
    BY <1>1 DEF FInv, FSeen, JobAt
  <2>6. p \in scanQueue
    BY <1>1, <1>4 DEF FInv, FQueue, JobIsCurrent
  <2>7. FTables' /\ FLaneKey'
    BY <1>1, <2>1, <2>2, <2>3, <2>4 DEF FTables, FLaneKey
  <2>8. FQueue'
    BY <1>1, <2>1, <2>2 DEF FInv, FQueue, JobRuns, JobIsCurrent
  <2>9. FPruned'
    BY <1>1, <1>4, <2>2, <2>4 DEF FInv, FPruned
  <2>10. FLane' /\ FSeen'
    BY <2>2 DEF FLane, FSeen, JobRuns, JobAt
  <2>11. FDone'
    <3>1. UpToDate(p)' \/ p \in Unmarked' \cup dirty'
      BY <1>1, <1>3, <1>4, <2>4, <2>5 DEF UpToDate
    <3> QED
      BY <3>1, <2>2 DEF FDone, JobAt
  <2>12. FCovered'
    <3>1. ASSUME NEW f \in FactFiles, f # p PROVE Covered(f)'
      <4>1. Covered(f) /\ facts'[f] = facts[f] /\ (f \in missed => f \in missed')
        BY <2>1, <2>4, <3>1 DEF FInv, FCovered
      <4> QED
        BY <4>1, <1>1, <1>3 DEF Covered, UpToDate, JobAt
    <3>2. Covered(p)'
      BY <1>1, <2>6 DEF Covered
    <3> QED
      BY <3>1, <3>2 DEF FCovered
  <2> QED
    BY <1>2, <2>2, <2>7, <2>8, <2>9, <2>10, <2>11, <2>12 DEF FInv, FTypes
<1>5. CASE job.gen # scan.gen
  <2>1. EndRun(FALSE) /\ UNCHANGED <<facts, missed>>
    BY <1>5 DEF Publish
  <2>2. FLane'
    BY <1>1, <1>5, OvertakenIsNotReady DEF FLane
  <2> QED
    BY <1>1, <1>2, <2>1, <2>2, RunIsLeft DEF FTables
<1> QED
  BY <1>4, <1>5

LEMMA CompletePathKeeps == ASSUME FInv, CompletePath PROVE FInv'
<1> USE DEF fileVars, tableVars, laneFacts
<1>1. /\ job.at = "complete" /\ job' = [job EXCEPT !.at = "recheck"]
      /\ FTables /\ FJob /\ FLaneKey /\ JobRuns /\ job.path \in Paths
      /\ scanQueue' = IF job.gen # scan.gen \/ job.path \notin scanQueue THEN scanQueue
                      ELSE (scanQueue \ {job.path})
                           \cup (IF job.path = Root THEN {f \in FactFiles : version[f] # 0} ELSE {})
      /\ UNCHANGED <<version, hooks, marked, dirty, scan, facts, factsWaiting, factsWorking,
                     viewer, missed, spent>>
  BY DEF CompletePath, FInv, FTypes, FJob, JobRuns
<1>2. /\ FJob' /\ job'.at = "recheck" /\ job'.todo = job.todo /\ job'.gen = job.gen
      /\ job'.path = job.path /\ job'.seen = job.seen
  BY <1>1, JobGoesOn
<1>3. \A f \in FactFiles : f # Root
  BY FilesAreNotRoot
<1>4. /\ scanQueue' \subseteq Paths
      /\ Root \notin scanQueue => Root \notin scanQueue'
      /\ job.gen # scan.gen => scanQueue' = scanQueue
      /\ scanQueue \subseteq scanQueue' \cup {job.path}
  BY <1>1, FilesAreNotRoot DEF FTables
<1>5. FTables' /\ FLaneKey' /\ FViewer' /\ FSpent'
  BY <1>1, <1>2, <1>4 DEF FInv, FTypes, FTables, FLaneKey, FViewer, FSpent
<1>6. FQueue'
  BY <1>1, <1>2, <1>4 DEF FInv, FQueue, JobRuns, JobIsCurrent
<1>7. FPruned' /\ FLane' /\ FSeen' /\ FDone'
  BY <1>1, <1>2 DEF FInv, FPruned, FLane, FSeen, FDone, JobRuns, JobAt
<1>8. ASSUME NEW f \in FactFiles PROVE Covered(f)'
  <2>1. Covered(f) /\ Hooked' = Hooked /\ Unmarked \subseteq Hooked
    BY <1>1, UnmarkedAreHooked DEF FInv, FCovered, Hooked
  <2>2. CASE scanQueue' = scanQueue
    BY <2>1, <2>2, <1>1 DEF Covered, UpToDate, JobAt
  <2>3. CASE job.gen = scan.gen /\ job.path = f
    <3>1. UpToDate(f) \/ f \in missed \cup Unmarked \cup dirty
      BY <1>1, <2>3 DEF FInv, FDone, JobAt
    <3> QED
      BY <3>1, <2>1, <2>3, <1>1, <1>2 DEF Covered, UpToDate, JobAt
  <2>4. CASE job.path # f /\ job.path # Root
    <3>1. /\ f \in scanQueue => f \in scanQueue'
          /\ Root \in scanQueue => Root \in scanQueue'
      BY <1>4, <2>4
    <3> QED
      BY <3>1, <2>1, <1>1 DEF Covered, UpToDate, JobAt
  <2>5. CASE job.path = Root /\ scanQueue' # scanQueue
    <3>1. /\ version[f] # 0 => f \in scanQueue'
          /\ f \in scanQueue => f \in scanQueue'
          /\ Root \in scanQueue
      BY <1>1, <1>3, <2>5
    <3>2. scan.state # "ready"
      BY <3>1 DEF FInv, FQueue
    <3> QED
      BY <3>1, <3>2, <2>1, <1>1 DEF Covered, UpToDate, JobAt
  <2> QED
    BY <2>2, <2>3, <2>4, <2>5, <1>4
<1>9. FCovered'
  BY <1>8 DEF FCovered
<1> QED
  BY <1>2, <1>5, <1>6, <1>7, <1>9 DEF FInv, FTypes

LEMMA RecheckKeeps == ASSUME FInv, Recheck PROVE FInv'
<1> USE DEF fileVars, tableVars, laneFacts
<1>1. /\ job.at = "recheck" /\ job' = [job EXCEPT !.at = "next"]
      /\ FTables /\ FJob /\ FLaneKey /\ JobRuns /\ job.path \in Paths
      /\ IF job.path \in dirty /\ job.gen = scan.gen THEN Requeue(job.path)
         ELSE UNCHANGED <<scan, scanQueue>>
      /\ UNCHANGED <<version, hooks, marked, dirty, facts, factsWaiting, factsWorking,
                     viewer, missed, spent>>
  BY DEF Recheck, FInv, FTypes, FJob, JobRuns
<1>2. /\ scan'.gen = scan.gen /\ scan' = [gen |-> scan'.gen, state |-> scan'.state]
      /\ scan'.state \in {"updating", "ready", "failed"}
      /\ (scan'.state = "ready" <=> scan.state = "ready")
      /\ scanQueue' \subseteq Paths /\ scanQueue \subseteq scanQueue'
      /\ scanQueue' \subseteq scanQueue \cup FactFiles
      /\ job.path \in dirty /\ job.gen = scan.gen => job.path \in scanQueue'
  <2>1. CASE job.path \in dirty /\ job.gen = scan.gen
    <3>1. Requeue(job.path) /\ job.path \in FactFiles
      BY <1>1, <2>1 DEF FTables
    <3> QED
      BY <3>1, <1>1, Requeued
  <2>2. CASE ~(job.path \in dirty /\ job.gen = scan.gen)
    BY <1>1, <2>2 DEF FTables
  <2> QED
    BY <2>1, <2>2
<1>3. /\ FJob' /\ job'.at = "next" /\ job'.todo = job.todo /\ job'.gen = job.gen
      /\ job'.path = job.path /\ job'.seen = job.seen
  BY <1>1, <1>2, JobGoesOn
<1>4. FTables' /\ FLaneKey' /\ FViewer' /\ FSpent'
  BY <1>1, <1>2, <1>3 DEF FInv, FTypes, FTables, FLaneKey, FViewer, FSpent
<1>5. FQueue'
  BY <1>1, <1>2, <1>3, FilesAreNotRoot DEF FInv, FQueue, JobRuns, JobIsCurrent
<1>6. FPruned' /\ FLane' /\ FSeen' /\ FDone'
  BY <1>1, <1>2, <1>3 DEF FInv, FPruned, FLane, FSeen, FDone, JobRuns, JobAt
<1>7. FCovered'
  BY <1>1, <1>2 DEF FInv, FCovered, Covered, JobAt, UpToDate, Hooked
<1> QED
  BY <1>3, <1>4, <1>5, <1>6, <1>7 DEF FInv, FTypes

\* The run goes on to its end, with the tables as they are.
LEMMA RunNearsItsEnd ==
  ASSUME FInv, job.at = "next", job' = [job EXCEPT !.at = "finish"],
         UNCHANGED <<version, hooks, marked, dirty, scanQueue, scan, facts, factsWaiting, factsWorking,
                     viewer, missed, spent>>
  PROVE  FInv'
<1>1. /\ FJob' /\ job'.at = "finish" /\ job'.todo = job.todo /\ job'.gen = job.gen
      /\ job'.path = job.path /\ job'.seen = job.seen
  BY JobGoesOn DEF FInv, FTypes
<1>2. FTables' /\ FLaneKey' /\ FViewer' /\ FSpent'
  BY <1>1 DEF FInv, FTypes, FTables, FLaneKey, FViewer, FSpent
<1>3. FQueue' /\ FPruned' /\ FLane' /\ FSeen' /\ FDone'
  BY <1>1 DEF FInv, FQueue, FPruned, FLane, FSeen, FDone, JobRuns, JobIsCurrent, JobAt
<1>4. FCovered'
  BY DEF FInv, FCovered, Covered, JobAt, UpToDate, Hooked
<1> QED
  BY <1>1, <1>2, <1>3, <1>4 DEF FInv, FTypes

LEMMA BatchEndsKeeps == ASSUME FInv, BatchEnds PROVE FInv'
<1> USE DEF fileVars, tableVars, laneFacts
<1>1. /\ job.at = "next" /\ FTables /\ FLaneKey /\ JobRuns
      /\ UNCHANGED <<version, hooks, marked, dirty, scanQueue, scan, facts, viewer, missed, spent>>
      /\ \/ EndRun(RemainingPaths # {})
         \/ job' = [job EXCEPT !.at = "finish"] /\ UNCHANGED <<factsWaiting, factsWorking>>
  BY DEF BatchEnds, FInv, FTypes, JobRuns
<1>2. CASE EndRun(RemainingPaths # {})
  <2>1. RemainingPaths # {} => factsWaiting' # {}
    BY <1>2 DEF EndRun
  <2>2. RemainingPaths = {} => scanQueue = {} \/ scan.state # "ready"
    BY <1>1, OvertakenIsNotReady DEF RemainingPaths
  <2>3. FLane'
    BY <1>1, <2>1, <2>2 DEF FLane
  <2>4. FSpent'
    BY <1>1 DEF FInv, FTypes, FSpent
  <2> QED
    BY <1>1, <1>2, <2>3, <2>4, RunIsLeft DEF FTables
<1>3. CASE job' = [job EXCEPT !.at = "finish"] /\ UNCHANGED <<factsWaiting, factsWorking>>
  BY <1>1, <1>3, RunNearsItsEnd
<1> QED
  BY <1>1, <1>2, <1>3

LEMMA PruneKeeps == ASSUME FInv, Prune PROVE FInv'
<1> USE DEF fileVars, tableVars, laneFacts
<1>1. /\ job.at = "finish" /\ FTables /\ FJob /\ FLaneKey /\ JobRuns
      /\ UNCHANGED <<version, hooks, marked, dirty, scanQueue, scan, viewer, missed, spent>>
  BY DEF Prune, FInv, FTypes, JobRuns
<1>2. FSpent' /\ FViewer'
  BY <1>1 DEF FInv, FTypes, FSpent, FViewer
<1>3. CASE job.gen = scan.gen /\ scanQueue = {}
  <2>1. /\ facts' = WithoutOlder(job.gen) /\ job' = [job EXCEPT !.at = "mark"]
        /\ UNCHANGED <<factsWaiting, factsWorking>>
    BY <1>3 DEF Prune
  <2>2. /\ FJob' /\ job'.at = "mark" /\ job'.todo = job.todo /\ job'.gen = job.gen
        /\ job'.path = job.path /\ job'.seen = job.seen
    BY <1>1, <2>1, JobGoesOn
  <2>3. /\ facts' \in Rows
        /\ \A f \in FactFiles :
             /\ facts'[f].gen = facts[f].gen
             /\ facts'[f].version = IF facts[f].gen < scan.gen THEN 0 ELSE facts[f].version
    BY <1>1, <1>3, <2>1, RowsPruned DEF FTables
  <2>4. FTables' /\ FLaneKey'
    BY <1>1, <2>1, <2>2, <2>3, NobodyRuns DEF FTables, FLaneKey
  <2>5. FQueue'
    BY <1>1, <1>3, <2>2 DEF FInv, FQueue, JobRuns, JobIsCurrent
  <2>6. FPruned'
    BY <1>1, <2>3 DEF FPruned, FTables
  <2>7. FLane' /\ FSeen' /\ FDone'
    BY <1>1, <1>3, <2>2 DEF FLane, FSeen, FDone, JobAt
  <2>8. ASSUME NEW f \in FactFiles PROVE Covered(f)'
    <3>1. /\ Covered(f) /\ Hooked' = Hooked
          /\ facts[f].gen \in Nat /\ scan.gen \in Nat
      BY <1>1 DEF FInv, FCovered, FTables, Hooked
    <3>2. \/ UpToDate(f) \/ f \in missed \/ f \in Hooked
          \/ version[f] = 0 /\ facts[f].gen < scan.gen
      BY <3>1, <1>1, <1>3 DEF Covered, JobAt
    <3>3. CASE UpToDate(f)
      BY <3>1, <3>3, <1>1, <2>3 DEF Covered, UpToDate
    <3>4. CASE version[f] = 0 /\ facts[f].gen < scan.gen
      BY <3>4, <1>1, <2>3 DEF Covered, UpToDate
    <3> QED
      BY <3>1, <3>2, <3>3, <3>4, <1>1 DEF Covered
  <2>9. FCovered'
    BY <2>8 DEF FCovered
  <2> QED
    BY <1>2, <2>2, <2>4, <2>5, <2>6, <2>7, <2>9 DEF FInv, FTypes
<1>4. CASE ~(job.gen = scan.gen /\ scanQueue = {})
  <2>1. EndRun(TRUE) /\ facts' = facts
    BY <1>4 DEF Prune
  <2>2. FLane'
    BY <2>1 DEF EndRun, FLane
  <2> QED
    BY <1>1, <1>2, <2>1, <2>2, RunIsLeft DEF FTables
<1> QED
  BY <1>3, <1>4

LEMMA MarkReadyKeeps == ASSUME FInv, MarkReady PROVE FInv'
<1> USE DEF fileVars, tableVars, laneFacts
<1>1. /\ job.at = "mark" /\ FTables /\ FJob /\ FLaneKey /\ JobRuns
      /\ UNCHANGED <<version, hooks, marked, dirty, scanQueue, facts, viewer, missed, spent>>
  BY DEF MarkReady, FInv, FTypes, JobRuns
<1>2. FSpent' /\ FViewer'
  BY <1>1 DEF FInv, FTypes, FSpent, FViewer
<1>3. CASE job.gen = scan.gen /\ scanQueue = {}
  <2>1. scan' = [scan EXCEPT !.state = "ready"] /\ EndRun(FALSE)
    BY <1>3 DEF MarkReady
  <2>2. scan' = [gen |-> scan.gen, state |-> "ready"]
    BY <1>1, <2>1 DEF FTables
  <2>3. scan'.gen = scan.gen /\ scan'.state = "ready" /\ scan'.gen \in Nat
        /\ scan' = [gen |-> scan'.gen, state |-> scan'.state]
    BY <1>1, <2>2 DEF FTables
  <2>4. job'.at = "idle" /\ ~JobRuns' /\ ~JobIsCurrent' /\ FJob' /\ FSeen' /\ FDone' /\ FLaneKey'
    BY <1>1, <2>1, <2>3, RunEnds
  <2>5. FTables'
    BY <1>1, <2>3 DEF FTables
  <2>6. FQueue' /\ FLane'
    BY <1>1, <1>3, <2>4 DEF FQueue, FLane
  <2>7. FPruned'
    BY <1>1, <1>3, <2>3 DEF FInv, FPruned
  <2>8. ASSUME NEW f \in FactFiles PROVE Covered(f)'
    <3>1. /\ Covered(f) /\ Hooked' = Hooked /\ facts[f].gen \in Nat
          /\ facts[f].version # 0 => facts[f].gen = scan.gen
      BY <1>1, <1>3 DEF FInv, FCovered, FTables, FPruned, Hooked
    <3>2. UpToDate(f) \/ f \in missed \/ f \in Hooked
      BY <3>1, <1>1, <1>3 DEF Covered, UpToDate, JobAt, FTables
    <3> QED
      BY <3>1, <3>2, <1>1, <2>3 DEF Covered, UpToDate
  <2>9. FCovered'
    BY <2>8 DEF FCovered
  <2> QED
    BY <1>2, <2>4, <2>5, <2>6, <2>7, <2>9 DEF FInv, FTypes
<1>4. CASE ~(job.gen = scan.gen /\ scanQueue = {})
  <2>1. EndRun(TRUE) /\ scan' = scan
    BY <1>4 DEF MarkReady
  <2>2. FLane'
    BY <2>1 DEF EndRun, FLane
  <2> QED
    BY <1>1, <1>2, <2>1, <2>2, RunIsLeft DEF FTables
<1> QED
  BY <1>3, <1>4

LEMMA JobFailsKeeps == ASSUME FInv, JobFails PROVE FInv'
<1> USE DEF fileVars, tableVars, laneFacts
<1>1. /\ JobRuns /\ FTables /\ Spend("faults") /\ FailScan /\ EndRun(FALSE)
      /\ missed' = IF job.at = "recheck" THEN missed \cup ({job.path} \cap dirty) ELSE missed
      /\ UNCHANGED <<version, hooks, marked, dirty, scanQueue, facts, viewer>>
  BY DEF JobFails, FInv, FTypes, JobRuns
<1>2. FSpent'
  BY <1>1, SpendKeeps DEF FInv, FTypes
<1>3. /\ scan'.gen = scan.gen /\ scan' = [gen |-> scan'.gen, state |-> scan'.state]
      /\ scan'.state \in {scan.state, "failed"} /\ FLane'
  BY <1>1, ScanFails DEF FLane
<1>4. missed \subseteq missed' /\ missed' \subseteq FactFiles
      /\ (job.at = "recheck" /\ job.path \in dirty => job.path \in missed')
  BY <1>1 DEF FTables
<1> QED
  BY <1>1, <1>2, <1>3, <1>4, RunIsLeft DEF FTables
-----------------------------------------------------------------------------
(* Viewers, the crash and the start *)

LEMMA ViewKeeps == ASSUME FInv, NEW p \in FactFiles, View(p) PROVE FInv'
<1> USE DEF fileVars, tableVars, laneFacts
<1>1. /\ version[p] # 0 /\ Spend("views")
      /\ viewer' = [at |-> "read", path |-> p, seen |-> version[p]]
      /\ UNCHANGED <<version, hooks, marked, dirty, scanQueue, scan, facts, factsWaiting, factsWorking,
                     job, missed>>
  BY DEF View
<1>2. FSpent'
  BY <1>1, SpendKeeps DEF FInv, FTypes
<1>3. FViewer'
  BY <1>1, FilesAreNotRoot DEF FInv, FTypes, FTables, FViewer
<1>4. FTables' /\ FLaneKey' /\ FJob'
  BY <1>1 DEF FInv, FTypes, FTables, FLaneKey, FJob
<1>5. FQueue' /\ FPruned' /\ FLane'
  BY <1>1 DEF FInv, FQueue, FPruned, FLane, JobRuns, JobIsCurrent
<1>6. FSeen' /\ FDone' /\ FCovered'
  BY <1>1 DEF FInv, FSeen, FDone, FCovered, Covered, JobAt, UpToDate, Hooked, Unmarked
<1> QED
  BY <1>2, <1>3, <1>4, <1>5, <1>6 DEF FInv, FTypes

LEMMA ViewReadsKeeps == ASSUME FInv, ViewReads PROVE FInv'
<1> USE DEF fileVars, tableVars, laneFacts
<1>1. /\ viewer.at = "read" /\ viewer.path \in FactFiles /\ facts \in Rows
      /\ FTables /\ FJob /\ FLaneKey /\ FViewer
      /\ UNCHANGED <<version, hooks, marked, job, missed, spent>>
  BY DEF ViewReads, FInv, FTypes, FViewer, FTables
<1> PICK p \in FactFiles : p = viewer.path
  BY <1>1
<1>2. \/ /\ viewer' = [viewer EXCEPT !.at = "publish"]
         /\ UNCHANGED <<dirty, scanQueue, scan, facts, factsWaiting, factsWorking>>
      \/ /\ version[p] = 0 /\ viewer' = NoViewer
         /\ facts' = [facts EXCEPT ![p].version = 0]
         /\ UNCHANGED <<dirty, scanQueue, scan, factsWaiting, factsWorking>>
      \/ /\ viewer' = NoViewer /\ dirty' = dirty \cup {p} /\ Requeue(p) /\ Schedule /\ facts' = facts
  BY DEF ViewReads
<1>3. FSpent' /\ FJob /\ Hooked' = Hooked /\ Unmarked' = Unmarked
  BY <1>1 DEF FInv, FTypes, FSpent, Hooked, Unmarked
<1>4. viewer' = NoViewer => FViewer'
  BY NobodyRuns, FilesAreNotRoot DEF FViewer
<1>5. CASE /\ viewer' = [viewer EXCEPT !.at = "publish"]
           /\ UNCHANGED <<dirty, scanQueue, scan, facts, factsWaiting, factsWorking>>
  <2>1. FViewer'
    <3>1. viewer' = [at |-> "publish", path |-> viewer.path, seen |-> viewer.seen]
      BY <1>1, <1>5 DEF FViewer
    <3> QED
      BY <3>1, <1>1 DEF FViewer
  <2>2. FTables' /\ FLaneKey' /\ FJob'
    BY <1>1, <1>5 DEF FTables, FLaneKey, FJob
  <2>3. FQueue' /\ FPruned' /\ FLane'
    BY <1>1, <1>5 DEF FInv, FQueue, FPruned, FLane, JobRuns, JobIsCurrent
  <2>4. FSeen' /\ FDone' /\ FCovered'
    BY <1>1, <1>3, <1>5 DEF FInv, FSeen, FDone, FCovered, Covered, JobAt, UpToDate
  <2> QED
    BY <1>3, <2>1, <2>2, <2>3, <2>4 DEF FInv, FTypes
<1>6. CASE /\ version[p] = 0 /\ viewer' = NoViewer
           /\ facts' = [facts EXCEPT ![p].version = 0]
           /\ UNCHANGED <<dirty, scanQueue, scan, factsWaiting, factsWorking>>
  <2>1. /\ facts' \in Rows /\ facts'[p].version = 0 /\ facts'[p].gen = facts[p].gen
        /\ \A f \in FactFiles : f # p => facts'[f] = facts[f]
    BY <1>1, <1>6, RowGoes
  <2>2. FTables' /\ FLaneKey' /\ FJob'
    BY <1>1, <1>6, <2>1, NobodyRuns DEF FTables, FLaneKey, FJob
  <2>3. FQueue' /\ FLane' /\ FSeen'
    BY <1>1, <1>3, <1>6 DEF FInv, FQueue, FLane, FSeen, JobRuns, JobIsCurrent, JobAt
  <2>4. FPruned'
    BY <1>1, <1>6, <2>1 DEF FInv, FPruned
  <2>5. UpToDate(p)'
    BY <1>1, <1>6, <2>1 DEF UpToDate
  <2>6. FDone'
    BY <1>1, <1>3, <1>6, <2>1, <2>5 DEF FInv, FDone, JobAt, UpToDate
  <2>7. FCovered'
    BY <1>1, <1>3, <1>6, <2>1, <2>5 DEF FInv, FCovered, Covered, JobAt, UpToDate
  <2> QED
    BY <1>3, <1>4, <1>6, <2>2, <2>3, <2>4, <2>6, <2>7 DEF FInv, FTypes
<1>7. CASE viewer' = NoViewer /\ dirty' = dirty \cup {p} /\ Requeue(p) /\ Schedule /\ facts' = facts
  <2>1. /\ scan'.gen = scan.gen /\ scan' = [gen |-> scan'.gen, state |-> scan'.state]
        /\ scan'.state \in {"updating", "ready"} /\ (scan'.state = "ready" <=> scan.state = "ready")
        /\ scanQueue' = scanQueue \cup {p} /\ scanQueue' \subseteq Paths
    BY <1>1, <1>7, Requeued, FilesAreNotRoot
  <2>2. FLaneKey' /\ factsWaiting' # {}
    BY <1>1, <1>7, Scheduled
  <2>3. FTables' /\ FJob'
    BY <1>1, <1>7, <2>1 DEF FTables, FJob
  <2>4. FQueue' /\ FPruned'
    BY <1>1, <1>7, <2>1, FilesAreNotRoot DEF FInv, FQueue, FPruned, JobRuns, JobIsCurrent
  <2>5. FLane' /\ FSeen' /\ FDone'
    BY <1>1, <1>3, <1>7, <2>1, <2>2 DEF FInv, FLane, FSeen, FDone, JobAt, UpToDate
  <2>6. FCovered'
    BY <1>1, <1>3, <1>7, <2>1 DEF FInv, FCovered, Covered, JobAt, UpToDate
  <2> QED
    BY <1>3, <1>4, <1>7, <2>2, <2>3, <2>4, <2>5, <2>6 DEF FInv, FTypes
<1> QED
  BY <1>2, <1>5, <1>6, <1>7

LEMMA ViewPublishesKeeps == ASSUME FInv, ViewPublishes PROVE FInv'
<1> USE DEF fileVars, tableVars, laneFacts
<1>1. /\ viewer.at = "publish" /\ viewer.path \in FactFiles /\ viewer.seen \in Versions
      /\ facts \in Rows /\ FTables /\ FJob /\ FLaneKey
      /\ viewer' = NoViewer
      /\ UNCHANGED <<version, hooks, marked, dirty, scanQueue, scan, factsWaiting, factsWorking, job, spent>>
  BY DEF ViewPublishes, FInv, FTypes, FViewer, FTables
<1> PICK p \in FactFiles : p = viewer.path
  BY <1>1
<1>2. /\ facts' = [facts EXCEPT ![p] = [version |-> viewer.seen, gen |-> scan.gen]]
      /\ missed' = IF viewer.seen # version[p] THEN missed \cup {p} ELSE missed
  BY DEF ViewPublishes
<1>3. viewer.seen \in Nat /\ scan.gen \in Nat /\ scan.gen \in 0..scan.gen
  BY <1>1, FactsAssumption DEF Versions, FTables
<1>4. /\ facts' \in Rows /\ facts'[p].version = viewer.seen /\ facts'[p].gen = scan.gen
      /\ \A f \in FactFiles : f # p => facts'[f] = facts[f]
  BY <1>1, <1>2, <1>3 DEF Rows
<1>5. /\ missed \subseteq missed' /\ missed' \subseteq FactFiles
      /\ viewer.seen = version[p] \/ p \in missed'
  BY <1>1, <1>2 DEF FTables
<1>6. FSpent' /\ FViewer' /\ Hooked' = Hooked /\ Unmarked' = Unmarked
  BY <1>1, NobodyRuns, FilesAreNotRoot DEF FInv, FTypes, FSpent, FViewer, Hooked, Unmarked
<1>7. FTables'
  BY <1>1, <1>3, <1>4, <1>5 DEF FTables
<1>8. FLaneKey' /\ FJob'
  BY <1>1 DEF FLaneKey, FJob
<1>9. FQueue' /\ FLane' /\ FSeen'
  BY <1>1, <1>5, <1>6 DEF FInv, FQueue, FLane, FSeen, JobRuns, JobIsCurrent, JobAt
<1>10. FPruned'
  BY <1>1, <1>4 DEF FInv, FPruned
<1>11. UpToDate(p)' \/ p \in missed'
  BY <1>1, <1>4, <1>5 DEF UpToDate
<1>12. FDone'
  BY <1>1, <1>4, <1>5, <1>6, <1>11 DEF FInv, FDone, JobAt, UpToDate
<1>13. FCovered'
  BY <1>1, <1>4, <1>5, <1>6, <1>11 DEF FInv, FCovered, Covered, JobAt, UpToDate
<1> QED
  BY <1>6, <1>7, <1>8, <1>9, <1>10, <1>12, <1>13 DEF FInv, FTypes

LEMMA FactsCrashKeeps == ASSUME FInv, FactsCrash PROVE FInv'
<1> USE DEF fileVars, tableVars, laneFacts
<1>1. /\ Spend("faults") /\ hooks' = <<>> /\ marked' = FALSE /\ dirty' = {}
      /\ job' = NoJob /\ viewer' = NoViewer /\ factsWaiting' = {"facts"} /\ factsWorking' = {}
      /\ version' = version /\ facts' = facts /\ FTables
      /\ \/ NewGeneration
         \/ /\ missed' = missed \cup Hooked \cup ((dirty \cap FactFiles) \ scanQueue)
            /\ UNCHANGED <<scan, scanQueue>>
  BY DEF FactsCrash, FInv, FTypes
<1>2. FSpent' /\ FViewer' /\ FLaneKey'
  BY <1>1, SpendKeeps, NobodyRuns, FilesAreNotRoot DEF FInv, FTypes, FViewer, FLaneKey
<1>3. hooks' \in Seq(FactFiles) /\ Hooked \subseteq FactFiles
  BY <1>1 DEF FTables, Hooked
<1>4. CASE NewGeneration
  <2>1. /\ scan'.gen \in Nat \ {0} /\ scan'.state = "updating"
        /\ scan' = [gen |-> scan'.gen, state |-> scan'.state]
        /\ scanQueue' \subseteq Paths /\ missed' \subseteq FactFiles
        /\ FJob' /\ FQueue' /\ FPruned' /\ FLane' /\ FDone' /\ FCovered'
        /\ \A f \in FactFiles : facts'[f].version \in Versions /\ facts'[f].gen \in 0..scan'.gen
    BY <1>1, <1>4, GenerationBegins
  <2>2. FTables'
    BY <1>1, <1>3, <2>1 DEF FTables
  <2>3. FSeen'
    BY <1>1, <2>1, NoRun
  <2> QED
    BY <1>2, <2>1, <2>2, <2>3 DEF FInv, FTypes
<1>5. CASE /\ missed' = missed \cup Hooked \cup ((dirty \cap FactFiles) \ scanQueue)
           /\ UNCHANGED <<scan, scanQueue>>
  <2>1. scan'.gen \in Nat
    BY <1>1, <1>5 DEF FTables
  <2>2. job'.at = "idle" /\ ~JobRuns' /\ ~JobIsCurrent' /\ FJob' /\ FSeen' /\ FDone'
    BY <1>1, <2>1, NoRun
  <2>3. FTables'
    BY <1>1, <1>3, <1>5 DEF FTables
  <2>4. FQueue' /\ FPruned' /\ FLane'
    BY <1>1, <1>5, <2>2 DEF FInv, FQueue, FPruned, FLane
  <2>5. FCovered'
    BY <1>1, <1>5 DEF FInv, FCovered, Covered, JobAt, UpToDate
  <2> QED
    BY <1>2, <2>2, <2>3, <2>4, <2>5 DEF FInv, FTypes
<1> QED
  BY <1>1, <1>4, <1>5

LEMMA FactsStart == ASSUME FactsInit PROVE FInv
<1>1. /\ version = [f \in FactFiles |-> 1] /\ hooks = <<>> /\ marked = FALSE /\ dirty = {}
      /\ scanQueue = {Root} /\ scan = [gen |-> 1, state |-> "updating"]
      /\ facts = [f \in FactFiles |-> [version |-> 0, gen |-> 0]]
      /\ factsWaiting = {"facts"} /\ factsWorking = {} /\ job = NoJob /\ viewer = NoViewer
      /\ missed = {} /\ spent = [writes |-> 0, views |-> 0, rescopes |-> 0, faults |-> 0]
  BY DEF FactsInit
<1>2. 0 \in Versions /\ 1 \in Versions
  BY FactsAssumption DEF Versions
<1>3. FTables
  <2>1. facts \in Rows /\ \A f \in FactFiles : facts[f].version = 0 /\ facts[f].gen = 0
    BY <1>1 DEF Rows
  <2>2. scan.gen = 1 /\ scan.state = "updating" /\ scan = [gen |-> scan.gen, state |-> scan.state]
    BY <1>1
  <2>3. version \in [FactFiles -> Versions]
    BY <1>1, <1>2
  <2>4. hooks \in Seq(FactFiles)
    BY <1>1
  <2>7. marked \in BOOLEAN /\ ~marked
    BY <1>1, Zenon
  <2>5. dirty \subseteq FactFiles /\ scanQueue \subseteq Paths /\ missed \subseteq FactFiles
    BY <1>1, FilesAreNotRoot
  <2>6. /\ scan.gen \in Nat \ {0} /\ scan.state \in {"updating", "ready", "failed"}
        /\ \A f \in FactFiles : facts[f].version \in Versions /\ facts[f].gen \in 0..scan.gen
    BY <1>2, <2>1, <2>2
  <2> QED
    BY <2>1, <2>2, <2>3, <2>4, <2>5, <2>6, <2>7 DEF FTables
<1>4. FLaneKey /\ FViewer
  BY <1>1, NobodyRuns, FilesAreNotRoot DEF FLaneKey, FViewer
<1>5. FJob
  BY <1>1, NobodyRuns, FilesAreNotRoot DEF FJob
<1>6. FSpent
  BY <1>1, FactsAssumption DEF FSpent
<1>7. scan.state = "updating" /\ scan.gen = 1 /\ job.at = "idle"
  BY <1>1, NobodyRuns
<1>8. FQueue /\ FPruned /\ FLane /\ FSeen /\ FDone
  BY <1>7 DEF FQueue, FPruned, FLane, FSeen, FDone, JobRuns, JobIsCurrent, JobAt
<1>9. FCovered
  BY <1>1 DEF FCovered, Covered
<1> QED
  BY <1>3, <1>4, <1>5, <1>6, <1>8, <1>9 DEF FInv, FTypes

LEMMA FactsStay == ASSUME FInv, UNCHANGED factsVars PROVE FInv'
<1>1. UNCHANGED <<version, hooks, marked, dirty, scanQueue, scan, facts, factsWaiting, factsWorking,
                  job, viewer, missed, spent>>
  BY DEF factsVars, fileVars, tableVars, laneFacts
<1>2. FTypes'
  BY <1>1 DEF FInv, FTypes, FTables, FLaneKey, FJob, FViewer, FSpent
<1>3. FQueue' /\ FPruned' /\ FLane'
  BY <1>1 DEF FInv, FQueue, FPruned, FLane, JobRuns, JobIsCurrent
<1>4. FSeen' /\ FDone' /\ FCovered'
  BY <1>1 DEF FInv, FSeen, FDone, FCovered, Covered, JobAt, UpToDate, Hooked, Unmarked
<1> QED
  BY <1>2, <1>3, <1>4 DEF FInv

LEMMA FactsStepKeeps == ASSUME FInv, [FactsNext]_factsVars PROVE FInv'
<1>1. CASE \/ HookMarks \/ HookQueues \/ Rescope \/ \E f \in FactFiles : CommitFile(f)
  BY <1>1, HookMarksKeeps, HookQueuesKeeps, RescopeKeeps, CommitFileKeeps
<1>2. CASE \/ RunStarts \/ RunOver \/ DropFacts \/ ReadFile \/ Publish \/ CompletePath
           \/ \E p \in Paths : TakePath(p)
  BY <1>2, RunStartsKeeps, RunOverKeeps, DropFactsKeeps, ReadFileKeeps, PublishKeeps,
     CompletePathKeeps, TakePathKeeps
<1>3. CASE Recheck \/ BatchEnds \/ Prune \/ MarkReady \/ RunIsBlind \/ JobFails
  BY <1>3, RecheckKeeps, BatchEndsKeeps, PruneKeeps, MarkReadyKeeps, RunIsBlindKeeps, JobFailsKeeps
<1>4. CASE ViewReads \/ ViewPublishes \/ FactsCrash \/ \E f \in FactFiles : View(f)
  BY <1>4, ViewReadsKeeps, ViewPublishesKeeps, FactsCrashKeeps, ViewKeeps
<1>5. CASE UNCHANGED factsVars
  BY <1>5, FactsStay
<1> QED
  BY <1>1, <1>2, <1>3, <1>4, <1>5 DEF FactsNext, Run
-----------------------------------------------------------------------------
(* What the invariant says *)

LEMMA FactsHaveTypes == FInv => FactsTypeOK
BY DEF FInv, FTypes, FTables, FLaneKey, FJob, FactsTypeOK, Versions, Paths

LEMMA FactsAreFresh == FInv => FactsKeepUp
<1> SUFFICES ASSUME FInv, Settled, NEW f \in FactFiles
             PROVE  facts[f].version = version[f] \/ f \in missed
  BY DEF FactsKeepUp
<1>1. /\ hooks = <<>> /\ factsWaiting = {} /\ factsWorking = {} /\ scan.state = "ready"
  BY DEF Settled
<1>2. job.at = "idle" /\ ~JobRuns
  BY <1>1 DEF FInv, FTypes, FLaneKey, JobRuns
<1>3. Hooked = {}
  BY <1>1 DEF Hooked
<1>4. Root \notin scanQueue
  BY <1>1 DEF FInv, FQueue
<1>5. f \in scanQueue => f \in missed
  BY <1>1, <1>2 DEF FInv, FLane
<1>6. Covered(f)
  BY DEF FInv, FCovered
<1> QED
  BY <1>1, <1>2, <1>3, <1>4, <1>5, <1>6 DEF Covered, UpToDate, JobAt

\* A step that takes no row leaves live files theirs.
LEMMA RowsOfLiveFiles == ASSUME FInv, [FactsNext]_factsVars PROVE LiveFilesKeepRows
<1> USE DEF fileVars, tableVars, laneFacts
<1> SUFFICES ASSUME NEW f \in FactFiles, facts[f].version # 0, facts'[f].version = 0, version[f] # 0
             PROVE  f \in Hooked \cup dirty \cup scanQueue \cup missed
  BY DEF LiveFilesKeepRows
<1>1. /\ FTables /\ FJob /\ FViewer /\ facts \in Rows /\ Unmarked \subseteq Hooked
  BY UnmarkedAreHooked DEF FInv, FTypes, FTables
<1>2. CASE DropFacts
  <2>1. job.at = "drop" /\ job.path \in FactFiles /\ job.seen = 0
        /\ facts' = [facts EXCEPT ![job.path].version = 0]
    BY <1>1, <1>2 DEF DropFacts, FJob
  <2>2. f = job.path
    BY <1>1, <2>1 DEF Rows
  <2>3. version[f] = job.seen \/ f \in Unmarked \cup dirty
    BY <2>1, <2>2 DEF FInv, FSeen, JobAt
  <2> QED
    BY <1>1, <2>1, <2>3
<1>3. CASE ReadFile
  <2>1. facts' = facts \/ (version[job.path] = 0 /\ facts' = [facts EXCEPT ![job.path].version = 0])
    BY <1>3 DEF ReadFile
  <2> QED
    BY <1>1, <2>1 DEF Rows
<1>4. CASE Publish
  <2>1. facts' # facts
    OBVIOUS
  <2>2. job.at = "publish" /\ job.path \in FactFiles
        /\ facts' = [facts EXCEPT ![job.path] = [version |-> job.seen, gen |-> job.gen]]
    BY <1>1, <1>4, <2>1 DEF Publish, FJob
  <2>3. f = job.path /\ job.seen = 0
    BY <1>1, <2>2 DEF Rows
  <2>4. version[f] = job.seen \/ f \in Unmarked \cup dirty
    BY <2>2, <2>3 DEF FInv, FSeen, JobAt
  <2> QED
    BY <1>1, <2>3, <2>4
<1>5. CASE Prune
  <2>1. facts' # facts
    OBVIOUS
  <2>2. /\ job.at = "finish" /\ job.gen = scan.gen /\ scanQueue = {}
        /\ facts' = WithoutOlder(job.gen) /\ job.gen \in Nat
    BY <1>1, <1>5, <2>1 DEF Prune, FTables
  <2>3. facts[f].gen < scan.gen /\ facts[f].gen \in Nat /\ scan.gen \in Nat
    BY <1>1, <2>2, RowsPruned DEF FTables
  <2>4. ~UpToDate(f)
    BY <2>3 DEF UpToDate
  <2>5. Covered(f)
    BY DEF FInv, FCovered
  <2> QED
    BY <2>2, <2>4, <2>5 DEF Covered, JobAt
<1>6. CASE ViewReads
  <2>1. \/ facts' = facts
        \/ version[viewer.path] = 0 /\ facts' = [facts EXCEPT ![viewer.path].version = 0]
    BY <1>6 DEF ViewReads
  <2> QED
    BY <1>1, <2>1 DEF Rows
<1>7. CASE ViewPublishes
  <2>1. /\ viewer.seen # 0 /\ viewer.path \in FactFiles
        /\ facts' = [facts EXCEPT ![viewer.path] = [version |-> viewer.seen, gen |-> scan.gen]]
    BY <1>1, <1>7 DEF ViewPublishes, FViewer
  <2> QED
    BY <1>1, <2>1 DEF Rows
<1>8. CASE facts' = facts
  BY <1>8
<1>9. \/ DropFacts \/ ReadFile \/ Publish \/ Prune \/ ViewReads \/ ViewPublishes \/ facts' = facts
  <2>1. CASE \/ HookMarks \/ HookQueues \/ Rescope \/ RunIsBlind \/ JobFails \/ FactsCrash
             \/ \E g \in FactFiles : CommitFile(g) \/ View(g)
    BY <2>1 DEF HookMarks, HookQueues, Rescope, RunIsBlind, JobFails, FactsCrash, CommitFile, View
  <2>2. CASE RunStarts \/ RunOver \/ CompletePath \/ Recheck \/ BatchEnds \/ MarkReady \/ \E p \in Paths : TakePath(p)
    BY <2>2 DEF RunStarts, RunOver, CompletePath, Recheck, BatchEnds, MarkReady, TakePath
  <2>3. CASE UNCHANGED factsVars
    BY <2>3 DEF factsVars
  <2> QED
    BY <2>1, <2>2, <2>3 DEF FactsNext, Run
<1> QED
  BY <1>2, <1>3, <1>4, <1>5, <1>6, <1>7, <1>8, <1>9

\* The index neither stays behind at rest nor loses what it has on the way,
\* whatever runs, hooks, readers and crashes come between.
THEOREM FactsStayKept == FactsSpec => FactsAreKept
<1>1. FactsInit => FInv
  BY FactsStart
<1>2. FInv /\ [FactsNext]_factsVars => FInv'
  BY FactsStepKeeps
<1>3. FInv => FactsTypeOK /\ FactsKeepUp
  BY FactsHaveTypes, FactsAreFresh
<1>4. FInv /\ [FactsNext]_factsVars => LiveFilesKeepRows
  BY RowsOfLiveFiles
<1> QED
  BY <1>1, <1>2, <1>3, <1>4, PTL DEF FactsSpec, FactsAreKept
=============================================================================
