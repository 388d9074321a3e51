----------------------- MODULE HistoryJournal_proofs -----------------------
(* What the commit journal keeps, what its readers are given and what a    *)
(* collection spares, for any number of records, days, crashes and         *)
(* collections and any retention.                                          *)
EXTENDS HistoryJournal, TLAPS, WellFoundedInduction

(* The shape of the state the argument looks at: every record in a file    *)
(* has a day.                                                              *)
IShape ==
  /\ files \in Seq(Seq(Nat)) /\ Len(files) >= 1
  /\ linked \in BOOLEAN
  /\ stamps \in Seq(Nat) /\ today \in Nat
  /\ \A k \in 1..Len(files) : \A i \in 1..Len(files[k]) : files[k][i] \in 1..Len(stamps)
  /\ maint = [at |-> maint.at, now |-> maint.now, seg |-> maint.seg, next |-> maint.next, keep |-> maint.keep]

(* A file that holds records can be listed, or has expired. *)
IListed ==
  \A k \in 1..Len(files) :
    Len(files[k]) > 0 => k \in Segments \/ (k = Len(files) /\ linked) \/ Expired(k)

(* Where the maintenance is says what is in the directory: the plain       *)
(* segment goes only after the compressed one is there, and commits.jsonl  *)
(* is missing only while its lock is held.  Its clock is not ahead.        *)
ISteps ==
  /\ maint.at = "unlink" => <<maint.seg, "zst">> \in dir
  /\ ~linked => maint.at = "create"
  /\ maint.now \in Nat /\ maint.now <= today

IInv == IShape /\ IListed /\ ISteps

-----------------------------------------------------------------------------
(* What is listed stays listed unless a step removes it. *)
LEMMA SegmentsAre ==
  \A k : k \in Segments <=> \E n \in dir : n[2] # "tmp" /\ n[1] = k
  BY DEF Segments

LEMMA SegmentsArePrimed ==
  \A k : k \in Segments' <=> \E n \in dir' : n[2] # "tmp" /\ n[1] = k
  BY DEF Segments

(* A file that has expired stays so. *)
LEMMA StaysExpired ==
  ASSUME IShape, NEW k \in 1..Len(files), Len(files[k]) > 0, Expired(k),
         files'[k][1] = files[k][1], today' \in Nat, today' >= today,
         stamps'[files[k][1]] = stamps[files[k][1]]
  PROVE  Expired(k)'
  <1>1. files[k] \in Seq(Nat) /\ 1 \in 1..Len(files[k])
    BY DEF IShape
  <1>2. files[k][1] \in 1..Len(stamps)
    BY <1>1 DEF IShape
  <1>3. stamps[files[k][1]] \in Nat
    <2>1. stamps \in Seq(Nat)
      BY DEF IShape
    <2> QED BY <1>2, <2>1
  <1>4. today \in Nat
    BY DEF IShape
  <1>5. Retention \in Nat
    BY JournalAssumption
  <1> QED BY <1>3, <1>4, <1>5 DEF Expired, ExpiredBy

(* A step that changes no file and only adds to the segments. *)
LEMMA KeepsListed ==
  ASSUME IShape, IListed, UNCHANGED <<files, linked, stamps>>,
         today' \in Nat, today' >= today, Segments \subseteq Segments'
  PROVE  IListed'
  <1> SUFFICES ASSUME NEW k \in 1..Len(files), Len(files[k]) > 0
               PROVE  k \in Segments' \/ (k = Len(files) /\ linked) \/ Expired(k)'
    BY DEF IListed
  <1>1. CASE Expired(k)
    BY <1>1, StaysExpired
  <1> QED BY <1>1 DEF IListed

(* commits.jsonl is created if it is not there. *)
LEMMA CreatedKeeps ==
  ASSUME IShape, IListed, files' = Created, linked' = TRUE,
         UNCHANGED <<dir, stamps, today>>,
         maint' = [at |-> maint'.at, now |-> maint'.now, seg |-> maint'.seg, next |-> maint'.next, keep |-> maint'.keep]
  PROVE  IShape' /\ IListed'
  <1>0. Segments' = Segments
    BY DEF Segments
  <1>1. CASE linked
    <2>1. files' = files
      BY <1>1 DEF Created
    <2>2. today' >= today
      BY DEF IShape
    <2>3. IShape'
      BY <2>1 DEF IShape
    <2>4. IListed'
      BY <1>1, <2>1, <2>2, <1>0, KeepsListed DEF IShape
    <2> QED BY <2>3, <2>4
  <1>2. CASE ~linked
    <2>1. files' = Append(files, <<>>)
      BY <1>2 DEF Created
    <2>2. /\ files' \in Seq(Seq(Nat)) /\ Len(files') = Len(files) + 1
          /\ \A k \in 1..Len(files) : files'[k] = files[k]
          /\ files'[Len(files) + 1] = <<>>
      BY <2>1 DEF IShape
    <2>3. \A k \in 1..Len(files') : k \in 1..Len(files) \/ files'[k] = <<>>
      BY <2>2 DEF IShape
    <2>4. IShape'
      <3>1. ASSUME NEW k \in 1..Len(files'), NEW i \in 1..Len(files'[k])
            PROVE  files'[k][i] \in 1..Len(stamps')
        <4>1. CASE k \in 1..Len(files)
          BY <2>2, <3>1, <4>1 DEF IShape
        <4>2. CASE files'[k] = <<>>
          BY <3>1, <4>2
        <4> QED BY <2>3, <4>1, <4>2
      <3> QED BY <2>2, <3>1 DEF IShape
    <2>5. SUFFICES ASSUME NEW k \in 1..Len(files'), Len(files'[k]) > 0
                   PROVE  k \in Segments' \/ Expired(k)'
      BY <2>4 DEF IListed
    <2>6. k \in 1..Len(files) /\ files'[k] = files[k]
      BY <2>2, <2>3, <2>5
    <2>7. CASE Expired(k)
      <3>1. today \in Nat /\ today >= today
        BY DEF IShape
      <3> QED BY <2>5, <2>6, <2>7, <3>1, StaysExpired
    <2>8. CASE ~Expired(k)
      BY <1>0, <1>2, <2>5, <2>6, <2>8 DEF IListed
    <2> QED BY <2>7, <2>8
  <1> QED BY <1>1, <1>2

(* An append goes to the newest file, which is commits.jsonl. *)
LEMMA AppendKeeps ==
  ASSUME IInv, AppendRecord
  PROVE  IInv'
  <1> USE DEF Newest
  <1>1. linked
    BY DEF IInv, ISteps, AppendRecord
  <1>2. /\ files' = [files EXCEPT ![Len(files)] = Append(@, Len(stamps) + 1)]
        /\ stamps' = Append(stamps, today)
        /\ UNCHANGED <<linked, dir, today, maint>>
    BY DEF AppendRecord
  <1>3. /\ files' \in Seq(Seq(Nat)) /\ Len(files') = Len(files)
        /\ files'[Len(files)] = Append(files[Len(files)], Len(stamps) + 1)
        /\ \A k \in 1..Len(files) : k # Len(files) => files'[k] = files[k]
    BY <1>2 DEF IInv, IShape
  <1>4. /\ stamps' \in Seq(Nat) /\ Len(stamps') = Len(stamps) + 1
        /\ \A r \in 1..Len(stamps) : stamps'[r] = stamps[r]
    BY <1>2 DEF IInv, IShape
  <1>5. ASSUME NEW k \in 1..Len(files), NEW i \in 1..Len(files'[k])
        PROVE  files'[k][i] \in 1..Len(stamps')
    <2>0. Len(stamps) \in Nat /\ \A r \in 1..Len(stamps) : r \in 1..Len(stamps')
      BY <1>4 DEF IInv, IShape
    <2>1. CASE k # Len(files)
      <3>1. files'[k] = files[k]
        BY <1>3, <2>1
      <3>2. files[k][i] \in 1..Len(stamps)
        BY <1>5, <3>1 DEF IInv, IShape
      <3> QED BY <2>0, <3>1, <3>2
    <2>2. CASE k = Len(files)
      <3>1. files[k] \in Seq(Nat)
        BY DEF IInv, IShape
      <3>2. Len(files'[k]) = Len(files[k]) + 1
        BY <1>3, <2>2, <3>1
      <3>3. CASE i \in 1..Len(files[k])
        <4>1. files'[k][i] = files[k][i]
          <5>1. files'[k] = Append(files[k], Len(stamps) + 1)
            BY <1>3, <2>2
          <5>2. Len(stamps) + 1 \in Nat
            BY <2>0
          <5> QED BY <3>1, <3>3, <5>1, <5>2
        <4>2. files[k][i] \in 1..Len(stamps)
          BY <3>3 DEF IInv, IShape
        <4> QED BY <2>0, <4>1, <4>2
      <3>4. CASE i = Len(files[k]) + 1
        BY <1>3, <1>4, <2>2, <3>1, <3>4 DEF IInv, IShape
      <3> QED BY <1>5, <3>1, <3>2, <3>3, <3>4
    <2> QED BY <2>1, <2>2
  <1>6. IShape'
    BY <1>2, <1>3, <1>4, <1>5 DEF IInv, IShape
  <1>7. IListed'
    <2> SUFFICES ASSUME NEW k \in 1..Len(files), Len(files'[k]) > 0
                 PROVE  k \in Segments' \/ (k = Len(files) /\ linked) \/ Expired(k)'
      BY <1>2, <1>3 DEF IListed
    <2>1. CASE k = Len(files)
      BY <1>1, <2>1
    <2>2. CASE k # Len(files)
      <3>1. files'[k] = files[k] /\ Len(files[k]) > 0
        BY <1>3, <2>2
      <3>2. files[k][1] \in 1..Len(stamps)
        <4>1. files[k] \in Seq(Nat)
          BY DEF IInv, IShape
        <4>2. 1 \in 1..Len(files[k])
          BY <3>1, <4>1
        <4> QED BY <4>2 DEF IInv, IShape
      <3>3. CASE Expired(k)
        <4>1. today' \in Nat /\ today' >= today
          BY <1>2 DEF IInv, IShape
        <4> QED BY <1>4, <3>1, <3>2, <3>3, <4>1, StaysExpired DEF IInv
      <3>4. CASE ~Expired(k)
        <4>1. k \in Segments
          BY <2>2, <3>1, <3>4 DEF IInv, IListed
        <4> QED BY <1>2, <4>1 DEF Segments
      <3> QED BY <3>3, <3>4
    <2> QED BY <2>1, <2>2
  <1>8. ISteps'
    BY <1>2 DEF IInv, ISteps
  <1> QED BY <1>6, <1>7, <1>8 DEF IInv

(* Maintenance: no step hides a segment but the pruning of an expired one. *)
LEMMA MaintenanceKeeps ==
  ASSUME IInv, Maintenance
  PROVE  IInv'
  <1> USE DEF Turn, RestNow, Resting, OnlyMaint, journalVars
  <1>0. today \in Nat /\ today >= today
    BY DEF IInv, IShape
  <1>1. ASSUME Maintain \/ Pending \/ Resolve
        PROVE  IInv'
    <2>1. /\ UNCHANGED <<files, linked, dir, stamps, today>>
          /\ maint'.at # "unlink" /\ linked
          /\ maint' = [at |-> maint'.at, now |-> maint'.now, seg |-> maint'.seg, next |-> maint'.next, keep |-> maint'.keep]
          /\ maint'.now = maint.now \/ maint'.now = today
      BY <1>1 DEF IInv, IShape, ISteps, Maintain, Pending, Resolve
    <2>2. Segments' = Segments
      BY <2>1 DEF Segments
    <2>3. IListed'
      BY <1>0, <2>1, <2>2, KeepsListed DEF IInv
    <2> QED BY <2>1, <2>3 DEF IInv, IShape, ISteps
  <1>2. ASSUME Detach
        PROVE  IInv'
    <2>1. /\ UNCHANGED <<files, stamps, today>>
          /\ maint' = [at |-> maint'.at, now |-> maint'.now, seg |-> maint'.seg, next |-> maint'.next, keep |-> maint'.keep]
          /\ linked
      BY <1>2 DEF IInv, IShape, ISteps, Detach
    <2>2. IShape' /\ ISteps'
      BY <1>2, <2>1 DEF IInv, IShape, ISteps, Detach
    <2>3. CASE UNCHANGED <<dir, linked>>
      <3>1. Segments' = Segments
        BY <2>3 DEF Segments
      <3> QED BY <1>0, <2>1, <2>2, <2>3, <3>1, KeepsListed DEF IInv
    <2>4. CASE dir' = dir \cup {<<Newest, "jsonl">>}
      <3>1. Segments \subseteq Segments' /\ Len(files) \in Segments'
        <4>1. Segments \subseteq Segments'
          BY <2>4, SegmentsAre, SegmentsArePrimed
        <4>2. <<Len(files), "jsonl">> \in dir'
          BY <2>4 DEF Newest
        <4>3. <<Len(files), "jsonl">>[1] = Len(files) /\ <<Len(files), "jsonl">>[2] # "tmp"
          OBVIOUS
        <4>4. Len(files) \in Segments'
          BY <4>2, <4>3, SegmentsArePrimed
        <4> QED BY <4>1, <4>4
      <3>2. SUFFICES ASSUME NEW k \in 1..Len(files), Len(files[k]) > 0
                     PROVE  k \in Segments' \/ Expired(k)'
        BY <2>1, <2>2 DEF IInv, IListed
      <3>3. CASE Expired(k)
        BY <1>0, <2>1, <3>2, <3>3, StaysExpired DEF IInv
      <3> QED BY <3>1, <3>2, <3>3 DEF IInv, IListed
    <2> QED BY <1>2, <2>3, <2>4 DEF Detach
  <1>3. ASSUME Create
        PROVE  IInv'
    <2>1. IShape' /\ IListed'
      BY <1>3, CreatedKeeps DEF IInv, IShape, Create
    <2> QED BY <1>3, <2>1 DEF IInv, IShape, ISteps, Create
  <1>4. ASSUME Pack \/ PackFails \/ Publish
        PROVE  IInv'
    <2>1. /\ UNCHANGED <<files, linked, stamps, today>> /\ linked
          /\ \A n \in dir : n[2] # "tmp" => n \in dir'
          /\ maint' = [at |-> maint'.at, now |-> maint'.now, seg |-> maint'.seg, next |-> maint'.next, keep |-> maint'.keep]
      BY <1>4 DEF IInv, IShape, ISteps, Pack, PackFails, Publish
    <2>2. Segments \subseteq Segments'
      BY <2>1, SegmentsAre, SegmentsArePrimed
    <2>3. IListed'
      BY <1>0, <2>1, <2>2, KeepsListed DEF IInv
    <2>4. /\ maint'.at = "unlink" => <<maint'.seg, "zst">> \in dir'
          /\ maint'.now = maint.now \/ maint'.now = 0
      BY <1>4 DEF IInv, IShape, Pack, PackFails, Publish
    <2> QED BY <2>1, <2>3, <2>4 DEF IInv, IShape, ISteps
  <1>5. ASSUME Unlink
        PROVE  IInv'
    <2>1. /\ UNCHANGED <<files, linked, stamps, today>> /\ linked
          /\ <<maint.seg, "zst">> \in dir /\ dir' = dir \ {<<maint.seg, "jsonl">>}
      BY <1>5 DEF IInv, IShape, ISteps, Unlink
    <2>2. Segments \subseteq Segments'
      <3> SUFFICES ASSUME NEW n \in dir, n[2] # "tmp"
                   PROVE  n[1] \in Segments'
        BY SegmentsAre
      <3>1. CASE n = <<maint.seg, "jsonl">>
        <4>1. <<maint.seg, "zst">> \in dir' /\ n[1] = maint.seg
          BY <2>1, <3>1
        <4> QED BY <4>1, SegmentsArePrimed
      <3>2. CASE n # <<maint.seg, "jsonl">>
        BY <2>1, <3>2, SegmentsArePrimed
      <3> QED BY <3>1, <3>2
    <2>3. IListed'
      BY <1>0, <1>5, <2>1, <2>2, KeepsListed DEF IInv, Unlink
    <2>4. /\ maint' = [maint EXCEPT !.at = maint.next] /\ UNCHANGED <<stamps, today>>
      BY <1>5 DEF Unlink
    <2>5. maint'.at = "unlink" => <<maint'.seg, "zst">> \in dir'
      BY <2>1, <2>4 DEF IInv, IShape
    <2> QED BY <2>1, <2>3, <2>4, <2>5 DEF IInv, IShape, ISteps
  <1>6. ASSUME Prune
        PROVE  IInv'
    <2>1. /\ UNCHANGED <<files, linked, stamps, today>> /\ linked
          /\ maint'.at # "unlink"
          /\ maint' = [at |-> maint'.at, now |-> maint'.now, seg |-> maint'.seg, next |-> maint'.next, keep |-> maint'.keep]
          /\ maint'.now = maint.now \/ maint'.now = 0
      BY <1>6 DEF IInv, IShape, ISteps, Prune
    <2>2. CASE UNCHANGED dir
      <3>1. Segments' = Segments
        BY <2>2 DEF Segments
      <3>2. IListed'
        BY <1>0, <2>1, <3>1, KeepsListed DEF IInv
      <3> QED BY <2>1, <3>2 DEF IInv, IShape, ISteps
    <2>3. CASE \E j \in Prunable : dir' = {n \in dir : n[1] # j}
      <3>1. PICK j \in Prunable : dir' = {n \in dir : n[1] # j}
        BY <2>3
      <3>2. ASSUME j \in 1..Len(files), Len(files[j]) > 0
            PROVE  Expired(j)
        <4>1. j \in Segments /\ ExpiredBy(j, maint.now)
          BY <3>1 DEF Prunable
        <4>2. files[j] \in Seq(Nat) /\ 1 \in 1..Len(files[j])
          BY <3>2 DEF IInv, IShape
        <4>3. files[j][1] \in 1..Len(stamps)
          BY <3>2, <4>2 DEF IInv, IShape
        <4>4. stamps[files[j][1]] \in Nat
          <5>1. stamps \in Seq(Nat)
            BY DEF IInv, IShape
          <5> QED BY <4>3, <5>1
        <4>5. maint.now \in Nat /\ maint.now <= today
          BY DEF IInv, ISteps
        <4> QED BY <1>0, <4>1, <4>4, <4>5, JournalAssumption DEF Expired, ExpiredBy
      <3>3. \A k \in Segments : k # j => k \in Segments'
        BY <3>1, SegmentsAre, SegmentsArePrimed
      <3>4. IListed'
        <4> SUFFICES ASSUME NEW k \in 1..Len(files), Len(files[k]) > 0
                     PROVE  k \in Segments' \/ (k = Len(files) /\ linked) \/ Expired(k)'
          BY <2>1 DEF IListed
        <4>1. CASE Expired(k)
          BY <1>0, <2>1, <4>1, StaysExpired DEF IInv
        <4>2. CASE ~Expired(k)
          BY <3>2, <3>3, <4>2 DEF IInv, IListed
        <4> QED BY <4>1, <4>2
      <3> QED BY <2>1, <3>4 DEF IInv, IShape, ISteps
    <2> QED BY <1>6, <2>2, <2>3 DEF Prune
  <1> QED BY <1>1, <1>2, <1>3, <1>4, <1>5, <1>6 DEF Maintenance

-----------------------------------------------------------------------------
(* The first state has the invariant. *)
LEMMA InitHolds == Init => IInv
  <1> SUFFICES ASSUME Init PROVE IInv
    OBVIOUS
  <1>1. /\ files = <<<<>>>> /\ linked = TRUE /\ stamps = <<>> /\ today = 1
        /\ maint = Resting
    BY DEF Init
  <1>2. files \in Seq(Seq(Nat)) /\ Len(files) = 1 /\ Len(files[1]) = 0
    BY <1>1
  <1>3. IShape
    BY <1>1, <1>2 DEF IShape, Resting
  <1>4. IListed
    BY <1>2 DEF IListed
  <1> QED BY <1>1, <1>3, <1>4 DEF IInv, ISteps, Resting

(* Every step keeps it. *)
LEMMA StepKeeps == IInv /\ [Next]_vars => IInv'
  <1> SUFFICES ASSUME IInv, [Next]_vars PROVE IInv'
    OBVIOUS
  <1>0. today \in Nat /\ today >= today
    BY DEF IInv, IShape
  <1>1. CASE AppendRecord
    BY <1>1, AppendKeeps
  <1>2. CASE Maintenance
    BY <1>2, MaintenanceKeeps
  <1>3. CASE Tomorrow
    <2>1. UNCHANGED <<files, linked, dir, stamps, maint>> /\ today' = today + 1
      BY <1>3 DEF Tomorrow, journalVars
    <2>2. Segments' = Segments
      BY <2>1 DEF Segments
    <2>3. today' \in Nat /\ today' >= today
      BY <1>0, <2>1
    <2>4. IListed'
      BY <2>1, <2>2, <2>3, KeepsListed DEF IInv
    <2> QED BY <2>1, <2>3, <2>4 DEF IInv, IShape, ISteps
  <1>4. CASE UNCHANGED <<journalVars, stamps, today, maint>>
    <2>1. UNCHANGED <<files, linked, dir, stamps, today, maint>>
      BY <1>4 DEF journalVars
    <2>2. Segments' = Segments
      BY <2>1 DEF Segments
    <2>3. IListed'
      BY <1>0, <2>1, <2>2, KeepsListed DEF IInv
    <2> QED BY <2>1, <2>3 DEF IInv, IShape, ISteps
  <1>5. ASSUME NEW c \in Readers, CursorStep(c)
        PROVE  UNCHANGED <<journalVars, stamps, today, maint>>
    BY <1>5 DEF CursorStep, GoOn, Refind, Read, ReadFails, Advance, List, Open, OnlyReader
  <1>6. CASE Sweep \/ CollectFails
    BY <1>4, <1>6 DEF Sweep, CollectFails, OnlyGC, journalVars
  <1>7. CASE CollectBegins
    <2>1. files' = Created /\ linked' = TRUE /\ UNCHANGED <<dir, stamps, today, maint>>
      BY <1>7 DEF CollectBegins, OnlyGC
    <2>2. IShape' /\ IListed'
      BY <2>1, CreatedKeeps DEF IInv, IShape
    <2> QED BY <2>1, <2>2 DEF IInv, ISteps
  <1>8. CASE Crash
    <2>1. /\ files' = Created /\ linked' = TRUE /\ UNCHANGED <<dir, stamps, today>>
          /\ maint' = Resting
      BY <1>8 DEF Crash
    <2>2. IShape' /\ IListed'
      BY <2>1, CreatedKeeps DEF IInv, Resting
    <2>3. ISteps'
      BY <1>0, <2>1 DEF ISteps, Resting
    <2> QED BY <2>2, <2>3 DEF IInv
  <1>9. CASE UNCHANGED vars
    BY <1>4, <1>9 DEF vars
  <1> QED BY <1>1, <1>2, <1>3, <1>4, <1>5, <1>6, <1>7, <1>8, <1>9 DEF Next

(* It says that the records are listed or expired. *)
LEMMA InvIsEnough == IInv => RecordsSurvive
  <1> SUFFICES ASSUME IInv, NEW k \in 1..Newest, ~Expired(k)
               PROVE  Records(k) \subseteq Retained
    BY DEF RecordsSurvive
  <1>1. CASE Len(files[k]) > 0
    <2>1. k \in Segments \/ (k = Newest /\ linked)
      BY <1>1 DEF IInv, IListed, Newest
    <2> QED BY <2>1 DEF Retained
  <1>2. CASE ~(Len(files[k]) > 0)
    <2>1. files[k] \in Seq(Nat)
      BY DEF IInv, IShape, Newest
    <2>2. Records(k) = {}
      BY <1>2, <2>1 DEF Records
    <2> QED BY <2>2
  <1> QED BY <1>1, <1>2

(* Sealing, compressing, pruning, collecting and crashing lose no record   *)
(* before it has expired.                                                  *)
THEOREM RecordsAreKept == Spec => []RecordsSurvive
  <1> QED BY InitHolds, StepKeeps, InvIsEnough, PTL DEF Spec

-----------------------------------------------------------------------------
(* The readers.  Their argument is about numbers of files and of records:  *)
(* the segments are the numbers from some m up to Top, a record's number   *)
(* grows along the files, and a cursor's file, once open, only grows.      *)

Top == IF linked THEN Newest - 1 ELSE Newest
Kept(k) == k \in Segments \/ (k = Newest /\ linked)
Past(r, k) == \A s \in Records(k) : r > s
Stages == {"pending", "detach", "create", "pack", "publish", "unlink", "resolve"}

(* Every record is in a file, in order; only the newest file may be empty. *)
KFiles ==
  /\ \A k \in 1..Newest : \A i \in 1..Len(files[k]) : k <= files[k][i] /\ i <= files[k][i]
  /\ \A k \in 1..Newest : \A i, h \in 1..Len(files[k]) : i < h => files[k][i] < files[k][h]
  /\ \A k, j \in 1..Newest : k < j => \A r \in Records(k), s \in Records(j) : r < s
  /\ \A r \in 1..Len(stamps) : \E k \in 1..Newest : r \in Records(k)
  /\ \A k \in 1..Top : files[k] # <<>>
  /\ Len(stamps) <= MaxRecords

(* The days of the records, which decide what expires first. *)
KDays ==
  /\ today \in 1..MaxDay
  /\ \A r \in 1..Len(stamps) : stamps[r] \in 1..today
  /\ \A r, s \in 1..Len(stamps) : r <= s => stamps[r] <= stamps[s]

(* The directory, and what maintenance is doing to it. *)
KDir ==
  /\ dir \subseteq (1..Newest) \X {"jsonl", "zst", "tmp"}
  /\ \E m \in 1..(Top + 1) : Segments = m..Top
  /\ maint.at \in Stages \cup {"idle", "prune"}
  /\ maint.at \in {"create", "pack", "publish", "unlink"} =>
       maint.seg \in Segments /\ maint.next \in {"pending", "resolve"}
  /\ due \in BOOLEAN

Counts ==
  /\ blobs \subseteq 1..Len(stamps) /\ collects \in 0..MaxCollects /\ crashes \in 0..MaxCrashes
  /\ cursor = [c \in Readers |-> cursor[c]] /\ read = [c \in Readers |-> read[c]]
  /\ disturbed \subseteq Readers /\ \A c \in Readers : read[c] \subseteq 1..Len(stamps)

(* A cursor's position is in the open file, or in the file it will open. *)
Valid(c) == cursor[c].at # "list" /\ cursor[c].fd # 0
Placed(c, k) ==
  cursor[c].off <= Len(files[k]) /\ (cursor[c].off > 0 => cursor[c].last = files[k][cursor[c].off])
Finished(c) == cursor[c].off = Len(files[cursor[c].fd])

KShape(c) ==
  /\ cursor[c] = [at |-> cursor[c].at, seg |-> cursor[c].seg, off |-> cursor[c].off,
                  last |-> cursor[c].last, tail |-> cursor[c].tail, fd |-> cursor[c].fd,
                  name |-> cursor[c].name, phase |-> cursor[c].phase, got |-> cursor[c].got]
  /\ cursor[c].at \in {"idle", "again", "read", "advance", "list", "open"}
  /\ cursor[c].seg \in (0..Top) \cup {Active}
  /\ cursor[c].fd \in 0..Newest /\ cursor[c].off \in Nat /\ cursor[c].last \in 0..Len(stamps)
  /\ cursor[c].tail[1] \in 0..Top
  /\ cursor[c].at = "read" => cursor[c].phase \in {"next", "locked"}
  /\ cursor[c].at = "read" /\ cursor[c].phase = "locked" => cursor[c].fd # 0
  /\ cursor[c].at \in {"again", "advance"} => cursor[c].fd # 0
  /\ cursor[c].at = "advance" => Sealed(c)
  /\ cursor[c].at = "open" =>
       /\ cursor[c].fd = 0 /\ cursor[c].name[2] # "tmp"
       /\ cursor[c].name[1] = IF Sealed(c) THEN cursor[c].seg ELSE Active
  /\ c = "analytics" => cursor[c].phase \in {"ready", "next", "locked", "reopen"}

KPlace(c) ==
  /\ Sealed(c) => Placed(c, cursor[c].seg) /\ (Valid(c) => cursor[c].fd = cursor[c].seg)
  /\ ~Sealed(c) /\ Valid(c) =>
       /\ Placed(c, cursor[c].fd) /\ cursor[c].tail[1] < cursor[c].fd
       /\ \A j \in 1..Newest : cursor[c].last \in Records(j) => j <= cursor[c].fd
  /\ ~Sealed(c) /\ ~Valid(c) => cursor[c].off = 0 /\ (cursor[c].seg = 0 => cursor[c].last = 0)
  /\ cursor[c].seg = Active => cursor[c].last # 0
  /\ cursor[c].at = "advance" \/ (cursor[c].at = "again" /\ (Sealed(c) \/ c = "gc")) => Finished(c)

(* What the pipeline's cursor still needs is there, and the position       *)
(* maintenance goes by is not ahead of it.                                 *)
Done(k) ==
  IF Sealed("analytics") THEN k < cursor["analytics"].seg ELSE Past(cursor["analytics"].last, k)
Behind(s) == \A k \in Segments : k < s => Done(k)
BehindRecord(r) == \A k \in Segments : Past(r, k) => Done(k)
Found(r) == \A j \in 1..Newest : r \in Records(j) => Kept(j)

KNeeds ==
  /\ CursorSpared
  /\ ~Sealed("analytics") =>
       Found(cursor["analytics"].last) /\ (Valid("analytics") => Kept(cursor["analytics"].fd))

KKeep ==
  /\ maint.at \in Stages =>
       /\ maint.keep.seg \in (0..Top) \cup {Active} /\ maint.keep.last \in 0..Len(stamps)
       /\ IF maint.keep.seg \in 1..Top THEN Behind(maint.keep.seg)
          ELSE /\ BehindRecord(maint.keep.last) /\ Found(maint.keep.last)
               /\ maint.keep.seg = Active => maint.keep.last # 0
  /\ maint.at = "prune" => maint.keep.seg \in Nat
  /\ maint.at = "prune" /\ Retention > 0 /\ maint.keep.seg # 0 => Behind(maint.keep.seg)

(* A reader the journal was not changed under has had what is before it. *)
Had(c, k) == Records(k) \subseteq read[c]
KHad(c) ==
  c \notin disturbed =>
    /\ \A r \in Retained : r <= cursor[c].last => r \in read[c]
    /\ Sealed(c) => cursor[c].seg \in Segments
    /\ \A k \in Segments :
         \/ Had(c, k)
         \/ Sealed(c) /\ k >= cursor[c].seg
         \/ ~Sealed(c) /\ Valid(c) /\ k >= cursor[c].fd
         \/ ~Sealed(c) /\ ~Valid(c) /\ cursor[c].at = "idle" /\ k > cursor[c].tail[1]
         \/ cursor[c].at = "list" /\ cursor[c].seg = 0
    /\ cursor[c].at = "read" /\ cursor[c].phase = "locked" /\ ~Sealed(c) =>
         cursor[c].fd = Newest /\ linked

(* The collection, during which nothing is appended. *)
OnTheWay ==
  \/ cursor["gc"].at = "idle" /\ cursor["gc"].got \in {"opened", "record"}
  \/ cursor["gc"].at = "again"
  \/ cursor["gc"].at = "read" /\ cursor["gc"].phase = "next"

KGc ==
  /\ ~Collecting => cursor["gc"] = Off
  /\ cursor["gc"].phase = "opening" => cursor["gc"].last = 0
  /\ Collecting /\ ~Sealed("gc") /\ Valid("gc") =>
       \A j \in 1..Newest : j > cursor["gc"].fd => files[j] = <<>>
  /\ Collecting /\ ~Sealed("gc") /\ OnTheWay =>
       Valid("gc") /\ (cursor["gc"].off > 0 \/ cursor["gc"].last = 0)
  /\ Collecting /\ cursor["gc"].at = "idle" /\ cursor["gc"].got = "end" /\ "gc" \notin disturbed =>
       Retained \subseteq read["gc"]

KReader(c) == KShape(c) /\ KPlace(c) /\ KHad(c)
KFirm == KFiles /\ KDays /\ KDir /\ Counts
KReaders == \A c \in Readers : KReader(c)
KInv == KFirm /\ KReaders /\ KNeeds /\ KKeep /\ KGc

-----------------------------------------------------------------------------
(* Numbers, files and the directory                                        *)

(* A set of numbers has a least one. *)
LEMMA LeastNatural ==
  ASSUME NEW S, S \subseteq Nat, S # {}
  PROVE  Min(S) \in S /\ \A y \in S : Min(S) <= y
  <1> DEFINE R == OpToRel(<, Nat)
  <1>1. IsWellFoundedOn(R, Nat)
    BY NatLessThanWellFounded
  <1>2. \A x, y \in Nat : x < y => <<x, y>> \in R
    BY DEF OpToRel
  <1> HIDE DEF R
  <1>3. PICK x \in S : \A y \in S : ~(<<y, x>> \in R)
    BY <1>1, WFMin, Zenon
  <1>4. \A y \in S : ~(y < x)
    BY <1>2, <1>3
  <1>5. \A y \in S : x <= y
    BY <1>3, <1>4
  <1> QED BY <1>3, <1>5 DEF Min

(* What the numbering gives. *)
LEMMA Numbers ==
  ASSUME IInv, KFiles
  PROVE  /\ Newest \in Nat /\ Newest >= 1 /\ Top \in Nat /\ Top <= Newest /\ Newest <= Top + 1
         /\ linked => Top = Newest - 1
         /\ ~linked => Top = Newest
         /\ Len(stamps) \in 0..MaxRecords /\ MaxRecords \in Nat
         /\ Active = MaxRecords + 2 /\ Newest < Active
  <1>1. Newest \in Nat /\ Newest >= 1 /\ Newest = Len(files) /\ Len(stamps) \in Nat
    BY DEF IInv, IShape, Newest
  <1>2. linked \in BOOLEAN
    BY DEF IInv, IShape
  <1>3. /\ Top \in Nat /\ Top <= Newest /\ Newest <= Top + 1
        /\ linked => Top = Newest - 1
        /\ ~linked => Top = Newest
    BY <1>1, <1>2 DEF Top
  <1>4. MaxRecords \in Nat
    BY JournalAssumption
  <1>5. Len(stamps) <= MaxRecords
    BY DEF KFiles
  <1>6. Newest <= MaxRecords + 1
    <2>1. CASE Newest = 1
      BY <1>4, <2>1
    <2>2. CASE Newest # 1
      <3>0. PICK k \in 1..Newest : k = Newest - 1
        BY <1>1, <2>2
      <3>1. k \in 1..Newest /\ k \in 1..Top
        BY <1>1, <1>3, <2>2, <3>0
      <3>2. files[k] \in Seq(Nat) /\ files[k] # <<>>
        BY <1>1, <3>1 DEF IInv, IShape, KFiles
      <3>3. 1 \in 1..Len(files[k])
        BY <3>2
      <3>4. k <= files[k][1]
        BY <3>1, <3>3 DEF KFiles
      <3>5. files[k][1] \in 1..Len(stamps)
        BY <1>1, <3>1, <3>3 DEF IInv, IShape
      <3> QED BY <1>1, <1>4, <1>5, <3>0, <3>4, <3>5
    <2> QED BY <2>1, <2>2
  <1> QED BY <1>1, <1>3, <1>4, <1>5, <1>6 DEF Active

NumberFacts ==
  /\ Newest \in Nat /\ Newest >= 1 /\ Top \in Nat /\ Top <= Newest /\ Newest <= Top + 1
  /\ linked => Top = Newest - 1
  /\ ~linked => Top = Newest
  /\ Len(stamps) \in 0..MaxRecords /\ Newest < Active

(* The same as facts that can be primed. *)
LEMMA NumbersHold == IInv /\ KFiles => NumberFacts
  BY Numbers DEF NumberFacts
LEMMA NumbersNext == IInv' /\ KFiles' => NumberFacts'
  BY NumbersHold, PTL

(* What a file holds. *)
LEMMA Contents ==
  ASSUME IInv, KFiles, NEW k \in 1..Newest
  PROVE  /\ files[k] \in Seq(Nat) /\ Len(files[k]) \in Nat /\ Len(files[k]) <= MaxRecords
         /\ \A i \in 1..Len(files[k]) : files[k][i] \in Records(k)
         /\ \A r \in Records(k) : \E i \in 1..Len(files[k]) : r = files[k][i]
         /\ Records(k) \subseteq 1..Len(stamps)
         /\ k \in 1..Top => Records(k) # {} /\ Len(files[k]) > 0
         /\ Records(k) = {} => files[k] = <<>>
  <1>1. files[k] \in Seq(Nat)
    BY DEF IInv, IShape, Newest
  <1>2. \A i \in 1..Len(files[k]) : files[k][i] \in 1..Len(stamps) /\ i <= files[k][i]
    BY DEF IInv, IShape, KFiles, Newest
  <1>3. Len(files[k]) \in Nat
    BY <1>1
  <1>4. Len(files[k]) <= MaxRecords
    <2>1. CASE Len(files[k]) = 0
      BY <2>1, Numbers
    <2>2. CASE Len(files[k]) # 0
      <3>1. Len(files[k]) \in 1..Len(files[k])
        BY <1>3, <2>2
      <3>2. Len(files[k]) <= files[k][Len(files[k])] /\ files[k][Len(files[k])] \in 1..Len(stamps)
        BY <1>2, <3>1
      <3> QED BY <1>3, <3>2, Numbers
    <2> QED BY <2>1, <2>2
  <1>5. /\ \A i \in 1..Len(files[k]) : files[k][i] \in Records(k)
        /\ \A r \in Records(k) : \E i \in 1..Len(files[k]) : r = files[k][i]
    BY DEF Records
  <1>6. Records(k) \subseteq 1..Len(stamps)
    BY <1>2, <1>5
  <1>7. files[k] # <<>> => Records(k) # {} /\ Len(files[k]) > 0
    <2> SUFFICES ASSUME files[k] # <<>>
                 PROVE  Records(k) # {} /\ Len(files[k]) > 0
      OBVIOUS
    <2>1. 1 \in 1..Len(files[k]) /\ Len(files[k]) > 0
      BY <1>1
    <2> QED BY <1>5, <2>1
  <1>8. k \in 1..Top => files[k] # <<>>
    BY DEF KFiles
  <1> QED BY <1>1, <1>3, <1>4, <1>5, <1>6, <1>7, <1>8

ContentFacts ==
  \A k \in 1..Newest : /\ files[k] \in Seq(Nat) /\ Len(files[k]) \in Nat
                       /\ Records(k) \subseteq 1..Len(stamps)
                       /\ k \in 1..Top => Records(k) # {}

(* The same as facts that can be primed. *)
LEMMA ContentsHold == IInv /\ KFiles => ContentFacts
  BY Contents DEF ContentFacts
LEMMA ContentsNext == IInv' /\ KFiles' => ContentFacts'
  BY ContentsHold, PTL

(* The directory as readers see it. *)
LEMMA Listing ==
  ASSUME IInv, KFiles, KDir
  PROVE  /\ Segments \subseteq 1..Top
         /\ \A k \in Segments : k \in 1..Newest /\ k \in Nat
         /\ \A k \in Segments : \A j \in 1..Top : k <= j => j \in Segments
         /\ Segments # {} => /\ Top \in Segments /\ Max(Segments) = Top
                             /\ Min(Segments) \in Segments
                             /\ \A k \in Segments : Min(Segments) <= k
         /\ NewestTail[1] = IF Segments = {} THEN 0 ELSE Top
         /\ \A k \in Segments : Top <= k => k = Top
  <1>1. PICK m \in 1..(Top + 1) : Segments = m..Top
    BY DEF KDir
  <1>2. Top \in Nat /\ Newest \in Nat /\ Top <= Newest
    BY Numbers
  <1>3. /\ Segments \subseteq 1..Top
        /\ \A k \in Segments : k \in 1..Newest /\ k \in Nat
        /\ \A k \in Segments : \A j \in 1..Top : k <= j => j \in Segments
        /\ \A k \in Segments : Top <= k => k = Top
    BY <1>1, <1>2
  <1>4. ASSUME Segments # {}
        PROVE  /\ Top \in Segments /\ Max(Segments) = Top
               /\ Min(Segments) \in Segments
               /\ \A k \in Segments : Min(Segments) <= k
    <2>1. m <= Top /\ Top \in m..Top /\ m \in m..Top
      BY <1>1, <1>2, <1>4
    <2>2. \A y \in m..Top : Top >= y /\ m <= y
      BY <1>2
    <2>3. Max(m..Top) = Top
      <3>1. Max(m..Top) \in m..Top /\ \A y \in m..Top : Max(m..Top) >= y
        BY <2>1, <2>2 DEF Max
      <3> QED BY <1>2, <2>1, <3>1
    <2>4. Min(m..Top) \in m..Top /\ \A y \in m..Top : Min(m..Top) <= y
      BY <2>1, <2>2 DEF Min
    <2> QED BY <1>1, <2>1, <2>3, <2>4
  <1>5. NewestTail[1] = IF Segments = {} THEN 0 ELSE Top
    BY <1>4 DEF NewestTail, NoTail, Named
  <1> QED BY <1>3, <1>4, <1>5

(* advance: the next segment, or commits.jsonl after the newest one. *)
LEMMA NextFile ==
  ASSUME IInv, KFiles, KDir, NEW k \in Segments,
         NEW n, n = Min({s \in Segments \cup {Active} : s > k})
  PROVE  \/ k = Top /\ n = Active
         \/ k < Top /\ n = k + 1 /\ n \in Segments /\ n \in 1..Top
  <1> DEFINE S == {s \in Segments \cup {Active} : s > k}
  <1>1. /\ Top \in Nat /\ Newest \in Nat /\ Top <= Newest /\ Newest < Active /\ Active \in Nat
    BY Numbers
  <1>2. k \in 1..Top
    BY Listing
  <1>3. \A s \in S : s \in Nat /\ s > k /\ (s \in Segments \/ s = Active)
    BY <1>1, Listing
  <1>n. n = Min(S)
    OBVIOUS
  <1>a. Active \in S
    BY <1>1, <1>2
  <1>b. \A s \in Segments : s > k => s \in S
    OBVIOUS
  <1> HIDE DEF S
  <1>4. CASE k = Top
    <2>0. \A s \in Segments : ~(s > Top)
      BY <1>1, Listing
    <2>1. S = {Active}
      BY <1>3, <1>4, <1>a, <2>0
    <2>2. Min({Active}) = Active
      BY <1>1 DEF Min
    <2> QED BY <1>4, <1>n, <2>1, <2>2
  <1>5. CASE k # Top
    <2>1. k < Top /\ k + 1 \in 1..Top
      BY <1>1, <1>2, <1>5
    <2>2. k + 1 \in Segments
      BY <1>2, <2>1, Listing
    <2>3. k + 1 \in S /\ \A s \in S : k + 1 <= s
      BY <1>2, <1>3, <1>b, <2>1, <2>2
    <2>4. Min(S) \in S /\ \A s \in S : Min(S) <= s
      BY <2>3 DEF Min
    <2>5. Min(S) = k + 1
      BY <1>1, <1>2, <1>3, <2>3, <2>4
    <2> QED BY <1>n, <2>1, <2>2, <2>5
  <1> QED BY <1>4, <1>5

(* A record is in one file, and its file's later records come after it. *)
LEMMA OneFile ==
  ASSUME IInv, KFiles, NEW k \in 1..Newest, NEW j \in 1..Newest, NEW r \in Records(k)
  PROVE  /\ r \in Records(j) => j = k
         /\ \A s \in Records(j) : r < s => k <= j
         /\ \A s \in Records(j) : r <= s => k <= j
  <1>1. k \in Nat /\ j \in Nat
    BY Numbers
  <1>2. \A s \in Records(j) : s \in Nat
    BY Contents
  <1>3. r \in Nat
    BY Contents
  <1>4. \A s \in Records(j) : j < k => s < r
    BY DEF KFiles
  <1>5. \A s \in Records(j) : k < j => r < s
    BY DEF KFiles
  <1> QED BY <1>1, <1>2, <1>3, <1>4, <1>5

(* The record at an offset, and those up to it. *)
LEMMA UpTo ==
  ASSUME IInv, KFiles, NEW k \in 1..Newest, NEW i \in 1..Len(files[k])
  PROVE  /\ files[k][i] \in Records(k) /\ files[k][i] \in Nat
         /\ i = Len(files[k]) => \A r \in Records(k) : r <= files[k][i]
         /\ i > 1 => \A r \in Records(k) : r <= files[k][i] => r = files[k][i] \/ r <= files[k][i - 1]
         /\ i = 1 => \A r \in Records(k) : r <= files[k][i] => r = files[k][i]
         /\ i > 1 => files[k][i - 1] < files[k][i]
  <1> DEFINE f == files[k]
  <1>1. f \in Seq(Nat) /\ Len(f) \in Nat
    BY Contents
  <1>2. \A a, b \in 1..Len(f) : a < b => f[a] < f[b]
    BY DEF KFiles
  <1>3. \A r \in Records(k) : \E a \in 1..Len(f) : r = f[a]
    BY Contents
  <1>4. \A a \in 1..Len(f) : f[a] \in Nat
    BY <1>1
  <1>5. f[i] \in Records(k) /\ f[i] \in Nat
    BY Contents, <1>4
  <1>0. i \in 1..Len(f)
    OBVIOUS
  <1> HIDE DEF f
  <1>6. i = Len(f) => \A a \in 1..Len(f) : f[a] <= f[i]
    BY <1>0, <1>1, <1>2, <1>4
  <1>7. i > 1 => \A a \in 1..Len(f) : f[a] <= f[i] => a = i \/ f[a] <= f[i - 1]
    <2> SUFFICES ASSUME i > 1, NEW a \in 1..Len(f), f[a] <= f[i], a # i
                 PROVE  f[a] <= f[i - 1]
      OBVIOUS
    <2>1. a < i
      BY <1>0, <1>1, <1>2, <1>4
    <2>2. a = i - 1 \/ (a < i - 1 /\ i - 1 \in 1..Len(f))
      BY <1>0, <1>1, <2>1
    <2>3. CASE a = i - 1
      BY <1>4, <2>3
    <2>4. CASE a < i - 1 /\ i - 1 \in 1..Len(f)
      BY <1>2, <1>4, <2>4
    <2> QED BY <2>2, <2>3, <2>4
  <1>8. i = 1 => \A a \in 1..Len(f) : f[a] <= f[i] => a = i
    BY <1>0, <1>1, <1>2, <1>4
  <1>9. i > 1 => f[i - 1] < f[i]
    <2>1. i > 1 => i - 1 \in 1..Len(f) /\ i - 1 < i
      BY <1>0, <1>1
    <2> QED BY <1>0, <1>1, <1>2, <2>1
  <1> QED BY <1>3, <1>5, <1>6, <1>7, <1>8, <1>9 DEF f

(* A record past all of a file is in a later one. *)
LEMMA PastIsLater ==
  ASSUME IInv, KFiles, NEW k \in 1..Newest, Records(k) # {}
  PROVE  /\ \A j \in 1..Newest : \A r \in Records(j) : Past(r, k) <=> k < j
         /\ ~Past(0, k)
  <1>1. k \in Nat /\ Newest \in Nat /\ Len(stamps) \in Nat
    BY Numbers
  <1>2. PICK s \in Records(k) : TRUE
    OBVIOUS
  <1>3. s \in 1..Len(stamps)
    BY <1>2, Contents
  <1>4. ASSUME NEW j \in 1..Newest, NEW r \in Records(j)
        PROVE  Past(r, k) <=> k < j
    <2>1. r \in Nat /\ j \in Nat
      BY <1>4, Contents
    <2>2. k < j => Past(r, k)
      <3>1. k < j => \A t \in Records(k) : t < r
        BY <1>4 DEF KFiles
      <3>2. \A t \in Records(k) : t \in Nat
        BY Contents
      <3> QED BY <2>1, <3>1, <3>2 DEF Past
    <2>3. Past(r, k) => s < r
      BY <1>2, <1>3, <2>1 DEF Past
    <2>4. Past(r, k) => k <= j
      BY <1>2, <1>4, <2>3, OneFile
    <2>5. k = j => ~Past(r, k)
      BY <1>4, <2>1 DEF Past
    <2> QED BY <1>1, <2>1, <2>2, <2>4, <2>5
  <1>5. ~Past(0, k)
    BY <1>2, <1>3 DEF Past
  <1> QED BY <1>4, <1>5

-----------------------------------------------------------------------------
(* What a step does to the files                                           *)

(* The files only grow: what a cursor knows about one stays true. *)
Grows ==
  /\ Newest' >= Newest /\ Top' >= Top /\ Len(stamps') >= Len(stamps)
  /\ \A k \in 1..Newest :
       /\ Len(files'[k]) >= Len(files[k])
       /\ \A i \in 1..Len(files[k]) : files'[k][i] = files[k][i]
  /\ \A k \in 1..Top : files'[k] = files[k]
  /\ \A j \in 1..Newest' : \A r \in Records(j)' :
       r <= Len(stamps) => j \in 1..Newest /\ r \in Records(j)
  /\ Collecting => /\ \A k \in 1..Newest : files'[k] = files[k]
                   /\ \A j \in 1..Newest' : j > Newest => files'[j] = <<>>

(* Nothing happens to the files. *)
LEMMA SameGrows ==
  ASSUME IInv, KFiles, UNCHANGED <<files, stamps>>,
         linked' = linked \/ (linked /\ linked' = FALSE /\ files[Newest] # <<>>)
  PROVE  /\ KFiles' /\ Grows /\ Newest' = Newest
         /\ \A k \in 1..Newest : Records(k)' = Records(k)
  <1>1. Newest' = Newest /\ (\A k \in 1..Newest : Records(k)' = Records(k))
    BY DEF Newest, Records
  <1>2. /\ Newest \in Nat /\ Newest >= 1 /\ Top \in Nat /\ Len(stamps) \in Nat
        /\ \A k \in 1..Newest : Len(files[k]) \in Nat
    BY Numbers, Contents
  <1>3. /\ Top' >= Top
        /\ \A k \in 1..Top' : k \in 1..Top \/ (k = Newest /\ files[Newest] # <<>>)
    BY <1>1, <1>2 DEF IInv, IShape, Top
  <1>4. \A k \in 1..Top' : files'[k] # <<>>
    <2>1. \A k \in 1..Top : files[k] # <<>>
      BY DEF KFiles
    <2> QED BY <1>3, <2>1
  <1>5. KFiles'
    <2>1. /\ \A k \in 1..Newest' : \A i \in 1..Len(files'[k]) : k <= files'[k][i] /\ i <= files'[k][i]
          /\ \A k \in 1..Newest' : \A i, h \in 1..Len(files'[k]) : i < h => files'[k][i] < files'[k][h]
          /\ Len(stamps') <= MaxRecords
      BY <1>1 DEF KFiles
    <2>2. \A k, j \in 1..Newest' : k < j => \A r \in Records(k)', s \in Records(j)' : r < s
      BY <1>1 DEF KFiles
    <2>3. \A r \in 1..Len(stamps') : \E k \in 1..Newest' : r \in Records(k)'
      BY <1>1 DEF KFiles
    <2> QED BY <1>4, <2>1, <2>2, <2>3 DEF KFiles
  <1>6. Grows
    <2>1. \A j \in 1..Newest' : ~(j > Newest)
      BY <1>1, <1>2
    <2>2. \A j \in 1..Newest' : \A r \in Records(j)' : j \in 1..Newest /\ r \in Records(j)
      BY <1>1
    <2>3. \A k \in 1..Newest : Len(files'[k]) >= Len(files[k])
      BY <1>2
    <2>4. Newest' >= Newest /\ Len(stamps') >= Len(stamps)
      BY <1>1, <1>2
    <2> QED BY <1>3, <2>1, <2>2, <2>3, <2>4 DEF Grows
  <1> QED BY <1>1, <1>5, <1>6

(* A new commits.jsonl. *)
LEMMA CreatedGrows ==
  ASSUME IInv, KFiles, files' = Created, linked' = TRUE, UNCHANGED stamps
  PROVE  /\ KFiles' /\ Grows /\ Top' = Top
         /\ \A k \in 1..Newest : Records(k)' = Records(k)
         /\ Records(Newest)' = IF linked THEN Records(Newest) ELSE {}
  <1>2. /\ Newest \in Nat /\ Newest >= 1 /\ Top \in Nat /\ Len(stamps) \in Nat
        /\ \A k \in 1..Newest : Len(files[k]) \in Nat
    BY Numbers, Contents
  <1>a. Newest = Len(files) /\ Newest' = Len(files')
    BY DEF Newest
  <1>1. CASE linked
    <2>1. files' = files /\ linked' = linked
      BY <1>1 DEF Created
    <2>2. /\ KFiles' /\ Grows /\ Newest' = Newest
          /\ \A k \in 1..Newest : Records(k)' = Records(k)
      BY <2>1, SameGrows
    <2>3. Top' = Top
      BY <1>1, <2>1, <2>2 DEF Top
    <2> QED BY <1>1, <1>2, <2>2, <2>3
  <1>3. CASE ~linked
    <2>1. files \in Seq(Seq(Nat)) /\ files' = Append(files, <<>>)
      BY <1>3 DEF Created, IInv, IShape
    <2>2. /\ Newest' = Newest + 1
          /\ \A k \in 1..Newest : files'[k] = files[k]
          /\ files'[Newest'] = <<>>
      BY <1>2, <1>a, <2>1
    <2>3. Top = Newest /\ Top' = Newest
      BY <1>2, <1>3, <2>2 DEF Top
    <2>4. \A k \in 1..Newest' : k \in 1..Newest \/ k = Newest'
      BY <1>2, <2>2
    <2>5. \A k \in 1..Newest : Records(k)' = Records(k)
      BY <2>2 DEF Records
    <2>6. Records(Newest)' = {} /\ Len(files'[Newest']) = 0
      BY <2>2 DEF Records
    <2>7. KFiles'
      <3>1. \A k \in 1..Newest' : \A i \in 1..Len(files'[k]) : k \in 1..Newest
        BY <2>4, <2>6
      <3>2. \A k \in 1..Newest' : \A r \in Records(k)' : k \in 1..Newest /\ r \in Records(k)
        <4> SUFFICES ASSUME NEW k \in 1..Newest', NEW r \in Records(k)'
                     PROVE  k \in 1..Newest /\ r \in Records(k)
          OBVIOUS
        <4>1. k # Newest'
          BY <2>6
        <4> QED BY <2>4, <2>5, <4>1
      <3>3. \A k \in 1..Newest' : \A i \in 1..Len(files'[k]) : k <= files'[k][i] /\ i <= files'[k][i]
        BY <2>2, <3>1 DEF KFiles
      <3>4. \A k \in 1..Newest' : \A i, h \in 1..Len(files'[k]) : i < h => files'[k][i] < files'[k][h]
        BY <2>2, <3>1 DEF KFiles
      <3>5. \A k, j \in 1..Newest' : k < j => \A r \in Records(k)', s \in Records(j)' : r < s
        BY <3>2 DEF KFiles
      <3>6. \A r \in 1..Len(stamps') : \E k \in 1..Newest' : r \in Records(k)'
        <4> SUFFICES ASSUME NEW r \in 1..Len(stamps)
                     PROVE  \E k \in 1..Newest' : r \in Records(k)'
          OBVIOUS
        <4>1. PICK k \in 1..Newest : r \in Records(k)
          BY DEF KFiles
        <4> QED BY <1>2, <2>2, <2>5, <4>1
      <3>7. \A k \in 1..Top' : files'[k] # <<>>
        BY <2>2, <2>3 DEF KFiles
      <3> QED BY <3>3, <3>4, <3>5, <3>6, <3>7 DEF KFiles
    <2>8. Grows
      <3>1. \A j \in 1..Newest' : \A r \in Records(j)' : j \in 1..Newest /\ r \in Records(j)
        <4> SUFFICES ASSUME NEW k \in 1..Newest', NEW r \in Records(k)'
                     PROVE  k \in 1..Newest /\ r \in Records(k)
          OBVIOUS
        <4>1. k # Newest'
          BY <2>6
        <4> QED BY <2>4, <2>5, <4>1
      <3>2. \A j \in 1..Newest' : j > Newest => files'[j] = <<>>
        BY <1>2, <2>2, <2>4
      <3>3. Newest' >= Newest /\ Top' >= Top /\ Len(stamps') >= Len(stamps)
        BY <1>2, <2>2, <2>3
      <3>4. \A k \in 1..Newest : Len(files'[k]) >= Len(files[k])
        BY <1>2, <2>2
      <3> QED BY <2>2, <2>3, <3>1, <3>2, <3>3, <3>4 DEF Grows
    <2> QED BY <1>3, <2>3, <2>5, <2>6, <2>7, <2>8
  <1> QED BY <1>1, <1>3

(* A record is appended. *)
LEMMA AppendGrows ==
  ASSUME IInv, KFiles, AppendRecord
  PROVE  /\ KFiles' /\ Grows /\ Newest' = Newest /\ Top' = Top /\ linked
         /\ Records(Newest)' = Records(Newest) \cup {Len(stamps) + 1}
         /\ \A k \in 1..Newest : k # Newest => Records(k)' = Records(k)
  <1>0. linked
    BY DEF IInv, ISteps, AppendRecord
  <1>1. /\ Newest \in Nat /\ Newest >= 1 /\ Top \in Nat /\ Len(stamps) \in Nat /\ Top = Newest - 1
        /\ Len(stamps) <= MaxRecords /\ MaxRecords \in Nat
        /\ \A k \in 1..Newest : Len(files[k]) \in Nat
    BY <1>0, Numbers, Contents
  <1>2. /\ files \in Seq(Seq(Nat)) /\ stamps \in Seq(Nat)
        /\ files' = [files EXCEPT ![Newest] = Append(@, Len(stamps) + 1)]
        /\ stamps' = Append(stamps, today) /\ linked' = linked /\ ~Collecting
        /\ Len(stamps) < MaxRecords /\ Newest = Len(files) /\ Newest' = Len(files')
    BY DEF AppendRecord, IInv, IShape, Newest
  <1>3. /\ Newest' = Newest
        /\ files'[Newest] = Append(files[Newest], Len(stamps) + 1)
        /\ \A k \in 1..Newest : k # Newest => files'[k] = files[k]
    BY <1>1, <1>2
  <1>4. Len(stamps') = Len(stamps) + 1
    BY <1>2
  <1>5. Top' = Top
    BY <1>0, <1>2, <1>3 DEF Top
  <1>6. \A k \in 1..Newest : k # Newest => Records(k)' = Records(k)
    BY <1>3 DEF Records
  <1>n. Newest \in 1..Newest
    BY <1>1
  <1>7. PICK n \in Nat : n = Len(files[Newest])
    BY <1>1, <1>n
  <1>8. PICK new \in Nat : new = Len(stamps) + 1
    BY <1>1
  <1>9. /\ files[Newest] \in Seq(Nat)
        /\ Len(files'[Newest]) = n + 1 /\ files'[Newest][n + 1] = new
        /\ \A i \in 1..n : files'[Newest][i] = files[Newest][i]
    BY <1>3, <1>7, <1>8, <1>n, Contents
  <1>10. n <= Len(stamps)
    <2>1. CASE n = 0
      BY <1>1, <2>1
    <2>2. CASE n # 0
      <3>1. n \in 1..Len(files[Newest])
        BY <1>7, <2>2
      <3>2. n <= files[Newest][n] /\ files[Newest][n] \in Records(Newest)
        BY <1>n, <3>1, Contents DEF KFiles
      <3>3. files[Newest][n] \in 1..Len(stamps)
        BY <1>n, <3>2, Contents
      <3> QED BY <1>1, <3>2, <3>3
    <2> QED BY <2>1, <2>2
  <1>11. Newest <= new
    <2>1. CASE Newest = 1
      BY <1>1, <1>8, <2>1
    <2>2. CASE Newest # 1
      <3>0. PICK k \in 1..Newest : k = Newest - 1
        BY <1>1, <2>2
      <3>1. k \in 1..Top
        BY <1>1, <3>0
      <3>2. Len(files[k]) \in Nat /\ Len(files[k]) > 0
        BY <3>1, Contents
      <3>3. 1 \in 1..Len(files[k])
        BY <3>2
      <3>4. k <= files[k][1] /\ files[k][1] \in Records(k)
        BY <3>3, Contents DEF KFiles
      <3>5. files[k][1] \in 1..Len(stamps)
        BY <3>4, Contents
      <3> QED BY <1>1, <1>8, <3>0, <3>4, <3>5
    <2> QED BY <2>1, <2>2
  <1>12. Records(Newest)' = Records(Newest) \cup {new}
    <2>1. Records(Newest)' = {files'[Newest][i] : i \in 1..(n + 1)}
      BY <1>3, <1>9 DEF Records
    <2>2. Records(Newest) = {files[Newest][i] : i \in 1..n}
      BY <1>7 DEF Records
    <2>3. \A i \in 1..(n + 1) : i \in 1..n \/ i = n + 1
      OBVIOUS
    <2>4. \A i \in 1..n : i \in 1..(n + 1)
      OBVIOUS
    <2>5. n + 1 \in 1..(n + 1)
      OBVIOUS
    <2>6. Records(Newest)' \subseteq Records(Newest) \cup {new}
      BY <1>9, <2>1, <2>2, <2>3
    <2>7. Records(Newest) \subseteq Records(Newest)'
      BY <1>9, <2>1, <2>2, <2>4
    <2>8. new \in Records(Newest)'
      BY <1>9, <2>1, <2>5
    <2> QED BY <2>6, <2>7, <2>8
  <1>13. \A k \in 1..Newest : \A r \in Records(k) : r \in Nat /\ r < new
    BY <1>1, <1>8, Contents
  <1>14. KFiles'
    <2>1. ASSUME NEW k \in 1..Newest'
          PROVE  /\ \A i \in 1..Len(files'[k]) : k <= files'[k][i] /\ i <= files'[k][i]
                 /\ \A i, h \in 1..Len(files'[k]) : i < h => files'[k][i] < files'[k][h]
      <3>0. k \in 1..Newest
        BY <1>3
      <3>1. CASE k # Newest
        <4>1. files'[k] = files[k]
          BY <1>3, <3>0, <3>1
        <4> QED BY <3>0, <4>1 DEF KFiles
      <3>2. CASE k = Newest
        <4>1. \A i \in 1..Len(files'[k]) : i \in 1..n \/ i = n + 1
          BY <1>9, <3>2
        <4>2. \A i \in 1..n : /\ files'[k][i] = files[k][i] /\ files[k][i] \in Nat /\ files[k][i] < new
                              /\ k <= files[k][i] /\ i <= files[k][i]
          BY <1>7, <1>9, <1>13, <3>0, <3>2, Contents DEF KFiles
        <4>3. \A i, h \in 1..n : i < h => files[k][i] < files[k][h]
          BY <1>7, <3>0, <3>2 DEF KFiles
        <4>4. files'[k][n + 1] = new /\ k <= new /\ n + 1 <= new
          BY <1>1, <1>8, <1>9, <1>10, <1>11, <3>2
        <4>5. ASSUME NEW i \in 1..Len(files'[k])
              PROVE  k <= files'[k][i] /\ i <= files'[k][i]
          BY <4>1, <4>2, <4>4
        <4>6. ASSUME NEW i \in 1..Len(files'[k]), NEW h \in 1..Len(files'[k]), i < h
              PROVE  files'[k][i] < files'[k][h]
          <5>1. i \in 1..n
            <6>1. i \in 1..(n + 1) /\ h \in 1..(n + 1)
              BY <1>9, <3>2
            <6> QED BY <4>6, <6>1
          <5>2. CASE h \in 1..n
            BY <4>2, <4>3, <4>6, <5>1, <5>2
          <5>3. CASE h = n + 1
            BY <4>2, <4>4, <5>1, <5>3
          <5> QED BY <4>1, <5>2, <5>3
        <4> QED BY <4>5, <4>6
      <3> QED BY <3>1, <3>2
    <2>2. ASSUME NEW k \in 1..Newest', NEW j \in 1..Newest', k < j,
                 NEW r \in Records(k)', NEW s \in Records(j)'
          PROVE  r < s
      <3>1. k \in 1..Newest /\ j \in 1..Newest /\ k # Newest
        BY <1>1, <1>3, <2>2
      <3>2. r \in Records(k)
        BY <1>6, <3>1
      <3>3. CASE s = new
        BY <1>13, <3>1, <3>2, <3>3
      <3>4. CASE s # new
        <4>1. s \in Records(j)
          BY <1>3, <1>6, <1>12, <3>1, <3>4
        <4> QED BY <2>2, <3>1, <3>2, <4>1 DEF KFiles
      <3> QED BY <3>3, <3>4
    <2>3. ASSUME NEW r \in 1..Len(stamps')
          PROVE  \E k \in 1..Newest' : r \in Records(k)'
      <3>1. CASE r = new
        BY <1>3, <1>12, <1>n, <3>1
      <3>2. CASE r # new
        <4>1. r \in 1..Len(stamps)
          BY <1>1, <1>4, <1>8, <3>2
        <4>2. PICK k \in 1..Newest : r \in Records(k)
          BY <4>1 DEF KFiles
        <4> QED BY <1>3, <1>6, <1>12, <4>2
      <3> QED BY <3>1, <3>2
    <2>4. \A k \in 1..Top' : files'[k] # <<>>
      <3>1. \A k \in 1..Top : k \in 1..Newest /\ k # Newest
        BY <1>1
      <3> QED BY <1>3, <1>5, <3>1 DEF KFiles
    <2>5. Len(stamps') <= MaxRecords
      BY <1>1, <1>2, <1>4
    <2> QED BY <2>1, <2>2, <2>3, <2>4, <2>5 DEF KFiles
  <1>15. Grows
    <2>1. ASSUME NEW k \in 1..Newest
          PROVE  /\ Len(files'[k]) >= Len(files[k])
                 /\ \A i \in 1..Len(files[k]) : files'[k][i] = files[k][i]
      <3>1. CASE k # Newest
        BY <1>1, <1>3, <3>1
      <3>2. CASE k = Newest
        BY <1>7, <1>9, <3>2
      <3> QED BY <3>1, <3>2
    <2>2. ASSUME NEW j \in 1..Newest', NEW r \in Records(j)', r <= Len(stamps)
          PROVE  j \in 1..Newest /\ r \in Records(j)
      <3>1. r # new
        BY <1>1, <1>8, <2>2
      <3> QED BY <1>3, <1>6, <1>12, <2>2, <3>1
    <2>3. \A k \in 1..Top : files'[k] = files[k]
      <3>1. \A k \in 1..Top : k \in 1..Newest /\ k # Newest
        BY <1>1
      <3> QED BY <1>3, <3>1
    <2>4. Newest' >= Newest /\ Top' >= Top /\ Len(stamps') >= Len(stamps)
      BY <1>1, <1>3, <1>4, <1>5
    <2> QED BY <1>2, <2>1, <2>2, <2>3, <2>4 DEF Grows
  <1> QED BY <1>0, <1>3, <1>5, <1>6, <1>8, <1>12, <1>14, <1>15

-----------------------------------------------------------------------------
(* A cursor that does not move                                             *)

(* The numbers in a cursor. *)
LEMMA ShapeFacts ==
  ASSUME IInv, KFiles, NEW c, KShape(c)
  PROVE  /\ Sealed(c) <=> cursor[c].seg \in 1..Top
         /\ Sealed(c) => cursor[c].seg \in 1..Newest
         /\ cursor[c].seg \in Nat /\ cursor[c].fd \in Nat /\ cursor[c].off \in Nat
         /\ cursor[c].last \in Nat /\ cursor[c].tail[1] \in Nat
         /\ cursor[c].fd # 0 => cursor[c].fd \in 1..Newest
         /\ ~Sealed(c) => cursor[c].seg = 0 \/ cursor[c].seg = Active
         /\ Active \notin 1..Top
  <1>1. /\ Newest \in Nat /\ Top \in Nat /\ Top <= Newest /\ Newest < Active /\ Active \in Nat
        /\ Len(stamps) \in Nat
    BY Numbers
  <1>2. /\ cursor[c].seg \in (0..Top) \cup {Active} /\ cursor[c].fd \in 0..Newest
        /\ cursor[c].off \in Nat /\ cursor[c].last \in 0..Len(stamps) /\ cursor[c].tail[1] \in 0..Top
    BY DEF KShape
  <1>3. Sealed(c) <=> cursor[c].seg \in 1..(Active - 1)
    BY DEF Sealed
  <1> QED BY <1>1, <1>2, <1>3

(* What depends on the cursor alone. *)
LEMMA SameCursor ==
  ASSUME NEW c, cursor'[c] = cursor[c]
  PROVE  Sealed(c)' = Sealed(c) /\ Valid(c)' = Valid(c)
  BY DEF Sealed, Valid

(* A reader that does not move keeps its place. *)
LEMMA PlaceStays ==
  ASSUME IInv, KFiles, IInv', KFiles', Grows, NEW c, cursor'[c] = cursor[c],
         KShape(c), KPlace(c), c = "gc" /\ cursor[c].at = "again" => Collecting
  PROVE  KShape(c)' /\ KPlace(c)'
  <1>1. /\ Newest \in Nat /\ Top \in Nat /\ Newest' \in Nat /\ Top' \in Nat
        /\ Len(stamps) \in Nat /\ Len(stamps)' \in Nat
        /\ Newest' >= Newest /\ Top' >= Top /\ Len(stamps') >= Len(stamps)
    BY Numbers, NumbersNext DEF Grows, NumberFacts
  <1>2. Sealed(c)' = Sealed(c) /\ Valid(c)' = Valid(c)
    BY SameCursor
  <1>3. KShape(c)'
    <2>0. /\ cursor'[c].seg \in (0..Top) \cup {Active}
          /\ cursor'[c].fd \in 0..Newest /\ cursor'[c].last \in 0..Len(stamps)
          /\ cursor'[c].tail[1] \in 0..Top
      BY DEF KShape
    <2>1. /\ cursor'[c].seg \in (0..Top') \cup {Active}
          /\ cursor'[c].fd \in 0..Newest' /\ cursor'[c].last \in 0..Len(stamps')
          /\ cursor'[c].tail[1] \in 0..Top'
      <3>1. \A n \in 0..Top : n \in 0..Top'
        BY <1>1
      <3>2. \A n \in 0..Newest : n \in 0..Newest'
        BY <1>1
      <3>3. \A n \in 0..Len(stamps) : n \in 0..Len(stamps')
        BY <1>1
      <3> QED BY <2>0, <3>1, <3>2, <3>3
    <2>2. cursor'[c] = [at |-> cursor'[c].at, seg |-> cursor'[c].seg, off |-> cursor'[c].off,
                  last |-> cursor'[c].last, tail |-> cursor'[c].tail, fd |-> cursor'[c].fd,
                  name |-> cursor'[c].name, phase |-> cursor'[c].phase, got |-> cursor'[c].got]
      BY DEF KShape
    <2>3. /\ cursor'[c].at \in {"idle", "again", "read", "advance", "list", "open"}
          /\ cursor'[c].off \in Nat
          /\ cursor'[c].at = "read" => cursor'[c].phase \in {"next", "locked"}
          /\ cursor'[c].at = "read" /\ cursor'[c].phase = "locked" => cursor'[c].fd # 0
          /\ cursor'[c].at \in {"again", "advance"} => cursor'[c].fd # 0
          /\ cursor'[c].at = "advance" => Sealed(c)'
          /\ c = "analytics" => cursor'[c].phase \in {"ready", "next", "locked", "reopen"}
      BY <1>2 DEF KShape
    <2>4. cursor'[c].at = "open" =>
           /\ cursor'[c].fd = 0 /\ cursor'[c].name[2] # "tmp"
           /\ cursor'[c].name[1] = IF Sealed(c)' THEN cursor'[c].seg ELSE Active
      BY <1>2 DEF KShape
    <2> QED BY <2>1, <2>2, <2>3, <2>4 DEF KShape
  <1>4. ASSUME NEW k \in 1..Newest, Placed(c, k)
        PROVE  Placed(c, k)'
    <2>1. Len(files[k]) \in Nat /\ Len(files'[k]) >= Len(files[k]) /\ k \in 1..Newest'
      BY <1>1, Contents DEF Grows
    <2>2. Len(files'[k]) \in Nat
      BY <2>1, ContentsNext DEF ContentFacts
    <2>3. cursor[c].off \in Nat
      BY DEF KShape
    <2>4. cursor[c].off <= Len(files[k]) /\ (cursor[c].off > 0 => cursor[c].last = files[k][cursor[c].off])
      BY <1>4 DEF Placed
    <2>5. cursor[c].off > 0 => cursor[c].off \in 1..Len(files[k])
      BY <2>1, <2>3, <2>4
    <2>6. cursor[c].off > 0 => files'[k][cursor[c].off] = files[k][cursor[c].off]
      BY <2>5 DEF Grows
    <2> QED BY <2>1, <2>2, <2>3, <2>4, <2>6 DEF Placed
  <1>5. Sealed(c)' => Placed(c, cursor[c].seg)' /\ (Valid(c)' => cursor'[c].fd = cursor'[c].seg)
    BY <1>2, <1>4, ShapeFacts DEF KPlace
  <1>6. ~Sealed(c)' /\ Valid(c)' =>
          /\ Placed(c, cursor[c].fd)' /\ cursor'[c].tail[1] < cursor'[c].fd
          /\ \A j \in 1..Newest' : cursor'[c].last \in Records(j)' => j <= cursor'[c].fd
    <2> SUFFICES ASSUME ~Sealed(c), Valid(c)
                 PROVE  /\ Placed(c, cursor[c].fd)' /\ cursor[c].tail[1] < cursor[c].fd
                        /\ \A j \in 1..Newest' : cursor[c].last \in Records(j)' => j <= cursor[c].fd
      BY <1>2
    <2>1. cursor[c].fd \in 1..Newest
      BY ShapeFacts DEF Valid
    <2>2. /\ Placed(c, cursor[c].fd) /\ cursor[c].tail[1] < cursor[c].fd
          /\ \A j \in 1..Newest : cursor[c].last \in Records(j) => j <= cursor[c].fd
      BY DEF KPlace
    <2>3. cursor[c].last <= Len(stamps)
      BY <1>1 DEF KShape
    <2>4. \A j \in 1..Newest' : cursor[c].last \in Records(j)' => j \in 1..Newest /\ cursor[c].last \in Records(j)
      BY <2>3 DEF Grows
    <2> QED BY <1>4, <2>1, <2>2, <2>4
  <1>7. ~Sealed(c)' /\ ~Valid(c)' => cursor'[c].off = 0 /\ (cursor'[c].seg = 0 => cursor'[c].last = 0)
    BY <1>2 DEF KPlace
  <1>8. cursor'[c].seg = Active => cursor'[c].last # 0
    BY DEF KPlace
  <1>9. cursor'[c].at = "advance" \/ (cursor'[c].at = "again" /\ (Sealed(c)' \/ c = "gc")) => Finished(c)'
    <2> SUFFICES ASSUME cursor[c].at = "advance" \/ (cursor[c].at = "again" /\ (Sealed(c) \/ c = "gc"))
                 PROVE  Finished(c)'
      BY <1>2
    <2>1. Finished(c)
      BY DEF KPlace
    <2>2. cursor[c].fd # 0 /\ (cursor[c].at = "advance" => Sealed(c))
      BY DEF KShape
    <2>3. files'[cursor[c].fd] = files[cursor[c].fd]
      <3>1. CASE Sealed(c)
        <4>1. cursor[c].fd = cursor[c].seg
          BY <2>2, <3>1 DEF KPlace, Valid
        <4> QED BY <3>1, <4>1, ShapeFacts DEF Grows
      <3>2. CASE ~Sealed(c)
        <4>1. Collecting
          BY <2>2, <3>2
        <4> QED BY <2>2, <4>1, ShapeFacts DEF Grows
      <3> QED BY <3>1, <3>2
    <2> QED BY <2>1, <2>3 DEF Finished
  <1> QED BY <1>3, <1>5, <1>6, <1>7, <1>8, <1>9 DEF KPlace

(* Where the journal was not changed under it, it keeps what it has had. *)
Steady(c) ==
  /\ \A r \in Retained' : r \in Retained \/ r = Len(stamps) + 1
  /\ \A k \in Segments' : \/ k \in Segments
                          \/ k = Newest /\ linked /\ cursor[c].at = "idle"
  /\ \A k \in Segments : Records(k)' = Records(k)
  /\ Sealed(c) => cursor[c].seg \in Segments'
  /\ cursor[c].at # "idle" /\ linked => linked' /\ Newest' = Newest

(* A reader that does not move has had what it had. *)
LEMMA HadStays ==
  ASSUME IInv, KFiles, KDir, Top' \in Nat, NEW c \in Readers, cursor'[c] = cursor[c],
         read[c] \subseteq read'[c],
         KShape(c), KPlace(c), KHad(c), c \notin disturbed' => c \notin disturbed /\ Steady(c)
  PROVE  KHad(c)'
  <1> SUFFICES ASSUME c \notin disturbed'
               PROVE  /\ \A r \in Retained' : r <= cursor[c].last => r \in read'[c]
                      /\ Sealed(c) => cursor[c].seg \in Segments'
                      /\ \A k \in Segments' :
                           \/ Had(c, k)'
                           \/ Sealed(c) /\ k >= cursor[c].seg
                           \/ ~Sealed(c) /\ Valid(c) /\ k >= cursor[c].fd
                           \/ ~Sealed(c) /\ ~Valid(c) /\ cursor[c].at = "idle" /\ k > cursor[c].tail[1]
                           \/ cursor[c].at = "list" /\ cursor[c].seg = 0
                      /\ cursor[c].at = "read" /\ cursor[c].phase = "locked" /\ ~Sealed(c) =>
                           cursor[c].fd = Newest' /\ linked'
    BY SameCursor DEF KHad
  <1>1. /\ Steady(c)
        /\ \A r \in Retained : r <= cursor[c].last => r \in read[c]
        /\ Sealed(c) => cursor[c].seg \in Segments
        /\ \A k \in Segments :
             \/ Had(c, k)
             \/ Sealed(c) /\ k >= cursor[c].seg
             \/ ~Sealed(c) /\ Valid(c) /\ k >= cursor[c].fd
             \/ ~Sealed(c) /\ ~Valid(c) /\ cursor[c].at = "idle" /\ k > cursor[c].tail[1]
             \/ cursor[c].at = "list" /\ cursor[c].seg = 0
        /\ cursor[c].at = "read" /\ cursor[c].phase = "locked" /\ ~Sealed(c) =>
             cursor[c].fd = Newest /\ linked
    BY DEF KHad
  <1>2. /\ Newest \in Nat /\ Top \in Nat /\ Top <= Newest /\ (linked => Top = Newest - 1)
        /\ Len(stamps) \in Nat
    BY Numbers
  <1>3. ASSUME NEW r \in Retained', r <= cursor[c].last
        PROVE  r \in read'[c]
    <2>1. cursor[c].last \in 0..Len(stamps)
      BY DEF KShape
    <2>2. r \in Retained \/ r = Len(stamps) + 1
      BY <1>1 DEF Steady
    <2>3. r # Len(stamps) + 1
      BY <1>2, <1>3, <2>1
    <2> QED BY <1>1, <1>3, <2>2, <2>3
  <1>4. ASSUME NEW k \in Segments'
        PROVE  \/ Had(c, k)'
               \/ Sealed(c) /\ k >= cursor[c].seg
               \/ ~Sealed(c) /\ Valid(c) /\ k >= cursor[c].fd
               \/ ~Sealed(c) /\ ~Valid(c) /\ cursor[c].at = "idle" /\ k > cursor[c].tail[1]
               \/ cursor[c].at = "list" /\ cursor[c].seg = 0
    <2>1. CASE k \in Segments
      <3>1. Had(c, k) => Had(c, k)'
        BY <1>1, <2>1 DEF Had, Steady
      <3> QED BY <1>1, <2>1, <3>1
    <2>2. CASE k = Newest /\ linked /\ cursor[c].at = "idle"
      <3>1. Sealed(c) => cursor[c].seg \in 1..Newest
        BY ShapeFacts
      <3>2. cursor[c].fd \in 0..Newest /\ cursor[c].tail[1] \in 0..Top
        BY DEF KShape
      <3>3. /\ Sealed(c) => k >= cursor[c].seg
            /\ k >= cursor[c].fd /\ k > cursor[c].tail[1]
        BY <1>2, <2>2, <3>1, <3>2
      <3> QED BY <2>2, <3>3
    <2> QED BY <1>1, <1>4, <2>1, <2>2 DEF Steady
  <1>5. cursor[c].at = "read" /\ cursor[c].phase = "locked" /\ ~Sealed(c) => cursor[c].fd = Newest' /\ linked'
    BY <1>1 DEF Steady
  <1>6. Sealed(c) => cursor[c].seg \in Segments'
    BY <1>1 DEF Steady
  <1> QED BY <1>3, <1>4, <1>5, <1>6

NewestKept == \A k \in 1..Newest : k = Newest /\ linked => Kept(k)'

(* What the pipeline's cursor needs stays, if only what it is done with goes. *)
LEMMA DoneIsPast ==
  ASSUME IInv, KFiles, KDir, KShape("analytics"), NEW k \in Segments
  PROVE  /\ Records(k) # {} /\ k \in 1..Newest
         /\ ~Sealed("analytics") /\ Done(k) =>
              \E j \in 1..Newest : k < j /\ cursor["analytics"].last \in Records(j)
         /\ ~Sealed("analytics") =>
              \A j \in 1..Newest : k < j /\ cursor["analytics"].last \in Records(j) => Done(k)
  <1>1. k \in 1..Newest /\ Records(k) # {}
    BY Listing, Contents
  <1>2. cursor["analytics"].last \in 0..Len(stamps) /\ Len(stamps) \in Nat
    BY Numbers DEF KShape
  <1>3. ASSUME ~Sealed("analytics"), Done(k)
        PROVE  \E j \in 1..Newest : k < j /\ cursor["analytics"].last \in Records(j)
    <2>1. Past(cursor["analytics"].last, k)
      BY <1>3 DEF Done
    <2>2. cursor["analytics"].last \in 1..Len(stamps)
      BY <1>1, <1>2, <2>1, PastIsLater
    <2>3. PICK j \in 1..Newest : cursor["analytics"].last \in Records(j)
      BY <2>2 DEF KFiles
    <2> QED BY <1>1, <2>1, <2>3, PastIsLater
  <1>4. ASSUME ~Sealed("analytics"), NEW j \in 1..Newest, k < j, cursor["analytics"].last \in Records(j)
        PROVE  Done(k)
    BY <1>1, <1>4, PastIsLater DEF Done
  <1> QED BY <1>1, <1>3, <1>4

LEMMA NeedsStay ==
  ASSUME IInv, KFiles, KDir, Grows, UNCHANGED cursor["analytics"],
         KShape("analytics"), KPlace("analytics"), KNeeds,
         \A k \in Segments : k \in Segments' \/ Done(k), NewestKept
  PROVE  KNeeds'
  <1> DEFINE a == cursor["analytics"]
  <1>1. Sealed("analytics")' = Sealed("analytics") /\ Valid("analytics")' = Valid("analytics") /\ a' = a
    BY SameCursor
  <1>2. CASE Sealed("analytics")
    <2>1. a.seg \in Segments /\ a.seg \in Nat
      BY <1>2, ShapeFacts DEF KNeeds, CursorSpared
    <2>2. ~Done(a.seg)
      BY <1>2, <2>1 DEF Done
    <2> QED BY <1>1, <1>2, <2>1, <2>2 DEF KNeeds, CursorSpared
  <1>3. CASE ~Sealed("analytics")
    <2>1. Found(a.last) /\ (Valid("analytics") => Kept(a.fd))
      BY <1>3 DEF KNeeds
    <2>2. ASSUME NEW k \in 1..Newest, Kept(k), k \in Segments => ~Done(k)
          PROVE  Kept(k)'
      <3>1. k \in Segments => k \in Segments'
        BY <2>2
      <3>2. k = Newest /\ linked => Kept(k)'
        BY DEF NewestKept
      <3>3. k \in Segments' => Kept(k)'
        BY DEF Kept
      <3>4. k \in Segments \/ (k = Newest /\ linked)
        BY <2>2 DEF Kept
      <3> QED BY <3>1, <3>2, <3>3, <3>4
    <2>3. Found(a.last)'
      <3> SUFFICES ASSUME NEW j \in 1..Newest', a.last \in Records(j)'
                   PROVE  Kept(j)'
        BY <1>1 DEF Found
      <3>1. a.last \in 0..Len(stamps) /\ Len(stamps) \in Nat
        BY Numbers DEF KShape
      <3>2. j \in 1..Newest /\ a.last \in Records(j)
        BY <3>1 DEF Grows
      <3>3. Kept(j)
        BY <2>1, <3>2 DEF Found
      <3>4. j \in Segments => ~Done(j)
        BY <1>3, <3>1, <3>2 DEF Done, Past
      <3> QED BY <2>2, <3>2, <3>3, <3>4
    <2>4. ASSUME Valid("analytics")
          PROVE  Kept(a.fd)'
      <3>1. a.fd \in 1..Newest /\ Kept(a.fd) /\ a.fd \in Nat
        BY <2>1, <2>4, ShapeFacts DEF Valid
      <3>2. \A j \in 1..Newest : a.last \in Records(j) => j <= a.fd
        BY <1>3, <2>4 DEF KPlace
      <3>3. a.fd \in Segments => ~Done(a.fd)
        <4> SUFFICES ASSUME a.fd \in Segments, Done(a.fd)
                     PROVE  FALSE
          OBVIOUS
        <4>1. PICK j \in 1..Newest : a.fd < j /\ a.last \in Records(j)
          BY <1>3, DoneIsPast
        <4>2. j \in Nat /\ j <= a.fd
          BY <3>2, <4>1, Numbers
        <4> QED BY <3>1, <4>1, <4>2
      <3> QED BY <2>2, <3>1, <3>3
    <2> QED BY <1>1, <1>3, <2>3, <2>4 DEF KNeeds, CursorSpared
  <1> QED BY <1>2, <1>3

(* The position maintenance goes by is still not ahead of the cursor. *)
LEMMA KeepStays ==
  ASSUME IInv, KFiles, KDir, IInv', KFiles', Grows,
         UNCHANGED cursor["analytics"], KShape("analytics"), KKeep,
         maint'.at \in Stages =>
           /\ maint.at \in Stages /\ maint'.keep = maint.keep
           /\ Segments \subseteq Segments' /\ NewestKept
           /\ \A k \in Segments' :
                k \in Segments \/ (k = Newest /\ linked /\ Records(k)' = Records(k) /\ Records(k) # {}),
         maint'.at = "prune" =>
           maint.at = "prune" /\ maint'.keep = maint.keep /\ Segments' \subseteq Segments
  PROVE  KKeep'
  <1> DEFINE a == cursor["analytics"]
  <1>1. Sealed("analytics")' = Sealed("analytics") /\ a' = a
    BY SameCursor
  <1>2. /\ Newest \in Nat /\ Newest >= 1 /\ Top \in Nat /\ Top <= Newest /\ Active \notin 1..Top
        /\ Len(stamps) \in Nat /\ Newest < Active /\ (linked => Top < Newest)
        /\ Top' >= Top /\ Len(stamps') >= Len(stamps) /\ Top' < Active
        /\ Top' \in Nat /\ Len(stamps') \in Nat
    BY Numbers, NumbersNext DEF Grows, NumberFacts
  <1>3. \A k \in Segments : Done(k) => Done(k)'
    <2> SUFFICES ASSUME NEW k \in Segments
                 PROVE  Done(k) => Done(k)'
      OBVIOUS
    <2>1. Records(k)' = Records(k)
      BY Listing DEF Grows, Records
    <2> QED BY <1>1, <2>1 DEF Done, Past
  <1>4. ASSUME maint'.at = "prune", Retention > 0, maint'.keep.seg # 0
        PROVE  Behind(maint.keep.seg)'
    <2>1. Behind(maint.keep.seg) /\ Segments' \subseteq Segments /\ maint'.keep = maint.keep
      BY <1>4 DEF KKeep
    <2> QED BY <1>3, <2>1 DEF Behind
  <1>5. ASSUME maint'.at \in Stages
        PROVE  /\ maint.keep.seg \in (0..Top') \cup {Active} /\ maint.keep.last \in 0..Len(stamps')
               /\ IF maint.keep.seg \in 1..Top' THEN Behind(maint.keep.seg)'
                  ELSE /\ BehindRecord(maint.keep.last)' /\ Found(maint.keep.last)'
                       /\ maint.keep.seg = Active => maint.keep.last # 0
    <2> DEFINE s == maint.keep.seg
               r == maint.keep.last
    <2>1. /\ s \in (0..Top) \cup {Active} /\ r \in 0..Len(stamps)
          /\ IF s \in 1..Top THEN Behind(s)
             ELSE /\ BehindRecord(r) /\ Found(r)
                  /\ s = Active => r # 0
      BY <1>5 DEF KKeep
    <2>2. /\ Segments \subseteq Segments' /\ NewestKept
          /\ \A k \in Segments' :
               k \in Segments \/ (k = Newest /\ linked /\ Records(k)' = Records(k) /\ Records(k) # {})
      BY <1>5
    <2>8. maint'.keep = maint.keep
      BY <1>5
    <2>3. s \in (0..Top') \cup {Active} /\ r \in 0..Len(stamps')
      BY <1>2, <2>1
    <2>4. \A k \in Segments' : k \in Segments \/ ~(k < s) \/ s = Active
      <3> SUFFICES ASSUME NEW k \in Segments', k = Newest, linked, s # Active
                   PROVE  ~(k < s)
        BY <2>2
      <3> QED BY <1>2, <2>1
    <2>5. Behind(s) /\ s # Active => \A k \in Segments' : k < s => Done(k)'
      BY <1>3, <2>4 DEF Behind
    <2>6. ASSUME Found(r)
          PROVE  \A j \in 1..Newest' : r \in Records(j)' => Kept(j)'
      <3> SUFFICES ASSUME NEW j \in 1..Newest', r \in Records(j)'
                   PROVE  Kept(j)'
        OBVIOUS
      <3>1. j \in 1..Newest /\ r \in Records(j)
        BY <1>2, <2>1 DEF Grows
      <3>2. j \in Segments \/ (j = Newest /\ linked)
        BY <2>6, <3>1 DEF Found, Kept
      <3>3. j \in Segments' => Kept(j)'
        BY DEF Kept
      <3>4. j = Newest /\ linked => Kept(j)'
        BY <2>2, <3>1 DEF NewestKept
      <3> QED BY <2>2, <3>2, <3>3, <3>4
    <2>7. ASSUME BehindRecord(r)
          PROVE  \A k \in Segments' : Past(r, k)' => Done(k)'
      <3> SUFFICES ASSUME NEW k \in Segments', Past(r, k)'
                   PROVE  Done(k)'
        OBVIOUS
      <3>1. CASE k \in Segments
        <4>1. Records(k)' = Records(k)
          BY <3>1, Listing DEF Grows, Records
        <4>2. Past(r, k)
          BY <2>8, <4>1 DEF Past
        <4> QED BY <1>3, <2>7, <3>1, <4>2 DEF BehindRecord
      <3>2. CASE k = Newest /\ linked /\ Records(k)' = Records(k) /\ Records(k) # {}
        <4>1. Past(r, k) /\ k \in 1..Newest
          BY <1>2, <2>8, <3>2 DEF Past
        <4>2. r # 0
          BY <3>2, <4>1, PastIsLater
        <4>3. r \in 1..Len(stamps)
          BY <1>2, <2>1, <4>2
        <4>4. PICK j \in 1..Newest : r \in Records(j)
          BY <4>3 DEF KFiles
        <4>5. k < j
          BY <3>2, <4>1, <4>4, PastIsLater
        <4> QED BY <1>2, <3>2, <4>4, <4>5
      <3> QED BY <2>2, <3>1, <3>2
    <2>9. CASE s \in 1..Top
      <3>1. s \in 1..Top' /\ s # Active
        BY <1>2, <2>9
      <3>2. \A k \in Segments' : k < s => Done(k)'
        BY <2>1, <2>5, <2>9, <3>1
      <3> QED BY <2>3, <2>8, <3>1, <3>2 DEF Behind
    <2>10. CASE s \notin 1..Top
      <3>1. s \notin 1..Top'
        BY <1>2, <2>1, <2>10
      <3>2. BehindRecord(r) /\ Found(r) /\ (s = Active => r # 0)
        BY <2>1, <2>10
      <3>3. BehindRecord(maint.keep.last)' /\ Found(maint.keep.last)'
        BY <2>6, <2>7, <2>8, <3>2 DEF BehindRecord, Found
      <3> QED BY <2>3, <3>1, <3>2, <3>3
    <2> QED BY <2>9, <2>10
  <1>6. /\ maint'.at \in Stages =>
             /\ maint'.keep.seg \in (0..Top') \cup {Active} /\ maint'.keep.last \in 0..Len(stamps')
             /\ IF maint'.keep.seg \in 1..Top' THEN Behind(maint.keep.seg)'
                ELSE /\ BehindRecord(maint.keep.last)' /\ Found(maint.keep.last)'
                     /\ maint'.keep.seg = Active => maint'.keep.last # 0
        /\ maint'.at = "prune" /\ Retention > 0 /\ maint'.keep.seg # 0 => Behind(maint.keep.seg)'
        /\ maint'.at = "prune" => maint'.keep.seg \in Nat
    <2>1. maint'.at \in Stages => maint'.keep = maint.keep
      OBVIOUS
    <2>2. maint'.at = "prune" => maint'.keep.seg \in Nat
      BY DEF KKeep
    <2> QED BY <1>4, <1>5, <2>1, <2>2
  <1> QED BY <1>6 DEF KKeep, Stages

(* The collection does not move, and nothing comes to what is retained. *)
LEMMA GcStays ==
  ASSUME IInv, KFiles, Grows, UNCHANGED <<cursor["gc"], read["gc"]>>, KShape("gc"), KGc,
         Collecting => Retained' \subseteq Retained /\ ("gc" \in disturbed => "gc" \in disturbed')
  PROVE  KGc'
  <1>1. Sealed("gc")' = Sealed("gc") /\ Valid("gc")' = Valid("gc") /\ Collecting' = Collecting
    BY SameCursor DEF Collecting
  <1>2. OnTheWay' = OnTheWay
    BY DEF OnTheWay
  <1>3. ASSUME Collecting, ~Sealed("gc"), Valid("gc"), NEW j \in 1..Newest', j > cursor["gc"].fd
        PROVE  files'[j] = <<>>
    <2>1. Newest \in Nat
      BY Numbers
    <2>2. CASE j \in 1..Newest
      BY <1>3, <2>2 DEF KGc, Grows
    <2>3. CASE j \notin 1..Newest
      <3>1. j > Newest
        BY <1>3, <2>1, <2>3
      <3> QED BY <1>3, <3>1 DEF Grows
    <2> QED BY <2>2, <2>3
  <1>4. /\ ~Collecting' => cursor'["gc"] = Off
        /\ cursor'["gc"].phase = "opening" => cursor'["gc"].last = 0
    BY <1>1 DEF KGc
  <1>5. Collecting' /\ ~Sealed("gc")' /\ Valid("gc")' =>
          \A j \in 1..Newest' : j > cursor'["gc"].fd => files'[j] = <<>>
    BY <1>1, <1>3
  <1>6. Collecting' /\ ~Sealed("gc")' /\ OnTheWay' =>
          Valid("gc")' /\ (cursor'["gc"].off > 0 \/ cursor'["gc"].last = 0)
    BY <1>1, <1>2 DEF KGc
  <1>7. Collecting' /\ cursor'["gc"].at = "idle" /\ cursor'["gc"].got = "end" /\ "gc" \notin disturbed' =>
          Retained' \subseteq read'["gc"]
    BY <1>1 DEF KGc
  <1> QED BY <1>4, <1>5, <1>6, <1>7 DEF KGc

-----------------------------------------------------------------------------
(* Steps that readers do not notice                                        *)

(* What is retained is what the kept files hold. *)
LEMMA RetainedAre ==
  \A r : r \in Retained <=> \E k : Kept(k) /\ r \in Records(k)
  BY DEF Retained, Kept
LEMMA RetainedArePrimed ==
  \A r : r \in Retained' <=> \E k : Kept(k)' /\ r \in Records(k)'
  BY DEF Retained, Kept

(* A kept file is one of the files. *)
LEMMA KeptAre ==
  ASSUME IInv, KFiles, KDir
  PROVE  /\ \A k : Kept(k) => k \in 1..Newest
         /\ Retained \subseteq 1..Len(stamps)
  <1>1. \A k : Kept(k) => k \in 1..Newest
    BY Numbers, Listing DEF Kept
  <1> QED BY <1>1, RetainedAre, Contents

(* Steps that change nothing a reader sees. *)
LEMMA Quiet ==
  ASSUME IInv, KFiles, KDir, UNCHANGED <<files, linked, stamps>>, Segments' = Segments
  PROVE  /\ KFiles' /\ Grows /\ Newest' = Newest /\ Top' = Top /\ Retained' = Retained /\ NewestKept
         /\ \A k \in 1..Newest : Records(k)' = Records(k)
  <1>1. KFiles' /\ Grows /\ Newest' = Newest /\ \A k \in 1..Newest : Records(k)' = Records(k)
    BY SameGrows
  <1>2. Top' = Top
    BY <1>1 DEF Top
  <1>3. \A k : Kept(k)' <=> Kept(k)
    BY <1>1 DEF Kept
  <1>4. \A k : Records(k)' = Records(k)
    BY DEF Records
  <1>5. Retained' = Retained
    BY <1>3, <1>4, RetainedAre, RetainedArePrimed
  <1>6. NewestKept
    BY <1>3 DEF NewestKept, Kept
  <1> QED BY <1>1, <1>2, <1>5, <1>6

(* Nothing a reader sees changes, so it is not disturbed. *)
LEMMA QuietIsSteady ==
  ASSUME IInv, KFiles, KDir, UNCHANGED <<files, linked, stamps>>, Segments' = Segments,
         NEW c \in Readers, KHad(c), c \notin disturbed
  PROVE  Steady(c)
  <1>1. Newest' = Newest /\ Retained' = Retained /\ \A k \in 1..Newest : Records(k)' = Records(k)
    BY Quiet
  <1>2. Sealed(c) => cursor[c].seg \in Segments
    BY DEF KHad
  <1>3. \A k \in Segments : Records(k)' = Records(k)
    BY <1>1, Listing
  <1> QED BY <1>1, <1>2, <1>3 DEF Steady

(* The readers stand still. *)
LEMMA StandStill ==
  ASSUME IInv, KInv, IInv', KFiles', Grows, UNCHANGED <<cursor, read>>,
         \A c \in Readers : c \notin disturbed' => c \notin disturbed /\ Steady(c),
         Collecting => Retained' \subseteq Retained,
         \A k \in Segments : k \in Segments' \/ Done(k), NewestKept
  PROVE  KReaders' /\ KNeeds' /\ KGc'
  <1>1. KFiles /\ KDir /\ KGc /\ KNeeds /\ \A c \in Readers : KShape(c) /\ KPlace(c) /\ KHad(c)
    BY DEF KInv, KFirm, KReaders, KReader
  <1>2. "gc" \in Readers /\ "analytics" \in Readers
    BY DEF Readers
  <1>3. ASSUME NEW c \in Readers
        PROVE  KReader(c)'
    <2>1. cursor'[c] = cursor[c] /\ read[c] \subseteq read'[c]
      OBVIOUS
    <2>2. c = "gc" /\ cursor[c].at = "again" => Collecting
      BY <1>1 DEF KGc, Off
    <2>3. KShape(c)' /\ KPlace(c)'
      BY <1>1, <2>1, <2>2, PlaceStays
    <2>4. Top' \in Nat
      BY NumbersNext DEF NumberFacts
    <2>5. KHad(c)'
      BY <1>1, <2>1, <2>4, HadStays
    <2> QED BY <2>3, <2>5 DEF KReader
  <1>4. KNeeds'
    BY <1>1, <1>2, NeedsStay
  <1>5. KGc'
    <2>1. "gc" \in disturbed => "gc" \in disturbed'
      BY <1>2
    <2> QED BY <1>1, <1>2, <2>1, GcStays
  <1> QED BY <1>3, <1>4, <1>5 DEF KReaders

(* All that is said of the readers stays, if nothing they see changes ... *)
LEMMA QuietStands ==
  ASSUME IInv, KInv, IInv', UNCHANGED <<files, linked, stamps, cursor, read, disturbed>>,
         Segments' = Segments
  PROVE  /\ KFiles' /\ KReaders' /\ KNeeds' /\ KGc' /\ Newest' = Newest /\ Top' = Top
         /\ Grows /\ NewestKept
  <1>1. KFiles /\ KDir /\ \A c \in Readers : KHad(c)
    BY DEF KInv, KFirm, KReaders, KReader
  <1>2. /\ KFiles' /\ Grows /\ Newest' = Newest /\ Top' = Top /\ Retained' = Retained /\ NewestKept
    BY <1>1, Quiet
  <1>3. \A c \in Readers : c \notin disturbed' => c \notin disturbed /\ Steady(c)
    BY <1>1, QuietIsSteady
  <1>4. KReaders' /\ KNeeds' /\ KGc'
    BY <1>2, <1>3, StandStill
  <1> QED BY <1>2, <1>4

(* Maintenance goes from stage to stage and keeps the position it took. *)
LEMMA QuietKeeps ==
  ASSUME IInv, KInv, IInv', KFiles', Grows, NewestKept, UNCHANGED <<cursor>>, Segments' = Segments,
         maint'.at \in Stages => maint.at \in Stages /\ maint'.keep = maint.keep,
         maint'.at = "prune" => maint.at = "prune" /\ maint'.keep = maint.keep
  PROVE  KKeep'
  <1>1. KFiles /\ KDir /\ KKeep /\ KShape("analytics")
    BY DEF KInv, KFirm, KReaders, KReader, Readers
  <1>2. \A k \in Segments' : k \in Segments
    OBVIOUS
  <1> QED BY <1>1, <1>2, KeepStays

(* The directory is still in order. *)
LEMMA DirStays ==
  ASSUME IInv, KDir, Newest' = Newest, Top' = Top, Segments' = Segments,
         \A n \in dir' : n \in dir \/ \E k \in 1..Newest : \E kind \in {"jsonl", "zst", "tmp"} : n = <<k, kind>>,
         maint'.at \in Stages \cup {"idle", "prune"}, due' \in BOOLEAN,
         maint'.at \in {"create", "pack", "publish", "unlink"} =>
           maint'.seg \in Segments /\ maint'.next \in {"pending", "resolve"}
  PROVE  KDir'
  <1>1. dir' \subseteq (1..Newest') \X {"jsonl", "zst", "tmp"}
    BY DEF KDir
  <1>2. \E m \in 1..(Top' + 1) : Segments' = m..Top'
    BY DEF KDir
  <1> QED BY <1>1, <1>2 DEF KDir

-----------------------------------------------------------------------------
(* Days and appends                                                        *)

(* A day passes. *)
LEMMA TomorrowKeeps ==
  ASSUME IInv, KInv, IInv', Tomorrow
  PROVE  KInv'
  <1>1. /\ UNCHANGED <<files, linked, dir, stamps, cursor, read, disturbed, maint, blobs, collects, crashes>>
        /\ today' = today + 1 /\ today < MaxDay /\ due' = (due \/ maint.at = "idle")
    BY DEF Tomorrow, journalVars, readerVars, boundVars
  <1>2. Segments' = Segments
    BY <1>1 DEF Segments
  <1>3. /\ KFiles' /\ KReaders' /\ KNeeds' /\ KGc' /\ Newest' = Newest /\ Top' = Top /\ Grows /\ NewestKept
    BY <1>1, <1>2, QuietStands
  <1>4. KKeep'
    BY <1>1, <1>2, <1>3, QuietKeeps
  <1>5. KDir /\ KDays /\ Counts
    BY DEF KInv, KFirm
  <1>6. due' \in BOOLEAN
    BY <1>1
  <1>7. KDir'
    BY <1>1, <1>2, <1>3, <1>5, <1>6, DirStays DEF KDir
  <1>8. KDays'
    <2>1. /\ today \in 1..MaxDay /\ MaxDay \in Nat
          /\ \A r \in 1..Len(stamps) : stamps[r] \in 1..today
          /\ \A r, s \in 1..Len(stamps) : r <= s => stamps[r] <= stamps[s]
      BY <1>5, JournalAssumption DEF KDays
    <2>2. today' \in 1..MaxDay /\ \A n \in 1..today : n \in 1..today'
      BY <1>1, <2>1
    <2> QED BY <1>1, <2>1, <2>2 DEF KDays
  <1>9. Counts'
    BY <1>1, <1>5 DEF Counts
  <1> QED BY <1>3, <1>4, <1>7, <1>8, <1>9 DEF KInv, KFirm

(* A record is appended: behind every cursor that is not at the end of the journal. *)
LEMMA AppendKeepsReaders ==
  ASSUME IInv, KInv, IInv', AppendRecord
  PROVE  KInv'
  <1>1. /\ UNCHANGED <<linked, dir, today, cursor, read, disturbed, maint, collects, crashes, due>>
        /\ stamps' = Append(stamps, today) /\ blobs' = blobs \cup {Len(stamps) + 1} /\ ~Collecting
    BY DEF AppendRecord, readerVars, boundVars
  <1>2. Segments' = Segments
    BY <1>1 DEF Segments
  <1>3. KFiles /\ KDir /\ KDays /\ Counts /\ (\A c \in Readers : KHad(c)) /\ KShape("analytics") /\ KKeep
    BY DEF KInv, KFirm, KReaders, KReader, Readers
  <1>4. /\ KFiles' /\ Grows /\ Newest' = Newest /\ Top' = Top /\ linked
        /\ Records(Newest)' = Records(Newest) \cup {Len(stamps) + 1}
        /\ \A k \in 1..Newest : k # Newest => Records(k)' = Records(k)
    BY <1>3, AppendGrows
  <1>5. /\ Newest \in Nat /\ Top = Newest - 1 /\ Len(stamps) \in Nat /\ stamps \in Seq(Nat)
    BY <1>3, <1>4, Numbers DEF IInv, IShape
  <1>6. \A k \in Segments : k \in 1..Newest /\ k # Newest
    BY <1>3, <1>5, Listing
  <1>7. \A k : Kept(k)' <=> Kept(k)
    BY <1>1, <1>2, <1>4 DEF Kept
  <1>8. NewestKept
    BY <1>7 DEF NewestKept, Kept
  <1>9. ASSUME NEW c \in Readers, c \notin disturbed'
        PROVE  c \notin disturbed /\ Steady(c)
    <2>1. c \notin disturbed
      BY <1>1, <1>9
    <2>2. \A r \in Retained' : r \in Retained \/ r = Len(stamps) + 1
      <3> SUFFICES ASSUME NEW r \in Retained', r # Len(stamps) + 1
                   PROVE  r \in Retained
        OBVIOUS
      <3>1. PICK k : Kept(k) /\ r \in Records(k)'
        BY <1>7, RetainedArePrimed
      <3>2. k \in 1..Newest
        BY <1>3, <3>1, KeptAre
      <3>3. r \in Records(k)
        BY <1>4, <3>1, <3>2
      <3> QED BY <3>1, <3>3, RetainedAre
    <2>3. Sealed(c) => cursor[c].seg \in Segments
      BY <1>3, <2>1 DEF KHad
    <2> QED BY <1>1, <1>2, <1>4, <1>6, <2>1, <2>2, <2>3 DEF Steady
  <1>10. KReaders' /\ KNeeds' /\ KGc'
    BY <1>1, <1>2, <1>4, <1>8, <1>9, StandStill
  <1>11. KKeep'
    <2>1. maint'.at = maint.at /\ maint'.keep = maint.keep
      BY <1>1
    <2> QED BY <1>1, <1>2, <1>4, <1>8, <2>1, QuietKeeps
  <1>12. KDir'
    BY <1>1, <1>2, <1>3, <1>4, DirStays DEF KDir
  <1>13. /\ Len(stamps') = Len(stamps) + 1 /\ stamps'[Len(stamps) + 1] = today
         /\ \A r \in 1..Len(stamps) : stamps'[r] = stamps[r]
    BY <1>1, <1>5
  <1>14. \A r \in 1..Len(stamps') : r \in 1..Len(stamps) \/ r = Len(stamps) + 1
    BY <1>5, <1>13
  <1>15. KDays'
    <2>1. /\ today \in 1..MaxDay /\ MaxDay \in Nat
          /\ \A r \in 1..Len(stamps) : stamps[r] \in 1..today
          /\ \A r, s \in 1..Len(stamps) : r <= s => stamps[r] <= stamps[s]
      BY <1>3, JournalAssumption DEF KDays
    <2>2. \A r \in 1..Len(stamps') : stamps'[r] \in 1..today
      BY <1>13, <1>14, <2>1
    <2>3. ASSUME NEW r \in 1..Len(stamps'), NEW s \in 1..Len(stamps'), r <= s
          PROVE  stamps'[r] <= stamps'[s]
      <3>1. CASE s = Len(stamps) + 1
        <4>1. stamps'[s] = today /\ stamps'[r] \in 1..today
          BY <1>13, <2>2, <3>1
        <4> QED BY <2>1, <4>1
      <3>2. CASE s \in 1..Len(stamps)
        <4>1. r \in 1..Len(stamps)
          BY <1>5, <2>3, <3>2
        <4> QED BY <1>13, <2>1, <2>3, <3>2, <4>1
      <3> QED BY <1>14, <3>1, <3>2
    <2> QED BY <1>1, <2>1, <2>2, <2>3 DEF KDays
  <1>16. Counts'
    <2>1. \A n \in 1..Len(stamps) : n \in 1..Len(stamps')
      BY <1>5, <1>13
    <2>2. Len(stamps) + 1 \in 1..Len(stamps')
      BY <1>5, <1>13
    <2>3. blobs' \subseteq 1..Len(stamps')
      BY <1>1, <1>3, <2>1, <2>2 DEF Counts
    <2>4. \A c \in Readers : read'[c] \subseteq 1..Len(stamps')
      BY <1>1, <1>3, <2>1 DEF Counts
    <2> QED BY <1>1, <1>3, <2>3, <2>4 DEF Counts
  <1> QED BY <1>4, <1>10, <1>11, <1>12, <1>15, <1>16 DEF KInv, KFirm

(* What other steps leave alone. *)
LEMMA DaysStay ==
  ASSUME KDays, UNCHANGED <<stamps, today>>
  PROVE  KDays'
  BY DEF KDays

LEMMA CountsStay ==
  ASSUME Counts, UNCHANGED <<stamps, blobs, cursor, read, collects, crashes>>, disturbed' \subseteq Readers
  PROVE  Counts'
  BY DEF Counts

-----------------------------------------------------------------------------
(* Maintenance                                                             *)

(* Steps of maintenance that leave the segments as they are, up to Resolve. *)
LEMMA SegmentsStay ==
  ASSUME IInv, KDir, Pack \/ PackFails \/ Publish \/ Unlink
  PROVE  Segments' = Segments
  <1>s. maint = [at |-> maint.at, now |-> maint.now, seg |-> maint.seg, next |-> maint.next, keep |-> maint.keep]
    BY DEF IInv, IShape
  <1>1. CASE Pack \/ PackFails
    <2>1. \A n \in dir' : n[2] # "tmp" => n \in dir
      BY <1>1 DEF Pack, PackFails
    <2>2. \A n \in dir : n[2] # "tmp" => n \in dir'
      BY <1>1 DEF Pack, PackFails
    <2> QED BY <2>1, <2>2, SegmentsAre, SegmentsArePrimed
  <1>2. CASE Publish
    <2>1. maint.seg \in Segments
      BY <1>2 DEF KDir, Publish
    <2>2. \A n \in dir' : n[2] # "tmp" => n \in dir \/ n = <<maint.seg, "zst">>
      BY <1>2 DEF Publish
    <2>3. \A n \in dir : n[2] # "tmp" => n \in dir'
      BY <1>2 DEF Publish
    <2>4. \A k \in Segments : k \in Segments'
      BY <2>3, SegmentsAre, SegmentsArePrimed
    <2>5. \A k \in Segments' : k \in Segments
      <3> SUFFICES ASSUME NEW n \in dir', n[2] # "tmp" PROVE n[1] \in Segments
        BY SegmentsArePrimed
      <3> QED BY <2>1, <2>2, SegmentsAre
    <2> QED BY <2>4, <2>5
  <1>3. CASE Unlink
    <2>1. <<maint.seg, "zst">> \in dir /\ dir' = dir \ {<<maint.seg, "jsonl">>}
      BY <1>3 DEF IInv, ISteps, Unlink
    <2>2. \A k \in Segments' : k \in Segments
      BY <2>1, SegmentsAre, SegmentsArePrimed
    <2>3. \A k \in Segments : k \in Segments'
      <3> SUFFICES ASSUME NEW n \in dir, n[2] # "tmp" PROVE n[1] \in Segments'
        BY SegmentsAre
      <3>1. CASE n = <<maint.seg, "jsonl">>
        <4>1. <<maint.seg, "zst">> \in dir' /\ n[1] = maint.seg
          BY <2>1, <3>1
        <4> QED BY <4>1, SegmentsArePrimed
      <3>2. CASE n # <<maint.seg, "jsonl">>
        BY <2>1, <3>2, SegmentsArePrimed
      <3> QED BY <3>1, <3>2
    <2> QED BY <2>2, <2>3
  <1> QED BY <1>1, <1>2, <1>3

(* Compressing a segment changes its name, and no reader sees that. *)
LEMMA PackingKeeps ==
  ASSUME IInv, KInv, IInv', Pack \/ PackFails \/ Publish \/ Unlink
  PROVE  KInv'
  <1>s. maint = [at |-> maint.at, now |-> maint.now, seg |-> maint.seg, next |-> maint.next, keep |-> maint.keep]
    BY DEF IInv, IShape
  <1>1. KDir /\ KDays /\ Counts /\ KFiles
    BY DEF KInv, KFirm
  <1>2. UNCHANGED <<files, linked, stamps, cursor, read, disturbed, blobs, today, collects, crashes>>
    BY DEF Pack, PackFails, Publish, Unlink, OnlyMaint, readerVars, boundVars
  <1>3. Segments' = Segments
    BY <1>1, SegmentsStay
  <1>4. /\ KFiles' /\ KReaders' /\ KNeeds' /\ KGc' /\ Newest' = Newest /\ Top' = Top /\ Grows /\ NewestKept
    BY <1>2, <1>3, QuietStands
  <1>5. maint.at \in {"pack", "publish", "unlink"}
    BY DEF Pack, PackFails, Publish, Unlink
  <1>6. maint.seg \in Segments /\ maint.next \in {"pending", "resolve"} /\ due \in BOOLEAN
    BY <1>1, <1>5 DEF KDir
  <1>7. /\ maint' = Resting \/ \E l \in {"publish", "unlink", maint.next} : maint' = [maint EXCEPT !.at = l]
        /\ due' \in BOOLEAN
    BY <1>6 DEF Pack, PackFails, Publish, Unlink, Turn, RestNow
  <1>8. /\ maint'.at \in Stages \cup {"idle"}
        /\ maint'.at # "idle" => maint'.seg = maint.seg /\ maint'.next = maint.next /\ maint'.keep = maint.keep
    BY <1>s, <1>6, <1>7 DEF Resting, Stages
  <1>9. KKeep'
    BY <1>2, <1>3, <1>4, <1>5, <1>8, QuietKeeps DEF Stages
  <1>10. \A n \in dir' : n \in dir \/ \E k \in 1..Newest : \E kind \in {"jsonl", "zst", "tmp"} : n = <<k, kind>>
    <2>1. maint.seg \in 1..Newest
      BY <1>1, <1>6, Listing
    <2>2. \A n \in dir' : n \in dir \/ n = <<maint.seg, "tmp">> \/ n = <<maint.seg, "zst">>
      BY DEF Pack, PackFails, Publish, Unlink
    <2> QED BY <2>1, <2>2
  <1>11. KDir'
    BY <1>1, <1>3, <1>4, <1>6, <1>7, <1>8, <1>10, DirStays
  <1>12. KDays'
    BY <1>1, <1>2, DaysStay
  <1>13. disturbed' \subseteq Readers
    BY <1>1, <1>2 DEF Counts
  <1>14. Counts'
    BY <1>1, <1>2, <1>13, CountsStay
  <1> QED BY <1>4, <1>9, <1>11, <1>12, <1>14 DEF KInv, KFirm

(* The steps in which maintenance decides what to do. *)
LEMMA PlanningKeeps ==
  ASSUME IInv, KInv, IInv', Maintain \/ Pending \/ Resolve
  PROVE  KInv'
  <1>s. maint = [at |-> maint.at, now |-> maint.now, seg |-> maint.seg, next |-> maint.next, keep |-> maint.keep]
    BY DEF IInv, IShape
  <1>1. KDir /\ KDays /\ Counts /\ KFiles /\ KKeep /\ KNeeds /\ KShape("analytics") /\ KPlace("analytics")
    BY DEF KInv, KFirm, KReaders, KReader, Readers
  <1>2. UNCHANGED <<files, linked, dir, stamps, cursor, read, disturbed, blobs, today, collects, crashes, due>>
    BY DEF Maintain, Pending, Resolve, OnlyMaint, readerVars, boundVars, journalVars
  <1>3. Segments' = Segments
    BY <1>2 DEF Segments
  <1>4. /\ KFiles' /\ KReaders' /\ KNeeds' /\ KGc' /\ Newest' = Newest /\ Top' = Top /\ Grows /\ NewestKept
    BY <1>2, <1>3, QuietStands
  <1>5. KDir' /\ KKeep'
    <2>1. CASE Maintain
      <3> DEFINE a == cursor["analytics"]
      <3>1. /\ maint'.at = "pending" /\ maint'.keep.seg = a.seg /\ maint'.keep.last = a.last
        BY <2>1 DEF Maintain, Resting
      <3>2. KDir'
        BY <1>1, <1>2, <1>3, <1>4, <3>1, DirStays DEF KDir, Stages
      <3>3. /\ a.seg \in (0..Top) \cup {Active} /\ a.last \in 0..Len(stamps)
            /\ Sealed("analytics") <=> a.seg \in 1..Top
        BY <1>1, ShapeFacts DEF KShape
      <3>4. a.seg = Active => a.last # 0
        BY <1>1 DEF KPlace
      <3>5. \A k \in Segments : Records(k)' = Records(k)
        BY <1>2 DEF Records
      <3>6. Sealed("analytics")' = Sealed("analytics")
        BY <1>2 DEF Sealed
      <3>7. \A k \in Segments : Done(k)' = Done(k)
        BY <1>2, <3>5, <3>6 DEF Done, Past
      <3>8. CASE Sealed("analytics")
        <4>1. \A k \in Segments : k < a.seg => Done(k)'
          BY <3>7, <3>8 DEF Done
        <4>2. Behind(maint.keep.seg)'
          BY <1>3, <3>1, <4>1 DEF Behind
        <4> QED BY <1>2, <1>4, <3>1, <3>2, <3>3, <3>8, <4>2 DEF KKeep, Stages
      <3>9. CASE ~Sealed("analytics")
        <4>1. \A k \in Segments : Past(a.last, k) => Done(k)'
          BY <3>7, <3>9 DEF Done
        <4>2. BehindRecord(maint.keep.last)'
          BY <1>3, <3>1, <3>5, <4>1 DEF BehindRecord, Past
        <4>3. Found(a.last)
          BY <1>1, <3>9 DEF KNeeds
        <4>4. Found(maint.keep.last)'
          BY <1>2, <1>3, <1>4, <3>1, <4>3 DEF Found, Kept, Records
        <4> QED BY <1>2, <1>4, <3>1, <3>2, <3>3, <3>4, <3>9, <4>2, <4>4 DEF KKeep, Stages
      <3> QED BY <3>8, <3>9
    <2>2. CASE Pending
      <3>1. /\ maint.at = "pending"
            /\ \/ maint' = [maint EXCEPT !.at = "detach"]
               \/ /\ {k \in Segments : <<k, "jsonl">> \in dir} # {}
                  /\ maint' = [maint EXCEPT !.at = "pack", !.seg = Min({k \in Segments : <<k, "jsonl">> \in dir}), !.next = "pending"]
        BY <2>2 DEF Pending, Turn
      <3>2. maint.at \in Stages /\ maint'.at \in {"detach", "pack"} /\ maint'.keep = maint.keep
        BY <1>s, <3>1 DEF Stages
      <3>3. KKeep'
        BY <1>2, <1>3, <1>4, <3>2, QuietKeeps
      <3>4. maint'.at = "pack" => maint'.seg \in Segments /\ maint'.next = "pending"
        <4> SUFFICES ASSUME maint'.at = "pack"
                     PROVE  maint'.seg \in Segments /\ maint'.next = "pending"
          OBVIOUS
        <4> DEFINE S == {k \in Segments : <<k, "jsonl">> \in dir}
        <4>1. S # {} /\ maint'.seg = Min(S) /\ maint'.next = "pending"
          BY <1>s, <3>1
        <4>2. S \subseteq Nat
          BY <1>1, Listing
        <4>3. Min(S) \in S
          BY <4>1, <4>2, LeastNatural
        <4> QED BY <4>1, <4>3
      <3>5. KDir'
        BY <1>1, <1>2, <1>3, <1>4, <3>2, <3>4, DirStays DEF KDir, Stages
      <3> QED BY <3>3, <3>5
    <2>3. CASE Resolve
      <3> DEFINE p == maint.keep.seg
                 r == maint.keep.last
                 where == {k \in Segments : r \in Records(k)}
                 s == IF Retention = 0 \/ p \notin {0, Active} THEN p
                      ELSE IF where # {} THEN CHOOSE k \in where : TRUE
                      ELSE IF p = Active \/ r # 0 THEN Active
                      ELSE IF Segments # {} THEN Min(Segments) ELSE 0
      <3>1. /\ maint.at = "resolve" /\ maint'.at = "prune" /\ maint'.keep.seg = s
        BY <1>s, <2>3 DEF Resolve
      <3>2. KDir'
        BY <1>1, <1>2, <1>3, <1>4, <3>1, DirStays DEF KDir, Stages
      <3>3. /\ p \in (0..Top) \cup {Active} /\ r \in 0..Len(stamps)
            /\ IF p \in 1..Top THEN Behind(p)
               ELSE /\ BehindRecord(r) /\ Found(r)
                    /\ p = Active => r # 0
        BY <1>1, <3>1 DEF KKeep, Stages
      <3>4. /\ Top \in Nat /\ Newest \in Nat /\ Newest < Active /\ Top <= Newest /\ Len(stamps) \in Nat
            /\ Retention \in Nat
        BY <1>1, Numbers, JournalAssumption
      <3>5. ASSUME Retention > 0, s # 0
            PROVE  Behind(s)
        <4>1. CASE p \notin {0, Active}
          <5>1. p \in 1..Top /\ s = p
            BY <3>3, <3>4, <4>1
          <5> QED BY <3>3, <5>1
        <4>2. CASE p \in {0, Active}
          <5>1. BehindRecord(r) /\ Found(r) /\ (p = Active => r # 0)
            BY <3>3, <3>4, <4>2
          <5>2. s = IF where # {} THEN CHOOSE k \in where : TRUE
                      ELSE IF p = Active \/ r # 0 THEN Active
                      ELSE IF Segments # {} THEN Min(Segments) ELSE 0
            BY <3>4, <3>5, <4>2
          <5> HIDE DEF s
          <5>3. CASE where # {}
            <6>1. s \in Segments /\ r \in Records(s)
              BY <5>2, <5>3
            <6>2. \A k \in Segments : k < s => Past(r, k)
              <7> SUFFICES ASSUME NEW k \in Segments, k < s
                           PROVE  Past(r, k)
                OBVIOUS
              <7>1. s \in 1..Newest /\ k \in 1..Newest /\ Records(k) # {}
                BY <1>1, <6>1, Listing, Contents
              <7> QED BY <1>1, <6>1, <7>1, PastIsLater
            <6> QED BY <5>1, <6>2 DEF Behind, BehindRecord
          <5>4. CASE where = {} /\ (p = Active \/ r # 0)
            <6>1. r \in 1..Len(stamps)
              BY <3>3, <3>4, <5>1, <5>4
            <6>2. PICK j \in 1..Newest : r \in Records(j)
              BY <1>1, <6>1 DEF KFiles
            <6>3. Kept(j) /\ j \notin Segments
              BY <5>1, <5>4, <6>2 DEF Found
            <6>4. j = Newest /\ linked
              BY <6>3 DEF Kept
            <6>5. \A k \in Segments : Past(r, k)
              <7> SUFFICES ASSUME NEW k \in Segments
                           PROVE  Past(r, k)
                OBVIOUS
              <7>1. k \in 1..Top /\ k \in 1..Newest /\ Records(k) # {}
                BY <1>1, Listing, Contents
              <7>2. k < j
                BY <1>1, <6>4, <7>1, Numbers
              <7> QED BY <1>1, <6>2, <7>1, <7>2, PastIsLater
            <6> QED BY <5>1, <6>5 DEF Behind, BehindRecord
          <5>5. CASE where = {} /\ ~(p = Active \/ r # 0)
            <6>1. Segments # {} /\ s = Min(Segments)
              BY <3>5, <5>2, <5>5
            <6>2. \A k \in Segments : ~(k < s)
              <7>1. \A k \in Segments : s <= k /\ s \in Nat /\ k \in Nat
                BY <1>1, <6>1, Listing
              <7> QED BY <7>1
            <6> QED BY <6>2 DEF Behind
          <5> QED BY <5>3, <5>4, <5>5
        <4> QED BY <4>1, <4>2
      <3>6. \A k \in Segments : Done(k)' = Done(k)
        <4>1. \A k \in Segments : Records(k)' = Records(k)
          BY <1>2 DEF Records
        <4>2. Sealed("analytics")' = Sealed("analytics")
          BY <1>2 DEF Sealed
        <4> QED BY <1>2, <4>1, <4>2 DEF Done, Past
      <3>8. s \in Nat
        <4>1. \A k \in Segments : k \in Nat
          BY <1>1, Listing
        <4>2. Segments # {} => Min(Segments) \in Nat
          BY <1>1, <4>1, Listing
        <4>3. p \in Nat /\ Active \in Nat
          BY <1>1, <3>3, <3>4, Numbers
        <4>4. where # {} => (CHOOSE k \in where : TRUE) \in Nat
          BY <4>1
        <4> QED BY <4>2, <4>3, <4>4
      <3> HIDE DEF s
      <3>7. Retention > 0 /\ s # 0 => Behind(maint.keep.seg)'
        BY <1>3, <3>1, <3>5, <3>6 DEF Behind
      <3> QED BY <3>1, <3>2, <3>7, <3>8 DEF KKeep, Stages
    <2> QED BY <2>1, <2>2, <2>3
  <1>12. KDays'
    BY <1>1, <1>2, DaysStay
  <1>13. disturbed' \subseteq Readers
    BY <1>1, <1>2 DEF Counts
  <1>14. Counts'
    BY <1>1, <1>2, <1>13, CountsStay
  <1> QED BY <1>4, <1>5, <1>12, <1>14 DEF KInv, KFirm

(* The journal becomes a segment; a cursor that has it open keeps the file. *)
LEMMA DetachKeeps ==
  ASSUME IInv, KInv, IInv', Detach
  PROVE  KInv'
  <1>s. maint = [at |-> maint.at, now |-> maint.now, seg |-> maint.seg, next |-> maint.next, keep |-> maint.keep]
    BY DEF IInv, IShape
  <1>1. KDir /\ KDays /\ Counts /\ KFiles /\ KKeep /\ KShape("analytics") /\ \A c \in Readers : KHad(c) /\ KShape(c)
    BY DEF KInv, KFirm, KReaders, KReader, Readers
  <1>2. /\ UNCHANGED <<files, stamps, cursor, read, blobs, today, collects, crashes, due>>
        /\ maint.at = "detach" /\ linked
    BY DEF Detach, OnlyMaint, readerVars, boundVars, IInv, ISteps
  <1>3. CASE UNCHANGED <<dir, linked, disturbed>> /\ maint' = [maint EXCEPT !.at = "resolve"]
    <2>1. Segments' = Segments
      BY <1>3 DEF Segments
    <2>2. /\ KFiles' /\ KReaders' /\ KNeeds' /\ KGc' /\ Newest' = Newest /\ Top' = Top /\ Grows /\ NewestKept
      BY <1>2, <1>3, <2>1, QuietStands
    <2>3. maint'.at = "resolve" /\ maint'.keep = maint.keep
      BY <1>s, <1>3
    <2>4. KKeep'
      BY <1>2, <2>1, <2>2, <2>3, QuietKeeps DEF Stages
    <2>5. KDir'
      BY <1>1, <1>2, <1>3, <2>1, <2>2, <2>3, DirStays DEF KDir, Stages
    <2>6. KDays'
      BY <1>1, <1>2, DaysStay
    <2>7. disturbed' \subseteq Readers
      BY <1>1, <1>3 DEF Counts
    <2>8. Counts'
      BY <1>1, <1>2, <2>7, CountsStay
    <2> QED BY <2>2, <2>4, <2>5, <2>6, <2>8 DEF KInv, KFirm
  <1>4. CASE /\ files[Newest] # <<>>
             /\ dir' = dir \cup {<<Newest, "jsonl">>} /\ linked' = FALSE
             /\ maint' = [maint EXCEPT !.at = "create", !.seg = Newest, !.next = "resolve"]
             /\ disturbed' = disturbed \cup {c \in Readers : cursor[c].at # "idle"}
    <2>1. /\ KFiles' /\ Grows /\ Newest' = Newest
          /\ \A k \in 1..Newest : Records(k)' = Records(k)
      BY <1>1, <1>2, <1>4, SameGrows
    <2>2. /\ Newest \in Nat /\ Newest >= 1 /\ Top = Newest - 1 /\ Top \in Nat /\ Top' = Newest
      BY <1>1, <1>2, <1>4, <2>1, Numbers DEF Top
    <2>3. Segments' = Segments \cup {Newest}
      <3>1. \A n \in dir' : n \in dir \/ n = <<Newest, "jsonl">>
        BY <1>4
      <3>2. \A k \in Segments' : k \in Segments \/ k = Newest
        BY <3>1, SegmentsAre, SegmentsArePrimed
      <3>3. <<Newest, "jsonl">> \in dir' /\ \A n \in dir : n \in dir'
        BY <1>4
      <3>4. Newest \in Segments'
        <4>1. <<Newest, "jsonl">>[1] = Newest /\ <<Newest, "jsonl">>[2] # "tmp"
          OBVIOUS
        <4> QED BY <3>3, <4>1, SegmentsArePrimed
      <3>5. \A k \in Segments : k \in Segments'
        BY <3>3, SegmentsAre, SegmentsArePrimed
      <3> QED BY <3>2, <3>4, <3>5
    <2>4. \A k : Kept(k)' <=> Kept(k)
      BY <1>2, <1>4, <2>1, <2>3 DEF Kept
    <2>5. Retained' = Retained
      <3>1. \A k : Records(k)' = Records(k)
        BY <1>2 DEF Records
      <3> QED BY <2>4, <3>1, RetainedAre, RetainedArePrimed
    <2>6. NewestKept
      BY <2>4 DEF NewestKept, Kept
    <2>7. ASSUME NEW c \in Readers, c \notin disturbed'
          PROVE  c \notin disturbed /\ Steady(c)
      <3>1. c \notin disturbed /\ cursor[c].at = "idle"
        BY <1>4, <2>7
      <3>2. Sealed(c) => cursor[c].seg \in Segments
        BY <1>1, <3>1 DEF KHad
      <3>3. \A k \in Segments : Records(k)' = Records(k)
        BY <1>1, <2>1, Listing
      <3> QED BY <1>2, <2>3, <2>5, <3>1, <3>2, <3>3 DEF Steady
    <2>8. KReaders' /\ KNeeds' /\ KGc'
      BY <1>2, <2>1, <2>3, <2>5, <2>6, <2>7, StandStill
    <2>9. /\ maint'.at = "create" /\ maint'.seg = Newest /\ maint'.next = "resolve" /\ maint'.keep = maint.keep
      BY <1>s, <1>4
    <2>10. KKeep'
      <3>1. Records(Newest) # {} /\ Newest \in 1..Newest
        BY <1>1, <1>4, <2>2, Contents
      <3>2. \A k \in Segments' :
              k \in Segments \/ (k = Newest /\ linked /\ Records(k)' = Records(k) /\ Records(k) # {})
        BY <1>2, <2>1, <2>3, <3>1
      <3> QED BY <1>1, <1>2, <2>1, <2>3, <2>6, <2>9, <3>2, KeepStays DEF Stages
    <2>11. KDir'
      <3>1. dir' \subseteq (1..Newest') \X {"jsonl", "zst", "tmp"}
        BY <1>1, <1>4, <2>1, <2>2 DEF KDir
      <3>2. \E m \in 1..(Top' + 1) : Segments' = m..Top'
        <4>1. PICK m \in 1..(Top + 1) : Segments = m..Top
          BY <1>1 DEF KDir
        <4>2. m \in 1..(Top' + 1)
          BY <2>2, <4>1
        <4>3. m..Newest = (m..Top) \cup {Newest}
          BY <2>2, <4>1
        <4> QED BY <2>2, <2>3, <4>1, <4>2, <4>3
      <3> QED BY <1>1, <1>2, <2>3, <2>9, <3>1, <3>2 DEF KDir, Stages
    <2>12. KDays'
      BY <1>1, <1>2, DaysStay
    <2>13. disturbed' \subseteq Readers
      BY <1>1, <1>4 DEF Counts
    <2>14. Counts'
      BY <1>1, <1>2, <2>13, CountsStay
    <2> QED BY <2>1, <2>8, <2>10, <2>11, <2>12, <2>14 DEF KInv, KFirm
  <1> QED BY <1>3, <1>4 DEF Detach, Turn

(* commits.jsonl is there again: an empty file, if it was gone. *)
LEMMA CreatedStays ==
  ASSUME IInv, KInv, files' = Created, linked' = TRUE, UNCHANGED <<dir, stamps>>
  PROVE  /\ KFiles' /\ Grows /\ Top' = Top /\ Newest' \in Nat /\ Newest' >= Newest
         /\ Segments' = Segments /\ Retained' = Retained /\ NewestKept
         /\ \A k \in 1..Newest : Records(k)' = Records(k)
         /\ linked => Newest' = Newest
  <1>1. KDir /\ KFiles
    BY DEF KInv, KFirm
  <1>2. /\ KFiles' /\ Grows /\ Top' = Top
        /\ \A k \in 1..Newest : Records(k)' = Records(k)
        /\ Records(Newest)' = IF linked THEN Records(Newest) ELSE {}
    BY <1>1, CreatedGrows
  <1>3. Segments' = Segments
    BY DEF Segments
  <1>4. Newest \in Nat /\ Newest >= 1 /\ (linked => Top = Newest - 1) /\ (~linked => Top = Newest)
    BY <1>1, Numbers
  <1>5. /\ linked => Newest' = Newest
        /\ ~linked => Newest' = Newest + 1
    BY DEF Newest, Created, IInv, IShape
  <1>6. \A k : Kept(k)' <=> Kept(k) \/ (~linked /\ k = Newest')
    BY <1>3, <1>5 DEF Kept
  <1>7. Retained' = Retained
    <2>1. ASSUME NEW r \in Retained'
          PROVE  r \in Retained
      <3>1. PICK k : Kept(k)' /\ r \in Records(k)'
        BY <2>1, RetainedArePrimed
      <3>2. CASE ~linked /\ k = Newest'
        BY <1>2, <3>1, <3>2
      <3>3. CASE Kept(k)
        BY <1>1, <1>2, <3>1, <3>3, KeptAre, RetainedAre
      <3> QED BY <1>6, <3>1, <3>2, <3>3
    <2>2. ASSUME NEW r \in Retained
          PROVE  r \in Retained'
      <3>1. PICK k : Kept(k) /\ r \in Records(k)
        BY <2>2, RetainedAre
      <3> QED BY <1>1, <1>2, <1>6, <3>1, KeptAre, RetainedArePrimed
    <2> QED BY <2>1, <2>2
  <1>8. NewestKept
    <2>1. \A k : Kept(k) => Kept(k)'
      BY <1>6
    <2> QED BY <2>1 DEF NewestKept, Kept
  <1> QED BY <1>2, <1>3, <1>4, <1>5, <1>7, <1>8

(* The directory does not change when commits.jsonl is created. *)
LEMMA CreatedDir ==
  ASSUME IInv, KInv, files' = Created, linked' = TRUE, UNCHANGED <<dir, stamps>>, due' \in BOOLEAN,
         maint'.at \in Stages \cup {"idle", "prune"},
         maint'.at \in {"create", "pack", "publish", "unlink"} =>
           maint'.seg \in Segments /\ maint'.next \in {"pending", "resolve"}
  PROVE  KDir'
  <1>1. /\ Top' = Top /\ Newest' \in Nat /\ Newest' >= Newest /\ Segments' = Segments
    BY CreatedStays
  <1>2. KDir /\ Newest \in Nat
    BY Numbers DEF KInv, KFirm
  <1>3. \A k \in 1..Newest : k \in 1..Newest'
    BY <1>1, <1>2
  <1>4. dir' \subseteq (1..Newest') \X {"jsonl", "zst", "tmp"}
    BY <1>2, <1>3 DEF KDir
  <1> QED BY <1>1, <1>2, <1>4 DEF KDir

(* A new journal is created. *)
LEMMA CreateKeeps ==
  ASSUME IInv, KInv, IInv', Create
  PROVE  KInv'
  <1>s. maint = [at |-> maint.at, now |-> maint.now, seg |-> maint.seg, next |-> maint.next, keep |-> maint.keep]
    BY DEF IInv, IShape
  <1>1. KDir /\ KDays /\ Counts /\ KFiles /\ KKeep /\ KShape("analytics") /\ \A c \in Readers : KHad(c) /\ KShape(c)
    BY DEF KInv, KFirm, KReaders, KReader, Readers
  <1>2. /\ UNCHANGED <<dir, stamps, cursor, read, blobs, today, collects, crashes, due, disturbed>>
        /\ maint.at = "create" /\ files' = Created /\ linked' = TRUE /\ maint' = [maint EXCEPT !.at = "pack"]
    BY DEF Create, OnlyMaint, readerVars, boundVars, Turn
  <1>3. /\ KFiles' /\ Grows /\ Top' = Top /\ Newest' \in Nat /\ Newest' >= Newest
        /\ Segments' = Segments /\ Retained' = Retained /\ NewestKept
        /\ \A k \in 1..Newest : Records(k)' = Records(k)
        /\ linked => Newest' = Newest
    BY <1>2, CreatedStays
  <1>4. ASSUME NEW c \in Readers, c \notin disturbed'
        PROVE  c \notin disturbed /\ Steady(c)
    <2>1. c \notin disturbed
      BY <1>2, <1>4
    <2>2. Sealed(c) => cursor[c].seg \in Segments
      BY <1>1, <2>1 DEF KHad
    <2>3. \A k \in Segments : Records(k)' = Records(k)
      BY <1>1, <1>3, Listing
    <2> QED BY <1>2, <1>3, <2>1, <2>2, <2>3 DEF Steady
  <1>5. KReaders' /\ KNeeds' /\ KGc'
    BY <1>2, <1>3, <1>4, StandStill
  <1>6. maint'.at = "pack" /\ maint'.seg = maint.seg /\ maint'.next = maint.next /\ maint'.keep = maint.keep
    BY <1>s, <1>2
  <1>7. KKeep'
    BY <1>2, <1>3, <1>6, QuietKeeps DEF Stages
  <1>8. maint.seg \in Segments /\ maint.next \in {"pending", "resolve"}
    BY <1>1, <1>2 DEF KDir
  <1>9. KDir'
    BY <1>1, <1>2, <1>6, <1>8, CreatedDir DEF Stages, KDir
  <1>12. KDays'
    <2>1. UNCHANGED <<stamps, today>>
      BY <1>2
    <2> QED BY <1>1, <2>1, DaysStay
  <1>13. disturbed' \subseteq Readers
    BY <1>1, <1>2 DEF Counts
  <1>14. Counts'
    BY <1>1, <1>2, <1>13, CountsStay
  <1> QED BY <1>3, <1>5, <1>7, <1>9, <1>12, <1>14 DEF KInv, KFirm

(* Segments expire in order, so pruning takes the oldest. *)
LEMMA OldestExpiresFirst ==
  ASSUME IInv, KFiles, KDir, KDays, NEW k \in Segments, NEW j \in Segments, j < k, ExpiredBy(k, maint.now)
  PROVE  ExpiredBy(j, maint.now)
  <1>1. /\ k \in 1..Newest /\ j \in 1..Newest /\ Len(files[k]) > 0 /\ Len(files[j]) > 0
        /\ files[k] \in Seq(Nat) /\ files[j] \in Seq(Nat)
    BY Listing, Contents
  <1>2. 1 \in 1..Len(files[k]) /\ 1 \in 1..Len(files[j])
    BY <1>1
  <1>3. PICK r : r = files[j][1]
    OBVIOUS
  <1>4. PICK s : s = files[k][1]
    OBVIOUS
  <1>5. r \in Records(j) /\ s \in Records(k) /\ r \in 1..Len(stamps) /\ s \in 1..Len(stamps)
    BY <1>1, <1>2, <1>3, <1>4, Contents
  <1>6. r < s
    BY <1>1, <1>5 DEF KFiles
  <1>7. r <= s
    BY <1>5, <1>6, Numbers
  <1>8. stamps[r] <= stamps[s] /\ stamps[r] \in 1..today /\ stamps[s] \in 1..today
    BY <1>5, <1>7 DEF KDays
  <1>9. Retention \in Nat /\ today \in Nat /\ maint.now \in Nat
    BY JournalAssumption DEF IInv, IShape, ISteps
  <1>10. Retention > 0 /\ stamps[s] + Retention < maint.now
    BY <1>4 DEF ExpiredBy
  <1>11. stamps[r] + Retention < maint.now
    BY <1>8, <1>9, <1>10
  <1> QED BY <1>3, <1>10, <1>11 DEF ExpiredBy

(* What is pruned has expired, and the pipeline is done with it. *)
LEMMA PruneKeeps ==
  ASSUME IInv, KInv, IInv', Prune
  PROVE  KInv'
  <1>s. maint = [at |-> maint.at, now |-> maint.now, seg |-> maint.seg, next |-> maint.next, keep |-> maint.keep]
    BY DEF IInv, IShape
  <1>1. KDir /\ KDays /\ Counts /\ KFiles /\ KKeep /\ KShape("analytics") /\ \A c \in Readers : KHad(c) /\ KShape(c)
    BY DEF KInv, KFirm, KReaders, KReader, Readers
  <1>2. /\ UNCHANGED <<files, linked, stamps, cursor, read, blobs, today, collects, crashes>>
        /\ maint.at = "prune"
    BY DEF Prune, OnlyMaint, readerVars, boundVars
  <1>d. KDays'
    BY <1>1, <1>2, DaysStay
  <1>3. CASE UNCHANGED <<dir, disturbed>> /\ RestNow
    <2>1. Segments' = Segments
      BY <1>3 DEF Segments
    <2>2. /\ KFiles' /\ KReaders' /\ KNeeds' /\ KGc' /\ Newest' = Newest /\ Top' = Top /\ Grows /\ NewestKept
      BY <1>2, <1>3, <2>1, QuietStands
    <2>3. maint'.at = "idle" /\ due' \in BOOLEAN
      BY <1>3 DEF RestNow, Resting
    <2>4. KKeep'
      BY <1>2, <2>1, <2>2, <2>3, QuietKeeps DEF Stages
    <2>5. KDir'
      BY <1>1, <1>2, <1>3, <2>1, <2>2, <2>3, DirStays DEF KDir, Stages
    <2>7. disturbed' \subseteq Readers
      BY <1>1, <1>3 DEF Counts
    <2>8. Counts'
      BY <1>1, <1>2, <2>7, CountsStay
    <2> QED BY <1>d, <2>2, <2>4, <2>5, <2>8 DEF KInv, KFirm
  <1>4. CASE \E k \in Prunable :
               /\ \A j \in Prunable : k <= j
               /\ dir' = {n \in dir : n[1] # k}
               /\ disturbed' = disturbed \cup {c \in Readers : cursor[c].phase # "off" /\ cursor[c].seg <= k}
               /\ UNCHANGED <<maint, due>>
    <2>1. PICK k \in Prunable :
               /\ \A j \in Prunable : k <= j
               /\ dir' = {n \in dir : n[1] # k}
               /\ disturbed' = disturbed \cup {c \in Readers : cursor[c].phase # "off" /\ cursor[c].seg <= k}
               /\ UNCHANGED <<maint, due>>
      BY <1>4
    <2>2. k \in Segments /\ ExpiredBy(k, maint.now) /\ maint.keep.seg # 0 /\ k < maint.keep.seg
      BY DEF Prunable
    <2>3. Segments' = Segments \ {k}
      BY <2>1, SegmentsAre, SegmentsArePrimed
    <2>4. /\ KFiles' /\ Grows /\ Newest' = Newest
          /\ \A j \in 1..Newest : Records(j)' = Records(j)
      BY <1>1, <1>2, SameGrows
    <2>5. Top' = Top /\ Top \in Nat
      BY <1>1, <1>2, <2>4, Numbers DEF Top
    <2>6. \A j \in Segments : k <= j
      <3> SUFFICES ASSUME NEW j \in Segments, j < k
                   PROVE  FALSE
        BY <1>1, <2>2, Listing
      <3>1. ExpiredBy(j, maint.now)
        BY <1>1, <2>2, OldestExpiresFirst
      <3>2. k \in Nat /\ j \in Nat
        BY <1>1, <2>2, Listing
      <3>3. k \in 1..Top
        BY <1>1, <2>2, Listing
      <3>4. j < maint.keep.seg
        <4>1. maint.keep.seg \in Nat
          BY <1>1, <1>2 DEF KKeep
        <4> QED BY <2>2, <3>2, <4>1
      <3>5. j \in Prunable
        BY <2>2, <3>1, <3>4 DEF Prunable
      <3> QED BY <2>1, <3>2, <3>5
    <2>7. Retention > 0
      BY <2>2 DEF ExpiredBy
    <2>8. Done(k)
      BY <1>1, <1>2, <2>2, <2>7 DEF KKeep, Behind
    <2>9. NewestKept
      <3>1. \A j : j = Newest /\ linked => Kept(j)'
        BY <1>2, <2>4 DEF Kept
      <3> QED BY <3>1 DEF NewestKept
    <2>10. Retained' \subseteq Retained
      <3>1. \A j : Kept(j)' => Kept(j)
        BY <1>2, <2>3, <2>4 DEF Kept
      <3> QED BY <1>1, <2>4, <3>1, KeptAre, RetainedAre, RetainedArePrimed
    <2>11. ASSUME NEW c \in Readers, c \notin disturbed'
           PROVE  c \notin disturbed /\ Steady(c)
      <3>1. c \notin disturbed /\ (cursor[c].phase = "off" \/ ~(cursor[c].seg <= k))
        BY <2>1, <2>11
      <3>2. Sealed(c) => cursor[c].seg \in Segments
        BY <1>1, <3>1 DEF KHad
      <3>3. \A j \in Segments : Records(j)' = Records(j)
        BY <1>1, <2>4, Listing
      <3>4. Sealed(c) => cursor[c].seg # k
        <4>1. CASE cursor[c].phase = "off"
          <5>1. c = "gc"
            BY <1>1, <4>1 DEF Readers, KShape
          <5>2. cursor["gc"] = Off
            BY <4>1, <5>1 DEF KInv, KGc, Collecting
          <5> QED BY <5>1, <5>2 DEF Sealed, Off
        <4>2. CASE ~(cursor[c].seg <= k)
          <5>1. k \in Nat
            BY <1>1, <2>2, Listing
          <5> QED BY <4>2, <5>1
        <4> QED BY <3>1, <4>1, <4>2
      <3> QED BY <1>2, <2>3, <2>4, <2>10, <3>1, <3>2, <3>3, <3>4 DEF Steady
    <2>12. \A j \in Segments : j \in Segments' \/ Done(j)
      BY <2>3, <2>8
    <2>13. KReaders' /\ KNeeds' /\ KGc'
      BY <1>2, <2>4, <2>9, <2>10, <2>11, <2>12, StandStill
    <2>14. KKeep'
      <3>1. maint'.at = "prune" /\ maint'.keep = maint.keep /\ Segments' \subseteq Segments
        BY <1>2, <2>1, <2>3
      <3> QED BY <1>1, <1>2, <2>4, <3>1, KeepStays DEF Stages
    <2>15. KDir'
      <3>1. dir' \subseteq (1..Newest') \X {"jsonl", "zst", "tmp"}
        BY <1>1, <2>1, <2>4 DEF KDir
      <3>2. \E m \in 1..(Top' + 1) : Segments' = m..Top'
        <4>1. PICK m \in 1..(Top + 1) : Segments = m..Top
          BY <1>1 DEF KDir
        <4>2. m <= Top /\ k = m
          BY <2>2, <2>5, <2>6, <4>1
        <4>3. (m..Top) \ {k} = (m + 1)..Top /\ m + 1 \in 1..(Top + 1)
          BY <2>5, <4>1, <4>2
        <4> QED BY <2>3, <2>5, <4>1, <4>3
      <3> QED BY <1>1, <1>2, <2>1, <3>1, <3>2 DEF KDir, Stages
    <2>16. disturbed' \subseteq Readers
      BY <1>1, <2>1 DEF Counts
    <2>17. Counts'
      BY <1>1, <1>2, <2>16, CountsStay
    <2> QED BY <1>d, <2>4, <2>13, <2>14, <2>15, <2>17 DEF KInv, KFirm
  <1> QED BY <1>3, <1>4 DEF Prune

(* Maintenance, step by step. *)
LEMMA MaintenanceKeepsReaders ==
  ASSUME IInv, KInv, IInv', Maintenance
  PROVE  KInv'
  BY PlanningKeeps, DetachKeeps, CreateKeeps, PackingKeeps, PruneKeeps DEF Maintenance

-----------------------------------------------------------------------------
(* A collection's cursor that is off or opening claims nothing. *)
FreshGc == cursor["gc"] \in {Off, Opening}

(* Nothing is claimed of a collection that has not read anything. *)
LEMMA GcIsFresh == IInv /\ KFiles /\ KDir /\ FreshGc => KReader("gc")
  <1> SUFFICES ASSUME IInv, KFiles, KDir, FreshGc
               PROVE  KReader("gc")
    OBVIOUS
  <1> DEFINE g == cursor["gc"]
  <1>1. /\ g.at \in {"idle", "list"} /\ g.seg = 0 /\ g.off = 0 /\ g.last = 0 /\ g.tail = <<0, "none">>
        /\ g.fd = 0
        /\ g = [at |-> g.at, seg |-> g.seg, off |-> g.off, last |-> g.last, tail |-> g.tail, fd |-> g.fd,
                name |-> g.name, phase |-> g.phase, got |-> g.got]
    <2>1. CASE g = Off
      BY <2>1 DEF Off, NoTail
    <2>2. CASE g = Opening
      <3>1. g = [at |-> "list", seg |-> 0, off |-> 0, last |-> 0, tail |-> <<0, "none">>, fd |-> 0,
                 name |-> <<0, "none">>, phase |-> "opening", got |-> "end"]
        BY <2>2 DEF Off, Opening, NoTail
      <3> QED BY <3>1
    <2> QED BY <2>1, <2>2 DEF FreshGc
  <1>2. /\ Newest \in Nat /\ Top \in Nat /\ Top <= Newest /\ Newest < Active /\ Active \in Nat
        /\ Len(stamps) \in Nat
    BY Numbers
  <1>3. ~Sealed("gc") /\ ~Valid("gc") /\ Active # 0
    BY <1>1, <1>2 DEF Sealed, Valid
  <1>4. KShape("gc")
    <2>1. g.tail[1] \in 0..Top /\ g.seg \in 0..Top /\ g.fd \in 0..Newest /\ g.last \in 0..Len(stamps) /\ g.off \in Nat
      BY <1>1, <1>2
    <2>2. g = [at |-> g.at, seg |-> g.seg, off |-> g.off, last |-> g.last, tail |-> g.tail, fd |-> g.fd,
                name |-> g.name, phase |-> g.phase, got |-> g.got]
      BY <1>1
    <2>3. g.at \in {"idle", "list"}
      BY <1>1
    <2>4. /\ g.at \in {"idle", "again", "read", "advance", "list", "open"}
          /\ g.at # "read" /\ g.at # "again" /\ g.at # "advance" /\ g.at # "open"
      BY <2>3
    <2> QED BY <2>1, <2>2, <2>4 DEF KShape
  <1>5. KPlace("gc")
    BY <1>1, <1>3 DEF KPlace
  <1>6. \A r \in Retained : ~(r <= 0)
    BY KeptAre, <1>2
  <1>7. \A k \in Segments : k > 0
    BY Listing
  <1>8. KHad("gc")
    BY <1>1, <1>3, <1>6, <1>7 DEF KHad
  <1> QED BY <1>4, <1>5, <1>8 DEF KReader

LEMMA GcIsFreshNext == IInv' /\ KFiles' /\ KDir' /\ FreshGc' => KReader("gc")'
  BY GcIsFresh, PTL

(* The retained records are records. *)
LEMMA KeptAreHold == IInv /\ KFiles /\ KDir => Retained \subseteq 1..Len(stamps)
  BY KeptAre

(* The pipeline's cursor, restored. *)
Restarted ==
  cursor["analytics"] = [Off EXCEPT !.phase = "ready", !.tail = NewestTail,
                           !.seg = IF Segments = {} THEN 0 ELSE Min(Segments),
                           !.fd = IF Segments = {} THEN Newest ELSE Min(Segments)]

(* The pipeline's cursor after a start. *)
LEMMA RestartIsFresh == IInv /\ KFiles /\ KDir /\ linked /\ Restarted => KReader("analytics") /\ KNeeds
  <1> SUFFICES ASSUME IInv, KFiles, KDir, linked, Restarted
               PROVE  KReader("analytics") /\ KNeeds
    OBVIOUS
  <1> DEFINE g == cursor["analytics"]
  <1>1. /\ g.at = "idle" /\ g.off = 0 /\ g.last = 0 /\ g.tail = NewestTail /\ g.phase = "ready"
        /\ g.seg = IF Segments = {} THEN 0 ELSE Min(Segments)
        /\ g.fd = IF Segments = {} THEN Newest ELSE Min(Segments)
        /\ g = [at |-> g.at, seg |-> g.seg, off |-> g.off, last |-> g.last, tail |-> g.tail, fd |-> g.fd,
                name |-> g.name, phase |-> g.phase, got |-> g.got]
    BY DEF Restarted, Off
  <1>2. /\ Newest \in Nat /\ Newest >= 1 /\ Top \in Nat /\ Top = Newest - 1 /\ Newest < Active /\ Active \in Nat
        /\ Len(stamps) \in Nat
    BY Numbers
  <1>3. NewestTail[1] = IF Segments = {} THEN 0 ELSE Top
    BY Listing
  <1>4. Segments # {} => g.seg \in Segments /\ g.seg \in 1..Top /\ \A k \in Segments : g.seg <= k /\ k \in Nat
    BY <1>1, Listing
  <1>5. Sealed("analytics") <=> Segments # {}
    BY <1>1, <1>2, <1>4 DEF Sealed
  <1>6. g.fd \in 1..Newest /\ g.seg \in 0..Top /\ g.tail[1] \in 0..Top
    BY <1>1, <1>2, <1>3, <1>4
  <1>7. Valid("analytics")
    BY <1>1, <1>2, <1>6 DEF Valid
  <1>8. KShape("analytics")
    BY <1>1, <1>2, <1>6 DEF KShape
  <1>9. \A k \in 1..Newest : Len(files[k]) \in Nat /\ 0 \notin Records(k)
    BY Contents
  <1>10. \A k \in 1..Newest : Placed("analytics", k)
    BY <1>1, <1>9 DEF Placed
  <1>11. g.seg # Active
    BY <1>2, <1>6
  <1>12. KPlace("analytics")
    <2>1. Sealed("analytics") => Placed("analytics", g.seg) /\ g.fd = g.seg
      BY <1>1, <1>2, <1>4, <1>5, <1>10
    <2>2. ~Sealed("analytics") => g.tail[1] < g.fd
      BY <1>1, <1>2, <1>3, <1>5
    <2> QED BY <1>1, <1>6, <1>7, <1>9, <1>10, <1>11, <2>1, <2>2 DEF KPlace
  <1>13. \A r \in Retained : ~(r <= 0)
    BY KeptAre, <1>2
  <1>14. KHad("analytics")
    BY <1>1, <1>4, <1>5, <1>13 DEF KHad
  <1>15. KNeeds
    <2>1. CursorSpared
      BY <1>4, <1>5 DEF CursorSpared
    <2>2. Found(g.last)
      BY <1>1, <1>9 DEF Found
    <2>3. ~Sealed("analytics") => Kept(g.fd)
      BY <1>1, <1>5 DEF Kept
    <2> QED BY <2>1, <2>2, <2>3 DEF KNeeds
  <1> QED BY <1>8, <1>12, <1>14, <1>15 DEF KReader

LEMMA RestartIsFreshNext ==
  IInv' /\ KFiles' /\ KDir' /\ linked' /\ Restarted' => KReader("analytics")' /\ KNeeds'
  BY RestartIsFresh, PTL

-----------------------------------------------------------------------------
(* Collections, crashes and the start                                      *)

(* The pipeline does not move while the collection does. *)
LEMMA PipelineStands ==
  ASSUME IInv, KInv, IInv', KFiles', Grows,
         cursor'["analytics"] = cursor["analytics"], read'["analytics"] = read["analytics"],
         UNCHANGED maint, Segments' = Segments, NewestKept,
         "analytics" \notin disturbed' => "analytics" \notin disturbed /\ Steady("analytics")
  PROVE  KReader("analytics")' /\ KNeeds' /\ KKeep'
  <1>1. /\ KFiles /\ KDir /\ KNeeds /\ KKeep
        /\ KShape("analytics") /\ KPlace("analytics") /\ KHad("analytics")
    BY DEF KInv, KFirm, KReaders, KReader, Readers
  <1>2. "analytics" \in Readers /\ read["analytics"] \subseteq read'["analytics"] /\ "analytics" # "gc"
    BY DEF Readers
  <1>3. KShape("analytics")' /\ KPlace("analytics")'
    BY <1>1, <1>2, PlaceStays
  <1>4. Top' \in Nat
    BY NumbersNext DEF NumberFacts
  <1>5. KHad("analytics")'
    BY <1>1, <1>2, <1>4, HadStays
  <1>6. KNeeds'
    BY <1>1, NeedsStay
  <1>7. KKeep'
    <2>1. /\ maint'.at \in Stages => maint.at \in Stages /\ maint'.keep = maint.keep
          /\ maint'.at = "prune" => maint.at = "prune" /\ maint'.keep = maint.keep
      OBVIOUS
    <2>2. Segments \subseteq Segments' /\ Segments' \subseteq Segments /\ \A k \in Segments' : k \in Segments
      OBVIOUS
    <2> QED BY <1>1, <2>1, <2>2, KeepStays
  <1> QED BY <1>3, <1>5, <1>6, <1>7 DEF KReader

(* There are two readers. *)
LEMMA TwoReaders ==
  \A c \in Readers : c = "analytics" \/ c = "gc"
  BY DEF Readers

(* A collection begins. *)
LEMMA CollectBeginsKeeps ==
  ASSUME IInv, KInv, IInv', CollectBegins
  PROVE  KInv'
  <1>1. KDir /\ KDays /\ Counts /\ KFiles /\ KGc /\ \A c \in Readers : KHad(c)
    BY DEF KInv, KFirm, KReaders, KReader, Readers
  <1>2. /\ UNCHANGED <<dir, stamps, today, due, maint, crashes, blobs, read, disturbed>>
        /\ files' = Created /\ linked' = TRUE /\ cursor' = [cursor EXCEPT !["gc"] = Opening]
        /\ collects < MaxCollects /\ collects' = collects + 1
    BY DEF CollectBegins, OnlyGC
  <1>3. /\ KFiles' /\ Grows /\ Top' = Top /\ Newest' \in Nat /\ Newest' >= Newest
        /\ Segments' = Segments /\ Retained' = Retained /\ NewestKept
        /\ \A k \in 1..Newest : Records(k)' = Records(k)
        /\ linked => Newest' = Newest
    BY <1>2, CreatedStays
  <1>4. cursor = [c \in Readers |-> cursor[c]] /\ "gc" \in Readers /\ "analytics" \in Readers /\ "analytics" # "gc"
    BY <1>1 DEF Counts, Readers
  <1>5. cursor'["gc"] = Opening /\ cursor'["analytics"] = cursor["analytics"]
    BY <1>2, <1>4
  <1>6. "analytics" \notin disturbed' => "analytics" \notin disturbed /\ Steady("analytics")
    <2> SUFFICES ASSUME "analytics" \notin disturbed
                 PROVE  Steady("analytics")
      BY <1>2
    <2>2. Sealed("analytics") => cursor["analytics"].seg \in Segments
      BY <1>1, <1>4 DEF KHad
    <2>3. \A k \in Segments : Records(k)' = Records(k)
      BY <1>1, <1>3, Listing
    <2> QED BY <1>2, <1>3, <2>2, <2>3 DEF Steady
  <1>7. KReader("analytics")' /\ KNeeds' /\ KKeep'
    BY <1>2, <1>3, <1>5, <1>6, PipelineStands
  <1>8. KDir'
    BY <1>1, <1>2, CreatedDir DEF KDir
  <1>9. KReader("gc")'
    <2>1. FreshGc'
      BY <1>5 DEF FreshGc
    <2> QED BY <1>3, <1>8, <2>1, GcIsFreshNext
  <1>10. KReaders'
    BY <1>7, <1>9, TwoReaders DEF KReaders
  <1>11. KGc'
    <2>1. cursor'["gc"].at = "list" /\ cursor'["gc"].phase = "opening" /\ cursor'["gc"].last = 0
      BY <1>5 DEF Opening, Off
    <2> QED BY <2>1 DEF KGc, Collecting, Valid, OnTheWay
  <1>12. KDays'
    BY <1>1, <1>2, DaysStay
  <1>13. Counts'
    <2>1. cursor' = [c \in Readers |-> cursor'[c]]
      BY <1>2, <1>4
    <2>2. collects' \in 0..MaxCollects
      BY <1>1, <1>2, JournalAssumption DEF Counts
    <2> QED BY <1>1, <1>2, <2>1, <2>2 DEF Counts
  <1> QED BY <1>3, <1>7, <1>8, <1>10, <1>11, <1>12, <1>13 DEF KInv, KFirm

(* A collection ends. *)
LEMMA CollectEndsKeeps ==
  ASSUME IInv, KInv, IInv', Sweep \/ CollectFails
  PROVE  KInv'
  <1>1. KDir /\ KDays /\ Counts /\ KFiles /\ KGc /\ \A c \in Readers : KHad(c)
    BY DEF KInv, KFirm, KReaders, KReader, Readers
  <1>2. /\ UNCHANGED <<dir, stamps, today, due, maint, crashes, files, linked, collects>>
        /\ cursor' = [cursor EXCEPT !["gc"] = Off] /\ read' = [read EXCEPT !["gc"] = {}]
        /\ disturbed' = disturbed \ {"gc"} /\ blobs' \subseteq blobs
    BY DEF Sweep, CollectFails, OnlyGC, GcOff
  <1>3. Segments' = Segments
    BY <1>2 DEF Segments
  <1>4. KFiles' /\ Grows /\ Newest' = Newest /\ Top' = Top /\ Retained' = Retained /\ NewestKept
    BY <1>1, <1>2, <1>3, Quiet
  <1>5. /\ cursor = [c \in Readers |-> cursor[c]] /\ read = [c \in Readers |-> read[c]]
        /\ "gc" \in Readers /\ "analytics" \in Readers /\ "analytics" # "gc"
    BY <1>1 DEF Counts, Readers
  <1>6. /\ cursor'["gc"] = Off /\ cursor'["analytics"] = cursor["analytics"]
        /\ read'["gc"] = {} /\ read'["analytics"] = read["analytics"]
    BY <1>2, <1>5
  <1>7. KReader("analytics")' /\ KNeeds' /\ KKeep'
    <2>1. "analytics" \notin disturbed' => "analytics" \notin disturbed /\ Steady("analytics")
      BY <1>1, <1>2, <1>3, <1>5, QuietIsSteady
    <2> QED BY <1>2, <1>3, <1>4, <1>6, <2>1, PipelineStands
  <1>8. KDir'
    BY <1>1, <1>2, <1>3, <1>4, DirStays DEF KDir
  <1>9. KReader("gc")'
    <2>1. FreshGc'
      BY <1>6 DEF FreshGc
    <2> QED BY <1>4, <1>8, <2>1, GcIsFreshNext
  <1>10. KReaders'
    BY <1>7, <1>9, TwoReaders DEF KReaders
  <1>11. KGc'
    BY <1>6 DEF KGc, Collecting, Off
  <1>12. KDays'
    BY <1>1, <1>2, DaysStay
  <1>13. Counts'
    <2>1. cursor' = [c \in Readers |-> cursor'[c]] /\ read' = [c \in Readers |-> read'[c]]
      BY <1>2, <1>5
    <2>2. \A c \in Readers : read'[c] \subseteq 1..Len(stamps)
      BY <1>1, <1>6, TwoReaders DEF Counts
    <2> QED BY <1>1, <1>2, <2>1, <2>2 DEF Counts
  <1> QED BY <1>4, <1>7, <1>8, <1>10, <1>11, <1>12, <1>13 DEF KInv, KFirm

(* A crash, and the start after it. *)
LEMMA CrashKeeps ==
  ASSUME IInv, KInv, IInv', Crash
  PROVE  KInv'
  <1>1. KDir /\ KDays /\ Counts /\ KFiles
    BY DEF KInv, KFirm
  <1>2. /\ UNCHANGED <<dir, stamps, today, blobs, collects>>
        /\ files' = Created /\ linked' = TRUE /\ maint' = Resting /\ due' = TRUE
        /\ read' = [c \in Readers |-> {}] /\ disturbed' = {}
        /\ crashes < MaxCrashes /\ crashes' = crashes + 1
    BY DEF Crash
  <1>3. /\ KFiles' /\ Grows /\ Top' = Top /\ Segments' = Segments
    BY <1>2, CreatedStays
  <1>4. maint'.at = "idle"
    BY <1>2 DEF Resting
  <1>5. KDir'
    BY <1>2, <1>4, CreatedDir
  <1>6. /\ cursor' = [c \in Readers |-> cursor'[c]]
        /\ cursor'["gc"] = Off
        /\ cursor'["analytics"] = [Off EXCEPT !.phase = "ready", !.tail = NewestTail,
                        !.seg = IF Segments = {} THEN 0 ELSE Min(Segments),
                        !.fd = IF Segments = {} THEN Len(Created) ELSE Min(Segments)]
    BY DEF Crash, Readers
  <1>7. Restarted'
    <2>1. NewestTail' = NewestTail
      BY <1>2, <1>3 DEF NewestTail, Named
    <2>2. Newest' = Len(Created)
      BY <1>2 DEF Newest
    <2> QED BY <1>3, <1>6, <2>1, <2>2 DEF Restarted
  <1>8. KReader("analytics")' /\ KNeeds'
    BY <1>2, <1>3, <1>5, <1>7, RestartIsFreshNext
  <1>9. KReader("gc")'
    <2>1. FreshGc'
      BY <1>6 DEF FreshGc
    <2> QED BY <1>3, <1>5, <2>1, GcIsFreshNext
  <1>10. KReaders'
    BY <1>8, <1>9, TwoReaders DEF KReaders
  <1>11. KGc'
    BY <1>6 DEF KGc, Collecting, Off
  <1>12. KDays'
    BY <1>1, <1>2, DaysStay
  <1>13. KKeep'
    BY <1>4 DEF KKeep, Stages
  <1>14. Counts'
    <2>1. crashes' \in 0..MaxCrashes
      BY <1>1, <1>2, JournalAssumption DEF Counts
    <2>2. read' = [c \in Readers |-> read'[c]] /\ \A c \in Readers : read'[c] = {}
      BY <1>2
    <2> QED BY <1>1, <1>2, <1>6, <2>1, <2>2 DEF Counts
  <1> QED BY <1>3, <1>5, <1>8, <1>10, <1>11, <1>12, <1>13, <1>14 DEF KInv, KFirm

(* The first state. *)
LEMMA InitHoldsReaders == Init => KInv
  <1> SUFFICES ASSUME Init PROVE KInv
    OBVIOUS
  <1>1. /\ files = <<<<>>>> /\ linked = TRUE /\ dir = {} /\ stamps = <<>> /\ blobs = {}
        /\ today = 1 /\ due = TRUE /\ maint = Resting /\ collects = 0 /\ crashes = 0 /\ disturbed = {}
        /\ cursor = [c \in Readers |-> IF c = "gc" THEN Off ELSE [Off EXCEPT !.fd = 1, !.phase = "ready"]]
        /\ read = [c \in Readers |-> {}]
    BY DEF Init
  <1>2. IInv
    BY InitHolds
  <1>3. Newest = 1 /\ Top = 0 /\ Len(stamps) = 0 /\ files[1] = <<>> /\ Len(files[1]) = 0
    BY <1>1 DEF Newest, Top
  <1>4. KFiles
    <2>1. \A k \in 1..Newest : k = 1
      BY <1>3
    <2>2. Records(1) = {}
      BY <1>3 DEF Records
    <2>3. MaxRecords \in Nat
      BY JournalAssumption
    <2>4. \A k \in 1..Newest : Len(files[k]) = 0 /\ Records(k) = {}
      BY <1>3, <2>1, <2>2
    <2>5. /\ \A k \in 1..Newest : \A i \in 1..Len(files[k]) : FALSE
          /\ \A k \in 1..Newest : \A r \in Records(k) : FALSE
          /\ \A r \in 1..Len(stamps) : FALSE
          /\ \A k \in 1..Top : FALSE
      BY <1>3, <2>4
    <2> QED BY <1>3, <2>3, <2>5 DEF KFiles
  <1>5. Segments = {}
    BY <1>1 DEF Segments
  <1>6. maint.at = "idle"
    BY <1>1 DEF Resting
  <1>7. KDir
    <2>1. Segments = 1..Top /\ 1 \in 1..(Top + 1)
      BY <1>3, <1>5
    <2> QED BY <1>1, <1>6, <2>1 DEF KDir, Stages
  <1>8. KDays
    BY <1>1, <1>3, JournalAssumption DEF KDays
  <1>9. /\ cursor["gc"] = Off
        /\ cursor["analytics"] = [Off EXCEPT !.fd = 1, !.phase = "ready"]
        /\ cursor = [c \in Readers |-> cursor[c]]
    BY <1>1 DEF Readers
  <1>10. Restarted
    <2>1. NewestTail = NoTail
      BY <1>5 DEF NewestTail
    <2>2. cursor["analytics"]
            = [at |-> "idle", seg |-> 0, off |-> 0, last |-> 0, tail |-> NoTail, fd |-> 1,
               name |-> NoTail, phase |-> "ready", got |-> "end"]
      BY <1>9 DEF Off
    <2>3. PICK o : o = [Off EXCEPT !.phase = "ready", !.tail = NoTail, !.seg = 0, !.fd = 1]
      OBVIOUS
    <2>4. o = [at |-> "idle", seg |-> 0, off |-> 0, last |-> 0, tail |-> NoTail, fd |-> 1,
               name |-> NoTail, phase |-> "ready", got |-> "end"]
      BY <2>3 DEF Off
    <2> QED BY <1>3, <1>5, <2>1, <2>2, <2>3, <2>4 DEF Restarted
  <1>11. KReader("analytics") /\ KNeeds
    BY <1>1, <1>2, <1>4, <1>7, <1>10, RestartIsFresh
  <1>12. KReader("gc")
    BY <1>2, <1>4, <1>7, <1>9, GcIsFresh DEF FreshGc
  <1>13. KReaders
    BY <1>11, <1>12, TwoReaders DEF KReaders
  <1>14. KGc
    BY <1>9 DEF KGc, Collecting, Off
  <1>15. KKeep
    BY <1>6 DEF KKeep, Stages
  <1>16. Counts
    <2>1. MaxCollects \in Nat /\ MaxCrashes \in Nat
      BY JournalAssumption
    <2>2. read = [c \in Readers |-> read[c]] /\ \A c \in Readers : read[c] = {}
      BY <1>1
    <2> QED BY <1>1, <1>9, <2>1, <2>2 DEF Counts
  <1> QED BY <1>4, <1>7, <1>8, <1>11, <1>13, <1>14, <1>15, <1>16 DEF KInv, KFirm

-----------------------------------------------------------------------------
(* A cursor that moves: what it has to show, and what follows from it      *)

(* A cursor's step leaves everything else as it was. *)
LEMMA ReaderFrame ==
  ASSUME OnlyReader
  PROVE  /\ UNCHANGED <<files, linked, dir, stamps, blobs, today, due, maint, collects, crashes, disturbed>>
         /\ Newest' = Newest /\ Top' = Top /\ Segments' = Segments /\ Retained' = Retained
         /\ NewestTail' = NewestTail
         /\ \A k : Records(k)' = Records(k) /\ Kept(k)' = Kept(k)
  <1>1. UNCHANGED <<files, linked, dir, stamps, blobs, today, due, maint, collects, crashes, disturbed>>
    BY DEF OnlyReader, journalVars, boundVars
  <1>2. Newest' = Newest /\ Segments' = Segments /\ \A k : Records(k)' = Records(k)
    BY <1>1 DEF Newest, Segments, Records
  <1>3. Top' = Top /\ \A k : Kept(k)' = Kept(k)
    BY <1>1, <1>2 DEF Top, Kept
  <1>4. Retained' = Retained
    BY <1>1, <1>2, <1>3, RetainedAre, RetainedArePrimed
  <1>5. NewestTail' = NewestTail
    BY <1>1, <1>2 DEF NewestTail, Named
  <1> QED BY <1>1, <1>2, <1>3, <1>4, <1>5

(* What the reader that moves has to show. *)
Moved(c) ==
  /\ cursor' = [cursor EXCEPT ![c] = cursor'[c]] /\ read' = [read EXCEPT ![c] = read'[c]]
  /\ read'[c] \subseteq 1..Len(stamps)
  /\ KShape(c)' /\ KPlace(c)' /\ KHad(c)'
  /\ c = "analytics" => KNeeds' /\ \A k \in Segments : Done(k) => Done(k)'
  /\ c = "gc" => KGc'

(* It is enough: the other reader does not notice. *)
LEMMA ReaderStep ==
  ASSUME IInv, KInv, IInv', OnlyReader, NEW c \in Readers, Moved(c)
  PROVE  KInv'
  <1>1. /\ KDir /\ KDays /\ Counts /\ KFiles /\ KGc /\ KKeep /\ KNeeds
        /\ \A d \in Readers : KShape(d) /\ KPlace(d) /\ KHad(d)
    BY DEF KInv, KFirm, KReaders, KReader
  <1>2. /\ UNCHANGED <<files, linked, dir, stamps, blobs, today, due, maint, collects, crashes, disturbed>>
        /\ Newest' = Newest /\ Top' = Top /\ Segments' = Segments /\ Retained' = Retained
        /\ \A k : Records(k)' = Records(k) /\ Kept(k)' = Kept(k)
    BY ReaderFrame
  <1>3. KFiles' /\ Grows /\ NewestKept
    BY <1>1, <1>2, Quiet
  <1>4. /\ cursor = [d \in Readers |-> cursor[d]] /\ read = [d \in Readers |-> read[d]]
        /\ cursor' = [cursor EXCEPT ![c] = cursor'[c]] /\ read' = [read EXCEPT ![c] = read'[c]]
    BY <1>1 DEF Counts, Moved
  <1>5. ASSUME NEW d \in Readers, d # c
        PROVE  cursor'[d] = cursor[d] /\ read'[d] = read[d]
    BY <1>4, <1>5
  <1>6. KDir'
    BY <1>1, <1>2, DirStays DEF KDir
  <1>7. KDays'
    BY <1>1, <1>2, DaysStay
  <1>8. Counts'
    <2>1. cursor' = [d \in Readers |-> cursor'[d]] /\ read' = [d \in Readers |-> read'[d]]
      BY <1>4
    <2>2. \A d \in Readers : read'[d] \subseteq 1..Len(stamps)
      BY <1>1, <1>5 DEF Counts, Moved
    <2> QED BY <1>1, <1>2, <2>1, <2>2 DEF Counts
  <1>9. "gc" \in Readers /\ "analytics" \in Readers /\ "analytics" # "gc"
    BY DEF Readers
  <1>10. CASE c = "gc"
    <2>1. cursor'["analytics"] = cursor["analytics"] /\ read'["analytics"] = read["analytics"]
      BY <1>5, <1>9, <1>10
    <2>2. "analytics" \notin disturbed' => "analytics" \notin disturbed /\ Steady("analytics")
      BY <1>1, <1>2, <1>9, QuietIsSteady
    <2>3. KReader("analytics")' /\ KNeeds' /\ KKeep'
      BY <1>2, <1>3, <2>1, <2>2, PipelineStands
    <2>4. KReader("gc")' /\ KGc'
      BY <1>10 DEF Moved, KReader
    <2>5. KReaders'
      BY <2>3, <2>4, TwoReaders DEF KReaders
    <2> QED BY <1>3, <1>6, <1>7, <1>8, <2>3, <2>4, <2>5 DEF KInv, KFirm
  <1>11. CASE c = "analytics"
    <2>1. cursor'["gc"] = cursor["gc"] /\ read'["gc"] = read["gc"]
      BY <1>5, <1>9, <1>11
    <2>2. "gc" \notin disturbed' => "gc" \notin disturbed /\ Steady("gc")
      BY <1>1, <1>2, <1>9, QuietIsSteady
    <2>3. KShape("gc")' /\ KPlace("gc")'
      <3>1. cursor["gc"].at = "again" => Collecting
        BY <1>1 DEF KGc, Off
      <3> QED BY <1>1, <1>3, <1>9, <2>1, <3>1, PlaceStays
    <2>4. KHad("gc")'
      <3>1. Top' \in Nat /\ read["gc"] \subseteq read'["gc"]
        BY <1>3, <2>1, NumbersNext DEF NumberFacts
      <3> QED BY <1>1, <1>9, <2>1, <2>2, <3>1, HadStays
    <2>5. KGc'
      BY <1>1, <1>2, <1>3, <1>9, <2>1, GcStays
    <2>6. KReader("analytics")' /\ KNeeds' /\ \A k \in Segments : Done(k) => Done(k)'
      BY <1>11 DEF Moved, KReader
    <2>7. KReaders'
      BY <2>3, <2>4, <2>6, TwoReaders DEF KReaders, KReader
    <2>8. KKeep'
      <3>1. \A s : Behind(s) => \A k \in Segments' : k < s => Done(k)'
        BY <1>2, <2>6 DEF Behind
      <3>2. \A r : BehindRecord(r) => \A k \in Segments' : Past(r, k) => Done(k)'
        BY <1>2, <2>6 DEF BehindRecord
      <3>3. \A s : s = maint.keep.seg => (Behind(s) => Behind(maint.keep.seg)')
        BY <1>2, <3>1 DEF Behind
      <3>4. \A r : r = maint.keep.last => (BehindRecord(r) => BehindRecord(maint.keep.last)')
        BY <1>2, <3>2 DEF BehindRecord, Past
      <3>5. Found(maint.keep.last) => Found(maint.keep.last)'
        BY <1>2 DEF Found
      <3>6. maint' = maint /\ Len(stamps') = Len(stamps)
        BY <1>2
      <3> QED BY <1>1, <1>2, <3>3, <3>4, <3>5, <3>6 DEF KKeep
    <2> QED BY <1>3, <1>6, <1>7, <1>8, <2>5, <2>6, <2>7, <2>8 DEF KInv, KFirm
  <1> QED BY <1>10, <1>11, TwoReaders

(* What Put leaves in the cursor. *)
LEMMA PutLeaves ==
  ASSUME Counts, NEW c \in Readers, NEW r, Put(c, r),
         r = [at |-> r.at, seg |-> r.seg, off |-> r.off, last |-> r.last, tail |-> r.tail, fd |-> r.fd,
              name |-> r.name, phase |-> r.phase, got |-> r.got]
  PROVE  /\ cursor' = [cursor EXCEPT ![c] = cursor'[c]]
         /\ cursor'[c] = [at |-> r.at, seg |-> r.seg, off |-> r.off, last |-> r.last, tail |-> r.tail,
                          fd |-> r.fd, name |-> r.name, phase |-> r.phase,
                          got |-> IF c = "gc" THEN r.got ELSE "end"]
  <1>1. cursor' = [cursor EXCEPT ![c] = [r EXCEPT !.got = IF c = "gc" THEN @ ELSE "end"]]
    BY DEF Put
  <1>2. cursor = [d \in Readers |-> cursor[d]]
    BY DEF Counts
  <1>3. cursor'[c] = [r EXCEPT !.got = IF c = "gc" THEN @ ELSE "end"]
    BY <1>1, <1>2
  <1>4. cursor' = [cursor EXCEPT ![c] = cursor'[c]]
    BY <1>1, <1>3
  <1>5. cursor'[c] = [at |-> r.at, seg |-> r.seg, off |-> r.off, last |-> r.last, tail |-> r.tail,
                          fd |-> r.fd, name |-> r.name, phase |-> r.phase,
                          got |-> IF c = "gc" THEN r.got ELSE "end"]
    BY <1>3
  <1> QED BY <1>4, <1>5

(* A step that gives no record. *)
LEMMA SameRead ==
  ASSUME Counts, NEW c \in Readers, UNCHANGED read, OnlyReader
  PROVE  read' = [read EXCEPT ![c] = read'[c]] /\ read'[c] \subseteq 1..Len(stamps)
  <1>1. read = [d \in Readers |-> read[d]] /\ read[c] \subseteq 1..Len(stamps)
    BY DEF Counts
  <1> QED BY <1>1

(* What is known of a cursor. *)
LEMMA KnownOf ==
  ASSUME KInv, NEW c \in Readers
  PROVE  /\ KFiles /\ KDays /\ KDir /\ Counts /\ KNeeds /\ KKeep /\ KGc
         /\ KShape(c) /\ KPlace(c) /\ KHad(c)
  BY DEF KInv, KFirm, KReaders, KReader

(* The fields of a cursor after Put. *)
Becomes(c, r) ==
  /\ cursor' = [cursor EXCEPT ![c] = cursor'[c]]
  /\ cursor'[c] = [at |-> r.at, seg |-> r.seg, off |-> r.off, last |-> r.last, tail |-> r.tail,
                   fd |-> r.fd, name |-> r.name, phase |-> r.phase, got |-> cursor'[c].got]
  /\ cursor'[c].at = r.at /\ cursor'[c].seg = r.seg /\ cursor'[c].off = r.off /\ cursor'[c].last = r.last
  /\ cursor'[c].tail = r.tail /\ cursor'[c].fd = r.fd /\ cursor'[c].name = r.name
  /\ cursor'[c].phase = r.phase /\ (c = "gc" => cursor'[c].got = r.got)

(* A cursor has the fields that were put in it. *)
LEMMA PutBecomes ==
  ASSUME Counts, NEW c \in Readers, NEW r, Put(c, r),
         NEW at, NEW seg, NEW off, NEW last, NEW tail, NEW fd, NEW name, NEW phase, NEW got,
         r = [at |-> at, seg |-> seg, off |-> off, last |-> last, tail |-> tail, fd |-> fd,
              name |-> name, phase |-> phase, got |-> got]
  PROVE  /\ Becomes(c, r)
         /\ cursor'[c].at = at /\ cursor'[c].seg = seg /\ cursor'[c].off = off /\ cursor'[c].last = last
         /\ cursor'[c].tail = tail /\ cursor'[c].fd = fd /\ cursor'[c].name = name
         /\ cursor'[c].phase = phase /\ (c = "gc" => cursor'[c].got = got)
  <1>1. r = [at |-> r.at, seg |-> r.seg, off |-> r.off, last |-> r.last, tail |-> r.tail, fd |-> r.fd,
              name |-> r.name, phase |-> r.phase, got |-> r.got]
    OBVIOUS
  <1>2. /\ cursor' = [cursor EXCEPT ![c] = cursor'[c]]
        /\ cursor'[c] = [at |-> r.at, seg |-> r.seg, off |-> r.off, last |-> r.last, tail |-> r.tail,
                         fd |-> r.fd, name |-> r.name, phase |-> r.phase,
                         got |-> IF c = "gc" THEN r.got ELSE "end"]
    BY <1>1, PutLeaves
  <1>3. Becomes(c, r)
    BY <1>2 DEF Becomes
  <1> QED BY <1>3 DEF Becomes

(* A cursor whose position stays as it is, and is used as before. *)
LEMMA SamePlace ==
  ASSUME IInv, KInv, OnlyReader, UNCHANGED read, NEW c \in Readers,
         cursor' = [cursor EXCEPT ![c] = cursor'[c]],
         cursor'[c] = [at |-> cursor'[c].at, seg |-> cursor'[c].seg, off |-> cursor'[c].off,
                       last |-> cursor'[c].last, tail |-> cursor'[c].tail, fd |-> cursor'[c].fd,
                       name |-> cursor'[c].name, phase |-> cursor'[c].phase, got |-> cursor'[c].got],
         cursor'[c].seg = cursor[c].seg, cursor'[c].off = cursor[c].off, cursor'[c].last = cursor[c].last,
         cursor'[c].fd = cursor[c].fd, cursor'[c].tail = cursor[c].tail, Valid(c)' = Valid(c),
         cursor'[c].at \in {"idle", "again", "read", "advance", "list"},
         cursor'[c].phase \in {cursor[c].phase, "next", "ready", "reopen"},
         cursor[c].phase # "off" \/ c = "gc",
         c = "analytics" => cursor'[c].phase \in {"ready", "next", "locked", "reopen"},
         cursor'[c].at = "read" => cursor'[c].phase = "next",
         cursor'[c].at \in {"again", "advance"} => cursor[c].fd # 0,
         cursor'[c].at = "advance" => Sealed(c),
         cursor'[c].at = "advance" \/ (cursor'[c].at = "again" /\ (Sealed(c) \/ c = "gc")) => Finished(c),
         c \notin disturbed /\ ~Sealed(c) /\ ~Valid(c) /\ cursor[c].at = "idle" /\ cursor'[c].at # "idle" =>
           \A k \in Segments : ~(k > cursor[c].tail[1]),
         cursor[c].at = "list" /\ cursor[c].seg = 0 => cursor'[c].at = "list",
         c = "gc" => KGc'
  PROVE  Moved(c)
  <1>1. KFiles /\ KDir /\ Counts /\ KNeeds /\ KGc /\ KShape(c) /\ KPlace(c) /\ KHad(c)
    BY KnownOf
  <1>2. /\ UNCHANGED <<files, linked, dir, stamps, maint, disturbed>>
        /\ Newest' = Newest /\ Top' = Top /\ Segments' = Segments /\ Retained' = Retained
        /\ \A k : Records(k)' = Records(k) /\ Kept(k)' = Kept(k)
    BY ReaderFrame
  <1>3. Sealed(c)' = Sealed(c)
    BY DEF Sealed
  <1>4. KShape(c)'
    <2>1. /\ cursor'[c].seg \in (0..Top') \cup {Active}
          /\ cursor'[c].fd \in 0..Newest' /\ cursor'[c].off \in Nat /\ cursor'[c].last \in 0..Len(stamps')
          /\ cursor'[c].tail[1] \in 0..Top'
      BY <1>1, <1>2 DEF KShape
    <2>2. /\ cursor'[c].at \in {"idle", "again", "read", "advance", "list", "open"}
          /\ cursor'[c].at # "open"
          /\ cursor'[c].at = "read" => cursor'[c].phase \in {"next", "locked"}
          /\ cursor'[c].at = "read" /\ cursor'[c].phase = "locked" => cursor'[c].fd # 0
          /\ cursor'[c].at \in {"again", "advance"} => cursor'[c].fd # 0
          /\ cursor'[c].at = "advance" => Sealed(c)'
      BY <1>3
    <2> QED BY <2>1, <2>2 DEF KShape
  <1>5. \A k : Placed(c, k)' = Placed(c, k)
    BY <1>2 DEF Placed
  <1>6. Finished(c)' = Finished(c)
    BY <1>2 DEF Finished
  <1>7. KPlace(c)'
    <2>1. Sealed(c)' => Placed(c, cursor[c].seg)' /\ (Valid(c)' => cursor'[c].fd = cursor'[c].seg)
      BY <1>1, <1>3, <1>5 DEF KPlace
    <2>2. ~Sealed(c)' /\ Valid(c)' =>
           /\ Placed(c, cursor[c].fd)' /\ cursor'[c].tail[1] < cursor'[c].fd
           /\ \A j \in 1..Newest' : cursor'[c].last \in Records(j)' => j <= cursor'[c].fd
      BY <1>1, <1>2, <1>3, <1>5 DEF KPlace
    <2>3. /\ ~Sealed(c)' /\ ~Valid(c)' => cursor'[c].off = 0 /\ (cursor'[c].seg = 0 => cursor'[c].last = 0)
          /\ cursor'[c].seg = Active => cursor'[c].last # 0
      BY <1>1, <1>3 DEF KPlace
    <2>4. cursor'[c].at = "advance" \/ (cursor'[c].at = "again" /\ (Sealed(c)' \/ c = "gc")) => Finished(c)'
      BY <1>3, <1>6
    <2> QED BY <2>1, <2>2, <2>3, <2>4 DEF KPlace
  <1>8. KHad(c)'
    <2> SUFFICES ASSUME c \notin disturbed
                 PROVE  /\ \A r \in Retained' : r <= cursor'[c].last => r \in read'[c]
                        /\ Sealed(c)' => cursor'[c].seg \in Segments'
                        /\ \A k \in Segments' :
                             \/ Had(c, k)'
                             \/ Sealed(c)' /\ k >= cursor'[c].seg
                             \/ ~Sealed(c)' /\ Valid(c)' /\ k >= cursor'[c].fd
                             \/ ~Sealed(c)' /\ ~Valid(c)' /\ cursor'[c].at = "idle" /\ k > cursor'[c].tail[1]
                             \/ cursor'[c].at = "list" /\ cursor'[c].seg = 0
                        /\ cursor'[c].at = "read" /\ cursor'[c].phase = "locked" /\ ~Sealed(c)' =>
                             cursor'[c].fd = Newest' /\ linked'
      BY <1>2 DEF KHad
    <2>1. /\ \A r \in Retained : r <= cursor[c].last => r \in read[c]
          /\ Sealed(c) => cursor[c].seg \in Segments
          /\ \A k \in Segments :
               \/ Had(c, k)
               \/ Sealed(c) /\ k >= cursor[c].seg
               \/ ~Sealed(c) /\ Valid(c) /\ k >= cursor[c].fd
               \/ ~Sealed(c) /\ ~Valid(c) /\ cursor[c].at = "idle" /\ k > cursor[c].tail[1]
               \/ cursor[c].at = "list" /\ cursor[c].seg = 0
      BY <1>1 DEF KHad
    <2>2. \A k : Had(c, k)' = Had(c, k)
      BY <1>2 DEF Had
    <2> QED BY <1>2, <1>3, <2>1, <2>2
  <1>9. c = "analytics" => KNeeds' /\ \A k \in Segments : Done(k) => Done(k)'
    <2> SUFFICES ASSUME c = "analytics"
                 PROVE  KNeeds' /\ \A k \in Segments : Done(k) => Done(k)'
      OBVIOUS
    <2>1. \A k \in Segments : Done(k) => Done(k)'
      BY <1>2, <1>3 DEF Done, Past
    <2>2. Found(cursor["analytics"].last)' = Found(cursor["analytics"].last)
      BY <1>2 DEF Found
    <2>3. Kept(cursor["analytics"].fd)' = Kept(cursor["analytics"].fd)
      BY <1>2 DEF Kept
    <2>4. KNeeds'
      BY <1>1, <1>2, <1>3, <2>2, <2>3 DEF KNeeds, CursorSpared
    <2> QED BY <2>1, <2>4
  <1>10. read' = [read EXCEPT ![c] = read'[c]] /\ read'[c] \subseteq 1..Len(stamps)
    BY <1>1, SameRead
  <1> QED BY <1>4, <1>7, <1>8, <1>9, <1>10 DEF Moved

-----------------------------------------------------------------------------
(* The steps of a cursor, one by one                                       *)

(* A reader of commits.jsonl, after whose file nothing is, has had all.     *)
LEMMA HasAll ==
  ASSUME IInv, KInv, NEW c \in Readers, c \notin disturbed, ~Sealed(c), Valid(c),
         \A k \in 1..Newest : Kept(k) /\ k > cursor[c].fd => Records(k) = {}
  PROVE  /\ Retained \ Records(cursor[c].fd) \subseteq read[c]
         /\ Finished(c) => Retained \subseteq read[c]
  <1>1. /\ KFiles /\ KDir /\ KShape(c) /\ KPlace(c) /\ KHad(c)
    BY KnownOf
  <1>2. /\ Newest \in Nat /\ Top \in Nat /\ Top <= Newest
    BY <1>1, Numbers
  <1>3. cursor[c].fd \in 1..Newest /\ cursor[c].off \in Nat /\ cursor[c].fd \in Nat
    BY <1>1, ShapeFacts DEF Valid
  <1>4. ASSUME NEW k, NEW r, Kept(k), r \in Records(k), k # cursor[c].fd
        PROVE  r \in read[c]
    <2>1. k \in 1..Newest
      BY <1>1, <1>4, KeptAre
    <2>2. ~(k > cursor[c].fd)
      BY <1>4, <2>1
    <2>3. k < cursor[c].fd
      BY <1>3, <1>4, <2>1, <2>2
    <2>4. k \in Segments
      BY <1>2, <1>3, <1>4, <2>3 DEF Kept
    <2>5. Had(c, k)
      BY <1>1, <1>3, <2>1, <2>3, <2>4 DEF KHad, Valid
    <2> QED BY <1>4, <2>5 DEF Had
  <1>5. Retained \ Records(cursor[c].fd) \subseteq read[c]
    BY <1>4, RetainedAre
  <1>6. ASSUME Finished(c), NEW r \in Retained, r \in Records(cursor[c].fd)
        PROVE  r \in read[c]
    <2>1. cursor[c].off = Len(files[cursor[c].fd])
      BY <1>6 DEF Finished
    <2>2. Len(files[cursor[c].fd]) # 0 /\ Len(files[cursor[c].fd]) \in Nat
      <3>1. /\ Len(files[cursor[c].fd]) \in Nat
            /\ \A s \in Records(cursor[c].fd) : \E i \in 1..Len(files[cursor[c].fd]) : s = files[cursor[c].fd][i]
        BY <1>1, <1>3, Contents
      <3> QED BY <1>6, <3>1
    <2>3. cursor[c].off \in 1..Len(files[cursor[c].fd]) /\ cursor[c].off > 0
      BY <2>1, <2>2
    <2>4. cursor[c].last = files[cursor[c].fd][cursor[c].off]
      BY <1>1, <2>3 DEF KPlace, Placed
    <2>5. r <= cursor[c].last
      BY <1>1, <1>3, <1>6, <2>1, <2>3, <2>4, UpTo
    <2> QED BY <1>1, <1>6, <2>5 DEF KHad
  <1> QED BY <1>5, <1>6

(* When nothing is after the file. *)
LEMMA NothingAfter ==
  ASSUME IInv, KInv, NEW c \in Readers, ~Sealed(c), Valid(c),
         \/ c = "gc" /\ Collecting
         \/ c = "analytics" /\ Unrotated(c)
         \/ cursor[c].fd = Newest
  PROVE  \A k \in 1..Newest : Kept(k) /\ k > cursor[c].fd => Records(k) = {}
  <1>1. /\ KFiles /\ KDir /\ KShape(c) /\ KPlace(c) /\ KNeeds /\ KGc
    BY KnownOf
  <1>2. /\ Newest \in Nat /\ Top \in Nat /\ Top <= Newest /\ Newest <= Top + 1
        /\ linked => Top = Newest - 1
    BY <1>1, Numbers
  <1>3. cursor[c].fd \in 1..Newest
    BY <1>1, ShapeFacts DEF Valid
  <1>4. CASE c = "gc" /\ Collecting
    <2>1. \A j \in 1..Newest : j > cursor[c].fd => files[j] = <<>>
      BY <1>1, <1>4 DEF KGc
    <2> QED BY <2>1 DEF Records
  <1>5. CASE c = "analytics" /\ Unrotated(c)
    <2>1. CASE Segments = {}
      <3>1. Kept(cursor[c].fd)
        BY <1>1, <1>5 DEF KNeeds
      <3>2. cursor[c].fd = Newest
        BY <2>1, <3>1 DEF Kept
      <3> QED BY <1>2, <3>2
    <2>2. CASE Segments # {}
      <3>1. cursor[c].tail = NewestTail
        BY <1>5, <2>2 DEF Unrotated
      <3>2. cursor[c].tail[1] = Top
        BY <1>1, <2>2, <3>1, Listing
      <3>3. Top < cursor[c].fd
        BY <1>1, <3>2 DEF KPlace
      <3>4. cursor[c].fd = Newest
        BY <1>2, <1>3, <3>3
      <3> QED BY <1>2, <3>4
    <2> QED BY <2>1, <2>2
  <1>6. CASE cursor[c].fd = Newest
    BY <1>2, <1>6
  <1> QED BY <1>4, <1>5, <1>6

(* The collection's cursor at the same place. *)
LEMMA GcSamePlace ==
  ASSUME KInv, OnlyReader, UNCHANGED read, Collecting, 
         cursor'["gc"].phase \in {cursor["gc"].phase, "next", "ready", "reopen"},
         cursor'["gc"].seg = cursor["gc"].seg, cursor'["gc"].off = cursor["gc"].off,
         cursor'["gc"].last = cursor["gc"].last, cursor'["gc"].fd = cursor["gc"].fd,
         Valid("gc")' = Valid("gc"), OnTheWay' => Sealed("gc") \/ OnTheWay,
         cursor'["gc"].at = "idle" /\ cursor'["gc"].got = "end" /\ "gc" \notin disturbed =>
           Retained \subseteq read["gc"]
  PROVE  KGc'
  <1>1. KGc /\ UNCHANGED <<files, disturbed>> /\ Newest' = Newest /\ Retained' = Retained
    BY ReaderFrame DEF KInv
  <1>2. /\ Sealed("gc")' = Sealed("gc") /\ Collecting'
        /\ cursor'["gc"].phase = "opening" => cursor'["gc"].last = 0
    BY <1>1 DEF Sealed, Collecting, KGc
  <1>3. Collecting' /\ ~Sealed("gc")' /\ Valid("gc")' =>
       \A j \in 1..Newest' : j > cursor'["gc"].fd => files'[j] = <<>>
    BY <1>1, <1>2 DEF KGc
  <1>4. Collecting' /\ ~Sealed("gc")' /\ OnTheWay' =>
       Valid("gc")' /\ (cursor'["gc"].off > 0 \/ cursor'["gc"].last = 0)
    BY <1>1, <1>2 DEF KGc
  <1>5. Collecting' /\ cursor'["gc"].at = "idle" /\ cursor'["gc"].got = "end" /\ "gc" \notin disturbed' =>
       Retained' \subseteq read'["gc"]
    BY <1>1
  <1> QED BY <1>2, <1>3, <1>4, <1>5 DEF KGc

(* A cursor, by its fields. *)
LEMMA ByFields ==
  ASSUME IInv, KInv, NEW c \in Readers
  PROVE  \E o : /\ o = cursor[c]
               /\ o = [at |-> o.at, seg |-> o.seg, off |-> o.off, last |-> o.last, tail |-> o.tail,
                       fd |-> o.fd, name |-> o.name, phase |-> o.phase, got |-> o.got]
  BY KnownOf DEF KShape

(* Next starts to read. *)
LEMMA CallsRead ==
  ASSUME IInv, KInv, IInv', NEW c \in Readers, Unrotated(c), Calls(c),
         Put(c, [cursor[c] EXCEPT !.at = "read", !.phase = "next"]), UNCHANGED read, OnlyReader
  PROVE  Moved(c)
  <1>1. /\ KFiles /\ KDir /\ Counts /\ KGc /\ KShape(c)
    BY KnownOf
  <1>0. PICK o : /\ o = cursor[c]
                 /\ o = [at |-> o.at, seg |-> o.seg, off |-> o.off, last |-> o.last, tail |-> o.tail,
                         fd |-> o.fd, name |-> o.name, phase |-> o.phase, got |-> o.got]
    BY ByFields
  <1>2. PICK r : r = [o EXCEPT !.at = "read", !.phase = "next"]
    OBVIOUS
  <1>3. r = [at |-> "read", seg |-> o.seg, off |-> o.off, last |-> o.last, tail |-> o.tail,
             fd |-> o.fd, name |-> o.name, phase |-> "next", got |-> o.got]
    BY <1>0, <1>2
  <1>p. Put(c, r) /\ Counts
    BY <1>0, <1>1, <1>2
  <1>4. /\ Becomes(c, r)
        /\ cursor'[c].at = "read" /\ cursor'[c].seg = cursor[c].seg /\ cursor'[c].off = cursor[c].off
        /\ cursor'[c].last = cursor[c].last /\ cursor'[c].tail = cursor[c].tail
        /\ cursor'[c].fd = cursor[c].fd /\ cursor'[c].phase = "next"
    BY <1>0, <1>p, <1>3, PutBecomes
  <1>5. /\ cursor' = [cursor EXCEPT ![c] = cursor'[c]]
        /\ cursor'[c] = [at |-> cursor'[c].at, seg |-> cursor'[c].seg, off |-> cursor'[c].off,
                       last |-> cursor'[c].last, tail |-> cursor'[c].tail, fd |-> cursor'[c].fd,
                       name |-> cursor'[c].name, phase |-> cursor'[c].phase, got |-> cursor'[c].got]
    BY <1>4 DEF Becomes
  <1>6. cursor[c].at = "idle" /\ (c = "gc" => Collecting /\ cursor[c].got \in {"opened", "record"})
    BY DEF Calls, Collecting
  <1>7. Valid(c)' = Valid(c)
    BY <1>4, <1>6 DEF Valid
  <1>8. ~Sealed(c) => \A k \in Segments : ~(k > cursor[c].tail[1])
    <2>1. ASSUME ~Sealed(c), NEW k \in Segments
          PROVE  ~(k > cursor[c].tail[1])
      <3>1. cursor[c].tail = NewestTail
        BY <2>1 DEF Unrotated
      <3>2. NewestTail[1] = Top /\ k \in 1..Top /\ Top \in Nat
        BY <1>1, <2>1, Listing, Numbers
      <3> QED BY <3>1, <3>2
    <2> QED BY <2>1
  <1>9. c = "gc" => KGc'
    <2>1. OnTheWay' => OnTheWay \/ c # "gc"
      BY <1>6 DEF OnTheWay
    <2> QED BY <1>4, <1>6, <1>7, <2>1, GcSamePlace
  <1>10. c = "analytics" => cursor[c].phase \in {"ready", "next", "locked", "reopen"}
    BY <1>1 DEF KShape
  <1>11. c = "analytics" \/ c = "gc"
    BY DEF Readers
  <1> QED BY <1>4, <1>5, <1>6, <1>7, <1>8, <1>9, <1>10, <1>11, SamePlace

(* A collection that is in a call is running. *)
LEMMA GcIsOn ==
  ASSUME KInv, cursor["gc"].at # "idle"
  PROVE  Collecting
  BY DEF KInv, KGc, Off

(* A call returns at the place where the cursor is. *)
LEMMA Returns ==
  ASSUME IInv, KInv, IInv', NEW c \in Readers, NEW g \in {"end", "error"},
         cursor[c].at \notin {"idle", "list"},
         Put(c, Returned(cursor[c], g)), UNCHANGED read, OnlyReader,
         c = "gc" /\ g = "end" /\ c \notin disturbed => Retained \subseteq read[c]
  PROVE  Moved(c) /\ cursor'[c].at = "idle" /\ cursor'[c].off = cursor[c].off
  <1>1. Counts /\ KShape(c)
    BY KnownOf
  <1>0. PICK o : /\ o = cursor[c]
                 /\ o = [at |-> o.at, seg |-> o.seg, off |-> o.off, last |-> o.last, tail |-> o.tail,
                         fd |-> o.fd, name |-> o.name, phase |-> o.phase, got |-> o.got]
    BY ByFields
  <1>2. PICK r : r = Returned(o, g)
    OBVIOUS
  <1>3. r = [at |-> "idle", seg |-> o.seg, off |-> o.off, last |-> o.last, tail |-> o.tail,
             fd |-> o.fd, name |-> NoTail, phase |-> "ready", got |-> g]
    BY <1>0, <1>2 DEF Returned
  <1>p. Put(c, r)
    BY <1>0, <1>2
  <1>4. /\ Becomes(c, r)
        /\ cursor'[c].at = "idle" /\ cursor'[c].seg = cursor[c].seg /\ cursor'[c].off = cursor[c].off
        /\ cursor'[c].last = cursor[c].last /\ cursor'[c].tail = cursor[c].tail
        /\ cursor'[c].fd = cursor[c].fd /\ cursor'[c].phase = "ready" /\ (c = "gc" => cursor'[c].got = g)
    BY <1>0, <1>1, <1>p, <1>3, PutBecomes
  <1>5. /\ cursor' = [cursor EXCEPT ![c] = cursor'[c]]
        /\ cursor'[c] = [at |-> cursor'[c].at, seg |-> cursor'[c].seg, off |-> cursor'[c].off,
                       last |-> cursor'[c].last, tail |-> cursor'[c].tail, fd |-> cursor'[c].fd,
                       name |-> cursor'[c].name, phase |-> cursor'[c].phase, got |-> cursor'[c].got]
    BY <1>4 DEF Becomes
  <1>7. Valid(c)' = Valid(c)
    BY <1>4 DEF Valid
  <1>9. c = "gc" => KGc'
    <2> SUFFICES ASSUME c = "gc"
                 PROVE  KGc'
      OBVIOUS
    <2>1. Collecting
      BY GcIsOn
    <2>2. ~OnTheWay'
      BY <1>4 DEF OnTheWay
    <2>3. cursor'["gc"].got = g
      BY <1>4
    <2>4. cursor'["gc"].at = "idle" /\ cursor'["gc"].got = "end" /\ "gc" \notin disturbed =>
           Retained \subseteq read["gc"]
      BY <2>3
    <2> QED BY <1>4, <1>7, <2>1, <2>2, <2>4, GcSamePlace
  <1>10. c = "analytics" => cursor[c].phase \in {"ready", "next", "locked", "reopen"}
    BY <1>1 DEF KShape
  <1>11. c = "analytics" \/ c = "gc"
    BY DEF Readers
  <1>12. Moved(c)
    BY <1>4, <1>5, <1>7, <1>9, <1>10, <1>11, SamePlace
  <1> QED BY <1>4, <1>12

(* A call goes on at the place where the cursor is. *)
LEMMA Continues ==
  ASSUME IInv, KInv, IInv', NEW c \in Readers, NEW at, NEW phase,
         cursor[c].at \notin {"idle", "list"},
         Put(c, [cursor[c] EXCEPT !.at = at, !.phase = phase]), UNCHANGED read, OnlyReader,
         \/ at = "advance" /\ phase = cursor[c].phase /\ Sealed(c) /\ Finished(c) /\ Valid(c)
         \/ at = "again" /\ phase = cursor[c].phase /\ Finished(c) /\ Valid(c) /\ (c = "gc" => OnTheWay)
         \/ at = "list" /\ phase = "reopen" /\ ~Valid(c)
  PROVE  Moved(c) /\ cursor'[c].at = at
  <1>1. Counts /\ KShape(c)
    BY KnownOf
  <1>0. PICK o : /\ o = cursor[c]
                 /\ o = [at |-> o.at, seg |-> o.seg, off |-> o.off, last |-> o.last, tail |-> o.tail,
                         fd |-> o.fd, name |-> o.name, phase |-> o.phase, got |-> o.got]
    BY ByFields
  <1>2. PICK r : r = [o EXCEPT !.at = at, !.phase = phase]
    OBVIOUS
  <1>3. r = [at |-> at, seg |-> o.seg, off |-> o.off, last |-> o.last, tail |-> o.tail,
             fd |-> o.fd, name |-> o.name, phase |-> phase, got |-> o.got]
    BY <1>0, <1>2
  <1>p. Put(c, r)
    BY <1>0, <1>2
  <1>4. /\ Becomes(c, r)
        /\ cursor'[c].at = at /\ cursor'[c].seg = cursor[c].seg /\ cursor'[c].off = cursor[c].off
        /\ cursor'[c].last = cursor[c].last /\ cursor'[c].tail = cursor[c].tail
        /\ cursor'[c].fd = cursor[c].fd /\ cursor'[c].phase = phase
    BY <1>0, <1>1, <1>p, <1>3, PutBecomes
  <1>5. /\ cursor' = [cursor EXCEPT ![c] = cursor'[c]]
        /\ cursor'[c] = [at |-> cursor'[c].at, seg |-> cursor'[c].seg, off |-> cursor'[c].off,
                       last |-> cursor'[c].last, tail |-> cursor'[c].tail, fd |-> cursor'[c].fd,
                       name |-> cursor'[c].name, phase |-> cursor'[c].phase, got |-> cursor'[c].got]
    BY <1>4 DEF Becomes
  <1>7. Valid(c)' = Valid(c)
    BY <1>4 DEF Valid
  <1>6. /\ cursor'[c].phase \in {cursor[c].phase, "reopen"}
        /\ cursor'[c].at \in {"again", "advance", "list"}
        /\ cursor'[c].at = "advance" => Sealed(c)
        /\ cursor'[c].at \in {"again", "advance"} => Valid(c) /\ Finished(c)
    BY <1>4
  <1>9. c = "gc" => KGc'
    <2> SUFFICES ASSUME c = "gc"
                 PROVE  KGc'
      OBVIOUS
    <2>1. Collecting
      BY GcIsOn
    <2>2. OnTheWay' => OnTheWay
      BY <1>4 DEF OnTheWay
    <2>3. cursor'["gc"].phase # "off" /\ cursor'["gc"].phase \in {cursor["gc"].phase, "next", "ready", "reopen"}
      BY <1>6, <2>1 DEF Collecting
    <2> QED BY <1>4, <1>6, <1>7, <2>1, <2>2, <2>3, GcSamePlace
  <1>10. c = "analytics" => cursor[c].phase \in {"ready", "next", "locked", "reopen"}
    BY <1>1 DEF KShape
  <1>11. c = "analytics" \/ c = "gc"
    BY DEF Readers
  <1>12. Valid(c) => cursor[c].fd # 0
    BY DEF Valid
  <1>13. Moved(c)
    BY <1>4, <1>5, <1>6, <1>7, <1>9, <1>10, <1>11, <1>12, SamePlace
  <1> QED BY <1>4, <1>13

(* What a call that finds no more promises. *)
NoMore(c) ==
  (/\ cursor[c].at \in {"read", "again", "advance"} /\ cursor'[c].at = "idle"
   /\ cursor'[c].off = cursor[c].off /\ c \notin disturbed)
    => Retained \ Records(cursor[c].fd) \subseteq read[c]

(* At the end of a file. *)
LEMMA Ends ==
  ASSUME IInv, KInv, IInv', NEW c \in Readers, cursor[c].at \in {"read", "again"},
         Put(c, Ended(c)), UNCHANGED read, OnlyReader, Valid(c), Finished(c),
         c \notin disturbed => Unrotated(c) \/ cursor[c].fd = Newest \/ c = "gc"
  PROVE  Moved(c) /\ NoMore(c)
  <1>1. KFiles /\ Counts /\ KShape(c)
    BY KnownOf
  <1>2. CASE Sealed(c)
    <2>0. PICK o : /\ o = cursor[c]
                   /\ o = [at |-> o.at, seg |-> o.seg, off |-> o.off, last |-> o.last, tail |-> o.tail, fd |-> o.fd,
                           name |-> o.name, phase |-> o.phase, got |-> o.got]
      BY ByFields
    <2>1. PICK r : r = [o EXCEPT !.at = "advance"]
      OBVIOUS
    <2>2. PICK q : q = [o EXCEPT !.at = "advance", !.phase = o.phase]
      OBVIOUS
    <2>3. r = q
      BY <2>0, <2>1, <2>2
    <2>4. Put(c, q)
      BY <1>2, <2>0, <2>1, <2>3 DEF Ended
    <2>5. Put(c, [cursor[c] EXCEPT !.at = "advance", !.phase = cursor[c].phase])
      BY <2>0, <2>2, <2>4
    <2>6. \A a, p : Put(c, [cursor[c] EXCEPT !.at = a, !.phase = p]) /\ a = "advance" /\ p = cursor[c].phase =>
                      Moved(c) /\ cursor'[c].at = a
      BY <1>2, Continues
    <2>7. Moved(c) /\ cursor'[c].at = "advance"
      BY <2>5, <2>6
    <2> QED BY <2>7 DEF NoMore
  <1>3. CASE ~Sealed(c)
    <2>1. Put(c, Returned(cursor[c], "end"))
      BY <1>3 DEF Ended
    <2>2. c = "gc" \/ c = "analytics"
      BY DEF Readers
    <2>3. c = "gc" => Collecting
      BY GcIsOn
    <2>4. c \notin disturbed => \A k \in 1..Newest : Kept(k) /\ k > cursor[c].fd => Records(k) = {}
      BY <1>3, <2>2, <2>3, NothingAfter
    <2>5. c \notin disturbed => Retained \ Records(cursor[c].fd) \subseteq read[c] /\ Retained \subseteq read[c]
      BY <1>3, <2>4, HasAll
    <2>6. Moved(c)
      BY <2>1, <2>5, Returns
    <2> QED BY <2>5, <2>6 DEF NoMore
  <1> QED BY <1>2, <1>3

(* GoOn, whole. *)
LEMMA GoOnMoves ==
  ASSUME IInv, KInv, IInv', NEW c \in Readers, GoOn(c)
  PROVE  Moved(c) /\ NoMore(c) /\ OnlyReader
  <1>1. Unrotated(c) /\ UNCHANGED read /\ OnlyReader
    BY DEF GoOn
  <1>2. CASE Calls(c) /\ Put(c, [cursor[c] EXCEPT !.at = "read", !.phase = "next"])
    <2>1. Moved(c)
      BY <1>1, <1>2, CallsRead
    <2>2. NoMore(c)
      BY <1>2 DEF NoMore, Calls
    <2> QED BY <1>1, <2>1, <2>2
  <1>3. CASE cursor[c].at = "again" /\ Put(c, Ended(c))
    <2>1. Valid(c)
      BY <1>3, KnownOf DEF KShape, Valid
    <2>2. Finished(c) \/ (c = "analytics" /\ ~Sealed(c))
      BY <1>3, KnownOf DEF KPlace, Readers
    <2>3. CASE Finished(c)
      BY <1>1, <1>3, <2>1, <2>3, Ends
    <2>4. CASE c = "analytics" /\ ~Sealed(c)
      <3>1. Put(c, Returned(cursor[c], "end"))
        BY <1>3, <2>4 DEF Ended
      <3>2. Moved(c)
        BY <1>1, <1>3, <2>4, <3>1, Returns
      <3>3. c \notin disturbed => Retained \ Records(cursor[c].fd) \subseteq read[c]
        BY <1>1, <2>1, <2>4, NothingAfter, HasAll
      <3> QED BY <1>1, <3>2, <3>3 DEF NoMore
    <2> QED BY <2>2, <2>3, <2>4
  <1> QED BY <1>1, <1>2, <1>3 DEF GoOn

(* A file that is closed is opened again. *)
LEMMA ReadFailsMoves ==
  ASSUME IInv, KInv, IInv', NEW c \in Readers, ReadFails(c)
  PROVE  Moved(c) /\ NoMore(c) /\ OnlyReader
  <1>1. /\ cursor[c].at = "read" /\ cursor[c].fd = 0 /\ UNCHANGED read /\ OnlyReader
        /\ Put(c, [cursor[c] EXCEPT !.at = "list", !.phase = "reopen"])
    BY DEF ReadFails
  <1>2. ~Valid(c)
    BY <1>1 DEF Valid
  <1>3. Moved(c) /\ cursor'[c].at = "list"
    BY <1>1, <1>2, Continues
  <1> QED BY <1>1, <1>3 DEF NoMore

(* At the end of the file, it asks again, or is done with it. *)
LEMMA NothingToReadMoves ==
  ASSUME IInv, KInv, IInv', NEW c \in Readers, cursor[c].at = "read", cursor[c].fd # 0,
         ~(cursor[c].off < Len(files[cursor[c].fd])), UNCHANGED read, OnlyReader,
         Put(c, IF cursor[c].phase = "next" THEN [cursor[c] EXCEPT !.at = "again"] ELSE Ended(c))
  PROVE  Moved(c) /\ NoMore(c)
  <1>1. KFiles /\ Counts /\ KShape(c) /\ KPlace(c) /\ KHad(c)
    BY KnownOf
  <1>2. Valid(c)
    BY DEF Valid
  <1>3. Finished(c)
    <2>1. cursor[c].fd \in 1..Newest /\ cursor[c].off \in Nat
      BY <1>1, ShapeFacts
    <2>2. Placed(c, cursor[c].fd)
      BY <1>1, <1>2 DEF KPlace
    <2>3. Len(files[cursor[c].fd]) \in Nat
      BY <1>1, <2>1, Contents
    <2> QED BY <2>1, <2>2, <2>3 DEF Placed, Finished
  <1>4. CASE cursor[c].phase = "next"
    <2>0. PICK o : /\ o = cursor[c]
                   /\ o = [at |-> o.at, seg |-> o.seg, off |-> o.off, last |-> o.last, tail |-> o.tail, fd |-> o.fd,
                           name |-> o.name, phase |-> o.phase, got |-> o.got]
      BY ByFields
    <2>1. PICK r : r = [o EXCEPT !.at = "again"]
      OBVIOUS
    <2>2. PICK q : q = [o EXCEPT !.at = "again", !.phase = o.phase]
      OBVIOUS
    <2>3. r = q
      BY <2>0, <2>1, <2>2
    <2>4. Put(c, q)
      BY <1>4, <2>0, <2>1, <2>3
    <2>5. Put(c, [cursor[c] EXCEPT !.at = "again", !.phase = cursor[c].phase])
      BY <2>0, <2>2, <2>4
    <2>6. c = "gc" => OnTheWay
      BY <1>4 DEF OnTheWay
    <2>7. \A a, p : Put(c, [cursor[c] EXCEPT !.at = a, !.phase = p]) /\ a = "again" /\ p = cursor[c].phase =>
                      Moved(c) /\ cursor'[c].at = a
      BY <1>2, <1>3, <2>6, Continues
    <2>8. Moved(c) /\ cursor'[c].at = "again"
      BY <2>5, <2>7
    <2> QED BY <2>8 DEF NoMore
  <1>5. CASE cursor[c].phase # "next"
    <2>1. Put(c, Ended(c))
      BY <1>5
    <2>2. c \notin disturbed => Sealed(c) \/ cursor[c].fd = Newest
      BY <1>1, <1>5 DEF KHad, KShape
    <2>3. Sealed(c) => Unrotated(c)
      BY DEF Unrotated
    <2> QED BY <1>2, <1>3, <2>1, <2>2, <2>3, Ends
  <1> QED BY <1>4, <1>5

(* A reader is given the next record of its file. *)
LEMMA RecordIsGiven ==
  ASSUME IInv, KInv, NEW c \in Readers, c \notin disturbed, cursor[c].at = "read", cursor[c].fd # 0,
         NEW i, i = cursor[c].off + 1, i <= Len(files[cursor[c].fd]),
         NEW r \in Retained, r <= files[cursor[c].fd][i]
  PROVE  r \in read[c] \/ r = files[cursor[c].fd][i]
  <1>1. KFiles /\ KDir /\ KShape(c) /\ KPlace(c) /\ KHad(c)
    BY KnownOf
  <1>2. PICK f : f = cursor[c].fd
    OBVIOUS
  <1>3. /\ f \in 1..Newest /\ cursor[c].off \in Nat /\ f \in Nat /\ Newest \in Nat /\ Top \in Nat
        /\ Newest <= Top + 1
    BY <1>1, <1>2, ShapeFacts, Numbers
  <1>4. Len(files[f]) \in Nat
    BY <1>1, <1>3, Contents
  <1>5. i \in 1..Len(files[f]) /\ cursor[c].off = i - 1
    BY <1>2, <1>3, <1>4
  <1>6. files[f][i] \in Records(f)
    BY <1>1, <1>3, <1>5, UpTo
  <1>7. PICK k : Kept(k) /\ r \in Records(k)
    BY RetainedAre
  <1>8. k \in 1..Newest
    BY <1>1, <1>7, KeptAre
  <1>9. k <= f
    BY <1>1, <1>2, <1>3, <1>6, <1>7, <1>8, OneFile
  <1>10. CASE k = f
    <2>0. r \in Records(f) /\ r <= files[f][i]
      BY <1>2, <1>7, <1>10
    <2>a. KFiles /\ f \in 1..Newest /\ i \in 1..Len(files[f])
      BY <1>1, <1>3, <1>5
    <2>b. \A h \in 1..Len(files[f]) : h = 1 => \A s \in Records(f) : s <= files[f][h] => s = files[f][h]
      BY <2>a, UpTo
    <2>1. i = 1 => r = files[f][i]
      BY <2>0, <2>a, <2>b
    <2>2. i > 1 => r = files[f][i] \/ r <= files[f][i - 1]
      BY <1>1, <1>3, <1>5, <2>0, UpTo
    <2>3. i > 1 => cursor[c].last = files[f][i - 1]
      <3>1. Placed(c, f)
        BY <1>1, <1>2 DEF KPlace, Valid
      <3> QED BY <1>3, <1>5, <3>1 DEF Placed
    <2>4. i > 1 => r = files[f][i] \/ r \in read[c]
      BY <1>1, <2>2, <2>3 DEF KHad
    <2>5. i = 1 \/ i > 1
      BY <1>4, <1>5
    <2> QED BY <1>2, <2>1, <2>4, <2>5
  <1>11. CASE k # f
    <2>1. k < f /\ k # Newest
      BY <1>3, <1>8, <1>9, <1>11
    <2>2. k \in Segments
      BY <1>7, <2>1 DEF Kept
    <2>3. ~(k >= f)
      BY <1>3, <1>8, <2>1
    <2>4. Valid(c) /\ (Sealed(c) => cursor[c].seg = f)
      BY <1>1, <1>2 DEF KPlace, Valid
    <2>5. Had(c, k)
      BY <1>1, <1>2, <2>2, <2>3, <2>4 DEF KHad
    <2> QED BY <1>7, <2>5 DEF Had
  <1> QED BY <1>10, <1>11

(* A record is read. *)
LEMMA ReadsMoves ==
  ASSUME IInv, KInv, IInv', NEW c \in Readers, OnlyReader, cursor[c].at = "read", cursor[c].fd # 0,
         cursor[c].off < Len(files[cursor[c].fd]),
         Put(c, Returned([cursor[c] EXCEPT !.off = @ + 1, !.last = files[cursor[c].fd][cursor[c].off + 1]],
                         "record")),
         read' = [read EXCEPT ![c] = @ \cup {files[cursor[c].fd][cursor[c].off + 1]}]
  PROVE  Moved(c) /\ NoMore(c)
  <1>1. KFiles /\ KDir /\ KShape(c) /\ KPlace(c) /\ KHad(c) /\ KNeeds /\ KGc /\ Counts
    BY KnownOf
  <1>2. PICK f : f = cursor[c].fd
    OBVIOUS
  <1>3. PICK i : i = cursor[c].off + 1
    OBVIOUS
  <1>4. PICK x : x = files[f][i]
    OBVIOUS
  <1>5. f \in 1..Newest /\ cursor[c].off \in Nat /\ Newest \in Nat /\ Len(stamps) \in Nat /\ f \in Nat
    BY <1>1, <1>2, ShapeFacts, Numbers
  <1>6. Len(files[f]) \in Nat
    BY <1>1, <1>5, Contents
  <1>7. i \in 1..Len(files[f]) /\ i > 0 /\ cursor[c].off # i
    <2>1. cursor[c].off < Len(files[f]) /\ i = cursor[c].off + 1 /\ cursor[c].off \in Nat
      BY <1>2, <1>3, <1>5
    <2> QED BY <1>6, <2>1
  <1>8. x \in Records(f) /\ x \in 1..Len(stamps) /\ x # 0
    BY <1>1, <1>4, <1>5, <1>7, Contents
  <1>0. PICK o : /\ o = cursor[c]
                 /\ o = [at |-> o.at, seg |-> o.seg, off |-> o.off, last |-> o.last, tail |-> o.tail,
                         fd |-> o.fd, name |-> o.name, phase |-> o.phase, got |-> o.got]
    BY ByFields
  <1>9. PICK q : q = [o EXCEPT !.off = @ + 1, !.last = x]
    OBVIOUS
  <1>10. q = [at |-> o.at, seg |-> o.seg, off |-> o.off + 1, last |-> x, tail |-> o.tail,
             fd |-> o.fd, name |-> o.name, phase |-> o.phase, got |-> o.got]
    BY <1>0, <1>9
  <1>11. PICK p : p = Returned(q, "record")
    OBVIOUS
  <1>12. p = [at |-> "idle", seg |-> o.seg, off |-> o.off + 1, last |-> x, tail |-> o.tail,
             fd |-> o.fd, name |-> NoTail, phase |-> "ready", got |-> "record"]
    BY <1>10, <1>11 DEF Returned
  <1>13. Put(c, p)
    BY <1>0, <1>2, <1>3, <1>4, <1>9, <1>11
  <1>14. /\ Becomes(c, p)
        /\ cursor'[c].at = "idle" /\ cursor'[c].seg = cursor[c].seg /\ cursor'[c].off = o.off + 1
        /\ cursor'[c].last = x /\ cursor'[c].tail = cursor[c].tail
        /\ cursor'[c].fd = cursor[c].fd /\ cursor'[c].phase = "ready" /\ (c = "gc" => cursor'[c].got = "record")
    BY <1>0, <1>1, <1>13, <1>12, PutBecomes
  <1>15. /\ cursor' = [cursor EXCEPT ![c] = cursor'[c]]
        /\ cursor'[c] = [at |-> cursor'[c].at, seg |-> cursor'[c].seg, off |-> cursor'[c].off,
                       last |-> cursor'[c].last, tail |-> cursor'[c].tail, fd |-> cursor'[c].fd,
                       name |-> cursor'[c].name, phase |-> cursor'[c].phase, got |-> cursor'[c].got]
    BY <1>14 DEF Becomes
  <1>16. cursor'[c].off = i /\ cursor'[c].fd = f
    BY <1>0, <1>2, <1>3, <1>14
  <1>17. read = [d \in Readers |-> read[d]] /\ read[c] \subseteq 1..Len(stamps)
    BY <1>1 DEF Counts
  <1>18. read'[c] = read[c] \cup {x} /\ read' = [read EXCEPT ![c] = read'[c]]
    BY <1>2, <1>3, <1>4, <1>17
  <1>19. /\ UNCHANGED <<files, linked, dir, stamps, maint, disturbed>>
        /\ Newest' = Newest /\ Top' = Top /\ Segments' = Segments /\ Retained' = Retained
        /\ \A k : Records(k)' = Records(k) /\ Kept(k)' = Kept(k)
    BY ReaderFrame
  <1>20. /\ Sealed(c)' = Sealed(c) /\ Valid(c)' /\ Valid(c) /\ (Sealed(c) => cursor[c].seg = f)
    BY <1>1, <1>2, <1>14 DEF Sealed, Valid, KPlace
  <1>21. \A j \in 1..Newest : x \in Records(j) => j = f
    BY <1>1, <1>5, <1>8, OneFile
  <1>22. KShape(c)'
    <2>1. /\ cursor'[c].seg \in (0..Top') \cup {Active}
          /\ cursor'[c].fd \in 0..Newest' /\ cursor'[c].tail[1] \in 0..Top'
      BY <1>1, <1>14, <1>19 DEF KShape
    <2>2. cursor'[c].off \in Nat
      BY <1>7, <1>16
    <2>3. cursor'[c].last \in 0..Len(stamps')
      BY <1>8, <1>14, <1>19
    <2> QED BY <1>14, <1>15, <2>1, <2>2, <2>3 DEF KShape
  <1>23. Placed(c, cursor[c].fd)'
    BY <1>4, <1>6, <1>7, <1>14, <1>16, <1>19 DEF Placed
  <1>24. KPlace(c)'
    <2>1. Sealed(c)' => cursor'[c].fd = cursor'[c].seg
      BY <1>14, <1>16, <1>20
    <2>2. Sealed(c)' => Placed(c, cursor[c].seg)' /\ (Valid(c)' => cursor'[c].fd = cursor'[c].seg)
      BY <1>23, <2>1 DEF Placed
    <2>3. ~Sealed(c)' => cursor'[c].tail[1] < cursor'[c].fd
      BY <1>1, <1>14, <1>20 DEF KPlace
    <2>4. \A j \in 1..Newest' : cursor'[c].last \in Records(j)' => j <= cursor'[c].fd
      BY <1>5, <1>14, <1>16, <1>19, <1>21
    <2>5. cursor'[c].seg = Active => cursor'[c].last # 0
      BY <1>8, <1>14
    <2>6. cursor'[c].at = "idle"
      BY <1>14
    <2> QED BY <1>20, <1>23, <2>2, <2>3, <2>4, <2>5, <2>6 DEF KPlace
  <1>25. KHad(c)'
    <2> SUFFICES ASSUME c \notin disturbed
                 PROVE  /\ \A r \in Retained' : r <= cursor'[c].last => r \in read'[c]
                        /\ Sealed(c)' => cursor'[c].seg \in Segments'
                        /\ \A k \in Segments' :
                             \/ Had(c, k)'
                             \/ Sealed(c)' /\ k >= cursor'[c].seg
                             \/ ~Sealed(c)' /\ Valid(c)' /\ k >= cursor'[c].fd
                        /\ cursor'[c].at # "read"
      BY <1>19 DEF KHad
    <2>1. \A r \in Retained : r <= x => r \in read[c] \/ r = x
      BY <1>2, <1>3, <1>4, <1>6, <1>7, RecordIsGiven
    <2>2. \A k : Had(c, k) => Had(c, k)'
      BY <1>18, <1>19 DEF Had
    <2>a. KHad(c) /\ Valid(c)
      BY <1>1, <1>20
    <2>3. ASSUME NEW k \in Segments
          PROVE  \/ Had(c, k)
                 \/ Sealed(c) /\ k >= cursor[c].seg
                 \/ ~Sealed(c) /\ k >= cursor[c].fd
      BY <2>a DEF KHad
    <2>4. Sealed(c) => cursor[c].seg \in Segments
      BY <1>1 DEF KHad
    <2> QED BY <1>14, <1>18, <1>19, <1>20, <2>1, <2>2, <2>3, <2>4
  <1>26. c = "analytics" => KNeeds' /\ \A k \in Segments : Done(k) => Done(k)'
    <2> SUFFICES ASSUME c = "analytics"
                 PROVE  KNeeds' /\ \A k \in Segments : Done(k) => Done(k)'
      OBVIOUS
    <2>1. CursorSpared'
      BY <1>1, <1>14, <1>19, <1>20 DEF KNeeds, CursorSpared
    <2>2. ~Sealed(c) => Kept(f)
      BY <1>1, <1>2, <1>20 DEF KNeeds
    <2>3. ~Sealed(c) => \A j \in 1..Newest : x \in Records(j) => Kept(j)
      BY <1>21, <2>2
    <2>4. ~Sealed(c) => Found(cursor["analytics"].last)'
      BY <1>14, <1>19, <2>3 DEF Found
    <2>5. ~Sealed(c) => Kept(cursor["analytics"].fd)'
      BY <1>16, <1>19, <2>2
    <2>6. KNeeds'
      BY <1>20, <2>1, <2>4, <2>5 DEF KNeeds
    <2>7. ASSUME NEW k \in Segments, Done(k)
          PROVE  Done(k)'
      <3>1. CASE Sealed(c)
        BY <1>14, <1>20, <2>7, <3>1 DEF Done
      <3>2. CASE ~Sealed(c)
        <4>1. k \in 1..Newest /\ Records(k) # {}
          BY <1>1, <2>7, DoneIsPast
        <4>2. PICK j \in 1..Newest : k < j /\ cursor["analytics"].last \in Records(j)
          BY <1>1, <2>7, <3>2, DoneIsPast
        <4>3. j <= f
          BY <1>1, <1>2, <1>20, <3>2, <4>2 DEF KPlace
        <4>4. k < f
          BY <1>5, <4>1, <4>2, <4>3
        <4>5. Past(x, k)
          BY <1>1, <1>5, <1>8, <4>1, <4>4, PastIsLater
        <4>6. Past(cursor["analytics"].last, k)'
          BY <1>14, <1>19, <4>5 DEF Past
        <4> QED BY <1>20, <3>2, <4>6 DEF Done
      <3> QED BY <3>1, <3>2
    <2> QED BY <2>6, <2>7
  <1>27. c = "gc" => KGc'
    <2> SUFFICES ASSUME c = "gc"
                 PROVE  KGc'
      OBVIOUS
    <2>1. Collecting
      BY GcIsOn
    <2>2. Collecting' /\ cursor'["gc"].phase # "opening"
      BY <1>14 DEF Collecting
    <2>3. ~Sealed("gc")' => \A j \in 1..Newest' : j > cursor'["gc"].fd => files'[j] = <<>>
      BY <1>1, <1>14, <1>19, <1>20, <2>1 DEF KGc
    <2>4. Valid("gc")' /\ (cursor'["gc"].off > 0 \/ cursor'["gc"].last = 0)
      BY <1>7, <1>16, <1>20
    <2>5. cursor'["gc"].got # "end"
      BY <1>14
    <2> QED BY <2>2, <2>3, <2>4, <2>5 DEF KGc
  <1>28. NoMore(c)
    BY <1>7, <1>16 DEF NoMore
  <1>29. read'[c] \subseteq 1..Len(stamps)
    BY <1>8, <1>17, <1>18
  <1> QED BY <1>15, <1>18, <1>22, <1>24, <1>25, <1>26, <1>27, <1>28, <1>29 DEF Moved

(* Where a cursor starts again. *)
Goal(c, s, f) ==
  \/ cursor[c].last = 0 /\ s = Min(Segments) /\ f = 0
  \/ s \in Segments /\ f \in 1..Len(files[s]) /\ files[s][f] = cursor[c].last
  \/ cursor[c].last # 0 /\ s = Active /\ f = 0 /\ \A k \in Segments : cursor[c].last \notin Records(k)

(* The goal is what Refind looks for. *)
LEMMA RefindsAGoal ==
  ASSUME IInv, KInv, NEW c \in Readers, Refind(c)
  PROVE  \E s, f : /\ Put(c, [cursor[c] EXCEPT !.seg = s, !.off = f, !.at = "list", !.phase = "locked"])
                   /\ Goal(c, s, f)
  <1> DEFINE last == cursor[c].last
             where == {p \in Segments \X (1..MaxRecords) :
                         p[2] <= Len(files[p[1]]) /\ files[p[1]][p[2]] = last}
             goal == IF last = 0 THEN <<Min(Segments), 0>>
                     ELSE IF where # {} THEN CHOOSE p \in where : TRUE ELSE <<Active, 0>>
  <1>1. KFiles /\ KDir
    BY KnownOf
  <1>2. Put(c, [cursor[c] EXCEPT !.seg = goal[1], !.off = goal[2], !.at = "list", !.phase = "locked"])
    BY DEF Refind
  <1>3. PICK g : g = goal
    OBVIOUS
  <1>4. Goal(c, g[1], g[2])
    <2>1. CASE last = 0
      BY <1>3, <2>1 DEF Goal
    <2>2. CASE last # 0 /\ where # {}
      <3>1. g \in where
        BY <1>3, <2>2
      <3>2. g[1] \in Segments /\ g[2] \in 1..MaxRecords /\ g[2] <= Len(files[g[1]]) /\ files[g[1]][g[2]] = last
        BY <3>1
      <3>3. Len(files[g[1]]) \in Nat
        BY <1>1, <3>2, Listing, Contents
      <3>4. g[2] \in 1..Len(files[g[1]])
        BY <3>2, <3>3
      <3> QED BY <3>2, <3>4 DEF Goal
    <2>3. CASE last # 0 /\ where = {}
      <3>1. ASSUME NEW k \in Segments, last \in Records(k)
            PROVE  FALSE
        <4>1. k \in 1..Newest
          BY <1>1, Listing
        <4>2. PICK i \in 1..Len(files[k]) : last = files[k][i]
          BY <1>1, <3>1, <4>1, Contents
        <4>3. Len(files[k]) \in Nat /\ Len(files[k]) <= MaxRecords /\ MaxRecords \in Nat
          BY <1>1, <4>1, Contents, Numbers
        <4>4. i \in 1..MaxRecords /\ i <= Len(files[k])
          BY <4>2, <4>3
        <4>5. <<k, i>> \in where
          BY <4>2, <4>4
        <4> QED BY <2>3, <4>5
      <3>2. g = <<Active, 0>>
        BY <1>3, <2>3
      <3> QED BY <2>3, <3>1, <3>2 DEF Goal
    <2> QED BY <2>1, <2>2, <2>3
  <1>5. Put(c, [cursor[c] EXCEPT !.seg = g[1], !.off = g[2], !.at = "list", !.phase = "locked"])
    BY <1>2, <1>3
  <1> QED BY <1>4, <1>5

(* A record in no segment comes after all of them. *)
LEMMA AfterTheSegments ==
  ASSUME IInv, KInv, NEW c \in Readers, ~Sealed(c), cursor[c].last # 0,
         \A k \in Segments : cursor[c].last \notin Records(k),
         c = "gc" => Collecting /\ OnTheWay
  PROVE  \A k \in Segments : Past(cursor[c].last, k)
  <1>1. KFiles /\ KDir /\ KShape(c) /\ KPlace(c) /\ KNeeds /\ KGc
    BY KnownOf
  <1>2. /\ Newest \in Nat /\ Top \in Nat /\ Top <= Newest /\ (linked => Top = Newest - 1)
        /\ Len(stamps) \in Nat
    BY <1>1, Numbers
  <1>3. cursor[c].last \in 1..Len(stamps)
    BY <1>1, <1>2 DEF KShape
  <1>4. c = "analytics" \/ c = "gc"
    BY DEF Readers
  <1>5. \E j \in 1..Newest : cursor[c].last \in Records(j) /\ \A k \in Segments : k < j
    <2>1. CASE c = "analytics"
      <3>1. PICK j \in 1..Newest : cursor[c].last \in Records(j)
        BY <1>1, <1>3 DEF KFiles
      <3>2. Kept(j)
        BY <1>1, <2>1, <3>1 DEF KNeeds, Found
      <3>3. j = Newest /\ linked
        BY <3>1, <3>2 DEF Kept
      <3>4. \A k \in Segments : k \in 1..Top
        BY <1>1, Listing
      <3>5. \A k \in Segments : k < j
        BY <1>2, <3>3, <3>4
      <3> QED BY <3>1, <3>5
    <2>2. CASE c = "gc"
      <3>1. Valid(c) /\ cursor[c].off > 0
        BY <1>1, <2>2 DEF KGc
      <3>2. cursor[c].fd \in 1..Newest /\ cursor[c].off \in Nat
        BY <1>1, <3>1, ShapeFacts DEF Valid
      <3>3. cursor[c].off <= Len(files[cursor[c].fd]) /\ cursor[c].last = files[cursor[c].fd][cursor[c].off]
        BY <1>1, <3>1 DEF KPlace, Placed
      <3>4. Len(files[cursor[c].fd]) \in Nat
        BY <1>1, <3>2, Contents
      <3>5. cursor[c].off \in 1..Len(files[cursor[c].fd])
        BY <3>1, <3>2, <3>3, <3>4
      <3>6. cursor[c].last \in Records(cursor[c].fd)
        BY <3>3, <3>5 DEF Records
      <3>7. ASSUME NEW k \in Segments
            PROVE  k < cursor[c].fd
        <4>1. k \in 1..Newest /\ Records(k) # {}
          BY <1>1, Listing, Contents
        <4>2. ~(k > cursor[c].fd)
          BY <1>1, <2>2, <3>1, <4>1 DEF KGc, Records
        <4>3. k # cursor[c].fd
          BY <3>6, <3>7
        <4> QED BY <3>2, <4>1, <4>2, <4>3
      <3> QED BY <3>2, <3>6, <3>7
    <2> QED BY <1>4, <2>1, <2>2
  <1>6. PICK j \in 1..Newest : cursor[c].last \in Records(j) /\ \A k \in Segments : k < j
    BY <1>5
  <1>7. ASSUME NEW k \in Segments
        PROVE  Past(cursor[c].last, k)
    <2>1. k \in 1..Newest /\ Records(k) # {}
      BY <1>1, Listing, Contents
    <2> QED BY <1>1, <1>6, <2>1, PastIsLater
  <1> QED BY <1>7

(* The cursor starts again where its last record is, or after it. *)
LEMMA RefindMoves ==
  ASSUME IInv, KInv, IInv', NEW c \in Readers, Refind(c)
  PROVE  Moved(c) /\ NoMore(c) /\ OnlyReader
  <1>1. KFiles /\ KDir /\ KShape(c) /\ KPlace(c) /\ KHad(c) /\ KNeeds /\ KGc /\ Counts
    BY KnownOf
  <1>2. /\ UNCHANGED read /\ OnlyReader /\ ~Sealed(c) /\ Segments # {}
        /\ Calls(c) \/ cursor[c].at = "again"
    BY DEF Refind, Unrotated
  <1>3. PICK s, f : /\ Put(c, [cursor[c] EXCEPT !.seg = s, !.off = f, !.at = "list", !.phase = "locked"])
                    /\ Goal(c, s, f)
    BY RefindsAGoal
  <1>4. /\ Newest \in Nat /\ Top \in Nat /\ Top <= Newest /\ Newest < Active /\ Active \in Nat
        /\ Active = MaxRecords + 2 /\ MaxRecords \in Nat /\ Active # 0 /\ Len(stamps) \in Nat
    BY <1>1, Numbers
  <1>5. \A k \in Segments : k \in 1..Newest /\ k \in 1..Top /\ Records(k) # {} /\ Min(Segments) <= k
    BY <1>1, <1>2, Listing, Contents
  <1>6. Min(Segments) \in Segments
    BY <1>1, <1>2, Listing
  <1>7. c = "gc" => Collecting /\ OnTheWay
    <2>1. c = "gc" /\ Calls(c) => Collecting /\ OnTheWay
      BY DEF Calls, Collecting, OnTheWay
    <2>2. c = "gc" /\ cursor[c].at = "again" => Collecting /\ OnTheWay
      BY GcIsOn DEF OnTheWay
    <2> QED BY <1>2, <2>1, <2>2
  <1>0. PICK o : /\ o = cursor[c]
                 /\ o = [at |-> o.at, seg |-> o.seg, off |-> o.off, last |-> o.last, tail |-> o.tail,
                         fd |-> o.fd, name |-> o.name, phase |-> o.phase, got |-> o.got]
    BY ByFields
  <1>8. PICK q : q = [o EXCEPT !.seg = s, !.off = f, !.at = "list", !.phase = "locked"]
    OBVIOUS
  <1>9. q = [at |-> "list", seg |-> s, off |-> f, last |-> o.last, tail |-> o.tail,
             fd |-> o.fd, name |-> o.name, phase |-> "locked", got |-> o.got]
    BY <1>0, <1>8
  <1>10. Put(c, q)
    BY <1>0, <1>3, <1>8
  <1>11. /\ Becomes(c, q)
         /\ cursor'[c].at = "list" /\ cursor'[c].seg = s /\ cursor'[c].off = f
         /\ cursor'[c].last = cursor[c].last /\ cursor'[c].tail = cursor[c].tail
         /\ cursor'[c].fd = cursor[c].fd /\ cursor'[c].phase = "locked"
    BY <1>0, <1>1, <1>9, <1>10, PutBecomes
  <1>12. /\ cursor' = [cursor EXCEPT ![c] = cursor'[c]]
         /\ cursor'[c] = [at |-> cursor'[c].at, seg |-> cursor'[c].seg, off |-> cursor'[c].off,
                        last |-> cursor'[c].last, tail |-> cursor'[c].tail, fd |-> cursor'[c].fd,
                        name |-> cursor'[c].name, phase |-> cursor'[c].phase, got |-> cursor'[c].got]
    BY <1>11 DEF Becomes
  <1>13. /\ UNCHANGED <<files, linked, dir, stamps, maint, disturbed>>
         /\ Newest' = Newest /\ Top' = Top /\ Segments' = Segments /\ Retained' = Retained
         /\ \A k : Records(k)' = Records(k) /\ Kept(k)' = Kept(k)
    BY <1>2, ReaderFrame
  <1>14. \/ s \in Segments /\ f = 0 /\ cursor[c].last = 0 /\ s = Min(Segments)
         \/ s \in Segments /\ f \in 1..Len(files[s]) /\ files[s][f] = cursor[c].last
         \/ s = Active /\ f = 0 /\ cursor[c].last # 0 /\ \A k \in Segments : Past(cursor[c].last, k)
    <2>1. CASE cursor[c].last = 0 /\ s = Min(Segments) /\ f = 0
      BY <1>6, <2>1
    <2>2. CASE s \in Segments /\ f \in 1..Len(files[s]) /\ files[s][f] = cursor[c].last
      BY <2>2
    <2>3. CASE cursor[c].last # 0 /\ s = Active /\ f = 0 /\ \A k \in Segments : cursor[c].last \notin Records(k)
      BY <1>2, <1>7, <2>3, AfterTheSegments
    <2> QED BY <1>3, <2>1, <2>2, <2>3 DEF Goal
  <1>15. s \in Segments \/ s = Active
    BY <1>14
  <1>16. /\ Sealed(c)' <=> s \in Segments
         /\ ~Valid(c)'
    <2>1. s \in Segments => s \in 1..(Active - 1)
      BY <1>4, <1>5
    <2>2. Active \notin Segments /\ Active \notin 1..(Active - 1)
      BY <1>4, <1>5
    <2> QED BY <1>11, <1>15, <2>1, <2>2 DEF Sealed, Valid, Active
  <1>17. f \in Nat
    BY <1>14
  <1>18. KShape(c)'
    <2>1. cursor'[c].seg \in (0..Top') \cup {Active}
      BY <1>4, <1>5, <1>11, <1>13, <1>15
    <2>2. cursor'[c].fd \in 0..Newest' /\ cursor'[c].tail[1] \in 0..Top' /\ cursor'[c].last \in 0..Len(stamps')
      BY <1>1, <1>11, <1>13 DEF KShape
    <2> QED BY <1>11, <1>12, <1>17, <2>1, <2>2 DEF KShape, Active
  <1>19. KPlace(c)'
    <2>1. s \in Segments => Placed(c, cursor[c].seg)'
      <3>1. ASSUME s \in Segments
            PROVE  f <= Len(files[s]) /\ (f > 0 => cursor[c].last = files[s][f])
        <4>1. Len(files[s]) \in Nat
          BY <1>1, <1>5, <3>1, Contents
        <4> QED BY <1>4, <1>5, <1>14, <3>1, <4>1
      <3> QED BY <1>11, <1>13, <3>1 DEF Placed
    <2>2. s \notin Segments => cursor'[c].off = 0 /\ cursor'[c].seg # 0
      BY <1>4, <1>11, <1>14
    <2>3. cursor'[c].seg = Active => cursor'[c].last # 0
      BY <1>4, <1>5, <1>11, <1>14
    <2> QED BY <1>11, <1>16, <2>1, <2>2, <2>3 DEF KPlace, Active
  <1>20. \A k \in Segments : \/ s \in Segments /\ k >= s
                             \/ Past(cursor[c].last, k)
    <2> SUFFICES ASSUME NEW k \in Segments
                 PROVE  \/ s \in Segments /\ k >= s
                        \/ Past(cursor[c].last, k)
      OBVIOUS
    <2>1. CASE s \in Segments /\ s = Min(Segments)
      BY <1>5, <2>1
    <2>2. CASE s \in Segments /\ f \in 1..Len(files[s]) /\ files[s][f] = cursor[c].last
      <3>1. cursor[c].last \in Records(s)
        BY <2>2 DEF Records
      <3>2. k < s => Past(cursor[c].last, k)
        BY <1>1, <1>5, <2>2, <3>1, PastIsLater
      <3>3. k < s \/ k >= s
        BY <1>5, <2>2
      <3> QED BY <2>2, <3>2, <3>3
    <2>3. CASE \A j \in Segments : Past(cursor[c].last, j)
      BY <2>3
    <2> QED BY <1>14, <2>1, <2>2, <2>3
  <1>21. KHad(c)'
    <2> SUFFICES ASSUME c \notin disturbed
                 PROVE  /\ \A r \in Retained' : r <= cursor'[c].last => r \in read'[c]
                        /\ Sealed(c)' => cursor'[c].seg \in Segments'
                        /\ \A k \in Segments' :
                             \/ Had(c, k)'
                             \/ Sealed(c)' /\ k >= cursor'[c].seg
                        /\ cursor'[c].at # "read"
      BY <1>13 DEF KHad
    <2>1. \A r \in Retained : r <= cursor[c].last => r \in read[c]
      BY <1>1 DEF KHad
    <2>2. ASSUME NEW k \in Segments, Past(cursor[c].last, k)
          PROVE  Had(c, k)
      <3>1. ASSUME NEW r \in Records(k)
            PROVE  r \in read[c]
        <4>1. r \in Retained
          BY <3>1, RetainedAre DEF Kept
        <4>2. r \in 1..Len(stamps)
          BY <1>1, <1>5, <3>1, Contents
        <4>3. cursor[c].last \in Nat
          BY <1>1, ShapeFacts
        <4>4. r <= cursor[c].last
          BY <2>2, <3>1, <4>2, <4>3 DEF Past
        <4> QED BY <2>1, <4>1, <4>4
      <3> QED BY <3>1 DEF Had
    <2>3. \A k : Had(c, k)' = Had(c, k)
      BY <1>2, <1>13 DEF Had
    <2>4. \A k \in Segments' : Had(c, k)' \/ (Sealed(c)' /\ k >= cursor'[c].seg)
      BY <1>11, <1>13, <1>16, <1>20, <2>2, <2>3
    <2> QED BY <1>2, <1>11, <1>13, <1>16, <2>1, <2>4
  <1>22. c = "analytics" => KNeeds' /\ \A k \in Segments : Done(k) => Done(k)'
    <2> SUFFICES ASSUME c = "analytics"
                 PROVE  KNeeds' /\ \A k \in Segments : Done(k) => Done(k)'
      OBVIOUS
    <2>1. CursorSpared'
      BY <1>11, <1>13, <1>16 DEF CursorSpared
    <2>2. Found(cursor["analytics"].last)'
      BY <1>1, <1>2, <1>11, <1>13 DEF KNeeds, Found
    <2>3. KNeeds'
      BY <1>16, <2>1, <2>2 DEF KNeeds
    <2>4. ASSUME NEW k \in Segments, Done(k)
          PROVE  Done(k)'
      <3>1. Past(cursor[c].last, k)
        BY <1>2, <2>4 DEF Done
      <3>2. CASE s \in Segments
        <4>1. k < s
          <5>1. CASE cursor[c].last = 0
            BY <1>1, <1>5, <3>1, <5>1, PastIsLater
          <5>2. CASE f \in 1..Len(files[s]) /\ files[s][f] = cursor[c].last
            <6>1. cursor[c].last \in Records(s)
              BY <5>2 DEF Records
            <6> QED BY <1>1, <1>5, <3>1, <3>2, <6>1, PastIsLater
          <5> QED BY <1>4, <1>5, <1>14, <3>2, <5>1, <5>2
        <4> QED BY <1>11, <1>16, <3>2, <4>1 DEF Done
      <3>3. CASE s \notin Segments
        <4>1. Past(cursor["analytics"].last, k)'
          BY <1>11, <1>13, <3>1 DEF Past
        <4> QED BY <1>16, <3>3, <4>1 DEF Done
      <3> QED BY <3>2, <3>3
    <2> QED BY <2>3, <2>4
  <1>23. c = "gc" => KGc'
    <2> SUFFICES ASSUME c = "gc"
                 PROVE  KGc'
      OBVIOUS
    <2>1. Collecting' /\ cursor'["gc"].phase # "opening" /\ cursor'["gc"].at # "idle"
      BY <1>11 DEF Collecting
    <2>2. ~OnTheWay'
      BY <1>11 DEF OnTheWay
    <2> QED BY <1>16, <2>1, <2>2 DEF KGc
  <1>24. read' = [read EXCEPT ![c] = read'[c]] /\ read'[c] \subseteq 1..Len(stamps)
    BY <1>1, <1>2, SameRead
  <1>25. NoMore(c)
    BY <1>11 DEF NoMore
  <1> QED BY <1>2, <1>12, <1>18, <1>19, <1>21, <1>22, <1>23, <1>24, <1>25 DEF Moved

(* The end of a file of which everything has been read. *)
LEMMA AtItsEnd ==
  ASSUME IInv, KInv, NEW c \in Readers, Finished(c), Sealed(c), Valid(c), cursor[c].seg \in Segments
  PROVE  /\ cursor[c].last \in Records(cursor[c].seg) /\ cursor[c].last # 0
         /\ \A r \in Records(cursor[c].seg) : r <= cursor[c].last
         /\ cursor[c].seg \in 1..Newest
  <1>1. KFiles /\ KDir /\ KShape(c) /\ KPlace(c)
    BY KnownOf
  <1>2. PICK k : k = cursor[c].seg
    OBVIOUS
  <1>3. k \in 1..Newest /\ cursor[c].fd = k /\ Placed(c, k)
    BY <1>1, <1>2, Listing DEF KPlace
  <1>4. Len(files[k]) \in Nat /\ Len(files[k]) > 0 /\ cursor[c].off = Len(files[k])
    BY <1>1, <1>2, <1>3, Listing, Contents DEF Finished
  <1>5. cursor[c].off \in 1..Len(files[k])
    BY <1>4
  <1>6. cursor[c].last = files[k][cursor[c].off]
    BY <1>3, <1>4 DEF Placed
  <1>7. \A r \in Records(k) : r <= cursor[c].last
    BY <1>1, <1>3, <1>4, <1>5, <1>6, UpTo
  <1>8. cursor[c].last \in Records(k) /\ cursor[c].last \in 1..Len(stamps)
    BY <1>1, <1>3, <1>5, <1>6, Contents
  <1> QED BY <1>2, <1>3, <1>7, <1>8

(* A cursor that is done with its file takes the next one. *)
LEMMA NextFileMoves ==
  ASSUME IInv, KInv, IInv', NEW c \in Readers, cursor[c].at = "advance", cursor[c].seg \in Segments,
         NEW n, n = Min({s \in Segments \cup {Active} : s > cursor[c].seg}),
         Put(c, [cursor[c] EXCEPT !.seg = n, !.off = 0, !.at = "list", !.phase = "locked"]),
         UNCHANGED read, OnlyReader
  PROVE  Moved(c) /\ NoMore(c)
  <1>1. KFiles /\ KDir /\ KShape(c) /\ KPlace(c) /\ KHad(c) /\ KNeeds /\ KGc /\ Counts
    BY KnownOf
  <1>2. Sealed(c) /\ Finished(c) /\ Valid(c)
    BY <1>1 DEF KShape, KPlace, Valid
  <1>3. PICK g : g = cursor[c].seg
    OBVIOUS
  <1>4. /\ Newest \in Nat /\ Top \in Nat /\ Top <= Newest /\ Newest < Active /\ Active \in Nat
        /\ Active = MaxRecords + 2 /\ MaxRecords \in Nat /\ Active # 0
    BY <1>1, Numbers
  <1>5. \A k \in Segments : k \in 1..Newest /\ k \in 1..Top /\ Records(k) # {}
    BY <1>1, Listing, Contents
  <1>6. /\ cursor[c].last \in Records(g) /\ cursor[c].last # 0 /\ g \in Segments /\ g \in 1..Newest
        /\ \A r \in Records(g) : r <= cursor[c].last
    BY <1>2, <1>3, AtItsEnd
  <1>7. \/ g = Top /\ n = Active
        \/ g < Top /\ n = g + 1 /\ n \in Segments /\ n \in 1..Top
    BY <1>1, <1>3, <1>6, NextFile
  <1>0. PICK o : /\ o = cursor[c]
                 /\ o = [at |-> o.at, seg |-> o.seg, off |-> o.off, last |-> o.last, tail |-> o.tail,
                         fd |-> o.fd, name |-> o.name, phase |-> o.phase, got |-> o.got]
    BY ByFields
  <1>8. PICK q : q = [o EXCEPT !.seg = n, !.off = 0, !.at = "list", !.phase = "locked"]
    OBVIOUS
  <1>9. q = [at |-> "list", seg |-> n, off |-> 0, last |-> o.last, tail |-> o.tail,
             fd |-> o.fd, name |-> o.name, phase |-> "locked", got |-> o.got]
    BY <1>0, <1>8
  <1>10. Put(c, q)
    BY <1>0, <1>8
  <1>11. /\ Becomes(c, q)
         /\ cursor'[c].at = "list" /\ cursor'[c].seg = n /\ cursor'[c].off = 0
         /\ cursor'[c].last = cursor[c].last /\ cursor'[c].tail = cursor[c].tail
         /\ cursor'[c].fd = cursor[c].fd /\ cursor'[c].phase = "locked"
    BY <1>0, <1>1, <1>9, <1>10, PutBecomes
  <1>12. /\ cursor' = [cursor EXCEPT ![c] = cursor'[c]]
         /\ cursor'[c] = [at |-> cursor'[c].at, seg |-> cursor'[c].seg, off |-> cursor'[c].off,
                        last |-> cursor'[c].last, tail |-> cursor'[c].tail, fd |-> cursor'[c].fd,
                        name |-> cursor'[c].name, phase |-> cursor'[c].phase, got |-> cursor'[c].got]
    BY <1>11 DEF Becomes
  <1>13. /\ UNCHANGED <<files, linked, dir, stamps, maint, disturbed>>
         /\ Newest' = Newest /\ Top' = Top /\ Segments' = Segments /\ Retained' = Retained
         /\ \A k : Records(k)' = Records(k) /\ Kept(k)' = Kept(k)
    BY ReaderFrame
  <1>15. n \in Segments \/ n = Active
    BY <1>7
  <1>16. /\ Sealed(c)' <=> n \in Segments
         /\ ~Valid(c)'
    <2>1. n \in Segments => n \in 1..(Active - 1)
      BY <1>4, <1>5
    <2>2. Active \notin Segments /\ Active \notin 1..(Active - 1)
      BY <1>4, <1>5
    <2> QED BY <1>11, <1>15, <2>1, <2>2 DEF Sealed, Valid, Active
  <1>18. KShape(c)'
    <2>1. cursor'[c].seg \in (0..Top') \cup {Active}
      BY <1>4, <1>5, <1>11, <1>13, <1>15
    <2>2. cursor'[c].fd \in 0..Newest' /\ cursor'[c].tail[1] \in 0..Top' /\ cursor'[c].last \in 0..Len(stamps')
      BY <1>1, <1>11, <1>13 DEF KShape
    <2> QED BY <1>11, <1>12, <2>1, <2>2 DEF KShape, Active
  <1>19. KPlace(c)'
    <2>1. n \in Segments => Placed(c, cursor[c].seg)'
      <3>1. n \in Segments => Len(files[n]) \in Nat
        BY <1>1, <1>5, Contents
      <3> QED BY <1>11, <1>13, <3>1 DEF Placed
    <2>2. n \notin Segments => cursor'[c].off = 0 /\ cursor'[c].seg # 0
      BY <1>4, <1>11, <1>15
    <2>3. cursor'[c].last # 0
      BY <1>6, <1>11
    <2> QED BY <1>11, <1>16, <2>1, <2>2, <2>3 DEF KPlace, Active
  <1>21. KHad(c)'
    <2> SUFFICES ASSUME c \notin disturbed
                 PROVE  /\ \A r \in Retained' : r <= cursor'[c].last => r \in read'[c]
                        /\ Sealed(c)' => cursor'[c].seg \in Segments'
                        /\ \A k \in Segments' :
                             \/ Had(c, k)'
                             \/ Sealed(c)' /\ k >= cursor'[c].seg
                        /\ cursor'[c].at # "read"
      BY <1>13 DEF KHad
    <2>1. \A r \in Retained : r <= cursor[c].last => r \in read[c]
      BY <1>1 DEF KHad
    <2>2. Had(c, g)
      BY <1>6, <2>1, RetainedAre DEF Had, Kept
    <2>3. \A k : Had(c, k)' = Had(c, k)
      BY <1>13 DEF Had
    <2>a. KHad(c)
      BY <1>1
    <2>4. ASSUME NEW k \in Segments
          PROVE  Had(c, k) \/ (n \in Segments /\ k >= n)
      <3>1. Had(c, k) \/ k >= g
        BY <1>2, <1>3, <2>a DEF KHad
      <3>2. k > g => n \in Segments /\ k >= n
        BY <1>4, <1>5, <1>6, <1>7
      <3>3. k >= g => k = g \/ k > g
        BY <1>5, <1>6
      <3> QED BY <2>2, <3>1, <3>2, <3>3
    <2>5. \A k \in Segments' : Had(c, k)' \/ (Sealed(c)' /\ k >= cursor'[c].seg)
      BY <1>11, <1>13, <1>16, <2>3, <2>4
    <2> QED BY <1>11, <1>13, <1>16, <2>1, <2>5
  <1>22. c = "analytics" => KNeeds' /\ \A k \in Segments : Done(k) => Done(k)'
    <2> SUFFICES ASSUME c = "analytics"
                 PROVE  KNeeds' /\ \A k \in Segments : Done(k) => Done(k)'
      OBVIOUS
    <2>1. CursorSpared'
      BY <1>11, <1>13, <1>16 DEF CursorSpared
    <2>2. Found(cursor["analytics"].last)'
      <3>1. \A j \in 1..Newest : cursor[c].last \in Records(j) => j = g
        BY <1>1, <1>6, OneFile
      <3>2. Kept(g)
        BY <1>6 DEF Kept
      <3> QED BY <1>11, <1>13, <3>1, <3>2 DEF Found
    <2>3. KNeeds'
      BY <1>16, <2>1, <2>2 DEF KNeeds
    <2>4. ASSUME NEW k \in Segments, Done(k)
          PROVE  Done(k)'
      <3>1. k < g
        BY <1>2, <1>3, <2>4 DEF Done
      <3>2. CASE n \in Segments
        <4>1. k < n
          BY <1>4, <1>5, <1>6, <1>7, <3>1, <3>2
        <4> QED BY <1>11, <1>16, <3>2, <4>1 DEF Done
      <3>3. CASE n \notin Segments
        <4>1. Past(cursor[c].last, k)
          BY <1>1, <1>5, <1>6, <3>1, PastIsLater
        <4>2. Past(cursor["analytics"].last, k)'
          BY <1>11, <1>13, <4>1 DEF Past
        <4> QED BY <1>16, <3>3, <4>2 DEF Done
      <3> QED BY <3>2, <3>3
    <2> QED BY <2>3, <2>4
  <1>23. c = "gc" => KGc'
    <2> SUFFICES ASSUME c = "gc"
                 PROVE  KGc'
      OBVIOUS
    <2>1. Collecting' /\ cursor'["gc"].phase # "opening" /\ cursor'["gc"].at # "idle"
      BY <1>11 DEF Collecting
    <2>2. ~OnTheWay'
      BY <1>11 DEF OnTheWay
    <2> QED BY <1>16, <2>1, <2>2 DEF KGc
  <1>24. read' = [read EXCEPT ![c] = read'[c]] /\ read'[c] \subseteq 1..Len(stamps)
    BY <1>1, SameRead
  <1>25. NoMore(c)
    BY <1>11 DEF NoMore
  <1> QED BY <1>12, <1>18, <1>19, <1>21, <1>22, <1>23, <1>24, <1>25 DEF Moved

(* Advance, whole. *)
LEMMA AdvanceMoves ==
  ASSUME IInv, KInv, IInv', NEW c \in Readers, Advance(c)
  PROVE  Moved(c) /\ NoMore(c) /\ OnlyReader
  <1>1. KShape(c) /\ KHad(c) /\ UNCHANGED read /\ OnlyReader /\ cursor[c].at = "advance"
    BY KnownOf DEF Advance
  <1>2. CASE cursor[c].seg \in Segments
    <2>1. PICK n : n = Min({s \in Segments \cup {Active} : s > cursor[c].seg})
      OBVIOUS
    <2>2. Put(c, [cursor[c] EXCEPT !.seg = n, !.off = 0, !.at = "list", !.phase = "locked"])
      BY <1>2, <2>1 DEF Advance
    <2> QED BY <1>1, <1>2, <2>1, <2>2, NextFileMoves
  <1>3. CASE cursor[c].seg \notin Segments
    <2>1. Put(c, Returned(cursor[c], "end"))
      BY <1>3 DEF Advance
    <2>2. c \in disturbed
      BY <1>1, <1>3 DEF KHad, KShape
    <2>3. Moved(c)
      BY <1>1, <2>1, <2>2, Returns
    <2> QED BY <1>1, <2>2, <2>3 DEF NoMore
  <1> QED BY <1>2, <1>3

(* The cursor lists the directory. *)
LEMMA ListMoves ==
  ASSUME IInv, KInv, IInv', NEW c \in Readers, List(c)
  PROVE  Moved(c) /\ NoMore(c) /\ OnlyReader
  <1>1. KFiles /\ KDir /\ KShape(c) /\ KPlace(c) /\ KHad(c) /\ KNeeds /\ KGc /\ Counts
    BY KnownOf
  <1>2. cursor[c].at = "list" /\ UNCHANGED read /\ OnlyReader /\ ~Valid(c)
    BY DEF List, Valid
  <1>3. PICK s : s = IF cursor[c].seg = 0 /\ Segments # {} THEN Min(Segments) ELSE cursor[c].seg
    OBVIOUS
  <1>4. PICK t : t = NewestTail
    OBVIOUS
  <1>5. PICK m : m = IF s \in {0, Active} THEN <<Active, "jsonl">> ELSE Named(s)
    OBVIOUS
  <1>6. /\ Newest \in Nat /\ Top \in Nat /\ Top <= Newest /\ Newest < Active /\ Active \in Nat
        /\ Active = MaxRecords + 2 /\ MaxRecords \in Nat /\ Active # 0
    BY <1>1, Numbers
  <1>7. \A k \in Segments : k \in 1..Newest /\ k \in 1..Top /\ Records(k) # {} /\ Min(Segments) <= k
    BY <1>1, Listing, Contents
  <1>0. PICK o : /\ o = cursor[c]
                 /\ o = [at |-> o.at, seg |-> o.seg, off |-> o.off, last |-> o.last, tail |-> o.tail,
                         fd |-> o.fd, name |-> o.name, phase |-> o.phase, got |-> o.got]
    BY ByFields
  <1>8. PICK q : q = [o EXCEPT !.at = "open", !.fd = 0, !.tail = t, !.seg = s, !.name = m]
    OBVIOUS
  <1>9. q = [at |-> "open", seg |-> s, off |-> o.off, last |-> o.last, tail |-> t,
             fd |-> 0, name |-> m, phase |-> o.phase, got |-> o.got]
    BY <1>0, <1>8
  <1>10. Put(c, q)
    BY <1>0, <1>3, <1>4, <1>5, <1>8 DEF List
  <1>11. /\ Becomes(c, q)
         /\ cursor'[c].at = "open" /\ cursor'[c].seg = s /\ cursor'[c].off = cursor[c].off
         /\ cursor'[c].last = cursor[c].last /\ cursor'[c].tail = t /\ cursor'[c].name = m
         /\ cursor'[c].fd = 0 /\ cursor'[c].phase = cursor[c].phase
    BY <1>0, <1>1, <1>9, <1>10, PutBecomes
  <1>12. /\ cursor' = [cursor EXCEPT ![c] = cursor'[c]]
         /\ cursor'[c] = [at |-> cursor'[c].at, seg |-> cursor'[c].seg, off |-> cursor'[c].off,
                        last |-> cursor'[c].last, tail |-> cursor'[c].tail, fd |-> cursor'[c].fd,
                        name |-> cursor'[c].name, phase |-> cursor'[c].phase, got |-> cursor'[c].got]
    BY <1>11 DEF Becomes
  <1>13. /\ UNCHANGED <<files, linked, dir, stamps, maint, disturbed>>
         /\ Newest' = Newest /\ Top' = Top /\ Segments' = Segments /\ Retained' = Retained
         /\ \A k : Records(k)' = Records(k) /\ Kept(k)' = Kept(k)
    BY <1>2, ReaderFrame
  <1>14. \/ s = cursor[c].seg /\ (s = 0 => Segments = {})
         \/ s \in Segments /\ s = Min(Segments) /\ cursor[c].seg = 0
    BY <1>1, <1>3, Listing
  <1>15. cursor[c].seg \in 1..Top <=> Sealed(c)
    BY <1>1, ShapeFacts
  <1>16. /\ Sealed(c)' <=> s \in 1..Top
         /\ ~Valid(c)' /\ s \in (0..Top) \cup {Active}
    <2>1. s \in (0..Top) \cup {Active}
      BY <1>1, <1>6, <1>7, <1>14 DEF KShape
    <2>2. s \in 1..Top <=> s \in 1..(Active - 1)
      BY <1>6, <2>1
    <2> QED BY <1>11, <2>1, <2>2 DEF Sealed, Valid, Active
  <1>17. m[2] # "tmp" /\ m[1] = IF s \in 1..Top THEN s ELSE Active
    <2>1. s \in {0, Active} <=> s \notin 1..Top
      BY <1>6, <1>16
    <2>2. Named(s)[1] = s /\ Named(s)[2] # "tmp"
      BY DEF Named
    <2> QED BY <1>5, <2>1, <2>2
  <1>18. KShape(c)'
    <2>1. cursor'[c].seg \in (0..Top') \cup {Active}
      BY <1>11, <1>13, <1>16
    <2>2. cursor'[c].off \in Nat /\ cursor'[c].last \in 0..Len(stamps')
      BY <1>1, <1>11, <1>13 DEF KShape
    <2>3. cursor'[c].tail[1] \in 0..Top'
      BY <1>1, <1>4, <1>6, <1>11, <1>13, Listing
    <2>4. cursor'[c].fd \in 0..Newest'
      BY <1>6, <1>11, <1>13
    <2>5. cursor'[c].name[2] # "tmp" /\ (cursor'[c].name[1] = IF Sealed(c)' THEN cursor'[c].seg ELSE Active)
      BY <1>11, <1>16, <1>17
    <2>6. c = "analytics" => cursor'[c].phase \in {"ready", "next", "locked", "reopen"}
      BY <1>1, <1>11 DEF KShape
    <2> QED BY <1>11, <1>12, <2>1, <2>2, <2>3, <2>4, <2>5, <2>6 DEF KShape, Active
  <1>19. KPlace(c)'
    <2>1. s \in 1..Top => Placed(c, cursor[c].seg)'
      <3>1. CASE s = cursor[c].seg
        BY <1>1, <1>11, <1>13, <1>15, <3>1 DEF KPlace, Placed
      <3>2. CASE s \in Segments /\ cursor[c].seg = 0
        <4>1. cursor[c].off = 0
          BY <1>1, <1>2, <1>15, <3>2 DEF KPlace
        <4>2. Len(files[s]) \in Nat
          BY <1>1, <1>7, <3>2, Contents
        <4> QED BY <1>11, <1>13, <4>1, <4>2 DEF Placed
      <3> QED BY <1>14, <3>1, <3>2
    <2>2. s \notin 1..Top => cursor'[c].off = 0 /\ (cursor'[c].seg = 0 => cursor'[c].last = 0)
      BY <1>1, <1>2, <1>7, <1>11, <1>14, <1>15 DEF KPlace
    <2>3. cursor'[c].seg = Active => cursor'[c].last # 0
      BY <1>1, <1>6, <1>7, <1>11, <1>14 DEF KPlace
    <2> QED BY <1>11, <1>16, <2>1, <2>2, <2>3 DEF KPlace, Active
  <1>21. KHad(c)'
    <2> SUFFICES ASSUME c \notin disturbed
                 PROVE  /\ \A r \in Retained' : r <= cursor'[c].last => r \in read'[c]
                        /\ Sealed(c)' => cursor'[c].seg \in Segments'
                        /\ \A k \in Segments' :
                             \/ Had(c, k)'
                             \/ Sealed(c)' /\ k >= cursor'[c].seg
                        /\ cursor'[c].at # "read"
      BY <1>13 DEF KHad
    <2>1. \A r \in Retained : r <= cursor[c].last => r \in read[c]
      BY <1>1 DEF KHad
    <2>2. s \in 1..Top => s \in Segments
      BY <1>1, <1>14, <1>15 DEF KHad
    <2>3. \A k : Had(c, k)' = Had(c, k)
      BY <1>2, <1>13 DEF Had
    <2>a. KHad(c)
      BY <1>1
    <2>4. ASSUME NEW k \in Segments
          PROVE  Had(c, k) \/ (s \in 1..Top /\ k >= s)
      <3>1. Had(c, k) \/ (Sealed(c) /\ k >= cursor[c].seg) \/ cursor[c].seg = 0
        BY <1>2, <2>a DEF KHad
      <3>2. cursor[c].seg = 0 => s \in 1..Top /\ k >= s
        BY <1>7, <1>14
      <3>3. Sealed(c) => s = cursor[c].seg /\ s \in 1..Top
        BY <1>14, <1>15
      <3> QED BY <3>1, <3>2, <3>3
    <2>5. \A k \in Segments' : Had(c, k)' \/ (Sealed(c)' /\ k >= cursor'[c].seg)
      BY <1>11, <1>13, <1>16, <2>3, <2>4
    <2> QED BY <1>2, <1>11, <1>13, <1>16, <2>1, <2>2, <2>5
  <1>22. c = "analytics" => KNeeds' /\ \A k \in Segments : Done(k) => Done(k)'
    <2> SUFFICES ASSUME c = "analytics"
                 PROVE  KNeeds' /\ \A k \in Segments : Done(k) => Done(k)'
      OBVIOUS
    <2>1. s \in 1..Top => s \in Segments
      BY <1>1, <1>14, <1>15 DEF KNeeds, CursorSpared
    <2>2. CursorSpared'
      BY <1>11, <1>13, <1>16, <2>1 DEF CursorSpared
    <2>3. s \notin 1..Top => Found(cursor["analytics"].last)'
      BY <1>1, <1>7, <1>11, <1>13, <1>14, <1>15 DEF KNeeds, Found
    <2>4. KNeeds'
      BY <1>16, <2>2, <2>3 DEF KNeeds
    <2>5. ASSUME NEW k \in Segments, Done(k)
          PROVE  Done(k)'
      <3>1. CASE Sealed(c)
        <4>1. k < cursor[c].seg
          BY <2>5, <3>1 DEF Done
        <4>2. s = cursor[c].seg
          BY <1>14, <1>15, <3>1
        <4> QED BY <1>11, <1>15, <1>16, <3>1, <4>1, <4>2 DEF Done
      <3>2. CASE ~Sealed(c)
        <4>1. Past(cursor[c].last, k)
          BY <2>5, <3>2 DEF Done
        <4>2. cursor[c].last # 0
          BY <1>1, <1>7, <4>1, PastIsLater
        <4>3. cursor[c].seg # 0
          BY <1>1, <1>2, <3>2, <4>2 DEF KPlace
        <4>4. s \notin 1..Top
          BY <1>14, <1>15, <3>2, <4>3
        <4>5. Past(cursor["analytics"].last, k)'
          BY <1>11, <1>13, <4>1 DEF Past
        <4> QED BY <1>16, <4>4, <4>5 DEF Done
      <3> QED BY <3>1, <3>2
    <2> QED BY <2>4, <2>5
  <1>23. c = "gc" => KGc'
    <2> SUFFICES ASSUME c = "gc"
                 PROVE  KGc'
      OBVIOUS
    <2>1. Collecting
      BY <1>2, GcIsOn
    <2>2. /\ Collecting' /\ cursor'["gc"].at # "idle"
          /\ cursor'["gc"].phase = "opening" => cursor'["gc"].last = 0
      BY <1>1, <1>11, <2>1 DEF Collecting, KGc
    <2>3. ~OnTheWay'
      BY <1>11 DEF OnTheWay
    <2> QED BY <1>16, <2>2, <2>3 DEF KGc
  <1>24. read' = [read EXCEPT ![c] = read'[c]] /\ read'[c] \subseteq 1..Len(stamps)
    BY <1>1, <1>2, SameRead
  <1>25. NoMore(c)
    BY <1>2 DEF NoMore
  <1> QED BY <1>2, <1>12, <1>18, <1>19, <1>21, <1>22, <1>23, <1>24, <1>25 DEF Moved

(* The file is there: the cursor has it open, at its place. *)
LEMMA OpensMoves ==
  ASSUME IInv, KInv, IInv', NEW c \in Readers, cursor[c].at = "open", OnlyReader, UNCHANGED read,
         cursor' = [cursor EXCEPT ![c] = cursor'[c]],
         cursor'[c] = [at |-> cursor'[c].at, seg |-> cursor'[c].seg, off |-> cursor'[c].off,
                       last |-> cursor'[c].last, tail |-> cursor'[c].tail, fd |-> cursor'[c].fd,
                       name |-> cursor'[c].name, phase |-> cursor'[c].phase, got |-> cursor'[c].got],
         cursor'[c].seg = cursor[c].seg, cursor'[c].off = cursor[c].off,
         cursor'[c].last = cursor[c].last, cursor'[c].tail = cursor[c].tail,
         IF Sealed(c) THEN cursor[c].name \in dir /\ cursor'[c].fd = cursor[c].seg
         ELSE linked /\ cursor'[c].fd = Newest,
         \/ cursor'[c].at = "read" /\ cursor'[c].phase = "locked"
         \/ cursor'[c].at = "idle" /\ cursor'[c].phase = "ready",
         c = "gc" /\ cursor'[c].at = "idle" =>
           \/ cursor'[c].got = "opened" /\ cursor[c].phase = "opening"
           \/ cursor'[c].got = "error"
  PROVE  Moved(c)
  <1>1. KFiles /\ KDir /\ KShape(c) /\ KPlace(c) /\ KHad(c) /\ KNeeds /\ KGc /\ Counts
    BY KnownOf
  <1>2. /\ Newest \in Nat /\ Top \in Nat /\ Top <= Newest /\ Newest < Active /\ Newest >= 1
        /\ linked => Top = Newest - 1
    BY <1>1, Numbers
  <1>3. ~Valid(c)
    BY <1>1 DEF KShape, Valid
  <1>4. /\ UNCHANGED <<files, linked, dir, stamps, maint, disturbed>>
        /\ Newest' = Newest /\ Top' = Top /\ Segments' = Segments /\ Retained' = Retained
        /\ \A k : Records(k)' = Records(k) /\ Kept(k)' = Kept(k)
    BY ReaderFrame
  <1>5. Sealed(c)' = Sealed(c) /\ (Sealed(c) <=> cursor[c].seg \in 1..Top)
    BY <1>1, ShapeFacts DEF Sealed
  <1>6. cursor'[c].fd \in 1..Newest /\ Valid(c)' /\ cursor'[c].fd # 0
    <2>1. cursor'[c].fd \in 1..Newest
      BY <1>2, <1>5
    <2> QED BY <2>1 DEF Valid
  <1>7. KShape(c)'
    <2>1. /\ cursor'[c].seg \in (0..Top') \cup {Active} /\ cursor'[c].off \in Nat
          /\ cursor'[c].last \in 0..Len(stamps') /\ cursor'[c].tail[1] \in 0..Top'
      BY <1>1, <1>4 DEF KShape
    <2>2. cursor'[c].fd \in 0..Newest'
      BY <1>2, <1>4, <1>6
    <2> QED BY <1>6, <2>1, <2>2 DEF KShape
  <1>8. KPlace(c)'
    <2>1. Sealed(c) => Placed(c, cursor[c].seg)' /\ cursor'[c].fd = cursor'[c].seg
      BY <1>1, <1>4 DEF KPlace, Placed
    <2>2. ~Sealed(c) =>
           /\ Placed(c, cursor[c].fd)' /\ cursor'[c].tail[1] < cursor'[c].fd
           /\ \A j \in 1..Newest' : cursor'[c].last \in Records(j)' => j <= cursor'[c].fd
      <3> SUFFICES ASSUME ~Sealed(c)
                   PROVE  /\ Placed(c, cursor[c].fd)' /\ cursor'[c].tail[1] < cursor'[c].fd
                          /\ \A j \in 1..Newest' : j <= cursor'[c].fd
        OBVIOUS
      <3>1. cursor[c].off = 0
        BY <1>1, <1>3 DEF KPlace
      <3>2. Len(files[cursor'[c].fd]) \in Nat
        BY <1>1, <1>6, Contents
      <3>3. Placed(c, cursor[c].fd)'
        BY <1>4, <3>1, <3>2 DEF Placed
      <3>4. cursor'[c].tail[1] \in 0..Top
        BY <1>1 DEF KShape
      <3> QED BY <1>2, <1>4, <3>3, <3>4
    <2>3. cursor'[c].seg = Active => cursor'[c].last # 0
      BY <1>1 DEF KPlace
    <2> QED BY <1>5, <1>6, <2>1, <2>2, <2>3 DEF KPlace, Active
  <1>9. KHad(c)'
    <2> SUFFICES ASSUME c \notin disturbed
                 PROVE  /\ \A r \in Retained' : r <= cursor'[c].last => r \in read'[c]
                        /\ Sealed(c)' => cursor'[c].seg \in Segments'
                        /\ \A k \in Segments' :
                             \/ Had(c, k)'
                             \/ Sealed(c)' /\ k >= cursor'[c].seg
                        /\ cursor'[c].at = "read" /\ cursor'[c].phase = "locked" /\ ~Sealed(c)' =>
                             cursor'[c].fd = Newest' /\ linked'
      BY <1>4 DEF KHad
    <2>1. KHad(c)
      BY <1>1
    <2>2. \A r \in Retained : r <= cursor[c].last => r \in read[c]
      BY <2>1 DEF KHad
    <2>3. Sealed(c) => cursor[c].seg \in Segments
      BY <2>1 DEF KHad
    <2>4. ASSUME NEW k \in Segments
          PROVE  Had(c, k) \/ (Sealed(c) /\ k >= cursor[c].seg)
      BY <1>3, <2>1 DEF KHad
    <2>5. \A k : Had(c, k)' = Had(c, k)
      BY <1>4 DEF Had
    <2> QED BY <1>4, <1>5, <2>2, <2>3, <2>4, <2>5
  <1>10. c = "analytics" => KNeeds' /\ \A k \in Segments : Done(k) => Done(k)'
    <2> SUFFICES ASSUME c = "analytics"
                 PROVE  KNeeds' /\ \A k \in Segments : Done(k) => Done(k)'
      OBVIOUS
    <2>1. \A k \in Segments : Done(k) => Done(k)'
      BY <1>4, <1>5 DEF Done, Past
    <2>2. Found(cursor["analytics"].last)' = Found(cursor["analytics"].last)
      BY <1>4 DEF Found
    <2>3. ~Sealed(c) => Kept(cursor["analytics"].fd)'
      BY <1>4 DEF Kept
    <2>4. KNeeds'
      BY <1>1, <1>4, <1>5, <2>2, <2>3 DEF KNeeds, CursorSpared
    <2> QED BY <2>1, <2>4
  <1>11. c = "gc" => KGc'
    <2> SUFFICES ASSUME c = "gc"
                 PROVE  KGc'
      OBVIOUS
    <2>1. Collecting' /\ cursor'["gc"].phase # "opening"
      BY DEF Collecting
    <2>2. ~Sealed("gc")' => \A j \in 1..Newest' : ~(j > cursor'["gc"].fd)
      BY <1>2, <1>4, <1>5
    <2>3. OnTheWay' => cursor'["gc"].at = "idle" /\ cursor'["gc"].got = "opened"
      BY DEF OnTheWay
    <2>4. OnTheWay' => Valid("gc")' /\ cursor'["gc"].last = 0
      BY <1>1, <1>6, <2>3 DEF KGc
    <2>5. cursor'["gc"].at = "idle" => cursor'["gc"].got # "end"
      OBVIOUS
    <2> QED BY <2>1, <2>2, <2>4, <2>5 DEF KGc
  <1>12. read' = [read EXCEPT ![c] = read'[c]] /\ read'[c] \subseteq 1..Len(stamps)
    BY <1>1, SameRead
  <1> QED BY <1>7, <1>8, <1>9, <1>10, <1>11, <1>12 DEF Moved

(* Open, whole. *)
LEMMA OpenMoves ==
  ASSUME IInv, KInv, IInv', NEW c \in Readers, Open(c)
  PROVE  Moved(c) /\ NoMore(c) /\ OnlyReader
  <1> DEFINE k == cursor[c]
             file == IF k.name[1] = Active THEN Newest ELSE k.name[1]
             found == IF k.name[1] = Active THEN linked ELSE k.name \in dir
  <1>1. KFiles /\ KDir /\ KShape(c) /\ Counts /\ cursor[c].at = "open" /\ UNCHANGED read /\ OnlyReader
    BY KnownOf DEF Open
  <1>2. NoMore(c)
    BY <1>1 DEF NoMore
  <1>3. cursor[c].name[1] = IF Sealed(c) THEN cursor[c].seg ELSE Active
    BY <1>1 DEF KShape
  <1>4. Sealed(c) => cursor[c].seg # Active
    BY <1>1, ShapeFacts
  <1>5. file = IF Sealed(c) THEN cursor[c].seg ELSE Newest
    BY <1>3, <1>4
  <1>6. found <=> IF Sealed(c) THEN cursor[c].name \in dir ELSE linked
    BY <1>3, <1>4
  <1>7. CASE ~(found /\ k.off <= Len(files[file]))
    <2>1. Put(c, Returned(cursor[c], "error"))
      BY <1>7 DEF Open
    <2>2. Moved(c)
      BY <1>1, <2>1, Returns
    <2> QED BY <1>1, <1>2, <2>2
  <1>8. CASE found /\ k.off <= Len(files[file])
    <2>1. Put(c, CASE k.phase = "locked" -> [k EXCEPT !.fd = file, !.at = "read", !.name = NoTail]
                   [] k.phase = "opening" -> Returned([k EXCEPT !.fd = file], "opened")
                   [] OTHER -> Returned([k EXCEPT !.fd = file], "error"))
      BY <1>8 DEF Open
    <2>2. PICK f : f = file
      OBVIOUS
    <2>0. PICK o : /\ o = cursor[c]
                   /\ o = [at |-> o.at, seg |-> o.seg, off |-> o.off, last |-> o.last, tail |-> o.tail,
                           fd |-> o.fd, name |-> o.name, phase |-> o.phase, got |-> o.got]
      BY ByFields
    <2>3. CASE k.phase = "locked"
      <3>1. PICK q : q = [o EXCEPT !.fd = f, !.at = "read", !.name = NoTail]
        OBVIOUS
      <3>2. q = [at |-> "read", seg |-> o.seg, off |-> o.off, last |-> o.last, tail |-> o.tail,
                 fd |-> f, name |-> NoTail, phase |-> o.phase, got |-> o.got]
        BY <2>0, <3>1
      <3>3. Put(c, q)
        BY <2>0, <2>1, <2>2, <2>3, <3>1
      <3>4. /\ Becomes(c, q)
            /\ cursor'[c].at = "read" /\ cursor'[c].seg = cursor[c].seg /\ cursor'[c].off = cursor[c].off
            /\ cursor'[c].last = cursor[c].last /\ cursor'[c].tail = cursor[c].tail
            /\ cursor'[c].fd = f /\ cursor'[c].phase = cursor[c].phase
        BY <1>1, <2>0, <3>2, <3>3, PutBecomes
      <3>5. Moved(c)
        BY <1>1, <1>5, <1>6, <1>8, <2>2, <2>3, <3>4, OpensMoves DEF Becomes
      <3> QED BY <1>1, <1>2, <3>5
    <2>4. CASE k.phase # "locked"
      <3>1. PICK g : g = IF k.phase = "opening" THEN "opened" ELSE "error"
        OBVIOUS
      <3>2. PICK p : p = [o EXCEPT !.fd = f]
        OBVIOUS
      <3>3. p = [at |-> o.at, seg |-> o.seg, off |-> o.off, last |-> o.last, tail |-> o.tail,
                 fd |-> f, name |-> o.name, phase |-> o.phase, got |-> o.got]
        BY <2>0, <3>2
      <3>4. PICK q : q = Returned(p, g)
        OBVIOUS
      <3>5. q = [at |-> "idle", seg |-> o.seg, off |-> o.off, last |-> o.last, tail |-> o.tail,
                 fd |-> f, name |-> NoTail, phase |-> "ready", got |-> g]
        BY <3>3, <3>4 DEF Returned
      <3>6. Put(c, q)
        BY <2>0, <2>1, <2>2, <2>4, <3>1, <3>2, <3>4
      <3>7. /\ Becomes(c, q)
            /\ cursor'[c].at = "idle" /\ cursor'[c].seg = cursor[c].seg /\ cursor'[c].off = cursor[c].off
            /\ cursor'[c].last = cursor[c].last /\ cursor'[c].tail = cursor[c].tail
            /\ cursor'[c].fd = f /\ cursor'[c].phase = "ready" /\ (c = "gc" => cursor'[c].got = g)
        BY <1>1, <2>0, <3>5, <3>6, PutBecomes
      <3>8. Moved(c)
        BY <1>1, <1>5, <1>6, <1>8, <2>2, <3>1, <3>7, OpensMoves DEF Becomes
      <3> QED BY <1>1, <1>2, <3>8
    <2> QED BY <2>3, <2>4
  <1> QED BY <1>7, <1>8

(* A cursor's step, whichever. *)
LEMMA CursorStepMoves ==
  ASSUME IInv, KInv, IInv', NEW c \in Readers, CursorStep(c)
  PROVE  Moved(c) /\ NoMore(c) /\ OnlyReader
  <1>1. CASE Read(c)
    <2>1. OnlyReader /\ cursor[c].at = "read" /\ cursor[c].fd # 0
      BY <1>1 DEF Read
    <2>2. CASE cursor[c].off < Len(files[cursor[c].fd])
      <3>1. /\ Put(c, Returned([cursor[c] EXCEPT !.off = @ + 1,
                                                  !.last = files[cursor[c].fd][cursor[c].off + 1]], "record"))
            /\ read' = [read EXCEPT ![c] = @ \cup {files[cursor[c].fd][cursor[c].off + 1]}]
        BY <1>1, <2>2 DEF Read
      <3> QED BY <2>1, <2>2, <3>1, ReadsMoves
    <2>3. CASE ~(cursor[c].off < Len(files[cursor[c].fd]))
      <3>1. /\ UNCHANGED read
            /\ Put(c, IF cursor[c].phase = "next" THEN [cursor[c] EXCEPT !.at = "again"] ELSE Ended(c))
        BY <1>1, <2>3 DEF Read
      <3> QED BY <2>1, <2>3, <3>1, NothingToReadMoves
    <2> QED BY <2>2, <2>3
  <1>2. CASE GoOn(c) \/ Refind(c) \/ ReadFails(c) \/ Advance(c) \/ List(c) \/ Open(c)
    BY <1>2, GoOnMoves, RefindMoves, ReadFailsMoves, AdvanceMoves, ListMoves, OpenMoves
  <1> QED BY <1>1, <1>2 DEF CursorStep

-----------------------------------------------------------------------------
(* The step as a whole, and the theorems                                   *)

(* Every step keeps what is said of the readers. *)
LEMMA StepKeepsReaders == IInv /\ KInv /\ [Next]_vars => KInv'
  <1> SUFFICES ASSUME IInv, KInv, [Next]_vars
               PROVE  KInv'
    OBVIOUS
  <1>0. IInv'
    BY StepKeeps
  <1>1. CASE AppendRecord
    BY <1>0, <1>1, AppendKeepsReaders
  <1>2. CASE Tomorrow
    BY <1>0, <1>2, TomorrowKeeps
  <1>3. CASE Maintenance
    BY <1>0, <1>3, MaintenanceKeepsReaders
  <1>4. ASSUME NEW c \in Readers, CursorStep(c)
        PROVE  KInv'
    <2>1. Moved(c) /\ OnlyReader
      BY <1>0, <1>4, CursorStepMoves
    <2> QED BY <1>0, <2>1, ReaderStep
  <1>5. CASE CollectBegins
    BY <1>0, <1>5, CollectBeginsKeeps
  <1>6. CASE Sweep \/ CollectFails
    BY <1>0, <1>6, CollectEndsKeeps
  <1>7. CASE Crash
    BY <1>0, <1>7, CrashKeeps
  <1>8. CASE UNCHANGED vars
    <2>1. /\ UNCHANGED <<files, linked, dir, stamps, blobs, today, due, maint, cursor, read, collects, crashes, disturbed>>
      BY <1>8 DEF vars, journalVars, readerVars, boundVars
    <2>2. Segments' = Segments
      BY <2>1 DEF Segments
    <2>3. /\ KFiles' /\ KReaders' /\ KNeeds' /\ KGc' /\ Newest' = Newest /\ Top' = Top /\ Grows /\ NewestKept
      BY <1>0, <2>1, <2>2, QuietStands
    <2>4. KDir /\ KDays /\ Counts
      BY DEF KInv, KFirm
    <2>5. KDir'
      BY <2>1, <2>2, <2>3, <2>4, DirStays DEF KDir
    <2>6. KDays' /\ Counts'
      BY <2>1, <2>4, DaysStay, CountsStay DEF Counts
    <2>7. KKeep'
      BY <1>0, <2>1, <2>2, <2>3, QuietKeeps
    <2> QED BY <2>3, <2>5, <2>6, <2>7 DEF KInv, KFirm
  <1> QED BY <1>1, <1>2, <1>3, <1>4, <1>5, <1>6, <1>7, <1>8 DEF Next

(* What the invariants say of a state. *)
LEMMA ReadersAreSound == IInv /\ KInv => TypeOK /\ CursorSpared
  <1> SUFFICES ASSUME IInv, KInv
               PROVE  TypeOK /\ CursorSpared
    OBVIOUS
  <1>1. KFiles /\ KDays /\ KDir /\ Counts /\ KNeeds /\ \A c \in Readers : KShape(c)
    BY DEF KInv, KFirm, KReaders, KReader
  <1>2. /\ Newest \in Nat /\ Top \in Nat /\ Newest <= Top + 1 /\ Newest < Active /\ Active \in Nat
        /\ Active = MaxRecords + 2 /\ MaxRecords \in Nat /\ Len(stamps) \in 0..MaxRecords /\ Top <= Newest
    BY <1>1, Numbers
  <1>3. files \in Seq(Seq(1..MaxRecords))
    <2>0. \A S, T : \A f \in Seq(S) : (\A i \in 1..Len(f) : f[i] \in T) => f \in Seq(T)
      OBVIOUS
    <2>1. files \in Seq(Seq(Nat)) /\ Newest = Len(files)
      BY DEF IInv, IShape, Newest
    <2>2. ASSUME NEW k \in 1..Newest
          PROVE  files[k] \in Seq(1..MaxRecords)
      <3>1. files[k] \in Seq(Nat)
        BY <1>1, Contents
      <3>2. \A i \in 1..Len(files[k]) : files[k][i] \in 1..Len(stamps)
        BY <1>1, Contents
      <3>3. \A i \in 1..Len(files[k]) : files[k][i] \in 1..MaxRecords
        BY <1>2, <3>2
      <3> QED BY <2>0, <3>1, <3>3
    <2> QED BY <2>0, <2>1, <2>2
  <1>4. Newest <= MaxRecords + 1 /\ \A k \in 1..(Newest - 1) : files[k] # <<>>
    <2>1. \A k \in 1..(Newest - 1) : k \in 1..Top
      BY <1>2
    <2> QED BY <1>1, <1>2, <2>1 DEF KFiles
  <1>5. stamps \in Seq(1..MaxDay) /\ today \in 1..MaxDay
    <2>1. stamps \in Seq(Nat) /\ today \in 1..MaxDay /\ MaxDay \in Nat
      BY <1>1, JournalAssumption DEF IInv, IShape, KDays
    <2>2. \A i \in 1..Len(stamps) : stamps[i] \in 1..MaxDay
      BY <1>1, <2>1 DEF KDays
    <2> QED BY <2>1, <2>2
  <1>6. /\ linked \in BOOLEAN /\ due \in BOOLEAN /\ blobs \subseteq 1..Len(stamps)
        /\ dir \subseteq (1..Newest) \X {"jsonl", "zst", "tmp"}
        /\ collects \in 0..MaxCollects /\ crashes \in 0..MaxCrashes /\ disturbed \subseteq Readers
        /\ \A c \in Readers : read[c] \subseteq 1..Len(stamps)
    BY <1>1 DEF IInv, IShape, KDir, Counts
  <1>7. maint.at \in {"idle", "pending", "detach", "create", "pack", "publish", "unlink", "resolve", "prune"}
    BY <1>1 DEF KDir, Stages
  <1>8. ASSUME NEW c \in Readers
        PROVE  /\ cursor[c].at \in {"idle", "again", "read", "advance", "list", "open"}
               /\ cursor[c].seg \in 0..Active /\ cursor[c].fd \in 0..Newest
    <2>1. /\ cursor[c].at \in {"idle", "again", "read", "advance", "list", "open"}
          /\ cursor[c].seg \in (0..Top) \cup {Active} /\ cursor[c].fd \in 0..Newest
      BY <1>1 DEF KShape
    <2>2. (0..Top) \cup {Active} \subseteq 0..Active
      BY <1>2
    <2> QED BY <2>1, <2>2
  <1>9. CursorSpared
    BY <1>1 DEF KNeeds
  <1> QED BY <1>3, <1>4, <1>5, <1>6, <1>7, <1>8, <1>9 DEF TypeOK

(* What a step says of "no more". *)
LEMMA NoMoreIsTrue == IInv /\ KInv /\ [Next]_vars => NoMoreMeansAll \/ UNCHANGED vars
  <1> SUFFICES ASSUME IInv, KInv, Next, NEW d \in Readers,
                      cursor[d].at \in {"read", "again", "advance"}, cursor'[d].at = "idle",
                      cursor'[d].off = cursor[d].off, crashes' = crashes, d \notin disturbed
               PROVE  Retained \ Records(cursor[d].fd) \subseteq read[d]
    BY DEF NoMoreMeansAll
  <1>0. IInv' /\ Counts
    BY StepKeeps DEF KInv, KFirm
  <1>1. CASE AppendRecord \/ Tomorrow \/ Maintenance
    <2>1. UNCHANGED cursor
      BY <1>1 DEF AppendRecord, Tomorrow, Maintenance, Maintain, Pending, Detach, Create, Pack, PackFails,
                  Publish, Unlink, Resolve, Prune, OnlyMaint, readerVars
    <2> QED BY <2>1
  <1>2. ASSUME NEW c \in Readers, CursorStep(c)
        PROVE  Retained \ Records(cursor[d].fd) \subseteq read[d]
    <2>1. Moved(c) /\ NoMore(c)
      BY <1>0, <1>2, CursorStepMoves
    <2>2. c = d
      <3>1. cursor' = [cursor EXCEPT ![c] = cursor'[c]]
        BY <2>1 DEF Moved
      <3>2. cursor = [e \in Readers |-> cursor[e]]
        BY <1>0 DEF Counts
      <3>3. c # d => cursor'[d] = cursor[d]
        BY <3>1, <3>2
      <3> QED BY <3>3
    <2> QED BY <2>1, <2>2 DEF NoMore
  <1>3. CASE CollectBegins \/ Sweep \/ CollectFails
    <2>1. cursor = [e \in Readers |-> cursor[e]]
      BY <1>0 DEF Counts
    <2>2. d = "gc" \/ d = "analytics"
      BY DEF Readers
    <2>3. d = "analytics" => cursor'[d] = cursor[d]
      BY <1>3, <2>1 DEF CollectBegins, Sweep, CollectFails, GcOff
    <2>4. CASE CollectBegins /\ d = "gc"
      <3>1. PICK q : q = Opening
        OBVIOUS
      <3>2. q.at = "list"
        BY <3>1 DEF Opening, Off
      <3>3. cursor'[d] = q
        BY <2>1, <2>4, <3>1 DEF CollectBegins
      <3> QED BY <3>2, <3>3
    <2>5. CASE (Sweep \/ CollectFails) /\ d = "gc"
      BY <2>5 DEF Sweep, CollectFails
    <2> QED BY <1>3, <2>2, <2>3, <2>4, <2>5
  <1>4. CASE Crash
    <2>1. MaxCrashes \in Nat /\ crashes \in 0..MaxCrashes
      BY <1>0, JournalAssumption DEF Counts
    <2>2. \A n \in 0..MaxCrashes : n + 1 # n
      BY <2>1
    <2>3. crashes' = crashes + 1
      BY <1>4 DEF Crash
    <2> QED BY <2>1, <2>2, <2>3, Zenon
  <1> QED BY <1>1, <1>2, <1>3, <1>4 DEF Next

(* A collection that was not disturbed has been given all that is retained. *)
LEMMA SweepKnowsAll ==
  IInv /\ KInv /\ [Next]_vars /\ blobs' # blobs /\ "gc" \notin disturbed => Retained \cap (blobs \ blobs') = {}
  <1> SUFFICES ASSUME IInv, KInv, [Next]_vars, blobs' # blobs, "gc" \notin disturbed
               PROVE  Retained \cap (blobs \ blobs') = {}
    OBVIOUS
  <1>1. CASE AppendRecord
    BY <1>1 DEF AppendRecord
  <1>2. CASE Sweep
    <2>1. Retained \subseteq read["gc"]
      BY <1>2 DEF Sweep, KInv, KGc
    <2>2. PICK gone \in SUBSET (blobs \ read["gc"]) : blobs' = blobs \ gone
      BY <1>2 DEF Sweep
    <2> QED BY <2>1, <2>2
  <1>3. CASE Tomorrow \/ Maintenance
    BY <1>3 DEF Tomorrow, Maintenance, Maintain, Pending, Detach, Create, Pack, PackFails,
                Publish, Unlink, Resolve, Prune, OnlyMaint
  <1>4. ASSUME NEW c \in Readers, CursorStep(c)
        PROVE  blobs' = blobs
    <2>1. OnlyReader
      BY <1>4 DEF CursorStep, GoOn, Refind, Read, ReadFails, Advance, List, Open
    <2> QED BY <2>1 DEF OnlyReader
  <1>5. CASE CollectBegins \/ CollectFails \/ Crash \/ UNCHANGED vars
    BY <1>5 DEF CollectBegins, CollectFails, Crash, vars
  <1> QED BY <1>1, <1>2, <1>3, <1>4, <1>5 DEF Next

(* A reader that follows the journal is given every record that is kept,   *)
(* and told that there are no more only then; the pipeline's segment stays *)
(* (NoMoreMeansAll, CursorSpared).                                         *)
THEOREM ReadersAreServed == Spec => ReadersMissNothing
  <1>1. IInv /\ KInv /\ [Next]_vars => IInv' /\ KInv'
    BY StepKeeps, StepKeepsReaders
  <1>2. IInv' /\ KInv' => TypeOK' /\ CursorSpared'
    BY ReadersAreSound, PTL
  <1>3. IInv /\ KInv /\ [Next]_vars => [TypeOK' /\ CursorSpared' /\ NoMoreMeansAll]_vars
    BY <1>1, <1>2, NoMoreIsTrue
  <1>4. Init => IInv /\ KInv
    BY InitHolds, InitHoldsReaders
  <1> QED BY <1>1, <1>3, <1>4, PTL DEF Spec, ReadersMissNothing

(* A collection whose reading was not disturbed deletes no blob that a     *)
(* retained record refers to.                                              *)
THEOREM SweepIsSafe == Spec => UndisturbedSweepIsSafe
  <1>1. IInv /\ KInv /\ [Next]_vars => IInv' /\ KInv'
    BY StepKeeps, StepKeepsReaders
  <1>2. IInv /\ KInv /\ [Next]_vars =>
          [(blobs' # blobs /\ "gc" \notin disturbed) => Retained \cap (blobs \ blobs') = {}]_vars
    BY SweepKnowsAll
  <1>3. Init => IInv /\ KInv
    BY InitHolds, InitHoldsReaders
  <1> QED BY <1>1, <1>2, <1>3, PTL DEF Spec, UndisturbedSweepIsSafe
=============================================================================
