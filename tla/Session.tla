------------------------------ MODULE Session ------------------------------
(***************************************************************************)
(* Optimistic concurrency of the sessions: the mutating verbs of the shell *)
(* (pkg/shell/cmds: write.go, sed.go, patch.go, rm.go, mv.go) over the     *)
(* session's read tracking (pkg/openlore/read_tracking_fs.go) and the      *)
(* admission chain (middleware_fs.go, server.go).  A verb reads, chooses a *)
(* precondition, submits, and notes what it wrote, in separate steps: the  *)
(* shell and the spawned jobs of a session share one tracking map, and     *)
(* sessions share the files.                                               *)
(*                                                                         *)
(* Submitting is one step, because the write log applies changes one at a  *)
(* time (WriteLog) and undoes a batch that fails (ChangeSet).  A content   *)
(* is the sequence of the texts written to it; it is its own hash.         *)
(***************************************************************************)
EXTENDS Naturals, Sequences, FiniteSets

CONSTANTS
  Threads,      \* goroutines: shells and spawned jobs
  Sessions,
  SessionOf,    \* the session whose file system a thread uses
  Files,        \* the files, all in one directory
  HashFiles,    \* those under PolicyHash; the others are PolicyLastWriteWins
  Verbs,        \* the verbs each session uses
  Texts,        \* what a verb writes
  MaxRetries,   \* maxAppendRetries
  MaxCommits,   \* bound: changes that reach the files
  MaxParked,    \* bound: changes the admission chain parks
  None,         \* no file; nothing tracked
  Always        \* no precondition

Contents == Seq(Texts)
ASSUME SessionAssumption ==
  /\ SessionOf \in [Threads -> Sessions] /\ HashFiles \subseteq Files
  /\ Verbs \in [Sessions -> SUBSET {"cat", "overwrite", "append", "sed", "patch",
                                    "rm", "rmtree", "mv"}]
  /\ None \notin Contents /\ Always \notin Contents /\ Always # None
  /\ None \notin Threads /\ None \notin Sessions
  /\ MaxRetries \in Nat \ {0} /\ MaxCommits \in Nat /\ MaxParked \in Nat

VARIABLES
  disk,     \* the files
  tracked,  \* readTrackingFS.reads of each session
  pc,       \* where each thread is
  op,       \* the verb under way: see Ops
  res,      \* how the thread's latest verb ended
  parked,   \* changes handed to an approver
  commits,  \* changes that reached the files
  seen,     \* contents each session has read or written, per file
  behind,   \* files that changed under a session since it last looked at them
  rivals    \* changes other threads made to the file of the verb under way
vars == <<disk, tracked, pc, op, res, parked, commits, seen, behind, rivals>>

\* src is read, dst is written; base is what was read; the change goes through
\* only if dst has the content cond, or does not exist (None), or Always.
Op(v, s, d, x) == [verb |-> v, src |-> s, dst |-> d, text |-> x, base |-> None,
                   cond |-> Always, tries |-> 0]
Idle == [verb |-> "none"]
Me(t) == SessionOf[t]
ReadVerbs == {"cat", "append", "sed", "patch", "mv"}
FirstStep(v) ==
  IF v \in ReadVerbs THEN "read" ELSE IF v = "overwrite" THEN "resolve" ELSE "submit"

\* What the session is about to learn or has learnt of a file.
Look(t, f) ==
  /\ behind' = [behind EXCEPT ![Me(t)] = @ \ {f}]
  /\ seen' = [seen EXCEPT ![Me(t)][f] = @ \cup ({disk[f]} \ {None})]
Note(t, f, c) == tracked' = [tracked EXCEPT ![Me(t)][f] = c]
End(t, r) ==
  pc' = [pc EXCEPT ![t] = "idle"] /\ op' = [op EXCEPT ![t] = Idle] /\ res' = [res EXCEPT ![t] = r]
Goto(t, l, o) == pc' = [pc EXCEPT ![t] = l] /\ op' = [op EXCEPT ![t] = o] /\ UNCHANGED res
-----------------------------------------------------------------------------
Start(t) ==
  /\ pc[t] = "idle"
  /\ \E v \in Verbs[Me(t)], s, d \in Files, x \in Texts :
       /\ (v = "mv") <=> (s # d)
       /\ v \in {"rm", "rmtree", "mv", "sed"} => disk[s] # None
       /\ pc' = [pc EXCEPT ![t] = FirstStep(v)]
       /\ op' = [op EXCEPT ![t] = Op(v, s, d, x)]
  /\ res' = [res EXCEPT ![t] = "none"]
  /\ rivals' = [rivals EXCEPT ![t] = 0]
  /\ UNCHANGED <<disk, tracked, parked, commits, seen, behind>>

\* Mutant: a missing file is created without insisting that it is missing.
ReadBaseCarelessly(t, o) ==
  IF disk[o.src] # None
    THEN Goto(t, "note", [o EXCEPT !.base = disk[o.src], !.cond = disk[o.src]])
    ELSE IF o.verb \in {"append", "patch"}
      THEN Goto(t, "submit", [o EXCEPT !.base = <<>>, !.cond = Always])
      ELSE End(t, "error")

\* ReadFile on the way to the verb's base.  An append and a patch create a file
\* that is missing; they and an edit under PolicyHash insist on the base.
ReadBase(t, o) ==
  IF disk[o.src] # None
    THEN Goto(t, "note", [o EXCEPT !.base = disk[o.src],
                            !.cond = IF o.verb \in {"append", "patch"} \/ o.dst \in HashFiles
                                       THEN disk[o.src] ELSE Always])
    ELSE IF o.verb \in {"append", "patch"}
      THEN Goto(t, "submit", [o EXCEPT !.base = <<>>, !.cond = None])
      ELSE End(t, "error")
Read(t) ==
  /\ pc[t] = "read"
  /\ ReadBase(t, op[t]) /\ Look(t, op[t].src)
  /\ UNCHANGED <<disk, tracked, parked, commits, rivals>>

\* ... and the wrapper notes it after the read.
NoteRead(t) ==
  /\ pc[t] = "note" /\ Note(t, op[t].src, op[t].base)
  /\ IF op[t].verb = "cat" THEN End(t, "ok")
     ELSE Goto(t, IF op[t].verb = "mv" THEN "resolve" ELSE "submit", op[t])
  /\ UNCHANGED <<disk, parked, commits, seen, behind, rivals>>

\* overwritePreconditions: the tracked hash, else the content at command time.
Resolve(t) ==
  LET o == op[t]
      last == tracked[Me(t)][o.dst]
  IN
  /\ pc[t] = "resolve"
  /\ \/ o.dst \notin HashFiles
        /\ Goto(t, "submit", [o EXCEPT !.cond = Always])
     \/ o.dst \in HashFiles /\ last # None
        /\ Goto(t, "submit", [o EXCEPT !.cond = last])
     \/ o.dst \in HashFiles /\ last = None
        /\ Goto(t, "fallback", o)
  /\ UNCHANGED <<disk, tracked, parked, commits, seen, behind, rivals>>

\* Mutant: the content at command time is read and not insisted on.
FallbackUnconditionally(t) ==
  /\ pc[t] = "fallback"
  /\ Goto(t, "submit", op[t])
  /\ Look(t, op[t].dst)
  /\ UNCHANGED <<disk, tracked, parked, commits, rivals>>

\* With nothing tracked the wrapper reads the file, and notes it next.
Fallback(t) ==
  /\ pc[t] = "fallback"
  /\ Goto(t, IF disk[op[t].dst] = None THEN "submit" ELSE "notebase",
          [op[t] EXCEPT !.cond = disk[op[t].dst]])
  /\ Look(t, op[t].dst)
  /\ UNCHANGED <<disk, tracked, parked, commits, rivals>>

NoteBase(t) ==
  /\ pc[t] = "notebase" /\ Note(t, op[t].dst, op[t].cond)
  /\ Goto(t, "submit", op[t])
  /\ UNCHANGED <<disk, parked, commits, seen, behind, rivals>>
-----------------------------------------------------------------------------
(* The applier's side of a submission.                                     *)

Proposed(o) ==
  CASE o.verb = "overwrite" -> <<o.text>>
    [] o.verb = "mv" -> o.base
    [] OTHER -> Append(o.base, o.text)

After(o) ==
  CASE o.verb = "rmtree" -> [f \in Files |-> None]
    [] o.verb = "rm" -> [disk EXCEPT ![o.dst] = None]
    [] o.verb = "mv" -> [disk EXCEPT ![o.dst] = o.base, ![o.src] = None]
    [] OTHER -> [disk EXCEPT ![o.dst] = Proposed(o)]

Fresh(o) == o.cond = Always \/ disk[o.dst] = o.cond
\* Mutant: the source of a mv is removed whatever it holds.
GoesWhateverMoved(o) ==
  CASE o.verb = "rmtree" -> TRUE
    [] o.verb = "rm" -> disk[o.dst] # None
    [] OTHER -> Fresh(o)
Goes(o) ==
  CASE o.verb = "rmtree" -> TRUE
    [] o.verb = "rm" -> disk[o.dst] # None
    [] o.verb = "mv" -> Fresh(o) /\ disk[o.src] = o.base
    [] OTHER -> Fresh(o)

\* by is the session that knows of the change, or None.
Apply(o, by, t) ==
  LET changed == {f \in Files : After(o)[f] # disk[f]}
      named == {f \in Files : f \in {o.src, o.dst} \/ o.verb = "rmtree"}
  IN
  /\ commits < MaxCommits /\ commits' = commits + 1
  /\ disk' = After(o)
  /\ behind' = [s \in Sessions |-> IF s = by THEN behind[s] \ named ELSE behind[s] \cup changed]
  /\ seen' = [s \in Sessions |-> [f \in Files |->
               IF s = by /\ f = o.dst /\ o.verb \notin {"rm", "rmtree"}
                 THEN seen[s][f] \cup {Proposed(o)} ELSE seen[s][f]]]
  /\ rivals' = [u \in Threads |->
                  IF u # t /\ pc[u] # "idle" /\ op[u].dst \in changed /\ rivals[u] < MaxRetries
                    THEN rivals[u] + 1 ELSE rivals[u]]

Commit(t) ==
  /\ pc[t] = "submit" /\ Goes(op[t])
  /\ Apply(op[t], Me(t), t)
  /\ IF op[t].verb = "mv" THEN End(t, "ok") ELSE Goto(t, "settle", op[t])
  /\ UNCHANGED <<tracked, parked>>

\* Mutant: one attempt too many.
RefuseAppendLate(t) ==
  IF op[t].tries < MaxRetries
    THEN Goto(t, "read", [op[t] EXCEPT !.tries = @ + 1])
    ELSE End(t, "contention")
\* The compare-and-swap failed: an append reads again, the others give up.
RefuseAppend(t) ==
  IF op[t].tries + 1 < MaxRetries
    THEN Goto(t, "read", [op[t] EXCEPT !.tries = @ + 1])
    ELSE End(t, "contention")
Refuse(t) ==
  /\ pc[t] = "submit" /\ ~Goes(op[t])
  /\ CASE op[t].verb = "append" -> RefuseAppend(t)
       [] op[t].verb = "rm" -> End(t, "error")
       [] op[t].verb = "mv" -> End(t, IF Fresh(op[t]) THEN "moved" ELSE "stale")
       [] OTHER -> End(t, "stale")
  /\ UNCHANGED <<disk, tracked, parked, commits, seen, behind, rivals>>

\* Mutant: a write does not update the tracked hash.
SettleUnnoted(t) ==
  /\ pc[t] = "settle" /\ End(t, "ok")
  /\ tracked' = [tracked EXCEPT ![Me(t)] =
       CASE op[t].verb = "rmtree" -> [f \in Files |-> None]
         [] op[t].verb = "rm" -> [@ EXCEPT ![op[t].dst] = None]
         [] OTHER -> @]
  /\ UNCHANGED <<disk, parked, commits, seen, behind, rivals>>

\* The wrapper's bookkeeping once the change is durable.
Settle(t) ==
  /\ pc[t] = "settle" /\ End(t, "ok")
  /\ tracked' = [tracked EXCEPT ![Me(t)] =
       CASE op[t].verb = "rmtree" -> [f \in Files |-> None]
         [] op[t].verb = "rm" -> [@ EXCEPT ![op[t].dst] = None]
         [] OTHER -> [@ EXCEPT ![op[t].dst] = Proposed(op[t])]]
  /\ UNCHANGED <<disk, parked, commits, seen, behind, rivals>>

\* The admission chain parks the change or rejects it: the log never sees it.
Park(t) ==
  /\ pc[t] = "submit" /\ Cardinality(parked) < MaxParked
  /\ parked' = parked \cup {[by |-> t, op |-> op[t]]} /\ End(t, "pending")
  /\ UNCHANGED <<disk, tracked, commits, seen, behind, rivals>>

Reject(t) ==
  /\ pc[t] = "submit" /\ End(t, "error")
  /\ UNCHANGED <<disk, tracked, parked, commits, seen, behind, rivals>>

\* Server.CommitChangeSet replays a parked change with its precondition.
Approve ==
  /\ \E p \in parked :
       /\ parked' = parked \ {p}
       /\ IF Goes(p.op) THEN Apply(p.op, None, None)
          ELSE UNCHANGED <<disk, commits, seen, behind, rivals>>
  /\ UNCHANGED <<tracked, pc, op, res>>
-----------------------------------------------------------------------------
Init ==
  /\ disk \in [Files -> {None} \cup {<<x>> : x \in Texts}]
  /\ tracked = [s \in Sessions |-> [f \in Files |-> None]]
  /\ pc = [t \in Threads |-> "idle"] /\ op = [t \in Threads |-> Idle]
  /\ res = [t \in Threads |-> "none"]
  /\ parked = {} /\ commits = 0
  /\ seen = [s \in Sessions |-> [f \in Files |-> {}]]
  /\ behind = [s \in Sessions |-> Files]
  /\ rivals = [t \in Threads |-> 0]

Verb(t) ==
  Start(t) \/ Read(t) \/ NoteRead(t) \/ Resolve(t) \/ Fallback(t) \/ NoteBase(t)
    \/ Commit(t) \/ Refuse(t) \/ Settle(t) \/ Park(t) \/ Reject(t)

Next == (\E t \in Threads : Verb(t)) \/ Approve

Spec == Init /\ [][Next]_vars
-----------------------------------------------------------------------------
Ops == [verb : {"cat", "overwrite", "append", "sed", "patch", "rm", "rmtree", "mv"},
        src : Files, dst : Files, text : Texts, base : {None} \cup Contents,
        cond : {Always, None} \cup Contents, tries : 0..(MaxRetries - 1)]
TypeOK ==
  /\ disk \in [Files -> {None} \cup Contents]
  /\ tracked \in [Sessions -> [Files -> {None} \cup Contents]]
  /\ pc \in [Threads -> {"idle", "read", "note", "resolve", "fallback", "notebase", "submit",
                         "settle"}]
  /\ op \in [Threads -> {Idle} \cup Ops]
  /\ \A t \in Threads : pc[t] = "idle" <=> op[t] = Idle
  /\ res \in [Threads -> {"none", "ok", "stale", "moved", "contention", "error", "pending"}]
  /\ parked \subseteq [by : Threads, op : Ops]
  /\ commits \in 0..MaxCommits /\ rivals \in [Threads -> 0..MaxRetries]
  /\ seen \in [Sessions -> [Files -> SUBSET Contents]] /\ behind \in [Sessions -> SUBSET Files]

\* The changes that reach the files in this step, each with its session.
Landing ==
  IF commits' = commits THEN {}
  ELSE {<<op[t], Me(t)>> : t \in {u \in Threads : pc[u] = "submit" /\ pc'[u] # "submit"}}
         \cup {<<p.op, SessionOf[p.by]>> : p \in parked \ parked'}

\* Appends, patches and (under PolicyHash) edits never lose a line, whatever
\* runs between their read and their commit, also when they were parked: what
\* the file held is all still there, followed by the new text (write.go:71-73,
\* 91-119; patch.go:76-85).
AppendsKeepAll ==
  [][\A l \in Landing :
       (l[1].verb \in {"append", "patch"} \/ (l[1].verb = "sed" /\ l[1].dst \in HashFiles)) =>
         disk'[l[1].dst] = Append(IF disk[l[1].dst] = None THEN <<>> ELSE disk[l[1].dst],
                                  l[1].text)]_vars

\* Under PolicyHash a whole-file overwrite (redirect, tee, or the destination
\* of a mv) only ever replaces content its session has read or written itself,
\* or creates the file (write.go:17-28, read_tracking_fs.go:13-21).
OverwritesOnlyWhatWasSeen ==
  [][\A l \in Landing :
       (l[1].verb \in {"overwrite", "mv"} /\ l[1].dst \in HashFiles) =>
         disk[l[1].dst] \in seen[l[2]][l[1].dst] \cup {None}]_vars

\* A mv loses nothing: what the source holds at that moment is what the
\* destination gets, also if the move was parked and approved later (mv.go:68-87).
MovesKeepContent ==
  [][\A l \in Landing : l[1].verb = "mv" => disk'[l[1].dst] = disk[l[1].src]]_vars

\* "Too much write contention" is only reported after the file changed under
\* the append at least once per attempt (write.go:91-119).
ContentionIsReal ==
  \A t \in Threads : res[t] = "contention" => rivals[t] >= MaxRetries

\* The threads that are the only one of their session and move nothing: two
\* threads share what their session has read, and a mv does not note what it wrote.
Solitary ==
  {t \in Threads : "mv" \notin Verbs[Me(t)] /\ \A u \in Threads : Me(u) = Me(t) => u = t}

\* A session that is told to re-read a file has not seen the latest content: the
\* file changed since it last looked.  (A file that is gone stays tracked until
\* it is written again, and is refused whenever the session looked.)
EarnedRefusal(t) ==
  (pc[t] = "submit" /\ pc'[t] = "idle" /\ res'[t] = "stale") =>
    op[t].dst \in behind[Me(t)] \/ disk[op[t].dst] = None

\* A session is turned away for a reason.  There is contention only after a
\* change of somebody else for each attempt.  "Has the file changed since the
\* session last read it? [...] file changed concurrently: re-read and retry"
\* (docs/reference/write-system.md:121, docs/concepts/writing.md:224): one that
\* runs a single thread is told so only if the file did change since it looked.
RefusalsAreEarned ==
  [][ContentionIsReal' /\ \A t \in Solitary : EarnedRefusal(t)]_vars
=============================================================================
