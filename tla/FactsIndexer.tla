---------------------------- MODULE FactsIndexer ----------------------------
(***************************************************************************)
(* The content-facts index (internal/analytics/indexer.go, factsindex.go,  *)
(* Service.currentFacts): each committed write queues its file through the *)
(* post-commit hook, one key of the worker lane (WorkLane) takes a batch   *)
(* of queued paths and scans them, and a viewer of a file computes its     *)
(* facts in place.  The queue, the facts and the state of the scan are     *)
(* SQLite tables, durable and each call a transaction.                     *)
(*                                                                         *)
(* A version stands for the content of a file with its size and mtime.  A  *)
(* scan of the root lists its files.                                       *)
(***************************************************************************)
EXTENDS Naturals, Sequences, FiniteSets

CONSTANTS
  FactFiles, Root,
  BatchSize,  \* factsBatchSize
  MaxWrites,  \* bound on the writes ...
  MaxOthers   \* ... and on the views, rescopes and faults together

ASSUME FactsAssumption ==
  Root \notin FactFiles /\ BatchSize \in Nat \ {0} /\ MaxWrites \in Nat /\ MaxOthers \in Nat

VARIABLES
  version,     \* the version of each file, 0 when it does not exist
  hooks,       \* committed files whose post-commit hook has not run, in order
  marked,      \* the hook at the head of hooks has marked its file dirty
  dirty,       \* factsIndexer.dirty
  scanQueue,   \* facts_scan_queue, the rows of the current generation
  scan,        \* facts_scan_state: its generation and state
  facts,       \* the files table: the version of each file (0: no row), its generation
  factsWaiting, factsWorking,  \* the lane's key "facts"
  job,         \* the run under way
  viewer,      \* the reader under way
  missed,      \* files whose request or fresh facts were lost
  spent        \* writes, views, rescopes and faults so far
fileVars  == <<version, hooks, marked>>
tableVars == <<scanQueue, scan, facts>>
laneFacts == <<factsWaiting, factsWorking>>
factsVars == <<fileVars, dirty, tableVars, laneFacts, job, viewer, missed, spent>>

FactsLane == INSTANCE WorkLane WITH Keys <- {"facts"}, stopped <- FALSE,
                                    waiting <- factsWaiting, working <- factsWorking
Schedule == FactsLane!Request("facts", TRUE)
Spend(n) == /\ IF n = "writes" THEN spent.writes < MaxWrites
               ELSE spent.views + spent.rescopes + spent.faults < MaxOthers
            /\ spent' = [spent EXCEPT ![n] = @ + 1]
Paths == FactFiles \cup {Root}
NoJob == [at |-> "idle", todo |-> {}, gen |-> 0, ready |-> FALSE, path |-> Root, seen |-> 0]
NoViewer == [at |-> "idle", path |-> Root, seen |-> 0]
Hooked == {hooks[i] : i \in DOMAIN hooks}
-----------------------------------------------------------------------------
(* Committed writes and their hooks *)

\* A write or a removal of f is applied; its hook runs later, in commit order.
CommitFile(f) ==
  /\ Spend("writes")
  /\ \E v \in {0, spent.writes + 2} : v # version[f] /\ version' = [version EXCEPT ![f] = v]
  /\ hooks' = Append(hooks, f)
  /\ UNCHANGED <<marked, dirty, tableVars, laneFacts, job, viewer, missed>>

\* A full scan from the root, of a new generation.
NewGeneration == /\ scan' = [gen |-> scan.gen + 1, state |-> "updating"]
                 /\ scanQueue' = {Root} /\ missed' = {}

\* QueueScanPath: incremental work leaves a ready generation ready.
Requeue(f) == /\ scan' = [scan EXCEPT !.state = IF @ = "ready" THEN @ ELSE "updating"]
              /\ scanQueue' = scanQueue \cup {f}

\* factsIndexer.enqueue marks the path ...
HookMarks ==
  /\ hooks # <<>> /\ ~marked /\ marked' = TRUE
  /\ dirty' = dirty \cup {Head(hooks)}
  /\ UNCHANGED <<version, hooks, tableVars, laneFacts, job, viewer, missed, spent>>

\* ... queues it and schedules a run.  When the insert fails it asks for a scan
\* instead, which a ready or interrupted generation does not repeat.
HookQueues ==
  /\ marked /\ marked' = FALSE /\ hooks' = Tail(hooks) /\ Schedule
  /\ \/ Requeue(Head(hooks)) /\ UNCHANGED <<missed, spent>>
     \/ /\ Spend("faults")
        /\ IF scan.state = "failed" THEN NewGeneration
           ELSE missed' = missed \cup {Head(hooks)} /\ UNCHANGED <<scan, scanQueue>>
  /\ UNCHANGED <<version, dirty, facts, job, viewer>>

\* The docsets or the content sources change: StartScan with a new contract.
Rescope ==
  /\ Spend("rescopes") /\ NewGeneration /\ Schedule
  /\ UNCHANGED <<fileVars, dirty, facts, job, viewer>>
-----------------------------------------------------------------------------
(* factsIndexer.run *)

EndRun(again) == /\ job' = NoJob /\ factsWorking' = {}
                 /\ factsWaiting' = IF again THEN {"facts"} ELSE factsWaiting
FailScan == scan' = IF job.gen = scan.gen THEN [scan EXCEPT !.state = "failed"] ELSE scan

\* The run reads the state of the scan and takes its next paths; with none to
\* take and the scan ready it is over.
RunStarts ==
  /\ FactsLane!Start("facts")
  /\ \E todo \in SUBSET scanQueue :
       /\ Cardinality(todo) = BatchSize \/ (Cardinality(todo) < BatchSize /\ todo = scanQueue)
       /\ job' = [NoJob EXCEPT
                    !.at = IF todo = {} /\ scan.state = "ready" THEN "over" ELSE "next",
                    !.todo = todo, !.gen = scan.gen, !.ready = (scan.state = "ready")]
  /\ UNCHANGED <<fileVars, dirty, tableVars, viewer, missed, spent>>
\* The state of the scan cannot be read: the run is over, and what is queued
\* waits for the next request.
RunIsBlind ==
  /\ FactsLane!Start("facts") /\ Spend("faults")
  /\ job' = [NoJob EXCEPT !.at = "over"] /\ missed' = missed \cup (scanQueue \cap FactFiles)
  /\ UNCHANGED <<fileVars, dirty, tableVars, viewer>>
RunOver == /\ job.at = "over" /\ EndRun(FALSE)
           /\ UNCHANGED <<fileVars, dirty, tableVars, viewer, missed, spent>>

\* scanPath begins with a path that is no longer dirty and asks what it is.
TakePath(p) ==
  /\ job.at = "next" /\ p \in job.todo
  /\ dirty' = dirty \ {p}
  /\ job' = [job EXCEPT !.todo = @ \ {p}, !.path = p,
                        !.seen = IF p = Root THEN 0 ELSE version[p],
                        !.at = CASE p = Root -> "complete"
                                 [] p # Root /\ version[p] = 0 -> "drop"
                                 [] OTHER -> "read"]
  /\ UNCHANGED <<fileVars, tableVars, laneFacts, viewer, missed, spent>>

\* The file is gone: its facts go.
DropFacts ==
  /\ job.at = "drop" /\ job' = [job EXCEPT !.at = "complete"]
  /\ facts' = [facts EXCEPT ![job.path].version = 0] /\ missed' = missed \ {job.path}
  /\ UNCHANGED <<fileVars, dirty, scanQueue, scan, laneFacts, viewer, spent>>

\* The content is read, unless the facts are there, and the file looked at
\* again; facts of this very generation are left as they are.  A file that has
\* changed is queued anew and the scan fails, as it does when the file has gone
\* before it is read.
ReadFile ==
  LET f == job.path
      hit == facts[f].version = job.seen
  IN  /\ job.at = "read"
      /\ \/ /\ hit /\ facts[f].gen = job.gen
            /\ job' = [job EXCEPT !.at = "complete"] /\ missed' = missed \ {f}
            /\ UNCHANGED <<dirty, tableVars, laneFacts>>
         \/ /\ IF hit THEN facts[f].gen # job.gen ELSE version[f] \in {job.seen, 0}
            /\ job' = [job EXCEPT !.at = "publish"]
            /\ UNCHANGED <<dirty, tableVars, laneFacts, missed>>
         \/ /\ ~hit /\ version[f] = 0
            /\ facts' = [facts EXCEPT ![f].version = 0]
            /\ FailScan /\ EndRun(FALSE) /\ UNCHANGED <<dirty, scanQueue, missed>>
         \/ /\ ~hit /\ version[f] \notin {job.seen, 0}
            /\ dirty' = dirty \cup {f} /\ scanQueue' = scanQueue \cup {f}
            /\ FailScan /\ EndRun(TRUE) /\ UNCHANGED <<facts, missed>>
      /\ UNCHANGED <<fileVars, viewer, spent>>

\* Upsert, refused when another generation has begun.
Publish ==
  /\ job.at = "publish"
  /\ IF job.gen = scan.gen
     THEN /\ facts' = [facts EXCEPT ![job.path] = [version |-> job.seen, gen |-> job.gen]]
          /\ missed' = missed \ {job.path}
          /\ job' = [job EXCEPT !.at = "complete"] /\ UNCHANGED laneFacts
     ELSE EndRun(FALSE) /\ UNCHANGED <<facts, missed>>
  /\ UNCHANGED <<fileVars, dirty, scanQueue, scan, viewer, spent>>

\* CompleteScanPath takes the path off the queue of its generation; a directory
\* leaves its children there.
CompletePath ==
  /\ job.at = "complete" /\ job' = [job EXCEPT !.at = "recheck"]
  /\ scanQueue' = IF job.gen # scan.gen \/ job.path \notin scanQueue THEN scanQueue
                  ELSE (scanQueue \ {job.path})
                       \cup (IF job.path = Root THEN {f \in FactFiles : version[f] # 0} ELSE {})
  /\ UNCHANGED <<fileVars, dirty, scan, facts, laneFacts, viewer, missed, spent>>

\* A path that is dirty again goes back to the queue.
Recheck ==
  /\ job.at = "recheck" /\ job' = [job EXCEPT !.at = "next"]
  /\ IF job.path \in dirty /\ job.gen = scan.gen THEN Requeue(job.path)
     ELSE UNCHANGED <<scan, scanQueue>>
  /\ UNCHANGED <<fileVars, dirty, facts, laneFacts, viewer, missed, spent>>

RemainingPaths == IF job.gen = scan.gen THEN scanQueue ELSE {}

\* Mutant: the rest of the queue waits for the next write.
BatchEndsForGood ==
  /\ job.at = "next" /\ job.todo = {}
  /\ IF RemainingPaths # {} \/ job.ready THEN EndRun(FALSE)
     ELSE job' = [job EXCEPT !.at = "finish"] /\ UNCHANGED laneFacts
  /\ UNCHANGED <<fileVars, dirty, tableVars, viewer, missed, spent>>

\* After the batch: what is left is for a follow-up run; incremental work on a
\* ready generation ends here.
BatchEnds ==
  /\ job.at = "next" /\ job.todo = {}
  /\ IF RemainingPaths # {} \/ job.ready THEN EndRun(RemainingPaths # {})
     ELSE job' = [job EXCEPT !.at = "finish"] /\ UNCHANGED laneFacts
  /\ UNCHANGED <<fileVars, dirty, tableVars, viewer, missed, spent>>

WithoutOlder(gen) == [f \in FactFiles |-> IF facts[f].gen < gen
                                          THEN [facts[f] EXCEPT !.version = 0] ELSE facts[f]]

\* Mutant: what is older than the latest generation goes, whosever run it is.
PruneForLatest ==
  /\ job.at = "finish"
  /\ facts' = WithoutOlder(scan.gen) /\ job' = [job EXCEPT !.at = "mark"]
  /\ UNCHANGED <<fileVars, dirty, scanQueue, scan, laneFacts, viewer, missed, spent>>

\* FinishScan: with the queue of its generation empty, older rows go ...
Prune ==
  /\ job.at = "finish"
  /\ IF job.gen = scan.gen /\ scanQueue = {}
     THEN /\ facts' = WithoutOlder(job.gen) /\ job' = [job EXCEPT !.at = "mark"]
          /\ UNCHANGED laneFacts
     ELSE EndRun(TRUE) /\ UNCHANGED facts
  /\ UNCHANGED <<fileVars, dirty, scanQueue, scan, viewer, missed, spent>>

\* ... and the generation is ready if the queue still is; or another run is due.
MarkReady ==
  /\ job.at = "mark"
  /\ IF job.gen = scan.gen /\ scanQueue = {}
     THEN scan' = [scan EXCEPT !.state = "ready"] /\ EndRun(FALSE)
     ELSE EndRun(TRUE) /\ UNCHANGED scan
  /\ UNCHANGED <<fileVars, dirty, scanQueue, facts, viewer, missed, spent>>

\* A call of the database fails: the scan is failed and nothing is scheduled.
\* A dirty path that was to go back to the queue is on it no more.
JobFails ==
  /\ job.at \notin {"idle", "over"} /\ Spend("faults")
  /\ FailScan /\ EndRun(FALSE)
  /\ missed' = IF job.at = "recheck" THEN missed \cup ({job.path} \cap dirty) ELSE missed
  /\ UNCHANGED <<fileVars, dirty, scanQueue, facts, viewer>>

Run == \/ RunStarts \/ RunOver \/ DropFacts \/ ReadFile \/ Publish \/ CompletePath \/ Recheck
       \/ BatchEnds \/ Prune \/ MarkReady \/ \E p \in Paths : TakePath(p)
-----------------------------------------------------------------------------
(* Service.CurrentFacts, for a viewer of f *)

\* A file whose facts are not in the table as it is now is looked at ...
View(f) ==
  /\ viewer.at = "idle" /\ version[f] \notin {0, facts[f].version}
  /\ Spend("views")
  /\ viewer' = [at |-> "read", path |-> f, seen |-> version[f]]
  /\ UNCHANGED <<fileVars, dirty, tableVars, laneFacts, job, missed>>

\* ... read and looked at again ...
ViewReads ==
  /\ viewer.at = "read"
  /\ LET f == viewer.path IN
     \/ /\ version[f] \in {viewer.seen, 0} /\ viewer' = [viewer EXCEPT !.at = "publish"]
        /\ UNCHANGED <<dirty, tableVars, laneFacts>>
     \/ /\ version[f] = 0 /\ viewer' = NoViewer
        /\ facts' = [facts EXCEPT ![f].version = 0]
        /\ UNCHANGED <<dirty, scanQueue, scan, laneFacts>>
     \/ /\ version[f] \notin {viewer.seen, 0} /\ viewer' = NoViewer
        /\ dirty' = dirty \cup {f} /\ Requeue(f) /\ Schedule /\ UNCHANGED facts
  /\ UNCHANGED <<fileVars, job, missed, spent>>

\* ... and its facts stored under the current generation.
ViewPublishes ==
  /\ viewer.at = "publish" /\ viewer' = NoViewer
  /\ LET f == viewer.path IN
     /\ facts' = [facts EXCEPT ![f] = [version |-> viewer.seen, gen |-> scan.gen]]
     /\ missed' = IF viewer.seen # version[f] THEN missed \cup {f} ELSE missed
  /\ UNCHANGED <<fileVars, dirty, scanQueue, scan, laneFacts, job, spent>>
-----------------------------------------------------------------------------
\* The process dies, hooks that have not run are lost, and so is the mark of a
\* path that was to go back to the queue.  It starts again: a failed scan is
\* replaced, another goes on with its queue.
FactsCrash ==
  /\ Spend("faults")
  /\ hooks' = <<>> /\ marked' = FALSE /\ dirty' = {} /\ job' = NoJob /\ viewer' = NoViewer
  /\ factsWaiting' = {"facts"} /\ factsWorking' = {}
  /\ IF scan.state = "failed" THEN NewGeneration
     ELSE /\ missed' = missed \cup Hooked \cup ((dirty \cap FactFiles) \ scanQueue)
          /\ UNCHANGED <<scan, scanQueue>>
  /\ UNCHANGED <<version, facts>>

FactsInit ==
  /\ version = [f \in FactFiles |-> 1] /\ hooks = <<>> /\ marked = FALSE /\ dirty = {}
  /\ scanQueue = {Root} /\ scan = [gen |-> 1, state |-> "updating"]
  /\ facts = [f \in FactFiles |-> [version |-> 0, gen |-> 0]]
  /\ factsWaiting = {"facts"} /\ factsWorking = {} /\ job = NoJob /\ viewer = NoViewer
  /\ missed = {} /\ spent = [writes |-> 0, views |-> 0, rescopes |-> 0, faults |-> 0]

FactsNext ==
  \/ HookMarks \/ HookQueues \/ Rescope \/ Run \/ RunIsBlind \/ JobFails
  \/ ViewReads \/ ViewPublishes \/ FactsCrash
  \/ \E f \in FactFiles : CommitFile(f) \/ View(f)

FactsSpec == FactsInit /\ [][FactsNext]_factsVars

\* Hooks run on their goroutine, runs on the lane, and a viewer ends.
FactsFairness == /\ WF_factsVars(HookMarks \/ HookQueues) /\ WF_factsVars(Run)
                 /\ WF_factsVars(ViewReads \/ ViewPublishes)
-----------------------------------------------------------------------------
\* Every variable of the facts index has its type.
FactsTypeOK ==
  /\ version \in [FactFiles -> 0..MaxWrites + 1] /\ hooks \in Seq(FactFiles)
  /\ marked \in BOOLEAN /\ (marked => hooks # <<>>)
  /\ dirty \subseteq Paths /\ scanQueue \subseteq Paths /\ missed \subseteq FactFiles
  /\ scan.gen \in Nat \ {0} /\ scan.state \in {"updating", "ready", "failed"}
  /\ \A f \in FactFiles : facts[f].version \in 0..MaxWrites + 1 /\ facts[f].gen \in 0..scan.gen
  /\ factsWaiting \subseteq {"facts"}
  /\ factsWorking = IF job.at = "idle" THEN {} ELSE {"facts"}
  /\ job.gen \in 0..scan.gen /\ job.todo \subseteq Paths /\ job.path \in Paths

Settled == /\ hooks = <<>> /\ factsWaiting = {} /\ factsWorking = {} /\ viewer = NoViewer
           /\ scan.state = "ready"
Fresh == \A f \in FactFiles : facts[f].version = version[f]

\* At rest the facts are those of the files: with every hook run, the lane idle
\* and the scan ready, no change is left out, whatever a run, the hooks and the
\* readers did in between.  Excepted are the files whose request a crash or a
\* failed call of the database lost, and those whose facts a slow reader
\* replaced, until they are scanned again.
FactsKeepUp ==
  Settled => \A f \in FactFiles : facts[f].version = version[f] \/ f \in missed

\* "Do not publish content under metadata observed before a concurrent write.
\* The write hook (or periodic reconciliation) will retry this file"
\* (service.go): while nothing has failed the same holds with no file left out.
FactsAreRetried == Settled /\ spent.faults = 0 => Fresh

\* A file that exists loses its row only while its next scan is already on its
\* way: neither the pruning of an old generation nor a late removal leaves a
\* live file without facts.
LiveFilesKeepRows ==
  \A f \in FactFiles :
    facts[f].version # 0 /\ facts'[f].version = 0 /\ version[f] # 0
      => f \in Hooked \cup dirty \cup scanQueue \cup missed

\* The index neither stays behind at rest nor loses what it has on the way.
FactsAreKept == [][FactsTypeOK' /\ FactsKeepUp' /\ LiveFilesKeepRows]_factsVars

\* Without faults the index gets there: from some time on the scan is ready and
\* every file's facts are its own.
FactsSettle ==
  <>[](spent.faults = 0 =>
         scan.state = "ready" /\ \A f \in FactFiles : facts[f].version = version[f] \/ f \in missed)
=============================================================================
