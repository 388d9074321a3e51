----------------------------- MODULE MCServices -----------------------------
(* The services that go on beside the commits of the write log: the event   *)
(* log, the analytics worker lane, the facts indexer and the HTTP sessions. *)
(* They share no state the models keep, so the run explores them one at a   *)
(* time: part is the one that moves, from the first state on, and the       *)
(* others rest where they start.                                            *)
EXTENDS EventLog, WorkQueue, FactsIndexer, HttpSessions

CONSTANTS key1, key2, key3, file1, file2, root, req1, req2

VARIABLE part
serviceVars == <<part, eventLogVars, workQueueVars, factsVars, httpVars>>

Parts == {"events", "queue", "facts", "http"}

\* The files as an indexer that has nothing to do has them.
FactsAtRest ==
  /\ version = [x \in FactFiles |-> 1] /\ hooks = <<>> /\ marked = FALSE /\ dirty = {}
  /\ scanQueue = {} /\ scan = [gen |-> 1, state |-> "ready"]
  /\ facts = [x \in FactFiles |-> [version |-> 1, gen |-> 1]]
  /\ factsWaiting = {} /\ factsWorking = {} /\ job = NoJob /\ viewer = NoViewer
  /\ missed = {} /\ spent = [writes |-> 0, views |-> 0, rescopes |-> 0, faults |-> 0]

ServicesInit ==
  /\ part \in Parts
  /\ EventLogInit /\ WorkQueueInit /\ HttpInit
  /\ IF part = "facts" THEN FactsInit ELSE FactsAtRest

ServicesNext ==
  /\ UNCHANGED part
  /\ \/ part = "events" /\ EventLogNext /\ UNCHANGED <<workQueueVars, factsVars, httpVars>>
     \/ part = "queue" /\ WorkQueueNext /\ UNCHANGED <<eventLogVars, factsVars, httpVars>>
     \/ part = "facts" /\ FactsNext /\ UNCHANGED <<eventLogVars, workQueueVars, httpVars>>
     \/ part = "http" /\ HttpNext /\ UNCHANGED <<eventLogVars, workQueueVars, factsVars>>

\* The fairness of each component, for the part that moves.
EventsFair ==
  /\ WF_eventLogVars(part = "events" /\ ShipNow)
  /\ SF_eventLogVars(part = "events" /\ OpenBatch(TRUE))
  /\ WF_eventLogVars(part = "events" /\ (ScanStops \/ ScanEnds))
QueueFair ==
  /\ WF_workQueueVars(part = "queue" /\ Lane) /\ WF_workQueueVars(part = "queue" /\ Leave)
  /\ SF_workQueueVars(part = "queue" /\ EnterGate)
  /\ WF_workQueueVars(part = "queue" /\ PipelineLeaves)
FactsFair ==
  /\ WF_factsVars(part = "facts" /\ (HookMarks \/ HookQueues))
  /\ WF_factsVars(part = "facts" /\ Run)
  /\ WF_factsVars(part = "facts" /\ (ViewReads \/ ViewPublishes))
HttpFair ==
  /\ \A r \in HttpRequests : WF_httpVars(part = "http" /\ Answer(r))
  /\ \A id \in SessionIds : WF_httpVars(part = "http" /\ TimerStep(id))
  /\ WF_httpVars(part = "http" /\ TimePasses)

ServicesSpec ==
  /\ ServicesInit /\ [][ServicesNext]_serviceVars
  /\ EventsFair /\ QueueFair /\ FactsFair /\ HttpFair
=============================================================================
