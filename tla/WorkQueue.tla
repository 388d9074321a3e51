----------------------------- MODULE WorkQueue -----------------------------
(***************************************************************************)
(* workProcessor (internal/analytics/processor.go), the one lane for       *)
(* content indexing and dashboard views: two queues, a wake-up channel     *)
(* with room for one token, and a gate it shares with the pipeline's       *)
(* scans.                                                                  *)
(***************************************************************************)
EXTENDS Naturals, Sequences, FiniteSets

CONSTANTS
  WorkKeys,
  MaxPriorityStreak  \* maxPriorityStreak

ASSUME WorkQueueAssumption == MaxPriorityStreak \in Nat \ {0}

VARIABLES
  pending,   \* the class of each pending key
  queues,    \* the keys of each class, in the order they came
  running,   \* the keys that run
  streak,    \* priority items run in a row, as far as pop tells them apart
  wake,      \* a token is in the wake-up channel
  lane,      \* where the goroutine is
  item,      \* the keys it holds: none or one
  gate,      \* who has the gate
  cancelled
queueVars == <<pending, queues, running, streak>>
workQueueVars == <<queueVars, wake, lane, item, gate, cancelled>>

Classes == {"priority", "background"}
Without(S, k) == [x \in S \ {k} |-> pending[x]]

\* removeBackground: a queue without the place a key has in it.
PlaceOf(k, q) == CHOOSE i \in DOMAIN q : q[i] = k
Removed(q, k) == SubSeq(q, 1, PlaceOf(k, q) - 1) \o SubSeq(q, PlaceOf(k, q) + 1, Len(q))
Queued == queues.priority # <<>> \/ queues.background # <<>>
-----------------------------------------------------------------------------
\* enqueueWithFollowup: a running key is refused unless this is a follow-up, a
\* pending one is at most promoted.
Enqueue(k, class, followup) ==
  /\ ~(k \in running /\ ~followup)
  /\ IF k \in DOMAIN pending
     THEN /\ class = "priority" /\ pending[k] = "background"
          /\ pending' = [pending EXCEPT ![k] = class]
          /\ queues' = [background |-> Removed(queues.background, k),
                        priority   |-> Append(queues.priority, k)]
          /\ UNCHANGED wake
     ELSE /\ pending' = [x \in DOMAIN pending \cup {k} |-> IF x = k THEN class ELSE pending[x]]
          /\ queues' = [queues EXCEPT ![class] = Append(@, k)]
          /\ wake' = TRUE
  /\ UNCHANGED <<running, streak, lane, item, gate, cancelled>>

Wake == /\ lane = "select" /\ wake /\ wake' = FALSE /\ lane' = "loop"
        /\ UNCHANGED <<queueVars, item, gate, cancelled>>

\* Mutant: priority always goes first.
PriorityFirst == IF queues.priority # <<>> THEN "priority" ELSE "background"

\* The class pop takes from: priority, unless it is empty or background work
\* waits and the streak is full.
NextClass ==
  IF queues.priority = <<>> \/ (queues.background # <<>> /\ streak >= MaxPriorityStreak)
  THEN "background" ELSE "priority"

Pop ==
  /\ lane = "loop" /\ Queued
  /\ LET class == NextClass
         k == Head(queues[class])
     IN  /\ queues' = [queues EXCEPT ![class] = Tail(@)]
         /\ pending' = Without(DOMAIN pending, k)
         /\ running' = running \cup {k} /\ item' = {k}
         /\ streak' = CASE class = "background" -> 0
                        [] streak < MaxPriorityStreak -> streak + 1
                        [] OTHER -> streak
  /\ lane' = "gate"
  /\ UNCHANGED <<wake, gate, cancelled>>

PopNothing == /\ lane = "loop" /\ ~Queued /\ lane' = "select"
              /\ UNCHANGED <<queueVars, wake, item, gate, cancelled>>

EnterGate == /\ lane = "gate" /\ gate = "free"
             /\ gate' = "lane" /\ lane' = "run"
             /\ UNCHANGED <<queueVars, wake, item, cancelled>>

\* The item returns, the gate is free, the key is finished ...
RunEnds == /\ lane = "run" /\ lane' = "finished"
           /\ running' = running \ item /\ item' = {} /\ gate' = "free"
           /\ UNCHANGED <<pending, queues, streak, wake, cancelled>>

\* Mutant: one item for each token.
OneItemPerWake == /\ lane = "finished" /\ lane' = IF cancelled THEN "done" ELSE "select"
                  /\ UNCHANGED <<queueVars, wake, item, gate, cancelled>>

\* ... and the goroutine looks at its context before it pops again.
GoOn == /\ lane = "finished" /\ lane' = IF cancelled THEN "done" ELSE "loop"
        /\ UNCHANGED <<queueVars, wake, item, gate, cancelled>>

\* A done context ends the goroutine where it waits, for a token or for the
\* gate; the item it holds stays marked as running.
Leave == /\ cancelled /\ lane \in {"select", "gate"} /\ lane' = "done"
         /\ UNCHANGED <<queueVars, wake, item, gate, cancelled>>

Cancel == /\ ~cancelled /\ cancelled' = TRUE
          /\ UNCHANGED <<queueVars, wake, lane, item, gate>>

\* The pipeline's scan takes the same gate.
PipelineEnters == /\ gate = "free" /\ gate' = "pipeline"
                  /\ UNCHANGED <<queueVars, wake, lane, item, cancelled>>
PipelineLeaves == /\ gate = "pipeline" /\ gate' = "free"
                  /\ UNCHANGED <<queueVars, wake, lane, item, cancelled>>

WorkQueueInit ==
  /\ pending = <<>> /\ queues = [priority |-> <<>>, background |-> <<>>]
  /\ running = {} /\ streak = 0 /\ wake = FALSE /\ lane = "select" /\ item = {}
  /\ gate = "free" /\ cancelled = FALSE

Lane == Wake \/ Pop \/ PopNothing \/ RunEnds \/ GoOn

WorkQueueNext ==
  \/ \E k \in WorkKeys, class \in Classes, followup \in BOOLEAN : Enqueue(k, class, followup)
  \/ Lane \/ EnterGate \/ Leave \/ Cancel \/ PipelineEnters \/ PipelineLeaves

\* The goroutine goes on, every run returns, a scan gives the gate back, and a
\* goroutine that waits for the gate gets it in its turn.
WorkQueueFairness ==
  /\ WF_workQueueVars(Lane) /\ WF_workQueueVars(Leave)
  /\ SF_workQueueVars(EnterGate) /\ WF_workQueueVars(PipelineLeaves)

WorkQueueSpec == WorkQueueInit /\ [][WorkQueueNext]_workQueueVars /\ WorkQueueFairness
-----------------------------------------------------------------------------
\* Every variable of the lane has its type.
WorkQueueTypeOK ==
  /\ DOMAIN pending \subseteq WorkKeys /\ \A k \in DOMAIN pending : pending[k] \in Classes
  /\ queues \in [Classes -> Seq(WorkKeys)]
  /\ running \subseteq WorkKeys /\ item \subseteq running /\ Cardinality(running) <= 1
  /\ streak \in 0..MaxPriorityStreak /\ wake \in BOOLEAN /\ cancelled \in BOOLEAN
  /\ lane \in {"select", "loop", "gate", "run", "finished", "done"}
  /\ gate \in {"free", "lane", "pipeline"}

\* Each pending key is once in the queue of its class and nowhere else, over
\* promotions and follow-ups: pop would otherwise run an item that is gone, or
\* never reach one that is there.
QueuesMatchPending ==
  \A class \in Classes :
    /\ \A k \in WorkKeys : (k \in DOMAIN pending /\ pending[k] = class)
                              <=> \E i \in DOMAIN queues[class] : queues[class][i] = k
    /\ \A i, j \in DOMAIN queues[class] : queues[class][i] = queues[class][j] => i = j

\* The lane never goes to sleep on work: when it waits for a token and a key is
\* pending, the token is there.  One token stands for many requests.
WakeIsNotLost == lane = "select" /\ DOMAIN pending # {} => wake

\* The lane keeps its work: every request that waits is in its place, and the
\* goroutine that is to find it there will look.
WorkIsKept == WorkQueueTypeOK /\ QueuesMatchPending /\ WakeIsNotLost

\* The lane as WorkLane has it, the keys that wait and the key that works.
WL == INSTANCE WorkLane WITH Keys <- WorkKeys, waiting <- DOMAIN pending,
                             working <- running, stopped <- (lane = "done")

\* The two queues implement the abstract lane: one key at a time, no request
\* lost but those the code refuses, and no starvation, neither of background
\* work by requested views nor the other way round.
QueueIsLane == WL!LaneSpec

\* Service.Close waits on processor.done: a cancelled lane ends, whatever is
\* queued or goes on being queued.
CancelledLaneEnds == cancelled ~> lane = "done"

\* The lane works as promised until it is cancelled, and then it ends.
LaneServesAndEnds == QueueIsLane /\ CancelledLaneEnds
=============================================================================
