------------------------------ MODULE WorkLane ------------------------------
(***************************************************************************)
(* What the analytics worker lane promises                                 *)
(* (internal/analytics/processor.go, "A key can be queued or running only  *)
(* once"): a request waits at most once, one key works at a time, a key    *)
(* that works keeps one follow-up, and a key that waits gets its turn as   *)
(* long as the lane is not stopped.                                        *)
(***************************************************************************)
CONSTANT Keys

VARIABLES waiting, working, stopped
laneVars == <<waiting, working, stopped>>

LaneInit == waiting = {} /\ working = {} /\ stopped = FALSE

\* A request for a key that works is dropped unless it is a follow-up.
Request(k, followup) ==
  /\ waiting' = IF k \in working /\ ~followup THEN waiting ELSE waiting \cup {k}
  /\ working' = working /\ stopped' = stopped

Start(k) == /\ ~stopped /\ working = {} /\ k \in waiting
            /\ waiting' = waiting \ {k} /\ working' = {k} /\ stopped' = stopped

Finish(k) == /\ k \in working
             /\ working' = working \ {k} /\ waiting' = waiting /\ stopped' = stopped

Stop == stopped' = TRUE /\ waiting' = waiting /\ working' = working

LaneNext == \/ Stop
            \/ \E k \in Keys : \/ Start(k) \/ Finish(k)
                               \/ \E followup \in BOOLEAN : Request(k, followup)

\* No request of one key can starve another.
LaneSpec == LaneInit /\ [][LaneNext]_laneVars /\ \A k \in Keys : SF_laneVars(Start(k))
=============================================================================
