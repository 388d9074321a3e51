---------------------------- MODULE MCPipeline ------------------------------
(* What goes on behind a commit: the background jobs whose write-back makes *)
(* it, with the stages of Shutdown that keep its events (MCJobPool), and    *)
(* the pipeline that turns them into scalars.  They share no state the      *)
(* models keep, so the run explores them one at a time: side is the one     *)
(* that moves, and the other rests where it starts.                         *)
EXTENDS MCJobPool, Pipeline

VARIABLE side
sideVars == <<side, vars, pipelineVars>>

\* Two commits and one mishap, or one commit and two.
WithinBounds == journaled' + mishaps' <= 3

SidesInit == side \in {"jobs", "pipeline"} /\ Init /\ PipelineInit
SidesNext ==
  /\ UNCHANGED side
  /\ \/ side = "jobs" /\ Next /\ UNCHANGED pipelineVars
     \/ side = "pipeline" /\ PipelineNext /\ WithinBounds /\ UNCHANGED vars

\* The fairness of JobPool, for the side that moves; and of the pipeline: its
\* goroutines go on, its ticker fires, and a server that is gone is started.
JobsFair ==
  /\ \A j \in JobIds :
       /\ SF_vars(side = "jobs" /\ Alive /\ Acquire(j))
       /\ SF_vars(side = "jobs" /\ Alive /\ WriteBack(j))
       /\ WF_vars(side = "jobs" /\ Alive /\ (Launch(j) \/ CommandFails(j) \/ CommandEnds(j)
                                               \/ Finish(j) \/ Release(j) \/ Done(j)))
  /\ WF_vars(side = "jobs" /\ Alive /\ PostCommit)
PipelineFair ==
  /\ WF_pipelineVars(side = "pipeline" /\ RecorderAppends)
  /\ WF_pipelineVars(side = "pipeline" /\ HandleUnit)
  /\ WF_pipelineVars(side = "pipeline" /\ Resume)
  /\ WF_pipelineVars(side = "pipeline" /\ ScanLog)
  /\ WF_pipelineVars(side = "pipeline" /\ TakeHandoff)
  /\ WF_pipelineVars(side = "pipeline" /\ Ticks)
  /\ WF_pipelineVars(side = "pipeline" /\ CloseDrains)
  /\ WF_pipelineVars(side = "pipeline" /\ Replaying)

SidesSpec == SidesInit /\ [][SidesNext]_sideVars /\ JobsFair /\ PipelineFair
=============================================================================
