------------------------------ MODULE JobPool ------------------------------
(***************************************************************************)
(* Background jobs (pkg/openlore/jobs.go) and the stages of                *)
(* Server.Shutdown (server.go): a spawned job waits for one of             *)
(* MaxConcurrent slots, runs its command, writes the output through the    *)
(* session's file system and records how it ended.  Shutdown drains the    *)
(* jobs, stops the transports, closes the write log and, last, analytics.  *)
(* Sessions go on spawning until the transports have stopped.              *)
(*                                                                         *)
(* The write log is what OrderedLog says of it: a change is applied and    *)
(* answered, then passed to the post-commit chain; a closed log refuses.   *)
(* The WaitGroup is external: its counter is the set of the jobs that have *)
(* called Add and not Done.                                                *)
(***************************************************************************)
EXTENDS Naturals, FiniteSets

CONSTANTS
  JobIds,
  MaxConcurrent   \* the pool's slots (max_jobs)

ASSUME PoolAssumption == MaxConcurrent \in Nat \ {0} /\ IsFiniteSet(JobIds)

VARIABLES
  state,    \* Job.State of each job in the table, "none" before it is there
  at,       \* where each job's goroutine is
  answer,   \* what the write-back of each job returned
  slots,    \* m.sem: the jobs that hold a slot
  busy,     \* m.wg's counter
  drainer,  \* the goroutine Drain starts: in Wait, woken from it, back from it
  drained,  \* what Drain returned
  stage,    \* where Shutdown is
  late,     \* the context of Shutdown is done
  open,     \* sessions can still spawn
  closed,   \* the write log is closed
  store,    \* jobs whose output is durable
  unposted, \* of those, the ones whose post-commit chain has not run
  emitted,  \* of those, the ones whose events analytics has
  early,    \* jobs that were launched when Shutdown began
  panicked  \* the WaitGroup has panicked: the process is gone
jobVars  == <<state, at, answer, slots, busy>>
stopVars == <<drained, stage, late, open, closed, early>>
logVars  == <<store, unposted, emitted>>
vars == <<jobVars, drainer, stopVars, logVars, panicked>>

Alive == stage # "exited" /\ ~panicked
At(j, l) == at' = [at EXCEPT ![j] = l]
Launched == {j \in JobIds : at[j] \notin {"none", "submitting"}}
-----------------------------------------------------------------------------
(* Submit and run *)

\* Submit enters the job in the table ...
Register(j) ==
  /\ at[j] = "none" /\ open
  /\ state' = [state EXCEPT ![j] = "running"] /\ At(j, "submitting")
  /\ UNCHANGED <<answer, slots, busy, drainer, stopVars, logVars, panicked>>

\* Mutant: the goroutine itself calls Add.
LaunchUncounted(j) ==
  /\ at[j] = "submitting" /\ At(j, "queued")
  /\ UNCHANGED <<state, answer, slots, busy, drainer, stopVars, logVars, panicked>>

\* ... and then calls Add and starts the goroutine.
Launch(j) ==
  /\ at[j] = "submitting" /\ At(j, "queued")
  /\ busy' = busy \cup {j}
  /\ UNCHANGED <<state, answer, slots, drainer, stopVars, logVars, panicked>>

\* Mutant: one slot too many.
AcquireOneMore(j) ==
  /\ at[j] = "queued" /\ Cardinality(slots) <= MaxConcurrent
  /\ slots' = slots \cup {j} /\ At(j, "command")
  /\ UNCHANGED <<state, answer, busy, drainer, stopVars, logVars, panicked>>

Acquire(j) ==
  /\ at[j] = "queued" /\ Cardinality(slots) < MaxConcurrent
  /\ slots' = slots \cup {j} /\ At(j, "command")
  /\ UNCHANGED <<state, answer, busy, drainer, stopVars, logVars, panicked>>

\* Mutant: the early return of a failed command skips the deferred calls.
CommandFailsForGood(j) ==
  /\ at[j] = "command"
  /\ state' = [state EXCEPT ![j] = "failed"] /\ At(j, "ended")
  /\ UNCHANGED <<answer, slots, busy, drainer, stopVars, logVars, panicked>>

\* Of itself or because its time (DefaultJobTimeout) is up; finish, and then the
\* deferred calls below.
CommandFails(j) ==
  /\ at[j] = "command"
  /\ state' = [state EXCEPT ![j] = "failed"] /\ At(j, "finished")
  /\ UNCHANGED <<answer, slots, busy, drainer, stopVars, logVars, panicked>>

CommandEnds(j) ==
  /\ at[j] = "command" /\ At(j, "write")
  /\ UNCHANGED <<state, answer, slots, busy, drainer, stopVars, logVars, panicked>>

\* cmds.WriteFile, with no context: committed; committed, but the hook after the
\* commit fails; parked by the admission chain; or refused.
WriteBack(j) ==
  /\ at[j] = "write" /\ At(j, "answered")
  /\ \/ /\ ~closed /\ unposted = {}
        /\ store' = store \cup {j} /\ unposted' = {j}
        /\ answer' = [answer EXCEPT ![j] = "ok"]
     \/ /\ ~closed /\ unposted = {}
        /\ store' = store \cup {j} /\ unposted' = {j}
        /\ answer' = [answer EXCEPT ![j] = "hookfailed"]
     \/ /\ answer' \in {[answer EXCEPT ![j] = "pending"], [answer EXCEPT ![j] = "refused"]}
        /\ UNCHANGED <<store, unposted>>
  /\ UNCHANGED <<state, slots, busy, drainer, stopVars, emitted, panicked>>

\* Mutant: the error of the write-back is not looked at.
FinishDone(j) ==
  /\ at[j] = "answered" /\ At(j, "finished")
  /\ state' = [state EXCEPT ![j] = "done"]
  /\ UNCHANGED <<answer, slots, busy, drainer, stopVars, logVars, panicked>>

Finish(j) ==
  /\ at[j] = "answered" /\ At(j, "finished")
  /\ state' = [state EXCEPT ![j] = IF answer[j] = "ok" THEN "done" ELSE "failed"]
  /\ UNCHANGED <<answer, slots, busy, drainer, stopVars, logVars, panicked>>

Release(j) ==
  /\ at[j] = "finished" /\ At(j, "released")
  /\ slots' = slots \ {j}
  /\ UNCHANGED <<state, answer, busy, drainer, stopVars, logVars, panicked>>

\* The last Done wakes the goroutine in Wait.
Done(j) ==
  /\ at[j] = "released" /\ At(j, "ended")
  /\ busy' = busy \ {j}
  /\ drainer' = IF busy' = {} /\ drainer = "waiting" THEN "woken" ELSE drainer
  /\ UNCHANGED <<state, answer, slots, stopVars, logVars, panicked>>

Work(j) ==
  \/ Register(j) \/ Launch(j) \/ Acquire(j) \/ CommandFails(j) \/ CommandEnds(j)
  \/ WriteBack(j) \/ Finish(j) \/ Release(j) \/ Done(j)
-----------------------------------------------------------------------------
(* The write log behind its reply *)

PostCommit ==
  /\ unposted # {}
  /\ emitted' = emitted \cup unposted /\ unposted' = {}
  /\ UNCHANGED <<jobVars, drainer, stopVars, store, panicked>>
-----------------------------------------------------------------------------
(* Drain and Shutdown *)

Shutdown ==
  /\ stage = "serving"
  /\ stage' = "draining" /\ drainer' = "started" /\ early' = Launched
  /\ UNCHANGED <<jobVars, drained, late, open, closed, logVars, panicked>>

Wait ==
  /\ drainer = "started"
  /\ drainer' = IF busy = {} THEN "returned" ELSE "waiting"
  /\ UNCHANGED <<jobVars, stopVars, logVars, panicked>>

\* Woken, Wait panics if the counter has been raised again.
WaitReturns ==
  /\ drainer = "woken"
  /\ \/ busy = {} /\ drainer' = "returned" /\ UNCHANGED panicked
     \/ busy # {} /\ panicked' = TRUE /\ UNCHANGED drainer
  /\ UNCHANGED <<jobVars, stopVars, logVars>>

\* The select of Drain: its goroutine is back, or the time is up.
Drain ==
  /\ stage = "draining" /\ stage' = "transports"
  /\ \/ drainer = "returned" /\ drained' = "true"
     \/ drained' = "false"
  /\ UNCHANGED <<jobVars, drainer, late, open, closed, early, logVars, panicked>>

ContextDone ==
  /\ stage \notin {"serving", "exited"} /\ ~late
  /\ late' = TRUE
  /\ UNCHANGED <<jobVars, drainer, drained, stage, open, closed, early, logVars, panicked>>

\* The transports wait for their connections, or for the context: then the
\* connections, and the commands on them, go on.
StopTransports ==
  /\ stage = "transports" /\ stage' = "writes"
  /\ \/ open' = FALSE /\ \A j \in JobIds : at[j] # "submitting"
     \/ late /\ UNCHANGED open
  /\ UNCHANGED <<jobVars, drainer, drained, late, closed, early, logVars, panicked>>

CloseLog ==
  /\ stage = "writes" /\ ~closed
  /\ closed' = TRUE
  /\ UNCHANGED <<jobVars, drainer, drained, stage, late, open, early, logVars, panicked>>

\* Mutant: Shutdown does not wait for the log.
LogAbandoned ==
  /\ stage = "writes" /\ closed
  /\ stage' = "analytics"
  /\ UNCHANGED <<jobVars, drainer, drained, late, open, closed, early, logVars, panicked>>

LogClosed ==
  /\ stage = "writes" /\ closed /\ (unposted = {} \/ late)
  /\ stage' = "analytics"
  /\ UNCHANGED <<jobVars, drainer, drained, late, open, closed, early, logVars, panicked>>

\* Analytics is closed and the process returns from main.
Exit ==
  /\ stage = "analytics" /\ stage' = "exited"
  /\ UNCHANGED <<jobVars, drainer, drained, late, open, closed, early, logVars, panicked>>

Stop == Shutdown \/ Wait \/ WaitReturns \/ Drain \/ StopTransports \/ CloseLog \/ LogClosed \/ Exit
-----------------------------------------------------------------------------
Init ==
  /\ state = [j \in JobIds |-> "none"] /\ at = [j \in JobIds |-> "none"]
  /\ answer = [j \in JobIds |-> "none"] /\ slots = {} /\ busy = {}
  /\ drainer = "off" /\ drained = "none" /\ stage = "serving" /\ late = FALSE
  /\ open = TRUE /\ closed = FALSE /\ store = {} /\ unposted = {} /\ emitted = {}
  /\ early = {} /\ panicked = FALSE

Next == Alive /\ ((\E j \in JobIds : Work(j)) \/ PostCommit \/ Stop \/ ContextDone)

Spec == Init /\ [][Next]_vars

\* Goroutines that can run do run, and commands end.  Blocked senders on the
\* channel m.sem get their slot in turn, and so does the applier's queue.
Fairness ==
  /\ \A j \in JobIds :
       /\ SF_vars(Alive /\ Acquire(j)) /\ SF_vars(Alive /\ WriteBack(j))
       /\ WF_vars(Alive /\ (Launch(j) \/ CommandFails(j) \/ CommandEnds(j) \/ Finish(j)
                              \/ Release(j) \/ Done(j)))
  /\ WF_vars(Alive /\ PostCommit)

FairSpec == Spec /\ Fairness
-----------------------------------------------------------------------------
TypeOK ==
  /\ state \in [JobIds -> {"none", "running", "done", "failed"}]
  /\ at \in [JobIds -> {"none", "submitting", "queued", "command", "write", "answered",
                        "finished", "released", "ended"}]
  /\ answer \in [JobIds -> {"none", "ok", "hookfailed", "pending", "refused"}]
  /\ slots \subseteq JobIds /\ Cardinality(slots) <= MaxConcurrent
  /\ busy \subseteq JobIds /\ early \subseteq JobIds
  /\ drainer \in {"off", "started", "waiting", "woken", "returned"}
  /\ drained \in {"none", "true", "false"}
  /\ stage \in {"serving", "draining", "transports", "writes", "analytics", "exited"}
  /\ late \in BOOLEAN /\ open \in BOOLEAN /\ closed \in BOOLEAN /\ panicked \in BOOLEAN
  /\ store \subseteq JobIds /\ unposted \subseteq store /\ emitted \subseteq store

\* When Drain says that the jobs are done, every job that had been started when
\* Shutdown began has finished, and its output is where it will ever be: none of
\* them is lost to the shutdown (jobs.go:151-165, server.go:2037-2043).
DrainedMeansFinished ==
  drained = "true" => \A j \in early : state[j] \in {"done", "failed"}

\* The table at /jobs tells the truth about the files: a job is done exactly
\* when its write-back was acknowledged, and one that failed has changed nothing
\* unless the hook behind its commit failed (jobs.go:118-129).
TableTellsTruth ==
  \A j \in JobIds :
    /\ state[j] = "done" => j \in store
    /\ state[j] = "failed" => j \notin store \/ answer[j] = "hookfailed"

\* "Drain writes next, then analytics last so every acknowledged command and
\* commit can still emit" (server.go:2054-2055): unless the deadline passed,
\* every durable output has its events when the process exits.
EveryCommitEmits == stage = "exited" /\ ~late => store \subseteq emitted

\* Every submitted job finishes, however the others end, unless the process
\* stops first (FairSpec): no slot and no goroutine is lost.
JobsFinish ==
  \A j \in JobIds : at[j] = "submitting" ~> (at[j] = "ended" \/ ~Alive)

\* "Shutdown gracefully shuts down the server" and gives "in-flight async jobs
\* [...] a few seconds to commit their write-back" (server.go:2033-2038): it
\* never brings the process down itself.
GracefulShutdown == ~panicked
=============================================================================
