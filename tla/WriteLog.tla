------------------------------ MODULE WriteLog ------------------------------
(***************************************************************************)
(* The ordered write log (pkg/openlore/writelog.go): callers hand          *)
(* changesets (Submit) and tasks (Do) to a bounded channel; one applier    *)
(* goroutine applies them in order and answers each caller; Close drains   *)
(* the channel and stops the applier; SetPostCommit replaces a hook while  *)
(* the log runs.  All of them meet at one RWMutex: callers hold it for     *)
(* reading across the channel send, Close and the setters take it for      *)
(* writing, the applier takes it for reading whenever it looks up a hook.  *)
(*                                                                         *)
(* What an entry writes is abstracted: applying it succeeds or is refused  *)
(* (policy, compare-and-swap).  The files behind that are in ChangeSet.    *)
(***************************************************************************)
EXTENDS Naturals, Sequences, FiniteSets, RWMutex

CONSTANTS
  Clients,      \* goroutines that call Submit and Do
  Setters,      \* goroutines that call SetPostCommit
  Closers,      \* goroutines that call Close
  Applier,      \* the applier goroutine
  Buffer,       \* capacity of the channel
  Kinds,        \* what the clients submit: "change" (Submit), "task" (Do)
  MaxCalls,     \* bound: calls a client makes
  MaxCancels,   \* bound: caller contexts that are done at a time
  MaxFaults,    \* bound: appends of the recorders that fail
  MaxCrashes    \* bound: crashes of the process

Writers == Setters \cup Closers
Procs == Clients \cup Writers \cup {Applier}

ASSUME ProcsAssumption ==
  /\ NoOne \notin Procs
  /\ Clients \cap Writers = {} /\ Setters \cap Closers = {}
  /\ Applier \notin Clients \cup Writers
ASSUME BoundsAssumption ==
  /\ Buffer \in Nat \ {0} /\ Kinds \subseteq {"change", "task"}
  /\ MaxCalls \in Nat /\ MaxCancels \in Nat
  /\ MaxFaults \in Nat /\ MaxCrashes \in Nat

Entries == [client : Clients, call : 1..MaxCalls, kind : Kinds]
ASSUME EntriesAssumption == NoOne \notin Entries

VARIABLES
  mu,         \* l.mu
  closed,     \* l.closed; the channel is closed in the same critical section
  ch,         \* l.ch, oldest entry first
  postCommit, \* l.postCommit: the setter that installed it, NoOne at first
  pc,         \* where each client is
  calls,      \* calls made so far by each client
  cancelled,  \* whether the context of the client's current call is done
  got,        \* what the client's latest call returned
  apc,        \* where the applier is
  cur,        \* the entry the applier works on, NoOne between entries
  outcome,    \* the reply the applier is preparing
  replies,    \* the reply channels that hold an answer: <<entry, answer>>
  wpc,        \* where each setter and closer is
  store,      \* entries applied to the substrate, in order (durable)
  journal,    \* entries in the commit journal (durable)
  history,    \* entries in the provenance history (durable)
  unrecorded, \* commits whose journal or history append failed or was cut off
  posted,     \* the post-commit chain's runs: <<entry, handler>>
  accepted,   \* entries put on the channel since the process started
  crashes     \* crashes so far

logVars     == <<mu, closed, ch, postCommit>>
clientVars  == <<pc, calls, cancelled, got>>
applierVars == <<apc, cur, outcome, replies>>
diskVars    == <<store, journal, history, unrecorded>>
auxVars     == <<posted, accepted, crashes>>
vars == <<logVars, clientVars, applierVars, wpc, diskVars, auxVars>>

Elements(s) == {s[i] : i \in 1..Len(s)}
Answered == {r[1] : r \in replies}
Entry(c, k) == [client |-> c, call |-> calls[c], kind |-> k]
Enqueued(c) == {e \in Elements(accepted) : e.client = c /\ e.call = calls[c]}
-----------------------------------------------------------------------------
(* Submit and Do *)

\* A call starts by taking the lock for reading; it may queue behind a writer.
Call(c) ==
  /\ pc[c] = "idle" /\ calls[c] < MaxCalls
  /\ mu' = RLock(mu, c)
  /\ pc' = [pc EXCEPT ![c] = "check"]
  /\ calls' = [calls EXCEPT ![c] = @ + 1]
  /\ cancelled' = [cancelled EXCEPT ![c] = FALSE]
  /\ got' = [got EXCEPT ![c] = "none"]
  /\ UNCHANGED <<closed, ch, postCommit, applierVars, wpc, diskVars, auxVars>>

Return(c, answer) ==
  /\ got' = [got EXCEPT ![c] = answer]
  /\ pc' = [pc EXCEPT ![c] = "idle"]
  /\ UNCHANGED <<calls, cancelled>>

\* Mutant: the refusal forgets to release the lock.
RefuseLeakingLock(c) ==
  /\ pc[c] = "check" /\ c \in mu.readers /\ closed
  /\ Return(c, "closed")
  /\ UNCHANGED <<mu, closed, ch, postCommit, applierVars, wpc, diskVars, auxVars>>

\* Inside the lock: a closed log refuses the call.
Refuse(c) ==
  /\ pc[c] = "check" /\ c \in mu.readers /\ closed
  /\ mu' = RUnlock(mu, c)
  /\ Return(c, "closed")
  /\ UNCHANGED <<closed, ch, postCommit, applierVars, wpc, diskVars, auxVars>>

\* Mutant: the lock covers the check only.
AdmitUnlocked(c) ==
  /\ pc[c] = "check" /\ c \in mu.readers /\ ~closed
  /\ pc' = [pc EXCEPT ![c] = "sending"] /\ mu' = RUnlock(mu, c)
  /\ UNCHANGED <<closed, ch, postCommit, calls, cancelled, got, applierVars, wpc, diskVars,
                 auxVars>>

\* An open one lets it go on to the send, with the lock still held.
Admit(c) ==
  /\ pc[c] = "check" /\ c \in mu.readers /\ ~closed
  /\ pc' = [pc EXCEPT ![c] = "sending"]
  /\ UNCHANGED <<logVars, calls, cancelled, got, applierVars, wpc, diskVars, auxVars>>

\* Mutant: the channel is unbounded.
SendUnbounded(c) ==
  /\ pc[c] = "sending"
  /\ \E k \in Kinds :
       ch' = Append(ch, Entry(c, k)) /\ accepted' = Append(accepted, Entry(c, k))
  /\ mu' = RUnlock(mu, c)
  /\ pc' = [pc EXCEPT ![c] = "await"]
  /\ UNCHANGED <<closed, postCommit, calls, cancelled, got, applierVars, wpc,
                 diskVars, posted, crashes>>

\* The send needs room on the channel.  The lock is released after it.
Send(c) ==
  /\ pc[c] = "sending" /\ Len(ch) < Buffer
  /\ \E k \in Kinds :
       /\ ch' = Append(ch, Entry(c, k))
       /\ accepted' = Append(accepted, Entry(c, k))
  /\ mu' = RUnlock(mu, c)
  /\ pc' = [pc EXCEPT ![c] = "await"]
  /\ UNCHANGED <<closed, postCommit, calls, cancelled, got, applierVars, wpc,
                 diskVars, posted, crashes>>

\* Both selects also wait for the caller's context.
GiveUpSending(c) ==
  /\ pc[c] = "sending" /\ cancelled[c]
  /\ mu' = RUnlock(mu, c)
  /\ Return(c, "ctx")
  /\ UNCHANGED <<closed, ch, postCommit, applierVars, wpc, diskVars, auxVars>>

GiveUpWaiting(c) ==
  /\ pc[c] = "await" /\ cancelled[c]
  /\ Return(c, "ctx")
  /\ UNCHANGED <<logVars, applierVars, wpc, diskVars, auxVars>>

Receive(c) ==
  /\ pc[c] = "await"
  /\ \E r \in replies : r[1] \in Enqueued(c) /\ Return(c, r[2])
  /\ UNCHANGED <<logVars, applierVars, wpc, diskVars, auxVars>>

\* The environment cancels the context of a call under way.
Cancel(c) ==
  /\ pc[c] # "idle" /\ ~cancelled[c]
  /\ Cardinality({d \in Clients : cancelled[d]}) < MaxCancels
  /\ cancelled' = [cancelled EXCEPT ![c] = TRUE]
  /\ UNCHANGED <<logVars, pc, calls, got, applierVars, wpc, diskVars, auxVars>>

ClientStep(c) ==
  Call(c) \/ Refuse(c) \/ Admit(c) \/ Send(c) \/ GiveUpSending(c)
    \/ GiveUpWaiting(c) \/ Receive(c)
-----------------------------------------------------------------------------
(* The applier *)

\* The applier looks a hook up under the lock and uses it after the unlock.
PassLock ==
  \/ Applier \notin mu.readers /\ mu.writer = NoOne /\ UNCHANGED mu
  \/ Applier \in mu.readers /\ mu' = RUnlock(mu, Applier)

\* A writer announced itself first: the applier queues behind it.
QueueForLock ==
  /\ apc \in {"apply", "state", "history", "post"}
  /\ mu.writer # NoOne /\ Applier \notin mu.readers \cup mu.queued
  /\ mu' = RLock(mu, Applier)
  /\ UNCHANGED <<closed, ch, postCommit, clientVars, applierVars, wpc, diskVars, auxVars>>

Take ==
  /\ apc = "recv" /\ ch # <<>>
  /\ cur' = Head(ch) /\ ch' = Tail(ch)
  /\ apc' = IF Head(ch).kind = "task" THEN "task" ELSE "apply"
  /\ UNCHANGED <<mu, closed, postCommit, clientVars, outcome, replies, wpc, diskVars, auxVars>>

\* The loop goes round: what it held of the entry is out of scope.
NextEntry == apc' = "recv" /\ cur' = NoOne /\ outcome' = "none"

\* A task runs and is answered; it changes server state or fails.
RunTask ==
  /\ apc = "task"
  /\ \/ store' = Append(store, cur) /\ replies' = replies \cup {<<cur, "ok">>}
     \/ store' = store /\ replies' = replies \cup {<<cur, "err">>}
  /\ NextEntry
  /\ UNCHANGED <<logVars, clientVars, wpc, journal, history, unrecorded, auxVars>>

\* Mutant: the error of a refused change is dropped.
ApplyDroppingError ==
  /\ apc = "apply" /\ PassLock
  /\ outcome' = "ok"
  /\ \/ store' = Append(store, cur) /\ apc' = "state"
     \/ store' = store /\ apc' = "reply"
  /\ UNCHANGED <<closed, ch, postCommit, clientVars, cur, replies, wpc, journal, history,
                 unrecorded, auxVars>>

\* Preflight, the pre-apply hook and CommitChangeSet: refused, or durable.
Apply ==
  /\ apc = "apply" /\ PassLock
  /\ \/ store' = Append(store, cur) /\ outcome' = "ok" /\ apc' = "state"
     \/ store' = store /\ outcome' = "err" /\ apc' = "reply"
  /\ UNCHANGED <<closed, ch, postCommit, clientVars, cur, replies, wpc, journal, history,
                 unrecorded, auxVars>>

\* Mutant: the caller is answered before the change is recorded.
CommitStateThenReply ==
  /\ apc = "state" /\ PassLock
  /\ outcome' \in {"ok", "err"}
  /\ apc' = "reply"
  /\ UNCHANGED <<closed, ch, postCommit, clientVars, cur, replies, wpc, diskVars, auxVars>>

\* The commit-state hook can fail after the write is durable.
CommitState ==
  /\ apc = "state" /\ PassLock
  /\ outcome' \in {"ok", "err"}
  /\ apc' = "journal"
  /\ UNCHANGED <<closed, ch, postCommit, clientVars, cur, replies, wpc, diskVars, auxVars>>

\* Failures of the two recorders are logged and dropped.
Fault == Cardinality(unrecorded) < MaxFaults /\ unrecorded' = unrecorded \cup {cur}

\* Mutant: the journal is written by goroutines that race.
AppendJournalRacing ==
  /\ apc = "journal"
  /\ \E e \in Elements(store) : journal' = Append(journal, e)
  /\ apc' = "history"
  /\ UNCHANGED <<logVars, clientVars, cur, outcome, replies, wpc, store, history, unrecorded,
                 auxVars>>

AppendJournal ==
  /\ apc = "journal"
  /\ \/ journal' = Append(journal, cur) /\ UNCHANGED unrecorded
     \/ Fault /\ UNCHANGED journal
  /\ apc' = "history"
  /\ UNCHANGED <<logVars, clientVars, cur, outcome, replies, wpc, store, history, auxVars>>

RecordHistory ==
  /\ apc = "history" /\ PassLock
  /\ \/ history' = Append(history, cur) /\ UNCHANGED unrecorded
     \/ Fault /\ UNCHANGED history
  /\ apc' = "reply"
  /\ UNCHANGED <<closed, ch, postCommit, clientVars, cur, outcome, replies, wpc, store, journal,
                 auxVars>>

\* Mutant: the post-commit chain is left to a goroutine of its own.
ReplyAndDetach ==
  /\ apc = "reply"
  /\ replies' = replies \cup {<<cur, outcome>>}
  /\ NextEntry
  /\ UNCHANGED <<logVars, clientVars, wpc, diskVars, auxVars>>

Reply ==
  /\ apc = "reply"
  /\ replies' = replies \cup {<<cur, outcome>>}
  /\ IF cur \in Elements(store) THEN apc' = "post" /\ UNCHANGED <<cur, outcome>>
                                ELSE NextEntry
  /\ UNCHANGED <<logVars, clientVars, wpc, diskVars, auxVars>>

PostCommit ==
  /\ apc = "post" /\ PassLock
  /\ posted' = Append(posted, <<cur, postCommit>>)
  /\ NextEntry
  /\ UNCHANGED <<closed, ch, postCommit, clientVars, replies, wpc, diskVars, accepted, crashes>>

\* The range over the channel ends once it is closed and empty.
Exit ==
  /\ apc = "recv" /\ closed /\ ch = <<>>
  /\ apc' = "exited"
  /\ UNCHANGED <<logVars, clientVars, cur, outcome, replies, wpc, diskVars, auxVars>>

ApplierStep ==
  QueueForLock \/ Take \/ RunTask \/ Apply \/ CommitState \/ AppendJournal
    \/ RecordHistory \/ Reply \/ PostCommit \/ Exit
-----------------------------------------------------------------------------
(* Setters and Close *)

Lock(w) ==
  /\ wpc[w] = "idle" /\ CanAnnounce(mu)
  /\ mu' = Announce(mu, w)
  /\ wpc' = [wpc EXCEPT ![w] = "locking"]
  /\ UNCHANGED <<closed, ch, postCommit, clientVars, applierVars, diskVars, auxVars>>

SetPostCommit(w) ==
  /\ wpc[w] = "locking" /\ CanEnter(mu, w)
  /\ postCommit' = w
  /\ mu' = Unlock(mu)
  /\ wpc' = [wpc EXCEPT ![w] = "done"]
  /\ UNCHANGED <<closed, ch, clientVars, applierVars, diskVars, auxVars>>

\* The first Close closes the channel and waits with its context, a later one
\* waits without.
Close(w) ==
  /\ wpc[w] = "locking" /\ CanEnter(mu, w)
  /\ closed' = TRUE
  /\ mu' = Unlock(mu)
  /\ wpc' = [wpc EXCEPT ![w] = IF closed THEN "joining" ELSE "draining"]
  /\ UNCHANGED <<ch, postCommit, clientVars, applierVars, diskVars, auxVars>>

CloseReturns(w) ==
  /\ wpc[w] \in {"draining", "joining"} /\ apc = "exited"
  /\ wpc' = [wpc EXCEPT ![w] = "done"]
  /\ UNCHANGED <<logVars, clientVars, applierVars, diskVars, auxVars>>

CloseTimesOut(w) ==
  /\ wpc[w] = "draining"
  /\ wpc' = [wpc EXCEPT ![w] = "timedout"]
  /\ UNCHANGED <<logVars, clientVars, applierVars, diskVars, auxVars>>

WriterStep(w) ==
  \/ Lock(w)
  \/ w \in Setters /\ SetPostCommit(w)
  \/ w \in Closers /\ (Close(w) \/ CloseReturns(w) \/ CloseTimesOut(w))
-----------------------------------------------------------------------------
(* Crash and restart: the log is in memory, the substrate is not.          *)

CutOff == {e \in Elements(store) :
             e.kind = "change" /\ ~(e \in Elements(journal) /\ e \in Elements(history))}

Crash ==
  /\ crashes < MaxCrashes
  /\ crashes' = crashes + 1
  /\ mu' = Unlocked /\ closed' = FALSE /\ ch' = <<>> /\ postCommit' = NoOne
  /\ apc' = "recv" /\ cur' = NoOne /\ outcome' = "none" /\ replies' = {}
  /\ wpc' = [w \in Writers |-> "idle"]
  /\ posted' = <<>> /\ accepted' = <<>>
  /\ cancelled' = [c \in Clients |-> FALSE]
  /\ pc' = [c \in Clients |-> "idle"]
  /\ got' = [c \in Clients |-> IF pc[c] = "idle" THEN got[c] ELSE "lost"]
  /\ unrecorded' = unrecorded \cup CutOff
  /\ UNCHANGED <<calls, store, journal, history>>

Init ==
  /\ mu = Unlocked /\ closed = FALSE /\ ch = <<>> /\ postCommit = NoOne
  /\ apc = "recv" /\ cur = NoOne /\ outcome = "none" /\ replies = {}
  /\ wpc = [w \in Writers |-> "idle"]
  /\ posted = <<>> /\ accepted = <<>>
  /\ cancelled = [c \in Clients |-> FALSE]
  /\ pc = [c \in Clients |-> "idle"]
  /\ calls = [c \in Clients |-> 0] /\ got = [c \in Clients |-> "none"]
  /\ store = <<>> /\ journal = <<>> /\ history = <<>> /\ unrecorded = {}
  /\ crashes = 0

Next ==
  \/ \E c \in Clients : ClientStep(c) \/ Cancel(c)
  \/ ApplierStep
  \/ \E w \in Writers : WriterStep(w)
  \/ Crash

Spec == Init /\ [][Next]_vars

\* Goroutines that can run do run; deadlines expire.  Callers need not call.
Fairness ==
  /\ \A c \in Clients : WF_vars(Refuse(c) \/ Admit(c) \/ Send(c) \/ GiveUpSending(c)
                                \/ GiveUpWaiting(c) \/ Receive(c))
  /\ WF_vars(ApplierStep)
  /\ \A w \in Writers : WF_vars(WriterStep(w))

FairSpec == Spec /\ Fairness
-----------------------------------------------------------------------------
TypeOK ==
  /\ mu \in Locks(Procs) /\ closed \in BOOLEAN /\ ch \in Seq(Entries)
  /\ Len(ch) <= Buffer
  /\ postCommit \in Setters \cup {NoOne}
  /\ pc \in [Clients -> {"idle", "check", "sending", "await"}]
  /\ calls \in [Clients -> 0..MaxCalls] /\ cancelled \in [Clients -> BOOLEAN]
  /\ got \in [Clients -> {"none", "ok", "err", "closed", "ctx", "lost"}]
  /\ apc \in {"recv", "task", "apply", "state", "journal", "history", "reply", "post",
              "exited"}
  /\ cur \in Entries \cup {NoOne} /\ outcome \in {"none", "ok", "err"}
  /\ cur = NoOne <=> apc \in {"recv", "exited"}
  /\ replies \subseteq Entries \X {"ok", "err"}
  /\ wpc \in [Writers -> {"idle", "locking", "draining", "joining", "done", "timedout"}]
  /\ store \in Seq(Entries) /\ journal \in Seq(Entries) /\ history \in Seq(Entries)
  /\ unrecorded \subseteq Entries
  /\ posted \in Seq(Entries \X (Setters \cup {NoOne})) /\ accepted \in Seq(Entries)
  /\ crashes \in 0..MaxCrashes

\* A caller inside the send holds the lock, so Close cannot have closed the
\* channel under it: a send on a closed channel panics (writelog.go:253-258).
NoSendOnClosedChannel ==
  \A c \in Clients : pc[c] = "sending" => c \in mu.readers /\ ~closed

\* "Nothing is accepted until it is applied and durable": an ok answer, also
\* one already returned, is about a change that is in the substrate, that both
\* recorders were given before the answer (writelog.go:46-51, 133-165).
AckedIsDurable ==
  \A r \in replies : r[2] = "ok" =>
    /\ r[1] \in Elements(store)
    /\ r[1].kind = "change" =>
         \/ r[1] \in unrecorded
         \/ r[1] \in Elements(journal) /\ r[1] \in Elements(history)

\* The order of the records is the order of the commits, also across restarts:
\* whatever two entries a recorder holds, the substrate has in the same order.
SameOrder(s, t) ==
  \A i, j \in 1..Len(s) : i < j =>
    \E k, l \in 1..Len(t) : k < l /\ s[i] = t[k] /\ s[j] = t[l]
RecordsFollowCommits ==
  SameOrder(journal, store) /\ SameOrder(history, store)
    /\ SameOrder([i \in 1..Len(posted) |-> posted[i][1]], store)

\* A call refused with ErrLogClosed left no trace and never will: its entry is
\* neither queued nor applied, so the caller may submit it elsewhere.
RefusedLeavesNoTrace ==
  \A c \in Clients : got[c] = "closed" =>
    \A e \in Elements(accepted) \cup Elements(store) :
      ~(e.client = c /\ e.call = calls[c])

\* The graceful drain: when the applier has exited, and so when a Close
\* returned without its deadline, every entry that was ever put on the channel
\* has its answer and every committed change ran the post-commit chain
\* (writelog.go:371-373).
DrainedOnExit ==
  (apc = "exited" \/ \E w \in Closers : wpc[w] = "done") =>
    /\ Elements(accepted) \subseteq Answered
    /\ \A e \in Elements(accepted) \cap Elements(store) :
         e.kind = "change" => \E i \in 1..Len(posted) : posted[i][1] = e

\* A lost, cancelled or failed call may or may not have been applied, but a
\* call that was never put on the channel is never applied, and an entry is
\* applied at most once.
AppliedAtMostOnce ==
  \A i, j \in 1..Len(store) : i # j => store[i] # store[j]

\* The answers wait for the post-commit chain of earlier entries: no change is
\* answered while the chain of an earlier one has not run (writelog.go:92-96).
PostCommitInOrder ==
  \A i, j \in 1..Len(accepted) :
    (/\ i < j /\ accepted[j] \in Answered
     /\ accepted[i].kind = "change" /\ accepted[i] \in Elements(store))
      => \E n \in 1..Len(posted) : posted[n][1] = accepted[i]

\* What callers are told is what happened: an ok is durable and recorded, a
\* refusal left nothing behind, and no entry is applied twice, whichever calls
\* were given up, failed in a hook or met a crash.
AnswersAreTrue == AckedIsDurable /\ RefusedLeavesNoTrace /\ AppliedAtMostOnce

\* Each accepted entry is answered and each commit passes the post-commit
\* chain: before any later entry is answered, and before the applier exits.
CommitsAreFollowed == DrainedOnExit /\ PostCommitInOrder

\* Every call returns: the caller is never left waiting (FairSpec).
CallsReturn == \A c \in Clients : pc[c] # "idle" ~> pc[c] = "idle"

\* Close "lets the applier drain all queued entries [...] and waits for the
\* applier goroutine to exit or ctx to expire" (writelog.go:371-373): it
\* returns, whatever the callers do.
CloseReturnsInTime ==
  \A w \in Closers : wpc[w] = "locking" ~> wpc[w] \in {"done", "timedout", "idle"}

\* Callers and closers return, whatever each of them does to the lock and the
\* channel, as long as no send can block (FairSpec).
EveryoneReturns == CallsReturn /\ CloseReturnsInTime
-----------------------------------------------------------------------------
\* The log implements OrderedLog: an entry leaves the abstract queue when it
\* is applied or refused, and awaits its answer until it is given.
Unapplied == IF apc \in {"task", "apply"} THEN <<cur>> \o ch ELSE ch
Unanswered == IF apc \in {"state", "journal", "history", "reply"} THEN {cur} ELSE {}

Ordered == INSTANCE OrderedLog
             WITH queue <- Unapplied, awaiting <- Unanswered
OrderedSpec == Ordered!Spec
=============================================================================
