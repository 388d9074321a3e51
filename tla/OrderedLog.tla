----------------------------- MODULE OrderedLog -----------------------------
(***************************************************************************)
(* What the write log promises (the comment on writeLog,                   *)
(* pkg/openlore/writelog.go): a first-in first-out log whose entries are   *)
(* applied one at a time and atomically, at most once, each answered after *)
(* it was applied or refused.  A crash loses only what was not applied,    *)
(* and the answers.                                                        *)
(***************************************************************************)
EXTENDS Naturals, Sequences

CONSTANT Entries    \* a call of a caller

VARIABLES
  queue,     \* accepted and not yet applied, oldest first
  store,     \* applied, in order
  awaiting,  \* applied or refused, not answered yet
  replies    \* the answers given: <<entry, answer>>
vars == <<queue, store, awaiting, replies>>

Stored == {store[i] : i \in 1..Len(store)}
Known == {queue[i] : i \in 1..Len(queue)} \cup Stored \cup awaiting \cup {r[1] : r \in replies}

Init == queue = <<>> /\ store = <<>> /\ awaiting = {} /\ replies = {}

Accept(e) ==
  /\ e \notin Known
  /\ queue' = Append(queue, e)
  /\ UNCHANGED <<store, awaiting, replies>>

\* The head is applied, or refused without effect.
ApplyHead ==
  /\ queue # <<>> /\ awaiting = {}
  /\ store' \in {store, Append(store, Head(queue))}
  /\ queue' = Tail(queue)
  /\ awaiting' = {Head(queue)}
  /\ UNCHANGED replies

\* An ok answer is only given for an entry that was applied.
Answer(e, a) ==
  /\ e \in awaiting
  /\ a = "ok" => e \in Stored
  /\ awaiting' = awaiting \ {e}
  /\ replies' = replies \cup {<<e, a>>}
  /\ UNCHANGED <<queue, store>>

\* Applying the head and answering it may be one step of the applier.
ApplyAndAnswer(a) ==
  /\ queue # <<>> /\ awaiting = {}
  /\ \/ a = "ok" /\ store' = Append(store, Head(queue))
     \/ a = "err" /\ store' = store
  /\ queue' = Tail(queue)
  /\ replies' = replies \cup {<<Head(queue), a>>}
  /\ UNCHANGED awaiting

Crash ==
  /\ queue' = <<>> /\ awaiting' = {} /\ replies' = {}
  /\ UNCHANGED store

Next ==
  \/ \E e \in Entries : Accept(e)
  \/ ApplyHead
  \/ \E e \in awaiting, a \in {"ok", "err"} : Answer(e, a)
  \/ \E a \in {"ok", "err"} : ApplyAndAnswer(a)
  \/ Crash

Spec == Init /\ [][Next]_vars
=============================================================================
