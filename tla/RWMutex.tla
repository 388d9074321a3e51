------------------------------ MODULE RWMutex ------------------------------
(***************************************************************************)
(* The writer-preferring lock of Go's sync package, as the write log uses  *)
(* it.  It is pure data: a lock is a record, and each operation maps a     *)
(* lock to the lock after the call.  An announced writer keeps new readers *)
(* out while it waits for the readers already inside; its Unlock admits    *)
(* every reader that queued meanwhile, before the next writer can announce *)
(* itself.                                                                 *)
(***************************************************************************)
CONSTANT NoOne    \* not a process: the lock has no announced writer

\* Readers holding the lock, readers queued behind the writer, and the writer
\* that announced itself.  A writer's critical section is one step.
Locks(Procs) ==
  [readers : SUBSET Procs, queued : SUBSET Procs, writer : Procs \cup {NoOne}]

Unlocked == [readers |-> {}, queued |-> {}, writer |-> NoOne]

\* RLock: the caller is inside at once unless a writer announced itself.
RLock(m, p) ==
  IF m.writer = NoOne THEN [m EXCEPT !.readers = @ \cup {p}]
                      ELSE [m EXCEPT !.queued = @ \cup {p}]

RUnlock(m, p) == [m EXCEPT !.readers = @ \ {p}]

\* Lock, first half: one writer at a time announces itself.
CanAnnounce(m) == m.writer = NoOne
Announce(m, p) == [m EXCEPT !.writer = p]

\* Lock, second half: the announced writer enters once the readers left.
CanEnter(m, p) == m.writer = p /\ m.readers = {}

\* Unlock of the writer inside: the queued readers hold the lock.
Unlock(m) == [readers |-> m.readers \cup m.queued, queued |-> {}, writer |-> NoOne]
=============================================================================
