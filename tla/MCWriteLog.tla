----------------------------- MODULE MCWriteLog -----------------------------
(* Small instances of the write log.                                       *)
EXTENDS WriteLog, TLC

CONSTANTS c1, c2, c3, s1, k1, k2
MCSymmetry == Permutations(Clients) \cup Permutations(Closers)

\* Bound: the first call of a process may be a task, the others are changes.
TasksComeFirst == \A i \in 2..Len(accepted) : accepted[i].kind = "change"
=============================================================================
