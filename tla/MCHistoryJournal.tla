-------------------------- MODULE MCHistoryJournal --------------------------
(* A few records over a few days.  The two cursors share nothing but the   *)
(* files they read and neither looks at the other: it is enough to let one *)
(* of them be inside a call while maintenance goes on.                     *)
EXTENDS HistoryJournal

OneCallAtATime == Collecting => cursor["analytics"].at = "idle"

\* Bound: the last record there may be comes where there is not both a crash
\* and a collection.
LastRecordIsQuiet == Len(stamps) = MaxRecords => crashes + collects <= 1
=============================================================================
