----------------------------- MODULE MCJobPool ------------------------------
(* Two jobs and one slot.                                                  *)
EXTENDS JobPool

CONSTANTS j1, j2
=============================================================================
