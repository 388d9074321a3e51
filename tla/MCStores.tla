------------------------------ MODULE MCStores ------------------------------
(* Four stores that promise all or nothing: the directory tree a changeset  *)
(* is applied to, a folder with its index, the refresh tokens, and the      *)
(* provenance history.  They share no state, so the run explores them one   *)
(* at a time: store is the one that moves, and the others rest where they   *)
(* start.                                                                   *)
EXTENDS MCChangeSet, RefreshTokens, FolderIndex, Provenance, TLC

CONSTANTS login1, login2, req1, req2, writer1, writer2

VARIABLE store

\* Requests differ in nothing but what they ask, nor do the writers of an index.
StoresSymmetry == Permutations(Callers) \cup Permutations(IndexWriters)
storesVars == <<store, vars, tokenVars, folderVars, historyVars>>

\* Journals an older server may have left: none, one in which a file goes
\* while another comes, and one that writes a file twice.
Wrote(p) == Leaf("write", p)
MCLegacy == {<<>>, <<<<Wrote("a")>>, <<Wrote("b"), Leaf("remove", "a")>>>>,
             <<<<Wrote("a")>>, <<Wrote("a"), Wrote("b")>>>>}

\* Bound: the last commit a history may have comes where nothing has failed
\* and nobody is reading pages.
LastCommitIsQuiet ==
  store = "history" /\ Len(commits) = MaxCommits => losses + restarts = 0 /\ page = NoPage

\* The tree, the folder and the history where they rest while something else moves.
TreeAtRest == Init /\ tree = [p \in Paths |-> IF p \in DocsetRoots THEN Dir ELSE Absent]
FolderAtRest == FolderInit /\ documents = NoEntries /\ index = NoIndex
HistoryAtRest == HistoryInit /\ commits = <<>>

StoresInit ==
  /\ store \in {"tree", "tokens", "folder", "history"}
  /\ RefreshInit
  /\ IF store = "tree" THEN Init /\ RootsExist ELSE TreeAtRest
  /\ IF store = "folder" THEN FolderInit ELSE FolderAtRest
  /\ IF store = "history" THEN HistoryInit ELSE HistoryAtRest

StoresNext ==
  /\ UNCHANGED store
  /\ \/ store = "tree" /\ Next /\ UNCHANGED <<tokenVars, folderVars, historyVars>>
     \/ store = "tokens" /\ RefreshNext /\ UNCHANGED <<vars, folderVars, historyVars>>
     \/ store = "folder" /\ FolderNext /\ UNCHANGED <<vars, tokenVars, historyVars>>
     \/ store = "history" /\ HistoryNext /\ UNCHANGED <<vars, tokenVars, folderVars>>

StoresSpec == StoresInit /\ [][StoresNext]_storesVars
=============================================================================
