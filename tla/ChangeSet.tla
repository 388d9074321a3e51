----------------------------- MODULE ChangeSet ------------------------------
(***************************************************************************)
(* CommitChangeSet on a batch (pkg/vfs/changeset.go): snapshot the roots   *)
(* the batch touches, apply the leaves in order, and on a failing leaf     *)
(* remove those roots and rebuild them from the snapshot.  Each leaf, each *)
(* removal and each rebuilt entry is a step of its own: readers see the    *)
(* tree in between, and the process may stop there.                        *)
(***************************************************************************)
EXTENDS FileTree, FiniteSets

CONSTANTS
  Batches,     \* the valid batches: non-empty sequences of leaves
  MaxFaults,   \* bound: I/O errors of single mutations
  MaxCrashes   \* bound: crashes of the process

\* A leaf is [act, path, val, cond, expect]: val and cond are the content and
\* the precondition of a write, expect is the expected subtree of a remove_all.
Acts == {"write", "mkdir", "mkdir_all", "remove", "remove_all"}
ASSUME BatchAssumption ==
  /\ \A b \in Batches :
       /\ Len(b) \in Nat \ {0}
       /\ \A i \in 1..Len(b) : /\ b[i].act \in Acts /\ b[i].path \in Paths /\ Inside(b[i].path)
                               /\ b[i].act = "write" => b[i].val \in Contents
  /\ MaxFaults \in Nat /\ MaxCrashes \in Nat

VARIABLES
  tree,     \* the tree on disk
  before,   \* the tree the batch started from; its part below roots is the snapshot
  batch,    \* the batch
  roots,    \* the roots captureBatch chose
  phase,    \* "start", "apply", "undo", "rebuild", "done"
  todo,     \* leaf number to apply; roots to remove; entries to rebuild
  result,   \* what CommitChangeSet returned
  faults, crashes
vars == <<tree, before, batch, roots, phase, todo, result, faults, crashes>>
bounds == <<faults, crashes>>

-----------------------------------------------------------------------------
(* captureBatch *)

\* Mutant: directories a write creates on its way are forgotten.
TargetOnly(t, p) == p
\* highestMissingRoot: the target if it exists, else the topmost missing path
\* on the way to it.
HighestMissing(t, p) ==
  IF t[p] # Absent THEN p
  ELSE CHOOSE q \in Above(p) \cup {p} :
         /\ t[q] = Absent
         /\ \A r \in Above(q) : t[r] # Absent

CaptureRoots(t, b) ==
  LET touched == {HighestMissing(t, b[i].path) : i \in 1..Len(b)}
  IN {q \in touched : ~\E r \in touched : IsStrictPrefix(r, q)}

Begin(b) ==
  /\ phase = "start"
  /\ batch' = b /\ before' = tree
  /\ roots' = CaptureRoots(tree, b)
  /\ phase' = "apply" /\ todo' = {1}
  /\ UNCHANGED <<tree, result, bounds>>
-----------------------------------------------------------------------------
(* The leaves *)

Accepts(t, l) ==
  CASE l.act = "write"      -> CanWrite(t, l.path, l.cond)
    [] l.act = "mkdir"      -> CanMkdir(t, l.path)
    [] l.act = "mkdir_all"  -> CanMkdirAll(t, l.path)
    [] l.act = "remove"     -> CanRemove(t, l.path)
    [] l.act = "remove_all" -> CanRemoveAll(t, l.path, l.expect)
Effect(t, l) ==
  CASE l.act = "write"     -> Write(t, l.path, l.val)
    [] l.act = "mkdir"     -> Mkdir(t, l.path)
    [] l.act = "mkdir_all" -> MkdirAll(t, l.path)
    [] OTHER               -> Without(t, l.path)

Finish(r) == phase' = "done" /\ todo' = {} /\ result' = r

ApplyLeaf ==
  /\ phase = "apply"
  /\ \E i \in todo :
       /\ Accepts(tree, batch[i])
       /\ tree' = Effect(tree, batch[i])
       /\ IF i = Len(batch) THEN Finish("ok")
                            ELSE todo' = {i + 1} /\ UNCHANGED <<phase, result>>
  /\ UNCHANGED <<before, batch, roots, bounds>>

\* A leaf that fails is the end if it is the first one: nothing to undo.
FailFrom(i) ==
  IF i = 1 THEN Finish("error") ELSE phase' = "undo" /\ todo' = roots /\ UNCHANGED result

RefuseLeaf ==
  /\ phase = "apply"
  /\ \E i \in todo : ~Accepts(tree, batch[i]) /\ FailFrom(i)
  /\ UNCHANGED <<tree, before, batch, roots, bounds>>

\* An I/O error: a write may have created its parent directories by then.
BreakLeaf ==
  /\ phase = "apply" /\ faults < MaxFaults
  /\ faults' = faults + 1
  /\ \E i \in todo :
       /\ Accepts(tree, batch[i])
       /\ \/ tree' = tree
          \/ batch[i].act = "write" /\ tree' = WithDirs(tree, Above(batch[i].path))
       /\ FailFrom(i)
  /\ UNCHANGED <<before, batch, roots, crashes>>
-----------------------------------------------------------------------------
(* restoreBatch *)

Deepest(r) == \A q \in todo : Len(q) <= Len(r)

\* Entries of the snapshot, once every root is gone.
Snapshot == {p \in Paths : before[p] # Absent /\ \E r \in roots : p \in Within(r)}
Proceed(rest) ==
  IF rest # {} THEN todo' = rest /\ UNCHANGED <<phase, result>>
  ELSE IF Snapshot = {} THEN Finish("error")
  ELSE phase' = "rebuild" /\ todo' = Snapshot /\ UNCHANGED result

\* RemoveAll and Remove refuse a docset root; then restoreBatch gives up.
RemoveRoot(r) ==
  /\ IF tree[r] = Absent THEN Proceed(todo \ {r}) /\ UNCHANGED tree
     ELSE IF Inside(r) THEN tree' = Without(tree, r) /\ Proceed(todo \ {r})
     ELSE Finish("rollback_error") /\ UNCHANGED tree
  /\ UNCHANGED <<before, batch, roots, bounds>>

Undo == phase = "undo" /\ \E r \in todo : Deepest(r) /\ RemoveRoot(r)

AfterRebuild(p) ==
  IF todo = {p} THEN Finish("error") ELSE todo' = todo \ {p} /\ UNCHANGED <<phase, result>>

RebuildEntry(p) ==
  /\ tree' = IF before[p] = Dir THEN MkdirAll(tree, p) ELSE Write(tree, p, before[p])
  /\ AfterRebuild(p)
  /\ UNCHANGED <<before, batch, roots, bounds>>

Rebuild == phase = "rebuild" /\ \E p \in todo : Above(p) \cap todo = {} /\ RebuildEntry(p)

BreakRestore ==
  /\ phase \in {"undo", "rebuild"} /\ faults < MaxFaults
  /\ faults' = faults + 1
  /\ Finish("rollback_error")
  /\ UNCHANGED <<tree, before, batch, roots, crashes>>

Crash ==
  /\ phase \in {"apply", "undo", "rebuild"} /\ crashes < MaxCrashes
  /\ crashes' = crashes + 1
  /\ Finish("crashed")
  /\ UNCHANGED <<tree, before, batch, roots, faults>>
-----------------------------------------------------------------------------
Init ==
  /\ tree \in {t \in Trees : WellFormed(t)}
  /\ before = tree /\ batch = <<>> /\ roots = {}
  /\ phase = "start" /\ todo = {} /\ result = "none"
  /\ faults = 0 /\ crashes = 0

Next ==
  \/ \E b \in Batches : Begin(b)
  \/ ApplyLeaf \/ RefuseLeaf \/ BreakLeaf
  \/ Undo \/ Rebuild \/ BreakRestore
  \/ Crash

Spec == Init /\ [][Next]_vars

\* The declared docset roots are on disk.
RootsExist == \A r \in DocsetRoots : tree[r] = Dir
RootedSpec == Init /\ RootsExist /\ [][Next]_vars
-----------------------------------------------------------------------------
\* The tree stays a tree: what exists lies in a directory.
TypeOK ==
  /\ tree \in Trees /\ before \in Trees /\ WellFormed(tree) /\ WellFormed(before)
  /\ roots \subseteq Paths /\ faults \in 0..MaxFaults /\ crashes \in 0..MaxCrashes
  /\ phase \in {"start", "apply", "undo", "rebuild", "done"}
  /\ result \in {"none", "ok", "error", "rollback_error", "crashed"}

\* Paths a leaf of the batch names, or has to create on the way to its target.
Targets == {batch[i].path : i \in 1..Len(batch)}
Created(p) == before[p] = Absent /\ \E q \in Targets : p \in Above(q)

\* "If any leaf fails, prior leaves are rolled back before the error is
\* returned" (changeset.go:288-289): the tree is the one before the batch.
\* Parents a first leaf created before its own I/O error may stay.
ErrorMeansUndone ==
  result = "error" => \A p \in Paths :
    tree[p] = before[p] \/ (faults > 0 /\ Created(p) /\ tree[p] = Dir)

\* Whatever happens, also in the middle of a rollback or after a crash, a path
\* outside the targets' subtrees keeps its entry or gets a missing directory:
\* the rollback never reaches a neighbour of what the batch touched.
NeighboursUntouched ==
  \A p \in Paths : (\A q \in Targets : p \notin Within(q)) =>
    tree[p] = before[p] \/ (Created(p) /\ tree[p] = Dir)

\* A file is never half of one thing and half of another: at every moment it
\* has its old content or the content some leaf gives to that very path.
OldOrNewContent ==
  \A p \in Paths : tree[p] \in Contents =>
    \/ tree[p] = before[p]
    \/ \E i \in 1..Len(batch) :
         batch[i].act = "write" /\ batch[i].path = p /\ batch[i].val = tree[p]

\* A rollback fails only on an I/O error.
RollbackFailsOnlyOnFault == result = "rollback_error" => faults > 0

\* All or nothing: a batch that fails is undone, and its undoing succeeds in
\* every tree unless the disk fails it.  At every moment, also in a rollback and
\* after a crash, nothing but the targets changes, and no file has a content
\* nobody gave it.
AllOrNothing ==
  TypeOK /\ ErrorMeansUndone /\ RollbackFailsOnlyOnFault /\ NeighboursUntouched /\ OldOrNewContent

\* "One rollback-protected batch [...] A stale source cannot be removed, and a
\* rejected or held batch does not leave a destination copy behind"
\* (docs/reference/write-system.md:195-199): with no I/O error and no crash, a
\* batch that fails leaves the tree as it was.
FailureMeansUndone ==
  phase = "done" /\ result \in {"error", "rollback_error"} /\ faults = 0 => tree = before
=============================================================================
