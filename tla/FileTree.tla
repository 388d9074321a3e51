------------------------------ MODULE FileTree ------------------------------
(***************************************************************************)
(* The served directory tree and the mutations DirFS offers on it          *)
(* (pkg/openlore/vfs.go), as pure operators: a tree maps every path to     *)
(* Absent, to Dir or to the content of a file.  A path is the sequence of  *)
(* its names; the serving root <<>> always exists.  The content hash is    *)
(* the content itself (no collisions).                                     *)
(***************************************************************************)
EXTENDS Naturals, Sequences, SequencesExt

CONSTANTS
  Paths,        \* the paths in play: non-empty, closed under non-empty prefixes
  Contents,     \* file contents
  DocsetRoots,  \* declared docset roots
  Absent, Dir   \* no entry; a directory

ASSUME PathsAssumption ==
  /\ \A p \in Paths : /\ p \in Seq(ToSet(p)) /\ Len(p) > 0
                      /\ Len(p) > 1 => Front(p) \in Paths
  /\ DocsetRoots \subseteq Paths
ASSUME ContentsAssumption ==
  Absent \notin Contents /\ Dir \notin Contents /\ Absent # Dir

Trees == [Paths -> Contents \cup {Absent, Dir}]
Above(p) == {q \in Paths : IsStrictPrefix(q, p)}
Within(p) == {q \in Paths : IsPrefix(p, q)}
WellFormed(t) == \A p \in Paths : t[p] # Absent => \A q \in Above(p) : t[q] = Dir

\* insideDocset: strictly below a declared root, and not itself one.
Inside(p) == p \notin DocsetRoots /\ Above(p) \cap DocsetRoots # {}

\* os.MkdirAll creates what is missing, and stops at a file in the way.
NoFileAbove(t, p) == \A q \in Above(p) : t[q] \notin Contents
WithDirs(t, ds) == [q \in Paths |-> IF q \in ds /\ t[q] = Absent THEN Dir ELSE t[q]]

-----------------------------------------------------------------------------
(* WriteFileAtomic.  A precondition is "any" (last write wins), "create"   *)
(* (IfNoneMatch), or the content the target must have (IfMatch).           *)

Meets(t, p, cond) ==
  CASE cond = "any" -> TRUE
    [] cond = "create" -> t[p] = Absent
    [] OTHER -> t[p] = cond

CanWrite(t, p, cond) == Meets(t, p, cond) /\ NoFileAbove(t, p) /\ t[p] # Dir
Write(t, p, v) == [WithDirs(t, Above(p)) EXCEPT ![p] = v]

\* Mkdir: the parent must exist; a declared docset root that is the immediate
\* parent is created on the way.
CanMkdir(t, p) ==
  /\ Inside(p) /\ t[p] = Absent /\ NoFileAbove(t, p)
  /\ Len(p) > 1 => t[Front(p)] = Dir \/ Front(p) \in DocsetRoots
Mkdir(t, p) == WithDirs(t, Above(p) \cup {p})

CanMkdirAll(t, p) ==
  Above(p) \cap DocsetRoots # {} /\ NoFileAbove(t, p) /\ t[p] \notin Contents
MkdirAll(t, p) == WithDirs(t, Above(p) \cup {p})

\* Remove: a file or an empty directory.
CanRemove(t, p) ==
  /\ Inside(p) /\ t[p] # Absent
  /\ \A q \in Within(p) \ {p} : t[q] = Absent

\* RemoveAll: the whole subtree, if it still is the expected one ({} when the
\* caller expects nothing in particular).
Subtree(t, p) == {<<q, t[q]>> : q \in {r \in Within(p) : t[r] # Absent}}
CanRemoveAll(t, p, expected) ==
  /\ Inside(p) /\ t[p] # Absent
  /\ expected # {} => Subtree(t, p) = expected
Without(t, p) == [q \in Paths |-> IF q \in Within(p) THEN Absent ELSE t[q]]
=============================================================================
