----------------------------- MODULE FolderIndex -----------------------------
(***************************************************************************)
(* Folder indexes: admission expands a change set by the index it makes    *)
(* stale (folderIndexAdmission), the log's applier checks the projection   *)
(* again before it applies (validateFolderIndexes), and in between lie the *)
(* other writers, the approval of held changes, and edits of the directory *)
(* that do not go through the server.                                      *)
(*                                                                         *)
(* One folder.  A document is the title its entry shows; an index is its   *)
(* marker pair, the prose around it and the entries between the markers.   *)
(***************************************************************************)
EXTENDS Naturals

CONSTANTS
  Documents, Titles,   \* numbers: the names sort
  Proses,          \* what the text outside of the markers can be
  IndexWriters,
  MaxRequests,     \* bound on the requests
  MaxEdits         \* bound on the edits made beside the server

Nobody == "nobody"
ASSUME FolderAssumption == Proses # {} /\ Nobody \notin IndexWriters

Missing == 0
NoEntries == [d \in Documents |-> Missing]
Index(kind, prose, entries) == [kind |-> kind, prose |-> prose, entries |-> entries]
AnyProse == CHOOSE p \in Proses : TRUE
NoIndex == Index("none", AnyProse, NoEntries)      \* the file is not there
Broken == Index("broken", AnyProse, NoEntries)     \* markers that are no pair
Unconditional == Index("any", AnyProse, NoEntries) \* no precondition
Untouched == Index("untouched", AnyProse, NoEntries)
Plain(prose) == Index("plain", prose, NoEntries)   \* no markers
Listed(prose, entries) == Index("listed", prose, entries)
Enabled(index) == index.kind = "listed"

\* A change set on the folder: documents written, those removed, the index
\* leaf with its precondition, a generated index leaf after it (a move onto
\* the index keeps the moved bytes in a leaf of their own), and whether the
\* folder is removed as a whole first.  own: the caller wrote the index.
NoChange == [wipe |-> FALSE, write |-> NoEntries, remove |-> {}, index |-> Untouched,
             pre |-> Unconditional, generated |-> Untouched, moved |-> FALSE, own |-> FALSE]

VARIABLES
  documents, index,  \* the folder
  writer,     \* per writer: its step, change set, and what admission has read
  applying,   \* the writer whose change set the applier has validated
  disturbed,  \* writers during whose request the folder has changed
  drifted,    \* the folder was edited since a commit that checked it: "yes", "no",
              \* or "repairing" when a change set has been validated since
  requests, edits
folderVars == <<documents, index, writer, applying, disturbed, drifted, requests, edits>>

Resting == [at |-> "resting", cs |-> NoChange, base |-> NoIndex, names |-> {}, seen |-> NoEntries]

\* What a caller asks for: a document, the index, or both in one batch.
Writing(d, t) == [NoChange EXCEPT !.write[d] = t]
Removing(d) == [NoChange EXCEPT !.remove = {d}]
WithIndex(cs, i) == [cs EXCEPT !.index = i, !.own = TRUE]
Over(pre, cs) == [cs EXCEPT !.pre = pre, !.moved = pre = Unconditional]
NewList == Listed(AnyProse, NoEntries)
DocumentOps ==
  {Writing(d, t) : d \in Documents, t \in Titles}
    \cup {Removing(d) : d \in {e \in Documents : documents[e] # Missing}}
IndexTexts == {Listed(p, NoEntries) : p \in Proses} \cup {Plain(AnyProse), Broken}
Requests ==
  DocumentOps
    \cup {WithIndex(NoChange, i) : i \in IndexTexts}
    \cup {Over(pre, WithIndex(NoChange, NewList)) : pre \in {Unconditional, index}}
    \cup {WithIndex(op, NewList) : op \in DocumentOps}
    \cup (IF index = NoIndex THEN {} ELSE {WithIndex(NoChange, NoIndex)})
    \cup {[NoChange EXCEPT !.wipe = TRUE]}
-----------------------------------------------------------------------------
(* expandFolderIndexes *)

\* The index once the caller's own leaves have been applied to base.
IndexAfter(cs, base) ==
  IF cs.generated # Untouched THEN cs.generated
  ELSE IF cs.index # Untouched THEN cs.index
  ELSE IF cs.wipe THEN NoIndex ELSE base

\* The documents once they have been applied to those read.
After(cs, seen) ==
  [d \in Documents |-> IF cs.write[d] # Missing THEN cs.write[d]
                       ELSE IF d \in cs.remove \/ cs.wipe THEN Missing ELSE seen[d]]

Generate(i, entries) == [i EXCEPT !.entries = entries]

\* The change set with the projection of an enabled index.  An explicit index
\* write without a precondition gets the base that was read as one; a write
\* that is not needed is left out.
Expand(cs, base, seen) ==
  LET i == IndexAfter(cs, base)
      final == Generate(i, After(cs, seen))
      narrowed == IF cs.pre = Unconditional THEN [cs EXCEPT !.pre = base] ELSE cs
  IN  IF cs.index # Untouched
      THEN IF ~cs.moved THEN [narrowed EXCEPT !.index = final]
           ELSE IF i = final THEN narrowed ELSE [narrowed EXCEPT !.generated = final]
      ELSE IF i = final THEN cs
      ELSE [cs EXCEPT !.index = final, !.pre = base]
-----------------------------------------------------------------------------
(* folderIndexAdmission *)

Leave(w) == writer' = [writer EXCEPT ![w] = Resting] /\ disturbed' = disturbed \ {w}

Propose(w, cs) ==
  /\ writer[w].at = "resting" /\ requests < MaxRequests
  /\ requests' = requests + 1
  /\ writer' = [writer EXCEPT ![w] = [Resting EXCEPT !.at = "index", !.cs = cs]]
  /\ disturbed' = disturbed \ {w}
  /\ UNCHANGED <<documents, index, applying, drifted, edits>>

\* ReadFile of the index: broken markers fail the request, and without a
\* pair there is nothing to expand.
ReadIndex(w) ==
  LET i == IndexAfter(writer[w].cs, index)
  IN  /\ writer[w].at = "index"
      /\ IF i.kind = "broken" THEN Leave(w)
         ELSE /\ writer' = [writer EXCEPT ![w].base = index,
                             ![w].at = IF Enabled(i) THEN "listing" ELSE "admitted"]
              /\ UNCHANGED disturbed
      /\ UNCHANGED <<documents, index, applying, drifted, requests, edits>>

\* ReadDir.
ListDocuments(w) ==
  /\ writer[w].at = "listing"
  /\ writer' = [writer EXCEPT ![w].at = "reading",
                 ![w].names = {d \in Documents : documents[d] # Missing}]
  /\ UNCHANGED <<documents, index, applying, disturbed, drifted, requests, edits>>

\* ReadFile of a document: one that is gone since the listing fails the request.
ReadDocument(w, d) ==
  /\ writer[w].at = "reading" /\ d \in writer[w].names
  /\ \A e \in writer[w].names : d <= e   \* ReadDir sorts
  /\ IF documents[d] = Missing THEN Leave(w)
     ELSE /\ writer' = [writer EXCEPT ![w].seen[d] = documents[d], ![w].names = @ \ {d}]
          /\ UNCHANGED disturbed
  /\ UNCHANGED <<documents, index, applying, drifted, requests, edits>>

Project(w) ==
  /\ writer[w].at = "reading" /\ writer[w].names = {}
  /\ writer' = [writer EXCEPT ![w] =
       [Resting EXCEPT !.at = "admitted",
          !.cs = Expand(writer[w].cs, writer[w].base, writer[w].seen)]]
  /\ UNCHANGED <<documents, index, applying, disturbed, drifted, requests, edits>>

\* A policy rejects the change set.  One that lets it pass, now or after it
\* was held for approval (CommitChangeSet replays it as it was admitted), puts
\* it in the log's queue: until its turn it is admitted, for however long.
Reject(w) ==
  /\ writer[w].at = "admitted" /\ applying # w
  /\ Leave(w)
  /\ UNCHANGED <<documents, index, applying, drifted, requests, edits>>
-----------------------------------------------------------------------------
(* The applier *)

\* Mutant: only indexes the change set writes are looked at.
CurrentIfWritten(cs) ==
  LET final == Expand(cs, index, documents)
  IN  cs.index # Untouched => IndexAfter(final, index) = IndexAfter(cs, index)

\* Mutant: the projection is compared with the index on disk, though the
\* change set writes it itself.
CurrentOnDisk(cs) ==
  LET i == IndexAfter(cs, index)
  IN  Enabled(i) => IndexAfter(Expand(cs, index, documents), index) = index

\* validateFolderIndexes: expanded once more, the change set ends with the
\* index it ends with as it is.
StillCurrent(cs) ==
  LET i == IndexAfter(cs, index)
  IN  /\ i.kind # "broken"
      /\ Enabled(i) => IndexAfter(Expand(cs, index, documents), index) = i

Validate(w) ==
  /\ applying = Nobody /\ writer[w].at = "admitted"
  /\ IF StillCurrent(writer[w].cs)
     THEN /\ applying' = w /\ UNCHANGED <<writer, disturbed>>
          /\ drifted' = IF drifted = "yes" THEN "repairing" ELSE drifted
     ELSE Leave(w) /\ UNCHANGED <<applying, drifted>>
  /\ UNCHANGED <<documents, index, requests, edits>>

\* The preconditions of the leaves, and the files they remove are there.
Met(cs) ==
  /\ cs.pre \in {Unconditional, index}
  /\ \A d \in cs.remove : documents[d] # Missing
  /\ cs.index = NoIndex => index # NoIndex

\* The change set as a whole, or nothing of it when a precondition fails.
Apply(w) ==
  LET cs == writer[w].cs
  IN  /\ applying = w /\ applying' = Nobody
      /\ IF Met(cs)
         THEN /\ documents' = After(cs, documents) /\ index' = IndexAfter(cs, index)
              /\ writer' = [writer EXCEPT ![w] = Resting]
              /\ disturbed' = {v \in IndexWriters \ {w} : writer[v].at # "resting"}
              /\ drifted' = IF drifted = "repairing" THEN "no" ELSE drifted
         ELSE /\ UNCHANGED <<documents, index>> /\ Leave(w)
              /\ drifted' = IF drifted = "repairing" THEN "yes" ELSE drifted
      /\ UNCHANGED <<requests, edits>>

\* A file of the folder is changed beside the server.
Edit(d, t, i) ==
  /\ edits < MaxEdits /\ edits' = edits + 1
  /\ documents' = [documents EXCEPT ![d] = t] /\ index' = i
  /\ <<documents', index'>> # <<documents, index>>
  /\ drifted' = "yes"
  /\ disturbed' = {w \in IndexWriters : writer[w].at # "resting"}
  /\ UNCHANGED <<writer, applying, requests>>

\* Any folder whose index, if it has opted in, is up to date.
FolderInit ==
  /\ documents \in [Documents -> {Missing} \cup Titles]
  /\ index \in {NoIndex, Plain(AnyProse), Listed(AnyProse, documents)}
  /\ writer = [w \in IndexWriters |-> Resting]
  /\ applying = Nobody /\ disturbed = {} /\ drifted = "no"
  /\ requests = 0 /\ edits = 0

FolderNext ==
  \/ \E w \in IndexWriters, cs \in Requests : Propose(w, cs)
  \/ \E w \in IndexWriters :
       ReadIndex(w) \/ ListDocuments(w) \/ Project(w) \/ Reject(w) \/ Validate(w) \/ Apply(w)
  \/ \E w \in IndexWriters, d \in Documents : ReadDocument(w, d)
  \/ \E d \in Documents, t \in {Missing} \cup Titles : Edit(d, t, index)
  \/ \E d \in Documents, i \in {Listed(p, NoEntries) : p \in Proses} \cup {Broken, NoIndex} :
       Edit(d, documents[d], i)

FolderSpec == FolderInit /\ [][FolderNext]_folderVars
-----------------------------------------------------------------------------
(* Properties *)

\* The folder and the requests have their shape, and a change set that has
\* been expanded writes an enabled index only with a precondition.
FolderTypeOK ==
  /\ documents \in [Documents -> {Missing} \cup Titles]
  /\ index.kind \in {"none", "plain", "broken", "listed"}
  /\ Enabled(index) \/ index.entries = NoEntries
  /\ applying = Nobody \/ writer[applying].at = "admitted"
  /\ \A w \in IndexWriters :
       /\ writer[w].at = "admitted" /\ Enabled(writer[w].cs.index)
          => writer[w].cs.pre # Unconditional
       /\ writer[w].at = "resting" => w \notin disturbed

\* An index that has opted in lists exactly the documents of its folder,
\* whatever was admitted, held and applied around it: it is never behind for
\* a commit, and the next commit repairs what an edit beside the server did.
ListsItsDocuments ==
  Enabled(index) /\ drifted = "no" => index.entries = documents

\* A commit that the caller did not ask to write the index leaves everything
\* of it but the entries, also what was edited after admission read it.
ProseIsKept ==
  applying # Nobody /\ applying' = Nobody
       /\ ~writer[applying].cs.own /\ ~writer[applying].cs.wipe
    => Generate(index', NoEntries) = Generate(index, NoEntries)

\* An enabled index is always the projection of its folder, within the text
\* that its authors wrote around it.
IndexIsProjection == [][FolderTypeOK' /\ ListsItsDocuments' /\ ProseIsKept]_folderVars

\* The applier turns an admitted change set away only when the folder has
\* changed since its request began: what admission makes of it passes both
\* the second expansion and the preconditions in the folder it was made for.
UndisturbedIsCommitted ==
  \A w \in IndexWriters \ disturbed :
    writer[w].at = "admitted" => StillCurrent(writer[w].cs) /\ Met(writer[w].cs)
=============================================================================
