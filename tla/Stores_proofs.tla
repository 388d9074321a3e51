--------------------------- MODULE Stores_proofs ----------------------------
(***************************************************************************)
(* Theorems about three stores that promise all or nothing: folder         *)
(* indexes, for any documents, titles and writers and any number of        *)
(* requests and of edits beside the server; the directory tree under a     *)
(* change set, for any paths and docsets, any batch, and any number of     *)
(* faults and crashes; and the provenance history, for any paths, any      *)
(* journal of an older server, any change sets, readers and size of page,  *)
(* and any number of lost appends and of crashes.                          *)
(***************************************************************************)
EXTENDS FolderIndex, ChangeSet, Provenance, Integers, SequenceTheorems, FiniteSetTheorems,
        WellFoundedInduction, TLAPS

Listings == [Documents -> {Missing} \cup Titles]
Kinds == {"none", "broken", "any", "untouched", "plain", "listed"}
Indexes == [kind : Kinds, prose : Proses, entries : Listings]
ChangeSets ==
  [wipe : BOOLEAN, write : Listings, remove : SUBSET Documents, index : Indexes,
   pre : Indexes, generated : Indexes, moved : BOOLEAN, own : BOOLEAN]
Stages == {"resting", "index", "listing", "reading", "admitted"}
Writers == [at : Stages, cs : ChangeSets, base : Indexes, names : SUBSET Documents, seen : Listings]

(* An index a folder can have, and a change set that writes only such: what  *)
(* the expansion puts behind the caller's own leaf is behind a move.         *)
Real(i) ==
  /\ i \in Indexes /\ i.kind \in {"none", "plain", "broken", "listed"}
  /\ Enabled(i) \/ i.entries = NoEntries
WellMade(cs) ==
  /\ cs \in ChangeSets
  /\ cs.index = Untouched \/ Real(cs.index)
  /\ cs.generated = Untouched \/ (Real(cs.generated) /\ cs.moved /\ cs.index # Untouched)

(* A change set as its caller made it, and as the expansion leaves it: an    *)
(* index that is the expansion's alone is the one that was read, with other  *)
(* entries, and is written only over that one.                               *)
AsAsked(cs) == cs.generated = Untouched /\ (~cs.own => cs.index = Untouched)
Guarded(cs) ==
  /\ Enabled(cs.index) => cs.pre # Unconditional
  /\ ~cs.own /\ ~cs.wipe =>
       /\ cs.generated = Untouched
       /\ \/ cs.index = Untouched
          \/ cs.pre # Unconditional /\ \E x \in Listings : cs.index = Generate(cs.pre, x)

(* What is so of a writer at each stage, and of one in whose folder nothing  *)
(* has changed since its request began: it has read what is there.           *)
InOrder(s) ==
  /\ s \in Writers /\ WellMade(s.cs) /\ Real(s.base)
  /\ s.at \in {"index", "listing", "reading"} => AsAsked(s.cs)
  /\ s.at \in {"index", "listing"} => s.seen = NoEntries
  /\ s.at \in {"listing", "reading"} => Enabled(IndexAfter(s.cs, s.base))
  /\ s.at = "admitted" => Guarded(s.cs)
Informed(s) ==
  /\ s.at \in {"index", "listing", "reading"} => Met(s.cs)
  /\ s.at \in {"listing", "reading"} => s.base = index /\ Enabled(IndexAfter(s.cs, index))
  /\ s.at = "reading" => \A d \in Documents \ s.names : s.seen[d] = documents[d]
  /\ s.at = "admitted" => StillCurrent(s.cs) /\ Met(s.cs)

IFolder == documents \in Listings /\ Real(index)
IWriters ==
  /\ writer \in [IndexWriters -> Writers]
  /\ \A w \in IndexWriters : InOrder(writer[w])
  /\ \A w \in IndexWriters : writer[w].at = "resting" => w \notin disturbed
IUndisturbed == \A w \in IndexWriters \ disturbed : Informed(writer[w])

(* The change set the applier has in hand is current unless the folder has   *)
(* been edited since, and repairs what was edited before.                    *)
IApplying ==
  /\ applying = Nobody \/ (applying \in IndexWriters /\ writer[applying].at = "admitted")
  /\ drifted \in {"yes", "no", "repairing"}
  /\ drifted = "repairing" => applying # Nobody
  /\ applying # Nobody /\ drifted # "yes" => StillCurrent(writer[applying].cs)

IInv == IFolder /\ IWriters /\ IUndisturbed /\ IApplying /\ ListsItsDocuments
-----------------------------------------------------------------------------
(* The operators. *)

LEMMA Constants ==
  /\ NoEntries \in Listings /\ AnyProse \in Proses
  /\ {NoIndex, Broken, Unconditional, Untouched} \subseteq Indexes
  /\ Real(NoIndex) /\ Real(Broken) /\ ~Real(Unconditional) /\ ~Real(Untouched)
  /\ ~Enabled(NoIndex) /\ ~Enabled(Broken) /\ ~Enabled(Unconditional) /\ ~Enabled(Untouched)
  /\ WellMade(NoChange) /\ AsAsked(NoChange)
<1>1. NoEntries \in Listings /\ AnyProse \in Proses
  BY FolderAssumption DEF NoEntries, Listings, AnyProse
<1>2. /\ {NoIndex, Broken, Unconditional, Untouched} \subseteq Indexes
      /\ Real(NoIndex) /\ Real(Broken) /\ ~Real(Unconditional) /\ ~Real(Untouched)
      /\ ~Enabled(NoIndex) /\ ~Enabled(Broken) /\ ~Enabled(Unconditional) /\ ~Enabled(Untouched)
  BY <1>1 DEF NoIndex, Broken, Unconditional, Untouched, Index, Indexes, Kinds, Real, Enabled
<1>3. NoChange \in ChangeSets
  <2>1. NoEntries \in Listings /\ Untouched \in Indexes /\ Unconditional \in Indexes /\ {} \in SUBSET Documents
    BY <1>1, <1>2
  <2> QED
    BY <2>1 DEF NoChange, ChangeSets
<1>4. NoChange.index = Untouched /\ NoChange.generated = Untouched
  BY DEF NoChange
<1> QED
  BY <1>1, <1>2, <1>3, <1>4 DEF WellMade, AsAsked

LEMMA Texts ==
  ASSUME NEW p \in Proses, NEW x \in Listings
  PROVE  /\ Real(Listed(p, x)) /\ Enabled(Listed(p, x)) /\ Real(Plain(p)) /\ ~Enabled(Plain(p))
         /\ Listed(p, x).entries = x
BY Constants DEF Listed, Plain, Index, Indexes, Kinds, Real, Enabled

LEMMA Generated ==
  ASSUME NEW i, Real(i), Enabled(i), NEW x \in Listings
  PROVE  /\ Real(Generate(i, x)) /\ Enabled(Generate(i, x)) /\ Generate(i, x).entries = x
         /\ Generate(i, x).kind = i.kind /\ Generate(i, x).prose = i.prose
BY DEF Generate, Real, Enabled, Indexes, Kinds

\* The entries that are replaced do not matter.
LEMMA GeneratedTwice ==
  ASSUME NEW i \in Indexes, NEW x \in Listings, NEW y \in Listings
  PROVE  Generate(Generate(i, x), y) = Generate(i, y)
BY DEF Generate, Indexes

LEMMA AfterIs ==
  ASSUME NEW cs \in ChangeSets, NEW x \in Listings
  PROVE  After(cs, x) \in Listings
<1>1. cs.write \in Listings
  BY DEF ChangeSets
<1> QED
  BY <1>1 DEF After, Listings

LEMMA RealAfter ==
  ASSUME NEW cs, WellMade(cs), NEW i, Real(i)
  PROVE  Real(IndexAfter(cs, i))
BY Constants DEF WellMade, IndexAfter

\* The expansion ends with the projection: the index as the change set leaves
\* it, with the documents as the change set leaves them for entries.
LEMMA ExpandEnds ==
  ASSUME NEW cs, WellMade(cs), NEW base, Real(base), NEW seen \in Listings,
         Enabled(IndexAfter(cs, base))
  PROVE  LET e == Expand(cs, base, seen)
             final == Generate(IndexAfter(cs, base), After(cs, seen))
         IN  /\ WellMade(e) /\ IndexAfter(e, base) = final
             /\ e.own = cs.own /\ e.wipe = cs.wipe /\ e.write = cs.write /\ e.remove = cs.remove
             /\ e.index \in {cs.index, final}
             /\ e.pre = base \/ (e.pre = cs.pre /\ (cs.pre # Unconditional \/ e.index = Untouched))
             /\ cs.index = Untouched => e.generated = Untouched
             /\ cs.index = Untouched /\ e.index # Untouched => e.pre = base
<1> DEFINE i == IndexAfter(cs, base)
           final == Generate(i, After(cs, seen))
           e == Expand(cs, base, seen)
           n == IF cs.pre = Unconditional THEN [cs EXCEPT !.pre = base] ELSE cs
<1>1. cs \in ChangeSets /\ base \in Indexes /\ base # Unconditional
  BY Constants DEF WellMade, Real
<1>2. Real(i) /\ Real(final) /\ Enabled(final) /\ final \in Indexes /\ final # Untouched
  <2>1. Real(i)
    BY RealAfter
  <2>2. After(cs, seen) \in Listings
    BY <1>1, AfterIs
  <2>3. Real(final) /\ Enabled(final)
    BY <2>1, <2>2, Generated
  <2> QED
    BY <2>1, <2>3, Constants DEF Real
<1>3. /\ n \in ChangeSets /\ n.own = cs.own /\ n.wipe = cs.wipe /\ n.write = cs.write
      /\ n.remove = cs.remove /\ n.index = cs.index /\ n.generated = cs.generated
      /\ n.moved = cs.moved
      /\ n.pre = base \/ (n.pre = cs.pre /\ cs.pre # Unconditional)
  BY <1>1 DEF ChangeSets
<1>4. /\ cs.index # Untouched =>
           e = IF ~cs.moved THEN [n EXCEPT !.index = final]
               ELSE IF i = final THEN n ELSE [n EXCEPT !.generated = final]
      /\ cs.index = Untouched =>
           e = IF i = final THEN cs ELSE [cs EXCEPT !.index = final, !.pre = base]
  BY DEF Expand
<1>5. /\ cs.generated = Untouched \/ (Real(cs.generated) /\ cs.moved /\ cs.index # Untouched)
      /\ cs.index = Untouched \/ Real(cs.index)
  BY DEF WellMade
<1> HIDE DEF n, e, final
<1>6. CASE cs.index # Untouched /\ ~cs.moved
  <2>1. e = [n EXCEPT !.index = final] /\ n.generated = Untouched
    BY <1>3, <1>4, <1>5, <1>6
  <2>2. /\ e \in ChangeSets /\ e.own = n.own /\ e.wipe = n.wipe /\ e.write = n.write
        /\ e.remove = n.remove /\ e.index = final /\ e.generated = Untouched /\ e.pre = n.pre
    BY <1>2, <1>3, <2>1 DEF ChangeSets
  <2>3. WellMade(e) /\ IndexAfter(e, base) = final
    BY <1>2, <2>2 DEF WellMade, IndexAfter
  <2> QED
    BY <1>3, <1>6, <2>2, <2>3 DEF e, final
<1>7. CASE cs.index # Untouched /\ cs.moved /\ i = final
  <2>1. e = n
    BY <1>4, <1>7
  <2>2. WellMade(e) /\ IndexAfter(e, base) = final
    BY <1>3, <1>5, <1>7, <2>1 DEF WellMade, IndexAfter
  <2> QED
    BY <1>3, <1>7, <2>1, <2>2 DEF e, final
<1>8. CASE cs.index # Untouched /\ cs.moved /\ i # final
  <2>1. e = [n EXCEPT !.generated = final]
    BY <1>4, <1>8
  <2>2. /\ e \in ChangeSets /\ e.own = n.own /\ e.wipe = n.wipe /\ e.write = n.write
        /\ e.remove = n.remove /\ e.index = n.index /\ e.generated = final /\ e.pre = n.pre
        /\ e.moved = n.moved
    BY <1>2, <1>3, <2>1 DEF ChangeSets
  <2>3. WellMade(e) /\ IndexAfter(e, base) = final
    BY <1>2, <1>3, <1>5, <1>8, <2>2 DEF WellMade, IndexAfter
  <2> QED
    BY <1>3, <1>8, <2>2, <2>3 DEF e, final
<1>9. CASE cs.index = Untouched /\ i = final
  <2>1. e = cs
    BY <1>4, <1>9
  <2> QED
    BY <1>5, <1>9, <2>1 DEF e, final
<1>10. CASE cs.index = Untouched /\ i # final
  <2>1. e = [cs EXCEPT !.index = final, !.pre = base] /\ cs.generated = Untouched
    BY <1>4, <1>5, <1>10
  <2>2. /\ e \in ChangeSets /\ e.own = cs.own /\ e.wipe = cs.wipe /\ e.write = cs.write
        /\ e.remove = cs.remove /\ e.index = final /\ e.generated = Untouched /\ e.pre = base
    BY <1>1, <1>2, <2>1 DEF ChangeSets
  <2>3. WellMade(e) /\ IndexAfter(e, base) = final
    BY <1>2, <2>2 DEF WellMade, IndexAfter
  <2> QED
    BY <1>10, <2>2, <2>3 DEF e, final
<1> QED
  BY <1>6, <1>7, <1>8, <1>9, <1>10

\* A change set is current exactly when it leaves the index enabled with the
\* documents it leaves, or not enabled.
LEMMA CurrentIs ==
  ASSUME NEW cs, WellMade(cs), IFolder
  PROVE  LET i == IndexAfter(cs, index)
         IN  StillCurrent(cs) <=> i.kind # "broken" /\ (Enabled(i) => i.entries = After(cs, documents))
<1> DEFINE i == IndexAfter(cs, index)
           x == After(cs, documents)
<1>1. documents \in Listings /\ Real(index) /\ cs \in ChangeSets
  BY DEF IFolder, WellMade
<1>2. Real(i) /\ x \in Listings
  BY <1>1, RealAfter, AfterIs
<1>3. Enabled(i) => IndexAfter(Expand(cs, index, documents), index) = Generate(i, x)
  BY <1>1, ExpandEnds
<1>4. Enabled(i) => (i = Generate(i, x) <=> i.entries = x)
  <2>1. Enabled(i) => Generate(i, x).entries = x
    BY <1>2, Generated
  <2>2. i.entries = x => Generate(i, x) = i
    BY <1>2 DEF Generate, Real, Indexes
  <2> QED
    BY <2>1, <2>2
<1> QED
  BY <1>3, <1>4 DEF StillCurrent

\* What the expansion makes of a change set for the folder it was made for
\* passes the second expansion and the preconditions.
LEMMA ExpandedIsCurrent ==
  ASSUME NEW cs, WellMade(cs), IFolder, Met(cs), Enabled(IndexAfter(cs, index))
  PROVE  LET e == Expand(cs, index, documents) IN StillCurrent(e) /\ Met(e)
<1> DEFINE e == Expand(cs, index, documents)
           i == IndexAfter(cs, index)
           final == Generate(i, After(cs, documents))
<1>1. documents \in Listings /\ Real(index) /\ cs \in ChangeSets
  BY DEF IFolder, WellMade
<1>2. /\ WellMade(e) /\ IndexAfter(e, index) = final
      /\ e.write = cs.write /\ e.remove = cs.remove /\ e.wipe = cs.wipe
      /\ e.index \in {cs.index, final} /\ e.pre \in {index, cs.pre}
  BY <1>1, ExpandEnds
<1>3. Real(i) /\ After(cs, documents) \in Listings
  BY <1>1, RealAfter, AfterIs
<1>4. Real(final) /\ Enabled(final) /\ final.entries = After(cs, documents)
  BY <1>3, Generated
<1> HIDE DEF e, i, final
<1>5. After(e, documents) = After(cs, documents)
  BY <1>2 DEF After
<1>6. StillCurrent(e)
  BY <1>2, <1>4, <1>5, CurrentIs DEF Enabled
<1>7. Met(e)
  <2>1. final # NoIndex
    BY <1>4, Constants
  <2> QED
    BY <1>2, <2>1 DEF Met
<1> QED
  BY <1>6, <1>7 DEF e

\* A change set that writes an index of its caller's, over any or over the one
\* there is.
LEMMA OwnIndex ==
  ASSUME IFolder, NEW c, WellMade(c), AsAsked(c), Met(c), NEW i, Real(i), c.index = Untouched,
         i # NoIndex \/ index # NoIndex, NEW pre \in {Unconditional, index}
  PROVE  LET e == WithIndex(c, i)
             o == Over(pre, e)
         IN  WellMade(e) /\ AsAsked(e) /\ Met(e) /\ WellMade(o) /\ AsAsked(o) /\ Met(o)
<1> DEFINE e == WithIndex(c, i)
           o == Over(pre, e)
<1>1. /\ c \in ChangeSets /\ c.generated = Untouched /\ i \in Indexes /\ pre \in Indexes
      /\ (pre = Unconditional) \in BOOLEAN
  BY Constants DEF WellMade, AsAsked, Real, IFolder
<1>2. /\ e \in ChangeSets /\ e.index = i /\ e.own = TRUE /\ e.pre = c.pre
      /\ e.remove = c.remove /\ e.generated = c.generated
  BY <1>1 DEF WithIndex, ChangeSets
<1>3. /\ o \in ChangeSets /\ o.index = i /\ o.own = TRUE /\ o.pre = pre
      /\ o.remove = c.remove /\ o.generated = c.generated
  BY <1>1, <1>2 DEF Over, ChangeSets
<1> HIDE DEF e, o
<1>4. WellMade(e) /\ AsAsked(e) /\ Met(e)
  BY <1>1, <1>2 DEF WellMade, AsAsked, Met
<1>5. WellMade(o) /\ AsAsked(o) /\ Met(o)
  BY <1>1, <1>3 DEF WellMade, AsAsked, Met
<1> QED
  BY <1>4, <1>5 DEF e, o

\* A change set that writes no index is as well made as the one it is made of.
LEMMA NoIndexOf ==
  ASSUME IFolder, NEW e \in ChangeSets, e.index = Untouched, e.generated = Untouched,
         e.pre = Unconditional, \A d \in e.remove : documents[d] # Missing
  PROVE  WellMade(e) /\ AsAsked(e) /\ Met(e)
BY Constants DEF WellMade, AsAsked, Met

\* What a caller can ask for.
LEMMA RequestIs ==
  ASSUME IFolder, NEW cs \in Requests
  PROVE  WellMade(cs) /\ AsAsked(cs) /\ Met(cs)
<1> DEFINE Fine(c) == WellMade(c) /\ AsAsked(c) /\ Met(c)
<1>n. /\ NoChange \in ChangeSets /\ NoChange.index = Untouched /\ NoChange.generated = Untouched
      /\ NoChange.pre = Unconditional /\ NoChange.remove = {} /\ NoChange.write = NoEntries
      /\ NoEntries \in Listings
  BY Constants DEF WellMade, NoChange
<1>f. Fine(NoChange)
  BY <1>n, NoIndexOf
<1>1. \A c \in DocumentOps : Fine(c) /\ c.index = Untouched
  <2>1. ASSUME NEW d \in Documents, NEW t \in Titles
        PROVE  Fine(Writing(d, t)) /\ Writing(d, t).index = Untouched
    <3> DEFINE c == Writing(d, t)
    <3>1. [NoEntries EXCEPT ![d] = t] \in Listings
      BY <1>n DEF Listings
    <3>2. /\ c \in ChangeSets /\ c.index = Untouched /\ c.generated = Untouched
          /\ c.pre = Unconditional /\ c.remove = {}
      BY <1>n, <3>1 DEF ChangeSets, Writing
    <3> HIDE DEF c
    <3>3. Fine(c)
      BY <3>2, NoIndexOf
    <3> QED
      BY <3>2, <3>3 DEF c
  <2>2. ASSUME NEW d \in Documents, documents[d] # Missing
        PROVE  Fine(Removing(d)) /\ Removing(d).index = Untouched
    <3> DEFINE c == Removing(d)
    <3>2. /\ c \in ChangeSets /\ c.index = Untouched /\ c.generated = Untouched
          /\ c.pre = Unconditional /\ c.remove = {d}
      BY <1>n DEF ChangeSets, Removing
    <3> HIDE DEF c
    <3>3. Fine(c)
      BY <2>2, <3>2, NoIndexOf
    <3> QED
      BY <3>2, <3>3 DEF c
  <2> HIDE DEF Fine
  <2> QED
    BY <2>1, <2>2 DEF DocumentOps
<1>2. \A i \in IndexTexts : Real(i) /\ i # NoIndex
  <2>1. \A p \in Proses : Real(Listed(p, NoEntries)) /\ Listed(p, NoEntries) # NoIndex
    BY <1>n, Constants, Texts
  <2>2. Real(Plain(AnyProse)) /\ Plain(AnyProse) # NoIndex
    BY <1>n, Constants, Texts DEF Plain, NoIndex, Index
  <2>3. Real(Broken) /\ Broken # NoIndex
    BY Constants DEF Broken, NoIndex, Index
  <2> QED
    BY <2>1, <2>2, <2>3 DEF IndexTexts
<1>3. \A i \in IndexTexts : Fine(WithIndex(NoChange, i))
  BY <1>n, <1>f, <1>2, OwnIndex
<1>l. Real(NewList) /\ NewList # NoIndex
  BY <1>n, Constants, Texts DEF NewList
<1>4. \A pre \in {Unconditional, index} : Fine(Over(pre, WithIndex(NoChange, NewList)))
  BY <1>n, <1>f, <1>l, OwnIndex
<1>5. \A op \in DocumentOps : Fine(WithIndex(op, NewList))
  BY <1>1, <1>l, OwnIndex
<1>6. index # NoIndex => Fine(WithIndex(NoChange, NoIndex))
  BY <1>n, <1>f, Constants, OwnIndex
<1>7. Fine([NoChange EXCEPT !.wipe = TRUE])
  <2> DEFINE e == [NoChange EXCEPT !.wipe = TRUE]
  <2>1. /\ e \in ChangeSets /\ e.index = Untouched /\ e.pre = Unconditional
        /\ e.remove = {} /\ e.generated = Untouched
    BY <1>n DEF ChangeSets
  <2> HIDE DEF e
  <2>2. Fine(e)
    BY <2>1, NoIndexOf
  <2> QED
    BY <2>2 DEF e
<1> HIDE DEF Fine
<1>8. Fine(cs)
  BY <1>1, <1>3, <1>4, <1>5, <1>6, <1>7 DEF Requests
<1> QED
  BY <1>8 DEF Fine
-----------------------------------------------------------------------------
(* The steps. *)

\* A step of one writer in a folder that stays as it is.
LEMMA OneWriter ==
  ASSUME IInv, NEW w \in IndexWriters, NEW s, InOrder(s), writer' = [writer EXCEPT ![w] = s],
         UNCHANGED <<documents, index, applying, drifted>>, applying # w,
         disturbed' \in {disturbed, disturbed \ {w}},
         s.at = "resting" => w \notin disturbed', w \notin disturbed' => Informed(s)
  PROVE  IInv'
<1>1. /\ writer' \in [IndexWriters -> Writers] /\ writer'[w] = s
      /\ \A v \in IndexWriters : v # w => writer'[v] = writer[v]
  BY DEF IInv, IWriters, InOrder
<1>2. IFolder' /\ ListsItsDocuments'
  BY DEF IInv, IFolder, ListsItsDocuments, Real
<1>3. IWriters'
  BY <1>1 DEF IInv, IWriters
<1>4. IUndisturbed'
  <2> SUFFICES ASSUME NEW v \in IndexWriters, v \notin disturbed'
               PROVE  Informed(writer[v])'
    BY DEF IUndisturbed
  <2>1. Informed(writer'[v])
    BY <1>1 DEF IInv, IUndisturbed
  <2> QED
    BY <2>1 DEF Informed, Met, StillCurrent, Expand
<1>5. IApplying'
  <2>1. applying \in IndexWriters => writer'[applying] = writer[applying]
    BY <1>1
  <2> QED
    BY <2>1, FolderAssumption DEF IInv, IApplying, StillCurrent, Expand
<1> QED
  BY <1>2, <1>3, <1>4, <1>5 DEF IInv

LEMMA RestingIs ==
  InOrder(Resting) /\ Informed(Resting) /\ Resting.at = "resting"
<1>1. /\ NoIndex \in Indexes /\ Real(NoIndex) /\ NoChange \in ChangeSets /\ WellMade(NoChange)
      /\ NoEntries \in Listings /\ {} \in SUBSET Documents
  BY Constants DEF WellMade
<1>2. Resting \in Writers /\ Resting.at = "resting" /\ Resting.cs = NoChange /\ Resting.base = NoIndex
  BY <1>1 DEF Resting, Writers, Stages
<1> QED
  BY <1>1, <1>2 DEF InOrder, Informed

\* A request that fails.
LEMMA Leaving ==
  ASSUME IInv, NEW w \in IndexWriters, Leave(w), applying # w,
         UNCHANGED <<documents, index, applying, drifted>>
  PROVE  IInv'
BY RestingIs, OneWriter DEF Leave

\* What is so of a writer now.
LEMMA WriterIs ==
  ASSUME IInv, NEW w \in IndexWriters
  PROVE  /\ writer[w] \in Writers /\ InOrder(writer[w]) /\ writer[w].cs \in ChangeSets
         /\ writer[w].base \in Indexes /\ writer[w].names \subseteq Documents
         /\ writer[w].seen \in Listings
         /\ w \notin disturbed => Informed(writer[w])
         /\ writer[w].at # "admitted" => applying # w
BY FolderAssumption DEF IInv, IWriters, IUndisturbed, IApplying, InOrder, Writers

LEMMA ProposeStep ==
  ASSUME IInv, NEW w \in IndexWriters, NEW cs \in Requests, Propose(w, cs)
  PROVE  IInv'
<1> DEFINE s == [Resting EXCEPT !.at = "index", !.cs = cs]
<1>1. /\ writer[w].at = "resting" /\ writer' = [writer EXCEPT ![w] = s]
      /\ disturbed' = disturbed \ {w} /\ UNCHANGED <<documents, index, applying, drifted>>
  BY DEF Propose
<1>2. WellMade(cs) /\ AsAsked(cs) /\ Met(cs)
  BY RequestIs DEF IInv
<1>3. Resting \in Writers /\ Real(Resting.base) /\ Resting.seen = NoEntries
  BY RestingIs DEF InOrder, Resting
<1>4. s \in Writers /\ s.at = "index" /\ s.cs = cs /\ s.base = Resting.base /\ s.seen = NoEntries
  BY <1>2, <1>3 DEF Writers, Stages, WellMade
<1> HIDE DEF s
<1>5. InOrder(s) /\ Informed(s)
  BY <1>2, <1>3, <1>4 DEF InOrder, Informed
<1> QED
  BY <1>1, <1>4, <1>5, WriterIs, OneWriter

LEMMA ReadIndexStep ==
  ASSUME IInv, NEW w \in IndexWriters, ReadIndex(w)
  PROVE  IInv'
<1> DEFINE cs == writer[w].cs
           i == IndexAfter(cs, index)
<1>1. /\ writer[w].at = "index" /\ UNCHANGED <<documents, index, applying, drifted>>
      /\ applying # w
  BY WriterIs DEF ReadIndex
<1>2. CASE i.kind = "broken"
  <2>1. Leave(w)
    BY <1>2 DEF ReadIndex
  <2> QED
    BY <1>1, <2>1, Leaving
<1>3. CASE i.kind # "broken"
  <2> DEFINE at == IF Enabled(i) THEN "listing" ELSE "admitted"
             s == [writer[w] EXCEPT !.base = index, !.at = at]
  <2>1. writer' = [writer EXCEPT ![w].base = index, ![w].at = at] /\ disturbed' = disturbed
    BY <1>3 DEF ReadIndex
  <2>2. writer' = [writer EXCEPT ![w] = s]
    <3>1. writer \in [IndexWriters -> Writers]
      BY DEF IInv, IWriters
    <3> QED
      BY <2>1, <3>1 DEF Writers
  <2>3. /\ writer[w] \in Writers /\ WellMade(cs) /\ AsAsked(cs) /\ writer[w].seen = NoEntries
        /\ w \notin disturbed => Met(cs)
    BY <1>1, WriterIs DEF InOrder, Informed
  <2>4. IFolder /\ Real(index) /\ index \in Indexes
    BY DEF IInv, IFolder, Real
  <2>5. /\ s \in Writers /\ s.at = at /\ s.cs = cs /\ s.base = index /\ s.seen = NoEntries
        /\ at \in {"listing", "admitted"}
    BY <2>3, <2>4 DEF Writers, Stages
  <2>6. ~Enabled(i) => Guarded(cs) /\ StillCurrent(cs)
    <3>1. cs.index # Untouched => i = cs.index
      BY <2>3 DEF AsAsked, IndexAfter
    <3>2. ~Enabled(i) => Guarded(cs)
      BY <2>3, <3>1, Constants DEF AsAsked, Guarded
    <3>3. ~Enabled(i) => StillCurrent(cs)
      BY <1>3 DEF StillCurrent
    <3> QED
      BY <3>2, <3>3
  <2> HIDE DEF s, cs, i
  <2>7. InOrder(s) /\ (w \notin disturbed => Informed(s))
    BY <2>3, <2>4, <2>5, <2>6 DEF InOrder, Informed, at, i
  <2> QED
    BY <1>1, <2>1, <2>2, <2>5, <2>7, OneWriter
<1> QED
  BY <1>2, <1>3

LEMMA ListStep ==
  ASSUME IInv, NEW w \in IndexWriters, ListDocuments(w)
  PROVE  IInv'
<1> DEFINE names == {d \in Documents : documents[d] # Missing}
           s == [writer[w] EXCEPT !.at = "reading", !.names = names]
<1>1. /\ writer[w].at = "listing"
      /\ writer' = [writer EXCEPT ![w].at = "reading", ![w].names = names]
      /\ UNCHANGED <<documents, index, applying, disturbed, drifted>> /\ applying # w
  BY WriterIs DEF ListDocuments
<1>2. writer' = [writer EXCEPT ![w] = s]
  <2>1. writer \in [IndexWriters -> Writers]
    BY DEF IInv, IWriters
  <2> QED
    BY <1>1, <2>1 DEF Writers
<1>3. /\ writer[w] \in Writers /\ InOrder(writer[w]) /\ writer[w].seen = NoEntries
      /\ w \notin disturbed => Informed(writer[w])
  BY <1>1, WriterIs DEF InOrder
<1>4. /\ s \in Writers /\ s.at = "reading" /\ s.cs = writer[w].cs /\ s.base = writer[w].base
      /\ s.seen = NoEntries /\ s.names = names
  BY <1>3 DEF Writers, Stages
<1> HIDE DEF s
<1>5. InOrder(s)
  BY <1>1, <1>3, <1>4 DEF InOrder
<1>6. w \notin disturbed => Informed(s)
  BY <1>1, <1>3, <1>4 DEF Informed, NoEntries
<1> QED
  BY <1>1, <1>2, <1>4, <1>5, <1>6, OneWriter

LEMMA ReadDocumentStep ==
  ASSUME IInv, NEW w \in IndexWriters, NEW d \in Documents, ReadDocument(w, d)
  PROVE  IInv'
<1>1. /\ writer[w].at = "reading" /\ UNCHANGED <<documents, index, applying, drifted>>
      /\ applying # w
  BY WriterIs DEF ReadDocument
<1>2. CASE documents[d] = Missing
  <2>1. Leave(w)
    BY <1>2 DEF ReadDocument
  <2> QED
    BY <1>1, <2>1, Leaving
<1>3. CASE documents[d] # Missing
  <2> DEFINE s == [writer[w] EXCEPT !.seen[d] = documents[d], !.names = @ \ {d}]
  <2>1. /\ writer' = [writer EXCEPT ![w].seen[d] = documents[d], ![w].names = @ \ {d}]
        /\ disturbed' = disturbed
    BY <1>3 DEF ReadDocument
  <2>2. writer' = [writer EXCEPT ![w] = s]
    <3>1. writer \in [IndexWriters -> Writers]
      BY DEF IInv, IWriters
    <3> QED
      BY <2>1, <3>1 DEF Writers
  <2>3. /\ writer[w] \in Writers /\ InOrder(writer[w]) /\ writer[w].seen \in Listings
        /\ w \notin disturbed => Informed(writer[w])
    BY WriterIs
  <2>4. documents[d] \in {Missing} \cup Titles
    BY DEF IInv, IFolder, Listings
  <2>5. [writer[w].seen EXCEPT ![d] = documents[d]] \in Listings
    BY <2>3, <2>4 DEF Listings
  <2>6. /\ s \in Writers /\ s.at = "reading" /\ s.cs = writer[w].cs /\ s.base = writer[w].base
        /\ s.seen = [writer[w].seen EXCEPT ![d] = documents[d]] /\ s.names = writer[w].names \ {d}
    BY <1>1, <2>3, <2>5 DEF Writers
  <2> HIDE DEF s
  <2>7. InOrder(s)
    BY <1>1, <2>3, <2>6 DEF InOrder
  <2>8. w \notin disturbed => Informed(s)
    BY <1>1, <2>3, <2>6 DEF Informed, Listings
  <2> QED
    BY <1>1, <2>1, <2>2, <2>6, <2>7, <2>8, OneWriter
<1> QED
  BY <1>2, <1>3

LEMMA ProjectStep ==
  ASSUME IInv, NEW w \in IndexWriters, Project(w)
  PROVE  IInv'
<1> DEFINE cs == writer[w].cs
           base == writer[w].base
           seen == writer[w].seen
           e == Expand(cs, base, seen)
           s == [Resting EXCEPT !.at = "admitted", !.cs = e]
<1>1. /\ writer[w].at = "reading" /\ writer[w].names = {} /\ writer' = [writer EXCEPT ![w] = s]
      /\ UNCHANGED <<documents, index, applying, disturbed, drifted>> /\ applying # w
  BY WriterIs DEF Project
<1>2. /\ WellMade(cs) /\ Real(base) /\ seen \in Listings /\ AsAsked(cs)
      /\ Enabled(IndexAfter(cs, base)) /\ (w \notin disturbed => Informed(writer[w]))
  BY <1>1, WriterIs DEF InOrder
<1>3. /\ WellMade(e) /\ e.own = cs.own /\ e.wipe = cs.wipe
      /\ e.index \in {cs.index, Generate(IndexAfter(cs, base), After(cs, seen))}
      /\ e.pre = base \/ (e.pre = cs.pre /\ (cs.pre # Unconditional \/ e.index = Untouched))
      /\ cs.index = Untouched => e.generated = Untouched
      /\ cs.index = Untouched /\ e.index # Untouched => e.pre = base
  BY <1>2, ExpandEnds
<1>4. Guarded(e)
  <2>1. base # Unconditional /\ ~Enabled(Untouched)
    BY <1>2, Constants
  <2>2. Enabled(e.index) => e.pre # Unconditional
    BY <1>3, <2>1
  <2>3. ASSUME ~e.own, ~e.wipe
        PROVE  /\ e.generated = Untouched
               /\ \/ e.index = Untouched
                  \/ e.pre # Unconditional /\ \E x \in Listings : e.index = Generate(e.pre, x)
    <3>1. cs.index = Untouched /\ IndexAfter(cs, base) = base
      BY <1>2, <1>3, <2>3 DEF AsAsked, IndexAfter
    <3>2. After(cs, seen) \in Listings
      BY <1>2, AfterIs DEF WellMade
    <3> HIDE DEF e, base, cs, seen
    <3> QED
      BY <1>3, <2>1, <3>1, <3>2
  <2> QED
    BY <2>2, <2>3 DEF Guarded
<1>5. /\ s \in Writers /\ s.at = "admitted" /\ s.cs = e /\ Real(s.base)
  <2>1. Resting \in Writers /\ Real(Resting.base) /\ e \in ChangeSets
    BY <1>3, RestingIs DEF InOrder, WellMade
  <2> HIDE DEF e
  <2> QED
    BY <2>1 DEF Writers, Stages
<1>6. w \notin disturbed => StillCurrent(e) /\ Met(e)
  <2> SUFFICES ASSUME w \notin disturbed PROVE StillCurrent(e) /\ Met(e)
    OBVIOUS
  <2>1. base = index /\ Met(cs) /\ \A d \in Documents : seen[d] = documents[d]
    BY <1>1, <1>2 DEF Informed
  <2>2. seen = documents /\ IFolder
    BY <1>2, <2>1 DEF IInv, IFolder, Listings
  <2> QED
    BY <1>2, <2>1, <2>2, ExpandedIsCurrent
<1> HIDE DEF s, e
<1>7. InOrder(s) /\ (w \notin disturbed => Informed(s))
  BY <1>3, <1>4, <1>5, <1>6 DEF InOrder, Informed
<1> QED
  BY <1>1, <1>5, <1>7, OneWriter

\* While the folder does not change, neither does what a writer knows of it.
LEMMA Unmoved ==
  ASSUME UNCHANGED <<documents, index, writer>>
  PROVE  \A w \in IndexWriters : Informed(writer[w]) => Informed(writer[w])'
<1> SUFFICES ASSUME NEW w \in IndexWriters, Informed(writer[w])
             PROVE  Informed(writer[w])'
  OBVIOUS
<1>1. Met(writer[w].cs)' <=> Met(writer[w].cs)
  BY DEF Met
<1>2. StillCurrent(writer[w].cs)' <=> StillCurrent(writer[w].cs)
  <2> DEFINE i == IndexAfter(writer[w].cs, index)
             e == Expand(writer[w].cs, index, documents)
             a == IndexAfter(e, index)
  <2>1. i' = i
    OBVIOUS
  <2>2. e' = e
    OBVIOUS
  <2>3. a' = a
    BY <2>2
  <2>4. StillCurrent(writer[w].cs) <=> i.kind # "broken" /\ (Enabled(i) => a = i)
    BY DEF StillCurrent
  <2>5. StillCurrent(writer[w].cs)' <=> i'.kind # "broken" /\ (Enabled(i') => a' = i')
    BY DEF StillCurrent, Enabled
  <2> HIDE DEF i, e, a
  <2> QED
    BY <2>1, <2>3, <2>4, <2>5
<1> QED
  BY <1>1, <1>2 DEF Informed

LEMMA ValidateStep ==
  ASSUME IInv, NEW w \in IndexWriters, Validate(w)
  PROVE  IInv'
<1>1. /\ applying = Nobody /\ writer[w].at = "admitted" /\ UNCHANGED <<documents, index>>
      /\ applying # w
  BY FolderAssumption DEF Validate
<1>2. CASE StillCurrent(writer[w].cs)
  <2>1. /\ applying' = w /\ UNCHANGED <<writer, disturbed>>
        /\ drifted' = IF drifted = "yes" THEN "repairing" ELSE drifted
    BY <1>2 DEF Validate
  <2>2. IFolder' /\ IWriters' /\ ListsItsDocuments'
    BY <1>1, <2>1 DEF IInv, IFolder, IWriters, ListsItsDocuments, Real
  <2>3. IUndisturbed'
    BY <1>1, <2>1, Unmoved DEF IInv, IUndisturbed
  <2>4. IApplying'
    BY <1>1, <1>2, <2>1 DEF IInv, IApplying, StillCurrent, Expand
  <2> QED
    BY <2>2, <2>3, <2>4 DEF IInv
<1>3. CASE ~StillCurrent(writer[w].cs)
  BY <1>1, <1>3, Leaving DEF Validate
<1> QED
  BY <1>2, <1>3

\* What the applier makes of the folder.
LEMMA Applied ==
  ASSUME IInv, NEW w \in IndexWriters, Apply(w), Met(writer[w].cs)
  PROVE  /\ documents' = After(writer[w].cs, documents) /\ documents' \in Listings
         /\ index' = IndexAfter(writer[w].cs, index) /\ Real(index')
         /\ drifted' = "no" /\ Enabled(index') => index'.entries = documents'
         /\ WellMade(writer[w].cs) /\ writer[w].at = "admitted"
<1> DEFINE cs == writer[w].cs
<1>1. /\ documents' = After(cs, documents) /\ index' = IndexAfter(cs, index) /\ applying = w
      /\ drifted' = IF drifted = "repairing" THEN "no" ELSE drifted
  BY DEF Apply
<1>2. WellMade(cs) /\ IFolder /\ cs \in ChangeSets /\ documents \in Listings /\ Real(index)
  BY WriterIs DEF InOrder, IInv, IFolder
<1>3. documents' \in Listings /\ Real(index')
  BY <1>1, <1>2, AfterIs, RealAfter
<1>4. writer[w].at = "admitted" /\ (drifted # "yes" => StillCurrent(cs))
  BY <1>1, FolderAssumption DEF IInv, IApplying
<1>5. drifted' = "no" => drifted # "yes"
  BY <1>1
<1>6. drifted # "yes" /\ Enabled(index') => index'.entries = documents'
  BY <1>1, <1>2, <1>4, CurrentIs
<1> QED
  BY <1>1, <1>2, <1>3, <1>4, <1>5, <1>6

LEMMA ApplyStep ==
  ASSUME IInv, NEW w \in IndexWriters, Apply(w)
  PROVE  IInv'
<1>1. applying = w /\ applying' = Nobody
  BY DEF Apply
<1>r. InOrder(Resting) /\ Resting \in Writers /\ Resting.at = "resting"
  BY RestingIs DEF InOrder
<1>2. /\ writer' = [writer EXCEPT ![w] = Resting]
      /\ writer' \in [IndexWriters -> Writers] /\ writer'[w] = Resting
      /\ \A v \in IndexWriters : v # w => writer'[v] = writer[v]
  <2>1. writer' = [writer EXCEPT ![w] = Resting]
    BY DEF Apply, Leave
  <2> QED
    BY <1>r, <2>1 DEF IInv, IWriters
<1>d. drifted' \in {"yes", "no"}
  BY DEF IInv, IApplying, Apply
<1>3. IApplying'
  BY <1>1, <1>d DEF IApplying
<1>4. CASE Met(writer[w].cs)
  <2>1. disturbed' = {v \in IndexWriters \ {w} : writer[v].at # "resting"}
    BY <1>4 DEF Apply
  <2>2. IFolder' /\ ListsItsDocuments'
    BY <1>4, Applied DEF IFolder, ListsItsDocuments
  <2>3. IWriters'
    BY <1>2, <1>r, <2>1 DEF IInv, IWriters
  <2>4. \A v \in IndexWriters : v \notin disturbed' => writer'[v].at = "resting"
    BY <1>2, <1>r, <2>1
  <2>5. IUndisturbed'
    BY <2>4 DEF IUndisturbed, Informed
  <2> QED
    BY <1>3, <2>2, <2>3, <2>5 DEF IInv
<1>5. CASE ~Met(writer[w].cs)
  <2>1. /\ UNCHANGED <<documents, index>> /\ disturbed' = disturbed \ {w}
        /\ drifted' = "no" => drifted = "no"
    BY <1>5 DEF Apply, Leave
  <2>2. IFolder' /\ ListsItsDocuments'
    BY <2>1 DEF IInv, IFolder, ListsItsDocuments, Real
  <2>3. IWriters'
    BY <1>2, <1>r, <2>1 DEF IInv, IWriters
  <2>4. IUndisturbed'
    <3> SUFFICES ASSUME NEW v \in IndexWriters, v \notin disturbed'
                 PROVE  Informed(writer[v])'
      BY DEF IUndisturbed
    <3>1. CASE v = w
      <4>1. writer'[v].at = "resting"
        BY <1>2, <1>r, <3>1
      <4> QED
        BY <4>1 DEF Informed
    <3>2. CASE v # w
      <4>1. writer'[v] = writer[v] /\ Informed(writer[v])
        BY <1>2, <2>1, <3>2 DEF IInv, IUndisturbed
      <4> QED
        BY <2>1, <4>1 DEF Informed, Met, StillCurrent, Expand
    <3> QED
      BY <3>1, <3>2
  <2> QED
    BY <1>3, <2>2, <2>3, <2>4 DEF IInv
<1> QED
  BY <1>4, <1>5

LEMMA EditStep ==
  ASSUME IInv, NEW d \in Documents, NEW t \in {Missing} \cup Titles, NEW i, Real(i), Edit(d, t, i)
  PROVE  IInv'
<1>1. /\ documents' = [documents EXCEPT ![d] = t] /\ index' = i /\ drifted' = "yes"
      /\ disturbed' = {w \in IndexWriters : writer[w].at # "resting"}
      /\ UNCHANGED <<writer, applying>>
  BY DEF Edit
<1>2. IFolder' /\ ListsItsDocuments'
  BY <1>1 DEF IInv, IFolder, Listings, Real, ListsItsDocuments
<1>3. IWriters'
  BY <1>1 DEF IInv, IWriters
<1>4. \A w \in IndexWriters : w \notin disturbed' => writer'[w].at = "resting"
  BY <1>1
<1>5. IUndisturbed'
  BY <1>4 DEF IUndisturbed, Informed
<1>6. IApplying'
  BY <1>1 DEF IInv, IApplying
<1> QED
  BY <1>2, <1>3, <1>5, <1>6 DEF IInv

LEMMA InitInOrder ==
  FolderInit => IInv
<1> SUFFICES ASSUME FolderInit PROVE IInv
  OBVIOUS
<1>1. /\ documents \in Listings /\ index \in {NoIndex, Plain(AnyProse), Listed(AnyProse, documents)}
      /\ writer = [w \in IndexWriters |-> Resting]
      /\ applying = Nobody /\ disturbed = {} /\ drifted = "no"
  BY DEF FolderInit, Listings
<1>2. IFolder /\ ListsItsDocuments
  BY <1>1, Constants, Texts DEF IFolder, ListsItsDocuments
<1>3. IWriters
  BY <1>1, RestingIs DEF IWriters, InOrder
<1>4. IUndisturbed
  BY <1>1, RestingIs DEF IUndisturbed
<1>5. IApplying
  BY <1>1 DEF IApplying
<1> QED
  BY <1>2, <1>3, <1>4, <1>5 DEF IInv

LEMMA StepInOrder ==
  IInv /\ [FolderNext]_folderVars => IInv'
<1> SUFFICES ASSUME IInv, [FolderNext]_folderVars PROVE IInv'
  OBVIOUS
<1>1. ASSUME NEW w \in IndexWriters, Reject(w)
      PROVE  IInv'
  <2>1. Leave(w) /\ applying # w /\ UNCHANGED <<documents, index, applying, drifted>>
    BY <1>1 DEF Reject
  <2> QED
    BY <2>1, Leaving
<1>2. ASSUME NEW d \in Documents, NEW t \in {Missing} \cup Titles, Edit(d, t, index)
      PROVE  IInv'
  BY <1>2, EditStep DEF IInv, IFolder
<1>3. ASSUME NEW d \in Documents, NEW i \in {Listed(p, NoEntries) : p \in Proses} \cup {Broken, NoIndex},
             Edit(d, documents[d], i)
      PROVE  IInv'
  <2>1. Real(i)
    BY Constants, Texts
  <2>2. documents[d] \in {Missing} \cup Titles
    BY DEF IInv, IFolder, Listings
  <2> QED
    BY <1>3, <2>1, <2>2, EditStep
<1>4. CASE UNCHANGED folderVars
  <2>1. UNCHANGED <<documents, index, writer, applying, disturbed, drifted>>
    BY <1>4 DEF folderVars
  <2>2. IFolder' /\ IWriters' /\ ListsItsDocuments'
    BY <2>1 DEF IInv, IFolder, IWriters, ListsItsDocuments, Real
  <2>3. IUndisturbed'
    BY <2>1, Unmoved DEF IInv, IUndisturbed
  <2>4. IApplying'
    BY <2>1 DEF IInv, IApplying, StillCurrent, Expand
  <2> QED
    BY <2>2, <2>3, <2>4 DEF IInv
<1>5. ASSUME NEW w \in IndexWriters, NEW cs \in Requests, Propose(w, cs)
      PROVE  IInv'
  BY <1>5, ProposeStep
<1>6. ASSUME NEW w \in IndexWriters, ReadIndex(w) \/ ListDocuments(w) \/ Project(w) \/ Validate(w) \/ Apply(w)
      PROVE  IInv'
  BY <1>6, ReadIndexStep, ListStep, ProjectStep, ValidateStep, ApplyStep
<1>7. ASSUME NEW w \in IndexWriters, NEW d \in Documents, ReadDocument(w, d)
      PROVE  IInv'
  BY <1>7, ReadDocumentStep
<1> QED
  BY <1>1, <1>2, <1>3, <1>4, <1>5, <1>6, <1>7 DEF FolderNext

LEMMA FolderInvariant ==
  FolderSpec => []IInv
BY InitInOrder, StepInOrder, PTL DEF FolderSpec
-----------------------------------------------------------------------------
(* The theorems. *)

LEMMA Committed ==
  IInv => UndisturbedIsCommitted
BY DEF IInv, IUndisturbed, Informed, UndisturbedIsCommitted

(* What admission makes of a change set passes the second expansion of the   *)
(* applier and the preconditions as long as the folder is as it was when the *)
(* request began: expandFolderIndexes is idempotent, over moves onto the     *)
(* index, deletions of the folder and indexes written by their callers.      *)
THEOREM UndisturbedStaysCommitted == FolderSpec => []UndisturbedIsCommitted
BY FolderInvariant, Committed, PTL

LEMMA TypedFolder ==
  IInv => FolderTypeOK
<1> SUFFICES ASSUME IInv PROVE FolderTypeOK
  OBVIOUS
<1>1. documents \in [Documents -> {Missing} \cup Titles]
  BY DEF IInv, IFolder, Listings
<1>2. index.kind \in {"none", "plain", "broken", "listed"} /\ (Enabled(index) \/ index.entries = NoEntries)
  BY DEF IInv, IFolder, Real
<1>3. applying = Nobody \/ writer[applying].at = "admitted"
  BY DEF IInv, IApplying
<1>4. \A w \in IndexWriters :
        /\ writer[w].at = "admitted" /\ Enabled(writer[w].cs.index)
             => writer[w].cs.pre # Unconditional
        /\ writer[w].at = "resting" => w \notin disturbed
  BY DEF IInv, IWriters, InOrder, Guarded
<1> QED
  BY <1>1, <1>2, <1>3, <1>4 DEF FolderTypeOK

\* A step that commits a change set that is not about the index leaves all of
\* it but the entries.
LEMMA KeptProse ==
  IInv /\ [FolderNext]_folderVars => ProseIsKept
<1> SUFFICES ASSUME IInv, [FolderNext]_folderVars, applying # Nobody, applying' = Nobody,
                    ~writer[applying].cs.own, ~writer[applying].cs.wipe
             PROVE  Generate(index', NoEntries) = Generate(index, NoEntries)
  BY DEF ProseIsKept
<1>1. \E w \in IndexWriters : Apply(w)
  BY FolderAssumption DEF FolderNext, folderVars, Propose, ReadIndex, ListDocuments, ReadDocument,
     Project, Reject, Validate, Edit
<1> PICK w \in IndexWriters : Apply(w)
  BY <1>1
<1> DEFINE cs == writer[w].cs
<1>2. applying = w /\ ~cs.own /\ ~cs.wipe
  BY DEF Apply
<1>3. CASE ~Met(cs)
  BY <1>3 DEF Apply
<1>4. CASE Met(cs)
  <2>1. index' = IndexAfter(cs, index) /\ writer[w].at = "admitted" /\ Real(index)
    BY <1>4, Applied DEF IInv, IFolder
  <2>2. Guarded(cs) /\ cs.pre \in {Unconditional, index}
    BY <1>4, <2>1, WriterIs DEF InOrder, Met
  <2>3. cs.generated = Untouched
    BY <1>2, <2>2 DEF Guarded
  <2>4. CASE cs.index = Untouched
    BY <1>2, <2>1, <2>3, <2>4 DEF IndexAfter
  <2>5. CASE cs.index # Untouched
    <3> PICK x \in Listings : cs.pre # Unconditional /\ cs.index = Generate(cs.pre, x)
      BY <1>2, <2>2, <2>5 DEF Guarded
    <3>1. index' = Generate(index, x)
      BY <2>1, <2>2, <2>3, <2>5 DEF IndexAfter
    <3>2. index \in Indexes /\ NoEntries \in Listings
      BY <2>1, Constants DEF Real
    <3> QED
      BY <3>1, <3>2, GeneratedTwice
  <2> QED
    BY <2>4, <2>5
<1> QED
  BY <1>3, <1>4

(* An index that has opted in lists exactly the documents of its folder      *)
(* after every commit, a commit repairs what an edit beside the server did,  *)
(* and what a commit does not ask to be changed of the index is kept:        *)
(* expandFolderIndexes and validateFolderIndexes of folder_index.go.         *)
THEOREM IndexStaysProjection == FolderSpec => IndexIsProjection
<1>1. IInv /\ IInv' /\ [FolderNext]_folderVars
        => [FolderTypeOK' /\ ListsItsDocuments' /\ ProseIsKept]_folderVars
  <2>1. IInv' => FolderTypeOK'
    BY TypedFolder, PTL
  <2>2. IInv' => ListsItsDocuments'
    BY DEF IInv
  <2> QED
    BY <2>1, <2>2, KeptProse
<1> QED
  BY <1>1, FolderInvariant, PTL DEF FolderSpec, IndexIsProjection
-----------------------------------------------------------------------------
(* The order of the paths *)

LEMMA PathShape ==
  ASSUME NEW p \in Paths
  PROVE  /\ Len(p) \in Nat \ {0} /\ DOMAIN p = 1..Len(p) /\ p \in Seq(ToSet(p))
         /\ p = [i \in 1..Len(p) |-> p[i]]
<1>1. p \in Seq(ToSet(p)) /\ Len(p) > 0
  BY PathsAssumption
<1> QED
  BY <1>1, LenProperties

LEMMA PrefixMeans ==
  ASSUME NEW p \in Paths, NEW q \in Paths
  PROVE  IsPrefix(p, q) <=> Len(p) <= Len(q) /\ \A i \in 1..Len(p) : p[i] = q[i]
<1>1. /\ Len(p) \in Nat \ {0} /\ p \in Seq(ToSet(p))
      /\ Len(q) \in Nat \ {0} /\ q \in Seq(ToSet(q))
  BY PathShape
<1> SUFFICES ASSUME Len(p) <= Len(q)
             PROVE  SubSeq(p, 1, Len(p)) = SubSeq(q, 1, Len(p))
                      <=> \A i \in 1..Len(p) : p[i] = q[i]
  BY DEF IsPrefix
<1>2. /\ SubSeq(p, 1, Len(p)) = [i \in 1..Len(p) |-> p[i]]
      /\ SubSeq(q, 1, Len(p)) = [i \in 1..Len(p) |-> q[i]]
  BY <1>1
<1> QED
  BY <1>2

LEMMA Order ==
  /\ \A p \in Paths : p \in Within(p) /\ Within(p) \subseteq Paths /\ Above(p) \subseteq Paths
  /\ \A p, q \in Paths : q \in Above(p) <=> p \in Within(q) /\ p # q
  /\ \A p, q, r \in Paths : q \in Within(p) /\ r \in Within(q) => r \in Within(p)
  /\ \A p, q \in Paths : q \in Within(p) /\ p \in Within(q) => p = q
  /\ \A p, q, r \in Paths : r \in Within(p) /\ r \in Within(q) => p \in Within(q) \/ q \in Within(p)
  /\ \A p \in Paths : Len(p) \in Nat /\ \A q \in Above(p) : Len(q) < Len(p)
<1>1. \A p, q \in Paths : q \in Within(p) <=> Len(p) <= Len(q) /\ \A i \in 1..Len(p) : p[i] = q[i]
  BY PrefixMeans DEF Within
<1>2. \A p \in Paths : Len(p) \in Nat \ {0} /\ p = [i \in 1..Len(p) |-> p[i]]
  BY PathShape
<1>3. \A p \in Paths : p \in Within(p) /\ Within(p) \subseteq Paths /\ Above(p) \subseteq Paths
  BY <1>1, <1>2 DEF Within, Above
<1>4. \A p, q \in Paths : q \in Above(p) <=> p \in Within(q) /\ p # q
  BY DEF Within, Above, IsStrictPrefix
<1>5. ASSUME NEW p \in Paths, NEW q \in Paths, NEW r \in Paths, q \in Within(p), r \in Within(q)
      PROVE  r \in Within(p)
  <2>1. /\ Len(p) <= Len(q) /\ \A i \in 1..Len(p) : p[i] = q[i]
        /\ Len(q) <= Len(r) /\ \A i \in 1..Len(q) : q[i] = r[i]
    BY <1>1, <1>5
  <2>2. Len(p) <= Len(r) /\ \A i \in 1..Len(p) : i \in 1..Len(q)
    BY <1>2, <2>1
  <2>3. \A i \in 1..Len(p) : p[i] = r[i]
    BY <2>1, <2>2
  <2> QED
    BY <1>1, <2>2, <2>3
<1>6. ASSUME NEW p \in Paths, NEW q \in Paths, q \in Within(p), p \in Within(q)
      PROVE  p = q
  <2>1. Len(p) = Len(q) /\ \A i \in 1..Len(p) : p[i] = q[i]
    BY <1>1, <1>2, <1>6
  <2>2. p = [i \in 1..Len(p) |-> p[i]] /\ q = [i \in 1..Len(p) |-> q[i]]
    BY <1>2, <2>1
  <2>3. [i \in 1..Len(p) |-> p[i]] = [i \in 1..Len(p) |-> q[i]]
    BY <2>1
  <2> QED
    BY <2>2, <2>3
<1>7. ASSUME NEW p \in Paths, NEW q \in Paths, NEW r \in Paths, r \in Within(p), r \in Within(q)
      PROVE  p \in Within(q) \/ q \in Within(p)
  <2>1. /\ Len(p) <= Len(r) /\ \A i \in 1..Len(p) : p[i] = r[i]
        /\ Len(q) <= Len(r) /\ \A i \in 1..Len(q) : q[i] = r[i]
    BY <1>1, <1>7
  <2>2. CASE Len(p) <= Len(q)
    <3>1. \A i \in 1..Len(p) : i \in 1..Len(q)
      BY <1>2, <2>2
    <3> QED
      BY <1>1, <2>1, <2>2, <3>1
  <2>3. CASE Len(q) <= Len(p)
    <3>1. \A i \in 1..Len(q) : i \in 1..Len(p)
      BY <1>2, <2>3
    <3> QED
      BY <1>1, <2>1, <2>3, <3>1
  <2> QED
    BY <1>2, <2>2, <2>3
<1>8. ASSUME NEW p \in Paths, NEW q \in Above(p) PROVE Len(q) < Len(p)
  <2>1. q \in Paths /\ p \in Within(q) /\ p # q
    BY <1>3, <1>4
  <2>2. CASE Len(p) <= Len(q)
    <3>1. Len(p) = Len(q) /\ \A i \in 1..Len(p) : p[i] = q[i]
      BY <1>1, <1>2, <2>1, <2>2
    <3>2. q \in Within(p)
      BY <1>1, <1>2, <2>1, <3>1
    <3> QED
      BY <1>6, <2>1, <3>2
  <2> QED
    BY <1>2, <2>1, <2>2
<1> QED
  BY <1>2, <1>3, <1>4, <1>5, <1>6, <1>7, <1>8

LEMMA LeastNatural ==
  ASSUME NEW T, T \subseteq Nat, T # {}
  PROVE  \E n \in T : \A m \in T : n <= m
<1>1. PICK n \in T : \A m \in T : ~(<<m, n>> \in OpToRel(<, Nat))
  BY NatLessThanWellFounded, WFMin, Zenon
<1>2. \A m \in T : ~(m < n)
  BY <1>1 DEF OpToRel
<1> QED
  BY <1>2

(* A path of a set that has no other of the set above it. *)
LEMMA Topmost ==
  ASSUME NEW Some, Some \subseteq Paths, NEW p \in Some
  PROVE  \E q \in Some : p \in Within(q) /\ \A r \in Some : r \notin Above(q)
<1> DEFINE Higher == {q \in Some : p \in Within(q)}
           Lengths == {Len(q) : q \in Higher}
<1>1. p \in Higher /\ Higher \subseteq Paths
  BY Order
<1>2. Lengths \subseteq Nat /\ Lengths # {}
  BY <1>1, Order
<1>3. PICK n \in Lengths : \A m \in Lengths : n <= m
  <2> HIDE DEF Lengths
  <2> QED
    BY <1>2, LeastNatural
<1>4. PICK q \in Higher : n = Len(q)
  OBVIOUS
<1>5. ASSUME NEW r \in Some, r \in Above(q) PROVE FALSE
  <2>1. r \in Higher /\ q \in Paths /\ r \in Paths
    BY <1>1, <1>5, Order
  <2>2. Len(q) <= Len(r)
    BY <1>3, <1>4, <2>1
  <2>3. Len(r) < Len(q) /\ Len(r) \in Nat /\ Len(q) \in Nat
    BY <1>5, <2>1, Order
  <2> QED
    BY <2>2, <2>3
<1> QED
  BY <1>5
-----------------------------------------------------------------------------
(* captureBatch: its roots are in the docsets, cover every path the batch    *)
(* names or creates on the way, and exist only where the batch names them.   *)

Covered(rs, p) == \E r \in rs : p \in Within(r)
LeavesOf(b) ==
  /\ Len(b) \in Nat
  /\ \A i \in 1..Len(b) : /\ b[i].act \in Acts /\ b[i].path \in Paths /\ Inside(b[i].path)
                          /\ b[i].act = "write" => b[i].val \in Contents
Captures(rs, b, t) ==
  /\ rs \subseteq Paths /\ \A r \in rs : Inside(r)
  /\ \A r \in rs : t[r] = Absent \/ \E i \in 1..Len(b) : b[i].path = r
  /\ \A i \in 1..Len(b) : Covered(rs, b[i].path)
  /\ \A i \in 1..Len(b) : \A q \in Above(b[i].path) : t[q] = Absent => Covered(rs, q)

LEMMA Highest ==
  ASSUME NEW t \in Trees, NEW p \in Paths
  PROVE  /\ HighestMissing(t, p) \in Paths /\ p \in Within(HighestMissing(t, p))
         /\ t[HighestMissing(t, p)] # Absent => HighestMissing(t, p) = p
         /\ t[p] = Absent => \A r \in Above(HighestMissing(t, p)) : t[r] # Absent
<1>1. CASE t[p] # Absent
  <2>1. HighestMissing(t, p) = p
    BY <1>1 DEF HighestMissing
  <2> QED
    BY <1>1, <2>1, Order
<1>2. CASE t[p] = Absent
  <2> DEFINE Gone == {q \in Above(p) \cup {p} : t[q] = Absent}
             IsHighest(q) == t[q] = Absent /\ \A r \in Above(q) : t[r] # Absent
             h == CHOOSE q \in Above(p) \cup {p} : IsHighest(q)
  <2>1. Gone \subseteq Paths /\ p \in Gone
    BY <1>2, Order
  <2>2. PICK q \in Gone : p \in Within(q) /\ \A r \in Gone : r \notin Above(q)
    <3> HIDE DEF Gone
    <3> QED
      BY <2>1, Topmost
  <2>3. \A r \in Above(q) : r \in Above(p) \cup {p}
    <3> SUFFICES ASSUME NEW r \in Above(q) PROVE r \in Above(p) \cup {p}
      OBVIOUS
    <3>1. q \in Paths /\ r \in Paths /\ q \in Within(r)
      BY <2>1, Order
    <3>2. p \in Within(r)
      BY <2>2, <3>1, Order
    <3> QED
      BY <3>1, <3>2, Order
  <2>4. q \in Above(p) \cup {p} /\ IsHighest(q)
    BY <2>2, <2>3
  <2>5. h \in Above(p) \cup {p} /\ IsHighest(h)
    <3> HIDE DEF IsHighest
    <3> QED
      BY <2>4
  <2>6. HighestMissing(t, p) = h
    BY <1>2 DEF HighestMissing
  <2> HIDE DEF h
  <2>7. h \in Paths /\ p \in Within(h)
    BY <2>5, Order
  <2> QED
    BY <2>5, <2>6, <2>7
<1> QED
  BY <1>1, <1>2

LEMMA RootsCapture ==
  ASSUME NEW t \in Trees, WellFormed(t), \A d \in DocsetRoots : t[d] = Dir,
         NEW b, LeavesOf(b)
  PROVE  Captures(CaptureRoots(t, b), b, t)
<1> DEFINE touched == {HighestMissing(t, b[i].path) : i \in 1..Len(b)}
           rs == CaptureRoots(t, b)
<1>1. ASSUME NEW i \in 1..Len(b)
      PROVE  /\ b[i].path \in Paths /\ Inside(b[i].path)
             /\ HighestMissing(t, b[i].path) \in Paths
             /\ b[i].path \in Within(HighestMissing(t, b[i].path))
             /\ t[HighestMissing(t, b[i].path)] # Absent => HighestMissing(t, b[i].path) = b[i].path
  <2>1. b[i].path \in Paths /\ Inside(b[i].path)
    BY DEF LeavesOf
  <2> QED
    BY <2>1, Highest
<1>2. touched \subseteq Paths /\ \A i \in 1..Len(b) : HighestMissing(t, b[i].path) \in touched
  BY <1>1
<1>3. rs = {q \in touched : \A r \in touched : r \notin Above(q)}
  <2>1. \A q, r \in touched : r \in Above(q) <=> IsStrictPrefix(r, q)
    BY <1>2 DEF Above
  <2>2. rs = {q \in touched : ~\E r \in touched : IsStrictPrefix(r, q)}
    BY DEF CaptureRoots
  <2> HIDE DEF touched, rs
  <2> QED
    BY <2>1, <2>2
<1>4. \A q \in touched : Covered(rs, q)
  <2> SUFFICES ASSUME NEW q \in touched PROVE Covered(rs, q)
    OBVIOUS
  <2> HIDE DEF touched, rs
  <2>1. PICK r \in touched : q \in Within(r) /\ \A s \in touched : s \notin Above(r)
    BY <1>2, Topmost
  <2> QED
    BY <1>3, <2>1 DEF Covered
<1>5. \A r \in rs : \E i \in 1..Len(b) : r = HighestMissing(t, b[i].path)
  BY <1>3
<1> HIDE DEF touched, rs
<1>6. rs \subseteq Paths
  BY <1>2, <1>3
<1>7. ASSUME NEW r \in rs
      PROVE  Inside(r) /\ (t[r] = Absent \/ \E i \in 1..Len(b) : b[i].path = r)
  <2>1. PICK i \in 1..Len(b) : r = HighestMissing(t, b[i].path)
    BY <1>5
  <2>2. CASE t[r] # Absent
    BY <1>1, <2>1, <2>2
  <2>3. CASE t[r] = Absent
    <3> DEFINE p == b[i].path
    <3>1. p \in Paths /\ Inside(p) /\ r \in Paths /\ p \in Within(r)
      BY <1>1, <2>1
    <3> HIDE DEF p
    <3>2. PICK d \in DocsetRoots : d \in Above(p)
      BY <3>1 DEF Inside
    <3>3. d \in Paths /\ t[d] = Dir /\ Dir # Absent /\ p \in Within(d)
      BY <3>1, <3>2, Order, PathsAssumption, ContentsAssumption
    <3>4. d \notin Within(r)
      <4> SUFFICES ASSUME d \in Within(r) PROVE FALSE
        OBVIOUS
      <4>1. d # r
        BY <2>3, <3>3
      <4>2. r \in Above(d)
        BY <3>1, <3>3, <4>1, Order
      <4>3. t[r] = Dir
        BY <3>3, <4>2 DEF WellFormed
      <4> QED
        BY <2>3, <3>3, <4>3
    <3>5. d \in Above(r)
      BY <3>1, <3>3, <3>4, Order
    <3>6. r \notin DocsetRoots
      BY <2>3, <3>3
    <3> QED
      BY <2>3, <3>5, <3>6 DEF Inside
  <2> QED
    BY <2>2, <2>3
<1>8. ASSUME NEW i \in 1..Len(b) PROVE Covered(rs, b[i].path)
  <2> DEFINE p == b[i].path
             h == HighestMissing(t, b[i].path)
  <2>1. p \in Paths /\ h \in Paths /\ p \in Within(h) /\ h \in touched
    BY <1>1, <1>2
  <2> HIDE DEF p, h
  <2>2. PICK r \in rs : h \in Within(r)
    BY <1>4, <2>1 DEF Covered
  <2>3. p \in Within(r)
    BY <1>6, <2>1, <2>2, Order
  <2> QED
    BY <2>3 DEF Covered, p
<1>9. ASSUME NEW i \in 1..Len(b), NEW q \in Above(b[i].path), t[q] = Absent
      PROVE  Covered(rs, q)
  <2> DEFINE p == b[i].path
             h == HighestMissing(t, p)
  <2>0. p \in Paths
    BY <1>1
  <2>1. h \in Paths /\ p \in Within(h) /\ h \in touched
    BY <1>1, <1>2
  <2>2. q \in Paths /\ p \in Within(q)
    BY <2>0, Order
  <2>3. t[p] = Absent
    <3>1. t[p] # Absent => t[q] = Dir
      BY <1>9, <2>0 DEF WellFormed
    <3> QED
      BY <1>9, <3>1, ContentsAssumption
  <2>4. \A r \in Above(h) : t[r] # Absent
    BY <2>0, <2>3, Highest
  <2> HIDE DEF p, h
  <2>5. q \in Within(h)
    <3>1. q \notin Above(h)
      BY <1>9, <2>4
    <3>2. q \in Within(h) \/ h \in Within(q)
      BY <2>0, <2>1, <2>2, Order
    <3>3. h \in Within(q) => q = h
      BY <2>1, <2>2, <3>1, Order
    <3> QED
      BY <2>1, <3>2, <3>3, Order
  <2>6. PICK r \in rs : h \in Within(r)
    BY <1>4, <2>1 DEF Covered
  <2>7. q \in Within(r)
    BY <1>6, <2>1, <2>2, <2>5, <2>6, Order
  <2> QED
    BY <2>7 DEF Covered
<1>10. Captures(rs, b, t)
  BY <1>6, <1>7, <1>8, <1>9 DEF Captures
<1> QED
  BY <1>10 DEF rs
-----------------------------------------------------------------------------
(* The mutations: each keeps the tree a tree, and outside the subtree of its *)
(* target it at most creates the directories above it.                       *)

Gentle(t, u, p) ==
  \A q \in Paths : u[q] = t[q] \/ q \in Within(p) \/ (t[q] = Absent /\ u[q] = Dir /\ q \in Above(p))

LEMMA DirsMade ==
  ASSUME NEW t \in Trees, NEW ds
  PROVE  /\ WithDirs(t, ds) \in Trees
         /\ \A q \in Paths : WithDirs(t, ds)[q] = IF q \in ds /\ t[q] = Absent THEN Dir ELSE t[q]
BY DEF WithDirs, Trees

LEMMA MakeDirs ==
  ASSUME NEW t \in Trees, WellFormed(t), NEW p \in Paths, NoFileAbove(t, p), t[p] \notin Contents
  PROVE  /\ MkdirAll(t, p) \in Trees /\ WellFormed(MkdirAll(t, p)) /\ Gentle(t, MkdirAll(t, p), p)
         /\ \A q \in Paths : MkdirAll(t, p)[q] = t[q] \/ (t[q] = Absent /\ MkdirAll(t, p)[q] = Dir)
         /\ MkdirAll(t, p)[p] = Dir
<1> DEFINE u == MkdirAll(t, p)
<1>1. u \in Trees /\ \A q \in Paths : u[q] = IF q \in Above(p) \cup {p} /\ t[q] = Absent THEN Dir ELSE t[q]
  BY DirsMade DEF MkdirAll
<1> HIDE DEF u
<1>2. \A q \in Paths : t[q] \in Contents \cup {Absent, Dir}
  BY DEF Trees
<1>3. \A q \in Above(p) \cup {p} : q \in Paths /\ u[q] = Dir
  BY <1>1, <1>2, Order DEF NoFileAbove
<1>4. WellFormed(u)
  <2> SUFFICES ASSUME NEW x \in Paths, u[x] # Absent, NEW q \in Above(x) PROVE u[q] = Dir
    BY DEF WellFormed
  <2>1. q \in Paths /\ x \in Within(q)
    BY Order
  <2>2. CASE t[x] # Absent
    <3>1. t[q] = Dir
      BY <2>2 DEF WellFormed
    <3> QED
      BY <1>1, <2>1, <3>1, ContentsAssumption
  <2>3. CASE t[x] = Absent
    <3>1. x \in Above(p) \cup {p}
      BY <1>1, <2>3
    <3>2. p \in Within(x)
      BY <3>1, Order
    <3>3. p \in Within(q)
      BY <2>1, <3>2, Order
    <3>4. q \in Above(p) \cup {p}
      BY <2>1, <3>3, Order
    <3> QED
      BY <1>3, <3>4
  <2> QED
    BY <2>2, <2>3
<1>5. Gentle(t, u, p)
  BY <1>1, Order DEF Gentle
<1> QED
  BY <1>1, <1>3, <1>4, <1>5 DEF u

LEMMA WriteFile ==
  ASSUME NEW t \in Trees, WellFormed(t), NEW p \in Paths, NoFileAbove(t, p), t[p] # Dir,
         NEW v \in Contents
  PROVE  /\ Write(t, p, v) \in Trees /\ WellFormed(Write(t, p, v)) /\ Gentle(t, Write(t, p, v), p)
         /\ Write(t, p, v)[p] = v
         /\ \A q \in Paths : q # p =>
              Write(t, p, v)[q] = t[q] \/ (t[q] = Absent /\ Write(t, p, v)[q] = Dir /\ q \in Above(p))
<1> DEFINE w == WithDirs(t, Above(p))
           u == Write(t, p, v)
<1>1. w \in Trees /\ \A q \in Paths : w[q] = IF q \in Above(p) /\ t[q] = Absent THEN Dir ELSE t[q]
  BY DirsMade
<1>2. u = [w EXCEPT ![p] = v]
  BY DEF Write
<1> HIDE DEF u, w
<1>3. u \in Trees /\ u[p] = v /\ \A q \in Paths : q # p => u[q] = w[q]
  BY <1>1, <1>2 DEF Trees
<1>4. \A q \in Paths : t[q] \in Contents \cup {Absent, Dir}
  BY DEF Trees
<1>5. \A q \in Above(p) : q \in Paths /\ q # p /\ u[q] = Dir
  BY <1>1, <1>3, <1>4, Order DEF NoFileAbove
<1>6. WellFormed(u)
  <2> SUFFICES ASSUME NEW x \in Paths, u[x] # Absent, NEW q \in Above(x) PROVE u[q] = Dir
    BY DEF WellFormed
  <2>1. q \in Paths /\ x \in Within(q) /\ x # q
    BY Order
  <2>2. CASE x \in Above(p) \cup {p}
    <3>1. p \in Within(x)
      BY <2>2, Order
    <3>2. p \in Within(q)
      BY <2>1, <3>1, Order
    <3>3. q # p
      BY <2>1, <3>1, Order
    <3> QED
      BY <1>5, <2>1, <3>2, <3>3, Order
  <2>3. CASE x \notin Above(p) \cup {p}
    <3>1. t[x] # Absent
      BY <1>1, <1>3, <2>3
    <3>2. t[q] = Dir
      BY <3>1 DEF WellFormed
    <3>3. q # p
      BY <3>2
    <3> QED
      BY <1>1, <1>3, <2>1, <3>2, <3>3, ContentsAssumption
  <2> QED
    BY <2>2, <2>3
<1>7. Gentle(t, u, p)
  BY <1>1, <1>3, Order DEF Gentle
<1>8. \A q \in Paths : q # p => u[q] = t[q] \/ (t[q] = Absent /\ u[q] = Dir /\ q \in Above(p))
  BY <1>1, <1>3
<1> QED
  BY <1>3, <1>6, <1>7, <1>8 DEF u

LEMMA TakeAway ==
  ASSUME NEW t \in Trees, WellFormed(t), NEW p \in Paths
  PROVE  /\ Without(t, p) \in Trees /\ WellFormed(Without(t, p)) /\ Gentle(t, Without(t, p), p)
         /\ \A q \in Paths : Without(t, p)[q] = IF q \in Within(p) THEN Absent ELSE t[q]
<1> DEFINE u == Without(t, p)
<1>1. u \in Trees /\ \A q \in Paths : u[q] = IF q \in Within(p) THEN Absent ELSE t[q]
  BY DEF Without, Trees
<1> HIDE DEF u
<1>2. WellFormed(u)
  <2> SUFFICES ASSUME NEW x \in Paths, u[x] # Absent, NEW q \in Above(x) PROVE u[q] = Dir
    BY DEF WellFormed
  <2>1. q \in Paths /\ x \in Within(q) /\ x \notin Within(p) /\ t[x] # Absent
    BY <1>1, Order
  <2>2. q \notin Within(p)
    BY <2>1, Order
  <2>3. t[q] = Dir
    BY <2>1 DEF WellFormed
  <2> QED
    BY <1>1, <2>1, <2>2, <2>3
<1>3. Gentle(t, u, p)
  BY <1>1 DEF Gentle
<1> QED
  BY <1>1, <1>2, <1>3 DEF u

LEMMA ParentsMade ==
  ASSUME NEW t \in Trees, WellFormed(t), NEW p \in Paths, NoFileAbove(t, p)
  PROVE  /\ WithDirs(t, Above(p)) \in Trees /\ WellFormed(WithDirs(t, Above(p)))
         /\ \A q \in Paths : \/ WithDirs(t, Above(p))[q] = t[q]
                             \/ t[q] = Absent /\ WithDirs(t, Above(p))[q] = Dir /\ q \in Above(p)
<1> DEFINE u == WithDirs(t, Above(p))
<1>1. u \in Trees /\ \A q \in Paths : u[q] = IF q \in Above(p) /\ t[q] = Absent THEN Dir ELSE t[q]
  BY DirsMade
<1> HIDE DEF u
<1>2. \A q \in Paths : t[q] \in Contents \cup {Absent, Dir}
  BY DEF Trees
<1>3. \A q \in Above(p) : q \in Paths /\ u[q] = Dir
  BY <1>1, <1>2, Order DEF NoFileAbove
<1>4. WellFormed(u)
  <2> SUFFICES ASSUME NEW x \in Paths, u[x] # Absent, NEW q \in Above(x) PROVE u[q] = Dir
    BY DEF WellFormed
  <2>1. q \in Paths /\ x \in Within(q)
    BY Order
  <2>2. CASE t[x] # Absent
    <3>1. t[q] = Dir
      BY <2>2 DEF WellFormed
    <3> QED
      BY <1>1, <2>1, <3>1, ContentsAssumption
  <2>3. CASE t[x] = Absent
    <3>1. x \in Above(p)
      BY <1>1, <2>3
    <3>2. p \in Within(x) /\ x # p
      BY <3>1, Order
    <3>3. p \in Within(q) /\ q # p
      BY <2>1, <3>2, Order
    <3> QED
      BY <1>3, <2>1, <3>3, Order
  <2> QED
    BY <2>2, <2>3
<1>5. \A q \in Paths : u[q] = t[q] \/ (t[q] = Absent /\ u[q] = Dir /\ q \in Above(p))
  BY <1>1
<1> QED
  BY <1>1, <1>4, <1>5 DEF u

(* An applied leaf: a file it leaves was there, or is the one it wrote. *)
LEMMA LeafApplied ==
  ASSUME NEW t \in Trees, WellFormed(t), NEW l, l.act \in Acts, l.path \in Paths, Inside(l.path),
         l.act = "write" => l.val \in Contents, Accepts(t, l)
  PROVE  /\ Effect(t, l) \in Trees /\ WellFormed(Effect(t, l)) /\ Gentle(t, Effect(t, l), l.path)
         /\ \A q \in Paths : Effect(t, l)[q] \in Contents =>
              \/ Effect(t, l)[q] = t[q]
              \/ l.act = "write" /\ l.path = q /\ l.val = Effect(t, l)[q]
<1> DEFINE p == l.path
<1>1. CASE l.act = "write"
  <2>1. CanWrite(t, p, l.cond) /\ Effect(t, l) = Write(t, p, l.val)
    BY <1>1 DEF Accepts, Effect
  <2>2. NoFileAbove(t, p) /\ t[p] # Dir
    BY <2>1 DEF CanWrite
  <2> HIDE DEF p
  <2>3. l.val \in Contents
    BY <1>1
  <2>4. p \in Paths
    BY DEF p
  <2>5. /\ Write(t, p, l.val) \in Trees /\ WellFormed(Write(t, p, l.val))
        /\ Gentle(t, Write(t, p, l.val), p) /\ Write(t, p, l.val)[p] = l.val
        /\ \A q \in Paths : q # p =>
              Write(t, p, l.val)[q] = t[q] \/ (t[q] = Absent /\ Write(t, p, l.val)[q] = Dir /\ q \in Above(p))
    BY <2>2, <2>3, <2>4, WriteFile
  <2> QED
    BY <1>1, <2>1, <2>5, ContentsAssumption DEF p
<1>2. CASE l.act \in {"mkdir", "mkdir_all"}
  <2>1. NoFileAbove(t, p) /\ t[p] \notin Contents /\ Effect(t, l) = MkdirAll(t, p)
    <3>1. CASE l.act = "mkdir"
      BY <3>1, ContentsAssumption DEF Accepts, Effect, CanMkdir, Mkdir, MkdirAll
    <3>2. CASE l.act = "mkdir_all"
      BY <3>2 DEF Accepts, Effect, CanMkdirAll
    <3> QED
      BY <1>2, <3>1, <3>2
  <2> HIDE DEF p
  <2>2. p \in Paths
    BY DEF p
  <2>3. /\ MkdirAll(t, p) \in Trees /\ WellFormed(MkdirAll(t, p)) /\ Gentle(t, MkdirAll(t, p), p)
        /\ \A q \in Paths : MkdirAll(t, p)[q] = t[q] \/ (t[q] = Absent /\ MkdirAll(t, p)[q] = Dir)
    BY <2>1, <2>2, MakeDirs
  <2> QED
    BY <2>1, <2>3, ContentsAssumption DEF p
<1>3. CASE l.act \in {"remove", "remove_all"}
  <2>1. Effect(t, l) = Without(t, p)
    BY <1>3 DEF Effect
  <2> HIDE DEF p
  <2>2. p \in Paths
    BY DEF p
  <2>3. /\ Without(t, p) \in Trees /\ WellFormed(Without(t, p)) /\ Gentle(t, Without(t, p), p)
        /\ \A q \in Paths : Without(t, p)[q] = IF q \in Within(p) THEN Absent ELSE t[q]
    BY <2>2, TakeAway
  <2> QED
    BY <2>1, <2>3, ContentsAssumption DEF p
<1> QED
  BY <1>1, <1>2, <1>3 DEF Acts
-----------------------------------------------------------------------------
(* The inductive invariant.                                                  *)

CBefore == before \in Trees /\ WellFormed(before) /\ \A d \in DocsetRoots : before[d] = Dir
CTypes ==
  /\ CBefore /\ tree \in Trees /\ WellFormed(tree)
  /\ faults \in 0..MaxFaults /\ crashes \in 0..MaxCrashes
  /\ phase \in {"start", "apply", "undo", "rebuild", "done"}
  /\ result \in {"none", "ok", "error", "rollback_error", "crashed"}
CBatch == LeavesOf(batch) /\ Captures(roots, batch, before)

(* Outside the captured roots the tree is the one before the batch.          *)
COutside == \A p \in Paths : tree[p] = before[p] \/ Covered(roots, p)

(* Nothing has changed before the first leaf; a root that is no longer to be *)
(* removed is empty; and what is still to be rebuilt is missing, or is there *)
(* already as the directory of something rebuilt.                            *)
CPhases ==
  /\ phase # "done" => result = "none"
  /\ phase = "start" => tree = before
  /\ phase = "apply" => \E i \in 1..Len(batch) : todo = {i} /\ (i = 1 => tree = before)
  /\ phase = "undo" => /\ todo \subseteq roots
                       /\ \A r \in roots \ todo : \A p \in Within(r) : tree[p] = Absent
  /\ phase = "rebuild" =>
       /\ todo \subseteq Snapshot
       /\ \A p \in Paths : Covered(roots, p) =>
            (tree[p] = Absent /\ p \notin Snapshot \ todo) \/ tree[p] = before[p]

CInv == /\ CTypes /\ CBatch /\ COutside /\ CPhases
        /\ ErrorMeansUndone /\ RollbackFailsOnlyOnFault /\ NeighboursUntouched /\ OldOrNewContent
-----------------------------------------------------------------------------
LEMMA SnapshotMeans ==
  ASSUME roots \subseteq Paths
  PROVE  \A p : p \in Snapshot <=> p \in Paths /\ before[p] # Absent /\ Covered(roots, p)
BY DEF Snapshot, Covered

LEMMA BeginStep ==
  ASSUME CInv, NEW b \in Batches, Begin(b)
  PROVE  CInv'
<1>1. /\ phase = "start" /\ batch' = b /\ before' = tree /\ roots' = CaptureRoots(tree, b)
      /\ phase' = "apply" /\ todo' = {1}
      /\ tree' = tree /\ result' = result /\ faults' = faults /\ crashes' = crashes
  BY DEF Begin, bounds
<1>2. tree = before /\ result = "none"
  BY <1>1 DEF CInv, CPhases
<1>3. LeavesOf(b) /\ Len(b) \in Nat \ {0}
  BY BatchAssumption DEF LeavesOf
<1>4. CTypes'
  BY <1>1, <1>2 DEF CInv, CTypes, CBefore
<1>5. CBatch'
  <2>1. tree \in Trees /\ WellFormed(tree) /\ \A d \in DocsetRoots : tree[d] = Dir
    BY <1>2 DEF CInv, CTypes, CBefore
  <2>2. Captures(CaptureRoots(tree, b), b, tree)
    BY <1>3, <2>1, RootsCapture
  <2> QED
    BY <1>1, <1>3, <2>2 DEF CBatch
<1>6. COutside'
  BY <1>1 DEF COutside
<1>7. CPhases'
  <2>1. 1 \in 1..Len(batch') /\ tree' = before'
    BY <1>1, <1>3
  <2> QED
    BY <1>1, <1>2, <2>1 DEF CPhases
<1>8. ErrorMeansUndone' /\ RollbackFailsOnlyOnFault'
  BY <1>1, <1>2 DEF ErrorMeansUndone, RollbackFailsOnlyOnFault
<1>9. NeighboursUntouched' /\ OldOrNewContent'
  BY <1>1 DEF NeighboursUntouched, OldOrNewContent
<1> QED
  BY <1>4, <1>5, <1>6, <1>7, <1>8, <1>9 DEF CInv

(* A leaf that is to be applied, and what a step gentle to its path keeps.   *)
LEMMA LeafAtHand ==
  ASSUME CInv, NEW i \in 1..Len(batch)
  PROVE  /\ batch[i].act \in Acts /\ batch[i].path \in Paths /\ Inside(batch[i].path)
         /\ batch[i].act = "write" => batch[i].val \in Contents
         /\ batch[i].path \in Targets /\ Covered(roots, batch[i].path)
         /\ \A q \in Above(batch[i].path) : before[q] = Absent => Covered(roots, q)
         /\ roots \subseteq Paths
BY DEF CInv, CBatch, LeavesOf, Captures, Targets

LEMMA GentleKeeps ==
  ASSUME CInv, NEW i \in 1..Len(batch), Gentle(tree, tree', batch[i].path),
         UNCHANGED <<before, batch, roots>>
  PROVE  COutside' /\ NeighboursUntouched'
<1> DEFINE p == batch[i].path
<1>1. /\ p \in Paths /\ p \in Targets /\ Covered(roots, p) /\ roots \subseteq Paths
      /\ \A q \in Above(p) : before[q] = Absent => Covered(roots, q)
  BY LeafAtHand
<1>2. \A q \in Paths : tree'[q] = tree[q] \/ q \in Within(p)
                         \/ (tree[q] = Absent /\ tree'[q] = Dir /\ q \in Above(p))
  BY DEF Gentle
<1> HIDE DEF p
<1>3. COutside'
  <2> SUFFICES ASSUME NEW q \in Paths PROVE tree'[q] = before[q] \/ Covered(roots, q)
    BY DEF COutside, Covered
  <2>1. tree[q] = before[q] \/ Covered(roots, q)
    BY DEF CInv, COutside
  <2>2. q \in Within(p) => Covered(roots, q)
    BY <1>1, Order DEF Covered
  <2> QED
    BY <1>1, <1>2, <2>1, <2>2
<1>4. NeighboursUntouched'
  <2> SUFFICES ASSUME NEW q \in Paths, \A x \in Targets : q \notin Within(x)
               PROVE  tree'[q] = before[q] \/ (Created(q) /\ tree'[q] = Dir)
    BY DEF NeighboursUntouched, Targets, Created
  <2>1. tree[q] = before[q] \/ (Created(q) /\ tree[q] = Dir)
    BY DEF CInv, NeighboursUntouched
  <2>2. q \notin Within(p)
    BY <1>1
  <2>3. CASE tree'[q] = tree[q]
    BY <2>1, <2>3
  <2>4. CASE tree[q] = Absent /\ tree'[q] = Dir /\ q \in Above(p)
    BY <1>1, <2>1, <2>4, ContentsAssumption DEF Created
  <2> QED
    BY <1>2, <2>2, <2>3, <2>4
<1> QED
  BY <1>3, <1>4

LEMMA ApplyLeafStep ==
  ASSUME CInv, ApplyLeaf
  PROVE  CInv'
<1>1. PICK i \in todo : /\ Accepts(tree, batch[i]) /\ tree' = Effect(tree, batch[i])
                        /\ IF i = Len(batch) THEN Finish("ok")
                                             ELSE todo' = {i + 1} /\ UNCHANGED <<phase, result>>
  BY DEF ApplyLeaf
<1>2. phase = "apply" /\ UNCHANGED <<before, batch, roots, faults, crashes>> /\ result = "none"
  BY DEF ApplyLeaf, bounds, CInv, CPhases
<1>3. i \in 1..Len(batch) /\ Len(batch) \in Nat
  BY <1>2 DEF CInv, CPhases, CBatch, LeavesOf
<1>4. /\ batch[i].act \in Acts /\ batch[i].path \in Paths /\ Inside(batch[i].path)
      /\ batch[i].act = "write" => batch[i].val \in Contents
  BY <1>3, LeafAtHand
<1>5. /\ tree' \in Trees /\ WellFormed(tree') /\ Gentle(tree, tree', batch[i].path)
      /\ \A q \in Paths : tree'[q] \in Contents =>
           \/ tree'[q] = tree[q]
           \/ batch[i].act = "write" /\ batch[i].path = q /\ batch[i].val = tree'[q]
  <2>1. tree \in Trees /\ WellFormed(tree)
    BY DEF CInv, CTypes
  <2> QED
    BY <1>1, <1>4, <2>1, LeafApplied
<1>6. COutside' /\ NeighboursUntouched'
  BY <1>2, <1>3, <1>5, GentleKeeps
<1>7. \/ i = Len(batch) /\ phase' = "done" /\ result' = "ok"
      \/ i # Len(batch) /\ phase' = "apply" /\ result' = "none" /\ todo' = {i + 1}
  BY <1>1, <1>2 DEF Finish
<1>8. CTypes' /\ CBatch'
  BY <1>2, <1>5, <1>7 DEF CInv, CTypes, CBefore, CBatch
<1>9. CPhases'
  <2>1. i # Len(batch) => i + 1 \in 1..Len(batch) /\ i + 1 # 1
    BY <1>3
  <2> QED
    BY <1>2, <1>7, <2>1 DEF CPhases
<1>10. ErrorMeansUndone' /\ RollbackFailsOnlyOnFault'
  BY <1>7 DEF ErrorMeansUndone, RollbackFailsOnlyOnFault
<1>11. OldOrNewContent'
  BY <1>2, <1>3, <1>5 DEF CInv, OldOrNewContent
<1> QED
  BY <1>6, <1>8, <1>9, <1>10, <1>11 DEF CInv

(* A leaf that fails has at most created directories above its path, and     *)
(* those only in an I/O error.                                               *)
LEMMA LeafFailed ==
  ASSUME CInv, phase = "apply", NEW i \in todo, FailFrom(i), UNCHANGED <<before, batch, roots>>,
         tree' \in Trees, WellFormed(tree'),
         \A q \in Paths : \/ tree'[q] = tree[q]
                          \/ tree[q] = Absent /\ tree'[q] = Dir /\ q \in Above(batch[i].path) /\ faults' > 0,
         faults' \in 0..MaxFaults, crashes' \in 0..MaxCrashes
  PROVE  CInv'
<1>1. i \in 1..Len(batch) /\ result = "none" /\ (i = 1 => tree = before)
  BY DEF CInv, CPhases
<1>2. batch[i].path \in Paths /\ batch[i].path \in Targets
  BY <1>1, LeafAtHand
<1>3. COutside' /\ NeighboursUntouched'
  <2>1. Gentle(tree, tree', batch[i].path)
    BY DEF Gentle
  <2> QED
    BY <1>1, <2>1, GentleKeeps
<1>4. OldOrNewContent'
  <2>1. \A q \in Paths : tree'[q] \in Contents => tree'[q] = tree[q]
    BY ContentsAssumption
  <2> QED
    BY <2>1 DEF CInv, OldOrNewContent
<1>5. \/ i = 1 /\ phase' = "done" /\ result' = "error"
      \/ i # 1 /\ phase' = "undo" /\ todo' = roots /\ result' = "none"
  BY <1>1 DEF FailFrom, Finish
<1>6. CTypes' /\ CBatch'
  BY <1>5 DEF CInv, CTypes, CBefore, CBatch
<1>7. CPhases'
  BY <1>5 DEF CPhases
<1>8. RollbackFailsOnlyOnFault'
  BY <1>5 DEF RollbackFailsOnlyOnFault
<1>9. ErrorMeansUndone'
  <2> SUFFICES ASSUME i = 1, NEW q \in Paths
               PROVE  tree'[q] = before[q] \/ (faults' > 0 /\ Created(q) /\ tree'[q] = Dir)
    BY <1>5 DEF ErrorMeansUndone, Created, Targets
  <2> QED
    BY <1>1, <1>2 DEF Created
<1> QED
  BY <1>3, <1>4, <1>6, <1>7, <1>8, <1>9 DEF CInv

LEMMA RefuseLeafStep ==
  ASSUME CInv, RefuseLeaf
  PROVE  CInv'
<1>1. PICK i \in todo : FailFrom(i)
  BY DEF RefuseLeaf
<1>2. phase = "apply" /\ UNCHANGED <<tree, before, batch, roots, faults, crashes>>
  BY DEF RefuseLeaf, bounds
<1>3. /\ tree' \in Trees /\ WellFormed(tree') /\ \A q \in Paths : tree'[q] = tree[q]
      /\ faults' \in 0..MaxFaults /\ crashes' \in 0..MaxCrashes
  BY <1>2 DEF CInv, CTypes
<1> QED
  BY <1>1, <1>2, <1>3, LeafFailed

LEMMA BreakLeafStep ==
  ASSUME CInv, BreakLeaf
  PROVE  CInv'
<1>1. PICK i \in todo :
        /\ Accepts(tree, batch[i])
        /\ \/ tree' = tree
           \/ batch[i].act = "write" /\ tree' = WithDirs(tree, Above(batch[i].path))
        /\ FailFrom(i)
  BY DEF BreakLeaf
<1>2. /\ phase = "apply" /\ faults < MaxFaults /\ faults' = faults + 1
      /\ UNCHANGED <<before, batch, roots, crashes>>
  BY DEF BreakLeaf
<1>3. /\ tree \in Trees /\ WellFormed(tree) /\ faults' \in 0..MaxFaults /\ faults' > 0
      /\ crashes' \in 0..MaxCrashes
  BY <1>2, BatchAssumption DEF CInv, CTypes
<1>4. i \in 1..Len(batch)
  BY <1>2 DEF CInv, CPhases
<1>5. batch[i].path \in Paths
  BY <1>4, LeafAtHand
<1>6. /\ tree' \in Trees /\ WellFormed(tree')
      /\ \A q \in Paths : \/ tree'[q] = tree[q]
                          \/ tree[q] = Absent /\ tree'[q] = Dir /\ q \in Above(batch[i].path)
  <2>1. CASE tree' = tree
    BY <1>3, <2>1
  <2>2. CASE batch[i].act = "write" /\ tree' = WithDirs(tree, Above(batch[i].path))
    <3>1. NoFileAbove(tree, batch[i].path)
      BY <1>1, <2>2 DEF Accepts, CanWrite
    <3> QED
      BY <1>3, <1>5, <2>2, <3>1, ParentsMade
  <2> QED
    BY <1>1, <2>1, <2>2
<1> QED
  BY <1>1, <1>2, <1>3, <1>6, LeafFailed
-----------------------------------------------------------------------------
(* restoreBatch *)

(* Every root is inside a docset, so removing one is never refused.          *)
LEMMA UndoStep ==
  ASSUME CInv, Undo
  PROVE  CInv'
<1>1. PICK r \in todo : RemoveRoot(r)
  BY DEF Undo
<1>2. /\ phase = "undo" /\ result = "none" /\ UNCHANGED <<before, batch, roots, faults, crashes>>
      /\ todo \subseteq roots /\ \A x \in roots \ todo : \A p \in Within(x) : tree[p] = Absent
  BY <1>1 DEF Undo, RemoveRoot, bounds, CInv, CPhases
<1>3. r \in roots /\ r \in Paths /\ Inside(r) /\ roots \subseteq Paths
      /\ (before[r] = Absent \/ r \in Targets)
  BY <1>2 DEF CInv, CBatch, Captures, Targets
<1>4. tree \in Trees /\ WellFormed(tree) /\ before \in Trees /\ WellFormed(before)
  BY DEF CInv, CTypes, CBefore
<1>5. /\ Proceed(todo \ {r})
      /\ \/ tree[r] = Absent /\ tree' = tree
         \/ tree' = Without(tree, r)
  BY <1>1, <1>3 DEF RemoveRoot
<1>6. /\ tree' \in Trees /\ WellFormed(tree')
      /\ \A q \in Paths : tree'[q] = IF q \in Within(r) THEN Absent ELSE tree[q]
  <2>1. CASE tree[r] = Absent /\ tree' = tree
    <3>1. ASSUME NEW q \in Paths, q \in Within(r) PROVE tree[q] = Absent
      <4>1. q = r \/ r \in Above(q)
        BY <1>3, <3>1, Order
      <4>2. r \in Above(q) /\ tree[q] # Absent => tree[r] = Dir
        BY <1>4 DEF WellFormed
      <4> QED
        BY <2>1, <4>1, <4>2, ContentsAssumption
    <3> QED
      BY <1>4, <2>1, <3>1
  <2>2. CASE tree' = Without(tree, r)
    BY <1>3, <1>4, <2>2, TakeAway
  <2> QED
    BY <1>5, <2>1, <2>2
<1>7. \/ todo \ {r} # {} /\ phase' = "undo" /\ todo' = todo \ {r} /\ result' = "none"
      \/ todo \ {r} = {} /\ Snapshot = {} /\ phase' = "done" /\ result' = "error"
      \/ todo \ {r} = {} /\ phase' = "rebuild" /\ todo' = Snapshot /\ result' = "none"
  BY <1>2, <1>5 DEF Proceed, Finish
<1>8. \A x \in roots \ (todo \ {r}) : \A p \in Within(x) : tree'[p] = Absent
  <2> SUFFICES ASSUME NEW x \in roots \ (todo \ {r}), NEW p \in Within(x) PROVE tree'[p] = Absent
    OBVIOUS
  <2>1. p \in Paths
    BY <1>3, Order
  <2>2. x = r \/ x \in roots \ todo
    OBVIOUS
  <2> QED
    BY <1>2, <1>6, <2>1, <2>2
<1>9. CTypes' /\ CBatch'
  BY <1>2, <1>6, <1>7 DEF CInv, CTypes, CBefore, CBatch
<1>10. COutside'
  <2> SUFFICES ASSUME NEW q \in Paths PROVE tree'[q] = before[q] \/ Covered(roots, q)
    BY <1>2 DEF COutside, Covered
  <2>1. tree[q] = before[q] \/ Covered(roots, q)
    BY DEF CInv, COutside
  <2>2. q \in Within(r) => Covered(roots, q)
    BY <1>3 DEF Covered
  <2> QED
    BY <1>6, <2>1, <2>2
<1>11. NeighboursUntouched'
  <2> SUFFICES ASSUME NEW q \in Paths, \A x \in Targets : q \notin Within(x)
               PROVE  tree'[q] = before[q] \/ (Created(q) /\ tree'[q] = Dir)
    BY <1>2 DEF NeighboursUntouched, Targets, Created
  <2>1. tree[q] = before[q] \/ (Created(q) /\ tree[q] = Dir)
    BY DEF CInv, NeighboursUntouched
  <2>2. CASE q \in Within(r)
    <3>1. before[r] = Absent
      BY <1>3, <2>2
    <3>2. q = r \/ r \in Above(q)
      BY <1>3, <2>2, Order
    <3>3. r \in Above(q) /\ before[q] # Absent => before[r] = Dir
      BY <1>4 DEF WellFormed
    <3>4. before[q] = Absent
      BY <3>1, <3>2, <3>3, ContentsAssumption
    <3> QED
      BY <1>6, <2>2, <3>4
  <2>3. CASE q \notin Within(r)
    BY <1>6, <2>1, <2>3
  <2> QED
    BY <2>2, <2>3
<1>12. OldOrNewContent'
  <2>1. \A q \in Paths : tree'[q] \in Contents => tree'[q] = tree[q]
    BY <1>6, ContentsAssumption
  <2> QED
    BY <1>2, <2>1 DEF CInv, OldOrNewContent
<1>13. todo \ {r} = {} => \A q \in Paths : Covered(roots, q) => tree'[q] = Absent
  BY <1>8 DEF Covered
<1>14. CPhases'
  <2>1. CASE phase' = "undo"
    BY <1>2, <1>7, <1>8, <2>1 DEF CPhases
  <2>2. CASE phase' = "done"
    BY <2>2 DEF CPhases
  <2>3. CASE phase' = "rebuild"
    <3>1. todo' = Snapshot /\ result' = "none" /\ Snapshot' = Snapshot
      BY <1>2, <1>7, <2>3 DEF Snapshot
    <3>2. \A q \in Paths : Covered(roots, q) => tree'[q] = Absent
      BY <1>7, <1>13, <2>3
    <3>3. \A q \in Paths : Covered(roots', q) <=> Covered(roots, q)
      BY <1>2
    <3> QED
      BY <1>7, <2>3, <3>1, <3>2, <3>3 DEF CPhases
  <2> QED
    BY <1>7, <2>1, <2>2, <2>3
<1>15. ErrorMeansUndone'
  <2> SUFFICES ASSUME todo \ {r} = {}, Snapshot = {}, NEW q \in Paths PROVE tree'[q] = before[q]
    <3>1. result' = "error" => todo \ {r} = {} /\ Snapshot = {}
      BY <1>7
    <3> QED
      BY <1>2, <3>1 DEF ErrorMeansUndone
  <2>1. CASE Covered(roots, q)
    <3>1. q \in Snapshot <=> before[q] # Absent /\ Covered(roots, q)
      BY <1>3, SnapshotMeans
    <3>2. before[q] = Absent
      BY <2>1, <3>1
    <3>3. tree'[q] = Absent
      BY <1>13, <2>1
    <3> QED
      BY <3>2, <3>3
  <2>2. CASE ~Covered(roots, q)
    BY <1>2, <1>10, <2>2 DEF COutside
  <2> QED
    BY <2>1, <2>2
<1>16. RollbackFailsOnlyOnFault'
  BY <1>7 DEF RollbackFailsOnlyOnFault
<1> QED
  BY <1>9, <1>10, <1>11, <1>12, <1>14, <1>15, <1>16 DEF CInv

(* What lies above the next entry has been rebuilt: the entry comes back as  *)
(* it was, and nothing else changes.                                         *)
LEMMA RebuildStep ==
  ASSUME CInv, Rebuild
  PROVE  CInv'
<1>1. PICK p \in todo : Above(p) \cap todo = {} /\ RebuildEntry(p)
  BY DEF Rebuild
<1>2. /\ phase = "rebuild" /\ result = "none" /\ UNCHANGED <<before, batch, roots, faults, crashes>>
      /\ todo \subseteq Snapshot
      /\ \A q \in Paths : Covered(roots, q) =>
           (tree[q] = Absent /\ q \notin Snapshot \ todo) \/ tree[q] = before[q]
  BY <1>1 DEF Rebuild, RebuildEntry, bounds, CInv, CPhases
<1>3. tree \in Trees /\ WellFormed(tree) /\ before \in Trees /\ WellFormed(before) /\ roots \subseteq Paths
  BY DEF CInv, CTypes, CBefore, CBatch, Captures
<1>4. \A q : q \in Snapshot <=> q \in Paths /\ before[q] # Absent /\ Covered(roots, q)
  BY <1>3, SnapshotMeans
<1>5. p \in Paths /\ before[p] # Absent /\ Covered(roots, p)
  BY <1>2, <1>4
<1>6. \A q \in Paths : tree[q] = before[q] \/ Covered(roots, q)
  BY DEF CInv, COutside
<1>7. ASSUME NEW q \in Above(p) PROVE tree[q] = Dir
  <2>1. q \in Paths /\ before[q] = Dir /\ Dir # Absent
    BY <1>3, <1>5, Order, ContentsAssumption DEF WellFormed
  <2>2. q \notin todo
    BY <1>1
  <2>3. Covered(roots, q) => q \in Snapshot \ todo
    BY <1>4, <2>1, <2>2
  <2> QED
    BY <1>2, <1>6, <2>1, <2>3
<1>8. NoFileAbove(tree, p) /\ (tree[p] = Absent \/ tree[p] = before[p])
  BY <1>2, <1>5, <1>7, ContentsAssumption DEF NoFileAbove
<1>9. /\ tree' \in Trees /\ WellFormed(tree') /\ tree'[p] = before[p]
      /\ \A q \in Paths : q # p => tree'[q] = tree[q]
  <2>1. CASE before[p] = Dir
    <3>1. tree' = MkdirAll(tree, p)
      BY <1>1, <2>1 DEF RebuildEntry
    <3>2. tree[p] \notin Contents
      BY <1>8, <2>1, ContentsAssumption
    <3>3. tree' \in Trees /\ WellFormed(tree') /\ tree'[p] = Dir
      BY <1>3, <1>5, <1>8, <3>1, <3>2, MakeDirs
    <3>4. \A q \in Paths : tree'[q] = IF q \in Above(p) \cup {p} /\ tree[q] = Absent THEN Dir ELSE tree[q]
      BY <1>3, <3>1, DirsMade DEF MkdirAll
    <3> QED
      BY <1>7, <2>1, <3>3, <3>4
  <2>2. CASE before[p] # Dir
    <3>1. tree' = Write(tree, p, before[p]) /\ before[p] \in Contents
      BY <1>1, <1>3, <1>5, <2>2 DEF RebuildEntry, Trees
    <3>2. tree[p] # Dir
      BY <1>8, <2>2, ContentsAssumption
    <3>3. /\ tree' \in Trees /\ WellFormed(tree') /\ tree'[p] = before[p]
          /\ \A q \in Paths : q # p =>
               tree'[q] = tree[q] \/ (tree[q] = Absent /\ tree'[q] = Dir /\ q \in Above(p))
      BY <1>3, <1>5, <1>8, <3>1, <3>2, WriteFile
    <3> QED
      BY <1>7, <3>3
  <2> QED
    BY <2>1, <2>2
<1>10. \/ todo = {p} /\ phase' = "done" /\ result' = "error"
       \/ todo # {p} /\ phase' = "rebuild" /\ todo' = todo \ {p} /\ result' = "none"
  BY <1>1, <1>2 DEF RebuildEntry, AfterRebuild, Finish
<1>11. CTypes' /\ CBatch'
  BY <1>2, <1>9, <1>10 DEF CInv, CTypes, CBefore, CBatch
<1>12. COutside'
  <2>1. \A q \in Paths : tree'[q] = before[q] \/ Covered(roots, q)
    BY <1>6, <1>9
  <2> QED
    BY <1>2, <2>1 DEF COutside, Covered
<1>13. NeighboursUntouched'
  BY <1>2, <1>9 DEF CInv, NeighboursUntouched, Targets, Created
<1>14. OldOrNewContent'
  BY <1>2, <1>9 DEF CInv, OldOrNewContent
<1>15. CPhases'
  <2>1. CASE phase' = "done"
    BY <2>1 DEF CPhases
  <2>2. CASE phase' = "rebuild"
    <3>1. todo' = todo \ {p} /\ result' = "none" /\ Snapshot' = Snapshot
      BY <1>2, <1>10, <2>2 DEF Snapshot
    <3>2. todo' \subseteq Snapshot
      BY <1>2, <3>1
    <3>3. \A q \in Paths : Covered(roots, q) =>
            (tree'[q] = Absent /\ q \notin Snapshot \ todo') \/ tree'[q] = before[q]
      BY <1>2, <1>9, <3>1
    <3>4. \A q \in Paths : Covered(roots', q) <=> Covered(roots, q)
      BY <1>2
    <3> QED
      BY <1>2, <2>2, <3>1, <3>2, <3>3, <3>4 DEF CPhases
  <2> QED
    BY <1>10, <2>1, <2>2
<1>16. ErrorMeansUndone'
  <2> SUFFICES ASSUME todo = {p}, NEW q \in Paths PROVE tree'[q] = before[q]
    <3>1. result' = "error" => todo = {p}
      BY <1>10
    <3> QED
      BY <1>2, <3>1 DEF ErrorMeansUndone
  <2>1. q # p /\ Covered(roots, q) /\ tree[q] = Absent /\ q \notin Snapshot \ todo => before[q] = Absent
    BY <1>4
  <2> QED
    BY <1>2, <1>6, <1>9, <2>1
<1>17. RollbackFailsOnlyOnFault'
  BY <1>10 DEF RollbackFailsOnlyOnFault
<1> QED
  BY <1>11, <1>12, <1>13, <1>14, <1>15, <1>16, <1>17 DEF CInv

(* An I/O error of the rollback, or a crash, leaves everything where it is.  *)
LEMMA StopStep ==
  ASSUME CInv, BreakRestore \/ Crash
  PROVE  CInv'
<1>1. /\ UNCHANGED <<tree, before, batch, roots>> /\ phase' = "done"
      /\ result' \in {"rollback_error", "crashed"}
      /\ \/ faults' = faults + 1 /\ faults < MaxFaults /\ crashes' = crashes
         \/ crashes' = crashes + 1 /\ crashes < MaxCrashes /\ faults' = faults /\ result' = "crashed"
  BY DEF BreakRestore, Crash, Finish
<1>2. faults \in 0..MaxFaults /\ crashes \in 0..MaxCrashes
  BY DEF CInv, CTypes
<1>3. /\ faults' \in 0..MaxFaults /\ crashes' \in 0..MaxCrashes
      /\ result' = "rollback_error" => faults' > 0
  BY <1>1, <1>2, BatchAssumption
<1>4. CTypes' /\ CBatch' /\ COutside'
  BY <1>1, <1>3 DEF CInv, CTypes, CBefore, CBatch, COutside, Covered
<1>5. CPhases' /\ ErrorMeansUndone' /\ RollbackFailsOnlyOnFault'
  BY <1>1, <1>3 DEF CPhases, ErrorMeansUndone, RollbackFailsOnlyOnFault
<1>6. NeighboursUntouched' /\ OldOrNewContent'
  BY <1>1 DEF CInv, NeighboursUntouched, OldOrNewContent, Targets, Created
<1> QED
  BY <1>4, <1>5, <1>6 DEF CInv
-----------------------------------------------------------------------------
LEMMA TreeInitKept == Init /\ RootsExist => CInv
<1> SUFFICES ASSUME Init, RootsExist PROVE CInv
  OBVIOUS
<1>1. /\ tree \in Trees /\ WellFormed(tree) /\ before = tree /\ batch = <<>> /\ roots = {}
      /\ phase = "start" /\ result = "none" /\ faults = 0 /\ crashes = 0
  BY DEF Init
<1>2. CTypes
  BY <1>1, BatchAssumption DEF CTypes, CBefore, RootsExist
<1>3. CBatch
  BY <1>1 DEF CBatch, LeavesOf, Captures
<1>4. COutside /\ CPhases /\ ErrorMeansUndone /\ RollbackFailsOnlyOnFault
  BY <1>1 DEF COutside, CPhases, ErrorMeansUndone, RollbackFailsOnlyOnFault
<1>5. NeighboursUntouched /\ OldOrNewContent
  BY <1>1 DEF NeighboursUntouched, OldOrNewContent
<1> QED
  BY <1>2, <1>3, <1>4, <1>5 DEF CInv

LEMMA TreeStepKept == CInv /\ [Next]_vars => CInv'
<1> SUFFICES ASSUME CInv, [Next]_vars PROVE CInv'
  OBVIOUS
<1>1. ASSUME NEW b \in Batches, Begin(b) PROVE CInv'
  BY <1>1, BeginStep
<1>2. CASE ApplyLeaf
  BY <1>2, ApplyLeafStep
<1>3. CASE RefuseLeaf
  BY <1>3, RefuseLeafStep
<1>4. CASE BreakLeaf
  BY <1>4, BreakLeafStep
<1>5. CASE Undo
  BY <1>5, UndoStep
<1>6. CASE Rebuild
  BY <1>6, RebuildStep
<1>7. CASE BreakRestore \/ Crash
  BY <1>7, StopStep
<1>8. CASE UNCHANGED vars
  <2>1. UNCHANGED <<tree, before, batch, roots, phase, todo, result, faults, crashes>>
    BY <1>8 DEF vars
  <2>2. CTypes' /\ CBatch' /\ COutside' /\ CPhases'
    BY <2>1 DEF CInv, CTypes, CBefore, CBatch, COutside, CPhases, Snapshot, Covered
  <2>3. ErrorMeansUndone' /\ RollbackFailsOnlyOnFault' /\ NeighboursUntouched' /\ OldOrNewContent'
    BY <2>1 DEF CInv, ErrorMeansUndone, RollbackFailsOnlyOnFault, NeighboursUntouched,
                OldOrNewContent, Targets, Created
  <2> QED
    BY <2>2, <2>3 DEF CInv
<1> QED
  BY <1>1, <1>2, <1>3, <1>4, <1>5, <1>6, <1>7, <1>8 DEF Next

LEMMA TreeInvariant == RootedSpec => []CInv
<1> QED
  BY TreeInitKept, TreeStepKept, PTL DEF RootedSpec

\* A batch that fails is undone, and its undoing fails only on an I/O error.  At
\* every moment, also in a rollback and after a crash, nothing but what it names
\* has changed, and every file has a content somebody gave it: for every tree on
\* which the declared docset roots exist, and every batch.  CommitChangeSet,
\* captureBatch and restoreBatch of changeset.go.
THEOREM BatchesAreAllOrNothing == RootedSpec => []AllOrNothing
<1>1. CInv => AllOrNothing
  BY DEF CInv, CTypes, CBefore, CBatch, Captures, AllOrNothing, TypeOK
<1> QED
  BY <1>1, TreeInvariant, PTL
-----------------------------------------------------------------------------
(* Sequences and numbers *)

(* Counting up to n reaches every number up to n. *)
LEMMA UpTo ==
  ASSUME NEW n \in Nat, NEW Good, 0 \in Good,
         \A i \in 1..n : i - 1 \in Good => i \in Good
  PROVE  \A i \in 0..n : i \in Good
<1> DEFINE Bad == {i \in 0..n : i \notin Good}
<1>1. SUFFICES ASSUME Bad # {} PROVE FALSE
  OBVIOUS
<1>2. PICK i \in Bad : \A m \in Bad : i <= m
  BY <1>1, LeastNatural, Bad \subseteq Nat
<1>3. i \in 1..n /\ i - 1 \in 0..n
  BY <1>2
<1>4. i - 1 \in Good
  BY <1>2, <1>3
<1> QED
  BY <1>2, <1>3, <1>4

\* The largest of a bounded set of numbers.
LEMMA LargestOf ==
  ASSUME NEW n \in Nat, NEW T, T \subseteq 0..n, T # {}
  PROVE  Max(T) \in T /\ \A x \in T : x <= Max(T)
<1> DEFINE Rest == {n - x : x \in T}
<1>1. \A x \in T : x \in Nat /\ n - x \in Nat
  OBVIOUS
<1>2a. Rest \subseteq Nat /\ Rest # {}
  BY <1>1
<1>2. PICK y \in Rest : \A m \in Rest : y <= m
  BY <1>2a, LeastNatural
<1>3. PICK z \in T : y = n - z
  BY <1>2
<1>4. ASSUME NEW x \in T PROVE z >= x
  <2>1. n - x \in Rest
    OBVIOUS
  <2>2. n - z <= n - x
    BY <1>2, <1>3, <2>1
  <2>3. x \in Nat /\ z \in Nat
    BY <1>1
  <2> QED
    BY <2>2, <2>3
<1> QED
  BY <1>4 DEF Max

\* The least of a set of numbers.
LEMMA LeastOf ==
  ASSUME NEW T, T \subseteq Nat, T # {}
  PROVE  Min(T) \in T /\ \A x \in T : Min(T) <= x
<1>1. PICK n \in T : \A m \in T : n <= m
  BY LeastNatural
<1> QED
  BY <1>1 DEF Min

(* What Kept computes, place by place. *)
Keeping(f, s, T) ==
  f = [i \in 0..Len(s) |->
         IF i = 0 THEN <<>> ELSE IF s[i] \in T THEN Append(f[i - 1], s[i]) ELSE f[i - 1]]

\* The recursion of Kept defines a function.
LEMMA KeepingExists ==
  ASSUME NEW S, NEW s \in Seq(S), NEW T
  PROVE  \E f : Keeping(f, s, T)
<1> DEFINE Partial(n, g) ==
             \A i \in 0..n :
               g[i] = IF i = 0 THEN <<>>
                      ELSE IF s[i] \in T THEN Append(g[i - 1], s[i]) ELSE g[i - 1]
           Good == {n \in 0..Len(s) : \E g : Partial(n, g)}
<1>1. Len(s) \in Nat
  OBVIOUS
<1>2. 0 \in Good
  <2>1. Partial(0, [i \in {0} |-> <<>>])
    OBVIOUS
  <2> HIDE DEF Partial
  <2> QED
    BY <1>1, <2>1
<1>3. ASSUME NEW n \in 1..Len(s), n - 1 \in Good PROVE n \in Good
  <2>1. PICK g : Partial(n - 1, g)
    BY <1>3
  <2> DEFINE h == [i \in 0..n |-> IF i < n THEN g[i]
                                  ELSE IF s[n] \in T THEN Append(g[n - 1], s[n]) ELSE g[n - 1]]
  <2>2. ASSUME NEW i \in 0..n
        PROVE  h[i] = IF i = 0 THEN <<>>
                      ELSE IF s[i] \in T THEN Append(h[i - 1], s[i]) ELSE h[i - 1]
    <3>1. CASE i < n
      BY <2>1, <3>1, <1>1
    <3>2. CASE i = n
      BY <2>1, <3>2, <1>1
    <3> QED
      BY <3>1, <3>2, <1>1
  <2>3. Partial(n, h)
    BY <2>2
  <2> HIDE DEF Partial, h
  <2> QED
    BY <2>3, <1>1
<1>4. Len(s) \in Good
  <2> HIDE DEF Good
  <2>1. \A i \in 0..Len(s) : i \in Good
    BY <1>1, <1>2, <1>3, UpTo
  <2> QED
    BY <1>1, <2>1
<1>5. PICK g : Partial(Len(s), g)
  BY <1>4
<1> DEFINE h == [i \in 0..Len(s) |-> g[i]]
<1>6. Keeping(h, s, T)
  <2>1. ASSUME NEW i \in 0..Len(s)
        PROVE  h[i] = IF i = 0 THEN <<>>
                      ELSE IF s[i] \in T THEN Append(h[i - 1], s[i]) ELSE h[i - 1]
    BY <1>5, <1>1
  <2> HIDE DEF h
  <2>2. h = [i \in 0..Len(s) |-> h[i]]
    BY DEF h
  <2> QED
    BY <2>1, <2>2 DEF Keeping
<1> QED
  BY <1>6

(* f has what Kept takes of each beginning of s. *)
KeptUpTo(f, s, T, S) ==
  /\ Kept(s, T) = f[Len(s)] /\ f[0] = <<>>
  /\ \A i \in 1..Len(s) : f[i] = IF s[i] \in T THEN Append(f[i - 1], s[i]) ELSE f[i - 1]
  /\ \A i \in 0..Len(s) :
       f[i] \in Seq({s[j] : j \in 1..i} \cap T) /\ f[i] \in Seq(S) /\ Len(f[i]) <= i

\* So Kept is the end of what it takes on the way.
LEMMA KeptIs ==
  ASSUME NEW S, NEW s \in Seq(S), NEW T
  PROVE  \E f : KeptUpTo(f, s, T, S)
<1> DEFINE kept == CHOOSE f : Keeping(f, s, T)
<1>1. Keeping(kept, s, T)
  BY KeepingExists
<1>2. Kept(s, T) = kept[Len(s)]
  BY DEF Kept, Keeping
<1> HIDE DEF kept
<1>3. /\ Len(s) \in Nat /\ kept[0] = <<>>
      /\ \A i \in 1..Len(s) :
           kept[i] = IF s[i] \in T THEN Append(kept[i - 1], s[i]) ELSE kept[i - 1]
  <2>1. Len(s) \in Nat
    OBVIOUS
  <2>2. \A i \in 0..Len(s) :
          kept[i] = IF i = 0 THEN <<>>
                    ELSE IF s[i] \in T THEN Append(kept[i - 1], s[i]) ELSE kept[i - 1]
    BY <1>1 DEF Keeping
  <2>3. kept[0] = <<>>
    BY <2>1, <2>2
  <2>4. ASSUME NEW i \in 1..Len(s)
        PROVE  kept[i] = IF s[i] \in T THEN Append(kept[i - 1], s[i]) ELSE kept[i - 1]
    BY <2>1, <2>2
  <2> QED
    BY <2>1, <2>3, <2>4
<1> DEFINE Good == {i \in 0..Len(s) : /\ kept[i] \in Seq({s[j] : j \in 1..i} \cap T)
                                      /\ Len(kept[i]) <= i}
<1>4. 0 \in Good
  <2>1. \A S0 : <<>> \in Seq(S0) /\ Len(<<>>) = 0
    OBVIOUS
  <2>2. kept[0] \in Seq({s[j] : j \in 1..0} \cap T) /\ Len(kept[0]) <= 0
    BY <1>3, <2>1
  <2>3. 0 \in 0..Len(s)
    BY <1>3
  <2> QED
    BY <2>2, <2>3
<1>5. ASSUME NEW i \in 1..Len(s), i - 1 \in Good PROVE i \in Good
  <2> DEFINE Early == {s[j] : j \in 1..(i - 1)} \cap T
             Now == {s[j] : j \in 1..i} \cap T
  <2>1. kept[i - 1] \in Seq(Early) /\ Len(kept[i - 1]) <= i - 1
    BY <1>5
  <2>2. Early \subseteq Now
    BY <1>3
  <2>3. kept[i - 1] \in Seq(Now)
    <3> HIDE DEF Early, Now
    <3> QED
      BY <2>1, <2>2
  <2>4. s[i] \in T => s[i] \in Now
    BY <1>3
  <2>5. kept[i] \in Seq(Now) /\ Len(kept[i]) <= i
    <3> HIDE DEF Early, Now
    <3>1. kept[i] = IF s[i] \in T THEN Append(kept[i - 1], s[i]) ELSE kept[i - 1]
      BY <1>3
    <3>2. i \in Nat /\ Len(kept[i - 1]) \in Nat
      BY <2>3
    <3>3. CASE s[i] \in T
      <4>1. Append(kept[i - 1], s[i]) \in Seq(Now)
        BY <2>3, <2>4, <3>3
      <4>2. Len(Append(kept[i - 1], s[i])) = Len(kept[i - 1]) + 1
        BY <2>3, <2>4, <3>3
      <4> QED
        BY <2>1, <3>1, <3>2, <3>3, <4>1, <4>2
    <3>4. CASE s[i] \notin T
      BY <2>1, <2>3, <3>1, <3>2, <3>4
    <3> QED
      BY <3>3, <3>4
  <2> QED
    BY <2>5, <1>3
<1>6. \A i \in 0..Len(s) : i \in Good
  <2> HIDE DEF Good
  <2> QED
    BY <1>3, <1>4, <1>5, UpTo
<1>7. ASSUME NEW i \in 0..Len(s) PROVE kept[i] \in Seq(S)
  <2> DEFINE Now == {s[j] : j \in 1..i} \cap T
  <2>1. kept[i] \in Seq(Now) /\ Now \subseteq S
    BY <1>6, <1>7, <1>3
  <2> HIDE DEF Now
  <2> QED
    BY <2>1
<1>8. KeptUpTo(kept, s, T, S)
  BY <1>2, <1>3, <1>6, <1>7 DEF KeptUpTo
<1> QED
  BY <1>8

(* Kept takes members of s that are in T, and leaves none out. *)
LEMMA KeptMembers ==
  ASSUME NEW S, NEW s \in Seq(S), NEW T
  PROVE  /\ Kept(s, T) \in Seq(S) /\ Len(Kept(s, T)) <= Len(s)
         /\ \A k \in DOMAIN Kept(s, T) : Kept(s, T)[k] \in T /\ \E j \in DOMAIN s : s[j] = Kept(s, T)[k]
         /\ Kept(s, T) = <<>> <=> \A j \in DOMAIN s : s[j] \notin T
<1>0. PICK f : KeptUpTo(f, s, T, S)
  BY KeptIs
<1>1. /\ Kept(s, T) = f[Len(s)] /\ f[0] = <<>>
      /\ \A i \in 1..Len(s) : f[i] = IF s[i] \in T THEN Append(f[i - 1], s[i]) ELSE f[i - 1]
      /\ \A i \in 0..Len(s) :
           f[i] \in Seq({s[j] : j \in 1..i} \cap T) /\ f[i] \in Seq(S) /\ Len(f[i]) <= i
  BY <1>0 DEF KeptUpTo
<1> DEFINE Members == {s[j] : j \in 1..Len(s)} \cap T
<1>2. Len(s) \in Nat /\ Members \subseteq S
  OBVIOUS
<1>3. Kept(s, T) \in Seq(Members) /\ Len(Kept(s, T)) <= Len(s)
  <2>1. Len(s) \in 0..Len(s)
    BY <1>2
  <2> QED
    BY <1>1, <2>1
<1>4. /\ Kept(s, T) \in Seq(S)
      /\ \A k \in DOMAIN Kept(s, T) : Kept(s, T)[k] \in Members
  <2> HIDE DEF Members
  <2> QED
    BY <1>2, <1>3
<1>5. \A k \in DOMAIN Kept(s, T) : Kept(s, T)[k] \in T /\ \E j \in DOMAIN s : s[j] = Kept(s, T)[k]
  BY <1>4, <1>2
<1>6. ASSUME \A j \in DOMAIN s : s[j] \notin T PROVE Kept(s, T) = <<>>
  <2>1. Members = {}
    BY <1>6
  <2> QED
    BY <2>1, <1>4, <1>3
<1>7. ASSUME NEW j \in DOMAIN s, s[j] \in T PROVE Kept(s, T) # <<>>
  <2> DEFINE Good == {m \in 0..(Len(s) - j) : f[j + m] # <<>>}
  <2>1. Len(s) - j \in Nat /\ j \in 1..Len(s)
    BY <1>2
  <2>2. 0 \in Good
    <3>1. j \in 1..Len(s) /\ j - 1 \in 0..Len(s)
      BY <2>1, <1>2
    <3>2. f[j] = Append(f[j - 1], s[j])
      BY <1>1, <1>7, <3>1
    <3>2a. f[j - 1] \in Seq(S)
      BY <1>1, <3>1
    <3>2b. s[j] \in S
      BY <3>1
    <3>3. f[j + 0] # <<>>
      BY <3>1, <3>2, <3>2a, <3>2b, <1>2
    <3> QED
      BY <3>3, <2>1
  <2>3. ASSUME NEW m \in 1..(Len(s) - j), m - 1 \in Good PROVE m \in Good
    <3>1. j + m \in 1..Len(s) /\ (j + m) - 1 = j + (m - 1) /\ j + (m - 1) \in 0..Len(s)
      BY <2>1, <1>2
    <3>2. f[j + (m - 1)] # <<>>
      BY <2>3
    <3>2a. f[j + (m - 1)] \in Seq(S)
      BY <3>1, <1>1
    <3>2b. s[j + m] \in S
      BY <3>1
    <3>3. f[j + m] = IF s[j + m] \in T THEN Append(f[j + (m - 1)], s[j + m]) ELSE f[j + (m - 1)]
      BY <1>1, <3>1
    <3> DEFINE old == f[j + (m - 1)]
               e == s[j + m]
    <3> HIDE DEF old, e
    <3>4. old # <<>> /\ old \in Seq(S) /\ e \in S
      BY <3>2, <3>2a, <3>2b DEF old, e
    <3>5. Append(old, e) # <<>>
      BY <3>4
    <3>6. f[j + m] # <<>>
      BY <3>3, <3>4, <3>5 DEF old, e
    <3> QED
      BY <3>6, <2>1
  <2>4. Len(s) - j \in Good
    <3> HIDE DEF Good
    <3> QED
      BY <2>1, <2>2, <2>3, UpTo
  <2>5. j + (Len(s) - j) = Len(s)
    <3>1. j \in Nat
      BY <2>1
    <3> QED
      BY <1>2, <3>1
  <2> QED
    BY <2>4, <2>5, <1>1
<1> QED
  BY <1>3, <1>4, <1>5, <1>6, <1>7

\* Nothing appended, and something appended last.
LEMMA ConcatLast ==
  ASSUME NEW S, NEW a \in Seq(S)
  PROVE  a \o <<>> = a /\ \A b \in Seq(S), e \in S : a \o Append(b, e) = Append(a \o b, e)
<1>1. a \o <<>> = a
  OBVIOUS
<1>2. ASSUME NEW b \in Seq(S), NEW e \in S PROVE a \o Append(b, e) = Append(a \o b, e)
  OBVIOUS
<1> QED
  BY <1>1, <1>2

\* Kept takes from two sequences in a row what it takes from each.
LEMMA KeptConcat ==
  ASSUME NEW S, NEW s \in Seq(S), NEW t \in Seq(S), NEW T
  PROVE  Kept(s \o t, T) = Kept(s, T) \o Kept(t, T)
<1> DEFINE both == s \o t
<1>1. both \in Seq(S) /\ Len(both) = Len(s) + Len(t) /\ Len(s) \in Nat /\ Len(t) \in Nat
  OBVIOUS
<1>2. /\ \A i \in 1..Len(s) : both[i] = s[i]
      /\ \A i \in 1..Len(t) : both[Len(s) + i] = t[i]
  <2>1. /\ Len(s) \in Nat /\ Len(t) \in Nat
        /\ \A i \in 1..(Len(s) + Len(t)) : both[i] = IF i <= Len(s) THEN s[i] ELSE t[i - Len(s)]
    BY ConcatProperties
  <2> HIDE DEF both
  <2>2. ASSUME NEW i \in 1..Len(t) PROVE both[Len(s) + i] = t[i]
    <3>1. Len(s) + i \in 1..(Len(s) + Len(t)) /\ ~(Len(s) + i <= Len(s)) /\ (Len(s) + i) - Len(s) = i
      BY <2>1
    <3> QED
      BY <2>1, <3>1
  <2>3. \A i \in 1..Len(s) : i \in 1..(Len(s) + Len(t)) /\ i <= Len(s)
    BY <2>1
  <2> QED
    BY <2>1, <2>2, <2>3
<1> HIDE DEF both
<1>3. PICK f : KeptUpTo(f, s, T, S)
  BY <1>1, KeptIs
<1>3a. /\ Kept(s, T) = f[Len(s)] /\ f[0] = <<>>
       /\ \A i \in 1..Len(s) : f[i] = IF s[i] \in T THEN Append(f[i - 1], s[i]) ELSE f[i - 1]
       /\ \A i \in 0..Len(s) : f[i] \in Seq(S)
  BY <1>3 DEF KeptUpTo
<1>4. PICK g : KeptUpTo(g, t, T, S)
  BY <1>1, KeptIs
<1>4a. /\ Kept(t, T) = g[Len(t)] /\ g[0] = <<>>
       /\ \A i \in 1..Len(t) : g[i] = IF t[i] \in T THEN Append(g[i - 1], t[i]) ELSE g[i - 1]
       /\ \A i \in 0..Len(t) : g[i] \in Seq(S)
  BY <1>4 DEF KeptUpTo
<1>5. PICK h : KeptUpTo(h, both, T, S)
  BY <1>1, KeptIs
<1>5a. /\ Kept(both, T) = h[Len(both)] /\ h[0] = <<>>
       /\ \A i \in 1..Len(both) : h[i] = IF both[i] \in T THEN Append(h[i - 1], both[i]) ELSE h[i - 1]
       /\ \A i \in 0..Len(both) : h[i] \in Seq(S)
  BY <1>5 DEF KeptUpTo
<1>6. h[Len(s)] = f[Len(s)]
  <2> DEFINE Good == {i \in 0..Len(s) : h[i] = f[i]}
  <2>1. 0 \in Good
    BY <1>1, <1>3a, <1>5a
  <2>2. ASSUME NEW i \in 1..Len(s), i - 1 \in Good PROVE i \in Good
    <3>1. i \in 0..Len(s) /\ i \in 1..Len(both) /\ both[i] = s[i] /\ h[i - 1] = f[i - 1]
      BY <1>1, <1>2, <2>2
    <3> QED
      BY <1>3a, <1>5a, <3>1
  <2> HIDE DEF Good
  <2>3. \A i \in 0..Len(s) : i \in Good
    BY <1>1, <2>1, <2>2, UpTo
  <2>4. Len(s) \in Good
    BY <1>1, <2>3
  <2> QED
    BY <2>4 DEF Good
<1>7. h[Len(s) + Len(t)] = f[Len(s)] \o g[Len(t)]
  <2> DEFINE Good == {i \in 0..Len(t) : h[Len(s) + i] = f[Len(s)] \o g[i]}
  <2>0. f[Len(s)] \in Seq(S)
    BY <1>1, <1>3a
  <2>1. 0 \in Good
    <3>1. f[Len(s)] \o <<>> = f[Len(s)]
      BY <2>0, ConcatLast
    <3>2. Len(s) + 0 = Len(s) /\ 0 \in 0..Len(t)
      BY <1>1
    <3> QED
      BY <1>4a, <1>6, <3>1, <3>2
  <2>2. ASSUME NEW i \in 1..Len(t), i - 1 \in Good PROVE i \in Good
    <3>1. /\ Len(s) + i \in 1..Len(both) /\ (Len(s) + i) - 1 = Len(s) + (i - 1)
          /\ both[Len(s) + i] = t[i] /\ i - 1 \in 0..Len(t)
      BY <1>1, <1>2
    <3>2. h[Len(s) + i] = IF t[i] \in T THEN Append(h[Len(s) + (i - 1)], t[i]) ELSE h[Len(s) + (i - 1)]
      BY <1>5a, <3>1
    <3>3. h[Len(s) + (i - 1)] = f[Len(s)] \o g[i - 1] /\ g[i - 1] \in Seq(S)
      BY <2>2, <1>4a, <3>1
    <3>3a. t[i] \in S
      BY <1>1
    <3>4. f[Len(s)] \o Append(g[i - 1], t[i]) = Append(f[Len(s)] \o g[i - 1], t[i])
      <4> DEFINE F == f[Len(s)]
                 G == g[i - 1]
                 e == t[i]
      <4>1. F \in Seq(S) /\ G \in Seq(S) /\ e \in S
        BY <2>0, <3>3, <3>3a
      <4> HIDE DEF F, G, e
      <4>2. F \o Append(G, e) = Append(F \o G, e)
        BY <4>1, ConcatLast
      <4> QED
        BY <4>2 DEF F, G, e
    <3>5. g[i] = IF t[i] \in T THEN Append(g[i - 1], t[i]) ELSE g[i - 1]
      BY <1>4a
    <3>6. h[Len(s) + i] = f[Len(s)] \o g[i]
      BY <3>2, <3>3, <3>4, <3>5, Zenon
    <3>7. i \in 0..Len(t)
      BY <1>1
    <3> QED
      BY <3>6, <3>7
  <2> HIDE DEF Good
  <2>3. \A i \in 0..Len(t) : i \in Good
    BY <1>1, <2>1, <2>2, UpTo
  <2>4. Len(t) \in Good
    BY <1>1, <2>3
  <2> QED
    BY <2>4 DEF Good
<1>8. Kept(both, T) = Kept(s, T) \o Kept(t, T)
  BY <1>1, <1>3a, <1>4a, <1>5a, <1>7
<1> QED
  BY <1>8 DEF both

\* Sequences of one, two and three.
LEMMA ShortSequences ==
  ASSUME NEW S, NEW a \in S, NEW b \in S, NEW c \in S
  PROVE  /\ <<a>> \in Seq(S) /\ <<a, b>> \in Seq(S) /\ <<a, b, c>> \in Seq(S)
         /\ DOMAIN <<a>> = {1} /\ <<a>>[1] = a
         /\ DOMAIN <<a, b>> = {1, 2} /\ <<a, b>>[1] = a /\ <<a, b>>[2] = b
OBVIOUS

\* Two in a row.
LEMMA PairIs ==
  ASSUME NEW a, NEW b
  PROVE  <<a, b>> = <<a>> \o <<b>>
<1> DEFINE s == <<a>>
           t == <<b>>
           u == <<a, b>>
           S == {a, b}
<1>1. /\ s \in Seq(S) /\ Len(s) = 1 /\ s[1] = a
      /\ t \in Seq(S) /\ Len(t) = 1 /\ t[1] = b
      /\ u \in Seq(S) /\ Len(u) = 2 /\ u[1] = a /\ u[2] = b
  OBVIOUS
<1> HIDE DEF s, t, u, S
<1>2. s \o t \in Seq(S) /\ Len(s \o t) = 2
  BY <1>1, ConcatProperties
<1>2a. /\ (s \o t)[1] = IF 1 <= Len(s) THEN s[1] ELSE t[1 - Len(s)]
       /\ (s \o t)[2] = IF 2 <= Len(s) THEN s[2] ELSE t[2 - Len(s)]
  <2>1. 1 \in 1..Len(s) + Len(t) /\ 2 \in 1..Len(s) + Len(t)
    BY <1>1
  <2> QED
    BY <1>1, <2>1, ConcatProperties, Zenon
<1>2b. (s \o t)[1] = a /\ (s \o t)[2] = b
  <2>1. 2 - Len(s) = 1 /\ 1 <= Len(s) /\ ~(2 <= Len(s))
    BY <1>1
  <2> QED
    BY <1>1, <1>2a, <2>1, Zenon
<1>3. ASSUME NEW i \in 1..2 PROVE u[i] = (s \o t)[i]
  <2>1. i = 1 \/ i = 2
    OBVIOUS
  <2> QED
    BY <1>1, <1>2b, <2>1
<1>4. u = s \o t
  BY <1>1, <1>2, <1>3, SeqEqual
<1> QED
  BY <1>4 DEF s, t, u

\* What Kept takes of nothing, of one and of two.
LEMMA KeptShort ==
  ASSUME NEW T
  PROVE  /\ Kept(<<>>, T) = <<>>
         /\ \A a : Kept(<<a>>, T) = IF a \in T THEN <<a>> ELSE <<>>
         /\ \A a, b : Kept(<<a, b>>, T) = Kept(<<a>>, T) \o Kept(<<b>>, T)
<1>1. Kept(<<>>, T) = <<>>
  <2> DEFINE s == <<>>
  <2>1. s \in Seq({}) /\ Len(s) = 0
    OBVIOUS
  <2> HIDE DEF s
  <2>2. PICK f : KeptUpTo(f, s, T, {})
    BY <2>1, KeptIs
  <2>3. Kept(s, T) = <<>>
    BY <2>1, <2>2 DEF KeptUpTo
  <2> QED
    BY <2>3 DEF s
<1>2. ASSUME NEW a PROVE Kept(<<a>>, T) = IF a \in T THEN <<a>> ELSE <<>>
  <2> DEFINE s == <<a>>
  <2>1. s \in Seq({a}) /\ Len(s) = 1 /\ s[1] = a
    OBVIOUS
  <2> HIDE DEF s
  <2>2. PICK f : KeptUpTo(f, s, T, {a})
    BY <2>1, KeptIs
  <2>3. Kept(s, T) = f[1] /\ f[0] = <<>> /\ f[1] = IF a \in T THEN Append(f[0], a) ELSE f[0]
    <3>1. 1 \in 1..Len(s) /\ Len(s) = 1 /\ 1 - 1 = 0
      BY <2>1
    <3> QED
      BY <2>1, <2>2, <3>1 DEF KeptUpTo
  <2>4. Append(<<>>, a) = <<a>>
    OBVIOUS
  <2> QED
    BY <2>3, <2>4 DEF s
<1>3. ASSUME NEW a, NEW b PROVE Kept(<<a, b>>, T) = Kept(<<a>>, T) \o Kept(<<b>>, T)
  <2>1. <<a>> \in Seq({a, b}) /\ <<b>> \in Seq({a, b})
    OBVIOUS
  <2>2. <<a, b>> = <<a>> \o <<b>>
    BY PairIs
  <2>3. Kept(<<a>> \o <<b>>, T) = Kept(<<a>>, T) \o Kept(<<b>>, T)
    <3> DEFINE s == <<a>>
               t == <<b>>
               S == {a, b}
    <3>1. s \in Seq(S) /\ t \in Seq(S)
      BY <2>1
    <3> HIDE DEF s, t, S
    <3>2. Kept(s \o t, T) = Kept(s, T) \o Kept(t, T)
      BY <3>1, KeptConcat
    <3> QED
      BY <3>2 DEF s, t
  <2> QED
    BY <2>2, <2>3
<1> QED
  BY <1>1, <1>2, <1>3

\* The leaves of the commits, in a row.
LEMMA FlattenMembers ==
  ASSUME NEW S, NEW ss \in Seq(Seq(S))
  PROVE  FlattenSeq(ss) \in Seq(S)
<1> DEFINE Flat(f) == f = [i \in 1..Len(ss) |-> IF i = 1 THEN ss[i] ELSE f[i - 1] \o ss[i]]
           Partial(n, g) ==
             \A i \in 1..n : g[i] \in Seq(S) /\ g[i] = IF i = 1 THEN ss[i] ELSE g[i - 1] \o ss[i]
           Good == {n \in 0..Len(ss) : \E g : Partial(n, g)}
           flatten == CHOOSE f : Flat(f)
<1>1. Len(ss) \in Nat
  OBVIOUS
<1>2. 0 \in Good
  BY <1>1
<1>3. ASSUME NEW n \in 1..Len(ss), n - 1 \in Good PROVE n \in Good
  <2>1. PICK g : Partial(n - 1, g)
    BY <1>3
  <2> DEFINE h == [i \in 1..n |-> IF i < n THEN g[i] ELSE IF n = 1 THEN ss[n] ELSE g[n - 1] \o ss[n]]
  <2>2. ASSUME NEW i \in 1..n
        PROVE  h[i] \in Seq(S) /\ h[i] = IF i = 1 THEN ss[i] ELSE h[i - 1] \o ss[i]
    <3>1. CASE i < n
      <4> HIDE DEF Good, flatten
      <4>1. i \in 1..(n - 1) /\ h[i] = g[i] /\ (i # 1 => i - 1 \in 1..n /\ i - 1 < n)
        BY <3>1, <1>1
      <4>2. i # 1 => h[i - 1] = g[i - 1]
        BY <4>1
      <4>3. g[i] \in Seq(S) /\ g[i] = IF i = 1 THEN ss[i] ELSE g[i - 1] \o ss[i]
        BY <2>1, <4>1
      <4> QED
        BY <4>1, <4>2, <4>3
    <3>2. CASE i = n
      <4>1. ss[n] \in Seq(S) /\ (n # 1 => n - 1 \in 1..(n - 1) /\ g[n - 1] \in Seq(S) /\ h[n - 1] = g[n - 1])
        BY <2>1, <1>1
      <4> QED
        BY <4>1, <3>2
    <3> QED
      BY <3>1, <3>2, <1>1
  <2>3. Partial(n, h)
    BY <2>2
  <2> HIDE DEF Partial, h
  <2> QED
    BY <2>3, <1>1
<1>4. Len(ss) \in Good
  <2> HIDE DEF Good
  <2>1. \A i \in 0..Len(ss) : i \in Good
    BY <1>1, <1>2, <1>3, UpTo
  <2> QED
    BY <1>1, <2>1
<1>5. PICK g : Partial(Len(ss), g)
  BY <1>4
<1> DEFINE h == [i \in 1..Len(ss) |-> g[i]]
<1>6. Flat(h)
  <2>1. ASSUME NEW i \in 1..Len(ss) PROVE h[i] = IF i = 1 THEN ss[i] ELSE h[i - 1] \o ss[i]
    BY <1>5, <1>1
  <2>2. h = [i \in 1..Len(ss) |-> h[i]]
    OBVIOUS
  <2> HIDE DEF h
  <2> QED
    BY <2>1, <2>2
<1>7. Flat(flatten)
  <2> HIDE DEF h
  <2> QED
    BY <1>6
<1>8. FlattenSeq(ss) = IF Len(ss) = 0 THEN ss ELSE flatten[Len(ss)]
  BY DEF FlattenSeq
<1> HIDE DEF flatten
<1> DEFINE Known == {i \in 0..Len(ss) : i # 0 => flatten[i] \in Seq(S)}
<1>9. ASSUME NEW i \in 1..Len(ss), i - 1 \in Known PROVE i \in Known
  <2>1. flatten[i] = IF i = 1 THEN ss[i] ELSE flatten[i - 1] \o ss[i]
    BY <1>7
  <2>2. ss[i] \in Seq(S) /\ (i # 1 => flatten[i - 1] \in Seq(S))
    BY <1>9, <1>1
  <2>3. i # 1 => flatten[i - 1] \o ss[i] \in Seq(S)
    BY <2>2
  <2>4. flatten[i] \in Seq(S)
    BY <2>1, <2>2, <2>3
  <2> QED
    BY <2>4, <1>1
<1>10. Len(ss) \in Known
  <2>1. 0 \in Known
    BY <1>1
  <2> HIDE DEF Known
  <2>2. \A i \in 0..Len(ss) : i \in Known
    BY <1>1, <1>9, <2>1, UpTo
  <2> QED
    BY <1>1, <2>2
<1>11. Len(ss) = 0 => ss \in Seq(S)
  OBVIOUS
<1> QED
  BY <1>1, <1>8, <1>10, <1>11

-----------------------------------------------------------------------------
(* The records of a change set *)

(* The records there are, and the facts of one. *)
HistoryRecords ==
  {r \in [commit : Nat, action : {"write", "remove", "move"}, path : Names,
          from : Names \cup {Nowhere}] :
     (r.action = "move" <=> r.from # Nowhere) /\ r.path # r.from}

\* What a record is.
LEMMA RecordFacts ==
  ASSUME NEW r \in HistoryRecords
  PROVE  /\ r.commit \in Nat /\ r.path \in Names /\ r.from \in Names \cup {Nowhere}
         /\ r.action \in {"write", "remove", "move"}
         /\ r.action = "move" <=> r.from \in Names
         /\ r.path # r.from /\ r.path # Nowhere
BY HistoryAssumption DEF HistoryRecords

\* The records that are made of a change set.
LEMMA RecordsMade ==
  ASSUME NEW n \in Nat, NEW p \in Names
  PROVE  /\ \A what \in {"write", "remove"} :
              LET r == Rec(n, what, p, Nowhere)
              IN  /\ r \in HistoryRecords /\ r.commit = n /\ r.action = what /\ r.path = p
                  /\ r.from = Nowhere /\ r.action # "move"
         /\ \A q \in Names \ {p} :
              LET r == Rec(n, "move", p, q)
              IN  r \in HistoryRecords /\ r.commit = n /\ r.action = "move" /\ r.path = p /\ r.from = q
BY HistoryAssumption DEF HistoryRecords, Rec

(* What a change set may be. *)
Legal(kind, p, q, ps) ==
  \/ kind = "write" /\ p \in Names /\ q = Nowhere
  \/ kind = "remove" /\ p = Nowhere /\ q = Nowhere /\ ps \subseteq Names /\ IsFiniteSet(ps)
  \/ kind \in {"move", "moveThenWrite"} /\ p \in Names /\ q \in Names /\ p # q

(* A set of paths in a row. *)
LEMMA InARow ==
  ASSUME NEW ps \in SUBSET Names, IsFiniteSet(ps)
  PROVE  Cardinality(ps) \in Nat /\ \A i \in 1..Cardinality(ps) : SetToSeq(ps)[i] \in ps
<1>1. PICK n \in Nat : ExistsBijection(1..n, ps)
  BY FS_NatBijection
<1>2. Cardinality(ps) = n
  BY <1>1, FS_CountingElements
<1>3. PICK f : f \in Bijection(1..n, ps)
  BY <1>1 DEF ExistsBijection
<1>4. f \in [1..Cardinality(ps) -> ps] /\ IsInjective(f)
  BY <1>2, <1>3 DEF Bijection, Injection, IsInjective
<1>5. SetToSeq(ps) \in [1..Cardinality(ps) -> ps]
  BY <1>4 DEF SetToSeq
<1> QED
  BY <1>1, <1>2, <1>5

\* The records and the leaves of a change set: its move, if any, is the first.
LEMMA ChangeShape ==
  ASSUME NEW n \in Nat, NEW kind, NEW p, NEW q, NEW ps, Legal(kind, p, q, ps)
  PROVE  LET recs == Change(n, kind, p, q, ps)
         IN  /\ recs \in Seq(HistoryRecords) /\ \A j \in DOMAIN recs : recs[j].commit = n
             /\ q = Nowhere => \A j \in DOMAIN recs : recs[j].action # "move"
             /\ q # Nowhere =>
                  \/ recs = <<Rec(n, "move", p, q)>>
                  \/ recs = <<Rec(n, "move", p, q), Rec(n, "write", p, Nowhere)>>
             /\ Leaves(kind, p, q, ps) \in Seq(CommittedLeaves)
<1> DEFINE recs == Change(n, kind, p, q, ps)
<1>1. CASE kind = "write" /\ p \in Names /\ q = Nowhere
  <2>1. recs = <<Rec(n, "write", p, Nowhere)>> /\ Leaves(kind, p, q, ps) = <<Leaf("write", p)>>
    BY <1>1 DEF Change, Leaves
  <2>2. Leaf("write", p) \in CommittedLeaves
    BY <1>1 DEF Leaf, CommittedLeaves
  <2> DEFINE wr == Rec(n, "write", p, Nowhere)
  <2>3. wr \in HistoryRecords /\ wr.commit = n /\ wr.action # "move"
    BY <1>1, RecordsMade
  <2> HIDE DEF wr
  <2>4. <<wr>> \in Seq(HistoryRecords) /\ DOMAIN <<wr>> = {1} /\ <<wr>>[1] = wr
    BY <2>3, ShortSequences
  <2>5. <<Leaf("write", p)>> \in Seq(CommittedLeaves)
    BY <2>2, ShortSequences
  <2>6. recs = <<wr>>
    BY <2>1 DEF wr
  <2> HIDE DEF recs
  <2>7. \A j \in DOMAIN recs : recs[j] = wr
    BY <2>4, <2>6
  <2>8. recs \in Seq(HistoryRecords) /\ \A j \in DOMAIN recs : recs[j].commit = n /\ recs[j].action # "move"
    BY <2>3, <2>4, <2>6, <2>7
  <2> QED
    BY <1>1, <2>1, <2>5, <2>8 DEF recs
<1>2. CASE kind = "remove" /\ p = Nowhere /\ q = Nowhere /\ ps \subseteq Names /\ IsFiniteSet(ps)
  <2> DEFINE c == Cardinality(ps)
             gone_(i) == SetToSeq(ps)[i]
  <2>1. c \in Nat /\ \A i \in 1..c : gone_(i) \in Names
    BY <1>2, InARow
  <2>2. /\ recs = [i \in 1..c |-> Rec(n, "remove", gone_(i), Nowhere)]
        /\ Leaves(kind, p, q, ps) = [i \in 1..c |-> Leaf("remove", gone_(i))]
    BY <1>2 DEF Change, Leaves
  <2>3. \A i \in 1..c : Leaf("remove", gone_(i)) \in CommittedLeaves
    BY <2>1 DEF Leaf, CommittedLeaves
  <2>4. \A i \in 1..c : /\ Rec(n, "remove", gone_(i), Nowhere) \in HistoryRecords
                        /\ Rec(n, "remove", gone_(i), Nowhere).commit = n
                        /\ Rec(n, "remove", gone_(i), Nowhere).action # "move"
    BY <2>1, RecordsMade
  <2> HIDE DEF recs, c, gone_
  <2>5. recs \in Seq(HistoryRecords) /\ \A j \in DOMAIN recs : recs[j].commit = n /\ recs[j].action # "move"
    BY <2>1, <2>2, <2>4
  <2>6. Leaves(kind, p, q, ps) \in Seq(CommittedLeaves)
    BY <2>1, <2>2, <2>3
  <2> QED
    BY <1>2, <2>5, <2>6 DEF recs
<1>3. CASE kind \in {"move", "moveThenWrite"} /\ p \in Names /\ q \in Names /\ p # q
  <2>1. \/ recs = <<Rec(n, "move", p, q)>>
        \/ recs = <<Rec(n, "move", p, q), Rec(n, "write", p, Nowhere)>>
    BY <1>3 DEF Change
  <2>2. /\ Rec(n, "move", p, q) \in HistoryRecords /\ Rec(n, "move", p, q).commit = n
        /\ Rec(n, "write", p, Nowhere) \in HistoryRecords /\ Rec(n, "write", p, Nowhere).commit = n
    BY <1>3, RecordsMade
  <2>3. recs \in Seq(HistoryRecords) /\ \A j \in DOMAIN recs : recs[j].commit = n
    <3> DEFINE mv == Rec(n, "move", p, q)
               wr == Rec(n, "write", p, Nowhere)
    <3>1. mv \in HistoryRecords /\ wr \in HistoryRecords /\ mv.commit = n /\ wr.commit = n
      BY <2>2
    <3>2. recs = <<mv>> \/ recs = <<mv, wr>>
      BY <2>1
    <3> HIDE DEF recs, mv, wr
    <3>3. /\ <<mv>> \in Seq(HistoryRecords) /\ \A j \in DOMAIN <<mv>> : <<mv>>[j] = mv
          /\ <<mv, wr>> \in Seq(HistoryRecords) /\ \A j \in DOMAIN <<mv, wr>> : <<mv, wr>>[j] \in {mv, wr}
      BY <3>1, ShortSequences
    <3> QED
      BY <3>1, <3>2, <3>3
  <2>4. \/ Leaves(kind, p, q, ps) = <<Leaf("write", p), Leaf("remove", q)>>
        \/ Leaves(kind, p, q, ps) = <<Leaf("write", p), Leaf("remove", q), Leaf("write", p)>>
    BY <1>3 DEF Leaves
  <2>5. Leaf("write", p) \in CommittedLeaves /\ Leaf("remove", q) \in CommittedLeaves
    BY <1>3 DEF Leaf, CommittedLeaves
  <2>6. Leaves(kind, p, q, ps) \in Seq(CommittedLeaves)
    <3> DEFINE a == Leaf("write", p)
               b == Leaf("remove", q)
               leaves == Leaves(kind, p, q, ps)
    <3>1. (leaves = <<a, b>> \/ leaves = <<a, b, a>>) /\ a \in CommittedLeaves /\ b \in CommittedLeaves
      BY <2>4, <2>5
    <3> HIDE DEF a, b, leaves
    <3>2. <<a, b>> \in Seq(CommittedLeaves) /\ <<a, b, a>> \in Seq(CommittedLeaves)
      BY <3>1, ShortSequences
    <3>3. leaves \in Seq(CommittedLeaves)
      BY <3>1, <3>2
    <3> QED
      BY <3>3 DEF leaves
  <2> QED
    BY <1>3, <2>1, <2>3, <2>6, HistoryAssumption
<1> QED
  BY <1>1, <1>2, <1>3 DEF Legal

(* What a change set brings each path: nothing, or the records about it.  A  *)
(* move is the first of them, and the whole of what it brings its source.    *)
Brings(new, n, p, q) ==
  /\ new \in [Names -> Seq(HistoryRecords)]
  /\ \A x \in Names, k \in Nat : k \in DOMAIN new[x] =>
       /\ new[x][k].commit = n /\ Concerns(new[x][k], x)
       /\ q = Nowhere \/ k > 1 => new[x][k].action # "move" /\ new[x][k].path = x
  /\ q # Nowhere =>
       /\ p \in Names /\ q \in Names /\ p # q
       /\ new[p] # <<>> /\ new[p][1] = Rec(n, "move", p, q)
       /\ new[q] = <<Rec(n, "move", p, q)>>
       /\ \A x \in Names \ {p, q} : new[x] = <<>>

About(recs, x) == Kept(recs, {r \in Range(recs) : Concerns(r, x)})

\* The records of a change set that concern a path are those its shard gets.
LEMMA AboutIs ==
  ASSUME NEW recs \in Seq(HistoryRecords), NEW x \in Names
  PROVE  /\ About(recs, x) \in Seq(HistoryRecords) /\ Len(About(recs, x)) <= Len(recs)
         /\ \A k \in DOMAIN About(recs, x) :
              Concerns(About(recs, x)[k], x) /\ \E j \in DOMAIN recs : recs[j] = About(recs, x)[k]
         /\ About(recs, x) = <<>> <=> \A j \in DOMAIN recs : ~Concerns(recs[j], x)
         /\ About(recs, x) = Kept(recs, {r \in Range(recs) : x \in IndexedAt(r)})
<1> DEFINE T == {r \in Range(recs) : Concerns(r, x)}
<1>1. \A j \in DOMAIN recs : recs[j] \in HistoryRecords /\ recs[j] \in Range(recs)
  BY DEF Range
<1>2. \A r : r \in T => Concerns(r, x)
  OBVIOUS
<1>3. \A j \in DOMAIN recs : recs[j] \in T <=> Concerns(recs[j], x)
  BY <1>1
<1>4. \A r \in Range(recs) : Concerns(r, x) <=> x \in IndexedAt(r)
  <2>1. \A r \in Range(recs) : r \in HistoryRecords
    BY DEF Range
  <2> QED
    BY <2>1, RecordFacts, HistoryAssumption DEF Concerns, IndexedAt
<1>5. T = {r \in Range(recs) : x \in IndexedAt(r)}
  BY <1>4
<1>6. About(recs, x) = Kept(recs, T)
  BY DEF About
<1> HIDE DEF T
<1>7. /\ Kept(recs, T) \in Seq(HistoryRecords) /\ Len(Kept(recs, T)) <= Len(recs)
      /\ \A k \in DOMAIN Kept(recs, T) :
           Kept(recs, T)[k] \in T /\ \E j \in DOMAIN recs : recs[j] = Kept(recs, T)[k]
      /\ Kept(recs, T) = <<>> <=> \A j \in DOMAIN recs : recs[j] \notin T
  BY KeptMembers
<1> QED
  BY <1>2, <1>3, <1>5, <1>6, <1>7

\* A change set brings each path what concerns it.
LEMMA ChangeBrings ==
  ASSUME NEW n \in Nat, NEW kind, NEW p, NEW q, NEW ps, Legal(kind, p, q, ps)
  PROVE  Brings([x \in Names |-> About(Change(n, kind, p, q, ps), x)], n, p, q)
<1> DEFINE recs == Change(n, kind, p, q, ps)
           new == [x \in Names |-> About(recs, x)]
<1>1. /\ recs \in Seq(HistoryRecords) /\ \A j \in DOMAIN recs : recs[j].commit = n
      /\ q = Nowhere => \A j \in DOMAIN recs : recs[j].action # "move"
      /\ q # Nowhere =>
           \/ recs = <<Rec(n, "move", p, q)>>
           \/ recs = <<Rec(n, "move", p, q), Rec(n, "write", p, Nowhere)>>
  BY ChangeShape
<1> SUFFICES Brings(new, n, p, q)
  OBVIOUS
<1> HIDE DEF recs
<1>2. new \in [Names -> Seq(HistoryRecords)]
  BY <1>1, AboutIs
<1>3. ASSUME NEW x \in Names, NEW k \in DOMAIN new[x]
      PROVE  new[x][k].commit = n /\ Concerns(new[x][k], x) /\ new[x][k] \in HistoryRecords
             /\ (q = Nowhere => new[x][k].action # "move" /\ new[x][k].path = x)
  <2>0. k \in DOMAIN About(recs, x) /\ new[x][k] = About(recs, x)[k]
    BY <1>3
  <2> HIDE DEF new
  <2>1. PICK j \in DOMAIN recs : recs[j] = new[x][k]
    <3>1. \A l \in DOMAIN About(recs, x) : \E j \in DOMAIN recs : recs[j] = About(recs, x)[l]
      <4>1. recs \in Seq(HistoryRecords)
        BY <1>1
      <4> QED
        BY <4>1, AboutIs, Zenon
    <3> QED
      BY <2>0, <3>1, Zenon
  <2>2. Concerns(new[x][k], x)
    BY <1>1, <2>0, AboutIs
  <2>3. new[x][k] \in HistoryRecords
    BY <1>1, <2>1
  <2> QED
    BY <1>1, <2>1, <2>2, <2>3, RecordFacts, HistoryAssumption DEF Concerns
<1>4. CASE q = Nowhere
  <2> HIDE DEF new
  <2>1. \A x \in Names, k \in Nat : k \in DOMAIN new[x] =>
          /\ new[x][k].commit = n /\ Concerns(new[x][k], x)
          /\ new[x][k].action # "move" /\ new[x][k].path = x
    BY <1>3, <1>4
  <2> QED
    BY <1>2, <1>4, <2>1, Zenon DEF Brings
<1>5. CASE q # Nowhere
  <2> DEFINE mv == Rec(n, "move", p, q)
             wr == Rec(n, "write", p, Nowhere)
  <2>1. p \in Names /\ q \in Names /\ p # q
    BY <1>5 DEF Legal
  <2>2. /\ mv \in HistoryRecords /\ mv.path = p /\ mv.from = q
        /\ wr \in HistoryRecords /\ wr.path = p /\ wr.from = Nowhere /\ wr.action = "write"
    BY <2>1, RecordsMade
  <2> HIDE DEF mv, wr
  <2>3. recs = <<mv>> \/ recs = <<mv, wr>>
    BY <1>1, <1>5 DEF mv, wr
  <2>4. Concerns(mv, p) /\ Concerns(mv, q) /\ Concerns(wr, p)
        /\ (\A x \in Names \ {p, q} : ~Concerns(mv, x)) /\ (\A x \in Names \ {p} : ~Concerns(wr, x))
    BY <2>1, <2>2, HistoryAssumption DEF Concerns
  <2>5. \A x : About(recs, x) =
          IF recs = <<mv>> THEN IF Concerns(mv, x) THEN <<mv>> ELSE <<>>
          ELSE (IF Concerns(mv, x) THEN <<mv>> ELSE <<>>) \o (IF Concerns(wr, x) THEN <<wr>> ELSE <<>>)
    <3> TAKE x
    <3> DEFINE T == {r \in Range(recs) : Concerns(r, x)}
    <3>1. CASE recs = <<mv>>
      <4>1. mv \in Range(recs)
        BY <3>1 DEF Range
      <4>2. mv \in T <=> Concerns(mv, x)
        BY <4>1
      <4> HIDE DEF T
      <4>3. Kept(<<mv>>, T) = IF mv \in T THEN <<mv>> ELSE <<>>
        BY KeptShort
      <4> QED
        BY <3>1, <4>2, <4>3 DEF About, T
    <3>2. CASE recs = <<mv, wr>> /\ recs # <<mv>>
      <4>1. mv \in Range(recs) /\ wr \in Range(recs)
        BY <3>2 DEF Range
      <4>2. (mv \in T <=> Concerns(mv, x)) /\ (wr \in T <=> Concerns(wr, x))
        BY <4>1
      <4> HIDE DEF T
      <4>3. /\ Kept(<<mv, wr>>, T) = Kept(<<mv>>, T) \o Kept(<<wr>>, T)
            /\ Kept(<<mv>>, T) = IF mv \in T THEN <<mv>> ELSE <<>>
            /\ Kept(<<wr>>, T) = IF wr \in T THEN <<wr>> ELSE <<>>
        BY KeptShort
      <4> QED
        BY <3>2, <4>2, <4>3 DEF About, T
    <3> QED
      BY <2>3, <3>1, <3>2
  <2>6. <<mv>> \o <<>> = <<mv>> /\ <<mv>> \o <<wr>> = <<mv, wr>> /\ <<>> \o <<>> = <<>>
    <3>1. <<mv>> \in Seq({mv}) /\ <<>> \in Seq({mv})
      OBVIOUS
    <3>2. <<mv>> \o <<>> = <<mv>> /\ <<>> \o <<>> = <<>>
      BY <3>1, ConcatLast
    <3> QED
      BY <3>2, PairIs
  <2>7. new[q] = <<mv>> /\ (new[p] = <<mv>> \/ new[p] = <<mv, wr>>)
        /\ \A x \in Names \ {p, q} : new[x] = <<>>
    BY <2>1, <2>3, <2>4, <2>5, <2>6
  <2> HIDE DEF new
  <2>8. ASSUME NEW x \in Names, NEW k \in DOMAIN new[x], k > 1
        PROVE  new[x][k].action # "move" /\ new[x][k].path = x
    <3>1. x = p /\ new[p] = <<mv, wr>>
      BY <2>1, <2>7, <2>8
    <3>2. k = 2 /\ new[x][k] = wr
      BY <3>1, <2>8
    <3> QED
      BY <2>2, <3>1, <3>2
  <2>9. new[p] # <<>> /\ new[p][1] = mv
    BY <2>7
  <2>10. \A x \in Names, k \in Nat : k \in DOMAIN new[x] =>
          /\ new[x][k].commit = n /\ Concerns(new[x][k], x)
          /\ k > 1 => new[x][k].action # "move" /\ new[x][k].path = x
    BY <1>3, <2>8
  <2>11. \A x \in Names, k \in Nat : k \in DOMAIN new[x] =>
          /\ new[x][k].commit = n /\ Concerns(new[x][k], x)
          /\ q = Nowhere \/ k > 1 => new[x][k].action # "move" /\ new[x][k].path = x
    BY <1>5, <2>10, Zenon
  <2> QED
    BY <1>2, <1>5, <2>1, <2>7, <2>9, <2>11, Zenon DEF Brings, mv
<1> QED
  BY <1>4, <1>5

\* A part of a sequence.
LEMMA SubSeqMembers ==
  ASSUME NEW S, NEW s \in Seq(S), NEW m \in Nat \ {0}, NEW n \in 0..Len(s)
  PROVE  /\ SubSeq(s, m, n) \in Seq(S)
         /\ Len(SubSeq(s, m, n)) = IF m <= n THEN n - m + 1 ELSE 0
         /\ Len(SubSeq(s, m, n)) <= Len(s)
         /\ \A k \in DOMAIN SubSeq(s, m, n) : SubSeq(s, m, n)[k] = s[(k + m) - 1] /\ (k + m) - 1 \in m..n
<1>1. n \in Nat /\ m \in Nat /\ Len(s) \in Nat /\ n <= Len(s)
  OBVIOUS
<1>2. \A i \in m..n : s[i] \in S
  BY <1>1
<1>3. SubSeq(s, m, n) \in Seq(S) /\ Len(SubSeq(s, m, n)) = IF m <= n THEN n - m + 1 ELSE 0
  BY <1>1, <1>2, SubSeqProperties
<1>4. Len(SubSeq(s, m, n)) <= Len(s)
  BY <1>1, <1>3
<1>5. ASSUME NEW k \in DOMAIN SubSeq(s, m, n)
      PROVE  SubSeq(s, m, n)[k] = s[(k + m) - 1] /\ (k + m) - 1 \in m..n
  <2>1. k \in 1..Len(SubSeq(s, m, n))
    BY <1>3, <1>5
  <2>2. k \in 1..((n - m) + 1) /\ m <= n
    BY <1>1, <1>3, <2>1
  <2> QED
    BY <1>1, <1>2, <2>2, SubSeqProperties
<1> QED
  BY <1>3, <1>4, <1>5

\* The beginning of a sequence.
LEMMA PrefixMembers ==
  ASSUME NEW S, NEW s \in Seq(S), NEW n \in 0..Len(s)
  PROVE  /\ SubSeq(s, 1, n) \in Seq(S) /\ Len(SubSeq(s, 1, n)) = n
         /\ \A k \in 1..n : SubSeq(s, 1, n)[k] = s[k]
<1>1. n \in Nat /\ Len(s) \in Nat
  OBVIOUS
<1> DEFINE t == SubSeq(s, 1, n)
<1>2. /\ t \in Seq(S) /\ Len(t) = IF 1 <= n THEN n - 1 + 1 ELSE 0
      /\ \A k \in DOMAIN t : t[k] = s[(k + 1) - 1]
  BY SubSeqMembers
<1> HIDE DEF t
<1>3. Len(t) = n
  BY <1>1, <1>2
<1>4. ASSUME NEW k \in 1..n PROVE t[k] = s[k]
  <2>1. k \in DOMAIN t /\ (k + 1) - 1 = k
    BY <1>1, <1>2, <1>3
  <2> QED
    BY <1>2, <2>1
<1> QED
  BY <1>2, <1>3, <1>4 DEF t

(* The records a journal of commits has are writes and removals, and what it *)
(* leaves of a path is some of them.                                         *)
LEMMA LegacyRecords ==
  ASSUME commits \in Seq(Seq(CommittedLeaves))
  PROVE  LET all == Legacy(FlattenSeq(commits))
         IN  /\ all \in Seq(HistoryRecords)
             /\ \A i \in DOMAIN all : all[i].action # "move" /\ all[i].commit = 0
             /\ \A p \in Names :
                  /\ LegacyShard(p) \in Seq(HistoryRecords) /\ Len(LegacyShard(p)) <= Len(all)
                  /\ \A k \in DOMAIN LegacyShard(p) :
                       LegacyShard(p)[k].path = p /\ \E i \in DOMAIN all : all[i] = LegacyShard(p)[k]
             /\ IsFiniteSet({p \in Names : LegacyShard(p) # <<>>})
<1> DEFINE flat == FlattenSeq(commits)
           all == Legacy(flat)
<1>1. flat \in Seq(CommittedLeaves)
  BY FlattenMembers
<1> HIDE DEF flat
<1>2. ASSUME NEW i \in DOMAIN flat
      PROVE  /\ Rec(0, flat[i].action, flat[i].path, Nowhere) \in HistoryRecords
             /\ Rec(0, flat[i].action, flat[i].path, Nowhere).action # "move"
             /\ Rec(0, flat[i].action, flat[i].path, Nowhere).commit = 0
  <2>1. flat[i].action \in {"write", "remove"} /\ flat[i].path \in Names
    <3>1. flat[i] \in CommittedLeaves
      BY <1>1, <1>2
    <3> QED
      BY <3>1 DEF CommittedLeaves
  <2> QED
    BY <2>1, RecordsMade
<1>3. all = [i \in DOMAIN flat |-> Rec(0, flat[i].action, flat[i].path, Nowhere)]
  BY DEF Legacy
<1>4. DOMAIN flat = 1..Len(flat) /\ Len(flat) \in Nat
  BY <1>1
<1> HIDE DEF all
<1>5. /\ all \in Seq(HistoryRecords)
      /\ \A i \in DOMAIN all : all[i].action # "move" /\ all[i].commit = 0
  BY <1>2, <1>3, <1>4
<1>6. ASSUME NEW p \in Names
      PROVE  /\ LegacyShard(p) \in Seq(HistoryRecords) /\ Len(LegacyShard(p)) <= Len(all)
             /\ \A k \in DOMAIN LegacyShard(p) :
                  LegacyShard(p)[k].path = p /\ \E i \in DOMAIN all : all[i] = LegacyShard(p)[k]
  <2> DEFINE purges == {i \in DOMAIN all : all[i].path = p /\ all[i].action = "remove"}
             from == Max({0} \cup purges) + 1
             rest == SubSeq(all, from, Len(all))
             T == {r \in Range(all) : r.path = p}
  <2>1. LegacyShard(p) = Kept(rest, T)
    BY DEF LegacyShard, all, flat
  <2>2. from \in Nat \ {0}
    <3>1. {0} \cup purges \subseteq 0..Len(all) /\ Len(all) \in Nat
      BY <1>5
    <3>2. Max({0} \cup purges) \in {0} \cup purges
      BY <3>1, LargestOf
    <3> QED
      BY <3>1, <3>2
  <2>3. \A r \in T : r.path = p
    OBVIOUS
  <2> HIDE DEF from, T
  <2>4. /\ rest \in Seq(HistoryRecords) /\ Len(rest) <= Len(all) /\ Len(all) \in Nat
        /\ \A k \in DOMAIN rest : \E i \in DOMAIN all : all[i] = rest[k]
    <3>1. Len(all) \in 0..Len(all) /\ Len(all) \in Nat /\ DOMAIN all = 1..Len(all)
      BY <1>5
    <3>2. /\ rest \in Seq(HistoryRecords) /\ Len(rest) <= Len(all)
          /\ \A k \in DOMAIN rest : rest[k] = all[(k + from) - 1] /\ (k + from) - 1 \in from..Len(all)
      BY <1>5, <2>2, <3>1, SubSeqMembers
    <3>3. \A i \in from..Len(all) : i \in DOMAIN all
      BY <2>2, <3>1
    <3> QED
      BY <3>1, <3>2, <3>3
  <2> HIDE DEF rest
  <2>5. /\ Kept(rest, T) \in Seq(HistoryRecords) /\ Len(Kept(rest, T)) <= Len(rest)
        /\ \A k \in DOMAIN Kept(rest, T) :
             Kept(rest, T)[k] \in T /\ \E j \in DOMAIN rest : rest[j] = Kept(rest, T)[k]
    BY <2>4, KeptMembers
  <2>6. Len(Kept(rest, T)) <= Len(all)
    <3>1. Len(Kept(rest, T)) \in Nat /\ Len(rest) \in Nat
      BY <2>4, <2>5
    <3> QED
      BY <2>4, <2>5, <3>1
  <2>7. ASSUME NEW k \in DOMAIN Kept(rest, T)
        PROVE  Kept(rest, T)[k].path = p /\ \E i \in DOMAIN all : all[i] = Kept(rest, T)[k]
    BY <2>3, <2>4, <2>5
  <2> QED
    BY <2>1, <2>5, <2>6, <2>7
<1>7. IsFiniteSet({p \in Names : LegacyShard(p) # <<>>})
  <2> DEFINE paths == {all[i].path : i \in 1..Len(all)}
             kept == {p \in Names : LegacyShard(p) # <<>>}
  <2>1. IsFiniteSet(1..Len(all))
    BY <1>5, FS_Interval
  <2>2. IsFiniteSet(paths)
    <3> DEFINE f == [i \in 1..Len(all) |-> all[i].path]
    <3>1. f \in Surjection(1..Len(all), paths)
      BY DEF Surjection
    <3> HIDE DEF f, paths
    <3> QED
      BY <2>1, <3>1, FS_Surjection
  <2>3. ASSUME NEW p \in kept PROVE p \in paths
    <3>1. 1 \in DOMAIN LegacyShard(p)
      BY <1>6
    <3>2. PICK i \in DOMAIN all : all[i].path = p
      BY <1>6, <3>1
    <3> QED
      BY <1>5, <3>2
  <2> HIDE DEF paths, kept
  <2>4. IsFiniteSet(kept)
    BY <2>2, <2>3, FS_Subset
  <2> QED
    BY <2>4 DEF kept
<1> QED
  BY <1>5, <1>6, <1>7 DEF all, flat

-----------------------------------------------------------------------------
Filed == [p \in Names |-> shards[p] \o pending[p]]
Ready == recorder \in {"recording", "up"} \/ (recorder = "down" /\ (indexed \/ commits = <<>>))
Own(x) == IF x \in gone THEN <<>> ELSE trail[x]

ITyped ==
  /\ present \subseteq Names /\ IsFiniteSet(present)
  /\ commits \in Seq(Seq(CommittedLeaves)) /\ Len(commits) <= MaxCommits
  /\ events \in Seq(HistoryRecords) /\ indexed \in BOOLEAN /\ (~indexed => events = <<>>)
  /\ shards \in [Names -> Seq(HistoryRecords)]
  /\ pending \in [Names -> Seq(HistoryRecords)]
  /\ trail \in [Names -> Seq(HistoryRecords)]
  /\ recorder \in {"down", "cleared", "filed", "recording", "up"}
  /\ gone \subseteq Names /\ untold \subseteq Names
  /\ page \in [roots : SUBSET Names, boundary : Nat, offset : Nat,
               seen : Seq(HistoryRecords), first : Seq(HistoryRecords)]
IConcern ==
  \A p \in Names :
    /\ \A i \in DOMAIN shards[p] : Concerns(shards[p][i], p)
    /\ \A i \in DOMAIN pending[p] : Concerns(pending[p][i], p)
IStart ==
  /\ recorder # "recording" => pending = NoPending
  /\ recorder = "recording" => indexed
  /\ recorder \in {"cleared", "filed"} => ~indexed /\ commits # <<>>
  /\ recorder = "filed" => shards = [p \in Names |-> LegacyShard(p)]

(* A commit that brings new to the paths and recs to the journal. *)
Recorded(new, recs, p, q) ==
  /\ recorder = "up" /\ Len(commits) < MaxCommits
  /\ recs \in Seq(HistoryRecords) /\ Brings(new, Len(commits) + 1, p, q)
  /\ \A x \in Names : /\ Len(new[x]) <= Len(recs)
                      /\ \A k \in DOMAIN new[x] : \E j \in DOMAIN recs : recs[j] = new[x][k]
  /\ \E leaves \in Seq(CommittedLeaves) : commits' = Append(commits, leaves)
  /\ trail' = [x \in Names |-> IF new[x] = <<>> THEN trail[x]
                               ELSE Own(IF x = p /\ q # Nowhere THEN q ELSE x) \o new[x]]
  /\ gone' = {x \in gone : new[x] = <<>>} \cup ({q} \cap Names)
  /\ present' \subseteq Names /\ IsFiniteSet(present')
  /\ UNCHANGED <<shards, page>>
  /\ \/ /\ events' = events \o recs /\ indexed' = TRUE /\ recorder' = "recording"
        /\ pending' = new /\ UNCHANGED untold
     \/ /\ \E i \in 0..Len(recs) : events' = events \o SubSeq(recs, 1, i) /\ (i > 0 => indexed')
        /\ indexed' \in {indexed, TRUE} /\ UNCHANGED <<pending, recorder>>
        /\ untold' = untold \cup {x \in Names : new[x] # <<>>}
Records == \E new, recs, p, q : Recorded(new, recs, p, q)

\* A recorded change set is a commit that brings records.
LEMMA CommitRecords ==
  ASSUME ITyped, NEW kind, NEW p, NEW q, NEW ps, Legal(kind, p, q, ps), RecordCommit(kind, p, q, ps)
  PROVE  Records
<1> DEFINE n == Len(commits) + 1
           recs == Change(n, kind, p, q, ps)
           new == [x \in Names |-> About(recs, x)]
<1>1. Len(commits) \in Nat /\ n \in Nat
  BY DEF ITyped
<1>2. recs \in Seq(HistoryRecords) /\ Leaves(kind, p, q, ps) \in Seq(CommittedLeaves)
  BY <1>1, ChangeShape
<1>3. Brings(new, n, p, q)
  BY <1>1, ChangeBrings
<1> HIDE DEF recs
<1>4. \A x \in Names :
        /\ Len(new[x]) <= Len(recs)
        /\ \A k \in DOMAIN new[x] : \E j \in DOMAIN recs : recs[j] = new[x][k]
        /\ new[x] = <<>> <=> \A j \in DOMAIN recs : ~Concerns(recs[j], x)
        /\ new[x] = Kept(recs, {r \in Range(recs) : x \in IndexedAt(r)})
        /\ new[x] = Kept(recs, {r \in Range(recs) : Concerns(r, x)})
  <2> TAKE x \in Names
  <2>1. new[x] = About(recs, x)
    OBVIOUS
  <2>2. /\ Len(About(recs, x)) <= Len(recs)
        /\ \A k \in DOMAIN About(recs, x) : \E j \in DOMAIN recs : recs[j] = About(recs, x)[k]
        /\ About(recs, x) = <<>> <=> \A j \in DOMAIN recs : ~Concerns(recs[j], x)
        /\ About(recs, x) = Kept(recs, {r \in Range(recs) : x \in IndexedAt(r)})
    BY <1>2, AboutIs
  <2>3. About(recs, x) = Kept(recs, {r \in Range(recs) : Concerns(r, x)})
    BY DEF About
  <2> HIDE DEF new
  <2> QED
    BY <2>1, <2>2, <2>3, Zenon
<1>5. /\ recorder = "up" /\ Len(commits) < MaxCommits
      /\ commits' = Append(commits, Leaves(kind, p, q, ps))
      /\ UNCHANGED <<shards, page>>
  BY DEF RecordCommit
<1>6. present' \subseteq Names /\ IsFiniteSet(present')
  <2>1. present' \in {present \cup {p}, present \ ps, (present \ {q}) \cup {p}} /\ (present' # present \ ps => p \in Names)
    BY DEF RecordCommit, Legal
  <2>2. present \subseteq Names /\ IsFiniteSet(present)
    BY DEF ITyped
  <2>3. IsFiniteSet(present \ ps) /\ IsFiniteSet(present \ {q})
    BY <2>2, FS_Subset
  <2>4. IsFiniteSet(present \cup {p}) /\ IsFiniteSet((present \ {q}) \cup {p})
    BY <2>2, <2>3, FS_AddElement
  <2> QED
    BY <2>1, <2>2, <2>3, <2>4
<1>7. /\ trail' = [x \in Names |->
                     IF new[x] = <<>> THEN trail[x]
                     ELSE Own(IF x = p /\ q # Nowhere THEN q ELSE x) \o new[x]]
      /\ gone' = {x \in gone : new[x] = <<>>} \cup ({q} \cap Names)
  <2>1. /\ trail' = [x \in Names |->
                     IF About(recs, x) = <<>> THEN trail[x]
                     ELSE Own(IF x = p /\ q # Nowhere THEN q ELSE x) \o About(recs, x)]
        /\ gone' = {x \in gone : About(recs, x) = <<>>} \cup ({q} \cap Names)
    BY Zenon DEF RecordCommit, About, Own, recs
  <2>2. gone \subseteq Names /\ \A x \in Names : new[x] = About(recs, x)
    BY DEF ITyped
  <2> HIDE DEF new
  <2> QED
    BY <2>1, <2>2
<1>8. \/ /\ events' = events \o recs /\ indexed' = TRUE /\ recorder' = "recording"
         /\ pending' = new /\ UNCHANGED untold
      \/ /\ \E i \in 0..Len(recs) : events' = events \o SubSeq(recs, 1, i) /\ (i > 0 => indexed')
         /\ indexed' \in {indexed, TRUE} /\ UNCHANGED <<pending, recorder>>
         /\ untold' = untold \cup {x \in Names : new[x] # <<>>}
  <2> DEFINE filing == [x \in Names |-> Kept(recs, {r \in Range(recs) : x \in IndexedAt(r)})]
             touched == {x \in Names : \E j \in DOMAIN recs : Concerns(recs[j], x)}
  <2>1. \/ /\ events' = events \o recs /\ indexed' = TRUE /\ recorder' = "recording"
           /\ pending' = filing /\ UNCHANGED untold
        \/ /\ \E i \in 0..Len(recs) : /\ events' = events \o SubSeq(recs, 1, i)
                                      /\ indexed' \in {indexed, TRUE} /\ (i > 0 => indexed')
           /\ UNCHANGED <<pending, recorder>>
           /\ untold' = untold \cup touched
    BY DEF RecordCommit, recs
  <2>2. filing = new /\ touched = {x \in Names : new[x] # <<>>}
    BY <1>4
  <2> HIDE DEF filing, touched, new
  <2> QED
    BY <2>1, <2>2
<1>9. Recorded(new, recs, p, q)
  <2> HIDE DEF new
  <2> QED
    BY <1>2, <1>3, <1>4, <1>5, <1>6, <1>7, <1>8 DEF Recorded
<1> QED
  BY <1>9 DEF Records

\* The steps there are.
LEMMA HistoryMoves ==
  ASSUME ITyped, HistoryNext
  PROVE  \/ Records \/ \E p \in Names : FileShard(p)
         \/ StartReady \/ StartMigrating \/ InstallShards \/ InstallJournal \/ RecorderCrash
         \/ \E allowed \in SUBSET Names : FirstPage(allowed)
         \/ NextPage
<1>1. ASSUME NEW p \in Names, RecordWrite(p) PROVE Records
  <2>1. Legal("write", p, Nowhere, {})
    BY DEF Legal
  <2> QED
    BY <1>1, <2>1, CommitRecords DEF RecordWrite
<1>2. ASSUME NEW p \in Names, NEW q \in Names, RecordMove(q, p) PROVE Records
  <2>1. PICK kind \in {"move", "moveThenWrite"} : p # q /\ RecordCommit(kind, p, q, {})
    BY <1>2 DEF RecordMove
  <2>2. Legal(kind, p, q, {})
    BY <2>1 DEF Legal
  <2> QED
    BY <2>1, <2>2, CommitRecords
<1>3. ASSUME RecordRemoval PROVE Records
  <2>1. PICK ps \in {{p} : p \in present} \cup ({present} \ {{}}) :
          RecordCommit("remove", Nowhere, Nowhere, ps)
    BY <1>3 DEF RecordRemoval
  <2>2. present \subseteq Names /\ IsFiniteSet(present)
    BY DEF ITyped
  <2>3. ps \subseteq present
    BY <2>1
  <2>4. IsFiniteSet(ps)
    BY <2>2, <2>3, FS_Subset
  <2>5. Legal("remove", Nowhere, Nowhere, ps)
    BY <2>2, <2>3, <2>4 DEF Legal
  <2> QED
    BY <2>1, <2>5, CommitRecords
<1> QED
  BY <1>1, <1>2, <1>3 DEF HistoryNext

\* A sequence backwards.
LEMMA ReverseIs ==
  ASSUME NEW S, NEW s \in Seq(S)
  PROVE  /\ Reverse(s) \in Seq(S) /\ Len(Reverse(s)) = Len(s)
         /\ \A i \in 1..Len(s) : Reverse(s)[i] = s[(Len(s) - i) + 1]
<1>1. Len(s) \in Nat /\ \A i \in 1..Len(s) : (Len(s) - i) + 1 \in 1..Len(s)
  OBVIOUS
<1>2. \A i \in 1..Len(s) : s[(Len(s) - i) + 1] \in S
  BY <1>1
<1> QED
  BY <1>1, <1>2 DEF Reverse

\* What a reader may see of two stretches of the journal is what they may see of each.
LEMMA MatchesIs ==
  ASSUME NEW s \in Seq(HistoryRecords), NEW allowed
  PROVE  /\ Matches(s, allowed) \in Seq(HistoryRecords)
         /\ \A t \in Seq(HistoryRecords) :
              Matches(s \o t, allowed) = Matches(s, allowed) \o Matches(t, allowed)
<1> DEFINE T == Readable(allowed)
<1>1. \A t : Matches(t, allowed) = Kept(t, T)
  BY DEF Matches
<1> HIDE DEF T
<1>2. Kept(s, T) \in Seq(HistoryRecords)
  BY KeptMembers
<1>3. \A t \in Seq(HistoryRecords) : Kept(s \o t, T) = Kept(s, T) \o Kept(t, T)
  BY KeptConcat
<1> QED
  BY <1>1, <1>2, <1>3

(* The pages read so far, and what a reader has still to read. *)
IPage ==
  LET found == Matches(events, page.roots)
  IN  /\ page.offset <= page.boundary /\ page.boundary <= Len(found)
      /\ page.first = Reverse(SubSeq(found, 1, page.boundary))
      /\ page.seen = SubSeq(page.first, 1, page.offset)

\* A commit adds to the end of the journal.
LEMMA RecordsTyped ==
  ASSUME ITyped, IConcern, IStart, Records
  PROVE  (ITyped /\ IConcern /\ IStart)' /\ \E more \in Seq(HistoryRecords) : events' = events \o more
<1>1. PICK new, recs, p, q : Recorded(new, recs, p, q)
  BY DEF Records
<1>2. /\ new \in [Names -> Seq(HistoryRecords)] /\ recs \in Seq(HistoryRecords)
      /\ \A x \in Names : \A k \in DOMAIN new[x] : Concerns(new[x][k], x)
  <2>1. \A x \in Names : \A k \in DOMAIN new[x] : k \in Nat
    BY <1>1 DEF Recorded, Brings
  <2> QED
    BY <1>1, <2>1 DEF Recorded, Brings
<1>3. \E more \in Seq(HistoryRecords) : events' = events \o more /\ (~indexed' => more = <<>>)
  <2>1. CASE events' = events \o recs /\ indexed' = TRUE
    BY <1>2, <2>1
  <2>2. ASSUME NEW i \in 0..Len(recs), events' = events \o SubSeq(recs, 1, i), i > 0 => indexed'
        PROVE  \E more \in Seq(HistoryRecords) : events' = events \o more /\ (~indexed' => more = <<>>)
    <3>1. SubSeq(recs, 1, i) \in Seq(HistoryRecords) /\ Len(SubSeq(recs, 1, i)) = IF 1 <= i THEN i - 1 + 1 ELSE 0
      BY <1>2, SubSeqMembers
    <3>2. ~indexed' => i = 0
      BY <2>2
    <3>3. i = 0 => SubSeq(recs, 1, i) = <<>>
      BY <3>1
    <3> QED
      BY <2>2, <3>1, <3>2, <3>3
  <2> QED
    BY <1>1, <2>1, <2>2 DEF Recorded
<1>4. PICK more \in Seq(HistoryRecords) : events' = events \o more /\ (~indexed' => more = <<>>)
  BY <1>3
<1>5. PICK leaves \in Seq(CommittedLeaves) : commits' = Append(commits, leaves)
  BY <1>1 DEF Recorded
<1>6. commits' \in Seq(Seq(CommittedLeaves)) /\ Len(commits') <= MaxCommits
  BY <1>1, <1>5, HistoryAssumption DEF ITyped, Recorded
<1>7. events' \in Seq(HistoryRecords) /\ indexed' \in BOOLEAN /\ (~indexed' => events' = <<>>)
  <2>1. events \in Seq(HistoryRecords) /\ indexed \in BOOLEAN /\ (~indexed => events = <<>>)
    BY DEF ITyped
  <2>2. events' \in Seq(HistoryRecords)
    BY <1>4, <2>1
  <2>3. indexed' \in BOOLEAN /\ (~indexed' => ~indexed)
    BY <1>1, <2>1 DEF Recorded
  <2>4. <<>> \o <<>> = <<>>
    BY ConcatLast
  <2> QED
    BY <1>4, <2>1, <2>2, <2>3, <2>4
<1>8. trail' \in [Names -> Seq(HistoryRecords)] /\ gone' \subseteq Names
  <2>1. ASSUME NEW x \in Names
        PROVE  (IF new[x] = <<>> THEN trail[x]
                ELSE Own(IF x = p /\ q # Nowhere THEN q ELSE x) \o new[x]) \in Seq(HistoryRecords)
    <3>1. \A y \in Names : Own(y) \in Seq(HistoryRecords)
      BY DEF ITyped, Own
    <3>2. (IF x = p /\ q # Nowhere THEN q ELSE x) \in Names
      BY <1>1 DEF Recorded, Brings
    <3>3. trail[x] \in Seq(HistoryRecords) /\ new[x] \in Seq(HistoryRecords)
      BY <1>2 DEF ITyped
    <3> DEFINE y == IF x = p /\ q # Nowhere THEN q ELSE x
    <3>4. Own(y) \in Seq(HistoryRecords)
      BY <3>1, <3>2
    <3> HIDE DEF y
    <3>5. Own(y) \o new[x] \in Seq(HistoryRecords)
      BY <3>3, <3>4
    <3> QED
      BY <3>3, <3>5 DEF y
  <2> QED
    BY <1>1, <2>1 DEF Recorded, ITyped
<1>9. /\ shards' = shards /\ page' = page /\ present' \subseteq Names /\ IsFiniteSet(present')
      /\ recorder' \in {"recording", "up"} /\ (recorder' = "recording" => indexed' = TRUE)
      /\ recorder = "up" /\ (pending' = new \/ (pending' = pending /\ recorder' = recorder))
      /\ untold' \subseteq Names /\ (recorder' # "recording" => pending' = pending)
  BY <1>1 DEF Recorded, ITyped
<1>10. pending' \in [Names -> Seq(HistoryRecords)]
  BY <1>2, <1>9 DEF ITyped
<1>11. ITyped'
  BY <1>6, <1>7, <1>8, <1>9, <1>10 DEF ITyped
<1>12. IConcern'
  BY <1>2, <1>9 DEF IConcern
<1>13. IStart'
  BY <1>9 DEF IStart
<1> QED
  BY <1>4, <1>11, <1>12, <1>13

\* A shard gets what was pending for it, or the beginning of it.
LEMMA FileShardTyped ==
  ASSUME ITyped, IConcern, IStart, NEW p \in Names, FileShard(p)
  PROVE  (ITyped /\ IConcern /\ IStart)'
<1>1. /\ recorder = "recording" /\ UNCHANGED <<present, commits, events, indexed, page, trail, gone>>
      /\ recorder' = IF pending' = NoPending THEN "up" ELSE recorder
      /\ shards[p] \in Seq(HistoryRecords) /\ pending[p] \in Seq(HistoryRecords)
  BY DEF FileShard, ITyped
<1>2. \E part \in Seq(HistoryRecords) :
        /\ shards' = [shards EXCEPT ![p] = @ \o part]
        /\ \A k \in DOMAIN part : Concerns(part[k], p)
  <2>1. CASE shards' = [shards EXCEPT ![p] = @ \o pending[p]]
    BY <1>1, <2>1 DEF IConcern
  <2>2. ASSUME NEW i \in 0..Len(pending[p]), shards' = [shards EXCEPT ![p] = @ \o SubSeq(pending[p], 1, i)]
        PROVE  \E part \in Seq(HistoryRecords) :
                 /\ shards' = [shards EXCEPT ![p] = @ \o part]
                 /\ \A k \in DOMAIN part : Concerns(part[k], p)
    <3> DEFINE part == SubSeq(pending[p], 1, i)
    <3>1. /\ part \in Seq(HistoryRecords)
          /\ \A k \in DOMAIN part : part[k] = pending[p][(k + 1) - 1] /\ (k + 1) - 1 \in 1..i
      BY <1>1, SubSeqMembers
    <3>2. \A j \in 1..i : Concerns(pending[p][j], p)
      BY <1>1, <2>2 DEF IConcern
    <3>3. \A k \in DOMAIN part : Concerns(part[k], p)
      BY <3>1, <3>2
    <3> HIDE DEF part
    <3> QED
      BY <2>2, <3>1, <3>3 DEF part
  <2> QED
    BY <2>1, <2>2 DEF FileShard
<1>3. PICK part \in Seq(HistoryRecords) :
        /\ shards' = [shards EXCEPT ![p] = @ \o part]
        /\ \A k \in DOMAIN part : Concerns(part[k], p)
  BY <1>2
<1>4. shards' \in [Names -> Seq(HistoryRecords)]
  BY <1>1, <1>3 DEF ITyped
<1>5. ASSUME NEW x \in Names, NEW i \in DOMAIN shards'[x] PROVE Concerns(shards'[x][i], x)
  <2>1. CASE x = p
    <3>1. shards'[x] = shards[p] \o part
      BY <1>3, <2>1 DEF ITyped
    <3>2. \A k \in DOMAIN shards[p] : Concerns(shards[p][k], p)
      BY DEF IConcern
    <3>3. DOMAIN shards'[x] = 1..(Len(shards[p]) + Len(part)) /\ Len(shards[p]) \in Nat /\ Len(part) \in Nat
      BY <1>1, <3>1
    <3>4. shards'[x][i] = IF i <= Len(shards[p]) THEN shards[p][i] ELSE part[i - Len(shards[p])]
      BY <1>1, <1>5, <3>1, <3>3
    <3>5. (i <= Len(shards[p]) => i \in DOMAIN shards[p]) /\ (~(i <= Len(shards[p])) => i - Len(shards[p]) \in DOMAIN part)
      BY <1>1, <1>5, <3>3
    <3> QED
      BY <1>3, <2>1, <3>2, <3>4, <3>5
  <2>2. CASE x # p
    BY <1>3, <1>5, <2>2 DEF ITyped, IConcern
  <2> QED
    BY <2>1, <2>2
<1>6. pending' \in {[pending EXCEPT ![p] = <<>>], NoPending}
  BY DEF FileShard
<1>7. /\ pending' \in [Names -> Seq(HistoryRecords)]
      /\ \A x \in Names : pending'[x] = <<>> \/ pending'[x] = pending[x]
  <2>1. <<>> \in Seq(HistoryRecords)
    OBVIOUS
  <2> QED
    BY <1>6, <2>1 DEF NoPending, ITyped
<1>8. untold' \subseteq Names
  BY DEF FileShard, ITyped
<1>9. ITyped'
  BY <1>1, <1>4, <1>7, <1>8 DEF ITyped
<1>10. IConcern'
  BY <1>5, <1>7 DEF IConcern
<1>11. IStart'
  BY <1>1 DEF IStart
<1> QED
  BY <1>9, <1>10, <1>11

\* What a journal of commits leaves of each path.
LEMMA LegacyTyped ==
  ASSUME ITyped
  PROVE  LET all == Legacy(FlattenSeq(commits))
             kept == [p \in Names |-> LegacyShard(p)]
         IN  /\ all \in Seq(HistoryRecords) /\ kept \in [Names -> Seq(HistoryRecords)]
             /\ \A p \in Names, k \in Nat : k \in DOMAIN kept[p] =>
                  /\ kept[p][k].path = p /\ Concerns(kept[p][k], p)
                  /\ kept[p][k].action # "move" /\ kept[p][k].commit = 0
                  /\ \E i \in DOMAIN all : all[i] = kept[p][k]
             /\ \A p \in Names : Len(kept[p]) <= Len(all)
<1> DEFINE all == Legacy(FlattenSeq(commits))
           kept == [p \in Names |-> LegacyShard(p)]
<1>1. commits \in Seq(Seq(CommittedLeaves))
  BY DEF ITyped
<1>2. /\ all \in Seq(HistoryRecords)
      /\ \A i \in DOMAIN all : all[i].action # "move" /\ all[i].commit = 0
      /\ \A p \in Names :
           /\ LegacyShard(p) \in Seq(HistoryRecords) /\ Len(LegacyShard(p)) <= Len(all)
           /\ \A k \in DOMAIN LegacyShard(p) :
                LegacyShard(p)[k].path = p /\ \E i \in DOMAIN all : all[i] = LegacyShard(p)[k]
  BY <1>1, LegacyRecords
<1> HIDE DEF all
<1>3. kept \in [Names -> Seq(HistoryRecords)] /\ \A p \in Names : kept[p] = LegacyShard(p)
  BY <1>2
<1> HIDE DEF kept
<1>4. ASSUME NEW p \in Names, NEW k \in DOMAIN kept[p]
      PROVE  /\ kept[p][k].path = p /\ Concerns(kept[p][k], p)
             /\ kept[p][k].action # "move" /\ kept[p][k].commit = 0
             /\ \E i \in DOMAIN all : all[i] = kept[p][k]
  <2>1. kept[p][k].path = p /\ \E i \in DOMAIN all : all[i] = kept[p][k]
    BY <1>2, <1>3, <1>4
  <2> QED
    BY <1>2, <2>1 DEF Concerns
<1>5. \A p \in Names : Len(kept[p]) <= Len(all)
  BY <1>2, <1>3
<1> QED
  BY <1>2, <1>3, <1>4, <1>5 DEF all, kept

\* Starts, migrations and crashes.
LEMMA StartTyped ==
  ASSUME ITyped, IConcern, IStart,
         StartReady \/ StartMigrating \/ InstallShards \/ InstallJournal \/ RecorderCrash
  PROVE  (ITyped /\ IConcern /\ IStart)'
<1> DEFINE all == Legacy(FlattenSeq(commits))
           kept == [p \in Names |-> LegacyShard(p)]
<1>1. NoPending \in [Names -> Seq(HistoryRecords)] /\ \A p \in Names : NoPending[p] = <<>>
  <2>1. <<>> \in Seq(HistoryRecords)
    OBVIOUS
  <2> QED
    BY <2>1 DEF NoPending
<1>2. CASE StartReady
  <2>1. recorder = "down" /\ recorder' = "up" /\ UNCHANGED <<present, commits, events, indexed, shards,
          pending, page, trail, gone, untold>>
    BY <1>2 DEF StartReady
  <2> QED
    BY <2>1 DEF ITyped, IConcern, IStart
<1>3. CASE StartMigrating
  <2>1. recorder = "down" /\ recorder' = "cleared" /\ shards' = NoPending /\ ~indexed /\ commits # <<>>
        /\ UNCHANGED <<present, commits, events, indexed, pending, page, trail, gone, untold>>
    BY <1>3 DEF StartMigrating
  <2> QED
    BY <1>1, <2>1 DEF ITyped, IConcern, IStart
<1>4. /\ all \in Seq(HistoryRecords) /\ kept \in [Names -> Seq(HistoryRecords)]
      /\ \A p \in Names, k \in Nat : k \in DOMAIN kept[p] => Concerns(kept[p][k], p)
  BY LegacyTyped
<1> HIDE DEF kept, all
<1>5. \A p \in Names : \A k \in DOMAIN kept[p] : Concerns(kept[p][k], p)
  BY <1>4
<1>6. CASE InstallShards
  <2>1. recorder = "cleared" /\ recorder' = "filed" /\ shards' = kept
        /\ UNCHANGED <<present, commits, events, indexed, pending, page, trail, gone, untold>>
    BY <1>6 DEF InstallShards, kept
  <2>2. \A p : LegacyShard(p)' = LegacyShard(p)
    BY <2>1 DEF LegacyShard
  <2>3. IStart'
    BY <2>1, <2>2 DEF IStart, kept
  <2> QED
    BY <1>4, <1>5, <2>1, <2>3 DEF ITyped, IConcern
<1>7. CASE InstallJournal
  <2>1. recorder = "filed" /\ recorder' = "up" /\ events' = all /\ indexed' = TRUE /\ trail' = kept
        /\ gone' = {} /\ untold' = {} /\ UNCHANGED <<present, commits, shards, pending, page>>
    BY <1>7 DEF InstallJournal, all, kept
  <2> QED
    BY <1>4, <2>1 DEF ITyped, IConcern, IStart
<1>8. CASE RecorderCrash
  <2>1. recorder' = "down" /\ pending' = NoPending /\ untold' \subseteq Names
        /\ UNCHANGED <<present, commits, events, indexed, shards, page, trail, gone>>
    BY <1>8 DEF RecorderCrash, ITyped
  <2> QED
    BY <1>1, <2>1 DEF ITyped, IConcern, IStart
<1> QED
  BY <1>2, <1>3, <1>6, <1>7, <1>8

\* Every page goes on where the one before ended.
LEMMA PagesTyped ==
  ASSUME ITyped, IConcern, IStart, IPage,
         NextPage \/ \E allowed \in SUBSET Names : FirstPage(allowed)
  PROVE  (ITyped /\ IConcern /\ IStart /\ IPage)'
<1>1. /\ events \in Seq(HistoryRecords) /\ PageSize \in Nat \ {0}
      /\ page \in [roots : SUBSET Names, boundary : Nat, offset : Nat,
                   seen : Seq(HistoryRecords), first : Seq(HistoryRecords)]
  BY HistoryAssumption DEF ITyped
<1>2. UNCHANGED <<present, commits, events, indexed, shards, recorder, pending, trail, gone, untold>>
  BY DEF FirstPage, NextPage
<1>3. ASSUME NEW allowed \in SUBSET Names, FirstPage(allowed)
      PROVE  page' \in [roots : SUBSET Names, boundary : Nat, offset : Nat,
                        seen : Seq(HistoryRecords), first : Seq(HistoryRecords)] /\ IPage'
  <2> DEFINE found == Matches(events, allowed)
             newest == SubSeq(found, Len(found) - PageSize + 1, Len(found))
  <2>1. /\ Len(found) > PageSize
        /\ page' = [roots |-> allowed, boundary |-> Len(found), offset |-> PageSize,
                    seen |-> Reverse(newest), first |-> Reverse(found)]
    BY <1>3 DEF FirstPage
  <2>2. found \in Seq(HistoryRecords) /\ found = Matches(events', page'.roots)
    BY <1>1, <1>2, <2>1, MatchesIs
  <2>3. Len(found) \in Nat /\ Len(found) - PageSize + 1 \in Nat \ {0} /\ Len(found) \in 0..Len(found)
    BY <1>1, <2>1, <2>2
  <2> HIDE DEF found
  <2>4. /\ newest \in Seq(HistoryRecords) /\ Len(newest) = PageSize
        /\ \A k \in DOMAIN newest : newest[k] = found[(k + (Len(found) - PageSize + 1)) - 1]
    <3>1. /\ newest \in Seq(HistoryRecords)
          /\ Len(newest) = IF Len(found) - PageSize + 1 <= Len(found)
                           THEN Len(found) - (Len(found) - PageSize + 1) + 1 ELSE 0
          /\ \A k \in DOMAIN newest : newest[k] = found[(k + (Len(found) - PageSize + 1)) - 1]
      BY <2>2, <2>3, SubSeqMembers
    <3> DEFINE l == Len(found)
               e == Len(newest)
    <3>2. /\ l \in Nat /\ PageSize \in Nat \ {0}
          /\ e = IF l - PageSize + 1 <= l THEN l - (l - PageSize + 1) + 1 ELSE 0
      BY <1>1, <2>3, <3>1
    <3>3. e = PageSize
      <4> HIDE DEF l, e
      <4> QED
        BY <3>2
    <3> QED
      BY <3>1, <3>3
  <2> HIDE DEF newest
  <2>5. /\ Reverse(newest) \in Seq(HistoryRecords) /\ Len(Reverse(newest)) = PageSize
        /\ \A i \in 1..PageSize : Reverse(newest)[i] = newest[(PageSize - i) + 1]
        /\ Reverse(found) \in Seq(HistoryRecords) /\ Len(Reverse(found)) = Len(found)
        /\ \A i \in 1..Len(found) : Reverse(found)[i] = found[(Len(found) - i) + 1]
    <3>1. /\ Reverse(newest) \in Seq(HistoryRecords) /\ Len(Reverse(newest)) = Len(newest)
          /\ \A i \in 1..Len(newest) : Reverse(newest)[i] = newest[(Len(newest) - i) + 1]
      BY <2>4, ReverseIs
    <3>2. /\ Reverse(found) \in Seq(HistoryRecords) /\ Len(Reverse(found)) = Len(found)
          /\ \A i \in 1..Len(found) : Reverse(found)[i] = found[(Len(found) - i) + 1]
      BY <2>2, ReverseIs
    <3> QED
      BY <2>4, <3>1, <3>2
  <2>6. Reverse(newest) = SubSeq(Reverse(found), 1, PageSize)
    <3> DEFINE s == Reverse(newest)
               t == SubSeq(Reverse(found), 1, PageSize)
    <3>1. PageSize \in 0..Len(Reverse(found)) /\ PageSize \in Nat
      BY <1>1, <2>1, <2>3, <2>5
    <3>2. /\ t \in Seq(HistoryRecords) /\ Len(t) = IF 1 <= PageSize THEN PageSize - 1 + 1 ELSE 0
          /\ \A k \in DOMAIN t : t[k] = Reverse(found)[(k + 1) - 1]
      BY <2>5, <3>1, SubSeqMembers
    <3>3. Len(t) = PageSize /\ DOMAIN t = 1..PageSize
      BY <1>1, <3>1, <3>2
    <3>4. ASSUME NEW k \in 1..PageSize PROVE s[k] = t[k]
      <4>1. (k + 1) - 1 = k /\ k \in 1..Len(found) /\ (PageSize - k) + 1 \in 1..PageSize
        BY <1>1, <2>1, <2>3
      <4>2. t[k] = found[(Len(found) - k) + 1]
        BY <2>5, <3>2, <3>3, <4>1
      <4>3. s[k] = newest[(PageSize - k) + 1]
        BY <2>5
      <4>4. newest[(PageSize - k) + 1] = found[(((PageSize - k) + 1) + (Len(found) - PageSize + 1)) - 1]
        BY <2>4, <4>1
      <4>5. (((PageSize - k) + 1) + (Len(found) - PageSize + 1)) - 1 = (Len(found) - k) + 1
        BY <1>1, <2>3, <4>1
      <4> QED
        BY <4>2, <4>3, <4>4, <4>5
    <3>5. s \in Seq(HistoryRecords) /\ Len(s) = PageSize
      BY <2>5
    <3> HIDE DEF s, t
    <3>6. s = t
      BY <3>2, <3>3, <3>4, <3>5, SeqEqual
    <3> QED
      BY <3>6 DEF s, t
  <2>7. SubSeq(found, 1, Len(found)) = found
    <3> DEFINE t == SubSeq(found, 1, Len(found))
    <3>1. /\ t \in Seq(HistoryRecords) /\ Len(t) = Len(found)
          /\ \A k \in 1..Len(found) : t[k] = found[k]
      BY <2>2, <2>3, PrefixMembers
    <3> HIDE DEF t
    <3>2. Len(t) = Len(found) /\ \A k \in 1..Len(t) : t[k] = found[k]
      BY <3>1
    <3>3. t = found
      BY <2>2, <3>1, <3>2, SeqEqual
    <3> QED
      BY <3>3 DEF t
  <2>8. /\ page'.roots = allowed /\ page'.boundary = Len(found) /\ page'.offset = PageSize
        /\ page'.seen = Reverse(newest) /\ page'.first = Reverse(found)
    BY <2>1 DEF newest
  <2>9. IPage'
    <3>1. PageSize <= Len(found) /\ Len(found) <= Len(found)
      BY <1>1, <2>1, <2>3
    <3>2. /\ page'.offset <= page'.boundary /\ page'.boundary <= Len(found)
          /\ page'.first = Reverse(SubSeq(found, 1, page'.boundary))
          /\ page'.seen = SubSeq(page'.first, 1, page'.offset)
      BY <2>6, <2>7, <2>8, <3>1, Zenon
    <3> QED
      BY <2>2, <3>2, Zenon DEF IPage
  <2> QED
    BY <1>1, <2>1, <2>3, <2>5, <2>9 DEF newest
<1>4. ASSUME NextPage
      PROVE  page' \in [roots : SUBSET Names, boundary : Nat, offset : Nat,
                        seen : Seq(HistoryRecords), first : Seq(HistoryRecords)] /\ IPage'
  <2> DEFINE found == Matches(events, page.roots)
             start == page.boundary - page.offset
             end == IF start > PageSize THEN start - PageSize ELSE 0
             more == SubSeq(found, end + 1, start)
             b == page.boundary
             o == page.offset
  <2>1. /\ page.offset < page.boundary
        /\ page' = [page EXCEPT !.offset = @ + (start - end), !.seen = @ \o Reverse(more)]
    BY <1>4 DEF NextPage, PageStart
  <2>2. found \in Seq(HistoryRecords)
    BY <1>1, MatchesIs
  <2>3. /\ b \in Nat /\ o \in Nat /\ o < b /\ b <= Len(found) /\ Len(found) \in Nat
        /\ page.first = Reverse(SubSeq(found, 1, b)) /\ page.seen = SubSeq(page.first, 1, o)
    BY <1>1, <2>1, <2>2 DEF IPage
  <2> HIDE DEF found
  <2>4. start = b - o /\ start \in Nat \ {0} /\ end \in Nat /\ end < start /\ start <= b
    <3>1. start = b - o /\ start \in Nat \ {0} /\ start <= b
      BY <2>3
    <3> HIDE DEF start, b, o
    <3>2. end = IF start > PageSize THEN start - PageSize ELSE 0
      OBVIOUS
    <3> HIDE DEF end
    <3>3. end \in Nat /\ end < start
      BY <1>1, <3>1, <3>2
    <3> QED
      BY <3>1, <3>3
  <2>5. /\ page'.roots = page.roots /\ page'.boundary = b /\ page'.offset = o + (start - end)
        /\ page'.first = page.first /\ page'.seen = page.seen \o Reverse(more)
    BY <1>1, <2>1
  <2> HIDE DEF start, end, b, o
  <2>6. /\ more \in Seq(HistoryRecords) /\ Len(more) = start - end
        /\ \A k \in 1..(start - end) : more[k] = found[k + end]
    <3>1. end + 1 \in Nat \ {0} /\ start \in 0..Len(found)
      BY <2>3, <2>4
    <3>2. /\ more \in Seq(HistoryRecords)
          /\ Len(more) = IF end + 1 <= start THEN start - (end + 1) + 1 ELSE 0
          /\ \A k \in DOMAIN more : more[k] = found[(k + (end + 1)) - 1]
      BY <2>2, <3>1, SubSeqMembers
    <3>3. Len(more) = start - end
      BY <2>4, <3>2
    <3>4. \A k \in 1..(start - end) : k \in DOMAIN more /\ (k + (end + 1)) - 1 = k + end
      BY <2>4, <3>2, <3>3
    <3> QED
      BY <3>2, <3>3, <3>4
  <2> HIDE DEF more
  <2>7. /\ Reverse(more) \in Seq(HistoryRecords) /\ Len(Reverse(more)) = start - end
        /\ \A k \in 1..(start - end) : Reverse(more)[k] = found[(start - k) + 1]
    <3>1. /\ Reverse(more) \in Seq(HistoryRecords) /\ Len(Reverse(more)) = Len(more)
          /\ \A i \in 1..Len(more) : Reverse(more)[i] = more[(Len(more) - i) + 1]
      BY <2>6, ReverseIs
    <3>2. ASSUME NEW k \in 1..(start - end) PROVE Reverse(more)[k] = found[(start - k) + 1]
      <4>1. (Len(more) - k) + 1 \in 1..(start - end) /\ ((Len(more) - k) + 1) + end = (start - k) + 1
        <5>1. start \in Nat /\ end \in Nat /\ start - end \in Nat /\ k \in Nat /\ 1 <= k /\ k <= start - end
          BY <2>4
        <5>2. Len(more) = start - end
          BY <2>6
        <5> QED
          BY <5>1, <5>2
      <4> QED
        BY <2>6, <3>1, <4>1
    <3> QED
      BY <2>6, <3>1, <3>2
  <2>8. /\ page.first \in Seq(HistoryRecords) /\ Len(page.first) = b
        /\ \A k \in 1..b : page.first[k] = found[(b - k) + 1]
    <3> DEFINE old == SubSeq(found, 1, b)
    <3>1. b \in 0..Len(found) /\ b >= 1
      BY <2>3
    <3>2. old \in Seq(HistoryRecords) /\ Len(old) = b /\ \A k \in 1..b : old[k] = found[k]
      BY <2>2, <3>1, PrefixMembers
    <3>3. page.first = Reverse(old)
      BY <2>3
    <3> HIDE DEF old
    <3>4. Len(old) = b /\ \A k \in 1..b : old[k] = found[k]
      BY <3>2
    <3>5. /\ page.first \in Seq(HistoryRecords) /\ Len(page.first) = b
          /\ \A k \in 1..b : page.first[k] = old[(b - k) + 1]
      BY <3>2, <3>3, <3>4, ReverseIs
    <3>6. \A k \in 1..b : (b - k) + 1 \in 1..b
      BY <2>3
    <3> QED
      BY <3>4, <3>5, <3>6
  <2>9. /\ page.seen \in Seq(HistoryRecords) /\ Len(page.seen) = o
        /\ \A k \in 1..o : page.seen[k] = page.first[k]
    <3>1. o \in 0..Len(page.first)
      BY <2>3, <2>8
    <3>2. /\ SubSeq(page.first, 1, o) \in Seq(HistoryRecords)
          /\ Len(SubSeq(page.first, 1, o)) = IF 1 <= o THEN o - 1 + 1 ELSE 0
          /\ \A k \in DOMAIN SubSeq(page.first, 1, o) : SubSeq(page.first, 1, o)[k] = page.first[(k + 1) - 1]
      BY <2>8, <3>1, SubSeqMembers
    <3> QED
      BY <2>3, <3>2
  <2> DEFINE s == page'.seen
             n == o + (start - end)
             t == SubSeq(page.first, 1, n)
  <2>10. n \in Nat /\ n \in 0..b /\ n <= b /\ n >= 1
    BY <2>3, <2>4
  <2>11. /\ s \in Seq(HistoryRecords) /\ Len(s) = n
         /\ \A k \in 1..n : s[k] = IF k <= o THEN page.seen[k] ELSE Reverse(more)[k - o]
    <3>1. s = page.seen \o Reverse(more)
      BY <2>5
    <3> HIDE DEF s
    <3> DEFINE u == page.seen
               v == Reverse(more)
    <3>2. /\ u \in Seq(HistoryRecords) /\ v \in Seq(HistoryRecords) /\ s = u \o v
          /\ Len(u) = o /\ Len(v) = start - end /\ o \in Nat /\ start - end \in Nat
      BY <2>3, <2>7, <2>9, <3>1
    <3> HIDE DEF u, v
    <3>3. /\ s \in Seq(HistoryRecords) /\ Len(s) = Len(u) + Len(v)
          /\ \A k \in 1..(Len(u) + Len(v)) : s[k] = IF k <= Len(u) THEN u[k] ELSE v[k - Len(u)]
      BY <3>2, ConcatProperties
    <3> QED
      BY <3>2, <3>3 DEF u, v
  <2>12. /\ t \in Seq(HistoryRecords) /\ Len(t) = n /\ \A k \in 1..n : t[k] = page.first[k]
    <3>1. n \in 0..Len(page.first)
      BY <2>8, <2>10
    <3>2. /\ t \in Seq(HistoryRecords) /\ Len(t) = IF 1 <= n THEN n - 1 + 1 ELSE 0
          /\ \A k \in DOMAIN t : t[k] = page.first[(k + 1) - 1]
      BY <2>8, <3>1, SubSeqMembers
    <3> HIDE DEF n, t
    <3> QED
      BY <2>10, <3>2
  <2>13. ASSUME NEW k \in 1..n PROVE s[k] = t[k]
    <3>1. CASE k <= o
      BY <2>3, <2>9, <2>11, <2>12, <3>1
    <3>2. CASE ~(k <= o)
      <4>1. k - o \in 1..(start - end) /\ k \in 1..b /\ (start - (k - o)) + 1 = (b - k) + 1
        BY <2>3, <2>4, <2>10, <3>2
      <4>2. s[k] = found[(start - (k - o)) + 1]
        BY <2>7, <2>11, <3>2, <4>1
      <4> QED
        BY <2>8, <2>12, <4>1, <4>2
    <3> QED
      BY <3>1, <3>2
  <2> HIDE DEF s, t, n
  <2>14. s = t
    BY <2>11, <2>12, <2>13, SeqEqual
  <2>15. IPage'
    <3>1. page'.seen = SubSeq(page'.first, 1, page'.offset) /\ page'.offset <= page'.boundary
      BY <2>5, <2>10, <2>14 DEF s, t, n
    <3>2. Matches(events', page'.roots) = found
      BY <1>2, <2>5 DEF found
    <3> QED
      BY <2>3, <2>5, <3>1, <3>2 DEF IPage
  <2>16. /\ page'.offset \in Nat /\ page'.seen \in Seq(HistoryRecords)
         /\ page' = [page EXCEPT !.offset = page'.offset, !.seen = page'.seen]
    BY <1>1, <2>1, <2>5, <2>10, <2>11 DEF s, n
  <2> QED
    BY <1>1, <2>15, <2>16
<1>5. page' \in [roots : SUBSET Names, boundary : Nat, offset : Nat,
                 seen : Seq(HistoryRecords), first : Seq(HistoryRecords)] /\ IPage'
  BY <1>3, <1>4
<1> QED
  <2>1. ITyped'
    BY <1>2, <1>5 DEF ITyped
  <2>2. IConcern' /\ IStart'
    <3>1. \A p : LegacyShard(p)' = LegacyShard(p)
      BY <1>2 DEF LegacyShard
    <3> QED
      BY <1>2, <3>1 DEF IConcern, IStart
  <2> QED
    BY <1>5, <2>1, <2>2

(* Whatever is committed comes after what a reader has begun with, and the   *)
(* journal is made anew only where there was none.                           *)
LEMMA PageKept ==
  ASSUME ITyped, IStart, IPage, ITyped', page' = page,
         (\E more \in Seq(HistoryRecords) : events' = events \o more) \/ InstallJournal
  PROVE  IPage'
<1> DEFINE found == Matches(events, page.roots)
           b == page.boundary
<1>1. /\ events \in Seq(HistoryRecords) /\ events' \in Seq(HistoryRecords)
      /\ page.boundary \in Nat /\ page.offset \in Nat
  BY DEF ITyped
<1>2. found \in Seq(HistoryRecords) /\ Matches(events', page.roots) \in Seq(HistoryRecords)
  BY <1>1, MatchesIs
<1>3. page.offset <= b /\ b <= Len(found) /\ page.first = Reverse(SubSeq(found, 1, b))
      /\ page.seen = SubSeq(page.first, 1, page.offset)
  BY DEF IPage
<1>4. \E rest \in Seq(HistoryRecords) :
        Matches(events', page.roots) = found \o rest \/ (b = 0 /\ Matches(events', page.roots) = rest)
  <2>1. ASSUME NEW more \in Seq(HistoryRecords), events' = events \o more
        PROVE  Matches(events', page.roots) = found \o Matches(more, page.roots)
               /\ Matches(more, page.roots) \in Seq(HistoryRecords)
    BY <1>1, <2>1, MatchesIs
  <2>2. CASE InstallJournal
    <3>1. events = <<>>
      BY <2>2 DEF InstallJournal, IStart, ITyped
    <3>2. found = <<>>
      BY <3>1, KeptShort DEF Matches
    <3>3. b = 0
      BY <1>1, <1>3, <3>2
    <3> QED
      BY <1>2, <3>3
  <2> QED
    BY <2>1, <2>2
<1>5. PICK rest \in Seq(HistoryRecords) :
        Matches(events', page.roots) = found \o rest \/ (b = 0 /\ Matches(events', page.roots) = rest)
  BY <1>4
<1> DEFINE now == Matches(events', page.roots)
<1> HIDE DEF found, b
<1>6. b <= Len(now) /\ b \in Nat
  BY <1>1, <1>2, <1>3, <1>5 DEF b
<1>7. ASSUME NEW k \in 1..b PROVE now[k] = found[k]
  <2>1. now = found \o rest /\ k \in 1..Len(found)
    BY <1>2, <1>3, <1>5, <1>6
  <2> HIDE DEF now
  <2> QED
    BY <1>2, <2>1, ConcatProperties
<1> HIDE DEF now
<1>8. SubSeq(now, 1, b) = SubSeq(found, 1, b)
  <2> DEFINE s == SubSeq(now, 1, b)
             t == SubSeq(found, 1, b)
  <2>1. now \in Seq(HistoryRecords) /\ b \in 0..Len(now) /\ b \in 0..Len(found)
    BY <1>2, <1>3, <1>6 DEF now
  <2>2. s \in Seq(HistoryRecords) /\ Len(s) = b /\ \A k \in 1..b : s[k] = now[k]
    BY <2>1, PrefixMembers
  <2>3. t \in Seq(HistoryRecords) /\ Len(t) = b /\ \A k \in 1..b : t[k] = found[k]
    BY <1>2, <2>1, PrefixMembers
  <2> HIDE DEF s, t
  <2>4. Len(s) = b /\ Len(t) = b /\ \A k \in 1..b : s[k] = t[k]
    BY <1>7, <2>2, <2>3
  <2>5. s = t
    BY <2>2, <2>3, <2>4, SeqEqual
  <2> QED
    BY <2>5 DEF s, t
<1> QED
  BY <1>3, <1>6, <1>8 DEF IPage, now, b

-----------------------------------------------------------------------------
(* The history of each file *)

Outgoing(r, p) == r.action = "move" /\ r.from = p
Incoming(r, p) == r.action = "move" /\ r.path = p
Journals == [Names -> Seq(HistoryRecords)]

(* The records of a shard come in the order of their commits, and a move     *)
(* away is the first of its commit.                                          *)
Sorted(s, p, n) ==
  \A i \in DOMAIN s :
    /\ s[i].commit <= n
    /\ \A j \in DOMAIN s : i < j =>
         s[i].commit <= s[j].commit /\ (Outgoing(s[j], p) => s[i].commit < s[j].commit)
IFiled ==
  \A p \in Names :
    /\ Len(Filed[p]) <= Len(events) /\ Sorted(Filed[p], p, Len(commits))
    /\ \A i \in DOMAIN Filed[p] : \E e \in DOMAIN events : events[e] = Filed[p][i]

(* A file has moved away from a path if the move is what its shard ends in.  *)
IGone ==
  \A p \in Names \ untold :
    p \in gone <=> Filed[p] # <<>> /\ Outgoing(Filed[p][Len(Filed[p])], p)

(* A walk through the shards V meets the records t, oldest first, each at    *)
(* the place at that comes next after the one before: in the same shard, or  *)
(* where the source's shard has the move.  It starts where a shard starts or *)
(* right after a file has moved away.                                        *)
Enters(V, r, at, prior) ==
  IF Incoming(r, at[1])
  THEN /\ prior[1] = r.from /\ prior[2] + 1 \in DOMAIN V[prior[1]]
       /\ V[prior[1]][prior[2] + 1] = r
       /\ \A m \in 1..prior[2] : V[prior[1]][m] # r
  ELSE prior[1] = at[1] /\ prior[2] = at[2] - 1
Begins(V, at) ==
  at[2] = 0 \/ (at[2] \in DOMAIN V[at[1]] /\ Outgoing(V[at[1]][at[2]], at[1]))
Walk(V, t, w) ==
  /\ w \in [0..Len(t) -> Names \X Nat]
  /\ Begins(V, w[0])
  /\ \A k \in 1..Len(t) :
       /\ w[k][2] \in DOMAIN V[w[k][1]] /\ V[w[k][1]][w[k][2]] = t[k]
       /\ Enters(V, t[k], w[k], w[k - 1])
Unbroken(t, w, n) == \A k \in 1..n : ~Outgoing(t[k], w[k][1])
WalksTo(V, t, w, p) ==
  /\ Walk(V, t, w) /\ Unbroken(t, w, Len(t) - 1)
  /\ w[Len(t)] = <<p, Len(V[p])>> /\ (t = <<>> => V[p] = <<>>)
IWalk == \A p \in Names : Intact(p) => \E w : WalksTo(Filed, trail[p], w, p)

IHistory == Ready => IFiled /\ IGone /\ IWalk

(* A walk stays a walk while the shards it passes only grow. *)
LEMMA WalkStays ==
  ASSUME NEW V \in Journals, NEW W \in Journals, NEW t \in Seq(HistoryRecords), NEW w, NEW U,
         Walk(V, t, w), \A k \in 0..Len(t) : w[k][1] \notin U,
         \A a \in Names \ U :
           Len(V[a]) <= Len(W[a]) /\ \A i \in 1..Len(V[a]) : W[a][i] = V[a][i]
  PROVE  Walk(W, t, w)
<1>1. Len(t) \in Nat /\ w \in [0..Len(t) -> Names \X Nat]
  BY DEF Walk
<1>2. ASSUME NEW k \in 0..Len(t)
      PROVE  /\ w[k][1] \in Names /\ w[k][2] \in Nat
             /\ \A i \in DOMAIN V[w[k][1]] : i \in DOMAIN W[w[k][1]] /\ W[w[k][1]][i] = V[w[k][1]][i]
  <2> DEFINE a == w[k][1]
  <2>1. a \in Names \ U /\ w[k][2] \in Nat
    BY <1>1, <1>2
  <2> HIDE DEF a
  <2>2. V[a] \in Seq(HistoryRecords) /\ W[a] \in Seq(HistoryRecords)
    BY <2>1 DEF Journals
  <2>3. DOMAIN V[a] = 1..Len(V[a]) /\ DOMAIN W[a] = 1..Len(W[a]) /\ Len(V[a]) \in Nat /\ Len(W[a]) \in Nat
    BY <2>2
  <2>4. \A i \in DOMAIN V[a] : i \in DOMAIN W[a] /\ W[a][i] = V[a][i]
    BY <2>1, <2>3
  <2> QED
    BY <2>1, <2>4 DEF a
<1>3. Begins(W, w[0])
  <2>1. 0 \in 0..Len(t)
    BY <1>1
  <2> QED
    BY <1>2, <2>1 DEF Begins, Walk
<1>4. ASSUME NEW k \in 1..Len(t)
      PROVE  /\ w[k][2] \in DOMAIN W[w[k][1]] /\ W[w[k][1]][w[k][2]] = t[k]
             /\ Enters(W, t[k], w[k], w[k - 1])
  <2>1. k \in 0..Len(t) /\ k - 1 \in 0..Len(t)
    BY <1>1
  <2>2. /\ w[k][2] \in DOMAIN V[w[k][1]] /\ V[w[k][1]][w[k][2]] = t[k]
        /\ Enters(V, t[k], w[k], w[k - 1])
    BY DEF Walk
  <2>3. w[k][2] \in DOMAIN W[w[k][1]] /\ W[w[k][1]][w[k][2]] = t[k]
    BY <1>2, <2>1, <2>2
  <2> DEFINE b == w[k - 1][1]
             j == w[k - 1][2]
  <2>4. b \in Names /\ j \in Nat /\ \A i \in DOMAIN V[b] : i \in DOMAIN W[b] /\ W[b][i] = V[b][i]
    BY <1>2, <2>1
  <2>5. CASE Incoming(t[k], w[k][1])
    <3>1. /\ b = t[k].from /\ j + 1 \in DOMAIN V[b] /\ V[b][j + 1] = t[k]
          /\ \A m \in 1..j : V[b][m] # t[k]
      BY <2>2, <2>5 DEF Enters
    <3> HIDE DEF b, j
    <3>2. \A m \in 1..j : m \in DOMAIN V[b]
      <4>1. V[b] \in Seq(HistoryRecords)
        BY <2>4 DEF Journals
      <4>2. DOMAIN V[b] = 1..Len(V[b]) /\ Len(V[b]) \in Nat
        BY <4>1
      <4> QED
        BY <2>4, <3>1, <4>2
    <3>3. j + 1 \in DOMAIN W[b] /\ W[b][j + 1] = t[k] /\ \A m \in 1..j : W[b][m] # t[k]
      BY <2>4, <3>1, <3>2
    <3> QED
      BY <2>3, <2>5, <3>1, <3>3 DEF Enters, b, j
  <2>6. CASE ~Incoming(t[k], w[k][1])
    BY <2>2, <2>3, <2>6 DEF Enters
  <2> QED
    BY <2>5, <2>6
<1> QED
  BY <1>1, <1>3, <1>4 DEF Walk

(* A walk passes no path that its records and its end do not name. *)
LEMMA WalkAvoids ==
  ASSUME NEW V \in Journals, \A a \in Names : \A i \in DOMAIN V[a] : Concerns(V[a][i], a),
         NEW t \in Seq(HistoryRecords), NEW w, NEW U, Walk(V, t, w),
         \A k \in DOMAIN t : \A x \in U : ~Concerns(t[k], x),
         w[Len(t)][1] \notin U
  PROVE  \A k \in 0..Len(t) : w[k][1] \notin U
<1>1. Len(t) \in Nat /\ DOMAIN t = 1..Len(t) /\ w \in [0..Len(t) -> Names \X Nat]
  BY DEF Walk
<1>2. ASSUME NEW k \in 1..Len(t) PROVE w[k][1] \notin U
  <2>1. w[k][1] \in Names /\ w[k][2] \in DOMAIN V[w[k][1]] /\ V[w[k][1]][w[k][2]] = t[k]
    BY <1>1 DEF Walk
  <2>2. Concerns(t[k], w[k][1])
    BY <2>1
  <2> QED
    BY <1>1, <2>2
<1>3. ASSUME Len(t) > 0 PROVE w[0][1] \notin U
  <2>1. 1 \in 1..Len(t) /\ 1 - 1 = 0
    BY <1>1, <1>3
  <2>2. Enters(V, t[1], w[1], w[0])
    BY <2>1 DEF Walk
  <2>3. w[0][1] = t[1].from \/ w[0][1] = w[1][1]
    BY <2>2 DEF Enters
  <2> QED
    BY <1>1, <1>2, <2>1, <2>3 DEF Concerns
<1>4. ASSUME NEW k \in 0..Len(t) PROVE w[k][1] \notin U
  <2>1. k \in 1..Len(t) \/ (k = 0 /\ Len(t) = 0) \/ (k = 0 /\ Len(t) > 0)
    BY <1>1
  <2> QED
    BY <1>2, <1>3, <2>1
<1> QED
  BY <1>4

(* A walk goes on through what has been added to the end of a shard. *)
LEMMA WalkGoesOn ==
  ASSUME NEW V \in Journals, NEW t \in Seq(HistoryRecords), NEW w, Walk(V, t, w), Unbroken(t, w, Len(t)),
         NEW new \in Seq(HistoryRecords), new # <<>>, NEW x \in Names, NEW i \in Nat,
         Len(V[x]) = i + Len(new), \A k \in DOMAIN new : V[x][i + k] = new[k],
         \A k \in DOMAIN new : k > 1 => new[k].action # "move",
         Enters(V, new[1], <<x, i + 1>>, w[Len(t)]), Outgoing(new[1], x) => Len(new) = 1
  PROVE  \E z : WalksTo(V, t \o new, z, x)
<1> DEFINE both == t \o new
           z == [k \in 0..Len(both) |-> IF k <= Len(t) THEN w[k] ELSE <<x, i + (k - Len(t))>>]
<1>1. /\ Len(t) \in Nat /\ Len(new) \in Nat /\ Len(new) > 0 /\ DOMAIN new = 1..Len(new)
      /\ w \in [0..Len(t) -> Names \X Nat]
  BY DEF Walk
<1>2. /\ both \in Seq(HistoryRecords) /\ Len(both) = Len(t) + Len(new)
      /\ \A k \in 1..Len(t) + Len(new) : both[k] = IF k <= Len(t) THEN t[k] ELSE new[k - Len(t)]
  BY ConcatProperties
<1> HIDE DEF both
<1>3. ASSUME NEW k \in 0..Len(both) PROVE z[k] \in Names \X Nat
  <2>1. k <= Len(t) => w[k] \in Names \X Nat
    BY <1>1, <1>3
  <2>2. ~(k <= Len(t)) => i + (k - Len(t)) \in Nat
    BY <1>1, <1>2, <1>3
  <2> QED
    BY <2>1, <2>2
<1>4. Begins(V, z[0])
  <2>1. z[0] = w[0]
    BY <1>1, <1>2
  <2> QED
    BY <2>1 DEF Walk
<1>5. ASSUME NEW k \in 1..Len(both)
      PROVE  /\ z[k][2] \in DOMAIN V[z[k][1]] /\ V[z[k][1]][z[k][2]] = both[k]
             /\ Enters(V, both[k], z[k], z[k - 1])
             /\ k <= Len(both) - 1 => ~Outgoing(both[k], z[k][1])
  <2>1. CASE k <= Len(t)
    <3>1. k \in 1..Len(t) /\ z[k] = w[k] /\ z[k - 1] = w[k - 1] /\ both[k] = t[k]
      BY <1>1, <1>2, <2>1
    <3> HIDE DEF z
    <3> QED
      BY <3>1 DEF Walk, Unbroken
  <2>2. CASE ~(k <= Len(t))
    <3> DEFINE m == k - Len(t)
    <3>1. m \in 1..Len(new) /\ m \in Nat /\ k - 1 \in 0..Len(both) /\ (k <= Len(both) - 1 => m < Len(new))
      BY <1>1, <1>2, <2>2
    <3>2. both[k] = new[m] /\ z[k] = <<x, i + m>>
      BY <1>1, <1>2, <2>2
    <3>4. m = 1 => z[k - 1] = w[Len(t)]
      <4>1. m = 1 => k - 1 = Len(t)
        BY <1>1
      <4>2. k - 1 <= Len(t) => z[k - 1] = w[k - 1]
        BY <3>1
      <4> HIDE DEF z, m
      <4> QED
        BY <1>1, <4>1, <4>2
    <3>5. m # 1 => z[k - 1] = <<x, (i + m) - 1>>
      <4>1. m # 1 => ~(k - 1 <= Len(t)) /\ i + ((k - 1) - Len(t)) = (i + m) - 1
        BY <1>1, <3>1
      <4>2. ~(k - 1 <= Len(t)) => z[k - 1] = <<x, i + ((k - 1) - Len(t))>>
        BY <3>1
      <4> HIDE DEF z, m
      <4> QED
        BY <4>1, <4>2
    <3> HIDE DEF m
    <3>3. i + m \in DOMAIN V[x] /\ V[x][i + m] = new[m]
      <4>1. V[x] \in Seq(HistoryRecords)
        BY DEF Journals
      <4>2. i + m \in 1..Len(V[x])
        BY <1>1, <3>1
      <4>3. DOMAIN V[x] = 1..Len(V[x])
        BY <4>1
      <4>4. m \in DOMAIN new
        BY <1>1, <3>1
      <4> QED
        BY <4>2, <4>3, <4>4
    <3>6. Enters(V, new[m], <<x, i + m>>, z[k - 1])
      <4> HIDE DEF z
      <4>1. CASE m = 1
        BY <3>4, <4>1
      <4>2. CASE m # 1
        <5>1. m \in DOMAIN new /\ m > 1
          BY <1>1, <3>1, <4>2
        <5> QED
          BY <3>5, <4>2, <5>1, <3>1 DEF Enters, Incoming
      <4> QED
        BY <4>1, <4>2
    <3>7. k <= Len(both) - 1 => ~Outgoing(new[m], x)
      <4>1. CASE m = 1
        <5> HIDE DEF z
        <5>1. (k <= Len(both) - 1 => m < Len(new)) /\ Len(new) \in Nat
          BY <1>1, <3>1
        <5>2. k <= Len(both) - 1 => Len(new) # 1
          BY <4>1, <5>1
        <5> QED
          BY <4>1, <5>2
      <4>2. CASE m # 1
        <5>1. m \in DOMAIN new /\ m > 1
          BY <1>1, <3>1, <4>2
        <5> QED
          BY <5>1 DEF Outgoing
      <4> QED
        BY <4>1, <4>2
    <3> HIDE DEF z, m
    <3> QED
      BY <3>2, <3>3, <3>6, <3>7
  <2> QED
    BY <2>1, <2>2
<1>6. z[Len(both)] = <<x, Len(V[x])>>
  <2>1. Len(both) \in 0..Len(both) /\ ~(Len(both) <= Len(t)) /\ i + (Len(both) - Len(t)) = Len(V[x])
    BY <1>1, <1>2
  <2> QED
    BY <2>1
<1>7. z \in [0..Len(both) -> Names \X Nat]
  BY <1>3
<1> HIDE DEF z
<1>8. Unbroken(both, z, Len(both) - 1)
  <2>1. \A k \in 1..(Len(both) - 1) : k \in 1..Len(both) /\ k <= Len(both) - 1
    BY <1>1, <1>2
  <2> QED
    BY <1>5, <2>1 DEF Unbroken
<1>9. both # <<>>
  BY <1>1, <1>2
<1>10. WalksTo(V, both, z, x)
  BY <1>4, <1>5, <1>6, <1>7, <1>8, <1>9 DEF WalksTo, Walk
<1> QED
  BY <1>10 DEF both

(* What the files of the index are, without their history. *)
LEMMA FiledTyped ==
  ASSUME ITyped, IConcern
  PROVE  /\ Filed \in Journals /\ Len(events) \in Nat /\ Len(commits) \in Nat
         /\ \A a \in Names : /\ Filed[a] = shards[a] \o pending[a]
                             /\ \A i \in DOMAIN Filed[a] : Concerns(Filed[a][i], a)
<1>1. \A a \in Names : shards[a] \in Seq(HistoryRecords) /\ pending[a] \in Seq(HistoryRecords)
  BY DEF ITyped
<1>2. Len(events) \in Nat /\ Len(commits) \in Nat
  BY DEF ITyped
<1>3. \A a \in Names : shards[a] \o pending[a] \in Seq(HistoryRecords)
  BY <1>1
<1>4. Filed \in Journals
  BY <1>3 DEF Filed, Journals
<1>5. ASSUME NEW a \in Names, NEW i \in DOMAIN Filed[a] PROVE Concerns(Filed[a][i], a)
  <2> DEFINE s == shards[a]
             t == pending[a]
  <2>1. Filed[a] = s \o t /\ s \in Seq(HistoryRecords) /\ t \in Seq(HistoryRecords)
    BY <1>1 DEF Filed
  <2>2. /\ \A k \in DOMAIN s : Concerns(s[k], a)
        /\ \A k \in DOMAIN t : Concerns(t[k], a)
    BY DEF IConcern
  <2> HIDE DEF s, t
  <2>3. /\ DOMAIN s = 1..Len(s) /\ DOMAIN t = 1..Len(t) /\ Len(s) \in Nat /\ Len(t) \in Nat
        /\ i \in 1..Len(s) + Len(t)
        /\ Filed[a][i] = IF i <= Len(s) THEN s[i] ELSE t[i - Len(s)]
    BY <1>5, <2>1, ConcatProperties
  <2>4. i \in DOMAIN s \/ (~(i <= Len(s)) /\ i - Len(s) \in DOMAIN t)
    BY <2>3
  <2>5. i \in DOMAIN s => i <= Len(s)
    BY <2>3
  <2> QED
    BY <2>2, <2>3, <2>4, <2>5
<1> QED
  BY <1>2, <1>4, <1>5 DEF Filed

(* A step that brings no record to a shard that is told, and loses records   *)
(* only of shards that are not, leaves what is known of the history.         *)
LEMMA PrunedHistory ==
  ASSUME ITyped, IConcern, IFiled, IGone, IWalk, ITyped', IConcern',
         Len(commits) <= Len(commits'), untold \subseteq untold',
         Len(events) <= Len(events'), \A e \in DOMAIN events : e \in DOMAIN events' /\ events'[e] = events[e],
         \A x \in Names \ untold' : trail'[x] = trail[x] /\ (x \in gone' <=> x \in gone) /\ Filed'[x] = Filed[x],
         \A x \in Names : Len(Filed'[x]) <= Len(Filed[x]) /\ \A i \in 1..Len(Filed'[x]) : Filed'[x][i] = Filed[x][i]
  PROVE  IFiled' /\ IGone' /\ IWalk'
<1> DEFINE V == Filed
           W == Filed'
<1>1. /\ V \in Journals /\ Len(events) \in Nat /\ Len(commits) \in Nat
      /\ \A a \in Names : \A i \in DOMAIN V[a] : Concerns(V[a][i], a)
  BY FiledTyped
<1>2. W \in Journals /\ Len(events') \in Nat /\ Len(commits') \in Nat
  <2>1. \A a \in Names : shards'[a] \in Seq(HistoryRecords) /\ pending'[a] \in Seq(HistoryRecords)
    BY DEF ITyped
  <2>2. \A a \in Names : shards'[a] \o pending'[a] \in Seq(HistoryRecords)
    BY <2>1
  <2> QED
    BY <2>2 DEF Filed, Journals, ITyped
<1>3. IFiled'
  <2> SUFFICES ASSUME NEW p \in Names
               PROVE  /\ Len(W[p]) <= Len(events') /\ Sorted(W[p], p, Len(commits'))
                      /\ \A i \in DOMAIN W[p] : \E e \in DOMAIN events' : events'[e] = W[p][i]
    BY DEF IFiled, Sorted, Outgoing
  <2> DEFINE s == V[p]
             z == W[p]
  <2>1. /\ Len(s) <= Len(events) /\ Sorted(s, p, Len(commits))
        /\ \A i \in DOMAIN s : \E e \in DOMAIN events : events[e] = s[i]
    BY DEF IFiled
  <2>2. Len(z) <= Len(s) /\ \A i \in 1..Len(z) : z[i] = s[i]
    OBVIOUS
  <2>3. s \in Seq(HistoryRecords) /\ z \in Seq(HistoryRecords)
    BY <1>1, <1>2 DEF Journals
  <2> HIDE DEF s, z, V, W
  <2>4. \A i \in DOMAIN z : i \in DOMAIN s /\ z[i] = s[i] /\ s[i].commit \in Nat
    <3>1. \A i \in DOMAIN s : s[i].commit \in Nat
      BY <2>3, RecordFacts
    <3> QED
      BY <2>2, <2>3, <3>1
  <2>5. Len(z) <= Len(events')
    BY <1>1, <1>2, <2>1, <2>2, <2>3
  <2>6. Sorted(z, p, Len(commits'))
    BY <1>1, <1>2, <2>1, <2>4 DEF Sorted
  <2>7. \A i \in DOMAIN z : \E e \in DOMAIN events' : events'[e] = z[i]
    BY <2>1, <2>4
  <2> QED
    BY <2>5, <2>6, <2>7 DEF s, z
<1>4. IGone'
  <2> SUFFICES ASSUME NEW p \in Names \ untold'
               PROVE  p \in gone' <=> W[p] # <<>> /\ Outgoing(W[p][Len(W[p])], p)
    BY DEF IGone, Outgoing
  <2>1. p \in Names \ untold /\ (p \in gone' <=> p \in gone) /\ W[p] = V[p]
    OBVIOUS
  <2>2. p \in gone <=> V[p] # <<>> /\ Outgoing(V[p][Len(V[p])], p)
    BY <2>1 DEF IGone
  <2> HIDE DEF V, W
  <2> QED
    BY <2>1, <2>2
<1>5. ASSUME NEW p \in Names, Intact(p)'
      PROVE  \E w : WalksTo(W, trail'[p], w, p)
  <2>1. /\ p \notin untold' /\ trail'[p] = trail[p] /\ W[p] = V[p]
        /\ \A k \in DOMAIN trail[p] : \A x \in untold' : ~Concerns(trail[p][k], x)
    BY <1>5 DEF Intact, Concerns
  <2>2. Intact(p)
    BY <2>1 DEF Intact
  <2> DEFINE t == trail[p]
  <2>3. PICK w : WalksTo(V, t, w, p)
    BY <2>2 DEF IWalk
  <2>4. t \in Seq(HistoryRecords)
    BY DEF ITyped
  <2>5. /\ Walk(V, t, w) /\ Unbroken(t, w, Len(t) - 1)
        /\ w[Len(t)] = <<p, Len(V[p])>> /\ (t = <<>> => V[p] = <<>>)
    BY <2>3 DEF WalksTo
  <2>6. \A a \in Names \ untold' :
          Len(V[a]) <= Len(W[a]) /\ \A i \in 1..Len(V[a]) : W[a][i] = V[a][i]
    <3> SUFFICES ASSUME NEW a \in Names \ untold'
                 PROVE  Len(V[a]) <= Len(W[a]) /\ \A i \in 1..Len(V[a]) : W[a][i] = V[a][i]
      OBVIOUS
    <3>1. W[a] = V[a] /\ V[a] \in Seq(HistoryRecords)
      BY <1>1 DEF Journals
    <3>2. Len(V[a]) \in Nat
      BY <3>1
    <3> HIDE DEF V, W
    <3> QED
      BY <3>1, <3>2
  <2> HIDE DEF V, W, t
  <2>7. \A k \in DOMAIN t : \A x \in untold' : ~Concerns(t[k], x)
    BY <2>1 DEF t
  <2>8. \A k \in 0..Len(t) : w[k][1] \notin untold'
    BY <1>1, <2>1, <2>4, <2>5, <2>7, WalkAvoids
  <2>9. Walk(W, t, w)
    BY <1>1, <1>2, <2>4, <2>5, <2>6, <2>8, WalkStays
  <2>10. WalksTo(W, t, w, p)
    BY <2>1, <2>5, <2>9 DEF WalksTo
  <2> QED
    BY <2>1, <2>10 DEF t
<1>6. IWalk'
  <2> HIDE DEF W
  <2>1. \A p \in Names : Intact(p)' => \E w : WalksTo(W, trail'[p], w, p)
    BY <1>5
  <2> QED
    BY <2>1 DEF IWalk, W, WalksTo, Walk, Unbroken, Enters, Begins, Incoming, Outgoing
<1> QED
  BY <1>3, <1>4, <1>6

(* What is left of a sequence by a cut in its second part. *)
LEMMA CutShort ==
  ASSUME NEW S, NEW s \in Seq(S), NEW t \in Seq(S), NEW i \in 0..Len(t)
  PROVE  /\ Len(s \o SubSeq(t, 1, i)) <= Len(s \o t)
         /\ \A k \in 1..Len(s \o SubSeq(t, 1, i)) : (s \o SubSeq(t, 1, i))[k] = (s \o t)[k]
<1> DEFINE u == SubSeq(t, 1, i)
<1>1. u \in Seq(S) /\ Len(u) = i /\ \A k \in 1..i : u[k] = t[k]
  BY PrefixMembers
<1>2. Len(s) \in Nat /\ Len(t) \in Nat /\ i \in Nat /\ i <= Len(t)
  OBVIOUS
<1> HIDE DEF u
<1>3. /\ Len(s \o u) = Len(s) + i
      /\ \A k \in 1..Len(s) + i : (s \o u)[k] = IF k <= Len(s) THEN s[k] ELSE u[k - Len(s)]
  BY <1>1, <1>2, ConcatProperties
<1>4. /\ Len(s \o t) = Len(s) + Len(t)
      /\ \A k \in 1..Len(s) + Len(t) : (s \o t)[k] = IF k <= Len(s) THEN s[k] ELSE t[k - Len(s)]
  BY ConcatProperties
<1>5. ASSUME NEW k \in 1..Len(s) + i PROVE (s \o u)[k] = (s \o t)[k]
  <2>1. k \in 1..Len(s) + Len(t) /\ (~(k <= Len(s)) => k - Len(s) \in 1..i)
    BY <1>2
  <2> QED
    BY <1>1, <1>3, <1>4, <2>1
<1>6. Len(s \o u) <= Len(s \o t)
  BY <1>2, <1>3, <1>4
<1> QED
  BY <1>3, <1>5, <1>6 DEF u

(* A step that leaves the journal and what is known of the files, and takes  *)
(* from the shards only records that go untold.                              *)
LEMMA QuietHistory ==
  ASSUME ITyped, IConcern, IHistory, ITyped', IConcern', Ready' => Ready,
         UNCHANGED <<commits, events, trail, gone>>, untold \subseteq untold',
         \A x \in Names \ untold' : Filed'[x] = Filed[x],
         \A x \in Names : Len(Filed'[x]) <= Len(Filed[x]) /\ \A i \in 1..Len(Filed'[x]) : Filed'[x][i] = Filed[x][i]
  PROVE  IHistory'
<1>1. SUFFICES ASSUME Ready' PROVE IFiled' /\ IGone' /\ IWalk'
  BY DEF IHistory
<1>2. IFiled /\ IGone /\ IWalk
  BY <1>1 DEF IHistory
<1>3. Len(commits) <= Len(commits') /\ Len(events) <= Len(events')
  BY FiledTyped
<1> QED
  BY <1>2, <1>3, PrunedHistory

\* A step that leaves the journal and the shards.
LEMMA SameShards ==
  ASSUME ITyped, IConcern, IHistory, ITyped', IConcern', Ready' => Ready,
         UNCHANGED <<commits, events, shards, pending, trail, gone, untold>>
  PROVE  IHistory'
<1>1. Filed' = Filed
  BY DEF Filed
<1>2. \A x \in Names : Filed[x] \in Seq(HistoryRecords)
  BY FiledTyped DEF Journals
<1>3. \A x \in Names : Len(Filed[x]) <= Len(Filed[x])
  BY <1>2
<1> QED
  BY <1>1, <1>3, QuietHistory

\* A shard has, and has pending, what it had; a lost append is untold.
LEMMA FileShardHistory ==
  ASSUME ITyped, IConcern, IStart, IHistory, ITyped', IConcern', NEW p \in Names, FileShard(p)
  PROVE  IHistory'
<1>1. /\ recorder = "recording" /\ UNCHANGED <<commits, events, trail, gone>>
      /\ Ready' => Ready
  BY DEF FileShard, Ready
<1>2. \A x \in Names : shards[x] \in Seq(HistoryRecords) /\ pending[x] \in Seq(HistoryRecords)
                       /\ Filed[x] = shards[x] \o pending[x] /\ Filed'[x] = shards'[x] \o pending'[x]
  BY DEF ITyped, Filed
<1>3. CASE /\ shards' = [shards EXCEPT ![p] = @ \o pending[p]]
           /\ pending' = [pending EXCEPT ![p] = <<>>] /\ UNCHANGED untold
  <2>1. ASSUME NEW x \in Names PROVE Filed'[x] = Filed[x]
    <3>1. CASE x = p
      <4>1. shards'[x] = shards[p] \o pending[p] /\ pending'[x] = <<>>
        BY <1>3, <3>1 DEF ITyped
      <4>2. shards[p] \o pending[p] \in Seq(HistoryRecords)
        BY <1>2, ConcatProperties
      <4>3. (shards[p] \o pending[p]) \o <<>> = shards[p] \o pending[p]
        BY <4>2, ConcatLast
      <4> QED
        BY <1>2, <3>1, <4>1, <4>3
    <3>2. CASE x # p
      <4>1. shards'[x] = shards[x] /\ pending'[x] = pending[x]
        BY <1>3, <3>2 DEF ITyped
      <4> QED
        BY <1>2, <4>1
    <3> QED
      BY <3>1, <3>2
  <2>2. \A x \in Names : Filed[x] \in Seq(HistoryRecords)
    BY FiledTyped DEF Journals
  <2>3. \A x \in Names : Len(Filed[x]) <= Len(Filed[x])
    BY <2>2
  <2>4. /\ untold \subseteq untold'
        /\ \A x \in Names : Len(Filed'[x]) <= Len(Filed[x]) /\ \A i \in 1..Len(Filed'[x]) : Filed'[x][i] = Filed[x][i]
    BY <1>3, <2>1, <2>3
  <2> QED
    BY <1>1, <2>1, <2>4, QuietHistory
<1>4. ASSUME NEW i \in 0..Len(pending[p]),
             shards' = [shards EXCEPT ![p] = @ \o SubSeq(pending[p], 1, i)],
             pending' = NoPending, untold' = untold \cup {x \in Names : pending[x] # <<>>},
             pending[p] # <<>>
      PROVE  IHistory'
  <2>1. ASSUME NEW x \in Names, x # p
        PROVE  Filed'[x] = shards[x]
    <3>1. shards'[x] = shards[x] /\ pending'[x] = <<>>
      BY <1>4, <2>1 DEF ITyped, NoPending
    <3> QED
      BY <1>2, <3>1, ConcatLast
  <2>2. Filed'[p] = shards[p] \o SubSeq(pending[p], 1, i)
    <3>1. shards'[p] = shards[p] \o SubSeq(pending[p], 1, i) /\ pending'[p] = <<>>
      BY <1>4 DEF ITyped, NoPending
    <3>2. SubSeq(pending[p], 1, i) \in Seq(HistoryRecords)
      BY <1>2, PrefixMembers
    <3>3. shards[p] \o SubSeq(pending[p], 1, i) \in Seq(HistoryRecords)
      BY <1>2, <3>2, ConcatProperties
    <3> QED
      BY <1>2, <3>1, <3>3, ConcatLast
  <2>3. \A x \in Names : x \notin untold' => Filed'[x] = Filed[x]
    <3> TAKE x \in Names
    <3>1. x \notin untold' => x # p /\ pending[x] = <<>>
      BY <1>4
    <3>2. shards[x] \o <<>> = shards[x]
      BY <1>2, ConcatLast
    <3> QED
      BY <1>2, <2>1, <3>1, <3>2
  <2>4. ASSUME NEW x \in Names
        PROVE  Len(Filed'[x]) <= Len(Filed[x]) /\ \A k \in 1..Len(Filed'[x]) : Filed'[x][k] = Filed[x][k]
    <3>1. CASE x = p
      <4> DEFINE s == shards[p]
                 t == pending[p]
      <4>1. s \in Seq(HistoryRecords) /\ t \in Seq(HistoryRecords) /\ i \in 0..Len(t)
            /\ Filed'[x] = s \o SubSeq(t, 1, i) /\ Filed[x] = s \o t
        BY <1>2, <2>2, <3>1
      <4> HIDE DEF s, t
      <4> QED
        BY <4>1, CutShort
    <3>2. CASE x # p
      <4>1. Filed'[x] = shards[x] /\ Filed[x] = shards[x] \o pending[x]
        BY <1>2, <2>1, <3>2
      <4> DEFINE s == shards[x]
                 t == pending[x]
      <4>2. s \in Seq(HistoryRecords) /\ t \in Seq(HistoryRecords)
        BY <1>2
      <4> HIDE DEF s, t
      <4>3. Len(s) <= Len(s \o t) /\ \A k \in 1..Len(s) : s[k] = (s \o t)[k]
        BY <4>2
      <4> QED
        BY <4>1, <4>3 DEF s, t
    <3> QED
      BY <3>1, <3>2
  <2> QED
    BY <1>1, <1>4, <2>3, <2>4, QuietHistory
<1> QED
  BY <1>3, <1>4 DEF FileShard

\* What was pending is lost, and untold.
LEMMA CrashHistory ==
  ASSUME ITyped, IConcern, IStart, IHistory, ITyped', IConcern', RecorderCrash
  PROVE  IHistory'
<1>1. /\ recorder # "down" /\ recorder' = "down" /\ pending' = NoPending
      /\ untold' = untold \cup {x \in Names : pending[x] # <<>>}
      /\ UNCHANGED <<commits, events, indexed, shards, trail, gone>>
  BY DEF RecorderCrash
<1>2. Ready' => Ready
  BY <1>1 DEF Ready, IStart, ITyped
<1>3. \A x \in Names : /\ shards[x] \in Seq(HistoryRecords) /\ pending[x] \in Seq(HistoryRecords)
                       /\ Filed[x] = shards[x] \o pending[x] /\ Filed'[x] = shards[x]
  <2> TAKE x \in Names
  <2>1. shards[x] \in Seq(HistoryRecords) /\ pending[x] \in Seq(HistoryRecords)
    BY DEF ITyped
  <2>2. Filed'[x] = shards[x] \o <<>>
    BY <1>1 DEF Filed, NoPending
  <2> QED
    BY <2>1, <2>2, ConcatLast DEF Filed
<1>4. \A x \in Names : x \notin untold' => Filed'[x] = Filed[x]
  <2> TAKE x \in Names
  <2>1. x \notin untold' => pending[x] = <<>>
    BY <1>1
  <2> QED
    BY <1>3, <2>1, ConcatLast
<1>5. ASSUME NEW x \in Names
      PROVE  Len(Filed'[x]) <= Len(Filed[x]) /\ \A k \in 1..Len(Filed'[x]) : Filed'[x][k] = Filed[x][k]
  <2> DEFINE s == shards[x]
             t == pending[x]
  <2>1. s \in Seq(HistoryRecords) /\ t \in Seq(HistoryRecords) /\ Filed'[x] = s /\ Filed[x] = s \o t
    BY <1>3
  <2> HIDE DEF s, t
  <2>2. Len(s) <= Len(s \o t) /\ \A k \in 1..Len(s) : s[k] = (s \o t)[k]
    BY <2>1
  <2> QED
    BY <2>1, <2>2
<1> QED
  BY <1>1, <1>2, <1>4, <1>5, QuietHistory

(* What a commit brings a shard keeps it in order. *)
LEMMA SortedGrows ==
  ASSUME NEW s \in Seq(HistoryRecords), NEW t \in Seq(HistoryRecords), NEW p \in Names, NEW n \in Nat \ {0},
         Sorted(s, p, n - 1),
         \A k \in DOMAIN t : t[k].commit = n /\ (k > 1 => t[k].action # "move")
  PROVE  Sorted(s \o t, p, n)
<1> DEFINE u == s \o t
<1>1. /\ Len(s) \in Nat /\ Len(t) \in Nat /\ DOMAIN s = 1..Len(s) /\ DOMAIN t = 1..Len(t)
      /\ DOMAIN u = 1..Len(s) + Len(t)
      /\ \A k \in 1..Len(s) + Len(t) : u[k] = IF k <= Len(s) THEN s[k] ELSE t[k - Len(s)]
  BY ConcatProperties
<1> HIDE DEF u
<1>2. \A k \in DOMAIN s : s[k].commit \in Nat
  BY RecordFacts
<1>3. ASSUME NEW k \in DOMAIN u
      PROVE  \/ k \in DOMAIN s /\ u[k] = s[k] /\ u[k].commit \in Nat /\ u[k].commit <= n - 1
             \/ /\ k > Len(s) /\ k - Len(s) \in DOMAIN t /\ u[k] = t[k - Len(s)] /\ u[k].commit = n
                /\ k - Len(s) > 1 => u[k].action # "move"
  <2>1. CASE k <= Len(s)
    <3>1. k \in DOMAIN s /\ u[k] = s[k]
      BY <1>1, <1>3, <2>1
    <3> QED
      BY <1>2, <3>1 DEF Sorted
  <2>2. CASE ~(k <= Len(s))
    <3> DEFINE m == k - Len(s)
    <3>1. m \in DOMAIN t /\ u[k] = t[m] /\ k > Len(s)
      BY <1>1, <1>3, <2>2
    <3> HIDE DEF m
    <3>2. t[m].commit = n /\ (m > 1 => t[m].action # "move")
      BY <3>1
    <3> QED
      BY <3>1, <3>2 DEF m
  <2> QED
    BY <2>1, <2>2
<1>4. ASSUME NEW k \in DOMAIN u PROVE u[k].commit <= n
  BY <1>3
<1>5. ASSUME NEW k \in DOMAIN u, NEW j \in DOMAIN u, k < j
      PROVE  u[k].commit <= u[j].commit /\ (Outgoing(u[j], p) => u[k].commit < u[j].commit)
  <2>1. CASE k \in DOMAIN s /\ j \in DOMAIN s
    <3>1. u[k] = s[k] /\ u[j] = s[j]
      BY <1>1, <1>3, <2>1
    <3> QED
      BY <1>5, <2>1, <3>1 DEF Sorted
  <2>2. CASE k \in DOMAIN s /\ j \notin DOMAIN s
    <3>1. u[k].commit \in Nat /\ u[k].commit <= n - 1 /\ u[j].commit = n
      <4>1. ~(k > Len(s))
        BY <1>1, <2>2
      <4> QED
        BY <1>3, <2>2, <4>1
    <3> QED
      BY <3>1
  <2>3. CASE k \notin DOMAIN s
    <3>1. k > Len(s) /\ u[k].commit = n
      BY <1>3, <2>3
    <3>2. j > Len(s) /\ j \notin DOMAIN s /\ j - Len(s) > 1
      BY <1>1, <1>5, <3>1
    <3>3. u[j].commit = n /\ u[j].action # "move"
      BY <1>3, <3>2
    <3> QED
      BY <3>1, <3>3 DEF Outgoing
  <2> QED
    BY <2>1, <2>2, <2>3
<1> QED
  BY <1>4, <1>5 DEF Sorted, u

(* A record appended to the journal, and one appended to its shards, leave   *)
(* a journal that has what the shards have.                                  *)
Backed(s, es) == Len(s) <= Len(es) /\ \A i \in DOMAIN s : \E e \in DOMAIN es : es[e] = s[i]
LEMMA FiledGrows ==
  ASSUME NEW es \in Seq(HistoryRecords), NEW rs \in Seq(HistoryRecords),
         NEW s \in Seq(HistoryRecords), NEW t \in Seq(HistoryRecords),
         Backed(s, es), Backed(t, rs)
  PROVE  Backed(s \o t, es \o rs)
<1> DEFINE u == s \o t
           all == es \o rs
<1>1. /\ Len(s) \in Nat /\ Len(t) \in Nat /\ DOMAIN s = 1..Len(s) /\ DOMAIN t = 1..Len(t)
      /\ Len(u) = Len(s) + Len(t) /\ DOMAIN u = 1..Len(s) + Len(t)
      /\ \A k \in 1..Len(s) + Len(t) : u[k] = IF k <= Len(s) THEN s[k] ELSE t[k - Len(s)]
  BY ConcatProperties
<1>2. /\ Len(es) \in Nat /\ Len(rs) \in Nat /\ DOMAIN es = 1..Len(es) /\ DOMAIN rs = 1..Len(rs)
      /\ Len(all) = Len(es) + Len(rs) /\ DOMAIN all = 1..Len(es) + Len(rs)
      /\ \A k \in 1..Len(es) + Len(rs) : all[k] = IF k <= Len(es) THEN es[k] ELSE rs[k - Len(es)]
  BY ConcatProperties
<1> HIDE DEF u, all
<1>3. Len(u) <= Len(all)
  BY <1>1, <1>2 DEF Backed
<1>4. \A e \in DOMAIN es : e \in DOMAIN all /\ all[e] = es[e]
  BY <1>2
<1>5. \A e \in DOMAIN rs : Len(es) + e \in DOMAIN all /\ all[Len(es) + e] = rs[e]
  <2> TAKE e \in DOMAIN rs
  <2>1. Len(es) + e \in 1..Len(es) + Len(rs) /\ ~(Len(es) + e <= Len(es)) /\ (Len(es) + e) - Len(es) = e
    BY <1>2
  <2> QED
    BY <1>2, <2>1
<1>6. ASSUME NEW i \in DOMAIN u PROVE \E e \in DOMAIN all : all[e] = u[i]
  <2>1. CASE i <= Len(s)
    <3>1. i \in DOMAIN s /\ u[i] = s[i]
      BY <1>1, <1>6, <2>1
    <3>2. PICK e \in DOMAIN es : es[e] = s[i]
      BY <3>1 DEF Backed
    <3> QED
      BY <1>4, <3>1, <3>2
  <2>2. CASE ~(i <= Len(s))
    <3>1. i - Len(s) \in DOMAIN t /\ u[i] = t[i - Len(s)]
      BY <1>1, <1>6, <2>2
    <3>2. PICK e \in DOMAIN rs : rs[e] = t[i - Len(s)]
      BY <3>1 DEF Backed
    <3> QED
      BY <1>5, <3>1, <3>2
  <2> QED
    BY <2>1, <2>2
<1> QED
  BY <1>3, <1>6 DEF Backed, u, all

(* What a recorded change set does to the files of the index. *)
Grown(V, W, new, p, q) ==
  /\ V \in Journals /\ W = [x \in Names |-> V[x] \o new[x]]
  /\ Brings(new, Len(commits) + 1, p, q) /\ Len(commits) \in Nat
Origin(x, p, q) == IF x = p /\ q # Nowhere THEN q ELSE x

\* The records a change set brings a path.
LEMMA NewRecords ==
  ASSUME Len(commits) \in Nat, NEW new, NEW p, NEW q, Brings(new, Len(commits) + 1, p, q), NEW x \in Names
  PROVE  /\ new[x] \in Seq(HistoryRecords) /\ DOMAIN new[x] = 1..Len(new[x]) /\ Len(new[x]) \in Nat
         /\ \A k \in DOMAIN new[x] :
              /\ new[x][k].commit = Len(commits) + 1 /\ Concerns(new[x][k], x)
              /\ k > 1 => new[x][k].action # "move"
         /\ new[x] # <<>> =>
              /\ 1 \in DOMAIN new[x]
              /\ Outgoing(new[x][1], x) => x = q /\ Len(new[x]) = 1
              /\ x = q => Outgoing(new[x][Len(new[x])], x)
              /\ x # q => ~Outgoing(new[x][Len(new[x])], x)
              /\ Incoming(new[x][1], x) <=> x = p /\ q # Nowhere
         /\ q # Nowhere =>
              /\ p \in Names /\ q \in Names /\ p # q /\ new[p] # <<>> /\ new[q] = <<new[p][1]>>
              /\ new[p][1].from = q /\ Concerns(new[p][1], q)
<1>1. /\ new[x] \in Seq(HistoryRecords) /\ DOMAIN new[x] = 1..Len(new[x]) /\ Len(new[x]) \in Nat
  BY DEF Brings
<1>2. ASSUME NEW k \in DOMAIN new[x]
      PROVE  /\ new[x][k].commit = Len(commits) + 1 /\ Concerns(new[x][k], x)
             /\ q = Nowhere \/ k > 1 => new[x][k].action # "move" /\ new[x][k].path = x
  BY <1>1 DEF Brings
<1>3. q # Nowhere =>
        /\ p \in Names /\ q \in Names /\ p # q /\ new[p] # <<>> /\ new[q] = <<new[p][1]>>
        /\ new[p][1] = Rec(Len(commits) + 1, "move", p, q)
        /\ \A y \in Names \ {p, q} : new[y] = <<>>
  BY DEF Brings
<1>4. q # Nowhere => /\ new[p][1].from = q /\ new[p][1].path = p /\ new[p][1].action = "move"
                     /\ Concerns(new[p][1], q)
  BY <1>3 DEF Rec, Concerns
<1> DEFINE s == new[x]
<1>5. ASSUME s # <<>>
      PROVE  /\ 1 \in DOMAIN s
             /\ Outgoing(s[1], x) => x = q /\ Len(s) = 1
             /\ x = q => Outgoing(s[Len(s)], x)
             /\ x # q => ~Outgoing(s[Len(s)], x)
             /\ Incoming(s[1], x) <=> x = p /\ q # Nowhere
  <2> DEFINE mv == new[p][1]
  <2>0. /\ q # Nowhere => p # q /\ new[q] = <<mv>> /\ mv.from = q /\ mv.path = p /\ mv.action = "move"
                          /\ \A y \in Names \ {p, q} : new[y] = <<>>
    BY <1>3, <1>4
  <2>1. 1 \in DOMAIN s /\ Len(s) \in DOMAIN s /\ Len(s) \in Nat /\ (Len(s) # 1 => Len(s) > 1)
    <3>1. s \in Seq(HistoryRecords) /\ s # <<>>
      BY <1>1, <1>5
    <3> HIDE DEF s
    <3>2. DOMAIN s = 1..Len(s) /\ Len(s) \in Nat
      BY <3>1
    <3>3. Len(s) # 0
      BY <3>1
    <3> QED
      BY <3>2, <3>3
  <2>2. CASE q = Nowhere
    <3>1. s[1].action # "move" /\ s[Len(s)].action # "move"
      BY <1>2, <2>1, <2>2
    <3>2. x # q
      BY <2>2, HistoryAssumption
    <3> HIDE DEF s
    <3> QED
      BY <2>1, <2>2, <3>1, <3>2 DEF Outgoing, Incoming
  <2>3. CASE q # Nowhere /\ x = q
    <3>1. s = <<mv>>
      BY <2>0, <2>3
    <3> HIDE DEF s, mv
    <3>2. s[1] = mv /\ Len(s) = 1 /\ 1 \in DOMAIN s
      BY <3>1
    <3> QED
      BY <2>0, <2>3, <3>2 DEF Outgoing, Incoming
  <2>4. CASE q # Nowhere /\ x = p
    <3>1. s[1] = mv
      BY <2>4
    <3>2. Len(s) > 1 => s[Len(s)].action # "move"
      BY <1>2, <2>1
    <3> HIDE DEF s, mv
    <3> QED
      BY <2>0, <2>1, <2>4, <3>1, <3>2 DEF Outgoing, Incoming
  <2>5. CASE q # Nowhere /\ x # p /\ x # q
    BY <1>5, <2>0, <2>5
  <2> QED
    BY <2>2, <2>3, <2>4, <2>5
<1> QED
  BY <1>1, <1>2, <1>3, <1>4, <1>5

(* A recorded change set leads the walk of the file it is about on, from     *)
(* where the file was to the end of its shard.                               *)
LEMMA WalkGrows ==
  ASSUME NEW V, NEW W, NEW new, NEW p, NEW q, Grown(V, W, new, p, q),
         NEW x \in Names, new[x] # <<>>, NEW t \in Seq(HistoryRecords), NEW w,
         Walk(V, t, w), Unbroken(t, w, Len(t)),
         w[Len(t)] = <<Origin(x, p, q), Len(V[Origin(x, p, q)])>>,
         \A m \in 1..Len(V[Origin(x, p, q)]) : V[Origin(x, p, q)][m].commit <= Len(commits)
  PROVE  \E z : WalksTo(W, t \o new[x], z, x)
<1> DEFINE y == Origin(x, p, q)
           s == new[x]
           i == Len(V[x])
<1>0. /\ V \in Journals /\ W = [a \in Names |-> V[a] \o new[a]] /\ Len(commits) \in Nat
      /\ Brings(new, Len(commits) + 1, p, q)
  BY DEF Grown
<1>1. \A a \in Names : new[a] \in Seq(HistoryRecords)
  BY <1>0, NewRecords
<1>2. ASSUME NEW a \in Names
      PROVE  /\ W[a] \in Seq(HistoryRecords) /\ V[a] \in Seq(HistoryRecords)
             /\ Len(W[a]) = Len(V[a]) + Len(new[a]) /\ Len(V[a]) \in Nat /\ Len(V[a]) <= Len(W[a])
             /\ DOMAIN W[a] = 1..Len(W[a])
             /\ \A k \in 1..Len(V[a]) : W[a][k] = V[a][k]
             /\ \A k \in DOMAIN new[a] : W[a][Len(V[a]) + k] = new[a][k]
  <2> DEFINE c == V[a]
             d == new[a]
  <2>1. W[a] = c \o d /\ c \in Seq(HistoryRecords) /\ d \in Seq(HistoryRecords)
    BY <1>0, <1>1 DEF Journals
  <2> HIDE DEF c, d
  <2>2. /\ W[a] \in Seq(HistoryRecords) /\ Len(W[a]) = Len(c) + Len(d) /\ Len(c) \in Nat /\ Len(d) \in Nat
        /\ \A k \in 1..Len(c) + Len(d) : W[a][k] = IF k <= Len(c) THEN c[k] ELSE d[k - Len(c)]
        /\ DOMAIN d = 1..Len(d) /\ DOMAIN W[a] = 1..Len(W[a])
    BY <2>1, ConcatProperties
  <2>3. \A k \in DOMAIN d : W[a][Len(c) + k] = d[k]
    <3> TAKE k \in DOMAIN d
    <3>1. Len(c) + k \in 1..Len(c) + Len(d) /\ ~(Len(c) + k <= Len(c)) /\ (Len(c) + k) - Len(c) = k
      BY <2>2
    <3> QED
      BY <2>2, <3>1
  <2>4. Len(c) <= Len(W[a]) /\ \A k \in 1..Len(c) : W[a][k] = c[k]
    BY <2>2
  <2> QED
    BY <2>1, <2>2, <2>3, <2>4 DEF c, d
<1>3. W \in Journals
  BY <1>0, <1>2 DEF Journals
<1>4. /\ s \in Seq(HistoryRecords) /\ DOMAIN s = 1..Len(s) /\ Len(s) \in Nat /\ 1 \in DOMAIN s
      /\ \A k \in DOMAIN s : k > 1 => s[k].action # "move"
      /\ Outgoing(s[1], x) => Len(s) = 1
      /\ Incoming(s[1], x) <=> x = p /\ q # Nowhere
  BY <1>0, NewRecords
<1>5. q # Nowhere => /\ p \in Names /\ q \in Names /\ p # q /\ new[q] = <<new[p][1]>>
                     /\ new[p][1].from = q
  BY <1>0, NewRecords
<1>6. Walk(W, t, w)
  <2> DEFINE U == {}
  <2>1. \A k \in 0..Len(t) : w[k][1] \notin U
    OBVIOUS
  <2>2. \A a \in Names \ U : Len(V[a]) <= Len(W[a]) /\ \A k \in 1..Len(V[a]) : W[a][k] = V[a][k]
    BY <1>2
  <2>3. V \in Journals
    BY <1>0
  <2> HIDE DEF U
  <2> QED
    BY <1>3, <2>1, <2>2, <2>3, WalkStays
<1>7. Enters(W, s[1], <<x, i + 1>>, w[Len(t)])
  <2>1. i \in Nat /\ (i + 1) - 1 = i
    BY <1>2
  <2>2. CASE x = p /\ q # Nowhere
    <3>1. y = q /\ s[1].from = q /\ Incoming(s[1], x)
      BY <1>4, <1>5, <2>2 DEF Origin
    <3> DEFINE l == Len(V[q])
    <3>2. l \in Nat /\ q \in Names /\ new[q] = <<s[1]>>
      BY <1>2, <1>5, <2>2
    <3>3. 1 \in DOMAIN new[q] /\ new[q][1] = s[1] /\ Len(new[q]) = 1
      BY <3>2
    <3>4. W[q][l + 1] = s[1] /\ l + 1 \in DOMAIN W[q]
      <4>1. /\ Len(W[q]) = l + Len(new[q]) /\ DOMAIN W[q] = 1..Len(W[q])
            /\ \A k \in DOMAIN new[q] : W[q][l + k] = new[q][k]
        BY <1>2, <3>2
      <4> HIDE DEF l, s
      <4> QED
        BY <3>2, <3>3, <4>1
    <3>5. s[1].commit = Len(commits) + 1
      BY <1>0, <1>4, NewRecords
    <3>6. ASSUME NEW m \in 1..l PROVE W[q][m] # s[1]
      <4>1. W[q][m] = V[q][m] /\ V[q][m].commit <= Len(commits)
        BY <1>2, <3>1, <3>2
      <4>2. V[q][m].commit \in Nat
        <5>0. V[q] \in Seq(HistoryRecords)
          BY <1>2, <3>2
        <5>1. V[q] \in Seq(HistoryRecords) /\ m \in DOMAIN V[q]
          BY <5>0
        <5> QED
          BY <5>1, RecordFacts
      <4> QED
        BY <1>0, <3>5, <4>1, <4>2
    <3>7. w[Len(t)][1] = q /\ w[Len(t)][2] = l /\ <<x, i + 1>>[1] = x
      BY <3>1
    <3> HIDE DEF l, s, i, y
    <3> QED
      BY <3>1, <3>4, <3>6, <3>7 DEF Enters
  <2>3. CASE ~(x = p /\ q # Nowhere)
    <3>1. y = x /\ ~Incoming(s[1], x)
      BY <1>4, <2>3 DEF Origin
    <3>2. w[Len(t)] = <<x, i>>
      BY <3>1
    <3> HIDE DEF s, i, y
    <3> QED
      BY <2>1, <3>1, <3>2 DEF Enters
  <2> QED
    BY <2>2, <2>3
<1>8. i \in Nat /\ Len(W[x]) = i + Len(s) /\ \A k \in DOMAIN s : W[x][i + k] = s[k]
  BY <1>2
<1> HIDE DEF s, i
<1>9. s # <<>>
  BY DEF s
<1>10. \E z : WalksTo(W, t \o s, z, x)
  BY <1>3, <1>4, <1>6, <1>7, <1>8, <1>9, WalkGoesOn
<1> QED
  BY <1>10 DEF s

\* A commit leads the walk of each file it is about on, or leaves it untold.
LEMMA RecordsHistory ==
  ASSUME ITyped, IConcern, IStart, IHistory, ITyped', IConcern', Records
  PROVE  IHistory'
<1>1. PICK new, recs, p, q : Recorded(new, recs, p, q)
  BY DEF Records
<1> DEFINE n == Len(commits) + 1
           V == Filed
           W == [x \in Names |-> V[x] \o new[x]]
<1>2. /\ recorder = "up" /\ recs \in Seq(HistoryRecords) /\ Brings(new, n, p, q)
      /\ trail' = [x \in Names |-> IF new[x] = <<>> THEN trail[x] ELSE Own(Origin(x, p, q)) \o new[x]]
      /\ gone' = {x \in gone : new[x] = <<>>} \cup ({q} \cap Names)
      /\ shards' = shards
      /\ \A x \in Names : /\ Len(new[x]) <= Len(recs)
                          /\ \A k \in DOMAIN new[x] : \E j \in DOMAIN recs : recs[j] = new[x][k]
  BY <1>1 DEF Recorded, Origin
<1>3. /\ V \in Journals /\ Len(events) \in Nat /\ Len(commits) \in Nat /\ n \in Nat \ {0} /\ n - 1 = Len(commits)
      /\ \A a \in Names : V[a] \in Seq(HistoryRecords)
  <2>1. V \in Journals /\ Len(events) \in Nat /\ Len(commits) \in Nat
    BY FiledTyped
  <2> QED
    BY <2>1 DEF Journals
<1>4. IFiled /\ IGone /\ IWalk /\ Len(commits') = n
  <2>1. Ready
    BY <1>2 DEF Ready
  <2>2. PICK leaves \in Seq(CommittedLeaves) : commits' = Append(commits, leaves)
    BY <1>1 DEF Recorded
  <2>3. Len(commits') = n
    BY <2>2 DEF ITyped
  <2> QED
    BY <2>1, <2>3 DEF IHistory
<1>5. \A x \in Names : /\ trail[x] \in Seq(HistoryRecords) /\ V[x] = shards[x]
                       /\ pending[x] = <<>>
  <2> TAKE x \in Names
  <2>1. pending[x] = <<>> /\ shards[x] \in Seq(HistoryRecords) /\ trail[x] \in Seq(HistoryRecords)
    BY <1>2 DEF IStart, NoPending, ITyped
  <2>2. V[x] = shards[x] \o pending[x]
    BY DEF Filed
  <2> QED
    BY <2>1, <2>2, ConcatLast
<1>6. \A x \in Names : /\ new[x] = <<>> => (x \in gone' <=> x \in gone) /\ trail'[x] = trail[x]
                       /\ new[x] # <<>> => (x \in gone' <=> x = q)
  <2> TAKE x \in Names
  <2>1. x = q => new[x] # <<>>
    <3>1. q # Nowhere => new[q] = <<new[p][1]>>
      BY <1>2, <1>3, NewRecords
    <3>2. x = q => q # Nowhere
      BY HistoryAssumption
    <3> QED
      BY <3>1, <3>2
  <2>2. gone \subseteq Names
    BY DEF ITyped
  <2> QED
    BY <1>2, <2>1, <2>2
<1>7. CASE \E i \in 0..Len(recs) : /\ events' = events \o SubSeq(recs, 1, i)
                                   /\ UNCHANGED pending
                                   /\ untold' = untold \cup {x \in Names : new[x] # <<>>}
  <2>1. PICK i \in 0..Len(recs) : events' = events \o SubSeq(recs, 1, i)
    BY <1>7
  <2>2. /\ Len(events) <= Len(events')
        /\ \A e \in DOMAIN events : e \in DOMAIN events' /\ events'[e] = events[e]
    <3> DEFINE m == SubSeq(recs, 1, i)
    <3>1. m \in Seq(HistoryRecords) /\ events \in Seq(HistoryRecords) /\ events' = events \o m
      BY <1>2, <2>1, PrefixMembers DEF ITyped
    <3> HIDE DEF m
    <3> QED
      BY <3>1
  <2>3. Filed' = Filed
    BY <1>2, <1>7 DEF Filed
  <2>4. \A x \in Names \ untold' : trail'[x] = trail[x] /\ (x \in gone' <=> x \in gone) /\ Filed'[x] = Filed[x]
    BY <1>6, <1>7, <2>3
  <2>5. \A x \in Names : Len(Filed'[x]) <= Len(Filed[x]) /\ \A k \in 1..Len(Filed'[x]) : Filed'[x][k] = Filed[x][k]
    <3>1. \A x \in Names : Len(Filed[x]) <= Len(Filed[x])
      BY <1>3
    <3> QED
      BY <2>3, <3>1
  <2>6. untold \subseteq untold' /\ Len(commits) <= Len(commits')
    BY <1>3, <1>4, <1>7
  <2>7. IFiled' /\ IGone' /\ IWalk'
    BY <1>4, <2>2, <2>4, <2>5, <2>6, PrunedHistory
  <2> QED
    BY <2>7 DEF IHistory
<1>8. CASE events' = events \o recs /\ pending' = new /\ UNCHANGED untold
  <2>1. Filed' = W
    <3>1. Filed' = [x \in Names |-> shards[x] \o new[x]]
      BY <1>2, <1>8 DEF Filed
    <3>2. \A x \in Names : V[x] = shards[x]
      BY <1>5
    <3> HIDE DEF V
    <3> QED
      BY <3>1, <3>2
  <2> HIDE DEF V
  <2>2. Grown(V, W, new, p, q)
    BY <1>2, <1>3 DEF Grown
  <2>3. ASSUME NEW x \in Names
        PROVE  /\ Len(W[x]) <= Len(events') /\ Sorted(W[x], x, n)
               /\ \A i \in DOMAIN W[x] : \E e \in DOMAIN events' : events'[e] = W[x][i]
    <3> DEFINE s == V[x]
               t == new[x]
    <3>0. /\ t \in Seq(HistoryRecords)
          /\ \A k \in DOMAIN t : t[k].commit = n /\ (k > 1 => t[k].action # "move")
      BY <1>2, <1>3, NewRecords
    <3>1. /\ s \in Seq(HistoryRecords) /\ t \in Seq(HistoryRecords) /\ W[x] = s \o t
          /\ \A k \in DOMAIN t : t[k].commit = n /\ (k > 1 => t[k].action # "move")
      BY <1>3, <3>0
    <3>2. Backed(s, events) /\ Sorted(s, x, n - 1)
      BY <1>3, <1>4 DEF IFiled, V, Backed
    <3>3. Backed(t, recs) /\ events \in Seq(HistoryRecords) /\ recs \in Seq(HistoryRecords)
      BY <1>2 DEF ITyped, Backed
    <3> HIDE DEF s, t, n, W
    <3>4. Sorted(s \o t, x, n)
      BY <1>3, <3>1, <3>2, SortedGrows
    <3>5. Backed(s \o t, events \o recs)
      BY <3>1, <3>2, <3>3, FiledGrows
    <3> QED
      BY <1>8, <3>1, <3>4, <3>5 DEF Backed
  <2>4. IFiled'
    <3> HIDE DEF W, n
    <3> QED
      BY <1>4, <2>1, <2>3 DEF IFiled, Sorted, Outgoing
  <2>5. ASSUME NEW x \in Names \ untold'
        PROVE  x \in gone' <=> W[x] # <<>> /\ Outgoing(W[x][Len(W[x])], x)
    <3> DEFINE s == V[x]
               t == new[x]
    <3>1. /\ s \in Seq(HistoryRecords) /\ t \in Seq(HistoryRecords) /\ W[x] = s \o t
          /\ x \in Names /\ x \notin untold
      BY <1>2, <1>3, <1>8, NewRecords
    <3>2. CASE t = <<>>
      <4>1. W[x] = s /\ (x \in gone' <=> x \in gone)
        BY <1>6, <3>1, <3>2, ConcatLast
      <4>2. x \in gone <=> s # <<>> /\ Outgoing(s[Len(s)], x)
        BY <1>4, <3>1 DEF IGone, V
      <4> QED
        BY <4>1, <4>2
    <3>3. CASE t # <<>>
      <4>1. /\ x \in gone' <=> x = q
            /\ x = q => Outgoing(t[Len(t)], x)
            /\ x # q => ~Outgoing(t[Len(t)], x)
        <5>1. x \in gone' <=> x = q
          BY <1>6, <3>3
        <5>2. /\ x = q => Outgoing(t[Len(t)], x)
              /\ x # q => ~Outgoing(t[Len(t)], x)
          BY <1>2, <1>3, <3>1, <3>3, NewRecords
        <5> QED
          BY <5>1, <5>2
      <4> HIDE DEF s, t, W
      <4>2. W[x] # <<>> /\ W[x][Len(W[x])] = t[Len(t)]
        BY <3>1, <3>3
      <4> QED
        BY <4>1, <4>2
    <3> QED
      BY <3>2, <3>3
  <2>6. IGone'
    <3> HIDE DEF W
    <3> QED
      BY <2>1, <2>5 DEF IGone, Outgoing
  <2>7. ASSUME NEW x \in Names, Intact(x)'
        PROVE  \E z : WalksTo(W, trail'[x], z, x)
    <3>0. /\ x \notin untold /\ \A u \in untold : \A k \in DOMAIN trail'[x] : ~Concerns(trail'[x][k], u)
      BY <1>8, <2>7 DEF Intact, Concerns
    <3> HIDE DEF W, n
    <3>1. CASE new[x] = <<>>
      <4>1. trail'[x] = trail[x]
        BY <1>6, <3>1
      <4>2. Intact(x)
        BY <3>0, <4>1 DEF Intact
      <4>3. PICK w : WalksTo(V, trail[x], w, x)
        BY <1>4, <4>2 DEF IWalk, V
      <4>4. W[x] = V[x]
        BY <1>3, <3>1, ConcatLast DEF W
      <4>5. Walk(W, trail[x], w)
        <5> DEFINE U == {}
        <5>1. \A k \in 0..Len(trail[x]) : w[k][1] \notin U
          OBVIOUS
        <5>2. \A a \in Names \ U : /\ W[a] \in Seq(HistoryRecords)
                                   /\ Len(V[a]) <= Len(W[a]) /\ \A k \in 1..Len(V[a]) : W[a][k] = V[a][k]
          <6> SUFFICES ASSUME NEW a \in Names
                       PROVE  /\ W[a] \in Seq(HistoryRecords)
                              /\ Len(V[a]) <= Len(W[a]) /\ \A k \in 1..Len(V[a]) : W[a][k] = V[a][k]
            OBVIOUS
          <6> DEFINE s == V[a]
                     t == new[a]
          <6>1. s \in Seq(HistoryRecords) /\ t \in Seq(HistoryRecords) /\ W[a] = s \o t
            BY <1>2, <1>3, NewRecords DEF W, n
          <6> HIDE DEF s, t
          <6> QED
            BY <6>1 DEF s
        <5>3. W \in Journals
          BY <5>2 DEF Journals, W
        <5>4. Walk(V, trail[x], w) /\ trail[x] \in Seq(HistoryRecords)
          BY <1>5, <4>3 DEF WalksTo
        <5> HIDE DEF U
        <5>5. \A a \in Names \ U : Len(V[a]) <= Len(W[a]) /\ \A k \in 1..Len(V[a]) : W[a][k] = V[a][k]
          BY <5>2
        <5>6. V \in Journals
          BY <1>3
        <5> QED
          BY <5>1, <5>3, <5>4, <5>5, <5>6, WalkStays, Zenon
      <4>6. WalksTo(W, trail[x], w, x)
        BY <4>3, <4>4, <4>5 DEF WalksTo
      <4> QED
        BY <4>1, <4>6
    <3>2. CASE new[x] # <<>>
      <4> DEFINE y == Origin(x, p, q)
                 t == Own(y)
      <4>1. trail'[x] = t \o new[x]
        BY <1>2, <3>2
      <4>2. /\ new[x] \in Seq(HistoryRecords) /\ 1 \in DOMAIN new[x]
            /\ q # Nowhere => /\ p \in Names /\ q \in Names
                              /\ Concerns(new[p][1], q)
        BY <1>2, <1>3, <3>2, NewRecords DEF n
      <4>3. y \in Names /\ t \in Seq(HistoryRecords)
        <5>1. y \in Names
          BY <4>2 DEF Origin
        <5>2. <<>> \in Seq(HistoryRecords)
          OBVIOUS
        <5> QED
          BY <1>5, <5>1, <5>2 DEF Own
      <4>4. /\ \A k \in DOMAIN t : \E j \in DOMAIN trail'[x] : trail'[x][j] = t[k]
            /\ \E j \in DOMAIN trail'[x] : trail'[x][j] = new[x][1]
        <5> DEFINE s == new[x]
                   v == trail'[x]
        <5>1. v = t \o s /\ s \in Seq(HistoryRecords) /\ t \in Seq(HistoryRecords) /\ 1 \in DOMAIN s
          BY <4>1, <4>2, <4>3
        <5> HIDE DEF s, t, v
        <5>2. /\ Len(t) \in Nat /\ DOMAIN t = 1..Len(t) /\ Len(s) \in Nat /\ DOMAIN s = 1..Len(s)
              /\ DOMAIN v = 1..Len(t) + Len(s)
              /\ \A k \in 1..Len(t) + Len(s) : v[k] = IF k <= Len(t) THEN t[k] ELSE s[k - Len(t)]
          BY <5>1, ConcatProperties
        <5>3. \A k \in DOMAIN t : k \in DOMAIN v /\ v[k] = t[k]
          BY <5>2
        <5>4. Len(t) + 1 \in DOMAIN v /\ v[Len(t) + 1] = s[1]
          <6>1. Len(t) + 1 \in 1..Len(t) + Len(s) /\ ~(Len(t) + 1 <= Len(t)) /\ (Len(t) + 1) - Len(t) = 1
            BY <5>1, <5>2
          <6> QED
            BY <5>2, <6>1
        <5> QED
          BY <5>3, <5>4 DEF s, v
      <4>5. y \notin untold
        <5>1. CASE x = p /\ q # Nowhere
          <6>1. y = q /\ Concerns(new[x][1], q)
            BY <4>2, <5>1 DEF Origin
          <6> QED
            BY <3>0, <4>4, <6>1
        <5>2. CASE ~(x = p /\ q # Nowhere)
          BY <3>0, <5>2 DEF Origin
        <5> QED
          BY <5>1, <5>2
      <4>6. y \notin gone => Intact(y)
        <5>1. \A u \in untold : \A k \in DOMAIN t : ~Concerns(t[k], u)
          <6> HIDE DEF t, y
          <6> QED
            BY <3>0, <4>4
        <5>2. y \notin gone => t = trail[y]
          BY DEF Own
        <5> HIDE DEF y, t
        <5> QED
          BY <4>5, <5>1, <5>2 DEF Intact
      <4>7. \E w : Walk(V, t, w) /\ Unbroken(t, w, Len(t)) /\ w[Len(t)] = <<y, Len(V[y])>>
        <5>1. CASE y \notin gone
          <6>1. PICK w : WalksTo(V, trail[y], w, y)
            BY <1>4, <4>3, <4>6, <5>1 DEF IWalk, V
          <6>2. t = trail[y]
            BY <5>1 DEF Own
          <6>3. /\ Walk(V, t, w) /\ Unbroken(t, w, Len(t) - 1) /\ w[Len(t)] = <<y, Len(V[y])>>
            BY <6>1, <6>2 DEF WalksTo
          <6>4. ~(V[y] # <<>> /\ Outgoing(V[y][Len(V[y])], y))
            BY <1>4, <4>3, <4>5, <5>1 DEF IGone, V
          <6> HIDE DEF y, t
          <6>5. Len(t) \in Nat
            BY <4>3
          <6>6. Len(t) \in 1..Len(t) => ~Outgoing(t[Len(t)], w[Len(t)][1])
            <7>1. Len(t) \in 1..Len(t) => w[Len(t)][2] \in DOMAIN V[w[Len(t)][1]] /\ V[w[Len(t)][1]][w[Len(t)][2]] = t[Len(t)]
              BY <6>3 DEF Walk
            <7>2. w[Len(t)][1] = y /\ w[Len(t)][2] = Len(V[y])
              BY <6>3
            <7>3. Len(V[y]) \in DOMAIN V[y] => V[y] # <<>>
              <8>1. V[y] \in Seq(HistoryRecords)
                BY <1>3, <4>3
              <8> QED
                BY <8>1
            <7> QED
              BY <6>4, <7>1, <7>2, <7>3
          <6>7. \A k \in 1..Len(t) : k \in 1..(Len(t) - 1) \/ k = Len(t)
            BY <6>5
          <6>8. Unbroken(t, w, Len(t))
            BY <6>3, <6>6, <6>7 DEF Unbroken
          <6> QED
            BY <6>3, <6>8
        <5>2. CASE y \in gone
          <6> DEFINE l == Len(V[y])
                     w == [k \in {0} |-> <<y, l>>]
          <6>1. V[y] # <<>> /\ Outgoing(V[y][l], y)
            BY <1>4, <4>3, <4>5, <5>2 DEF IGone, V
          <6>2. l \in Nat /\ l \in DOMAIN V[y]
            <7>1. V[y] \in Seq(HistoryRecords)
              BY <1>3, <4>3
            <7>2. Len(V[y]) \in Nat /\ Len(V[y]) # 0 /\ DOMAIN V[y] = 1..Len(V[y])
              BY <6>1, <7>1
            <7> QED
              BY <7>2
          <6>3. t = <<>>
            BY <5>2 DEF Own
          <6> HIDE DEF y, t, l
          <6>4. Len(t) = 0 /\ 0..Len(t) = {0} /\ 1..Len(t) = {}
            BY <6>3
          <6>5. w[0] = <<y, l>> /\ w \in [{0} -> Names \X Nat]
            BY <4>3, <6>2
          <6> HIDE DEF w
          <6>6. Begins(V, w[0])
            BY <6>1, <6>2, <6>5 DEF Begins
          <6>7. Walk(V, t, w)
            BY <6>4, <6>5, <6>6 DEF Walk
          <6>8. Unbroken(t, w, Len(t)) /\ w[Len(t)] = <<y, l>>
            BY <6>4, <6>5 DEF Unbroken
          <6> QED
            BY <6>7, <6>8 DEF l
        <5> QED
          BY <5>1, <5>2
      <4>8. PICK w : Walk(V, t, w) /\ Unbroken(t, w, Len(t)) /\ w[Len(t)] = <<y, Len(V[y])>>
        BY <4>7
      <4>9. \A m \in 1..Len(V[y]) : V[y][m].commit <= Len(commits)
        <5>1. Sorted(V[y], y, Len(commits))
          BY <1>4, <4>3 DEF IFiled, V
        <5>2. V[y] \in Seq(HistoryRecords)
          BY <1>3, <4>3
        <5>3. DOMAIN V[y] = 1..Len(V[y])
          BY <5>2
        <5> QED
          BY <5>1, <5>3 DEF Sorted
      <4>10. \E z : WalksTo(W, t \o new[x], z, x)
        <5> HIDE DEF t
        <5> QED
          BY <2>2, <3>2, <4>3, <4>8, <4>9, WalkGrows
      <4> QED
        BY <4>1, <4>10
    <3> QED
      BY <3>1, <3>2
  <2>8. IWalk'
    <3> HIDE DEF W
    <3>1. \A x \in Names : Intact(x)' => \E z : WalksTo(W, trail'[x], z, x)
      BY <2>7
    <3>2. \A x \in Names : Intact(x)' => \E z : WalksTo(Filed', trail'[x], z, x)
      BY <2>1, <3>1
    <3> QED
      BY <3>2 DEF IWalk, WalksTo, Walk, Unbroken, Enters, Begins, Incoming, Outgoing
  <2> QED
    BY <2>4, <2>6, <2>8 DEF IHistory
<1> QED
  BY <1>1, <1>7, <1>8 DEF Recorded

(* What a journal of commits leaves of a path is walked from the start. *)
LEMMA FreshWalk ==
  ASSUME NEW V \in Journals, NEW p \in Names, NEW n \in Nat,
         \A k \in DOMAIN V[p] : V[p][k].commit = 0 /\ V[p][k].action # "move"
  PROVE  /\ Sorted(V[p], p, n) /\ ~(V[p] # <<>> /\ Outgoing(V[p][Len(V[p])], p))
         /\ \E w : WalksTo(V, V[p], w, p)
<1> DEFINE s == V[p]
           w == [k \in 0..Len(s) |-> <<p, k>>]
<1>1. s \in Seq(HistoryRecords)
  BY DEF Journals
<1> SUFFICES /\ Sorted(s, p, n) /\ ~(s # <<>> /\ Outgoing(s[Len(s)], p))
             /\ \E z : WalksTo(V, s, z, p)
  OBVIOUS
<1>2. V[p] = s /\ \A k \in DOMAIN s : s[k].commit = 0 /\ s[k].action # "move"
  OBVIOUS
<1> HIDE DEF s
<1>3. Len(s) \in Nat /\ DOMAIN s = 1..Len(s)
  BY <1>1
<1>4. Sorted(s, p, n)
  BY <1>2 DEF Sorted, Outgoing
<1>5. s # <<>> => Len(s) \in DOMAIN s
  <2>1. s # <<>> => Len(s) # 0
    BY <1>1
  <2> QED
    BY <1>3, <2>1
<1>6. ~(s # <<>> /\ Outgoing(s[Len(s)], p))
  BY <1>2, <1>5 DEF Outgoing
<1>7. w \in [0..Len(s) -> Names \X Nat]
  BY <1>3
<1>8. \A k \in 0..Len(s) : w[k] = <<p, k>>
  OBVIOUS
<1> HIDE DEF w
<1>9. Begins(V, w[0])
  <2>1. 0 \in 0..Len(s)
    BY <1>3
  <2> QED
    BY <1>8, <2>1 DEF Begins
<1>10. ASSUME NEW k \in 1..Len(s)
       PROVE  /\ w[k][2] \in DOMAIN V[w[k][1]] /\ V[w[k][1]][w[k][2]] = s[k]
              /\ Enters(V, s[k], w[k], w[k - 1]) /\ ~Outgoing(s[k], w[k][1])
  <2>1. k \in 0..Len(s) /\ k - 1 \in 0..Len(s) /\ k \in DOMAIN s
    BY <1>3
  <2>2. w[k] = <<p, k>> /\ w[k - 1] = <<p, k - 1>> /\ s[k].action # "move"
    BY <1>2, <1>8, <2>1
  <2> QED
    BY <1>2, <2>1, <2>2 DEF Enters, Incoming, Outgoing
<1>11. Walk(V, s, w)
  BY <1>7, <1>9, <1>10 DEF Walk
<1>12. Unbroken(s, w, Len(s) - 1)
  <2>1. \A k \in 1..(Len(s) - 1) : k \in 1..Len(s)
    BY <1>3
  <2> QED
    BY <1>10, <2>1 DEF Unbroken
<1>13. w[Len(s)] = <<p, Len(V[p])>>
  BY <1>2, <1>3, <1>8
<1>14. WalksTo(V, s, w, p)
  BY <1>2, <1>11, <1>12, <1>13 DEF WalksTo
<1> QED
  BY <1>4, <1>6, <1>14

\* A migration installs the history of the journal of commits.
LEMMA InstallHistory ==
  ASSUME ITyped, IConcern, IStart, ITyped', IConcern', InstallJournal
  PROVE  IHistory'
<1> DEFINE all == Legacy(FlattenSeq(commits))
           kept == [p \in Names |-> LegacyShard(p)]
<1>1. /\ events' = all /\ trail' = kept /\ gone' = {} /\ untold' = {} /\ recorder = "filed"
      /\ UNCHANGED <<commits, shards, pending>>
  BY DEF InstallJournal
<1>2. /\ all \in Seq(HistoryRecords) /\ kept \in [Names -> Seq(HistoryRecords)]
      /\ \A p \in Names, k \in Nat : k \in DOMAIN kept[p] =>
           /\ kept[p][k].action # "move" /\ kept[p][k].commit = 0
           /\ \E i \in DOMAIN all : all[i] = kept[p][k]
      /\ \A p \in Names : Len(kept[p]) <= Len(all)
  BY LegacyTyped
<1>3. shards = kept /\ pending = NoPending
  BY <1>1 DEF IStart
<1> HIDE DEF all, kept
<1>4. Filed' = kept
  <2>1. \A p \in Names : kept[p] \o <<>> = kept[p]
    BY <1>2, ConcatLast
  <2>2. Filed' = [p \in Names |-> kept[p] \o <<>>]
    BY <1>1, <1>3 DEF Filed, NoPending
  <2> QED
    BY <1>2, <2>1, <2>2
<1>5. kept \in Journals /\ Len(commits') \in Nat
  BY <1>1, <1>2 DEF Journals, ITyped
<1>6. ASSUME NEW p \in Names
      PROVE  /\ Len(kept[p]) <= Len(all) /\ \A i \in DOMAIN kept[p] : \E e \in DOMAIN all : all[e] = kept[p][i]
             /\ Sorted(kept[p], p, Len(commits')) /\ ~(kept[p] # <<>> /\ Outgoing(kept[p][Len(kept[p])], p))
             /\ \E w : WalksTo(kept, kept[p], w, p)
  <2>1. \A k \in DOMAIN kept[p] : k \in Nat
    BY <1>2
  <2>2. \A k \in DOMAIN kept[p] : kept[p][k].action # "move" /\ kept[p][k].commit = 0
    BY <1>2, <2>1
  <2>3. /\ Sorted(kept[p], p, Len(commits')) /\ ~(kept[p] # <<>> /\ Outgoing(kept[p][Len(kept[p])], p))
        /\ \E w : WalksTo(kept, kept[p], w, p)
    BY <1>5, <2>2, FreshWalk
  <2>4. Len(kept[p]) <= Len(all) /\ \A i \in DOMAIN kept[p] : \E e \in DOMAIN all : all[e] = kept[p][i]
    BY <1>2, <2>1
  <2> QED
    BY <2>3, <2>4
<1>7. IFiled'
  BY <1>1, <1>4, <1>6 DEF IFiled, Sorted, Outgoing
<1>8. IGone'
  BY <1>1, <1>4, <1>6 DEF IGone, Outgoing
<1>9. IWalk'
  <2>1. \A p \in Names : \E w : WalksTo(Filed', trail'[p], w, p)
    BY <1>1, <1>4, <1>6
  <2> QED
    BY <2>1 DEF IWalk, WalksTo, Walk, Unbroken, Enters, Begins, Incoming, Outgoing
<1> QED
  BY <1>7, <1>8, <1>9 DEF IHistory

-----------------------------------------------------------------------------
HistoryInvariant == ITyped /\ IConcern /\ IStart /\ IPage /\ IHistory

\* The invariant holds before the first start.
LEMMA HistoryStarts == HistoryInit => HistoryInvariant
<1> SUFFICES ASSUME HistoryInit PROVE HistoryInvariant
  OBVIOUS
<1>1. /\ commits \in LegacyJournals /\ present = {p \in Names : LegacyShard(p) # <<>>}
      /\ events = <<>> /\ indexed = FALSE /\ shards = NoPending
      /\ recorder = "down" /\ pending = NoPending /\ page = NoPage
      /\ trail = NoPending /\ gone = {} /\ untold = {}
  BY DEF HistoryInit
<1>2. <<>> \in Seq(HistoryRecords) /\ Len(<<>>) = 0 /\ DOMAIN <<>> = {}
  OBVIOUS
<1>3. NoPending \in [Names -> Seq(HistoryRecords)] /\ \A p \in Names : NoPending[p] = <<>>
  BY <1>2 DEF NoPending
<1>4. commits \in Seq(Seq(CommittedLeaves)) /\ Len(commits) <= MaxCommits
  BY <1>1, HistoryAssumption
<1>5. present \subseteq Names /\ IsFiniteSet(present)
  BY <1>1, <1>4, LegacyRecords
<1>6. page \in [roots : SUBSET Names, boundary : Nat, offset : Nat,
                seen : Seq(HistoryRecords), first : Seq(HistoryRecords)]
  BY <1>1, <1>2 DEF NoPage
<1>7. ITyped
  BY <1>1, <1>2, <1>3, <1>4, <1>5, <1>6 DEF ITyped
<1>8. IConcern
  BY <1>1, <1>2, <1>3 DEF IConcern
<1>9. IStart
  BY <1>1 DEF IStart
<1>10. IPage
  <2>1. Matches(<<>>, {}) = <<>>
    BY KeptShort DEF Matches
  <2>2. SubSeq(<<>>, 1, 0) = <<>>
    OBVIOUS
  <2>3. Reverse(<<>>) = <<>>
    <3>1. Reverse(<<>>) \in Seq(HistoryRecords) /\ Len(Reverse(<<>>)) = Len(<<>>)
      BY <1>2, ReverseIs
    <3> QED
      BY <1>2, <3>1
  <2>4. /\ page.roots = {} /\ page.boundary = 0 /\ page.offset = 0 /\ page.seen = <<>>
        /\ page.first = <<>> /\ events = <<>>
    BY <1>1 DEF NoPage
  <2>5. Matches(events, page.roots) = <<>>
    BY <2>1, <2>4
  <2>6. /\ page.boundary <= Len(<<>>) /\ page.offset <= page.boundary
        /\ page.first = Reverse(SubSeq(<<>>, 1, page.boundary))
        /\ page.seen = SubSeq(page.first, 1, page.offset)
    <3>1. page.boundary <= Len(<<>>) /\ page.offset <= page.boundary
      BY <1>2, <2>4
    <3>2. SubSeq(<<>>, 1, page.boundary) = <<>> /\ SubSeq(page.first, 1, page.offset) = <<>>
      BY <2>2, <2>4, Zenon
    <3>3. page.first = Reverse(SubSeq(<<>>, 1, page.boundary))
      BY <2>3, <2>4, <3>2, Zenon
    <3>4. page.seen = SubSeq(page.first, 1, page.offset)
      BY <2>4, <3>2, Zenon
    <3> QED
      BY <3>1, <3>3, <3>4
  <2> QED
    BY <2>4, <2>5, <2>6 DEF IPage
<1>11. IHistory
  <2> SUFFICES IFiled /\ IGone /\ IWalk
    BY DEF IHistory
  <2>1. \A p \in Names : Filed[p] = <<>>
    BY <1>1, <1>3, <1>2, ConcatLast DEF Filed
  <2>2. Filed \in Journals
    BY <1>2, <2>1 DEF Filed, Journals
  <2>3. ASSUME NEW p \in Names PROVE \E w : WalksTo(Filed, trail[p], w, p)
    <3>1. \A k \in DOMAIN Filed[p] : Filed[p][k].commit = 0 /\ Filed[p][k].action # "move"
      BY <1>2, <2>1
    <3>2. \E w : WalksTo(Filed, Filed[p], w, p)
      BY <2>2, <3>1, FreshWalk, 0 \in Nat
    <3>3. Filed[p] = trail[p]
      BY <1>1, <1>3, <2>1
    <3> QED
      BY <3>2, <3>3
  <2>4. IWalk
    BY <2>3 DEF IWalk
  <2>5. IFiled
    BY <1>1, <1>2, <2>1 DEF IFiled, Sorted
  <2>6. IGone
    BY <1>1, <2>1 DEF IGone
  <2> QED
    BY <2>4, <2>5, <2>6
<1> QED
  BY <1>7, <1>8, <1>9, <1>10, <1>11 DEF HistoryInvariant

\* Every step keeps it.
LEMMA HistoryKept == HistoryInvariant /\ [HistoryNext]_historyVars => HistoryInvariant'
<1> SUFFICES ASSUME HistoryInvariant, [HistoryNext]_historyVars PROVE HistoryInvariant'
  OBVIOUS
<1>1. ITyped /\ IConcern /\ IStart /\ IPage /\ IHistory
  BY DEF HistoryInvariant
<1>2. CASE Records
  <2>1. (ITyped /\ IConcern /\ IStart)' /\ \E more \in Seq(HistoryRecords) : events' = events \o more
    BY <1>1, <1>2, RecordsTyped
  <2>2. page' = page
    BY <1>2 DEF Records, Recorded
  <2>3. IPage'
    BY <1>1, <2>1, <2>2, PageKept
  <2>4. IHistory'
    BY <1>1, <1>2, <2>1, RecordsHistory
  <2> QED
    BY <2>1, <2>3, <2>4 DEF HistoryInvariant
<1>0. ASSUME UNCHANGED <<page, events>>, ITyped' PROVE IPage'
  <2>1. events \o <<>> = events /\ <<>> \in Seq(HistoryRecords)
    BY <1>1, ConcatLast DEF ITyped
  <2>2. \E more \in Seq(HistoryRecords) : events' = events \o more
    BY <1>0, <2>1
  <2> QED
    BY <1>0, <1>1, <2>2, PageKept
<1>3. ASSUME NEW p \in Names, FileShard(p) PROVE HistoryInvariant'
  <2>1. (ITyped /\ IConcern /\ IStart)'
    BY <1>1, <1>3, FileShardTyped
  <2>2. IPage'
    BY <1>0, <1>3, <2>1 DEF FileShard
  <2>3. IHistory'
    BY <1>1, <1>3, <2>1, FileShardHistory
  <2> QED
    BY <2>1, <2>2, <2>3 DEF HistoryInvariant
<1>4. CASE StartReady \/ StartMigrating \/ InstallShards \/ InstallJournal \/ RecorderCrash
  <2>1. (ITyped /\ IConcern /\ IStart)'
    BY <1>1, <1>4, StartTyped
  <2>2. CASE StartReady
    <3>1. IPage'
      BY <1>0, <2>1, <2>2 DEF StartReady
    <3>2. Ready' => Ready
      BY <2>2 DEF StartReady, Ready
    <3>3. IHistory'
      BY <1>1, <2>1, <2>2, <3>2, SameShards DEF StartReady
    <3> QED
      BY <2>1, <3>1, <3>3 DEF HistoryInvariant
  <2>3. CASE StartMigrating
    <3>1. IPage'
      BY <1>0, <2>1, <2>3 DEF StartMigrating
    <3>2. IHistory'
      BY <2>3 DEF StartMigrating, Ready, IHistory
    <3> QED
      BY <2>1, <3>1, <3>2 DEF HistoryInvariant
  <2>4. CASE InstallShards
    <3>1. IPage'
      BY <1>0, <2>1, <2>4 DEF InstallShards
    <3>2. IHistory'
      BY <2>4 DEF InstallShards, Ready, IHistory
    <3> QED
      BY <2>1, <3>1, <3>2 DEF HistoryInvariant
  <2>5. CASE InstallJournal
    <3>1. page' = page
      BY <2>5 DEF InstallJournal
    <3>2. IPage'
      BY <1>1, <2>1, <2>5, <3>1, PageKept
    <3>3. IHistory'
      BY <1>1, <2>1, <2>5, InstallHistory
    <3> QED
      BY <2>1, <3>2, <3>3 DEF HistoryInvariant
  <2>6. CASE RecorderCrash
    <3>1. IPage'
      BY <1>0, <2>1, <2>6 DEF RecorderCrash
    <3>2. IHistory'
      BY <1>1, <2>1, <2>6, CrashHistory
    <3> QED
      BY <2>1, <3>1, <3>2 DEF HistoryInvariant
  <2> QED
    BY <1>4, <2>2, <2>3, <2>4, <2>5, <2>6
<1>5. CASE NextPage \/ \E allowed \in SUBSET Names : FirstPage(allowed)
  <2>1. (ITyped /\ IConcern /\ IStart /\ IPage)'
    BY <1>1, <1>5, PagesTyped
  <2>2. UNCHANGED <<commits, events, shards, pending, trail, gone, untold, recorder, indexed>>
    BY <1>5 DEF FirstPage, NextPage
  <2>3. Ready' => Ready
    BY <2>2 DEF Ready
  <2>4. IHistory'
    BY <1>1, <2>1, <2>2, <2>3, SameShards
  <2> QED
    BY <2>1, <2>4 DEF HistoryInvariant
<1>6. CASE UNCHANGED historyVars
  <2>0. UNCHANGED <<present, commits, events, indexed, shards, recorder, pending, page, trail, gone, untold>>
    BY <1>6 DEF historyVars
  <2>1. ITyped'
    BY <1>1, <2>0 DEF ITyped
  <2>2. IConcern'
    BY <1>1, <2>0 DEF IConcern
  <2>3. IStart'
    <3>1. \A p : LegacyShard(p)' = LegacyShard(p)
      BY <2>0 DEF LegacyShard
    <3> QED
      BY <1>1, <2>0, <3>1 DEF IStart
  <2>4. IPage'
    BY <1>0, <2>0, <2>1
  <2>5. Ready' => Ready
    BY <2>0 DEF Ready
  <2>6. IHistory'
    BY <1>1, <2>0, <2>1, <2>2, <2>5, SameShards
  <2> QED
    BY <2>1, <2>2, <2>3, <2>4, <2>6 DEF HistoryInvariant
<1> QED
  BY <1>1, <1>2, <1>3, <1>4, <1>5, <1>6, HistoryMoves

-----------------------------------------------------------------------------
(* What a query reads *)

(* A query's story, a function of where its reader stands. *)
Cursors == [tracked : Names, i : Nat, started : BOOLEAN]
Following(f, allowed, c) ==
  LET p == c.tracked
      r == shards[p][c.i]
      left == Departures(r)
  IN  CASE c.i \notin DOMAIN shards[p] -> <<>>
        [] c.i \in DOMAIN shards[p] /\ ~Concerns(r, p) ->
             f[Cursor(p, c.i - 1, c.started)]
        [] OTHER ->
             CASE r.action = "move" /\ r.from = p /\ c.started -> <<>>
               [] r.action = "move" /\ r.path = p /\ r.from \notin allowed -> <<>>
               [] r.action = "move" /\ r.path = p /\ r.from \in allowed ->
                    Append(IF left = {} THEN <<>>
                           ELSE f[Cursor(r.from, Min(left) - 1, TRUE)], r)
               [] OTHER -> Append(f[Cursor(p, c.i - 1, TRUE)], r)
Story(f, allowed) == f = [c \in Cursors |-> Following(f, allowed, c)]

\* A query takes one such story.
LEMMA LineageIs ==
  ASSUME NEW allowed
  PROVE  Lineage(allowed) = CHOOSE f : Story(f, allowed)
BY Zenon DEF Lineage, Story, Following, Cursors

(* Where the reader goes from a cursor, if anywhere. *)
Onward(c) ==
  LET r == shards[c.tracked][c.i]
  IN  IF Incoming(r, c.tracked) THEN Cursor(r.from, Min(Departures(r)) - 1, TRUE)
      ELSE Cursor(c.tracked, c.i - 1, TRUE)
Goes(c) ==
  LET r == shards[c.tracked][c.i]
  IN  c.i \in DOMAIN shards[c.tracked] /\ (Incoming(r, c.tracked) => Departures(r) # {})

(* What a cursor's story is, of what its reader goes on to. *)
LEMMA FollowingIs ==
  ASSUME NEW f, NEW allowed, NEW c \in Cursors,
         \A i \in DOMAIN shards[c.tracked] :
           shards[c.tracked][i] \in HistoryRecords /\ Concerns(shards[c.tracked][i], c.tracked)
  PROVE  LET p == c.tracked
             r == shards[p][c.i]
         IN  /\ c.i \notin DOMAIN shards[p] => Following(f, allowed, c) = <<>>
             /\ c.i \in DOMAIN shards[p] =>
                  /\ Outgoing(r, p) /\ c.started => Following(f, allowed, c) = <<>>
                  /\ Incoming(r, p) /\ r.from \notin allowed => Following(f, allowed, c) = <<>>
                  /\ Incoming(r, p) /\ r.from \in allowed =>
                       Following(f, allowed, c) = Append(IF Goes(c) THEN f[Onward(c)] ELSE <<>>, r)
                  /\ ~Incoming(r, p) /\ ~(Outgoing(r, p) /\ c.started) =>
                       Following(f, allowed, c) = Append(f[Onward(c)], r)
<1> DEFINE p == c.tracked
           r == shards[p][c.i]
<1> DEFINE left == Departures(r)
           in == Cursor(r.from, Min(left) - 1, TRUE)
           on == Cursor(p, c.i - 1, TRUE)
           a == CASE r.action = "move" /\ r.from = p /\ c.started -> <<>>
                  [] r.action = "move" /\ r.path = p /\ r.from \notin allowed -> <<>>
                  [] r.action = "move" /\ r.path = p /\ r.from \in allowed ->
                       Append(IF left = {} THEN <<>> ELSE f[in], r)
                  [] OTHER -> Append(f[on], r)
           b == f[Cursor(p, c.i - 1, c.started)]
           out == c.i \notin DOMAIN shards[p]
           off == c.i \in DOMAIN shards[p] /\ ~Concerns(r, p)
<1>0. Following(f, allowed, c) = CASE out -> <<>> [] off -> b [] OTHER -> a
  BY Zenon DEF Following
<1>1. c.i \notin DOMAIN shards[p] => Following(f, allowed, c) = <<>>
  <2>1. c.i \notin DOMAIN shards[p] => out /\ ~off
    OBVIOUS
  <2> HIDE DEF out, off, a, b
  <2> QED
    BY <1>0, <2>1
<1>2. ASSUME c.i \in DOMAIN shards[p]
      PROVE  /\ Outgoing(r, p) /\ c.started => Following(f, allowed, c) = <<>>
             /\ Incoming(r, p) /\ r.from \notin allowed => Following(f, allowed, c) = <<>>
             /\ Incoming(r, p) /\ r.from \in allowed =>
                  Following(f, allowed, c) = Append(IF Goes(c) THEN f[Onward(c)] ELSE <<>>, r)
             /\ ~Incoming(r, p) /\ ~(Outgoing(r, p) /\ c.started) =>
                  Following(f, allowed, c) = Append(f[Onward(c)], r)
  <2>1. r \in HistoryRecords /\ Concerns(r, p)
    BY <1>2
  <2>2. r.path # r.from
    BY <2>1, RecordFacts
  <2>3. Following(f, allowed, c) = a
    <3>1. ~out /\ ~off
      BY <1>2, <2>1
    <3> HIDE DEF a, b, out, off
    <3> QED
      BY <1>0, <3>1
  <2> HIDE DEF b, out, off
  <2>4. Incoming(r, p) => Onward(c) = in /\ (Goes(c) <=> left # {})
    BY <1>2 DEF Onward, Goes
  <2>5. ~Incoming(r, p) => Onward(c) = on
    BY DEF Onward
  <2> HIDE DEF in, on, left, r, p
  <2>6. Outgoing(r, p) /\ c.started => Following(f, allowed, c) = <<>>
    BY <2>2, <2>3 DEF Outgoing
  <2>7. Incoming(r, p) /\ r.from \notin allowed => Following(f, allowed, c) = <<>>
    BY <2>2, <2>3 DEF Incoming
  <2>8. Incoming(r, p) /\ r.from \in allowed =>
          Following(f, allowed, c) = Append(IF left = {} THEN <<>> ELSE f[in], r)
    BY <2>2, <2>3 DEF Incoming
  <2>9. ~Incoming(r, p) /\ ~(Outgoing(r, p) /\ c.started) => Following(f, allowed, c) = Append(f[on], r)
    BY <2>2, <2>3 DEF Incoming, Outgoing
  <2>10. Incoming(r, p) /\ r.from \in allowed =>
           Following(f, allowed, c) = Append(IF Goes(c) THEN f[Onward(c)] ELSE <<>>, r)
    BY <2>4, <2>8
  <2>11. ~Incoming(r, p) /\ ~(Outgoing(r, p) /\ c.started) => Following(f, allowed, c) = Append(f[Onward(c)], r)
    BY <2>5, <2>9
  <2> QED
    BY <2>6, <2>7, <2>10, <2>11
<1> QED
  BY <1>1, <1>2

(* Once the server is up, the shards are what has been filed. *)
Settled ==
  /\ shards \in Journals /\ Len(events) \in Nat /\ Len(commits) \in Nat
  /\ \A p \in Names :
       /\ DOMAIN shards[p] = 1..Len(shards[p]) /\ Len(shards[p]) \in Nat
       /\ Len(shards[p]) <= Len(events) /\ Sorted(shards[p], p, Len(commits))
       /\ \A i \in DOMAIN shards[p] : shards[p][i] \in HistoryRecords /\ Concerns(shards[p][i], p)

\* What the invariant says of a server that is up.
LEMMA UpIsSettled ==
  ASSUME HistoryInvariant, recorder = "up"
  PROVE  Settled /\ Filed = shards /\ IFiled /\ IWalk
<1>1. ITyped /\ IConcern /\ IStart /\ IHistory
  BY DEF HistoryInvariant
<1>2. IFiled /\ IWalk
  BY <1>1 DEF IHistory, Ready
<1>3. \A p \in Names : shards[p] \in Seq(HistoryRecords) /\ pending[p] = <<>>
  BY <1>1 DEF ITyped, IStart, NoPending
<1>4. Filed = shards
  <2>1. \A p \in Names : shards[p] \o pending[p] = shards[p]
    BY <1>3, ConcatLast
  <2>2. Filed = [p \in Names |-> shards[p]]
    BY <2>1 DEF Filed
  <2> QED
    BY <1>1, <2>2 DEF ITyped
<1>5. shards \in Journals /\ Len(events) \in Nat /\ Len(commits) \in Nat
  BY <1>1, <1>4, FiledTyped
<1>6. ASSUME NEW p \in Names
      PROVE  /\ DOMAIN shards[p] = 1..Len(shards[p]) /\ Len(shards[p]) \in Nat
             /\ Len(shards[p]) <= Len(events) /\ Sorted(shards[p], p, Len(commits))
             /\ \A i \in DOMAIN shards[p] : shards[p][i] \in HistoryRecords /\ Concerns(shards[p][i], p)
  <2>1. Len(shards[p]) <= Len(events) /\ Sorted(shards[p], p, Len(commits))
    BY <1>2, <1>4 DEF IFiled
  <2>2. \A i \in DOMAIN shards[p] : Concerns(shards[p][i], p)
    BY <1>1 DEF IConcern
  <2>3. /\ DOMAIN shards[p] = 1..Len(shards[p]) /\ Len(shards[p]) \in Nat
        /\ \A i \in DOMAIN shards[p] : shards[p][i] \in HistoryRecords
    BY <1>3
  <2> QED
    BY <2>1, <2>2, <2>3
<1> QED
  BY <1>2, <1>4, <1>5, <1>6 DEF Settled

(* How far a cursor is from the beginning: a reader goes from a record to    *)
(* one of an earlier commit, or to an earlier one of the same shard.         *)
Rank(c) ==
  IF c.i \in DOMAIN shards[c.tracked]
  THEN shards[c.tracked][c.i].commit * (Len(events) + 1) + c.i
  ELSE 0

\* Ranks of different commits are apart,
LEMMA Apart ==
  ASSUME NEW a \in Nat, NEW b \in Nat, NEW l \in Nat, a < b
  PROVE  a * (l + 1) + l < b * (l + 1)
<1>1. PICK d \in Nat : b = a + 1 + d
  <2>1. (b - a) - 1 \in Nat /\ b = a + 1 + ((b - a) - 1)
    OBVIOUS
  <2> QED
    BY <2>1
<1>2. (a + 1 + d) * (l + 1) = a * (l + 1) + (l + 1) + d * (l + 1)
  OBVIOUS
<1>3. d * (l + 1) \in Nat /\ a * (l + 1) \in Nat
  OBVIOUS
<1> QED
  BY <1>1, <1>2, <1>3

\* and those of one commit are not.
LEMMA NoFurther ==
  ASSUME NEW a \in Nat, NEW b \in Nat, NEW l \in Nat, a <= b
  PROVE  a * (l + 1) <= b * (l + 1) /\ a * (l + 1) \in Nat
<1>1. a * (l + 1) \in Nat
  OBVIOUS
<1>2. CASE a = b
  BY <1>1, <1>2
<1>3. CASE a < b
  <2>1. a * (l + 1) + l < b * (l + 1)
    BY <1>3, Apart
  <2>2. b * (l + 1) \in Nat
    OBVIOUS
  <2> QED
    BY <1>1, <2>1, <2>2
<1> QED
  BY <1>2, <1>3

\* Ranks are bounded.
LEMMA RankBound ==
  ASSUME Settled, NEW c \in Cursors
  PROVE  Rank(c) \in 0..(Len(commits) * (Len(events) + 1) + Len(events))
<1> DEFINE l == Len(events)
           n == Len(commits)
           s == shards[c.tracked]
           m == s[c.i].commit
<1>1. c.tracked \in Names /\ c.i \in Nat /\ l \in Nat /\ n \in Nat
  BY DEF Settled, Cursors
<1>2. DOMAIN s = 1..Len(s) /\ Len(s) \in Nat /\ Len(s) <= l
  BY <1>1 DEF Settled
<1>3. CASE c.i \in DOMAIN s
  <2>1. m \in Nat /\ m <= n
    <3>1. s[c.i] \in HistoryRecords /\ Sorted(s, c.tracked, n)
      BY <1>1, <1>3 DEF Settled
    <3> QED
      BY <1>3, <3>1, RecordFacts DEF Sorted
  <2>2. Rank(c) = m * (l + 1) + c.i
    BY <1>3 DEF Rank
  <2> HIDE DEF l, n, s, m
  <2>3. m * (l + 1) <= n * (l + 1) /\ m * (l + 1) \in Nat /\ n * (l + 1) \in Nat
    <3>1. m * (l + 1) <= n * (l + 1) /\ m * (l + 1) \in Nat
      BY <1>1, <2>1, NoFurther
    <3>2. n * (l + 1) \in Nat
      BY <1>1
    <3> QED
      BY <3>1, <3>2
  <2>4. c.i \in 0..l
    BY <1>1, <1>2, <1>3
  <2>5. Rank(c) \in 0..(n * (l + 1) + l)
    BY <1>1, <2>2, <2>3, <2>4
  <2> QED
    BY <2>5 DEF n, l
<1>4. CASE c.i \notin DOMAIN s
  <2>1. Rank(c) = 0
    BY <1>4 DEF Rank
  <2> HIDE DEF l, n
  <2>2. n * (l + 1) \in Nat
    BY <1>1
  <2>3. n * (l + 1) + l \in Nat
    BY <1>1, <2>2
  <2>4. 0 \in 0..(n * (l + 1) + l)
    BY <2>3
  <2> QED
    BY <2>1, <2>4 DEF n, l
<1> QED
  BY <1>3, <1>4

\* A reader only goes back.
LEMMA OnwardIsLess ==
  ASSUME Settled, NEW c \in Cursors, Goes(c)
  PROVE  Onward(c) \in Cursors /\ Rank(Onward(c)) < Rank(c)
<1> DEFINE l == Len(events)
           p == c.tracked
           s == shards[p]
           r == s[c.i]
           m == r.commit
<1>1. c.tracked \in Names /\ c.i \in Nat /\ l \in Nat
  BY DEF Settled, Cursors
<1>2. DOMAIN s = 1..Len(s) /\ Len(s) \in Nat /\ Len(s) <= l /\ Sorted(s, p, Len(commits))
      /\ \A i \in DOMAIN s : s[i] \in HistoryRecords
  BY <1>1 DEF Settled
<1>3. c.i \in DOMAIN s /\ (Incoming(r, p) => Departures(r) # {}) /\ c.i >= 1
  BY <1>2 DEF Goes
<1>4. r \in HistoryRecords /\ m \in Nat
  <2>1. r \in HistoryRecords
    BY <1>2, <1>3
  <2> QED
    BY <2>1, RecordFacts
<1>5. Rank(c) = m * (l + 1) + c.i
  BY <1>3 DEF Rank
<1>6. m * (l + 1) \in Nat
  <2> HIDE DEF l, m
  <2> QED
    BY <1>1, <1>4
<1>7. CASE ~Incoming(r, p)
  <2> DEFINE o == Cursor(p, c.i - 1, TRUE)
  <2>1. Onward(c) = o
    BY <1>7 DEF Onward
  <2>2. o \in Cursors /\ o.tracked = p /\ o.i = c.i - 1
    BY <1>1, <1>3 DEF Cursor, Cursors
  <2>3. CASE o.i \notin DOMAIN s
    <3>1. Rank(o) = 0
      BY <2>2, <2>3 DEF Rank
    <3> HIDE DEF o, l, m, s, r, p
    <3> QED
      BY <1>1, <1>3, <1>5, <1>6, <2>1, <2>2, <3>1
  <2>4. CASE o.i \in DOMAIN s
    <3> DEFINE k == s[o.i].commit
    <3>1. Rank(o) = k * (l + 1) + o.i
      BY <2>2, <2>4 DEF Rank
    <3>2. k \in Nat
      <4>1. s[o.i] \in HistoryRecords
        BY <1>2, <2>4
      <4> QED
        BY <4>1, RecordFacts
    <3>3. k <= m
      <4> HIDE DEF o
      <4>1. o.i < c.i
        BY <1>1, <2>2
      <4> QED
        BY <1>2, <1>3, <2>4, <4>1 DEF Sorted
    <3> HIDE DEF o, l, m, s, r, p, k
    <3>4. k * (l + 1) <= m * (l + 1) /\ k * (l + 1) \in Nat
      BY <1>1, <1>4, <3>2, <3>3, NoFurther
    <3> QED
      BY <1>1, <1>3, <1>5, <1>6, <2>1, <2>2, <3>1, <3>4
  <2> QED
    BY <2>3, <2>4
<1>8. CASE Incoming(r, p)
  <2> DEFINE left == Departures(r)
             q == r.from
             v == shards[q]
             j == Min(left)
             o == Cursor(q, j - 1, TRUE)
  <2>1. q \in Names
    BY <1>4, <1>8, RecordFacts DEF Incoming
  <2>2. DOMAIN v = 1..Len(v) /\ Len(v) \in Nat /\ Len(v) <= l /\ Sorted(v, q, Len(commits))
        /\ \A i \in DOMAIN v : v[i] \in HistoryRecords
    BY <2>1 DEF Settled
  <2>0. left = {k \in DOMAIN v : v[k] = r}
    BY Zenon DEF Departures
  <2>3. j \in left
    <3>0. left # {}
      BY <1>3, <1>8
    <3> HIDE DEF left, v, r
    <3>1. left \subseteq Nat /\ left # {}
      BY <2>0, <2>2, <3>0
    <3> QED
      BY <3>1, LeastOf
  <2>4. j \in DOMAIN v /\ v[j] = r
    <3> HIDE DEF j, left, v, r
    <3> QED
      BY <2>0, <2>3
  <2>5. Onward(c) = o
    BY <1>8 DEF Onward
  <2> HIDE DEF j, left, v
  <2>6. j \in Nat /\ j >= 1 /\ j - 1 \in Nat
    BY <2>2, <2>4
  <2>7. o \in Cursors /\ o.tracked = q /\ o.i = j - 1
    BY <2>1, <2>6 DEF Cursor, Cursors
  <2>8. CASE o.i \notin DOMAIN v
    <3>1. Rank(o) = 0
      BY <2>7, <2>8 DEF Rank, v
    <3> HIDE DEF o, l, m, s, r, p
    <3> QED
      BY <1>1, <1>3, <1>5, <1>6, <2>5, <2>7, <3>1
  <2>9. CASE o.i \in DOMAIN v
    <3> DEFINE k == v[o.i].commit
    <3>1. Rank(o) = k * (l + 1) + o.i
      BY <2>7, <2>9 DEF Rank, v
    <3>2. k \in Nat
      <4>1. v[o.i] \in HistoryRecords
        BY <2>2, <2>9
      <4> QED
        BY <4>1, RecordFacts
    <3>3. k < m
      <4>2. Outgoing(v[j], q)
        BY <1>8, <2>4 DEF Outgoing, Incoming
      <4> HIDE DEF o, r, q
      <4>1. o.i < j
        BY <2>6, <2>7
      <4>3. v[o.i].commit < v[j].commit
        BY <2>2, <2>4, <2>9, <4>1, <4>2 DEF Sorted
      <4> QED
        BY <2>4, <4>3 DEF r
    <3>4. o.i \in Nat /\ o.i <= l
      <4> HIDE DEF o, q
      <4>1. o.i \in 1..Len(v)
        BY <2>2, <2>9
      <4> QED
        BY <1>1, <2>2, <4>1
    <3> HIDE DEF o, l, m, s, r, p, k, q
    <3>5. k * (l + 1) + l < m * (l + 1) /\ k * (l + 1) \in Nat
      <4>1. k * (l + 1) + l < m * (l + 1)
        BY <1>1, <1>4, <3>2, <3>3, Apart
      <4>2. k * (l + 1) \in Nat
        BY <1>1, <3>2
      <4> QED
        BY <4>1, <4>2
    <3> QED
      BY <1>1, <1>3, <1>5, <1>6, <2>5, <2>7, <3>1, <3>4, <3>5
  <2> QED
    BY <2>8, <2>9
<1> QED
  BY <1>7, <1>8

(* What a cursor's story is depends on where its reader goes on to alone. *)
LEMMA FollowingAgrees ==
  ASSUME Settled, NEW allowed, NEW c \in Cursors, NEW f, NEW g, Goes(c) => f[Onward(c)] = g[Onward(c)]
  PROVE  Following(f, allowed, c) = Following(g, allowed, c)
<1> DEFINE p == c.tracked
           r == shards[p][c.i]
           F == Following(f, allowed, c)
           G == Following(g, allowed, c)
           on == f[Onward(c)]
           on2 == g[Onward(c)]
<1>1. \A i \in DOMAIN shards[p] : shards[p][i] \in HistoryRecords /\ Concerns(shards[p][i], p)
  <2>1. p \in Names
    BY DEF Cursors
  <2> QED
    BY <2>1 DEF Settled
<1>2. c.i \in DOMAIN shards[p] /\ ~Incoming(r, p) => Goes(c)
  BY DEF Goes
<1>3. /\ c.i \notin DOMAIN shards[p] => F = <<>>
      /\ c.i \in DOMAIN shards[p] =>
           /\ Outgoing(r, p) /\ c.started => F = <<>>
           /\ Incoming(r, p) /\ r.from \notin allowed => F = <<>>
           /\ Incoming(r, p) /\ r.from \in allowed => F = Append(IF Goes(c) THEN on ELSE <<>>, r)
           /\ ~Incoming(r, p) /\ ~(Outgoing(r, p) /\ c.started) => F = Append(on, r)
  BY <1>1, FollowingIs
<1>4. /\ c.i \notin DOMAIN shards[p] => G = <<>>
      /\ c.i \in DOMAIN shards[p] =>
           /\ Outgoing(r, p) /\ c.started => G = <<>>
           /\ Incoming(r, p) /\ r.from \notin allowed => G = <<>>
           /\ Incoming(r, p) /\ r.from \in allowed => G = Append(IF Goes(c) THEN on2 ELSE <<>>, r)
           /\ ~Incoming(r, p) /\ ~(Outgoing(r, p) /\ c.started) => G = Append(on2, r)
  BY <1>1, FollowingIs
<1>5. Goes(c) => on = on2
  OBVIOUS
<1> HIDE DEF on, on2, F, G, r, p
<1>6. F = G
  BY <1>2, <1>3, <1>4, <1>5
<1> QED
  BY <1>6 DEF F, G

(* A query's story is defined from every cursor. *)
LEMMA StoryExists ==
  ASSUME Settled, NEW allowed
  PROVE  \E f : Story(f, allowed)
<1> DEFINE B == Len(commits) * (Len(events) + 1) + Len(events) + 1
           Partial(n, g) == \A c \in Cursors : Rank(c) < n => g[c] = Following(g, allowed, c)
           Good == {n \in 0..B : \E g : Partial(n, g)}
<1>1. B \in Nat /\ \A c \in Cursors : Rank(c) \in Nat /\ Rank(c) < B
  <2> DEFINE top == Len(commits) * (Len(events) + 1)
             l == Len(events)
  <2>1. top \in Nat /\ l \in Nat
    <3>1. Len(commits) \in Nat /\ Len(events) \in Nat
      BY DEF Settled
    <3> QED
      BY <3>1
  <2>2. \A c \in Cursors : Rank(c) \in 0..(top + l)
    BY RankBound
  <2>3. B = top + l + 1
    OBVIOUS
  <2> HIDE DEF top, l, B
  <2> QED
    BY <2>1, <2>2, <2>3
<1> HIDE DEF B
<1>2. 0 \in Good
  <2>1. Partial(0, <<>>)
    <3>1. \A c \in Cursors : ~(Rank(c) < 0)
      BY <1>1
    <3> QED
      BY <3>1
  <2> QED
    BY <1>1, <2>1
<1>3. ASSUME NEW n \in 1..B, n - 1 \in Good PROVE n \in Good
  <2>1. PICK g : Partial(n - 1, g)
    BY <1>3
  <2> DEFINE h == [c \in Cursors |-> IF Rank(c) < n - 1 THEN g[c] ELSE Following(g, allowed, c)]
  <2>2. ASSUME NEW c \in Cursors, Rank(c) < n PROVE h[c] = Following(h, allowed, c)
    <3>1. h[c] = Following(g, allowed, c)
      BY <2>1
    <3>2. Goes(c) => g[Onward(c)] = h[Onward(c)]
      <4> SUFFICES ASSUME Goes(c) PROVE g[Onward(c)] = h[Onward(c)]
        OBVIOUS
      <4>1. Onward(c) \in Cursors /\ Rank(Onward(c)) < Rank(c)
        BY OnwardIsLess
      <4>2. Rank(Onward(c)) < n - 1
        BY <1>1, <2>2, <4>1
      <4> QED
        BY <4>1, <4>2
    <3> HIDE DEF h
    <3>3. Following(g, allowed, c) = Following(h, allowed, c)
      BY <3>2, FollowingAgrees
    <3> QED
      BY <3>1, <3>3
  <2> HIDE DEF h
  <2>3. Partial(n, h)
    BY <2>2
  <2>4. n \in 0..B
    BY <1>1
  <2> QED
    BY <2>3, <2>4
<1>4. \A n \in 0..B : n \in Good
  <2> HIDE DEF Good
  <2> QED
    BY <1>1, <1>2, <1>3, UpTo
<1>5. PICK g : Partial(B, g)
  <2>1. B \in 0..B
    BY <1>1
  <2> QED
    BY <1>4, <2>1
<1> DEFINE f == [c \in Cursors |-> g[c]]
<1>6. ASSUME NEW c \in Cursors PROVE f[c] = Following(f, allowed, c)
  <2>1. f[c] = Following(g, allowed, c)
    BY <1>1, <1>5
  <2>2. Goes(c) => g[Onward(c)] = f[Onward(c)]
    BY OnwardIsLess
  <2> HIDE DEF f
  <2>3. Following(g, allowed, c) = Following(f, allowed, c)
    BY <2>2, FollowingAgrees
  <2> QED
    BY <2>1, <2>3
<1>7. Story(f, allowed)
  <2>1. f = [c \in Cursors |-> f[c]]
    OBVIOUS
  <2> HIDE DEF f
  <2>2. [c \in Cursors |-> f[c]] = [c \in Cursors |-> Following(f, allowed, c)]
    BY <1>6
  <2> QED
    BY <2>1, <2>2 DEF Story
<1> QED
  BY <1>7

\* So a query goes on as its reader does.
LEMMA LineageFollows ==
  ASSUME Settled, NEW allowed, NEW c \in Cursors
  PROVE  Lineage(allowed)[c] = Following(Lineage(allowed), allowed, c)
<1> DEFINE f == CHOOSE g : Story(g, allowed)
<1>1. Story(f, allowed)
  BY StoryExists
<1>2. Lineage(allowed) = f
  BY LineageIs
<1> HIDE DEF f
<1>3. f[c] = Following(f, allowed, c)
  BY <1>1 DEF Story
<1> QED
  BY <1>2, <1>3

\* A part of a sequence, and its last member.
LEMMA SubSeqGrows ==
  ASSUME NEW S, NEW s \in Seq(S), NEW m \in Nat \ {0}, NEW n \in m..Len(s)
  PROVE  SubSeq(s, m, n) = Append(SubSeq(s, m, n - 1), s[n])
<1> DEFINE a == SubSeq(s, m, n)
           b == SubSeq(s, m, n - 1)
           c == Append(b, s[n])
<1>1. /\ Len(s) \in Nat /\ n \in Nat /\ m <= n /\ n <= Len(s) /\ n - 1 \in Nat
      /\ n \in 0..Len(s) /\ n - 1 \in 0..Len(s) /\ s[n] \in S
  OBVIOUS
<1>2. /\ a \in Seq(S) /\ Len(a) = IF m <= n THEN n - m + 1 ELSE 0
      /\ \A k \in DOMAIN a : a[k] = s[(k + m) - 1]
  BY <1>1, SubSeqMembers
<1>3. /\ b \in Seq(S) /\ Len(b) = IF m <= n - 1 THEN (n - 1) - m + 1 ELSE 0
      /\ \A k \in DOMAIN b : b[k] = s[(k + m) - 1]
  BY <1>1, SubSeqMembers
<1> HIDE DEF a, b
<1>4. Len(a) = n - m + 1 /\ Len(b) = n - m
  BY <1>1, <1>2, <1>3
<1>5. c \in Seq(S) /\ Len(c) = Len(b) + 1 /\ c[Len(b) + 1] = s[n] /\ \A k \in 1..Len(b) : c[k] = b[k]
  BY <1>1, <1>3, AppendProperties
<1> HIDE DEF c
<1>6. ASSUME NEW k \in 1..Len(a) PROVE a[k] = c[k]
  <2>1. a[k] = s[(k + m) - 1]
    BY <1>2
  <2>2. CASE k <= Len(b)
    <3>1. k \in 1..Len(b) /\ k \in DOMAIN b
      BY <1>3, <1>4, <1>1, <2>2
    <3> QED
      BY <1>3, <1>5, <2>1, <3>1
  <2>3. CASE ~(k <= Len(b))
    <3>1. k = Len(b) + 1 /\ (k + m) - 1 = n
      BY <1>1, <1>4, <2>3
    <3> QED
      BY <1>5, <2>1, <3>1
  <2> QED
    BY <2>2, <2>3
<1>7. Len(a) = Len(c)
  BY <1>1, <1>4, <1>5
<1>8. a = c
  BY <1>2, <1>5, <1>6, <1>7, SeqEqual
<1> QED
  BY <1>8 DEF a, b, c

(* The story from each place of a walk, from the last record of a move the   *)
(* reader may not see on, is the records of the walk.                        *)
LEMMA StoryOfWalk ==
  ASSUME Settled, NEW allowed, NEW p \in Names, p \in allowed, NEW t \in Seq(HistoryRecords), NEW w,
         WalksTo(shards, t, w, p),
         NEW h \in 0..Len(t), h > 0 => t[h].action = "move" /\ t[h].from \notin allowed,
         \A k \in h + 1..Len(t) : t[k].action = "move" => t[k].from \in allowed
  PROVE  \A k \in h..Len(t) :
           Lineage(allowed)[Cursor(w[k][1], w[k][2], k < Len(t))] = SubSeq(t, h + 1, k)
<1> DEFINE f == Lineage(allowed)
           at(k) == Cursor(w[k][1], w[k][2], k < Len(t))
           L == Len(t)
<1>1. /\ L \in Nat /\ DOMAIN t = 1..L /\ w \in [0..L -> Names \X Nat] /\ Begins(shards, w[0])
      /\ w[L] = <<p, Len(shards[p])>> /\ (t = <<>> => shards[p] = <<>>)
      /\ \A k \in 1..L : /\ w[k][2] \in DOMAIN shards[w[k][1]] /\ shards[w[k][1]][w[k][2]] = t[k]
                         /\ Enters(shards, t[k], w[k], w[k - 1])
      /\ \A k \in 1..(L - 1) : ~Outgoing(t[k], w[k][1])
  BY DEF WalksTo, Walk, Unbroken
<1>2. \A k \in DOMAIN t : t[k] \in HistoryRecords
  OBVIOUS
<1>3. ASSUME NEW k \in 0..L
      PROVE  /\ at(k) \in Cursors /\ at(k).tracked = w[k][1] /\ at(k).i = w[k][2]
             /\ at(k).started = (k < L) /\ f[at(k)] = Following(f, allowed, at(k))
             /\ w[k][1] \in Names /\ w[k][2] \in Nat
             /\ \A i \in DOMAIN shards[w[k][1]] :
                  shards[w[k][1]][i] \in HistoryRecords /\ Concerns(shards[w[k][1]][i], w[k][1])
  <2>1. w[k][1] \in Names /\ w[k][2] \in Nat
    BY <1>1, <1>3
  <2>2. /\ at(k) \in Cursors /\ at(k).tracked = w[k][1] /\ at(k).i = w[k][2]
        /\ at(k).started = (k < L)
    BY <2>1 DEF Cursor, Cursors
  <2>3. f[at(k)] = Following(f, allowed, at(k))
    <3> HIDE DEF at
    <3> QED
      BY <2>2, LineageFollows
  <2> QED
    BY <2>1, <2>2, <2>3 DEF Settled
<1> HIDE DEF f
<1>4. f[at(h)] = <<>>
  <2> DEFINE c == at(h)
             a == w[h][1]
             i == w[h][2]
             r == shards[a][i]
  <2>1. /\ c \in Cursors /\ c.tracked = a /\ c.i = i /\ c.started = (h < L)
        /\ f[c] = Following(f, allowed, c)
        /\ \A j \in DOMAIN shards[a] : shards[a][j] \in HistoryRecords /\ Concerns(shards[a][j], a)
    BY <1>3
  <2> SUFFICES f[c] = <<>>
    OBVIOUS
  <2> HIDE DEF c
  <2>2. /\ i \notin DOMAIN shards[a] => Following(f, allowed, c) = <<>>
        /\ i \in DOMAIN shards[a] =>
             /\ Outgoing(r, a) /\ c.started => Following(f, allowed, c) = <<>>
             /\ Incoming(r, a) /\ r.from \notin allowed => Following(f, allowed, c) = <<>>
    BY <2>1, FollowingIs
  <2>3. CASE h > 0
    <3>1. h \in 1..L /\ h \in DOMAIN t
      BY <1>1, <2>3
    <3>2. i \in DOMAIN shards[a] /\ r = t[h] /\ r.action = "move" /\ r.from \notin allowed /\ Concerns(r, a)
      BY <1>1, <2>1, <2>3, <3>1
    <3>3. Outgoing(r, a) => FALSE
      <4>1. CASE h < L
        <5>1. h \in 1..(L - 1)
          BY <1>1, <3>1, <4>1
        <5> QED
          BY <1>1, <3>2, <5>1
      <4>2. CASE h = L
        <5>1. a = p
          BY <1>1, <4>2
        <5> QED
          BY <3>2, <5>1 DEF Outgoing
      <4>3. h < L \/ h = L
        <5>1. L \in Nat /\ h \in 0..L
          BY <1>1
        <5> HIDE DEF L
        <5> QED
          BY <5>1
      <4> QED
        BY <4>1, <4>2, <4>3
    <3>4. Incoming(r, a)
      BY <3>2, <3>3 DEF Concerns, Outgoing, Incoming
    <3> HIDE DEF r, a, i
    <3> QED
      BY <2>1, <2>2, <3>2, <3>4
  <2>4. CASE h = 0
    <3>1. i = 0 \/ (i \in DOMAIN shards[a] /\ Outgoing(r, a))
      BY <1>1, <2>4 DEF Begins
    <3>2. i = 0 => i \notin DOMAIN shards[a]
      <4>1. a \in Names
        BY <1>3
      <4>2. DOMAIN shards[a] = 1..Len(shards[a])
        BY <4>1 DEF Settled
      <4> HIDE DEF a, i
      <4> QED
        BY <4>2
    <3>3. CASE L = 0
      <4>1. t = <<>>
        BY <3>3
      <4>2. a = p /\ i = Len(shards[p]) /\ shards[p] = <<>>
        BY <1>1, <2>4, <3>3, <4>1
      <4>3. i = 0
        BY <4>2
      <4> HIDE DEF r, a, i
      <4> QED
        BY <2>1, <2>2, <3>2, <4>3
    <3>4. CASE L # 0
      <4>1. h < L
        BY <1>1, <2>4, <3>4
      <4>2. c.started
        BY <2>1, <4>1
      <4> HIDE DEF r, a, i
      <4> QED
        BY <2>1, <2>2, <3>1, <3>2, <4>2
    <3> QED
      BY <3>3, <3>4
  <2> QED
    BY <2>3, <2>4
<1>5. ASSUME NEW k \in h + 1..L, f[at(k - 1)] = SubSeq(t, h + 1, k - 1)
      PROVE  f[at(k)] = SubSeq(t, h + 1, k)
  <2> DEFINE c == at(k)
             a == w[k][1]
             i == w[k][2]
             b == w[k - 1][1]
             j == w[k - 1][2]
             r == t[k]
  <2>1. /\ k \in 1..L /\ k \in 0..L /\ k - 1 \in 0..L /\ k - 1 < L /\ k \in DOMAIN t /\ k \in Nat
        /\ (k < L => k \in 1..(L - 1)) /\ h + 1 \in Nat \ {0}
    BY <1>1
  <2>2. /\ c \in Cursors /\ c.tracked = a /\ c.i = i /\ c.started = (k < L)
        /\ f[c] = Following(f, allowed, c) /\ a \in Names /\ i \in Nat
        /\ \A m \in DOMAIN shards[a] : shards[a][m] \in HistoryRecords /\ Concerns(shards[a][m], a)
    BY <1>3, <2>1
  <2>3. i \in DOMAIN shards[a] /\ shards[a][i] = r /\ Enters(shards, r, w[k], w[k - 1])
    BY <1>1, <2>1
  <2>4. b \in Names /\ j \in Nat
    BY <1>3, <2>1
  <2>5. at(k - 1) = Cursor(b, j, TRUE)
    BY <2>1
  <2> HIDE DEF at, c
  <2>6. /\ Incoming(r, a) /\ r.from \in allowed =>
             Following(f, allowed, c) = Append(IF Goes(c) THEN f[Onward(c)] ELSE <<>>, r)
        /\ ~Incoming(r, a) /\ ~(Outgoing(r, a) /\ c.started) =>
             Following(f, allowed, c) = Append(f[Onward(c)], r)
    <3>1. /\ Incoming(shards[a][i], a) /\ shards[a][i].from \in allowed =>
               Following(f, allowed, c) = Append(IF Goes(c) THEN f[Onward(c)] ELSE <<>>, shards[a][i])
          /\ ~Incoming(shards[a][i], a) /\ ~(Outgoing(shards[a][i], a) /\ c.started) =>
               Following(f, allowed, c) = Append(f[Onward(c)], shards[a][i])
      <4> HIDE DEF a, i, r
      <4>1. /\ c \in Cursors /\ c.tracked = a /\ c.i = i /\ i \in DOMAIN shards[a]
            /\ \A m \in DOMAIN shards[c.tracked] :
                 shards[c.tracked][m] \in HistoryRecords /\ Concerns(shards[c.tracked][m], c.tracked)
        BY <2>2, <2>3
      <4> QED
        BY <4>1, FollowingIs
    <3> HIDE DEF a, i, r
    <3> QED
      BY <2>3, <3>1
  <2>7. Append(f[Cursor(b, j, TRUE)], r) = SubSeq(t, h + 1, k)
    <3>1. SubSeq(t, h + 1, k) = Append(SubSeq(t, h + 1, k - 1), r)
      BY <2>1, SubSeqGrows
    <3> QED
      BY <1>5, <2>5, <3>1
  <2>8. CASE Incoming(r, a)
    <3>1. r.from \in allowed
      BY <2>8 DEF Incoming
    <3>2. /\ b = r.from /\ j + 1 \in DOMAIN shards[b] /\ shards[b][j + 1] = r
          /\ \A m \in 1..j : shards[b][m] # r
      BY <2>3, <2>8 DEF Enters
    <3>3. Departures(r) = {m \in DOMAIN shards[b] : shards[b][m] = r}
      BY <3>2 DEF Departures
    <3>4. DOMAIN shards[b] = 1..Len(shards[b]) /\ Len(shards[b]) \in Nat
      BY <2>4 DEF Settled
    <3> HIDE DEF a, b, i, j, r
    <3>5. j + 1 \in Departures(r) /\ Departures(r) \subseteq Nat /\ Departures(r) # {}
      BY <3>2, <3>3, <3>4
    <3>6. \A m \in Departures(r) : j + 1 <= m
      BY <2>4, <3>2, <3>3, <3>4
    <3>7. Min(Departures(r)) = j + 1
      <4>1. Min(Departures(r)) \in Departures(r) /\ \A m \in Departures(r) : Min(Departures(r)) <= m
        BY <3>5, LeastOf
      <4> QED
        BY <2>4, <3>5, <3>6, <4>1
    <3>8. Goes(c)
      BY <2>2, <2>3, <3>5 DEF Goes
    <3>9. Onward(c) = Cursor(b, j, TRUE)
      <4>1. Onward(c) = Cursor(r.from, Min(Departures(r)) - 1, TRUE)
        BY <2>2, <2>3, <2>8 DEF Onward
      <4>2. (j + 1) - 1 = j
        BY <2>4
      <4> QED
        BY <3>2, <3>7, <4>1, <4>2
    <3>10. f[c] = Append(f[Cursor(b, j, TRUE)], r)
      BY <2>2, <2>6, <2>8, <3>1, <3>8, <3>9
    <3> QED
      BY <2>7, <3>10 DEF c
  <2>9. CASE ~Incoming(r, a)
    <3>1. b = a /\ j = i - 1
      BY <2>3, <2>9 DEF Enters
    <3>2. ~(Outgoing(r, a) /\ c.started)
      BY <1>1, <2>1, <2>2
    <3>3. Onward(c) = Cursor(a, i - 1, TRUE)
      BY <2>2, <2>3, <2>9 DEF Onward
    <3> HIDE DEF a, b, i, j, r
    <3>4. f[c] = Append(f[Cursor(b, j, TRUE)], r)
      BY <2>2, <2>6, <2>9, <3>1, <3>2, <3>3
    <3> QED
      BY <2>7, <3>4 DEF c
  <2> QED
    BY <2>8, <2>9
<1>6. SubSeq(t, h + 1, h) = <<>>
  <2>1. /\ h \in Nat /\ h + 1 \in Nat \ {0} /\ ~(h + 1 <= h)
    BY <1>1
  <2>2. SubSeq(t, h + 1, h) \in Seq(HistoryRecords) /\ Len(SubSeq(t, h + 1, h)) = 0
    BY <2>1, SubSeqMembers
  <2> QED
    BY <2>2
<1> DEFINE Good == {d \in 0..(L - h) : f[at(h + d)] = SubSeq(t, h + 1, h + d)}
<1>7. 0 \in Good /\ L - h \in Nat /\ h \in Nat
  <2>1. h + 0 = h /\ L - h \in Nat /\ h \in Nat /\ 0 \in 0..(L - h)
    BY <1>1
  <2> HIDE DEF at
  <2> QED
    BY <1>4, <1>6, <2>1
<1>8. ASSUME NEW d \in 1..(L - h), d - 1 \in Good PROVE d \in Good
  <2>1. h + d \in h + 1..L /\ (h + d) - 1 = h + (d - 1) /\ d \in 0..(L - h)
    BY <1>1
  <2> HIDE DEF at
  <2>2. f[at((h + d) - 1)] = SubSeq(t, h + 1, (h + d) - 1)
    BY <1>8, <2>1
  <2> QED
    BY <1>5, <2>1, <2>2
<1>9. \A d \in 0..(L - h) : d \in Good
  <2> HIDE DEF Good
  <2> QED
    BY <1>7, <1>8, UpTo
<1>10. ASSUME NEW k \in h..L PROVE f[at(k)] = SubSeq(t, h + 1, k)
  <2>1. k - h \in 0..(L - h) /\ h + (k - h) = k
    BY <1>1
  <2> HIDE DEF at
  <2>2. f[at(h + (k - h))] = SubSeq(t, h + 1, h + (k - h))
    BY <1>9, <2>1
  <2> QED
    BY <2>1, <2>2
<1> QED
  BY <1>10 DEF f

\* A query that follows a file tells what its reader may see of the trail.
LEMMA FileIsFollowed ==
  ASSUME HistoryInvariant
  PROVE  FollowsTheFile
<1> SUFFICES ASSUME recorder = "up", NEW p \in Names, NEW allowed \in SUBSET Names, Intact(p)
             PROVE  QueryFile(p, allowed) = Told(p, allowed)
  BY DEF FollowsTheFile
<1>1. Settled /\ Filed = shards /\ IWalk
  BY UpIsSettled
<1>2. CASE p \notin allowed
  BY <1>2 DEF QueryFile, Told
<1>3. CASE p \in allowed
  <2> DEFINE t == trail[p]
             hidden == {i \in DOMAIN t : t[i].action = "move" /\ t[i].from \notin allowed}
             h == Max({0} \cup hidden)
             L == Len(t)
  <2>1. PICK w : WalksTo(shards, t, w, p)
    BY <1>1 DEF IWalk
  <2>2. t \in Seq(HistoryRecords)
    BY DEF HistoryInvariant, ITyped
  <2>3. L \in Nat /\ DOMAIN t = 1..L
    BY <2>2
  <2>4. h \in {0} \cup hidden /\ \A x \in {0} \cup hidden : x <= h
    <3> DEFINE T == {0} \cup hidden
    <3>1. T \subseteq 0..L /\ T # {}
      BY <2>3
    <3> HIDE DEF T
    <3>2. Max(T) \in T /\ \A x \in T : x <= Max(T)
      BY <2>3, <3>1, LargestOf
    <3> QED
      BY <3>2 DEF T
  <2> HIDE DEF h, t, L
  <2>5. h \in 0..L /\ h \in Nat
    <3>1. hidden \subseteq 1..L
      BY <2>3
    <3> HIDE DEF hidden
    <3> QED
      BY <2>3, <2>4, <3>1
  <2>6. h > 0 => t[h].action = "move" /\ t[h].from \notin allowed
    BY <2>4
  <2>7. \A k \in h + 1..L : t[k].action = "move" => t[k].from \in allowed
    <3> SUFFICES ASSUME NEW k \in h + 1..L, t[k].action = "move", t[k].from \notin allowed PROVE FALSE
      OBVIOUS
    <3>1. k \in hidden /\ ~(k <= h)
      BY <2>3, <2>5
    <3> QED
      BY <2>4, <3>1
  <2>8. Lineage(allowed)[Cursor(w[L][1], w[L][2], L < L)] = SubSeq(t, h + 1, L)
    <3>1. \A k \in h..L :
            Lineage(allowed)[Cursor(w[k][1], w[k][2], k < L)] = SubSeq(t, h + 1, k)
      BY <1>1, <1>3, <2>1, <2>2, <2>5, <2>6, <2>7, StoryOfWalk, SMTT(60) DEF L
    <3>2. L \in h..L
      BY <2>3, <2>5
    <3> QED
      BY <3>1, <3>2
  <2>9. Cursor(w[L][1], w[L][2], L < L) = Cursor(p, Len(shards[p]), FALSE)
    <3>1. w[L] = <<p, Len(shards[p])>>
      BY <2>1 DEF WalksTo, L
    <3>2. (L < L) = FALSE
      BY <2>3
    <3> HIDE DEF t
    <3>3. w[L][1] = p /\ w[L][2] = Len(shards[p])
      BY <3>1
    <3> QED
      BY <3>2, <3>3, Zenon
  <2>10. QueryFile(p, allowed) = Matches(SubSeq(t, h + 1, L), allowed)
    BY <1>3, <2>8, <2>9 DEF QueryFile
  <2>11. Told(p, allowed) = Matches(SubSeq(t, h + 1, L), allowed)
    BY <1>3 DEF Told, t, h, L
  <2> QED
    BY <2>10, <2>11
<1> QED
  BY <1>2, <1>3

\* The journal has what the shards have and what became of each file.
LEMMA JournalIsWhole ==
  ASSUME HistoryInvariant
  PROVE  IndexIsWhole
<1> SUFFICES ASSUME recorder \in {"up", "recording"}, NEW p \in Names
             PROVE  /\ Range(shards[p]) \subseteq Range(events)
                    /\ Intact(p) => Range(trail[p]) \subseteq Range(events)
  BY DEF IndexIsWhole
<1>1. IFiled /\ IWalk /\ ITyped /\ IConcern
  BY DEF HistoryInvariant, IHistory, Ready
<1>2. ASSUME NEW a \in Names, NEW i \in DOMAIN Filed[a] PROVE Filed[a][i] \in Range(events)
  <2>1. PICK e \in DOMAIN events : events[e] = Filed[a][i]
    BY <1>1, <1>2 DEF IFiled
  <2> QED
    BY <2>1 DEF Range
<1>3. ASSUME NEW i \in DOMAIN shards[p] PROVE shards[p][i] \in Range(events)
  <2> DEFINE s == shards[p]
             t == pending[p]
  <2>1. Filed[p] = s \o t /\ s \in Seq(HistoryRecords) /\ t \in Seq(HistoryRecords)
    BY <1>1 DEF Filed, ITyped
  <2>2. i \in DOMAIN Filed[p] /\ Filed[p][i] = s[i]
    <3> HIDE DEF s, t
    <3>1. i \in DOMAIN (s \o t) /\ (s \o t)[i] = s[i]
      <4>1. i \in DOMAIN s
        BY <1>3 DEF s
      <4> QED
        BY <2>1, <4>1
    <3> QED
      BY <2>1, <3>1
  <2> QED
    BY <1>2, <2>2
<1>4. ASSUME Intact(p), NEW k \in DOMAIN trail[p] PROVE trail[p][k] \in Range(events)
  <2>1. PICK w : WalksTo(Filed, trail[p], w, p)
    BY <1>1, <1>4 DEF IWalk
  <2>2. trail[p] \in Seq(HistoryRecords)
    BY <1>1 DEF ITyped
  <2>3. k \in 1..Len(trail[p]) /\ k \in 0..Len(trail[p])
    BY <1>4, <2>2
  <2>4. /\ w[k][1] \in Names /\ w[k][2] \in DOMAIN Filed[w[k][1]]
        /\ Filed[w[k][1]][w[k][2]] = trail[p][k]
    BY <2>1, <2>3 DEF WalksTo, Walk
  <2> QED
    BY <1>2, <2>4
<1> QED
  BY <1>3, <1>4 DEF Range

(* A query that follows a file tells its story and nobody else's, as far     *)
(* back as its reader may see; the pages of the journal are exact; and the   *)
(* journal and the shards agree: Record, Query, followMoves and the          *)
(* migration of history.go.                                                  *)
THEOREM HistoryStaysTrue == HistorySpec => []HistoryIsTrue
<1>1. HistoryInvariant => HistoryIsTrue
  <2> SUFFICES ASSUME HistoryInvariant PROVE HistoryIsTrue
    OBVIOUS
  <2>1. FollowsTheFile /\ IndexIsWhole
    BY FileIsFollowed, JournalIsWhole
  <2>2. PagesAreExact
    BY DEF HistoryInvariant, IPage, PagesAreExact
  <2>3. HistoryTypeOK
    BY DEF HistoryInvariant, ITyped, IConcern, HistoryTypeOK
  <2> QED
    BY <2>1, <2>2, <2>3 DEF HistoryIsTrue
<1> QED
  BY <1>1, HistoryStarts, HistoryKept, PTL DEF HistorySpec
=============================================================================
