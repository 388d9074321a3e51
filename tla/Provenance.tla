----------------------------- MODULE Provenance -----------------------------
(* The provenance history (pkg/openlore/history.go): what the applier's     *)
(* records of a commit become, a global journal and a shard for each path,  *)
(* how a query follows a file through its moves and reads a page at a time, *)
(* and the migration that builds the index from a journal of commits.       *)
EXTENDS Naturals, Sequences, SequencesExt, FiniteSetsExt, TLC

CONSTANTS
  Names,           \* paths a file can have
  Nowhere,         \* no path
  LegacyJournals,  \* journals of commits an older server may have left
  PageSize,        \* records on a page
  MaxCommits,      \* bound: commits of the server, those of its journal included
  MaxLosses,       \* bound: appends that fail
  MaxRestarts      \* bound: crashes of the process

\* The leaves of a change set that has been committed: writes and removals.
CommittedLeaves == [action : {"write", "remove"}, path : Names]

ASSUME HistoryAssumption ==
  /\ Nowhere \notin Names
  /\ LegacyJournals \subseteq Seq(Seq(CommittedLeaves))
  /\ \A journal \in LegacyJournals : Len(journal) <= MaxCommits
  /\ PageSize \in Nat \ {0} /\ MaxCommits \in Nat

VARIABLES
  present,   \* paths that have a file (durable)
  commits,   \* commits.jsonl: the leaves of each commit, in order (durable)
  events,    \* events.jsonl, <<>> while there is none (durable)
  indexed,   \* whether events.jsonl exists (durable)
  shards,    \* the journal of each path (durable)
  recorder,  \* "down", "cleared" and "filed" in a migration, "recording", "up"
  pending,   \* what Record has still to append to the shards
  page,      \* a reader of the global journal
  trail,     \* for checking: the records of each path's file, oldest first
  gone,      \* for checking: paths whose file has moved away and none came since
  untold,    \* for checking: paths whose shard lacks a record
  losses, restarts

historyVars == <<present, commits, events, indexed, shards, recorder, pending, page,
                 trail, gone, untold, losses, restarts>>

\* A record of a commit: a write, a removal, or a move of a file to path.
Rec(n, what, p, q) == [commit |-> n, action |-> what, path |-> p, from |-> q]
Concerns(r, p) == r.path = p \/ r.from = p
NoPending == [p \in Names |-> <<>>]

\* The members of s that are in T, in their order.
Kept(s, T) ==
  LET kept[i \in 0..Len(s)] ==
        IF i = 0 THEN <<>>
        ELSE IF s[i] \in T THEN Append(kept[i - 1], s[i]) ELSE kept[i - 1]
  IN  kept[Len(s)]

NoPage == [roots |-> {}, boundary |-> 0, offset |-> 0, seen |-> <<>>, first |-> <<>>]
-----------------------------------------------------------------------------
(* Record *)

Leaf(what, p) == [action |-> what, path |-> p]

\* What a change set becomes: an edit, a removal of files, or a move, whose
\* destination may be written once more in the same batch.
Change(n, kind, p, q, ps) ==
  CASE kind = "write" -> <<Rec(n, "write", p, Nowhere)>>
    [] kind = "remove" -> [i \in 1..Cardinality(ps) |->
                             Rec(n, "remove", SetToSeq(ps)[i], Nowhere)]
    [] kind = "move" -> <<Rec(n, "move", p, q)>>
    [] kind = "moveThenWrite" -> <<Rec(n, "move", p, q), Rec(n, "write", p, Nowhere)>>
Leaves(kind, p, q, ps) ==
  CASE kind = "write" -> <<Leaf("write", p)>>
    [] kind = "remove" -> [i \in 1..Cardinality(ps) |-> Leaf("remove", SetToSeq(ps)[i])]
    [] kind = "move" -> <<Leaf("write", p), Leaf("remove", q)>>
    [] kind = "moveThenWrite" -> <<Leaf("write", p), Leaf("remove", q), Leaf("write", p)>>

\* Mutant: a move is indexed at its destination alone.
IndexedAtDestination(r) == {r.path}

\* The shards a record goes to: that of its path, and that of a move's source.
IndexedAt(r) == {r.path} \cup (IF r.action = "move" THEN {r.from} ELSE {})

\* The applier has committed a change set and appended it to its journal; the
\* recorder's turn comes next, under its lock.
RecordCommit(kind, p, q, ps) ==
  /\ recorder = "up" /\ Len(commits) < MaxCommits
  /\ LET recs == Change(Len(commits) + 1, kind, p, q, ps)
         about(x) == Kept(recs, {r \in Range(recs) : Concerns(r, x)})
         own(x) == IF x \in gone THEN <<>> ELSE trail[x]
     IN  /\ commits' = Append(commits, Leaves(kind, p, q, ps))
         \* For checking: a move takes the file's records along, and a path it
         \* left starts afresh with its next file.  A file that is removed
         \* leaves its records to the path.
         /\ trail' = [x \in Names |->
                        IF about(x) = <<>> THEN trail[x]
                        ELSE own(IF x = p /\ q # Nowhere THEN q ELSE x) \o about(x)]
         /\ gone' = {x \in gone : about(x) = <<>>} \cup ({q} \cap Names)
         \* The global journal first.  An append that fails may have made the
         \* file, may have written, and ends the recording.
         /\ \/ events' = events \o recs /\ indexed' = TRUE /\ recorder' = "recording"
               /\ pending' = [x \in Names |-> Kept(recs, {r \in Range(recs) : x \in IndexedAt(r)})]
               /\ UNCHANGED <<untold, losses>>
            \/ \E i \in 0..Len(recs) : events' = events \o SubSeq(recs, 1, i)
               /\ indexed' \in {indexed, TRUE} /\ (i > 0 => indexed')
               /\ losses < MaxLosses /\ losses' = losses + 1
               /\ UNCHANGED <<pending, recorder>>
               /\ untold' = untold \cup {x \in Names : \E j \in DOMAIN recs : Concerns(recs[j], x)}
  /\ present' = CASE kind = "write" -> present \cup {p}
                  [] kind = "remove" -> present \ ps
                  [] OTHER -> (present \ {q}) \cup {p}
  /\ UNCHANGED <<shards, page, restarts>>

RecordWrite(p) == RecordCommit("write", p, Nowhere, {})
RecordRemoval ==
  \E ps \in {{p} : p \in present} \cup ({present} \ {{}}) :
    RecordCommit("remove", Nowhere, Nowhere, ps)
RecordMove(q, p) ==
  \E kind \in {"move", "moveThenWrite"} :
    q \in present /\ p # q /\ RecordCommit(kind, p, q, {})

\* One shard after the other, in no order.  A failure ends the recording.
FileShard(p) ==
  /\ recorder = "recording" /\ pending[p] # <<>>
  /\ \/ shards' = [shards EXCEPT ![p] = @ \o pending[p]]
        /\ pending' = [pending EXCEPT ![p] = <<>>] /\ UNCHANGED <<untold, losses>>
     \/ losses < MaxLosses /\ losses' = losses + 1
        /\ untold' = untold \cup {x \in Names : pending[x] # <<>>}
        /\ pending' = NoPending
        /\ \E i \in 0..Len(pending[p]) :
             shards' = [shards EXCEPT ![p] = @ \o SubSeq(pending[p], 1, i)]
  /\ recorder' = IF pending' = NoPending THEN "up" ELSE recorder
  /\ UNCHANGED <<present, commits, events, indexed, page, trail, gone, restarts>>
-----------------------------------------------------------------------------
(* Start and migration *)

\* The records of a journal of commits have no commit ID: a removal purges
\* what its path has had, and a move is a write and a removal.
Legacy(ls) == [i \in DOMAIN ls |-> Rec(0, ls[i].action, ls[i].path, Nowhere)]
LegacyShard(p) ==
  LET all == Legacy(FlattenSeq(commits))
      purges == {i \in DOMAIN all : all[i].path = p /\ all[i].action = "remove"}
  IN  Kept(SubSeq(all, Max({0} \cup purges) + 1, Len(all)), {r \in Range(all) : r.path = p})

\* A start finds the index whole, or nothing to build one from.
StartReady ==
  /\ recorder = "down" /\ (indexed \/ commits = <<>>)
  /\ recorder' = "up"
  /\ UNCHANGED <<present, commits, events, indexed, shards, pending, page, trail, gone,
                 untold, losses, restarts>>

\* Or a journal of commits alone.  The index is built aside, unseen; what an
\* earlier migration has left of the shards goes before it is installed.
StartMigrating ==
  /\ recorder = "down" /\ ~indexed /\ commits # <<>>
  /\ shards' = NoPending /\ recorder' = "cleared"
  /\ UNCHANGED <<present, commits, events, indexed, pending, page, trail, gone, untold,
                 losses, restarts>>

\* The shards are installed, and at last the journal that marks it done.
InstallShards ==
  /\ recorder = "cleared" /\ recorder' = "filed"
  /\ shards' = [p \in Names |-> LegacyShard(p)]
  /\ UNCHANGED <<present, commits, events, indexed, pending, page, trail, gone, untold,
                 losses, restarts>>
InstallJournal ==
  /\ recorder = "filed" /\ recorder' = "up"
  /\ events' = Legacy(FlattenSeq(commits)) /\ indexed' = TRUE
  /\ trail' = [p \in Names |-> LegacyShard(p)] /\ gone' = {} /\ untold' = {}
  /\ UNCHANGED <<present, commits, shards, pending, page, losses, restarts>>

\* A crash; what Record had still to append is not recorded.
RecorderCrash ==
  /\ recorder # "down" /\ restarts < MaxRestarts
  /\ recorder' = "down" /\ restarts' = restarts + 1
  /\ untold' = untold \cup {p \in Names : pending[p] # <<>>}
  /\ pending' = NoPending
  /\ UNCHANGED <<present, commits, events, indexed, shards, page, trail, gone, losses>>
-----------------------------------------------------------------------------
(* Query *)

\* Where the shard of its source has a move.
Departures(r) == {j \in DOMAIN shards[r.from] : shards[r.from][j] = r}

\* followMoves, the loop over i: from the shard of the path it tracks, newest
\* first, the records of the file there, then those its source had before the
\* move.  started: some were found.
Cursor(tracked, i, started) == [tracked |-> tracked, i |-> i, started |-> started]
Lineage(roots) ==
  LET story[c \in [tracked : Names, i : Nat, started : BOOLEAN]] ==
        LET p == c.tracked
            r == shards[p][c.i]
            left == Departures(r)
        IN  CASE c.i \notin DOMAIN shards[p] -> <<>>
              [] c.i \in DOMAIN shards[p] /\ ~Concerns(r, p) ->
                   story[Cursor(p, c.i - 1, c.started)]
              [] OTHER ->
                   CASE r.action = "move" /\ r.from = p /\ c.started -> <<>>
                     [] r.action = "move" /\ r.path = p /\ r.from \notin roots -> <<>>
                     [] r.action = "move" /\ r.path = p /\ r.from \in roots ->
                          Append(IF left = {} THEN <<>>
                                 ELSE story[Cursor(r.from, Min(left) - 1, TRUE)], r)
                     [] OTHER -> Append(story[Cursor(p, c.i - 1, TRUE)], r)
  IN  story

\* The records that somebody who may read roots may see.
Readable(roots) ==
  [commit : Nat, action : {"write", "remove", "move"}, path : roots, from : roots \cup {Nowhere}]
Matches(recs, roots) == Kept(recs, Readable(roots))

\* Query of one path that follows its moves, for somebody who may read roots.
QueryFile(p, roots) ==
  IF p \notin roots THEN <<>>
  ELSE Matches(Lineage(roots)[Cursor(p, Len(shards[p]), FALSE)], roots)

\* A page starts where the one before ended, of the records there were at first.
PageStart(total) == page.boundary - page.offset

\* Query of the global journal: a first page, and the next ones by the cursor.
FirstPage(roots) ==
  /\ recorder = "up"
  /\ LET found == Matches(events, roots)
         newest == Reverse(SubSeq(found, Len(found) - PageSize + 1, Len(found)))
     IN  /\ Len(found) > PageSize
         /\ page' = [roots |-> roots, boundary |-> Len(found), offset |-> PageSize,
                     seen |-> newest, first |-> Reverse(found)]
  /\ UNCHANGED <<present, commits, events, indexed, shards, recorder, pending, trail, gone,
                 untold, losses, restarts>>
NextPage ==
  /\ recorder = "up" /\ page.offset < page.boundary
  /\ LET found == Matches(events, page.roots)
         start == PageStart(Len(found))
         end == IF start > PageSize THEN start - PageSize ELSE 0
     IN  page' = [page EXCEPT !.offset = @ + (start - end),
                              !.seen = @ \o Reverse(SubSeq(found, end + 1, start))]
  /\ UNCHANGED <<present, commits, events, indexed, shards, recorder, pending, trail, gone,
                 untold, losses, restarts>>
-----------------------------------------------------------------------------
HistoryInit ==
  /\ commits \in LegacyJournals
  /\ present = {p \in Names : LegacyShard(p) # <<>>}
  /\ events = <<>> /\ indexed = FALSE /\ shards = NoPending
  /\ recorder = "down" /\ pending = NoPending /\ page = NoPage
  /\ trail = NoPending /\ gone = {} /\ untold = {} /\ losses = 0 /\ restarts = 0

HistoryNext ==
  \/ \E p \in Names : RecordWrite(p) \/ FileShard(p) \/ \E q \in Names : RecordMove(q, p)
  \/ RecordRemoval
  \/ StartReady \/ StartMigrating \/ InstallShards \/ InstallJournal \/ RecorderCrash
  \/ \E roots \in SUBSET Names : FirstPage(roots)
  \/ NextPage

HistorySpec == HistoryInit /\ [][HistoryNext]_historyVars
-----------------------------------------------------------------------------
(* Properties *)

HistoryTypeOK ==
  /\ present \subseteq Names /\ gone \subseteq Names /\ untold \subseteq Names
  /\ Len(commits) <= MaxCommits /\ indexed \in BOOLEAN
  /\ recorder \in {"down", "cleared", "filed", "recording", "up"}
  /\ \A p \in Names : \A i \in DOMAIN shards[p] : Concerns(shards[p][i], p)
  /\ ~indexed => events = <<>>

\* What somebody who may read roots is to be told of a file: its records since
\* it last came from a path they may not read, those of unreadable paths left out.
Told(p, roots) ==
  LET t == trail[p]
      hidden == {i \in DOMAIN t : t[i].action = "move" /\ t[i].from \notin roots}
  IN  IF p \notin roots THEN <<>>
      ELSE Matches(SubSeq(t, Max({0} \cup hidden) + 1, Len(t)), roots)

\* No append of what a path's records concern was untold.
Intact(p) == \A x \in untold : x # p /\ \A i \in DOMAIN trail[p] : ~Concerns(trail[p][i], x)

\* A query that follows a file's moves tells its story and nobody else's: all
\* of it through reused names, round trips and overwritten files, as far back
\* as its reader may see, unless an append to one of its shards was untold.
FollowsTheFile ==
  recorder = "up" =>
    \A p \in Names, roots \in SUBSET Names :
      Intact(p) => QueryFile(p, roots) = Told(p, roots)

\* The pages of a walk are the records there were when it began, newest first,
\* each of them once, whatever has been committed since.
PagesAreExact ==
  page.seen = SubSeq(page.first, 1, page.offset)

\* While the server serves, the journal and the shards agree: no shard has a
\* record the journal lacks, and the journal has what became of every file.
IndexIsWhole ==
  recorder \in {"up", "recording"} =>
    \A p \in Names :
      /\ Range(shards[p]) \subseteq Range(events)
      /\ Intact(p) => Range(trail[p]) \subseteq Range(events)

\* The provenance history is whole after every start, follows each file, and
\* is read a page at a time without gaps.
HistoryIsTrue == HistoryTypeOK /\ FollowsTheFile /\ PagesAreExact /\ IndexIsWhole
=============================================================================
