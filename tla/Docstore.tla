------------------------------ MODULE Docstore ------------------------------
(***************************************************************************)
(* The document store (docstore.go, docstore_history.go) with the machines *)
(* that sync folders into it (internal/lore/sync.go), the server's own     *)
(* snapshots of what agents write, and the collection of blobs nothing     *)
(* names any more (history_blobs.go).                                      *)
(*                                                                         *)
(* Every handler holds docstoreMu and works on the files, so it is one     *)
(* step; what can come between its writes is a fault.  A sync is several   *)
(* requests of one machine, and the machine gives up on a request without  *)
(* knowing whether the server has done it, or will.                        *)
(*                                                                         *)
(* A manifest maps paths to blobs.  The id of a snapshot is a hash of its  *)
(* manifest and its parent's id; here it is the manifest with the number   *)
(* of snapshots before it, which names the parent since none is removed.   *)
(***************************************************************************)
EXTENDS Naturals, Sequences, FiniteSets, Functions

CONSTANTS
  Machines,     \* each runs lore sync for one folder
  Owner,        \* the identity each machine has logged in with
  SyncStores,   \* stores of the docstore that machines sync to
  NativeStore,  \* the store of the one docset agents write to
  Manifests,    \* what a folder or the docset may hold
  PendingCap,   \* snapshots a store may have pending: 16
  MaxEdits, MaxNative, MaxMishaps    \* bounds

Nobody == "nobody"
DocsetPaths == UNION {DOMAIN m : m \in Manifests}
Blobs == UNION {Range(m) : m \in Manifests}

\* The owner of a store without one is the empty name, which no request has
\* (docstore.go:334).
ASSUME DocstoreAssumption ==
  /\ NativeStore \notin SyncStores
  /\ \A c \in Machines : Owner[c] # Nobody
  /\ \A m \in Manifests : m \in [DOMAIN m -> Range(m)]
  /\ "none" \notin Blobs
  /\ PendingCap \in Nat \ {0} /\ {MaxEdits, MaxNative, MaxMishaps} \subseteq Nat

VARIABLES
  stores,    \* the state file of each store: see NoState
  objects,   \* blobs in the blob store
  target,    \* the store each machine syncs to
  folder,    \* what each machine has in its folder
  unsynced,  \* machines whose user has to run lore sync
  sync,      \* the sync each machine is in: see NoSync
  overdue,      \* requests a machine gave up on that the server may still get
  docset,    \* the docset's tree
  sent,      \* ghost: blobs whose bytes each identity has sent
  told,      \* ghost: the last snapshot each machine was told is published
  behind,    \* ghost: docset paths whose last write was not recorded
  edits, natives, mishaps
serverVars == <<stores, objects, sent>>
nativeVars == <<docset, behind, natives>>
machineVars == <<folder, unsynced, sync, told, edits>>
docstoreVars == <<serverVars, target, machineVars, overdue, nativeVars, mishaps>>

AllStores == SyncStores \cup {NativeStore}
Server == "openlore"
NoManifest == <<>>
NoState == [owner |-> Nobody, snapshots |-> <<>>, pending |-> {}, uploaded |-> {}]
NoSync == [at |-> "idle", files |-> NoManifest, parent |-> 0, missing |-> {}]

Hashes(id) == Range(id.files)
Id(c) == [parent |-> sync[c].parent, files |-> sync[c].files]
Latest(st) == IF st.snapshots = <<>> THEN NoManifest ELSE st.snapshots[Len(st.snapshots)].files
Committed(st, id) == id \in Range(st.snapshots)
Current(st, id) == id.parent = Len(st.snapshots)
Named(st) == UNION {Hashes(id) : id \in Range(st.snapshots)}

\* authorizedSourceBlobs: being in the blob store proves nothing.
Authorized(st) == st.uploaded \cup Named(st)

Mishap == mishaps < MaxMishaps /\ mishaps' = mishaps + 1
-----------------------------------------------------------------------------
(* The server's handlers: what a request of one identity leaves on disk. *)

\* Docstore.prepare: the answers that come before the manifest is saved.
Refused(st, by, id) ==
  \/ st.owner \notin {Nobody, by}
  \/ ~Committed(st, id) /\ ~Current(st, id)
  \/ ~Committed(st, id) /\ Cardinality(st.pending) >= PendingCap /\ id \notin st.pending
Missing(st, id) == {b \in Hashes(id) : b \notin objects \/ b \notin Authorized(st)}
Prepared(st, by, id) ==
  IF Committed(st, id) THEN st
  ELSE [st EXCEPT !.owner = by, !.pending = @ \cup {id}]

\* PUT of a blob: the owned stores with a pending snapshot that asks for it.
Asking(by, b) ==
  {s \in AllStores : stores[s].owner = by /\ \E id \in stores[s].pending : b \in Hashes(id)}
Proved(ss, b) ==
  [s \in AllStores |-> IF s \in ss THEN [stores[s] EXCEPT !.uploaded = @ \cup {b}] ELSE stores[s]]

\* Docstore.commit, and commitUploaded for a client.
Committable(st, by, id) ==
  /\ st.owner = by
  /\ Committed(st, id) \/ (id \in st.pending /\ Current(st, id) /\ Hashes(id) \subseteq objects)
HasProof(st, id) == id \in st.pending => Hashes(id) \subseteq Authorized(st)
\* Mutant: a publication leaves what else was pending.
PublishedBesides(st, id) ==
  IF Committed(st, id) THEN st
  ELSE [st EXCEPT !.snapshots = Append(@, id), !.pending = @ \ {id}]

Published(st, id) ==
  IF Committed(st, id) THEN st
  ELSE [st EXCEPT !.snapshots = Append(@, id), !.pending = {}]

Put(s, st) == stores' = [stores EXCEPT ![s] = st]
-----------------------------------------------------------------------------
(* The machines: Repository.SyncSource, one request after the other. *)

Goes(c, at, missing) ==
  /\ sync' = [sync EXCEPT ![c].at = at, ![c].missing = missing]
  /\ UNCHANGED <<folder, unsynced, told, edits>>
Fails(c) == sync' = [sync EXCEPT ![c] = NoSync] /\ UNCHANGED <<folder, unsynced, told, edits>>

\* The sync ends well: the machine knows which snapshot holds its files.
Ends(c, id) ==
  /\ sync' = [sync EXCEPT ![c] = NoSync] /\ told' = [told EXCEPT ![c] = {id}]
  /\ unsynced' = IF folder[c] = id.files THEN unsynced \ {c} ELSE unsynced
  /\ UNCHANGED <<folder, edits>>
OnlyMachine == UNCHANGED <<serverVars, target, overdue, nativeVars, mishaps>>
OnlyRequest == UNCHANGED <<target, overdue, nativeVars>>

\* ScanSource keeps the bytes, so what follows is about one state of the folder.
Scan(c) ==
  /\ sync[c].at = "idle" /\ c \in unsynced
  /\ sync' = [sync EXCEPT ![c] = [NoSync EXCEPT !.at = "list", !.files = folder[c]]]
  /\ UNCHANGED <<folder, unsynced, told, edits>> /\ OnlyMachine

\* The machine sees the latest snapshot of a store that it owns.
List(c) ==
  LET st   == stores[target[c]]
      seen == IF st.owner = Owner[c] THEN Len(st.snapshots) ELSE 0
  IN /\ sync[c].at = "list" /\ OnlyMachine
     /\ IF seen > 0 /\ Latest(st) = sync[c].files
        THEN Ends(c, st.snapshots[seen])
        ELSE /\ sync' = [sync EXCEPT ![c].at = "prepare", ![c].parent = seen]
             /\ UNCHANGED <<folder, unsynced, told, edits>>

\* What a machine does next when it has these blobs still to upload.
Uploads(c, missing) == Goes(c, IF missing = {} THEN "commit" ELSE "upload", missing)

\* A handler's save can fail before its rename and after it: the answer is an
\* error in both cases.
Prepare(c) ==
  LET s == target[c]  st == stores[s]  id == Id(c)
  IN /\ sync[c].at = "prepare" /\ OnlyRequest /\ UNCHANGED <<objects, sent>>
     /\ \/ Refused(st, Owner[c], id) /\ Fails(c) /\ UNCHANGED <<stores, mishaps>>
        \/ /\ ~Refused(st, Owner[c], id) /\ Put(s, Prepared(st, Owner[c], id))
           /\ \/ /\ Uploads(c, IF Committed(st, id) THEN {} ELSE Missing(st, id))
                 /\ UNCHANGED mishaps
              \/ ~Committed(st, id) /\ Mishap /\ Fails(c)

\* The bytes are stored before the proofs, one file for each store that asks.
Upload(c) ==
  \E b \in sync[c].missing :
    LET asking == Asking(Owner[c], b)
    IN /\ sync[c].at = "upload" /\ OnlyRequest
       /\ \/ asking = {} /\ Fails(c) /\ UNCHANGED <<serverVars, mishaps>>
          \/ /\ asking # {}
             /\ objects' = objects \cup {b} /\ sent' = sent \cup {<<Owner[c], b>>}
             /\ \/ /\ stores' = Proved(asking, b) /\ Uploads(c, sync[c].missing \ {b})
                   /\ UNCHANGED mishaps
                \/ Mishap /\ Fails(c) /\ \E saved \in SUBSET asking : stores' = Proved(saved, b)

Commit(c) ==
  LET s == target[c]  st == stores[s]  id == Id(c)
      allowed == HasProof(st, id) /\ Committable(st, Owner[c], id)
  IN /\ sync[c].at = "commit" /\ OnlyRequest /\ UNCHANGED <<objects, sent>>
     /\ \/ ~allowed /\ Fails(c) /\ UNCHANGED <<stores, mishaps>>
        \/ /\ allowed /\ Put(s, Published(st, id))
           /\ \/ Ends(c, id) /\ UNCHANGED mishaps
              \/ ~Committed(st, id) /\ Mishap /\ Fails(c)

\* The machine gives up, by its timeout of a minute or its user: the request it
\* has under way never arrives, or it does, now or later.
GiveUp(c) ==
  /\ sync[c].at # "idle" /\ Mishap /\ Fails(c)
  /\ \/ UNCHANGED overdue
     \/ /\ sync[c].at # "list"
        /\ \E b \in IF sync[c].at = "upload" THEN sync[c].missing ELSE {"none"} :
             overdue' = overdue \cup {[op |-> sync[c].at, by |-> c, id |-> Id(c), blob |-> b]}
  /\ UNCHANGED <<serverVars, target, nativeVars>>

\* The server serves a request nobody waits for any more.
ServeLate(r) ==
  LET s == target[r.by]  by == Owner[r.by]  st == stores[s]
  IN /\ overdue' = overdue \ {r}
     /\ CASE r.op = "prepare" ->
               /\ UNCHANGED <<objects, sent>>
               /\ Put(s, IF Refused(st, by, r.id) THEN st ELSE Prepared(st, by, r.id))
          [] r.op = "upload" ->
               /\ stores' = Proved(Asking(by, r.blob), r.blob)
               /\ IF Asking(by, r.blob) = {} THEN UNCHANGED <<objects, sent>>
                  ELSE objects' = objects \cup {r.blob} /\ sent' = sent \cup {<<by, r.blob>>}
          [] r.op = "commit" ->
               /\ UNCHANGED <<objects, sent>>
               /\ Put(s, IF HasProof(st, r.id) /\ Committable(st, by, r.id)
                         THEN Published(st, r.id) ELSE st)
     /\ UNCHANGED <<target, machineVars, nativeVars, mishaps>>

\* The folder changes, also while a sync goes on; the user will sync again.
EditFolder(c, files) ==
  /\ edits < MaxEdits /\ edits' = edits + 1 /\ files # folder[c]
  /\ folder' = [folder EXCEPT ![c] = files] /\ unsynced' = unsynced \cup {c}
  /\ UNCHANGED <<sync, told, serverVars, target, overdue, nativeVars, mishaps>>
-----------------------------------------------------------------------------
(* The server's own snapshots, and the collection. *)

\* A leaf of a commit applied to a manifest: it writes b to p, or removes p.
Written(files, p, b) == [x \in DOMAIN files \cup {p} |-> IF x = p THEN b ELSE files[x]]
Removed(files, p) == [x \in DOMAIN files \ {p} |-> files[x]]

\* snapshotNativeCommit: the first snapshot is of the docset as it is now, a
\* later one of the snapshot before with the leaf applied.
Recorded(st, after, leaf) ==
  IF st.snapshots = <<>> THEN after
  ELSE IF leaf.op = "remove" THEN Removed(Latest(st), leaf.path)
       ELSE Written(Latest(st), leaf.path, leaf.blob)

\* A commit of the write log to the docset, with its snapshot.  The files are
\* committed first; the snapshot can then fail before anything of it is durable,
\* when the blobs are there, or when the manifest is pending.
NativeCommit(leaf) ==
  LET st    == stores[NativeStore]
      after == IF leaf.op = "remove" THEN Removed(docset, leaf.path)
               ELSE Written(docset, leaf.path, leaf.blob)
      id    == [parent |-> Len(st.snapshots), files |-> Recorded(st, after, leaf)]
      ready == [st EXCEPT !.owner = Server, !.pending = @ \cup {id}]
      puts  == IF st.snapshots = <<>> THEN Range(after) ELSE {leaf.blob} \ {"none"}
  IN /\ natives < MaxNative /\ natives' = natives + 1
     /\ docset' = after /\ (leaf.op = "remove" => leaf.path \in DOMAIN docset)
     /\ \/ /\ objects' = objects \cup puts /\ Hashes(id) \subseteq objects'
           /\ Put(NativeStore, Published(ready, id))
           /\ behind' = IF st.snapshots = <<>> THEN {} ELSE behind \ {leaf.path}
           /\ UNCHANGED mishaps
        \/ /\ Mishap \/ (~(Hashes(id) \subseteq objects \cup puts) /\ UNCHANGED mishaps)
           /\ behind' = behind \cup {leaf.path}
           /\ \/ UNCHANGED stores /\ \E some \in SUBSET puts : objects' = objects \cup some
              \/ Put(NativeStore, ready) /\ objects' = objects \cup puts
     /\ UNCHANGED <<sent, target, machineVars, overdue>>

\* Mutant: only what is committed is spared.
KeptCommitted == UNION {Named(stores[s]) : s \in AllStores}

\* GarbageCollectHistoryBlobs spares what a state file names, committed or
\* pending; it may stop half way.
Kept == UNION {Named(stores[s]) \cup UNION {Hashes(id) : id \in stores[s].pending} : s \in AllStores}
CollectBlobs ==
  /\ \E gone \in SUBSET (objects \ Kept) \ {{}} : objects' = objects \ gone
  /\ UNCHANGED <<stores, sent, target, machineVars, overdue, nativeVars, mishaps>>
-----------------------------------------------------------------------------
DocstoreInit ==
  /\ stores = [s \in AllStores |-> NoState] /\ objects = {} /\ overdue = {}
  /\ target \in [Machines -> SyncStores]
  /\ folder \in [Machines -> Manifests] /\ unsynced \in SUBSET Machines
  /\ sync = [c \in Machines |-> NoSync]
  /\ docset \in Manifests
  /\ sent = {} /\ told = [c \in Machines |-> {}] /\ behind = {}
  /\ edits = 0 /\ natives = 0 /\ mishaps = 0

SyncStep(c) == Scan(c) \/ List(c) \/ Prepare(c) \/ Upload(c) \/ Commit(c)
Leaves == [op : {"write"}, path : DocsetPaths, blob : Blobs]
            \cup [op : {"remove"}, path : DocsetPaths, blob : {"none"}]

DocstoreNext ==
  \/ \E c \in Machines : SyncStep(c) \/ GiveUp(c) \/ \E m \in Manifests : EditFolder(c, m)
  \/ \E r \in overdue : ServeLate(r)
  \/ \E leaf \in Leaves : NativeCommit(leaf)
  \/ CollectBlobs

\* A sync that has begun goes on, and a user whose sync failed runs it again.
DocstoreFairness == \A c \in Machines : WF_docstoreVars(SyncStep(c))
DocstoreSpec == DocstoreInit /\ [][DocstoreNext]_docstoreVars /\ DocstoreFairness
-----------------------------------------------------------------------------
(* Properties *)

\* The state files and the syncs have their shape.
DocstoreTypeOK ==
  /\ objects \subseteq Blobs /\ overdue \in SUBSET [op : {"prepare", "upload", "commit"},
        by : Machines, id : [parent : Nat, files : Manifests], blob : Blobs \cup {"none"}]
  /\ \A s \in AllStores :
       /\ stores[s].owner = Nobody <=> stores[s].snapshots = <<>> /\ stores[s].pending = {}
       /\ s \in SyncStores => Cardinality(stores[s].pending) <= PendingCap
       /\ stores[s].uploaded \subseteq Blobs
  /\ \A c \in Machines :
       /\ sync[c].at \in {"idle", "list", "prepare", "upload", "commit"}
       /\ sync[c].missing \subseteq Range(sync[c].files)

\* "Syncs of the same store from two machines build on each other": every
\* snapshot was made on the one before it, whichever requests came late, so
\* none replaces a snapshot its machine had not seen.
SyncsBuildOnEachOther ==
  \A s \in AllStores : \A k \in 1..Len(stores[s].snapshots) : stores[s].snapshots[k].parent = k - 1

\* Every blob that a published snapshot names can be read, whatever was
\* collected; and in a client's store its owner has sent the bytes of each: a
\* blob another store holds is never published by its hash alone.
PublishedCanBeRead ==
  \A s \in AllStores : /\ Named(stores[s]) \subseteq objects
                       /\ s \in SyncStores => Named(stores[s]) \subseteq
                            {b \in Blobs : <<stores[s].owner, b>> \in sent}

\* What prepare told a machine it need not send, and what it has sent, stays
\* until its snapshot is committed or has lost to another.
AnswersToPrepareHold ==
  \A c \in Machines :
    sync[c].at \in {"upload", "commit"} /\ Id(c) \in stores[target[c]].pending
      => Hashes(Id(c)) \ sync[c].missing \subseteq objects \cap Authorized(stores[target[c]])

\* A snapshot a machine was told of is in the store's history.
ToldIsPublished == \A c \in Machines : \A id \in told[c] : Committed(stores[target[c]], id)

\* The docset's latest snapshot is the docset, but for the paths whose last
\* write met a fault between the files and the snapshot.
NativeHistoryFollows ==
  stores[NativeStore].snapshots # <<>> =>
    LET files == Latest(stores[NativeStore])
    IN  \A p \in DocsetPaths \ behind :
          /\ p \in DOMAIN files <=> p \in DOMAIN docset
          /\ p \in DOMAIN docset => files[p] = docset[p]

\* What the docstore has published stays, can be read, and is what was synced.
DocstoreKeepsItsWord ==
  /\ DocstoreTypeOK /\ SyncsBuildOnEachOther /\ PublishedCanBeRead
  /\ AnswersToPrepareHold /\ ToldIsPublished /\ NativeHistoryFollows

\* A machine that cannot succeed: the store belongs to another identity, or it
\* is full of manifests prepared on the latest snapshot that nobody commits.
ShutOut(c) ==
  LET st == stores[target[c]]
  IN  \/ st.owner \notin {Nobody, Owner[c]}
      \/ Cardinality({id \in st.pending : Current(st, id)}) >= PendingCap

\* "A snapshot whose parent is stale is rejected, and the next lore sync
\* succeeds": whoever goes on syncing gets through in the end, over conflicts,
\* lost requests, failed saves and collections, unless it is shut out for good.
SyncsSucceed == \A c \in Machines : []<>(c \notin unsynced) \/ <>[]ShutOut(c)
=============================================================================
