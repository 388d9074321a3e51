--------------------------- MODULE Docstore_proofs ---------------------------
(***************************************************************************)
(* Theorems about the document store, for any machines, owners, stores and *)
(* manifests and any number of edits, commits and mishaps.                 *)
(***************************************************************************)
EXTENDS Docstore, SequenceTheorems, FiniteSetTheorems, TLAPS

Files == UNION {[D -> Blobs] : D \in SUBSET DocsetPaths}
Ids == [parent : Nat, files : Files]
Owners == {Owner[c] : c \in Machines} \cup {Nobody, Server}
States ==
  [owner : Owners, snapshots : Seq(Ids), pending : SUBSET Ids, uploaded : SUBSET Blobs]
Asked == [parent : Nat, files : Manifests]
Late == [op : {"prepare", "upload", "commit"}, by : Machines, id : Asked, blob : Blobs \cup {"none"}]
Syncs ==
  [at : {"idle", "list", "prepare", "upload", "commit"}, files : Manifests \cup {NoManifest},
   parent : Nat, missing : SUBSET Blobs]

ITypes ==
  /\ objects \subseteq Blobs /\ overdue \subseteq Late
  /\ target \in [Machines -> SyncStores] /\ folder \in [Machines -> Manifests]
  /\ sync \in [Machines -> Syncs] /\ told \in [Machines -> SUBSET Ids]
  /\ docset \in Files /\ stores \in [AllStores -> States]

(* A store s whose state file is st, with the blobs in o and the bytes that  *)
(* identities have sent, in b: a store without an owner has nothing, what is *)
(* pending was prepared on the latest snapshot, what is published is there,  *)
(* and a client's store is authorized for nothing its owner has not sent.    *)
Sound(s, st, o, b) ==
  /\ st \in States
  /\ st.owner = Nobody <=> st.snapshots = <<>> /\ st.pending = {}
  /\ st.owner = Nobody => st.uploaded = {}
  /\ s = NativeStore => st.owner \in {Nobody, Server}
  /\ s \in SyncStores => IsFiniteSet(st.pending) /\ Cardinality(st.pending) <= PendingCap
  /\ \A k \in 1..Len(st.snapshots) : st.snapshots[k].parent = k - 1
  /\ \A id \in st.pending : Current(st, id)
  /\ Named(st) \subseteq o
  /\ s \in SyncStores => \A x \in Authorized(st) : <<st.owner, x>> \in b
IStores == \A s \in AllStores : Sound(s, stores[s], objects, sent)

(* A machine c whose sync is y: what it has prepared on the latest snapshot  *)
(* is pending in a store of its owner.                                       *)
Prepares(y) == y.at \in {"upload", "commit"}
IdOf(y) == [parent |-> y.parent, files |-> y.files]
OnItsWay(c, y, st, o) ==
  /\ y.at # "idle" => y.files \in Manifests
  /\ y.missing \subseteq Range(y.files)
  /\ Prepares(y) =>
       /\ st.owner = Owner[c] /\ y.parent <= Len(st.snapshots)
       /\ Current(st, IdOf(y)) => IdOf(y) \in st.pending
       /\ IdOf(y) \in st.pending => Hashes(IdOf(y)) \ y.missing \subseteq o \cap Authorized(st)
IMachines ==
  /\ \A c \in Machines : OnItsWay(c, sync[c], stores[target[c]], objects)
  /\ ToldIsPublished

IInv == ITypes /\ IStores /\ IMachines /\ NativeHistoryFollows

(* What every handler leaves of a state file.                                *)
Evolves(st, new) ==
  /\ Range(st.snapshots) \subseteq Range(new.snapshots)
  /\ Len(st.snapshots) <= Len(new.snapshots)
  /\ st.uploaded \subseteq new.uploaded
  /\ st.owner # Nobody => new.owner = st.owner
  /\ \A id \in new.pending : id \in st.pending \/ Current(st, id)
  /\ Len(new.snapshots) = Len(st.snapshots) => st.pending \subseteq new.pending
-----------------------------------------------------------------------------
(* Manifests and sequences *)

LEMMA FilesAre ==
  ASSUME NEW f
  PROVE  f \in Files <=> /\ f = [x \in DOMAIN f |-> f[x]]
                         /\ DOMAIN f \subseteq DocsetPaths /\ Range(f) \subseteq Blobs
<1>1. ASSUME f \in Files
      PROVE  f = [x \in DOMAIN f |-> f[x]] /\ DOMAIN f \subseteq DocsetPaths /\ Range(f) \subseteq Blobs
  <2>1. PICK D \in SUBSET DocsetPaths : f \in [D -> Blobs]
    BY <1>1 DEF Files
  <2> QED
    BY <2>1 DEF Range
<1>2. ASSUME f = [x \in DOMAIN f |-> f[x]], DOMAIN f \subseteq DocsetPaths, Range(f) \subseteq Blobs
      PROVE  f \in Files
  <2>1. \A x \in DOMAIN f : f[x] \in Blobs
    BY <1>2 DEF Range
  <2>2. f \in [DOMAIN f -> Blobs]
    BY <1>2, <2>1
  <2> QED
    BY <1>2, <2>2 DEF Files
<1> QED
  BY <1>1, <1>2

LEMMA ManifestsAreFiles == Manifests \subseteq Files
<1> SUFFICES ASSUME NEW m \in Manifests PROVE m \in Files
  OBVIOUS
<1>1. m \in [DOMAIN m -> Range(m)]
  BY DocstoreAssumption
<1>2. m = [x \in DOMAIN m |-> m[x]]
  BY <1>1
<1>3. DOMAIN m \subseteq DocsetPaths /\ Range(m) \subseteq Blobs
  BY DEF DocsetPaths, Blobs
<1> QED
  BY <1>2, <1>3, FilesAre

LEMMA WrittenIs ==
  ASSUME NEW f \in Files, NEW p \in DocsetPaths, NEW x \in Blobs
  PROVE  /\ Written(f, p, x) \in Files
         /\ DOMAIN Written(f, p, x) = DOMAIN f \cup {p} /\ Written(f, p, x)[p] = x
         /\ \A q \in DOMAIN f \ {p} : Written(f, p, x)[q] = f[q]
         /\ Range(Written(f, p, x)) \subseteq Range(f) \cup {x}
<1> DEFINE w == Written(f, p, x)
<1>1. /\ w = [q \in DOMAIN f \cup {p} |-> IF q = p THEN x ELSE f[q]]
      /\ DOMAIN w = DOMAIN f \cup {p} /\ w[p] = x
      /\ \A q \in DOMAIN f \ {p} : w[q] = f[q]
  BY DEF Written
<1>2. w = [q \in DOMAIN w |-> w[q]]
  BY <1>1
<1>3. DOMAIN f \subseteq DocsetPaths /\ Range(f) \subseteq Blobs
  BY FilesAre
<1> HIDE DEF w
<1>4. Range(w) \subseteq Range(f) \cup {x}
  BY <1>1 DEF Range
<1>5. w \in Files
  BY <1>1, <1>2, <1>3, <1>4, FilesAre
<1> QED
  BY <1>1, <1>4, <1>5 DEF w

LEMMA RemovedIs ==
  ASSUME NEW f \in Files, NEW p
  PROVE  /\ Removed(f, p) \in Files
         /\ DOMAIN Removed(f, p) = DOMAIN f \ {p}
         /\ \A q \in DOMAIN f \ {p} : Removed(f, p)[q] = f[q]
         /\ Range(Removed(f, p)) \subseteq Range(f)
<1> DEFINE w == Removed(f, p)
<1>1. /\ w = [q \in DOMAIN f \ {p} |-> f[q]] /\ DOMAIN w = DOMAIN f \ {p}
      /\ \A q \in DOMAIN f \ {p} : w[q] = f[q]
  BY DEF Removed
<1>2. w = [q \in DOMAIN w |-> w[q]]
  BY <1>1
<1>3. DOMAIN f \subseteq DocsetPaths /\ Range(f) \subseteq Blobs
  BY FilesAre
<1> HIDE DEF w
<1>4. Range(w) \subseteq Range(f)
  BY <1>1 DEF Range
<1>5. w \in Files
  BY <1>1, <1>2, <1>3, <1>4, FilesAre
<1> QED
  BY <1>1, <1>4, <1>5 DEF w

LEMMA Appended ==
  ASSUME NEW q \in Seq(Ids), NEW id \in Ids
  PROVE  /\ Append(q, id) \in Seq(Ids) /\ Append(q, id) # <<>>
         /\ Len(Append(q, id)) = Len(q) + 1 /\ Len(q) \in Nat
         /\ \A k \in 1..Len(q) : Append(q, id)[k] = q[k]
         /\ Append(q, id)[Len(q) + 1] = id
         /\ Range(Append(q, id)) = Range(q) \cup {id}
<1> DEFINE a == Append(q, id)
<1>1. /\ a \in Seq(Ids) /\ a # <<>> /\ Len(a) = Len(q) + 1 /\ Len(q) \in Nat
      /\ \A k \in 1..Len(q) : a[k] = q[k]
      /\ a[Len(q) + 1] = id
  BY AppendProperties
<1>2. DOMAIN a = DOMAIN q \cup {Len(q) + 1} /\ DOMAIN q = 1..Len(q)
  BY <1>1
<1> HIDE DEF a
<1>3. Range(a) = Range(q) \cup {id}
  BY <1>1, <1>2 DEF Range
<1> QED
  BY <1>1, <1>3 DEF a

LEMMA LatestIs ==
  ASSUME NEW st \in States, st.snapshots # <<>>
  PROVE  /\ Len(st.snapshots) \in Nat \ {0} /\ st.snapshots[Len(st.snapshots)] \in Range(st.snapshots)
         /\ Latest(st) \in Files /\ Range(Latest(st)) \subseteq Named(st)
<1> DEFINE q == st.snapshots  n == Len(q)
<1>1. q \in Seq(Ids)
  BY DEF States
<1>2. n \in Nat \ {0} /\ DOMAIN q = 1..n
  BY <1>1, EmptySeq
<1>3. q[n] \in Ids /\ q[n] \in Range(q)
  BY <1>1, <1>2, ElementOfSeq DEF Range
<1>4. Latest(st) = q[n].files
  BY DEF Latest
<1>5. Range(q[n].files) \subseteq Named(st)
  BY <1>3 DEF Named, Hashes
<1> QED
  BY <1>2, <1>3, <1>4, <1>5 DEF Ids
-----------------------------------------------------------------------------
(* What a handler leaves of a state file. *)

LEMMA Parts ==
  ASSUME NEW s, NEW st, NEW o, NEW b, Sound(s, st, o, b)
  PROVE  /\ st.snapshots \in Seq(Ids) /\ Len(st.snapshots) \in Nat
         /\ DOMAIN st.snapshots = 1..Len(st.snapshots)
         /\ st.pending \subseteq Ids /\ st.uploaded \subseteq Blobs /\ st.owner \in Owners
         /\ Named(st) \subseteq Blobs
<1>1. /\ st.snapshots \in Seq(Ids) /\ st.pending \subseteq Ids /\ st.uploaded \subseteq Blobs
      /\ st.owner \in Owners
  BY DEF Sound, States
<1>2. Len(st.snapshots) \in Nat /\ DOMAIN st.snapshots = 1..Len(st.snapshots)
  BY <1>1
<1>3. Named(st) \subseteq Blobs
  <2>1. \A id \in Range(st.snapshots) : id \in Ids
    BY <1>1, <1>2, ElementOfSeq DEF Range
  <2>2. \A id \in Ids : Range(id.files) \subseteq Blobs
    BY FilesAre DEF Ids
  <2> QED
    BY <2>1, <2>2 DEF Named, Hashes
<1> QED
  BY <1>1, <1>2, <1>3

\* A collection spares what is named, and what was sent stays sent.
LEMMA StaysSound ==
  ASSUME NEW s, NEW st, NEW o, NEW b, NEW o2, NEW b2, Sound(s, st, o, b),
         o \cap Named(st) \subseteq o2, b \subseteq b2
  PROVE  Sound(s, st, o2, b2)
BY DEF Sound

\* A snapshot of the history came before what is made on the latest.
LEMMA NotYet ==
  ASSUME NEW s, NEW st, NEW o, NEW b, Sound(s, st, o, b), NEW id, Current(st, id)
  PROVE  ~Committed(st, id)
<1>1. \A k \in 1..Len(st.snapshots) : st.snapshots[k].parent = k - 1 /\ k - 1 # Len(st.snapshots)
  BY Parts DEF Sound
<1> QED
  BY <1>1, Parts DEF Committed, Current, Range

LEMMA StandsStill == ASSUME NEW st PROVE Evolves(st, st)
BY DEF Evolves

LEMMA Preparation ==
  ASSUME NEW s \in SyncStores, NEW st, NEW o, NEW b, Sound(s, st, o, b), NEW by \in Owners, by # Nobody,
         NEW id \in Ids, st.owner \in {Nobody, by}, Committed(st, id) \/ Current(st, id),
         Committed(st, id) \/ id \in st.pending \/ ~(Cardinality(st.pending) >= PendingCap)
  PROVE  /\ Sound(s, Prepared(st, by, id), o, b) /\ Evolves(st, Prepared(st, by, id))
         /\ Committed(st, id) \/ id \in Prepared(st, by, id).pending
         /\ ~Committed(st, id) => Prepared(st, by, id).owner = by
         /\ Prepared(st, by, id).snapshots = st.snapshots
         /\ Authorized(Prepared(st, by, id)) = Authorized(st)
<1>1. CASE Committed(st, id)
  BY <1>1, StandsStill DEF Prepared
<1>2. CASE ~Committed(st, id)
  <2> DEFINE new == Prepared(st, by, id)
  <2>1. /\ new \in States /\ new.owner = by /\ new.snapshots = st.snapshots
        /\ new.uploaded = st.uploaded /\ new.pending = st.pending \cup {id}
    BY <1>2 DEF Prepared, States, Sound
  <2>2. Named(new) = Named(st) /\ Authorized(new) = Authorized(st)
    BY <2>1 DEF Named, Authorized
  <2>3. Current(st, id) /\ \A x : Current(new, x) <=> Current(st, x)
    BY <1>2, <2>1 DEF Current
  <2> HIDE DEF new
  <2>4. s \in SyncStores => IsFiniteSet(new.pending) /\ Cardinality(new.pending) <= PendingCap
    <3> SUFFICES ASSUME s \in SyncStores
                 PROVE  IsFiniteSet(new.pending) /\ Cardinality(new.pending) <= PendingCap
      OBVIOUS
    <3>1. IsFiniteSet(st.pending) /\ Cardinality(st.pending) <= PendingCap /\ Cardinality(st.pending) \in Nat
      BY FS_CardinalityType DEF Sound
    <3>2. /\ IsFiniteSet(st.pending \cup {id})
          /\ Cardinality(st.pending \cup {id})
               = IF id \in st.pending THEN Cardinality(st.pending) ELSE Cardinality(st.pending) + 1
      BY <3>1, FS_AddElement
    <3> QED
      BY <1>2, <2>1, <3>1, <3>2, DocstoreAssumption
  <2>5. s \in SyncStores => \A x \in Authorized(new) : <<new.owner, x>> \in b
    <3>1. CASE st.owner = by
      BY <2>1, <2>2, <3>1 DEF Sound
    <3>2. CASE st.owner = Nobody
      <4>1. st.snapshots = <<>> /\ st.uploaded = {}
        BY <3>2 DEF Sound
      <4>2. Authorized(st) = {}
        BY <4>1, Parts, EmptySeq DEF Authorized, Named, Range
      <4> QED
        BY <2>2, <4>2
    <3> QED
      BY <3>1, <3>2
  <2>6. Sound(s, new, o, b)
    <3>1. new.owner = Nobody <=> new.snapshots = <<>> /\ new.pending = {}
      BY <2>1
    <3>2. \A k \in 1..Len(new.snapshots) : new.snapshots[k].parent = k - 1
      BY <2>1 DEF Sound
    <3>3. (\A x \in new.pending : Current(new, x)) /\ Named(new) \subseteq o
      BY <2>1, <2>2, <2>3 DEF Sound
    <3>4. s # NativeStore
      BY DocstoreAssumption
    <3> QED
      BY <2>1, <2>4, <2>5, <3>1, <3>2, <3>3, <3>4 DEF Sound
  <2>7. Evolves(st, new)
    BY <2>1, <2>3, Parts DEF Evolves
  <2> QED
    BY <1>2, <2>1, <2>2, <2>6, <2>7 DEF new
<1> QED
  BY <1>1, <1>2

LEMMA Proof ==
  ASSUME NEW s, NEW st, NEW o, NEW b, Sound(s, st, o, b), NEW x \in Blobs,
         st.owner # Nobody, <<st.owner, x>> \in b,
         NEW new, new = [st EXCEPT !.uploaded = @ \cup {x}]
  PROVE  /\ Sound(s, new, o, b) /\ Evolves(st, new) /\ x \in Authorized(new)
         /\ new.pending = st.pending /\ new.snapshots = st.snapshots
<1>1. /\ new \in States /\ new.owner = st.owner /\ new.snapshots = st.snapshots
      /\ new.uploaded = st.uploaded \cup {x} /\ new.pending = st.pending
  BY DEF States, Sound
<1>2. Named(new) = Named(st)
  BY <1>1 DEF Named
<1>22. Authorized(new) = Authorized(st) \cup {x}
  BY <1>1, <1>2 DEF Authorized
<1>3. \A y : Current(new, y) <=> Current(st, y)
  BY <1>1 DEF Current
<1>4. Sound(s, new, o, b)
  BY <1>1, <1>2, <1>22, <1>3 DEF Sound
<1>5. Evolves(st, new)
  BY <1>1, Parts DEF Evolves
<1> QED
  BY <1>1, <1>22, <1>4, <1>5

LEMMA Publication ==
  ASSUME NEW s, NEW st, NEW o, NEW b, Sound(s, st, o, b), NEW id \in Ids,
         st.owner # Nobody, Current(st, id), Hashes(id) \subseteq o,
         s \in SyncStores => \A x \in Hashes(id) : <<st.owner, x>> \in b
  PROVE  /\ Sound(s, Published(st, id), o, b) /\ Evolves(st, Published(st, id))
         /\ Latest(Published(st, id)) = id.files /\ Committed(Published(st, id), id)
         /\ Published(st, id).snapshots # <<>>
<1> DEFINE new == Published(st, id)
<1>1. ~Committed(st, id)
  BY NotYet
<1>2. /\ st.snapshots \in Seq(Ids)
      /\ new = [st EXCEPT !.snapshots = Append(@, id), !.pending = {}]
  BY <1>1, Parts DEF Published
<1>3. /\ new.owner = st.owner /\ new.snapshots = Append(st.snapshots, id)
      /\ new.uploaded = st.uploaded /\ new.pending = {}
      /\ new \in States
  <2>1. st \in States
    BY DEF Sound
  <2>2. Append(st.snapshots, id) \in Seq(Ids)
    BY <1>2, Appended
  <2> QED
    BY <1>2, <2>1, <2>2 DEF States
<1> HIDE DEF new
<1>4. /\ new.snapshots # <<>> /\ Len(new.snapshots) = Len(st.snapshots) + 1
      /\ \A k \in 1..Len(st.snapshots) : new.snapshots[k] = st.snapshots[k]
      /\ new.snapshots[Len(st.snapshots) + 1] = id
      /\ Range(new.snapshots) = Range(st.snapshots) \cup {id}
  BY <1>2, <1>3, Appended
<1>5. Named(new) = Named(st) \cup Hashes(id)
  <2>1. \A x : x \in Named(new) <=> \E y \in Range(st.snapshots) \cup {id} : x \in Hashes(y)
    BY <1>4 DEF Named
  <2> QED
    BY <2>1 DEF Named
<1>55. Authorized(new) = Authorized(st) \cup Hashes(id)
  BY <1>3, <1>5 DEF Authorized
<1>6. \A k \in 1..Len(new.snapshots) : new.snapshots[k].parent = k - 1
  <2> SUFFICES ASSUME NEW k \in 1..Len(new.snapshots) PROVE new.snapshots[k].parent = k - 1
    OBVIOUS
  <2>1. k \in 1..Len(st.snapshots) \/ k = Len(st.snapshots) + 1
    BY <1>4, Parts
  <2>2. CASE k \in 1..Len(st.snapshots)
    BY <1>4, <2>2 DEF Sound
  <2>3. CASE k = Len(st.snapshots) + 1
    BY <1>4, <2>3, Parts DEF Current
  <2> QED
    BY <2>1, <2>2, <2>3
<1>7. Sound(s, new, o, b)
  <2>1. s \in SyncStores => IsFiniteSet(new.pending) /\ Cardinality(new.pending) <= PendingCap
    BY <1>3, FS_EmptySet, DocstoreAssumption
  <2>2. s \in SyncStores => \A x \in Authorized(new) : <<new.owner, x>> \in b
    BY <1>3, <1>55 DEF Sound
  <2>3. (\A x \in new.pending : Current(new, x)) /\ Named(new) \subseteq o
    BY <1>3, <1>5 DEF Sound
  <2>4. /\ new.owner = Nobody <=> new.snapshots = <<>> /\ new.pending = {}
        /\ new.owner = Nobody => new.uploaded = {}
    BY <1>3, <1>4
  <2> QED
    BY <1>3, <1>6, <2>1, <2>2, <2>3, <2>4 DEF Sound
<1>8. Evolves(st, new)
  BY <1>3, <1>4, Parts DEF Evolves
<1>9. Latest(new) = id.files
  BY <1>4 DEF Latest
<1>10. Committed(new, id)
  BY <1>4 DEF Committed
<1> QED
  BY <1>4, <1>7, <1>8, <1>9, <1>10 DEF new
-----------------------------------------------------------------------------
(* What a step of the server leaves of the stores, and what the machines can *)
(* rely on then.                                                             *)

Handled ==
  /\ stores' \in [AllStores -> States] /\ objects' \subseteq Blobs /\ IStores'
  /\ \A s \in AllStores : Evolves(stores[s], stores'[s])
  /\ \A s \in AllStores : \A id \in stores[s].pending : objects \cap Hashes(id) \subseteq objects'
  /\ UNCHANGED target
NativeRests == stores'[NativeStore].snapshots = stores[NativeStore].snapshots

LEMMA Targets ==
  ASSUME ITypes, NEW c \in Machines
  PROVE  /\ target[c] \in SyncStores /\ target[c] \in AllStores /\ target[c] # NativeStore
         /\ Owner[c] \in Owners /\ Owner[c] # Nobody
         /\ sync[c] \in Syncs /\ told[c] \subseteq Ids /\ folder[c] \in Manifests
BY DocstoreAssumption DEF ITypes, AllStores, Owners

LEMMA AuthorizedStays ==
  ASSUME NEW st, NEW new, Evolves(st, new)
  PROVE  Authorized(st) \subseteq Authorized(new)
<1>1. Named(st) \subseteq Named(new)
  BY DEF Evolves, Named
<1> QED
  BY <1>1 DEF Evolves, Authorized

LEMMA OthersGoOn ==
  ASSUME IInv, Handled
  PROVE  /\ \A c \in Machines : OnItsWay(c, sync[c], stores'[target[c]], objects')
         /\ \A c \in Machines : \A id \in told[c] : Committed(stores'[target[c]], id)
<1> SUFFICES ASSUME NEW c \in Machines
             PROVE  /\ OnItsWay(c, sync[c], stores'[target[c]], objects')
                    /\ \A id \in told[c] : Committed(stores'[target[c]], id)
  OBVIOUS
<1> DEFINE s == target[c]  st == stores[s]  new == stores'[s]  y == sync[c]  id == IdOf(y)
<1>1. s \in AllStores /\ Owner[c] # Nobody
  BY Targets DEF IInv
<1>2. OnItsWay(c, y, st, objects) /\ \A x \in told[c] : Committed(st, x)
  BY DEF IInv, IMachines, ToldIsPublished
<1>3. Sound(s, st, objects, sent) /\ Evolves(st, new)
  BY <1>1 DEF IInv, IStores, Handled
<1>4. \A x \in st.pending : objects \cap Hashes(x) \subseteq objects'
  BY <1>1 DEF Handled
<1>5. Len(st.snapshots) \in Nat /\ Len(new.snapshots) \in Nat
  BY <1>1, <1>3, Parts DEF Handled, IStores
<1>6. y.parent \in Nat
  BY Targets DEF IInv, Syncs
<1>7. id.parent = y.parent
  BY DEF IdOf
<1> HIDE DEF id, y, st, new, s
<1>8. \A x \in told[c] : Committed(new, x)
  BY <1>2, <1>3 DEF Evolves, Committed
<1>9. ASSUME Prepares(y)
      PROVE  /\ new.owner = Owner[c] /\ y.parent <= Len(new.snapshots)
             /\ Current(new, id) => id \in new.pending
             /\ id \in new.pending => Hashes(id) \ y.missing \subseteq objects' \cap Authorized(new)
  <2>1. /\ st.owner = Owner[c] /\ y.parent <= Len(st.snapshots)
        /\ Current(st, id) => id \in st.pending
        /\ id \in st.pending => Hashes(id) \ y.missing \subseteq objects \cap Authorized(st)
    BY <1>2, <1>9 DEF OnItsWay, id
  <2>2. new.owner = Owner[c] /\ Len(st.snapshots) <= Len(new.snapshots)
    BY <1>1, <1>3, <2>1 DEF Evolves
  <2>3. y.parent <= Len(new.snapshots)
    BY <1>5, <1>6, <2>1, <2>2
  <2>4. ASSUME Current(new, id) PROVE id \in new.pending
    <3>1. y.parent = Len(new.snapshots) /\ Len(new.snapshots) = Len(st.snapshots)
      BY <1>5, <1>6, <1>7, <2>1, <2>2, <2>4 DEF Current
    <3>2. id \in st.pending
      BY <1>7, <2>1, <3>1 DEF Current
    <3> QED
      BY <1>3, <3>1, <3>2 DEF Evolves
  <2>5. ASSUME id \in new.pending
        PROVE  Hashes(id) \ y.missing \subseteq objects' \cap Authorized(new)
    <3>1. id \in st.pending
      BY <1>3, <2>1, <2>5 DEF Evolves
    <3>2. Authorized(st) \subseteq Authorized(new)
      BY <1>3, AuthorizedStays
    <3> QED
      BY <1>4, <2>1, <3>1, <3>2
  <2> QED
    BY <2>2, <2>3, <2>4, <2>5
<1>10. OnItsWay(c, y, new, objects')
  BY <1>2, <1>9 DEF OnItsWay, id
<1> QED
  BY <1>8, <1>10 DEF y, new, s

\* A step of one machine, with what the server has done of it.
LEMMA Stepped ==
  ASSUME IInv, Handled, NativeRests, UNCHANGED <<docset, behind>>, overdue' \subseteq Late,
         folder' \in [Machines -> Manifests],
         NEW c \in Machines, NEW y \in Syncs, sync' = [sync EXCEPT ![c] = y],
         OnItsWay(c, y, stores'[target[c]], objects'),
         NEW ids \in SUBSET Ids, told' = [told EXCEPT ![c] = ids],
         \A id \in ids : Committed(stores'[target[c]], id)
  PROVE  IInv'
<1>1. ITypes'
  BY DEF IInv, ITypes, Handled
<1>2. IStores'
  BY DEF Handled
<1>3. IMachines'
  <2>1. /\ \A d \in Machines : OnItsWay(d, sync'[d], stores'[target[d]], objects')
        /\ \A d \in Machines : \A id \in told'[d] : Committed(stores'[target[d]], id)
    <3> SUFFICES ASSUME NEW d \in Machines
                 PROVE  /\ OnItsWay(d, sync'[d], stores'[target[d]], objects')
                        /\ \A id \in told'[d] : Committed(stores'[target[d]], id)
      OBVIOUS
    <3>1. sync'[d] = (IF d = c THEN y ELSE sync[d]) /\ told'[d] = (IF d = c THEN ids ELSE told[d])
      BY DEF IInv, ITypes
    <3>2. CASE d = c
      BY <3>1, <3>2
    <3>3. CASE d # c
      BY <3>1, <3>3, OthersGoOn
    <3> QED
      BY <3>2, <3>3
  <2>2. target' = target
    BY DEF Handled
  <2> QED
    BY <2>1, <2>2 DEF IMachines, ToldIsPublished
<1>4. NativeHistoryFollows'
  BY DEF IInv, NativeHistoryFollows, NativeRests, Latest
<1> QED
  BY <1>1, <1>2, <1>3, <1>4 DEF IInv

LEMMA NothingHandled ==
  ASSUME IInv, UNCHANGED <<stores, objects, sent, target>>
  PROVE  Handled /\ NativeRests
<1>1. IStores'
  BY DEF IInv, IStores, Sound
<1> QED
  BY <1>1, StandsStill DEF IInv, ITypes, Handled, NativeRests

LEMMA OneStore ==
  ASSUME IInv, NEW s \in AllStores, NEW st, Put(s, st), Evolves(stores[s], st),
         objects \subseteq objects', objects' \subseteq Blobs, UNCHANGED <<sent, target>>,
         Sound(s, st, objects', sent)
  PROVE  Handled /\ stores'[s] = st /\ (s # NativeStore => NativeRests)
<1>1. stores \in [AllStores -> States] /\ st \in States
  BY DEF IInv, ITypes, Sound
<1>2. /\ stores' \in [AllStores -> States] /\ stores'[s] = st
      /\ \A r \in AllStores \ {s} : stores'[r] = stores[r]
  BY <1>1 DEF Put
<1>3. \A r \in AllStores : Sound(r, stores'[r], objects', sent)
  <2> SUFFICES ASSUME NEW r \in AllStores PROVE Sound(r, stores'[r], objects', sent)
    OBVIOUS
  <2>1. CASE r = s
    BY <1>2, <2>1
  <2>2. CASE r # s
    BY <1>2, <2>2, StaysSound DEF IInv, IStores
  <2> QED
    BY <2>1, <2>2
<1>4. IStores'
  BY <1>3 DEF IStores
<1>5. \A r \in AllStores : Evolves(stores[r], stores'[r])
  BY <1>2, StandsStill
<1>6. NativeStore \in AllStores
  BY DEF AllStores
<1> QED
  BY <1>2, <1>4, <1>5, <1>6 DEF Handled, NativeRests

\* The bytes of a blob arrive, and some stores that ask for it take the proof.
LEMMA BytesArrive ==
  ASSUME IInv, NEW by \in Owners, by # Nobody, NEW b \in Blobs, NEW ss \in SUBSET Asking(by, b),
         stores' = Proved(ss, b), objects' = objects \cup {b}, sent' = sent \cup {<<by, b>>},
         UNCHANGED target
  PROVE  /\ Handled /\ NativeRests
         /\ \A s \in ss : b \in Authorized(stores'[s])
         /\ \A s \in AllStores : stores'[s].pending = stores[s].pending
<1>1. /\ stores' = [s \in AllStores |-> stores'[s]]
      /\ \A s \in ss : s \in AllStores /\ stores[s].owner = by
      /\ \A s \in ss : stores'[s] = [stores[s] EXCEPT !.uploaded = @ \cup {b}]
      /\ \A s \in AllStores \ ss : stores'[s] = stores[s]
  BY DEF Proved, Asking
<1>2. \A s \in AllStores : Sound(s, stores[s], objects', sent')
  BY StaysSound DEF IInv, IStores
<1>3. ASSUME NEW s \in AllStores
      PROVE  /\ Sound(s, stores'[s], objects', sent') /\ Evolves(stores[s], stores'[s])
             /\ s \in ss => b \in Authorized(stores'[s])
             /\ stores'[s].pending = stores[s].pending
             /\ stores'[s].snapshots = stores[s].snapshots
  <2>1. CASE s \in ss
    <3>1. /\ Sound(s, stores[s], objects', sent')
          /\ stores[s].owner # Nobody /\ <<stores[s].owner, b>> \in sent'
      BY <1>1, <1>2, <2>1
    <3>2. stores'[s] = [stores[s] EXCEPT !.uploaded = @ \cup {b}]
      BY <1>1, <2>1
    <3>3. /\ Sound(s, stores'[s], objects', sent') /\ Evolves(stores[s], stores'[s])
          /\ b \in Authorized(stores'[s]) /\ stores'[s].pending = stores[s].pending
          /\ stores'[s].snapshots = stores[s].snapshots
      BY <3>1, <3>2, Proof
    <3> QED
      BY <3>3
  <2>2. CASE s \notin ss
    BY <1>1, <1>2, <2>2, StandsStill
  <2> QED
    BY <2>1, <2>2
<1>4. IStores'
  BY <1>3 DEF IStores
<1>5. NativeStore \in AllStores
  BY DEF AllStores
<1>6. stores' \in [AllStores -> States]
  BY <1>1, <1>3 DEF Sound
<1>7. objects' \subseteq Blobs /\ objects \subseteq objects'
  <2>1. objects \subseteq Blobs
    BY DEF IInv, ITypes
  <2> QED
    BY <2>1
<1>8. Handled
  <2>1. \A s \in AllStores : Evolves(stores[s], stores'[s])
    BY <1>3
  <2>2. \A s \in AllStores : \A id \in stores[s].pending : objects \cap Hashes(id) \subseteq objects'
    BY <1>7
  <2> QED
    BY <1>4, <1>6, <1>7, <2>1, <2>2 DEF Handled
<1>9. NativeRests
  BY <1>3, <1>5 DEF NativeRests
<1>10. \A s \in ss : s \in AllStores
  BY <1>1
<1> QED
  BY <1>3, <1>8, <1>9, <1>10
-----------------------------------------------------------------------------
(* The steps of a machine *)

\* What a sync looks like once it has ended or has failed.
LEMMA AtRest ==
  ASSUME NEW c, NEW st, NEW o
  PROVE  NoSync \in Syncs /\ OnItsWay(c, NoSync, st, o)
BY DEF NoSync, Syncs, OnItsWay, Prepares

LEMMA FailsIs ==
  ASSUME IInv, NEW c \in Machines, Fails(c), Handled, NativeRests,
         UNCHANGED <<docset, behind>>, overdue' \subseteq Late
  PROVE  IInv'
<1>1. /\ sync' = [sync EXCEPT ![c] = NoSync] /\ folder' = folder
      /\ told' = [told EXCEPT ![c] = told[c]]
  BY DEF Fails, IInv, ITypes
<1>2. told[c] \in SUBSET Ids /\ \A id \in told[c] : Committed(stores'[target[c]], id)
  BY OthersGoOn, Targets DEF IInv
<1>3. folder' \in [Machines -> Manifests]
  BY <1>1 DEF IInv, ITypes
<1>4. NoSync \in Syncs /\ OnItsWay(c, NoSync, stores'[target[c]], objects')
  BY AtRest
<1> QED
  BY <1>1, <1>2, <1>3, <1>4, Stepped

LEMMA EndsIs ==
  ASSUME IInv, NEW c \in Machines, NEW id \in Ids, Ends(c, id), Handled, NativeRests,
         UNCHANGED <<docset, behind, overdue>>, Committed(stores'[target[c]], id)
  PROVE  IInv'
<1>1. /\ sync' = [sync EXCEPT ![c] = NoSync] /\ folder' = folder
      /\ told' = [told EXCEPT ![c] = {id}]
  BY DEF Ends
<1>2. {id} \in SUBSET Ids /\ \A x \in {id} : Committed(stores'[target[c]], x)
  OBVIOUS
<1>3. folder' \in [Machines -> Manifests] /\ overdue' \subseteq Late
  BY <1>1 DEF IInv, ITypes
<1>4. NoSync \in Syncs /\ OnItsWay(c, NoSync, stores'[target[c]], objects')
  BY AtRest
<1> QED
  BY <1>1, <1>2, <1>3, <1>4, Stepped

\* A machine goes on with another sync record; nothing else of it changes.
LEMMA GoesOn ==
  ASSUME IInv, NEW c \in Machines, NEW y \in Syncs, sync' = [sync EXCEPT ![c] = y],
         OnItsWay(c, y, stores'[target[c]], objects'), Handled, NativeRests,
         UNCHANGED <<docset, behind, told>>, overdue' \subseteq Late,
         folder' \in [Machines -> Manifests]
  PROVE  IInv'
<1>1. told' = [told EXCEPT ![c] = told[c]]
  BY DEF IInv, ITypes
<1>2. told[c] \in SUBSET Ids /\ \A id \in told[c] : Committed(stores'[target[c]], id)
  BY OthersGoOn, Targets DEF IInv
<1> QED
  BY <1>1, <1>2, Stepped

\* Nothing of any machine changes but its folder.
LEMMA StandBy ==
  ASSUME IInv, NEW c \in Machines, Handled, NativeRests, UNCHANGED <<docset, behind, told, sync>>,
         overdue' \subseteq Late, folder' \in [Machines -> Manifests]
  PROVE  IInv'
<1>1. sync' = [sync EXCEPT ![c] = sync[c]]
  BY DEF IInv, ITypes
<1>2. sync[c] \in Syncs /\ OnItsWay(c, sync[c], stores'[target[c]], objects')
  BY OthersGoOn, Targets DEF IInv
<1> QED
  BY <1>1, <1>2, GoesOn

LEMMA ScanStep ==
  ASSUME IInv, NEW c \in Machines, Scan(c)
  PROVE  IInv'
<1> DEFINE y == [NoSync EXCEPT !.at = "list", !.files = folder[c]]
<1>1. /\ sync' = [sync EXCEPT ![c] = y] /\ UNCHANGED <<folder, told, overdue, docset, behind>>
      /\ UNCHANGED <<stores, objects, sent, target>>
  BY DEF Scan, OnlyMachine, serverVars, nativeVars
<1>2. Handled /\ NativeRests
  BY <1>1, NothingHandled
<1>3. folder[c] \in Manifests
  BY Targets DEF IInv
<1>4. /\ y \in Syncs /\ y.at = "list" /\ y.files = folder[c] /\ y.missing = {}
  BY <1>3 DEF NoSync, Syncs
<1> HIDE DEF y
<1>5. OnItsWay(c, y, stores'[target[c]], objects')
  BY <1>3, <1>4 DEF OnItsWay, Prepares
<1>6. overdue' \subseteq Late /\ folder' \in [Machines -> Manifests]
  BY <1>1 DEF IInv, ITypes
<1> QED
  BY <1>1, <1>2, <1>4, <1>5, <1>6, GoesOn

LEMMA ListStep ==
  ASSUME IInv, NEW c \in Machines, List(c)
  PROVE  IInv'
<1> DEFINE st == stores[target[c]]
           seen == IF st.owner = Owner[c] THEN Len(st.snapshots) ELSE 0
           y == [sync[c] EXCEPT !.at = "prepare", !.parent = seen]
<1>1. /\ sync[c].at = "list" /\ UNCHANGED <<overdue, docset, behind>>
      /\ UNCHANGED <<stores, objects, sent, target>>
  BY DEF List, OnlyMachine, serverVars, nativeVars
<1>2. Handled /\ NativeRests
  BY <1>1, NothingHandled
<1>3. Sound(target[c], st, objects, sent)
  BY Targets DEF IInv, IStores
<1>4. seen \in Nat /\ seen <= Len(st.snapshots) /\ st.snapshots \in Seq(Ids)
  BY <1>3, Parts
<1>5. sync[c] \in Syncs /\ OnItsWay(c, sync[c], st, objects)
  BY Targets DEF IInv, IMachines
<1>6. CASE seen > 0 /\ Latest(st) = sync[c].files
  <2>1. Ends(c, st.snapshots[seen])
    BY <1>6 DEF List
  <2>2. seen \in DOMAIN st.snapshots /\ st.snapshots[seen] \in Ids
    BY <1>3, <1>4, <1>6, Parts, ElementOfSeq
  <2>3. Committed(stores'[target[c]], st.snapshots[seen])
    BY <1>1, <2>2 DEF Committed, Range
  <2> HIDE DEF seen
  <2> QED
    BY <1>1, <1>2, <2>1, <2>2, <2>3, EndsIs
<1>7. CASE ~(seen > 0 /\ Latest(st) = sync[c].files)
  <2>1. /\ sync' = [sync EXCEPT ![c].at = "prepare", ![c].parent = seen]
        /\ UNCHANGED <<folder, told>>
    BY <1>7 DEF List
  <2>2. sync' = [sync EXCEPT ![c] = y]
    BY <1>5, <2>1 DEF IInv, ITypes, Syncs
  <2>3. /\ y \in Syncs /\ y.at = "prepare" /\ y.files = sync[c].files
        /\ y.missing = sync[c].missing
    BY <1>4, <1>5 DEF Syncs
  <2> HIDE DEF y, seen
  <2>4. OnItsWay(c, y, stores'[target[c]], objects')
    BY <1>1, <1>5, <2>3 DEF OnItsWay, Prepares
  <2>5. overdue' \subseteq Late /\ folder' \in [Machines -> Manifests]
    BY <1>1, <2>1 DEF IInv, ITypes
  <2> QED
    BY <1>1, <1>2, <2>1, <2>2, <2>3, <2>4, <2>5, GoesOn
<1> QED
  BY <1>6, <1>7

\* The id a machine works for, and how it goes on to uploads or to its commit.
LEMMA IdIs ==
  ASSUME IInv, NEW c \in Machines, sync[c].at # "idle"
  PROVE  /\ Id(c) = IdOf(sync[c]) /\ Id(c) \in Asked /\ Id(c) \in Ids
         /\ Hashes(Id(c)) = Range(sync[c].files) /\ Hashes(Id(c)) \subseteq Blobs
         /\ Id(c).parent = sync[c].parent
<1>1. sync[c] \in Syncs /\ sync[c].files \in Manifests
  BY Targets DEF IInv, IMachines, OnItsWay
<1>2. /\ Id(c) = [parent |-> sync[c].parent, files |-> sync[c].files] /\ Id(c) = IdOf(sync[c])
      /\ Id(c) \in Asked /\ Id(c).files = sync[c].files /\ Id(c).parent = sync[c].parent
  BY <1>1 DEF Id, IdOf, Asked, Syncs
<1>3. sync[c].files \in Files /\ Id(c) \in Ids
  BY <1>1, <1>2, ManifestsAreFiles DEF Ids, Asked
<1> QED
  BY <1>2, <1>3, FilesAre DEF Hashes

LEMMA UploadsIs ==
  ASSUME IInv, NEW c \in Machines, sync[c].at \in {"prepare", "upload"}, Handled, NativeRests,
         UNCHANGED <<docset, behind, overdue>>,
         NEW missing, missing \subseteq Hashes(Id(c)), Uploads(c, missing),
         NEW st, st = stores'[target[c]],
         st.owner = Owner[c], Id(c).parent <= Len(st.snapshots),
         Current(st, Id(c)) => Id(c) \in st.pending,
         Id(c) \in st.pending => Hashes(Id(c)) \ missing \subseteq objects' \cap Authorized(st)
  PROVE  IInv'
<1> DEFINE at == IF missing = {} THEN "commit" ELSE "upload"
           y == [sync[c] EXCEPT !.at = at, !.missing = missing]
<1>1. /\ sync' = [sync EXCEPT ![c].at = at, ![c].missing = missing] /\ UNCHANGED <<folder, told>>
  BY DEF Uploads, Goes
<1>2. sync[c] \in Syncs /\ sync[c].files \in Manifests /\ sync[c].at # "idle"
  BY Targets DEF IInv, IMachines, OnItsWay
<1>3. at \in {"upload", "commit"}
  OBVIOUS
<1>4. /\ Id(c) = IdOf(sync[c]) /\ Hashes(Id(c)) = Range(sync[c].files)
      /\ Hashes(Id(c)) \subseteq Blobs /\ Id(c).parent = sync[c].parent
  BY <1>2, IdIs
<1> HIDE DEF at
<1>5. sync' = [sync EXCEPT ![c] = y]
  BY <1>1, <1>2 DEF IInv, ITypes, Syncs
<1>6. /\ y \in Syncs /\ y.at = at /\ y.files = sync[c].files /\ y.parent = sync[c].parent
      /\ y.missing = missing
  BY <1>2, <1>3, <1>4 DEF Syncs
<1> HIDE DEF y
<1>7. IdOf(y) = Id(c)
  BY <1>4, <1>6 DEF IdOf
<1>8. OnItsWay(c, y, stores'[target[c]], objects')
  BY <1>2, <1>3, <1>4, <1>6, <1>7 DEF OnItsWay
<1>9. overdue' \subseteq Late /\ folder' \in [Machines -> Manifests]
  BY <1>1 DEF IInv, ITypes
<1> QED
  BY <1>1, <1>5, <1>6, <1>8, <1>9, GoesOn

\* Docstore.prepare, for a request that waits and for one that comes late.
LEMMA PreparationIs ==
  ASSUME IInv, NEW c \in Machines, NEW id \in Ids, NEW st, st = stores[target[c]],
         ~Refused(st, Owner[c], id), NEW new, new = Prepared(st, Owner[c], id),
         Put(target[c], new), UNCHANGED <<objects, sent, target>>
  PROVE  /\ Handled /\ NativeRests /\ stores'[target[c]] = new
         /\ Sound(target[c], st, objects, sent)
         /\ Committed(st, id) \/ id \in new.pending
         /\ ~Committed(st, id) => new.owner = Owner[c]
         /\ new.snapshots = st.snapshots /\ Authorized(new) = Authorized(st)
         /\ st.owner \in {Nobody, Owner[c]} /\ (Committed(st, id) \/ Current(st, id))
<1>1. /\ target[c] \in AllStores /\ target[c] \in SyncStores /\ target[c] # NativeStore
      /\ Owner[c] \in Owners /\ Owner[c] # Nobody
  BY Targets DEF IInv
<1>2. Sound(target[c], st, objects, sent)
  BY <1>1 DEF IInv, IStores
<1>3. /\ st.owner \in {Nobody, Owner[c]} /\ (Committed(st, id) \/ Current(st, id))
      /\ Committed(st, id) \/ id \in st.pending \/ ~(Cardinality(st.pending) >= PendingCap)
  BY DEF Refused
<1>4. /\ Sound(target[c], new, objects, sent) /\ Evolves(st, new)
      /\ Committed(st, id) \/ id \in new.pending
      /\ ~Committed(st, id) => new.owner = Owner[c]
      /\ new.snapshots = st.snapshots /\ Authorized(new) = Authorized(st)
  BY <1>1, <1>2, <1>3, Preparation
<1>5. Handled /\ NativeRests /\ stores'[target[c]] = new
  <2>1. objects' = objects /\ objects \subseteq Blobs
    BY DEF IInv, ITypes
  <2>2. Sound(target[c], new, objects', sent)
    BY <1>4, <2>1
  <2> QED
    BY <1>1, <1>4, <2>1, <2>2, OneStore
<1> QED
  BY <1>2, <1>3, <1>4, <1>5

LEMMA PrepareStep ==
  ASSUME IInv, NEW c \in Machines, Prepare(c)
  PROVE  IInv'
<1> DEFINE s == target[c]  st == stores[s]  id == Id(c)  new == Prepared(st, Owner[c], id)
           missing == IF Committed(st, id) THEN {} ELSE Missing(st, id)
<1>1. /\ sync[c].at = "prepare"
      /\ UNCHANGED <<target, overdue, docset, behind, objects, sent>>
  BY DEF Prepare, OnlyRequest, nativeVars
<1>2. overdue' \subseteq Late
  BY <1>1 DEF IInv, ITypes
<1>3. CASE Refused(st, Owner[c], id) /\ Fails(c) /\ UNCHANGED <<stores, mishaps>>
  <2>1. Handled /\ NativeRests
    BY <1>1, <1>3, NothingHandled
  <2> QED
    BY <1>1, <1>2, <1>3, <2>1, FailsIs
<1>4. CASE /\ ~Refused(st, Owner[c], id) /\ Put(s, new)
           /\ \/ Uploads(c, missing) /\ UNCHANGED mishaps
              \/ ~Committed(st, id) /\ Mishap /\ Fails(c)
  <2>1. id \in Ids /\ Hashes(id) \subseteq Blobs
    BY <1>1, IdIs
  <2>2. /\ Handled /\ NativeRests /\ stores'[s] = new
        /\ Sound(s, st, objects, sent)
        /\ Committed(st, id) \/ id \in new.pending
        /\ ~Committed(st, id) => new.owner = Owner[c]
        /\ new.snapshots = st.snapshots /\ Authorized(new) = Authorized(st)
        /\ st.owner \in {Nobody, Owner[c]} /\ (Committed(st, id) \/ Current(st, id))
    <3> HIDE DEF st, id, new
    <3> QED
      BY <1>1, <1>4, <2>1, PreparationIs DEF st, id, new
  <2>3. CASE Fails(c)
    BY <1>1, <1>2, <2>2, <2>3, FailsIs
  <2>4. CASE Uploads(c, missing)
    <3>1. missing \subseteq Hashes(id)
      BY DEF Missing
    <3>2. new.owner = Owner[c] /\ id.parent <= Len(new.snapshots)
      <4>1. Len(st.snapshots) \in Nat /\ DOMAIN st.snapshots = 1..Len(st.snapshots)
        BY <2>2, Parts
      <4>2. CASE ~Committed(st, id)
        BY <2>2, <4>1, <4>2 DEF Current
      <4>3. CASE Committed(st, id)
        <5>1. PICK k \in 1..Len(st.snapshots) : st.snapshots[k] = id
          BY <4>1, <4>3 DEF Committed, Range
        <5>2. id.parent = k - 1
          BY <2>2, <5>1 DEF Sound
        <5>3. new = st /\ st.snapshots # <<>>
          BY <4>1, <4>3, <5>1 DEF Prepared
        <5>4. st.owner # Nobody
          BY <2>2, <5>3 DEF Sound
        <5> QED
          BY <2>2, <4>1, <5>2, <5>3, <5>4
      <4> QED
        BY <4>2, <4>3
    <3>3. Current(new, id) => id \in new.pending
      <4>1. Current(new, id) => ~Committed(st, id)
        BY <2>2, NotYet DEF Current
      <4> QED
        BY <2>2, <4>1
    <3>4. id \in new.pending => Hashes(id) \ missing \subseteq objects' \cap Authorized(new)
      <4>1. CASE Committed(st, id)
        <5>1. new = st
          BY <4>1 DEF Prepared
        <5>2. id \notin st.pending
          BY <2>2, <4>1, NotYet DEF Sound
        <5> QED
          BY <5>1, <5>2
      <4>2. CASE ~Committed(st, id)
        BY <1>1, <2>2, <4>2 DEF Missing
      <4> QED
        BY <4>1, <4>2
    <3> HIDE DEF missing, st, new
    <3> QED
      BY <1>1, <2>2, <2>4, <3>1, <3>2, <3>3, <3>4, UploadsIs DEF s, id
  <2> QED
    BY <1>4, <2>3, <2>4
<1> QED
  BY <1>3, <1>4 DEF Prepare

\* PUT of a blob: what c still has to send shrinks by what has arrived.
LEMMA UploadStep ==
  ASSUME IInv, NEW c \in Machines, Upload(c)
  PROVE  IInv'
<1>1. PICK b \in sync[c].missing :
        LET asking == Asking(Owner[c], b)
        IN  /\ sync[c].at = "upload" /\ OnlyRequest
            /\ \/ asking = {} /\ Fails(c) /\ UNCHANGED <<serverVars, mishaps>>
               \/ /\ asking # {}
                  /\ objects' = objects \cup {b} /\ sent' = sent \cup {<<Owner[c], b>>}
                  /\ \/ /\ stores' = Proved(asking, b) /\ Uploads(c, sync[c].missing \ {b})
                        /\ UNCHANGED mishaps
                     \/ Mishap /\ Fails(c) /\ \E saved \in SUBSET asking : stores' = Proved(saved, b)
  BY DEF Upload
<1> DEFINE asking == Asking(Owner[c], b)  s == target[c]  st == stores[s]  id == Id(c)
           rest == sync[c].missing \ {b}
<1>2. sync[c].at = "upload" /\ UNCHANGED <<target, overdue, docset, behind>>
  BY <1>1 DEF OnlyRequest, nativeVars
<1>3. overdue' \subseteq Late
  BY <1>2 DEF IInv, ITypes
<1>4. /\ s \in AllStores /\ Owner[c] \in Owners /\ Owner[c] # Nobody /\ sync[c] \in Syncs
  BY Targets DEF IInv
<1>5. /\ sync[c].missing \subseteq Hashes(id) /\ Hashes(id) \subseteq Blobs /\ id = IdOf(sync[c])
      /\ id.parent = sync[c].parent
  <2>1. OnItsWay(c, sync[c], st, objects)
    BY DEF IInv, IMachines
  <2>2. sync[c].missing \subseteq Range(sync[c].files)
    BY <2>1 DEF OnItsWay
  <2> QED
    BY <1>2, <2>2, IdIs
<1>6. b \in Blobs
  BY <1>5
<1>7. CASE asking = {} /\ Fails(c) /\ UNCHANGED serverVars
  <2>1. Handled /\ NativeRests
    BY <1>2, <1>7, NothingHandled DEF serverVars
  <2> QED
    BY <1>2, <1>3, <1>7, <2>1, FailsIs
<1>8. ASSUME NEW saved \in SUBSET asking, stores' = Proved(saved, b), Fails(c),
             objects' = objects \cup {b}, sent' = sent \cup {<<Owner[c], b>>}
      PROVE  IInv'
  <2>1. Handled /\ NativeRests
    BY <1>2, <1>4, <1>6, <1>8, BytesArrive
  <2> QED
    BY <1>2, <1>3, <1>8, <2>1, FailsIs
<1>9. ASSUME stores' = Proved(asking, b), Uploads(c, rest),
             objects' = objects \cup {b}, sent' = sent \cup {<<Owner[c], b>>}
      PROVE  IInv'
  <2>1. /\ Handled /\ NativeRests
        /\ \A r \in asking : b \in Authorized(stores'[r])
        /\ stores'[s].pending = st.pending
    <3>1. asking \in SUBSET asking
      OBVIOUS
    <3> HIDE DEF asking
    <3> QED
      BY <1>2, <1>4, <1>6, <1>9, <3>1, BytesArrive DEF asking
  <2>2. OnItsWay(c, sync[c], stores'[s], objects')
    BY <2>1, OthersGoOn
  <2> DEFINE new == stores'[s]
  <2>3. /\ new.owner = Owner[c] /\ id.parent <= Len(new.snapshots)
        /\ Current(new, id) => id \in new.pending
        /\ id \in new.pending => Hashes(id) \ sync[c].missing \subseteq objects' \cap Authorized(new)
    BY <1>2, <1>5, <2>2 DEF OnItsWay, Prepares
  <2>4. id \in new.pending => s \in asking
    <3>1. st.owner = Owner[c]
      <4>1. OnItsWay(c, sync[c], st, objects)
        BY DEF IInv, IMachines
      <4> QED
        BY <1>2, <4>1 DEF OnItsWay, Prepares
    <3>2. b \in Hashes(id)
      BY <1>5
    <3> QED
      BY <1>4, <2>1, <3>1, <3>2 DEF Asking
  <2> HIDE DEF asking, st, id
  <2>5. id \in new.pending => Hashes(id) \ rest \subseteq objects' \cap Authorized(new)
    BY <1>9, <2>1, <2>3, <2>4
  <2>6. rest \subseteq Hashes(id)
    BY <1>5
  <2> HIDE DEF new, rest
  <2> QED
    BY <1>2, <1>9, <2>1, <2>3, <2>5, <2>6, UploadsIs DEF id, new
<1> QED
  BY <1>1, <1>7, <1>8, <1>9

\* commitUploaded, for a request that waits and for one that comes late.
LEMMA CommitIs ==
  ASSUME IInv, NEW c \in Machines, NEW id \in Ids, NEW st, st = stores[target[c]],
         HasProof(st, id), Committable(st, Owner[c], id),
         Put(target[c], Published(st, id)), UNCHANGED <<objects, sent, target>>
  PROVE  /\ Handled /\ NativeRests
         /\ Committed(stores'[target[c]], id)
<1>1. /\ target[c] \in AllStores /\ target[c] \in SyncStores /\ target[c] # NativeStore
      /\ Owner[c] # Nobody
  BY Targets DEF IInv
<1>2. Sound(target[c], st, objects, sent)
  BY <1>1 DEF IInv, IStores
<1> DEFINE new == Published(st, id)
<1>3. Sound(target[c], new, objects, sent) /\ Evolves(st, new) /\ Committed(new, id)
  <2>1. CASE Committed(st, id)
    BY <1>2, <2>1, StandsStill DEF Published
  <2>2. CASE ~Committed(st, id)
    <3>1. /\ st.owner = Owner[c] /\ id \in st.pending /\ Current(st, id) /\ Hashes(id) \subseteq objects
          /\ Hashes(id) \subseteq Authorized(st)
      BY <2>2 DEF Committable, HasProof
    <3>2. \A x \in Hashes(id) : <<st.owner, x>> \in sent
      BY <1>1, <1>2, <3>1 DEF Sound
    <3>3. st.owner # Nobody
      BY <1>1, <3>1
    <3> QED
      BY <1>2, <3>1, <3>2, <3>3, Publication
  <2> QED
    BY <2>1, <2>2
<1>4. objects' = objects /\ objects \subseteq Blobs
  BY DEF IInv, ITypes
<1>5. Sound(target[c], new, objects', sent)
  BY <1>3, <1>4
<1> HIDE DEF new
<1> QED
  BY <1>1, <1>3, <1>4, <1>5, OneStore DEF new

LEMMA CommitStep ==
  ASSUME IInv, NEW c \in Machines, Commit(c)
  PROVE  IInv'
<1> DEFINE s == target[c]  st == stores[s]  id == Id(c)
<1>1. /\ sync[c].at = "commit"
      /\ UNCHANGED <<target, overdue, docset, behind, objects, sent>>
      /\ \/ Fails(c) /\ UNCHANGED <<stores, mishaps>>
         \/ /\ HasProof(st, id) /\ Committable(st, Owner[c], id) /\ Put(s, Published(st, id))
            /\ Ends(c, id) \/ Fails(c)
  BY DEF Commit, OnlyRequest, nativeVars
<1>2. overdue' \subseteq Late
  BY <1>1 DEF IInv, ITypes
<1>3. id \in Ids
  BY <1>1, IdIs
<1>4. CASE Fails(c) /\ UNCHANGED stores
  <2>1. Handled /\ NativeRests
    BY <1>1, <1>4, NothingHandled
  <2> QED
    BY <1>1, <1>2, <1>4, <2>1, FailsIs
<1>5. CASE /\ HasProof(st, id) /\ Committable(st, Owner[c], id) /\ Put(s, Published(st, id))
           /\ Ends(c, id) \/ Fails(c)
  <2> HIDE DEF id
  <2>1. Handled /\ NativeRests /\ Committed(stores'[s], id)
    BY <1>1, <1>3, <1>5, CommitIs
  <2>2. CASE Fails(c)
    BY <1>1, <1>2, <2>1, <2>2, FailsIs
  <2>3. CASE Ends(c, id)
    BY <1>1, <1>3, <2>1, <2>3, EndsIs
  <2> QED
    BY <1>5, <2>2, <2>3
<1> QED
  BY <1>1, <1>4, <1>5

LEMMA GiveUpStep ==
  ASSUME IInv, NEW c \in Machines, GiveUp(c)
  PROVE  IInv'
<1>1. /\ sync[c].at # "idle" /\ Fails(c) /\ UNCHANGED <<stores, objects, sent, target, docset, behind>>
  BY DEF GiveUp, serverVars, nativeVars
<1>2. Handled /\ NativeRests
  BY <1>1, NothingHandled
<1>3. overdue' \subseteq Late
  <2>1. CASE UNCHANGED overdue
    BY <2>1 DEF IInv, ITypes
  <2>2. ASSUME sync[c].at # "list",
               NEW b \in IF sync[c].at = "upload" THEN sync[c].missing ELSE {"none"},
               overdue' = overdue \cup {[op |-> sync[c].at, by |-> c, id |-> Id(c), blob |-> b]}
        PROVE  overdue' \subseteq Late
    <3>1. sync[c] \in Syncs /\ Id(c) \in Asked
      BY <1>1, IdIs, Targets DEF IInv
    <3>2. sync[c].at \in {"prepare", "upload", "commit"} /\ b \in Blobs \cup {"none"}
      BY <1>1, <2>2, <3>1 DEF Syncs
    <3>3. [op |-> sync[c].at, by |-> c, id |-> Id(c), blob |-> b] \in Late
      BY <3>1, <3>2 DEF Late
    <3> QED
      BY <2>2, <3>3 DEF IInv, ITypes
  <2> QED
    BY <2>1, <2>2 DEF GiveUp
<1> QED
  BY <1>1, <1>2, <1>3, FailsIs

LEMMA EditFolderStep ==
  ASSUME IInv, NEW c \in Machines, NEW m \in Manifests, EditFolder(c, m)
  PROVE  IInv'
<1>1. /\ folder' = [folder EXCEPT ![c] = m]
      /\ UNCHANGED <<sync, told, stores, objects, sent, target, overdue, docset, behind>>
  BY DEF EditFolder, serverVars, nativeVars
<1>2. Handled /\ NativeRests
  BY <1>1, NothingHandled
<1>3. folder' \in [Machines -> Manifests] /\ overdue' \subseteq Late
  BY <1>1 DEF IInv, ITypes
<1> QED
  BY <1>1, <1>2, <1>3, StandBy

LEMMA ServeLateStep ==
  ASSUME IInv, NEW r \in overdue, ServeLate(r)
  PROVE  IInv'
<1> DEFINE c == r.by  s == target[c]  st == stores[s]
<1>1. /\ r.op \in {"prepare", "upload", "commit"} /\ c \in Machines
      /\ r.id \in Asked /\ r.blob \in Blobs \cup {"none"}
  BY DEF IInv, ITypes, Late
<1>2. r.id \in Ids
  BY <1>1, ManifestsAreFiles DEF Asked, Ids
<1>3. /\ overdue' = overdue \ {r}
      /\ UNCHANGED <<target, folder, sync, told, docset, behind>>
  BY DEF ServeLate, machineVars, nativeVars
<1>4. overdue' \subseteq Late /\ folder' \in [Machines -> Manifests]
  BY <1>3 DEF IInv, ITypes
<1>5. /\ s \in AllStores /\ Owner[c] \in Owners /\ Owner[c] # Nobody
  BY <1>1, Targets DEF IInv
<1>6. stores' = [stores EXCEPT ![s] = st] => UNCHANGED stores
  BY <1>5 DEF IInv, ITypes
<1>7. CASE UNCHANGED <<stores, objects, sent>>
  <2>1. Handled /\ NativeRests
    BY <1>3, <1>7, NothingHandled
  <2> QED
    BY <1>1, <1>3, <1>4, <2>1, StandBy
<1>8. CASE r.op = "prepare"
  <2>1. /\ UNCHANGED <<objects, sent>>
        /\ Put(s, IF Refused(st, Owner[c], r.id) THEN st ELSE Prepared(st, Owner[c], r.id))
    BY <1>8 DEF ServeLate
  <2>2. CASE Refused(st, Owner[c], r.id)
    BY <1>6, <1>7, <2>1, <2>2 DEF Put
  <2>3. CASE ~Refused(st, Owner[c], r.id)
    <3>1. Handled /\ NativeRests
      BY <1>1, <1>2, <1>3, <2>1, <2>3, PreparationIs
    <3> QED
      BY <1>1, <1>3, <1>4, <3>1, StandBy
  <2> QED
    BY <2>2, <2>3
<1>9. CASE r.op = "upload"
  <2> DEFINE asking == Asking(Owner[c], r.blob)
  <2>1. /\ stores' = Proved(asking, r.blob)
        /\ IF asking = {} THEN UNCHANGED <<objects, sent>>
           ELSE objects' = objects \cup {r.blob} /\ sent' = sent \cup {<<Owner[c], r.blob>>}
    BY <1>9 DEF ServeLate
  <2>2. CASE asking = {}
    <3>1. stores' = [x \in AllStores |-> stores[x]]
      BY <2>1, <2>2 DEF Proved
    <3>2. UNCHANGED stores
      BY <3>1 DEF IInv, ITypes
    <3> QED
      BY <1>7, <2>1, <2>2, <3>2
  <2>3. CASE asking # {}
    <3>1. r.blob \in Blobs
      <4>1. PICK x \in AllStores : \E id \in stores[x].pending : r.blob \in Hashes(id)
        BY <2>3 DEF Asking
      <4>2. PICK id \in stores[x].pending : r.blob \in Hashes(id)
        BY <4>1
      <4>3. id \in Ids
        BY <4>2, Parts DEF IInv, IStores
      <4> QED
        BY <4>2, <4>3, FilesAre DEF Ids, Hashes
    <3>2. asking \in SUBSET asking
      OBVIOUS
    <3> HIDE DEF asking
    <3>3. Handled /\ NativeRests
      BY <1>3, <1>5, <2>1, <2>3, <3>1, <3>2, BytesArrive DEF asking
    <3> QED
      BY <1>1, <1>3, <1>4, <3>3, StandBy
  <2> QED
    BY <2>2, <2>3
<1>10. CASE r.op = "commit"
  <2>1. /\ UNCHANGED <<objects, sent>>
        /\ Put(s, IF HasProof(st, r.id) /\ Committable(st, Owner[c], r.id)
                  THEN Published(st, r.id) ELSE st)
    BY <1>10 DEF ServeLate
  <2>2. CASE ~(HasProof(st, r.id) /\ Committable(st, Owner[c], r.id))
    BY <1>6, <1>7, <2>1, <2>2 DEF Put
  <2>3. CASE HasProof(st, r.id) /\ Committable(st, Owner[c], r.id)
    <3>1. Handled /\ NativeRests
      BY <1>1, <1>2, <1>3, <2>1, <2>3, CommitIs
    <3> QED
      BY <1>1, <1>3, <1>4, <3>1, StandBy
  <2> QED
    BY <2>2, <2>3
<1> QED
  BY <1>1, <1>8, <1>9, <1>10
-----------------------------------------------------------------------------
(* The server's own snapshots, and the collection *)

LEMMA CollectStep ==
  ASSUME IInv, CollectBlobs
  PROVE  IInv'
<1>1. PICK gone \in SUBSET (objects \ Kept) \ {{}} : objects' = objects \ gone
  BY DEF CollectBlobs
<1>2. UNCHANGED <<stores, sent, target, overdue, folder, sync, told, docset, behind>>
  BY DEF CollectBlobs, machineVars, nativeVars
<1>3. /\ objects' \subseteq objects
      /\ \A s \in AllStores : /\ objects \cap Named(stores[s]) \subseteq objects'
                              /\ \A id \in stores[s].pending : objects \cap Hashes(id) \subseteq objects'
  BY <1>1 DEF Kept
<1>4. \A s \in AllStores : Sound(s, stores[s], objects', sent)
  BY <1>3, StaysSound DEF IInv, IStores
<1>5. IStores'
  BY <1>2, <1>4 DEF IStores
<1>6. Handled
  BY <1>2, <1>3, <1>5, StandsStill DEF Handled, IInv, ITypes
<1>7. ITypes'
  BY <1>2, <1>3 DEF IInv, ITypes
<1>9. NativeHistoryFollows'
  BY <1>2 DEF IInv, NativeHistoryFollows, Latest
<1>8. IMachines'
  <2>1. /\ \A c \in Machines : OnItsWay(c, sync[c], stores'[target[c]], objects')
        /\ \A c \in Machines : \A id \in told[c] : Committed(stores'[target[c]], id)
    BY <1>6, OthersGoOn
  <2> QED
    BY <1>2, <2>1 DEF IMachines, ToldIsPublished
<1> QED
  BY <1>5, <1>7, <1>8, <1>9 DEF IInv

\* A manifest follows the docset through a leaf but for the paths in skip.
Follows(files, tree, skip) ==
  \A p \in DocsetPaths \ skip :
    /\ p \in DOMAIN files <=> p \in DOMAIN tree
    /\ p \in DOMAIN tree => files[p] = tree[p]

\* What becomes of a manifest when a leaf is applied to it.
Applied(files, leaf) ==
  IF leaf.op = "remove" THEN Removed(files, leaf.path) ELSE Written(files, leaf.path, leaf.blob)

LEMMA LeafIs ==
  ASSUME NEW leaf \in Leaves, NEW f \in Files
  PROVE  /\ leaf.path \in DocsetPaths
         /\ leaf.op = "remove" \/ (leaf.op = "write" /\ leaf.blob \in Blobs)
         /\ leaf.blob \in Blobs \cup {"none"}
         /\ Applied(f, leaf) \in Files
         /\ Range(Applied(f, leaf)) \subseteq Range(f) \cup ({leaf.blob} \ {"none"})
<1>1. /\ leaf.path \in DocsetPaths /\ leaf.blob \in Blobs \cup {"none"}
      /\ leaf.op = "remove" \/ (leaf.op = "write" /\ leaf.blob \in Blobs)
  BY DEF Leaves
<1>2. CASE leaf.op = "remove"
  BY <1>1, <1>2, RemovedIs DEF Applied
<1>3. CASE leaf.op = "write" /\ leaf.blob \in Blobs
  <2>1. leaf.blob # "none"
    BY <1>3, DocstoreAssumption
  <2>2. Applied(f, leaf) = Written(f, leaf.path, leaf.blob)
    BY <1>3 DEF Applied
  <2>3. /\ Written(f, leaf.path, leaf.blob) \in Files
        /\ Range(Written(f, leaf.path, leaf.blob)) \subseteq Range(f) \cup {leaf.blob}
    BY <1>1, <1>3, WrittenIs
  <2> QED
    BY <1>1, <2>1, <2>2, <2>3
<1> QED
  BY <1>1, <1>2, <1>3

\* Two trees that agree on a path still do once a leaf has been applied to both,
\* and do on the path of the leaf; where only one of them is written, elsewhere.
LEMMA AppliedToBoth ==
  ASSUME NEW leaf \in Leaves, NEW f \in Files, NEW t \in Files, NEW skip, Follows(f, t, skip)
  PROVE  /\ Follows(Applied(f, leaf), Applied(t, leaf), skip \ {leaf.path})
         /\ Follows(f, Applied(t, leaf), skip \cup {leaf.path})
<1> DEFINE p == leaf.path  f2 == Applied(f, leaf)  t2 == Applied(t, leaf)
<1>1. p \in DocsetPaths
  BY LeafIs
<1>2. CASE leaf.op = "remove"
  <2>1. /\ DOMAIN f2 = DOMAIN f \ {p} /\ \A q \in DOMAIN f \ {p} : f2[q] = f[q]
        /\ DOMAIN t2 = DOMAIN t \ {p} /\ \A q \in DOMAIN t \ {p} : t2[q] = t[q]
    BY <1>2, RemovedIs DEF Applied
  <2> HIDE DEF f2, t2, p
  <2> QED
    BY <2>1 DEF Follows, f2, t2, p
<1>3. CASE leaf.op = "write" /\ leaf.blob \in Blobs
  <2>1. /\ DOMAIN f2 = DOMAIN f \cup {p} /\ f2[p] = leaf.blob /\ \A q \in DOMAIN f \ {p} : f2[q] = f[q]
        /\ DOMAIN t2 = DOMAIN t \cup {p} /\ t2[p] = leaf.blob /\ \A q \in DOMAIN t \ {p} : t2[q] = t[q]
    BY <1>1, <1>3, WrittenIs DEF Applied
  <2> HIDE DEF f2, t2, p
  <2>2. Follows(f2, t2, skip \ {p})
    BY <2>1 DEF Follows
  <2>3. Follows(f, t2, skip \cup {p})
    BY <2>1 DEF Follows
  <2> QED
    BY <2>2, <2>3 DEF f2, t2, p
<1> QED
  BY <1>2, <1>3, LeafIs

\* The state file, the blobs and the docset after a commit of the write log.
LEMMA NativeStep ==
  ASSUME IInv, NEW leaf \in Leaves, NativeCommit(leaf)
  PROVE  IInv'
<1> DEFINE st == stores[NativeStore]
           after == Applied(docset, leaf)
           id == [parent |-> Len(st.snapshots), files |-> Recorded(st, after, leaf)]
           ready == [st EXCEPT !.owner = Server, !.pending = @ \cup {id}]
           puts == IF st.snapshots = <<>> THEN Range(after) ELSE {leaf.blob} \ {"none"}
<1>1. /\ docset' = after /\ UNCHANGED <<sent, target, folder, sync, told, overdue>>
      /\ \/ /\ objects' = objects \cup puts /\ Hashes(id) \subseteq objects'
            /\ Put(NativeStore, Published(ready, id))
            /\ behind' = IF st.snapshots = <<>> THEN {} ELSE behind \ {leaf.path}
         \/ /\ behind' = behind \cup {leaf.path}
            /\ \/ UNCHANGED stores /\ \E some \in SUBSET puts : objects' = objects \cup some
               \/ Put(NativeStore, ready) /\ objects' = objects \cup puts
  BY DEF NativeCommit, Applied, machineVars
<1>2. /\ NativeStore \in AllStores /\ NativeStore \notin SyncStores
      /\ docset \in Files /\ objects \subseteq Blobs
  BY DocstoreAssumption DEF IInv, ITypes, AllStores
<1>3. Sound(NativeStore, st, objects, sent)
  BY <1>2 DEF IInv, IStores
<1>4. /\ after \in Files /\ Range(after) \subseteq Blobs /\ leaf.path \in DocsetPaths
      /\ puts \subseteq Blobs
  BY <1>2, LeafIs, FilesAre
<1>5. st \in States /\ st.snapshots \in Seq(Ids) /\ Len(st.snapshots) \in Nat
  BY <1>3, Parts DEF Sound
<1>6. id.parent = Len(st.snapshots) /\ id.files = Recorded(st, after, leaf)
  OBVIOUS
<1>7. Recorded(st, after, leaf) = IF st.snapshots = <<>> THEN after ELSE Applied(Latest(st), leaf)
  BY DEF Recorded, Applied
<1>8. id \in Ids
  <2>1. Recorded(st, after, leaf) \in Files
    BY <1>4, <1>5, <1>7, LatestIs, LeafIs
  <2> HIDE DEF st, after
  <2> QED
    BY <1>5, <2>1 DEF Ids
<1> HIDE DEF after, id, puts, st
<1>9. Server # Nobody /\ Server \in Owners
  BY DEF Server, Nobody, Owners
<1>10. /\ ready \in States /\ ready.owner = Server /\ ready.snapshots = st.snapshots
       /\ ready.uploaded = st.uploaded /\ ready.pending = st.pending \cup {id}
  BY <1>5, <1>8, <1>9 DEF States
<1> HIDE DEF ready
<1>11. \A o : Sound(NativeStore, st, o, sent) => Sound(NativeStore, ready, o, sent)
  <2> SUFFICES ASSUME NEW o, Sound(NativeStore, st, o, sent) PROVE Sound(NativeStore, ready, o, sent)
    OBVIOUS
  <2>1. Named(ready) = Named(st) /\ \A x : Current(ready, x) <=> Current(st, x)
    BY <1>10 DEF Named, Current
  <2>2. Current(st, id)
    BY <1>6 DEF Current
  <2> QED
    BY <1>2, <1>9, <1>10, <2>1, <2>2 DEF Sound
<1>12. ASSUME objects \subseteq objects', objects' \subseteq Blobs, NEW new, Put(NativeStore, new),
              Sound(NativeStore, new, objects', sent)
       PROVE  Evolves(st, new) => Handled /\ stores'[NativeStore] = new
  BY <1>1, <1>2, <1>12, OneStore DEF st
<1>13. objects \subseteq objects' /\ objects' \subseteq Blobs
  BY <1>1, <1>2, <1>4
<1>14. Sound(NativeStore, st, objects', sent) /\ Sound(NativeStore, ready, objects', sent)
  BY <1>3, <1>11, <1>13, StaysSound
<1>15. st.snapshots # <<>> => Follows(Latest(st), docset, behind)
  BY DEF IInv, NativeHistoryFollows, Follows, st
<1>16. NativeHistoryFollows' <=>
         (stores'[NativeStore].snapshots # <<>> =>
            Follows(Latest(stores'[NativeStore]), docset', behind'))
  BY DEF NativeHistoryFollows, Follows
<1>17. ASSUME Handled, NativeHistoryFollows'
       PROVE  IInv'
  <2>1. ITypes'
    BY <1>1, <1>4, <1>13, <1>17 DEF IInv, ITypes, Handled
  <2>2. IMachines'
    <3>1. /\ \A c \in Machines : OnItsWay(c, sync[c], stores'[target[c]], objects')
          /\ \A c \in Machines : \A x \in told[c] : Committed(stores'[target[c]], x)
      BY <1>17, OthersGoOn
    <3> QED
      BY <1>1, <3>1 DEF IMachines, ToldIsPublished
  <2> QED
    BY <1>17, <2>1, <2>2 DEF IInv, Handled
\* The snapshot is made.
<1>18. CASE /\ objects' = objects \cup puts /\ Hashes(id) \subseteq objects'
            /\ Put(NativeStore, Published(ready, id))
            /\ behind' = IF st.snapshots = <<>> THEN {} ELSE behind \ {leaf.path}
  <2> DEFINE new == Published(ready, id)
  <2>1. Current(ready, id) /\ ready.owner # Nobody
    BY <1>6, <1>9, <1>10 DEF Current
  <2>2. /\ Sound(NativeStore, new, objects', sent) /\ Evolves(ready, new)
        /\ Latest(new) = id.files /\ new.snapshots # <<>>
    BY <1>2, <1>8, <1>14, <1>18, <2>1, Publication
  <2> HIDE DEF new
  <2>3. Evolves(st, new)
    <3>1. st.owner # Nobody => st.owner = ready.owner
      BY <1>3, <1>10 DEF Sound
    <3>2. /\ Range(st.snapshots) \subseteq Range(new.snapshots) /\ st.uploaded \subseteq new.uploaded
          /\ Len(st.snapshots) <= Len(new.snapshots) /\ new.owner = ready.owner
      BY <1>9, <1>10, <2>2 DEF Evolves
    <3>3. \A x \in new.pending : x \in st.pending \/ Current(st, x)
      <4>1. \A x \in new.pending : x \in st.pending \/ x = id \/ Current(ready, x)
        BY <1>10, <2>2 DEF Evolves
      <4> QED
        BY <1>6, <1>10, <4>1 DEF Current
    <3>4. Len(new.snapshots) = Len(st.snapshots) => st.pending \subseteq new.pending
      BY <1>10, <2>2 DEF Evolves
    <3> QED
      BY <3>1, <3>2, <3>3, <3>4 DEF Evolves
  <2>4. Handled /\ stores'[NativeStore] = new
    BY <1>12, <1>13, <1>18, <2>2, <2>3 DEF new
  <2>5. Follows(id.files, docset', behind')
    <3>1. CASE st.snapshots = <<>>
      BY <1>1, <1>6, <1>7, <3>1 DEF Follows
    <3>2. CASE st.snapshots # <<>>
      <4>1. Latest(st) \in Files
        BY <1>5, <3>2, LatestIs
      <4>2. Follows(Applied(Latest(st), leaf), Applied(docset, leaf), behind \ {leaf.path})
        BY <1>2, <1>15, <3>2, <4>1, AppliedToBoth
      <4> QED
        BY <1>1, <1>6, <1>7, <1>18, <3>2, <4>2 DEF after
    <3> QED
      BY <3>1, <3>2
  <2> QED
    BY <1>16, <1>17, <2>2, <2>4, <2>5
\* It is not; the manifest may be pending.
<1>19. ASSUME behind' = behind \cup {leaf.path}, Handled,
              stores'[NativeStore].snapshots = st.snapshots
       PROVE  IInv'
  <2>1. st.snapshots # <<>> => Follows(Latest(st), docset', behind')
    <3> SUFFICES ASSUME st.snapshots # <<>> PROVE Follows(Latest(st), docset', behind')
      OBVIOUS
    <3>1. Latest(st) \in Files
      BY <1>5, LatestIs
    <3>2. Follows(Latest(st), Applied(docset, leaf), behind \cup {leaf.path})
      BY <1>2, <1>15, <3>1, AppliedToBoth
    <3> QED
      BY <1>1, <1>19, <3>2 DEF after
  <2>2. Latest(stores'[NativeStore]) = Latest(st)
    BY <1>19 DEF Latest
  <2> QED
    BY <1>16, <1>17, <1>19, <2>1, <2>2
<1>20. CASE behind' = behind \cup {leaf.path} /\ UNCHANGED stores
  <2>1. IStores'
    <3>1. \A s \in AllStores : Sound(s, stores[s], objects', sent)
      BY <1>13, StaysSound DEF IInv, IStores
    <3> QED
      BY <1>1, <1>20, <3>1 DEF IStores
  <2>2. Handled
    BY <1>1, <1>13, <1>20, <2>1, StandsStill DEF Handled, IInv, ITypes
  <2> QED
    BY <1>19, <1>20, <2>2 DEF st
<1>21. CASE behind' = behind \cup {leaf.path} /\ Put(NativeStore, ready)
  <2>1. Evolves(st, ready)
    <3>1. st.owner # Nobody => st.owner = ready.owner
      BY <1>3, <1>10 DEF Sound
    <3>2. Current(st, id)
      BY <1>6 DEF Current
    <3> QED
      BY <1>5, <1>10, <3>1, <3>2 DEF Evolves
  <2>2. Handled /\ stores'[NativeStore] = ready
    BY <1>12, <1>13, <1>14, <1>21, <2>1
  <2> QED
    BY <1>10, <1>19, <1>21, <2>2
<1> QED
  BY <1>1, <1>18, <1>20, <1>21
-----------------------------------------------------------------------------
LEMMA InitIs ==
  ASSUME DocstoreInit
  PROVE  IInv
<1>1. ITypes
  <2>1. NoState \in States /\ NoSync \in Syncs
    <3>1. <<>> \in Seq(Ids) /\ Nobody \in Owners
      BY EmptySeq DEF Owners
    <3> QED
      BY <3>1, AtRest DEF NoState, States
  <2>2. docset \in Files
    BY ManifestsAreFiles DEF DocstoreInit
  <2> QED
    BY <2>1, <2>2 DEF DocstoreInit, ITypes
<1>2. IStores
  <2> SUFFICES ASSUME NEW s \in AllStores PROVE Sound(s, NoState, objects, sent)
    BY DEF DocstoreInit, IStores
  <2>1. /\ NoState \in States /\ NoState.owner = Nobody /\ NoState.snapshots = <<>>
        /\ NoState.pending = {} /\ NoState.uploaded = {}
    BY <1>1 DEF DocstoreInit, ITypes, NoState
  <2>2. Len(NoState.snapshots) = 0 /\ DOMAIN NoState.snapshots = {}
    BY <2>1, EmptySeq
  <2>3. Named(NoState) = {} /\ Authorized(NoState) = {}
    BY <2>1, <2>2 DEF Named, Authorized, Range
  <2>4. IsFiniteSet({}) /\ Cardinality({}) <= PendingCap
    BY FS_EmptySet, DocstoreAssumption
  <2> HIDE DEF NoState
  <2> QED
    BY <2>1, <2>2, <2>3, <2>4 DEF Sound
<1>3. IMachines
  BY AtRest DEF DocstoreInit, IMachines, ToldIsPublished
<1>4. NativeHistoryFollows
  BY DEF DocstoreInit, NativeHistoryFollows, NoState, AllStores
<1> QED
  BY <1>1, <1>2, <1>3, <1>4 DEF IInv

LEMMA StepKeeps ==
  ASSUME IInv, [DocstoreNext]_docstoreVars
  PROVE  IInv'
<1>1. ASSUME NEW c \in Machines, SyncStep(c)
      PROVE  IInv'
  BY <1>1, ScanStep, ListStep, PrepareStep, UploadStep, CommitStep DEF SyncStep
<1>2. ASSUME NEW c \in Machines, GiveUp(c)
      PROVE  IInv'
  BY <1>2, GiveUpStep
<1>3. ASSUME NEW c \in Machines, NEW m \in Manifests, EditFolder(c, m)
      PROVE  IInv'
  BY <1>3, EditFolderStep
<1>4. ASSUME NEW r \in overdue, ServeLate(r)
      PROVE  IInv'
  BY <1>4, ServeLateStep
<1>5. ASSUME NEW leaf \in Leaves, NativeCommit(leaf)
      PROVE  IInv'
  BY <1>5, NativeStep
<1>6. CASE CollectBlobs
  BY <1>6, CollectStep
<1>7. CASE UNCHANGED docstoreVars
  <2>1. UNCHANGED <<stores, objects, sent, target, folder, sync, told, overdue, docset, behind>>
    BY <1>7 DEF docstoreVars, serverVars, machineVars, nativeVars
  <2>2. ITypes'
    BY <2>1 DEF IInv, ITypes
  <2>3. IStores'
    BY <2>1 DEF IInv, IStores
  <2>4. IMachines'
    BY <2>1 DEF IInv, IMachines, ToldIsPublished
  <2>5. NativeHistoryFollows'
    BY <2>1 DEF IInv, NativeHistoryFollows, Latest
  <2> QED
    BY <2>2, <2>3, <2>4, <2>5 DEF IInv
<1> QED
  BY <1>1, <1>2, <1>3, <1>4, <1>5, <1>6, <1>7 DEF DocstoreNext

LEMMA KeepsItsWord ==
  ASSUME IInv
  PROVE  DocstoreKeepsItsWord
<1>1. \A s \in AllStores : Sound(s, stores[s], objects, sent)
  BY DEF IInv, IStores
<1>2. ASSUME NEW c \in Machines
      PROVE  /\ target[c] \in AllStores /\ sync[c] \in Syncs
             /\ OnItsWay(c, sync[c], stores[target[c]], objects)
  BY Targets DEF IInv, IMachines
<1>3. DocstoreTypeOK
  <2>1. objects \subseteq Blobs /\ overdue \in SUBSET Late
    BY DEF IInv, ITypes
  <2>2. \A s \in AllStores :
          /\ stores[s].owner = Nobody <=> stores[s].snapshots = <<>> /\ stores[s].pending = {}
          /\ s \in SyncStores => Cardinality(stores[s].pending) <= PendingCap
          /\ stores[s].uploaded \subseteq Blobs
    BY <1>1, Parts DEF Sound
  <2>3. \A c \in Machines :
          /\ sync[c].at \in {"idle", "list", "prepare", "upload", "commit"}
          /\ sync[c].missing \subseteq Range(sync[c].files)
    BY <1>2 DEF Syncs, OnItsWay
  <2> QED
    BY <2>1, <2>2, <2>3 DEF DocstoreTypeOK, Late, Asked
<1>4. SyncsBuildOnEachOther
  BY <1>1 DEF Sound, SyncsBuildOnEachOther
<1>5. PublishedCanBeRead
  <2> SUFFICES ASSUME NEW s \in AllStores
               PROVE  /\ Named(stores[s]) \subseteq objects
                      /\ s \in SyncStores => Named(stores[s]) \subseteq
                           {b \in Blobs : <<stores[s].owner, b>> \in sent}
    BY DEF PublishedCanBeRead
  <2>1. /\ Named(stores[s]) \subseteq objects /\ Named(stores[s]) \subseteq Blobs
        /\ Named(stores[s]) \subseteq Authorized(stores[s])
        /\ s \in SyncStores => \A x \in Authorized(stores[s]) : <<stores[s].owner, x>> \in sent
    BY <1>1, Parts DEF Sound, Authorized
  <2> QED
    BY <2>1
<1>6. AnswersToPrepareHold
  <2> SUFFICES ASSUME NEW c \in Machines, sync[c].at \in {"upload", "commit"},
                      Id(c) \in stores[target[c]].pending
               PROVE  Hashes(Id(c)) \ sync[c].missing
                        \subseteq objects \cap Authorized(stores[target[c]])
    BY DEF AnswersToPrepareHold
  <2>1. Id(c) = IdOf(sync[c])
    BY DEF Id, IdOf
  <2> QED
    BY <1>2, <2>1 DEF OnItsWay, Prepares
<1>7. ToldIsPublished /\ NativeHistoryFollows
  BY DEF IInv, IMachines
<1> QED
  BY <1>3, <1>4, <1>5, <1>6, <1>7 DEF DocstoreKeepsItsWord

(* What the docstore has published stays, each snapshot on the one its       *)
(* machine had seen, every blob of it can be read and was sent by the        *)
(* store's owner, and the docset's history follows the docset: prepare, PUT  *)
(* of a blob and commit of docstore.go, in any order and however late they   *)
(* come, with snapshotNativeCommit and the collection of blobs between them. *)
THEOREM KeepsWhatItPublished == DocstoreSpec => []DocstoreKeepsItsWord
<1>1. DocstoreInit => IInv
  BY InitIs
<1>2. IInv /\ [DocstoreNext]_docstoreVars => IInv'
  BY StepKeeps
<1>3. IInv => DocstoreKeepsItsWord
  BY KeepsItsWord
<1> QED
  BY <1>1, <1>2, <1>3, PTL DEF DocstoreSpec
=============================================================================
