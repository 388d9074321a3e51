----------------------------- MODULE MCSession ------------------------------
(* Three sessions; one has a shell and a spawned job.  The run explores     *)
(* three worlds one after the other, each with the threads, verbs, files    *)
(* and bounds that make its hazards happen: world is chosen at the start.   *)
(* A fourth is the configuration that sessions are served under.            *)
EXTENDS Session, LiveConfig, TLC

CONSTANTS shell, job, other, lone, mine, theirs, hers

SharedSession ==
  (shell :> mine) @@ (job :> mine) @@ (other :> theirs) @@ (lone :> hers)
\* The verbs of each session in any world; only the first one moves files.
MCVerbs ==
  (mine :> {"overwrite", "append", "mv"}) @@ (hers :> {"cat", "overwrite", "sed"})
    @@ (theirs :> {"overwrite", "append", "patch", "rm", "rmtree"})

\* The two threads of a session differ in nothing but what they do.
SessionSymmetry == Permutations({shell, job})

VARIABLE world

\* contended: two threads of one session and one of another write one file.
\* held: one change of two sessions may be parked, and three commits land.
\* moving: files are moved, overwritten and removed with their directory.
World ==
  [contended |-> [threads |-> {shell, job, other}, files |-> {"f"}, commits |-> 2, parked |-> 0,
                  verbs |-> (mine :> {"overwrite", "append"})
                              @@ (theirs :> {"append", "rm"})],
   held |-> [threads |-> {lone, other}, files |-> {"f"}, commits |-> 3, parked |-> 1,
             verbs |-> (hers :> {"cat", "overwrite", "sed"}) @@ (theirs :> {"overwrite", "patch"})],
   moving |-> [threads |-> {shell, other}, files |-> {"f", "g"}, commits |-> 2, parked |-> 1,
               verbs |-> (mine :> {"overwrite", "mv"}) @@ (theirs :> {"overwrite", "rmtree"})]]

\* A step stays within the world: its threads, verbs, files and bounds.  The
\* third commit leaves nothing parked: what would be parked still could only
\* be refused, as it is after two.
Within(w) ==
  /\ commits' <= w.commits /\ Cardinality(parked') <= w.parked
  /\ commits' = 3 => parked' = {}
  /\ \A t \in Threads : op'[t] = Idle \/
       (t \in w.threads /\ op'[t].verb \in w.verbs[Me(t)] /\ {op'[t].src, op'[t].dst} \subseteq w.files)

\* The configuration starts from either role alike, so from one of them.
OneRoleFirst == LiveInit /\ file.role = CHOOSE r \in PolicyRoles : TRUE
\* Bound: edits of the file and stops of the server, together.
EditsAndStops == spent'.saves + spent'.edits + spent'.stops <= 2

FilesAtRest == IF world = "config" THEN Files ELSE Files \ World[world].files

WorldsInit ==
  /\ Init /\ OneRoleFirst /\ world \in DOMAIN World \cup {"config"}
  /\ \A f \in FilesAtRest : disk[f] = None
WorldsNext ==
  /\ UNCHANGED world
  /\ \/ world # "config" /\ Next /\ Within(World[world]) /\ UNCHANGED liveVars
     \/ world = "config" /\ LiveNext /\ EditsAndStops /\ UNCHANGED vars
worldVars == <<world, vars, liveVars>>
WorldsSpec == WorldsInit /\ [][WorldsNext]_worldVars
=============================================================================
