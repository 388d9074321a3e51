------------------------------ MODULE MCCommits ------------------------------
(* The write log, and the document store that its applier's journal keeps   *)
(* snapshots in and machines sync their folders to.  They share no state    *)
(* the models keep, so the run explores them one at a time: moves names     *)
(* the one that moves, and the other rests where it starts.                 *)
EXTENDS MCWriteLog, MCDocstore

VARIABLE moves   \* "log" or "docstore"
commitsVars == <<moves, vars, usersVars>>

CommitsInit ==
  /\ moves \in {"log", "docstore"} /\ Init
  /\ IF moves = "docstore" THEN UsersInit ELSE Syncing({})
CommitsNext ==
  /\ UNCHANGED moves
  /\ \/ moves = "log" /\ Next /\ UNCHANGED usersVars
     \/ moves = "docstore" /\ UsersNext /\ UNCHANGED vars

\* The fairness of the write log, for the one that moves; and of the document
\* store: a sync goes on, and one that has failed is run again.
LogFair ==
  /\ \A c \in Clients : WF_vars(moves = "log" /\ (Refuse(c) \/ Admit(c) \/ Send(c)
          \/ GiveUpSending(c) \/ GiveUpWaiting(c) \/ Receive(c)))
  /\ WF_vars(moves = "log" /\ ApplierStep)
  /\ \A w \in Writers : WF_vars(moves = "log" /\ WriterStep(w))
DocstoreFair == \A c \in Machines : WF_docstoreVars(moves = "docstore" /\ SyncStep(c))

CommitsSpec == CommitsInit /\ [][CommitsNext]_commitsVars /\ LogFair /\ DocstoreFair
=============================================================================
