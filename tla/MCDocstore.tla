----------------------------- MODULE MCDocstore -----------------------------
(* Three machines, two of ann's and one of bob's, and two stores.  In a     *)
(* behaviour two of them sync, ann's two or one of hers and bob's, or only  *)
(* one, while agents write to the docset.                                   *)
EXTENDS Docstore, TLC

CONSTANTS laptop, desktop, guest

VARIABLE users   \* the machines that somebody syncs
usersVars == <<users, docstoreVars>>

MCMachines == {laptop, desktop, guest}
MCOwner == [c \in MCMachines |-> IF c = guest THEN "bob" ELSE "ann"]
MCManifests == {"p" :> "x", "p" :> "y", ("p" :> "x") @@ ("q" :> "y")}

\* Machines that nobody syncs rest with any folder, and so does the docset.
AtRest == "p" :> "x"
Syncing(us) ==
  /\ users = us /\ DocstoreInit /\ unsynced = us
  /\ \A c \in MCMachines : target[c] = "git" \/ (c = guest /\ us = {laptop, guest})
  /\ \A c \in MCMachines \ us : folder[c] = AtRest
  /\ docset = AtRest \/ us = {laptop}
UsersInit == \E us \in {{laptop, desktop}, {laptop, guest}, {laptop}} : Syncing(us)

\* Two edits and two mishaps are for a machine that is alone, with no agent; one
\* of each for ann's two machines, and one in all when bob is there.
WithinUse ==
  /\ natives' > 0 => users = {laptop} /\ edits' = 0 /\ mishaps' <= 1
  /\ edits' > 1 \/ mishaps' > 1 => users = {laptop} /\ docset = AtRest
  /\ users = {laptop, guest} => edits' + mishaps' <= 1

UsersNext ==
  /\ DocstoreNext /\ UNCHANGED users
  /\ unsynced' \subseteq users /\ WithinUse
=============================================================================
