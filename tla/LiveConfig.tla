----------------------------- MODULE LiveConfig -----------------------------
(* The live configuration (pkg/openlore/live_config.go,                     *)
(* config_management.go, config_fs.go): updates and reloads of lore.json    *)
(* under authMu, published through the queue of the write log, amid writes  *)
(* that were admitted by an older configuration, reads that capture one,    *)
(* edits of the file by sessions and by the host, failures and restarts.    *)
EXTENDS Naturals, Sequences

CONSTANTS
  Delegates,    \* who may be a delegate of the principal
  PolicyRoles,  \* roles the writer may hold and its docset may allow
  MaxUpdates,   \* bound: updates and reloads
  MaxSaves,     \* bound: edits of the file by a session
  MaxHostEdits, \* bound: edits of the file by the host
  MaxStops      \* bound: restarts of the server

ASSUME LiveAssumption == "nobody" \notin Delegates /\ "invalid" \notin PolicyRoles

VARIABLES
  file,      \* lore.json, or Invalid (durable)
  live,      \* the configuration that runs, or Invalid while the server is down
  queue,     \* of the write log: writes, and configurations to install
  authMu,    \* who holds the mutex, and how far it has come
  writer,    \* a session that writes a file of the docset
  reader,    \* a session that reads it
  editor,    \* a session that edits lore.json
  want,      \* for checking: what the last update did to each delegate
  revoked,   \* for checking: it was acknowledged that the writer may not write
  barred,    \* for checking: it was acknowledged that the editor may not edit
  written,   \* for checking: the writes that were committed
  spent

liveVars == <<file, live, queue, authMu, writer, reader, editor, want, revoked, barred,
              written, spent>>

Invalid == [delegates |-> {}, role |-> "invalid", opens |-> "none", editable |-> FALSE]
LiveConfigs == [delegates : SUBSET Delegates, role : PolicyRoles, opens : PolicyRoles,
                editable : BOOLEAN]
Unlocked == [op |-> "none", about |-> "nobody", next |-> Invalid, at |-> "free"]
Away == [at |-> "idle", role |-> "none"]
NotReading == [at |-> "idle", role |-> "none", opens |-> "none", during |-> {}]
NotEditing == [at |-> "idle", seen |-> Invalid, next |-> Invalid]
Running == live # Invalid
Free == authMu = Unlocked

\* The writer holds a role, and the docset allows it to write.
Allows(c) == c # Invalid /\ c.role = c.opens

\* Another configuration runs from now on.
Publish(c) ==
  /\ live' = c
  /\ revoked' = (revoked /\ ~Allows(c)) /\ barred' = (barred /\ ~c.editable)
  /\ reader' = IF reader.at = "idle" THEN reader
               ELSE [reader EXCEPT !.during = @ \cup {Allows(c)}]
-----------------------------------------------------------------------------
(* updateAuth and reloadAuth *)

\* An update of a delegate begins from what runs, a reload from the file.
Candidate(op, d) ==
  CASE op = "add"    -> [live EXCEPT !.delegates = @ \cup {d}]
    [] op = "remove" -> [live EXCEPT !.delegates = @ \ {d}]
    [] op = "reload" -> file

Begin(op, d) ==
  /\ Running /\ Free /\ spent.updates < MaxUpdates
  /\ op = "remove" => d \in live.delegates
  /\ op = "reload" <=> d = "nobody"
  /\ spent' = [spent EXCEPT !.updates = @ + 1]
  /\ authMu' = [op |-> op, about |-> d, next |-> Candidate(op, d), at |-> "prepared"]
  /\ UNCHANGED <<file, live, queue, writer, reader, editor, want, revoked, barred, written>>

\* It is refused, or its temporary file cannot be written.
GiveUp ==
  /\ authMu.at = "prepared" /\ authMu.op # "edit" /\ authMu' = Unlocked
  /\ UNCHANGED <<file, live, queue, writer, reader, editor, want, revoked, barred, written, spent>>

\* Or it goes to the queue of the write log, with the mutex held.
Enqueue ==
  /\ authMu.at = "prepared" /\ authMu.op # "edit" /\ authMu.next # Invalid
  /\ queue' = Append(queue, "install") /\ authMu' = [authMu EXCEPT !.at = "queued"]
  /\ UNCHANGED <<file, live, writer, reader, editor, want, revoked, barred, written, spent>>

\* The applier: the file first, then what runs.  A rename that fails leaves both.
Install ==
  /\ queue # <<>> /\ Head(queue) = "install" /\ queue' = Tail(queue)
  /\ \/ file' = (IF authMu.op = "reload" THEN file ELSE authMu.next)
        /\ Publish(authMu.next) /\ authMu' = [authMu EXCEPT !.at = "installed"]
        /\ want' = [d \in Delegates |-> IF d # authMu.about THEN want[d]
                                        ELSE IF authMu.op = "add" THEN "in" ELSE "out"]
     \/ authMu.op # "reload" /\ authMu' = [authMu EXCEPT !.at = "failed"]
        /\ UNCHANGED <<file, live, revoked, barred, reader, want>>
  /\ UNCHANGED <<writer, editor, written, spent>>

\* The caller hears of it.
Acknowledge ==
  /\ authMu.at \in {"installed", "failed"} /\ authMu' = Unlocked
  /\ IF authMu.at = "failed" THEN UNCHANGED <<revoked, barred>>
     ELSE revoked' = ~Allows(live) /\ barred' = ~live.editable
  /\ UNCHANGED <<file, live, queue, writer, reader, editor, want, written, spent>>
-----------------------------------------------------------------------------
(* Writes and reads of a session *)

\* Admission reads the writer's role, and then the docset: what runs may change
\* in between.
AdmitRole ==
  /\ Running /\ writer = Away /\ writer' = [at |-> "asks", role |-> live.role]
  /\ UNCHANGED <<file, live, queue, authMu, reader, editor, want, revoked, barred, written, spent>>
AdmitDocset ==
  /\ writer.at = "asks"
  /\ IF writer.role = live.opens
     THEN queue' = Append(queue, "write") /\ writer' = [writer EXCEPT !.at = "queued"]
     ELSE writer' = Away /\ UNCHANGED queue
  /\ UNCHANGED <<file, live, authMu, reader, editor, want, revoked, barred, written, spent>>

\* Mutant: what admission found is good enough for the applier.
GrantedAtAdmission(c) == writer.at = "queued"

\* The pre-apply hook authorizes the write once more.
Granted(c) == Allows(c)
ApplyWrite ==
  /\ queue # <<>> /\ Head(queue) = "write" /\ queue' = Tail(queue) /\ writer' = Away
  /\ written' = (IF Granted(live) THEN 1 - written ELSE written)
  /\ UNCHANGED <<file, live, authMu, reader, editor, want, revoked, barred, spent>>

\* A read captures what runs, and works with that to its end.
Capture ==
  /\ Running /\ reader = NotReading
  /\ reader' = [at |-> "reads", role |-> live.role, opens |-> live.opens,
                during |-> {Allows(live)}]
  /\ UNCHANGED <<file, live, queue, authMu, writer, editor, want, revoked, barred, written, spent>>
Shown == reader.role = reader.opens
EndRead ==
  /\ reader.at = "reads" /\ reader' = NotReading
  /\ UNCHANGED <<file, live, queue, authMu, writer, editor, want, revoked, barred, written, spent>>
-----------------------------------------------------------------------------
(* Edits of the file *)

\* A session opens the file, and later saves it with other grants, on condition
\* that it is still the file it opened.
OpenFile ==
  /\ Running /\ live.editable /\ editor = NotEditing
  /\ editor' = [at |-> "opened", seen |-> file, next |-> Invalid]
  /\ UNCHANGED <<file, live, queue, authMu, writer, reader, want, revoked, barred, written, spent>>
Save(role, opens, editable) ==
  /\ Running /\ editor.at = "opened" /\ live.editable /\ spent.saves < MaxSaves
  /\ spent' = [spent EXCEPT !.saves = @ + 1]
  /\ editor' = [editor EXCEPT !.at = "waits",
                  !.next = [editor.seen EXCEPT !.role = role, !.opens = opens, !.editable = editable]]
  /\ UNCHANGED <<file, live, queue, authMu, writer, reader, want, revoked, barred, written>>

\* With the mutex: the authority once more, and the condition.
CheckEdit ==
  /\ editor.at = "waits" /\ Free
  /\ IF live.editable /\ editor.seen = file
     THEN authMu' = [op |-> "edit", about |-> "nobody", next |-> editor.next, at |-> "prepared"]
          /\ UNCHANGED editor
     ELSE editor' = NotEditing /\ UNCHANGED authMu
  /\ UNCHANGED <<file, live, queue, writer, reader, want, revoked, barred, written, spent>>
LandEdit ==
  /\ authMu.op = "edit" /\ authMu' = Unlocked /\ editor' = NotEditing
  /\ file' \in {file, authMu.next}
  /\ UNCHANGED <<live, queue, writer, reader, want, revoked, barred, written, spent>>

\* Somebody on the host writes whatever it likes, minding no mutex.
HostEdit(c) ==
  /\ spent.edits < MaxHostEdits /\ spent' = [spent EXCEPT !.edits = @ + 1]
  /\ file' = c /\ want' = [d \in Delegates |-> "any"]
  /\ UNCHANGED <<live, queue, authMu, writer, reader, editor, revoked, barred, written>>
-----------------------------------------------------------------------------
\* The server stops at any moment; what was not acknowledged may have happened.
StopServer ==
  /\ Running /\ spent.stops < MaxStops /\ spent' = [spent EXCEPT !.stops = @ + 1]
  /\ live' = Invalid /\ queue' = <<>> /\ authMu' = Unlocked
  /\ writer' = Away /\ reader' = NotReading /\ editor' = NotEditing
  /\ revoked' = FALSE /\ barred' = FALSE
  /\ UNCHANGED <<file, want, written>>
StartAgain ==
  /\ ~Running /\ file # Invalid /\ Publish(file)
  /\ UNCHANGED <<file, queue, authMu, writer, editor, want, written, spent>>

LiveInit ==
  /\ file \in LiveConfigs /\ file.delegates = {} /\ file.editable /\ Allows(file)
  /\ live = file /\ queue = <<>> /\ authMu = Unlocked
  /\ writer = Away /\ reader = NotReading /\ editor = NotEditing
  /\ want = [d \in Delegates |-> "any"] /\ revoked = FALSE /\ barred = FALSE /\ written = 0
  /\ spent = [updates |-> 0, saves |-> 0, edits |-> 0, stops |-> 0]

LiveNext ==
  \/ \E d \in Delegates, op \in {"add", "remove"} : Begin(op, d)
  \/ Begin("reload", "nobody")
  \/ GiveUp \/ Enqueue \/ Install \/ Acknowledge
  \/ AdmitRole \/ AdmitDocset \/ ApplyWrite \/ Capture \/ EndRead
  \/ OpenFile \/ CheckEdit \/ LandEdit
  \/ \E r, o \in PolicyRoles, e \in BOOLEAN : Save(r, o, e)
  \/ \E c \in LiveConfigs \cup {Invalid} : HostEdit(c)
  \/ StopServer \/ StartAgain
-----------------------------------------------------------------------------
(* Properties *)

InQueue(x) == \E i \in DOMAIN queue : queue[i] = x

\* What is in the queue of the write log is what the mutex's holder and the
\* writer wait for.
LiveTypeOK ==
  /\ {file, live} \subseteq LiveConfigs \cup {Invalid}
  /\ authMu.at \in {"free", "prepared", "queued", "installed", "failed"}
  /\ queue \in Seq({"install", "write"}) /\ \A i, j \in DOMAIN queue : queue[i] = queue[j] => i = j
  /\ InQueue("install") <=> authMu.at = "queued"
  /\ InQueue("write") <=> writer.at = "queued"

\* What an update did to a delegate is in force and in the file, whatever else
\* was updated, edited, reloaded or restarted since; until the next change of
\* that delegate, and unless the host has written over it.
UpdatesStay ==
  \A d \in Delegates : want[d] # "any" =>
    \A c \in {file, live} \ {Invalid} : d \in c.delegates <=> want[d] = "in"

\* A change that fails leaves both the file and what runs: while nobody has
\* edited the file, a restart runs what ran before.
RestartsKeepConfig ==
  Running /\ spent.saves + spent.edits = 0 /\ Free => file = live

\* Once it is acknowledged that a writer lost its grant, or an editor its
\* capability, none of their requests that were admitted before goes through.
RevocationsHold ==
  /\ revoked => written' = written
  /\ barred /\ authMu.op = "edit" /\ authMu' = Unlocked => file' = file

\* A read shows what one configuration shows that ran at some time of the read.
ReadsSeeOneConfig == reader.at = "reads" => Shown \in reader.during

\* The configuration is replaced as a whole, for good, for everybody.
ConfigIsCurrent ==
  [][/\ LiveTypeOK' /\ UpdatesStay' /\ RestartsKeepConfig' /\ ReadsSeeOneConfig'
     /\ RevocationsHold]_liveVars

LiveSpec == LiveInit /\ [][LiveNext]_liveVars
=============================================================================
