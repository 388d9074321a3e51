--------------------------- MODULE Session_proofs ---------------------------
(***************************************************************************)
(* What Session and LiveConfig show on small instances, for any number of  *)
(* sessions, threads, files, texts, retries, delegates and roles.          *)
(***************************************************************************)
EXTENDS Session, LiveConfig, TLAPS

(* Types: on the way to a submission an operation has what the applier needs *)

Ready(o) ==
  /\ o \in Ops /\ o.verb # "cat"
  /\ o.verb \in {"append", "sed", "patch", "mv"} => o.base \in Contents
PhaseOK(l, o) ==
  /\ l = "read" => o.verb \in ReadVerbs
  /\ l = "note" => o.verb \in ReadVerbs /\ o.base \in Contents
  /\ l \in {"resolve", "fallback", "notebase"} => o.verb \in {"overwrite", "mv"} /\ Ready(o)
  /\ l = "notebase" => o.cond \in Contents
  /\ l \in {"submit", "settle"} => Ready(o)
IPhases == \A t \in Threads : PhaseOK(pc[t], op[t])
IParked == \A p \in parked : Ready(p.op)
ITypeOK == TypeOK /\ IPhases /\ IParked

\* The part of the types that is not about the threads.
DataOK ==
  /\ disk \in [Files -> {None} \cup Contents]
  /\ tracked \in [Sessions -> [Files -> {None} \cup Contents]]
  /\ commits \in 0..MaxCommits /\ rivals \in [Threads -> 0..MaxRetries]
  /\ parked \subseteq [by : Threads, op : Ops] /\ IParked
  /\ seen \in [Sessions -> [Files -> SUBSET Contents]] /\ behind \in [Sessions -> SUBSET Files]

\* An operation under way is a proper one.
LEMMA UnderWay ==
  ASSUME TypeOK, NEW t \in Threads, pc[t] # "idle"
  PROVE  op[t] \in Ops /\ op[t] # Idle
BY DEF TypeOK

\* A verb starts as a proper operation.
LEMMA OpType ==
  ASSUME NEW v \in {"cat", "overwrite", "append", "sed", "patch", "rm", "rmtree", "mv"},
         NEW s \in Files, NEW d \in Files, NEW x \in Texts
  PROVE  Op(v, s, d, x) \in Ops /\ Op(v, s, d, x) # Idle
BY SessionAssumption DEF Op, Ops, Idle

Labels == {"read", "note", "resolve", "fallback", "notebase", "submit", "settle"}
Results == {"ok", "stale", "moved", "contention", "error", "pending"}

\* Moving on to a step whose needs are met keeps the types, if the data does.
LEMMA GotoType ==
  ASSUME ITypeOK, DataOK', NEW t \in Threads, NEW o \in Ops, o # Idle,
         NEW l \in Labels, Goto(t, l, o), PhaseOK(l, o)
  PROVE  ITypeOK'
<1>1. pc' = [pc EXCEPT ![t] = l] /\ op' = [op EXCEPT ![t] = o] /\ res' = res
  BY DEF Goto
<1>2. TypeOK'
  BY <1>1 DEF ITypeOK, TypeOK, DataOK, Labels
<1>3. IPhases'
  BY <1>1 DEF ITypeOK, TypeOK, IPhases
<1> QED
  BY <1>2, <1>3 DEF ITypeOK, DataOK

\* So does ending.
LEMMA EndType ==
  ASSUME ITypeOK, DataOK', NEW t \in Threads, NEW r \in Results, End(t, r)
  PROVE  ITypeOK'
<1>1. pc' = [pc EXCEPT ![t] = "idle"] /\ op' = [op EXCEPT ![t] = Idle]
      /\ res' = [res EXCEPT ![t] = r]
  BY DEF End
<1>2. TypeOK'
  BY <1>1 DEF ITypeOK, TypeOK, DataOK, Results
<1>3. IPhases'
  BY <1>1 DEF ITypeOK, TypeOK, IPhases, PhaseOK
<1> QED
  BY <1>2, <1>3 DEF ITypeOK, DataOK

\* Looking at a file keeps the types of what was seen.
LEMMA LookType ==
  ASSUME TypeOK, NEW t \in Threads, NEW f \in Files, Look(t, f)
  PROVE  /\ seen' \in [Sessions -> [Files -> SUBSET Contents]]
         /\ behind' \in [Sessions -> SUBSET Files]
BY SessionAssumption DEF TypeOK, Look, Me

\* What the applier writes has the type of the files.
LEMMA ProposedType ==
  ASSUME NEW o, Ready(o), o.verb \notin {"rm", "rmtree"}
  PROVE  Proposed(o) \in Contents
<1>1. CASE o.verb = "overwrite"
  BY <1>1 DEF Proposed, Ready, Ops, Contents
<1>2. CASE o.verb = "mv"
  BY <1>2 DEF Proposed, Ready, Ops
<1>3. CASE o.verb \in {"append", "sed", "patch"}
  BY <1>3 DEF Proposed, Ready, Ops, Contents
<1> QED
  BY <1>1, <1>2, <1>3 DEF Ready, Ops

\* The files after a change are files.
LEMMA AfterType ==
  ASSUME TypeOK, NEW o, Ready(o)
  PROVE  After(o) \in [Files -> {None} \cup Contents]
<1>1. CASE o.verb \in {"rm", "rmtree", "mv"}
  BY <1>1 DEF TypeOK, After, Ready, Ops
<1>2. CASE o.verb \notin {"rm", "rmtree", "mv"}
  BY <1>2, ProposedType DEF TypeOK, After, Ready, Ops
<1> QED
  BY <1>1, <1>2

\* Applying a change keeps the types of the data.
LEMMA ApplyType ==
  ASSUME TypeOK, NEW o, Ready(o), NEW by, NEW t, Apply(o, by, t)
  PROVE  /\ disk' \in [Files -> {None} \cup Contents]
         /\ commits' \in 0..MaxCommits /\ rivals' \in [Threads -> 0..MaxRetries]
         /\ seen' \in [Sessions -> [Files -> SUBSET Contents]]
         /\ behind' \in [Sessions -> SUBSET Files]
<1>1. disk' \in [Files -> {None} \cup Contents]
  BY AfterType DEF Apply
<1>2. commits' \in 0..MaxCommits
  BY SessionAssumption DEF Apply, TypeOK
<1>3. rivals' \in [Threads -> 0..MaxRetries]
  <2>1. \A u \in Threads : rivals[u] \in 0..MaxRetries
    BY DEF TypeOK
  <2>2. \A u \in Threads : rivals[u] < MaxRetries => rivals[u] + 1 \in 0..MaxRetries
    BY <2>1, SessionAssumption
  <2> QED
    BY <2>1, <2>2 DEF Apply
<1>4. seen' \in [Sessions -> [Files -> SUBSET Contents]]
  <2>1. o.verb \notin {"rm", "rmtree"} => Proposed(o) \in Contents
    BY ProposedType
  <2> QED
    BY <2>1 DEF Apply, TypeOK
<1>5. behind' \in [Sessions -> SUBSET Files]
  BY DEF Apply, TypeOK
<1> QED
  BY <1>1, <1>2, <1>3, <1>4, <1>5
-----------------------------------------------------------------------------
\* The first states are well-typed.
LEMMA InitType == Init => ITypeOK
<1> SUFFICES ASSUME Init PROVE ITypeOK
  OBVIOUS
<1>1. \A x \in Texts : <<x>> \in Contents
  BY DEF Contents
<1>2. disk \in [Files -> {None} \cup Contents]
  BY <1>1 DEF Init
<1>3. TypeOK
  BY <1>2, SessionAssumption DEF Init, TypeOK, Idle
<1>4. IPhases /\ IParked
  BY DEF Init, IPhases, PhaseOK, IParked
<1> QED
  BY <1>3, <1>4 DEF ITypeOK

\* Choosing a verb keeps the types.
LEMMA StartType ==
  ASSUME ITypeOK, NEW t \in Threads, Start(t)
  PROVE  ITypeOK'
<1>1. PICK v \in Verbs[Me(t)], s \in Files, d \in Files, x \in Texts :
        op' = [op EXCEPT ![t] = Op(v, s, d, x)] /\ pc' = [pc EXCEPT ![t] = FirstStep(v)]
  BY DEF Start
<1>2. v \in {"cat", "overwrite", "append", "sed", "patch", "rm", "rmtree", "mv"}
  BY <1>1, SessionAssumption DEF Me
<1> DEFINE n == Op(v, s, d, x)
<1>3. n \in Ops /\ n # Idle /\ n.verb = v
  BY <1>2, OpType DEF Op
<1>4. FirstStep(v) \in Labels
  BY DEF FirstStep, Labels
<1>5. v \notin ReadVerbs => Ready(n)
  BY <1>2, <1>3 DEF Ready, ReadVerbs
<1>6. PhaseOK(FirstStep(v), n)
  BY <1>2, <1>3, <1>5 DEF PhaseOK, FirstStep
<1>7. TypeOK'
  BY <1>1, <1>3, <1>4, SessionAssumption DEF Start, ITypeOK, TypeOK, Labels
<1>8. IPhases'
  BY <1>1, <1>6 DEF ITypeOK, TypeOK, IPhases
<1> QED
  BY <1>7, <1>8 DEF Start, ITypeOK, IParked

\* Reading the base keeps the types: what goes on to submit has what it needs.
LEMMA ReadType ==
  ASSUME ITypeOK, NEW t \in Threads, Read(t)
  PROVE  ITypeOK'
<1> DEFINE o == op[t]
<1>1. pc[t] = "read" /\ o \in Ops /\ o # Idle /\ o.verb \in ReadVerbs /\ o.src \in Files
  BY UnderWay DEF Read, ITypeOK, IPhases, PhaseOK, Ops
<1>2. DataOK'
  BY <1>1, LookType DEF Read, ITypeOK, TypeOK, DataOK, IParked
<1>3. CASE disk[o.src] # None
  <2> DEFINE n == [o EXCEPT !.base = disk[o.src],
                     !.cond = IF o.verb \in {"append", "patch"} \/ o.dst \in HashFiles
                                THEN disk[o.src] ELSE Always]
  <2>1. disk[o.src] \in Contents
    BY <1>1, <1>3 DEF ITypeOK, TypeOK
  <2>2. n \in Ops /\ n # Idle /\ n.base \in Contents /\ n.verb \in ReadVerbs
    BY <1>1, <2>1 DEF Ops, Idle
  <2>3. Goto(t, "note", n)
    BY <1>3 DEF Read, ReadBase
  <2>4. PhaseOK("note", n)
    BY <2>2 DEF PhaseOK
  <2> QED
    BY <1>2, <2>2, <2>3, <2>4, GotoType DEF Labels
<1>4. CASE disk[o.src] = None /\ o.verb \in {"append", "patch"}
  <2> DEFINE n == [o EXCEPT !.base = <<>>, !.cond = None]
  <2>1. <<>> \in Contents
    BY DEF Contents
  <2>2. n \in Ops /\ n # Idle
    BY <1>1, <2>1 DEF Ops, Idle
  <2>3. Goto(t, "submit", n)
    BY <1>4 DEF Read, ReadBase
  <2>4. PhaseOK("submit", n)
    BY <1>1, <1>4, <2>1, <2>2 DEF PhaseOK, Ready, Ops
  <2> QED
    BY <1>2, <2>2, <2>3, <2>4, GotoType DEF Labels
<1>5. CASE disk[o.src] = None /\ o.verb \notin {"append", "patch"}
  <2>1. End(t, "error")
    BY <1>5 DEF Read, ReadBase
  <2> QED
    BY <1>2, <2>1, EndType DEF Results
<1> QED
  BY <1>3, <1>4, <1>5

\* Noting what was read keeps the types.
LEMMA NoteReadType ==
  ASSUME ITypeOK, NEW t \in Threads, NoteRead(t)
  PROVE  ITypeOK'
<1>1. op[t] \in Ops /\ op[t] # Idle /\ op[t].verb \in ReadVerbs /\ op[t].base \in Contents
      /\ op[t].src \in Files
  BY UnderWay DEF NoteRead, ITypeOK, IPhases, PhaseOK, Ops
<1>2. DataOK'
  BY <1>1, SessionAssumption DEF NoteRead, Note, ITypeOK, TypeOK, DataOK, IParked, Me
<1>3. CASE op[t].verb = "cat"
  <2>1. End(t, "ok")
    BY <1>3 DEF NoteRead
  <2> QED
    BY <1>2, <2>1, EndType DEF Results
<1>4. CASE op[t].verb # "cat"
  <2> DEFINE l == IF op[t].verb = "mv" THEN "resolve" ELSE "submit"
  <2>1. Ready(op[t])
    BY <1>1, <1>4 DEF Ready
  <2>2. Goto(t, l, op[t])
    BY <1>4 DEF NoteRead
  <2>3. PhaseOK(l, op[t])
    BY <2>1 DEF PhaseOK
  <2> QED
    BY <1>1, <1>2, <2>2, <2>3, GotoType DEF Labels
<1> QED
  BY <1>3, <1>4

\* Choosing a precondition keeps the types.
LEMMA ResolveType ==
  ASSUME ITypeOK, NEW t \in Threads, Resolve(t)
  PROVE  ITypeOK'
<1> DEFINE o == op[t]
           last == tracked[Me(t)][o.dst]
<1>1. o \in Ops /\ o # Idle /\ o.dst \in Files /\ o.verb \in {"overwrite", "mv"} /\ Ready(o)
  BY UnderWay DEF Resolve, ITypeOK, IPhases, PhaseOK, Ops
<1>2. DataOK'
  BY DEF Resolve, ITypeOK, TypeOK, DataOK, IParked
<1>3. last \in {None} \cup Contents
  BY <1>1, SessionAssumption DEF ITypeOK, TypeOK, Me
<1>4. ASSUME NEW c \in {Always, None} \cup Contents, Goto(t, "submit", [o EXCEPT !.cond = c])
      PROVE  ITypeOK'
  <2> DEFINE n == [o EXCEPT !.cond = c]
  <2>1. n \in Ops /\ n # Idle /\ Ready(n)
    BY <1>1 DEF Ops, Idle, Ready
  <2>2. PhaseOK("submit", n)
    BY <2>1 DEF PhaseOK
  <2> QED
    BY <1>2, <1>4, <2>1, <2>2, GotoType DEF Labels
<1>5. CASE Goto(t, "fallback", o)
  <2>1. PhaseOK("fallback", o)
    BY <1>1 DEF PhaseOK
  <2> QED
    BY <1>1, <1>2, <1>5, <2>1, GotoType DEF Labels
<1>6. \/ Goto(t, "submit", [o EXCEPT !.cond = Always]) \/ Goto(t, "fallback", o)
      \/ Goto(t, "submit", [o EXCEPT !.cond = last])
  BY DEF Resolve
<1> QED
  BY <1>3, <1>4, <1>5, <1>6

\* Reading the precondition at command time keeps the types.
LEMMA FallbackType ==
  ASSUME ITypeOK, NEW t \in Threads, Fallback(t)
  PROVE  ITypeOK'
<1> DEFINE o == op[t]
           n == [o EXCEPT !.cond = disk[o.dst]]
           l == IF disk[o.dst] = None THEN "submit" ELSE "notebase"
<1>1. o \in Ops /\ o # Idle /\ o.dst \in Files /\ o.verb \in {"overwrite", "mv"} /\ Ready(o)
  BY UnderWay DEF Fallback, ITypeOK, IPhases, PhaseOK, Ops
<1>2. DataOK'
  BY <1>1, LookType DEF Fallback, ITypeOK, TypeOK, DataOK, IParked
<1>3. disk[o.dst] \in {None} \cup Contents
  BY <1>1 DEF ITypeOK, TypeOK
<1>4. n \in Ops /\ n # Idle /\ n.verb \in {"overwrite", "mv"} /\ Ready(n)
      /\ n.cond = disk[o.dst]
  BY <1>1, <1>3 DEF Ops, Idle, Ready
<1>5. Goto(t, l, n)
  BY DEF Fallback
<1>6. PhaseOK(l, n)
  BY <1>3, <1>4 DEF PhaseOK
<1> QED
  BY <1>2, <1>4, <1>5, <1>6, GotoType DEF Labels

\* Noting that precondition keeps the types.
LEMMA NoteBaseType ==
  ASSUME ITypeOK, NEW t \in Threads, NoteBase(t)
  PROVE  ITypeOK'
<1>1. op[t] \in Ops /\ op[t] # Idle /\ op[t].dst \in Files /\ op[t].cond \in Contents
      /\ Ready(op[t])
  BY UnderWay DEF NoteBase, ITypeOK, IPhases, PhaseOK, Ops
<1>2. DataOK'
  BY <1>1, SessionAssumption DEF NoteBase, Note, ITypeOK, TypeOK, DataOK, IParked, Me
<1>3. Goto(t, "submit", op[t]) /\ PhaseOK("submit", op[t])
  BY <1>1 DEF NoteBase, PhaseOK
<1> QED
  BY <1>1, <1>2, <1>3, GotoType DEF Labels

\* The steps that submit the change, and what comes after.
LEMMA CommitType ==
  ASSUME ITypeOK, NEW t \in Threads, Commit(t)
  PROVE  ITypeOK'
<1>1. op[t] \in Ops /\ op[t] # Idle /\ Ready(op[t])
  BY UnderWay DEF Commit, ITypeOK, IPhases, PhaseOK
<1>2. DataOK'
  BY <1>1, ApplyType DEF Commit, ITypeOK, TypeOK, DataOK, IParked
<1>3. CASE op[t].verb = "mv"
  BY <1>2, <1>3, EndType DEF Commit, Results
<1>4. CASE op[t].verb # "mv"
  <2>1. Goto(t, "settle", op[t]) /\ PhaseOK("settle", op[t])
    BY <1>1, <1>4 DEF Commit, PhaseOK
  <2> QED
    BY <1>1, <1>2, <2>1, GotoType DEF Labels
<1> QED
  BY <1>3, <1>4

\* A refusal keeps the types: an append retries with an attempt to spare.
LEMMA RefuseType ==
  ASSUME ITypeOK, NEW t \in Threads, Refuse(t)
  PROVE  ITypeOK'
<1>1. op[t] \in Ops /\ op[t] # Idle /\ Ready(op[t])
  BY UnderWay DEF Refuse, ITypeOK, IPhases, PhaseOK
<1>2. DataOK'
  BY DEF Refuse, ITypeOK, TypeOK, DataOK, IParked
<1>3. CASE \E r \in Results : End(t, r)
  BY <1>2, <1>3, EndType
<1>4. CASE op[t].verb = "append" /\ op[t].tries + 1 < MaxRetries
  <2> DEFINE n == [op[t] EXCEPT !.tries = @ + 1]
  <2>1. op[t].tries \in 0..(MaxRetries - 1)
    BY <1>1 DEF Ops
  <2>2. n.tries \in 0..(MaxRetries - 1)
    BY <1>1, <1>4, <2>1, SessionAssumption DEF Ops
  <2>3. n \in Ops /\ n # Idle /\ n.verb = "append"
    BY <1>1, <1>4, <2>2 DEF Ops, Idle
  <2>4. Goto(t, "read", n)
    BY <1>4 DEF Refuse, RefuseAppend
  <2>5. PhaseOK("read", n)
    BY <2>3 DEF PhaseOK, ReadVerbs
  <2> QED
    BY <1>2, <2>3, <2>4, <2>5, GotoType DEF Labels
<1>5. (\E r \in Results : End(t, r)) \/ (op[t].verb = "append" /\ op[t].tries + 1 < MaxRetries)
  BY DEF Refuse, RefuseAppend, Results
<1> QED
  BY <1>3, <1>4, <1>5

\* The bookkeeping after a commit keeps the types.
LEMMA SettleType ==
  ASSUME ITypeOK, NEW t \in Threads, Settle(t)
  PROVE  ITypeOK'
<1>1. op[t] \in Ops /\ op[t].dst \in Files /\ Ready(op[t]) /\ Me(t) \in Sessions
  BY UnderWay, SessionAssumption DEF Settle, ITypeOK, IPhases, PhaseOK, Ops, Me
<1>2. tracked' \in [Sessions -> [Files -> {None} \cup Contents]]
  <2>1. op[t].verb \notin {"rm", "rmtree"} => Proposed(op[t]) \in Contents
    BY <1>1, ProposedType
  <2> QED
    BY <1>1, <2>1 DEF Settle, ITypeOK, TypeOK
<1>3. DataOK'
  BY <1>2 DEF Settle, ITypeOK, TypeOK, DataOK, IParked
<1> QED
  BY <1>3, EndType DEF Settle, Results

\* A parked change has what the applier needs.
LEMMA ParkType ==
  ASSUME ITypeOK, NEW t \in Threads, Park(t) \/ Reject(t)
  PROVE  ITypeOK'
<1>1. op[t] \in Ops /\ Ready(op[t])
  BY UnderWay DEF Park, Reject, ITypeOK, IPhases, PhaseOK
<1>2. parked' \subseteq [by : Threads, op : Ops] /\ IParked'
  BY <1>1 DEF Park, Reject, ITypeOK, TypeOK, IParked
<1>3. DataOK'
  BY <1>2 DEF Park, Reject, ITypeOK, TypeOK, DataOK
<1> QED
  BY <1>3, EndType DEF Park, Reject, Results

\* Replaying a parked change keeps the types.
LEMMA ApproveType == ITypeOK /\ Approve => ITypeOK'
<1> SUFFICES ASSUME ITypeOK, Approve PROVE ITypeOK'
  OBVIOUS
<1>1. PICK p \in parked :
        /\ parked' = parked \ {p}
        /\ Apply(p.op, None, None) \/ UNCHANGED <<disk, commits, seen, behind, rivals>>
  BY DEF Approve
<1>2. Ready(p.op)
  BY DEF ITypeOK, IParked
<1>3. DataOK'
  BY <1>1, <1>2, ApplyType DEF Approve, ITypeOK, TypeOK, DataOK, IParked
<1> QED
  BY <1>3 DEF Approve, ITypeOK, TypeOK, DataOK, IPhases

\* Every step keeps the types.
LEMMA StepType == ITypeOK /\ [Next]_vars => ITypeOK'
<1> SUFFICES ASSUME ITypeOK, [Next]_vars PROVE ITypeOK'
  OBVIOUS
<1>1. CASE UNCHANGED vars
  BY <1>1 DEF vars, ITypeOK, TypeOK, IPhases, IParked
<1>2. ASSUME NEW t \in Threads, Verb(t) PROVE ITypeOK'
  BY <1>2, StartType, ReadType, NoteReadType, ResolveType, FallbackType, NoteBaseType,
     CommitType, RefuseType, SettleType, ParkType DEF Verb
<1> QED
  BY <1>1, <1>2, ApproveType DEF Next

\* Types, and what each step of a verb needs, in every behaviour.
THEOREM ITypeCorrect == Spec => []ITypeOK
BY InitType, StepType, PTL DEF Spec

\* Every variable keeps its type; an append tries at most MaxRetries times.
THEOREM TypeCorrect == Spec => []TypeOK
BY ITypeCorrect, PTL DEF ITypeOK
-----------------------------------------------------------------------------
(* A change that lands is one the applier let through, by the thread that   *)
(* submitted it or by the approver.                                         *)

Waiting(l) ==
  \/ \E t \in Threads : pc[t] = "submit" /\ l = <<op[t], Me(t)>>
  \/ \E p \in parked : l = <<p.op, SessionOf[p.by]>>

\* Whatever reaches the files was waiting to be submitted or parked, passed the
\* applier's preconditions in that very state, and is all that happens to the files.
LEMMA LandingGoes ==
  ASSUME ITypeOK, [Next]_vars, NEW l \in Landing
  PROVE  Waiting(l) /\ Ready(l[1]) /\ Goes(l[1]) /\ disk' = After(l[1])
<1>1. commits' # commits
  BY DEF Landing
<1>2. ASSUME NEW t \in Threads, Commit(t)
      PROVE  Waiting(l) /\ Ready(l[1]) /\ Goes(l[1]) /\ disk' = After(l[1])
  <2>1. pc' = [pc EXCEPT ![t] = "idle"] \/ pc' = [pc EXCEPT ![t] = "settle"]
    BY <1>2 DEF Commit, Goto, End
  <2>2. parked' = parked
    BY <1>2 DEF Commit
  <2>3. \A u \in Threads : pc[u] = "submit" /\ pc'[u] # "submit" => u = t
    BY <2>1 DEF ITypeOK, TypeOK
  <2>4. l = <<op[t], Me(t)>>
    BY <1>1, <2>2, <2>3 DEF Landing
  <2>5. Ready(op[t])
    BY <1>2 DEF Commit, ITypeOK, IPhases, PhaseOK
  <2> QED
    BY <1>2, <2>4, <2>5 DEF Commit, Apply, Waiting
<1>3. CASE Approve
  <2>1. PICK p \in parked :
          /\ parked' = parked \ {p}
          /\ Goes(p.op) /\ Apply(p.op, None, None)
    BY <1>1, <1>3 DEF Approve
  <2>2. pc' = pc
    BY <1>3 DEF Approve
  <2>3. l = <<p.op, SessionOf[p.by]>>
    BY <1>1, <2>1, <2>2 DEF Landing
  <2> QED
    BY <2>1, <2>3 DEF Apply, Waiting, ITypeOK, IParked
<1>4. ASSUME NEW t \in Threads, Verb(t), ~Commit(t) PROVE FALSE
  BY <1>1, <1>4 DEF Verb, Start, Read, NoteRead, Resolve, Fallback, NoteBase, Refuse, Settle,
                    Park, Reject
<1>5. CASE UNCHANGED vars
  BY <1>1, <1>5 DEF vars
<1> QED
  BY <1>2, <1>3, <1>4, <1>5 DEF Next
-----------------------------------------------------------------------------
(* An overwrite under PolicyHash insists on something its session has seen, *)
(* from the moment it has chosen its precondition.                          *)

Insists(sn, o, s) ==
  o.verb \in {"overwrite", "mv"} /\ o.dst \in HashFiles =>
    o.cond # Always /\ o.cond \in sn[s][o.dst] \cup {None}
PhaseSeen(sn, l, o, s) ==
  /\ l = "note" => o.base \in sn[s][o.src]
  /\ l = "notebase" => o.cond \in sn[s][o.dst]
  /\ l = "submit" => Insists(sn, o, s)
  /\ l = "settle" /\ o.verb \notin {"rm", "rmtree"} => Proposed(o) \in sn[s][o.dst]
ITracked ==
  \A s \in Sessions, f \in Files : tracked[s][f] # None => tracked[s][f] \in seen[s][f]
ISeen ==
  /\ ITracked
  /\ \A t \in Threads : PhaseSeen(seen, pc[t], op[t], Me(t))
  /\ \A p \in parked : Insists(seen, p.op, SessionOf[p.by])

\* What was seen stays seen.
Remembers == \A s \in Sessions, f \in Files : seen[s][f] \subseteq seen'[s][f]

\* Threads and parked changes belong to sessions.
LEMMA SessionsOf ==
  /\ \A t \in Threads : Me(t) \in Sessions
  /\ ITypeOK => \A p \in parked : SessionOf[p.by] \in Sessions /\ p.op \in Ops
BY SessionAssumption DEF Me, ITypeOK, TypeOK

\* The other threads' preconditions stay good.
LEMMA PhaseSeenKept ==
  ASSUME ITypeOK, ISeen, Remembers, NEW t \in Threads
  PROVE  PhaseSeen(seen', pc[t], op[t], Me(t))
<1>1. PhaseSeen(seen, pc[t], op[t], Me(t))
  BY DEF ISeen
<1>2. CASE pc[t] = "idle"
  BY <1>2 DEF PhaseSeen
<1>3. CASE pc[t] # "idle"
  <2>1. op[t] \in Ops /\ Me(t) \in Sessions /\ op[t].src \in Files /\ op[t].dst \in Files
    BY <1>3, UnderWay, SessionsOf DEF ITypeOK, Ops
  <2> QED
    BY <1>1, <2>1 DEF PhaseSeen, Remembers, Insists
<1> QED
  BY <1>2, <1>3

\* The preconditions of parked changes stay good.
LEMMA ParkedKept ==
  ASSUME ITypeOK, ISeen, Remembers, NEW p \in parked
  PROVE  Insists(seen', p.op, SessionOf[p.by])
BY SessionsOf DEF ISeen, Insists, Remembers, Ops

\* A thread that moves on keeps the invariant if its next phase is good.
LEMMA MoveSeen ==
  ASSUME ITypeOK, ISeen, Remembers, ITracked', parked' \subseteq parked, NEW t \in Threads,
         NEW l, NEW o, pc' = [pc EXCEPT ![t] = l], op' = [op EXCEPT ![t] = o],
         PhaseSeen(seen', l, o, Me(t))
  PROVE  ISeen'
<1>1. ASSUME NEW u \in Threads PROVE PhaseSeen(seen', pc'[u], op'[u], Me(u))
  <2>1. CASE u = t
    BY <2>1 DEF ITypeOK, TypeOK
  <2>2. CASE u # t
    <3>1. pc'[u] = pc[u] /\ op'[u] = op[u]
      BY <2>2
    <3> QED
      BY <3>1, PhaseSeenKept
  <2> QED
    BY <2>1, <2>2
<1>2. \A p \in parked' : Insists(seen', p.op, SessionOf[p.by])
  BY ParkedKept
<1> QED
  BY <1>1, <1>2 DEF ISeen, Me

\* A thread that goes on keeps the invariant if its next phase is good.
LEMMA GotoSeen ==
  ASSUME ITypeOK, ISeen, Remembers, ITracked', parked' \subseteq parked, NEW t \in Threads,
         NEW l, NEW o, Goto(t, l, o), PhaseSeen(seen', l, o, Me(t))
  PROVE  ISeen'
BY MoveSeen DEF Goto

\* A thread that ends keeps the invariant.
LEMMA EndSeen ==
  ASSUME ITypeOK, ISeen, Remembers, ITracked', parked' \subseteq parked, NEW t \in Threads,
         NEW r, End(t, r)
  PROVE  ISeen'
BY MoveSeen DEF End, PhaseSeen

\* Looking at a file adds its content to what was seen.
LEMMA LookSeen ==
  ASSUME ITypeOK, ISeen, NEW t \in Threads, NEW f \in Files, Look(t, f), tracked' = tracked
  PROVE  /\ Remembers /\ ITracked'
         /\ disk[f] # None => disk[f] \in seen'[Me(t)][f]
<1>1. Me(t) \in Sessions /\ disk[f] \in {None} \cup Contents
  BY SessionsOf DEF ITypeOK, TypeOK
<1>2. \A s \in Sessions, g \in Files : seen'[s][g] =
        IF s = Me(t) /\ g = f THEN seen[s][g] \cup ({disk[f]} \ {None}) ELSE seen[s][g]
  BY DEF Look, ITypeOK, TypeOK
<1>3. Remembers
  BY <1>2 DEF Remembers
<1>4. ITracked'
  BY <1>2 DEF ISeen, ITracked
<1>5. seen'[Me(t)][f] = seen[Me(t)][f] \cup ({disk[f]} \ {None})
  BY <1>1, <1>2
<1>6. disk[f] # None => disk[f] \in seen'[Me(t)][f]
  BY <1>5
<1> QED
  BY <1>3, <1>4, <1>6

\* A commit adds what was written to what its session has seen, and forgets nothing.
LEMMA ApplySeen ==
  ASSUME ITypeOK, ISeen, NEW o \in Ops, NEW by, NEW u, Apply(o, by, u), tracked' = tracked
  PROVE  /\ Remembers /\ ITracked'
         /\ (by \in Sessions /\ o.verb \notin {"rm", "rmtree"}) => Proposed(o) \in seen'[by][o.dst]
<1>1. \A s \in Sessions, f \in Files : seen'[s][f] =
        IF s = by /\ f = o.dst /\ o.verb \notin {"rm", "rmtree"}
          THEN seen[s][f] \cup {Proposed(o)} ELSE seen[s][f]
  BY DEF Apply
<1> QED
  BY <1>1 DEF ISeen, ITracked, Remembers, Ops

\* A step that shows the session nothing forgets nothing.
LEMMA NothingNewSeen ==
  ASSUME ISeen, seen' = seen
  PROVE  Remembers /\ (tracked' = tracked => ITracked')
BY DEF ISeen, ITracked, Remembers
-----------------------------------------------------------------------------
\* At first nothing is tracked.
LEMMA InitSeen == Init => ISeen
BY DEF Init, ISeen, ITracked, PhaseSeen

\* The steps up to the submission track, and insist on, only what was seen.
LEMMA ReadingSeen ==
  ASSUME ITypeOK, ISeen, NEW t \in Threads,
         Start(t) \/ Read(t) \/ NoteRead(t) \/ Resolve(t) \/ Fallback(t) \/ NoteBase(t)
  PROVE  ISeen'
<1>1. CASE Start(t)
  <2>1. PICK v \in Verbs[Me(t)], s \in Files, d \in Files, x \in Texts :
          op' = [op EXCEPT ![t] = Op(v, s, d, x)] /\ pc' = [pc EXCEPT ![t] = FirstStep(v)]
    BY <1>1 DEF Start
  <2>2. PhaseSeen(seen', FirstStep(v), Op(v, s, d, x), Me(t))
    BY DEF PhaseSeen, FirstStep, Op, Insists, ReadVerbs
  <2>3. seen' = seen /\ tracked' = tracked /\ parked' = parked
    BY <1>1 DEF Start
  <2> QED
    BY <2>1, <2>2, <2>3, NothingNewSeen, MoveSeen
<1>2. CASE Read(t)
  <2> DEFINE o == op[t]
  <2>1. o \in Ops /\ o.verb \in ReadVerbs /\ o.src \in Files
    BY <1>2, UnderWay DEF Read, ITypeOK, IPhases, PhaseOK, Ops
  <2>2. parked' = parked /\ tracked' = tracked
    BY <1>2 DEF Read
  <2>3. Remembers /\ ITracked' /\ (disk[o.src] # None => disk[o.src] \in seen'[Me(t)][o.src])
    BY <1>2, <2>1, <2>2, LookSeen DEF Read
  <2>4. CASE disk[o.src] # None
    <3> DEFINE n == [o EXCEPT !.base = disk[o.src],
                       !.cond = IF o.verb \in {"append", "patch"} \/ o.dst \in HashFiles
                                  THEN disk[o.src] ELSE Always]
    <3>1. Goto(t, "note", n)
      BY <1>2, <2>4 DEF Read, ReadBase
    <3>2. n.base = disk[o.src] /\ n.src = o.src
      BY <2>1 DEF Ops
    <3>3. PhaseSeen(seen', "note", n, Me(t))
      BY <2>3, <2>4, <3>2 DEF PhaseSeen
    <3> QED
      BY <2>2, <2>3, <3>1, <3>3, GotoSeen
  <2>5. CASE disk[o.src] = None /\ o.verb \in {"append", "patch"}
    <3> DEFINE n == [o EXCEPT !.base = <<>>, !.cond = None]
    <3>1. Goto(t, "submit", n)
      BY <1>2, <2>5 DEF Read, ReadBase
    <3>2. n.verb \in {"append", "patch"}
      BY <2>1, <2>5 DEF Ops
    <3>3. PhaseSeen(seen', "submit", n, Me(t))
      BY <3>2 DEF PhaseSeen, Insists
    <3> QED
      BY <2>2, <2>3, <3>1, <3>3, GotoSeen
  <2>6. CASE disk[o.src] = None /\ o.verb \notin {"append", "patch"}
    BY <1>2, <2>2, <2>3, <2>6, EndSeen DEF Read, ReadBase
  <2> QED
    BY <2>4, <2>5, <2>6
<1>3. CASE NoteRead(t)
  <2>1. op[t] \in Ops /\ op[t].src \in Files /\ op[t].verb \in ReadVerbs
        /\ op[t].base \in seen[Me(t)][op[t].src]
    BY <1>3, UnderWay DEF NoteRead, ITypeOK, IPhases, PhaseOK, Ops, ISeen, PhaseSeen
  <2>2. seen' = seen /\ parked' = parked /\ Note(t, op[t].src, op[t].base)
    BY <1>3 DEF NoteRead
  <2>3. ITracked' /\ Remembers
    BY <2>1, <2>2, SessionsOf DEF Note, ISeen, ITracked, ITypeOK, TypeOK, Remembers
  <2>4. CASE op[t].verb = "cat"
    BY <1>3, <2>2, <2>3, <2>4, EndSeen DEF NoteRead
  <2>5. CASE op[t].verb # "cat"
    <3> DEFINE l == IF op[t].verb = "mv" THEN "resolve" ELSE "submit"
    <3>1. PhaseSeen(seen', l, op[t], Me(t))
      BY <2>1 DEF PhaseSeen, Insists, ReadVerbs
    <3>2. Goto(t, l, op[t])
      BY <1>3, <2>5 DEF NoteRead
    <3> QED
      BY <2>2, <2>3, <3>1, <3>2, GotoSeen
  <2> QED
    BY <2>4, <2>5
<1>4. CASE Resolve(t)
  <2> DEFINE o == op[t]
             last == tracked[Me(t)][o.dst]
  <2>1. o \in Ops /\ o.dst \in Files /\ o.verb \in {"overwrite", "mv"}
    BY <1>4, UnderWay DEF Resolve, ITypeOK, IPhases, PhaseOK, Ops
  <2>2. Remembers /\ ITracked' /\ parked' = parked /\ seen' = seen
    BY <1>4, NothingNewSeen DEF Resolve
  <2>3. CASE o.dst \notin HashFiles /\ Goto(t, "submit", [o EXCEPT !.cond = Always])
    <3>1. PhaseSeen(seen', "submit", [o EXCEPT !.cond = Always], Me(t))
      BY <2>1, <2>3 DEF PhaseSeen, Insists, Ops
    <3> QED
      BY <2>2, <2>3, <3>1, GotoSeen
  <2>4. CASE last # None /\ Goto(t, "submit", [o EXCEPT !.cond = last])
    <3> DEFINE n == [o EXCEPT !.cond = last]
    <3>1. n.cond = last /\ n.dst = o.dst
      BY <2>1 DEF Ops
    <3>2. last \in seen[Me(t)][o.dst] /\ last \in Contents
      BY <2>1, <2>4, SessionsOf DEF ISeen, ITracked, ITypeOK, TypeOK
    <3>3. PhaseSeen(seen', "submit", n, Me(t))
      BY <2>2, <3>1, <3>2, SessionAssumption DEF PhaseSeen, Insists
    <3> QED
      BY <2>2, <2>4, <3>3, GotoSeen
  <2>5. CASE Goto(t, "fallback", o)
    <3>1. PhaseSeen(seen', "fallback", o, Me(t))
      BY DEF PhaseSeen
    <3> QED
      BY <2>2, <2>5, <3>1, GotoSeen
  <2> QED
    BY <1>4, <2>3, <2>4, <2>5 DEF Resolve
<1>5. CASE Fallback(t)
  <2> DEFINE o == op[t]
             n == [o EXCEPT !.cond = disk[o.dst]]
             l == IF disk[o.dst] = None THEN "submit" ELSE "notebase"
  <2>1. o \in Ops /\ o.dst \in Files
    BY <1>5, UnderWay DEF Fallback, ITypeOK, Ops
  <2>2. Goto(t, l, n) /\ Look(t, o.dst) /\ parked' = parked /\ tracked' = tracked
    BY <1>5 DEF Fallback
  <2>3. Remembers /\ ITracked' /\ (disk[o.dst] # None => disk[o.dst] \in seen'[Me(t)][o.dst])
    BY <2>1, <2>2, LookSeen
  <2>4. n.cond = disk[o.dst] /\ n.dst = o.dst
    BY <2>1 DEF Ops
  <2>5. PhaseSeen(seen', l, n, Me(t))
    BY <2>3, <2>4, SessionAssumption DEF PhaseSeen, Insists
  <2> QED
    BY <2>2, <2>3, <2>5, GotoSeen
<1>6. CASE NoteBase(t)
  <2>1. op[t] \in Ops /\ op[t].dst \in Files /\ op[t].cond \in Contents
        /\ op[t].cond \in seen[Me(t)][op[t].dst]
    BY <1>6, UnderWay DEF NoteBase, ITypeOK, IPhases, PhaseOK, Ops, ISeen, PhaseSeen
  <2>2. seen' = seen /\ parked' = parked /\ Note(t, op[t].dst, op[t].cond)
        /\ Goto(t, "submit", op[t])
    BY <1>6 DEF NoteBase
  <2>3. ITracked' /\ Remembers
    BY <2>1, <2>2, SessionsOf DEF Note, ISeen, ITracked, ITypeOK, TypeOK, Remembers
  <2>4. PhaseSeen(seen', "submit", op[t], Me(t))
    BY <2>1, <2>2, SessionAssumption DEF PhaseSeen, Insists
  <2> QED
    BY <2>2, <2>3, <2>4, GotoSeen
<1> QED
  BY <1>1, <1>2, <1>3, <1>4, <1>5, <1>6

\* So do the submission and what follows it.
LEMMA SubmittingSeen ==
  ASSUME ITypeOK, ISeen, NEW t \in Threads,
         Commit(t) \/ Refuse(t) \/ Settle(t) \/ Park(t) \/ Reject(t)
  PROVE  ISeen'
<1>0. op[t] \in Ops /\ op[t].dst \in Files /\ Me(t) \in Sessions
  BY UnderWay, SessionsOf DEF Commit, Refuse, Settle, Park, Reject, ITypeOK, Ops
<1>1. CASE Commit(t)
  <2>1. Remembers /\ ITracked'
        /\ (op[t].verb \notin {"rm", "rmtree"} => Proposed(op[t]) \in seen'[Me(t)][op[t].dst])
    BY <1>0, <1>1, ApplySeen DEF Commit
  <2>2. PhaseSeen(seen', "settle", op[t], Me(t))
    BY <2>1 DEF PhaseSeen
  <2> QED
    BY <1>1, <2>1, <2>2, GotoSeen, EndSeen DEF Commit
<1>2. CASE Refuse(t)
  <2>1. Remembers /\ ITracked' /\ parked' = parked
    BY <1>2, NothingNewSeen DEF Refuse
  <2>2. PhaseSeen(seen', "read", [op[t] EXCEPT !.tries = @ + 1], Me(t))
    BY DEF PhaseSeen
  <2>3. (\E r \in Results : End(t, r)) \/ Goto(t, "read", [op[t] EXCEPT !.tries = @ + 1])
    BY <1>2 DEF Refuse, RefuseAppend, Results
  <2> QED
    BY <2>1, <2>2, <2>3, GotoSeen, EndSeen
<1>3. CASE Settle(t)
  <2>1. PhaseSeen(seen, "settle", op[t], Me(t))
    BY <1>3 DEF Settle, ISeen
  <2>2. Remembers /\ parked' = parked /\ seen' = seen /\ End(t, "ok")
    BY <1>3, NothingNewSeen DEF Settle
  <2>3. \A s \in Sessions, f \in Files : tracked'[s][f] # None =>
          tracked'[s][f] \in seen[s][f]
    <3>1. \A s \in Sessions, f \in Files :
            \/ tracked'[s][f] \in {None, tracked[s][f]}
            \/ /\ s = Me(t) /\ f = op[t].dst /\ op[t].verb \notin {"rm", "rmtree"}
               /\ tracked'[s][f] = Proposed(op[t])
      BY <1>0, <1>3 DEF Settle, ITypeOK, TypeOK
    <3> QED
      BY <2>1, <3>1 DEF PhaseSeen, ISeen, ITracked
  <2>4. ITracked'
    BY <2>2, <2>3 DEF ITracked
  <2> QED
    BY <2>2, <2>4, EndSeen
<1>4. CASE Park(t)
  <2>1. PhaseSeen(seen, "submit", op[t], Me(t))
    BY <1>4 DEF Park, ISeen
  <2>2. Insists(seen', op[t], Me(t)) /\ seen' = seen
    BY <1>4, <2>1 DEF PhaseSeen, Park
  <2>3. Remembers /\ ITracked' /\ parked' = parked \cup {[by |-> t, op |-> op[t]]}
    BY <1>4, NothingNewSeen DEF Park
  <2>4. \A p \in parked' : Insists(seen', p.op, SessionOf[p.by])
    BY <2>2, <2>3, ParkedKept DEF Me
  <2>5. ASSUME NEW u \in Threads PROVE PhaseSeen(seen', pc'[u], op'[u], Me(u))
    <3>1. pc' = [pc EXCEPT ![t] = "idle"] /\ op' = [op EXCEPT ![t] = Idle]
      BY <1>4 DEF Park, End
    <3>2. CASE u = t
      BY <3>1, <3>2 DEF PhaseSeen, ITypeOK, TypeOK
    <3>3. CASE u # t
      <4>1. pc'[u] = pc[u] /\ op'[u] = op[u]
        BY <3>1, <3>3
      <4> QED
        BY <2>3, <4>1, PhaseSeenKept
    <3> QED
      BY <3>2, <3>3
  <2> QED
    BY <2>3, <2>4, <2>5 DEF ISeen, Me
<1>5. CASE Reject(t)
  BY <1>5, NothingNewSeen, EndSeen DEF Reject
<1> QED
  BY <1>1, <1>2, <1>3, <1>4, <1>5

\* Every step keeps ISeen.
LEMMA StepSeen == ITypeOK /\ ISeen /\ [Next]_vars => ISeen'
<1> SUFFICES ASSUME ITypeOK, ISeen, [Next]_vars PROVE ISeen'
  OBVIOUS
<1>1. CASE UNCHANGED vars
  BY <1>1 DEF vars, ISeen, ITracked
<1>2. CASE Approve
  <2>1. PICK p \in parked :
          /\ parked' = parked \ {p}
          /\ Apply(p.op, None, None) \/ UNCHANGED <<disk, commits, seen, behind, rivals>>
    BY <1>2 DEF Approve
  <2>2. pc' = pc /\ op' = op /\ tracked' = tracked /\ p.op \in Ops
    BY <1>2, SessionsOf DEF Approve
  <2>3. Remembers /\ ITracked'
    BY <2>1, <2>2, ApplySeen, NothingNewSeen
  <2>4. \A u \in Threads : PhaseSeen(seen', pc'[u], op'[u], Me(u))
    BY <2>2, <2>3, PhaseSeenKept
  <2>5. \A q \in parked' : Insists(seen', q.op, SessionOf[q.by])
    BY <2>1, <2>3, ParkedKept
  <2> QED
    BY <2>3, <2>4, <2>5 DEF ISeen, Me
<1>3. ASSUME NEW t \in Threads, Verb(t) PROVE ISeen'
  BY <1>3, ReadingSeen, SubmittingSeen DEF Verb
<1> QED
  BY <1>1, <1>2, <1>3 DEF Next

\* A session tracks, and its overwrites insist on, only what it has seen.
THEOREM ISeenCorrect == Spec => []ISeen
<1>1. Spec => []ITypeOK
  BY ITypeCorrect
<1> QED
  BY <1>1, InitSeen, StepSeen, PTL DEF Spec

\* In such a state an overwrite that lands replaces only what its session has seen.
LEMMA StepOverwrites ==
  ITypeOK /\ ISeen /\ [Next]_vars =>
    \A l \in Landing :
       (l[1].verb \in {"overwrite", "mv"} /\ l[1].dst \in HashFiles) =>
         disk[l[1].dst] \in seen[l[2]][l[1].dst] \cup {None}
<1> SUFFICES ASSUME ITypeOK, ISeen, [Next]_vars, NEW l \in Landing,
                    l[1].verb \in {"overwrite", "mv"}, l[1].dst \in HashFiles
             PROVE  disk[l[1].dst] \in seen[l[2]][l[1].dst] \cup {None}
  OBVIOUS
<1>1. Waiting(l) /\ Goes(l[1])
  BY LandingGoes
<1>2. Insists(seen, l[1], l[2])
  BY <1>1 DEF Waiting, ISeen, PhaseSeen
<1>3. Fresh(l[1])
  BY <1>1 DEF Goes
<1> QED
  BY <1>2, <1>3 DEF Insists, Fresh

\* No overwrite under PolicyHash, parked or not, replaces what its session has
\* not seen, whatever the threads of that session and the others do.
THEOREM OverwritesAreInformed == Spec => OverwritesOnlyWhatWasSeen
<1>1. Spec => [](ITypeOK /\ ISeen)
  BY ITypeCorrect, ISeenCorrect, PTL
<1> QED
  BY <1>1, StepOverwrites, PTL DEF Spec, OverwritesOnlyWhatWasSeen
-----------------------------------------------------------------------------
(* An append insists on the very content it extends, from its read on.      *)

Extending(o) ==
  o.verb \in {"append", "patch"} \/ (o.verb = "sed" /\ o.dst \in HashFiles)
Based(o) == Extending(o) => o.cond = o.base \/ (o.base = <<>> /\ o.cond = None)
IBased ==
  /\ \A t \in Threads : pc[t] \in {"note", "submit"} => Based(op[t])
  /\ \A p \in parked : Based(p.op)

\* A thread that moves on keeps the invariant if its next phase is good.
LEMMA MoveBased ==
  ASSUME ITypeOK, IBased, NEW t \in Threads, NEW l, NEW o,
         parked' \subseteq parked, pc' = [pc EXCEPT ![t] = l], op' = [op EXCEPT ![t] = o],
         l \in {"note", "submit"} => Based(o)
  PROVE  IBased'
BY DEF ITypeOK, TypeOK, IBased

\* No step of a thread parts an append from the content it insists on.
LEMMA VerbBased ==
  ASSUME ITypeOK, IBased, NEW t \in Threads, Verb(t)
  PROVE  IBased'
<1>1. CASE Start(t)
  <2>1. PICK v \in Verbs[Me(t)], s \in Files, d \in Files, x \in Texts :
          op' = [op EXCEPT ![t] = Op(v, s, d, x)] /\ pc' = [pc EXCEPT ![t] = FirstStep(v)]
    BY <1>1 DEF Start
  <2>2. FirstStep(v) \in {"note", "submit"} => Based(Op(v, s, d, x))
    BY DEF FirstStep, ReadVerbs, Based, Extending, Op
  <2> QED
    BY <1>1, <2>1, <2>2, MoveBased DEF Start
<1>2. CASE Read(t)
  <2>1. op[t] \in Ops
    BY <1>2, UnderWay DEF Read, ITypeOK
  <2>2. PICK l, o : /\ pc' = [pc EXCEPT ![t] = l] /\ op' = [op EXCEPT ![t] = o]
                    /\ l = "idle" \/ Based(o)
    <3>1. CASE disk[op[t].src] # None
      <4> DEFINE n == [op[t] EXCEPT !.base = disk[op[t].src],
                         !.cond = IF op[t].verb \in {"append", "patch"} \/ op[t].dst \in HashFiles
                                    THEN disk[op[t].src] ELSE Always]
      <4>1. Goto(t, "note", n)
        BY <1>2, <3>1 DEF Read, ReadBase
      <4>2. Based(n)
        BY <2>1 DEF Based, Extending, Ops
      <4> QED
        BY <4>1, <4>2 DEF Goto
    <3>2. CASE disk[op[t].src] = None /\ op[t].verb \in {"append", "patch"}
      <4> DEFINE n == [op[t] EXCEPT !.base = <<>>, !.cond = None]
      <4>1. Goto(t, "submit", n)
        BY <1>2, <3>2 DEF Read, ReadBase
      <4>2. Based(n)
        BY <2>1 DEF Based, Ops
      <4> QED
        BY <4>1, <4>2 DEF Goto
    <3>3. CASE disk[op[t].src] = None /\ op[t].verb \notin {"append", "patch"}
      BY <1>2, <3>3 DEF Read, ReadBase, End
    <3> QED
      BY <3>1, <3>2, <3>3
  <2> QED
    BY <1>2, <2>2, MoveBased DEF Read
<1>3. CASE NoteRead(t)
  <2>1. Based(op[t])
    BY <1>3 DEF NoteRead, IBased
  <2> QED
    BY <1>3, <2>1, MoveBased DEF NoteRead, Goto, End
<1>4. CASE Resolve(t) \/ Fallback(t) \/ NoteBase(t)
  <2>1. op[t] \in Ops /\ op[t].verb \in {"overwrite", "mv"}
    BY <1>4, UnderWay DEF Resolve, Fallback, NoteBase, ITypeOK, IPhases, PhaseOK
  <2>2. ASSUME NEW c PROVE Based([op[t] EXCEPT !.cond = c]) /\ Based(op[t])
    BY <2>1 DEF Based, Extending, Ops
  <2>3. PICK l, o : /\ pc' = [pc EXCEPT ![t] = l] /\ op' = [op EXCEPT ![t] = o]
                    /\ Based(o)
    BY <1>4, <2>2 DEF Resolve, Fallback, NoteBase, Goto
  <2> QED
    BY <1>4, <2>3, MoveBased DEF Resolve, Fallback, NoteBase
<1>5. CASE Commit(t) \/ Refuse(t) \/ Settle(t) \/ Reject(t)
  <2>1. PICK l, o : /\ pc' = [pc EXCEPT ![t] = l] /\ op' = [op EXCEPT ![t] = o]
                    /\ l \in {"idle", "settle", "read"}
    BY <1>5 DEF Commit, Refuse, RefuseAppend, Settle, Reject, Goto, End
  <2> QED
    BY <1>5, <2>1, MoveBased DEF Commit, Refuse, Settle, Reject
<1>6. CASE Park(t)
  <2>1. Based(op[t])
    BY <1>6 DEF Park, IBased
  <2>2. \A p \in parked' : Based(p.op)
    BY <1>6, <2>1 DEF Park, IBased
  <2>3. \A u \in Threads : pc'[u] \in {"note", "submit"} => Based(op'[u])
    BY <1>6 DEF Park, End, ITypeOK, TypeOK, IBased
  <2> QED
    BY <2>2, <2>3 DEF IBased
<1> QED
  BY <1>1, <1>2, <1>3, <1>4, <1>5, <1>6 DEF Verb

\* Every step keeps IBased.
LEMMA StepBased == ITypeOK /\ IBased /\ [Next]_vars => IBased'
<1>1. ITypeOK /\ IBased /\ Approve => IBased'
  BY DEF Approve, IBased
<1>2. IBased /\ UNCHANGED vars => IBased'
  BY DEF vars, IBased
<1> QED
  BY <1>1, <1>2, VerbBased DEF Next

\* From its read on, an append insists on what it extends.
THEOREM IBasedCorrect == Spec => []IBased
<1>1. Init => IBased
  BY DEF Init, IBased
<1>2. Spec => []ITypeOK
  BY ITypeCorrect
<1> QED
  BY <1>1, <1>2, StepBased, PTL DEF Spec

\* In such a state an append that lands extends what the file holds.
LEMMA StepAppends ==
  ITypeOK /\ IBased /\ [Next]_vars =>
    \A l \in Landing :
       (l[1].verb \in {"append", "patch"} \/ (l[1].verb = "sed" /\ l[1].dst \in HashFiles)) =>
         disk'[l[1].dst] = Append(IF disk[l[1].dst] = None THEN <<>> ELSE disk[l[1].dst],
                                  l[1].text)
<1> SUFFICES ASSUME ITypeOK, IBased, [Next]_vars, NEW l \in Landing, Extending(l[1])
             PROVE  disk'[l[1].dst] = Append(IF disk[l[1].dst] = None THEN <<>>
                                             ELSE disk[l[1].dst], l[1].text)
  BY DEF Extending
<1> DEFINE o == l[1]
<1>1. Waiting(l) /\ Ready(o) /\ Goes(o) /\ disk' = After(o)
  BY LandingGoes
<1>2. Based(o)
  BY <1>1 DEF Waiting, IBased
<1>3. o.verb \in {"append", "patch", "sed"} /\ o.base \in Contents /\ o.dst \in Files
  BY <1>1 DEF Extending, Ready, Ops
<1>4. Fresh(o) /\ disk' = [disk EXCEPT ![o.dst] = Append(o.base, o.text)]
  BY <1>1, <1>3 DEF Goes, After, Proposed
<1>5. disk[o.dst] = o.cond
  BY <1>2, <1>3, <1>4, SessionAssumption DEF Based, Fresh
<1>6. disk'[o.dst] = Append(o.base, o.text)
  BY <1>3, <1>4 DEF ITypeOK, TypeOK
<1> QED
  BY <1>2, <1>3, <1>5, <1>6, SessionAssumption DEF Based

\* No append, patch or edit under PolicyHash ever loses what another wrote
\* before it, however many sessions and threads work on the file.
THEOREM AppendsLoseNothing == Spec => AppendsKeepAll
<1>1. Spec => [](ITypeOK /\ IBased)
  BY ITypeCorrect, IBasedCorrect, PTL
<1> QED
  BY <1>1, StepAppends, PTL DEF Spec, AppendsKeepAll
-----------------------------------------------------------------------------
(* A verb keeps what it is about: until it ends its verb and its files are   *)
(* the ones it began with.                                                   *)

SameVerb(o, n) == n.verb = o.verb /\ n.src = o.src /\ n.dst = o.dst

LEMMA GoesOn ==
  ASSUME ITypeOK, NEW t \in Threads, Verb(t), ~Start(t)
  PROVE  /\ pc[t] # "idle" /\ op[t] \in Ops
         /\ \E l, o : /\ pc' = [pc EXCEPT ![t] = l] /\ op' = [op EXCEPT ![t] = o]
                      /\ l # "idle" => o \in Ops /\ SameVerb(op[t], o)
<1>1. pc[t] # "idle"
  BY DEF Verb, Read, NoteRead, Resolve, Fallback, NoteBase, Commit, Refuse, Settle, Park, Reject
<1>2. op[t] \in Ops /\ t \in DOMAIN op
  BY <1>1, UnderWay DEF ITypeOK, TypeOK
<1>3. SameVerb(op[t], op[t])
  BY DEF SameVerb
<1>4. ASSUME NEW b \in {None} \cup Contents, NEW c \in {Always, None} \cup Contents
      PROVE  /\ [op[t] EXCEPT !.base = b, !.cond = c] \in Ops
             /\ SameVerb(op[t], [op[t] EXCEPT !.base = b, !.cond = c])
             /\ [op[t] EXCEPT !.cond = c] \in Ops /\ SameVerb(op[t], [op[t] EXCEPT !.cond = c])
  BY <1>2 DEF Ops, SameVerb
<1>5. CASE Read(t)
  <2>1. disk[op[t].src] \in {None} \cup Contents /\ <<>> \in Contents
    BY <1>2 DEF ITypeOK, TypeOK, Ops, Contents
  <2> DEFINE c == IF op[t].verb \in {"append", "patch"} \/ op[t].dst \in HashFiles
                    THEN disk[op[t].src] ELSE Always
  <2>2. c \in {Always, None} \cup Contents
    BY <2>1
  <2>3. \/ \E r : End(t, r)
        \/ Goto(t, "note", [op[t] EXCEPT !.base = disk[op[t].src], !.cond = c])
        \/ Goto(t, "submit", [op[t] EXCEPT !.base = <<>>, !.cond = None])
    BY <1>5 DEF Read, ReadBase
  <2> HIDE DEF c
  <2> QED
    BY <1>1, <1>2, <1>4, <2>1, <2>2, <2>3 DEF Goto, End
<1>6. CASE NoteRead(t)
  BY <1>1, <1>2, <1>3, <1>6 DEF NoteRead, Goto, End
<1>7. CASE Resolve(t)
  <2>1. tracked[Me(t)][op[t].dst] \in {None} \cup Contents
    BY <1>2, SessionsOf DEF ITypeOK, TypeOK, Ops
  <2> QED
    BY <1>1, <1>2, <1>3, <1>4, <1>7, <2>1 DEF Resolve, Goto
<1>8. CASE Fallback(t)
  <2>1. disk[op[t].dst] \in {None} \cup Contents
    BY <1>2 DEF ITypeOK, TypeOK, Ops
  <2> QED
    BY <1>1, <1>2, <1>4, <1>8, <2>1 DEF Fallback, Goto
<1>9. CASE NoteBase(t)
  BY <1>1, <1>2, <1>3, <1>9 DEF NoteBase, Goto
<1>10. CASE Commit(t)
  BY <1>1, <1>2, <1>3, <1>10 DEF Commit, Goto, End
<1>11. CASE Refuse(t)
  <2>1. op[t].tries + 1 < MaxRetries =>
          /\ [op[t] EXCEPT !.tries = @ + 1] \in Ops
          /\ SameVerb(op[t], [op[t] EXCEPT !.tries = @ + 1])
    BY <1>2, SessionAssumption DEF Ops, SameVerb
  <2>2. \/ \E r : End(t, r)
        \/ op[t].tries + 1 < MaxRetries /\ Goto(t, "read", [op[t] EXCEPT !.tries = @ + 1])
    BY <1>11 DEF Refuse, RefuseAppend
  <2> QED
    BY <1>1, <1>2, <2>1, <2>2 DEF Goto, End
<1>12. CASE Settle(t) \/ Park(t) \/ Reject(t)
  BY <1>1, <1>2, <1>12 DEF Settle, Park, Reject, End
<1> QED
  BY <1>1, <1>2, <1>5, <1>6, <1>7, <1>8, <1>9, <1>10, <1>11, <1>12 DEF Verb

(* A mv goes from one file to another, and the other verbs have one file.    *)
Apart(o) == o.verb = "mv" <=> o.src # o.dst
IApart ==
  /\ \A t \in Threads : pc[t] # "idle" => Apart(op[t])
  /\ \A p \in parked : Apart(p.op)

LEMMA StepApart == ITypeOK /\ IApart /\ [Next]_vars => IApart'
<1> SUFFICES ASSUME ITypeOK, IApart, [Next]_vars PROVE IApart'
  OBVIOUS
<1>1. ASSUME NEW t \in Threads, Verb(t) PROVE IApart'
  <2>1. PICK l, o : /\ pc' = [pc EXCEPT ![t] = l] /\ op' = [op EXCEPT ![t] = o]
                    /\ l # "idle" => Apart(o)
    <3>1. CASE Start(t)
      <4>1. PICK v \in Verbs[Me(t)], s \in Files, d \in Files, x \in Texts :
              /\ (v = "mv") <=> (s # d)
              /\ v \in {"rm", "rmtree", "mv", "sed"} => disk[s] # None
              /\ pc' = [pc EXCEPT ![t] = FirstStep(v)]
              /\ op' = [op EXCEPT ![t] = Op(v, s, d, x)]
        BY <3>1 DEF Start
      <4> DEFINE k == FirstStep(v)
                 n == Op(v, s, d, x)
      <4>2. Apart(n)
        BY <4>1 DEF Apart, Op
      <4>3. pc' = [pc EXCEPT ![t] = k] /\ op' = [op EXCEPT ![t] = n]
        BY <4>1
      <4> HIDE DEF k, n
      <4> QED
        BY <4>2, <4>3
    <3>2. CASE ~Start(t)
      <4>1. PICK l, o : /\ pc' = [pc EXCEPT ![t] = l] /\ op' = [op EXCEPT ![t] = o]
                        /\ l # "idle" => SameVerb(op[t], o)
        BY <1>1, <3>2, GoesOn
      <4>2. Apart(op[t])
        BY <1>1, <3>2, GoesOn DEF IApart
      <4>3. l # "idle" => Apart(o)
        BY <4>1, <4>2 DEF SameVerb, Apart
      <4> QED
        BY <4>1, <4>3
    <3> QED
      BY <3>1, <3>2
  <2>2. ASSUME NEW u \in Threads, pc'[u] # "idle" PROVE Apart(op'[u])
    BY <2>1, <2>2 DEF ITypeOK, TypeOK, IApart
  <2>3. parked' \subseteq parked \/ (pc[t] # "idle" /\ parked' = parked \cup {[by |-> t, op |-> op[t]]})
    BY <1>1 DEF Verb, Start, Read, NoteRead, Resolve, Fallback, NoteBase, Commit, Refuse, Settle,
                Park, Reject
  <2>4. \A p \in parked' : Apart(p.op)
    BY <2>3 DEF IApart
  <2> QED
    BY <2>2, <2>4 DEF IApart
<1>2. CASE Approve
  BY <1>2 DEF Approve, IApart
<1>3. CASE UNCHANGED vars
  BY <1>3 DEF vars, IApart
<1> QED
  BY <1>1, <1>2, <1>3 DEF Next

LEMMA StepMoves ==
  ITypeOK /\ IApart /\ [Next]_vars =>
    \A l \in Landing : l[1].verb = "mv" => disk'[l[1].dst] = disk[l[1].src]
<1> SUFFICES ASSUME ITypeOK, IApart, [Next]_vars, NEW l \in Landing, l[1].verb = "mv"
             PROVE  disk'[l[1].dst] = disk[l[1].src]
  OBVIOUS
<1> DEFINE o == l[1]
<1>1. Waiting(l) /\ Ready(o) /\ Goes(o) /\ disk' = After(o)
  BY LandingGoes
<1>2. o.src # o.dst
  BY <1>1 DEF Waiting, IApart, Apart
<1>3. o.src \in Files /\ o.dst \in Files /\ disk[o.src] = o.base
  BY <1>1 DEF Ready, Ops, Goes
<1>4. disk' = [disk EXCEPT ![o.dst] = o.base, ![o.src] = None]
  BY <1>1 DEF After
<1> QED
  BY <1>2, <1>3, <1>4 DEF ITypeOK, TypeOK

\* A mv never loses what its source holds, whoever writes to either file while it
\* is under way or waits for its approver.
THEOREM MovesLoseNothing == Spec => MovesKeepContent
<1>1. Init => IApart
  BY DEF Init, IApart
<1>2. Spec => [](ITypeOK /\ IApart)
  BY <1>1, ITypeCorrect, StepApart, PTL DEF Spec
<1> QED
  BY <1>2, StepMoves, PTL DEF Spec, MovesKeepContent
-----------------------------------------------------------------------------
(* An append whose content is no longer there has been overtaken once more   *)
(* than it has been refused.                                                 *)

Overtaken(l, o, n, d) ==
  l # "idle" /\ o.verb = "append" =>
    n >= o.tries /\ (l \in {"note", "submit"} /\ d[o.dst] # o.cond => n > o.tries)
IOvertaken ==
  /\ \A t \in Threads : Overtaken(pc[t], op[t], rivals[t], disk)
  /\ ContentionIsReal

\* Who is overtaken is counted, up to the bound, and the others stay as they are.
LEMMA StaysOvertaken ==
  ASSUME ITypeOK, IOvertaken, NEW u \in Threads,
         pc'[u] = pc[u], op'[u] = op[u], res'[u] = res[u], rivals'[u] \in 0..MaxRetries,
         rivals'[u] >= rivals[u],
         pc[u] # "idle" /\ disk'[op[u].dst] # disk[op[u].dst] =>
           rivals'[u] > rivals[u] \/ rivals'[u] = MaxRetries
  PROVE  /\ Overtaken(pc'[u], op'[u], rivals'[u], disk')
         /\ res'[u] = "contention" => rivals'[u] >= MaxRetries
<1>1. rivals[u] \in 0..MaxRetries /\ MaxRetries \in Nat \ {0}
  BY SessionAssumption DEF ITypeOK, TypeOK
<1>2. /\ Overtaken(pc[u], op[u], rivals[u], disk)
      /\ res[u] = "contention" => rivals[u] >= MaxRetries
  BY DEF IOvertaken, ContentionIsReal
<1>3. res'[u] = "contention" => rivals'[u] >= MaxRetries
  BY <1>1, <1>2
<1>4. Overtaken(pc[u], op[u], rivals'[u], disk')
  <2> SUFFICES ASSUME pc[u] # "idle", op[u].verb = "append"
               PROVE  /\ rivals'[u] >= op[u].tries
                      /\ pc[u] \in {"note", "submit"} /\ disk'[op[u].dst] # op[u].cond =>
                           rivals'[u] > op[u].tries
    BY DEF Overtaken
  <2>1. op[u].tries \in 0..(MaxRetries - 1)
    BY UnderWay DEF ITypeOK, Ops
  <2>2. /\ rivals[u] >= op[u].tries
        /\ pc[u] \in {"note", "submit"} /\ disk[op[u].dst] # op[u].cond => rivals[u] > op[u].tries
    BY <1>2 DEF Overtaken
  <2>3. CASE disk'[op[u].dst] = disk[op[u].dst]
    BY <1>1, <2>1, <2>2, <2>3
  <2>4. CASE disk'[op[u].dst] # disk[op[u].dst]
    <3>1. rivals'[u] > rivals[u] \/ rivals'[u] = MaxRetries
      BY <2>4
    <3> QED
      BY <1>1, <2>1, <2>2, <3>1
  <2> QED
    BY <2>3, <2>4
<1> QED
  BY <1>3, <1>4

\* A thread that moves on and changes no file.
LEMMA MoveOvertaken ==
  ASSUME ITypeOK, IOvertaken, UNCHANGED <<disk, rivals>>, NEW t \in Threads, NEW l, NEW o,
         pc' = [pc EXCEPT ![t] = l], op' = [op EXCEPT ![t] = o],
         Overtaken(l, o, rivals[t], disk),
         res' = res \/ \E r : res' = [res EXCEPT ![t] = r] /\ (r = "contention" => rivals[t] >= MaxRetries)
  PROVE  IOvertaken'
<1>1. ASSUME NEW u \in Threads PROVE Overtaken(pc'[u], op'[u], rivals'[u], disk')
  <2>1. Overtaken(pc[u], op[u], rivals[u], disk)
    BY DEF IOvertaken
  <2>2. (u = t /\ pc'[u] = l /\ op'[u] = o) \/ (pc'[u] = pc[u] /\ op'[u] = op[u])
    BY DEF ITypeOK, TypeOK
  <2> QED
    BY <2>1, <2>2
<1>2. ContentionIsReal'
  <2>1. \A u \in Threads : res[u] = "contention" => rivals[u] >= MaxRetries
    BY DEF IOvertaken, ContentionIsReal
  <2>2. \A u \in Threads : \/ res'[u] = res[u]
                           \/ u = t /\ (res'[u] = "contention" => rivals[t] >= MaxRetries)
    BY DEF ITypeOK, TypeOK
  <2> QED
    BY <2>1, <2>2 DEF ContentionIsReal
<1> QED
  BY <1>1, <1>2 DEF IOvertaken

\* A thread that ends without a complaint about contention.
LEMMA EndOvertaken ==
  ASSUME ITypeOK, IOvertaken, UNCHANGED <<disk, rivals>>, NEW t \in Threads,
         \E r : r # "contention" /\ End(t, r)
  PROVE  IOvertaken'
<1>1. PICK r : r # "contention" /\ End(t, r)
  OBVIOUS
<1>2. /\ pc' = [pc EXCEPT ![t] = "idle"] /\ op' = [op EXCEPT ![t] = Idle]
      /\ res' = [res EXCEPT ![t] = r]
  BY <1>1 DEF End
<1>3. Overtaken("idle", Idle, rivals[t], disk)
  BY DEF Overtaken
<1> QED
  BY <1>1, <1>2, <1>3, MoveOvertaken

\* A change that lands: every other verb on a file it changes is overtaken.
LEMMA ApplyOvertakes ==
  ASSUME ITypeOK, NEW o \in Ops, NEW by, NEW t, Apply(o, by, t), NEW u \in Threads
  PROVE  /\ rivals'[u] \in 0..MaxRetries /\ rivals'[u] >= rivals[u]
         /\ u = t => rivals'[u] = rivals[u]
         /\ u # t /\ pc[u] # "idle" /\ disk'[op[u].dst] # disk[op[u].dst] =>
              rivals'[u] > rivals[u] \/ rivals'[u] = MaxRetries
<1> DEFINE changed == {f \in Files : After(o)[f] # disk[f]}
<1>1. rivals[u] \in 0..MaxRetries /\ MaxRetries \in Nat
  BY SessionAssumption DEF ITypeOK, TypeOK
<1>2. rivals'[u] = IF u # t /\ pc[u] # "idle" /\ op[u].dst \in changed /\ rivals[u] < MaxRetries
                     THEN rivals[u] + 1 ELSE rivals[u]
  BY DEF Apply
<1>3. pc[u] # "idle" /\ disk'[op[u].dst] # disk[op[u].dst] => op[u].dst \in changed
  <2>1. pc[u] # "idle" => op[u].dst \in Files
    BY UnderWay DEF ITypeOK, Ops
  <2> QED
    BY <2>1 DEF Apply
<1> HIDE DEF changed
<1> QED
  BY <1>1, <1>2, <1>3

LEMMA InitOvertaken == Init => IOvertaken
BY DEF Init, IOvertaken, Overtaken, ContentionIsReal

LEMMA VerbOvertaken ==
  ASSUME ITypeOK, IApart, IOvertaken, NEW t \in Threads, Verb(t)
  PROVE  IOvertaken'
<1> DEFINE o == op[t]
<1>0. /\ Overtaken(pc[t], o, rivals[t], disk) /\ rivals[t] \in 0..MaxRetries /\ t \in DOMAIN res
      /\ MaxRetries \in Nat \ {0}
  BY SessionAssumption DEF IOvertaken, ITypeOK, TypeOK
<1>1. CASE Start(t)
  <2>1. PICK v \in Verbs[Me(t)], s \in Files, d \in Files, x \in Texts :
          /\ (v = "mv") <=> (s # d)
          /\ v \in {"rm", "rmtree", "mv", "sed"} => disk[s] # None
          /\ pc' = [pc EXCEPT ![t] = FirstStep(v)]
          /\ op' = [op EXCEPT ![t] = Op(v, s, d, x)]
    BY <1>1 DEF Start
  <2>2. /\ disk' = disk /\ res' = [res EXCEPT ![t] = "none"] /\ rivals' = [rivals EXCEPT ![t] = 0]
    BY <1>1 DEF Start
  <2>3. Overtaken(FirstStep(v), Op(v, s, d, x), 0, disk)
    BY DEF Overtaken, Op, FirstStep, ReadVerbs
  <2>4. ASSUME NEW u \in Threads
        PROVE  /\ Overtaken(pc'[u], op'[u], rivals'[u], disk')
               /\ res'[u] = "contention" => rivals'[u] >= MaxRetries
    <3>1. CASE u = t
      <4>1. pc'[u] = FirstStep(v) /\ op'[u] = Op(v, s, d, x) /\ rivals'[u] = 0 /\ res'[u] = "none"
        BY <2>1, <2>2, <3>1 DEF ITypeOK, TypeOK
      <4> QED
        BY <2>2, <2>3, <4>1
    <3>2. CASE u # t
      <4>1. pc'[u] = pc[u] /\ op'[u] = op[u] /\ rivals'[u] = rivals[u] /\ res'[u] = res[u]
        BY <2>1, <2>2, <3>2
      <4> QED
        BY <2>2, <4>1 DEF IOvertaken, ContentionIsReal
    <3> QED
      BY <3>1, <3>2
  <2> QED
    BY <2>4 DEF IOvertaken, ContentionIsReal
<1>2. CASE Read(t)
  <2>1. o \in Ops /\ (o.verb = "append" => o.src = o.dst) /\ pc[t] = "read"
    BY <1>2, UnderWay DEF Read, ITypeOK, IApart, Apart
  <2>2. o.verb = "append" => rivals[t] >= o.tries
    BY <1>0, <2>1 DEF Overtaken
  <2> DEFINE c == IF o.verb \in {"append", "patch"} \/ o.dst \in HashFiles
                    THEN disk[o.src] ELSE Always
             n == [o EXCEPT !.base = disk[o.src], !.cond = c]
             m == [o EXCEPT !.base = <<>>, !.cond = None]
  <2>3. UNCHANGED <<disk, rivals>>
    BY <1>2 DEF Read
  <2>4. CASE disk[o.src] # None
    <3>1. pc' = [pc EXCEPT ![t] = "note"] /\ op' = [op EXCEPT ![t] = n] /\ res' = res
      BY <1>2, <2>4 DEF Read, ReadBase, Goto
    <3>2. n.verb = o.verb /\ n.tries = o.tries /\ n.dst = o.dst /\ n.cond = c
      BY <2>1 DEF Ops
    <3>3. Overtaken("note", n, rivals[t], disk)
      BY <2>1, <2>2, <3>2 DEF Overtaken
    <3> QED
      BY <2>3, <3>1, <3>3, MoveOvertaken
  <2>5. CASE disk[o.src] = None /\ o.verb \in {"append", "patch"}
    <3>1. pc' = [pc EXCEPT ![t] = "submit"] /\ op' = [op EXCEPT ![t] = m] /\ res' = res
      BY <1>2, <2>5 DEF Read, ReadBase, Goto
    <3>2. m.verb = o.verb /\ m.tries = o.tries /\ m.dst = o.dst /\ m.cond = None
      BY <2>1 DEF Ops
    <3>3. Overtaken("submit", m, rivals[t], disk)
      BY <2>1, <2>2, <2>5, <3>2 DEF Overtaken
    <3> QED
      BY <2>3, <3>1, <3>3, MoveOvertaken
  <2>6. CASE disk[o.src] = None /\ o.verb \notin {"append", "patch"}
    <3>1. \E r : r # "contention" /\ End(t, r)
      BY <1>2, <2>6 DEF Read, ReadBase
    <3> QED
      BY <2>3, <3>1, EndOvertaken
  <2> QED
    BY <2>4, <2>5, <2>6
<1>3. CASE NoteRead(t)
  <2>1. UNCHANGED <<disk, rivals>> /\ pc[t] = "note"
    BY <1>3 DEF NoteRead
  <2>2. CASE o.verb = "cat"
    <3>1. \E r : r # "contention" /\ End(t, r)
      BY <1>3, <2>2 DEF NoteRead
    <3> QED
      BY <2>1, <3>1, EndOvertaken
  <2>3. CASE o.verb # "cat"
    <3>1. PICK l \in {"resolve", "submit"} : Goto(t, l, o)
      BY <1>3, <2>3 DEF NoteRead
    <3>2. pc' = [pc EXCEPT ![t] = l] /\ op' = [op EXCEPT ![t] = o] /\ res' = res
      BY <3>1 DEF Goto
    <3>3. Overtaken(l, o, rivals[t], disk)
      BY <1>0, <2>1 DEF Overtaken
    <3> QED
      BY <2>1, <3>2, <3>3, MoveOvertaken
  <2> QED
    BY <2>2, <2>3
<1>4. CASE Resolve(t) \/ Fallback(t) \/ NoteBase(t)
  <2>1. o \in Ops /\ o.verb \in {"overwrite", "mv"}
    BY <1>4, UnderWay DEF Resolve, Fallback, NoteBase, ITypeOK, IPhases, PhaseOK
  <2>2. ~Start(t)
    BY <1>4 DEF Start, Resolve, Fallback, NoteBase
  <2>3. PICK l, n : /\ pc' = [pc EXCEPT ![t] = l] /\ op' = [op EXCEPT ![t] = n]
                    /\ l # "idle" => SameVerb(o, n)
    BY <2>2, GoesOn
  <2>4. Overtaken(l, n, rivals[t], disk)
    BY <2>1, <2>3 DEF Overtaken, SameVerb
  <2>5. UNCHANGED <<disk, rivals, res>>
    BY <1>4 DEF Resolve, Fallback, NoteBase, Goto
  <2> QED
    BY <2>3, <2>4, <2>5, MoveOvertaken
<1>5. CASE Commit(t)
  <2>1. Apply(o, Me(t), t) /\ o \in Ops /\ pc[t] = "submit"
    BY <1>5, UnderWay DEF Commit, ITypeOK
  <2>2. \/ pc' = [pc EXCEPT ![t] = "idle"] /\ op' = [op EXCEPT ![t] = Idle]
           /\ res' = [res EXCEPT ![t] = "ok"]
        \/ pc' = [pc EXCEPT ![t] = "settle"] /\ op' = [op EXCEPT ![t] = o] /\ res' = res
    BY <1>5 DEF Commit, Goto, End
  <2>3. ASSUME NEW u \in Threads
        PROVE  /\ Overtaken(pc'[u], op'[u], rivals'[u], disk')
               /\ res'[u] = "contention" => rivals'[u] >= MaxRetries
    <3>1. CASE u # t
      <4>1. pc'[u] = pc[u] /\ op'[u] = op[u] /\ res'[u] = res[u]
        BY <2>2, <3>1 DEF ITypeOK, TypeOK
      <4>2. /\ rivals'[u] \in 0..MaxRetries /\ rivals'[u] >= rivals[u]
            /\ pc[u] # "idle" /\ disk'[op[u].dst] # disk[op[u].dst] =>
                 rivals'[u] > rivals[u] \/ rivals'[u] = MaxRetries
        BY <2>1, <3>1, ApplyOvertakes
      <4> QED
        BY <4>1, <4>2, StaysOvertaken
    <3>2. CASE u = t
      <4>1. rivals'[t] = rivals[t]
        BY <2>1, ApplyOvertakes
      <4>2. \/ pc'[t] = "idle" /\ res'[t] = "ok"
            \/ pc'[t] = "settle" /\ op'[t] = o /\ res'[t] = res[t]
        BY <2>2 DEF ITypeOK, TypeOK
      <4>3. o.verb = "append" => rivals[t] >= o.tries
        BY <1>0, <2>1 DEF Overtaken
      <4>4. res[t] = "contention" => rivals[t] >= MaxRetries
        BY DEF IOvertaken, ContentionIsReal
      <4> QED
        BY <3>2, <4>1, <4>2, <4>3, <4>4 DEF Overtaken
    <3> QED
      BY <3>1, <3>2
  <2> QED
    BY <2>3 DEF IOvertaken, ContentionIsReal
<1>6. CASE Refuse(t)
  <2>1. o \in Ops /\ pc[t] = "submit" /\ ~Goes(o) /\ UNCHANGED <<disk, rivals>>
    BY <1>6, UnderWay DEF Refuse, ITypeOK
  <2>2. CASE o.verb = "append"
    <3>1. rivals[t] > o.tries /\ o.tries \in 0..(MaxRetries - 1)
      BY <1>0, <2>1, <2>2 DEF Overtaken, Goes, Fresh, Ops
    <3>2. RefuseAppend(t)
      BY <1>6, <2>2 DEF Refuse
    <3>3. CASE o.tries + 1 < MaxRetries
      <4> DEFINE n == [o EXCEPT !.tries = @ + 1]
      <4>1. pc' = [pc EXCEPT ![t] = "read"] /\ op' = [op EXCEPT ![t] = n] /\ res' = res
        BY <3>2, <3>3 DEF RefuseAppend, Goto
      <4>2. n.tries = o.tries + 1
        BY <2>1 DEF Ops
      <4>3. Overtaken("read", n, rivals[t], disk)
        BY <1>0, <3>1, <4>2 DEF Overtaken
      <4> QED
        BY <2>1, <4>1, <4>3, MoveOvertaken
    <3>4. CASE ~(o.tries + 1 < MaxRetries)
      <4>1. rivals[t] >= MaxRetries
        BY <1>0, <3>1, <3>4
      <4>2. End(t, "contention")
        BY <3>2, <3>4 DEF RefuseAppend
      <4> QED
        BY <2>1, <4>1, <4>2, MoveOvertaken DEF End, Overtaken
    <3> QED
      BY <3>3, <3>4
  <2>3. CASE o.verb # "append"
    <3>1. \E r : r # "contention" /\ End(t, r)
      BY <1>6, <2>3 DEF Refuse
    <3> QED
      BY <2>1, <3>1, EndOvertaken
  <2> QED
    BY <2>2, <2>3
<1>7. CASE Settle(t) \/ Park(t) \/ Reject(t)
  <2>1. \E r : r # "contention" /\ End(t, r)
    BY <1>7 DEF Settle, Park, Reject
  <2>2. UNCHANGED <<disk, rivals>>
    BY <1>7 DEF Settle, Park, Reject
  <2> QED
    BY <2>1, <2>2, EndOvertaken
<1> QED
  BY <1>1, <1>2, <1>3, <1>4, <1>5, <1>6, <1>7 DEF Verb

LEMMA StepOvertaken == ITypeOK /\ IApart /\ IOvertaken /\ [Next]_vars => IOvertaken'
<1> SUFFICES ASSUME ITypeOK, IApart, IOvertaken, [Next]_vars PROVE IOvertaken'
  OBVIOUS
<1>1. ASSUME NEW t \in Threads, Verb(t) PROVE IOvertaken'
  BY <1>1, VerbOvertaken
<1>2. CASE Approve
  <2>1. UNCHANGED <<pc, op, res>>
    BY <1>2 DEF Approve
  <2>2. UNCHANGED <<disk, rivals>> \/ \E x \in Ops : Apply(x, None, None)
    BY <1>2 DEF Approve, ITypeOK, TypeOK
  <2>3. CASE UNCHANGED <<disk, rivals>>
    BY <2>1, <2>3 DEF IOvertaken, ContentionIsReal
  <2>4. CASE \E x \in Ops : Apply(x, None, None)
    <3>1. PICK x \in Ops : Apply(x, None, None)
      BY <2>4
    <3>2. ASSUME NEW u \in Threads
          PROVE  /\ Overtaken(pc'[u], op'[u], rivals'[u], disk')
                 /\ res'[u] = "contention" => rivals'[u] >= MaxRetries
      <4>1. u # None
        BY SessionAssumption
      <4>2. /\ rivals'[u] \in 0..MaxRetries /\ rivals'[u] >= rivals[u]
            /\ u # None /\ pc[u] # "idle" /\ disk'[op[u].dst] # disk[op[u].dst] =>
                 rivals'[u] > rivals[u] \/ rivals'[u] = MaxRetries
        BY <3>1, ApplyOvertakes
      <4> QED
        BY <2>1, <4>1, <4>2, StaysOvertaken
    <3> QED
      BY <3>2 DEF IOvertaken, ContentionIsReal
  <2> QED
    BY <2>2, <2>3, <2>4
<1>3. CASE UNCHANGED vars
  BY <1>3 DEF vars, IOvertaken, ContentionIsReal
<1> QED
  BY <1>1, <1>2, <1>3 DEF Next

\* An append that reports contention has lost its file to somebody else at each of
\* its attempts, however many sessions work on it and whatever an approver lands.
THEOREM ContentionWasReal == Spec => []ContentionIsReal
<1>1. Init => IApart
  BY DEF Init, IApart
<1>2. Spec => [](ITypeOK /\ IApart)
  BY <1>1, ITypeCorrect, StepApart, PTL DEF Spec
<1>3. IOvertaken => ContentionIsReal
  BY DEF IOvertaken
<1> QED
  BY <1>2, <1>3, InitOvertaken, StepOvertaken, PTL DEF Spec
-----------------------------------------------------------------------------
(* What a session of one thread insists on, and what it has noted, is what   *)
(* is in every file that has not changed since it looked; but for the file   *)
(* of the verb under way, which it notes in a step of its own.               *)

Noting(l, o, f) ==
  \/ l = "settle" /\ o.verb = "rmtree"
  \/ l \in {"note", "notebase", "settle"} /\ o.dst = f
Insistent(l, o, c) ==
  /\ l = "note" => o.base = c
  /\ l \in {"note", "submit"} => o.cond \in {Always, c}
  /\ l = "notebase" => o.cond = c
  /\ l = "settle" /\ o.verb \notin {"rm", "rmtree"} => Proposed(o) = c
Known(l, o, tr, b, d) ==
  /\ l # "idle" => o.verb # "mv" /\ o.src = o.dst
  /\ \A f \in Files \ b : d[f] # None =>
       /\ tr[f] \in {None, d[f]} \/ Noting(l, o, f)
       /\ l # "idle" /\ o.dst = f => Insistent(l, o, d[f])
IKnown == \A t \in Solitary : Known(pc[t], op[t], tracked[Me(t)], behind[Me(t)], disk)

\* Of the files a session knows, a change by somebody else leaves those it still
\* knows as they were; one of its own leaves what it did not name.
LEMMA ApplyKnown ==
  ASSUME ITypeOK, NEW o \in Ops, NEW by, NEW t, Apply(o, by, t), NEW s \in Sessions
  PROVE  /\ s # by => \A f \in Files \ behind'[s] : f \notin behind[s] /\ disk'[f] = disk[f]
         /\ s = by => behind'[s] = behind[s] \ {f \in Files : f \in {o.src, o.dst} \/ o.verb = "rmtree"}
<1> DEFINE changed == {f \in Files : After(o)[f] # disk[f]}
           named == {f \in Files : f \in {o.src, o.dst} \/ o.verb = "rmtree"}
<1>1. /\ disk' = After(o)
      /\ behind' = [x \in Sessions |-> IF x = by THEN behind[x] \ named ELSE behind[x] \cup changed]
  BY DEF Apply
<1> QED
  BY <1>1

\* The steps of other threads leave a solitary one where it was.
LEMMA OthersKnown ==
  ASSUME ITypeOK, IKnown, NEW t \in Solitary, NEW u \in Threads, u # t, Verb(u)
  PROVE  Known(pc'[t], op'[t], tracked'[Me(t)], behind'[Me(t)], disk')
<1>1. t \in Threads /\ Me(u) # Me(t) /\ Me(t) \in Sessions /\ Me(u) \in Sessions
  BY SessionsOf DEF Solitary
<1>2. pc'[t] = pc[t] /\ op'[t] = op[t]
  <2>1. CASE Start(u)
    BY <1>1, <2>1 DEF Start, ITypeOK, TypeOK
  <2>2. CASE ~Start(u)
    BY <1>1, <2>2, GoesOn DEF ITypeOK, TypeOK
  <2> QED
    BY <2>1, <2>2
<1>3. tracked'[Me(t)] = tracked[Me(t)]
  BY <1>1 DEF Verb, Start, Read, NoteRead, Resolve, Fallback, NoteBase, Commit, Refuse, Settle,
              Park, Reject, Note, ITypeOK, TypeOK
<1>4. \A f \in Files \ behind'[Me(t)] : f \notin behind[Me(t)] /\ disk'[f] = disk[f]
  <2>1. CASE Commit(u)
    <3>1. op[u] \in Ops /\ Apply(op[u], Me(u), u)
      BY <2>1, UnderWay DEF Commit, ITypeOK
    <3> QED
      BY <1>1, <3>1, ApplyKnown
  <2>2. CASE Read(u) \/ Fallback(u)
    <3>1. disk' = disk /\ behind'[Me(t)] = behind[Me(t)]
      BY <1>1, <2>2 DEF Read, Fallback, Look, ITypeOK, TypeOK
    <3> QED
      BY <3>1
  <2>3. CASE ~Commit(u) /\ ~Read(u) /\ ~Fallback(u)
    BY <2>3 DEF Verb, Start, NoteRead, Resolve, NoteBase, Refuse, Settle, Park, Reject
  <2> QED
    BY <2>1, <2>2, <2>3
<1>5. Known(pc[t], op[t], tracked[Me(t)], behind[Me(t)], disk)
  BY DEF IKnown
<1> QED
  BY <1>2, <1>3, <1>4, <1>5 DEF Known

LEMMA VerbKnown ==
  ASSUME ITypeOK, IKnown, IApart, NEW t \in Solitary, Verb(t)
  PROVE  Known(pc'[t], op'[t], tracked'[Me(t)], behind'[Me(t)], disk')
<1> DEFINE s == Me(t)
           o == op[t]
<1>1. /\ t \in Threads /\ s \in Sessions /\ "mv" \notin Verbs[s]
      /\ t \in DOMAIN pc /\ t \in DOMAIN op /\ s \in DOMAIN tracked /\ s \in DOMAIN behind
      /\ Files = DOMAIN tracked[s]
  BY SessionsOf DEF Solitary, ITypeOK, TypeOK
<1>2. Known(pc[t], o, tracked[s], behind[s], disk)
  BY DEF IKnown
<1>3. pc[t] # "idle" => o \in Ops /\ o.dst \in Files /\ o.src = o.dst /\ o.verb # "mv"
  BY <1>1, <1>2, UnderWay DEF ITypeOK, Known, Ops
<1>4. ASSUME NEW r, End(t, r)
      PROVE  pc'[t] = "idle" /\ op'[t] = Idle
  BY <1>1, <1>4 DEF End
<1>5. ASSUME NEW l, NEW n, Goto(t, l, n)
      PROVE  pc'[t] = l /\ op'[t] = n
  BY <1>1, <1>5 DEF Goto
<1>6. ASSUME NEW f \in Files, Look(t, f)
      PROVE  behind'[s] = behind[s] \ {f}
  BY <1>1, <1>6 DEF Look
<1>7. ASSUME NEW f \in Files, NEW c, Note(t, f, c)
      PROVE  tracked'[s] = [tracked[s] EXCEPT ![f] = c]
  BY <1>1, <1>7 DEF Note
<1> HIDE DEF s, o
<1>8. CASE Start(t)
  <2>1. PICK v \in Verbs[Me(t)], a \in Files, d \in Files, x \in Texts :
          /\ (v = "mv") <=> (a # d)
          /\ v \in {"rm", "rmtree", "mv", "sed"} => disk[a] # None
          /\ pc' = [pc EXCEPT ![t] = FirstStep(v)]
          /\ op' = [op EXCEPT ![t] = Op(v, a, d, x)]
    BY <1>8 DEF Start
  <2>2. /\ pc'[t] = FirstStep(v) /\ op'[t] = Op(v, a, d, x) /\ v # "mv" /\ a = d
        /\ Op(v, a, d, x).cond = Always /\ Op(v, a, d, x).verb = v
        /\ Op(v, a, d, x).src = a /\ Op(v, a, d, x).dst = d
    BY <1>1, <2>1 DEF Op, s
  <2>3. FirstStep(v) \in {"read", "resolve", "submit"} /\ pc[t] = "idle"
    BY <1>8 DEF FirstStep, Start
  <2>4. UNCHANGED <<disk, tracked, behind>>
    BY <1>8 DEF Start
  <2> QED
    BY <1>2, <2>2, <2>3, <2>4 DEF Known, Noting, Insistent, s
<1>9. CASE Read(t)
  <2>1. pc[t] = "read" /\ disk' = disk /\ tracked' = tracked /\ behind'[s] = behind[s] \ {o.dst}
    BY <1>3, <1>6, <1>9 DEF Read, o
  <2> DEFINE b == disk[o.src]
             c == IF o.verb \in {"append", "patch"} \/ o.dst \in HashFiles THEN b ELSE Always
  <2>2. \/ b # None /\ Goto(t, "note", [o EXCEPT !.base = b, !.cond = c])
        \/ b = None /\ Goto(t, "submit", [o EXCEPT !.base = <<>>, !.cond = None])
        \/ b = None /\ End(t, "error")
    BY <1>9 DEF Read, ReadBase, o
  <2>3. c \in {Always, b}
    OBVIOUS
  <2> HIDE DEF c
  <2>4. CASE Goto(t, "note", [o EXCEPT !.base = b, !.cond = c])
    <3>1. PICK n : /\ pc'[t] = "note" /\ op'[t] = n
                   /\ n.verb = o.verb /\ n.src = o.src /\ n.dst = o.dst
                   /\ n.base = b /\ n.cond = c
      <4>1. /\ [o EXCEPT !.base = b, !.cond = c].verb = o.verb
            /\ [o EXCEPT !.base = b, !.cond = c].src = o.src
            /\ [o EXCEPT !.base = b, !.cond = c].dst = o.dst
            /\ [o EXCEPT !.base = b, !.cond = c].base = b
            /\ [o EXCEPT !.base = b, !.cond = c].cond = c
        BY <1>3, <2>1 DEF Ops
      <4> QED
        BY <1>5, <2>4, <4>1, Zenon
    <3> QED
      BY <1>2, <1>3, <2>1, <2>3, <3>1 DEF Known, Noting, Insistent, s
  <2>5. CASE b = None /\ Goto(t, "submit", [o EXCEPT !.base = <<>>, !.cond = None])
    <3>1. PICK n : /\ pc'[t] = "submit" /\ op'[t] = n
                   /\ n.verb = o.verb /\ n.src = o.src /\ n.dst = o.dst
      <4>1. /\ [o EXCEPT !.base = <<>>, !.cond = None].verb = o.verb
            /\ [o EXCEPT !.base = <<>>, !.cond = None].src = o.src
            /\ [o EXCEPT !.base = <<>>, !.cond = None].dst = o.dst
        BY <1>3, <2>1 DEF Ops
      <4> QED
        BY <1>5, <2>5, <4>1, Zenon
    <3> QED
      BY <1>2, <1>3, <2>1, <2>5, <3>1 DEF Known, Noting, Insistent, s
  <2>6. CASE b = None /\ End(t, "error")
    BY <1>2, <1>3, <1>4, <2>1, <2>6 DEF Known, Noting, s, o
  <2> QED
    BY <2>2, <2>4, <2>5, <2>6
<1>10. CASE NoteRead(t)
  <2>1. /\ pc[t] = "note" /\ disk' = disk /\ behind' = behind
        /\ tracked'[s] = [tracked[s] EXCEPT ![o.dst] = o.base]
    BY <1>3, <1>7, <1>10 DEF NoteRead, o
  <2>2. \/ pc'[t] = "idle"
        \/ pc'[t] = "submit" /\ op'[t] = o
    BY <1>3, <1>4, <1>5, <1>10, <2>1 DEF NoteRead, o
  <2> QED
    BY <1>1, <1>2, <1>3, <2>1, <2>2 DEF Known, Noting, Insistent, s, o
<1>11. CASE Resolve(t)
  <2>1. pc[t] = "resolve" /\ UNCHANGED <<disk, tracked, behind>>
    BY <1>11 DEF Resolve
  <2> DEFINE last == tracked[s][o.dst]
  <2>2. \/ Goto(t, "submit", [o EXCEPT !.cond = Always])
        \/ last # None /\ Goto(t, "submit", [o EXCEPT !.cond = last])
        \/ Goto(t, "fallback", o)
    BY <1>11 DEF Resolve, s, o
  <2>3. CASE Goto(t, "fallback", o)
    BY <1>2, <1>3, <1>5, <2>1, <2>3 DEF Known, Noting, Insistent, s, o
  <2>4. ASSUME NEW c, c = Always \/ (last # None /\ c = last),
               Goto(t, "submit", [o EXCEPT !.cond = c])
        PROVE  Known(pc'[t], op'[t], tracked'[s], behind'[s], disk')
    <3>1. PICK n : /\ pc'[t] = "submit" /\ op'[t] = n
                   /\ n.verb = o.verb /\ n.src = o.src /\ n.dst = o.dst /\ n.cond = c
      <4>1. /\ [o EXCEPT !.cond = c].verb = o.verb /\ [o EXCEPT !.cond = c].src = o.src
            /\ [o EXCEPT !.cond = c].dst = o.dst /\ [o EXCEPT !.cond = c].cond = c
        BY <1>3, <2>1 DEF Ops
      <4> QED
        BY <1>5, <2>4, <4>1, Zenon
    <3> QED
      BY <1>2, <1>3, <2>1, <2>4, <3>1 DEF Known, Noting, Insistent
  <2> QED
    BY <2>2, <2>3, <2>4 DEF s
<1>12. CASE Fallback(t)
  <2>1. /\ pc[t] = "fallback" /\ disk' = disk /\ tracked' = tracked
        /\ behind'[s] = behind[s] \ {o.dst}
    BY <1>3, <1>6, <1>12 DEF Fallback, o
  <2> DEFINE c == disk[o.dst]
  <2>2. \/ c = None /\ Goto(t, "submit", [o EXCEPT !.cond = c])
        \/ c # None /\ Goto(t, "notebase", [o EXCEPT !.cond = c])
    BY <1>12 DEF Fallback, o
  <2>3. /\ [o EXCEPT !.cond = c].verb = o.verb /\ [o EXCEPT !.cond = c].src = o.src
        /\ [o EXCEPT !.cond = c].dst = o.dst /\ [o EXCEPT !.cond = c].cond = c
    BY <1>3, <2>1 DEF Ops
  <2>4. op'[t] = [o EXCEPT !.cond = c] /\ (pc'[t] = "notebase" \/ (pc'[t] = "submit" /\ c = None))
    BY <1>5, <2>2, Zenon
  <2>5. PICK n : op'[t] = n /\ n.verb = o.verb /\ n.src = o.src /\ n.dst = o.dst /\ n.cond = c
    BY <2>3, <2>4, Zenon
  <2> QED
    BY <1>2, <1>3, <2>1, <2>4, <2>5 DEF Known, Noting, Insistent, s
<1>13. CASE NoteBase(t)
  <2>1. /\ pc[t] = "notebase" /\ disk' = disk /\ behind' = behind
        /\ tracked'[s] = [tracked[s] EXCEPT ![o.dst] = o.cond] /\ Goto(t, "submit", o)
    BY <1>3, <1>7, <1>13 DEF NoteBase, o
  <2> QED
    BY <1>1, <1>2, <1>3, <1>5, <2>1 DEF Known, Noting, Insistent, s, o
<1>14. CASE Commit(t)
  <2>1. /\ pc[t] = "submit" /\ Apply(o, s, t) /\ tracked' = tracked
        /\ pc'[t] = "settle" /\ op'[t] = o
    BY <1>3, <1>5, <1>14 DEF Commit, s, o
  <2>2. behind'[s] = behind[s] \ {f \in Files : f = o.dst \/ o.verb = "rmtree"}
    BY <1>1, <1>3, <2>1, ApplyKnown
  <2>3. disk' = After(o) /\ Files = DOMAIN disk
    BY <2>1 DEF Apply, ITypeOK, TypeOK
  <2>4. ASSUME NEW f \in Files, disk'[f] # None
        PROVE  /\ o.verb # "rmtree" /\ (f = o.dst => o.verb # "rm" /\ disk'[f] = Proposed(o))
               /\ f # o.dst => disk'[f] = disk[f]
    BY <1>3, <2>1, <2>3, <2>4 DEF After
  <2> QED
    BY <1>2, <1>3, <2>1, <2>2, <2>4 DEF Known, Noting, Insistent, s, o
<1>15. CASE Refuse(t)
  <2>1. pc[t] = "submit" /\ UNCHANGED <<disk, tracked, behind>>
    BY <1>15 DEF Refuse
  <2>2. \/ pc'[t] = "idle"
        \/ Goto(t, "read", [o EXCEPT !.tries = @ + 1])
    BY <1>4, <1>15 DEF Refuse, RefuseAppend, o
  <2>3. /\ [o EXCEPT !.tries = @ + 1].verb = o.verb
        /\ [o EXCEPT !.tries = @ + 1].src = o.src /\ [o EXCEPT !.tries = @ + 1].dst = o.dst
    BY <1>3, <2>1 DEF Ops
  <2>4. PICK n : \/ pc'[t] = "idle"
                 \/ /\ pc'[t] = "read" /\ op'[t] = n
                    /\ n.verb = o.verb /\ n.src = o.src /\ n.dst = o.dst
    BY <1>5, <2>2, <2>3, Zenon
  <2> QED
    BY <1>2, <1>3, <2>1, <2>4 DEF Known, Noting, Insistent, s
<1>16. CASE Settle(t)
  <2>1. pc[t] = "settle" /\ pc'[t] = "idle" /\ disk' = disk /\ behind' = behind
    BY <1>4, <1>16 DEF Settle
  <2>2. tracked'[s] = CASE o.verb = "rmtree" -> [f \in Files |-> None]
                        [] o.verb = "rm" -> [tracked[s] EXCEPT ![o.dst] = None]
                        [] OTHER -> [tracked[s] EXCEPT ![o.dst] = Proposed(o)]
    BY <1>1, <1>16 DEF Settle, s, o
  <2>3. ASSUME NEW f \in Files \ behind[s], disk[f] # None
        PROVE  tracked'[s][f] \in {None, disk[f]}
    <3>1. CASE o.verb = "rmtree"
      BY <2>2, <3>1
    <3>2. CASE o.verb # "rmtree" /\ f # o.dst
      BY <1>1, <1>2, <1>3, <2>1, <2>2, <2>3, <3>2 DEF Known, Noting
    <3>3. CASE o.verb = "rm" /\ f = o.dst
      BY <1>1, <2>2, <3>3
    <3>4. CASE o.verb \notin {"rm", "rmtree"} /\ f = o.dst
      <4>1. Proposed(o) = disk[f]
        BY <1>2, <2>1, <2>3, <3>4 DEF Known, Insistent
      <4>2. tracked'[s] = [tracked[s] EXCEPT ![o.dst] = Proposed(o)]
        BY <2>2, <3>4
      <4> QED
        BY <1>1, <3>4, <4>1, <4>2
    <3> QED
      BY <3>1, <3>2, <3>3, <3>4
  <2> QED
    BY <2>1, <2>3 DEF Known, s
<1>17. CASE Park(t) \/ Reject(t)
  <2>1. pc[t] = "submit" /\ pc'[t] = "idle" /\ UNCHANGED <<disk, tracked, behind>>
    BY <1>4, <1>17 DEF Park, Reject
  <2> QED
    BY <1>2, <2>1 DEF Known, Noting, s
<1> QED
  BY <1>8, <1>9, <1>10, <1>11, <1>12, <1>13, <1>14, <1>15, <1>16, <1>17 DEF Verb

LEMMA StepKnown == ITypeOK /\ IApart /\ IKnown /\ [Next]_vars => IKnown'
<1> SUFFICES ASSUME ITypeOK, IApart, IKnown, [Next]_vars, NEW t \in Solitary
             PROVE  Known(pc'[t], op'[t], tracked'[Me(t)], behind'[Me(t)], disk')
  BY DEF IKnown
<1>1. ASSUME NEW u \in Threads, Verb(u)
      PROVE  Known(pc'[t], op'[t], tracked'[Me(t)], behind'[Me(t)], disk')
  BY <1>1, OthersKnown, VerbKnown
<1>2. CASE Approve
  <2>1. UNCHANGED <<tracked, pc, op>>
    BY <1>2 DEF Approve
  <2>2. UNCHANGED <<disk, behind>> \/ \E o \in Ops : Apply(o, None, None)
    BY <1>2, SessionsOf DEF Approve
  <2>3. Me(t) \in Sessions /\ Me(t) # None
    BY SessionsOf, SessionAssumption DEF Solitary
  <2>4. \A f \in Files \ behind'[Me(t)] : f \notin behind[Me(t)] /\ disk'[f] = disk[f]
    BY <2>2, <2>3, ApplyKnown
  <2> QED
    BY <2>1, <2>4 DEF IKnown, Known
<1>3. CASE UNCHANGED vars
  BY <1>3 DEF vars, IKnown
<1> QED
  BY <1>1, <1>2, <1>3 DEF Next

\* In such a state whoever is told to re-read has not seen the latest content.
LEMMA StepEarned ==
  ITypeOK /\ IKnown /\ [Next]_vars => \A t \in Solitary : EarnedRefusal(t)
<1> SUFFICES ASSUME ITypeOK, IKnown, [Next]_vars, NEW t \in Solitary,
                    pc[t] = "submit", pc'[t] = "idle", res'[t] = "stale",
                    op[t].dst \notin behind[Me(t)], disk[op[t].dst] # None
             PROVE  FALSE
  BY DEF EarnedRefusal
<1>1. t \in Threads /\ op[t] \in Ops /\ op[t].dst \in Files
  BY UnderWay DEF Solitary, ITypeOK, Ops
<1>2. op[t].verb # "mv" /\ op[t].cond \in {Always, disk[op[t].dst]}
  BY <1>1 DEF IKnown, Known, Insistent
<1>3. ~Refuse(t)
  <2> SUFFICES ASSUME Refuse(t) PROVE FALSE
    OBVIOUS
  <2>1. op[t].verb \notin {"append", "rm"}
    BY <1>1 DEF Refuse, RefuseAppend, Goto, End, ITypeOK, TypeOK
  <2>2. op[t].verb # "rmtree" /\ ~Fresh(op[t])
    BY <1>2, <2>1 DEF Refuse, Goes
  <2> QED
    BY <1>2, <2>2 DEF Fresh
<1>4. ASSUME NEW u \in Threads, Verb(u) PROVE FALSE
  <2>1. CASE u # t
    <3>1. pc'[t] = pc[t]
      BY <1>1, <1>4, <2>1, GoesOn DEF Start, ITypeOK, TypeOK
    <3> QED
      BY <3>1
  <2>2. CASE u = t
    BY <1>1, <1>3, <1>4, <2>2 DEF Verb, Start, Read, NoteRead, Resolve, Fallback, NoteBase, Commit,
       Settle, Park, Reject, Goto, End, ITypeOK, TypeOK
  <2> QED
    BY <2>1, <2>2
<1>5. ~Approve /\ ~UNCHANGED vars
  BY DEF Approve, vars
<1> QED
  BY <1>4, <1>5 DEF Next

\* A session is turned away for a reason, whatever the others do: an append that
\* reports contention was overtaken at each attempt, and one of a single thread that
\* moves nothing is told to re-read only a file that changed since it looked.
THEOREM RefusalsWereEarned == Spec => RefusalsAreEarned
<1>1. Init => IApart /\ IKnown
  <2> SUFFICES ASSUME Init PROVE IApart /\ IKnown
    OBVIOUS
  <2>1. IApart
    BY DEF Init, IApart
  <2>2. \A t \in Solitary : /\ pc[t] = "idle"
                            /\ \A f \in Files : tracked[Me(t)][f] = None
    BY SessionsOf DEF Init, Solitary
  <2> QED
    BY <2>1, <2>2 DEF IKnown, Known
<1>2. Spec => [](ITypeOK /\ IApart)
  BY <1>1, ITypeCorrect, StepApart, PTL DEF Spec
<1>3. Spec => []IKnown
  BY <1>1, <1>2, StepKnown, PTL DEF Spec
<1>4. ITypeOK /\ IKnown /\ ContentionIsReal' /\ [Next]_vars =>
        [ContentionIsReal' /\ \A t \in Solitary : EarnedRefusal(t)]_vars
  BY StepEarned
<1> QED
  BY <1>2, <1>3, <1>4, ContentionWasReal, PTL DEF Spec, RefusalsAreEarned
-----------------------------------------------------------------------------
(* The live configuration.  The mutex keeps whoever holds it from changes  *)
(* of the file and of what runs, but for those of the host; so what is     *)
(* prepared under it is right for every delegate but the one it is about.  *)

LTypes ==
  /\ file \in LiveConfigs \cup {Invalid} /\ live \in LiveConfigs \cup {Invalid}
  /\ queue \in Seq({"install", "write"})
  /\ authMu \in [op : {"none", "add", "remove", "reload", "edit"}, about : Delegates \cup {"nobody"},
                 next : LiveConfigs \cup {Invalid},
                 at : {"free", "prepared", "queued", "installed", "failed"}]
  /\ writer \in [at : {"idle", "asks", "queued"}, role : PolicyRoles \cup {"none"}]
  /\ reader \in [at : {"idle", "reads"}, role : PolicyRoles \cup {"none"},
                 opens : PolicyRoles \cup {"none"}, during : SUBSET BOOLEAN]
  /\ editor \in [at : {"idle", "opened", "waits"}, seen : LiveConfigs \cup {Invalid},
                 next : LiveConfigs \cup {Invalid}]
  /\ want \in [Delegates -> {"any", "in", "out"}]
  /\ revoked \in BOOLEAN /\ barred \in BOOLEAN
  /\ spent \in [updates : Nat, saves : Nat, edits : Nat, stops : Nat]

Once(q) == \A i, j \in DOMAIN q : q[i] = q[j] => i = j
Has(q, x) == \E i \in DOMAIN q : q[i] = x
LQueue ==
  /\ Once(queue)
  /\ Has(queue, "install") <=> authMu.at = "queued"
  /\ Has(queue, "write") <=> writer.at = "queued"

LMutex ==
  /\ authMu.at = "free" \/ authMu.op = "none" => authMu = Unlocked
  /\ authMu.op \in {"add", "remove"} => authMu.about \in Delegates
  /\ authMu.op \in {"reload", "edit"} => authMu.about = "nobody"
  /\ authMu.at = "queued" => authMu.next # Invalid
  /\ authMu.op = "edit" => authMu.at = "prepared" /\ authMu.next # Invalid /\ live.editable
LEdits ==
  /\ editor.at = "waits" => editor.next # Invalid /\ editor.next.delegates = editor.seen.delegates
  /\ editor.at = "waits" \/ authMu.op = "edit" => spent.saves > 0
LDown ==
  ~Running => authMu = Unlocked /\ queue = <<>> /\ writer = Away /\ reader = NotReading
              /\ editor = NotEditing /\ ~revoked /\ ~barred

RightFor(c, d) == want[d] # "any" => (d \in c.delegates <=> want[d] = "in")
Prepared == authMu.at \in {"prepared", "queued"} /\ authMu.next # Invalid
LWanted ==
  /\ \A d \in Delegates : file # Invalid => RightFor(file, d)
  /\ \A d \in Delegates : live # Invalid => RightFor(live, d)
  /\ \A d \in Delegates : file = Invalid => want[d] = "any"
  /\ Prepared => \A d \in Delegates \ {authMu.about} : RightFor(authMu.next, d)
  /\ Prepared /\ authMu.op = "add" => authMu.about \in authMu.next.delegates
  /\ Prepared /\ authMu.op = "remove" => authMu.about \notin authMu.next.delegates

LSame ==
  Running /\ spent.saves + spent.edits = 0 =>
    file = live /\ (authMu.op = "reload" /\ authMu.at \in {"prepared", "queued"} => authMu.next = file)
LHolds == (revoked => ~Allows(live)) /\ (barred => ~live.editable)

LInv == LTypes /\ LQueue /\ LMutex /\ LEdits /\ LDown /\ LWanted /\ LSame /\ LHolds /\ ReadsSeeOneConfig

\* An entry more, and the first one less.
LEMMA OneMore ==
  ASSUME NEW S, NEW q \in Seq(S), NEW x \in S, Once(q), ~Has(q, x)
  PROVE  /\ Append(q, x) \in Seq(S) /\ Once(Append(q, x))
         /\ \A y : Has(Append(q, x), y) <=> Has(q, y) \/ y = x
<1>1. /\ Append(q, x) \in Seq(S) /\ DOMAIN Append(q, x) = 1..Len(q) + 1 /\ DOMAIN q = 1..Len(q)
      /\ Append(q, x)[Len(q) + 1] = x /\ \A i \in 1..Len(q) : Append(q, x)[i] = q[i]
      /\ Len(q) \in Nat
  OBVIOUS
<1>2. \A i \in 1..Len(q) + 1 : i \in 1..Len(q) \/ i = Len(q) + 1
  BY <1>1
<1>3. Len(q) + 1 \in 1..Len(q) + 1 /\ \A i \in 1..Len(q) : i \in 1..Len(q) + 1
  BY <1>1
<1> DEFINE p == Append(q, x)
<1> HIDE DEF p
<1>4. Once(p)
  BY <1>1, <1>2 DEF Once, Has, p
<1>5. ASSUME NEW y
      PROVE  Has(p, y) <=> Has(q, y) \/ y = x
  BY <1>1, <1>2, <1>3 DEF Has, p
<1> QED
  BY <1>1, <1>4, <1>5 DEF p

LEMMA OneLess ==
  ASSUME NEW S, NEW q \in Seq(S), q # <<>>, Once(q)
  PROVE  /\ Tail(q) \in Seq(S) /\ Once(Tail(q))
         /\ \A y : Has(Tail(q), y) <=> Has(q, y) /\ y # Head(q)
<1>1. /\ Tail(q) \in Seq(S) /\ DOMAIN Tail(q) = 1..Len(q) - 1 /\ DOMAIN q = 1..Len(q)
      /\ \A i \in 1..Len(q) - 1 : Tail(q)[i] = q[i + 1] /\ i + 1 \in 1..Len(q)
      /\ Len(q) \in Nat /\ Len(q) > 0 /\ Head(q) = q[1] /\ 1 \in 1..Len(q)
  OBVIOUS
<1>2. \A i \in 1..Len(q) : i = 1 \/ (i - 1 \in 1..Len(q) - 1 /\ (i - 1) + 1 = i)
  BY <1>1
<1> DEFINE p == Tail(q)
<1> HIDE DEF p
<1>3. Once(p)
  <2>1. ASSUME NEW i \in 1..Len(q) - 1, NEW j \in 1..Len(q) - 1, p[i] = p[j]
        PROVE  i = j
    <3>1. q[i + 1] = q[j + 1] /\ i + 1 \in 1..Len(q) /\ j + 1 \in 1..Len(q)
      BY <1>1, <2>1 DEF p
    <3>2. i + 1 = j + 1
      BY <1>1, <3>1 DEF Once
    <3> QED
      BY <3>2
  <2> QED
    BY <1>1, <2>1 DEF Once, p
<1>4. ASSUME NEW y
      PROVE  Has(p, y) <=> Has(q, y) /\ y # Head(q)
  <2>1. ASSUME NEW i \in 1..Len(q) - 1, p[i] = y
        PROVE  Has(q, y) /\ y # Head(q)
    <3>1. q[i + 1] = y /\ i + 1 \in 1..Len(q) /\ i + 1 # 1
      BY <1>1, <2>1 DEF p
    <3> QED
      BY <1>1, <3>1 DEF Has, Once
  <2>2. ASSUME NEW i \in 1..Len(q), q[i] = y, y # Head(q)
        PROVE  Has(p, y)
    <3>1. i - 1 \in 1..Len(q) - 1 /\ (i - 1) + 1 = i
      BY <1>1, <1>2, <2>2
    <3>2. p[i - 1] = y
      BY <1>1, <2>2, <3>1 DEF p
    <3> QED
      BY <1>1, <3>1, <3>2 DEF Has, p
  <2> QED
    BY <1>1, <2>1, <2>2 DEF Has, p
<1> QED
  BY <1>1, <1>3, <1>4 DEF p

\* What is a configuration.
LEMMA ConfigsAre ==
  /\ Invalid \notin LiveConfigs /\ Invalid.delegates = {} /\ Invalid.editable = FALSE
  /\ \A c \in LiveConfigs :
       /\ c.delegates \subseteq Delegates /\ c.role \in PolicyRoles /\ c.opens \in PolicyRoles
       /\ c.editable \in BOOLEAN
BY LiveAssumption DEF Invalid, LiveConfigs

\* An update or a reload begins: what it prepares is right for everybody else.
LEMMA BeginStep ==
  ASSUME LInv, NEW o \in {"add", "remove", "reload"}, NEW d \in Delegates \cup {"nobody"}, Begin(o, d)
  PROVE  LInv'
<1> DEFINE n == Candidate(o, d)
<1>1. /\ Running /\ authMu = Unlocked /\ (o = "reload" <=> d = "nobody")
      /\ authMu' = [op |-> o, about |-> d, next |-> n, at |-> "prepared"]
      /\ spent' = [spent EXCEPT !.updates = @ + 1]
      /\ UNCHANGED <<file, live, queue, writer, reader, editor, want, revoked, barred>>
  BY DEF Begin, Free
<1>2. live \in LiveConfigs /\ live # Invalid /\ Unlocked.at = "free" /\ Unlocked.op = "none"
  BY <1>1 DEF LInv, LTypes, Running, Unlocked
<1>3. n \in LiveConfigs \cup {Invalid}
  <2>1. CASE o = "reload"
    BY <2>1 DEF Candidate, LInv, LTypes
  <2>2. CASE o # "reload"
    BY <1>1, <1>2, <2>2 DEF Candidate, LiveConfigs
  <2> QED
    BY <2>1, <2>2
<1>4. /\ o = "reload" => n = file
      /\ o = "add" => d \in n.delegates /\ \A e \in Delegates \ {d} : e \in n.delegates <=> e \in live.delegates
      /\ o = "remove" => d \notin n.delegates /\ \A e \in Delegates \ {d} : e \in n.delegates <=> e \in live.delegates
  BY <1>1, <1>2 DEF Candidate, LiveConfigs
<1> HIDE DEF n
<1>5. LTypes'
  BY <1>1, <1>3 DEF LInv, LTypes
<1>6. LQueue' /\ LDown' /\ LHolds' /\ ReadsSeeOneConfig'
  BY <1>1, <1>2 DEF LInv, LQueue, LDown, LHolds, ReadsSeeOneConfig, Running, Allows, Shown
<1>7. LMutex' /\ LEdits'
  BY <1>1, LiveAssumption DEF LInv, LTypes, LMutex, LEdits
<1>8. LWanted'
  BY <1>1, <1>2, <1>4 DEF LInv, LWanted, RightFor, Prepared
<1>9. LSame'
  BY <1>1, <1>4 DEF LInv, LTypes, LSame, Running
<1> QED
  BY <1>5, <1>6, <1>7, <1>8, <1>9 DEF LInv

\* Steps of the mutex that leave the file and what runs alone.
LEMMA GiveUpStep ==
  ASSUME LInv, GiveUp
  PROVE  LInv'
<1>1. /\ authMu.at = "prepared" /\ authMu.op # "edit" /\ authMu' = Unlocked
      /\ UNCHANGED <<file, live, queue, writer, reader, editor, want, revoked, barred, spent>>
  BY DEF GiveUp
<1>2. Unlocked.at = "free" /\ Unlocked.op = "none" /\ Unlocked.about = "nobody" /\ Unlocked.next = Invalid
  BY DEF Unlocked
<1>3. LTypes' /\ LQueue'
  BY <1>1, <1>2 DEF LInv, LTypes, LQueue, Unlocked
<1>4. LMutex' /\ LEdits' /\ LDown' /\ LHolds' /\ ReadsSeeOneConfig'
  BY <1>1, <1>2 DEF LInv, LMutex, LEdits, LDown, LHolds, ReadsSeeOneConfig, Running, Allows, Shown
<1>5. LWanted' /\ LSame'
  BY <1>1, <1>2 DEF LInv, LWanted, LSame, RightFor, Prepared, Running
<1> QED
  BY <1>3, <1>4, <1>5 DEF LInv

LEMMA EnqueueStep ==
  ASSUME LInv, Enqueue
  PROVE  LInv'
<1>1. /\ authMu.at = "prepared" /\ authMu.op # "edit" /\ authMu.next # Invalid
      /\ queue' = Append(queue, "install") /\ authMu' = [authMu EXCEPT !.at = "queued"]
      /\ UNCHANGED <<file, live, writer, reader, editor, want, revoked, barred, spent>>
  BY DEF Enqueue
<1>2. /\ queue' \in Seq({"install", "write"}) /\ Once(queue')
      /\ \A y : Has(queue', y) <=> Has(queue, y) \/ y = "install"
  BY <1>1, OneMore DEF LInv, LTypes, LQueue
<1>3. /\ authMu'.at = "queued" /\ authMu'.op = authMu.op /\ authMu'.about = authMu.about
      /\ authMu'.next = authMu.next /\ authMu # Unlocked
  BY <1>1 DEF LInv, LTypes, Unlocked
<1>4. LTypes'
  <2>1. authMu' \in [op : {"none", "add", "remove", "reload", "edit"}, about : Delegates \cup {"nobody"},
                          next : LiveConfigs \cup {Invalid},
                          at : {"free", "prepared", "queued", "installed", "failed"}]
    BY <1>1 DEF LInv, LTypes
  <2> QED
    BY <1>1, <1>2, <2>1 DEF LInv, LTypes
<1>5. LQueue'
  BY <1>1, <1>2, <1>3 DEF LInv, LQueue
<1>6. LMutex' /\ LEdits' /\ LDown' /\ LHolds' /\ ReadsSeeOneConfig'
  BY <1>1, <1>3 DEF LInv, LMutex, LEdits, LDown, LHolds, ReadsSeeOneConfig, Running, Allows, Shown
<1>7. LWanted' /\ LSame'
  BY <1>1, <1>3 DEF LInv, LWanted, LSame, RightFor, Prepared, Running
<1> QED
  BY <1>4, <1>5, <1>6, <1>7 DEF LInv

LEMMA AcknowledgeStep ==
  ASSUME LInv, Acknowledge
  PROVE  LInv'
<1>1. /\ authMu.at \in {"installed", "failed"} /\ authMu' = Unlocked
      /\ UNCHANGED <<file, live, queue, writer, reader, editor, want, spent>>
      /\ \/ UNCHANGED <<revoked, barred>>
         \/ revoked' = ~Allows(live) /\ barred' = ~live.editable
  BY DEF Acknowledge
<1>2. Unlocked.at = "free" /\ Unlocked.op = "none" /\ Unlocked.about = "nobody" /\ Unlocked.next = Invalid
  BY DEF Unlocked
<1>3. Running /\ live \in LiveConfigs
  BY <1>1, <1>2 DEF LInv, LDown, LTypes, Running
<1>4. LTypes'
  <2>1. revoked' \in BOOLEAN /\ barred' \in BOOLEAN
    BY <1>1, <1>3, ConfigsAre DEF LInv, LTypes
  <2> QED
    BY <1>1, <1>2, <2>1 DEF LInv, LTypes, Unlocked
<1>5. LQueue' /\ LMutex' /\ LEdits' /\ LDown' /\ ReadsSeeOneConfig'
  BY <1>1, <1>2, <1>3 DEF LInv, LQueue, LMutex, LEdits, LDown, ReadsSeeOneConfig, Running, Shown
<1>6. LHolds'
  <2>1. CASE UNCHANGED <<revoked, barred>>
    BY <1>1, <2>1 DEF LInv, LHolds, Allows
  <2>2. CASE revoked' = ~Allows(live) /\ barred' = ~live.editable
    BY <1>1, <2>2 DEF LHolds, Allows
  <2> QED
    BY <1>1, <2>1, <2>2
<1>7. LWanted' /\ LSame'
  BY <1>1, <1>2 DEF LInv, LWanted, LSame, RightFor, Prepared, Running
<1> QED
  BY <1>4, <1>5, <1>6, <1>7 DEF LInv

\* Another configuration runs: who was told that a grant is gone has lost it
\* for good, and a read that is under way may show the new one.
LEMMA Published ==
  ASSUME LInv, NEW c \in LiveConfigs, Publish(c)
  PROVE  /\ live' = c /\ revoked' \in BOOLEAN /\ barred' \in BOOLEAN /\ LHolds'
         /\ (revoked' => revoked) /\ (barred' => barred)
         /\ reader' \in [at : {"idle", "reads"}, role : PolicyRoles \cup {"none"},
                         opens : PolicyRoles \cup {"none"}, during : SUBSET BOOLEAN]
         /\ ReadsSeeOneConfig' /\ (reader.at = "idle" => reader' = reader)
<1>1. /\ live' = c /\ revoked' = (revoked /\ ~Allows(c)) /\ barred' = (barred /\ ~c.editable)
      /\ reader' = IF reader.at = "idle" THEN reader
                   ELSE [reader EXCEPT !.during = @ \cup {Allows(c)}]
  BY DEF Publish
<1>2. Allows(c) \in BOOLEAN /\ c.editable \in BOOLEAN
  BY ConfigsAre DEF Allows
<1>3. revoked \in BOOLEAN /\ barred \in BOOLEAN
  BY DEF LInv, LTypes
<1>4. reader' \in [at : {"idle", "reads"}, role : PolicyRoles \cup {"none"},
                   opens : PolicyRoles \cup {"none"}, during : SUBSET BOOLEAN]
  <2> DEFINE a == Allows(c)
  <2>1. a \in BOOLEAN
    BY <1>2
  <2> HIDE DEF a
  <2>2. reader' = IF reader.at = "idle" THEN reader ELSE [reader EXCEPT !.during = @ \cup {a}]
    BY <1>1 DEF a
  <2> QED
    BY <2>1, <2>2 DEF LInv, LTypes
<1>5. /\ reader'.at = reader.at /\ reader'.role = reader.role /\ reader'.opens = reader.opens
      /\ reader.during \subseteq reader'.during
  <2> DEFINE a == Allows(c)
  <2> HIDE DEF a
  <2>1. reader' = IF reader.at = "idle" THEN reader ELSE [reader EXCEPT !.during = @ \cup {a}]
    BY <1>1 DEF a
  <2> QED
    BY <2>1 DEF LInv, LTypes
<1>6. ReadsSeeOneConfig'
  <2>1. Shown' = Shown
    BY <1>5 DEF Shown
  <2> QED
    BY <1>5, <2>1 DEF LInv, ReadsSeeOneConfig
<1>7. LHolds'
  BY <1>1 DEF LHolds, Allows
<1> QED
  BY <1>1, <1>2, <1>3, <1>4, <1>6, <1>7

\* The applier replaces the file and what runs, or fails to.
LEMMA InstallStep ==
  ASSUME LInv, Install
  PROVE  LInv'
<1>1. /\ queue # <<>> /\ Head(queue) = "install" /\ queue' = Tail(queue)
      /\ UNCHANGED <<writer, editor, spent>>
  BY DEF Install
<1>2. /\ queue' \in Seq({"install", "write"}) /\ Once(queue')
      /\ \A y : Has(queue', y) <=> Has(queue, y) /\ y # "install"
      /\ Has(queue, "install")
  <2>1. queue \in Seq({"install", "write"}) /\ Once(queue)
    BY DEF LInv, LTypes, LQueue
  <2>2. 1 \in DOMAIN queue /\ queue[1] = "install"
    BY <1>1, <2>1
  <2>3. Has(queue, "install")
    BY <2>2 DEF Has
  <2> QED
    BY <1>1, <2>1, <2>3, OneLess
<1>3. /\ authMu.at = "queued" /\ authMu.next \in LiveConfigs /\ authMu.op \in {"add", "remove", "reload"}
      /\ Running /\ authMu # Unlocked /\ Unlocked.at = "free"
  BY <1>2 DEF LInv, LTypes, LQueue, LMutex, LDown, Running, Unlocked
<1>4. CASE /\ file' = (IF authMu.op = "reload" THEN file ELSE authMu.next)
           /\ Publish(authMu.next) /\ authMu' = [authMu EXCEPT !.at = "installed"]
           /\ want' = [d \in Delegates |-> IF d # authMu.about THEN want[d]
                                           ELSE IF authMu.op = "add" THEN "in" ELSE "out"]
  <2>1. /\ live' = authMu.next /\ revoked' \in BOOLEAN /\ barred' \in BOOLEAN /\ LHolds'
        /\ reader' \in [at : {"idle", "reads"}, role : PolicyRoles \cup {"none"},
                        opens : PolicyRoles \cup {"none"}, during : SUBSET BOOLEAN]
        /\ ReadsSeeOneConfig'
    BY <1>3, <1>4, Published
  <2>2. /\ authMu'.at = "installed" /\ authMu'.op = authMu.op /\ authMu'.about = authMu.about
        /\ authMu'.next = authMu.next /\ authMu' # Unlocked
        /\ authMu' \in [op : {"none", "add", "remove", "reload", "edit"}, about : Delegates \cup {"nobody"},
                        next : LiveConfigs \cup {Invalid},
                        at : {"free", "prepared", "queued", "installed", "failed"}]
    BY <1>3, <1>4 DEF LInv, LTypes, Unlocked
  <2>3. /\ file' \in LiveConfigs \cup {Invalid} /\ want' \in [Delegates -> {"any", "in", "out"}]
        /\ live' # Invalid
    BY <1>3, <1>4, <2>1, ConfigsAre DEF LInv, LTypes
  <2>4. LTypes'
    BY <1>1, <1>2, <1>3, <2>1, <2>2, <2>3 DEF LInv, LTypes
  <2>5. LQueue'
    BY <1>1, <1>2, <2>2 DEF LInv, LQueue
  <2>6. LMutex' /\ LEdits' /\ LDown'
    BY <1>1, <1>3, <2>2, <2>3 DEF LInv, LMutex, LEdits, LDown, Running
  <2>7. LWanted'
    <3>1. ASSUME NEW d \in Delegates
          PROVE  RightFor(authMu.next, d)'
      <4>1. CASE d # authMu.about
        BY <1>3, <1>4, <2>2, <4>1 DEF LInv, LWanted, Prepared, RightFor, LMutex
      <4>2. CASE d = authMu.about
        BY <1>3, <1>4, <2>2, <4>2, LiveAssumption DEF LInv, LWanted, LMutex, Prepared, RightFor
      <4> QED
        BY <4>1, <4>2
    <3>2. CASE authMu.op = "reload"
      <4>1. want' = want /\ file' = file
        BY <1>3, <1>4, <3>2, LiveAssumption DEF LInv, LMutex, LTypes
      <4> QED
        BY <2>1, <2>2, <3>1, <4>1 DEF LInv, LWanted, Prepared, RightFor
    <3>3. CASE authMu.op # "reload"
      BY <1>3, <1>4, <2>1, <2>2, <2>3, <3>1, <3>3 DEF LWanted, Prepared, RightFor
    <3> QED
      BY <3>2, <3>3
  <2>8. LSame'
    BY <1>1, <1>3, <1>4, <2>1, <2>2 DEF LInv, LSame, Running
  <2> QED
    BY <2>1, <2>4, <2>5, <2>6, <2>7, <2>8 DEF LInv
<1>5. CASE /\ authMu.op # "reload" /\ authMu' = [authMu EXCEPT !.at = "failed"]
           /\ UNCHANGED <<file, live, revoked, barred, reader, want>>
  <2>1. /\ authMu'.at = "failed" /\ authMu'.op = authMu.op /\ authMu'.about = authMu.about
        /\ authMu'.next = authMu.next /\ authMu' # Unlocked
    BY <1>3, <1>5 DEF LInv, LTypes, Unlocked
  <2>2. LTypes'
    <3>1. authMu' \in [op : {"none", "add", "remove", "reload", "edit"}, about : Delegates \cup {"nobody"},
                            next : LiveConfigs \cup {Invalid},
                            at : {"free", "prepared", "queued", "installed", "failed"}]
      BY <1>5 DEF LInv, LTypes
    <3> QED
      BY <1>1, <1>2, <1>5, <3>1 DEF LInv, LTypes
  <2>3. LQueue'
    BY <1>1, <1>2, <2>1 DEF LInv, LQueue
  <2>4. LMutex' /\ LEdits' /\ LDown' /\ LHolds' /\ ReadsSeeOneConfig'
    BY <1>1, <1>3, <1>5, <2>1 DEF LInv, LMutex, LEdits, LDown, LHolds, ReadsSeeOneConfig, Running, Allows, Shown
  <2>5. LWanted' /\ LSame'
    BY <1>1, <1>5, <2>1 DEF LInv, LWanted, LSame, RightFor, Prepared, Running
  <2> QED
    BY <2>2, <2>3, <2>4, <2>5 DEF LInv
<1> QED
  BY <1>4, <1>5 DEF Install

\* Steps of the writer: it is in the queue once.
LEMMA WriterSteps ==
  ASSUME LInv, AdmitRole \/ AdmitDocset \/ ApplyWrite
  PROVE  LInv'
<1>1. /\ UNCHANGED <<file, live, authMu, reader, editor, want, revoked, barred, spent>>
      /\ Away.at = "idle" /\ Away.role = "none"
  BY DEF AdmitRole, AdmitDocset, ApplyWrite, Away
<1>2. /\ LMutex' /\ LEdits' /\ LHolds' /\ ReadsSeeOneConfig' /\ LWanted' /\ LSame'
  BY <1>1 DEF LInv, LMutex, LEdits, LHolds, ReadsSeeOneConfig, LWanted, LSame, RightFor, Prepared,
             Running, Allows, Shown
<1>3. CASE AdmitRole
  <2>1. /\ Running /\ writer = Away /\ writer' = [at |-> "asks", role |-> live.role] /\ queue' = queue
    BY <1>3 DEF AdmitRole
  <2>2. live.role \in PolicyRoles
    BY <2>1, ConfigsAre DEF LInv, LTypes, Running
  <2>3. LTypes' /\ LQueue' /\ LDown'
    BY <1>1, <2>1, <2>2 DEF LInv, LTypes, LQueue, LDown, Running
  <2> QED
    BY <1>2, <2>3 DEF LInv
<1>4. CASE AdmitDocset
  <2>1. /\ writer.at = "asks"
        /\ \/ queue' = Append(queue, "write") /\ writer' = [writer EXCEPT !.at = "queued"]
           \/ writer' = Away /\ queue' = queue
    BY <1>4 DEF AdmitDocset
  <2>2. Running /\ ~Has(queue, "write")
    BY <1>1, <2>1 DEF LInv, LDown, LQueue
  <2>3. CASE queue' = Append(queue, "write") /\ writer' = [writer EXCEPT !.at = "queued"]
    <3>1. /\ queue' \in Seq({"install", "write"}) /\ Once(queue')
          /\ \A y : Has(queue', y) <=> Has(queue, y) \/ y = "write"
      BY <2>2, <2>3, OneMore DEF LInv, LTypes, LQueue
    <3>2. LTypes' /\ writer'.at = "queued"
      <4>1. /\ writer' \in [at : {"idle", "asks", "queued"}, role : PolicyRoles \cup {"none"}]
            /\ writer'.at = "queued"
        BY <2>3 DEF LInv, LTypes
      <4> QED
        BY <1>1, <3>1, <4>1 DEF LInv, LTypes
    <3>3. LQueue' /\ LDown'
      BY <1>1, <2>2, <3>1, <3>2 DEF LInv, LQueue, LDown, Running
    <3> QED
      BY <1>2, <3>2, <3>3 DEF LInv
  <2>4. CASE writer' = Away /\ queue' = queue
    <3>1. LTypes' /\ LQueue' /\ LDown'
      BY <1>1, <2>1, <2>2, <2>4 DEF LInv, LTypes, LQueue, LDown, Running, Away
    <3> QED
      BY <1>2, <3>1 DEF LInv
  <2> QED
    BY <2>1, <2>3, <2>4
<1>5. CASE ApplyWrite
  <2>1. queue # <<>> /\ Head(queue) = "write" /\ queue' = Tail(queue) /\ writer' = Away
    BY <1>5 DEF ApplyWrite
  <2>2. /\ queue' \in Seq({"install", "write"}) /\ Once(queue') /\ Running
        /\ \A y : Has(queue', y) <=> Has(queue, y) /\ y # "write"
    BY <2>1, OneLess DEF LInv, LTypes, LQueue, LDown
  <2>3. LTypes'
    BY <1>1, <2>1, <2>2 DEF LInv, LTypes, Away
  <2>4. LQueue' /\ LDown'
    BY <1>1, <2>1, <2>2 DEF LInv, LQueue, LDown, Running
  <2> QED
    BY <1>2, <2>3, <2>4 DEF LInv
<1> QED
  BY <1>3, <1>4, <1>5

LEMMA ReaderSteps ==
  ASSUME LInv, Capture \/ EndRead
  PROVE  LInv'
<1>1. UNCHANGED <<file, live, queue, authMu, writer, editor, want, revoked, barred, spent>>
  BY DEF Capture, EndRead
<1>2. /\ LQueue' /\ LMutex' /\ LEdits' /\ LHolds' /\ LWanted' /\ LSame'
  BY <1>1 DEF LInv, LQueue, LMutex, LEdits, LHolds, LWanted, LSame, RightFor, Prepared, Running, Allows
<1>3. CASE Capture
  <2> DEFINE a == Allows(live)
  <2>1. /\ Running /\ live \in LiveConfigs
        /\ reader' = [at |-> "reads", role |-> live.role, opens |-> live.opens, during |-> {a}]
    BY <1>3 DEF Capture, LInv, LTypes, Running
  <2>2. a = (live.role = live.opens) /\ a \in BOOLEAN /\ live.role \in PolicyRoles /\ live.opens \in PolicyRoles
    BY <2>1, ConfigsAre DEF Allows, Running
  <2> HIDE DEF a
  <2>3. LTypes' /\ LDown'
    BY <1>1, <2>1, <2>2 DEF LInv, LTypes, LDown, Running
  <2>4. ReadsSeeOneConfig'
    BY <2>1, <2>2 DEF ReadsSeeOneConfig, Shown
  <2> QED
    BY <1>2, <2>3, <2>4 DEF LInv
<1>4. CASE EndRead
  <2>1. reader' = NotReading /\ NotReading.at = "idle"
    BY <1>4 DEF EndRead, NotReading
  <2>2. LTypes' /\ LDown' /\ ReadsSeeOneConfig'
    BY <1>1, <2>1 DEF LInv, LTypes, LDown, ReadsSeeOneConfig, Running, NotReading
  <2> QED
    BY <1>2, <2>2 DEF LInv
<1> QED
  BY <1>3, <1>4

\* Steps of the editor: what it lands keeps the delegates of the file it opened,
\* which is the file still.
LEMMA OpenFileStep ==
  ASSUME LInv, OpenFile
  PROVE  LInv'
<1>1. /\ Running /\ editor' = [at |-> "opened", seen |-> file, next |-> Invalid]
      /\ UNCHANGED <<file, live, queue, authMu, writer, reader, want, revoked, barred, spent>>
  BY DEF OpenFile
<1>2. LTypes' /\ LQueue' /\ LMutex' /\ LEdits' /\ LDown'
  BY <1>1 DEF LInv, LTypes, LQueue, LMutex, LEdits, LDown, Running
<1>3. LWanted' /\ LSame' /\ LHolds' /\ ReadsSeeOneConfig'
  BY <1>1 DEF LInv, LWanted, LSame, LHolds, ReadsSeeOneConfig, RightFor, Prepared, Running, Allows, Shown
<1> QED
  BY <1>2, <1>3 DEF LInv

LEMMA SaveStep ==
  ASSUME LInv, NEW role \in PolicyRoles, NEW opens \in PolicyRoles, NEW editable \in BOOLEAN,
         Save(role, opens, editable)
  PROVE  LInv'
<1> DEFINE n == [editor.seen EXCEPT !.role = role, !.opens = opens, !.editable = editable]
<1>1. /\ Running /\ spent' = [spent EXCEPT !.saves = @ + 1]
      /\ editor' = [editor EXCEPT !.at = "waits", !.next = n]
      /\ UNCHANGED <<file, live, queue, authMu, writer, reader, want, revoked, barred>>
  BY DEF Save
<1>2. n \in LiveConfigs /\ n.delegates = editor.seen.delegates
  <2>1. editor.seen \in LiveConfigs \cup {Invalid}
    BY DEF LInv, LTypes
  <2>2. CASE editor.seen \in LiveConfigs
    <3>1. editor.seen \in [delegates : SUBSET Delegates, role : PolicyRoles, opens : PolicyRoles,
                          editable : BOOLEAN]
      BY <2>2 DEF LiveConfigs
    <3> QED
      BY <3>1 DEF LiveConfigs
  <2>3. CASE editor.seen = Invalid
    <3>1. editor.seen \in [delegates : SUBSET Delegates, role : {"invalid"}, opens : {"none"},
                          editable : BOOLEAN]
      BY <2>3 DEF Invalid
    <3> QED
      BY <3>1 DEF LiveConfigs
  <2> QED
    BY <2>1, <2>2, <2>3
<1> HIDE DEF n
<1>3. /\ editor'.at = "waits" /\ editor'.next = n /\ editor'.seen = editor.seen
      /\ spent'.saves = spent.saves + 1 /\ spent'.edits = spent.edits
      /\ spent.saves \in Nat /\ spent.edits \in Nat
  BY <1>1 DEF LInv, LTypes
<1>4. LTypes'
  <2>1. editor' \in [at : {"idle", "opened", "waits"}, seen : LiveConfigs \cup {Invalid},
                     next : LiveConfigs \cup {Invalid}]
    BY <1>1, <1>2 DEF LInv, LTypes
  <2>2. spent' \in [updates : Nat, saves : Nat, edits : Nat, stops : Nat]
    BY <1>1 DEF LInv, LTypes
  <2> QED
    BY <1>1, <2>1, <2>2 DEF LInv, LTypes
<1>5. LEdits' /\ LSame'
  BY <1>1, <1>2, <1>3, ConfigsAre DEF LInv, LEdits, LSame
<1>6. LQueue' /\ LMutex' /\ LDown'
  BY <1>1 DEF LInv, LQueue, LMutex, LDown, Running
<1>7. LWanted' /\ LHolds' /\ ReadsSeeOneConfig'
  BY <1>1 DEF LInv, LWanted, LHolds, ReadsSeeOneConfig, RightFor, Prepared, Allows, Shown
<1> QED
  BY <1>4, <1>5, <1>6, <1>7 DEF LInv

LEMMA CheckEditStep ==
  ASSUME LInv, CheckEdit
  PROVE  LInv'
<1>1. /\ editor.at = "waits" /\ authMu = Unlocked
      /\ UNCHANGED <<file, live, queue, writer, reader, want, revoked, barred, spent>>
  BY DEF CheckEdit, Free
<1>2. Running /\ NotEditing.at = "idle" /\ Unlocked.at = "free" /\ Unlocked.op = "none"
  BY <1>1 DEF LInv, LDown, NotEditing, Unlocked
<1>3. CASE /\ live.editable /\ editor.seen = file /\ editor' = editor
           /\ authMu' = [op |-> "edit", about |-> "nobody", next |-> editor.next, at |-> "prepared"]
  <2>1. LTypes' /\ LQueue' /\ LDown'
    BY <1>1, <1>2, <1>3 DEF LInv, LTypes, LQueue, LDown, Running
  <2>2. LMutex' /\ LEdits'
    BY <1>1, <1>2, <1>3 DEF LInv, LMutex, LEdits, Unlocked
  <2>3. LWanted'
    <3>1. ASSUME NEW d \in Delegates
          PROVE  RightFor(editor.next, d)
      BY <1>1, <1>3, <3>1 DEF LInv, LEdits, LWanted, RightFor
    <3> QED
      BY <1>1, <1>3, <3>1 DEF LInv, LWanted, RightFor, Prepared
  <2>4. LSame' /\ LHolds' /\ ReadsSeeOneConfig'
    BY <1>1, <1>3 DEF LInv, LSame, LHolds, ReadsSeeOneConfig, Running, Allows, Shown
  <2> QED
    BY <2>1, <2>2, <2>3, <2>4 DEF LInv
<1>4. CASE editor' = NotEditing /\ authMu' = authMu
  <2>1. LTypes' /\ LQueue' /\ LDown'
    BY <1>1, <1>2, <1>4 DEF LInv, LTypes, LQueue, LDown, Running, NotEditing
  <2>2. LMutex' /\ LEdits'
    BY <1>1, <1>2, <1>4 DEF LInv, LMutex, LEdits
  <2>3. LWanted' /\ LSame' /\ LHolds' /\ ReadsSeeOneConfig'
    BY <1>1, <1>4 DEF LInv, LWanted, LSame, LHolds, ReadsSeeOneConfig, RightFor, Prepared, Running,
                      Allows, Shown
  <2> QED
    BY <2>1, <2>2, <2>3 DEF LInv
<1> QED
  BY <1>3, <1>4 DEF CheckEdit

LEMMA LandEditStep ==
  ASSUME LInv, LandEdit
  PROVE  LInv'
<1>1. /\ authMu.op = "edit" /\ authMu' = Unlocked /\ editor' = NotEditing
      /\ file' \in {file, authMu.next}
      /\ UNCHANGED <<live, queue, writer, reader, want, revoked, barred, spent>>
  BY DEF LandEdit
<1>2. /\ NotEditing.at = "idle" /\ Unlocked.at = "free" /\ Unlocked.op = "none" /\ Unlocked.about = "nobody"
      /\ Unlocked.next = Invalid
  BY DEF NotEditing, Unlocked
<1>3. authMu.at = "prepared" /\ authMu.next # Invalid /\ authMu.about = "nobody" /\ authMu # Unlocked
  BY <1>1, <1>2 DEF LInv, LMutex
<1>4. Running /\ spent.saves > 0 /\ spent.saves \in Nat /\ spent.edits \in Nat
  BY <1>1, <1>3 DEF LInv, LDown, LEdits, LTypes
<1>5. LTypes'
  BY <1>1 DEF LInv, LTypes, Unlocked, NotEditing
<1>6. LQueue' /\ LMutex' /\ LEdits' /\ LDown'
  BY <1>1, <1>2, <1>3, <1>4 DEF LInv, LQueue, LMutex, LEdits, LDown, Running
<1>7. LWanted'
  <2>1. \A d \in Delegates : RightFor(authMu.next, d)
    BY <1>3, LiveAssumption DEF LInv, LWanted, Prepared
  <2> QED
    BY <1>1, <1>2, <1>3, <2>1 DEF LInv, LWanted, RightFor, Prepared
<1>8. LSame'
  BY <1>1, <1>4 DEF LSame
<1>9. LHolds' /\ ReadsSeeOneConfig'
  BY <1>1 DEF LInv, LHolds, ReadsSeeOneConfig, Allows, Shown
<1> QED
  BY <1>5, <1>6, <1>7, <1>8, <1>9 DEF LInv

\* The host writes over the file: nothing is promised of any delegate then.
LEMMA HostEditStep ==
  ASSUME LInv, NEW c \in LiveConfigs \cup {Invalid}, HostEdit(c)
  PROVE  LInv'
<1>1. /\ spent' = [spent EXCEPT !.edits = @ + 1] /\ file' = c /\ want' = [d \in Delegates |-> "any"]
      /\ UNCHANGED <<live, queue, authMu, writer, reader, editor, revoked, barred>>
  BY DEF HostEdit
<1>2. /\ spent'.edits = spent.edits + 1 /\ spent'.saves = spent.saves
      /\ spent.saves \in Nat /\ spent.edits \in Nat
  BY <1>1 DEF LInv, LTypes
<1>3. LTypes'
  BY <1>1 DEF LInv, LTypes
<1>4. LQueue' /\ LMutex' /\ LEdits' /\ LDown'
  BY <1>1, <1>2 DEF LInv, LQueue, LMutex, LEdits, LDown, Running
<1>5. LWanted'
  BY <1>1 DEF LInv, LWanted, RightFor, Prepared
<1>6. LSame'
  BY <1>1, <1>2 DEF LSame
<1>7. LHolds' /\ ReadsSeeOneConfig'
  BY <1>1 DEF LInv, LHolds, ReadsSeeOneConfig, Allows, Shown
<1> QED
  BY <1>3, <1>4, <1>5, <1>6, <1>7 DEF LInv

\* The server stops, and starts with what is in the file.
LEMMA StopServerStep ==
  ASSUME LInv, StopServer
  PROVE  LInv'
<1>1. /\ spent' = [spent EXCEPT !.stops = @ + 1]
      /\ live' = Invalid /\ queue' = <<>> /\ authMu' = Unlocked
      /\ writer' = Away /\ reader' = NotReading /\ editor' = NotEditing
      /\ revoked' = FALSE /\ barred' = FALSE /\ file' = file /\ want' = want
  BY DEF StopServer
<1>2. /\ NotEditing.at = "idle" /\ Unlocked.at = "free" /\ Unlocked.op = "none" /\ Unlocked.about = "nobody"
      /\ Unlocked.next = Invalid /\ Away.at = "idle" /\ NotReading.at = "idle"
  BY DEF NotEditing, Unlocked, Away, NotReading
<1>3. LTypes'
  <2>1. /\ editor' \in [at : {"idle", "opened", "waits"}, seen : LiveConfigs \cup {Invalid},
                        next : LiveConfigs \cup {Invalid}]
        /\ writer' \in [at : {"idle", "asks", "queued"}, role : PolicyRoles \cup {"none"}]
    BY <1>1 DEF Away, NotEditing
  <2>2. reader' \in [at : {"idle", "reads"}, role : PolicyRoles \cup {"none"},
                     opens : PolicyRoles \cup {"none"}, during : SUBSET BOOLEAN]
    BY <1>1 DEF NotReading
  <2>3. authMu' \in [op : {"none", "add", "remove", "reload", "edit"}, about : Delegates \cup {"nobody"},
                     next : LiveConfigs \cup {Invalid},
                     at : {"free", "prepared", "queued", "installed", "failed"}]
    BY <1>1 DEF Unlocked
  <2>4. spent' \in [updates : Nat, saves : Nat, edits : Nat, stops : Nat]
    BY <1>1 DEF LInv, LTypes
  <2>5. queue' \in Seq({"install", "write"})
    BY <1>1
  <2> QED
    BY <1>1, <2>1, <2>2, <2>3, <2>4, <2>5 DEF LInv, LTypes
<1>4. LQueue'
  BY <1>1, <1>2 DEF LQueue, Once, Has
<1>5. LMutex' /\ LEdits' /\ LDown'
  BY <1>1, <1>2 DEF LMutex, LEdits, LDown
<1>6. LWanted'
  BY <1>1, <1>2 DEF LInv, LWanted, RightFor, Prepared
<1>7. LSame' /\ LHolds' /\ ReadsSeeOneConfig'
  BY <1>1, <1>2 DEF LSame, LHolds, ReadsSeeOneConfig, Running
<1> QED
  BY <1>3, <1>4, <1>5, <1>6, <1>7 DEF LInv

LEMMA StartAgainStep ==
  ASSUME LInv, StartAgain
  PROVE  LInv'
<1>1. /\ ~Running /\ file # Invalid /\ Publish(file)
      /\ UNCHANGED <<file, queue, authMu, writer, editor, want, spent>>
  BY DEF StartAgain
<1>2. file \in LiveConfigs /\ authMu = Unlocked /\ Unlocked.at = "free" /\ Unlocked.op = "none"
  BY <1>1 DEF LInv, LTypes, LDown, Unlocked
<1>3. /\ live' = file /\ revoked' \in BOOLEAN /\ barred' \in BOOLEAN /\ LHolds'
      /\ reader' \in [at : {"idle", "reads"}, role : PolicyRoles \cup {"none"},
                      opens : PolicyRoles \cup {"none"}, during : SUBSET BOOLEAN]
      /\ ReadsSeeOneConfig'
  BY <1>1, <1>2, Published
<1>4. LTypes'
  BY <1>1, <1>2, <1>3 DEF LInv, LTypes
<1>5. LQueue' /\ LMutex' /\ LEdits' /\ LDown'
  BY <1>1, <1>2, <1>3 DEF LInv, LQueue, LMutex, LEdits, LDown, Running
<1>6. LWanted' /\ LSame'
  BY <1>1, <1>2, <1>3 DEF LInv, LWanted, LSame, RightFor, Prepared
<1> QED
  BY <1>3, <1>4, <1>5, <1>6 DEF LInv

LEMMA LiveStep ==
  ASSUME LInv, [LiveNext]_liveVars
  PROVE  LInv'
<1>1. ASSUME NEW d \in Delegates, NEW o \in {"add", "remove"}, Begin(o, d)
      PROVE  LInv'
  BY <1>1, BeginStep
<1>2. CASE Begin("reload", "nobody")
  BY <1>2, BeginStep
<1>3. CASE GiveUp \/ Enqueue \/ Install \/ Acknowledge
  BY <1>3, GiveUpStep, EnqueueStep, InstallStep, AcknowledgeStep
<1>4. CASE AdmitRole \/ AdmitDocset \/ ApplyWrite \/ Capture \/ EndRead
  BY <1>4, WriterSteps, ReaderSteps
<1>5. CASE OpenFile \/ CheckEdit \/ LandEdit
  BY <1>5, OpenFileStep, CheckEditStep, LandEditStep
<1>6. ASSUME NEW r \in PolicyRoles, NEW o \in PolicyRoles, NEW e \in BOOLEAN, Save(r, o, e)
      PROVE  LInv'
  BY <1>6, SaveStep
<1>7. ASSUME NEW c \in LiveConfigs \cup {Invalid}, HostEdit(c)
      PROVE  LInv'
  BY <1>7, HostEditStep
<1>8. CASE StopServer \/ StartAgain
  BY <1>8, StopServerStep, StartAgainStep
<1>9. CASE UNCHANGED liveVars
  <2>1. UNCHANGED <<file, live, queue, authMu, writer, reader, editor, want, revoked, barred, spent>>
    BY <1>9 DEF liveVars
  <2>2. LTypes' /\ LQueue' /\ LMutex' /\ LEdits' /\ LDown'
    BY <2>1 DEF LInv, LTypes, LQueue, LMutex, LEdits, LDown, Running
  <2>3. LWanted' /\ LSame' /\ LHolds' /\ ReadsSeeOneConfig'
    BY <2>1 DEF LInv, LWanted, LSame, LHolds, ReadsSeeOneConfig, RightFor, Prepared, Running, Allows, Shown
  <2> QED
    BY <2>2, <2>3 DEF LInv
<1> QED
  BY <1>1, <1>2, <1>3, <1>4, <1>5, <1>6, <1>7, <1>8, <1>9 DEF LiveNext

LEMMA LiveBegins == LiveInit => LInv
<1> SUFFICES ASSUME LiveInit PROVE LInv
  OBVIOUS
<1>1. /\ file \in LiveConfigs /\ Allows(file) /\ live = file /\ queue = <<>> /\ authMu = Unlocked
      /\ writer = Away /\ reader = NotReading /\ editor = NotEditing
      /\ want = [d \in Delegates |-> "any"] /\ revoked = FALSE /\ barred = FALSE
      /\ spent = [updates |-> 0, saves |-> 0, edits |-> 0, stops |-> 0]
  BY DEF LiveInit
<1>2. /\ NotEditing.at = "idle" /\ Unlocked.at = "free" /\ Unlocked.op = "none" /\ Unlocked.about = "nobody"
      /\ Unlocked.next = Invalid /\ Away.at = "idle" /\ NotReading.at = "idle"
  BY DEF NotEditing, Unlocked, Away, NotReading
<1>3. live # Invalid
  BY <1>1, ConfigsAre
<1>4. LTypes
  <2>1. /\ editor \in [at : {"idle", "opened", "waits"}, seen : LiveConfigs \cup {Invalid},
                        next : LiveConfigs \cup {Invalid}]
        /\ writer \in [at : {"idle", "asks", "queued"}, role : PolicyRoles \cup {"none"}]
    BY <1>1 DEF Away, NotEditing
  <2>2. reader \in [at : {"idle", "reads"}, role : PolicyRoles \cup {"none"},
                     opens : PolicyRoles \cup {"none"}, during : SUBSET BOOLEAN]
    BY <1>1 DEF NotReading
  <2>3. authMu \in [op : {"none", "add", "remove", "reload", "edit"}, about : Delegates \cup {"nobody"},
                     next : LiveConfigs \cup {Invalid},
                     at : {"free", "prepared", "queued", "installed", "failed"}]
    BY <1>1 DEF Unlocked
  <2>4. spent \in [updates : Nat, saves : Nat, edits : Nat, stops : Nat]
    BY <1>1 DEF LInv, LTypes
  <2>5. queue \in Seq({"install", "write"}) /\ want \in [Delegates -> {"any", "in", "out"}]
    BY <1>1
  <2> QED
    BY <1>1, <2>1, <2>2, <2>3, <2>4, <2>5 DEF LTypes
<1>5. LQueue /\ LMutex /\ LEdits /\ LDown
  BY <1>1, <1>2, <1>3 DEF LQueue, LMutex, LEdits, LDown, Once, Has, Running
<1>6. LWanted /\ LSame /\ LHolds /\ ReadsSeeOneConfig
  BY <1>1, <1>2, <1>3 DEF LWanted, LSame, LHolds, ReadsSeeOneConfig, RightFor, Prepared, Running
<1> QED
  BY <1>4, <1>5, <1>6 DEF LInv

\* What the invariant says of a state.
LEMMA LiveStateIsRight == LInv => LiveTypeOK /\ UpdatesStay /\ RestartsKeepConfig /\ ReadsSeeOneConfig
<1> SUFFICES ASSUME LInv PROVE LiveTypeOK /\ UpdatesStay /\ RestartsKeepConfig /\ ReadsSeeOneConfig
  OBVIOUS
<1>1. LiveTypeOK
  BY DEF LInv, LTypes, LQueue, LiveTypeOK, InQueue, Once, Has
<1>2. UpdatesStay
  BY DEF LInv, LWanted, RightFor, UpdatesStay
<1>3. RestartsKeepConfig
  BY DEF LInv, LSame, RestartsKeepConfig
<1> QED
  BY <1>1, <1>2, <1>3 DEF LInv

\* Of a step: whoever was told that a grant is gone has it no more.
LEMMA RevocationsStand ==
  ASSUME LInv, [LiveNext]_liveVars
  PROVE  RevocationsHold
<1>1. revoked => ~Allows(live)
  BY DEF LInv, LHolds
<1>2. ~(barred /\ authMu.op = "edit")
  BY DEF LInv, LHolds, LMutex
<1>3. ASSUME revoked
      PROVE  written' = written
  <2>1. CASE ApplyWrite
    BY <1>1, <1>3, <2>1 DEF ApplyWrite, Granted
  <2>2. CASE ~ApplyWrite
    BY <2>2 DEF LiveNext, liveVars, Begin, GiveUp, Enqueue, Install, Acknowledge, AdmitRole, AdmitDocset,
                Capture, EndRead, OpenFile, Save, CheckEdit, LandEdit, HostEdit, StopServer, StartAgain
  <2> QED
    BY <2>1, <2>2
<1> QED
  BY <1>2, <1>3 DEF RevocationsHold

\* The configuration that runs and its file (live_config.go, config_fs.go): what
\* an update did to a delegate stays through updates, edits, reloads, failures
\* and restarts; a failed change leaves both; a revoked grant is refused to
\* what was admitted with it; and a read shows one configuration that ran.
THEOREM ConfigStaysCurrent == LiveSpec => ConfigIsCurrent
<1> DEFINE Good ==
      /\ LiveTypeOK' /\ UpdatesStay' /\ RestartsKeepConfig' /\ ReadsSeeOneConfig'
      /\ RevocationsHold
<1>1. LInv /\ [LiveNext]_liveVars => LInv'
  BY LiveStep
<1>2. LInv /\ LInv' /\ [LiveNext]_liveVars => [Good]_liveVars
  <2> SUFFICES ASSUME LInv, LInv', [LiveNext]_liveVars PROVE Good
    OBVIOUS
  <2>1. (LiveTypeOK /\ UpdatesStay /\ RestartsKeepConfig /\ ReadsSeeOneConfig)'
    BY LiveStateIsRight, PTL
  <2> QED
    BY <2>1, RevocationsStand
<1> HIDE DEF Good
<1>3. LiveSpec => [][Good]_liveVars
  BY LiveBegins, <1>1, <1>2, PTL DEF LiveSpec
<1> QED
  BY <1>3 DEF ConfigIsCurrent, Good
=============================================================================
