-------------------------- MODULE WriteLog_proofs --------------------------
(***************************************************************************)
(* Theorems about the write log, for any number of callers, setters and    *)
(* closers, any buffer and any number of calls, faults and crashes.        *)
(***************************************************************************)
EXTENDS WriteLog, SequenceTheorems, TLAPS

-----------------------------------------------------------------------------
(* Type correctness needs two more facts: the applier has an answer for an *)
(* entry it has applied, and a call under way has a number.                *)

HasOutcome == apc \in {"journal", "history", "reply"} => outcome # "none"
HasCall == \A c \in Clients : pc[c] # "idle" => calls[c] \in 1..MaxCalls
ITypeOK == TypeOK /\ HasOutcome /\ HasCall

\* The operations of the lock stay within the type of locks.
LEMMA LockTypes ==
  ASSUME NEW m \in Locks(Procs), NEW p \in Procs
  PROVE  /\ RLock(m, p) \in Locks(Procs)
         /\ RUnlock(m, p) \in Locks(Procs)
         /\ Announce(m, p) \in Locks(Procs)
         /\ Unlock(m) \in Locks(Procs)
BY DEF Locks, RLock, RUnlock, Announce, Unlock

\* The free lock is a lock.
LEMMA UnlockedType == Unlocked \in Locks(Procs)
BY DEF Locks, Unlocked

\* The applier passing through the lock leaves a lock behind.
LEMMA PassLockType ==
  ASSUME mu \in Locks(Procs), PassLock
  PROVE  mu' \in Locks(Procs)
BY LockTypes DEF PassLock, Procs

\* The first state is well-typed.
LEMMA InitType == Init => ITypeOK
<1> SUFFICES ASSUME Init PROVE ITypeOK
  OBVIOUS
<1>1. ch \in Seq(Entries) /\ Len(ch) <= Buffer
  BY BoundsAssumption DEF Init
<1>2. store \in Seq(Entries) /\ journal \in Seq(Entries) /\ history \in Seq(Entries)
        /\ posted \in Seq(Entries \X (Setters \cup {NoOne})) /\ accepted \in Seq(Entries)
  BY DEF Init
<1>3. calls \in [Clients -> 0..MaxCalls] /\ crashes \in 0..MaxCrashes
  BY BoundsAssumption DEF Init
<1>4. TypeOK
  BY <1>1, <1>2, <1>3, UnlockedType DEF Init, TypeOK
<1> QED
  BY <1>4 DEF Init, ITypeOK, HasOutcome, HasCall

\* The steps of a caller preserve the type invariant.
LEMMA ClientType ==
  ASSUME ITypeOK, NEW c \in Clients, ClientStep(c) \/ Cancel(c)
  PROVE  ITypeOK'
<1> USE DEF ITypeOK, TypeOK, HasOutcome, HasCall, logVars, clientVars, applierVars, diskVars,
            auxVars
<1>p. c \in Procs /\ mu \in Locks(Procs)
  BY DEF Procs
<1>m. RLock(mu, c) \in Locks(Procs) /\ RUnlock(mu, c) \in Locks(Procs)
  BY <1>p, LockTypes
<1>1. CASE Call(c)
  BY <1>1, <1>m, BoundsAssumption DEF Call
<1>2. CASE Refuse(c)
  BY <1>2, <1>m DEF Refuse, Return
<1>3. CASE Admit(c)
  BY <1>3 DEF Admit
<1>4. CASE Send(c)
  <2> PICK k \in Kinds : /\ ch' = Append(ch, Entry(c, k))
                         /\ accepted' = Append(accepted, Entry(c, k))
    BY <1>4 DEF Send
  <2>1. Entry(c, k) \in Entries
    BY <1>4 DEF Send, Entry, Entries
  <2>2. ch' \in Seq(Entries) /\ accepted' \in Seq(Entries)
    BY <2>1
  <2>3. Len(ch') <= Buffer
    <3>1. Len(ch') = Len(ch) + 1 /\ Len(ch) \in Nat /\ Len(ch) < Buffer
      BY <1>4, <2>1 DEF Send
    <3> QED
      BY <3>1, BoundsAssumption
  <2> QED
    BY <1>4, <1>m, <2>2, <2>3 DEF Send
<1>5. CASE GiveUpSending(c)
  BY <1>5, <1>m DEF GiveUpSending, Return
<1>6. CASE GiveUpWaiting(c)
  BY <1>6 DEF GiveUpWaiting, Return
<1>7. CASE Receive(c)
  <2> PICK r \in replies : Return(c, r[2])
    BY <1>7 DEF Receive
  <2>1. r[2] \in {"ok", "err"}
    OBVIOUS
  <2> QED
    BY <1>7, <2>1 DEF Receive, Return
<1>8. CASE Cancel(c)
  BY <1>8 DEF Cancel
<1> QED
  BY <1>1, <1>2, <1>3, <1>4, <1>5, <1>6, <1>7, <1>8 DEF ClientStep

\* The steps of the applier do.
LEMMA ApplierType ==
  ASSUME ITypeOK, ApplierStep
  PROVE  ITypeOK'
<1> USE DEF ITypeOK, TypeOK, HasOutcome, HasCall, logVars, clientVars, applierVars, diskVars,
            auxVars
<1>p. Applier \in Procs /\ mu \in Locks(Procs)
  BY DEF Procs
<1>m. RLock(mu, Applier) \in Locks(Procs)
  BY <1>p, LockTypes
<1>1. CASE QueueForLock
  BY <1>1, <1>m DEF QueueForLock
<1>2. CASE Take
  <2>1. Head(ch) \in Entries /\ Tail(ch) \in Seq(Entries) /\ Len(Tail(ch)) <= Buffer
    BY <1>2, BoundsAssumption DEF Take
  <2> QED
    BY <1>2, <2>1, EntriesAssumption DEF Take
<1>3. CASE RunTask
  <2>1. cur \in Entries /\ Append(store, cur) \in Seq(Entries)
    BY <1>3 DEF RunTask
  <2>2. <<cur, "ok">> \in Entries \X {"ok", "err"} /\ <<cur, "err">> \in Entries \X {"ok", "err"}
    BY <2>1
  <2>3. replies' \subseteq Entries \X {"ok", "err"} /\ store' \in Seq(Entries)
    BY <1>3, <2>1, <2>2 DEF RunTask
  <2> QED
    BY <1>3, <2>3 DEF RunTask, NextEntry
<1>4. CASE Apply
  <2>1. cur \in Entries /\ Append(store, cur) \in Seq(Entries)
    BY <1>4 DEF Apply
  <2> QED
    BY <1>4, <2>1, PassLockType DEF Apply
<1>5. CASE CommitState
  BY <1>5, PassLockType DEF CommitState
<1>6. CASE AppendJournal
  <2>1. cur \in Entries /\ Append(journal, cur) \in Seq(Entries)
    BY <1>6 DEF AppendJournal
  <2> QED
    BY <1>6, <2>1 DEF AppendJournal, Fault
<1>7. CASE RecordHistory
  <2>1. cur \in Entries /\ Append(history, cur) \in Seq(Entries)
    BY <1>7 DEF RecordHistory
  <2> QED
    BY <1>7, <2>1, PassLockType DEF RecordHistory, Fault
<1>8. CASE Reply
  <2>1. cur \in Entries /\ outcome \in {"ok", "err"}
    BY <1>8 DEF Reply
  <2> QED
    BY <1>8, <2>1 DEF Reply, NextEntry
<1>9. CASE PostCommit
  <2>1. <<cur, postCommit>> \in Entries \X (Setters \cup {NoOne})
    BY <1>9 DEF PostCommit
  <2> QED
    BY <1>9, <2>1, PassLockType DEF PostCommit, NextEntry
<1>10. CASE Exit
  BY <1>10 DEF Exit
<1> QED
  BY <1>1, <1>2, <1>3, <1>4, <1>5, <1>6, <1>7, <1>8, <1>9, <1>10 DEF ApplierStep

\* The steps of setters and closers do.
LEMMA WriterType ==
  ASSUME ITypeOK, NEW w \in Writers, WriterStep(w)
  PROVE  ITypeOK'
<1> USE DEF ITypeOK, TypeOK, HasOutcome, HasCall, logVars, clientVars, applierVars, diskVars,
            auxVars
<1>m. Announce(mu, w) \in Locks(Procs) /\ Unlock(mu) \in Locks(Procs)
  <2>1. w \in Procs /\ mu \in Locks(Procs)
    BY DEF Procs
  <2> QED
    BY <2>1, LockTypes
<1>1. CASE Lock(w)
  BY <1>1, <1>m DEF Lock
<1>2. CASE w \in Setters /\ SetPostCommit(w)
  BY <1>2, <1>m DEF SetPostCommit
<1>3. CASE Close(w)
  BY <1>3, <1>m DEF Close
<1>4. CASE CloseReturns(w) \/ CloseTimesOut(w)
  BY <1>4 DEF CloseReturns, CloseTimesOut
<1> QED
  BY <1>1, <1>2, <1>3, <1>4 DEF WriterStep

\* A crash does.
LEMMA CrashType ==
  ASSUME ITypeOK, Crash
  PROVE  ITypeOK'
<1> USE DEF ITypeOK, TypeOK, HasOutcome, HasCall
<1>1. CutOff \subseteq Entries
  BY DEF CutOff, Elements
<1>2. ch' \in Seq(Entries) /\ Len(ch') <= Buffer /\ accepted' \in Seq(Entries)
        /\ posted' \in Seq(Entries \X (Setters \cup {NoOne}))
  BY BoundsAssumption DEF Crash
<1>3. crashes' \in 0..MaxCrashes
  BY BoundsAssumption DEF Crash
<1>4. got' \in [Clients -> {"none", "ok", "err", "closed", "ctx", "lost"}]
  BY DEF Crash
<1> QED
  BY <1>1, <1>2, <1>3, <1>4, UnlockedType DEF Crash

\* Every step, of a caller, the applier, a setter, Close or a crash, keeps the types.
LEMMA StepType == ITypeOK /\ [Next]_vars => ITypeOK'
<1> SUFFICES ASSUME ITypeOK, [Next]_vars PROVE ITypeOK'
  OBVIOUS
<1>1. CASE UNCHANGED vars
  BY <1>1 DEF ITypeOK, TypeOK, HasOutcome, HasCall, vars, logVars, clientVars, applierVars,
              diskVars, auxVars
<1> QED
  BY <1>1, ClientType, ApplierType, WriterType, CrashType DEF Next

\* The types hold, an applied entry has an answer and a call under way a number.
THEOREM ITypeCorrect == Spec => []ITypeOK
BY InitType, StepType, PTL DEF Spec

\* Every variable keeps its type; the channel never holds more than Buffer.
THEOREM TypeCorrect == Spec => []TypeOK
<1>1. ITypeOK => TypeOK
  BY DEF ITypeOK
<1> QED
  BY <1>1, ITypeCorrect, PTL
-----------------------------------------------------------------------------
(* A caller inside the send holds the lock for reading, and Close takes it  *)
(* for writing: the two cannot meet.  The property is inductive.            *)

\* What each lock operation does to the readers.
LEMMA LockReaders ==
  ASSUME NEW m \in Locks(Procs), NEW p
  PROVE  /\ m.readers \subseteq RLock(m, p).readers
         /\ RUnlock(m, p).readers = m.readers \ {p}
         /\ Announce(m, p).readers = m.readers
         /\ m.readers \subseteq Unlock(m).readers
BY DEF Locks, RLock, RUnlock, Announce, Unlock

\* The applier passing through the lock leaves the callers inside where they are.
LEMMA PassLockReaders ==
  ASSUME mu \in Locks(Procs), PassLock, NEW c \in Clients, c \in mu.readers
  PROVE  c \in mu'.readers
BY LockReaders, ProcsAssumption DEF PassLock

\* A step keeps Close out while a caller is inside the send (writelog.go:253-263,
\* 374-383): a caller gets in only on an open log, and Close only past all readers.
LEMMA StepNoSend == ITypeOK /\ NoSendOnClosedChannel /\ [Next]_vars => NoSendOnClosedChannel'
<1> SUFFICES ASSUME ITypeOK, NoSendOnClosedChannel, [Next]_vars,
                    NEW c \in Clients, pc'[c] = "sending"
             PROVE  c \in mu'.readers /\ ~closed'
  BY DEF NoSendOnClosedChannel
<1> USE DEF NoSendOnClosedChannel, logVars, clientVars, applierVars, diskVars, auxVars
<1>t. mu \in Locks(Procs) /\ pc \in [Clients -> {"idle", "check", "sending", "await"}]
  BY DEF ITypeOK, TypeOK
<1>1. ASSUME NEW d \in Clients, ClientStep(d) \/ Cancel(d)
      PROVE  c \in mu'.readers /\ ~closed'
  <2>1. CASE Call(d)
    BY <2>1, <1>t, LockReaders DEF Call
  <2>2. CASE Refuse(d)
    BY <2>2, <1>t, LockReaders DEF Refuse, Return
  <2>3. CASE Admit(d)
    BY <2>3, <1>t DEF Admit
  <2>4. CASE Send(d)
    BY <2>4, <1>t, LockReaders DEF Send
  <2>5. CASE GiveUpSending(d)
    BY <2>5, <1>t, LockReaders DEF GiveUpSending, Return
  <2>6. CASE GiveUpWaiting(d) \/ Receive(d)
    BY <2>6, <1>t DEF GiveUpWaiting, Receive, Return
  <2>7. CASE Cancel(d)
    BY <2>7, <1>t DEF Cancel
  <2> QED
    BY <1>1, <2>1, <2>2, <2>3, <2>4, <2>5, <2>6, <2>7 DEF ClientStep
<1>2. CASE ApplierStep
  <2>1. CASE QueueForLock
    BY <2>1, <1>t, LockReaders DEF QueueForLock
  <2>2. CASE Apply \/ CommitState \/ RecordHistory \/ PostCommit
    BY <2>2, <1>t, PassLockReaders DEF Apply, CommitState, RecordHistory, PostCommit
  <2>3. CASE Take \/ RunTask \/ AppendJournal \/ Reply \/ Exit
    BY <2>3, <1>t DEF Take, RunTask, AppendJournal, Reply, Exit
  <2> QED
    BY <1>2, <2>1, <2>2, <2>3 DEF ApplierStep
<1>3. ASSUME NEW w \in Writers, WriterStep(w)
      PROVE  c \in mu'.readers /\ ~closed'
  <2>1. CASE Lock(w)
    BY <2>1, <1>t, LockReaders DEF Lock
  <2>2. CASE SetPostCommit(w)
    BY <2>2, <1>t, LockReaders DEF SetPostCommit
  <2>3. CASE Close(w)
    BY <2>3, <1>t DEF Close, CanEnter
  <2>4. CASE CloseReturns(w) \/ CloseTimesOut(w)
    BY <2>4, <1>t DEF CloseReturns, CloseTimesOut
  <2> QED
    BY <1>3, <2>1, <2>2, <2>3, <2>4 DEF WriterStep
<1>4. CASE Crash
  BY <1>4 DEF Crash
<1>5. CASE UNCHANGED vars
  BY <1>5 DEF vars
<1> QED
  BY <1>1, <1>2, <1>3, <1>4, <1>5 DEF Next

\* No caller ever sends on the channel after Close closed it.
THEOREM NeverSendsOnClosedChannel == Spec => []NoSendOnClosedChannel
<1>1. Init => NoSendOnClosedChannel
  BY DEF Init, NoSendOnClosedChannel
<1> QED
  BY <1>1, StepNoSend, ITypeCorrect, PTL DEF Spec
-----------------------------------------------------------------------------
(* An ok answer is about a durable, recorded change.  The answer is        *)
(* prepared long before it is given, so the invariant says what holds of   *)
(* the current entry at each stage of the applier.                         *)

Given(e, s) == e \in unrecorded \/ e \in Elements(s)
IAcked ==
  /\ AckedIsDurable
  /\ apc = "task" => cur.kind = "task"
  /\ apc \in {"state", "journal", "history"} => cur \in Elements(store)
  /\ apc = "history" => Given(cur, journal)
  /\ apc = "reply" /\ outcome = "ok" =>
       cur \in Elements(store) /\ Given(cur, journal) /\ Given(cur, history)

\* Appending adds one element.
LEMMA ElementsAppend ==
  ASSUME NEW S, NEW s \in Seq(S), NEW e \in S
  PROVE  Elements(Append(s, e)) = Elements(s) \cup {e}
BY DEF Elements

\* A sequence holds its head and what its tail holds.
LEMMA ElementsTail ==
  ASSUME NEW S, NEW s \in Seq(S), s # <<>>
  PROVE  Elements(s) = Elements(Tail(s)) \cup {Head(s)}
<1>1. \A i \in 1..Len(s) : i = 1 \/ (i - 1 \in 1..Len(Tail(s)) /\ s[i] = Tail(s)[i - 1])
  OBVIOUS
<1>2. \A i \in 1..Len(Tail(s)) : i + 1 \in 1..Len(s) /\ Tail(s)[i] = s[i + 1]
  OBVIOUS
<1>3. 1 \in 1..Len(s) /\ Head(s) = s[1]
  OBVIOUS
<1> QED
  BY <1>1, <1>2, <1>3 DEF Elements

\* Each stage of the applier hands the next what its answer has to be about.
LEMMA StepAcked == ITypeOK /\ IAcked /\ [Next]_vars => IAcked'
<1> SUFFICES ASSUME ITypeOK, IAcked, [Next]_vars PROVE IAcked'
  OBVIOUS
<1> USE DEF IAcked, AckedIsDurable, Given, logVars, clientVars, applierVars, diskVars, auxVars
<1>t. /\ store \in Seq(Entries) /\ journal \in Seq(Entries) /\ history \in Seq(Entries)
      /\ cur # NoOne => cur \in Entries
      /\ cur = NoOne <=> apc \in {"recv", "exited"}
  BY DEF ITypeOK, TypeOK
<1>1. ASSUME NEW c \in Clients, ClientStep(c) \/ Cancel(c)
      PROVE  IAcked'
  BY <1>1 DEF ClientStep, Call, Refuse, Admit, Send, GiveUpSending, GiveUpWaiting, Receive,
              Cancel, Return, Elements
<1>2. CASE ApplierStep
  <2>1. CASE QueueForLock \/ Exit \/ Take
    BY <2>1 DEF QueueForLock, Exit, Take, Elements
  <2>2. CASE RunTask
    <3>1. cur \in Entries /\ Elements(Append(store, cur)) = Elements(store) \cup {cur}
      BY <2>2, <1>t, ElementsAppend DEF RunTask
    <3>2. cur.kind = "task"
      BY <2>2 DEF RunTask
    <3>3. UNCHANGED <<journal, history, unrecorded>> /\ apc' = "recv"
      BY <2>2 DEF RunTask, NextEntry
    <3>4. CASE store' = Append(store, cur) /\ replies' = replies \cup {<<cur, "ok">>}
      BY <3>1, <3>2, <3>3, <3>4
    <3>5. CASE store' = store /\ replies' = replies \cup {<<cur, "err">>}
      BY <3>3, <3>5
    <3> QED
      BY <2>2, <3>4, <3>5 DEF RunTask
  <2>3. CASE Apply
    <3>1. cur \in Entries /\ Elements(Append(store, cur)) = Elements(store) \cup {cur}
      BY <2>3, <1>t, ElementsAppend DEF Apply
    <3> QED
      BY <2>3, <3>1 DEF Apply
  <2>4. CASE CommitState
    BY <2>4 DEF CommitState
  <2>5. CASE AppendJournal
    <3>1. Elements(Append(journal, cur)) = Elements(journal) \cup {cur}
      BY <2>5, <1>t, ElementsAppend DEF AppendJournal
    <3> QED
      BY <2>5, <3>1 DEF AppendJournal, Fault
  <2>6. CASE RecordHistory
    <3>1. Elements(Append(history, cur)) = Elements(history) \cup {cur}
      BY <2>6, <1>t, ElementsAppend DEF RecordHistory
    <3> QED
      BY <2>6, <3>1 DEF RecordHistory, Fault
  <2>7. CASE Reply
    BY <2>7 DEF Reply, NextEntry
  <2>8. CASE PostCommit
    BY <2>8 DEF PostCommit, NextEntry
  <2> QED
    BY <1>2, <2>1, <2>2, <2>3, <2>4, <2>5, <2>6, <2>7, <2>8 DEF ApplierStep
<1>3. ASSUME NEW w \in Writers, WriterStep(w)
      PROVE  IAcked'
  BY <1>3 DEF WriterStep, Lock, SetPostCommit, Close, CloseReturns, CloseTimesOut
<1>4. CASE Crash
  BY <1>4 DEF Crash
<1>5. CASE UNCHANGED vars
  BY <1>5 DEF vars
<1> QED
  BY <1>1, <1>2, <1>3, <1>4, <1>5 DEF Next

\* At each stage the current entry is as durable and as recorded as its answer says.
THEOREM IAckedCorrect == Spec => []IAcked
<1>1. Init => IAcked
  BY DEF Init, IAcked, AckedIsDurable
<1> QED
  BY <1>1, StepAcked, ITypeCorrect, PTL DEF Spec

\* An ok answer is about an entry that is in the substrate, and that both
\* recorders were given if it is a change, whatever crashes and fails.
THEOREM AcksAreDurable == Spec => []AckedIsDurable
<1>1. IAcked => AckedIsDurable
  BY DEF IAcked
<1> QED
  BY <1>1, IAckedCorrect, PTL
-----------------------------------------------------------------------------
(* Calls and entries: an entry carries the number of its call.  While the  *)
(* call has not sent, and when it was refused, no entry carries it; so an  *)
(* entry is sent once, and is in one place on its way to the substrate.    *)

Issued ==
  Elements(accepted) \cup Elements(store) \cup Elements(ch) \cup Answered \cup ({cur} \ {NoOne})
Unsent(c) == pc[c] \in {"check", "sending"} \/ got[c] = "closed"
IFresh ==
  /\ \A e \in Issued : /\ e.call <= calls[e.client]
                       /\ Unsent(e.client) => e.call < calls[e.client]
  /\ \A c \in Clients : pc[c] # "idle" => got[c] = "none"

\* What the log has of entries are entries.
LEMMA IssuedType ==
  ASSUME TypeOK
  PROVE  Issued \subseteq Entries
BY DEF TypeOK, Issued, Elements, Answered

\* The steps that are not a caller's leave the calls alone and issue nothing.
LEMMA FreshKept ==
  ASSUME IFresh, Issued' \subseteq Issued, UNCHANGED <<pc, calls, got>>
  PROVE  IFresh'
BY DEF IFresh, Unsent

\* A caller's step issues at most the entry of its own call, and only by sending.
LEMMA ClientFresh ==
  ASSUME ITypeOK, IFresh, NEW c \in Clients, ClientStep(c) \/ Cancel(c)
  PROVE  IFresh'
<1> USE DEF IFresh, Unsent, logVars, clientVars, applierVars, diskVars, auxVars
<1>t. /\ pc \in [Clients -> {"idle", "check", "sending", "await"}]
      /\ calls \in [Clients -> 0..MaxCalls]
      /\ got \in [Clients -> {"none", "ok", "err", "closed", "ctx", "lost"}]
      /\ ch \in Seq(Entries) /\ accepted \in Seq(Entries)
      /\ replies \subseteq Entries \X {"ok", "err"}
  BY DEF ITypeOK, TypeOK
<1>i. \A e \in Issued : e.client \in Clients /\ e.call \in Nat
  BY IssuedType DEF ITypeOK, Entries
<1>n. \A d \in Clients : calls[d] \in Nat
  BY <1>t
<1>1. CASE Call(c)
  <2>1. Issued' = Issued
    BY <1>1 DEF Call, Issued, Answered, Elements
  <2>2. /\ calls' = [calls EXCEPT ![c] = @ + 1] /\ pc' = [pc EXCEPT ![c] = "check"]
        /\ got' = [got EXCEPT ![c] = "none"]
    BY <1>1 DEF Call
  <2>3. ASSUME NEW e \in Issued
        PROVE  e.call <= calls'[e.client] /\ (Unsent(e.client)' => e.call < calls'[e.client])
    <3>1. CASE e.client = c
      BY <3>1, <2>2, <1>i, <1>n, <1>t
    <3>2. CASE e.client # c
      BY <3>2, <2>2, <1>i, <1>n, <1>t
    <3> QED
      BY <3>1, <3>2
  <2> QED
    BY <2>1, <2>2, <2>3, <1>t
<1>2. CASE Refuse(c)
  <2>1. Issued' = Issued
    BY <1>2 DEF Refuse, Return, Issued, Answered, Elements
  <2> QED
    BY <1>2, <2>1, <1>t, <1>i DEF Refuse, Return
<1>3. CASE Admit(c)
  <2>1. Issued' = Issued
    BY <1>3 DEF Admit, Issued, Answered, Elements
  <2> QED
    BY <1>3, <2>1, <1>t, <1>i DEF Admit
<1>4. CASE Send(c)
  <2> PICK k \in Kinds : /\ ch' = Append(ch, Entry(c, k))
                         /\ accepted' = Append(accepted, Entry(c, k))
    BY <1>4 DEF Send
  <2>1. Entry(c, k) \in Entries /\ Entry(c, k).client = c /\ Entry(c, k).call = calls[c]
    BY <1>4 DEF Send, Entry, Entries, ITypeOK, HasCall
  <2>2. Elements(ch') = Elements(ch) \cup {Entry(c, k)}
          /\ Elements(accepted') = Elements(accepted) \cup {Entry(c, k)}
    BY <2>1, <1>t, ElementsAppend
  <2>s. UNCHANGED <<store, cur, replies>>
    BY <1>4 DEF Send
  <2>a. Elements(store)' = Elements(store) /\ Answered' = Answered
    BY <2>s DEF Elements, Answered
  <2>3. Issued' = Issued \cup {Entry(c, k)}
    BY <2>2, <2>s, <2>a DEF Issued
  <2>4. /\ pc[c] = "sending" /\ pc' = [pc EXCEPT ![c] = "await"]
        /\ UNCHANGED <<calls, got>>
    BY <1>4 DEF Send
  <2>5. got[c] = "none" /\ ~ Unsent(c)'
    BY <2>4, <1>t
  <2> QED
    BY <2>1, <2>3, <2>4, <2>5, <1>t, <1>i, <1>n
<1>5. CASE GiveUpSending(c) \/ GiveUpWaiting(c)
  <2>1. Issued' = Issued
    BY <1>5 DEF GiveUpSending, GiveUpWaiting, Return, Issued, Answered, Elements
  <2> QED
    BY <1>5, <2>1, <1>t, <1>i DEF GiveUpSending, GiveUpWaiting, Return
<1>6. CASE Receive(c)
  <2>1. Issued' = Issued
    BY <1>6 DEF Receive, Return, Issued, Answered, Elements
  <2> PICK r \in replies : Return(c, r[2])
    BY <1>6 DEF Receive
  <2>2. r[2] # "closed"
    BY <1>t
  <2> QED
    BY <1>6, <2>1, <2>2, <1>t, <1>i DEF Receive, Return
<1>7. CASE Cancel(c)
  <2>1. Issued' = Issued
    BY <1>7 DEF Cancel, Issued, Answered, Elements
  <2> QED
    BY <1>7, <2>1, <1>t, <1>i DEF Cancel
<1> QED
  BY <1>1, <1>2, <1>3, <1>4, <1>5, <1>6, <1>7 DEF ClientStep

\* What the applier and a crash do to the entries: they only move or vanish.
LEMMA ApplierIssues ==
  ASSUME ITypeOK, ApplierStep
  PROVE  Issued' \subseteq Issued
<1> USE DEF Issued, Answered, logVars, clientVars, applierVars, diskVars, auxVars
<1>t. /\ ch \in Seq(Entries) /\ store \in Seq(Entries)
      /\ cur # NoOne => cur \in Entries
      /\ cur = NoOne <=> apc \in {"recv", "exited"}
  BY DEF ITypeOK, TypeOK
<1>1. CASE Take
  <2>1. Elements(ch) = Elements(Tail(ch)) \cup {Head(ch)}
    BY <1>1, <1>t, ElementsTail DEF Take
  <2> QED
    BY <1>1, <2>1 DEF Take, Elements
<1>2. CASE RunTask
  <2>1. cur # NoOne /\ Elements(Append(store, cur)) = Elements(store) \cup {cur}
    BY <1>2, <1>t, ElementsAppend DEF RunTask
  <2>2. {r[1] : r \in replies'} \subseteq Answered \cup {cur}
    BY <1>2 DEF RunTask
  <2>3. /\ Elements(store') \subseteq Elements(store) \cup {cur}
        /\ UNCHANGED <<ch, accepted>> /\ cur' = NoOne
    BY <1>2, <2>1 DEF RunTask, NextEntry
  <2> QED
    BY <2>1, <2>2, <2>3 DEF Elements
<1>3. CASE Apply
  <2>1. cur # NoOne /\ Elements(Append(store, cur)) = Elements(store) \cup {cur}
    BY <1>3, <1>t, ElementsAppend DEF Apply
  <2> QED
    BY <1>3, <2>1 DEF Apply, Elements
<1>4. CASE Reply
  <2>1. cur # NoOne
    BY <1>4, <1>t DEF Reply
  <2>2. {r[1] : r \in replies'} \subseteq Answered \cup {cur}
    BY <1>4 DEF Reply
  <2>3. UNCHANGED <<ch, accepted, store>> /\ (cur' = cur \/ cur' = NoOne)
    BY <1>4 DEF Reply, NextEntry
  <2> QED
    BY <2>1, <2>2, <2>3 DEF Elements
<1>5. CASE QueueForLock \/ CommitState \/ AppendJournal \/ RecordHistory \/ PostCommit \/ Exit
  BY <1>5 DEF QueueForLock, CommitState, AppendJournal, RecordHistory, PostCommit, Exit, NextEntry,
              Elements
<1> QED
  BY <1>1, <1>2, <1>3, <1>4, <1>5 DEF ApplierStep

\* No step issues an entry of a call that has not sent or was refused.
LEMMA StepFresh == ITypeOK /\ IFresh /\ [Next]_vars => IFresh'
<1> SUFFICES ASSUME ITypeOK, IFresh, [Next]_vars PROVE IFresh'
  OBVIOUS
<1> USE DEF logVars, clientVars, applierVars, diskVars, auxVars
<1>1. CASE ApplierStep
  <2>1. UNCHANGED <<pc, calls, got>>
    BY <1>1 DEF ApplierStep, QueueForLock, Take, RunTask, Apply, CommitState, AppendJournal,
                RecordHistory, Reply, PostCommit, Exit
  <2> QED
    BY <1>1, <2>1, ApplierIssues, FreshKept
<1>2. ASSUME NEW w \in Writers, WriterStep(w)
      PROVE  IFresh'
  <2>1. UNCHANGED <<pc, calls, got, accepted, store, ch, replies, cur>>
    BY <1>2 DEF WriterStep, Lock, SetPostCommit, Close, CloseReturns, CloseTimesOut
  <2> QED
    BY <2>1, FreshKept DEF Issued, Answered, Elements
<1>3. CASE Crash
  <2>1. Issued' \subseteq Issued
    BY <1>3 DEF Crash, Issued, Answered, Elements
  <2>2. \A e \in Issued : e.client \in Clients
    BY IssuedType DEF ITypeOK, Entries
  <2> QED
    BY <1>3, <2>1, <2>2 DEF Crash, IFresh, Unsent, ITypeOK, TypeOK
<1>4. CASE UNCHANGED vars
  BY <1>4, FreshKept DEF vars, Issued, Answered, Elements
<1> QED
  BY <1>1, <1>2, <1>3, <1>4, ClientFresh DEF Next

\* A call that has not sent, or was refused, has no entry anywhere.
THEOREM IFreshCorrect == Spec => []IFresh
<1>1. Init => IFresh
  BY DEF Init, IFresh, Issued, Answered, Elements
<1> QED
  BY <1>1, StepFresh, ITypeCorrect, PTL DEF Spec

\* A call refused with ErrLogClosed has no entry, and never gets one.
THEOREM RefusalsLeaveNoTrace == Spec => []RefusedLeavesNoTrace
<1>1. ITypeOK /\ IFresh => RefusedLeavesNoTrace
  <2> SUFFICES ASSUME ITypeOK, IFresh, NEW c \in Clients, got[c] = "closed",
                      NEW e \in Elements(accepted) \cup Elements(store),
                      e.client = c, e.call = calls[c]
               PROVE  FALSE
    BY DEF RefusedLeavesNoTrace
  <2>1. e \in Issued /\ calls[c] \in Nat
    BY DEF Issued, ITypeOK, TypeOK
  <2> QED
    BY <2>1 DEF IFresh, Unsent
<1> QED
  BY <1>1, ITypeCorrect, IFreshCorrect, PTL

NoRepeat(s) == \A i, j \in 1..Len(s) : i # j => s[i] # s[j]
IOnce ==
  /\ NoRepeat(ch) /\ NoRepeat(store)
  /\ Elements(ch) \cap (Elements(store) \cup {cur}) = {}
  /\ apc \in {"task", "apply"} => cur \notin Elements(store)

\* Appending something new repeats nothing.
LEMMA NoRepeatAppend ==
  ASSUME NEW S, NEW s \in Seq(S), NEW e \in S, NoRepeat(s), e \notin Elements(s)
  PROVE  NoRepeat(Append(s, e))
BY DEF NoRepeat, Elements

\* Without its head a sequence repeats nothing, and the head is not in it.
LEMMA NoRepeatTail ==
  ASSUME NEW S, NEW s \in Seq(S), s # <<>>, NoRepeat(s)
  PROVE  NoRepeat(Tail(s)) /\ Head(s) \notin Elements(Tail(s))
<1>1. /\ Len(Tail(s)) = Len(s) - 1 /\ Head(s) = s[1] /\ Len(s) \in Nat \ {0}
      /\ \A i \in 1..Len(Tail(s)) : Tail(s)[i] = s[i + 1]
  OBVIOUS
<1>2. \A i \in 1..Len(Tail(s)) : i + 1 \in 1..Len(s) /\ i + 1 # 1
  BY <1>1
<1>3. ASSUME NEW i \in 1..Len(Tail(s)), NEW j \in 1..Len(Tail(s)), i # j
      PROVE  Tail(s)[i] # Tail(s)[j]
  <2>1. i + 1 # j + 1
    BY <1>3
  <2> QED
    BY <1>1, <1>2, <2>1 DEF NoRepeat
<1>4. \A i \in 1..Len(Tail(s)) : Tail(s)[i] # s[1]
  BY <1>1, <1>2 DEF NoRepeat
<1> QED
  BY <1>1, <1>3, <1>4 DEF NoRepeat, Elements

\* The entry a caller sends is not anywhere yet.
LEMMA SendsNewEntry ==
  ASSUME ITypeOK, IFresh, NEW c \in Clients, Send(c)
  PROVE  \E k \in Kinds :
           /\ Entry(c, k) \in Entries \ Issued
           /\ ch' = Append(ch, Entry(c, k))
           /\ accepted' = Append(accepted, Entry(c, k))
<1> PICK k \in Kinds : /\ ch' = Append(ch, Entry(c, k))
                       /\ accepted' = Append(accepted, Entry(c, k))
  BY DEF Send
<1>1. Entry(c, k) \in Entries /\ Entry(c, k).client = c /\ Entry(c, k).call = calls[c]
  BY DEF Send, Entry, Entries, ITypeOK, HasCall
<1>2. Unsent(c) /\ calls[c] \in Nat
  BY DEF Send, Unsent, ITypeOK, TypeOK
<1> QED
  BY <1>1, <1>2 DEF IFresh

\* An entry is on the channel, in the applier's hands or applied, and only moves on.
LEMMA StepOnce == ITypeOK /\ IFresh /\ IOnce /\ [Next]_vars => IOnce'
<1> SUFFICES ASSUME ITypeOK, IFresh, IOnce, [Next]_vars PROVE IOnce'
  OBVIOUS
<1> USE DEF logVars, clientVars, applierVars, diskVars, auxVars
<1>t. /\ ch \in Seq(Entries) /\ store \in Seq(Entries)
      /\ cur # NoOne => cur \in Entries
      /\ cur = NoOne <=> apc \in {"recv", "exited"}
  BY DEF ITypeOK, TypeOK
<1>e. NoOne \notin Elements(ch) /\ NoOne \notin Elements(store)
  BY <1>t, EntriesAssumption DEF Elements
<1>0. ASSUME UNCHANGED <<ch, store, cur>>, apc' \notin {"task", "apply"} \/ apc' = apc
      PROVE  IOnce'
  BY <1>0 DEF IOnce, NoRepeat, Elements
<1>1. ASSUME NEW c \in Clients, ClientStep(c) \/ Cancel(c)
      PROVE  IOnce'
  <2>1. CASE Send(c)
    <3> PICK k \in Kinds : /\ Entry(c, k) \in Entries \ Issued
                           /\ ch' = Append(ch, Entry(c, k))
      BY <2>1, SendsNewEntry
    <3>1. NoRepeat(ch') /\ Elements(ch') = Elements(ch) \cup {Entry(c, k)}
      <4>1. Entry(c, k) \notin Elements(ch)
        BY DEF Issued
      <4> QED
        BY <1>t, <4>1, NoRepeatAppend, ElementsAppend DEF IOnce
    <3>2. Entry(c, k) \notin Elements(store) /\ Entry(c, k) # cur
      BY EntriesAssumption DEF Issued
    <3>3. UNCHANGED <<store, cur, apc>>
      BY <2>1 DEF Send
    <3>4. NoRepeat(store') /\ Elements(store') = Elements(store)
      BY <3>3 DEF IOnce
    <3> QED
      BY <3>1, <3>2, <3>3, <3>4 DEF IOnce
  <2>2. CASE ~ Send(c)
    BY <1>0, <1>1, <2>2 DEF ClientStep, Call, Refuse, Admit, GiveUpSending, GiveUpWaiting,
                            Receive, Cancel, Return
  <2> QED
    BY <2>1, <2>2
<1>2. CASE ApplierStep
  <2>1. CASE Take
    <3>1. /\ ch # <<>> /\ ch' = Tail(ch) /\ cur' = Head(ch) /\ store' = store
      BY <2>1 DEF Take
    <3>2. NoRepeat(Tail(ch)) /\ Head(ch) \notin Elements(Tail(ch))
            /\ Elements(ch) = Elements(Tail(ch)) \cup {Head(ch)}
      BY <1>t, <3>1, NoRepeatTail, ElementsTail DEF IOnce
    <3>3. NoRepeat(ch') /\ NoRepeat(store') /\ Elements(store') = Elements(store)
            /\ Elements(ch') = Elements(Tail(ch))
      BY <3>1, <3>2 DEF IOnce
    <3> QED
      BY <3>1, <3>2, <3>3 DEF IOnce
  <2>2. CASE RunTask \/ Apply
    <3>1. cur \in Entries /\ cur \notin Elements(store)
      BY <2>2, <1>t DEF RunTask, Apply, IOnce
    <3>2. Elements(Append(store, cur)) = Elements(store) \cup {cur} /\ NoRepeat(Append(store, cur))
      BY <3>1, <1>t, ElementsAppend, NoRepeatAppend DEF IOnce
    <3>3. /\ store' \in {store, Append(store, cur)} /\ ch' = ch /\ cur' \in {cur, NoOne}
          /\ apc' \notin {"task", "apply"}
      BY <2>2 DEF RunTask, Apply, NextEntry
    <3>4. NoRepeat(store') /\ Elements(store') \subseteq Elements(store) \cup {cur}
      BY <3>2, <3>3 DEF IOnce
    <3>5. NoRepeat(ch') /\ Elements(ch') = Elements(ch)
      BY <3>3 DEF IOnce
    <3>6. Elements(store') \cup {cur'} \subseteq (Elements(store) \cup {cur}) \cup {NoOne}
      BY <3>3, <3>4
    <3>7. Elements(ch) \cap (Elements(store) \cup {cur}) = {}
      BY DEF IOnce
    <3>8. Elements(ch)' \cap (Elements(store)' \cup {cur'}) = {}
      <4>1. Elements(ch)' = Elements(ch') /\ Elements(store)' = Elements(store')
        BY DEF Elements
      <4> QED
        BY <4>1, <3>5, <3>6, <3>7, <1>e
    <3>9. NoRepeat(ch)' /\ NoRepeat(store)'
      BY <3>4, <3>5 DEF NoRepeat
    <3> QED
      BY <3>3, <3>8, <3>9 DEF IOnce
  <2>3. CASE PostCommit \/ Reply
    <3>1. UNCHANGED <<ch, store>> /\ cur' \in {cur, NoOne} /\ apc' \notin {"task", "apply"}
      BY <2>3 DEF PostCommit, Reply, NextEntry
    <3>2. /\ NoRepeat(ch)' = NoRepeat(ch) /\ NoRepeat(store)' = NoRepeat(store)
          /\ Elements(ch)' = Elements(ch) /\ Elements(store)' = Elements(store)
      BY <3>1 DEF NoRepeat, Elements
    <3> QED
      BY <3>1, <3>2, <1>e DEF IOnce
  <2>4. CASE QueueForLock \/ CommitState \/ AppendJournal \/ RecordHistory \/ Exit
    BY <1>0, <2>4 DEF QueueForLock, CommitState, AppendJournal, RecordHistory, Exit
  <2> QED
    BY <1>2, <2>1, <2>2, <2>3, <2>4 DEF ApplierStep
<1>3. ASSUME NEW w \in Writers, WriterStep(w)
      PROVE  IOnce'
  BY <1>0, <1>3 DEF WriterStep, Lock, SetPostCommit, Close, CloseReturns, CloseTimesOut
<1>4. CASE Crash
  BY <1>4 DEF Crash, IOnce, NoRepeat, Elements
<1>5. CASE UNCHANGED vars
  BY <1>0, <1>5 DEF vars
<1> QED
  BY <1>1, <1>2, <1>3, <1>4, <1>5 DEF Next

\* No entry is twice on the channel or in the substrate, or in both.
THEOREM IOnceCorrect == Spec => []IOnce
<1>1. Init => IOnce
  BY DEF Init, IOnce, NoRepeat, Elements
<1> QED
  BY <1>1, StepOnce, ITypeCorrect, IFreshCorrect, PTL DEF Spec

\* The substrate never gets an entry twice.
THEOREM EntriesApplyAtMostOnce == Spec => []AppliedAtMostOnce
<1>1. IOnce => AppliedAtMostOnce
  BY DEF IOnce, NoRepeat, AppliedAtMostOnce
<1> QED
  BY <1>1, IOnceCorrect, PTL

\* What callers are told is what happened (AnswersAreTrue): the three theorems
\* on acknowledged, refused and repeated entries together.
THEOREM AnswersHoldTrue == Spec => []AnswersAreTrue
  BY AcksAreDurable, RefusalsLeaveNoTrace, EntriesApplyAtMostOnce, PTL DEF AnswersAreTrue
-----------------------------------------------------------------------------
(* The records are in the order of the commits.  A recorder is given the   *)
(* entry last appended to the substrate, and has nothing as young before.  *)

Follows(s, t) == SameOrder(s, t) /\ Elements(s) \subseteq Elements(t)
Behind(s, t) == \A i \in 1..Len(s) : \E k \in 1..Len(t) : k < Len(t) /\ t[k] = s[i]
Last == store # <<>> /\ cur = store[Len(store)]
PostedEntries == [i \in 1..Len(posted) |-> posted[i][1]]
IOrder ==
  /\ Follows(journal, store) /\ Follows(history, store) /\ Follows(PostedEntries, store)
  /\ apc \in {"state", "journal"} => Last /\ Behind(journal, store)
  /\ apc \in {"state", "journal", "history"} => Last /\ Behind(history, store)
  /\ apc \in {"state", "journal", "history", "post"} => Last /\ Behind(PostedEntries, store)
  /\ apc = "reply" /\ cur \in Elements(store) => Last /\ Behind(PostedEntries, store)

\* The substrate growing disturbs no order, and leaves every record behind.
LEMMA GrowingStore ==
  ASSUME NEW S, NEW s \in Seq(S), NEW t \in Seq(S), NEW e \in S, Follows(s, t)
  PROVE  Follows(s, Append(t, e)) /\ Behind(s, Append(t, e))
<1> DEFINE u == Append(t, e)
<1>1. /\ Len(u) = Len(t) + 1 /\ Len(t) \in Nat /\ Len(s) \in Nat
      /\ \A k \in 1..Len(t) : u[k] = t[k] /\ k \in 1..Len(u) /\ k < Len(u)
  OBVIOUS
<1>2. SameOrder(s, u)
  BY <1>1 DEF SameOrder, Follows
<1>3. \A i \in 1..Len(s) : \E k \in 1..Len(t) : t[k] = s[i]
  BY DEF Follows, Elements
<1>4. Behind(s, u)
  BY <1>1, <1>3 DEF Behind
<1>5. Elements(s) \subseteq Elements(u)
  BY <1>1, <1>3 DEF Elements
<1> QED
  BY <1>2, <1>4, <1>5 DEF Follows

\* Recording the youngest commit keeps the order.
LEMMA RecordLast ==
  ASSUME NEW S, NEW s \in Seq(S), NEW t \in Seq(S), t # <<>>, NEW e, e = t[Len(t)],
         Follows(s, t), Behind(s, t)
  PROVE  Follows(Append(s, e), t)
<1> DEFINE r == Append(s, e)
<1>1. /\ Len(r) = Len(s) + 1 /\ Len(t) \in 1..Len(t) /\ Len(s) \in Nat /\ r[Len(s) + 1] = e
      /\ \A i \in 1..Len(s) : r[i] = s[i]
  OBVIOUS
<1>2. ASSUME NEW i \in 1..Len(r), NEW j \in 1..Len(r), i < j
      PROVE  \E k, l \in 1..Len(t) : k < l /\ r[i] = t[k] /\ r[j] = t[l]
  <2>1. i \in 1..Len(s)
    BY <1>1, <1>2
  <2>2. CASE j \in 1..Len(s)
    BY <1>1, <1>2, <2>1, <2>2 DEF Follows, SameOrder
  <2>3. CASE j = Len(s) + 1
    BY <1>1, <2>1, <2>3 DEF Behind
  <2> QED
    BY <1>1, <2>2, <2>3
<1>3. Elements(r) \subseteq Elements(t)
  BY <1>1 DEF Elements, Follows
<1> QED
  BY <1>2, <1>3 DEF Follows, SameOrder

\* A recorder is only ever given the youngest commit, which it does not have yet.
LEMMA StepOrder == ITypeOK /\ IOnce /\ IOrder /\ [Next]_vars => IOrder'
<1> SUFFICES ASSUME ITypeOK, IOnce, IOrder, [Next]_vars PROVE IOrder'
  OBVIOUS
<1> USE DEF logVars, clientVars, applierVars, diskVars, auxVars
<1>t. /\ store \in Seq(Entries) /\ journal \in Seq(Entries) /\ history \in Seq(Entries)
      /\ posted \in Seq(Entries \X (Setters \cup {NoOne}))
      /\ cur # NoOne => cur \in Entries
      /\ cur = NoOne <=> apc \in {"recv", "exited"}
  BY DEF ITypeOK, TypeOK
<1>p. PostedEntries \in Seq(Entries)
  <2>1. Len(posted) \in Nat /\ \A i \in 1..Len(posted) : posted[i][1] \in Entries
    BY <1>t
  <2> QED
    BY <2>1 DEF PostedEntries
<1>0. ASSUME UNCHANGED <<store, journal, history, posted, cur>>,
             apc' = apc \/ apc' \in {"recv", "exited", "task", "apply"}
      PROVE  IOrder'
  <2>1. PostedEntries' = PostedEntries /\ Elements(store') = Elements(store)
    BY <1>0 DEF PostedEntries, Elements
  <2> QED
    BY <1>0, <2>1 DEF IOrder, Last
<1>1. ASSUME NEW c \in Clients, ClientStep(c) \/ Cancel(c)
      PROVE  IOrder'
  BY <1>0, <1>1 DEF ClientStep, Call, Refuse, Admit, Send, GiveUpSending, GiveUpWaiting, Receive,
                    Cancel, Return
<1>2. CASE ApplierStep
  <2>1. CASE QueueForLock \/ Exit
    BY <1>0, <2>1 DEF QueueForLock, Exit
  <2>2. CASE Take
    <3>1. UNCHANGED <<store, journal, history, posted>> /\ apc' \in {"task", "apply"}
      BY <2>2 DEF Take
    <3>2. PostedEntries' = PostedEntries
      BY <3>1 DEF PostedEntries
    <3> QED
      BY <3>1, <3>2 DEF IOrder
  <2>3. CASE RunTask \/ Apply
    <3>1. cur \in Entries /\ cur \notin Elements(store)
      BY <2>3, <1>t DEF RunTask, Apply, IOnce
    <3>2. UNCHANGED <<journal, history, posted>> /\ PostedEntries' = PostedEntries
      BY <2>3 DEF RunTask, Apply, PostedEntries
    <3>3. CASE store' = Append(store, cur)
      <4>1. /\ Follows(journal, store') /\ Behind(journal, store')
            /\ Follows(history, store') /\ Behind(history, store')
            /\ Follows(PostedEntries, store') /\ Behind(PostedEntries, store')
        BY <1>t, <1>p, <3>1, <3>3, GrowingStore DEF IOrder
      <4>2. store' # <<>> /\ cur = store'[Len(store')]
        <5>1. /\ Len(store) \in Nat /\ Len(store') = Len(store) + 1
              /\ store'[Len(store) + 1] = cur
          BY <1>t, <3>1, <3>3
        <5>2. Len(<<>>) = 0
          OBVIOUS
        <5> QED
          BY <5>1, <5>2
      <4>3. /\ apc' \notin {"journal", "history", "post"}
            /\ apc' \in {"state", "reply"} => cur' = cur
        BY <2>3 DEF RunTask, Apply, NextEntry
      <4> QED
        BY <3>2, <4>1, <4>2, <4>3 DEF IOrder, Last
    <3>4. CASE store' = store
      <4>1. apc' = "recv" \/ (apc' = "reply" /\ cur' = cur) \/ store' = Append(store, cur)
        BY <2>3 DEF RunTask, Apply, NextEntry
      <4> QED
        BY <3>1, <3>2, <3>3, <3>4, <4>1 DEF IOrder, Elements
    <3> QED
      BY <2>3, <3>3, <3>4 DEF RunTask, Apply
  <2>4. CASE CommitState
    <3>1. UNCHANGED <<store, journal, history, posted, cur>> /\ apc = "state" /\ apc' = "journal"
      BY <2>4 DEF CommitState
    <3>2. PostedEntries' = PostedEntries
      BY <3>1 DEF PostedEntries
    <3> QED
      BY <3>1, <3>2 DEF IOrder, Last
  <2>5. CASE AppendJournal
    <3>1. /\ UNCHANGED <<store, history, posted, cur>> /\ apc = "journal" /\ apc' = "history"
          /\ journal' \in {journal, Append(journal, cur)}
      BY <2>5 DEF AppendJournal
    <3>2. Last /\ Follows(Append(journal, cur), store)
      BY <1>t, <3>1, RecordLast DEF IOrder, Last
    <3>3. PostedEntries' = PostedEntries /\ Follows(journal', store)
      BY <3>1, <3>2 DEF PostedEntries, IOrder
    <3> QED
      BY <3>1, <3>3 DEF IOrder, Last
  <2>6. CASE RecordHistory
    <3>1. /\ UNCHANGED <<store, journal, posted, cur>> /\ apc = "history" /\ apc' = "reply"
          /\ history' \in {history, Append(history, cur)}
      BY <2>6 DEF RecordHistory
    <3>2. Last /\ Follows(Append(history, cur), store)
      BY <1>t, <3>1, RecordLast DEF IOrder, Last
    <3>3. PostedEntries' = PostedEntries /\ Follows(history', store)
      BY <3>1, <3>2 DEF PostedEntries, IOrder
    <3> QED
      BY <3>1, <3>3 DEF IOrder, Last
  <2>7. CASE Reply
    <3>1. /\ UNCHANGED <<store, journal, history, posted>> /\ apc = "reply"
          /\ \/ apc' = "post" /\ cur' = cur /\ cur \in Elements(store)
             \/ apc' = "recv"
      BY <2>7 DEF Reply, NextEntry
    <3>2. PostedEntries' = PostedEntries
      BY <3>1 DEF PostedEntries
    <3> QED
      BY <3>1, <3>2 DEF IOrder, Last
  <2>8. CASE PostCommit
    <3>1. /\ UNCHANGED <<store, journal, history>> /\ apc = "post" /\ apc' = "recv"
          /\ posted' = Append(posted, <<cur, postCommit>>)
      BY <2>8 DEF PostCommit, NextEntry
    <3>2. cur \in Entries /\ Len(posted) \in Nat
      BY <3>1, <1>t
    <3>3. PostedEntries' = Append(PostedEntries, cur)
      <4>1. /\ Len(posted') = Len(posted) + 1
            /\ \A i \in 1..Len(posted) : posted'[i] = posted[i]
            /\ posted'[Len(posted) + 1] = <<cur, postCommit>>
        BY <3>1, <1>t
      <4>2. /\ Len(PostedEntries) = Len(posted)
            /\ \A i \in 1..Len(posted) : PostedEntries[i] = posted[i][1]
        BY <3>2 DEF PostedEntries
      <4>3. PostedEntries' = [i \in 1..(Len(posted) + 1) |-> posted'[i][1]]
        BY <4>1 DEF PostedEntries
      <4>4. /\ PostedEntries' \in Seq(Entries) /\ Append(PostedEntries, cur) \in Seq(Entries)
            /\ Len(PostedEntries') = Len(posted) + 1
            /\ Len(Append(PostedEntries, cur)) = Len(posted) + 1
            /\ \A i \in 1..Len(posted) : Append(PostedEntries, cur)[i] = posted[i][1]
            /\ Append(PostedEntries, cur)[Len(posted) + 1] = cur
        <5>0. \A i \in 1..Len(posted) : posted[i] \in Entries \X (Setters \cup {NoOne})
          BY <1>t
        <5>1. \A i \in 1..(Len(posted) + 1) : posted'[i][1] \in Entries
          BY <5>0, <3>2, <4>1
        <5> QED
          BY <5>1, <4>2, <4>3, <3>2, <1>p
      <4>5. \A i \in 1..(Len(posted) + 1) : PostedEntries'[i] = Append(PostedEntries, cur)[i]
        BY <4>1, <4>3, <4>4, <3>2
      <4> QED
        BY <4>4, <4>5, SeqEqual
    <3>4. Last /\ Follows(Append(PostedEntries, cur), store)
      BY <1>t, <1>p, <3>1, RecordLast DEF IOrder, Last
    <3> QED
      BY <3>1, <3>3, <3>4 DEF IOrder
  <2> QED
    BY <1>2, <2>1, <2>2, <2>3, <2>4, <2>5, <2>6, <2>7, <2>8 DEF ApplierStep
<1>3. ASSUME NEW w \in Writers, WriterStep(w)
      PROVE  IOrder'
  BY <1>0, <1>3 DEF WriterStep, Lock, SetPostCommit, Close, CloseReturns, CloseTimesOut
<1>4. CASE Crash
  <2>1. /\ UNCHANGED <<store, journal, history>> /\ apc' = "recv" /\ posted' = <<>>
    BY <1>4 DEF Crash
  <2>2. PostedEntries' = <<>> /\ Follows(<<>>, store)
    BY <2>1 DEF PostedEntries, Follows, SameOrder, Elements
  <2> QED
    BY <2>1, <2>2 DEF IOrder
<1>5. CASE UNCHANGED vars
  BY <1>0, <1>5 DEF vars
<1> QED
  BY <1>1, <1>2, <1>3, <1>4, <1>5 DEF Next

\* Each recorder is in the substrate's order, and behind it until it has the
\* entry the applier works on.
THEOREM IOrderCorrect == Spec => []IOrder
<1>1. Init => IOrder
  BY DEF Init, IOrder, Follows, SameOrder, Elements, PostedEntries
<1> QED
  BY <1>1, StepOrder, ITypeCorrect, IOnceCorrect, PTL DEF Spec

\* The journal, the history and the post-commit chain see the commits in the
\* order of the substrate, also across crashes.
THEOREM RecordsAreInOrder == Spec => []RecordsFollowCommits
<1>1. IOrder => RecordsFollowCommits
  BY DEF IOrder, Follows, PostedEntries, RecordsFollowCommits
<1> QED
  BY <1>1, IOrderCorrect, PTL
-----------------------------------------------------------------------------
(* What was accepted is followed up.  The entries accepted since the start  *)
(* are, in order: the settled ones, the one the applier works on, and the   *)
(* ones on the channel.                                                     *)

Taken == Len(accepted) - Len(ch)
Posted(e) == \E n \in 1..Len(posted) : posted[n][1] = e
Settled(e) ==
  e \in Answered /\ (e.kind = "change" /\ e \in Elements(store) => Posted(e))

IQueue ==
  /\ Len(ch) <= Len(accepted)
  /\ \A k \in 1..Len(ch) : ch[k] = accepted[Taken + k]
  /\ cur # NoOne => Taken >= 1 /\ cur = accepted[Taken]
  /\ NoRepeat(accepted)
IWaiting == \A k \in 1..Len(accepted) : k > Taken => accepted[k] \notin Answered
ISettled ==
  \A k \in 1..Len(accepted) :
    k < Taken \/ (k = Taken /\ cur = NoOne) => Settled(accepted[k])
IEnds ==
  /\ apc = "post" => cur \in Answered
  /\ apc = "task" => cur.kind = "task"
  /\ apc = "exited" => closed /\ ch = <<>>
  /\ \A w \in Closers : wpc[w] = "done" => apc = "exited"
IFlow == IQueue /\ IWaiting /\ ISettled /\ IEnds

\* The indices below are those of sequences of entries.
LEMMA FlowTypes ==
  ASSUME TypeOK
  PROVE  /\ ch \in Seq(Entries) /\ accepted \in Seq(Entries) /\ store \in Seq(Entries)
         /\ Len(ch) \in Nat /\ Len(accepted) \in Nat /\ Taken \in Int
         /\ cur # NoOne => cur \in Entries
         /\ cur = NoOne <=> apc \in {"recv", "exited"}
<1>1. /\ ch \in Seq(Entries) /\ accepted \in Seq(Entries) /\ store \in Seq(Entries)
      /\ cur # NoOne => cur \in Entries
      /\ cur = NoOne <=> apc \in {"recv", "exited"}
  BY DEF TypeOK
<1> QED
  BY <1>1 DEF Taken

\* Once settled, an entry stays so while the substrate gets at most other ones.
LEMMA StaysSettled ==
  ASSUME NEW e, Settled(e), Answered \subseteq Answered',
         e \in Elements(store)' => e \in Elements(store), Posted(e) => Posted(e)'
  PROVE  Settled(e)'
BY DEF Settled

\* A step that moves no entry and settles none.
LEMMA FlowKept ==
  ASSUME TypeOK, IFlow, UNCHANGED <<ch, accepted, cur, replies, posted>>,
         \A k \in 1..Len(accepted) :
            k < Taken \/ (k = Taken /\ cur = NoOne) =>
              (accepted[k] \in Elements(store)' => accepted[k] \in Elements(store))
  PROVE  IQueue' /\ IWaiting' /\ ISettled'
<1>1. Taken' = Taken /\ Answered' = Answered
  BY DEF Taken, Answered
<1>2. IQueue' /\ IWaiting'
  BY <1>1 DEF IFlow, IQueue, IWaiting, NoRepeat
<1>3. \A e : Posted(e) => Posted(e)'
  BY DEF Posted
<1>4. ISettled'
  BY <1>1, <1>3, StaysSettled DEF IFlow, ISettled
<1> QED
  BY <1>2, <1>4

\* A new entry goes to the end of both, and nobody has answered it.
LEMMA SendFlow ==
  ASSUME ITypeOK, IFresh, NoSendOnClosedChannel, IFlow, NEW c \in Clients, Send(c)
  PROVE  IFlow'
<1> PICK k \in Kinds : /\ Entry(c, k) \in Entries \ Issued
                       /\ ch' = Append(ch, Entry(c, k))
                       /\ accepted' = Append(accepted, Entry(c, k))
  BY SendsNewEntry
<1> DEFINE e == Entry(c, k)
<1> HIDE DEF e
<1>e. /\ e \in Entries /\ e \notin Elements(accepted) /\ e \notin Answered
      /\ ch' = Append(ch, e) /\ accepted' = Append(accepted, e)
  BY DEF e, Issued
<1>t. /\ ch \in Seq(Entries) /\ accepted \in Seq(Entries)
      /\ Len(ch) \in Nat /\ Len(accepted) \in Nat
  BY FlowTypes DEF ITypeOK
<1>u. UNCHANGED <<cur, replies, posted, store, apc, closed, wpc>>
  BY DEF Send, applierVars, diskVars
<1>1. /\ Len(ch') = Len(ch) + 1 /\ Len(accepted') = Len(accepted) + 1
      /\ \A i \in 1..Len(ch) : ch'[i] = ch[i]
      /\ \A i \in 1..Len(accepted) : accepted'[i] = accepted[i]
      /\ ch'[Len(ch) + 1] = e /\ accepted'[Len(accepted) + 1] = e
  BY <1>e, <1>t
<1>2. Taken' = Taken /\ Taken \in Nat /\ Taken <= Len(accepted)
  BY <1>t, <1>1 DEF Taken, IFlow, IQueue
<1>3. Answered' = Answered /\ Elements(store)' = Elements(store) /\ (\A d : Posted(d)' = Posted(d))
  BY <1>u DEF Answered, Elements, Posted
<1>4. IQueue'
  <2>1. NoRepeat(accepted)'
    BY <1>e, <1>t, NoRepeatAppend DEF IFlow, IQueue, NoRepeat
  <2>2. ASSUME NEW i \in 1..Len(ch')
        PROVE  ch'[i] = accepted'[Taken + i]
    <3>1. CASE i \in 1..Len(ch)
      <4>1. Taken + i \in 1..Len(accepted)
        BY <1>t, <1>2, <3>1 DEF Taken
      <4> QED
        BY <1>1, <3>1, <4>1 DEF IFlow, IQueue
    <3>2. CASE i = Len(ch) + 1
      <4>1. Taken + i = Len(accepted) + 1
        BY <1>t, <3>2 DEF Taken
      <4> QED
        BY <1>1, <3>2, <4>1
    <3>3. i \in 1..(Len(ch) + 1)
      BY <1>1
    <3>4. i \in 1..Len(ch) \/ i = Len(ch) + 1
      BY <1>t, <3>3
    <3> QED
      BY <3>1, <3>2, <3>4
  <2>3. cur' # NoOne => Taken >= 1 /\ cur' = accepted'[Taken]
    BY <1>t, <1>u, <1>1, <1>2 DEF IFlow, IQueue
  <2>4. Len(ch') <= Len(accepted')
    BY <1>t, <1>1 DEF IFlow, IQueue
  <2> QED
    BY <1>2, <2>1, <2>2, <2>3, <2>4 DEF IQueue
<1>5. IWaiting'
  <2> SUFFICES ASSUME NEW i \in 1..Len(accepted'), i > Taken
               PROVE  accepted'[i] \notin Answered
    BY <1>2, <1>3 DEF IWaiting
  <2>1. CASE i \in 1..Len(accepted)
    BY <1>1, <2>1 DEF IFlow, IWaiting
  <2>2. CASE i = Len(accepted) + 1
    BY <1>e, <1>1, <2>2
  <2> QED
    BY <1>t, <1>1, <2>1, <2>2
<1>6. ISettled'
  <2> SUFFICES ASSUME NEW i \in 1..Len(accepted'), i < Taken \/ (i = Taken /\ cur = NoOne)
               PROVE  Settled(accepted[i])'
    BY <1>u, <1>2 DEF ISettled
  <2>1. i \in 1..Len(accepted)
    BY <1>t, <1>1, <1>2
  <2>2. Settled(accepted[i]) /\ accepted'[i] = accepted[i]
    BY <1>1, <2>1 DEF IFlow, ISettled
  <2> QED
    BY <1>u, <2>2 DEF Settled, Posted, Answered, Elements
<1>7. IEnds'
  <2>1. ~ closed
    BY DEF NoSendOnClosedChannel, Send
  <2>2. apc # "exited"
    BY <2>1 DEF IFlow, IEnds
  <2> QED
    BY <1>u, <1>3, <2>2 DEF IFlow, IEnds
<1> QED
  BY <1>4, <1>5, <1>6, <1>7 DEF IFlow

\* Taking the head moves the boundary by one; all before it was settled.
LEMMA TakeFlow ==
  ASSUME ITypeOK, IFlow, Take
  PROVE  IFlow'
<1>t. /\ ch \in Seq(Entries) /\ accepted \in Seq(Entries)
      /\ Len(ch) \in Nat /\ Len(accepted) \in Nat
      /\ cur = NoOne
  BY FlowTypes DEF ITypeOK, Take
<1>u. /\ UNCHANGED <<accepted, replies, posted, store, wpc>>
      /\ ch # <<>> /\ ch' = Tail(ch) /\ cur' = Head(ch)
      /\ apc' = (IF Head(ch).kind = "task" THEN "task" ELSE "apply")
      /\ apc = "recv"
  BY DEF Take, diskVars, auxVars
<1>1. /\ Len(ch) >= 1 /\ Len(ch') = Len(ch) - 1 /\ cur' = ch[1]
      /\ \A i \in 1..Len(ch') : ch'[i] = ch[i + 1]
  BY <1>t, <1>u
<1>2. /\ Taken' = Taken + 1 /\ Taken \in Nat /\ Taken + 1 <= Len(accepted)
      /\ Taken + 1 \in 1..Len(accepted)
  BY <1>t, <1>u, <1>1 DEF Taken, IFlow, IQueue
<1>3. IQueue'
  <2>1. ASSUME NEW i \in 1..Len(ch')
        PROVE  ch'[i] = accepted[Taken + 1 + i]
    <3>1. i + 1 \in 1..Len(ch) /\ Taken + (i + 1) = Taken + 1 + i
      BY <1>t, <1>1, <1>2
    <3> QED
      BY <1>1, <3>1 DEF IFlow, IQueue
  <2>2. cur' = accepted[Taken + 1]
    BY <1>t, <1>1 DEF IFlow, IQueue
  <2>3. Len(ch') <= Len(accepted) /\ NoRepeat(accepted)'
    BY <1>t, <1>u, <1>1 DEF IFlow, IQueue, NoRepeat
  <2> QED
    BY <1>u, <1>2, <2>1, <2>2, <2>3 DEF IQueue
<1>4. IWaiting'
  BY <1>t, <1>u, <1>2 DEF IFlow, IWaiting, Answered
<1>5. ISettled'
  <2> SUFFICES ASSUME NEW i \in 1..Len(accepted), i < Taken + 1 \/ (i = Taken + 1 /\ cur' = NoOne)
               PROVE  Settled(accepted[i])'
    BY <1>u, <1>2 DEF ISettled
  <2>1. cur' # NoOne
    <3>1. ch[1] \in Entries
      BY <1>t, <1>1
    <3> QED
      BY <1>1, <3>1, EntriesAssumption
  <2>2. i < Taken \/ i = Taken
    BY <1>2, <2>1
  <2>3. Settled(accepted[i])
    BY <1>t, <2>2 DEF IFlow, ISettled
  <2> QED
    BY <1>u, <2>3 DEF Settled, Posted, Answered, Elements
<1>6. IEnds'
  <2>1. \A w \in Closers : wpc'[w] # "done"
    BY <1>u DEF IFlow, IEnds
  <2>2. apc' \notin {"post", "exited"} /\ (apc' = "task" => cur'.kind = "task")
    BY <1>u
  <2> QED
    BY <1>u, <2>1, <2>2 DEF IEnds
<1> QED
  BY <1>3, <1>4, <1>5, <1>6 DEF IFlow

\* Before the entry in hand everything is settled, and it is none of them.
LEMMA InHand ==
  ASSUME TypeOK, IFlow, cur # NoOne
  PROVE  /\ Taken \in 1..Len(accepted) /\ cur = accepted[Taken] /\ cur \in Entries
         /\ \A k \in 1..Len(accepted) : k < Taken => Settled(accepted[k])
         /\ \A k \in 1..Len(accepted) : k # Taken => accepted[k] # cur
<1>1. /\ Len(ch) \in Nat /\ Len(accepted) \in Nat /\ cur \in Entries
  BY FlowTypes
<1>2. Taken \in 1..Len(accepted) /\ cur = accepted[Taken]
  BY <1>1 DEF IFlow, IQueue, Taken
<1>3. \A k \in 1..Len(accepted) : k # Taken => accepted[k] # cur
  BY <1>2 DEF IFlow, IQueue, NoRepeat
<1> QED
  BY <1>1, <1>2, <1>3 DEF IFlow, ISettled

\* Applying or recording the entry in hand: only it can come to the substrate.
LEMMA WorkFlow ==
  ASSUME ITypeOK, IFlow, QueueForLock \/ Apply \/ CommitState \/ AppendJournal \/ RecordHistory
  PROVE  IFlow'
<1>t. store \in Seq(Entries) /\ TypeOK
  BY DEF ITypeOK, TypeOK
<1>u. /\ UNCHANGED <<ch, accepted, cur, replies, posted, wpc>>
      /\ apc \in {"apply", "state", "journal", "history", "post"} /\ apc' \in {apc, "state", "journal", "history", "reply"}
      /\ store' = store \/ store' = Append(store, cur)
  <2>1. CASE QueueForLock
    BY <2>1 DEF QueueForLock, applierVars, diskVars, auxVars
  <2>2. CASE Apply
    BY <2>2 DEF Apply, auxVars
  <2>3. CASE CommitState
    BY <2>3 DEF CommitState, auxVars, diskVars
  <2>4. CASE AppendJournal \/ RecordHistory
    BY <2>4 DEF AppendJournal, RecordHistory, auxVars, logVars
  <2> QED
    BY <2>1, <2>2, <2>3, <2>4
<1>c. cur # NoOne /\ cur \in Entries
  BY <1>t, <1>u, FlowTypes
<1>1. Elements(store') \subseteq Elements(store) \cup {cur}
  <2>1. Elements(Append(store, cur)) = Elements(store) \cup {cur}
    BY <1>t, <1>c, ElementsAppend
  <2> QED
    BY <1>u, <2>1
<1>2. Elements(store)' = Elements(store')
  BY DEF Elements
<1>3. ASSUME NEW k \in 1..Len(accepted), k < Taken \/ (k = Taken /\ cur = NoOne),
             accepted[k] \in Elements(store)'
      PROVE  accepted[k] \in Elements(store)
  <2>1. accepted[k] # cur
    BY <1>t, <1>c, <1>3, InHand
  <2> QED
    BY <1>1, <1>2, <1>3, <2>1
<1>4. IQueue' /\ IWaiting' /\ ISettled'
  BY <1>t, <1>u, <1>3, FlowKept
<1>5. IEnds'
  <2>1. apc' \notin {"task", "exited"} /\ apc # "exited" /\ (apc' = "post" => apc = "post")
    BY <1>u
  <2>2. Answered' = Answered
    BY <1>u DEF Answered
  <2> QED
    BY <1>u, <2>1, <2>2 DEF IFlow, IEnds
<1> QED
  BY <1>4, <1>5 DEF IFlow

\* An answer adds its entry to the answered ones.
LEMMA AnsweredOneMore ==
  ASSUME NEW a, replies' = replies \cup {<<cur, a>>}
  PROVE  Answered' = Answered \cup {cur}
<1>1. <<cur, a>>[1] = cur
  OBVIOUS
<1>2. {r[1] : r \in replies \cup {<<cur, a>>}} = {r[1] : r \in replies} \cup {<<cur, a>>[1]}
  OBVIOUS
<1> QED
  BY <1>1, <1>2 DEF Answered

\* A task leaves the applier as it is answered.
LEMMA TaskFlow ==
  ASSUME ITypeOK, IFlow, RunTask
  PROVE  IFlow'
<1>t. store \in Seq(Entries) /\ TypeOK
  BY DEF ITypeOK, TypeOK
<1>u. /\ UNCHANGED <<ch, accepted, posted, wpc>> /\ apc = "task" /\ apc' = "recv" /\ cur' = NoOne
      /\ store' = store \/ store' = Append(store, cur)
      /\ replies' = replies \cup {<<cur, "ok">>} \/ replies' = replies \cup {<<cur, "err">>}
  BY DEF RunTask, NextEntry, logVars, auxVars
<1>a. Answered' = Answered \cup {cur}
  BY <1>u, AnsweredOneMore
<1>c. cur # NoOne /\ cur \in Entries
  BY <1>t, <1>u, FlowTypes
<1>h. /\ Taken \in 1..Len(accepted) /\ cur = accepted[Taken]
      /\ \A k \in 1..Len(accepted) : k < Taken => Settled(accepted[k])
      /\ \A k \in 1..Len(accepted) : k # Taken => accepted[k] # cur
  BY <1>t, <1>c, InHand
<1>1. Elements(store)' \subseteq Elements(store) \cup {cur}
  <2>1. Elements(Append(store, cur)) = Elements(store) \cup {cur}
    BY <1>t, <1>c, ElementsAppend
  <2>2. Elements(store)' = Elements(store')
    BY DEF Elements
  <2> QED
    BY <1>u, <2>1, <2>2
<1>2. Taken' = Taken
  BY <1>u DEF Taken
<1>3. IQueue' /\ IWaiting'
  <2>1. IQueue'
    BY <1>u, <1>2 DEF IFlow, IQueue, NoRepeat
  <2>2. IWaiting'
    BY <1>u, <1>a, <1>2, <1>h DEF IFlow, IWaiting
  <2> QED
    BY <2>1, <2>2
<1>4. ISettled'
  <2> SUFFICES ASSUME NEW i \in 1..Len(accepted), i < Taken \/ i = Taken
               PROVE  Settled(accepted[i])'
    BY <1>u, <1>2 DEF ISettled
  <2>1. CASE i < Taken
    <3>1. Settled(accepted[i]) /\ accepted[i] # cur
      BY <1>h, <2>1
    <3> QED
      BY <1>u, <1>a, <1>1, <3>1 DEF Settled, Posted
  <2>2. CASE i = Taken
    <3>1. accepted[i] = cur /\ cur.kind = "task"
      BY <1>u, <1>h, <2>2 DEF IFlow, IEnds
    <3> QED
      BY <1>u, <1>a, <3>1 DEF Settled
  <2> QED
    BY <2>1, <2>2
<1>5. IEnds'
  BY <1>u, <1>a DEF IFlow, IEnds
<1> QED
  BY <1>3, <1>4, <1>5 DEF IFlow

\* The answer of a change: one that was not applied is settled with it, one that
\* was applied is still to pass the chain.
LEMMA ReplyFlow ==
  ASSUME ITypeOK, IFlow, Reply
  PROVE  IFlow'
<1>t. TypeOK
  BY DEF ITypeOK
<1>u. /\ UNCHANGED <<ch, accepted, posted, store, wpc>> /\ apc = "reply"
      /\ replies' = replies \cup {<<cur, outcome>>}
      /\ \/ cur \in Elements(store) /\ apc' = "post" /\ cur' = cur
         \/ cur \notin Elements(store) /\ apc' = "recv" /\ cur' = NoOne
  BY DEF Reply, NextEntry, logVars, auxVars, diskVars
<1>a. Answered' = Answered \cup {cur} /\ Elements(store)' = Elements(store)
  BY <1>u, AnsweredOneMore DEF Elements
<1>c. cur # NoOne
  BY <1>t, <1>u, FlowTypes
<1>h. /\ Taken \in 1..Len(accepted) /\ cur = accepted[Taken]
      /\ \A k \in 1..Len(accepted) : k < Taken => Settled(accepted[k])
      /\ \A k \in 1..Len(accepted) : k # Taken => accepted[k] # cur
  BY <1>t, <1>c, InHand
<1>2. Taken' = Taken
  BY <1>u DEF Taken
<1>3. IQueue' /\ IWaiting'
  <2>1. IQueue'
    BY <1>u, <1>2 DEF IFlow, IQueue, NoRepeat
  <2>2. IWaiting'
    BY <1>u, <1>a, <1>2, <1>h DEF IFlow, IWaiting
  <2> QED
    BY <2>1, <2>2
<1>4. ISettled'
  <2> SUFFICES ASSUME NEW i \in 1..Len(accepted), i < Taken \/ (i = Taken /\ cur' = NoOne)
               PROVE  Settled(accepted[i])'
    BY <1>u, <1>2 DEF ISettled
  <2>1. CASE i < Taken
    <3>1. Settled(accepted[i])
      BY <1>h, <2>1
    <3> QED
      BY <1>u, <1>a, <3>1 DEF Settled, Posted
  <2>2. CASE i = Taken /\ cur' = NoOne
    <3>1. accepted[i] = cur /\ cur \notin Elements(store)
      BY <1>u, <1>c, <1>h, <2>2
    <3> QED
      BY <1>u, <1>a, <3>1 DEF Settled
  <2> QED
    BY <2>1, <2>2
<1>5. IEnds'
  BY <1>u, <1>a DEF IFlow, IEnds
<1> QED
  BY <1>3, <1>4, <1>5 DEF IFlow

\* The run of the post-commit chain settles the entry in hand.
LEMMA PostFlow ==
  ASSUME ITypeOK, IFlow, PostCommit
  PROVE  IFlow'
<1>t. TypeOK /\ posted \in Seq(Entries \X (Setters \cup {NoOne}))
        /\ postCommit \in Setters \cup {NoOne}
  BY DEF ITypeOK, TypeOK
<1>u. /\ UNCHANGED <<ch, accepted, replies, store, wpc>> /\ apc = "post" /\ apc' = "recv"
      /\ cur' = NoOne /\ posted' = Append(posted, <<cur, postCommit>>)
  BY DEF PostCommit, NextEntry, diskVars
<1>c. cur # NoOne /\ cur \in Entries /\ cur \in Answered
  BY <1>t, <1>u, FlowTypes DEF IFlow, IEnds
<1>h. /\ Taken \in 1..Len(accepted) /\ cur = accepted[Taken]
      /\ \A k \in 1..Len(accepted) : k < Taken => Settled(accepted[k])
  BY <1>t, <1>c, InHand
<1>1. Answered' = Answered /\ Elements(store)' = Elements(store) /\ Taken' = Taken
  BY <1>u DEF Answered, Elements, Taken
<1>2. /\ Len(posted') = Len(posted) + 1 /\ Len(posted) \in Nat
      /\ \A n \in 1..Len(posted) : posted'[n] = posted[n]
      /\ posted'[Len(posted) + 1] = <<cur, postCommit>>
  <2>1. <<cur, postCommit>> \in Entries \X (Setters \cup {NoOne})
    BY <1>t, <1>c
  <2> QED
    BY <1>t, <1>u, <2>1
<1>3. \E n \in 1..Len(posted') : posted'[n][1] = cur
  <2>1. Len(posted) + 1 \in 1..Len(posted')
    BY <1>2
  <2> QED
    BY <1>2, <2>1
<1>4. ASSUME NEW e, \E n \in 1..Len(posted) : posted[n][1] = e
      PROVE  \E n \in 1..Len(posted') : posted'[n][1] = e
  <2>1. PICK n \in 1..Len(posted) : posted[n][1] = e
    BY <1>4
  <2>2. n \in 1..Len(posted') /\ posted'[n] = posted[n]
    BY <1>2
  <2> QED
    BY <2>1, <2>2
<1>5. IQueue' /\ IWaiting'
  BY <1>u, <1>1 DEF IFlow, IQueue, IWaiting, NoRepeat
<1>6. ISettled'
  <2> SUFFICES ASSUME NEW i \in 1..Len(accepted), i < Taken \/ i = Taken
               PROVE  Settled(accepted[i])'
    BY <1>u, <1>1 DEF ISettled
  <2>1. CASE i < Taken
    <3>1. Settled(accepted[i])
      BY <1>h, <2>1
    <3> QED
      BY <1>u, <1>1, <1>4, <3>1 DEF Settled, Posted
  <2>2. CASE i = Taken
    <3>1. accepted[i] = cur
      BY <1>h, <2>2
    <3> QED
      BY <1>u, <1>c, <1>1, <1>3, <3>1 DEF Settled, Posted
  <2> QED
    BY <2>1, <2>2
<1>7. IEnds'
  BY <1>u DEF IFlow, IEnds
<1> QED
  BY <1>5, <1>6, <1>7 DEF IFlow

\* The steps of the callers, setters and closers that leave the entries alone.
LEMMA AsideFlow ==
  ASSUME ITypeOK, IFlow, UNCHANGED <<ch, accepted, cur, replies, posted, store>>,
         apc' = apc \/ (apc' = "exited" /\ closed /\ ch = <<>>),
         closed => closed',
         \A w \in Closers : wpc'[w] = "done" => wpc[w] = "done" \/ apc = "exited"
  PROVE  IFlow'
<1>1. Elements(store)' = Elements(store) /\ Answered' = Answered
  BY DEF Elements, Answered
<1>2. IQueue' /\ IWaiting' /\ ISettled'
  BY <1>1, FlowKept DEF ITypeOK
<1>3. IEnds'
  <2>1. \A w \in Closers : wpc'[w] = "done" => apc' = "exited"
    BY DEF IFlow, IEnds
  <2>2. apc' = "exited" => closed' /\ ch' = <<>>
    BY DEF IFlow, IEnds
  <2> QED
    BY <1>1, <2>1, <2>2 DEF IFlow, IEnds
<1> QED
  BY <1>2, <1>3 DEF IFlow

\* After a crash nothing has been accepted.
LEMMA CrashFlow ==
  ASSUME Crash
  PROVE  IFlow'
<1>1. /\ ch' = <<>> /\ accepted' = <<>> /\ cur' = NoOne /\ apc' = "recv"
      /\ \A w \in Closers : wpc'[w] = "idle"
  BY DEF Crash, Writers
<1>2. Len(<<>>) = 0 /\ 1..0 = {}
  OBVIOUS
<1>3. IQueue' /\ IWaiting' /\ ISettled'
  BY <1>1, <1>2 DEF IQueue, IWaiting, ISettled, NoRepeat
<1>4. IEnds'
  BY <1>1 DEF IEnds
<1> QED
  BY <1>3, <1>4 DEF IFlow

\* Every step keeps the queue and what lies behind it.
LEMMA StepFlow ==
  ITypeOK /\ IFresh /\ NoSendOnClosedChannel /\ IFlow /\ [Next]_vars => IFlow'
<1> SUFFICES ASSUME ITypeOK, IFresh, NoSendOnClosedChannel, IFlow, [Next]_vars PROVE IFlow'
  OBVIOUS
<1>1. ASSUME NEW c \in Clients, ClientStep(c) \/ Cancel(c)
      PROVE  IFlow'
  <2>1. CASE Send(c)
    BY <2>1, SendFlow
  <2>2. CASE ~ Send(c)
    <3>1. UNCHANGED <<ch, accepted, cur, replies, posted, store, apc, closed, wpc>>
      BY <1>1, <2>2 DEF ClientStep, Call, Refuse, Admit, GiveUpSending, GiveUpWaiting, Receive,
           Cancel, Return, logVars, applierVars, diskVars, auxVars
    <3> QED
      BY <3>1, AsideFlow
  <2> QED
    BY <2>1, <2>2
<1>2. CASE ApplierStep
  <2>1. CASE Exit
    <3>1. /\ UNCHANGED <<ch, accepted, cur, replies, posted, store, closed, wpc>>
          /\ apc' = "exited" /\ closed /\ ch = <<>>
      BY <2>1 DEF Exit, logVars, diskVars, auxVars
    <3> QED
      BY <3>1, AsideFlow
  <2> QED
    BY <1>2, <2>1, TakeFlow, TaskFlow, WorkFlow, ReplyFlow, PostFlow DEF ApplierStep
<1>3. ASSUME NEW w \in Writers, WriterStep(w)
      PROVE  IFlow'
  <2>t. wpc \in [Writers -> {"idle", "locking", "draining", "joining", "done", "timedout"}]
    BY DEF ITypeOK, TypeOK
  <2>1. /\ UNCHANGED <<ch, accepted, cur, replies, posted, store, apc>>
        /\ closed => closed'
    BY <1>3 DEF WriterStep, Lock, SetPostCommit, Close, CloseReturns, CloseTimesOut, logVars,
         applierVars, diskVars, auxVars
  <2>2. ASSUME NEW v \in Closers, wpc'[v] = "done"
        PROVE  wpc[v] = "done" \/ apc = "exited"
    <3>1. CASE SetPostCommit(w) /\ w \in Setters
      <4>1. v # w /\ wpc' = [wpc EXCEPT ![w] = "done"]
        BY <3>1, ProcsAssumption DEF SetPostCommit
      <4> QED
        BY <2>2, <2>t, <4>1
    <3>2. CASE Lock(w) \/ CloseTimesOut(w)
      <4>1. v \in Writers
        BY DEF Writers
      <4>2. \/ wpc' = [wpc EXCEPT ![w] = "locking"]
            \/ wpc' = [wpc EXCEPT ![w] = "timedout"]
        BY <3>2 DEF Lock, CloseTimesOut
      <4> QED
        BY <2>2, <2>t, <4>1, <4>2
    <3>3. CASE Close(w)
      BY <2>2, <2>t, <3>3 DEF Close
    <3>4. CASE CloseReturns(w)
      BY <3>4 DEF CloseReturns
    <3> QED
      BY <1>3, <3>1, <3>2, <3>3, <3>4 DEF WriterStep
  <2> QED
    BY <2>1, <2>2, AsideFlow
<1>4. CASE Crash
  BY <1>4, CrashFlow
<1>5. CASE UNCHANGED vars
  <2>1. UNCHANGED <<ch, accepted, cur, replies, posted, store, apc, closed, wpc>>
    BY <1>5 DEF vars, logVars, applierVars, diskVars, auxVars
  <2> QED
    BY <2>1, AsideFlow
<1> QED
  BY <1>1, <1>2, <1>3, <1>4, <1>5 DEF Next

\* The accepted entries are the settled ones, the one in hand, the channel.
THEOREM IFlowCorrect == Spec => []IFlow
<1>1. Init => IFlow
  <2> SUFFICES ASSUME Init PROVE IFlow
    OBVIOUS
  <2>1. /\ ch = <<>> /\ accepted = <<>> /\ cur = NoOne /\ apc = "recv"
        /\ \A w \in Closers : wpc[w] = "idle"
    BY DEF Init, Writers
  <2>2. Len(<<>>) = 0 /\ 1..0 = {}
    OBVIOUS
  <2> QED
    BY <2>1, <2>2 DEF IFlow, IQueue, IWaiting, ISettled, IEnds, NoRepeat
<1> QED
  BY <1>1, StepFlow, ITypeCorrect, IFreshCorrect, NeverSendsOnClosedChannel, PTL DEF Spec

\* Every accepted entry is answered and every commit passes the post-commit
\* chain: before any later entry is answered, and before the applier exits.
THEOREM CommitsAreFollowedUp == Spec => []CommitsAreFollowed
<1>1. TypeOK /\ IFlow => DrainedOnExit
  <2> SUFFICES ASSUME TypeOK, IFlow, apc = "exited" \/ \E w \in Closers : wpc[w] = "done",
                      NEW e \in Elements(accepted)
               PROVE  Settled(e)
    BY DEF DrainedOnExit, Settled, Posted
  <2>1. apc = "exited" /\ ch = <<>> /\ cur = NoOne
    BY FlowTypes DEF IFlow, IEnds
  <2>2. Taken = Len(accepted) /\ Len(accepted) \in Nat
    BY <2>1, FlowTypes DEF Taken
  <2>3. PICK k \in 1..Len(accepted) : e = accepted[k]
    BY DEF Elements
  <2> QED
    BY <2>1, <2>2, <2>3 DEF IFlow, ISettled
<1>2. TypeOK /\ IFlow => PostCommitInOrder
  <2> SUFFICES ASSUME TypeOK, IFlow, NEW i \in 1..Len(accepted), NEW j \in 1..Len(accepted),
                      i < j, accepted[j] \in Answered, accepted[i].kind = "change",
                      accepted[i] \in Elements(store)
               PROVE  Posted(accepted[i])
    BY DEF PostCommitInOrder, Posted
  <2>1. Taken \in Int
    BY FlowTypes
  <2>2. ~ (j > Taken)
    BY DEF IFlow, IWaiting
  <2>3. i < Taken
    BY <2>1, <2>2
  <2> QED
    BY <2>3 DEF IFlow, ISettled, Settled
<1>3. TypeOK /\ IFlow => CommitsAreFollowed
  BY <1>1, <1>2 DEF CommitsAreFollowed
<1> QED
  BY <1>3, TypeCorrect, IFlowCorrect, PTL
-----------------------------------------------------------------------------
(* The write log implements the abstract log: every step of a caller, of   *)
(* the applier or of Close is a step of OrderedLog or changes nothing of     *)
(* what OrderedLog shows.  The mapping is at the end of WriteLog.            *)

\* Putting an element in front of a sequence, and taking it off again.
LEMMA ConsProperties ==
  ASSUME NEW S, NEW e \in S, NEW s \in Seq(S)
  PROVE  /\ <<e>> \o s \in Seq(S) /\ <<e>> \o s # <<>>
         /\ Head(<<e>> \o s) = e /\ Tail(<<e>> \o s) = s
         /\ Elements(<<e>> \o s) = Elements(s) \cup {e}
<1> DEFINE u == <<e>> \o s
<1>1. /\ u \in Seq(S) /\ Len(u) = Len(s) + 1 /\ Len(s) \in Nat /\ u[1] = e
      /\ \A i \in 1..Len(s) : u[i + 1] = s[i]
  BY ConcatProperties
<1>2. u # <<>> /\ Head(u) = e
  BY <1>1, EmptySeq
<1>3. Tail(u) = s
  <2>1. Tail(u) \in Seq(S) /\ Len(Tail(u)) = Len(s) /\ \A i \in 1..Len(s) : Tail(u)[i] = u[i + 1]
    BY <1>1, <1>2, HeadTailProperties
  <2> QED
    BY <1>1, <2>1, SeqEqual
<1>4. Elements(u) = Elements(s) \cup {e}
  BY <1>1, <1>2, <1>3, ElementsTail
<1> QED
  BY <1>1, <1>2, <1>3, <1>4

\* Putting in front and appending commute.
LEMMA ConsAppend ==
  ASSUME NEW S, NEW e \in S, NEW s \in Seq(S), NEW f \in S
  PROVE  <<e>> \o Append(s, f) = Append(<<e>> \o s, f)
BY ConcatAssociative, AppendIsConcat, ConsProperties

\* A sequence is its head in front of its tail.
LEMMA ConsHeadTail ==
  ASSUME NEW S, NEW s \in Seq(S), s # <<>>
  PROVE  <<Head(s)>> \o Tail(s) = s
<1>1. /\ Head(s) = s[1] /\ Head(s) \in S /\ Tail(s) \in Seq(S) /\ Len(Tail(s)) = Len(s) - 1
      /\ \A i \in 1..Len(Tail(s)) : Tail(s)[i] = s[i + 1]
      /\ Len(s) \in Nat \ {0}
  BY HeadTailProperties, EmptySeq
<1> DEFINE u == <<Head(s)>> \o Tail(s)
<1>2. /\ u \in Seq(S) /\ Len(u) = Len(s) /\ u[1] = Head(s)
      /\ \A i \in 1..Len(Tail(s)) : u[i + 1] = Tail(s)[i]
  BY <1>1, ConcatProperties
<1>3. \A i \in 1..Len(s) : u[i] = s[i]
  <2> SUFFICES ASSUME NEW i \in 1..Len(s) PROVE u[i] = s[i]
    OBVIOUS
  <2>1. CASE i = 1
    BY <1>1, <1>2, <2>1
  <2>2. CASE i # 1
    <3>1. i - 1 \in 1..Len(Tail(s)) /\ (i - 1) + 1 = i
      BY <1>1, <2>2
    <3> QED
      BY <1>1, <1>2, <3>1
  <2> QED
    BY <2>1, <2>2
<1> QED
  BY <1>2, <1>3, SeqEqual

-----------------------------------------------------------------------------
\* The types the mapping needs.
LEMMA MappedTypes ==
  ASSUME ITypeOK
  PROVE  /\ ch \in Seq(Entries) /\ store \in Seq(Entries)
         /\ cur = NoOne <=> apc \in {"recv", "exited"}
         /\ cur # NoOne => cur \in Entries
         /\ replies \subseteq Entries \X {"ok", "err"}
BY DEF ITypeOK, TypeOK

\* What the abstract log knows has been issued.
LEMMA KnownIsIssued ==
  ASSUME ITypeOK
  PROVE  Ordered!Known \subseteq Issued
<1>1. Elements(Unapplied) \subseteq Issued
  <2>1. CASE apc \in {"task", "apply"}
    BY <2>1, MappedTypes, ConsProperties DEF Unapplied, Issued
  <2>2. CASE apc \notin {"task", "apply"}
    BY <2>2 DEF Unapplied, Issued
  <2> QED
    BY <2>1, <2>2
<1>2. Unanswered \subseteq Issued
  BY MappedTypes DEF Unanswered, Issued
<1> QED
  BY <1>1, <1>2 DEF Ordered!Known, Ordered!Stored, Issued, Answered, Elements

\* Sending on the channel accepts the entry.
LEMMA SendAccepts ==
  ASSUME ITypeOK, IFresh, NEW c \in Clients, Send(c)
  PROVE  \E e \in Entries : Ordered!Accept(e)
<1> PICK k \in Kinds : Entry(c, k) \in Entries \ Issued /\ ch' = Append(ch, Entry(c, k))
  BY SendsNewEntry
<1>1. UNCHANGED <<store, apc, cur, replies>>
  BY DEF Send, applierVars, diskVars
<1>2. Unapplied' = Append(Unapplied, Entry(c, k))
  <2>1. CASE apc \in {"task", "apply"}
    BY <1>1, <2>1, MappedTypes, ConsAppend DEF Unapplied
  <2>2. CASE apc \notin {"task", "apply"}
    BY <1>1, <2>2 DEF Unapplied
  <2> QED
    BY <2>1, <2>2
<1>3. Unanswered' = Unanswered
  BY <1>1 DEF Unanswered
<1> QED
  BY <1>1, <1>2, <1>3, KnownIsIssued DEF Ordered!Accept

\* Taking an entry off the channel is invisible: it stays in the abstract queue.
LEMMA TakeStutters ==
  ASSUME ITypeOK, Take
  PROVE  UNCHANGED Ordered!vars
<1>1. /\ ch # <<>> /\ ch' = Tail(ch) /\ cur' = Head(ch) /\ apc = "recv"
      /\ apc' \in {"task", "apply"} /\ UNCHANGED <<store, replies>>
  BY DEF Take, diskVars
<1>2. Unapplied' = Unapplied
  BY <1>1, MappedTypes, ConsHeadTail DEF Unapplied
<1> QED
  BY <1>1, <1>2 DEF Ordered!vars, Unanswered

\* Applying or refusing a change takes it off the abstract queue.
LEMMA ApplyApplies ==
  ASSUME ITypeOK, Apply
  PROVE  Ordered!ApplyHead
<1>1. /\ apc = "apply" /\ apc' \in {"state", "reply"} /\ store' \in {store, Append(store, cur)}
      /\ UNCHANGED <<ch, cur, replies>>
  BY DEF Apply
<1>2. cur \in Entries /\ ch \in Seq(Entries)
  BY <1>1, MappedTypes
<1>3. Unapplied # <<>> /\ Head(Unapplied) = cur /\ Tail(Unapplied) = ch
  BY <1>1, <1>2, ConsProperties DEF Unapplied
<1>4. Unapplied' = ch /\ Unanswered = {} /\ Unanswered' = {cur}
  BY <1>1 DEF Unapplied, Unanswered
<1> QED
  BY <1>1, <1>3, <1>4 DEF Ordered!ApplyHead

\* Running a task applies and answers it at once.
LEMMA TaskApplies ==
  ASSUME ITypeOK, RunTask
  PROVE  \E a \in {"ok", "err"} : Ordered!ApplyAndAnswer(a)
<1>1. apc = "task" /\ apc' = "recv" /\ UNCHANGED ch
  BY DEF RunTask, NextEntry, logVars
<1>2. cur \in Entries /\ ch \in Seq(Entries)
  BY <1>1, MappedTypes
<1>3. Unapplied # <<>> /\ Head(Unapplied) = cur /\ Tail(Unapplied) = ch
  BY <1>1, <1>2, ConsProperties DEF Unapplied
<1>4. Unapplied' = ch /\ Unanswered = {} /\ Unanswered' = {}
  BY <1>1 DEF Unapplied, Unanswered
<1>5. \/ store' = Append(store, cur) /\ replies' = replies \cup {<<cur, "ok">>}
      \/ store' = store /\ replies' = replies \cup {<<cur, "err">>}
  BY DEF RunTask
<1> QED
  BY <1>3, <1>4, <1>5 DEF Ordered!ApplyAndAnswer

\* The reply is the abstract answer, and an ok is about an applied entry.
LEMMA ReplyAnswers ==
  ASSUME ITypeOK, IAcked, Reply
  PROVE  \E e \in Unanswered, a \in {"ok", "err"} : Ordered!Answer(e, a)
<1>1. /\ apc = "reply" /\ apc' \in {"post", "recv"} /\ UNCHANGED <<ch, store>>
      /\ replies' = replies \cup {<<cur, outcome>>}
  BY DEF Reply, NextEntry, logVars, diskVars
<1>2. /\ Unapplied' = Unapplied /\ Unanswered = {cur} /\ Unanswered' = {}
  BY <1>1 DEF Unapplied, Unanswered
<1>3. outcome \in {"ok", "err"}
  BY <1>1 DEF ITypeOK, TypeOK, HasOutcome
<1>4. outcome = "ok" => cur \in Ordered!Stored
  BY <1>1 DEF IAcked, Ordered!Stored, Elements
<1> QED
  BY <1>1, <1>2, <1>3, <1>4 DEF Ordered!Answer

\* The other steps of the applier are between applying and answering, or after.
LEMMA RestStutters ==
  ASSUME QueueForLock \/ CommitState \/ AppendJournal \/ RecordHistory \/ PostCommit \/ Exit
  PROVE  UNCHANGED Ordered!vars
<1>1. UNCHANGED <<ch, store, replies>>
  BY DEF QueueForLock, CommitState, AppendJournal, RecordHistory, PostCommit, Exit,
         logVars, applierVars, diskVars
<1>2. Unapplied' = Unapplied /\ Unanswered' = Unanswered
  BY <1>1 DEF Unapplied, Unanswered, NextEntry, QueueForLock, CommitState, AppendJournal,
              RecordHistory, PostCommit, Exit, applierVars
<1> QED
  BY <1>1, <1>2 DEF Ordered!vars

\* Every step of the write log is a step of the abstract log or shows nothing there.
LEMMA StepRefines ==
  ASSUME ITypeOK, IFresh, IAcked, [Next]_vars
  PROVE  [Ordered!Next]_(Ordered!vars)
<1> USE DEF Ordered!Next
<1>0. ASSUME UNCHANGED <<ch, store, replies, apc, cur>>
      PROVE  UNCHANGED Ordered!vars
  BY <1>0 DEF Ordered!vars, Unapplied, Unanswered
<1>1. ASSUME NEW c \in Clients, ClientStep(c) \/ Cancel(c)
      PROVE  [Ordered!Next]_(Ordered!vars)
  <2>1. CASE Send(c)
    BY <2>1, SendAccepts
  <2>2. CASE ~ Send(c)
    <3>1. UNCHANGED <<ch, store, replies, apc, cur>>
      BY <1>1, <2>2 DEF ClientStep, Call, Refuse, Admit, GiveUpSending, GiveUpWaiting, Receive,
                        Cancel, Return, logVars, applierVars, diskVars
    <3> QED
      BY <1>0, <3>1
  <2> QED
    BY <2>1, <2>2
<1>2. CASE ApplierStep
  BY <1>2, TakeStutters, ApplyApplies, TaskApplies, ReplyAnswers, RestStutters DEF ApplierStep
<1>3. ASSUME NEW w \in Writers, WriterStep(w)
      PROVE  [Ordered!Next]_(Ordered!vars)
  <2>1. UNCHANGED <<ch, store, replies, apc, cur>>
    BY <1>3 DEF WriterStep, Lock, SetPostCommit, Close, CloseReturns, CloseTimesOut,
                logVars, applierVars, diskVars
  <2> QED
    BY <1>0, <2>1
<1>4. CASE Crash
  <2>1. Ordered!Crash
    BY <1>4 DEF Crash, Ordered!Crash, Unapplied, Unanswered
  <2> QED
    BY <2>1
<1>5. CASE UNCHANGED vars
  BY <1>0, <1>5 DEF vars, logVars, applierVars, diskVars
<1> QED
  BY <1>1, <1>2, <1>3, <1>4, <1>5 DEF Next

\* The write log is a first-in first-out log that applies an accepted entry at
\* most once, answers it after that, and loses by a crash only what it had not
\* applied.
THEOREM ImplementsOrderedLog == Spec => OrderedSpec
<1>1. Init => Ordered!Init
  BY DEF Init, Ordered!Init, Unapplied, Unanswered
<1>2. ITypeOK /\ IFresh /\ IAcked /\ [Next]_vars => [Ordered!Next]_(Ordered!vars)
  BY StepRefines
<1> QED
  BY <1>1, <1>2, ITypeCorrect, IFreshCorrect, IAckedCorrect, PTL
     DEF Spec, OrderedSpec, Ordered!Spec
=============================================================================
