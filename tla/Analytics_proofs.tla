-------------------------- MODULE Analytics_proofs --------------------------
(***************************************************************************)
(* Theorems about the analytics, for any set of keys, any length of the    *)
(* priority streak, any capacities and any number of commits and mishaps:  *)
(* the worker lane keeps its work and implements the abstract lane,        *)
(* WorkLane; and the pipeline marks nothing before its effects.            *)
(***************************************************************************)
EXTENDS WorkQueue, Pipeline, SequenceTheorems, FiniteSetTheorems, TLAPS

Members(q) == {q[i] : i \in DOMAIN q}
NoRepeat(q) == \A i, j \in DOMAIN q : q[i] = q[j] => i = j

ITypes ==
  /\ DOMAIN pending \subseteq WorkKeys /\ \A k \in DOMAIN pending : pending[k] \in Classes
  /\ queues \in [Classes -> Seq(WorkKeys)]
  /\ streak \in 0..MaxPriorityStreak /\ wake \in BOOLEAN /\ cancelled \in BOOLEAN
  /\ lane \in {"select", "loop", "gate", "run", "finished", "done"}
  /\ gate \in {"free", "lane", "pipeline"}

(* The queue of a class is the pending keys of the class, each once. *)
IQueues ==
  \A class \in Classes :
    /\ Members(queues[class]) = {k \in DOMAIN pending : pending[k] = class}
    /\ NoRepeat(queues[class])

(* What is marked as running is what the goroutine holds, and it holds one *)
(* key from the pop to the end of the run.                                 *)
IRuns ==
  /\ running = item /\ item \subseteq WorkKeys
  /\ \A k, l \in item : k = l
  /\ lane \in {"select", "loop", "finished"} => item = {}
  /\ lane \in {"gate", "run"} => item # {}

IInv == ITypes /\ IQueues /\ IRuns /\ WakeIsNotLost
-----------------------------------------------------------------------------
(* What a queue holds after an append, a pop and a removal. *)

LEMMA Appended ==
  ASSUME NEW S, NEW q \in Seq(S), NEW k \in S
  PROVE  /\ Append(q, k) \in Seq(S) /\ Members(Append(q, k)) = Members(q) \cup {k}
         /\ NoRepeat(q) /\ k \notin Members(q) => NoRepeat(Append(q, k))
<1> DEFINE a == Append(q, k)
<1>1. /\ a \in Seq(S) /\ Len(a) = Len(q) + 1 /\ a[Len(q) + 1] = k /\ Len(q) \in Nat
      /\ \A i \in 1..Len(q) : a[i] = q[i]
  BY AppendProperties
<1>2. DOMAIN a = 1..Len(q) + 1 /\ DOMAIN q = 1..Len(q) /\ DOMAIN a = DOMAIN q \cup {Len(q) + 1}
  BY <1>1
<1> HIDE DEF a
<1>3. Members(a) = Members(q) \cup {k}
  BY <1>1, <1>2 DEF Members
<1>4. NoRepeat(q) /\ k \notin Members(q) => NoRepeat(a)
  BY <1>1, <1>2 DEF NoRepeat, Members
<1> QED
  BY <1>1, <1>3, <1>4 DEF a

LEMMA Popped ==
  ASSUME NEW S, NEW q \in Seq(S), q # <<>>, NoRepeat(q)
  PROVE  /\ Tail(q) \in Seq(S) /\ NoRepeat(Tail(q)) /\ Head(q) \in Members(q)
         /\ Members(Tail(q)) = Members(q) \ {Head(q)}
<1> DEFINE t == Tail(q)
<1>1. /\ t \in Seq(S) /\ Len(t) = Len(q) - 1 /\ Head(q) = q[1] /\ Len(q) \in Nat \ {0}
      /\ \A i \in 1..Len(t) : t[i] = q[i + 1]
  BY HeadTailProperties, EmptySeq
<1>2. DOMAIN t = 1..Len(q) - 1 /\ DOMAIN q = 1..Len(q) /\ 1 \in DOMAIN q
  BY <1>1
<1>3. \A i \in DOMAIN t : i + 1 \in DOMAIN q /\ i + 1 # 1 /\ t[i] = q[i + 1]
  BY <1>1, <1>2
<1>4. \A j \in DOMAIN q : j # 1 => j - 1 \in DOMAIN t /\ q[j] = t[j - 1]
  BY <1>1, <1>2
<1> HIDE DEF t
<1>5. NoRepeat(t)
  <2> SUFFICES ASSUME NEW i \in DOMAIN t, NEW j \in DOMAIN t, t[i] = t[j] PROVE i = j
    BY DEF NoRepeat
  <2>1. i + 1 = j + 1
    BY <1>3 DEF NoRepeat
  <2> QED
    BY <1>2, <2>1
<1>6. \A k \in Members(t) : k \in Members(q) /\ k # q[1]
  BY <1>2, <1>3 DEF Members, NoRepeat
<1>7. \A k \in Members(q) : k # q[1] => k \in Members(t)
  BY <1>2, <1>4 DEF Members
<1>8. q[1] \in Members(q)
  BY <1>2 DEF Members
<1> QED
  BY <1>1, <1>5, <1>6, <1>7, <1>8 DEF t

LEMMA TakenOut ==
  ASSUME NEW S, NEW q \in Seq(S), NoRepeat(q), NEW k \in Members(q)
  PROVE  /\ Removed(q, k) \in Seq(S) /\ NoRepeat(Removed(q, k))
         /\ Members(Removed(q, k)) = Members(q) \ {k}
<1> DEFINE n == PlaceOf(k, q)
           b == SubSeq(q, 1, n - 1)
           a == SubSeq(q, n + 1, Len(q))
           r == b \o a
<1>1. n \in DOMAIN q /\ q[n] = k
  BY DEF PlaceOf, Members
<1>2. /\ Len(q) \in Nat /\ n \in 1..Len(q) /\ DOMAIN q = 1..Len(q)
      /\ \A i \in 1..Len(q) : q[i] \in S
  BY <1>1
<1> HIDE DEF n
<1>n. Len(q) \in Nat /\ n \in 1..Len(q)
  BY <1>2
<1>3. b \in Seq(S) /\ Len(b) = n - 1 /\ \A i \in 1..n - 1 : b[i] = q[i]
  <2>1. \A i \in 1..n - 1 : q[i] \in S
    BY <1>2
  <2>2. b \in Seq(S) /\ Len(b) = (IF 1 <= n - 1 THEN n - 1 - 1 + 1 ELSE 0)
        /\ \A i \in 1..n - 1 - 1 + 1 : b[i] = q[1 + i - 1]
    BY <1>2, <2>1, SubSeqProperties
  <2> QED
    BY <1>2, <2>2
<1>4. a \in Seq(S) /\ Len(a) = Len(q) - n /\ \A i \in 1..Len(q) - n : a[i] = q[n + i]
  <2>1. \A i \in n + 1..Len(q) : q[i] \in S
    BY <1>2
  <2>2. a \in Seq(S) /\ Len(a) = (IF n + 1 <= Len(q) THEN Len(q) - (n + 1) + 1 ELSE 0)
        /\ \A i \in 1..Len(q) - (n + 1) + 1 : a[i] = q[n + 1 + i - 1]
    BY <1>2, <2>1, SubSeqProperties
  <2>l. Len(a) = IF n + 1 <= Len(q) THEN Len(q) - (n + 1) + 1 ELSE 0
    BY <2>2
  <2> HIDE DEF a
  <2>3. Len(a) = Len(q) - n
    BY <1>n, <2>l
  <2>4. \A i \in 1..Len(q) - n : i \in 1..Len(q) - (n + 1) + 1 /\ n + 1 + i - 1 = n + i
    BY <1>n
  <2>5. \A i \in 1..Len(q) - n : a[i] = q[n + i]
    BY <2>2, <2>4
  <2> QED
    BY <2>2, <2>3, <2>5
<1> HIDE DEF b, a
<1>5. /\ r \in Seq(S) /\ Len(r) = Len(b) + Len(a)
      /\ \A i \in 1..Len(b) + Len(a) : r[i] = IF i <= Len(b) THEN b[i] ELSE a[i - Len(b)]
  BY <1>3, <1>4, ConcatProperties
<1> HIDE DEF r
<1>l. Len(r) = Len(q) - 1 /\ Len(b) = n - 1 /\ Len(b) + Len(a) = Len(q) - 1
  BY <1>n, <1>3, <1>4, <1>5
<1>6. DOMAIN r = 1..Len(q) - 1
  BY <1>5, <1>l
<1>7. \A i \in DOMAIN r : r[i] = IF i < n THEN q[i] ELSE q[i + 1]
  <2> SUFFICES ASSUME NEW i \in DOMAIN r PROVE r[i] = IF i < n THEN q[i] ELSE q[i + 1]
    OBVIOUS
  <2>1. r[i] = IF i <= n - 1 THEN b[i] ELSE a[i - (n - 1)]
    BY <1>5, <1>6, <1>l
  <2>2. CASE i < n
    <3>1. i \in 1..n - 1 /\ i <= n - 1
      BY <1>n, <1>6, <2>2
    <3> QED
      BY <1>3, <2>1, <2>2, <3>1
  <2>3. CASE i >= n
    <3>1. i - (n - 1) \in 1..Len(q) - n /\ n + (i - (n - 1)) = i + 1
      BY <1>n, <1>6, <2>3
    <3>2. a[i - (n - 1)] = q[i + 1]
      BY <1>4, <3>1
    <3>3. ~(i <= n - 1) /\ ~(i < n)
      BY <1>n, <1>6, <2>3
    <3> QED
      BY <2>1, <3>2, <3>3
  <2> QED
    BY <1>n, <1>6, <2>2, <2>3
<1>8. \A i \in DOMAIN r : \E j \in DOMAIN q : j # n /\ r[i] = q[j] /\ j = IF i < n THEN i ELSE i + 1
  BY <1>2, <1>6, <1>7
<1>9. \A j \in DOMAIN q : j # n => \E i \in DOMAIN r : r[i] = q[j]
  <2> SUFFICES ASSUME NEW j \in DOMAIN q, j # n PROVE \E i \in DOMAIN r : r[i] = q[j]
    OBVIOUS
  <2>1. CASE j < n
    BY <1>2, <1>6, <1>7, <2>1
  <2>2. CASE j > n
    <3>1. j - 1 \in DOMAIN r /\ r[j - 1] = q[j]
      BY <1>2, <1>6, <1>7, <2>2
    <3> QED
      BY <3>1
  <2> QED
    BY <1>2, <2>1, <2>2
<1>10. NoRepeat(r)
  <2> SUFFICES ASSUME NEW i \in DOMAIN r, NEW j \in DOMAIN r, r[i] = r[j] PROVE i = j
    BY DEF NoRepeat
  <2>1. (IF i < n THEN i ELSE i + 1) = (IF j < n THEN j ELSE j + 1)
    BY <1>8 DEF NoRepeat
  <2> QED
    BY <1>2, <1>6, <2>1
<1>11. Members(r) = Members(q) \ {k}
  <2>1. \A x \in Members(r) : x \in Members(q) /\ x # k
    BY <1>1, <1>8 DEF Members, NoRepeat
  <2>2. \A x \in Members(q) : x # k => x \in Members(r)
    BY <1>1, <1>9 DEF Members
  <2>3. k \notin Members(r)
    BY <2>1
  <2> QED
    BY <2>1, <2>2
<1>12. Removed(q, k) = r
  BY DEF Removed, r, a, b, n
<1> QED
  BY <1>5, <1>10, <1>11, <1>12
-----------------------------------------------------------------------------
(* The steps. *)

LEMMA EnqueueStep ==
  ASSUME IInv, NEW k \in WorkKeys, NEW class \in Classes, NEW followup \in BOOLEAN,
         Enqueue(k, class, followup)
  PROVE  IInv'
<1>1. ITypes /\ IQueues /\ UNCHANGED <<running, streak, lane, item, gate, cancelled>>
  BY DEF IInv, Enqueue
<1>r. IRuns'
  BY <1>1 DEF IInv, IRuns
<1>c. Classes = {"priority", "background"} /\ \A c \in Classes : queues[c] \in Seq(WorkKeys)
  BY <1>1 DEF Classes, ITypes
<1>2. CASE k \in DOMAIN pending
  <2>1. /\ pending[k] = "background" /\ pending' = [pending EXCEPT ![k] = "priority"]
        /\ queues' = [background |-> Removed(queues.background, k),
                      priority   |-> Append(queues.priority, k)]
        /\ wake' = wake
    BY <1>2 DEF Enqueue
  <2>2. k \in Members(queues["background"]) /\ k \notin Members(queues["priority"])
        /\ NoRepeat(queues["background"]) /\ NoRepeat(queues["priority"])
    BY <1>1, <1>2, <1>c, <2>1 DEF IQueues
  <2>3. /\ queues'["background"] \in Seq(WorkKeys) /\ NoRepeat(queues'["background"])
        /\ Members(queues'["background"]) = Members(queues["background"]) \ {k}
    BY <1>c, <2>1, <2>2, TakenOut
  <2>4. /\ queues'["priority"] \in Seq(WorkKeys) /\ NoRepeat(queues'["priority"])
        /\ Members(queues'["priority"]) = Members(queues["priority"]) \cup {k}
    BY <1>c, <2>1, <2>2, Appended
  <2>5. /\ DOMAIN pending' = DOMAIN pending /\ pending'[k] = "priority"
        /\ \A x \in DOMAIN pending : x # k => pending'[x] = pending[x]
    BY <1>2, <2>1
  <2>6. queues' \in [Classes -> Seq(WorkKeys)]
    <3>1. queues' = [c \in Classes |-> queues'[c]]
      BY <1>c, <2>1
    <3> QED
      BY <1>c, <2>3, <2>4, <3>1
  <2>7. ITypes'
    BY <1>1, <1>c, <2>1, <2>5, <2>6 DEF ITypes
  <2>8. IQueues'
    <3>1. Members(queues'["background"]) = {x \in DOMAIN pending' : pending'[x] = "background"}
      BY <1>1, <1>c, <2>3, <2>5 DEF IQueues
    <3>2. Members(queues'["priority"]) = {x \in DOMAIN pending' : pending'[x] = "priority"}
      BY <1>1, <1>2, <1>c, <2>4, <2>5 DEF IQueues
    <3> QED
      BY <1>c, <2>3, <2>4, <3>1, <3>2 DEF IQueues
  <2>9. WakeIsNotLost'
    BY <1>1, <2>1, <2>5 DEF IInv, WakeIsNotLost
  <2> QED
    BY <1>r, <2>7, <2>8, <2>9 DEF IInv
<1>3. CASE k \notin DOMAIN pending
  <2>1. /\ pending' = [x \in DOMAIN pending \cup {k} |-> IF x = k THEN class ELSE pending[x]]
        /\ queues' = [queues EXCEPT ![class] = Append(@, k)] /\ wake' = TRUE
    BY <1>3 DEF Enqueue
  <2>2. k \notin Members(queues[class]) /\ NoRepeat(queues[class])
    BY <1>1, <1>3 DEF IQueues
  <2>3. /\ Append(queues[class], k) \in Seq(WorkKeys) /\ NoRepeat(Append(queues[class], k))
        /\ Members(Append(queues[class], k)) = Members(queues[class]) \cup {k}
    BY <1>c, <2>2, Appended
  <2>4. /\ queues' \in [Classes -> Seq(WorkKeys)] /\ queues'[class] = Append(queues[class], k)
        /\ \A c \in Classes : c # class => queues'[c] = queues[c]
    BY <1>1, <2>1, <2>3 DEF ITypes
  <2>5. /\ DOMAIN pending' = DOMAIN pending \cup {k} /\ pending'[k] = class
        /\ \A x \in DOMAIN pending : pending'[x] = pending[x]
    BY <1>3, <2>1
  <2>6. ITypes'
    BY <1>1, <2>1, <2>4, <2>5 DEF ITypes
  <2>7. IQueues'
    <3>1. /\ Members(queues'[class]) = {x \in DOMAIN pending' : pending'[x] = class}
          /\ NoRepeat(queues'[class])
      BY <1>1, <2>3, <2>4, <2>5 DEF IQueues
    <3>2. ASSUME NEW c \in Classes, c # class
          PROVE  /\ Members(queues'[c]) = {x \in DOMAIN pending' : pending'[x] = c}
                 /\ NoRepeat(queues'[c])
      BY <1>1, <2>4, <2>5, <3>2 DEF IQueues
    <3> QED
      BY <3>1, <3>2 DEF IQueues
  <2>8. WakeIsNotLost'
    BY <2>1 DEF WakeIsNotLost
  <2> QED
    BY <1>r, <2>6, <2>7, <2>8 DEF IInv
<1> QED
  BY <1>2, <1>3

\* No key is queued exactly when none is pending.
LEMMA QueuedIsPending ==
  IInv => (Queued <=> DOMAIN pending # {})
<1> SUFFICES ASSUME IInv PROVE Queued <=> DOMAIN pending # {}
  OBVIOUS
<1>1. /\ \A class \in Classes : Members(queues[class]) = {k \in DOMAIN pending : pending[k] = class}
      /\ \A k \in DOMAIN pending : pending[k] \in Classes
      /\ \A class \in Classes : queues[class] \in Seq(WorkKeys)
  BY DEF IInv, ITypes, IQueues
<1>2. \A class \in Classes : queues[class] = <<>> <=> Members(queues[class]) = {}
  <2> SUFFICES ASSUME NEW class \in Classes
               PROVE  queues[class] = <<>> <=> Members(queues[class]) = {}
    OBVIOUS
  <2>1. queues[class] \in Seq(WorkKeys) /\ DOMAIN queues[class] = 1..Len(queues[class])
        /\ (queues[class] = <<>> <=> Len(queues[class]) = 0) /\ Len(queues[class]) \in Nat
    BY <1>1, EmptySeq
  <2>2. Members(queues[class]) = {} <=> DOMAIN queues[class] = {}
    BY DEF Members
  <2>3. \A n \in Nat : 1..n = {} <=> n = 0
    OBVIOUS
  <2> QED
    BY <2>1, <2>2, <2>3
<1>3. Queued <=> \E class \in Classes : Members(queues[class]) # {}
  BY <1>2 DEF Queued, Classes
<1> QED
  BY <1>1, <1>3

\* The queue pop takes from has a key.
LEMMA NextClassHasWork ==
  ASSUME Queued
  PROVE  NextClass \in Classes /\ queues[NextClass] # <<>>
BY DEF Queued, NextClass, Classes

\* Pop takes a pending key out of its queue.
LEMMA PopTakes ==
  ASSUME IInv, Pop
  PROVE  \E k \in DOMAIN pending :
           /\ DOMAIN pending' = DOMAIN pending \ {k} /\ running' = {k} /\ item' = {k}
           /\ ITypes' /\ IQueues' /\ running = {}
<1> DEFINE class == NextClass
           k == Head(queues[class])
<1>1. class \in Classes /\ queues[class] # <<>>
  BY NextClassHasWork DEF Pop
<1>2. ITypes /\ IQueues /\ running = item /\ item = {} /\ queues[class] \in Seq(WorkKeys)
  BY <1>1 DEF IInv, IRuns, ITypes, Pop
<1>3. /\ queues' = [queues EXCEPT ![class] = Tail(@)]
      /\ pending' = Without(DOMAIN pending, k)
      /\ running' = running \cup {k} /\ item' = {k} /\ lane' = "gate"
      /\ UNCHANGED <<wake, gate, cancelled>>
  BY DEF Pop
<1>s. streak' \in 0..MaxPriorityStreak
  <2>1. streak \in 0..MaxPriorityStreak /\ MaxPriorityStreak \in Nat
    BY <1>2, WorkQueueAssumption DEF ITypes
  <2>2. streak' = CASE class = "background" -> 0
                    [] streak < MaxPriorityStreak -> streak + 1
                    [] OTHER -> streak
    BY DEF Pop
  <2> HIDE DEF class
  <2>3. CASE class # "background" /\ ~(streak < MaxPriorityStreak)
    BY <2>1, <2>2, <2>3
  <2>4. CASE class = "background" \/ streak < MaxPriorityStreak
    <3>1. streak' = 0 \/ (streak < MaxPriorityStreak /\ streak' = streak + 1)
      BY <2>2, <2>4
    <3> QED
      BY <2>1, <3>1
  <2> QED
    BY <2>3, <2>4
<1> HIDE DEF class
<1>4. /\ Tail(queues[class]) \in Seq(WorkKeys) /\ NoRepeat(Tail(queues[class]))
      /\ k \in Members(queues[class])
      /\ Members(Tail(queues[class])) = Members(queues[class]) \ {k}
  BY <1>1, <1>2, Popped DEF IQueues
<1>5. k \in DOMAIN pending /\ pending[k] = class
  BY <1>1, <1>2, <1>4 DEF IQueues
<1> HIDE DEF k
<1>6. /\ DOMAIN pending' = DOMAIN pending \ {k}
      /\ \A x \in DOMAIN pending' : pending'[x] = pending[x]
  BY <1>3 DEF Without
<1>7. /\ queues' \in [Classes -> Seq(WorkKeys)] /\ queues'[class] = Tail(queues[class])
      /\ \A c \in Classes : c # class => queues'[c] = queues[c]
  BY <1>1, <1>2, <1>3, <1>4 DEF ITypes
<1>8. ITypes'
  BY <1>2, <1>3, <1>6, <1>7, <1>s DEF ITypes
<1>9. IQueues'
  <2>1. /\ Members(queues'[class]) = {x \in DOMAIN pending' : pending'[x] = class}
        /\ NoRepeat(queues'[class])
    BY <1>1, <1>2, <1>4, <1>5, <1>6, <1>7 DEF IQueues
  <2>2. ASSUME NEW c \in Classes, c # class
        PROVE  /\ Members(queues'[c]) = {x \in DOMAIN pending' : pending'[x] = c}
               /\ NoRepeat(queues'[c])
    <3>1. Members(queues'[c]) = {x \in DOMAIN pending : pending[x] = c} /\ NoRepeat(queues'[c])
      BY <1>2, <1>7, <2>2 DEF IQueues
    <3> QED
      BY <1>5, <1>6, <2>2, <3>1
  <2> QED
    BY <2>1, <2>2 DEF IQueues
<1> QED
  BY <1>2, <1>3, <1>5, <1>6, <1>8, <1>9

\* A step that leaves the queues alone.
LEMMA QueuesKept ==
  ASSUME IInv, UNCHANGED <<pending, queues, streak>>, wake' \in BOOLEAN, cancelled' \in BOOLEAN,
         lane' \in {"select", "loop", "gate", "run", "finished", "done"},
         gate' \in {"free", "lane", "pipeline"}, IRuns', WakeIsNotLost'
  PROVE  IInv'
BY DEF IInv, ITypes, IQueues

LEMMA LaneStep ==
  ASSUME IInv, Lane \/ EnterGate \/ Leave
  PROVE  IInv'
<1>1. CASE Pop
  <2>1. ITypes' /\ IQueues' /\ \E k \in DOMAIN pending : running' = {k} /\ item' = {k}
    BY <1>1, PopTakes
  <2>2. lane' = "gate" /\ DOMAIN pending \subseteq WorkKeys
    BY <1>1 DEF Pop, IInv, ITypes
  <2>3. IRuns' /\ WakeIsNotLost'
    BY <2>1, <2>2 DEF IRuns, WakeIsNotLost
  <2> QED
    BY <2>1, <2>3 DEF IInv
<1>2. CASE Wake
  <2>1. IRuns' /\ WakeIsNotLost'
    BY <1>2 DEF Wake, queueVars, IInv, IRuns, WakeIsNotLost
  <2> QED
    BY <1>2, <2>1, QueuesKept DEF Wake, queueVars, IInv, ITypes
<1>3. CASE PopNothing
  <2>1. DOMAIN pending = {}
    BY <1>3, QueuedIsPending DEF PopNothing
  <2>2. IRuns' /\ WakeIsNotLost'
    BY <1>3, <2>1 DEF PopNothing, queueVars, IInv, IRuns, WakeIsNotLost
  <2> QED
    BY <1>3, <2>2, QueuesKept DEF PopNothing, queueVars, IInv, ITypes
<1>4. CASE RunEnds
  <2>1. IRuns' /\ WakeIsNotLost'
    BY <1>4 DEF RunEnds, IInv, IRuns, WakeIsNotLost
  <2> QED
    BY <1>4, <2>1, QueuesKept DEF RunEnds, IInv, ITypes
<1>5. CASE GoOn
  <2>1. IRuns' /\ WakeIsNotLost'
    BY <1>5 DEF GoOn, queueVars, IInv, IRuns, WakeIsNotLost
  <2> QED
    BY <1>5, <2>1, QueuesKept DEF GoOn, queueVars, IInv, ITypes
<1>6. CASE EnterGate
  <2>1. IRuns' /\ WakeIsNotLost'
    BY <1>6 DEF EnterGate, queueVars, IInv, IRuns, WakeIsNotLost
  <2> QED
    BY <1>6, <2>1, QueuesKept DEF EnterGate, queueVars, IInv, ITypes
<1>7. CASE Leave
  <2>1. IRuns' /\ WakeIsNotLost'
    BY <1>7 DEF Leave, queueVars, IInv, IRuns, WakeIsNotLost
  <2> QED
    BY <1>7, <2>1, QueuesKept DEF Leave, queueVars, IInv, ITypes
<1> QED
  BY <1>1, <1>2, <1>3, <1>4, <1>5, <1>6, <1>7 DEF Lane

\* Cancelling and the pipeline's scans.
LEMMA OtherStep ==
  ASSUME IInv, Cancel \/ PipelineEnters \/ PipelineLeaves \/ UNCHANGED workQueueVars
  PROVE  IInv'
<1>1. /\ UNCHANGED <<pending, queues, running, streak, wake, lane, item>>
      /\ gate' \in {"free", "lane", "pipeline"} /\ cancelled' \in BOOLEAN
  BY DEF IInv, ITypes, Cancel, PipelineEnters, PipelineLeaves, workQueueVars, queueVars
<1>2. IRuns' /\ WakeIsNotLost'
  BY <1>1 DEF IInv, IRuns, WakeIsNotLost
<1> QED
  BY <1>1, <1>2, QueuesKept DEF IInv, ITypes

LEMMA InitKept ==
  WorkQueueInit => IInv
<1> SUFFICES ASSUME WorkQueueInit PROVE IInv
  OBVIOUS
<1>1. /\ DOMAIN pending = {} /\ queues = [priority |-> <<>>, background |-> <<>>]
      /\ running = {} /\ streak = 0 /\ wake = FALSE /\ lane = "select" /\ item = {}
      /\ gate = "free" /\ cancelled = FALSE
  <2>1. DOMAIN << >> = {}
    BY EmptySeq
  <2> QED
    BY <2>1 DEF WorkQueueInit
<1>2. queues \in [Classes -> Seq(WorkKeys)] /\ \A class \in Classes : queues[class] = <<>>
  <2>1. queues = [class \in Classes |-> <<>>]
    BY <1>1 DEF Classes
  <2> QED
    BY <2>1
<1>3. ITypes
  <2>1. streak \in 0..MaxPriorityStreak
    BY <1>1, WorkQueueAssumption
  <2> QED
    BY <1>1, <1>2, <2>1 DEF ITypes
<1>4. IQueues
  BY <1>1, <1>2 DEF IQueues, Members, NoRepeat
<1> QED
  BY <1>1, <1>3, <1>4 DEF IInv, IRuns, WakeIsNotLost

LEMMA StepKept ==
  IInv /\ [WorkQueueNext]_workQueueVars => IInv'
BY EnqueueStep, LaneStep, OtherStep DEF WorkQueueNext

LEMMA LaneInvariant ==
  WorkQueueSpec => []IInv
BY InitKept, StepKept, PTL DEF WorkQueueSpec

LEMMA KeptWork ==
  IInv => WorkIsKept
<1> SUFFICES ASSUME IInv PROVE WorkIsKept
  OBVIOUS
<1>1. Cardinality(running) <= 1
  <2>1. CASE running = {}
    BY <2>1, FS_EmptySet
  <2>2. ASSUME NEW k \in running
        PROVE  Cardinality(running) <= 1
    <3>1. running = {k}
      BY <2>2 DEF IInv, IRuns
    <3> QED
      BY <3>1, FS_Singleton
  <2> QED
    BY <2>1, <2>2
<1>2. WorkQueueTypeOK
  BY <1>1 DEF IInv, ITypes, IRuns, WorkQueueTypeOK
<1>3. QueuesMatchPending
  <2> SUFFICES ASSUME NEW class \in Classes
               PROVE  /\ \A k \in WorkKeys : (k \in DOMAIN pending /\ pending[k] = class)
                                <=> \E i \in DOMAIN queues[class] : queues[class][i] = k
                      /\ \A i, j \in DOMAIN queues[class] :
                           queues[class][i] = queues[class][j] => i = j
    BY DEF QueuesMatchPending
  <2> QED
    BY DEF IInv, ITypes, IQueues, Members, NoRepeat
<1> QED
  BY <1>2, <1>3 DEF IInv, WorkIsKept

(* Every request that waits is once in the queue of its class, over          *)
(* promotions and follow-ups, and the goroutine never sleeps on it: enqueue, *)
(* pop and run of processor.go.                                              *)
THEOREM WorkStaysKept == WorkQueueSpec => []WorkIsKept
BY LaneInvariant, KeptWork, PTL
-----------------------------------------------------------------------------
(* The refinement of the abstract lane: its states and its steps.  That no   *)
(* key is starved is for TLC.                                                *)

LEMMA StepIsLaneStep ==
  IInv /\ [WorkQueueNext]_workQueueVars => [WL!LaneNext]_WL!laneVars
<1> SUFFICES ASSUME IInv, [WorkQueueNext]_workQueueVars
             PROVE  [WL!LaneNext]_WL!laneVars
  OBVIOUS
<1> USE DEF WL!LaneNext, WL!laneVars
<1>1. ASSUME NEW k \in WorkKeys, NEW class \in Classes, NEW followup \in BOOLEAN,
             Enqueue(k, class, followup)
      PROVE  WL!Request(k, followup)
  <2>1. DOMAIN pending' = DOMAIN pending \cup {k}
    <3>1. CASE k \in DOMAIN pending
      BY <1>1, <3>1 DEF Enqueue
    <3>2. CASE k \notin DOMAIN pending
      BY <1>1, <3>2 DEF Enqueue
    <3> QED
      BY <3>1, <3>2
  <2> QED
    BY <1>1, <2>1 DEF Enqueue, WL!Request
<1>2. CASE Pop
  <2>1. lane = "loop" /\ lane' = "gate"
    BY <1>2 DEF Pop
  <2> PICK k \in DOMAIN pending :
        DOMAIN pending' = DOMAIN pending \ {k} /\ running' = {k} /\ running = {}
    BY <1>2, PopTakes
  <2>2. WL!Start(k) /\ k \in WorkKeys
    BY <2>1 DEF WL!Start, IInv, ITypes
  <2> QED
    BY <2>2
<1>3. CASE RunEnds
  <2>1. lane = "run" /\ lane' = "finished" /\ running' = running \ item /\ UNCHANGED pending
    BY <1>3 DEF RunEnds
  <2> PICK k \in item : item = {k} /\ k \in running /\ k \in WorkKeys
    BY <2>1 DEF IInv, IRuns
  <2>2. WL!Finish(k)
    BY <2>1 DEF WL!Finish
  <2> QED
    BY <2>2
<1>4. CASE \/ Wake \/ PopNothing \/ GoOn \/ EnterGate \/ Leave \/ Cancel \/ PipelineEnters
           \/ PipelineLeaves \/ UNCHANGED workQueueVars
  <2>1. UNCHANGED <<pending, running>>
    BY <1>4 DEF Wake, PopNothing, GoOn, EnterGate, Leave, Cancel, PipelineEnters, PipelineLeaves,
                workQueueVars, queueVars
  <2>2. (lane = "done") => (lane' = "done")
    BY <1>4 DEF Wake, PopNothing, GoOn, EnterGate, Leave, Cancel, PipelineEnters, PipelineLeaves,
                workQueueVars, queueVars
  <2> QED
    BY <2>1, <2>2 DEF WL!Stop
<1> QED
  BY <1>1, <1>2, <1>3, <1>4 DEF WorkQueueNext, Lane

(* The two queues implement the abstract lane: a key waits at most once, one *)
(* key works at a time, a key that works keeps one follow-up, and a lane     *)
(* that has stopped takes up nothing.                                        *)
THEOREM ImplementsLane == WorkQueueSpec => WL!LaneInit /\ [][WL!LaneNext]_WL!laneVars
<1>1. WorkQueueInit => WL!LaneInit
  <2> SUFFICES ASSUME WorkQueueInit PROVE WL!LaneInit
    OBVIOUS
  <2>1. DOMAIN << >> = {}
    BY EmptySeq
  <2> QED
    BY <2>1 DEF WorkQueueInit, WL!LaneInit
<1> QED
  BY <1>1, LaneInvariant, StepIsLaneStep, PTL DEF WorkQueueSpec
-----------------------------------------------------------------------------
(* The pipeline.  What its events and scalars rest on, part by part.         *)

PNumbers ==
  /\ journaled \in 0..MaxCommits /\ position \in 0..journaled /\ fresh \in 0..position
  /\ scanned \in 0..Len(stored) /\ pipeCursor \in 0..Len(stored)
  /\ emitFrom \in 1..(MaxCommits + 1) /\ mishaps \in 0..MaxMishaps /\ crossed \in BOOLEAN
PEventTypes ==
  /\ stored \in Seq(StoredEvents)
  /\ recording \in Seq(StoredEvents) /\ Len(recording) <= QueueCap
  /\ handoff \in Seq(StoredEvents) /\ Len(handoff) <= HandoffCap
  /\ seenIds \subseteq StoredEvents /\ lastEvent \in StoredEvents \cup {NoEvent}
  /\ derived \in [Commits -> 0..MaxDerived] /\ lost \subseteq Commits
PWorkTypes ==
  /\ worker \in [at : {"down", "open", "scan", "wait", "closing", "closed"},
                 next : Nat, end : 0..Len(stored), upTo : StoredEvents \cup {NoEvent}]
  /\ replay \in [on : BOOLEAN, next : Nat, end : 0..Len(stored)]
  /\ unit \in [by : {"none", "scan", "handoff", "replay", "close"},
               event : StoredEvents \cup {NoEvent}, out : Seq(Commits)]
  /\ pipeDisk \in [event : StoredEvents \cup {NoEvent}, segments : 0..Len(stored),
                   position : 0..journaled]
  /\ consumed \in [now : SUBSET StoredEvents, ever : SUBSET StoredEvents]
  /\ twice \subseteq consumed.now

(* An event is of a commit in the history, and as old as the scalars made    *)
(* for it; what the Recorder still has is in the log nowhere.                *)
Known(e) == e.commit \in 1..journaled /\ e.nth <= derived[e.commit]
PEvents ==
  /\ \A e \in Members(stored) : Known(e)
  /\ \A e \in Members(recording) : Known(e) /\ e.nth = 0
  /\ \A e \in Members(handoff) : Known(e)
  /\ \A e \in seenIds : Known(e)
PFresh ==
  /\ NoRepeat(stored) /\ NoRepeat(recording)
  /\ Members(stored) \cap Members(recording) = {}

(* What is being handled has been marked, and not been consumed.             *)
PUnit ==
  /\ unit.by = "none" => unit = NoUnit
  /\ Members(unit.out) \subseteq 1..position /\ NoRepeat(unit.out)
  /\ unit.event # NoEvent => unit.event \in seenIds /\ unit.event \notin consumed.now

(* A commit behind the cursor has its scalars, or is about to get them.      *)
Settled(c) == InLog(c) \/ c \in lost
PScalars ==
  /\ \A c \in 1..position : Settled(c) \/ c \in Members(unit.out)
  /\ \A c \in 1..(emitFrom - 1) : Settled(c)
  /\ \A c \in 1..pipeDisk.position : Settled(c)

(* A commit has had one more than there were mishaps only if both the cursor *)
(* and, between two units, the checkpoint are past it.                       *)
PDerived ==
  \A c \in Commits :
    /\ derived[c] <= 1 + mishaps
    /\ derived[c] > mishaps =>
         /\ c <= position /\ c \notin Members(unit.out)
         /\ unit = NoUnit => c <= pipeDisk.position

(* While the worker only consumes nothing else is heard, and what it has     *)
(* heard lies behind it in the log, unless a Replay ran in between.          *)
Heard(e) == \E i \in DOMAIN stored : i <= worker.next /\ stored[i] = e
PConsumed ==
  /\ consumed.now \subseteq seenIds
  /\ worker.upTo # NoEvent => worker.at \in {"open", "scan"}
  /\ ~crossed /\ worker.upTo # NoEvent =>
       /\ unit = NoUnit /\ ~replay.on
       /\ worker.at = "open" => consumed.now = {}
       /\ worker.at = "scan" => \A e \in consumed.now : Heard(e)
  /\ crossed \/ twice = {}

PTypes == PNumbers /\ PEventTypes /\ PWorkTypes
PFacts == PEvents /\ PFresh /\ PUnit /\ PScalars /\ PDerived /\ PConsumed
PInv == PTypes /\ PFacts
-----------------------------------------------------------------------------
LEMMA Sizes ==
  PInv => /\ MaxCommits \in Nat /\ MaxMishaps \in Nat /\ journaled \in Nat /\ position \in Nat
          /\ position <= journaled /\ journaled <= MaxCommits /\ mishaps \in Nat
          /\ emitFrom \in Nat \ {0} /\ Len(stored) \in Nat
          /\ \A c \in Commits : derived[c] \in Nat
BY PipelineAssumption DEF PInv, PTypes, PNumbers, PEventTypes, MaxDerived

LEMMA KnownStays ==
  ASSUME PInv, journaled' \in Nat, journaled <= journaled',
         \A c \in Commits : derived'[c] \in Nat /\ derived[c] <= derived'[c]
  PROVE  \A e \in StoredEvents : Known(e) => Known(e)'
<1> SUFFICES ASSUME NEW e \in StoredEvents, Known(e) PROVE Known(e)'
  OBVIOUS
<1>1. e.commit \in Commits /\ e.nth \in Nat
  BY DEF StoredEvents
<1>2. e.commit \in Nat /\ 1 <= e.commit /\ e.commit <= journaled /\ e.nth <= derived[e.commit]
  BY Sizes, <1>1 DEF Known
<1>3. derived[e.commit] \in Nat /\ derived'[e.commit] \in Nat /\ derived[e.commit] <= derived'[e.commit]
  BY Sizes, <1>1
<1>4. e.nth <= derived'[e.commit]
  BY <1>1, <1>2, <1>3
<1>5. e.commit \in 1..journaled'
  BY Sizes, <1>2
<1> QED
  BY <1>4, <1>5 DEF Known

LEMMA SettledStays ==
  ASSUME Members(stored) \subseteq Members(stored'), lost \subseteq lost'
  PROVE  \A c : Settled(c) => Settled(c)'
<1> SUFFICES ASSUME NEW c, Settled(c) PROVE Settled(c)'
  OBVIOUS
<1>1. CASE InLog(c)
  <2>1. PICK i \in DOMAIN stored : stored[i].commit = c /\ stored[i].nth > 0
    BY <1>1 DEF InLog
  <2>2. stored[i] \in Members(stored')
    BY <2>1 DEF Members
  <2>3. PICK j \in DOMAIN stored' : stored'[j] = stored[i]
    BY <2>2 DEF Members
  <2> QED
    BY <2>1, <2>3 DEF InLog, Settled
<1>2. CASE c \in lost
  BY <1>2 DEF Settled
<1> QED
  BY <1>1, <1>2 DEF Settled

LEMMA StoredAppended ==
  ASSUME NEW S, NEW q \in Seq(S), NEW k \in S, NoRepeat(q), k \notin Members(q)
  PROVE  /\ Append(q, k) \in Seq(S) /\ NoRepeat(Append(q, k))
         /\ Members(Append(q, k)) = Members(q) \cup {k}
         /\ Len(q) \in Nat /\ Len(Append(q, k)) = Len(q) + 1
         /\ \A i \in DOMAIN q : i \in DOMAIN Append(q, k) /\ Append(q, k)[i] = q[i]
<1>1. /\ Append(q, k) \in Seq(S) /\ Len(q) \in Nat /\ Len(Append(q, k)) = Len(q) + 1
      /\ \A i \in 1..Len(q) : Append(q, k)[i] = q[i]
  BY AppendProperties
<1>2. DOMAIN q = 1..Len(q) /\ DOMAIN Append(q, k) = 1..Len(q) + 1
  BY <1>1
<1>3. \A i \in DOMAIN q : i \in DOMAIN Append(q, k) /\ Append(q, k)[i] = q[i]
  BY <1>1, <1>2
<1> QED
  BY <1>1, <1>3, Appended

(* A longer log settles and has been heard of no less. *)
LEMMA LogGrows ==
  ASSUME PInv, UNCHANGED <<journaled, worker, replay, pipeDisk>>,
         Len(stored) \in Nat, Len(stored') \in Nat, Len(stored) <= Len(stored'),
         \A i \in DOMAIN stored : i \in DOMAIN stored' /\ stored'[i] = stored[i]
  PROVE  /\ \A e : Heard(e) => Heard(e)'
         /\ worker' \in [at : {"down", "open", "scan", "wait", "closing", "closed"},
                         next : Nat, end : 0..Len(stored'), upTo : StoredEvents \cup {NoEvent}]
         /\ replay' \in [on : BOOLEAN, next : Nat, end : 0..Len(stored')]
         /\ pipeDisk' \in [event : StoredEvents \cup {NoEvent}, segments : 0..Len(stored'),
                           position : 0..journaled]
<1>1. 0..Len(stored) \subseteq 0..Len(stored')
  OBVIOUS
<1>2. \A e : Heard(e) => Heard(e)'
  BY DEF Heard
<1>3. worker' \in [at : {"down", "open", "scan", "wait", "closing", "closed"},
                   next : Nat, end : 0..Len(stored'), upTo : StoredEvents \cup {NoEvent}]
  BY <1>1 DEF PInv, PTypes, PWorkTypes
<1>4. replay' \in [on : BOOLEAN, next : Nat, end : 0..Len(stored')]
  BY <1>1 DEF PInv, PTypes, PWorkTypes
<1>5. pipeDisk' \in [event : StoredEvents \cup {NoEvent}, segments : 0..Len(stored'),
                     position : 0..journaled]
  BY <1>1 DEF PInv, PTypes, PWorkTypes
<1> QED
  BY <1>2, <1>3, <1>4, <1>5

LEMMA MishapsGrow ==
  ASSUME PInv, UNCHANGED <<derived, unit, position, pipeDisk>>, mishaps' \in mishaps..MaxMishaps
  PROVE  PDerived'
<1> SUFFICES ASSUME NEW c \in Commits
             PROVE  /\ derived[c] <= 1 + mishaps'
                    /\ derived[c] > mishaps' =>
                         /\ c <= position /\ c \notin Members(unit.out)
                         /\ unit = NoUnit => c <= pipeDisk.position
  BY DEF PDerived
<1>1. /\ derived[c] <= 1 + mishaps
      /\ derived[c] > mishaps =>
           /\ c <= position /\ c \notin Members(unit.out)
           /\ unit = NoUnit => c <= pipeDisk.position
  BY DEF PInv, PFacts, PDerived
<1>2. derived[c] \in Nat /\ mishaps \in Nat /\ mishaps' \in Nat /\ mishaps <= mishaps'
  BY Sizes
<1> QED
  BY <1>1, <1>2

(* A step that moves only the worker, or has a mishap, keeps all that is not *)
(* about the worker.                                                         *)
LEMMA OnlyTheWorker ==
  ASSUME PInv,
         UNCHANGED <<journaled, stored, recording, handoff, replay, unit, seenIds, lastEvent,
                     scanned, pipeCursor, position, fresh, emitFrom, pipeDisk, derived, lost,
                     consumed, twice, crossed>>,
         mishaps' \in mishaps..MaxMishaps
  PROVE  PNumbers' /\ PEventTypes' /\ PEvents' /\ PFresh' /\ PUnit' /\ PScalars' /\ PDerived'
<1>1. mishaps' \in 0..MaxMishaps /\ mishaps <= mishaps' /\ mishaps' \in Nat
  BY Sizes
<1>2. PNumbers' /\ PEventTypes'
  BY <1>1 DEF PInv, PTypes, PNumbers, PEventTypes
<1>3. PEvents' /\ PFresh' /\ PUnit'
  BY DEF PInv, PFacts, PEvents, PFresh, PUnit, Known
<1>4. PScalars'
  BY DEF PInv, PFacts, PScalars, Settled, InLog
<1>5. PDerived'
  BY MishapsGrow
<1> QED
  BY <1>2, <1>3, <1>4, <1>5

LEMMA OpenScanStep ==
  PInv /\ OpenScan => PInv'
<1> SUFFICES ASSUME PInv, OpenScan PROVE PInv'
  OBVIOUS
<1>1. /\ worker.at = "open" /\ worker' = [worker EXCEPT !.at = "scan", !.next = scanned, !.end = Len(stored)]
      /\ UNCHANGED <<journaled, stored, recording, handoff, replay, unit, seenIds, lastEvent,
                     scanned, pipeCursor, position, fresh, emitFrom, pipeDisk, derived, lost,
                     consumed, twice, crossed, mishaps>>
  BY DEF OpenScan, liveVars, ghosts
<1>2. mishaps' \in mishaps..MaxMishaps
  BY <1>1, Sizes DEF PInv, PTypes, PNumbers
<1>3. PWorkTypes'
  <2>1. scanned \in Nat /\ Len(stored) \in 0..Len(stored)
    BY Sizes DEF PInv, PTypes, PNumbers
  <2>2. worker' \in [at : {"down", "open", "scan", "wait", "closing", "closed"},
                     next : Nat, end : 0..Len(stored), upTo : StoredEvents \cup {NoEvent}]
    BY <1>1, <2>1 DEF PInv, PTypes, PWorkTypes
  <2> QED
    BY <1>1, <2>2 DEF PInv, PTypes, PWorkTypes
<1>4. worker'.at = "scan" /\ worker'.upTo = worker.upTo
  BY <1>1 DEF PInv, PTypes, PWorkTypes
<1>5. PConsumed'
  BY <1>1, <1>4 DEF PInv, PFacts, PConsumed
<1> QED
  BY <1>1, <1>2, <1>3, <1>5, OnlyTheWorker DEF PInv, PTypes, PFacts

LEMMA WorkerMoves ==
  PInv /\ (Ticks \/ StopWorker \/ ScanFails) => PInv'
<1> SUFFICES ASSUME PInv, Ticks \/ StopWorker \/ ScanFails PROVE PInv'
  OBVIOUS
<1>1. UNCHANGED <<journaled, stored, recording, handoff, replay, unit, seenIds, lastEvent,
                  scanned, pipeCursor, position, fresh, emitFrom, pipeDisk, derived, lost,
                  consumed, twice, crossed>>
  BY DEF Ticks, StopWorker, ScanFails, liveVars, ghosts
<1>2. mishaps' \in mishaps..MaxMishaps
  <2>1. mishaps \in 0..MaxMishaps
    BY DEF PInv, PTypes, PNumbers
  <2> QED
    BY <2>1, Sizes DEF Ticks, StopWorker, ScanFails, ghosts, Mishap
<1>3. worker'.upTo = NoEvent /\ PWorkTypes'
  <2>1. CASE ScanFails
    <3>1. worker' = [at |-> "wait", next |-> 0, end |-> 0, upTo |-> NoEvent]
      BY <2>1 DEF ScanFails, NoWorker
    <3> QED
      BY <1>1, <3>1, Sizes DEF PInv, PTypes, PWorkTypes
  <2>2. CASE Ticks \/ StopWorker
    <3>1. worker.at = "wait"
      BY <2>2 DEF Ticks, StopWorker
    <3>2. worker.upTo = NoEvent
      BY <3>1 DEF PInv, PFacts, PConsumed
    <3>3. \E at \in {"open", "closing"} : worker' = [worker EXCEPT !.at = at]
      BY <2>2 DEF Ticks, StopWorker
    <3> QED
      BY <1>1, <3>2, <3>3 DEF PInv, PTypes, PWorkTypes
  <2> QED
    BY <2>1, <2>2
<1>4. PConsumed'
  BY <1>1, <1>3 DEF PInv, PFacts, PConsumed
<1> QED
  BY <1>1, <1>2, <1>3, <1>4, OnlyTheWorker DEF PInv, PTypes, PFacts
-----------------------------------------------------------------------------
(* A commit lands, and the Recorder appends. *)

LEMMA CommitLandsStep ==
  PInv /\ CommitLands => PInv'
<1> SUFFICES ASSUME PInv, CommitLands PROVE PInv'
  OBVIOUS
<1>e. PICK e : e = [commit |-> journaled + 1, nth |-> 0]
  OBVIOUS
<1>1. /\ journaled < MaxCommits /\ journaled' = journaled + 1
      /\ recording' = IF Len(recording) < QueueCap THEN Append(recording, e) ELSE recording
      /\ UNCHANGED <<stored, handoff, worker, replay, unit, seenIds, lastEvent, scanned,
                     pipeCursor, position, fresh, emitFrom, pipeDisk, derived, lost, consumed,
                     twice, crossed, mishaps>>
  BY <1>e DEF CommitLands, liveVars, ghosts
<1>2. journaled' \in Nat /\ journaled <= journaled' /\ journaled' <= MaxCommits /\ journaled' >= 1
  BY <1>1, Sizes
<1>3. e \in StoredEvents
  <2>1. journaled + 1 \in Commits
    BY <1>1, Sizes DEF Commits
  <2>2. 0 \in 0..MaxDerived
    BY PipelineAssumption DEF MaxDerived
  <2> QED
    BY <1>e, <2>1, <2>2 DEF StoredEvents
<1>4. ~Known(e) /\ Known(e)' /\ e.nth = 0
  <2>1. ~Known(e)
    BY <1>e, Sizes DEF Known
  <2>2. derived'[journaled + 1] >= 0
    <3>1. journaled + 1 \in Commits
      BY <1>1, Sizes DEF Commits
    <3> QED
      BY <1>1, <3>1, Sizes
  <2>3. Known(e)'
    BY <1>1, <1>2, <1>e, <2>2 DEF Known
  <2>4. e.nth = 0
    BY <1>e
  <2> QED
    BY <2>1, <2>3, <2>4
<1>5. \A d \in StoredEvents : Known(d) => Known(d)'
  <2>1. \A c \in Commits : derived'[c] \in Nat /\ derived[c] <= derived'[c]
    BY <1>1, Sizes
  <2> QED
    BY <1>2, <2>1, KnownStays
<1>6. /\ stored \in Seq(StoredEvents) /\ recording \in Seq(StoredEvents)
      /\ handoff \in Seq(StoredEvents) /\ seenIds \subseteq StoredEvents
  BY DEF PInv, PTypes, PEventTypes
<1>7. /\ Members(stored) \subseteq StoredEvents /\ Members(recording) \subseteq StoredEvents
      /\ Members(handoff) \subseteq StoredEvents
  BY <1>6 DEF Members
<1>8. /\ recording' \in Seq(StoredEvents) /\ Len(recording') <= QueueCap
      /\ NoRepeat(recording')
      /\ Members(recording') \subseteq Members(recording) \cup {e}
  <2>1. Len(recording) <= QueueCap /\ NoRepeat(recording) /\ e \notin Members(recording)
    BY <1>4 DEF PInv, PTypes, PEventTypes, PFacts, PFresh, PEvents
  <2>2. CASE Len(recording) < QueueCap
    <3>1. recording' = Append(recording, e)
      BY <1>1, <2>2
    <3>2. Len(Append(recording, e)) = Len(recording) + 1 /\ Len(recording) \in Nat
      BY <1>6, <1>3, AppendProperties
    <3>3. Len(recording') <= QueueCap
      BY <2>2, <3>1, <3>2, PipelineAssumption
    <3> QED
      BY <1>3, <1>6, <2>1, <3>1, <3>3, Appended
  <2>3. CASE ~(Len(recording) < QueueCap)
    BY <1>1, <1>6, <2>1, <2>3
  <2> QED
    BY <2>2, <2>3
<1>9. PTypes'
  <2>1. PNumbers'
    BY <1>1, <1>2, Sizes DEF PInv, PTypes, PNumbers
  <2>2. PEventTypes'
    BY <1>1, <1>8 DEF PInv, PTypes, PEventTypes
  <2>3. pipeDisk' \in [event : StoredEvents \cup {NoEvent}, segments : 0..Len(stored'),
                       position : 0..journaled']
    <3>1. 0..journaled \subseteq 0..journaled'
      BY <1>2, Sizes
    <3> QED
      BY <1>1, <3>1 DEF PInv, PTypes, PWorkTypes
  <2>4. PWorkTypes'
    BY <1>1, <2>3 DEF PInv, PTypes, PWorkTypes
  <2> QED
    BY <2>1, <2>2, <2>4 DEF PTypes
<1>10. PEvents'
  <2>1. /\ \A d \in Members(stored) : Known(d)
        /\ \A d \in Members(recording) : Known(d) /\ d.nth = 0
        /\ \A d \in Members(handoff) : Known(d)
        /\ \A d \in seenIds : Known(d)
    BY DEF PInv, PFacts, PEvents
  <2>2. \A d \in Members(stored) : Known(d)'
    BY <1>5, <1>7, <2>1
  <2>3. \A d \in Members(recording') : Known(d)' /\ d.nth = 0
    BY <1>4, <1>5, <1>7, <1>8, <2>1
  <2>4. \A d \in Members(handoff) : Known(d)'
    BY <1>5, <1>7, <2>1
  <2>5. \A d \in seenIds : Known(d)'
    BY <1>5, <1>6, <2>1
  <2> QED
    BY <1>1, <2>2, <2>3, <2>4, <2>5 DEF PEvents
<1>11. PFresh'
  <2>1. e \notin Members(stored) /\ Members(stored) \cap Members(recording) = {} /\ NoRepeat(stored)
    BY <1>4 DEF PInv, PFacts, PFresh, PEvents
  <2> QED
    BY <1>1, <1>8, <2>1 DEF PFresh
<1>12. PUnit' /\ PScalars' /\ PDerived' /\ PConsumed'
  <2>1. PUnit' /\ PDerived'
    BY <1>1 DEF PInv, PFacts, PUnit, PDerived
  <2>2. PScalars'
    BY <1>1 DEF PInv, PFacts, PScalars, Settled, InLog
  <2>3. PConsumed'
    BY <1>1 DEF PInv, PFacts, PConsumed, Heard
  <2> QED
    BY <2>1, <2>2, <2>3
<1> QED
  BY <1>9, <1>10, <1>11, <1>12 DEF PInv, PFacts

LEMMA RecorderAppendsStep ==
  PInv /\ RecorderAppends => PInv'
<1> SUFFICES ASSUME PInv, RecorderAppends PROVE PInv'
  OBVIOUS
<1> DEFINE e == Head(recording)
<1>1. /\ recording # <<>> /\ recording' = Tail(recording)
      /\ UNCHANGED <<journaled, worker, replay, unit, seenIds, lastEvent, scanned, pipeCursor,
                     position, fresh, emitFrom, pipeDisk, derived, lost, consumed, twice, crossed>>
  BY DEF RecorderAppends, liveVars
<1>2. /\ stored' \in {stored, Append(stored, e)}
      /\ handoff' = handoff \/ (Len(handoff) < HandoffCap /\ handoff' = Append(handoff, e))
      /\ mishaps' = mishaps \/ (mishaps < MaxMishaps /\ mishaps' = mishaps + 1)
  BY DEF RecorderAppends, Mishap
<1>3. /\ stored \in Seq(StoredEvents) /\ recording \in Seq(StoredEvents)
      /\ handoff \in Seq(StoredEvents) /\ Len(recording) <= QueueCap /\ Len(handoff) <= HandoffCap
  BY DEF PInv, PTypes, PEventTypes
<1>4. NoRepeat(stored) /\ NoRepeat(recording) /\ Members(stored) \cap Members(recording) = {}
  BY DEF PInv, PFacts, PFresh
<1>5. /\ recording' \in Seq(StoredEvents) /\ NoRepeat(recording') /\ e \in Members(recording)
      /\ Members(recording') = Members(recording) \ {e}
  BY <1>1, <1>3, <1>4, Popped
<1>6. e \in StoredEvents /\ e \notin Members(stored) /\ Known(e)
  <2>1. Members(recording) \subseteq StoredEvents
    BY <1>3 DEF Members
  <2> QED
    BY <1>4, <1>5, <2>1 DEF PInv, PFacts, PEvents
<1>7. Len(recording') <= QueueCap
  <2>1. Len(Tail(recording)) = Len(recording) - 1 /\ Len(recording) \in Nat
    BY <1>1, <1>3, HeadTailProperties
  <2> QED
    BY <1>1, <1>3, <2>1, PipelineAssumption
<1> HIDE DEF e
<1>8. /\ stored' \in Seq(StoredEvents) /\ NoRepeat(stored')
      /\ Members(stored) \subseteq Members(stored') /\ Members(stored') \subseteq Members(stored) \cup {e}
      /\ Len(stored) \in Nat /\ Len(stored') \in Nat /\ Len(stored) <= Len(stored')
      /\ \A i \in DOMAIN stored : i \in DOMAIN stored' /\ stored'[i] = stored[i]
  <2>1. CASE stored' = stored
    BY <1>3, <1>4, <2>1, LenProperties
  <2>2. CASE stored' = Append(stored, e)
    BY <1>3, <1>4, <1>6, <2>2, StoredAppended
  <2> QED
    BY <1>2, <2>1, <2>2
<1>9. /\ handoff' \in Seq(StoredEvents) /\ Len(handoff') <= HandoffCap
      /\ Members(handoff') \subseteq Members(handoff) \cup {e}
  <2>1. CASE handoff' = handoff
    BY <1>3, <2>1
  <2>2. CASE Len(handoff) < HandoffCap /\ handoff' = Append(handoff, e)
    <3>1. Len(Append(handoff, e)) = Len(handoff) + 1 /\ Len(handoff) \in Nat
      BY <1>3, <1>6, AppendProperties
    <3>2. Len(handoff') <= HandoffCap
      BY <2>2, <3>1, PipelineAssumption
    <3> QED
      BY <1>3, <1>6, <2>2, <3>2, Appended
  <2> QED
    BY <1>2, <2>1, <2>2
<1>10. mishaps' \in mishaps..MaxMishaps /\ mishaps' \in 0..MaxMishaps
  <2>1. mishaps \in 0..MaxMishaps
    BY DEF PInv, PTypes, PNumbers
  <2> QED
    BY <1>2, <2>1, Sizes
<1>11. PTypes'
  <2>1. PNumbers'
    BY <1>1, <1>8, <1>10, Sizes DEF PInv, PTypes, PNumbers
  <2>2. PEventTypes'
    BY <1>1, <1>5, <1>7, <1>8, <1>9 DEF PInv, PTypes, PEventTypes
  <2>4. PWorkTypes'
    BY <1>1, <1>8, LogGrows DEF PInv, PTypes, PWorkTypes
  <2> QED
    BY <2>1, <2>2, <2>4 DEF PTypes
<1>12. PEvents'
  <2>1. /\ \A d \in Members(stored) : Known(d)
        /\ \A d \in Members(recording) : Known(d) /\ d.nth = 0
        /\ \A d \in Members(handoff) : Known(d)
        /\ \A d \in seenIds : Known(d)
    BY DEF PInv, PFacts, PEvents
  <2>2. \A d : Known(d)' = Known(d)
    BY <1>1 DEF Known
  <2> QED
    BY <1>1, <1>5, <1>6, <1>8, <1>9, <2>1, <2>2 DEF PEvents
<1>13. PFresh'
  BY <1>4, <1>5, <1>8 DEF PFresh
<1>14. PUnit' /\ PScalars' /\ PConsumed'
  <2>1. PUnit'
    BY <1>1 DEF PInv, PFacts, PUnit
  <2>2. PScalars'
    <3>1. \A c : Settled(c) => Settled(c)'
      BY <1>1, <1>8, SettledStays
    <3> QED
      BY <1>1, <3>1 DEF PInv, PFacts, PScalars
  <2>3. PConsumed'
    <3>1. \A d : Heard(d) => Heard(d)'
      BY <1>1, <1>8, LogGrows
    <3> QED
      BY <1>1, <3>1 DEF PInv, PFacts, PConsumed
  <2> QED
    BY <2>1, <2>2, <2>3
<1>15. PDerived'
  BY <1>1, <1>10, MishapsGrow
<1> QED
  BY <1>11, <1>12, <1>13, <1>14, <1>15 DEF PInv, PFacts
-----------------------------------------------------------------------------
(* The unit of work: a derived event is emitted, the unit ends. *)

LEMMA EmitStep ==
  PInv /\ Emit => PInv'
<1> SUFFICES ASSUME PInv, Emit PROVE PInv'
  OBVIOUS
<1>c. PICK c : c = Head(unit.out)
  OBVIOUS
<1>e. PICK e : e = [commit |-> c, nth |-> derived[c] + 1]
  OBVIOUS
<1>1. /\ unit.out # <<>> /\ derived' = [derived EXCEPT ![c] = @ + 1]
      /\ seenIds' = seenIds \cup {e} /\ unit' = [unit EXCEPT !.out = Tail(@)]
      /\ consumed' = [now |-> consumed.now \cup {e}, ever |-> consumed.ever \cup {e}]
      /\ twice' = twice \cup ({e} \cap consumed.now)
      /\ UNCHANGED <<journaled, recording, handoff, worker, replay, lastEvent, scanned,
                     pipeCursor, position, fresh, emitFrom, pipeDisk, crossed>>
  BY <1>c, <1>e DEF Emit, Hear
<1>2. \/ stored' = Append(stored, e) /\ UNCHANGED <<lost, mishaps>>
      \/ mishaps < MaxMishaps /\ mishaps' = mishaps + 1 /\ lost' = lost \cup {c} /\ stored' = stored
  BY <1>c, <1>e DEF Emit, Mishap
<1>3. /\ unit.out \in Seq(Commits) /\ NoRepeat(unit.out) /\ Members(unit.out) \subseteq 1..position
      /\ unit.event # NoEvent => unit.event \in seenIds /\ unit.event \notin consumed.now
      /\ unit.by # "none"
  <2>1. unit.by # "none"
    <3>1. unit # NoUnit
      BY <1>1 DEF NoUnit
    <3> QED
      BY <3>1 DEF PInv, PFacts, PUnit
  <2> QED
    BY <2>1 DEF PInv, PTypes, PWorkTypes, PFacts, PUnit
<1>4. /\ Tail(unit.out) \in Seq(Commits) /\ NoRepeat(Tail(unit.out)) /\ c \in Members(unit.out)
      /\ Members(Tail(unit.out)) = Members(unit.out) \ {c}
  BY <1>c, <1>1, <1>3, Popped
<1>5. /\ unit'.by = unit.by /\ unit'.event = unit.event /\ unit'.out = Tail(unit.out)
      /\ unit' \in [by : {"none", "scan", "handoff", "replay", "close"},
                    event : StoredEvents \cup {NoEvent}, out : Seq(Commits)]
  BY <1>1, <1>4 DEF PInv, PTypes, PWorkTypes
<1>6. unit # NoUnit /\ unit' # NoUnit
  BY <1>3, <1>5 DEF NoUnit
<1>7. c \in 1..position /\ c \in Commits /\ c \in 1..journaled
  <2>1. c \in 1..position
    BY <1>3, <1>4
  <2> QED
    BY <2>1, Sizes DEF Commits
<1>8. /\ derived[c] \in Nat /\ derived[c] <= mishaps
      /\ derived \in [Commits -> 0..MaxDerived] /\ derived[c] + 1 \in 0..MaxDerived
  <2>1. derived[c] \in Nat /\ mishaps \in Nat /\ mishaps <= MaxMishaps
    BY <1>7, Sizes DEF PInv, PTypes, PNumbers
  <2>2. derived[c] <= mishaps
    BY <1>4, <1>7, <2>1 DEF PInv, PFacts, PDerived
  <2>3. derived[c] + 1 \in 0..MaxDerived
    BY <2>1, <2>2, Sizes DEF MaxDerived
  <2> QED
    BY <2>1, <2>2, <2>3 DEF PInv, PTypes, PEventTypes
<1>9. /\ derived' \in [Commits -> 0..MaxDerived] /\ derived'[c] = derived[c] + 1
      /\ \A d \in Commits : d # c => derived'[d] = derived[d]
      /\ \A d \in Commits : derived[d] \in Nat /\ derived'[d] \in Nat /\ derived[d] <= derived'[d]
  <2>1. derived'[c] = derived[c] + 1 /\ \A d \in Commits : d # c => derived'[d] = derived[d]
    BY <1>1, <1>7, <1>8
  <2>2. derived' \in [Commits -> 0..MaxDerived]
    BY <1>1, <1>7, <1>8
  <2>3. \A d \in Commits : derived[d] \in Nat
    BY Sizes
  <2> QED
    BY <1>8, <2>1, <2>2, <2>3
<1>10. e \in StoredEvents /\ e.nth > 0 /\ e.commit = c /\ ~Known(e) /\ Known(e)'
  <2>1. e \in StoredEvents /\ e.nth > 0 /\ e.commit = c /\ e.nth = derived[c] + 1
    BY <1>e, <1>7, <1>8 DEF StoredEvents
  <2>2. ~Known(e)
    BY <1>8, <2>1 DEF Known
  <2>3. Known(e)'
    BY <1>1, <1>7, <1>8, <1>9, <2>1 DEF Known
  <2> QED
    BY <2>1, <2>2, <2>3
<1>11. /\ e \notin Members(stored) /\ e \notin Members(recording)
       /\ e \notin seenIds /\ e \notin consumed.now
  BY <1>10 DEF PInv, PFacts, PEvents, PConsumed
<1>12. stored \in Seq(StoredEvents) /\ NoRepeat(stored) /\ Members(stored) \cap Members(recording) = {}
  BY DEF PInv, PTypes, PEventTypes, PFacts, PFresh
<1>13. /\ stored' \in Seq(StoredEvents) /\ NoRepeat(stored')
       /\ Members(stored) \subseteq Members(stored') /\ Members(stored') \subseteq Members(stored) \cup {e}
       /\ Len(stored) \in Nat /\ Len(stored') \in Nat /\ Len(stored) <= Len(stored')
       /\ \A i \in DOMAIN stored : i \in DOMAIN stored' /\ stored'[i] = stored[i]
  <2>1. CASE stored' = stored
    BY <1>12, <2>1, LenProperties
  <2>2. CASE stored' = Append(stored, e)
    BY <1>10, <1>11, <1>12, <2>2, StoredAppended
  <2> QED
    BY <1>2, <2>1, <2>2
<1>14. lost \subseteq lost' /\ lost' \subseteq lost \cup {c} /\ Settled(c)'
  <2>1. CASE stored' = Append(stored, e) /\ UNCHANGED <<lost, mishaps>>
    <3>1. e \in Members(stored')
      BY <1>10, <1>11, <1>12, <2>1, StoredAppended
    <3>2. InLog(c)'
      BY <1>10, <3>1 DEF InLog, Members
    <3> QED
      BY <2>1, <3>2 DEF Settled
  <2>2. CASE lost' = lost \cup {c}
    BY <2>2 DEF Settled
  <2> QED
    BY <1>2, <2>1, <2>2
<1>15. mishaps' \in Nat /\ mishaps <= mishaps' /\ mishaps' <= MaxMishaps /\ mishaps \in Nat
  <2>1. mishaps \in Nat /\ mishaps <= MaxMishaps
    BY Sizes DEF PInv, PTypes, PNumbers
  <2> QED
    BY <1>2, <2>1, Sizes
<1>16. \A d \in StoredEvents : Known(d) => Known(d)'
  <2>1. journaled' \in Nat /\ journaled <= journaled'
    BY <1>1, Sizes
  <2> QED
    BY <1>9, <2>1, KnownStays
<1>17. PTypes'
  <2>1. PNumbers'
    BY <1>1, <1>13, <1>15, Sizes DEF PInv, PTypes, PNumbers
  <2>2. PEventTypes'
    BY <1>1, <1>7, <1>9, <1>10, <1>13, <1>14 DEF PInv, PTypes, PEventTypes
  <2>3. consumed' \in [now : SUBSET StoredEvents, ever : SUBSET StoredEvents]
        /\ twice' \subseteq consumed'.now
    BY <1>1, <1>10, <1>11 DEF PInv, PTypes, PWorkTypes
  <2>4. PWorkTypes'
    BY <1>1, <1>5, <1>13, <2>3, LogGrows DEF PWorkTypes
  <2> QED
    BY <2>1, <2>2, <2>4 DEF PTypes
<1>18. PEvents'
  <2>1. /\ \A d \in Members(stored) : Known(d)
        /\ \A d \in Members(recording) : Known(d) /\ d.nth = 0
        /\ \A d \in Members(handoff) : Known(d)
        /\ \A d \in seenIds : Known(d)
    BY DEF PInv, PFacts, PEvents
  <2>2. /\ Members(stored) \subseteq StoredEvents /\ Members(recording) \subseteq StoredEvents
        /\ Members(handoff) \subseteq StoredEvents /\ seenIds \subseteq StoredEvents
    BY DEF Members, PInv, PTypes, PEventTypes
  <2>3. \A d \in Members(stored') : Known(d)'
    BY <1>10, <1>13, <1>16, <2>1, <2>2
  <2>4. \A d \in Members(recording) : Known(d)' /\ d.nth = 0
    BY <1>16, <2>1, <2>2
  <2>5. \A d \in Members(handoff) : Known(d)'
    BY <1>16, <2>1, <2>2
  <2>6. \A d \in seenIds' : Known(d)'
    BY <1>1, <1>10, <1>16, <2>1, <2>2
  <2> QED
    BY <1>1, <2>3, <2>4, <2>5, <2>6 DEF PEvents
<1>19. PFresh'
  BY <1>1, <1>11, <1>12, <1>13 DEF PFresh, PInv, PFacts
<1>20. PUnit'
  <2>1. unit.event # e
    BY <1>3, <1>10, <1>11 DEF NoEvent, StoredEvents
  <2>2. unit.event # NoEvent => unit.event \in seenIds' /\ unit.event \notin consumed'.now
    BY <1>1, <1>3, <2>1
  <2> QED
    BY <1>1, <1>3, <1>4, <1>5, <2>2 DEF PUnit
<1>21. PScalars'
  <2>1. \A d : Settled(d) => Settled(d)'
    BY <1>13, <1>14, SettledStays
  <2>2. \A d \in 1..position : Settled(d) \/ d = c \/ d \in Members(unit'.out)
    BY <1>4, <1>5 DEF PInv, PFacts, PScalars
  <2> QED
    BY <1>1, <1>14, <2>1, <2>2 DEF PInv, PFacts, PScalars
<1>22. PDerived'
  <2> SUFFICES ASSUME NEW d \in Commits
               PROVE  /\ derived'[d] <= 1 + mishaps'
                      /\ derived'[d] > mishaps' => d <= position /\ d \notin Members(unit'.out)
    BY <1>1, <1>6 DEF PDerived
  <2>1. CASE d = c
    <3>1. derived'[d] <= 1 + mishaps'
      BY <1>8, <1>9, <1>15, <2>1
    <3>2. d <= position /\ d \notin Members(unit'.out)
      BY <1>4, <1>5, <1>7, <2>1, Sizes
    <3> QED
      BY <3>1, <3>2
  <2>2. CASE d # c
    <3>1. /\ derived[d] <= 1 + mishaps
          /\ derived[d] > mishaps => d <= position /\ d \notin Members(unit.out)
      BY DEF PInv, PFacts, PDerived
    <3>2. derived'[d] = derived[d] /\ derived[d] \in Nat
      BY <1>9, <2>2
    <3> QED
      BY <1>4, <1>5, <1>15, <3>1, <3>2
  <2> QED
    BY <2>1, <2>2
<1>23. PConsumed'
  <2>1. consumed.now \subseteq seenIds /\ (crossed \/ twice = {})
        /\ (worker.upTo # NoEvent => worker.at \in {"open", "scan"} /\ crossed)
    BY <1>6 DEF PInv, PFacts, PConsumed
  <2> QED
    BY <1>1, <1>11, <2>1 DEF PConsumed
<1> QED
  BY <1>17, <1>18, <1>19, <1>20, <1>21, <1>22, <1>23 DEF PInv, PFacts

LEMMA FinishUnitStep ==
  PInv /\ FinishUnit => PInv'
<1> SUFFICES ASSUME PInv, FinishUnit PROVE PInv'
  OBVIOUS
<1>1. /\ unit.by # "none" /\ unit.out = <<>> /\ unit' = NoUnit
      /\ UNCHANGED <<journaled, stored, recording, handoff, worker, replay, seenIds, scanned,
                     pipeCursor, position, fresh, emitFrom, derived, lost, crossed>>
  BY DEF FinishUnit
<1>2. \/ /\ pipeDisk' = [event |-> lastEvent', segments |-> pipeCursor, position |-> position]
         /\ mishaps' = mishaps
      \/ mishaps < MaxMishaps /\ mishaps' = mishaps + 1 /\ pipeDisk' = pipeDisk
  BY DEF FinishUnit, Mishap
<1>3. \/ unit.event = NoEvent /\ UNCHANGED <<consumed, twice, lastEvent>>
      \/ /\ unit.event # NoEvent /\ lastEvent' = unit.event
         /\ consumed' = [now |-> consumed.now \cup {unit.event}, ever |-> consumed.ever \cup {unit.event}]
         /\ twice' = twice \cup ({unit.event} \cap consumed.now)
  BY DEF FinishUnit, Hear
<1>4. /\ unit.event # NoEvent => unit.event \in StoredEvents /\ unit.event \in seenIds
                                  /\ unit.event \notin consumed.now
      /\ lastEvent' \in StoredEvents \cup {NoEvent}
  BY <1>3 DEF PInv, PTypes, PEventTypes, PWorkTypes, PFacts, PUnit
<1>5. /\ consumed' \in [now : SUBSET StoredEvents, ever : SUBSET StoredEvents]
      /\ twice' = twice /\ twice \subseteq consumed'.now
      /\ consumed'.now \subseteq consumed.now \cup {unit.event} /\ consumed'.now \subseteq seenIds
  <2>1. /\ consumed \in [now : SUBSET StoredEvents, ever : SUBSET StoredEvents]
        /\ twice \subseteq consumed.now /\ consumed.now \subseteq seenIds
    BY DEF PInv, PTypes, PWorkTypes, PFacts, PConsumed
  <2>2. CASE unit.event = NoEvent
    BY <1>3, <2>1, <2>2
  <2>3. CASE unit.event # NoEvent
    BY <1>3, <1>4, <2>1, <2>3
  <2> QED
    BY <2>2, <2>3
<1>6. Members(unit.out) = {} /\ unit # NoUnit /\ NoUnit.out = <<>> /\ Members(<<>>) = {}
  <2>1. Members(<<>>) = {}
    BY EmptySeq DEF Members
  <2> QED
    BY <1>1, <2>1 DEF NoUnit
<1>7. mishaps' \in mishaps..MaxMishaps /\ mishaps' \in 0..MaxMishaps
  <2>1. mishaps \in 0..MaxMishaps
    BY DEF PInv, PTypes, PNumbers
  <2> QED
    BY <1>2, <2>1, Sizes
<1>8. PTypes'
  <2>1. PNumbers' /\ PEventTypes'
    BY <1>1, <1>4, <1>7 DEF PInv, PTypes, PNumbers, PEventTypes
  <2>2. pipeDisk' \in [event : StoredEvents \cup {NoEvent}, segments : 0..Len(stored),
                       position : 0..journaled]
    BY <1>2, <1>4 DEF PInv, PTypes, PNumbers, PWorkTypes
  <2>3. <<>> \in Seq(Commits) /\ NoEvent \in StoredEvents \cup {NoEvent}
    BY EmptySeq
  <2>4. NoUnit \in [by : {"none", "scan", "handoff", "replay", "close"},
                    event : StoredEvents \cup {NoEvent}, out : Seq(Commits)]
    BY <2>3 DEF NoUnit
  <2>5. PWorkTypes'
    BY <1>1, <1>5, <2>2, <2>4 DEF PInv, PTypes, PWorkTypes
  <2> QED
    BY <2>1, <2>5 DEF PTypes
<1>9. PEvents' /\ PFresh'
  BY <1>1 DEF PInv, PFacts, PEvents, PFresh, Known
<1>10. PUnit'
  <2>1. NoRepeat(<<>>)
    BY EmptySeq DEF NoRepeat
  <2>2. NoUnit.event = NoEvent
    BY DEF NoUnit
  <2> QED
    BY <1>1, <1>6, <2>1, <2>2 DEF PUnit
<1>11. PScalars'
  <2>1. \A c : Settled(c)' = Settled(c)
    BY <1>1 DEF Settled, InLog
  <2>2. \A c \in 1..position : Settled(c)
    BY <1>6 DEF PInv, PFacts, PScalars
  <2>3. \A c \in 1..pipeDisk'.position : Settled(c)
    BY <1>2, <2>2 DEF PInv, PFacts, PScalars
  <2> QED
    BY <1>1, <2>1, <2>2, <2>3 DEF PInv, PFacts, PScalars
<1>12. PDerived'
  <2> SUFFICES ASSUME NEW c \in Commits
               PROVE  /\ derived[c] <= 1 + mishaps'
                      /\ derived[c] > mishaps' => c <= position /\ c <= pipeDisk'.position
    BY <1>1, <1>6 DEF PDerived
  <2>1. derived[c] <= 1 + mishaps /\ (derived[c] > mishaps => c <= position)
    BY DEF PInv, PFacts, PDerived
  <2>2. derived[c] \in Nat /\ mishaps \in Nat
    BY Sizes
  <2>3. CASE pipeDisk' = [event |-> lastEvent', segments |-> pipeCursor, position |-> position]
             /\ mishaps' = mishaps
    BY <2>1, <2>3
  <2>4. CASE mishaps' = mishaps + 1
    BY <2>1, <2>2, <2>4
  <2> QED
    BY <1>2, <2>3, <2>4
<1>13. PConsumed'
  <2>1. (crossed \/ twice = {})
        /\ (worker.upTo # NoEvent => worker.at \in {"open", "scan"} /\ crossed)
    BY <1>6 DEF PInv, PFacts, PConsumed
  <2> QED
    BY <1>1, <1>5, <2>1 DEF PConsumed
<1> QED
  BY <1>8, <1>9, <1>10, <1>11, <1>12, <1>13 DEF PInv, PFacts
-----------------------------------------------------------------------------
(* A unit begins: what it will emit, and how it keeps what has been settled. *)

LEMMA EmitsProperties ==
  ASSUME PInv, NEW to \in position..journaled
  PROVE  /\ Emits(position, to) \in Seq(Commits) /\ NoRepeat(Emits(position, to))
         /\ Members(Emits(position, to)) = {c \in (position + 1)..to : c >= emitFrom}
<1> DEFINE f == FirstEmitted(position)
           s == Emits(position, to)
<1>1. /\ position \in Nat /\ to \in Nat /\ position <= to /\ to <= MaxCommits
      /\ emitFrom \in Nat /\ MaxCommits \in Nat
  BY Sizes
<1>2. f \in Nat /\ f >= position + 1 /\ f >= emitFrom /\ (f = position + 1 \/ f = emitFrom)
  BY <1>1 DEF FirstEmitted
<1>3. s = [i \in 1..(to + 1 - f) |-> f + i - 1]
  BY DEF Emits
<1> HIDE DEF f, s
<1>4. PICK n \in Nat : 1..(to + 1 - f) = 1..n /\ (n = to + 1 - f \/ (n = 0 /\ to + 1 - f < 0))
  <2>1. CASE to + 1 - f >= 0
    <3>1. to + 1 - f \in Nat
      BY <1>1, <1>2, <2>1
    <3> QED
      BY <3>1
  <2>2. CASE ~(to + 1 - f >= 0)
    <3>1. 1..(to + 1 - f) = 1..0 /\ to + 1 - f < 0
      BY <1>1, <1>2, <2>2
    <3> QED
      BY <3>1
  <2> QED
    BY <2>1, <2>2
<1>5. DOMAIN s = 1..n /\ \A i \in 1..n : s[i] = f + i - 1
  BY <1>3, <1>4
<1>6. \A i \in 1..n : f + i - 1 \in Nat /\ f + i - 1 >= f /\ f + i - 1 <= to
  BY <1>1, <1>2, <1>4
<1>7. \A i \in 1..n : s[i] \in Commits
  BY <1>1, <1>2, <1>5, <1>6 DEF Commits
<1>8. s \in Seq(Commits)
  <2>1. s = [i \in 1..n |-> f + i - 1]
    BY <1>3, <1>4
  <2>2. s \in [1..n -> Commits]
    BY <1>5, <1>7, <2>1
  <2> QED
    BY <2>2, SeqDef
<1>9. NoRepeat(s)
  <2> SUFFICES ASSUME NEW i \in 1..n, NEW j \in 1..n, s[i] = s[j] PROVE i = j
    BY <1>5 DEF NoRepeat
  <2>1. f + i - 1 = f + j - 1
    BY <1>5
  <2> QED
    BY <1>2, <2>1
<1>10. ASSUME NEW c \in Members(s) PROVE c \in (position + 1)..to /\ c >= emitFrom
  <2>1. PICK i \in 1..n : c = f + i - 1
    BY <1>5, <1>10 DEF Members
  <2>2. c \in Nat /\ c >= f /\ c <= to
    BY <1>6, <2>1
  <2> QED
    BY <1>1, <1>2, <2>2
<1>11. ASSUME NEW c \in (position + 1)..to, c >= emitFrom PROVE c \in Members(s)
  <2>1. c >= f /\ c <= to /\ c \in Nat
    BY <1>1, <1>2, <1>11
  <2>2. c - f + 1 \in 1..n /\ f + (c - f + 1) - 1 = c
    BY <1>1, <1>2, <1>4, <2>1
  <2> QED
    BY <1>5, <2>2 DEF Members
<1>12. Members(s) = {c \in (position + 1)..to : c >= emitFrom}
  BY <1>10, <1>11
<1> QED
  BY <1>8, <1>9, <1>12 DEF s

LEMMA AdvancesOn ==
  ASSUME PInv, NEW e \in StoredEvents, Known(e)
  PROVE  AdvanceTo(e) \in position..journaled
<1>1. e.commit \in Nat /\ e.commit <= journaled
  BY Sizes DEF Known
<1> QED
  BY <1>1, Sizes DEF AdvanceTo

LEMMA Begun ==
  ASSUME PInv, unit = NoUnit,
         NEW by \in {"scan", "handoff", "replay", "close"}, NEW e \in StoredEvents \cup {NoEvent},
         NEW to \in position..journaled, Begin(by, e, to),
         UNCHANGED <<journaled, stored, lost, emitFrom, pipeDisk, derived, mishaps>>
  PROVE  /\ unit' \in [by : {"none", "scan", "handoff", "replay", "close"},
                       event : StoredEvents \cup {NoEvent}, out : Seq(Commits)]
         /\ unit'.by = by /\ unit'.event = e /\ position' = to
         /\ Members(unit'.out) \subseteq 1..position' /\ NoRepeat(unit'.out)
         /\ PScalars' /\ PDerived'
<1> DEFINE s == Emits(position, to)
<1>1. unit' = [by |-> by, event |-> e, out |-> s] /\ position' = to
  BY DEF Begin
<1>2. /\ s \in Seq(Commits) /\ NoRepeat(s)
      /\ Members(s) = {c \in (position + 1)..to : c >= emitFrom}
  BY EmitsProperties
<1> HIDE DEF s
<1>3. unit'.by = by /\ unit'.event = e /\ unit'.out = s /\ unit' # NoUnit
  BY <1>1 DEF NoUnit
<1>4. unit' \in [by : {"none", "scan", "handoff", "replay", "close"},
                 event : StoredEvents \cup {NoEvent}, out : Seq(Commits)]
  BY <1>1, <1>2
<1>5. /\ position \in Nat /\ to \in Nat /\ position <= to /\ emitFrom \in Nat
      /\ \A c \in 1..to : c \in 1..position \/ c \in (position + 1)..to
  BY Sizes
<1>6. Members(s) \subseteq 1..to /\ \A c \in 1..position : c \notin Members(s)
  BY <1>2, <1>5
<1>7. Members(unit.out) = {}
  BY EmptySeq DEF Members, NoUnit
<1>8. PScalars'
  <2>1. \A c : Settled(c)' = Settled(c)
    BY DEF Settled, InLog
  <2>2. /\ \A c \in 1..position : Settled(c)
        /\ \A c \in 1..(emitFrom - 1) : Settled(c)
        /\ \A c \in 1..pipeDisk.position : Settled(c)
    BY <1>7 DEF PInv, PFacts, PScalars
  <2>3. ASSUME NEW c \in (position + 1)..to PROVE Settled(c) \/ c \in Members(s)
    <3>1. c >= emitFrom \/ c \in 1..(emitFrom - 1)
      BY <1>5
    <3> QED
      BY <1>2, <2>2, <3>1
  <2>4. \A c \in 1..to : Settled(c) \/ c \in Members(s)
    BY <1>5, <2>2, <2>3
  <2> QED
    BY <1>1, <1>3, <2>1, <2>2, <2>4 DEF PScalars
<1>9. PDerived'
  <2> SUFFICES ASSUME NEW c \in Commits
               PROVE  /\ derived[c] <= 1 + mishaps
                      /\ derived[c] > mishaps => c <= to /\ c \notin Members(s)
    BY <1>1, <1>3 DEF PDerived
  <2>1. derived[c] <= 1 + mishaps /\ (derived[c] > mishaps => c <= position)
    BY DEF PInv, PFacts, PDerived
  <2>2. c \in Nat /\ c >= 1
    BY Sizes DEF Commits
  <2>3. c <= position => c <= to /\ c \in 1..position
    BY <1>5, <2>2
  <2> QED
    BY <1>6, <2>1, <2>3
<1> QED
  BY <1>1, <1>2, <1>3, <1>4, <1>6, <1>8, <1>9

(* What the steps that may begin a unit have in common. *)
LEMMA UnitBegins ==
  ASSUME PInv, unit = NoUnit,
         UNCHANGED <<journaled, stored, recording, lastEvent, fresh, emitFrom, pipeDisk,
                     derived, lost, consumed, twice, crossed, mishaps>>,
         handoff' \in Seq(StoredEvents), Len(handoff') <= HandoffCap,
         Members(handoff') \subseteq Members(handoff),
         scanned' \in 0..Len(stored), pipeCursor' \in 0..Len(stored),
         worker' \in [at : {"down", "open", "scan", "wait", "closing", "closed"},
                      next : Nat, end : 0..Len(stored), upTo : StoredEvents \cup {NoEvent}],
         replay' \in [on : BOOLEAN, next : Nat, end : 0..Len(stored)],
         worker'.upTo # NoEvent => worker'.at \in {"open", "scan"} /\ crossed,
         \/ UNCHANGED <<seenIds, unit, position>>
         \/ \E by \in {"scan", "handoff", "replay", "close"}, e \in StoredEvents :
              Known(e) /\ Handle(by, e)
         \/ \E by \in {"scan", "handoff", "replay", "close"} :
              Begin(by, NoEvent, journaled) /\ UNCHANGED seenIds
  PROVE  PInv'
<1> DEFINE Units == [by : {"none", "scan", "handoff", "replay", "close"},
                     event : StoredEvents \cup {NoEvent}, out : Seq(Commits)]
           Fine == /\ unit' \in Units /\ position' \in position..journaled
                   /\ seenIds \subseteq seenIds' /\ seenIds' \subseteq StoredEvents
                   /\ \A e \in seenIds' : Known(e)
                   /\ PUnit' /\ PScalars' /\ PDerived'
<1>1. ASSUME UNCHANGED <<seenIds, unit, position>> PROVE Fine
  <2>1. unit' \in Units /\ position' \in position..journaled /\ seenIds \subseteq StoredEvents
    <3>1. unit' \in Units /\ seenIds \subseteq StoredEvents
      BY <1>1 DEF PInv, PTypes, PEventTypes, PWorkTypes
    <3>2. position' \in position..journaled
      BY <1>1, Sizes
    <3> QED
      BY <3>1, <3>2
  <2>2. \A e \in seenIds : Known(e)
    BY DEF PInv, PFacts, PEvents
  <2>3. PUnit' /\ PDerived'
    BY <1>1 DEF PInv, PFacts, PUnit, PDerived
  <2>4. PScalars'
    BY <1>1 DEF PInv, PFacts, PScalars, Settled, InLog
  <2> QED
    BY <1>1, <2>1, <2>2, <2>3, <2>4
<1>2. ASSUME NEW by \in {"scan", "handoff", "replay", "close"}, NEW e \in StoredEvents,
             Known(e), Handle(by, e)
      PROVE  Fine
  <2>1. CASE e \in seenIds
    <3>1. UNCHANGED <<seenIds, unit, position>>
      BY <1>2, <2>1 DEF Handle
    <3> QED
      BY <1>1, <3>1
  <2>2. CASE e \notin seenIds
    <3>1. seenIds' = seenIds \cup {e} /\ Begin(by, e, AdvanceTo(e))
      BY <1>2, <2>2 DEF Handle
    <3>2. AdvanceTo(e) \in position..journaled
      BY <1>2, AdvancesOn
    <3>3. /\ unit' \in Units /\ unit'.by = by /\ unit'.event = e /\ position' \in position..journaled
          /\ Members(unit'.out) \subseteq 1..position' /\ NoRepeat(unit'.out)
          /\ PScalars' /\ PDerived'
      BY <3>1, <3>2, Begun
    <3>4. e \notin consumed.now
      BY <2>2 DEF PInv, PFacts, PConsumed
    <3>5. PUnit'
      BY <3>1, <3>3, <3>4 DEF PUnit
    <3>6. seenIds \subseteq StoredEvents /\ \A d \in seenIds : Known(d)
      BY DEF PInv, PTypes, PEventTypes, PFacts, PEvents
    <3> HIDE DEF Units
    <3> QED
      BY <1>2, <3>1, <3>3, <3>5, <3>6
  <2> QED
    BY <2>1, <2>2
<1>3. ASSUME NEW by \in {"scan", "handoff", "replay", "close"},
             Begin(by, NoEvent, journaled), UNCHANGED seenIds
      PROVE  Fine
  <2>1. journaled \in position..journaled
    BY Sizes
  <2>2. /\ unit' \in Units /\ unit'.by = by /\ unit'.event = NoEvent /\ position' \in position..journaled
        /\ Members(unit'.out) \subseteq 1..position' /\ NoRepeat(unit'.out)
        /\ PScalars' /\ PDerived'
    BY <1>3, <2>1, Begun
  <2>3. PUnit'
    BY <2>2 DEF PUnit
  <2>4. seenIds \subseteq StoredEvents /\ \A d \in seenIds : Known(d)
    BY DEF PInv, PTypes, PEventTypes, PFacts, PEvents
  <2> HIDE DEF Units
  <2> QED
    BY <1>3, <2>2, <2>3, <2>4
<1>4. Fine
  BY <1>1, <1>2, <1>3
<1>5. PTypes'
  <2>1. position' \in 0..journaled /\ fresh \in 0..position'
    BY <1>4, Sizes DEF PInv, PTypes, PNumbers
  <2>2. PNumbers'
    BY <2>1 DEF PInv, PTypes, PNumbers
  <2>3. PEventTypes'
    BY <1>4 DEF PInv, PTypes, PEventTypes
  <2>4. PWorkTypes'
    BY <1>4 DEF PInv, PTypes, PWorkTypes
  <2> QED
    BY <2>2, <2>3, <2>4 DEF PTypes
<1>6. PEvents' /\ PFresh'
  <2>1. \A e : Known(e)' = Known(e)
    BY DEF Known
  <2>2. PEvents'
    BY <1>4, <2>1 DEF PInv, PFacts, PEvents
  <2>3. PFresh'
    BY DEF PInv, PFacts, PFresh
  <2> QED
    BY <2>2, <2>3
<1>7. PConsumed'
  <2>1. consumed.now \subseteq seenIds' /\ (crossed \/ twice = {})
    BY <1>4 DEF PInv, PFacts, PConsumed
  <2> QED
    BY <2>1 DEF PConsumed
<1> QED
  BY <1>4, <1>5, <1>6, <1>7 DEF PInv, PFacts
-----------------------------------------------------------------------------
(* The steps that begin units: the worker's scan, the handoff, Close, Replay. *)

(* The entry of the log behind n. *)
LEMMA LogEntry ==
  ASSUME PInv, NEW n \in Nat, NEW m \in 0..Len(stored), n < m
  PROVE  /\ n + 1 \in DOMAIN stored /\ stored[n + 1] \in Members(stored)
         /\ stored[n + 1] \in StoredEvents /\ Known(stored[n + 1])
<1>1. stored \in Seq(StoredEvents) /\ Len(stored) \in Nat
  BY Sizes DEF PInv, PTypes, PEventTypes
<1>2. n + 1 \in 1..Len(stored)
  BY <1>1
<1>3. n + 1 \in DOMAIN stored /\ stored[n + 1] \in StoredEvents
  BY <1>1, <1>2
<1>4. stored[n + 1] \in Members(stored)
  BY <1>3 DEF Members
<1> QED
  BY <1>3, <1>4 DEF PInv, PFacts, PEvents

(* The worker one entry further: it stops to only consume where it resumed. *)
LEMMA ScanMovesOn ==
  ASSUME PInv, NEW e, worker' = [worker EXCEPT !.next = @ + 1, !.upTo = IF @ = e THEN NoEvent ELSE @]
  PROVE  /\ worker' \in [at : {"down", "open", "scan", "wait", "closing", "closed"},
                         next : Nat, end : 0..Len(stored), upTo : StoredEvents \cup {NoEvent}]
         /\ worker'.at = worker.at /\ worker'.next = worker.next + 1
         /\ worker.upTo = NoEvent => worker'.upTo = NoEvent
<1> DEFINE Ats == {"down", "open", "scan", "wait", "closing", "closed"}
           Ends == 0..Len(stored)
           Events == StoredEvents \cup {NoEvent}
<1>1. worker \in [at : Ats, next : Nat, end : Ends, upTo : Events] /\ NoEvent \in Events
  BY DEF PInv, PTypes, PWorkTypes
<1> HIDE DEF Ats, Ends, Events
<1>2. worker.next + 1 \in Nat
  BY <1>1
<1>3. PICK upTo : upTo = IF worker.upTo = e THEN NoEvent ELSE worker.upTo
  OBVIOUS
<1>4. upTo \in Events /\ (worker.upTo = NoEvent => upTo = NoEvent)
  BY <1>1, <1>3
<1>5. worker' = [at |-> worker.at, next |-> worker.next + 1, end |-> worker.end, upTo |-> upTo]
  <2>1. CASE worker.upTo = e
    BY <1>1, <1>3, <2>1
  <2>2. CASE worker.upTo # e
    BY <1>1, <1>3, <2>2
  <2> QED
    BY <2>1, <2>2
<1>6. worker' \in [at : Ats, next : Nat, end : Ends, upTo : Events]
  BY <1>1, <1>2, <1>4, <1>5
<1> QED
  BY <1>4, <1>5, <1>6 DEF Ats, Ends, Events

LEMMA ScanConsumesStep ==
  ASSUME PInv, ScanEvent, worker.upTo # NoEvent
  PROVE  PInv'
<1>e. PICK e : e = stored[worker.next + 1]
  OBVIOUS
<1>1. /\ worker.at = "scan" /\ worker.next < worker.end /\ unit = NoUnit
      /\ worker' = [worker EXCEPT !.next = @ + 1, !.upTo = IF @ = e THEN NoEvent ELSE @]
      /\ seenIds' = seenIds \cup {e}
      /\ consumed' = [now |-> consumed.now \cup {e}, ever |-> consumed.ever \cup {e}]
      /\ twice' = twice \cup ({e} \cap consumed.now)
      /\ UNCHANGED <<journaled, stored, recording, handoff, replay, unit, lastEvent, scanned,
                     pipeCursor, position, fresh, emitFrom, pipeDisk, derived, lost, crossed, mishaps>>
  BY <1>e DEF ScanEvent, Hear, Unlocked
<1>2. worker.next \in Nat /\ worker.end \in 0..Len(stored)
  BY DEF PInv, PTypes, PWorkTypes
<1>3. /\ worker.next + 1 \in DOMAIN stored /\ e \in StoredEvents /\ Known(e)
  BY <1>e, <1>1, <1>2, LogEntry
<1>4. /\ worker' \in [at : {"down", "open", "scan", "wait", "closing", "closed"},
                      next : Nat, end : 0..Len(stored), upTo : StoredEvents \cup {NoEvent}]
      /\ worker'.at = "scan" /\ worker'.next = worker.next + 1
  BY <1>1, ScanMovesOn
<1>5. ~crossed => e \notin consumed.now
  <2> SUFFICES ASSUME ~crossed, e \in consumed.now PROVE FALSE
    OBVIOUS
  <2>1. Heard(e)
    BY <1>1 DEF PInv, PFacts, PConsumed
  <2>2. PICK i \in DOMAIN stored : i <= worker.next /\ stored[i] = e
    BY <2>1 DEF Heard
  <2>3. i = worker.next + 1
    BY <1>e, <1>3, <2>2 DEF PInv, PFacts, PFresh, NoRepeat
  <2> QED
    BY <1>2, <2>2, <2>3
<1>6. PTypes'
  <2>1. PNumbers'
    BY <1>1 DEF PInv, PTypes, PNumbers
  <2>2. PEventTypes'
    BY <1>1, <1>3 DEF PInv, PTypes, PEventTypes
  <2>3. consumed' \in [now : SUBSET StoredEvents, ever : SUBSET StoredEvents]
        /\ twice' \subseteq consumed'.now
    BY <1>1, <1>3 DEF PInv, PTypes, PWorkTypes
  <2>4. PWorkTypes'
    BY <1>1, <1>4, <2>3 DEF PInv, PTypes, PWorkTypes
  <2> QED
    BY <2>1, <2>2, <2>4 DEF PTypes
<1>7. PEvents' /\ PFresh'
  <2>1. \A d : Known(d)' = Known(d)
    BY <1>1 DEF Known
  <2> QED
    BY <1>1, <1>3, <2>1 DEF PInv, PFacts, PEvents, PFresh
<1>8. PUnit'
  <2>1. unit.event = NoEvent
    BY <1>1 DEF NoUnit
  <2> QED
    BY <1>1, <2>1 DEF PInv, PFacts, PUnit
<1>9. PScalars' /\ PDerived'
  <2>1. PScalars'
    BY <1>1 DEF PInv, PFacts, PScalars, Settled, InLog
  <2>2. PDerived'
    BY <1>1 DEF PInv, PFacts, PDerived
  <2> QED
    BY <2>1, <2>2
<1>10. PConsumed'
  <2>1. /\ consumed.now \subseteq seenIds /\ (crossed \/ twice = {})
        /\ ~crossed => ~replay.on /\ \A d \in consumed.now : Heard(d)
    BY <1>1 DEF PInv, PFacts, PConsumed
  <2>2. \A d : Heard(d) => Heard(d)'
    <3>1. \A i \in DOMAIN stored : i <= worker.next => i <= worker.next + 1
      <4>1. DOMAIN stored \subseteq Nat
        BY DEF PInv, PTypes, PEventTypes
      <4> QED
        BY <1>2, <4>1
    <3> QED
      BY <1>1, <1>4, <3>1 DEF Heard
  <2>3. Heard(e)'
    <3>1. worker.next + 1 <= worker'.next
      BY <1>2, <1>4
    <3> QED
      BY <1>1, <1>3, <1>e, <3>1 DEF Heard
  <2>4. crossed \/ twice' = {}
    BY <1>1, <1>5, <2>1
  <2>5. ~crossed => \A d \in consumed'.now : Heard(d)'
    BY <1>1, <2>1, <2>2, <2>3
  <2> QED
    BY <1>1, <1>4, <2>1, <2>4, <2>5 DEF PConsumed
<1> QED
  BY <1>6, <1>7, <1>8, <1>9, <1>10 DEF PInv, PFacts

LEMMA ScanHandlesStep ==
  ASSUME PInv, ScanEvent, worker.upTo = NoEvent
  PROVE  PInv'
<1>e. PICK e : e = stored[worker.next + 1]
  OBVIOUS
<1>1. /\ worker.at = "scan" /\ worker.next < worker.end /\ unit = NoUnit
      /\ worker' = [worker EXCEPT !.next = @ + 1, !.upTo = IF @ = e THEN NoEvent ELSE @]
      /\ Handle("scan", e)
      /\ UNCHANGED <<journaled, stored, recording, handoff, replay, lastEvent, scanned, pipeCursor,
                     fresh, emitFrom, pipeDisk, derived, lost, consumed, twice, crossed, mishaps>>
  BY <1>e DEF ScanEvent, Unlocked
<1>2. worker.next \in Nat /\ worker.end \in 0..Len(stored)
  BY DEF PInv, PTypes, PWorkTypes
<1>3. e \in StoredEvents /\ Known(e)
  BY <1>e, <1>1, <1>2, LogEntry
<1>4. /\ worker' \in [at : {"down", "open", "scan", "wait", "closing", "closed"},
                      next : Nat, end : 0..Len(stored), upTo : StoredEvents \cup {NoEvent}]
      /\ worker'.upTo = NoEvent
  BY <1>1, ScanMovesOn
<1>5. /\ handoff' \in Seq(StoredEvents) /\ Len(handoff') <= HandoffCap
      /\ Members(handoff') \subseteq Members(handoff)
  BY <1>1 DEF PInv, PTypes, PEventTypes
<1>6. /\ scanned' \in 0..Len(stored) /\ pipeCursor' \in 0..Len(stored)
      /\ replay' \in [on : BOOLEAN, next : Nat, end : 0..Len(stored)]
  BY <1>1 DEF PInv, PTypes, PNumbers, PWorkTypes
<1> QED
  BY <1>1, <1>3, <1>4, <1>5, <1>6, UnitBegins

LEMMA ScanEndsBatchStep ==
  PInv /\ ScanEndsBatch => PInv'
<1> SUFFICES ASSUME PInv, ScanEndsBatch PROVE PInv'
  OBVIOUS
<1>1. /\ unit = NoUnit /\ worker' = [NoWorker EXCEPT !.at = "wait"]
      /\ scanned' = worker.end /\ pipeCursor' = worker.end /\ Begin("scan", NoEvent, journaled)
      /\ UNCHANGED <<journaled, stored, recording, handoff, replay, seenIds, lastEvent, fresh,
                     emitFrom, pipeDisk, derived, lost, consumed, twice, crossed, mishaps>>
  BY DEF ScanEndsBatch, Unlocked, ghosts
<1>2. worker.end \in 0..Len(stored) /\ replay \in [on : BOOLEAN, next : Nat, end : 0..Len(stored)]
  BY DEF PInv, PTypes, PWorkTypes
<1>3. /\ worker' \in [at : {"down", "open", "scan", "wait", "closing", "closed"},
                      next : Nat, end : 0..Len(stored), upTo : StoredEvents \cup {NoEvent}]
      /\ worker'.upTo = NoEvent
  <2>1. worker' = [at |-> "wait", next |-> 0, end |-> 0, upTo |-> NoEvent]
    BY <1>1 DEF NoWorker
  <2> QED
    BY <2>1, Sizes
<1>4. /\ handoff' \in Seq(StoredEvents) /\ Len(handoff') <= HandoffCap
      /\ Members(handoff') \subseteq Members(handoff)
  BY <1>1 DEF PInv, PTypes, PEventTypes
<1> QED
  BY <1>1, <1>2, <1>3, <1>4, UnitBegins

LEMMA TakeHandoffStep ==
  PInv /\ TakeHandoff => PInv'
<1> SUFFICES ASSUME PInv, TakeHandoff PROVE PInv'
  OBVIOUS
<1>1. /\ worker.at \in {"wait", "closing"} /\ handoff # <<>> /\ unit = NoUnit
      /\ Handle("handoff", Head(handoff)) /\ handoff' = Tail(handoff)
      /\ UNCHANGED <<journaled, stored, recording, worker, replay, lastEvent, scanned, pipeCursor,
                     fresh, emitFrom, pipeDisk, derived, lost, consumed, twice, crossed, mishaps>>
  BY DEF TakeHandoff, Unlocked, ghosts
<1>2. handoff \in Seq(StoredEvents) /\ Len(handoff) <= HandoffCap /\ Len(handoff) \in Nat
  <2>1. handoff \in Seq(StoredEvents) /\ Len(handoff) <= HandoffCap
    BY DEF PInv, PTypes, PEventTypes
  <2> QED
    BY <2>1, LenProperties
<1>3. /\ Tail(handoff) \in Seq(StoredEvents) /\ Head(handoff) \in Members(handoff)
      /\ Members(Tail(handoff)) \subseteq Members(handoff) /\ Len(Tail(handoff)) = Len(handoff) - 1
  <2>1. /\ Tail(handoff) \in Seq(StoredEvents) /\ Head(handoff) = handoff[1]
        /\ Len(Tail(handoff)) = Len(handoff) - 1 /\ Len(handoff) \in Nat \ {0}
        /\ \A i \in 1..Len(Tail(handoff)) : Tail(handoff)[i] = handoff[i + 1]
    BY <1>1, <1>2, HeadTailProperties, EmptySeq
  <2>2. /\ DOMAIN Tail(handoff) = 1..(Len(handoff) - 1) /\ DOMAIN handoff = 1..Len(handoff)
        /\ 1 \in DOMAIN handoff
    BY <1>2, <2>1
  <2>3. \A i \in DOMAIN Tail(handoff) : i + 1 \in DOMAIN handoff /\ Tail(handoff)[i] = handoff[i + 1]
    BY <2>1, <2>2
  <2>4. Members(Tail(handoff)) \subseteq Members(handoff)
    BY <2>3 DEF Members
  <2>5. Head(handoff) \in Members(handoff)
    BY <2>1, <2>2 DEF Members
  <2> QED
    BY <2>1, <2>4, <2>5
<1>4. Head(handoff) \in StoredEvents /\ Known(Head(handoff))
  <2>1. Members(handoff) \subseteq StoredEvents
    BY <1>2 DEF Members
  <2> QED
    BY <1>3, <2>1 DEF PInv, PFacts, PEvents
<1>5. /\ handoff' \in Seq(StoredEvents) /\ Len(handoff') <= HandoffCap
      /\ Members(handoff') \subseteq Members(handoff)
  <2>1. Len(handoff') <= HandoffCap
    BY <1>1, <1>2, <1>3, PipelineAssumption
  <2> QED
    BY <1>1, <1>3, <2>1
<1>6. worker.upTo = NoEvent
  BY <1>1 DEF PInv, PFacts, PConsumed
<1>7. /\ scanned' \in 0..Len(stored) /\ pipeCursor' \in 0..Len(stored)
      /\ worker' \in [at : {"down", "open", "scan", "wait", "closing", "closed"},
                      next : Nat, end : 0..Len(stored), upTo : StoredEvents \cup {NoEvent}]
      /\ replay' \in [on : BOOLEAN, next : Nat, end : 0..Len(stored)]
  BY <1>1 DEF PInv, PTypes, PNumbers, PWorkTypes
<1> QED
  BY <1>1, <1>4, <1>5, <1>6, <1>7, UnitBegins

LEMMA CloseDrainsStep ==
  PInv /\ CloseDrains => PInv'
<1> SUFFICES ASSUME PInv, CloseDrains PROVE PInv'
  OBVIOUS
<1>1. /\ worker.at = "closing" /\ unit = NoUnit /\ worker' = [worker EXCEPT !.at = "closed"]
      /\ Begin("close", NoEvent, journaled)
      /\ UNCHANGED <<journaled, stored, recording, handoff, replay, seenIds, lastEvent, scanned,
                     pipeCursor, fresh, emitFrom, pipeDisk, derived, lost, consumed, twice,
                     crossed, mishaps>>
  BY DEF CloseDrains, Unlocked, ghosts
<1>2. worker.upTo = NoEvent
  BY <1>1 DEF PInv, PFacts, PConsumed
<1>3. /\ worker' \in [at : {"down", "open", "scan", "wait", "closing", "closed"},
                      next : Nat, end : 0..Len(stored), upTo : StoredEvents \cup {NoEvent}]
      /\ worker'.upTo = NoEvent
  BY <1>1, <1>2 DEF PInv, PTypes, PWorkTypes
<1>4. /\ handoff' \in Seq(StoredEvents) /\ Len(handoff') <= HandoffCap
      /\ Members(handoff') \subseteq Members(handoff)
  BY <1>1 DEF PInv, PTypes, PEventTypes
<1>5. /\ scanned' \in 0..Len(stored) /\ pipeCursor' \in 0..Len(stored)
      /\ replay' \in [on : BOOLEAN, next : Nat, end : 0..Len(stored)]
  BY <1>1 DEF PInv, PTypes, PNumbers, PWorkTypes
<1> QED
  BY <1>1, <1>3, <1>4, <1>5, UnitBegins

LEMMA ReplayingStep ==
  PInv /\ Replaying => PInv'
<1> SUFFICES ASSUME PInv, Replaying PROVE PInv'
  OBVIOUS
<1>1. /\ replay.on /\ unit = NoUnit
      /\ UNCHANGED <<journaled, stored, recording, handoff, worker, lastEvent, scanned, pipeCursor,
                     fresh, emitFrom, pipeDisk, derived, lost, consumed, twice, crossed, mishaps>>
  BY DEF Replaying, ReplayEvent, ReplayDrains, ghosts
<1>2. worker.upTo # NoEvent => worker.at \in {"open", "scan"} /\ crossed
  BY <1>1 DEF PInv, PFacts, PConsumed
<1>3. /\ handoff' \in Seq(StoredEvents) /\ Len(handoff') <= HandoffCap
      /\ Members(handoff') \subseteq Members(handoff)
  BY <1>1 DEF PInv, PTypes, PEventTypes
<1>4. /\ scanned' \in 0..Len(stored) /\ pipeCursor' \in 0..Len(stored)
      /\ worker' \in [at : {"down", "open", "scan", "wait", "closing", "closed"},
                      next : Nat, end : 0..Len(stored), upTo : StoredEvents \cup {NoEvent}]
  BY <1>1 DEF PInv, PTypes, PNumbers, PWorkTypes
<1>5. CASE ReplayEvent
  <2>e. PICK e : e = stored[replay.next + 1]
    OBVIOUS
  <2>1. replay.next \in Nat /\ replay.end \in 0..Len(stored) /\ replay.next < replay.end
    BY <1>5 DEF PInv, PTypes, PWorkTypes, ReplayEvent
  <2>2. e \in StoredEvents /\ Known(e)
    BY <2>e, <2>1, LogEntry
  <2>3. UNCHANGED <<seenIds, unit, position>> \/ Handle("replay", e)
    BY <1>5, <2>e DEF ReplayEvent
  <2>4. replay' \in [on : BOOLEAN, next : Nat, end : 0..Len(stored)]
    <3>1. replay' = [replay EXCEPT !.next = @ + 1]
      BY <1>5 DEF ReplayEvent
    <3> QED
      BY <2>1, <3>1 DEF PInv, PTypes, PWorkTypes
  <2> QED
    BY <1>1, <1>2, <1>3, <1>4, <2>2, <2>3, <2>4, UnitBegins
<1>6. CASE ReplayDrains
  <2>1. Begin("replay", NoEvent, journaled) /\ UNCHANGED seenIds
    BY <1>6 DEF ReplayDrains
  <2>2. replay' \in [on : BOOLEAN, next : Nat, end : 0..Len(stored)]
    <3>1. replay' = [on |-> FALSE, next |-> 0, end |-> 0]
      BY <1>6 DEF ReplayDrains, NoReplay
    <3> QED
      BY <3>1, Sizes
  <2> QED
    BY <1>1, <1>2, <1>3, <1>4, <2>1, <2>2, UnitBegins
<1> QED
  BY <1>5, <1>6 DEF Replaying
-----------------------------------------------------------------------------
(* What starts the memory anew: a resume, a crash and the reset of Replay. *)

LEMMA Reset ==
  ASSUME PInv, unit' = NoUnit, seenIds' = {}, twice' = {},
         consumed' = [consumed EXCEPT !.now = {}],
         UNCHANGED <<journaled, stored, pipeDisk, derived>>
  PROVE  /\ PUnit'
         /\ consumed' \in [now : SUBSET StoredEvents, ever : SUBSET StoredEvents]
         /\ consumed'.now = {}
         /\ unit' \in [by : {"none", "scan", "handoff", "replay", "close"},
                       event : StoredEvents \cup {NoEvent}, out : Seq(Commits)]
         /\ Members(unit'.out) = {}
         /\ \A e : Known(e)' = Known(e)
<1>1. /\ consumed' \in [now : SUBSET StoredEvents, ever : SUBSET StoredEvents]
      /\ consumed'.now = {}
  BY DEF PInv, PTypes, PWorkTypes
<1>2. unit'.event = NoEvent /\ unit'.out = <<>>
  BY DEF NoUnit
<1>3. Members(<<>>) = {} /\ NoRepeat(<<>>) /\ <<>> \in Seq(Commits)
  BY EmptySeq DEF Members, NoRepeat
<1>4. unit' \in [by : {"none", "scan", "handoff", "replay", "close"},
                 event : StoredEvents \cup {NoEvent}, out : Seq(Commits)]
  BY <1>3 DEF NoUnit
<1>5. PUnit'
  BY <1>2, <1>3 DEF PUnit
<1>6. \A e : Known(e)' = Known(e)
  BY DEF Known
<1> QED
  BY <1>1, <1>2, <1>3, <1>4, <1>5, <1>6

LEMMA ResumeStep ==
  PInv /\ Resume => PInv'
<1> SUFFICES ASSUME PInv, Resume PROVE PInv'
  OBVIOUS
<1>1. /\ unit = NoUnit /\ ~replay.on /\ lastEvent' = pipeDisk.event
      /\ scanned' = pipeDisk.segments /\ pipeCursor' = pipeDisk.segments
      /\ position' = pipeDisk.position /\ fresh' = pipeDisk.position /\ emitFrom' = 1
      /\ seenIds' = {} /\ consumed' = [consumed EXCEPT !.now = {}] /\ twice' = {} /\ crossed' = FALSE
      /\ UNCHANGED <<journaled, stored, recording, handoff, replay, unit, pipeDisk, derived,
                     lost, mishaps>>
  BY DEF Resume, Unlocked
<1>2. PICK upTo \in StoredEvents \cup {NoEvent} : worker' = [NoWorker EXCEPT !.at = "open", !.upTo = upTo]
  <2>1. pipeDisk.event \in StoredEvents \cup {NoEvent} /\ NoEvent \in StoredEvents \cup {NoEvent}
    BY DEF PInv, PTypes, PWorkTypes
  <2> QED
    BY <2>1 DEF Resume
<1>3. worker' = [at |-> "open", next |-> 0, end |-> 0, upTo |-> upTo]
  BY <1>2 DEF NoWorker
<1>4. /\ PUnit' /\ consumed' \in [now : SUBSET StoredEvents, ever : SUBSET StoredEvents]
      /\ consumed'.now = {} /\ Members(unit'.out) = {} /\ \A e : Known(e)' = Known(e)
      /\ unit' \in [by : {"none", "scan", "handoff", "replay", "close"},
                    event : StoredEvents \cup {NoEvent}, out : Seq(Commits)]
  BY <1>1, Reset
<1>5. pipeDisk.segments \in 0..Len(stored) /\ pipeDisk.position \in 0..journaled
      /\ pipeDisk.event \in StoredEvents \cup {NoEvent}
  BY DEF PInv, PTypes, PWorkTypes
<1>6. PTypes'
  <2>1. position' \in 0..journaled /\ fresh' \in 0..position' /\ 1 \in 1..(MaxCommits + 1)
    BY <1>1, <1>5, Sizes
  <2>2. PNumbers'
    BY <1>1, <1>5, <2>1 DEF PInv, PTypes, PNumbers
  <2>3. PEventTypes'
    BY <1>1, <1>5 DEF PInv, PTypes, PEventTypes
  <2>4. worker' \in [at : {"down", "open", "scan", "wait", "closing", "closed"},
                     next : Nat, end : 0..Len(stored), upTo : StoredEvents \cup {NoEvent}]
    BY <1>3, Sizes
  <2>5. PWorkTypes'
    BY <1>1, <1>4, <2>4 DEF PInv, PTypes, PWorkTypes
  <2> QED
    BY <2>2, <2>3, <2>5 DEF PTypes
<1>7. PEvents' /\ PFresh'
  BY <1>1, <1>4 DEF PInv, PFacts, PEvents, PFresh
<1>8. PScalars'
  <2>1. \A c : Settled(c)' = Settled(c)
    BY <1>1 DEF Settled, InLog
  <2>2. \A c \in 1..pipeDisk.position : Settled(c)
    BY DEF PInv, PFacts, PScalars
  <2>3. 1..(1 - 1) = {}
    OBVIOUS
  <2> QED
    BY <1>1, <2>1, <2>2, <2>3 DEF PScalars
<1>9. PDerived'
  BY <1>1, <1>4 DEF PInv, PFacts, PDerived
<1>10. PConsumed'
  <2>1. worker'.at = "open"
    BY <1>3
  <2> QED
    BY <1>1, <1>4, <2>1 DEF PConsumed
<1> QED
  BY <1>4, <1>6, <1>7, <1>8, <1>9, <1>10 DEF PInv, PFacts

(* A mishap leaves no commit with one scalars event too many. *)
LEMMA AfterAMishap ==
  ASSUME PInv, Mishap, UNCHANGED derived
  PROVE  PDerived' /\ mishaps' \in 0..MaxMishaps
<1>1. mishaps \in Nat /\ mishaps < MaxMishaps /\ mishaps' = mishaps + 1 /\ MaxMishaps \in Nat
  BY Sizes DEF Mishap
<1>2. \A c \in Commits : derived[c] \in Nat /\ derived[c] <= 1 + mishaps
  BY Sizes DEF PInv, PFacts, PDerived
<1>3. \A c \in Commits : derived[c] <= 1 + mishaps' /\ ~(derived[c] > mishaps')
  BY <1>1, <1>2
<1> QED
  BY <1>1, <1>3 DEF PDerived

LEMMA CrashStep ==
  PInv /\ Crash => PInv'
<1> SUFFICES ASSUME PInv, Crash PROVE PInv'
  OBVIOUS
<1>1. /\ scanned' = 0 /\ pipeCursor' = 0 /\ lastEvent' = NoEvent /\ position' = 0 /\ fresh' = 0
      /\ emitFrom' = 1 /\ seenIds' = {} /\ consumed' = [consumed EXCEPT !.now = {}]
      /\ twice' = {} /\ crossed' = FALSE
      /\ worker' = NoWorker /\ replay' = NoReplay /\ unit' = NoUnit
      /\ recording' = <<>> /\ handoff' = <<>>
      /\ UNCHANGED <<journaled, stored, pipeDisk, derived, lost>>
  BY DEF Crash, Forget
<1>2. PDerived' /\ mishaps' \in 0..MaxMishaps
  BY <1>1, AfterAMishap DEF Crash
<1>3. /\ PUnit' /\ consumed' \in [now : SUBSET StoredEvents, ever : SUBSET StoredEvents]
      /\ consumed'.now = {} /\ Members(unit'.out) = {} /\ \A e : Known(e)' = Known(e)
      /\ unit' \in [by : {"none", "scan", "handoff", "replay", "close"},
                    event : StoredEvents \cup {NoEvent}, out : Seq(Commits)]
  BY <1>1, Reset
<1>4. /\ <<>> \in Seq(StoredEvents) /\ Len(<<>>) = 0 /\ Members(<<>>) = {} /\ NoRepeat(<<>>)
      /\ 0 <= QueueCap /\ 0 <= HandoffCap
  <2>1. <<>> \in Seq(StoredEvents) /\ Len(<<>>) = 0 /\ DOMAIN << >> = {}
    BY EmptySeq
  <2>2. Members(<<>>) = {} /\ NoRepeat(<<>>)
    BY <2>1 DEF Members, NoRepeat
  <2> QED
    BY <2>1, <2>2, PipelineAssumption
<1>5. PTypes'
  <2>1. /\ 0 \in 0..journaled /\ 0 \in 0..0 /\ 0 \in 0..Len(stored) /\ 1 \in 1..(MaxCommits + 1)
    BY Sizes
  <2>2. PNumbers'
    BY <1>1, <1>2, <2>1 DEF PInv, PTypes, PNumbers
  <2>3. PEventTypes'
    BY <1>1, <1>4 DEF PInv, PTypes, PEventTypes
  <2>4. /\ worker' \in [at : {"down", "open", "scan", "wait", "closing", "closed"},
                        next : Nat, end : 0..Len(stored), upTo : StoredEvents \cup {NoEvent}]
        /\ replay' \in [on : BOOLEAN, next : Nat, end : 0..Len(stored)]
    BY <1>1, <2>1 DEF NoWorker, NoReplay
  <2>5. PWorkTypes'
    BY <1>1, <1>3, <2>4 DEF PInv, PTypes, PWorkTypes
  <2> QED
    BY <2>2, <2>3, <2>5 DEF PTypes
<1>6. PEvents' /\ PFresh'
  BY <1>1, <1>3, <1>4 DEF PInv, PFacts, PEvents, PFresh
<1>7. PScalars'
  <2>1. \A c : Settled(c)' = Settled(c)
    BY <1>1 DEF Settled, InLog
  <2>2. \A c \in 1..pipeDisk.position : Settled(c)
    BY DEF PInv, PFacts, PScalars
  <2>3. 1..(1 - 1) = {} /\ 1..0 = {}
    OBVIOUS
  <2> QED
    BY <1>1, <2>1, <2>2, <2>3 DEF PScalars
<1>8. PConsumed'
  <2>1. worker'.upTo = NoEvent
    BY <1>1 DEF NoWorker
  <2> QED
    BY <1>1, <1>3, <2>1 DEF PConsumed
<1> QED
  BY <1>2, <1>3, <1>5, <1>6, <1>7, <1>8 DEF PInv, PFacts

LEMMA ReplayBeginsStep ==
  PInv /\ ReplayBegins => PInv'
<1> SUFFICES ASSUME PInv, ReplayBegins PROVE PInv'
  OBVIOUS
<1>1. /\ unit = NoUnit /\ replay' = [on |-> TRUE, next |-> 0, end |-> Len(stored)]
      /\ seenIds' = {} /\ pipeCursor' = 0 /\ lastEvent' = NoEvent /\ position' = 0 /\ fresh' = 0
      /\ consumed' = [consumed EXCEPT !.now = {}] /\ twice' = {}
      /\ crossed' = (crossed \/ worker.upTo # NoEvent)
      /\ UNCHANGED <<journaled, stored, recording, handoff, worker, unit, scanned, pipeDisk, derived>>
  BY DEF ReplayBegins, Unlocked, NoReplay
<1>2. PICK from \in 1..(journaled + 1) :
        emitFrom' = from /\ lost' = lost \cup {c \in 1..(from - 1) : ~InLog(c)}
  BY DEF ReplayBegins
<1>3. PDerived' /\ mishaps' \in 0..MaxMishaps
  BY <1>1, AfterAMishap DEF ReplayBegins
<1>4. /\ PUnit' /\ consumed' \in [now : SUBSET StoredEvents, ever : SUBSET StoredEvents]
      /\ consumed'.now = {} /\ Members(unit'.out) = {} /\ \A e : Known(e)' = Known(e)
      /\ unit' \in [by : {"none", "scan", "handoff", "replay", "close"},
                    event : StoredEvents \cup {NoEvent}, out : Seq(Commits)]
  BY <1>1, Reset
<1>5. from \in 1..(MaxCommits + 1) /\ 1..(from - 1) \subseteq Commits
  BY Sizes DEF Commits
<1>6. PTypes'
  <2>1. 0 \in 0..journaled /\ 0 \in 0..0 /\ 0 \in 0..Len(stored) /\ Len(stored) \in 0..Len(stored)
    BY Sizes
  <2>2. PNumbers'
    BY <1>1, <1>2, <1>3, <1>5, <2>1 DEF PInv, PTypes, PNumbers
  <2>3. lost' \subseteq Commits
    BY <1>2, <1>5 DEF PInv, PTypes, PEventTypes
  <2>4. PEventTypes'
    BY <1>1, <2>3 DEF PInv, PTypes, PEventTypes
  <2>5. replay' \in [on : BOOLEAN, next : Nat, end : 0..Len(stored)]
    BY <1>1, <2>1
  <2>6. PWorkTypes'
    BY <1>1, <1>4, <2>5 DEF PInv, PTypes, PWorkTypes
  <2> QED
    BY <2>2, <2>4, <2>6 DEF PTypes
<1>7. PEvents' /\ PFresh'
  BY <1>1, <1>4 DEF PInv, PFacts, PEvents, PFresh
<1>8. PScalars'
  <2>1. \A c : Settled(c) => Settled(c)'
    BY <1>1, <1>2, SettledStays
  <2>2. \A c \in 1..(from - 1) : Settled(c)'
    BY <1>1, <1>2 DEF Settled, InLog
  <2>3. 1..0 = {}
    OBVIOUS
  <2> QED
    BY <1>1, <1>2, <2>1, <2>2, <2>3 DEF PInv, PFacts, PScalars
<1>9. PConsumed'
  <2>1. worker.upTo # NoEvent => worker.at \in {"open", "scan"}
    BY DEF PInv, PFacts, PConsumed
  <2> QED
    BY <1>1, <1>4, <2>1 DEF PConsumed
<1> QED
  BY <1>3, <1>4, <1>6, <1>7, <1>8, <1>9 DEF PInv, PFacts
-----------------------------------------------------------------------------
LEMMA PipelineInitKept ==
  PipelineInit => PInv
<1> SUFFICES ASSUME PipelineInit PROVE PInv
  OBVIOUS
<1>1. /\ journaled = 0 /\ stored = <<>> /\ recording = <<>> /\ handoff = <<>>
      /\ worker = NoWorker /\ replay = NoReplay /\ unit = NoUnit
      /\ seenIds = {} /\ lastEvent = NoEvent /\ scanned = 0 /\ pipeCursor = 0
      /\ position = 0 /\ fresh = 0 /\ emitFrom = 1
      /\ pipeDisk = [event |-> NoEvent, segments |-> 0, position |-> 0]
      /\ derived = [c \in Commits |-> 0] /\ lost = {} /\ twice = {} /\ crossed = FALSE
      /\ consumed = [now |-> {}, ever |-> {}] /\ mishaps = 0
  BY DEF PipelineInit
<1>2. /\ <<>> \in Seq(StoredEvents) /\ <<>> \in Seq(Commits) /\ Len(<<>>) = 0
      /\ Members(<<>>) = {} /\ NoRepeat(<<>>) /\ 0 <= QueueCap /\ 0 <= HandoffCap
      /\ 0 \in 0..MaxMishaps /\ 0 \in 0..MaxDerived /\ 0 \in 0..MaxCommits
      /\ 1 \in 1..(MaxCommits + 1) /\ 1..0 = {} /\ 1..(1 - 1) = {}
  <2>1. <<>> \in Seq(StoredEvents) /\ <<>> \in Seq(Commits) /\ Len(<<>>) = 0 /\ DOMAIN << >> = {}
    BY EmptySeq
  <2>2. Members(<<>>) = {} /\ NoRepeat(<<>>)
    BY <2>1 DEF Members, NoRepeat
  <2>3. /\ 0 <= QueueCap /\ 0 <= HandoffCap /\ 0 \in 0..MaxMishaps /\ 0 \in 0..MaxDerived
        /\ 0 \in 0..MaxCommits /\ 1 \in 1..(MaxCommits + 1)
    BY PipelineAssumption DEF MaxDerived
  <2> QED
    BY <2>1, <2>2, <2>3
<1>3. derived \in [Commits -> 0..MaxDerived] /\ \A c \in Commits : derived[c] = 0
  BY <1>1, <1>2
<1>4. unit.by = "none" /\ unit.out = <<>> /\ unit.event = NoEvent /\ worker.upTo = NoEvent
  BY <1>1 DEF NoUnit, NoWorker
<1>5. PTypes
  <2>n. /\ journaled = 0 /\ Len(stored) = 0 /\ scanned = 0 /\ pipeCursor = 0 /\ position = 0
        /\ fresh = 0 /\ emitFrom = 1 /\ crossed = FALSE /\ mishaps = 0
    BY <1>1, <1>2
  <2>m. 0 \in 0..MaxMishaps /\ 0 \in 0..MaxCommits /\ 1 \in 1..(MaxCommits + 1) /\ 0 \in 0..0
    BY <1>2
  <2>1. PNumbers
    BY <2>m, <2>n DEF PNumbers
  <2>2. PEventTypes
    BY <1>1, <1>2, <1>3 DEF PEventTypes
  <2>3. worker \in [at : {"down", "open", "scan", "wait", "closing", "closed"},
                    next : Nat, end : 0..Len(stored), upTo : StoredEvents \cup {NoEvent}]
    BY <1>1, <1>2 DEF NoWorker
  <2>4. unit \in [by : {"none", "scan", "handoff", "replay", "close"},
                  event : StoredEvents \cup {NoEvent}, out : Seq(Commits)]
    BY <1>1, <1>2 DEF NoUnit
  <2>5. replay \in [on : BOOLEAN, next : Nat, end : 0..Len(stored)]
    BY <1>1, <1>2 DEF NoReplay
  <2>6. PWorkTypes
    BY <1>1, <1>2, <2>3, <2>4, <2>5 DEF PWorkTypes
  <2> QED
    BY <2>1, <2>2, <2>6 DEF PTypes
<1>6. PEvents /\ PFresh
  BY <1>1, <1>2 DEF PEvents, PFresh
<1>7. PUnit
  BY <1>1, <1>2, <1>4 DEF PUnit
<1>8. PScalars
  BY <1>1, <1>2 DEF PScalars
<1>9. PDerived
  BY <1>1, <1>3 DEF PDerived
<1>10. PConsumed
  BY <1>1, <1>4 DEF PConsumed
<1> QED
  BY <1>5, <1>6, <1>7, <1>8, <1>9, <1>10 DEF PInv, PFacts

LEMMA PipelineStepKept ==
  PInv /\ [PipelineNext]_pipelineVars => PInv'
<1> SUFFICES ASSUME PInv, [PipelineNext]_pipelineVars PROVE PInv'
  OBVIOUS
<1>1. CASE UNCHANGED pipelineVars
  <2>1. /\ UNCHANGED <<journaled, stored, recording, handoff, worker, replay, unit, seenIds,
                       lastEvent, scanned, pipeCursor, position, fresh, emitFrom, pipeDisk,
                       derived, lost, consumed, twice, crossed, mishaps>>
    BY <1>1 DEF pipelineVars, liveVars, ghosts
  <2>2. mishaps' \in mishaps..MaxMishaps
    BY <2>1, Sizes DEF PInv, PTypes, PNumbers
  <2>3. PWorkTypes' /\ PConsumed'
    BY <2>1 DEF PInv, PTypes, PFacts, PWorkTypes, PConsumed, Heard
  <2> QED
    BY <2>1, <2>2, <2>3, OnlyTheWorker DEF PInv, PTypes, PFacts
<1>2. CASE CommitLands \/ RecorderAppends \/ HandleUnit
  BY <1>2, CommitLandsStep, RecorderAppendsStep, EmitStep, FinishUnitStep DEF HandleUnit
<1>3. CASE ScanLog
  BY <1>3, OpenScanStep, ScanConsumesStep, ScanHandlesStep, ScanEndsBatchStep DEF ScanLog
<1>4. CASE Resume \/ Crash \/ ReplayBegins
  BY <1>4, ResumeStep, CrashStep, ReplayBeginsStep
<1>5. CASE TakeHandoff \/ CloseDrains \/ Replaying
  BY <1>5, TakeHandoffStep, CloseDrainsStep, ReplayingStep
<1>6. CASE Ticks \/ StopWorker \/ ScanFails
  BY <1>6, WorkerMoves
<1> QED
  BY <1>1, <1>2, <1>3, <1>4, <1>5, <1>6 DEF PipelineNext

LEMMA PipelineInvariant ==
  PipelineSpec => []PInv
BY PipelineInitKept, PipelineStepKept, PTL DEF PipelineSpec

LEMMA MarksFollow ==
  PInv => EffectsBeforeMarks
<1> SUFFICES ASSUME PInv PROVE EffectsBeforeMarks
  OBVIOUS
<1>1. PipelineTypeOK
  BY DEF PInv, PTypes, PNumbers, PEventTypes, PWorkTypes, PipelineTypeOK
<1>2. NothingIsPassedOver
  BY DEF PInv, PFacts, PScalars, Settled, NothingIsPassedOver
<1>3. RarelyTwice
  BY DEF PInv, PFacts, PDerived, RarelyTwice
<1>4. ConsumedOnce
  BY DEF PInv, PFacts, PConsumed, ConsumedOnce
<1> QED
  BY <1>1, <1>2, <1>3, <1>4 DEF EffectsBeforeMarks

(* The checkpoint never passes a commit whose scalars are not in the log,    *)
(* they are derived again at most once for every mishap, and in one life the *)
(* consumers hear an event once, over crashes, replays and failed appends,   *)
(* scans and checkpoints: handleLocked, drainLocked, Run, Close and Replay   *)
(* of pipeline.go.                                                           *)
THEOREM EffectsComeFirst == PipelineSpec => []EffectsBeforeMarks
BY PipelineInvariant, MarksFollow, PTL
=============================================================================
