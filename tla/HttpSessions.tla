---------------------------- MODULE HttpSessions ----------------------------
(***************************************************************************)
(* The persistent shell sessions of the HTTP API (mcp_http_sessions.go):   *)
(* their idle timers, the pruning every request does first, the caps, and  *)
(* the start and end each session is announced with.                       *)
(*                                                                         *)
(* Time is relative.  A session has an age since the lastUsedAt it has on  *)
(* record, a timer what remains of it, and a request the lag of the time   *)
(* it read before it got the sessions' mutex.                              *)
(***************************************************************************)
EXTENDS Naturals, FiniteSets

CONSTANTS
  Owners, HttpRequests,
  MaxSessions,      \* bound on the sessions created; their ids are numbered
  TTL,
  GlobalCap, OwnerCap,   \* maxHTTPSessions, maxHTTPSessionsPerOwner
  MaxLag            \* bound on a request's wait for the mutex

ASSUME HttpAssumption ==
  /\ MaxSessions \in Nat /\ TTL \in Nat \ {0} /\ MaxLag \in Nat
  /\ GlobalCap \in Nat /\ OwnerCap \in Nat

VARIABLES
  sessions,   \* the map: owner, age and idle time of each open session
  timer,      \* per id: what remains of the timer, or Off
  callbacks,  \* ids whose timer has gone off and whose expire waits to run
  request,    \* per request: its step, operation, session, owner and lag
  issued,     \* sessions created so far
  begun, over \* per id: how often onStart and onEnd have been called
httpVars == <<sessions, timer, callbacks, request, issued, begun, over>>

Off == TTL + 1
MaxAge == TTL + MaxLag
OpenSessions == DOMAIN sessions
SessionIds == 1..MaxSessions
NoId == 0
NoRequest == [at |-> "idle", op |-> "none", id |-> NoId, owner |-> "none", lag |-> 0]
Older(age) == IF age < MaxAge THEN age + 1 ELSE age
OpenBut(ids) == [id \in OpenSessions \ ids |-> sessions[id]]
StopTimers(ids) == [id \in SessionIds |-> IF id \in ids THEN Off ELSE timer[id]]
Announce(ids) == [id \in SessionIds |-> over[id] + IF id \in ids THEN 1 ELSE 0]

\* pruneExpiredLocked at the time the request read: the sessions it ends.
Stale(lag) == {id \in OpenSessions : sessions[id].age >= TTL + lag}
-----------------------------------------------------------------------------
(* Requests *)

\* A request is read, and the time with it.
Ask(r, op, id, owner) ==
  /\ request[r] = NoRequest
  /\ op = "create" <=> id = NoId
  /\ op = "create" =>
       issued + Cardinality({p \in HttpRequests : request[p].at = "waiting"
                               /\ request[p].op = "create"}) < MaxSessions
  /\ id # NoId => begun[id] > 0   \* the client has its id from the response
  /\ request' = [request EXCEPT ![r] =
       [at |-> "waiting", op |-> op, id |-> id, owner |-> owner, lag |-> 0]]
  /\ UNCHANGED <<sessions, timer, callbacks, issued, begun, over>>

Full(left, owner) ==
  \/ Cardinality(DOMAIN left) >= GlobalCap
  \/ Cardinality({id \in DOMAIN left : left[id].owner = owner}) >= OwnerCap

\* handleCreate, under the mutex.
Create(r) ==
  LET q == request[r]
      id == issued + 1
      gone == Stale(q.lag)
      left == OpenBut(gone)
  IN  /\ q.at = "waiting" /\ q.op = "create"
      /\ over' = Announce(gone)
      /\ IF Full(left, q.owner)
         THEN /\ sessions' = left /\ timer' = StopTimers(gone)
              /\ request' = [request EXCEPT ![r] = NoRequest] /\ UNCHANGED issued
         ELSE /\ issued' = id
              /\ sessions' = [i \in DOMAIN left \cup {id} |->
                   IF i = id THEN [owner |-> q.owner, age |-> q.lag, idle |-> 0] ELSE left[i]]
              /\ timer' = [StopTimers(gone) EXCEPT ![id] = TTL]
              /\ request' = [request EXCEPT ![r].at = "starting", ![r].id = id]
      /\ UNCHANGED <<callbacks, begun>>

\* onStart, after the mutex is released.
OnStart(r) ==
  /\ request[r].at = "starting"
  /\ begun' = [begun EXCEPT ![request[r].id] = @ + 1]
  /\ request' = [request EXCEPT ![r] = NoRequest]
  /\ UNCHANGED <<sessions, timer, callbacks, issued, over>>

\* Mutant: the timer of a used session is stopped and not set again.
RenewedStopped(id, gone) == StopTimers(gone \cup {id})

\* The timers after a use of session id and the end of those gone.
Renewed(id, gone) == [StopTimers(gone) EXCEPT ![id] = TTL]

\* get, for a command or a touch.  The command then runs under the session's
\* own mutex and touches nothing here.
Get(r) ==
  LET q == request[r]
      gone == Stale(q.lag)
      left == OpenBut(gone)
  IN  /\ q.at = "waiting" /\ q.op = "get"
      /\ over' = Announce(gone)
      /\ IF q.id \in DOMAIN left /\ left[q.id].owner = q.owner
         THEN /\ sessions' = [left EXCEPT ![q.id].age = q.lag, ![q.id].idle = 0]
              /\ timer' = Renewed(q.id, gone)
         ELSE sessions' = left /\ timer' = StopTimers(gone)
      /\ request' = [request EXCEPT ![r] = NoRequest]
      /\ UNCHANGED <<callbacks, issued, begun>>

\* handleDelete, under the mutex; it prunes nothing.
Delete(r) ==
  LET q == request[r]
      mine == {q.id} \cap {id \in OpenSessions : sessions[id].owner = q.owner}
  IN  /\ q.at = "waiting" /\ q.op = "delete"
      /\ sessions' = OpenBut(mine) /\ timer' = StopTimers(mine)
      /\ request' = [request EXCEPT ![r] =
           IF mine = {} THEN NoRequest ELSE [q EXCEPT !.at = "ending"]]
      /\ UNCHANGED <<callbacks, issued, begun, over>>

\* Its onEnd, after the mutex is released.
OnEnd(r) ==
  /\ request[r].at = "ending"
  /\ over' = Announce({request[r].id})
  /\ request' = [request EXCEPT ![r] = NoRequest]
  /\ UNCHANGED <<sessions, timer, callbacks, issued, begun>>
-----------------------------------------------------------------------------
(* Timers *)

GoesOff(id) ==
  /\ timer[id] = 0
  /\ timer' = [timer EXCEPT ![id] = Off]
  /\ callbacks' = callbacks \cup {id}
  /\ UNCHANGED <<sessions, request, issued, begun, over>>

\* Mutant: a session its timer went off for is ended without another look.
ExpireNow(id) ==
  /\ id \in callbacks /\ callbacks' = callbacks \ {id}
  /\ sessions' = OpenBut({id})
  /\ over' = IF id \in OpenSessions THEN Announce({id}) ELSE over
  /\ UNCHANGED <<timer, request, issued, begun>>

\* expire: a session used since the timer was set gets what remains.
Expire(id) ==
  /\ id \in callbacks /\ callbacks' = callbacks \ {id}
  /\ \/ /\ id \notin OpenSessions
        /\ UNCHANGED <<sessions, timer, over>>
     \/ /\ id \in OpenSessions /\ sessions[id].age < TTL
        /\ timer' = [timer EXCEPT ![id] = TTL - sessions[id].age]
        /\ UNCHANGED <<sessions, over>>
     \/ /\ id \in OpenSessions /\ sessions[id].age >= TTL
        /\ sessions' = OpenBut({id}) /\ over' = Announce({id})
        /\ UNCHANGED timer
  /\ UNCHANGED <<request, issued, begun>>

TimePasses ==
  /\ \A r \in HttpRequests : request[r].at = "waiting" => request[r].lag < MaxLag
  /\ sessions' = [id \in OpenSessions |->
       [sessions[id] EXCEPT !.age = Older(@), !.idle = Older(@)]]
  /\ timer' = [id \in SessionIds |-> IF timer[id] \in 1..TTL THEN timer[id] - 1 ELSE timer[id]]
  /\ request' = [r \in HttpRequests |->
       IF request[r].at = "waiting" THEN [request[r] EXCEPT !.lag = @ + 1] ELSE request[r]]
  /\ UNCHANGED <<callbacks, issued, begun, over>>

HttpInit ==
  /\ sessions = [id \in {} |-> NoRequest]
  /\ timer = [id \in SessionIds |-> Off] /\ callbacks = {} /\ issued = 0
  /\ request = [r \in HttpRequests |-> NoRequest]
  /\ begun = [id \in SessionIds |-> 0] /\ over = begun

Answer(r) == Create(r) \/ OnStart(r) \/ Get(r) \/ Delete(r) \/ OnEnd(r)
TimerStep(id) == GoesOff(id) \/ Expire(id)

HttpNext ==
  \/ \E r \in HttpRequests, op \in {"create", "get", "delete"},
        id \in SessionIds \cup {NoId}, owner \in Owners : Ask(r, op, id, owner)
  \/ \E r \in HttpRequests : Answer(r)
  \/ \E id \in SessionIds : TimerStep(id)
  \/ TimePasses

\* A request gets the mutex, a timer that is due goes off and runs, and time
\* goes on.
HttpFairness ==
  /\ \A r \in HttpRequests : WF_httpVars(Answer(r))
  /\ \A id \in SessionIds : WF_httpVars(TimerStep(id))
  /\ WF_httpVars(TimePasses)

HttpSpec == HttpInit /\ [][HttpNext]_httpVars /\ HttpFairness
-----------------------------------------------------------------------------
(* Properties *)

\* Sessions, timers and requests have their shape, and the map holds no more
\* sessions than the caps allow.
HttpTypeOK ==
  /\ OpenSessions \subseteq SessionIds
  /\ \A id \in OpenSessions : sessions[id] \in [owner : Owners, age : 0..MaxAge, idle : 0..MaxAge]
  /\ Cardinality(OpenSessions) <= GlobalCap
  /\ \A o \in Owners : Cardinality({id \in OpenSessions : sessions[id].owner = o}) <= OwnerCap
  /\ timer \in [SessionIds -> 0..Off] /\ callbacks \subseteq SessionIds
  /\ \A r \in HttpRequests :
       request[r].at \in {"idle", "waiting", "starting", "ending"} /\ request[r].lag \in 0..MaxLag

\* An open session always has a timer that runs or an expire that waits, and
\* a timer never runs for longer than the session may still be idle.
OpenSessionsAreTimed ==
  \A id \in OpenSessions :
    \/ id \in callbacks
    \/ timer[id] # Off /\ timer[id] + sessions[id].age <= TTL + MaxLag

\* A session that was not deleted ends only when it has been idle for its
\* time to live, less what a request may have waited for the mutex: a timer
\* that goes off while a request renews the session does not end it.
OnlyIdleSessionsExpire ==
  \A id \in OpenSessions \ DOMAIN sessions' :
    \/ sessions[id].idle + MaxLag >= TTL
    \/ \E r \in HttpRequests : request'[r].at = "ending" /\ request'[r].id = id

\* A session's end is announced once, however expiry, pruning and deletion
\* meet: never while it is open, and not again by a timer that fires late.
SessionsEndOnce ==
  \A id \in SessionIds :
    over[id] + Cardinality({r \in HttpRequests : request[r].at = "ending" /\ request[r].id = id})
      = IF id <= issued /\ id \notin OpenSessions THEN 1 ELSE 0

\* A session that is in use does not end, and one that ends does so once;
\* and there are never more than the caps allow.
SessionsEndRightly == [][HttpTypeOK' /\ SessionsEndOnce' /\ OnlyIdleSessionsExpire]_httpVars

\* A session nobody asks for again ends.
IdleSessionsEnd ==
  \A id \in SessionIds :
    id \in OpenSessions ~> (id \notin OpenSessions \/ \E r \in HttpRequests : request[r].id = id)
=============================================================================
