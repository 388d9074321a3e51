---------------------------- MODULE RefreshTokens ----------------------------
(***************************************************************************)
(* Refresh tokens: the flat-file store with its rotation, retry grace and  *)
(* chain revocation (refreshstore.go), the single-use authorization codes  *)
(* and the token endpoint that redeems both (tokenendpoint.go), and the    *)
(* disconnect of a delegate (settings_permissions.go).                     *)
(*                                                                         *)
(* A request is two steps where the code lets go of a mutex in between: it *)
(* consumes the code and later saves the token, or it looks the token up   *)
(* and later rotates it or revokes its chain.  A chain is one login, and   *)
(* its client presents the latest token it has been given.  A client in    *)
(* Patient waits for the end of a request before it asks again; any other  *)
(* may give up on a request the server still has and send it once more.    *)
(***************************************************************************)
EXTENDS Naturals, FiniteSets

CONSTANTS
  Chains,          \* the logins; each gets one authorization code
  Strong,          \* those of clients that authenticate with private_key_jwt
  Delegated,       \* those made for one actor on behalf of one subject
  Patient,         \* those whose client never has two requests at the server
  Callers,         \* the requests the server can have in hand
  Grace, Lifetime, CodeTTL,   \* refreshRetryGrace, refreshTTL, the codes' ttl
  MaxTokens, MaxTime, MaxFailedWrites

ASSUME RefreshAssumption ==
  /\ Strong \subseteq Chains /\ Delegated \subseteq Chains /\ Patient \subseteq Chains
  /\ {Grace, Lifetime, CodeTTL, MaxTokens, MaxTime, MaxFailedWrites} \subseteq Nat

VARIABLES
  now,
  codes,    \* authCodeStore.codes: when the code of each login expires
  asked,    \* logins that have had their code
  minted,   \* refresh tokens made so far; they are numbered
  mem,      \* fileRefreshStore.tokens
  disk,     \* the file
  call,     \* what each request has in hand
  client,   \* per login: the token held, its expiry, since when it is presented
  lost,     \* logins whose client has been told the grant is invalid
  ended,    \* per login: its chain's end was asked for, then acknowledged
  failedWrites
storeVars  == <<minted, mem, disk>>
tokenVars == <<now, codes, asked, storeVars, call, client, lost, ended, failedWrites>>

Tokens == 1..MaxTokens
NoToken == 0
NotYet == MaxTime + 1
Idle == [op |-> "idle"]
Busy(op, c, t) == [op |-> op, chain |-> c, token |-> t]
Token == [chain : Chains, used : BOOLEAN, rot : 0..NotYet,
          succ : 0..MaxTokens, exp : Nat]

Fresh(c) == [chain |-> c, used |-> FALSE, rot |-> NotYet, succ |-> NoToken,
             exp |-> now + Lifetime]
Expired(rt) == rt.exp < now
Put(m, t, rt) == [u \in DOMAIN m \cup {t} |-> IF u = t THEN rt ELSE m[u]]
Drop(m, ts) == [u \in DOMAIN m \ ts |-> m[u]]
OfChains(m, cs) == {t \in DOMAIN m : m[t].chain \in cs}
InHand(c) == {r \in Callers : call[r] # Idle /\ call[r].chain = c}

\* Persist: the file becomes the whole map, or stays as it was.  The map is
\* not put back when the write fails.
Persist(m, written) ==
  /\ mem' = m
  /\ IF written THEN UNCHANGED failedWrites
     ELSE failedWrites < MaxFailedWrites /\ failedWrites' = failedWrites + 1
  /\ disk' = IF written THEN m ELSE disk

\* The answer of a request: a token its client keeps unless it has a later
\* one, or the end of the login as its client sees it.
Deliver(c, t, exp) ==
  client' = IF t > client[c].holds /\ c \notin lost
            THEN [client EXCEPT ![c] = [holds |-> t, exp |-> exp, since |-> NotYet]]
            ELSE client
EndRequest(r) == call' = [call EXCEPT ![r] = Idle]
Refuse(c) == lost' = lost \cup {c}
-----------------------------------------------------------------------------
(* Authorization codes *)

Authorize(c) ==
  /\ c \notin asked
  /\ asked' = asked \cup {c}
  /\ codes' = [d \in DOMAIN codes \cup {c} |-> IF d = c THEN now + CodeTTL ELSE codes[d]]
  /\ UNCHANGED <<now, storeVars, call, client, lost, ended, failedWrites>>

\* Consume: the code is gone whatever the endpoint then finds wrong.
Consume(r, c, accepted) ==
  /\ call[r] = Idle /\ c \in DOMAIN codes
  /\ codes' = [d \in DOMAIN codes \ {c} |-> codes[d]]
  /\ IF codes[c] >= now /\ accepted
     THEN call' = [call EXCEPT ![r] = Busy("save", c, NoToken)] /\ UNCHANGED lost
     ELSE Refuse(c) /\ UNCHANGED call
  /\ UNCHANGED <<now, asked, storeVars, client, ended, failedWrites>>

\* issue: the first token of a new chain.
Save(r, written, heard) ==
  LET c == call[r].chain
      t == minted + 1
  IN  /\ call[r].op = "save" /\ minted < MaxTokens
      /\ minted' = t
      /\ Persist(Put(mem, t, Fresh(c)), written)
      /\ IF written /\ heard THEN Deliver(c, t, now + Lifetime) ELSE UNCHANGED client
      /\ IF written /\ heard THEN UNCHANGED lost ELSE Refuse(c)
      /\ EndRequest(r)
      /\ UNCHANGED <<now, codes, asked, ended>>
-----------------------------------------------------------------------------
(* handleRefreshToken *)

Present(r, c) ==
  LET t == client[c].holds
  IN  /\ call[r] = Idle /\ t # NoToken /\ c \notin lost
      /\ c \in Patient => InHand(c) = {}
      /\ client' = [client EXCEPT ![c].since = IF @ = NotYet THEN now ELSE @]
      /\ IF t \in DOMAIN mem
         THEN call' = [call EXCEPT ![r] = Busy("rotate", c, t)] /\ UNCHANGED lost
         ELSE Refuse(c) /\ UNCHANGED call
      /\ UNCHANGED <<now, codes, asked, storeVars, ended, failedWrites>>

\* The map with a token marked as used and its successor t stored.
Rotated(m, old, t) ==
  Put(Put(m, old, [m[old] EXCEPT !.used = TRUE, !.rot = now, !.succ = t]),
      t, Fresh(m[old].chain))

\* The presented token is known, unused and in time.
RotateFresh(r, written, heard) ==
  LET old == call[r].token
      c == call[r].chain
      t == minted + 1
  IN  /\ call[r].op = "rotate" /\ old \in DOMAIN mem
      /\ ~mem[old].used /\ ~Expired(mem[old])
      /\ minted < MaxTokens /\ minted' = t
      /\ Persist(Rotated(mem, old, t), written)
      /\ IF written /\ heard THEN Deliver(c, t, now + Lifetime) ELSE UNCHANGED client
      /\ IF written THEN UNCHANGED lost ELSE Refuse(c)
      /\ EndRequest(r)
      /\ UNCHANGED <<now, codes, asked, ended>>

RotateExpired(r, written) ==
  LET old == call[r].token
  IN  /\ call[r].op = "rotate" /\ old \in DOMAIN mem
      /\ ~mem[old].used /\ Expired(mem[old])
      /\ Persist(Drop(mem, {old}), written)
      /\ Refuse(call[r].chain) /\ EndRequest(r)
      /\ UNCHANGED <<now, codes, asked, minted, client, ended>>

RotateUnknown(r) ==
  /\ call[r].op = "rotate" /\ call[r].token \notin DOMAIN mem
  /\ Refuse(call[r].chain) /\ EndRequest(r)
  /\ UNCHANGED <<now, codes, asked, storeVars, client, ended, failedWrites>>

\* Mutant: the last moment of the grace is outside of it.
RetriableBefore(old) ==
  /\ now < old.rot + Grace /\ old.succ \in DOMAIN mem
  /\ ~mem[old.succ].used /\ ~Expired(mem[old.succ])

\* A used token whose successor may still be handed out again.
Retriable(old) ==
  /\ now <= old.rot + Grace /\ old.succ \in DOMAIN mem
  /\ ~mem[old.succ].used /\ ~Expired(mem[old.succ])

\* The successor as the map has it: nothing is written.
RotateRetry(r, heard) ==
  LET old == call[r].token
      c == call[r].chain
  IN  /\ call[r].op = "rotate" /\ old \in DOMAIN mem
      /\ mem[old].used /\ Retriable(mem[old])
      /\ IF heard THEN Deliver(c, mem[old].succ, mem[mem[old].succ].exp)
         ELSE UNCHANGED client
      /\ EndRequest(r)
      /\ UNCHANGED <<now, codes, asked, storeVars, lost, ended, failedWrites>>

\* Too late for a retry: a strong client is refused and keeps its chain, the
\* chain of a public one is revoked.
RotateReuse(r, written) ==
  LET old == call[r].token
      c == call[r].chain
  IN  /\ call[r].op = "rotate" /\ old \in DOMAIN mem
      /\ mem[old].used /\ ~Retriable(mem[old])
      /\ IF c \in Strong
         THEN written /\ UNCHANGED <<mem, disk, failedWrites, ended>>
         ELSE /\ Persist(Drop(mem, OfChains(mem, {c})), written)
              /\ ended' = [ended EXCEPT ![c] = IF written THEN "acknowledged"
                                               ELSE IF @ = "no" THEN "asked" ELSE @]
      /\ Refuse(c) /\ EndRequest(r)
      /\ UNCHANGED <<now, codes, asked, minted, client>>
-----------------------------------------------------------------------------
(* Revocation *)

\* revoke looks the token up; for an unknown one it answers at once.
LookUpToRevoke(r, t) ==
  /\ call[r] = Idle /\ t \in DOMAIN mem
  /\ call' = [call EXCEPT ![r] = Busy("revoke", mem[t].chain, t)]
  /\ UNCHANGED <<now, codes, asked, storeVars, client, lost, ended, failedWrites>>

\* Mutant: the chain is dropped from the map and the file is left alone.
EndInMemory(cs, written) ==
  /\ mem' = Drop(mem, OfChains(mem, cs)) /\ UNCHANGED <<disk, failedWrites>>
  /\ written
  /\ ended' = [c \in Chains |-> IF c \in cs THEN "acknowledged" ELSE ended[c]]

\* RevokeChain and RevokeDelegation.  When the file cannot be written the
\* request fails, and its chains are gone from the map all the same.
End(cs, written) ==
  /\ Persist(Drop(mem, OfChains(mem, cs)), written)
  /\ ended' = [c \in Chains |->
                IF c \notin cs \/ ended[c] = "acknowledged" THEN ended[c]
                ELSE IF written THEN "acknowledged" ELSE "asked"]

RevokeChain(r, written) ==
  /\ call[r].op = "revoke"
  /\ End({call[r].chain}, written)
  /\ EndRequest(r)
  /\ UNCHANGED <<now, codes, asked, minted, client, lost>>

\* handleDelegateRemove: every chain the store has for the actor.
Disconnect(written) ==
  LET cs == {mem[t].chain : t \in DOMAIN mem} \cap Delegated
  IN  /\ Delegated # {}
      /\ End(cs, written)
      /\ UNCHANGED <<now, codes, asked, minted, call, client, lost>>
-----------------------------------------------------------------------------
(* Time passes; the process dies and starts again from the file. *)

Tick ==
  /\ now < MaxTime
  /\ now' = now + 1
  /\ UNCHANGED <<codes, asked, storeVars, call, client, lost, ended, failedWrites>>

Restart ==
  /\ mem' = disk
  /\ call' = [r \in Callers |-> Idle]
  /\ codes' = [d \in {} |-> 0]
  /\ lost' = lost \cup DOMAIN codes
                  \cup {call[r].chain : r \in {s \in Callers : call[s].op = "save"}}
  /\ UNCHANGED <<now, asked, minted, disk, client, ended, failedWrites>>

RefreshInit ==
  /\ now = 0 /\ codes = [d \in {} |-> 0] /\ asked = {} /\ minted = 0
  /\ mem = [t \in {} |-> Fresh(CHOOSE c \in Chains : TRUE)] /\ disk = mem
  /\ call = [r \in Callers |-> Idle]
  /\ client = [c \in Chains |-> [holds |-> NoToken, exp |-> 0, since |-> NotYet]]
  /\ lost = {} /\ ended = [c \in Chains |-> "no"] /\ failedWrites = 0

RotateNext(r) ==
  \/ \E written, heard \in BOOLEAN : Save(r, written, heard) \/ RotateFresh(r, written, heard)
  \/ \E written \in BOOLEAN : RotateExpired(r, written) \/ RotateReuse(r, written)
  \/ RotateUnknown(r)
  \/ \E heard \in BOOLEAN : RotateRetry(r, heard)

RefreshNext ==
  \/ \E c \in Chains : Authorize(c)
  \/ \E r \in Callers, c \in Chains :
       (\E accepted \in BOOLEAN : Consume(r, c, accepted)) \/ Present(r, c)
  \/ \E r \in Callers : RotateNext(r)
  \/ \E r \in Callers, t \in DOMAIN mem : LookUpToRevoke(r, t)
  \/ \E r \in Callers, written \in BOOLEAN : RevokeChain(r, written)
  \/ \E written \in BOOLEAN : Disconnect(written)
  \/ Tick \/ Restart

RefreshSpec == RefreshInit /\ [][RefreshNext]_tokenVars
-----------------------------------------------------------------------------
(* Properties *)

\* The store's map and file hold tokens of the shape of RefreshToken, the used
\* ones linked to a later one, and the clock, the calls and the clients stay in
\* their ranges.
RefreshTypeOK ==
  /\ now \in 0..MaxTime /\ minted \in 0..MaxTokens /\ failedWrites \in 0..MaxFailedWrites
  /\ DOMAIN codes \subseteq asked /\ asked \subseteq Chains /\ lost \subseteq Chains
  /\ \A m \in {mem, disk} :
       /\ DOMAIN m \subseteq 1..minted
       /\ \A t \in DOMAIN m :
            m[t] \in Token /\ (IF m[t].used THEN m[t].succ \in t+1..minted ELSE m[t].succ = NoToken)
  /\ \A r \in Callers : call[r] # Idle =>
       call[r] \in [op : {"save", "rotate", "revoke"}, chain : Chains, token : 0..minted]
  /\ \A c \in Chains : client[c] \in [holds : 0..minted, exp : Nat, since : 0..NotYet]
  /\ ended \in [Chains -> {"no", "asked", "acknowledged"}]

\* At most one token of a login can be rotated, in memory and in the file a
\* restart reads, however requests, retries, failures and crashes mix.
OneTokenPerLogin ==
  \A m \in {mem, disk} : \A t, u \in DOMAIN m :
    m[t].chain = m[u].chain /\ ~m[t].used /\ ~m[u].used => t = u

\* A chain whose end was acknowledged is gone and stays gone: no request in
\* hand brings a token of it back, nor does a restart.
EndedStaysEnded ==
  \A c \in Chains : ended[c] = "acknowledged" =>
    OfChains(mem, {c}) = {} /\ OfChains(disk, {c}) = {}

\* The store never gives a login two ways on, nor one back that was ended.
StoreIsSound == RefreshTypeOK /\ OneTokenPerLogin /\ EndedStaysEnded

\* What may cost a client that waits for its answers its login.
MayLose(c) ==
  \/ client[c].holds = NoToken      \* the code or its answer was lost
  \/ ended[c] # "no"                \* its chain was revoked
  \/ failedWrites > 0               \* the file could not be written
  \/ now > client[c].since + Grace  \* it asks again too late
  \/ now > client[c].exp            \* the token has expired

\* A client that waits for its answers, and asks again when one is lost,
\* keeps its login across lost answers and restarts: it is refused only for
\* a reason it could know of.
PatientClientsAreServed ==
  [][\A c \in Patient : c \in lost' \ lost => MayLose(c) \/ failedWrites' > 0]_tokenVars
=============================================================================
