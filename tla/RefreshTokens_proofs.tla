------------------------ MODULE RefreshTokens_proofs ------------------------
(***************************************************************************)
(* Theorems about what clients hold on to: the refresh tokens, for any     *)
(* number of logins, requests and tokens, and the sessions of the HTTP     *)
(* API, for any number of owners, requests and sessions, and any caps.     *)
(***************************************************************************)
EXTENDS RefreshTokens, HttpSessions, FiniteSetTheorems, TLAPS

(* A login has started when its code has become a token, or has been lost on *)
(* the way: it can have no first token any more.  Tokens are of logins that  *)
(* have started and have not been ended, and so are requests about tokens.   *)

Started ==
  {c \in asked : c \notin DOMAIN codes /\ \A r \in Callers : ~(call[r].op = "save" /\ call[r].chain = c)}
Acked == {c \in Chains : ended[c] = "acknowledged"}

Shaped(m, n) ==
  /\ DOMAIN m \subseteq 1..n
  /\ \A t \in DOMAIN m :
       m[t] \in Token /\ (IF m[t].used THEN m[t].succ \in t+1..n ELSE m[t].succ = NoToken)
Live(m, S) == \A t \in DOMAIN m : m[t].chain \in S
OneWay(m) ==
  \A t, u \in DOMAIN m : m[t].chain = m[u].chain /\ ~m[t].used /\ ~m[u].used => t = u
Sound(m, n, S) == Shaped(m, n) /\ Live(m, S) /\ OneWay(m)

IMaps ==
  /\ Sound(mem, minted, Started \ Acked) /\ Sound(disk, minted, Started \ Acked)
ICalls ==
  /\ \A r \in Callers :
       /\ call[r].op = "save" => call[r].chain \in asked \ DOMAIN codes
       /\ call[r].op \in {"rotate", "revoke"} => call[r].chain \in Started
  /\ \A r, s \in Callers :
       call[r].op = "save" /\ call[s].op = "save" /\ call[r].chain = call[s].chain => r = s
IEnded == \A c \in Chains : ended[c] # "no" => c \in Started
IHeld == \A c \in Chains : client[c].holds # NoToken => c \in Started

Calls == {Idle} \cup [op : {"save", "rotate", "revoke"}, chain : Chains, token : 0..MaxTokens]
IScalars ==
  /\ now \in 0..MaxTime /\ minted \in 0..MaxTokens /\ failedWrites \in 0..MaxFailedWrites
  /\ DOMAIN codes \subseteq asked /\ asked \subseteq Chains /\ lost \subseteq Chains
  /\ call \in [Callers -> Calls]
  /\ \A r \in Callers : call[r] # Idle => call[r].token <= minted
  /\ client \in [Chains -> [holds : 0..MaxTokens, exp : Nat, since : 0..NotYet]]
  /\ \A c \in Chains : client[c].holds <= minted
  /\ ended \in [Chains -> {"no", "asked", "acknowledged"}]

IInv == IScalars /\ IMaps /\ ICalls /\ IEnded /\ IHeld
-----------------------------------------------------------------------------
(* The operators on the map. *)

\* A new token is of the shape of one.
LEMMA FreshIs ==
  ASSUME now \in Nat, NEW c \in Chains
  PROVE  /\ Fresh(c) \in Token /\ Fresh(c).chain = c /\ ~Fresh(c).used
         /\ Fresh(c).succ = NoToken
<1>1. now + Lifetime \in Nat /\ NotYet \in 0..NotYet /\ NoToken \in 0..MaxTokens
  BY RefreshAssumption DEF NotYet, NoToken
<1> QED
  BY <1>1 DEF Fresh, Token

\* More numbers and more logins make no map worse.
LEMMA SoundGrows ==
  ASSUME NEW n \in Nat, NEW k \in Nat, n <= k, NEW S, NEW T, S \subseteq T,
         NEW m, Sound(m, n, S)
  PROVE  Sound(m, k, T)
<1>1. 1..n \subseteq 1..k /\ \A t \in 1..n : t+1..n \subseteq t+1..k
  OBVIOUS
<1>2. Shaped(m, k)
  BY <1>1 DEF Sound, Shaped
<1> QED
  BY <1>2 DEF Sound, Live

\* Dropping tokens leaves a sound map; dropping chains leaves none of theirs.
LEMMA SoundDrop ==
  ASSUME NEW n, NEW S, NEW m, Sound(m, n, S), NEW ts
  PROVE  Sound(Drop(m, ts), n, S)
<1>1. /\ DOMAIN Drop(m, ts) \subseteq DOMAIN m
      /\ \A u \in DOMAIN Drop(m, ts) : Drop(m, ts)[u] = m[u]
  BY DEF Drop
<1> QED
  BY <1>1 DEF Sound, Shaped, Live, OneWay

LEMMA SoundDropChains ==
  ASSUME NEW n, NEW S, NEW m, Sound(m, n, S), NEW cs
  PROVE  Sound(Drop(m, OfChains(m, cs)), n, S \ cs)
<1> DEFINE d == Drop(m, OfChains(m, cs))
<1>1. /\ DOMAIN d = DOMAIN m \ OfChains(m, cs)
      /\ \A u \in DOMAIN d : d[u] = m[u]
  BY DEF Drop
<1>2. Sound(d, n, S)
  BY SoundDrop
<1>3. Live(d, S \ cs)
  BY <1>1, <1>2 DEF Sound, Live, OfChains
<1> QED
  BY <1>2, <1>3 DEF Sound

\* The first token of a login that had none.
LEMMA SoundSave ==
  ASSUME NEW n \in Nat, NEW S, NEW m, Sound(m, n, S), now \in Nat,
         NEW c \in Chains, c \notin S
  PROVE  Sound(Put(m, n + 1, Fresh(c)), n + 1, S \cup {c})
<1> DEFINE p == Put(m, n + 1, Fresh(c))
<1>1. /\ DOMAIN p = DOMAIN m \cup {n + 1} /\ p[n + 1] = Fresh(c)
      /\ \A u \in DOMAIN m : u # n + 1 => p[u] = m[u]
  BY DEF Put
<1>2. Sound(m, n + 1, S \cup {c})
  BY SoundGrows
<1>3. \A u \in DOMAIN m : u \in 1..n /\ u # n + 1
  BY DEF Sound, Shaped
<1>4. /\ Fresh(c) \in Token /\ Fresh(c).chain = c /\ ~Fresh(c).used
      /\ Fresh(c).succ = NoToken
  BY FreshIs
<1> HIDE DEF p
<1>5. Shaped(p, n + 1)
  <2>1. DOMAIN p \subseteq 1..(n + 1)
    BY <1>1, <1>3
  <2>2. ASSUME NEW t \in DOMAIN p
        PROVE  p[t] \in Token /\ (IF p[t].used THEN p[t].succ \in t+1..(n + 1) ELSE p[t].succ = NoToken)
    <3>1. CASE t \in DOMAIN m
      BY <1>1, <1>2, <1>3, <3>1 DEF Sound, Shaped
    <3>2. CASE t = n + 1
      BY <1>1, <1>4, <3>2
    <3> QED
      BY <1>1, <3>1, <3>2
  <2> QED
    BY <2>1, <2>2 DEF Shaped
<1>6. Live(p, S \cup {c})
  BY <1>1, <1>3, <1>4 DEF Sound, Live
<1>7. OneWay(p)
  <2>1. \A u \in DOMAIN m : m[u].chain # c
    BY DEF Sound, Live
  <2> QED
    BY <1>1, <1>3, <1>4, <2>1 DEF Sound, OneWay
<1> QED
  BY <1>5, <1>6, <1>7 DEF Sound, p

\* A rotation hands the login's one way on to the successor.
LEMMA SoundRotated ==
  ASSUME NEW n \in Nat, n < MaxTokens, NEW S, NEW m, Sound(m, n, S), now \in 0..MaxTime,
         NEW old \in DOMAIN m, ~m[old].used
  PROVE  Sound(Rotated(m, old, n + 1), n + 1, S)
<1> DEFINE rt == [m[old] EXCEPT !.used = TRUE, !.rot = now, !.succ = n + 1]
           c == m[old].chain
           q == Put(m, old, rt)
           p == Put(q, n + 1, Fresh(c))
<1>t. /\ m[old] \in Token /\ old \in 1..n /\ c \in S /\ c \in Chains
      /\ now \in Nat /\ now \in 0..NotYet /\ n + 1 \in 0..MaxTokens /\ n + 1 \in old+1..n+1
  BY RefreshAssumption DEF Sound, Shaped, Live, Token, NotYet
<1>1. rt \in Token /\ rt.chain = c /\ rt.used /\ rt.succ = n + 1
  BY <1>t DEF Token
<1>2. /\ DOMAIN q = DOMAIN m /\ q[old] = rt
      /\ \A u \in DOMAIN m : u # old => q[u] = m[u]
  BY DEF Put
<1>3. /\ DOMAIN p = DOMAIN q \cup {n + 1} /\ p[n + 1] = Fresh(c)
      /\ \A u \in DOMAIN q : u # n + 1 => p[u] = q[u]
  BY DEF Put
<1>4. /\ Fresh(c) \in Token /\ Fresh(c).chain = c /\ ~Fresh(c).used
      /\ Fresh(c).succ = NoToken
  BY <1>t, FreshIs
<1>5. \A u \in DOMAIN m : u \in 1..n /\ u # n + 1
  BY DEF Sound, Shaped
<1>6. /\ DOMAIN p = DOMAIN m \cup {n + 1} /\ p[old] = rt
      /\ \A u \in DOMAIN m : u # old => p[u] = m[u]
  BY <1>2, <1>3, <1>5
<1>7. Sound(m, n + 1, S)
  BY SoundGrows
<1>r. Rotated(m, old, n + 1) = p
  BY DEF Rotated
<1> HIDE DEF rt, c, q, p
<1>8. Shaped(p, n + 1)
  <2>1. DOMAIN p \subseteq 1..(n + 1)
    BY <1>5, <1>6
  <2>2. ASSUME NEW t \in DOMAIN p
        PROVE  p[t] \in Token /\ (IF p[t].used THEN p[t].succ \in t+1..(n + 1) ELSE p[t].succ = NoToken)
    <3>1. CASE t = old
      BY <1>t, <1>1, <1>6, <3>1
    <3>2. CASE t \in DOMAIN m /\ t # old
      BY <1>6, <1>7, <3>2 DEF Sound, Shaped
    <3>3. CASE t = n + 1
      BY <1>3, <1>4, <3>3
    <3> QED
      BY <1>6, <3>1, <3>2, <3>3
  <2> QED
    BY <2>1, <2>2 DEF Shaped
<1>9. Live(p, S)
  BY <1>t, <1>1, <1>3, <1>4, <1>6 DEF Sound, Live
<1>10. OneWay(p)
  <2>1. \A u \in DOMAIN m : m[u].chain = c /\ ~m[u].used => u = old
    BY DEF Sound, OneWay, c
  <2>2. \A u \in DOMAIN p : p[u].chain = c /\ ~p[u].used => u = n + 1
    BY <1>1, <1>6, <2>1
  <2>3. ASSUME NEW t \in DOMAIN p, NEW u \in DOMAIN p,
               p[t].chain = p[u].chain, ~p[t].used, ~p[u].used
        PROVE  t = u
    <3>1. CASE p[t].chain = c
      BY <2>2, <2>3, <3>1
    <3>2. CASE p[t].chain # c
      <4>1. t \in DOMAIN m /\ u \in DOMAIN m /\ p[t] = m[t] /\ p[u] = m[u]
        BY <1>1, <1>3, <1>4, <1>6, <2>3, <3>2
      <4> QED
        BY <2>3, <4>1 DEF Sound, OneWay
    <3> QED
      BY <3>1, <3>2
  <2> QED
    BY <2>3 DEF OneWay
<1> QED
  BY <1>8, <1>9, <1>10, <1>r DEF Sound
-----------------------------------------------------------------------------
(* The steps. *)

\* The maps after a step that stores m, or fails to.
LEMMA MapsAfter ==
  ASSUME IInv, minted' \in Nat, minted <= minted', Started \subseteq Started',
         Sound(mem', minted', Started' \ Acked'),
         disk' = mem' \/ (disk' = disk /\ Acked' \subseteq Acked)
  PROVE  IMaps'
<1>1. Sound(disk, minted, Started \ Acked) /\ minted \in Nat
  BY DEF IInv, IMaps, IScalars
<1>2. CASE disk' = mem'
  BY <1>2 DEF IMaps
<1>3. CASE disk' = disk /\ Acked' \subseteq Acked
  <2>1. Started \ Acked \subseteq Started' \ Acked'
    BY <1>3
  <2>2. Sound(disk, minted', Started' \ Acked')
    BY <1>1, <2>1, SoundGrows
  <2> QED
    BY <1>3, <2>2 DEF IMaps
<1> QED
  BY <1>2, <1>3

\* A step of the clock, the codes or the requests that touches no map.
LEMMA MapsKept ==
  ASSUME IInv, UNCHANGED <<minted, mem, disk, ended>>, Started \subseteq Started'
  PROVE  IMaps' /\ IEnded'
<1>1. Acked' = Acked
  BY DEF Acked
<1>2. Sound(mem, minted, Started \ Acked) /\ minted \in Nat
  BY DEF IInv, IMaps, IScalars
<1>3. Started \ Acked \subseteq Started' \ Acked'
  BY <1>1
<1>4. Sound(mem', minted', Started' \ Acked')
  BY <1>2, <1>3, SoundGrows
<1>5. IMaps'
  BY <1>1, <1>2, <1>4, MapsAfter
<1> QED
  BY <1>5 DEF IInv, IEnded

\* A request that ends leaves the others, and its login has started.
LEMMA EndsCall ==
  ASSUME IInv, NEW r \in Callers, EndRequest(r), UNCHANGED <<codes, asked>>
  PROVE  /\ Started \subseteq Started' /\ ICalls' /\ call' \in [Callers -> Calls]
         /\ \A s \in Callers : call'[s] # Idle => s # r /\ call'[s] = call[s]
         /\ call[r].op = "save" => Started' = Started \cup {call[r].chain} /\ call[r].chain \notin Started
<1>t. call \in [Callers -> Calls] /\ Idle \in Calls /\ Idle.op = "idle"
  BY DEF IInv, IScalars, Calls, Idle
<1>1. /\ call' \in [Callers -> Calls] /\ call'[r] = Idle
      /\ \A s \in Callers : s # r => call'[s] = call[s]
  BY <1>t DEF EndRequest
<1>2. \A s \in Callers : call'[s].op = "save" => s # r /\ call'[s] = call[s]
  BY <1>t, <1>1
<1>3. Started \subseteq Started'
  BY <1>2 DEF Started
<1>4. ICalls'
  <2>1. ASSUME NEW s \in Callers
        PROVE  /\ call'[s].op = "save" => call'[s].chain \in asked' \ DOMAIN codes'
               /\ call'[s].op \in {"rotate", "revoke"} => call'[s].chain \in Started'
    <3>1. CASE s = r
      BY <1>t, <1>1, <3>1
    <3>2. CASE s # r
      BY <1>1, <1>3, <3>2 DEF IInv, ICalls
    <3> QED
      BY <3>1, <3>2
  <2>2. ASSUME NEW s \in Callers, NEW u \in Callers, call'[s].op = "save", call'[u].op = "save",
               call'[s].chain = call'[u].chain
        PROVE  s = u
    BY <1>2, <2>2 DEF IInv, ICalls
  <2> QED
    BY <2>1, <2>2 DEF ICalls
<1>5. ASSUME call[r].op = "save"
      PROVE  Started' = Started \cup {call[r].chain} /\ call[r].chain \notin Started
  <2>1. call[r].chain \in asked \ DOMAIN codes
    BY <1>5 DEF IInv, ICalls
  <2>2. \A s \in Callers : s # r => ~(call[s].op = "save" /\ call[s].chain = call[r].chain)
    BY <1>5 DEF IInv, ICalls
  <2>3. call[r].chain \in Started' /\ call[r].chain \notin Started
    BY <1>2, <1>5, <2>1, <2>2 DEF Started
  <2>4. \A d \in Started' : d \in Started \/ d = call[r].chain
    BY <1>1, <1>5 DEF Started
  <2> QED
    BY <1>3, <2>3, <2>4
<1> QED
  BY <1>1, <1>2, <1>3, <1>4, <1>5

\* The numbers stay in their ranges when a request ends, whatever its answer.
LEMMA ScalarsAfter ==
  ASSUME IInv, NEW r \in Callers, EndRequest(r), UNCHANGED <<now, codes, asked>>,
         minted' \in 0..MaxTokens, minted <= minted', failedWrites' \in 0..MaxFailedWrites,
         lost' \subseteq Chains, ended' \in [Chains -> {"no", "asked", "acknowledged"}],
         client' = client \/ \E c \in Chains, t \in 0..MaxTokens, exp \in Nat :
                               c \in Started' /\ t <= minted' /\ Deliver(c, t, exp)
  PROVE  IScalars' /\ IHeld'
<1>1. IScalars
  BY DEF IInv
<1>2. /\ call' \in [Callers -> Calls]
      /\ \A s \in Callers : call'[s] # Idle => s # r /\ call'[s] = call[s]
  BY EndsCall
<1>3. \A s \in Callers : call'[s] # Idle => call'[s].token <= minted'
  <2>1. ASSUME NEW s \in Callers, call'[s] # Idle
        PROVE  call'[s].token <= minted'
    <3>1. call[s] # Idle /\ call'[s] = call[s] /\ call[s].token <= minted
      BY <1>1, <1>2, <2>1 DEF IScalars
    <3>2. call[s] \in [op : {"save", "rotate", "revoke"}, chain : Chains, token : 0..MaxTokens]
      BY <1>1, <3>1 DEF IScalars, Calls
    <3>3. call[s].token \in Nat /\ minted \in Nat /\ minted' \in Nat
      BY <1>1, <3>2 DEF IScalars
    <3> QED
      BY <3>1, <3>3
  <2> QED
    BY <2>1
<1>4. /\ client' \in [Chains -> [holds : 0..MaxTokens, exp : Nat, since : 0..NotYet]]
      /\ \A c \in Chains : client'[c].holds <= minted'
  <2>1. CASE client' = client
    BY <1>1, <2>1 DEF IScalars
  <2>2. ASSUME NEW c \in Chains, NEW t \in 0..MaxTokens, NEW exp \in Nat,
               t <= minted', client' = [client EXCEPT ![c] = [holds |-> t, exp |-> exp, since |-> NotYet]]
        PROVE  <1>4!1 /\ <1>4!2
    <3>1. [holds |-> t, exp |-> exp, since |-> NotYet]
            \in [holds : 0..MaxTokens, exp : Nat, since : 0..NotYet]
      BY RefreshAssumption DEF NotYet
    <3>2. /\ client' \in [Chains -> [holds : 0..MaxTokens, exp : Nat, since : 0..NotYet]]
          /\ client'[c].holds = t /\ \A d \in Chains : d # c => client'[d] = client[d]
      BY <1>1, <2>2, <3>1 DEF IScalars
    <3>3. \A d \in Chains : client[d].holds <= minted /\ client[d].holds \in Nat
      BY <1>1 DEF IScalars
    <3>4. \A d \in Chains : client'[d].holds <= minted'
      BY <1>1, <2>2, <3>2, <3>3 DEF IScalars
    <3> QED
      BY <3>2, <3>4
  <2> QED
    BY <2>1, <2>2 DEF Deliver
<1>5. IHeld'
  <2>1. Started \subseteq Started' /\ \A c \in Chains : client[c].holds # NoToken => c \in Started
    BY EndsCall DEF IInv, IHeld
  <2>2. CASE client' = client
    BY <2>1, <2>2 DEF IHeld
  <2>3. ASSUME NEW c \in Chains, NEW x, c \in Started', client' = [client EXCEPT ![c] = x]
        PROVE  IHeld'
    <3>1. \A d \in Chains : d # c => client'[d] = client[d]
      BY <1>1, <2>3 DEF IScalars
    <3> QED
      BY <2>1, <2>3, <3>1 DEF IHeld
  <2> QED
    BY <2>2, <2>3 DEF Deliver
<1> QED
  BY <1>1, <1>2, <1>3, <1>4, <1>5 DEF IScalars

\* What a request is about.
LEMMA InTheCall ==
  ASSUME IInv, NEW r \in Callers, call[r] # Idle
  PROVE  /\ call[r].op \in {"save", "rotate", "revoke"} /\ call[r].chain \in Chains
         /\ call[r].token \in 0..MaxTokens
BY DEF IInv, IScalars, Calls

LEMMA SaveStep ==
  ASSUME IInv, NEW r \in Callers, NEW written \in BOOLEAN, NEW heard \in BOOLEAN,
         Save(r, written, heard)
  PROVE  IInv'
<1> DEFINE c == call[r].chain
           t == minted + 1
           S == Started \ Acked
<1>1. /\ call[r].op = "save" /\ minted < MaxTokens /\ minted' = t
      /\ Persist(Put(mem, t, Fresh(c)), written) /\ EndRequest(r)
      /\ UNCHANGED <<now, codes, asked, ended>>
      /\ client' = client \/ Deliver(c, t, now + Lifetime)
      /\ lost' = lost \/ Refuse(c)
  BY DEF Save
<1>t. c \in Chains /\ minted \in Nat /\ now \in Nat /\ t \in 0..MaxTokens /\ now + Lifetime \in Nat
  BY <1>1, InTheCall, RefreshAssumption DEF Idle, IInv, IScalars
<1>2. /\ Started \subseteq Started' /\ ICalls'
      /\ Started' = Started \cup {c} /\ c \notin Started
  BY <1>1, EndsCall
<1>3. Acked' = Acked /\ c \notin Acked
  BY <1>1, <1>2, <1>t DEF IInv, IEnded, Acked
<1>4. Sound(mem', minted', Started' \ Acked')
  <2>1. Sound(mem, minted, S)
    BY DEF IInv, IMaps
  <2>2. Sound(Put(mem, t, Fresh(c)), t, S \cup {c})
    BY <1>2, <1>t, <2>1, SoundSave
  <2>3. S \cup {c} = Started' \ Acked'
    BY <1>2, <1>3
  <2>4. mem' = Put(mem, t, Fresh(c))
    BY <1>1 DEF Persist
  <2> HIDE DEF c, t, S
  <2> QED
    BY <1>1, <2>2, <2>3, <2>4
<1>5. IMaps'
  <2>1. disk' = mem' \/ (disk' = disk /\ Acked' \subseteq Acked)
    BY <1>1, <1>3 DEF Persist
  <2> QED
    BY <1>1, <1>2, <1>4, <1>t, <2>1, MapsAfter
<1>6. IEnded'
  BY <1>1, <1>2 DEF IInv, IEnded
<1>7. IScalars' /\ IHeld'
  <2>1. IScalars
    BY DEF IInv
  <2>2. failedWrites' \in 0..MaxFailedWrites
    BY <1>1, <2>1, RefreshAssumption DEF Persist, IScalars
  <2>3. lost' \subseteq Chains
    BY <1>1, <1>t, <2>1 DEF Refuse, IScalars
  <2>4. ended' \in [Chains -> {"no", "asked", "acknowledged"}]
    BY <1>1, <2>1 DEF IScalars
  <2>5. minted' \in 0..MaxTokens /\ minted <= minted'
    BY <1>1, <1>t
  <2>6. client' = client \/ \E d \in Chains, u \in 0..MaxTokens, exp \in Nat :
                               d \in Started' /\ u <= minted' /\ Deliver(d, u, exp)
    BY <1>1, <1>2, <1>t, <2>5
  <2> QED
    BY <1>1, <2>2, <2>3, <2>4, <2>5, <2>6, ScalarsAfter
<1> QED
  BY <1>2, <1>5, <1>6, <1>7 DEF IInv

LEMMA RotateFreshStep ==
  ASSUME IInv, NEW r \in Callers, NEW written \in BOOLEAN, NEW heard \in BOOLEAN,
         RotateFresh(r, written, heard)
  PROVE  IInv'
<1> DEFINE old == call[r].token
           c == call[r].chain
           t == minted + 1
           S == Started \ Acked
<1>1. /\ call[r].op = "rotate" /\ old \in DOMAIN mem /\ ~mem[old].used
      /\ minted < MaxTokens /\ minted' = t
      /\ Persist(Rotated(mem, old, t), written) /\ EndRequest(r)
      /\ UNCHANGED <<now, codes, asked, ended>>
      /\ client' = client \/ Deliver(c, t, now + Lifetime)
      /\ lost' = lost \/ Refuse(c)
  BY DEF RotateFresh
<1>t. /\ c \in Chains /\ minted \in Nat /\ now \in 0..MaxTime /\ t \in 0..MaxTokens
      /\ now + Lifetime \in Nat
  BY <1>1, InTheCall, RefreshAssumption DEF Idle, IInv, IScalars
<1>2. Started \subseteq Started' /\ ICalls' /\ c \in Started
  BY <1>1, EndsCall DEF IInv, ICalls
<1>3. Acked' = Acked
  BY <1>1 DEF Acked
<1>4. Sound(mem', minted', Started' \ Acked')
  <2>1. Sound(mem, minted, S)
    BY DEF IInv, IMaps
  <2>2. Sound(Rotated(mem, old, t), t, S)
    BY <1>1, <1>t, <2>1, SoundRotated
  <2>3. S \subseteq Started' \ Acked'
    BY <1>2, <1>3
  <2>4. mem' = Rotated(mem, old, t)
    BY <1>1 DEF Persist
  <2>5. t \in Nat
    BY <1>t
  <2> HIDE DEF c, t, S
  <2>6. Sound(Rotated(mem, old, t), t, Started' \ Acked')
    BY <2>2, <2>3, <2>5, SoundGrows
  <2> QED
    BY <1>1, <2>4, <2>6
<1>5. IMaps'
  <2>1. disk' = mem' \/ (disk' = disk /\ Acked' \subseteq Acked)
    BY <1>1, <1>3 DEF Persist
  <2> QED
    BY <1>1, <1>2, <1>4, <1>t, <2>1, MapsAfter
<1>6. IEnded'
  BY <1>1, <1>2 DEF IInv, IEnded
<1>7. IScalars' /\ IHeld'
  <2>1. IScalars
    BY DEF IInv
  <2>2. failedWrites' \in 0..MaxFailedWrites
    BY <1>1, <2>1, RefreshAssumption DEF Persist, IScalars
  <2>3. lost' \subseteq Chains
    BY <1>1, <1>t, <2>1 DEF Refuse, IScalars
  <2>4. ended' \in [Chains -> {"no", "asked", "acknowledged"}]
    BY <1>1, <2>1 DEF IScalars
  <2>5. minted' \in 0..MaxTokens /\ minted <= minted'
    BY <1>1, <1>t
  <2>6. client' = client \/ \E d \in Chains, u \in 0..MaxTokens, exp \in Nat :
                               d \in Started' /\ u <= minted' /\ Deliver(d, u, exp)
    BY <1>1, <1>2, <1>t, <2>5
  <2> QED
    BY <1>1, <2>2, <2>3, <2>4, <2>5, <2>6, ScalarsAfter
<1> QED
  BY <1>2, <1>5, <1>6, <1>7 DEF IInv

\* A request that ends without a new token: it drops the tokens ts, of which
\* those of the chains cs are all there are when it acknowledges their end.
LEMMA DropStep ==
  ASSUME IInv, NEW r \in Callers, call[r] # Idle, EndRequest(r), NEW ts, NEW written \in BOOLEAN,
         Persist(Drop(mem, ts), written), UNCHANGED <<now, codes, asked, minted, client>>,
         lost' = lost \/ Refuse(call[r].chain),
         \/ UNCHANGED ended
         \/ /\ ts = OfChains(mem, {call[r].chain}) /\ call[r].chain \in Started
            /\ ended' \in [Chains -> {"no", "asked", "acknowledged"}]
            /\ \A c \in Chains : c # call[r].chain => ended'[c] = ended[c]
            /\ ~written /\ ended'[call[r].chain] = "acknowledged"
                 => ended[call[r].chain] = "acknowledged"
  PROVE  IInv'
<1> DEFINE S == Started \ Acked
           c == call[r].chain
<1>1. IScalars /\ Sound(mem, minted, S) /\ minted \in Nat /\ c \in Chains
  BY InTheCall DEF IInv, IScalars, IMaps
<1>2. Started \subseteq Started' /\ ICalls'
  BY EndsCall
<1>3. /\ mem' = Drop(mem, ts) /\ (disk' = mem' \/ (disk' = disk /\ ~written))
      /\ failedWrites' \in 0..MaxFailedWrites
  BY <1>1, RefreshAssumption DEF Persist, IScalars
<1>4. /\ Sound(mem', minted', Started' \ Acked')
      /\ disk' = mem' \/ (disk' = disk /\ Acked' \subseteq Acked)
      /\ IEnded' /\ ended' \in [Chains -> {"no", "asked", "acknowledged"}]
  <2>1. CASE UNCHANGED ended
    <3>1. Acked' = Acked
      BY <2>1 DEF Acked
    <3>2. Sound(mem', minted, S)
      BY <1>1, <1>3, SoundDrop
    <3>3. S \subseteq Started' \ Acked'
      BY <1>2, <3>1
    <3> HIDE DEF S
    <3>4. Sound(mem', minted, Started' \ Acked')
      BY <1>1, <3>2, <3>3, SoundGrows
    <3>5. IEnded' /\ ended' \in [Chains -> {"no", "asked", "acknowledged"}]
      BY <1>1, <1>2, <2>1 DEF IInv, IEnded, IScalars
    <3> QED
      BY <1>3, <3>1, <3>4, <3>5
  <2>2. CASE /\ ts = OfChains(mem, {c}) /\ c \in Started
             /\ ended' \in [Chains -> {"no", "asked", "acknowledged"}]
             /\ \A d \in Chains : d # c => ended'[d] = ended[d]
             /\ ~written /\ ended'[c] = "acknowledged" => ended[c] = "acknowledged"
    <3>1. Sound(mem', minted, S \ {c})
      BY <1>1, <1>3, <2>2, SoundDropChains
    <3>2. Acked' \subseteq Acked \cup {c}
      BY <2>2 DEF Acked
    <3>3. S \ {c} \subseteq Started' \ Acked'
      BY <1>2, <3>2
    <3>4. Sound(mem', minted, Started' \ Acked')
      BY <1>1, <3>1, <3>3, SoundGrows
    <3>5. ~written => Acked' \subseteq Acked
      BY <2>2 DEF Acked
    <3>6. IEnded'
      BY <1>2, <2>2 DEF IInv, IEnded
    <3> QED
      BY <1>3, <2>2, <3>4, <3>5, <3>6
  <2> QED
    BY <2>1, <2>2
<1>5. IMaps'
  BY <1>1, <1>2, <1>4, MapsAfter
<1>6. lost' \subseteq Chains /\ minted' \in 0..MaxTokens /\ minted <= minted'
  BY <1>1 DEF Refuse, IScalars
<1>7. IScalars' /\ IHeld'
  BY <1>3, <1>4, <1>6, ScalarsAfter
<1> QED
  BY <1>2, <1>4, <1>5, <1>7 DEF IInv

\* A request that ends and writes nothing.
LEMMA AnswerStep ==
  ASSUME IInv, NEW r \in Callers, EndRequest(r),
         UNCHANGED <<now, codes, asked, storeVars, ended, failedWrites>>, lost' \subseteq Chains,
         client' = client \/ \E c \in Chains \cap Started, t \in 0..MaxTokens, exp \in Nat :
                               t <= minted /\ Deliver(c, t, exp)
  PROVE  IInv'
<1>1. UNCHANGED <<now, codes, asked, minted, mem, disk, ended, failedWrites>>
  BY DEF storeVars
<1>2. Started \subseteq Started' /\ ICalls'
  BY <1>1, EndsCall
<1>3. IMaps' /\ IEnded'
  BY <1>1, <1>2, MapsKept
<1>4. /\ minted' \in 0..MaxTokens /\ minted <= minted' /\ failedWrites' \in 0..MaxFailedWrites
      /\ ended' \in [Chains -> {"no", "asked", "acknowledged"}]
  BY <1>1 DEF IInv, IScalars
<1>5. IScalars' /\ IHeld'
  BY <1>1, <1>2, <1>4, ScalarsAfter
<1> QED
  BY <1>2, <1>3, <1>5 DEF IInv

LEMMA RotateStep ==
  ASSUME IInv, NEW r \in Callers, RotateNext(r)
  PROVE  IInv'
<1> DEFINE old == call[r].token
           c == call[r].chain
<1>o. call[r].op \in {"save", "rotate"} => call[r] # Idle
  BY DEF Idle
<1>1. ASSUME NEW written \in BOOLEAN, NEW heard \in BOOLEAN, Save(r, written, heard)
      PROVE  IInv'
  BY <1>1, SaveStep
<1>2. ASSUME NEW written \in BOOLEAN, NEW heard \in BOOLEAN, RotateFresh(r, written, heard)
      PROVE  IInv'
  BY <1>2, RotateFreshStep
<1>3. ASSUME NEW written \in BOOLEAN, RotateExpired(r, written)
      PROVE  IInv'
  <2>1. call[r] # Idle
    BY <1>3, <1>o DEF RotateExpired
  <2>2. /\ EndRequest(r) /\ Persist(Drop(mem, {old}), written) /\ Refuse(c)
        /\ UNCHANGED <<now, codes, asked, minted, client>> /\ UNCHANGED ended
    BY <1>3 DEF RotateExpired
  <2> QED
    BY <2>1, <2>2, DropStep
<1>4. CASE RotateUnknown(r)
  <2>1. c \in Chains
    BY <1>4, <1>o, InTheCall DEF RotateUnknown
  <2>2. lost' \subseteq Chains
    BY <1>4, <2>1 DEF RotateUnknown, Refuse, IInv, IScalars
  <2> QED
    BY <1>4, <2>2, AnswerStep DEF RotateUnknown
<1>5. ASSUME NEW heard \in BOOLEAN, RotateRetry(r, heard)
      PROVE  IInv'
  <2>1. c \in Chains /\ c \in Started
    BY <1>5, <1>o, InTheCall DEF RotateRetry, IInv, ICalls
  <2>2. /\ old \in DOMAIN mem /\ mem[old].succ \in DOMAIN mem /\ EndRequest(r)
        /\ client' = client \/ Deliver(c, mem[old].succ, mem[mem[old].succ].exp)
        /\ UNCHANGED <<now, codes, asked, storeVars, lost, ended, failedWrites>>
    BY <1>5 DEF RotateRetry, Retriable
  <2>3. \A t \in DOMAIN mem : t \in 1..minted /\ mem[t] \in Token
    BY DEF IInv, IMaps, Sound, Shaped
  <2>4. minted \in 0..MaxTokens /\ lost \subseteq Chains
    BY DEF IInv, IScalars
  <2>5. /\ mem[old].succ \in 0..MaxTokens /\ mem[old].succ <= minted
        /\ mem[mem[old].succ].exp \in Nat
    BY <2>2, <2>3, <2>4 DEF Token
  <2>6. client' = client \/ \E d \in Chains \cap Started, t \in 0..MaxTokens, exp \in Nat :
                               t <= minted /\ Deliver(d, t, exp)
    BY <2>1, <2>2, <2>5
  <2> QED
    BY <2>2, <2>4, <2>6, AnswerStep
<1>6. ASSUME NEW written \in BOOLEAN, RotateReuse(r, written)
      PROVE  IInv'
  <2>1. call[r] # Idle /\ c \in Chains /\ c \in Started
    BY <1>6, <1>o, InTheCall DEF RotateReuse, IInv, ICalls
  <2>2. CASE c \in Strong
    <3>1. lost' \subseteq Chains
      BY <1>6, <2>1 DEF RotateReuse, Refuse, IInv, IScalars
    <3>2. /\ EndRequest(r) /\ client' = client
          /\ UNCHANGED <<now, codes, asked, minted, mem, disk, ended, failedWrites>>
      BY <1>6, <2>2 DEF RotateReuse
    <3> QED
      BY <3>1, <3>2, AnswerStep DEF storeVars
  <2>3. CASE c \notin Strong
    <3>1. /\ EndRequest(r) /\ Persist(Drop(mem, OfChains(mem, {c})), written) /\ Refuse(c)
          /\ UNCHANGED <<now, codes, asked, minted, client>>
          /\ ended' = [ended EXCEPT ![c] = IF written THEN "acknowledged"
                                           ELSE IF @ = "no" THEN "asked" ELSE @]
      BY <1>6, <2>3 DEF RotateReuse
    <3>2. ended \in [Chains -> {"no", "asked", "acknowledged"}]
      BY DEF IInv, IScalars
    <3>3. /\ ended' \in [Chains -> {"no", "asked", "acknowledged"}]
          /\ \A d \in Chains : d # c => ended'[d] = ended[d]
          /\ ~written /\ ended'[c] = "acknowledged" => ended[c] = "acknowledged"
      BY <2>1, <3>1, <3>2
    <3> QED
      BY <2>1, <3>1, <3>3, DropStep
  <2> QED
    BY <2>2, <2>3
<1> QED
  BY <1>1, <1>2, <1>3, <1>4, <1>5, <1>6 DEF RotateNext

\* The end of chains: the map loses their tokens, and the file with it when
\* their end is acknowledged.
LEMMA EndStep ==
  ASSUME IInv, NEW cs, NEW written \in BOOLEAN, End(cs, written),
         cs \cap Chains \subseteq Started, Started \subseteq Started', minted' = minted
  PROVE  /\ IMaps' /\ IEnded' /\ failedWrites' \in 0..MaxFailedWrites
         /\ ended' \in [Chains -> {"no", "asked", "acknowledged"}]
<1> DEFINE S == Started \ Acked
<1>1. IScalars /\ Sound(mem, minted, S) /\ minted \in Nat
  BY DEF IInv, IScalars, IMaps
<1>2. /\ mem' = Drop(mem, OfChains(mem, cs)) /\ (disk' = mem' \/ (disk' = disk /\ ~written))
      /\ failedWrites' \in 0..MaxFailedWrites
  BY <1>1, RefreshAssumption DEF End, Persist, IScalars
<1>3. /\ ended' \in [Chains -> {"no", "asked", "acknowledged"}]
      /\ \A c \in Chains : c \notin cs => ended'[c] = ended[c]
      /\ ~written => \A c \in Chains : ended'[c] = "acknowledged" => ended[c] = "acknowledged"
  BY <1>1 DEF End, IScalars
<1>4. Acked' \subseteq Acked \cup cs /\ (~written => Acked' \subseteq Acked)
  BY <1>3 DEF Acked
<1>5. Sound(mem', minted', Started' \ Acked')
  <2>1. Sound(mem', minted, S \ cs)
    BY <1>1, <1>2, SoundDropChains
  <2>2. S \ cs \subseteq Started' \ Acked'
    BY <1>4
  <2> QED
    BY <1>1, <2>1, <2>2, SoundGrows
<1>6. IMaps'
  BY <1>1, <1>2, <1>4, <1>5, MapsAfter
<1>7. IEnded'
  BY <1>3 DEF IInv, IEnded
<1> QED
  BY <1>2, <1>3, <1>6, <1>7

LEMMA RevokeStep ==
  ASSUME IInv, NEW r \in Callers, NEW written \in BOOLEAN, RevokeChain(r, written)
  PROVE  IInv'
<1>1. /\ call[r].op = "revoke" /\ EndRequest(r) /\ End({call[r].chain}, written)
      /\ UNCHANGED <<now, codes, asked, minted, client, lost>>
  BY DEF RevokeChain
<1>2. Started \subseteq Started' /\ ICalls'
  BY <1>1, EndsCall
<1>3. call[r].chain \in Started
  BY <1>1 DEF IInv, ICalls
<1>4. /\ IMaps' /\ IEnded' /\ failedWrites' \in 0..MaxFailedWrites
      /\ ended' \in [Chains -> {"no", "asked", "acknowledged"}]
  BY <1>1, <1>2, <1>3, EndStep
<1>5. minted' \in 0..MaxTokens /\ minted <= minted' /\ lost' \subseteq Chains
  BY <1>1 DEF IInv, IScalars
<1>6. IScalars' /\ IHeld'
  BY <1>1, <1>4, <1>5, ScalarsAfter
<1> QED
  BY <1>2, <1>4, <1>6 DEF IInv

\* A delegate is disconnected: no request of this component is in it.
LEMMA DisconnectStep ==
  ASSUME IInv, NEW written \in BOOLEAN, Disconnect(written)
  PROVE  IInv'
<1> DEFINE cs == {mem[t].chain : t \in DOMAIN mem} \cap Delegated
<1>1. End(cs, written) /\ UNCHANGED <<now, codes, asked, minted, call, client, lost>>
  BY DEF Disconnect
<1>2. Started' = Started
  BY <1>1 DEF Started
<1>3. cs \subseteq Started
  BY DEF IInv, IMaps, Sound, Live
<1>4. /\ IMaps' /\ IEnded' /\ failedWrites' \in 0..MaxFailedWrites
      /\ ended' \in [Chains -> {"no", "asked", "acknowledged"}]
  <2> HIDE DEF cs
  <2> QED
    BY <1>1, <1>2, <1>3, EndStep
<1>5. ICalls'
  BY <1>1, <1>2 DEF IInv, ICalls
<1>6. IScalars' /\ IHeld'
  BY <1>1, <1>2, <1>4 DEF IInv, IScalars, IHeld
<1> QED
  BY <1>4, <1>5, <1>6 DEF IInv

\* A code is issued: its login has not started, nor had it before.
LEMMA AuthorizeStep ==
  ASSUME IInv, NEW c \in Chains, Authorize(c)
  PROVE  IInv'
<1>1. /\ c \notin asked /\ asked' = asked \cup {c} /\ DOMAIN codes' = DOMAIN codes \cup {c}
      /\ UNCHANGED <<now, minted, mem, disk, call, client, lost, ended, failedWrites>>
  BY DEF Authorize, storeVars
<1>2. Started \subseteq Started'
  BY <1>1 DEF Started
<1>3. IMaps' /\ IEnded'
  BY <1>1, <1>2, MapsKept
<1>4. ICalls'
  BY <1>1, <1>2 DEF IInv, ICalls
<1>5. IScalars' /\ IHeld'
  BY <1>1, <1>2 DEF IInv, IScalars, IHeld
<1> QED
  BY <1>3, <1>4, <1>5 DEF IInv

\* What a new request has in hand.
LEMMA InHandTyped ==
  ASSUME IInv, NEW r \in Callers, NEW b \in Calls, b.token <= minted,
         call' = [call EXCEPT ![r] = b]
  PROVE  /\ call' \in [Callers -> Calls] /\ call'[r] = b
         /\ \A s \in Callers : s # r => call'[s] = call[s]
         /\ \A s \in Callers : call'[s] # Idle => call'[s].token <= minted
BY DEF IInv, IScalars

LEMMA ConsumeStep ==
  ASSUME IInv, NEW r \in Callers, NEW c \in Chains, NEW accepted \in BOOLEAN,
         Consume(r, c, accepted)
  PROVE  IInv'
<1> DEFINE b == Busy("save", c, NoToken)
<1>1. /\ call[r] = Idle /\ c \in DOMAIN codes /\ DOMAIN codes' = DOMAIN codes \ {c}
      /\ UNCHANGED <<now, asked, minted, mem, disk, client, ended, failedWrites>>
      /\ \/ call' = [call EXCEPT ![r] = b] /\ lost' = lost
         \/ lost' = lost \cup {c} /\ call' = call
  BY DEF Consume, Refuse, storeVars
<1>2. IScalars /\ c \in asked
  BY <1>1 DEF IInv, IScalars
<1>3. CASE call' = [call EXCEPT ![r] = b] /\ lost' = lost
  <2>1. b \in Calls /\ b.token <= minted /\ b.op = "save" /\ b.chain = c
    BY <1>2, RefreshAssumption DEF Busy, NoToken, Calls, IScalars
  <2>2. /\ call' \in [Callers -> Calls] /\ call'[r] = b
        /\ \A s \in Callers : s # r => call'[s] = call[s]
        /\ \A s \in Callers : call'[s] # Idle => call'[s].token <= minted
    BY <1>3, <2>1, InHandTyped
  <2>3. Started \subseteq Started'
    BY <1>1, <2>1, <2>2 DEF Started
  <2>4. IMaps' /\ IEnded'
    BY <1>1, <2>3, MapsKept
  <2>5. ICalls'
    <3>1. ASSUME NEW s \in Callers
          PROVE  /\ call'[s].op = "save" => call'[s].chain \in asked' \ DOMAIN codes'
                 /\ call'[s].op \in {"rotate", "revoke"} => call'[s].chain \in Started'
      BY <1>1, <1>2, <2>1, <2>2, <2>3 DEF IInv, ICalls
    <3>2. \A s \in Callers : s # r /\ call'[s].op = "save" => call'[s].chain # c
      BY <1>1, <2>2 DEF IInv, ICalls
    <3>3. ASSUME NEW s \in Callers, NEW u \in Callers, call'[s].op = "save", call'[u].op = "save",
                 call'[s].chain = call'[u].chain
          PROVE  s = u
      BY <2>1, <2>2, <3>2, <3>3 DEF IInv, ICalls
    <3> QED
      BY <3>1, <3>3 DEF ICalls
  <2>6. IScalars' /\ IHeld'
    BY <1>1, <1>2, <1>3, <2>2, <2>3 DEF IScalars, IInv, IHeld
  <2> QED
    BY <2>4, <2>5, <2>6 DEF IInv
<1>4. CASE lost' = lost \cup {c} /\ call' = call
  <2>1. Started \subseteq Started'
    BY <1>1, <1>4 DEF Started
  <2>2. IMaps' /\ IEnded'
    BY <1>1, <2>1, MapsKept
  <2>3. ICalls'
    BY <1>1, <1>4, <2>1 DEF IInv, ICalls
  <2>4. IScalars' /\ IHeld'
    BY <1>1, <1>2, <1>4, <2>1 DEF IScalars, IInv, IHeld
  <2> QED
    BY <2>2, <2>3, <2>4 DEF IInv
<1> QED
  BY <1>1, <1>3, <1>4

\* A request about a token the map has, to rotate it or to revoke its chain.
LEMMA TakenUp ==
  ASSUME IInv, NEW r \in Callers, NEW t \in DOMAIN mem, NEW c \in Chains, c \in Started,
         NEW op \in {"rotate", "revoke"}, call[r] = Idle, call' = [call EXCEPT ![r] = Busy(op, c, t)],
         UNCHANGED <<codes, asked, minted, mem, disk, ended>>
  PROVE  /\ IMaps' /\ IEnded' /\ ICalls' /\ Started \subseteq Started' /\ call' \in [Callers -> Calls]
         /\ \A s \in Callers : call'[s] # Idle => call'[s].token <= minted
<1> DEFINE b == Busy(op, c, t)
<1>1. t \in 1..minted /\ minted \in 0..MaxTokens
  BY DEF IInv, IMaps, IScalars, Sound, Shaped
<1>2. b \in Calls /\ b.token <= minted /\ b.op = op /\ b.chain = c
  <2>1. t \in 0..MaxTokens /\ t <= minted
    BY <1>1, RefreshAssumption
  <2>2. b.token = t /\ b.op = op /\ b.chain = c
    BY DEF Busy
  <2>3. b \in [op : {"save", "rotate", "revoke"}, chain : Chains, token : 0..MaxTokens]
    BY <2>1 DEF Busy
  <2> QED
    BY <2>1, <2>2, <2>3 DEF Calls
<1>3. /\ call' \in [Callers -> Calls] /\ call'[r] = b
      /\ \A s \in Callers : s # r => call'[s] = call[s]
      /\ \A s \in Callers : call'[s] # Idle => call'[s].token <= minted
  <2> HIDE DEF b
  <2> QED
    BY <1>2, InHandTyped DEF b
<1>4. Started \subseteq Started'
  BY <1>2, <1>3 DEF Started
<1>5. IMaps' /\ IEnded'
  BY <1>4, MapsKept
<1>6. ICalls'
  <2>1. ASSUME NEW s \in Callers
        PROVE  /\ call'[s].op = "save" => call'[s].chain \in asked' \ DOMAIN codes'
               /\ call'[s].op \in {"rotate", "revoke"} => call'[s].chain \in Started'
    BY <1>2, <1>3, <1>4 DEF IInv, ICalls
  <2>2. \A s, u \in Callers :
          call'[s].op = "save" /\ call'[u].op = "save" /\ call'[s].chain = call'[u].chain => s = u
    BY <1>2, <1>3 DEF IInv, ICalls
  <2> QED
    BY <2>1, <2>2 DEF ICalls
<1> QED
  BY <1>3, <1>4, <1>5, <1>6

LEMMA PresentStep ==
  ASSUME IInv, NEW r \in Callers, NEW c \in Chains, Present(r, c)
  PROVE  IInv'
<1> DEFINE t == client[c].holds
<1>1. /\ call[r] = Idle /\ t # NoToken
      /\ client' = [client EXCEPT ![c].since = IF @ = NotYet THEN now ELSE @]
      /\ UNCHANGED <<now, codes, asked, minted, mem, disk, ended, failedWrites>>
      /\ \/ t \in DOMAIN mem /\ call' = [call EXCEPT ![r] = Busy("rotate", c, t)] /\ lost' = lost
         \/ lost' = lost \cup {c} /\ call' = call
  BY DEF Present, Refuse, storeVars
<1>2. IScalars /\ c \in Started
  BY <1>1 DEF IInv, IHeld
<1>3. /\ client' \in [Chains -> [holds : 0..MaxTokens, exp : Nat, since : 0..NotYet]]
      /\ \A d \in Chains : client'[d].holds = client[d].holds
  <2>1. now \in 0..NotYet
    BY <1>2, RefreshAssumption DEF NotYet, IScalars
  <2> QED
    BY <1>1, <1>2, <2>1 DEF IScalars
<1>4. CASE t \in DOMAIN mem /\ call' = [call EXCEPT ![r] = Busy("rotate", c, t)] /\ lost' = lost
  <2>1. /\ IMaps' /\ IEnded' /\ ICalls' /\ Started \subseteq Started' /\ call' \in [Callers -> Calls]
        /\ \A s \in Callers : call'[s] # Idle => call'[s].token <= minted
    <3> HIDE DEF t
    <3> QED
      BY <1>1, <1>2, <1>4, TakenUp
  <2>2. IScalars' /\ IHeld'
    BY <1>1, <1>2, <1>3, <1>4, <2>1 DEF IScalars, IInv, IHeld
  <2> QED
    BY <2>1, <2>2 DEF IInv
<1>5. CASE lost' = lost \cup {c} /\ call' = call
  <2>1. Started \subseteq Started'
    BY <1>1, <1>5 DEF Started
  <2>2. IMaps' /\ IEnded'
    BY <1>1, <2>1, MapsKept
  <2>3. ICalls'
    BY <1>1, <1>5, <2>1 DEF IInv, ICalls
  <2>4. IScalars' /\ IHeld'
    BY <1>1, <1>2, <1>3, <1>5, <2>1 DEF IScalars, IInv, IHeld
  <2> QED
    BY <2>2, <2>3, <2>4 DEF IInv
<1> QED
  BY <1>1, <1>4, <1>5

LEMMA LookUpStep ==
  ASSUME IInv, NEW r \in Callers, NEW t \in DOMAIN mem, LookUpToRevoke(r, t)
  PROVE  IInv'
<1>1. /\ call[r] = Idle /\ call' = [call EXCEPT ![r] = Busy("revoke", mem[t].chain, t)]
      /\ UNCHANGED <<now, codes, asked, minted, mem, disk, client, lost, ended, failedWrites>>
  BY DEF LookUpToRevoke, storeVars
<1>2. mem[t].chain \in Chains /\ mem[t].chain \in Started
  BY DEF IInv, IMaps, Sound, Shaped, Live, Token
<1>3. /\ IMaps' /\ IEnded' /\ ICalls' /\ Started \subseteq Started' /\ call' \in [Callers -> Calls]
      /\ \A s \in Callers : call'[s] # Idle => call'[s].token <= minted
  BY <1>1, <1>2, TakenUp
<1>4. IScalars' /\ IHeld'
  BY <1>1, <1>3 DEF IInv, IScalars, IHeld
<1> QED
  BY <1>3, <1>4 DEF IInv

\* A restart reads the file: all that is in it is of logins that have started.
LEMMA RestartStep ==
  ASSUME IInv, Restart
  PROVE  IInv'
<1>1. /\ mem' = disk /\ call' = [r \in Callers |-> Idle] /\ DOMAIN codes' = {}
      /\ UNCHANGED <<now, asked, minted, disk, client, ended, failedWrites>>
      /\ lost' = lost \cup DOMAIN codes
                   \cup {call[r].chain : r \in {s \in Callers : call[s].op = "save"}}
  BY DEF Restart
<1>2. \A r \in Callers : call'[r] = Idle /\ call'[r].op = "idle"
  BY <1>1 DEF Idle
<1>3. Started \subseteq Started'
  BY <1>1, <1>2 DEF Started
<1>4. Acked' = Acked
  BY <1>1 DEF Acked
<1>5. Sound(mem', minted', Started' \ Acked') /\ minted \in Nat
  <2>1. Sound(disk, minted, Started \ Acked) /\ minted \in Nat
    BY DEF IInv, IMaps, IScalars
  <2>2. Started \ Acked \subseteq Started' \ Acked'
    BY <1>3, <1>4
  <2> QED
    BY <1>1, <2>1, <2>2, SoundGrows
<1>6. IMaps'
  BY <1>1, <1>3, <1>4, <1>5, MapsAfter
<1>7. ICalls'
  BY <1>2 DEF ICalls
<1>8. IEnded' /\ IHeld'
  BY <1>1, <1>3 DEF IInv, IEnded, IHeld
<1>9. IScalars'
  <2>1. IScalars
    BY DEF IInv
  <2>2. lost' \subseteq Chains
    <3>1. \A r \in Callers : call[r].op = "save" => call[r].chain \in Chains
      BY InTheCall DEF Idle
    <3> QED
      BY <1>1, <2>1, <3>1 DEF IScalars
  <2>3. Idle \in Calls
    BY DEF Calls
  <2> QED
    BY <1>1, <1>2, <2>1, <2>2, <2>3 DEF IScalars
<1> QED
  BY <1>6, <1>7, <1>8, <1>9 DEF IInv

LEMMA TickStep ==
  ASSUME IInv, now' \in 0..MaxTime,
         UNCHANGED <<codes, asked, storeVars, call, client, lost, ended, failedWrites>>
  PROVE  IInv'
<1>1. UNCHANGED <<codes, asked, minted, mem, disk, call, client, lost, ended, failedWrites>>
  BY DEF storeVars
<1>2. Started' = Started
  BY <1>1 DEF Started
<1>3. IMaps' /\ IEnded'
  BY <1>1, <1>2, MapsKept
<1>4. ICalls' /\ IHeld'
  BY <1>1, <1>2 DEF IInv, ICalls, IHeld
<1>5. IScalars'
  BY <1>1 DEF IInv, IScalars
<1> QED
  BY <1>3, <1>4, <1>5 DEF IInv

LEMMA InitSound ==
  RefreshInit => IInv
<1> SUFFICES ASSUME RefreshInit
             PROVE  IInv
  OBVIOUS
<1>1. /\ now = 0 /\ DOMAIN codes = {} /\ asked = {} /\ minted = 0
      /\ DOMAIN mem = {} /\ disk = mem /\ call = [r \in Callers |-> Idle]
      /\ client = [c \in Chains |-> [holds |-> NoToken, exp |-> 0, since |-> NotYet]]
      /\ lost = {} /\ ended = [c \in Chains |-> "no"] /\ failedWrites = 0
  BY DEF RefreshInit
<1>2. \A r \in Callers : call[r] = Idle /\ call[r].op = "idle"
  BY <1>1 DEF Idle
<1>3. Sound(mem, minted, Started \ Acked)
  BY <1>1 DEF Sound, Shaped, Live, OneWay
<1>4. IMaps /\ ICalls /\ IEnded /\ IHeld
  BY <1>1, <1>2, <1>3 DEF IMaps, ICalls, IEnded, IHeld
<1>5. IScalars
  <2>1. [holds |-> NoToken, exp |-> 0, since |-> NotYet] \in [holds : 0..MaxTokens, exp : Nat, since : 0..NotYet]
    BY RefreshAssumption DEF NoToken, NotYet
  <2>2. client \in [Chains -> [holds : 0..MaxTokens, exp : Nat, since : 0..NotYet]]
    BY <1>1, <2>1
  <2>3. \A c \in Chains : client[c].holds <= minted
    BY <1>1 DEF NoToken
  <2>4. call \in [Callers -> Calls]
    BY <1>1 DEF Calls
  <2> QED
    BY <1>1, <1>2, <2>2, <2>3, <2>4, RefreshAssumption DEF IScalars
<1> QED
  BY <1>4, <1>5 DEF IInv

LEMMA StepSound ==
  IInv /\ [RefreshNext]_tokenVars => IInv'
<1> SUFFICES ASSUME IInv, [RefreshNext]_tokenVars
             PROVE  IInv'
  OBVIOUS
<1>1. ASSUME NEW c \in Chains, Authorize(c)
      PROVE  IInv'
  BY <1>1, AuthorizeStep
<1>2. ASSUME NEW r \in Callers, NEW c \in Chains, NEW accepted \in BOOLEAN, Consume(r, c, accepted)
      PROVE  IInv'
  BY <1>2, ConsumeStep
<1>3. ASSUME NEW r \in Callers, NEW c \in Chains, Present(r, c)
      PROVE  IInv'
  BY <1>3, PresentStep
<1>4. ASSUME NEW r \in Callers, RotateNext(r)
      PROVE  IInv'
  BY <1>4, RotateStep
<1>5. ASSUME NEW r \in Callers, NEW t \in DOMAIN mem, LookUpToRevoke(r, t)
      PROVE  IInv'
  BY <1>5, LookUpStep
<1>6. ASSUME NEW r \in Callers, NEW written \in BOOLEAN, RevokeChain(r, written)
      PROVE  IInv'
  BY <1>6, RevokeStep
<1>7. ASSUME NEW written \in BOOLEAN, Disconnect(written)
      PROVE  IInv'
  BY <1>7, DisconnectStep
<1>8. CASE Tick
  <2>1. now' \in 0..MaxTime
    BY <1>8, RefreshAssumption DEF Tick, IInv, IScalars
  <2> QED
    BY <1>8, <2>1, TickStep DEF Tick
<1>9. CASE Restart
  BY <1>9, RestartStep
<1>10. CASE UNCHANGED tokenVars
  <2>1. /\ UNCHANGED <<codes, asked, storeVars, call, client, lost, ended, failedWrites>>
        /\ now' \in 0..MaxTime
    BY <1>10 DEF tokenVars, IInv, IScalars
  <2> QED
    BY <2>1, TickStep
<1> QED
  BY <1>1, <1>2, <1>3, <1>4, <1>5, <1>6, <1>7, <1>8, <1>9, <1>10 DEF RefreshNext

\* What the invariant says of a reachable store.
LEMMA SoundStore ==
  IInv => StoreIsSound
<1> SUFFICES ASSUME IInv
             PROVE  StoreIsSound
  OBVIOUS
<1>1. IScalars /\ \A m \in {mem, disk} : Sound(m, minted, Started \ Acked)
  BY DEF IInv, IMaps
<1>2. RefreshTypeOK
  <2>1. \A m \in {mem, disk} :
          /\ DOMAIN m \subseteq 1..minted
          /\ \A t \in DOMAIN m :
               m[t] \in Token /\ (IF m[t].used THEN m[t].succ \in t+1..minted ELSE m[t].succ = NoToken)
    BY <1>1 DEF Sound, Shaped
  <2>2. ASSUME NEW r \in Callers, call[r] # Idle
        PROVE  call[r] \in [op : {"save", "rotate", "revoke"}, chain : Chains, token : 0..minted]
    <3>1. call[r] \in [op : {"save", "rotate", "revoke"}, chain : Chains, token : 0..MaxTokens]
      BY <1>1, <2>2 DEF IScalars, Calls
    <3>2. call[r].token <= minted /\ minted \in Nat
      BY <1>1, <2>2 DEF IScalars
    <3>3. call[r].token \in 0..minted
      BY <3>1, <3>2
    <3> QED
      BY <3>1, <3>3
  <2>3. ASSUME NEW c \in Chains
        PROVE  client[c] \in [holds : 0..minted, exp : Nat, since : 0..NotYet]
    <3>1. /\ client[c] \in [holds : 0..MaxTokens, exp : Nat, since : 0..NotYet]
          /\ client[c].holds <= minted /\ minted \in Nat
      BY <1>1 DEF IScalars
    <3>2. client[c].holds \in 0..minted
      BY <3>1
    <3> QED
      BY <3>1, <3>2
  <2> QED
    BY <1>1, <2>1, <2>2, <2>3 DEF RefreshTypeOK, IScalars
<1>3. OneTokenPerLogin
  BY <1>1 DEF Sound, OneWay, OneTokenPerLogin
<1>4. EndedStaysEnded
  BY <1>1 DEF Sound, Live, Acked, EndedStaysEnded, OfChains
<1> QED
  BY <1>2, <1>3, <1>4 DEF StoreIsSound

(* The map and the file hold tokens of the right shape, at most one way on  *)
(* for a login and none for one whose end was acknowledged, whatever the    *)
(* requests, retries, failed writes and restarts: Rotate, RevokeChain and   *)
(* persist of refreshstore.go.                                              *)
THEOREM StoreStaysSound == RefreshSpec => []StoreIsSound
<1>1. IInv /\ [RefreshNext]_tokenVars => IInv'
  BY StepSound
<1>2. RefreshSpec => []IInv
  BY InitSound, <1>1, PTL DEF RefreshSpec
<1> QED
  BY <1>2, SoundStore, PTL
-----------------------------------------------------------------------------
(* The way on of a patient client.  As long as every write has succeeded,  *)
(* the file is the map, a used token leads to one of its own login that    *)
(* lasts at least as long, and the client holds a token that can be        *)
(* rotated, or one whose successor can, used no earlier than the client    *)
(* began to present it.                                                    *)

Coherent(m) ==
  \A t \in DOMAIN m :
    /\ m[t].exp <= now + Lifetime
    /\ m[t].used =>
         /\ m[t].rot <= now
         /\ m[t].succ \in DOMAIN m =>
              m[m[t].succ].chain = m[t].chain /\ m[t].exp <= m[m[t].succ].exp
Known(m) ==
  /\ \A r \in Callers : call[r].op = "rotate" /\ call[r].token \in DOMAIN m =>
       m[call[r].token].chain = call[r].chain
  /\ \A c \in Chains : client[c].holds \in DOMAIN m =>
       m[client[c].holds].chain = c /\ m[client[c].holds].exp = client[c].exp
WayOn(m, c) ==
  LET t == client[c].holds
  IN  /\ t \in DOMAIN m
      /\ m[t].used => /\ m[t].succ \in DOMAIN m /\ ~m[m[t].succ].used
                      /\ client[c].since <= m[t].rot
Rotates(r, c) == call[r].op = "rotate" /\ call[r].chain = c
IPatient ==
  \A c \in Patient :
    /\ client[c].since # NotYet => client[c].since <= now
    /\ \A r \in Callers : Rotates(r, c) =>
         /\ call[r].token = client[c].holds /\ client[c].since # NotYet
         /\ \A s \in Callers : Rotates(s, c) => s = r
IWays ==
  failedWrites = 0 =>
    /\ disk = mem /\ Coherent(mem) /\ Known(mem)
    /\ \A c \in Patient \ lost : client[c].holds # NoToken /\ ended[c] = "no" => WayOn(mem, c)
IServed == IPatient /\ IWays

\* What the invariant says of the tokens, the requests and the clients.
LEMMA StoredTokens ==
  ASSUME IInv
  PROVE  /\ minted \in Nat /\ now \in 0..MaxTime /\ NotYet \in Nat /\ now < NotYet
         /\ DOMAIN mem \subseteq 1..minted
         /\ \A t \in DOMAIN mem :
              /\ mem[t].chain \in Chains /\ mem[t].used \in BOOLEAN /\ mem[t].exp \in Nat
              /\ mem[t].rot \in Nat /\ mem[t].succ <= minted
         /\ \A r \in Callers : call[r].op = "rotate" =>
              call[r].chain \in Chains /\ call[r].token <= minted
         /\ \A c \in Chains :
              /\ client[c].holds \in 0..minted /\ client[c].exp \in Nat
              /\ client[c].since \in Nat
<1>1. IScalars /\ Shaped(mem, minted) /\ MaxTime \in Nat /\ MaxTokens \in Nat
  BY RefreshAssumption DEF IInv, IMaps, Sound
<1>2. minted \in Nat /\ now \in 0..MaxTime /\ NotYet \in Nat /\ now < NotYet
  BY <1>1 DEF IScalars, NotYet
<1>3. ASSUME NEW t \in DOMAIN mem
      PROVE  /\ mem[t].chain \in Chains /\ mem[t].used \in BOOLEAN /\ mem[t].exp \in Nat
             /\ mem[t].rot \in Nat /\ mem[t].succ <= minted
  <2>1. mem[t] \in Token
    BY <1>1 DEF Shaped
  <2>2. mem[t].succ \in 0..MaxTokens /\ (mem[t].succ \in t+1..minted \/ mem[t].succ = 0) /\ t \in 1..minted
    BY <1>1, <2>1 DEF Shaped, Token, NoToken
  <2>3. mem[t].succ <= minted
    BY <1>2, <2>2
  <2> QED
    BY <1>2, <2>1, <2>3 DEF Token
<1>4. ASSUME NEW r \in Callers, call[r].op = "rotate"
      PROVE  call[r].chain \in Chains /\ call[r].token <= minted
  <2>1. call[r] # Idle
    BY <1>4 DEF Idle
  <2> QED
    BY <1>1, <2>1, InTheCall DEF IScalars
<1>5. ASSUME NEW c \in Chains
      PROVE  client[c].holds \in 0..minted /\ client[c].exp \in Nat /\ client[c].since \in Nat
  <2>1. client[c] \in [holds : 0..MaxTokens, exp : Nat, since : 0..NotYet] /\ client[c].holds <= minted
    BY <1>1 DEF IScalars
  <2> QED
    BY <1>2, <2>1
<1> QED
  BY <1>1, <1>2, <1>3, <1>4, <1>5 DEF Shaped

\* A map that has lost tokens, and time that has passed, keep it coherent.
LEMMA CoherentPart ==
  ASSUME IInv, Coherent(mem), now <= now', now' \in Nat,
         DOMAIN mem' \subseteq DOMAIN mem, \A t \in DOMAIN mem' : mem'[t] = mem[t]
  PROVE  Coherent(mem)'
<1>1. ASSUME NEW t \in DOMAIN mem'
      PROVE  /\ mem'[t].exp <= now' + Lifetime
             /\ mem'[t].used =>
                  /\ mem'[t].rot <= now'
                  /\ mem'[t].succ \in DOMAIN mem' =>
                       mem'[mem'[t].succ].chain = mem'[t].chain /\ mem'[t].exp <= mem'[mem'[t].succ].exp
  <2>1. t \in DOMAIN mem /\ mem'[t] = mem[t]
    OBVIOUS
  <2>2. mem[t].exp <= now + Lifetime /\ (mem[t].used => mem[t].rot <= now)
    BY <2>1 DEF Coherent
  <2>3. mem'[t].exp <= now' + Lifetime /\ (mem'[t].used => mem'[t].rot <= now')
    BY <2>1, <2>2, StoredTokens, RefreshAssumption
  <2>4. ASSUME mem'[t].used, mem'[t].succ \in DOMAIN mem'
        PROVE  mem'[mem'[t].succ].chain = mem'[t].chain /\ mem'[t].exp <= mem'[mem'[t].succ].exp
    BY <2>1, <2>4 DEF Coherent
  <2> QED
    BY <2>3, <2>4
<1> QED
  BY <1>1 DEF Coherent

\* So it stays known whose a token is.
LEMMA KnownPart ==
  ASSUME Known(mem), DOMAIN mem' \subseteq DOMAIN mem, \A t \in DOMAIN mem' : mem'[t] = mem[t],
         \A r \in Callers : call'[r].op = "rotate" => call'[r] = call[r],
         client' = client
  PROVE  Known(mem)'
BY DEF Known

\* A way on lasts while the tokens of its login do.
LEMMA WayLasts ==
  ASSUME Coherent(mem), Known(mem), NEW c \in Chains, WayOn(mem, c), client'[c] = client[c],
         \A t \in DOMAIN mem : mem[t].chain = c => t \in DOMAIN mem' /\ mem'[t] = mem[t]
  PROVE  WayOn(mem, c)'
<1> DEFINE t == client[c].holds
<1>1. t \in DOMAIN mem /\ mem[t].chain = c
  BY DEF WayOn, Known
<1>2. t \in DOMAIN mem' /\ mem'[t] = mem[t]
  BY <1>1
<1>3. ASSUME mem[t].used
      PROVE  /\ mem[t].succ \in DOMAIN mem' /\ mem'[mem[t].succ] = mem[mem[t].succ]
             /\ ~mem[mem[t].succ].used /\ client[c].since <= mem[t].rot
  <2>1. mem[t].succ \in DOMAIN mem /\ ~mem[mem[t].succ].used /\ client[c].since <= mem[t].rot
    BY <1>3 DEF WayOn
  <2>2. mem[mem[t].succ].chain = c
    BY <1>1, <1>3, <2>1 DEF Coherent
  <2> QED
    BY <2>1, <2>2
<1> QED
  BY <1>2, <1>3 DEF WayOn

\* A step in which nobody is given a token and nobody asks for one.
LEMMA QuietStep ==
  ASSUME IInv, IServed, now <= now', now' \in Nat, client' = client, lost \subseteq lost',
         \A r \in Callers : call'[r].op = "rotate" => call'[r] = call[r],
         failedWrites' = 0 =>
           /\ failedWrites = 0 /\ disk' = mem'
           /\ DOMAIN mem' \subseteq DOMAIN mem /\ \A t \in DOMAIN mem' : mem'[t] = mem[t],
         failedWrites' = 0 => \A c \in Patient \ lost' : ended'[c] = "no" =>
           ended[c] = "no" /\ \A t \in DOMAIN mem : mem[t].chain = c => t \in DOMAIN mem'
  PROVE  IServed'
<1>p. Patient \subseteq Chains
  BY RefreshAssumption
<1>1. IPatient'
  <2>1. ASSUME NEW c \in Patient
        PROVE  /\ client'[c].since # NotYet => client'[c].since <= now'
               /\ \A r \in Callers : Rotates(r, c)' =>
                    /\ call'[r].token = client'[c].holds /\ client'[c].since # NotYet
                    /\ \A s \in Callers : Rotates(s, c)' => s = r
    <3>1. client[c].since # NotYet => client[c].since <= now
      BY DEF IServed, IPatient
    <3>2. client'[c].since # NotYet => client'[c].since <= now'
      BY <1>p, <3>1, StoredTokens
    <3>3. \A r \in Callers : Rotates(r, c)' => Rotates(r, c) /\ call'[r] = call[r]
      BY DEF Rotates
    <3>4. \A r \in Callers : Rotates(r, c) =>
            /\ call[r].token = client[c].holds /\ client[c].since # NotYet
            /\ \A s \in Callers : Rotates(s, c) => s = r
      BY DEF IServed, IPatient
    <3> QED
      BY <3>2, <3>3, <3>4
  <2> QED
    BY <2>1 DEF IPatient, NotYet
<1>2. ASSUME failedWrites' = 0
      PROVE  /\ disk' = mem' /\ Coherent(mem)' /\ Known(mem)'
             /\ \A c \in Patient \ lost' :
                  client'[c].holds # NoToken /\ ended'[c] = "no" => WayOn(mem, c)'
  <2>1. Coherent(mem) /\ Known(mem)
    BY <1>2 DEF IServed, IWays
  <2>2. Coherent(mem)' /\ Known(mem)'
    BY <1>2, <2>1, CoherentPart, KnownPart
  <2>3. ASSUME NEW c \in Patient \ lost', client'[c].holds # NoToken, ended'[c] = "no"
        PROVE  WayOn(mem, c)'
    <3>1. c \in Chains /\ c \in Patient \ lost /\ client[c].holds # NoToken /\ ended[c] = "no"
      BY <1>p, <1>2, <2>3
    <3>2. WayOn(mem, c)
      BY <1>2, <3>1 DEF IServed, IWays
    <3>3. \A t \in DOMAIN mem : mem[t].chain = c => t \in DOMAIN mem' /\ mem'[t] = mem[t]
      BY <1>2, <2>3
    <3> QED
      BY <2>1, <3>1, <3>2, <3>3, WayLasts
  <2> QED
    BY <1>2, <2>2, <2>3
<1> QED
  BY <1>1, <1>2 DEF IServed, IWays

\* A write that fails is counted; one that succeeds makes the file the map.
LEMMA Written ==
  ASSUME IInv, NEW m, NEW written \in BOOLEAN, Persist(m, written)
  PROVE  /\ mem' = m /\ (~written => failedWrites' > 0)
         /\ failedWrites' = 0 => failedWrites = 0 /\ disk' = mem'
BY DEF Persist, IInv, IScalars

\* The requests that go on when one ends.
LEMMA GoOn ==
  ASSUME IInv, NEW r \in Callers, EndRequest(r)
  PROVE  /\ \A s \in Callers : call'[s].op = "rotate" => s # r /\ call'[s] = call[s]
         /\ \A s \in Callers : s # r => call'[s] = call[s]
         /\ call'[r].op = "idle"
BY DEF EndRequest, Idle, IInv, IScalars

\* A request ends and drops nothing, or nothing but tokens of its own login,
\* which is then lost or ended.
LEMMA RefusalServed ==
  ASSUME IInv, IServed, NEW r \in Callers, EndRequest(r), now' = now, client' = client,
         lost \subseteq lost', ended \in [Chains -> {"no", "asked", "acknowledged"}],
         NEW ts, NEW written \in BOOLEAN, Persist(Drop(mem, ts), written),
         \A t \in ts \cap DOMAIN mem : mem[t].chain \in Patient =>
           failedWrites > 0 \/ mem[t].chain \in lost' \/ ended'[mem[t].chain] # "no",
         \A c \in Chains : ended'[c] = "no" => ended[c] = "no"
  PROVE  IServed'
<1>1. \A s \in Callers : call'[s].op = "rotate" => call'[s] = call[s]
  BY GoOn
<1>2. now' \in Nat /\ now <= now' /\ Patient \subseteq Chains
  BY StoredTokens, RefreshAssumption
<1>3. mem' = Drop(mem, ts) /\ (failedWrites' = 0 => failedWrites = 0 /\ disk' = mem')
  BY Written
<1>4. DOMAIN mem' = DOMAIN mem \ ts /\ \A t \in DOMAIN mem' : mem'[t] = mem[t]
  BY <1>3 DEF Drop
<1>5. failedWrites' = 0 => \A c \in Patient \ lost' : ended'[c] = "no" =>
           ended[c] = "no" /\ \A t \in DOMAIN mem : mem[t].chain = c => t \in DOMAIN mem'
  BY <1>2, <1>3, <1>4
<1> QED
  BY <1>1, <1>2, <1>3, <1>4, <1>5, QuietStep

LEMMA ExpiredServed ==
  ASSUME IInv, IServed, NEW r \in Callers, NEW written \in BOOLEAN, RotateExpired(r, written)
  PROVE  IServed'
<1> DEFINE old == call[r].token
<1>1. /\ call[r].op = "rotate" /\ old \in DOMAIN mem /\ EndRequest(r) /\ now' = now
      /\ client' = client /\ ended' = ended /\ lost' = lost \cup {call[r].chain}
      /\ Persist(Drop(mem, {old}), written)
  BY DEF RotateExpired, Refuse
<1>2. failedWrites = 0 => mem[old].chain = call[r].chain
  BY <1>1 DEF IServed, IWays, Known
<1>3. failedWrites \in Nat /\ ended \in [Chains -> {"no", "asked", "acknowledged"}]
  BY RefreshAssumption DEF IInv, IScalars
<1>4. \A t \in {old} \cap DOMAIN mem : mem[t].chain \in Patient =>
           failedWrites > 0 \/ mem[t].chain \in lost' \/ ended'[mem[t].chain] # "no"
  BY <1>1, <1>2, <1>3
<1> HIDE DEF old
<1> QED
  BY <1>1, <1>3, <1>4, RefusalServed

\* The end of chains asked for by somebody else.
LEMMA EndServed ==
  ASSUME IInv, IServed, NEW cs, NEW written \in BOOLEAN, End(cs, written), now' = now,
         client' = client, lost \subseteq lost',
         \A r \in Callers : call'[r].op = "rotate" => call'[r] = call[r]
  PROVE  IServed'
<1>1. now' \in Nat /\ now <= now' /\ Patient \subseteq Chains
  BY StoredTokens, RefreshAssumption
<1>2. /\ mem' = Drop(mem, OfChains(mem, cs))
      /\ failedWrites' = 0 => failedWrites = 0 /\ disk' = mem'
      /\ ended' = [c \in Chains |->
                    IF c \notin cs \/ ended[c] = "acknowledged" THEN ended[c]
                    ELSE IF written THEN "acknowledged" ELSE "asked"]
  BY Written DEF End
<1>3. DOMAIN mem' = DOMAIN mem \ OfChains(mem, cs) /\ \A t \in DOMAIN mem' : mem'[t] = mem[t]
  BY <1>2 DEF Drop
<1>4. \A c \in Chains : ended'[c] = "no" => c \notin cs /\ ended[c] = "no"
  BY <1>2
<1>5. \A c \in Patient \ lost' : ended'[c] = "no" =>
           ended[c] = "no" /\ \A t \in DOMAIN mem : mem[t].chain = c => t \in DOMAIN mem'
  BY <1>1, <1>3, <1>4 DEF OfChains
<1> QED
  BY <1>1, <1>2, <1>3, <1>5, QuietStep

LEMMA ReuseServed ==
  ASSUME IInv, IServed, NEW r \in Callers, NEW written \in BOOLEAN, RotateReuse(r, written)
  PROVE  IServed'
<1> DEFINE c == call[r].chain
<1>1. /\ call[r].op = "rotate" /\ EndRequest(r) /\ now' = now
      /\ client' = client /\ lost' = lost \cup {c}
  BY DEF RotateReuse, Refuse
<1>2. \A s \in Callers : call'[s].op = "rotate" => call'[s] = call[s]
  BY <1>1, GoOn
<1>3. now' \in Nat /\ now <= now' /\ Patient \subseteq Chains
  BY <1>1, StoredTokens, RefreshAssumption
<1>4. CASE c \in Strong
  <2>1. UNCHANGED <<mem, disk, failedWrites, ended>>
    BY <1>4 DEF RotateReuse
  <2>2. failedWrites = 0 => disk = mem
    BY DEF IServed, IWays
  <2> QED
    BY <1>1, <1>2, <1>3, <2>1, <2>2, QuietStep
<1>5. CASE c \notin Strong
  <2>1. /\ Persist(Drop(mem, OfChains(mem, {c})), written)
        /\ ended' = [ended EXCEPT ![c] = IF written THEN "acknowledged"
                                         ELSE IF @ = "no" THEN "asked" ELSE @]
    BY <1>5 DEF RotateReuse
  <2>2. ended \in [Chains -> {"no", "asked", "acknowledged"}]
    BY DEF IInv, IScalars
  <2>3. \A d \in Chains : ended'[d] = "no" => ended[d] = "no"
    BY <2>1, <2>2
  <2>4. \A t \in OfChains(mem, {c}) \cap DOMAIN mem : mem[t].chain \in lost'
    BY <1>1 DEF OfChains
  <2> HIDE DEF c
  <2> QED
    BY <1>1, <2>1, <2>2, <2>3, <2>4, RefusalServed
<1> QED
  BY <1>4, <1>5

LEMMA RevokeServed ==
  ASSUME IInv, IServed, NEW r \in Callers, NEW written \in BOOLEAN, RevokeChain(r, written)
  PROVE  IServed'
<1>1. EndRequest(r) /\ End({call[r].chain}, written) /\ UNCHANGED <<now, client, lost>>
  BY DEF RevokeChain
<1> QED
  BY <1>1, GoOn, EndServed

LEMMA DisconnectServed ==
  ASSUME IInv, IServed, NEW written \in BOOLEAN, Disconnect(written)
  PROVE  IServed'
BY EndServed DEF Disconnect

\* A step that leaves the maps alone, or reads the file back into the map.
LEMMA IdleServed ==
  ASSUME IInv, IServed, now <= now', now' \in Nat, client' = client, lost \subseteq lost',
         \A r \in Callers : call'[r].op = "rotate" => call'[r] = call[r],
         UNCHANGED <<disk, failedWrites, ended>>, mem' = mem \/ mem' = disk
  PROVE  IServed'
<1>1. failedWrites = 0 => disk = mem
  BY DEF IServed, IWays
<1> QED
  BY <1>1, QuietStep

\* An answer reaches the client of the one request about its login: the
\* requests that go on are not about it.
LEMMA PatientAfter ==
  ASSUME IInv, IPatient, NEW r \in Callers, EndRequest(r), now' = now, NEW d \in Chains,
         \A c \in Chains : c # d => client'[c] = client[c],
         client'[d] = client[d] \/ client'[d].since = NotYet,
         Rotates(r, d) \/ \A s \in Callers : ~Rotates(s, d)
  PROVE  IPatient'
<1>p. Patient \subseteq Chains
  BY RefreshAssumption
<1>1. \A s \in Callers : call'[s].op = "rotate" => s # r /\ call'[s] = call[s]
  BY GoOn
<1>2. ASSUME NEW c \in Patient
      PROVE  /\ client'[c].since # NotYet => client'[c].since <= now'
             /\ \A q \in Callers : Rotates(q, c)' =>
                  /\ call'[q].token = client'[c].holds /\ client'[c].since # NotYet
                  /\ \A s \in Callers : Rotates(s, c)' => s = q
  <2>1. /\ client[c].since # NotYet => client[c].since <= now
        /\ \A q \in Callers : Rotates(q, c) =>
             /\ call[q].token = client[c].holds /\ client[c].since # NotYet
             /\ \A s \in Callers : Rotates(s, c) => s = q
    BY DEF IPatient
  <2>2. \A q \in Callers : Rotates(q, c)' => q # r /\ Rotates(q, c) /\ call'[q] = call[q]
    BY <1>1 DEF Rotates
  <2>3. CASE c = d
    <3>1. \A q \in Callers : ~Rotates(q, c)'
      BY <2>1, <2>2, <2>3
    <3> QED
      BY <1>p, <2>1, <2>3, <3>1
  <2>4. CASE c # d
    <3>1. client'[c] = client[c]
      BY <1>p, <2>4
    <3> QED
      BY <2>1, <2>2, <3>1
  <2> QED
    BY <2>3, <2>4
<1> QED
  BY <1>2 DEF IPatient, NotYet

\* The clients after an answer that may have been heard.
LEMMA Delivered ==
  ASSUME IInv, NEW c \in Chains, NEW t, NEW exp, client' = client \/ Deliver(c, t, exp)
  PROVE  /\ \A d \in Chains : d # c => client'[d] = client[d]
         /\ \/ client'[c] = client[c]
            \/ client'[c].holds = t /\ client'[c].exp = exp /\ client'[c].since = NotYet
BY DEF Deliver, IInv, IScalars

LEMMA SaveServed ==
  ASSUME IInv, IServed, NEW r \in Callers, NEW written \in BOOLEAN, NEW heard \in BOOLEAN,
         Save(r, written, heard)
  PROVE  IServed'
<1> DEFINE c == call[r].chain
           t == minted + 1
<1>1. /\ call[r].op = "save" /\ Persist(Put(mem, t, Fresh(c)), written) /\ EndRequest(r)
      /\ UNCHANGED <<now, ended>> /\ lost \subseteq lost'
      /\ client' = client \/ Deliver(c, t, now + Lifetime)
  BY DEF Save, Refuse
<1>2. c \in Chains /\ Patient \subseteq Chains
  BY <1>1, InTheCall, RefreshAssumption DEF Idle
<1>3. c \notin Started
  BY <1>1 DEF Started
<1>4. client[c].holds = NoToken /\ \A s \in Callers : ~Rotates(s, c)
  BY <1>2, <1>3 DEF IInv, IHeld, ICalls, Rotates
<1>5. /\ \A d \in Chains : d # c => client'[d] = client[d]
      /\ \/ client'[c] = client[c]
         \/ client'[c].holds = t /\ client'[c].exp = now + Lifetime /\ client'[c].since = NotYet
  BY <1>1, <1>2, Delivered
<1>6. IPatient'
  BY <1>1, <1>2, <1>4, <1>5, PatientAfter DEF IServed
<1>7. /\ DOMAIN mem' = DOMAIN mem \cup {t} /\ mem'[t] = Fresh(c)
      /\ \A u \in DOMAIN mem : u # t => mem'[u] = mem[u]
      /\ failedWrites' = 0 => failedWrites = 0 /\ disk' = mem'
  BY <1>1, Written DEF Put
<1>8. /\ Fresh(c).chain = c /\ ~Fresh(c).used /\ Fresh(c).exp = now + Lifetime
      /\ minted \in Nat /\ t \notin DOMAIN mem /\ NoToken \notin DOMAIN mem'
      /\ \A u \in DOMAIN mem : mem[u].succ # t
      /\ \A d \in Chains : client[d].holds # t
      /\ \A s \in Callers : call[s].op = "rotate" => call[s].token # t
  <2>1. minted \in Nat /\ DOMAIN mem \subseteq 1..minted
    BY StoredTokens
  <2>2. /\ \A u \in DOMAIN mem : mem[u].succ <= minted
        /\ \A d \in Chains : client[d].holds <= minted
        /\ \A s \in Callers : call[s].op = "rotate" => call[s].token <= minted
    BY StoredTokens
  <2>3. t \notin DOMAIN mem /\ NoToken \notin DOMAIN mem'
    BY <1>7, <2>1 DEF NoToken
  <2>4. ~(t <= minted)
    BY <2>1
  <2> HIDE DEF c, t
  <2> QED
    BY <2>1, <2>2, <2>3, <2>4 DEF Fresh
<1> HIDE DEF c, t
<1>9. ASSUME failedWrites' = 0
      PROVE  /\ disk' = mem' /\ Coherent(mem)' /\ Known(mem)'
             /\ \A d \in Patient \ lost' :
                  client'[d].holds # NoToken /\ ended'[d] = "no" => WayOn(mem, d)'
  <2>1. Coherent(mem) /\ Known(mem)
    BY <1>7, <1>9 DEF IServed, IWays
  <2>2. Coherent(mem)'
    <3>1. \A u \in DOMAIN mem : u \in DOMAIN mem' /\ mem'[u] = mem[u]
      BY <1>7, <1>8
    <3>2. \A u \in DOMAIN mem : mem'[u].succ \in DOMAIN mem' => mem[u].succ \in DOMAIN mem
      BY <3>1, <1>7, <1>8
    <3>3. now \in Nat /\ Lifetime \in Nat
      BY StoredTokens, RefreshAssumption
    <3>4. ASSUME NEW u \in DOMAIN mem
          PROVE  /\ mem'[u].exp <= now' + Lifetime
                 /\ mem'[u].used =>
                      /\ mem'[u].rot <= now'
                      /\ mem'[u].succ \in DOMAIN mem' =>
                           mem'[mem'[u].succ].chain = mem'[u].chain /\ mem'[u].exp <= mem'[mem'[u].succ].exp
      BY <1>1, <2>1, <3>1, <3>2 DEF Coherent
    <3>5. mem'[t].exp <= now' + Lifetime /\ ~mem'[t].used
      BY <1>1, <1>7, <1>8, <3>3
    <3> QED
      BY <1>7, <3>4, <3>5 DEF Coherent
  <2>3. Known(mem)'
    <3>1. ASSUME NEW s \in Callers, call'[s].op = "rotate", call'[s].token \in DOMAIN mem'
          PROVE  mem'[call'[s].token].chain = call'[s].chain
      <4>1. call'[s] = call[s]
        BY <1>1, <3>1, GoOn
      <4>2. call[s].token \in DOMAIN mem /\ mem'[call[s].token] = mem[call[s].token]
        BY <1>7, <1>8, <3>1, <4>1
      <4> QED
        BY <2>1, <3>1, <4>1, <4>2 DEF Known
    <3>2. ASSUME NEW d \in Chains, client'[d].holds \in DOMAIN mem'
          PROVE  mem'[client'[d].holds].chain = d /\ mem'[client'[d].holds].exp = client'[d].exp
      <4>1. CASE client'[d] = client[d]
        <5>1. client[d].holds \in DOMAIN mem /\ mem'[client[d].holds] = mem[client[d].holds]
          BY <1>7, <1>8, <3>2, <4>1
        <5> QED
          BY <2>1, <4>1, <5>1 DEF Known
      <4>2. CASE d = c /\ client'[c].holds = t /\ client'[c].exp = now + Lifetime
        BY <1>7, <1>8, <4>2
      <4> QED
        BY <1>5, <4>1, <4>2
    <3> QED
      BY <3>1, <3>2 DEF Known
  <2>4. ASSUME NEW d \in Patient \ lost', client'[d].holds # NoToken, ended'[d] = "no"
        PROVE  WayOn(mem, d)'
    <3>1. CASE d = c
      <4>1. client'[c].holds = t
        BY <1>4, <1>5, <2>4, <3>1
      <4> QED
        BY <1>7, <1>8, <3>1, <4>1 DEF WayOn
    <3>2. CASE d # c
      <4>1. d \in Chains /\ d \in Patient \ lost /\ client'[d] = client[d] /\ ended[d] = "no"
        BY <1>1, <1>2, <1>5, <2>4, <3>2
      <4>2. WayOn(mem, d)
        BY <1>7, <1>9, <2>4, <4>1 DEF IServed, IWays
      <4>3. \A u \in DOMAIN mem : u \in DOMAIN mem' /\ mem'[u] = mem[u]
        BY <1>7, <1>8
      <4> QED
        BY <2>1, <4>1, <4>2, <4>3, WayLasts
    <3> QED
      BY <3>1, <3>2
  <2> QED
    BY <1>7, <1>9, <2>2, <2>3, <2>4
<1> QED
  BY <1>6, <1>9 DEF IServed, IWays

LEMMA FreshServed ==
  ASSUME IInv, IServed, NEW r \in Callers, NEW written \in BOOLEAN, NEW heard \in BOOLEAN,
         RotateFresh(r, written, heard)
  PROVE  IServed'
<1> DEFINE c == call[r].chain
           old == call[r].token
           t == minted + 1
<1>1. /\ call[r].op = "rotate" /\ old \in DOMAIN mem /\ EndRequest(r)
      /\ Persist(Rotated(mem, old, t), written)
      /\ UNCHANGED <<now, ended>> /\ lost \subseteq lost'
      /\ client' = client \/ Deliver(c, t, now + Lifetime)
  BY DEF RotateFresh, Refuse
<1>2. c \in Chains /\ Patient \subseteq Chains
  BY <1>1, InTheCall, RefreshAssumption DEF Idle
<1>3. /\ \A d \in Chains : d # c => client'[d] = client[d]
      /\ \/ client'[c] = client[c]
         \/ client'[c].holds = t /\ client'[c].exp = now + Lifetime /\ client'[c].since = NotYet
  BY <1>1, <1>2, Delivered
<1>4. IPatient'
  BY <1>1, <1>2, <1>3, PatientAfter DEF IServed, Rotates
<1>5. /\ minted \in Nat /\ t \notin DOMAIN mem /\ now \in Nat /\ Lifetime \in Nat
      /\ \A u \in DOMAIN mem : mem[u].succ # t
      /\ \A d \in Chains : client[d].holds # t
      /\ \A s \in Callers : call[s].op = "rotate" => call[s].token # t
  <2>1. minted \in Nat /\ DOMAIN mem \subseteq 1..minted /\ now \in Nat
    BY StoredTokens
  <2>2. /\ \A u \in DOMAIN mem : mem[u].succ <= minted
        /\ \A d \in Chains : client[d].holds <= minted
        /\ \A s \in Callers : call[s].op = "rotate" => call[s].token <= minted
    BY StoredTokens
  <2>3. t \notin DOMAIN mem /\ ~(t <= minted)
    BY <2>1
  <2> HIDE DEF c, old, t
  <2> QED
    BY <2>1, <2>2, <2>3, RefreshAssumption
<1>6. mem' = Rotated(mem, old, t) /\ (failedWrites' = 0 => failedWrites = 0 /\ disk' = mem')
  BY <1>1, Written
<1>7. mem[old] \in Token
  BY <1>1 DEF IInv, IMaps, Sound, Shaped
<1>8. /\ DOMAIN mem' = DOMAIN mem \cup {t}
      /\ mem'[t].chain = mem[old].chain /\ ~mem'[t].used /\ mem'[t].exp = now + Lifetime
      /\ mem'[old].used /\ mem'[old].rot = now /\ mem'[old].succ = t
      /\ mem'[old].chain = mem[old].chain /\ mem'[old].exp = mem[old].exp
      /\ \A u \in DOMAIN mem : u # old => mem'[u] = mem[u]
  <2> DEFINE rt == [mem[old] EXCEPT !.used = TRUE, !.rot = now, !.succ = t]
             q == Put(mem, old, rt)
  <2>1. /\ DOMAIN q = DOMAIN mem /\ q[old] = rt
        /\ \A u \in DOMAIN mem : u # old => q[u] = mem[u]
    BY <1>1 DEF Put
  <2>2. /\ rt.used /\ rt.rot = now /\ rt.succ = t
        /\ rt.chain = mem[old].chain /\ rt.exp = mem[old].exp
    BY <1>7 DEF Token
  <2>3. mem' = Put(q, t, Fresh(mem[old].chain))
    BY <1>6 DEF Rotated
  <2> HIDE DEF q, rt, old, t
  <2>4. /\ DOMAIN mem' = DOMAIN q \cup {t} /\ mem'[t] = Fresh(mem[old].chain)
        /\ \A u \in DOMAIN q : u # t => mem'[u] = q[u]
    BY <2>3 DEF Put
  <2>5. \A u \in DOMAIN mem : u # t
    BY <1>5
  <2>6. mem'[old] = rt /\ \A u \in DOMAIN mem : u # old => mem'[u] = mem[u]
    BY <1>1, <2>1, <2>4, <2>5
  <2> QED
    BY <2>1, <2>2, <2>4, <2>6 DEF Fresh
<1> HIDE DEF c, old, t
<1>9. \A u \in DOMAIN mem : u \in DOMAIN mem' /\ mem'[u].chain = mem[u].chain /\ mem'[u].exp = mem[u].exp
  BY <1>8
<1>10. ASSUME failedWrites' = 0
       PROVE  /\ disk' = mem' /\ Coherent(mem)' /\ Known(mem)'
              /\ \A d \in Patient \ lost' :
                   client'[d].holds # NoToken /\ ended'[d] = "no" => WayOn(mem, d)'
  <2>1. Coherent(mem) /\ Known(mem)
    BY <1>6, <1>10 DEF IServed, IWays
  <2>2. Coherent(mem)'
    <3>1. ASSUME NEW u \in DOMAIN mem, u # old
          PROVE  /\ mem'[u].exp <= now' + Lifetime
                 /\ mem'[u].used =>
                      /\ mem'[u].rot <= now'
                      /\ mem'[u].succ \in DOMAIN mem' =>
                           mem'[mem'[u].succ].chain = mem'[u].chain /\ mem'[u].exp <= mem'[mem'[u].succ].exp
      <4>1. mem'[u] = mem[u] /\ (mem[u].succ \in DOMAIN mem' => mem[u].succ \in DOMAIN mem)
        BY <1>5, <1>8, <3>1
      <4>2. /\ mem[u].exp <= now + Lifetime
            /\ mem[u].used => mem[u].rot <= now
        BY <2>1, <3>1 DEF Coherent
      <4>3. ASSUME mem[u].used, mem[u].succ \in DOMAIN mem
            PROVE  mem'[mem[u].succ].chain = mem[u].chain /\ mem[u].exp <= mem'[mem[u].succ].exp
        BY <1>9, <2>1, <4>3 DEF Coherent
      <4> QED
        BY <1>1, <4>1, <4>2, <4>3
    <3>2. mem[old].exp <= now + Lifetime /\ now <= now
      BY <1>1, <1>5, <2>1 DEF Coherent
    <3>3. /\ mem'[old].exp <= now' + Lifetime /\ mem'[old].rot <= now'
          /\ mem'[mem'[old].succ].chain = mem'[old].chain
          /\ mem'[old].exp <= mem'[mem'[old].succ].exp
      BY <1>1, <1>8, <3>2
    <3>4. mem'[t].exp <= now' + Lifetime /\ ~mem'[t].used
      BY <1>1, <1>5, <1>8
    <3> QED
      BY <1>8, <3>1, <3>3, <3>4 DEF Coherent
  <2>3. Known(mem)'
    <3>1. ASSUME NEW s \in Callers, call'[s].op = "rotate", call'[s].token \in DOMAIN mem'
          PROVE  mem'[call'[s].token].chain = call'[s].chain
      <4>1. call'[s] = call[s]
        BY <1>1, <3>1, GoOn
      <4>2. call[s].token \in DOMAIN mem /\ mem'[call[s].token].chain = mem[call[s].token].chain
        BY <1>5, <1>8, <1>9, <3>1, <4>1
      <4> QED
        BY <2>1, <3>1, <4>1, <4>2 DEF Known
    <3>2. ASSUME NEW d \in Chains, client'[d].holds \in DOMAIN mem'
          PROVE  mem'[client'[d].holds].chain = d /\ mem'[client'[d].holds].exp = client'[d].exp
      <4>1. CASE client'[d] = client[d]
        <5>1. client[d].holds \in DOMAIN mem
          BY <1>5, <1>8, <3>2, <4>1
        <5> QED
          BY <1>9, <2>1, <4>1, <5>1 DEF Known
      <4>2. CASE d = c /\ client'[c].holds = t /\ client'[c].exp = now + Lifetime
        <5>1. mem[old].chain = c
          BY <1>1, <2>1 DEF Known, c, old
        <5> QED
          BY <1>8, <4>2, <5>1
      <4> QED
        BY <1>3, <4>1, <4>2
    <3> QED
      BY <3>1, <3>2 DEF Known
  <2>4. ASSUME NEW d \in Patient \ lost', client'[d].holds # NoToken, ended'[d] = "no"
        PROVE  WayOn(mem, d)'
    <3>1. mem[old].chain = c
      BY <1>1, <2>1 DEF Known, c, old
    <3>2. CASE d = c
      <4>1. CASE client'[c].holds = t
        BY <1>8, <3>2, <4>1 DEF WayOn
      <4>2. CASE client'[c] = client[c]
        <5>1. client[c].holds = old /\ client[c].since # NotYet /\ client[c].since <= now
          BY <1>1, <2>4, <3>2 DEF IServed, IPatient, Rotates, c, old
        <5> QED
          BY <1>1, <1>8, <3>2, <4>2, <5>1 DEF WayOn
      <4> QED
        BY <1>3, <4>1, <4>2
    <3>3. CASE d # c
      <4>1. d \in Chains /\ d \in Patient \ lost /\ client'[d] = client[d] /\ ended[d] = "no"
        BY <1>1, <1>2, <1>3, <2>4, <3>3
      <4>2. WayOn(mem, d)
        BY <1>6, <1>10, <2>4, <4>1 DEF IServed, IWays
      <4>3. \A u \in DOMAIN mem : mem[u].chain = d => u \in DOMAIN mem' /\ mem'[u] = mem[u]
        BY <1>8, <3>1, <3>3
      <4> QED
        BY <2>1, <4>1, <4>2, <4>3, WayLasts
    <3> QED
      BY <3>2, <3>3
  <2> QED
    BY <1>6, <1>10, <2>2, <2>3, <2>4
<1> QED
  BY <1>4, <1>10 DEF IServed, IWays

LEMMA RetryServed ==
  ASSUME IInv, IServed, NEW r \in Callers, NEW heard \in BOOLEAN, RotateRetry(r, heard)
  PROVE  IServed'
<1> DEFINE c == call[r].chain
           old == call[r].token
           t == mem[old].succ
<1>1. /\ call[r].op = "rotate" /\ old \in DOMAIN mem /\ EndRequest(r)
      /\ mem[old].used /\ t \in DOMAIN mem /\ ~mem[t].used
      /\ UNCHANGED <<now, mem, disk, ended, lost, failedWrites>>
      /\ client' = client \/ Deliver(c, t, mem[t].exp)
  BY DEF RotateRetry, Retriable, storeVars
<1>2. c \in Chains /\ Patient \subseteq Chains
  BY <1>1, InTheCall, RefreshAssumption DEF Idle
<1>3. /\ \A d \in Chains : d # c => client'[d] = client[d]
      /\ \/ client'[c] = client[c]
         \/ client'[c].holds = t /\ client'[c].exp = mem[t].exp /\ client'[c].since = NotYet
  BY <1>1, <1>2, Delivered
<1>4. IPatient'
  BY <1>1, <1>2, <1>3, PatientAfter DEF IServed, Rotates
<1>5. now' \in Nat /\ now <= now'
  BY <1>1, StoredTokens
<1> HIDE DEF c, old, t
<1>6. ASSUME failedWrites' = 0
      PROVE  /\ disk' = mem' /\ Coherent(mem)' /\ Known(mem)'
             /\ \A d \in Patient \ lost' :
                  client'[d].holds # NoToken /\ ended'[d] = "no" => WayOn(mem, d)'
  <2>1. disk = mem /\ Coherent(mem) /\ Known(mem)
    BY <1>1, <1>6 DEF IServed, IWays
  <2>2. Coherent(mem)'
    BY <1>1, <1>5, <2>1, CoherentPart
  <2>3. mem[t].chain = c
    BY <1>1, <2>1 DEF Known, Coherent, c, old, t
  <2>4. Known(mem)'
    <3>1. ASSUME NEW s \in Callers, call'[s].op = "rotate", call'[s].token \in DOMAIN mem'
          PROVE  mem'[call'[s].token].chain = call'[s].chain
      <4>1. call'[s] = call[s]
        BY <1>1, <3>1, GoOn
      <4> QED
        BY <1>1, <2>1, <3>1, <4>1 DEF Known
    <3>2. ASSUME NEW d \in Chains, client'[d].holds \in DOMAIN mem'
          PROVE  mem'[client'[d].holds].chain = d /\ mem'[client'[d].holds].exp = client'[d].exp
      <4>1. CASE client'[d] = client[d]
        BY <1>1, <2>1, <3>2, <4>1 DEF Known
      <4>2. CASE d = c /\ client'[c].holds = t /\ client'[c].exp = mem[t].exp
        BY <1>1, <2>3, <4>2
      <4> QED
        BY <1>3, <4>1, <4>2
    <3> QED
      BY <3>1, <3>2 DEF Known
  <2>5. ASSUME NEW d \in Patient \ lost', client'[d].holds # NoToken, ended'[d] = "no"
        PROVE  WayOn(mem, d)'
    <3>1. CASE client'[d] = client[d]
      <4>1. d \in Chains /\ WayOn(mem, d)
        BY <1>1, <1>2, <1>6, <2>5, <3>1 DEF IServed, IWays
      <4> QED
        BY <1>1, <2>1, <3>1, <4>1, WayLasts
    <3>2. CASE d = c /\ client'[c].holds = t
      BY <1>1, <3>2 DEF WayOn
    <3> QED
      BY <1>2, <1>3, <3>1, <3>2
  <2> QED
    BY <1>1, <2>1, <2>2, <2>4, <2>5
<1> QED
  BY <1>4, <1>6 DEF IServed, IWays

LEMMA PresentServed ==
  ASSUME IInv, IServed, NEW r \in Callers, NEW c \in Chains, Present(r, c)
  PROVE  IServed'
<1> DEFINE t == client[c].holds
<1>1. /\ call[r] = Idle /\ (c \in Patient => InHand(c) = {})
      /\ client' = [client EXCEPT ![c].since = IF @ = NotYet THEN now ELSE @]
      /\ UNCHANGED <<now, mem, disk, ended, failedWrites>> /\ lost \subseteq lost'
      /\ \/ t \in DOMAIN mem /\ call' = [call EXCEPT ![r] = Busy("rotate", c, t)]
         \/ call' = call
  BY DEF Present, Refuse, storeVars
<1>2. /\ \A d \in Chains : d # c => client'[d] = client[d]
      /\ client'[c].holds = t /\ client'[c].exp = client[c].exp
      /\ client'[c].since = IF client[c].since = NotYet THEN now ELSE client[c].since
  BY <1>1 DEF IInv, IScalars
<1>3. \A s \in Callers : call'[s].op = "rotate" =>
        \/ call'[s] = call[s]
        \/ s = r /\ call'[s].chain = c /\ call'[s].token = t /\ t \in DOMAIN mem
  BY <1>1 DEF Busy, IInv, IScalars
<1>4. /\ now' \in Nat /\ now <= now' /\ Patient \subseteq Chains /\ now \in 0..MaxTime
      /\ NotYet \in Nat /\ now < NotYet
  BY <1>1, StoredTokens, RefreshAssumption
<1> HIDE DEF t
<1>5. IPatient'
  <2>1. ASSUME NEW d \in Patient
        PROVE  /\ client'[d].since # NotYet => client'[d].since <= now'
               /\ \A q \in Callers : Rotates(q, d)' =>
                    /\ call'[q].token = client'[d].holds /\ client'[d].since # NotYet
                    /\ \A s \in Callers : Rotates(s, d)' => s = q
    <3>1. /\ client[d].since # NotYet => client[d].since <= now
          /\ \A q \in Callers : Rotates(q, d) =>
               /\ call[q].token = client[d].holds /\ client[d].since # NotYet
               /\ \A s \in Callers : Rotates(s, d) => s = q
      BY DEF IServed, IPatient
    <3>2. CASE d = c
      <4>1. \A q \in Callers : ~Rotates(q, c)
        BY <1>1, <3>2 DEF InHand, Rotates, Idle
      <4>2. \A q \in Callers : Rotates(q, c)' => q = r /\ call'[q].token = t
        BY <1>3, <4>1 DEF Rotates
      <4>3. client'[c].since # NotYet /\ client'[c].since <= now'
        BY <1>1, <1>2, <1>4, <3>1, <3>2
      <4> QED
        BY <1>2, <3>2, <4>2, <4>3
    <3>3. CASE d # c
      <4>1. \A q \in Callers : Rotates(q, d)' => Rotates(q, d) /\ call'[q] = call[q]
        BY <1>3, <3>3 DEF Rotates
      <4>2. client'[d] = client[d]
        BY <1>2, <1>4, <3>3
      <4> QED
        BY <1>1, <3>1, <4>1, <4>2
    <3> QED
      BY <3>2, <3>3
  <2> QED
    BY <2>1 DEF IPatient, NotYet
<1>6. ASSUME failedWrites' = 0
      PROVE  /\ disk' = mem' /\ Coherent(mem)' /\ Known(mem)'
             /\ \A d \in Patient \ lost' :
                  client'[d].holds # NoToken /\ ended'[d] = "no" => WayOn(mem, d)'
  <2>1. disk = mem /\ Coherent(mem) /\ Known(mem)
    BY <1>1, <1>6 DEF IServed, IWays
  <2>2. Coherent(mem)'
    BY <1>1, <1>4, <2>1, CoherentPart
  <2>3. Known(mem)'
    <3>1. ASSUME NEW s \in Callers, call'[s].op = "rotate", call'[s].token \in DOMAIN mem'
          PROVE  mem'[call'[s].token].chain = call'[s].chain
      BY <1>1, <1>3, <2>1, <3>1 DEF Known, t
    <3>2. ASSUME NEW d \in Chains, client'[d].holds \in DOMAIN mem'
          PROVE  mem'[client'[d].holds].chain = d /\ mem'[client'[d].holds].exp = client'[d].exp
      <4>1. client'[d].holds = client[d].holds /\ client'[d].exp = client[d].exp
        BY <1>2 DEF t
      <4> QED
        BY <1>1, <2>1, <3>2, <4>1 DEF Known
    <3> QED
      BY <3>1, <3>2 DEF Known
  <2>4. ASSUME NEW d \in Patient \ lost', client'[d].holds # NoToken, ended'[d] = "no"
        PROVE  WayOn(mem, d)'
    <3>1. d \in Chains /\ client'[d].holds = client[d].holds
      BY <1>2, <1>4 DEF t
    <3>2. WayOn(mem, d)
      BY <1>1, <1>6, <2>4, <3>1 DEF IServed, IWays
    <3>3. client'[d] = client[d] \/ client[d].since # NotYet \/ ~mem[client[d].holds].used
      <4>1. ASSUME mem[client[d].holds].used
            PROVE  client[d].since # NotYet
        <5>1. client[d].since <= mem[client[d].holds].rot /\ mem[client[d].holds].rot <= now
          BY <2>1, <3>2, <4>1 DEF WayOn, Coherent
        <5>2. mem[client[d].holds].rot \in Nat /\ client[d].since \in Nat
          BY <3>1, <3>2, StoredTokens DEF WayOn
        <5> QED
          BY <1>4, <5>1, <5>2
      <4> QED
        BY <4>1
    <3>4. client[d].since # NotYet => client'[d].since = client[d].since
      BY <1>2, <3>1
    <3> QED
      BY <1>1, <3>1, <3>2, <3>3, <3>4 DEF WayOn
  <2> QED
    BY <1>1, <2>1, <2>2, <2>3, <2>4
<1> QED
  BY <1>5, <1>6 DEF IServed, IWays

LEMMA InitServed ==
  RefreshInit => IServed
<1> SUFFICES ASSUME RefreshInit
             PROVE  IServed
  OBVIOUS
<1>1. /\ DOMAIN mem = {} /\ disk = mem /\ call = [r \in Callers |-> Idle]
      /\ client = [c \in Chains |-> [holds |-> NoToken, exp |-> 0, since |-> NotYet]]
  BY DEF RefreshInit
<1>2. \A r \in Callers : call[r].op = "idle"
  BY <1>1 DEF Idle
<1>3. \A c \in Chains : client[c].holds = NoToken /\ client[c].since = NotYet
  BY <1>1
<1>4. IPatient
  BY <1>2, <1>3, RefreshAssumption DEF IPatient, Rotates
<1>5. Coherent(mem) /\ Known(mem)
  BY <1>1, <1>2 DEF Coherent, Known
<1>6. \A c \in Patient : client[c].holds = NoToken
  BY <1>3, RefreshAssumption
<1> QED
  BY <1>1, <1>4, <1>5, <1>6 DEF IServed, IWays

LEMMA RequestServed ==
  ASSUME IInv, IServed, NEW r \in Callers, RotateNext(r)
  PROVE  IServed'
<1>1. ASSUME NEW written \in BOOLEAN, NEW heard \in BOOLEAN, Save(r, written, heard)
      PROVE  IServed'
  BY <1>1, SaveServed
<1>2. ASSUME NEW written \in BOOLEAN, NEW heard \in BOOLEAN, RotateFresh(r, written, heard)
      PROVE  IServed'
  BY <1>2, FreshServed
<1>3. ASSUME NEW written \in BOOLEAN, RotateExpired(r, written)
      PROVE  IServed'
  BY <1>3, ExpiredServed
<1>4. ASSUME NEW written \in BOOLEAN, RotateReuse(r, written)
      PROVE  IServed'
  BY <1>4, ReuseServed
<1>5. CASE RotateUnknown(r)
  <2>1. /\ EndRequest(r) /\ lost \subseteq lost'
        /\ UNCHANGED <<now, mem, disk, client, ended, failedWrites>>
    BY <1>5 DEF RotateUnknown, Refuse, storeVars
  <2>2. now' \in Nat /\ now <= now'
    BY <2>1, StoredTokens
  <2> QED
    BY <2>1, <2>2, GoOn, IdleServed
<1>6. ASSUME NEW heard \in BOOLEAN, RotateRetry(r, heard)
      PROVE  IServed'
  BY <1>6, RetryServed
<1> QED
  BY <1>1, <1>2, <1>3, <1>4, <1>5, <1>6 DEF RotateNext

LEMMA StepServed ==
  IInv /\ IServed /\ [RefreshNext]_tokenVars => IServed'
<1> SUFFICES ASSUME IInv, IServed, [RefreshNext]_tokenVars
             PROVE  IServed'
  OBVIOUS
<1>t. now \in Nat /\ call \in [Callers -> Calls]
  BY StoredTokens DEF IInv, IScalars
<1>1. ASSUME NEW c \in Chains, Authorize(c)
      PROVE  IServed'
  <2>1. UNCHANGED <<now, mem, disk, call, client, lost, ended, failedWrites>>
    BY <1>1 DEF Authorize, storeVars
  <2> QED
    BY <1>t, <2>1, IdleServed
<1>2. ASSUME NEW r \in Callers, NEW c \in Chains, NEW accepted \in BOOLEAN, Consume(r, c, accepted)
      PROVE  IServed'
  <2>1. /\ UNCHANGED <<now, mem, disk, client, ended, failedWrites>> /\ lost \subseteq lost'
        /\ call' = call \/ call' = [call EXCEPT ![r] = Busy("save", c, NoToken)]
    BY <1>2 DEF Consume, Refuse, storeVars
  <2>2. \A s \in Callers : call'[s].op = "rotate" => call'[s] = call[s]
    BY <1>t, <2>1 DEF Busy
  <2> QED
    BY <1>t, <2>1, <2>2, IdleServed
<1>3. ASSUME NEW r \in Callers, NEW c \in Chains, Present(r, c)
      PROVE  IServed'
  BY <1>3, PresentServed
<1>4. ASSUME NEW r \in Callers, RotateNext(r)
      PROVE  IServed'
  BY <1>4, RequestServed
<1>5. ASSUME NEW r \in Callers, NEW t \in DOMAIN mem, LookUpToRevoke(r, t)
      PROVE  IServed'
  <2>1. /\ UNCHANGED <<now, mem, disk, client, lost, ended, failedWrites>>
        /\ call' = [call EXCEPT ![r] = Busy("revoke", mem[t].chain, t)]
    BY <1>5 DEF LookUpToRevoke, storeVars
  <2>2. \A s \in Callers : call'[s].op = "rotate" => call'[s] = call[s]
    BY <1>t, <2>1 DEF Busy
  <2> QED
    BY <1>t, <2>1, <2>2, IdleServed
<1>6. ASSUME NEW r \in Callers, NEW written \in BOOLEAN, RevokeChain(r, written)
      PROVE  IServed'
  BY <1>6, RevokeServed
<1>7. ASSUME NEW written \in BOOLEAN, Disconnect(written)
      PROVE  IServed'
  BY <1>7, DisconnectServed
<1>8. CASE Tick
  <2>1. UNCHANGED <<mem, disk, call, client, lost, ended, failedWrites>> /\ now' = now + 1
    BY <1>8 DEF Tick, storeVars
  <2> QED
    BY <1>t, <2>1, IdleServed
<1>9. CASE Restart
  <2>1. /\ UNCHANGED <<now, disk, client, ended, failedWrites>> /\ lost \subseteq lost'
        /\ mem' = disk /\ \A r \in Callers : call'[r] = Idle
    BY <1>9 DEF Restart
  <2>2. \A r \in Callers : call'[r].op # "rotate"
    BY <2>1 DEF Idle
  <2> QED
    BY <1>t, <2>1, <2>2, IdleServed
<1>10. CASE UNCHANGED tokenVars
  <2>1. UNCHANGED <<now, mem, disk, call, client, lost, ended, failedWrites>>
    BY <1>10 DEF tokenVars, storeVars
  <2> QED
    BY <1>t, <2>1, IdleServed
<1> QED
  BY <1>1, <1>2, <1>3, <1>4, <1>5, <1>6, <1>7, <1>8, <1>9, <1>10 DEF RefreshNext

\* A refusal of a request about the token a patient client holds has one of
\* the reasons the client could know of.
LEMMA RefusalHasReason ==
  ASSUME IInv, IServed, NEW r \in Callers, NEW c \in Patient \ lost, Rotates(r, c),
         \/ call[r].token \notin DOMAIN mem
         \/ call[r].token \in DOMAIN mem /\ ~mem[call[r].token].used /\ Expired(mem[call[r].token])
         \/ call[r].token \in DOMAIN mem /\ mem[call[r].token].used /\ ~Retriable(mem[call[r].token])
  PROVE  MayLose(c)
<1> DEFINE t == client[c].holds
<1>1. SUFFICES ASSUME failedWrites = 0, t # NoToken, ended[c] = "no"
               PROVE  MayLose(c)
  BY RefreshAssumption DEF MayLose, IInv, IScalars
<1>2. /\ c \in Chains /\ call[r].token = t /\ WayOn(mem, c) /\ Coherent(mem)
      /\ t \in DOMAIN mem /\ mem[t].exp = client[c].exp
  BY <1>1, RefreshAssumption DEF IServed, IPatient, IWays, WayOn, Known
<1>3. now \in Nat /\ Grace \in Nat /\ client[c].exp \in Nat /\ client[c].since \in Nat /\ mem[t].rot \in Nat
  BY <1>2, StoredTokens, RefreshAssumption
<1>4. CASE ~mem[t].used
  BY <1>2, <1>3, <1>4 DEF Expired, MayLose
<1>5. CASE mem[t].used
  <2> DEFINE u == mem[t].succ
  <2>1. /\ u \in DOMAIN mem /\ ~mem[u].used /\ client[c].since <= mem[t].rot
        /\ mem[t].exp <= mem[u].exp /\ mem[u].exp \in Nat
    BY <1>2, <1>5, StoredTokens DEF WayOn, Coherent
  <2>2. ~(now <= mem[t].rot + Grace) \/ mem[u].exp < now
    BY <1>2, <1>5, <2>1 DEF Retriable, Expired
  <2>3. now > client[c].since + Grace \/ now > client[c].exp
    BY <1>2, <1>3, <2>1, <2>2
  <2> QED
    BY <2>3 DEF MayLose
<1> QED
  BY <1>2, <1>4, <1>5, StoredTokens

LEMMA LossHasReason ==
  ASSUME IInv, IServed, [RefreshNext]_tokenVars, NEW c \in Patient, c \in lost' \ lost
  PROVE  MayLose(c) \/ failedWrites' > 0
<1>p. c \in Chains
  BY RefreshAssumption
<1>h. c \notin Started => MayLose(c)
  BY <1>p DEF IInv, IHeld, MayLose
<1>1. ASSUME NEW d \in Chains, Authorize(d)
      PROVE  FALSE
  BY <1>1 DEF Authorize
<1>2. ASSUME NEW r \in Callers, NEW d \in Chains, NEW accepted \in BOOLEAN, Consume(r, d, accepted)
      PROVE  MayLose(c)
  <2>1. c = d /\ d \in DOMAIN codes
    BY <1>2 DEF Consume, Refuse
  <2> QED
    BY <1>h, <2>1 DEF Started
<1>3. ASSUME NEW r \in Callers, NEW d \in Chains, Present(r, d)
      PROVE  MayLose(c)
  <2>1. c = d /\ client[c].holds # NoToken /\ client[c].holds \notin DOMAIN mem
    BY <1>3 DEF Present, Refuse
  <2>2. failedWrites = 0 => ended[c] # "no"
    BY <2>1 DEF IServed, IWays, WayOn
  <2> QED
    BY <2>2, RefreshAssumption DEF MayLose, IInv, IScalars
<1>4. ASSUME NEW r \in Callers, RotateNext(r)
      PROVE  MayLose(c) \/ failedWrites' > 0
  <2>1. ASSUME NEW written \in BOOLEAN, NEW heard \in BOOLEAN, Save(r, written, heard)
        PROVE  MayLose(c)
    <3>1. c = call[r].chain /\ call[r].op = "save"
      BY <2>1 DEF Save, Refuse
    <3> QED
      BY <1>h, <3>1 DEF Started
  <2>2. ASSUME NEW written \in BOOLEAN, NEW heard \in BOOLEAN, RotateFresh(r, written, heard)
        PROVE  failedWrites' > 0
    <3>1. ~written /\ Persist(Rotated(mem, call[r].token, minted + 1), written)
      BY <2>2 DEF RotateFresh, Refuse
    <3> QED
      BY <3>1, Written
  <2>3. ASSUME NEW written \in BOOLEAN, RotateExpired(r, written)
        PROVE  MayLose(c)
    <3>1. /\ Rotates(r, c) /\ call[r].token \in DOMAIN mem
          /\ ~mem[call[r].token].used /\ Expired(mem[call[r].token])
      BY <2>3 DEF RotateExpired, Refuse, Rotates
    <3> QED
      BY <3>1, RefusalHasReason
  <2>4. ASSUME NEW written \in BOOLEAN, RotateReuse(r, written)
        PROVE  MayLose(c)
    <3>1. /\ Rotates(r, c) /\ call[r].token \in DOMAIN mem
          /\ mem[call[r].token].used /\ ~Retriable(mem[call[r].token])
      BY <2>4 DEF RotateReuse, Refuse, Rotates
    <3> QED
      BY <3>1, RefusalHasReason
  <2>5. CASE RotateUnknown(r)
    <3>1. Rotates(r, c) /\ call[r].token \notin DOMAIN mem
      BY <2>5 DEF RotateUnknown, Refuse, Rotates
    <3> QED
      BY <3>1, RefusalHasReason
  <2>6. ASSUME NEW heard \in BOOLEAN, RotateRetry(r, heard)
        PROVE  FALSE
    BY <2>6 DEF RotateRetry
  <2> QED
    BY <1>4, <2>1, <2>2, <2>3, <2>4, <2>5, <2>6 DEF RotateNext
<1>5. ASSUME NEW r \in Callers, NEW t \in DOMAIN mem, LookUpToRevoke(r, t)
      PROVE  FALSE
  BY <1>5 DEF LookUpToRevoke
<1>6. ASSUME NEW r \in Callers, NEW written \in BOOLEAN, RevokeChain(r, written)
      PROVE  FALSE
  BY <1>6 DEF RevokeChain
<1>7. ASSUME NEW written \in BOOLEAN, Disconnect(written)
      PROVE  FALSE
  BY <1>7 DEF Disconnect
<1>8. CASE Tick
  BY <1>8 DEF Tick
<1>9. CASE Restart
  <2>1. c \in DOMAIN codes \/ \E r \in Callers : call[r].op = "save" /\ call[r].chain = c
    BY <1>9 DEF Restart
  <2> QED
    BY <1>h, <2>1 DEF Started
<1>10. CASE UNCHANGED tokenVars
  BY <1>10 DEF tokenVars
<1> QED
  BY <1>1, <1>2, <1>3, <1>4, <1>5, <1>6, <1>7, <1>8, <1>9, <1>10 DEF RefreshNext

(* A client that waits for its answers, and asks again when one is lost,   *)
(* keeps its login across lost answers, retries and restarts, whatever the *)
(* other logins do: it is refused only when it holds no token, its chain   *)
(* was ended, a write failed, it asked again too late or its token expired *)
(* (Rotate with its grace in refreshstore.go, handleRefreshToken in        *)
(* tokenendpoint.go).                                                      *)
THEOREM PatienceIsRewarded == RefreshSpec => PatientClientsAreServed
<1>1. IInv /\ [RefreshNext]_tokenVars => IInv'
  BY StepSound
<1>2. IInv /\ IServed /\ [RefreshNext]_tokenVars => IServed'
  BY StepServed
<1>3. RefreshSpec => [](IInv /\ IServed)
  BY InitSound, InitServed, <1>1, <1>2, PTL DEF RefreshSpec
<1>4. IInv /\ IServed /\ [RefreshNext]_tokenVars
        => [\A c \in Patient : c \in lost' \ lost => MayLose(c) \/ failedWrites' > 0]_tokenVars
  BY LossHasReason
<1> QED
  BY <1>3, <1>4, PTL DEF RefreshSpec, PatientClientsAreServed
-----------------------------------------------------------------------------
(* The sessions of the HTTP API.  A session's age on record is never ahead *)
(* of the time it has been idle by more than a request may wait; and of    *)
(* each session that was created and is gone, either the end has been      *)
(* announced or there is one request that is about to.                     *)

HRequest == [at : {"idle", "waiting", "starting", "ending"}, op : {"none", "create", "get", "delete"},
             id : SessionIds \cup {NoId}, owner : Owners \cup {"none"}, lag : 0..MaxLag]
HSession == [owner : Owners, age : 0..MaxAge, idle : 0..MaxAge]
Asked == {r \in HttpRequests : request[r] # NoRequest}
Creating == {p \in HttpRequests : request[p].at = "waiting" /\ request[p].op = "create"}
Ending(id) == {r \in HttpRequests : request[r].at = "ending" /\ request[r].id = id}
OwnedBy(s, o) == {id \in DOMAIN s : s[id].owner = o}

HRequests ==
  /\ request \in [HttpRequests -> HRequest] /\ IsFiniteSet(Asked)
  /\ issued \in Nat /\ issued + Cardinality(Creating) <= MaxSessions
  /\ \A r \in HttpRequests : /\ request[r].at = "waiting" => request[r].owner \in Owners
                             /\ request[r].at \in {"starting", "ending"} => request[r].id # NoId
HSessions ==
  /\ sessions \in [OpenSessions -> HSession] /\ OpenSessions \subseteq 1..issued
  /\ Cardinality(OpenSessions) <= GlobalCap
  /\ \A o \in Owners : Cardinality(OwnedBy(sessions, o)) <= OwnerCap
  /\ \A id \in OpenSessions : sessions[id].age <= sessions[id].idle + MaxLag
HTimers ==
  /\ timer \in [SessionIds -> 0..Off] /\ callbacks \subseteq SessionIds
  /\ begun \in [SessionIds -> Nat]
HEnds ==
  /\ over \in [SessionIds -> Nat]
  /\ \A id \in SessionIds :
       over[id] + Cardinality(Ending(id)) = IF id <= issued /\ id \notin OpenSessions THEN 1 ELSE 0
HInv == HRequests /\ HSessions /\ HTimers /\ HEnds

USE DEF OpenSessions

\* The requests that wait to create, and those that are to announce an end,
\* are finitely many; and there is room for the ids to be given out.
LEMMA FewRequests ==
  ASSUME HRequests
  PROVE  /\ IsFiniteSet(Creating) /\ Cardinality(Creating) \in Nat
         /\ \A id : IsFiniteSet(Ending(id)) /\ Cardinality(Ending(id)) \in Nat
         /\ issued <= MaxSessions /\ (Creating # {} => issued + 1 <= MaxSessions)
         /\ NoRequest \in HRequest
<1>1. NoRequest \in HRequest /\ NoRequest.at = "idle"
  BY HttpAssumption DEF NoRequest, HRequest, SessionIds, NoId
<1>2. Creating \subseteq Asked /\ \A id : Ending(id) \subseteq Asked
  BY <1>1 DEF Creating, Ending, Asked
<1>3. IsFiniteSet(Creating) /\ Cardinality(Creating) \in Nat
  BY <1>2, FS_Subset, FS_CardinalityType DEF HRequests
<1>4. ASSUME NEW id
      PROVE  IsFiniteSet(Ending(id)) /\ Cardinality(Ending(id)) \in Nat
  BY <1>2, FS_Subset, FS_CardinalityType DEF HRequests
<1>5. Creating # {} => Cardinality(Creating) # 0
  BY <1>3, FS_EmptySet
<1>6. issued <= MaxSessions /\ (Creating # {} => issued + 1 <= MaxSessions)
  BY <1>3, <1>5, HttpAssumption DEF HRequests
<1> QED
  BY <1>1, <1>3, <1>4, <1>6

\* A request is over or goes on; one that creates has given out an id at most.
LEMMA RequestMoves ==
  ASSUME HRequests, NEW r \in HttpRequests, NEW n \in HRequest, request[r] # NoRequest,
         request' = [request EXCEPT ![r] = n], n.at # "waiting",
         n.at \in {"starting", "ending"} => n.id # NoId,
         issued' = issued \/ (issued' = issued + 1 /\ r \in Creating)
  PROVE  /\ HRequests' /\ request'[r] = n
         /\ \A p \in HttpRequests : p # r => request'[p] = request[p]
<1>1. /\ request' \in [HttpRequests -> HRequest] /\ request'[r] = n
      /\ \A p \in HttpRequests : p # r => request'[p] = request[p]
  BY DEF HRequests
<1>2. Asked' \subseteq Asked
  BY <1>1 DEF Asked
<1>3. IsFiniteSet(Asked')
  BY <1>2, FS_Subset DEF HRequests
<1>4. Creating' \subseteq Creating \ {r}
  BY <1>1 DEF Creating
<1>5. /\ IsFiniteSet(Creating \ {r}) /\ Cardinality(Creating \ {r}) \in Nat
      /\ Cardinality(Creating \ {r}) = IF r \in Creating THEN Cardinality(Creating) - 1 ELSE Cardinality(Creating)
      /\ Cardinality(Creating) \in Nat
  BY FewRequests, FS_RemoveElement, FS_CardinalityType
<1>6. Cardinality(Creating') <= Cardinality(Creating \ {r}) /\ Cardinality(Creating') \in Nat
  BY <1>4, <1>5, FS_Subset, FS_CardinalityType
<1>7. issued' \in Nat /\ issued' + Cardinality(Creating') <= MaxSessions
  BY <1>5, <1>6, HttpAssumption DEF HRequests
<1>8. \A p \in HttpRequests :
        /\ request'[p].at = "waiting" => request'[p].owner \in Owners
        /\ request'[p].at \in {"starting", "ending"} => request'[p].id # NoId
  BY <1>1 DEF HRequests
<1> QED
  BY <1>1, <1>3, <1>7, <1>8 DEF HRequests

\* Requests that are to announce an end stay as they are.
LEMMA EndingStays ==
  ASSUME \A p \in HttpRequests : request[p].at = "ending" \/ request'[p].at = "ending"
                                   => request'[p] = request[p]
  PROVE  \A id : Ending(id)' = Ending(id)
BY DEF Ending

\* Sessions are taken out of the map: what is left keeps what it is and the caps.
LEMMA Pruned ==
  ASSUME HRequests, HSessions, NEW gone \in SUBSET OpenSessions
  PROVE  /\ DOMAIN OpenBut(gone) = OpenSessions \ gone
         /\ OpenBut(gone) \in [OpenSessions \ gone -> HSession]
         /\ \A id \in OpenSessions \ gone : OpenBut(gone)[id] = sessions[id]
         /\ IsFiniteSet(OpenSessions \ gone) /\ Cardinality(OpenSessions \ gone) \in Nat
         /\ Cardinality(OpenSessions \ gone) <= GlobalCap
         /\ \A o \in Owners : /\ IsFiniteSet(OwnedBy(OpenBut(gone), o))
                              /\ Cardinality(OwnedBy(OpenBut(gone), o)) \in Nat
                              /\ Cardinality(OwnedBy(OpenBut(gone), o)) <= OwnerCap
<1>1. /\ DOMAIN OpenBut(gone) = OpenSessions \ gone
      /\ OpenBut(gone) \in [OpenSessions \ gone -> HSession]
      /\ \A id \in OpenSessions \ gone : OpenBut(gone)[id] = sessions[id]
  BY DEF OpenBut, HSessions
<1>2. IsFiniteSet(OpenSessions) /\ Cardinality(OpenSessions) \in Nat
  <2>1. IsFiniteSet(1..issued)
    BY FS_Interval DEF HRequests
  <2> QED
    BY <2>1, FS_Subset, FS_CardinalityType DEF HSessions
<1>3. /\ IsFiniteSet(OpenSessions \ gone) /\ Cardinality(OpenSessions \ gone) \in Nat
      /\ Cardinality(OpenSessions \ gone) <= Cardinality(OpenSessions)
  BY <1>2, FS_Subset, FS_CardinalityType
<1>4. Cardinality(OpenSessions \ gone) <= GlobalCap
  BY <1>2, <1>3, HttpAssumption DEF HSessions
<1>5. ASSUME NEW o \in Owners
      PROVE  /\ IsFiniteSet(OwnedBy(OpenBut(gone), o))
             /\ Cardinality(OwnedBy(OpenBut(gone), o)) \in Nat
             /\ Cardinality(OwnedBy(OpenBut(gone), o)) <= OwnerCap
  <2>1. OwnedBy(sessions, o) \subseteq OpenSessions
    BY DEF OwnedBy
  <2>2. IsFiniteSet(OwnedBy(sessions, o)) /\ Cardinality(OwnedBy(sessions, o)) \in Nat
    BY <1>2, <2>1, FS_Subset, FS_CardinalityType
  <2>3. OwnedBy(OpenBut(gone), o) \subseteq OwnedBy(sessions, o)
    BY <1>1 DEF OwnedBy
  <2>4. /\ IsFiniteSet(OwnedBy(OpenBut(gone), o)) /\ Cardinality(OwnedBy(OpenBut(gone), o)) \in Nat
        /\ Cardinality(OwnedBy(OpenBut(gone), o)) <= Cardinality(OwnedBy(sessions, o))
    BY <2>2, <2>3, FS_Subset, FS_CardinalityType
  <2> QED
    BY <2>2, <2>4, HttpAssumption DEF HSessions
<1> QED
  BY <1>1, <1>3, <1>4, <1>5

\* The map with less in it, and the timers of those gone stopped.
LEMMA HttpLess ==
  ASSUME HInv, NEW gone \in SUBSET OpenSessions, sessions' = OpenBut(gone), issued' = issued
  PROVE  HSessions' /\ OpenSessions' = OpenSessions \ gone
<1>1. /\ OpenSessions' = OpenSessions \ gone
      /\ sessions' \in [OpenSessions' -> HSession]
      /\ \A id \in OpenSessions' : sessions'[id] = sessions[id]
      /\ Cardinality(OpenSessions') <= GlobalCap
      /\ \A o \in Owners : Cardinality(OwnedBy(sessions', o)) <= OwnerCap
  BY Pruned DEF HInv
<1>2. OpenSessions' \subseteq 1..issued'
  BY <1>1 DEF HInv, HSessions
<1>3. \A id \in OpenSessions' : sessions'[id].age <= sessions'[id].idle + MaxLag
  BY <1>1 DEF HInv, HSessions
<1> QED
  BY <1>1, <1>2, <1>3 DEF HSessions

LEMMA Stopped ==
  ASSUME HTimers, NEW gone \in SUBSET SessionIds
  PROVE  StopTimers(gone) \in [SessionIds -> 0..Off]
BY HttpAssumption DEF HTimers, StopTimers, Off

\* Ends are announced as sessions leave the map: once for each.
LEMMA Announced ==
  ASSUME HInv, NEW gone \in SUBSET OpenSessions, over' = Announce(gone),
         \A id \in SessionIds : (id <= issued' /\ id \notin OpenSessions')
                                 <=> (id <= issued /\ id \notin OpenSessions) \/ id \in gone,
         \A id : Ending(id)' = Ending(id)
  PROVE  HEnds'
<1>1. over' \in [SessionIds -> Nat]
  BY DEF HInv, HEnds, Announce
<1>2. ASSUME NEW id \in SessionIds
      PROVE  over'[id] + Cardinality(Ending(id)') = IF id <= issued' /\ id \notin OpenSessions' THEN 1 ELSE 0
  <2>1. over'[id] = over[id] + IF id \in gone THEN 1 ELSE 0
    BY DEF Announce
  <2>2. over[id] \in Nat /\ Cardinality(Ending(id)) \in Nat /\ issued \in Nat /\ id \in Nat
    BY FewRequests, HttpAssumption DEF HInv, HEnds, HRequests, SessionIds
  <2>3. over[id] + Cardinality(Ending(id)) = IF id <= issued /\ id \notin OpenSessions THEN 1 ELSE 0
    BY DEF HInv, HEnds
  <2>4. id \in gone => id \in OpenSessions /\ id <= issued
    BY DEF HInv, HSessions
  <2>5. Cardinality(Ending(id)') = Cardinality(Ending(id))
    OBVIOUS
  <2> QED
    BY <2>1, <2>2, <2>3, <2>4, <2>5
<1> QED
  BY <1>1, <1>2 DEF HEnds

\* A request is read.
LEMMA AskStep ==
  ASSUME HInv, NEW r \in HttpRequests, NEW op \in {"create", "get", "delete"},
         NEW id \in SessionIds \cup {NoId}, NEW owner \in Owners, Ask(r, op, id, owner)
  PROVE  HInv'
<1> DEFINE n == [at |-> "waiting", op |-> op, id |-> id, owner |-> owner, lag |-> 0]
<1>1. /\ request[r] = NoRequest /\ request' = [request EXCEPT ![r] = n]
      /\ op = "create" => issued + Cardinality(Creating) < MaxSessions
      /\ UNCHANGED <<sessions, timer, callbacks, issued, begun, over>>
  BY DEF Ask, Creating
<1>2. n \in HRequest /\ n.at = "waiting" /\ n.op = op /\ n.owner = owner
  BY HttpAssumption DEF HRequest
<1> HIDE DEF n
<1>3. /\ request' \in [HttpRequests -> HRequest] /\ request'[r] = n
      /\ \A p \in HttpRequests : p # r => request'[p] = request[p]
  BY <1>1, <1>2 DEF HInv, HRequests
<1>4. IsFiniteSet(Asked')
  <2>1. Asked' \subseteq Asked \cup {r} /\ IsFiniteSet(Asked \cup {r})
    BY <1>3, FS_AddElement DEF Asked, HInv, HRequests
  <2> QED
    BY <2>1, FS_Subset
<1>5. issued' + Cardinality(Creating') <= MaxSessions
  <2>1. /\ IsFiniteSet(Creating) /\ Cardinality(Creating) \in Nat /\ issued \in Nat /\ MaxSessions \in Nat
        /\ issued + Cardinality(Creating) <= MaxSessions
    BY FewRequests, HttpAssumption DEF HInv, HRequests
  <2>2. CASE op = "create"
    <3>1. Creating' \subseteq Creating \cup {r}
      BY <1>3 DEF Creating
    <3>2. /\ IsFiniteSet(Creating \cup {r}) /\ Cardinality(Creating \cup {r}) \in Nat
          /\ Cardinality(Creating \cup {r}) <= Cardinality(Creating) + 1
      <4>1. /\ IsFiniteSet(Creating \cup {r})
            /\ Cardinality(Creating \cup {r}) = IF r \in Creating THEN Cardinality(Creating)
                                                 ELSE Cardinality(Creating) + 1
        BY <2>1, FS_AddElement
      <4> QED
        BY <2>1, <4>1
    <3>3. Cardinality(Creating') <= Cardinality(Creating \cup {r}) /\ Cardinality(Creating') \in Nat
      BY <3>1, <3>2, FS_Subset, FS_CardinalityType
    <3> QED
      BY <1>1, <2>1, <2>2, <3>2, <3>3
  <2>3. CASE op # "create"
    <3>1. Creating' \subseteq Creating
      BY <1>2, <1>3, <2>3 DEF Creating
    <3>2. Cardinality(Creating') <= Cardinality(Creating) /\ Cardinality(Creating') \in Nat
      BY <2>1, <3>1, FS_Subset, FS_CardinalityType
    <3> QED
      BY <1>1, <2>1, <3>2
  <2> QED
    BY <2>2, <2>3
<1>6. HRequests'
  <2>1. \A p \in HttpRequests :
          /\ request'[p].at = "waiting" => request'[p].owner \in Owners
          /\ request'[p].at \in {"starting", "ending"} => request'[p].id # NoId
    BY <1>2, <1>3 DEF HInv, HRequests
  <2> QED
    BY <1>1, <1>3, <1>4, <1>5, <2>1 DEF HInv, HRequests
<1>7. HSessions' /\ HTimers'
  BY <1>1 DEF HInv, HSessions, HTimers
<1>8. HEnds'
  <2>1. NoRequest.at = "idle"
    BY DEF NoRequest
  <2>2. \A i : Ending(i)' = Ending(i)
    BY <1>1, <1>2, <1>3, <2>1, EndingStays
  <2> QED
    BY <1>1, <2>2 DEF HInv, HEnds
<1> QED
  BY <1>6, <1>7, <1>8 DEF HInv

\* handleCreate: the prune, and a new session if the caps leave room.
LEMMA CreateStep ==
  ASSUME HInv, NEW r \in HttpRequests, Create(r)
  PROVE  HInv'
<1> DEFINE q == request[r]
           new == issued + 1
           gone == Stale(q.lag)
           left == OpenBut(gone)
<1>1. /\ q.at = "waiting" /\ q.op = "create" /\ over' = Announce(gone)
      /\ UNCHANGED <<callbacks, begun>>
      /\ \/ /\ sessions' = left /\ timer' = StopTimers(gone)
            /\ request' = [request EXCEPT ![r] = NoRequest] /\ issued' = issued
         \/ /\ ~Full(left, q.owner) /\ issued' = new
            /\ sessions' = [i \in DOMAIN left \cup {new} |->
                 IF i = new THEN [owner |-> q.owner, age |-> q.lag, idle |-> 0] ELSE left[i]]
            /\ timer' = [StopTimers(gone) EXCEPT ![new] = TTL]
            /\ request' = [request EXCEPT ![r].at = "starting", ![r].id = new]
  BY DEF Create
<1>2. /\ q \in HRequest /\ q.owner \in Owners /\ r \in Creating /\ q.lag \in 0..MaxLag
      /\ q # NoRequest
  BY <1>1 DEF HInv, HRequests, HRequest, Creating, NoRequest
<1>3. /\ gone \in SUBSET OpenSessions /\ gone \in SUBSET SessionIds
      /\ new \in SessionIds /\ new \notin OpenSessions /\ new # NoId /\ issued \in Nat
  <2>1. gone \in SUBSET OpenSessions
    BY DEF Stale
  <2>2. issued \in Nat /\ new <= MaxSessions /\ MaxSessions \in Nat /\ issued <= MaxSessions
    BY <1>2, FewRequests, HttpAssumption DEF HInv, HRequests
  <2>3. OpenSessions \subseteq 1..issued
    BY DEF HInv, HSessions
  <2> QED
    BY <2>1, <2>2, <2>3 DEF SessionIds, NoId
<1> HIDE DEF q, new, gone, left
<1>4. CASE /\ sessions' = left /\ timer' = StopTimers(gone)
           /\ request' = [request EXCEPT ![r] = NoRequest] /\ issued' = issued
  <2>1. /\ HRequests' /\ request'[r] = NoRequest
        /\ \A p \in HttpRequests : p # r => request'[p] = request[p]
    <3>1. NoRequest \in HRequest /\ NoRequest.at = "idle"
      BY FewRequests DEF HInv, NoRequest
    <3> QED
      BY <1>2, <1>4, <3>1, RequestMoves DEF HInv, q
  <2>2. HSessions' /\ OpenSessions' = OpenSessions \ gone
    BY <1>3, <1>4, HttpLess DEF left
  <2>3. HTimers'
    BY <1>1, <1>3, <1>4, Stopped DEF HInv, HTimers
  <2>4. \A i : Ending(i)' = Ending(i)
    BY <1>1, <2>1, EndingStays DEF q, NoRequest
  <2>5. HEnds'
    <3>1. \A id \in SessionIds : (id <= issued' /\ id \notin OpenSessions')
                                 <=> (id <= issued /\ id \notin OpenSessions) \/ id \in gone
      BY <1>3, <1>4, <2>2 DEF HInv, HSessions
    <3> QED
      BY <1>1, <1>3, <2>4, <3>1, Announced
  <2> QED
    BY <2>1, <2>2, <2>3, <2>5 DEF HInv
<1>5. CASE /\ ~Full(left, q.owner) /\ issued' = new
           /\ sessions' = [i \in DOMAIN left \cup {new} |->
                 IF i = new THEN [owner |-> q.owner, age |-> q.lag, idle |-> 0] ELSE left[i]]
           /\ timer' = [StopTimers(gone) EXCEPT ![new] = TTL]
           /\ request' = [request EXCEPT ![r].at = "starting", ![r].id = new]
  <2> DEFINE n == [q EXCEPT !.at = "starting", !.id = new]
  <2>1. n \in HRequest /\ n.at = "starting" /\ n.id = new /\ request' = [request EXCEPT ![r] = n]
    BY <1>2, <1>3, <1>5 DEF HRequest, q
  <2> HIDE DEF n
  <2>2. /\ HRequests' /\ request'[r] = n
        /\ \A p \in HttpRequests : p # r => request'[p] = request[p]
    BY <1>2, <1>3, <1>5, <2>1, RequestMoves DEF HInv, q, new
  <2>3. /\ DOMAIN left = OpenSessions \ gone /\ left \in [OpenSessions \ gone -> HSession]
        /\ \A id \in OpenSessions \ gone : left[id] = sessions[id]
        /\ IsFiniteSet(OpenSessions \ gone) /\ Cardinality(OpenSessions \ gone) \in Nat
        /\ \A o \in Owners : /\ IsFiniteSet(OwnedBy(left, o)) /\ Cardinality(OwnedBy(left, o)) \in Nat
                             /\ Cardinality(OwnedBy(left, o)) <= OwnerCap
    BY <1>3, Pruned DEF HInv, left
  <2>4. /\ OpenSessions' = (OpenSessions \ gone) \cup {new}
        /\ sessions'[new] = [owner |-> q.owner, age |-> q.lag, idle |-> 0]
        /\ \A id \in OpenSessions \ gone : sessions'[id] = sessions[id]
    BY <1>3, <1>5, <2>3
  <2>5. HSessions'
    <3>1. [owner |-> q.owner, age |-> q.lag, idle |-> 0] \in HSession
      BY <1>2, HttpAssumption DEF HSession, MaxAge
    <3>2. sessions' \in [OpenSessions' -> HSession]
      BY <1>5, <2>3, <2>4, <3>1
    <3>3. OpenSessions' \subseteq 1..issued'
      BY <1>3, <1>5, <2>4 DEF HInv, HSessions, new
    <3>4. ~(Cardinality(DOMAIN left) >= GlobalCap) /\ ~(Cardinality(OwnedBy(left, q.owner)) >= OwnerCap)
      BY <1>5 DEF Full, OwnedBy
    <3>5. Cardinality(OpenSessions') <= GlobalCap
      <4>1. Cardinality(OpenSessions') = Cardinality(OpenSessions \ gone) + 1
        BY <1>3, <2>3, <2>4, FS_AddElement
      <4> QED
        BY <2>3, <3>4, <4>1, HttpAssumption
    <3>6. ASSUME NEW o \in Owners
          PROVE  Cardinality(OwnedBy(sessions', o)) <= OwnerCap
      <4>1. CASE o = q.owner
        <5>1. OwnedBy(sessions', o) = OwnedBy(left, o) \cup {new} /\ new \notin OwnedBy(left, o)
          BY <1>3, <2>3, <2>4, <4>1 DEF OwnedBy
        <5>2. Cardinality(OwnedBy(sessions', o)) = Cardinality(OwnedBy(left, o)) + 1
          BY <2>3, <5>1, FS_AddElement
        <5> QED
          BY <2>3, <3>4, <4>1, <5>2, HttpAssumption
      <4>2. CASE o # q.owner
        <5>1. OwnedBy(sessions', o) = OwnedBy(left, o)
          BY <1>3, <2>3, <2>4, <4>2 DEF OwnedBy
        <5> QED
          BY <2>3, <5>1
      <4> QED
        BY <4>1, <4>2
    <3>7. ASSUME NEW id \in OpenSessions'
          PROVE  sessions'[id].age <= sessions'[id].idle + MaxLag
      <4>1. CASE id = new
        BY <1>2, <2>4, <4>1, HttpAssumption
      <4>2. CASE id # new
        BY <2>4, <4>2 DEF HInv, HSessions
      <4> QED
        BY <4>1, <4>2
    <3> QED
      BY <3>2, <3>3, <3>5, <3>6, <3>7 DEF HSessions
  <2>6. HTimers'
    <3>1. StopTimers(gone) \in [SessionIds -> 0..Off] /\ TTL \in 0..Off
      BY <1>3, Stopped, HttpAssumption DEF HInv, Off
    <3> QED
      BY <1>1, <1>5, <3>1 DEF HInv, HTimers
  <2>7. \A i : Ending(i)' = Ending(i)
    BY <1>1, <2>1, <2>2, EndingStays DEF q
  <2>8. HEnds'
    <3>1. ASSUME NEW id \in SessionIds
          PROVE  (id <= issued' /\ id \notin OpenSessions')
                   <=> (id <= issued /\ id \notin OpenSessions) \/ id \in gone
      <4>1. id \in Nat /\ (id \in gone => id <= issued)
        BY <1>3, HttpAssumption DEF SessionIds, HInv, HSessions
      <4>2. id <= issued' <=> id <= issued \/ id = new
        BY <1>3, <1>5, <4>1 DEF new
      <4> QED
        BY <1>3, <2>4, <4>1, <4>2 DEF new
    <3> QED
      BY <1>1, <1>3, <2>7, <3>1, Announced
  <2> QED
    BY <2>2, <2>5, <2>6, <2>8 DEF HInv
<1> QED
  BY <1>1, <1>4, <1>5

LEMMA OnStartStep ==
  ASSUME HInv, NEW r \in HttpRequests, OnStart(r)
  PROVE  HInv'
<1>1. /\ request[r].at = "starting" /\ begun' = [begun EXCEPT ![request[r].id] = @ + 1]
      /\ request' = [request EXCEPT ![r] = NoRequest]
      /\ UNCHANGED <<sessions, timer, callbacks, issued, over>>
  BY DEF OnStart
<1>2. NoRequest \in HRequest /\ NoRequest.at = "idle" /\ request[r] # NoRequest
  BY <1>1, FewRequests DEF HInv, NoRequest
<1>3. /\ HRequests' /\ request'[r] = NoRequest
      /\ \A p \in HttpRequests : p # r => request'[p] = request[p]
  BY <1>1, <1>2, RequestMoves DEF HInv
<1>4. \A i : Ending(i)' = Ending(i)
  BY <1>1, <1>2, <1>3, EndingStays
<1>5. HSessions' /\ HEnds'
  BY <1>1, <1>4 DEF HInv, HSessions, HEnds
<1>6. HTimers'
  <2>1. request[r].id \in SessionIds /\ begun \in [SessionIds -> Nat]
    BY <1>1 DEF HInv, HRequests, HRequest, HTimers
  <2>2. begun' \in [SessionIds -> Nat]
    BY <1>1, <2>1
  <2> QED
    BY <1>1, <2>2 DEF HInv, HTimers
<1> QED
  BY <1>3, <1>5, <1>6 DEF HInv

\* get: the prune, and the use of a session that is left and its caller's.
LEMMA GetStep ==
  ASSUME HInv, NEW r \in HttpRequests, Get(r)
  PROVE  HInv'
<1> DEFINE q == request[r]
           gone == Stale(q.lag)
           left == OpenBut(gone)
<1>1. /\ q.at = "waiting" /\ q.op = "get" /\ over' = Announce(gone)
      /\ request' = [request EXCEPT ![r] = NoRequest]
      /\ UNCHANGED <<callbacks, issued, begun>>
      /\ \/ /\ q.id \in DOMAIN left
            /\ sessions' = [left EXCEPT ![q.id].age = q.lag, ![q.id].idle = 0]
            /\ timer' = Renewed(q.id, gone)
         \/ sessions' = left /\ timer' = StopTimers(gone)
  BY DEF Get
<1>2. /\ q \in HRequest /\ q.lag \in 0..MaxLag /\ q # NoRequest /\ issued \in Nat
      /\ NoRequest \in HRequest /\ NoRequest.at = "idle"
  BY <1>1, FewRequests DEF HInv, HRequests, HRequest, NoRequest
<1>3. gone \in SUBSET OpenSessions /\ gone \in SUBSET SessionIds
  <2>1. gone \in SUBSET OpenSessions
    BY DEF Stale
  <2>2. issued <= MaxSessions /\ OpenSessions \subseteq 1..issued
    BY FewRequests DEF HInv, HSessions
  <2> QED
    BY <1>2, <2>1, <2>2, HttpAssumption DEF SessionIds
<1> HIDE DEF q, gone, left
<1>4. /\ HRequests' /\ request'[r] = NoRequest
      /\ \A p \in HttpRequests : p # r => request'[p] = request[p]
  BY <1>1, <1>2, RequestMoves DEF HInv, q
<1>5. /\ DOMAIN left = OpenSessions \ gone /\ left \in [OpenSessions \ gone -> HSession]
      /\ \A id \in OpenSessions \ gone : left[id] = sessions[id]
      /\ Cardinality(OpenSessions \ gone) <= GlobalCap
      /\ \A o \in Owners : Cardinality(OwnedBy(left, o)) <= OwnerCap
  BY <1>3, Pruned DEF HInv, left
<1>6. HSessions' /\ OpenSessions' = OpenSessions \ gone /\ HTimers'
  <2>1. StopTimers(gone) \in [SessionIds -> 0..Off]
    BY <1>3, Stopped DEF HInv
  <2>2. CASE /\ q.id \in DOMAIN left
             /\ sessions' = [left EXCEPT ![q.id].age = q.lag, ![q.id].idle = 0]
             /\ timer' = Renewed(q.id, gone)
    <3>1. HTimers'
      <4>1. TTL \in 0..Off
        BY HttpAssumption DEF Off
      <4> QED
        BY <1>1, <2>1, <2>2, <4>1 DEF HInv, HTimers, Renewed
    <3>2. /\ OpenSessions' = OpenSessions \ gone
          /\ sessions'[q.id] = [left[q.id] EXCEPT !.age = q.lag, !.idle = 0]
          /\ \A id \in OpenSessions \ gone : id # q.id => sessions'[id] = left[id]
      BY <1>5, <2>2
    <3>3. /\ sessions'[q.id] \in HSession /\ sessions'[q.id].age = q.lag /\ sessions'[q.id].idle = 0
          /\ sessions'[q.id].owner = left[q.id].owner
      <4>1. left[q.id] \in HSession /\ q.lag \in 0..MaxAge /\ 0 \in 0..MaxAge
        BY <1>2, <1>5, <2>2, HttpAssumption DEF MaxAge
      <4> QED
        BY <3>2, <4>1 DEF HSession
    <3>4. sessions' \in [OpenSessions' -> HSession]
      BY <1>5, <2>2, <3>2, <3>3
    <3>5. \A o \in Owners : OwnedBy(sessions', o) = OwnedBy(left, o)
      <4>1. DOMAIN sessions' = DOMAIN left
        BY <1>5, <3>2
      <4>2. \A id \in DOMAIN left : sessions'[id].owner = left[id].owner
        BY <1>5, <3>2, <3>3
      <4> QED
        BY <4>1, <4>2 DEF OwnedBy
    <3>6. ASSUME NEW id \in OpenSessions'
          PROVE  sessions'[id].age <= sessions'[id].idle + MaxLag
      <4>1. CASE id = q.id
        BY <1>2, <3>3, <4>1, HttpAssumption
      <4>2. CASE id # q.id
        BY <1>5, <3>2, <4>2 DEF HInv, HSessions
      <4> QED
        BY <4>1, <4>2
    <3>7. OpenSessions' \subseteq 1..issued'
      BY <1>1, <3>2 DEF HInv, HSessions
    <3>8. HSessions'
      BY <1>5, <3>2, <3>4, <3>5, <3>6, <3>7 DEF HSessions
    <3> QED
      BY <3>1, <3>2, <3>8
  <2>3. CASE sessions' = left /\ timer' = StopTimers(gone)
    <3>1. HSessions' /\ OpenSessions' = OpenSessions \ gone
      BY <1>1, <1>3, <2>3, HttpLess DEF left
    <3>2. HTimers'
      BY <1>1, <2>1, <2>3 DEF HInv, HTimers
    <3> QED
      BY <3>1, <3>2
  <2> QED
    BY <1>1, <2>2, <2>3
<1>7. HEnds'
  <2>1. \A i : Ending(i)' = Ending(i)
    BY <1>1, <1>2, <1>4, EndingStays DEF q
  <2>2. \A id \in SessionIds : (id <= issued' /\ id \notin OpenSessions')
                                 <=> (id <= issued /\ id \notin OpenSessions) \/ id \in gone
    BY <1>1, <1>3, <1>6 DEF HInv, HSessions
  <2> QED
    BY <1>1, <1>3, <2>1, <2>2, Announced
<1> QED
  BY <1>4, <1>6, <1>7 DEF HInv

\* handleDelete takes the session out, and its request is to announce the end.
LEMMA DeleteStep ==
  ASSUME HInv, NEW r \in HttpRequests, Delete(r)
  PROVE  HInv'
<1> DEFINE q == request[r]
           mine == {q.id} \cap {id \in OpenSessions : sessions[id].owner = q.owner}
           n == IF mine = {} THEN NoRequest ELSE [q EXCEPT !.at = "ending"]
<1>1. /\ q.at = "waiting" /\ sessions' = OpenBut(mine) /\ timer' = StopTimers(mine)
      /\ request' = [request EXCEPT ![r] = n]
      /\ UNCHANGED <<callbacks, issued, begun, over>>
  BY DEF Delete
<1>2. /\ q \in HRequest /\ q # NoRequest /\ NoRequest \in HRequest /\ NoRequest.at = "idle"
      /\ issued \in Nat /\ issued <= MaxSessions /\ OpenSessions \subseteq 1..issued
  BY <1>1, FewRequests DEF HInv, HRequests, HSessions, NoRequest
<1>3. /\ mine \in SUBSET OpenSessions /\ mine \in SUBSET SessionIds
      /\ \A id \in mine : id = q.id
      /\ mine # {} => q.id \in mine /\ q.id # NoId
  BY <1>2, HttpAssumption DEF SessionIds, NoId
<1>4. /\ n \in HRequest /\ n.at # "waiting" /\ n.at # "starting"
      /\ n.at = "ending" <=> mine # {}
      /\ n.at = "ending" => n.id = q.id
  BY <1>2 DEF HRequest
<1> HIDE DEF q, mine, n
<1>5. /\ HRequests' /\ request'[r] = n
      /\ \A p \in HttpRequests : p # r => request'[p] = request[p]
  BY <1>1, <1>2, <1>3, <1>4, RequestMoves DEF HInv, q
<1>6. HSessions' /\ OpenSessions' = OpenSessions \ mine
  BY <1>1, <1>3, HttpLess
<1>7. HTimers'
  BY <1>1, <1>3, Stopped DEF HInv, HTimers
<1>8. HEnds'
  <2>1. ASSUME NEW id \in SessionIds
        PROVE  over'[id] + Cardinality(Ending(id)') = IF id <= issued' /\ id \notin OpenSessions' THEN 1 ELSE 0
    <3>1. /\ over[id] + Cardinality(Ending(id)) = IF id <= issued /\ id \notin OpenSessions THEN 1 ELSE 0
          /\ over[id] \in Nat /\ IsFiniteSet(Ending(id)) /\ Cardinality(Ending(id)) \in Nat
      BY FewRequests DEF HInv, HEnds
    <3>2. CASE id \in mine
      <4>1. Ending(id)' = Ending(id) \cup {r} /\ r \notin Ending(id)
        BY <1>1, <1>3, <1>4, <1>5, <3>2 DEF Ending, q
      <4>2. Cardinality(Ending(id)') = Cardinality(Ending(id)) + 1
        BY <3>1, <4>1, FS_AddElement
      <4>3. id \in OpenSessions /\ id <= issued /\ id \notin OpenSessions'
        BY <1>2, <1>3, <1>6, <3>2
      <4> QED
        BY <1>1, <3>1, <4>2, <4>3
    <3>3. CASE id \notin mine
      <4>1. Ending(id)' = Ending(id)
        BY <1>1, <1>3, <1>4, <1>5, <3>3 DEF Ending, q
      <4>2. id \in OpenSessions' <=> id \in OpenSessions
        BY <1>6, <3>3
      <4> QED
        BY <1>1, <3>1, <4>1, <4>2
    <3> QED
      BY <3>2, <3>3
  <2> QED
    BY <1>1, <2>1 DEF HInv, HEnds
<1> QED
  BY <1>5, <1>6, <1>7, <1>8 DEF HInv

\* What it was to announce, it has.
LEMMA OnEndStep ==
  ASSUME HInv, NEW r \in HttpRequests, OnEnd(r)
  PROVE  HInv'
<1> DEFINE e == request[r].id
<1>1. /\ request[r].at = "ending" /\ over' = Announce({e}) /\ request' = [request EXCEPT ![r] = NoRequest]
      /\ UNCHANGED <<sessions, timer, callbacks, issued, begun>>
  BY DEF OnEnd
<1>2. NoRequest \in HRequest /\ NoRequest.at = "idle" /\ request[r] # NoRequest
  BY <1>1, FewRequests DEF HInv, NoRequest
<1>3. /\ HRequests' /\ request'[r] = NoRequest
      /\ \A p \in HttpRequests : p # r => request'[p] = request[p]
  BY <1>1, <1>2, RequestMoves DEF HInv
<1>4. HSessions' /\ HTimers'
  BY <1>1 DEF HInv, HSessions, HTimers
<1> HIDE DEF e
<1>5. over' \in [SessionIds -> Nat]
  BY <1>1 DEF HInv, HEnds, Announce
<1>6. ASSUME NEW id \in SessionIds
      PROVE  over'[id] + Cardinality(Ending(id)') = IF id <= issued' /\ id \notin OpenSessions' THEN 1 ELSE 0
  <2>1. /\ over[id] + Cardinality(Ending(id)) = IF id <= issued /\ id \notin OpenSessions THEN 1 ELSE 0
        /\ over[id] \in Nat /\ IsFiniteSet(Ending(id)) /\ Cardinality(Ending(id)) \in Nat
    BY FewRequests DEF HInv, HEnds
  <2>2. over'[id] = over[id] + IF id \in {e} THEN 1 ELSE 0
    BY <1>1 DEF Announce
  <2>3. CASE id = e
    <3>1. Ending(id)' = Ending(id) \ {r} /\ r \in Ending(id)
      BY <1>1, <1>2, <1>3, <2>3 DEF Ending, e
    <3>2. Cardinality(Ending(id)') = Cardinality(Ending(id)) - 1
      BY <2>1, <3>1, FS_RemoveElement
    <3> QED
      BY <1>1, <2>1, <2>2, <2>3, <3>2
  <2>4. CASE id # e
    <3>1. Ending(id)' = Ending(id)
      BY <1>1, <1>2, <1>3, <2>4 DEF Ending, e
    <3> QED
      BY <1>1, <2>1, <2>2, <2>4, <3>1
  <2> QED
    BY <2>3, <2>4
<1>7. HEnds'
  BY <1>5, <1>6 DEF HEnds
<1> QED
  BY <1>3, <1>4, <1>7 DEF HInv

\* A timer goes off, and its expire ends the session or sets it again.
LEMMA TimerSteps ==
  ASSUME HInv, NEW i \in SessionIds, TimerStep(i)
  PROVE  HInv'
<1>1. UNCHANGED <<request, issued, begun>>
  BY DEF TimerStep, GoesOff, Expire
<1>2. HRequests' /\ \A id : Ending(id)' = Ending(id)
  BY <1>1 DEF HInv, HRequests, Asked, Creating, Ending
<1>3. CASE GoesOff(i)
  <2>1. /\ timer' = [timer EXCEPT ![i] = Off] /\ callbacks' = callbacks \cup {i}
        /\ UNCHANGED <<sessions, over>>
    BY <1>3 DEF GoesOff
  <2>2. HTimers'
    <3>1. Off \in 0..Off
      BY HttpAssumption DEF Off
    <3> QED
      BY <1>1, <2>1, <3>1 DEF HInv, HTimers
  <2>3. HSessions' /\ HEnds'
    BY <1>1, <1>2, <2>1 DEF HInv, HSessions, HEnds
  <2> QED
    BY <1>2, <2>2, <2>3 DEF HInv
<1>4. CASE Expire(i)
  <2>1. /\ callbacks' = callbacks \ {i}
        /\ \/ UNCHANGED <<sessions, timer, over>>
           \/ /\ i \in OpenSessions /\ sessions[i].age < TTL
              /\ timer' = [timer EXCEPT ![i] = TTL - sessions[i].age]
              /\ UNCHANGED <<sessions, over>>
           \/ /\ i \in OpenSessions /\ sessions' = OpenBut({i}) /\ over' = Announce({i})
              /\ UNCHANGED timer
    BY <1>4 DEF Expire
  <2>2. CASE UNCHANGED <<sessions, over>>
    <3>1. HTimers'
      <4>1. CASE UNCHANGED timer
        BY <1>1, <2>1, <4>1 DEF HInv, HTimers
      <4>2. CASE /\ i \in OpenSessions /\ sessions[i].age < TTL
                 /\ timer' = [timer EXCEPT ![i] = TTL - sessions[i].age]
        <5>1. sessions[i].age \in 0..MaxAge
          BY <4>2 DEF HInv, HSessions, HSession
        <5>2. TTL - sessions[i].age \in 0..Off
          BY <4>2, <5>1, HttpAssumption DEF MaxAge, Off
        <5> QED
          BY <1>1, <2>1, <4>2, <5>2 DEF HInv, HTimers
      <4>3. CASE /\ i \in OpenSessions /\ sessions' = OpenBut({i}) /\ over' = Announce({i})
                 /\ UNCHANGED timer
        BY <1>1, <2>1, <4>3 DEF HInv, HTimers
      <4> QED
        BY <2>1, <4>1, <4>2, <4>3
    <3>2. HSessions' /\ HEnds'
      BY <1>1, <1>2, <2>2 DEF HInv, HSessions, HEnds
    <3> QED
      BY <1>2, <3>1, <3>2 DEF HInv
  <2>3. CASE i \in OpenSessions /\ sessions' = OpenBut({i}) /\ over' = Announce({i}) /\ UNCHANGED timer
    <3>1. HSessions' /\ OpenSessions' = OpenSessions \ {i}
      BY <1>1, <2>3, HttpLess
    <3>2. HTimers'
      BY <1>1, <2>1, <2>3 DEF HInv, HTimers
    <3>3. \A id \in SessionIds : (id <= issued' /\ id \notin OpenSessions')
                                   <=> (id <= issued /\ id \notin OpenSessions) \/ id \in {i}
      <4>1. i <= issued
        BY <2>3 DEF HInv, HSessions
      <4> QED
        BY <1>1, <2>3, <3>1, <4>1
    <3>4. HEnds'
      BY <1>2, <2>3, <3>3, Announced
    <3> QED
      BY <1>2, <3>1, <3>2, <3>4 DEF HInv
  <2> QED
    BY <2>1, <2>2, <2>3
<1> QED
  BY <1>3, <1>4 DEF TimerStep

\* Time passes alike for all.
LEMMA TimePassesStep ==
  ASSUME HInv, TimePasses
  PROVE  HInv'
<1>1. /\ \A r \in HttpRequests : request[r].at = "waiting" => request[r].lag < MaxLag
      /\ sessions' = [id \in OpenSessions |->
           [sessions[id] EXCEPT !.age = Older(@), !.idle = Older(@)]]
      /\ timer' = [id \in SessionIds |-> IF timer[id] \in 1..TTL THEN timer[id] - 1 ELSE timer[id]]
      /\ request' = [r \in HttpRequests |->
           IF request[r].at = "waiting" THEN [request[r] EXCEPT !.lag = @ + 1] ELSE request[r]]
      /\ UNCHANGED <<callbacks, issued, begun, over>>
  BY DEF TimePasses
<1>2. ASSUME NEW r \in HttpRequests
      PROVE  /\ request'[r] \in HRequest /\ request'[r].at = request[r].at /\ request'[r].op = request[r].op
             /\ request'[r].id = request[r].id /\ request'[r].owner = request[r].owner
             /\ request[r].at # "waiting" => request'[r] = request[r]
  <2>1. request[r] \in HRequest
    BY DEF HInv, HRequests
  <2>2. CASE request[r].at = "waiting"
    <3>1. request'[r] = [request[r] EXCEPT !.lag = @ + 1] /\ request[r].lag < MaxLag
      BY <1>1, <2>2
    <3>2. request[r].lag + 1 \in 0..MaxLag
      BY <2>1, <3>1, HttpAssumption DEF HRequest
    <3> QED
      BY <2>1, <2>2, <3>1, <3>2 DEF HRequest
  <2>3. CASE request[r].at # "waiting"
    BY <1>1, <2>1, <2>3
  <2> QED
    BY <2>2, <2>3
<1>3. HRequests'
  <2>1. NoRequest.at = "idle"
    BY DEF NoRequest
  <2>2. Asked' \subseteq Asked
    BY <1>2, <2>1 DEF Asked
  <2>3. IsFiniteSet(Asked')
    BY <2>2, FS_Subset DEF HInv, HRequests
  <2>4. Creating' = Creating
    BY <1>2 DEF Creating
  <2>5. request' \in [HttpRequests -> HRequest]
    BY <1>1, <1>2
  <2> QED
    BY <1>1, <1>2, <2>3, <2>4, <2>5 DEF HInv, HRequests
<1>4. ASSUME NEW id \in OpenSessions
      PROVE  /\ sessions'[id] \in HSession /\ sessions'[id].owner = sessions[id].owner
             /\ sessions'[id].age <= sessions'[id].idle + MaxLag
  <2>1. sessions[id] \in HSession /\ sessions[id].age <= sessions[id].idle + MaxLag
    BY DEF HInv, HSessions
  <2>2. sessions'[id] = [sessions[id] EXCEPT !.age = Older(sessions[id].age), !.idle = Older(sessions[id].idle)]
    BY <1>1, <2>1 DEF HSession
  <2>3. /\ sessions[id].age \in 0..MaxAge /\ sessions[id].idle \in 0..MaxAge /\ MaxAge \in Nat
        /\ MaxLag \in Nat /\ MaxLag <= MaxAge
    BY <2>1, HttpAssumption DEF HSession, MaxAge
  <2>4. /\ Older(sessions[id].age) \in 0..MaxAge /\ Older(sessions[id].idle) \in 0..MaxAge
        /\ Older(sessions[id].age) <= Older(sessions[id].idle) + MaxLag
    BY <2>1, <2>3 DEF Older
  <2>5. /\ sessions'[id].age = Older(sessions[id].age) /\ sessions'[id].idle = Older(sessions[id].idle)
        /\ sessions'[id].owner = sessions[id].owner /\ sessions'[id] \in HSession
    BY <2>1, <2>2, <2>4 DEF HSession
  <2> QED
    BY <2>4, <2>5
<1>5. OpenSessions' = OpenSessions /\ \A o : OwnedBy(sessions', o) = OwnedBy(sessions, o)
  <2>1. OpenSessions' = OpenSessions
    BY <1>1
  <2> QED
    BY <1>4, <2>1 DEF OwnedBy
<1>6. HSessions'
  <2>1. sessions' \in [OpenSessions' -> HSession]
    BY <1>1, <1>4, <1>5
  <2> QED
    BY <1>1, <1>4, <1>5, <2>1 DEF HInv, HSessions
<1>7. HTimers'
  <2>1. ASSUME NEW id \in SessionIds
        PROVE  timer'[id] \in 0..Off
    <3>1. timer[id] \in 0..Off /\ timer'[id] = IF timer[id] \in 1..TTL THEN timer[id] - 1 ELSE timer[id]
      BY <1>1 DEF HInv, HTimers
    <3> QED
      BY <3>1, HttpAssumption DEF Off
  <2>2. timer' \in [SessionIds -> 0..Off]
    BY <1>1, <2>1
  <2> QED
    BY <1>1, <2>2 DEF HInv, HTimers
<1>8. HEnds'
  <2>1. \A id : Ending(id)' = Ending(id)
    BY <1>2, EndingStays
  <2> QED
    BY <1>1, <1>5, <2>1 DEF HInv, HEnds
<1> QED
  BY <1>3, <1>6, <1>7, <1>8 DEF HInv

LEMMA HttpStep ==
  ASSUME HInv, [HttpNext]_httpVars
  PROVE  HInv'
<1>1. ASSUME NEW r \in HttpRequests, NEW op \in {"create", "get", "delete"},
             NEW id \in SessionIds \cup {NoId}, NEW owner \in Owners, Ask(r, op, id, owner)
      PROVE  HInv'
  BY <1>1, AskStep
<1>2. ASSUME NEW r \in HttpRequests, Answer(r)
      PROVE  HInv'
  BY <1>2, CreateStep, OnStartStep, GetStep, DeleteStep, OnEndStep DEF Answer
<1>3. ASSUME NEW id \in SessionIds, TimerStep(id)
      PROVE  HInv'
  BY <1>3, TimerSteps
<1>4. CASE TimePasses
  BY <1>4, TimePassesStep
<1>5. CASE UNCHANGED httpVars
  BY <1>5 DEF httpVars, HInv, HRequests, HSessions, HTimers, HEnds, Asked, Creating, Ending
<1> QED
  BY <1>1, <1>2, <1>3, <1>4, <1>5 DEF HttpNext

LEMMA HttpBegins == HttpInit => HInv
<1> SUFFICES ASSUME HttpInit PROVE HInv
  OBVIOUS
<1>1. /\ sessions = [id \in {} |-> NoRequest]
      /\ timer = [id \in SessionIds |-> Off] /\ callbacks = {} /\ issued = 0
      /\ request = [r \in HttpRequests |-> NoRequest]
      /\ begun = [id \in SessionIds |-> 0] /\ over = [id \in SessionIds |-> 0]
  BY DEF HttpInit
<1>2. /\ NoRequest \in HRequest /\ NoRequest.at = "idle"
  BY HttpAssumption DEF NoRequest, HRequest, SessionIds, NoId
<1>3. IsFiniteSet({}) /\ Cardinality({}) = 0
  BY FS_EmptySet
<1>4. Asked = {} /\ Creating = {} /\ \A id : Ending(id) = {}
  BY <1>1, <1>2 DEF Asked, Creating, Ending
<1>5. HRequests
  BY <1>1, <1>2, <1>3, <1>4, HttpAssumption DEF HRequests
<1>6. OpenSessions = {} /\ \A o : OwnedBy(sessions, o) = {}
  BY <1>1 DEF OwnedBy
<1>7. HSessions
  <2>1. sessions \in [OpenSessions -> HSession]
    BY <1>1, <1>6
  <2>2. OpenSessions \subseteq 1..issued /\ \A id \in OpenSessions : FALSE
    BY <1>6
  <2>3. Cardinality(OpenSessions) <= GlobalCap /\ \A o \in Owners : Cardinality(OwnedBy(sessions, o)) <= OwnerCap
    <3>1. Cardinality(OpenSessions) = 0
      BY <1>3, <1>6
    <3>2. ASSUME NEW o \in Owners
          PROVE  Cardinality(OwnedBy(sessions, o)) = 0
      <4>1. OwnedBy(sessions, o) = {}
        BY <1>6
      <4> QED
        BY <1>3, <4>1
    <3>3. 0 <= GlobalCap /\ 0 <= OwnerCap
      BY HttpAssumption
    <3> QED
      BY <3>1, <3>2, <3>3
  <2> QED
    BY <2>1, <2>2, <2>3 DEF HSessions
<1>8. HTimers
  BY <1>1, HttpAssumption DEF HTimers, Off
<1>9. HEnds
  <2>1. ASSUME NEW id \in SessionIds
        PROVE  over[id] + Cardinality(Ending(id)) = IF id <= issued /\ id \notin OpenSessions THEN 1 ELSE 0
    <3>1. over[id] = 0 /\ Cardinality(Ending(id)) = 0 /\ ~(id <= issued)
      <4>1. Ending(id) = {}
        BY <1>4
      <4>2. Cardinality(Ending(id)) = 0
        BY <1>3, <4>1
      <4>3. over[id] = 0 /\ ~(id <= issued)
        BY <1>1, HttpAssumption DEF SessionIds
      <4> QED
        BY <4>2, <4>3
    <3> QED
      BY <3>1
  <2> QED
    BY <1>1, <2>1 DEF HEnds
<1> QED
  BY <1>5, <1>7, <1>8, <1>9 DEF HInv

LEMMA HttpStateIsRight == HInv => HttpTypeOK /\ SessionsEndOnce
<1> SUFFICES ASSUME HInv PROVE HttpTypeOK /\ SessionsEndOnce
  OBVIOUS
<1>1. OpenSessions \subseteq SessionIds
  BY FewRequests, HttpAssumption DEF HInv, HRequests, HSessions, SessionIds
<1>2. \A o \in Owners : Cardinality({id \in OpenSessions : sessions[id].owner = o}) <= OwnerCap
  BY DEF HInv, HSessions, OwnedBy
<1>3. HttpTypeOK
  BY <1>1, <1>2 DEF HttpTypeOK, HInv, HRequests, HRequest, HSessions, HSession, HTimers
<1>4. SessionsEndOnce
  BY DEF HInv, HEnds, Ending, SessionsEndOnce
<1> QED
  BY <1>3, <1>4

\* Only what has been idle for long leaves the map, or what was deleted.
LEMMA IdleOnesLeave ==
  ASSUME HInv, [HttpNext]_httpVars
  PROVE  OnlyIdleSessionsExpire
<1>1. SUFFICES ASSUME NEW id \in OpenSessions \ DOMAIN sessions'
               PROVE  \/ sessions[id].age >= TTL
                      \/ \E r \in HttpRequests : request'[r].at = "ending" /\ request'[r].id = id
  <2>1. ASSUME NEW id \in OpenSessions, sessions[id].age >= TTL
        PROVE  sessions[id].idle + MaxLag >= TTL
    <3>1. /\ sessions[id].age \in Nat /\ sessions[id].idle \in Nat
          /\ sessions[id].age <= sessions[id].idle + MaxLag
      BY HttpAssumption DEF HInv, HSessions, HSession, MaxAge
    <3> QED
      BY <2>1, <3>1, HttpAssumption
  <2> QED
    BY <1>1, <2>1 DEF OnlyIdleSessionsExpire
<1>2. ASSUME NEW lag \in 0..MaxLag, id \in Stale(lag)
      PROVE  sessions[id].age >= TTL
  <2>1. sessions[id].age \in Nat /\ sessions[id].age >= TTL + lag
    BY <1>2, HttpAssumption DEF HInv, HSessions, HSession, MaxAge, Stale
  <2> QED
    BY <2>1, HttpAssumption
<1>3. ASSUME NEW S, sessions' = OpenBut(S)
      PROVE  id \in S
  BY <1>3 DEF OpenBut
<1>4. ASSUME NEW r \in HttpRequests, Create(r)
      PROVE  id \in Stale(request[r].lag)
  <2>1. id \notin DOMAIN OpenBut(Stale(request[r].lag))
    BY <1>4 DEF Create
  <2> QED
    BY <2>1 DEF OpenBut
<1>5. ASSUME NEW r \in HttpRequests, Get(r)
      PROVE  id \in Stale(request[r].lag)
  <2>1. id \notin DOMAIN OpenBut(Stale(request[r].lag))
    BY <1>5 DEF Get
  <2> QED
    BY <2>1 DEF OpenBut
<1>6. ASSUME NEW r \in HttpRequests, Delete(r)
      PROVE  request'[r].at = "ending" /\ request'[r].id = id
  <2> DEFINE mine == {request[r].id} \cap {i \in OpenSessions : sessions[i].owner = request[r].owner}
  <2>1. id \in mine
    BY <1>3, <1>6 DEF Delete
  <2>2. request' = [request EXCEPT ![r] = [request[r] EXCEPT !.at = "ending"]]
    BY <1>6, <2>1 DEF Delete
  <2>3. request[r] \in HRequest /\ request \in [HttpRequests -> HRequest] /\ id = request[r].id
    BY <2>1 DEF HInv, HRequests
  <2> QED
    BY <2>2, <2>3 DEF HRequest
<1>7. \A r \in HttpRequests : request[r].lag \in 0..MaxLag
  BY DEF HInv, HRequests, HRequest
<1>8. ASSUME NEW i \in SessionIds, TimerStep(i)
      PROVE  sessions[id].age >= TTL
  BY <1>1, <1>3, <1>8 DEF TimerStep, GoesOff, Expire
<1>9. CASE \E r \in HttpRequests : Answer(r)
  BY <1>1, <1>2, <1>4, <1>5, <1>6, <1>7, <1>9 DEF Answer, OnStart, OnEnd
<1>10. CASE TimePasses
  BY <1>1, <1>10 DEF TimePasses
<1>11. CASE \E r \in HttpRequests, op \in {"create", "get", "delete"},
               i \in SessionIds \cup {NoId}, owner \in Owners : Ask(r, op, i, owner)
  BY <1>1, <1>11 DEF Ask
<1>12. CASE UNCHANGED httpVars
  BY <1>1, <1>12 DEF httpVars
<1> QED
  BY <1>8, <1>9, <1>10, <1>11, <1>12 DEF HttpNext

\* The sessions of the HTTP API (mcp_http_sessions.go): whatever timers,
\* prunings, deletions and uses meet, a session ends once, and only when it was
\* deleted or idle for its time to live less the wait of a request; and there
\* are never more than the caps allow.
THEOREM SessionsEndAsTheyShould == HttpSpec => SessionsEndRightly
<1> DEFINE Good == HttpTypeOK' /\ SessionsEndOnce' /\ OnlyIdleSessionsExpire
<1>1. HInv /\ [HttpNext]_httpVars => HInv'
  BY HttpStep
<1>2. HInv /\ HInv' /\ [HttpNext]_httpVars => [Good]_httpVars
  <2> SUFFICES ASSUME HInv, HInv', [HttpNext]_httpVars PROVE Good
    OBVIOUS
  <2>1. (HttpTypeOK /\ SessionsEndOnce)'
    BY HttpStateIsRight, PTL
  <2> QED
    BY <2>1, IdleOnesLeave
<1> HIDE DEF Good
<1>3. HttpSpec => [][Good]_httpVars
  BY HttpBegins, <1>1, <1>2, PTL DEF HttpSpec
<1> QED
  BY <1>3 DEF SessionsEndRightly, Good
=============================================================================
