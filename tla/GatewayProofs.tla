--------------------------- MODULE GatewayProofs ----------------------------
(***************************************************************************)
(* Proofs about the gateway, for any number of requests and readings and   *)
(* any limits: its invariant, that readings are cached only once stored,   *)
(* that a nonce is accepted only once in its lifetime and that no Window   *)
(* admits twice the limit, in both cases apart from the requests whose key *)
(* Redis evicted.                                                          *)
(***************************************************************************)
EXTENDS Gateway, FiniteSetTheorems, TLAPS

\* The initial states are well typed.
LEMMA InitTypes == Init => TypeOK
<1>. SUFFICES ASSUME Init PROVE TypeOK
  OBVIOUS
<1>1. age \in [Msg -> Ages]
  BY GatewayAssumption DEF Init, Ages
<1>2. counter \in [n : Nat, ttl : 0..Window] /\ nonce \in [Msg -> 0..NonceTTL]
  BY GatewayAssumption DEF Init, Absent
<1>. QED  BY <1>1, <1>2, GatewayAssumption DEF Init, TypeOK, Stages

\* The assumptions on the constants, one by one.
LEMMA Limits ==
  /\ Limit \in Nat /\ Window \in Nat /\ NonceTTL \in Nat /\ MaxDrift \in Nat
  /\ Limit > 0 /\ Window > 0 /\ NonceTTL > 0 /\ MaxDrift > 0
  /\ None \notin Session /\ None \notin Msg
<1>1. /\ Limit \in Nat \ {0} /\ Window \in Nat \ {0}
      /\ NonceTTL \in Nat \ {0} /\ MaxDrift \in Nat \ {0}
  BY GatewayAssumption
<1>. QED  BY <1>1, GatewayAssumption

\* A request that moves on keeps the stages and readings well typed.
LEMMA Moves ==
  ASSUME TypeOK, NEW s \in Session, NEW from, NEW to \in Stages \union Ended,
         Move(s, from, to), from # "new", msg' = msg
  PROVE  /\ at' \in [Session -> {"new"} \union Stages \union Ended]
         /\ \A r \in Session : at'[r] = "new" <=> msg'[r] = None
  BY DEF TypeOK, Move, Stages, Ended

\* So does one that the rate limit lets through or refuses.
LEMMA Admits ==
  ASSUME TypeOK, NEW s \in Session, NEW n \in Nat, Admit(s, n), at[s] # "new", msg' = msg
  PROVE  /\ at' \in [Session -> {"new"} \union Stages \union Ended]
         /\ \A r \in Session : at'[r] = "new" <=> msg'[r] = None
         /\ admitted' \in [Session -> 0..Window]
<1>1. admitted' \in [Session -> 0..Window]
  <2>1. admitted \in [Session -> 0..Window] /\ 0 \in 0..Window
    BY Limits DEF TypeOK
  <2>2. admitted' = admitted \/ admitted' = [admitted EXCEPT ![s] = 0]
    BY DEF Admit
  <2>. QED  BY <2>1, <2>2
<1>2. \E to \in {"rejected", "stamping"} : Move(s, at[s], to)
  BY DEF Admit
<1>. QED  BY <1>1, <1>2, Moves DEF Stages, Ended

\* Every step keeps the types.
LEMMA NextTypes == TypeOK /\ [Next]_vars => TypeOK'
<1> SUFFICES ASSUME TypeOK, [Next]_vars PROVE TypeOK'
  OBVIOUS
<1>1. ASSUME NEW s \in Session, FindDevice(s) PROVE TypeOK'
  <2>1. PICK m \in Msg : msg' = [msg EXCEPT ![s] = m]
    BY <1>1 DEF FindDevice
  <2>2. PICK to \in {"counting", "rejected"} : at' = [at EXCEPT ![s] = to]
    BY <1>1 DEF FindDevice, Move
  <2>3. /\ at' \in [Session -> {"new"} \union Stages \union Ended]
        /\ msg' \in [Session -> Msg \union {None}]
    BY <2>1, <2>2 DEF TypeOK, Stages, Ended
  <2>4. ASSUME NEW r \in Session PROVE at'[r] = "new" <=> msg'[r] = None
    BY <2>1, <2>2, <1>1, Limits DEF FindDevice, Move, TypeOK
  <2>. QED  BY <1>1, <2>3, <2>4 DEF FindDevice, redis, timers, ghosts, TypeOK
<1>2. ASSUME NEW s \in Session, Count(s) PROVE TypeOK'
  <2>1. counter' \in [n : Nat, ttl : 0..Window] /\ counter'.n \in Nat
    <3>1. counter \in [n : Nat, ttl : 0..Window] /\ counter.n + 1 \in Nat
      BY DEF TypeOK
    <3>2. counter' = [counter EXCEPT !.n = counter.n + 1]
      BY <1>2 DEF Count
    <3>. QED  BY <3>1, <3>2
  <2>2. CASE counter'.n = 1
    <3>1. Move(s, "counting", "expiring") /\ admitted' = admitted
      BY <1>2, <2>2 DEF Count
    <3>. QED  BY <1>2, <2>1, <3>1, Moves DEF Count, ghosts, TypeOK, Stages
  <2>3. CASE counter'.n # 1
    <3>1. Admit(s, counter'.n) /\ at[s] # "new" /\ msg' = msg
      BY <1>2, <2>3 DEF Count
    <3>. QED  BY <1>2, <2>1, <3>1, Admits DEF Count, ghosts, TypeOK
  <2>. QED  BY <2>2, <2>3
<1>3. ASSUME NEW s \in Session, Expire(s) PROVE TypeOK'
  <2>1. counter' \in [n : Nat, ttl : 0..Window]
    <3>1. counter \in [n : Nat, ttl : 0..Window] /\ counter.ttl \in 0..Window /\ Window \in 0..Window
      BY Limits DEF TypeOK
    <3>2. counter' = [counter EXCEPT !.ttl = IF counter.n > 0 THEN Window ELSE counter.ttl]
      BY <1>3 DEF Expire
    <3>. QED  BY <3>1, <3>2
  <2>2. Admit(s, 1) /\ at[s] # "new" /\ msg' = msg
    BY <1>3 DEF Expire
  <2>. QED  BY <1>3, <2>1, <2>2, Admits DEF Expire, ghosts, TypeOK
<1>4. ASSUME NEW s \in Session, CheckTimestamp(s) PROVE TypeOK'
  <2>1. \E to \in {"spending", "rejected"} : Move(s, "stamping", to)
    BY <1>4 DEF CheckTimestamp
  <2>. QED  BY <1>4, <2>1, Moves DEF CheckTimestamp, redis, timers, ghosts, TypeOK, Stages, Ended
<1>5. ASSUME NEW s \in Session, SpendNonce(s) PROVE TypeOK'
  <2>1. \E to \in {"verifying", "rejected"} : Move(s, "spending", to)
    BY <1>5 DEF SpendNonce
  <2>2. nonce' \in [Msg -> 0..NonceTTL] /\ spent' \in [Session -> 0..NonceTTL]
    <3>1. /\ nonce \in [Msg -> 0..NonceTTL] /\ spent \in [Session -> 0..NonceTTL]
          /\ 0 \in 0..NonceTTL /\ NonceTTL \in 0..NonceTTL
      BY Limits DEF TypeOK
    <3>2. \/ /\ nonce' = [nonce EXCEPT ![msg[s]] = NonceTTL]
             /\ spent' = [spent EXCEPT ![s] = 0]
          \/ nonce' = nonce /\ spent' = spent
      BY <1>5 DEF SpendNonce
    <3>. QED  BY <3>1, <3>2
  <2>. QED  BY <1>5, <2>1, <2>2, Moves DEF SpendNonce, ghosts, TypeOK, Stages, Ended
<1>6. ASSUME NEW s \in Session, VerifySignature(s) PROVE TypeOK'
  <2>1. \E to \in {"storing", "rejected"} : Move(s, "verifying", to)
    BY <1>6 DEF VerifySignature
  <2>. QED  BY <1>6, <2>1, Moves DEF VerifySignature, redis, timers, ghosts, TypeOK, Stages, Ended
<1>7. ASSUME NEW s \in Session, StoreReading(s) PROVE TypeOK'
  <2>1. \E to \in {"caching", "failed"} : Move(s, "storing", to)
    BY <1>7 DEF StoreReading
  <2>2. rows' \in Seq(Session)
    <3>1. rows \in Seq(Session)
      BY DEF TypeOK
    <3>2. rows' = Append(rows, s) \/ rows' = rows
      BY <1>7 DEF StoreReading
    <3>. QED  BY <3>1, <3>2
  <2>. QED  BY <1>7, <2>1, <2>2, Moves DEF StoreReading, redis, timers, ghosts, TypeOK, Stages, Ended
<1>8. ASSUME NEW s \in Session, CacheReading(s) PROVE TypeOK'
  BY <1>8, Moves DEF CacheReading, timers, ghosts, TypeOK, Ended
<1>9. ASSUME NEW s \in Session, Crash(s) PROVE TypeOK'
  <2>1. Move(s, at[s], "failed") /\ at[s] # "new"
    BY <1>9 DEF Crash, Move, Stages
  <2>. QED  BY <1>9, <2>1, Moves DEF Crash, redis, timers, ghosts, TypeOK, Ended
<1>10. CASE Evict
  <2>1. counter' \in [n : Nat, ttl : 0..Window] /\ latest' \in Session \union {None}
    BY <1>10, Limits DEF Evict, Absent, TypeOK
  <2>3. uncounted' \subseteq Session /\ unspent' \subseteq Session
    BY <1>10 DEF Evict, ghosts, TypeOK
  <2>2. nonce' \in [Msg -> 0..NonceTTL]
    <3>1. nonce' = nonce \/ \E m \in Msg : nonce' = [nonce EXCEPT ![m] = 0]
      BY <1>10 DEF Evict
    <3>2. CASE nonce' = nonce
      BY <3>2 DEF TypeOK
    <3>3. ASSUME NEW m \in Msg, nonce' = [nonce EXCEPT ![m] = 0] PROVE nonce' \in [Msg -> 0..NonceTTL]
      BY <3>3, Limits DEF TypeOK
    <3>. QED  BY <3>1, <3>2, <3>3
  <2>. QED  BY <1>10, <2>1, <2>2, <2>3 DEF Evict, timers, TypeOK
<1>11. CASE CacheExpires
  BY <1>11 DEF CacheExpires, timers, ghosts, TypeOK
<1>12. CASE Tick
  <2>1. nonce' \in [Msg -> 0..NonceTTL]
    BY <1>12, Limits DEF Tick, Down, TypeOK
  <2>2. age' \in [Msg -> Ages]
    BY <1>12, Limits DEF Tick, Upto, Ages, TypeOK
  <2>3. admitted' \in [Session -> 0..Window] /\ spent' \in [Session -> 0..NonceTTL]
    BY <1>12, Limits DEF Tick, Upto, TypeOK
  <2>5. uncounted' \subseteq Session /\ unspent' \subseteq Session
    BY <1>12 DEF Tick, TypeOK
  <2>4. counter' \in [n : Nat, ttl : 0..Window]
    <3>1. counter \in [n : Nat, ttl : 0..Window] /\ counter.ttl \in 0..Window /\ Window \in Nat
      BY Limits DEF TypeOK
    <3>2. Down(counter.ttl) \in 0..Window
      BY <3>1 DEF Down
    <3>3. Absent \in [n : Nat, ttl : 0..Window]
      BY <3>1 DEF Absent
    <3>. QED  BY <1>12, <3>1, <3>2, <3>3 DEF Tick, Aged
  <2>. QED  BY <1>12, <2>1, <2>2, <2>3, <2>4, <2>5 DEF Tick, TypeOK
<1>13. CASE UNCHANGED vars
  BY <1>13 DEF vars, TypeOK
<1>. QED  BY <1>1, <1>2, <1>3, <1>4, <1>5, <1>6, <1>7, <1>8, <1>9, <1>10, <1>11, <1>12, <1>13
     DEF Next, Step

\* The variables of the gateway keep their types.
THEOREM GatewayTypes == Spec => []TypeOK
<1>. QED  BY InitTypes, NextTypes, PTL DEF Spec

\* What a step does to the nonces: time passes; or one request that was at the
\* check spends an absent nonce; or some nonces are evicted; or nothing.
LEMMA NonceSteps ==
  ASSUME TypeOK, [Next]_vars
  PROVE  \/ Tick
         \/ \E s \in Session :
              /\ at[s] = "spending" /\ msg' = msg /\ msg[s] \in Msg /\ nonce[msg[s]] = 0
              /\ nonce' = [nonce EXCEPT ![msg[s]] = NonceTTL]
              /\ spent' = [spent EXCEPT ![s] = 0] /\ unspent' = unspent
         \/ \E m \in Msg :
              /\ spent' = spent /\ msg' = msg /\ nonce' = [nonce EXCEPT ![m] = 0]
              /\ unspent' = unspent \union {s \in Session : msg[s] = m /\ spent[s] < NonceTTL}
         \/ /\ spent' = spent /\ nonce' = nonce /\ unspent' = unspent
            /\ \A s \in Session : msg'[s] = msg[s] \/ msg[s] = None
<1>1. ASSUME NEW s \in Session, FindDevice(s)
      PROVE  /\ spent' = spent /\ nonce' = nonce /\ unspent' = unspent
             /\ \A r \in Session : msg'[r] = msg[r] \/ msg[r] = None
  <2>1. msg[s] = None
    BY <1>1 DEF FindDevice, Move, TypeOK
  <2>2. PICK m \in Msg : msg' = [msg EXCEPT ![s] = m]
    BY <1>1 DEF FindDevice
  <2>. QED  BY <1>1, <2>1, <2>2 DEF FindDevice, redis, timers, ghosts, TypeOK
<1>2. ASSUME NEW s \in Session, SpendNonce(s)
      PROVE  \/ /\ at[s] = "spending" /\ msg' = msg /\ msg[s] \in Msg /\ nonce[msg[s]] = 0
                /\ nonce' = [nonce EXCEPT ![msg[s]] = NonceTTL]
                /\ spent' = [spent EXCEPT ![s] = 0] /\ unspent' = unspent
             \/ spent' = spent /\ nonce' = nonce /\ msg' = msg /\ unspent' = unspent
  BY <1>2 DEF SpendNonce, ghosts, TypeOK
<1>3. ASSUME NEW s \in Session,
             \/ Count(s) \/ Expire(s) \/ CheckTimestamp(s) \/ VerifySignature(s)
             \/ StoreReading(s) \/ CacheReading(s) \/ Crash(s)
      PROVE  spent' = spent /\ nonce' = nonce /\ msg' = msg /\ unspent' = unspent
  BY <1>3 DEF Count, Expire, CheckTimestamp, VerifySignature, StoreReading, CacheReading, Crash,
              redis, timers, ghosts
<1>4. CASE Evict
  BY <1>4 DEF Evict, timers, ghosts
<1>5. CASE CacheExpires
  BY <1>5 DEF CacheExpires, timers, ghosts
<1>6. CASE UNCHANGED vars
  BY <1>6 DEF vars
<1>. QED  BY <1>1, <1>2, <1>3, <1>4, <1>5, <1>6 DEF Next, Step

\* Only its own commit takes a request to the cache, and rows only grow.
LEMMA RowSteps ==
  ASSUME TypeOK, [Next]_vars
  PROVE  /\ \A i \in DOMAIN rows : i \in DOMAIN rows' /\ rows'[i] = rows[i]
         /\ \A s \in Session : at'[s] = "caching" =>
              at[s] = "caching" \/ \E i \in DOMAIN rows' : rows'[i] = s
         /\ (latest' # latest /\ latest' # None) => at[latest'] = "caching" /\ latest' \in Session
<1>1. ASSUME NEW s \in Session, StoreReading(s)
      PROVE  /\ \A i \in DOMAIN rows : i \in DOMAIN rows' /\ rows'[i] = rows[i]
             /\ \A r \in Session : at'[r] = "caching" =>
                  at[r] = "caching" \/ \E i \in DOMAIN rows' : rows'[i] = r
             /\ latest' = latest
  <2>1. rows \in Seq(Session) /\ at \in [Session -> {"new"} \union Stages \union Ended]
    BY DEF TypeOK
  <2>2. CASE Move(s, "storing", "caching") /\ rows' = Append(rows, s)
    <3>1. /\ \A i \in DOMAIN rows : i \in DOMAIN rows' /\ rows'[i] = rows[i]
          /\ Len(rows) + 1 \in DOMAIN rows' /\ rows'[Len(rows) + 1] = s
      BY <2>1, <2>2
    <3>2. \A r \in Session : r # s => at'[r] = at[r]
      BY <2>1, <2>2 DEF Move
    <3>. QED  BY <1>1, <3>1, <3>2 DEF StoreReading, redis
  <2>3. CASE Move(s, "storing", "failed") /\ UNCHANGED rows
    BY <1>1, <2>1, <2>3 DEF Move, StoreReading, redis
  <2>. QED  BY <1>1, <2>2, <2>3 DEF StoreReading
<1>2. ASSUME NEW s \in Session, CacheReading(s)
      PROVE  /\ rows' = rows
             /\ \A r \in Session : at'[r] = "caching" => at[r] = "caching"
             /\ at[latest'] = "caching" /\ latest' \in Session
  BY <1>2 DEF CacheReading, Move, TypeOK
<1>3. ASSUME NEW s \in Session, Count(s) \/ Expire(s)
      PROVE  /\ rows' = rows /\ latest' = latest
             /\ \A r \in Session : at'[r] = "caching" => at[r] = "caching"
  BY <1>3 DEF Count, Expire, Admit, Move, TypeOK
<1>4. ASSUME NEW s \in Session,
             FindDevice(s) \/ CheckTimestamp(s) \/ SpendNonce(s) \/ VerifySignature(s) \/ Crash(s)
      PROVE  /\ rows' = rows /\ latest' = latest
             /\ \A r \in Session : at'[r] = "caching" => at[r] = "caching"
  BY <1>4 DEF FindDevice, CheckTimestamp, SpendNonce, VerifySignature, Crash, Move, TypeOK,
              redis, timers, ghosts
<1>5. ASSUME Evict \/ CacheExpires \/ Tick \/ UNCHANGED vars
      PROVE  rows' = rows /\ at' = at /\ (latest' = latest \/ latest' = None)
  BY <1>5 DEF Evict, CacheExpires, Tick, vars
<1>6. \A i \in DOMAIN rows : i \in DOMAIN rows' /\ rows'[i] = rows[i]
  BY <1>1, <1>2, <1>3, <1>4, <1>5 DEF Next, Step
<1>7. ASSUME NEW s \in Session, at'[s] = "caching", at[s] # "caching"
      PROVE  \E i \in DOMAIN rows' : rows'[i] = s
  BY <1>1, <1>2, <1>3, <1>4, <1>5, <1>7 DEF Next, Step
<1>8. (latest' # latest /\ latest' # None) => at[latest'] = "caching" /\ latest' \in Session
  BY <1>1, <1>2, <1>3, <1>4, <1>5 DEF Next, Step
<1>. QED  BY <1>6, <1>7, <1>8

\* A nonce key in Redis was set by a request that was accepted, as long ago as
\* its ttl has run down, and a reading waiting to be cached is stored: with
\* evictions, crashes and any interleaving of the requests.
THEOREM GatewayInvariant == Spec => []GatewayInv
<1>1. Init => GatewayInv
  <2>. SUFFICES ASSUME Init PROVE GatewayInv
    OBVIOUS
  <2>1. TypeOK
    BY InitTypes
  <2>2. NoncesSpentByRequests /\ CachingStored
    BY DEF Init, NoncesSpentByRequests, CachingStored
  <2>. QED  BY <2>1, <2>2 DEF GatewayInv
<1>2. GatewayInv /\ [Next]_vars => GatewayInv'
  <2>. SUFFICES ASSUME GatewayInv, [Next]_vars PROVE GatewayInv'
    OBVIOUS
  <2>1. TypeOK /\ TypeOK'
    BY NextTypes DEF GatewayInv
  <2>2. NoncesSpentByRequests'
    <3>. SUFFICES ASSUME NEW m \in Msg, nonce'[m] > 0
                  PROVE  \E s \in Session : msg'[s] = m /\ spent'[s] = NonceTTL - nonce'[m]
      BY DEF NoncesSpentByRequests
    <3>1. CASE Tick
      <4>1. nonce[m] \in Nat /\ nonce[m] > 0 /\ nonce'[m] = nonce[m] - 1
        BY <2>1, <3>1, Limits DEF Tick, Down, TypeOK
      <4>2. PICK s \in Session : msg[s] = m /\ spent[s] = NonceTTL - nonce[m]
        BY <4>1 DEF GatewayInv, NoncesSpentByRequests
      <4>3. spent'[s] = spent[s] + 1
        BY <3>1, <4>1, <4>2, Limits DEF Tick, Upto
      <4>. QED  BY <3>1, <4>1, <4>2, <4>3, Limits DEF Tick
    <3>2. ASSUME NEW s \in Session,
                 at[s] = "spending", msg' = msg, msg[s] \in Msg, nonce[msg[s]] = 0,
                 nonce' = [nonce EXCEPT ![msg[s]] = NonceTTL], spent' = [spent EXCEPT ![s] = 0]
          PROVE  \E r \in Session : msg'[r] = m /\ spent'[r] = NonceTTL - nonce'[m]
      <4>1. CASE m = msg[s]
        BY <2>1, <3>2, <4>1, Limits DEF TypeOK
      <4>2. CASE m # msg[s]
        <5>1. nonce'[m] = nonce[m]
          BY <2>1, <3>2, <4>2 DEF TypeOK
        <5>2. PICK r \in Session : msg[r] = m /\ spent[r] = NonceTTL - nonce[m]
          BY <5>1 DEF GatewayInv, NoncesSpentByRequests
        <5>. QED  BY <2>1, <3>2, <4>2, <5>1, <5>2 DEF TypeOK
      <4>. QED  BY <4>1, <4>2
    <3>3. ASSUME spent' = spent, nonce'[m] = nonce[m],
                 \A s \in Session : msg'[s] = msg[s] \/ msg[s] = None
          PROVE  \E r \in Session : msg'[r] = m /\ spent'[r] = NonceTTL - nonce'[m]
      BY <3>3, Limits DEF GatewayInv, NoncesSpentByRequests
    <3>4. ASSUME NEW n \in Msg, nonce' = [nonce EXCEPT ![n] = 0] PROVE nonce'[m] = nonce[m]
      BY <2>1, <3>4 DEF TypeOK
    <3>. QED  BY <2>1, <3>1, <3>2, <3>3, <3>4, NonceSteps
  <2>3. CachingStored'
    BY <2>1, RowSteps DEF GatewayInv, CachingStored
  <2>. QED  BY <2>1, <2>2, <2>3 DEF GatewayInv
<1>. QED  BY <1>1, <1>2, PTL DEF Spec

\* The dashboard's cached reading is always one of sensor_data.
THEOREM CachedStored == Spec => []CachedReadingsStored
<1>1. Init => CachedReadingsStored
  BY DEF Init, CachedReadingsStored
<1>2. GatewayInv /\ CachedReadingsStored /\ [Next]_vars => CachedReadingsStored'
  <2>. SUFFICES ASSUME GatewayInv, CachedReadingsStored, [Next]_vars, latest' # None
                PROVE  \E i \in DOMAIN rows' : rows'[i] = latest'
    BY DEF CachedReadingsStored
  <2>1. \E i \in DOMAIN rows : rows[i] = latest'
    BY RowSteps DEF GatewayInv, CachedReadingsStored, CachingStored
  <2>. QED  BY <2>1, RowSteps DEF GatewayInv
<1>. QED  BY <1>1, <1>2, GatewayInvariant, PTL DEF Spec

\* Two requests with the same reading are accepted within NonceTTL only when
\* Redis evicted the nonce after the first: it stays spent for all of that time
\* for every request but those.
THEOREM NonceSpentOnce == Spec => []NoncesApart
<1> DEFINE Named == \A s \in Session : spent[s] < NonceTTL => msg[s] # None
           Inv == Named /\ SpentNoncesHeld /\ NoncesApart
<1>1. Init => Inv
  <2>. SUFFICES ASSUME Init PROVE Inv
    OBVIOUS
  <2>1. \A s \in Session : spent[s] = NonceTTL
    BY DEF Init
  <2>. QED  BY <2>1, Limits DEF SpentNoncesHeld, NoncesApart
<1>2. TypeOK /\ Inv /\ [Next]_vars => Inv'
  <2>. SUFFICES ASSUME TypeOK, Inv, [Next]_vars PROVE Inv'
    OBVIOUS
  <2>1. CASE Tick
    <3>1. ASSUME NEW s \in Session, spent'[s] < NonceTTL
          PROVE  /\ spent[s] \in Nat /\ spent[s] < NonceTTL /\ spent'[s] = spent[s] + 1
                 /\ s \in unspent' <=> s \in unspent
      <4>1. spent[s] \in Nat /\ spent[s] < NonceTTL /\ spent'[s] = spent[s] + 1
        BY <2>1, <3>1, Limits DEF Tick, Upto, TypeOK
      <4>. QED  BY <2>1, <3>1, <4>1, Limits DEF Tick
    <3>2. SpentNoncesHeld'
      <4>. SUFFICES ASSUME NEW s \in Session, s \notin unspent', spent'[s] < NonceTTL
                    PROVE  msg[s] # None /\ nonce'[msg[s]] = NonceTTL - spent'[s]
        BY <2>1 DEF SpentNoncesHeld, Tick
      <4>1. msg[s] \in Msg /\ nonce[msg[s]] = NonceTTL - spent[s]
        BY <3>1 DEF SpentNoncesHeld, TypeOK
      <4>. QED  BY <2>1, <3>1, <4>1, Limits DEF Tick, Down
    <3>3. NoncesApart'
      <4>. SUFFICES ASSUME NEW s \in Session, NEW t \in Session, s # t, msg[s] = msg[t],
                           spent'[s] < NonceTTL, spent'[t] <= spent'[s]
                    PROVE  s \in unspent' \/ (spent'[t] = spent'[s] /\ t \in unspent')
        BY <2>1 DEF NoncesApart, Tick
      <4>1. spent'[t] < NonceTTL
        <5>1. spent'[t] \in 0..NonceTTL /\ spent'[s] \in 0..NonceTTL
          BY NextTypes DEF TypeOK
        <5>. QED  BY <5>1, Limits
      <4>2. spent[s] < NonceTTL /\ spent[t] <= spent[s]
        BY <3>1, <4>1
      <4>3. s \in unspent \/ (spent[t] = spent[s] /\ t \in unspent)
        BY <4>2 DEF NoncesApart
      <4>. QED  BY <3>1, <4>1, <4>3
    <3>4. Named'
      BY <2>1, <3>1 DEF Tick
    <3>. QED  BY <3>2, <3>3, <3>4
  <2>2. ASSUME NEW s \in Session,
               at[s] = "spending", msg' = msg, msg[s] \in Msg, nonce[msg[s]] = 0,
               nonce' = [nonce EXCEPT ![msg[s]] = NonceTTL], spent' = [spent EXCEPT ![s] = 0],
               unspent' = unspent
        PROVE  Inv'
    <3>1. spent'[s] = 0 /\ \A t \in Session : t # s => spent'[t] = spent[t]
      BY <2>2 DEF TypeOK
    <3>2. \A t \in Session : msg[t] = msg[s] /\ spent[t] < NonceTTL => t \in unspent
      <4>. SUFFICES ASSUME NEW t \in Session, msg[t] = msg[s], spent[t] < NonceTTL, t \notin unspent
                    PROVE  FALSE
        OBVIOUS
      <4>1. spent[t] \in 0..NonceTTL /\ nonce[msg[t]] = NonceTTL - spent[t]
        BY DEF SpentNoncesHeld, TypeOK
      <4>. QED  BY <2>2, <4>1, Limits
    <3>3. SpentNoncesHeld'
      <4>. SUFFICES ASSUME NEW t \in Session, t \notin unspent, spent'[t] < NonceTTL
                    PROVE  msg[t] # None /\ nonce'[msg[t]] = NonceTTL - spent'[t]
        BY <2>2 DEF SpentNoncesHeld
      <4>1. CASE t = s
        BY <2>2, <4>1, Limits DEF TypeOK
      <4>2. CASE t # s
        <5>1. msg[t] # None /\ nonce[msg[t]] = NonceTTL - spent[t] /\ msg[t] # msg[s]
          BY <3>1, <3>2, <4>2, Limits DEF SpentNoncesHeld
        <5>. QED  BY <2>2, <3>1, <4>2, <5>1 DEF TypeOK
      <4>. QED  BY <4>1, <4>2
    <3>4. NoncesApart'
      <4>. SUFFICES ASSUME NEW r \in Session, NEW t \in Session, r # t, msg[r] = msg[t],
                           spent'[r] < NonceTTL, spent'[t] <= spent'[r]
                    PROVE  r \in unspent \/ (spent'[t] = spent'[r] /\ t \in unspent)
        BY <2>2 DEF NoncesApart
      <4>1. spent[r] \in 0..NonceTTL /\ spent[t] \in 0..NonceTTL
        BY DEF TypeOK
      <4>2. CASE r = s
        BY <3>1, <3>2, <4>1, <4>2, Limits
      <4>3. CASE t = s
        BY <3>1, <3>2, <4>1, <4>3, Limits
      <4>4. CASE r # s /\ t # s
        BY <3>1, <4>4 DEF NoncesApart
      <4>. QED  BY <4>2, <4>3, <4>4
    <3>5. Named'
      BY <2>2, <3>1 DEF TypeOK
    <3>. QED  BY <3>3, <3>4, <3>5
  <2>3. ASSUME NEW m \in Msg, spent' = spent, msg' = msg, nonce' = [nonce EXCEPT ![m] = 0],
               unspent' = unspent \union {s \in Session : msg[s] = m /\ spent[s] < NonceTTL}
        PROVE  Inv'
    <3>1. SpentNoncesHeld'
      <4>. SUFFICES ASSUME NEW s \in Session, s \notin unspent', spent[s] < NonceTTL
                    PROVE  msg[s] # None /\ nonce'[msg[s]] = NonceTTL - spent[s]
        BY <2>3 DEF SpentNoncesHeld
      <4>1. s \notin unspent /\ msg[s] # m
        BY <2>3
      <4>2. msg[s] # None /\ nonce[msg[s]] = NonceTTL - spent[s]
        BY <4>1 DEF SpentNoncesHeld
      <4>. QED  BY <2>3, <4>1, <4>2 DEF TypeOK
    <3>2. NoncesApart'
      BY <2>3 DEF NoncesApart
    <3>. QED  BY <2>3, <3>1, <3>2
  <2>4. ASSUME spent' = spent, nonce' = nonce, unspent' = unspent,
               \A s \in Session : msg'[s] = msg[s] \/ msg[s] = None
        PROVE  Inv'
    <3>1. \A s \in Session : spent[s] < NonceTTL => msg'[s] = msg[s] /\ msg[s] # None
      BY <2>4
    <3>2. \A s \in Session : spent[s] \in 0..NonceTTL
      BY DEF TypeOK
    <3>3. Named' /\ SpentNoncesHeld'
      BY <2>4, <3>1 DEF SpentNoncesHeld
    <3>4. NoncesApart'
      <4>. SUFFICES ASSUME NEW s \in Session, NEW t \in Session, s # t, msg'[s] = msg'[t],
                           spent[s] < NonceTTL, spent[t] <= spent[s]
                    PROVE  s \in unspent \/ (spent[t] = spent[s] /\ t \in unspent)
        BY <2>4 DEF NoncesApart
      <4>1. spent[t] < NonceTTL
        BY <3>2, Limits
      <4>2. msg[s] = msg[t]
        BY <3>1, <4>1
      <4>. QED  BY <4>2 DEF NoncesApart
    <3>. QED  BY <3>3, <3>4
  <2>. QED  BY <2>1, <2>2, <2>3, <2>4, NonceSteps
<1>. QED  BY <1>1, <1>2, GatewayTypes, PTL DEF Spec
-----------------------------------------------------------------------------
\* The request that created the counter there is, when it has yet to reach EXPIRE.
Waiting(s) == s \in Session \ uncounted /\ at[s] = "expiring"
Pending == IF \E s \in Session : Waiting(s) THEN 1 ELSE 0

\* A counter has one creator, and no counter no ttl.
CreatorAlone ==
    /\ \A s \in Session : Waiting(s) => counter.n > 0
    /\ \A s, t \in Session : Waiting(s) /\ Waiting(t) => s = t
    /\ counter.n = 0 => counter.ttl = 0

\* The requests admitted within a Window: those the counter there is counted
\* after its creator, and those that were admitted before it got its ttl, its
\* creator among them.
Windows(current, previous) ==
    /\ current \subseteq Session /\ IsFiniteSet(current)
    /\ previous \subseteq Session /\ IsFiniteSet(previous)
    /\ \A s \in Session \ uncounted : admitted[s] < Window => s \in current \union previous
    /\ Cardinality(current) + 1 <= Limit
    /\ counter.n > 0 => Cardinality(current) + 1 <= counter.n
    /\ counter.n = 0 => Cardinality(current) = 0 /\ Cardinality(previous) + 1 <= Limit
    /\ Cardinality(previous) + Pending <= Limit
    /\ counter.ttl > 0 => \A s \in previous : admitted[s] >= Window - counter.ttl

WindowInv == CreatorAlone /\ \E current, previous : Windows(current, previous)

\* What a step does to the counter: time passes; or a request creates it, is
\* counted, or reaches EXPIRE; or it is evicted; or nothing.
LEMMA CounterSteps ==
  ASSUME TypeOK, [Next]_vars
  PROVE  \/ Tick
         \/ \E s \in Session :
              /\ at[s] = "counting" /\ at' = [at EXCEPT ![s] = "expiring"]
              /\ counter.n = 0 /\ counter'.n = 1 /\ counter'.ttl = counter.ttl
              /\ admitted' = admitted /\ uncounted' = uncounted
         \/ \E s \in Session :
              /\ at[s] = "counting" /\ \E to \in {"stamping", "rejected"} : at' = [at EXCEPT ![s] = to]
              /\ counter.n > 0 /\ counter'.n = counter.n + 1 /\ counter'.ttl = counter.ttl
              /\ \/ admitted' = admitted
                 \/ counter'.n <= Limit /\ admitted' = [admitted EXCEPT ![s] = 0]
              /\ uncounted' = uncounted
         \/ \E s \in Session :
              /\ at[s] = "expiring" /\ at' = [at EXCEPT ![s] = "stamping"]
              /\ counter'.n = counter.n
              /\ counter'.ttl = IF counter.n > 0 THEN Window ELSE counter.ttl
              /\ admitted' = [admitted EXCEPT ![s] = 0] /\ uncounted' = uncounted
         \/ /\ counter' = Absent /\ admitted' = admitted /\ at' = at
            /\ uncounted' = {s \in Session : at[s] = "expiring" \/ admitted[s] < Window}
         \/ /\ counter' = counter /\ admitted' = admitted /\ uncounted' = uncounted
            /\ \A s \in Session : at'[s] = "expiring" => at[s] = "expiring"
<1>t. /\ counter \in [n : Nat, ttl : 0..Window] /\ counter.n \in Nat
      /\ at \in [Session -> {"new"} \union Stages \union Ended]
  BY DEF TypeOK
<1>1. ASSUME NEW s \in Session, Count(s)
      PROVE  /\ \/ /\ at[s] = "counting" /\ at' = [at EXCEPT ![s] = "expiring"]
                   /\ counter.n = 0 /\ counter'.n = 1 /\ counter'.ttl = counter.ttl
                   /\ admitted' = admitted
                \/ /\ at[s] = "counting"
                   /\ \E to \in {"stamping", "rejected"} : at' = [at EXCEPT ![s] = to]
                   /\ counter.n > 0 /\ counter'.n = counter.n + 1 /\ counter'.ttl = counter.ttl
                   /\ \/ admitted' = admitted
                      \/ counter'.n <= Limit /\ admitted' = [admitted EXCEPT ![s] = 0]
             /\ uncounted' = uncounted
  <2>1. counter'.n = counter.n + 1 /\ counter'.ttl = counter.ttl /\ at[s] = "counting"
        /\ uncounted' = uncounted
    BY <1>t, <1>1 DEF Count, ghosts
  <2>2. CASE counter'.n = 1
    BY <1>t, <1>1, <2>1, <2>2 DEF Count, Move
  <2>3. CASE counter'.n # 1
    BY <1>t, <1>1, <2>1, <2>3, Limits DEF Count, Admit, Move
  <2>. QED  BY <2>1, <2>2, <2>3
<1>2. ASSUME NEW s \in Session, Expire(s)
      PROVE  /\ at[s] = "expiring" /\ at' = [at EXCEPT ![s] = "stamping"]
             /\ counter'.n = counter.n
             /\ counter'.ttl = IF counter.n > 0 THEN Window ELSE counter.ttl
             /\ admitted' = [admitted EXCEPT ![s] = 0] /\ uncounted' = uncounted
  BY <1>t, <1>2, Limits DEF Expire, Admit, Move, ghosts
<1>3. ASSUME NEW s \in Session,
             \/ FindDevice(s) \/ CheckTimestamp(s) \/ SpendNonce(s) \/ VerifySignature(s)
             \/ StoreReading(s) \/ CacheReading(s) \/ Crash(s)
      PROVE  /\ counter' = counter /\ admitted' = admitted /\ uncounted' = uncounted
             /\ \A r \in Session : at'[r] = "expiring" => at[r] = "expiring"
  BY <1>t, <1>3 DEF FindDevice, CheckTimestamp, SpendNonce, VerifySignature, StoreReading,
              CacheReading, Crash, Move, redis, timers, ghosts
<1>4. CASE Evict
  BY <1>4 DEF Evict, timers, ghosts
<1>5. CASE CacheExpires
  BY <1>5 DEF CacheExpires, timers, ghosts
<1>6. CASE UNCHANGED vars
  BY <1>6 DEF vars
<1>. QED  BY <1>1, <1>2, <1>3, <1>4, <1>5, <1>6 DEF Next, Step

\* A finite set stays finite when a request is added, and grows by one at most;
\* it stays finite and does not grow when one is taken away.
LEMMA OneMore ==
  ASSUME NEW S, IsFiniteSet(S), NEW s
  PROVE  /\ IsFiniteSet(S \union {s}) /\ Cardinality(S \union {s}) \in Nat
         /\ Cardinality(S \union {s}) <= Cardinality(S) + 1
         /\ IsFiniteSet(S \ {s}) /\ Cardinality(S \ {s}) \in Nat
         /\ Cardinality(S \ {s}) <= Cardinality(S)
<1>1. Cardinality(S) \in Nat
  BY FS_CardinalityType
<1>2. /\ IsFiniteSet(S \union {s})
      /\ Cardinality(S \union {s}) = IF s \in S THEN Cardinality(S) ELSE Cardinality(S) + 1
  BY FS_AddElement
<1>3. S \ {s} \in SUBSET S
  OBVIOUS
<1>4. IsFiniteSet(S \ {s}) /\ Cardinality(S \ {s}) <= Cardinality(S)
  BY <1>3, FS_Subset
<1>5. Cardinality(S \ {s}) \in Nat
  BY <1>4, FS_CardinalityType
<1>. QED  BY <1>1, <1>2, <1>4, <1>5

\* Time passes: either the counter runs out, and with it the requests admitted
\* before it got its ttl leave the Window; or all grow older together.
LEMMA WindowTick ==
  ASSUME TypeOK, WindowInv, Tick
  PROVE  WindowInv'
<1>t. /\ counter \in [n : Nat, ttl : 0..Window] /\ counter.n \in Nat /\ counter.ttl \in 0..Window
      /\ admitted \in [Session -> 0..Window] /\ Window \in Nat /\ Limit \in Nat \ {0}
      /\ Pending \in {0, 1} /\ CreatorAlone
  BY Limits DEF TypeOK, Pending, WindowInv
<1>w. PICK current, previous : Windows(current, previous)
  BY DEF WindowInv
<1>1. counter' = Aged(counter) /\ at' = at
      /\ \A s \in Session : admitted'[s] = Upto(Window, admitted[s])
  BY DEF Tick
<1>2. \A s \in Session \ uncounted' : admitted'[s] < Window => s \notin uncounted /\ admitted[s] + 1 < Window
  BY <1>t DEF Tick, Upto
<1>3. CASE counter.ttl = 1
  <2>1. counter' = Absent /\ counter'.n = 0 /\ counter'.ttl = 0
    BY <1>1, <1>3 DEF Aged, Absent
  <2>2. Pending' = 0 /\ \A s \in Session : ~ Waiting(s)'
    BY <1>1, <1>3 DEF Tick, Pending, Waiting
  <2>3. \A s \in Session \ uncounted' : admitted'[s] < Window => s \in current
    BY <1>t, <1>w, <1>2, <1>3 DEF Windows
  <2>4. Cardinality({}) = 0 /\ IsFiniteSet({})
    BY FS_EmptySet
  <2>5. Cardinality(current) \in Nat /\ Cardinality(current) + 1 <= Limit
    BY <1>w, FS_CardinalityType DEF Windows
  <2>6. Windows({}, current)'
    BY <1>t, <1>w, <2>1, <2>2, <2>3, <2>4, <2>5 DEF Windows
  <2>. QED  BY <2>1, <2>2, <2>6 DEF WindowInv, CreatorAlone
<1>4. CASE counter.ttl # 1
  <2>1. counter'.n = counter.n /\ counter'.ttl = Down(counter.ttl)
    BY <1>t, <1>1, <1>4 DEF Aged
  <2>2. \A s \in Session : Waiting(s)' <=> Waiting(s)
    BY <1>1, <1>4, <1>t DEF Tick, Waiting
  <2>3. CreatorAlone' /\ Pending' = Pending
    BY <1>t, <2>1, <2>2 DEF CreatorAlone, Down, Pending
  <2>4. counter'.ttl > 0 => \A s \in previous : admitted'[s] >= Window - counter'.ttl
    BY <1>t, <1>w, <1>1, <2>1 DEF Windows, Upto, Down
  <2>5. \A s \in Session \ uncounted' : admitted'[s] < Window => s \in current \union previous
    BY <1>t, <1>w, <1>2 DEF Windows
  <2>6. Windows(current, previous)'
    BY <1>w, <2>1, <2>3, <2>4, <2>5 DEF Windows
  <2>. QED  BY <2>3, <2>6 DEF WindowInv
<1>. QED  BY <1>3, <1>4

\* A creator reaches EXPIRE: it joins those admitted before the counter got its
\* ttl; one whose counter is gone may only put the ttl of another's back.
LEMMA WindowExpire ==
  ASSUME TypeOK, WindowInv, NEW s \in Session,
         at[s] = "expiring", at' = [at EXCEPT ![s] = "stamping"], counter'.n = counter.n,
         counter'.ttl = IF counter.n > 0 THEN Window ELSE counter.ttl,
         admitted' = [admitted EXCEPT ![s] = 0], uncounted' = uncounted
  PROVE  WindowInv'
<1>t. /\ counter.n \in Nat /\ counter.ttl \in 0..Window
      /\ at \in [Session -> {"new"} \union Stages \union Ended]
      /\ admitted \in [Session -> 0..Window] /\ Window \in Nat /\ Window > 0 /\ Limit \in Nat \ {0}
      /\ Pending \in {0, 1} /\ CreatorAlone
  BY Limits DEF TypeOK, Pending, WindowInv
<1>w. PICK current, previous : Windows(current, previous)
  BY DEF WindowInv
<1>n. Cardinality(current) \in Nat /\ Cardinality(previous) \in Nat
  BY <1>w, FS_CardinalityType DEF Windows
<1>1. admitted' \in [Session -> 0..Window] /\ \A r \in Session : r # s => admitted'[r] = admitted[r]
  BY <1>t
<1>2. \A r \in Session : Waiting(r)' <=> Waiting(r) /\ r # s
  BY <1>t DEF Waiting
<1>3. CreatorAlone'
  BY <1>t, <1>2 DEF CreatorAlone
<1>4. CASE s \in uncounted
  <2>1. Pending' = Pending
    BY <1>2, <1>4 DEF Pending, Waiting
  <2>2. \A r \in Session \ uncounted : admitted'[r] < Window => r \in current \union previous
    BY <1>w, <1>1, <1>4 DEF Windows
  <2>3. counter'.ttl > 0 => \A r \in previous : admitted'[r] >= Window - counter'.ttl
    BY <1>t, <1>w, <1>1 DEF Windows, CreatorAlone
  <2>4. Windows(current, previous)'
    BY <1>w, <2>1, <2>2, <2>3 DEF Windows
  <2>. QED  BY <1>3, <2>4 DEF WindowInv
<1>5. CASE s \notin uncounted
  <2>1. Waiting(s) /\ Pending = 1 /\ counter.n > 0 /\ counter'.ttl = Window
    BY <1>t, <1>5 DEF Waiting, Pending, CreatorAlone
  <2>2. Pending' = 0
    BY <1>t, <1>2, <2>1 DEF Pending, CreatorAlone
  <2> DEFINE before == previous \union {s}
  <2>3. /\ before \subseteq Session /\ IsFiniteSet(before)
        /\ Cardinality(before) \in Nat /\ Cardinality(before) <= Cardinality(previous) + 1
    BY <1>w, OneMore DEF Windows
  <2>4. \A r \in Session \ uncounted : admitted'[r] < Window => r \in current \union before
    BY <1>w, <1>1 DEF Windows
  <2>5. \A r \in before : admitted'[r] >= Window - counter'.ttl
    BY <1>1, <1>t, <2>1, <2>3
  <2> HIDE DEF before
  <2>6. Cardinality(before) + Pending' <= Limit
    <3>1. Cardinality(previous) + Pending <= Limit
      BY <1>w DEF Windows
    <3>. QED  BY <1>n, <1>t, <2>1, <2>2, <2>3, <3>1
  <2>7. Windows(current, before)'
    BY <1>w, <1>t, <2>1, <2>3, <2>4, <2>5, <2>6 DEF Windows
  <2>. QED  BY <1>3, <2>7 DEF WindowInv
<1>. QED  BY <1>4, <1>5

\* The windows survive every step.
LEMMA WindowStep == TypeOK /\ WindowInv /\ [Next]_vars => WindowInv'
<1> SUFFICES ASSUME TypeOK, WindowInv, [Next]_vars PROVE WindowInv'
  OBVIOUS
<1>t. /\ counter \in [n : Nat, ttl : 0..Window] /\ counter.n \in Nat /\ counter.ttl \in 0..Window
      /\ at \in [Session -> {"new"} \union Stages \union Ended]
      /\ admitted \in [Session -> 0..Window] /\ Window \in Nat /\ Limit \in Nat \ {0}
      /\ Pending \in {0, 1} /\ CreatorAlone
  BY Limits DEF TypeOK, Pending, WindowInv
<1>w. PICK current, previous : Windows(current, previous)
  BY DEF WindowInv
<1>n. Cardinality(current) \in Nat /\ Cardinality(previous) \in Nat
  BY <1>w, FS_CardinalityType DEF Windows
<1>1. ASSUME NEW s \in Session,
             at[s] = "counting", at' = [at EXCEPT ![s] = "expiring"],
             counter.n = 0, counter'.n = 1, counter'.ttl = counter.ttl, admitted' = admitted,
             uncounted' = uncounted
      PROVE  WindowInv'
  <2>1. Cardinality(current) = 0 /\ Cardinality(previous) + 1 <= Limit /\ counter.ttl = 0
    BY <1>t, <1>w, <1>1 DEF Windows, CreatorAlone
  <2>2. \A r \in Session : Waiting(r)' => r = s
    BY <1>t, <1>1 DEF CreatorAlone, Waiting
  <2>3. CreatorAlone' /\ Pending' \in {0, 1}
    BY <1>t, <1>1, <2>2 DEF CreatorAlone, Pending
  <2>4. /\ Cardinality(previous) + Pending' <= Limit
        /\ Cardinality(current) + 1 <= counter'.n /\ counter'.n > 0 /\ ~ (counter'.ttl > 0)
    <3>1. Cardinality(previous) + Pending' <= Limit
      BY <1>t, <1>n, <2>1, <2>3
    <3>. QED  BY <1>1, <2>1, <3>1
  <2>5. Windows(current, previous)'
    BY <1>w, <1>1, <2>4 DEF Windows
  <2>. QED  BY <2>3, <2>5 DEF WindowInv
<1>2. ASSUME NEW s \in Session,
             at[s] = "counting", \E to \in {"stamping", "rejected"} : at' = [at EXCEPT ![s] = to],
             counter.n > 0, counter'.n = counter.n + 1, counter'.ttl = counter.ttl,
             \/ admitted' = admitted
             \/ counter'.n <= Limit /\ admitted' = [admitted EXCEPT ![s] = 0],
             uncounted' = uncounted
      PROVE  WindowInv'
  <2>1. \A r \in Session : Waiting(r)' <=> Waiting(r)
    BY <1>t, <1>2 DEF Waiting
  <2>2. CreatorAlone' /\ Pending' = Pending
    BY <1>t, <1>2, <2>1 DEF CreatorAlone, Pending
  <2>3. CASE admitted' = admitted
    <3>1. Windows(current, previous)'
      BY <1>w, <1>t, <1>n, <1>2, <2>2, <2>3 DEF Windows
    <3>. QED  BY <2>2, <3>1 DEF WindowInv
  <2>4. CASE counter'.n <= Limit /\ admitted' = [admitted EXCEPT ![s] = 0]
    <3> DEFINE more == current \union {s}
               fewer == previous \ {s}
    <3>1. /\ more \subseteq Session /\ IsFiniteSet(more)
          /\ Cardinality(more) \in Nat /\ Cardinality(more) <= Cardinality(current) + 1
          /\ fewer \subseteq Session /\ IsFiniteSet(fewer)
          /\ Cardinality(fewer) \in Nat /\ Cardinality(fewer) <= Cardinality(previous)
      BY <1>w, OneMore DEF Windows
    <3>2. \A r \in Session : r # s => admitted'[r] = admitted[r]
      BY <1>t, <2>4
    <3>3. \A r \in Session \ uncounted : admitted'[r] < Window => r \in more \union fewer
      BY <1>w, <3>2 DEF Windows
    <3>4. counter'.ttl > 0 => \A r \in fewer : admitted'[r] >= Window - counter'.ttl
      BY <1>w, <1>2, <3>2, <3>1 DEF Windows
    <3> HIDE DEF more, fewer
    <3>5. /\ Cardinality(more) + 1 <= counter'.n /\ Cardinality(more) + 1 <= Limit
          /\ Cardinality(fewer) + Pending' <= Limit
      <4>1. Cardinality(current) + 1 <= counter.n /\ Cardinality(previous) + Pending <= Limit
        BY <1>w, <1>2 DEF Windows
      <4>. QED  BY <1>t, <1>n, <1>2, <2>2, <2>4, <3>1, <4>1
    <3>6. counter'.n > 0
      BY <1>t, <1>2
    <3>7. Windows(more, fewer)'
      BY <1>2, <3>1, <3>3, <3>4, <3>5, <3>6 DEF Windows
    <3>. QED  BY <2>2, <3>7 DEF WindowInv
  <2>. QED  BY <1>2, <2>3, <2>4
<1>3. ASSUME counter' = Absent, admitted' = admitted, at' = at,
             uncounted' = {s \in Session : at[s] = "expiring" \/ admitted[s] < Window}
      PROVE  WindowInv'
  <2>1. counter'.n = 0 /\ counter'.ttl = 0 /\ \A s \in Session : ~ Waiting(s)'
    BY <1>3 DEF Absent, Waiting
  <2>2. Pending' = 0 /\ CreatorAlone'
    BY <2>1 DEF Pending, CreatorAlone
  <2>3. Cardinality({}) = 0 /\ IsFiniteSet({})
    BY FS_EmptySet
  <2>4. Windows({}, {})'
    BY <1>t, <1>3, <2>1, <2>2, <2>3 DEF Windows
  <2>. QED  BY <2>2, <2>4 DEF WindowInv
<1>4. ASSUME counter' = counter, admitted' = admitted, uncounted' = uncounted,
             \A s \in Session : at'[s] = "expiring" => at[s] = "expiring"
      PROVE  WindowInv'
  <2>1. \A s \in Session : Waiting(s)' => Waiting(s)
    BY <1>4 DEF Waiting
  <2>2. CreatorAlone' /\ Pending' \in {0, 1} /\ Pending' <= Pending
    BY <1>t, <1>4, <2>1 DEF CreatorAlone, Pending
  <2>3. Windows(current, previous)'
    BY <1>w, <1>t, <1>n, <1>4, <2>2 DEF Windows
  <2>. QED  BY <2>2, <2>3 DEF WindowInv
<1>. QED  BY <1>1, <1>2, <1>3, <1>4, WindowTick, WindowExpire, CounterSteps

\* No Window of time, wherever it lies, admits twice the limit of requests whose
\* counter Redis kept until they reached EXPIRE.
THEOREM TwoWindowsAtMost == Spec => []FewerThanTwoLimits
<1>1. Init => WindowInv
  <2>. SUFFICES ASSUME Init PROVE WindowInv
    OBVIOUS
  <2>1. CreatorAlone /\ Pending = 0 /\ counter.n = 0 /\ counter.ttl = 0
    BY DEF Init, CreatorAlone, Pending, Waiting, Absent
  <2>2. Cardinality({}) = 0 /\ IsFiniteSet({})
    BY FS_EmptySet
  <2>3. Windows({}, {})
    BY <2>1, <2>2, Limits DEF Init, Windows
  <2>. QED  BY <2>1, <2>3 DEF WindowInv
<1>2. TypeOK /\ WindowInv => FewerThanTwoLimits
  <2>. SUFFICES ASSUME TypeOK, WindowInv PROVE FewerThanTwoLimits
    OBVIOUS
  <2>1. PICK current, previous : Windows(current, previous)
    BY DEF WindowInv
  <2> DEFINE within == {s \in Session \ uncounted : admitted[s] < Window}
  <2>2. /\ IsFiniteSet(current) /\ IsFiniteSet(previous)
        /\ within \in SUBSET (current \union previous)
    BY <2>1 DEF Windows
  <2>3. /\ Cardinality(current) \in Nat /\ Cardinality(previous) \in Nat
        /\ Cardinality(current \intersect previous) \in Nat
    <3>1. current \intersect previous \in SUBSET current
      OBVIOUS
    <3>2. IsFiniteSet(current \intersect previous)
      BY <2>2, <3>1, FS_Subset
    <3>. QED  BY <2>2, <3>2, FS_CardinalityType
  <2>4. /\ IsFiniteSet(current \union previous)
        /\ Cardinality(current \union previous)
             = Cardinality(current) + Cardinality(previous) - Cardinality(current \intersect previous)
    BY <2>2, FS_Union
  <2>5. Cardinality(within) <= Cardinality(current \union previous)
        /\ Cardinality(within) \in Nat
    <3>1. IsFiniteSet(within) /\ Cardinality(within) <= Cardinality(current \union previous)
      BY <2>2, <2>4, FS_Subset
    <3>. QED  BY <3>1, FS_CardinalityType
  <2>6. Cardinality(current) + 1 <= Limit /\ Cardinality(previous) <= Limit
    <3>1. Pending \in {0, 1}
      BY DEF Pending
    <3>2. Cardinality(current) + 1 <= Limit /\ Cardinality(previous) + Pending <= Limit
      BY <2>1 DEF Windows
    <3>. QED  BY <2>3, <3>1, <3>2, Limits
  <2> HIDE DEF within
  <2>7. Cardinality(within) < 2 * Limit
    BY <2>3, <2>4, <2>5, <2>6, Limits
  <2>. QED  BY <2>7 DEF within, FewerThanTwoLimits
<1>. QED  BY <1>1, <1>2, WindowStep, GatewayTypes, PTL DEF Spec
=============================================================================
