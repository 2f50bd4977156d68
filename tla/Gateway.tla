------------------------------ MODULE Gateway -------------------------------
(***************************************************************************)
(* The security gateway and the ingestion of a sensor reading: the         *)
(* dependency verify_device_request and SensorDataService.ingest_data, on  *)
(* the Redis keys rate_limit:<device>, nonce:<device>:<nonce> and          *)
(* latest_sensor:<device> and the table sensor_data.                       *)
(*                                                                         *)
(* The keys of two devices are disjoint: one device stands for all.  A     *)
(* Session is one HTTP request carrying a reading of Msg; a reading has    *)
(* its own nonce and timestamp, and several requests may carry the same    *)
(* one, as when the device repeats a request whose answer was lost.  Every *)
(* action but CheckTimestamp is one round trip to Redis or the database.   *)
(*                                                                         *)
(* Time is counted in ticks from the present: what is kept of a moment is  *)
(* how long ago it was, up to the age from which it no longer matters.     *)
(***************************************************************************)
EXTENDS Integers, Sequences, FiniteSets

CONSTANTS Session,   \* the requests
          Msg,       \* the readings the device signs
          None,      \* Python's None: no reading, no cached reading
          Limit,     \* settings.rate_limit_device_max
          Window,    \* the 60 s of the rate counter
          NonceTTL,  \* the 300 s of a nonce
          MaxDrift,  \* the settings.jwt_access_token_expire_minutes of a timestamp
          Sent,      \* how old the readings may be at the start
          Crashing   \* the requests that may be cut off between two round trips

ASSUME GatewayAssumption ==
    /\ None \notin Session \union Msg
    /\ {Limit, Window, NonceTTL, MaxDrift} \subseteq Nat \ {0}
    /\ Sent \subseteq -(MaxDrift + 1) .. (MaxDrift + 1)
    /\ Crashing \subseteq Session

VARIABLES
    counter,   \* rate_limit: its value n, 0 when absent, and its ttl, 0 when it has none
    nonce,     \* per reading, the ttl left to its nonce key, 0 when absent
    age,       \* per reading, how long ago its timestamp is, negative when ahead
    at,        \* per request, the stage it has reached
    msg,       \* per request, its reading
    admitted,  \* per request, how long ago it passed the rate limit, up to Window
    spent,     \* per request, how long ago its nonce was accepted, up to NonceTTL
    rows,      \* sensor_data, in commit order: the requests that wrote it
    latest,    \* latest_sensor: the request whose row is cached
    uncounted, \* ghost: the requests within Window whose counter is gone, see Evict and Tick
    unspent    \* ghost: the requests within NonceTTL whose nonce Redis has evicted

redis == <<counter, nonce, latest>>
timers == <<age, admitted, spent>>
ghosts == <<uncounted, unspent>>
vars == <<counter, nonce, age, at, msg, admitted, spent, rows, latest, uncounted, unspent>>

Ages == -(MaxDrift + 1) .. (MaxDrift + 1)
Stages == {"counting", "expiring", "stamping", "spending", "verifying", "storing", "caching"}
Ended == {"done", "rejected", "failed"}
Absent == [n |-> 0, ttl |-> 0]

Upto(bound, n) == IF n < bound THEN n + 1 ELSE n
Down(n) == IF n > 0 THEN n - 1 ELSE n
Aged(c) == IF c.ttl = 1 THEN Absent ELSE [c EXCEPT !.ttl = Down(@)]

-----------------------------------------------------------------------------
Init ==
    /\ counter = Absent
    /\ nonce = [m \in Msg |-> 0]
    /\ age \in [Msg -> Sent]
    /\ at = [s \in Session |-> "new"]
    /\ msg = [s \in Session |-> None]
    /\ admitted = [s \in Session |-> Window]
    /\ spent = [s \in Session |-> NonceTTL]
    /\ rows = <<>>
    /\ latest = None
    /\ uncounted = {} /\ unspent = {}

Move(s, from, to) == at[s] = from /\ at' = [at EXCEPT ![s] = to]

\* The headers are complete.  The device's row is DeviceTrust's: it may be
\* missing or not ACTIVE, and either raises.
FindDevice(s) ==
    /\ \E m \in Msg : msg' = [msg EXCEPT ![s] = m]
    /\ Move(s, "new", "counting") \/ Move(s, "new", "rejected")
    /\ UNCHANGED <<redis, timers, rows, ghosts>>

Admit(s, n) ==
    IF n > Limit
    THEN Move(s, at[s], "rejected") /\ UNCHANGED admitted
    ELSE Move(s, at[s], "stamping") /\ admitted' = [admitted EXCEPT ![s] = 0]

\* INCR, which keeps the ttl; the request that created the key goes on to
\* EXPIRE it, the others compare the value they were given with the limit.
Count(s) ==
    /\ at[s] = "counting"
    /\ counter' = [counter EXCEPT !.n = @ + 1]
    /\ IF counter'.n = 1
       THEN Move(s, "counting", "expiring") /\ UNCHANGED admitted
       ELSE Admit(s, counter'.n)
    /\ UNCHANGED <<nonce, latest, age, spent, msg, rows, ghosts>>

\* Fault: the new counter never gets its ttl.
ExpireForgotten(s) ==
    /\ at[s] = "expiring"
    /\ Admit(s, 1)
    /\ UNCHANGED <<redis, age, spent, msg, rows, ghosts>>

\* Fault: the new counter goes away one tick early.
ExpireEarly(s) ==
    /\ at[s] = "expiring"
    /\ counter' = [counter EXCEPT !.ttl = IF counter.n > 0 THEN Window - 1 ELSE @]
    /\ Admit(s, 1)
    /\ UNCHANGED <<nonce, latest, age, spent, msg, rows, ghosts>>

\* EXPIRE does nothing when the key has been evicted, and gives its ttl to the
\* key another request has created since.
Expire(s) ==
    /\ at[s] = "expiring"
    /\ counter' = [counter EXCEPT !.ttl = IF counter.n > 0 THEN Window ELSE @]
    /\ Admit(s, 1)
    /\ UNCHANGED <<nonce, latest, age, spent, msg, rows, ghosts>>

CheckTimestamp(s) ==
    /\ at[s] = "stamping"
    /\ IF age[msg[s]] \in -MaxDrift .. MaxDrift
       THEN Move(s, "stamping", "spending")
       ELSE Move(s, "stamping", "rejected")
    /\ UNCHANGED <<redis, timers, msg, rows, ghosts>>

\* Fault: SET EX without NX, the old value compared afterwards.
SpendNonceProlongs(s) ==
    LET m == msg[s] IN
    /\ at[s] = "spending"
    /\ nonce' = [nonce EXCEPT ![m] = NonceTTL]
    /\ IF nonce[m] = 0
       THEN Move(s, "spending", "verifying") /\ spent' = [spent EXCEPT ![s] = 0]
       ELSE Move(s, "spending", "rejected") /\ UNCHANGED spent
    /\ UNCHANGED <<counter, latest, age, admitted, msg, rows, ghosts>>

\* Fault: the nonce is looked up and never stored.
SpendNonceUnstored(s) ==
    /\ at[s] = "spending"
    /\ IF nonce[msg[s]] = 0
       THEN Move(s, "spending", "verifying") /\ spent' = [spent EXCEPT ![s] = 0]
       ELSE Move(s, "spending", "rejected") /\ UNCHANGED spent
    /\ UNCHANGED <<redis, age, admitted, msg, rows, ghosts>>

\* SET NX EX: only an absent nonce is accepted, and for NonceTTL.
SpendNonce(s) ==
    LET m == msg[s] IN
    /\ at[s] = "spending"
    /\ IF nonce[m] = 0
       THEN /\ Move(s, "spending", "verifying")
            /\ nonce' = [nonce EXCEPT ![m] = NonceTTL]
            /\ spent' = [spent EXCEPT ![s] = 0]
       ELSE Move(s, "spending", "rejected") /\ UNCHANGED <<nonce, spent>>
    /\ UNCHANGED <<counter, latest, age, admitted, msg, rows, ghosts>>

\* The one active key is read and the signature verified with it: there may be
\* no key, or two (device_service.py:94 raises), or one that does not verify.
VerifySignature(s) ==
    /\ Move(s, "verifying", "storing") \/ Move(s, "verifying", "rejected")
    /\ UNCHANGED <<redis, timers, msg, rows, ghosts>>

\* Fault: the error of the insert is swallowed.
StoreReadingSwallows(s) ==
    /\ Move(s, "storing", "caching")
    /\ rows' = Append(rows, s) \/ UNCHANGED rows
    /\ UNCHANGED <<redis, timers, msg, ghosts>>

\* ingest_data up to its commit: decryption, the hash, the JSON and the insert
\* may each raise.
StoreReading(s) ==
    /\ \/ Move(s, "storing", "caching") /\ rows' = Append(rows, s)
       \/ Move(s, "storing", "failed") /\ UNCHANGED rows
    /\ UNCHANGED <<redis, timers, msg, ghosts>>

CacheReading(s) ==
    /\ Move(s, "caching", "done")
    /\ latest' = s
    /\ UNCHANGED <<counter, nonce, timers, msg, rows, ghosts>>

\* A Redis or database error, a client that hangs up or a worker that dies: the
\* request stops where it is, and what it wrote stays.
Crash(s) ==
    /\ s \in Crashing /\ at[s] \in Stages
    /\ at' = [at EXCEPT ![s] = "failed"]
    /\ UNCHANGED <<redis, timers, msg, rows, ghosts>>

\* maxmemory-policy allkeys-lru (docker-compose.yml:34) may drop any key at any
\* time.  With the counter it forgets the requests it counted, with a nonce the
\* request that spent it.
Evict ==
    /\ \/ /\ counter.n > 0
          /\ counter' = Absent
          /\ uncounted' = {s \in Session : at[s] = "expiring" \/ admitted[s] < Window}
          /\ UNCHANGED <<nonce, latest, unspent>>
       \/ \E m \in Msg :
             /\ nonce[m] > 0
             /\ nonce' = [nonce EXCEPT ![m] = 0]
             /\ unspent' = unspent \union {s \in Session : msg[s] = m /\ spent[s] < NonceTTL}
             /\ UNCHANGED <<counter, latest, uncounted>>
       \/ latest' = None /\ UNCHANGED <<counter, nonce, ghosts>>
    /\ UNCHANGED <<timers, at, msg, rows>>

\* The hour of latest_sensor (sensor_service.py:88) is far longer than the
\* other ttls: it may end at any time.
CacheExpires ==
    /\ latest' = None
    /\ UNCHANGED <<counter, nonce, timers, at, msg, rows, ghosts>>

\* The counter may run out under a creator that has yet to reach EXPIRE, when
\* the late EXPIRE of a request it did not count gave it its ttl.
Tick ==
    /\ counter' = Aged(counter)
    /\ uncounted' = {s \in Session :
                       \/ at[s] = "expiring" /\ (s \in uncounted \/ counter.ttl = 1)
                       \/ s \in uncounted /\ admitted[s] + 1 < Window}
    /\ unspent' = {s \in unspent : spent[s] + 1 < NonceTTL}
    /\ nonce' = [m \in Msg |-> Down(nonce[m])]
    /\ age' = [m \in Msg |-> Upto(MaxDrift + 1, age[m])]
    /\ admitted' = [s \in Session |-> Upto(Window, admitted[s])]
    /\ spent' = [s \in Session |-> Upto(NonceTTL, spent[s])]
    /\ UNCHANGED <<latest, at, msg, rows>>

Step(s) ==
    \/ Count(s) \/ Expire(s) \/ CheckTimestamp(s) \/ SpendNonce(s)
    \/ VerifySignature(s) \/ StoreReading(s) \/ CacheReading(s)

Next ==
    \/ \E s \in Session : FindDevice(s) \/ Step(s) \/ Crash(s)
    \/ Evict \/ CacheExpires \/ Tick

Spec == Init /\ [][Next]_vars

\* The event loop resumes every request whose answer has come, and time passes.
FairSpec == Spec /\ WF_vars(Tick) /\ \A s \in Session : WF_vars(Step(s))

(***************************************************************************)
(* Properties                                                              *)
(***************************************************************************)
TypeOK ==
    /\ counter \in [n : Nat, ttl : 0..Window]
    /\ nonce \in [Msg -> 0..NonceTTL]
    /\ age \in [Msg -> Ages]
    /\ at \in [Session -> {"new"} \union Stages \union Ended]
    /\ msg \in [Session -> Msg \union {None}]
    /\ admitted \in [Session -> 0..Window]
    /\ spent \in [Session -> 0..NonceTTL]
    /\ rows \in Seq(Session)
    /\ latest \in Session \union {None}
    /\ uncounted \subseteq Session /\ unspent \subseteq Session
    /\ \A s \in Session : at[s] = "new" <=> msg[s] = None

\* A nonce key runs out NonceTTL after the request that spent it was accepted:
\* requests that were refused neither created nor prolonged it.
NoncesSpentByRequests ==
    \A m \in Msg : nonce[m] > 0 => \E s \in Session : msg[s] = m /\ spent[s] = NonceTTL - nonce[m]

\* What waits to be cached is in the database.
CachingStored ==
    \A s \in Session : at[s] = "caching" => \E i \in DOMAIN rows : rows[i] = s

GatewayInv == TypeOK /\ NoncesSpentByRequests /\ CachingStored

\* Until NonceTTL has passed the nonce of an accepted request stays spent,
\* unless Redis evicts it.
SpentNoncesHeld ==
    \A s \in Session \ unspent :
        spent[s] < NonceTTL => msg[s] # None /\ nonce[msg[s]] = NonceTTL - spent[s]

\* Two requests with the same reading get past the nonce check within NonceTTL
\* only when Redis evicted the nonce after the first of them, however they
\* interleave and whatever else it evicts.
NoncesApart ==
    \A s, t \in Session :
        /\ s # t /\ msg[s] = msg[t]
        /\ spent[s] < NonceTTL /\ spent[t] <= spent[s]
        => s \in unspent \/ (spent[t] = spent[s] /\ t \in unspent)

\* The counter is a fixed window, so a device may get twice its limit through
\* in a Window that straddles two of them, save one: the request that opened
\* the first is out of it by then.  Not counted are the requests whose counter
\* was evicted or had run out when they reached EXPIRE.
FewerThanTwoLimits ==
    Cardinality({s \in Session \ uncounted : admitted[s] < Window}) < 2 * Limit

\* A reading is cached only after its row was committed: the dashboard never
\* shows one that is not in the database.
CachedReadingsStored == latest # None => \E i \in DOMAIN rows : rows[i] = latest

\* A device that was counted is not counted for ever: its counter goes away.
CountersExpire == counter.n > 0 ~> counter.n = 0
=============================================================================
