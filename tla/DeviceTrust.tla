---------------------------- MODULE DeviceTrust -----------------------------
(***************************************************************************)
(* One row of `devices' with its device_keys and trust_events, and the     *)
(* requests that write it: DeviceService, TrustService and the endpoints   *)
(* of backend/app/api/v1/devices.py on PostgreSQL under READ COMMITTED.    *)
(*                                                                         *)
(* Rows of different devices share nothing but the unique device_id, so    *)
(* one device_id stands for all.  A Session is one request; every action   *)
(* is one round trip to the database.  A session keeps the row it loaded   *)
(* first: a later SELECT in the same session does not refresh an object of *)
(* the identity map, not even FOR UPDATE, and a flush writes only the      *)
(* columns whose value differs from the one loaded.                        *)
(*                                                                         *)
(* Scores are counted in half points: 200 is a trust_score of 100.0.       *)
(***************************************************************************)
EXTENDS Integers, Sequences

CONSTANTS Session,     \* the requests
          Registrant,  \* the requests of the user who registered the device
          Key,         \* public keys
          Call,        \* the calls requests make, out of Calls
          None         \* Python's None: no row, no lock, no override

Full == 200
SuspendBelow == 100
RevokeBelow == 40
Scores == 0..Full

DeviceLifecycleStatus == {"registered", "active", "suspended", "revoked", "recovered"}
Frozen == {"suspended", "revoked"}

DeviceRow == [status : DeviceLifecycleStatus, score : Scores]

ASSUME NoneAssumption == None \notin Int /\ None \notin Session /\ None \notin DeviceRow
ASSUME RegistrantAssumption == Registrant \subseteq Session

TRUST_SCORE_MATRIX ==
    [auth_success |-> 2, normal_operation |-> 1, mutual_auth_success |-> 3,
     auth_failure |-> -20, rate_limit_violation |-> -10,
     consecutive_auth_failures |-> -30, replay_attempt |-> -30,
     tampering |-> -40, invalid_signature |-> -40, fake_sensor |-> -50,
     ml_ids_alert |-> -10, drift_anomaly |-> -4, dos_behavior |-> -60]

\* The enum has one member that the matrix lacks.
TrustEventType == DOMAIN TRUST_SCORE_MATRIX \union {"suspicious_behavior"}

\* What a request may ask for.
Calls ==
    [op : {"create", "reset"}]
    \union [op : {"patch"}, status : DeviceLifecycleStatus]
    \union [op : {"register_key"}, key : Key]
    \union [op : {"adjust"}, event : TrustEventType, change : Int \union {None}]

ASSUME CallAssumption == Call \subseteq Calls

VARIABLES device,  \* the committed row, or None
          keys,    \* fingerprints of device_keys in the order they were committed
          active,  \* those with is_active
          events,  \* trust_events in the order they were committed, and `by' whom:
                   \* the properties read that, no table holds it
          lock,    \* the session that holds the row FOR UPDATE, or None
          call,    \* what each request asks for
          at,      \* where it stands
          seen,    \* the row in its identity map, or None
          found    \* the active keys it has read

trustVars == <<device, keys, active, events, lock>>
requestVars == <<call, at, seen, found>>
vars == <<trustVars, requestVars>>

Waiting == {"keys", "ready"}
Ended == {"done", "failed"}
-----------------------------------------------------------------------------
(***************************************************************************)
(* adjust_trust_score and _evaluate_lifecycle_transitions on a row.        *)
(***************************************************************************)
MatrixDelta(event) ==
    IF event \in DOMAIN TRUST_SCORE_MATRIX THEN TRUST_SCORE_MATRIX[event] ELSE 0

\* A frozen device takes no gain, and its override is ignored.
FrozenDelta(event) == IF MatrixDelta(event) > 0 THEN 0 ELSE MatrixDelta(event)

Delta(status, c) ==
    IF status \in Frozen THEN FrozenDelta(c.event)
    ELSE IF c.change # None THEN c.change
    ELSE MatrixDelta(c.event)

Clamp(x) == IF x < 0 THEN 0 ELSE IF x > Full THEN Full ELSE x

\* Fault: a score above the threshold lifts whatever had been imposed.
EvaluateLifts(status, score) ==
    IF status = "registered" THEN status
    ELSE IF score < RevokeBelow THEN "revoked"
    ELSE IF score < SuspendBelow THEN "suspended"
    ELSE "active"

\* Fault: the suspension threshold is part of the suspended range.
EvaluateIncludes(status, score) ==
    IF status \in {"registered", "revoked"} \/ score > SuspendBelow THEN status
    ELSE IF score < RevokeBelow THEN "revoked"
    ELSE "suspended"

\* Registered and revoked devices keep their status whatever the score.
Evaluate(status, score) ==
    IF status \in {"registered", "revoked"} \/ score >= SuspendBelow THEN status
    ELSE IF score < RevokeBelow THEN "revoked"
    ELSE "suspended"

Adjusted(row, c) ==
    LET after == Clamp(row.score + Delta(row.status, c))
    IN  [status |-> Evaluate(row.status, after), score |-> after]

(***************************************************************************)
(* evaluate_access of risk_auth_service.py, which has thresholds of its    *)
(* own: the tiers up to "restricted" are let in, the others are refused.   *)
(***************************************************************************)
AccessTier(score) ==
    IF score > 160 THEN "full"
    ELSE IF score >= 100 THEN "restricted"
    ELSE IF score >= 40 THEN "limited"
    ELSE "blocked"

AccessGranted(score) == AccessTier(score) \in {"full", "restricted"}
-----------------------------------------------------------------------------
NewDevice == [status |-> "registered", score |-> Full]

\* The device exists already, or a request is going to create it.
Init ==
    /\ device \in {None, NewDevice}
    /\ keys = <<>>
    /\ active = {}
    /\ events = <<>>
    /\ lock = None
    /\ call \in [Session -> Call]
    /\ at = [s \in Session |-> "new"]
    /\ seen = [s \in Session |-> None]
    /\ found = [s \in Session |-> {}]

Move(s, where) == at' = [at EXCEPT ![s] = where]

\* get_current_user loads the caller, and with it (selectin) every device the
\* caller registered, into the session that the endpoint goes on to use.
Authenticate(s) ==
    /\ at[s] = "new"
    /\ Move(s, "called")
    /\ seen' = [seen EXCEPT ![s] = IF s \in Registrant THEN device ELSE None]
    /\ UNCHANGED <<trustVars, call, found>>

\* A SELECT of a row that exists: what the session then holds of it.
Loaded(s) == IF seen[s] = None THEN device ELSE seen[s]

\* A flush of object row: the columns that differ from the row loaded.
Flushed(s, row) ==
    [status |-> IF row.status = seen[s].status THEN device.status ELSE row.status,
     score  |-> IF row.score = seen[s].score THEN device.score ELSE row.score]

\* An UPDATE waits for the row's lock; without a dirty column there is none.
MayFlush(s, row) == lock = None \/ row = seen[s]

\* The TrustEvent of an adjustment from the row held to this one.
EventOf(s, row) == [before |-> seen[s].score, after |-> row.score, by |-> s]

\* create_device refuses a device_id that is taken.
CheckName(s) ==
    /\ at[s] = "called" /\ call[s].op = "create"
    /\ Move(s, IF device = None THEN "ready" ELSE "failed")
    /\ UNCHANGED <<trustVars, call, seen, found>>

\* DeviceService.create: the unique device_id decides between two creators.
CommitDevice(s) ==
    /\ at[s] = "ready" /\ call[s].op = "create"
    /\ \/ /\ device = None
          /\ device' = NewDevice
          /\ Move(s, "done")
       \/ /\ device # None
          /\ Move(s, "failed")
          /\ UNCHANGED device
    /\ UNCHANGED <<keys, active, events, lock, call, seen, found>>

\* The endpoint loads the device; 404 when there is none.
LoadDevice(s) ==
    /\ at[s] = "called" /\ call[s].op \in {"patch", "reset", "register_key"}
    /\ \/ /\ device = None
          /\ Move(s, "failed")
          /\ UNCHANGED seen
       \/ /\ device # None
          /\ Move(s, IF call[s].op = "register_key" THEN "keys" ELSE "ready")
          /\ seen' = [seen EXCEPT ![s] = Loaded(s)]
    /\ UNCHANGED <<trustVars, call, found>>

\* register_key reads the active keys it is going to deactivate.
LoadKeys(s) ==
    /\ at[s] = "keys"
    /\ found' = [found EXCEPT ![s] = active]
    /\ Move(s, "ready")
    /\ UNCHANGED <<trustVars, call, seen>>

\* A device that was REGISTERED when it was loaded becomes ACTIVE.
Activated(row) ==
    IF row.status = "registered" THEN [row EXCEPT !.status = "active"] ELSE row

\* Fault: the new key is inserted inactive.
RotatedAway(s) == active \ found[s]

\* The active keys once the old ones are off and the new one is on.
Rotated(s) == (active \ found[s]) \union {call[s].key}

Taken(key) == \E i \in DOMAIN keys : keys[i] = key

\* register_key's one COMMIT.  The INSERT takes a key-share lock on the device
\* row; a fingerprint that is taken rolls everything back.
CommitKey(s) ==
    /\ at[s] = "ready" /\ call[s].op = "register_key"
    /\ lock = None
    /\ \/ /\ ~Taken(call[s].key)
          /\ keys' = Append(keys, call[s].key)
          /\ active' = Rotated(s)
          /\ device' = Flushed(s, Activated(seen[s]))
          /\ Move(s, "done")
       \/ /\ Taken(call[s].key)
          /\ Move(s, "failed")
          /\ UNCHANGED <<device, keys, active>>
    /\ UNCHANGED <<events, lock, call, seen, found>>

\* DeviceService.update sets the status the caller asked for.
CommitPatch(s) ==
    /\ at[s] = "ready" /\ call[s].op = "patch"
    /\ LET row == [seen[s] EXCEPT !.status = call[s].status]
       IN  MayFlush(s, row) /\ device' = Flushed(s, row)
    /\ Move(s, "done")
    /\ UNCHANGED <<keys, active, events, lock, call, seen, found>>

\* reset_device_trust: full score, back to REGISTERED, and no TrustEvent.
CommitReset(s) ==
    /\ at[s] = "ready" /\ call[s].op = "reset"
    /\ LET row == [status |-> "registered", score |-> Full]
       IN  MayFlush(s, row) /\ device' = Flushed(s, row)
    /\ Move(s, "done")
    /\ UNCHANGED <<keys, active, events, lock, call, seen, found>>

\* Fault: a plain SELECT, without FOR UPDATE.
LockDeviceNot(s) ==
    /\ at[s] = "called" /\ call[s].op = "adjust"
    /\ \/ /\ device = None
          /\ Move(s, "failed")
          /\ UNCHANGED seen
       \/ /\ device # None
          /\ seen' = [seen EXCEPT ![s] = Loaded(s)]
          /\ Move(s, "ready")
    /\ UNCHANGED <<trustVars, call, found>>

\* adjust_trust_score selects the row FOR UPDATE, and waits for its lock.
LockDevice(s) ==
    /\ at[s] = "called" /\ call[s].op = "adjust"
    /\ \/ /\ device = None
          /\ Move(s, "failed")
          /\ UNCHANGED <<lock, seen>>
       \/ /\ device # None
          /\ lock = None
          /\ lock' = s
          /\ seen' = [seen EXCEPT ![s] = Loaded(s)]
          /\ Move(s, "ready")
    /\ UNCHANGED <<device, keys, active, events, call, found>>

\* Fault: the transaction is left open, and the lock with it.
CommitScoreKeepsLock(s) ==
    /\ at[s] = "ready" /\ call[s].op = "adjust"
    /\ LET row == Adjusted(seen[s], call[s])
       IN  /\ device' = Flushed(s, row)
           /\ events' = Append(events, EventOf(s, row))
    /\ Move(s, "done")
    /\ UNCHANGED <<keys, active, lock, call, seen, found>>

\* adjust_trust_score's COMMIT of the new row and of its TrustEvent.
CommitScore(s) ==
    /\ at[s] = "ready" /\ call[s].op = "adjust"
    /\ LET row == Adjusted(seen[s], call[s])
       IN  /\ device' = Flushed(s, row)
           /\ events' = Append(events, EventOf(s, row))
    /\ lock' = None
    /\ Move(s, "done")
    /\ UNCHANGED <<keys, active, call, seen, found>>

\* The worker dies or loses its connection: rollback, and the lock is free.
Abort(s) ==
    /\ at[s] \in Waiting
    /\ Move(s, "failed")
    /\ lock' = IF lock = s THEN None ELSE lock
    /\ UNCHANGED <<device, keys, active, events, call, seen, found>>

Step(s) ==
    \/ Authenticate(s)
    \/ CheckName(s) \/ CommitDevice(s)
    \/ LoadDevice(s) \/ LoadKeys(s) \/ CommitKey(s)
    \/ CommitPatch(s) \/ CommitReset(s)
    \/ LockDevice(s) \/ CommitScore(s)

Next == \E s \in Session : Step(s) \/ Abort(s)

Spec == Init /\ [][Next]_vars

\* A request that was not aborted keeps running.
FairSpec == Spec /\ \A s \in Session : WF_vars(Step(s))
-----------------------------------------------------------------------------
(***************************************************************************)
(* Properties                                                              *)
(***************************************************************************)
TrustEvent == [before : Scores, after : Scores, by : Session]

\* Every variable has its type; in particular no score leaves 0.0 .. 100.0.
TypeOK ==
    /\ device \in DeviceRow \union {None}
    /\ keys \in Seq(Key)
    /\ active \subseteq Key
    /\ events \in Seq(TrustEvent)
    /\ lock \in Session \union {None}
    /\ call \in [Session -> Call]
    /\ at \in [Session -> {"new", "called"} \union Waiting \union Ended]
    /\ seen \in [Session -> DeviceRow \union {None}]
    /\ found \in [Session -> SUBSET Key]

ScoreAfter(n) == IF n = 0 THEN Full ELSE events[n].after

NobodyResets == \A s \in Session : call[s].op # "reset"
Gap(i) == events[i].before # ScoreAfter(i - 1)
ByRegistrant(i) == i > 0 /\ events[i].by \in Registrant

\* As long as nobody resets the device, racing penalties add up and none is lost,
\* whatever else is done to it meanwhile: each event starts where the one before
\* it ended, and the row stands where the last one ended.  Only next to an event
\* of the registrant, whose row was loaded before it was locked, there may be a
\* gap (trust_service.py:85, models/user.py:31).
GapsAtRegistrants ==
    NobodyResets =>
        /\ \A i \in DOMAIN events : Gap(i) => ByRegistrant(i) \/ ByRegistrant(i - 1)
        /\ device # None /\ ~ByRegistrant(Len(events)) => device.score = ScoreAfter(Len(events))

\* A step by which somebody who is not the registrant adjusts the score.
Adjusts == events' # events /\ events'[Len(events')].by \notin Registrant

\* While the row is suspended or revoked no such adjustment raises its score, even
\* one that was asked for before (trust_service.py:92).
FrozenNeverGains ==
    [][Adjusts /\ device # None /\ device.status \in Frozen
       => device'.score <= device.score]_trustVars

\* What an adjustment may do to the status: towards revocation only.
Penalised == {<<"active", "suspended">>, <<"active", "revoked">>, <<"suspended", "revoked">>,
              <<"recovered", "suspended">>, <<"recovered", "revoked">>}

\* Such an adjustment never lifts a suspension or a revocation, whatever other
\* requests, the registrant's too, did to the row since it was asked for.
AdjustOnlyRestricts ==
    [][Adjusts /\ device.status # device'.status
       => <<device.status, device'.status>> \in Penalised]_trustVars

Operating == {"active", "recovered"}

\* The lifecycle thresholds (trust_service.py:160-176) and those of risk-based
\* access (risk_auth_service.py:56-79) agree: such an adjustment of an operating
\* device leaves it in operation exactly when its new score is still let in,
\* and revokes it exactly when that score is blocked.  Rows that are registered
\* are not looked at, so they may be activated with any score.
AccessFollowsStatus ==
    [][Adjusts /\ device.status \in Operating
       => /\ AccessGranted(device'.score) <=> device'.status \in Operating
          /\ AccessTier(device'.score) = "blocked" <=> device'.status = "revoked"]_trustVars

\* The key committed last is active, also after rotations that raced, failed on
\* a taken fingerprint or died: a device with keys is never left without one.
LastKeyActive == keys # <<>> => keys[Len(keys)] \in active

\* Requests never wait for each other for ever: every call ends.
RequestsEnd == \A s \in Session : at[s] \in {"called"} \union Waiting ~> at[s] \in Ended

(***************************************************************************)
(* The inductive invariant.  The row lock makes what its holder loaded the *)
(* committed row, unless it was loaded before, with the caller.            *)
(***************************************************************************)
Stages ==
    \A s \in Session :
        /\ at[s] = "keys" => call[s].op = "register_key" /\ seen[s] # None
        /\ at[s] = "ready" /\ call[s].op # "create" => seen[s] # None
        /\ at[s] = "ready" /\ call[s].op = "adjust" <=> lock = s
        /\ seen[s] # None => device # None
        /\ at[s] \in {"new", "called"} /\ s \notin Registrant => seen[s] = None
LockedRowFresh ==
    lock # None /\ lock \notin Registrant => seen[lock] = device

NoRowNoEvents == device = None => events = <<>>


\* The score and its history as the abstract trust engine.
T == INSTANCE TrustScore WITH
        Client <- Session,
        Careless <- Registrant,
        score <- IF device = None THEN Full ELSE device.score,
        history <- events

\* The interleaved requests implement atomic adjustments and resets: only the
\* registrant's adjustments start from an old score.
ImplementsTrustScore == T!Spec

\* Rows in the table and in sessions show scores the device has had.
ScoresHeld ==
    /\ device # None => device.score \in T!Held
    /\ \A s \in Session : seen[s] # None => seen[s].score \in T!Held

TrustCore == TypeOK /\ Stages /\ LockedRowFresh /\ NoRowNoEvents /\ LastKeyActive
TrustInv == TrustCore /\ ScoresHeld

(***************************************************************************)
(* What the documentation says and the code does not do                    *)
(***************************************************************************)
\* trust_event.py:15: "Records every trust score change for a device."
EveryChangeRecorded ==
    NobodyResets =>
        /\ \A i \in DOMAIN events : ~Gap(i)
        /\ device # None => device.score = ScoreAfter(Len(events))

\* device_key.py:19: "Only one active key per device at any time."
OneActiveKey == \A j, k \in active : j = k
=============================================================================
