---------------------------- MODULE DeviceProofs ----------------------------
(***************************************************************************)
(* Proofs about DeviceTrust for any number of requests, keys and calls.    *)
(* Any of them may come from the user who registered the device: such a    *)
(* request may have loaded the row before it locked it, so what the row    *)
(* lock is for is stated of the adjustments the others make.               *)
(***************************************************************************)
EXTENDS DeviceTrust, TLAPS

-----------------------------------------------------------------------------
(***************************************************************************)
(* The arithmetic of an adjustment                                         *)
(***************************************************************************)
LEMMA MatrixType == \A e \in TrustEventType : MatrixDelta(e) \in Int
  BY DEF MatrixDelta, TrustEventType, TRUST_SCORE_MATRIX

LEMMA ClampType == \A x \in Int : Clamp(x) \in Scores
  BY DEF Clamp, Scores, Full

LEMMA AdjustCall ==
    ASSUME NEW c \in Call, c.op = "adjust"
    PROVE  c.event \in TrustEventType /\ c.change \in Int \union {None}
  BY CallAssumption DEF Calls

LEMMA KeyCall ==
    ASSUME NEW c \in Call, c.op = "register_key"
    PROVE  c.key \in Key
  BY CallAssumption DEF Calls

LEMMA PatchCall ==
    ASSUME NEW c \in Call, c.op = "patch"
    PROVE  c.status \in DeviceLifecycleStatus
  BY CallAssumption DEF Calls

LEMMA CallOps ==
    ASSUME NEW c \in Call
    PROVE  c.op \in {"create", "reset", "patch", "register_key", "adjust"}
  BY CallAssumption DEF Calls

LEMMA DeltaType ==
    ASSUME NEW c \in Call, c.op = "adjust", NEW status \in DeviceLifecycleStatus
    PROVE  /\ Delta(status, c) \in Int
           /\ status \in Frozen => Delta(status, c) <= 0
<1>1. MatrixDelta(c.event) \in Int
  BY MatrixType, AdjustCall
<1>2. FrozenDelta(c.event) \in Int /\ FrozenDelta(c.event) <= 0
  BY <1>1 DEF FrozenDelta
<1> QED BY <1>1, <1>2, AdjustCall DEF Delta

\* An adjustment yields a row; it raises no frozen score and only restricts.
LEMMA AdjustedRow ==
    ASSUME NEW c \in Call, c.op = "adjust", NEW row \in DeviceRow
    PROVE  /\ Adjusted(row, c) \in DeviceRow
           /\ row.status \in Frozen => Adjusted(row, c).score <= row.score
           /\ row.status # Adjusted(row, c).status
              => <<row.status, Adjusted(row, c).status>> \in Penalised
<1>1. row.status \in DeviceLifecycleStatus /\ row.score \in Scores
  BY DEF DeviceRow
<1>2. PICK d \in Int : d = Delta(row.status, c) /\ (row.status \in Frozen => d <= 0)
  BY <1>1, DeltaType
<1>3. PICK after \in Scores : after = Clamp(row.score + d)
  BY <1>1, ClampType DEF Scores, Full
<1>4. row.status \in Frozen => after <= row.score
  BY <1>1, <1>2, <1>3 DEF Clamp, Scores, Full
<1>5. Adjusted(row, c) = [status |-> Evaluate(row.status, after), score |-> after]
  BY <1>2, <1>3 DEF Adjusted
<1>6. Evaluate(row.status, after) \in {row.status, "revoked", "suspended"}
  BY DEF Evaluate
<1>7. row.status # Evaluate(row.status, after)
      => <<row.status, Evaluate(row.status, after)>> \in Penalised
  <2>1. SUFFICES ASSUME row.status # Evaluate(row.status, after)
                 PROVE  <<row.status, Evaluate(row.status, after)>> \in Penalised
    OBVIOUS
  <2>2. /\ row.status \in {"active", "suspended", "recovered"}
        /\ \/ Evaluate(row.status, after) = "revoked"
           \/ Evaluate(row.status, after) = "suspended" /\ row.status # "suspended"
    BY <1>1, <2>1 DEF Evaluate, DeviceLifecycleStatus
  <2> QED BY <2>2 DEF Penalised
<1> QED BY <1>1, <1>4, <1>5, <1>6, <1>7 DEF DeviceRow, DeviceLifecycleStatus

LEMMA FlushedRow ==
    ASSUME NEW s \in Session, device \in DeviceRow, seen[s] \in DeviceRow, NEW row \in DeviceRow
    PROVE  /\ Flushed(s, row) \in DeviceRow
           /\ seen[s] = device => Flushed(s, row) = row
  BY DEF Flushed, DeviceRow

LEMMA RowIsNotNone == \A row \in DeviceRow : row # None
  BY NoneAssumption

LEMMA NewDeviceRow == NewDevice \in DeviceRow
  BY DEF NewDevice, DeviceRow, DeviceLifecycleStatus, Scores, Full
-----------------------------------------------------------------------------
(***************************************************************************)
(* The inductive invariant                                                 *)
(***************************************************************************)
LEMMA InitTrust == Init => TrustCore
<1> SUFFICES ASSUME Init PROVE TrustCore
  OBVIOUS
<1>1. TypeOK
  BY NewDeviceRow DEF Init, TypeOK
<1>2. Stages
  BY NoneAssumption DEF Init, Stages
<1>3. LockedRowFresh /\ LastKeyActive /\ NoRowNoEvents
  BY DEF Init, LockedRowFresh, LastKeyActive, NoRowNoEvents
<1> QED BY <1>1, <1>2, <1>3 DEF TrustCore

LEMMA KeepTrust ==
    ASSUME TrustCore, UNCHANGED vars
    PROVE  TrustCore'
  BY DEF TrustCore, TypeOK, Stages, LockedRowFresh, LastKeyActive, NoRowNoEvents, vars, trustVars, requestVars

\* Steps that only read.
LEMMA ReadSteps ==
    ASSUME TrustCore, NEW s \in Session,
           Authenticate(s) \/ CheckName(s) \/ LoadDevice(s) \/ LoadKeys(s)
    PROVE  TrustCore'
<1> USE DEF TrustCore
<1>1. UNCHANGED <<device, keys, active, events, lock, call>>
  BY DEF Authenticate, CheckName, LoadDevice, LoadKeys, trustVars
<1>2. at[s] # "ready" /\ \A r \in Session \ {s} : at'[r] = at[r] /\ seen'[r] = seen[r]
  BY DEF Authenticate, CheckName, LoadDevice, LoadKeys, Move, TypeOK
<1>3. at' \in [Session -> {"new", "called"} \union Waiting \union Ended]
  BY DEF Authenticate, CheckName, LoadDevice, LoadKeys, Move, TypeOK, Waiting, Ended
<1>4. seen' \in [Session -> DeviceRow \union {None}]
  BY DEF Authenticate, CheckName, LoadDevice, LoadKeys, Loaded, TypeOK
<1>5. found' \in [Session -> SUBSET Key]
  BY DEF Authenticate, CheckName, LoadDevice, LoadKeys, TypeOK
<1>6. TypeOK'
  BY <1>1, <1>3, <1>4, <1>5 DEF TypeOK
<1>7. /\ at'[s] = "keys" => call[s].op = "register_key" /\ seen'[s] # None
      /\ at'[s] = "ready" /\ call[s].op # "create" => seen'[s] # None
      /\ at'[s] = "ready" => call[s].op # "adjust"
      /\ seen'[s] # None => device # None
      /\ at'[s] \in {"new", "called"} /\ s \notin Registrant => seen'[s] = None
  BY DEF Authenticate, CheckName, LoadDevice, LoadKeys, Loaded, Move, Stages, TypeOK, Ended
<1>8. lock # s
  BY <1>2, NoneAssumption DEF Stages
<1>9. Stages'
  BY <1>1, <1>2, <1>7, <1>8 DEF Stages
<1>10. LockedRowFresh' /\ LastKeyActive' /\ NoRowNoEvents'
  BY <1>1, <1>2, <1>8, NoneAssumption DEF LockedRowFresh, LastKeyActive, NoRowNoEvents, TypeOK
<1> QED BY <1>6, <1>9, <1>10

\* A commit that ends request s: what must be shown of the tables.
LEMMA CommitStep ==
    ASSUME TrustCore, NEW s \in Session, at[s] = "ready", seen[s] = None \/ seen[s] \in DeviceRow,
           device' \in DeviceRow \union {None}, device # None => device' # None,
           keys' \in Seq(Key), active' \subseteq Key, events' \in Seq(TrustEvent),
           LastKeyActive', device' # None \/ UNCHANGED <<device, events>>,
           UNCHANGED <<call, seen, found>>,
           Move(s, "done") \/ Move(s, "failed"),
           \/ lock' = lock /\ lock # s /\ (device' = device \/ lock = None)
           \/ lock = s /\ lock' = None
    PROVE  TrustCore'
<1> USE DEF TrustCore
<1>1. /\ at' \in [Session -> {"new", "called"} \union Waiting \union Ended]
      /\ at'[s] \in {"done", "failed"}
      /\ \A r \in Session \ {s} : at'[r] = at[r]
  BY DEF Move, TypeOK, Ended
<1>2. lock' \in Session \union {None} /\ lock' # s
  BY NoneAssumption DEF TypeOK
<1>3. TypeOK'
  BY <1>1, <1>2 DEF TypeOK
<1>4. \A r \in Session \ {s} : lock' = r <=> lock = r
  BY NoneAssumption
<1>5. Stages'
  BY <1>1, <1>2, <1>4 DEF Stages
<1>6. LockedRowFresh' /\ NoRowNoEvents'
  BY DEF LockedRowFresh, NoRowNoEvents
<1> QED BY <1>3, <1>5, <1>6

LEMMA ReadyToFlush ==
    ASSUME TrustCore, NEW s \in Session, at[s] = "ready", call[s].op # "create"
    PROVE  seen[s] \in DeviceRow /\ device \in DeviceRow
  BY DEF TrustCore, Stages, TypeOK

LEMMA NotLocked ==
    ASSUME TrustCore, NEW s \in Session, call[s].op # "adjust" \/ at[s] # "ready"
    PROVE  lock # s
  BY DEF TrustCore, Stages

LEMMA CreateStep ==
    ASSUME TrustCore, NEW s \in Session, CommitDevice(s)
    PROVE  TrustCore'
<1>1. at[s] = "ready" /\ call[s].op = "create" /\ lock # s
  BY NotLocked DEF CommitDevice
<1>2. seen[s] \in DeviceRow \union {None} /\ (device = None => lock = None)
  BY RowIsNotNone, NoneAssumption DEF TrustCore, TypeOK, Stages
<1>3. /\ device' \in DeviceRow \union {None} /\ (device # None => device' # None)
      /\ device' = device \/ lock = None
  BY <1>2, NewDeviceRow DEF CommitDevice, TrustCore, TypeOK
<1>4. LastKeyActive' /\ UNCHANGED <<keys, active, events, lock, call, seen, found>>
  BY DEF CommitDevice, TrustCore, LastKeyActive
<1>5. device' # None \/ UNCHANGED <<device, events>>
  BY NewDeviceRow, RowIsNotNone DEF CommitDevice
<1> QED BY <1>1, <1>2, <1>3, <1>4, <1>5, CommitStep DEF CommitDevice, TrustCore, TypeOK

LEMMA KeyStep ==
    ASSUME TrustCore, NEW s \in Session, CommitKey(s)
    PROVE  TrustCore'
<1>1. at[s] = "ready" /\ call[s].op = "register_key" /\ lock = None /\ lock # s
  BY NotLocked DEF CommitKey
<1>2. seen[s] \in DeviceRow /\ device \in DeviceRow
  BY <1>1, ReadyToFlush
<1>3. Activated(seen[s]) \in DeviceRow
  BY <1>2 DEF Activated, DeviceRow, DeviceLifecycleStatus
<1>4. device' \in DeviceRow
  BY <1>2, <1>3, FlushedRow DEF CommitKey
<1>5. call[s].key \in Key
  BY <1>1, KeyCall DEF TrustCore, TypeOK
<1>6. keys' \in Seq(Key) /\ active' \subseteq Key /\ LastKeyActive'
  <2>1. keys \in Seq(Key) /\ active \subseteq Key /\ LastKeyActive
    BY DEF TrustCore, TypeOK
  <2>2. CASE keys' = Append(keys, call[s].key) /\ active' = Rotated(s)
    <3>1. /\ keys' \in Seq(Key) /\ Len(keys') = Len(keys) + 1
          /\ keys'[Len(keys) + 1] = call[s].key
      BY <1>5, <2>1, <2>2
    <3>2. call[s].key \in active' /\ active' \subseteq Key
      BY <1>5, <2>1, <2>2 DEF Rotated
    <3> QED BY <3>1, <3>2 DEF LastKeyActive
  <2>3. CASE UNCHANGED <<keys, active>>
    BY <2>1, <2>3 DEF LastKeyActive
  <2> QED BY <2>2, <2>3 DEF CommitKey
<1>7. device' # None
  BY <1>4, RowIsNotNone
<1>8. UNCHANGED <<events, lock, call, seen, found>> /\ (Move(s, "done") \/ Move(s, "failed"))
  BY DEF CommitKey
<1>9. events' \in Seq(TrustEvent)
  BY <1>8 DEF TrustCore, TypeOK
<1> QED BY <1>1, <1>2, <1>4, <1>6, <1>7, <1>8, <1>9, CommitStep

LEMMA StatusStep ==
    ASSUME TrustCore, NEW s \in Session, CommitPatch(s) \/ CommitReset(s)
    PROVE  TrustCore'
<1>1. at[s] = "ready" /\ call[s].op \in {"patch", "reset"} /\ lock # s
  BY NotLocked DEF CommitPatch, CommitReset
<1>2. seen[s] \in DeviceRow /\ device \in DeviceRow
  BY <1>1, ReadyToFlush
<1>3. PICK row \in DeviceRow : MayFlush(s, row) /\ device' = Flushed(s, row)
  <2>1. CASE CommitPatch(s)
    <3>1. call[s].status \in DeviceLifecycleStatus
      BY <2>1, PatchCall DEF CommitPatch, TrustCore, TypeOK
    <3>2. [seen[s] EXCEPT !.status = call[s].status] \in DeviceRow
      BY <3>1, <1>2 DEF DeviceRow
    <3> QED BY <2>1, <3>2 DEF CommitPatch
  <2>2. CASE CommitReset(s)
    BY <2>2, NewDeviceRow DEF CommitReset, NewDevice
  <2> QED BY <2>1, <2>2
<1>4. device' \in DeviceRow /\ (device' = device \/ lock = None)
  BY <1>2, <1>3, FlushedRow DEF MayFlush, Flushed, DeviceRow
<1>5. LastKeyActive' /\ UNCHANGED <<keys, active, events, lock, call, seen, found>>
  BY DEF CommitPatch, CommitReset, TrustCore, LastKeyActive
<1> QED BY <1>1, <1>2, <1>4, <1>5, RowIsNotNone, CommitStep
        DEF CommitPatch, CommitReset, TrustCore, TypeOK

LEMMA LockStep ==
    ASSUME TrustCore, NEW s \in Session, LockDevice(s)
    PROVE  TrustCore'
<1> USE DEF TrustCore
<1>1. UNCHANGED <<device, keys, active, events, call, found>>
      /\ at[s] = "called" /\ call[s].op = "adjust"
  BY DEF LockDevice
<1>2. \A r \in Session \ {s} : at'[r] = at[r] /\ seen'[r] = seen[r]
  BY DEF LockDevice, Move, TypeOK
<1>3. CASE device = None
  <2>1. at' = [at EXCEPT ![s] = "failed"] /\ UNCHANGED <<lock, seen>>
    BY <1>3 DEF LockDevice, Move
  <2>2. TypeOK'
    BY <1>1, <2>1 DEF TypeOK, Ended
  <2>3. at'[s] = "failed" /\ lock # s
    BY <1>1, <2>1, NotLocked DEF TypeOK
  <2>4. Stages'
    BY <1>1, <1>2, <2>1, <2>3 DEF Stages
  <2> QED BY <1>1, <2>1, <2>2, <2>4 DEF LockedRowFresh, LastKeyActive, NoRowNoEvents
<1>4. CASE device # None
  <2>1. /\ at' = [at EXCEPT ![s] = "ready"]
        /\ seen' = [seen EXCEPT ![s] = Loaded(s)]
        /\ lock = None /\ lock' = s
    BY <1>4 DEF LockDevice, Move
  <2>2. Loaded(s) \in DeviceRow /\ (s \notin Registrant => Loaded(s) = device)
    BY <1>1, <1>4 DEF Loaded, TypeOK, Stages
  <2>3. TypeOK'
    BY <1>1, <2>1, <2>2 DEF TypeOK, Waiting
  <2>4. at'[s] = "ready" /\ seen'[s] = Loaded(s) /\ seen'[s] # None
    BY <2>1, <2>2, RowIsNotNone DEF TypeOK
  <2>5. \A r \in Session \ {s} : lock # r /\ lock' # r
    BY <2>1, NoneAssumption
  <2>6. Stages'
    BY <1>1, <1>2, <1>4, <2>1, <2>4, <2>5 DEF Stages
  <2> QED BY <1>1, <2>1, <2>2, <2>3, <2>4, <2>6 DEF LockedRowFresh, LastKeyActive, NoRowNoEvents
<1> QED BY <1>3, <1>4

LEMMA ScoreStep ==
    ASSUME TrustCore, NEW s \in Session, CommitScore(s)
    PROVE  TrustCore'
<1>1. at[s] = "ready" /\ call[s].op = "adjust" /\ call[s] \in Call
  BY DEF CommitScore, TrustCore, TypeOK
<1>2. seen[s] \in DeviceRow /\ device \in DeviceRow /\ lock = s
  BY <1>1, ReadyToFlush DEF TrustCore, Stages
<1>3. PICK row \in DeviceRow : row = Adjusted(seen[s], call[s])
  BY <1>1, <1>2, AdjustedRow
<1>4. device' \in DeviceRow
  BY <1>2, <1>3, FlushedRow DEF CommitScore
<1>5. EventOf(s, row) \in TrustEvent
  BY <1>2, <1>3 DEF EventOf, DeviceRow, TrustEvent
<1>6. events' \in Seq(TrustEvent)
  BY <1>3, <1>5 DEF CommitScore, TrustCore, TypeOK
<1>7. LastKeyActive' /\ UNCHANGED <<keys, active, call, seen, found>> /\ lock' = None
  BY DEF CommitScore, TrustCore, LastKeyActive
<1> QED BY <1>1, <1>2, <1>4, <1>6, <1>7, RowIsNotNone, CommitStep
        DEF CommitScore, TrustCore, TypeOK

LEMMA AbortStep ==
    ASSUME TrustCore, NEW s \in Session, Abort(s)
    PROVE  TrustCore'
<1> USE DEF TrustCore
<1>1. /\ at' = [at EXCEPT ![s] = "failed"] /\ lock' = IF lock = s THEN None ELSE lock
      /\ UNCHANGED <<device, keys, active, events, call, seen, found>>
  BY DEF Abort, Move
<1>2. TypeOK'
  BY <1>1 DEF TypeOK, Ended
<1>3. at'[s] = "failed" /\ \A r \in Session \ {s} : at'[r] = at[r]
  BY <1>1 DEF TypeOK
<1>4. lock' # s /\ \A r \in Session \ {s} : lock' = r <=> lock = r
  BY <1>1, NoneAssumption
<1>5. Stages'
  BY <1>1, <1>3, <1>4 DEF Stages
<1> QED BY <1>1, <1>2, <1>5 DEF LockedRowFresh, LastKeyActive, NoRowNoEvents

LEMMA TrustStep == TrustCore /\ [Next]_vars => TrustCore'
<1> SUFFICES ASSUME TrustCore, [Next]_vars PROVE TrustCore'
  OBVIOUS
<1>1. CASE UNCHANGED vars
  BY <1>1, KeepTrust
<1>2. ASSUME NEW s \in Session, Step(s) PROVE TrustCore'
  BY <1>2, ReadSteps, CreateStep, KeyStep, StatusStep, LockStep, ScoreStep DEF Step
<1>3. ASSUME NEW s \in Session, Abort(s) PROVE TrustCore'
  BY <1>3, AbortStep
<1> QED BY <1>1, <1>2, <1>3 DEF Next

LEMMA CoreInvariant == Spec => []TrustCore
  BY InitTrust, TrustStep, PTL DEF Spec

\* The key committed last is always active, whoever races.
THEOREM TrustLastKeyActive == Spec => []LastKeyActive
<1>1. TrustCore => LastKeyActive
  BY DEF TrustCore
<1> QED BY <1>1, CoreInvariant, PTL
-----------------------------------------------------------------------------
(***************************************************************************)
(* What the row lock buys.  A request that did not load the row with its   *)
(* caller loads it under the lock, so its COMMIT works on the committed    *)
(* row; every other COMMIT keeps the events and writes a score only to     *)
(* reset it.                                                               *)
(***************************************************************************)
\* Of any adjustment: the event, and the score it leaves.
LEMMA ScoreCommit ==
    ASSUME TrustCore, NEW s \in Session, CommitScore(s)
    PROVE  /\ device \in DeviceRow /\ seen[s] \in DeviceRow /\ device' \in DeviceRow
           /\ call[s] \in Call /\ call[s].op = "adjust"
           /\ \E row \in DeviceRow :
                 /\ row = Adjusted(seen[s], call[s])
                 /\ events' = Append(events, EventOf(s, row))
                 /\ device'.score = IF row.score = seen[s].score THEN device.score ELSE row.score
                 /\ s \notin Registrant => seen[s] = device /\ device' = row
<1>1. at[s] = "ready" /\ call[s].op = "adjust" /\ call[s] \in Call
  BY DEF CommitScore, TrustCore, TypeOK
<1>2. lock = s /\ seen[s] \in DeviceRow /\ device \in DeviceRow
  BY <1>1, ReadyToFlush DEF TrustCore, Stages
<1>3. s \notin Registrant => seen[s] = device
  BY <1>2, NoneAssumption DEF TrustCore, LockedRowFresh
<1>4. PICK row \in DeviceRow : row = Adjusted(seen[s], call[s])
  BY <1>1, <1>2, AdjustedRow
<1>5. device' = Flushed(s, row) /\ events' = Append(events, EventOf(s, row))
  BY <1>4 DEF CommitScore
<1>6. device' \in DeviceRow /\ (seen[s] = device => device' = row)
  BY <1>2, <1>5, FlushedRow
<1>7. device'.score = IF row.score = seen[s].score THEN device.score ELSE row.score
  BY <1>5 DEF Flushed
<1> QED BY <1>1, <1>2, <1>3, <1>4, <1>5, <1>6, <1>7

\* An adjustment that is not the registrant's.
LEMMA FreshCommit ==
    ASSUME TrustCore, NEW s \in Session, CommitScore(s), Adjusts
    PROVE  /\ device \in DeviceRow /\ call[s] \in Call /\ call[s].op = "adjust"
           /\ device' = Adjusted(device, call[s])
<1>1. PICK row \in DeviceRow :
         /\ row = Adjusted(seen[s], call[s])
         /\ events' = Append(events, EventOf(s, row))
         /\ s \notin Registrant => seen[s] = device /\ device' = row
  BY ScoreCommit
<1>2. events \in Seq(TrustEvent)
  BY DEF TrustCore, TypeOK
<1>3. events'[Len(events')] = EventOf(s, row)
  BY <1>1, <1>2
<1>4. s \notin Registrant
  BY <1>3 DEF Adjusts, EventOf
<1> QED BY <1>1, <1>4, ScoreCommit

Resets(s) == at[s] = "ready" /\ call[s].op = "reset"

LEMMA OtherCommits ==
    ASSUME TrustCore, NEW s \in Session, Step(s) \/ Abort(s), ~CommitScore(s)
    PROVE  /\ events' = events
           /\ device = None => device' \in {None, NewDevice}
           /\ device # None => device' # None
           /\ device # None => device'.score = device.score \/ (device'.score = Full /\ Resets(s))
<1>1. CASE device' = device /\ events' = events
  BY <1>1
<1>2. CASE CommitDevice(s)
  BY <1>2, NewDeviceRow, RowIsNotNone DEF CommitDevice
<1>3. CASE CommitKey(s) \/ CommitPatch(s)
  <2>1. seen[s] \in DeviceRow /\ device \in DeviceRow /\ device # None
    BY <1>3, ReadyToFlush, RowIsNotNone DEF CommitKey, CommitPatch
  <2>3. ASSUME NEW row \in DeviceRow, row.score = seen[s].score, device' = Flushed(s, row)
        PROVE  device'.score = device.score /\ device' # None
    BY <2>1, <2>3, FlushedRow, RowIsNotNone DEF Flushed
  <2>4. Activated(seen[s]) \in DeviceRow /\ Activated(seen[s]).score = seen[s].score
    BY <2>1 DEF Activated, DeviceRow, DeviceLifecycleStatus
  <2>5. CASE CommitKey(s)
    <3>1. device' = device \/ device' = Flushed(s, Activated(seen[s]))
      BY <2>5 DEF CommitKey
    <3>2. events' = events
      BY <2>5 DEF CommitKey
    <3> QED BY <2>1, <2>3, <2>4, <3>1, <3>2
  <2>6. CASE CommitPatch(s)
    <3>1. call[s].status \in DeviceLifecycleStatus
      BY <2>6, PatchCall DEF CommitPatch, TrustCore, TypeOK
    <3>2. /\ [seen[s] EXCEPT !.status = call[s].status] \in DeviceRow
          /\ [seen[s] EXCEPT !.status = call[s].status].score = seen[s].score
      BY <3>1, <2>1 DEF DeviceRow
    <3>3. device' = Flushed(s, [seen[s] EXCEPT !.status = call[s].status]) /\ events' = events
      BY <2>6 DEF CommitPatch
    <3>4. device'.score = device.score /\ device' # None
      BY <2>3, <3>2, <3>3
    <3> QED BY <2>1, <3>3, <3>4
  <2> QED BY <1>3, <2>5, <2>6
<1>4. CASE CommitReset(s)
  <2>1. seen[s] \in DeviceRow /\ device \in DeviceRow /\ Resets(s) /\ events' = events
    BY <1>4, ReadyToFlush DEF CommitReset, Resets
  <2>2. device' = Flushed(s, NewDevice)
    BY <1>4 DEF CommitReset, NewDevice
  <2>3. device' \in DeviceRow
    BY <2>1, <2>2, FlushedRow, NewDeviceRow
  <2>4. device'.score \in {device.score, Full}
    BY <2>2 DEF Flushed, NewDevice
  <2>5. device # None /\ device' # None
    BY <2>1, <2>3, RowIsNotNone
  <2> QED BY <2>1, <2>4, <2>5
<1> QED
  BY <1>1, <1>2, <1>3, <1>4 DEF Step, Abort, Authenticate, CheckName, LoadDevice, LoadKeys,
     LockDevice, trustVars

\* Rows in the table and in sessions show scores the device has had.
LEMMA ScoresStay == TrustInv /\ [Next]_vars => ScoresHeld'
<1> SUFFICES ASSUME TrustInv, [Next]_vars PROVE ScoresHeld'
  OBVIOUS
<1> USE DEF TrustInv
<1>0. Full \in T!Held /\ events \in Seq(TrustEvent)
  BY DEF T!Held, TrustCore, TypeOK
<1>1. CASE UNCHANGED vars
  BY <1>1 DEF ScoresHeld, T!Held, vars, trustVars, requestVars
<1>2. ASSUME NEW s \in Session, CommitScore(s) PROVE ScoresHeld'
  <2>1. PICK row \in DeviceRow :
           /\ events' = Append(events, EventOf(s, row))
           /\ device'.score \in {device.score, row.score}
    BY <1>2, ScoreCommit
  <2>2. T!Held' = T!Held \union {row.score}
    <3>1. DOMAIN events' = DOMAIN events \union {Len(events) + 1}
      BY <1>0, <2>1
    <3>2. \A i \in DOMAIN events : events'[i] = events[i]
      BY <1>0, <2>1
    <3>3. events'[Len(events) + 1].after = row.score
      BY <1>0, <2>1 DEF EventOf
    <3>4. {events'[i].after : i \in DOMAIN events'}
            = {events[i].after : i \in DOMAIN events} \union {row.score}
      BY <3>1, <3>2, <3>3
    <3> QED BY <3>4 DEF T!Held
  <2>3. device # None /\ seen' = seen
    BY <1>2, ScoreCommit, RowIsNotNone DEF CommitScore
  <2> QED BY <2>1, <2>2, <2>3 DEF ScoresHeld
<1>3. ASSUME NEW s \in Session, Step(s) \/ Abort(s), ~CommitScore(s) PROVE ScoresHeld'
  <2>1. /\ events' = events
        /\ device = None => device' \in {None, NewDevice}
        /\ device # None => device' # None /\ device'.score \in {device.score, Full}
    BY <1>3, OtherCommits
  <2>2. T!Held' = T!Held
    BY <2>1 DEF T!Held
  <2>3. device' # None => device'.score \in T!Held
    BY <1>0, <2>1 DEF ScoresHeld, NewDevice
  <2>4. \A r \in Session : seen'[r] \in {seen[r], device, None}
    BY <1>3 DEF Step, Abort, Authenticate, CheckName, CommitDevice, LoadDevice, LoadKeys,
       CommitKey, CommitPatch, CommitReset, LockDevice, CommitScore, Loaded, TrustCore, TypeOK
  <2>5. \A r \in Session : seen'[r] # None => seen'[r].score \in T!Held
    BY <2>4 DEF ScoresHeld
  <2> QED BY <2>2, <2>3, <2>5 DEF ScoresHeld
<1> QED BY <1>1, <1>2, <1>3 DEF Next

\* The invariant of the device row, its lock, its keys, its events and its scores.
THEOREM TrustInvariant == Spec => []TrustInv
<1>1. Init => TrustInv
  <2>1. Init => ScoresHeld
    BY DEF Init, ScoresHeld, T!Held, NewDevice
  <2> QED BY <2>1, InitTrust DEF TrustInv
<1>2. TrustInv /\ [Next]_vars => TrustInv'
  BY TrustStep, ScoresStay DEF TrustInv
<1> QED BY <1>1, <1>2, PTL DEF Spec

\* No adjustment but a registrant's raises a suspended or revoked score.
THEOREM FrozenScores == Spec => FrozenNeverGains
<1> DEFINE NoGain == Adjusts /\ device # None /\ device.status \in Frozen
                     => device'.score <= device.score
<1>1. ASSUME TrustCore, NEW s \in Session, Step(s) \/ Abort(s) PROVE NoGain
  <2>1. CASE CommitScore(s)
    BY <1>1, <2>1, FreshCommit, AdjustedRow
  <2> QED BY <1>1, <2>1, OtherCommits DEF Adjusts
<1>2. TrustCore /\ [Next]_vars => [NoGain]_trustVars
  BY <1>1 DEF Next, vars
<1> QED BY <1>2, CoreInvariant, PTL DEF Spec, FrozenNeverGains

\* Adjustments move the status towards revocation only, but for a registrant's.
THEOREM AdjustmentsRestrict == Spec => AdjustOnlyRestricts
<1> DEFINE Restricts == Adjusts /\ device.status # device'.status
                        => <<device.status, device'.status>> \in Penalised
<1>1. ASSUME TrustCore, NEW s \in Session, Step(s) \/ Abort(s) PROVE Restricts
  <2>1. CASE CommitScore(s)
    BY <1>1, <2>1, FreshCommit, AdjustedRow
  <2> QED BY <1>1, <2>1, OtherCommits DEF Adjusts
<1>2. TrustCore /\ [Next]_vars => [Restricts]_trustVars
  BY <1>1 DEF Next, vars
<1> QED BY <1>2, CoreInvariant, PTL DEF Spec, AdjustOnlyRestricts

\* The tier of risk-based access and the status an adjustment leaves agree.
LEMMA TierAgrees ==
    ASSUME NEW c \in Call, c.op = "adjust", NEW row \in DeviceRow, row.status \in Operating
    PROVE  LET after == Adjusted(row, c)
           IN  /\ AccessGranted(after.score) <=> after.status \in Operating
               /\ AccessTier(after.score) = "blocked" <=> after.status = "revoked"
<1>1. row.status \in DeviceLifecycleStatus /\ row.score \in Scores
  BY DEF DeviceRow
<1>2. PICK d \in Int : d = Delta(row.status, c)
  BY <1>1, DeltaType
<1>3. PICK after \in Scores : after = Clamp(row.score + d)
  BY <1>1, ClampType DEF Scores, Full
<1>4. Adjusted(row, c) = [status |-> Evaluate(row.status, after), score |-> after]
  BY <1>2, <1>3 DEF Adjusted
<1>5. /\ AccessGranted(after) <=> Evaluate(row.status, after) \in Operating
      /\ AccessTier(after) = "blocked" <=> Evaluate(row.status, after) = "revoked"
  BY DEF AccessGranted, AccessTier, Evaluate, Operating, Scores, Full, SuspendBelow, RevokeBelow
<1> QED BY <1>4, <1>5

\* An adjustment of an operating device, but for a registrant's, keeps it operating
\* exactly while risk-based access lets its score in.
THEOREM AccessFollows == Spec => AccessFollowsStatus
<1> DEFINE Follows == Adjusts /\ device.status \in Operating
                      => /\ AccessGranted(device'.score) <=> device'.status \in Operating
                         /\ AccessTier(device'.score) = "blocked" <=> device'.status = "revoked"
<1>1. ASSUME TrustCore, NEW s \in Session, Step(s) \/ Abort(s) PROVE Follows
  <2>1. CASE CommitScore(s)
    BY <1>1, <2>1, FreshCommit, TierAgrees
  <2> QED BY <1>1, <2>1, OtherCommits DEF Adjusts
<1>2. TrustCore /\ [Next]_vars => [Follows]_trustVars
  BY <1>1 DEF Next, vars
<1> QED BY <1>2, CoreInvariant, PTL DEF Spec, AccessFollowsStatus

\* Where nobody resets the device the events explain its score, however
\* penalties race, but for gaps next to a registrant's event.
THEOREM ChangesRecorded == Spec => []GapsAtRegistrants
<1> DEFINE Explained ==
             /\ \A i \in DOMAIN events : Gap(i) => ByRegistrant(i) \/ ByRegistrant(i - 1)
             /\ device # None /\ ~ByRegistrant(Len(events)) => device.score = ScoreAfter(Len(events))
<1>1. Init => GapsAtRegistrants
  BY DEF Init, GapsAtRegistrants, ScoreAfter, NewDevice
<1>2. TrustCore /\ GapsAtRegistrants /\ [Next]_vars => GapsAtRegistrants'
  <2>1. ASSUME TrustCore, Explained, NEW s \in Session, CommitScore(s)
        PROVE  Explained'
    <3>1. PICK row \in DeviceRow :
             /\ events' = Append(events, EventOf(s, row))
             /\ s \notin Registrant => seen[s] = device /\ device' = row
      BY <2>1, ScoreCommit
    <3>2. device # None /\ events \in Seq(TrustEvent)
      BY <2>1, ScoreCommit, RowIsNotNone DEF TrustCore, TypeOK
    <3>3. /\ Len(events') = Len(events) + 1 /\ events'[Len(events')] = EventOf(s, row)
          /\ \A i \in 1..Len(events) : events'[i] = events[i]
          /\ Len(events) \in Nat
      BY <3>1, <3>2
    <3>4. \A i \in 0..Len(events) :
             (ScoreAfter(i))' = ScoreAfter(i) /\ (ByRegistrant(i)' <=> ByRegistrant(i))
      BY <3>2, <3>3 DEF ScoreAfter, ByRegistrant
    <3>5. ByRegistrant(Len(events))' <=> s \in Registrant
      BY <3>3 DEF ByRegistrant, EventOf
    <3>6. ASSUME NEW i \in DOMAIN events', Gap(i)'
          PROVE  ByRegistrant(i)' \/ ByRegistrant(i - 1)'
      <4>1. i \in 1..Len(events) + 1
        BY <3>1, <3>2, <3>3
      <4>2. CASE i = Len(events) + 1 /\ s \notin Registrant
        <5>1. events'[i].before = device.score
          BY <3>1, <3>3, <4>2 DEF EventOf
        <5>2. device.score # ScoreAfter(Len(events))
          BY <3>3, <3>4, <3>6, <4>2, <5>1 DEF Gap
        <5>3. ByRegistrant(Len(events))
          BY <2>1, <3>2, <5>2
        <5> QED BY <3>3, <3>4, <4>2, <5>3
      <4>3. CASE i = Len(events) + 1 /\ s \in Registrant
        BY <3>3, <4>3 DEF ByRegistrant, EventOf
      <4>4. CASE i \in 1..Len(events)
        <5>1. i - 1 \in 0..Len(events) /\ i \in 0..Len(events) /\ i \in DOMAIN events
          BY <3>2, <3>3, <4>4
        <5>2. Gap(i)
          BY <3>3, <3>4, <3>6, <4>4, <5>1 DEF Gap
        <5>3. ByRegistrant(i) \/ ByRegistrant(i - 1)
          BY <2>1, <5>1, <5>2
        <5> QED BY <3>4, <5>1, <5>3
      <4> QED BY <3>3, <4>1, <4>2, <4>3, <4>4
    <3>7. ~ByRegistrant(Len(events))' => device'.score = (ScoreAfter(Len(events)))'
      <4>1. SUFFICES ASSUME s \notin Registrant PROVE device'.score = (ScoreAfter(Len(events)))'
        BY <3>5
      <4>2. device'.score = events'[Len(events')].after
        BY <3>1, <3>3, <4>1 DEF EventOf
      <4> QED BY <3>3, <4>2 DEF ScoreAfter
    <3> QED BY <3>6, <3>7
  <2>2. ASSUME TrustCore, Explained, NEW s \in Session, Step(s) \/ Abort(s),
               ~CommitScore(s), NobodyResets
        PROVE  Explained'
    <3>1. ~Resets(s)
      BY <2>2 DEF Resets, NobodyResets
    <3>2. /\ events' = events
          /\ device = None => device' \in {None, NewDevice}
          /\ device # None => device'.score = device.score
      BY <2>2, <3>1, OtherCommits
    <3>3. \A n : /\ (ScoreAfter(n))' = ScoreAfter(n) /\ (Gap(n)' <=> Gap(n))
                 /\ ByRegistrant(n)' <=> ByRegistrant(n)
      BY <3>2 DEF ScoreAfter, Gap, ByRegistrant
    <3>4. device' # None /\ ~ByRegistrant(Len(events)) => device'.score = ScoreAfter(Len(events))
      <4>1. CASE device = None
        BY <2>2, <3>2, <4>1 DEF TrustCore, NoRowNoEvents, ScoreAfter, NewDevice
      <4>2. CASE device # None
        BY <2>2, <3>2, <4>2
      <4> QED BY <4>1, <4>2
    <3> QED BY <2>2, <3>2, <3>3, <3>4
  <2>3. [Next]_vars => call' = call
    BY DEF Next, Step, Abort, Authenticate, CheckName, CommitDevice, LoadDevice, LoadKeys,
       CommitKey, CommitPatch, CommitReset, LockDevice, CommitScore, vars, requestVars
  <2>4. TrustCore /\ Explained /\ NobodyResets /\ [Next]_vars => Explained'
    <3>1. UNCHANGED vars => (Explained' <=> Explained)
      BY DEF vars, trustVars, ScoreAfter, Gap, ByRegistrant
    <3> HIDE DEF Explained
    <3> QED BY <2>1, <2>2, <3>1 DEF Next
  <2> QED BY <2>3, <2>4 DEF GapsAtRegistrants, NobodyResets
<1> QED BY <1>1, <1>2, CoreInvariant, PTL DEF Spec

\* The interleaved requests are atomic adjustments and resets, and only the
\* registrant's adjustments start from an old score.
THEOREM RefinesTrustScore == Spec => ImplementsTrustScore
<1> DEFINE score == IF device = None THEN Full ELSE device.score
<1>1. Init => T!Init
  BY DEF Init, T!Init, NewDevice
<1>2. TrustInv /\ [Next]_vars => [T!Next]_<<score, events>>
  <2>1. ASSUME TrustInv, NEW s \in Session, CommitScore(s) PROVE T!Next
    <3>0. TrustCore
      BY <2>1 DEF TrustInv
    <3>1. PICK row \in DeviceRow :
             /\ events' = Append(events, EventOf(s, row))
             /\ device'.score = IF row.score = seen[s].score THEN device.score ELSE row.score
             /\ s \notin Registrant => seen[s] = device /\ device' = row
      BY <2>1, <3>0, ScoreCommit
    <3>2. device # None /\ device' # None /\ seen[s] # None
      BY <2>1, <3>0, ScoreCommit, RowIsNotNone
    <3>3. seen[s].score \in T!Held /\ row.score \in 0..Full
      BY <2>1, <3>2 DEF TrustInv, ScoresHeld, DeviceRow, Scores
    <3>4. T!Adjust(s, seen[s].score, row.score)
      BY <3>1, <3>2 DEF T!Adjust, EventOf
    <3> QED BY <3>3, <3>4 DEF T!Next
  <2>2. ASSUME TrustInv, NEW s \in Session, Step(s) \/ Abort(s), ~CommitScore(s)
        PROVE  [T!Next]_<<score, events>>
    <3>1. /\ events' = events
          /\ device = None => device' \in {None, NewDevice}
          /\ device # None => device' # None /\ device'.score \in {device.score, Full}
      BY <2>2, OtherCommits DEF TrustInv
    <3>2. score' \in {score, Full}
      BY <3>1 DEF NewDevice
    <3> QED BY <3>1, <3>2 DEF T!Next, T!Reset
  <2> QED BY <2>1, <2>2 DEF Next, vars, trustVars
<1> QED BY <1>1, <1>2, TrustInvariant, PTL DEF Spec, ImplementsTrustScore, T!Spec
=============================================================================
