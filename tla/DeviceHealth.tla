---------------------------- MODULE DeviceHealth -----------------------------
(***************************************************************************)
(* DeviceHealthService (backend/app/services/device_health_service.py): the *)
(* one row of device_health that belongs to a device, counted up by        *)
(* record_auth_event and recomputed by get_device_health, without a lock,  *)
(* while the trust engine (module TrustScore) moves the device's score.    *)
(*                                                                         *)
(* A Session is one request and every action one round trip to PostgreSQL  *)
(* under READ COMMITTED.  Between them a session works on the row it       *)
(* loaded; its COMMIT writes the columns that differ from that row.        *)
(*                                                                         *)
(* Trust scores are in half points as in DeviceTrust, the health score and *)
(* the trend in hundredths: 10000 is a health_score of 100.0.              *)
(***************************************************************************)
EXTENDS Integers, Sequences, FiniteSets

CONSTANTS Session,     \* the requests
          Registrant,  \* the requests of the user who registered the device
          Call,        \* what requests ask for, out of Calls
          None,        \* Python's None: no row
          TrustLevels, \* the scores the trust engine moves the device to
          MaxEvents,   \* bound on the trust events
          Recency      \* recency components, in points, that occur

Calls == {"success", "failure", "get"}
Full == 200
MaxHealth == 10000

\* The service's window of trust events, and what a new row holds.
TrendWindow == 50
Rate == Nat \X Nat
NewHealth ==
    [total |-> 0, successes |-> 0, failures |-> 0, streak |-> 0,
     rate |-> <<0, 1>>, answered |-> FALSE, trend |-> 0, score |-> 5000]

HealthRow ==
    [total : Nat, successes : Nat, failures : Nat, streak : Nat, rate : Rate,
     answered : BOOLEAN, trend : -100..100, score : 0..MaxHealth]

ASSUME HealthAssumption ==
    /\ IsFiniteSet(Session) /\ Registrant \subseteq Session
    /\ Call \subseteq Calls
    /\ None \notin HealthRow \union Calls
    /\ TrustLevels \subseteq 0..Full /\ MaxEvents \in Nat
    /\ Recency \subseteq 0..100

VARIABLES row,      \* the committed row of device_health, or None
          score,    \* devices.trust_score
          history,  \* trust_events of the device, oldest first
          call,     \* what each request asks for; None before it starts or once it failed
          at,       \* where it stands
          held,     \* the row in its identity map, or None
          trust,    \* the trust score it has read
          slope,    \* the trust trend it has computed
          stale     \* whether some request committed over a row it had not loaded

trustVars == <<score, history>>
requestVars == <<call, at, held, trust, slope>>
vars == <<row, trustVars, requestVars, stale>>

\* Who adjusts the score, and on which row, plays no part here.
Trust == INSTANCE TrustScore WITH Client <- {"engine"}, Careless <- {"engine"}

InFlight == {"finding", "creating", "refreshing", "scoring", "trending", "committing"}
Ended == {"done", "conflict", "aborted"}
-----------------------------------------------------------------------------
(***************************************************************************)
(* compute_trust_trend and _recompute_health_score                         *)
(***************************************************************************)
MinOf(a, b) == IF a < b THEN a ELSE b
Within(low, x, high) == IF x < low THEN low ELSE IF x > high THEN high ELSE x

\* The scores after the last TrendWindow events, in chronological order.
Recent == SubSeq(history, Len(history) - MinOf(TrendWindow, Len(history)) + 1, Len(history))

Total(f) ==
    LET sum[k \in 0..Len(f)] == IF k = 0 THEN 0 ELSE sum[k - 1] + f[k]
    IN  sum[Len(f)]

\* The slope of the least-squares line through the scores at 0, 1, 2, ..., in
\* hundredths of a point, clipped to one point per event.
Trend ==
    LET n == Len(Recent)
        x == [i \in 1..n |-> i - 1]
        y == [i \in 1..n |-> Recent[i].after]
        covariance == n * Total([i \in 1..n |-> x[i] * y[i]]) - Total(x) * Total(y)
        variance == n * Total([i \in 1..n |-> x[i] * x[i]]) - Total(x) * Total(x)
    IN  IF n < 2 THEN 0
        ELSE Within(-100, (50 * covariance) \div variance, 100)

\* scalar_one_or_none() or 100.0: a score of 0.0 is false in Python.
TrustOrFull(t) == IF t = 0 THEN Full ELSE t

\* 40, 30, 20 and 10 percent of rate, trust, trend and recency.
AuthPart(h) == IF h.total = 0 THEN 2000 ELSE (4000 * h.rate[1]) \div h.rate[2]
TrustPart(t) == 15 * TrustOrFull(t)
TrendPart(v) == 10 * (v + 100)
RecencyPart(h, r) == IF h.answered THEN 10 * r ELSE 0

HealthScore(h, t, v, r) ==
    Within(0, AuthPart(h) + TrustPart(t) + TrendPart(v) + RecencyPart(h, r), MaxHealth)

\* record_auth_event on the row in memory: counts, streak and rate.
Counted(h, c) ==
    IF c = "get" THEN h
    ELSE LET ok == c = "success"
             wins == IF ok THEN h.successes + 1 ELSE h.successes
         IN  [h EXCEPT !.total = @ + 1,
                       !.successes = wins,
                       !.failures = IF ok THEN @ ELSE @ + 1,
                       !.streak = IF ok THEN 0 ELSE @ + 1,
                       !.answered = ok \/ @,
                       !.rate = <<wins, h.total + 1>>]

Scored(h, t, v, r) == [h EXCEPT !.trend = v, !.score = HealthScore(h, t, v, r)]

\* Rates are floats: equal when the fractions are.
Same(p, q) == p[1] * q[2] = q[1] * p[2]

\* UPDATE writes the columns of `new' that differ from the row loaded.
Written(old, new) ==
    [c \in DOMAIN new |->
        IF (c = "rate" /\ Same(old.rate, new.rate)) \/ old[c] = new[c] THEN row[c] ELSE new[c]]
-----------------------------------------------------------------------------
Init ==
    /\ row = None
    /\ Trust!Init
    /\ call = [s \in Session |-> None]
    /\ at = [s \in Session |-> "new"]
    /\ held = [s \in Session |-> None]
    /\ trust = [s \in Session |-> Full]
    /\ slope = [s \in Session |-> 0]
    /\ stale = FALSE

Move(s, from, to) == at[s] = from /\ at' = [at EXCEPT ![s] = to]

\* get_current_user loads the caller's devices and their health rows (User.devices
\* and Device.health are selectin) into the session of the endpoint.
Authenticate(s) ==
    /\ Move(s, "new", "finding")
    /\ \E c \in Call : call' = [call EXCEPT ![s] = c]
    /\ held' = [held EXCEPT ![s] = IF s \in Registrant THEN row ELSE None]
    /\ UNCHANGED <<row, trustVars, trust, slope, stale>>

\* get_or_create_health: the row, as the identity map may have it already.
FindHealth(s) ==
    /\ IF row = None
       THEN Move(s, "finding", "creating") /\ UNCHANGED held
       ELSE /\ Move(s, "finding", "scoring")
            /\ held' = [held EXCEPT ![s] = IF @ = None THEN row ELSE @]
    /\ UNCHANGED <<row, trustVars, call, trust, slope, stale>>

\* What a request asked for that failed plays no part any more.
Failed(s) == call' = [call EXCEPT ![s] = None]

\* Fault: the INSERT is an upsert that starts the counts again.
CreateHealthAgain(s) ==
    /\ Move(s, "creating", "refreshing") /\ row' = NewHealth
    /\ UNCHANGED <<trustVars, call, held, trust, slope, stale>>

\* INSERT and COMMIT: the unique device_id admits one row.
CreateHealth(s) ==
    /\ IF row = None
       THEN Move(s, "creating", "refreshing") /\ row' = NewHealth /\ UNCHANGED call
       ELSE Move(s, "creating", "conflict") /\ Failed(s) /\ UNCHANGED row
    /\ UNCHANGED <<trustVars, held, trust, slope, stale>>

\* refresh reads the committed row.
RefreshHealth(s) ==
    /\ Move(s, "refreshing", "scoring")
    /\ held' = [held EXCEPT ![s] = row]
    /\ UNCHANGED <<row, trustVars, call, trust, slope, stale>>

ReadTrust(s) ==
    /\ Move(s, "scoring", "trending")
    /\ trust' = [trust EXCEPT ![s] = score]
    /\ UNCHANGED <<row, trustVars, call, held, slope, stale>>

ReadTrend(s) ==
    /\ Move(s, "trending", "committing")
    /\ slope' = [slope EXCEPT ![s] = Trend]
    /\ UNCHANGED <<row, trustVars, call, held, trust, stale>>

\* The end of a request closes its session and what it held.
Closed(s) ==
    /\ held' = [held EXCEPT ![s] = None]
    /\ trust' = [trust EXCEPT ![s] = Full]
    /\ slope' = [slope EXCEPT ![s] = 0]

\* The row as the session computed it, r being its recency component.
Outcome(s, r) == Scored(Counted(held[s], call[s]), trust[s], slope[s], r)

CommitHealth(s) ==
    /\ Move(s, "committing", "done")
    /\ \E r \in Recency : row' = Written(held[s], Outcome(s, r))
    /\ stale' = (stale \/ held[s] # row)
    /\ Closed(s)
    /\ UNCHANGED <<trustVars, call>>

\* Fault: what the request has counted is committed on the way out.
AbortCommits(s) ==
    /\ at[s] \in InFlight
    /\ at' = [at EXCEPT ![s] = "aborted"]
    /\ IF held[s] = None THEN UNCHANGED row
       ELSE \E r \in Recency : row' = Written(held[s], Outcome(s, r))
    /\ Closed(s)
    /\ Failed(s)
    /\ UNCHANGED <<trustVars, stale>>

\* The worker dies or loses its connection before its COMMIT.
Abort(s) ==
    /\ at[s] \in InFlight
    /\ at' = [at EXCEPT ![s] = "aborted"]
    /\ Closed(s) /\ Failed(s)
    /\ UNCHANGED <<row, trustVars, stale>>

\* The trust engine, as module TrustScore promises it.
TrustMoves ==
    /\ \/ Trust!Reset
       \/ /\ Len(history) < MaxEvents
          /\ \E before \in Trust!Held, after \in TrustLevels : Trust!Adjust("engine", before, after)
    /\ UNCHANGED <<row, requestVars, stale>>

Step(s) ==
    \/ Authenticate(s) \/ FindHealth(s) \/ CreateHealth(s) \/ RefreshHealth(s)
    \/ ReadTrust(s) \/ ReadTrend(s) \/ CommitHealth(s)

Next == TrustMoves \/ \E s \in Session : Step(s) \/ Abort(s)

Spec == Init /\ [][Next]_vars
-----------------------------------------------------------------------------
(***************************************************************************)
(* Properties                                                              *)
(***************************************************************************)
TypeOK ==
    /\ row \in HealthRow \union {None}
    /\ score \in 0..Full
    /\ history \in Seq([before : 0..Full, after : 0..Full, by : {"engine"}])
    /\ call \in [Session -> Call \union {None}]
    /\ at \in [Session -> {"new"} \union InFlight \union Ended]
    /\ held \in [Session -> HealthRow \union {None}]
    /\ trust \in [Session -> 0..Full]
    /\ slope \in [Session -> -100..100]
    /\ stale \in BOOLEAN

\* The committed authentication events with outcome c.
Committed(c) == {s \in Session : at[s] = "done" /\ call[s] = c}
Attempts == Committed("success") \union Committed("failure")

CountedWithin(h) ==
    /\ h.total <= Cardinality(Attempts)
    /\ h.successes <= Cardinality(Committed("success"))
    /\ h.failures <= Cardinality(Committed("failure"))

\* device_health_service.py:52-61 count without a lock, so racing events get
\* lost; but none is counted twice, and the streak of failures, which the same
\* code resets, never exceeds the failures.
NeverOvercounts ==
    row # None => CountedWithin(row) /\ row.streak <= row.failures

\* What a session holds of the row, under the same bounds, and when it does.
HeldRows ==
    \A s \in Session :
        /\ held[s] # None =>
              row # None /\ CountedWithin(held[s]) /\ held[s].streak <= held[s].failures
        /\ at[s] \in {"scoring", "trending", "committing"} => held[s] # None
        /\ at[s] \in {"refreshing", "conflict"} => row # None

HealthInv == TypeOK /\ NeverOvercounts /\ HeldRows

\* The counts of the row add up to the events there were, and the rate is theirs.
CountsAccurate ==
    /\ row.total = Cardinality(Attempts)
    /\ row.successes = Cardinality(Committed("success"))
    /\ row.failures = Cardinality(Committed("failure"))
    /\ Same(row.rate, <<row.successes, IF row.total = 0 THEN 1 ELSE row.total>>)

\* The row tells one story: its counts, and the health of its own rate and trend.
Accurate ==
    /\ CountsAccurate
    /\ Cardinality({s \in Session : at[s] = "done"}) > 0 =>
          \E t \in TrustLevels \union {Full}, r \in Recency :
              row.score = HealthScore(row, t, row.trend, r)

\* As long as no request commits over a row that changed since it loaded it, the
\* row is accurate, whatever fails, dies or creates it at the same time, and
\* however the trust engine moves in between.  UPDATE writes single columns, so
\* a race leaves counts, rates, trend and health of different requests behind.
AccurateUnlessRaced == row # None /\ ~stale => Accurate
=============================================================================
