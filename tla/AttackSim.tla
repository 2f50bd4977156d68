----------------------------- MODULE AttackSim ------------------------------
(***************************************************************************)
(* AttackSimService (backend/app/services/attack_sim_service.py): the six  *)
(* simulate_* calls.  Each one strings together up to three transactions   *)
(* of other services, adjust_trust_score, record_event and its own COMMIT, *)
(* and turns any exception on the way into a report.                       *)
(*                                                                         *)
(* adjust_trust_score is one step here that commits or raises (module      *)
(* DeviceTrust opens it up); record_event is AuditTrail's, step by step.   *)
(* A request whose worker dies simply takes no further step.               *)
(***************************************************************************)
EXTENDS AuditTrail

CONSTANTS Probability   \* anomaly probabilities in percent that occur

ASSUME ProbabilityAssumption == Probability \subseteq 0..100

VARIABLES attack,     \* what each request simulates
          phase,      \* where simulate_* stands
          penalised,  \* the requests whose trust penalty is committed
          report      \* what the answer claims: "detected", "penalty", "anchored"

simVars == <<attack, phase, penalised, report>>
allVars == <<vars, simVars>>

Attacks ==
    [type : {"data_tampering", "fake_sensor", "replay_attack", "dos_attack",
             "unauthorized_device"}]
    \union [type : {"ml_anomaly"}, probability : Probability]

\* The severity of an anomaly.
SeverityLevel(p) ==
    IF p < 60 THEN "LOW" ELSE IF p < 80 THEN "MEDIUM" ELSE IF p < 95 THEN "HIGH" ELSE "CRITICAL"

IsAnomaly(s) == attack[s].type = "ml_anomaly"

Level(s) == SeverityLevel(attack[s].probability)

\* The attacks that lower the trust score.
Penalises(s) ==
    /\ attack[s].type # "fake_sensor"
    /\ IsAnomaly(s) => Level(s) # "LOW"

Records(s) == attack[s].type \in {"data_tampering", "ml_anomaly"}

\* blockchain_anchored: the flag of the answer, set without looking at the chain.
KeepsAnchor(s) == IsAnomaly(s) => Level(s) \in {"HIGH", "CRITICAL"}

\* The AuditEventType a simulation hands to record_event.
EventOf(a) == IF a.type = "ml_anomaly" THEN "ids_alert" ELSE "tampering_detected"

Proceed(s, where) == phase' = [phase EXCEPT ![s] = where]
-----------------------------------------------------------------------------
SimInit ==
    /\ AuditInit
    /\ attack \in [Session -> Attacks]
    /\ \A s \in Session : event[s] = EventOf(attack[s])
    /\ phase = [s \in Session |-> "new"]
    /\ penalised = {}
    /\ report = [s \in Session |-> {}]

AfterPenalty(s) == IF Records(s) THEN "record" ELSE "report"

\* adjust_trust_score commits, or it or the prediction before it raises (no such
\* device or model, a lost connection).
Penalise(s) ==
    /\ phase[s] = "new" /\ Penalises(s)
    /\ \/ Proceed(s, AfterPenalty(s)) /\ penalised' = penalised \union {s}
       \/ Proceed(s, "caught") /\ UNCHANGED penalised
    /\ UNCHANGED <<vars, attack, report>>

\* fake_sensor has no device to penalise, a LOW anomaly no penalty; without its
\* model the prediction of an anomaly raises.
SkipPenalty(s) ==
    /\ phase[s] = "new" /\ ~Penalises(s)
    /\ Proceed(s, AfterPenalty(s)) \/ (IsAnomaly(s) /\ Proceed(s, "caught"))
    /\ UNCHANGED <<vars, attack, penalised, report>>

AfterRecord(s) ==
    CASE stage'[s] = "failed" -> "caught"
      [] stage'[s] = "done" -> IF IsAnomaly(s) THEN "relabel" ELSE "report"
      [] OTHER -> "record"

\* One step of record_event.
Record(s) ==
    /\ phase[s] = "record"
    /\ RecordStep(s)
    /\ Proceed(s, AfterRecord(s))
    /\ UNCHANGED <<attack, penalised, report>>

LinkedRow(r) == audit[r].link # NoLink

\* Fault: the row is found again as the latest one linked, not as the one returned.
RelabelLatest(s) ==
    /\ phase[s] = "relabel"
    /\ \E r \in {q \in DOMAIN audit : LinkedRow(q)} :
          /\ \A q \in DOMAIN audit : LinkedRow(q) => audit[q].link <= audit[r].link
          /\ audit' = [audit EXCEPT
                ![r].severity = Level(s),
                ![r].link = IF KeepsAnchor(s) THEN @ ELSE NoLink]
    /\ Proceed(s, "report")
    /\ UNCHANGED <<chainVars, stage, event, attack, penalised, report>>

\* simulate_ml_anomaly overwrites the severity of its audit row, takes the
\* back-link away when its own rule does not anchor, and commits, or fails to.
Relabel(s) ==
    /\ phase[s] = "relabel"
    /\ \/ /\ Proceed(s, "report")
          /\ audit' = [audit EXCEPT
                ![s].severity = Level(s),
                ![s].link = IF KeepsAnchor(s) THEN @ ELSE NoLink]
       \/ Proceed(s, "caught") /\ UNCHANGED audit
    /\ UNCHANGED <<chainVars, stage, event, attack, penalised, report>>

\* The answer after a simulation that raised nothing.
Claims(s) ==
    (IF IsAnomaly(s) /\ attack[s].probability < 60 THEN {} ELSE {"detected"})
    \union (IF s \in penalised THEN {"penalty"} ELSE {})
    \union (IF KeepsAnchor(s) THEN {"anchored"} ELSE {})

\* Fault: the exception handler falls through to the normal answer.
AnswerAlways(s) ==
    /\ phase[s] \in {"report", "caught"}
    /\ report' = [report EXCEPT ![s] = Claims(s)]
    /\ Proceed(s, "done")
    /\ UNCHANGED <<vars, attack, penalised>>

\* The answer; after an exception it claims nothing at all.
Answer(s) ==
    /\ phase[s] \in {"report", "caught"}
    /\ report' = [report EXCEPT ![s] = IF phase[s] = "caught" THEN {} ELSE Claims(s)]
    /\ Proceed(s, "done")
    /\ UNCHANGED <<vars, attack, penalised>>

SimStep(s) ==
    \/ Penalise(s) \/ SkipPenalty(s)
    \/ Record(s) \/ Relabel(s)
    \/ Answer(s)

SimNext == \E s \in Session : SimStep(s)

SimSpec == SimInit /\ [][SimNext]_allVars
-----------------------------------------------------------------------------
(***************************************************************************)
(* Properties                                                              *)
(***************************************************************************)
Phases == {"new", "record", "relabel", "report", "caught", "done"}

SimTypeOK ==
    /\ TypeOK
    /\ \A s \in DOMAIN audit : s \in Session /\ audit[s] \in AuditRow
    /\ attack \in [Session -> Attacks]
    /\ phase \in [Session -> Phases]
    /\ penalised \subseteq Session
    /\ report \in [Session -> SUBSET {"detected", "penalty", "anchored"}]

\* Where a simulation records its attack, its answer and the log agree: the
\* audit row has the severity that was reported, and a link, to its own block,
\* exactly when the answer claims an anchor (attack_sim_service.py:71 and :318).
RecordedClaimsHold ==
    \A s \in Session : phase[s] = "done" /\ Records(s) /\ "detected" \in report[s] =>
        /\ s \in DOMAIN audit
        /\ audit[s].severity = IF IsAnomaly(s) THEN Level(s) ELSE "HIGH"
        /\ "anchored" \notin report[s] => audit[s].link = NoLink
        /\ "anchored" \in report[s] =>
              audit[s].link \in DOMAIN blocks /\ blocks[audit[s].link].data = s

\* Taking an anchor back leaves the block: every block but the genesis block
\* still has the audit row it was written for, relabelled or not.
BlocksHaveRows ==
    \A i \in DOMAIN blocks : i > 0 => blocks[i].data \in DOMAIN audit

\* A simulation writes only its own audit row, and gives it another severity
\* or takes its link away only at its own relabelling.
OthersRowsKept ==
    [][\A r \in DOMAIN audit :
          /\ r \in DOMAIN audit'
          /\ phase'[r] = phase[r] => audit'[r].severity = audit[r].severity
          /\ phase'[r] = phase[r] /\ audit[r].link # NoLink
             => audit'[r].link = audit[r].link]_allVars
=============================================================================
