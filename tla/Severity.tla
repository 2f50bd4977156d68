------------------------------ MODULE Severity ------------------------------
(***************************************************************************)
(* The rule base of backend/app/blockchain/audit_trail.py: how severe an   *)
(* audit event is and whether it is anchored to the blockchain.            *)
(***************************************************************************)
EXTENDS Naturals

\* SecuritySeverity, in the order of _SEVERITY_ORDER.
Order == [INFO |-> 0, LOW |-> 1, MEDIUM |-> 2, HIGH |-> 3, CRITICAL |-> 4]
Severities == DOMAIN Order

AtLeast(a, b) == Order[a] >= Order[b]

\* _SEVERITY_MAP: AuditEventType grouped by base severity.
BaseEvents ==
    [INFO |-> {"device_registered", "device_activated", "auth_success", "trust_update"},
     LOW |-> {"device_recovered", "auth_failure", "key_rotated"},
     MEDIUM |-> {"device_suspended", "rate_limit_exceeded", "drift_detected"},
     HIGH |-> {"device_revoked", "mutual_auth_failure", "tampering_detected", "replay_attack",
               "signature_invalid", "ids_alert", "device_blocked", "key_revoked"}]

EventTypes == UNION {BaseEvents[v] : v \in DOMAIN BaseEvents}

\* _SEVERITY_MAP.get(event_type)
Base(event) == CHOOSE v \in DOMAIN BaseEvents : event \in BaseEvents[v]

(***************************************************************************)
(* classify_severity: the three context rules, applied in this order.      *)
(***************************************************************************)
\* Fault: the severity so far is not looked at.
EscalateFailuresAlways(v, failures) == IF failures >= 3 THEN "MEDIUM" ELSE v

EscalateFailures(v, failures) ==
    IF failures >= 3 /\ ~AtLeast(v, "MEDIUM") THEN "MEDIUM" ELSE v

EscalateTrust(v, trust) ==
    IF trust < 30 /\ ~AtLeast(v, "HIGH") THEN "HIGH" ELSE v

\* Fault: alerts make every event critical, not only those of HIGH severity.
EscalateAlertsAlways(v, alerts) == IF alerts >= 5 THEN "CRITICAL" ELSE v

EscalateAlerts(v, alerts) ==
    IF alerts >= 5 /\ v = "HIGH" THEN "CRITICAL" ELSE v

Classify(event, failures, trust, alerts) ==
    EscalateAlerts(EscalateTrust(EscalateFailures(Base(event), failures), trust), alerts)

\* The context record_event's callers give: none, so the defaults.
ClassifyPlain(event) == Classify(event, 0, 100, 0)

\* _severity_meets_threshold with BLOCKCHAIN_ANCHOR_THRESHOLD.
MeetsThreshold(v) == AtLeast(v, "MEDIUM")
=============================================================================
