-------------------------- MODULE SeverityContext ---------------------------
(***************************************************************************)
(* classify_severity (backend/app/blockchain/audit_trail.py:124) as the    *)
(* context of an event worsens: one more consecutive failure, one more     *)
(* concurrent alert, or a lower trust score.                               *)
(***************************************************************************)
EXTENDS Severity

CONSTANTS MaxFailures, MaxAlerts,  \* bounds of the two counts
          Trust                    \* the trust scores that occur

ASSUME ContextAssumption == MaxFailures \in Nat /\ MaxAlerts \in Nat /\ Trust \subseteq Nat

VARIABLES event, failures, trust, alerts

context == <<event, failures, trust, alerts>>

\* The severity the event would be given now.
Severest == Classify(event, failures, trust, alerts)

ContextInit ==
    /\ event \in EventTypes
    /\ failures = 0 /\ alerts = 0
    /\ trust \in Trust

FailAgain ==
    /\ failures < MaxFailures
    /\ failures' = failures + 1
    /\ UNCHANGED <<event, trust, alerts>>

AlertAgain ==
    /\ alerts < MaxAlerts
    /\ alerts' = alerts + 1
    /\ UNCHANGED <<event, failures, trust>>

LoseTrust ==
    /\ \E t \in Trust : t < trust /\ trust' = t
    /\ UNCHANGED <<event, failures, alerts>>

ContextNext == FailAgain \/ AlertAgain \/ LoseTrust

ContextSpec == ContextInit /\ [][ContextNext]_context
-----------------------------------------------------------------------------
ContextOK ==
    /\ event \in EventTypes
    /\ failures \in 0..MaxFailures /\ alerts \in 0..MaxAlerts
    /\ trust \in Trust

\* audit_trail.py:132: the context "can escalate (but never de-escalate)": a
\* worse context never lowers the severity, also where two rules apply at once.
NeverDeescalates == [][AtLeast(Severest', Severest)]_context

\* audit_trail.py:133-135, each rule on its own against all three in sequence:
\* what the lines promise whatever the other two factors are.
RulesCompose ==
    /\ AtLeast(Severest, Base(event))
    /\ failures >= 3 => MeetsThreshold(Severest)
    /\ trust < 30 => AtLeast(Severest, "HIGH")
    /\ Severest = "CRITICAL" <=> alerts >= 5 /\ (Base(event) = "HIGH" \/ trust < 30)
=============================================================================
