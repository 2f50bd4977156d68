----------------------------- MODULE DriftCheck -----------------------------
(***************************************************************************)
(* DriftService (backend/app/services/drift_service.py): evaluate_drift on *)
(* the measures of one feature and the loop of run_drift_check over the    *)
(* features of the reference data.  PSI and p-value are in percent.        *)
(***************************************************************************)
EXTENDS Naturals, Sequences, FiniteSets

CONSTANTS Measure,     \* pairs of PSI and p-value that occur
          Missing,     \* a feature without current data
          MaxFeatures  \* bound on the features

ASSUME DriftAssumption ==
    Measure \subseteq Nat \X Nat /\ Missing \notin Measure /\ MaxFeatures \in Nat

VARIABLES features,  \* the measures of the features, in the order of the dict
          checked,   \* how many the loop has passed
          drifting,  \* drifting_count
          worst      \* max_severity

driftVars == <<features, checked, drifting, worst>>

\* evaluate_drift: the drift_severity of a feature.
DriftSeverity(m) ==
    IF m[1] >= 25 \/ m[2] < 1 THEN "severe"
    ELSE IF m[1] >= 10 \/ m[2] < 5 THEN "moderate"
    ELSE "none"

DriftInit ==
    /\ features \in UNION {[1..n -> Measure \union {Missing}] : n \in 0..MaxFeatures}
    /\ checked = 0 /\ drifting = 0 /\ worst = "none"

\* Fault: a moderate feature is reported after a severe one.
RaisedLatest(severity) == severity

\* max_severity after one more feature drifts.
Raised(severity) ==
    IF severity = "severe" \/ worst = "none" THEN severity ELSE worst

CheckFeature ==
    /\ checked < Len(features)
    /\ checked' = checked + 1
    /\ LET m == features[checked + 1]
           drifts == m # Missing /\ DriftSeverity(m) # "none"
       IN  IF drifts
           THEN drifting' = drifting + 1 /\ worst' = Raised(DriftSeverity(m))
           ELSE UNCHANGED <<drifting, worst>>
    /\ UNCHANGED features

DriftSpec == DriftInit /\ [][CheckFeature]_driftVars
-----------------------------------------------------------------------------
\* The features seen so far with a severity.
WithSeverity(severity) ==
    {i \in 1..checked : features[i] # Missing /\ DriftSeverity(features[i]) = severity}

DriftTypeOK ==
    /\ features \in Seq(Measure \union {Missing})
    /\ checked \in 0..Len(features)
    /\ drifting \in Nat
    /\ worst \in {"none", "moderate", "severe"}

\* drift_service.py:104-119: in whatever order the features come and whichever
\* of them lack current data, the report's severity is that of its worst
\* feature, its count that of the drifting ones, and both agree that there is
\* drift.
WorstReported ==
    /\ worst = "severe" <=> WithSeverity("severe") # {}
    /\ worst = "none" <=> WithSeverity("severe") = {} /\ WithSeverity("moderate") = {}
    /\ drifting = Cardinality(WithSeverity("severe")) + Cardinality(WithSeverity("moderate"))
    /\ worst = "none" <=> drifting = 0
=============================================================================
