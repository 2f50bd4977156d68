------------------------------ MODULE MCRules -------------------------------
(***************************************************************************)
(* The rule bases of the backend on bounded inputs: the severity rules in  *)
(* a worsening context, the vote of the models and the drift check.  They  *)
(* share no state: in each behaviour one of them runs and the others have  *)
(* nothing to do.                                                          *)
(***************************************************************************)
EXTENDS SeverityContext, ModelVote, DriftCheck

allVars == <<context, voteVars, driftVars>>

\* On both sides of every threshold, each measure alone and both together.
Measures == {<<9, 5>>, <<10, 5>>, <<24, 4>>, <<25, 5>>, <<9, 1>>, <<9, 0>>}

Orders == {q \in UNION {[1..n -> Model] : n \in 0..Cardinality(Model)} : IsOrder(q)}

\* Nothing to do: the worst context, no active model, no feature.
ContextDone ==
    /\ event = "auth_success" /\ failures = MaxFailures /\ alerts = MaxAlerts
    /\ trust \in Trust /\ \A t \in Trust : t >= trust
VoteDone ==
    /\ auc = [m \in Model |-> CHOOSE a \in Auc : TRUE] /\ queue = <<>>
    /\ preds = <<>> /\ votes = 0 /\ highest = -1 /\ best = NoModel
DriftDone == features = <<>> /\ checked = 0 /\ drifting = 0 /\ worst = "none"

RulesInit ==
    \/ ContextInit /\ VoteDone /\ DriftDone
    \/ ContextDone /\ DriftDone /\ queue \in Orders /\ VoteInit
    \/ ContextDone /\ VoteDone /\ DriftInit

RulesNext ==
    \/ ContextNext /\ UNCHANGED <<voteVars, driftVars>>
    \/ VoteNext /\ UNCHANGED <<context, driftVars>>
    \/ CheckFeature /\ UNCHANGED <<context, voteVars>>

RulesSpec == RulesInit /\ [][RulesNext]_allVars
=============================================================================
