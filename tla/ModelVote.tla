----------------------------- MODULE ModelVote ------------------------------
(***************************************************************************)
(* MLService.predict_all (backend/app/services/ml_service.py:219): the     *)
(* active models of the registry predict one by one, in whatever order the *)
(* SELECT returned them; the votes are counted and the model with the      *)
(* highest ROC AUC is recommended.  One action is one turn of the loop.    *)
(***************************************************************************)
EXTENDS Integers, Sequences, FiniteSets

CONSTANTS Model,   \* the rows of model_registry
          Auc,     \* values of roc_auc that occur, in percent
          NoModel  \* the best_model_name "" before the first model

ASSUME VoteAssumption == Auc \subseteq 0..100 /\ NoModel \notin Model

VARIABLES auc,      \* roc_auc of each model
          queue,    \* the active models, in the order of the SELECT
          preds,    \* their predictions so far, 1 for an anomaly
          votes,    \* votes_for_anomaly
          highest,  \* highest_auc
          best      \* best_model_name

voteVars == <<auc, queue, preds, votes, highest, best>>

\* An order of some models.
IsOrder(q) ==
    /\ q \in Seq(Model)
    /\ \A i, j \in DOMAIN q : q[i] = q[j] => i = j

VoteInit ==
    /\ auc \in [Model -> Auc]
    /\ IsOrder(queue)
    /\ preds = <<>> /\ votes = 0
    /\ highest = -1 /\ best = NoModel

\* The model whose turn it is.
Turn == queue[Len(preds) + 1]

\* Fault: the best AUC so far is not remembered.
CompareForgets ==
    IF auc[Turn] > -1 THEN best' = Turn /\ UNCHANGED highest
    ELSE UNCHANGED <<highest, best>>

Compare ==
    IF auc[Turn] > highest
    THEN highest' = auc[Turn] /\ best' = Turn
    ELSE UNCHANGED <<highest, best>>

Predict(p) ==
    /\ Len(preds) < Len(queue)
    /\ preds' = Append(preds, p)
    /\ votes' = IF p = 1 THEN votes + 1 ELSE votes
    /\ Compare
    /\ UNCHANGED <<auc, queue>>

VoteNext == \E p \in {0, 1} : Predict(p)

VoteSpec == VoteInit /\ [][VoteNext]_voteVars

\* Fault: half of the votes are a majority.
MajorityVoteHalf == IF 2 * votes >= Len(preds) THEN 1 ELSE 0

\* The consensus: the label and the share of the models that agree with it, as
\* a count out of all.  A ratio of one half is Normal.
MajorityVote == IF 2 * votes > Len(preds) THEN 1 ELSE 0
Agreement == IF 2 * votes > Len(preds) THEN votes ELSE Len(preds) - votes

\* What select_best_model may return: ORDER BY roc_auc DESC leaves ties open.
SelectBest(models) == {m \in models : \A k \in models : auc[k] <= auc[m]}
-----------------------------------------------------------------------------
\* The models heard so far, and those of them that predicted p.
Heard == {queue[i] : i \in DOMAIN preds}
Predicting(p) == {i \in DOMAIN preds : preds[i] = p}

VoteTypeOK ==
    /\ auc \in [Model -> Auc]
    /\ IsOrder(queue)
    /\ preds \in Seq({0, 1}) /\ Len(preds) <= Len(queue)
    /\ votes \in Nat
    /\ highest \in {-1} \union Auc
    /\ best \in Model \union {NoModel}

\* ml_service.py:283-287: after any prefix of the loop the label is that of more
\* than half of the models or, on a tie, Normal, and the agreement counts the
\* models that gave this label, never fewer than half.
ConsensusStands ==
    preds # <<>> =>
    /\ votes = Cardinality(Predicting(1))
    /\ Agreement = Cardinality(Predicting(MajorityVote))
    /\ MajorityVote = 1 <=> Cardinality(Predicting(1)) > Cardinality(Predicting(0))

\* ml_service.py:279-281 recommends a model that select_best_model may choose,
\* in every order of the rows and with equal scores.
RecommendsBest ==
    IF preds = <<>> THEN best = NoModel /\ highest = -1
    ELSE best \in SelectBest(Heard) /\ highest = auc[best]
=============================================================================
