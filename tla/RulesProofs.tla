---------------------------- MODULE RulesProofs -----------------------------
(***************************************************************************)
(* The vote of the models and the drift check, for registries and features *)
(* of any size, and classify_severity for any counts and trust scores.     *)
(* The loops are state machines, so what a loop computes is an invariant   *)
(* of its prefix and needs no induction over data.                         *)
(***************************************************************************)
EXTENDS ModelVote, DriftCheck, SeverityContext, FiniteSetTheorems, TLAPS

\* The positions of a sequence that hold v.
At(s, v) == {i \in DOMAIN s : s[i] = v}

LEMMA AtFinite ==
    ASSUME NEW S, NEW q \in Seq(S), NEW v
    PROVE  IsFiniteSet(At(q, v)) /\ Cardinality(At(q, v)) \in Nat
<1>1. Len(q) \in Nat /\ DOMAIN q = 1..Len(q)
  OBVIOUS
<1>2. IsFiniteSet(1..Len(q))
  <2>1. 1 \in Int /\ Len(q) \in Int
    BY <1>1
  <2> QED BY <2>1, FS_Interval
<1>3. At(q, v) \subseteq 1..Len(q)
  BY <1>1 DEF At
<1>4. IsFiniteSet(At(q, v))
  BY <1>2, <1>3, FS_Subset
<1> QED BY <1>4, FS_CardinalityType

\* One more element: the positions of its value are one more, the others are as
\* many as before.
LEMMA AtAppend ==
    ASSUME NEW S, NEW q \in Seq(S), NEW p \in S, NEW v
    PROVE  /\ p = v => Cardinality(At(Append(q, p), v)) = Cardinality(At(q, v)) + 1
           /\ p # v => At(Append(q, p), v) = At(q, v)
<1>1. DOMAIN q = 1..Len(q) /\ Len(q) \in Nat
  OBVIOUS
<1>2. DOMAIN Append(q, p) = (1..Len(q)) \union {Len(q) + 1}
  <2>1. DOMAIN Append(q, p) = 1..(Len(q) + 1)
    OBVIOUS
  <2> QED BY <1>1, <2>1
<1>3. \A i \in 1..Len(q) : Append(q, p)[i] = q[i]
  OBVIOUS
<1>4. Append(q, p)[Len(q) + 1] = p
  OBVIOUS
<1>5. ASSUME p # v PROVE At(Append(q, p), v) = At(q, v)
  BY <1>1, <1>2, <1>3, <1>4, <1>5 DEF At
<1>6. ASSUME p = v PROVE Cardinality(At(Append(q, p), v)) = Cardinality(At(q, v)) + 1
  <2>1. At(Append(q, p), v) = At(q, v) \union {Len(q) + 1}
    BY <1>1, <1>2, <1>3, <1>4, <1>6 DEF At
  <2>2. Len(q) + 1 \notin At(q, v)
    BY <1>1 DEF At
  <2>3. IsFiniteSet(At(q, v))
    BY AtFinite
  <2> QED BY <2>1, <2>2, <2>3, FS_AddElement
<1> QED BY <1>5, <1>6

\* The votes of both sides add up to the models heard.
LEMMA TwoSides ==
    ASSUME preds \in Seq({0, 1})
    PROVE  Cardinality(Predicting(0)) + Cardinality(Predicting(1)) = Len(preds)
<1>1. Predicting(0) \union Predicting(1) = 1..Len(preds)
  BY DEF Predicting
<1>2. Predicting(0) \intersect Predicting(1) = {}
  BY DEF Predicting
<1>3. IsFiniteSet(1..Len(preds)) /\ Cardinality(1..Len(preds)) = Len(preds)
  <2>1. Len(preds) \in Nat
    OBVIOUS
  <2>2. 1 \in Int /\ Len(preds) \in Int
    BY <2>1
  <2>3. IsFiniteSet(1..Len(preds)) /\ Cardinality(1..Len(preds)) = IF 1 > Len(preds) THEN 0 ELSE Len(preds) - 1 + 1
    BY <2>2, FS_Interval
  <2> QED BY <2>1, <2>3
<1>4. IsFiniteSet(Predicting(0)) /\ IsFiniteSet(Predicting(1))
  BY <1>1, <1>3, FS_Subset
<1>5. Cardinality(1..Len(preds))
        = Cardinality(Predicting(0)) + Cardinality(Predicting(1)) - Cardinality({})
  BY <1>1, <1>2, <1>4, FS_Union
<1> QED BY <1>3, <1>4, <1>5, FS_EmptySet, FS_CardinalityType
-----------------------------------------------------------------------------
\* What the loop of predict_all keeps: its types, the count of the votes, and
\* the best of the models heard so far.
VoteInv == VoteTypeOK /\ votes = Cardinality(Predicting(1)) /\ RecommendsBest

LEMMA InitVote == VoteInit => VoteInv
<1> SUFFICES ASSUME VoteInit PROVE VoteInv
  OBVIOUS
<1>1. VoteTypeOK
  BY DEF VoteInit, VoteTypeOK, IsOrder
<1>2. Predicting(1) = {}
  BY DEF VoteInit, Predicting
<1>3. votes = Cardinality(Predicting(1))
  BY <1>2, FS_EmptySet DEF VoteInit
<1>4. RecommendsBest
  BY DEF VoteInit, RecommendsBest
<1> QED BY <1>1, <1>3, <1>4 DEF VoteInv

\* There is a model whose turn it is until all have been heard.
LEMMA TurnIsModel ==
    ASSUME queue \in Seq(Model), preds \in Seq({0, 1}), Len(preds) < Len(queue)
    PROVE  Turn \in Model
<1>1. Len(preds) \in Nat /\ Len(queue) \in Nat /\ queue \in [1..Len(queue) -> Model]
  OBVIOUS
<1>2. Len(preds) + 1 \in 1..Len(queue)
  BY <1>1
<1> QED BY <1>1, <1>2 DEF Turn

\* One more model: the best of those heard is the best so far or the new one.
LEMMA StillBest ==
    ASSUME VoteTypeOK, RecommendsBest, NEW p \in {0, 1}, Predict(p)
    PROVE  RecommendsBest'
<1>1. /\ queue \in Seq(Model) /\ preds \in Seq({0, 1}) /\ Len(preds) < Len(queue)
      /\ preds' = Append(preds, p) /\ queue' = queue /\ auc' = auc
  BY DEF VoteTypeOK, IsOrder, Predict
<1>2. Turn \in Model /\ auc[Turn] \in 0..100 /\ \A m \in Model : auc[m] \in 0..100
  <2>1. Turn \in Model
    BY <1>1, TurnIsModel
  <2> QED BY <2>1, VoteAssumption DEF VoteTypeOK
<1>3. DOMAIN preds' = (1..Len(preds)) \union {Len(preds) + 1} /\ preds' # <<>>
  BY <1>1
<1>4. Heard' = Heard \union {Turn}
  <2>1. \A i \in 1..Len(preds) : queue'[i] = queue[i]
    BY <1>1
  <2>2. Heard' = {queue[i] : i \in (1..Len(preds)) \union {Len(preds) + 1}}
    BY <1>1, <1>3 DEF Heard
  <2>3. Heard = {queue[i] : i \in 1..Len(preds)}
    BY <1>1 DEF Heard
  <2> QED BY <2>2, <2>3 DEF Turn
<1>5. Heard \subseteq Model
  BY <1>1 DEF Heard
<1> Compare
  BY DEF Predict
<1>6. CASE preds = <<>>
  <2>1. Heard = {} /\ highest = -1
    BY <1>6 DEF Heard, RecommendsBest
  <2>2. highest' = auc[Turn] /\ best' = Turn
    BY <1>2, <2>1 DEF Compare
  <2>3. Heard' = {Turn}
    BY <1>4, <2>1
  <2>4. \A k \in {Turn} : auc[k] <= auc[Turn]
    BY <1>2
  <2>5. best' \in SelectBest(Heard)'
    BY <1>1, <2>2, <2>3, <2>4 DEF SelectBest
  <2> QED BY <1>1, <1>3, <2>2, <2>5 DEF RecommendsBest
<1>7. CASE preds # <<>>
  <2>1. best \in Heard /\ highest = auc[best] /\ \A k \in Heard : auc[k] <= auc[best]
    BY <1>7 DEF RecommendsBest, SelectBest
  <2>2. auc[best] \in Int /\ auc[Turn] \in Int /\ \A k \in Heard : auc[k] \in Int
    <3>1. \A m \in Model : auc[m] \in Int
      BY <1>2
    <3> QED BY <1>2, <1>5, <2>1, <3>1
  <2>3. CASE auc[Turn] > highest
    <3>1. highest' = auc[Turn] /\ best' = Turn
      BY <2>3 DEF Compare
    <3>2. ASSUME NEW k \in Heard' PROVE auc[k] <= auc[Turn]
      <4>1. CASE k \in Heard
        <5>1. auc[k] <= auc[best] /\ auc[k] \in Int
          BY <2>1, <2>2, <4>1
        <5>2. auc[best] \in Int /\ auc[Turn] \in Int /\ auc[best] < auc[Turn]
          BY <2>1, <2>2, <2>3
        <5> QED BY ONLY <5>1, <5>2
      <4>2. CASE k = Turn
        BY <2>2, <4>2
      <4> QED BY <1>4, <4>1, <4>2
    <3>3. best' \in SelectBest(Heard)'
      BY <1>1, <1>4, <3>1, <3>2 DEF SelectBest
    <3> QED BY <1>1, <1>3, <3>1, <3>3 DEF RecommendsBest
  <2>4. CASE ~(auc[Turn] > highest)
    <3>1. highest' = highest /\ best' = best
      BY <2>4 DEF Compare
    <3>2. ASSUME NEW k \in Heard' PROVE auc[k] <= auc[best]
      <4>1. CASE k \in Heard
        BY <2>1, <4>1
      <4>2. CASE k = Turn
        <5>1. auc[best] \in Int /\ auc[Turn] \in Int /\ ~(auc[Turn] > auc[best])
          BY <2>1, <2>2, <2>4
        <5>2. auc[Turn] <= auc[best]
          BY ONLY <5>1
        <5> QED BY <4>2, <5>2
      <4> QED BY <1>4, <4>1, <4>2
    <3>3. best' \in SelectBest(Heard)'
      BY <1>1, <1>4, <2>1, <3>1, <3>2 DEF SelectBest
    <3> QED BY <1>1, <1>3, <2>1, <3>1, <3>3 DEF RecommendsBest
  <2> QED BY <2>3, <2>4
<1> QED BY <1>6, <1>7

LEMMA VoteStep == VoteInv /\ [VoteNext]_voteVars => VoteInv'
<1>1. ASSUME VoteInv, NEW p \in {0, 1}, Predict(p) PROVE VoteInv'
  <2>1. /\ preds \in Seq({0, 1}) /\ preds' = Append(preds, p) /\ votes \in Nat
        /\ queue \in Seq(Model) /\ Len(preds) < Len(queue)
    BY <1>1 DEF VoteInv, VoteTypeOK, IsOrder, Predict
  <2>2. VoteTypeOK'
    <3>1. Turn \in Model /\ auc[Turn] \in Auc
      BY <1>1, <2>1 DEF VoteInv, VoteTypeOK, Turn
    <3>2. highest' \in {-1} \union Auc /\ best' \in Model \union {NoModel}
      BY <1>1, <3>1 DEF VoteInv, VoteTypeOK, Predict, Compare
    <3>3. preds' \in Seq({0, 1}) /\ Len(preds') = Len(preds) + 1
      BY <2>1
    <3>4. votes' \in Nat
      BY <1>1, <2>1 DEF Predict
    <3>5. auc' = auc /\ queue' = queue
      BY <1>1 DEF Predict
    <3> QED BY <1>1, <2>1, <3>2, <3>3, <3>4, <3>5 DEF VoteInv, VoteTypeOK, IsOrder
  <2>3. votes' = Cardinality(Predicting(1)')
    <3>1. Predicting(1) = At(preds, 1) /\ Predicting(1)' = At(Append(preds, p), 1)
      BY <2>1 DEF Predicting, At
    <3>2. votes = Cardinality(At(preds, 1)) /\ votes' = IF p = 1 THEN votes + 1 ELSE votes
      BY <1>1, <3>1 DEF VoteInv, Predict
    <3>3. CASE p = 1
      BY <2>1, <3>1, <3>2, <3>3, AtAppend
    <3>4. CASE p # 1
      BY <2>1, <3>1, <3>2, <3>4, AtAppend
    <3> QED BY <3>3, <3>4
  <2>4. RecommendsBest'
    BY <1>1, StillBest DEF VoteInv
  <2> QED BY <2>2, <2>3, <2>4 DEF VoteInv
<1>2. ASSUME VoteInv, UNCHANGED voteVars PROVE VoteInv'
  BY <1>2 DEF VoteInv, VoteTypeOK, IsOrder, RecommendsBest, Predicting, Heard, SelectBest, voteVars
<1> QED BY <1>1, <1>2 DEF VoteNext

THEOREM VoteInvariant == VoteSpec => []VoteInv
  BY InitVote, VoteStep, PTL DEF VoteSpec

\* predict_all recommends a model that select_best_model may choose.
THEOREM BestRecommended == VoteSpec => []RecommendsBest
<1>1. VoteInv => RecommendsBest
  BY DEF VoteInv
<1> QED BY <1>1, VoteInvariant, PTL

\* The consensus is that of more than half of the models, for any number of them.
THEOREM ConsensusHolds == VoteSpec => []ConsensusStands
<1>1. VoteInv => ConsensusStands
  <2> SUFFICES ASSUME VoteInv PROVE ConsensusStands
    OBVIOUS
  <2>1. preds \in Seq({0, 1}) /\ votes \in Nat /\ votes = Cardinality(Predicting(1))
    BY DEF VoteInv, VoteTypeOK
  <2>2. Cardinality(Predicting(0)) + Cardinality(Predicting(1)) = Len(preds)
    BY <2>1, TwoSides
  <2>3. Cardinality(Predicting(0)) \in Nat /\ Len(preds) \in Nat
    <3>1. Predicting(0) = At(preds, 0)
      BY DEF Predicting, At
    <3> QED BY <2>1, <3>1, AtFinite
  <2> DEFINE zeros == Cardinality(Predicting(0))
             ones == Cardinality(Predicting(1))
  <2>4. zeros \in Nat /\ ones \in Nat /\ zeros + ones = Len(preds) /\ votes = ones
    BY <2>1, <2>2, <2>3
  <2>5. CASE 2 * votes > Len(preds)
    <3>1. MajorityVote = 1 /\ Agreement = votes /\ ones > zeros
      BY <2>4, <2>5 DEF MajorityVote, Agreement
    <3> QED BY <2>1, <3>1 DEF ConsensusStands
  <2>6. CASE ~(2 * votes > Len(preds))
    <3>1. MajorityVote = 0 /\ Agreement = zeros /\ ~(ones > zeros)
      BY <2>4, <2>6 DEF MajorityVote, Agreement
    <3> QED BY <2>1, <3>1 DEF ConsensusStands
  <2> QED BY <2>5, <2>6
<1> QED BY <1>1, VoteInvariant, PTL
-----------------------------------------------------------------------------
\* What the loop of run_drift_check keeps.
DriftInv == DriftTypeOK /\ WorstReported

LEMMA SeverityKinds == \A m : DriftSeverity(m) \in {"none", "moderate", "severe"}
  BY DEF DriftSeverity

LEMMA FiniteSeverity ==
    ASSUME checked \in Nat, NEW severity
    PROVE  IsFiniteSet(WithSeverity(severity)) /\ Cardinality(WithSeverity(severity)) \in Nat
<1>1. IsFiniteSet(1..checked)
  <2>1. 1 \in Int /\ checked \in Int
    OBVIOUS
  <2> QED BY <2>1, FS_Interval
<1>2. WithSeverity(severity) \subseteq 1..checked
  BY DEF WithSeverity
<1>3. IsFiniteSet(WithSeverity(severity))
  BY <1>1, <1>2, FS_Subset
<1> QED BY <1>3, FS_CardinalityType

LEMMA InitDrift == DriftInit => DriftInv
<1> SUFFICES ASSUME DriftInit PROVE DriftInv
  OBVIOUS
<1>1. DriftTypeOK
  <2>1. PICK n \in 0..MaxFeatures : features \in [1..n -> Measure \union {Missing}]
    BY DEF DriftInit
  <2>2. n \in Nat
    BY DriftAssumption
  <2>3. features \in Seq(Measure \union {Missing})
    BY <2>1, <2>2
  <2> QED BY <2>3 DEF DriftInit, DriftTypeOK
<1>2. \A severity : WithSeverity(severity) = {}
  BY DEF DriftInit, WithSeverity
<1>3. Cardinality(WithSeverity("severe")) = 0 /\ Cardinality(WithSeverity("moderate")) = 0
  BY <1>2, FS_EmptySet
<1>4. WorstReported
  BY <1>2, <1>3 DEF DriftInit, WorstReported
<1> QED BY <1>1, <1>4 DEF DriftInv

\* One more feature joins the set of its severity, unless it lacks current data.
LEMMA NextSeverity ==
    ASSUME DriftTypeOK, CheckFeature, NEW severity
    PROVE  LET m == features[checked + 1]
           IN  WithSeverity(severity)' =
                   WithSeverity(severity) \union
                   (IF m # Missing /\ DriftSeverity(m) = severity THEN {checked + 1} ELSE {})
<1>1. checked \in Nat /\ checked' = checked + 1 /\ features' = features
  BY DEF DriftTypeOK, CheckFeature
<1>2. 1..checked' = (1..checked) \union {checked + 1}
  BY <1>1
<1> QED BY <1>1, <1>2 DEF WithSeverity

LEMMA DriftStep == DriftInv /\ [CheckFeature]_driftVars => DriftInv'
<1>1. ASSUME DriftInv, CheckFeature PROVE DriftInv'
  <2> DEFINE m == features[checked + 1]
             drifts == m # Missing /\ DriftSeverity(m) # "none"
             severe == WithSeverity("severe")
             moderate == WithSeverity("moderate")
  <2>1. /\ features' = features /\ checked' = checked + 1
        /\ IF drifts THEN drifting' = drifting + 1 /\ worst' = Raised(DriftSeverity(m))
           ELSE drifting' = drifting /\ worst' = worst
    BY <1>1 DEF CheckFeature
  <2>2. checked \in Nat /\ checked + 1 \in 0..Len(features) /\ drifting \in Nat
    <3>1. Len(features) \in Nat
      BY <1>1 DEF DriftInv, DriftTypeOK
    <3> QED BY <1>1, <3>1 DEF DriftInv, DriftTypeOK, CheckFeature
  <2>3. DriftTypeOK'
    <3>1. worst' \in {"none", "moderate", "severe"}
      BY <1>1, <2>1, SeverityKinds DEF DriftInv, DriftTypeOK, Raised
    <3>2. drifting' \in Nat
      BY <2>1, <2>2
    <3>3. features' \in Seq(Measure \union {Missing}) /\ checked' \in 0..Len(features')
      BY <1>1, <2>1, <2>2 DEF DriftInv, DriftTypeOK
    <3> QED BY <3>1, <3>2, <3>3 DEF DriftTypeOK
  <2>4. /\ severe' = severe \union
                (IF m # Missing /\ DriftSeverity(m) = "severe" THEN {checked + 1} ELSE {})
        /\ moderate' = moderate \union
                (IF m # Missing /\ DriftSeverity(m) = "moderate" THEN {checked + 1} ELSE {})
    BY <1>1, NextSeverity DEF DriftInv
  <2>5. checked + 1 \notin severe /\ checked + 1 \notin moderate
    BY <2>2 DEF WithSeverity
  <2>6. /\ IsFiniteSet(severe) /\ Cardinality(severe) \in Nat
        /\ IsFiniteSet(moderate) /\ Cardinality(moderate) \in Nat
    BY <2>2, FiniteSeverity
  <2>7. /\ worst = "severe" <=> severe # {}
        /\ worst = "none" <=> severe = {} /\ moderate = {}
        /\ drifting = Cardinality(severe) + Cardinality(moderate)
        /\ worst = "none" <=> drifting = 0
    BY <1>1 DEF DriftInv, WorstReported
  <2> HIDE DEF severe, moderate
  <2>8. /\ worst' = "severe" <=> severe' # {}
        /\ worst' = "none" <=> severe' = {} /\ moderate' = {}
        /\ drifting' = Cardinality(severe') + Cardinality(moderate')
        /\ worst' = "none" <=> drifting' = 0
    <3>1. CASE ~drifts
      BY <2>1, <2>4, <2>7, <3>1
    <3>2. CASE drifts /\ DriftSeverity(m) = "severe"
      <4>1. severe' = severe \union {checked + 1} /\ moderate' = moderate
        BY <2>4, <3>2
      <4>2. Cardinality(severe') = Cardinality(severe) + 1
        BY <2>5, <2>6, <4>1, FS_AddElement
      <4>3. worst' = "severe" /\ drifting' = drifting + 1
        BY <2>1, <3>2 DEF Raised
      <4> QED BY <2>2, <2>6, <2>7, <4>1, <4>2, <4>3
    <3>3. CASE drifts /\ DriftSeverity(m) = "moderate"
      <4>1. severe' = severe /\ moderate' = moderate \union {checked + 1}
        BY <2>4, <3>3
      <4>2. Cardinality(moderate') = Cardinality(moderate) + 1
        BY <2>5, <2>6, <4>1, FS_AddElement
      <4>3. drifting' = drifting + 1 /\ worst' = IF worst = "none" THEN "moderate" ELSE worst
        BY <2>1, <3>3 DEF Raised
      <4> QED BY <2>2, <2>6, <2>7, <4>1, <4>2, <4>3
    <3> QED BY <3>1, <3>2, <3>3, SeverityKinds
  <2>9. WorstReported'
    BY <2>8 DEF WorstReported, severe, moderate
  <2> QED BY <2>3, <2>9 DEF DriftInv
<1>2. ASSUME DriftInv, UNCHANGED driftVars PROVE DriftInv'
  BY <1>2 DEF DriftInv, DriftTypeOK, WorstReported, WithSeverity, driftVars
<1> QED BY <1>1, <1>2

\* The severity and the count of a drift report are those of its features, in
\* any order and however many they are.
THEOREM WorstHolds == DriftSpec => []WorstReported
<1>1. DriftInv => WorstReported
  BY DEF DriftInv
<1> QED BY <1>1, InitDrift, DriftStep, PTL DEF DriftSpec
-----------------------------------------------------------------------------
(* What classify_severity promises, for any counts and any trust scores. *)

\* The contexts stay within their bounds.
THEOREM ContextTypes == ContextSpec => []ContextOK
<1>1. ContextInit => ContextOK
  BY ContextAssumption DEF ContextInit, ContextOK
<1>2. ContextOK /\ [ContextNext]_context => ContextOK'
  BY ContextAssumption DEF ContextOK, ContextNext, FailAgain, AlertAgain, LoseTrust, context
<1>. QED  BY <1>1, <1>2, PTL DEF ContextSpec

\* Every event has a base severity, and none is CRITICAL by itself.
LEMMA BaseType ==
  ASSUME NEW e \in EventTypes
  PROVE  Base(e) \in {"INFO", "LOW", "MEDIUM", "HIGH"}
<1>1. PICK v \in DOMAIN BaseEvents : e \in BaseEvents[v]
  BY DEF EventTypes
<1>2. Base(e) \in DOMAIN BaseEvents
  BY <1>1 DEF Base
<1>. QED  BY <1>2 DEF BaseEvents

\* The three rules in sequence, over all contexts, against what each promises.
THEOREM RulesHold == ContextSpec => []RulesCompose
<1>1. ContextOK => RulesCompose
  <2>. SUFFICES ASSUME ContextOK PROVE RulesCompose
    OBVIOUS
  <2>1. Base(event) \in {"INFO", "LOW", "MEDIUM", "HIGH"}
    BY BaseType DEF ContextOK
  <2>2. failures \in Nat /\ alerts \in Nat /\ trust \in Nat
    BY ContextAssumption DEF ContextOK
  <2>. QED  BY <2>1, <2>2 DEF RulesCompose, Severest, Classify, EscalateFailures, EscalateTrust,
       EscalateAlerts, AtLeast, MeetsThreshold, Order
<1>. QED  BY <1>1, ContextTypes, PTL

\* In any worse context the severity is at least as high.
LEMMA WorseContext ==
  ASSUME NEW e \in EventTypes, NEW f \in Nat, NEW g \in Nat, NEW a \in Nat, NEW b \in Nat,
         NEW t \in Nat, NEW u \in Nat, f <= g, a <= b, u <= t
  PROVE  AtLeast(Classify(e, g, u, b), Classify(e, f, t, a))
<1>1. Base(e) \in {"INFO", "LOW", "MEDIUM", "HIGH"}
  BY BaseType
<1>. QED  BY <1>1 DEF Classify, EscalateFailures, EscalateTrust, EscalateAlerts, AtLeast, Order

\* A worse context never lowers the severity.
THEOREM NoDeescalation == ContextSpec => NeverDeescalates
<1>1. ContextOK /\ ContextOK' /\ [ContextNext]_context => [AtLeast(Severest', Severest)]_context
  <2>. SUFFICES ASSUME ContextOK, ContextOK', ContextNext PROVE AtLeast(Severest', Severest)
    OBVIOUS
  <2>1. /\ failures \in Nat /\ alerts \in Nat /\ trust \in Nat
        /\ failures' \in Nat /\ alerts' \in Nat /\ trust' \in Nat
    BY ContextAssumption DEF ContextOK
  <2>2. failures <= failures' /\ alerts <= alerts' /\ trust' <= trust /\ event' = event
    BY <2>1 DEF ContextNext, FailAgain, AlertAgain, LoseTrust
  <2>3. event \in EventTypes
    BY DEF ContextOK
  <2>. QED  BY <2>1, <2>2, <2>3, WorseContext DEF Severest
<1>. QED  BY <1>1, ContextTypes, PTL DEF ContextSpec, NeverDeescalates
=============================================================================
