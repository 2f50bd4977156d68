----------------------------- MODULE SimProofs ------------------------------
(***************************************************************************)
(* Simulated attacks implement AuditTrail up to relabelling: undo what     *)
(* every simulate_ml_anomaly does to its own row after record_event, and   *)
(* what is left is an execution of AuditTrail.  AuditProofs' theorems then *)
(* hold of it, and what the simulations add is read off the difference.    *)
(***************************************************************************)
EXTENDS AttackSim, TLAPS

\* The row of r as record_event alone leaves it.
Recorded(r) == AuditRowOf(r, IF stage[r] = "done" THEN OwnLink(r) ELSE NoLink)

\* The log before any relabelling.
Unrelabelled == [r \in DOMAIN audit |-> Recorded(r)]

\* AuditProofs rests on ChainProofs, which is about the readers of Explorer too;
\* the simulations have none.
Trail == INSTANCE AuditProofs
         WITH audit <- Unrelabelled,
              Reader <- {}, Epoch <- {}, LastRead <- 0, Limit <- 1,
              asked <- <<>>, reading <- <<>>, counted <- <<>>, root <- <<>>

\* The row of r once its simulation has relabelled it.
Relabelled(r) ==
    [event |-> event[r],
     severity |-> IF IsAnomaly(r) THEN Level(r) ELSE ClassifyPlain(event[r]),
     link |-> IF KeepsAnchor(r) THEN OwnLink(r) ELSE NoLink]

\* The simulations that got past every exception.
Succeeded(s) == phase[s] = "report" \/ (phase[s] = "done" /\ "detected" \in report[s])

\* simulate_* and the record_event it calls stand at matching places.
PhasesAgree ==
    \A s \in Session :
        /\ phase[s] = "new" => stage[s] = "new"
        /\ phase[s] = "record" => stage[s] \in {"new", "anchor", "commit"} /\ Records(s)
        /\ phase[s] = "relabel" => stage[s] = "done" /\ IsAnomaly(s)
        /\ Succeeded(s) /\ Records(s) => stage[s] = "done"

\* A row is as record_event left it until its simulation reports, and then as
\* relabelled; after an exception it is one or the other.
RowsAgree ==
    \A r \in DOMAIN audit :
        /\ audit[r] \in {Recorded(r), Relabelled(r)}
        /\ phase[r] \in {"new", "record", "relabel"} => audit[r] = Recorded(r)
        /\ Succeeded(r) => audit[r] = Relabelled(r)

ReportsAgree ==
    \A s \in Session :
        /\ report[s] # {} => phase[s] = "done" /\ ("anchored" \in report[s] <=> KeepsAnchor(s))
        /\ event[s] = EventOf(attack[s])

\* What the variables of AttackSim hold.
SimVarsOK ==
    /\ attack \in [Session -> Attacks]
    /\ phase \in [Session -> Phases]
    /\ penalised \subseteq Session
    /\ report \in [Session -> SUBSET {"detected", "penalty", "anchored"}]

SimAgree == SimVarsOK /\ PhasesAgree /\ RowsAgree /\ ReportsAgree
-----------------------------------------------------------------------------
LEMMA RecordedKept ==
    ASSUME NEW s \in Session, UNCHANGED event, stage[s] # "done", stage'[s] # "done",
           \A r \in Session \ {s} : stage'[r] = stage[r] /\ ret'[r] = ret[r]
    PROVE  \A r \in Session : Recorded(r)' = Recorded(r)
<1> SUFFICES ASSUME NEW r \in Session PROVE Recorded(r)' = Recorded(r)
  OBVIOUS
<1>1. CASE r = s
  BY <1>1 DEF Recorded, AuditRowOf
<1>2. CASE r # s
  BY <1>2 DEF Recorded, AuditRowOf, OwnLink, Anchors
<1> QED BY <1>1, <1>2

\* The instance judges an event as AttackSim does.
LEMMA SameRules ==
    /\ \A e : Trail!ClassifyPlain(e) = ClassifyPlain(e)
    /\ \A s : Trail!Anchors(s) <=> Anchors(s)
    /\ \A s, link : Trail!AuditRowOf(s, link) = AuditRowOf(s, link)
    /\ \A s : Trail!OwnLink(s) = OwnLink(s)
<1>1. \A e : Trail!ClassifyPlain(e) = ClassifyPlain(e)
  BY DEF Trail!ClassifyPlain, Trail!Classify, Trail!EscalateAlerts, Trail!EscalateTrust,
     Trail!EscalateFailures, Trail!Base, Trail!BaseEvents, Trail!AtLeast, Trail!Order,
     ClassifyPlain, Classify, EscalateAlerts, EscalateTrust, EscalateFailures, Base, BaseEvents,
     AtLeast, Order
<1>2. \A s : Trail!Anchors(s) <=> Anchors(s)
  BY <1>1 DEF Trail!Anchors, Anchors, Trail!MeetsThreshold, MeetsThreshold, Trail!AtLeast, AtLeast,
     Trail!Order, Order
<1>3. \A s, link : Trail!AuditRowOf(s, link) = AuditRowOf(s, link)
  BY <1>1 DEF Trail!AuditRowOf, AuditRowOf
<1>4. \A s : Trail!OwnLink(s) = OwnLink(s)
  BY <1>2 DEF Trail!OwnLink, OwnLink
<1> QED BY <1>1, <1>2, <1>3, <1>4

\* The assumptions of AuditProofs, which its theorems carry into the instance.
LEMMA TrailAssumptions ==
    /\ Genesis \notin Data /\ Session \subseteq Data /\ NoLink \notin Nat
    /\ Event \subseteq Trail!EventTypes
BY GenesisAssumption, SessionsAreContents, NoLinkAssumption, EventAssumption
DEF EventTypes, BaseEvents, Trail!EventTypes, Trail!BaseEvents

\* A row committed for s shows in the log before any relabelling.
LEMMA PersistedIsTrail ==
    ASSUME NEW s \in Session, NEW link, DOMAIN audit \subseteq Session, audit' = Persisted(s, link),
           Recorded(s)' = AuditRowOf(s, link),
           \A r \in Session \ {s} : Recorded(r)' = Recorded(r)
    PROVE  Unrelabelled' = Trail!Persisted(s, link)
<1>1. DOMAIN audit' = DOMAIN audit \union {s} /\ DOMAIN Unrelabelled = DOMAIN audit
  BY DEF Persisted, Unrelabelled
<1>2. Trail!Persisted(s, link)
        = [r \in DOMAIN audit \union {s} |-> IF r = s THEN AuditRowOf(s, link) ELSE Unrelabelled[r]]
  BY <1>1, SameRules DEF Trail!Persisted
<1>3. Unrelabelled' = [r \in DOMAIN audit \union {s} |-> Recorded(r)']
  BY <1>1 DEF Unrelabelled
<1>4. \A r \in DOMAIN audit : Unrelabelled[r] = Recorded(r)
  BY DEF Unrelabelled
<1>5. ASSUME NEW r \in DOMAIN audit \union {s}
      PROVE  Recorded(r)' = IF r = s THEN AuditRowOf(s, link) ELSE Unrelabelled[r]
  BY <1>4
<1> QED BY <1>2, <1>3, <1>5

\* The types of AuditTrail, by the names of this module.
LEMMA TrailTypes ==
    ASSUME Trail!AuditInv
    PROVE  /\ DOMAIN audit \subseteq Session /\ TypeOK
           /\ stage \in [Session -> Stages]
           /\ event \in [Session -> Event]
BY DEF Trail!AuditInv, Trail!AuditTypeOK, Trail!TypeOK, Trail!Stages, Stages, Trail!InFlight,
   InFlight, Trail!Ended, Ended, Unrelabelled, TypeOK, Trail!IsTable, IsTable, Trail!Block, Block,
   Trail!Digest, Digest, Trail!Text, Text, Trail!Content, Content

\* Every step of record_event inside a simulation is one of AuditTrail.
LEMMA RecordIsTrail ==
    ASSUME Trail!AuditInv, NEW s \in Session, RecordStep(s)
    PROVE  Trail!RecordStep(s)
<1>t. /\ DOMAIN audit \subseteq Session /\ stage \in [Session -> Stages]
      /\ pc \in [Session -> {"new"} \union InFlight \union Ended] /\ ret \in [Session -> Nat]
  BY TrailTypes DEF TypeOK
<1> USE SameRules
<1>1. CASE RecordEvent(s)
  <2>1. /\ stage[s] # "done" /\ stage'[s] # "done" /\ UNCHANGED <<audit, event>>
        /\ \A r \in Session \ {s} : stage'[r] = stage[r] /\ ret'[r] = ret[r]
    BY <1>1, <1>t DEF RecordEvent, Move, CallAddBlock, chainVars
  <2>2. Unrelabelled' = Unrelabelled
    BY <1>t, <2>1, RecordedKept DEF Unrelabelled
  <2>3. CallAddBlock(s, s) => Trail!CallAddBlock(s, s)
    BY DEF CallAddBlock, Trail!CallAddBlock
  <2>4. Trail!RecordEvent(s)
    BY <1>1, <2>2, <2>3 DEF RecordEvent, Trail!RecordEvent, Trail!Move, Move, Trail!chainVars,
       chainVars
  <2> QED BY <2>4 DEF Trail!RecordStep
<1>2. CASE AnchorReads(s)
  <2>1. UNCHANGED <<audit, stage, event, ret>>
    BY <1>2 DEF AnchorReads, auditVars, SelectLatest, SelectGenesis
  <2>2. Unrelabelled' = Unrelabelled
    BY <2>1 DEF Unrelabelled, Recorded, AuditRowOf, OwnLink, Anchors
  <2>3. SelectLatest(s) => Trail!SelectLatest(s)
    BY DEF SelectLatest, Trail!SelectLatest, IsLatest, Trail!IsLatest, Row, Trail!Row
  <2>4. SelectGenesis(s) => Trail!SelectGenesis(s)
    BY DEF SelectGenesis, Trail!SelectGenesis, AfterInitialize, Trail!AfterInitialize, Row, Trail!Row
  <2>5. Trail!AnchorReads(s)
    BY <1>2, <2>1, <2>2, <2>3, <2>4 DEF AnchorReads, Trail!AnchorReads, Trail!auditVars
  <2> QED BY <2>5 DEF Trail!RecordStep
<1>3. CASE AnchorCommits(s)
  <2>1. CommitGenesis(s) => Trail!CommitGenesis(s)
    BY DEF CommitGenesis, Trail!CommitGenesis, AfterInitialize, Trail!AfterInitialize, With,
       Trail!With, NewBlock, Trail!NewBlock, Hash, Trail!Hash, ZeroHash, Trail!ZeroHash
  <2>2. CommitBlock(s) => Trail!CommitBlock(s)
    BY DEF CommitBlock, Trail!CommitBlock, With, Trail!With, NewBlock, Trail!NewBlock, Hash, Trail!Hash
  <2>3. /\ stage[s] # "done" /\ stage'[s] # "done" /\ UNCHANGED event
        /\ \A r \in Session \ {s} : stage'[r] = stage[r] /\ ret'[r] = ret[r]
    BY <1>3, <1>t DEF AnchorCommits, Move, CommitGenesis, CommitBlock
  <2>4. \A r \in Session : Recorded(r)' = Recorded(r)
    BY <2>3, RecordedKept
  <2>5. CASE pc'[s] = "conflict"
    <3>1. UNCHANGED audit /\ Move(s, "failed")
      BY <1>3, <2>5 DEF AnchorCommits
    <3>2. Unrelabelled' = Unrelabelled
      BY <1>t, <2>4, <3>1 DEF Unrelabelled
    <3>3. Trail!AnchorCommits(s)
      BY <1>3, <2>1, <2>2, <2>3, <2>5, <3>1, <3>2 DEF AnchorCommits, Trail!AnchorCommits, Move,
         Trail!Move
    <3> QED BY <3>3 DEF Trail!RecordStep
  <2>6. CASE pc'[s] # "conflict"
    <3>1. audit' = Persisted(s, NoLink) /\ UNCHANGED stage
      BY <1>3, <2>6 DEF AnchorCommits, FlushedRow
    <3>2. Recorded(s)' = AuditRowOf(s, NoLink)
      BY <2>3, <2>4 DEF Recorded
    <3>3. Unrelabelled' = Trail!Persisted(s, NoLink)
      BY <1>t, <2>4, <3>1, <3>2, PersistedIsTrail
    <3>4. Trail!AnchorCommits(s)
      BY <1>3, <2>1, <2>2, <2>3, <2>6, <3>1, <3>3 DEF AnchorCommits, Trail!AnchorCommits,
         Trail!FlushedRow
    <3> QED BY <3>4 DEF Trail!RecordStep
  <2> QED BY <2>5, <2>6
<1>4. CASE AnchorReturns(s)
  <2>1. /\ stage[s] # "done" /\ stage'[s] # "done" /\ UNCHANGED <<audit, event>>
        /\ \A r \in Session \ {s} : stage'[r] = stage[r] /\ ret'[r] = ret[r]
    BY <1>4, <1>t DEF AnchorReturns, Move, Return
  <2>2. Unrelabelled' = Unrelabelled
    BY <1>t, <2>1, RecordedKept DEF Unrelabelled
  <2>3. Trail!AnchorReturns(s)
    BY <1>4, <2>2 DEF AnchorReturns, Trail!AnchorReturns, Return, Trail!Return, Move, Trail!Move
  <2> QED BY <2>3 DEF Trail!RecordStep
<1>5. CASE CommitAudit(s)
  <2>1. /\ stage[s] # "done" /\ stage'[s] = "done" /\ UNCHANGED <<chainVars, event>>
        /\ \A r \in Session \ {s} : stage'[r] = stage[r]
        /\ audit' = Persisted(s, OwnLink(s))
    BY <1>5, <1>t DEF CommitAudit, Move
  <2>2. Recorded(s)' = AuditRowOf(s, OwnLink(s))
    BY <2>1 DEF Recorded, AuditRowOf, OwnLink, Anchors, chainVars
  <2>3. \A r \in Session \ {s} : Recorded(r)' = Recorded(r)
    BY <2>1 DEF Recorded, AuditRowOf, OwnLink, Anchors, chainVars
  <2>4. Unrelabelled' = Trail!Persisted(s, OwnLink(s))
    BY <1>t, <2>1, <2>2, <2>3, PersistedIsTrail
  <2>5. Trail!CommitAudit(s)
    BY <1>5, <2>1, <2>4 DEF CommitAudit, Trail!CommitAudit, Move, Trail!Move, chainVars,
       Trail!chainVars
  <2> QED BY <2>5 DEF Trail!RecordStep
<1>6. CASE AbortAudit(s)
  <2>1. /\ stage[s] # "done" /\ stage'[s] # "done" /\ UNCHANGED <<audit, event>>
        /\ \A r \in Session \ {s} : stage'[r] = stage[r] /\ ret'[r] = ret[r]
    BY <1>6, <1>t DEF AbortAudit, Move, Abort, chainVars
  <2>2. Unrelabelled' = Unrelabelled
    BY <1>t, <2>1, RecordedKept DEF Unrelabelled
  <2>3. Trail!AbortAudit(s)
    BY <1>6, <2>2 DEF AbortAudit, Trail!AbortAudit, Abort, Trail!Abort, Move, Trail!Move, InFlight,
       Trail!InFlight, chainVars, Trail!chainVars
  <2> QED BY <2>3 DEF Trail!RecordStep
<1> QED
  BY <1>1, <1>2, <1>3, <1>4, <1>5, <1>6 DEF RecordStep

\* Only the row of s is written, and only while record_event runs.
LEMMA RecordStepOnRows ==
    ASSUME Trail!AuditInv, NEW s \in Session, RecordStep(s)
    PROVE  /\ stage[s] \in {"new", "anchor", "commit"} /\ UNCHANGED event
           /\ stage' = [stage EXCEPT ![s] = stage'[s]]
           /\ stage'[s] \in {"anchor", "commit", "done", "failed"}
           /\ stage'[s] = "done" => s \in DOMAIN audit'
           /\ \A r \in Session \ {s} : stage'[r] = stage[r] /\ ret'[r] = ret[r]
           /\ DOMAIN audit \subseteq DOMAIN audit'
           /\ DOMAIN audit' \subseteq DOMAIN audit \union {s}
           /\ \A r \in DOMAIN audit : r # s => audit'[r] = audit[r] /\ Recorded(r)' = Recorded(r)
           /\ \/ s \in DOMAIN audit' /\ audit'[s] = Recorded(s)'
              \/ UNCHANGED audit /\ Recorded(s)' = Recorded(s)
<1>t. /\ DOMAIN audit \subseteq Session /\ stage \in [Session -> Stages]
      /\ pc \in [Session -> {"new"} \union InFlight \union Ended] /\ ret \in [Session -> Nat]
  BY TrailTypes DEF TypeOK
<1>1. CASE RecordEvent(s) \/ AnchorReturns(s) \/ AbortAudit(s)
  <2>1. /\ stage[s] \in {"new", "anchor", "commit"} /\ UNCHANGED <<audit, event>>
        /\ stage' = [stage EXCEPT ![s] = stage'[s]]
        /\ stage'[s] \in {"anchor", "commit", "failed"}
        /\ \A r \in Session \ {s} : stage'[r] = stage[r] /\ ret'[r] = ret[r]
    BY <1>1, <1>t DEF RecordEvent, AnchorReturns, AbortAudit, Abort, Move, CallAddBlock, Return,
       chainVars
  <2>2. \A r \in Session : Recorded(r)' = Recorded(r)
    BY <2>1, RecordedKept
  <2> QED BY <1>t, <2>1, <2>2
<1>2. CASE AnchorReads(s)
  <2>1. UNCHANGED <<audit, stage, event, ret>> /\ stage[s] = "anchor"
    BY <1>2 DEF AnchorReads, auditVars, SelectLatest, SelectGenesis
  <2>2. \A r \in Session : Recorded(r)' = Recorded(r)
    BY <2>1 DEF Recorded, AuditRowOf, OwnLink, Anchors
  <2> QED BY <1>t, <2>1, <2>2
<1>3. CASE AnchorCommits(s)
  <2>1. /\ stage[s] = "anchor" /\ UNCHANGED event
        /\ stage' = [stage EXCEPT ![s] = stage'[s]] /\ stage'[s] \in {"anchor", "failed"}
        /\ \A r \in Session \ {s} : stage'[r] = stage[r] /\ ret'[r] = ret[r]
        /\ UNCHANGED audit \/ audit' = Persisted(s, NoLink)
    BY <1>3, <1>t DEF AnchorCommits, Move, CommitGenesis, CommitBlock, FlushedRow
  <2>2. \A r \in Session : Recorded(r)' = Recorded(r)
    BY <2>1, RecordedKept
  <2>3. Recorded(s)' = AuditRowOf(s, NoLink)
    BY <2>1, <2>2 DEF Recorded
  <2>4. CASE UNCHANGED audit
    BY <1>t, <2>1, <2>2, <2>4
  <2>5. CASE audit' = Persisted(s, NoLink)
    BY <1>t, <2>1, <2>2, <2>3, <2>5 DEF Persisted
  <2> QED BY <2>1, <2>4, <2>5
<1>4. CASE CommitAudit(s)
  <2>1. /\ stage[s] = "commit" /\ stage'[s] = "done" /\ UNCHANGED <<chainVars, event>>
        /\ stage' = [stage EXCEPT ![s] = "done"]
        /\ \A r \in Session \ {s} : stage'[r] = stage[r] /\ ret'[r] = ret[r]
        /\ audit' = Persisted(s, OwnLink(s))
    BY <1>4, <1>t DEF CommitAudit, Move, chainVars
  <2>2. Recorded(s)' = AuditRowOf(s, OwnLink(s))
    BY <2>1 DEF Recorded, AuditRowOf, OwnLink, Anchors, chainVars
  <2>3. \A r \in Session \ {s} : Recorded(r)' = Recorded(r)
    BY <2>1 DEF Recorded, AuditRowOf, OwnLink, Anchors, chainVars
  <2> QED BY <1>t, <2>1, <2>2, <2>3 DEF Persisted
<1> QED
  BY <1>1, <1>2, <1>3, <1>4 DEF RecordStep

\* Relabelling writes no chain, no stage and, before relabelling, no row.
LEMMA OtherStepsStutter ==
    ASSUME NEW s \in Session, SimStep(s), ~Record(s)
    PROVE  /\ UNCHANGED <<chainVars, stage, event, attack>> /\ DOMAIN audit' = DOMAIN audit
           /\ Unrelabelled' = Unrelabelled
           /\ \A r \in Session : Recorded(r)' = Recorded(r) /\ Relabelled(r)' = Relabelled(r)
<1>1. UNCHANGED <<chainVars, stage, event, attack>> /\ DOMAIN audit' = DOMAIN audit
  BY DEF SimStep, Penalise, SkipPenalty, Relabel, Answer, vars, auditVars
<1>2. \A r \in Session : Recorded(r)' = Recorded(r) /\ Relabelled(r)' = Relabelled(r)
  BY <1>1 DEF Recorded, Relabelled, AuditRowOf, OwnLink, Anchors, chainVars, IsAnomaly, Level,
     KeepsAnchor
<1>3. Unrelabelled' = Unrelabelled
  BY <1>1 DEF Unrelabelled, Recorded, AuditRowOf, OwnLink, Anchors, chainVars
<1> QED BY <1>1, <1>2, <1>3

LEMMA SimStepIsTrail == Trail!AuditInv /\ [SimNext]_allVars => [Trail!AuditNext]_(Trail!vars)
<1> SUFFICES ASSUME Trail!AuditInv, [SimNext]_allVars PROVE [Trail!AuditNext]_(Trail!vars)
  OBVIOUS
<1>1. CASE UNCHANGED allVars
  BY <1>1 DEF allVars, vars, auditVars, chainVars, Trail!vars, Trail!auditVars, Trail!chainVars,
     Unrelabelled, Recorded, AuditRowOf, OwnLink, Anchors
<1>2. ASSUME NEW s \in Session, Record(s) PROVE Trail!AuditNext
  BY <1>2, RecordIsTrail DEF Record, Trail!AuditNext
<1>3. ASSUME NEW s \in Session, SimStep(s), ~Record(s) PROVE UNCHANGED Trail!vars
  BY <1>3, OtherStepsStutter DEF Trail!vars, Trail!auditVars, Trail!chainVars, chainVars
<1> QED BY <1>1, <1>2, <1>3 DEF SimNext, SimStep

LEMMA SimInitIsTrail == SimInit => Trail!AuditInit
<1> SUFFICES ASSUME SimInit PROVE Trail!AuditInit
  OBVIOUS
<1>1. Trail!Init
  BY DEF SimInit, AuditInit, Init, Trail!Init, NewBlock, Trail!NewBlock, Hash, Trail!Hash, ZeroHash,
     Trail!ZeroHash
<1>2. Unrelabelled = [s \in {} |-> Trail!AuditRowOf(s, NoLink)]
  BY DEF SimInit, AuditInit, Unrelabelled
<1> QED BY <1>1, <1>2 DEF SimInit, AuditInit, Trail!AuditInit
-----------------------------------------------------------------------------
LEMMA TrailHolds == SimSpec => []Trail!AuditInv
<1>1. SimInit => Trail!AuditInv
  BY SimInitIsTrail, TrailAssumptions, Trail!AuditInitInv
<1>2. Trail!AuditInv /\ [SimNext]_allVars => Trail!AuditInv'
  BY SimStepIsTrail, TrailAssumptions, Trail!AuditStep
<1> QED BY <1>1, <1>2, PTL DEF SimSpec

\* Simulated attacks keep the specification of record_event, up to their own
\* relabelling, and so all that AuditProofs proves of it.
THEOREM SimImplementsTrail == SimSpec => Trail!AuditSpec
BY TrailHolds, SimInitIsTrail, SimStepIsTrail, PTL DEF SimSpec, Trail!AuditSpec
-----------------------------------------------------------------------------
LEMMA SimInitAgree == SimInit => SimAgree
<1> SUFFICES ASSUME SimInit PROVE SimAgree
  OBVIOUS
<1>1. SimVarsOK
  BY DEF SimInit, SimVarsOK, Phases
<1>2. PhasesAgree
  BY DEF SimInit, AuditInit, PhasesAgree, Succeeded
<1>3. RowsAgree
  BY DEF SimInit, AuditInit, RowsAgree
<1>4. ReportsAgree
  BY DEF SimInit, ReportsAgree
<1> QED BY <1>1, <1>2, <1>3, <1>4 DEF SimAgree

LEMMA RecordAgree ==
    ASSUME Trail!AuditInv, SimAgree, NEW s \in Session, Record(s)
    PROVE  SimAgree'
<1>1. phase[s] = "record" /\ RecordStep(s) /\ UNCHANGED <<attack, penalised, report>>
      /\ phase' = [phase EXCEPT ![s] = AfterRecord(s)]
  BY DEF Record, Proceed
<1>2. SimVarsOK /\ PhasesAgree /\ RowsAgree /\ ReportsAgree /\ DOMAIN audit \subseteq Session
      /\ stage \in [Session -> Stages]
  BY TrailTypes DEF SimAgree
<1>3. /\ UNCHANGED event /\ stage' = [stage EXCEPT ![s] = stage'[s]]
      /\ stage'[s] \in {"anchor", "commit", "done", "failed"}
      /\ stage'[s] = "done" => s \in DOMAIN audit'
      /\ \A r \in Session \ {s} : stage'[r] = stage[r] /\ ret'[r] = ret[r]
      /\ DOMAIN audit \subseteq DOMAIN audit' /\ DOMAIN audit' \subseteq DOMAIN audit \union {s}
      /\ \A r \in DOMAIN audit : r # s => audit'[r] = audit[r] /\ Recorded(r)' = Recorded(r)
      /\ \/ s \in DOMAIN audit' /\ audit'[s] = Recorded(s)'
         \/ UNCHANGED audit /\ Recorded(s)' = Recorded(s)
  BY <1>1, RecordStepOnRows
<1>4. /\ AfterRecord(s) \in {"record", "relabel", "report", "caught"}
      /\ AfterRecord(s) = "record" => stage'[s] \in {"anchor", "commit"}
      /\ AfterRecord(s) = "relabel" => stage'[s] = "done" /\ IsAnomaly(s)
      /\ AfterRecord(s) = "report" => stage'[s] = "done" /\ ~IsAnomaly(s)
  BY <1>3 DEF AfterRecord
<1>5. /\ phase'[s] = AfterRecord(s) /\ ~Succeeded(s) /\ Records(s)
      /\ \A r \in Session \ {s} : phase'[r] = phase[r]
      /\ Succeeded(s)' => AfterRecord(s) = "report"
      /\ \A r \in Session \ {s} : Succeeded(r)' = Succeeded(r)
  BY <1>1, <1>2, <1>4 DEF SimVarsOK, Succeeded, PhasesAgree
<1>6. SimVarsOK'
  BY <1>1, <1>2, <1>4 DEF SimVarsOK, Phases
<1>7. PhasesAgree'
  <2> SUFFICES ASSUME NEW r \in Session
               PROVE  /\ phase'[r] = "new" => stage'[r] = "new"
                      /\ phase'[r] = "record" =>
                            stage'[r] \in {"new", "anchor", "commit"} /\ Records(r)'
                      /\ phase'[r] = "relabel" => stage'[r] = "done" /\ IsAnomaly(r)'
                      /\ Succeeded(r)' /\ Records(r)' => stage'[r] = "done"
    BY DEF PhasesAgree
  <2>1. (Records(r)' <=> Records(r)) /\ (IsAnomaly(r)' <=> IsAnomaly(r))
    BY <1>1 DEF Records, IsAnomaly
  <2>2. CASE r = s
    BY <1>4, <1>5, <2>1, <2>2
  <2>3. CASE r # s
    BY <1>2, <1>3, <1>5, <2>1, <2>3 DEF PhasesAgree
  <2> QED BY <2>2, <2>3
<1>8. RowsAgree'
  <2> SUFFICES ASSUME NEW r \in DOMAIN audit'
               PROVE  /\ audit'[r] \in {Recorded(r)', Relabelled(r)'}
                      /\ phase'[r] \in {"new", "record", "relabel"} => audit'[r] = Recorded(r)'
                      /\ Succeeded(r)' => audit'[r] = Relabelled(r)'
    BY DEF RowsAgree
  <2>1. CASE r = s
    <3>1. audit'[s] = Recorded(s)'
      BY <1>1, <1>2, <1>3, <2>1 DEF RowsAgree
    <3>2. Succeeded(s)' => Relabelled(s)' = Recorded(s)'
      BY <1>1, <1>4, <1>5 DEF Relabelled, Recorded, AuditRowOf, IsAnomaly, KeepsAnchor
    <3> QED BY <2>1, <3>1, <3>2
  <2>2. CASE r # s
    <3>1. Relabelled(r)' = Relabelled(r)
      BY <1>1, <1>2, <1>3, <2>2 DEF Relabelled, OwnLink, Anchors, IsAnomaly, Level, KeepsAnchor
    <3> QED BY <1>2, <1>3, <1>5, <2>2, <3>1 DEF RowsAgree
  <2> QED BY <2>1, <2>2
<1>9. ReportsAgree'
  BY <1>1, <1>2, <1>3, <1>5 DEF ReportsAgree, KeepsAnchor, IsAnomaly, Level
<1> QED BY <1>6, <1>7, <1>8, <1>9 DEF SimAgree

\* A row is what its three columns hold.
LEMMA RowByColumns ==
    ASSUME NEW row, row = [f \in DOMAIN row |-> row[f]],
           DOMAIN row = {"event", "severity", "link"}
    PROVE  row = [event |-> row["event"], severity |-> row["severity"], link |-> row["link"]]
<1> DEFINE same == [event |-> row["event"], severity |-> row["severity"], link |-> row["link"]]
<1>1. /\ same = [f \in DOMAIN same |-> same[f]]
      /\ DOMAIN same = {"event", "severity", "link"}
      /\ same["event"] = row["event"] /\ same["severity"] = row["severity"]
      /\ same["link"] = row["link"]
  OBVIOUS
<1> HIDE DEF same
<1>2. row = same
  BY <1>1
<1> QED BY <1>2 DEF same

LEMMA OtherAgree ==
    ASSUME Trail!AuditInv, SimAgree, NEW s \in Session, SimStep(s), ~Record(s)
    PROVE  SimAgree'
<1>1. /\ UNCHANGED <<chainVars, stage, event, attack>> /\ DOMAIN audit' = DOMAIN audit
      /\ \A r \in Session : Recorded(r)' = Recorded(r) /\ Relabelled(r)' = Relabelled(r)
  BY OtherStepsStutter
<1>2. /\ SimVarsOK /\ PhasesAgree /\ RowsAgree /\ ReportsAgree /\ DOMAIN audit \subseteq Session
      /\ phase \in [Session -> Phases]
      /\ report \in [Session -> SUBSET {"detected", "penalty", "anchored"}]
  BY TrailTypes DEF SimAgree, SimVarsOK
<1>3. /\ stage[s] = "new" => s \notin DOMAIN audit
      /\ stage[s] = "done" => s \in DOMAIN audit
  BY DEF Trail!AuditInv, Trail!StagesAgree, Trail!AnswersAreRecorded, Unrelabelled
<1>4. \A r \in Session : /\ Records(r)' <=> Records(r)
                         /\ IsAnomaly(r)' <=> IsAnomaly(r)
                         /\ KeepsAnchor(r)' <=> KeepsAnchor(r)
  BY <1>1 DEF Records, IsAnomaly, KeepsAnchor, Level
\* What each step does to the simulation of s and to no other.
<1> DEFINE Elsewhere == \A r \in Session \ {s} : phase'[r] = phase[r] /\ report'[r] = report[r]
<1>5. CASE Penalise(s) \/ SkipPenalty(s)
  <2>1. /\ phase[s] = "new" /\ UNCHANGED <<audit, report>> /\ Elsewhere
        /\ phase'[s] \in {AfterPenalty(s), "caught"}
        /\ phase' = [phase EXCEPT ![s] = phase'[s]] /\ penalised' \subseteq Session
    BY <1>2, <1>5 DEF Penalise, SkipPenalty, Proceed, vars, auditVars, SimVarsOK
  <2>2. /\ phase'[s] \in {"record", "report", "caught"} /\ s \notin DOMAIN audit
        /\ stage[s] = "new" /\ (phase'[s] # "caught" => (phase'[s] = "record" <=> Records(s)))
    BY <1>2, <1>3, <2>1 DEF AfterPenalty, PhasesAgree
  <2>3. SimVarsOK'
    BY <1>1, <1>2, <2>1, <2>2 DEF SimVarsOK, Phases
  <2>4. PhasesAgree'
    BY <1>1, <1>2, <1>4, <2>1, <2>2 DEF PhasesAgree, Succeeded
  <2>5. RowsAgree'
    BY <1>1, <1>2, <2>1, <2>2 DEF RowsAgree, Succeeded
  <2>6. ReportsAgree'
    BY <1>1, <1>2, <1>4, <2>1, <2>2 DEF ReportsAgree
  <2> QED BY <2>3, <2>4, <2>5, <2>6 DEF SimAgree
<1>6. CASE Relabel(s)
  <2>1. /\ phase[s] = "relabel" /\ UNCHANGED <<penalised, report>> /\ Elsewhere
        /\ phase' = [phase EXCEPT ![s] = phase'[s]] /\ phase'[s] \in {"report", "caught"}
    BY <1>2, <1>6 DEF Relabel, Proceed
  <2>2. /\ stage[s] = "done" /\ IsAnomaly(s) /\ s \in DOMAIN audit
        /\ audit[s] = AuditRowOf(s, OwnLink(s))
    BY <1>2, <1>3, <2>1 DEF PhasesAgree, RowsAgree, Recorded
  <2>3. /\ \A r \in DOMAIN audit : r # s => audit'[r] = audit[r]
        /\ audit'[s] \in {audit[s], Relabelled(s)}
        /\ phase'[s] = "report" => audit'[s] = Relabelled(s)
    <3>1. CASE phase'[s] = "caught"
      BY <1>2, <1>6, <2>1, <3>1 DEF Relabel, Proceed
    <3>2. CASE phase'[s] = "report"
      <4>1. audit' = [audit EXCEPT ![s].severity = Level(s),
                                   ![s].link = IF KeepsAnchor(s) THEN @ ELSE NoLink]
        BY <1>2, <1>6, <2>1, <3>2 DEF Relabel, Proceed
      <4>2. audit'[s] = [audit[s] EXCEPT !.severity = Level(s),
                                         !.link = IF KeepsAnchor(s) THEN @ ELSE NoLink]
        BY <2>2, <4>1
      <4> DEFINE anchor == IF KeepsAnchor(s) THEN audit[s].link ELSE NoLink
      <4>3. audit'[s] = [event |-> event[s], severity |-> Level(s), link |-> anchor]
        <5>1. audit[s] = [event |-> event[s], severity |-> ClassifyPlain(event[s]),
                          link |-> OwnLink(s)]
          BY <2>2 DEF AuditRowOf
        <5>2. DOMAIN audit[s] = {"event", "severity", "link"} /\ audit[s]["event"] = event[s]
          BY <5>1
        <5>3. /\ audit'[s] = [f \in DOMAIN audit'[s] |-> audit'[s][f]]
              /\ DOMAIN audit'[s] = {"event", "severity", "link"}
              /\ audit'[s]["event"] = event[s]
              /\ audit'[s]["severity"] = Level(s) /\ audit'[s]["link"] = anchor
          BY <4>2, <5>2
        <5> QED BY <5>3, RowByColumns
      <4>5. audit[s].link = OwnLink(s)
        BY <2>2 DEF AuditRowOf
      <4>4. audit'[s] = Relabelled(s)
        BY <2>2, <4>3, <4>5 DEF Relabelled
      <4> QED BY <4>1, <4>4
    <3> QED BY <2>1, <3>1, <3>2
  <2>4. SimVarsOK'
    BY <1>1, <1>2, <2>1 DEF SimVarsOK, Phases
  <2>5. PhasesAgree'
    BY <1>1, <1>2, <1>4, <2>1, <2>2 DEF PhasesAgree, Succeeded
  <2>6. RowsAgree'
    BY <1>1, <1>2, <2>1, <2>2, <2>3 DEF RowsAgree, Succeeded
  <2>7. ReportsAgree'
    BY <1>1, <1>2, <1>4, <2>1 DEF ReportsAgree
  <2> QED BY <2>4, <2>5, <2>6, <2>7 DEF SimAgree
<1>7. CASE Answer(s)
  <2>1. /\ phase[s] \in {"report", "caught"} /\ UNCHANGED <<audit, penalised>> /\ Elsewhere
        /\ phase' = [phase EXCEPT ![s] = "done"] /\ phase'[s] = "done"
        /\ report' = [report EXCEPT ![s] = report'[s]]
        /\ report'[s] = IF phase[s] = "caught" THEN {} ELSE Claims(s)
    BY <1>2, <1>7 DEF Answer, Proceed, vars, auditVars
  <2>2. /\ Claims(s) \subseteq {"detected", "penalty", "anchored"}
        /\ "anchored" \in Claims(s) <=> KeepsAnchor(s)
    BY DEF Claims
  <2>3. SimVarsOK'
    BY <1>1, <1>2, <2>1, <2>2 DEF SimVarsOK, Phases
  <2>4. \A r \in Session : Succeeded(r)' => Succeeded(r)
    BY <1>2, <2>1 DEF Succeeded
  <2>5. PhasesAgree'
    BY <1>1, <1>2, <1>4, <2>1, <2>4 DEF PhasesAgree
  <2>6. RowsAgree'
    BY <1>1, <1>2, <2>1, <2>4 DEF RowsAgree
  <2>7. ReportsAgree'
    BY <1>1, <1>2, <1>4, <2>1, <2>2 DEF ReportsAgree
  <2> QED BY <2>3, <2>5, <2>6, <2>7 DEF SimAgree
<1> QED BY <1>5, <1>6, <1>7 DEF SimStep

\* SimAgree is inductive relative to AuditProofs' invariant.
LEMMA SimStepAgree == Trail!AuditInv /\ SimAgree /\ [SimNext]_allVars => SimAgree'
<1> SUFFICES ASSUME Trail!AuditInv, SimAgree, [SimNext]_allVars PROVE SimAgree'
  OBVIOUS
<1>1. CASE UNCHANGED allVars
  BY <1>1 DEF allVars, vars, auditVars, chainVars, simVars, SimAgree, SimVarsOK, PhasesAgree,
     RowsAgree, ReportsAgree, Succeeded, Recorded, Relabelled, AuditRowOf, OwnLink, Anchors, Records,
     IsAnomaly, Level, KeepsAnchor
<1>2. ASSUME NEW s \in Session, SimStep(s) PROVE SimAgree'
  BY <1>2, RecordAgree, OtherAgree
<1> QED BY <1>1, <1>2 DEF SimNext

THEOREM SimInvariant == SimSpec => [](Trail!AuditInv /\ SimAgree)
BY TrailHolds, SimInitAgree, SimStepAgree, PTL DEF SimSpec
-----------------------------------------------------------------------------
\* Both events a simulation records are of HIGH severity by the rule base.
LEMMA SimulatedSeverity ==
    \A e \in {"tampering_detected", "ids_alert"} : ClassifyPlain(e) = "HIGH"
<1> SUFFICES ASSUME NEW e \in {"tampering_detected", "ids_alert"} PROVE ClassifyPlain(e) = "HIGH"
  OBVIOUS
<1>1. \A v \in DOMAIN BaseEvents : e \in BaseEvents[v] <=> v = "HIGH"
  BY DEF BaseEvents
<1>2. "HIGH" \in DOMAIN BaseEvents
  BY DEF BaseEvents
<1>3. Base(e) = "HIGH"
  BY <1>1, <1>2 DEF Base
<1> QED BY <1>3 DEF ClassifyPlain, Classify, EscalateFailures, EscalateTrust, EscalateAlerts, AtLeast,
  Order

\* The variables of simulations keep their types.
THEOREM SimTypes == SimSpec => []SimTypeOK
<1>1. ASSUME Trail!AuditInv, SimAgree, NEW s \in DOMAIN audit
      PROVE  s \in Session /\ audit[s] \in AuditRow
  <2>1. s \in Session /\ event[s] \in Event /\ ret[s] \in Nat
    BY <1>1, TrailTypes DEF TypeOK
  <2>2. ClassifyPlain(event[s]) = "HIGH"
    BY <1>1, <2>1, SimulatedSeverity DEF SimAgree, ReportsAgree, EventOf
  <2>3. "HIGH" \in Severities /\ Level(s) \in Severities
    BY DEF Level, SeverityLevel, Severities, Order
  <2>4. OwnLink(s) \in Link /\ NoLink \in Link
    BY <2>1 DEF OwnLink, Link
  <2>5. Recorded(s) \in AuditRow /\ Relabelled(s) \in AuditRow
    BY <2>1, <2>2, <2>3, <2>4 DEF Recorded, Relabelled, AuditRowOf, AuditRow
  <2> QED BY <1>1, <2>1, <2>5 DEF SimAgree, RowsAgree
<1>2. Trail!AuditInv /\ SimAgree => SimTypeOK
  BY <1>1, TrailTypes DEF SimTypeOK, SimAgree, SimVarsOK
<1> QED BY <1>2, SimInvariant, PTL

\* No simulation, however many run, leaves a block without its audit row.
THEOREM SimBlocksHaveRows == SimSpec => []BlocksHaveRows
<1>1. Trail!AuditInv => BlocksHaveRows
  BY DEF Trail!AuditInv, Trail!BlocksHaveAuditRows, BlocksHaveRows, Unrelabelled
<1> QED BY <1>1, TrailHolds, PTL

\* What an answer claims is what the log and the chain hold.
THEOREM SimRecordedClaims == SimSpec => []RecordedClaimsHold
<1>1. ASSUME Trail!AuditInv, SimAgree, NEW s \in Session, phase[s] = "done", Records(s),
             "detected" \in report[s]
      PROVE  /\ s \in DOMAIN audit
             /\ audit[s].severity = IF IsAnomaly(s) THEN Level(s) ELSE "HIGH"
             /\ "anchored" \notin report[s] => audit[s].link = NoLink
             /\ "anchored" \in report[s] =>
                   audit[s].link \in DOMAIN blocks /\ blocks[audit[s].link].data = s
  <2>1. stage[s] = "done" /\ Succeeded(s) /\ ("anchored" \in report[s] <=> KeepsAnchor(s))
    BY <1>1 DEF Succeeded, SimAgree, PhasesAgree, ReportsAgree
  <2>2. s \in DOMAIN audit /\ audit[s] = Relabelled(s)
    BY <1>1, <2>1 DEF Trail!AuditInv, Trail!AnswersAreRecorded, Unrelabelled, SimAgree, RowsAgree
  <2>3. ClassifyPlain(event[s]) = "HIGH"
    BY SimulatedSeverity, <1>1 DEF SimAgree, ReportsAgree, EventOf
  <2>4. OwnLink(s) \in DOMAIN blocks /\ blocks[OwnLink(s)].data = s
    <3>1. Unrelabelled[s] = AuditRowOf(s, OwnLink(s)) /\ s \in DOMAIN Unrelabelled
      BY <2>1, <2>2 DEF Unrelabelled, Recorded
    <3>2. Unrelabelled[s].link = OwnLink(s) /\ Unrelabelled[s].severity = "HIGH"
      BY <2>3, <3>1 DEF AuditRowOf
    <3>3. OwnLink(s) # NoLink
      BY <1>1, <2>1, <3>2 DEF Trail!AuditInv, Trail!AnswersAreRecorded, Trail!MeetsThreshold,
         Trail!AtLeast, Trail!Order
    <3> QED BY <1>1, <3>1, <3>2, <3>3 DEF Trail!AuditInv, Trail!LinksResolve
  <2> QED BY <2>1, <2>2, <2>3, <2>4 DEF Relabelled
<1>2. Trail!AuditInv /\ SimAgree => RecordedClaimsHold
  BY <1>1 DEF RecordedClaimsHold
<1> QED BY <1>2, SimInvariant, PTL

\* No simulation removes, re-classifies or unlinks an audit row but its own.
THEOREM SimOthersRowsKept == SimSpec => OthersRowsKept
<1> DEFINE Kept(r) == /\ r \in DOMAIN audit'
                      /\ phase'[r] = phase[r] => audit'[r].severity = audit[r].severity
                      /\ phase'[r] = phase[r] /\ audit[r].link # NoLink
                         => audit'[r].link = audit[r].link
<1>1. ASSUME Trail!AuditInv, SimAgree, NEW s \in Session, Record(s), NEW r \in DOMAIN audit
      PROVE  Kept(r)
  <2>1. /\ RecordStep(s) /\ phase[s] = "record"
    BY <1>1 DEF Record
  <2>2. /\ DOMAIN audit \subseteq DOMAIN audit' /\ UNCHANGED event
        /\ r # s => audit'[r] = audit[r]
        /\ audit'[s] = Recorded(s)' \/ UNCHANGED audit
        /\ stage[s] \in {"new", "anchor", "commit"}
    BY <1>1, <2>1, RecordStepOnRows
  <2>3. r = s => audit[s].link = NoLink /\ audit[s].severity = ClassifyPlain(event[s])
    BY <1>1, <2>1, <2>2 DEF SimAgree, RowsAgree, Recorded, AuditRowOf
  <2>4. Recorded(s)'.severity = ClassifyPlain(event'[s])
    BY DEF Recorded, AuditRowOf
  <2> QED BY <2>2, <2>3, <2>4
<1>2. ASSUME Trail!AuditInv, SimAgree, NEW s \in Session, SimStep(s), ~Record(s),
             NEW r \in DOMAIN audit
      PROVE  Kept(r)
  <2>1. phase \in [Session -> Phases] /\ DOMAIN audit' = DOMAIN audit
    BY <1>2, OtherStepsStutter DEF SimAgree, SimVarsOK
  <2>2. \/ UNCHANGED audit
        \/ (r # s => audit'[r] = audit[r]) /\ phase[s] = "relabel" /\ phase'[s] = "report"
    BY <1>2, <2>1 DEF SimStep, Penalise, SkipPenalty, Relabel, Answer, Proceed, vars, auditVars
  <2> QED BY <2>1, <2>2
<1>3. ASSUME UNCHANGED allVars, NEW r \in DOMAIN audit PROVE Kept(r)
  BY <1>3 DEF allVars, vars, auditVars
<1>4. Trail!AuditInv /\ SimAgree /\ [SimNext]_allVars => [\A r \in DOMAIN audit : Kept(r)]_allVars
  BY <1>1, <1>2, <1>3 DEF SimNext
<1> QED BY <1>4, SimInvariant, PTL DEF SimSpec, OthersRowsKept
=============================================================================
