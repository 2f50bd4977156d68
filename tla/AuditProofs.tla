---------------------------- MODULE AuditProofs -----------------------------
(***************************************************************************)
(* record_event under concurrency and crashes: it keeps everything Chain   *)
(* promises, and back-links, blocks and audit rows agree.                  *)
(***************************************************************************)
EXTENDS AuditTrail, ChainProofs

\* The rule base gives every event a severity.
LEMMA ClassifyType == ASSUME NEW e \in EventTypes PROVE ClassifyPlain(e) \in Severities
<1>1. PICK v \in DOMAIN BaseEvents : e \in BaseEvents[v]
  BY DEF EventTypes
<1>2. Base(e) \in DOMAIN BaseEvents
  BY <1>1 DEF Base
<1>3. Base(e) \in {"INFO", "LOW", "MEDIUM", "HIGH"}
  BY <1>2 DEF BaseEvents
<1> QED
  BY <1>3 DEF ClassifyPlain, Classify, EscalateFailures, EscalateTrust, EscalateAlerts,
     Severities, Order

\* Every step of record_event is a step of Chain, or leaves it alone.
LEMMA StepOnChain == AuditNext => [Next]_chainVars
<1> SUFFICES ASSUME NEW s \in Session, RecordStep(s) PROVE [Next]_chainVars
  BY DEF AuditNext
<1>1. CASE RecordEvent(s)
  <2>1. s \in Data
    BY SessionsAreContents
  <2> QED BY <1>1, <2>1 DEF RecordEvent, Next, Call
<1>2. CASE AnchorReads(s)
  BY <1>2 DEF AnchorReads, Next, Step
<1>3. CASE AnchorCommits(s)
  BY <1>3 DEF AnchorCommits, Next, Step
<1>4. CASE AnchorReturns(s)
  BY <1>4 DEF AnchorReturns, Next, Step
<1>5. CASE CommitAudit(s)
  BY <1>5 DEF CommitAudit
<1>6. CASE AbortAudit(s)
  BY <1>6 DEF AbortAudit, Next
<1> QED
  BY <1>1, <1>2, <1>3, <1>4, <1>5, <1>6 DEF RecordStep

\* Recording events keeps the whole specification of the chain, and so every
\* theorem about it.
THEOREM AuditImplementsChain == AuditSpec => Spec
<1>1. AuditInit => Init
  BY DEF AuditInit
<1>2. [AuditNext]_vars => [Next]_chainVars
  BY StepOnChain DEF vars
<1> QED
  BY <1>1, <1>2, PTL DEF AuditSpec, Spec

LEMMA AuditInitInv == AuditInit => AuditInv
<1> SUFFICES ASSUME AuditInit PROVE AuditInv
  OBVIOUS
<1>1. Init /\ DOMAIN audit = {} /\ DOMAIN blocks = {}
  BY DEF AuditInit, Init
<1>2. ChainInv
  BY <1>1, InitInv
<1>3. AuditTypeOK
  BY <1>1, <1>2 DEF AuditInit, AuditTypeOK, ChainInv, Stages
<1>4. StagesAgree
  BY <1>1 DEF StagesAgree, AuditInit, Init
<1>5. AnswersAreRecorded
  BY DEF AuditInit, AnswersAreRecorded
<1>6. RowsClassified /\ LinksResolve /\ BlocksHaveAuditRows
  BY <1>1 DEF RowsClassified, LinksResolve, BlocksHaveAuditRows
<1> QED
  BY <1>2, <1>3, <1>4, <1>5, <1>6 DEF AuditInv

\* A typed row of the right severity can be committed for any session.
LEMMA PersistRow ==
    ASSUME AuditTypeOK, NEW s \in Session, NEW link \in Link, audit' = Persisted(s, link)
    PROVE  /\ DOMAIN audit' = DOMAIN audit \union {s}
           /\ audit' = [r \in DOMAIN audit' |-> audit'[r]]
           /\ audit'[s] \in AuditRow
           /\ audit'[s].link = link
           /\ audit'[s].severity = ClassifyPlain(event[s])
           /\ \A r \in DOMAIN audit : r # s => audit'[r] = audit[r]
           /\ \A r \in DOMAIN audit' : audit'[r] \in AuditRow
<1>1. event[s] \in Event /\ ClassifyPlain(event[s]) \in Severities
  BY ClassifyType, EventAssumption DEF AuditTypeOK
<1>2. DOMAIN audit' = DOMAIN audit \union {s} /\ audit' = [r \in DOMAIN audit' |-> audit'[r]]
  BY DEF Persisted
<1>3. audit'[s] = AuditRowOf(s, link) /\ \A r \in DOMAIN audit : r # s => audit'[r] = audit[r]
  BY DEF Persisted
<1>4. AuditRowOf(s, link) \in AuditRow
  BY <1>1 DEF AuditRowOf, AuditRow
<1> QED
  BY <1>2, <1>3, <1>4 DEF AuditRowOf, AuditTypeOK

\* The parts of AuditInv besides ChainInv.
RowsInv ==
    /\ AuditTypeOK
    /\ StagesAgree /\ RowsClassified
    /\ LinksResolve /\ BlocksHaveAuditRows /\ AnswersAreRecorded

\* A step that commits nothing keeps the agreement of rows and blocks.
LEMMA NothingCommitted ==
    ASSUME AuditInv, UNCHANGED <<blocks, audit, event>>, AuditTypeOK', StagesAgree',
           NEW s \in Session, stage[s] # "done",
           \E where \in {"anchor", "commit", "failed"} : stage' = [stage EXCEPT ![s] = where]
    PROVE  RowsInv'
<1>1. RowsClassified'
  BY DEF AuditInv, RowsClassified, AuditTypeOK
<1>2. LinksResolve' /\ BlocksHaveAuditRows'
  BY DEF AuditInv, LinksResolve, BlocksHaveAuditRows
<1>3. AnswersAreRecorded'
  BY DEF AuditInv, AnswersAreRecorded, AuditTypeOK
<1> QED
  BY <1>1, <1>2, <1>3 DEF RowsInv

\* A request that anchors an event calls add_block, not initialize_chain.
LEMMA AnchoringIsNotGenesis ==
    ASSUME StagesAgree, NEW s \in Session, stage[s] = "anchor"
    PROVE  data[s] = s /\ data[s] \in Data /\ data[s] # Genesis
BY SessionsAreContents, GenesisAssumption DEF StagesAgree

LEMMA StepOnRows ==
    ASSUME AuditInv, NEW s \in Session, RecordStep(s), ChainInv', Grows
    PROVE  RowsInv'
<1> USE DEF InFlight, Stages
<1>t. TypeOK' /\ AuditTypeOK /\ ChainInv
  BY DEF ChainInv, AuditInv
<1>1. CASE RecordEvent(s)
  <2>1. AuditTypeOK'
    BY <1>1, <1>t DEF RecordEvent, AuditTypeOK, Move
  <2>2. StagesAgree'
    BY <1>1, <1>t DEF RecordEvent, AuditInv, StagesAgree, AuditTypeOK, Move, CallAddBlock, Anchors,
       ChainInv, TypeOK, chainVars
  <2>3. UNCHANGED <<blocks, audit, event>> /\ stage[s] = "new"
    BY <1>1 DEF RecordEvent, CallAddBlock, chainVars
  <2>4. \E where \in {"anchor", "commit", "failed"} : stage' = [stage EXCEPT ![s] = where]
    BY <1>1 DEF RecordEvent, Move
  <2> QED BY <2>1, <2>2, <2>3, <2>4, NothingCommitted
<1>2. CASE AnchorReads(s)
  <2>1. UNCHANGED <<audit, stage, event>> /\ UNCHANGED <<blocks, data>> /\ stage[s] = "anchor"
    BY <1>2 DEF AnchorReads, auditVars, SelectLatest, SelectGenesis
  <2>2. AuditTypeOK'
    BY <2>1, <1>t DEF AuditTypeOK
  <2>3. StagesAgree'
    BY <1>2, <1>t, <2>1, AnchoringIsNotGenesis DEF AnchorReads, AuditInv, StagesAgree, Anchors, SelectLatest, SelectGenesis,
       AfterInitialize, ChainInv, TypeOK
  <2> QED
    BY <2>1, <2>2, <2>3 DEF AuditInv, RowsInv, RowsClassified, LinksResolve, BlocksHaveAuditRows,
       AnswersAreRecorded
<1>3. CASE AnchorCommits(s)
  <2>1. UNCHANGED <<data, event>> /\ stage[s] = "anchor" /\ Anchors(s)
    BY <1>3 DEF AnchorCommits, CommitGenesis, CommitBlock, AuditInv, StagesAgree
  <2>2. data[s] = s /\ data[s] \in Data /\ data[s] # Genesis
    BY <2>1, AnchoringIsNotGenesis DEF AuditInv
  <2>3. CASE pc'[s] = "conflict"
    <3>1. /\ UNCHANGED <<blocks, audit>> /\ stage' = [stage EXCEPT ![s] = "failed"]
          /\ pc' = [pc EXCEPT ![s] = "conflict"]
      BY <1>3, <2>2, <2>3, <1>t DEF AnchorCommits, CommitGenesis, CommitBlock, Move, AfterInitialize,
         ChainInv, TypeOK
    <3>2. AuditTypeOK'
      BY <2>1, <3>1, <1>t DEF AuditTypeOK
    <3>3. StagesAgree'
      BY <2>1, <3>1, <1>t DEF AuditInv, StagesAgree, Anchors, ChainInv, TypeOK, AuditTypeOK
    <3> QED BY <2>1, <3>1, <3>2, <3>3, NothingCommitted
  <2>4. CASE pc'[s] # "conflict"
    <3>1. UNCHANGED stage /\ audit' = Persisted(s, NoLink)
      BY <1>3, <2>4 DEF AnchorCommits, FlushedRow
    <3>2. /\ \E to \in {"insert_block", "refresh"} : pc' = [pc EXCEPT ![s] = to]
          /\ \A i \in DOMAIN blocks' : i \in DOMAIN blocks \/ i = 0 \/ blocks'[i].data = s
      BY <1>3, <2>2, <2>4, <1>t DEF AnchorCommits, CommitGenesis, CommitBlock, AfterInitialize,
         With, NewBlock, ChainInv, TypeOK
    <3>3. /\ DOMAIN audit' = DOMAIN audit \union {s}
          /\ audit' = [r \in DOMAIN audit' |-> audit'[r]]
          /\ audit'[s].link = NoLink /\ audit'[s].severity = ClassifyPlain(event[s])
          /\ \A r \in DOMAIN audit : r # s => audit'[r] = audit[r]
          /\ \A r \in DOMAIN audit' : audit'[r] \in AuditRow
      BY <3>1, <1>t, PersistRow DEF Link
    <3>4. AuditTypeOK'
      BY <2>1, <3>1, <3>3, <1>t DEF AuditTypeOK
    <3>5. StagesAgree'
      BY <2>1, <2>2, <3>1, <3>2, <3>3, <1>t
      DEF AuditInv, StagesAgree, Anchors, ChainInv, TypeOK, AuditTypeOK
    <3>6. RowsClassified'
      BY <2>1, <3>1, <3>3 DEF AuditInv, RowsClassified
    <3>7. LinksResolve'
      BY <3>3 DEF AuditInv, LinksResolve, Grows
    <3>8. BlocksHaveAuditRows'
      <4> SUFFICES ASSUME NEW i \in DOMAIN blocks', i > 0
                   PROVE  /\ blocks'[i].data \in DOMAIN audit'
                          /\ MeetsThreshold(audit'[blocks'[i].data].severity)
        BY DEF BlocksHaveAuditRows
      <4>1. CASE i \in DOMAIN blocks /\ blocks[i].data # s
        <5>1. blocks'[i] = blocks[i] /\ blocks[i].data \in DOMAIN audit
          BY <4>1 DEF Grows, AuditInv, BlocksHaveAuditRows
        <5> QED BY <4>1, <5>1, <3>3 DEF AuditInv, BlocksHaveAuditRows
      <4>2. CASE blocks'[i].data = s
        BY <4>2, <2>1, <3>3 DEF Anchors
      <4> QED BY <4>1, <4>2, <3>2 DEF Grows
    <3>9. AnswersAreRecorded'
      BY <2>1, <3>1, <3>3 DEF AuditInv, AnswersAreRecorded
    <3> QED BY <3>4, <3>5, <3>6, <3>7, <3>8, <3>9 DEF RowsInv
  <2> QED BY <2>3, <2>4
<1>4. CASE AnchorReturns(s)
  <2>1. /\ UNCHANGED <<audit, event, blocks, data>> /\ stage[s] = "anchor"
        /\ stage' = [stage EXCEPT ![s] = "commit"] /\ pc' = [pc EXCEPT ![s] = "done"]
    BY <1>4 DEF AnchorReturns, Return, Move
  <2>2. AuditTypeOK'
    BY <2>1, <1>t DEF AuditTypeOK
  <2>3. StagesAgree'
    BY <2>1, <1>t DEF AuditInv, StagesAgree, Anchors, ChainInv, TypeOK, AuditTypeOK
  <2> QED BY <2>1, <2>2, <2>3, NothingCommitted
<1>5. CASE CommitAudit(s)
  <2>1. /\ UNCHANGED <<blocks, pc, data, ret, event>> /\ stage[s] = "commit"
        /\ stage' = [stage EXCEPT ![s] = "done"] /\ audit' = Persisted(s, OwnLink(s))
    BY <1>5 DEF CommitAudit, Move, chainVars
  <2>2. /\ OwnLink(s) \in Link
        /\ OwnLink(s) # NoLink <=> Anchors(s)
        /\ OwnLink(s) # NoLink => OwnLink(s) \in DOMAIN blocks /\ blocks[OwnLink(s)].data = s
    <3>1. CASE Anchors(s)
      <4>1. OwnLink(s) = ret[s] /\ Appended(s) /\ data[s] = s /\ ret[s] \in Nat
        BY <2>1, <3>1, <1>t, SessionsAreContents, GenesisAssumption
        DEF OwnLink, AuditInv, StagesAgree, Appended, TypeOK, ChainInv
      <4> QED
        BY <3>1, <4>1, NoLinkAssumption DEF AuditInv, ChainInv, AnswersAreOwnBlocks, Link
    <3>2. CASE ~Anchors(s)
      BY <3>2 DEF OwnLink, Link
    <3> QED BY <3>1, <3>2
  <2> DEFINE link == OwnLink(s)
  <2> HIDE DEF link
  <2>3. audit' = Persisted(s, link) /\ link \in Link
    BY <2>1, <2>2 DEF link
  <2>4. /\ DOMAIN audit' = DOMAIN audit \union {s}
        /\ audit' = [r \in DOMAIN audit' |-> audit'[r]]
        /\ audit'[s].link = link /\ audit'[s].severity = ClassifyPlain(event[s])
        /\ \A r \in DOMAIN audit : r # s => audit'[r] = audit[r]
        /\ \A r \in DOMAIN audit' : audit'[r] \in AuditRow
    BY <2>3, <1>t, PersistRow
  <2>5. AuditTypeOK'
    BY <2>1, <2>4, <1>t DEF AuditTypeOK
  <2>6. StagesAgree'
    BY <2>1, <2>4, <1>t DEF AuditInv, StagesAgree, Anchors, AuditTypeOK
  <2>7. RowsClassified'
    BY <2>1, <2>4, <1>t DEF AuditInv, RowsClassified, AuditTypeOK
  <2>8. LinksResolve'
    BY <2>1, <2>2, <2>4 DEF AuditInv, LinksResolve, link
  <2>9. BlocksHaveAuditRows'
    <3>1. \A r \in DOMAIN audit : audit'[r].severity = audit[r].severity
      BY <2>4 DEF AuditInv, RowsClassified
    <3> QED BY <2>1, <2>4, <3>1 DEF AuditInv, BlocksHaveAuditRows
  <2>10. AnswersAreRecorded'
    BY <2>1, <2>2, <2>4, <1>t DEF AuditInv, AnswersAreRecorded, AuditTypeOK, link, Anchors
  <2> QED BY <2>5, <2>6, <2>7, <2>8, <2>9, <2>10 DEF RowsInv
<1>6. CASE AbortAudit(s)
  <2>1. /\ UNCHANGED <<audit, event, blocks, data>> /\ stage[s] \in {"anchor", "commit"}
        /\ stage' = [stage EXCEPT ![s] = "failed"]
        /\ pc' = pc \/ pc' = [pc EXCEPT ![s] = "aborted"]
    BY <1>6 DEF AbortAudit, Abort, Move, chainVars
  <2>2. AuditTypeOK'
    BY <2>1, <1>t DEF AuditTypeOK
  <2>3. StagesAgree'
    BY <2>1, <1>t DEF AuditInv, StagesAgree, Anchors, ChainInv, TypeOK, AuditTypeOK
  <2> QED BY <2>1, <2>2, <2>3, NothingCommitted
<1> QED
  BY <1>1, <1>2, <1>3, <1>4, <1>5, <1>6 DEF RecordStep

\* AuditInv is inductive.
LEMMA AuditStep == AuditInv /\ [AuditNext]_vars => AuditInv'
<1> SUFFICES ASSUME AuditInv, [AuditNext]_vars PROVE AuditInv'
  OBVIOUS
<1>1. [Next]_chainVars /\ ChainInv
  BY StepOnChain DEF vars, AuditInv
<1>2. ChainInv' /\ Grows
  BY <1>1, ChainStep, StepOnTable
<1>3. CASE UNCHANGED vars
  BY <1>2, <1>3 DEF vars, auditVars, chainVars, AuditInv, AuditTypeOK, ChainInv, StagesAgree, Anchors,
     RowsClassified, LinksResolve, BlocksHaveAuditRows, AnswersAreRecorded
<1>4. ASSUME NEW s \in Session, RecordStep(s) PROVE AuditInv'
  <2>1. RowsInv'
    BY <1>2, <1>4, StepOnRows
  <2> QED BY <1>2, <2>1 DEF AuditInv, RowsInv
<1> QED
  BY <1>3, <1>4 DEF AuditNext
-----------------------------------------------------------------------------
THEOREM AuditInvariant == AuditSpec => []AuditInv
BY AuditInitInv, AuditStep, PTL DEF AuditSpec

\* A back-link always resolves to the block of its own event.
THEOREM AuditLinksResolve == AuditSpec => []LinksResolve
<1>1. AuditInv => LinksResolve
  BY DEF AuditInv
<1> QED BY <1>1, AuditInvariant, PTL

\* No block is ever left without a committed audit row above the threshold.
THEOREM AuditBlocksHaveRows == AuditSpec => []BlocksHaveAuditRows
<1>1. AuditInv => BlocksHaveAuditRows
  BY DEF AuditInv
<1> QED BY <1>1, AuditInvariant, PTL

\* An answered record_event has been written, and linked when it must be.
THEOREM AuditAnswersRecorded == AuditSpec => []AnswersAreRecorded
<1>1. AuditInv => AnswersAreRecorded
  BY DEF AuditInv
<1> QED BY <1>1, AuditInvariant, PTL

\* No request removes, re-classifies or re-links an audit row.
THEOREM AuditRowsImmutable == AuditSpec => AuditImmutable
<1>1. ASSUME AuditInv, NEW s \in Session, RecordStep(s), NEW r \in DOMAIN audit
      PROVE  /\ r \in DOMAIN audit' /\ audit'[r].severity = audit[r].severity
             /\ audit[r].link # NoLink => audit'[r].link = audit[r].link
  <2>1. CASE UNCHANGED audit
    BY <2>1
  <2>2. ASSUME NEW link \in Link, audit' = Persisted(s, link), stage[s] # "done"
        PROVE  /\ r \in DOMAIN audit' /\ audit'[r].severity = audit[r].severity
               /\ audit[r].link # NoLink => audit'[r].link = audit[r].link
    <3>1. /\ DOMAIN audit' = DOMAIN audit \union {s}
          /\ audit'[s].severity = ClassifyPlain(event[s])
          /\ r # s => audit'[r] = audit[r]
      BY <1>1, <2>2, PersistRow DEF AuditInv
    <3>2. r = s => audit[r].link = NoLink /\ audit[r].severity = ClassifyPlain(event[s])
      BY <1>1, <2>2 DEF AuditInv, RowsClassified
    <3> QED BY <3>1, <3>2
  <2>3. CASE stage[s] = "anchor" /\ audit' = Persisted(s, NoLink)
    BY <2>2, <2>3 DEF Link
  <2>4. CASE CommitAudit(s)
    <3>1. PICK link \in Link : link = OwnLink(s)
      BY <1>1 DEF OwnLink, Link, AuditInv, ChainInv, TypeOK
    <3>2. audit' = Persisted(s, link) /\ stage[s] # "done"
      BY <2>4, <3>1 DEF CommitAudit
    <3> QED BY <2>2, <3>2
  <2> QED
    BY <1>1, <2>1, <2>3, <2>4 DEF RecordStep, RecordEvent, AnchorReads, AnchorCommits,
       AnchorReturns, AbortAudit, FlushedRow, auditVars
<1>2. AuditInv /\ [AuditNext]_vars => [RowsKept]_audit
  BY <1>1 DEF AuditNext, RowsKept, vars, auditVars
<1> QED BY <1>2, AuditInvariant, PTL DEF AuditSpec, AuditImmutable
=============================================================================
