----------------------------- MODULE AuditTrail -----------------------------
(***************************************************************************)
(* AuditTrail.record_event (backend/app/blockchain/audit_trail.py): the    *)
(* dual write of a security event to audit_logs and to the blockchain.     *)
(*                                                                         *)
(* A Session is one request that records one event; its audit row has the  *)
(* session as id, and the block's data_hash and event_metadata carry that  *)
(* id, so the block's contents are the session too.  The row and the block *)
(* share the AsyncSession: each COMMIT inside BlockchainManager also       *)
(* commits the audit row that was only flushed.                            *)
(***************************************************************************)
EXTENDS Chain, Severity

CONSTANTS Event,   \* the AuditEventTypes that occur
          NoLink   \* blockchain_block_index IS NULL

ASSUME SessionsAreContents == Session \subseteq Data
ASSUME EventAssumption == Event \subseteq EventTypes
ASSUME NoLinkAssumption == NoLink \notin Nat

VARIABLES audit,   \* audit_logs as committed: session to [event, severity, link]
          stage,   \* where record_event stands
          event    \* what each request records

auditVars == <<audit, stage, event>>
vars == <<chainVars, auditVars>>

Link == Nat \union {NoLink}
AuditRow == [event : Event, severity : Severities, link : Link]

\* The audit row of session s with a given back-link.
AuditRowOf(s, link) ==
    [event |-> event[s], severity |-> ClassifyPlain(event[s]), link |-> link]

\* COMMIT makes the flushed audit row of s visible.
Persisted(s, link) ==
    [r \in DOMAIN audit \union {s} |-> IF r = s THEN AuditRowOf(s, link) ELSE audit[r]]

\* Fault: no flush before add_block, the row waits for the last COMMIT.
UnflushedRow(s) == UNCHANGED audit

\* What a COMMIT inside add_block adds to audit_logs.
FlushedRow(s) == audit' = Persisted(s, NoLink)

\* The severity of the event s records is at or above the threshold.
Anchors(s) == MeetsThreshold(ClassifyPlain(event[s]))

Move(s, where) == stage' = [stage EXCEPT ![s] = where]
-----------------------------------------------------------------------------
AuditInit ==
    /\ Init
    /\ audit = [s \in {} |-> AuditRowOf(s, NoLink)]
    /\ stage = [s \in Session |-> "new"]
    /\ event \in [Session -> Event]

\* record_event classifies the event and flushes the audit row; above the
\* threshold it calls add_block, below it goes on to its own COMMIT.
RecordEvent(s) ==
    /\ stage[s] = "new"
    /\ \/ /\ Anchors(s)
          /\ CallAddBlock(s, s)
          /\ Move(s, "anchor")
       \/ /\ ~Anchors(s)
          /\ Move(s, "commit")
          /\ UNCHANGED chainVars
    /\ UNCHANGED <<audit, event>>

\* add_block reads: nothing of the audit row is committed yet.
AnchorReads(s) ==
    /\ stage[s] = "anchor"
    /\ SelectLatest(s) \/ SelectGenesis(s)
    /\ UNCHANGED auditVars

\* add_block commits block 0 or the new block, and the flushed audit row with
\* it; a unique violation rolls the transaction back and ends the request.
AnchorCommits(s) ==
    /\ stage[s] = "anchor"
    /\ CommitGenesis(s) \/ CommitBlock(s)
    /\ \/ /\ pc'[s] = "conflict"
          /\ Move(s, "failed")
          /\ UNCHANGED audit
       \/ /\ pc'[s] # "conflict"
          /\ FlushedRow(s)
          /\ UNCHANGED stage
    /\ UNCHANGED event

\* add_block returns and the back-link is set on the object in memory.
AnchorReturns(s) ==
    /\ stage[s] = "anchor"
    /\ Return(s)
    /\ Move(s, "commit")
    /\ UNCHANGED <<audit, event>>

\* Fault: the back-link is the latest block instead of the one answered.
LatestLink(s) ==
    IF Anchors(s) THEN CHOOSE i \in DOMAIN blocks : IsLatest(i) ELSE NoLink

\* The number of the block this request was answered.
OwnLink(s) == IF Anchors(s) THEN ret[s] ELSE NoLink

\* record_event's own COMMIT: the new row, or the back-link of the old one.
CommitAudit(s) ==
    /\ stage[s] = "commit"
    /\ audit' = Persisted(s, OwnLink(s))
    /\ Move(s, "done")
    /\ UNCHANGED <<chainVars, event>>

\* Fault: a failed request removes the audit row it had committed.
AbortDeletesRow(s) ==
    /\ \/ stage[s] = "anchor" /\ Abort(s)
       \/ stage[s] = "commit" /\ UNCHANGED chainVars
    /\ Move(s, "failed")
    /\ audit' = [r \in DOMAIN audit \ {s} |-> audit[r]]
    /\ UNCHANGED event

\* The worker dies or loses its connection in the middle of record_event.
AbortAudit(s) ==
    /\ \/ stage[s] = "anchor" /\ Abort(s)
       \/ stage[s] = "commit" /\ UNCHANGED chainVars
    /\ Move(s, "failed")
    /\ UNCHANGED <<audit, event>>

RecordStep(s) ==
    \/ RecordEvent(s)
    \/ AnchorReads(s)
    \/ AnchorCommits(s)
    \/ AnchorReturns(s)
    \/ CommitAudit(s)
    \/ AbortAudit(s)

AuditNext == \E s \in Session : RecordStep(s)

AuditSpec == AuditInit /\ [][AuditNext]_vars
-----------------------------------------------------------------------------
(***************************************************************************)
(* Properties                                                              *)
(***************************************************************************)
Stages == {"new", "anchor", "commit", "done", "failed"}

\* Every variable has its type; the chain's own is Chain!TypeOK.
AuditTypeOK ==
    /\ TypeOK
    /\ DOMAIN audit \subseteq Session
    /\ audit = [s \in DOMAIN audit |-> audit[s]]
    /\ \A s \in DOMAIN audit : audit[s] \in AuditRow
    /\ stage \in [Session -> Stages]
    /\ event \in [Session -> Event]

\* A back-link names a committed block that was written for this very audit
\* row, whatever other requests appended meanwhile (audit_trail.py:301).
LinksResolve ==
    \A s \in DOMAIN audit : audit[s].link # NoLink =>
        /\ audit[s].link \in DOMAIN blocks
        /\ blocks[audit[s].link].data = s

\* Every block but the genesis block was written for a committed audit row of
\* at least MEDIUM severity: no crash leaves evidence without its log entry.
BlocksHaveAuditRows ==
    \A i \in DOMAIN blocks : i > 0 =>
        /\ blocks[i].data \in DOMAIN audit
        /\ MeetsThreshold(audit[blocks[i].data].severity)

\* When record_event answers, the event is in audit_logs, and it carries a
\* back-link exactly when its severity is MEDIUM or more (audit_trail.py:13).
AnswersAreRecorded ==
    \A s \in Session : stage[s] = "done" =>
        /\ s \in DOMAIN audit
        /\ audit[s].link # NoLink <=> MeetsThreshold(audit[s].severity)

RowsKept ==
    \A s \in DOMAIN audit :
        /\ s \in DOMAIN audit'
        /\ audit'[s].severity = audit[s].severity
        /\ audit[s].link # NoLink => audit'[s].link = audit[s].link

\* record_event never deletes or re-classifies an audit row, and a back-link
\* once set stays: the log is immutable (audit_log.py:15).
AuditImmutable == [][RowsKept]_audit

(***************************************************************************)
(* The inductive invariant: where record_event and its add_block stand     *)
(* agree, and a row that is still being recorded has no back-link.         *)
(***************************************************************************)
StagesAgree ==
    \A s \in Session :
        /\ stage[s] = "new" => pc[s] = "new" /\ s \notin DOMAIN audit
        /\ stage[s] = "anchor" => pc[s] \in InFlight /\ Anchors(s) /\ data[s] = s
        /\ stage[s] = "commit" /\ Anchors(s) => pc[s] = "done" /\ data[s] = s
RowsClassified ==
    \A s \in DOMAIN audit :
        /\ audit[s].severity = ClassifyPlain(event[s])
        /\ stage[s] # "done" => audit[s].link = NoLink

AuditInv ==
    /\ ChainInv /\ AuditTypeOK
    /\ StagesAgree /\ RowsClassified
    /\ LinksResolve /\ BlocksHaveAuditRows /\ AnswersAreRecorded
=============================================================================
