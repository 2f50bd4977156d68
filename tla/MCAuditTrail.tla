---------------------------- MODULE MCAuditTrail ----------------------------
(***************************************************************************)
(* Finite instances of AuditTrail: one event just below the anchoring      *)
(* threshold and one just at it, so that both kinds of request race.       *)
(***************************************************************************)
EXTENDS AuditTrail, TLC

\* The hashed metadata of a block names its audit row: no two strings agree.
CanonicalText == [d \in Content |-> d]

\* Requests are interchangeable in every safety property.
Interchangeable == Permutations(Session)
=============================================================================
