---------------------------- MODULE MCAttackSim -----------------------------
(* Small instances of AttackSim: each request records its own contents. *)
EXTENDS AttackSim, TLC

\* The hashed metadata of a block names its audit row: no two strings agree.
CanonicalText == [d \in Content |-> d]

Interchangeable == Permutations(Session)
=============================================================================
