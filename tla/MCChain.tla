------------------------------ MODULE MCChain -------------------------------
(***************************************************************************)
(* Finite instances of Chain with its readers.  Every request makes one    *)
(* call, so a behaviour ends when all have ended, and the chain holds one  *)
(* block more than there are requests at most.                             *)
(***************************************************************************)
EXTENDS Explorer, TLC

CONSTANT Alike  \* contents that differ in created_at, or in the fifth decimal
                \* of the trust snapshot, only

\* A string is the set of the contents that have it: all of Alike, or one.
CanonicalText == [d \in Content |-> IF d \in Alike THEN Alike ELSE {d}]

\* Ranges that fill up early and late, one that never does, and a reversed one.
Epochs == {<<0, 1>>, <<0, 2>>, <<1, 9>>, <<2, 1>>}

\* Requests are interchangeable in every property, and so are contents alike.
Interchangeable == Permutations(Session) \union Permutations(Alike)
=============================================================================
