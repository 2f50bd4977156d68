----------------------------- MODULE TrustScore -----------------------------
(***************************************************************************)
(* What the trust engine promises about one device: a score that starts at *)
(* Full and moves only by adjustments, each of them recorded with the      *)
(* scores before and after it, and by resets to Full.                      *)
(*                                                                         *)
(* An adjustment starts from the current score, unless its client is       *)
(* careless: then from any score the device has had, and if it ends where  *)
(* it started it moves nothing.                                            *)
(***************************************************************************)
EXTENDS Naturals, Sequences

CONSTANTS Full,     \* the score a device starts with, and the highest
          Client,   \* who adjusts scores
          Careless  \* the clients that may work on an old score

VARIABLES score,    \* the current score
          history   \* the recorded adjustments, oldest first

\* The scores there have been.
Held == {Full} \union {history[i].after : i \in DOMAIN history}

Init == score = Full /\ history = <<>>

Adjust(client, before, after) ==
    /\ client \in Careless \/ before = score
    /\ history' = Append(history, [before |-> before, after |-> after, by |-> client])
    /\ score' = IF after = before THEN score ELSE after

Reset ==
    /\ score' = Full
    /\ UNCHANGED history

Next ==
    \/ Reset
    \/ \E client \in Client, before \in Held, after \in 0..Full : Adjust(client, before, after)

Spec == Init /\ [][Next]_<<score, history>>
=============================================================================
