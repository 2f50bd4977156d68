--------------------------- MODULE MCDeviceTrust ----------------------------
(* Calls and symmetry for the small instances of DeviceTrust. *)
EXTENDS DeviceTrust, TLC

CONSTANTS k1, k2

Ask(event) == [op |-> "adjust", event |-> event, change |-> None]
Anomaly(change) == [op |-> "adjust", event |-> "ml_ids_alert", change |-> change]
Register(key) == [op |-> "register_key", key |-> key]
Patch(status) == [op |-> "patch", status |-> status]
Create == [op |-> "create"]
Restart == [op |-> "reset"]

\* One of each kind: what the endpoints and the attack simulations ask for.  Two
\* of the penalties bring a full score below or exactly to the threshold.
MixedCalls ==
    {Create, Register(k1), Register(k2), Restart, Patch("suspended"),
     Ask("tampering"), Ask("auth_success"), Anomaly(-60)}

\* Without resets and patches every change of the score has an event.
ScoringCalls == {Create, Register(k1), Patch("active"), Ask("dos_behavior"), Ask("tampering"), Ask("auth_success")}

RotationCalls == {Register(k1), Register(k2)}

Interchangeable == Permutations(Session)
=============================================================================
