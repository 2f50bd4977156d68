CONSTANTS
    Session = {s1, s2, s3}
    Data = {s1, s2, s3}
    Genesis = genesis
    Canonical <- CanonicalText
    NoLink = nolink
    Event = {"tampering_detected", "ids_alert"}
    Probability = {59, 60, 95}
SPECIFICATION SimSpec
INVARIANTS
    BlocksHaveRows
    RecordedClaimsHold
PROPERTY OthersRowsKept
SYMMETRY Interchangeable
\* Every simulation ends and there are finitely many of them.
CHECK_DEADLOCK FALSE
