CONSTANTS
    Session = {s1, s2, s3}
    Registrant = {s1, s2, s3}
    Call = {"success", "failure", "get"}
    None = None
    TrustLevels = {0, 80}
    MaxEvents = 2
    Recency = {40}
SPECIFICATION Spec
INVARIANTS
    HealthInv
    AccurateUnlessRaced
SYMMETRY Interchangeable
\* Requests end and there are finitely many of them.
CHECK_DEADLOCK FALSE
