CONSTANTS
    Session = {s1, s2}
    Registrant = {s2}
    Key = {k1, k2}
    k1 = k1
    k2 = k2
    None = None
    Call <- ScoringCalls
SPECIFICATION Spec
INVARIANT EveryChangeRecorded
\* Every request ends and there are finitely many of them.
CHECK_DEADLOCK FALSE
