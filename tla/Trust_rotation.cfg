CONSTANTS
    Session = {s1, s2}
    Registrant = {}
    Key = {k1, k2}
    k1 = k1
    k2 = k2
    None = None
    Call <- RotationCalls
SPECIFICATION Spec
INVARIANT OneActiveKey
\* Every request ends and there are finitely many of them.
CHECK_DEADLOCK FALSE
