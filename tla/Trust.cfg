CONSTANTS
    Session = {s1, s2, s3}
    Registrant = {s3}
    Key = {k1, k2}
    k1 = k1
    k2 = k2
    None = None
    Call <- MixedCalls
SPECIFICATION FairSpec
INVARIANTS
    TrustInv
    GapsAtRegistrants
PROPERTIES
    FrozenNeverGains
    AdjustOnlyRestricts
    AccessFollowsStatus
    ImplementsTrustScore
    RequestsEnd
\* Every request ends and there are finitely many of them.
CHECK_DEADLOCK FALSE
