CONSTANTS
    Session = {s1, s2, s3}
    Msg = {m1, m2}
    None = None
    Limit = 2
    Window = 1
    NonceTTL = 2
    MaxDrift = 1
    Sent <- Ahead
    Crashing = {s1, s2, s3}
SPECIFICATION Spec
INVARIANTS
    GatewayInv
    CachedReadingsStored
    NoncesApart
SYMMETRY Interchangeable
