CONSTANTS
    Session = {s1, s2, s3, s4}
    Msg = {m1}
    None = None
    Limit = 2
    Window = 3
    NonceTTL = 1
    MaxDrift = 1
    Sent <- TooOld
    Crashing = {}
SPECIFICATION FairSpec
INVARIANT FewerThanTwoLimits
PROPERTY CountersExpire
