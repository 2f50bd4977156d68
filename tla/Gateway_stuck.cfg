CONSTANTS
    Session = {s1, s2}
    Msg = {m1}
    None = None
    Limit = 1
    Window = 1
    NonceTTL = 1
    MaxDrift = 1
    Sent <- AllAges
    Crashing = {s1, s2}
SPECIFICATION FairSpec
PROPERTIES CountersExpire
