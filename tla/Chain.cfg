CONSTANTS
    Session = {s1, s2, s3}
    Data = {d1, d2, d3}
    Genesis = genesis
    Alike = {d1, d2}
    Canonical <- CanonicalText
    Reader = {r1}
    Epoch <- Epochs
    LastRead = 2
    Limit = 2
SPECIFICATION ExplorerSpec
INVARIANTS
    ChainInv
    ChainValidates
    SomeRequestWins
    ReportsHold
    TamperEvident
    RootsDistinguish
    QueriesAgree
PROPERTIES
    AppendOnly
    ImplementsLedger
SYMMETRY Interchangeable
\* Requests end and there are finitely many of them.
CHECK_DEADLOCK FALSE
