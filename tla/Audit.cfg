CONSTANTS
    Session = {s1, s2, s3, s4}
    Data = {s1, s2, s3, s4}
    Genesis = genesis
    Canonical <- CanonicalText
    NoLink = nolink
    Event = {"auth_failure", "drift_detected"}
SPECIFICATION AuditSpec
INVARIANTS
    AuditInv
    LinksResolve
    BlocksHaveAuditRows
PROPERTY AuditImmutable
SYMMETRY Interchangeable
\* Every request ends and there are finitely many of them.
CHECK_DEADLOCK FALSE
