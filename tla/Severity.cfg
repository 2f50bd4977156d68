CONSTANTS
    MaxFailures = 4
    MaxAlerts = 6
    Trust = {0, 29, 30, 100}
    Model = {m1, m2, m3}
    Auc = {0, 50, 90}
    NoModel = NoModel
    Measure <- Measures
    Missing = Missing
    MaxFeatures = 3
SPECIFICATION RulesSpec
INVARIANTS
    RulesCompose
    ConsensusStands
    RecommendsBest
    WorstReported
PROPERTY NeverDeescalates
\* A context is as bad as it gets, a loop is at its end.
CHECK_DEADLOCK FALSE
