CONSTANTS
    root = root
    user = user
    secret = secret
    other = other
    earlier = earlier
    None = None
    Email = {root, user}
    Password = {secret, other}
    Admin = root
    AdminPassword = secret
    EarlierToken = earlier
    Token <- MCToken
    Form <- MCForm
    Tab = {t1, t2}
    Panel = {"overview", "ml_analytics"}
    MaxRequests = 4
    MaxForms = 2
    Failing = {2}
SPECIFICATION Spec
INVARIANTS
    DashboardInv
    AccountsOwned
    FreshUnlessOverlapped
PROPERTIES
    SessionsLast
SYMMETRY Interchangeable
\* The requests of a behaviour are bounded.
CHECK_DEADLOCK FALSE
