SPECIFICATION Spec
CONSTANTS
    Requests = {q1, q2}
    t1 = t1
    t2 = t2
    Tenants = {t1, t2}
    MockTenant = t1
    Scopes = {"case.read", "case.write", "admin", "*"}
    Tokens <- MCTokens
    Headers <- MCHeaders
    Configs <- MCConfigs
    Generations <- MCGenerations
    InlineKeys <- MCInlineKeys
    MaxTime = 1
    MaxSessions = 1
    none = none
SYMMETRY Symmetry
INVARIANTS
    GrantIsGenuine
    FailClosed
PROPERTY
    AcceptedStaysAccepted
CHECK_DEADLOCK FALSE
