SPECIFICATION FairSpec
CONSTANTS
    s1 = s1
    s2 = s2
    s3 = s3
    Sessions = {s1, s2, s3}
    a = a
    b = b
    c = c
    Players = {a, b}
    SystemAccount = SystemAccount
    r1 = r1
    r2 = r2
    Requests = {r1}
    k1 = k1
    Keys = {k1}
    Payer <- OnePayer
    Payee <- OnePayee
    Due <- OneDue
    Amounts = {1}
    InitialMarkGrant = 1
    BigintMax = 4
    MaxCalls = 3
    None = None
INVARIANTS
    IssuanceNeverDeadlocks
PROPERTIES
    EveryCallEnds
CHECK_DEADLOCK FALSE
