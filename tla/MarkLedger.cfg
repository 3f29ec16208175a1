SPECIFICATION Spec
CONSTANTS
    s1 = s1
    s2 = s2
    s3 = s3
    Sessions = {s1, s2}
    a = a
    b = b
    c = c
    Players = {a, b}
    SystemAccount = SystemAccount
    r1 = r1
    r2 = r2
    Requests = {r1, r2}
    k1 = k1
    Keys = {k1}
    Payer <- MCPayer
    Payee <- MCPayee
    Due <- MCDue
    Amounts = {0, 2}
    InitialMarkGrant = 2
    BigintMax = 4
    MaxCalls = 5
    None = None
SYMMETRY Symmetric
INVARIANTS
    TypeOK
    BalancesMatchLedger
    KeysPostedOnce
    RequestsPaidOnce
PROPERTIES
    ImplementsAtomicLedger
CHECK_DEADLOCK FALSE
