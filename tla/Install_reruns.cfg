SPECIFICATION InstallSpec
CONSTANTS
    Regions = {1, 2}
    Configs = {c1, c2}
    MaxStacks = 2
    Attempts = 2
    MaxKeys = 2
    Budgets <- MCBudgets
    Tenancies <- MCTenancies
INVARIANTS
    InstallTypeOK
    NoOrphans
    OneStack
    SuccessMeansServed
    KeyInForce
    ForgottenNothing
    NoSurprise
PROPERTY
    Converges
CHECK_DEADLOCK FALSE
