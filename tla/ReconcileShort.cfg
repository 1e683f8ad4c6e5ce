\* A short strategy alone on a healthy account.
CONSTANTS
    Strategies = {s1, s2, sh}
    Profiles <- Short
    Shorts = {sh}
    Default = s1
    None = None
    Sizes = {1}
    MinCycles = 2
    CyclesPerTick = 2
    Budgets <- MCBudgets
    MaxHeld = 2
    s1 = s1
    s2 = s2
    sh = sh
SPECIFICATION Spec
INVARIANT HealthyShortKept
