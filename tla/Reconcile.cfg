\* One or two long strategies, or a short one, on an account that others move.
CONSTANTS
    Strategies = {s1, s2, sh}
    Profiles <- MCProfiles
    Shorts = {sh}
    Default = s1
    None = None
    Sizes = {1}
    MinCycles = 2
    CyclesPerTick = 2
    Budgets <- MCBudgets
    MaxHeld = 2
    s1 = s1
    s2 = s2
    sh = sh
SPECIFICATION FairSpec
INVARIANTS TypeOK HealthyLeftAlone
PROPERTIES ForceCloseJustified OrphanClosed BookSettles
