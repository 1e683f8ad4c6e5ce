\* Refused orders, races of the stop order, and every kind of failure.
CONSTANTS
    Ids = {s1, s2, s3, s4, s5}
    NoId = NoId
    Ghost = Ghost
    Lot = 1
    BuyFee = 0
    OpenSize = 4
    TrancheSize = 2
    ExchangeStops = TRUE
    Cooldown = TRUE
    Profiles <- MCProfiles
    s1 = s1
    s2 = s2
    s3 = s3
    s4 = s4
    s5 = s5
SPECIFICATION FairSpec
INVARIANTS TypeOK NothingUntracked NoOrphanStop StrategyAgrees
PROPERTIES ClosedMeansSold ProtectionRestored
