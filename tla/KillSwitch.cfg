\* Paper and live trading, restarts and aborted ticks, three equity values, two days.
CONSTANTS
    Equities = {6, 8, 10}
    MaxDrawdown = 40
    MaxDailyLoss = 20
    MaxDay = 2
    Faults = {"crash", "abort"}
SPECIFICATION FairSpec
INVARIANTS TypeOK WithinLimits
PROPERTIES LatchedBlocks ResetHonoured TriggerSeen
