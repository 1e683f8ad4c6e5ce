\* The three strategies, restarts at any time, two prices, at most three entries.
CONSTANTS
    Strategies = {"smart_hodler", "mean_reversion", "bear_guard"}
    Prices = {4, 5}
    Unit = 1000
    Fee = 1
    Slot = 160
    Tranches <- Percents
    ScaleCandles <- Candles
    Cooldown = 2
    TimeCooldown = 1
    Confirm = 2
    MaxDaily = 2
    MaxEntries = 3
    Faults = {"crash"}
    NaN = NaN
    SmartHodlerConfig <- Hodler
    MeanReversionConfig <- Reversion
    BearGuardConfig <- Guard
    RegimeConfig <- Regimes
    Readings <- MCReadings
    Smoothed = {20, 21, 25, NaN}
    SentinelReadings <- MCSentinels
SPECIFICATION Spec
INVARIANTS TypeOK MoneyConserved DailyLimit
PROPERTIES KeepsLifecycle CooldownServed ScaleInEarned
