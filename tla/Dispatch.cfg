\* Two pairs of which one may hold a position; three periods of four slots; loads in
\* chunks of four candles.
CONSTANTS
    Symbols = {"BTC", "ETH"}
    Strategies = {"smart_hodler"}
    Registry <- MCRegistry
    Period = 4
    Lookback = 10
    Chunk = 4
    FetchLimit = 2
    Last = 12
    MaxPositions = 1
    TTL = 2
    FetchAt = 1
    TickAt = 2
    Backlog = 2
    NoCandle = NoCandle
    Profiles <- MCProfiles
SPECIFICATION Spec
CHECK_DEADLOCK FALSE
INVARIANTS TypeOK DataComplete PositionLimit FirstCallerWins EveryCandleDecided
