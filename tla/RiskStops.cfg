\* Long and short positions over five prices, candles without an ATR included.
CONSTANTS
    Sides = {"long", "short"}
    Prices = {8, 9, 10, 11, 12}
    Atrs = {NoAtr, 0, 1}
    NoAtr = NoAtr
    HardPct = 10
    BreakevenPct = 10
    LockinPct = 20
    LockinStopPct = 5
    AtrMult = 2
    NoOrder = NoOrder
SPECIFICATION Spec
INVARIANTS TypeOK ProfitLockedIn ExchangeNotAhead
PROPERTIES LongStopsNeverFall ShortStopsNeverRise
