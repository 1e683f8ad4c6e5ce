----------------------------- MODULE Conditions -----------------------------
(***************************************************************************)
(* What the strategies and the gates of the tick read from the indicators  *)
(* (core/strategies, core/regime.py, core/macro_filter.py): a reading of   *)
(* the market becomes the verdict the state machines decide on.            *)
(*                                                                         *)
(* Prices and indicator values are integers; a value that pandas does not  *)
(* have (warm-up, too short a history) is NaN, and so is the hourly RSI as *)
(* long as the average next to it has no value a few bars back.            *)
(* Percentages are integers, the distance of a pullback is per mille.      *)
(***************************************************************************)
EXTENDS SessionFilter

CONSTANTS
    NaN,
    SmartHodlerConfig,    \* the settings of each strategy, by the names
    MeanReversionConfig,  \* they have in core/config.py
    BearGuardConfig,
    RegimeConfig

StrategyNames == {"smart_hodler", "mean_reversion", "bear_guard"}

\* The settings that matter here, in the ranges the configuration validates;
\* nothing relates one setting to another.
Sessions == [session_filter_enabled : BOOLEAN, session_dead_zones : SUBSET DeadZones]

SmartHodlerSettings ==
    [ema_fast : 1..500, ema_slow : 1..500, ema_hourly : Nat \ {0}, adx_threshold : 0..100,
     rsi_threshold : 0..100, pullback_max_distance : 0..50, session : Sessions]

MeanReversionSettings ==
    [ema_hourly : Nat \ {0}, adx_threshold : 0..100, rsi_oversold : 0..100,
     rsi_overbought : 0..100, volume_spike : Nat \ {0}, session : Sessions]

BearGuardSettings ==
    [ema_fast : 1..500, ema_slow : 1..500, ema_hourly : Nat \ {0}, adx_threshold : 0..100,
     volume_filter : 1..500, hourly_rsi_bear_threshold : 0..100,
     rsi_overbought_threshold : 0..100, session : Sessions]

RegimeSettings ==
    [regime_gating_enabled : BOOLEAN, adx_trending_threshold : 1..100,
     adx_ranging_threshold : 0..100,
     strategy_regime_map : UNION {[S -> {"trending", "ranging", "uncertain"}] :
                                    S \in SUBSET StrategyNames}]

ASSUME NaNAssumption == NaN \notin Int
ASSUME SettingsAssumption ==
    /\ SmartHodlerConfig \in SmartHodlerSettings
    /\ MeanReversionConfig \in MeanReversionSettings
    /\ BearGuardConfig \in BearGuardSettings
    /\ RegimeConfig \in RegimeSettings
\* The detector does not start with any other.
ASSUME RegimeAssumption ==
    RegimeConfig.adx_ranging_threshold < RegimeConfig.adx_trending_threshold

\* Settings the strategy asks for and the configuration does not know: the
\* default stands in for them (MeanReversionStrategyConfig, the second one is
\* there under another name, rsi_hourly_floor).
AdxRegimeShift == 30
HourlyRsiThreshold == 35

Above(a, b) == a # NaN /\ b # NaN /\ a > b
Under(a, b) == Above(b, a)

Verdicts == [data : BOOLEAN, exit : BOOLEAN, beyond : BOOLEAN, fade : BOOLEAN, entry : BOOLEAN]

NoVerdict == [data |-> FALSE, exit |-> FALSE, beyond |-> FALSE, fade |-> FALSE, entry |-> FALSE]

(***************************************************************************)
(* calculate_all names the moving averages after the periods configured;   *)
(* the strategies ask for fixed names, and hold when one is missing.       *)
(***************************************************************************)
TrendPeriods(config) == {config.ema_fast, config.ema_slow, config.ema_hourly}
TrendNamed(config) == {50, 200, 21} \subseteq TrendPeriods(config)
ReversionNamed(config) == config.ema_hourly = 50

AdxFalling(r) == Under(r.adx, r.adx_before)

\* SELL_HALF, SELL_FULL
HodlerFades(r) == r.close < r.ema_50 /\ AdxFalling(r)

GuardFades(r) == Above(r.rsi_1h, BearGuardConfig.rsi_overbought_threshold) /\ AdxFalling(r)

ReversionFades(r) == r.close >= r.bb_middle

ReversionExits(r) ==
    r.close >= r.bb_upper \/ r.rsi > MeanReversionConfig.rsi_overbought \/ r.adx > AdxRegimeShift

SmartHodler(r) ==
    LET c == SmartHodlerConfig IN
    IF ~TrendNamed(c) \/ NaN \in {r.close, r.ema_50, r.ema_200, r.adx, r.volume_sma}
    THEN NoVerdict
    ELSE [data |-> TRUE,
          exit |-> r.ema_50 < r.ema_200,
          beyond |-> r.close < r.ema_200,
          fade |-> HodlerFades(r),
          entry |-> /\ r.ema_50 > r.ema_200 /\ r.adx > c.adx_threshold
                    /\ r.close > r.ema_50 /\ Above(r.volume, r.volume_sma)
                    /\ Above(r.ema_21_1h, r.ema_21_1h_before)
                    /\ Above(r.rsi_1h, c.rsi_threshold)
                    /\ r.ema_50 > 0
                    /\ (r.close - r.ema_50) * 1000 <= c.pullback_max_distance * r.ema_50
                    /\ SessionPass(c.session, r.time)]

MeanReversion(r) ==
    LET c == MeanReversionConfig IN
    IF ~ReversionNamed(c)
       \/ NaN \in {r.close, r.volume, r.bb_lower, r.bb_middle, r.bb_upper, r.rsi, r.adx, r.volume_sma}
    THEN NoVerdict
    ELSE [data |-> TRUE,
          exit |-> ReversionExits(r),
          beyond |-> FALSE,
          fade |-> ReversionFades(r),
          entry |-> /\ r.close <= r.bb_lower /\ r.rsi < c.rsi_oversold
                    /\ r.adx < c.adx_threshold
                    /\ r.volume * 100 > c.volume_spike * r.volume_sma
                    /\ Above(r.rsi_1h, HourlyRsiThreshold)
                    /\ Above(r.close_1h, r.ema_50_1h)
                    /\ SessionPass(c.session, r.time)]

BearGuard(r) ==
    LET c == BearGuardConfig IN
    IF ~TrendNamed(c) \/ NaN \in {r.close, r.ema_50, r.ema_200, r.adx, r.volume_sma}
    THEN NoVerdict
    ELSE [data |-> TRUE,
          exit |-> r.ema_50 > r.ema_200,
          beyond |-> r.close > r.ema_200,
          fade |-> GuardFades(r),
          entry |-> /\ r.ema_50 < r.ema_200 /\ r.close < r.ema_50
                    /\ r.adx > c.adx_threshold
                    /\ r.volume # NaN /\ r.volume * 100 >= c.volume_filter * r.volume_sma
                    /\ Under(r.ema_21_1h, r.ema_21_1h_before)
                    /\ Under(r.rsi_1h, c.hourly_rsi_bear_threshold)
                    /\ SessionPass(c.session, r.time)]

Verdict(s, r) ==
    CASE s = "smart_hodler" -> SmartHodler(r)
      [] s = "mean_reversion" -> MeanReversion(r)
      [] s = "bear_guard" -> BearGuard(r)

-----------------------------------------------------------------------------
(***************************** the gates ***********************************)

\* RegimeDetector.detect: adx is the mean over its window, NaN without a value
Regime(adx) ==
    IF adx = NaN THEN "uncertain"
    ELSE IF adx >= RegimeConfig.adx_trending_threshold THEN "trending"
    ELSE IF adx <= RegimeConfig.adx_ranging_threshold THEN "ranging"
    ELSE "uncertain"

\* A regime other than the one the strategy is mapped to blocks its entries.
RegimeBlocks(s, regime) ==
    /\ RegimeConfig.regime_gating_enabled
    /\ s \in DOMAIN RegimeConfig.strategy_regime_map
    /\ regime # "uncertain" /\ regime # RegimeConfig.strategy_regime_map[s]

SentinelThreshold == 25

\* _evaluate_symbol; fewer than 64 candles, or any error, read as NaN.
Bearish(r) == Under(r.close, r.ema_50) /\ Above(r.adx, SentinelThreshold)

\* BTC and ETH, both of them known and bearish, block every BUY.
LongsBlocked(sentinels) == \A s \in DOMAIN sentinels : Bearish(sentinels[s])
=============================================================================
