--------------------------- MODULE MCPaperTrading ---------------------------
(***************************************************************************)
(* PaperTrading for TLC: half of the slot on entry, a quarter on each      *)
(* scale-in, after 2 and 3 BUY candles (the code's defaults are 8 and 16). *)
(* The thresholds are the defaults; values lie on both sides of each, or   *)
(* at it.  Mean reversion only decides with ema_hourly 50 (default 21).    *)
(***************************************************************************)
EXTENDS PaperTrading

Percents == [i \in 0..2 |-> IF i = 0 THEN 50 ELSE 25]
Candles == [i \in 0..1 |-> i + 2]

Weekend == [start_utc |-> [name |-> "saturday", minute |-> 1260],
            end_utc |-> [name |-> "sunday", minute |-> 1200]]
Night == [start_utc |-> [name |-> "", minute |-> 1260], end_utc |-> [name |-> "", minute |-> 60]]
Zones == [session_filter_enabled |-> TRUE, session_dead_zones |-> {Weekend, Night}]
Noon == [day |-> 2, minute |-> 720]
SundayMorning == [day |-> 6, minute |-> 480]

Hodler == [ema_fast |-> 50, ema_slow |-> 200, ema_hourly |-> 21, adx_threshold |-> 25,
           rsi_threshold |-> 45, pullback_max_distance |-> 5,
           session |-> Zones]
Reversion == [ema_hourly |-> 50, rsi_overbought |-> 70, rsi_oversold |-> 30,
              adx_threshold |-> 25, volume_spike |-> 150,
              session |-> Zones]
Guard == [ema_fast |-> 50, ema_slow |-> 200, ema_hourly |-> 21, adx_threshold |-> 25,
          rsi_overbought_threshold |-> 70, volume_filter |-> 70,
          hourly_rsi_bear_threshold |-> 55,
          session |-> Zones]
Regimes == [regime_gating_enabled |-> TRUE, adx_trending_threshold |-> 25,
            adx_ranging_threshold |-> 20,
            strategy_regime_map |-> [smart_hodler |-> "trending", mean_reversion |-> "ranging",
                                     bear_guard |-> "trending"]]

\* close, fast and slow average around 200, so that one step is a pullback
TrendReadings(rsi) ==
    [close : {199, 200, 201, NaN}, ema_50 : {200, 201}, ema_200 : {199, 200, 201},
     adx : {25, 26}, adx_before : {26, NaN}, volume : {1, NaN}, volume_sma : {0, 1},
     ema_21_1h : {1, 2}, ema_21_1h_before : {1, 2}, rsi_1h : rsi,
     time : {Noon, SundayMorning}]
BandReadings ==
    [close : {198, 199, 200, 201}, bb_lower : {198, NaN}, bb_middle : {200}, bb_upper : {201},
     rsi : {29, 30, 71}, adx : {24, 25, 31}, volume : {3, 4}, volume_sma : {2},
     rsi_1h : {35, 36, NaN}, close_1h : {1, 2}, ema_50_1h : {1}, time : {Noon, SundayMorning}]
MCReadings == [s \in Strategies |->
    CASE s = "smart_hodler" -> TrendReadings({45, 46})
      [] s = "mean_reversion" -> BandReadings
      [] s = "bear_guard" -> TrendReadings({54, 55, 71})]
SymbolReadings == [close : {1}, ema_50 : {1, 2}, adx : {25, 26, NaN}]
MCSentinels == [{"BTCUSDT", "ETHUSDT"} -> SymbolReadings]

\* The checked instance satisfies what the theorems assume.
ASSUME TheoremsApply == StopsCool /\ Halvable /\ Funded /\ Lossless
=============================================================================
