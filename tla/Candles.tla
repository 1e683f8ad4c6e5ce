------------------------------- MODULE Candles -------------------------------
(***************************************************************************)
(* The candle cache (core/data/loader.py) and the exchange's klines it is  *)
(* filled from (core/data/binance_client.py).                              *)
(*                                                                         *)
(* Time is counted in slots, Period of them per candle.  Candle c opens at *)
(* slot c * Period.  Of its data the model keeps only whether the values   *)
(* were final when they were stored.  One timeframe stands for all.        *)
(***************************************************************************)
EXTENDS Integers, FiniteSets

CONSTANTS
    Symbols,     \* enabled symbols
    Period,      \* slots per candle
    Lookback,    \* candles the strategies look back on (_LOOKBACK_DAYS)
    Chunk,       \* max_candles_per_request
    FetchLimit,  \* _FETCH_LIMIT
    Last         \* bound: last candle

ASSUME CandleAssumption ==
    /\ Period \in Nat \ {0} /\ Lookback \in Nat \ {0} /\ Chunk \in Nat \ {0}
    /\ FetchLimit \in Nat \ {0} /\ Last \in Nat /\ Last >= Lookback

VARIABLES
    clock,   \* now, in slots
    listed,  \* [Symbols -> first candle the exchange has]
    cache    \* [Symbols -> [candle -> "none", "open" or "final"]]

marketVars == <<clock, listed, cache>>

Candle == 0..Last
Slots == 0..((Last + 1) * Period - 1)

Current == clock \div Period
Closed(c) == clock >= (c + 1) * Period

\* What the exchange answers for c now
Quote(c) == IF Closed(c) THEN "final" ELSE "open"

Latest(S) == CHOOSE c \in S : \A d \in S : d <= c
Earliest(S, n) == {c \in S : Cardinality({d \in S : d < c}) < n}

\* fetch_klines with a start: the earliest candles of the range
Klines(s, from, to) ==
    Earliest({c \in Candle : listed[s] <= c /\ c <= Current /\ from <= c * Period /\ c * Period <= to},
             Chunk)

\* fetch_klines without a start: the trailing window, the forming candle included
Trailing(s) == {c \in Candle : listed[s] <= c /\ c <= Current /\ Current - FetchLimit < c}

Stored(s) == {c \in Candle : cache[s][c] # "none"}

\* Mutant: the rows are keyed by the close of the candle.
Cached_byClose(s, got) ==
    [c \in {d + 1 : d \in Candle} |-> IF c - 1 \in got THEN Quote(c - 1) ELSE "none"]

\* _cache_to_db: rows that exist are left as they are (ON CONFLICT DO NOTHING).
Cached(s, got) ==
    [c \in Candle |-> IF c \in got /\ cache[s][c] = "none" THEN Quote(c) ELSE cache[s][c]]

\* _fetch_in_chunks: a chunk that fails is passed over, one without candles ends
\* the loop, and the next one starts after the last candle received.
Chunks(s, start, failing) ==
    LET rest[from \in 0..(clock + Period)] ==
            LET to == IF from + Chunk * Period < clock THEN from + Chunk * Period ELSE clock
                got == Klines(s, from, to)
            IN  IF from >= clock THEN {}
                ELSE IF from \in failing THEN rest[to]
                ELSE IF got = {} THEN {}
                ELSE got \cup rest[(Latest(got) + 1) * Period]
    IN  rest[start]

WindowStart == IF clock > Lookback * Period THEN clock - Lookback * Period ELSE 0

\* load_historical of the lookback
Historical(s, failing) == Cached(s, Chunks(s, WindowStart, failing))

\* _query_from_cache
Window == {c \in Candle : WindowStart <= c * Period /\ c * Period <= clock}

\* Mutant: half of the candles are enough.
Incomplete_half(s) == 2 * Cardinality(Stored(s) \cap Window) < Lookback

\* more than 10% missing, or no data at all
Incomplete(s) ==
    LET have == Cardinality(Stored(s) \cap Window) IN have = 0 \/ 10 * have < 9 * Lookback

\* get_market_data: the rows of s after it
Loaded(s, failing) == IF Incomplete(s) THEN Historical(s, failing) ELSE cache[s]

Missing(rows, s) == {c \in Window : listed[s] <= c /\ rows[c] = "none"}
=============================================================================
