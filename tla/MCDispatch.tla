----------------------------- MODULE MCDispatch -----------------------------
(***************************************************************************)
(* Dispatch for TLC: one strategy on two symbols; a quiet market, one with *)
(* failing fetches and loads, one with crashes and without Redis, and one  *)
(* with a late worker, a restarted stream and changed settings.            *)
(***************************************************************************)
EXTENDS Dispatch

Old == [s \in Symbols |-> 0]
Young == [s \in Symbols |-> IF s = "BTC" THEN 0 ELSE 3]

MCRegistry == <<<<"smart_hodler", "BTC">>, <<"smart_hodler", "ETH">>>>

Quiet == {[listed |-> Old, faults |-> {}, max |-> 0]}

MCProfiles ==
    Quiet \cup
    {[listed |-> Young, faults |-> {"fetch", "load"}, max |-> 3],
     [listed |-> Young, faults |-> {"crash", "redis", "persist"}, max |-> 2],
     [listed |-> Old, faults |-> {"lag", "stream", "config"}, max |-> 2]}

ASSUME TheoremsApply == Timetable /\ Apart /\ AllTraded /\ ListedInReach
=============================================================================
