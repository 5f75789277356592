---------------------------- MODULE MCPairTrade ----------------------------
(* One venue for both legs, two venues with ids, two venues without.       *)
EXTENDS PairTrade

VenueLists == {<<"kraken">>, <<"kraken", "coinbase">>, <<"oanda", "alpaca">>}
=============================================================================
