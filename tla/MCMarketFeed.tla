----------------------------- MODULE MCMarketFeed -----------------------------
(* MarketFeed on small instances.                                          *)
EXTENDS MarketFeed

CONSTANT a
One == {a}
AllKinds == {"data", "price", "user"}
PriceOnly == {"price"}
=============================================================================
