----------------------------- MODULE MCPriceFeed -----------------------------
(***************************************************************************)
(* A small instance of PriceFeed.  Prices have two digits more than the    *)
(* oracles' reports, ratios are percentages.  The reports 20 and 21 differ *)
(* by the 5% that still count as similar; 20 and 50 are a jump.            *)
(***************************************************************************)
EXTENDS PriceFeed

Answers == {-1, 20, 50}
=============================================================================
