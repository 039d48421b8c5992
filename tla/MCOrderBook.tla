---------------------------- MODULE MCOrderBook ----------------------------
(* One symbol with four prices and sizes up to two: an order for three can   *)
(* sweep a level, take part of the next and stop, or find the side too thin. *)
(* Three of the prices may hold seeded bids, so both branches of the feed's  *)
(* side rule and both directions of the walk occur.                          *)
EXTENDS OrderBook
=============================================================================
