----------------------------- MODULE MarketBook -----------------------------
(***************************************************************************)
(* What the feed and the gateway are promised by the order book: every     *)
(* update and every order takes effect at one moment.  A trade is stated   *)
(* by its outcome and not by a loop: an order is served best price first,  *)
(* so a level gives what the better levels left to ask for.                *)
(***************************************************************************)
EXTENDS Sweep

CONSTANTS Symbol, Price,
          Size,     \* shares in a feed event; zero or less removes the level
          Want,     \* shares an order asks for
          Opening   \* books a symbol may have at the start

VARIABLES book,     \* what rests, per symbol and side: price -> shares
          answer    \* the fills of the latest order, best price first

vars == <<book, answer>>

Opposite == [BUY |-> "asks", SELL |-> "bids"]

Init == /\ book \in [Symbol -> Opening]
        /\ answer = << >>

\* A level is replaced where a bid is at or above its price, and on the asks
\* otherwise; an update for no shares empties the price on both sides.
Update(sym, price, size) ==
    LET side  == IF \E b \in DOMAIN book[sym].bids : price <= b THEN "bids" ELSE "asks"
        Drop(levels) == [p \in DOMAIN levels \ {price} |-> levels[p]]
    IN  /\ book' = IF size > 0
                   THEN [book EXCEPT ![sym][side] =
                            [p \in DOMAIN @ \cup {price} |-> IF p = price THEN size ELSE @[p]]]
                   ELSE [book EXCEPT ![sym] =
                            [bids |-> Drop(@.bids), asks |-> Drop(@.asks)]]
        /\ UNCHANGED answer

Trade(sym, side, n) ==
    LET levels == book[sym][Opposite[side]]
    IN  /\ book' = [book EXCEPT ![sym][Opposite[side]] = Left(levels, side, n)]
        /\ answer' = Trades(levels, side, n)

Next == \E sym \in Symbol :
          \/ \E price \in Price, size \in Size : Update(sym, price, size)
          \/ \E side \in {"BUY", "SELL"}, n \in Want : Trade(sym, side, n)

Spec == Init /\ [][Next]_vars
=============================================================================
