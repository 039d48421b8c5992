----------------------------- MODULE OrderBook -----------------------------
(***************************************************************************)
(* cpp/src/order_book.cpp: the price levels shared by the feed consumer,   *)
(* which applies events, and the gateway's handlers, which match orders.   *)
(* Every operation holds the mutex m from end to end.  apply_event is one  *)
(* step; match_order takes one per turn of its loop, because the outcome   *)
(* of an order is the work of all of them.                                 *)
(*                                                                         *)
(* Two things are not states here.  A symbol without an entry in the map   *)
(* is one with two empty sides: no operation tells them apart.  An event   *)
(* with an empty symbol, or an order for nothing or less, changes nothing. *)
(***************************************************************************)
EXTENDS Integers, Sequences, Functions

CONSTANTS
    Symbol,
    MinPrice, MaxPrice,  \* bounds: the prices the feed sends lie between them
    MaxSize,    \* bound: the largest size of an event
    MaxOrder,   \* bound: the largest size of an order
    SeedPrice,  \* prices at which set_level puts bids before the feed starts:
                \* none in the program, some in a test
    End,        \* the iterator past the last level
    NoOrder     \* nobody is matching

\* in ticks; a price that is not a number is left out
Price == MinPrice .. MaxPrice

ASSUME PriceAssumption == MinPrice \in Int /\ MaxPrice \in Int
ASSUME SeedAssumption  == SeedPrice \subseteq Price
ASSUME BoundAssumption == MaxSize \in Nat \ {0} /\ MaxOrder \in Nat
ASSUME EndAssumption   == End \notin Price

VARIABLES
    books,      \* symbol -> SideBook
    order,      \* the order being matched by the holder of m, or NoOrder
    remaining,  \* of that order
    ait,        \* its iterator (bit, on the bids): a level's price, or End
    fills       \* the fills of the latest order

vars == <<books, order, remaining, ait, fills>>

Levels(prices) == UNION {[P -> 1 .. MaxSize] : P \in SUBSET prices}
SideBook == [bids : Levels(Price), asks : Levels(Price)]
Order    == [side : {"BUY", "SELL"}, symbol : Symbol, size : 1 .. MaxOrder]
Fill     == [price : Price, size : 1 .. MaxOrder]
NoLevels == [p \in {} |-> 0]

ASSUME NoOrderAssumption == NoOrder \notin Order

locked == order # NoOrder

\* the order of the two maps: std::greater for the bids
Precedes(side, p, q) == IF side = "BUY" THEN p < q ELSE p > q

Facing(side) == IF side = "BUY" THEN "asks" ELSE "bids"

\* A bug for a mutation run: the walk starts from the other end of the map.
LastLevel(side, S) ==
    IF S = {} THEN End
    ELSE CHOOSE p \in S : \A q \in S \ {p} : Precedes(side, q, p)

\* begin() of what is left of a side when only the prices in S count
First(side, S) ==
    IF S = {} THEN End
    ELSE CHOOSE p \in S : \A q \in S \ {p} : Precedes(side, p, q)

\* the highest bid and lowest ask, where top_of_book has NaN for an empty side
best_bid(sym) == First("SELL", DOMAIN books[sym].bids)
best_ask(sym) == First("BUY", DOMAIN books[sym].asks)

Erase(levels, price)       == [p \in DOMAIN levels \ {price} |-> levels[p]]
Assign(levels, price, size) ==
    [p \in DOMAIN levels \cup {price} |-> IF p = price THEN size ELSE levels[p]]

\* set_level, which only a test would call: bids present before the feed starts
Seeded == [bids : Levels(SeedPrice), asks : {NoLevels}]

Init ==
    /\ books \in [Symbol -> Seeded]
    /\ order = NoOrder /\ remaining = 0 /\ ait = End
    /\ fills = << >>

-----------------------------------------------------------------------------
(* apply_event *)

RemoveLevel(sym, price, size) ==
    /\ ~locked
    /\ size <= 0
    /\ books' = [books EXCEPT ![sym].bids = Erase(@, price), ![sym].asks = Erase(@, price)]
    /\ UNCHANGED <<order, remaining, ait, fills>>

\* Bugs for mutation runs: < where the code has <=; the lock is not taken.
IsBidStrictly(sym, price) == best_bid(sym) # End /\ price < best_bid(sym)

\* "if there's a better higher bid already"
IsBid(sym, price) == best_bid(sym) # End /\ price <= best_bid(sym)

SetLevelUnlocked(sym, price, size) ==
    /\ size > 0
    /\ books' = IF IsBid(sym, price)
                THEN [books EXCEPT ![sym].bids = Assign(@, price, size)]
                ELSE [books EXCEPT ![sym].asks = Assign(@, price, size)]
    /\ UNCHANGED <<order, remaining, ait, fills>>

SetLevel(sym, price, size) ==
    /\ ~locked
    /\ size > 0
    /\ books' = IF IsBid(sym, price)
                THEN [books EXCEPT ![sym].bids = Assign(@, price, size)]
                ELSE [books EXCEPT ![sym].asks = Assign(@, price, size)]
    /\ UNCHANGED <<order, remaining, ait, fills>>

-----------------------------------------------------------------------------
(* match_order *)

facing == books[order.symbol][Facing(order.side)]

\* the lock is taken and the loop is about to start
BeginMatch(o) ==
    /\ ~locked
    /\ order' = o
    /\ remaining' = o.size
    /\ ait' = First(o.side, DOMAIN books[o.symbol][Facing(o.side)])
    /\ fills' = << >>
    /\ UNCHANGED books

\* A bug for a mutation run: everything there is is taken.
TakeAll(avail, wanted) == avail

Take(avail, wanted) == IF avail < wanted THEN avail ELSE wanted

\* One turn of the loop.  Both branches leave the iterator at the level that
\* follows; the branch for a level with nothing in it finds none to erase, as
\* TypeOK shows.
TakeLevel ==
    LET avail == facing[ait]
        take  == Take(avail, remaining)
        later == {p \in DOMAIN facing : Precedes(order.side, ait, p)}
    IN  /\ locked /\ ait # End /\ remaining > 0
        /\ fills' = Append(fills, [price |-> ait, size |-> take])
        /\ remaining' = remaining - take
        /\ books' = [books EXCEPT ![order.symbol][Facing(order.side)] =
                        IF avail - take = 0 THEN Erase(@, ait)
                                            ELSE Assign(@, ait, avail - take)]
        /\ ait' = First(order.side, later)
        /\ UNCHANGED order

\* A bug for a mutation run: the loop's other condition is forgotten.
LoopEndsWhenServed == remaining <= 0

LoopEnds == ait = End \/ remaining <= 0

\* the fills are returned and the lock released
EndMatch ==
    /\ locked
    /\ LoopEnds
    /\ order' = NoOrder /\ remaining' = 0 /\ ait' = End
    /\ UNCHANGED <<books, fills>>

-----------------------------------------------------------------------------
Feed == \E sym \in Symbol, price \in Price, size \in 0 .. MaxSize :
          RemoveLevel(sym, price, size) \/ SetLevel(sym, price, size)

Match == (\E o \in Order : BeginMatch(o)) \/ TakeLevel \/ EndMatch

Next == Feed \/ Match

Spec == Init /\ [][Next]_vars

\* The thread inside match_order never blocks, so the scheduler lets it go on.
FairSpec == Spec /\ WF_vars(TakeLevel \/ EndMatch)

-----------------------------------------------------------------------------
(* Properties *)

\* The type invariant.  Its levels hold at least one share each: no sequence
\* of updates and partial fills leaves an empty level behind.
TypeOK ==
    /\ books \in [Symbol -> SideBook]
    /\ order \in Order \cup {NoOrder}
    /\ remaining \in 0 .. MaxOrder
    /\ ait \in Price \cup {End}
    /\ fills \in Seq(Fill)

\* The book never crosses, whatever order updates and trades come in: deciding
\* the side by the best bid alone is enough, even when trades have moved it.
Uncrossed ==
    \A sym \in Symbol :
        \A b \in DOMAIN books[sym].bids, a \in DOMAIN books[sym].asks : b < a

\* While an order is matched its iterator is valid and nothing better than it
\* is left on the side it takes from, and its fills get worse from one to the
\* next: erasing during the walk skips no level and visits none twice.
BestFirst ==
    locked =>
        /\ ait # End => ait \in DOMAIN facing
        /\ remaining > 0 =>
              \A p \in DOMAIN facing : ait # End /\ (p = ait \/ Precedes(order.side, ait, p))
        /\ \A j, k \in DOMAIN fills :
              j < k => Precedes(order.side, fills[j].price, fills[k].price)
        /\ \A k \in DOMAIN fills :
              ait # End => Precedes(order.side, fills[k].price, ait)

\* What OrderManager relies on (its Match): the fills of an order add up to
\* what it no longer wants, there are at most that many, and never too much.
FillsWithinOrder ==
    locked =>
        /\ SumFunction([k \in DOMAIN fills |-> fills[k].size]) = order.size - remaining
        /\ Len(fills) <= order.size - remaining
        /\ remaining >= 0

\* A match that holds the lock lets it go: the consumer and the other handlers
\* all wait behind it.
MatchEnds == locked ~> ~locked

\* The book as a reader without access to m sees it: from the moment the lock
\* is taken the order under way has had its effect, all of it.
Swept == INSTANCE Sweep

Atomic == INSTANCE MarketBook WITH
    Size    <- 0 .. MaxSize,
    Want    <- 1 .. MaxOrder,
    Opening <- Seeded,
    book    <- IF ~locked THEN books
               ELSE [books EXCEPT ![order.symbol][Facing(order.side)] =
                        Swept!Left(@, order.side, remaining)],
    answer  <- IF ~locked THEN fills
               ELSE fills \o Swept!Trades(facing, order.side, remaining)

\* Events and orders take effect one at a time, each at a single moment, and
\* an order's outcome is the one that taking the best levels first defines.
ImplementsMarketBook == Atomic!Spec
=============================================================================
