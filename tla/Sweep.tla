------------------------------- MODULE Sweep -------------------------------
(***************************************************************************)
(* What an order takes off one side of a book, as a definition and not as  *)
(* a loop: the best price is served first, so a level gives what the       *)
(* better levels left to ask for.  A side maps its prices to shares.       *)
(***************************************************************************)
EXTENDS Integers, FiniteSets, Functions

Better(side, p, q) == IF side = "BUY" THEN p < q ELSE p > q

Least(a, b) == IF a <= b THEN a ELSE b

\* shares offered at prices better than p
Ahead(levels, side, p) ==
    SumFunctionOnSet(levels, {q \in DOMAIN levels : Better(side, q, p)})

\* what an order for n shares takes at price p
Taken(levels, side, n, p) ==
    LET wanted == n - Ahead(levels, side, p)
    IN  IF wanted > 0 THEN Least(wanted, levels[p]) ELSE 0

\* ... and what it leaves behind
Left(levels, side, n) ==
    [p \in {q \in DOMAIN levels : Taken(levels, side, n, q) < levels[q]}
        |-> levels[p] - Taken(levels, side, n, p)]

\* the k-th best of a set of prices
Ranked(prices, side, k) ==
    CHOOSE p \in prices : Cardinality({q \in prices : Better(side, q, p)}) = k - 1

\* the prices an order takes something at
Hit(levels, side, n) == {p \in DOMAIN levels : Taken(levels, side, n, p) > 0}

Trades(levels, side, n) ==
    LET hit == Hit(levels, side, n)
    IN  [k \in 1 .. Cardinality(hit) |->
            [price |-> Ranked(hit, side, k),
             size  |-> Taken(levels, side, n, Ranked(hit, side, k))]]
=============================================================================
