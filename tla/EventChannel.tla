---------------------------- MODULE EventChannel ----------------------------
(***************************************************************************)
(* What the market-data path asks of the queue between the receive loop    *)
(* and the order-book consumer: a bounded FIFO that never blocks.          *)
(*                                                                         *)
(* A burst is offered whole.  The prefix that fits the room free at that   *)
(* moment is admitted and the rest is refused; the admitted prefix becomes *)
(* visible at once, later.  Items leave in order, one at a time, and the   *)
(* room of an item comes back only after its reader has let go of it.      *)
(***************************************************************************)
EXTENDS Integers, Sequences

CONSTANTS Item,     \* what travels: parsed feed events
          NoItem,   \* content of an event object nothing was moved into
          Room,     \* the most items the channel holds
          MaxBurst  \* the longest burst offered in one call

VARIABLES chan,     \* items visible to the reader, oldest first
          admitted, \* items of the current burst that fit, not visible yet
          taken,    \* the item the reader took last
          holding   \* the reader still occupies the place of the item it took

vars == <<chan, admitted, taken, holding>>

Bursts == UNION {[1..n -> Item] : n \in 1..MaxBurst}

Occupied == Len(chan) + (IF holding THEN 1 ELSE 0)

Init == /\ chan = << >>
        /\ admitted = << >>
        /\ taken = NoItem
        /\ holding = FALSE

Offer(burst) ==
    /\ admitted = << >>
    /\ admitted' = IF Len(burst) <= Room - Occupied
                   THEN burst
                   ELSE SubSeq(burst, 1, Room - Occupied)
    /\ UNCHANGED <<chan, taken, holding>>

Publish ==
    /\ admitted # << >>
    /\ chan' = chan \o admitted
    /\ admitted' = << >>
    /\ UNCHANGED <<taken, holding>>

Take ==
    /\ chan # << >>
    /\ ~holding
    /\ taken' = Head(chan)
    /\ chan' = Tail(chan)
    /\ holding' = TRUE
    /\ UNCHANGED admitted

LetGo ==
    /\ holding
    /\ holding' = FALSE
    /\ UNCHANGED <<chan, admitted, taken>>

Next == \/ \E burst \in Bursts : Offer(burst)
        \/ Publish
        \/ Take
        \/ LetGo

Spec == Init /\ [][Next]_vars
=============================================================================
