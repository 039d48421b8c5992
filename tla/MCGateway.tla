----------------------------- MODULE MCGateway -----------------------------
(* Two connections and two ids.  Orders for two shares can be filled in one *)
(* or two records or in part, an order for three is over the limit, and the *)
(* second order that would rest meets the limit on open orders.             *)
EXTENDS Gateway, TLC

CONSTANTS s1, s2, i1, i2

Say(cmd, clid, size) == [cmd |-> cmd, clid |-> clid, size |-> size]

Lines == (s1 :> {Say("order", i1, 2), Say("order", i1, 3)})
         @@ (s2 :> {Say("order", i2, 1), Say("cancel", i1, 0), Say("junk", i2, 0),
                    Say("blank", i2, 0)})
=============================================================================
