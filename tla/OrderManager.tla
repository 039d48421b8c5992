---------------------------- MODULE OrderManager ----------------------------
(***************************************************************************)
(* cpp/src/order_manager.cpp: the order table shared by every gateway      *)
(* connection.  Each connection runs in a thread of its own and handles    *)
(* one command at a time; the table is guarded by m_, and a step here is   *)
(* one critical section of m_ or one call of OrderBook::match_order.       *)
(*                                                                         *)
(* The book is seen through what match_order promises its caller: some     *)
(* fill records that add up to at most the order's size.  There always is  *)
(* one: the gateway builds the manager only around a book, so the branch   *)
(* for a null ob_ is left out.                                             *)
(***************************************************************************)
EXTENDS Integers, FiniteSets, Functions

CONSTANTS
    Session,         \* handler threads of the gateway, one per connection
    Clid,            \* client order ids, chosen by the clients
    NoOrder,         \* a handler that is not submitting
    MaxSize,         \* bound: the largest size a client asks for
    max_order_size,  \* RiskPolicy: 0 means no limit
    max_open_orders, \* RiskPolicy: 0 means no limit
    MaxCalls         \* bound: submissions and cancels in one behaviour

ASSUME SessionAssumption == IsFiniteSet(Session)
ASSUME ClidAssumption    == IsFiniteSet(Clid)
ASSUME SizeAssumption    == MaxSize \in Nat
ASSUME PolicyAssumption  == /\ max_order_size \in Nat
                            /\ max_open_orders \in Nat
ASSUME NoOrderAssumption == NoOrder \notin [clid : Clid, size : Nat]

VARIABLES
    orders,         \* orders_: clid -> State, for the clids ever accepted
    open_orders,    \* the gauge of metrics.cpp
    pc,             \* where each handler is inside submit_order
    ord,            \* the order each handler is submitting
    fills,          \* what match_order returned to it
    rejected, accepted, filled_count, filled_volume, canceled,
                    \* the counters of metrics.cpp
    calls,          \* submissions and cancels so far
    submits,        \* submissions so far
    executed,       \* shares of each clid that recorded fills consumed
    withdrawn,      \* shares of each clid that cancels reported
    hollow,         \* clids a cancel succeeded on with nothing remaining
    disturbed       \* clids submitted again, or canceled while being submitted

table   == <<orders, open_orders>>
thread  == <<pc, ord, fills>>
metrics == <<rejected, accepted, filled_count, filled_volume, canceled>>
history == <<calls, submits, executed, withdrawn, hollow, disturbed>>
vars    == <<table, thread, metrics, history>>

Order   == [clid : Clid, size : 0 .. MaxSize]
Status  == {"NEW", "OPEN", "PARTIAL", "FILLED", "CANCELED"}
State   == [original_size : 0 .. MaxSize, remaining : 0 .. MaxSize, status : Status]
Fills   == [count : 0 .. MaxSize, consumed : 0 .. MaxSize]
NoFills == [count |-> 0, consumed |-> 0]

\* open_order_count() and the risk check count these ...
Resting(tbl) == {c \in DOMAIN tbl : tbl[c].status \in {"OPEN", "PARTIAL"}}
\* ... and every update of the gauge counts these
Live(tbl)    == {c \in DOMAIN tbl : tbl[c].status \in {"OPEN", "PARTIAL", "NEW"}}

open_order_count == Cardinality(Resting(orders))

Terminal == {"FILLED", "CANCELED"}

\* handlers that passed the limit check and whose order is not marked yet
InFlight == {s \in Session : pc[s] \in {"checked", "stored", "matched"}}

Init ==
    /\ orders = [c \in {} |-> NoOrder] /\ open_orders = 0
    /\ pc = [s \in Session |-> "idle"]
    /\ ord = [s \in Session |-> NoOrder]
    /\ fills = [s \in Session |-> NoFills]
    /\ rejected = 0 /\ accepted = 0
    /\ filled_count = 0 /\ filled_volume = 0 /\ canceled = 0
    /\ calls = 0 /\ submits = 0
    /\ executed = [c \in Clid |-> 0] /\ withdrawn = [c \in Clid |-> 0]
    /\ hollow = {} /\ disturbed = {}

-----------------------------------------------------------------------------
(* submit_order *)

\* A bug for a mutation run: > where the code has >=.
LimitReachedLate == max_open_orders > 0 /\ open_order_count > max_open_orders

TooLarge(o) == max_order_size > 0 /\ max_order_size < o.size
LimitReached == max_open_orders > 0 /\ open_order_count >= max_open_orders

Begin == /\ calls < MaxCalls
         /\ calls' = calls + 1
         /\ submits' = submits + 1
         /\ UNCHANGED <<executed, withdrawn, hollow, disturbed>>

\* the size checks, then the count of open orders under m_
Reject(s, o) ==
    /\ pc[s] = "idle"
    /\ o.size <= 0 \/ TooLarge(o) \/ LimitReached
    /\ rejected' = rejected + 1
    /\ Begin
    /\ UNCHANGED <<table, thread, accepted, filled_count, filled_volume, canceled>>

Check(s, o) ==
    /\ pc[s] = "idle"
    /\ o.size > 0 /\ ~TooLarge(o) /\ ~LimitReached
    /\ pc' = [pc EXCEPT ![s] = "checked"]
    /\ ord' = [ord EXCEPT ![s] = o]
    /\ Begin
    /\ UNCHANGED <<table, fills, metrics>>

\* back to the connection's loop
Leave(s) == /\ pc' = [pc EXCEPT ![s] = "idle"]
            /\ ord' = [ord EXCEPT ![s] = NoOrder]
            /\ fills' = [fills EXCEPT ![s] = NoFills]

\* A bug for a mutation run: the gauge leaves new orders out, as the check does.
RecountResting == open_orders' = Cardinality(Resting(orders'))

\* the loop over orders_ that ends every critical section which changes it
Recount == open_orders' = Cardinality(Live(orders'))

\* The second critical section: emplace, which leaves an existing entry as it
\* is, and the gauge.  m_ was free between the check and here.
Store(s) ==
    LET c   == ord[s].clid
        new == [original_size |-> ord[s].size,
                remaining     |-> ord[s].size,
                status        |-> "NEW"]
    IN  /\ pc[s] = "checked"
        /\ orders' = [k \in DOMAIN orders \cup {c} |->
                        IF k \in DOMAIN orders THEN orders[k] ELSE new]
        /\ Recount
        /\ pc' = [pc EXCEPT ![s] = "stored"]
        /\ disturbed' = IF c \in DOMAIN orders THEN disturbed \cup {c} ELSE disturbed
        /\ UNCHANGED <<ord, fills, metrics, calls, submits, executed, withdrawn, hollow>>

\* match_order, outside m_
Match(s) ==
    /\ pc[s] = "stored"
    /\ \E f \in Fills :
         /\ f.consumed <= ord[s].size
         /\ f.count <= f.consumed /\ (f.consumed > 0 => f.count > 0)
         /\ fills' = [fills EXCEPT ![s] = f]
    /\ pc' = [pc EXCEPT ![s] = "matched"]
    /\ UNCHANGED <<table, ord, metrics, history>>

\* A bug for a mutation run: = where the code has <=, so an order canceled
\* meanwhile goes below zero.
AfterFillsBelowZero(st, consumed) ==
    IF st.remaining - consumed = 0
    THEN [st EXCEPT !.remaining = 0, !.status = "FILLED"]
    ELSE [st EXCEPT !.remaining = @ - consumed, !.status = "PARTIAL"]

\* The third critical section, in its two forms: the fills are subtracted from
\* what remains, or the order is marked open.
AfterFills(st, consumed) ==
    IF st.remaining - consumed <= 0
    THEN [st EXCEPT !.remaining = 0, !.status = "FILLED"]
    ELSE [st EXCEPT !.remaining = @ - consumed, !.status = "PARTIAL"]

RecordFills(s) ==
    LET c == ord[s].clid
    IN  /\ pc[s] = "matched"
        /\ fills[s].count > 0
        /\ orders' = [orders EXCEPT ![c] = AfterFills(@, fills[s].consumed)]
        /\ Recount
        /\ executed' = [executed EXCEPT ![c] = @ + fills[s].consumed]
        /\ pc' = [pc EXCEPT ![s] = "recorded"]
        /\ UNCHANGED <<ord, fills, metrics, calls, submits, withdrawn, hollow, disturbed>>

\* A bug for a mutation run: what remains is set from the submitted order, as
\* if nothing had happened to the entry since it was stored.
MarkOpenAfresh(s) ==
    LET c == ord[s].clid
    IN  /\ pc[s] = "matched"
        /\ fills[s].count = 0
        /\ orders' = [orders EXCEPT ![c].status = "OPEN", ![c].remaining = ord[s].size]
        /\ Recount
        /\ pc' = [pc EXCEPT ![s] = "recorded"]
        /\ UNCHANGED <<ord, fills, metrics, history>>

MarkOpen(s) ==
    LET c == ord[s].clid
    IN  /\ pc[s] = "matched"
        /\ fills[s].count = 0
        /\ orders' = [orders EXCEPT ![c].status = "OPEN"]
        /\ Recount
        /\ pc' = [pc EXCEPT ![s] = "recorded"]
        /\ UNCHANGED <<ord, fills, metrics, history>>

\* Bugs for mutation runs: an order that rests is not counted as accepted; the
\* fill records are added to the volume instead of their shares.
ReportFilledOnly(s) ==
    /\ filled_count' = filled_count + fills[s].count
    /\ filled_volume' = filled_volume + fills[s].consumed
    /\ accepted' = IF fills[s].count > 0 THEN accepted + 1 ELSE accepted

ReportRecords(s) ==
    /\ filled_count' = filled_count + fills[s].count
    /\ filled_volume' = filled_volume + fills[s].count
    /\ accepted' = accepted + 1

\* the counters, after m_ is released
Report(s) ==
    /\ filled_count' = filled_count + fills[s].count
    /\ filled_volume' = filled_volume + fills[s].consumed
    /\ accepted' = accepted + 1

Return(s) ==
    /\ pc[s] = "recorded"
    /\ Report(s)
    /\ Leave(s)
    /\ UNCHANGED <<table, rejected, canceled, history>>

-----------------------------------------------------------------------------
(* cancel_order: one critical section *)

\* Bugs for mutation runs: an order that is done can be canceled again; the
\* entry keeps what remained.
CancelableOnceKnown(c) == c \in DOMAIN orders

AfterCancelKept(st) == [st EXCEPT !.status = "CANCELED"]

\* An unknown clid, or one already filled or canceled, returns false and
\* changes nothing.
Cancelable(c) == c \in DOMAIN orders /\ orders[c].status \notin Terminal

AfterCancel(st) == [st EXCEPT !.remaining = 0, !.status = "CANCELED"]

Cancel(s, c) ==
    /\ pc[s] = "idle"
    /\ calls < MaxCalls
    /\ Cancelable(c)
    /\ orders' = [orders EXCEPT ![c] = AfterCancel(@)]
    /\ Recount
    /\ canceled' = canceled + 1
    /\ calls' = calls + 1
    /\ withdrawn' = [withdrawn EXCEPT ![c] = @ + orders[c].remaining]
    /\ hollow' = IF orders[c].remaining = 0 THEN hollow \cup {c} ELSE hollow
    /\ disturbed' = IF \E t \in Session : pc[t] \in {"stored", "matched"} /\ ord[t].clid = c
                    THEN disturbed \cup {c} ELSE disturbed
    /\ UNCHANGED <<thread, rejected, accepted, filled_count, filled_volume,
                   submits, executed>>

-----------------------------------------------------------------------------
Handler(s) == \/ \E o \in Order : Reject(s, o)
              \/ \E o \in Order : Check(s, o)
              \/ Store(s)
              \/ Match(s)
              \/ RecordFills(s)
              \/ MarkOpen(s)
              \/ Return(s)
              \/ \E c \in Clid : Cancel(s, c)

Next == \E s \in Session : Handler(s)

Spec == Init /\ [][Next]_vars

-----------------------------------------------------------------------------
(* Properties *)

\* The type invariant of the table, the handlers' locals and the metrics.
TypeOK ==
    /\ DOMAIN orders \subseteq Clid
    /\ orders \in [DOMAIN orders -> State]
    /\ pc \in [Session -> {"idle", "checked", "stored", "matched", "recorded"}]
    /\ ord \in [Session -> Order \cup {NoOrder}]
    /\ fills \in [Session -> Fills]
    /\ open_orders \in Nat
    /\ rejected \in Nat /\ accepted \in Nat
    /\ filled_count \in Nat /\ filled_volume \in Nat /\ canceled \in Nat
    /\ calls \in Nat /\ submits \in Nat
    /\ executed \in [Clid -> Nat] /\ withdrawn \in [Clid -> Nat]
    /\ hollow \subseteq Clid /\ disturbed \subseteq Clid

\* submit_order checks the number of open orders in one critical section and
\* adds to it in a later one, so the limit can be passed, but only by the
\* handlers already past the check: never by more than their number less one.
OvershootBounded ==
    max_open_orders > 0 /\ Session # {} =>
        open_order_count + Cardinality(InFlight)
            <= max_open_orders - 1 + Cardinality(Session)

\* "enforces risk" (order_manager.h): no more orders rest than max_open_orders.
OpenWithinLimit == max_open_orders > 0 => open_order_count <= max_open_orders

\* Whoever last touched the table left the gauge at the number of live orders:
\* no handler publishes a count that another one has made stale.
GaugeExact == open_orders = Cardinality(Live(orders))

\* Every submission ends in exactly one of the two counters, whichever of the
\* returns of submit_order it takes; the ones under way are in neither.
SubmitsCounted ==
    submits = accepted + rejected + Cardinality({s \in Session : pc[s] # "idle"})

\* The counter of filled volume lags the table only by the handlers that have
\* recorded their fills and not yet reported them.
VolumeReported ==
    filled_volume + SumFunctionOnSet([s \in Session |-> fills[s].consumed],
                                     {s \in Session : pc[s] = "recorded"})
        = SumFunction(executed)

\* The shares of an order are executed, withdrawn by a cancel or remaining,
\* and its status says which, as long as its id is used once and nobody
\* cancels it before its submission has been marked.
SharesAccounted ==
    \A c \in DOMAIN orders \ disturbed :
        LET st == orders[c]
        IN  /\ st.original_size = st.remaining + executed[c] + withdrawn[c]
            /\ st.status \in {"NEW", "OPEN"} => st.remaining = st.original_size
            /\ st.status = "PARTIAL" => /\ st.remaining \in 1 .. st.original_size - 1
                                        /\ withdrawn[c] = 0
            /\ st.status = "FILLED" => executed[c] = st.original_size
            /\ st.status = "CANCELED" => withdrawn[c] > 0 /\ st.remaining = 0

\* Without that discipline, too, no share is withdrawn twice and none vanishes:
\* a cancel during the matching, whose mark is overwritten, and a second order
\* under a known id, whose fills go to the first one's entry, can make the
\* executions exceed the order, but never the cancels.
NoShareLost ==
    \A c \in DOMAIN orders :
        LET st == orders[c]
        IN  /\ st.remaining + withdrawn[c] <= st.original_size
            /\ st.original_size <= st.remaining + executed[c] + withdrawn[c]

\* As long as its id is undisturbed, a filled or canceled order never changes
\* again, whatever the other handlers do.
TerminalIsFinal ==
    [][\A c \in DOMAIN orders \ disturbed' :
          orders[c].status \in Terminal => orders'[c] = orders[c]]_vars

\* "returns true if cancel succeeded ( remaining > 0)" (order_manager.h): a
\* cancel that reports success withdrew something.
NoHollowCancel == hollow = {}
=============================================================================
