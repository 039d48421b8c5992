------------------------- MODULE OrderManagerProofs -------------------------
(***************************************************************************)
(* The order table for any number of connections, ids, sizes and any       *)
(* limit.                                                                  *)
(*                                                                         *)
(* The argument about the limit: a handler past the check counts against   *)
(* the limit as if its order already rested.  Passing the check needs a    *)
(* free place among the orders that rest, and there are at most as many    *)
(* handlers past the check as there are handlers; marking an order moves   *)
(* one unit from the second count to the first.                            *)
(***************************************************************************)
EXTENDS OrderManager, Sums, FiniteSetTheorems, TLAPS

\* What a handler knows about its own order at each point of submit_order, as
\* long as no other handler has touched the same id.
HandlerInv ==
    /\ \A s \in Session : pc[s] # "idle" => ord[s] \in Order /\ ord[s].size > 0
    /\ \A s \in Session : pc[s] \in {"stored", "matched"} =>
         LET c == ord[s].clid
         IN  /\ c \in DOMAIN orders
             /\ c \notin disturbed => /\ orders[c].status = "NEW"
                                      /\ orders[c].original_size = ord[s].size
    /\ \A s \in Session : pc[s] = "matched" =>
         /\ fills[s].consumed <= ord[s].size
         /\ fills[s].count > 0 <=> fills[s].consumed > 0
    /\ \A s, t \in Session :
         /\ s # t
         /\ pc[s] \in {"stored", "matched"} /\ pc[t] \in {"stored", "matched"}
         /\ ord[s].clid = ord[t].clid
         => ord[s].clid \in disturbed

\* An id never accepted has no shares executed or withdrawn, and no accepted
\* order was for nothing.
FreshInv ==
    /\ \A c \in Clid \ DOMAIN orders : executed[c] = 0 /\ withdrawn[c] = 0
    /\ \A c \in DOMAIN orders : orders[c].original_size > 0

IInv == TypeOK /\ HandlerInv /\ FreshInv /\ SharesAccounted

-----------------------------------------------------------------------------
(* Facts about the table *)

\* The sets the code counts are finite, so the counts are numbers.
LEMMA LiveIsFinite ==
    ASSUME NEW tbl, DOMAIN tbl \subseteq Clid
    PROVE  /\ IsFiniteSet(Live(tbl)) /\ Cardinality(Live(tbl)) \in Nat
           /\ IsFiniteSet(Resting(tbl)) /\ Cardinality(Resting(tbl)) \in Nat
<1>1. Live(tbl) \subseteq Clid /\ Resting(tbl) \subseteq Clid
  BY DEF Live, Resting
<1> QED
  BY <1>1, ClidAssumption, FS_Subset, FS_CardinalityType

\* What recording fills does to one entry.
LEMMA AfterFillsState ==
    ASSUME NEW st \in State, NEW n \in 0 .. MaxSize
    PROVE  /\ AfterFills(st, n) \in State
           /\ AfterFills(st, n).original_size = st.original_size
           /\ AfterFills(st, n).status \in {"FILLED", "PARTIAL"}
           /\ AfterFills(st, n).status = "FILLED" => AfterFills(st, n).remaining = 0
           /\ n <= st.remaining => AfterFills(st, n).remaining = st.remaining - n
           /\ AfterFills(st, n).status = "PARTIAL" =>
                 AfterFills(st, n).remaining \in 1 .. st.remaining
<1> DEFINE new == AfterFills(st, n)
<1>1. /\ st.original_size \in 0 .. MaxSize /\ st.remaining \in 0 .. MaxSize
      /\ n \in Int /\ MaxSize \in Nat
  BY SizeAssumption DEF State
<1>2. CASE st.remaining - n <= 0
  <2>1. new = [st EXCEPT !.remaining = 0, !.status = "FILLED"]
    BY <1>2 DEF AfterFills
  <2>2. 0 \in 0 .. MaxSize
    BY <1>1
  <2>3. /\ new.original_size = st.original_size
        /\ new.remaining = 0
        /\ new.status = "FILLED" /\ new \in State
    BY <1>1, <2>1, <2>2 DEF State, Status
  <2>4. n <= st.remaining => st.remaining - n = 0
    BY <1>1, <1>2
  <2> QED
    BY <2>3, <2>4
<1>3. CASE ~(st.remaining - n <= 0)
  <2>1. new = [st EXCEPT !.remaining = st.remaining - n, !.status = "PARTIAL"]
    BY <1>3 DEF AfterFills
  <2>2. st.remaining - n \in 1 .. st.remaining /\ st.remaining - n \in 0 .. MaxSize
    BY <1>1, <1>3
  <2>3. /\ new.original_size = st.original_size
        /\ new.remaining = st.remaining - n
        /\ new.status = "PARTIAL" /\ new \in State
    BY <1>1, <2>1, <2>2 DEF State, Status
  <2> QED
    BY <2>2, <2>3
<1> QED
  BY <1>2, <1>3

\* What a cancel does to one entry.
LEMMA AfterCancelState ==
    ASSUME NEW st \in State
    PROVE  /\ AfterCancel(st) \in State
           /\ AfterCancel(st).original_size = st.original_size
           /\ AfterCancel(st).remaining = 0
           /\ AfterCancel(st).status = "CANCELED"
<1>1. 0 \in 0 .. MaxSize
  BY SizeAssumption
<1> QED
  BY <1>1 DEF State, Status, AfterCancel

LEMMA InitIInv == Init => IInv
<1> SUFFICES ASSUME Init PROVE IInv
  OBVIOUS
<1>1. DOMAIN orders = {}
  BY DEF Init
<1>2. TypeOK
  BY <1>1, SizeAssumption DEF Init, TypeOK, Fills, NoFills
<1>3. HandlerInv /\ FreshInv /\ SharesAccounted
  BY <1>1 DEF Init, HandlerInv, FreshInv, SharesAccounted
<1> QED
  BY <1>2, <1>3 DEF IInv

-----------------------------------------------------------------------------
(* Type correctness of one step *)

LEMMA TypeStep ==
    ASSUME IInv, [Next]_vars PROVE TypeOK'
<1> USE DEF IInv
<1>1. ASSUME NEW s \in Session, NEW o \in Order, Reject(s, o) PROVE TypeOK'
  BY <1>1 DEF Reject, Begin, TypeOK, table, thread
<1>2. ASSUME NEW s \in Session, NEW o \in Order, Check(s, o) PROVE TypeOK'
  BY <1>2 DEF Check, Begin, TypeOK, table, metrics
<1>3. ASSUME NEW s \in Session, Store(s) PROVE TypeOK'
  <2> DEFINE c == ord[s].clid
             new == [original_size |-> ord[s].size,
                     remaining     |-> ord[s].size,
                     status        |-> "NEW"]
  <2>1. ord[s] \in Order
    BY <1>3 DEF Store, HandlerInv
  <2>2. c \in Clid /\ new \in State
    BY <2>1 DEF Order, State, Status
  <2>3. orders' = [k \in DOMAIN orders \cup {c} |->
                     IF k \in DOMAIN orders THEN orders[k] ELSE new]
    BY <1>3 DEF Store
  <2>4. /\ DOMAIN orders' \subseteq Clid
        /\ orders' \in [DOMAIN orders' -> State]
    <3> HIDE DEF new, c
    <3> QED
      BY <2>2, <2>3 DEF TypeOK
  <2>5. open_orders' \in Nat
    BY <1>3, <2>4, LiveIsFinite DEF Store, Recount
  <2>6. disturbed' \subseteq Clid
    BY <1>3, <2>2 DEF Store, TypeOK
  <2>7. pc' \in [Session -> {"idle", "checked", "stored", "matched", "recorded"}]
    BY <1>3 DEF Store, TypeOK
  <2>8. UNCHANGED <<ord, fills, metrics, calls, submits, executed, withdrawn, hollow>>
    BY <1>3 DEF Store
  <2> QED
    BY <2>4, <2>5, <2>6, <2>7, <2>8 DEF TypeOK, metrics
<1>4. ASSUME NEW s \in Session, Match(s) PROVE TypeOK'
  BY <1>4 DEF Match, TypeOK, table, metrics, history
<1>5. ASSUME NEW s \in Session, RecordFills(s) PROVE TypeOK'
  <2> DEFINE c == ord[s].clid
             st == AfterFills(orders[c], fills[s].consumed)
  <2>1. /\ pc[s] = "matched" /\ c \in DOMAIN orders /\ c \in Clid
        /\ fills[s].consumed \in 0 .. MaxSize /\ orders[c] \in State
    BY <1>5 DEF RecordFills, HandlerInv, TypeOK, Fills
  <2>2. st \in State
    BY <2>1, AfterFillsState
  <2>3. orders' = [orders EXCEPT ![c] = st]
    BY <1>5 DEF RecordFills
  <2>4. DOMAIN orders' \subseteq Clid /\ orders' \in [DOMAIN orders' -> State]
    <3> HIDE DEF st, c
    <3> QED
      BY <2>1, <2>2, <2>3 DEF TypeOK
  <2>5. open_orders' \in Nat
    BY <1>5, <2>4, LiveIsFinite DEF RecordFills, Recount
  <2>6. executed' \in [Clid -> Nat]
    BY <1>5, <2>1, SizeAssumption DEF RecordFills, TypeOK
  <2>7. pc' \in [Session -> {"idle", "checked", "stored", "matched", "recorded"}]
    BY <1>5 DEF RecordFills, TypeOK
  <2> QED
    BY <1>5, <2>4, <2>5, <2>6, <2>7 DEF RecordFills, TypeOK, metrics
<1>6. ASSUME NEW s \in Session, MarkOpen(s) PROVE TypeOK'
  <2> DEFINE c == ord[s].clid
  <2>1. c \in DOMAIN orders /\ c \in Clid /\ orders[c] \in State
    BY <1>6 DEF MarkOpen, HandlerInv, TypeOK
  <2>2. DOMAIN orders' \subseteq Clid /\ orders' \in [DOMAIN orders' -> State]
    BY <1>6, <2>1 DEF MarkOpen, TypeOK, State, Status
  <2>3. open_orders' \in Nat
    BY <1>6, <2>2, LiveIsFinite DEF MarkOpen, Recount
  <2> QED
    BY <1>6, <2>2, <2>3 DEF MarkOpen, TypeOK, metrics, history
<1>7. ASSUME NEW s \in Session, Return(s) PROVE TypeOK'
  <2>1. NoFills \in Fills
    BY SizeAssumption DEF NoFills, Fills
  <2>2. fills[s].count \in Nat /\ fills[s].consumed \in Nat
    BY SizeAssumption DEF TypeOK, Fills
  <2> QED
    BY <1>7, <2>1, <2>2 DEF Return, Leave, TypeOK, table, history, Report
<1>8. ASSUME NEW s \in Session, NEW c \in Clid, Cancel(s, c) PROVE TypeOK'
  <2>1. c \in DOMAIN orders /\ orders[c] \in State /\ orders[c].remaining \in Nat
    BY <1>8, SizeAssumption DEF Cancel, TypeOK, State, Cancelable
  <2>2. DOMAIN orders' \subseteq Clid /\ orders' \in [DOMAIN orders' -> State]
    <3>1. AfterCancel(orders[c]) \in State
      BY <2>1, AfterCancelState
    <3>2. orders' = [orders EXCEPT ![c] = AfterCancel(@)]
      BY <1>8 DEF Cancel
    <3> QED
      BY <2>1, <3>1, <3>2 DEF TypeOK
  <2>3. open_orders' \in Nat
    BY <1>8, <2>2, LiveIsFinite DEF Cancel, Recount
  <2>4. withdrawn' \in [Clid -> Nat]
    BY <1>8, <2>1 DEF Cancel, TypeOK
  <2>5. hollow' \subseteq Clid /\ disturbed' \subseteq Clid
    BY <1>8 DEF Cancel, TypeOK
  <2> QED
    BY <1>8, <2>2, <2>3, <2>4, <2>5 DEF Cancel, TypeOK, thread
<1>9. CASE UNCHANGED vars
  BY <1>9 DEF vars, table, thread, metrics, history, TypeOK
<1> QED
  BY <1>1, <1>2, <1>3, <1>4, <1>5, <1>6, <1>7, <1>8, <1>9 DEF Next, Handler

-----------------------------------------------------------------------------
(* What each step does to the entries, to the ids that count as disturbed and *)
(* to the accounts                                                            *)

\* The first and third conjuncts of HandlerInv are local to a handler, the
\* second and fourth depend on what the others do to the same id.
LEMMA HandlerStep ==
    ASSUME IInv, [Next]_vars PROVE HandlerInv'
<1> USE DEF IInv
<1>1. ASSUME NEW s \in Session, NEW o \in Order, Reject(s, o) PROVE HandlerInv'
  BY <1>1 DEF Reject, Begin, HandlerInv, table, thread
<1>2. ASSUME NEW s \in Session, NEW o \in Order, Check(s, o) PROVE HandlerInv'
  BY <1>2 DEF Check, Begin, HandlerInv, TypeOK, table, metrics
<1>3. ASSUME NEW s \in Session, Store(s) PROVE HandlerInv'
  <2> DEFINE c == ord[s].clid
             new == [original_size |-> ord[s].size,
                     remaining     |-> ord[s].size,
                     status        |-> "NEW"]
  <2>1. /\ pc[s] = "checked" /\ pc' = [pc EXCEPT ![s] = "stored"]
        /\ UNCHANGED <<ord, fills>>
        /\ orders' = [k \in DOMAIN orders \cup {c} |->
                        IF k \in DOMAIN orders THEN orders[k] ELSE new]
        /\ disturbed' = IF c \in DOMAIN orders THEN disturbed \cup {c} ELSE disturbed
    BY <1>3 DEF Store
  <2>2. new.status = "NEW" /\ new.original_size = ord[s].size
    OBVIOUS
  <2> HIDE DEF new
  <2>3. ASSUME NEW t \in Session, pc'[t] \in {"stored", "matched"}
        PROVE  LET d == ord'[t].clid
               IN  /\ d \in DOMAIN orders'
                   /\ d \notin disturbed' => /\ orders'[d].status = "NEW"
                                             /\ orders'[d].original_size = ord'[t].size
    <3>1. CASE t = s
      BY <2>1, <2>2, <3>1 DEF HandlerInv, TypeOK
    <3>2. CASE t # s
      BY <2>1, <2>3, <3>2 DEF HandlerInv, TypeOK
    <3> QED
      BY <3>1, <3>2
  <2>4. ASSUME NEW t \in Session, NEW u \in Session, t # u,
               pc'[t] \in {"stored", "matched"}, pc'[u] \in {"stored", "matched"},
               ord'[t].clid = ord'[u].clid
        PROVE  ord'[t].clid \in disturbed'
    <3>1. CASE t = s \/ u = s
      <4>1. c \in DOMAIN orders
        BY <2>1, <2>4, <3>1 DEF HandlerInv, TypeOK
      <4> QED
        BY <2>1, <2>4, <3>1, <4>1
    <3>2. CASE t # s /\ u # s
      BY <2>1, <2>4, <3>2 DEF HandlerInv, TypeOK
    <3> QED
      BY <3>1, <3>2
  <2>5. /\ \A t \in Session : pc'[t] # "idle" => ord'[t] \in Order /\ ord'[t].size > 0
        /\ \A t \in Session : pc'[t] = "matched" =>
              /\ fills'[t].consumed <= ord'[t].size
              /\ fills'[t].count > 0 <=> fills'[t].consumed > 0
    BY <2>1 DEF HandlerInv, TypeOK
  <2> QED
    BY <2>3, <2>4, <2>5 DEF HandlerInv
<1>4. ASSUME NEW s \in Session, Match(s) PROVE HandlerInv'
  <2>1. PICK f \in Fills : /\ f.consumed <= ord[s].size
                           /\ f.count <= f.consumed /\ (f.consumed > 0 => f.count > 0)
                           /\ fills' = [fills EXCEPT ![s] = f]
    BY <1>4 DEF Match
  <2>2. f.count \in Nat /\ f.consumed \in Nat /\ (f.count > 0 <=> f.consumed > 0)
    BY <2>1, SizeAssumption DEF Fills
  <2> QED
    BY <1>4, <2>1, <2>2 DEF Match, HandlerInv, TypeOK, table, history
<1>5. ASSUME NEW s \in Session, RecordFills(s) PROVE HandlerInv'
  <2> DEFINE c == ord[s].clid
             st == AfterFills(orders[c], fills[s].consumed)
  <2>1. /\ pc[s] = "matched" /\ pc' = [pc EXCEPT ![s] = "recorded"]
        /\ UNCHANGED <<ord, fills, disturbed>>
        /\ orders' = [orders EXCEPT ![c] = st]
        /\ DOMAIN orders' = DOMAIN orders
    BY <1>5 DEF RecordFills
  <2> HIDE DEF st
  <2> QED
    BY <2>1 DEF HandlerInv, TypeOK
<1>6. ASSUME NEW s \in Session, MarkOpen(s) PROVE HandlerInv'
  <2> DEFINE c == ord[s].clid
             st == [orders[c] EXCEPT !.status = "OPEN"]
  <2>1. /\ pc[s] = "matched" /\ pc' = [pc EXCEPT ![s] = "recorded"]
        /\ UNCHANGED <<ord, fills, disturbed>>
        /\ orders' = [orders EXCEPT ![c] = st]
        /\ DOMAIN orders' = DOMAIN orders
    BY <1>6 DEF MarkOpen, history
  <2> HIDE DEF st
  <2> QED
    BY <2>1 DEF HandlerInv, TypeOK
<1>7. ASSUME NEW s \in Session, Return(s) PROVE HandlerInv'
  BY <1>7 DEF Return, Leave, HandlerInv, TypeOK, table, history
<1>8. ASSUME NEW s \in Session, NEW c \in Clid, Cancel(s, c) PROVE HandlerInv'
  <2> DEFINE st == [orders[c] EXCEPT !.remaining = 0, !.status = "CANCELED"]
  <2>1. /\ UNCHANGED <<pc, ord, fills>>
        /\ orders' = [orders EXCEPT ![c] = st]
        /\ DOMAIN orders' = DOMAIN orders
        /\ disturbed \subseteq disturbed'
        /\ \A t \in Session : pc[t] \in {"stored", "matched"} /\ ord[t].clid = c
                                => c \in disturbed'
    BY <1>8 DEF Cancel, thread, Cancelable, AfterCancel
  <2> HIDE DEF st
  <2> QED
    BY <2>1 DEF HandlerInv, TypeOK
<1>9. CASE UNCHANGED vars
  BY <1>9 DEF vars, table, thread, metrics, history, HandlerInv
<1> QED
  BY <1>1, <1>2, <1>3, <1>4, <1>5, <1>6, <1>7, <1>8, <1>9 DEF Next, Handler

\* The accounts of an undisturbed id: what RecordFills adds to executed, or
\* Cancel to withdrawn, is what it takes from remaining.
LEMMA SharesStep ==
    ASSUME IInv, [Next]_vars PROVE SharesAccounted' /\ FreshInv'
<1> USE DEF IInv
<1>1. ASSUME NEW s \in Session, NEW o \in Order, Reject(s, o) \/ Check(s, o)
      PROVE  SharesAccounted' /\ FreshInv'
  BY <1>1 DEF Reject, Check, Begin, SharesAccounted, FreshInv, table
<1>3. ASSUME NEW s \in Session, Store(s) PROVE SharesAccounted' /\ FreshInv'
  <2> DEFINE c == ord[s].clid
             new == [original_size |-> ord[s].size,
                     remaining     |-> ord[s].size,
                     status        |-> "NEW"]
  <2>1. /\ UNCHANGED <<executed, withdrawn>>
        /\ orders' = [k \in DOMAIN orders \cup {c} |->
                        IF k \in DOMAIN orders THEN orders[k] ELSE new]
        /\ disturbed' = IF c \in DOMAIN orders THEN disturbed \cup {c} ELSE disturbed
        /\ ord[s] \in Order
    BY <1>3 DEF Store, HandlerInv
  <2>2. /\ new.status = "NEW" /\ new.original_size = ord[s].size
        /\ new.remaining = ord[s].size /\ ord[s].size \in Nat /\ c \in Clid
        /\ ord[s].size > 0
    BY <1>3, <2>1, SizeAssumption DEF Order, Store, HandlerInv
  <2> HIDE DEF new
  <2>3. FreshInv'
    BY <2>1, <2>2 DEF FreshInv
  <2>4. SharesAccounted'
    <3> SUFFICES ASSUME NEW k \in DOMAIN orders' \ disturbed'
                 PROVE  LET st == orders'[k]
                        IN  /\ st.original_size = st.remaining + executed[k] + withdrawn[k]
                            /\ st.status \in {"NEW", "OPEN"} => st.remaining = st.original_size
                            /\ st.status = "PARTIAL" =>
                                  /\ st.remaining \in 1 .. st.original_size - 1
                                  /\ withdrawn[k] = 0
                            /\ st.status = "FILLED" => executed[k] = st.original_size
                            /\ st.status = "CANCELED" => withdrawn[k] > 0 /\ st.remaining = 0
      BY <2>1 DEF SharesAccounted
    <3>1. CASE k \in DOMAIN orders
      BY <2>1, <3>1 DEF SharesAccounted
    <3>2. CASE k \notin DOMAIN orders
      <4>1. k = c /\ orders'[k] = new /\ executed[k] = 0 /\ withdrawn[k] = 0
        BY <2>1, <2>2, <3>2 DEF FreshInv
      <4> QED
        BY <2>2, <4>1
    <3> QED
      BY <3>1, <3>2
  <2> QED
    BY <2>3, <2>4
<1>4. ASSUME NEW s \in Session, Match(s) PROVE SharesAccounted' /\ FreshInv'
  BY <1>4 DEF Match, SharesAccounted, FreshInv, table, history
<1>5. ASSUME NEW s \in Session, RecordFills(s) PROVE SharesAccounted' /\ FreshInv'
  <2> DEFINE c == ord[s].clid
             n == fills[s].consumed
             st == AfterFills(orders[c], n)
  <2>1. /\ pc[s] = "matched" /\ c \in DOMAIN orders /\ c \in Clid
        /\ n \in 0 .. MaxSize /\ n <= ord[s].size /\ n > 0
        /\ orders[c] \in State /\ ord[s].size \in Nat
        /\ c \notin disturbed => /\ orders[c].status = "NEW"
                                 /\ orders[c].original_size = ord[s].size
    BY <1>5, SizeAssumption DEF RecordFills, HandlerInv, TypeOK, Fills, Order
  <2>2. /\ orders' = [orders EXCEPT ![c] = st]
        /\ executed' = [executed EXCEPT ![c] = @ + n]
        /\ UNCHANGED <<withdrawn, disturbed>>
    BY <1>5 DEF RecordFills
  <2>3. FreshInv'
    <3>1. st.original_size = orders[c].original_size
      BY <2>1, AfterFillsState
    <3> QED
      BY <2>1, <2>2, <3>1 DEF FreshInv, TypeOK
  <2>4. ASSUME NEW k \in DOMAIN orders' \ disturbed', k # c
        PROVE  orders'[k] = orders[k] /\ executed'[k] = executed[k] /\ k \in DOMAIN orders
    BY <2>2, <2>4 DEF TypeOK
  <2>5. ASSUME c \notin disturbed
        PROVE  /\ st.original_size = st.remaining + executed'[c] + withdrawn[c]
               /\ st.status \notin {"NEW", "OPEN", "CANCELED"}
               /\ st.status = "PARTIAL" =>
                     st.remaining \in 1 .. st.original_size - 1 /\ withdrawn[c] = 0
               /\ st.status = "FILLED" => executed'[c] = st.original_size
    <3>1. /\ orders[c].remaining = orders[c].original_size
          /\ orders[c].original_size = ord[s].size
          /\ executed[c] = 0 /\ withdrawn[c] = 0
      <4>1. /\ orders[c].remaining = orders[c].original_size
            /\ orders[c].original_size = ord[s].size
            /\ orders[c].original_size = orders[c].remaining + executed[c] + withdrawn[c]
        BY <2>1, <2>5, <2>2 DEF SharesAccounted
      <4>2. executed[c] \in Nat /\ withdrawn[c] \in Nat /\ ord[s].size \in Nat
        BY <2>1 DEF TypeOK
      <4> QED
        BY <4>1, <4>2
    <3>2. executed'[c] = n
      BY <2>1, <2>2, <3>1 DEF TypeOK
    <3>3. /\ st.original_size = ord[s].size /\ st.remaining = ord[s].size - n
          /\ st.status \in {"FILLED", "PARTIAL"}
          /\ st.status = "FILLED" => st.remaining = 0
          /\ st.status = "PARTIAL" => st.remaining \in 1 .. ord[s].size
      BY <2>1, <3>1, AfterFillsState
    <3> QED
      BY <2>1, <3>1, <3>2, <3>3
  <2>6. c \in DOMAIN orders' /\ orders'[c] = st
    BY <2>1, <2>2
  <2> HIDE DEF c, st, n
  <2>7. SharesAccounted'
    BY <2>2, <2>4, <2>5, <2>6 DEF SharesAccounted
  <2> QED
    BY <2>3, <2>7
<1>6. ASSUME NEW s \in Session, MarkOpen(s) PROVE SharesAccounted' /\ FreshInv'
  <2> DEFINE c == ord[s].clid
  <2>1. /\ pc[s] = "matched" /\ c \in DOMAIN orders /\ orders[c] \in State
        /\ c \notin disturbed => orders[c].status = "NEW"
    BY <1>6 DEF MarkOpen, HandlerInv, TypeOK
  <2>2. /\ DOMAIN orders' = DOMAIN orders
        /\ \A k \in DOMAIN orders : k # c => orders'[k] = orders[k]
        /\ orders'[c].status = "OPEN"
        /\ orders'[c].remaining = orders[c].remaining
        /\ orders'[c].original_size = orders[c].original_size
        /\ UNCHANGED <<executed, withdrawn, disturbed>>
    BY <1>6, <2>1 DEF MarkOpen, history, State, TypeOK
  <2> QED
    BY <2>1, <2>2 DEF SharesAccounted, FreshInv
<1>7. ASSUME NEW s \in Session, Return(s) PROVE SharesAccounted' /\ FreshInv'
  BY <1>7 DEF Return, SharesAccounted, FreshInv, table, history
<1>8. ASSUME NEW s \in Session, NEW c \in Clid, Cancel(s, c)
      PROVE  SharesAccounted' /\ FreshInv'
  <2>1. /\ c \in DOMAIN orders /\ orders[c] \in State /\ orders[c].remaining \in Nat
        /\ orders[c].status \in {"NEW", "OPEN", "PARTIAL"}
    BY <1>8, SizeAssumption DEF Cancel, TypeOK, State, Status, Terminal, Cancelable
  <2>2. /\ DOMAIN orders' = DOMAIN orders
        /\ \A k \in DOMAIN orders : k # c => orders'[k] = orders[k]
        /\ orders'[c].status = "CANCELED"
        /\ orders'[c].remaining = 0
        /\ orders'[c].original_size = orders[c].original_size
    BY <1>8, <2>1 DEF Cancel, State, TypeOK, Cancelable, AfterCancel
  <2>3. /\ UNCHANGED executed /\ disturbed \subseteq disturbed'
        /\ withdrawn' = [withdrawn EXCEPT ![c] = @ + orders[c].remaining]
    BY <1>8 DEF Cancel
  <2>4. FreshInv'
    BY <2>1, <2>2, <2>3 DEF FreshInv, TypeOK
  <2>5. ASSUME c \notin disturbed'
        PROVE  /\ orders'[c].original_size
                    = orders'[c].remaining + executed'[c] + withdrawn'[c]
               /\ withdrawn'[c] > 0
    <3>1. /\ orders[c].original_size = orders[c].remaining + executed[c] + withdrawn[c]
          /\ orders[c].status \in {"NEW", "OPEN"} =>
                orders[c].remaining = orders[c].original_size
          /\ orders[c].status = "PARTIAL" => orders[c].remaining >= 1
      BY <2>1, <2>3, <2>5 DEF SharesAccounted
    <3>2. executed[c] \in Nat /\ withdrawn[c] \in Nat
      BY DEF TypeOK
    <3>3. withdrawn'[c] = withdrawn[c] + orders[c].remaining
      BY <2>3 DEF TypeOK
    <3>4. orders[c].remaining > 0
      <4>1. orders[c].original_size > 0 /\ orders[c].remaining \in Nat
        BY <2>1 DEF FreshInv
      <4> QED
        BY <2>1, <3>1, <4>1
    <3> QED
      BY <2>1, <2>2, <2>3, <3>1, <3>2, <3>3, <3>4
  <2>6. ASSUME NEW k \in DOMAIN orders' \ disturbed', k # c
        PROVE  /\ orders'[k] = orders[k] /\ executed'[k] = executed[k]
               /\ withdrawn'[k] = withdrawn[k] /\ k \in DOMAIN orders \ disturbed
    BY <2>2, <2>3, <2>6 DEF TypeOK
  <2>7. SharesAccounted'
    BY <2>2, <2>5, <2>6 DEF SharesAccounted
  <2> QED
    BY <2>4, <2>7
<1>9. CASE UNCHANGED vars
  BY <1>9 DEF vars, table, history, SharesAccounted, FreshInv
<1> QED
  BY <1>1, <1>3, <1>4, <1>5, <1>6, <1>7, <1>8, <1>9 DEF Next, Handler

LEMMA IInvHolds == Spec => []IInv
<1>1. IInv /\ [Next]_vars => IInv'
  BY TypeStep, HandlerStep, SharesStep DEF IInv
<1> QED
  BY <1>1, InitIInv, PTL DEF Spec

-----------------------------------------------------------------------------
(* Theorems *)

\* The type invariant of order_manager.cpp, for any sessions, ids and limits:
\* in particular what remains of an order never goes negative or grows.
THEOREM TypeCorrect == Spec => []TypeOK
<1>1. IInv => TypeOK
  BY DEF IInv
<1> QED
  BY <1>1, IInvHolds, PTL

\* Every share of an undisturbed order is executed, withdrawn or remaining, and
\* the status of the order says which.
THEOREM SharesAlwaysAccounted == Spec => []SharesAccounted
<1>1. IInv => SharesAccounted
  BY DEF IInv
<1> QED
  BY <1>1, IInvHolds, PTL

\* A filled or canceled order that no client disturbs never changes again.
THEOREM TerminalForever == Spec => TerminalIsFinal
<1>1. ASSUME IInv, [Next]_vars,
             NEW c \in DOMAIN orders \ disturbed', orders[c].status \in Terminal
      PROVE  orders'[c] = orders[c]
  <2> USE DEF IInv
  <2>1. ASSUME NEW s \in Session, NEW o \in Order, Reject(s, o) \/ Check(s, o)
        PROVE  orders'[c] = orders[c]
    BY <2>1 DEF Reject, Check, table
  <2>2. ASSUME NEW s \in Session, Store(s) PROVE orders'[c] = orders[c]
    BY <1>1, <2>2 DEF Store
  <2>3. ASSUME NEW s \in Session, Match(s) \/ Return(s) PROVE orders'[c] = orders[c]
    BY <2>3 DEF Match, Return, table
  <2>4. ASSUME NEW s \in Session, RecordFills(s) \/ MarkOpen(s)
        PROVE  orders'[c] = orders[c]
    <3>1. pc[s] = "matched" /\ disturbed' = disturbed
      BY <2>4 DEF RecordFills, MarkOpen, history
    <3>2. c # ord[s].clid
      BY <1>1, <3>1 DEF HandlerInv, Terminal
    <3> QED
      BY <1>1, <2>4, <3>2 DEF RecordFills, MarkOpen, TypeOK
  <2>5. ASSUME NEW s \in Session, NEW d \in Clid, Cancel(s, d)
        PROVE  orders'[c] = orders[c]
    BY <1>1, <2>5 DEF Cancel, TypeOK, Cancelable, AfterCancel
  <2>6. CASE UNCHANGED vars
    BY <2>6 DEF vars, table
  <2> QED
    BY <1>1, <2>1, <2>2, <2>3, <2>4, <2>5, <2>6 DEF Next, Handler
<1>2. IInv /\ [Next]_vars =>
        [\A c \in DOMAIN orders \ disturbed' :
            orders[c].status \in Terminal => orders'[c] = orders[c]]_vars
  BY <1>1
<1> QED
  BY <1>2, IInvHolds, PTL DEF Spec, TerminalIsFinal

\* The gauge of live orders agrees with the table whenever anybody can look.
THEOREM GaugeAlwaysExact == Spec => []GaugeExact
<1>1. Init => GaugeExact
  <2> SUFFICES ASSUME Init PROVE GaugeExact
    OBVIOUS
  <2>1. Live(orders) = {}
    BY DEF Init, Live
  <2> QED
    BY <2>1, FS_EmptySet DEF Init, GaugeExact
<1>2. GaugeExact /\ [Next]_vars => GaugeExact'
  <2> SUFFICES ASSUME GaugeExact, [Next]_vars PROVE GaugeExact'
    OBVIOUS
  <2>1. ASSUME NEW s \in Session, NEW o \in Order, Reject(s, o) \/ Check(s, o)
        PROVE  GaugeExact'
    BY <2>1 DEF Reject, Check, GaugeExact, Live, table
  <2>2. ASSUME NEW s \in Session, Store(s) \/ RecordFills(s) \/ MarkOpen(s)
        PROVE  GaugeExact'
    BY <2>2 DEF Store, RecordFills, MarkOpen, GaugeExact, Recount
  <2>3. ASSUME NEW s \in Session, Match(s) \/ Return(s) PROVE GaugeExact'
    BY <2>3 DEF Match, Return, GaugeExact, Live, table
  <2>4. ASSUME NEW s \in Session, NEW c \in Clid, Cancel(s, c) PROVE GaugeExact'
    BY <2>4 DEF Cancel, GaugeExact, Recount
  <2>5. CASE UNCHANGED vars
    BY <2>5 DEF vars, table, GaugeExact, Live
  <2> QED
    BY <2>1, <2>2, <2>3, <2>4, <2>5 DEF Next, Handler
<1> QED
  BY <1>1, <1>2, PTL DEF Spec

-----------------------------------------------------------------------------
(* Every id, disturbed or not *)

\* What NoShareLost says of one id.
NoneLost(c) ==
    /\ orders[c].remaining + withdrawn[c] <= orders[c].original_size
    /\ orders[c].original_size <= orders[c].remaining + executed[c] + withdrawn[c]

\* Recording fills on an entry keeps it: what the entry loses is executed.
LEMMA RecordedNotLost ==
    ASSUME NEW st \in State, NEW n \in 0 .. MaxSize, NEW e \in Nat, NEW w \in Nat,
           st.remaining + w <= st.original_size,
           st.original_size <= st.remaining + e + w
    PROVE  /\ AfterFills(st, n).remaining + w <= st.original_size
           /\ st.original_size <= AfterFills(st, n).remaining + (e + n) + w
<1>1. /\ st.original_size \in Nat /\ st.remaining \in Nat /\ n \in Nat
  BY SizeAssumption DEF State
<1>2. AfterFills(st, n).remaining = IF st.remaining - n <= 0 THEN 0 ELSE st.remaining - n
  BY DEF AfterFills, State
<1> QED
  BY <1>1, <1>2

\* However ids are reused and whenever a cancel comes, no share of an order is
\* withdrawn twice and none vanishes.
THEOREM SharesNeverLost == Spec => []NoShareLost
<1>1. Init => NoShareLost
  BY DEF Init, NoShareLost
<1>2. ASSUME IInv, NoShareLost, [Next]_vars PROVE NoShareLost'
  <2> USE DEF IInv
  <2> SUFFICES ASSUME NEW c \in DOMAIN orders' PROVE NoneLost(c)'
    BY DEF NoShareLost, NoneLost
  <2>0. /\ \A k \in DOMAIN orders : NoneLost(k) /\ orders[k] \in State /\ k \in Clid
        /\ executed \in [Clid -> Nat] /\ withdrawn \in [Clid -> Nat]
    BY <1>2 DEF NoShareLost, NoneLost, TypeOK
  <2>1. ASSUME UNCHANGED <<orders, executed, withdrawn>> PROVE NoneLost(c)'
    BY <2>0, <2>1 DEF NoneLost
  <2>2. ASSUME NEW s \in Session,
               \/ \E o \in Order : Reject(s, o) \/ Check(s, o)
               \/ Match(s) \/ Return(s)
        PROVE  NoneLost(c)'
    BY <2>1, <2>2 DEF Reject, Check, Begin, Match, Return, table, history
  <2>3. ASSUME NEW s \in Session, Store(s) PROVE NoneLost(c)'
    <3> DEFINE new == [original_size |-> ord[s].size,
                       remaining     |-> ord[s].size,
                       status        |-> "NEW"]
    <3>1. /\ UNCHANGED <<executed, withdrawn>>
          /\ orders' = [k \in DOMAIN orders \cup {ord[s].clid} |->
                          IF k \in DOMAIN orders THEN orders[k] ELSE new]
          /\ ord[s] \in Order
      BY <1>2, <2>3 DEF Store, HandlerInv
    <3>2. CASE c \in DOMAIN orders
      BY <2>0, <3>1, <3>2 DEF NoneLost
    <3>3. CASE c \notin DOMAIN orders
      <4>1. c \in Clid /\ orders'[c] = new /\ ord[s].size \in Nat
        BY <3>1, <3>3, SizeAssumption DEF Order
      <4>2. executed'[c] = 0 /\ withdrawn'[c] = 0
        BY <1>2, <3>1, <3>3, <4>1 DEF FreshInv
      <4> QED
        BY <4>1, <4>2 DEF NoneLost
    <3> QED
      BY <3>2, <3>3
  <2>4. ASSUME NEW s \in Session, RecordFills(s) PROVE NoneLost(c)'
    <3> DEFINE d == ord[s].clid
               n == fills[s].consumed
    <3>1. /\ orders' = [orders EXCEPT ![d] = AfterFills(orders[d], n)]
          /\ executed' = [executed EXCEPT ![d] = executed[d] + n]
          /\ withdrawn' = withdrawn
          /\ d \in DOMAIN orders /\ n \in 0 .. MaxSize
      BY <1>2, <2>4 DEF RecordFills, HandlerInv, TypeOK, Fills
    <3>2. CASE c = d
      <4>1. AfterFills(orders[d], n).original_size = orders[d].original_size
        BY <2>0, <3>1, AfterFillsState
      <4>2. orders'[c] = AfterFills(orders[d], n) /\ executed'[c] = executed[d] + n
        BY <2>0, <3>1, <3>2
      <4>3. /\ AfterFills(orders[d], n).remaining + withdrawn[d] <= orders[d].original_size
            /\ orders[d].original_size
                 <= AfterFills(orders[d], n).remaining + (executed[d] + n) + withdrawn[d]
        BY <2>0, <3>1, RecordedNotLost DEF NoneLost
      <4> QED
        BY <3>1, <3>2, <4>1, <4>2, <4>3 DEF NoneLost
    <3>3. CASE c # d
      <4>1. c \in DOMAIN orders /\ orders'[c] = orders[c] /\ executed'[c] = executed[c]
        BY <2>0, <3>1, <3>3
      <4> QED
        BY <2>0, <3>1, <4>1 DEF NoneLost
    <3> QED
      BY <3>2, <3>3
  <2>5. ASSUME NEW s \in Session, MarkOpen(s) PROVE NoneLost(c)'
    <3>1. /\ orders' = [orders EXCEPT ![ord[s].clid].status = "OPEN"]
          /\ UNCHANGED <<executed, withdrawn>>
      BY <2>5 DEF MarkOpen, history
    <3>2. /\ c \in DOMAIN orders /\ orders'[c].remaining = orders[c].remaining
          /\ orders'[c].original_size = orders[c].original_size
      BY <2>0, <3>1 DEF State
    <3> QED
      BY <2>0, <3>1, <3>2 DEF NoneLost
  <2>6. ASSUME NEW s \in Session, NEW d \in Clid, Cancel(s, d) PROVE NoneLost(c)'
    <3>1. /\ orders' = [orders EXCEPT ![d] = AfterCancel(orders[d])]
          /\ withdrawn' = [withdrawn EXCEPT ![d] = withdrawn[d] + orders[d].remaining]
          /\ executed' = executed
          /\ d \in DOMAIN orders
      BY <2>6 DEF Cancel, Cancelable
    <3>2. CASE c = d
      <4>1. /\ orders'[c].remaining = 0
            /\ orders'[c].original_size = orders[c].original_size
            /\ withdrawn'[c] = withdrawn[c] + orders[c].remaining
        BY <2>0, <3>1, <3>2, AfterCancelState
      <4>2. /\ orders[c].remaining \in Nat /\ orders[c].original_size \in Nat
            /\ withdrawn[c] \in Nat /\ executed[c] \in Nat
        BY <2>0, <3>1, <3>2, SizeAssumption DEF State
      <4> QED
        BY <2>0, <3>1, <3>2, <4>1, <4>2 DEF NoneLost
    <3>3. CASE c # d
      <4>1. c \in DOMAIN orders /\ orders'[c] = orders[c] /\ withdrawn'[c] = withdrawn[c]
        BY <2>0, <3>1, <3>3
      <4> QED
        BY <2>0, <3>1, <4>1 DEF NoneLost
    <3> QED
      BY <3>2, <3>3
  <2>7. CASE UNCHANGED vars
    BY <2>1, <2>7 DEF vars, table, history
  <2>8. CASE Next
    <3>1. PICK s \in Session : Handler(s)
      BY <2>8 DEF Next
    <3>2. CASE \/ \E o \in Order : Reject(s, o)
               \/ \E o \in Order : Check(s, o)
               \/ Match(s) \/ Return(s)
      BY <2>2, <3>2
    <3>3. CASE Store(s) \/ RecordFills(s) \/ MarkOpen(s) \/ \E d \in Clid : Cancel(s, d)
      BY <2>3, <2>4, <2>5, <2>6, <3>3
    <3> QED
      BY <3>1, <3>2, <3>3 DEF Handler
  <2> QED
    BY <1>2, <2>7, <2>8
<1> QED
  BY <1>1, <1>2, IInvHolds, PTL DEF Spec

-----------------------------------------------------------------------------
(* The open-order limit *)

\* The two counts of the argument are of finite sets.
CountsOK ==
    /\ IsFiniteSet(Resting(orders)) /\ open_order_count \in Nat
    /\ IsFiniteSet(InFlight) /\ Cardinality(InFlight) \in Nat
    /\ Cardinality(InFlight) <= Cardinality(Session)
    /\ Cardinality(Session) \in Nat

LEMMA CountsNow == TypeOK => CountsOK
<1> SUFFICES ASSUME TypeOK PROVE CountsOK
  OBVIOUS
<1>1. InFlight \subseteq Session
  BY DEF InFlight
<1>2. IsFiniteSet(InFlight) /\ Cardinality(InFlight) <= Cardinality(Session)
  BY <1>1, SessionAssumption, FS_Subset
<1>3. IsFiniteSet(Resting(orders)) /\ Cardinality(Resting(orders)) \in Nat
  BY LiveIsFinite DEF TypeOK
<1> QED
  BY <1>2, <1>3, SessionAssumption, FS_CardinalityType DEF CountsOK, open_order_count

LEMMA CountsNext == TypeOK' => CountsOK'
BY CountsNow, PTL

\* Marking an order moves at most one unit from the handlers under way to the
\* orders that rest.
LEMMA MarkingMovesOne ==
    ASSUME IInv, TypeOK', NEW s \in Session, pc[s] = "matched",
           pc' = [pc EXCEPT ![s] = "recorded"],
           NEW c, Resting(orders') \subseteq Resting(orders) \cup {c}
    PROVE  /\ open_order_count' <= open_order_count + 1
           /\ Cardinality(InFlight') = Cardinality(InFlight) - 1
<1>1. /\ IsFiniteSet(Resting(orders)) /\ IsFiniteSet(InFlight)
      /\ open_order_count \in Nat /\ open_order_count' \in Nat
  BY CountsNow, CountsNext DEF IInv, CountsOK
<1>2. /\ IsFiniteSet(Resting(orders) \cup {c})
      /\ Cardinality(Resting(orders) \cup {c}) <= Cardinality(Resting(orders)) + 1
  <2> DEFINE R == Resting(orders)
  <2>1. Cardinality(R) \in Nat
    BY <1>1 DEF open_order_count
  <2>2. IsFiniteSet(R)
    BY <1>1
  <2> HIDE DEF R
  <2>3. /\ IsFiniteSet(R \cup {c})
        /\ Cardinality(R \cup {c}) = IF c \in R THEN Cardinality(R) ELSE Cardinality(R) + 1
    BY <2>2, FS_AddElement, Zenon
  <2>4. Cardinality(R \cup {c}) <= Cardinality(R) + 1
    BY <2>1, <2>3
  <2> QED
    BY <2>3, <2>4 DEF R
<1>3. Cardinality(Resting(orders')) <= Cardinality(Resting(orders) \cup {c})
  BY <1>2, FS_Subset
<1>4. open_order_count' <= open_order_count + 1
  <2>1. Cardinality(Resting(orders) \cup {c}) \in Nat
    BY <1>2, FS_CardinalityType
  <2> QED
    BY <1>1, <1>2, <1>3, <2>1 DEF open_order_count
<1>5. InFlight' = InFlight \ {s} /\ s \in InFlight
  BY DEF InFlight, IInv, TypeOK
<1> QED
  BY <1>1, <1>4, <1>5, FS_RemoveElement

\* submit_order's check and its marking are two critical sections: with N
\* connections no more than max_open_orders - 1 + N orders ever rest, whatever
\* ids the clients use and whatever they cancel.
THEOREM OvershootAlwaysBounded == Spec => []OvershootBounded
<1> DEFINE Inside == open_order_count + Cardinality(InFlight)
                       <= max_open_orders - 1 + Cardinality(Session)
<1>1. Init => OvershootBounded
  <2> SUFFICES ASSUME Init, max_open_orders > 0, Session # {} PROVE Inside
    BY DEF OvershootBounded
  <2>1. Resting(orders) = {} /\ InFlight = {}
    BY DEF Init, Resting, InFlight
  <2>2. open_order_count = 0 /\ Cardinality(InFlight) = 0
    BY <2>1, FS_EmptySet DEF open_order_count
  <2>3. Cardinality(Session) \in Nat
    BY SessionAssumption, FS_CardinalityType
  <2> QED
    BY <2>2, <2>3, PolicyAssumption
<1>2. ASSUME IInv, IInv', OvershootBounded, [Next]_vars PROVE OvershootBounded'
  <2> SUFFICES ASSUME max_open_orders > 0, Session # {} PROVE Inside'
    BY DEF OvershootBounded
  <2>1. Inside
    BY <1>2 DEF OvershootBounded
  <2>2. /\ open_order_count \in Nat /\ Cardinality(InFlight) \in Nat
        /\ open_order_count' \in Nat /\ Cardinality(InFlight') \in Nat
        /\ Cardinality(InFlight') <= Cardinality(Session)
        /\ Cardinality(Session) \in Nat /\ max_open_orders \in Nat
    BY <1>2, CountsNow, CountsNext, PolicyAssumption DEF IInv, CountsOK
  <2>3. ASSUME Resting(orders') = Resting(orders), InFlight' = InFlight PROVE Inside'
    BY <2>1, <2>3 DEF open_order_count
  <2>4. ASSUME NEW s \in Session, NEW o \in Order, Reject(s, o) PROVE Inside'
    BY <2>3, <2>4 DEF Reject, table, thread, InFlight
  <2>5. ASSUME NEW s \in Session, NEW o \in Order, Check(s, o) PROVE Inside'
    <3>1. open_order_count < max_open_orders
      BY <2>2, <2>5 DEF Check, LimitReached
    <3>2. open_order_count' = open_order_count
      BY <2>5 DEF Check, table, open_order_count
    <3> QED
      BY <2>2, <3>1, <3>2
  <2>6. ASSUME NEW s \in Session, Store(s) PROVE Inside'
    <3>1. Resting(orders') = Resting(orders)
      BY <2>6 DEF Store, Resting
    <3>2. InFlight' = InFlight
      BY <1>2, <2>6 DEF Store, InFlight, IInv, TypeOK
    <3> QED
      BY <2>3, <3>1, <3>2
  <2>7. ASSUME NEW s \in Session, Match(s) PROVE Inside'
    <3>1. Resting(orders') = Resting(orders) /\ InFlight' = InFlight
      BY <1>2, <2>7 DEF Match, table, InFlight, IInv, TypeOK
    <3> QED
      BY <2>3, <3>1
  <2>8. ASSUME NEW s \in Session, RecordFills(s) \/ MarkOpen(s) PROVE Inside'
    <3> DEFINE c == ord[s].clid
    <3>1. pc[s] = "matched" /\ pc' = [pc EXCEPT ![s] = "recorded"]
      BY <2>8 DEF RecordFills, MarkOpen
    <3>2. Resting(orders') \subseteq Resting(orders) \cup {c}
      BY <2>8 DEF RecordFills, MarkOpen, Resting
    <3> HIDE DEF c
    <3>3. /\ open_order_count' <= open_order_count + 1
          /\ Cardinality(InFlight') = Cardinality(InFlight) - 1
      BY <1>2, <3>1, <3>2, MarkingMovesOne DEF IInv
    <3> QED
      BY <2>1, <2>2, <3>3
  <2>9. ASSUME NEW s \in Session, Return(s) PROVE Inside'
    <3>1. Resting(orders') = Resting(orders) /\ InFlight' = InFlight
      BY <1>2, <2>9 DEF Return, Leave, table, InFlight, IInv, TypeOK
    <3> QED
      BY <2>3, <3>1
  <2>10. ASSUME NEW s \in Session, NEW c \in Clid, Cancel(s, c) PROVE Inside'
    <3>1. Resting(orders') \subseteq Resting(orders)
      BY <1>2, <2>10 DEF Cancel, Resting, IInv, TypeOK, State, Cancelable, AfterCancel
    <3>2. open_order_count' <= open_order_count
      BY <1>2, <3>1, CountsNow, FS_Subset DEF IInv, CountsOK, open_order_count
    <3>3. InFlight' = InFlight
      BY <2>10 DEF Cancel, thread, InFlight
    <3> QED
      BY <2>1, <2>2, <3>2, <3>3
  <2>11. CASE UNCHANGED vars
    BY <2>3, <2>11 DEF vars, table, thread, InFlight
  <2> QED
    BY <1>2, <2>4, <2>5, <2>6, <2>7, <2>8, <2>9, <2>10, <2>11 DEF Next, Handler
<1> QED
  BY <1>1, <1>2, IInvHolds, PTL DEF Spec

-----------------------------------------------------------------------------
(* The outcome counters *)

Busy == {s \in Session : pc[s] # "idle"}

\* Nobody is counted twice and nobody is forgotten: every submission is under
\* way, accepted or rejected, at every moment and for any number of clients.
THEOREM SubmitsAlwaysCounted == Spec => []SubmitsCounted
<1> DEFINE Balance == submits = accepted + rejected + Cardinality(Busy)
<1>1. Init => SubmitsCounted
  <2> SUFFICES ASSUME Init PROVE Balance
    BY DEF SubmitsCounted, Busy
  <2>1. Busy = {}
    BY DEF Init, Busy
  <2> QED
    BY <2>1, FS_EmptySet DEF Init
<1>2. ASSUME IInv, IInv', SubmitsCounted, [Next]_vars PROVE SubmitsCounted'
  <2> SUFFICES Balance'
    BY DEF SubmitsCounted, Busy
  <2>1. Balance
    BY <1>2 DEF SubmitsCounted, Busy
  <2>2. /\ IsFiniteSet(Busy) /\ Cardinality(Busy) \in Nat
        /\ submits \in Nat /\ accepted \in Nat /\ rejected \in Nat
    <3>1. Busy \subseteq Session
      BY DEF Busy
    <3> QED
      BY <1>2, <3>1, SessionAssumption, FS_Subset, FS_CardinalityType DEF IInv, TypeOK
  <2>3. ASSUME Busy' = Busy, UNCHANGED <<submits, accepted, rejected>> PROVE Balance'
    BY <2>1, <2>3
  <2>4. ASSUME NEW s \in Session, NEW o \in Order, Reject(s, o) PROVE Balance'
    <3>1. /\ Busy' = Busy /\ submits' = submits + 1
          /\ rejected' = rejected + 1 /\ accepted' = accepted
      BY <2>4 DEF Reject, Begin, thread, Busy
    <3> QED
      BY <2>1, <2>2, <3>1
  <2>5. ASSUME NEW s \in Session, NEW o \in Order, Check(s, o) PROVE Balance'
    <3>1. Busy' = Busy \cup {s} /\ s \notin Busy
      BY <1>2, <2>5 DEF Check, Busy, IInv, TypeOK
    <3>2. Cardinality(Busy') = Cardinality(Busy) + 1
      BY <2>2, <3>1, FS_AddElement
    <3>3. submits' = submits + 1 /\ rejected' = rejected /\ accepted' = accepted
      BY <2>5 DEF Check, Begin, metrics
    <3> QED
      BY <2>1, <2>2, <3>2, <3>3
  <2>6. ASSUME NEW s \in Session, Store(s) \/ Match(s) \/ RecordFills(s) \/ MarkOpen(s)
        PROVE  Balance'
    <3>1. Busy' = Busy
      BY <1>2, <2>6 DEF Store, Match, RecordFills, MarkOpen, Busy, IInv, TypeOK
    <3>2. UNCHANGED <<submits, accepted, rejected>>
      BY <2>6 DEF Store, Match, RecordFills, MarkOpen, metrics, history
    <3> QED
      BY <2>3, <3>1, <3>2
  <2>7. ASSUME NEW s \in Session, Return(s) PROVE Balance'
    <3>1. Busy' = Busy \ {s} /\ s \in Busy
      BY <1>2, <2>7 DEF Return, Leave, Busy, IInv, TypeOK
    <3>2. Cardinality(Busy') = Cardinality(Busy) - 1
      BY <2>2, <3>1, FS_RemoveElement
    <3>3. accepted' = accepted + 1 /\ rejected' = rejected /\ submits' = submits
      BY <2>7 DEF Return, history, Report
    <3> QED
      BY <2>1, <2>2, <3>2, <3>3
  <2>8. ASSUME NEW s \in Session, NEW c \in Clid, Cancel(s, c) PROVE Balance'
    BY <2>3, <2>8 DEF Cancel, thread, Busy
  <2>9. CASE UNCHANGED vars
    BY <2>3, <2>9 DEF vars, thread, metrics, history, Busy
  <2> QED
    BY <1>2, <2>4, <2>5, <2>6, <2>7, <2>8, <2>9 DEF Next, Handler
<1> QED
  BY <1>1, <1>2, IInvHolds, PTL DEF Spec

-----------------------------------------------------------------------------
(* The counter of filled volume *)

Recorded == {s \in Session : pc[s] = "recorded"}
Consumed == [s \in Session |-> fills[s].consumed]

\* recorded by a handler and not yet reported
Unreported == SumFunctionOnSet(Consumed, Recorded)

SumsOK ==
    /\ IsFiniteSet(Recorded)
    /\ DOMAIN executed = Clid
    /\ \A c \in Clid : executed[c] \in Int
    /\ \A s \in Session : Consumed[s] = fills[s].consumed /\ Consumed[s] \in Int
    /\ filled_volume \in Int /\ Unreported \in Int /\ SumFunction(executed) \in Int

LEMMA SumsNow == TypeOK => SumsOK
<1> SUFFICES ASSUME TypeOK PROVE SumsOK
  OBVIOUS
<1>1. IsFiniteSet(Recorded)
  BY SessionAssumption, FS_Subset DEF Recorded
<1>2. \A s \in Session : Consumed[s] = fills[s].consumed /\ Consumed[s] \in Int
  BY SizeAssumption DEF TypeOK, Fills, Consumed
<1>3. Unreported \in Int
  BY <1>1, <1>2, SumInt DEF Unreported, Recorded
<1>4. DOMAIN executed = Clid /\ \A c \in Clid : executed[c] \in Int
  BY DEF TypeOK
<1>5. SumFunction(executed) \in Int
  BY <1>4, ClidAssumption, SumInt DEF SumFunction
<1> QED
  BY <1>1, <1>2, <1>3, <1>4, <1>5 DEF SumsOK, TypeOK

LEMMA SumsNext == TypeOK' => SumsOK'
BY SumsNow, PTL

\* A handler joins those whose shares are recorded but not reported ...
LEMMA UnreportedGrows ==
    ASSUME IInv, IInv', NEW s \in Session, pc[s] # "recorded", fills' = fills,
           pc' = [pc EXCEPT ![s] = "recorded"]
    PROVE  Unreported' = Unreported + fills[s].consumed
<1>1. SumsOK
  BY SumsNow DEF IInv
<1>2. s \notin Recorded /\ Recorded' = Recorded \cup {s} /\ Consumed' = Consumed
  BY DEF Recorded, Consumed, IInv, TypeOK
<1>3. SumFunctionOnSet(Consumed, Recorded \cup {s}) = Consumed[s] + Unreported
  BY <1>1, <1>2, SumAdd DEF SumsOK, Unreported, Recorded
<1> QED
  BY <1>1, <1>2, <1>3 DEF SumsOK, Unreported

\* ... and leaves them when it reports.
LEMMA UnreportedShrinks ==
    ASSUME IInv, IInv', NEW s \in Session, Return(s)
    PROVE  Unreported' = Unreported - fills[s].consumed
<1>1. SumsOK /\ SumsOK'
  BY SumsNow, SumsNext DEF IInv
<1>2. s \in Recorded /\ Recorded' = Recorded \ {s}
  BY DEF Return, Leave, Recorded, IInv, TypeOK
<1>3. \A t \in Recorded \ {s} : Consumed'[t] = Consumed[t]
  BY DEF Return, Leave, Recorded, Consumed, IInv, TypeOK
<1>4. IsFiniteSet(Recorded \ {s})
  BY <1>1, FS_Subset DEF SumsOK
<1>5. Unreported' = SumFunctionOnSet(Consumed, Recorded \ {s})
  BY <1>2, <1>3, <1>4, SumSame DEF Unreported
<1>6. Unreported = Consumed[s] + SumFunctionOnSet(Consumed, Recorded \ {s})
  BY <1>1, <1>2, SumRemove DEF SumsOK, Unreported, Recorded
<1> QED
  BY <1>1, <1>5, <1>6 DEF SumsOK

\* What the metrics page calls filled volume is what the table's orders lost to
\* fills, but for the handlers between the two: no execution is lost or counted
\* twice, for any number of connections that fill orders at the same time.
THEOREM VolumeAlwaysReported == Spec => []VolumeReported
<1> DEFINE Balance == filled_volume + Unreported = SumFunction(executed)
<1>1. Init => VolumeReported
  <2> SUFFICES ASSUME Init PROVE Balance
    BY DEF VolumeReported, Unreported, Recorded, Consumed
  <2>1. Recorded = {} /\ Unreported = 0
    BY SumEmpty DEF Init, Recorded, Unreported
  <2>2. DOMAIN executed = Clid /\ \A c \in Clid : executed[c] = 0
    BY DEF Init
  <2>3. SumFunction(executed) = 0
    BY <2>2, ClidAssumption, SumZeros DEF SumFunction
  <2> QED
    BY <2>1, <2>3 DEF Init
<1>2. ASSUME IInv, IInv', VolumeReported, [Next]_vars PROVE VolumeReported'
  <2> SUFFICES Balance'
    BY DEF VolumeReported, Unreported, Recorded, Consumed
  <2>1. Balance
    BY <1>2 DEF VolumeReported, Unreported, Recorded, Consumed
  <2>2. SumsOK /\ SumsOK'
    BY <1>2, SumsNow, SumsNext DEF IInv
  <2>3. ASSUME UNCHANGED <<filled_volume, executed>>, Unreported' = Unreported
        PROVE  Balance'
    BY <2>1, <2>3
  <2>4. ASSUME Recorded' = Recorded, \A s \in Recorded : Consumed'[s] = Consumed[s]
        PROVE  Unreported' = Unreported
    BY <2>2, <2>4, SumSame DEF Unreported, SumsOK
  <2>5. ASSUME NEW s \in Session, NEW o \in Order, Reject(s, o) \/ Check(s, o)
        PROVE  Balance'
    <3>1. Recorded' = Recorded /\ Consumed' = Consumed
      BY <1>2, <2>5 DEF Reject, Check, thread, Recorded, Consumed, IInv, TypeOK
    <3>2. UNCHANGED <<filled_volume, executed>>
      BY <2>5 DEF Reject, Check, Begin, metrics
    <3> QED
      BY <2>3, <2>4, <3>1, <3>2
  <2>6. ASSUME NEW s \in Session, Store(s) \/ Match(s) PROVE Balance'
    <3>1. Recorded' = Recorded /\ \A t \in Recorded : Consumed'[t] = Consumed[t]
      BY <1>2, <2>6 DEF Store, Match, Recorded, Consumed, IInv, TypeOK
    <3>2. UNCHANGED <<filled_volume, executed>>
      BY <2>6 DEF Store, Match, metrics, history
    <3> QED
      BY <2>3, <2>4, <3>1, <3>2
  <2>7. ASSUME NEW s \in Session, RecordFills(s) PROVE Balance'
    <3> DEFINE c == ord[s].clid
               n == fills[s].consumed
    <3>1. c \in Clid /\ n \in Int
      BY <1>2, <2>2, <2>7 DEF RecordFills, IInv, HandlerInv, Order, SumsOK
    <3>2. Unreported' = Unreported + n
      BY <1>2, <2>7, UnreportedGrows DEF RecordFills
    <3>3. executed' = [executed EXCEPT ![c] = @ + n] /\ filled_volume' = filled_volume
      BY <2>7 DEF RecordFills, metrics
    <3>4. SumFunction(executed') = SumFunction(executed) + n
      <4>1. /\ executed'[c] = executed[c] + n /\ executed[c] \in Int
            /\ executed[c] + n \in Int
            /\ \A d \in Clid : d # c => executed'[d] = executed[d]
        BY <2>2, <3>1, <3>3 DEF SumsOK
      <4> HIDE DEF c, n
      <4>2. SumFunctionOnSet(executed', Clid)
              = SumFunctionOnSet(executed, Clid) + executed'[c] - executed[c]
        BY <2>2, <3>1, <4>1, ClidAssumption, SumChange DEF SumsOK
      <4>3. SumFunctionOnSet(executed, Clid) \in Int
        BY <2>2 DEF SumsOK, SumFunction
      <4> QED
        BY <2>2, <3>1, <4>1, <4>2, <4>3 DEF SumsOK, SumFunction
    <3> HIDE DEF n
    <3> QED
      BY <2>1, <2>2, <3>1, <3>2, <3>3, <3>4 DEF SumsOK
  <2>8. ASSUME NEW s \in Session, MarkOpen(s) PROVE Balance'
    <3>1. fills[s].consumed = 0
      BY <1>2, <2>8, SizeAssumption DEF MarkOpen, IInv, HandlerInv, TypeOK, Fills
    <3>2. Unreported' = Unreported + fills[s].consumed
      BY <1>2, <2>8, UnreportedGrows DEF MarkOpen
    <3>3. Unreported' = Unreported
      BY <2>2, <3>1, <3>2 DEF SumsOK
    <3> QED
      BY <2>3, <2>8, <3>3 DEF MarkOpen, metrics, history
  <2>9. ASSUME NEW s \in Session, Return(s) PROVE Balance'
    <3>1. Unreported' = Unreported - fills[s].consumed /\ fills[s].consumed \in Int
      BY <1>2, <2>2, <2>9, UnreportedShrinks DEF SumsOK
    <3>2. filled_volume' = filled_volume + fills[s].consumed /\ executed' = executed
      BY <2>9 DEF Return, Report, history
    <3> QED
      BY <2>1, <2>2, <3>1, <3>2 DEF SumsOK
  <2>10. ASSUME NEW s \in Session, NEW c \in Clid, Cancel(s, c) PROVE Balance'
    <3>1. Recorded' = Recorded /\ Consumed' = Consumed
      BY <2>10 DEF Cancel, thread, Recorded, Consumed
    <3> QED
      BY <2>3, <2>4, <2>10, <3>1 DEF Cancel
  <2>11. CASE UNCHANGED vars
    <3>1. Recorded' = Recorded /\ Consumed' = Consumed
      BY <2>11 DEF vars, thread, Recorded, Consumed
    <3> QED
      BY <2>3, <2>4, <2>11, <3>1 DEF vars, metrics, history
  <2> QED
    BY <1>2, <2>5, <2>6, <2>7, <2>8, <2>9, <2>10, <2>11 DEF Next, Handler
<1> QED
  BY <1>1, <1>2, IInvHolds, PTL DEF Spec
=============================================================================
