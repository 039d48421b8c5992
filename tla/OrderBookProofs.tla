-------------------------- MODULE OrderBookProofs --------------------------
(***************************************************************************)
(* Proofs about OrderBook, for every set of symbols, prices and sizes.     *)
(*                                                                         *)
(* The inductive invariant joins three parts: the types; what an iterator  *)
(* inside match_order means (BestFirst); and that an order never takes     *)
(* more than it wants (WantInv).  All of them rest on one fact, that       *)
(* begin() of a side is its best price: prices are an interval, so a set   *)
(* of them has a least and a greatest element.  Uncrossed follows from the *)
(* same types by itself, since trades only remove levels.                  *)
(*                                                                         *)
(* The last two parts prove the refinement of MarketBook.  The mapping     *)
(* carries out the rest of the order under way, as Sweep defines it; one   *)
(* turn of the loop takes what Sweep gives the leading level and leaves    *)
(* every other level its share, so the mapped book does not move.          *)
(***************************************************************************)
EXTENDS OrderBook, Sums, SequenceTheorems, FiniteSetTheorems, TLAPS

-----------------------------------------------------------------------------
(* Facts about the sides of a book *)

\* begin() of a side, and of what follows a level, is the best price there.
LEMMA FirstIsBest ==
    ASSUME NEW side \in {"BUY", "SELL"}, NEW S \in SUBSET Price, S # {}
    PROVE  /\ First(side, S) \in S
           /\ \A q \in S : q = First(side, S) \/ Precedes(side, First(side, S), q)
<1> USE PriceAssumption
<1>1. \E p \in S : \A q \in S \ {p} : Precedes(side, p, q)
  <2>1. CASE side = "BUY"
    <3> DEFINE T == {p - MinPrice : p \in S}
    <3>1. T \in SUBSET Nat /\ T # {}
      <4>1. ASSUME NEW p \in S PROVE p - MinPrice \in Nat
        BY DEF Price
      <4> QED
        BY <4>1
    <3>2. PICK m \in T : \A k \in T : m <= k
      BY <3>1, LeastNatural
    <3>3. PICK p \in S : m = p - MinPrice
      BY <3>2
    <3>4. \A q \in S : p - MinPrice <= q - MinPrice
      BY <3>2, <3>3
    <3>5. \A q \in S \ {p} : p < q
      BY <3>4 DEF Price
    <3> QED
      BY <2>1, <3>5 DEF Precedes
  <2>2. CASE side = "SELL"
    <3> DEFINE T == {MaxPrice - p : p \in S}
    <3>1. T \in SUBSET Nat /\ T # {}
      <4>1. ASSUME NEW p \in S PROVE MaxPrice - p \in Nat
        BY DEF Price
      <4> QED
        BY <4>1
    <3>2. PICK m \in T : \A k \in T : m <= k
      BY <3>1, LeastNatural
    <3>3. PICK p \in S : m = MaxPrice - p
      BY <3>2
    <3>4. \A q \in S : MaxPrice - p <= MaxPrice - q
      BY <3>2, <3>3
    <3>5. \A q \in S \ {p} : p > q
      BY <3>4 DEF Price
    <3> QED
      BY <2>2, <3>5 DEF Precedes
  <2> QED
    BY <2>1, <2>2
<1>2. First(side, S) = CHOOSE p \in S : \A q \in S \ {p} : Precedes(side, p, q)
  BY DEF First
<1> QED
  BY <1>1, <1>2

\* The iterator is past the end exactly when nothing is left.
LEMMA FirstOrEnd ==
    ASSUME NEW side \in {"BUY", "SELL"}, NEW S \in SUBSET Price
    PROVE  /\ First(side, S) \in Price \cup {End}
           /\ First(side, S) = End <=> S = {}
           /\ First(side, S) # End => First(side, S) \in S
BY FirstIsBest, EndAssumption DEF First

LEMMA LevelsShape ==
    ASSUME NEW L \in Levels(Price)
    PROVE  DOMAIN L \in SUBSET Price /\ L \in [DOMAIN L -> 1 .. MaxSize]
BY DEF Levels

LEMMA EraseShape ==
    ASSUME NEW L \in Levels(Price), NEW p
    PROVE  Erase(L, p) \in Levels(Price) /\ DOMAIN Erase(L, p) = DOMAIN L \ {p}
<1>1. DOMAIN L \ {p} \in SUBSET Price
  BY LevelsShape
<1>2. Erase(L, p) \in [DOMAIN L \ {p} -> 1 .. MaxSize]
  BY LevelsShape DEF Erase
<1> QED
  BY <1>1, <1>2 DEF Levels, Erase

LEMMA AssignShape ==
    ASSUME NEW L \in Levels(Price), NEW p \in Price, NEW n \in 1 .. MaxSize
    PROVE  Assign(L, p, n) \in Levels(Price) /\ DOMAIN Assign(L, p, n) = DOMAIN L \cup {p}
<1>1. DOMAIN L \cup {p} \in SUBSET Price
  BY LevelsShape
<1>2. Assign(L, p, n) \in [DOMAIN L \cup {p} -> 1 .. MaxSize]
  BY LevelsShape DEF Assign
<1> QED
  BY <1>1, <1>2 DEF Levels, Assign

\* Replacing one side of one symbol leaves a book, and the rest of it.
LEMMA SideReplaced ==
    ASSUME NEW b \in SideBook, NEW f \in {"bids", "asks"}, NEW L \in Levels(Price)
    PROVE  /\ [b EXCEPT ![f] = L] \in SideBook
           /\ [b EXCEPT ![f] = L][f] = L
           /\ \A g \in {"bids", "asks"} : g # f => [b EXCEPT ![f] = L][g] = b[g]
BY DEF SideBook

-----------------------------------------------------------------------------
(* What the steps do to the books *)

LEMMA RemoveEffect ==
    ASSUME TypeOK, NEW sym \in Symbol, NEW price \in Price, NEW size,
           RemoveLevel(sym, price, size)
    PROVE  /\ books' \in [Symbol -> SideBook]
           /\ \A s \in Symbol : s # sym => books'[s] = books[s]
           /\ books'[sym].bids = Erase(books[sym].bids, price)
           /\ books'[sym].asks = Erase(books[sym].asks, price)
<1> DEFINE b == books[sym]
           nb == [b EXCEPT !.bids = Erase(b.bids, price)]
           na == [nb EXCEPT !.asks = Erase(b.asks, price)]
<1>1. b \in SideBook /\ b.bids \in Levels(Price) /\ b.asks \in Levels(Price)
  BY DEF TypeOK, SideBook
<1>2. /\ Erase(b.bids, price) \in Levels(Price)
      /\ Erase(b.asks, price) \in Levels(Price)
  BY <1>1, EraseShape
<1>3. na \in SideBook /\ na.bids = Erase(b.bids, price) /\ na.asks = Erase(b.asks, price)
  BY <1>1, <1>2 DEF SideBook
<1>4. books' = [books EXCEPT ![sym] = na]
  BY <1>1 DEF RemoveLevel, TypeOK, SideBook
<1> HIDE DEF na
<1> QED
  BY <1>3, <1>4 DEF TypeOK

LEMMA SetEffect ==
    ASSUME TypeOK, NEW sym \in Symbol, NEW price \in Price, NEW size \in 1 .. MaxSize,
           SetLevel(sym, price, size)
    PROVE  /\ books' \in [Symbol -> SideBook]
           /\ \A s \in Symbol : s # sym => books'[s] = books[s]
           /\ IsBid(sym, price) =>
                 /\ books'[sym].bids = Assign(books[sym].bids, price, size)
                 /\ books'[sym].asks = books[sym].asks
           /\ ~IsBid(sym, price) =>
                 /\ books'[sym].bids = books[sym].bids
                 /\ books'[sym].asks = Assign(books[sym].asks, price, size)
<1> DEFINE b == books[sym]
           f == IF IsBid(sym, price) THEN "bids" ELSE "asks"
           nb == [b EXCEPT ![f] = Assign(b[f], price, size)]
<1>1. /\ b \in SideBook /\ b[f] \in Levels(Price) /\ f \in {"bids", "asks"}
  BY DEF TypeOK, SideBook
<1>2. Assign(b[f], price, size) \in Levels(Price)
  BY <1>1, AssignShape
<1>3. /\ nb \in SideBook /\ nb[f] = Assign(b[f], price, size)
      /\ \A g \in {"bids", "asks"} : g # f => nb[g] = b[g]
  BY <1>1, <1>2, SideReplaced
<1>4. books' = [books EXCEPT ![sym] = nb]
  BY DEF SetLevel
<1>5. /\ books' \in [Symbol -> SideBook]
      /\ \A s \in Symbol : s # sym => books'[s] = books[s]
      /\ books'[sym] = nb
  <2> HIDE DEF nb
  <2> QED
    BY <1>3, <1>4 DEF TypeOK
<1>6. CASE IsBid(sym, price)
  BY <1>3, <1>5, <1>6
<1>7. CASE ~IsBid(sym, price)
  BY <1>3, <1>5, <1>7
<1> QED
  BY <1>5, <1>6, <1>7

\* One turn of the loop shrinks or erases the level the iterator is at.
LEMMA TakeEffect ==
    ASSUME TypeOK, BestFirst, TakeLevel,
           NEW f, f = Facing(order.side), NEW take, take = Take(facing[ait], remaining)
    PROVE  /\ order \in Order /\ f \in {"bids", "asks"}
           /\ ait \in DOMAIN facing /\ facing \in Levels(Price)
           /\ take \in 1 .. remaining /\ remaining' = remaining - take
           /\ books' \in [Symbol -> SideBook]
           /\ \A s \in Symbol : s # order.symbol => books'[s] = books[s]
           /\ \A g \in {"bids", "asks"} :
                 g # f => books'[order.symbol][g] = books[order.symbol][g]
           /\ DOMAIN books'[order.symbol][f] \subseteq DOMAIN facing
           /\ DOMAIN facing \ {ait} \subseteq DOMAIN books'[order.symbol][f]
           /\ remaining' > 0 => DOMAIN books'[order.symbol][f] = DOMAIN facing \ {ait}
<1> DEFINE avail == facing[ait]
           b == books[order.symbol]
           L == IF avail - take = 0 THEN Erase(b[f], ait) ELSE Assign(b[f], ait, avail - take)
           nb == [b EXCEPT ![f] = L]
<1>1. order \in Order /\ f \in {"bids", "asks"} /\ order.symbol \in Symbol
  BY DEF TakeLevel, locked, TypeOK, Order, Facing
<1>2. /\ b \in SideBook /\ b[f] \in Levels(Price) /\ facing = b[f]
  BY <1>1 DEF TypeOK, SideBook, facing
<1>3. ait \in DOMAIN facing /\ ait \in Price
  BY <1>2, LevelsShape DEF TakeLevel, BestFirst
<1>4. avail \in 1 .. MaxSize
  BY <1>2, <1>3, LevelsShape
<1>5. /\ remaining \in 1 .. MaxOrder /\ remaining \in Nat /\ MaxSize \in Nat
  BY BoundAssumption DEF TakeLevel, TypeOK
<1>6. /\ take \in 1 .. remaining /\ avail - take \in 0 .. MaxSize
      /\ remaining - take > 0 => avail - take = 0
  BY <1>4, <1>5 DEF Take
<1>7. /\ L \in Levels(Price)
      /\ DOMAIN L \subseteq DOMAIN facing /\ DOMAIN facing \ {ait} \subseteq DOMAIN L
      /\ avail - take = 0 => DOMAIN L = DOMAIN facing \ {ait}
  <2>1. CASE avail - take = 0
    BY <1>2, <2>1, EraseShape
  <2>2. CASE avail - take # 0
    <3> DEFINE rest == avail - take
               side == b[f]
    <3>1. rest \in 1 .. MaxSize /\ side \in Levels(Price) /\ side = facing
      BY <1>2, <1>5, <1>6, <2>2
    <3>2. L = Assign(side, ait, rest)
      BY <2>2
    <3> HIDE DEF rest, side, L
    <3>3. /\ Assign(side, ait, rest) \in Levels(Price)
          /\ DOMAIN Assign(side, ait, rest) = DOMAIN side \cup {ait}
      BY <1>3, <3>1, AssignShape
    <3> QED
      BY <1>3, <2>2, <3>1, <3>2, <3>3
  <2> QED
    BY <2>1, <2>2
<1>8. /\ books' = [books EXCEPT ![order.symbol] = nb] /\ remaining' = remaining - take
  BY <1>2 DEF TakeLevel
<1>9. /\ nb \in SideBook /\ nb[f] = L
      /\ \A g \in {"bids", "asks"} : g # f => nb[g] = b[g]
  <2> HIDE DEF L
  <2> QED
    BY <1>1, <1>2, <1>7, SideReplaced
<1>10. /\ books' \in [Symbol -> SideBook] /\ books'[order.symbol] = nb
       /\ \A s \in Symbol : s # order.symbol => books'[s] = books[s]
  <2> HIDE DEF nb
  <2> QED
    BY <1>1, <1>8, <1>9 DEF TypeOK
<1> HIDE DEF L, nb
<1> QED
  BY <1>1, <1>2, <1>3, <1>6, <1>7, <1>8, <1>9, <1>10

-----------------------------------------------------------------------------
(* Types, and the walk down a side *)

\* The shares that the fills of an order add up to.
Sizes  == [k \in DOMAIN fills |-> fills[k].size]
Filled == SumFunction(Sizes)

\* The order under way never wants more than it asked for, each of its fills
\* took at least a share, and all of them what it no longer wants.
WantInv == locked => /\ remaining <= order.size
                     /\ Len(fills) <= order.size - remaining
                     /\ Filled = order.size - remaining

IInv == TypeOK /\ BestFirst /\ WantInv

LEMMA InitIInv == Init => IInv
<1> SUFFICES ASSUME Init PROVE IInv
  OBVIOUS
<1>1. Seeded \subseteq SideBook
  <2>1. Levels(SeedPrice) \subseteq Levels(Price)
    BY SeedAssumption DEF Levels
  <2>2. NoLevels \in Levels(Price)
    <3>1. {} \in SUBSET Price /\ NoLevels \in [{} -> 1 .. MaxSize]
      BY DEF NoLevels
    <3> QED
      BY <3>1 DEF Levels
  <2> QED
    BY <2>1, <2>2 DEF Seeded, SideBook
<1>2. TypeOK
  BY <1>1, BoundAssumption DEF Init, TypeOK
<1>3. ~locked
  BY DEF Init, locked
<1> QED
  BY <1>2, <1>3 DEF IInv, BestFirst, WantInv

\* The feed's steps happen with nobody inside match_order.
LEMMA FeedStep ==
    ASSUME IInv, NEW sym \in Symbol, NEW price \in Price, NEW size \in 0 .. MaxSize,
           RemoveLevel(sym, price, size) \/ SetLevel(sym, price, size)
    PROVE  IInv'
<1>1. ~locked /\ UNCHANGED <<order, remaining, ait, fills>>
  BY DEF RemoveLevel, SetLevel
<1>2. books' \in [Symbol -> SideBook]
  <2>1. CASE RemoveLevel(sym, price, size)
    BY <2>1, RemoveEffect DEF IInv
  <2>2. CASE SetLevel(sym, price, size)
    <3>1. size \in 1 .. MaxSize
      BY <2>2, BoundAssumption DEF SetLevel
    <3> QED
      BY <2>2, <3>1, SetEffect DEF IInv
  <2> QED
    BY <2>1, <2>2
<1>3. ~locked'
  BY <1>1 DEF locked
<1> QED
  BY <1>1, <1>2, <1>3 DEF IInv, TypeOK, BestFirst, WantInv

LEMMA BeginStep ==
    ASSUME IInv, NEW o \in Order, BeginMatch(o)
    PROVE  IInv'
<1> DEFINE S == DOMAIN books[o.symbol][Facing(o.side)]
<1>1. o.symbol \in Symbol /\ o.side \in {"BUY", "SELL"} /\ o.size \in 1 .. MaxOrder
  BY DEF Order
<1>2. S \in SUBSET Price
  <2>1. books[o.symbol][Facing(o.side)] \in Levels(Price)
    BY <1>1 DEF IInv, TypeOK, SideBook, Facing
  <2> QED
    BY <2>1, LevelsShape
<1>3. /\ order' = o /\ remaining' = o.size /\ ait' = First(o.side, S) /\ fills' = << >>
      /\ books' = books
  BY DEF BeginMatch
<1>4. facing' = books[o.symbol][Facing(o.side)]
  BY <1>3 DEF facing
<1>5. TypeOK'
  BY <1>1, <1>2, <1>3, FirstOrEnd, BoundAssumption DEF IInv, TypeOK
<1>6. BestFirst'
  <2>1. ait' # End => ait' \in S
    BY <1>1, <1>2, <1>3, FirstOrEnd
  <2>2. \A p \in S : ait' # End /\ (p = ait' \/ Precedes(o.side, ait', p))
    <3> SUFFICES ASSUME NEW p \in S
                 PROVE  ait' # End /\ (p = ait' \/ Precedes(o.side, ait', p))
      OBVIOUS
    <3>1. S # {}
      OBVIOUS
    <3> HIDE DEF S
    <3> QED
      BY <1>1, <1>2, <1>3, <3>1, FirstOrEnd, FirstIsBest
  <2>3. DOMAIN fills' = {}
    BY <1>3
  <2> QED
    BY <1>3, <1>4, <2>1, <2>2, <2>3 DEF BestFirst
<1>7. WantInv'
  <2>1. Filled' = 0
    BY <1>3, SumEmpty DEF Filled, Sizes, SumFunction
  <2> QED
    BY <1>1, <1>3, <2>1 DEF WantInv
<1> QED
  BY <1>5, <1>6, <1>7 DEF IInv

LEMMA EndStep == ASSUME IInv, EndMatch PROVE IInv'
<1>1. ~locked'
  BY DEF EndMatch, locked
<1>2. TypeOK'
  BY BoundAssumption DEF IInv, TypeOK, EndMatch
<1> QED
  BY <1>1, <1>2 DEF IInv, BestFirst, WantInv

\* One turn of the loop: what follows the iterator is what is left.
LEMMA TakeStep == ASSUME IInv, TakeLevel PROVE IInv'
<1> DEFINE f == Facing(order.side)
           take == Take(facing[ait], remaining)
           later == {p \in DOMAIN facing : Precedes(order.side, ait, p)}
<1>1. /\ order \in Order /\ f \in {"bids", "asks"}
      /\ ait \in DOMAIN facing /\ facing \in Levels(Price)
      /\ take \in 1 .. remaining /\ remaining' = remaining - take
      /\ books' \in [Symbol -> SideBook]
      /\ remaining' > 0 => DOMAIN books'[order.symbol][f] = DOMAIN facing \ {ait}
      /\ DOMAIN facing \ {ait} \subseteq DOMAIN books'[order.symbol][f]
  <2> HIDE DEF f, take
  <2> QED
    BY TakeEffect DEF IInv, f, take
<1>2. /\ order' = order /\ locked /\ locked' /\ remaining > 0
      /\ ait # End /\ ait' = First(order.side, later)
      /\ fills' = Append(fills, [price |-> ait, size |-> take])
  BY DEF TakeLevel, locked
<1>3. order.side \in {"BUY", "SELL"} /\ order.size \in 1 .. MaxOrder
  BY <1>1 DEF Order
<1>4. DOMAIN facing \in SUBSET Price /\ later \in SUBSET Price
  BY <1>1, LevelsShape
<1>5. /\ remaining \in Nat /\ remaining <= MaxOrder /\ MaxOrder \in Nat
      /\ take \in Nat /\ take >= 1 /\ take <= remaining
  BY <1>1, BoundAssumption DEF IInv, TypeOK
<1>6. ait' \in Price \cup {End} /\ (ait' # End => ait' \in later) /\ (ait' = End <=> later = {})
  BY <1>2, <1>3, <1>4, FirstOrEnd
<1>7. [price |-> ait, size |-> take] \in Fill
  BY <1>1, <1>4, <1>5 DEF Fill
<1>8. fills \in Seq(Fill) /\ fills' \in Seq(Fill) /\ Len(fills') = Len(fills) + 1
  BY <1>2, <1>7 DEF IInv, TypeOK
<1>9. TypeOK'
  BY <1>1, <1>2, <1>5, <1>6, <1>8 DEF IInv, TypeOK
<1>10. WantInv'
  <2>1. Filled' = Filled + take
    <3>1. /\ Len(fills) \in Nat /\ DOMAIN Sizes = 1 .. Len(fills)
          /\ DOMAIN Sizes' = 1 .. Len(fills) + 1
          /\ \A k \in 1 .. Len(fills) : Sizes'[k] = Sizes[k] /\ Sizes[k] \in Int
          /\ Sizes'[Len(fills) + 1] = take
      <4> HIDE DEF take
      <4>1. /\ Len(fills) \in Nat /\ DOMAIN fills = 1 .. Len(fills)
            /\ DOMAIN fills' = 1 .. Len(fills) + 1
            /\ \A k \in 1 .. Len(fills) : fills'[k] = fills[k] /\ fills[k] \in Fill
            /\ fills'[Len(fills) + 1] = [price |-> ait, size |-> take]
        BY <1>2, <1>7, <1>8
      <4>2. \A r \in Fill : r.size \in Int
        BY BoundAssumption DEF Fill
      <4> QED
        BY <4>1, <4>2 DEF Sizes
    <3>2. take \in Int
      BY <1>5
    <3> HIDE DEF take
    <3> QED
      BY <3>1, <3>2, SumAtEnd DEF Filled
  <2>2. Filled \in Int /\ order.size \in Int /\ remaining \in Int
    BY <1>2, <1>3, <1>5, BoundAssumption DEF IInv, WantInv
  <2> QED
    BY <1>1, <1>2, <1>3, <1>5, <1>8, <2>1, <2>2 DEF IInv, WantInv
<1>11. facing' = books'[order.symbol][f]
  BY <1>2 DEF facing
<1>12. BestFirst'
  <2> HIDE DEF f, take
  <2>1. ASSUME ait' # End PROVE ait' \in DOMAIN facing' /\ Precedes(order.side, ait, ait')
    <3>1. ait' \in later
      BY <1>6, <2>1
    <3>2. ait' # ait
      BY <1>3, <1>4, <3>1 DEF Precedes, Price
    <3> QED
      BY <1>1, <1>11, <3>1, <3>2
  <2>2. ASSUME remaining' > 0, NEW p \in DOMAIN facing'
        PROVE  ait' # End /\ (p = ait' \/ Precedes(order.side, ait', p))
    <3>1. p \in DOMAIN facing \ {ait}
      BY <1>1, <1>11, <2>2
    <3>2. p \in later
      BY <1>2, <3>1 DEF IInv, BestFirst
    <3> HIDE DEF later
    <3> QED
      BY <1>2, <1>3, <1>4, <1>6, <3>2, FirstIsBest
  <2>3. \A k \in DOMAIN fills' :
          \/ k \in DOMAIN fills /\ fills'[k] = fills[k]
          \/ k = Len(fills) + 1 /\ fills'[k] = [price |-> ait, size |-> take]
    BY <1>2, <1>8
  <2>4. \A k \in DOMAIN fills :
          /\ k \in 1 .. Len(fills)
          /\ fills[k].price \in Price /\ Precedes(order.side, fills[k].price, ait)
    <3>1. \A k \in DOMAIN fills : k \in 1 .. Len(fills) /\ fills[k] \in Fill
      BY <1>8
    <3>2. \A k \in DOMAIN fills : Precedes(order.side, fills[k].price, ait)
      BY <1>2 DEF IInv, BestFirst
    <3> QED
      BY <3>1, <3>2 DEF Fill
  <2>5. ASSUME NEW j \in DOMAIN fills', NEW k \in DOMAIN fills', j < k
        PROVE  Precedes(order.side, fills'[j].price, fills'[k].price)
    <3>1. Len(fills) \in Nat
      BY <1>8
    <3>2. CASE k \in DOMAIN fills
      <4>1. j \in DOMAIN fills
        BY <2>3, <2>4, <2>5, <3>1, <3>2
      <4> QED
        BY <1>2, <2>3, <2>4, <2>5, <3>1, <3>2, <4>1 DEF IInv, BestFirst
    <3>3. CASE k = Len(fills) + 1 /\ fills'[k] = [price |-> ait, size |-> take]
      <4>1. j \in DOMAIN fills /\ fills'[j] = fills[j]
        BY <2>3, <2>5, <3>1, <3>3
      <4> QED
        BY <2>4, <3>3, <4>1
    <3> QED
      BY <2>3, <3>2, <3>3
  <2>6. ASSUME NEW k \in DOMAIN fills', ait' # End
        PROVE  Precedes(order.side, fills'[k].price, ait')
    <3>1. Precedes(order.side, ait, ait') /\ ait \in Price /\ ait' \in Price
      BY <1>1, <1>4, <1>6, <2>1, <2>6
    <3>2. CASE k \in DOMAIN fills /\ fills'[k] = fills[k]
      BY <1>3, <2>4, <3>1, <3>2 DEF Precedes, Price
    <3>3. CASE fills'[k] = [price |-> ait, size |-> take]
      BY <3>1, <3>3
    <3> QED
      BY <2>3, <3>2, <3>3
  <2> QED
    BY <1>2, <2>1, <2>2, <2>5, <2>6 DEF BestFirst
<1> QED
  BY <1>9, <1>10, <1>12 DEF IInv

LEMMA IInvHolds == Spec => []IInv
<1>1. IInv /\ [Next]_vars => IInv'
  <2> SUFFICES ASSUME IInv, [Next]_vars PROVE IInv'
    OBVIOUS
  <2>1. CASE Feed
    BY <2>1, FeedStep DEF Feed
  <2>2. CASE Match
    BY <2>2, BeginStep, TakeStep, EndStep DEF Match
  <2>3. CASE UNCHANGED vars
    BY <2>3 DEF vars, IInv, TypeOK, BestFirst, WantInv, Filled, Sizes, locked, facing
  <2> QED
    BY <2>1, <2>2, <2>3 DEF Next
<1> QED
  BY <1>1, InitIInv, PTL DEF Spec

\* Levels keep at least one share and fills give at least one, whatever
\* updates and orders come.
THEOREM TypeCorrect == Spec => []TypeOK
<1>1. IInv => TypeOK
  BY DEF IInv
<1> QED
  BY <1>1, IInvHolds, PTL

\* match_order walks every side from its best level on and skips none, although
\* it erases the levels it walks over.
THEOREM WalksBestFirst == Spec => []BestFirst
<1>1. IInv => BestFirst
  BY DEF IInv
<1> QED
  BY <1>1, IInvHolds, PTL

\* What OrderManager takes for granted about match_order: the fills of an order
\* add up to what it no longer wants, never to more than its size, and there
\* are at most as many of them as shares.
THEOREM FillsStayWithinOrder == Spec => []FillsWithinOrder
<1>1. IInv => FillsWithinOrder
  BY BoundAssumption DEF IInv, TypeOK, WantInv, Filled, Sizes, FillsWithinOrder
<1> QED
  BY <1>1, IInvHolds, PTL

-----------------------------------------------------------------------------
(* The two sides *)

LEMMA InitUncrossed == Init => Uncrossed
<1> SUFFICES ASSUME Init, NEW sym \in Symbol PROVE DOMAIN books[sym].asks = {}
  BY DEF Uncrossed
<1>1. books[sym].asks = NoLevels
  BY DEF Init, Seeded
<1> QED
  BY <1>1 DEF NoLevels

\* A side of the feed's rule in terms of sets: the price goes with the bids when
\* some bid is at or above it.
LEMMA BidRule ==
    ASSUME TypeOK, NEW sym \in Symbol, NEW price \in Price
    PROVE  /\ IsBid(sym, price) => \E b \in DOMAIN books[sym].bids : price <= b
           /\ ~IsBid(sym, price) => \A b \in DOMAIN books[sym].bids : b < price
<1> DEFINE S == DOMAIN books[sym].bids
<1>1. S \in SUBSET Price
  <2>1. books[sym].bids \in Levels(Price)
    BY DEF TypeOK, SideBook
  <2> QED
    BY <2>1, LevelsShape
<1>2. best_bid(sym) = First("SELL", S)
  BY DEF best_bid
<1> HIDE DEF S
<1>3. best_bid(sym) # End => best_bid(sym) \in S
  BY <1>1, <1>2, FirstOrEnd
<1>4. ASSUME ~IsBid(sym, price), NEW b \in S PROVE b < price
  <2>1. best_bid(sym) # End /\ S # {}
    BY <1>1, <1>2, <1>4, FirstOrEnd
  <2>2. b = best_bid(sym) \/ b < best_bid(sym)
    BY <1>1, <1>2, <2>1, FirstIsBest DEF Precedes
  <2>3. best_bid(sym) \in Int /\ b \in Int /\ price \in Int
    <3>1. Price \subseteq Int
      BY PriceAssumption DEF Price
    <3> QED
      BY <1>1, <1>3, <1>4, <2>1, <3>1, Zenon
  <2>4. best_bid(sym) < price
    BY <1>4, <2>1, <2>3 DEF IsBid
  <2> QED
    BY <2>2, <2>3, <2>4
<1> QED
  BY <1>3, <1>4 DEF IsBid, S

\* The feed and the orders never cross the book: with the side of an update
\* decided by the best bid alone, every ask stays above every bid.
THEOREM NeverCrosses == Spec => []Uncrossed
<1>1. ASSUME IInv, Uncrossed, [Next]_vars PROVE Uncrossed'
  <2> SUFFICES ASSUME NEW s \in Symbol,
                      NEW b \in DOMAIN books'[s].bids, NEW a \in DOMAIN books'[s].asks
               PROVE  b < a
    BY DEF Uncrossed
  <2>1. \A x \in DOMAIN books[s].bids, y \in DOMAIN books[s].asks : x < y
    BY <1>1 DEF Uncrossed
  <2>2. /\ books[s].bids \in Levels(Price) /\ books[s].asks \in Levels(Price)
        /\ DOMAIN books[s].bids \in SUBSET Price /\ DOMAIN books[s].asks \in SUBSET Price
    <3>1. books[s].bids \in Levels(Price) /\ books[s].asks \in Levels(Price)
      BY <1>1 DEF IInv, TypeOK, SideBook
    <3> QED
      BY <3>1, LevelsShape
  <2>3. ASSUME DOMAIN books'[s].bids \subseteq DOMAIN books[s].bids,
               DOMAIN books'[s].asks \subseteq DOMAIN books[s].asks
        PROVE  b < a
    BY <2>1, <2>3
  <2>4. ASSUME NEW sym \in Symbol, NEW price \in Price, NEW size,
               RemoveLevel(sym, price, size)
        PROVE  b < a
    <3>1. TypeOK
      BY <1>1 DEF IInv
    <3>2. /\ \A r \in Symbol : r # sym => books'[r] = books[r]
          /\ books'[sym].bids = Erase(books[sym].bids, price)
          /\ books'[sym].asks = Erase(books[sym].asks, price)
      BY <2>4, <3>1, RemoveEffect
    <3>3. /\ DOMAIN Erase(books[s].bids, price) \subseteq DOMAIN books[s].bids
          /\ DOMAIN Erase(books[s].asks, price) \subseteq DOMAIN books[s].asks
      BY <2>2, EraseShape
    <3> QED
      BY <2>3, <3>2, <3>3
  <2>5. ASSUME NEW sym \in Symbol, NEW price \in Price, NEW size \in 0 .. MaxSize,
               SetLevel(sym, price, size)
        PROVE  b < a
    <3>1. size \in 1 .. MaxSize
      BY <2>5, BoundAssumption DEF SetLevel
    <3>2. TypeOK
      BY <1>1 DEF IInv
    <3>3. /\ \A r \in Symbol : r # sym => books'[r] = books[r]
          /\ IsBid(sym, price) =>
                /\ books'[sym].bids = Assign(books[sym].bids, price, size)
                /\ books'[sym].asks = books[sym].asks
          /\ ~IsBid(sym, price) =>
                /\ books'[sym].bids = books[sym].bids
                /\ books'[sym].asks = Assign(books[sym].asks, price, size)
      BY <2>5, <3>1, <3>2, SetEffect
    <3>4. CASE s # sym
      BY <2>3, <3>3, <3>4
    <3>5. CASE s = sym /\ IsBid(sym, price)
      <4>1. /\ DOMAIN books'[s].bids = DOMAIN books[s].bids \cup {price}
            /\ books'[s].asks = books[s].asks
        <5>1. DOMAIN Assign(books[s].bids, price, size) = DOMAIN books[s].bids \cup {price}
          BY <2>2, <3>1, AssignShape
        <5> QED
          BY <3>3, <3>5, <5>1
      <4>2. PICK x \in DOMAIN books[s].bids : price <= x
        BY <3>2, <3>5, BidRule
      <4> QED
        BY <2>1, <2>2, <4>1, <4>2, PriceAssumption DEF Price
    <3>6. CASE s = sym /\ ~IsBid(sym, price)
      <4>1. /\ DOMAIN books'[s].asks = DOMAIN books[s].asks \cup {price}
            /\ books'[s].bids = books[s].bids
        <5>1. DOMAIN Assign(books[s].asks, price, size) = DOMAIN books[s].asks \cup {price}
          BY <2>2, <3>1, AssignShape
        <5> QED
          BY <3>3, <3>6, <5>1
      <4>2. \A x \in DOMAIN books[s].bids : x < price
        BY <3>2, <3>6, BidRule
      <4> QED
        BY <2>1, <4>1, <4>2
    <3> QED
      BY <3>4, <3>5, <3>6
  <2>6. CASE TakeLevel
    <3> DEFINE f == Facing(order.side)
               take == Take(facing[ait], remaining)
    <3>1. /\ order \in Order /\ f \in {"bids", "asks"}
          /\ \A r \in Symbol : r # order.symbol => books'[r] = books[r]
          /\ \A g \in {"bids", "asks"} :
                g # f => books'[order.symbol][g] = books[order.symbol][g]
          /\ DOMAIN books'[order.symbol][f] \subseteq DOMAIN books[order.symbol][f]
      <4> HIDE DEF take
      <4> QED
        BY <1>1, <2>6, TakeEffect DEF IInv, facing, take
    <3>2. CASE s # order.symbol
      BY <2>3, <3>1, <3>2
    <3>3. CASE s = order.symbol
      <4> HIDE DEF f
      <4> QED
        BY <2>3, <3>1, <3>3
    <3> QED
      BY <3>2, <3>3
  <2>7. CASE UNCHANGED books
    BY <2>3, <2>7
  <2> QED
    BY <1>1, <2>4, <2>5, <2>6, <2>7 DEF Next, Feed, Match, BeginMatch, EndMatch, vars
<1> QED
  BY <1>1, InitUncrossed, IInvHolds, PTL DEF Spec

-----------------------------------------------------------------------------
(* The program's own book *)

OnlyAsks == \A sym \in Symbol : DOMAIN books[sym].bids = {}

\* Nothing but set_level ever makes the first bid, and the program never calls
\* it: in the engine every update goes to the asks and a SELL finds no level.
THEOREM ProgramHoldsNoBids ==
    ASSUME SeedPrice = {}
    PROVE  Spec => []OnlyAsks
<1>1. Init => OnlyAsks
  <2> SUFFICES ASSUME Init, NEW sym \in Symbol PROVE DOMAIN books[sym].bids = {}
    BY DEF OnlyAsks
  <2>1. books[sym].bids \in Levels({})
    BY SeedPrice = {} DEF Init, Seeded
  <2> QED
    BY <2>1 DEF Levels
<1>2. ASSUME IInv, OnlyAsks, [Next]_vars PROVE OnlyAsks'
  <2> SUFFICES ASSUME NEW s \in Symbol PROVE DOMAIN books'[s].bids = {}
    BY DEF OnlyAsks
  <2>1. TypeOK /\ DOMAIN books[s].bids = {} /\ books[s].bids \in Levels(Price)
    BY <1>2 DEF IInv, OnlyAsks, TypeOK, SideBook
  <2>2. ASSUME NEW sym \in Symbol, NEW price \in Price, NEW size,
               RemoveLevel(sym, price, size)
        PROVE  DOMAIN books'[s].bids = {}
    <3>1. /\ s # sym => books'[s] = books[s]
          /\ books'[sym].bids = Erase(books[sym].bids, price)
      BY <2>1, <2>2, RemoveEffect
    <3>2. DOMAIN Erase(books[s].bids, price) = {}
      BY <2>1, EraseShape
    <3> QED
      BY <2>1, <3>1, <3>2
  <2>3. ASSUME NEW sym \in Symbol, NEW price \in Price, NEW size \in 0 .. MaxSize,
               SetLevel(sym, price, size)
        PROVE  DOMAIN books'[s].bids = {}
    <3>1. size \in 1 .. MaxSize
      BY <2>3, BoundAssumption DEF SetLevel
    <3>2. s = sym => ~IsBid(sym, price)
      BY <2>1, BidRule
    <3>3. /\ s # sym => books'[s] = books[s]
          /\ s = sym => books'[s].bids = books[s].bids
      BY <2>1, <2>3, <3>1, <3>2, SetEffect
    <3> QED
      BY <2>1, <3>3
  <2>4. CASE TakeLevel
    <3> DEFINE f == Facing(order.side)
               take == Take(facing[ait], remaining)
    <3>1. /\ f \in {"bids", "asks"} /\ ait \in DOMAIN facing
          /\ s # order.symbol => books'[s] = books[s]
          /\ \A g \in {"bids", "asks"} :
                g # f => books'[order.symbol][g] = books[order.symbol][g]
      <4> HIDE DEF take
      <4> QED
        BY <1>2, <2>4, TakeEffect DEF IInv, take
    <3>2. s = order.symbol => f = "asks"
      BY <2>1, <3>1 DEF facing
    <3> HIDE DEF f
    <3> QED
      BY <2>1, <3>1, <3>2
  <2>5. CASE UNCHANGED books
    BY <2>1, <2>5
  <2> QED
    BY <1>2, <2>2, <2>3, <2>4, <2>5 DEF Next, Feed, Match, BeginMatch, EndMatch, vars
<1> QED
  BY <1>1, <1>2, IInvHolds, PTL DEF Spec
-----------------------------------------------------------------------------
(* One turn of the loop does not change what the order does in the end *)

Side == {"BUY", "SELL"}

\* a is the level match_order takes from next
Leads(side, L, a) ==
    a \in DOMAIN L /\ \A q \in DOMAIN L : q = a \/ Swept!Better(side, a, q)

\* what a turn leaves of the side
AfterTake(L, a, take) ==
    IF L[a] - take = 0 THEN Erase(L, a) ELSE Assign(L, a, L[a] - take)

LEMMA PricesAreFinite ==
    ASSUME NEW S \in SUBSET Price PROVE IsFiniteSet(S) /\ \A p \in S : p \in Int
<1>1. IsFiniteSet(Price) /\ Price \subseteq Int
  BY PriceAssumption, FS_Interval DEF Price
<1> QED
  BY <1>1, FS_Subset

LEMMA AheadIsSum ==
    \A L, side, p :
        Swept!Ahead(L, side, p)
          = SumFunctionOnSet(L, {q \in DOMAIN L : Swept!Better(side, q, p)})
BY DEF Swept!Ahead, Swept!SumFunctionOnSet, Swept!FoldFunctionOnSet,
       Swept!MapThenFoldSet, SumFunctionOnSet, FoldFunctionOnSet, MapThenFoldSet

LEMMA AheadIsNat ==
    ASSUME NEW side \in Side, NEW L \in Levels(Price), NEW p
    PROVE  Swept!Ahead(L, side, p) \in Nat
<1> DEFINE S == {q \in DOMAIN L : Swept!Better(side, q, p)}
<1>1. IsFiniteSet(S)
  BY LevelsShape, PricesAreFinite, FS_Subset
<1>2. \A q \in S : L[q] \in Nat
  BY LevelsShape, BoundAssumption
<1> HIDE DEF S
<1>3. SumFunctionOnSet(L, S) \in Nat
  BY <1>1, <1>2, SumNat
<1> QED
  BY <1>3, AheadIsSum DEF S

\* Nothing is ahead of the leading level, and it is ahead of all the others.
LEMMA AheadOfLeader ==
    ASSUME NEW side \in Side, NEW L \in Levels(Price), NEW a, Leads(side, L, a)
    PROVE  Swept!Ahead(L, side, a) = 0
<1>1. \A q \in DOMAIN L : ~Swept!Better(side, q, a)
  BY LevelsShape, PricesAreFinite DEF Leads, Swept!Better, Side
<1>2. {q \in DOMAIN L : Swept!Better(side, q, a)} = {}
  BY <1>1
<1> QED
  BY <1>2, SumEmpty, AheadIsSum

LEMMA AheadOfOthers ==
    ASSUME NEW side \in Side, NEW L \in Levels(Price), NEW a, Leads(side, L, a),
           NEW p \in DOMAIN L, p # a
    PROVE  /\ Swept!Ahead(L, side, p) = L[a] + Swept!Ahead(Erase(L, a), side, p)
           /\ \A m \in 1 .. MaxSize :
                Swept!Ahead(Assign(L, a, m), side, p)
                  = m + Swept!Ahead(Erase(L, a), side, p)
<1> DEFINE S == {q \in DOMAIN L : Swept!Better(side, q, p)}
           R == S \ {a}
           rest == Erase(L, a)
<1>1. a \in S /\ IsFiniteSet(S) /\ IsFiniteSet(R)
  <2>1. IsFiniteSet(DOMAIN L)
    BY LevelsShape, PricesAreFinite
  <2> QED
    BY <2>1, FS_Subset DEF Leads
<1>2. \A q \in S : L[q] \in Int
  BY LevelsShape, BoundAssumption
<1>3. /\ {q \in DOMAIN rest : Swept!Better(side, q, p)} = R
      /\ \A q \in R : rest[q] = L[q]
  BY DEF Erase
<1>4. Swept!Ahead(rest, side, p) = SumFunctionOnSet(L, R)
  <2> HIDE DEF R, rest
  <2> QED
    BY <1>1, <1>3, SumSame, AheadIsSum
<1>5. Swept!Ahead(L, side, p) = L[a] + SumFunctionOnSet(L, R)
  <2>1. SumFunctionOnSet(L, S) = L[a] + SumFunctionOnSet(L, S \ {a})
    <3> HIDE DEF S
    <3> QED
      BY <1>1, <1>2, SumRemove
  <2> QED
    BY <2>1, AheadIsSum
<1>6. ASSUME NEW m \in 1 .. MaxSize
      PROVE  Swept!Ahead(Assign(L, a, m), side, p) = m + SumFunctionOnSet(L, R)
  <2> DEFINE M == Assign(L, a, m)
  <2>1. /\ {q \in DOMAIN M : Swept!Better(side, q, p)} = S
        /\ M[a] = m /\ \A q \in R : M[q] = L[q]
    BY DEF Assign, Leads
  <2>2. m \in Int
    BY BoundAssumption
  <2> HIDE DEF M, S, R
  <2>3. SumFunctionOnSet(M, S) = M[a] + SumFunctionOnSet(M, S \ {a})
    BY <1>1, <1>2, <2>1, <2>2, SumRemove DEF R
  <2>4. SumFunctionOnSet(M, R) = SumFunctionOnSet(L, R)
    BY <1>1, <2>1, SumSame
  <2> QED
    BY <2>1, <2>3, <2>4, AheadIsSum DEF M, R
<1> HIDE DEF rest
<1> QED
  BY <1>4, <1>5, <1>6 DEF rest

LEMMA TurnTakes ==
    ASSUME NEW side \in Side, NEW L \in Levels(Price), NEW a, Leads(side, L, a),
           NEW n \in Nat, n > 0, NEW take, take = Take(L[a], n),
           NEW M, M = AfterTake(L, a, take)
    PROVE  /\ Swept!Taken(L, side, n, a) = take
           /\ take \in Nat /\ take > 0 /\ take <= n /\ n - take \in Nat
           /\ \A p \in DOMAIN L : p # a =>
                /\ p \in DOMAIN M /\ M[p] = L[p]
                /\ Swept!Taken(M, side, n - take, p) = Swept!Taken(L, side, n, p)
           /\ a \in DOMAIN M =>
                /\ M[a] = L[a] - take /\ Swept!Taken(M, side, n - take, a) = 0
           /\ a \in DOMAIN M <=> L[a] - take # 0
           /\ DOMAIN M \subseteq DOMAIN L
           /\ M \in Levels(Price)
<1>1. /\ a \in DOMAIN L /\ L[a] \in 1 .. MaxSize /\ MaxSize \in Nat
      /\ DOMAIN L \in SUBSET Price
  BY LevelsShape, BoundAssumption DEF Leads
<1>2. /\ take \in Nat /\ take > 0 /\ take <= n /\ n - take \in Nat
      /\ take = IF L[a] < n THEN L[a] ELSE n
  BY <1>1 DEF Take
<1>3. Swept!Taken(L, side, n, a) = take
  BY <1>1, <1>2, AheadOfLeader DEF Swept!Taken, Swept!Least
<1>4. /\ DOMAIN M = IF L[a] - take = 0 THEN DOMAIN L \ {a} ELSE DOMAIN L
      /\ L[a] - take # 0 => M[a] = L[a] - take
      /\ \A p \in DOMAIN L : p # a => M[p] = L[p]
      /\ M \in Levels(Price)
  <2>1. CASE L[a] - take = 0
    <3>1. M = Erase(L, a)
      BY <2>1 DEF AfterTake
    <3> QED
      BY <2>1, <3>1, EraseShape DEF Erase
  <2>2. CASE L[a] - take # 0
    <3> DEFINE m == L[a] - take
    <3>1. m \in 1 .. MaxSize
      BY <1>1, <1>2, <2>2
    <3>2. M = Assign(L, a, m)
      BY <2>2 DEF AfterTake
    <3>3. a \in Price
      BY <1>1
    <3> HIDE DEF m
    <3>4. DOMAIN M = DOMAIN L /\ M[a] = m /\ \A p \in DOMAIN L : p # a => M[p] = L[p]
      BY <1>1, <3>2 DEF Assign
    <3>5. M \in Levels(Price)
      <4>1. Assign(L, a, m) \in Levels(Price)
        BY <3>1, <3>3, AssignShape
      <4> QED
        BY <3>2, <4>1
    <3> QED
      BY <2>2, <3>4, <3>5 DEF m
  <2> QED
    BY <2>1, <2>2
<1>5. ASSUME NEW p \in DOMAIN L, p # a
      PROVE  Swept!Taken(M, side, n - take, p) = Swept!Taken(L, side, n, p)
  <2> DEFINE behind == Swept!Ahead(Erase(L, a), side, p)
  <2>1. behind \in Nat
    BY EraseShape, AheadIsNat
  <2>2. Swept!Ahead(L, side, p) = L[a] + behind
    BY <1>5, AheadOfOthers
  <2>3. Swept!Ahead(M, side, p) = L[a] - take + behind
    <3>1. CASE L[a] - take = 0
      <4>1. M = Erase(L, a)
        BY <3>1 DEF AfterTake
      <4> QED
        BY <2>1, <3>1, <4>1
    <3>2. CASE L[a] - take # 0
      <4> DEFINE m == L[a] - take
      <4>1. M = Assign(L, a, m) /\ m \in 1 .. MaxSize
        BY <1>1, <1>2, <3>2 DEF AfterTake
      <4> HIDE DEF m, behind
      <4>2. Swept!Ahead(Assign(L, a, m), side, p) = m + behind
        BY <1>5, <4>1, AheadOfOthers DEF behind
      <4> QED
        BY <4>1, <4>2 DEF m
    <3> QED
      BY <3>1, <3>2
  <2>4. M[p] = L[p] /\ L[p] \in Nat
    BY <1>1, <1>4, <1>5, LevelsShape
  <2> HIDE DEF behind
  <2> QED
    BY <1>1, <1>2, <2>1, <2>2, <2>3, <2>4 DEF Swept!Taken, Swept!Least
<1>6. ASSUME a \in DOMAIN M PROVE Swept!Taken(M, side, n - take, a) = 0
  <2>1. n - take = 0
    BY <1>1, <1>2, <1>4, <1>6
  <2>2. Swept!Ahead(M, side, a) \in Nat
    BY <1>4, AheadIsNat
  <2> QED
    BY <2>1, <2>2 DEF Swept!Taken
<1> QED
  BY <1>1, <1>2, <1>3, <1>4, <1>5, <1>6

LEMMA TurnLeaves ==
    ASSUME NEW side \in Side, NEW L \in Levels(Price), NEW a, Leads(side, L, a),
           NEW n \in Nat, n > 0, NEW take, take = Take(L[a], n),
           NEW M, M = AfterTake(L, a, take)
    PROVE  Swept!Left(M, side, n - take) = Swept!Left(L, side, n)
<1> DEFINE TL(p) == Swept!Taken(L, side, n, p)
           TM(p) == Swept!Taken(M, side, n - take, p)
           Stay == {q \in DOMAIN L : TL(q) < L[q]}
<1>1. /\ TL(a) = take /\ take \in Nat
      /\ \A p \in DOMAIN L : p # a => p \in DOMAIN M /\ M[p] = L[p] /\ TM(p) = TL(p)
      /\ a \in DOMAIN M => M[a] = L[a] - take /\ TM(a) = 0
      /\ a \in DOMAIN M <=> L[a] - take # 0
      /\ DOMAIN M \subseteq DOMAIN L
  BY TurnTakes
<1>2. L[a] \in Nat /\ take <= L[a] /\ a \in DOMAIN L
  BY LevelsShape, BoundAssumption DEF Take, Leads
<1> HIDE DEF TL, TM
<1>3. {q \in DOMAIN M : TM(q) < M[q]} = Stay
  <2>1. ASSUME NEW q \in DOMAIN L, q # a
        PROVE  q \in DOMAIN M /\ (TM(q) < M[q] <=> TL(q) < L[q])
    BY <1>1, <2>1
  <2>2. (a \in DOMAIN M /\ TM(a) < M[a]) <=> TL(a) < L[a]
    BY <1>1, <1>2
  <2> QED
    BY <1>1, <1>2, <2>1, <2>2
<1>4. ASSUME NEW q \in Stay PROVE M[q] - TM(q) = L[q] - TL(q)
  <2>1. CASE q = a
    BY <1>1, <1>2, <1>4, <2>1
  <2>2. CASE q # a
    BY <1>1, <1>4, <2>2
  <2> QED
    BY <2>1, <2>2
<1> HIDE DEF Stay
<1>5. [p \in Stay |-> M[p] - TM(p)] = [p \in Stay |-> L[p] - TL(p)]
  BY <1>4
<1> QED
  BY <1>3, <1>5 DEF Swept!Left, TL, TM, Stay

LEMMA CountsAreSame == \A S : Swept!Cardinality(S) = Cardinality(S)
BY DEF Swept!Cardinality, Cardinality

\* Adding a price better than all moves the others down by one rank.
LEMMA RankShift ==
    ASSUME NEW side \in Side, NEW S \in SUBSET Price, NEW a \in Price, a \notin S,
           \A q \in S : Swept!Better(side, a, q)
    PROVE  /\ Cardinality(S) \in Nat
           /\ Cardinality(S \cup {a}) = Cardinality(S) + 1
           /\ Swept!Ranked(S \cup {a}, side, 1) = a
           /\ \A k \in Nat \ {0} :
                Swept!Ranked(S \cup {a}, side, k + 1) = Swept!Ranked(S, side, k)
<1> DEFINE T == S \cup {a}
           In(R, p) == {q \in R : Swept!Better(side, q, p)}
<1>1. IsFiniteSet(S) /\ a \in Int /\ \A q \in S : q \in Int
  BY PricesAreFinite
<1>2. Cardinality(S) \in Nat /\ Cardinality(T) = Cardinality(S) + 1
  BY <1>1, FS_CardinalityType, FS_AddElement
<1>3. In(T, a) = {} /\ Cardinality(In(T, a)) = 0
  <2>1. \A q \in T : ~Swept!Better(side, q, a)
    BY <1>1 DEF Swept!Better, Side
  <2>2. In(T, a) = {}
    BY <2>1
  <2> QED
    BY <2>2, FS_EmptySet
<1>4. ASSUME NEW p \in S
      PROVE  /\ Cardinality(In(S, p)) \in Nat
             /\ Cardinality(In(T, p)) = Cardinality(In(S, p)) + 1
  <2>1. a \notin In(S, p) /\ In(T, p) = In(S, p) \cup {a}
    OBVIOUS
  <2>2. IsFiniteSet(In(S, p))
    BY <1>1, FS_Subset
  <2> HIDE DEF In
  <2> QED
    BY <2>1, <2>2, FS_AddElement, FS_CardinalityType
<1>5. Swept!Ranked(T, side, 1) = a
  <2>1. \A p \in T : Cardinality(In(T, p)) = 1 - 1 <=> p = a
    <3> HIDE DEF In
    <3> QED
      BY <1>3, <1>4
  <2> QED
    BY <2>1, CountsAreSame DEF Swept!Ranked
<1>6. ASSUME NEW k \in Nat \ {0}
      PROVE  Swept!Ranked(T, side, k + 1) = Swept!Ranked(S, side, k)
  <2>1. ASSUME NEW p
        PROVE  (p \in T /\ Cardinality(In(T, p)) = (k + 1) - 1)
                 <=> (p \in S /\ Cardinality(In(S, p)) = k - 1)
    <3> HIDE DEF In
    <3>1. CASE p \in S
      BY <1>4, <3>1
    <3>2. CASE p = a
      BY <1>3, <3>2
    <3>3. CASE p \notin T
      BY <3>3
    <3> QED
      BY <3>1, <3>2, <3>3
  <2>2. (CHOOSE p \in T : Cardinality(In(T, p)) = (k + 1) - 1)
          = (CHOOSE p \in S : Cardinality(In(S, p)) = k - 1)
    <3> HIDE DEF In, T
    <3> QED
      BY <2>1
  <2>3. Swept!Ranked(T, side, k + 1) = CHOOSE p \in T : Cardinality(In(T, p)) = (k + 1) - 1
    BY CountsAreSame DEF Swept!Ranked
  <2>4. Swept!Ranked(S, side, k) = CHOOSE p \in S : Cardinality(In(S, p)) = k - 1
    BY CountsAreSame DEF Swept!Ranked
  <2> QED
    BY <2>2, <2>3, <2>4
<1> QED
  BY <1>2, <1>5, <1>6

LEMMA BestLeads ==
    ASSUME NEW side \in Side, NEW S \in SUBSET Price, S # {}
    PROVE  \E a \in S : \A q \in S : q = a \/ Swept!Better(side, a, q)
BY FirstIsBest DEF Precedes, Swept!Better, Side

\* Every rank up to the number of prices is taken.
LEMMA RankInside ==
    ASSUME NEW side \in Side, NEW S \in SUBSET Price
    PROVE  \A k \in 1 .. Cardinality(S) : Swept!Ranked(S, side, k) \in S
<1> DEFINE Good == {s \in SUBSET Price :
                      \A k \in 1 .. Cardinality(s) : Swept!Ranked(s, side, k) \in s}
<1>1. ASSUME NEW s \in SUBSET Price, \A t \in SUBSET s : t # s => t \in Good,
             NEW k \in 1 .. Cardinality(s)
      PROVE  Swept!Ranked(s, side, k) \in s
  <2>1. s # {}
    BY FS_EmptySet
  <2>2. PICK a \in s : \A q \in s : q = a \/ Swept!Better(side, a, q)
    BY <2>1, BestLeads
  <2> DEFINE t == s \ {a}
  <2>3. t \in SUBSET Price /\ t \in Good /\ a \in Price /\ a \notin t /\ s = t \cup {a}
    BY <1>1
  <2>4. \A q \in t : Swept!Better(side, a, q)
    BY <2>2
  <2> HIDE DEF t
  <2>5. /\ Cardinality(t) \in Nat
        /\ Cardinality(s) = Cardinality(t) + 1
        /\ Swept!Ranked(s, side, 1) = a
        /\ \A j \in Nat \ {0} : Swept!Ranked(s, side, j + 1) = Swept!Ranked(t, side, j)
    BY <2>3, <2>4, RankShift
  <2>6. CASE k = 1
    BY <2>5, <2>6
  <2>7. CASE k # 1
    <3>1. k - 1 \in 1 .. Cardinality(t) /\ k - 1 \in Nat \ {0} /\ (k - 1) + 1 = k
      BY <2>5, <2>7
    <3>2. Swept!Ranked(s, side, k) = Swept!Ranked(t, side, k - 1)
      BY <2>5, <3>1
    <3> QED
      BY <2>3, <3>1, <3>2
  <2> QED
    BY <2>6, <2>7
<1>2. SUBSET Price \subseteq Good
  <2>1. \A s \in SUBSET Price : (\A t \in SUBSET s : t # s => t \in Good) => s \in Good
    BY <1>1
  <2>2. IsFiniteSet(Price)
    BY PricesAreFinite
  <2> HIDE DEF Good
  <2> QED
    BY <2>1, <2>2, SubsetInduction
<1> QED
  BY <1>2

\* What is traded is a fill of the turn and then what is traded after it.
LEMMA TurnTrades ==
    ASSUME NEW side \in Side, NEW L \in Levels(Price), NEW a, Leads(side, L, a),
           NEW n \in Nat, n > 0, NEW take, take = Take(L[a], n),
           NEW M, M = AfterTake(L, a, take)
    PROVE  Swept!Trades(L, side, n)
             = <<[price |-> a, size |-> take]>> \o Swept!Trades(M, side, n - take)
<1> DEFINE TL(p) == Swept!Taken(L, side, n, p)
           TM(p) == Swept!Taken(M, side, n - take, p)
           H == Swept!Hit(L, side, n)
           G == Swept!Hit(M, side, n - take)
           XL == Swept!Trades(L, side, n)
           XM == Swept!Trades(M, side, n - take)
           r == [price |-> a, size |-> take]
<1>1. /\ TL(a) = take /\ take > 0 /\ take \in Nat
      /\ \A p \in DOMAIN L : p # a => p \in DOMAIN M /\ TM(p) = TL(p)
      /\ a \in DOMAIN M => TM(a) = 0
      /\ DOMAIN M \subseteq DOMAIN L
  BY TurnTakes
<1>2. a \in DOMAIN L /\ DOMAIN L \in SUBSET Price
  BY LevelsShape DEF Leads
<1>3. H = {p \in DOMAIN L : TL(p) > 0} /\ G = {p \in DOMAIN M : TM(p) > 0}
  BY DEF Swept!Hit
<1> HIDE DEF TL, TM, H, G
<1>4. /\ H = G \cup {a} /\ a \notin G /\ G \in SUBSET Price /\ a \in Price
      /\ \A q \in G : TM(q) = TL(q)
  BY <1>1, <1>2, <1>3
<1>5. \A q \in G : Swept!Better(side, a, q)
  BY <1>1, <1>3, <1>4 DEF Leads
<1>6. /\ Cardinality(G) \in Nat /\ Cardinality(H) = Cardinality(G) + 1
      /\ Swept!Ranked(H, side, 1) = a
      /\ \A k \in Nat \ {0} : Swept!Ranked(H, side, k + 1) = Swept!Ranked(G, side, k)
  BY <1>4, <1>5, RankShift
<1>7. XL = [k \in 1 .. Cardinality(H) |-> [price |-> Swept!Ranked(H, side, k),
                                           size  |-> TL(Swept!Ranked(H, side, k))]]
  BY CountsAreSame DEF Swept!Trades, H, TL
<1>8. XM = [k \in 1 .. Cardinality(G) |-> [price |-> Swept!Ranked(G, side, k),
                                           size  |-> TM(Swept!Ranked(G, side, k))]]
  BY CountsAreSame DEF Swept!Trades, G, TM
<1> HIDE DEF XL, XM
<1> DEFINE Any == {XM[k] : k \in DOMAIN XM}
<1>9. XM \in Seq(Any) /\ Len(XM) = Cardinality(G)
  <2>1. DOMAIN XM = 1 .. Cardinality(G) /\ XM = [k \in DOMAIN XM |-> XM[k]]
    BY <1>8
  <2>2. \A k \in DOMAIN XM : XM[k] \in Any
    OBVIOUS
  <2> HIDE DEF Any
  <2>3. XM \in [1 .. Cardinality(G) -> Any]
    BY <2>1, <2>2
  <2>4. PICK c : c = Cardinality(G)
    OBVIOUS
  <2>5. c \in Nat /\ XM \in [1 .. c -> Any]
    BY <1>6, <2>3, <2>4
  <2>6. XM \in Seq(Any)
    BY <2>5, SeqDef
  <2>7. Len(XM) = c
    BY <2>5, <2>6, LenProperties
  <2> QED
    BY <2>4, <2>6, <2>7
<1>10. XL[1] = r /\ DOMAIN XL = 1 .. Cardinality(G) + 1
  BY <1>1, <1>6, <1>7
<1>11. ASSUME NEW k \in 1 .. Cardinality(G) PROVE XL[k + 1] = XM[k]
  <2>1. Swept!Ranked(G, side, k) \in G
    BY <1>4, RankInside
  <2>2. k \in Nat \ {0} /\ k + 1 \in 1 .. Cardinality(H)
    BY <1>6
  <2>3. Swept!Ranked(H, side, k + 1) = Swept!Ranked(G, side, k)
    BY <1>6, <2>2
  <2> QED
    BY <1>4, <1>7, <1>8, <2>1, <2>2, <2>3
<1>12. /\ <<r>> \o XM \in Seq(Any \cup {r}) /\ DOMAIN (<<r>> \o XM) = 1 .. 1 + Len(XM)
       /\ (<<r>> \o XM)[1] = r
       /\ \A k \in 1 .. Len(XM) : (<<r>> \o XM)[k + 1] = XM[k]
  <2> HIDE DEF Any, r
  <2>1. XM \in Seq(Any \cup {r}) /\ <<r>> \in Seq(Any \cup {r}) /\ Len(<<r>>) = 1
    BY <1>9
  <2> QED
    BY <2>1, ConcatProperties
<1>13. XL = <<r>> \o XM
  <2>1. DOMAIN XL = DOMAIN (<<r>> \o XM)
    BY <1>6, <1>9, <1>10, <1>12
  <2>2. ASSUME NEW i \in 1 .. Cardinality(G) + 1 PROVE XL[i] = (<<r>> \o XM)[i]
    <3>1. CASE i = 1
      BY <1>10, <1>12, <3>1
    <3>2. CASE i # 1
      <4>1. i - 1 \in 1 .. Cardinality(G) /\ (i - 1) + 1 = i
        BY <1>6, <3>2
      <4>2. XL[(i - 1) + 1] = XM[i - 1]
        BY <1>11, <4>1
      <4>3. (<<r>> \o XM)[(i - 1) + 1] = XM[i - 1]
        BY <1>9, <1>12, <4>1
      <4> QED
        BY <4>1, <4>2, <4>3
    <3> QED
      BY <3>1, <3>2
  <2>3. XL = [i \in 1 .. Cardinality(G) + 1 |-> XL[i]]
    BY <1>7, <1>10
  <2>4. <<r>> \o XM = [i \in 1 .. Cardinality(G) + 1 |-> (<<r>> \o XM)[i]]
    <3> DEFINE s == <<r>> \o XM
    <3>1. s \in Seq(Any \cup {r}) /\ DOMAIN s = 1 .. Cardinality(G) + 1
      BY <1>6, <1>9, <1>12
    <3> HIDE DEF s
    <3>2. s = [i \in DOMAIN s |-> s[i]]
      BY <3>1
    <3> QED
      BY <3>1, <3>2 DEF s
  <2> QED
    BY <2>2, <2>3, <2>4
<1> QED
  BY <1>9, <1>13 DEF XL, XM
-----------------------------------------------------------------------------
(* The book behind the lock is the book of single moments *)

\* The refinement mapping: the book and the fills with the rest of the order
\* under way already carried out.
Settled == IF ~locked THEN books
           ELSE [books EXCEPT ![order.symbol][Facing(order.side)] =
                    Swept!Left(@, order.side, remaining)]
Told    == IF ~locked THEN fills
           ELSE fills \o Swept!Trades(facing, order.side, remaining)

\* An order that wants nothing, or finds nothing, changes nothing.
LEMMA NothingToDo ==
    ASSUME NEW side \in Side, NEW L \in Levels(Price), NEW n \in Nat,
           n = 0 \/ DOMAIN L = {}
    PROVE  Swept!Left(L, side, n) = L /\ Swept!Trades(L, side, n) = << >>
<1>1. \A p \in DOMAIN L : Swept!Taken(L, side, n, p) = 0 /\ L[p] \in Nat /\ L[p] > 0
  <2> SUFFICES ASSUME NEW p \in DOMAIN L
               PROVE  Swept!Taken(L, side, n, p) = 0 /\ L[p] \in Nat /\ L[p] > 0
    OBVIOUS
  <2>1. n = 0 /\ Swept!Ahead(L, side, p) \in Nat
    BY AheadIsNat
  <2> QED
    BY <2>1, LevelsShape, BoundAssumption DEF Swept!Taken
<1>2. Swept!Left(L, side, n) = L
  <2>1. {q \in DOMAIN L : Swept!Taken(L, side, n, q) < L[q]} = DOMAIN L
    BY <1>1
  <2>2. Swept!Left(L, side, n) = [p \in DOMAIN L |-> L[p] - Swept!Taken(L, side, n, p)]
    BY <2>1 DEF Swept!Left
  <2>3. [p \in DOMAIN L |-> L[p] - Swept!Taken(L, side, n, p)] = [p \in DOMAIN L |-> L[p]]
    BY <1>1
  <2> QED
    BY <2>2, <2>3, LevelsShape
<1>3. Swept!Trades(L, side, n) = << >>
  <2>1. Swept!Hit(L, side, n) = {}
    BY <1>1 DEF Swept!Hit
  <2>2. Swept!Cardinality({}) = 0 /\ 1 .. 0 = {}
    BY CountsAreSame, FS_EmptySet
  <2> QED
    BY <2>1, <2>2 DEF Swept!Trades
<1> QED
  BY <1>2, <1>3

LEMMA TradesAreASequence ==
    ASSUME NEW side \in Side, NEW L \in Levels(Price), NEW n \in Nat,
           NEW X, X = Swept!Trades(L, side, n)
    PROVE  X \in Seq({X[k] : k \in DOMAIN X})
<1> DEFINE H == Swept!Hit(L, side, n)
           Any == {X[k] : k \in DOMAIN X}
<1>1. IsFiniteSet(H) /\ Cardinality(H) \in Nat
  <2>1. H \in SUBSET Price
    BY LevelsShape DEF Swept!Hit
  <2> HIDE DEF H
  <2> QED
    BY <2>1, PricesAreFinite, FS_CardinalityType
<1>2. DOMAIN X = 1 .. Cardinality(H) /\ X = [k \in DOMAIN X |-> X[k]]
  BY CountsAreSame DEF Swept!Trades
<1>3. \A k \in DOMAIN X : X[k] \in Any
  OBVIOUS
<1> HIDE DEF Any, H
<1>4. X \in [1 .. Cardinality(H) -> Any]
  BY <1>2, <1>3
<1>5. PICK c : c = Cardinality(H)
  OBVIOUS
<1>6. X \in Seq(Any)
  BY <1>1, <1>4, <1>5, SeqDef
<1> QED
  BY <1>6 DEF Any

\* The abstract book's definitions of an order are the ones used here.
LEMMA SameSweep ==
    \A L, side, n : /\ Atomic!Left(L, side, n) = Swept!Left(L, side, n)
                    /\ Atomic!Trades(L, side, n) = Swept!Trades(L, side, n)
<1>1. \A L, side, p : Atomic!Ahead(L, side, p) = Swept!Ahead(L, side, p)
  BY DEF Swept!Ahead, Swept!SumFunctionOnSet, Swept!FoldFunctionOnSet,
         Swept!MapThenFoldSet, Atomic!Ahead, Atomic!SumFunctionOnSet,
         Atomic!FoldFunctionOnSet, Atomic!MapThenFoldSet, Atomic!Better, Swept!Better
<1>2. \A L, side, n, p : Atomic!Taken(L, side, n, p) = Swept!Taken(L, side, n, p)
  BY <1>1 DEF Atomic!Taken, Swept!Taken, Atomic!Least, Swept!Least
<1>3. \A S : Atomic!Cardinality(S) = Swept!Cardinality(S)
  BY DEF Atomic!Cardinality, Swept!Cardinality
<1>4. \A S, side, k : Atomic!Ranked(S, side, k) = Swept!Ranked(S, side, k)
  BY <1>3 DEF Atomic!Ranked, Swept!Ranked, Atomic!Better, Swept!Better
<1>5. \A L, side, n : Atomic!Hit(L, side, n) = Swept!Hit(L, side, n)
  BY <1>2 DEF Atomic!Hit, Swept!Hit
<1>6. \A L, side, n : Atomic!Left(L, side, n) = Swept!Left(L, side, n)
  BY <1>2 DEF Atomic!Left, Swept!Left
<1>7. \A L, side, n : Atomic!Trades(L, side, n) = Swept!Trades(L, side, n)
  BY <1>2, <1>3, <1>4, <1>5 DEF Atomic!Trades, Swept!Trades
<1> QED
  BY <1>6, <1>7

LEMMA AtomicInit == Init => Atomic!Init
<1> SUFFICES ASSUME Init PROVE Atomic!Init
  OBVIOUS
<1>1. ~locked
  BY DEF Init, locked
<1> QED
  BY <1>1 DEF Init, Atomic!Init


\* An event is an update of the book at that moment.
LEMMA EventIsUpdate ==
    ASSUME TypeOK, NEW sym \in Symbol, NEW price \in Price, NEW size \in 0 .. MaxSize,
           RemoveLevel(sym, price, size) \/ SetLevel(sym, price, size)
    PROVE  Atomic!Update(sym, price, size)
<1> DEFINE b == books[sym]
<1>1. ~locked /\ ~locked' /\ UNCHANGED fills
  BY DEF RemoveLevel, SetLevel, locked
<1>2. b \in SideBook /\ b = [bids |-> b.bids, asks |-> b.asks]
  BY DEF TypeOK, SideBook
<1>3. size \in Nat
  BY BoundAssumption
<1>4. CASE RemoveLevel(sym, price, size)
  <2>1. size = 0
    BY <1>3, <1>4 DEF RemoveLevel
  <2>2. books' = [books EXCEPT ![sym] = [bids |-> Erase(@.bids, price),
                                         asks |-> Erase(@.asks, price)]]
    <3>1. books' = [books EXCEPT ![sym] =
                       [[b EXCEPT !.bids = Erase(b.bids, price)]
                           EXCEPT !.asks = Erase(b.asks, price)]]
      BY <1>2, <1>4 DEF RemoveLevel, TypeOK, SideBook
    <3>2. ASSUME NEW x, NEW y
          PROVE  [[b EXCEPT !.bids = x] EXCEPT !.asks = y] = [bids |-> x, asks |-> y]
      <4>1. ASSUME NEW u, NEW v
            PROVE  /\ [[bids |-> u, asks |-> v] EXCEPT !.bids = x] = [bids |-> x, asks |-> v]
                   /\ [[bids |-> x, asks |-> v] EXCEPT !.asks = y] = [bids |-> x, asks |-> y]
        OBVIOUS
      <4> HIDE DEF b
      <4> QED
        BY <1>2, <4>1
    <3> QED
      BY <3>1, <3>2
  <2> QED
    BY <1>1, <2>1, <2>2 DEF Atomic!Update, Erase
<1>5. CASE SetLevel(sym, price, size)
  <2>1. size > 0
    BY <1>5 DEF SetLevel
  <2>2. IsBid(sym, price) <=> \E x \in DOMAIN books[sym].bids : price <= x
    <3>1. \A x \in DOMAIN b.bids : x \in Int
      <4>1. b.bids \in Levels(Price)
        BY <1>2 DEF SideBook
      <4> QED
        BY <4>1, LevelsShape, PricesAreFinite
    <3>2. price \in Int
      BY PriceAssumption DEF Price
    <3> QED
      BY <3>1, <3>2, BidRule
  <2> DEFINE f == IF \E x \in DOMAIN books[sym].bids : price <= x THEN "bids" ELSE "asks"
  <2>3. books' = [books EXCEPT ![sym][f] = Assign(@, price, size)]
    <3>1. CASE IsBid(sym, price)
      BY <1>5, <2>2, <3>1 DEF SetLevel
    <3>2. CASE ~IsBid(sym, price)
      BY <1>5, <2>2, <3>2 DEF SetLevel
    <3> QED
      BY <3>1, <3>2
  <2>4. books' = [books EXCEPT ![sym][f] =
                     [p \in DOMAIN @ \cup {price} |-> IF p = price THEN size ELSE @[p]]]
    BY <2>3 DEF Assign
  <2> QED
    BY <1>1, <2>1, <2>4 DEF Atomic!Update
<1> QED
  BY <1>4, <1>5

\* An order takes effect, all of it, as the lock is taken for it.
LEMMA BeginIsTrade ==
    ASSUME TypeOK, NEW o \in Order, BeginMatch(o)
    PROVE  Atomic!Trade(o.symbol, o.side, o.size)
<1> DEFINE f == Facing(o.side)
           L == books[o.symbol][f]
           X == Swept!Trades(L, o.side, o.size)
<1>1. /\ ~locked /\ locked'
      /\ order' = o /\ remaining' = o.size /\ fills' = << >> /\ books' = books
  BY NoOrderAssumption DEF BeginMatch, locked
<1>2. /\ o.side \in Side /\ o.symbol \in Symbol /\ o.size \in Nat
      /\ f \in {"bids", "asks"} /\ f = Atomic!Opposite[o.side]
  BY BoundAssumption DEF Order, Side, Facing, Atomic!Opposite
<1>3. L \in Levels(Price) /\ facing' = L
  BY <1>1, <1>2 DEF TypeOK, SideBook, facing
<1>4. Settled = books /\ Told = fills
  BY <1>1 DEF Settled, Told
<1>5. Settled' = [books EXCEPT ![o.symbol][f] = Swept!Left(@, o.side, o.size)]
  BY <1>1 DEF Settled
<1>6. Told' = X
  <2>1. Told' = << >> \o X
    BY <1>1, <1>3 DEF Told
  <2>2. X \in Seq({X[k] : k \in DOMAIN X})
    <3> HIDE DEF L
    <3> QED
      BY <1>2, <1>3, TradesAreASequence
  <2> HIDE DEF X
  <2> QED
    BY <2>1, <2>2, ConcatEmptySeq
<1> HIDE DEF f
<1> QED
  BY <1>2, <1>4, <1>5, <1>6, SameSweep DEF Atomic!Trade, Settled, Told

\* A turn of the loop changes nothing that was not settled when the lock was taken.
LEMMA TurnIsNothing ==
    ASSUME TypeOK, BestFirst, TakeLevel
    PROVE  Settled' = Settled /\ Told' = Told
<1> DEFINE f == Facing(order.side)
           side == order.side
           L == facing
           take == Take(L[ait], remaining)
           M == AfterTake(L, ait, take)
           r == [price |-> ait, size |-> take]
           X == Swept!Trades(M, side, remaining - take)
<1>1. /\ locked /\ locked' /\ order' = order /\ remaining > 0 /\ ait # End
      /\ remaining' = remaining - take
      /\ fills' = Append(fills, r)
      /\ books' = [books EXCEPT ![order.symbol][f] =
                      IF L[ait] - take = 0 THEN Erase(@, ait) ELSE Assign(@, ait, L[ait] - take)]
  BY DEF TakeLevel, locked
<1>2. /\ order \in Order /\ side \in Side /\ order.symbol \in Symbol
      /\ f \in {"bids", "asks"} /\ remaining \in Nat
      /\ books \in [Symbol -> SideBook] /\ fills \in Seq(Fill)
  BY <1>1, BoundAssumption DEF TypeOK, Order, Side, Facing, locked
<1>3. L = books[order.symbol][f] /\ L \in Levels(Price)
  BY <1>2 DEF SideBook, facing
<1>4. Leads(side, L, ait)
  BY <1>1, <1>2 DEF BestFirst, Leads, Precedes, Swept!Better, Side
<1>5. books' = [books EXCEPT ![order.symbol][f] = M]
  <2> HIDE DEF take, f
  <2> QED
    BY <1>1, <1>2, <1>3 DEF AfterTake, SideBook
<1>6. /\ Swept!Left(M, side, remaining - take) = Swept!Left(L, side, remaining)
      /\ X \in Seq({X[k] : k \in DOMAIN X})
      /\ Swept!Trades(L, side, remaining) = <<r>> \o X
  <2>1. /\ side \in Side /\ L \in Levels(Price) /\ Leads(side, L, ait)
        /\ remaining \in Nat /\ remaining > 0
        /\ take = Take(L[ait], remaining) /\ M = AfterTake(L, ait, take)
    BY <1>1, <1>2, <1>3, <1>4
  <2> HIDE DEF side, L, M, take, r
  <2>2. Swept!Left(M, side, remaining - take) = Swept!Left(L, side, remaining)
    BY <2>1, TurnLeaves
  <2>3. Swept!Trades(L, side, remaining)
          = <<[price |-> ait, size |-> take]>> \o Swept!Trades(M, side, remaining - take)
    BY <2>1, TurnTrades
  <2>4. M \in Levels(Price) /\ remaining - take \in Nat
    BY <2>1, TurnTakes
  <2>5. X \in Seq({X[k] : k \in DOMAIN X})
    BY <2>1, <2>4, TradesAreASequence
  <2> QED
    BY <2>2, <2>3, <2>5 DEF r
<1> HIDE DEF M, take
<1>7. facing' = M
  BY <1>1, <1>2, <1>5 DEF SideBook, facing
<1>8. Settled' = Settled
  <2> HIDE DEF L
  <2>1. Settled = [books EXCEPT ![order.symbol][f] = Swept!Left(L, side, remaining)]
    BY <1>1, <1>2, <1>3 DEF Settled, SideBook
  <2>2. Settled' = [books' EXCEPT ![order.symbol][f] = Swept!Left(M, side, remaining - take)]
    <3>1. Settled' = [books' EXCEPT ![order.symbol][f] = Swept!Left(@, side, remaining - take)]
      BY <1>1 DEF Settled
    <3>2. books'[order.symbol][f] = M
      BY <1>2, <1>5 DEF SideBook
    <3> HIDE DEF f
    <3> QED
      BY <3>1, <3>2
  <2>3. Settled' = [books EXCEPT ![order.symbol][f] = Swept!Left(M, side, remaining - take)]
    BY <1>2, <1>5, <2>2 DEF SideBook
  <2> QED
    BY <1>6, <2>1, <2>3
<1>9. Told' = Told
  <2> HIDE DEF X, L, r
  <2>1. Told' = Append(fills, r) \o X /\ Told = fills \o (<<r>> \o X)
    BY <1>1, <1>6, <1>7 DEF Told, X, L
  <2> DEFINE All == Fill \cup {r} \cup {X[k] : k \in DOMAIN X}
  <2>2. fills \in Seq(All) /\ <<r>> \in Seq(All) /\ X \in Seq(All) /\ r \in All
    BY <1>2, <1>6
  <2> HIDE DEF All
  <2>3. Append(fills, r) = fills \o <<r>>
    BY <2>2, AppendIsConcat
  <2>4. (fills \o <<r>>) \o X = fills \o (<<r>> \o X)
    BY <2>2, ConcatAssociative
  <2> QED
    BY <2>1, <2>3, <2>4
<1> QED
  BY <1>8, <1>9

\* Nor does the end of the loop: it stops only when there is nothing to do.
LEMMA EndIsNothing ==
    ASSUME TypeOK, BestFirst, EndMatch
    PROVE  Settled' = Settled /\ Told' = Told
<1> DEFINE f == Facing(order.side)
           L == facing
<1>1. locked /\ ~locked' /\ LoopEnds /\ books' = books /\ fills' = fills
  BY DEF EndMatch, locked
<1>2. /\ order \in Order /\ order.side \in Side /\ order.symbol \in Symbol
      /\ f \in {"bids", "asks"} /\ remaining \in Nat
      /\ books \in [Symbol -> SideBook] /\ fills \in Seq(Fill)
  BY <1>1, BoundAssumption DEF TypeOK, Order, Side, Facing, locked
<1>3. L = books[order.symbol][f] /\ L \in Levels(Price)
  BY <1>2 DEF SideBook, facing
<1>4. remaining = 0 \/ DOMAIN L = {}
  <2>1. CASE remaining > 0
    <3>1. ait = End
      BY <1>1, <1>2, <2>1 DEF LoopEnds
    <3> QED
      BY <1>1, <2>1, <3>1 DEF BestFirst
  <2>2. CASE ~(remaining > 0)
    BY <1>2, <2>2
  <2> QED
    BY <2>1, <2>2
<1> HIDE DEF L
<1>5. Swept!Left(L, order.side, remaining) = L /\ Swept!Trades(L, order.side, remaining) = << >>
  BY <1>2, <1>3, <1>4, NothingToDo
<1>6. Settled' = Settled
  <2>1. Settled = [books EXCEPT ![order.symbol][f] = Swept!Left(L, order.side, remaining)]
    BY <1>1, <1>2, <1>3 DEF Settled, SideBook
  <2>2. [books EXCEPT ![order.symbol][f] = L] = books
    BY <1>2, <1>3 DEF SideBook
  <2> QED
    BY <1>1, <1>5, <2>1, <2>2 DEF Settled
<1>7. Told' = Told
  <2>1. Told = fills \o << >>
    BY <1>1, <1>5 DEF Told, L
  <2>2. Told = fills
    BY <1>2, <2>1, ConcatEmptySeq
  <2> QED
    BY <1>1, <2>2 DEF Told
<1> QED
  BY <1>6, <1>7

\* To anyone who takes the lock the book changes at single moments: an update,
\* or an order with all it does, as the sweep defines it.  The loop of
\* match_order, its erasures and its early ends are not to be seen.
THEOREM BookImplementsMarket == Spec => ImplementsMarketBook
<1>1. ASSUME IInv, [Next]_vars PROVE [Atomic!Next]_Atomic!vars
  <2>0. TypeOK /\ BestFirst
    BY <1>1 DEF IInv
  <2>1. ASSUME NEW sym \in Symbol, NEW price \in Price, NEW size \in 0 .. MaxSize,
               RemoveLevel(sym, price, size) \/ SetLevel(sym, price, size)
        PROVE  Atomic!Next
    BY <2>0, <2>1, EventIsUpdate DEF Atomic!Next
  <2>2. ASSUME NEW o \in Order, BeginMatch(o) PROVE Atomic!Next
    <3>1. o.symbol \in Symbol /\ o.side \in {"BUY", "SELL"} /\ o.size \in 1 .. MaxOrder
      BY DEF Order
    <3>2. Atomic!Trade(o.symbol, o.side, o.size)
      BY <2>0, <2>2, BeginIsTrade
    <3> QED
      BY <3>1, <3>2 DEF Atomic!Next
  <2>3. ASSUME Settled' = Settled /\ Told' = Told PROVE UNCHANGED Atomic!vars
    BY <2>3 DEF Settled, Told, Atomic!vars
  <2>4. CASE TakeLevel
    BY <2>0, <2>3, <2>4, TurnIsNothing
  <2>5. CASE EndMatch
    BY <2>0, <2>3, <2>5, EndIsNothing
  <2>6. CASE UNCHANGED vars
    BY <2>3, <2>6 DEF vars, Settled, Told, locked, facing
  <2> QED
    BY <1>1, <2>1, <2>2, <2>4, <2>5, <2>6 DEF Next, Feed, Match
<1> QED
  BY <1>1, AtomicInit, IInvHolds, PTL DEF Spec, ImplementsMarketBook, Atomic!Spec
=============================================================================
