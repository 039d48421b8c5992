--------------------------- MODULE SPSCQueueProofs ---------------------------
(***************************************************************************)
(* The ring is safe for every capacity, every item set and every burst     *)
(* length, on a build that keeps pop()'s two loads in order.               *)
(*                                                                         *)
(* The argument: between reading head_ and storing tail_ the producer owns *)
(* the slots tail .. tail + to_push - 1, and head_ can only move away from *)
(* them (the room it counted never shrinks under it); between reading      *)
(* tail_ and storing head_ the consumer owns the slot at head.             *)
(***************************************************************************)
EXTENDS SPSCQueue, SequenceTheorems, TLAPS

\* What the producer relies on inside push_bulk: its burst fits the room that
\* is free now, and the slots copied so far hold the burst's first items.
ProducerInv ==
    /\ ppc = "idle" => to_push = 0 /\ i = 0 /\ items = << >>
    /\ ppc # "idle" => /\ items \in Bursts
                       /\ to_push \in 1 .. free_slots
                       /\ to_push <= Len(items)
    /\ ppc \in {"copy", "writing"} => i < to_push
    /\ ppc = "publish" => i = to_push
    /\ \A j \in 0 .. i - 1 : buffer[Wrap(tail + j)] = items[j + 1]

\* Every slot between head and tail holds an event somebody pushed.
PublishedInv == \A k \in 0 .. size - 1 : buffer[Wrap(head + k)] \in Item

\* What the consumer relies on inside pop: once past the test the slot at head
\* stays published until it advances head itself.
ConsumerInv ==
    /\ cpc \in {"reading", "advance"} => head # tail
    /\ cpc = "advance" => out = buffer[head]
    /\ ~early

IInv == TypeOK /\ ProducerInv /\ PublishedInv /\ ConsumerInv

-----------------------------------------------------------------------------
(* Arithmetic of the indices *)

\* "& mask_" on a sum or a difference of two indices, by cases.
LEMMA WrapCases ==
    /\ \A n \in Int : Wrap(n) \in Slots
    /\ \A n \in 0 .. Capacity - 1 : Wrap(n) = n
    /\ \A n \in Capacity .. 2 * Capacity - 1 : Wrap(n) = n - Capacity
    /\ \A n \in (-Capacity) .. -1 : Wrap(n) = n + Capacity
BY CapacityAssumption, SMT DEF Wrap, Slots

\* The number of published events is the distance from head to tail.
LEMMA DistanceCases ==
    /\ mask \in Nat /\ mask >= 1 /\ Capacity = mask + 1
    /\ \A h, t \in Slots :
         /\ Wrap(t - h) = IF t >= h THEN t - h ELSE t - h + Capacity
         /\ Wrap(t - h) \in 0 .. mask
         /\ Wrap(t - h) = 0 <=> h = t
<1>1. mask \in Nat /\ mask >= 1 /\ Capacity = mask + 1
  BY CapacityAssumption DEF mask
<1>2. ASSUME NEW h \in Slots, NEW t \in Slots
      PROVE  t - h \in (-Capacity) .. (Capacity - 1)
  BY CapacityAssumption DEF Slots
<1>3. ASSUME NEW h \in Slots, NEW t \in Slots
      PROVE  Wrap(t - h) = IF t >= h THEN t - h ELSE t - h + Capacity
  BY <1>2, WrapCases, CapacityAssumption DEF Slots
<1> QED
  BY <1>1, <1>3, CapacityAssumption DEF Slots, mask

\* The slot j places after the tail.
LEMMA PlaceCases ==
    \A t \in Slots, j \in 0 .. Capacity :
        Wrap(t + j) = IF t + j < Capacity THEN t + j ELSE t + j - Capacity
BY WrapCases, CapacityAssumption DEF Slots

\* The ring as a line: counted from the head, the published slots come first,
\* then the free ones, and no place is both.
LEMMA RingOrder ==
    ASSUME NEW h \in Slots, NEW t \in Slots,
           NEW d, d = Wrap(t - h),
           NEW j \in 0 .. mask - d
    PROVE  /\ Wrap(h + (d + j)) = Wrap(t + j)
           /\ Wrap(Wrap(t + j) - h) = d + j
           /\ Wrap(t + j) \in Slots
           /\ \A k \in 0 .. mask : k # d + j => Wrap(h + k) # Wrap(t + j)
<1>1. h \in 0 .. mask /\ t \in 0 .. mask /\ mask \in Nat /\ Capacity = mask + 1
  BY DistanceCases, CapacityAssumption DEF Slots, mask
<1>2. d = IF t >= h THEN t - h ELSE t - h + Capacity
  BY DistanceCases
<1>3. /\ d \in 0 .. mask /\ j \in 0 .. mask
      /\ j \in 0 .. Capacity /\ d + j \in 0 .. Capacity
  BY <1>1, <1>2
<1>4. Wrap(t + j) = IF t + j < Capacity THEN t + j ELSE t + j - Capacity
  BY <1>3, PlaceCases
<1>5. Wrap(h + (d + j)) = IF h + (d + j) < Capacity THEN h + (d + j)
                                                   ELSE h + (d + j) - Capacity
  BY <1>3, PlaceCases
<1>6. Wrap(t + j) \in Slots
  BY <1>1, <1>3, <1>4 DEF Slots
<1>7. Wrap(Wrap(t + j) - h) = IF Wrap(t + j) >= h THEN Wrap(t + j) - h
                                             ELSE Wrap(t + j) - h + Capacity
  BY <1>6, DistanceCases
<1>8. ASSUME NEW k \in 0 .. mask, k # d + j
      PROVE  Wrap(h + k) # Wrap(t + j)
  <2>1. k \in 0 .. Capacity
    BY <1>1
  <2>2. Wrap(h + k) = IF h + k < Capacity THEN h + k ELSE h + k - Capacity
    BY <2>1, PlaceCases
  <2> QED
    BY <1>1, <1>2, <1>3, <1>4, <1>8, <2>2
<1> QED
  BY <1>1, <1>2, <1>3, <1>4, <1>5, <1>6, <1>7, <1>8

LEMMA RingStart == \A s \in Slots : Wrap(s + 0) = s /\ Wrap(s) = s
BY WrapCases, CapacityAssumption DEF Slots

\* An array given to push_bulk has a length between 1 and MaxBurst and holds
\* only events.
LEMMA BurstLength ==
    ASSUME NEW b \in Bursts
    PROVE  /\ Len(b) \in 1 .. MaxBurst
           /\ b \in Seq(Item)
           /\ \A k \in 1 .. Len(b) : b[k] \in Item
<1>1. PICK n \in 1 .. MaxBurst : b \in [1..n -> Item]
  BY DEF Bursts
<1>2. n \in Nat /\ b \in Seq(Item) /\ Len(b) = n
  BY <1>1, BurstAssumption
<1> QED
  BY <1>1, <1>2

LEMMA SingleIsBurst == \A item \in Item : <<item>> \in Bursts
<1> SUFFICES ASSUME NEW item \in Item PROVE <<item>> \in Bursts
  OBVIOUS
<1>1. <<item>> \in [1..1 -> Item]
  OBVIOUS
<1>2. 1 \in 1 .. MaxBurst
  BY BurstAssumption
<1> QED
  BY <1>1, <1>2 DEF Bursts

-----------------------------------------------------------------------------
(* The inductive invariant *)

LEMMA InitIInv == Init => IInv
<1> SUFFICES ASSUME Init PROVE IInv
  OBVIOUS
<1> USE DEF Init
<1>1. 0 \in Slots /\ 0 \in 0 .. mask
  BY DistanceCases, CapacityAssumption DEF Slots
<1>2. TypeOK
  BY <1>1 DEF TypeOK
<1>3. ProducerInv
  BY DEF ProducerInv
<1>4. PublishedInv
  BY <1>1, DistanceCases DEF PublishedInv, size
<1>5. ConsumerInv
  BY DEF ConsumerInv
<1> QED
  BY <1>2, <1>3, <1>4, <1>5 DEF IInv

\* Each producer step: what it must preserve is its own burst and the events
\* already published.
LEMMA ProducerStep ==
    ASSUME IInv, Producer PROVE IInv'
<1> USE DEF IInv, producer, consumer, sampler
<1>1. ASSUME NEW item \in Item, Push(item) PROVE IInv'
  <2>1. <<item>> \in Bursts /\ Len(<<item>>) = 1 /\ <<item>>[1] = item
    BY SingleIsBurst
  <2>2. free_slots >= 1
    <3>1. head \in Slots /\ tail \in Slots
      BY DEF TypeOK
    <3>2. Wrap(tail + 1) = IF tail + 1 < Capacity THEN tail + 1 ELSE tail + 1 - Capacity
      BY <3>1, PlaceCases, CapacityAssumption
    <3> QED
      BY <1>1, <3>1, <3>2, DistanceCases DEF Push, free_slots, size, Slots
  <2>3. TypeOK'
    BY <1>1, <2>1, DistanceCases DEF Push, TypeOK
  <2>4. free_slots \in Int /\ free_slots' = free_slots /\ size' = size
    BY <1>1, DistanceCases DEF Push, TypeOK, free_slots, size
  <2>5. ProducerInv'
    BY <1>1, <2>1, <2>2, <2>4 DEF Push, ProducerInv
  <2>6. PublishedInv' /\ ConsumerInv'
    BY <1>1, <2>4 DEF Push, PublishedInv, ConsumerInv
  <2> QED
    BY <2>3, <2>5, <2>6
<1>2. ASSUME NEW burst \in Bursts, PushBulk(burst) PROVE IInv'
  <2>1. Len(burst) \in 1 .. MaxBurst
    BY BurstLength
  <2>2. free_slots \in 1 .. mask /\ free_slots' = free_slots /\ size' = size
    BY <1>2, DistanceCases DEF PushBulk, TypeOK, free_slots, size
  <2>3. TypeOK'
    BY <1>2, <2>1, <2>2, DistanceCases, BurstAssumption DEF PushBulk, TypeOK
  <2>4. ProducerInv'
    BY <1>2, <2>1, <2>2, DistanceCases, BurstAssumption DEF PushBulk, ProducerInv
  <2>5. PublishedInv' /\ ConsumerInv'
    BY <1>2, <2>2 DEF PushBulk, PublishedInv, ConsumerInv
  <2> QED
    BY <2>3, <2>4, <2>5
<1>3. CASE BeginSlotWrite
  <2>1. free_slots' = free_slots /\ size' = size
    BY <1>3 DEF BeginSlotWrite, free_slots, size
  <2>2. TypeOK'
    BY <1>3 DEF BeginSlotWrite, TypeOK
  <2>3. ProducerInv'
    BY <1>3, <2>1 DEF BeginSlotWrite, ProducerInv
  <2>4. PublishedInv' /\ ConsumerInv'
    BY <1>3, <2>1 DEF BeginSlotWrite, PublishedInv, ConsumerInv
  <2> QED
    BY <2>2, <2>3, <2>4
<1>4. CASE EndSlotWrite
  <2> DEFINE slot == Wrap(tail + i)
  <2>1. /\ items \in Bursts
        /\ to_push \in 1 .. free_slots
        /\ to_push <= Len(items)
        /\ i \in 0 .. to_push - 1
        /\ head \in Slots /\ tail \in Slots
        /\ free_slots \in Nat /\ free_slots <= mask
    BY <1>4, DistanceCases DEF EndSlotWrite, ProducerInv, TypeOK, free_slots, size
  <2>2. slot \in Slots /\ items[i + 1] \in Item
    BY <2>1, BurstLength, PlaceCases, DistanceCases DEF Slots
  <2>3. free_slots' = free_slots /\ size' = size
    BY <1>4 DEF EndSlotWrite, free_slots, size
  <2>4. TypeOK'
    BY <1>4, <2>1, <2>2, DistanceCases DEF EndSlotWrite, TypeOK
  <2>5. \A j \in 0 .. i - 1 : Wrap(tail + j) \in Slots /\ Wrap(tail + j) # slot
    BY <2>1, PlaceCases, DistanceCases DEF Slots
  <2> DEFINE d == size
  <2>a. /\ d = Wrap(tail - head) /\ d \in 0 .. mask
        /\ i \in 0 .. mask - d /\ mask \in Nat
    BY <2>1, DistanceCases DEF size, free_slots
  <2>b. \A k \in 0 .. mask : k # d + i => Wrap(head + k) # slot
    <3> HIDE DEF d
    <3> QED
      BY <2>1, <2>a, RingOrder
  <2>6. \A k \in 0 .. size - 1 : Wrap(head + k) \in Slots /\ Wrap(head + k) # slot
    <3>1. \A k \in 0 .. size - 1 : k \in 0 .. mask /\ k # d + i /\ head + k \in Int
      BY <2>1, <2>a DEF Slots
    <3> QED
      BY <2>b, <3>1, WrapCases
  <2>7. ProducerInv'
    BY <1>4, <2>1, <2>2, <2>3, <2>5 DEF EndSlotWrite, ProducerInv, TypeOK
  <2>8. PublishedInv'
    BY <1>4, <2>2, <2>3, <2>6 DEF EndSlotWrite, PublishedInv, TypeOK
  <2>9. ConsumerInv'
    <3>1. CASE cpc = "advance"
      <4>1. size \in 1 .. mask /\ Wrap(head + 0) = head
        <5>1. head # tail
          BY <3>1 DEF ConsumerInv
        <5> QED
          BY <2>1, <2>a, <5>1, RingStart, DistanceCases DEF size
      <4>2. head # slot
        BY <2>6, <4>1
      <4> QED
        BY <1>4, <2>1, <2>2, <3>1, <4>2 DEF EndSlotWrite, ConsumerInv, TypeOK
    <3>2. CASE cpc # "advance"
      BY <1>4, <3>2 DEF EndSlotWrite, ConsumerInv
    <3> QED
      BY <3>1, <3>2
  <2> QED
    BY <2>4, <2>7, <2>8, <2>9
<1>5. CASE AdvanceTail
  <2>1. /\ to_push \in 1 .. free_slots
        /\ i = to_push
        /\ to_push <= Len(items)
        /\ items \in Bursts
        /\ head \in Slots /\ tail \in Slots
        /\ free_slots = mask - size /\ size \in 0 .. mask
    BY <1>5, DistanceCases DEF AdvanceTail, ProducerInv, TypeOK, free_slots, size
  <2>2. /\ tail' = IF tail + to_push < Capacity THEN tail + to_push
                                              ELSE tail + to_push - Capacity
        /\ tail' \in Slots
    BY <1>5, <2>1, PlaceCases, DistanceCases DEF AdvanceTail, Slots
  <2> DEFINE d == size
  <2>a. /\ d = Wrap(tail - head) /\ d \in 0 .. mask /\ mask \in Nat
        /\ to_push \in 0 .. mask - d
    BY <2>1, DistanceCases DEF size
  <2>b. /\ Wrap(Wrap(tail + to_push) - head) = d + to_push
        /\ \A j \in 0 .. mask - d : Wrap(head + (d + j)) = Wrap(tail + j)
    <3> HIDE DEF d
    <3> QED
      BY <2>1, <2>a, RingOrder
  <2>3. size' = size + to_push
    BY <1>5, <2>b DEF AdvanceTail, size, consumer, sampler
  <2>4. TypeOK'
    BY <1>5, <2>2, DistanceCases DEF AdvanceTail, TypeOK
  <2>5. ProducerInv'
    BY <1>5 DEF AdvanceTail, ProducerInv
  <2>6. PublishedInv'
    <3> SUFFICES ASSUME NEW k \in 0 .. size' - 1
                 PROVE  buffer[Wrap(head + k)] \in Item
      BY <1>5 DEF AdvanceTail, PublishedInv
    <3>1. CASE k < size
      BY <2>1, <3>1 DEF PublishedInv
    <3>2. CASE k >= size
      <4> DEFINE j == k - size
      <4>1. j \in 0 .. to_push - 1
        BY <2>1, <2>3, <3>2
      <4>2. Wrap(head + k) = Wrap(tail + j)
        <5>1. k = d + j /\ j \in 0 .. mask - d
          BY <2>1, <2>3, <4>1, <2>a
        <5> QED
          BY <2>b, <5>1
      <4>3. buffer[Wrap(tail + j)] = items[j + 1]
        BY <2>1, <4>1 DEF ProducerInv
      <4>4. items[j + 1] \in Item
        BY <2>1, <4>1, BurstLength
      <4> QED
        BY <4>2, <4>3, <4>4
    <3> QED
      BY <2>1, <3>1, <3>2
  <2>7. ConsumerInv'
    BY <1>5, <2>1, <2>3, <2>2, DistanceCases DEF AdvanceTail, ConsumerInv, size
  <2> QED
    BY <2>4, <2>5, <2>6, <2>7
<1> QED
  BY <1>1, <1>2, <1>3, <1>4, <1>5 DEF Producer

\* Each consumer step, on a build whose pop() loads in order.
LEMMA ConsumerStep ==
    ASSUME IInv, Consumer, EarlyReads = {FALSE} PROVE IInv'
<1> USE DEF IInv, producer, consumer, sampler
<1>1. CASE StartPop
  <2>1. early' = FALSE /\ out' = out
    BY <1>1 DEF StartPop
  <2>2. free_slots' = free_slots /\ size' = size
    BY <1>1 DEF StartPop, free_slots, size
  <2>3. TypeOK'
    BY <1>1, <2>1 DEF StartPop, TypeOK
  <2>4. ProducerInv'
    BY <1>1, <2>2 DEF StartPop, ProducerInv
  <2>5. PublishedInv' /\ ConsumerInv'
    BY <1>1, <2>1, <2>2 DEF StartPop, PublishedInv, ConsumerInv
  <2> QED
    BY <2>3, <2>4, <2>5
<1>2. CASE CheckTail
  <2>1. free_slots' = free_slots /\ size' = size
    BY <1>2 DEF CheckTail, free_slots, size
  <2>2. TypeOK'
    BY <1>2 DEF CheckTail, TypeOK
  <2>3. ProducerInv'
    BY <1>2, <2>1 DEF CheckTail, ProducerInv
  <2>4. PublishedInv' /\ ConsumerInv'
    BY <1>2, <2>1 DEF CheckTail, PublishedInv, ConsumerInv
  <2> QED
    BY <2>2, <2>3, <2>4
<1>3. CASE ReadSlot
  <2>1. free_slots' = free_slots /\ size' = size
    BY <1>3 DEF ReadSlot, free_slots, size
  <2>2. TypeOK'
    BY <1>3 DEF ReadSlot, TypeOK
  <2>3. ProducerInv'
    BY <1>3, <2>1 DEF ReadSlot, ProducerInv
  <2>4. PublishedInv' /\ ConsumerInv'
    BY <1>3, <2>1 DEF ReadSlot, PublishedInv, ConsumerInv
  <2> QED
    BY <2>2, <2>3, <2>4
<1>4. CASE AdvanceHead
  <2>1. /\ head \in Slots /\ tail \in Slots /\ head # tail
        /\ size \in 1 .. mask
        /\ free_slots = mask - size /\ mask \in Nat /\ Capacity = mask + 1
    BY <1>4, DistanceCases DEF AdvanceHead, ConsumerInv, TypeOK, size, free_slots
  <2>2. /\ head' = IF head + 1 < Capacity THEN head + 1 ELSE head + 1 - Capacity
        /\ head' \in Slots
    BY <1>4, <2>1, PlaceCases, WrapCases, CapacityAssumption DEF AdvanceHead, Slots
  <2>3. size' = size - 1 /\ free_slots' = free_slots + 1
    <3>1. Wrap(tail - head') = IF tail >= head' THEN tail - head'
                               ELSE tail - head' + Capacity
      BY <2>1, <2>2, DistanceCases
    <3>2. Wrap(tail - head) = IF tail >= head THEN tail - head
                              ELSE tail - head + Capacity
      BY <2>1, DistanceCases
    <3>3. size' = Wrap(tail - head')
      BY <1>4 DEF AdvanceHead, size
    <3>4. Wrap(tail - head') = Wrap(tail - head) - 1
      BY <2>1, <2>2, <3>1, <3>2 DEF Slots
    <3> QED
      BY <2>1, <3>3, <3>4 DEF size, free_slots
  <2>4. TypeOK'
    BY <1>4, <2>2 DEF AdvanceHead, TypeOK
  <2>5. ProducerInv'
    BY <1>4, <2>1, <2>3 DEF AdvanceHead, ProducerInv
  <2>6. PublishedInv'
    <3> SUFFICES ASSUME NEW k \in 0 .. size' - 1
                 PROVE  buffer[Wrap(head' + k)] \in Item
      BY <1>4 DEF AdvanceHead, PublishedInv
    <3>1. k + 1 \in 0 .. size - 1 /\ k \in 0 .. Capacity /\ k + 1 \in 0 .. Capacity
      BY <2>1, <2>3
    <3>2. /\ Wrap(head' + k) = IF head' + k < Capacity THEN head' + k
                                                     ELSE head' + k - Capacity
          /\ Wrap(head + (k + 1)) = IF head + (k + 1) < Capacity THEN head + (k + 1)
                                     ELSE head + (k + 1) - Capacity
      BY <2>1, <2>2, <3>1, PlaceCases
    <3>3. Wrap(head' + k) = Wrap(head + (k + 1))
      BY <2>1, <2>2, <2>3, <3>1, <3>2 DEF Slots
    <3> QED
      BY <3>1, <3>3 DEF PublishedInv
  <2>7. ConsumerInv'
    BY <1>4 DEF AdvanceHead, ConsumerInv
  <2> QED
    BY <2>4, <2>5, <2>6, <2>7
<1> QED
  BY <1>1, <1>2, <1>3, <1>4 DEF Consumer

\* approx_size() reads two indices and changes neither.
LEMMA MetricsStep ==
    ASSUME IInv, Metrics PROVE IInv'
<1> USE DEF IInv, producer, consumer, sampler
<1>1. /\ UNCHANGED <<buffer, head, tail, producer, consumer>>
      /\ free_slots' = free_slots /\ size' = size
  BY DEF Metrics, SampleHead, SampleTail, free_slots, size
<1>2. TypeOK'
  <2>1. gauge' \in Int
    BY CapacityAssumption, SampleAssumption
       DEF TypeOK, Metrics, SampleHead, SampleTail, Slots
  <2>2. sampled' \in Slots \cup {NoSample}
    BY DEF TypeOK, Metrics, SampleHead, SampleTail
  <2> QED
    BY <1>1, <2>1, <2>2 DEF TypeOK
<1>3. ProducerInv'
  BY <1>1 DEF ProducerInv
<1>4. PublishedInv' /\ ConsumerInv'
  BY <1>1 DEF PublishedInv, ConsumerInv
<1> QED
  BY <1>2, <1>3, <1>4

LEMMA Stutter == ASSUME IInv, UNCHANGED vars PROVE IInv'
<1>1. free_slots' = free_slots /\ size' = size
  BY DEF vars, free_slots, size
<1> QED
  BY <1>1 DEF IInv, TypeOK, ProducerInv, PublishedInv, ConsumerInv, vars,
              producer, consumer, sampler

LEMMA IInvHolds == ASSUME EarlyReads = {FALSE} PROVE Spec => []IInv
<1>1. IInv /\ [Next]_vars => IInv'
  BY ProducerStep, ConsumerStep, MetricsStep, Stutter DEF Next
<1> QED
  BY <1>1, InitIInv, PTL DEF Spec

-----------------------------------------------------------------------------
(* Theorems *)

\* The type invariant of the ring (spsc_queue.h), for every capacity, item set
\* and burst length: no index leaves the ring and no copy leaves the burst.
THEOREM TypeCorrect == ASSUME EarlyReads = {FALSE} PROVE Spec => []TypeOK
<1>1. IInv => TypeOK
  BY DEF IInv
<1> QED
  BY <1>1, IInvHolds, PTL

\* push_bulk's copy loop never touches a slot the consumer may be reading, for
\* every capacity and burst length.
THEOREM RaceFree == ASSUME EarlyReads = {FALSE} PROVE Spec => []NoDataRace
<1>1. ASSUME IInv, ppc = "writing" PROVE NoDataRace
  <2> DEFINE d == size
  <2>1. /\ head \in Slots /\ tail \in Slots /\ i \in Nat
        /\ d = Wrap(tail - head) /\ d \in 0 .. mask
        /\ i \in 0 .. mask - d /\ mask \in Nat
    BY <1>1, DistanceCases DEF IInv, TypeOK, ProducerInv, size, free_slots
  <2>2. /\ Wrap(Wrap(tail + i) - head) = d + i
        /\ \A k \in 0 .. mask : k # d + i => Wrap(head + k) # Wrap(tail + i)
        /\ Wrap(tail + i) \in Slots
    <3> HIDE DEF d
    <3> QED
      BY <2>1, RingOrder
  <2>3. ~(cpc = "reading" /\ Wrap(tail + i) = head)
    <3> SUFFICES ASSUME cpc = "reading" PROVE Wrap(tail + i) # head
      OBVIOUS
    <3>1. 0 \in 0 .. mask /\ 0 # d + i
      BY <1>1, <2>1, DistanceCases DEF IInv, ConsumerInv
    <3> QED
      BY <2>1, <2>2, <3>1, RingStart
  <2> QED
    BY <2>1, <2>2, <2>3 DEF NoDataRace
<1>2. IInv => NoDataRace
  BY <1>1 DEF NoDataRace
<1> QED
  BY <1>2, IInvHolds, PTL

\* pop() hands the order book an event the receiver published at that place,
\* for every capacity: never a default event, never one of an earlier lap.
THEOREM PublishedDelivered ==
    ASSUME EarlyReads = {FALSE} PROVE Spec => []DeliversPublished
<1>1. ASSUME IInv, cpc = "advance" PROVE out = buffer[head] /\ out \in Item
  <2>1. head \in Slots /\ tail \in Slots /\ head # tail
    BY <1>1 DEF IInv, TypeOK, ConsumerInv
  <2>2. 0 \in 0 .. size - 1
    BY <2>1, DistanceCases DEF size
  <2> QED
    BY <1>1, <2>1, <2>2, RingStart DEF IInv, ConsumerInv, PublishedInv
<1>2. IInv => DeliversPublished
  BY <1>1 DEF DeliversPublished
<1> QED
  BY <1>2, IInvHolds, PTL

\* approx_size() never reports a length the ring cannot have, however far the
\* two threads move between its two loads.
THEOREM GaugeBounded == ASSUME EarlyReads = {FALSE} PROVE Spec => []GaugeInRange
<1>1. Init => GaugeInRange
  BY DistanceCases DEF Init, GaugeInRange
<1>2. IInv /\ GaugeInRange /\ [Next]_vars => GaugeInRange'
  <2> SUFFICES ASSUME IInv, GaugeInRange, [Next]_vars PROVE GaugeInRange'
    OBVIOUS
  <2>1. CASE SampleTail
    BY <2>1, CapacityAssumption, SampleAssumption
       DEF SampleTail, GaugeInRange, IInv, TypeOK, Slots, mask
  <2>2. CASE ~SampleTail
    <3>1. UNCHANGED gauge
      BY <2>2 DEF Next, Producer, Consumer, Metrics, Push, PushBulk,
                  BeginSlotWrite, EndSlotWrite, AdvanceTail, StartPop, CheckTail,
                  ReadSlot, AdvanceHead, SampleHead, vars, sampler
    <3> QED
      BY <3>1 DEF GaugeInRange
  <2> QED
    BY <2>1, <2>2
<1> QED
  BY <1>1, <1>2, IInvHolds, PTL DEF Spec

-----------------------------------------------------------------------------
(* The ring implements the abstract channel *)

readable_first == IF cpc = "advance" THEN head + 1 ELSE head
readable_count == IF cpc = "advance" THEN size - 1 ELSE size

\* What the abstract reader sees is a sequence of events, and the room left
\* to the abstract writer is the room push_bulk counts.
LEMMA ReadableIsSeq ==
    ASSUME IInv
    PROVE  /\ readable_count \in 0 .. mask
           /\ Readable \in [1 .. readable_count -> Item]
           /\ Readable \in Seq(Item)
           /\ Len(Readable) = readable_count
           /\ \A k \in 1 .. readable_count :
                 Readable[k] = buffer[Wrap(readable_first + k - 1)]
           /\ mask - Channel!Occupied = free_slots
<1>1. /\ head \in Slots /\ tail \in Slots /\ mask \in Nat
      /\ size \in 0 .. mask /\ (cpc = "advance" => size # 0)
  BY DistanceCases DEF IInv, TypeOK, ConsumerInv, size
<1>2. readable_count \in 0 .. mask
  BY <1>1 DEF readable_count
<1>3. ASSUME NEW k \in 1 .. readable_count
      PROVE  buffer[Wrap(readable_first + k - 1)] \in Item
  <2> DEFINE n == readable_first + k - 1 - head
  <2>1. n \in 0 .. size - 1 /\ readable_first + k - 1 = head + n
    BY <1>1 DEF readable_first, readable_count, Slots
  <2> QED
    BY <2>1 DEF IInv, PublishedInv
<1>4. Readable = [k \in 1 .. readable_count |-> buffer[Wrap(readable_first + k - 1)]]
  BY DEF Readable, readable_first, readable_count
<1>5. Readable \in [1 .. readable_count -> Item]
  BY <1>3, <1>4
<1>6. Readable \in Seq(Item) /\ Len(Readable) = readable_count
  BY <1>2, <1>5
<1>7. mask - Channel!Occupied = free_slots
  BY <1>1, <1>6 DEF Channel!Occupied, readable_count, free_slots
<1> QED
  BY <1>2, <1>4, <1>5, <1>6, <1>7

\* The same, now and one step later.
ReadableOK ==
    /\ Readable \in Seq(Item)
    /\ Len(Readable) = readable_count
    /\ readable_count \in 0 .. mask
    /\ \A k \in 1 .. readable_count :
          Readable[k] = buffer[Wrap(readable_first + k - 1)]

LEMMA ReadableNow == IInv => ReadableOK
BY ReadableIsSeq DEF ReadableOK

LEMMA ReadableNext == IInv' => ReadableOK'
BY ReadableNow, PTL

LEMMA InitRefines == Init => Channel!Init
<1> SUFFICES ASSUME Init PROVE Channel!Init
  OBVIOUS
<1>1. size = 0 /\ cpc = "idle"
  <2>1. 0 \in Slots /\ head = 0 /\ tail = 0 /\ cpc = "idle"
    BY CapacityAssumption DEF Init, Slots
  <2>2. Wrap(0 - 0) = 0
    BY <2>1, DistanceCases
  <2> QED
    BY <2>1, <2>2 DEF size
<1>2. Readable = << >>
  BY <1>1 DEF Readable
<1>3. SubSeq(items, 1, to_push) = << >>
  BY DEF Init
<1> QED
  BY <1>1, <1>2, <1>3 DEF Init, Channel!Init

\* Two states with the same published slots show the same channel.
LEMMA SameReadable ==
    ASSUME IInv, IInv',
           readable_count' = readable_count,
           \A k \in 1 .. readable_count :
              buffer'[Wrap(readable_first' + k - 1)]
                = buffer[Wrap(readable_first + k - 1)]
    PROVE  Readable' = Readable
BY DEF Readable, readable_first, readable_count

\* The two ways into the copy loop are one Offer of the channel.
LEMMA PushRefines ==
    ASSUME IInv, NEW item \in Item, Push(item)
    PROVE  Channel!Offer(<<item>>)
<1>1. ppc = "idle" /\ items = << >> /\ to_push = 0
  BY DEF Push, IInv, ProducerInv
<1>2. free_slots >= 1 /\ free_slots \in Int
  <2>1. head \in Slots /\ tail \in Slots
    BY DEF IInv, TypeOK
  <2>2. Wrap(tail + 1) = IF tail + 1 < Capacity THEN tail + 1 ELSE tail + 1 - Capacity
    BY <2>1, PlaceCases, CapacityAssumption
  <2> QED
    BY <2>1, <2>2, DistanceCases DEF Push, free_slots, size, Slots
<1>3. SubSeq(items, 1, to_push) = << >>
  BY <1>1
<1>4. items' = <<item>> /\ to_push' = 1
  BY DEF Push
<1>5. SubSeq(<<item>>, 1, 1) = <<item>>
  <2>1. <<item>> \in Seq(Item) /\ Len(<<item>>) = 1
    OBVIOUS
  <2> QED
    BY <2>1, SubSeqFull
<1>6. mask - Channel!Occupied = free_slots
  BY ReadableIsSeq
<1>7. UNCHANGED <<Readable, out, cpc>>
  BY DEF Push, Readable, size, consumer
<1>8. Len(<<item>>) <= mask - Channel!Occupied
  BY <1>2, <1>6
<1> QED
  BY <1>3, <1>4, <1>5, <1>7, <1>8 DEF Channel!Offer

LEMMA PushBulkRefines ==
    ASSUME IInv, NEW burst \in Bursts, PushBulk(burst)
    PROVE  Channel!Offer(burst)
<1>1. ppc = "idle" /\ items = << >> /\ to_push = 0
  BY DEF PushBulk, IInv, ProducerInv
<1>2. SubSeq(items, 1, to_push) = << >>
  BY <1>1
<1>3. /\ items' = burst
      /\ to_push' = IF Len(burst) <= free_slots THEN Len(burst) ELSE free_slots
  BY DEF PushBulk
<1>4. SubSeq(burst, 1, Len(burst)) = burst
  BY BurstLength, SubSeqFull
<1>5. mask - Channel!Occupied = free_slots
  BY ReadableIsSeq
<1>6. UNCHANGED <<Readable, out, cpc>>
  BY DEF PushBulk, Readable, size, consumer
<1> QED
  BY <1>2, <1>3, <1>4, <1>5, <1>6 DEF Channel!Offer

\* Copying into a free slot shows the reader nothing.
LEMMA EndSlotWriteRefines ==
    ASSUME IInv, IInv', EndSlotWrite
    PROVE  UNCHANGED Channel!vars
<1> DEFINE d == size
<1>1. /\ head \in Slots /\ tail \in Slots /\ i \in Nat
      /\ d = Wrap(tail - head) /\ d \in 0 .. mask
      /\ i \in 0 .. mask - d /\ mask \in Nat
  BY DistanceCases DEF EndSlotWrite, IInv, TypeOK, ProducerInv, size, free_slots
<1>2. \A k \in 0 .. mask : k # d + i => Wrap(head + k) # Wrap(tail + i)
  <2> HIDE DEF d
  <2> QED
    BY <1>1, RingOrder
<1>3. UNCHANGED <<head, tail, items, to_push, cpc, out, size>>
  BY DEF EndSlotWrite, size, consumer
<1>4. readable_count' = readable_count /\ readable_first' = readable_first
  BY <1>3 DEF readable_count, readable_first
<1>5. ASSUME NEW k \in 1 .. readable_count
      PROVE  buffer'[Wrap(readable_first' + k - 1)]
               = buffer[Wrap(readable_first + k - 1)]
  <2> DEFINE n == readable_first + k - 1 - head
  <2>1. readable_count = IF cpc = "advance" THEN size - 1 ELSE size
    BY DEF readable_count
  <2>2. n \in 0 .. d - 1 /\ readable_first + k - 1 = head + n
    BY <1>1, <2>1 DEF readable_first, Slots
  <2>3. n \in 0 .. mask /\ n # d + i
    BY <1>1, <2>2
  <2>4. Wrap(head + n) # Wrap(tail + i) /\ Wrap(head + n) \in Slots
    BY <1>1, <1>2, <2>3, WrapCases DEF Slots
  <2> HIDE DEF n
  <2> QED
    BY <1>4, <2>2, <2>4 DEF EndSlotWrite, IInv, TypeOK
<1>6. Readable' = Readable
  BY <1>4, <1>5, SameReadable
<1> QED
  BY <1>3, <1>6 DEF Channel!vars

\* The store of tail_ publishes the whole admitted prefix.
LEMMA AdvanceTailRefines ==
    ASSUME IInv, IInv', AdvanceTail
    PROVE  Channel!Publish
<1> DEFINE d == size
<1> DEFINE burst == SubSeq(items, 1, to_push)
<1>1. /\ head \in Slots /\ tail \in Slots /\ mask \in Nat
      /\ d = Wrap(tail - head) /\ d \in 0 .. mask
      /\ to_push \in 0 .. mask - d /\ to_push >= 1
      /\ to_push <= Len(items) /\ i = to_push /\ items \in Bursts
  BY DistanceCases DEF AdvanceTail, IInv, TypeOK, ProducerInv, size, free_slots
<1>2. /\ Wrap(Wrap(tail + to_push) - head) = d + to_push
      /\ \A j \in 0 .. mask - d : Wrap(head + (d + j)) = Wrap(tail + j)
  <2> HIDE DEF d
  <2> QED
    BY <1>1, RingOrder
<1>3. /\ size' = d + to_push
      /\ UNCHANGED <<buffer, head, cpc, out>>
  BY <1>2 DEF AdvanceTail, size, consumer
<1>4. /\ burst \in Seq(Item) /\ Len(burst) = to_push
      /\ \A k \in 1 .. to_push : burst[k] = items[k]
  <2>1. \A k \in 1 .. to_push : items[k] \in Item
    BY <1>1, BurstLength
  <2>2. to_push \in Int /\ 1 \in Int
    BY <1>1
  <2> QED
    BY <1>1, <2>1, <2>2, BurstLength
<1>5. burst # << >>
  BY <1>1, <1>4
<1>6. SubSeq(items', 1, to_push') = << >>
  BY DEF AdvanceTail
<1>7. readable_first' = readable_first /\ readable_count' = readable_count + to_push
  BY <1>1, <1>3 DEF readable_first, readable_count
<1>9. readable_first = head + d - readable_count
  BY <1>1 DEF readable_first, readable_count, Slots
<1>8. Readable' = Readable \o burst
  <2>1. /\ Readable \in Seq(Item) /\ Len(Readable) = readable_count
        /\ readable_count \in 0 .. mask
        /\ \A k \in 1 .. readable_count :
              Readable[k] = buffer[Wrap(readable_first + k - 1)]
    BY ReadableIsSeq
  <2>2. /\ Readable' \in Seq(Item) /\ Len(Readable') = readable_count'
        /\ \A k \in 1 .. readable_count' :
              Readable'[k] = buffer'[Wrap(readable_first' + k - 1)]
    BY ReadableNext DEF ReadableOK
  <2> HIDE DEF burst, d
  <2>3. /\ Readable \o burst \in Seq(Item)
        /\ Len(Readable \o burst) = readable_count + to_push
        /\ \A k \in 1 .. readable_count + to_push :
              (Readable \o burst)[k] = IF k <= readable_count THEN Readable[k]
                                       ELSE burst[k - readable_count]
    BY <1>4, <2>1, ConcatProperties
  <2>4. ASSUME NEW k \in 1 .. readable_count + to_push
        PROVE  Readable'[k] = (Readable \o burst)[k]
    <3>1. Readable'[k] = buffer[Wrap(readable_first + k - 1)]
      BY <1>3, <1>7, <2>2
    <3>2. CASE k <= readable_count
      BY <2>1, <2>3, <3>1, <3>2
    <3>3. CASE k > readable_count
      <4> DEFINE j == k - readable_count - 1
      <4>1. j \in 0 .. to_push - 1 /\ j \in 0 .. mask - d /\ j + 1 = k - readable_count
        BY <1>1, <2>1, <3>3
      <4>2. readable_first + k - 1 = head + (d + j)
        BY <1>1, <1>9, <2>1 DEF Slots
      <4>3. Wrap(readable_first + k - 1) = Wrap(tail + j)
        BY <1>2, <4>1, <4>2
      <4>4. buffer[Wrap(tail + j)] = items[j + 1]
        BY <1>1, <4>1 DEF IInv, ProducerInv
      <4>5. burst[k - readable_count] = items[j + 1]
        BY <1>4, <4>1
      <4>6. ~(k <= readable_count)
        BY <2>1, <3>3
      <4>7. (Readable \o burst)[k] = burst[k - readable_count]
        BY <2>3, <4>6
      <4> QED
        BY <3>1, <4>3, <4>4, <4>5, <4>7
    <3>4. k <= readable_count \/ k > readable_count
      BY <1>1, <2>1
    <3> QED
      BY <3>2, <3>3, <3>4, Zenon
  <2> QED
    BY <1>7, <2>2, <2>3, <2>4, SeqEqual
<1> QED
  BY <1>3, <1>5, <1>6, <1>8 DEF Channel!Publish

\* Copying the oldest slot out is the Take of the channel.
LEMMA ReadSlotRefines ==
    ASSUME IInv, IInv', ReadSlot
    PROVE  Channel!Take
<1>1. /\ head \in Slots /\ tail \in Slots /\ head # tail
      /\ size \in 1 .. mask /\ mask \in Nat
      /\ cpc = "reading" /\ cpc' = "advance" /\ out' = buffer[head]
  BY DistanceCases DEF ReadSlot, IInv, TypeOK, ConsumerInv, size
<1>2. UNCHANGED <<buffer, head, size, items, to_push>>
  BY DEF ReadSlot, size, producer
<1>3. /\ readable_first = head /\ readable_count = size
      /\ readable_first' = head + 1 /\ readable_count' = size - 1
  BY <1>1, <1>2 DEF readable_first, readable_count
<1>4. ReadableOK /\ ReadableOK'
  BY ReadableNow, ReadableNext
<1>5. Readable # << >> /\ Head(Readable) = buffer[head]
  <2>1. Readable[1] = buffer[Wrap(head + 1 - 1)] /\ Len(Readable) = size
    BY <1>1, <1>3, <1>4 DEF ReadableOK
  <2>2. Wrap(head + 1 - 1) = head
    <3>1. head + 1 - 1 = head
      BY <1>1 DEF Slots
    <3> QED
      BY <1>1, <3>1, RingStart
  <2>3. Readable # << >>
    BY <1>1, <2>1
  <2> QED
    BY <1>4, <2>1, <2>2, <2>3 DEF ReadableOK
<1>6. /\ Tail(Readable) \in Seq(Item) /\ Len(Tail(Readable)) = size - 1
      /\ \A k \in 1 .. size - 1 : Tail(Readable)[k] = Readable[k + 1]
  BY <1>1, <1>3, <1>4, <1>5, HeadTailProperties DEF ReadableOK
<1>7. Readable' = Tail(Readable)
  <2>1. ASSUME NEW k \in 1 .. size - 1
        PROVE  Readable'[k] = Tail(Readable)[k]
    <3>1. Readable'[k] = buffer[Wrap((head + 1) + k - 1)]
      BY <1>2, <1>3, <1>4 DEF ReadableOK
    <3>2. k + 1 \in 1 .. size
      BY <1>1
    <3>3. Readable[k + 1] = buffer[Wrap(head + (k + 1) - 1)]
      BY <1>3, <1>4, <3>2 DEF ReadableOK
    <3>4. (head + 1) + k - 1 = head + (k + 1) - 1
      BY <1>1 DEF Slots
    <3> QED
      BY <1>6, <3>1, <3>3, <3>4
  <2>2. Readable' \in Seq(Item) /\ Len(Readable') = size - 1
    BY <1>3, <1>4 DEF ReadableOK
  <2> QED
    BY <1>6, <2>1, <2>2, SeqEqual
<1>8. SubSeq(items, 1, to_push)' = SubSeq(items, 1, to_push)
  BY <1>2
<1> QED
  BY <1>1, <1>5, <1>7, <1>8 DEF Channel!Take

\* Storing head_ gives the slot back and shows the reader nothing new.
LEMMA AdvanceHeadRefines ==
    ASSUME IInv, IInv', AdvanceHead
    PROVE  Channel!LetGo
<1>1. /\ head \in Slots /\ tail \in Slots /\ head # tail
      /\ size \in 1 .. mask /\ mask \in Nat /\ Capacity = mask + 1
      /\ cpc = "advance" /\ cpc' = "idle"
  BY DistanceCases DEF AdvanceHead, IInv, TypeOK, ConsumerInv, size
<1>2. UNCHANGED <<buffer, tail, items, to_push, out>>
  BY DEF AdvanceHead, producer
<1>3. /\ head' = IF head + 1 < Capacity THEN head + 1 ELSE head + 1 - Capacity
      /\ head' \in Slots
  <2>1. 1 \in 0 .. Capacity
    BY CapacityAssumption
  <2>2. head' = IF head + 1 < Capacity THEN head + 1 ELSE head + 1 - Capacity
    BY <1>1, <2>1, PlaceCases DEF AdvanceHead
  <2> QED
    BY <1>1, <2>2 DEF Slots
<1>4. size' = size - 1
  <2>1. Wrap(tail - head') = IF tail >= head' THEN tail - head'
                             ELSE tail - head' + Capacity
    BY <1>1, <1>3, DistanceCases
  <2>2. Wrap(tail - head) = IF tail >= head THEN tail - head
                            ELSE tail - head + Capacity
    BY <1>1, DistanceCases
  <2>3. Wrap(tail - head') = Wrap(tail - head) - 1
    BY <1>1, <1>3, <2>1, <2>2 DEF Slots
  <2> QED
    BY <1>2, <2>3 DEF size
<1>5. /\ readable_first = head + 1 /\ readable_count = size - 1
      /\ readable_first' = head' /\ readable_count' = size - 1
  BY <1>1, <1>4 DEF readable_first, readable_count
<1>6. ASSUME NEW k \in 1 .. readable_count
      PROVE  buffer'[Wrap(readable_first' + k - 1)]
               = buffer[Wrap(readable_first + k - 1)]
  <2>1. k \in 0 .. Capacity /\ k - 1 \in 0 .. Capacity
    BY <1>1, <1>5
  <2>2. /\ Wrap(head' + (k - 1)) = IF head' + (k - 1) < Capacity THEN head' + (k - 1)
                                   ELSE head' + (k - 1) - Capacity
        /\ Wrap(head + k) = IF head + k < Capacity THEN head + k ELSE head + k - Capacity
    BY <1>1, <1>3, <2>1, PlaceCases
  <2>3. Wrap(head' + (k - 1)) = Wrap(head + k)
    BY <1>1, <1>3, <1>5, <2>1, <2>2 DEF Slots
  <2>4. head' + k - 1 = head' + (k - 1) /\ (head + 1) + k - 1 = head + k
    BY <1>1, <1>3, <2>1 DEF Slots
  <2> QED
    BY <1>2, <1>5, <2>3, <2>4
<1>7. Readable' = Readable
  BY <1>5, <1>6, SameReadable
<1> QED
  BY <1>1, <1>2, <1>7 DEF Channel!LetGo

\* The ring (spsc_queue.h) implements the bounded FIFO EventChannel: items come
\* out once, in the order pushed, and only the tail of a burst that does not
\* fit is refused, for every capacity, item set and burst length.
THEOREM RingImplementsChannel ==
    ASSUME EarlyReads = {FALSE} PROVE Spec => ImplementsChannel
<1>1. ASSUME IInv, IInv', [Next]_vars PROVE [Channel!Next]_(Channel!vars)
  <2>1. ASSUME NEW item \in Item, Push(item) PROVE Channel!Next
    <3>1. <<item>> \in Channel!Bursts
      BY SingleIsBurst DEF Bursts, Channel!Bursts
    <3> QED
      BY <1>1, <2>1, <3>1, PushRefines DEF Channel!Next
  <2>2. ASSUME NEW burst \in Bursts, PushBulk(burst) PROVE Channel!Next
    <3>1. burst \in Channel!Bursts
      BY DEF Bursts, Channel!Bursts
    <3> QED
      BY <1>1, <2>2, <3>1, PushBulkRefines DEF Channel!Next
  <2>3. CASE BeginSlotWrite
    BY <2>3 DEF BeginSlotWrite, Channel!vars, Readable, size, consumer
  <2>4. CASE EndSlotWrite
    BY <1>1, <2>4, EndSlotWriteRefines
  <2>5. CASE AdvanceTail
    BY <1>1, <2>5, AdvanceTailRefines DEF Channel!Next
  <2>6. CASE StartPop
    <3>1. out' = out
      BY <2>6 DEF StartPop
    <3> QED
      BY <2>6, <3>1 DEF StartPop, Channel!vars, Readable, size, producer
  <2>7. CASE CheckTail
    <3>1. early = FALSE
      BY <1>1 DEF IInv, ConsumerInv, TypeOK
    <3>2. cpc # "advance" /\ cpc' # "advance"
      BY <2>7, <3>1 DEF CheckTail
    <3> QED
      BY <2>7, <3>2 DEF CheckTail, Channel!vars, Readable, size, producer
  <2>8. CASE ReadSlot
    BY <1>1, <2>8, ReadSlotRefines DEF Channel!Next
  <2>9. CASE AdvanceHead
    BY <1>1, <2>9, AdvanceHeadRefines DEF Channel!Next
  <2>10. CASE Metrics
    BY <2>10 DEF Metrics, SampleHead, SampleTail, Channel!vars, Readable, size,
                 producer, consumer
  <2>11. CASE UNCHANGED vars
    BY <2>11 DEF vars, Channel!vars, Readable, size, producer, consumer
  <2> QED
    BY <1>1, <2>1, <2>2, <2>3, <2>4, <2>5, <2>6, <2>7, <2>8, <2>9, <2>10, <2>11
       DEF Next, Producer, Consumer
<1> QED
  BY <1>1, InitRefines, IInvHolds, PTL DEF Spec, ImplementsChannel, Channel!Spec
=============================================================================
