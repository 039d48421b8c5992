------------------------- MODULE FeedPipelineProofs -------------------------
(***************************************************************************)
(* The feed path for any number of datagrams, any batch sizes, any room in *)
(* the queue and any number of failed writes.                              *)
(*                                                                         *)
(* The argument about the counters: a batch exists between its parsing and *)
(* its count, and what push_bulk took of it is a prefix that joins `kept`  *)
(* in the offer, before any counter moves.  Publishing and every step of   *)
(* the consumer move an event from one part of `kept` to the next and      *)
(* leave `kept` itself as it is, so only the receiver's own steps have to  *)
(* agree with the counters.                                                *)
(*                                                                         *)
(* The argument about the journal: a failed write costs the rest of its    *)
(* batch, and a torn line is a debt of one more that the next write pays.  *)
(***************************************************************************)
EXTENDS FeedPipeline, SequenceTheorems, FiniteSetTheorems, TLAPS

Id == 1..MaxArrivals

\* Which locals are in use where: a batch exists from its parsing to its count,
\* and the queue's intermediate states belong to the callers inside it.
PlaceInv ==
    /\ rpc \notin {"journal", "offer", "publish", "count"} => events = << >>
    /\ rpc \notin {"publish", "count"} => pushed = 0
    /\ rpc = "publish" => pushed = Len(admitted)
    /\ rpc # "publish" => admitted = << >>
    /\ rpc # "second" => first = None
    /\ holding <=> cpc = "popping"
    /\ cpc \in {"popping", "apply"} => taken \in Id

CoreInv == TypeOK /\ PlaceInv

inHand == IF cpc \in {"popping", "apply"} THEN <<taken>> ELSE << >>

-----------------------------------------------------------------------------
(* Where the accepted events are *)

LEMMA ConcatFour ==
    ASSUME NEW S, NEW a \in Seq(S), NEW b \in Seq(S), NEW c \in Seq(S), NEW d \in Seq(S)
    PROVE  /\ a \o b \o c \o d \in Seq(S)
           /\ Len(a \o b \o c \o d) = Len(a) + Len(b) + Len(c) + Len(d)
<1>1. a \o b \in Seq(S) /\ Len(a \o b) = Len(a) + Len(b)
  BY ConcatProperties
<1>2. a \o b \o c \in Seq(S) /\ Len(a \o b \o c) = Len(a \o b) + Len(c)
  BY <1>1, ConcatProperties
<1>3. a \o b \o c \o d \in Seq(S) /\ Len(a \o b \o c \o d) = Len(a \o b \o c) + Len(d)
  BY <1>2, ConcatProperties
<1> QED
  BY <1>1, <1>2, <1>3

LEMMA KeptNow ==
    ASSUME CoreInv
    PROVE  /\ inHand \in Seq(Id) /\ Len(inHand) = (IF cpc \in {"popping", "apply"} THEN 1 ELSE 0)
           /\ kept = applied \o inHand \o chan \o admitted
           /\ kept \in Seq(Id)
           /\ Len(kept) = Len(applied) + Len(inHand) + Len(chan) + Len(admitted)
<1>1. inHand \in Seq(Id) /\ Len(inHand) = (IF cpc \in {"popping", "apply"} THEN 1 ELSE 0)
  BY DEF CoreInv, PlaceInv, inHand
<1>2. {applied, chan, admitted} \subseteq Seq(Id)
  BY DEF CoreInv, TypeOK, Id
<1>3. kept = applied \o inHand \o chan \o admitted
  BY DEF kept, inHand
<1>4. applied \in Seq(Id) /\ chan \in Seq(Id) /\ admitted \in Seq(Id)
  BY <1>2
<1>5. /\ applied \o inHand \o chan \o admitted \in Seq(Id)
      /\ Len(applied \o inHand \o chan \o admitted)
           = Len(applied) + Len(inHand) + Len(chan) + Len(admitted)
  <2> DEFINE a == applied
             b == inHand
             c == chan
             d == admitted
  <2>1. a \in Seq(Id) /\ b \in Seq(Id) /\ c \in Seq(Id) /\ d \in Seq(Id)
    BY <1>1, <1>4
  <2> HIDE DEF a, b, c, d
  <2>2. /\ a \o b \o c \o d \in Seq(Id)
        /\ Len(a \o b \o c \o d) = Len(a) + Len(b) + Len(c) + Len(d)
    BY <2>1, ConcatFour
  <2> QED
    BY <2>2 DEF a, b, c, d
<1> HIDE DEF kept, inHand
<1> QED
  BY <1>1, <1>3, <1>5

LEMMA KeptNext ==
    ASSUME CoreInv'
    PROVE  /\ inHand' \in Seq(Id) /\ Len(inHand') = (IF cpc' \in {"popping", "apply"} THEN 1 ELSE 0)
           /\ kept' = applied' \o inHand' \o chan' \o admitted'
           /\ kept' \in Seq(Id)
           /\ Len(kept') = Len(applied') + Len(inHand') + Len(chan') + Len(admitted')
<1>1. inHand' \in Seq(Id) /\ Len(inHand') = (IF cpc' \in {"popping", "apply"} THEN 1 ELSE 0)
  BY DEF CoreInv, PlaceInv, inHand
<1>2. {applied', chan', admitted'} \subseteq Seq(Id)
  BY DEF CoreInv, TypeOK, Id
<1>3. kept' = applied' \o inHand' \o chan' \o admitted'
  BY DEF kept, inHand
<1>4. applied' \in Seq(Id) /\ chan' \in Seq(Id) /\ admitted' \in Seq(Id)
  BY <1>2
<1>5. /\ applied' \o inHand' \o chan' \o admitted' \in Seq(Id)
      /\ Len(applied' \o inHand' \o chan' \o admitted')
           = Len(applied') + Len(inHand') + Len(chan') + Len(admitted')
  <2> DEFINE a == applied'
             b == inHand'
             c == chan'
             d == admitted'
  <2>1. a \in Seq(Id) /\ b \in Seq(Id) /\ c \in Seq(Id) /\ d \in Seq(Id)
    BY <1>1, <1>4
  <2> HIDE DEF a, b, c, d
  <2>2. /\ a \o b \o c \o d \in Seq(Id)
        /\ Len(a \o b \o c \o d) = Len(a) + Len(b) + Len(c) + Len(d)
    BY <2>1, ConcatFour
  <2> QED
    BY <2>2 DEF a, b, c, d
<1> HIDE DEF kept, inHand
<1> QED
  BY <1>1, <1>3, <1>5

-----------------------------------------------------------------------------
(* Types and places *)

LEMMA InitCore == Init => CoreInv
<1> SUFFICES ASSUME Init PROVE CoreInv
  OBVIOUS
<1>1. << >> \in Seq(Id) /\ << >> \in Seq(Datagram) /\ Len(<< >>) = 0
  BY EmptySeq
<1>2. PlaceInv
  BY DEF Init, Queue!Init, PlaceInv
<1>3. Queue!Occupied + Len(admitted) <= Room
  BY <1>1, RoomAssumption DEF Init, Queue!Init, Queue!Occupied
<1>4. {events, parsed, journal, chan, admitted, applied} \subseteq Seq(Id)
  BY <1>1 DEF Init, Queue!Init
<1>5. Len(events) <= batch_size /\ pushed \in 0 .. Len(events)
  BY <1>1, BatchAssumption DEF Init
<1>6. taken \in 0..MaxArrivals /\ holding \in BOOLEAN
  <2>1. taken = 0
    BY DEF Init, Queue!Init
  <2>2. taken \in 0..MaxArrivals
    BY <2>1, ArrivalAssumption
  <2>3. holding \in BOOLEAN
    BY DEF Init, Queue!Init
  <2> QED
    BY <2>2, <2>3
<1>7. /\ batch_size \in BatchSizes /\ socket \in Seq(Datagram) /\ arrived \in 0..MaxArrivals
      /\ write_errors \in 0..MaxFailures
  BY <1>1, ArrivalAssumption, FailureAssumption DEF Init
<1> QED
  BY <1>2, <1>3, <1>4, <1>5, <1>6, <1>7 DEF Init, CoreInv, TypeOK, Id

LEMMA OutsideCore == ASSUME CoreInv, Arrive \/ RequestStop \/ MetricsServerEnds PROVE CoreInv'
<1>1. CASE Arrive
  <2>1. PICK ok \in BOOLEAN : socket' = Append(socket, [seq |-> arrived + 1, ok |-> ok])
    BY <1>1 DEF Arrive
  <2>2. arrived + 1 \in 1..MaxArrivals /\ arrived' = arrived + 1
    BY <1>1, ArrivalAssumption DEF Arrive, CoreInv, TypeOK
  <2>3. [seq |-> arrived + 1, ok |-> ok] \in Datagram
    BY <2>2 DEF Datagram
  <2>4. socket' \in Seq(Datagram)
    BY <2>1, <2>3, AppendProperties DEF CoreInv, TypeOK
  <2> QED
    BY <1>1, <2>2, <2>4, ArrivalAssumption
    DEF Arrive, CoreInv, TypeOK, PlaceInv, Queue!Occupied, batch, file, counters, queue, reader
<1>2. CASE RequestStop
  BY <1>2 DEF RequestStop, CoreInv, TypeOK, PlaceInv, Queue!Occupied, input, batch, file,
              counters, queue, reader
<1>3. CASE MetricsServerEnds
  BY <1>3 DEF MetricsServerEnds, CoreInv, TypeOK, PlaceInv, Queue!Occupied, input, batch, file,
              counters, queue, reader
<1> QED
  BY <1>1, <1>2, <1>3

\* What a batch of datagrams yields: events in their order, at most as many.
LEMMA CollectEffect ==
    ASSUME NEW datagrams \in Seq(Datagram), Collect(datagrams), parsed \in Seq(Id)
    PROVE  /\ events' \in Seq(Id) /\ Len(events') <= Len(datagrams)
           /\ parsed' = parsed \o events' /\ parsed' \in Seq(Id)
           /\ rpc' = IF events' = << >> THEN "top" ELSE "journal"
           /\ \A j \in 1 .. Len(events') : \E p \in 1 .. Len(datagrams) : events'[j] = datagrams[p].seq
           /\ \A i, j \in 1 .. Len(events') : i < j =>
                 \E p, q \in 1 .. Len(datagrams) :
                    p < q /\ events'[i] = datagrams[p].seq /\ events'[j] = datagrams[q].seq
<1>0. PICK k \in 0 .. Len(datagrams) : \E pick \in Picks(Len(datagrams), k) :
         /\ events' = [j \in 1..k |-> datagrams[pick[j]].seq]
         /\ parsed' = parsed \o events'
         /\ rpc' = IF events' = << >> THEN "top" ELSE "journal"
  BY DEF Collect
<1>1. PICK pick \in Picks(Len(datagrams), k) :
         /\ events' = [j \in 1..k |-> datagrams[pick[j]].seq]
         /\ parsed' = parsed \o events'
         /\ rpc' = IF events' = << >> THEN "top" ELSE "journal"
  BY <1>0
<1>2. /\ pick \in [1..k -> 1 .. Len(datagrams)]
      /\ \A i, j \in 1..k : i < j => pick[i] < pick[j]
  BY <1>1 DEF Picks
<1>3. \A j \in 1..k : pick[j] \in 1 .. Len(datagrams) /\ datagrams[pick[j]].seq \in Id
  <2> SUFFICES ASSUME NEW j \in 1..k
               PROVE  pick[j] \in 1 .. Len(datagrams) /\ datagrams[pick[j]].seq \in Id
    OBVIOUS
  <2>1. pick[j] \in 1 .. Len(datagrams)
    BY <1>2
  <2>2. datagrams[pick[j]] \in Datagram
    BY <2>1, ElementOfSeq
  <2> QED
    BY <2>1, <2>2 DEF Datagram, Id
<1>4. k \in Nat /\ Len(datagrams) \in Nat /\ k <= Len(datagrams)
  BY <1>0, LenProperties
<1>5. events' \in [1..k -> Id]
  BY <1>1, <1>3
<1>6. events' \in Seq(Id) /\ Len(events') = k
  BY <1>4, <1>5, SeqDef
<1>7. parsed' \in Seq(Id)
  BY <1>1, <1>6, ConcatProperties
<1>8. \A j \in 1 .. Len(events') : \E p \in 1 .. Len(datagrams) : events'[j] = datagrams[p].seq
  BY <1>1, <1>3, <1>6
<1>9. ASSUME NEW i \in 1 .. Len(events'), NEW j \in 1 .. Len(events'), i < j
      PROVE  \E p, q \in 1 .. Len(datagrams) :
                p < q /\ events'[i] = datagrams[p].seq /\ events'[j] = datagrams[q].seq
  <2>1. pick[i] \in 1 .. Len(datagrams) /\ pick[j] \in 1 .. Len(datagrams)
    BY <1>3, <1>6, <1>9
  <2>2. pick[i] < pick[j]
    BY <1>2, <1>6, <1>9
  <2>3. events'[i] = datagrams[pick[i]].seq /\ events'[j] = datagrams[pick[j]].seq
    BY <1>1, <1>6, <1>9
  <2> QED
    BY <2>1, <2>2, <2>3
<1> QED
  BY <1>1, <1>4, <1>6, <1>7, <1>8, <1>9

LEMMA ReceiveCore ==
    ASSUME CoreInv, Top \/ ReceiveBatch \/ NoBatch \/ ReceiveFirst \/ ReceiveSecond \/ NoSecond
    PROVE  CoreInv'
<1> USE DEF CoreInv
<1>0. socket \in Seq(Datagram) /\ parsed \in Seq(Id) /\ first \in Datagram \cup {None}
  BY DEF TypeOK, Id
<1>1. CASE Top
  BY <1>1 DEF Top, TypeOK, PlaceInv, Queue!Occupied, input, batch, file, counters, queue, reader
<1>2. CASE ReceiveBatch
  <2>1. PICK n \in 1 .. Len(socket) :
           /\ n <= batch_size
           /\ Collect(SubSeq(socket, 1, n))
           /\ socket' = SubSeq(socket, n + 1, Len(socket))
    BY <1>2 DEF ReceiveBatch
  <2>2. n \in Nat /\ Len(socket) \in Nat
    BY <1>0, LenProperties
  <2>3. SubSeq(socket, 1, n) \in Seq(Datagram) /\ Len(SubSeq(socket, 1, n)) = n
    <3>1. \A j \in 1..n : socket[j] \in Datagram
      BY <1>0, <2>1, <2>2, ElementOfSeq
    <3> QED
      BY <2>1, <2>2, <3>1, SubSeqProperties
  <2>4. socket' \in Seq(Datagram)
    <3>1. \A j \in n + 1 .. Len(socket) : socket[j] \in Datagram
      BY <1>0, <2>2, ElementOfSeq
    <3> QED
      BY <2>1, <2>2, <3>1, SubSeqProperties
  <2>5. /\ events' \in Seq(Id) /\ Len(events') <= n
        /\ parsed' \in Seq(Id)
        /\ rpc' = IF events' = << >> THEN "top" ELSE "journal"
    BY <1>0, <2>1, <2>3, CollectEffect
  <2>6. Len(events') \in Nat
    BY <2>5, LenProperties
  <2>7. Len(events') <= batch_size
    BY <2>1, <2>2, <2>5, <2>6, BatchAssumption DEF TypeOK
  <2>8. pushed = 0 /\ admitted = << >> /\ first = None
    BY <1>2 DEF ReceiveBatch, PlaceInv
  <2>9. /\ UNCHANGED <<batch_size, arrived, stop, first, pushed, skipped, file, counters,
                       queue, shutdown, metrics_thread, reader>>
    BY <1>2 DEF ReceiveBatch
  <2>10. TypeOK'
    BY <2>4, <2>5, <2>6, <2>7, <2>8, <2>9
    DEF TypeOK, Id, Queue!Occupied, file, counters, queue, reader
  <2>11. PlaceInv'
    BY <2>5, <2>8, <2>9 DEF PlaceInv, queue, reader
  <2> QED
    BY <2>10, <2>11
<1>3. CASE NoBatch
  BY <1>3 DEF NoBatch, TypeOK, PlaceInv, Queue!Occupied, input, batch, file, counters, queue, reader
<1>4. CASE ReceiveFirst
  <2>1. first' \in Datagram \cup {None} /\ socket' \in Seq(Datagram)
    BY <1>0, <1>4, HeadTailProperties DEF ReceiveFirst
  <2> QED
    BY <1>4, <2>1 DEF ReceiveFirst, TypeOK, PlaceInv, Queue!Occupied, batch, file, counters, queue, reader
<1>5. CASE ReceiveSecond
  <2>1. Head(socket) \in Datagram /\ socket' \in Seq(Datagram)
    BY <1>0, <1>5, HeadTailProperties DEF ReceiveSecond
  <2>2. skipped' \subseteq 1..MaxArrivals
    BY <1>5, <2>1 DEF ReceiveSecond, TypeOK, Datagram
  <2>3. /\ events = << >> /\ pushed = 0 /\ admitted = << >> /\ first' = None
    BY <1>5 DEF ReceiveSecond, PlaceInv
  <2>4. /\ UNCHANGED <<batch_size, arrived, stop, pushed, file, counters, queue, shutdown,
                       metrics_thread, reader>>
    BY <1>5 DEF ReceiveSecond
  <2>5. CASE first = None
    <3>1. rpc' = "crashed" /\ UNCHANGED <<events, parsed>>
      BY <1>5, <2>5 DEF ReceiveSecond
    <3> QED
      BY <2>1, <2>2, <2>3, <2>4, <3>1
      DEF TypeOK, PlaceInv, Queue!Occupied, file, counters, queue, reader
  <2>6. CASE first # None
    <3>1. Collect(<<first>>)
      BY <1>5, <2>6 DEF ReceiveSecond
    <3>2. <<first>> \in Seq(Datagram) /\ Len(<<first>>) = 1
      BY <1>0, <2>6
    <3>3. /\ events' \in Seq(Id) /\ Len(events') <= 1
          /\ parsed' \in Seq(Id)
          /\ rpc' = IF events' = << >> THEN "top" ELSE "journal"
      BY <1>0, <3>1, <3>2, CollectEffect
    <3>4. Len(events') \in Nat
      BY <3>3, LenProperties
    <3>5. Len(events') <= batch_size
      BY <3>3, <3>4, BatchAssumption DEF TypeOK
    <3>6. TypeOK'
      BY <2>1, <2>2, <2>3, <2>4, <3>3, <3>4, <3>5
      DEF TypeOK, Id, Queue!Occupied, file, counters, queue, reader
    <3>7. PlaceInv'
      BY <2>3, <2>4, <3>3 DEF PlaceInv, queue, reader
    <3> QED
      BY <3>6, <3>7
  <2> QED
    BY <2>5, <2>6
<1>6. CASE NoSecond
  <2>1. skipped' \subseteq 1..MaxArrivals
    BY <1>0, <1>6 DEF NoSecond, TypeOK, Datagram
  <2> QED
    BY <1>6, <2>1 DEF NoSecond, TypeOK, PlaceInv, Queue!Occupied, input, file, counters, queue, reader
<1> QED
  BY <1>1, <1>2, <1>3, <1>4, <1>5, <1>6

\* What reaches the journal is a sequence of events again, by Tail or whole.
LEMMA WrittenTypes ==
    ASSUME journal \in Seq(Id), torn \in BOOLEAN,
           NEW whole \in Seq(Id), NEW partial \in BOOLEAN, Written(whole, partial)
    PROVE  journal' \in Seq(Id) /\ torn' \in BOOLEAN
<1>1. CASE torn /\ whole # << >>
  <2>1. Tail(whole) \in Seq(Id)
    BY <1>1, HeadTailProperties
  <2>2. journal' = journal \o Tail(whole)
    BY <1>1 DEF Written
  <2>3. journal' \in Seq(Id)
    BY <2>1, <2>2, ConcatProperties
  <2> QED
    BY <2>3 DEF Written
<1>2. CASE ~(torn /\ whole # << >>)
  <2>1. journal' = journal \o whole
    BY <1>2 DEF Written
  <2>2. journal' \in Seq(Id)
    BY <2>1, ConcatProperties
  <2> QED
    BY <2>2 DEF Written
<1> QED
  BY <1>1, <1>2

LEMMA PrefixTypes ==
    ASSUME NEW s \in Seq(Id), NEW n \in 0 .. Len(s)
    PROVE  /\ SubSeq(s, 1, n) \in Seq(Id)
           /\ Len(SubSeq(s, 1, n)) = n
           /\ \A j \in 1..n : SubSeq(s, 1, n)[j] = s[j]
<1>1. n \in Nat /\ Len(s) \in Nat
  BY LenProperties
<1>2. \A j \in 1..n : s[j] \in Id
  BY <1>1, ElementOfSeq
<1> QED
  BY <1>1, <1>2, SubSeqProperties

LEMMA JournalCore ==
    ASSUME CoreInv, WriteLines \/ WriteFails
    PROVE  CoreInv'
<1> USE DEF CoreInv
<1>0. journal \in Seq(Id) /\ torn \in BOOLEAN /\ events \in Seq(Id)
  BY DEF TypeOK, Id
<1>1. CASE WriteLines
  <2>1. journal' \in Seq(Id) /\ torn' \in BOOLEAN
    BY <1>0, <1>1, WrittenTypes DEF WriteLines
  <2> QED
    BY <1>1, <2>1 DEF WriteLines, TypeOK, PlaceInv, Id, Queue!Occupied, input, batch, counters, queue, reader
<1>2. CASE WriteFails
  <2>1. PICK n \in 0 .. Len(events) - 1, partial \in BOOLEAN : Written(SubSeq(events, 1, n), partial)
    BY <1>2 DEF WriteFails
  <2>2. SubSeq(events, 1, n) \in Seq(Id)
    BY <1>0, <2>1, PrefixTypes, LenProperties
  <2>3. journal' \in Seq(Id) /\ torn' \in BOOLEAN
    BY <1>0, <2>1, <2>2, WrittenTypes
  <2>4. write_errors' \in 0 .. MaxFailures
    BY <1>2, FailureAssumption DEF WriteFails, TypeOK
  <2> QED
    BY <1>2, <2>3, <2>4 DEF WriteFails, TypeOK, PlaceInv, Id, Queue!Occupied, input, batch, counters, queue, reader
<1> QED
  BY <1>1, <1>2

\* push_bulk takes a prefix of the batch, as long as the room allows.
LEMMA OfferEffect ==
    ASSUME CoreInv, OfferBatch
    PROVE  /\ pushed' \in 0 .. Len(events)
           /\ admitted' = SubSeq(events, 1, pushed')
           /\ admitted' \in Seq(Id) /\ Len(admitted') = pushed'
           /\ Queue!Occupied + pushed' <= Room
           /\ UNCHANGED <<chan, taken, holding>>
<1> USE DEF CoreInv
<1>1. events \in Seq(Id) /\ chan \in Seq(Id) /\ admitted = << >> /\ Len(admitted) = 0
  BY DEF TypeOK, PlaceInv, OfferBatch, Id
<1>2. Len(events) \in Nat /\ Len(chan) \in Nat /\ Queue!Occupied \in Nat
  BY <1>1, LenProperties DEF Queue!Occupied
<1>3. Room - Queue!Occupied \in Nat
  BY <1>1, <1>2, RoomAssumption DEF TypeOK
<1>4. /\ admitted' = IF Len(events) <= Room - Queue!Occupied
                     THEN events ELSE SubSeq(events, 1, Room - Queue!Occupied)
      /\ UNCHANGED <<chan, taken, holding>>
      /\ pushed' = Len(admitted')
  BY DEF OfferBatch, Queue!Offer
<1>5. CASE Len(events) <= Room - Queue!Occupied
  <2>1. admitted' = events /\ pushed' = Len(events)
    BY <1>4, <1>5
  <2>2. SubSeq(events, 1, Len(events)) = events
    BY <1>1, SubSeqFull
  <2> QED
    BY <1>1, <1>2, <1>3, <1>4, <1>5, <2>1, <2>2, RoomAssumption
<1>6. CASE ~(Len(events) <= Room - Queue!Occupied)
  <2>1. admitted' = SubSeq(events, 1, Room - Queue!Occupied)
    BY <1>4, <1>6
  <2>2. Room - Queue!Occupied \in 0 .. Len(events)
    BY <1>2, <1>3, <1>6
  <2>3. admitted' \in Seq(Id) /\ Len(admitted') = Room - Queue!Occupied
    BY <1>1, <2>1, <2>2, PrefixTypes
  <2> QED
    BY <1>2, <1>3, <1>4, <2>1, <2>2, <2>3, RoomAssumption
<1> QED
  BY <1>5, <1>6

LEMMA OfferCore == ASSUME CoreInv, OfferBatch PROVE CoreInv'
<1> USE DEF CoreInv
<1>1. /\ pushed' \in 0 .. Len(events)
      /\ admitted' \in Seq(Id) /\ Len(admitted') = pushed'
      /\ Queue!Occupied + pushed' <= Room
      /\ UNCHANGED <<chan, taken, holding>>
  BY OfferEffect
<1>2. /\ rpc = "offer"
      /\ rpc' = IF admitted' = << >> THEN "count" ELSE "publish"
      /\ UNCHANGED <<batch_size, input, stop, first, events, parsed, skipped, file,
                     counters, shutdown, metrics_thread, reader>>
  BY DEF OfferBatch
<1>3. Queue!Occupied' + Len(admitted') <= Room
  BY <1>1 DEF Queue!Occupied
<1>4. TypeOK'
  BY <1>1, <1>2, <1>3 DEF TypeOK, Id, input, file, counters, reader
<1>5. PlaceInv'
  BY <1>1, <1>2 DEF PlaceInv, reader
<1> QED
  BY <1>4, <1>5

LEMMA PublishCore == ASSUME CoreInv, PublishBatch PROVE CoreInv'
<1> USE DEF CoreInv
<1>1. /\ chan' = chan \o admitted /\ admitted' = << >> /\ UNCHANGED <<taken, holding>>
      /\ rpc = "publish" /\ rpc' = "count"
      /\ UNCHANGED <<batch_size, input, stop, first, batch, file, counters, shutdown,
                     metrics_thread, reader>>
  BY DEF PublishBatch, Queue!Publish
<1>2. chan \in Seq(Id) /\ admitted \in Seq(Id)
  BY DEF TypeOK, Id
<1>3. /\ chan' \in Seq(Id) /\ Len(chan') = Len(chan) + Len(admitted)
      /\ Len(chan) \in Nat /\ Len(admitted) \in Nat
  BY <1>1, <1>2, ConcatProperties, LenProperties
<1>4. admitted' \in Seq(Id) /\ Len(admitted') = 0
  BY <1>1
<1>5. Queue!Occupied' + Len(admitted') <= Room
  BY <1>1, <1>3, <1>4, RoomAssumption DEF TypeOK, Queue!Occupied
<1>6. TypeOK'
  BY <1>1, <1>3, <1>4, <1>5 DEF TypeOK, Id, input, batch, file, counters, reader
<1>7. PlaceInv'
  BY <1>1 DEF PlaceInv, batch, reader
<1> QED
  BY <1>6, <1>7

LEMMA EndCore == ASSUME CoreInv, Count \/ Close \/ JoinConsumer \/ JoinMetrics PROVE CoreInv'
<1> USE DEF CoreInv
<1>1. CASE Count
  <2>1. Len(events) \in Nat /\ pushed \in 0 .. Len(events)
    BY LenProperties DEF TypeOK
  <2>2. processed' \in Nat /\ dropped' \in Nat
    BY <1>1, <2>1 DEF Count, TypeOK
  <2>3. events' = << >> /\ pushed' = 0 /\ events' \in Seq(Id) /\ Len(events') = 0
    BY <1>1 DEF Count
  <2>4. Len(events') <= batch_size
    BY <2>3, BatchAssumption DEF TypeOK
  <2>5. /\ UNCHANGED <<batch_size, input, stop, first, parsed, skipped, file, queue,
                       shutdown, metrics_thread, reader>>
        /\ rpc = "count" /\ rpc' = "top"
    BY <1>1 DEF Count
  <2>6. TypeOK'
    BY <2>2, <2>3, <2>4, <2>5 DEF TypeOK, Id, Queue!Occupied, input, file, queue, reader
  <2>7. PlaceInv'
    BY <2>3, <2>5 DEF PlaceInv, queue, reader
  <2> QED
    BY <2>6, <2>7
<1>2. CASE Close
  BY <1>2 DEF Close, TypeOK, PlaceInv, Queue!Occupied, input, batch, file, counters, queue, reader
<1>3. CASE JoinConsumer
  BY <1>3 DEF JoinConsumer, TypeOK, PlaceInv, Queue!Occupied, input, batch, file, counters,
              queue, reader
<1>4. CASE JoinMetrics
  BY <1>4 DEF JoinMetrics, TypeOK, PlaceInv, Queue!Occupied, input, batch, file, counters,
              queue, reader
<1> QED
  BY <1>1, <1>2, <1>3, <1>4

LEMMA ConsumerCore == ASSUME CoreInv, Consumer PROVE CoreInv'
<1> USE DEF CoreInv
<1>0. UNCHANGED <<batch_size, input, stop, rpc, first, batch, file, counters, shutdown, metrics_thread>>
  BY DEF Consumer
<1>1. chan \in Seq(Id) /\ applied \in Seq(Id)
  BY DEF TypeOK, Id
<1>2. CASE ConsumerTop \/ PopNothing \/ BackOff
  <2>1. /\ cpc \notin {"popping", "apply"}
        /\ cpc' \in {"exited", "pop", "idle", "top"}
        /\ UNCHANGED <<queue, applied>>
    BY <1>2 DEF ConsumerTop, PopNothing, BackOff
  <2>2. TypeOK'
    BY <1>0, <2>1 DEF TypeOK, Queue!Occupied, input, batch, file, counters, queue
  <2>3. PlaceInv'
    BY <1>0, <2>1 DEF PlaceInv, batch, queue
  <2> QED
    BY <2>2, <2>3
<1>3. CASE PopEvent
  <2>1. /\ chan # << >> /\ ~holding
        /\ taken' = Head(chan) /\ chan' = Tail(chan) /\ holding' = TRUE
        /\ cpc' = "popping" /\ UNCHANGED <<admitted, applied>>
    BY <1>3 DEF PopEvent, Queue!Take
  <2>2. /\ taken' \in Id /\ chan' \in Seq(Id) /\ Len(chan') = Len(chan) - 1
        /\ Len(chan) \in Nat
    BY <1>1, <2>1, HeadTailProperties, LenProperties
  <2>3. taken' \in 0..MaxArrivals
    BY <2>2, ArrivalAssumption DEF Id
  <2>4. Queue!Occupied' + Len(admitted') <= Room
    BY <2>1, <2>2 DEF TypeOK, Queue!Occupied
  <2>5. TypeOK'
    BY <1>0, <2>1, <2>2, <2>3, <2>4 DEF TypeOK, Id, input, batch, file, counters
  <2>6. PlaceInv'
    BY <1>0, <2>1, <2>2 DEF PlaceInv, batch
  <2> QED
    BY <2>5, <2>6
<1>4. CASE FreeSlot
  <2>1. /\ holding /\ holding' = FALSE /\ cpc = "popping" /\ cpc' = "apply"
        /\ UNCHANGED <<chan, admitted, taken, applied>>
    BY <1>4 DEF FreeSlot, Queue!LetGo
  <2>2. Len(chan) \in Nat /\ Len(admitted) \in Nat
    BY LenProperties DEF TypeOK
  <2>3. Queue!Occupied' + Len(admitted') <= Room
    BY <2>1, <2>2, RoomAssumption DEF TypeOK, Queue!Occupied
  <2>4. TypeOK'
    BY <1>0, <2>1, <2>3 DEF TypeOK, input, batch, file, counters
  <2>5. PlaceInv'
    BY <1>0, <2>1 DEF PlaceInv, batch
  <2> QED
    BY <2>4, <2>5
<1>5. CASE ApplyEvent
  <2>1. /\ applied' = Append(applied, taken) /\ cpc = "apply" /\ cpc' = "pop"
        /\ UNCHANGED queue
    BY <1>5 DEF ApplyEvent
  <2>2. applied' \in Seq(Id)
    BY <1>1, <2>1, AppendProperties DEF PlaceInv
  <2>3. TypeOK'
    BY <1>0, <2>1, <2>2 DEF TypeOK, Id, Queue!Occupied, input, batch, file, counters, queue
  <2>4. PlaceInv'
    BY <1>0, <2>1 DEF PlaceInv, batch, queue
  <2> QED
    BY <2>3, <2>4
<1> QED
  BY <1>2, <1>3, <1>4, <1>5 DEF Consumer

LEMMA CoreHolds == Spec => []CoreInv
<1>1. ASSUME CoreInv, [Next]_vars PROVE CoreInv'
  <2>1. CASE Arrive \/ RequestStop \/ MetricsServerEnds
    BY <1>1, <2>1, OutsideCore
  <2>2. CASE Receiver
    BY <1>1, <2>2, ReceiveCore, JournalCore, OfferCore, PublishCore, EndCore DEF Receiver
  <2>3. CASE Consumer
    BY <1>1, <2>3, ConsumerCore
  <2>4. CASE UNCHANGED vars
    BY <1>1, <2>4 DEF CoreInv, TypeOK, PlaceInv, Queue!Occupied, vars, input, batch, file,
                      counters, queue, reader
  <2> QED
    BY <1>1, <2>1, <2>2, <2>3, <2>4 DEF Next
<1> QED
  BY <1>1, InitCore, PTL DEF Spec

\* Every counter, index and buffer of the pipeline keeps its type; the queue
\* never holds more than its room.
THEOREM TypeCorrect == Spec => []TypeOK
<1>1. CoreInv => TypeOK
  BY DEF CoreInv
<1> QED
  BY <1>1, CoreHolds, PTL

-----------------------------------------------------------------------------
(* What the steps do to the accepted events *)

LEMMA KeptSame ==
    ASSUME UNCHANGED <<applied, cpc, taken, chan, admitted>>
    PROVE  kept' = kept
BY DEF kept

LEMMA KeptOffer ==
    ASSUME CoreInv, OfferBatch
    PROVE  kept' = kept \o admitted'
<1>1. admitted = << >> /\ UNCHANGED <<chan, taken, applied, cpc>>
  BY OfferEffect DEF OfferBatch, CoreInv, PlaceInv, reader
<1>2. kept' = applied \o inHand \o chan \o admitted'
  BY <1>1 DEF kept, inHand
<1>3. kept = applied \o inHand \o chan \o << >>
  BY <1>1, KeptNow
<1>4. inHand \in Seq(Id) /\ applied \in Seq(Id) /\ chan \in Seq(Id)
  BY KeptNow DEF CoreInv, TypeOK, Id
<1> DEFINE a == applied
           b == inHand
           c == chan
<1>5. a \in Seq(Id) /\ b \in Seq(Id) /\ c \in Seq(Id)
  BY <1>4
<1> HIDE DEF a, b, c
<1>6. a \o b \in Seq(Id)
  BY <1>5, ConcatProperties
<1>7. a \o b \o c \in Seq(Id)
  BY <1>5, <1>6, ConcatProperties
<1>8. a \o b \o c \o << >> = a \o b \o c
  BY <1>7, ConcatEmptySeq
<1> QED
  BY <1>2, <1>3, <1>8 DEF a, b, c

LEMMA KeptPublish ==
    ASSUME CoreInv, PublishBatch
    PROVE  kept' = kept
<1>1. /\ chan' = chan \o admitted /\ admitted' = << >> /\ UNCHANGED <<taken, applied, cpc>>
  BY DEF PublishBatch, Queue!Publish, reader
<1>2. kept' = applied \o inHand \o (chan \o admitted) \o << >>
  BY <1>1 DEF kept, inHand
<1>3. kept = applied \o inHand \o chan \o admitted
  BY KeptNow
<1>4. inHand \in Seq(Id) /\ applied \in Seq(Id) /\ chan \in Seq(Id) /\ admitted \in Seq(Id)
  BY KeptNow DEF CoreInv, TypeOK, Id
<1> DEFINE a == applied
           b == inHand
           c == chan
           d == admitted
<1>5. a \in Seq(Id) /\ b \in Seq(Id) /\ c \in Seq(Id) /\ d \in Seq(Id)
  BY <1>4
<1> DEFINE ab == a \o b
<1> HIDE DEF a, b, c, d
<1>6. ab \in Seq(Id) /\ c \o d \in Seq(Id)
  BY <1>5, ConcatProperties
<1> HIDE DEF ab
<1>7. ab \o c \o d = ab \o (c \o d)
  BY <1>5, <1>6, ConcatAssociative
<1>8. ab \o (c \o d) \in Seq(Id)
  BY <1>6, ConcatProperties
<1>9. ab \o (c \o d) \o << >> = ab \o (c \o d)
  BY <1>8, ConcatEmptySeq
<1> QED
  BY <1>2, <1>3, <1>7, <1>9 DEF a, b, c, d, ab

\* The consumer moves an event from the queue to its hand to the book, and
\* changes nothing about which events there are or in which order.
LEMMA KeptConsumer ==
    ASSUME CoreInv, Consumer
    PROVE  kept' = kept
<1>0. inHand \in Seq(Id) /\ applied \in Seq(Id) /\ chan \in Seq(Id) /\ admitted \in Seq(Id)
  BY KeptNow DEF CoreInv, TypeOK, Id
<1>1. CASE ConsumerTop \/ PopNothing \/ BackOff
  <2>1. /\ cpc \notin {"popping", "apply"}
        /\ cpc' \notin {"popping", "apply"}
        /\ UNCHANGED <<queue, applied>>
    BY <1>1 DEF ConsumerTop, PopNothing, BackOff
  <2> QED
    BY <2>1 DEF kept, queue
<1>2. CASE PopEvent
  <2>1. /\ chan # << >> /\ cpc = "pop" /\ cpc' = "popping"
        /\ taken' = Head(chan) /\ chan' = Tail(chan)
        /\ UNCHANGED <<admitted, applied>>
    BY <1>2 DEF PopEvent, Queue!Take
  <2> DEFINE a == applied
             h == <<Head(chan)>>
             t == Tail(chan)
             d == admitted
  <2>2. a \in Seq(Id) /\ h \in Seq(Id) /\ t \in Seq(Id) /\ d \in Seq(Id)
    BY <1>0, <2>1, HeadTailProperties
  <2>3. h \o t = chan
    <3>1. /\ Len(h) = 1 /\ h[1] = Head(chan) /\ Head(chan) = chan[1]
          /\ Len(t) = Len(chan) - 1 /\ \A i \in 1 .. Len(t) : t[i] = chan[i + 1]
          /\ Len(chan) \in Nat
      BY <1>0, <2>1, HeadTailProperties, LenProperties
    <3>2. /\ h \o t \in Seq(Id) /\ Len(h \o t) = Len(h) + Len(t)
          /\ \A i \in 1 .. Len(h) + Len(t) : (h \o t)[i] = IF i <= Len(h) THEN h[i] ELSE t[i - Len(h)]
      <4> HIDE DEF h, t
      <4> QED
        BY <2>2, ConcatProperties
    <3> HIDE DEF h, t
    <3>3. Len(h \o t) = Len(chan)
      BY <3>1, <3>2
    <3>4. ASSUME NEW i \in 1 .. Len(h \o t) PROVE (h \o t)[i] = chan[i]
      BY <3>1, <3>2
    <3> QED
      BY <1>0, <3>2, <3>3, <3>4, SeqEqual
  <2>4. kept' = a \o h \o t \o d
    BY <2>1 DEF kept
  <2>5. kept = a \o << >> \o chan \o d
    BY <2>1 DEF kept
  <2> HIDE DEF a, h, t, d
  <2>6. a \o << >> = a
    BY <2>2, ConcatEmptySeq
  <2>7. a \o h \o t = a \o (h \o t)
    BY <2>2, ConcatAssociative
  <2> QED
    BY <2>3, <2>4, <2>5, <2>6, <2>7
<1>3. CASE FreeSlot
  BY <1>3 DEF FreeSlot, Queue!LetGo, kept
<1>4. CASE ApplyEvent
  <2>1. /\ applied' = Append(applied, taken) /\ cpc = "apply" /\ cpc' = "pop"
        /\ UNCHANGED queue
    BY <1>4 DEF ApplyEvent
  <2>2. taken \in Id
    BY <2>1 DEF CoreInv, PlaceInv
  <2>3. Append(applied, taken) = applied \o <<taken>> /\ Append(applied, taken) \in Seq(Id)
    BY <1>0, <2>2, AppendIsConcat, AppendProperties
  <2>4. Append(applied, taken) \o << >> = Append(applied, taken)
    BY <2>3, ConcatEmptySeq
  <2> QED
    BY <2>1, <2>3, <2>4 DEF kept, queue
<1> QED
  BY <1>1, <1>2, <1>3, <1>4 DEF Consumer

-----------------------------------------------------------------------------
(* Accounting *)

AccountInv == CoreInv /\ EventsAccounted

LEMMA AccountStep ==
    ASSUME AccountInv, [Next]_vars, CoreInv'
    PROVE  EventsAccounted'
<1> USE DEF AccountInv
<1>0. /\ parsed \in Seq(Id) /\ events \in Seq(Id) /\ kept \in Seq(Id) /\ kept' \in Seq(Id)
      /\ Len(parsed) \in Nat /\ Len(events) \in Nat /\ Len(kept) \in Nat
      /\ processed \in Nat /\ dropped \in Nat
  BY KeptNow, KeptNext, LenProperties DEF CoreInv, TypeOK, Id
<1>1. CASE UNCHANGED <<events, pushed, parsed, processed, dropped>> /\ kept' = kept
  BY <1>1 DEF EventsAccounted
<1>2. ASSUME NEW datagrams \in Seq(Datagram), Collect(datagrams),
             UNCHANGED <<pushed, processed, dropped>>, kept' = kept, events = << >>
      PROVE  EventsAccounted'
  <2>1. parsed' = parsed \o events' /\ events' \in Seq(Id)
    BY <1>0, <1>2, CollectEffect
  <2>2. Len(parsed') = Len(parsed) + Len(events') /\ Len(events') \in Nat
    BY <1>0, <2>1, ConcatProperties, LenProperties
  <2>3. Len(events) = 0
    BY <1>2
  <2> QED
    BY <1>0, <1>2, <2>2, <2>3 DEF EventsAccounted
<1>3. CASE ReceiveBatch
  <2>1. PICK n \in 1 .. Len(socket) : Collect(SubSeq(socket, 1, n))
    BY <1>3 DEF ReceiveBatch
  <2>2. SubSeq(socket, 1, n) \in Seq(Datagram)
    <3>1. socket \in Seq(Datagram) /\ n \in Int
      BY DEF CoreInv, TypeOK
    <3>2. \A j \in 1..n : socket[j] \in Datagram
      BY <2>1, <3>1, ElementOfSeq, LenProperties
    <3> QED
      BY <3>1, <3>2, SubSeqProperties
  <2>3. UNCHANGED <<pushed, processed, dropped>> /\ kept' = kept /\ events = << >>
    BY <1>3, KeptSame DEF ReceiveBatch, counters, queue, reader, CoreInv, PlaceInv
  <2> QED
    BY <1>2, <2>1, <2>2, <2>3
<1>4. CASE ReceiveSecond
  <2>1. UNCHANGED <<pushed, processed, dropped>> /\ kept' = kept /\ events = << >>
    BY <1>4, KeptSame DEF ReceiveSecond, counters, queue, reader, CoreInv, PlaceInv
  <2>2. CASE first = None
    BY <1>1, <1>4, <2>1, <2>2 DEF ReceiveSecond
  <2>3. CASE first # None
    <3>1. Collect(<<first>>) /\ first \in Datagram
      BY <1>4, <2>3 DEF ReceiveSecond, CoreInv, TypeOK
    <3>2. <<first>> \in Seq(Datagram)
      BY <3>1
    <3> QED
      BY <1>2, <2>1, <3>1, <3>2
  <2> QED
    BY <2>2, <2>3
<1>5. CASE OfferBatch
  <2>1. kept' = kept \o admitted' /\ admitted' \in Seq(Id) /\ Len(admitted') = pushed'
    BY <1>5, KeptOffer, OfferEffect
  <2>2. Len(kept') = Len(kept) + pushed'
    BY <1>0, <2>1, ConcatProperties
  <2>3. pushed = 0 /\ UNCHANGED <<events, parsed, processed, dropped>>
    BY <1>5 DEF OfferBatch, CoreInv, PlaceInv, counters
  <2> QED
    BY <1>0, <2>2, <2>3 DEF EventsAccounted
<1>6. CASE Count
  <2>1. kept' = kept
    BY <1>6, KeptSame DEF Count, queue, reader
  <2>2. /\ processed' = processed + pushed /\ dropped' = dropped + (Len(events) - pushed)
        /\ Len(events') = 0 /\ pushed' = 0 /\ parsed' = parsed
    BY <1>6 DEF Count
  <2>3. pushed \in Nat
    BY <1>0 DEF CoreInv, TypeOK
  <2> QED
    BY <1>0, <2>1, <2>2, <2>3 DEF EventsAccounted
<1>7. CASE PublishBatch
  BY <1>1, <1>7, KeptPublish DEF PublishBatch, batch, counters
<1>8. CASE Consumer
  BY <1>1, <1>8, KeptConsumer DEF Consumer, batch, counters
<1>9. CASE \/ Arrive \/ RequestStop \/ MetricsServerEnds \/ Top \/ NoBatch \/ ReceiveFirst
           \/ WriteLines \/ WriteFails \/ Close \/ JoinConsumer \/ JoinMetrics \/ UNCHANGED vars
  <2>1. UNCHANGED <<events, pushed, parsed, processed, dropped, applied, cpc, taken, chan, admitted>>
    BY <1>9 DEF Arrive, RequestStop, MetricsServerEnds, Top, NoBatch, ReceiveFirst,
                WriteLines, WriteFails, Close, JoinConsumer, JoinMetrics, vars, batch, counters, queue, reader
  <2> QED
    BY <1>1, <2>1, KeptSame
<1>10. CASE NoSecond
  <2>1. UNCHANGED <<events, pushed, parsed, processed, dropped, applied, cpc, taken, chan, admitted>>
    BY <1>10 DEF NoSecond, counters, queue, reader
  <2> QED
    BY <1>1, <2>1, KeptSame
<1> QED
  BY <1>3, <1>4, <1>5, <1>6, <1>7, <1>8, <1>9, <1>10 DEF Next, Receiver

\* Every event parsed is counted once, and the events counted as processed are
\* exactly those the queue took, wherever they are by now.
THEOREM AllEventsAccounted == Spec => []EventsAccounted
<1>1. Init => EventsAccounted
  <2> SUFFICES ASSUME Init PROVE EventsAccounted
    OBVIOUS
  <2>1. /\ Len(parsed) = 0 /\ Len(events) = 0 /\ processed = 0 /\ dropped = 0 /\ pushed = 0
    BY DEF Init
  <2>2. Len(kept) = 0
    <3>1. CoreInv
      BY InitCore
    <3>2. Len(applied) = 0 /\ Len(inHand) = 0 /\ Len(chan) = 0 /\ Len(admitted) = 0
      BY DEF Init, Queue!Init, inHand
    <3> QED
      BY <3>1, <3>2, KeptNow
  <2> QED
    BY <2>1, <2>2 DEF EventsAccounted
<1>2. CoreInv /\ EventsAccounted /\ [Next]_vars /\ CoreInv' => EventsAccounted'
  BY AccountStep DEF AccountInv
<1> QED
  BY <1>1, <1>2, CoreHolds, PTL DEF Spec
-----------------------------------------------------------------------------
(* Order *)

\* What is accepted, the batch in hand and the datagram in hand all came
\* before x.
Before(accepted, batched, held, x) ==
    /\ \A i \in 1 .. Len(accepted) : accepted[i] < x
    /\ \A i \in 1 .. Len(batched) : batched[i] < x
    /\ held # None => held.seq < x

\* The order holds at every stage of the path and from each stage to the next:
\* what is accepted, the batch in hand, the datagram in hand, the socket, and
\* whatever arrives next.
OrderInv ==
    /\ \A i, j \in 1 .. Len(kept) : i < j => kept[i] < kept[j]
    /\ \A i, j \in 1 .. Len(events) : i < j => events[i] < events[j]
    /\ rpc \in {"journal", "offer"} =>
         \A i \in 1 .. Len(kept), j \in 1 .. Len(events) : kept[i] < events[j]
    /\ first # None => \A i \in 1 .. Len(kept) : kept[i] < first.seq
    /\ \A i, j \in 1 .. Len(socket) : i < j => socket[i].seq < socket[j].seq
    /\ \A i \in 1 .. Len(socket) : /\ Before(kept, events, first, socket[i].seq)
                                     /\ socket[i].seq < arrived + 1
    /\ Before(kept, events, first, arrived + 1)

LEMMA OrderTypes ==
    ASSUME CoreInv
    PROVE  /\ kept \in Seq(Id) /\ events \in Seq(Id) /\ parsed \in Seq(Id)
           /\ socket \in Seq(Datagram)
           /\ Len(kept) \in Nat /\ Len(events) \in Nat /\ Len(socket) \in Nat
           /\ \A i \in 1 .. Len(kept) : kept[i] \in Id
           /\ \A i \in 1 .. Len(events) : events[i] \in Id
           /\ \A i \in 1 .. Len(socket) : socket[i] \in Datagram /\ socket[i].seq \in Id
           /\ first # None => first.seq \in Id
           /\ arrived \in Nat
<1>1. kept \in Seq(Id) /\ events \in Seq(Id) /\ parsed \in Seq(Id) /\ socket \in Seq(Datagram)
  BY KeptNow DEF CoreInv, TypeOK, Id
<1>2. /\ \A i \in 1 .. Len(kept) : kept[i] \in Id
      /\ \A i \in 1 .. Len(events) : events[i] \in Id
      /\ \A i \in 1 .. Len(socket) : socket[i] \in Datagram
  BY <1>1, ElementOfSeq
<1>3. \A d \in Datagram : d.seq \in Id
  BY DEF Datagram, Id
<1> QED
  BY <1>1, <1>2, <1>3, LenProperties DEF CoreInv, TypeOK

LEMMA InitOrder == Init => OrderInv
<1> SUFFICES ASSUME Init PROVE OrderInv
  OBVIOUS
<1>1. Len(kept) = 0
  <2>1. CoreInv
    BY InitCore
  <2>2. Len(applied) = 0 /\ Len(inHand) = 0 /\ Len(chan) = 0 /\ Len(admitted) = 0
    BY DEF Init, Queue!Init, inHand
  <2> QED
    BY <2>1, <2>2, KeptNow
<1>2. Len(events) = 0 /\ Len(socket) = 0 /\ first = None
  BY DEF Init
<1> QED
  BY <1>1, <1>2 DEF OrderInv, Before

\* Steps that leave every stage of the path as it is.
LEMMA OrderSame ==
    ASSUME OrderInv, kept' = kept, UNCHANGED <<events, first, socket, arrived>>,
           rpc' \in {"journal", "offer"} => rpc \in {"journal", "offer"}
    PROVE  OrderInv'
BY DEF OrderInv, Before

LEMMA OrderArrive ==
    ASSUME CoreInv, OrderInv, Arrive
    PROVE  OrderInv'
<1>1. PICK ok \in BOOLEAN : socket' = Append(socket, [seq |-> arrived + 1, ok |-> ok])
  BY DEF Arrive
<1>2. kept' = kept
  BY KeptSame DEF Arrive, queue, reader
<1>3. arrived' = arrived + 1 /\ UNCHANGED <<events, first, rpc>>
  BY DEF Arrive, batch
<1> DEFINE new == [seq |-> arrived + 1, ok |-> ok]
<1>4. /\ Len(socket') = Len(socket) + 1
      /\ \A i \in 1 .. Len(socket) : socket'[i] = socket[i]
      /\ socket'[Len(socket) + 1] = new
  BY <1>1, OrderTypes
<1>5. \A i \in 1 .. Len(socket') :
         \/ i \in 1 .. Len(socket) /\ socket'[i] = socket[i]
         \/ i = Len(socket) + 1 /\ socket'[i].seq = arrived + 1
  BY <1>4, OrderTypes
<1>6. \A i, j \in 1 .. Len(socket') : i < j => socket'[i].seq < socket'[j].seq
  <2> SUFFICES ASSUME NEW i \in 1 .. Len(socket'), NEW j \in 1 .. Len(socket'), i < j
               PROVE  socket'[i].seq < socket'[j].seq
    OBVIOUS
  <2>1. i \in 1 .. Len(socket) /\ socket'[i] = socket[i]
    BY <1>4, OrderTypes
  <2>2. CASE j \in 1 .. Len(socket)
    BY <1>4, <2>1, <2>2 DEF OrderInv
  <2>3. CASE j = Len(socket) + 1
    BY <1>4, <2>1, <2>3 DEF OrderInv
  <2> QED
    BY <1>5, <2>2, <2>3
<1>7. Before(kept, events, first, arrived + 2)
  <2>1. Before(kept, events, first, arrived + 1)
    BY DEF OrderInv
  <2> QED
    BY <2>1, OrderTypes DEF Before, Id
<1>8. arrived + 2 = arrived' + 1
  BY <1>3, OrderTypes
<1>9. \A i \in 1 .. Len(socket') : /\ Before(kept, events, first, socket'[i].seq)
                                   /\ socket'[i].seq < arrived' + 1
  <2> SUFFICES ASSUME NEW i \in 1 .. Len(socket')
               PROVE  /\ Before(kept, events, first, socket'[i].seq)
                      /\ socket'[i].seq < arrived' + 1
    OBVIOUS
  <2>1. CASE i \in 1 .. Len(socket) /\ socket'[i] = socket[i]
    BY <1>3, <2>1, OrderTypes DEF OrderInv, Id
  <2>2. CASE socket'[i].seq = arrived + 1
    BY <1>3, <2>2, OrderTypes DEF OrderInv
  <2> QED
    BY <1>5, <2>1, <2>2
<1> QED
  BY <1>2, <1>3, <1>6, <1>7, <1>8, <1>9 DEF OrderInv

LEMMA OrderBatch ==
    ASSUME CoreInv, OrderInv, CoreInv', ReceiveBatch
    PROVE  OrderInv'
<1>1. PICK n \in 1 .. Len(socket) :
         /\ Collect(SubSeq(socket, 1, n))
         /\ socket' = SubSeq(socket, n + 1, Len(socket))
  BY DEF ReceiveBatch
<1>2. kept' = kept /\ UNCHANGED <<first, arrived>> /\ first = None
  BY KeptSame DEF ReceiveBatch, queue, reader, CoreInv, PlaceInv
<1> DEFINE read == SubSeq(socket, 1, n)
<1>3. /\ read \in Seq(Datagram) /\ Len(read) = n
      /\ \A p \in 1..n : p \in 1 .. Len(socket) /\ read[p] = socket[p]
  <2>1. n \in Nat /\ \A p \in 1..n : p \in 1 .. Len(socket) /\ socket[p] \in Datagram
    BY <1>1, OrderTypes
  <2> QED
    BY <1>1, <2>1, OrderTypes, SubSeqProperties
<1>4. /\ Len(socket') = Len(socket) - n
      /\ \A k \in 1 .. Len(socket') : k + n \in 1 .. Len(socket) /\ socket'[k] = socket[k + n]
  <2>1. n \in Nat /\ \A p \in n + 1 .. Len(socket) : socket[p] \in Datagram
    BY <1>1, OrderTypes
  <2> QED
    BY <1>1, <2>1, OrderTypes, SubSeqProperties
<1>5. /\ \A j \in 1 .. Len(events') : \E p \in 1..n : events'[j] = socket[p].seq
      /\ \A i, j \in 1 .. Len(events') : i < j =>
            \E p, q \in 1..n : p < q /\ events'[i] = socket[p].seq /\ events'[j] = socket[q].seq
  <2>1. Collect(read) /\ parsed \in Seq(Id)
    BY <1>1, OrderTypes
  <2> HIDE DEF read
  <2>2. /\ \A j \in 1 .. Len(events') : \E p \in 1..n : events'[j] = read[p].seq
        /\ \A i, j \in 1 .. Len(events') : i < j =>
              \E p, q \in 1..n : p < q /\ events'[i] = read[p].seq /\ events'[j] = read[q].seq
    BY <1>3, <2>1, CollectEffect
  <2>3. \A p \in 1..n : read[p].seq = socket[p].seq
    BY <1>3
  <2>4. ASSUME NEW j \in 1 .. Len(events') PROVE \E p \in 1..n : events'[j] = socket[p].seq
    BY <2>2, <2>3
  <2>5. ASSUME NEW i \in 1 .. Len(events'), NEW j \in 1 .. Len(events'), i < j
        PROVE  \E p, q \in 1..n : p < q /\ events'[i] = socket[p].seq /\ events'[j] = socket[q].seq
    <3>1. PICK p \in 1..n, q \in 1..n : p < q /\ events'[i] = read[p].seq /\ events'[j] = read[q].seq
      BY <2>2, <2>5
    <3> QED
      BY <2>3, <3>1
  <2> QED
    BY <2>4, <2>5
<1>6. \A p \in 1..n : p \in 1 .. Len(socket)
  BY <1>3
<1> HIDE DEF read
<1>7. \A i, j \in 1 .. Len(events') : i < j => events'[i] < events'[j]
  BY <1>5, <1>6 DEF OrderInv
<1>8. \A i \in 1 .. Len(kept), j \in 1 .. Len(events') : kept[i] < events'[j]
  BY <1>5, <1>6 DEF OrderInv, Before
<1>9. \A k \in 1 .. Len(socket') : \A j \in 1 .. Len(events') : events'[j] < socket'[k].seq
  <2> SUFFICES ASSUME NEW k \in 1 .. Len(socket'), NEW j \in 1 .. Len(events')
               PROVE  events'[j] < socket'[k].seq
    OBVIOUS
  <2>1. PICK p \in 1..n : events'[j] = socket[p].seq
    BY <1>5
  <2>2. p \in 1 .. Len(socket) /\ k + n \in 1 .. Len(socket)
    BY <1>4, <1>6, <2>1
  <2>3. Len(socket) \in Nat
    BY OrderTypes
  <2>4. n \in Nat /\ Len(socket') \in Int
    BY <1>1, <1>4, <2>3
  <2>5. p < k + n
    BY <2>1, <2>4
  <2> QED
    BY <1>4, <2>1, <2>2, <2>5 DEF OrderInv
<1>10. \A i, j \in 1 .. Len(socket') : i < j => socket'[i].seq < socket'[j].seq
  <2> SUFFICES ASSUME NEW i \in 1 .. Len(socket'), NEW j \in 1 .. Len(socket'), i < j
               PROVE  socket'[i].seq < socket'[j].seq
    OBVIOUS
  <2>1. i + n < j + n
    BY <1>1, <1>4, OrderTypes
  <2> QED
    BY <1>4, <2>1 DEF OrderInv
<1>11. \A j \in 1 .. Len(events') : events'[j] < arrived + 1
  BY <1>5, <1>6 DEF OrderInv
<1>12. \A k \in 1 .. Len(socket') : /\ Before(kept, events', first, socket'[k].seq)
                                    /\ socket'[k].seq < arrived + 1
  BY <1>2, <1>4, <1>9 DEF OrderInv, Before
<1>13. Before(kept, events', first, arrived + 1)
  BY <1>2, <1>11 DEF OrderInv, Before
<1> QED
  BY <1>2, <1>7, <1>8, <1>10, <1>12, <1>13 DEF OrderInv

LEMMA OrderFirst ==
    ASSUME CoreInv, OrderInv, ReceiveFirst
    PROVE  OrderInv'
<1>1. kept' = kept /\ UNCHANGED <<events, arrived>> /\ rpc' = "second" /\ events = << >>
  BY KeptSame DEF ReceiveFirst, batch, queue, reader, CoreInv, PlaceInv
<1>2. CASE socket # << >> /\ first' = Head(socket) /\ socket' = Tail(socket)
  <2>1. /\ first' = socket[1] /\ 1 \in 1 .. Len(socket)
        /\ Len(socket') = Len(socket) - 1
        /\ \A k \in 1 .. Len(socket') : k + 1 \in 1 .. Len(socket) /\ socket'[k] = socket[k + 1]
    BY <1>2, OrderTypes, HeadTailProperties
  <2>2. \A i, j \in 1 .. Len(socket') : i < j => socket'[i].seq < socket'[j].seq
    <3> SUFFICES ASSUME NEW i \in 1 .. Len(socket'), NEW j \in 1 .. Len(socket'), i < j
                 PROVE  socket'[i].seq < socket'[j].seq
      OBVIOUS
    <3>1. i + 1 < j + 1 /\ i + 1 \in 1 .. Len(socket) /\ j + 1 \in 1 .. Len(socket)
      BY <2>1, OrderTypes
    <3> QED
      BY <2>1, <3>1 DEF OrderInv
  <2>3. \A k \in 1 .. Len(socket') : socket[1].seq < socket'[k].seq
    <3> SUFFICES ASSUME NEW k \in 1 .. Len(socket') PROVE socket[1].seq < socket'[k].seq
      OBVIOUS
    <3>1. 1 < k + 1 /\ k + 1 \in 1 .. Len(socket)
      BY <2>1, OrderTypes
    <3> QED
      BY <2>1, <3>1 DEF OrderInv
  <2>4. \A i \in 1 .. Len(kept) : kept[i] < socket[1].seq
    BY <2>1 DEF OrderInv, Before
  <2>5. \A k \in 1 .. Len(socket') : /\ Before(kept, events, socket[1], socket'[k].seq)
                                     /\ socket'[k].seq < arrived + 1
    BY <2>1, <2>3 DEF OrderInv, Before
  <2>6. Before(kept, events, socket[1], arrived + 1)
    BY <2>1 DEF OrderInv, Before
  <2> QED
    BY <1>1, <2>1, <2>2, <2>4, <2>5, <2>6 DEF OrderInv
<1>3. CASE first' = None /\ UNCHANGED socket
  BY <1>1, <1>3 DEF OrderInv, Before
<1> QED
  BY <1>2, <1>3 DEF ReceiveFirst

LEMMA OrderSecond ==
    ASSUME CoreInv, OrderInv, CoreInv', ReceiveSecond
    PROVE  OrderInv'
<1>1. /\ kept' = kept /\ arrived' = arrived /\ events = << >> /\ first' = None
      /\ socket # << >> /\ socket' = Tail(socket)
  BY KeptSame DEF ReceiveSecond, queue, reader, CoreInv, PlaceInv
<1>2. /\ Len(socket') = Len(socket) - 1
      /\ \A k \in 1 .. Len(socket') : k + 1 \in 1 .. Len(socket) /\ socket'[k] = socket[k + 1]
  BY <1>1, OrderTypes, HeadTailProperties
<1>3. \A i, j \in 1 .. Len(socket') : i < j => socket'[i].seq < socket'[j].seq
  <2> SUFFICES ASSUME NEW i \in 1 .. Len(socket'), NEW j \in 1 .. Len(socket'), i < j
               PROVE  socket'[i].seq < socket'[j].seq
    OBVIOUS
  <2>1. i + 1 < j + 1 /\ i + 1 \in 1 .. Len(socket) /\ j + 1 \in 1 .. Len(socket)
    BY <1>2, OrderTypes
  <2> QED
    BY <1>2, <2>1 DEF OrderInv
<1>4. CASE first = None
  <2>1. rpc' = "crashed" /\ events' = events
    BY <1>4 DEF ReceiveSecond
  <2>2. \A k \in 1 .. Len(socket') : /\ Before(kept, events, first, socket'[k].seq)
                                     /\ socket'[k].seq < arrived + 1
    BY <1>2 DEF OrderInv
  <2> QED
    BY <1>1, <1>3, <1>4, <2>1, <2>2 DEF OrderInv
<1>5. CASE first # None
  <2>1. Collect(<<first>>) /\ first \in Datagram
    BY <1>5 DEF ReceiveSecond, CoreInv, TypeOK
  <2>2. <<first>> \in Seq(Datagram) /\ Len(<<first>>) = 1
    BY <2>1
  <2>3. /\ events' \in Seq(Id) /\ Len(events') <= 1
        /\ \A j \in 1 .. Len(events') : \E p \in 1..1 : events'[j] = <<first>>[p].seq
    BY <2>1, <2>2, OrderTypes, CollectEffect
  <2>4. \A j \in 1 .. Len(events') : events'[j] = first.seq
    BY <2>3
  <2>5. Len(events') \in Nat
    BY <2>3, LenProperties
  <2>6. \A i, j \in 1 .. Len(events') : ~(i < j)
    BY <2>3, <2>5
  <2>7. \A i \in 1 .. Len(kept), j \in 1 .. Len(events') : kept[i] < events'[j]
    BY <1>5, <2>4 DEF OrderInv
  <2>8. \A k \in 1 .. Len(socket') : /\ Before(kept, events', None, socket'[k].seq)
                                     /\ socket'[k].seq < arrived + 1
    BY <1>2, <1>5, <2>4 DEF OrderInv, Before
  <2>9. Before(kept, events', None, arrived + 1)
    BY <1>5, <2>4 DEF OrderInv, Before
  <2> QED
    BY <1>1, <1>3, <2>6, <2>7, <2>8, <2>9 DEF OrderInv
<1> QED
  BY <1>4, <1>5

LEMMA OrderOffer ==
    ASSUME CoreInv, OrderInv, OfferBatch
    PROVE  OrderInv'
<1>1. /\ kept' = kept \o admitted'
      /\ admitted' \in Seq(Id) /\ Len(admitted') = pushed'
      /\ pushed' \in 0 .. Len(events) /\ admitted' = SubSeq(events, 1, pushed')
  BY KeptOffer, OfferEffect
<1>2. UNCHANGED <<events, first, socket, arrived>> /\ rpc = "offer" /\ rpc' \in {"count", "publish"}
  BY DEF OfferBatch, input
<1>3. first = None
  BY <1>2 DEF CoreInv, PlaceInv
<1>4. pushed' \in Nat /\ \A j \in 1 .. pushed' : j \in 1 .. Len(events) /\ admitted'[j] = events[j]
  <2>1. events \in Seq(Id) /\ Len(events) \in Nat
    BY OrderTypes
  <2>2. \A n \in 0 .. Len(events) : \A j \in 1..n : SubSeq(events, 1, n)[j] = events[j]
    BY <2>1, PrefixTypes
  <2> QED
    BY <1>1, <2>1, <2>2
<1>5. /\ Len(kept') = Len(kept) + pushed'
      /\ \A i \in 1 .. Len(kept) + pushed' :
            kept'[i] = IF i <= Len(kept) THEN kept[i] ELSE admitted'[i - Len(kept)]
  BY <1>1, OrderTypes, ConcatProperties
<1>6. \A i \in 1 .. Len(kept') :
         \/ i \in 1 .. Len(kept) /\ kept'[i] = kept[i]
         \/ i > Len(kept) /\ i - Len(kept) \in 1 .. Len(events) /\ kept'[i] = events[i - Len(kept)]
  <2> SUFFICES ASSUME NEW i \in 1 .. Len(kept'), ~(i <= Len(kept))
               PROVE  i - Len(kept) \in 1 .. Len(events) /\ kept'[i] = events[i - Len(kept)]
    BY <1>4, <1>5, OrderTypes
  <2>1. i - Len(kept) \in 1 .. pushed'
    BY <1>4, <1>5, OrderTypes
  <2> QED
    BY <1>4, <1>5, <2>1
<1>7. \A i, j \in 1 .. Len(kept') : i < j => kept'[i] < kept'[j]
  <2> SUFFICES ASSUME NEW i \in 1 .. Len(kept'), NEW j \in 1 .. Len(kept'), i < j
               PROVE  kept'[i] < kept'[j]
    OBVIOUS
  <2>1. CASE i \in 1 .. Len(kept) /\ kept'[i] = kept[i]
    BY <1>2, <1>6, <2>1 DEF OrderInv
  <2>2. CASE /\ i > Len(kept) /\ i - Len(kept) \in 1 .. Len(events)
             /\ kept'[i] = events[i - Len(kept)]
    <3>1. j - Len(kept) \in 1 .. Len(events) /\ kept'[j] = events[j - Len(kept)]
      BY <1>5, <1>6, <2>2, OrderTypes
    <3>2. i - Len(kept) < j - Len(kept)
      BY <1>4, <1>5, OrderTypes
    <3> QED
      BY <2>2, <3>1, <3>2 DEF OrderInv
  <2> QED
    BY <1>6, <2>1, <2>2
<1>8. \A x : Before(kept, events, first, x) => Before(kept', events, first, x)
  BY <1>6 DEF Before
<1> QED
  BY <1>2, <1>3, <1>7, <1>8 DEF OrderInv

LEMMA OrderCount ==
    ASSUME CoreInv, OrderInv, Count \/ NoSecond
    PROVE  OrderInv'
<1>1. CASE Count
  <2>1. kept' = kept /\ UNCHANGED <<first, socket, arrived>> /\ Len(events') = 0 /\ rpc' = "top"
    BY <1>1, KeptSame DEF Count, input, queue, reader
  <2> QED
    BY <2>1 DEF OrderInv, Before
<1>2. CASE NoSecond
  <2>1. kept' = kept /\ UNCHANGED <<events, socket, arrived>> /\ first' = None /\ rpc' = "top"
    BY <1>2, KeptSame DEF NoSecond, input, queue, reader
  <2> QED
    BY <2>1 DEF OrderInv, Before
<1> QED
  BY <1>1, <1>2

LEMMA OrderStep ==
    ASSUME CoreInv, OrderInv, CoreInv', [Next]_vars
    PROVE  OrderInv'
<1>1. CASE Consumer
  <2>1. kept' = kept /\ UNCHANGED <<events, first, socket, arrived, rpc>>
    BY <1>1, KeptConsumer DEF Consumer, input, batch
  <2> QED
    BY <2>1, OrderSame
<1>2. CASE PublishBatch
  <2>1. kept' = kept /\ UNCHANGED <<events, first, socket, arrived>> /\ rpc' = "count"
    BY <1>2, KeptPublish DEF PublishBatch, input, batch
  <2> QED
    BY <2>1, OrderSame
<1>3. CASE \/ RequestStop \/ MetricsServerEnds \/ Top \/ NoBatch \/ WriteLines \/ WriteFails
           \/ Close \/ JoinConsumer \/ JoinMetrics \/ UNCHANGED vars
  <2>1. /\ UNCHANGED <<events, first, socket, arrived, applied, cpc, taken, chan, admitted>>
        /\ rpc' \in {"journal", "offer"} => rpc \in {"journal", "offer"}
    BY <1>3 DEF RequestStop, MetricsServerEnds, Top, NoBatch, WriteLines, WriteFails, Close,
                JoinConsumer, JoinMetrics, vars, input, batch, queue, reader
  <2> QED
    BY <2>1, KeptSame, OrderSame
<1> QED
  BY <1>1, <1>2, <1>3, OrderArrive, OrderBatch, OrderFirst, OrderSecond, OrderOffer, OrderCount
  DEF Next, Receiver

\* The book sees the events in the order in which they reached the socket, none
\* of them twice: batches, drops, failed writes and the stop keep their order.
THEOREM FeedOrderKept == Spec => []KeepsFeedOrder
<1>1. CoreInv /\ OrderInv => KeepsFeedOrder
  <2> SUFFICES ASSUME CoreInv, OrderInv PROVE KeepsFeedOrder
    OBVIOUS
  <2>1. DOMAIN kept = 1 .. Len(kept)
    BY OrderTypes, LenProperties
  <2> QED
    BY <2>1 DEF OrderInv, KeepsFeedOrder
<1>2. CoreInv /\ OrderInv /\ [Next]_vars /\ CoreInv' => OrderInv'
  BY OrderStep
<1> QED
  BY <1>1, <1>2, InitOrder, CoreHolds, PTL DEF Spec
-----------------------------------------------------------------------------
(* The journal *)

missing  == journaled \ ToSet(journal)
tornCost == IF torn THEN 1 ELSE 0

\* A torn line is a debt: the next line appended is lost with it.
LostInv ==
    /\ ToSet(events) \subseteq ToSet(parsed)
    /\ Cardinality(missing) + tornCost <= write_errors * (batch_size + 1)

LEMMA SetOfConcat ==
    ASSUME NEW S, NEW s \in Seq(S), NEW t \in Seq(S)
    PROVE  ToSet(s \o t) = ToSet(s) \cup ToSet(t)
<1>1. /\ s \o t \in Seq(S) /\ Len(s \o t) = Len(s) + Len(t)
      /\ \A i \in 1 .. Len(s) + Len(t) :
            (s \o t)[i] = IF i <= Len(s) THEN s[i] ELSE t[i - Len(s)]
  BY ConcatProperties
<1>2. /\ Len(s) \in Nat /\ Len(t) \in Nat
      /\ DOMAIN s = 1 .. Len(s) /\ DOMAIN t = 1 .. Len(t)
      /\ DOMAIN (s \o t) = 1 .. Len(s) + Len(t)
  BY <1>1, LenProperties
<1>3. ASSUME NEW x \in ToSet(s \o t) PROVE x \in ToSet(s) \cup ToSet(t)
  <2>1. PICK i \in 1 .. Len(s) + Len(t) : x = (s \o t)[i]
    BY <1>2 DEF ToSet
  <2>2. CASE i <= Len(s)
    <3>1. i \in 1 .. Len(s) /\ x = s[i]
      BY <1>1, <1>2, <2>1, <2>2
    <3> QED
      BY <1>2, <3>1 DEF ToSet
  <2>3. CASE ~(i <= Len(s))
    <3>1. i - Len(s) \in 1 .. Len(t) /\ x = t[i - Len(s)]
      BY <1>1, <1>2, <2>1, <2>3
    <3> QED
      BY <1>2, <3>1 DEF ToSet
  <2> QED
    BY <2>2, <2>3
<1>4. ASSUME NEW x \in ToSet(s) PROVE x \in ToSet(s \o t)
  <2>1. PICK i \in 1 .. Len(s) : x = s[i]
    BY <1>2 DEF ToSet
  <2>2. i \in 1 .. Len(s) + Len(t) /\ x = (s \o t)[i]
    BY <1>1, <1>2, <2>1
  <2> QED
    BY <1>2, <2>2 DEF ToSet
<1>5. ASSUME NEW x \in ToSet(t) PROVE x \in ToSet(s \o t)
  <2>1. PICK i \in 1 .. Len(t) : x = t[i]
    BY <1>2 DEF ToSet
  <2>2. /\ i + Len(s) \in 1 .. Len(s) + Len(t)
        /\ x = (s \o t)[i + Len(s)]
    <3>1. i + Len(s) \in 1 .. Len(s) + Len(t) /\ ~(i + Len(s) <= Len(s)) /\ i + Len(s) - Len(s) = i
      BY <1>2
    <3> QED
      BY <1>1, <2>1, <3>1
  <2> QED
    BY <1>2, <2>2 DEF ToSet
<1> QED
  BY <1>3, <1>4, <1>5

\* A sequence has at most as many elements as places.
LEMMA SetOfSeq ==
    ASSUME NEW s \in Seq(Id)
    PROVE  /\ IsFiniteSet(ToSet(s)) /\ Cardinality(ToSet(s)) <= Len(s)
           /\ Cardinality(ToSet(s)) \in Nat /\ ToSet(s) \subseteq Id
<1>1. Len(s) \in Nat /\ DOMAIN s = 1 .. Len(s) /\ \A i \in 1 .. Len(s) : s[i] \in Id
  BY LenProperties, ElementOfSeq
<1>2. IsFiniteSet(1 .. Len(s)) /\ Cardinality(1 .. Len(s)) = Len(s)
  <2>1. Len(s) \in Int /\ 1 \in Int
    BY <1>1
  <2>2. /\ IsFiniteSet(1 .. Len(s))
        /\ Cardinality(1 .. Len(s)) = IF 1 > Len(s) THEN 0 ELSE Len(s) - 1 + 1
    BY <2>1, FS_Interval
  <2> QED
    BY <1>1, <2>2
<1>3. s \in Surjection(1 .. Len(s), ToSet(s))
  BY <1>1 DEF Surjection, ToSet
<1>4. IsFiniteSet(ToSet(s)) /\ Cardinality(ToSet(s)) <= Cardinality(1 .. Len(s))
  BY <1>2, <1>3, FS_Surjection
<1> QED
  BY <1>1, <1>2, <1>4, FS_CardinalityType DEF ToSet

MissingOK == missing \subseteq Id /\ IsFiniteSet(missing) /\ Cardinality(missing) \in Nat

LEMMA MissingNow == CoreInv => MissingOK
<1> SUFFICES ASSUME CoreInv PROVE MissingOK
  OBVIOUS
<1>1. kept \in Seq(Id) /\ parsed \in Seq(Id)
  BY KeptNow DEF CoreInv, TypeOK, Id
<1>2. ToSet(kept) \subseteq Id /\ ToSet(parsed) \subseteq Id
  BY <1>1, SetOfSeq
<1>3. missing \subseteq Id
  BY <1>2 DEF missing, journaled
<1>4. IsFiniteSet(Id)
  BY ArrivalAssumption, FS_Interval DEF Id
<1> QED
  BY <1>3, <1>4, FS_Subset, FS_CardinalityType DEF MissingOK

LEMMA MissingNext == CoreInv' => MissingOK'
BY MissingNow, PTL

\* A step that writes nothing and after which no more lines are due.
LEMMA LostSame ==
    ASSUME CoreInv, LostInv, UNCHANGED <<file, batch_size>>,
           journaled' \subseteq journaled, ToSet(events') \subseteq ToSet(parsed')
    PROVE  LostInv'
<1>1. missing' \subseteq missing
  BY DEF missing, file
<1>2. Cardinality(missing') <= Cardinality(missing)
        /\ Cardinality(missing') \in Nat /\ Cardinality(missing) \in Nat
  BY <1>1, MissingNow, FS_Subset, FS_CardinalityType DEF MissingOK
<1>3. tornCost' = tornCost /\ tornCost \in Nat
  BY DEF tornCost, file
<1>4. write_errors' * (batch_size' + 1) = write_errors * (batch_size + 1)
  BY DEF file
<1>5. write_errors * (batch_size + 1) \in Nat
  BY BatchAssumption DEF CoreInv, TypeOK
<1> QED
  BY <1>2, <1>3, <1>4, <1>5 DEF LostInv

\* A write, complete or not: what it may cost is the rest of the batch, and
\* the line behind a torn one.
LEMMA LostWrite ==
    ASSUME CoreInv, CoreInv', LostInv, WriteLines \/ WriteFails
    PROVE  LostInv'
<1>0. /\ rpc = "journal" /\ rpc' = "offer"
      /\ UNCHANGED <<batch_size, events, parsed>> /\ kept' = kept
  BY KeptSame DEF WriteLines, WriteFails, batch, queue, reader
<1>1. /\ events \in Seq(Id) /\ journal \in Seq(Id) /\ Len(events) \in Nat
      /\ Len(events) <= batch_size
      /\ batch_size \in Nat /\ write_errors \in Nat /\ torn \in BOOLEAN /\ torn' \in BOOLEAN
  BY LenProperties, BatchAssumption DEF CoreInv, TypeOK, Id
<1>2. /\ IsFiniteSet(ToSet(events)) /\ Cardinality(ToSet(events)) <= Len(events)
      /\ Cardinality(ToSet(events)) \in Nat
  BY <1>1, SetOfSeq
<1>3. journaled' \subseteq journaled \cup ToSet(events)
  BY <1>0 DEF journaled
<1>4. ASSUME NEW whole \in Seq(Id), NEW partial, Written(whole, partial)
      PROVE  ToSet(journal) \subseteq ToSet(journal')
  <2>1. PICK t \in Seq(Id) : journal' = journal \o t
    BY <1>4, HeadTailProperties DEF Written
  <2> QED
    BY <1>1, <2>1, SetOfConcat
<1>5. MissingOK /\ MissingOK'
  BY MissingNow, MissingNext
<1>6. ASSUME write_errors' = write_errors,
             Cardinality(missing') + tornCost' <= Cardinality(missing) + tornCost
      PROVE  LostInv'
  <2>1. write_errors' * (batch_size' + 1) = write_errors * (batch_size + 1)
        /\ write_errors * (batch_size + 1) \in Nat
    BY <1>0, <1>1, <1>6
  <2>2. tornCost \in Nat /\ tornCost' \in Nat
    BY DEF tornCost
  <2>3. Cardinality(missing') + tornCost' <= write_errors * (batch_size + 1)
    BY <1>5, <1>6, <2>1, <2>2 DEF LostInv, MissingOK
  <2> QED
    BY <1>0, <2>1, <2>3 DEF LostInv
<1>7. CASE WriteLines
  <2>1. Written(events, FALSE) /\ write_errors' = write_errors
    BY <1>7 DEF WriteLines
  <2>2. CASE torn /\ events # << >>
    <3>1. /\ Head(events) \in Id /\ Tail(events) \in Seq(Id)
          /\ journal' = journal \o Tail(events) /\ torn' = FALSE
      BY <1>1, <2>1, <2>2, HeadTailProperties DEF Written
    <3>2. ToSet(events) \subseteq ToSet(Tail(events)) \cup {Head(events)}
      <4>1. /\ DOMAIN events = 1 .. Len(events) /\ DOMAIN Tail(events) = 1 .. Len(events) - 1
            /\ \A i \in 1 .. Len(events) - 1 : Tail(events)[i] = events[i + 1]
            /\ Head(events) = events[1]
        BY <1>1, <2>2, <3>1, HeadTailProperties, LenProperties
      <4>2. ASSUME NEW i \in 1 .. Len(events)
            PROVE  events[i] \in ToSet(Tail(events)) \cup {Head(events)}
        <5>1. CASE i = 1
          BY <4>1, <5>1
        <5>2. CASE i # 1
          <6>1. i - 1 \in 1 .. Len(events) - 1 /\ i - 1 + 1 = i
            BY <1>1, <5>2
          <6> QED
            BY <4>1, <6>1 DEF ToSet
        <5> QED
          BY <5>1, <5>2
      <4> QED
        BY <4>1, <4>2 DEF ToSet
    <3>3. ToSet(journal') = ToSet(journal) \cup ToSet(Tail(events))
      <4>1. journal \in Seq(Id) /\ Tail(events) \in Seq(Id)
        BY <1>1, <3>1
      <4>2. ToSet(journal \o Tail(events)) = ToSet(journal) \cup ToSet(Tail(events))
        BY <4>1, SetOfConcat
      <4> QED
        BY <3>1, <4>2
    <3>4. missing' \subseteq missing \cup {Head(events)}
      BY <1>3, <3>2, <3>3 DEF missing
    <3>5. /\ IsFiniteSet(missing \cup {Head(events)})
          /\ Cardinality(missing \cup {Head(events)}) <= Cardinality(missing) + 1
      <4>1. /\ IsFiniteSet(missing \cup {Head(events)})
            /\ Cardinality(missing \cup {Head(events)})
                 = IF Head(events) \in missing THEN Cardinality(missing)
                                               ELSE Cardinality(missing) + 1
        BY <1>5, FS_AddElement DEF MissingOK
      <4>2. Cardinality(missing) <= Cardinality(missing) + 1
        BY <1>5 DEF MissingOK
      <4>3. Cardinality(missing) + 1 <= Cardinality(missing) + 1
        BY <1>5 DEF MissingOK
      <4> QED
        BY <4>1, <4>2, <4>3
    <3>6. Cardinality(missing') <= Cardinality(missing \cup {Head(events)})
      BY <3>4, <3>5, FS_Subset
    <3>7. Cardinality(missing \cup {Head(events)}) \in Nat
      BY <3>5, FS_CardinalityType
    <3>8. tornCost = 1 /\ tornCost' = 0
      BY <2>2, <3>1 DEF tornCost
    <3>9. Cardinality(missing') + tornCost' <= Cardinality(missing) + tornCost
      BY <1>5, <3>5, <3>6, <3>7, <3>8 DEF MissingOK
    <3> QED
      BY <1>6, <2>1, <3>9
  <2>3. CASE ~(torn /\ events # << >>)
    <3>1. journal' = journal \o events /\ (torn' => torn)
      BY <2>1, <2>3 DEF Written
    <3>2. ToSet(journal') = ToSet(journal) \cup ToSet(events)
      BY <1>1, <3>1, SetOfConcat
    <3>3. missing' \subseteq missing
      BY <1>3, <3>2 DEF missing
    <3>4. Cardinality(missing') <= Cardinality(missing)
      BY <1>5, <3>3, FS_Subset DEF MissingOK
    <3>5. tornCost' <= tornCost /\ tornCost \in Nat /\ tornCost' \in Nat
      BY <3>1 DEF tornCost
    <3>6. Cardinality(missing') + tornCost' <= Cardinality(missing) + tornCost
      BY <1>5, <3>4, <3>5 DEF MissingOK
    <3> QED
      BY <1>6, <2>1, <3>6
  <2> QED
    BY <2>2, <2>3
<1>8. CASE WriteFails
  <2>1. PICK n \in 0 .. Len(events) - 1, partial \in BOOLEAN :
          Written(SubSeq(events, 1, n), partial)
    BY <1>8 DEF WriteFails
  <2>2. SubSeq(events, 1, n) \in Seq(Id)
    BY <1>1, <2>1, PrefixTypes
  <2>3. missing' \subseteq missing \cup ToSet(events)
    BY <1>3, <1>4, <2>1, <2>2 DEF missing
  <2>4. /\ IsFiniteSet(missing \cup ToSet(events))
        /\ Cardinality(missing \cup ToSet(events))
             = Cardinality(missing) + Cardinality(ToSet(events))
                 - Cardinality(missing \cap ToSet(events))
    BY <1>2, <1>5, FS_Union DEF MissingOK
  <2>5. Cardinality(missing \cap ToSet(events)) \in Nat
    BY <1>5, FS_Subset, FS_CardinalityType DEF MissingOK
  <2>6. Cardinality(missing') <= Cardinality(missing \cup ToSet(events))
    BY <2>3, <2>4, FS_Subset
  <2>7. Cardinality(missing') <= Cardinality(missing) + batch_size
    <3> DEFINE before == Cardinality(missing)
               whole  == Cardinality(ToSet(events))
               both   == Cardinality(missing \cap ToSet(events))
    <3>1. before \in Nat /\ whole \in Nat /\ both \in Nat /\ Len(events) \in Nat
          /\ batch_size \in Nat /\ whole <= Len(events) /\ Len(events) <= batch_size
          /\ Cardinality(missing') \in Nat
      BY <1>1, <1>2, <1>5, <2>5 DEF MissingOK
    <3>2. Cardinality(missing') <= before + whole - both
      BY <2>4, <2>6
    <3> HIDE DEF before, whole, both
    <3>3. Cardinality(missing') <= before + batch_size
      BY <3>1, <3>2
    <3> QED
      BY <3>3 DEF before
  <2>8. tornCost \in Nat /\ tornCost' <= tornCost + 1 /\ tornCost' \in Nat
    BY DEF tornCost
  <2>9. write_errors' = write_errors + 1
    BY <1>8 DEF WriteFails
  <2>10. (write_errors + 1) * (batch_size + 1)
           = write_errors * (batch_size + 1) + batch_size + 1
         /\ write_errors * (batch_size + 1) \in Nat
    BY <1>1
  <2>11. Cardinality(missing') + tornCost'
           <= Cardinality(missing) + tornCost + batch_size + 1
    BY <1>1, <1>5, <2>7, <2>8 DEF MissingOK
  <2>12. Cardinality(missing') + tornCost' <= write_errors' * (batch_size' + 1)
    <3>1. Cardinality(missing) + tornCost <= write_errors * (batch_size + 1)
      BY DEF LostInv
    <3> DEFINE bound == write_errors * (batch_size + 1)
    <3>2. Cardinality(missing') + tornCost' <= bound + batch_size + 1
      <4> HIDE DEF bound
      <4>1. Cardinality(missing) + tornCost <= bound /\ bound \in Nat
        BY <2>10, <3>1 DEF bound
      <4> QED
        BY <1>1, <1>5, <2>8, <2>11, <4>1 DEF MissingOK
    <3> QED
      BY <1>0, <2>9, <2>10, <3>2
  <2> QED
    BY <1>0, <2>12 DEF LostInv
<1> QED
  BY <1>7, <1>8

\* Receiving parses events whose lines are not due before the write.
LEMMA LostReceive ==
    ASSUME CoreInv, LostInv, ReceiveBatch \/ ReceiveSecond
    PROVE  LostInv'
<1>0. parsed \in Seq(Id) /\ socket \in Seq(Datagram) /\ first \in Datagram \cup {None}
  BY DEF CoreInv, TypeOK, Id
<1>1. /\ kept' = kept /\ UNCHANGED <<file, batch_size>>
      /\ events = << >> /\ rpc \in {"receive", "second"}
  BY KeptSame DEF ReceiveBatch, ReceiveSecond, queue, reader, CoreInv, PlaceInv
<1>2. ASSUME NEW datagrams \in Seq(Datagram), Collect(datagrams)
      PROVE  LostInv'
  <2>1. /\ events' \in Seq(Id) /\ parsed' = parsed \o events'
        /\ rpc' = IF events' = << >> THEN "top" ELSE "journal"
    BY <1>0, <1>2, CollectEffect
  <2>2. ToSet(parsed') = ToSet(parsed) \cup ToSet(events')
    BY <1>0, <2>1, SetOfConcat
  <2>3. events' = << >> => ToSet(events') = {}
    BY <2>1, LenProperties DEF ToSet
  <2>4. journaled' \subseteq journaled
    <3>1. CASE events' = << >>
      BY <1>1, <2>1, <2>2, <2>3, <3>1 DEF journaled
    <3>2. CASE events' # << >>
      BY <1>1, <2>1, <2>2, <3>2 DEF journaled
    <3> QED
      BY <3>1, <3>2
  <2> QED
    BY <1>1, <2>2, <2>4, LostSame
<1>3. CASE ReceiveBatch
  <2>1. PICK n \in 1 .. Len(socket) : Collect(SubSeq(socket, 1, n))
    BY <1>3 DEF ReceiveBatch
  <2>2. SubSeq(socket, 1, n) \in Seq(Datagram)
    BY <1>0, <2>1, LenProperties, SubSeqProperties
  <2> QED
    BY <1>2, <2>1, <2>2
<1>4. CASE ReceiveSecond
  <2>1. CASE first = None
    <3>1. rpc' = "crashed" /\ UNCHANGED <<events, parsed>>
      BY <1>4, <2>1 DEF ReceiveSecond
    <3>2. journaled' \subseteq journaled
      BY <1>1, <3>1 DEF journaled
    <3> QED
      BY <1>1, <3>1, <3>2, LostSame DEF LostInv
  <2>2. CASE first # None
    <3>1. Collect(<<first>>) /\ <<first>> \in Seq(Datagram)
      BY <1>0, <1>4, <2>2 DEF ReceiveSecond
    <3> QED
      BY <1>2, <3>1
  <2> QED
    BY <2>1, <2>2
<1> QED
  BY <1>3, <1>4

LEMMA LostStep ==
    ASSUME CoreInv, CoreInv', LostInv, [Next]_vars
    PROVE  LostInv'
<1>1. ASSUME UNCHANGED <<file, batch_size, parsed, events>>, kept' = kept,
             rpc # "journal", rpc' # "journal"
      PROVE  LostInv'
  <2>1. journaled' \subseteq journaled
    BY <1>1 DEF journaled
  <2> QED
    BY <1>1, <2>1, LostSame DEF LostInv
<1>2. CASE WriteLines \/ WriteFails
  BY <1>2, LostWrite
<1>3. CASE ReceiveBatch \/ ReceiveSecond
  BY <1>3, LostReceive
<1>4. CASE Top \/ NoBatch \/ ReceiveFirst \/ NoSecond \/ Close \/ JoinConsumer \/ JoinMetrics
  <2>1. UNCHANGED <<file, batch_size, parsed, events>> /\ rpc # "journal" /\ rpc' # "journal"
    BY <1>4 DEF Top, NoBatch, ReceiveFirst, NoSecond, Close, JoinConsumer, JoinMetrics, batch
  <2>2. kept' = kept
    BY <1>4, KeptSame
    DEF Top, NoBatch, ReceiveFirst, NoSecond, Close, JoinConsumer, JoinMetrics, queue, reader
  <2> QED
    BY <1>1, <2>1, <2>2
<1>5. CASE PublishBatch
  BY <1>1, <1>5, KeptPublish DEF PublishBatch, batch
<1>6. CASE Count
  <2>1. /\ kept' = kept /\ UNCHANGED <<file, batch_size, parsed>>
        /\ events' = << >> /\ rpc = "count" /\ rpc' = "top"
    BY <1>6, KeptSame DEF Count, queue, reader
  <2>2. ToSet(events') = {}
    BY <2>1, EmptySeq, LenProperties DEF ToSet
  <2>3. journaled' \subseteq journaled
    BY <2>1 DEF journaled
  <2> QED
    BY <2>1, <2>2, <2>3, LostSame
<1>7. CASE OfferBatch
  <2>1. /\ rpc = "offer" /\ rpc' # "journal"
        /\ UNCHANGED <<file, batch_size, parsed, events>>
    BY <1>7 DEF OfferBatch
  <2>2. /\ kept' = kept \o admitted' /\ kept \in Seq(Id) /\ events \in Seq(Id)
        /\ pushed' \in 0 .. Len(events) /\ admitted' = SubSeq(events, 1, pushed')
        /\ admitted' \in Seq(Id) /\ Len(admitted') = pushed'
    BY <1>7, KeptOffer, OfferEffect, KeptNow DEF CoreInv, TypeOK, Id
  <2>3. ToSet(kept') = ToSet(kept) \cup ToSet(admitted')
    <3>1. ToSet(kept \o admitted') = ToSet(kept) \cup ToSet(admitted')
      <4> DEFINE old == kept
                 new == admitted'
      <4>1. old \in Seq(Id) /\ new \in Seq(Id)
        BY <2>2
      <4> HIDE DEF old, new
      <4>2. ToSet(old \o new) = ToSet(old) \cup ToSet(new)
        BY <4>1, SetOfConcat
      <4> QED
        BY <4>2 DEF old, new
    <3>2. ToSet(kept') = ToSet(kept \o admitted')
      BY <2>2
    <3> QED
      BY <3>1, <3>2
  <2>4. ToSet(admitted') \subseteq ToSet(events)
    <3>1. \A j \in 1 .. pushed' : admitted'[j] = events[j]
      BY <2>2, PrefixTypes
    <3>2. DOMAIN admitted' = 1 .. pushed' /\ DOMAIN events = 1 .. Len(events)
          /\ pushed' \in Nat /\ Len(events) \in Nat /\ pushed' <= Len(events)
      BY <2>2, LenProperties
    <3> QED
      BY <3>1, <3>2 DEF ToSet
  <2>5. journaled' \subseteq journaled
    BY <2>1, <2>3, <2>4 DEF journaled, LostInv
  <2> QED
    BY <2>1, <2>5, LostSame DEF LostInv
<1>8. CASE Consumer \/ Arrive \/ RequestStop \/ MetricsServerEnds \/ UNCHANGED vars
  <2>1. UNCHANGED <<file, batch_size, parsed, events, rpc>>
    BY <1>8 DEF Consumer, Arrive, RequestStop, MetricsServerEnds, vars, batch
  <2>2. kept' = kept
    BY <1>8, KeptConsumer, KeptSame DEF Arrive, RequestStop, MetricsServerEnds, vars, queue, reader
  <2>3. journaled' \subseteq journaled
    BY <2>1, <2>2 DEF journaled
  <2> QED
    BY <2>1, <2>3, LostSame DEF LostInv
<1> QED
  BY <1>2, <1>3, <1>4, <1>5, <1>6, <1>7, <1>8 DEF Next, Receiver

\* The journal is complete but for what failed writes cost: the rest of their
\* batch each, and one line behind a torn one.
THEOREM JournalLossBounded == Spec => []LinesLostBounded
<1>1. Init => LostInv
  <2> SUFFICES ASSUME Init PROVE LostInv
    OBVIOUS
  <2>1. CoreInv
    BY InitCore
  <2>2. Len(applied) = 0 /\ Len(inHand) = 0 /\ Len(chan) = 0 /\ Len(admitted) = 0
    BY DEF Init, Queue!Init, inHand
  <2>3. kept \in Seq(Id) /\ Len(kept) = 0
    BY <2>1, <2>2, KeptNow
  <2>4. ToSet(kept) = {} /\ ToSet(parsed) = {} /\ ToSet(events) = {}
    BY <2>3, EmptySeq, LenProperties DEF ToSet, Init
  <2>5. missing = {}
    BY <2>4 DEF missing, journaled, Init
  <2>6. Cardinality(missing) = 0
    BY <2>5, FS_EmptySet
  <2>7. write_errors * (batch_size + 1) = 0
    BY BatchAssumption DEF Init
  <2> QED
    BY <2>4, <2>6, <2>7 DEF LostInv, tornCost, Init
<1>2. CoreInv /\ LostInv /\ [Next]_vars /\ CoreInv' => LostInv'
  BY LostStep
<1>3. CoreInv /\ LostInv => LinesLostBounded
  <2> SUFFICES ASSUME CoreInv, LostInv PROVE LinesLostBounded
    OBVIOUS
  <2>1. Cardinality(missing) \in Nat /\ tornCost \in Nat
    BY MissingNow DEF MissingOK, tornCost
  <2>2. write_errors * (batch_size + 1) \in Nat
    BY BatchAssumption DEF CoreInv, TypeOK
  <2>3. Cardinality(missing) <= write_errors * (batch_size + 1)
    BY <2>1, <2>2 DEF LostInv
  <2> QED
    BY <2>3 DEF LinesLostBounded, missing
<1> QED
  BY <1>1, <1>2, <1>3, CoreHolds, PTL DEF Spec
=============================================================================
