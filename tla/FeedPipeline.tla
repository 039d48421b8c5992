---------------------------- MODULE FeedPipeline ----------------------------
(***************************************************************************)
(* cpp/src/udp_receiver.cpp: the path of a feed message from the socket to *)
(* the order book.  The receive loop parses datagrams, appends a line per  *)
(* event to the journal (data/events.jsonl), and only then offers the      *)
(* events to the queue; orderbook_consumer takes them from the queue and   *)
(* applies them; a request to stop ends both.                              *)
(*                                                                         *)
(* The queue is EventChannel, which SPSCQueue implements.  A message is    *)
(* known by its place in the stream of arrivals, and by whether it parses. *)
(* The gauges of the last latency and of the number of batches, and the    *)
(* log lines, are left out.  Of the metrics server, which run_udp_receiver *)
(* starts and joins, only its end is seen here: it may come at any moment, *)
(* or never.  Lifecycle has the server itself.                             *)
(***************************************************************************)
EXTENDS Integers, Sequences, SequencesExt

CONSTANTS
    MaxArrivals,  \* bound: datagrams that reach the socket
    BatchSizes,   \* the values of batch_size to consider
    Room,         \* slots of the queue that can be in use
    MaxFailures,  \* bound: journal writes that fail
    None          \* no datagram: the receive call timed out

ASSUME ArrivalAssumption == MaxArrivals \in Nat
ASSUME BatchAssumption   == BatchSizes \subseteq Nat \ {0}
ASSUME RoomAssumption    == Room \in Nat \ {0}
ASSUME FailureAssumption == MaxFailures \in Nat

VARIABLES
    batch_size,   \* argument of run_udp_receiver
    socket,       \* datagrams in the kernel's buffer
    arrived,      \* how many have ever got there
    stop,         \* the engine's stop flag
    rpc,          \* where the receive loop is
    first,        \* what the single path's first recvfrom left in buffer
    events,       \* parsed events of the current batch
    pushed,       \* how many of them push_bulk took
    parsed,       \* every event parsed so far
    skipped,      \* messages read off the socket whole and never parsed
    journal,      \* the journal's readable lines
    torn,         \* the journal ends in the middle of a line
    write_errors, processed, dropped,  \* m_write_errors, m_processed_events, ...
    chan, admitted, taken, holding,    \* the queue
    shutdown,     \* the queue's shutdown_
    metrics_thread, \* whether metrics_server has returned
    cpc,          \* where the consumer is
    applied       \* the events applied to the book

input    == <<socket, arrived>>
batch    == <<events, pushed, parsed, skipped>>
file     == <<journal, torn, write_errors>>
counters == <<processed, dropped>>
queue    == <<chan, admitted, taken, holding>>
reader   == <<cpc, applied>>
vars == <<batch_size, input, stop, rpc, first, batch, file, counters, queue,
          shutdown, metrics_thread, reader>>

Datagram == [seq : 1..MaxArrivals, ok : BOOLEAN]

Queue == INSTANCE EventChannel WITH
    Item <- 1..MaxArrivals, NoItem <- 0, MaxBurst <- MaxArrivals

Init ==
    /\ batch_size \in BatchSizes
    /\ socket = << >> /\ arrived = 0 /\ stop = FALSE
    /\ rpc = "top" /\ first = None
    /\ events = << >> /\ pushed = 0 /\ parsed = << >> /\ skipped = {}
    /\ journal = << >> /\ torn = FALSE /\ write_errors = 0
    /\ processed = 0 /\ dropped = 0
    /\ Queue!Init /\ shutdown = FALSE /\ metrics_thread = "runs"
    /\ cpc = "top" /\ applied = << >>

-----------------------------------------------------------------------------
(* Outside: the feed, and whoever asks the engine to stop *)

Arrive ==
    /\ arrived < MaxArrivals
    /\ \E ok \in BOOLEAN :
          socket' = Append(socket, [seq |-> arrived + 1, ok |-> ok])
    /\ arrived' = arrived + 1
    /\ UNCHANGED <<batch_size, stop, rpc, first, batch, file, counters, queue,
                   shutdown, metrics_thread, reader>>

RequestStop ==
    /\ ~stop
    /\ stop' = TRUE
    /\ UNCHANGED <<batch_size, input, rpc, first, batch, file, counters, queue,
                   shutdown, metrics_thread, reader>>

-----------------------------------------------------------------------------
(* The receive loop *)

\* A bug for a mutation run: the loop does not look at the flag.
TopForever ==
    /\ rpc = "top"
    /\ rpc' = "receive"
    /\ UNCHANGED <<batch_size, input, stop, first, batch, file, counters, queue,
                   shutdown, metrics_thread, reader>>

Top ==
    /\ rpc = "top"
    /\ rpc' = IF stop THEN "close" ELSE "receive"
    /\ UNCHANGED <<batch_size, input, stop, first, batch, file, counters, queue,
                   shutdown, metrics_thread, reader>>

\* the ways to pick k of n places, in order
Picks(n, k) == {pick \in [1..k -> 1..n] : \A i, j \in 1..k : i < j => pick[i] < pick[j]}

\* The events are the datagrams that parse, in order; the others are reported and
\* skipped.  All that is left of a batch without events is two empty tests.
Collect(datagrams) ==
    \E k \in 0 .. Len(datagrams) : \E pick \in Picks(Len(datagrams), k) :
        /\ {pick[j] : j \in 1..k} = {j \in DOMAIN datagrams : datagrams[j].ok}
        /\ events' = [j \in 1..k |-> datagrams[pick[j]].seq]
        /\ parsed' = parsed \o events'
        /\ rpc' = IF events' = << >> THEN "top" ELSE "journal"

\* recvmmsg: as many as are there by its timeout
ReceiveBatch ==
    /\ rpc = "receive" /\ batch_size > 1
    /\ \E n \in 1 .. Len(socket) :
          /\ n <= batch_size
          /\ Collect(SubSeq(socket, 1, n))
          /\ socket' = SubSeq(socket, n + 1, Len(socket))
    /\ UNCHANGED <<batch_size, arrived, stop, first, pushed, skipped, file, counters,
                   queue, shutdown, metrics_thread, reader>>

\* nothing by the timeout, a signal, or an error
NoBatch ==
    /\ rpc = "receive" /\ batch_size > 1
    /\ rpc' = "top"
    /\ UNCHANGED <<batch_size, input, stop, first, batch, file, counters, queue,
                   shutdown, metrics_thread, reader>>

\* The single path calls recvfrom twice.  The first call fills the buffer that
\* is parsed, and its failure is not looked at ...
ReceiveFirst ==
    /\ rpc = "receive" /\ batch_size = 1
    /\ rpc' = "second"
    /\ \/ /\ socket # << >>
          /\ first' = Head(socket)
          /\ socket' = Tail(socket)
       \/ /\ first' = None
          /\ UNCHANGED socket
    /\ UNCHANGED <<batch_size, arrived, stop, batch, file, counters, queue,
                   shutdown, metrics_thread, reader>>

\* ... the second fills another buffer and gives the return code.  A first
\* call that failed returned -1: parsing 2^64 - 1 bytes leaves the heap.
ReceiveSecond ==
    /\ rpc = "second" /\ socket # << >>
    /\ IF first = None
       THEN rpc' = "crashed" /\ UNCHANGED <<events, parsed>>
       ELSE Collect(<<first>>)
    /\ skipped' = IF Head(socket).ok THEN skipped \cup {Head(socket).seq} ELSE skipped
    /\ socket' = Tail(socket)
    /\ first' = None
    /\ UNCHANGED <<batch_size, arrived, stop, pushed, file, counters, queue,
                   shutdown, metrics_thread, reader>>

NoSecond ==
    /\ rpc = "second"
    /\ rpc' = "top"
    /\ skipped' = IF first # None /\ first.ok THEN skipped \cup {first.seq} ELSE skipped
    /\ first' = None
    /\ UNCHANGED <<batch_size, input, stop, events, pushed, parsed, file, counters,
                   queue, shutdown, metrics_thread, reader>>

-----------------------------------------------------------------------------
(* The journal, opened with O_APPEND *)

\* The bytes of some whole lines, and perhaps of a part of the next, reach the
\* file.  A line appended to a torn one is unreadable with it.
Written(whole, partial) ==
    /\ journal' = journal \o (IF torn /\ whole # << >> THEN Tail(whole) ELSE whole)
    /\ torn' = (partial \/ (torn /\ whole = << >>))

\* A bug for a mutation run: the lines share one buffer, and the last one is
\* what all of them say.
WriteLinesShared ==
    /\ rpc = "journal"
    /\ Written([k \in DOMAIN events |-> Last(events)], FALSE)
    /\ rpc' = "offer"
    /\ UNCHANGED <<batch_size, input, stop, first, batch, write_errors, counters,
                   queue, shutdown, metrics_thread, reader>>

\* writev_all, or the write loop of the single path: partial writes go on
\* until every byte is in the file
WriteLines ==
    /\ rpc = "journal"
    /\ Written(events, FALSE)
    /\ rpc' = "offer"
    /\ UNCHANGED <<batch_size, input, stop, first, batch, write_errors, counters,
                   queue, shutdown, metrics_thread, reader>>

\* ... or an error stops them on the way.  The events go to the book all the
\* same.
WriteFails ==
    /\ rpc = "journal"
    /\ write_errors < MaxFailures
    /\ write_errors' = write_errors + 1
    /\ \E n \in 0 .. Len(events) - 1, partial \in BOOLEAN :
          Written(SubSeq(events, 1, n), partial)
    /\ rpc' = "offer"
    /\ UNCHANGED <<batch_size, input, stop, first, batch, counters, queue,
                   shutdown, metrics_thread, reader>>

-----------------------------------------------------------------------------
(* push_bulk, and the counters after it *)

OfferBatch ==
    /\ rpc = "offer"
    /\ Queue!Offer(events)
    /\ pushed' = Len(admitted')
    /\ rpc' = IF admitted' = << >> THEN "count" ELSE "publish"
    /\ UNCHANGED <<batch_size, input, stop, first, events, parsed, skipped, file,
                   counters, shutdown, metrics_thread, reader>>

PublishBatch ==
    /\ rpc = "publish"
    /\ Queue!Publish
    /\ rpc' = "count"
    /\ UNCHANGED <<batch_size, input, stop, first, batch, file, counters,
                   shutdown, metrics_thread, reader>>

\* Bugs for mutation runs: the difference is taken the wrong way round; the
\* whole batch counts as processed; a batch that did not fit is offered again.
CountSwapped ==
    /\ rpc = "count"
    /\ processed' = processed + pushed
    /\ dropped' = dropped + (pushed - Len(events))
    /\ events' = << >> /\ pushed' = 0
    /\ rpc' = "top"
    /\ UNCHANGED <<batch_size, input, stop, first, parsed, skipped, file, queue,
                   shutdown, metrics_thread, reader>>

CountOffered ==
    /\ rpc = "count"
    /\ processed' = processed + Len(events)
    /\ dropped' = dropped + (Len(events) - pushed)
    /\ events' = << >> /\ pushed' = 0
    /\ rpc' = "top"
    /\ UNCHANGED <<batch_size, input, stop, first, parsed, skipped, file, queue,
                   shutdown, metrics_thread, reader>>

CountAndRetry ==
    /\ rpc = "count"
    /\ processed' = processed + pushed
    /\ UNCHANGED dropped
    /\ IF pushed < Len(events)
       THEN rpc' = "offer" /\ UNCHANGED events
       ELSE rpc' = "top" /\ events' = << >>
    /\ pushed' = 0
    /\ UNCHANGED <<batch_size, input, stop, first, parsed, skipped, file, queue,
                   shutdown, metrics_thread, reader>>

Count ==
    /\ rpc = "count"
    /\ processed' = processed + pushed
    /\ dropped' = dropped + (Len(events) - pushed)
    /\ events' = << >> /\ pushed' = 0
    /\ rpc' = "top"
    /\ UNCHANGED <<batch_size, input, stop, first, parsed, skipped, file, queue,
                   shutdown, metrics_thread, reader>>

-----------------------------------------------------------------------------
(* The end of run_udp_receiver *)

\* notify_shutdown, then the flag: it is set already
Close ==
    /\ rpc = "close"
    /\ shutdown' = TRUE
    /\ stop' = TRUE
    /\ rpc' = "join"
    /\ UNCHANGED <<batch_size, input, first, batch, file, counters, queue,
                   metrics_thread, reader>>

\* the two joins, in the order of the code
JoinConsumer ==
    /\ rpc = "join"
    /\ cpc = "exited"
    /\ rpc' = "join_metrics"
    /\ UNCHANGED <<batch_size, input, stop, first, batch, file, counters, queue,
                   shutdown, metrics_thread, reader>>

JoinMetrics ==
    /\ rpc = "join_metrics"
    /\ metrics_thread = "ended"
    /\ rpc' = "done"
    /\ UNCHANGED <<batch_size, input, stop, first, batch, file, counters, queue,
                   shutdown, metrics_thread, reader>>

\* metrics_server returns: its port was taken, its accept failed, or it was
\* woken after a stop.  A client that stays silent can put this off for ever.
MetricsServerEnds ==
    /\ rpc # "crashed"
    /\ metrics_thread = "runs"
    /\ metrics_thread' = "ended"
    /\ UNCHANGED <<batch_size, input, stop, rpc, first, batch, file, counters, queue,
                   shutdown, reader>>

-----------------------------------------------------------------------------
(* orderbook_consumer *)

ConsumerTop ==
    /\ cpc = "top"
    /\ cpc' = IF stop THEN "exited" ELSE "pop"
    /\ UNCHANGED <<queue, applied>>

PopEvent ==
    /\ cpc = "pop"
    /\ Queue!Take
    /\ cpc' = "popping"
    /\ UNCHANGED applied

FreeSlot ==
    /\ cpc = "popping"
    /\ Queue!LetGo
    /\ cpc' = "apply"
    /\ UNCHANGED applied

ApplyEvent ==
    /\ cpc = "apply"
    /\ applied' = Append(applied, taken)
    /\ cpc' = "pop"
    /\ UNCHANGED queue

PopNothing ==
    /\ cpc = "pop"
    /\ chan = << >>
    /\ cpc' = "idle"
    /\ UNCHANGED <<queue, applied>>

\* A bug for a mutation run: || where the code has &&.
BackOffOrLeave ==
    /\ cpc = "idle"
    /\ cpc' = IF shutdown \/ chan = << >> THEN "exited" ELSE "top"
    /\ UNCHANGED <<queue, applied>>

\* the shutdown test, and the pause when it fails
BackOff ==
    /\ cpc = "idle"
    /\ cpc' = IF shutdown /\ chan = << >> THEN "exited" ELSE "top"
    /\ UNCHANGED <<queue, applied>>

-----------------------------------------------------------------------------
Receiver == \/ Top
            \/ ReceiveBatch \/ NoBatch
            \/ ReceiveFirst \/ ReceiveSecond \/ NoSecond
            \/ WriteLines \/ WriteFails
            \/ OfferBatch \/ PublishBatch \/ Count
            \/ Close \/ JoinConsumer \/ JoinMetrics

\* A crash takes the consumer with it.
Consumer == /\ rpc # "crashed"
            /\ \/ ConsumerTop
               \/ PopEvent \/ FreeSlot \/ ApplyEvent
               \/ PopNothing \/ BackOff
            /\ UNCHANGED <<batch_size, input, stop, rpc, first, batch, file,
                           counters, shutdown, metrics_thread>>

Next == Arrive \/ RequestStop \/ Receiver \/ Consumer \/ MetricsServerEnds

Spec == Init /\ [][Next]_vars

\* Both are threads of their own that the scheduler runs; no receive call
\* blocks for longer than its timeout (SO_RCVTIMEO) and the consumer only yields
\* or sleeps.  Nothing is assumed of the feed, of who asks to stop, or of the
\* metrics server, whose end depends on its clients.
FairSpec == Spec /\ WF_vars(Receiver) /\ WF_vars(Consumer)

-----------------------------------------------------------------------------
(* Properties *)

\* The type invariant.
TypeOK ==
    /\ batch_size \in BatchSizes
    /\ socket \in Seq(Datagram)
    /\ arrived \in 0 .. MaxArrivals
    /\ stop \in BOOLEAN /\ shutdown \in BOOLEAN /\ torn \in BOOLEAN /\ holding \in BOOLEAN
    /\ rpc \in {"top", "receive", "second", "journal", "offer", "publish", "count",
                "close", "join", "join_metrics", "done", "crashed"}
    /\ metrics_thread \in {"runs", "ended"}
    /\ first \in Datagram \cup {None}
    /\ {events, parsed, journal, chan, admitted, applied} \subseteq Seq(1..MaxArrivals)
    /\ Len(events) <= batch_size
    /\ pushed \in 0 .. Len(events)
    /\ skipped \subseteq 1..MaxArrivals
    /\ write_errors \in 0 .. MaxFailures
    /\ processed \in Nat /\ dropped \in Nat
    /\ Queue!Occupied + Len(admitted) <= Room
    /\ taken \in 0..MaxArrivals
    /\ cpc \in {"top", "pop", "popping", "apply", "idle", "exited"}

\* the events the queue accepted, oldest first, wherever they are now
kept == applied \o (IF cpc \in {"popping", "apply"} THEN <<taken>> ELSE << >>)
                \o chan \o admitted

\* The book sees the events in the order in which they reached the socket,
\* none of them twice, through batches cut short, drops and the stop.
KeepsFeedOrder == \A j, k \in DOMAIN kept : j < k => kept[j] < kept[k]

\* Every event parsed is counted once, as processed or as dropped, and the
\* ones counted as processed are those on their way to the book: the counters
\* lag by the batch in hand, although the consumer may already be past it.
EventsAccounted ==
    /\ Len(parsed) = processed + dropped + Len(events)
    /\ Len(kept) = processed + pushed

\* events whose line should be in the journal by now, before the book has them
journaled ==
    ToSet(kept) \cup (IF rpc = "journal" THEN ToSet(parsed) \ ToSet(events) ELSE ToSet(parsed))

\* The journal runs ahead of the book and is complete but for what failed
\* writes cost: the rest of their batch, and one line of a later batch when
\* they leave a torn one.  Without a write error nothing is missing.
LinesLostBounded ==
    Cardinality(journaled \ ToSet(journal)) <= write_errors * (batch_size + 1)

\* what alone may come between a stop and the end: the single path's parse of
\* 2^64 - 1 bytes
SinglePathCrash == batch_size = 1 /\ rpc = "crashed"

Joined == cpc = "exited" /\ rpc \in {"join_metrics", "done"}

\* Asked to stop, the receiver and the consumer leave their loops and the first
\* join is over, whatever is in the queue: neither waits for the other.
\* run_udp_receiver itself returns only if metrics_server does, which it joins
\* last (Lifecycle's StopEnds says when that happens).
Stops ==
    /\ stop ~> (Joined \/ SinglePathCrash)
    /\ <>(metrics_thread = "ended") => (stop ~> (rpc = "done" \/ SinglePathCrash))

\* An event in the queue reaches the book unless the program is stopped.
AppliedEventually ==
    \A e \in 1..MaxArrivals :
        e \in ToSet(chan) ~> (e \in ToSet(applied) \/ stop \/ rpc = "crashed")

\* "if shutdown requested and queue empty, exit" (udp_receiver.cpp:323): what
\* the receiver has published is applied before the consumer goes.
DrainedAtExit == rpc = "done" => chan = << >>

\* The receiver "appends a JSON object per message" (udp_receiver.cpp:9): no
\* well-formed message is read off the socket and left unparsed.
EveryMessageParsed == skipped = {}
=============================================================================
