# A verification project for the ULL engine

TLA+ modules of the market-data and order path of this repository, the TLC runs
that check them on small instances, and TLAPS proofs of the properties that
matter most for every instance. Paths below are relative to `src/`.

## 1. The system

```
UDP feed --> receive loop --> SPSC queue --> orderbook_consumer --> OrderBook
               |   (udp_receiver.cpp)                                  ^
               +--> journal data/events.jsonl                         |  match_order
                                                                      |
TCP clients --> accept loop --> handle_client (one thread each) --> OrderManager
               (execution_gateway.cpp)                           (order_manager.cpp)
metrics HTTP thread reads every counter, and the queue's size
engine main: starts the two services, waits for SIGINT, wakes and joins them
```

The gateway also exists as a program of its own (`execution_gateway.cpp`, 369 on),
with no book, hence no manager: its orders take the fallback path.

### Components: state, operations, interactions

| component | state | operations | talks to |
|---|---|---|---|
| SPSC queue (`cpp/include/spsc_queue.h`) | ring, two indices, shutdown flag | push, push_bulk, pop, empty, approx_size, notify_shutdown | receive loop (producer), consumer, metrics thread, through shared atomics |
| Receive loop (`cpp/src/udp_receiver.cpp`) | socket, scratch buffers, journal file, counters | receive (recvmmsg, or recvfrom twice), parse, journal, offer, count, shut down | queue, journal, stop flag, consumer and metrics server (joins) |
| Consumer (same file, 314-337) | its event, its spin count | pop and apply, back off, leave | queue, order book, stop flag |
| Order book (`cpp/src/order_book.cpp`) | per symbol two price maps, a mutex | apply_event, match_order, top_of_book, set_level | consumer and handlers, under the mutex |
| Order manager (`cpp/src/order_manager.cpp`) | table of orders, a mutex, policy | submit_order, cancel_order, open_order_count | handlers; book; metrics |
| Metrics (`cpp/src/metrics.cpp`) | atomic counters, one gauge | increments, reads | everyone |
| Gateway (`cpp/src/execution_gateway.cpp`) | connections, read buffers, the manager | accept, receive, take a line, refuse, acknowledge, submit, cancel, report, send, hang up | clients, manager, counters, stop flag |
| Engine (`cpp/src/engine.cpp`, `book_registry.h`) | stop flag, two threads, registered book | start, wait, wake, join | all services |
| Metrics server (`udp_receiver.cpp` 87-219) | listening socket, the connection in hand | accept, receive, send the page, close | Prometheus, stop flag |
| Tools and scripts | nothing shared | replay, benchmark, statistics, event web service | files and sockets |

### What is hard, and what makes each part correct

- *Queue*: three threads without a lock. Correct when no slot is touched by two
  of them at once, what is popped is what was pushed, in order, and only a full
  ring refuses.
- *Order manager*: a submission is three critical sections with a match between
  them; cancels and other submissions come in between. Correct when shares are
  conserved, final states are final, counters and gauge agree with the table,
  and the limit on open orders holds or is missed by a known amount.
- *Order book*: erasing while iterating; a feed without sides. Correct when a
  trade is best price first and atomic, the book never crosses, and the lock
  comes back.
- *Feed*: a batch is journaled, cut, published, counted and applied by two
  threads, while a write may fail half-way and a stop may come at any time.
  Correct when the book sees the feed's order without repetition, everything is
  counted, the journal misses only what a failed write explains, and a stop
  ends both threads; the function that started them also waits for the metrics
  server, which its clients can hold.
- *Gateway*: handlers share a manager, a table and counters; lines come in
  pieces; clients leave; the manager may be destroyed under a handler. Correct
  when the answers of a connection agree with the table and the counters, an
  execution is told to the client whose order it is, every line is answered,
  and the stop reaches each handler.
- *Life cycle*: two `accept`s and a `recv` that block without a timeout, one
  signal that wakes one thread at most, one chance to wake the others, services
  that could not start or ended early. Correct when neither `run_udp_receiver`
  nor `main` returns while a thread it joins uses its frame, and a stop ends
  the engine. The gateway's handlers are detached: nobody joins them, and they
  can outlive the manager they use.

The list of hazards with their lines is in `PROJECT.json`.

## 2. Modules

| module | models | checked by | proofs |
|---|---|---|---|
| `SPSCQueue` | `spsc_queue.h`, one step per index access, slot copies with a beginning and an end | `spsc`, `spsc_relaxed` | `SPSCQueueProofs` |
| `EventChannel` | abstract: a bounded FIFO that cuts a burst short | refined by `SPSCQueue` | |
| `OrderManager` | `order_manager.cpp` with any number of handlers, one step per critical section | `order_manager`, `om_limit`, `om_cancel` | `OrderManagerProofs` |
| `OrderBook` | `order_book.cpp`, one step per update and per turn of the match loop | `order_book` | `OrderBookProofs` |
| `MarketBook`, `Sweep` | abstract: updates and orders take effect at one moment, an order's outcome stated by arithmetic instead of a loop | refined by `OrderBook` | in `OrderBookProofs` |
| `FeedPipeline` | `udp_receiver.cpp`: receive loop, journal, counters, consumer, shutdown, over `EventChannel` | `feed`, `feed_drain`, `feed_single` | `FeedPipelineProofs` |
| `Gateway` | `execution_gateway.cpp`: accept loop, handlers, their end of each connection, over `OrderManager` | `gateway` | `GatewayProofs`, `GatewayAnswersProofs` |
| `Lifecycle` | `engine.cpp`, set-up and joins of `run_udp_receiver`, the metrics server, the gateway's accept loop as main sees it | `lifecycle`, `lifecycle_poke` | `LifecycleProofs` |
| `Sums` | nothing of the code: lemmas about `SumFunctionOnSet`, the sum the properties count with | | proofs only |

### How the models correspond to the code

*SPSCQueue.* Variables are the members `buffer_`, `head_`, `tail_`, the locals of
`push_bulk` and `pop`, and those of `approx_size`. Other threads meet these only
through the indices, so each load or store of an index is a step; the copy loop
has a step for the beginning and one for the end of each slot, so that a racing
read could fall between. `EarlyReads` says whether the slot read of `pop` may be
satisfied before its relaxed load of `tail_`: never on x86, either way on a
weakly ordered CPU. The class makes the capacity a power of two; the model uses
`%`, which agrees with `& mask_` there.

*OrderManager.* A step is one critical section of `m_` or the call of
`match_order`, seen through its contract: fill records that add up to at most
the order's size (`FillsWithinOrder` of `OrderBook` is that contract). The gauge
and the table are updated in the same section; the counters after it, in one
step, since nothing reads them in between but the metrics page. History
variables (`executed`, `withdrawn`, `hollow`, `disturbed`) record what
properties speak of and influence nothing.

*OrderBook.* The mutex is held from end to end of each operation, so
`apply_event` is one step; `match_order` is a step per turn because its
outcome is not evident. Prices are integer ticks. A symbol without an entry is
one with two empty sides. `set_level` appears as seeding before the feed,
because nothing else can make the first bid and the program never calls it.

*Sweep* is what `match_order` amounts to, said without a loop. A level gives what
the better levels left to ask for (`Ahead`, `Taken`), keeps the rest (`Left`),
and the fills are the levels that give something, ranked by price (`Trades`).
`MarketBook` does an update or such an order in one step.

*FeedPipeline.* A datagram is its place in the stream and whether it parses. The
journal is its readable lines and whether it ends in a torn one. The queue is
`EventChannel`, which `SPSCQueue` implements. Both receive paths are there,
chosen by `batch_size`; in the single path a first `recvfrom` that timed out
followed by a second that did not ends in parsing `SIZE_MAX` bytes, which leaves
the heap whatever it holds: a crash. A recvmmsg that fails, is interrupted or
times out is the same step, since all three go back to the loop's test.
Shutdown has both joins in the order of the code, the consumer's (857) and the
metrics server's (858). Of the metrics server only its end is here, as an event
(`MetricsServerEnds`) that may come at any moment or never; `Lifecycle` has the
server itself, its accept and its recv.

*Gateway.* `Manager == INSTANCE OrderManager`: each critical section of the
manager is an action of the gateway that is also an action of `OrderManager`,
with the same variables. The rest of a handler's step is one `recv`, one `send`
or one turn of the line loop. A line is two halves, so that a `recv` can return
any number of halves and end inside a line; `got` counts those in `readbuf`.
Answers are built into `outbox` and leave it one `send` at a time, in the order
of the code (an ACK is sent before the submission, a refusal before its
counter); `told` is what was sent and what is about to be. The test of the stop
flag at the head of a loop is joined to the step before it, so a stop between
the two is one step later: at most one more `recv`. Whether a line is an
acceptable order is decided by its size alone: size 0 stands for one that is
missing, unreadable or not positive, as they are refused alike; `junk` is an
unknown command or a cancel without an id. `peer` is the client's end: `left`
after an orderly close, `reset` when the kernel has seen a reset; a `send` to
the first may draw a reset and one on the second may raise SIGPIPE, which kills
the process. `mgr = "gone"` with a handler about to use it makes the process
`undefined`: the model stops there and promises nothing. `book = FALSE` is the
standalone program: no manager, no stop, an exception of `std::thread` that
nobody catches. The ACK of the model carries the order's size for the
properties' use; that of the code does not.

*Lifecycle.* A thread is its place. SIGINT is delivered to one thread: it sets
the flag, and the `accept` or `recv` that this thread is in returns EINTR
(`sigaction` without `SA_RESTART`), or nothing is interrupted. A poke reaches a
server that listens on the port it is sent to; at a port where this program does
not listen another may, or the connection is refused, and then the `send` on the
unconnected socket raises SIGPIPE. The gateway's port is the argument for both;
the metrics server's port is the literal of `udp_receiver.cpp:493` and the poked
one is the argument. Client connections of the gateway are one event here
(`GatewayVisited`), datagrams none.

## 3. Runs, bounds, and what they show

| run | instance | shows |
|---|---|---|
| `spsc` | 4 slots, bursts of 2, 2 items | `NoDataRace`, `DeliversPublished`, `GaugeInRange`, refinement of `EventChannel` |
| `spsc_relaxed` | same, reads may be early | `DeliversPublished` **fails**: the relaxed load of `tail_` at line 88 |
| `order_manager` | 3 handlers, 2 ids, sizes to 3, limit 1 open order, 4 calls | share accounting of undisturbed ids, no share lost or withdrawn twice of any id, final states, gauge, counters, bounded overshoot |
| `om_limit` | same | `OpenWithinLimit` **fails**: check and store are separate sections |
| `om_cancel` | same | `NoHollowCancel` **fails**: a canceled order is marked open again |
| `order_book` | 1 symbol, 4 prices, sizes to 2, orders to 3, seeded bids | never crossed, best first, the match ends, refinement of `MarketBook` |
| `feed` | 4 datagrams, batch sizes 1 and 3, queue for 2, 1 failed write | order, accounting, bounded journal loss, delivery; a stop gets the receiver and the consumer past each other, and `run_udp_receiver` returns if the metrics server does |
| `feed_drain` | batch size 3 | `DrainedAtExit` **fails**: the consumer leaves on the stop flag |
| `feed_single` | batch size 1 | `EveryMessageParsed` **fails**: two `recvfrom` per turn |
| `gateway` | 2 connections, 2 ids, 2 lines, sizes to 3, limit 2, 1 open order, with and without a book | answers against table and counters, fills behind their ACK, at most one more receive after the stop, every line answered |
| `lifecycle` | metrics port 9100 or 9200, 2 clients, 2 signals | the frames of `run_udp_receiver` and `main` outlive the threads they join, a stop ends the engine, scrapes are answered |
| `lifecycle_poke` | port 9100, 1 signal | `RefusedPokeIgnored` **fails**: a refused poke sends all the same |

Why these bounds are enough to meet the hard cases: a ring of four slots wraps
within a burst and can be full with a burst half inside; three handlers are the
fewest with two past the limit check and a third filling the last place, and
two ids make reuse and distinct orders both possible; four prices let an order
clear one level, cut the next and leave a third, with bids on the other side;
a batch of three into a queue for two is cut, and a fourth datagram meets a torn
line. In the gateway two lines make both interleavings of two handlers in the
manager and two lines in one buffer; one client submits (two shares fill in one
record, in two or in part, three are over the limit), the other sends a
competing order for the one open place, cancels the first one's order, or sends
junk and blanks, and may leave. In the life cycle two clients let one wait
behind another that says nothing or has left, and the second signal can
interrupt a thread the first did not reach. `MaxCalls`, `MaxArrivals`,
`MaxFailures`, `MaxSize`, `MaxOrder`, `MaxBurst`, `MinPrice`, `MaxPrice`,
`MaxLines`, `Line`, `Fickle`, `Books`, `Ports` and `MaxSignals` are bounds of
the model and not of the code. Handlers and ids are interchangeable in `OrderManager`, whose runs check
safety only, so symmetry is used there and nowhere else.

Deadlock is checked in the `spsc` and `order_book` runs, whose systems never
stop. It is off where a run ends by itself: `OrderManager` after `MaxCalls`
calls, `FeedPipeline` when the receiver has returned, `Gateway` and `Lifecycle`
when the process has ended, or when no client or signal comes any more.

### Fairness

- `OrderBook!FairSpec`: weak fairness of the turn and of the end of a match. The
  thread holds the lock, calls nothing that blocks, and the scheduler runs it.
- `FeedPipeline!FairSpec`: weak fairness of the receiver and of the consumer as
  threads. The receive calls return within their timeouts (`SO_RCVTIMEO`, 200
  ms, lines 428-433), the consumer yields or sleeps 200 us. Nothing is assumed
  of the feed, of who asks to stop, or that writes succeed, and nothing of the
  metrics server's end. So `Stops` has two parts: without any premise the
  receiver and the consumer leave their loops and the first join is over; that
  `run_udp_receiver` returns has the premise that the metrics server ends, which
  a silent client or a wrong port can prevent. When it does end is the subject
  of `StopEnds` in `Lifecycle`, under that property's own premises. Only the crash
  of the single path excuses a stop that ends nothing.
- `Gateway!FairSpec`: weak fairness of the accept loop's ordinary steps (`Listen`,
  `Accept`, `Woken`) and of each handler thread. Its failures, the clients and
  the stop come as they like. `LinesAnswered` excuses what the stop, a client
  that left or a listener that failed makes impossible, and nothing else.
- `Lifecycle!FairSpec`: weak fairness of each thread; a thread in `accept` or
  `recv` with nothing to return is not enabled. No client has to speak and
  nobody has to ask for a stop. `StopEnds` and `ScrapesAnswered` assume of the
  clients that none holds the metrics server for ever (`[]<>~Held`), as its
  `recv` has no timeout, and `StopEnds` that the ports agree; both premises are
  needed, as the run finds a counterexample without either. That the stop ends
  the engine covers the ends by SIGPIPE too: `lifecycle_poke` is about these.

## 4. Proofs

Each proof module extends the module it is about. Every theorem holds for all
values of the constants allowed by the named assumptions of that module.

*SPSCQueueProofs*, assuming `EarlyReads = {FALSE}` (the run `spsc_relaxed` shows
why that is needed). `NoDataRace` is not inductive: it says nothing of the slots
written before the current one. `IInv` joins what the producer knows (the burst
fits between its view of `head` and the slot kept free; what is written so far
sits behind `tail`), what is published (every slot between the indices holds an
item), and what the consumer knows (`tail` is still ahead of it, `out` is the
slot at `head`). Three facts about `%` replace modular arithmetic by a case split
(`WrapCases`, `DistanceCases`, `PlaceCases`). `RingImplementsChannel` maps each
step to a step of `EventChannel` or a stutter.

*Sums*. `SumFunctionOnSet` folds a function over a set by removing chosen
elements, and the theorems of the library about such recursions take a predicate
as a parameter, which no prover here instantiates. A set does instead of a
predicate: `SubsetInduction` says that a family of subsets which holds a subset
whenever it holds the smaller ones holds them all, because the strict subsets of
a finite set are well-founded. The recursion equation follows (`SumExists`,
`SumUnique`: the CHOOSE of the fold has exactly one candidate), and from it what
the other proofs cite: an element added, removed or changed (`SumAdd`,
`SumRemove`, `SumChange`), a set split in two (`SumSplit`), a part of a sum of
naturals (`SumOfPart`), and a sequence behind another one (`SumShift`,
`SumConcat`).

*OrderManagerProofs*, no further assumption. `IInv` ties each handler past
`Store` to an existing entry of the table, and says that an undisturbed id has
at most one handler working on it; without it `RecordFills` could subtract fills
from a foreign entry. `GaugeAlwaysExact` follows because every section that
changes `orders` recounts. `OvershootAlwaysBounded` counts: marking an order
moves one handler out of `InFlight` and at most one order into `Resting`.
`SharesNeverLost` is the part of the accounts that needs no discipline of the
clients: whatever is reused or canceled during a match, fills take at most as
much from an entry as they add to `executed`, and a cancel moves what remains.
`VolumeAlwaysReported` needs every step but two to leave both sums alone; of
those, recording raises `executed` of one id and the shares of one handler by
the same number, and returning moves these to the counter.

*OrderBookProofs*. `IInv` = `TypeOK`, `BestFirst` and `WantInv`. Everything rests
on `FirstIsBest`: a non-empty set of prices has a best element (well-foundedness
of `<`). `WantInv` carries the sum of `FillsWithinOrder`, which a turn extends at
its end (`SumAtEnd`). `NeverCrosses` has its own induction: an ask is added only
above the best bid. `ProgramHoldsNoBids` assumes `SeedPrice = {}`, the program's
case.

`BookImplementsMarket` is the refinement for every range of prices, sizes and
orders. The mapping shows a reader who cannot take the lock the book as it will
be (`Settled`) and the answer as it will read (`Told`) from the moment the lock
is taken, so `BeginMatch` is the `Trade` and all that follows must be a stutter.
That a turn stutters is the substance: with the leading level `a` served, every
other level gives what it gave (`TurnTakes`: what is ahead of it and what is
wanted shrink by the same number), the same is left (`TurnLeaves`), and the
trades still to come are those that were to come without the first
(`TurnTrades`, where `RankShift` renumbers the levels). That the loop may stop
is `NothingToDo`: no level is hit when nothing is wanted or nothing is there.
`BestFirst` is what makes `a` the leading level.

*FeedPipelineProofs*, for any number of datagrams, batch sizes, room and failed
writes. `CoreInv` = `TypeOK` and `PlaceInv`, which says between which two steps
each local of the receive loop is in use; without it a stale batch could be
counted. Everything about events is said of `kept`, the accepted events from the
book back to the producer's unpublished ones: the offer appends a prefix of the
batch to it and no other step changes it (`KeptOffer`, `KeptPublish`,
`KeptConsumer`). `AllEventsAccounted` is then arithmetic on the receiver's steps.
`FeedOrderKept` needs `OrderInv`: increasing at every stage of the path, and each
stage before the next up to the next arrival. The channel inside is the one
`RingImplementsChannel` proves the ring to implement. `LinesLostBounded` is not
inductive either: a torn line is a debt that the next write pays, so `LostInv`
counts it as lost already, and says that the batch in hand has been parsed.

*GatewayProofs*. `StreamInv` says what a handler has in `readbuf` and in hand;
from it each call of the manager is one that `OrderManager` allows, and
`GatewayImplementsManager` follows without knowing what the manager does. So all
that `OrderManagerProofs` proves holds in the gateway (`ManagerKeepsItsPromises`:
the theorems of its instance `MP`, whose definitions are shown to be those of
`Manager`), its types included, and with these the types of the answers follow.
`OneLastReceiveAlways` needs to know that a handler that received after the stop
is not back at its `recv` (`LateInv`).

*GatewayAnswersProofs* has the three properties about what clients are told.
Every step either tells nothing or appends a few answers to what one handler
told (`Says`); lemmas turn that into numbers: how many answers of a kind, how
many shares of an id. All three rest on `GatewayProofs` and on the manager's
invariants through the instance.
- `CountersAlwaysMatch`: `CountersMatchAnswers` is inductive once the step of a
  handler is seen to move one counter, one number of answers and its place
  together (`CountInv`). A fill record is an answer and a count of the manager
  alike, and `SubmitRejected` balances an ACK without a fill.
- `FillsAlwaysFollowAck`: `HandInv` says that a handler with an order in hand has
  just told its ACK, that the manager works on exactly this order for it, and
  holds no more executed shares than it asked for. Then the fills told on return
  fit behind that ACK, and nothing told later changes what stands before it
  (`FollowInv`). What the handlers share could break this only by mixing `ord`
  or `fills` between sessions.
- `ClientsAlwaysAddUp`: `TellInv` says for each id, disturbed or not, that what the
  table lost to fills and cancels is what has been told or is in the hand of a
  handler. With `SharesAlwaysAccounted` of the manager, which holds for
  undisturbed ids only, shares add up to the order.

*LifecycleProofs*. `FrameInv` says how far each join has got and what it left
behind it: the receiver's place bounds those of its two threads, main's place
that of the receiver. `FramesAlwaysOutlive` is then one look at every action. It
is about the threads that are joined and not about the gateway's handlers.

Only model-checked: liveness (`MatchEnds`, `Stops`, `AppliedEventually`,
`LinesAnswered`, `StopEnds`, `ScrapesAnswered`), whose proof needs ENABLED. Every
invariant, action property and refinement that a passing run checks is proved
too. The runs with a violation have nothing to prove.

## 5. Disagreements found

Six places where the code does not do what its own text says, each with a run:
the relaxed load in `pop` (`spsc_relaxed`), the limit on open orders (`om_limit`),
a cancel that succeeds with nothing remaining (`om_cancel`), events left in the
queue at shutdown (`feed_drain`), datagrams lost by the single path
(`feed_single`), and the poke that is refused (`lifecycle_poke`). The passing
runs bound the damage where it can be bounded: `OvershootBounded` for the limit,
`NoShareLost` for the cancels and the reused ids. `SharesAccounted` and
`TerminalIsFinal`, which say more, leave out exactly the ids that were disturbed
in this way.

Seen while modelling, without a run: comments in `order_book.cpp` (53, 60-63)
say the opposite of the side rule they stand at; `README.md:12` names `CXL|`
and the gateway sends `CAL|`; `apply_event` inserts prices that are not
positive, against its comment at 45-46; the book's `depth` is stored and never
read, against "keep 5 levels per symbol for demo" (`udp_receiver.cpp:477`); the
SIGINT handlers of the standalone receiver (`udp_receiver.cpp:878-884`) and
gateway (`execution_gateway.cpp:378-386`) do nothing, so Ctrl+C ends neither;
the pattern of the snapshot fallback (`execution_gateway.cpp:78`) cannot match;
the metrics server ignores the metrics port of the command line.

## 6. Not modelled

- Message and number formats, log lines, the metrics page: no property is about
  them yet. The parsers' overflow and nan prices are listed as hazards.
- `match_order` ignores the limit price and a resting order never fills later;
  that is what the models say too, and no text of the repository promises more.
- `TSQueue` is never instantiated. Monitoring, set-up scripts and stored
  artifacts hold no program state.
- The fallback's reading of the snapshot file: its pattern cannot match, so it
  never fills; `Gateway` has the fallback without fills.
- File descriptors: `tcp_poke` closes descriptor 0 instead of its socket, which
  can only matter in the second in which the engine ends.
- `replay_sender.cpp`, `udp_bench_sender.cpp`, `udp_latency_server.cpp`, the web
  service and the scripts: sequential programs without shared state, whose
  parsing and pacing a model could only restate.

## 7. Plan

Done: queue, order manager, order book, feed pipeline, gateway, life cycle: all
state of the engine lives there. Every safety property is proved.

1. Proofs: that the channel inside `FeedPipeline` is `EventChannel` (its steps
   that touch the queue are steps of the channel or stutters), so that the ring
   is joined to the pipeline by a theorem; what a stop can leave behind, as a
   bound on the events `DrainedAtExit` loses.
2. `OrderManager` joined to `MarketBook` in place of the contract of
   `match_order`: the shares that leave the book are those the table records.
