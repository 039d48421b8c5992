------------------------------ MODULE SPSCQueue ------------------------------
(***************************************************************************)
(* cpp/include/spsc_queue.h: the lock-free ring between the UDP receive    *)
(* loop (the only producer) and orderbook_consumer (the only consumer),    *)
(* with the metrics thread reading approx_size() beside them.              *)
(*                                                                         *)
(* Every access to the shared indices and every slot copy is a step of its *)
(* own.  A slot copy has a beginning and an end, so that two threads can   *)
(* be in the same slot at once if the indices let them.  The class keeps   *)
(* capacity_ a power of two, which makes "& mask_" the same as             *)
(* "% Capacity", on size_t differences too.                                *)
(***************************************************************************)
EXTENDS Integers, Sequences

CONSTANTS
    Item,         \* events the producer can move into a slot
    NoItem,       \* a default-constructed Event
    Capacity,     \* capacity_, after normalize_capacity
    MaxBurst,     \* bound: the longest array given to push_bulk
    EarlyReads,   \* may pop()'s slot read be satisfied before its relaxed load
                  \* of tail_?  {FALSE}: never (x86 keeps loads in order);
                  \* {FALSE, TRUE}: a weakly ordered CPU, either way each time
    NoSample      \* the metrics thread is not inside approx_size()

ASSUME CapacityAssumption == Capacity \in Nat /\ Capacity >= 2
ASSUME BurstAssumption    == MaxBurst \in Nat /\ MaxBurst >= 1
ASSUME OrderAssumption    == EarlyReads \subseteq BOOLEAN
ASSUME ItemAssumption     == NoItem \notin Item
ASSUME SampleAssumption   == NoSample \notin Nat

VARIABLES
    buffer,   \* buffer_
    head,     \* head_, written by the consumer only
    tail,     \* tail_, written by the producer only
    ppc,      \* where the producer is inside push / push_bulk
    items,    \* the caller's array
    to_push,  \* how many of them fit
    i,        \* the loop index of push_bulk
    cpc,      \* where the consumer is inside pop
    early,    \* this pop() has read the slot ahead of tail_
    out,      \* the consumer's event object
    sampled,  \* h of approx_size(), NoSample outside the call
    gauge     \* the last value approx_size() returned

producer == <<ppc, items, to_push, i>>
consumer == <<cpc, early, out>>
sampler  == <<sampled, gauge>>
vars == <<buffer, head, tail, producer, consumer, sampler>>

Slots  == 0 .. Capacity - 1
mask   == Capacity - 1
Wrap(n) == n % Capacity
Bursts == UNION {[1..n -> Item] : n \in 1..MaxBurst}

size       == Wrap(tail - head)

\* A bug for a mutation run: no slot is kept free.
FreeSlotsAll == Capacity - size

free_slots == mask - size

Init ==
    /\ buffer = [s \in Slots |-> NoItem]
    /\ head = 0 /\ tail = 0
    /\ ppc = "idle" /\ items = << >> /\ to_push = 0 /\ i = 0
    /\ cpc = "idle" /\ early = FALSE /\ out = NoItem
    /\ sampled = NoSample /\ gauge = 0

-----------------------------------------------------------------------------
(* The producer *)

\* push(item): the full test compares the next tail with head.  A full ring
\* refuses the item and changes nothing.
Push(item) ==
    /\ ppc = "idle"
    /\ Wrap(tail + 1) # head
    /\ ppc' = "copy"
    /\ items' = <<item>> /\ to_push' = 1 /\ i' = 0
    /\ UNCHANGED <<buffer, head, tail, consumer, sampler>>

\* push_bulk(items, n) up to the loop: one look at head decides how many fit.
\* With no free slot the call returns 0 and changes nothing.
PushBulk(burst) ==
    /\ ppc = "idle"
    /\ free_slots # 0
    /\ ppc' = "copy"
    /\ items' = burst
    /\ to_push' = IF Len(burst) <= free_slots THEN Len(burst) ELSE free_slots
    /\ i' = 0
    /\ UNCHANGED <<buffer, head, tail, consumer, sampler>>

BeginSlotWrite ==
    /\ ppc = "copy"
    /\ ppc' = "writing"
    /\ UNCHANGED <<buffer, head, tail, items, to_push, i, consumer, sampler>>

\* A bug for a mutation run: the loop index is left out of the slot's place.
EndSlotWriteInPlace ==
    /\ ppc = "writing"
    /\ buffer' = [buffer EXCEPT ![tail] = items[i + 1]]
    /\ i' = i + 1
    /\ ppc' = IF i + 1 < to_push THEN "copy" ELSE "publish"
    /\ UNCHANGED <<head, tail, items, to_push, consumer, sampler>>

EndSlotWrite ==
    /\ ppc = "writing"
    /\ buffer' = [buffer EXCEPT ![Wrap(tail + i)] = items[i + 1]]
    /\ i' = i + 1
    /\ ppc' = IF i + 1 < to_push THEN "copy" ELSE "publish"
    /\ UNCHANGED <<head, tail, items, to_push, consumer, sampler>>

\* Bugs for mutation runs: the index is not masked; the step of push is used
\* for a burst.
AdvanceTailUnmasked ==
    /\ ppc = "publish"
    /\ tail' = tail + to_push
    /\ ppc' = "idle"
    /\ items' = << >> /\ to_push' = 0 /\ i' = 0
    /\ UNCHANGED <<buffer, head, consumer, sampler>>

AdvanceTailByOne ==
    /\ ppc = "publish"
    /\ tail' = Wrap(tail + 1)
    /\ ppc' = "idle"
    /\ items' = << >> /\ to_push' = 0 /\ i' = 0
    /\ UNCHANGED <<buffer, head, consumer, sampler>>

\* the release store of tail_, and the return
AdvanceTail ==
    /\ ppc = "publish"
    /\ tail' = Wrap(tail + to_push)
    /\ ppc' = "idle"
    /\ items' = << >> /\ to_push' = 0 /\ i' = 0
    /\ UNCHANGED <<buffer, head, consumer, sampler>>

-----------------------------------------------------------------------------
(* The consumer *)

\* pop() is entered.  Nothing orders its relaxed load of tail_ before the slot
\* read, so the read may already be satisfied here.
StartPop ==
    /\ cpc = "idle"
    /\ cpc' = "check"
    /\ early' \in EarlyReads
    /\ out' = IF early' THEN buffer[head] ELSE out
    /\ UNCHANGED <<buffer, head, tail, producer, sampler>>

\* an empty ring returns false
CheckTail ==
    /\ cpc = "check"
    /\ cpc' = IF head = tail THEN "idle"
              ELSE IF early THEN "advance" ELSE "reading"
    /\ early' = FALSE
    /\ UNCHANGED <<buffer, head, tail, producer, out, sampler>>

ReadSlot ==
    /\ cpc = "reading"
    /\ out' = buffer[head]
    /\ cpc' = "advance"
    /\ UNCHANGED <<buffer, head, tail, producer, early, sampler>>

AdvanceHead ==
    /\ cpc = "advance"
    /\ head' = Wrap(head + 1)
    /\ cpc' = "idle"
    /\ UNCHANGED <<buffer, tail, producer, early, out, sampler>>

-----------------------------------------------------------------------------
(* approx_size(), called by the metrics thread: two separate loads *)

SampleHead ==
    /\ sampled = NoSample
    /\ sampled' = head
    /\ UNCHANGED <<buffer, head, tail, producer, consumer, gauge>>

\* A bug for a mutation run: the wrapped case is forgotten.
SampleTailUnwrapped ==
    /\ sampled # NoSample
    /\ gauge' = tail - sampled
    /\ sampled' = NoSample
    /\ UNCHANGED <<buffer, head, tail, producer, consumer>>

SampleTail ==
    /\ sampled # NoSample
    /\ gauge' = IF tail >= sampled THEN tail - sampled
                                   ELSE Capacity - (sampled - tail)
    /\ sampled' = NoSample
    /\ UNCHANGED <<buffer, head, tail, producer, consumer>>

-----------------------------------------------------------------------------
Producer == \/ \E item \in Item : Push(item)
            \/ \E burst \in Bursts : PushBulk(burst)
            \/ BeginSlotWrite
            \/ EndSlotWrite
            \/ AdvanceTail

Consumer == \/ StartPop
            \/ CheckTail
            \/ ReadSlot
            \/ AdvanceHead

Metrics == SampleHead \/ SampleTail

Next == Producer \/ Consumer \/ Metrics

Spec == Init /\ [][Next]_vars

-----------------------------------------------------------------------------
(* Properties *)

\* The type invariant of the ring and of the three threads' locals.
TypeOK ==
    /\ buffer \in [Slots -> Item \cup {NoItem}]
    /\ head \in Slots
    /\ tail \in Slots
    /\ ppc \in {"idle", "copy", "writing", "publish"}
    /\ items \in Bursts \cup {<< >>}
    /\ to_push \in 0 .. mask
    /\ i \in 0 .. mask
    /\ cpc \in {"idle", "check", "reading", "advance"}
    /\ early \in BOOLEAN
    /\ out \in Item \cup {NoItem}
    /\ sampled \in Slots \cup {NoSample}
    /\ gauge \in Int

\* The slot the producer is filling is never one the consumer may be reading:
\* an index look that is out of date by the time the copy loop runs (head_
\* read once per burst) still keeps the two threads out of each other's slots.
NoDataRace ==
    LET slot == Wrap(tail + i)
    IN  ppc = "writing" => /\ Wrap(slot - head) >= size
                           /\ ~(cpc = "reading" /\ slot = head)

\* What pop() hands to the order book is what the producer published at that
\* place, not a default event nor the event of an earlier lap.
DeliversPublished ==
    cpc = "advance" => out = buffer[head] /\ out \in Item

\* approx_size() loads the two indices at different times.  Whatever moves in
\* between, the queue gauge stays a possible queue length.
GaugeInRange == gauge \in 0 .. mask

\* The items a reader of the abstract channel sees: the consumer has taken the
\* oldest one as soon as it has copied it out, before it advances head_.
Readable ==
    LET first == IF cpc = "advance" THEN head + 1 ELSE head
        count == IF cpc = "advance" THEN size - 1 ELSE size
    IN  [k \in 1..count |-> buffer[Wrap(first + k - 1)]]

Channel == INSTANCE EventChannel WITH
    Room     <- mask,
    chan     <- Readable,
    admitted <- SubSeq(items, 1, to_push),
    taken    <- out,
    holding  <- cpc = "advance"

\* Under the interleavings of the three threads the ring is a bounded FIFO
\* that drops only the tail of a burst, and only for want of room.
ImplementsChannel == Channel!Spec
=============================================================================
