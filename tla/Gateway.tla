------------------------------ MODULE Gateway ------------------------------
(***************************************************************************)
(* cpp/src/execution_gateway.cpp: the accept loop of run_execution_gateway *)
(* and the detached handle_client threads, one per connection, over the    *)
(* order manager they share.                                               *)
(*                                                                         *)
(* A line is two halves, so that a recv may end inside it.  A step of a    *)
(* handler is one recv, one send, one turn of the line loop or one         *)
(* critical section of the manager (the actions of OrderManager).          *)
(* With book = FALSE the program is the standalone gateway: no manager,    *)
(* and nothing ever sets its stop flag.                                    *)
(***************************************************************************)
EXTENDS Integers, Sequences, FiniteSets, Functions

CONSTANTS
    Session,         \* connections
    Clid,            \* client order ids
    NoOrder,         \* a handler that is not submitting
    MaxSize,         \* bound: the largest size a client asks for
    max_size,        \* the limit given on the command line
    max_open_orders, \* the policy's limit, 100000 in the code
    Fickle,          \* bound: the connections whose client may leave
    Line,            \* what each client may write: a set of [cmd, clid, size]
    MaxLines,        \* bound: lines written in one behaviour
    Books            \* TRUE: in the engine, FALSE: standalone

\* an order without a usable size (or too short to have one) has size 0; a
\* cancel without an id is junk like any unknown command
Command == {"order", "cancel", "junk", "blank"}

ASSUME LineAssumption  ==
    Line \in [Session -> SUBSET [cmd : Command, clid : Clid, size : 0 .. MaxSize]]
ASSUME SizesAssumption == MaxSize \in Nat /\ max_size \in 1 .. MaxSize
ASSUME BoundAssumption == MaxLines \in Nat /\ max_open_orders \in Nat
ASSUME WorldAssumption == Books \subseteq BOOLEAN /\ Fickle \subseteq Session
ASSUME FiniteAssumption == IsFiniteSet(Session) /\ IsFiniteSet(Clid)
ASSUME NoOrderAssumption == NoOrder \notin [clid : Clid, size : Nat]

VARIABLES
    stop, process,   \* the flag of the engine; what became of the process
    book, srv, mgr,  \* run_execution_gateway: a registered book, its place, the manager
    peer,            \* the client's end of each connection
    inbox,           \* lines written and not yet taken by the handler
    got,             \* halves of these in readbuf
    hpc, line,       \* handle_client: its place and the line in hand
    outbox,          \* answers built and not yet sent
    sent,            \* answers sent on each connection
    served,          \* lines taken from each connection
    late,            \* receives that returned data after the stop
    refused,         \* orders the gateway itself counted as rejected
    unmanaged,       \* orders the fallback counted as accepted
    orders, open_orders, pc, ord, fills,
    rejected, accepted, filled_count, filled_volume, canceled,
    calls, submits, executed, withdrawn, hollow, disturbed

Manager == INSTANCE OrderManager WITH MaxCalls <- MaxLines, max_order_size <- max_size

managed == <<orders, open_orders, pc, ord, fills, rejected, accepted, filled_count,
             filled_volume, canceled, calls, submits, executed, withdrawn, hollow, disturbed>>

\* everything that is not a handler's own, what a handler reads, and what it tells
around  == <<stop, process, book, srv, mgr, peer>>
stream  == <<inbox, got, served, line, late>>
answers == <<outbox, sent>>
handlers == <<hpc, stream, answers>>
counts  == <<refused, unmanaged, managed>>
vars    == <<around, handlers, counts>>

NoLine == [cmd |-> "blank", clid |-> NoOrder, size |-> 0]

Answer(kind, clid, size) == [kind |-> kind, clid |-> clid, size |-> size]

\* The answers of a connection, those its handler has still to send included.
told(c) == sent[c] \o outbox[c]

\* Bug for a mutation run: the loop does not look at the flag.
NextTurnForever == "recv"

\* the flag is tested before every recv
NextTurn == IF stop THEN "closed" ELSE "recv"

Written(c) == served[c] + Len(inbox[c])

Init ==
    /\ stop = FALSE /\ process = "up"
    /\ book \in Books /\ srv = "start" /\ mgr = "none"
    /\ peer = [c \in Session |-> "away"]
    /\ inbox = [c \in Session |-> <<>>]
    /\ got = [c \in Session |-> 0]
    /\ served = [c \in Session |-> 0]
    /\ hpc = [c \in Session |-> "none"]
    /\ line = [c \in Session |-> NoLine]
    /\ outbox = [c \in Session |-> <<>>]
    /\ sent = [c \in Session |-> <<>>]
    /\ late = [c \in Session |-> 0]
    /\ refused = 0 /\ unmanaged = 0
    /\ Manager!Init

-----------------------------------------------------------------------------
(* The outside: clients and the engine *)

Connect(c) ==
    /\ process = "up" /\ srv = "accept" /\ peer[c] = "away"
    /\ peer' = [peer EXCEPT ![c] = "open"]
    /\ hpc' = [hpc EXCEPT ![c] = "backlog"]
    /\ UNCHANGED <<stop, process, book, srv, mgr, stream, answers, counts>>

\* what is written to a connection that is closed reaches nobody
Write(c) ==
    /\ process = "up" /\ peer[c] = "open" /\ hpc[c] # "closed"
    /\ SumFunction([d \in Session |-> Written(d)]) < MaxLines
    /\ \E l \in Line[c] : inbox' = [inbox EXCEPT ![c] = Append(@, l)]
    /\ UNCHANGED <<around, hpc, got, served, line, late, answers, counts>>

\* A client that closes with answers unread resets the connection.
Leave(c) ==
    /\ process = "up" /\ c \in Fickle /\ peer[c] = "open" /\ hpc[c] # "closed"
    /\ \E end \in {"left", "reset"} : peer' = [peer EXCEPT ![c] = end]
    /\ UNCHANGED <<stop, process, book, srv, mgr, handlers, counts>>

\* Only the engine's handler of SIGINT, or a thread of it that fails, sets the
\* flag; the handler of the standalone gateway does nothing.
RequestStop ==
    /\ process = "up" /\ book /\ ~stop
    /\ stop' = TRUE
    /\ UNCHANGED <<process, book, srv, mgr, peer, handlers, counts>>

\* main returns, and the detached handlers end with the process
Exit ==
    /\ process = "up" /\ srv = "closed" /\ (book => stop)
    /\ process' = "exited"
    /\ UNCHANGED <<stop, book, srv, mgr, peer, handlers, counts>>

-----------------------------------------------------------------------------
(* run_execution_gateway *)

\* The function returns and takes its manager along, whoever still uses it.
Close == /\ srv' = "closed"
         /\ mgr' = IF mgr = "alive" THEN "gone" ELSE mgr

\* the flag is tested before every accept
NextAccept == IF stop THEN Close ELSE UNCHANGED <<srv, mgr>>

AcceptorAt(place) == process = "up" /\ srv = place

AcceptorFrame == UNCHANGED <<book, peer, stream, answers, counts>>

\* socket, bind and listen; the manager only around a registered book
Listen ==
    /\ AcceptorAt("start")
    /\ srv' = "accept"
    /\ mgr' = IF book THEN "alive" ELSE "none"
    /\ AcceptorFrame /\ UNCHANGED <<stop, process, hpc>>

Accept ==
    /\ AcceptorAt("accept")
    /\ \E c \in Session : hpc[c] = "backlog" /\ hpc' = [hpc EXCEPT ![c] = NextTurn]
    /\ NextAccept
    /\ AcceptorFrame /\ UNCHANGED <<stop, process>>

\* Interrupted by the signal, or by the connection the engine makes to wake it
\* up, whose handler sees the flag before it reads.
Woken ==
    /\ AcceptorAt("accept") /\ stop
    /\ NextAccept
    /\ AcceptorFrame /\ UNCHANGED <<stop, process, hpc>>

\* No port, or an error of accept that is no timeout: it returns, stop or not.
ListenOrAcceptFails ==
    /\ AcceptorAt("start") \/ AcceptorAt("accept")
    /\ Close
    /\ AcceptorFrame /\ UNCHANGED <<stop, process, hpc>>

\* No thread for the handler: the exception reaches the engine, which stops,
\* or the main of the standalone gateway, which does not catch it.
SpawnFails ==
    /\ AcceptorAt("accept") /\ \E c \in Session : hpc[c] = "backlog"
    /\ Close
    /\ IF book THEN stop' = TRUE /\ UNCHANGED process
               ELSE process' = "aborted" /\ UNCHANGED stop
    /\ AcceptorFrame /\ UNCHANGED hpc

Acceptor == Listen \/ Accept \/ Woken

-----------------------------------------------------------------------------
(* handle_client: receiving *)

\* Between two sends a handler does nothing else.
At(c, place) == process = "up" /\ hpc[c] = place /\ outbox[c] = <<>>

Go(c, place) == hpc' = [hpc EXCEPT ![c] = place]

unread(c) == 2 * Len(inbox[c]) - got[c]

\* a step of the handler alone
Move(c, from, to) == /\ At(c, from) /\ Go(c, to)
                     /\ UNCHANGED <<around, stream, answers, counts>>

Receive(c) ==
    /\ At(c, "recv") /\ peer[c] # "reset" /\ unread(c) > 0
    /\ \E n \in 1 .. unread(c) : got' = [got EXCEPT ![c] = @ + n]
    /\ late' = IF stop THEN [late EXCEPT ![c] = @ + 1] ELSE late
    /\ Go(c, "lines")
    /\ UNCHANGED <<around, inbox, served, line, answers, counts>>

\* 200 ms without data, or a signal
ReceiveTimesOut(c) == peer[c] = "open" /\ unread(c) = 0 /\ Move(c, "recv", NextTurn)

\* the end of the stream or an error
HangUp(c) == /\ unread(c) = 0 \/ peer[c] = "reset"
             /\ peer[c] \in {"left", "reset"}
             /\ Move(c, "recv", "closed")

-----------------------------------------------------------------------------
(* handle_client: the lines in readbuf *)

nextLine(c) == Head(inbox[c])

HasLine(c, cmd) == At(c, "lines") /\ got[c] >= 2 /\ nextLine(c).cmd = cmd

\* Bug for a mutation run: the line is not erased from readbuf.
EraseNothing(c) == got[c]

EraseLine(c) == got[c] - 2

\* a line is taken, what to answer is known, and the handler goes on at place
Handle(c, cmd, place, texts) ==
    /\ HasLine(c, cmd)
    /\ inbox' = [inbox EXCEPT ![c] = Tail(@)]
    /\ got' = [got EXCEPT ![c] = EraseLine(c)]
    /\ served' = [served EXCEPT ![c] = @ + 1]
    /\ line' = [line EXCEPT ![c] = nextLine(c)]
    /\ outbox' = [outbox EXCEPT ![c] = texts]
    /\ Go(c, place)
    /\ UNCHANGED <<around, late, sent, refused, unmanaged>>

\* Bug for a mutation run: one line per receive.
AfterLineReceive == NextTurn

\* the line loop goes on
AfterLine == "lines"

NoLineLeft(c) == got[c] < 2 /\ Move(c, "lines", NextTurn)

SkipBlank(c) == Handle(c, "blank", AfterLine, <<>>) /\ UNCHANGED managed

\* answered, and in no counter
RefuseJunk(c) == /\ Handle(c, "junk", AfterLine, <<Answer("REJ_CMD", NoOrder, 0)>>)
                 /\ UNCHANGED managed

BadOrder(l) == l.size <= 0 \/ l.size > max_size

RefuseOrder(c) ==
    /\ Handle(c, "order", "count", <<Answer("REJ", nextLine(c).clid, 0)>>)
    /\ BadOrder(nextLine(c))
    /\ UNCHANGED managed

\* The ACK names no size; the one kept here serves the properties.
Acknowledge(c) ==
    /\ Handle(c, "order", "submit", <<Answer("ACK", nextLine(c).clid, nextLine(c).size)>>)
    /\ ~BadOrder(nextLine(c))
    /\ UNCHANGED managed

\* Bug for a mutation run: the answer is read off the entry after the cancel.
CanceledSizeLeft(clid) == orders'[clid].remaining

\* canceled_size is taken before the entry is cleared
CanceledSize(clid) == orders[clid].remaining

CancelOrder(c) ==
    LET clid == nextLine(c).clid
    IN  /\ mgr = "alive" /\ HasLine(c, "cancel")
        /\ Manager!Cancel(c, clid)
        /\ Handle(c, "cancel", AfterLine, <<Answer("CAL", clid, CanceledSize(clid))>>)

\* an id that is unknown or done, or no manager to ask
RefuseCancel(c) ==
    /\ Handle(c, "cancel", AfterLine, <<Answer("REJ_CMD", nextLine(c).clid, 0)>>)
    /\ mgr \in {"none", "alive"}
    /\ mgr = "alive" => ~Manager!Cancelable(nextLine(c).clid)
    /\ UNCHANGED managed

-----------------------------------------------------------------------------
(* handle_client: the order after its ACK *)

\* a step that ends at place with something to say
Proceed(c, from, place, texts) ==
    /\ At(c, from) /\ Go(c, place)
    /\ outbox' = [outbox EXCEPT ![c] = texts]
    /\ UNCHANGED <<around, stream, sent>>

\* inc_orders_rejected, after the answer is out
CountRefusal(c) ==
    /\ Proceed(c, "count", AfterLine, <<>>)
    /\ refused' = refused + 1
    /\ UNCHANGED <<unmanaged, managed>>

toSubmit(c) == [clid |-> line[c].clid, size |-> line[c].size]

\* Bug for a mutation run: the gateway counts what the manager has counted.
SubmitRejectedTwice(c) ==
    /\ mgr = "alive" /\ Proceed(c, "submit", AfterLine, <<Answer("REJ", line[c].clid, 0)>>)
    /\ Manager!Reject(c, toSubmit(c))
    /\ refused' = refused + 1
    /\ UNCHANGED unmanaged

SubmitRejected(c) ==
    /\ mgr = "alive" /\ Proceed(c, "submit", AfterLine, <<Answer("REJ", line[c].clid, 0)>>)
    /\ Manager!Reject(c, toSubmit(c))
    /\ UNCHANGED <<refused, unmanaged>>

Submit(c) ==
    /\ mgr = "alive" /\ Proceed(c, "submit", "call", <<>>)
    /\ Manager!Check(c, toSubmit(c))
    /\ UNCHANGED <<refused, unmanaged>>

\* the critical sections of submit_order and its match
Work(c) ==
    /\ mgr = "alive" /\ At(c, "call")
    /\ \/ Manager!Store(c) \/ Manager!Match(c)
       \/ Manager!RecordFills(c) \/ Manager!MarkOpen(c)
    /\ UNCHANGED <<around, handlers, refused, unmanaged>>

\* Bug for a mutation run: every record is reported with the size of the order.
FillLinesOfOrder(c, sizes) ==
    [i \in DOMAIN sizes |-> Answer("FILL", line[c].clid, line[c].size)]

\* one line per record that match_order made
FillLines(c, sizes) == [i \in DOMAIN sizes |-> Answer("FILL", line[c].clid, sizes[i])]

\* The end of submit_order touches counters only, so it needs no manager.
ReportFills(c) ==
    /\ \E sizes \in [1 .. fills[c].count -> 1 .. fills[c].consumed] :
         /\ SumFunction(sizes) = fills[c].consumed
         /\ Proceed(c, "call", AfterLine, FillLines(c, sizes))
    /\ Manager!Return(c)
    /\ UNCHANGED <<refused, unmanaged>>

\* Without a manager the order is counted and the snapshot file is read, in
\* which the pattern read_top_of_book looks for does not occur: no fill.
Fallback(c) ==
    /\ mgr = "none" /\ Proceed(c, "submit", AfterLine, <<>>)
    /\ unmanaged' = unmanaged + 1
    /\ UNCHANGED <<refused, managed>>

\* The handler's raw pointer outlives the manager: nothing is promised then.
UseDestroyed(c) ==
    /\ mgr = "gone"
    /\ \/ At(c, "submit")
       \/ At(c, "call") /\ pc[c] # "recorded"
       \/ HasLine(c, "cancel")
    /\ process' = "undefined"
    /\ UNCHANGED <<stop, book, srv, mgr, peer, handlers, counts>>

\* The result of send is not looked at.  A send to a client that has left may
\* draw a reset, and one on a reset connection may raise SIGPIPE, which
\* nobody handles.
Send(c) ==
    /\ process = "up" /\ outbox[c] # <<>>
    /\ outbox' = [outbox EXCEPT ![c] = Tail(@)]
    /\ sent' = [sent EXCEPT ![c] = Append(@, Head(outbox[c]))]
    /\ \E end \in IF peer[c] = "left" THEN {"left", "reset"} ELSE {peer[c]} :
         peer' = [peer EXCEPT ![c] = end]
    /\ process' \in IF peer[c] = "reset" THEN {"up", "killed"} ELSE {"up"}
    /\ UNCHANGED <<stop, book, srv, mgr, hpc, stream, counts>>

-----------------------------------------------------------------------------
Handler(c) ==
    \/ Receive(c) \/ ReceiveTimesOut(c) \/ HangUp(c)
    \/ NoLineLeft(c) \/ SkipBlank(c) \/ RefuseJunk(c)
    \/ RefuseOrder(c) \/ Acknowledge(c) \/ CancelOrder(c) \/ RefuseCancel(c)
    \/ CountRefusal(c) \/ SubmitRejected(c) \/ Submit(c) \/ Work(c)
    \/ ReportFills(c) \/ Fallback(c) \/ UseDestroyed(c) \/ Send(c)

Next == \/ RequestStop \/ Exit
        \/ Acceptor \/ ListenOrAcceptFails \/ SpawnFails
        \/ \E c \in Session : Connect(c) \/ Write(c) \/ Leave(c) \/ Handler(c)

Spec == Init /\ [][Next]_vars

\* The threads run.  Clients, signals and failures come as they like.
Fairness == WF_vars(Acceptor) /\ \A c \in Session : WF_vars(Handler(c))

FairSpec == Spec /\ Fairness

-----------------------------------------------------------------------------
(* Properties *)

AnswerOK(a) == /\ a.kind \in {"ACK", "FILL", "CAL", "REJ", "REJ_CMD"}
               /\ a.clid \in Clid \cup {NoOrder}
               /\ a.size \in 0 .. MaxSize

\* The type invariant of the accept loop and of the handlers' state; a handler
\* is inside submit_order exactly when the manager has it there.
TypeOK ==
    /\ stop \in BOOLEAN /\ process \in {"up", "exited", "aborted", "killed", "undefined"}
    /\ book \in Books /\ srv \in {"start", "accept", "closed"}
    /\ mgr \in {"none", "alive", "gone"}
    /\ peer \in [Session -> {"away", "open", "left", "reset"}]
    /\ \A c \in Session :
         /\ hpc[c] \in {"none", "backlog", "recv", "lines", "count",
                        "submit", "call", "closed"}
         /\ Range(inbox[c]) \subseteq Line[c]
         /\ got[c] \in 0 .. 2 * Len(inbox[c])
         /\ line[c] \in Line[c] \cup {NoLine}
         /\ \A a \in Range(told(c)) : AnswerOK(a)
         /\ (hpc[c] = "call") <=> (pc[c] # "idle")
    /\ Manager!TypeOK

\* What a client reads after an ACK and before any other answer are the fills
\* of that order, and they never add up to more than its size: handlers that
\* share the manager never mix their clients' executions.
FillsFollowAck ==
    \A c \in Session : \A i \in DOMAIN told(c) :
        LET a == told(c)[i]
        IN  a.kind = "FILL" =>
              \E k \in 1 .. i - 1 :
                /\ told(c)[k].kind = "ACK" /\ told(c)[k].clid = a.clid
                /\ \A j \in k + 1 .. i : told(c)[j].kind = "FILL"
                /\ SumFunctionOnSet([j \in DOMAIN told(c) |-> told(c)[j].size], k + 1 .. i)
                     <= told(c)[k].size

ToldOf(kind) ==
    SumFunction([c \in Session |->
        Cardinality({i \in DOMAIN told(c) : told(c)[i].kind = kind})])

Busy(places) == Cardinality({c \in Session : hpc[c] \in places})

\* the two counters of metrics.cpp that the gateway and the manager share
orders_rejected == refused + rejected
orders_accepted == unmanaged + accepted

\* The counters of the metrics page and the answers of all connections tell
\* the same story, apart from the orders in some handler's hand: each order
\* is rejected by the gateway or acknowledged, and never counted by both.
CountersMatchAnswers ==
    /\ ToldOf("REJ") = orders_rejected + Busy({"count"})
    /\ ToldOf("ACK") = orders_accepted + rejected + Busy({"submit", "call"})
    /\ ToldOf("FILL") = filled_count
    /\ ToldOf("CAL") = canceled

SharesTold(kinds, clid) ==
    SumFunction([c \in Session |->
        SumFunctionOnSet([i \in DOMAIN told(c) |-> told(c)[i].size],
            {i \in DOMAIN told(c) : told(c)[i].kind \in kinds /\ told(c)[i].clid = clid})])

\* The shares of an order whose id is used once are those its client was told
\* of, as filled or as canceled, on whichever connection, those recorded and
\* about to be told, and those that remain.
ClientsAddUp ==
    \A clid \in DOMAIN orders \ disturbed :
        orders[clid].original_size =
            orders[clid].remaining + SharesTold({"FILL", "CAL"}, clid)
            + SumFunctionOnSet([c \in Session |-> fills[c].consumed],
                  {c \in Session : pc[c] = "recorded" /\ line[c].clid = clid})

\* After the stop a handler receives at most once more: the stop reaches even
\* a client that never pauses.
OneLastReceive == \A c \in Session : late[c] <= 1

\* lines whose handling is over and whose answers are out
Done(c) == served[c] - IF hpc[c] \in {"count", "submit", "call"} \/ outbox[c] # <<>>
                       THEN 1 ELSE 0

\* the gateway may end before it answers, and a client that left is not owed
Excused(c) == \/ stop \/ process # "up"
              \/ peer[c] # "open"
              \/ hpc[c] = "backlog" /\ srv = "closed"

\* A client that stays and pauses (MaxLines makes it) has every line answered,
\* however its bytes are split over receives and whatever the other
\* connections do.
LinesAnswered ==
    \A c \in Session : Done(c) < Written(c) ~> Done(c) = Written(c) \/ Excused(c)
=============================================================================
