--------------------------- MODULE GatewayProofs ---------------------------
(***************************************************************************)
(* The gateway for any number of connections, ids, lines and any limit.    *)
(*                                                                         *)
(* The argument: what a handler has in readbuf and in hand (StreamInv)     *)
(* shows that each of its calls is one OrderManager allows, so the gateway *)
(* implements OrderManager and everything OrderManagerProofs proves holds  *)
(* in it.  That gives the types of what the manager returns, and with them *)
(* the types of the answers.                                               *)
(***************************************************************************)
EXTENDS Gateway, TLAPS

MP == INSTANCE OrderManagerProofs WITH MaxCalls <- MaxLines, max_order_size <- max_size

AnyLine == [cmd : Command, clid : Clid, size : 0 .. MaxSize]
Places  == {"none", "backlog", "recv", "lines", "count", "submit", "call", "closed"}

\* What each handler has received and has in hand.
StreamInv ==
    /\ hpc \in [Session -> Places]
    /\ inbox \in [Session -> Seq(AnyLine)]
    /\ got \in [Session -> Nat]
    /\ DOMAIN line = Session
    /\ \A c \in Session :
         /\ inbox[c] \in Seq(Line[c])
         /\ got[c] <= 2 * Len(inbox[c])
         /\ line[c] \in Line[c] \cup {NoLine}
         /\ hpc[c] = "submit" => line[c] \in Line[c] /\ ~BadOrder(line[c])

\* A handler that received after the stop does not come back to its recv.
LateInv ==
    /\ late \in [Session -> Nat]
    /\ \A c \in Session :
         late[c] > 0 => late[c] = 1 /\ stop /\ hpc[c] # "recv"

GInv == StreamInv /\ LateInv

-----------------------------------------------------------------------------
(* The handlers' streams *)

LEMMA LinesAreTyped ==
    ASSUME NEW c \in Session PROVE Line[c] \subseteq AnyLine
BY LineAssumption DEF AnyLine

LEMMA InitGInv == Init => GInv
<1> SUFFICES ASSUME Init PROVE GInv
  OBVIOUS
<1>1. \A c \in Session : inbox[c] = <<>> /\ got[c] = 0 /\ line[c] = NoLine /\ hpc[c] = "none"
  BY DEF Init
<1>2. \A S : <<>> \in Seq(S) /\ Len(<<>>) = 0
  OBVIOUS
<1>3. StreamInv
  BY <1>1, <1>2 DEF Init, StreamInv, Places
<1>4. LateInv
  BY DEF Init, LateInv
<1> QED
  BY <1>3, <1>4 DEF GInv

\* A step that takes nothing from a stream, and moves at most one handler.
LEMMA QuietStep ==
    ASSUME GInv, UNCHANGED <<inbox, got, line, late>>, stop => stop',
           \/ UNCHANGED hpc
           \/ \E c \in Session, p \in Places :
                /\ hpc' = [hpc EXCEPT ![c] = p]
                /\ p # "submit" /\ (p = "recv" => ~stop)
    PROVE  GInv'
<1>1. StreamInv'
  BY DEF GInv, StreamInv, BadOrder
<1>2. LateInv'
  BY DEF GInv, StreamInv, LateInv
<1> QED
  BY <1>1, <1>2 DEF GInv

\* A line is taken from the buffer.
LEMMA HandleStep ==
    ASSUME GInv, NEW c \in Session, NEW cmd, NEW place \in Places, NEW texts,
           Handle(c, cmd, place, texts),
           place # "recv", place = "submit" => ~BadOrder(nextLine(c))
    PROVE  GInv'
<1> USE DEF GInv, StreamInv
<1>1. /\ got[c] \in Nat /\ got[c] >= 2 /\ got[c] <= 2 * Len(inbox[c])
      /\ inbox[c] \in Seq(Line[c]) /\ inbox[c] \in Seq(AnyLine) /\ Len(inbox[c]) \in Nat
  BY DEF Handle, HasLine
<1>2. inbox[c] # <<>>
  BY <1>1
<1>3. /\ Head(inbox[c]) \in Line[c]
      /\ Tail(inbox[c]) \in Seq(Line[c]) /\ Tail(inbox[c]) \in Seq(AnyLine)
      /\ Len(Tail(inbox[c])) = Len(inbox[c]) - 1
  BY <1>1, <1>2
<1>4. /\ inbox' = [inbox EXCEPT ![c] = Tail(inbox[c])]
      /\ got' = [got EXCEPT ![c] = got[c] - 2]
      /\ line' = [line EXCEPT ![c] = Head(inbox[c])]
      /\ hpc' = [hpc EXCEPT ![c] = place]
      /\ late' = late /\ stop' = stop
  BY DEF Handle, EraseLine, nextLine, Go, around
<1>5. got[c] - 2 \in Nat /\ got[c] - 2 <= 2 * Len(Tail(inbox[c]))
  BY <1>1, <1>3
<1>6. StreamInv'
  BY <1>3, <1>4, <1>5 DEF nextLine, BadOrder
<1>7. LateInv'
  BY <1>4 DEF LateInv
<1> QED
  BY <1>6, <1>7

\* Steps of the acceptor, the clients and the outside that leave hpc alone or
\* put one handler at a place from which it has not yet received.
LEMMA NextTurnPlace ==
    NextTurn \in Places /\ NextTurn # "submit" /\ (NextTurn = "recv" => ~stop)
BY DEF NextTurn, Places

LEMMA GInvStep ==
    ASSUME GInv, [Next]_vars PROVE GInv'
<1>1. CASE RequestStop \/ Exit \/ Listen \/ Woken \/ ListenOrAcceptFails \/ SpawnFails
           \/ UNCHANGED vars
  <2>1. UNCHANGED <<inbox, got, line, late, hpc>> /\ (stop => stop')
    BY <1>1 DEF RequestStop, Exit, Listen, Woken, ListenOrAcceptFails, SpawnFails,
                AcceptorFrame, handlers, stream, vars, around
  <2> QED
    BY <2>1, QuietStep
<1>2. CASE Accept
  BY <1>2, QuietStep, NextTurnPlace DEF Accept, AcceptorFrame, stream
<1>3. ASSUME NEW c \in Session, Connect(c) PROVE GInv'
  BY <1>3, QuietStep DEF Connect, stream, Places
<1>4. ASSUME NEW c \in Session, Write(c) PROVE GInv'
  <2> USE DEF GInv, StreamInv
  <2>1. PICK l \in Line[c] : inbox' = [inbox EXCEPT ![c] = Append(inbox[c], l)]
    BY <1>4 DEF Write
  <2>2. l \in AnyLine
    BY LinesAreTyped
  <2>3. /\ Append(inbox[c], l) \in Seq(Line[c])
        /\ Append(inbox[c], l) \in Seq(AnyLine)
        /\ Len(Append(inbox[c], l)) = Len(inbox[c]) + 1
        /\ Len(inbox[c]) \in Nat
    BY <2>2
  <2>4. UNCHANGED <<hpc, got, line, late, stop>>
    BY <1>4 DEF Write, around
  <2>5. StreamInv'
    <3>1. inbox' \in [Session -> Seq(AnyLine)]
      BY <2>1, <2>3
    <3>2. ASSUME NEW d \in Session
          PROVE  inbox'[d] \in Seq(Line[d]) /\ got[d] <= 2 * Len(inbox'[d])
      <4>1. CASE d = c
        <5>1. inbox'[d] = Append(inbox[c], l)
          BY <2>1, <4>1
        <5>2. got[c] \in Nat /\ got[c] <= 2 * Len(inbox[c])
          OBVIOUS
        <5> QED
          BY <2>3, <4>1, <5>1, <5>2
      <4>2. CASE d # c
        BY <2>1, <4>2
      <4> QED
        BY <4>1, <4>2
    <3> QED
      BY <2>4, <3>1, <3>2 DEF BadOrder
  <2>6. LateInv'
    BY <2>4 DEF LateInv
  <2> QED
    BY <2>5, <2>6
<1>5. ASSUME NEW c \in Session, Leave(c) PROVE GInv'
  BY <1>5, QuietStep DEF Leave, handlers, stream
<1>6. ASSUME NEW c \in Session, Receive(c) PROVE GInv'
  <2> USE DEF GInv, StreamInv
  <2>1. PICK n \in 1 .. unread(c) : got' = [got EXCEPT ![c] = got[c] + n]
    BY <1>6 DEF Receive
  <2>2. Len(inbox[c]) \in Nat /\ got[c] \in Nat
    OBVIOUS
  <2>3. got[c] + n \in Nat /\ got[c] + n <= 2 * Len(inbox[c])
    BY <2>2 DEF unread
  <2>4. /\ UNCHANGED <<inbox, line, stop>>
        /\ hpc[c] = "recv" /\ hpc' = [hpc EXCEPT ![c] = "lines"]
        /\ late' = IF stop THEN [late EXCEPT ![c] = late[c] + 1] ELSE late
    BY <1>6 DEF Receive, At, Go, around
  <2>5. StreamInv'
    <3>1. got' \in [Session -> Nat] /\ hpc' \in [Session -> Places]
      BY <2>1, <2>3, <2>4 DEF Places
    <3>2. ASSUME NEW d \in Session PROVE got'[d] <= 2 * Len(inbox[d])
      BY <2>1, <2>3
    <3>3. ASSUME NEW d \in Session, hpc'[d] = "submit"
          PROVE  line[d] \in Line[d] /\ ~BadOrder(line[d])
      BY <2>4, <3>3
    <3> QED
      BY <2>4, <3>1, <3>2, <3>3 DEF BadOrder
  <2>6. late[c] = 0
    BY <2>4 DEF LateInv
  <2>7. LateInv'
    BY <2>4, <2>6 DEF LateInv
  <2> QED
    BY <2>5, <2>7
<1>7. ASSUME NEW c \in Session, ReceiveTimesOut(c) \/ HangUp(c) \/ NoLineLeft(c)
      PROVE  GInv'
  <2>1. PICK place \in {NextTurn, "closed"} :
          hpc' = [hpc EXCEPT ![c] = place] /\ UNCHANGED <<stream, stop>>
    BY <1>7 DEF ReceiveTimesOut, HangUp, NoLineLeft, Move, Go, around
  <2> QED
    BY <2>1, QuietStep, NextTurnPlace DEF stream, Places
<1>8. ASSUME NEW c \in Session,
             SkipBlank(c) \/ RefuseJunk(c) \/ RefuseOrder(c) \/ CancelOrder(c)
               \/ RefuseCancel(c)
      PROVE  GInv'
  <2>1. \E place \in {"lines", "count"} : \E cmd, texts : Handle(c, cmd, place, texts)
    <3>1. CASE SkipBlank(c)
      BY <3>1 DEF SkipBlank, AfterLine
    <3>2. CASE RefuseJunk(c)
      BY <3>2 DEF RefuseJunk, AfterLine
    <3>3. CASE RefuseOrder(c)
      BY <3>3 DEF RefuseOrder
    <3>4. CASE CancelOrder(c)
      BY <3>4 DEF CancelOrder, AfterLine
    <3>5. CASE RefuseCancel(c)
      BY <3>5 DEF RefuseCancel, AfterLine
    <3> QED
      BY <1>8, <3>1, <3>2, <3>3, <3>4, <3>5
  <2>2. PICK place \in {"lines", "count"} : \E cmd, texts : Handle(c, cmd, place, texts)
    BY <2>1
  <2>3. PICK cmd, texts : Handle(c, cmd, place, texts)
    BY <2>2
  <2> QED
    BY <2>3, HandleStep DEF Places
<1>9. ASSUME NEW c \in Session, Acknowledge(c) PROVE GInv'
  BY <1>9, HandleStep DEF Acknowledge, Places
<1>10. ASSUME NEW c \in Session,
              CountRefusal(c) \/ SubmitRejected(c) \/ Submit(c) \/ ReportFills(c)
                \/ Fallback(c)
       PROVE  GInv'
  <2>1. PICK place \in {"lines", "call"} :
          hpc' = [hpc EXCEPT ![c] = place] /\ UNCHANGED <<stream, stop>>
    BY <1>10 DEF CountRefusal, SubmitRejected, Submit, ReportFills, Fallback, Proceed,
                 Go, AfterLine, around
  <2> QED
    BY <2>1, QuietStep DEF stream, Places
<1>11. ASSUME NEW c \in Session, Work(c) \/ UseDestroyed(c) \/ Send(c) PROVE GInv'
  <2>1. UNCHANGED <<stream, hpc, stop>>
    BY <1>11 DEF Work, UseDestroyed, Send, handlers, around
  <2> QED
    BY <2>1, QuietStep DEF stream
<1> QED
  BY <1>1, <1>2, <1>3, <1>4, <1>5, <1>6, <1>7, <1>8, <1>9, <1>10, <1>11
  DEF Next, Acceptor, Handler

LEMMA GInvHolds == Spec => []GInv
<1>1. GInv /\ [Next]_vars => GInv'
  BY GInvStep
<1> QED
  BY <1>1, InitGInv, PTL DEF Spec

-----------------------------------------------------------------------------
(* The manager *)

LEMMA ManagedFrame == UNCHANGED managed => UNCHANGED Manager!vars
BY DEF managed, Manager!vars, Manager!table, Manager!thread, Manager!metrics,
       Manager!history

\* Every step is one that OrderManager allows, or none of its business.
LEMMA ManagerStep ==
    ASSUME GInv, [Next]_vars PROVE [Manager!Next]_(Manager!vars)
<1>1. CASE RequestStop \/ Exit \/ Listen \/ Accept \/ Woken \/ ListenOrAcceptFails
           \/ SpawnFails \/ UNCHANGED vars
  <2>1. UNCHANGED managed
    BY <1>1 DEF RequestStop, Exit, Listen, Accept, Woken, ListenOrAcceptFails, SpawnFails,
                AcceptorFrame, counts, vars
  <2> QED
    BY <2>1, ManagedFrame
<1>2. ASSUME NEW c \in Session,
             \/ Connect(c) \/ Write(c) \/ Leave(c) \/ Receive(c) \/ ReceiveTimesOut(c)
             \/ HangUp(c) \/ NoLineLeft(c) \/ SkipBlank(c) \/ RefuseJunk(c)
             \/ RefuseOrder(c) \/ Acknowledge(c) \/ RefuseCancel(c) \/ CountRefusal(c)
             \/ Fallback(c) \/ UseDestroyed(c) \/ Send(c)
      PROVE  [Manager!Next]_(Manager!vars)
  <2>1. UNCHANGED managed
    BY <1>2 DEF Connect, Write, Leave, Receive, ReceiveTimesOut, HangUp, NoLineLeft, Move,
                SkipBlank, RefuseJunk, RefuseOrder, Acknowledge, RefuseCancel,
                CountRefusal, Fallback, UseDestroyed, Send, counts
  <2> QED
    BY <2>1, ManagedFrame
<1>3. ASSUME NEW c \in Session, CancelOrder(c) PROVE Manager!Next
  <2>1. Manager!Cancel(c, nextLine(c).clid)
    BY <1>3 DEF CancelOrder
  <2>2. nextLine(c).clid \in Clid
    <3>1. got[c] >= 2 /\ got[c] \in Nat /\ got[c] <= 2 * Len(inbox[c])
          /\ inbox[c] \in Seq(AnyLine)
      BY <1>3 DEF CancelOrder, HasLine, GInv, StreamInv
    <3>2. Head(inbox[c]) \in AnyLine
      BY <3>1
    <3> QED
      BY <3>2 DEF nextLine, AnyLine
  <2> QED
    BY <2>1, <2>2 DEF Manager!Next, Manager!Handler
<1>4. ASSUME NEW c \in Session, SubmitRejected(c) \/ Submit(c) PROVE Manager!Next
  <2>1. hpc[c] = "submit"
    BY <1>4 DEF SubmitRejected, Submit, Proceed, At
  <2>2. line[c] \in AnyLine
    BY <2>1, LinesAreTyped DEF GInv, StreamInv
  <2>3. toSubmit(c) \in Manager!Order
    BY <2>2 DEF toSubmit, AnyLine, Manager!Order
  <2>4. Manager!Reject(c, toSubmit(c)) \/ Manager!Check(c, toSubmit(c))
    BY <1>4 DEF SubmitRejected, Submit
  <2> QED
    BY <2>3, <2>4 DEF Manager!Next, Manager!Handler
<1>5. ASSUME NEW c \in Session, Work(c) \/ ReportFills(c) PROVE Manager!Next
  BY <1>5 DEF Work, ReportFills, Manager!Next, Manager!Handler
<1> QED
  BY <1>1, <1>2, <1>3, <1>4, <1>5 DEF Next, Acceptor, Handler

\* The handlers of the gateway use the order manager only as OrderManager
\* describes it, so what is proved of it is true in the gateway.
THEOREM GatewayImplementsManager == Spec => Manager!Spec
<1>1. Init => Manager!Init
  BY DEF Init
<1>2. GInv /\ [Next]_vars => [Manager!Next]_(Manager!vars)
  BY ManagerStep
<1> QED
  BY <1>1, <1>2, GInvHolds, PTL DEF Spec, Manager!Spec

\* The stop reaches every handler: none receives more than once after it.
THEOREM OneLastReceiveAlways == Spec => []OneLastReceive
<1>1. GInv => OneLastReceive
  BY DEF GInv, LateInv, OneLastReceive
<1> QED
  BY <1>1, GInvHolds, PTL

-----------------------------------------------------------------------------
(* What OrderManagerProofs proves, for the manager of the gateway.  The two *)
(* instances have the same definitions.                                     *)

LEMMA SameCardinality == \A S : Manager!Cardinality(S) = MP!Cardinality(S)
BY DEF Manager!Cardinality, MP!Cardinality

LEMMA SameVars == UNCHANGED Manager!vars => UNCHANGED MP!vars
BY DEF Manager!vars, Manager!table, Manager!thread, Manager!metrics, Manager!history,
       MP!vars, MP!table, MP!thread, MP!metrics, MP!history

LEMMA SameInit == Manager!Init => MP!Init
BY DEF Manager!Init, Manager!NoFills, MP!Init, MP!NoFills

LEMMA SameNext == Manager!Next => MP!Next
<1> SUFFICES ASSUME NEW s \in Session, Manager!Handler(s) PROVE MP!Handler(s)
  BY DEF Manager!Next, MP!Next
<1> USE DEF Manager!table, Manager!thread, Manager!metrics, Manager!history,
            MP!table, MP!thread, MP!metrics, MP!history
<1>1. ASSUME NEW o \in Manager!Order, Manager!Reject(s, o) PROVE MP!Handler(s)
  <2>1. MP!Reject(s, o)
    BY <1>1, SameCardinality
    DEF Manager!Reject, Manager!TooLarge, Manager!LimitReached, Manager!Begin,
        Manager!open_order_count, Manager!Resting,
        MP!Reject, MP!TooLarge, MP!LimitReached, MP!Begin, MP!open_order_count, MP!Resting
  <2> QED
    BY <2>1 DEF Manager!Order, MP!Order, MP!Handler
<1>2. ASSUME NEW o \in Manager!Order, Manager!Check(s, o) PROVE MP!Handler(s)
  <2>1. MP!Check(s, o)
    BY <1>2, SameCardinality
    DEF Manager!Check, Manager!TooLarge, Manager!LimitReached, Manager!Begin,
        Manager!open_order_count, Manager!Resting,
        MP!Check, MP!TooLarge, MP!LimitReached, MP!Begin, MP!open_order_count, MP!Resting
  <2> QED
    BY <2>1 DEF Manager!Order, MP!Order, MP!Handler
<1>3. CASE Manager!Store(s)
  BY <1>3, SameCardinality
  DEF Manager!Store, Manager!Recount, Manager!Live, MP!Store, MP!Recount, MP!Live, MP!Handler
<1>4. CASE Manager!Match(s)
  BY <1>4 DEF Manager!Match, Manager!Fills, MP!Match, MP!Fills, MP!Handler
<1>5. CASE Manager!RecordFills(s)
  BY <1>5, SameCardinality
  DEF Manager!RecordFills, Manager!AfterFills, Manager!Recount, Manager!Live,
      MP!RecordFills, MP!AfterFills, MP!Recount, MP!Live, MP!Handler
<1>6. CASE Manager!MarkOpen(s)
  BY <1>6, SameCardinality
  DEF Manager!MarkOpen, Manager!Recount, Manager!Live,
      MP!MarkOpen, MP!Recount, MP!Live, MP!Handler
<1>7. CASE Manager!Return(s)
  BY <1>7 DEF Manager!Return, Manager!Report, Manager!Leave, Manager!NoFills,
              MP!Return, MP!Report, MP!Leave, MP!NoFills, MP!Handler
<1>8. ASSUME NEW k \in Clid, Manager!Cancel(s, k) PROVE MP!Handler(s)
  <2>1. MP!Cancel(s, k)
    BY <1>8, SameCardinality
    DEF Manager!Cancel, Manager!Cancelable, Manager!AfterCancel, Manager!Terminal,
        Manager!Recount, Manager!Live,
        MP!Cancel, MP!Cancelable, MP!AfterCancel, MP!Terminal, MP!Recount, MP!Live
  <2> QED
    BY <2>1 DEF MP!Handler
<1> QED
  BY <1>1, <1>2, <1>3, <1>4, <1>5, <1>6, <1>7, <1>8 DEF Manager!Handler

LEMMA SameSpec == Manager!Spec => MP!Spec
<1>1. [Manager!Next]_(Manager!vars) => [MP!Next]_(MP!vars)
  BY SameNext, SameVars
<1> QED
  BY <1>1, SameInit, PTL DEF Manager!Spec, MP!Spec

\* The assumptions of OrderManager, from those of the gateway.
LEMMA ManagerAssumptions ==
    /\ MP!SessionAssumption /\ MP!ClidAssumption
    /\ MP!SizeAssumption /\ MP!PolicyAssumption /\ MP!NoOrderAssumption
<1>1. MP!IsFiniteSet(Session) /\ MP!IsFiniteSet(Clid)
  BY FiniteAssumption DEF IsFiniteSet, MP!IsFiniteSet
<1> QED
  BY <1>1, SizesAssumption, BoundAssumption, NoOrderAssumption
  DEF MP!SessionAssumption, MP!ClidAssumption, MP!SizeAssumption, MP!PolicyAssumption,
      MP!NoOrderAssumption

\* The guarantees of the order manager hold for the handlers of the gateway:
\* shares are conserved and, for reused ids too, never lost or withdrawn twice,
\* final orders are final, the gauge is exact, every submission is in one
\* counter, the limit is missed by a known amount and the volume lags the table
\* by what is still to be reported.
THEOREM ManagerKeepsItsPromises ==
    Spec => /\ [](MP!SharesAccounted /\ MP!NoShareLost /\ MP!GaugeExact /\ MP!SubmitsCounted
                   /\ MP!OvershootBounded /\ MP!VolumeReported)
            /\ MP!TerminalIsFinal
<1>1. MP!Spec => []MP!SharesAccounted
  BY MP!SharesAlwaysAccounted, ManagerAssumptions
<1>2. MP!Spec => []MP!GaugeExact
  BY MP!GaugeAlwaysExact, ManagerAssumptions
<1>3. MP!Spec => []MP!SubmitsCounted
  BY MP!SubmitsAlwaysCounted, ManagerAssumptions
<1>4. MP!Spec => []MP!OvershootBounded
  BY MP!OvershootAlwaysBounded, ManagerAssumptions
<1>5. MP!Spec => MP!TerminalIsFinal
  BY MP!TerminalForever, ManagerAssumptions
<1>6. MP!Spec => []MP!VolumeReported
  BY MP!VolumeAlwaysReported, ManagerAssumptions
<1>7. MP!Spec => []MP!NoShareLost
  BY MP!SharesNeverLost, ManagerAssumptions
<1> QED
  BY <1>1, <1>2, <1>3, <1>4, <1>5, <1>6, <1>7, GatewayImplementsManager, SameSpec, PTL

LEMMA ManagerTypes == Spec => []Manager!TypeOK
<1>1. MP!Spec => []MP!TypeOK
  BY MP!TypeCorrect, ManagerAssumptions
<1>2. MP!TypeOK => Manager!TypeOK
  BY DEF MP!TypeOK, MP!State, MP!Status, MP!Order, MP!Fills,
         Manager!TypeOK, Manager!State, Manager!Status, Manager!Order, Manager!Fills
<1> QED
  BY <1>1, <1>2, GatewayImplementsManager, SameSpec, PTL

-----------------------------------------------------------------------------
(* The types of the rest *)

AroundInv ==
    /\ stop \in BOOLEAN /\ process \in {"up", "exited", "aborted", "killed", "undefined"}
    /\ book \in Books /\ srv \in {"start", "accept", "closed"}
    /\ mgr \in {"none", "alive", "gone"}
    /\ peer \in [Session -> {"away", "open", "left", "reset"}]

\* A handler is inside submit_order exactly when the manager has it there, and
\* there is none before its connection.
CallInv ==
    \A c \in Session : /\ (hpc[c] = "call") <=> (pc[c] # "idle")
                       /\ peer[c] = "away" => hpc[c] = "none"

AnyAnswer == [kind : {"ACK", "FILL", "CAL", "REJ", "REJ_CMD"},
              clid : Clid \cup {NoOrder}, size : 0 .. MaxSize]

AnswerInv == outbox \in [Session -> Seq(AnyAnswer)] /\ sent \in [Session -> Seq(AnyAnswer)]

LEMMA AroundStep ==
    ASSUME AroundInv, [Next]_vars PROVE AroundInv'
<1> USE DEF AroundInv, around
<1>1. CASE RequestStop \/ Exit
  BY <1>1 DEF RequestStop, Exit
<1>2. CASE Listen
  BY <1>2 DEF Listen, AcceptorFrame
<1>3. CASE Accept \/ Woken \/ ListenOrAcceptFails
  BY <1>3 DEF Accept, Woken, ListenOrAcceptFails, NextAccept, Close, AcceptorFrame
<1>4. CASE SpawnFails
  BY <1>4 DEF SpawnFails, Close, AcceptorFrame
<1>5. ASSUME NEW c \in Session, Connect(c) \/ Leave(c) PROVE AroundInv'
  BY <1>5 DEF Connect, Leave
<1>6. ASSUME NEW c \in Session,
             \/ Write(c) \/ Receive(c) \/ ReceiveTimesOut(c)
             \/ HangUp(c) \/ NoLineLeft(c) \/ SkipBlank(c) \/ RefuseJunk(c)
             \/ RefuseOrder(c) \/ Acknowledge(c) \/ RefuseCancel(c) \/ CountRefusal(c)
             \/ CancelOrder(c) \/ Fallback(c) \/ SubmitRejected(c) \/ Submit(c)
             \/ Work(c) \/ ReportFills(c)
      PROVE  AroundInv'
  <2>1. UNCHANGED around
    BY <1>6 DEF Write, Receive, ReceiveTimesOut, HangUp, NoLineLeft, Move, SkipBlank,
                RefuseJunk, RefuseOrder, Acknowledge, RefuseCancel, CountRefusal,
                CancelOrder, Fallback, SubmitRejected, Submit, Work, ReportFills,
                Handle, Proceed
  <2> QED
    BY <2>1
<1>7. ASSUME NEW c \in Session, UseDestroyed(c) PROVE AroundInv'
  BY <1>7 DEF UseDestroyed
<1>8. ASSUME NEW c \in Session, Send(c) PROVE AroundInv'
  BY <1>8 DEF Send
<1>9. CASE UNCHANGED vars
  BY <1>9 DEF vars
<1> QED
  BY <1>1, <1>2, <1>3, <1>4, <1>5, <1>6, <1>7, <1>8, <1>9 DEF Next, Acceptor, Handler

\* A step that moves at most one handler, and not into or out of the manager.
LEMMA OutsideStep ==
    ASSUME GInv, Manager!TypeOK, AroundInv, CallInv, UNCHANGED pc,
           \/ UNCHANGED peer
           \/ \E c \in Session, end \in {"open", "left", "reset"} :
                peer[c] # "away" /\ peer' = [peer EXCEPT ![c] = end],
           \/ UNCHANGED hpc
           \/ \E c \in Session, p \in Places \ {"call"} :
                hpc[c] \notin {"none", "call"} /\ hpc' = [hpc EXCEPT ![c] = p]
    PROVE  CallInv'
<1>1. hpc \in [Session -> Places] /\ peer \in [Session -> {"away", "open", "left", "reset"}]
  BY DEF GInv, StreamInv, AroundInv
<1>2. ASSUME NEW d \in Session
      PROVE  /\ (hpc'[d] = "call") <=> (hpc[d] = "call")
             /\ hpc[d] = "none" => hpc'[d] = "none"
  BY <1>1
<1>3. ASSUME NEW d \in Session PROVE peer'[d] = "away" => peer[d] = "away"
  BY <1>1
<1> QED
  BY <1>2, <1>3 DEF CallInv

LEMMA CallStep ==
    ASSUME GInv, Manager!TypeOK, AroundInv, CallInv, [Next]_vars PROVE CallInv'
<1> USE DEF counts, managed, around
<1>0. /\ hpc \in [Session -> Places]
      /\ pc \in [Session -> {"idle", "checked", "stored", "matched", "recorded"}]
      /\ peer \in [Session -> {"away", "open", "left", "reset"}]
  BY DEF GInv, StreamInv, Manager!TypeOK, AroundInv
<1>1. CASE RequestStop \/ Exit \/ Listen \/ Woken \/ ListenOrAcceptFails \/ SpawnFails
           \/ UNCHANGED vars
  <2>1. UNCHANGED <<pc, peer, hpc>>
    BY <1>1 DEF RequestStop, Exit, Listen, Woken, ListenOrAcceptFails, SpawnFails,
                AcceptorFrame, handlers, vars
  <2> QED
    BY <2>1, OutsideStep
<1>2. CASE Accept
  <2>1. PICK c \in Session : hpc[c] = "backlog" /\ hpc' = [hpc EXCEPT ![c] = NextTurn]
    BY <1>2 DEF Accept
  <2>2. UNCHANGED <<pc, peer>> /\ NextTurn \in Places \ {"call"}
    BY <1>2 DEF Accept, AcceptorFrame, NextTurn, Places
  <2> QED
    BY <2>1, <2>2, OutsideStep
<1>3. ASSUME NEW c \in Session, Connect(c) PROVE CallInv'
  BY <1>0, <1>3 DEF Connect, CallInv
<1>4. ASSUME NEW c \in Session, Write(c) \/ UseDestroyed(c) PROVE CallInv'
  <2>1. UNCHANGED <<pc, peer, hpc>>
    BY <1>4 DEF Write, UseDestroyed, handlers
  <2> QED
    BY <2>1, OutsideStep
<1>5. ASSUME NEW c \in Session, Leave(c) PROVE CallInv'
  <2>1. PICK end \in {"left", "reset"} : peer' = [peer EXCEPT ![c] = end]
    BY <1>5 DEF Leave
  <2>2. UNCHANGED <<pc, hpc>> /\ peer[c] # "away"
    BY <1>5 DEF Leave, handlers
  <2> QED
    BY <2>1, <2>2, OutsideStep
<1>6. ASSUME NEW c \in Session,
             \/ Receive(c) \/ ReceiveTimesOut(c) \/ HangUp(c) \/ NoLineLeft(c)
             \/ SkipBlank(c) \/ RefuseJunk(c) \/ RefuseOrder(c) \/ Acknowledge(c)
             \/ RefuseCancel(c) \/ CancelOrder(c) \/ CountRefusal(c) \/ Fallback(c)
             \/ SubmitRejected(c)
      PROVE  CallInv'
  <2>1. UNCHANGED <<pc, peer>>
    BY <1>6 DEF Receive, ReceiveTimesOut, HangUp, NoLineLeft, Move, SkipBlank, RefuseJunk,
                RefuseOrder, Acknowledge, RefuseCancel, CancelOrder, CountRefusal,
                Fallback, SubmitRejected, Handle, Proceed, Manager!Cancel,
                Manager!Reject, Manager!thread
  <2>2. hpc[c] \in {"recv", "lines", "count", "submit"}
    BY <1>6 DEF Receive, ReceiveTimesOut, HangUp, NoLineLeft, Move, SkipBlank, RefuseJunk,
                RefuseOrder, Acknowledge, RefuseCancel, CancelOrder, CountRefusal,
                Fallback, SubmitRejected, Handle, HasLine, Proceed, At
  <2>3. \E p \in {"lines", "closed", "count", "submit", NextTurn} :
          hpc' = [hpc EXCEPT ![c] = p]
    BY <1>6 DEF Receive, ReceiveTimesOut, HangUp, NoLineLeft, Move, SkipBlank, RefuseJunk,
                RefuseOrder, Acknowledge, RefuseCancel, CancelOrder, CountRefusal,
                Fallback, SubmitRejected, Handle, Proceed, Go, AfterLine
  <2>4. {"lines", "closed", "count", "submit", NextTurn} \subseteq Places \ {"call"}
    BY DEF Places, NextTurn
  <2> QED
    BY <2>1, <2>2, <2>3, <2>4, OutsideStep
<1>7. ASSUME NEW c \in Session, Submit(c) PROVE CallInv'
  <2>1. /\ UNCHANGED peer
        /\ hpc[c] = "submit" /\ hpc' = [hpc EXCEPT ![c] = "call"]
        /\ pc' = [pc EXCEPT ![c] = "checked"]
    BY <1>7 DEF Submit, Proceed, At, Go, Manager!Check
  <2> QED
    BY <1>0, <2>1 DEF CallInv
<1>8. ASSUME NEW c \in Session, Work(c) PROVE CallInv'
  <2>1. UNCHANGED <<peer, hpc>> /\ hpc[c] = "call"
    BY <1>8 DEF Work, At, handlers
  <2>2. \E p \in {"stored", "matched", "recorded"} : pc' = [pc EXCEPT ![c] = p]
    BY <1>8 DEF Work, Manager!Store, Manager!Match, Manager!RecordFills, Manager!MarkOpen
  <2> QED
    BY <1>0, <2>1, <2>2 DEF CallInv
<1>9. ASSUME NEW c \in Session, ReportFills(c) PROVE CallInv'
  <2>1. /\ UNCHANGED peer
        /\ hpc[c] = "call" /\ hpc' = [hpc EXCEPT ![c] = "lines"]
        /\ pc' = [pc EXCEPT ![c] = "idle"]
    BY <1>9 DEF ReportFills, Proceed, At, Go, AfterLine, Manager!Return, Manager!Leave
  <2> QED
    BY <1>0, <2>1 DEF CallInv
<1>10. ASSUME NEW c \in Session, Send(c) PROVE CallInv'
  <2>1. UNCHANGED <<pc, hpc>>
    BY <1>10 DEF Send
  <2>2. \/ UNCHANGED peer
        \/ peer[c] = "left" /\ \E end \in {"left", "reset"} : peer' = [peer EXCEPT ![c] = end]
    BY <1>0, <1>10 DEF Send
  <2> QED
    BY <2>1, <2>2, OutsideStep
<1> QED
  BY <1>1, <1>2, <1>3, <1>4, <1>5, <1>6, <1>7, <1>8, <1>9, <1>10
  DEF Next, Acceptor, Handler

\* One answer, well made.
LEMMA OneAnswer ==
    ASSUME NEW kind \in {"ACK", "FILL", "CAL", "REJ", "REJ_CMD"},
           NEW clid \in Clid \cup {NoOrder}, NEW size \in 0 .. MaxSize
    PROVE  /\ Answer(kind, clid, size) \in AnyAnswer
           /\ <<Answer(kind, clid, size)>> \in Seq(AnyAnswer)
BY DEF Answer, AnyAnswer

\* A step that gives one handler something to say.
LEMMA SpeakStep ==
    ASSUME AnswerInv, NEW c \in Session, NEW texts \in Seq(AnyAnswer),
           outbox' = [outbox EXCEPT ![c] = texts], UNCHANGED sent
    PROVE  AnswerInv'
BY DEF AnswerInv

LEMMA AnswerStep ==
    ASSUME GInv, Manager!TypeOK, AnswerInv, [Next]_vars PROVE AnswerInv'
<1>0. MaxSize \in Nat /\ 0 \in 0 .. MaxSize /\ <<>> \in Seq(AnyAnswer)
  BY SizesAssumption
<1>1. CASE RequestStop \/ Exit \/ Listen \/ Accept \/ Woken \/ ListenOrAcceptFails
           \/ SpawnFails \/ UNCHANGED vars
  <2>1. UNCHANGED answers
    BY <1>1 DEF RequestStop, Exit, Listen, Accept, Woken, ListenOrAcceptFails, SpawnFails,
                AcceptorFrame, handlers, vars
  <2> QED
    BY <2>1 DEF answers, AnswerInv
<1>2. ASSUME NEW c \in Session,
             \/ Connect(c) \/ Write(c) \/ Leave(c) \/ Receive(c) \/ ReceiveTimesOut(c)
             \/ HangUp(c) \/ NoLineLeft(c) \/ Work(c) \/ UseDestroyed(c)
      PROVE  AnswerInv'
  <2>1. UNCHANGED answers
    BY <1>2 DEF Connect, Write, Leave, Receive, ReceiveTimesOut, HangUp, NoLineLeft, Move,
                Work, UseDestroyed, handlers
  <2> QED
    BY <2>1 DEF answers, AnswerInv
<1>3. ASSUME NEW c \in Session, NEW cmd, NEW place, NEW texts \in Seq(AnyAnswer),
             Handle(c, cmd, place, texts)
      PROVE  AnswerInv'
  BY <1>3, SpeakStep DEF Handle
<1>4. ASSUME NEW c \in Session, NEW from, NEW place, NEW texts \in Seq(AnyAnswer),
             Proceed(c, from, place, texts)
      PROVE  AnswerInv'
  BY <1>4, SpeakStep DEF Proceed
<1>5. ASSUME NEW c \in Session, NEW cmd, HasLine(c, cmd)
      PROVE  nextLine(c) \in AnyLine
  <2>1. got[c] >= 2 /\ got[c] \in Nat /\ got[c] <= 2 * Len(inbox[c])
        /\ inbox[c] \in Seq(AnyLine)
    BY <1>5 DEF HasLine, GInv, StreamInv
  <2> QED
    BY <2>1 DEF nextLine
<1>6. ASSUME NEW c \in Session PROVE line[c].clid \in Clid \cup {NoOrder}
  BY LinesAreTyped DEF GInv, StreamInv, AnyLine, NoLine
<1>7. ASSUME NEW c \in Session, SkipBlank(c) PROVE AnswerInv'
  BY <1>0, <1>3, <1>7 DEF SkipBlank
<1>8. ASSUME NEW c \in Session, RefuseJunk(c) PROVE AnswerInv'
  <2>1. <<Answer("REJ_CMD", NoOrder, 0)>> \in Seq(AnyAnswer)
    BY <1>0, OneAnswer
  <2> QED
    BY <1>3, <1>8, <2>1 DEF RefuseJunk
<1>9. ASSUME NEW c \in Session, RefuseOrder(c) PROVE AnswerInv'
  <2>1. nextLine(c).clid \in Clid
    BY <1>5, <1>9 DEF RefuseOrder, Handle, AnyLine
  <2>2. <<Answer("REJ", nextLine(c).clid, 0)>> \in Seq(AnyAnswer)
    BY <1>0, <2>1, OneAnswer
  <2> QED
    BY <1>3, <1>9, <2>2 DEF RefuseOrder
<1>10. ASSUME NEW c \in Session, Acknowledge(c) PROVE AnswerInv'
  <2>1. nextLine(c).clid \in Clid /\ nextLine(c).size \in 0 .. MaxSize
    BY <1>5, <1>10 DEF Acknowledge, Handle, AnyLine
  <2>2. <<Answer("ACK", nextLine(c).clid, nextLine(c).size)>> \in Seq(AnyAnswer)
    BY <2>1, OneAnswer
  <2> QED
    BY <1>3, <1>10, <2>2 DEF Acknowledge
<1>11. ASSUME NEW c \in Session, RefuseCancel(c) PROVE AnswerInv'
  <2>1. nextLine(c).clid \in Clid
    BY <1>5, <1>11 DEF RefuseCancel, Handle, AnyLine
  <2>2. <<Answer("REJ_CMD", nextLine(c).clid, 0)>> \in Seq(AnyAnswer)
    BY <1>0, <2>1, OneAnswer
  <2> QED
    BY <1>3, <1>11, <2>2 DEF RefuseCancel
<1>12. ASSUME NEW c \in Session, CancelOrder(c) PROVE AnswerInv'
  <2> DEFINE clid == nextLine(c).clid
  <2>1. clid \in Clid
    BY <1>5, <1>12 DEF CancelOrder, AnyLine
  <2>2. clid \in DOMAIN orders
    BY <1>12 DEF CancelOrder, Manager!Cancel, Manager!Cancelable
  <2>3. CanceledSize(clid) \in 0 .. MaxSize
    BY <2>2 DEF CanceledSize, Manager!TypeOK, Manager!State
  <2>4. <<Answer("CAL", clid, CanceledSize(clid))>> \in Seq(AnyAnswer)
    BY <2>1, <2>3, OneAnswer
  <2> QED
    BY <1>3, <1>12, <2>4 DEF CancelOrder
<1>13. ASSUME NEW c \in Session, CountRefusal(c) \/ Submit(c) \/ Fallback(c) PROVE AnswerInv'
  BY <1>0, <1>4, <1>13 DEF CountRefusal, Submit, Fallback
<1>14. ASSUME NEW c \in Session, SubmitRejected(c) PROVE AnswerInv'
  <2>1. <<Answer("REJ", line[c].clid, 0)>> \in Seq(AnyAnswer)
    BY <1>0, <1>6, OneAnswer
  <2> QED
    BY <1>4, <1>14, <2>1 DEF SubmitRejected
<1>15. ASSUME NEW c \in Session, ReportFills(c) PROVE AnswerInv'
  <2>1. fills[c].count \in Nat /\ fills[c].consumed \in 0 .. MaxSize
    BY <1>0 DEF Manager!TypeOK, Manager!Fills
  <2>2. PICK sizes \in [1 .. fills[c].count -> 1 .. fills[c].consumed] :
          Proceed(c, "call", AfterLine, FillLines(c, sizes))
    BY <1>15 DEF ReportFills
  <2>3. ASSUME NEW i \in 1 .. fills[c].count
        PROVE  Answer("FILL", line[c].clid, sizes[i]) \in AnyAnswer
    <3>1. sizes[i] \in 0 .. MaxSize
      BY <1>0, <2>1
    <3> QED
      BY <1>6, <3>1, OneAnswer
  <2>4. FillLines(c, sizes) \in [1 .. fills[c].count -> AnyAnswer]
    BY <2>3 DEF FillLines
  <2>5. FillLines(c, sizes) \in Seq(AnyAnswer)
    BY <2>1, <2>4
  <2> QED
    BY <1>4, <2>2, <2>5
<1>16. ASSUME NEW c \in Session, Send(c) PROVE AnswerInv'
  <2>1. outbox[c] \in Seq(AnyAnswer) /\ outbox[c] # <<>> /\ sent[c] \in Seq(AnyAnswer)
    BY <1>16 DEF Send, AnswerInv
  <2>2. /\ Tail(outbox[c]) \in Seq(AnyAnswer)
        /\ Append(sent[c], Head(outbox[c])) \in Seq(AnyAnswer)
    BY <2>1
  <2> QED
    BY <1>16, <2>2 DEF Send, AnswerInv
<1> QED
  BY <1>1, <1>2, <1>7, <1>8, <1>9, <1>10, <1>11, <1>12, <1>13, <1>14, <1>15, <1>16
  DEF Next, Acceptor, Handler

RestInv == AroundInv /\ CallInv /\ AnswerInv

LEMMA InitRestInv == Init => RestInv
<1> SUFFICES ASSUME Init PROVE RestInv
  OBVIOUS
<1>1. AroundInv
  BY WorldAssumption DEF Init, AroundInv
<1>3. AnswerInv
  <2>1. <<>> \in Seq(AnyAnswer)
    OBVIOUS
  <2> QED
    BY <2>1 DEF Init, AnswerInv
<1>2. CallInv
  BY DEF Init, Manager!Init, CallInv
<1> QED
  BY <1>1, <1>2, <1>3 DEF RestInv

LEMMA RestInvHolds == Spec => []RestInv
<1>1. GInv /\ Manager!TypeOK /\ RestInv /\ [Next]_vars => RestInv'
  BY AroundStep, CallStep, AnswerStep DEF RestInv
<1> QED
  BY <1>1, InitRestInv, GInvHolds, ManagerTypes, PTL DEF Spec

\* The type invariant of accept loop, handlers and manager.
THEOREM TypeCorrect == Spec => []TypeOK
<1>1. ASSUME GInv, Manager!TypeOK, RestInv PROVE TypeOK
  <2> USE DEF GInv, StreamInv, RestInv
  <2>1. ASSUME NEW c \in Session
        PROVE  /\ hpc[c] \in {"none", "backlog", "recv", "lines", "count",
                              "submit", "call", "closed"}
               /\ Range(inbox[c]) \subseteq Line[c]
               /\ got[c] \in 0 .. 2 * Len(inbox[c])
               /\ line[c] \in Line[c] \cup {NoLine}
               /\ (hpc[c] = "call") <=> (pc[c] # "idle")
    <3>1. Range(inbox[c]) \subseteq Line[c]
      <4>1. inbox[c] \in Seq(Line[c])
        BY <1>1
      <4>2. \A x \in DOMAIN inbox[c] : inbox[c][x] \in Line[c]
        BY <4>1
      <4> QED
        BY <4>2 DEF Range
    <3>2. got[c] \in 0 .. 2 * Len(inbox[c])
      BY <1>1
    <3> QED
      BY <1>1, <3>1, <3>2 DEF Places, CallInv
  <2>2. ASSUME NEW c \in Session, NEW a \in Range(told(c)) PROVE AnswerOK(a)
    <3>1. outbox[c] \in Seq(AnyAnswer) /\ sent[c] \in Seq(AnyAnswer)
      BY <1>1 DEF AnswerInv
    <3>2. told(c) \in Seq(AnyAnswer)
      BY <3>1 DEF told
    <3>3. a \in AnyAnswer
      BY <3>2 DEF Range
    <3> QED
      BY <3>3 DEF AnyAnswer, AnswerOK
  <2> QED
    BY <1>1, <2>1, <2>2 DEF TypeOK, AroundInv
<1> QED
  BY <1>1, GInvHolds, ManagerTypes, RestInvHolds, PTL
=============================================================================
