-------------------------- MODULE LifecycleProofs --------------------------
(***************************************************************************)
(* The engine's start and end for any number of metrics clients, signals   *)
(* and ports.                                                              *)
(*                                                                         *)
(* The argument: the receiver's place says how far its two threads can be  *)
(* (FrameInv), because each join waits for the place in which a thread     *)
(* touches nothing any more, and no action leads out of that place; main's *)
(* place says as much of the two services.                                 *)
(***************************************************************************)
EXTENDS Lifecycle, TLAPS

over == {"none", "done", "failed"}

\* What each join leaves behind it.
FrameInv ==
    /\ udp = "start" => consumer = "none" /\ metrics = "none"
    /\ udp = "join_metrics" => consumer = "done"
    /\ udp = "done" => consumer # "run" /\ metrics \in over
    /\ main \in {"join_gateway", "returned"} => udp = "done"
    /\ process = "exited" => udp = "done" /\ gw \in {"done", "leaked"}

IInv == TypeOK /\ FrameInv

-----------------------------------------------------------------------------
(* One step *)

LEMMA InitIInv == Init => IInv
<1> SUFFICES ASSUME Init PROVE IInv
  OBVIOUS
<1>1. TypeOK
  <2>1. backlog \in Seq(Peer \cup {Poke})
    BY DEF Init
  <2>2. peer \in [Peer -> {"away", "silent", "asked", "answered", "left"}]
    BY DEF Init
  <2>3. signals \in 0 .. MaxSignals
    BY SignalAssumption DEF Init
  <2> QED
    BY <2>1, <2>2, <2>3 DEF Init, TypeOK
<1>2. FrameInv
  BY DEF Init, FrameInv, over
<1> QED
  BY <1>1, <1>2 DEF IInv

\* Each group of actions keeps the types and the connection in hand.
LEMMA TypeStep ==
    ASSUME IInv, [Next]_vars PROVE TypeOK'
<1> USE DEF IInv, TypeOK
<1>1. CASE Interrupt
  BY <1>1, SignalAssumption DEF Interrupt, EndAccept, gateway, server, feed
<1>2. CASE Main
  <2>1. CASE Observe
    BY <2>1 DEF Observe, feed, gateway, server
  <2>2. CASE PokeGateway
    <3> DEFINE reached == gw \in {"accept", "leaked"}
    <3>1. reached = TRUE \/ reached = FALSE
      OBVIOUS
    <3> HIDE DEF reached
    <3>2. gw_poked' = reached \/ gw_poked' = gw_poked
      BY <2>2 DEF PokeGateway, Refused, reached
    <3>3. gw_poked' \in BOOLEAN
      BY <3>1, <3>2
    <3> QED
      BY <2>2, <3>3 DEF PokeGateway, Refused, feed
  <2>3. CASE PokeMetrics
    <3>1. backlog' \in Seq(Peer \cup {Poke})
      BY <2>3 DEF PokeMetrics, Refused
    <3> QED
      BY <2>3, <3>1 DEF PokeMetrics, Refused, feed
  <2>4. CASE Join
    BY <2>4 DEF Join, feed, gateway, server
  <2> QED
    BY <1>2, <2>1, <2>2, <2>3, <2>4 DEF Main
<1>3. CASE Receiver
  <2>1. CASE StartReceiver
    <3>1. metrics = "none"
      BY <2>1 DEF StartReceiver, FrameInv
    <3> QED
      BY <2>1, <3>1 DEF StartReceiver, engine, gateway
  <2>2. CASE LeaveLoop \/ JoinConsumer \/ JoinMetrics
    BY <2>2 DEF LeaveLoop, JoinConsumer, JoinMetrics, engine, gateway, server
  <2> QED
    BY <1>3, <2>1, <2>2 DEF Receiver
<1>4. CASE ReceiverFails \/ ReceiverThrows \/ ConsumerLeaves
  <2>1. CASE ReceiverFails
    <3>1. stop' \in BOOLEAN
      BY <2>1 DEF ReceiverFails
    <3> QED
      BY <2>1, <3>1 DEF ReceiverFails, gateway, server
  <2>2. CASE ReceiverThrows \/ ConsumerLeaves
    BY <2>2 DEF ReceiverThrows, ConsumerLeaves, engine, feed, gateway, server
  <2> QED
    BY <1>4, <2>1, <2>2
<1>5. CASE StartGateway \/ GatewayFails \/ GatewayWoken \/ GatewayVisited
  BY <1>5 DEF StartGateway, GatewayFails, GatewayWoken, GatewayVisited, GatewayStep,
              engine, feed, server
<1>6. CASE GatewayThrows
  BY <1>6 DEF GatewayThrows, feed, server
<1>7. CASE MetricsServer
  <2>1. CASE Listen
    BY <2>1 DEF Listen, NextAccept, engine, feed, gateway
  <2>2. CASE Accept
    <3>1. Head(backlog) \in Peer \cup {Poke} /\ Tail(backlog) \in Seq(Peer \cup {Poke})
      BY <2>2 DEF Accept
    <3> QED
      BY <2>2, <3>1, PeerAssumption DEF Accept, engine, feed, gateway
  <2>3. CASE Receive
    BY <2>3 DEF Receive, engine, feed, gateway
  <2>4. CASE SendPage
    BY <2>4 DEF SendPage, NextAccept, feed, gateway
  <2> QED
    BY <1>7, <2>1, <2>2, <2>3, <2>4 DEF MetricsServer
<1>8. CASE ServerFails
  BY <1>8 DEF ServerFails, engine, feed, gateway
<1>9. ASSUME NEW p \in Peer, Connect(p) \/ Ask(p) \/ Leave(p) PROVE TypeOK'
  <2>1. backlog' \in Seq(Peer \cup {Poke})
    BY <1>9 DEF Connect, Ask, Leave, Behave
  <2>2. peer' \in [Peer -> {"away", "silent", "asked", "answered", "left"}]
    BY <1>9 DEF Connect, Ask, Leave, Behave
  <2> QED
    BY <1>9, <2>1, <2>2 DEF Connect, Ask, Leave, Behave, engine, feed, gateway
<1>10. CASE UNCHANGED vars
  BY <1>10 DEF vars, engine, feed, gateway, server
<1> QED
  BY <1>1, <1>2, <1>3, <1>4, <1>5, <1>6, <1>7, <1>8, <1>9, <1>10 DEF Next

\* No action takes a thread back, and a join waits for the thread's last place.
LEMMA FrameStep ==
    ASSUME IInv, [Next]_vars PROVE FrameInv'
<1> USE DEF IInv, TypeOK, FrameInv, over, Up
<1>1. CASE Interrupt
  BY <1>1 DEF Interrupt, EndAccept, gateway, server, feed
<1>2. CASE Main
  BY <1>2 DEF Main, Observe, PokeGateway, PokeMetrics, Refused, Join, feed, gateway, server
<1>3. CASE Receiver
  BY <1>3 DEF Receiver, StartReceiver, LeaveLoop, JoinConsumer, JoinMetrics,
              engine, gateway, server
<1>4. CASE ReceiverFails \/ ReceiverThrows \/ ConsumerLeaves
  BY <1>4 DEF ReceiverFails, ReceiverThrows, ConsumerLeaves, engine, feed, gateway, server
<1>5. CASE StartGateway \/ GatewayFails \/ GatewayWoken \/ GatewayVisited
  BY <1>5 DEF StartGateway, GatewayFails, GatewayWoken, GatewayVisited, GatewayStep,
              engine, feed, server
<1>6. CASE GatewayThrows
  BY <1>6 DEF GatewayThrows, feed, server
<1>7. CASE MetricsServer
  BY <1>7 DEF MetricsServer, Listen, Accept, Receive, SendPage, NextAccept,
              engine, feed, gateway
<1>8. CASE ServerFails
  BY <1>8 DEF ServerFails, engine, feed, gateway
<1>9. ASSUME NEW p \in Peer, Connect(p) \/ Ask(p) \/ Leave(p) PROVE FrameInv'
  BY <1>9 DEF Connect, Ask, Leave, Behave, engine, feed, gateway
<1>10. CASE UNCHANGED vars
  BY <1>10 DEF vars, engine, feed, gateway, server
<1> QED
  BY <1>1, <1>2, <1>3, <1>4, <1>5, <1>6, <1>7, <1>8, <1>9, <1>10 DEF Next

LEMMA IInvHolds == Spec => []IInv
<1>1. IInv /\ [Next]_vars => IInv'
  BY TypeStep, FrameStep DEF IInv
<1> QED
  BY <1>1, InitIInv, PTL DEF Spec

-----------------------------------------------------------------------------
(* Theorems *)

\* The type invariant, with the metrics server's one connection in hand
\* exactly between its accept and its close.
THEOREM TypeCorrect == Spec => []TypeOK
<1>1. IInv => TypeOK
  BY DEF IInv
<1> QED
  BY <1>1, IInvHolds, PTL

\* run_udp_receiver and main never return while a thread they join may still
\* touch what lives on their frames, whatever fails and in which order.  The
\* detached handlers of the gateway are not among these threads.
THEOREM FramesAlwaysOutlive == Spec => []FramesOutliveThreads
<1>1. IInv => FramesOutliveThreads
  BY DEF IInv, FrameInv, FramesOutliveThreads, over
<1> QED
  BY <1>1, IInvHolds, PTL
=============================================================================
