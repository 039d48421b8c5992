----------------------------- MODULE Lifecycle -----------------------------
(***************************************************************************)
(* The engine from its start to its end: main, wake_services (engine.cpp), *)
(* the set-up and shutdown of run_udp_receiver and its metrics server      *)
(* (udp_receiver.cpp), and the accept loop of the gateway as main sees it. *)
(*                                                                         *)
(* accept and the metrics server's recv block without a timeout: a signal, *)
(* a client or a poke has to wake them.  What the receive loop does with   *)
(* datagrams is FeedPipeline, what handlers do with lines is Gateway.      *)
(***************************************************************************)
EXTENDS Integers, Sequences

CONSTANTS
    Peer,       \* clients of the metrics server
    NoPeer,     \* no connection in hand
    Poke,       \* the connection main makes
    Ports,      \* what the command line may give as metrics_port
    MaxSignals  \* bound: SIGINTs in one behaviour

ASSUME PeerAssumption   == NoPeer \notin Peer /\ Poke \notin Peer \cup {NoPeer}
ASSUME SignalAssumption == MaxSignals \in Nat /\ Ports \subseteq Nat

VARIABLES
    stop,          \* g_stop
    process,       \* up, or how it ended
    signals,       \* SIGINTs so far
    metrics_port,
    main,          \* main: waiting, waking the services, joining
    udp, consumer, \* run_udp_receiver and the consumer it starts
    gw,            \* run_execution_gateway; "leaked": gone, its socket left open
    gw_poked,      \* main's connection waits in the gateway's backlog
    metrics,       \* metrics_server; "failed": gone before any stop
    backlog,       \* connections it has not accepted
    conn,          \* the one in hand
    peer           \* what each client has done

engine  == <<stop, process, signals, metrics_port, main>>
feed    == <<udp, consumer>>
gateway == <<gw, gw_poked>>
server  == <<metrics, backlog, conn, peer>>
vars    == <<engine, feed, gateway, server>>

\* the port is a literal at udp_receiver.cpp:493
server_port == 9100

Init ==
    /\ stop = FALSE /\ process = "up" /\ signals = 0
    /\ metrics_port \in Ports /\ main = "wait"
    /\ udp = "start" /\ consumer = "none"
    /\ gw = "start" /\ gw_poked = FALSE
    /\ metrics = "none" /\ backlog = <<>> /\ conn = NoPeer
    /\ peer = [p \in Peer |-> "away"]

Up == process = "up"

-----------------------------------------------------------------------------
(* SIGINT: the flag, and an EINTR for the one thread it is delivered to *)

EndAccept == metrics' = "done" /\ UNCHANGED <<backlog, conn, peer>>

Interrupt ==
    /\ Up /\ signals < MaxSignals
    /\ signals' = signals + 1
    /\ stop' = TRUE
    /\ \/ UNCHANGED <<gateway, server>>
       \/ gw = "accept" /\ gw' = "done" /\ UNCHANGED <<gw_poked, server>>
       \/ metrics = "accept" /\ EndAccept /\ UNCHANGED gateway
       \/ metrics = "recv" /\ metrics' = "send" /\ UNCHANGED <<backlog, conn, peer, gateway>>
    /\ UNCHANGED <<process, metrics_port, main, feed>>

-----------------------------------------------------------------------------
(* main *)

Observe ==
    /\ Up /\ main = "wait" /\ stop
    /\ main' = "poke_gateway"
    /\ UNCHANGED <<stop, process, signals, metrics_port, feed, gateway, server>>

\* tcp_poke ignores the error of connect and sends: on a socket that is not
\* connected that raises SIGPIPE.
Refused == process' = "killed_by_poke" /\ UNCHANGED <<main, gw_poked, backlog>>

\* Where this program does not listen there may be another one, or nobody.
PokeGateway ==
    /\ Up /\ main = "poke_gateway"
    /\ \/ /\ main' = "poke_metrics"
          /\ gw_poked' = (gw \in {"accept", "leaked"})
          /\ UNCHANGED <<process, backlog>>
       \/ gw \notin {"accept", "leaked"} /\ Refused
    /\ UNCHANGED <<stop, signals, metrics_port, feed, gw, metrics, conn, peer>>

Listening == metrics \in {"accept", "recv", "send"}

\* Bug for a mutation run: the metrics server is not woken.
PokeMetricsNot ==
    /\ Up /\ main = "poke_metrics"
    /\ main' = "join_udp"
    /\ UNCHANGED <<stop, process, signals, metrics_port, feed, gateway, server>>

PokeMetrics ==
    LET reached == metrics_port = server_port /\ Listening
    IN  /\ Up /\ main = "poke_metrics"
        /\ \/ /\ main' = "join_udp"
              /\ backlog' = IF reached THEN Append(backlog, Poke) ELSE backlog
              /\ UNCHANGED <<process, gw_poked>>
           \/ ~reached /\ Refused
        /\ UNCHANGED <<stop, signals, metrics_port, feed, gw, metrics, conn, peer>>

Join ==
    /\ Up
    /\ \/ /\ main = "join_udp" /\ udp = "done"
          /\ main' = "join_gateway"
          /\ UNCHANGED process
       \/ /\ main = "join_gateway" /\ gw \in {"done", "leaked"}
          /\ main' = "returned"
          /\ process' = "exited"
    /\ UNCHANGED <<stop, signals, metrics_port, feed, gateway, server>>

Main == Observe \/ PokeGateway \/ PokeMetrics \/ Join

-----------------------------------------------------------------------------
(* run_udp_receiver: its set-up, its two threads, its joins *)

StartReceiver ==
    /\ Up /\ udp = "start"
    /\ udp' = "loop" /\ consumer' = "run" /\ metrics' = "start"
    /\ UNCHANGED <<engine, gateway, backlog, conn, peer>>

\* A socket, a port or a journal it cannot have: it returns 1, and the engine
\* runs on.  An exception is caught by the thread and stops the engine.
ReceiverFails ==
    /\ Up /\ udp = "start"
    /\ udp' = "done"
    /\ stop' \in {stop, TRUE}
    /\ UNCHANGED <<process, signals, metrics_port, main, consumer, gateway, server>>

\* Once the consumer runs an exception meets a joinable thread: terminate.
ReceiverThrows ==
    /\ Up /\ udp = "loop"
    /\ process' = "aborted"
    /\ UNCHANGED <<stop, signals, metrics_port, main, feed, gateway, server>>

\* the receive calls time out, so the flag is seen
LeaveLoop ==
    /\ Up /\ udp = "loop" /\ stop
    /\ udp' = "join_consumer"
    /\ UNCHANGED <<engine, consumer, gateway, server>>

JoinConsumer ==
    /\ Up /\ udp = "join_consumer" /\ consumer = "done"
    /\ udp' = "join_metrics"
    /\ UNCHANGED <<engine, consumer, gateway, server>>

\* Bug for a mutation run: the server is left to itself.
DetachMetrics ==
    /\ Up /\ udp = "join_metrics"
    /\ udp' = "done"
    /\ UNCHANGED <<engine, consumer, gateway, server>>

JoinMetrics ==
    /\ Up /\ udp = "join_metrics" /\ metrics \in {"done", "failed"}
    /\ udp' = "done"
    /\ UNCHANGED <<engine, consumer, gateway, server>>

Receiver == StartReceiver \/ LeaveLoop \/ JoinConsumer \/ JoinMetrics

ConsumerLeaves ==
    /\ Up /\ consumer = "run" /\ stop
    /\ consumer' = "done"
    /\ UNCHANGED <<engine, udp, gateway, server>>

-----------------------------------------------------------------------------
(* run_execution_gateway *)

GatewayStep(guard, to) ==
    /\ Up /\ guard
    /\ gw' = to
    /\ UNCHANGED <<engine, feed, gw_poked, server>>

StartGateway == GatewayStep(gw = "start", IF stop THEN "done" ELSE "accept")

\* no port, or an error of accept
GatewayFails == GatewayStep(gw \in {"start", "accept"}, "done")

GatewayWoken == GatewayStep(gw = "accept" /\ gw_poked, "done")

\* a client of the gateway, too, ends the accept that the stop has caught
GatewayVisited == GatewayStep(gw = "accept" /\ stop, "done")

\* A handler thread that cannot be created: the exception takes the manager,
\* skips close(srv) and stops the engine.
GatewayThrows ==
    /\ Up /\ gw = "accept"
    /\ gw' = "leaked"
    /\ stop' = TRUE
    /\ UNCHANGED <<process, signals, metrics_port, main, feed, gw_poked, server>>

-----------------------------------------------------------------------------
(* metrics_server *)

NextAccept == IF stop THEN "done" ELSE "accept"

Listen ==
    /\ Up /\ metrics = "start"
    /\ metrics' = NextAccept
    /\ UNCHANGED <<engine, feed, gateway, backlog, conn, peer>>

\* no port, or an error of accept
ServerFails ==
    /\ Up /\ metrics \in {"start", "accept"}
    /\ metrics' = "failed"
    /\ UNCHANGED <<engine, feed, gateway, backlog, conn, peer>>

Accept ==
    /\ Up /\ metrics = "accept" /\ backlog # <<>>
    /\ conn' = Head(backlog) /\ backlog' = Tail(backlog)
    /\ metrics' = "recv"
    /\ UNCHANGED <<engine, feed, gateway, peer>>

Silent(c) == c \in Peer /\ peer[c] = "silent"

\* Bug for a mutation run: the end of the stream ends the server.
ReceiveOrLeave ==
    /\ Up /\ metrics = "recv" /\ ~Silent(conn)
    /\ IF conn \in Peer /\ peer[conn] = "left"
       THEN metrics' = "done" /\ conn' = NoPeer
       ELSE metrics' = "send" /\ UNCHANGED conn
    /\ UNCHANGED <<engine, feed, gateway, backlog, peer>>

\* whatever recv returns, the page is built and sent
Receive ==
    /\ Up /\ metrics = "recv" /\ ~Silent(conn)
    /\ metrics' = "send"
    /\ UNCHANGED <<engine, feed, gateway, backlog, conn, peer>>

\* Bug for a mutation run: the connection is not closed.
SendKeepsOpen ==
    /\ Up /\ metrics = "send"
    /\ metrics' = NextAccept
    /\ UNCHANGED <<engine, feed, gateway, backlog, conn, peer>>

\* to a client that left, the send may raise SIGPIPE
SendPage ==
    /\ Up /\ metrics = "send"
    /\ process' \in IF conn \in Peer /\ peer[conn] = "left"
                    THEN {"up", "killed_by_send"} ELSE {"up"}
    /\ peer' = [p \in Peer |-> IF p = conn /\ peer[p] # "left" THEN "answered" ELSE peer[p]]
    /\ conn' = NoPeer
    /\ metrics' = NextAccept
    /\ UNCHANGED <<stop, signals, metrics_port, main, feed, gateway, backlog>>

MetricsServer == Listen \/ Accept \/ Receive \/ SendPage

-----------------------------------------------------------------------------
(* Clients of the metrics server *)

Connect(p) ==
    /\ Up /\ peer[p] = "away" /\ Listening
    /\ peer' = [peer EXCEPT ![p] = "silent"]
    /\ backlog' = Append(backlog, p)
    /\ UNCHANGED <<engine, feed, gateway, metrics, conn>>

Behave(p, to) ==
    /\ Up
    /\ peer' = [peer EXCEPT ![p] = to]
    /\ UNCHANGED <<engine, feed, gateway, metrics, backlog, conn>>

Ask(p)   == peer[p] = "silent" /\ Behave(p, "asked")
Leave(p) == peer[p] \in {"silent", "asked"} /\ Behave(p, "left")

-----------------------------------------------------------------------------
Next == \/ Interrupt \/ Main \/ Receiver \/ ReceiverFails \/ ReceiverThrows
        \/ ConsumerLeaves
        \/ StartGateway \/ GatewayFails \/ GatewayWoken \/ GatewayVisited \/ GatewayThrows
        \/ MetricsServer \/ ServerFails
        \/ \E p \in Peer : Connect(p) \/ Ask(p) \/ Leave(p)

Spec == Init /\ [][Next]_vars

\* Every thread runs unless it is blocked.  Failures and clients come as they
\* like, and nobody has to ask for a stop.
Fairness ==
    /\ WF_vars(Main) /\ WF_vars(Receiver) /\ WF_vars(ConsumerLeaves)
    /\ WF_vars(StartGateway \/ GatewayWoken) /\ WF_vars(MetricsServer)

FairSpec == Spec /\ Fairness

-----------------------------------------------------------------------------
(* Properties *)

\* The type invariant; the metrics server has a connection in hand exactly
\* between its accept and its close.
TypeOK ==
    /\ stop \in BOOLEAN /\ signals \in 0 .. MaxSignals /\ metrics_port \in Ports
    /\ process \in {"up", "exited", "aborted", "killed_by_poke", "killed_by_send"}
    /\ main \in {"wait", "poke_gateway", "poke_metrics", "join_udp", "join_gateway",
                 "returned"}
    /\ udp \in {"start", "loop", "join_consumer", "join_metrics", "done"}
    /\ consumer \in {"none", "run", "done"}
    /\ gw \in {"start", "accept", "done", "leaked"} /\ gw_poked \in BOOLEAN
    /\ metrics \in {"none", "start", "accept", "recv", "send", "done", "failed"}
    /\ backlog \in Seq(Peer \cup {Poke})
    /\ peer \in [Peer -> {"away", "silent", "asked", "answered", "left"}]
    /\ conn \in Peer \cup {Poke, NoPeer}
    /\ (conn # NoPeer) <=> (metrics \in {"recv", "send"})

\* The queue is a local of run_udp_receiver; the consumer pops from it and the
\* metrics server reads its size through g_queue_ptr, which is never reset.  The
\* arguments of the services are locals of main, and its return destroys the
\* static book.  Neither function returns while a thread that it joins may still
\* use these, whether a service ran, could not start or ended early.  The
\* gateway's handlers are detached and joined by nobody: this says nothing of
\* them (Gateway has them).
FramesOutliveThreads ==
    /\ udp = "done" => consumer # "run" /\ metrics \in {"none", "done", "failed"}
    /\ process = "exited" => udp = "done" /\ gw \in {"done", "leaked"}

\* the metrics server waits for a client that says nothing
Held == metrics = "recv" /\ Silent(conn)

\* A stop ends the engine: no thread sleeps through it, unless a client holds
\* the metrics server, or the port to poke is not the server's.
StopEnds == metrics_port = server_port /\ []<>~Held => (stop ~> ~Up)

\* A client that has sent its request is answered while the server is there
\* and nobody holds it.
ScrapesAnswered ==
    []<>~Held =>
      \A p \in Peer : peer[p] = "asked" ~> \/ peer[p] # "asked"
                                           \/ stop \/ ~Up \/ metrics = "failed"

\* "try connet and ignore error" (engine.cpp:52): a poke that finds nobody
\* does no harm.
RefusedPokeIgnored == process # "killed_by_poke"
=============================================================================
