------------------------------ MODULE Servers ------------------------------
(***************************************************************************)
(* The life of the two processes: main of backend/src/main.rs and of       *)
(* frontend/src/main.rs, and the start function of every server they run.  *)
(* main sets up what the servers share, spawns a task per server and waits *)
(* for a signal or for the first server that ends by itself.  It then asks *)
(* all of them to end, joins their tasks and shuts down the runtime.       *)
(*                                                                         *)
(* A server either listens for requests, which it finishes before it ends, *)
(* or waits beside a child task that loops for ever.  The child of a       *)
(* server that has ended is detached, not cancelled: it goes on until the  *)
(* runtime is shut down.                                                   *)
(***************************************************************************)
EXTENDS Naturals, Sequences

VARIABLES
    binary,         \* "backend" or "frontend"
    configured,     \* the optional parts that the configuration names
    setup,          \* what main still has to set up
    main,           \* where main is
    signalled,      \* SIGINT or SIGTERM was received
    canceller,      \* the number of messages in the channel to wait_for_signal
    receiving,      \* the receiver of that channel exists
    server,         \* where the task of each server is
    ender,          \* the servers that were asked to end
    child,          \* the child task of a server
    requests,       \* the requests a listener is handling
    packet_server   \* whether the Sfu refers to the packet server

servers_vars == <<binary, configured, setup, main, signalled, canceller, receiving, server, ender,
                  child, requests, packet_server>>

ServersOf(b) == IF b = "backend" THEN {"signaling", "packet", "metrics", "lifecycle"}
                ELSE {"api", "internal", "cleaner", "metrics", "identity"}
AllServers   == ServersOf("backend") \cup ServersOf("frontend")
Servers      == ServersOf(binary)

\* What main does before it spawns the servers; each of it may fail.  The backend reads
\* certificates only for TLS, and only with a storage endpoint, which is for testing, does the
\* frontend do without an identity token.
BackendSetup  == {<<"certificates", "sfu", "runtime">>, <<"sfu", "runtime">>}
FrontendSetup == {<<"runtime", "authenticator", "zkparams">> \o token \o <<"storage", "backend">> :
                     token \in {<<"identity token">>, <<>>}}

ServersInit ==
    /\ binary \in {"backend", "frontend"}
    /\ configured \in SUBSET IF binary = "backend" THEN {"datadog"}
                             ELSE {"datadog", "internal port"}
    /\ setup \in IF binary = "backend" THEN BackendSetup ELSE FrontendSetup
    /\ main = "setup"
    /\ signalled = FALSE /\ canceller = 0 /\ receiving = TRUE
    /\ server = [s \in AllServers |-> "none"]
    /\ ender = {}
    /\ child = [s \in AllServers |-> "none"]
    /\ requests = [s \in AllServers |-> 0]
    /\ packet_server = FALSE
------------------------------------------------------------------------------
(* main.                                                                   *)

SetUp ==
    /\ main = "setup" /\ setup # <<>>
    /\ \/ setup' = Tail(setup) /\ UNCHANGED main
       \/ main' = "failed" /\ UNCHANGED setup
    /\ UNCHANGED <<binary, configured, signalled, canceller, receiving, server, ender, child,
                   requests, packet_server>>

SpawnServers ==
    /\ main = "setup" /\ setup = <<>>
    /\ main' = "waiting"
    /\ server' = [s \in AllServers |-> IF s \in Servers THEN "starting" ELSE "none"]
    /\ UNCHANGED <<binary, configured, setup, signalled, canceller, receiving, ender, child,
                   requests, packet_server>>

Signal ==
    /\ main = "waiting" /\ ~signalled
    /\ signalled' = TRUE
    /\ UNCHANGED <<binary, configured, setup, main, canceller, receiving, server, ender, child,
                   requests, packet_server>>

Finished(s) == server[s] \in {"gone", "panicked"}

\* recv answers None when every sender is gone.
Woken == signalled \/ canceller > 0 \/ \A s \in Servers : Finished(s)

\* wait_for_signal returns, and with it goes the receiver; every server is asked to end.
Wake ==
    /\ main = "waiting" /\ Woken
    /\ main' = "ending" /\ ender' = Servers
    /\ receiving' = FALSE /\ canceller' = 0
    /\ UNCHANGED <<binary, configured, setup, signalled, server, child, requests, packet_server>>

\* Seeded fault: the tasks of the servers are not joined.
JoinNone ==
    /\ main = "ending"
    /\ main' = "joined"
    /\ UNCHANGED <<binary, configured, setup, signalled, canceller, receiving, server, ender,
                   child, requests, packet_server>>

JoinServers ==
    /\ main = "ending"
    /\ \A s \in Servers : Finished(s)
    /\ main' = "joined"
    /\ UNCHANGED <<binary, configured, setup, signalled, canceller, receiving, server, ender,
                   child, requests, packet_server>>

\* shutdown_timeout drops the child tasks, and does not wait for the packet threads.
Exit ==
    /\ main = "joined"
    /\ main' = "exited"
    /\ child' = [s \in AllServers |-> "none"]
    /\ UNCHANGED <<binary, configured, setup, signalled, canceller, receiving, server, ender,
                   requests, packet_server>>
------------------------------------------------------------------------------
(* The servers.                                                            *)

Listeners  == {"signaling", "api", "internal"}
Listens(s) == s \in Listeners /\ (s = "internal" => "internal port" \in configured)

\* signaling_server, http_server, api, internal_api: the address may be taken.
Listen(s, bound) ==
    /\ server' = [server EXCEPT ![s] = IF bound THEN "running" ELSE "ended"]
    /\ UNCHANGED <<child, packet_server>>

\* packet_server: its sockets may not be had.
StartPackets(made) ==
    /\ server' = [server EXCEPT !["packet"] = IF made THEN "running" ELSE "ended"]
    /\ child' = [child EXCEPT !["packet"] = IF made THEN "running" ELSE "none"]
    /\ packet_server' = made

\* The metrics of either process.  A host of Datadog that cannot be resolved panics; without
\* one the backend has nothing to do and the frontend clears its metrics.
StartMetrics(resolved) ==
    /\ server' = [server EXCEPT !["metrics"] =
                     IF "datadog" \in configured /\ ~resolved THEN "panicked" ELSE "running"]
    /\ child' = [child EXCEPT !["metrics"] =
                     IF IF "datadog" \in configured THEN resolved ELSE binary = "frontend"
                     THEN "running" ELSE "none"]
    /\ UNCHANGED packet_server

\* call_lifecycle, the cleaner and the identity fetcher; the cleaner connects first.
StartTask(s, connected) ==
    /\ s = "cleaner" \/ connected
    /\ server' = [server EXCEPT ![s] = IF connected THEN "running" ELSE "ended"]
    /\ child' = [child EXCEPT ![s] = IF connected THEN "running" ELSE "none"]
    /\ UNCHANGED packet_server

Start(s, succeeds) ==
    /\ server[s] = "starting"
    /\ \/ Listens(s) /\ Listen(s, succeeds)
       \/ s = "packet" /\ StartPackets(succeeds)
       \/ s = "metrics" /\ StartMetrics(succeeds)
       \/ s \in {"lifecycle", "cleaner", "identity"} /\ StartTask(s, succeeds)
       \/ /\ s = "internal" /\ ~Listens(s) /\ succeeds      \* only waits to be ended
          /\ server' = [server EXCEPT ![s] = "running"] /\ UNCHANGED <<child, packet_server>>
    /\ UNCHANGED <<binary, configured, setup, main, signalled, canceller, receiving, ender,
                   requests>>

\* A child task or packet thread panics, or breaks out of its loop.  What becomes of the
\* child of a server that has ended concerns nobody.
ChildEnds(s) ==
    /\ child[s] = "running" /\ server[s] = "running"
    /\ child' = [child EXCEPT ![s] = "ended"]
    /\ UNCHANGED <<binary, configured, setup, main, signalled, canceller, receiving, server,
                   ender, requests, packet_server>>

\* A listener takes no more requests once it is asked to end.
Request(s) ==
    /\ server[s] = "running" /\ Listens(s) /\ requests[s] = 0
    /\ requests' = [requests EXCEPT ![s] = 1]
    /\ UNCHANGED <<binary, configured, setup, main, signalled, canceller, receiving, server,
                   ender, child, packet_server>>

Respond(s) ==
    /\ requests[s] = 1
    /\ requests' = [requests EXCEPT ![s] = 0]
    /\ UNCHANGED <<binary, configured, setup, main, signalled, canceller, receiving, server,
                   ender, child, packet_server>>

\* Seeded fault: a listener ends with requests unanswered.
EndAtOnce(s) ==
    /\ server[s] = "running"
    /\ s \in ender \/ child[s] = "ended"
    /\ server' = [server EXCEPT ![s] = "ended"]
    /\ packet_server' = (packet_server /\ s # "packet")
    /\ UNCHANGED <<binary, configured, setup, main, signalled, canceller, receiving, ender, child,
                   requests>>

\* The select of a start function: the ender, or the child task that ended; with_graceful_
\* shutdown of a listener.  The packet server takes itself out of the Sfu.
End(s) ==
    /\ server[s] = "running"
    /\ s \in ender \/ child[s] = "ended"
    /\ server' = [server EXCEPT ![s] = IF Listens(s) THEN "draining" ELSE "ended"]
    /\ packet_server' = (packet_server /\ s # "packet")
    /\ UNCHANGED <<binary, configured, setup, main, signalled, canceller, receiving, ender, child,
                   requests>>

Drained(s) ==
    /\ server[s] = "draining" /\ requests[s] = 0
    /\ server' = [server EXCEPT ![s] = "ended"]
    /\ UNCHANGED <<binary, configured, setup, main, signalled, canceller, receiving, ender, child,
                   requests, packet_server>>

\* Seeded fault: a server that ends by itself does not tell main.
ReportNothing(s) ==
    /\ server[s] = "ended"
    /\ server' = [server EXCEPT ![s] = "gone"]
    /\ UNCHANGED <<binary, configured, setup, main, signalled, canceller, receiving, ender, child,
                   requests, packet_server>>

\* signal_canceller_tx.send: waits for room in the channel of one message, and fails when
\* there is no receiver.
Report(s) ==
    /\ server[s] = "ended"
    /\ receiving => canceller = 0
    /\ canceller' = IF receiving THEN 1 ELSE canceller
    /\ server' = [server EXCEPT ![s] = "gone"]
    /\ UNCHANGED <<binary, configured, setup, main, signalled, receiving, ender, child, requests,
                   packet_server>>

Over == main \in {"failed", "exited"} /\ UNCHANGED servers_vars

ServersNext ==
    \/ SetUp \/ SpawnServers \/ Signal \/ Wake \/ JoinServers \/ Exit
    \/ \E s \in Servers : \/ \E b \in BOOLEAN : Start(s, b)
                          \/ End(s) \/ Drained(s) \/ Report(s)
                          \/ Request(s) \/ Respond(s) \/ ChildEnds(s)
    \/ Over

\* The steps of main and of a server's task that stay possible until they are taken.
MainCanGo == \/ main \in {"setup", "joined"}
             \/ main = "waiting" /\ Woken
             \/ main = "ending" /\ \A s \in Servers : Finished(s)
TaskCanGo(s) == \/ server[s] = "starting"
                \/ server[s] = "running" /\ (s \in ender \/ child[s] = "ended")
                \/ server[s] = "draining" /\ requests[s] = 0
                \/ server[s] = "ended" /\ (receiving => canceller = 0)

\* main and the servers' tasks are scheduled, and a request is answered: weak fairness of their
\* steps, in terms of states.
ServersFairness ==
    /\ []<>~MainCanGo
    /\ \A s \in AllServers : []<>~TaskCanGo(s)
    /\ \A s \in Listeners : []<>(requests[s] = 0)

ServersSpec == ServersInit /\ [][ServersNext]_servers_vars /\ ServersFairness
------------------------------------------------------------------------------
(* Properties.                                                             *)

\* "Gracefully exit the servers if needed" (main.rs of both): after a signal, or once a server
\* has ended by itself, the process exits, whichever servers end at the same time.
EndingsEndTheProcess ==
    (signalled \/ \E s \in AllServers : server[s] \in {"ended", "gone"}) ~> main = "exited"

\* "Wait for the servers to exit": the process does not exit with a request unanswered, or
\* while the Sfu refers to a packet server.
ExitIsOrderly ==
    main = "exited" => packet_server = FALSE /\ \A s \in AllServers : requests[s] = 0
=============================================================================
