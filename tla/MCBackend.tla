----------------------------- MODULE MCBackend ------------------------------
(***************************************************************************)
(* Small instances of what surrounds the calls of a backend: the tables of *)
(* the SFU with two packet workers (Sfu); the HTTP handlers on top of them *)
(* (Signaling), when every join has a demux ID of its own and when two     *)
(* collide; and the metrics of both processes (MetricsPipeline).  The      *)
(* parts share no variable; a behaviour is one of one part.                *)
(***************************************************************************)
EXTENDS Sfu, Sequences, TLC

CONSTANTS Parts, c1, d1, d2, a1, j1, j2, w1, w2, t1, m1, m2, p1, p2

VARIABLES
    part,
    \* Signaling, with the tables of an Sfu of its own
    calls, clients, connections, names, addresses, silent, vanished, joined, halfway, handler,
    testing, request, answer, in_call, admin, client_status, reader, reads, ever, always,
    \* MetricsPipeline
    reporting, enabled, lazy, registered, sample_interval, event_counter, since, thread,
    reporter, events, samples, meanwhile,
    lines, buffer, sent, made,
    counts, latencies, process, begun, served, reported, timed

signaling_vars == <<calls, clients, connections, names, addresses, silent, vanished, joined,
                    halfway, handler, testing, request, answer, in_call, admin, client_status,
                    reader, reads, ever, always>>
timer_vars     == <<reporting, enabled, lazy, registered, sample_interval, event_counter, since,
                    thread, reporter, events, samples, meanwhile>>
line_vars      == <<lines, buffer, sent, made>>
request_vars   == <<counts, latencies, process, begun, served, reported, timed>>
metrics_vars   == <<timer_vars, line_vars, request_vars>>

OneCall     == {c1}
OneAddress  == {a1}
TwoDevices  == {d1, d2}
TwoJoins    == {j1, j2}
OneWorker   == {w1}
TwoWorkers  == {w1, w2}
OwnDemuxIds == [j \in Joins |-> IF j = j1 THEN <<c1, d1>> ELSE <<c1, d2>>]
OneDemuxId  == [j \in Joins |-> <<c1, d1>>]

\* A request that is right, one with an uncompressed key, and ones with a mistake.
Compressed == [hex |-> TRUE, digits |-> 66, first |-> 2]
Right      == [room |-> TRUE, call |-> TRUE, demux |-> TRUE, user |-> TRUE, hkdf |-> TRUE,
               key |-> Compressed]
SomeRequests ==
    {Right, [Right EXCEPT !.user = FALSE], [Right EXCEPT !.hkdf = FALSE],
     [Right EXCEPT !.key = [hex |-> TRUE, digits |-> 130, first |-> 4]],
     [Right EXCEPT !.key = [hex |-> TRUE, digits |-> 130, first |-> 2]]}

\* Health and metrics are asked for only when every join has its own demux ID; joins fail
\* half-way, requests have all mistakes and http_server runs only when they collide.
Apart == INSTANCE Signaling WITH
    call_by_call_id <- calls, members <- clients, connection_by_id <- connections,
    usernames <- names, connection_id_by_address <- addresses, quiet <- silent, gone <- vanished,
    asked <- joined, failed <- halfway, worker <- handler,
    Workers <- {w1}, Requests <- {Right, [Right EXCEPT !.user = FALSE]}, Reads <- 1,
    CryptoFails <- FALSE

Colliding == INSTANCE Signaling WITH
    call_by_call_id <- calls, members <- clients, connection_by_id <- connections,
    usernames <- names, connection_id_by_address <- addresses, quiet <- silent, gone <- vanished,
    asked <- joined, failed <- halfway, worker <- handler,
    Workers <- {w1}, Requests <- SomeRequests, Reads <- 0, ConnIdOf <- OneDemuxId

Kind(api, path, method, create, agent) ==
    [api |-> api, path |-> path, method |-> method, create |-> create, agent |-> agent]
SomeKinds ==
    {Kind("api", "/v1/call-link", "put", TRUE, <<"Signal-iOS">>),
     Kind("api", "/v1/call-link", "put", FALSE, <<"Signal-Desktop", "macOS">>),
     Kind("api", "/v2/", "get", FALSE, <<"Signal-Android">>),
     Kind("api", "/v2/", "put", FALSE, <<"missing">>),
     Kind("internal", "/v2/conference/", "delete", FALSE, <<"missing">>)}

\* Eight events are enough for two reports of four events each, twice what is aimed at with one
\* sample and one thread.  Lines are shorter than a datagram, as long and longer.
Metrics == INSTANCE MetricsPipeline WITH
    Threads <- {t1}, TargetSampleRate <- 1, MaxEvents <- 8, MaxReports <- 2, Off <- None,
    MaxUdpSize <- 5, Lengths <- {1, 2, 3, 5, 6}, Histograms <- {m1, m2}, MaxValues <- 2,
    Processes <- {p1, p2}, Kinds <- SomeKinds, Statuses <- {"200", "404"}, MaxRequests <- 3

\* A part that is not looked at does nothing.
MCInit ==
    /\ part \in Parts
    /\ Init
    /\ Apart!SignalingInit
    /\ part # "collisions" => ~testing
    /\ Metrics!TimersInit
    /\ part # "timers" => ~reporting
    /\ IF part = "datagrams" THEN Metrics!DatagramsInit
       ELSE lines = <<>> /\ buffer = <<>> /\ sent = <<>> /\ made = <<>>
    /\ Metrics!RequestsInit

MCNext ==
    /\ UNCHANGED part
    /\ \/ /\ part = "sfu" /\ Next
          /\ UNCHANGED <<signaling_vars, metrics_vars>>
       \/ /\ \/ part = "signaling" /\ Apart!SignalingNext
             \/ part = "collisions" /\ Colliding!SignalingNext
          /\ UNCHANGED <<vars, metrics_vars>>
       \/ /\ \/ /\ part = "timers" /\ Metrics!TimersNext
                /\ UNCHANGED <<line_vars, request_vars>>
             \/ /\ part = "datagrams" /\ Metrics!DatagramsNext
                /\ UNCHANGED <<timer_vars, request_vars>>
             \/ /\ part = "requests" /\ Metrics!RequestsNext
                /\ UNCHANGED <<timer_vars, line_vars>>
          /\ UNCHANGED <<vars, signaling_vars>>

\* The fairness of Sfu, in terms of states: a step that stays possible until it
\* is taken does not stay possible for ever.
MCFairness ==
    /\ \A w \in Workers : []<>(worker[w] = Idle)
    /\ []<>(Expired(TRUE) = {} /\ Over(TRUE, CallIds) = {})
    /\ \A j \in Joins : []<>(j \in gone => j \in quiet)

MCSpec == /\ MCInit
          /\ [][MCNext]_<<part, vars, signaling_vars, metrics_vars>>
          /\ MCFairness

\* The tables of the SFU alone, under the fairness of Sfu.
FailedJoinSpec == /\ MCInit
                  /\ [][MCNext]_<<part, vars, signaling_vars, metrics_vars>>
                  /\ Fairness
------------------------------------------------------------------------------
\* Of Signaling, with distinct and with colliding demux IDs: the first to join is admin, a
\* health answer counts every client that was there all the time and none that never was, and
\* statistics leave out only connections that are on their way out (signaling_server.rs,
\* http_server.rs, Sfu::get_stats); a join is answered with 200 if and only if its client has a
\* connection, and when it is refused nothing has changed (join of signaling_server.rs,
\* join_conference).
AnswersAreOfTheMoment ==
    /\ [](/\ part = "signaling"  => /\ Apart!AdminsAreCreators /\ Apart!HealthIsOfTheMoment
                                    /\ Apart!SkippedConnectionsLeave
          /\ part = "collisions" => /\ Colliding!AdminsAreCreators
                                    /\ Colliding!SkippedConnectionsLeave)
    /\ [][/\ part = "signaling"  => Apart!AnswersFit
          /\ part = "collisions" => Colliding!AnswersFit]_signaling_vars

\* Of MetricsPipeline: every event is in one report and as many are measured as are aimed at
\* (reporter.rs), the datagrams hold every line once and fit (datadog_statsd.rs), and the
\* counts of requests add up in every breakdown (api.rs, internal_api.rs, metrics.rs).
MetricsAddUp ==
    /\ part = "timers"    => Metrics!EventsAreReportedOnce /\ Metrics!SamplesFollowTheTarget
    /\ part = "datagrams" => Metrics!DatagramsFit /\ Metrics!LinesAreSent
    /\ part = "requests"  => Metrics!CountsAddUp /\ Metrics!BreakdownsAddUp
=============================================================================
