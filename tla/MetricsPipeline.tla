-------------------------- MODULE MetricsPipeline ---------------------------
(***************************************************************************)
(* The metrics of the two processes, in three machines that share nothing. *)
(*                                                                         *)
(* Timers: one metric and the threads around it, metrics/macros.rs and     *)
(* metrics/reporter.rs of the backend, of which the frontend has a copy.   *)
(* The first thread to come by a metric registers its reporter.  Threads   *)
(* count events, and of every sample_interval of them measure one, with    *)
(* atomic variables and a short lock for the histogram.  Every minute the  *)
(* metrics server takes a report and sets the interval so that about       *)
(* target_sample_rate measurements are made in the next minute.  Without a *)
(* place to send the reports to, it disables all metrics instead.  The     *)
(* histogram is left out: a sample is pushed with the interval as its      *)
(* frequency, and only their number matters here.                          *)
(*                                                                         *)
(* Datagrams: one tick of the metrics server as it goes out, the lines it  *)
(* makes of the values, histograms and counts (metrics_server.rs), and how *)
(* the pipeline of the statsd client packs them into datagrams of a        *)
(* limited size (metrics/datadog_statsd.rs).  A line is a record of its    *)
(* kind, its metric and its length, which includes the tags.               *)
(*                                                                         *)
(* Requests: the middleware around every request of the frontend's two     *)
(* APIs (metrics and extra_call_link_metrics of api.rs, metrics of         *)
(* internal_api.rs) and the task that sends and resets what they gather    *)
(* (metrics.rs).  They share api_metrics, under its lock.  A client may    *)
(* hang up, which drops the handler of its request where it is.            *)
(***************************************************************************)
EXTENDS Integers, SequencesExt, FiniteSetsExt

CONSTANTS
    Threads,
    TargetSampleRate,   \* target_sample_rate
    MaxEvents,          \* bound: the events of a behaviour
    MaxReports,         \* bound: the reports of a behaviour
    Off                 \* usize::MAX, the interval of a disabled reporter

CONSTANTS
    MaxUdpSize,         \* max_udp_size
    Lengths,            \* the lengths a line can have
    Histograms,         \* the metrics with a histogram
    MaxValues           \* the most values in a histogram

CONSTANTS
    Processes,          \* the requests under way
    Kinds,              \* the requests: [api, path, method, create, agent]
    Statuses,           \* the answers
    MaxRequests         \* bound: the requests of a behaviour

VARIABLES
    reporting,          \* there is a place to send reports to
    enabled,            \* Metrics.enabled
    lazy,               \* the Lazy that holds the reporter
    registered,         \* the registry knows the reporter
    sample_interval, event_counter,
    since,              \* measurements_since_last_report
    thread,             \* where each thread is, with the interval it loaded
    reporter,           \* where the metrics server is, with what it loaded
    events,             \* history: the events counted in every report
    samples,            \* history: the samples of every report
    meanwhile           \* history: the events counted while a report was being taken

VARIABLES
    lines,              \* the lines of the tick that are not sent yet
    buffer,             \* the lines in the pipeline's buffer
    sent,               \* the datagrams
    made                \* history: the lines of the tick

VARIABLES
    counts, latencies,  \* api_metrics: by metric, the count and the number of latencies
    process,            \* where each request is
    begun, served,      \* history: the requests that began, and those metrics saw to the end
    reported, timed     \* history: the sums of what was sent

timers_vars    == <<reporting, enabled, lazy, registered, sample_interval, event_counter, since,
                    thread, reporter, events, samples, meanwhile>>
datagrams_vars == <<lines, buffer, sent, made>>
requests_vars  == <<counts, latencies, process, begun, served, reported, timed>>

------------------------------------------------------------------------------
(* Timers.                                                                 *)

Idle == [at |-> "idle", interval |-> Off]
Rest == [at |-> "rest", count |-> 0, interval |-> Off, initial |-> 0]

SinceLastReport(counter) == [initial_event_counter |-> counter, sample_count |-> 0]

TimersInit == /\ reporting \in BOOLEAN
        /\ enabled = TRUE /\ lazy = "none" /\ registered = FALSE
        /\ sample_interval = 1 /\ event_counter = 0
        /\ since = SinceLastReport(0)
        /\ thread = [t \in Threads |-> Idle]
        /\ reporter = Rest
        /\ events = <<>> /\ samples = <<>> /\ meanwhile = 0
------------------------------------------------------------------------------
(* A thread that comes by reporter!, start_timer or push.                  *)

\* create_and_register_timer makes the reporter and looks whether metrics are enabled ...
Create(t) ==
    /\ thread[t] = Idle /\ lazy = "none"
    /\ lazy' = "making"
    /\ sample_interval' = IF enabled THEN 1 ELSE Off
    /\ thread' = [thread EXCEPT ![t].at = "creating"]
    /\ UNCHANGED <<reporting, enabled, registered, event_counter, since, reporter, events,
                   samples, meanwhile>>

\* ... and registers it when it has the lock of the registry, which a report holds.
Register(t) ==
    /\ thread[t].at = "creating" /\ reporter.at \in {"rest", "disabled"}
    /\ lazy' = "made" /\ registered' = TRUE
    /\ thread' = [thread EXCEPT ![t] = Idle]
    /\ UNCHANGED <<reporting, enabled, sample_interval, event_counter, since, reporter, events,
                   samples, meanwhile>>

\* sample loads the interval ...
Sample(t) ==
    /\ thread[t] = Idle /\ lazy = "made"
    /\ event_counter < MaxEvents /\ Len(events) < MaxReports
    /\ sample_interval # Off
    /\ thread' = [thread EXCEPT ![t] = [at |-> "sampling", interval |-> sample_interval]]
    /\ UNCHANGED <<reporting, enabled, lazy, registered, sample_interval, event_counter, since,
                   reporter, events, samples, meanwhile>>

\* ... counts the event and decides whether this is the one to measure.
Count(t) ==
    LET n == thread[t].interval
    IN  /\ thread[t].at = "sampling"
        /\ event_counter' = event_counter + 1
        /\ thread' = [thread EXCEPT ![t] = IF event_counter % n = n - 1
                                           THEN [@ EXCEPT !.at = "measuring"] ELSE Idle]
        /\ meanwhile' = IF reporter.at \in {"counted", "taken"} THEN meanwhile + 1 ELSE meanwhile
        /\ UNCHANGED <<reporting, enabled, lazy, registered, sample_interval, since, reporter,
                       events, samples>>

\* push_sample, of a value or when the timer is dropped.
PushSample(t) ==
    /\ thread[t].at = "measuring"
    /\ since' = [since EXCEPT !.sample_count = @ + 1]
    /\ thread' = [thread EXCEPT ![t] = Idle]
    /\ UNCHANGED <<reporting, enabled, lazy, registered, sample_interval, event_counter, reporter,
                   events, samples, meanwhile>>
------------------------------------------------------------------------------
(* The metrics server.                                                     *)

\* report loads the counter ...
LoadCount ==
    /\ reporting /\ reporter.at = "rest" /\ registered
    /\ Len(events) < MaxReports
    /\ reporter' = [reporter EXCEPT !.at = "counted", !.count = event_counter]
    /\ UNCHANGED <<reporting, enabled, lazy, registered, sample_interval, event_counter, since,
                   thread, events, samples, meanwhile>>

\* ... takes the measurements and starts new ones ...
\* (Seeded fault: from what was counted in the meantime on.)
TakeAnew ==
    /\ reporter.at = "counted"
    /\ since' = SinceLastReport(event_counter)
    /\ samples' = Append(samples, since.sample_count)
    /\ reporter' = [reporter EXCEPT !.at = "taken", !.initial = since.initial_event_counter,
                                !.interval = sample_interval]
    /\ UNCHANGED <<reporting, enabled, lazy, registered, sample_interval, event_counter, thread,
                   events, meanwhile>>

Take ==
    /\ reporter.at = "counted"
    /\ since' = SinceLastReport(reporter.count)
    /\ samples' = Append(samples, since.sample_count)
    /\ reporter' = [reporter EXCEPT !.at = "taken", !.initial = since.initial_event_counter,
                                !.interval = sample_interval]
    /\ UNCHANGED <<reporting, enabled, lazy, registered, sample_interval, event_counter, thread,
                   events, meanwhile>>

\* Seeded fault: the rate is of the samples, not of the events.
SameRate(actual_count, target_rate) == 1

calculate_sample_rate(actual_count, target_rate) ==
    LET rate == actual_count \div target_rate IN IF rate > 1 THEN rate ELSE 1

\* ... and sets the interval for the next minute.
Adjust ==
    LET counted == reporter.count - reporter.initial
    IN  /\ reporter.at = "taken"
        /\ events' = Append(events, counted)
        /\ sample_interval' = IF reporter.interval = Off THEN sample_interval
                              ELSE calculate_sample_rate(counted, TargetSampleRate)
        /\ reporter' = Rest
        /\ UNCHANGED <<reporting, enabled, lazy, registered, event_counter, since, thread,
                       samples, meanwhile>>

\* Metrics::disable sets the flag ...
ClearFlag ==
    /\ ~reporting /\ enabled
    /\ enabled' = FALSE
    /\ UNCHANGED <<reporting, lazy, registered, sample_interval, event_counter, since, thread,
                   reporter, events, samples, meanwhile>>

\* ... and then, with the lock, every reporter that is registered.
DisableAll ==
    /\ ~enabled /\ reporter.at = "rest"
    /\ sample_interval' = IF registered THEN Off ELSE sample_interval
    /\ reporter' = [reporter EXCEPT !.at = "disabled"]
    /\ UNCHANGED <<reporting, enabled, lazy, registered, event_counter, since, thread, events,
                   samples, meanwhile>>

Done == /\ \A t \in Threads : thread[t] = Idle
        /\ reporter.at \in {"rest", "disabled"}
        /\ UNCHANGED timers_vars

TimersNext ==
    \/ \E t \in Threads : Create(t) \/ Register(t) \/ Sample(t) \/ Count(t) \/ PushSample(t)
    \/ LoadCount \/ Take \/ Adjust \/ ClearFlag \/ DisableAll
    \/ Done

TimersSpec == TimersInit /\ [][TimersNext]_timers_vars
------------------------------------------------------------------------------
(* Properties.                                                             *)

\* Every event is counted in one report and in one only (report), although threads count
\* while the report is taken.
EventsAreReportedOnce ==
    reporter.at \in {"rest", "counted"} =>
        /\ FoldLeft(+, 0, events) = since.initial_event_counter
        /\ since.initial_event_counter <= event_counter

\* "The timer will adjust automatically to take this many from the second reporting period
\* onwards" (timing_options.rs): a period with at most as many events as the one before has
\* less than twice as many samples, apart from the events that threads were in the middle of or
\* that were counted while a report was being taken.
SamplesFollowTheTarget ==
    \A i \in 2 .. Len(events) :
        events[i] <= events[i - 1] =>
            samples[i] < 2 * (TargetSampleRate + Cardinality(Threads)) + meanwhile
------------------------------------------------------------------------------
(* Datagrams.                                                              *)

Line(kind, metric, length) == [kind |-> kind, metric |-> metric, length |-> length]

\* send_timer_histogram, send_count_histogram: every value with its frequency as the rate,
\* once for the aggregation of the agent and once as a distribution.
HistogramLines(metric, values, length) ==
    [i \in 1 .. 2 * values |-> Line(IF i % 2 = 1 THEN "timer" ELSE "distribution", metric, length)]

\* get_process_metrics leaves out what cannot be read.
ProcessMetrics == {"memory", "files", "cpu"}
GaugeLines(readable, length) ==
    [i \in 1 .. Cardinality(readable) |-> Line("gauge", "process", length)]

\* The loop of the tick: gauges, the reports of the timers, the counts of the events.
TickLines(readable, values, lengths) ==
    GaugeLines(readable, lengths["gauge"])
    \o FlattenSeq([i \in 1 .. Len(SetToSeq(Histograms)) |->
                      LET metric == SetToSeq(Histograms)[i]
                      IN  HistogramLines(metric, values[metric], lengths["timer"])])
    \o <<Line("count", "event", lengths["count"])>>

DatagramsInit ==
    /\ \E readable \in SUBSET ProcessMetrics, values \in [Histograms -> 0 .. MaxValues],
          lengths \in [{"gauge", "timer", "count"} -> Lengths] :
          lines = TickLines(readable, values, lengths)
    /\ buffer = <<>> /\ sent = <<>> /\ made = lines
------------------------------------------------------------------------------
\* The length of lines joined by line feeds.
Size(text) == IF text = <<>> THEN 0
              ELSE FoldLeft(LAMBDA n, l : n + l.length, Len(text) - 1, text)

\* Seeded fault: the line feed is forgotten.
FitsWithoutFeed(text, line) == Size(text) + line.length <= MaxUdpSize

\* Whether a line can wait in the buffer.
Fits(text, line) == Size(text) + line.length < MaxUdpSize

\* Seeded fault: the line that does not fit replaces what was waiting.
SendReplacing(line) ==
    IF line.length > MaxUdpSize THEN UNCHANGED <<buffer, sent>>
    ELSE IF ~Fits(buffer, line)
    THEN buffer' = <<line>> /\ UNCHANGED sent
    ELSE buffer' = Append(buffer, line) /\ UNCHANGED sent

\* PipelineSink::send.  What is buffered goes out when the next line might not fit, and a line
\* that is too long for any datagram is dropped.
Send(line) ==
    IF line.length > MaxUdpSize THEN UNCHANGED <<buffer, sent>>
    ELSE IF ~Fits(buffer, line)
    THEN buffer' = <<line>> /\ sent' = Append(sent, buffer)
    ELSE buffer' = Append(buffer, line) /\ UNCHANGED sent

SendNext == /\ lines # <<>>
            /\ Send(Head(lines))
            /\ lines' = Tail(lines)
            /\ UNCHANGED made

\* PipelineSink::flush, when the pipeline is dropped at the end of the tick.
Flush == /\ lines = <<>> /\ buffer # <<>>
         /\ sent' = Append(sent, buffer)
         /\ buffer' = <<>>
         /\ UNCHANGED <<lines, made>>

Packed == lines = <<>> /\ buffer = <<>> /\ UNCHANGED datagrams_vars

DatagramsNext == SendNext \/ Flush \/ Packed

DatagramsSpec == DatagramsInit /\ [][DatagramsNext]_datagrams_vars
------------------------------------------------------------------------------
(* Properties.                                                             *)

\* "512 is a safe minimum" (new_with_size): no datagram is longer than the limit, line feeds
\* included.
DatagramsFit == \A i \in DOMAIN sent : Size(sent[i]) <= MaxUdpSize

\* The pipeline only packs: at the end of the tick the datagrams hold the lines that can be
\* sent at all, each once and in order.
LinesAreSent ==
    lines = <<>> /\ buffer = <<>> =>
        FlattenSeq(sent) = SelectSeq(made, LAMBDA l : l.length <= MaxUdpSize)
------------------------------------------------------------------------------
(* Requests.  Metrics are named by the parts of their names.               *)

NoRequest == [at |-> "idle"]

ApiTag(path) == CASE path = "/v1/call-link" -> "call_links.v1"
                  [] path = "/v2/"          -> "v2"
                  [] OTHER                  -> "unknown"

CreateTag(path) == IF path = "/v1/call-link" THEN "call_links.v1" ELSE "unknown"

InternalTag(path) == CASE path = "/v1/call-link-approvals" -> "call_link_approvals"
                       [] path = "/v2/conference"          -> "conference_batch"
                       [] path = "/v2/conference/"         -> "conference"
                       [] OTHER                            -> "unknown"

user_agent_event_string(agent) ==
    CASE agent[1] = "Signal-iOS"     -> "ios"
      [] agent[1] = "Signal-Android" -> "android"
      [] agent[1] = "Signal-Desktop" ->
            (CASE agent[2] = "macOS"   -> "desktop.mac"
               [] agent[2] = "Windows" -> "desktop.windows"
               [] agent[2] = "Linux"   -> "desktop.linux"
               [] OTHER                -> "desktop.unknown")
      [] OTHER                       -> "unknown"

Metric(k) == <<k.api, IF k.api = "api" THEN ApiTag(k.path) ELSE InternalTag(k.path), k.method>>
AgentMetric(m, a) == m \o <<"user_agent", user_agent_event_string(a)>>

\* extra_call_link_metrics
CreateMetric(k) == <<"api", CreateTag(k.path), "create">>
Created(k, s)   == {Append(CreateMetric(k), s), AgentMetric(CreateMetric(k), k.agent)}

\* Seeded fault: the user agents are counted for every method.
ApiMetricsAlways(k, s) == {Metric(k), Append(Metric(k), s), AgentMetric(Metric(k), k.agent)}

\* metrics of api.rs: the method, the status and, for a PUT, the user agent.
ApiMetricsOf(k, s) ==
    {Metric(k), Append(Metric(k), s)}
    \cup IF k.method = "put" THEN {AgentMetric(Metric(k), k.agent)} ELSE {}

\* metrics of internal_api.rs
InternalMetricsOf(k, s) == {Metric(k), Append(Metric(k), s)}

MetricsOf(k, s) == IF k.api = "api" THEN ApiMetricsOf(k, s) ELSE InternalMetricsOf(k, s)
AllMetrics == UNION {MetricsOf(k, s) \cup Created(k, s) : k \in Kinds, s \in Statuses}
------------------------------------------------------------------------------
RequestsInit == /\ counts = [m \in AllMetrics |-> 0]
        /\ latencies = [m \in {Metric(k) : k \in Kinds} |-> 0]
        /\ process = [p \in Processes |-> NoRequest]
        /\ begun = 0 /\ served = 0
        /\ reported = counts /\ timed = latencies

\* or_insert(1), or saturating_add.
Counted(metrics) == [m \in DOMAIN counts |-> counts[m] + IF m \in metrics THEN 1 ELSE 0]

\* get_user_agent: a request for the API without a user agent is refused before anything is
\* measured.
Measurable(k) == k.api = "api" => k.agent # <<"missing">>

Begin(p, k) ==
    /\ process[p] = NoRequest
    /\ begun < MaxRequests /\ begun' = begun + 1
    /\ process' = IF Measurable(k)
                  THEN [process EXCEPT ![p] = [at |-> "running", kind |-> k]] ELSE process
    /\ UNCHANGED <<counts, latencies, served, reported, timed>>

\* The handler answers.  extra_call_link_metrics, which is inside metrics, breaks out the PUTs
\* with a credential to create a call link, under the lock but not together with metrics.
Answer(p, s) ==
    LET k == process[p].kind
    IN  /\ process[p].at = "running"
        /\ process' = [process EXCEPT ![p] = [at |-> "answered", kind |-> k, status |-> s]]
        /\ counts' = IF k.create /\ k.method = "put" THEN Counted(Created(k, s)) ELSE counts
        /\ UNCHANGED <<latencies, begun, served, reported, timed>>

\* metrics, after the response.
Measure(p) ==
    LET k == process[p].kind
    IN  /\ process[p].at = "answered"
        /\ counts' = Counted(MetricsOf(k, process[p].status))
        /\ latencies' = [latencies EXCEPT ![Metric(k)] = @ + 1]
        /\ served' = served + 1
        /\ process' = [process EXCEPT ![p] = NoRequest]
        /\ UNCHANGED <<begun, reported, timed>>

HangUp(p) ==
    /\ process[p] # NoRequest
    /\ process' = [process EXCEPT ![p] = NoRequest]
    /\ UNCHANGED <<counts, latencies, begun, served, reported, timed>>

Plus(f, g) == [m \in DOMAIN f |-> f[m] + g[m]]
Zero(f)    == [m \in DOMAIN f |-> 0]

\* Seeded fault: the latencies are sent again.
TickKeepingLatencies ==
    /\ reported' = Plus(reported, counts) /\ timed' = Plus(timed, latencies)
    /\ counts' = Zero(counts)
    /\ UNCHANGED <<latencies, process, begun, served>>

\* The tick sends what was gathered and sets it to zero, with the lock held throughout.
Tick ==
    /\ reported' = Plus(reported, counts) /\ timed' = Plus(timed, latencies)
    /\ counts' = Zero(counts) /\ latencies' = Zero(latencies)
    /\ UNCHANGED <<process, begun, served>>

RequestsNext == \/ \E p \in Processes : \/ \E k \in Kinds : Begin(p, k)
                                \/ \E s \in Statuses : Answer(p, s)
                                \/ Measure(p) \/ HangUp(p)
        \/ Tick

RequestsSpec == RequestsInit /\ [][RequestsNext]_requests_vars
------------------------------------------------------------------------------
(* Properties.                                                             *)

Total(m) == IF m \in DOMAIN counts THEN reported[m] + counts[m] ELSE 0
Agents == {k.agent : k \in Kinds}
ByStatus(m) == MapThenSumSet(LAMBDA s : Total(Append(m, s)), Statuses)
ByAgent(m)  == MapThenSumSet(Total, {AgentMetric(m, a) : a \in Agents})

\* Every request that metrics saw to its end is in the count of its method, in one status and
\* in the latencies once, whatever ticks come in between (metrics of api.rs and internal_api.rs).
CountsAddUp ==
    /\ \A m \in DOMAIN latencies : Total(m) = timed[m] + latencies[m] /\ Total(m) = ByStatus(m)
    /\ served = MapThenSumSet(Total, DOMAIN latencies)

\* "We only collect user_agent metrics for PUT (i.e. join)" (api.rs): the user agents of the
\* API add up to its PUTs.  The attempts to create a call link, which extra_call_link_metrics
\* breaks out of them, are as many by status as by user agent.
BreakdownsAddUp ==
    \A k \in Kinds :
        /\ ByAgent(Metric(k)) = IF k.api = "api" /\ k.method = "put" THEN Total(Metric(k)) ELSE 0
        /\ ByAgent(CreateMetric(k)) = ByStatus(CreateMetric(k))
=============================================================================
