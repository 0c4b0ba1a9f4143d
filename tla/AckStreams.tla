----------------------------- MODULE AckStreams ------------------------------
(***************************************************************************)
(* From acknowledgements to differences of delay: accumulate_ack_groups,   *)
(* calculate_ack_deltas and the sum in calculate_delay_slopes of           *)
(* backend/src/googcc/delay_directions.rs.  Each is a stream that turns    *)
(* the values of the one before it into its own; a step hands one          *)
(* acknowledgement through all of them.                                    *)
(*                                                                         *)
(* The rate at which packets are acknowledged: accumulate_acked_sizes and  *)
(* estimate_acked_rates_from_groups in backend/src/googcc/ack_rates.rs.    *)
(* Acknowledgements are handed over one by one; every packet has size 1.   *)
(*                                                                         *)
(* Whether the delay increases: the history of calculate_delay_slopes and  *)
(* calculate_delay_directions_from_slopes.  The slope that is fitted to a  *)
(* full history is any of a few numbers; so is the part of its distance to *)
(* the slope by which the threshold adapts.                                *)
(***************************************************************************)
EXTENDS Integers

CONSTANTS MaxTime,      \* times are 0..MaxTime
          GroupMin,     \* ack_group_min_duration
          GroupMax,     \* ack_group_max_duration
          MaxArrivalChange,
          MaxReorderings \* MAX_CONSECUTIVE_REORDERINGS

VARIABLES
    first, group,            \* of accumulate_ack_groups; NoGroup before the first
    group1, reorderings,     \* of calculate_ack_deltas
    accumulated_delay,       \* of calculate_delay_slopes
    latest,                  \* when the acknowledgement before arrived, in its message
    base                     \* history: the delay from which accumulated_delay is counted

group_vars == <<first, group, group1, reorderings, accumulated_delay, latest, base>>

Times == 0..MaxTime
Acks == [departure : Times, arrival : Times, feedback_arrival : Times]
NoGroup == [departure |-> -1, arrival |-> -1, feedback_arrival |-> -1]
Larger(a, b) == IF a > b THEN a ELSE b

GroupsInit ==
    /\ first = NoGroup /\ group = NoGroup /\ group1 = NoGroup /\ reorderings = 0
    /\ accumulated_delay = 0 /\ base = 0
    /\ latest = NoGroup

\* AckGroupSummary::add.
Add(g, ack) == [departure |-> Larger(g.departure, ack.departure),
                arrival   |-> Larger(g.arrival, ack.arrival),
                feedback_arrival |-> Larger(g.feedback_arrival, ack.feedback_arrival)]

Joins(ack) ==
    LET arrival_gap == ack.arrival - group.arrival
    IN  \/ ack.departure = group.departure
        \/ ack.departure - first.departure <= GroupMin
        \/ /\ arrival_gap < ack.departure - group.departure
           /\ arrival_gap <= GroupMin
           /\ ack.arrival - first.arrival < GroupMax

\* The group to compare with after one that arrived before it: none, once there are too many.
AfterReordering(group2) == IF reorderings + 1 >= MaxReorderings THEN NoGroup ELSE group1

Delay(g) == g.arrival - g.departure

\* calculate_ack_deltas for the group that ends, and the sum of its differences.
Delta(group2) ==
    LET arrival_delta  == group2.arrival - group1.arrival
        feedback_delta == Larger(group2.feedback_arrival - group1.feedback_arrival, 0)
    IN  \/ /\ group1 = NoGroup
           /\ group1' = group2 /\ reorderings' = 0
           /\ base' = Delay(group2) - accumulated_delay
           /\ UNCHANGED accumulated_delay
        \/ /\ group1 # NoGroup /\ group2.departure <= group1.departure
           /\ UNCHANGED <<group1, reorderings, accumulated_delay, base>>
        \/ /\ group1 # NoGroup /\ group2.departure > group1.departure /\ arrival_delta < 0
           /\ group1' = AfterReordering(group2)
           /\ reorderings' = reorderings + 1
           /\ UNCHANGED <<accumulated_delay, base>>
        \/ /\ group1 # NoGroup /\ group2.departure > group1.departure /\ arrival_delta >= 0
           /\ reorderings' = 0
           /\ IF arrival_delta >= feedback_delta + MaxArrivalChange
              THEN group1' = NoGroup /\ UNCHANGED <<accumulated_delay, base>>
              ELSE /\ group1' = group2
                   /\ accumulated_delay' = accumulated_delay + arrival_delta
                                           - (group2.departure - group1.departure)
                   /\ UNCHANGED base

Accumulate(ack) ==
    \/ /\ first = NoGroup \/ (first # NoGroup /\ ack.departure >= first.departure /\ ~Joins(ack))
       /\ first' = ack /\ group' = ack
       /\ IF first = NoGroup THEN UNCHANGED <<group1, reorderings, accumulated_delay, base>>
          ELSE Delta(group)
    \/ /\ first # NoGroup /\ ack.departure >= first.departure /\ Joins(ack)
       /\ group' = Add(group, ack)
       /\ UNCHANGED <<first, group1, reorderings, accumulated_delay, base>>
    \/ /\ first # NoGroup /\ ack.departure < first.departure
       /\ UNCHANGED <<first, group, group1, reorderings, accumulated_delay, base>>

\* recalculate_target_send_rate sorts the acknowledgements of a message by arrival; all of
\* them have the time at which the message came.
Ack(ack) ==
    /\ latest # NoGroup =>
          \/ ack.feedback_arrival > latest.feedback_arrival
          \/ ack.feedback_arrival = latest.feedback_arrival /\ ack.arrival >= latest.arrival
    /\ ack.departure <= ack.feedback_arrival
    /\ Accumulate(ack)
    /\ latest' = [ack EXCEPT !.departure = 0]

GroupsNext == \E ack \in Acks : Ack(ack)

GroupsSpec == GroupsInit /\ [][GroupsNext]_group_vars
------------------------------------------------------------------------------
\* The delay whose slope is estimated is that of the last group that was compared, counted
\* from one fixed delay: groups that are ignored, dropped or thrown out neither add to it nor
\* leave a step in it.
DelayIsAccumulated == group1 # NoGroup => accumulated_delay = Delay(group1) - base
------------------------------------------------------------------------------
(* The rate.                                                               *)

CONSTANTS MaxDelta,            \* by which arrivals are apart, either way
          Initial, Subsequent, \* the durations over which sizes are accumulated
          MaxPackets           \* acknowledged within one duration

VARIABLES started,
          size, duration, target, \* of accumulate_acked_sizes
          least_estimate          \* of estimate_acked_rates_from_groups

rate_vars == <<started, size, duration, target, least_estimate>>

NoEstimate == -1

RatesInit == /\ started = FALSE /\ size = 0 /\ duration = 0 /\ target = Initial
             /\ least_estimate = NoEstimate

\* accumulated_size += ack2.size, at the end of the loop.
WithThis(n) == n + 1

FirstAck ==
    /\ ~started /\ started' = TRUE
    /\ size' = 1
    /\ UNCHANGED <<duration, target, least_estimate>>

\* Out of order, or too long after the one before.
Reset(delta) ==
    /\ started /\ (delta < 0 \/ delta > target)
    /\ size' = WithThis(0)
    /\ duration' = IF delta < 0 THEN 0 ELSE (duration + delta) % target
    /\ UNCHANGED <<started, target, least_estimate>>

\* (size, target) is yielded, and what is left of the time begins the next group.  An
\* estimate lies between the one before and the new sample.
Yield(delta) ==
    /\ started /\ delta \in 0..target /\ duration + delta >= target
    /\ least_estimate' = IF least_estimate = NoEstimate \/ size < least_estimate THEN size
                          ELSE least_estimate
    /\ size' = WithThis(0)
    /\ duration' = duration + delta - target /\ target' = Subsequent
    /\ UNCHANGED started

Grow(delta) ==
    /\ started /\ delta \in 0..target /\ duration + delta < target /\ size < MaxPackets
    /\ size' = WithThis(size) /\ duration' = duration + delta
    /\ UNCHANGED <<started, target, least_estimate>>

RatesNext == \/ FirstAck
             \/ \E delta \in (-MaxDelta)..MaxDelta : Reset(delta) \/ Yield(delta) \/ Grow(delta)

RatesSpec == RatesInit /\ [][RatesNext]_rate_vars
------------------------------------------------------------------------------
\* No estimate is 0: the next sample's distance to it is divided by it, and the quotient
\* would stay in every estimate after.
EstimatesArePositive == least_estimate # NoEstimate => least_estimate > 0
------------------------------------------------------------------------------
(* The direction of the delay.                                             *)

CONSTANTS HistoryLen,    \* history_len
          ShrinkCount,   \* sample_count_for_slope_shrinking
          MaxSamples,    \* max_sample_count
          MaxSlope,      \* slopes are -MaxSlope..MaxSlope
          MinThreshold, MaxThreshold, InitialThreshold, MaxDifference,
          IncreasingDuration, \* increasing_duration_threshold
          MaxDeparture       \* departures are 1..MaxDeparture apart; time is counted to twice that

VARIABLES history,       \* number of its samples
          sample_count,
          prev_delay_slope, increasing_count,
          increasing_duration, \* in halves; -1: None
          slope_threshold, direction,
          evidence, \* history: slopes above the threshold since the last one below, or signal,
                    \* and the time between the departures they are from
          signal    \* history: the evidence there was for the last signal

direction_vars == <<history, sample_count, prev_delay_slope, increasing_count, increasing_duration,
          slope_threshold, direction, evidence, signal>>

Directions == {"None", "Steady", "Increasing", "Decreasing"}
Least(a, b) == IF a < b THEN a ELSE b
Abs(n) == IF n < 0 THEN -n ELSE n
NoEvidence == [slopes |-> 0, time |-> 0]

DirectionsInit ==
    /\ history = 0 /\ sample_count = 0 /\ prev_delay_slope = 0 /\ increasing_count = 0
    /\ increasing_duration = -1 /\ slope_threshold = InitialThreshold /\ direction = "None"
    /\ evidence = NoEvidence /\ signal = NoEvidence

\* The first difference of delay: a slope of 0 is yielded at once, and the first direction.
First ==
    /\ history = 0
    /\ history' = 1 /\ sample_count' = 1 /\ direction' = "Steady"
    /\ UNCHANGED <<prev_delay_slope, increasing_count, increasing_duration, slope_threshold,
                   evidence, signal>>

\* No slope is yielded before the history is full.
Collect ==
    /\ history > 0 /\ history + 1 < HistoryLen
    /\ history' = history + 1 /\ sample_count' = Least(sample_count + 1, MaxSamples)
    /\ UNCHANGED <<prev_delay_slope, increasing_count, increasing_duration, slope_threshold,
                   direction, evidence, signal>>

\* The slope, shrunk while samples are few; it is compared in units of 1 / ShrinkCount.
Shrunk(slope, count) == slope * Least(ShrinkCount, count)

Signals(count, halves, slope) ==
    count > 1 /\ halves > 2 * IncreasingDuration /\ slope >= prev_delay_slope

Steep(slope, departure_delta) ==
    LET halves  == Least(IF increasing_duration = -1 THEN departure_delta
                         ELSE increasing_duration + 2 * departure_delta, 4 * MaxDeparture)
        signals == Signals(increasing_count + 1, halves, slope)
        more    == [slopes |-> Least(evidence.slopes + 1, 2),
                    time   |-> Least(evidence.time + departure_delta, 2 * MaxDeparture)]
    IN  /\ direction' = IF signals THEN "Increasing" ELSE direction
        /\ increasing_count' = IF signals THEN 0 ELSE Least(increasing_count + 1, 2)
        /\ increasing_duration' = IF signals THEN 0 ELSE halves
        /\ evidence' = IF signals THEN NoEvidence ELSE more
        /\ signal' = IF signals THEN more ELSE signal

NotSteep(to) == /\ direction' = to /\ increasing_count' = 0 /\ increasing_duration' = -1
                /\ evidence' = NoEvidence /\ UNCHANGED signal

Clamped(n) == IF n < MinThreshold THEN MinThreshold ELSE Least(n, MaxThreshold)

\* The threshold comes up to most of the way to the slope, and down even past it, but for a
\* slope that is far above it.
Adapt(shrunk, by) ==
    LET diff == Abs(shrunk) - slope_threshold * ShrinkCount
    IN  \/ /\ diff >= MaxDifference * ShrinkCount
           /\ UNCHANGED slope_threshold
        \/ /\ diff < MaxDifference * ShrinkCount
           /\ by = 0 \/ (by > 0 /\ by * ShrinkCount <= diff) \/ (by < 0 /\ diff <= 0)
           /\ by < 0 => by * ShrinkCount >= 4 * diff
           /\ slope_threshold' = Clamped(slope_threshold + by)

\* A slope is fitted to the full history.
Slope(slope, departure_delta, by) ==
    LET count  == Least(sample_count + 1, MaxSamples)
        shrunk == Shrunk(slope, count)
    IN  /\ history > 0 /\ history + 1 >= HistoryLen
        /\ history' = HistoryLen /\ sample_count' = count
        /\ \/ shrunk > slope_threshold * ShrinkCount /\ Steep(slope, departure_delta)
           \/ shrunk < -slope_threshold * ShrinkCount /\ NotSteep("Decreasing")
           \/ /\ Abs(shrunk) <= slope_threshold * ShrinkCount
              /\ NotSteep("Steady")
        /\ Adapt(shrunk, by)
        /\ prev_delay_slope' = slope

DirectionsNext ==
    \/ First
    \/ Collect
    \/ \E slope \in (-MaxSlope)..MaxSlope, departure_delta \in 1..MaxDeparture,
          by \in (-MaxThreshold)..MaxThreshold : Slope(slope, departure_delta, by)

DirectionsSpec == DirectionsInit /\ [][DirectionsNext]_direction_vars
------------------------------------------------------------------------------
\* Overuse is signalled for a delay that keeps increasing: for two slopes in a row above the
\* threshold, with no signal between them, that are of more time than the least.
OveruseIsPersistent ==
    direction = "Increasing" => signal.slopes >= 2 /\ signal.time > IncreasingDuration
==============================================================================
