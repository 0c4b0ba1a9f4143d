------------------------------ MODULE TargetRate ------------------------------
(***************************************************************************)
(* The target of a connection's send rate: CongestionController,           *)
(* TargetCalculator and RateAverager in backend/src/googcc.rs, with the    *)
(* last values of their streams (googcc/stream.rs).                        *)
(*                                                                         *)
(* Rates are in small units.  What a multiplication by a fraction gives    *)
(* is rounded down; the power that the increase depends on is any rate in  *)
(* a range.  Time is counted since the target was last updated.            *)
(***************************************************************************)
EXTENDS Integers

CONSTANTS MinRate, InitialRate, MaxRate, \* Config
          TinyRate,                      \* tiny_send_rate
          MaxAcked,                      \* rates at which packets are acknowledged: 1..MaxAcked
          Requests,                      \* what clients ask for: base, ideal
          MaxIncrease,                   \* in one step
          MinRtt, MaxRtt,                \* *_RTT_FOR_DECREASE
          Bounds                         \* relative bounds of RateAverager

VARIABLES current_request,       \* NoRequest: no request
          requested,
          target_send_rate,
          since_updated,         \* up to MaxRtt
          rtt, acked_rate,       \* 0: NoRequest
          average_when_overusing,\* 0: NoRequest
          previous_direction

vars == <<current_request, requested, target_send_rate, since_updated, rtt, acked_rate,
          average_when_overusing, previous_direction>>

Directions == {"Steady", "Increasing", "Decreasing"}
NoRequest == [base |-> 0, ideal |-> 0]
Least(a, b) == IF a < b THEN a ELSE b
Largest(a, b) == IF a < b THEN b ELSE a
Clamp(n, low, high) == Largest(low, Least(n, high))

\* Before the first request nothing limits.
Init ==
    /\ current_request = NoRequest /\ requested = [base |-> 0, ideal |-> MaxRate]
    /\ target_send_rate = InitialRate /\ since_updated = 0 /\ rtt = 1 /\ acked_rate = 0
    /\ average_when_overusing = 0 /\ previous_direction = "NoRequest"

\* CongestionController::request: the latest one counts.
Request(request) ==
    /\ current_request' = request
    /\ UNCHANGED <<requested, target_send_rate, since_updated, rtt, acked_rate,
                   average_when_overusing, previous_direction>>

PassTime ==
    /\ since_updated < MaxRtt
    /\ since_updated' = since_updated + 1
    /\ UNCHANGED <<current_request, requested, target_send_rate, rtt, acked_rate,
                   average_when_overusing, previous_direction>>

\* A tiny request is over, and the target is low.
StartsOver(initial) ==
    /\ current_request # NoRequest
    /\ requested.ideal <= TinyRate /\ current_request.ideal > TinyRate
    /\ target_send_rate < initial

\* The target from which the direction goes on.
Initial(request) ==
    LET initial == Largest(InitialRate, request.base \div 2)
    IN  IF StartsOver(initial) THEN initial ELSE target_send_rate

\* RateAverager::reset_if_sample_out_of_bounds.
ResetIfOut(average, acked, bound) ==
    IF average # 0 /\ (acked > average + bound \/ acked < average - bound) THEN 0 ELSE average

\* RateAverager::add_sample.
AddSample(average, acked) == IF average = 0 THEN acked ELSE (acked + 19 * average) \div 20

\* Seeded fault: what is acknowledged does not limit the increase.
IncreasedUnlimited(target, acked, by) == target + by

Increased(target, acked, by) ==
    IF acked = 0 THEN target + by
    ELSE Largest(target, Least((acked * 3) \div 2 + 1, target + by))

\* Steady: how much it increases depends on how long it was steady and on what is known of
\* the rate at overuse.
Increases(average, by) ==
    LET elapsed == IF previous_direction = "Steady" THEN since_updated ELSE 0
    IN  IF average = 0 THEN by \in 1..MaxIncrease
        ELSE IF elapsed = 0 THEN by = 0 ELSE by \in 1..MaxIncrease

\* Seeded fault: the decrease is from what is acknowledged, more or less than the target.
DecreasedToAcked(target, acked, average) == (acked * 17) \div 20

Decreased(target, acked, average) ==
    LET from_acked == (acked * 17) \div 20
    IN  Least(target, IF from_acked > target /\ average # 0 THEN (average * 17) \div 20
                      ELSE from_acked)

\* TargetCalculator::next with a direction; rtt and acked_rate are the latest.
Recalculate(direction, acked, new_rtt, bound, by) ==
    LET request == IF current_request = NoRequest THEN requested ELSE current_request
        target  == Initial(request)
        reset   == StartsOver(Largest(InitialRate, request.base \div 2))
        in_bounds == IF acked = 0 THEN average_when_overusing
                     ELSE ResetIfOut(average_when_overusing, acked, bound)
        may_decrease == \/ acked = 0 \/ since_updated >= Clamp(new_rtt, MinRtt, MaxRtt)
                        \/ 2 * acked <= target
        changes == direction = "Steady" \/ (direction = "Increasing" /\ may_decrease)
        new     == CASE direction = "Steady" -> Increased(target, acked, by)
                     [] direction = "Increasing" /\ acked = 0 -> target \div 2
                     [] direction = "Increasing" /\ acked # 0 ->
                           Decreased(target, acked, average_when_overusing)
                     [] OTHER -> target
    IN  /\ requested' = request /\ current_request' = NoRequest
        /\ rtt' = new_rtt /\ acked_rate' = acked
        /\ direction = "Steady" => Increases(in_bounds, by)
        /\ direction # "Steady" => by = 0
        /\ average_when_overusing' =
              CASE direction = "Steady" -> in_bounds
                [] direction = "Increasing" /\ may_decrease /\ acked # 0 ->
                      AddSample(in_bounds, acked)
                [] OTHER -> average_when_overusing
        /\ target_send_rate' = IF changes THEN Clamp(new, MinRate, MaxRate)
                               ELSE IF reset THEN Clamp(target, MinRate, MaxRate)
                               ELSE target_send_rate
        /\ since_updated' = IF changes \/ reset THEN 0 ELSE since_updated
        /\ previous_direction' = direction

\* recalculate_target_send_rate: there are acknowledgements, but they need not complete a
\* group, so that the streams have new values or not; only their latest counts.
Acks(acked, new_rtt) ==
    /\ acked # 0 \/ acked_rate = 0
    /\ \/ \E direction \in Directions, bound \in Bounds, by \in 0..MaxIncrease :
             Recalculate(direction, acked, new_rtt, bound, by)
       \/ /\ rtt' = new_rtt /\ acked_rate' = acked
          /\ UNCHANGED <<current_request, requested, target_send_rate, since_updated,
                         average_when_overusing, previous_direction>>

Next == \/ \E request \in Requests : Request(request)
        \/ PassTime
        \/ \E acked \in 0..MaxAcked, new_rtt \in {MinRtt, MaxRtt} : Acks(acked, new_rtt)

Spec == Init /\ [][Next]_vars
------------------------------------------------------------------------------
TinyRequestEnds == requested.ideal <= TinyRate /\ requested'.ideal > TinyRate

\* The target follows the delay: it never falls while delay is steady and never rises while
\* delay increases or decreases, whatever is acknowledged, is remembered of overuse and is
\* asked for, but where a tiny request ends.
TargetFollowsDelay ==
    [][/\ target_send_rate' < target_send_rate => previous_direction' = "Increasing"
       /\ target_send_rate' > target_send_rate =>
             previous_direction' = "Steady" \/ TinyRequestEnds]_vars

\* However long the delay is steady, the target does not run away from what is acknowledged:
\* it is not raised above half as much again, but to where it starts from after a tiny
\* request.
TargetIsAcknowledged ==
    [][target_send_rate' > target_send_rate /\ acked_rate' # 0 /\ ~TinyRequestEnds =>
          target_send_rate' <= (acked_rate' * 3) \div 2 + 1]_vars
==============================================================================
