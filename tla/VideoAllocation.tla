--------------------------- MODULE VideoAllocation ----------------------------
(***************************************************************************)
(* How the target send rate of a receiver is spent on the layers of the    *)
(* videos sent to it: ideal_video_layer_index to allocate_send_rate of     *)
(* backend/src/call.rs.                                                    *)
(*                                                                         *)
(* A video is [sender, layers, requested_height, allocated_layer_index,    *)
(* interesting, position]: layers[i] has the rate and the height coming    *)
(* in on layer i, 0 where there is none yet; interesting orders the videos *)
(* by when their sender became active speaker (0: never), position is the  *)
(* place of the sender in the list of clients.  What is allocated is a     *)
(* function of the senders that get something.                             *)
(***************************************************************************)
EXTENDS Integers, SequencesExt, LayerSwitch

LayerIndices == 0..2

Least(a, b)    == IF a < b THEN a ELSE b
Greatest(a, b) == IF a > b THEN a ELSE b

HasRate(layer)   == layer.incoming_rate > 0
HasHeight(layer) == layer.incoming_height > 0

\* position and rposition, of the layers that satisfy a condition.
Position(indices)  == IF indices = {} THEN None ELSE Min(indices)
RPosition(indices) == IF indices = {} THEN None ELSE Max(indices)

\* The highest of the layers with the smallest sufficient height, or else the
\* highest layer there is.
IdealVideoLayerIndex(video) ==
    LET l      == video.layers
        enough == {i \in LayerIndices :
                     l[i].incoming_height >= video.requested_height /\ HasRate(l[i])}
    IN  CASE video.requested_height = 0 -> None
          [] video.requested_height > 0 /\ enough # {} ->
                RPosition({i \in LayerIndices :
                        /\ l[i].incoming_height = l[Position(enough)].incoming_height
                        /\ HasRate(l[i])})
          [] OTHER -> RPosition({i \in LayerIndices : HasRate(l[i]) /\ HasHeight(l[i])})

BaseVideoLayerIndex(video) ==
    IF video.requested_height = 0 \/ ~HasRate(video.layers[0]) THEN None ELSE 0

\* The sum over the videos of the rate of the layer that index picks for each.
RateOf(videos, index, max_requested_send_rate) ==
    LET RateIn(k) == IF index[k] = None THEN 0 ELSE videos[k].layers[index[k]].incoming_rate
        Sum[k \in 0..Len(videos)] == IF k = 0 THEN 0 ELSE Sum[k - 1] + RateIn(k)
    IN  Least(Sum[Len(videos)], max_requested_send_rate)

IdealSendRate(videos, max) ==
    RateOf(videos, [k \in DOMAIN videos |-> IdealVideoLayerIndex(videos[k])], max)

RequestedBaseRate(videos, max) ==
    RateOf(videos, [k \in DOMAIN videos |-> BaseVideoLayerIndex(videos[k])], max)

\* TARGET_RATE_MINIMUM_ALLOCATION_RATIO of a rate.
MinimumAllocation(rate) == (rate * 9) \div 10

\* Seeded fault: the ideal rate, whatever the target.
AllocatableRateUnlimited(rate, drain, ideal) == ideal

\* What is left of a rate once the queue is drained, at most the ideal rate.
AllocatableRate(rate, drain, ideal) ==
    Least(Greatest(Greatest(rate - drain, 0), MinimumAllocation(rate)), ideal)

\* Biggest first, then the most recently interesting; the sort is stable.
SortVideos(videos) ==
    SortSeq(videos, LAMBDA v, w :
        \/ v.requested_height > w.requested_height
        \/ /\ v.requested_height = w.requested_height
           /\ \/ v.interesting > w.interesting
              \/ v.interesting = w.interesting /\ v.position < w.position)

\* The layer from layer_index to the ideal one that is tried: a higher layer is
\* taken instead when it costs less.
CandidateLayer(video, layer_index) ==
    LET l          == video.layers
        ideal      == IdealVideoLayerIndex(video)
        Pick(c, i) == IF /\ HasHeight(l[i]) /\ HasRate(l[i])
                         /\ l[i].incoming_rate < l[c].incoming_rate
                      THEN i ELSE c
        Best[i \in layer_index..ideal] ==
            IF i = layer_index THEN layer_index ELSE Pick(Best[i - 1], i)
    IN  Best[ideal]

NothingComesIn(layer) == ~HasRate(layer) /\ ~HasHeight(layer)

\* Seeded fault: the larger budget is for a different layer.
BudgetSwapped(is_forwarded, existing, different) == IF is_forwarded THEN different ELSE existing

\* The layer that is being forwarded may be kept within a larger rate.
Budget(is_forwarded, existing, different) == IF is_forwarded THEN existing ELSE different

\* One turn of the inner loop: the video gets the candidate layer, in place of
\* the lower one it has, if the increase fits.
AllocateLayer(acc, layer_index, video, existing, different) ==
    LET ideal     == IdealVideoLayerIndex(video)
        c         == CandidateLayer(video, layer_index)
        rate      == video.layers[c].incoming_rate
        lower     == IF video.sender \in DOMAIN acc.allocated
                     THEN acc.allocated[video.sender].rate ELSE 0
        increased == acc.rate + Greatest(rate - lower, 0)
        limit     == Budget(video.allocated_layer_index = c, existing, different)
    IN  IF \/ NothingComesIn(video.layers[layer_index])
           \/ ideal = None
           \/ ideal # None /\ ideal < layer_index
           \/ ideal # None /\ ideal >= layer_index /\ increased > limit
        THEN acc
        ELSE [allocated |-> video.sender :> [layer_index |-> c, rate |-> rate,
                                             height |-> video.layers[c].incoming_height]
                               @@ acc.allocated,
              rate      |-> increased]

\* Seeded fault: all the layers of a video before the next video.
VideoByVideo(n) == [k \in 1..(3 * n) |-> <<(k - 1) % 3, ((k - 1) \div 3) + 1>>]

\* The rounds of allocate_send_rate: all the videos for layer 0, then for 1, 2.
Rounds(n) == [k \in 1..(3 * n) |-> <<(k - 1) \div n, ((k - 1) % n) + 1>>]

\* allocate_send_rate: the layer to forward of each sender that gets one.
AllocateSendRate(target, min_target, ideal, drain, videos) ==
    LET existing  == AllocatableRate(target, drain, ideal)
        different == AllocatableRate(min_target, drain, ideal)
        sorted    == SortVideos(videos)
        rounds    == Rounds(Len(videos))
        After[k \in 0..Len(rounds)] ==
            IF k = 0 THEN [allocated |-> <<>>, rate |-> 0]
            ELSE AllocateLayer(After[k - 1], rounds[k][1], sorted[rounds[k][2]],
                               existing, different)
    IN  After[Len(rounds)].allocated
==============================================================================
