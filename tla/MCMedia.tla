------------------------------- MODULE MCMedia --------------------------------
(* Calls with a sender and a receiver of video in two layers, and one with *)
(* three devices that come, speak and go.                                  *)
EXTENDS Media

CONSTANTS d1, d2, d3

ThreeDevices == {d1, d2, d3}
OneSender    == {d1}

Nothing(value) == [d \in DemuxIds |-> value]

Ask(h, speaker_height) ==
    [requests |-> d1 :> h @@ Nothing(None), max_rate |-> 9,
     active_speaker_height |-> speaker_height]

Rates(a, b) == 0 :> a @@ 1 :> b @@ 2 :> 0
Silent      == Rates(0, 0)

\* d2 asks for the high layer of d1, or for no video of it unless it speaks.
Video ==
    [devices        |-> {d1, d2},
     leavers        |-> {d1},
     users          |-> {},
     receivers      |-> {d2},
     video_requests |-> {Ask(2, 0), Ask(0, 2)},
     targets        |-> {3},
     drains         |-> {Nothing(0)},
     packets        |-> d1 :> {<<0, <<1, 1>>, None>>, <<1, <<2, 2>>, None>>} @@ Nothing({}),
     rates          |-> {d1 :> Rates(2, 5) @@ Nothing(Silent)},
     audio          |-> {},
     talkers        |-> {}]

\* The sender turns its camera; d2 is sent what is allocated by default.
Turning ==
    [Video EXCEPT !.video_requests = {}, !.targets = {},
                  !.packets[d1] = {<<0, <<1, 2>>, None>>, <<1, <<2, 4>>, None>>,
                                   <<0, None, TRUE>>, <<1, None, FALSE>>}]

Voices ==
    [devices        |-> {d1, d2, d3},
     leavers        |-> {d1, d2, d3},
     users          |-> {{d1, d2}, {d2, d3}},
     receivers      |-> {},
     video_requests |-> {},
     targets        |-> {},
     drains         |-> {Nothing(0)},
     packets        |-> Nothing({}),
     rates          |-> {Nothing(Silent)},
     audio          |-> {d1},
     talkers        |-> {d1, d2, d3}]

SomeScenes == [video |-> Video, turning |-> Turning, voices |-> Voices]
------------------------------------------------------------------------------
(* allocate_send_rate on its own, for one or two videos.                   *)

Layers(rates, heights) ==
    [i \in LayerIndices |-> [incoming_rate   |-> rates[i + 1],
                             incoming_height |-> heights[i + 1]]]

\* All three layers; no low one; a high one that costs less; equal heights; a
\* layer whose rate or height is not known yet; no video.
SomeLayers == {Layers(<<10, 20, 40>>, <<1, 2, 4>>), Layers(<<0, 20, 40>>, <<0, 2, 4>>),
               Layers(<<10, 30, 20>>, <<1, 2, 2>>), Layers(<<20, 20, 0>>, <<0, 2, 4>>),
               Layers(<<10, 0, 0>>, <<1, 2, 0>>), Layers(<<0, 0, 0>>, <<0, 0, 0>>)}

VideosOf(sender, position) ==
    [sender : {sender}, layers : SomeLayers, requested_height : {0, 1, 3},
     allocated_layer_index : {None, 0, 1}, interesting : {position}, position : {position}]

Inputs ==
    {[target |-> t[1], min_target |-> t[2], drain |-> t[3], videos |-> v] :
        t \in {<<60, 60, 0>>, <<60, 40, 0>>, <<60, 20, 30>>, <<30, 30, 2>>, <<20, 10, 0>>},
        v \in {<<a>> : a \in VideosOf(d1, 1)}
               \cup {<<a, b>> : a \in VideosOf(d1, 1), b \in VideosOf(d2, 2)}}

IdealOf(i)      == IdealSendRate(i.videos, 100)
AllocationOf(i) ==
    AllocateSendRate(i.target, i.min_target, IdealOf(i), i.drain, i.videos)

SumOver(f, S) == MapThenSumSet(LAMBDA x : f[x], S)

\* Either the call runs, with no input, or the function is given one input.
VARIABLE input

MCInit == /\ Init
          /\ input \in {None} \cup IF scene = "video" THEN Inputs ELSE {}
Run    == input = None /\ Next /\ UNCHANGED input
Stay   == input # None /\ UNCHANGED <<vars, input>>
MCSpec == MCInit /\ [][Run \/ Stay]_<<vars, input>> /\ Fairness

\* allocate_send_rate never gives away more than the target rate, or than would
\* be ideal, and no layer above the ideal one, though a layer that is taken may
\* cost less than the one it replaces.
AllocationsFit ==
    input # None =>
        LET result == AllocationOf(input)
            sum    == SumOver([s \in DOMAIN result |-> result[s].rate], DOMAIN result)
        IN  /\ sum <= input.target
            /\ sum <= IdealOf(input)
            /\ \A i \in DOMAIN input.videos :
                  LET v == input.videos[i]
                  IN  v.sender \in DOMAIN result =>
                          result[v.sender].layer_index <= IdealVideoLayerIndex(v)

\* "We try to get the lowest layers for each one before trying to get the higher
\* layer for any one": when the lowest layers of all the videos fit, every video
\* that is asked for is sent.
LowestLayersFirst ==
    input # None =>
        LET wanted == {i \in DOMAIN input.videos :
                         IdealVideoLayerIndex(input.videos[i]) # None
                           /\ ~NothingComesIn(input.videos[i].layers[0])}
            base   == SumOver([i \in wanted |-> input.videos[i].layers[0].incoming_rate], wanted)
        IN  base <= AllocatableRate(input.min_target, input.drain, IdealOf(input)) =>
                \A i \in wanted : input.videos[i].sender \in DOMAIN AllocationOf(input)

\* "so there's less layer switching as available bandwidth changes": a video that is
\* alone and is sent at its ideal layer stays there as long as the target, without
\* what drains the queue, allows for it, however low the target has been lately.
IdealLayerIsKept ==
    input # None =>
        LET v == input.videos[1]
            i == v.allocated_layer_index
        IN  /\ Len(input.videos) = 1
            /\ i # None /\ i = IdealVideoLayerIndex(v)
            /\ v.layers[i].incoming_rate
                 <= AllocatableRate(input.target, input.drain, IdealOf(input))
            => /\ v.sender \in DOMAIN AllocationOf(input)
               /\ AllocationOf(input)[v.sender].layer_index = i

\* What allocate_send_rate promises of the layers it chooses.
AllocationsAreFair == AllocationsFit /\ LowestLayersFirst /\ IdealLayerIsKept
==============================================================================
