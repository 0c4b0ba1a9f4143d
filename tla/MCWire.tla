-------------------------------- MODULE MCWire --------------------------------
(***************************************************************************)
(* Small instances of what is on the wire between the SFU and a client:    *)
(* the forwarders, packets, RTCP, ICE, reports, acknowledgements and the   *)
(* congestion control that they feed.  The parts share no variable; a      *)
(* behaviour is one of one part.  What only converts is checked for each   *)
(* of its inputs.                                                          *)
(***************************************************************************)
EXTENDS Forwarders, SequencesExt

CONSTANTS low, high, own, forwarded, Parts

VARIABLES
    part, input,
    packet, stage, held, original, resends,                                \* RtpPackets
    next_send_seqnum, remembered, in_flight, max_received_tcc_seqnum, unacked,
    next_feedback_seqnum, messages, max_received_seqnum, arrived, acked,   \* Acks
    max_seqnum, max_seqnum_in_last, cumulative_loss, cumulative_loss_in_last,
    jitter_q4, reported, stream,                                           \* RtcpPackets
    last_received_sender_info, max_sent_seqnum, sent_since_last_report, packets_sent,
    last_sent_report, last_receiver_report_dlsr, rtt_estimate, at_client, blocks,
    sent_packets,                                                          \* SenderReports
    first, group, group1, reorderings, accumulated_delay, latest, base,    \* AckStreams
    started, size, duration, target, least_estimate,                       \* AckStreams
    history, sample_count, prev_delay_slope, increasing_count, increasing_duration,
    slope_threshold, direction, evidence, signal,                          \* AckStreams
    current_request, requested, target_send_rate, since_updated, rtt, acked_rate,
    average_when_overusing, previous_direction                             \* TargetRate

packet_vars == <<packet, stage, held, original, resends>>
ack_vars == <<next_send_seqnum, remembered, in_flight, max_received_tcc_seqnum, unacked,
              next_feedback_seqnum, messages, max_received_seqnum, arrived, acked>>
receiver_vars == <<max_seqnum, max_seqnum_in_last, cumulative_loss, cumulative_loss_in_last,
                   jitter_q4, reported, stream>>
sender_vars == <<last_received_sender_info, max_sent_seqnum, sent_since_last_report,
                 packets_sent, last_sent_report, last_receiver_report_dlsr, rtt_estimate,
                 at_client, blocks, sent_packets>>
group_vars == <<first, group, group1, reorderings, accumulated_delay, latest, base>>
rate_vars == <<started, size, duration, target, least_estimate>>
direction_vars == <<history, sample_count, prev_delay_slope, increasing_count,
                    increasing_duration, slope_threshold, direction, evidence, signal>>
target_vars == <<current_request, requested, target_send_rate, since_updated, rtt, acked_rate,
                 average_when_overusing, previous_direction>>
all_vars == <<part, input, vars, packet_vars, ack_vars, receiver_vars, sender_vars, group_vars,
              rate_vars, direction_vars, target_vars>>
------------------------------------------------------------------------------
(* Forwarders: two layers of one sender; short counters that start just    *)
(* below a wrap.                                                           *)

Layers  == {low, high}
Headers == [s \in Ssrcs |-> IF s = low THEN "vp8" ELSE "dd"]
Widths  == [f \in IdFields |-> CASE f = "timestamp" -> 4 [] OTHER -> 3]
Lengths == [s \in Ssrcs |-> IF s = low THEN 2 ELSE 1]
Starts  == [s \in Ssrcs |-> [f \in IdFields |->
               CASE f = "seqnum" -> 1
                 [] f = "timestamp" -> 14
                 [] OTHER -> 7]]
------------------------------------------------------------------------------
(* Packets: of one header form or the other, with extensions in any order. *)

Extension == {[id |-> 1, val |-> <<1, 2>>], [id |-> 4, val |-> <<1>>],
              [id |-> 6, val |-> <<1, 2, 3>>], [id |-> 6, val |-> <<1, 2, 3, 1, 1>>],
              [id |-> 9, val |-> <<1, 1>>]}
Vp8Payloads == {<<1, 7, 9, 1, 3, 5, 6>>, <<1, 6, 9, 1, 3, 0, 6>>, <<1, 4, 9, 1, 5, 6, 0>>,
                <<1, 2, 3, 5, 6, 0, 0>>, <<0, 5, 6, 4, 3, 2, 1>>}
Extensions == {es \in UNION {[1..n -> Extension] : n \in 0..3} :
                  \A i, j \in 1..Len(es) : i # j => es[i].id # es[j].id}
Media == [csrcs : 0..1, profile : 1..2, extensions : Extensions, pt : {108},
          payload : Vp8Payloads]
Rtx   == {[l EXCEPT !.pt = 118, !.payload = <<4>> \o l.payload] : l \in Media}

Packets == INSTANCE RtpPackets WITH Layouts <- Media \cup Rtx, Word <- 4, MaxResends <- 2,
                                    remembered <- held
------------------------------------------------------------------------------
(* Acknowledgements, with numbers that roll over after a few packets.      *)

Acking == INSTANCE TransportCc WITH
    SeqnumCycle <- 8, FeedbackCycle <- 4, DeltaTick <- 2, RefTick <- 2, SmallDelta <- 1,
    LargeDelta <- 3, MaxRun <- 5, Capacity1 <- 4, Capacity2 <- 2, MaxBytes <- 6,
    FirstSeqnum <- 6, MaxPackets <- 4, MaxDelay <- 4

Feedback == INSTANCE TransportCc WITH
    SeqnumCycle <- 32, FeedbackCycle <- 4, DeltaTick <- 2, RefTick <- 2, SmallDelta <- 1,
    LargeDelta <- 3, MaxRun <- 5, Capacity1 <- 4, Capacity2 <- 2, MaxBytes <- 6,
    FirstSeqnum <- 6, MaxPackets <- 4, MaxDelay <- 4

Statuses == UNION {[1..n -> 0..2] : n \in 1..8}

\* Packets that arrive: each some numbers after the one before, at a time before or after it.
\* A delta that does not fit ends a message, where no packet is missing before it.
Steps == {s \in [gap : {1, 2, 5}, dt : {-10, -3, 0, 1, 3, 7, 8}] : s.gap = 1 \/ s.dt \in -9..7}
ArrivalsOf(t, steps) ==
    LET f[i \in 0..Len(steps)] ==
          IF i = 0 THEN [seqnum |-> 30, time |-> t]
          ELSE [seqnum |-> f[i - 1].seqnum + steps[i].gap, time |-> f[i - 1].time + steps[i].dt]
    IN  [i \in 1..(Len(steps) + 1) |-> f[i - 1]]
Arrivals == {ArrivalsOf(t, steps) : t \in 40..43, steps \in UNION {[1..n -> Steps] : n \in 0..3}}
------------------------------------------------------------------------------
(* RTCP and ICE.                                                           *)

Rtcp == INSTANCE RtcpPackets WITH
    SeqnumCycle <- 16, MaskBits <- 3, IndexLimit <- 8,
    MaxSeqnum <- 6, GapThreshold <- 3, JitterLimit <- 2, MaxCumulative <- 2

Missing == {SelectSeq([i \in 1..11 |-> 11 + i], LAMBDA n : n \in S) : S \in SUBSET (12..22)}
Words(ssrc, n) == [i \in 1..n |-> Rtcp!Value(IF i = 1 THEN ssrc ELSE 20 + i)]
Sr(n) == [type |-> "SR", ssrc |-> n, words |-> Words(n, 6)]
Rr(n) == [type |-> "RR", ssrc |-> n, words |-> Words(n, 7)]
Reports == UNION {[1..n -> {Sr(1), Sr(2), Rr(1), Rr(3)}] : n \in 1..4}
ControlPackets == {Rtcp!SendNack(1, 2, <<3, 5, 9>>, 0), Rtcp!SendPli(1, 7, 1),
                   Rtcp!SendAck(4, <<Rtcp!Value(1), Rtcp!Value(2)>>, 7, 2),
                   Rtcp!SendAck(4, <<>>, 0, 2), Rtcp!SendRtcpReport(<<Sr(1), Rr(3)>>, 3)}

Stun == INSTANCE Ice

Forwards(n)  == [i \in 1..n |-> Stun!Byte(i)]
Backwards(n) == [i \in 1..n |-> Stun!Byte(n + 1 - i)]
Attributes == {Stun!WriteStunAttribute(a[1], Stun!Bytes(a[2])) :
                  a \in {<<6, 1>>, <<6, 2>>, <<37, 0>>, <<8, 2>>, <<8, 3>>, <<100, 2>>,
                         <<100, 3>>, <<7, 1>>}} \cup {<<Stun!Byte(0)>>}
StunPacket(as) == LET c == FlattenSeq(as)
                  IN  <<Stun!Byte(1), Stun!Byte(Len(c)), Stun!Byte(9)>> \o c
StunPackets == {StunPacket(as) : as \in UNION {[1..n -> Attributes] : n \in 0..4}}
------------------------------------------------------------------------------
(* The descriptors of key frames, and reading bits.                        *)

SomeBytes == UNION {[1..n -> {0, 255, 165, 90, 15}] : n \in 1..2}
KeyFrames == [frame : {0, 300}, offset : {63}, targets : 1..4, templates : 1..3, idc : {0, 2},
              fdiffs : 0..2, size : {<<>>, <<640, 480>>, <<65535, 1>>}]

Inputs == [kind : {"statuses"}, v : Statuses]
          \cup [kind : {"arrivals"}, v : Arrivals]
          \cup [kind : {"nack"}, v : Missing \ {<<>>}]
          \cup [kind : {"reports"}, v : Reports]
          \cup [kind : {"compound"}, v : UNION {[1..n -> ControlPackets] : n \in 1..3}]
          \cup [kind : {"request"}, len : 0..5, nominated : BOOLEAN]
          \cup [kind : {"stun"}, v : StunPackets]
          \cup [kind : {"bits"}, bytes : SomeBytes, byte : 0..2, bit : 0..7, bits : 1..8]
          \cup [kind : {"keyframe"}, v : KeyFrames]
------------------------------------------------------------------------------
(* Reports and congestion control.                                         *)

Sending == INSTANCE SenderReports WITH
    Own <- own, Forwarded <- forwarded, MaxNtp <- 2, MaxSeqnum <- 3, GapThreshold <- 1,
    CountCycle <- 3, MaxTime <- 2, sent <- sent_packets
Streams == INSTANCE AckStreams WITH
    MaxTime <- 4, GroupMin <- 1, GroupMax <- 2, MaxArrivalChange <- 1, MaxReorderings <- 2,
    MaxDelta <- 6, Initial <- 5, Subsequent <- 2, MaxPackets <- 3,
    HistoryLen <- 3, ShrinkCount <- 4, MaxSamples <- 5, MaxSlope <- 4, MinThreshold <- 1,
    MaxThreshold <- 3, InitialThreshold <- 2, MaxDifference <- 2, IncreasingDuration <- 2,
    MaxDeparture <- 3
Target == INSTANCE TargetRate WITH
    MinRate <- 1, InitialRate <- 3, MaxRate <- 6, TinyRate <- 2, MaxAcked <- 5,
    MaxIncrease <- 2, MinRtt <- 1, MaxRtt <- 2, Bounds <- {1},
    Requests <- {[base |-> 2, ideal |-> 2], [base |-> 8, ideal |-> 8]}
------------------------------------------------------------------------------
NoInput == [kind |-> "none"]

\* A part that is not looked at does nothing.
MCInit ==
    /\ part \in Parts
    /\ Init /\ Acking!Init /\ Rtcp!Init /\ Sending!Init
    /\ Streams!GroupsInit /\ Streams!RatesInit /\ Streams!DirectionsInit /\ Target!Init
    /\ part # "forwarders" => kind = "single"
    /\ IF part = "packets" THEN Packets!Init
       ELSE packet = 0 /\ stage = 0 /\ held = 0 /\ original = 0 /\ resends = 0
    /\ IF part = "inputs" THEN input \in Inputs ELSE input = NoInput

Others(except) ==
    \A v \in {"forwarders", "packets", "acks", "receiver", "sender", "groups", "rates",
              "delays", "target"} \ {except} :
        CASE v = "forwarders" -> UNCHANGED vars
          [] v = "packets"    -> UNCHANGED packet_vars
          [] v = "acks"       -> UNCHANGED ack_vars
          [] v = "receiver"   -> UNCHANGED receiver_vars
          [] v = "sender"     -> UNCHANGED sender_vars
          [] v = "groups"     -> UNCHANGED group_vars
          [] v = "rates"      -> UNCHANGED rate_vars
          [] v = "delays"     -> UNCHANGED direction_vars
          [] v = "target"     -> UNCHANGED target_vars

MCNext ==
    /\ UNCHANGED <<part, input>>
    /\ \/ part = "forwarders" /\ Next
       \/ part = "packets" /\ Packets!Next
       \/ part = "acks" /\ Acking!Next
       \/ part = "receiver" /\ Rtcp!Next
       \/ part = "sender" /\ Sending!Next
       \/ part = "groups" /\ Streams!GroupsNext
       \/ part = "rates" /\ Streams!RatesNext
       \/ part = "delays" /\ Streams!DirectionsNext
       \/ part = "target" /\ Target!Next
    /\ Others(part)

MCSpec == MCInit /\ [][MCNext]_all_vars
------------------------------------------------------------------------------
\* Of TransportCc, RtcpPackets, RtpPackets and Ice: what one side writes, the code that reads
\* it reads back.  Status chunks and feedback (PacketStatusChunk::push, read_feedback), NACKs
\* (write_nack, parse_nack), all reports of one packet (send_rtcp_report), compounds
\* (parse_and_decrypt_in_place), the bits and the resolution in a dependency descriptor, the
\* binding response that to_binding_response makes in place, and of a binding request only
\* what lies before its HMAC (BindingRequest::parse).  What is parsed from a packet's bytes,
\* and where, is what is on the wire through all the rewriting of packet.rs, and the payload
\* that is forwarded, resent and resent again is the sender's.
WhatIsWrittenIsRead ==
    CASE input.kind = "none"     -> part = "packets" =>
                                        Packets!WireIsPacket /\ Packets!PayloadIsKept
      [] input.kind = "statuses" -> Feedback!StatusesAreRead(input.v)
      [] input.kind = "arrivals" -> Feedback!FeedbackIsRead(input.v)
      [] input.kind = "nack"     -> Rtcp!NackIsRead(input.v)
      [] input.kind = "reports"  -> Rtcp!ReportsAreRead(input.v)
      [] input.kind = "compound" -> Rtcp!CompoundIsRead(input.v)
      [] input.kind = "request"  -> Stun!RequestIsAnswered(Forwards(input.len),
                                                           Backwards(input.len), input.nominated)
      [] input.kind = "stun"     -> Stun!FoundIsVouchedFor(input.v)
      [] input.kind = "bits"     -> Packets!BitsAreRead(input.bytes, input.byte, input.bit,
                                                        input.bits)
      [] input.kind = "keyframe" -> Packets!KeyFrameIsRead(input.v)

\* What one side tells the other of its packets is true.  Of TransportCc: packets are
\* acknowledged once, and only if they arrived, and every arrival is written into feedback
\* (Receiver::send_acks, Sender::process_feedback_and_correlate_acks).  Of RtcpPackets and
\* SenderReports: what is reported as lost is what is missing, the fraction lost fits in its
\* byte, the jitter stays within the differences that are counted, and packets_sent counts the
\* packets since the last restart (rtcp.rs).
FeedbackIsTrue ==
    /\ Acking!AcksAreTrue /\ Acking!ArrivalsAreWritten
    /\ Rtcp!LossIsWhatIsMissing /\ Rtcp!FractionFits /\ Rtcp!JitterIsBounded
    /\ Sending!PacketCountIsExact

\* Of AckStreams: what the congestion control goes by is sound.  Groups of
\* acknowledgements that are ignored leave no step in the accumulated delay, no estimate of the
\* acknowledged rate is 0 (ack_rates.rs), and overuse is signalled for a delay that keeps
\* increasing (delay_directions.rs).
CongestionSignalsAreSound ==
    /\ Streams!DelayIsAccumulated /\ Streams!EstimatesArePositive
    /\ Streams!OveruseIsPersistent

\* Of TargetRate: the target follows the delay and does not run away from what is
\* acknowledged (TargetCalculator::next).  What it is told of is sound.
CongestionControlIsSound ==
    []CongestionSignalsAreSound /\ Target!TargetFollowsDelay /\ Target!TargetIsAcknowledged
==============================================================================
