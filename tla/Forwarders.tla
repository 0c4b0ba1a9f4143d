----------------------------- MODULE Forwarders ------------------------------
(***************************************************************************)
(* One forwarder of a receiving client (call.rs: forward_audio_rtp,        *)
(* forward_data_rtp, forward_video_rtp) and the packets of its sender,     *)
(* lost and reordered but never repeated: Endpoint::receive_rtp drops a    *)
(* sequence number it has seen.  A frame is one packet; every second frame *)
(* of a layer is of the temporal base layer.                               *)
(***************************************************************************)
EXTENDS Integers, LayerSwitch

CONSTANTS
    Width,          \* bits of each rewritten ID on the wire; "seqnum" has 16 in the code
    Ssrcs,          \* the layers of the sender's video
    Header,         \* "vp8" or "dd" (dependency descriptor), by layer
    FirstIds,       \* the IDs of the first packet, by layer
    MaxPacket,      \* bound on the packets, by layer
    MaxSingle,      \* bound on the incoming sequence numbers of audio or data
    MaxGap          \* bound on loss and reordering, in packets

VARIABLES
    kind,           \* "single" or "vp8": which forwarder this is
    fwd,            \* the forwarder
    delivered,      \* the packets handled so far, by layer (or "audio")
    sent            \* history: the packets forwarded, with their segment

vars == <<kind, fwd, delivered, sent>>
------------------------------------------------------------------------------
(* The two kinds of forwarders and the counters they rest on               *)
(* (common/src/counters.rs).  Each method is an operator from the          *)
(* forwarder to the next one; `out` in the result is the number or the IDs *)
(* of the outgoing packet, None if it is not forwarded.                    *)

IdFields == {"seqnum", "timestamp", "picture_id", "tl0_pic_idx", "frame_number"}

Larger(a, b) == IF a > b THEN a ELSE b
Cycle(f)     == 2 ^ Width[f]

ASSUME WidthAssumption == /\ Width \in [IdFields -> Nat \ {0}]
                          /\ \A f \in IdFields : Cycle(f) \in Nat \ {0, 1}

\* expand_truncated_counter: the full value, given the largest one so far.  The
\* rollover counter never goes below 0.
Expand(truncated, max, f) ==
    LET roc  == max \div Cycle(f)
        tmax == max % Cycle(f)
        half == Cycle(f) \div 2
    IN  Cycle(f) * (CASE tmax - truncated > half             -> roc + 1
                      [] roc > 0 /\ truncated - tmax > half  -> roc - 1
                      [] OTHER                               -> roc)
        + truncated
------------------------------------------------------------------------------
(* SingleSsrcRtpForwarder: audio and data.                                 *)

NewSingle == [first_incoming |-> 0, first_outgoing |-> 0, max_outgoing |-> 0]

\* SingleSsrcRtpForwarder::forward_rtp.  A gap of half a cycle or more would be
\* ambiguous for the receiver; the numbers then go on two after the largest one.
SingleForward(s, incoming) ==
    LET out   == s.first_outgoing + incoming - s.first_incoming
        reset == s.max_outgoing + 2
    IN  IF incoming < s.first_incoming THEN [fwd |-> s, out |-> None]
        ELSE IF out > s.max_outgoing + Cycle("seqnum") \div 2 - 1
             THEN [fwd |-> [first_incoming |-> incoming, first_outgoing |-> reset,
                            max_outgoing |-> reset],
                   out |-> reset]
             ELSE [fwd |-> [s EXCEPT !.max_outgoing = Larger(@, out)], out |-> out]
------------------------------------------------------------------------------
(* Vp8RewrittenIds: five numbers, three of which may be absent.            *)

Both(a, b, f) == a[f] # None /\ b[f] # None

CheckedSub(a, b) ==
    IF \E f \in IdFields : Both(a, b, f) /\ a[f] < b[f] THEN None
    ELSE [f \in IdFields |-> IF Both(a, b, f) THEN a[f] - b[f] ELSE None]

CheckedAdd(a, b) == [f \in IdFields |-> IF Both(a, b, f) THEN a[f] + b[f] ELSE None]

\* Seeded fault: an ID one packet lacks is forgotten.
MaxOfCommonIds(a, b) ==
    [f \in IdFields |-> IF Both(a, b, f) THEN Larger(a[f], b[f]) ELSE None]

MaxIds(a, b) ==
    [f \in IdFields |-> CASE a[f] = None -> b[f]
                          [] b[f] = None -> a[f]
                          [] OTHER       -> Larger(a[f], b[f])]

DefaultIds == [f \in IdFields |-> IF f = "frame_number" THEN 1 ELSE 0]

\* Seeded fault: the frame number of the new layer starts at the largest one.
GapOfSeqnumOnly == [f \in IdFields |-> IF f = "seqnum" THEN 2 ELSE 0]

\* What the first packet after a switch adds: a gap of one sequence number says
\* that the frame before it was probably incomplete.
SwitchGap == [f \in IdFields |-> IF f = "seqnum" THEN 2 ELSE 1]
------------------------------------------------------------------------------
(* Vp8SimulcastRtpForwarder: the layers of a sender as one stream.  The    *)
(* state Paused is forwarding = None, DoNotSwitch is switching = None.     *)

NewVp8 == [forwarding |-> None, switching |-> None, max_outgoing |-> DefaultIds]

\* A packet p has an SSRC, a full sequence number, truncated other IDs, and says
\* whether it starts a key frame.  A VP8 header must have both of its IDs.
Forwardable(p) == p.header = "vp8" =>
                     p.ids["picture_id"] # None /\ p.ids["tl0_pic_idx"] # None

\* Seeded fault: any packet of the layer switched to is taken for a key frame.
SwitchAnywhere(v, p) ==
    IF v.switching # p.ssrc THEN v
    ELSE LET first == CheckedAdd(v.max_outgoing, SwitchGap) IN
         [forwarding   |-> [incoming_ssrc |-> p.ssrc, needs_key_frame |-> FALSE,
                            first_incoming |-> p.ids, first_outgoing |-> first,
                            max_incoming |-> p.ids],
          switching    |-> None,
          max_outgoing |-> first]

\* The switch to another layer, at one of its key frames.
Switch(v, p) ==
    IF ~(v.switching = p.ssrc /\ p.key) THEN v
    ELSE LET first == CheckedAdd(v.max_outgoing, SwitchGap) IN
         [forwarding   |-> [incoming_ssrc |-> p.ssrc, needs_key_frame |-> FALSE,
                            first_incoming |-> p.ids, first_outgoing |-> first,
                            max_incoming |-> p.ids],
          switching    |-> None,
          max_outgoing |-> first]

\* The IDs of a packet in full.  An ID that the key frame did not have stays away.
ExpandIds(ids, max) ==
    [f \in IdFields |-> IF f = "seqnum" THEN ids[f]
                        ELSE IF Both(ids, max, f) THEN Expand(ids[f], max[f], f) ELSE None]

\* Seeded fault: IDs are counted from the largest one, not from the key frame.
RewriteFromMax(v, p) ==
    LET w        == v.forwarding
        incoming == ExpandIds(p.ids, w.max_incoming)
        offset   == CheckedSub(incoming, w.first_incoming)
        out      == CheckedAdd(v.max_outgoing, offset)
    IN  IF offset = None THEN [fwd |-> v, out |-> None]
        ELSE [fwd |-> [v EXCEPT !.forwarding.max_incoming = MaxIds(@, incoming),
                                !.max_outgoing = MaxIds(@, out)], out |-> out]

\* The rest of forward_vp8_rtp, for a packet of the layer being forwarded.  The
\* largest incoming IDs are kept even if the packet turns out to predate the switch.
Rewrite(v, p) ==
    LET w        == v.forwarding
        incoming == ExpandIds(p.ids, w.max_incoming)
        max      == [f \in IdFields |->
                        IF f = "seqnum" \/ incoming[f] = None THEN w.max_incoming[f]
                        ELSE Larger(w.max_incoming[f], incoming[f])]
        offset   == CheckedSub(incoming, w.first_incoming)
        kept     == [w EXCEPT !.max_incoming = max]
    IN  IF offset = None THEN [fwd |-> [v EXCEPT !.forwarding = kept], out |-> None]
        ELSE LET out == CheckedAdd(w.first_outgoing, offset) IN
             [fwd |-> [forwarding   |-> [kept EXCEPT !.needs_key_frame = @ /\ ~p.key],
                       switching    |-> v.switching,
                       max_outgoing |-> MaxIds(v.max_outgoing, out)],
              out |-> out]

\* forward_vp8_rtp.
Vp8Forward(v, p) ==
    LET switched == Switch(v, p) IN
    CASE ~Forwardable(p)                      -> [fwd |-> v, out |-> None]
      [] Forwardable(p) /\ ForwardingSsrc(switched) # p.ssrc ->
                                                 [fwd |-> switched, out |-> None]
      [] OTHER                                -> Rewrite(switched, p)
------------------------------------------------------------------------------
(* A forwarder and the packets of its sender.                              *)

OptIds      == [IdFields -> Nat \cup {None}]
Forwardings == [incoming_ssrc : Ssrcs, needs_key_frame : BOOLEAN, first_incoming : OptIds,
                first_outgoing : [IdFields -> Nat], max_incoming : OptIds]

ASSUME NoneAssumption ==
    /\ None \notin Nat \cup Ssrcs \cup {"audio"}
    /\ None \notin OptIds \cup Forwardings
    /\ None \notin [ssrc : Ssrcs \cup {"audio"}, first : Int, offset : Int]

ASSUME ForwardersAssumption ==
    /\ Header \in [Ssrcs -> {"vp8", "dd"}]
    /\ FirstIds \in [Ssrcs -> [IdFields -> Nat]]
    /\ "audio" \notin Ssrcs
    /\ MaxPacket \in [Ssrcs -> Nat] /\ MaxSingle \in Nat /\ MaxGap \in Nat

Init == /\ kind \in {"single", "vp8"}
        /\ fwd = IF kind = "single" THEN NewSingle ELSE NewVp8
        /\ delivered = [s \in Ssrcs \cup {"audio"} |-> {}]
        /\ sent = {}

OnlySeqnum(n) == [f \in IdFields |-> IF f = "seqnum" THEN n ELSE None]

\* The IDs of packet k of a layer, as the packet has them.
PacketIds(s, k) ==
    [f \in IdFields |->
        CASE f = "seqnum" -> FirstIds[s][f] + k
          [] f = "tl0_pic_idx" /\ Header[s] = "vp8" -> (FirstIds[s][f] + k \div 2) % Cycle(f)
          [] \/ f = "picture_id" /\ Header[s] = "vp8"
             \/ f = "frame_number" /\ Header[s] = "dd"
             \/ f = "timestamp" -> (FirstIds[s][f] + k) % Cycle(f)
          [] OTHER -> None]

\* A packet is delivered once, not too late and not after too long a loss.
Deliver(s, k) ==
    /\ k \notin delivered[s]
    /\ \A j \in delivered[s] : k > j - MaxGap
    /\ delivered[s] # {} => \E j \in delivered[s] : k < j + MaxGap
    /\ delivered' = [delivered EXCEPT ![s] = @ \cup {k}]

\* forward_audio_rtp and forward_data_rtp.  Silence is not forwarded and leaves a
\* gap of any length.
ForwardSingle(n) ==
    LET r == SingleForward(fwd, n) IN
    /\ kind = "single"
    /\ n \notin delivered["audio"]
    /\ delivered' = [delivered EXCEPT !["audio"] = @ \cup {n}]
    /\ fwd' = r.fwd
    /\ sent' = IF r.out = None THEN sent
               ELSE sent \cup {[ssrc |-> "audio", ids |-> OnlySeqnum(n), key |-> TRUE,
                                out |-> OnlySeqnum(r.out), seg |-> r.fwd.first_outgoing]}
    /\ UNCHANGED kind

\* forward_video_rtp, for a packet with or without its VP8 IDs.
ForwardVideo(s, k, key, whole) ==
    LET ids == IF whole THEN PacketIds(s, k) ELSE [PacketIds(s, k) EXCEPT !["picture_id"] = None]
        r   == Vp8Forward(fwd, [ssrc |-> s, key |-> key, header |-> Header[s], ids |-> ids])
    IN  /\ kind = "vp8"
        /\ whole \/ Header[s] = "vp8"
        /\ Deliver(s, k)
        /\ fwd' = r.fwd
        /\ sent' = IF r.out = None THEN sent
                   ELSE sent \cup {[ssrc |-> s, ids |-> ids, key |-> key, out |-> r.out,
                                    seg |-> r.fwd.forwarding.first_outgoing["seqnum"]]}
        /\ UNCHANGED kind

\* allocate_video_layers wants another layer, or none.
Choose(desired) ==
    /\ kind = "vp8"
    /\ fwd' = SetDesired(fwd, desired)
    /\ UNCHANGED <<kind, delivered, sent>>

\* The receiver asks for a key frame.
AskForKeyFrame ==
    /\ kind = "vp8"
    /\ fwd' = SetNeedsKeyFrame(fwd)
    /\ UNCHANGED <<kind, delivered, sent>>

Next == \/ \E n \in 0..MaxSingle : ForwardSingle(n)
        \/ \E s \in Ssrcs, key, whole \in BOOLEAN : \E k \in 0..MaxPacket[s] :
              ForwardVideo(s, k, key, whole)
        \/ \E d \in Ssrcs \cup {None} : Choose(d)
        \/ AskForKeyFrame

Spec == Init /\ [][Next]_vars
------------------------------------------------------------------------------
(* Properties.                                                             *)

\* Every variable has its type (struct SingleSsrcRtpForwarder, Vp8SimulcastRtpForwarder).
TypeOK ==
    /\ kind \in {"single", "vp8"}
    /\ kind = "single" => fwd \in [first_incoming : Nat, first_outgoing : Nat, max_outgoing : Nat]
    /\ kind = "vp8" =>
          /\ fwd.switching \in Ssrcs \cup {None}
          /\ fwd.max_outgoing \in [IdFields -> Nat]
          /\ fwd.forwarding # None =>
                fwd.forwarding \in Forwardings
    /\ \A s \in DOMAIN delivered : delivered[s] \subseteq Nat
    /\ sent \subseteq [ssrc : Ssrcs \cup {"audio"}, ids : OptIds, key : BOOLEAN,
                       out : OptIds, seg : Nat]

\* The receiver sees one stream although it is cut from several: forward_rtp and
\* forward_vp8_rtp implement OneStream.
StreamPacket(e) == [ssrc |-> e.ssrc, incoming |-> e.ids["seqnum"], key |-> e.key,
                    outgoing |-> e.out["seqnum"]]

CurrentSegment ==
    IF kind = "single"
    THEN IF sent = {} THEN None
         ELSE [ssrc |-> "audio", first |-> fwd.first_incoming,
               offset |-> fwd.first_outgoing - fwd.first_incoming]
    ELSE IF fwd.forwarding = None THEN None
         ELSE LET w == fwd.forwarding IN
              [ssrc |-> w.incoming_ssrc, first |-> w.first_incoming["seqnum"],
               offset |-> w.first_outgoing["seqnum"] - w.first_incoming["seqnum"]]

Stream == INSTANCE OneStream WITH
    sent <- {StreamPacket(e) : e \in sent}, segment <- CurrentSegment

ImplementsOneStream == Stream!Spec

\* Rewriting keeps the order of frames: on the wire, two packets of a segment are as far
\* apart in picture ID, TL0PICIDX, frame number and timestamp as they were when they came
\* in, also where the short counters wrap (forward_vp8_rtp, expand_truncated_counter).
KeepDistance(a, b) ==
    a.seg = b.seg => \A f \in IdFields : Both(a.ids, b.ids, f) =>
        /\ Both(a.out, b.out, f)
        /\ (a.out[f] - b.out[f]) % Cycle(f) = (a.ids[f] - b.ids[f]) % Cycle(f)

\* Whatever is sent after a switch has higher IDs than what was sent before it, in each
\* field that both have: the decoder never sees a picture ID again (SwitchGap).
IdsRise(a, b) ==
    a.seg < b.seg => \A f \in IdFields : Both(a.out, b.out, f) => a.out[f] < b.out[f]

\* The receiver sees the frames of all layers as those of one stream: any two packets
\* that were forwarded keep their distance, or the later segment is higher throughout.
IdsAreOneStream == \A a, b \in sent : KeepDistance(a, b) /\ IdsRise(a, b)

\* The receiver can tell a loss from a wrap: an audio or data packet is less than half
\* a cycle of sequence numbers above the ones before it (the reset in forward_rtp).
NoAmbiguousGap ==
    [][ \A e \in sent' \ sent : kind = "single" =>
           e.out["seqnum"] < fwd.max_outgoing + Cycle("seqnum") \div 2 ]_vars
==============================================================================
