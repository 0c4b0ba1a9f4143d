----------------------------- MODULE RtpPackets ------------------------------
(***************************************************************************)
(* RTP packets as they are on the wire and in memory, from Header::parse   *)
(* to the encryption of what is sent: backend/src/rtp/packet.rs, with the  *)
(* rewriting of forward_video_rtp (call.rs), vp8.rs, and the order of      *)
(* steps in receive_rtp, send_rtp and resend_rtp (rtp.rs).                 *)
(*                                                                         *)
(* A packet in memory is its bytes, the values that were parsed from them  *)
(* and the ranges where values are that may be written again.  The bytes   *)
(* of the wire are cells that hold a number.  A value that is always at    *)
(* the same place takes one cell; sequence numbers of transport-cc, frame  *)
(* numbers and picture IDs take two.  The tag at the end is left out.      *)
(***************************************************************************)
EXTENDS Integers, Sequences, SequencesExt

CONSTANTS Layouts,   \* what comes in: csrcs, profile, extensions, pt, payload
          Word,      \* cells to which extensions are padded
          MaxResends

VARIABLES packet,     \* the packet being handled, or NoPacket
          stage,
          remembered, \* previously_sent_by_seqnum, of the packet
          original,   \* history: the packet as it was received
          resends

vars == <<packet, stage, remembered, original, resends>>

MinHeader == 5        \* flags, payload type, seqnum, timestamp, SSRC
ExtensionsHeader == 2 \* profile, length in words

ExtTcc == 1           \* RTP_EXT_ID_*
ExtRotation == 4
ExtDescriptor == 6

Vp8 == 108            \* VP8_PAYLOAD_TYPE; retransmissions have 10 more
ToRtx(n) == n + 10    \* to_rtx_payload_type; SSRCs have their own, by 1
IsRtxType(pt) == pt = ToRtx(Vp8)
ToRtxSsrc(ssrc) == ssrc + 1

\* Two cells hold one number.
Pair(n) == <<n \div 4, n % 4>>
FromPair(c) == c[1] * 4 + c[2]

\* Cells of a range from start up to end, as in the source: counted from 0.
Cells(wire, start, end) == SubSeq(wire, start + 1, end)
Written(wire, start, cells) ==
    [i \in 1..Len(wire) |-> IF i - start \in 1..Len(cells) THEN cells[i - start] ELSE wire[i]]
------------------------------------------------------------------------------
(* Writing: write_serialized, write_extension.                             *)

\* An extension has an ID and its value; its header takes one byte or two.
WriteExtension(profile, e) ==
    (IF profile = 1 THEN <<e.id * 16 + Len(e.val) - 1>> ELSE <<e.id, Len(e.val)>>) \o e.val

WriteExtensions(profile, es) ==
    LET cells  == FlattenSeq([i \in 1..Len(es) |-> WriteExtension(profile, es[i])])
        words  == (Len(cells) + Word - 1) \div Word
    IN  IF es = <<>> THEN <<>>
        ELSE <<profile, words>> \o cells \o [i \in 1..(words * Word - Len(cells)) |-> 0]

WriteSerialized(csrcs, profile, es, pt, seqnum, timestamp, ssrc, payload) ==
    <<(IF es = <<>> THEN 0 ELSE 16) + csrcs, pt, seqnum, timestamp, ssrc>>
    \o [i \in 1..csrcs |-> 99] \o WriteExtensions(profile, es) \o payload
------------------------------------------------------------------------------
(* Header::parse.                                                          *)

NoExtensions == [ok |-> TRUE, tcc |-> <<>>, descriptor |-> <<>>, rotation |-> <<>>]

\* The extensions from `start` on: where the values are that are written again.  `base` is
\* where extensions begin on the wire.
ParseExtensions(cells, profile, base) ==
    LET f[start \in 0..(Len(cells) + 1)] ==
          IF start >= Len(cells) THEN NoExtensions
          ELSE IF Len(cells) - start < profile
          THEN [NoExtensions EXCEPT !.ok = cells[start + 1] = 0]
          ELSE LET id  == IF profile = 1 THEN cells[start + 1] \div 16 ELSE cells[start + 1]
                   len == IF profile = 1 THEN (cells[start + 1] % 16) + 1 ELSE cells[start + 2]
                   from == start + profile
                   range == <<base + from, base + from + len>>
               IN  IF id = 0 THEN NoExtensions
                   ELSE IF from + len > Len(cells) \/ (id = ExtDescriptor /\ len < 3)
                   THEN [NoExtensions EXCEPT !.ok = FALSE]
                   ELSE LET rest == f[from + len]
                        IN  CASE id = ExtTcc /\ len = 2 /\ rest.tcc = <<>> ->
                                    [rest EXCEPT !.tcc = range]
                              [] id = ExtDescriptor /\ rest.descriptor = <<>> ->
                                    [rest EXCEPT !.descriptor = range]
                              [] id = ExtRotation /\ len = 1 /\ rest.rotation = <<>> ->
                                    [rest EXCEPT !.rotation = range]
                              [] OTHER -> rest
    IN  f[0]

Invalid == [valid |-> FALSE]

Parse(wire) ==
    LET csrcs == wire[1] % 16
        start == MinHeader + csrcs
        has   == wire[1] \div 16 = 1
        words == wire[start + 2]
        end   == start + (IF has THEN ExtensionsHeader + words * Word ELSE 0)
        es    == IF has THEN ParseExtensions(Cells(wire, start + ExtensionsHeader, end),
                                             wire[start + 1], start + ExtensionsHeader)
                 ELSE NoExtensions
    IN  IF end > Len(wire) \/ ~es.ok THEN Invalid
        ELSE [valid |-> TRUE, pt |-> wire[2], seqnum |-> wire[3], timestamp |-> wire[4],
              ssrc |-> wire[5], tcc_range |-> es.tcc, descriptor_range |-> es.descriptor,
              payload_start |-> end]
------------------------------------------------------------------------------
(* Packet.                                                                 *)

NoPacket == [valid |-> FALSE]

\* seqnum_in_payload, tcc_seqnum and frame are -1 when there is none.
TccOf(h, wire) == IF h.tcc_range = <<>> THEN -1
                  ELSE FromPair(Cells(wire, h.tcc_range[1], h.tcc_range[2]))
FrameOf(h, wire) == IF h.descriptor_range = <<>> THEN -1
                    ELSE FromPair(Cells(wire, h.descriptor_range[1] + 1, h.descriptor_range[1] + 3))

PacketNew(h, wire) ==
    [valid |-> TRUE, pt |-> h.pt, ssrc |-> h.ssrc, seqnum_in_header |-> h.seqnum,
     seqnum_in_payload |-> -1, timestamp |-> h.timestamp, tcc_seqnum |-> TccOf(h, wire),
     frame |-> FrameOf(h, wire), tcc_range |-> h.tcc_range,
     descriptor_range |-> h.descriptor_range, payload_start |-> h.payload_start,
     encrypted |-> FALSE, wire |-> wire]

IsRtx(p) == p.seqnum_in_payload # -1
Seqnum(p) == IF IsRtx(p) THEN p.seqnum_in_payload ELSE p.seqnum_in_header
PayloadStart(p) == IF IsRtx(p) THEN p.payload_start + 1 ELSE p.payload_start
Payload(p) == Cells(p.wire, PayloadStart(p), Len(p.wire))

SetSsrc(p, ssrc) == [p EXCEPT !.ssrc = ssrc, !.wire = Written(@, 4, <<ssrc>>)]
SetPayloadType(p, pt) == [p EXCEPT !.pt = pt, !.wire = Written(@, 1, <<pt>>)]
SetSeqnumInHeader(p, n) == [p EXCEPT !.seqnum_in_header = n, !.wire = Written(@, 2, <<n>>)]
SetTimestamp(p, t) == [p EXCEPT !.timestamp = t, !.wire = Written(@, 3, <<t>>)]
SetTccSeqnumIfPresent(p, n) ==
    IF p.tcc_range = <<>> THEN p
    ELSE [p EXCEPT !.tcc_seqnum = n, !.wire = Written(@, p.tcc_range[1], Pair(n))]

\* Seeded fault: the frame number is written where the descriptor begins.
SetFrameNumberAtStart(p, n) ==
    IF p.descriptor_range = <<>> THEN p
    ELSE [p EXCEPT !.frame = n, !.wire = Written(@, p.descriptor_range[1], Pair(n))]

SetFrameNumber(p, n) ==
    IF p.descriptor_range = <<>> THEN p
    ELSE [p EXCEPT !.frame = n, !.wire = Written(@, p.descriptor_range[1] + 1, Pair(n))]

SetSeqnumInPayload(p, n) ==
    [p EXCEPT !.seqnum_in_payload = n, !.wire = Written(@, p.payload_start, <<n>>)]

\* rewrite.  The number in the header of a retransmission is set when it is sent.
Rewrite(p, ssrc, seqnum, timestamp) ==
    SetTimestamp(IF IsRtx(p) THEN SetSeqnumInPayload(SetSsrc(p, ToRtxSsrc(ssrc)), seqnum)
                 ELSE SetSeqnumInHeader(SetSsrc(p, ssrc), seqnum), timestamp)

\* Seeded fault: a retransmission of a retransmission is wrapped once more.
ToRtxAgain(p, n) ==
    LET wrapped == [p EXCEPT !.wire = Cells(@, 0, PayloadStart(p)) \o <<p.seqnum_in_header>>
                                      \o Payload(p),
                             !.seqnum_in_payload = p.seqnum_in_header]
    IN  SetSeqnumInHeader(SetSsrc(SetPayloadType(wrapped, ToRtx(Vp8)), ToRtxSsrc(p.ssrc)), n)

\* to_rtx: the logical number goes in front of the payload.
ToRtxPacket(p, n) ==
    LET wrapped == [p EXCEPT !.wire = Cells(@, 0, PayloadStart(p)) \o <<p.seqnum_in_header>>
                                      \o Payload(p),
                             !.seqnum_in_payload = p.seqnum_in_header]
    IN  IF IsRtx(p) THEN SetSeqnumInHeader(p, n)
        ELSE SetSeqnumInHeader(SetSsrc(SetPayloadType(wrapped, ToRtx(p.pt)), ToRtxSsrc(p.ssrc)), n)

\* with_empty_tag, which gives the range of the transport-cc number as a constant.
WithEmptyTag(pt, seqnum, timestamp, ssrc, tcc, payload) ==
    LET wire == WriteSerialized(0, 1, <<[id |-> ExtTcc, val |-> Pair(tcc)]>>,
                                pt, seqnum, timestamp, ssrc, payload)
        at   == MinHeader + ExtensionsHeader + 1
    IN  [valid |-> TRUE, pt |-> pt, ssrc |-> ssrc, seqnum_in_header |-> seqnum,
         seqnum_in_payload |-> -1, timestamp |-> timestamp, tcc_seqnum |-> tcc, frame |-> -1,
         tcc_range |-> <<at, at + 2>>, descriptor_range |-> <<>>,
         payload_start |-> Len(wire) - Len(payload), encrypted |-> FALSE, wire |-> wire]
------------------------------------------------------------------------------
(* The descriptor in a VP8 payload: X, then I, L and T in a byte of their  *)
(* own, the picture ID, TL0PICIDX and the temporal layer.                  *)

LongId == 8  \* the bit of a picture ID of 15 bits

\* ParsedHeader::read: the IDs, or -1 for one that is not there.
ReadVp8(payload) ==
    LET x    == payload[1] = 1
        bits == payload[2]
        id   == x /\ bits \div 4 = 1
        tl0  == x /\ (bits \div 2) % 2 = 1
    IN  [picture_id  |-> IF id THEN FromPair(<<payload[3] - LongId, payload[4]>>) ELSE -1,
         tl0_pic_idx |-> IF tl0 THEN payload[IF id THEN 5 ELSE 3] ELSE -1]

MayModify(ids) == ids.picture_id # -1 /\ ids.tl0_pic_idx # -1

\* modify_header, at the places where both IDs are when both are there.
ModifyVp8(p, picture_id, tl0_pic_idx) ==
    LET c == Pair(picture_id)
    IN  [p EXCEPT !.wire = Written(@, PayloadStart(p) + 2, <<c[1] + LongId, c[2], tl0_pic_idx>>)]
------------------------------------------------------------------------------
Init == /\ packet = NoPacket /\ remembered = NoPacket /\ original = NoPacket
        /\ stage = "wire" /\ resends = 0

\* receive_rtp, once decrypted: a retransmission has its number in front of its payload.
Unwrap(p) == IF IsRtxType(p.pt) THEN [p EXCEPT !.seqnum_in_payload = p.wire[p.payload_start + 1]]
             ELSE p

Receive(l) ==
    LET wire == WriteSerialized(l.csrcs, l.profile, l.extensions, l.pt, 3, 5, 7, l.payload)
        h    == Parse(wire)
    IN  /\ stage = "wire" /\ h.valid
        /\ packet' = Unwrap(PacketNew(h, wire)) /\ original' = packet'
        /\ stage' = "received"
        /\ UNCHANGED <<remembered, resends>>

\* forward_video_rtp, with IDs that differ from those that came in.
Forward(ssrc, seqnum, timestamp, frame, picture_id, tl0_pic_idx) ==
    LET ids       == IF packet.descriptor_range = <<>> THEN ReadVp8(Payload(packet))
                     ELSE [picture_id |-> -1, tl0_pic_idx |-> -1]
        rewritten == SetFrameNumber(Rewrite(packet, ssrc, seqnum, timestamp), frame)
    IN  /\ stage = "received"
        /\ packet' = IF MayModify(ids) THEN ModifyVp8(rewritten, picture_id, tl0_pic_idx)
                     ELSE rewritten
        /\ stage' = "forwarded"
        /\ UNCHANGED <<remembered, original, resends>>

Encrypted(p) == [p EXCEPT !.encrypted = TRUE]

\* send_rtp and encrypt_and_send_rtp: remembered as it is before it is encrypted.
Send(rtx_seqnum, tcc) ==
    LET numbered == SetTccSeqnumIfPresent(
                        IF IsRtx(packet) THEN SetSeqnumInHeader(packet, rtx_seqnum) ELSE packet, tcc)
    IN  /\ stage = "forwarded"
        /\ remembered' = numbered /\ packet' = Encrypted(numbered)
        /\ stage' = "sent"
        /\ UNCHANGED <<original, resends>>

\* resend_rtp and resend_as_rtx.
Resend(rtx_seqnum, tcc) ==
    LET rtx == SetTccSeqnumIfPresent(ToRtxPacket(remembered, rtx_seqnum), tcc)
    IN  /\ stage = "sent" /\ resends < MaxResends
        /\ remembered' = rtx /\ packet' = Encrypted(rtx)
        /\ resends' = resends + 1
        /\ UNCHANGED <<stage, original>>

\* send_padding.
SendPadding(rtx_seqnum, tcc) ==
    /\ stage = "wire"
    /\ packet' = Encrypted(WithEmptyTag(99, rtx_seqnum, 0, 8, tcc, <<0, 0>>))
    /\ stage' = "padding"
    /\ UNCHANGED <<remembered, original, resends>>

Next == \/ \E l \in Layouts : Receive(l)
        \/ \E frame \in {9, 10} : Forward(17, 13, 15, frame, 11, 2)
        \/ \E tcc \in {6, 14} : Send(21, tcc)
        \/ \E tcc \in {7, 15} : Resend(22 + resends, tcc)
        \/ SendPadding(23, 5)

Spec == Init /\ [][Next]_vars
------------------------------------------------------------------------------
Agrees(p) ==
    LET h == Parse(p.wire)
    IN  /\ h.valid
        /\ h.pt = p.pt /\ h.ssrc = p.ssrc /\ h.seqnum = p.seqnum_in_header
        /\ h.timestamp = p.timestamp /\ h.payload_start = p.payload_start
        /\ TccOf(h, p.wire) = p.tcc_seqnum /\ FrameOf(h, p.wire) = p.frame
        /\ IsRtx(p) = IsRtxType(p.pt)
        /\ IsRtx(p) => p.wire[p.payload_start + 1] = p.seqnum_in_payload

\* A packet in memory and its bytes say the same, after every rewriting: the values the SFU
\* goes by are those its receiver will parse, wherever the extensions of the packet are.
WireIsPacket == \A p \in {packet, remembered} : p.valid => Agrees(p)

\* Neither the payload nor an extension is damaged by what is written: but for the IDs of
\* VP8, when both are there, the payload is the one that came in, however often it is
\* wrapped to be resent; and the packet has its logical SSRC and number.
PayloadIsKept ==
    packet.valid /\ original.valid =>
        LET was == Payload(original)
            is  == Payload(packet)
            ids == ReadVp8(was)
            changed == stage # "received" /\ original.descriptor_range = <<>>
                       /\ ids.picture_id # -1 /\ ids.tl0_pic_idx # -1
        IN  /\ Len(is) = Len(was)
            /\ \A i \in 1..Len(was) : (changed /\ i \in 3..5) \/ is[i] = was[i]
            /\ changed => ReadVp8(is) = [picture_id |-> 11, tl0_pic_idx |-> 2]
            /\ stage # "received" => Seqnum(packet) = 13
------------------------------------------------------------------------------
(* DependencyDescriptorReader, which reads the extension that tells key    *)
(* frames and their resolution, against the format it reads, given as a    *)
(* sequence of bits.                                                       *)

RECURSIVE ReadMany(_, _, _, _), ReadLayers(_, _, _), ReadFdiffs(_, _, _), BitsOf(_, _),
          ValueOf(_)

Pow2(n) == 2 ^ n

\* A reader is at a bit of a byte, both counted from 0, and has read v; or it has failed.
At(byte, bit, v) == [ok |-> TRUE, byte |-> byte, bit |-> bit, v |-> v]
Failed == [ok |-> FALSE]

\* Seeded fault: the rest of the current byte is not masked.
InCurrentUnmasked(b, bits) == b

InCurrent(b, bits) == b % Pow2(bits)

\* read_u8: from one byte, or the rest of it and the beginning of the next.
ReadU8(bytes, r, bits) ==
    LET last == Len(bytes) - 1
        byte == bytes[r.byte + 1]
        in_current == 8 - r.bit
        in_next    == bits - in_current
    IN  IF r.byte > last \/ (r.byte = last /\ r.bit + bits > 8) THEN Failed
        ELSE IF r.bit + bits >= 8
        THEN At(r.byte + 1, (r.bit + bits) % 8,
                ((InCurrent(byte, in_current) * Pow2(in_next)) % 256)
                + (IF in_next > 0 THEN bytes[r.byte + 2] \div Pow2(8 - in_next) ELSE 0))
        ELSE At(r.byte, r.bit + bits, (byte \div Pow2(8 - r.bit - bits)) % Pow2(bits))

\* Reads of `bits` bits each, for what is only skipped.
ReadMany(bytes, r, bits, n) ==
    IF ~r.ok \/ n = 0 THEN r ELSE ReadMany(bytes, ReadU8(bytes, r, bits), bits, n - 1)

\* read_u16.
ReadU16(bytes, r) ==
    LET upper == ReadU8(bytes, r, 8)
        lower == ReadU8(bytes, upper, 8)
    IN  IF ~upper.ok THEN Failed ELSE IF ~lower.ok THEN Failed
        ELSE At(lower.byte, lower.bit, upper.v * 256 + lower.v)

\* The templates: as many as there are layers up to the 3 that ends them.
ReadLayers(bytes, r, count) ==
    LET next == ReadU8(bytes, r, 2)
    IN  IF ~next.ok THEN Failed
        ELSE IF next.v = 3 THEN At(next.byte, next.bit, count)
        ELSE ReadLayers(bytes, next, count + 1)

ReadFdiffs(bytes, r, templates) ==
    IF ~r.ok \/ templates = 0 THEN r
    ELSE LET more == ReadU8(bytes, r, 1)
         IN  IF ~more.ok THEN Failed
             ELSE IF more.v = 1 THEN ReadFdiffs(bytes, ReadMany(bytes, more, 4, 1), templates)
             ELSE ReadFdiffs(bytes, more, templates - 1)

\* skip_non_symmetric, of a number below n.
BitLength(n) == CHOOSE w \in 1..8 : Pow2(w) > n /\ Pow2(w - 1) <= n

\* Seeded fault: every value takes as many bits as the highest.
SkipLongest(bytes, r, n) == IF ~r.ok THEN Failed ELSE ReadU8(bytes, r, BitLength(n))

SkipNonSymmetric(bytes, r, n) ==
    LET w == BitLength(n)
        v == ReadU8(bytes, r, w - 1)
    IN  IF ~r.ok THEN Failed
        ELSE IF ~v.ok \/ v.v < Pow2(w) - n THEN v
        ELSE ReadU8(bytes, v, 1)

Plain(frame) == [ok |-> TRUE, frame |-> frame, key |-> FALSE, size |-> <<>>]

\* read.
Read(bytes) ==
    LET number    == ReadU16(bytes, At(1, 0, 0))
        structure == ReadU8(bytes, number, 1)
        flags     == ReadMany(bytes, structure, 1, 4)
        offset    == ReadU8(bytes, flags, 6)
        targets   == ReadU8(bytes, offset, 5)
        layers    == ReadLayers(bytes, targets, 1)
        dtis      == ReadMany(bytes, layers, 2, layers.v * (targets.v + 1))
        fdiffs    == ReadFdiffs(bytes, dtis, layers.v)
        chains    == SkipNonSymmetric(bytes, fdiffs, targets.v + 2)
        present   == ReadU8(bytes, chains, 1)
        width     == ReadU16(bytes, present)
        height    == ReadU16(bytes, width)
        plus1(n)  == IF n = 65535 THEN n ELSE n + 1
    IN  IF Len(bytes) = 3 THEN Plain(number.v)
        ELSE IF ~structure.ok THEN Failed ELSE IF ~flags.ok THEN Failed
        ELSE IF structure.v = 0 THEN Plain(number.v)
        ELSE IF ~offset.ok THEN Failed ELSE IF ~targets.ok THEN Failed
        ELSE IF ~layers.ok THEN Failed ELSE IF ~dtis.ok THEN Failed
        ELSE IF ~fdiffs.ok THEN Failed ELSE IF ~chains.ok THEN Failed
        ELSE IF ~present.ok THEN Failed
        ELSE IF present.v = 0 THEN [Plain(number.v) EXCEPT !.key = TRUE]
        ELSE IF ~width.ok THEN Failed ELSE IF ~height.ok THEN Failed
        ELSE [Plain(number.v) EXCEPT !.key = TRUE, !.size = <<plus1(width.v), plus1(height.v)>>]
------------------------------------------------------------------------------
(* The format, as bits.                                                    *)

BitsOf(n, width) == IF width = 0 THEN <<>> ELSE Append(BitsOf(n \div 2, width - 1), n % 2)
ValueOf(bits) == IF bits = <<>> THEN 0 ELSE 2 * ValueOf(Front(bits)) + Last(bits)
AllBits(bytes) == FlattenSeq([i \in 1..Len(bytes) |-> BitsOf(bytes[i], 8)])
AsBytes(bits) ==
    LET full == bits \o [i \in 1..((8 - (Len(bits) % 8)) % 8) |-> 0]
    IN  [i \in 1..(Len(full) \div 8) |-> ValueOf(SubSeq(full, 8 * i - 7, 8 * i))]
Concat(n, bits) == FlattenSeq([i \in 1..n |-> bits])

\* A value below n takes one bit less than n, or as many if it is one of the last.
NonSymmetric(v, n) ==
    LET w == BitLength(n)
        m == Pow2(w) - n
    IN  IF v < m THEN BitsOf(v, w - 1) ELSE BitsOf(v + m, w)

KeyFrame(d) ==
    AsBytes(BitsOf(0, 8) \o BitsOf(d.frame, 16) \o <<1, 0, 0, 0, 0>> \o BitsOf(d.offset, 6)
            \o BitsOf(d.targets - 1, 5)
            \o Concat(d.templates - 1, BitsOf(d.idc, 2)) \o <<1, 1>>
            \o Concat(d.templates * d.targets, <<1, 0>>)
            \o Concat(d.templates, Concat(d.fdiffs, <<1, 0, 1, 0, 1>>) \o <<0>>)
            \o NonSymmetric(0, d.targets + 1)
            \o (IF d.size = <<>> THEN <<0>>
                ELSE <<1>> \o BitsOf(d.size[1] - 1, 16) \o BitsOf(d.size[2] - 1, 16)))
------------------------------------------------------------------------------
\* The bits that are read are those of the bytes, at any offset and across bytes, and
\* nothing is read past the end.
BitsAreRead(bytes, byte, bit, bits) ==
    LET r  == ReadU8(bytes, At(byte, bit, 0), bits)
        at == 8 * byte + bit
    IN  IF at + bits > 8 * Len(bytes) THEN ~r.ok
        ELSE r.ok /\ r.v = ValueOf(SubSeq(AllBits(bytes), at + 1, at + bits))
             /\ 8 * r.byte + r.bit = at + bits

\* A key frame is seen as one, with its frame number and its resolution, whatever is in its
\* template structure; when bytes are missing, it is refused.
KeyFrameIsRead(d) ==
    LET bytes == KeyFrame(d)
    IN  /\ Read(bytes) = [ok |-> TRUE, frame |-> d.frame, key |-> TRUE, size |-> d.size]
        /\ \A n \in 4..(Len(bytes) - 1) : ~Read(SubSeq(bytes, 1, n)).ok
==============================================================================
