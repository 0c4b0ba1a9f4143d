----------------------------- MODULE RtcpPackets -----------------------------
(***************************************************************************)
(* RTCP as it is written and read: backend/src/rtp/rtcp.rs, the encoding   *)
(* of NACKs in nack.rs and the sending functions of rtp.rs.                *)
(*                                                                         *)
(* A packet is a sequence of words of 32 bits and its footer; the tag that *)
(* authenticates it is the key stream it was encrypted with, named by the  *)
(* SSRC and the SRTCP index.  A word is a header or a value; 0 fills what  *)
(* is not written.                                                         *)
(*                                                                         *)
(* The statistics of a received stream that RtcpReportSender keeps and     *)
(* puts into receiver reports are the variables.  Packets come reordered   *)
(* and with gaps, each sequence number once; a stream may restart from     *)
(* another number.                                                         *)
(***************************************************************************)
EXTENDS Integers, Sequences, SequencesExt, FiniteSets

CONSTANTS SeqnumCycle, \* 2^16
          MaskBits,    \* 16, of an item of a NACK
          IndexLimit   \* 2^31, of the SRTCP index

RECURSIVE ReadCompound(_, _), WriteItems(_, _, _)

NoPacket == [none |-> TRUE]
Value(v) == [v |-> v]
RtcpHeader(type, count, words) == [type |-> type, count |-> count, words |-> words]
IsHeader(w) == "words" \in DOMAIN w
Zeros(n) == [i \in 1..n |-> Value(0)]

SenderInfoWords == 6
ReportBlockWords == 6
------------------------------------------------------------------------------
(* Writing.                                                                *)

\* Seeded fault: a last word that is not full is not counted.
FullWords(bytes) == bytes \div 4

\* round_up_to_multiple_of::<4>, in words.
Words(bytes) == (bytes + 3) \div 4

\* ControlPacket::encrypt: rtcp_iv has no nonce for an index that does not fit.
Encrypt(words, sender_ssrc, index) ==
    IF index >= IndexLimit THEN NoPacket
    ELSE [words |-> words, index |-> index, tag |-> <<sender_ssrc, index>>]

\* serialize_and_encrypt.  The payload is `bytes` bytes long; its last word may not be full.
SerializeAndEncrypt(type, format, sender_ssrc, payload, bytes, index) ==
    LET padded == payload \o Zeros(Words(bytes) - Len(payload))
    IN  Encrypt(<<RtcpHeader(type, format, Words(bytes) + 1), Value(sender_ssrc)>> \o padded,
                sender_ssrc, index)

\* Seeded fault: the length in the header counts the header.
WriteReportCountingAll(r) ==
    IF r.type = "SR" THEN <<RtcpHeader("SR", 0, SenderInfoWords + 1)>> \o r.words
    ELSE <<RtcpHeader("RR", 1, ReportBlockWords + 2)>> \o r.words

\* One report of send_rtcp_report.  r.words is what write_report_block_in_place wrote: the
\* sender's information, or the SSRC of the sender and a block.
WriteReport(r) ==
    IF r.type = "SR" THEN <<RtcpHeader("SR", 0, SenderInfoWords)>> \o r.words
    ELSE <<RtcpHeader("RR", 1, ReportBlockWords + 1)>> \o r.words

\* create_buffer_for_rtcp_reports.
ReportSize(r) == IF r.type = "SR" THEN 1 + SenderInfoWords ELSE 2 + ReportBlockWords

\* send_rtcp_report: the buffer is filled with zeros up to the size it was made with.  Its
\* nonce is that of the SSRC of the first report.
SendRtcpReport(reports, index) ==
    IF reports = <<>> THEN NoPacket
    ELSE LET size    == FoldSeq(LAMBDA r, n : n + ReportSize(r), 0, reports)
             written == FlattenSeq([i \in 1..Len(reports) |-> WriteReport(reports[i])])
         IN  Encrypt(written \o Zeros(size - Len(written)), reports[1].ssrc, index)
------------------------------------------------------------------------------
(* Reading: parse_and_decrypt_in_place.                                    *)

\* SenderReport and ReceiverReport::from_bytes_after_header: nothing if the blocks that are
\* announced do not fit.
ReadReport(h, payload) ==
    LET info   == IF h.type = "SR" THEN SenderInfoWords ELSE 1
        block(i) == SubSeq(payload, info + (i - 1) * ReportBlockWords + 1,
                                    info + i * ReportBlockWords)
    IN  IF h.words < info + h.count * ReportBlockWords THEN <<>>
        ELSE <<[kind |-> h.type, info |-> SubSeq(payload, 1, info),
                blocks |-> [i \in 1..h.count |-> block(i)]]>>

\* parse_nack.
ReadNack(payload) ==
    LET seqnums(item) == <<item.first>> \o
            SelectSeq([i \in 1..MaskBits |-> (item.first + i) % SeqnumCycle],
                      LAMBDA s : \E i \in item.mask : s = (item.first + i) % SeqnumCycle)
    IN  <<[kind |-> "NACK", ssrc |-> payload[1].v,
           seqnums |-> FlattenSeq([i \in 1..(Len(payload) - 1) |-> seqnums(payload[i + 1].v)])]>>

\* What one packet of a compound adds.  A NACK or a PLI without an SSRC is not read; an
\* unknown packet is skipped.
ReadOne(h, payload) ==
    CASE h.type \in {"SR", "RR"}                   -> ReadReport(h, payload)
      [] h.type = "generic" /\ h.count = "NACK"    ->
            IF Len(payload) < 2 THEN <<>> ELSE ReadNack(Tail(payload))
      [] h.type = "generic" /\ h.count = "TCC"     -> <<[kind |-> "TCC", payload |-> Tail(payload)]>>
      [] h.type = "specific" /\ h.count = "PLI"    -> <<[kind |-> "PLI", ssrc |-> payload[2].v]>>
      [] OTHER                                     -> <<>>

\* A length of 0, one past the end, or a PLI that is too small spoils the whole compound.
ReadCompound(words, read) ==
    IF words = <<>> THEN [read |-> read]
    ELSE LET h == words[1]
         IN  IF ~IsHeader(h) \/ h.words = 0 \/ h.words + 1 > Len(words) THEN NoPacket
             ELSE IF h.type = "specific" /\ h.count = "PLI" /\ h.words < 2 THEN NoPacket
             ELSE ReadCompound(SubSeq(words, h.words + 2, Len(words)),
                               read \o ReadOne(h, SubSeq(words, 2, h.words + 1)))

\* The nonce is made from the first SSRC in the packet and the index in the footer.
ParseAndDecrypt(packet) ==
    IF packet.tag # <<packet.words[2].v, packet.index>> THEN NoPacket
    ELSE ReadCompound(packet.words, <<>>)
------------------------------------------------------------------------------
(* NACKs: write_nack.                                                      *)

\* Seeded fault: the mask holds one number too many.
MaskedOneMore(first, seqnum) == seqnum - first \in 1..(MaskBits + 1)

InMask(first, seqnum) == seqnum - first \in 1..MaskBits

WriteItems(first, mask, seqnums) ==
    LET item == Value([first |-> first % SeqnumCycle, mask |-> mask \cap (1..MaskBits)])
    IN  IF seqnums = <<>> THEN <<item>>
        ELSE IF InMask(first, Head(seqnums))
        THEN WriteItems(first, mask \cup {Head(seqnums) - first}, Tail(seqnums))
        ELSE <<item>> \o WriteItems(Head(seqnums), {}, Tail(seqnums))

WriteNack(ssrc, seqnums) ==
    <<Value(ssrc)>> \o (IF seqnums = <<>> THEN <<>> ELSE WriteItems(seqnums[1], {}, Tail(seqnums)))

\* send_nacks, send_acks and send_pli, by way of send_rtcp_and_increment_index.
SendNack(rtcp_sender_ssrc, ssrc, seqnums, index) ==
    LET payload == WriteNack(ssrc, seqnums)
    IN  SerializeAndEncrypt("generic", "NACK", rtcp_sender_ssrc, payload, 4 * Len(payload), index)

SendAck(rtcp_sender_ssrc, payload, bytes, index) ==
    SerializeAndEncrypt("generic", "TCC", rtcp_sender_ssrc, payload, bytes, index)

SendPli(rtcp_sender_ssrc, ssrc, index) ==
    SerializeAndEncrypt("specific", "PLI", rtcp_sender_ssrc, <<Value(ssrc)>>, 4, index)
------------------------------------------------------------------------------
\* A NACK asks, at its reader, for the packets its writer misses and no other, however many
\* items they take and across the rollover of sequence numbers.
NackIsRead(seqnums) ==
    LET packet == SendNack(1, 2, seqnums, 0)
    IN  ParseAndDecrypt(packet) =
           [read |-> <<[kind |-> "NACK", ssrc |-> 2,
                        seqnums |-> [i \in 1..Len(seqnums) |-> seqnums[i] % SeqnumCycle]]>>]

\* All reports of one packet are read: it is authenticated with the SSRC its reader takes,
\* and each header leads to the next with no zeros left over.
ReportsAreRead(reports) ==
    LET packet == SendRtcpReport(reports, 1)
        read(r) == IF r.type = "SR" THEN [kind |-> "SR", info |-> r.words, blocks |-> <<>>]
                   ELSE [kind |-> "RR", info |-> <<r.words[1]>>, blocks |-> <<Tail(r.words)>>]
    IN  ParseAndDecrypt(packet) = [read |-> [i \in 1..Len(reports) |-> read(reports[i])]]

\* What is sent can be put together in any order: a compound is read as its packets are read
\* one by one, a padded one before another included.
CompoundIsRead(packets) ==
    LET compound == Encrypt(FlattenSeq([i \in 1..Len(packets) |-> packets[i].words]),
                            packets[1].words[2].v, 4)
        alone(i) == ParseAndDecrypt(packets[i])
    IN  /\ \A i \in 1..Len(packets) : alone(i) # NoPacket
        /\ ParseAndDecrypt(compound) =
              [read |-> FlattenSeq([i \in 1..Len(packets) |-> alone(i).read])]
------------------------------------------------------------------------------
(* Receiver reports.                                                       *)

CONSTANTS MaxSeqnum,     \* sequence numbers are 0..MaxSeqnum
          GapThreshold,  \* SEQNUM_GAP_THRESHOLD
          JitterLimit,   \* the difference in transmission time that is no longer counted
          MaxCumulative  \* 2^23 - 1

VARIABLES max_seqnum, max_seqnum_in_last, \* -1: None
          cumulative_loss, cumulative_loss_in_last,
          jitter_q4,
          reported,  \* the last report, before its numbers are cut to their width
          stream     \* history: since the last restart, the numbers that came and the first

vars == <<max_seqnum, max_seqnum_in_last, cumulative_loss, cumulative_loss_in_last, jitter_q4,
          reported, stream>>

Init ==
    /\ max_seqnum = -1 /\ max_seqnum_in_last = -1 /\ jitter_q4 = 0
    /\ cumulative_loss = 0 /\ cumulative_loss_in_last = 0
    /\ reported = [fraction |-> 0, cumulative |-> 0, highest |-> -1]
    /\ stream = [first |-> -1, arrived |-> {}]

Minus1(n) == IF n = 0 THEN 0 ELSE n - 1
Distance(a, b) == IF a > b THEN a - b ELSE b - a

FirstReceived(s) ==
    /\ max_seqnum' = s /\ max_seqnum_in_last' = Minus1(s)
    /\ stream' = [first |-> s, arrived |-> {s}]
    /\ UNCHANGED <<cumulative_loss, cumulative_loss_in_last, jitter_q4, reported>>

\* Seeded fault: the losses of the stream before the restart are kept.
RestartKeepingLoss(s) ==
    /\ max_seqnum' = s /\ max_seqnum_in_last' = Minus1(s)
    /\ cumulative_loss_in_last' = 0 /\ jitter_q4' = 0
    /\ stream' = [first |-> s, arrived |-> {s}]
    /\ UNCHANGED <<cumulative_loss, reported>>

\* maybe_receive_stream_restart: a large gap, in either direction.
Restart(s) ==
    /\ max_seqnum' = s /\ max_seqnum_in_last' = Minus1(s)
    /\ cumulative_loss' = 0 /\ cumulative_loss_in_last' = 0 /\ jitter_q4' = 0
    /\ stream' = [first |-> s, arrived |-> {s}]
    /\ UNCHANGED reported

\* Seeded fault: the difference is not of sixteenths.
JitterUnscaled(tx_diff) == jitter_q4 + tx_diff * 16 - ((jitter_q4 + 8) \div 16)

\* update_jitter; \div rounds down, as the shift does.
NewJitter(tx_diff) == jitter_q4 + (tx_diff * 16 - jitter_q4 + 8) \div 16

Advance(s, tx_diff) ==
    /\ cumulative_loss' = cumulative_loss + (s - max_seqnum - 1)
    /\ max_seqnum' = s
    /\ jitter_q4' = IF tx_diff < JitterLimit THEN NewJitter(tx_diff) ELSE jitter_q4
    /\ stream' = [stream EXCEPT !.arrived = @ \cup {s}]
    /\ UNCHANGED <<max_seqnum_in_last, cumulative_loss_in_last, reported>>

\* Seeded fault: a late packet is still counted as lost.
LateStaysLost(s) ==
    /\ stream' = [stream EXCEPT !.arrived = @ \cup {s}]
    /\ UNCHANGED <<max_seqnum, max_seqnum_in_last, cumulative_loss, cumulative_loss_in_last,
                   jitter_q4, reported>>

Late(s) ==
    /\ cumulative_loss' = Minus1(cumulative_loss)
    /\ stream' = [stream EXCEPT !.arrived = @ \cup {s}]
    /\ UNCHANGED <<max_seqnum, max_seqnum_in_last, cumulative_loss_in_last, jitter_q4, reported>>

\* remember_received.
RememberReceived(s, tx_diff) ==
    /\ s \notin stream.arrived
    /\ \/ max_seqnum = -1 /\ FirstReceived(s)
       \/ max_seqnum # -1 /\ Distance(s, max_seqnum) > GapThreshold /\ Restart(s)
       \/ /\ max_seqnum # -1 /\ Distance(s, max_seqnum) <= GapThreshold
          /\ \/ s > max_seqnum /\ Advance(s, tx_diff)
             \/ s < max_seqnum /\ Late(s)

\* write_receiver_report_block_in_place.
WriteReceiverReport ==
    LET expected == IF max_seqnum > max_seqnum_in_last THEN max_seqnum - max_seqnum_in_last ELSE 0
        lost     == IF cumulative_loss > cumulative_loss_in_last
                    THEN cumulative_loss - cumulative_loss_in_last ELSE 0
    IN  /\ max_seqnum # -1
        /\ reported' = [fraction   |-> IF expected = 0 THEN 0 ELSE (256 * lost) \div expected,
                        cumulative |-> IF cumulative_loss < MaxCumulative THEN cumulative_loss
                                       ELSE MaxCumulative,
                        highest    |-> max_seqnum]
        /\ max_seqnum_in_last' = max_seqnum /\ cumulative_loss_in_last' = cumulative_loss
        /\ UNCHANGED <<max_seqnum, cumulative_loss, jitter_q4, stream>>

Next == \/ \E s \in 0..MaxSeqnum, tx_diff \in 0..JitterLimit : RememberReceived(s, tx_diff)
        \/ WriteReceiverReport

Spec == Init /\ [][Next]_vars
------------------------------------------------------------------------------
\* What is counted as lost is what is missing.  A packet from before the first is counted
\* as one that came late, so that each can hide one that is lost; no more can be hidden.
LossIsWhatIsMissing ==
    max_seqnum # -1 =>
        LET missing == Cardinality((stream.first..max_seqnum) \ stream.arrived)
            early   == Cardinality({s \in stream.arrived : s < stream.first})
        IN  /\ cumulative_loss <= missing
            /\ cumulative_loss >= missing - early

\* The fraction that is reported is one: it fits in its byte, where 256 would be no loss.
FractionFits == reported.fraction \in 0..255

\* However many packets come, the jitter stays within the differences that are counted.
JitterIsBounded == jitter_q4 \in 0..(16 * (JitterLimit - 1))
==============================================================================
