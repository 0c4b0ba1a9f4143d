----------------------------- MODULE SenderReports -----------------------------
(***************************************************************************)
(* The statistics of a stream that is forwarded to a client, the sender    *)
(* reports about it, and the round-trip time that the client's receiver    *)
(* reports would give: RtcpReportSender in backend/src/rtp/rtcp.rs.        *)
(*                                                                         *)
(* The endpoint of a connection keeps its statistics by SSRC.  A client    *)
(* sends media, and sender reports, on SSRCs of its own, and is never      *)
(* forwarded a stream on one of these.                                     *)
(***************************************************************************)
EXTENDS Integers, FiniteSets

CONSTANTS Own, Forwarded, \* an SSRC of the client, and one of a stream forwarded to it
          MaxNtp,        \* NTP times are 1..MaxNtp
          MaxSeqnum,     \* numbers of packets are 0..MaxSeqnum
          GapThreshold,  \* FULL_SEQNUM_GAP_THRESHOLD
          CountCycle,    \* 2^32, of packets_sent
          MaxTime        \* times are counted up to this

VARIABLES last_received_sender_info, \* the NTP time in it, by SSRC; 0: None
          max_sent_seqnum,           \* -1: None
          sent_since_last_report, packets_sent,
          last_sent_report,          \* its NTP time, and the time since last_sender_report_sent_time
          last_receiver_report_dlsr,
          rtt_estimate,              \* -1: None
          at_client,  \* the report the client has: its NTP time, and the time since it came
          blocks,     \* report blocks on their way back
          sent        \* history: packets forwarded since the last restart, modulo CountCycle

vars == <<last_received_sender_info, max_sent_seqnum, sent_since_last_report, packets_sent,
          last_sent_report, last_receiver_report_dlsr, rtt_estimate, at_client, blocks, sent>>

NoReport == [ntp |-> 0, since |-> 0]

Init ==
    /\ last_received_sender_info = [ssrc \in {Own, Forwarded} |-> 0]
    /\ max_sent_seqnum = -1 /\ sent_since_last_report = FALSE /\ packets_sent = 0
    /\ last_sent_report = NoReport /\ last_receiver_report_dlsr = 0 /\ rtt_estimate = -1
    /\ at_client = NoReport /\ blocks = {} /\ sent = 0

\* Seeded fault: only a restart to a higher number is one.
RestartedUpwards(s) == s - max_sent_seqnum > GapThreshold

\* maybe_send_stream_restart: a large gap, in either direction.
Restarted(s) == LET d == s - max_sent_seqnum IN d > GapThreshold \/ -d > GapThreshold

\* remember_sent.  Numbers do not come near the end of 64 bits, where they would roll over.
RememberSent(s) ==
    LET restarted == max_sent_seqnum # -1 /\ Restarted(s)
    IN  /\ max_sent_seqnum' = IF s > max_sent_seqnum \/ restarted THEN s ELSE max_sent_seqnum
        /\ packets_sent' = ((IF restarted THEN 0 ELSE packets_sent) + 1) % CountCycle
        /\ sent' = IF max_sent_seqnum # -1 /\ s - max_sent_seqnum \notin (-GapThreshold)..GapThreshold
                   THEN 1 ELSE (sent + 1) % CountCycle
        /\ sent_since_last_report' = TRUE
        /\ UNCHANGED <<last_received_sender_info, last_sent_report, last_receiver_report_dlsr,
                       rtt_estimate, at_client, blocks>>

\* remember_received_sender_report: older reports are ignored.
ReceiveSenderReport(ntp) ==
    /\ last_received_sender_info' =
          [last_received_sender_info EXCEPT ![Own] = IF ntp > @ THEN ntp ELSE @]
    /\ UNCHANGED <<max_sent_seqnum, sent_since_last_report, packets_sent, last_sent_report,
                   last_receiver_report_dlsr, rtt_estimate, at_client, blocks, sent>>

\* write_sender_report_block_in_place: the NTP time is that of the last report received on
\* the SSRC, or 0.
SendReport ==
    LET report == [ntp |-> last_received_sender_info[Forwarded], since |-> 0]
    IN  /\ sent_since_last_report
        /\ sent_since_last_report' = FALSE
        /\ last_sent_report' = report /\ at_client' = report
        /\ last_receiver_report_dlsr' = 0
        /\ UNCHANGED <<last_received_sender_info, max_sent_seqnum, packets_sent, rtt_estimate,
                       blocks, sent>>

\* The client reports on the stream: the time of the last sender report, as get_lsr cuts it
\* out of the NTP time, and the delay since it came.
ClientReports ==
    /\ blocks' = blocks \cup {[lsr |-> at_client.ntp, dlsr |-> at_client.since]}
    /\ UNCHANGED <<last_received_sender_info, max_sent_seqnum, sent_since_last_report,
                   packets_sent, last_sent_report, last_receiver_report_dlsr, rtt_estimate,
                   at_client, sent>>

\* remember_report_block.  The first estimate is taken as it is; the average of
\* update_rtt_estimate is taken to be the newer one.
RememberReportBlock(b) ==
    LET ignored == \/ b.dlsr = 0 \/ b.lsr = 0
                   \/ b.lsr # last_sent_report.ntp
                   \/ b.dlsr < last_receiver_report_dlsr
        elapsed == last_sent_report.since
    IN  /\ b \in blocks
        /\ blocks' = blocks \ {b}
        /\ rtt_estimate' = IF ignored THEN rtt_estimate
                           ELSE IF elapsed > b.dlsr THEN elapsed - b.dlsr ELSE 0
        /\ last_receiver_report_dlsr' = IF ignored THEN last_receiver_report_dlsr ELSE b.dlsr
        /\ UNCHANGED <<last_received_sender_info, max_sent_seqnum, sent_since_last_report,
                       packets_sent, last_sent_report, at_client, sent>>

PassTime ==
    LET later(r) == [r EXCEPT !.since = IF @ < MaxTime THEN @ + 1 ELSE @]
    IN  /\ last_sent_report' = later(last_sent_report) /\ at_client' = later(at_client)
        /\ UNCHANGED <<last_received_sender_info, max_sent_seqnum, sent_since_last_report,
                       packets_sent, last_receiver_report_dlsr, rtt_estimate, blocks, sent>>

Next == \/ \E ntp \in 1..MaxNtp : ReceiveSenderReport(ntp)
        \/ \E s \in 0..MaxSeqnum : RememberSent(s)
        \/ SendReport
        \/ ClientReports
        \/ \E b \in blocks : RememberReportBlock(b)
        \/ PassTime

\* Clients send reports of their own; media keeps being forwarded; the tick of the
\* connection sends reports; the client answers, and its reports arrive; time passes.
Fairness == /\ WF_vars(\E ntp \in 1..MaxNtp : ReceiveSenderReport(ntp))
            /\ WF_vars(\E s \in 0..MaxSeqnum : RememberSent(s)) /\ WF_vars(SendReport)
            /\ WF_vars(ClientReports) /\ WF_vars(\E b \in blocks : RememberReportBlock(b))
            /\ WF_vars(PassTime)

FairSpec == Init /\ [][Next]_vars /\ Fairness
------------------------------------------------------------------------------
\* The number of packets in a sender report is that of the packets forwarded since the
\* stream last restarted, in its 32 bits.
PacketCountIsExact == packets_sent = sent

\* The reports that come back for a forwarded stream give a round-trip time at last.
RttIsEstimated == (max_sent_seqnum # -1) ~> (rtt_estimate # -1)
==============================================================================
