----------------------------- MODULE RtpEndpoint ------------------------------
(***************************************************************************)
(* rtp::Endpoint (rtp.rs) with its RtxSender (rtx.rs), NackSender          *)
(* (nack.rs) and SequenceNumberReuseDetector: the numbers packets are      *)
(* given, what is remembered of packets sent so that they can be resent,   *)
(* and what is remembered of packets received so that nothing is taken     *)
(* twice and what is missing is asked for.                                 *)
(*                                                                         *)
(* There is one video stream; its retransmissions and its padding share a  *)
(* second SSRC with sequence numbers of its own.                           *)
(***************************************************************************)
EXTENDS Pacer, FiniteSets

CONSTANTS
    PacketLifetime,     \* PACKET_LIFETIME
    MaxRtx,             \* bound: larger numbers of the RTX stream are not told apart
    WindowSize,         \* MASK_SIZE
    NackLimit,          \* the limit of a NackSender
    MaxNackRetryCount,  \* MAX_NACK_RETRY_COUNT
    NackExpiry          \* seqnums are given up after this time (3 seconds)

ASSUME EndpointAssumption ==
    /\ PacketLifetime \in Nat /\ MaxRtx \in Nat /\ WindowSize \in Nat \ {0}
    /\ NackLimit \in Nat /\ MaxNackRetryCount \in Nat \ {0} /\ NackExpiry \in Nat

\* The packets in the queues of the pacer and those that leave it.
Packets == [kind : {"video", "rtx", "padding"}, seqnum : Nat, header : Nat,
            deadline : Int \cup {None}, encrypted : BOOLEAN]

\* What a NackSender remembers of a number it has asked for.
NackTimes == [first : Int, last : Int, count : Nat]

ASSUME NoneAssumption == None \notin Packets \cup NackTimes

StreamOf(kind) == IF kind = "video" THEN "video" ELSE "rtx"

\* A packet: seqnum is the logical one, header that of the header (seqnum_in_header),
\* encrypted whether it has gone through encrypt_and_send_rtp.
Packet(kind, seqnum, header, deadline) ==
    [kind |-> kind, seqnum |-> seqnum, header |-> header, deadline |-> deadline,
     encrypted |-> FALSE]
------------------------------------------------------------------------------
(* Sending.  sent remembers packets by (SSRC and) sequence number, which   *)
(* is what previously_sent_by_seqnum holds of them until their deadline;   *)
(* encrypted is a history: the headers that have been encrypted.           *)

NewSender == [next_rtx |-> 1, sent |-> <<>>, encrypted |-> <<>>]

\* RtxSender::remember_sent.
RememberSent(e, packet, pending, now) ==
    IF PastDeadline(packet, now) THEN e
    ELSE [e EXCEPT !.sent =
             [n \in DOMAIN @ \cup {packet.seqnum} |->
                 IF n = packet.seqnum
                 THEN [deadline |-> packet.deadline, pending_retransmission |-> pending]
                 ELSE @[n]]]

\* encrypt_and_send_rtp.
EncryptAndSend(e, packet, pending, now) ==
    LET r == IF packet.kind = "padding" THEN e ELSE RememberSent(e, packet, pending, now)
        h == <<StreamOf(packet.kind), packet.header>>
    IN  [endpoint |-> IF packet.header > MaxRtx THEN r ELSE [r EXCEPT !.encrypted = Append(@, h)],
         packet   |-> [packet EXCEPT !.encrypted = TRUE]]

\* RtxSender::increment_seqnum.
IncrementSeqnum(e) == [e EXCEPT !.next_rtx = Lesser(@ + 1, MaxRtx + 1)]

\* send_rtp: a retransmission that is passed on gets a number of this endpoint.
SendRtp(e, packet, now) ==
    IF packet.kind = "rtx"
    THEN EncryptAndSend(IncrementSeqnum(e), [packet EXCEPT !.header = e.next_rtx], FALSE, now)
    ELSE EncryptAndSend(e, packet, FALSE, now)

MayResend(e, seqnum, now) ==
    /\ seqnum \in DOMAIN e.sent
    /\ ~e.sent[seqnum].pending_retransmission
    /\ now <= e.sent[seqnum].deadline

\* resend_rtp and resend_as_rtx, for a packet that may be resent.
ResendRtp(e, seqnum, now) ==
    EncryptAndSend(IncrementSeqnum(e),
                   Packet("rtx", seqnum, e.next_rtx, e.sent[seqnum].deadline), TRUE, now)

\* Seeded fault: a retransmission that was queued is not marked when it leaves.
MarkNothingAsSent(e, seqnum) == e

MarkAsSent(e, seqnum) ==
    IF seqnum \in DOMAIN e.sent
    THEN [e EXCEPT !.sent[seqnum].pending_retransmission = FALSE]
    ELSE e

\* Seeded fault: padding has sequence numbers of its own.
PaddingFromOne(e, now) == EncryptAndSend(e, Packet("padding", 0, 1, None), FALSE, now)

SendPadding(e, now) ==
    EncryptAndSend(IncrementSeqnum(e), Packet("padding", 0, e.next_rtx, None), FALSE, now)
------------------------------------------------------------------------------
(* Receiving.  A SequenceNumberReuseDetector is the first number of the    *)
(* window and the numbers in the window that were used.                    *)

NewDetector == [first |-> 0, used |-> {}]

\* Seeded fault: the window is one number longer than the history.
RememberUsedWideWindow(d, n) ==
    LET last  == d.first + WindowSize - 1
        first == IF n > last THEN d.first + (n - last) ELSE d.first
    IN  [detector |-> [first |-> first, used |-> {m \in d.used : m > first} \cup {n}],
         reuse    |-> IF n < d.first THEN "too_old" ELSE IF n \in d.used THEN "used" ELSE "new"]

\* remember_used.
RememberUsed(d, n) ==
    LET last  == d.first + WindowSize - 1
        first == IF n > last THEN d.first + (n - last) ELSE d.first
    IN  IF n < d.first THEN [detector |-> d, reuse |-> "too_old"]
        ELSE [detector |-> [first |-> first, used |-> {m \in d.used : m >= first} \cup {n}],
              reuse    |-> IF n \in d.used THEN "used" ELSE "new"]

\* A NackSender.  times[n] is None before the first NACK for n.
NewNackSender == [max_received |-> None, times |-> <<>>]

\* Seeded fault: the smallest keys are kept.
Oldest(S) == {n \in S : Cardinality({m \in S : m < n}) < NackLimit}

\* KeySortedCache: the largest keys are kept.
Newest(S) == {n \in S : Cardinality({m \in S : m > n}) < NackLimit}

\* NackSender::remember_received.
NackRememberReceived(s, n) ==
    IF s.max_received = None THEN [s EXCEPT !.max_received = n]
    ELSE IF n <= s.max_received
    THEN [s EXCEPT !.times = [m \in DOMAIN @ \ {n} |-> @[m]]]
    ELSE LET missing == (s.max_received + 1)..(n - 1)
         IN  [max_received |-> n,
              times |-> [m \in Newest(DOMAIN s.times \cup missing) |->
                            IF m \in DOMAIN s.times THEN s.times[m] ELSE None]]

\* Seeded fault: a NACK is given up only after one more attempt.
GivenUpLate(t, now) == t # None /\ (now - t.first >= NackExpiry \/ t.count > MaxNackRetryCount)

GivenUp(t, now) == t # None /\ (now - t.first >= NackExpiry \/ t.count >= MaxNackRetryCount)
DueAgain(t, now, rtt) == t = None \/ now - t.last >= rtt

AskedAgain(t, now) ==
    IF t = None THEN [first |-> now, last |-> now, count |-> 1]
    ELSE [t EXCEPT !.last = now, !.count = @ + 1]

\* NackSender::send_nacks: the new state and the numbers to ask for.
SendNacks(s, now, rtt) ==
    LET kept == {n \in DOMAIN s.times : ~GivenUp(s.times[n], now)}
        due  == {n \in kept : DueAgain(s.times[n], now, rtt)}
    IN  [sender |-> [s EXCEPT !.times =
                        [n \in kept |-> IF n \in due THEN AskedAgain(s.times[n], now) ELSE @[n]]],
         nacks  |-> due]

\* Seeded fault: a retransmission is remembered under its own number.
ReceiveWithoutUnwrapping(r, kind, header, seqnum) ==
    [detectors |-> [r.detectors EXCEPT ![StreamOf(kind)] = RememberUsed(@, header).detector],
     nack      |-> IF RememberUsed(r.detectors[StreamOf(kind)], header).reuse = "new"
                   THEN NackRememberReceived(r.nack, header) ELSE r.nack]

\* receive_rtp, for a packet that decrypts: what is taken is unwrapped, if it is a
\* retransmission, before the NackSender hears of it.
ReceiveRtp(r, kind, header, seqnum) ==
    LET u == RememberUsed(r.detectors[StreamOf(kind)], header)
    IN  [detectors |-> [r.detectors EXCEPT ![StreamOf(kind)] = u.detector],
         nack      |-> IF u.reuse = "new" THEN NackRememberReceived(r.nack, seqnum) ELSE r.nack]

Takes(r, kind, header) == RememberUsed(r.detectors[StreamOf(kind)], header).reuse = "new"

NewReceiver == [detectors |-> [s \in {"video", "rtx"} |-> NewDetector], nack |-> NewNackSender]
==============================================================================
