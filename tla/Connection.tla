------------------------------ MODULE Connection ------------------------------
(***************************************************************************)
(* A connection to a client (connection.rs): its address, its pacer with   *)
(* the dequeues that are scheduled for it, the packets it sends and        *)
(* resends, and the packets it receives and asks for again.  The call      *)
(* hands it packets to forward, the client sends NACKs, binding requests   *)
(* and packets, the timer thread calls handle_dequeue and the tick of the  *)
(* SFU configures the pacer.                                               *)
(*                                                                         *)
(* Times are relative to now, which is 0: TimePasses moves them all.       *)
(***************************************************************************)
EXTENDS RtpEndpoint, Functions

CONSTANTS
    Addresses,
    Seqnums,        \* sequence numbers of video, 1..n
    InitialTarget,  \* initial_target_send_rate
    Scenes,         \* situations, by name: which half, the addresses and configurations
                    \* that come, the numbers that are forwarded and asked for
    Late,           \* how late a scheduled dequeue may be
    Rtt             \* the round trip time

ASSUME SeqnumAssumption ==
    IsFiniteSet(Seqnums) /\ Seqnums \subseteq Nat \ {0} /\ \A n \in Seqnums : 1..n \subseteq Seqnums

ASSUME RateAssumption == InitialTarget \in Nat /\ Late \in Nat /\ Rtt \in Nat

ASSUME SceneAssumption ==
    /\ None \notin Addresses
    /\ \A s \in DOMAIN Scenes :
        /\ Scenes[s].first_address \in Addresses \cup {None} /\ Scenes[s].addresses \subseteq Addresses
        /\ Scenes[s].video \subseteq Seqnums /\ Scenes[s].rtx \subseteq Seqnums
        /\ Scenes[s].nacks \subseteq Seqnums \X (Seqnums \cup {None})
        /\ \A c \in Scenes[s].configs :
              c = Config(c.media, c.padding, c.padding_ssrc) /\ c.media \in Nat /\ c.padding \in Nat

Now == 0

VARIABLES
    scene,          \* the situation, which bounds what comes in
    address,        \* outgoing_addr
    learning,       \* an address that handle_packet has yet to insert
    known,          \* the addresses of this connection in connection_id_by_address
    pacer,
    endpoint,       \* the sending half of the endpoint
    dequeues,       \* the dequeues scheduled: <<time, address>>
    forwarded,      \* history: the packets that came from the call
    receiver,       \* the receiving half of the endpoint
    taken,          \* history: the headers of the packets taken, in order
    asked,          \* history: how often each number was asked for
    unscheduled,    \* history: since the last tick, a dequeue was lost or had no address
    owed            \* history: media sent and not yet paid for at the media rate

sendVars    == <<address, learning, known, pacer, endpoint, dequeues, forwarded, unscheduled, owed>>
receiveVars == <<receiver, taken, asked>>
vars        == <<scene, sendVars, receiveVars>>

Here == Scenes[scene]
half == Here.half   \* "sending" or "receiving": which half of the connection

Init ==
    /\ scene \in DOMAIN Scenes
    /\ address = Here.first_address /\ learning = None /\ known = {address} \ {None}
    /\ pacer = NewPacer(Config(InitialTarget, InitialTarget, None))
    /\ endpoint = NewSender
    /\ dequeues = {} /\ forwarded = {}
    /\ receiver = NewReceiver /\ taken = <<>> /\ asked = [n \in Seqnums |-> 0]
    /\ unscheduled = TRUE /\ owed = 0
------------------------------------------------------------------------------
(* The address.                                                            *)

\* handle_ice_binding_request, in the lock of the connection.
BindingRequest(a, nominated) ==
    /\ half = "sending" /\ learning = None
    /\ learning' = a
    /\ IF nominated /\ address # a
       THEN address' = a /\ unscheduled' = TRUE
       ELSE UNCHANGED <<address, unscheduled>>
    /\ UNCHANGED <<scene, known, pacer, endpoint, dequeues, forwarded, owed, receiveVars>>

\* The end of handle_packet: the address is inserted in the lock of the SFU.
AddressLearned ==
    /\ learning # None
    /\ known' = known \cup {learning} /\ learning' = None
    /\ UNCHANGED <<scene, address, pacer, endpoint, dequeues, forwarded, unscheduled, owed,
                   receiveVars>>

\* An address from which nothing has come for long ages out.
AddressForgotten(a) ==
    /\ a \in known \ {address}
    /\ known' = known \ {a}
    /\ UNCHANGED <<scene, address, learning, pacer, endpoint, dequeues, forwarded, unscheduled,
                   owed, receiveVars>>
------------------------------------------------------------------------------
(* Packets to the client.                                                  *)

Schedule(time) == IF time = None \/ address = None THEN {} ELSE {<<time, address>>}

PaidFor(packet) == owed + IF packet = None \/ packet.kind = "padding" THEN 0
                          ELSE SizeOf[packet.kind]

\* send_or_enqueue_rtp, for a video packet.  Without an address it is queued as it is.
SendOrEnqueue(kind, n) ==
    LET header == IF kind = "video" THEN n ELSE 0      \* that of the sender's stream
        packet == Packet(kind, n, header, Now + PacketLifetime)
        s      == SendRtp(endpoint, packet, Now)
        r      == Enqueue(pacer, s.packet, Now)
    IN  /\ half = "sending"
        /\ <<kind, n>> \notin forwarded
        /\ kind = "video" => \A m \in 1..(n - 1) : <<kind, m>> \in forwarded
        /\ forwarded' = forwarded \cup {<<kind, n>>}
        /\ IF address = None
           THEN /\ pacer' = ForceEnqueue(pacer, packet)
                /\ UNCHANGED <<endpoint, dequeues, owed>>
           ELSE /\ endpoint' = s.endpoint
                /\ pacer' = r.pacer
                /\ dequeues' = dequeues \cup Schedule(r.dequeue)
                /\ owed' = PaidFor(r.packet)
        /\ UNCHANGED <<scene, address, learning, known, unscheduled, receiveVars>>

\* One number of a NACK in handle_rtcp_packet.
Nacked(st, n) ==
    IF ~MayResend(st.endpoint, n, Now) THEN st
    ELSE LET s == ResendRtp(st.endpoint, n, Now)
             r == Enqueue(st.pacer, s.packet, Now)
         IN  [pacer    |-> r.pacer,
              endpoint |-> IF r.packet = None THEN s.endpoint ELSE MarkAsSent(s.endpoint, n),
              dequeue  |-> IF r.dequeue = None THEN st.dequeue ELSE r.dequeue,
              sent     |-> st.sent \cup ({r.packet} \ {None})]

\* handle_rtcp_packet with a NACK: the last dequeue time asked for is the one scheduled.
HandleNack(first, second) ==
    LET st0 == [pacer |-> pacer, endpoint |-> endpoint, dequeue |-> None, sent |-> {}]
        st  == IF second = None THEN Nacked(st0, first) ELSE Nacked(Nacked(st0, first), second)
    IN  /\ half = "sending" /\ address # None
        /\ pacer' = st.pacer /\ endpoint' = st.endpoint
        /\ dequeues' = dequeues \cup Schedule(st.dequeue)
        /\ owed' = owed + Cardinality(st.sent) * SizeOf["rtx"]
        /\ UNCHANGED <<scene, address, learning, known, forwarded, unscheduled, receiveVars>>

\* handle_dequeue and dequeue_outgoing_rtp, when a scheduled dequeue is due.
HandleDequeue(d) ==
    LET s == SendPadding(endpoint, Now)
        r == Dequeue(pacer, s.packet, Now)
        e == IF r.packet = None THEN endpoint
             ELSE IF r.packet.kind = "padding" THEN s.endpoint
             ELSE IF r.packet.kind = "rtx" THEN MarkAsSent(endpoint, r.packet.seqnum)
             ELSE endpoint
    IN  /\ d \in dequeues /\ d[1] <= Now
        /\ IF d[2] \in known
           THEN /\ dequeues' = (dequeues \ {d}) \cup Schedule(r.dequeue)
                /\ pacer' = r.pacer /\ endpoint' = e
                /\ owed' = PaidFor(r.packet)
                /\ UNCHANGED unscheduled
           ELSE /\ dequeues' = dequeues \ {d}
                /\ unscheduled' = TRUE
                /\ UNCHANGED <<pacer, endpoint, owed>>
        /\ UNCHANGED <<scene, address, learning, known, forwarded, receiveVars>>

\* configure_congestion_control, in the tick of the SFU.
Configure(c) ==
    LET r == SetConfig(pacer, c, Now)
    IN  /\ half = "sending"
        /\ pacer' = r.pacer
        /\ dequeues' = dequeues \cup Schedule(r.dequeue)
        /\ unscheduled' = (address \notin known)
        /\ owed' = IF c.media = pacer.config.media THEN owed ELSE 0
        /\ UNCHANGED <<scene, address, learning, known, endpoint, forwarded, receiveVars>>
------------------------------------------------------------------------------
(* Packets from the client, lost, reordered and repeated.                  *)

\* handle_rtp_packet and receive_rtp.
ReceivePacket(kind, header, n) ==
    /\ half = "receiving"
    /\ kind = "rtx" => asked[n] > 0     \* the client resends what it is asked for
    /\ receiver' = ReceiveRtp(receiver, kind, header, n)
    /\ taken' = IF Takes(receiver, kind, header)
                THEN Append(taken, <<kind, header, n>>) ELSE taken
    /\ UNCHANGED <<scene, sendVars, asked>>

\* send_nacks_if_its_been_too_long, in the tick.
TickNacks ==
    LET s == SendNacks(receiver.nack, Now, Rtt)
    IN  /\ half = "receiving"
        /\ receiver' = [receiver EXCEPT !.nack = s.sender]
        /\ asked' = [n \in Seqnums |-> asked[n] + IF n \in s.nacks THEN 1 ELSE 0]
        /\ UNCHANGED <<scene, sendVars, taken>>
------------------------------------------------------------------------------
(* Time.                                                                   *)

Earlier(t, bound) == IF t = None THEN None ELSE Larger(t - 1, bound)

Aged(packets) == [i \in DOMAIN packets |->
                     [packets[i] EXCEPT !.deadline = Earlier(@, -1)]]

AgedSent(sent) == [n \in {m \in DOMAIN sent : sent[m].deadline > Now} |->
                      [sent[n] EXCEPT !.deadline = @ - 1]]

AgedTime(t) == IF t = None THEN None
               ELSE [t EXCEPT !.first = Earlier(@, -NackExpiry), !.last = Earlier(@, -NackExpiry)]

AgedTimes(times) == [n \in DOMAIN times |-> AgedTime(times[n])]

\* What is past its deadline, or as long ago as matters, gets no older.
TimePasses ==
    /\ \A d \in dequeues : d[1] > -Late
    /\ dequeues' = {<<d[1] - 1, d[2]>> : d \in dequeues}
    /\ pacer' = [pacer EXCEPT !.video = Aged(@), !.rtx = Aged(@),
                              !.last_sent = Earlier(@, -MaxDebtInTime)]
    /\ endpoint' = [endpoint EXCEPT !.sent = AgedSent(@)]
    /\ owed' = Larger(0, owed - pacer.config.media)
    /\ receiver' = [receiver EXCEPT !.nack.times = AgedTimes(@)]
    /\ UNCHANGED <<scene, address, learning, known, forwarded, taken, asked, unscheduled>>

HandleSomeDequeue == \E d \in dequeues : HandleDequeue(d)
ConfigureSome     == \E c \in Here.configs : Configure(c)

Next ==
    \/ \E a \in Here.addresses : \/ BindingRequest(a, TRUE) \/ BindingRequest(a, FALSE)
                                \/ AddressForgotten(a)
    \/ AddressLearned
    \/ \E n \in Here.video : SendOrEnqueue("video", n)
    \/ \E n \in Here.rtx : SendOrEnqueue("rtx", n)
    \/ \E nack \in Here.nacks : HandleNack(nack[1], nack[2])
    \/ HandleSomeDequeue
    \/ ConfigureSome
    \/ \E n \in Seqnums : \/ ReceivePacket("video", n, n)
                          \/ \E h \in 1..MaxRtx : ReceivePacket("rtx", h, n)
    \/ TickNacks
    \/ TimePasses

Spec == Init /\ [][Next]_vars

\* Time goes on, the timer thread keeps up with the dequeues that are due, and the
\* tick comes again and again and finds the address in the table.
FairSpec == /\ Spec
            /\ WF_vars(TimePasses)
            /\ []<>(\A d \in dequeues : d[1] > Now)
            /\ []<>~unscheduled
------------------------------------------------------------------------------
(* Correctness.                                                            *)

QueuedPackets == Range(Queued(pacer))
Rtx(n)        == {p \in QueuedPackets : p.kind = "rtx" /\ p.seqnum = n /\ p.encrypted}
Received      == {t[3] : t \in Range(taken)}

TypeOK ==
    /\ scene \in DOMAIN Scenes
    /\ address \in Addresses \cup {None} /\ learning \in Addresses \cup {None}
    /\ known \subseteq Addresses
    /\ pacer.media_debt \in Nat /\ pacer.padding_debt \in Nat
    /\ \A p \in QueuedPackets : p.kind \in {"video", "rtx"} /\ p.deadline \in -1..PacketLifetime
    /\ \A d \in dequeues : d[1] \in -Late..MaxDebtInTime /\ d[2] \in Addresses
    /\ DOMAIN endpoint.sent \subseteq Seqnums
    /\ owed \in Nat

\* "Make sure the padding RTX seqnums are not reused" (rtx.rs): no two packets of a
\* stream are encrypted under one sequence number, be they forwarded, resent or padding.
NumbersAreUsedOnce == IsInjective(endpoint.encrypted)

\* "True when this packet is RTX and is in the pacer queue" (packet.rs): a packet that
\* may not be resent because it is pending is in the queue, from which it will leave in
\* time; the mark never outlives the queued packet.
PendingIsQueued ==
    \A n \in DOMAIN endpoint.sent : endpoint.sent[n].pending_retransmission => Rtx(n) # {}

\* Whenever the pacer could send, media or padding, a dequeue is scheduled for a known
\* address at the time it may send next, so that neither a burst of packets nor a
\* dequeue that came too early or found only expired packets stops the flow (enqueue,
\* dequeue and set_config return the times).
FlowIsScheduled ==
    LET next == NextSendTime(pacer, Now) IN
    (half = "sending" /\ ~unscheduled
       /\ next # None /\ (~QueueIsEmpty(pacer) \/ pacer.config.padding_ssrc # None))
    => \E d \in dequeues : d[1] <= Larger(next, Now)

\* While the media rate stays the same, media leaves no faster than at that rate, though
\* the debt is only brought up to date now and then.
MediaIsPaced ==
    [][ owed' > owed => /\ owed < pacer.config.media
                        /\ owed' <= owed + Larger(SizeOf["video"], SizeOf["rtx"]) ]_vars

\* A queued packet is sent or dropped in the end, if the client comes to stay at an
\* address: also what was queued before it had one, and what was scheduled for an old one.
QueuedPacketsLeave ==
    (\E a \in Addresses : <>[](address = a /\ a \in known))
        => \A n \in Seqnums : []<>(\A p \in Range(pacer.video) : p.seqnum # n)

\* What was accepted to be sent does not get stuck in the pacer.
QueueKeepsMoving == PendingIsQueued /\ FlowIsScheduled

\* "SRTP replay attack protection": no header is taken twice.
TakenOnce == IsInjective([i \in DOMAIN taken |-> <<taken[i][1], taken[i][2]>>])

\* What is asked for is missing (receive_rtp unwraps a retransmission before the
\* NackSender hears of it, so that it ends the asking).
NacksAreForMissing ==
    \A n \in DOMAIN receiver.nack.times : n \notin Received /\ n < receiver.nack.max_received

\* Nothing is asked for more often than MAX_NACK_RETRY_COUNT times.
AskedOftenEnough == \A n \in Seqnums : asked[n] <= MaxNackRetryCount

\* Every gap is asked for: a number between two received ones is received, waits to be
\* asked for, or has been, unless more gaps than the limit came after it.
GapsAreAskedFor ==
    \A n \in Seqnums :
        (Received # {} /\ n > taken[1][3] /\ n \notin Received /\ n < receiver.nack.max_received)
        => \/ n \in DOMAIN receiver.nack.times \/ asked[n] > 0
           \/ Cardinality({m \in Seqnums : n < m /\ m < receiver.nack.max_received}) >= NackLimit

\* What the receiving half takes and asks for: everything once, what is missing and
\* nothing else, and not too often (receive_rtp, NackSender).
LossesAreRepaired ==
    TakenOnce /\ NacksAreForMissing /\ AskedOftenEnough /\ GapsAreAskedFor
==============================================================================
