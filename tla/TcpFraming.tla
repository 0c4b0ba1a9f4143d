----------------------------- MODULE TcpFraming -------------------------------
(***************************************************************************)
(* The framing of packets on TCP: TcpState of                              *)
(* backend/src/packet_server/epoll.rs.  Two ends of one direction of a     *)
(* connection are modelled, `send` at one and `recv_from` at the other; a  *)
(* client frames its packets in the same way.  The kernel (external) takes *)
(* any number of the bytes that it is given, up to the room that it has,   *)
(* and hands out any number of those that it has.                          *)
(*                                                                         *)
(* A packet is a number and a size; a byte of it is its number and place.  *)
(* The size is framed in two digits to the base Base, as it is in two      *)
(* bytes.                                                                  *)
(***************************************************************************)
EXTENDS Integers, Sequences, SequencesExt, FiniteSetsExt

CONSTANTS Base,        \* of the digits of a size, 256
          MaxLength,   \* MAX_RTP_LENGTH
          Sizes,       \* sizes of the packets that occur
          Capacity,    \* bytes the kernel buffers
          MaxPackets   \* packets sent

VARIABLES
    sent,      \* packets that the sender has not dropped, in order
    packets,   \* number of packets so far
    outq,      \* the rest of the last of them
    wire,      \* bytes the kernel has
    size, pos, buf,   \* TcpState of the receiver
    received,
    broken     \* the receiver has seen invalid data

tcp_vars == <<sent, packets, outq, wire, size, pos, buf, received, broken>>

Init == /\ sent = <<>> /\ packets = 0 /\ outq = <<>> /\ wire = <<>>
        /\ size = 0 /\ pos = 0 /\ buf = <<>> /\ received = <<>> /\ broken = FALSE

Payload(p) == [i \in 1..p.size |-> [of |-> p.number, at |-> i]]
Digit(d)   == [of |-> -1, at |-> d]
Header(p)  == <<Digit(p.size \div Base), Digit(p.size % Base)>>
Frame(p)   == Header(p) \o Payload(p)

Written(bytes, n) == /\ n <= Capacity - Len(wire)
                     /\ wire' = wire \o SubSeq(bytes, 1, n)

From(s, n) == SubSeq(s, n + 1, Len(s))
------------------------------------------------------------------------------
\* Seeded fault: one byte of the size is forgotten.
RemainderRepeated(p, n) == IF n = Len(Frame(p)) THEN <<>> ELSE From(Payload(p), Max({0, n - 3}))

\* Seeded fault: a short write is taken for a whole one.
RemainderDropped(p, n) == <<>>

\* What is left when n > 0 bytes of a frame are written.
Remainder(p, n) == IF n = 1 THEN <<Header(p)[2]>> \o Payload(p) ELSE From(Payload(p), n - 2)

\* send with an empty or too large packet: an error, and the socket is kept.
SendInvalid(s) ==
    /\ packets < MaxPackets /\ (s = 0 \/ s > MaxLength)
    /\ packets' = packets + 1
    /\ UNCHANGED <<sent, outq, wire, size, pos, buf, received, broken>>

\* send.  The packet is dropped if none of it is written, else what is left is kept.
Send(s, n) ==
    LET p == [number |-> packets, size |-> s]
        m == n - Len(outq)
    IN  /\ packets < MaxPackets /\ s \in 1..MaxLength
        /\ n <= Len(outq) + Len(Frame(p))
        /\ Written(outq \o Frame(p), n)
        /\ packets' = packets + 1
        /\ IF m <= 0 THEN outq' = From(outq, n) /\ sent' = sent
           ELSE outq' = Remainder(p, m) /\ sent' = Append(sent, p)
        /\ UNCHANGED <<size, pos, buf, received, broken>>
------------------------------------------------------------------------------
Number(digits) == digits[1].at * Base + digits[2].at

\* The end of recv_from, when n bytes of a packet of size s are read after `have`.
ReadPayload(s, have, bytes) ==
    LET got == have \o bytes
    IN  IF Len(got) = s
        THEN /\ received' = Append(received, got)
             /\ size' = 0 /\ pos' = 0 /\ buf' = <<>>
        ELSE size' = s /\ pos' = Len(got) /\ buf' = got /\ UNCHANGED received

\* recv_from reads n bytes of the size, if it has none, and then k of the packet.
RecvFrom(n, k) ==
    LET digits == buf \o SubSeq(wire, 1, n)
        s      == IF size = 0 /\ Len(digits) = 2 THEN Number(digits) ELSE size
        have   == IF size = 0 THEN <<>> ELSE buf
        wanted == s - Len(have)
    IN  /\ ~broken
        /\ IF size = 0 THEN n \in 1..Min({2 - pos, Len(wire)}) ELSE n = 0
        /\ IF s = 0 \/ s > MaxLength \/ n = Len(wire) THEN k = 0
           ELSE k \in 1..Min({wanted, Len(wire) - n})
        /\ wire' = From(wire, n + k)
        /\ broken' = (s > MaxLength)
        /\ IF s = 0 \/ s > MaxLength
           THEN /\ size' = s /\ UNCHANGED received
                /\ IF Len(digits) = 2 THEN pos' = 0 /\ buf' = <<>>
                   ELSE pos' = Len(digits) /\ buf' = digits
           ELSE ReadPayload(s, have, SubSeq(wire, n + 1, n + k))
        /\ UNCHANGED <<sent, packets, outq>>

Next == \/ \E s \in Sizes : SendInvalid(s) \/ \E n \in 0..Capacity : Send(s, n)
        \/ \E n \in 0..2, k \in 0..Capacity : n + k > 0 /\ RecvFrom(n, k)

Spec == Init /\ [][Next]_tcp_vars
------------------------------------------------------------------------------
\* Packets arrive whole and in order: what is received is what was sent, but for the
\* packets that were dropped, however the kernel cuts the bytes in writes and reads.
PacketsArriveWhole ==
    /\ ~broken
    /\ received = [i \in 1..Len(received) |-> Payload(sent[i])]
    /\ Len(received) <= Len(sent)

\* No byte of a packet that is not dropped is lost: once the rest is written and all is
\* read, everything has been received.
NothingIsLost == outq = <<>> /\ wire = <<>> => Len(received) = Len(sent) /\ pos = 0
==============================================================================
