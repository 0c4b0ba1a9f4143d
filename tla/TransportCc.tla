---------------------------- MODULE TransportCc ------------------------------
(***************************************************************************)
(* Transport-wide acknowledgements: backend/src/transportcc.rs.  The       *)
(* receiver of packets writes feedback messages, which their sender reads  *)
(* and correlates with what it has sent.                                   *)
(*                                                                         *)
(* A message is its header and its body, a sequence of status chunks and   *)
(* then of receive deltas.  Time is counted in units of which a tick of a  *)
(* delta has DeltaTick; a tick of the reference time has RefTick ticks of  *)
(* a delta.  A status is 0 (not received), 1 (small delta) or 2 (large or  *)
(* negative delta).                                                        *)
(*                                                                         *)
(* Packets in one direction of a connection and their acknowledgements in  *)
(* the other: Sender and Receiver of backend/src/transportcc.rs, with the  *)
(* parts of rtp.rs and connection.rs that call them.  Packets and messages *)
(* are lost and reordered; a message may also come twice.  A packet comes  *)
(* once, because receive_rtp drops the sequence numbers it has seen.       *)
(***************************************************************************)
EXTENDS Integers, Sequences, SequencesExt, FiniteSets

CONSTANTS
    SeqnumCycle,   \* 2^16
    FeedbackCycle, \* 2^8, of the numbers of messages
    DeltaTick, RefTick,
    SmallDelta,    \* u8::MAX
    LargeDelta,    \* i16::MAX
    MaxRun,        \* 8191
    Capacity1,     \* 14, of a vector of one bit each
    Capacity2,     \* 7, of a vector of two bits each
    MaxBytes       \* 1100

CONSTANTS FirstSeqnum,   \* 1 in the code; here just below a rollover
          MaxPackets,    \* packets sent
          MaxDelay       \* packets by which packets and messages may be late

VARIABLES
    next_send_seqnum,
    remembered,            \* size_by_seqnum: its two generations, the newer first
    in_flight,             \* packets on their way, in full sequence numbers
    max_received_tcc_seqnum,
    unacked,               \* unacked_arrival_by_seqnum
    next_feedback_seqnum,
    messages,              \* feedback on its way
    max_received_seqnum,   \* of the sender
    arrived,               \* history: packets received
    acked                  \* history: how often each packet was acknowledged

RECURSIVE Pushes(_, _, _), Fill(_, _, _), WriteFeedback(_, _), ReadDeltas(_, _, _, _),
          ReadAll(_, _)
------------------------------------------------------------------------------
(* Status chunks: PacketStatusChunk and PacketStatusChunks.                *)

Capacity(kind) == CASE kind = "run" -> MaxRun [] kind = "vector1" -> Capacity1
                    [] kind = "vector2" -> Capacity2

Chunk(kind, statuses) == [kind |-> kind, statuses |-> statuses]
Run(s) == Chunk("run", <<s>>)

\* Seeded fault: what does not fit in one vector of two bits each is cut off.
PushWithoutSplit(c, s) ==
    LET len == Len(c.statuses)
        as(kind) == <<Chunk(kind, Append(c.statuses, s))>>
    IN  CASE len = Capacity(c.kind)                                  -> <<c, Run(s)>>
          [] c.kind = "run" /\ s = c.statuses[1]                     -> as("run")
          [] c.kind \in {"run", "vector1"} /\ s # 2 /\ c.statuses[1] # 2 -> as("vector1")
          [] len < Capacity2                                        -> as("vector2")
          [] OTHER -> <<Chunk("vector2", SubSeq(c.statuses, 1, Capacity2))>>

\* PacketStatusChunk::push: one chunk, or two.
Push(c, s) ==
    LET len == Len(c.statuses)
        as(kind) == <<Chunk(kind, Append(c.statuses, s))>>
    IN  CASE len = Capacity(c.kind)                                    -> <<c, Run(s)>>
          [] c.kind = "run" /\ s = c.statuses[1]                       -> as("run")
          [] c.kind = "run" /\ len < Capacity1 /\ 2 \notin {s, c.statuses[1]} -> as("vector1")
          [] c.kind = "run" /\ len < Capacity2                         -> as("vector2")
          [] c.kind = "run"                                            -> <<c, Run(s)>>
          [] c.kind = "vector1" /\ s # 2                               -> as("vector1")
          [] c.kind = "vector1" /\ len < Capacity2                     -> as("vector2")
          [] c.kind = "vector1" ->
                <<Chunk("vector2", SubSeq(c.statuses, 1, Capacity2)),
                  Chunk("vector2", Append(SubSeq(c.statuses, Capacity2 + 1, len), s))>>
          [] c.kind = "vector2"                                        -> as("vector2")

\* PacketStatusChunks::push.
PushStatus(chunks, s) == IF chunks = <<>> THEN <<Run(s)>>
                         ELSE Front(chunks) \o Push(Last(chunks), s)

Pushes(chunks, s, n) == IF n <= 0 THEN chunks ELSE Pushes(PushStatus(chunks, s), s, n - 1)

\* as_16 and from_u16: the length of a vector is not written, and 0 is what is not set.
Encoded(c) == IF c.kind = "run" THEN c
              ELSE [c EXCEPT !.statuses = [i \in 1..Capacity(c.kind) |->
                                              IF i <= Len(@) THEN @[i] ELSE 0]]
------------------------------------------------------------------------------
(* write_feedback.                                                         *)

\* ticks_from_before_and_after rounds towards zero.
Ticks(before, after) == IF after > before THEN (after - before) \div DeltaTick
                        ELSE -((before - after) \div DeltaTick)

DeltaBytes(deltas) == FoldSeq(LAMBDA d, n : n + d.bytes, 0, deltas)

\* The arrivals that fit in the message m that begins with sequence number `first`.  The
\* packets missing before one that does not fit are already in the chunks.
Fill(first, arrivals, m) ==
    IF \/ arrivals = <<>>
       \/ Head(arrivals).seqnum > first + SeqnumCycle - 1
       \/ DeltaBytes(m.deltas) + 2 * Len(m.chunks) > MaxBytes
    THEN [m EXCEPT !.rest = arrivals]
    ELSE LET a      == Head(arrivals)
             chunks == Pushes(m.chunks, 0, a.seqnum - m.last - 1)
             ticks  == Ticks(m.time, a.time)
             small  == ticks \in 0..SmallDelta
         IN  IF ticks \in (-LargeDelta - 1)..LargeDelta
             THEN Fill(first, Tail(arrivals),
                       [m EXCEPT !.last = a.seqnum, !.time = a.time,
                                 !.chunks = PushStatus(chunks, IF small THEN 1 ELSE 2),
                                 !.deltas = Append(@, [bytes |-> IF small THEN 1 ELSE 2,
                                                       ticks |-> ticks])])
             ELSE [m EXCEPT !.chunks = chunks, !.rest = arrivals]

\* The arrivals are in the order of their sequence numbers, their times since the epoch.
WriteFeedback(arrivals, number) ==
    IF arrivals = <<>> THEN <<>>
    ELSE LET first     == arrivals[1].seqnum
             reference == arrivals[1].time \div (DeltaTick * RefTick)
             m == Fill(first, arrivals,
                       [last |-> first, time |-> reference * DeltaTick * RefTick,
                        chunks |-> <<>>, deltas |-> <<>>, rest |-> <<>>])
         IN  <<[base      |-> first % SeqnumCycle,
                count     |-> (m.last - first + 1) % SeqnumCycle,
                reference |-> reference,
                number    |-> number,
                chunks    |-> [i \in 1..Len(m.chunks) |-> Encoded(m.chunks[i])],
                deltas    |-> m.deltas]>>
             \o WriteFeedback(m.rest, (number + 1) % FeedbackCycle)
------------------------------------------------------------------------------
(* read_feedback.                                                          *)

\* Seeded fault: rollover is not seen.
ExpandSeqnumInCycle(seqnum, max) == (max \div SeqnumCycle) * SeqnumCycle + seqnum

\* expand_seqnum.
ExpandSeqnum(seqnum, max) ==
    LET roc  == max \div SeqnumCycle
        tmax == max % SeqnumCycle
        half == SeqnumCycle \div 2
    IN  SeqnumCycle * (CASE tmax - seqnum > half            -> roc + 1
                         [] roc > 0 /\ seqnum - tmax > half -> roc - 1
                         [] OTHER                           -> roc) + seqnum

\* The chunks that are read: as many as it takes for `count` statuses.
ChunksRead(chunks, count) ==
    LET total(n) == FoldSeq(LAMBDA c, t : t + Len(c.statuses), 0, SubSeq(chunks, 1, n))
    IN  CHOOSE n \in 0..Len(chunks) : total(n) >= count /\ (n = 0 \/ total(n - 1) < count)

\* Deltas are read from where the chunks that are read end: from those that are not, first.
Garbled == [bytes |-> 0, ticks |-> 0]

ReadDeltas(statuses, deltas, seqnum, ticks) ==
    IF statuses = <<>> THEN <<>>
    ELSE IF statuses[1] = 0 THEN ReadDeltas(Tail(statuses), deltas, seqnum + 1, ticks)
    ELSE LET now == ticks + deltas[1].ticks
         IN  <<[seqnum |-> seqnum, ticks |-> now, whole |-> deltas[1] # Garbled]>>
             \o ReadDeltas(Tail(statuses), Tail(deltas), seqnum + 1, now)

ReadFeedback(m, max) ==
    LET base     == ExpandSeqnum(m.base, max)
        n        == ChunksRead(m.chunks, m.count)
        statuses == FlattenSeq([i \in 1..n |-> m.chunks[i].statuses])
    IN  ReadDeltas(SubSeq(statuses, 1, m.count),
                   [i \in 1..(Len(m.chunks) - n) |-> Garbled] \o m.deltas,
                   base, m.reference * RefTick)

NewMax(m, max) == LET base == ExpandSeqnum(m.base, max) IN IF base > max THEN base ELSE max

ReadAll(ms, max) ==
    IF ms = <<>> THEN <<>>
    ELSE ReadFeedback(ms[1], max) \o ReadAll(Tail(ms), NewMax(ms[1], max))
------------------------------------------------------------------------------
\* The statuses of packets are read as they were pushed, however chunks are turned into
\* one another: but for what is not set at the end.
StatusesAreRead(statuses) ==
    LET chunks == FoldLeft(PushStatus, <<>>, statuses)
        read   == FlattenSeq([i \in 1..Len(chunks) |-> Encoded(chunks[i]).statuses])
    IN  /\ Len(read) >= Len(statuses) /\ SubSeq(read, 1, Len(statuses)) = statuses
        /\ \A i \in (Len(statuses) + 1)..Len(read) : read[i] = 0
        /\ Len(read) - Len(statuses) < Capacity1

\* What write_feedback writes, in as many messages as it takes, read_feedback reads: every
\* packet that arrived and no other, each at its time since the one before it, or in all,
\* to the nearest tick.
FeedbackIsRead(arrivals) ==
    LET written  == WriteFeedback(arrivals, 0)
        read     == ReadAll(written, arrivals[1].seqnum)
        near(a, b) == a - b \in (1 - DeltaTick)..(DeltaTick - 1)
    IN  /\ Len(read) = Len(arrivals)
        /\ \A i \in 1..Len(read) :
              /\ read[i].seqnum = arrivals[i].seqnum /\ read[i].whole
              /\ \/ near(read[i].ticks * DeltaTick, arrivals[i].time)
                 \/ i > 1 /\ near((read[i].ticks - read[i - 1].ticks) * DeltaTick,
                                  arrivals[i].time - arrivals[i - 1].time)
------------------------------------------------------------------------------
(* Packets in one direction of a connection and their acknowledgements in  *)
(* the other.                                                              *)

ack_vars == <<next_send_seqnum, remembered, in_flight, max_received_tcc_seqnum, unacked,
              next_feedback_seqnum, messages, max_received_seqnum, arrived, acked>>

AllSeqnums == FirstSeqnum..(FirstSeqnum + MaxPackets - 1)

Init ==
    /\ next_send_seqnum = FirstSeqnum /\ remembered = <<{}, {}>> /\ in_flight = {}
    /\ max_received_tcc_seqnum = FirstSeqnum - 1 /\ max_received_seqnum = FirstSeqnum - 1
    /\ unacked = {} /\ next_feedback_seqnum = 1 /\ messages = {}
    /\ arrived = {} /\ acked = [s \in AllSeqnums |-> 0]

\* increment_seqnum and remember_sent, which lets go of the older generation when it
\* is its time.
Send(swap) ==
    /\ next_send_seqnum \in AllSeqnums
    /\ next_send_seqnum' = next_send_seqnum + 1
    /\ in_flight' = in_flight \cup {next_send_seqnum}
    /\ remembered' = IF swap THEN <<{next_send_seqnum}, remembered[1]>>
                     ELSE <<remembered[1] \cup {next_send_seqnum}, remembered[2]>>
    /\ UNCHANGED <<max_received_tcc_seqnum, unacked, next_feedback_seqnum, messages,
                   max_received_seqnum, arrived, acked>>

\* receive_rtp: the sequence number is expanded, and remembered with the time of arrival.
ReceiveRtp(s) ==
    LET seqnum == ExpandSeqnum(s % SeqnumCycle, max_received_tcc_seqnum)
    IN  /\ s \in in_flight /\ s > max_received_tcc_seqnum - MaxDelay
        /\ s < max_received_tcc_seqnum + MaxDelay
        /\ in_flight' = in_flight \ {s}
        /\ max_received_tcc_seqnum' = IF seqnum > max_received_tcc_seqnum THEN seqnum
                                      ELSE max_received_tcc_seqnum
        /\ unacked' = IF \E a \in unacked : a.seqnum = seqnum THEN unacked
                      ELSE unacked \cup {[seqnum |-> seqnum, time |-> 0]}
        /\ arrived' = arrived \cup {s}
        /\ UNCHANGED <<next_send_seqnum, remembered, next_feedback_seqnum, messages,
                       max_received_seqnum, acked>>

\* Receiver::send_acks, from the tick.
SendAcks ==
    LET arrivals == SetToSortSeq(unacked, LAMBDA a, b : a.seqnum < b.seqnum)
        written  == WriteFeedback(arrivals, next_feedback_seqnum)
    IN  /\ unacked # {}
        /\ messages' = messages \cup ToSet(written)
        /\ next_feedback_seqnum' = (next_feedback_seqnum + Len(written)) % FeedbackCycle
        /\ unacked' = {}
        /\ UNCHANGED <<next_send_seqnum, remembered, in_flight, max_received_tcc_seqnum,
                       max_received_seqnum, arrived, acked>>

\* Seeded fault: an acknowledged packet is still remembered.
ForgetNothing(known) == remembered

Forget(known) == <<remembered[1] \ known, remembered[2] \ known>>

\* process_feedback_and_correlate_acks: a packet that is not remembered is not acknowledged.
ProcessFeedback(m) ==
    LET read  == ReadFeedback(m, max_received_seqnum)
        known == {read[i].seqnum : i \in 1..Len(read)} \cap (remembered[1] \cup remembered[2])
    IN  /\ m \in messages
        /\ \* The network does not keep a message for half a cycle.
           \E s \in AllSeqnums : /\ s % SeqnumCycle = m.base
                                 /\ s > max_received_seqnum - MaxDelay
                                 /\ s < max_received_seqnum + MaxDelay
        /\ max_received_seqnum' = NewMax(m, max_received_seqnum)
        /\ acked' = [s \in AllSeqnums |-> IF s \in known THEN acked[s] + 1 ELSE acked[s]]
        /\ remembered' = Forget(known)
        /\ UNCHANGED <<next_send_seqnum, in_flight, max_received_tcc_seqnum, unacked,
                       next_feedback_seqnum, messages, arrived>>

Next == \/ \E swap \in BOOLEAN : Send(swap)
        \/ \E s \in in_flight : ReceiveRtp(s)
        \/ SendAcks
        \/ \E m \in messages : ProcessFeedback(m)

Spec == Init /\ [][Next]_ack_vars
------------------------------------------------------------------------------
\* What the congestion controller is told of a packet is true and told once: a packet is
\* acknowledged only if it has arrived, and only once, whatever feedback is lost, late or
\* repeated and across the rollover of sequence numbers.
AcksAreTrue == \A s \in AllSeqnums : acked[s] <= 1 /\ (acked[s] = 1 => s \in arrived)

\* A packet that arrived is in some feedback that was written, or still to be written.
ArrivalsAreWritten ==
    \A s \in arrived :
        \/ \E a \in unacked : a.seqnum = s
        \/ \E m \in messages : \E a \in ToSet(ReadFeedback(m, s)) : a.seqnum = s
==============================================================================
