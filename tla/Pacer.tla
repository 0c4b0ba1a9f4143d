-------------------------------- MODULE Pacer ---------------------------------
(***************************************************************************)
(* The pacer of a connection (pacer.rs): packets with a congestion control *)
(* number leave at the media rate, and padding fills up to the padding     *)
(* rate.  Debts are in units of data and decay lazily: they are brought up *)
(* to date only when something is sent or configured.                      *)
(*                                                                         *)
(* A pacer is a record of the fields of the struct.  An Option<Instant> is *)
(* a time or None.  Packets have a kind, a size and a deadline.            *)
(***************************************************************************)
EXTENDS Integers, Sequences

CONSTANTS
    None,
    MaxDebtInTime,  \* MAX_DEBT_IN_TIME
    SizeOf          \* the size of a packet, by kind

ASSUME PacerAssumption ==
    /\ None \notin Int
    /\ MaxDebtInTime \in Nat
    /\ SizeOf \in [{"video", "rtx", "padding"} -> Nat]

Lesser(a, b)  == IF a < b THEN a ELSE b
Larger(a, b)  == IF a > b THEN a ELSE b

\* media: media_send_rate, padding: padding_send_rate.
Config(media, padding, padding_ssrc) ==
    [media |-> media, padding |-> padding, padding_ssrc |-> padding_ssrc]

NewPacer(config) ==
    [config |-> config, video |-> <<>>, rtx |-> <<>>, last_sent |-> None,
     media_debt |-> 0, padding_debt |-> 0]

QueueIsEmpty(p) == p.video = <<>> /\ p.rtx = <<>>
Queued(p)       == p.rtx \o p.video

PastDeadline(packet, now) == packet.deadline = None \/ now > packet.deadline
------------------------------------------------------------------------------
(* When to send next; None means never.                                    *)

NextMediaSendTime(p, now) ==
    IF p.config.media = 0 THEN None
    ELSE IF p.last_sent = None THEN now
    ELSE p.last_sent + p.media_debt \div p.config.media

NextPaddingSendTime(p, now) ==
    IF p.config.padding = 0 \/ p.config.media = 0 THEN None
    ELSE IF p.last_sent = None THEN now
    ELSE p.last_sent + Larger(p.media_debt \div p.config.media,
                              p.padding_debt \div p.config.padding)

NextSendTime(p, now) ==
    IF QueueIsEmpty(p) THEN NextPaddingSendTime(p, now) ELSE NextMediaSendTime(p, now)

PastSendTime(time, now) == time # None /\ now >= time
------------------------------------------------------------------------------
(* The budget.                                                             *)

UpdateBudgetWithTime(p, now) ==
    IF p.last_sent = None THEN [p EXCEPT !.last_sent = now]
    ELSE IF now < p.last_sent THEN p
    ELSE [p EXCEPT !.media_debt   = Larger(0, @ - p.config.media * (now - p.last_sent)),
                   !.padding_debt = Larger(0, @ - p.config.padding * (now - p.last_sent)),
                   !.last_sent    = now]

Capped(debt, rate) == IF rate = 0 THEN debt ELSE Lesser(debt, rate * MaxDebtInTime)

UpdateBudgetWithSentPadding(p, size) ==
    [p EXCEPT !.padding_debt = Capped(@ + size, p.config.padding)]

\* Seeded fault: media is paid for out of the padding rate only.
UpdatePaddingBudgetOnly(p, size) == UpdateBudgetWithSentPadding(p, size)

UpdateBudgetWithSentData(p, size) ==
    UpdateBudgetWithSentPadding([p EXCEPT !.media_debt = Capped(@ + size, p.config.media)], size)
------------------------------------------------------------------------------
(* The operations.  Each returns the pacer, the packet to send or None, and *)
(* the time of the next dequeue to schedule or None.                       *)

Result(pacer, packet, dequeue) == [pacer |-> pacer, packet |-> packet, dequeue |-> dequeue]

\* Seeded fault: a dequeue is only scheduled when there was none to expect.
SetConfigOnce(p, config, now) ==
    LET q   == UpdateBudgetWithSentData([p EXCEPT !.config = config], 0)
        new == NextSendTime(q, now)
    IN  Result(q, None, IF NextSendTime(p, now) # None THEN None ELSE new)

SetConfig(p, config, now) ==
    LET old == NextSendTime(p, now)
        q   == UpdateBudgetWithSentData([p EXCEPT !.config = config], 0)
        new == NextSendTime(q, now)
    IN  IF new = None THEN Result(q, None, None)
        ELSE IF old = None
        THEN IF new < now THEN Result(UpdateBudgetWithTime(q, now), None, now)
                          ELSE Result(q, None, new)
        ELSE IF new <= now
        THEN Result(UpdateBudgetWithTime(q, IF old > now THEN now ELSE old), None, now)
        ELSE Result(q, None, new)

Push(p, packet) == IF packet.kind = "rtx" THEN [p EXCEPT !.rtx = Append(@, packet)]
                                          ELSE [p EXCEPT !.video = Append(@, packet)]

SendNow(p, packet, now) ==
    LET q == UpdateBudgetWithSentData(UpdateBudgetWithTime(p, now), SizeOf[packet.kind])
    IN  Result(q, packet, NextSendTime(q, now))

Enqueue(p, packet, now) ==
    LET q == Push(p, packet) IN
    IF ~QueueIsEmpty(p) THEN Result(q, None, None)
    ELSE IF PastSendTime(NextMediaSendTime(p, now), now) THEN SendNow(p, packet, now)
    ELSE Result(q, None, NextSendTime(q, now))

\* force_enqueue: there is nobody to send to yet.
ForceEnqueue(p, packet) == Push(p, packet)

\* pop_queue: without the expired packets at the front.
Live(queue, now) ==
    LET fresh == {i \in DOMAIN queue : ~PastDeadline(queue[i], now)}
    IN  IF fresh = {} THEN <<>>
        ELSE SubSeq(queue, CHOOSE i \in fresh : \A j \in fresh : i <= j, Len(queue))

\* Seeded fault: expired media is taken for a dequeue that came too early.
DequeuePaddingNoReschedule(p, was_empty, padding, now) ==
    IF p.config.padding_ssrc = None \/ ~PastSendTime(NextPaddingSendTime(p, now), now)
    THEN Result(p, None, None)
    ELSE LET q == UpdateBudgetWithSentPadding(UpdateBudgetWithTime(p, now), SizeOf["padding"])
         IN  Result(q, padding, NextSendTime(q, now))

\* The end of dequeue: nothing was queued, or all of it has expired.
DequeuePadding(p, was_empty, padding, now) ==
    IF p.config.padding_ssrc = None THEN Result(p, None, None)
    ELSE IF PastSendTime(NextPaddingSendTime(p, now), now)
    THEN LET q == UpdateBudgetWithSentPadding(UpdateBudgetWithTime(p, now), SizeOf["padding"])
         IN  Result(q, padding, NextSendTime(q, now))
    ELSE Result(p, None, IF was_empty THEN None ELSE NextSendTime(p, now))

\* dequeue, where padding is what generate_padding returns.
Dequeue(p, padding, now) ==
    LET rtx   == Live(p.rtx, now)
        video == Live(p.video, now)
    IN  IF QueueIsEmpty(p) THEN DequeuePadding(p, TRUE, padding, now)
        ELSE IF ~PastSendTime(NextMediaSendTime(p, now), now) THEN Result(p, None, None)
        ELSE IF rtx # <<>> THEN SendNow([p EXCEPT !.rtx = Tail(rtx)], Head(rtx), now)
        ELSE IF video # <<>>
        THEN SendNow([p EXCEPT !.rtx = <<>>, !.video = Tail(video)], Head(video), now)
        ELSE DequeuePadding([p EXCEPT !.rtx = <<>>, !.video = <<>>], FALSE, padding, now)
==============================================================================
