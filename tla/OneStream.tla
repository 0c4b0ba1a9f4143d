------------------------------ MODULE OneStream ------------------------------
(***************************************************************************)
(* What a receiver is promised by a forwarder, whatever it is made from:   *)
(* one stream of RTP packets.  It comes in segments, each taken from one   *)
(* incoming SSRC.  Within a segment the outgoing sequence numbers keep the *)
(* distances of the incoming ones; a segment begins with a packet that can *)
(* be decoded by itself, and its numbers are all above those used before.  *)
(***************************************************************************)
EXTENDS Integers

CONSTANT None

VARIABLES
    sent,       \* [ssrc, incoming, key, outgoing]: the packets sent; key: decodable by itself
    segment     \* the SSRC, first incoming number and offset in force, or None

Init == sent = {} /\ segment = None

\* A new segment, whose lowest number is above all numbers used.
Begin(p) ==
    /\ p.key
    /\ segment' # None
    /\ segment'.ssrc = p.ssrc
    /\ segment'.first <= p.incoming
    /\ p.outgoing = p.incoming + segment'.offset
    /\ \A e \in sent : e.outgoing < segment'.first + segment'.offset

\* One more packet of the current segment; none is sent twice.
Continue(p) ==
    /\ segment # None
    /\ p.ssrc = segment.ssrc
    /\ p.incoming >= segment.first
    /\ p.outgoing = p.incoming + segment.offset
    /\ \A e \in sent : e.ssrc = p.ssrc => e.incoming # p.incoming
    /\ UNCHANGED segment

\* One packet more in sent.
Send == \E p \in sent' \ sent : /\ sent' = sent \cup {p}
                                /\ Begin(p) \/ Continue(p)

Pause == segment' = None /\ UNCHANGED sent

Next == Send \/ Pause

Spec == Init /\ [][Next]_<<sent, segment>>
==============================================================================
