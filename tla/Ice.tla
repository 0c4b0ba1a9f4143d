--------------------------------- MODULE Ice ---------------------------------
(***************************************************************************)
(* ICE binding requests and the responses to them: backend/src/ice.rs.     *)
(*                                                                         *)
(* A packet is a sequence of cells, each a byte or a few that go together: *)
(* the type, the length and the transaction of the header; the ID and the  *)
(* length of an attribute; the bytes of a value.  A cell is a tuple, of a  *)
(* number or of what a hash was computed from.  Attributes are aligned to  *)
(* two cells, which is also the length of a hash.                          *)
(***************************************************************************)
EXTENDS Integers, Sequences, SequencesExt

HeaderLen == 3          \* HEADER_LEN, in cells
AttrHeader == 2      \* ATTR_HEADER_LEN
HmacLen == 2
FingerprintLen == 2
Align == 2           \* round_up_to_multiple_of::<4>

Username == 6        \* AttributeId
MessageIntegrity == 8
Nomination == 37
Fingerprint == 100
Request == 1         \* BINDING_REQUEST_ID, BINDING_RESPONSE_ID
Response == 257

Byte(n) == <<n>>
Bytes(n) == [i \in 1..n |-> Byte(0)]
RoundUp(n) == ((n + Align - 1) \div Align) * Align

\* Ranges are counted from 0, as in the source.
Slice(cells, range) == SubSeq(cells, range[1] + 1, range[2])
CopyFromSlice(cells, start, value) ==
    [i \in 1..Len(cells) |-> IF i - start \in 1..Len(value) THEN value[i - start] ELSE cells[i]]

Mac(pwd, cells) == [i \in 1..HmacLen |-> <<i, pwd, cells>>]
Crc(cells) == [i \in 1..FingerprintLen |-> <<i, cells>>]
------------------------------------------------------------------------------
(* create_packet.                                                          *)

WriteStunAttribute(id, value) ==
    <<Byte(id), Byte(Len(value))>> \o value \o Bytes(RoundUp(Len(value)) - Len(value))

\* The length in the header counts what is hashed: with the HMAC's own attribute for the HMAC,
\* and the whole packet for the fingerprint.
CreatePacket(type, transaction, username, pwd, nominated) ==
    LET hmaced  == WriteStunAttribute(Username, username)
                   \o (IF nominated THEN WriteStunAttribute(Nomination, <<>>) ELSE <<>>)
        attrs   == Len(hmaced) + AttrHeader + RoundUp(HmacLen)
        all     == attrs + AttrHeader + RoundUp(FingerprintLen)
        head(n) == <<Byte(type), Byte(n), transaction>>
        hmac    == WriteStunAttribute(MessageIntegrity, Mac(pwd, head(attrs) \o hmaced))
        fingerprinted == head(all) \o hmaced \o hmac
    IN  fingerprinted \o WriteStunAttribute(Fingerprint, Crc(fingerprinted))
------------------------------------------------------------------------------
(* BindingRequest::parse.                                                  *)

\* Seeded fault: attributes are read after the HMAC as before it.
ReadsAttributesOn(p, id) == TRUE

ReadsAttributes(p, id) == p.mode = "ReadingAttributes"

\* One attribute; p says what was found so far.
ParseAttribute(p, id, range) ==
    LET len == range[2] - range[1]
    IN  CASE ReadsAttributes(p, id) /\ id = Username   -> [p EXCEPT !.username = range]
          [] ReadsAttributes(p, id) /\ id = Nomination -> [p EXCEPT !.nominated = TRUE]
          [] ReadsAttributes(p, id) /\ id = MessageIntegrity /\ len = HmacLen ->
                [p EXCEPT !.hmac = range, !.mode = "ExpectFingerprint"]
          [] p.mode = "ExpectFingerprint" /\ id = Fingerprint /\ len = FingerprintLen ->
                [p EXCEPT !.fingerprint = range, !.mode = "Done"]
          [] ReadsAttributes(p, id) /\ id \notin {Fingerprint, MessageIntegrity} -> p
          [] OTHER -> [p EXCEPT !.mode = "Error"]

NoRange == <<0, 0>>

Parse(packet) ==
    LET f[start \in Nat] ==
          \* What was found before `start`, and from where on the next attribute is.
          IF start = 0
          THEN [p |-> [mode |-> "ReadingAttributes", username |-> NoRange, hmac |-> NoRange,
                       fingerprint |-> NoRange, nominated |-> FALSE],
                next |-> HeaderLen]
          ELSE LET before == f[start - 1]
                   at     == before.next
                   from   == at + AttrHeader
                   end    == from + packet[at + 2][1]
               IN  IF before.p.mode = "Error" \/ Len(packet) < from THEN before
                   ELSE IF end > Len(packet)
                   THEN [before EXCEPT !.p.mode = "Error"]
                   ELSE [p    |-> ParseAttribute(before.p, packet[at + 1][1], <<from, end>>),
                         next |-> RoundUp(end - HeaderLen) + HeaderLen]
        found == f[Len(packet) \div AttrHeader].p
    IN  IF \/ Len(packet) < HeaderLen \/ packet[2] # Byte(Len(packet) - HeaderLen)
           \/ NoRange \in {found.username, found.hmac, found.fingerprint}
        THEN [found EXCEPT !.mode = "Error"]
        ELSE found

Accepted(p) == p.mode = "Done"

\* Seeded fault: the HMAC is of the header as it is, with the length of the whole packet.
CalculateHmacAsIs(packet, p, pwd) == Mac(pwd, Slice(packet, <<0, p.hmac[1] - AttrHeader>>))

CalculateHmac(packet, p, pwd) ==
    Mac(pwd, <<packet[1], Byte(p.hmac[2] - HeaderLen)>> \o Slice(packet, <<2, p.hmac[1] - AttrHeader>>))

\* verify_hmac.
Verified(packet, p, pwd) == Slice(packet, p.hmac) = CalculateHmac(packet, p, pwd)

\* to_binding_response: the request is turned into its response in place.
ToBindingResponse(packet, p, username, pwd) ==
    LET renamed == CopyFromSlice([packet EXCEPT ![1] = Byte(Response)], p.username[1], username)
        hmaced  == CopyFromSlice(renamed, p.hmac[1], CalculateHmac(renamed, p, pwd))
    IN  CopyFromSlice(hmaced, p.fingerprint[1],
                      Crc(Slice(hmaced, <<0, p.fingerprint[1] - AttrHeader>>)))

\* Connection::handle_ice_binding_request, as far as packets go.
Answer(packet, request_username, response_username, pwd) ==
    LET p == Parse(packet)
    IN  IF Accepted(p) /\ Verified(packet, p, pwd) /\ Slice(packet, p.username) = request_username
        THEN ToBindingResponse(packet, p, response_username, pwd)
        ELSE <<>>
------------------------------------------------------------------------------
\* A request is answered with the response its sender would make itself: whatever the length
\* of the usernames and their padding, and nominated or not, the parts that are rewritten in
\* place are the right ones.
RequestIsAnswered(request_username, response_username, nominated) ==
    Answer(CreatePacket(Request, Byte(9), request_username, 5, nominated),
           request_username, response_username, 5)
    = CreatePacket(Response, Byte(9), response_username, 5, nominated)

\* What parse() finds is vouched for: of the packets that verify_hmac can accept, the username
\* and the nomination that are used lie before the HMAC, the fingerprint right after it, and
\* no attribute follows.
FoundIsVouchedFor(packet) ==
    LET p == Parse(packet)
    IN  Accepted(p) =>
           /\ p.username[2] <= p.hmac[1] - AttrHeader
           /\ p.fingerprint[1] - AttrHeader = RoundUp(p.hmac[2] - HeaderLen) + HeaderLen
           /\ Len(packet) < RoundUp(p.fingerprint[2] - HeaderLen) + HeaderLen + AttrHeader
           /\ p.nominated = \E i \in (HeaderLen + 1)..(p.hmac[1] - AttrHeader) :
                                packet[i] = Byte(Nomination)
==============================================================================
