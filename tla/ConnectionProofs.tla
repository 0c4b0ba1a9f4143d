--------------------------- MODULE ConnectionProofs ---------------------------
(***************************************************************************)
(* Proofs about Connection, for any addresses, configurations, sequence    *)
(* numbers, sizes and limits: no number is used twice, the pacer never     *)
(* stops while it could send, and what is lost is asked for.               *)
(***************************************************************************)
EXTENDS EndpointProofs

------------------------------------------------------------------------------
(* The receiving half: what is taken.                                      *)

Detectors == [first : Nat, used : SUBSET Nat]

\* The detector would not take the number again.
Seen(d, n) == n < d.first \/ n \in d.used

LEMMA RememberUsedFacts ==
    ASSUME NEW d \in Detectors, NEW n \in Nat
    PROVE  LET u == RememberUsed(d, n) IN
           /\ u.detector \in Detectors
           /\ \A m \in Nat : Seen(d, m) => Seen(u.detector, m)
           /\ u.reuse = "new" => ~Seen(d, n) /\ Seen(u.detector, n)
<1>0. d.first \in Nat /\ d.used \subseteq Nat /\ WindowSize \in Nat \ {0}
  BY EndpointAssumption DEF Detectors
<1>1. CASE n < d.first
  <2>1. RememberUsed(d, n) = [detector |-> d, reuse |-> "too_old"]
    BY <1>1 DEF RememberUsed
  <2>2. RememberUsed(d, n).detector = d /\ RememberUsed(d, n).reuse = "too_old"
    BY <2>1
  <2> QED BY <2>2
<1>2. CASE ~(n < d.first)
  <2>1. PICK last : last = d.first + WindowSize - 1
    OBVIOUS
  <2>2. PICK first : first = IF n > last THEN d.first + (n - last) ELSE d.first
    OBVIOUS
  <2>3. first \in Nat /\ first >= d.first /\ n >= d.first /\ last \in Nat
    BY <1>0, <1>2, <2>1, <2>2
  <2>4. PICK used : used = {m \in d.used : m >= first} \cup {n}
    BY Zenon
  <2>5. PICK d1 : d1 = [first |-> first, used |-> used]
    BY Zenon
  <2>6. PICK reuse : reuse = IF n \in d.used THEN "used" ELSE "new"
    OBVIOUS
  <2>7. RememberUsed(d, n) = [detector |-> d1, reuse |-> reuse]
    BY <1>2, <2>1, <2>2, <2>4, <2>5, <2>6 DEF RememberUsed
  <2>8. RememberUsed(d, n).detector = d1 /\ RememberUsed(d, n).reuse = reuse
    BY <2>7
  <2>9. d1.first = first /\ d1.used = used /\ used \subseteq Nat /\ d1 \in Detectors
    BY <1>0, <2>3, <2>4, <2>5 DEF Detectors
  <2>10. \A m \in Nat : Seen(d, m) => Seen(d1, m)
    BY <1>0, <2>3, <2>4, <2>9 DEF Seen
  <2>11. reuse = "new" => ~Seen(d, n) /\ Seen(d1, n)
    BY <1>2, <2>4, <2>6, <2>9 DEF Seen
  <2> QED BY <2>8, <2>9, <2>10, <2>11
<1> QED BY <1>1, <1>2

TakenPackets == {"video", "rtx"} \X Nat \X Seqnums
NumbersOf(tk) == {t[3] : t \in Range(tk)}
HeadersOf(tk) == [i \in DOMAIN tk |-> <<tk[i][1], tk[i][2]>>]

\* tk1 is tk with x at its end.
Grown(tk, x, tk1) ==
    /\ tk1 \in Seq(TakenPackets) /\ DOMAIN tk1 = DOMAIN tk \cup {Len(tk) + 1}
    /\ \A i \in DOMAIN tk : tk1[i] = tk[i]
    /\ tk1[Len(tk) + 1] = x
    /\ NumbersOf(tk1) = NumbersOf(tk) \cup {x[3]}
    /\ NumbersOf(tk) = {} <=> tk = <<>>
    /\ tk1[1] = IF tk = <<>> THEN x ELSE tk[1]

LEMMA TakenFacts ==
    ASSUME NEW tk \in Seq(TakenPackets), NEW x \in TakenPackets, NEW tk1, tk1 = Append(tk, x)
    PROVE  Grown(tk, x, tk1)
<1>1. /\ tk1 \in Seq(TakenPackets) /\ Len(tk1) = Len(tk) + 1
      /\ \A i \in 1..Len(tk) : tk1[i] = tk[i]
      /\ tk1[Len(tk) + 1] = x
  BY AppendIs
<1>2. DOMAIN tk = 1..Len(tk) /\ Len(tk) \in Nat /\ DOMAIN tk1 = 1..(Len(tk) + 1)
  BY <1>1
<1>3. DOMAIN tk1 = DOMAIN tk \cup {Len(tk) + 1}
  BY <1>2
<1>4. Range(tk1) = Range(tk) \cup {x}
  BY <1>1, <1>2, <1>3 DEF Range
<1>5. NumbersOf(tk1) = NumbersOf(tk) \cup {x[3]}
  BY <1>4 DEF NumbersOf
<1>6. NumbersOf(tk) = {} <=> tk = <<>>
  <2>1. NumbersOf(tk) = {} <=> DOMAIN tk = {}
    BY Zenon DEF NumbersOf, Range
  <2>2. DOMAIN tk = {} <=> tk = <<>>
    BY <1>2
  <2> QED BY <2>1, <2>2
<1>7. tk1[1] = IF tk = <<>> THEN x ELSE tk[1]
  <2>1. CASE tk = <<>>
    BY <1>1, <2>1
  <2>2. CASE tk # <<>>
    <3>1. 1 \in 1..Len(tk)
      BY <2>2
    <3> QED BY <1>1, <2>2, <3>1
  <2> QED BY <2>1, <2>2
<1> QED BY <1>1, <1>2, <1>3, <1>5, <1>6, <1>7 DEF Grown

\* No packet of tk has the header of x.
IsNew(tk, x) == \A i \in DOMAIN tk : ~(tk[i][1] = x[1] /\ tk[i][2] = x[2])

\* A header that was not there before leaves the headers without repetitions.
LEMMA HeadersFacts ==
    ASSUME NEW tk \in Seq(TakenPackets), NEW x \in TakenPackets, NEW tk1, tk1 = Append(tk, x),
           IsInjective(HeadersOf(tk)), IsNew(tk, x)
    PROVE  IsInjective(HeadersOf(tk1))
<1>1. PICK kind, header : kind = x[1] /\ header = x[2]
  OBVIOUS
<1>2. \A i \in DOMAIN tk : ~(tk[i][1] = kind /\ tk[i][2] = header)
  BY <1>1, Zenon DEF IsNew
<1>3. PICK len : len = Len(tk) + 1
  OBVIOUS
<1>4. /\ DOMAIN tk1 = DOMAIN tk \cup {len} /\ \A i \in DOMAIN tk : tk1[i] = tk[i]
      /\ tk1[len] = x
  <2>1. Grown(tk, x, tk1)
    BY TakenFacts, Zenon
  <2> QED BY <1>3, <2>1 DEF Grown
<1>5. PICK h : h = HeadersOf(tk)
  OBVIOUS
<1>6. PICK h1 : h1 = HeadersOf(tk1)
  OBVIOUS
<1>7. /\ DOMAIN h = DOMAIN tk /\ \A i \in DOMAIN tk : h[i] = <<tk[i][1], tk[i][2]>>
      /\ DOMAIN h1 = DOMAIN tk1 /\ \A i \in DOMAIN tk1 : h1[i] = <<tk1[i][1], tk1[i][2]>>
  BY <1>5, <1>6 DEF HeadersOf
<1>8. \A i \in DOMAIN tk : h1[i] = h[i] /\ h1[i] # <<kind, header>>
  <2>1. SUFFICES ASSUME NEW i \in DOMAIN tk PROVE h1[i] = h[i] /\ h1[i] # <<kind, header>>
    OBVIOUS
  <2>2. PICK a, b : a = tk[i][1] /\ b = tk[i][2]
    OBVIOUS
  <2>3. i \in DOMAIN tk1 /\ tk1[i] = tk[i]
    BY <1>4
  <2>4. h1[i] = <<a, b>> /\ h[i] = <<a, b>> /\ ~(a = kind /\ b = header)
    BY <1>2, <1>7, <2>2, <2>3
  <2> QED BY <2>4
<1>9. h1[len] = <<kind, header>>
  BY <1>1, <1>4, <1>7
<1>10. \A i, j \in DOMAIN tk : h1[i] = h1[j] => i = j
  BY <1>5, <1>7, <1>8 DEF IsInjective
<1>11. \A i, j \in DOMAIN h1 : h1[i] = h1[j] => i = j
  BY <1>4, <1>7, <1>8, <1>9, <1>10, SMTT(30)
<1> QED BY <1>6, <1>11, Zenon DEF IsInjective

ReceiverOf(detectors, nack) == [detectors |-> detectors, nack |-> nack]

ReceiveInv ==
    /\ receiver = ReceiverOf(receiver.detectors, receiver.nack)
    /\ receiver.detectors \in [{"video", "rtx"} -> Detectors]
    /\ taken \in Seq(TakenPackets)
    /\ \A i \in DOMAIN taken : Seen(receiver.detectors[taken[i][1]], taken[i][2])
    /\ IsInjective(HeadersOf(taken))
    /\ NackOK(receiver.nack, NumbersOf(taken), taken[1][3], asked)

LEMMA ReceiveInit == Init => ReceiveInv
<1> SUFFICES ASSUME Init PROVE ReceiveInv
  OBVIOUS
<1>1. PICK none : none = <<>>
  OBVIOUS
<1>2. none \in Seq(TakenPackets) /\ DOMAIN none = {}
  BY <1>1
<1>3. /\ receiver = ReceiverOf([s \in {"video", "rtx"} |-> NewDetector], NewNackSender)
      /\ taken = none /\ asked = [n \in Seqnums |-> 0]
  BY <1>1 DEF Init, NewReceiver, ReceiverOf
<1>4. /\ receiver.detectors = [s \in {"video", "rtx"} |-> NewDetector]
      /\ receiver.nack = NewNackSender
      /\ receiver = ReceiverOf(receiver.detectors, receiver.nack)
  BY <1>3 DEF ReceiverOf
<1>5. receiver.detectors \in [{"video", "rtx"} -> Detectors]
  <2>1. NewDetector \in Detectors
    BY DEF NewDetector, Detectors
  <2> QED BY <1>4, <2>1
<1>6. NewNackSender = [max_received |-> None, times |-> none]
  BY <1>1 DEF NewNackSender
<1>7. NumbersOf(none) = {}
  BY <1>2 DEF NumbersOf, Range
<1>8. NackOK(NewNackSender, {}, taken[1][3], asked)
  <2>1. PICK s : s = NewNackSender
    OBVIOUS
  <2>2. /\ s.max_received = None /\ s.times = none
        /\ s = [max_received |-> s.max_received, times |-> s.times]
    BY <1>6, <2>1
  <2>3. asked \in [Seqnums -> Nat] /\ \A n \in Seqnums : asked[n] = 0
    BY <1>3
  <2>4. MaxOK(s, {}, taken[1][3]) /\ TimesOK(s, {}, asked) /\ GapsOK(s, {}, taken[1][3], asked)
    BY <1>2, <2>2 DEF MaxOK, TimesOK, GapsOK
  <2>5. CountsOK(s, {}, asked)
    BY <2>3, EndpointAssumption DEF CountsOK
  <2> QED BY <2>1, <2>2, <2>3, <2>4, <2>5 DEF NackOK
<1>9. IsInjective(HeadersOf(none))
  BY <1>2 DEF IsInjective, HeadersOf
<1> QED BY <1>2, <1>3, <1>4, <1>5, <1>7, <1>8, <1>9 DEF ReceiveInv

LEMMA ReceivePacketStep ==
    ASSUME CardinalityMonotone, ReceiveInv, NEW kind \in {"video", "rtx"}, NEW header \in Nat,
           NEW n \in Seqnums, ReceivePacket(kind, header, n)
    PROVE  ReceiveInv'
<1>0. /\ receiver = ReceiverOf(receiver.detectors, receiver.nack)
      /\ receiver.detectors \in [{"video", "rtx"} -> Detectors]
      /\ taken \in Seq(TakenPackets)
      /\ \A i \in DOMAIN taken : Seen(receiver.detectors[taken[i][1]], taken[i][2])
      /\ IsInjective(HeadersOf(taken))
      /\ NackOK(receiver.nack, NumbersOf(taken), taken[1][3], asked)
  BY DEF ReceiveInv
<1>1. PICK d : d = receiver.detectors[kind]
  OBVIOUS
<1>2. PICK u : u = RememberUsed(d, header)
  OBVIOUS
<1>3. /\ u.detector \in Detectors
      /\ \A m \in Nat : Seen(d, m) => Seen(u.detector, m)
      /\ u.reuse = "new" => ~Seen(d, header) /\ Seen(u.detector, header)
  BY <1>0, <1>1, <1>2, RememberUsedFacts
<1>4. StreamOf(kind) = kind
  BY DEF StreamOf
<1>5. PICK D : D = [receiver.detectors EXCEPT ![kind] = u.detector]
  BY Zenon
<1>6. PICK nack : nack = IF u.reuse = "new" THEN NackRememberReceived(receiver.nack, n)
                         ELSE receiver.nack
  OBVIOUS
<1>7. receiver' = ReceiverOf(D, nack)
  BY <1>1, <1>2, <1>4, <1>5, <1>6 DEF ReceivePacket, ReceiveRtp, ReceiverOf
<1>8. PICK x : x = <<kind, header, n>>
  BY Zenon
<1>9. taken' = (IF u.reuse = "new" THEN Append(taken, x) ELSE taken) /\ asked' = asked
  BY <1>1, <1>2, <1>4, <1>8 DEF ReceivePacket, Takes
<1>10. x \in TakenPackets /\ x[1] = kind /\ x[2] = header /\ x[3] = n
  BY <1>8 DEF TakenPackets
<1>11. /\ receiver'.detectors = D /\ receiver'.nack = nack
       /\ receiver' = ReceiverOf(receiver'.detectors, receiver'.nack)
  BY <1>7 DEF ReceiverOf
<1>12. /\ D \in [{"video", "rtx"} -> Detectors] /\ D[kind] = u.detector
       /\ \A k \in {"video", "rtx"} : k # kind => D[k] = receiver.detectors[k]
  BY <1>0, <1>3, <1>5
<1>13. \A i \in DOMAIN taken : /\ taken[i][1] \in {"video", "rtx"} /\ taken[i][2] \in Nat
                               /\ Seen(D[taken[i][1]], taken[i][2])
  <2>1. SUFFICES ASSUME NEW i \in DOMAIN taken
                 PROVE  /\ taken[i][1] \in {"video", "rtx"} /\ taken[i][2] \in Nat
                        /\ Seen(D[taken[i][1]], taken[i][2])
    OBVIOUS
  <2>2. taken[i] \in TakenPackets
    BY <1>0, <2>1
  <2>3. taken[i][1] \in {"video", "rtx"} /\ taken[i][2] \in Nat
    BY <2>2 DEF TakenPackets
  <2>4. Seen(receiver.detectors[taken[i][1]], taken[i][2])
    BY <1>0, <2>1
  <2>5. PICK k, h : k = taken[i][1] /\ h = taken[i][2]
    OBVIOUS
  <2>6. Seen(D[k], h)
    BY <1>1, <1>3, <1>12, <2>3, <2>4, <2>5
  <2> QED BY <2>3, <2>5, <2>6
<1>14. CASE u.reuse # "new"
  <2>1. taken' = taken /\ nack = receiver.nack
    BY <1>6, <1>9, <1>14
  <2> QED BY <1>0, <1>9, <1>11, <1>12, <1>13, <2>1 DEF ReceiveInv
<1>15. CASE u.reuse = "new"
  <2>1. taken' = Append(taken, x) /\ nack = NackRememberReceived(receiver.nack, n)
    BY <1>6, <1>9, <1>15
  <2>2. /\ taken' \in Seq(TakenPackets) /\ DOMAIN taken' = DOMAIN taken \cup {Len(taken) + 1}
        /\ \A i \in DOMAIN taken : taken'[i] = taken[i]
        /\ taken'[Len(taken) + 1] = x
        /\ NumbersOf(taken') = NumbersOf(taken) \cup {n}
        /\ NumbersOf(taken) = {} <=> taken = <<>>
        /\ taken'[1] = IF taken = <<>> THEN x ELSE taken[1]
    <3>1. Grown(taken, x, taken')
      BY <1>0, <1>10, <2>1, TakenFacts, Zenon
    <3> QED BY <1>10, <3>1 DEF Grown
  <2>3. \A i \in DOMAIN taken' : Seen(D[taken'[i][1]], taken'[i][2])
    BY <1>3, <1>10, <1>12, <1>13, <1>15, <2>2
  <2>4. IsInjective(HeadersOf(taken'))
    <3>1. \A i \in DOMAIN taken : ~(taken[i][1] = kind /\ taken[i][2] = header)
      BY <1>0, <1>1, <1>3, <1>15
    <3>2. IsNew(taken, x)
      BY <1>10, <3>1, Zenon DEF IsNew
    <3>3. taken \in Seq(TakenPackets) /\ IsInjective(HeadersOf(taken))
      BY <1>0, Zenon
    <3> QED BY <1>10, <2>1, <3>2, <3>3, HeadersFacts, Zenon
  <2>5. taken'[1][3] = IF NumbersOf(taken) = {} THEN n ELSE taken[1][3]
    BY <1>10, <2>2
  <2>6. NackOK(nack, NumbersOf(taken'), taken'[1][3], asked)
    <3>1. PICK R, f, f1, c, s : /\ R = NumbersOf(taken) /\ f = taken[1][3] /\ f1 = taken'[1][3]
                                /\ c = asked /\ s = receiver.nack
      OBVIOUS
    <3>2. NackOK(s, R, f, c) /\ f1 = IF R = {} THEN n ELSE f
      BY <1>0, <2>5, <3>1
    <3>3. NackOK(NackRememberReceived(s, n), R \cup {n}, f1, c)
      BY <3>2, NackReceivedFacts
    <3> QED BY <2>1, <2>2, <3>1, <3>3
  <2> QED BY <1>9, <1>11, <1>12, <2>2, <2>3, <2>4, <2>6 DEF ReceiveInv
<1> QED BY <1>14, <1>15

LEMMA TickNacksStep ==
    ASSUME ReceiveInv, TickNacks
    PROVE  ReceiveInv'
<1>0. /\ receiver = ReceiverOf(receiver.detectors, receiver.nack) /\ taken' = taken
      /\ NackOK(receiver.nack, NumbersOf(taken), taken[1][3], asked)
  BY DEF ReceiveInv, TickNacks
<1>1. PICK s : s = receiver.nack
  OBVIOUS
<1>2. PICK r : r = SendNacks(s, 0, Rtt)
  OBVIOUS
<1>3. receiver' = [receiver EXCEPT !.nack = r.sender]
      /\ asked' = [n \in Seqnums |-> asked[n] + IF n \in r.nacks THEN 1 ELSE 0]
  BY <1>1, <1>2 DEF TickNacks, Now
<1>4. receiver' = ReceiverOf(receiver.detectors, r.sender)
  BY <1>0, <1>3 DEF ReceiverOf
<1>5. /\ receiver'.detectors = receiver.detectors /\ receiver'.nack = r.sender
      /\ receiver' = ReceiverOf(receiver'.detectors, receiver'.nack)
  BY <1>4 DEF ReceiverOf
<1>6. NackOK(r.sender, NumbersOf(taken), taken[1][3], asked')
  <2>1. PICK R, f, c, c1 : R = NumbersOf(taken) /\ f = taken[1][3] /\ c = asked /\ c1 = asked'
    OBVIOUS
  <2>2. NackOK(s, R, f, c) /\ c1 = [n \in Seqnums |-> c[n] + IF n \in r.nacks THEN 1 ELSE 0]
    BY <1>0, <1>1, <1>3, <2>1
  <2>3. NackOK(r.sender, R, f, c1)
    BY <1>2, <2>2, NackTickFacts
  <2> QED BY <2>1, <2>3
<1> QED BY <1>0, <1>5, <1>6 DEF ReceiveInv

LEMMA AgedReceiveStep ==
    ASSUME ReceiveInv, TimePasses
    PROVE  ReceiveInv'
<1>0. /\ receiver = ReceiverOf(receiver.detectors, receiver.nack) /\ taken' = taken
      /\ asked' = asked
      /\ NackOK(receiver.nack, NumbersOf(taken), taken[1][3], asked)
  BY DEF ReceiveInv, TimePasses
<1>1. PICK s, D : s = receiver.nack /\ D = receiver.detectors
  OBVIOUS
<1>2. s = [max_received |-> s.max_received, times |-> s.times]
  BY <1>0, <1>1 DEF NackOK
<1>3. PICK m, t, t1 : m = s.max_received /\ t = s.times /\ t1 = AgedTimes(s.times)
  OBVIOUS
<1>4. receiver = [detectors |-> D, nack |-> [max_received |-> m, times |-> t]]
  BY <1>0, <1>1, <1>2, <1>3 DEF ReceiverOf
<1>5. receiver' = [receiver EXCEPT !.nack.times = t1]
  BY <1>1, <1>3 DEF TimePasses
<1>6. receiver' = ReceiverOf(D, [max_received |-> m, times |-> t1])
  BY <1>4, <1>5 DEF ReceiverOf
<1>7. /\ receiver'.detectors = receiver.detectors
      /\ receiver'.nack = [max_received |-> m, times |-> t1]
      /\ receiver' = ReceiverOf(receiver'.detectors, receiver'.nack)
  BY <1>1, <1>6 DEF ReceiverOf
<1>8. NackOK(receiver'.nack, NumbersOf(taken), taken[1][3], asked)
  BY <1>0, <1>1, <1>3, <1>7, NackAgedFacts
<1> QED BY <1>0, <1>7, <1>8 DEF ReceiveInv

LEMMA ReceiveStep ==
    ASSUME CardinalityMonotone, ReceiveInv, [Next]_vars
    PROVE  ReceiveInv'
<1>1. ASSUME UNCHANGED receiveVars PROVE ReceiveInv'
  BY <1>1 DEF ReceiveInv, receiveVars
<1>2. ASSUME NEW n \in Seqnums, ReceivePacket("video", n, n) PROVE ReceiveInv'
  BY <1>2, SeqnumAssumption, ReceivePacketStep
<1>3. ASSUME NEW n \in Seqnums, NEW h \in 1..MaxRtx, ReceivePacket("rtx", h, n) PROVE ReceiveInv'
  <2>1. h \in Nat
    BY EndpointAssumption
  <2> QED BY <1>3, <2>1, ReceivePacketStep
<1>4. CASE TickNacks
  BY <1>4, TickNacksStep
<1>5. CASE TimePasses
  BY <1>5, AgedReceiveStep
<1>6. ASSUME NEW a, BindingRequest(a, TRUE) \/ BindingRequest(a, FALSE) \/ AddressForgotten(a)
      PROVE  ReceiveInv'
  BY <1>1, <1>6 DEF BindingRequest, AddressForgotten
<1>7. CASE AddressLearned
  BY <1>1, <1>7 DEF AddressLearned
<1>8. ASSUME NEW kind, NEW n, SendOrEnqueue(kind, n) PROVE ReceiveInv'
  BY <1>1, <1>8 DEF SendOrEnqueue
<1>9. ASSUME NEW first, NEW second, HandleNack(first, second) PROVE ReceiveInv'
  BY <1>1, <1>9 DEF HandleNack
<1>10. CASE HandleSomeDequeue
  BY <1>1, <1>10 DEF HandleSomeDequeue, HandleDequeue
<1>11. CASE ConfigureSome
  BY <1>1, <1>11 DEF ConfigureSome, Configure
<1>12. CASE UNCHANGED vars
  BY <1>1, <1>12 DEF vars
<1> QED
  BY <1>2, <1>3, <1>4, <1>5, <1>6, <1>7, <1>8, <1>9, <1>10, <1>11, <1>12, Zenon DEF Next

------------------------------------------------------------------------------
(* The sending half, the pacer and the endpoint together.                  *)

SendOK(p, e, fwd) == PacerOK(p) /\ EndpointOK(e) /\ Numbers(e, fwd) /\ PendOK(e, p.rtx)

\* Every packet of a queue is in another one.
Kept(rtx, rtx1) == \A i \in DOMAIN rtx : \E j \in DOMAIN rtx1 : rtx1[j] = rtx[i]

\* What is pending in e1 was so in e, and has not left the queue.
StillPending(e, rtx, e1, rtx1) ==
    \A n \in DOMAIN e1.sent : e1.sent[n].pending_retransmission =>
        /\ n \in DOMAIN e.sent /\ e1.sent[n] = e.sent[n]
        /\ \A i \in DOMAIN rtx :
              rtx[i].seqnum = n /\ rtx[i].deadline = e.sent[n].deadline
                 => \E j \in DOMAIN rtx1 : rtx1[j] = rtx[i]

\* What is pending is still queued when nothing that lives is taken from the queue and
\* nothing becomes pending.
LEMMA StillQueued ==
    ASSUME NEW e, NEW rtx, PendOK(e, rtx), NEW e1, NEW rtx1, StillPending(e, rtx, e1, rtx1)
    PROVE  PendOK(e1, rtx1)
<1> SUFFICES ASSUME NEW n \in DOMAIN e1.sent, e1.sent[n].pending_retransmission
             PROVE  \E j \in DOMAIN rtx1 : /\ rtx1[j].seqnum = n /\ rtx1[j].encrypted
                                           /\ rtx1[j].deadline = e1.sent[n].deadline
  BY DEF PendOK
<1>1. n \in DOMAIN e.sent /\ e1.sent[n] = e.sent[n] /\ e.sent[n].pending_retransmission
  BY Zenon DEF StillPending
<1>2. PICK i \in DOMAIN rtx : /\ rtx[i].seqnum = n /\ rtx[i].encrypted
                              /\ rtx[i].deadline = e.sent[n].deadline
  BY <1>1 DEF PendOK
<1>3. PICK j \in DOMAIN rtx1 : rtx1[j] = rtx[i]
  BY <1>2, Zenon DEF StillPending
<1> QED BY <1>1, <1>2, <1>3, Zenon

LEMMA NumbersGrow ==
    ASSUME NEW e, NEW fwd, NEW fwd1, Numbers(e, fwd), fwd \subseteq fwd1
    PROVE  Numbers(e, fwd1)
BY DEF Numbers

\* What enqueueing does to the retransmissions.
LEMMA EnqueueKeeps ==
    ASSUME NEW p, PacerOK(p), NEW kind \in {"video", "rtx"}, NEW packet \in QueuePackets(kind)
    PROVE  /\ Kept(p.rtx, Enqueue(p, packet, 0).pacer.rtx) /\ Kept(p.rtx, Push(p, packet).rtx)
           /\ kind = "rtx" /\ Enqueue(p, packet, 0).packet = None =>
                 \E j \in DOMAIN Enqueue(p, packet, 0).pacer.rtx :
                     Enqueue(p, packet, 0).pacer.rtx[j] = packet
<1>1. p.rtx \in Seq(QueuePackets("rtx"))
  BY PacerFields DEF PacerOK
<1>2. PICK q : q = Push(p, packet)
  OBVIOUS
<1>3. /\ kind = "video" => q.rtx = p.rtx
      /\ kind = "rtx" => q.rtx = Append(p.rtx, packet)
  BY <1>2, PushFacts
<1>4. /\ \A i \in DOMAIN p.rtx : \E j \in DOMAIN q.rtx : q.rtx[j] = p.rtx[i]
      /\ kind = "rtx" => \E j \in DOMAIN q.rtx : q.rtx[j] = packet
  <2>1. CASE kind = "video"
    BY <1>3, <2>1
  <2>2. CASE kind = "rtx"
    <3>1. packet \in QueuePackets("rtx")
      BY <2>2
    <3>2. ASSUME NEW i \in DOMAIN p.rtx
          PROVE  \E j \in DOMAIN Append(p.rtx, packet) : Append(p.rtx, packet)[j] = p.rtx[i]
      <4>1. /\ Len(Append(p.rtx, packet)) = Len(p.rtx) + 1
            /\ Append(p.rtx, packet) \in Seq(QueuePackets("rtx"))
            /\ \A k \in 1..Len(p.rtx) : Append(p.rtx, packet)[k] = p.rtx[k]
        BY <1>1, <3>1, AppendIs
      <4>2. i \in DOMAIN Append(p.rtx, packet) /\ Append(p.rtx, packet)[i] = p.rtx[i]
        BY <1>1, <4>1
      <4> QED BY <4>2
    <3>3. \E j \in DOMAIN Append(p.rtx, packet) : Append(p.rtx, packet)[j] = packet
      <4>1. Appended(QueuePackets("rtx"), p.rtx, packet, Append(p.rtx, packet))
        BY <1>1, <3>1, AppendElements, Zenon
      <4> QED BY <4>1, Zenon DEF Appended
    <3>4. q.rtx = Append(p.rtx, packet)
      BY <1>3, <2>2
    <3> QED BY <3>2, <3>3, <3>4, Zenon
  <2> QED BY <2>1, <2>2
<1>5. PICK r : r = Enqueue(p, packet, 0)
  OBVIOUS
<1>6. \/ r.packet = None /\ r.pacer = q
      \/ r.packet = packet /\ r.pacer.rtx = p.rtx
  BY <1>2, <1>5, EnqueueFacts
<1>7. packet # None
  BY NoneAssumption DEF QueuePackets
<1>8. /\ \A i \in DOMAIN p.rtx : \E j \in DOMAIN r.pacer.rtx : r.pacer.rtx[j] = p.rtx[i]
      /\ kind = "rtx" /\ r.packet = None => \E j \in DOMAIN r.pacer.rtx : r.pacer.rtx[j] = packet
  BY <1>4, <1>6, <1>7
<1> QED BY <1>2, <1>4, <1>5, <1>8, Zenon DEF Kept

\* The sending half of send_or_enqueue_rtp, for a packet that comes with its header.
Incoming(kind, n) == Packet(kind, n, IF kind = "video" THEN n ELSE 0, PacketLifetime)

LEMMA ForwardFacts ==
    ASSUME NEW p, NEW e, NEW fwd, SendOK(p, e, fwd), NEW kind \in {"video", "rtx"},
           NEW n \in Seqnums, <<kind, n>> \notin fwd, NEW times
    PROVE  LET s == SendRtp(e, Incoming(kind, n), 0)
               r == Enqueue(p, s.packet, 0)
           IN  /\ SendOK(r.pacer, s.endpoint, fwd \cup {<<kind, n>>})
               /\ r.dequeue \in Int \cup {None}
               /\ FlowOK(p, times) => FlowOK(r.pacer, With(times, r.dequeue))
<1>0. /\ PacerOK(p) /\ EndpointOK(e) /\ Numbers(e, fwd) /\ PendOK(e, p.rtx)
      /\ PacketLifetime \in Nat /\ PacketLifetime \in Int \cup {None} /\ n \in Nat
      /\ kind \in {"video", "rtx", "padding"}
  BY EndpointAssumption, SeqnumAssumption DEF SendOK
<1>1. PICK header : header = IF kind = "video" THEN n ELSE e.next_rtx
  OBVIOUS
<1>2. header \in Nat
  BY <1>0, <1>1, EndpointAssumption, SMTT(30) DEF EndpointOK
<1>3. PICK packet : packet = [kind |-> kind, seqnum |-> n, header |-> header,
                              deadline |-> PacketLifetime, encrypted |-> FALSE]
  BY Zenon
<1>4. /\ packet \in Packets /\ packet.kind = kind /\ packet.seqnum = n
      /\ packet.header = header /\ packet.deadline = PacketLifetime
  BY <1>0, <1>2, <1>3 DEF Packets
<1>5. PICK packet1 : packet1 = [kind |-> kind, seqnum |-> n, header |-> header,
                                deadline |-> PacketLifetime, encrypted |-> TRUE]
  BY Zenon
<1>6. packet1 \in QueuePackets(kind) /\ packet1.kind = kind
  <2>1. packet1 \in Packets /\ packet1.kind = kind /\ packet1.seqnum = n
        /\ packet1.deadline = PacketLifetime
    BY <1>0, <1>2, <1>5 DEF Packets
  <2> QED BY <1>0, <2>1 DEF QueuePackets
<1>7. [packet EXCEPT !.encrypted = TRUE] = packet1
  <2>1. \A t : [packet EXCEPT !.encrypted = t] =
                 [kind |-> kind, seqnum |-> n, header |-> header, deadline |-> PacketLifetime,
                  encrypted |-> t]
    BY <1>3
  <2> QED BY <1>5, <2>1, Zenon
<1>8. PICK e1 : e1 = IF kind = "video" THEN e ELSE IncrementSeqnum(e)
  OBVIOUS
<1>9. SendRtp(e, Incoming(kind, n), 0) = EncryptAndSend(e1, packet, FALSE, 0)
  <2>1. CASE kind = "video"
    <3>1. Incoming(kind, n) = packet
      BY <1>1, <1>3, <2>1 DEF Incoming, Packet
    <3> QED BY <1>4, <1>8, <2>1, <3>1, Zenon DEF SendRtp
  <2>2. CASE kind = "rtx"
    <3>1. PICK i : i = Incoming(kind, n)
      OBVIOUS
    <3>a. i = [kind |-> "rtx", seqnum |-> n, header |-> 0, deadline |-> PacketLifetime,
               encrypted |-> FALSE]
      BY <2>2, <3>1 DEF Incoming, Packet
    <3>b. \A t : [[kind |-> "rtx", seqnum |-> n, header |-> 0, deadline |-> PacketLifetime,
                   encrypted |-> t] EXCEPT !.header = e.next_rtx]
                 = [kind |-> "rtx", seqnum |-> n, header |-> e.next_rtx,
                    deadline |-> PacketLifetime, encrypted |-> t]
      OBVIOUS
    <3>c. [i EXCEPT !.header = e.next_rtx]
            = [kind |-> "rtx", seqnum |-> n, header |-> e.next_rtx, deadline |-> PacketLifetime,
               encrypted |-> FALSE]
      BY <3>a, <3>b, Zenon
    <3>d. header = e.next_rtx
      BY <1>1, <2>2
    <3>e. packet = [kind |-> "rtx", seqnum |-> n, header |-> e.next_rtx,
                    deadline |-> PacketLifetime, encrypted |-> FALSE]
      BY <1>3, <2>2, <3>d, Zenon
    <3>2. i.kind = "rtx" /\ [i EXCEPT !.header = e.next_rtx] = packet
      BY <3>a, <3>c, <3>e
    <3> QED BY <1>8, <2>2, <3>1, <3>2, Zenon DEF SendRtp
  <2> QED BY <2>1, <2>2, Zenon
<1>10. Usable(e, fwd, packet.kind, packet.header)
  BY <1>1, <1>4 DEF Usable
<1>11. PICK s : s = EncryptAndSend(e1, packet, FALSE, 0)
  BY Zenon
<1>12. /\ EndpointOK(s.endpoint)
       /\ Numbers(s.endpoint, IF kind = "video" THEN fwd \cup {<<"video", header>>} ELSE fwd)
       /\ s.packet = packet1
       /\ DOMAIN s.endpoint.sent = DOMAIN e.sent \cup {n}
       /\ s.endpoint.sent[n] = [deadline |-> PacketLifetime, pending_retransmission |-> FALSE]
       /\ \A m \in DOMAIN e.sent \ {n} : s.endpoint.sent[m] = e.sent[m]
  <2>1. kind # "padding"
    OBVIOUS
  <2>2. packet.kind # "padding" /\ packet.seqnum \in Seqnums /\ packet.deadline \in Nat
    BY <1>0, <1>4, <2>1
  <2>3. e1 = IF packet.kind = "video" THEN e ELSE IncrementSeqnum(e)
    BY <1>4, <1>8
  <2>4. Encrypted(e, fwd, packet, FALSE, s)
    <3>1. FALSE \in BOOLEAN
      OBVIOUS
    <3> QED BY <1>0, <1>4, <1>10, <1>11, <2>2, <2>3, <3>1, EncryptFacts, Zenon
  <2> QED BY <1>4, <1>7, <2>2, <2>4 DEF Encrypted
<1>13. Numbers(s.endpoint, fwd \cup {<<kind, n>>})
  BY <1>1, <1>12, NumbersGrow, SMTT(30)
<1>14. PICK r : r = Enqueue(p, packet1, 0)
  OBVIOUS
<1>15. /\ PacerOK(r.pacer) /\ r.dequeue \in Int \cup {None}
       /\ FlowOK(p, times) => FlowOK(r.pacer, With(times, r.dequeue))
  BY <1>0, <1>6, <1>14, EnqueueFacts, Zenon
<1>16. Kept(p.rtx, r.pacer.rtx)
  BY <1>0, <1>6, <1>14, EnqueueKeeps, Zenon
<1>17. ~s.endpoint.sent[n].pending_retransmission
  BY <1>12, SMTT(30)
<1>18. PendOK(s.endpoint, r.pacer.rtx)
  <2>1. StillPending(e, p.rtx, s.endpoint, r.pacer.rtx)
    BY <1>12, <1>16, <1>17, Zenon DEF StillPending, Kept
  <2> QED BY <1>0, <2>1, StillQueued, Zenon
<1> QED BY <1>9, <1>11, <1>12, <1>13, <1>14, <1>15, <1>18, Zenon DEF SendOK

\* The same without an address.
LEMMA ForceFacts ==
    ASSUME NEW p, NEW e, NEW fwd, SendOK(p, e, fwd), NEW kind \in {"video", "rtx"}, NEW n \in Seqnums
    PROVE  SendOK(ForceEnqueue(p, Incoming(kind, n)), e, fwd \cup {<<kind, n>>})
<1>0. /\ PacerOK(p) /\ EndpointOK(e) /\ Numbers(e, fwd) /\ PendOK(e, p.rtx)
      /\ PacketLifetime \in Int /\ n \in Nat
  BY EndpointAssumption, SeqnumAssumption DEF SendOK
<1>1. PICK packet : packet = Incoming(kind, n)
  OBVIOUS
<1>2. packet \in QueuePackets(kind)
  <2>1. PICK header : header = IF kind = "video" THEN n ELSE 0
    OBVIOUS
  <2>2. packet = [kind |-> kind, seqnum |-> n, header |-> header, deadline |-> PacketLifetime,
                  encrypted |-> FALSE]
    BY <1>1, <2>1 DEF Incoming, Packet
  <2>3. /\ packet \in Packets /\ packet.kind = kind /\ packet.seqnum = n
        /\ packet.deadline = PacketLifetime
    BY <1>0, <2>1, <2>2 DEF Packets
  <2> QED BY <1>0, <2>3 DEF QueuePackets
<1>3. PICK q : q = Push(p, packet)
  OBVIOUS
<1>4. PacerOK(q)
  BY <1>0, <1>2, <1>3, PushFacts
<1>5. Kept(p.rtx, q.rtx)
  BY <1>0, <1>2, <1>3, EnqueueKeeps, Zenon
<1>6. PendOK(e, q.rtx)
  <2>1. StillPending(e, p.rtx, e, q.rtx)
    BY <1>5, Zenon DEF StillPending, Kept
  <2> QED BY <1>0, <2>1, StillQueued, Zenon
<1>7. Numbers(e, fwd \cup {<<kind, n>>})
  BY <1>0, NumbersGrow
<1> QED BY <1>0, <1>1, <1>3, <1>4, <1>6, <1>7 DEF SendOK, ForceEnqueue

\* s is what comes of resending the packet with number n.
Resent(e, fwd, n, s) ==
    /\ EndpointOK(s.endpoint) /\ Numbers(s.endpoint, fwd)
    /\ s.packet \in QueuePackets("rtx") /\ s.packet # None
    /\ s.packet.seqnum = n /\ s.packet.encrypted
    /\ s.packet.deadline = e.sent[n].deadline
    /\ DOMAIN s.endpoint.sent = DOMAIN e.sent
    /\ s.endpoint.sent[n].deadline = e.sent[n].deadline
    /\ \A m \in DOMAIN e.sent \ {n} : s.endpoint.sent[m] = e.sent[m]

\* resend_rtp, for a packet that may be resent.
LEMMA ResendFacts ==
    ASSUME NEW e, NEW fwd, EndpointOK(e), Numbers(e, fwd), NEW n, MayResend(e, n, 0)
    PROVE  Resent(e, fwd, n, ResendRtp(e, n, 0))
<1>1. n \in DOMAIN e.sent /\ n \in Seqnums /\ n \in Nat
  BY SeqnumAssumption, Zenon DEF MayResend, EndpointOK
<1>2. PICK deadline : deadline = e.sent[n].deadline
  OBVIOUS
<1>3. deadline \in Nat /\ deadline \in Int \cup {None}
  BY <1>1, <1>2, SMTT(30) DEF EndpointOK, SentPackets
<1>4. PICK header : header = e.next_rtx
  OBVIOUS
<1>5. header \in Nat
  BY <1>4, EndpointAssumption, SMTT(30) DEF EndpointOK
<1>6. PICK packet : packet = [kind |-> "rtx", seqnum |-> n, header |-> header,
                              deadline |-> deadline, encrypted |-> FALSE]
  BY Zenon
<1>7. /\ packet \in Packets /\ packet.kind = "rtx" /\ packet.seqnum = n
      /\ packet.header = header /\ packet.deadline = deadline
  BY <1>1, <1>3, <1>5, <1>6, Zenon DEF Packets
<1>8. PICK packet1 : packet1 = [kind |-> "rtx", seqnum |-> n, header |-> header,
                                deadline |-> deadline, encrypted |-> TRUE]
  BY Zenon
<1>9. /\ packet1 \in QueuePackets("rtx") /\ packet1 # None /\ packet1.seqnum = n
      /\ packet1.encrypted /\ packet1.deadline = deadline
  <2>1. packet1 \in Packets /\ packet1.kind = "rtx" /\ packet1.seqnum = n
        /\ packet1.deadline = deadline /\ packet1.encrypted
    BY <1>1, <1>3, <1>5, <1>8 DEF Packets
  <2>2. packet1 # None
    BY <2>1, NoneAssumption
  <2> QED BY <1>1, <1>3, <2>1, <2>2, SMTT(30) DEF QueuePackets
<1>10. [packet EXCEPT !.encrypted = TRUE] = packet1
  <2>1. \A t : [packet EXCEPT !.encrypted = t] =
                 [kind |-> "rtx", seqnum |-> n, header |-> header, deadline |-> deadline,
                  encrypted |-> t]
    BY <1>6
  <2> QED BY <1>8, <2>1, Zenon
<1>11. PICK e1 : e1 = IncrementSeqnum(e)
  OBVIOUS
<1>12. PICK s : s = EncryptAndSend(e1, packet, TRUE, 0)
  BY Zenon
<1>13. ResendRtp(e, n, 0) = s
  BY <1>2, <1>4, <1>6, <1>11, <1>12, Zenon DEF ResendRtp, Packet
<1>14. Encrypted(e, fwd, packet, TRUE, s)
  <2>1. Usable(e, fwd, packet.kind, packet.header)
    BY <1>4, <1>7 DEF Usable
  <2>2. e1 = IF packet.kind = "video" THEN e ELSE IncrementSeqnum(e)
    BY <1>7, <1>11
  <2>3. TRUE \in BOOLEAN /\ packet.seqnum \in Seqnums /\ packet.deadline \in Nat
    BY <1>1, <1>3, <1>7
  <2> QED BY <1>7, <1>12, <2>1, <2>2, <2>3, EncryptFacts, Zenon
<1>15. /\ EndpointOK(s.endpoint) /\ Numbers(s.endpoint, fwd) /\ s.packet = packet1
       /\ DOMAIN s.endpoint.sent = DOMAIN e.sent \cup {n}
       /\ s.endpoint.sent[n] = [deadline |-> deadline, pending_retransmission |-> TRUE]
       /\ \A m \in DOMAIN e.sent \ {n} : s.endpoint.sent[m] = e.sent[m]
  BY <1>7, <1>10, <1>14 DEF Encrypted
<1>16. s.endpoint.sent[n].deadline = deadline
  BY <1>15, SMTT(30)
<1>17. DOMAIN s.endpoint.sent = DOMAIN e.sent
  BY <1>1, <1>15
<1> QED BY <1>2, <1>9, <1>13, <1>15, <1>16, <1>17, Zenon DEF Resent

\* One number of a NACK.
LEMMA NackedFacts ==
    ASSUME NEW st, NEW fwd, SendOK(st.pacer, st.endpoint, fwd), st.dequeue \in Int \cup {None},
           NEW n, NEW times
    PROVE  /\ SendOK(Nacked(st, n).pacer, Nacked(st, n).endpoint, fwd)
           /\ Nacked(st, n).dequeue \in Int \cup {None}
           /\ FlowOK(st.pacer, With(times, st.dequeue))
                 => FlowOK(Nacked(st, n).pacer, With(times, Nacked(st, n).dequeue))
<1>0. CASE ~MayResend(st.endpoint, n, 0)
  <2>1. Nacked(st, n) = st
    BY <1>0 DEF Nacked, Now
  <2> QED BY <2>1
<1>1. CASE MayResend(st.endpoint, n, 0)
  <2>1. PICK p : p = st.pacer
    OBVIOUS
  <2>2. PICK e : e = st.endpoint
    OBVIOUS
  <2>3. PacerOK(p) /\ EndpointOK(e) /\ Numbers(e, fwd) /\ PendOK(e, p.rtx) /\ MayResend(e, n, 0)
    BY <1>1, <2>1, <2>2 DEF SendOK
  <2>4. PICK s : s = ResendRtp(e, n, 0)
    OBVIOUS
  <2>5. /\ EndpointOK(s.endpoint) /\ Numbers(s.endpoint, fwd)
        /\ s.packet \in QueuePackets("rtx") /\ s.packet # None
        /\ s.packet.seqnum = n /\ s.packet.encrypted
        /\ s.packet.deadline = e.sent[n].deadline
        /\ DOMAIN s.endpoint.sent = DOMAIN e.sent
        /\ s.endpoint.sent[n].deadline = e.sent[n].deadline
        /\ \A m \in DOMAIN e.sent \ {n} : s.endpoint.sent[m] = e.sent[m]
    <3>1. Resent(e, fwd, n, s)
      BY <2>3, <2>4, ResendFacts, Zenon
    <3> QED BY <3>1, Zenon DEF Resent
  <2>6. PICK packet : packet = s.packet
    OBVIOUS
  <2>7. PICK r : r = Enqueue(p, packet, 0)
    OBVIOUS
  <2>8. /\ PacerOK(r.pacer) /\ r.dequeue \in Int \cup {None}
        /\ r.dequeue = None \/ r.dequeue = NextSendTime(r.pacer, 0)
        /\ \A T : FlowOK(p, T) => FlowOK(r.pacer, With(T, r.dequeue))
        /\ r.packet = None \/ r.packet = packet
    BY <2>3, <2>5, <2>6, <2>7, EnqueueFacts, Zenon
  <2>9. /\ Kept(p.rtx, r.pacer.rtx)
        /\ r.packet = None => \E j \in DOMAIN r.pacer.rtx : r.pacer.rtx[j] = packet
    <3>1. "rtx" \in {"video", "rtx"} /\ packet \in QueuePackets("rtx")
      BY <2>5, <2>6, Zenon
    <3> QED BY <2>3, <2>7, <3>1, EnqueueKeeps, Zenon
  <2>10. PICK e1 : e1 = IF r.packet = None THEN s.endpoint ELSE MarkAsSent(s.endpoint, n)
    OBVIOUS
  <2>11. PICK t : t = IF r.dequeue = None THEN st.dequeue ELSE r.dequeue
    OBVIOUS
  <2>12. Nacked(st, n).pacer = r.pacer /\ Nacked(st, n).endpoint = e1 /\ Nacked(st, n).dequeue = t
    BY <1>1, <2>1, <2>2, <2>4, <2>6, <2>7, <2>10, <2>11, Zenon DEF Nacked, Now
  <2>13. FlowOK(st.pacer, With(times, st.dequeue)) => FlowOK(r.pacer, With(times, t))
    <3>1. CASE r.dequeue = None
      <4>1. FlowOK(p, With(times, st.dequeue))
              => FlowOK(r.pacer, With(With(times, st.dequeue), r.dequeue))
        BY <2>8
      <4>2. With(With(times, st.dequeue), r.dequeue) = With(times, t)
        BY <2>11, <3>1 DEF With
      <4> QED BY <2>1, <4>1, <4>2
    <3>2. CASE r.dequeue # None
      <4>1. t = NextSendTime(r.pacer, 0)
        BY <2>8, <2>11, <3>2
      <4> QED BY <4>1, Rescheduled
    <3> QED BY <3>1, <3>2, Zenon
  <2>14. EndpointOK(e1) /\ Numbers(e1, fwd) /\ PendOK(e1, r.pacer.rtx)
    <3>1. CASE r.packet = None
      <4>1. e1 = s.endpoint
        BY <2>10, <3>1
      <4>2. PendOK(e1, r.pacer.rtx)
        <5>1. SUFFICES ASSUME NEW m \in DOMAIN e1.sent, e1.sent[m].pending_retransmission
                       PROVE  \E i \in DOMAIN r.pacer.rtx :
                                 /\ r.pacer.rtx[i].seqnum = m /\ r.pacer.rtx[i].encrypted
                                 /\ r.pacer.rtx[i].deadline = e1.sent[m].deadline
          BY DEF PendOK
        <5>2. CASE m = n
          BY <2>5, <2>6, <2>9, <3>1, <4>1, <5>2, Zenon
        <5>3. CASE m # n
          <6>1. m \in DOMAIN e.sent /\ e1.sent[m] = e.sent[m]
            BY <2>5, <4>1, <5>1, <5>3
          <6>2. PICK i \in DOMAIN p.rtx : /\ p.rtx[i].seqnum = m /\ p.rtx[i].encrypted
                                          /\ p.rtx[i].deadline = e.sent[m].deadline
            BY <2>3, <5>1, <6>1 DEF PendOK
          <6>3. PICK j \in DOMAIN r.pacer.rtx : r.pacer.rtx[j] = p.rtx[i]
            BY <2>9, <6>2, Zenon DEF Kept
          <6> QED BY <6>1, <6>2, <6>3, Zenon
        <5> QED BY <5>2, <5>3
      <4> QED BY <2>5, <4>1, <4>2
    <3>2. CASE r.packet # None
      <4>1. e1 = MarkAsSent(s.endpoint, n)
        BY <2>10, <3>2
      <4>2. /\ EndpointOK(e1) /\ Numbers(e1, fwd) /\ DOMAIN e1.sent = DOMAIN s.endpoint.sent
            /\ \A m \in DOMAIN s.endpoint.sent :
                  /\ m = n => ~e1.sent[m].pending_retransmission
                  /\ m # n => e1.sent[m] = s.endpoint.sent[m]
        <5>1. Marked(s.endpoint, fwd, n, e1)
          BY <2>5, <4>1, MarkFacts, Zenon
        <5> QED BY <5>1, Zenon DEF Marked
      <4>3. \A m \in DOMAIN e1.sent : e1.sent[m].pending_retransmission =>
               m \in DOMAIN e.sent /\ e1.sent[m] = e.sent[m]
        BY <2>5, <4>2, Zenon
      <4>4. PendOK(e1, r.pacer.rtx)
        <5>1. StillPending(e, p.rtx, e1, r.pacer.rtx)
          BY <2>9, <4>3, Zenon DEF StillPending, Kept
        <5> QED BY <2>3, <5>1, StillQueued, Zenon
      <4> QED BY <4>2, <4>4, Zenon
    <3> QED BY <3>1, <3>2
  <2>15. t \in Int \cup {None}
    BY <2>8, <2>11
  <2> QED BY <2>8, <2>12, <2>13, <2>14, <2>15, Zenon DEF SendOK
<1> QED BY <1>0, <1>1, Zenon

\* send_padding counts and uses one number.
LEMMA PaddingFacts ==
    ASSUME NEW e, NEW fwd, EndpointOK(e), Numbers(e, fwd)
    PROVE  LET s == SendPadding(e, 0) IN
           /\ EndpointOK(s.endpoint) /\ Numbers(s.endpoint, fwd)
           /\ s.endpoint.sent = e.sent /\ s.packet.kind = "padding"
<1>1. PICK header : header = e.next_rtx
  OBVIOUS
<1>2. header \in Nat
  BY <1>1, EndpointAssumption, SMTT(30) DEF EndpointOK
<1>3. PICK packet : packet = [kind |-> "padding", seqnum |-> 0, header |-> header,
                              deadline |-> None, encrypted |-> FALSE]
  BY Zenon
<1>4. packet \in Packets /\ packet.kind = "padding" /\ packet.header = header
  BY <1>2, <1>3 DEF Packets
<1>5. PICK e1 : e1 = IncrementSeqnum(e)
  OBVIOUS
<1>6. PICK s : s = EncryptAndSend(e1, packet, FALSE, 0)
  BY Zenon
<1>7. SendPadding(e, 0) = s
  BY <1>1, <1>3, <1>5, <1>6, Zenon DEF SendPadding, Packet
<1>8. Encrypted(e, fwd, packet, FALSE, s)
  <2>1. Usable(e, fwd, packet.kind, packet.header)
    BY <1>1, <1>4 DEF Usable
  <2>2. e1 = IF packet.kind = "video" THEN e ELSE IncrementSeqnum(e)
    BY <1>4, <1>5
  <2>3. FALSE \in BOOLEAN /\ ~(packet.kind # "padding")
    BY <1>4
  <2> QED BY <1>4, <1>6, <2>1, <2>2, <2>3, EncryptFacts, Zenon
<1>9. /\ EndpointOK(s.endpoint) /\ Numbers(s.endpoint, fwd) /\ s.endpoint.sent = e.sent
      /\ s.packet = [packet EXCEPT !.encrypted = TRUE]
  BY <1>4, <1>8 DEF Encrypted
<1>10. s.packet.kind = "padding"
  BY <1>3, <1>9
<1> QED BY <1>7, <1>9, <1>10, Zenon

\* What dequeue_outgoing_rtp does to the endpoint, where r is what the pacer returns.
AfterDequeue(e, padded, r) ==
    IF r.packet = None THEN e
    ELSE IF r.packet.kind = "padding" THEN padded
    ELSE IF r.packet.kind = "rtx" THEN MarkAsSent(e, r.packet.seqnum)
    ELSE e

LEMMA HandleDequeueFacts ==
    ASSUME LeastElements, NEW p, NEW e, NEW fwd, SendOK(p, e, fwd), NEW times,
           NEW t0 \in Int, t0 <= 0
    PROVE  LET s == SendPadding(e, 0)
               r == Dequeue(p, s.packet, 0)
           IN  /\ SendOK(r.pacer, AfterDequeue(e, s.endpoint, r), fwd)
               /\ r.dequeue \in Int \cup {None}
               /\ FlowOK(p, times \cup {t0}) => FlowOK(r.pacer, With(times, r.dequeue))
<1>0. PacerOK(p) /\ EndpointOK(e) /\ Numbers(e, fwd) /\ PendOK(e, p.rtx)
  BY DEF SendOK
<1>1. PICK s : s = SendPadding(e, 0)
  OBVIOUS
<1>2. /\ EndpointOK(s.endpoint) /\ Numbers(s.endpoint, fwd)
      /\ s.endpoint.sent = e.sent /\ s.packet.kind = "padding"
  BY <1>0, <1>1, PaddingFacts, Zenon
<1>3. PICK r : r = Dequeue(p, s.packet, 0)
  OBVIOUS
<1>4. /\ PacerOK(r.pacer) /\ r.dequeue \in Int \cup {None}
      /\ FlowOK(p, times \cup {t0}) => FlowOK(r.pacer, With(times, r.dequeue))
      /\ Leaves(p, r.packet, r.pacer.rtx)
  BY <1>0, <1>2, <1>3, DequeueFacts, Zenon
<1>5. PICK e1 : e1 = AfterDequeue(e, s.endpoint, r)
  OBVIOUS
<1>6. /\ EndpointOK(e1) /\ Numbers(e1, fwd)
      /\ \A m \in DOMAIN e1.sent : e1.sent[m].pending_retransmission =>
            /\ m \in DOMAIN e.sent /\ e1.sent[m] = e.sent[m]
            /\ ~(r.packet # None /\ r.packet.kind = "rtx" /\ r.packet.seqnum = m)
  <2>1. CASE r.packet # None /\ r.packet.kind = "rtx"
    <3>1. PICK n : n = r.packet.seqnum
      OBVIOUS
    <3>2. e1 = MarkAsSent(e, n)
      BY <1>5, <2>1, <3>1 DEF AfterDequeue
    <3>3. /\ EndpointOK(e1) /\ Numbers(e1, fwd) /\ DOMAIN e1.sent = DOMAIN e.sent
          /\ \A m \in DOMAIN e.sent :
                /\ m = n => ~e1.sent[m].pending_retransmission
                /\ m # n => e1.sent[m] = e.sent[m]
      <4>1. Marked(e, fwd, n, e1)
        BY <1>0, <3>2, MarkFacts, Zenon
      <4> QED BY <4>1, Zenon DEF Marked
    <3> QED BY <3>1, <3>3, Zenon
  <2>2. CASE r.packet # None /\ r.packet.kind = "padding"
    BY <1>2, <1>5, <2>2, Zenon DEF AfterDequeue
  <2>3. CASE r.packet = None \/ r.packet.kind \notin {"rtx", "padding"}
    BY <1>0, <1>5, <2>3, Zenon DEF AfterDequeue
  <2> QED BY <2>1, <2>2, <2>3, Zenon
<1>7. PendOK(e1, r.pacer.rtx)
  <2>1. \A m \in DOMAIN e1.sent : e1.sent[m].pending_retransmission =>
           \A i \in DOMAIN p.rtx : p.rtx[i].seqnum = m /\ p.rtx[i].deadline = e.sent[m].deadline
               => \E j \in DOMAIN r.pacer.rtx : r.pacer.rtx[j] = p.rtx[i]
    <3>1. \A m \in DOMAIN e.sent : e.sent[m].deadline \in Nat
      BY <1>0, Zenon DEF EndpointOK, SentPackets
    <3> QED BY <1>4, <1>6, <3>1, SMTT(30) DEF Leaves
  <2>2. StillPending(e, p.rtx, e1, r.pacer.rtx)
    BY <1>6, <2>1, Zenon DEF StillPending
  <2>3. PendOK(e, p.rtx)
    BY <1>0, Zenon
  <2> QED BY <2>2, <2>3, StillQueued, Zenon
<1> QED BY <1>1, <1>3, <1>4, <1>5, <1>6, <1>7, Zenon DEF SendOK

\* What TimePasses does to the endpoint.
OlderEndpoint(e) == [e EXCEPT !.sent = AgedSent(@)]

LEMMA OlderSendFacts ==
    ASSUME NEW p, NEW e, NEW fwd, SendOK(p, e, fwd)
    PROVE  SendOK(Older(p), OlderEndpoint(e), fwd)
<1>0. PacerOK(p) /\ EndpointOK(e) /\ Numbers(e, fwd) /\ PendOK(e, p.rtx)
  BY DEF SendOK
<1>1. PICK D : D = {m \in DOMAIN e.sent : e.sent[m].deadline > 0}
  BY Zenon
<1>2. PICK sent : sent = [n \in D |-> [e.sent[n] EXCEPT !.deadline = @ - 1]]
  BY Zenon
<1>3. OlderEndpoint(e) = EndpointOf(e.next_rtx, sent, e.encrypted)
  <2>1. AgedSent(e.sent) = sent
    BY <1>1, <1>2 DEF AgedSent, Now
  <2>2. OlderEndpoint(e) = [e EXCEPT !.sent = sent]
    BY <2>1, Zenon DEF OlderEndpoint
  <2>3. e = EndpointOf(e.next_rtx, e.sent, e.encrypted)
    BY <1>0, Zenon DEF EndpointOK
  <2> QED BY <2>2, <2>3 DEF EndpointOf
<1>4. PICK e1 : e1 = OlderEndpoint(e)
  OBVIOUS
<1>5. e1.next_rtx = e.next_rtx /\ e1.sent = sent /\ e1.encrypted = e.encrypted
      /\ e1 = EndpointOf(e1.next_rtx, e1.sent, e1.encrypted)
  BY <1>3, <1>4 DEF EndpointOf
<1>6. /\ DOMAIN sent = D /\ D \subseteq DOMAIN e.sent /\ D \subseteq Seqnums
      /\ \A n \in D : /\ sent[n].deadline = e.sent[n].deadline - 1 /\ sent[n] \in SentPackets
                      /\ sent[n].pending_retransmission = e.sent[n].pending_retransmission
                      /\ e.sent[n].deadline > 0
  <2>1. ASSUME NEW n \in D
        PROVE  /\ sent[n].deadline = e.sent[n].deadline - 1 /\ sent[n] \in SentPackets
               /\ sent[n].pending_retransmission = e.sent[n].pending_retransmission
               /\ e.sent[n].deadline > 0
    <3>1. PICK x : x = e.sent[n]
      OBVIOUS
    <3>2. x \in SentPackets /\ x.deadline > 0
      BY <1>0, <1>1, <2>1, <3>1 DEF EndpointOK
    <3>3. sent[n] = [x EXCEPT !.deadline = @ - 1]
      BY <1>2, <2>1, <3>1
    <3> QED BY <3>1, <3>2, <3>3 DEF SentPackets
  <2> QED BY <1>0, <1>1, <1>2, <2>1, Zenon DEF EndpointOK
<1>7. EndpointOK(e1)
  <2>1. sent \in [DOMAIN sent -> SentPackets]
    BY <1>2, <1>6
  <2> QED BY <1>0, <1>5, <1>6, <2>1 DEF EndpointOK
<1>8. Numbers(e1, fwd)
  BY <1>0, <1>5 DEF Numbers
<1>9. PICK q : q = Older(p)
  OBVIOUS
<1>10. PacerOK(q) /\ q.rtx = Aged(p.rtx)
  <2>1. {} \in SUBSET Int
    OBVIOUS
  <2> QED BY <1>0, <1>9, <2>1, OlderFacts, Zenon
<1>11. p.rtx \in Seq(QueuePackets("rtx"))
  BY <1>0, PacerFields, Zenon DEF PacerOK
<1>12. /\ DOMAIN q.rtx = DOMAIN p.rtx
       /\ \A i \in DOMAIN p.rtx :
             /\ q.rtx[i].seqnum = p.rtx[i].seqnum
             /\ q.rtx[i].encrypted = p.rtx[i].encrypted
             /\ p.rtx[i].deadline > 0 => q.rtx[i].deadline = p.rtx[i].deadline - 1
  BY <1>10, <1>11, AgedFacts, SMTT(30)
<1>13. PendOK(e1, q.rtx)
  <2>1. SUFFICES ASSUME NEW n \in DOMAIN e1.sent, e1.sent[n].pending_retransmission
                 PROVE  \E i \in DOMAIN q.rtx :
                           /\ q.rtx[i].seqnum = n /\ q.rtx[i].encrypted
                           /\ q.rtx[i].deadline = e1.sent[n].deadline
    BY Zenon DEF PendOK
  <2>2. /\ n \in DOMAIN e.sent /\ e.sent[n].pending_retransmission /\ e.sent[n].deadline > 0
        /\ e1.sent[n].deadline = e.sent[n].deadline - 1
    BY <1>5, <1>6, <2>1
  <2>3. PICK i \in DOMAIN p.rtx : /\ p.rtx[i].seqnum = n /\ p.rtx[i].encrypted
                                  /\ p.rtx[i].deadline = e.sent[n].deadline
    BY <1>0, <2>2, Zenon DEF PendOK
  <2>4. /\ i \in DOMAIN q.rtx /\ q.rtx[i].seqnum = n /\ q.rtx[i].encrypted
        /\ q.rtx[i].deadline = e1.sent[n].deadline
    BY <1>12, <2>2, <2>3
  <2> QED BY <2>4, Zenon
<1> QED BY <1>4, <1>7, <1>8, <1>9, <1>10, <1>13 DEF SendOK
------------------------------------------------------------------------------
(* The sending half: the inductive invariant.                              *)

DequeueTimes(D) == {d[1] : d \in D}

SendInv ==
    /\ scene \in DOMAIN Scenes
    /\ address \in Addresses \cup {None} /\ learning \in Addresses \cup {None}
    /\ known \subseteq Addresses
    /\ SendOK(pacer, endpoint, forwarded)
    /\ dequeues \subseteq Int \X Addresses
    /\ unscheduled \in BOOLEAN
    /\ ~unscheduled => address \in known /\ FlowOK(pacer, DequeueTimes(dequeues))

LEMMA ScheduleFacts ==
    ASSUME address \in Addresses \cup {None}, NEW D, D \subseteq Int \X Addresses,
           NEW t \in Int \cup {None}
    PROVE  /\ D \cup Schedule(t) \subseteq Int \X Addresses
           /\ address # None => DequeueTimes(D \cup Schedule(t)) = With(DequeueTimes(D), t)
<1>1. CASE t = None \/ address = None
  <2>1. D \cup Schedule(t) = D
    BY <1>1 DEF Schedule
  <2>2. address # None => With(DequeueTimes(D), t) = DequeueTimes(D)
    BY <1>1 DEF With
  <2> QED BY <2>1, <2>2
<1>2. CASE t # None /\ address # None
  <2>1. Schedule(t) = {<<t, address>>} /\ <<t, address>> \in Int \X Addresses
    BY <1>2 DEF Schedule
  <2>2. DequeueTimes(D \cup {<<t, address>>}) = DequeueTimes(D) \cup {t}
    <3>1. PICK x : x = <<t, address>>
      BY Zenon
    <3>2. x[1] = t
      BY <3>1
    <3>3. DequeueTimes(D \cup {x}) = DequeueTimes(D) \cup {x[1]}
      BY Zenon DEF DequeueTimes
    <3> QED BY <3>1, <3>2, <3>3
  <2>3. With(DequeueTimes(D), t) = DequeueTimes(D) \cup {t}
    BY <1>2 DEF With
  <2> QED BY <2>1, <2>2, <2>3, Zenon
<1> QED BY <1>1, <1>2

LEMMA SceneFacts ==
    ASSUME scene \in DOMAIN Scenes
    PROVE  /\ Here.first_address \in Addresses \cup {None} /\ Here.addresses \subseteq Addresses
           /\ Here.video \subseteq Seqnums /\ Here.rtx \subseteq Seqnums
           /\ Here.configs \subseteq Configs
           /\ None \notin Addresses
<1>1. \A c \in Here.configs : c \in Configs
  <2>1. SUFFICES ASSUME NEW c \in Here.configs PROVE c \in Configs
    OBVIOUS
  <2>2. c = Config(c.media, c.padding, c.padding_ssrc) /\ c.media \in Nat /\ c.padding \in Nat
    BY <2>1, SceneAssumption DEF Here
  <2>3. c.padding_ssrc \in PaddingSsrcs
    <3>1. PICK S : S = {x.padding_ssrc : x \in Scenes[scene].configs}
      BY Zenon
    <3>2. c.padding_ssrc \in S
      BY <2>1, <3>1 DEF Here
    <3>3. S \in {{x.padding_ssrc : x \in Scenes[s].configs} : s \in DOMAIN Scenes}
      BY <3>1
    <3> QED BY <3>2, <3>3 DEF PaddingSsrcs
  <2>4. PICK m, q, r : m = c.media /\ q = c.padding /\ r = c.padding_ssrc
    OBVIOUS
  <2>5. c = [media |-> m, padding |-> q, padding_ssrc |-> r]
    BY <2>2, <2>4 DEF Config
  <2> QED BY <2>2, <2>3, <2>4, <2>5 DEF Configs
<1> QED BY <1>1, SceneAssumption DEF Here

\* The queue is empty and no packet was sent.
LEMMA SendInit == Init => SendInv
<1> SUFFICES ASSUME Init PROVE SendInv
  OBVIOUS
<1>1. scene \in DOMAIN Scenes /\ address = Here.first_address
  BY DEF Init
<1>2. address \in Addresses \cup {None} /\ None \notin Addresses
  BY <1>1, SceneFacts
<1>3. pacer = PacerOf(Config(InitialTarget, InitialTarget, None), <<>>, <<>>, None, 0, 0)
  BY DEF Init, NewPacer, PacerOf
<1>4. Config(InitialTarget, InitialTarget, None) \in Configs
  <2>1. None \in PaddingSsrcs
    BY Zenon DEF PaddingSsrcs
  <2> QED BY <2>1, RateAssumption DEF Config, Configs
<1>5. PacerOK(pacer)
  <2>1. PICK c : c = Config(InitialTarget, InitialTarget, None)
    OBVIOUS
  <2>2. c \in Configs /\ c.media \in Nat /\ c.padding \in Nat
    BY <1>4, <2>1 DEF Configs
  <2>3. pacer = PacerOf(c, <<>>, <<>>, None, 0, 0)
    BY <1>3, <2>1
  <2>4. <<>> \in Seq(QueuePackets("video")) /\ <<>> \in Seq(QueuePackets("rtx"))
    OBVIOUS
  <2>5. /\ pacer.config = c /\ pacer.media_debt = 0 /\ pacer.padding_debt = 0
        /\ pacer \in Pacers
    BY <2>2, <2>3, <2>4 DEF PacerOf, Pacers
  <2>6. 0 <= c.media * MaxDebtInTime /\ 0 <= c.padding * MaxDebtInTime
    BY <2>2, PacerAssumption, Products
  <2> QED BY <2>5, <2>6 DEF PacerOK, Bounded, Unsent
<1>6. /\ EndpointOK(endpoint) /\ Numbers(endpoint, forwarded) /\ PendOK(endpoint, pacer.rtx)
  <2>1. endpoint = EndpointOf(1, <<>>, <<>>)
    BY DEF Init, NewSender, EndpointOf
  <2>2. endpoint.next_rtx = 1 /\ endpoint.sent = <<>> /\ endpoint.encrypted = <<>>
    BY <2>1 DEF EndpointOf
  <2>3. PICK none : none = <<>>
    OBVIOUS
  <2>4. none \in Seq({"video", "rtx"} \X Nat) /\ none \in Seq(SentPackets) /\ DOMAIN none = {}
    BY <2>3
  <2>5. none \in [DOMAIN none -> SentPackets]
    BY <2>4
  <2>6. EndpointOK(endpoint)
    <3>1. endpoint = EndpointOf(endpoint.next_rtx, endpoint.sent, endpoint.encrypted)
      BY <2>1, <2>2
    <3>2. 1 \in 1..(MaxRtx + 1)
      BY EndpointAssumption
    <3>3. endpoint.sent = none /\ endpoint.encrypted = none /\ DOMAIN none \subseteq Seqnums
      BY <2>2, <2>3, <2>4
    <3> QED BY <2>2, <2>4, <2>5, <3>1, <3>2, <3>3 DEF EndpointOK
  <2>7. Numbers(endpoint, forwarded)
    BY <2>2, <2>3, <2>4 DEF Numbers, IsInjective
  <2>8. PendOK(endpoint, pacer.rtx)
    BY <2>2, <2>3, <2>4 DEF PendOK
  <2> QED BY <2>6, <2>7, <2>8
<1> QED BY <1>1, <1>2, <1>5, <1>6 DEF Init, SendInv, SendOK

LEMMA SendOrEnqueueStep ==
    ASSUME SendInv, NEW kind \in {"video", "rtx"}, NEW n \in Seqnums, SendOrEnqueue(kind, n)
    PROVE  SendInv'
<1>0. /\ SendOK(pacer, endpoint, forwarded) /\ <<kind, n>> \notin forwarded
      /\ forwarded' = forwarded \cup {<<kind, n>>}
      /\ scene' = scene /\ address' = address /\ learning' = learning /\ known' = known
      /\ unscheduled' = unscheduled /\ None \notin Addresses
      /\ address \in Addresses \cup {None} /\ dequeues \subseteq Int \X Addresses
      /\ ~unscheduled => address \in known /\ known \subseteq Addresses
  BY SceneFacts, Zenon DEF SendInv, SendOrEnqueue
<1>1. Incoming(kind, n) = Packet(kind, n, IF kind = "video" THEN n ELSE 0, Now + PacketLifetime)
  <2>1. Now + PacketLifetime = PacketLifetime
    BY EndpointAssumption DEF Now
  <2> QED BY <2>1 DEF Incoming
<1>2. CASE address = None
  <2>1. pacer' = ForceEnqueue(pacer, Incoming(kind, n)) /\ endpoint' = endpoint
        /\ dequeues' = dequeues
    BY <1>1, <1>2 DEF SendOrEnqueue
  <2>2. SendOK(pacer', endpoint', forwarded')
    BY <1>0, <2>1, ForceFacts, Zenon
  <2>3. unscheduled
    BY <1>0, <1>2
  <2> QED BY <1>0, <2>1, <2>2, <2>3, Zenon DEF SendInv
<1>3. CASE address # None
  <2>1. PICK s : s = SendRtp(endpoint, Incoming(kind, n), 0)
    OBVIOUS
  <2>2. PICK r : r = Enqueue(pacer, s.packet, 0)
    OBVIOUS
  <2>3. endpoint' = s.endpoint /\ pacer' = r.pacer /\ dequeues' = dequeues \cup Schedule(r.dequeue)
    BY <1>1, <1>3, <2>1, <2>2 DEF SendOrEnqueue, Now
  <2>4. /\ SendOK(r.pacer, s.endpoint, forwarded \cup {<<kind, n>>})
        /\ r.dequeue \in Int \cup {None}
        /\ FlowOK(pacer, DequeueTimes(dequeues))
              => FlowOK(r.pacer, With(DequeueTimes(dequeues), r.dequeue))
    BY <1>0, <2>1, <2>2, ForwardFacts, Zenon
  <2>5. /\ dequeues' \subseteq Int \X Addresses
        /\ DequeueTimes(dequeues') = With(DequeueTimes(dequeues), r.dequeue)
    BY <1>0, <1>3, <2>3, <2>4, ScheduleFacts, Zenon
  <2> QED BY <1>0, <2>3, <2>4, <2>5, Zenon DEF SendInv
<1> QED BY <1>2, <1>3

LEMMA HandleNackStep ==
    ASSUME SendInv, NEW first, NEW second, HandleNack(first, second)
    PROVE  SendInv'
<1>0. /\ SendOK(pacer, endpoint, forwarded) /\ forwarded' = forwarded
      /\ scene' = scene /\ address' = address /\ learning' = learning /\ known' = known
      /\ unscheduled' = unscheduled /\ address # None
      /\ address \in Addresses \cup {None} /\ dequeues \subseteq Int \X Addresses
  BY Zenon DEF SendInv, HandleNack
<1>1. PICK st0 : st0 = [pacer |-> pacer, endpoint |-> endpoint, dequeue |-> None, sent |-> {}]
  BY Zenon
<1>2. PICK T : T = DequeueTimes(dequeues)
  OBVIOUS
<1>3. /\ SendOK(st0.pacer, st0.endpoint, forwarded) /\ st0.dequeue \in Int \cup {None}
      /\ FlowOK(pacer, T) => FlowOK(st0.pacer, With(T, st0.dequeue))
  BY <1>0, <1>1 DEF With
<1>4. PICK st1 : st1 = Nacked(st0, first)
  OBVIOUS
<1>5. /\ SendOK(st1.pacer, st1.endpoint, forwarded) /\ st1.dequeue \in Int \cup {None}
      /\ FlowOK(pacer, T) => FlowOK(st1.pacer, With(T, st1.dequeue))
  BY <1>3, <1>4, NackedFacts, Zenon
<1>6. PICK st : st = IF second = None THEN st1 ELSE Nacked(st1, second)
  OBVIOUS
<1>7. /\ SendOK(st.pacer, st.endpoint, forwarded) /\ st.dequeue \in Int \cup {None}
      /\ FlowOK(pacer, T) => FlowOK(st.pacer, With(T, st.dequeue))
  <2>1. CASE second = None
    BY <1>5, <1>6, <2>1
  <2>2. CASE second # None
    <3>1. st = Nacked(st1, second)
      BY <1>6, <2>2
    <3> QED BY <1>5, <3>1, NackedFacts, Zenon
  <2> QED BY <2>1, <2>2
<1>8. pacer' = st.pacer /\ endpoint' = st.endpoint /\ dequeues' = dequeues \cup Schedule(st.dequeue)
  BY <1>1, <1>4, <1>6, Zenon DEF HandleNack
<1>9. dequeues' \subseteq Int \X Addresses /\ DequeueTimes(dequeues') = With(T, st.dequeue)
  BY <1>0, <1>2, <1>7, <1>8, ScheduleFacts, Zenon
<1> QED BY <1>0, <1>2, <1>7, <1>8, <1>9 DEF SendInv

LEMMA HandleDequeueStep ==
    ASSUME LeastElements, SendInv, NEW d \in dequeues, HandleDequeue(d)
    PROVE  SendInv'
<1>0. /\ SendOK(pacer, endpoint, forwarded) /\ forwarded' = forwarded
      /\ scene' = scene /\ address' = address /\ learning' = learning /\ known' = known
      /\ address \in Addresses \cup {None} /\ dequeues \subseteq Int \X Addresses
      /\ d[1] \in Int /\ d[1] <= 0 /\ None \notin Addresses
      /\ ~unscheduled => address \in known /\ known \subseteq Addresses
  <2>1. d \in Int \X Addresses
    BY DEF SendInv
  <2> QED BY <2>1, SceneFacts, Zenon DEF SendInv, HandleDequeue, Now
<1>1. CASE d[2] \notin known
  <2>1. dequeues' = dequeues \ {d} /\ unscheduled' = TRUE /\ pacer' = pacer /\ endpoint' = endpoint
    BY <1>1, Zenon DEF HandleDequeue
  <2> QED BY <1>0, <2>1 DEF SendInv
<1>2. CASE d[2] \in known
  <2>1. PICK s : s = SendPadding(endpoint, 0)
    OBVIOUS
  <2>2. PICK r : r = Dequeue(pacer, s.packet, 0)
    OBVIOUS
  <2>3. PICK D : D = dequeues \ {d}
    BY Zenon
  <2>4. /\ dequeues' = D \cup Schedule(r.dequeue)
        /\ pacer' = r.pacer /\ endpoint' = AfterDequeue(endpoint, s.endpoint, r)
        /\ unscheduled' = unscheduled
    BY <1>2, <2>1, <2>2, <2>3, Zenon DEF HandleDequeue, AfterDequeue, Now
  <2>5. PICK T : T = DequeueTimes(D)
    OBVIOUS
  <2>6. /\ SendOK(r.pacer, AfterDequeue(endpoint, s.endpoint, r), forwarded)
        /\ r.dequeue \in Int \cup {None}
        /\ FlowOK(pacer, T \cup {d[1]}) => FlowOK(r.pacer, With(T, r.dequeue))
    BY <1>0, <2>1, <2>2, HandleDequeueFacts, Zenon
  <2>7. DequeueTimes(dequeues) = T \cup {d[1]}
    BY <2>3, <2>5 DEF DequeueTimes
  <2>8. /\ dequeues' \subseteq Int \X Addresses
        /\ address # None => DequeueTimes(dequeues') = With(T, r.dequeue)
    <3>1. D \subseteq Int \X Addresses
      BY <1>0, <2>3
    <3> QED BY <1>0, <2>4, <2>5, <2>6, <3>1, ScheduleFacts, Zenon
  <2> QED BY <1>0, <2>4, <2>6, <2>7, <2>8, Zenon DEF SendInv
<1> QED BY <1>1, <1>2

LEMMA ConfigureStep ==
    ASSUME SendInv, NEW c \in Here.configs, Configure(c)
    PROVE  SendInv'
<1>0. /\ SendOK(pacer, endpoint, forwarded) /\ forwarded' = forwarded /\ endpoint' = endpoint
      /\ scene' = scene /\ address' = address /\ learning' = learning /\ known' = known
      /\ address \in Addresses \cup {None} /\ dequeues \subseteq Int \X Addresses
      /\ known \subseteq Addresses
      /\ None \notin Addresses /\ unscheduled' = (address \notin known) /\ c \in Configs
  BY SceneFacts, Zenon DEF SendInv, Configure
<1>1. PICK r : r = SetConfig(pacer, c, 0)
  OBVIOUS
<1>2. pacer' = r.pacer /\ dequeues' = dequeues \cup Schedule(r.dequeue)
  BY <1>1, Zenon DEF Configure, Now
<1>3. /\ PacerOK(r.pacer) /\ r.dequeue \in Int \cup {None} /\ r.pacer.rtx = pacer.rtx
      /\ FlowOK(r.pacer, With(DequeueTimes(dequeues), r.dequeue))
  BY <1>0, <1>1, SetConfigFacts, Zenon DEF SendOK
<1>4. SendOK(pacer', endpoint', forwarded')
  BY <1>0, <1>2, <1>3, Zenon DEF SendOK
<1>5. /\ dequeues' \subseteq Int \X Addresses
      /\ address # None => DequeueTimes(dequeues') = With(DequeueTimes(dequeues), r.dequeue)
  BY <1>0, <1>2, <1>3, ScheduleFacts, Zenon
<1>6. unscheduled' \in BOOLEAN
  BY <1>0
<1>7. ~unscheduled' => address' \in known' /\ FlowOK(pacer', DequeueTimes(dequeues'))
  BY <1>0, <1>2, <1>3, <1>5, Zenon
<1> QED BY <1>0, <1>4, <1>5, <1>6, <1>7, Zenon DEF SendInv

LEMMA TimePassesStep ==
    ASSUME SendInv, TimePasses
    PROVE  SendInv'
<1>0. /\ SendOK(pacer, endpoint, forwarded) /\ forwarded' = forwarded
      /\ scene' = scene /\ address' = address /\ learning' = learning /\ known' = known
      /\ unscheduled' = unscheduled /\ dequeues \subseteq Int \X Addresses
      /\ dequeues' = {<<d[1] - 1, d[2]>> : d \in dequeues}
  BY DEF SendInv, TimePasses
<1>1. pacer' = Older(pacer) /\ endpoint' = OlderEndpoint(endpoint)
  BY DEF TimePasses, Older, OlderEndpoint
<1>2. SendOK(pacer', endpoint', forwarded')
  <2>1. SendOK(Older(pacer), OlderEndpoint(endpoint), forwarded)
    BY <1>0, OlderSendFacts, Zenon
  <2> QED BY <1>0, <1>1, <2>1, Zenon
<1>3. dequeues' \subseteq Int \X Addresses
  BY <1>0, SMTT(30)
<1>4. PICK T : T = DequeueTimes(dequeues)
  OBVIOUS
<1>5. T \subseteq Int
  BY <1>0, <1>4 DEF DequeueTimes
<1>6. DequeueTimes(dequeues') = {t - 1 : t \in T}
  <2>1. \A d \in dequeues : <<d[1] - 1, d[2]>>[1] = d[1] - 1
    OBVIOUS
  <2>2. DequeueTimes(dequeues') \subseteq {t - 1 : t \in T}
    <3>1. SUFFICES ASSUME NEW x \in dequeues' PROVE x[1] \in {t - 1 : t \in T}
      BY DEF DequeueTimes
    <3>2. PICK d \in dequeues : x = <<d[1] - 1, d[2]>>
      BY <1>0, <3>1
    <3>3. d[1] \in T /\ x[1] = d[1] - 1
      BY <1>4, <3>2 DEF DequeueTimes
    <3> QED BY <3>3
  <2>3. {t - 1 : t \in T} \subseteq DequeueTimes(dequeues')
    <3>1. SUFFICES ASSUME NEW t \in T PROVE t - 1 \in DequeueTimes(dequeues')
      OBVIOUS
    <3>2. PICK d \in dequeues : t = d[1]
      BY <1>4, <3>1 DEF DequeueTimes
    <3>3. PICK x : x = <<d[1] - 1, d[2]>>
      BY Zenon
    <3>4. x \in dequeues' /\ x[1] = t - 1
      BY <1>0, <3>2, <3>3
    <3> QED BY <3>4 DEF DequeueTimes
  <2> QED BY <2>2, <2>3
<1>7. FlowOK(pacer, T) => FlowOK(pacer', DequeueTimes(dequeues'))
  BY <1>0, <1>1, <1>5, <1>6, OlderFacts, Zenon DEF SendOK
<1> QED BY <1>0, <1>2, <1>3, <1>4, <1>7, Zenon DEF SendInv

LEMMA SendStep ==
    ASSUME LeastElements, SendInv, [Next]_vars
    PROVE  SendInv'
<1>0. /\ Here.addresses \subseteq Addresses /\ Here.video \subseteq Seqnums
      /\ Here.rtx \subseteq Seqnums
  BY SceneFacts DEF SendInv
<1>1. ASSUME NEW a \in Here.addresses, NEW nominated \in BOOLEAN, BindingRequest(a, nominated)
      PROVE  SendInv'
  BY <1>0, <1>1, Zenon DEF SendInv, BindingRequest
<1>2. ASSUME NEW a \in Here.addresses, AddressForgotten(a) PROVE SendInv'
  BY <1>2, Zenon DEF SendInv, AddressForgotten
<1>3. CASE AddressLearned
  BY <1>3 DEF SendInv, AddressLearned
<1>4. ASSUME NEW kind, NEW header, NEW n, ReceivePacket(kind, header, n) PROVE SendInv'
  BY <1>4 DEF SendInv, ReceivePacket, sendVars
<1>5. CASE TickNacks
  BY <1>5 DEF SendInv, TickNacks, sendVars
<1>6. CASE UNCHANGED vars
  BY <1>6 DEF SendInv, vars, sendVars
<1>7. ASSUME NEW n \in Here.video, SendOrEnqueue("video", n) PROVE SendInv'
  BY <1>0, <1>7, SendOrEnqueueStep
<1>8. ASSUME NEW n \in Here.rtx, SendOrEnqueue("rtx", n) PROVE SendInv'
  BY <1>0, <1>8, SendOrEnqueueStep
<1>9. CASE HandleSomeDequeue
  BY <1>9, HandleDequeueStep DEF HandleSomeDequeue
<1>10. CASE ConfigureSome
  BY <1>10, ConfigureStep DEF ConfigureSome
<1>11. CASE TimePasses
  BY <1>11, TimePassesStep
<1>12. ASSUME NEW nack, HandleNack(nack[1], nack[2]) PROVE SendInv'
  BY <1>12, HandleNackStep
<1> QED
  BY <1>1, <1>2, <1>3, <1>4, <1>5, <1>6, <1>7, <1>8, <1>9, <1>10, <1>11, <1>12, Zenon DEF Next

------------------------------------------------------------------------------
(* The two premises, and the theorems.                                     *)

INSTANCE FiniteSetTheorems

LEMMA Least == LeastElements
<1> SUFFICES ASSUME NEW F \in SUBSET Nat, F # {}
             PROVE  \E i \in F : \A j \in F : i <= j
  BY DEF LeastElements
<1> DEFINE less == {ss \in Nat \X Nat : ss[1] < ss[2]}
<1>1. IsWellFoundedOn(less, Nat)
  BY NatLessThanWellFounded, Zenon DEF OpToRel
<1>2. \E i \in F : \A j \in F : ~(<<j, i>> \in less)
  <2> HIDE DEF less
  <2> QED BY <1>1, WFMin, Zenon
<1>3. PICK i \in F : \A j \in F : ~(<<j, i>> \in less)
  BY <1>2
<1>4. \A j \in F : i <= j
  <2> SUFFICES ASSUME NEW j \in F, ~(i <= j) PROVE FALSE
    OBVIOUS
  <2>1. i \in Nat /\ j \in Nat /\ j < i
    OBVIOUS
  <2>2. <<j, i>> \in less
    BY <2>1
  <2> QED BY <1>3, <2>2
<1> QED BY <1>4

LEMMA Monotone == CardinalityMonotone
<1> SUFFICES ASSUME NEW T \in SUBSET Seqnums, NEW S \in SUBSET T
             PROVE  /\ Cardinality(S) \in Nat /\ Cardinality(T) \in Nat
                    /\ Cardinality(S) <= Cardinality(T)
  BY DEF CardinalityMonotone
<1>1. IsFiniteSet(T) /\ IsFiniteSet(S)
  BY SeqnumAssumption, FS_Subset, Zenon
<1> QED BY <1>1, FS_Subset, FS_CardinalityType

LEMMA SendInvariant == Spec => []SendInv
<1>1. Init => SendInv
  BY SendInit
<1>2. SendInv /\ [Next]_vars => SendInv'
  BY Least, SendStep
<1> QED BY <1>1, <1>2, PTL DEF Spec

\* For any scenes, sizes and limits: no two packets of a stream are encrypted under one
\* sequence number, be they forwarded, resent or padding (encrypt_and_send_rtp,
\* increment_seqnum).
THEOREM NumbersUsedOnce == Spec => []NumbersAreUsedOnce
<1>1. SendInv => NumbersAreUsedOnce
  BY Zenon DEF SendInv, SendOK, Numbers, NumbersAreUsedOnce
<1> QED BY <1>1, SendInvariant, PTL

\* For any scenes, sizes and limits: what is marked as pending is in the queue of the
\* pacer, and whenever the pacer could send, a dequeue is scheduled in time, through every
\* enqueue, dequeue, change of configuration and loss of an address.
THEOREM QueueMoves == Spec => []QueueKeepsMoving
<1>1. SendInv => PendingIsQueued
  <2>1. SUFFICES ASSUME SendInv, NEW n \in DOMAIN endpoint.sent,
                        endpoint.sent[n].pending_retransmission
                 PROVE  Rtx(n) # {}
    BY DEF PendingIsQueued
  <2>2. /\ PendOK(endpoint, pacer.rtx)
        /\ pacer.rtx \in Seq(QueuePackets("rtx")) /\ pacer.video \in Seq(QueuePackets("video"))
    BY <2>1, PacerFields, Zenon DEF SendInv, SendOK, PacerOK
  <2>3. PICK i \in DOMAIN pacer.rtx : pacer.rtx[i].seqnum = n /\ pacer.rtx[i].encrypted
    BY <2>1, <2>2 DEF PendOK
  <2>4. pacer.rtx[i].kind = "rtx"
    BY <2>2, <2>3 DEF QueuePackets
  <2>5. PICK q : q = Queued(pacer)
    OBVIOUS
  <2>6. i \in DOMAIN q /\ q[i] = pacer.rtx[i]
    <3>1. PICK S : S = QueuePackets("rtx") \cup QueuePackets("video")
      BY Zenon
    <3>2. pacer.rtx \in Seq(S) /\ pacer.video \in Seq(S)
      BY <2>2, <3>1
    <3>3. q = pacer.rtx \o pacer.video
      BY <2>5 DEF Queued
    <3>4. PICK rtx, video : rtx = pacer.rtx /\ video = pacer.video
      OBVIOUS
    <3>5. rtx \in Seq(S) /\ video \in Seq(S) /\ q = rtx \o video /\ i \in 1..Len(rtx)
      BY <2>3, <3>2, <3>3, <3>4
    <3>6. i \in DOMAIN q /\ q[i] = rtx[i]
      BY <3>5
    <3> QED BY <3>4, <3>6
  <2>7. q[i] \in QueuedPackets
    BY <2>5, <2>6 DEF QueuedPackets, Range
  <2> QED BY <2>3, <2>4, <2>6, <2>7 DEF Rtx
<1>2. SendInv => FlowIsScheduled
  <2>1. SUFFICES ASSUME SendInv, ~unscheduled, NextSendTime(pacer, 0) # None, CouldSend(pacer)
                 PROVE  \E d \in dequeues : d[1] <= Larger(NextSendTime(pacer, 0), 0)
    BY DEF FlowIsScheduled, CouldSend, Now
  <2>2. PICK next : next = NextSendTime(pacer, 0)
    OBVIOUS
  <2>3. next \in Int
    BY <2>1, <2>2, SendTimes DEF SendInv, SendOK, PacerOK
  <2>4. PICK t \in DequeueTimes(dequeues) : t = next \/ (next <= 0 /\ t <= 0)
    BY <2>1, <2>2 DEF SendInv, FlowOK
  <2>5. PICK d \in dequeues : t = d[1]
    BY <2>4 DEF DequeueTimes
  <2>6. d[1] \in Int
    BY <2>1, <2>5 DEF SendInv
  <2>7. d[1] <= Larger(next, 0)
    BY <2>3, <2>4, <2>5, <2>6 DEF Larger
  <2> QED BY <2>2, <2>7
<1>3. SendInv => QueueKeepsMoving
  BY <1>1, <1>2 DEF QueueKeepsMoving
<1> QED BY <1>3, SendInvariant, PTL

\* For any numbers, windows and limits: no header is taken twice, what is asked for is
\* missing, no number is asked for too often, and every gap is asked for unless more than
\* the limit came after it (remember_used, NackSender).
THEOREM LossesRepaired == Spec => []LossesAreRepaired
<1>1. ReceiveInv => LossesAreRepaired
  <2> SUFFICES ASSUME ReceiveInv PROVE LossesAreRepaired
    OBVIOUS
  <2>1. PICK R, s : R = Received /\ s = receiver.nack
    OBVIOUS
  <2>2. R = NumbersOf(taken)
    BY <2>1 DEF Received, NumbersOf
  <2>3. /\ MaxOK(s, R, taken[1][3]) /\ TimesOK(s, R, asked) /\ CountsOK(s, R, asked)
        /\ GapsOK(s, R, taken[1][3], asked)
    BY <2>1, <2>2, Zenon DEF ReceiveInv, NackOK
  <2>4. TakenOnce
    BY Zenon DEF TakenOnce, ReceiveInv, HeadersOf
  <2>5. NacksAreForMissing
    BY <2>1, <2>3, Zenon DEF NacksAreForMissing, TimesOK
  <2>6. AskedOftenEnough
    BY <2>3, Zenon DEF AskedOftenEnough, CountsOK
  <2>7. GapsAreAskedFor
    BY <2>1, <2>3, Zenon DEF GapsAreAskedFor, GapsOK, Between
  <2> QED BY <2>4, <2>5, <2>6, <2>7 DEF LossesAreRepaired
<1>2. Init => ReceiveInv
  BY ReceiveInit
<1>3. ReceiveInv /\ [Next]_vars => ReceiveInv'
  BY Monotone, ReceiveStep
<1> QED BY <1>1, <1>2, <1>3, PTL DEF Spec
==============================================================================
