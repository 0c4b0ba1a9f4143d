---------------------------- MODULE EndpointProofs ----------------------------
(***************************************************************************)
(* What the operations of Pacer and RtpEndpoint do to the pacer and the    *)
(* endpoint of a connection, for any configurations, sequence numbers,     *)
(* sizes and limits.                                                       *)
(***************************************************************************)
EXTENDS Connection, TLAPS

------------------------------------------------------------------------------
(* Facts about sequences, numbers and finite sets.  The two that need the  *)
(* theorems about finite sets and well-founded relations are premises of   *)
(* the lemmas that use them, and are proved in ConnectionProofs.           *)

\* A set of numbers has a least one.
LeastElements == \A F \in SUBSET Nat : F # {} => \E i \in F : \A j \in F : i <= j

\* A larger set of sequence numbers has at least as many.
CardinalityMonotone ==
    \A T \in SUBSET Seqnums : \A S \in SUBSET T :
        /\ Cardinality(S) \in Nat /\ Cardinality(T) \in Nat
        /\ Cardinality(S) <= Cardinality(T)

LEMMA AppendIs ==
  ASSUME NEW S, NEW s \in Seq(S), NEW e \in S
  PROVE  /\ Append(s, e) \in Seq(S) /\ Append(s, e) # <<>>
         /\ Len(Append(s, e)) = Len(s) + 1
         /\ \A i \in 1..Len(s) : Append(s, e)[i] = s[i]
         /\ Append(s, e)[Len(s) + 1] = e
OBVIOUS

LEMMA SuffixIs ==
  ASSUME NEW S, NEW s \in Seq(S), NEW m \in 1..Len(s)
  PROVE  /\ SubSeq(s, m, Len(s)) \in Seq(S)
         /\ Len(SubSeq(s, m, Len(s))) = Len(s) - m + 1
         /\ \A i \in 1..(Len(s) - m + 1) : SubSeq(s, m, Len(s))[i] = s[m + i - 1]
OBVIOUS

LEMMA HeadTailAre ==
  ASSUME NEW S, NEW s \in Seq(S), s # <<>>
  PROVE  /\ Head(s) \in S /\ Tail(s) \in Seq(S) /\ Len(Tail(s)) = Len(s) - 1
         /\ \A i \in 1..Len(Tail(s)) : Tail(s)[i] = s[i + 1]
OBVIOUS

------------------------------------------------------------------------------
(* The receiving half: what is asked for.  R are the numbers received and  *)
(* f the first of them.                                                    *)

\* What is remembered of a number that was asked for k times.
TimeOK(t, k) == IF t = None THEN k = 0 ELSE t \in NackTimes /\ t.count = k /\ k >= 1

Between(n, m) == {k \in Seqnums : n < k /\ k < m}

\* The numbers received are up to max_received.
MaxOK(s, R, f) ==
    IF R = {} THEN s.max_received = None /\ DOMAIN s.times = {}
    ELSE f \in R /\ s.max_received \in R /\ \A n \in R : n <= s.max_received

TimesOK(s, R, count) ==
    /\ DOMAIN s.times \subseteq Seqnums \ R
    /\ \A n \in DOMAIN s.times : n < s.max_received /\ TimeOK(s.times[n], count[n])

CountsOK(s, R, count) ==
    \A n \in Seqnums : /\ count[n] <= MaxNackRetryCount
                       /\ count[n] > 0 => R # {} /\ n < s.max_received

GapsOK(s, R, f, count) ==
    \A n \in Seqnums \ R :
        (R # {} /\ n > f /\ n < s.max_received)
        => \/ n \in DOMAIN s.times \/ count[n] > 0
           \/ Cardinality(Between(n, s.max_received)) >= NackLimit

NackOK(s, R, f, count) ==
    /\ s = [max_received |-> s.max_received, times |-> s.times]
    /\ R \subseteq Seqnums /\ count \in [Seqnums -> Nat]
    /\ MaxOK(s, R, f) /\ TimesOK(s, R, count) /\ CountsOK(s, R, count) /\ GapsOK(s, R, f, count)

\* There are at least as many numbers up to a later one.
LEMMA BetweenGrows ==
    ASSUME CardinalityMonotone, NEW S \in SUBSET Seqnums, NEW n, NEW m,
           \A k \in S : n < k /\ k < m, Cardinality(S) >= NackLimit
    PROVE  Cardinality(Between(n, m)) >= NackLimit
<1>1. S \subseteq Between(n, m) /\ Between(n, m) \subseteq Seqnums
  BY DEF Between
<1>2. /\ Cardinality(S) \in Nat /\ Cardinality(Between(n, m)) \in Nat
      /\ Cardinality(S) <= Cardinality(Between(n, m))
  BY <1>1 DEF CardinalityMonotone
<1> QED BY <1>2, EndpointAssumption

LEMMA NackReceivedFacts ==
    ASSUME CardinalityMonotone, NEW s, NEW R, NEW f, NEW count, NackOK(s, R, f, count),
           NEW n \in Seqnums, NEW f1, f1 = IF R = {} THEN n ELSE f
    PROVE  NackOK(NackRememberReceived(s, n), R \cup {n}, f1, count)
<1>0. /\ s = [max_received |-> s.max_received, times |-> s.times]
      /\ R \subseteq Seqnums /\ count \in [Seqnums -> Nat]
      /\ MaxOK(s, R, f) /\ TimesOK(s, R, count) /\ CountsOK(s, R, count) /\ GapsOK(s, R, f, count)
      /\ Seqnums \subseteq Nat \ {0} /\ None \notin Seqnums /\ n \in Nat
  BY SeqnumAssumption, PacerAssumption DEF NackOK
<1>1. PICK s1 : s1 = NackRememberReceived(s, n)
  OBVIOUS
<1>2. PICK R1 : R1 = R \cup {n}
  BY Zenon
<1>3. R1 \subseteq Seqnums /\ R1 # {}
  BY <1>0, <1>2
<1>4. CASE R = {}
  <2>1. s.max_received = None /\ DOMAIN s.times = {}
    BY <1>0, <1>4 DEF MaxOK
  <2>2. s1 = [max_received |-> n, times |-> s.times]
    <3>1. s1 = [s EXCEPT !.max_received = n]
      BY <1>1, <2>1 DEF NackRememberReceived
    <3> QED BY <1>0, <3>1
  <2>3. s1.max_received = n /\ s1.times = s.times /\ f1 = n
    BY <1>4, <2>2
  <2>4. s1 = [max_received |-> s1.max_received, times |-> s1.times]
    BY <2>2, <2>3
  <2>5. MaxOK(s1, R1, f1)
    BY <1>0, <1>2, <1>3, <1>4, <2>3 DEF MaxOK
  <2>6. TimesOK(s1, R1, count)
    BY <2>1, <2>3 DEF TimesOK
  <2>7. CountsOK(s1, R1, count)
    BY <1>0, <1>4 DEF CountsOK
  <2>8. GapsOK(s1, R1, f1, count)
    BY <1>0, <2>3 DEF GapsOK
  <2> QED BY <1>0, <1>1, <1>2, <1>3, <2>4, <2>5, <2>6, <2>7, <2>8 DEF NackOK
<1>5. CASE R # {} /\ n <= s.max_received
  <2>1. PICK max : max = s.max_received
    OBVIOUS
  <2>2. max \in R /\ max \in Nat /\ max # None /\ f \in R /\ f1 = f /\ \A m \in R : m <= max
    BY <1>0, <1>5, <2>1 DEF MaxOK
  <2>3. PICK times : times = [m \in DOMAIN s.times \ {n} |-> s.times[m]]
    BY Zenon
  <2>4. s1 = [max_received |-> max, times |-> times]
    <3>1. s1 = [s EXCEPT !.times = times]
      BY <1>1, <1>5, <2>1, <2>2, <2>3 DEF NackRememberReceived
    <3> QED BY <1>0, <2>1, <3>1
  <2>5. s1.max_received = max /\ s1.times = times
    BY <2>4
  <2>6. s1 = [max_received |-> s1.max_received, times |-> s1.times]
    BY <2>4, <2>5
  <2>7. DOMAIN times = DOMAIN s.times \ {n} /\ \A m \in DOMAIN times : times[m] = s.times[m]
    BY <2>3
  <2>8. MaxOK(s1, R1, f1)
    BY <1>2, <1>3, <1>5, <2>1, <2>2, <2>5 DEF MaxOK
  <2>9. TimesOK(s1, R1, count)
    BY <1>0, <1>2, <2>1, <2>5, <2>7 DEF TimesOK
  <2>10. CountsOK(s1, R1, count)
    BY <1>0, <1>3, <2>1, <2>5 DEF CountsOK
  <2>11. GapsOK(s1, R1, f1, count)
    BY <1>0, <1>2, <1>5, <2>1, <2>2, <2>5, <2>7 DEF GapsOK
  <2> QED BY <1>0, <1>1, <1>2, <1>3, <2>6, <2>8, <2>9, <2>10, <2>11 DEF NackOK
<1>6. CASE R # {} /\ ~(n <= s.max_received)
  <2>1. PICK max : max = s.max_received
    OBVIOUS
  <2>2. /\ max \in R /\ max \in Nat /\ max # None /\ f \in R /\ f1 = f /\ n > max
        /\ \A m \in R : m <= max
    BY <1>0, <1>6, <2>1 DEF MaxOK
  <2>3. PICK missing : missing = (max + 1)..(n - 1)
    OBVIOUS
  <2>4. missing \subseteq Seqnums /\ \A m \in missing : m > max /\ m < n /\ m \notin R
    <3>1. 1..n \subseteq Seqnums
      BY SeqnumAssumption
    <3> QED BY <1>0, <2>2, <2>3, <3>1
  <2>5. PICK S : S = DOMAIN s.times \cup missing
    BY Zenon
  <2>6. /\ S \subseteq Seqnums /\ \A m \in S : m < n /\ m \notin R /\ m \in Nat
    BY <1>0, <2>1, <2>2, <2>4, <2>5 DEF TimesOK
  <2>7. PICK times : times = [m \in Newest(S) |-> IF m \in DOMAIN s.times THEN s.times[m] ELSE None]
    BY Zenon
  <2>8. s1 = [max_received |-> n, times |-> times]
    BY <1>1, <1>6, <2>1, <2>2, <2>3, <2>5, <2>7 DEF NackRememberReceived
  <2>9. s1.max_received = n /\ s1.times = times
    BY <2>8
  <2>10. s1 = [max_received |-> s1.max_received, times |-> s1.times]
    BY <2>8, <2>9
  <2>11. DOMAIN times = Newest(S) /\ Newest(S) \subseteq S
    BY <2>7 DEF Newest
  <2>12. MaxOK(s1, R1, f1)
    BY <1>0, <1>2, <1>3, <2>2, <2>9 DEF MaxOK
  <2>13. TimesOK(s1, R1, count)
    <3>1. SUFFICES ASSUME NEW m \in DOMAIN times
                   PROVE  m \in Seqnums \ R1 /\ m < n /\ TimeOK(times[m], count[m])
      BY <2>9 DEF TimesOK
    <3>2. m \in S /\ m \in Seqnums \ R1 /\ m < n
      BY <1>0, <1>2, <2>6, <2>11, <3>1
    <3>3. CASE m \in DOMAIN s.times
      <4>1. times[m] = s.times[m]
        BY <2>7, <2>11, <3>1, <3>3
      <4> QED BY <1>0, <3>2, <3>3, <4>1 DEF TimesOK
    <3>4. CASE m \notin DOMAIN s.times
      <4>1. times[m] = None /\ m \in missing
        BY <2>5, <2>7, <2>11, <3>1, <3>2, <3>4
      <4>2. ~(m < max)
        BY <1>0, <2>2, <2>4, <3>2, <4>1
      <4>3. count[m] = 0
        BY <1>0, <2>1, <3>2, <4>2 DEF CountsOK
      <4> QED BY <3>2, <4>1, <4>3 DEF TimeOK
    <3> QED BY <3>3, <3>4
  <2>14. CountsOK(s1, R1, count)
    BY <1>0, <1>3, <2>1, <2>2, <2>9 DEF CountsOK
  <2>15. GapsOK(s1, R1, f1, count)
    <3>1. SUFFICES ASSUME NEW m \in Seqnums \ R1, m > f, m < n, m \notin DOMAIN times,
                          ~(count[m] > 0)
                   PROVE  Cardinality(Between(m, n)) >= NackLimit
      BY <2>2, <2>9 DEF GapsOK
    <3>2. m \in Nat /\ m \notin R /\ m # max
      BY <1>0, <1>2, <2>2, <3>1
    <3>3. CASE m \in S
      <4>1. PICK L : L = {k \in S : k > m}
        BY Zenon
      <4>2. ~(Cardinality(L) < NackLimit)
        BY <2>11, <3>1, <3>3, <4>1 DEF Newest
      <4>3. L \subseteq Seqnums /\ \A k \in L : m < k /\ k < n
        BY <2>6, <3>2, <4>1, Zenon
      <4>4. Cardinality(L) \in Nat
        BY <4>3 DEF CardinalityMonotone
      <4>5. Cardinality(L) >= NackLimit
        BY <4>2, <4>4, EndpointAssumption
      <4> QED BY <4>3, <4>5, BetweenGrows
    <3>4. CASE m \notin S
      <4>1. m < max /\ m \notin DOMAIN s.times
        BY <2>2, <2>3, <2>5, <3>1, <3>2, <3>4, <1>0
      <4>2. Cardinality(Between(m, max)) >= NackLimit
        BY <1>0, <1>6, <2>1, <3>1, <3>2, <4>1 DEF GapsOK
      <4>3. Between(m, max) \subseteq Seqnums /\ \A k \in Between(m, max) : m < k /\ k < n
        BY <1>0, <2>2 DEF Between
      <4> QED BY <4>2, <4>3, BetweenGrows
    <3> QED BY <3>3, <3>4
  <2> QED BY <1>0, <1>1, <1>2, <1>3, <2>10, <2>12, <2>13, <2>14, <2>15 DEF NackOK
<1> QED BY <1>4, <1>5, <1>6

LEMMA NackTickFacts ==
    ASSUME NEW s, NEW R, NEW f, NEW count, NackOK(s, R, f, count), NEW r,
           r = SendNacks(s, 0, Rtt), NEW count1,
           count1 = [n \in Seqnums |-> count[n] + IF n \in r.nacks THEN 1 ELSE 0]
    PROVE  NackOK(r.sender, R, f, count1)
<1>0. /\ s = [max_received |-> s.max_received, times |-> s.times]
      /\ R \subseteq Seqnums /\ count \in [Seqnums -> Nat]
      /\ MaxOK(s, R, f) /\ TimesOK(s, R, count) /\ CountsOK(s, R, count) /\ GapsOK(s, R, f, count)
      /\ MaxNackRetryCount \in Nat \ {0}
  BY EndpointAssumption DEF NackOK
<1>1. PICK kept : kept = {n \in DOMAIN s.times : ~GivenUp(s.times[n], 0)}
  BY Zenon
<1>2. PICK due : due = {n \in kept : DueAgain(s.times[n], 0, Rtt)}
  BY Zenon
<1>3. PICK times : times = [n \in kept |-> IF n \in due THEN AskedAgain(s.times[n], 0) ELSE s.times[n]]
  BY Zenon
<1>4. r = [sender |-> [s EXCEPT !.times = times], nacks |-> due]
  BY <1>1, <1>2, <1>3 DEF SendNacks
<1>5. PICK s1 : s1 = r.sender
  OBVIOUS
<1>6. r.nacks = due /\ s1 = [max_received |-> s.max_received, times |-> times]
  BY <1>0, <1>4, <1>5
<1>7. s1.max_received = s.max_received /\ s1.times = times
      /\ s1 = [max_received |-> s1.max_received, times |-> s1.times]
  BY <1>6
<1>8. /\ kept \subseteq DOMAIN s.times /\ due \subseteq kept /\ DOMAIN times = kept
      /\ DOMAIN s.times \subseteq Seqnums
      /\ \A n \in due : times[n] = AskedAgain(s.times[n], 0)
      /\ \A n \in kept \ due : times[n] = s.times[n]
      /\ \A n \in kept : ~GivenUp(s.times[n], 0)
      /\ \A n \in DOMAIN s.times \ kept : GivenUp(s.times[n], 0)
  BY <1>0, <1>1, <1>2, <1>3 DEF TimesOK
<1>9. /\ count1 \in [Seqnums -> Nat]
      /\ \A n \in Seqnums : /\ n \in due => count1[n] = count[n] + 1
                            /\ n \notin due => count1[n] = count[n]
  <2>1. \A n \in Seqnums : count1[n] = count[n] + IF n \in due THEN 1 ELSE 0
    BY <1>6
  <2> QED BY <1>0, <2>1
<1>10. ASSUME NEW n \in due
       PROVE  TimeOK(times[n], count1[n]) /\ count1[n] <= MaxNackRetryCount
  <2>1. PICK t : t = s.times[n]
    OBVIOUS
  <2>2. /\ n \in Seqnums /\ count1[n] = count[n] + 1 /\ times[n] = AskedAgain(t, 0)
        /\ TimeOK(t, count[n]) /\ ~GivenUp(t, 0) /\ count[n] \in Nat
    BY <1>0, <1>8, <1>9, <1>10, <2>1 DEF TimesOK
  <2>3. CASE t = None
    <3>1. times[n] = [first |-> 0, last |-> 0, count |-> 1] /\ count[n] = 0
      BY <2>2, <2>3 DEF AskedAgain, TimeOK
    <3>2. times[n] \in NackTimes /\ times[n].count = 1
      BY <3>1 DEF NackTimes
    <3>3. times[n] # None
      BY <3>2, NoneAssumption
    <3> QED BY <1>0, <2>2, <3>1, <3>2, <3>3 DEF TimeOK
  <2>4. CASE t # None
    <3>1. t \in NackTimes /\ t.count = count[n]
      BY <2>2, <2>4 DEF TimeOK
    <3>2. t.count < MaxNackRetryCount
      BY <1>0, <2>2, <2>4, <3>1 DEF GivenUp, NackTimes
    <3>3. PICK k, z : k = t.count + 1 /\ z = 0
      OBVIOUS
    <3>a. k \in Nat /\ z \in Int
      BY <3>1, <3>3 DEF NackTimes
    <3>b. times[n] = [t EXCEPT !.last = z, !.count = k]
      BY <2>2, <2>4, <3>3 DEF AskedAgain
    <3>c. times[n] \in NackTimes /\ times[n].count = k
      BY <3>1, <3>a, <3>b, Zenon DEF NackTimes
    <3>4. times[n] \in NackTimes /\ times[n].count = t.count + 1
      BY <3>3, <3>c
    <3>5. times[n] # None
      BY <3>4, NoneAssumption
    <3> QED BY <1>0, <2>2, <3>1, <3>2, <3>4, <3>5 DEF TimeOK
  <2> QED BY <2>3, <2>4
<1>11. MaxOK(s1, R, f)
  BY <1>0, <1>7, <1>8 DEF MaxOK
<1>12. TimesOK(s1, R, count1)
  <2>1. SUFFICES ASSUME NEW n \in kept
                 PROVE  n \in Seqnums \ R /\ n < s.max_received /\ TimeOK(times[n], count1[n])
    BY <1>7, <1>8 DEF TimesOK
  <2>2. n \in Seqnums \ R /\ n < s.max_received /\ TimeOK(s.times[n], count[n])
    BY <1>0, <1>8, <2>1 DEF TimesOK
  <2> QED BY <1>8, <1>9, <1>10, <2>1, <2>2
<1>13. CountsOK(s1, R, count1)
  <2>1. SUFFICES ASSUME NEW n \in Seqnums
                 PROVE  /\ count1[n] <= MaxNackRetryCount
                        /\ count1[n] > 0 => R # {} /\ n < s.max_received
    BY <1>7 DEF CountsOK
  <2>2. CASE n \in due
    BY <1>0, <1>8, <1>10, <2>2 DEF TimesOK, MaxOK
  <2>3. CASE n \notin due
    BY <1>0, <1>9, <2>1, <2>3 DEF CountsOK
  <2> QED BY <2>2, <2>3
<1>14. GapsOK(s1, R, f, count1)
  <2>1. SUFFICES ASSUME NEW n \in Seqnums \ R, R # {}, n > f, n < s.max_received
                 PROVE  \/ n \in kept \/ count1[n] > 0
                        \/ Cardinality(Between(n, s.max_received)) >= NackLimit
    BY <1>7, <1>8 DEF GapsOK
  <2>2. count1[n] >= count[n] /\ count1[n] \in Nat /\ count[n] \in Nat
    BY <1>0, <1>9, <2>1
  <2>3. CASE n \in DOMAIN s.times \ kept
    <3>1. s.times[n] # None
      BY <1>8, <2>3 DEF GivenUp
    <3>2. count[n] >= 1
      BY <1>0, <2>3, <3>1 DEF TimesOK, TimeOK
    <3> QED BY <2>2, <3>2
  <2>4. CASE n \in kept
    BY <2>4
  <2>5. CASE n \notin DOMAIN s.times
    BY <1>0, <2>1, <2>2, <2>5 DEF GapsOK
  <2> QED BY <2>3, <2>4, <2>5
<1> QED BY <1>0, <1>5, <1>7, <1>9, <1>11, <1>12, <1>13, <1>14 DEF NackOK

LEMMA NackAgedFacts ==
    ASSUME NEW s, NEW R, NEW f, NEW count, NackOK(s, R, f, count)
    PROVE  NackOK([max_received |-> s.max_received, times |-> AgedTimes(s.times)], R, f, count)
<1>0. /\ R \subseteq Seqnums /\ count \in [Seqnums -> Nat]
      /\ MaxOK(s, R, f) /\ TimesOK(s, R, count) /\ CountsOK(s, R, count) /\ GapsOK(s, R, f, count)
  BY DEF NackOK
<1>1. PICK times : times = AgedTimes(s.times)
  OBVIOUS
<1>2. PICK s1 : s1 = [max_received |-> s.max_received, times |-> times]
  BY Zenon
<1>3. s1.max_received = s.max_received /\ s1.times = times
      /\ s1 = [max_received |-> s1.max_received, times |-> s1.times]
  BY <1>2
<1>4. DOMAIN times = DOMAIN s.times /\ \A n \in DOMAIN times : times[n] = AgedTime(s.times[n])
  BY <1>1 DEF AgedTimes
<1>5. ASSUME NEW n \in DOMAIN times PROVE TimeOK(times[n], count[n])
  <2>1. PICK t : t = s.times[n]
    OBVIOUS
  <2>2. TimeOK(t, count[n]) /\ times[n] = AgedTime(t)
    BY <1>0, <1>4, <1>5, <2>1 DEF TimesOK
  <2>3. CASE t = None
    BY <2>2, <2>3 DEF AgedTime
  <2>4. CASE t # None
    <3>1. t \in NackTimes /\ t.count = count[n] /\ count[n] >= 1
      BY <2>2, <2>4 DEF TimeOK
    <3>2. PICK a, b : a = Earlier(t.first, -NackExpiry) /\ b = Earlier(t.last, -NackExpiry)
      OBVIOUS
    <3>3. a \in Int /\ b \in Int
      BY <3>1, <3>2, PacerAssumption, EndpointAssumption DEF NackTimes, Earlier, Larger
    <3>4. times[n] = [t EXCEPT !.first = a, !.last = b]
      BY <2>2, <2>4, <3>2 DEF AgedTime
    <3>5. times[n] \in NackTimes /\ times[n].count = t.count
      BY <3>1, <3>3, <3>4, Zenon DEF NackTimes
    <3>6. times[n] # None
      BY <3>5, NoneAssumption
    <3> QED BY <3>1, <3>5, <3>6 DEF TimeOK
  <2> QED BY <2>3, <2>4
<1>6. MaxOK(s1, R, f) /\ CountsOK(s1, R, count) /\ GapsOK(s1, R, f, count)
  BY <1>0, <1>3, <1>4 DEF MaxOK, CountsOK, GapsOK
<1>7. TimesOK(s1, R, count)
  BY <1>0, <1>3, <1>4, <1>5 DEF TimesOK
<1> QED BY <1>0, <1>1, <1>2, <1>3, <1>6, <1>7 DEF NackOK
------------------------------------------------------------------------------
(* Debts: how they decay and how they are paid.                            *)

LEMMA Quotient ==
    ASSUME NEW a \in Nat, NEW b \in Nat \ {0}
    PROVE  /\ a \div b \in Nat
           /\ b * (a \div b) <= a
           /\ a < b * (a \div b) + b
<1>1. a \div b \in Int /\ a % b \in 0..(b - 1) /\ a = b * (a \div b) + (a % b)
  BY SMT
<1>2. a \div b \in Nat
  BY SMT
<1> QED BY <1>1, <1>2, SMT

LEMMA QuotientIs ==
    ASSUME NEW a \in Nat, NEW b \in Nat \ {0}, NEW q \in Nat,
           b * q <= a, a < b * q + b
    PROVE  a \div b = q
BY SMT

LEMMA Products ==
    ASSUME NEW b \in Nat, NEW x \in Int, NEW y \in Int
    PROVE  /\ b * (x + y) = b * x + b * y
           /\ b * (x - y) = b * x - b * y
           /\ x <= y => b * x <= b * y
           /\ b * x \in Int
BY SMT


\* What is left of a debt after k units of time, in units of time.
LEMMA Decay ==
    ASSUME NEW a \in Nat, NEW b \in Nat \ {0}, NEW k \in Nat
    PROVE  /\ Larger(0, a - b * k) \in Nat
           /\ Larger(0, a - b * k) <= a
           /\ Larger(0, a - b * k) \div b = Larger(0, a \div b - k)
<1> DEFINE q == a \div b
<1>1. q \in Nat /\ b * q <= a /\ a < b * q + b
  BY Quotient
<1> HIDE DEF q
<1>2. b * k \in Nat /\ b * (q - k) = b * q - b * k
  BY <1>1, Products
<1>3. CASE k <= q
  <2>1. b * k <= b * q
    BY <1>1, <1>3, Products
  <2>2. a - b * k \in Nat /\ Larger(0, a - b * k) = a - b * k /\ Larger(0, q - k) = q - k
    BY <1>1, <1>2, <1>3, <2>1 DEF Larger
  <2>3. b * (q - k) <= a - b * k /\ a - b * k < b * (q - k) + b
    BY <1>1, <1>2
  <2>4. (a - b * k) \div b = q - k
    BY <1>1, <1>3, <2>2, <2>3, QuotientIs
  <2> QED BY <1>2, <2>2, <2>4 DEF q
<1>4. CASE q < k
  <2>1. b * (q + 1) <= b * k /\ b * (q + 1) = b * q + b
    BY <1>1, <1>4, Products
  <2>2. Larger(0, a - b * k) = 0 /\ Larger(0, q - k) = 0
    BY <1>1, <1>2, <1>4, <2>1 DEF Larger
  <2>3. 0 \div b = 0
    BY QuotientIs
  <2> QED BY <2>2, <2>3 DEF q
<1> QED BY <1>1, <1>3, <1>4

\* A debt within the bound is paid within MAX_DEBT_IN_TIME.
LEMMA PaidInTime ==
    ASSUME NEW a \in Nat, NEW b \in Nat \ {0}, a <= b * MaxDebtInTime
    PROVE  a \div b \in Nat /\ a \div b <= MaxDebtInTime
<1> DEFINE q == a \div b
<1>1. q \in Nat /\ b * q <= a
  BY Quotient
<1> HIDE DEF q
<1>2. CASE MaxDebtInTime < q
  <2>1. b * (MaxDebtInTime + 1) <= b * q /\ b * (MaxDebtInTime + 1) = b * MaxDebtInTime + b
    BY <1>1, <1>2, PacerAssumption, Products
  <2> QED BY <1>1, <2>1, PacerAssumption, Products
<1> QED BY <1>1, <1>2, PacerAssumption DEF q
------------------------------------------------------------------------------
(* The pacer.  Whenever it could send, there is a time scheduled that is   *)
(* the next send time, or both have come.                                  *)

PaddingSsrcs == {None} \cup UNION {{c.padding_ssrc : c \in Scenes[s].configs} : s \in DOMAIN Scenes}
Configs      == [media : Nat, padding : Nat, padding_ssrc : PaddingSsrcs]

QueuePackets(kind) == {q \in Packets : q.kind = kind /\ q.seqnum \in Seqnums /\ q.deadline \in Int}

Pacers == [config : Configs, video : Seq(QueuePackets("video")), rtx : Seq(QueuePackets("rtx")),
           last_sent : (-MaxDebtInTime..0) \cup {None}, media_debt : Nat, padding_debt : Nat]

\* The debts are within MAX_DEBT_IN_TIME.
Bounded(p) ==
    /\ p.config.media # 0 => p.media_debt <= p.config.media * MaxDebtInTime
    /\ p.config.padding # 0 => p.padding_debt <= p.config.padding * MaxDebtInTime

\* Before the first packet there is no debt.
Unsent(p) == p.last_sent = None => p.media_debt = 0 /\ p.padding_debt = 0

PacerOK(p) == p \in Pacers /\ Bounded(p) /\ Unsent(p)

PacerOf(config, video, rtx, last_sent, media_debt, padding_debt) ==
    [config |-> config, video |-> video, rtx |-> rtx, last_sent |-> last_sent,
     media_debt |-> media_debt, padding_debt |-> padding_debt]

CouldSend(p) == ~QueueIsEmpty(p) \/ p.config.padding_ssrc # None

FlowOK(p, times) ==
    CouldSend(p) /\ NextSendTime(p, 0) # None =>
        \E t \in times : t = NextSendTime(p, 0) \/ (NextSendTime(p, 0) <= 0 /\ t <= 0)

With(times, time) == IF time = None THEN times ELSE times \cup {time}

LEMMA PacerFields ==
    ASSUME NEW p \in Pacers
    PROVE  /\ p = PacerOf(p.config, p.video, p.rtx, p.last_sent, p.media_debt, p.padding_debt)
           /\ p.config \in Configs
           /\ p.config.media \in Nat /\ p.config.padding \in Nat
           /\ p.video \in Seq(QueuePackets("video")) /\ p.rtx \in Seq(QueuePackets("rtx"))
           /\ p.last_sent \in (-MaxDebtInTime..0) \cup {None}
           /\ p.media_debt \in Nat /\ p.padding_debt \in Nat
BY DEF Pacers, Configs, PacerOf

\* The next send times are times.
LEMMA SendTimes ==
    ASSUME NEW p \in Pacers
    PROVE  /\ NextMediaSendTime(p, 0) \in Int \cup {None}
           /\ NextPaddingSendTime(p, 0) \in Int \cup {None}
           /\ NextSendTime(p, 0) \in Int \cup {None}
           /\ NextSendTime(p, 0) # None => NextSendTime(p, 0) >= -MaxDebtInTime
<1>1. p.config.media # 0 => p.media_debt \div p.config.media \in Nat
  BY PacerFields, Quotient
<1>2. p.config.padding # 0 => p.padding_debt \div p.config.padding \in Nat
  BY PacerFields, Quotient
<1>3. /\ p.last_sent \in Int \cup {None}
      /\ p.last_sent # None => p.last_sent >= -MaxDebtInTime
      /\ MaxDebtInTime \in Nat /\ p.config.media \in Nat /\ p.config.padding \in Nat
  BY PacerFields, PacerAssumption
<1> DEFINE md == p.media_debt \div p.config.media
           pd == p.padding_debt \div p.config.padding
<1>a. NextMediaSendTime(p, 0) =
        IF p.config.media = 0 THEN None ELSE IF p.last_sent = None THEN 0 ELSE p.last_sent + md
  BY DEF NextMediaSendTime
<1>b. NextPaddingSendTime(p, 0) =
        IF p.config.padding = 0 \/ p.config.media = 0 THEN None
        ELSE IF p.last_sent = None THEN 0 ELSE p.last_sent + Larger(md, pd)
  BY DEF NextPaddingSendTime
<1>c. (p.config.media # 0 => md \in Nat) /\ (p.config.padding # 0 => pd \in Nat)
  BY <1>1, <1>2
<1> HIDE DEF md, pd
<1>4. /\ NextMediaSendTime(p, 0) \in Int \cup {None}
      /\ NextMediaSendTime(p, 0) # None => NextMediaSendTime(p, 0) >= -MaxDebtInTime
  BY <1>3, <1>a, <1>c
<1>5. /\ NextPaddingSendTime(p, 0) \in Int \cup {None}
      /\ NextPaddingSendTime(p, 0) # None => NextPaddingSendTime(p, 0) >= -MaxDebtInTime
  BY <1>3, <1>b, <1>c DEF Larger
<1> QED BY <1>4, <1>5 DEF NextSendTime

LEMMA CappedFacts ==
    ASSUME NEW debt \in Nat, NEW rate \in Nat
    PROVE  /\ Capped(debt, rate) \in Nat
           /\ rate # 0 => Capped(debt, rate) <= rate * MaxDebtInTime
           /\ debt = 0 => Capped(debt, rate) = 0
<1>1. PICK x : x = rate * MaxDebtInTime
  OBVIOUS
<1>2. x \in Nat
  BY <1>1, PacerAssumption
<1>3. Capped(debt, rate) = IF rate = 0 THEN debt ELSE Lesser(debt, x)
  BY <1>1 DEF Capped
<1>4. /\ Capped(debt, rate) \in Nat
      /\ rate # 0 => Capped(debt, rate) <= x
      /\ debt = 0 => Capped(debt, rate) = 0
  BY <1>2, <1>3 DEF Lesser
<1> QED BY <1>1, <1>4


\* Sending puts the debts up, within the bound.
LEMMA SentDataFacts ==
    ASSUME NEW p \in Pacers, NEW size \in Nat, Unsent(p), size = 0 \/ p.last_sent # None
    PROVE  /\ PacerOK(UpdateBudgetWithSentData(p, size))
           /\ UpdateBudgetWithSentData(p, size).config = p.config
           /\ UpdateBudgetWithSentData(p, size).video = p.video
           /\ UpdateBudgetWithSentData(p, size).rtx = p.rtx
           /\ UpdateBudgetWithSentData(p, size).last_sent = p.last_sent
<1>0. /\ p = PacerOf(p.config, p.video, p.rtx, p.last_sent, p.media_debt, p.padding_debt)
      /\ p.media_debt + size \in Nat /\ p.padding_debt + size \in Nat
      /\ p.config.media \in Nat /\ p.config.padding \in Nat
  BY PacerFields
<1>1. PICK md : md = Capped(p.media_debt + size, p.config.media)
  OBVIOUS
<1>2. PICK pd : pd = Capped(p.padding_debt + size, p.config.padding)
  OBVIOUS
<1>3. /\ md \in Nat /\ (p.config.media # 0 => md <= p.config.media * MaxDebtInTime)
      /\ pd \in Nat /\ (p.config.padding # 0 => pd <= p.config.padding * MaxDebtInTime)
  BY <1>0, <1>1, <1>2, CappedFacts, Zenon
<1>4. UpdateBudgetWithSentData(p, size) = PacerOf(p.config, p.video, p.rtx, p.last_sent, md, pd)
  <2>1. PICK q : q = PacerOf(p.config, p.video, p.rtx, p.last_sent, md, p.padding_debt)
    OBVIOUS
  <2>2. [p EXCEPT !.media_debt = Capped(@ + size, p.config.media)] = q
    BY <1>0, <1>1, <2>1 DEF PacerOf
  <2>3. UpdateBudgetWithSentData(p, size) = UpdateBudgetWithSentPadding(q, size)
    BY <2>2 DEF UpdateBudgetWithSentData
  <2>4. UpdateBudgetWithSentPadding(q, size) =
          PacerOf(p.config, p.video, p.rtx, p.last_sent, md, pd)
    BY <1>2, <2>1 DEF UpdateBudgetWithSentPadding, PacerOf
  <2> QED BY <2>3, <2>4
<1>5. p.last_sent = None => md = 0 /\ pd = 0
  <2>1. p.last_sent = None => p.media_debt + size = 0 /\ p.padding_debt + size = 0
    BY DEF Unsent
  <2> QED BY <1>0, <1>1, <1>2, <2>1, CappedFacts
<1>6. PacerOK(PacerOf(p.config, p.video, p.rtx, p.last_sent, md, pd))
  BY <1>3, <1>5, PacerFields DEF PacerOK, Bounded, Unsent, PacerOf, Pacers
<1> QED BY <1>4, <1>6 DEF PacerOf

LEMMA SentPaddingFacts ==
    ASSUME NEW p, PacerOK(p), NEW size \in Nat, p.last_sent # None
    PROVE  /\ PacerOK(UpdateBudgetWithSentPadding(p, size))
           /\ UpdateBudgetWithSentPadding(p, size).config = p.config
           /\ UpdateBudgetWithSentPadding(p, size).video = p.video
           /\ UpdateBudgetWithSentPadding(p, size).rtx = p.rtx
<1>0. p \in Pacers /\ Bounded(p)
  BY DEF PacerOK
<1>1. /\ p = PacerOf(p.config, p.video, p.rtx, p.last_sent, p.media_debt, p.padding_debt)
      /\ p.padding_debt + size \in Nat /\ p.config.padding \in Nat
  BY <1>0, PacerFields
<1>2. PICK pd : pd = Capped(p.padding_debt + size, p.config.padding)
  OBVIOUS
<1>3. pd \in Nat /\ (p.config.padding # 0 => pd <= p.config.padding * MaxDebtInTime)
  BY <1>1, <1>2, CappedFacts, Zenon
<1>4. UpdateBudgetWithSentPadding(p, size) =
        PacerOf(p.config, p.video, p.rtx, p.last_sent, p.media_debt, pd)
  BY <1>1, <1>2 DEF UpdateBudgetWithSentPadding, PacerOf
<1>5. PacerOK(PacerOf(p.config, p.video, p.rtx, p.last_sent, p.media_debt, pd))
  BY <1>0, <1>3, PacerFields DEF PacerOK, Bounded, Unsent, PacerOf, Pacers
<1> QED BY <1>4, <1>5 DEF PacerOf

\* Bringing the debts up to date to a time that has come makes the next send time that
\* time, or leaves it.
LEMMA BudgetTimeFacts ==
    ASSUME NEW p, PacerOK(p), NEW now \in -MaxDebtInTime..0
    PROVE  /\ PacerOK(UpdateBudgetWithTime(p, now))
           /\ UpdateBudgetWithTime(p, now).config = p.config
           /\ UpdateBudgetWithTime(p, now).video = p.video
           /\ UpdateBudgetWithTime(p, now).rtx = p.rtx
           /\ UpdateBudgetWithTime(p, now).last_sent # None
           /\ NextSendTime(p, 0) # None /\ NextSendTime(p, 0) <= 0
                 => /\ NextSendTime(UpdateBudgetWithTime(p, now), 0) # None
                    /\ NextSendTime(UpdateBudgetWithTime(p, now), 0) <= 0
<1>0. p \in Pacers /\ Bounded(p) /\ Unsent(p) /\ now \in Int /\ now <= 0 /\ MaxDebtInTime \in Nat
  BY PacerAssumption DEF PacerOK
<1>1. /\ p = PacerOf(p.config, p.video, p.rtx, p.last_sent, p.media_debt, p.padding_debt)
      /\ p.config.media \in Nat /\ p.config.padding \in Nat
      /\ p.media_debt \in Nat /\ p.padding_debt \in Nat
      /\ p.last_sent \in (-MaxDebtInTime..0) \cup {None}
  BY <1>0, PacerFields
<1>2. CASE p.last_sent = None
  <2>1. UpdateBudgetWithTime(p, now) =
          PacerOf(p.config, p.video, p.rtx, now, p.media_debt, p.padding_debt)
    BY <1>1, <1>2 DEF UpdateBudgetWithTime, PacerOf
  <2>2. p.media_debt = 0 /\ p.padding_debt = 0
    BY <1>0, <1>2 DEF Unsent
  <2>3. \A b \in Nat \ {0} : 0 \div b = 0
    BY QuotientIs
  <2>4. PacerOK(PacerOf(p.config, p.video, p.rtx, now, p.media_debt, p.padding_debt))
    BY <1>0, PacerFields, PacerAssumption, Zenon DEF PacerOK, Bounded, Unsent, PacerOf, Pacers
  <2>5. PICK q : q = UpdateBudgetWithTime(p, now)
    OBVIOUS
  <2>6. /\ q.config = p.config /\ q.video = p.video /\ q.rtx = p.rtx /\ q.last_sent = now
        /\ q.media_debt = 0 /\ q.padding_debt = 0
    BY <2>1, <2>2, <2>5 DEF PacerOf
  <2>7. p.config.media # 0 => q.media_debt \div p.config.media = 0
    BY <1>1, <2>3, <2>6
  <2>8. p.config.padding # 0 => q.padding_debt \div p.config.padding = 0
    BY <1>1, <2>3, <2>6
  <2>9. NextMediaSendTime(p, 0) # None =>
          NextMediaSendTime(q, 0) # None /\ NextMediaSendTime(q, 0) <= 0
    BY <1>0, <1>1, <2>6, <2>7, PacerAssumption DEF NextMediaSendTime
  <2>10. NextPaddingSendTime(p, 0) # None =>
          NextPaddingSendTime(q, 0) # None /\ NextPaddingSendTime(q, 0) <= 0
    BY <1>0, <1>1, <2>6, <2>7, <2>8, PacerAssumption, SMTT(30) DEF NextPaddingSendTime, Larger
  <2>11. NextSendTime(p, 0) # None => NextSendTime(q, 0) # None /\ NextSendTime(q, 0) <= 0
    BY <2>6, <2>9, <2>10 DEF NextSendTime, QueueIsEmpty
  <2> QED BY <1>0, <2>1, <2>4, <2>5, <2>6, <2>11, PacerAssumption
<1>3. CASE p.last_sent # None /\ now < p.last_sent
  <2>1. UpdateBudgetWithTime(p, now) = p
    BY <1>3 DEF UpdateBudgetWithTime
  <2> QED BY <1>3, <2>1
<1>4. CASE p.last_sent # None /\ ~(now < p.last_sent)
  <2>0. now - p.last_sent \in Nat /\ p.last_sent \in Int
    BY <1>0, <1>1, <1>4
  <2>1. PICK k : k = now - p.last_sent
    OBVIOUS
  <2>2. PICK md : md = Larger(0, p.media_debt - p.config.media * k)
    OBVIOUS
  <2>3. PICK pd : pd = Larger(0, p.padding_debt - p.config.padding * k)
    OBVIOUS
  <2>4. UpdateBudgetWithTime(p, now) = PacerOf(p.config, p.video, p.rtx, now, md, pd)
    BY <1>1, <1>4, <2>1, <2>2, <2>3, Zenon DEF UpdateBudgetWithTime, PacerOf
  <2>5. /\ md \in Nat /\ md <= p.media_debt
        /\ p.config.media # 0 =>
              md \div p.config.media = Larger(0, p.media_debt \div p.config.media - k)
    <3>1. CASE p.config.media = 0
      BY <1>1, <2>0, <2>1, <2>2, <3>1 DEF Larger
    <3>2. CASE p.config.media # 0
      BY <1>1, <2>0, <2>1, <2>2, <3>2, Decay, Zenon
    <3> QED BY <3>1, <3>2
  <2>6. /\ pd \in Nat /\ pd <= p.padding_debt
        /\ p.config.padding # 0 =>
              pd \div p.config.padding = Larger(0, p.padding_debt \div p.config.padding - k)
    <3>1. CASE p.config.padding = 0
      BY <1>1, <2>0, <2>1, <2>3, <3>1 DEF Larger
    <3>2. CASE p.config.padding # 0
      BY <1>1, <2>0, <2>1, <2>3, <3>2, Decay, Zenon
    <3> QED BY <3>1, <3>2
  <2>7. PacerOK(PacerOf(p.config, p.video, p.rtx, now, md, pd))
    <3>1. /\ p.config.media # 0 => md <= p.config.media * MaxDebtInTime
          /\ p.config.padding # 0 => pd <= p.config.padding * MaxDebtInTime
      BY <1>0, <1>1, <2>5, <2>6 DEF Bounded
    <3> QED BY <1>0, <2>5, <2>6, <3>1, PacerFields, PacerAssumption
            DEF PacerOK, Bounded, Unsent, PacerOf, Pacers
  <2>8. PICK q : q = UpdateBudgetWithTime(p, now)
    OBVIOUS
  <2>9. /\ q.config = p.config /\ q.video = p.video /\ q.rtx = p.rtx /\ q.last_sent = now
        /\ q.media_debt = md /\ q.padding_debt = pd
    BY <2>4, <2>8 DEF PacerOf
  <2>10. /\ p.config.media # 0 => p.media_debt \div p.config.media \in Nat
         /\ p.config.padding # 0 => p.padding_debt \div p.config.padding \in Nat
    BY <1>1, Quotient
  <2>11. NextMediaSendTime(p, 0) # None /\ NextMediaSendTime(p, 0) <= 0 =>
          NextMediaSendTime(q, 0) # None /\ NextMediaSendTime(q, 0) <= 0
    BY <1>0, <1>1, <1>4, <2>0, <2>1, <2>5, <2>9, <2>10, PacerAssumption, SMTT(30)
    DEF NextMediaSendTime, Larger
  <2>12. NextPaddingSendTime(p, 0) # None /\ NextPaddingSendTime(p, 0) <= 0 =>
          NextPaddingSendTime(q, 0) # None /\ NextPaddingSendTime(q, 0) <= 0
    BY <1>0, <1>1, <1>4, <2>0, <2>1, <2>5, <2>6, <2>9, <2>10, PacerAssumption, SMTT(30)
    DEF NextPaddingSendTime, Larger
  <2>13. NextSendTime(p, 0) # None /\ NextSendTime(p, 0) <= 0
            => NextSendTime(q, 0) # None /\ NextSendTime(q, 0) <= 0
    BY <2>9, <2>11, <2>12 DEF NextSendTime, QueueIsEmpty
  <2> QED BY <1>0, <2>4, <2>7, <2>8, <2>9, <2>13, PacerAssumption
<1> QED BY <1>2, <1>3, <1>4
------------------------------------------------------------------------------
(* The operations of the pacer.                                            *)

LEMMA Rescheduled ==
    ASSUME NEW p, NEW times
    PROVE  FlowOK(p, With(times, NextSendTime(p, 0)))
BY DEF FlowOK, With

\* With the same configuration and debts the media time is the same, whatever is queued.
LEMMA SameMediaTime ==
    ASSUME NEW p, NEW q, q.config = p.config, q.last_sent = p.last_sent, q.media_debt = p.media_debt
    PROVE  NextMediaSendTime(q, 0) = NextMediaSendTime(p, 0)
BY DEF NextMediaSendTime

LEMMA SendNowFacts ==
    ASSUME NEW p, PacerOK(p), NEW packet, packet.kind \in {"video", "rtx"}
    PROVE  /\ PacerOK(SendNow(p, packet, 0).pacer)
           /\ SendNow(p, packet, 0).pacer.config = p.config
           /\ SendNow(p, packet, 0).pacer.video = p.video
           /\ SendNow(p, packet, 0).pacer.rtx = p.rtx
           /\ SendNow(p, packet, 0).packet = packet
           /\ SendNow(p, packet, 0).dequeue = NextSendTime(SendNow(p, packet, 0).pacer, 0)
<1>1. PICK u : u = UpdateBudgetWithTime(p, 0)
  OBVIOUS
<1>2. 0 \in -MaxDebtInTime..0
  BY PacerAssumption
<1>3. PacerOK(u) /\ u.config = p.config /\ u.video = p.video /\ u.rtx = p.rtx /\ u.last_sent # None
  BY <1>1, <1>2, BudgetTimeFacts
<1>4. SizeOf[packet.kind] \in Nat
  BY PacerAssumption
<1>5. PICK q : q = UpdateBudgetWithSentData(u, SizeOf[packet.kind])
  OBVIOUS
<1>6. PacerOK(q) /\ q.config = u.config /\ q.video = u.video /\ q.rtx = u.rtx
  BY <1>3, <1>4, <1>5, SentDataFacts DEF PacerOK
<1>7. SendNow(p, packet, 0) = [pacer |-> q, packet |-> packet, dequeue |-> NextSendTime(q, 0)]
  BY <1>1, <1>5 DEF SendNow, Result
<1> QED BY <1>3, <1>6, <1>7

LEMMA PushFacts ==
    ASSUME NEW p, PacerOK(p), NEW kind \in {"video", "rtx"}, NEW packet \in QueuePackets(kind)
    PROVE  /\ PacerOK(Push(p, packet))
           /\ Push(p, packet).config = p.config
           /\ Push(p, packet).last_sent = p.last_sent
           /\ Push(p, packet).media_debt = p.media_debt
           /\ ~QueueIsEmpty(Push(p, packet))
           /\ kind = "video" => /\ Push(p, packet).rtx = p.rtx
                                /\ Push(p, packet).video = Append(p.video, packet)
           /\ kind = "rtx" => /\ Push(p, packet).rtx = Append(p.rtx, packet)
                              /\ Push(p, packet).video = p.video
<1>0. p \in Pacers /\ Bounded(p) /\ Unsent(p)
  BY DEF PacerOK
<1>1. /\ p = PacerOf(p.config, p.video, p.rtx, p.last_sent, p.media_debt, p.padding_debt)
      /\ p.video \in Seq(QueuePackets("video")) /\ p.rtx \in Seq(QueuePackets("rtx"))
  BY <1>0, PacerFields
<1>2. packet.kind = kind
  BY DEF QueuePackets
<1>3. CASE kind = "rtx"
  <2>1. Push(p, packet) = PacerOf(p.config, p.video, Append(p.rtx, packet), p.last_sent,
                                  p.media_debt, p.padding_debt)
    BY <1>1, <1>2, <1>3, Zenon DEF Push, PacerOf
  <2>2. /\ Append(p.rtx, packet) \in Seq(QueuePackets("rtx")) /\ Append(p.rtx, packet) # <<>>
    BY <1>1, <1>3, AppendIs
  <2>3. PICK rtx : rtx = Append(p.rtx, packet)
    BY Zenon
  <2>4. PacerOK(PacerOf(p.config, p.video, rtx, p.last_sent, p.media_debt, p.padding_debt))
    BY <1>0, <2>2, <2>3, PacerFields, Zenon DEF PacerOK, Bounded, Unsent, PacerOf, Pacers
  <2> QED BY <1>3, <2>1, <2>2, <2>3, <2>4, SMTT(30) DEF PacerOf, QueueIsEmpty
<1>4. CASE kind = "video"
  <2>1. Push(p, packet) = PacerOf(p.config, Append(p.video, packet), p.rtx, p.last_sent,
                                  p.media_debt, p.padding_debt)
    BY <1>1, <1>2, <1>4, Zenon DEF Push, PacerOf
  <2>2. /\ Append(p.video, packet) \in Seq(QueuePackets("video")) /\ Append(p.video, packet) # <<>>
    BY <1>1, <1>4, AppendIs
  <2>3. PICK video : video = Append(p.video, packet)
    BY Zenon
  <2>4. PacerOK(PacerOf(p.config, video, p.rtx, p.last_sent, p.media_debt, p.padding_debt))
    BY <1>0, <2>2, <2>3, PacerFields, Zenon DEF PacerOK, Bounded, Unsent, PacerOf, Pacers
  <2> QED BY <1>4, <2>1, <2>2, <2>3, <2>4, SMTT(30) DEF PacerOf, QueueIsEmpty
<1> QED BY <1>3, <1>4

LEMMA EnqueueFacts ==
    ASSUME NEW p, PacerOK(p), NEW kind \in {"video", "rtx"}, NEW packet \in QueuePackets(kind),
           NEW times
    PROVE  /\ PacerOK(Enqueue(p, packet, 0).pacer)
           /\ Enqueue(p, packet, 0).dequeue \in Int \cup {None}
           /\ \/ Enqueue(p, packet, 0).dequeue = None
              \/ Enqueue(p, packet, 0).dequeue = NextSendTime(Enqueue(p, packet, 0).pacer, 0)
           /\ FlowOK(p, times)
                => FlowOK(Enqueue(p, packet, 0).pacer, With(times, Enqueue(p, packet, 0).dequeue))
           /\ \/ /\ Enqueue(p, packet, 0).packet = None
                 /\ Enqueue(p, packet, 0).pacer = Push(p, packet)
              \/ /\ Enqueue(p, packet, 0).packet = packet
                 /\ Enqueue(p, packet, 0).pacer.video = p.video
                 /\ Enqueue(p, packet, 0).pacer.rtx = p.rtx
<1>0. packet.kind \in {"video", "rtx"}
  BY DEF QueuePackets
<1>1. PICK q : q = Push(p, packet)
  OBVIOUS
<1>2. /\ PacerOK(q) /\ q \in Pacers /\ ~QueueIsEmpty(q)
      /\ NextMediaSendTime(q, 0) = NextMediaSendTime(p, 0)
  BY <1>1, PushFacts, SameMediaTime DEF PacerOK
<1>3. CASE ~QueueIsEmpty(p)
  <2>1. Enqueue(p, packet, 0) = [pacer |-> q, packet |-> None, dequeue |-> None]
    BY <1>1, <1>3 DEF Enqueue, Result
  <2>2. NextSendTime(q, 0) = NextSendTime(p, 0) /\ CouldSend(p)
    BY <1>2, <1>3 DEF NextSendTime, CouldSend
  <2>3. FlowOK(p, times) => FlowOK(q, With(times, None))
    BY <2>2 DEF FlowOK, With
  <2> QED BY <1>1, <1>2, <2>1, <2>3, SMTT(30)
<1>4. CASE QueueIsEmpty(p) /\ PastSendTime(NextMediaSendTime(p, 0), 0)
  <2>1. Enqueue(p, packet, 0) = SendNow(p, packet, 0)
    BY <1>4 DEF Enqueue
  <2>2. PICK r : r = SendNow(p, packet, 0)
    OBVIOUS
  <2>3. /\ PacerOK(r.pacer) /\ r.pacer.video = p.video /\ r.pacer.rtx = p.rtx
        /\ r.packet = packet /\ r.dequeue = NextSendTime(r.pacer, 0)
    BY <1>0, <2>2, SendNowFacts, SMTT(30)
  <2>4. r.dequeue \in Int \cup {None}
    BY <2>3, SendTimes DEF PacerOK
  <2>5. FlowOK(r.pacer, With(times, r.dequeue))
    BY <2>3, Rescheduled
  <2> QED BY <2>1, <2>2, <2>3, <2>4, <2>5
<1>5. CASE QueueIsEmpty(p) /\ ~PastSendTime(NextMediaSendTime(p, 0), 0)
  <2>1. Enqueue(p, packet, 0) = [pacer |-> q, packet |-> None, dequeue |-> NextSendTime(q, 0)]
    BY <1>1, <1>5 DEF Enqueue, Result
  <2>2. FlowOK(q, With(times, NextSendTime(q, 0)))
    BY Rescheduled
  <2>3. NextSendTime(q, 0) \in Int \cup {None}
    BY <1>2, SendTimes
  <2> QED BY <1>1, <1>2, <2>1, <2>2, <2>3, SMTT(30)
<1> QED BY <1>3, <1>4, <1>5

\* pop_queue drops expired packets only.
LEMMA LiveFacts ==
    ASSUME LeastElements, NEW kind, NEW queue \in Seq(QueuePackets(kind))
    PROVE  /\ Live(queue, 0) \in Seq(QueuePackets(kind))
           /\ \A i \in DOMAIN queue : queue[i].deadline >= 0 =>
                 \E j \in DOMAIN Live(queue, 0) : Live(queue, 0)[j] = queue[i]
<1> DEFINE fresh == {i \in DOMAIN queue : ~PastDeadline(queue[i], 0)}
           first == CHOOSE i \in fresh : \A j \in fresh : i <= j
<1>0. /\ Len(queue) \in Nat /\ DOMAIN queue = 1..Len(queue)
      /\ \A i \in 1..Len(queue) : queue[i] \in QueuePackets(kind)
  OBVIOUS
<1>1. \A i \in DOMAIN queue : queue[i].deadline >= 0 => i \in fresh
  BY <1>0, PacerAssumption DEF PastDeadline, QueuePackets
<1>2. Live(queue, 0) = IF fresh = {} THEN <<>> ELSE SubSeq(queue, first, Len(queue))
  BY DEF Live
<1>3. fresh \in SUBSET Nat /\ fresh \subseteq 1..Len(queue)
  BY <1>0
<1> HIDE DEF fresh
<1>4. CASE fresh = {}
  <2>1. Live(queue, 0) = <<>>
    BY <1>2, <1>4, Zenon
  <2>2. <<>> \in Seq(QueuePackets(kind))
    OBVIOUS
  <2>3. \A i \in DOMAIN queue : ~(queue[i].deadline >= 0)
    BY <1>1, <1>4
  <2> QED BY <2>1, <2>2, <2>3, Zenon
<1>5. CASE fresh # {}
  <2>1. \E i \in fresh : \A j \in fresh : i <= j
    BY <1>3, <1>5 DEF LeastElements
  <2>2. first \in fresh /\ \A j \in fresh : first <= j
    BY <2>1
  <2> HIDE DEF first
  <2>3. Live(queue, 0) = SubSeq(queue, first, Len(queue))
    BY <1>2, <1>5, Zenon
  <2>4. first \in 1..Len(queue)
    BY <1>3, <2>2
  <2>5. \A i \in first..Len(queue) : queue[i] \in QueuePackets(kind)
    BY <1>0, <2>4
  <2>6. PICK live : live = SubSeq(queue, first, Len(queue))
    BY Zenon
  <2>7. first \in Int /\ Len(queue) \in Int /\ first <= Len(queue)
    BY <1>0, <2>4
  <2>8. /\ Len(live) = Len(queue) - first + 1 /\ live \in Seq(QueuePackets(kind))
        /\ \A j \in 1..(Len(queue) - first + 1) : live[j] = queue[first + j - 1]
    BY <2>4, <2>6, SuffixIs
  <2>9. ASSUME NEW i \in DOMAIN queue, queue[i].deadline >= 0
        PROVE  \E j \in DOMAIN live : live[j] = queue[i]
    <3>1. first <= i
      BY <1>1, <2>2, <2>9
    <3>2. i - first + 1 \in 1..(Len(queue) - first + 1) /\ first + (i - first + 1) - 1 = i
      BY <1>0, <2>4, <3>1
    <3>3. i - first + 1 \in DOMAIN live
      BY <2>8, <3>2
    <3> QED BY <2>8, <3>2, <3>3
  <2> QED BY <2>3, <2>6, <2>8, <2>9, Zenon
<1> QED BY <1>4, <1>5

\* Padding, or the end of a dequeue that found nothing to send.
LEMMA DequeuePaddingFacts ==
    ASSUME NEW p, PacerOK(p), QueueIsEmpty(p), NEW was_empty \in BOOLEAN, NEW padding, NEW times,
           NEW t0 \in Int, t0 <= 0
    PROVE  /\ PacerOK(DequeuePadding(p, was_empty, padding, 0).pacer)
           /\ DequeuePadding(p, was_empty, padding, 0).dequeue \in Int \cup {None}
           /\ (was_empty => FlowOK(p, times \cup {t0})) =>
                 FlowOK(DequeuePadding(p, was_empty, padding, 0).pacer,
                        With(times, DequeuePadding(p, was_empty, padding, 0).dequeue))
           /\ DequeuePadding(p, was_empty, padding, 0).packet \in {None, padding}
           /\ DequeuePadding(p, was_empty, padding, 0).pacer.rtx = p.rtx
<1>0. /\ p \in Pacers /\ NextSendTime(p, 0) \in Int \cup {None}
      /\ NextSendTime(p, 0) = NextPaddingSendTime(p, 0)
  BY SendTimes DEF PacerOK, NextSendTime
<1>1. CASE p.config.padding_ssrc = None
  <2>1. DequeuePadding(p, was_empty, padding, 0) = [pacer |-> p, packet |-> None, dequeue |-> None]
    BY <1>1 DEF DequeuePadding, Result
  <2>2. FlowOK(p, With(times, None))
    BY <1>1 DEF FlowOK, CouldSend
  <2> QED BY <2>1, <2>2, SMTT(30)
<1>2. CASE p.config.padding_ssrc # None /\ PastSendTime(NextPaddingSendTime(p, 0), 0)
  <2>1. PICK u : u = UpdateBudgetWithTime(p, 0)
    OBVIOUS
  <2>2. PICK q : q = UpdateBudgetWithSentPadding(u, SizeOf["padding"])
    OBVIOUS
  <2>3. PacerOK(u) /\ u.rtx = p.rtx /\ u.last_sent # None
    <3>1. 0 \in -MaxDebtInTime..0
      BY PacerAssumption
    <3> QED BY <2>1, <3>1, BudgetTimeFacts
  <2>4. PacerOK(q) /\ q.rtx = u.rtx
    <3>1. SizeOf["padding"] \in Nat
      BY PacerAssumption
    <3> QED BY <2>2, <2>3, <3>1, SentPaddingFacts
  <2>5. DequeuePadding(p, was_empty, padding, 0) =
          [pacer |-> q, packet |-> padding, dequeue |-> NextSendTime(q, 0)]
    BY <1>2, <2>1, <2>2, Zenon DEF DequeuePadding, Result
  <2>6. FlowOK(q, With(times, NextSendTime(q, 0)))
    BY Rescheduled
  <2>7. NextSendTime(q, 0) \in Int \cup {None}
    BY <2>4, SendTimes DEF PacerOK
  <2> QED BY <2>3, <2>4, <2>5, <2>6, <2>7, SMTT(30)
<1>3. CASE p.config.padding_ssrc # None /\ ~PastSendTime(NextPaddingSendTime(p, 0), 0)
  <2>1. DequeuePadding(p, was_empty, padding, 0) =
          [pacer |-> p, packet |-> None, dequeue |-> IF was_empty THEN None ELSE NextSendTime(p, 0)]
    BY <1>3 DEF DequeuePadding, Result
  <2>2. CASE was_empty
    <3>1. FlowOK(p, times \cup {t0}) => FlowOK(p, With(times, None))
      BY <1>0, <1>3 DEF FlowOK, PastSendTime, With
    <3>2. DequeuePadding(p, was_empty, padding, 0) = [pacer |-> p, packet |-> None, dequeue |-> None]
      BY <2>1, <2>2, Zenon
    <3>3. (was_empty => FlowOK(p, times \cup {t0})) => FlowOK(p, With(times, None))
      BY <2>2, <3>1
    <3> QED BY <3>2, <3>3, SMTT(30)
  <2>3. CASE ~was_empty
    <3>1. FlowOK(p, With(times, NextSendTime(p, 0)))
      BY Rescheduled
    <3>2. DequeuePadding(p, was_empty, padding, 0) =
            [pacer |-> p, packet |-> None, dequeue |-> NextSendTime(p, 0)]
      BY <2>1, <2>3
    <3> QED BY <1>0, <3>1, <3>2, SMTT(30)
  <2> QED BY <2>2, <2>3
<1> QED BY <1>1, <1>2, <1>3, Zenon

LEMMA NewQueues ==
    ASSUME NEW p, PacerOK(p), NEW rtx \in Seq(QueuePackets("rtx")),
           NEW video \in Seq(QueuePackets("video"))
    PROVE  /\ PacerOK([p EXCEPT !.rtx = rtx, !.video = video])
           /\ [p EXCEPT !.rtx = rtx, !.video = video].rtx = rtx
           /\ [p EXCEPT !.rtx = rtx, !.video = video].video = video
           /\ PacerOK([p EXCEPT !.rtx = rtx])
           /\ [p EXCEPT !.rtx = rtx].rtx = rtx
<1>0. p \in Pacers /\ Bounded(p) /\ Unsent(p) /\ p.video \in Seq(QueuePackets("video"))
  BY PacerFields DEF PacerOK
<1>1. p = PacerOf(p.config, p.video, p.rtx, p.last_sent, p.media_debt, p.padding_debt)
  BY <1>0, PacerFields
<1>2. PICK u : u = [p EXCEPT !.rtx = rtx]
  BY Zenon
<1>3. u = PacerOf(p.config, p.video, rtx, p.last_sent, p.media_debt, p.padding_debt)
  BY <1>1, <1>2 DEF PacerOf
<1>4. PICK q : q = [u EXCEPT !.video = video]
  BY Zenon
<1>5. q = PacerOf(p.config, video, rtx, p.last_sent, p.media_debt, p.padding_debt)
  BY <1>3, <1>4 DEF PacerOf
<1>6. [p EXCEPT !.rtx = rtx, !.video = video] = [[p EXCEPT !.rtx = rtx] EXCEPT !.video = video]
  OBVIOUS
<1>7. [p EXCEPT !.rtx = rtx, !.video = video] = q
  BY <1>2, <1>4, <1>6
<1>8. PacerOK(q)
  BY <1>0, <1>5, PacerFields, Zenon DEF PacerOK, Bounded, Unsent, PacerOf, Pacers
<1>9. PacerOK(u)
  BY <1>0, <1>3, PacerFields, Zenon DEF PacerOK, Bounded, Unsent, PacerOf, Pacers
<1>10. q.rtx = rtx /\ q.video = video /\ u.rtx = rtx
  BY <1>3, <1>5 DEF PacerOf
<1> QED BY <1>2, <1>7, <1>8, <1>9, <1>10, Zenon

\* What a dequeue leaves of the retransmissions: all that are not expired and not of the
\* number that was sent.
Leaves(p, packet, rtx) ==
    \A i \in DOMAIN p.rtx :
        p.rtx[i].deadline >= 0 /\ ~(packet # None /\ packet.kind = "rtx"
                                      /\ packet.seqnum = p.rtx[i].seqnum)
        => \E j \in DOMAIN rtx : rtx[j] = p.rtx[i]

LEMMA DequeueFacts ==
    ASSUME LeastElements, NEW p, PacerOK(p), NEW padding, padding.kind = "padding", NEW times,
           NEW t0 \in Int, t0 <= 0
    PROVE  /\ PacerOK(Dequeue(p, padding, 0).pacer)
           /\ Dequeue(p, padding, 0).dequeue \in Int \cup {None}
           /\ FlowOK(p, times \cup {t0})
                => FlowOK(Dequeue(p, padding, 0).pacer, With(times, Dequeue(p, padding, 0).dequeue))
           /\ Dequeue(p, padding, 0).packet
                 \in {None, padding} \cup QueuePackets("rtx") \cup QueuePackets("video")
           /\ Leaves(p, Dequeue(p, padding, 0).packet, Dequeue(p, padding, 0).pacer.rtx)
<1>0. /\ p \in Pacers /\ NextSendTime(p, 0) \in Int \cup {None}
      /\ p.rtx \in Seq(QueuePackets("rtx")) /\ p.video \in Seq(QueuePackets("video"))
  BY PacerFields, SendTimes DEF PacerOK
<1>1. PICK rtx : rtx = Live(p.rtx, 0)
  OBVIOUS
<1>2. PICK video : video = Live(p.video, 0)
  OBVIOUS
<1>3. /\ rtx \in Seq(QueuePackets("rtx"))
      /\ \A i \in DOMAIN p.rtx : p.rtx[i].deadline >= 0 => \E j \in DOMAIN rtx : rtx[j] = p.rtx[i]
  BY <1>0, <1>1, LiveFacts
<1>4. video \in Seq(QueuePackets("video"))
  BY <1>0, <1>2, LiveFacts
<1>5. CASE QueueIsEmpty(p)
  <2>1. Dequeue(p, padding, 0) = DequeuePadding(p, TRUE, padding, 0)
    BY <1>5 DEF Dequeue
  <2>2. ASSUME NEW packet PROVE Leaves(p, packet, p.rtx)
    BY <1>5 DEF Leaves, QueueIsEmpty
  <2>3. PICK r : r = DequeuePadding(p, TRUE, padding, 0)
    BY Zenon
  <2>4. /\ FlowOK(p, times \cup {t0}) => FlowOK(r.pacer, With(times, r.dequeue))
        /\ PacerOK(r.pacer) /\ r.dequeue \in Int \cup {None} /\ r.packet \in {None, padding}
        /\ r.pacer.rtx = p.rtx
    BY <1>5, <2>3, DequeuePaddingFacts, Zenon
  <2> QED BY <2>1, <2>2, <2>3, <2>4, Zenon
<1>6. CASE ~QueueIsEmpty(p) /\ ~PastSendTime(NextMediaSendTime(p, 0), 0)
  <2>1. Dequeue(p, padding, 0) = [pacer |-> p, packet |-> None, dequeue |-> None]
    BY <1>6 DEF Dequeue, Result
  <2>2. FlowOK(p, times \cup {t0}) => FlowOK(p, With(times, None))
    BY <1>0, <1>6 DEF FlowOK, With, PastSendTime, NextSendTime
  <2>3. Leaves(p, None, p.rtx)
    BY DEF Leaves
  <2> QED BY <2>1, <2>2, <2>3, SMTT(30)
<1>7. CASE /\ ~QueueIsEmpty(p) /\ PastSendTime(NextMediaSendTime(p, 0), 0) /\ rtx # <<>>
  <2>1. PICK q : q = [p EXCEPT !.rtx = Tail(rtx)]
    BY Zenon
  <2>2. /\ Head(rtx) \in QueuePackets("rtx") /\ Tail(rtx) \in Seq(QueuePackets("rtx"))
        /\ Len(Tail(rtx)) = Len(rtx) - 1
        /\ \A i \in 1..Len(Tail(rtx)) : Tail(rtx)[i] = rtx[i + 1]
    BY <1>3, <1>7, HeadTailAre, Zenon
  <2>3. PacerOK(q) /\ q.rtx = Tail(rtx)
    BY <1>0, <2>1, <2>2, NewQueues, Zenon
  <2>4. Dequeue(p, padding, 0) = SendNow(q, Head(rtx), 0)
    BY <1>1, <1>7, <2>1 DEF Dequeue
  <2>5. Head(rtx).kind = "rtx"
    BY <2>2 DEF QueuePackets
  <2>6. PICK r : r = SendNow(q, Head(rtx), 0)
    OBVIOUS
  <2>7. /\ PacerOK(r.pacer) /\ r.pacer.rtx = Tail(rtx) /\ r.packet = Head(rtx)
        /\ r.dequeue = NextSendTime(r.pacer, 0)
    BY <2>3, <2>5, <2>6, SendNowFacts
  <2>8. FlowOK(r.pacer, With(times, r.dequeue)) /\ r.dequeue \in Int \cup {None}
    BY <2>7, Rescheduled, SendTimes DEF PacerOK
  <2>9. Leaves(p, Head(rtx), Tail(rtx))
    <3> SUFFICES ASSUME NEW i \in DOMAIN p.rtx, p.rtx[i].deadline >= 0,
                        ~(Head(rtx) # None /\ Head(rtx).kind = "rtx"
                            /\ Head(rtx).seqnum = p.rtx[i].seqnum)
                 PROVE  \E j \in DOMAIN Tail(rtx) : Tail(rtx)[j] = p.rtx[i]
      BY DEF Leaves
    <3>1. Head(rtx) # None
      BY <2>2, NoneAssumption DEF QueuePackets
    <3>2. PICK j \in DOMAIN rtx : rtx[j] = p.rtx[i]
      BY <1>3
    <3>3. Head(rtx) = rtx[1] /\ DOMAIN rtx = 1..Len(rtx) /\ Len(rtx) \in Nat
      BY <1>3, <1>7
    <3>4. j # 1
      BY <2>5, <3>1, <3>2, <3>3
    <3>5. j - 1 \in 1..Len(Tail(rtx)) /\ Tail(rtx)[j - 1] = rtx[j]
      BY <2>2, <3>3, <3>4
    <3>6. DOMAIN Tail(rtx) = 1..Len(Tail(rtx))
      BY <2>2
    <3> QED BY <3>2, <3>5, <3>6
  <2> QED BY <2>2, <2>4, <2>6, <2>7, <2>8, <2>9, Zenon
<1>8. ASSUME rtx = <<>> PROVE \A i \in DOMAIN p.rtx : ~(p.rtx[i].deadline >= 0)
  BY <1>3, <1>8
<1>9. CASE /\ ~QueueIsEmpty(p) /\ PastSendTime(NextMediaSendTime(p, 0), 0)
           /\ rtx = <<>> /\ video # <<>>
  <2>1. PICK q : q = [p EXCEPT !.rtx = <<>>, !.video = Tail(video)]
    OBVIOUS
  <2>2. Head(video) \in QueuePackets("video") /\ Tail(video) \in Seq(QueuePackets("video"))
    BY <1>4, <1>9, HeadTailAre
  <2>3. PacerOK(q)
    BY <1>9, <1>3, <2>1, <2>2, NewQueues, Zenon
  <2>4. Dequeue(p, padding, 0) = SendNow(q, Head(video), 0)
    BY <1>1, <1>2, <1>9, <2>1 DEF Dequeue
  <2>5. Head(video).kind = "video"
    BY <2>2 DEF QueuePackets
  <2>6. PICK r : r = SendNow(q, Head(video), 0)
    OBVIOUS
  <2>7. PacerOK(r.pacer) /\ r.packet = Head(video) /\ r.dequeue = NextSendTime(r.pacer, 0)
    BY <2>3, <2>5, <2>6, SendNowFacts, SMTT(30)
  <2>8. FlowOK(r.pacer, With(times, r.dequeue)) /\ r.dequeue \in Int \cup {None}
    BY <2>7, Rescheduled, SendTimes DEF PacerOK
  <2>9. Leaves(p, r.packet, r.pacer.rtx)
    BY <1>8, <1>9 DEF Leaves
  <2> QED BY <2>2, <2>4, <2>6, <2>7, <2>8, <2>9
<1>10. CASE /\ ~QueueIsEmpty(p) /\ PastSendTime(NextMediaSendTime(p, 0), 0)
            /\ rtx = <<>> /\ video = <<>>
  <2>1. PICK q : q = [p EXCEPT !.rtx = <<>>, !.video = <<>>]
    OBVIOUS
  <2>2. PICK none : none = <<>>
    OBVIOUS
  <2>3. PacerOK(q) /\ q.rtx = <<>> /\ q.video = <<>>
    <3>1. none \in Seq(QueuePackets("rtx")) /\ none \in Seq(QueuePackets("video"))
      BY <2>2
    <3>2. q = [p EXCEPT !.rtx = none, !.video = none]
      BY <2>1, <2>2
    <3>3. PacerOK([p EXCEPT !.rtx = none, !.video = none])
      BY <3>1, NewQueues, Zenon
    <3>4. p = PacerOf(p.config, p.video, p.rtx, p.last_sent, p.media_debt, p.padding_debt)
      BY <1>0, PacerFields
    <3>5. q.rtx = none /\ q.video = none
      BY <3>2, <3>4 DEF PacerOf
    <3> QED BY <2>2, <3>2, <3>3, <3>5
  <2>4. QueueIsEmpty(q)
    BY <2>3 DEF QueueIsEmpty
  <2>5. Dequeue(p, padding, 0) = DequeuePadding(q, FALSE, padding, 0)
    BY <1>1, <1>2, <1>10, <2>1, Zenon DEF Dequeue
  <2>6. PICK r : r = DequeuePadding(q, FALSE, padding, 0)
    BY Zenon
  <2>7. /\ PacerOK(r.pacer) /\ r.dequeue \in Int \cup {None} /\ r.packet \in {None, padding}
        /\ FlowOK(r.pacer, With(times, r.dequeue))
    BY <2>3, <2>4, <2>6, DequeuePaddingFacts, Zenon
  <2>8. Leaves(p, r.packet, r.pacer.rtx)
    BY <1>8, <1>10, Zenon DEF Leaves
  <2> QED BY <2>5, <2>6, <2>7, <2>8, Zenon
<1> QED BY <1>5, <1>6, <1>7, <1>9, <1>10, Zenon

LEMMA SetConfigFacts ==
    ASSUME NEW p, PacerOK(p), NEW config \in Configs, NEW times
    PROVE  /\ PacerOK(SetConfig(p, config, 0).pacer)
           /\ SetConfig(p, config, 0).dequeue \in Int \cup {None}
           /\ FlowOK(SetConfig(p, config, 0).pacer, With(times, SetConfig(p, config, 0).dequeue))
           /\ SetConfig(p, config, 0).pacer.rtx = p.rtx
<1>0. p \in Pacers /\ Bounded(p) /\ Unsent(p)
  BY DEF PacerOK
<1>1. PICK old : old = NextSendTime(p, 0)
  OBVIOUS
<1>2. PICK c : c = [p EXCEPT !.config = config]
  BY Zenon
<1>3. c \in Pacers /\ Unsent(c) /\ c.rtx = p.rtx
  <2>1. p = PacerOf(p.config, p.video, p.rtx, p.last_sent, p.media_debt, p.padding_debt)
    BY <1>0, PacerFields
  <2>2. c = PacerOf(config, p.video, p.rtx, p.last_sent, p.media_debt, p.padding_debt)
    BY <1>2, <2>1 DEF PacerOf
  <2> QED BY <1>0, <2>2, PacerFields, Zenon DEF Unsent, PacerOf, Pacers
<1>4. PICK q : q = UpdateBudgetWithSentData(c, 0)
  OBVIOUS
<1>5. PacerOK(q) /\ q.rtx = p.rtx
  BY <1>3, <1>4, SentDataFacts
<1>6. PICK new : new = NextSendTime(q, 0)
  OBVIOUS
<1>7. old \in Int \cup {None} /\ new \in Int \cup {None} /\ 0 # None
  BY <1>0, <1>1, <1>5, <1>6, SendTimes, PacerAssumption DEF PacerOK
<1>8. ASSUME new # None, new <= 0, NEW now \in -MaxDebtInTime..0
      PROVE  /\ PacerOK(UpdateBudgetWithTime(q, now)) /\ UpdateBudgetWithTime(q, now).rtx = p.rtx
             /\ FlowOK(UpdateBudgetWithTime(q, now), With(times, 0))
  <2>1. PICK u : u = UpdateBudgetWithTime(q, now)
    OBVIOUS
  <2>2. PacerOK(u) /\ u.rtx = p.rtx /\ NextSendTime(u, 0) <= 0
    BY <1>5, <1>6, <1>8, <2>1, BudgetTimeFacts
  <2>3. FlowOK(u, With(times, 0))
    BY <1>7, <2>2 DEF FlowOK, With
  <2> QED BY <2>1, <2>2, <2>3
<1>9. FlowOK(q, With(times, new))
  BY <1>6, Rescheduled
<1>10. 0 \in -MaxDebtInTime..0
  BY PacerAssumption
<1>11. SetConfig(p, config, 0) =
        IF new = None THEN Result(q, None, None)
        ELSE IF old = None
        THEN IF new < 0 THEN Result(UpdateBudgetWithTime(q, 0), None, 0) ELSE Result(q, None, new)
        ELSE IF new <= 0
        THEN Result(UpdateBudgetWithTime(q, IF old > 0 THEN 0 ELSE old), None, 0)
        ELSE Result(q, None, new)
  BY <1>1, <1>2, <1>4, <1>6 DEF SetConfig
<1>12. CASE SetConfig(p, config, 0) = [pacer |-> q, packet |-> None, dequeue |-> new]
  BY <1>5, <1>7, <1>9, <1>12
<1>13. CASE new # None /\ old = None /\ new < 0
  <2>1. SetConfig(p, config, 0) =
          [pacer |-> UpdateBudgetWithTime(q, 0), packet |-> None, dequeue |-> 0]
    BY <1>11, <1>13 DEF Result
  <2> QED BY <1>7, <1>8, <1>10, <1>13, <2>1
<1>14. CASE new # None /\ old # None /\ new <= 0
  <2>1. PICK now : now = IF old > 0 THEN 0 ELSE old
    OBVIOUS
  <2>2. SetConfig(p, config, 0) =
          [pacer |-> UpdateBudgetWithTime(q, now), packet |-> None, dequeue |-> 0]
    BY <1>11, <1>14, <2>1 DEF Result
  <2>3. old >= -MaxDebtInTime
    BY <1>0, <1>1, <1>14, SendTimes
  <2>4. now \in -MaxDebtInTime..0
    BY <1>7, <1>14, <2>1, <2>3, PacerAssumption
  <2> QED BY <1>7, <1>8, <1>14, <2>2, <2>4
<1>15. CASE new # None /\ ~(old = None /\ new < 0) /\ ~(old # None /\ new <= 0)
  <2>1. SetConfig(p, config, 0) = [pacer |-> q, packet |-> None, dequeue |-> new]
    BY <1>7, <1>11, <1>15 DEF Result
  <2> QED BY <1>12, <2>1
<1>16. CASE new = None
  <2>1. SetConfig(p, config, 0) = [pacer |-> q, packet |-> None, dequeue |-> new]
    BY <1>11, <1>16, Zenon DEF Result
  <2> QED BY <1>12, <2>1
<1> QED BY <1>13, <1>14, <1>15, <1>16

\* What TimePasses does to the pacer.
Older(p) == [p EXCEPT !.video = Aged(@), !.rtx = Aged(@),
                      !.last_sent = Earlier(@, -MaxDebtInTime)]

LEMMA AgedFacts ==
    ASSUME NEW kind, NEW queue \in Seq(QueuePackets(kind))
    PROVE  /\ Aged(queue) \in Seq(QueuePackets(kind))
           /\ DOMAIN Aged(queue) = DOMAIN queue
           /\ Aged(queue) = <<>> <=> queue = <<>>
           /\ \A i \in DOMAIN queue :
                 /\ Aged(queue)[i].seqnum = queue[i].seqnum
                 /\ Aged(queue)[i].encrypted = queue[i].encrypted
                 /\ queue[i].deadline > 0 => Aged(queue)[i].deadline = queue[i].deadline - 1
<1>1. DOMAIN queue = 1..Len(queue) /\ Len(queue) \in Nat
  OBVIOUS
<1>2. ASSUME NEW i \in DOMAIN queue
      PROVE  /\ Aged(queue)[i] \in QueuePackets(kind)
             /\ Aged(queue)[i].seqnum = queue[i].seqnum
             /\ Aged(queue)[i].encrypted = queue[i].encrypted
             /\ queue[i].deadline > 0 => Aged(queue)[i].deadline = queue[i].deadline - 1
  <2>1. PICK q : q = queue[i]
    OBVIOUS
  <2>2. q \in QueuePackets(kind)
    BY <1>1, <2>1
  <2>3. /\ q \in Packets /\ q.kind = kind /\ q.seqnum \in Seqnums /\ q.deadline \in Int
        /\ q.deadline # None
    BY <2>2, PacerAssumption DEF QueuePackets
  <2>4. Aged(queue)[i] = [q EXCEPT !.deadline = Earlier(@, -1)]
    BY <2>1 DEF Aged
  <2>5. Earlier(q.deadline, -1) \in Int /\ (q.deadline > 0 => Earlier(q.deadline, -1) = q.deadline - 1)
    BY <2>3 DEF Earlier, Larger
  <2>6. PICK t : t = Earlier(q.deadline, -1)
    OBVIOUS
  <2>7. q = [kind |-> q.kind, seqnum |-> q.seqnum, header |-> q.header, deadline |-> q.deadline,
             encrypted |-> q.encrypted]
        /\ q.header \in Nat /\ q.encrypted \in BOOLEAN /\ q.seqnum \in Nat
        /\ q.kind \in {"video", "rtx", "padding"}
    BY <2>3 DEF Packets
  <2>8. Aged(queue)[i] = [kind |-> q.kind, seqnum |-> q.seqnum, header |-> q.header, deadline |-> t,
                          encrypted |-> q.encrypted]
    BY <2>4, <2>6, <2>7
  <2>9. Aged(queue)[i] \in Packets
    BY <2>5, <2>6, <2>7, <2>8 DEF Packets
  <2> QED BY <2>1, <2>3, <2>5, <2>6, <2>8, <2>9, SMTT(30) DEF QueuePackets
<1>3. Aged(queue) \in [1..Len(queue) -> QueuePackets(kind)]
  BY <1>1, <1>2, Zenon DEF Aged
<1>4. Aged(queue) \in Seq(QueuePackets(kind)) /\ DOMAIN Aged(queue) = DOMAIN queue
  BY <1>1, <1>3
<1>5. Aged(queue) = <<>> <=> queue = <<>>
  BY <1>1, <1>4
<1> QED BY <1>2, <1>4, <1>5

LEMMA OlderFacts ==
    ASSUME NEW p, PacerOK(p), NEW times \in SUBSET Int
    PROVE  /\ PacerOK(Older(p))
           /\ Older(p).rtx = Aged(p.rtx)
           /\ FlowOK(p, times) => FlowOK(Older(p), {t - 1 : t \in times})
<1>0. /\ p \in Pacers /\ Bounded(p) /\ Unsent(p)
      /\ p = PacerOf(p.config, p.video, p.rtx, p.last_sent, p.media_debt, p.padding_debt)
      /\ p.config.media \in Nat /\ p.config.padding \in Nat
      /\ p.media_debt \in Nat /\ p.padding_debt \in Nat
      /\ p.last_sent \in (-MaxDebtInTime..0) \cup {None}
      /\ MaxDebtInTime \in Nat /\ None \notin Int
  BY PacerFields, PacerAssumption DEF PacerOK
<1>1. PICK q : q = Older(p)
  OBVIOUS
<1>2. PICK l : l = Earlier(p.last_sent, -MaxDebtInTime)
  OBVIOUS
<1>3. q = PacerOf(p.config, Aged(p.video), Aged(p.rtx), l, p.media_debt, p.padding_debt)
  BY <1>0, <1>1, <1>2, Zenon DEF Older, PacerOf
<1>4. /\ p.last_sent = None => l = None
      /\ p.last_sent # None => /\ l \in Int /\ p.last_sent \in Int
                               /\ l >= -MaxDebtInTime /\ l <= 0
                               /\ l = p.last_sent - 1 \/ (l = -MaxDebtInTime /\ p.last_sent = l)
  BY <1>0, <1>2 DEF Earlier, Larger
<1>5. /\ q.config = p.config /\ q.video = Aged(p.video) /\ q.rtx = Aged(p.rtx)
      /\ q.last_sent = l /\ q.media_debt = p.media_debt /\ q.padding_debt = p.padding_debt
  BY <1>3 DEF PacerOf
<1>6. /\ Aged(p.video) \in Seq(QueuePackets("video")) /\ Aged(p.rtx) \in Seq(QueuePackets("rtx"))
      /\ Aged(p.video) = <<>> <=> p.video = <<>>
      /\ Aged(p.rtx) = <<>> <=> p.rtx = <<>>
  BY <1>0, PacerFields, AgedFacts
<1>7. PacerOK(q)
  <2>1. PICK v, r : v = Aged(p.video) /\ r = Aged(p.rtx)
    OBVIOUS
  <2>2. l \in (-MaxDebtInTime..0) \cup {None}
    BY <1>0, <1>4, SMTT(30)
  <2>3. q = PacerOf(p.config, v, r, l, p.media_debt, p.padding_debt)
    BY <1>3, <2>1, Zenon
  <2>4. q \in Pacers
    BY <1>0, <1>6, <2>1, <2>2, <2>3, PacerFields, Zenon DEF PacerOf, Pacers
  <2>5. Bounded(q) /\ Unsent(q)
    BY <1>0, <1>4, <1>5 DEF Bounded, Unsent
  <2> QED BY <2>4, <2>5 DEF PacerOK
<1>8. QueueIsEmpty(q) <=> QueueIsEmpty(p)
  BY <1>5, <1>6 DEF QueueIsEmpty
<1> DEFINE md == p.media_debt \div p.config.media
           pd == p.padding_debt \div p.config.padding
           Next1(last) == IF last = None THEN 0 ELSE last + md
           Next2(last) == IF last = None THEN 0 ELSE last + Larger(md, pd)
<1>9. /\ p.config.media # 0 => md \in Nat /\ md <= MaxDebtInTime
      /\ p.config.padding # 0 => pd \in Nat /\ pd <= MaxDebtInTime
  BY <1>0, PaidInTime, Zenon DEF Bounded
<1>10. /\ NextMediaSendTime(p, 0) = IF p.config.media = 0 THEN None ELSE Next1(p.last_sent)
       /\ NextMediaSendTime(q, 0) = IF p.config.media = 0 THEN None ELSE Next1(l)
       /\ NextPaddingSendTime(p, 0) =
            IF p.config.padding = 0 \/ p.config.media = 0 THEN None ELSE Next2(p.last_sent)
       /\ NextPaddingSendTime(q, 0) =
            IF p.config.padding = 0 \/ p.config.media = 0 THEN None ELSE Next2(l)
  BY <1>5, Zenon DEF NextMediaSendTime, NextPaddingSendTime
<1> HIDE DEF md, pd
<1>11. p.config.media # 0 =>
         /\ Next1(l) \in Int /\ Next1(p.last_sent) \in Int
         /\ Next1(l) = Next1(p.last_sent) - 1 \/ (Next1(l) <= 0 /\ Next1(p.last_sent) <= 0)
  BY <1>0, <1>4, <1>9
<1>12. p.config.media # 0 /\ p.config.padding # 0 =>
         /\ Next2(l) \in Int /\ Next2(p.last_sent) \in Int
         /\ Next2(l) = Next2(p.last_sent) - 1 \/ (Next2(l) <= 0 /\ Next2(p.last_sent) <= 0)
  BY <1>0, <1>4, <1>9, SMTT(30) DEF Larger
<1> HIDE DEF Next1, Next2
<1>13. /\ NextSendTime(q, 0) = None <=> NextSendTime(p, 0) = None
       /\ NextSendTime(p, 0) # None =>
            /\ NextSendTime(q, 0) \in Int /\ NextSendTime(p, 0) \in Int
            /\ \/ NextSendTime(q, 0) = NextSendTime(p, 0) - 1
               \/ NextSendTime(q, 0) <= 0 /\ NextSendTime(p, 0) <= 0
  BY <1>0, <1>8, <1>10, <1>11, <1>12, Zenon DEF NextSendTime
<1>14. CouldSend(q) <=> CouldSend(p)
  BY <1>5, <1>8 DEF CouldSend
<1>15. ASSUME FlowOK(p, times), CouldSend(q), NextSendTime(q, 0) # None
       PROVE  \E t \in {u - 1 : u \in times} :
                 t = NextSendTime(q, 0) \/ (NextSendTime(q, 0) <= 0 /\ t <= 0)
  <2>1. PICK t \in times : t = NextSendTime(p, 0) \/ (NextSendTime(p, 0) <= 0 /\ t <= 0)
    BY <1>13, <1>14, <1>15 DEF FlowOK
  <2>2. t - 1 \in {u - 1 : u \in times} /\ t \in Int
    OBVIOUS
  <2>3. t - 1 = NextSendTime(q, 0) \/ (NextSendTime(q, 0) <= 0 /\ t - 1 <= 0)
    BY <1>13, <1>15, <2>1, <2>2, SMTT(30)
  <2> QED BY <2>2, <2>3
<1>16. FlowOK(p, times) => FlowOK(q, {u - 1 : u \in times})
  BY <1>15 DEF FlowOK
<1> QED BY <1>1, <1>5, <1>7, <1>16
------------------------------------------------------------------------------
(* The sending half of the endpoint.                                       *)

SentPackets == [deadline : Nat, pending_retransmission : BOOLEAN]

EndpointOf(next_rtx, sent, encrypted) ==
    [next_rtx |-> next_rtx, sent |-> sent, encrypted |-> encrypted]

EndpointOK(e) ==
    /\ e = EndpointOf(e.next_rtx, e.sent, e.encrypted)
    /\ e.next_rtx \in 1..(MaxRtx + 1)
    /\ e.sent \in [DOMAIN e.sent -> SentPackets] /\ DOMAIN e.sent \subseteq Seqnums
    /\ e.encrypted \in Seq({"video", "rtx"} \X Nat)

\* Where the numbers that were used come from: numbers of video are those of packets that
\* were forwarded, numbers of the RTX stream have been counted.
Numbers(e, fwd) ==
    /\ IsInjective(e.encrypted)
    /\ \A i \in DOMAIN e.encrypted :
          /\ e.encrypted[i][1] = "video" => e.encrypted[i] \in fwd
          /\ e.encrypted[i][1] = "rtx" => e.encrypted[i][2] < e.next_rtx

\* What is marked as pending is in the queue, with the deadline that is remembered.
PendOK(e, rtx) ==
    \A n \in DOMAIN e.sent : e.sent[n].pending_retransmission =>
        \E i \in DOMAIN rtx : /\ rtx[i].seqnum = n /\ rtx[i].encrypted
                              /\ rtx[i].deadline = e.sent[n].deadline

\* A sequence stays free of repetitions when something new is appended.
LEMMA AppendNew ==
    ASSUME NEW S, NEW s \in Seq(S), NEW x \in S, IsInjective(s), \A i \in DOMAIN s : s[i] # x
    PROVE  IsInjective(Append(s, x))
<1>1. /\ Len(Append(s, x)) = Len(s) + 1 /\ Append(s, x) \in Seq(S) /\ Len(s) \in Nat
      /\ \A i \in 1..Len(s) : Append(s, x)[i] = s[i]
      /\ Append(s, x)[Len(s) + 1] = x
  BY AppendIs
<1>2. DOMAIN Append(s, x) = 1..(Len(s) + 1) /\ DOMAIN s = 1..Len(s)
  BY <1>1
<1>3. PICK t : t = Append(s, x)
  BY Zenon
<1>4. ASSUME NEW a \in DOMAIN t, NEW b \in DOMAIN t, t[a] = t[b]
      PROVE  a = b
  BY <1>1, <1>2, <1>3, <1>4 DEF IsInjective
<1> QED BY <1>3, <1>4 DEF IsInjective

\* t is s with x appended.
Appended(S, s, x, t) ==
    /\ t \in Seq(S)
    /\ \A i \in DOMAIN t : t[i] = x \/ \E j \in DOMAIN s : t[i] = s[j]
    /\ \A j \in DOMAIN s : \E i \in DOMAIN t : t[i] = s[j]
    /\ \E i \in DOMAIN t : t[i] = x

LEMMA AppendElements ==
    ASSUME NEW S, NEW s \in Seq(S), NEW x \in S
    PROVE  Appended(S, s, x, Append(s, x))
<1>1. /\ Len(Append(s, x)) = Len(s) + 1 /\ Append(s, x) \in Seq(S) /\ Len(s) \in Nat
      /\ \A i \in 1..Len(s) : Append(s, x)[i] = s[i]
      /\ Append(s, x)[Len(s) + 1] = x
  BY AppendIs
<1>2. DOMAIN Append(s, x) = 1..(Len(s) + 1) /\ DOMAIN s = 1..Len(s)
  BY <1>1
<1>3. PICK t : t = Append(s, x)
  BY Zenon
<1>4. ASSUME NEW i \in DOMAIN t PROVE t[i] = x \/ \E j \in DOMAIN s : t[i] = s[j]
  <2>1. CASE i = Len(s) + 1
    BY <1>1, <1>3, <2>1
  <2>2. CASE i # Len(s) + 1
    <3>1. i \in DOMAIN s /\ t[i] = s[i]
      BY <1>1, <1>2, <1>3, <2>2
    <3> QED BY <3>1
  <2> QED BY <2>1, <2>2
<1>5. ASSUME NEW j \in DOMAIN s PROVE \E i \in DOMAIN t : t[i] = s[j]
  <2>1. j \in DOMAIN t /\ t[j] = s[j]
    BY <1>1, <1>2, <1>3
  <2> QED BY <2>1
<1>6. \E i \in DOMAIN t : t[i] = x
  <2>1. Len(s) + 1 \in DOMAIN t /\ t[Len(s) + 1] = x
    BY <1>1, <1>2, <1>3
  <2> QED BY <2>1
<1> QED BY <1>1, <1>3, <1>4, <1>5, <1>6, Zenon DEF Appended

\* r is what comes of remembering a packet as sent.
Remembered(e, packet, pending, r) ==
    /\ EndpointOK(r) /\ r.next_rtx = e.next_rtx /\ r.encrypted = e.encrypted
    /\ DOMAIN r.sent = DOMAIN e.sent \cup {packet.seqnum}
    /\ r.sent[packet.seqnum] = [deadline |-> packet.deadline, pending_retransmission |-> pending]
    /\ \A n \in DOMAIN e.sent \ {packet.seqnum} : r.sent[n] = e.sent[n]

\* remember_sent, for a packet whose deadline has not passed.
LEMMA RememberFacts ==
    ASSUME NEW e, EndpointOK(e), NEW packet, packet.seqnum \in Seqnums, packet.deadline \in Nat,
           NEW pending \in BOOLEAN
    PROVE  Remembered(e, packet, pending, RememberSent(e, packet, pending, 0))
<1>1. ~PastDeadline(packet, 0)
  BY PacerAssumption DEF PastDeadline
<1>2. PICK sent : sent =
        [n \in DOMAIN e.sent \cup {packet.seqnum} |->
            IF n = packet.seqnum
            THEN [deadline |-> packet.deadline, pending_retransmission |-> pending]
            ELSE e.sent[n]]
  BY Zenon
<1>3. PICK r : r = RememberSent(e, packet, pending, 0)
  OBVIOUS
<1>4. r = [e EXCEPT !.sent = sent]
  BY <1>1, <1>2, <1>3 DEF RememberSent
<1>5. r = EndpointOf(e.next_rtx, sent, e.encrypted)
  BY <1>4 DEF EndpointOK, EndpointOf
<1>6. /\ DOMAIN sent = DOMAIN e.sent \cup {packet.seqnum}
      /\ sent[packet.seqnum] = [deadline |-> packet.deadline, pending_retransmission |-> pending]
      /\ \A n \in DOMAIN e.sent \ {packet.seqnum} : sent[n] = e.sent[n]
  BY <1>2
<1>7. \A n \in DOMAIN sent : sent[n] \in SentPackets
  <2>1. [deadline |-> packet.deadline, pending_retransmission |-> pending] \in SentPackets
    BY DEF SentPackets
  <2>2. \A n \in DOMAIN e.sent : e.sent[n] \in SentPackets
    BY DEF EndpointOK
  <2> QED BY <1>6, <2>1, <2>2
<1>8. sent \in [DOMAIN sent -> SentPackets]
  BY <1>2, <1>6, <1>7
<1>9. EndpointOK(r)
  BY <1>5, <1>6, <1>8 DEF EndpointOK, EndpointOf
<1>10. r.next_rtx = e.next_rtx /\ r.encrypted = e.encrypted /\ r.sent = sent
  BY <1>5 DEF EndpointOf
<1> QED BY <1>3, <1>6, <1>9, <1>10, Zenon DEF Remembered

\* A header that may be used: that of a video packet that was not forwarded before, or
\* the next of the RTX stream.
Usable(e, fwd, kind, header) ==
    IF kind = "video" THEN <<"video", header>> \notin fwd ELSE header = e.next_rtx

\* r is what comes of encrypting a packet.
Encrypted(e, fwd, packet, pending, r) ==
    /\ EndpointOK(r.endpoint)
    /\ Numbers(r.endpoint, IF packet.kind = "video"
                           THEN fwd \cup {<<"video", packet.header>>} ELSE fwd)
    /\ r.packet = [packet EXCEPT !.encrypted = TRUE]
    /\ packet.kind = "padding" => r.endpoint.sent = e.sent
    /\ packet.kind # "padding" =>
          /\ DOMAIN r.endpoint.sent = DOMAIN e.sent \cup {packet.seqnum}
          /\ r.endpoint.sent[packet.seqnum] =
                [deadline |-> packet.deadline, pending_retransmission |-> pending]
          /\ \A n \in DOMAIN e.sent \ {packet.seqnum} : r.endpoint.sent[n] = e.sent[n]

\* encrypt_and_send_rtp, where the number of the RTX stream is counted.
LEMMA EncryptFacts ==
    ASSUME NEW e, EndpointOK(e), NEW fwd, Numbers(e, fwd), NEW packet \in Packets,
           packet.kind # "padding" => packet.seqnum \in Seqnums /\ packet.deadline \in Nat,
           Usable(e, fwd, packet.kind, packet.header), NEW pending \in BOOLEAN, NEW e1,
           e1 = IF packet.kind = "video" THEN e ELSE IncrementSeqnum(e)
    PROVE  Encrypted(e, fwd, packet, pending, EncryptAndSend(e1, packet, pending, 0))
<1>0. /\ packet.header \in Nat /\ packet.kind \in {"video", "rtx", "padding"}
      /\ MaxRtx \in Nat /\ e.next_rtx \in 1..(MaxRtx + 1)
      /\ e.encrypted \in Seq({"video", "rtx"} \X Nat)
  BY EndpointAssumption DEF Packets, EndpointOK
<1>1. /\ EndpointOK(e1) /\ e1.sent = e.sent /\ e1.encrypted = e.encrypted
      /\ packet.kind # "video" => e1.next_rtx = Lesser(e.next_rtx + 1, MaxRtx + 1)
      /\ packet.kind = "video" => e1.next_rtx = e.next_rtx
  <2>1. CASE packet.kind = "video"
    BY <2>1
  <2>2. CASE packet.kind # "video"
    <3>1. PICK m : m = Lesser(e.next_rtx + 1, MaxRtx + 1)
      OBVIOUS
    <3>2. m \in 1..(MaxRtx + 1)
      BY <1>0, <3>1 DEF Lesser
    <3>3. e1 = EndpointOf(m, e.sent, e.encrypted)
      <4>1. e1 = [e EXCEPT !.next_rtx = m]
        BY <2>2, <3>1, Zenon DEF IncrementSeqnum
      <4>2. e = EndpointOf(e.next_rtx, e.sent, e.encrypted)
        BY Zenon DEF EndpointOK
      <4> QED BY <4>1, <4>2 DEF EndpointOf
    <3>4. EndpointOK(e1)
      BY <3>2, <3>3 DEF EndpointOK, EndpointOf
    <3> QED BY <2>2, <3>1, <3>3, <3>4 DEF EndpointOf
  <2> QED BY <2>1, <2>2
<1>2. PICK m : m = IF packet.kind = "padding" THEN e1 ELSE RememberSent(e1, packet, pending, 0)
  OBVIOUS
<1>3. /\ EndpointOK(m) /\ m.next_rtx = e1.next_rtx /\ m.encrypted = e.encrypted
      /\ packet.kind = "padding" => m.sent = e.sent
      /\ packet.kind # "padding" =>
            /\ DOMAIN m.sent = DOMAIN e.sent \cup {packet.seqnum}
            /\ m.sent[packet.seqnum] =
                  [deadline |-> packet.deadline, pending_retransmission |-> pending]
            /\ \A n \in DOMAIN e.sent \ {packet.seqnum} : m.sent[n] = e.sent[n]
  <2>1. CASE packet.kind = "padding"
    BY <1>1, <1>2, <2>1, Zenon
  <2>2. CASE packet.kind # "padding"
    <3>1. m = RememberSent(e1, packet, pending, 0)
      BY <1>2, <2>2, Zenon
    <3>2. Remembered(e1, packet, pending, m)
      BY <1>1, <2>2, <3>1, RememberFacts, Zenon
    <3> QED BY <1>1, <2>2, <3>2, Zenon DEF Remembered
  <2> QED BY <2>1, <2>2, Zenon
<1>4. PICK h : h = <<StreamOf(packet.kind), packet.header>>
  BY Zenon
<1>5. /\ h \in {"video", "rtx"} \X Nat /\ h[2] = packet.header
      /\ packet.kind = "video" => h = <<"video", packet.header>>
      /\ packet.kind # "video" => h = <<"rtx", packet.header>>
  BY <1>0, <1>4 DEF StreamOf
<1>6. ASSUME NEW i \in DOMAIN e.encrypted PROVE e.encrypted[i] # h
  <2>1. e.encrypted[i] \in {"video", "rtx"} \X Nat
    BY <1>0, SMTT(30)
  <2>2. /\ e.encrypted[i][1] = "video" => e.encrypted[i] \in fwd
        /\ e.encrypted[i][1] = "rtx" => e.encrypted[i][2] < e.next_rtx
    BY DEF Numbers
  <2>3. CASE packet.kind = "video"
    BY <1>5, <2>2, <2>3 DEF Usable
  <2>4. CASE packet.kind # "video"
    <3>1. h[1] = "rtx" /\ h[2] = e.next_rtx /\ e.next_rtx \in Int
      BY <1>0, <1>5, <2>4 DEF Usable
    <3> QED BY <2>2, <3>1, SMTT(30)
  <2> QED BY <2>3, <2>4
<1>7. PICK r : r = EncryptAndSend(e1, packet, pending, 0)
  OBVIOUS
<1>8. /\ r.endpoint = IF packet.header > MaxRtx THEN m ELSE [m EXCEPT !.encrypted = Append(@, h)]
      /\ r.packet = [packet EXCEPT !.encrypted = TRUE]
  BY <1>2, <1>4, <1>7 DEF EncryptAndSend
<1>9. PICK enc : enc = IF packet.header > MaxRtx THEN e.encrypted ELSE Append(e.encrypted, h)
  BY Zenon
<1>10. r.endpoint = EndpointOf(m.next_rtx, m.sent, enc)
  <2>1. m = EndpointOf(m.next_rtx, m.sent, m.encrypted)
    BY <1>3, Zenon DEF EndpointOK
  <2>2. CASE packet.header > MaxRtx
    BY <1>3, <1>8, <1>9, <2>1, <2>2
  <2>3. CASE ~(packet.header > MaxRtx)
    <3>1. r.endpoint = [m EXCEPT !.encrypted = enc]
      BY <1>3, <1>8, <1>9, <2>3, Zenon
    <3> QED BY <2>1, <3>1 DEF EndpointOf
  <2> QED BY <2>2, <2>3
<1>11. /\ enc \in Seq({"video", "rtx"} \X Nat) /\ IsInjective(enc)
       /\ \A i \in DOMAIN enc : \/ enc[i] = h /\ packet.header <= MaxRtx
                                \/ \E j \in DOMAIN e.encrypted : enc[i] = e.encrypted[j]
  <2>0. IsInjective(e.encrypted)
    BY Zenon DEF Numbers
  <2>1. CASE packet.header > MaxRtx
    BY <1>0, <1>9, <2>0, <2>1
  <2>2. CASE ~(packet.header > MaxRtx)
    <3>1. enc = Append(e.encrypted, h) /\ packet.header <= MaxRtx
      BY <1>0, <1>9, <2>2
    <3>2. IsInjective(Append(e.encrypted, h))
      BY <1>0, <1>5, <1>6, <2>0, AppendNew, Zenon
    <3>3. /\ Append(e.encrypted, h) \in Seq({"video", "rtx"} \X Nat)
          /\ \A i \in DOMAIN Append(e.encrypted, h) :
                Append(e.encrypted, h)[i] = h
                  \/ \E j \in DOMAIN e.encrypted : Append(e.encrypted, h)[i] = e.encrypted[j]
      <4>1. PICK S : S = {"video", "rtx"} \X Nat
        BY Zenon
      <4>2. e.encrypted \in Seq(S) /\ h \in S
        BY <1>0, <1>5, <4>1, Zenon
      <4>3. Appended(S, e.encrypted, h, Append(e.encrypted, h))
        BY <4>2, AppendElements, Zenon
      <4> QED BY <4>1, <4>3, Zenon DEF Appended
    <3> QED BY <3>1, <3>2, <3>3, Zenon
  <2> QED BY <2>1, <2>2, Zenon
<1>12. EndpointOK(r.endpoint) /\ r.endpoint.sent = m.sent /\ r.endpoint.encrypted = enc
       /\ r.endpoint.next_rtx = e1.next_rtx
  BY <1>3, <1>10, <1>11, SMTT(30) DEF EndpointOK, EndpointOf
<1>13. PICK fwd1 : fwd1 = IF packet.kind = "video"
                          THEN fwd \cup {<<"video", packet.header>>} ELSE fwd
  BY Zenon
<1>14. ASSUME NEW i \in DOMAIN enc
       PROVE  /\ enc[i][1] = "video" => enc[i] \in fwd1
              /\ enc[i][1] = "rtx" => enc[i][2] < e1.next_rtx
  <2>0. e.next_rtx <= e1.next_rtx /\ (packet.kind # "video" /\ e.next_rtx <= MaxRtx
                                       => e.next_rtx < e1.next_rtx)
    BY <1>0, <1>1 DEF Lesser
  <2>1. CASE enc[i] = h /\ packet.header <= MaxRtx
    <3>1. CASE packet.kind = "video"
      BY <1>5, <1>13, <2>1, <3>1
    <3>2. CASE packet.kind # "video"
      <4>1. e.next_rtx < e1.next_rtx
        BY <1>0, <2>0, <2>1, <3>2 DEF Usable
      <4>2. packet.header = e.next_rtx
        BY <3>2 DEF Usable
      <4> QED BY <1>5, <2>1, <3>2, <4>1, <4>2
    <3> QED BY <3>1, <3>2
  <2>2. CASE \E j \in DOMAIN e.encrypted : enc[i] = e.encrypted[j]
    <3>1. PICK j \in DOMAIN e.encrypted : enc[i] = e.encrypted[j]
      BY <2>2, Zenon
    <3>2. e.encrypted[j] \in {"video", "rtx"} \X Nat
      BY <1>0, SMTT(30)
    <3>3. /\ e.encrypted[j][1] = "video" => e.encrypted[j] \in fwd
          /\ e.encrypted[j][1] = "rtx" => e.encrypted[j][2] < e.next_rtx
      BY Zenon DEF Numbers
    <3>4. e.encrypted[j][2] \in Nat
      BY <3>2
    <3>5. e1.next_rtx \in Int
      <4>1. e1.next_rtx \in 1..(MaxRtx + 1)
        BY <1>1, Zenon DEF EndpointOK
      <4> QED BY <1>0, <4>1
    <3>6. e.encrypted[j][1] = "rtx" => e.encrypted[j][2] < e1.next_rtx
      BY <1>0, <2>0, <3>3, <3>4, <3>5
    <3>7. e.encrypted[j][1] = "video" => e.encrypted[j] \in fwd1
      BY <1>13, <3>3, Zenon
    <3> QED BY <3>1, <3>6, <3>7, Zenon
  <2> QED BY <1>11, <2>1, <2>2, Zenon
<1>15. Numbers(r.endpoint, fwd1)
  BY <1>11, <1>12, <1>14, Zenon DEF Numbers
<1> QED BY <1>3, <1>7, <1>8, <1>12, <1>13, <1>15 DEF Encrypted

LEMMA PacketFacts ==
    ASSUME NEW kind \in {"video", "rtx", "padding"}, NEW seqnum \in Nat, NEW header \in Nat,
           NEW deadline \in Int \cup {None}, NEW b \in BOOLEAN, NEW p,
           p = [kind |-> kind, seqnum |-> seqnum, header |-> header, deadline |-> deadline,
                encrypted |-> b]
    PROVE  /\ p \in Packets /\ p # None
           /\ p.kind = kind /\ p.seqnum = seqnum /\ p.header = header /\ p.deadline = deadline
           /\ [p EXCEPT !.encrypted = TRUE] =
                 [kind |-> kind, seqnum |-> seqnum, header |-> header, deadline |-> deadline,
                  encrypted |-> TRUE]
           /\ seqnum \in Seqnums /\ deadline \in Int => p \in QueuePackets(kind)
<1>1. p \in Packets
  BY DEF Packets
<1>2. p.kind = kind /\ p.seqnum = seqnum /\ p.header = header /\ p.deadline = deadline
  OBVIOUS
<1>3. p # None
  BY <1>1, NoneAssumption
<1>4. [p EXCEPT !.encrypted = TRUE] =
        [kind |-> kind, seqnum |-> seqnum, header |-> header, deadline |-> deadline,
         encrypted |-> TRUE]
  <2>1. \A t : [p EXCEPT !.encrypted = t] =
                 [kind |-> kind, seqnum |-> seqnum, header |-> header, deadline |-> deadline,
                  encrypted |-> t]
    OBVIOUS
  <2> QED BY <2>1, Zenon
<1>5. seqnum \in Seqnums /\ deadline \in Int => p \in QueuePackets(kind)
  BY <1>1, <1>2 DEF QueuePackets
<1> QED BY <1>1, <1>2, <1>3, <1>4, <1>5

\* r is what comes of marking a number as sent.
Marked(e, fwd, seqnum, r) ==
    /\ EndpointOK(r) /\ Numbers(r, fwd) /\ DOMAIN r.sent = DOMAIN e.sent
    /\ \A n \in DOMAIN e.sent :
          /\ n = seqnum => ~r.sent[n].pending_retransmission
          /\ n # seqnum => r.sent[n] = e.sent[n]
          /\ r.sent[n].deadline = e.sent[n].deadline

\* mark_as_sent takes the mark away.
LEMMA MarkFacts ==
    ASSUME NEW e, EndpointOK(e), NEW fwd, Numbers(e, fwd), NEW seqnum
    PROVE  Marked(e, fwd, seqnum, MarkAsSent(e, seqnum))
<1>1. CASE seqnum \notin DOMAIN e.sent
  <2>1. MarkAsSent(e, seqnum) = e
    BY <1>1 DEF MarkAsSent
  <2> QED BY <1>1, <2>1, Zenon DEF Marked
<1>2. CASE seqnum \in DOMAIN e.sent
  <2>1. PICK d : d = e.sent[seqnum].deadline
    OBVIOUS
  <2>2. e.sent[seqnum] \in SentPackets
    BY <1>2 DEF EndpointOK
  <2>3. /\ d \in Nat
        /\ [e.sent[seqnum] EXCEPT !.pending_retransmission = FALSE] =
             [deadline |-> d, pending_retransmission |-> FALSE]
    <3>1. d \in Nat
      BY <2>1, <2>2 DEF SentPackets
    <3>2. \A t : [e.sent[seqnum] EXCEPT !.pending_retransmission = t] =
                   [deadline |-> d, pending_retransmission |-> t]
      BY <2>1, <2>2 DEF SentPackets
    <3>3. [e.sent[seqnum] EXCEPT !.pending_retransmission = FALSE] =
            [deadline |-> d, pending_retransmission |-> FALSE]
      BY <3>2, Zenon
    <3> QED BY <3>1, <3>3
  <2>4. PICK sent : sent = [e.sent EXCEPT ![seqnum] = [deadline |-> d,
                                                       pending_retransmission |-> FALSE]]
    BY Zenon
  <2>5. PICK r : r = MarkAsSent(e, seqnum)
    OBVIOUS
  <2>6. r = [e EXCEPT !.sent = sent]
    BY <1>2, <2>3, <2>4, <2>5, Zenon DEF MarkAsSent
  <2>7. r = EndpointOf(e.next_rtx, sent, e.encrypted)
    BY <2>6 DEF EndpointOK, EndpointOf
  <2>8. /\ DOMAIN sent = DOMAIN e.sent
        /\ sent[seqnum] = [deadline |-> d, pending_retransmission |-> FALSE]
        /\ \A n \in DOMAIN e.sent \ {seqnum} : sent[n] = e.sent[n]
        /\ sent \in [DOMAIN e.sent -> SentPackets]
    <3>1. e.sent \in [DOMAIN e.sent -> SentPackets]
      BY DEF EndpointOK
    <3>2. [deadline |-> d, pending_retransmission |-> FALSE] \in SentPackets
      BY <2>3 DEF SentPackets
    <3> QED BY <1>2, <2>4, <3>1, <3>2
  <2>9. EndpointOK(r) /\ r.sent = sent /\ r.next_rtx = e.next_rtx /\ r.encrypted = e.encrypted
    BY <2>7, <2>8 DEF EndpointOK, EndpointOf
  <2>10. Numbers(r, fwd)
    BY <2>9, Zenon DEF Numbers
  <2>11. sent[seqnum].deadline = d /\ ~sent[seqnum].pending_retransmission
    BY <2>8
  <2> QED BY <2>1, <2>5, <2>8, <2>9, <2>10, <2>11, Zenon DEF Marked
<1> QED BY <1>1, <1>2
==============================================================================
