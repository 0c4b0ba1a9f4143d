------------------------------ MODULE TaskProofs ------------------------------
(***************************************************************************)
(* Proofs about the threads and tasks of the processes: the locks of the   *)
(* backend are taken in one order, whatever work is done and by however    *)
(* many threads, and therefore no threads wait for each other for ever; a  *)
(* process exits in order, whichever of its servers end; and a call's      *)
(* background requests store its approved users.                           *)
(***************************************************************************)
EXTENDS Locks, Servers, ApprovedUsers, Integers, TLAPS

(* The order of the locks.                                                 *)

LockNames == {"timer_heap", "sfu", "call", "incoming", "outgoing", "all_connections", "tcp"}

\* The order: a lock is only taken by a thread whose locks all have a lower rank.
Rank(l) == CASE l = "timer_heap"      -> 1
             [] l = "sfu"             -> 2
             [] l = "call"            -> 3
             [] l = "incoming"        -> 4
             [] l = "outgoing"        -> 4
             [] l = "all_connections" -> 5
             [] l = "tcp"             -> 6

Steps == {Take(l, "lock") : l \in LockNames \ {"all_connections"}}
            \cup {Take("all_connections", mode) : mode \in {"read", "write", "try"}}
            \cup {Release(l) : l \in LockNames}

\* Lock l is released by a step of s between the j-th and the i-th.
Released(s, l, j, i) ==
    \E k \in 1..Len(s) : j < k /\ k < i /\ s[k].op = "release" /\ s[k].lock = l

\* A lock is released before one of the same or of a lower rank is taken, and
\* in the end.
Ordered(s) ==
    \A i, j \in 1..Len(s) :
        j < i /\ s[j].op = "take" /\ s[i].op = "take" /\ Rank(s[j].lock) >= Rank(s[i].lock)
            => Released(s, s[j].lock, j, i)

Completed(s) ==
    \A j \in 1..Len(s) : s[j].op = "take" => Released(s, s[j].lock, j, Len(s) + 1)

\* Such steps, which take only locks of a rank above n.
Safe(s, n) ==
    /\ s \in Seq(Steps) /\ Ordered(s) /\ Completed(s)
    /\ \A i \in 1..Len(s) : s[i].op = "take" => Rank(s[i].lock) > n

\* What a worker still does with the locks that it holds.
HeldInOrder(H, s) ==
    \A h \in H :
        /\ Released(s, h.lock, 0, Len(s) + 1)
        /\ \A i \in 1..Len(s) : s[i].op = "take" /\ Rank(h.lock) >= Rank(s[i].lock)
                                    => Released(s, h.lock, 0, i)

Holdings == [lock : LockNames, mode : {"lock", "read", "write"}]

LockInv ==
    /\ todo \in [Workers -> Seq(Steps)]
    /\ holds \in [Workers -> SUBSET Holdings]
    /\ parked \subseteq Workers
    /\ \A w \in Workers : /\ Ordered(todo[w]) /\ Completed(todo[w])
                          /\ HeldInOrder(holds[w], todo[w])
    /\ \A w \in parked : todo[w] # <<>> /\ Head(todo[w]) = Take("all_connections", "write")
------------------------------------------------------------------------------
LEMMA StepFacts ==
    ASSUME NEW s \in Steps
    PROVE  /\ s.op \in {"take", "release"} /\ s.lock \in LockNames
           /\ s.op = "take" => s.mode \in {"lock", "read", "write", "try"}
           /\ s.mode \in {"read", "write", "try"} => s.op = "take" /\ s.lock = "all_connections"
           /\ s.mode = "write" => s = Take("all_connections", "write")
BY DEF Steps, Take, Release, LockNames

LEMMA RankFacts ==
    \A l \in LockNames : Rank(l) \in 1..6
BY DEF LockNames, Rank

LEMMA SafeNothing == ASSUME NEW n \in Nat PROVE Safe(<<>>, n)
BY DEF Safe, Ordered, Completed

\* Two stretches, one after the other.
LEMMA SafeInSequence ==
    ASSUME NEW n \in Nat, NEW s, NEW t, Safe(s, n), Safe(t, n)
    PROVE  Safe(s \o t, n)
<1> DEFINE u == s \o t
<1>1. s \in Seq(Steps) /\ t \in Seq(Steps)
  BY DEF Safe
<1>2. /\ u \in Seq(Steps) /\ Len(u) = Len(s) + Len(t)
      /\ Len(s) \in Nat /\ Len(t) \in Nat
      /\ \A i \in 1..Len(s) : u[i] = s[i]
      /\ \A i \in 1..Len(t) : u[Len(s) + i] = t[i]
      /\ \A i \in 1..Len(u) : i > Len(s) => i - Len(s) \in 1..Len(t) /\ u[i] = t[i - Len(s)]
  BY <1>1
<1> HIDE DEF u
<1>3. ASSUME NEW l, NEW j \in Nat, NEW i \in Nat, Released(s, l, j, i)
      PROVE  Released(u, l, j, i)
  BY <1>2, <1>3 DEF Released
<1>4. ASSUME NEW l, NEW j \in Nat, NEW i \in Nat, Released(t, l, j, i)
      PROVE  Released(u, l, Len(s) + j, Len(s) + i)
  <2>1. PICK k \in 1..Len(t) : j < k /\ k < i /\ t[k].op = "release" /\ t[k].lock = l
    BY <1>4 DEF Released
  <2>2. /\ Len(s) + k \in 1..Len(u) /\ u[Len(s) + k] = t[k]
        /\ Len(s) + j < Len(s) + k /\ Len(s) + k < Len(s) + i
    BY <1>2, <2>1
  <2> QED BY <2>1, <2>2 DEF Released
<1>5. ASSUME NEW j \in 1..Len(s), s[j].op = "take", NEW i \in Nat, i > Len(s)
      PROVE  Released(u, s[j].lock, j, i)
  <2>1. Released(s, s[j].lock, j, Len(s) + 1)
    BY <1>5 DEF Safe, Completed
  <2>2. PICK k \in 1..Len(s) : j < k /\ s[k].op = "release" /\ s[k].lock = s[j].lock
    BY <2>1 DEF Released
  <2>3. k \in 1..Len(u) /\ u[k] = s[k] /\ k < i
    BY <1>2, <1>5
  <2> QED BY <2>2, <2>3 DEF Released
<1>6. Ordered(u)
  <2> SUFFICES ASSUME NEW i \in 1..Len(u), NEW j \in 1..Len(u), j < i, u[j].op = "take",
                      u[i].op = "take", Rank(u[j].lock) >= Rank(u[i].lock)
               PROVE  Released(u, u[j].lock, j, i)
    BY DEF Ordered
  <2>1. CASE i <= Len(s)
    <3>1. /\ i \in 1..Len(s) /\ j \in 1..Len(s) /\ u[i] = s[i] /\ u[j] = s[j]
      BY <1>2, <2>1
    <3>2. Released(s, s[j].lock, j, i)
      BY <3>1 DEF Safe, Ordered
    <3> QED BY <1>3, <3>1, <3>2
  <2>2. CASE j <= Len(s) /\ i > Len(s)
    <3>1. j \in 1..Len(s) /\ u[j] = s[j]
      BY <1>2, <2>2
    <3> QED BY <1>5, <2>2, <3>1
  <2>3. CASE j > Len(s)
    <3> DEFINE a == i - Len(s)
               b == j - Len(s)
    <3>1. /\ a \in 1..Len(t) /\ b \in 1..Len(t) /\ u[i] = t[a] /\ u[j] = t[b] /\ b < a
          /\ i = Len(s) + a /\ j = Len(s) + b
      BY <1>2, <2>3
    <3> HIDE DEF a, b
    <3>2. Released(t, t[b].lock, b, a)
      BY <3>1 DEF Safe, Ordered
    <3>3. Released(u, t[b].lock, Len(s) + b, Len(s) + a)
      BY <1>4, <3>1, <3>2
    <3> QED BY <3>1, <3>3
  <2> QED BY <1>2, <2>1, <2>2, <2>3
<1>7. Completed(u)
  <2> SUFFICES ASSUME NEW j \in 1..Len(u), u[j].op = "take"
               PROVE  Released(u, u[j].lock, j, Len(u) + 1)
    BY DEF Completed
  <2>1. CASE j <= Len(s)
    <3>1. j \in 1..Len(s) /\ u[j] = s[j] /\ Len(u) + 1 \in Nat /\ Len(u) + 1 > Len(s)
      BY <1>2, <2>1
    <3> QED BY <1>5, <3>1
  <2>2. CASE j > Len(s)
    <3> DEFINE b == j - Len(s)
    <3>1. b \in 1..Len(t) /\ u[j] = t[b] /\ j = Len(s) + b /\ Len(u) + 1 = Len(s) + (Len(t) + 1)
      BY <1>2, <2>2
    <3> HIDE DEF b
    <3>2. Released(t, t[b].lock, b, Len(t) + 1)
      BY <3>1 DEF Safe, Completed
    <3>3. Released(u, t[b].lock, Len(s) + b, Len(s) + (Len(t) + 1))
      BY <1>2, <1>4, <3>1, <3>2
    <3> QED BY <3>1, <3>3
  <2> QED BY <1>2, <2>1, <2>2
<1>8. \A i \in 1..Len(u) : u[i].op = "take" => Rank(u[i].lock) > n
  <2> SUFFICES ASSUME NEW i \in 1..Len(u), u[i].op = "take" PROVE Rank(u[i].lock) > n
    OBVIOUS
  <2>1. CASE i <= Len(s)
    <3>1. i \in 1..Len(s) /\ u[i] = s[i]
      BY <1>2, <2>1
    <3> QED BY <3>1 DEF Safe
  <2>2. CASE i > Len(s)
    <3>1. i - Len(s) \in 1..Len(t) /\ u[i] = t[i - Len(s)]
      BY <1>2, <2>2
    <3> QED BY <3>1 DEF Safe
  <2> QED BY <1>2, <2>1, <2>2
<1>9. Safe(u, n)
  BY <1>2, <1>6, <1>7, <1>8 DEF Safe
<1> QED BY <1>9 DEF u

\* A stretch within a lock of a lower rank.
LEMMA SafeUnder ==
    ASSUME NEW n \in Nat, NEW l \in LockNames, NEW mode, NEW body,
           Take(l, mode) \in Steps, n < Rank(l), Safe(body, Rank(l))
    PROVE  Safe(Under(l, mode, body), n)
<1> DEFINE u == Under(l, mode, body)
           m == Len(body)
<1>1. body \in Seq(Steps) /\ Release(l) \in Steps /\ m \in Nat
  BY DEF Safe, Steps
<1>2. /\ u \in Seq(Steps) /\ Len(u) = m + 2
      /\ u[1] = Take(l, mode) /\ u[m + 2] = Release(l)
      /\ \A i \in 1..m : u[i + 1] = body[i]
  <2>1. /\ <<Take(l, mode)>> \o body \in Seq(Steps)
        /\ Len(<<Take(l, mode)>> \o body) = m + 1
        /\ (<<Take(l, mode)>> \o body)[1] = Take(l, mode)
        /\ \A i \in 1..m : (<<Take(l, mode)>> \o body)[i + 1] = body[i]
    BY <1>1
  <2> DEFINE v == <<Take(l, mode)>> \o body
  <2>2. u = v \o <<Release(l)>>
    BY DEF Under
  <2> HIDE DEF v, u
  <2> QED BY <1>1, <2>1, <2>2 DEF v
<1>3. \A i \in 1..Len(u) : i # 1 /\ i # m + 2 => i - 1 \in 1..m /\ u[i] = body[i - 1]
  <2> SUFFICES ASSUME NEW i \in 1..Len(u), i # 1, i # m + 2
               PROVE  i - 1 \in 1..m /\ u[i] = body[i - 1]
    OBVIOUS
  <2>1. i - 1 \in 1..m /\ (i - 1) + 1 = i
    BY <1>1, <1>2
  <2> QED BY <1>2, <2>1
<1>4. u[1].op = "take" /\ u[1].lock = l /\ u[m + 2].op = "release" /\ u[m + 2].lock = l
  BY <1>2 DEF Take, Release
<1> HIDE DEF u, m
<1>5. ASSUME NEW k, NEW j \in Nat, NEW i \in Nat, Released(body, k, j, i)
      PROVE  Released(u, k, j + 1, i + 1)
  <2>1. PICK x \in 1..m : j < x /\ x < i /\ body[x].op = "release" /\ body[x].lock = k
    BY <1>5 DEF Released, m
  <2>2. x + 1 \in 1..Len(u) /\ u[x + 1] = body[x]
    BY <1>1, <1>2
  <2> QED BY <1>2, <2>1, <2>2 DEF Released
<1>6. \A i \in 1..m : body[i].op = "take" => Rank(body[i].lock) > Rank(l)
  BY DEF Safe, m
<1>7. Ordered(u)
  <2> SUFFICES ASSUME NEW i \in 1..Len(u), NEW j \in 1..Len(u), j < i, u[j].op = "take",
                      u[i].op = "take", Rank(u[j].lock) >= Rank(u[i].lock)
               PROVE  Released(u, u[j].lock, j, i)
    BY DEF Ordered
  <2>1. i # 1 /\ i # m + 2 /\ j # m + 2
    BY <1>1, <1>2, <1>4
  <2>2. i - 1 \in 1..m /\ u[i] = body[i - 1]
    BY <1>3, <2>1
  <2>3. Rank(u[i].lock) \in Nat /\ Rank(l) \in Nat /\ Rank(u[i].lock) > Rank(l)
    <3>1. u[i].lock \in LockNames
      BY <1>2, StepFacts
    <3> QED BY <1>6, <2>2, <3>1, RankFacts
  <2>4. j # 1
    BY <1>4, <2>3
  <2>5. j - 1 \in 1..m /\ u[j] = body[j - 1]
    BY <1>3, <2>1, <2>4
  <2>6. Released(body, body[j - 1].lock, j - 1, i - 1)
    BY <2>2, <2>5 DEF Safe, Ordered, m
  <2>7. Released(u, body[j - 1].lock, (j - 1) + 1, (i - 1) + 1)
    BY <1>1, <1>5, <2>2, <2>5, <2>6
  <2> QED BY <1>1, <2>5, <2>7
<1>8. Completed(u)
  <2> SUFFICES ASSUME NEW j \in 1..Len(u), u[j].op = "take"
               PROVE  Released(u, u[j].lock, j, Len(u) + 1)
    BY DEF Completed
  <2>1. CASE j = 1
    BY <1>1, <1>2, <1>4, <2>1 DEF Released
  <2>2. CASE j # 1
    <3>1. j - 1 \in 1..m /\ u[j] = body[j - 1]
      BY <1>3, <1>4, <2>2
    <3>2. Released(body, body[j - 1].lock, j - 1, m + 1)
      BY <3>1 DEF Safe, Completed, m
    <3>3. Released(u, body[j - 1].lock, (j - 1) + 1, (m + 1) + 1)
      BY <1>1, <1>5, <3>1, <3>2
    <3>4. PICK x \in 1..Len(u) : /\ j < x /\ u[x].op = "release"
                                 /\ u[x].lock = body[j - 1].lock
      BY <3>3 DEF Released
    <3> QED BY <1>1, <1>2, <3>1, <3>4 DEF Released
  <2> QED BY <2>1, <2>2
<1>9. \A i \in 1..Len(u) : u[i].op = "take" => Rank(u[i].lock) > n
  <2> SUFFICES ASSUME NEW i \in 1..Len(u), u[i].op = "take" PROVE Rank(u[i].lock) > n
    OBVIOUS
  <2>1. CASE i = 1
    BY <1>4, <2>1
  <2>2. CASE i # 1
    <3>1. i - 1 \in 1..m /\ u[i] = body[i - 1]
      BY <1>3, <1>4, <2>2
    <3>2. body[i - 1].lock \in LockNames
      BY <1>1, <3>1, StepFacts DEF m
    <3> QED BY <1>6, <3>1, <3>2, RankFacts
  <2> QED BY <2>1, <2>2
<1>10. Safe(u, n)
  BY <1>2, <1>7, <1>8, <1>9 DEF Safe
<1> QED BY <1>10 DEF u

LEMMA SafeLower ==
    ASSUME NEW n \in Nat, NEW m \in Nat, n <= m, NEW s, Safe(s, m)
    PROVE  Safe(s, n)
<1>1. ASSUME NEW i \in 1..Len(s), s[i].op = "take" PROVE Rank(s[i].lock) > n
  <2>1. s[i].lock \in LockNames /\ Rank(s[i].lock) > m
    BY <1>1, StepFacts DEF Safe
  <2> QED BY <2>1, RankFacts
<1> QED BY <1>1 DEF Safe

LEMMA SafeWith ==
    ASSUME NEW n \in Nat, NEW l \in LockNames, l # "all_connections", n < Rank(l), NEW body,
           Safe(body, Rank(l))
    PROVE  Safe(With(l, body), n)
<1>1. Take(l, "lock") \in Steps
  BY DEF Steps
<1> QED BY <1>1, SafeUnder DEF With

\* Locks taken and released at once.
LEMMA SafeBrief ==
    ASSUME NEW n \in Nat, NEW l \in LockNames, l # "all_connections", n < Rank(l)
    PROVE  Safe(Brief(l), n)
<1>1. Rank(l) \in Nat
  BY RankFacts
<1>2. Safe(<<>>, Rank(l))
  BY <1>1, SafeNothing
<1> QED BY <1>2, SafeWith DEF Brief

LEMMA SafeConnections ==
    ASSUME NEW n \in Nat, n < 5, NEW body, Safe(body, 5)
    PROVE  Safe(Reading(body), n) /\ Safe(Writing(body), n) /\ Safe(WritingOrNot(body), n)
<1>1. "all_connections" \in LockNames /\ Rank("all_connections") = 5
  BY DEF LockNames, Rank
<1>2. \A mode \in {"read", "write", "try"} : Take("all_connections", mode) \in Steps
  BY DEF Steps
<1> QED BY <1>1, <1>2, SafeUnder DEF Reading, Writing, WritingOrNot
------------------------------------------------------------------------------
\* Every stretch of work of the backend takes its locks in the order.
LEMMA WorkIsSafe == \A s \in Work : Safe(s, 0)
<1> DEFINE T == Brief("tcp")
<1>1. /\ Rank("timer_heap") = 1 /\ Rank("sfu") = 2 /\ Rank("call") = 3
      /\ Rank("incoming") = 4 /\ Rank("outgoing") = 4 /\ Rank("tcp") = 6
      /\ {"timer_heap", "sfu", "call", "incoming", "outgoing", "tcp"} \subseteq LockNames
  BY DEF LockNames, Rank
<1>2. \A n \in 0..5 : Safe(<<>>, n) /\ Safe(Brief("tcp"), n)
  BY <1>1, SafeNothing, SafeBrief
<1>3. \A n \in 0..3 : Safe(Brief("incoming"), n) /\ Safe(Brief("outgoing"), n)
  BY <1>1, SafeBrief
<1>4. \A n \in 0..2 : Safe(Brief("call"), n) /\ Safe(With("call", Brief("incoming")), n)
  BY <1>1, <1>3, SafeBrief, SafeWith
<1>5. Safe(Brief("sfu"), 0) /\ Safe(Brief("sfu"), 1) /\ Safe(Brief("timer_heap"), 0)
  BY <1>1, SafeBrief
<1>6. \A n \in 0..4 : /\ Safe(Reading(T), n) /\ Safe(Writing(T), n)
                      /\ Safe(Reading(<<>>), n) /\ Safe(Writing(<<>>), n)
                      /\ Safe(WritingOrNot(<<>>), n)
  BY <1>2, SafeConnections
<1>7. ASSUME NEW s, Safe(s, 2) PROVE Safe(With("sfu", s), 0)
  BY <1>1, <1>7, SafeWith
<1>8. ASSUME NEW s, NEW t, Safe(s, 2), Safe(t, 2) PROVE Safe(s \o t, 2)
  BY <1>8, SafeInSequence
<1>9. \A s \in ReceivePacket : Safe(s, 0)
  <2>1. Safe(With("sfu", Brief("outgoing")), 0) /\ Safe(With("sfu", Brief("incoming")), 0)
    BY <1>3, <1>7
  <2> QED BY <1>3, <1>4, <1>5, <1>6, <2>1
          DEF ReceivePacket, HandleRtp, HandleLeave, HandleRtcp, HandleBindingRequest, SendOnSocket
<1>10. \A s \in AcceptSocket \cup CloseSocket \cup TickServer \cup ReadCalls : Safe(s, 0)
  BY <1>4, <1>5, <1>6 DEF AcceptSocket, CloseSocket, TickServer, ReadCalls
<1>11. \A s \in Dequeue : Safe(s, 0)
  <2> SUFFICES ASSUME NEW write \in {<<>>, Writing(Brief("tcp"))}
               PROVE  Safe(With("timer_heap", Brief("sfu") \o Brief("incoming")
                                                 \o Reading(Brief("tcp")) \o write), 0)
    BY DEF Dequeue
  <2>1. Safe(Brief("sfu"), 1) /\ Safe(Brief("incoming"), 1) /\ Safe(Reading(T), 1)
          /\ Safe(write, 1)
    BY <1>2, <1>3, <1>5, <1>6
  <2>2. Safe(Brief("sfu") \o Brief("incoming"), 1)
    BY <2>1, SafeInSequence
  <2>3. Safe(Brief("sfu") \o Brief("incoming") \o Reading(T), 1)
    BY <2>1, <2>2, SafeInSequence
  <2>4. Safe(Brief("sfu") \o Brief("incoming") \o Reading(T) \o write, 1)
    BY <2>1, <2>3, SafeInSequence
  <2> QED BY <1>1, <2>4, SafeWith
<1>12. \A s \in TickOfSfu : Safe(s, 0)
  <2> SUFFICES ASSUME NEW diagnostics \in {<<>>, With("call", Brief("incoming"))}
               PROVE  Safe(With("sfu", diagnostics \o Brief("incoming") \o Brief("outgoing")
                                          \o Brief("call") \o Brief("outgoing")), 0)
    BY DEF TickOfSfu
  <2>1. /\ Safe(diagnostics, 2) /\ Safe(Brief("incoming"), 2) /\ Safe(Brief("outgoing"), 2)
        /\ Safe(Brief("call"), 2)
    BY <1>2, <1>3, <1>4
  <2>2. Safe(diagnostics \o Brief("incoming"), 2)
    BY <1>8, <2>1
  <2>3. Safe(diagnostics \o Brief("incoming") \o Brief("outgoing"), 2)
    BY <1>8, <2>1, <2>2
  <2>4. Safe(diagnostics \o Brief("incoming") \o Brief("outgoing") \o Brief("call"), 2)
    BY <1>8, <2>1, <2>3
  <2>5. Safe(diagnostics \o Brief("incoming") \o Brief("outgoing") \o Brief("call")
                \o Brief("outgoing"), 2)
    BY <1>8, <2>1, <2>4
  <2> QED BY <1>7, <2>5
<1>13. \A s \in GetStats \cup GetCallSignalingInfo \cup Join \cup RemoveClientFromCall :
          Safe(s, 0)
  <2>1. /\ Safe(Brief("call"), 2) /\ Safe(Brief("incoming"), 2) /\ Safe(Reading(<<>>), 2)
    BY <1>3, <1>4, <1>6
  <2>2. /\ Safe(Brief("call") \o Brief("incoming"), 2)
        /\ Safe(Reading(<<>>) \o Brief("call"), 2)
        /\ Safe(Brief("call") \o Brief("call"), 2)
    BY <1>8, <2>1
  <2>3. /\ Safe(Reading(<<>>) \o Brief("call") \o Brief("incoming"), 2)
        /\ Safe(Brief("call") \o Brief("call") \o Brief("call"), 2)
    BY <1>8, <2>1, <2>2
  <2> QED BY <1>7, <2>1, <2>2, <2>3 DEF GetStats, GetCallSignalingInfo, Join, RemoveClientFromCall
<1> QED BY <1>9, <1>10, <1>11, <1>12, <1>13 DEF Work
------------------------------------------------------------------------------
\* What is left of ordered steps after the first of them.
LEMMA TailFacts ==
    ASSUME NEW s \in Seq(Steps), s # <<>>
    PROVE  /\ Tail(s) \in Seq(Steps) /\ Len(Tail(s)) = Len(s) - 1 /\ Len(s) \in Nat \ {0}
           /\ Head(s) = s[1] /\ s[1] \in Steps
           /\ \A i \in 1..Len(Tail(s)) : i + 1 \in 1..Len(s) /\ Tail(s)[i] = s[i + 1]
           /\ \A l : \A i \in Nat : Released(s, l, 1, i + 1) => Released(Tail(s), l, 0, i)
           /\ Ordered(s) => Ordered(Tail(s))
           /\ Completed(s) => Completed(Tail(s))
<1> DEFINE t == Tail(s)
<1>1. /\ t \in Seq(Steps) /\ Len(t) = Len(s) - 1 /\ Len(s) \in Nat \ {0}
      /\ Head(s) = s[1] /\ s[1] \in Steps
      /\ \A i \in 1..Len(t) : i + 1 \in 1..Len(s) /\ t[i] = s[i + 1]
  OBVIOUS
<1> HIDE DEF t
<1>2. ASSUME NEW l, NEW j \in Nat, NEW i \in Nat, Released(s, l, j + 1, i + 1)
      PROVE  Released(t, l, j, i)
  <2>1. PICK k \in 1..Len(s) : /\ j + 1 < k /\ k < i + 1 /\ s[k].op = "release"
                               /\ s[k].lock = l
    BY <1>2 DEF Released
  <2>2. k - 1 \in 1..Len(t) /\ t[k - 1] = s[(k - 1) + 1] /\ (k - 1) + 1 = k
    BY <1>1, <2>1
  <2>3. j < k - 1 /\ k - 1 < i /\ t[k - 1] = s[k]
    BY <2>1, <2>2
  <2> QED BY <2>1, <2>2, <2>3 DEF Released
<1>3. ASSUME Ordered(s) PROVE Ordered(t)
  <2> SUFFICES ASSUME NEW i \in 1..Len(t), NEW j \in 1..Len(t), j < i, t[j].op = "take",
                      t[i].op = "take", Rank(t[j].lock) >= Rank(t[i].lock)
               PROVE  Released(t, t[j].lock, j, i)
    BY DEF Ordered
  <2>1. Released(s, s[j + 1].lock, j + 1, i + 1)
    BY <1>1, <1>3 DEF Ordered
  <2> QED BY <1>1, <1>2, <2>1
<1>4. ASSUME Completed(s) PROVE Completed(t)
  <2> SUFFICES ASSUME NEW j \in 1..Len(t), t[j].op = "take"
               PROVE  Released(t, t[j].lock, j, Len(t) + 1)
    BY DEF Completed
  <2>1. Released(s, s[j + 1].lock, j + 1, (Len(t) + 1) + 1)
    BY <1>1, <1>4 DEF Completed
  <2> QED BY <1>1, <1>2, <2>1
<1>5. ASSUME NEW l, NEW i \in Nat, Released(s, l, 1, i + 1) PROVE Released(t, l, 0, i)
  <2>1. 0 \in Nat /\ 0 + 1 = 1
    OBVIOUS
  <2> QED BY <1>2, <1>5, <2>1
<1> QED BY <1>1, <1>3, <1>4, <1>5 DEF t

\* A lock that is held is released later: not in this step, unless it is its own.
LEMMA HeldLater ==
    ASSUME NEW s \in Seq(Steps), s # <<>>, NEW H, HeldInOrder(H, s),
           NEW G \in SUBSET H, s[1].op = "release" => \A h \in G : h.lock # s[1].lock
    PROVE  HeldInOrder(G, Tail(s))
<1>1. ASSUME NEW h \in G, NEW i \in Nat, Released(s, h.lock, 0, i + 1)
      PROVE  Released(Tail(s), h.lock, 0, i)
  <2>1. Released(s, h.lock, 1, i + 1)
    BY <1>1 DEF Released
  <2> QED BY <2>1, TailFacts
<1> SUFFICES ASSUME NEW h \in G
             PROVE  /\ Released(Tail(s), h.lock, 0, Len(Tail(s)) + 1)
                    /\ \A i \in 1..Len(Tail(s)) :
                          Tail(s)[i].op = "take" /\ Rank(h.lock) >= Rank(Tail(s)[i].lock)
                             => Released(Tail(s), h.lock, 0, i)
  BY DEF HeldInOrder
<1>2. Released(Tail(s), h.lock, 0, Len(Tail(s)) + 1)
  <2>1. Released(s, h.lock, 0, (Len(Tail(s)) + 1) + 1)
    BY TailFacts DEF HeldInOrder
  <2> QED BY <1>1, <2>1, TailFacts
<1>3. ASSUME NEW i \in 1..Len(Tail(s)), Tail(s)[i].op = "take",
             Rank(h.lock) >= Rank(Tail(s)[i].lock)
      PROVE  Released(Tail(s), h.lock, 0, i)
  <2>1. Released(s, h.lock, 0, i + 1)
    BY <1>3, TailFacts DEF HeldInOrder
  <2> QED BY <1>1, <2>1
<1> QED BY <1>2, <1>3

\* A lock that is taken now is released later, and before one of a lower rank.
LEMMA TakenLater ==
    ASSUME NEW s \in Seq(Steps), s # <<>>, Ordered(s), Completed(s), s[1].op = "take",
           NEW mode
    PROVE  HeldInOrder({[lock |-> s[1].lock, mode |-> mode]}, Tail(s))
<1> DEFINE l == s[1].lock
<1>1. ASSUME NEW i \in Nat, Released(s, l, 1, i + 1) PROVE Released(Tail(s), l, 0, i)
  BY <1>1, TailFacts
<1>2. Released(Tail(s), l, 0, Len(Tail(s)) + 1)
  <2>1. Released(s, l, 1, (Len(Tail(s)) + 1) + 1)
    BY TailFacts DEF Completed
  <2> QED BY <1>1, <2>1, TailFacts
<1>3. ASSUME NEW i \in 1..Len(Tail(s)), Tail(s)[i].op = "take",
             Rank(l) >= Rank(Tail(s)[i].lock)
      PROVE  Released(Tail(s), l, 0, i)
  <2>1. i + 1 \in 1..Len(s) /\ Tail(s)[i] = s[i + 1] /\ 1 \in 1..Len(s) /\ 1 < i + 1
    BY TailFacts
  <2>2. Released(s, l, 1, i + 1)
    BY <1>3, <2>1 DEF Ordered
  <2> QED BY <1>1, <2>2
<1> QED BY <1>2, <1>3 DEF HeldInOrder

LEMMA HeldTogether ==
    ASSUME NEW s, NEW G, NEW H, HeldInOrder(G, s), HeldInOrder(H, s)
    PROVE  HeldInOrder(G \cup H, s)
BY DEF HeldInOrder

LEMMA LockInvStep == LockInv /\ [LocksNext]_lock_vars => LockInv'
<1> SUFFICES ASSUME LockInv, [LocksNext]_lock_vars PROVE LockInv'
  OBVIOUS
<1> USE DEF LockInv
\* A step of worker w that leaves it with steps s and locks H.
<1>1. ASSUME NEW w \in Workers, NEW s \in Seq(Steps), NEW H \in SUBSET Holdings,
             todo' = [todo EXCEPT ![w] = s], holds' = [holds EXCEPT ![w] = H],
             Ordered(s), Completed(s), HeldInOrder(H, s), parked' = parked \ {w}
      PROVE  LockInv'
  <2>1. /\ todo' \in [Workers -> Seq(Steps)] /\ holds' \in [Workers -> SUBSET Holdings]
        /\ parked' \subseteq Workers
    BY <1>1
  <2>2. ASSUME NEW v \in Workers
        PROVE  Ordered(todo'[v]) /\ Completed(todo'[v]) /\ HeldInOrder(holds'[v], todo'[v])
    BY <1>1
  <2>3. ASSUME NEW v \in parked'
        PROVE  todo'[v] # <<>> /\ Head(todo'[v]) = Take("all_connections", "write")
    BY <1>1, <2>3
  <2> QED BY <2>1, <2>2, <2>3
<1>2. ASSUME NEW w \in Workers, NEW stretch \in Work, Begin(w, stretch) PROVE LockInv'
  <2>1. todo[w] = <<>> /\ Len(todo[w]) = 0
    BY <1>2 DEF Begin, Busy
  <2>2. holds[w] = {}
    BY <2>1 DEF HeldInOrder, Released
  <2>3. stretch \in Seq(Steps) /\ Ordered(stretch) /\ Completed(stretch)
    BY WorkIsSafe DEF Safe
  <2>4. HeldInOrder({}, stretch)
    BY DEF HeldInOrder
  <2>5. holds' = [holds EXCEPT ![w] = {}] /\ parked' = parked \ {w}
    BY <1>2, <2>1, <2>2 DEF Begin
  <2> QED BY <1>1, <1>2, <2>3, <2>4, <2>5 DEF Begin
<1>3. ASSUME NEW w \in Workers, w \in Busy
      PROVE  /\ todo[w] \in Seq(Steps) /\ todo[w] # <<>> /\ Tail(todo[w]) \in Seq(Steps)
             /\ Head(todo[w]) = todo[w][1] /\ todo[w][1] \in Steps
             /\ Ordered(Tail(todo[w])) /\ Completed(Tail(todo[w]))
             /\ w \in parked => todo[w][1] = Take("all_connections", "write")
  <2>1. todo[w] \in Seq(Steps) /\ todo[w] # <<>> /\ Ordered(todo[w]) /\ Completed(todo[w])
    BY <1>3 DEF Busy
  <2>2. w \in parked => Head(todo[w]) = Take("all_connections", "write")
    OBVIOUS
  <2> QED BY <2>1, <2>2, TailFacts
<1>4. ASSUME NEW w \in Workers, w \in Busy, todo[w][1].op = "take",
             NEW mode \in {"lock", "read", "write"},
             todo' = [todo EXCEPT ![w] = Tail(@)], parked' = parked \ {w},
             holds' = [holds EXCEPT ![w] = @ \cup {[lock |-> todo[w][1].lock, mode |-> mode]}]
      PROVE  LockInv'
  <2> DEFINE h == [lock |-> todo[w][1].lock, mode |-> mode]
  <2>1. HeldInOrder(holds[w], Tail(todo[w]))
    BY <1>3, <1>4, HeldLater
  <2>2. HeldInOrder({h}, Tail(todo[w]))
    BY <1>3, <1>4, TakenLater
  <2>3. h \in Holdings
    BY <1>3, <1>4, StepFacts DEF Holdings
  <2> HIDE DEF h
  <2>4. HeldInOrder(holds[w] \cup {h}, Tail(todo[w])) /\ holds[w] \cup {h} \in SUBSET Holdings
    BY <2>1, <2>2, <2>3, HeldTogether
  <2> DEFINE H == holds[w] \cup {h}
             s == Tail(todo[w])
  <2>5. /\ holds' = [holds EXCEPT ![w] = H] /\ H \in SUBSET Holdings /\ HeldInOrder(H, s)
        /\ todo' = [todo EXCEPT ![w] = s]
    BY <1>4, <2>4 DEF h
  <2>6. s \in Seq(Steps) /\ Ordered(s) /\ Completed(s)
    BY <1>3, <1>4
  <2> HIDE DEF H, s
  <2> QED BY <1>1, <1>4, <2>5, <2>6
<1>5. ASSUME NEW w \in Workers, TakeLock(w) PROVE LockInv'
  <2>1. w \in Busy /\ todo[w][1].op = "take" /\ Head(todo[w]) = todo[w][1]
    BY <1>3, <1>5 DEF TakeLock
  <2>2. todo[w][1].mode \in {"lock", "read", "write"}
    BY <1>3, <1>5, <2>1, StepFacts DEF TakeLock
  <2> QED BY <1>4, <1>5, <2>1, <2>2 DEF TakeLock
<1>6. ASSUME NEW w \in Workers, Park(w) PROVE LockInv'
  <2>1. Head(todo[w]) = Take("all_connections", "write") /\ todo[w] # <<>>
    BY <1>3, <1>6, StepFacts DEF Park
  <2> QED BY <1>6, <2>1 DEF Park
<1>7. ASSUME NEW w \in Workers, ReleaseLock(w) PROVE LockInv'
  <2> DEFINE H == {h \in holds[w] : h.lock # todo[w][1].lock}
  <2>1. w \in Busy /\ todo[w][1].op = "release" /\ Head(todo[w]) = todo[w][1] /\ w \notin parked
    BY <1>3, <1>7 DEF ReleaseLock, Take
  <2>2. HeldInOrder(H, Tail(todo[w]))
    BY <1>3, <2>1, HeldLater
  <2>3. H \in SUBSET Holdings /\ holds' = [holds EXCEPT ![w] = H] /\ parked' = parked \ {w}
    BY <1>7, <2>1 DEF ReleaseLock
  <2> HIDE DEF H
  <2> QED BY <1>1, <1>3, <1>7, <2>1, <2>2, <2>3 DEF ReleaseLock
<1>8. ASSUME NEW w \in Workers, NEW had \in BOOLEAN, TryWrite(w, had) PROVE LockInv'
  <2>1. /\ w \in Busy /\ Head(todo[w]) = todo[w][1] /\ w \notin parked
        /\ todo[w][1].op = "take" /\ todo[w][1].lock = "all_connections"
    BY <1>3, <1>8, StepFacts DEF TryWrite, Take
  <2>2. parked' = parked \ {w} /\ todo' = [todo EXCEPT ![w] = Tail(@)]
    BY <1>8, <2>1 DEF TryWrite
  <2>3. CASE had
    <3>1. holds' = [holds EXCEPT ![w] = @ \cup {[lock |-> todo[w][1].lock, mode |-> "write"]}]
      BY <1>8, <2>1, <2>3 DEF TryWrite
    <3> QED BY <1>4, <2>1, <2>2, <3>1
  <2>4. CASE ~had
    <3>1. holds' = [holds EXCEPT ![w] = holds[w]] /\ holds[w] \in SUBSET Holdings
      BY <1>8, <2>4 DEF TryWrite
    <3>2. HeldInOrder(holds[w], Tail(todo[w]))
      BY <1>3, <2>1, HeldLater
    <3> QED BY <1>1, <1>3, <2>1, <2>2, <3>1, <3>2
  <2> QED BY <2>3, <2>4
<1>9. CASE UNCHANGED lock_vars
  BY <1>9 DEF lock_vars
<1> QED BY <1>2, <1>5, <1>6, <1>7, <1>8, <1>9 DEF LocksNext

LEMMA LockInvariance == LocksSpec => []LockInv
<1>1. LocksInit => LockInv
  BY DEF LocksInit, LockInv, Ordered, Completed, HeldInOrder
<1> QED BY <1>1, LockInvStep, PTL DEF LocksSpec

\* The rank of the lock that a worker wants.
Wanted(w) == Rank(Head(todo[w]).lock)

\* Who waits for the holder of a lock wants one of a lower rank than the holder.
LEMMA HoldersWantMore ==
    ASSUME LockInv, NEW w \in Workers, NEW v \in Workers, WaitsFor(w) # {}, WaitsFor(v) # {},
           NEW h \in holds[v], h.lock = Head(todo[w]).lock
    PROVE  Wanted(w) < Wanted(v)
<1>1. todo[v] \in Seq(Steps) /\ todo[v] # <<>> /\ todo[w] \in Seq(Steps) /\ todo[w] # <<>>
  BY DEF LockInv, WaitsFor, Busy
<1>2. Head(todo[v]) = todo[v][1] /\ todo[v][1] \in Steps /\ Head(todo[w]) \in Steps
        /\ 1 \in 1..Len(todo[v])
  BY <1>1, TailFacts
<1>3. todo[v][1].op = "take"
  BY <1>2, StepFacts DEF WaitsFor
<1>4. ~Released(todo[v], h.lock, 0, 1)
  BY DEF Released
<1>5. ~(Rank(h.lock) >= Rank(todo[v][1].lock))
  BY <1>2, <1>3, <1>4 DEF LockInv, HeldInOrder
<1> QED BY <1>2, <1>5, StepFacts, RankFacts DEF Wanted

LEMMA OrderExcludesDeadlock == LockInv => NoDeadlock
<1> SUFFICES ASSUME LockInv, NEW D \in SUBSET Workers, D # {},
                    \A w \in D : WaitsFor(w) \cap D # {}
             PROVE  FALSE
  BY DEF NoDeadlock
<1>1. \A w \in D : Wanted(w) \in 1..6
  <2> SUFFICES ASSUME NEW w \in D PROVE Wanted(w) \in 1..6
    OBVIOUS
  <2>1. todo[w] \in Seq(Steps) /\ todo[w] # <<>>
    BY DEF LockInv, WaitsFor, Busy
  <2> QED BY <2>1, TailFacts, StepFacts, RankFacts DEF Wanted
\* Somebody in D waits for a lock of a higher rank.
<1>2. ASSUME NEW w \in D PROVE \E v \in D : Wanted(w) < Wanted(v)
  <2>1. PICK v \in D : v \in WaitsFor(w)
    OBVIOUS
  <2>2. CASE \E h \in holds[v] : h.lock = Head(todo[w]).lock
    BY <2>2, HoldersWantMore
  <2>3. CASE Head(todo[w]).mode = "read" /\ v \in parked
    <3>1. todo[w] \in Seq(Steps) /\ todo[w] # <<>>
      BY DEF LockInv, WaitsFor, Busy
    <3>2. Head(todo[w]).lock = "all_connections"
      BY <2>3, <3>1, TailFacts, StepFacts
    <3>3. Head(todo[v]).lock = "all_connections" /\ Head(todo[v]).mode = "write"
      <4>1. Head(todo[v]) = Take("all_connections", "write")
        BY <2>3 DEF LockInv
      <4> QED BY <4>1 DEF Take
    <3>4. PICK u \in D : u \in WaitsFor(v)
      OBVIOUS
    <3>5. \E h \in holds[u] : h.lock = Head(todo[v]).lock
      BY <3>3, <3>4 DEF WaitsFor
    <3>6. Wanted(v) < Wanted(u)
      BY <3>5, HoldersWantMore
    <3> QED BY <3>2, <3>3, <3>6 DEF Wanted
  <2> QED BY <2>1, <2>2, <2>3 DEF WaitsFor
<1> HIDE DEF Wanted
<1>3. ASSUME NEW w \in D PROVE Wanted(w) <= 5
  <2>1. PICK v \in D : Wanted(w) < Wanted(v)
    BY <1>2
  <2>2. Wanted(w) \in 1..6 /\ Wanted(v) \in 1..6
    BY <1>1
  <2>3. Wanted(v) <= 6
    BY <2>2
  <2> QED BY <2>1, <2>2, <2>3
<1>4. ASSUME NEW w \in D PROVE Wanted(w) <= 4
  <2>1. PICK v \in D : Wanted(w) < Wanted(v)
    BY <1>2
  <2>2. Wanted(w) \in 1..6 /\ Wanted(v) \in 1..6
    BY <1>1
  <2>3. Wanted(v) <= 5
    BY <1>3
  <2> QED BY <2>1, <2>2, <2>3
<1>5. ASSUME NEW w \in D PROVE Wanted(w) <= 3
  <2>1. PICK v \in D : Wanted(w) < Wanted(v)
    BY <1>2
  <2>2. Wanted(w) \in 1..6 /\ Wanted(v) \in 1..6
    BY <1>1
  <2>3. Wanted(v) <= 4
    BY <1>4
  <2> QED BY <2>1, <2>2, <2>3
<1>6. ASSUME NEW w \in D PROVE Wanted(w) <= 2
  <2>1. PICK v \in D : Wanted(w) < Wanted(v)
    BY <1>2
  <2>2. Wanted(w) \in 1..6 /\ Wanted(v) \in 1..6
    BY <1>1
  <2>3. Wanted(v) <= 3
    BY <1>5
  <2> QED BY <2>1, <2>2, <2>3
<1>7. ASSUME NEW w \in D PROVE Wanted(w) <= 1
  <2>1. PICK v \in D : Wanted(w) < Wanted(v)
    BY <1>2
  <2>2. Wanted(w) \in 1..6 /\ Wanted(v) \in 1..6
    BY <1>1
  <2>3. Wanted(v) <= 2
    BY <1>6
  <2> QED BY <2>1, <2>2, <2>3
<1>8. PICK w \in D, v \in D : Wanted(w) < Wanted(v)
  BY <1>2
<1>9. Wanted(w) \in 1..6 /\ Wanted(v) \in 1..6
  BY <1>1
<1>10. Wanted(v) <= 1
  BY <1>7
<1> QED BY <1>8, <1>9, <1>10

\* However many threads handle packets, timers, ticks and requests at the same time, no
\* set of them is such that each waits for another one of the set: every stretch takes
\* the locks in one order, and a reader that a waiting writer keeps out (all_connections
\* of epoll.rs) waits for what the writer waits for.
THEOREM LocksAreDeadlockFree == LocksSpec => []NoDeadlock
BY LockInvariance, OrderExcludesDeadlock, PTL
------------------------------------------------------------------------------
(* The end of a process.                                                   *)

\* A listener that handles requests has not ended, the Sfu refers to the packet server only
\* while that runs, and main goes on only when all the servers of its process have finished.
OrderlyInv ==
    /\ binary \in {"backend", "frontend"}
    /\ server \in [AllServers -> {"none", "starting", "running", "draining", "ended", "gone",
                                  "panicked"}]
    /\ requests \in [AllServers -> {0, 1}]
    /\ packet_server \in BOOLEAN
    /\ \A s \in AllServers : server[s] # "none" => s \in Servers /\ main \notin {"setup", "failed"}
    /\ \A s \in AllServers : requests[s] # 0 => Listens(s) /\ server[s] \in {"running", "draining"}
    /\ packet_server => server["packet"] = "running"
    /\ main \in {"joined", "exited"} => \A s \in Servers : Finished(s)

LEMMA ServerFacts ==
    ASSUME binary \in {"backend", "frontend"}
    PROVE  /\ Servers \subseteq AllServers /\ "packet" \in AllServers
           /\ \A s \in Listeners : s # "packet"
<1>1. Servers = ServersOf("backend") \/ Servers = ServersOf("frontend")
  BY Zenon DEF Servers
<1>2. Servers \subseteq AllServers
  BY <1>1, Zenon DEF AllServers
<1>3. "packet" \in AllServers
  BY DEF AllServers, ServersOf
<1>4. \A s \in Listeners : s # "packet"
  BY DEF Listeners
<1> QED BY <1>2, <1>3, <1>4, Zenon

LEMMA OrderlyStep == OrderlyInv /\ [ServersNext]_servers_vars => OrderlyInv'
<1> SUFFICES ASSUME OrderlyInv, [ServersNext]_servers_vars PROVE OrderlyInv'
  OBVIOUS
<1> USE ServerFacts DEF OrderlyInv
<1>1. CASE SetUp
  BY <1>1 DEF SetUp, Servers, Finished, Listens
<1>2. CASE SpawnServers
  BY <1>2 DEF SpawnServers, Servers, Finished, Listens
<1>3. CASE Signal \/ Wake
  <2>1. /\ UNCHANGED <<binary, configured, server, requests, packet_server>>
        /\ main = "waiting" /\ main' \in {"waiting", "ending"}
    BY <1>3 DEF Signal, Wake
  <2> QED BY <2>1 DEF Servers, Listens
<1>4. CASE JoinServers \/ Exit
  <2>1. /\ UNCHANGED <<binary, configured, server, requests, packet_server>>
        /\ main \in {"ending", "joined"} /\ main' \in {"joined", "exited"}
        /\ \A s \in Servers : Finished(s)
    BY <1>4 DEF JoinServers, Exit
  <2> QED BY <2>1 DEF Servers, Finished, Listens
\* A step of the task of server s, which has not finished.
<1>5. ASSUME NEW s \in Servers, ~Finished(s), UNCHANGED <<binary, configured, main>>,
             NEW state \in {"running", "draining", "ended", "gone", "panicked"},
             server' = [server EXCEPT ![s] = state],
             server[s] # "none", UNCHANGED requests,
             requests[s] # 0 => state \in {"running", "draining"},
             packet_server' \in BOOLEAN,
             packet_server' => \/ s = "packet" /\ state = "running"
                               \/ s # "packet" /\ packet_server
      PROVE  OrderlyInv'
  BY <1>5 DEF Servers, Finished, Listens
<1>6. ASSUME NEW s \in Servers, NEW succeeds \in BOOLEAN, Start(s, succeeds) PROVE OrderlyInv'
  <2>1. /\ server[s] = "starting" /\ ~Finished(s) /\ requests[s] = 0
        /\ UNCHANGED <<binary, configured, main, requests>>
        /\ packet_server => s # "packet"
    BY <1>6 DEF Start, Finished
  <2>2. CASE Listens(s) /\ Listen(s, succeeds)
    BY <1>5, <2>1, <2>2 DEF Listen, Listens
  <2>3. CASE s = "packet" /\ StartPackets(succeeds)
    BY <1>5, <2>1, <2>3 DEF StartPackets
  <2>4. CASE s = "metrics" /\ StartMetrics(succeeds)
    BY <1>5, <2>1, <2>4 DEF StartMetrics
  <2>5. CASE s \in {"lifecycle", "cleaner", "identity"} /\ StartTask(s, succeeds)
    BY <1>5, <2>1, <2>5 DEF StartTask
  <2>6. CASE s = "internal" /\ server' = [server EXCEPT ![s] = "running"]
               /\ UNCHANGED <<child, packet_server>>
    BY <1>5, <2>1, <2>6
  <2>7. \/ Listens(s) /\ Listen(s, succeeds)
        \/ s = "packet" /\ StartPackets(succeeds)
        \/ s = "metrics" /\ StartMetrics(succeeds)
        \/ s \in {"lifecycle", "cleaner", "identity"} /\ StartTask(s, succeeds)
        \/ /\ s = "internal" /\ server' = [server EXCEPT ![s] = "running"]
           /\ UNCHANGED <<child, packet_server>>
    BY <1>6, Zenon DEF Start
  <2> QED BY <2>2, <2>3, <2>4, <2>5, <2>6, <2>7, Zenon
<1>7. ASSUME NEW s \in Servers, End(s) PROVE OrderlyInv'
  <2> DEFINE state == IF Listens(s) THEN "draining" ELSE "ended"
  <2>1. /\ server[s] = "running" /\ ~Finished(s) /\ server' = [server EXCEPT ![s] = state]
        /\ UNCHANGED <<binary, configured, main, requests>>
        /\ packet_server' = (packet_server /\ s # "packet")
    BY <1>7 DEF End, Finished
  <2>2. state \in {"draining", "ended"} /\ (requests[s] # 0 => state = "draining")
    OBVIOUS
  <2>3. packet_server' \in BOOLEAN /\ (packet_server' => s # "packet" /\ packet_server)
    BY <2>1, Zenon
  <2> HIDE DEF state
  <2> QED BY <1>5, <2>1, <2>2, <2>3
<1>8. ASSUME NEW s \in Servers, Drained(s) \/ Report(s) PROVE OrderlyInv'
  BY <1>5, <1>8 DEF Drained, Report, Finished
<1>9. ASSUME NEW s \in Servers, Request(s) \/ Respond(s) PROVE OrderlyInv'
  <2>1. UNCHANGED <<binary, configured, main, server, packet_server>>
    BY <1>9 DEF Request, Respond
  <2>2. PICK n \in {0, 1} : /\ requests' = [requests EXCEPT ![s] = n]
                            /\ n # 0 => server[s] = "running" /\ Listens(s)
    BY <1>9 DEF Request, Respond
  <2> QED BY <2>1, <2>2 DEF Servers, Finished, Listens
<1>10. ASSUME NEW s \in Servers, ChildEnds(s) PROVE OrderlyInv'
  BY <1>10 DEF ChildEnds, Servers, Finished, Listens
<1>11. CASE UNCHANGED servers_vars
  BY <1>11 DEF servers_vars, Servers, Finished, Listens
<1> QED BY <1>1, <1>2, <1>3, <1>4, <1>6, <1>7, <1>8, <1>9, <1>10, <1>11 DEF ServersNext, Over

\* Whichever servers end, fail to start or panic, and whenever a signal comes, the process
\* exits only when every request has been answered and the Sfu has let go of the packet
\* server ("Wait for the servers to exit" in both main.rs).
THEOREM ExitsInOrder == ServersSpec => []ExitIsOrderly
<1>1. ServersInit => OrderlyInv
  BY DEF ServersInit, OrderlyInv
<1>2. OrderlyInv => ExitIsOrderly
  BY ServerFacts DEF OrderlyInv, ExitIsOrderly, Finished
<1> QED BY <1>1, <1>2, OrderlyStep, PTL DEF ServersSpec
------------------------------------------------------------------------------
(* Approved users, for any set of users and any number of retries.         *)

\* Once the frontend has applied the request under way, it holds the body,
\* unless an older request came in between.
AppliedIsStored ==
    future.phase \in {"applied", "ok"} /\ ~overtaken => stored = future.body

\* A task is under way only while retries are left.
RetriesLeft == future # NoFuture => retry_count <= MaxRetries

IInv == TypeOK /\ RetriesLeft /\ RequestIsCurrent /\ AppliedIsStored /\ IdleMeansStored

LEMMA FutureFacts ==
    /\ NoFuture.phase = "none"
    /\ ~IsFinished(NoFuture)
    /\ \A f \in Futures : f.phase \in Phases /\ f.body \in SUBSET Users /\ f # NoFuture
    /\ \A p \in Phases, b \in SUBSET Users :
          [phase |-> p, body |-> b] \in Futures /\ [phase |-> p, body |-> b] # NoFuture
BY DEF NoFuture, Futures, Phases, IsFinished

LEMMA InitIInv == Init => IInv
<1> SUFFICES ASSUME Init
             PROVE  IInv
  OBVIOUS
<1>1. TypeOK
  <2>1. retry_count \in 0..(MaxRetries + 1)
    BY RetryAssumption DEF Init
  <2>2. QED
    BY <2>1 DEF Init, TypeOK
<1>2. RetriesLeft /\ RequestIsCurrent /\ AppliedIsStored /\ IdleMeansStored
  BY FutureFacts DEF Init, RetriesLeft, RequestIsCurrent, AppliedIsStored, IdleMeansStored
<1>3. QED
  BY <1>1, <1>2 DEF IInv

LEMMA TickStep ==
    ASSUME IInv, tick, UNCHANGED <<stored, late, overtaken>>,
           occupied' \in BOOLEAN, ended' \in BOOLEAN
    PROVE  IInv'
<1>1. TypeOK'
  <2>1. retry_count' \in 0..(MaxRetries + 1)
    BY RetryAssumption, FutureFacts DEF IInv, TypeOK, RetriesLeft, tick, AfterOutcome
  <2>2. future' \in Futures \cup {NoFuture}
    BY FutureFacts DEF IInv, TypeOK, tick, AfterOutcome, Spawn, Phases
  <2>3. modified' \in BOOLEAN /\ abandoned' \in BOOLEAN
    BY DEF IInv, TypeOK, tick
  <2>4. QED
    BY <2>1, <2>2, <2>3 DEF IInv, TypeOK, tick
<1>2. RequestIsCurrent'
  BY FutureFacts DEF IInv, RequestIsCurrent, TypeOK, tick, AfterOutcome, Spawn
<1>3. AppliedIsStored'
  BY FutureFacts DEF IInv, AppliedIsStored, TypeOK, tick, AfterOutcome, Spawn, IsFinished
<1>4. IdleMeansStored'
  BY FutureFacts DEF IInv, RequestIsCurrent, AppliedIsStored, IdleMeansStored, TypeOK,
     tick, AfterOutcome, Spawn, IsFinished, IsBusy, Phases
<1>5. RetriesLeft'
  <2>1. retry_count \in Nat /\ MaxRetries \in Nat /\ (future # NoFuture => retry_count <= MaxRetries)
    BY RetryAssumption DEF IInv, TypeOK, RetriesLeft
  <2>2. CASE IsFinished(future)
    BY <2>1, <2>2 DEF RetriesLeft, tick, AfterOutcome
  <2>3. CASE ~IsFinished(future)
    <3>1. \/ retry_count' = 0
          \/ retry_count' = retry_count /\ future' = future
      BY <2>3 DEF tick
    <3>2. UNCHANGED NoFuture
      BY DEF NoFuture
    <3> QED BY <2>1, <3>1, <3>2 DEF RetriesLeft
  <2> QED BY <2>2, <2>3, Zenon
<1>6. QED
  BY <1>1, <1>2, <1>3, <1>4, <1>5 DEF IInv

LEMMA NextIInv == IInv /\ [Next]_vars => IInv'
<1> SUFFICES ASSUME IInv, [Next]_vars
             PROVE  IInv'
  OBVIOUS
<1> USE FutureFacts DEF IInv, TypeOK, RetriesLeft, RequestIsCurrent, AppliedIsStored, IdleMeansStored, IsBusy
<1>1. CASE Insert
  BY <1>1 DEF Insert
<1>2. CASE Remove
  BY <1>2 DEF Remove
<1>3. CASE Tick
  BY <1>3, TickStep DEF Tick
<1>4. CASE Vacate \/ Rejoin
  BY <1>4 DEF Vacate, Rejoin, struct
<1>5. CASE NextCall
  <2>1. retry_count' \in 0..(MaxRetries + 1)
    BY <1>5, RetryAssumption DEF NextCall
  <2>2. QED
    BY <1>5, <2>1 DEF NextCall
<1>6. ASSUME NEW timeout \in BOOLEAN, Activity(timeout)
      PROVE  IInv'
  BY <1>6, TickStep DEF Activity
<1>7. CASE Send \/ Answer \/ Fail
  BY <1>7 DEF Send, Answer, Fail, Becomes, Futures, Phases
<1>8. CASE Apply
  BY <1>8 DEF Apply, Becomes, Futures, Phases
<1>9. CASE TimeOut \/ Cancel
  <2>1. late' \in SUBSET SUBSET Users
    BY <1>9 DEF TimeOut, Cancel, LeftBehind
  <2>2. future \in Futures /\ future' \in Futures /\ future'.body = future.body
        /\ future'.phase \in {"error", "cancelled"}
    BY <1>9 DEF TimeOut, Cancel, Becomes, Futures, Phases
  <2>3. QED
    BY <1>9, <2>1, <2>2 DEF TimeOut, Cancel, Becomes
<1>10. CASE ApplyLate
  <2>1. late' \in SUBSET SUBSET Users
    BY <1>10 DEF ApplyLate
  <2>2. /\ stored' \in SUBSET Users
        /\ UNCHANGED <<set, modified, retry_count, future, occupied, ended, abandoned>>
        /\ (overtaken' = TRUE \/ UNCHANGED <<stored, overtaken>>)
    BY <1>10 DEF ApplyLate, struct
  <2>3. CASE overtaken' = TRUE
    BY <2>1, <2>2, <2>3
  <2>4. CASE UNCHANGED <<stored, overtaken>>
    BY <2>1, <2>2, <2>4
  <2>5. QED
    BY <2>2, <2>3, <2>4
<1>11. CASE UNCHANGED vars
  BY <1>11 DEF vars
<1>12. QED
  BY <1>1, <1>2, <1>3, <1>4, <1>5, <1>6, <1>7, <1>8, <1>9, <1>10, <1>11 DEF Next

LEMMA Inductive == Spec => []IInv
BY InitIInv, NextIInv, PTL DEF Spec

\* The struct keeps its type; in particular the u8 retry_count stops one past
\* the number of retries.
THEOREM TypeCorrect == Spec => []TypeOK
BY Inductive, PTL DEF IInv

\* A request, first attempt or retry, is never older than the set unless the
\* change is flagged for another request.
THEOREM RequestsAreCurrent == Spec => []RequestIsCurrent
BY Inductive, PTL DEF IInv

\* An idle set is the stored one, for any interleaving of changes, requests,
\* failures, timeouts and late deliveries.
THEOREM NothingIsLost == Spec => []IdleMeansStored
BY Inductive, PTL DEF IInv

\* What the call approved is stored, or a request that says so is under way or due.
THEOREM ApprovalsStored == Spec => []ApprovalsAreStored
BY RequestsAreCurrent, NothingIsLost, PTL DEF ApprovalsAreStored
==============================================================================
