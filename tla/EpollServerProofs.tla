-------------------------- MODULE EpollServerProofs --------------------------
(***************************************************************************)
(* Proofs about EpollServer, for any addresses, threads and times: what    *)
(* the methods of ConnectionMap do to the tables, and the invariants that  *)
(* hold although a thread lets go of the lock between its steps.           *)
(***************************************************************************)
EXTENDS EpollServer, FiniteSetTheorems, NaturalsInduction, WellFoundedInduction, TLAPS

Entries == [state : {"New", "Connected", "Closed"}, fd : Fds \cup {0}, age : 0..ClosedTicks]

MapOK(m) ==
    /\ m = [by_fd |-> m.by_fd, by_peer_addr |-> m.by_peer_addr,
            inactive_ttls |-> m.inactive_ttls]
    /\ m.by_fd \in [DOMAIN m.by_fd -> Addrs] /\ DOMAIN m.by_fd \subseteq Fds
    /\ m.by_peer_addr \in [DOMAIN m.by_peer_addr -> Entries]
    /\ DOMAIN m.by_peer_addr \subseteq Addrs
    /\ m.inactive_ttls \in [DOMAIN m.inactive_ttls -> Int]
    /\ Agree(m)

Age(m, a) == m.by_peer_addr[a].age

\* What happens to an address from one lock of the map to the next, unless closed
\* addresses are freed: a socket is closed, and a closed address stays so.
Evolves(m, n) ==
    \A a \in Addrs :
        /\ HasSocket(m, a) => HasSocket(n, a) \/ (StateOf(n, a) = "Closed" /\ Age(n, a) = 0)
        /\ StateOf(m, a) = "Closed" => StateOf(n, a) = "Closed" /\ Age(n, a) = Age(m, a)
------------------------------------------------------------------------------
(* The methods of ConnectionMap.                                           *)

LEMMA StateFacts ==
    ASSUME NEW m, MapOK(m), NEW a
    PROVE  /\ StateOf(m, a) \in {"New", "Connected", "Closed", "NotYetConnected"}
           /\ StateOf(m, a) = "NotYetConnected" <=> a \notin DOMAIN m.by_peer_addr
           /\ a \in DOMAIN m.by_peer_addr => /\ StateOf(m, a) = m.by_peer_addr[a].state
                                             /\ m.by_peer_addr[a] \in Entries
           /\ HasSocket(m, a) <=> StateOf(m, a) \notin {"Closed", "NotYetConnected"}
BY DEF MapOK, StateOf, HasSocket, Entries

\* get_or_insert_connected with a descriptor that is not in use.
LEMMA InsertFacts ==
    ASSUME NEW m, MapOK(m), NEW fd \in Fds \ DOMAIN m.by_fd, NEW a \in Addrs
    PROVE  LET n == GetOrInsertConnected(m, fd, a)
           IN  /\ MapOK(n)
               /\ HasSocket(n, a)
               /\ DOMAIN n.by_peer_addr = DOMAIN m.by_peer_addr \cup {a}
               /\ \A b \in DOMAIN m.by_peer_addr :
                     b # a \/ HasSocket(m, a) => n.by_peer_addr[b] = m.by_peer_addr[b]
<1> DEFINE n == GetOrInsertConnected(m, fd, a)
<1>1. CASE HasSocket(m, a)
  BY <1>1 DEF GetOrInsertConnected, HasSocket, StateOf
<1>2. CASE ~HasSocket(m, a)
  <2> DEFINE entry == IF a \in Udp THEN Connected(fd) ELSE New(fd)
             ttls  == IF a \in Udp \cup DOMAIN m.inactive_ttls THEN m.inactive_ttls
                      ELSE Put(m.inactive_ttls, a, InactiveTtl)
  <2>1. /\ n.by_fd = Put(m.by_fd, fd, a) /\ n.by_peer_addr = Put(m.by_peer_addr, a, entry)
        /\ n.inactive_ttls = ttls
        /\ n = [by_fd |-> n.by_fd, by_peer_addr |-> n.by_peer_addr,
                inactive_ttls |-> n.inactive_ttls]
    BY <1>2 DEF GetOrInsertConnected
  <2>2. /\ entry \in Entries /\ entry.fd = fd
        /\ entry.state = IF a \in Udp THEN "Connected" ELSE "New"
    BY TicksAssumption DEF Connected, New, Entries
  <2>3. a \notin DOMAIN m.inactive_ttls
    BY <1>2 DEF MapOK, Agree, HasSocket, StateOf
  <2>4. /\ ttls \in [DOMAIN ttls -> Int]
        /\ DOMAIN ttls = IF a \in Udp THEN DOMAIN m.inactive_ttls
                         ELSE DOMAIN m.inactive_ttls \cup {a}
    BY <2>3, TicksAssumption DEF MapOK, Put
  <2> HIDE DEF entry, ttls, n
  <2>5. /\ n.by_fd \in [DOMAIN n.by_fd -> Addrs] /\ DOMAIN n.by_fd = DOMAIN m.by_fd \cup {fd}
        /\ n.by_fd[fd] = a /\ \A x \in DOMAIN m.by_fd : n.by_fd[x] = m.by_fd[x]
    BY <2>1 DEF Put, MapOK
  <2>6. /\ n.by_peer_addr \in [DOMAIN n.by_peer_addr -> Entries]
        /\ DOMAIN n.by_peer_addr = DOMAIN m.by_peer_addr \cup {a}
        /\ n.by_peer_addr[a] = entry
        /\ \A b \in DOMAIN m.by_peer_addr : b # a => n.by_peer_addr[b] = m.by_peer_addr[b]
    BY <2>1, <2>2 DEF Put, MapOK
  <2>7. HasSocket(n, a) /\ \A b \in DOMAIN m.by_peer_addr : b # a =>
            (HasSocket(n, b) <=> HasSocket(m, b))
    BY <2>2, <2>6 DEF HasSocket, StateOf
  <2>8. ASSUME NEW b \in DOMAIN n.by_peer_addr, HasSocket(n, b)
        PROVE  /\ n.by_peer_addr[b].fd \in DOMAIN n.by_fd
               /\ n.by_fd[n.by_peer_addr[b].fd] = b
    BY <2>2, <2>5, <2>6, <2>7, <2>8 DEF MapOK, Agree
  <2>9. ASSUME NEW x \in DOMAIN n.by_fd
        PROVE  HasSocket(n, n.by_fd[x]) /\ n.by_peer_addr[n.by_fd[x]].fd = x
    <3>1. CASE x = fd
      BY <2>2, <2>5, <2>6, <2>7, <3>1
    <3>2. CASE x # fd
      <4>1. /\ x \in DOMAIN m.by_fd /\ n.by_fd[x] = m.by_fd[x]
            /\ HasSocket(m, m.by_fd[x]) /\ m.by_peer_addr[m.by_fd[x]].fd = x
        BY <2>5, <3>2 DEF MapOK, Agree
      <4>2. m.by_fd[x] # a /\ m.by_fd[x] \in DOMAIN m.by_peer_addr
        BY <1>2, <4>1 DEF HasSocket, StateOf
      <4> QED BY <2>6, <2>7, <4>1, <4>2
    <3> QED BY <3>1, <3>2
  <2>10. DOMAIN n.inactive_ttls = {b \in DOMAIN n.by_peer_addr : n.by_peer_addr[b].state = "New"}
    <3>1. DOMAIN m.inactive_ttls = {b \in DOMAIN m.by_peer_addr : m.by_peer_addr[b].state = "New"}
      BY DEF MapOK, Agree
    <3> QED BY <2>1, <2>2, <2>3, <2>4, <2>6, <3>1
  <2>11. Agree(n)
    BY <2>8, <2>9, <2>10 DEF Agree
  <2>12. MapOK(n)
    BY <2>1, <2>4, <2>5, <2>6, <2>11 DEF MapOK
  <2> QED BY <1>2, <2>6, <2>7, <2>12 DEF n
<1> QED BY <1>1, <1>2

\* mark_closed.
LEMMA CloseFacts ==
    ASSUME NEW m, MapOK(m), NEW S
    PROVE  LET n == MarkClosed(m, S)
           IN  /\ MapOK(n)
               /\ DOMAIN n.by_peer_addr = DOMAIN m.by_peer_addr
               /\ \A b \in DOMAIN m.by_peer_addr :
                     n.by_peer_addr[b] = IF b \in S /\ HasSocket(m, b) THEN Closed
                                         ELSE m.by_peer_addr[b]
<1> DEFINE n   == MarkClosed(m, S)
           fds == {m.by_peer_addr[a].fd : a \in Open(m, S)}
<1>1. /\ n.by_fd = Without(m.by_fd, fds)
      /\ n.by_peer_addr = [a \in DOMAIN m.by_peer_addr |->
                              IF a \in Open(m, S) THEN Closed ELSE m.by_peer_addr[a]]
      /\ n.inactive_ttls = Without(m.inactive_ttls,
                               {a \in Open(m, S) : m.by_peer_addr[a].state = "New"})
      /\ n = [by_fd |-> n.by_fd, by_peer_addr |-> n.by_peer_addr,
              inactive_ttls |-> n.inactive_ttls]
  BY DEF MarkClosed
<1>2. /\ Closed \in Entries /\ Closed.state = "Closed"
  BY TicksAssumption DEF Closed, Entries
<1>3. \A a \in Open(m, S) : a \in DOMAIN m.by_peer_addr /\ a \in S /\ HasSocket(m, a)
  BY DEF Open, HasSocket, StateOf
<1> HIDE DEF n
<1>4. /\ n.by_peer_addr \in [DOMAIN n.by_peer_addr -> Entries]
      /\ DOMAIN n.by_peer_addr = DOMAIN m.by_peer_addr
      /\ \A b \in DOMAIN m.by_peer_addr :
            n.by_peer_addr[b] = IF b \in Open(m, S) THEN Closed ELSE m.by_peer_addr[b]
  BY <1>1, <1>2 DEF MapOK
<1>5. /\ n.by_fd \in [DOMAIN n.by_fd -> Addrs] /\ DOMAIN n.by_fd = DOMAIN m.by_fd \ fds
      /\ \A x \in DOMAIN n.by_fd : n.by_fd[x] = m.by_fd[x]
  BY <1>1 DEF MapOK, Without
<1>6. /\ n.inactive_ttls \in [DOMAIN n.inactive_ttls -> Int]
      /\ DOMAIN n.inactive_ttls = DOMAIN m.inactive_ttls
                                     \ {a \in Open(m, S) : m.by_peer_addr[a].state = "New"}
  BY <1>1 DEF MapOK, Without
<1>7. \A b \in DOMAIN m.by_peer_addr :
         HasSocket(n, b) <=> HasSocket(m, b) /\ b \notin Open(m, S)
  BY <1>2, <1>3, <1>4 DEF HasSocket, StateOf
<1>8. ASSUME NEW b \in DOMAIN n.by_peer_addr, HasSocket(n, b)
      PROVE  /\ n.by_peer_addr[b].fd \in DOMAIN n.by_fd
             /\ n.by_fd[n.by_peer_addr[b].fd] = b
  <2>1. /\ b \in DOMAIN m.by_peer_addr /\ HasSocket(m, b) /\ b \notin Open(m, S)
        /\ n.by_peer_addr[b] = m.by_peer_addr[b]
    BY <1>4, <1>7, <1>8
  <2>2. m.by_peer_addr[b].fd \in DOMAIN m.by_fd /\ m.by_fd[m.by_peer_addr[b].fd] = b
    BY <2>1 DEF MapOK, Agree
  <2>3. m.by_peer_addr[b].fd \notin fds
    <3> SUFFICES ASSUME NEW a \in Open(m, S), m.by_peer_addr[a].fd = m.by_peer_addr[b].fd
                 PROVE  FALSE
      OBVIOUS
    <3>1. m.by_fd[m.by_peer_addr[a].fd] = a
      BY <1>3 DEF MapOK, Agree
    <3> QED BY <2>1, <2>2, <3>1
  <2> HIDE DEF fds
  <2> QED BY <1>5, <2>1, <2>2, <2>3
<1>9. ASSUME NEW x \in DOMAIN n.by_fd
      PROVE  HasSocket(n, n.by_fd[x]) /\ n.by_peer_addr[n.by_fd[x]].fd = x
  <2>1. /\ x \in DOMAIN m.by_fd /\ x \notin fds /\ n.by_fd[x] = m.by_fd[x]
        /\ HasSocket(m, m.by_fd[x]) /\ m.by_peer_addr[m.by_fd[x]].fd = x
    BY <1>5 DEF MapOK, Agree
  <2>2. m.by_fd[x] \notin Open(m, S) /\ m.by_fd[x] \in DOMAIN m.by_peer_addr
    BY <2>1 DEF HasSocket, StateOf
  <2> QED BY <1>4, <1>7, <2>1, <2>2
<1>10. DOMAIN n.inactive_ttls = {b \in DOMAIN n.by_peer_addr : n.by_peer_addr[b].state = "New"}
  <2>1. DOMAIN m.inactive_ttls = {b \in DOMAIN m.by_peer_addr : m.by_peer_addr[b].state = "New"}
    BY DEF MapOK, Agree
  <2> QED BY <1>2, <1>3, <1>4, <1>6, <2>1
<1>11. Agree(n)
  BY <1>8, <1>9, <1>10 DEF Agree
<1>12. MapOK(n)
  BY <1>1, <1>4, <1>5, <1>6, <1>11 DEF MapOK
<1> QED BY <1>3, <1>4, <1>12 DEF n, Open

\* remove_closed.
LEMMA RemoveFacts ==
    ASSUME NEW m, MapOK(m), NEW S
    PROVE  LET n == RemoveClosed(m, S)
           IN  /\ MapOK(n)
               /\ DOMAIN n.by_peer_addr =
                     DOMAIN m.by_peer_addr \ {a \in S : StateOf(m, a) = "Closed"}
               /\ \A b \in DOMAIN n.by_peer_addr : n.by_peer_addr[b] = m.by_peer_addr[b]
<1> DEFINE n == RemoveClosed(m, S)
           R == {a \in S : StateOf(m, a) = "Closed"}
<1>1. /\ n.by_fd = m.by_fd /\ n.inactive_ttls = m.inactive_ttls
      /\ n.by_peer_addr = Without(m.by_peer_addr, R)
      /\ n = [by_fd |-> n.by_fd, by_peer_addr |-> n.by_peer_addr,
              inactive_ttls |-> n.inactive_ttls]
  BY DEF RemoveClosed, MapOK
<1> HIDE DEF n
<1>2. /\ n.by_peer_addr \in [DOMAIN n.by_peer_addr -> Entries]
      /\ DOMAIN n.by_peer_addr = DOMAIN m.by_peer_addr \ R
      /\ \A b \in DOMAIN n.by_peer_addr : n.by_peer_addr[b] = m.by_peer_addr[b]
  BY <1>1 DEF MapOK, Without
<1>3. \A b : HasSocket(n, b) <=> HasSocket(m, b)
  BY <1>2 DEF HasSocket, StateOf
<1>4. \A b : HasSocket(m, b) => b \in DOMAIN n.by_peer_addr
  BY <1>2 DEF HasSocket, StateOf
<1>5. DOMAIN n.inactive_ttls = {b \in DOMAIN n.by_peer_addr : n.by_peer_addr[b].state = "New"}
  <2>1. DOMAIN m.inactive_ttls = {b \in DOMAIN m.by_peer_addr : m.by_peer_addr[b].state = "New"}
    BY DEF MapOK, Agree
  <2>2. \A b \in R : b \in DOMAIN m.by_peer_addr => m.by_peer_addr[b].state # "New"
    BY DEF StateOf
  <2> HIDE DEF R
  <2> QED BY <1>1, <1>2, <2>1, <2>2
<1>6. Agree(n)
  <2>1. /\ \A a \in DOMAIN m.by_peer_addr : HasSocket(m, a) =>
              m.by_peer_addr[a].fd \in DOMAIN m.by_fd /\ m.by_fd[m.by_peer_addr[a].fd] = a
        /\ \A fd \in DOMAIN m.by_fd :
              HasSocket(m, m.by_fd[fd]) /\ m.by_peer_addr[m.by_fd[fd]].fd = fd
    BY DEF MapOK, Agree
  <2>2. \A a \in DOMAIN n.by_peer_addr : HasSocket(n, a) =>
            n.by_peer_addr[a].fd \in DOMAIN n.by_fd /\ n.by_fd[n.by_peer_addr[a].fd] = a
    BY <1>1, <1>2, <1>3, <2>1
  <2>3. \A fd \in DOMAIN n.by_fd :
            HasSocket(n, n.by_fd[fd]) /\ n.by_peer_addr[n.by_fd[fd]].fd = fd
    BY <1>1, <1>2, <1>3, <1>4, <2>1
  <2> QED BY <1>5, <2>2, <2>3 DEF Agree
<1>7. MapOK(n)
  BY <1>1, <1>2, <1>6 DEF MapOK
<1> QED BY <1>2, <1>7 DEF n

\* A change of the entries that keeps their descriptors, and that of the times to live which
\* goes with it.
LEMMA RelabelFacts ==
    ASSUME NEW m, MapOK(m), NEW n,
           n = [by_fd |-> m.by_fd, by_peer_addr |-> n.by_peer_addr,
                inactive_ttls |-> n.inactive_ttls],
           n.by_peer_addr \in [DOMAIN m.by_peer_addr -> Entries],
           \A a \in DOMAIN m.by_peer_addr :
              /\ HasSocket(n, a) <=> HasSocket(m, a)
              /\ HasSocket(m, a) => n.by_peer_addr[a].fd = m.by_peer_addr[a].fd,
           n.inactive_ttls \in [DOMAIN n.inactive_ttls -> Int],
           DOMAIN n.inactive_ttls = {a \in DOMAIN m.by_peer_addr : n.by_peer_addr[a].state = "New"}
    PROVE  MapOK(n)
<1>1. n.by_fd = m.by_fd /\ DOMAIN n.by_peer_addr = DOMAIN m.by_peer_addr
  OBVIOUS
<1>2. \A a \in DOMAIN m.by_peer_addr : HasSocket(n, a) =>
          n.by_peer_addr[a].fd \in DOMAIN n.by_fd /\ n.by_fd[n.by_peer_addr[a].fd] = a
  BY <1>1 DEF MapOK, Agree
<1>3. ASSUME NEW fd \in DOMAIN n.by_fd
      PROVE  HasSocket(n, n.by_fd[fd]) /\ n.by_peer_addr[n.by_fd[fd]].fd = fd
  <2>1. HasSocket(m, m.by_fd[fd]) /\ m.by_peer_addr[m.by_fd[fd]].fd = fd
    BY <1>1 DEF MapOK, Agree
  <2>2. m.by_fd[fd] \in DOMAIN m.by_peer_addr
    BY <2>1 DEF HasSocket, StateOf
  <2> QED BY <1>1, <2>1, <2>2
<1>4. Agree(n)
  BY <1>1, <1>2, <1>3 DEF Agree
<1> QED BY <1>1, <1>4 DEF MapOK

\* mark_as_active.
LEMMA ActiveFacts ==
    ASSUME NEW m, MapOK(m), NEW a
    PROVE  LET n == MarkAsActive(m, a)
           IN  /\ MapOK(n)
               /\ DOMAIN n.by_peer_addr = DOMAIN m.by_peer_addr
               /\ \A b \in DOMAIN m.by_peer_addr :
                     \/ n.by_peer_addr[b] = m.by_peer_addr[b]
                     \/ HasSocket(m, b) /\ HasSocket(n, b)
<1> DEFINE n == MarkAsActive(m, a)
<1>1. /\ n.by_fd = m.by_fd /\ n.inactive_ttls = Without(m.inactive_ttls, {a})
      /\ n.by_peer_addr = [b \in DOMAIN m.by_peer_addr |->
                              IF b = a /\ m.by_peer_addr[b].state = "New"
                              THEN Connected(m.by_peer_addr[b].fd) ELSE m.by_peer_addr[b]]
      /\ n = [by_fd |-> m.by_fd, by_peer_addr |-> n.by_peer_addr,
              inactive_ttls |-> n.inactive_ttls]
  BY DEF MarkAsActive, MapOK
<1> HIDE DEF n
<1>2. \A b \in DOMAIN m.by_peer_addr :
         /\ m.by_peer_addr[b] \in Entries
         /\ Connected(m.by_peer_addr[b].fd) \in Entries
         /\ Connected(m.by_peer_addr[b].fd).state = "Connected"
         /\ Connected(m.by_peer_addr[b].fd).fd = m.by_peer_addr[b].fd
  BY TicksAssumption DEF Connected, MapOK, Entries
<1>3. /\ n.by_peer_addr \in [DOMAIN m.by_peer_addr -> Entries]
      /\ DOMAIN n.by_peer_addr = DOMAIN m.by_peer_addr
      /\ \A b \in DOMAIN m.by_peer_addr : n.by_peer_addr[b] =
            IF b = a /\ m.by_peer_addr[b].state = "New"
            THEN Connected(m.by_peer_addr[b].fd) ELSE m.by_peer_addr[b]
  BY <1>1, <1>2
<1>4. \A b \in DOMAIN m.by_peer_addr :
         /\ HasSocket(n, b) <=> HasSocket(m, b)
         /\ n.by_peer_addr[b].fd = m.by_peer_addr[b].fd
         /\ n.by_peer_addr[b] = m.by_peer_addr[b] \/ (HasSocket(m, b) /\ HasSocket(n, b))
  BY <1>2, <1>3 DEF HasSocket, StateOf
<1>5. DOMAIN m.inactive_ttls = {b \in DOMAIN m.by_peer_addr : m.by_peer_addr[b].state = "New"}
  BY DEF MapOK, Agree
<1>6. /\ n.inactive_ttls \in [DOMAIN n.inactive_ttls -> Int]
      /\ DOMAIN n.inactive_ttls = DOMAIN m.inactive_ttls \ {a}
  BY <1>1 DEF MapOK, Without
<1>7. DOMAIN n.inactive_ttls = {b \in DOMAIN m.by_peer_addr : n.by_peer_addr[b].state = "New"}
  BY <1>2, <1>3, <1>5, <1>6
<1>8. MapOK(n)
  BY <1>1, <1>3, <1>4, <1>6, <1>7, RelabelFacts
<1> QED BY <1>3, <1>4, <1>8 DEF n

\* A tick passes.
LEMMA OlderFacts ==
    ASSUME NEW m, MapOK(m)
    PROVE  LET n == OlderMap(m)
           IN  /\ MapOK(n)
               /\ DOMAIN n.by_peer_addr = DOMAIN m.by_peer_addr
               /\ \A a : StateOf(n, a) = StateOf(m, a)
               /\ \A a : StateOf(m, a) = "Closed" => Age(n, a) = Older(Age(m, a), ClosedTicks)
<1> DEFINE n == OlderMap(m)
           entry(a) == IF m.by_peer_addr[a].state = "Closed"
                       THEN [state |-> "Closed", fd |-> 0,
                             age |-> Older(m.by_peer_addr[a].age, ClosedTicks)]
                       ELSE m.by_peer_addr[a]
<1>1. /\ n = [by_fd |-> m.by_fd, by_peer_addr |-> n.by_peer_addr,
              inactive_ttls |-> n.inactive_ttls]
      /\ n.inactive_ttls = m.inactive_ttls
      /\ n.by_peer_addr = [a \in DOMAIN m.by_peer_addr |-> entry(a)]
  BY DEF OlderMap, MapOK
<1>2. ASSUME NEW a \in DOMAIN m.by_peer_addr
      PROVE  /\ entry(a) \in Entries /\ entry(a).state = m.by_peer_addr[a].state
             /\ m.by_peer_addr[a].state # "Closed" => entry(a).fd = m.by_peer_addr[a].fd
             /\ m.by_peer_addr[a].state = "Closed" =>
                   entry(a).age = Older(m.by_peer_addr[a].age, ClosedTicks)
  <2>1. m.by_peer_addr[a] \in Entries
    BY DEF MapOK
  <2>2. m.by_peer_addr[a].age \in 0..ClosedTicks
    BY <2>1 DEF Entries
  <2>3. Older(m.by_peer_addr[a].age, ClosedTicks) \in 0..ClosedTicks
    BY <2>2, TicksAssumption DEF Older
  <2> QED BY <2>1, <2>3 DEF Entries
<1> HIDE DEF n, entry
<1>3. /\ n.by_peer_addr \in [DOMAIN m.by_peer_addr -> Entries]
      /\ DOMAIN n.by_peer_addr = DOMAIN m.by_peer_addr
      /\ \A a \in DOMAIN m.by_peer_addr : n.by_peer_addr[a] = entry(a)
  BY <1>1, <1>2
<1>4. \A a : StateOf(n, a) = StateOf(m, a)
  BY <1>2, <1>3 DEF StateOf
<1>5. \A a : StateOf(m, a) = "Closed" => Age(n, a) = Older(Age(m, a), ClosedTicks)
  BY <1>2, <1>3 DEF StateOf, Age
<1>6. \A a \in DOMAIN m.by_peer_addr :
         /\ HasSocket(n, a) <=> HasSocket(m, a)
         /\ HasSocket(m, a) => n.by_peer_addr[a].fd = m.by_peer_addr[a].fd
  BY <1>2, <1>3 DEF HasSocket, StateOf
<1>7. DOMAIN n.inactive_ttls = {a \in DOMAIN m.by_peer_addr : n.by_peer_addr[a].state = "New"}
  BY <1>1, <1>2, <1>3 DEF MapOK, Agree
<1>8. n.inactive_ttls \in [DOMAIN n.inactive_ttls -> Int]
  BY <1>1 DEF MapOK
<1>9. MapOK(n)
  BY <1>1, <1>3, <1>6, <1>7, <1>8, RelabelFacts
<1> QED BY <1>3, <1>4, <1>5, <1>9 DEF n

\* The next tick number.
LEMMA TtlFacts ==
    ASSUME NEW m, MapOK(m)
    PROVE  LET n == NextTickNumber(m)
           IN  MapOK(n) /\ n.by_peer_addr = m.by_peer_addr
<1> DEFINE n == NextTickNumber(m)
<1>1. /\ n = [by_fd |-> m.by_fd, by_peer_addr |-> n.by_peer_addr,
              inactive_ttls |-> n.inactive_ttls]
      /\ n.by_peer_addr = m.by_peer_addr
      /\ n.inactive_ttls = [a \in DOMAIN m.inactive_ttls |->
                               IF m.inactive_ttls[a] < 0 THEN m.inactive_ttls[a]
                               ELSE m.inactive_ttls[a] - 1]
  BY DEF NextTickNumber, MapOK
<1> HIDE DEF n
<1>2. /\ n.inactive_ttls \in [DOMAIN n.inactive_ttls -> Int]
      /\ DOMAIN n.inactive_ttls = DOMAIN m.inactive_ttls
  BY <1>1 DEF MapOK
<1>3. /\ n.by_peer_addr \in [DOMAIN m.by_peer_addr -> Entries]
      /\ \A a \in DOMAIN m.by_peer_addr : HasSocket(n, a) <=> HasSocket(m, a)
      /\ DOMAIN n.inactive_ttls = {a \in DOMAIN m.by_peer_addr : n.by_peer_addr[a].state = "New"}
  BY <1>1, <1>2 DEF MapOK, HasSocket, StateOf, Agree
<1>4. MapOK(n)
  BY <1>1, <1>2, <1>3, RelabelFacts
<1> QED BY <1>1, <1>4 DEF n

\* There is always a descriptor left: a descriptor in use is that of one address.
LEMMA FreeFd ==
    ASSUME NEW m, MapOK(m)
    PROVE  Min(Fds \ DOMAIN m.by_fd) \in Fds \ DOMAIN m.by_fd
<1> DEFINE F == Fds \ DOMAIN m.by_fd
<1>1. m.by_fd \in Injection(DOMAIN m.by_fd, Addrs)
  BY DEF MapOK, Agree, Injection, IsInjective
<1>2. Cardinality(DOMAIN m.by_fd) <= Cardinality(Addrs)
  BY <1>1, AddressAssumption, FS_Injection DEF Addrs
<1>3. DOMAIN m.by_fd # Fds
  <2>1. Cardinality(Fds) \in Nat /\ Cardinality(Addrs) \in Nat
    BY AddressAssumption, FdsAssumption, FS_CardinalityType DEF Addrs
  <2> QED BY <1>2, <2>1, FdsAssumption DEF Addrs
<1>4. F # {} /\ F \subseteq Nat
  BY <1>3, FdsAssumption DEF MapOK
<1> HIDE DEF F
<1> DEFINE less == {ss \in Nat \X Nat : ss[1] < ss[2]}
<1>5. IsWellFoundedOn(less, Nat)
  BY NatLessThanWellFounded, Zenon DEF OpToRel
<1>6. \E x \in F : \A y \in F : ~(<<y, x>> \in less)
  <2> HIDE DEF less
  <2> QED BY <1>4, <1>5, WFMin
<1>7. PICK x \in F : \A y \in F : ~(<<y, x>> \in less)
  BY <1>6
<1>8. \A y \in F : x =< y
  <2> SUFFICES ASSUME NEW y \in F, ~(x =< y) PROVE FALSE
    OBVIOUS
  <2>1. x \in Nat /\ y \in Nat /\ y < x
    BY <1>4
  <2>2. <<y, x>> \in less
    BY <2>1
  <2> QED BY <1>7, <2>2
<1> QED BY <1>8 DEF Min, F

\* The end of send_packet.
LEMMA ConnectFacts ==
    ASSUME NEW m, MapOK(m), NEW fd \in Fds \ DOMAIN m.by_fd, NEW a \in Addrs, NEW ok \in BOOLEAN
    PROVE  LET n == ConnectedNow(m, fd, a, ok)
           IN  /\ MapOK(n) /\ Evolves(m, n)
               /\ DOMAIN n.by_peer_addr \cap Tcp \subseteq DOMAIN m.by_peer_addr
<1> DEFINE k == IF StateOf(m, a) = "NotYetConnected" /\ a \in Udp
                THEN GetOrInsertConnected(m, fd, a) ELSE m
           n == ConnectedNow(m, fd, a, ok)
<1>1. /\ MapOK(k) /\ DOMAIN m.by_peer_addr \subseteq DOMAIN k.by_peer_addr
      /\ DOMAIN k.by_peer_addr \cap Tcp \subseteq DOMAIN m.by_peer_addr
      /\ \A b \in DOMAIN m.by_peer_addr : k.by_peer_addr[b] = m.by_peer_addr[b]
  <2>1. CASE StateOf(m, a) = "NotYetConnected" /\ a \in Udp
    BY <2>1, InsertFacts, StateFacts, AddressAssumption
  <2>2. CASE ~(StateOf(m, a) = "NotYetConnected" /\ a \in Udp)
    BY <2>2
  <2> QED BY <2>1, <2>2
<1>2. n = CASE HasSocket(k, a) /\ ~ok      -> MarkClosed(k, {a})
            [] StateOf(k, a) = "New" /\ ok -> MarkAsActive(k, a)
            [] OTHER                       -> k
  BY DEF ConnectedNow
<1> HIDE DEF k, n
<1>3. \A b : /\ HasSocket(m, b) => HasSocket(k, b)
             /\ StateOf(m, b) = "Closed" => StateOf(k, b) = "Closed" /\ Age(k, b) = Age(m, b)
  BY <1>1 DEF HasSocket, StateOf, Age
<1>4. n = MarkClosed(k, {a}) \/ n = MarkAsActive(k, a) \/ n = k
  BY <1>2
<1>5. /\ MapOK(n) /\ DOMAIN n.by_peer_addr = DOMAIN k.by_peer_addr
      /\ \A b \in DOMAIN k.by_peer_addr :
            \/ n.by_peer_addr[b] = k.by_peer_addr[b]
            \/ HasSocket(k, b) /\ HasSocket(n, b)
            \/ HasSocket(k, b) /\ n.by_peer_addr[b] = Closed
  BY <1>1, <1>4, CloseFacts, ActiveFacts
<1>6. Evolves(k, n)
  BY <1>5 DEF Evolves, HasSocket, StateOf, Age, Closed
<1>7. Evolves(m, n)
  BY <1>3, <1>6 DEF Evolves
<1> QED BY <1>1, <1>5, <1>7 DEF n
------------------------------------------------------------------------------
(* The threads and the tick.                                               *)

ThreadStates ==
    [at   : {"idle", "received", "insert", "send", "connect", "activate", "close"},
     addr : Addrs \cup {None}, had : BOOLEAN, age : 0..ClosedTicks]

TickStates ==
    [at : {"idle", "send", "inactive", "collect", "cleanup"},
     sends : SUBSET Addrs, expired : SUBSET Addrs, removable : SUBSET Addrs]

Waits(t) == t.at \in {"send", "connect"} /\ t.had

\* A packet that was produced while its address had a socket: by now the address may be
\* closed, and then it has been so for no longer than the packet has waited.
Guarded(m, t) ==
    Waits(t) => \/ HasSocket(m, t.addr)
                \/ StateOf(m, t.addr) = "Closed" /\ t.age >= Age(m, t.addr)
                \/ t.age = ClosedTicks

Expired(m, a) == StateOf(m, a) = "Closed" /\ Age(m, a) = ClosedTicks

SocketInv ==
    /\ MapOK(map)
    /\ scene \subseteq Addrs /\ accepted \subseteq Tcp /\ nominated \in Addrs \cup {None}
    /\ DOMAIN map.by_peer_addr \cap Tcp \subseteq accepted
    /\ thread \in [Threads -> ThreadStates]
    /\ \A w \in Threads : thread[w].at # "idle" => thread[w].addr \in Addrs
    /\ \A w \in Threads : Guarded(map, thread[w])
    /\ tick \in TickStates
    /\ tick.at = "cleanup" => \A a \in tick.removable : Expired(map, a)

\* What a step of a thread makes of a thread: it is done, it goes on with its packet, or it has
\* a new one.
Goes_on(t, u) == /\ t.at # "idle" /\ u.addr = t.addr /\ u.had = t.had /\ u.age = t.age
                 /\ u.at \in {"send", "connect"} => t.at \in {"send", "connect"}
Begins(u)     == u.addr \in Addrs /\ (Waits(u) => HasSocket(map, u.addr))
ThreadStep(t, u) == u \in ThreadStates /\ (u.at = "idle" \/ Goes_on(t, u) \/ Begins(u))

LEMMA EvolvesFacts ==
    ASSUME NEW m, NEW n, Evolves(m, n)
    PROVE  /\ \A t \in ThreadStates : t.addr \in Addrs /\ Guarded(m, t) => Guarded(n, t)
           /\ \A a \in Addrs : Expired(m, a) => Expired(n, a)
<1>1. ASSUME NEW t \in ThreadStates, t.addr \in Addrs, Guarded(m, t), Waits(t)
      PROVE  Guarded(n, t)
  <2>1. t.age \in 0..ClosedTicks
    BY DEF ThreadStates
  <2>2. CASE HasSocket(m, t.addr)
    BY <1>1, <2>1, <2>2, TicksAssumption DEF Evolves, Guarded
  <2>3. CASE StateOf(m, t.addr) = "Closed" /\ t.age >= Age(m, t.addr)
    BY <1>1, <2>3 DEF Evolves, Guarded
  <2>4. CASE t.age = ClosedTicks
    BY <2>4 DEF Guarded
  <2> QED BY <1>1, <2>2, <2>3, <2>4 DEF Guarded
<1>2. \A a \in Addrs : Expired(m, a) => Expired(n, a)
  BY DEF Evolves, Expired
<1> QED BY <1>1, <1>2 DEF Guarded

LEMMA EvolvesSame == \A m : Evolves(m, m)
BY DEF Evolves

\* What each of the methods means for the addresses.
LEMMA CloseEvolves ==
    ASSUME NEW m, MapOK(m), NEW S
    PROVE  Evolves(m, MarkClosed(m, S))
<1> DEFINE n == MarkClosed(m, S)
<1>1. /\ DOMAIN n.by_peer_addr = DOMAIN m.by_peer_addr
      /\ \A b \in DOMAIN m.by_peer_addr :
            n.by_peer_addr[b] = IF b \in S /\ HasSocket(m, b) THEN Closed ELSE m.by_peer_addr[b]
  BY CloseFacts
<1> HIDE DEF n
<1>2. Evolves(m, n)
  BY <1>1 DEF Evolves, HasSocket, StateOf, Age, Closed
<1> QED BY <1>2 DEF n

LEMMA ActiveEvolves ==
    ASSUME NEW m, MapOK(m), NEW a
    PROVE  Evolves(m, MarkAsActive(m, a))
<1> DEFINE n == MarkAsActive(m, a)
<1>1. /\ DOMAIN n.by_peer_addr = DOMAIN m.by_peer_addr
      /\ \A b \in DOMAIN m.by_peer_addr :
            n.by_peer_addr[b] = m.by_peer_addr[b] \/ (HasSocket(m, b) /\ HasSocket(n, b))
  BY ActiveFacts
<1> HIDE DEF n
<1>2. Evolves(m, n)
  BY <1>1 DEF Evolves, HasSocket, StateOf, Age
<1> QED BY <1>2 DEF n

\* A step of a thread that only changes what threads are about to do.
LEMMA ThreadUpdate ==
    ASSUME SocketInv, NEW w \in Threads, NEW t, thread' = [thread EXCEPT ![w] = t],
           ThreadStep(thread[w], t)
    PROVE  /\ thread' \in [Threads -> ThreadStates]
           /\ \A v \in Threads : ThreadStep(thread[v], thread'[v])
<1>1. /\ thread \in [Threads -> ThreadStates]
      /\ t \in ThreadStates
  BY DEF SocketInv, ThreadStep
<1>2. thread' \in [Threads -> ThreadStates]
  BY <1>1
<1>3. ASSUME NEW v \in Threads PROVE ThreadStep(thread[v], thread'[v])
  <2>1. CASE v = w
    BY <1>1, <2>1
  <2>2. CASE v # w
    BY <1>1, <2>2 DEF ThreadStep, Goes_on
  <2> QED BY <2>1, <2>2
<1> QED BY <1>2, <1>3

LEMMA GoesFacts ==
    ASSUME SocketInv, NEW w \in Threads, thread[w].at # "idle",
           NEW at \in {"insert", "connect", "activate", "close"},
           at = "connect" => thread[w].at = "send",
           Goes(w, at)
    PROVE  \E t : thread' = [thread EXCEPT ![w] = t] /\ ThreadStep(thread[w], t)
<1>1. thread[w] \in ThreadStates
  BY DEF SocketInv
<1> DEFINE t == [at |-> at, addr |-> thread[w].addr, had |-> thread[w].had, age |-> thread[w].age]
<1>2. t \in ThreadStates /\ ThreadStep(thread[w], t)
  BY <1>1 DEF ThreadStates, ThreadStep, Goes_on
<1>3. [thread[w] EXCEPT !.at = at] = t
  BY <1>1 DEF ThreadStates
<1>4. thread' = [thread EXCEPT ![w] = t]
  BY <1>3 DEF Goes
<1> QED BY <1>2, <1>4

LEMMA IdleFacts ==
    ASSUME NEW t
    PROVE  /\ Idle \in ThreadStates /\ Idle.at = "idle" /\ ThreadStep(t, Idle)
           /\ \A a \in Addrs :
                 /\ ThreadStep(t, Sending(a))
                 /\ \A at \in {"received", "close"} :
                       ThreadStep(t, AboutTo(at, a))
<1>1. Idle \in ThreadStates /\ Idle.at = "idle"
  BY TicksAssumption DEF Idle, AboutTo, ThreadStates
<1>2. 0 \in 0..ClosedTicks
  BY TicksAssumption
<1>3. ASSUME NEW a \in Addrs
      PROVE  ThreadStep(t, Sending(a))
  <2> DEFINE h == HasSocket(map, a)
             s == Sending(a)
  <2>1. h \in BOOLEAN
    BY SMT DEF HasSocket
  <2>2. s = [at |-> "send", addr |-> a, had |-> h, age |-> 0]
    BY DEF Sending
  <2> HIDE DEF h, s
  <2>3. s \in ThreadStates
    BY <1>2, <2>1, <2>2 DEF ThreadStates
  <2>4. s.addr = a /\ s.had = h
    BY <2>2
  <2>5. Begins(s)
    BY <2>4, Zenon DEF Begins, Waits, h
  <2> QED BY <2>3, <2>5 DEF ThreadStep, s
<1>4. ASSUME NEW a \in Addrs, NEW at \in {"received", "close"}
      PROVE  ThreadStep(t, AboutTo(at, a))
  BY <1>2 DEF AboutTo, ThreadStates, Begins, Waits, ThreadStep
<1> QED BY <1>1, <1>3, <1>4 DEF ThreadStep

\* Every step of an epoll thread, with the lock of the map in between.
LEMMA WakeEffect ==
    ASSUME SocketInv, NEW w \in Threads, Wake(w)
    PROVE  /\ MapOK(map') /\ Evolves(map, map')
           /\ DOMAIN map'.by_peer_addr \cap Tcp \subseteq accepted'
           /\ scene' = scene /\ tick' = tick
           /\ accepted' \subseteq Tcp /\ nominated' \in Addrs \cup {None}
           /\ thread' \in [Threads -> ThreadStates]
           /\ \A v \in Threads : ThreadStep(thread[v], thread'[v])
<1> DEFINE MapGoal    == /\ MapOK(map') /\ Evolves(map, map')
                         /\ DOMAIN map'.by_peer_addr \cap Tcp \subseteq accepted'
           ThreadGoal == /\ thread' \in [Threads -> ThreadStates]
                         /\ \A v \in Threads : ThreadStep(thread[v], thread'[v])
           OtherGoal  == /\ scene' = scene /\ tick' = tick
                         /\ accepted' \subseteq Tcp /\ nominated' \in Addrs \cup {None}
<1>1. /\ MapOK(map) /\ DOMAIN map.by_peer_addr \cap Tcp \subseteq accepted
      /\ accepted \subseteq Tcp /\ nominated \in Addrs \cup {None} /\ scene \subseteq Addrs
      /\ thread \in [Threads -> ThreadStates]
      /\ thread[w].at # "idle" => thread[w].addr \in Addrs
  BY DEF SocketInv
<1>2. ASSUME map' = map, accepted' = accepted PROVE MapGoal
  BY <1>1, <1>2, EvolvesSame
<1>3. ASSUME thread' = thread PROVE ThreadGoal
  BY <1>1, <1>3 DEF ThreadStep, Goes_on, SocketInv
<1>4. ASSUME NEW t, thread' = [thread EXCEPT ![w] = t], ThreadStep(thread[w], t)
      PROVE  ThreadGoal
  BY <1>4, ThreadUpdate
<1>5. ASSUME Becomes(w, Idle) PROVE ThreadGoal
  BY <1>4, <1>5, IdleFacts DEF Becomes
<1>6. ASSUME NEW at \in {"insert", "connect", "activate", "close"}, thread[w].at # "idle",
             at = "connect" => thread[w].at = "send", Goes(w, at)
      PROVE  ThreadGoal
  BY <1>4, <1>6, GoesFacts
<1> HIDE DEF MapGoal, ThreadGoal
<1>ice. ASSUME NEW nominate \in BOOLEAN, HandleIce(w, nominate)
        PROVE  MapGoal /\ ThreadGoal /\ OtherGoal
  BY <1>1, <1>2, <1>6, <1>ice DEF HandleIce
<1>insert. ASSUME InsertAddress(w) PROVE MapGoal /\ ThreadGoal /\ OtherGoal
  BY <1>1, <1>2, <1>4, <1>insert, IdleFacts DEF InsertAddress, Becomes
<1>unknown. ASSUME HandleUnknown(w) PROVE MapGoal /\ ThreadGoal /\ OtherGoal
  BY <1>1, <1>2, <1>5, <1>unknown DEF HandleUnknown, sfu
<1>send. ASSUME NEW ok \in BOOLEAN, SendPacket(w, ok)
         PROVE  MapGoal /\ ThreadGoal /\ OtherGoal
  <2>1. \/ Becomes(w, Idle) \/ Goes(w, "activate") \/ Goes(w, "connect") \/ Goes(w, "close")
    BY <1>send DEF SendPacket
  <2>2. ThreadGoal
    BY <1>5, <1>6, <1>send, <2>1 DEF SendPacket
  <2> QED BY <1>1, <1>2, <1>send, <2>2 DEF SendPacket, sfu
<1>close. ASSUME Close(w) PROVE MapGoal /\ ThreadGoal /\ OtherGoal
  <2>1. map' = MarkClosed(map, {thread[w].addr}) /\ accepted' = accepted
    BY <1>close DEF Close
  <2>2. MapGoal
    BY <1>1, <2>1, CloseFacts, CloseEvolves DEF MapGoal
  <2> QED BY <1>1, <1>5, <1>close, <2>2 DEF Close, sfu
<1>activate. ASSUME Activate(w) PROVE MapGoal /\ ThreadGoal /\ OtherGoal
  <2>1. map' = MarkAsActive(map, thread[w].addr) /\ accepted' = accepted
    BY <1>activate DEF Activate
  <2>2. MapGoal
    BY <1>1, <2>1, ActiveFacts, ActiveEvolves DEF MapGoal
  <2> QED BY <1>1, <1>5, <1>activate, <2>2 DEF Activate, sfu
<1>connect. ASSUME NEW ok \in BOOLEAN, Connect(w, ok)
            PROVE  MapGoal /\ ThreadGoal /\ OtherGoal
  <2>1. /\ map' = ConnectedNow(map, NewFd, thread[w].addr, ok) /\ accepted' = accepted
        /\ thread[w].addr \in Addrs
    BY <1>1, <1>connect DEF Connect
  <2>2. NewFd \in Fds \ DOMAIN map.by_fd
    BY <1>1, FreeFd DEF NewFd
  <2>3. MapGoal
    BY <1>1, <2>1, <2>2, ConnectFacts DEF MapGoal
  <2> QED BY <1>1, <1>5, <1>connect, <2>3 DEF Connect, sfu
<1>accept. ASSUME NEW a \in scene \cap Tcp, Accept(w, a)
           PROVE  MapGoal /\ ThreadGoal /\ OtherGoal
  <2>1. /\ map' = GetOrInsertConnected(map, NewFd, a) /\ accepted' = accepted \cup {a}
        /\ a \in Tcp \ accepted /\ a \in Addrs
    BY <1>accept DEF Accept, Addrs
  <2>2. NewFd \in Fds \ DOMAIN map.by_fd
    BY <1>1, FreeFd DEF NewFd
  <2>3. a \notin DOMAIN map.by_peer_addr
    BY <1>1, <2>1
  <2>4. /\ MapOK(map') /\ DOMAIN map'.by_peer_addr = DOMAIN map.by_peer_addr \cup {a}
        /\ \A b \in DOMAIN map.by_peer_addr : map'.by_peer_addr[b] = map.by_peer_addr[b]
    BY <1>1, <2>1, <2>2, <2>3, InsertFacts
  <2>5. Evolves(map, map')
    BY <2>4 DEF Evolves, HasSocket, StateOf, Age
  <2>6. MapGoal
    BY <1>1, <2>1, <2>4, <2>5 DEF MapGoal
  <2> QED BY <1>1, <1>3, <1>accept, <2>1, <2>6 DEF Accept, sfu
<1>receive. ASSUME NEW a \in scene, Receive(w, a) PROVE MapGoal /\ ThreadGoal /\ OtherGoal
  BY <1>1, <1>2, <1>4, <1>receive, IdleFacts DEF Receive, Becomes, sfu
<1>error. ASSUME NEW a \in scene, SocketError(w, a) PROVE MapGoal /\ ThreadGoal /\ OtherGoal
  BY <1>1, <1>2, <1>4, <1>error, IdleFacts DEF SocketError, Becomes, sfu
<1>forward. ASSUME Forward(w) PROVE MapGoal /\ ThreadGoal /\ OtherGoal
  BY <1>1, <1>2, <1>4, <1>forward, IdleFacts DEF Forward, Becomes, sfu
<1>7. MapGoal /\ ThreadGoal /\ OtherGoal
  BY <1>ice, <1>insert, <1>unknown, <1>send, <1>close, <1>activate, <1>connect, <1>accept,
     <1>receive, <1>error, <1>forward DEF Wake, Step
<1> QED BY <1>7 DEF MapGoal, ThreadGoal

\* What a step says of the closed addresses.
ClosedStays == \A a \in Addrs : StateOf(map, a) = "Closed" =>
                  \/ StateOf(map', a) = "Closed"
                  \/ StateOf(map', a) = "NotYetConnected" /\ Age(map, a) >= ClosedTicks

LEMMA WakeStep ==
    ASSUME SocketInv, NEW w \in Threads, Wake(w)
    PROVE  SocketInv' /\ ClosedStays
<1>1. /\ MapOK(map') /\ Evolves(map, map')
      /\ DOMAIN map'.by_peer_addr \cap Tcp \subseteq accepted'
      /\ scene' = scene /\ tick' = tick
      /\ accepted' \subseteq Tcp /\ nominated' \in Addrs \cup {None}
      /\ thread' \in [Threads -> ThreadStates]
      /\ \A v \in Threads : ThreadStep(thread[v], thread'[v])
  BY WakeEffect
<1>2. ASSUME NEW v \in Threads
      PROVE  /\ thread'[v].at # "idle" => thread'[v].addr \in Addrs
             /\ Guarded(map', thread'[v])
  <2>1. /\ thread[v] \in ThreadStates /\ thread'[v] \in ThreadStates
        /\ thread[v].at # "idle" => thread[v].addr \in Addrs
        /\ Guarded(map, thread[v])
        /\ ThreadStep(thread[v], thread'[v])
    BY <1>1 DEF SocketInv
  <2>2. CASE thread'[v].at = "idle"
    BY <2>2 DEF Guarded, Waits
  <2>3. CASE Goes_on(thread[v], thread'[v])
    <3>1. thread'[v].addr \in Addrs /\ Guarded(map, thread'[v])
      BY <2>1, <2>3 DEF Goes_on, Guarded, Waits
    <3> QED BY <1>1, <2>1, <3>1, EvolvesFacts
  <2>4. CASE Begins(thread'[v])
    <3>1. thread'[v].addr \in Addrs /\ Guarded(map, thread'[v])
      BY <2>4 DEF Begins, Guarded
    <3> QED BY <1>1, <2>1, <3>1, EvolvesFacts
  <2> QED BY <2>1, <2>2, <2>3, <2>4 DEF ThreadStep
<1>3. tick'.at = "cleanup" => \A a \in tick'.removable : Expired(map', a)
  <2>1. tick \in TickStates /\ (tick.at = "cleanup" => \A a \in tick.removable : Expired(map, a))
    BY DEF SocketInv
  <2>2. tick.removable \subseteq Addrs
    BY <2>1 DEF TickStates
  <2> QED BY <1>1, <2>1, <2>2, EvolvesFacts
<1>4. SocketInv'
  BY <1>1, <1>2, <1>3 DEF SocketInv
<1>5. ClosedStays
  BY <1>1 DEF ClosedStays, Evolves
<1> QED BY <1>4, <1>5

\* The tick of the SFU: everything is a tick older.
LEMMA TickSfuStep ==
    ASSUME SocketInv, NEW check \in BOOLEAN, TickSfu(check), tick'.expired \subseteq Addrs
    PROVE  SocketInv' /\ ClosedStays
<1>1. /\ MapOK(map) /\ DOMAIN map.by_peer_addr \cap Tcp \subseteq accepted
      /\ accepted \subseteq Tcp /\ nominated \in Addrs \cup {None} /\ scene \subseteq Addrs
      /\ thread \in [Threads -> ThreadStates] /\ tick \in TickStates
  BY DEF SocketInv
<1>2. /\ map' = OlderMap(map) /\ thread' = [w \in Threads |-> OlderThread(thread[w])]
      /\ UNCHANGED <<scene, nominated, accepted>>
  BY DEF TickSfu
<1>3. /\ MapOK(map') /\ DOMAIN map'.by_peer_addr = DOMAIN map.by_peer_addr
      /\ \A a : StateOf(map', a) = StateOf(map, a)
      /\ \A a : StateOf(map, a) = "Closed" => Age(map', a) = Older(Age(map, a), ClosedTicks)
  BY <1>1, <1>2, OlderFacts
<1>4. ASSUME NEW v \in Threads
      PROVE  /\ thread'[v] \in ThreadStates
             /\ thread'[v].at # "idle" => thread'[v].addr \in Addrs
             /\ Guarded(map', thread'[v])
  <2> DEFINE t == thread[v]
             u == OlderThread(t)
  <2>1. /\ t \in ThreadStates /\ (t.at # "idle" => t.addr \in Addrs) /\ Guarded(map, t)
        /\ thread'[v] = u
    BY <1>1, <1>2 DEF SocketInv
  <2> HIDE DEF t
  <2>2. CASE t = Idle
    <3>1. u = Idle /\ Idle \in ThreadStates /\ Idle.at = "idle"
      BY <2>2, IdleFacts DEF OlderThread
    <3> HIDE DEF u
    <3> QED BY <2>1, <3>1 DEF Guarded, Waits
  <2>3. CASE t # Idle
    <3>1. u = [at |-> t.at, addr |-> t.addr, had |-> t.had, age |-> Older(t.age, ClosedTicks)]
      BY <2>3 DEF OlderThread
    <3>2. t.age \in 0..ClosedTicks /\ Older(t.age, ClosedTicks) \in 0..ClosedTicks
      BY <2>1, TicksAssumption DEF ThreadStates, Older
    <3> HIDE DEF u
    <3>3. /\ u \in ThreadStates /\ u.at = t.at /\ u.addr = t.addr /\ u.had = t.had
          /\ u.age = Older(t.age, ClosedTicks)
      BY <2>1, <3>1, <3>2 DEF ThreadStates
    <3>4. HasSocket(map', t.addr) <=> HasSocket(map, t.addr)
      BY <1>3 DEF HasSocket
    <3>5. ASSUME StateOf(map, t.addr) = "Closed", t.age >= Age(map, t.addr)
          PROVE  u.age >= Age(map', t.addr)
      <4>1. Age(map, t.addr) \in 0..ClosedTicks
        BY <1>1, <3>5, StateFacts DEF Age, Entries
      <4> QED BY <1>3, <3>2, <3>3, <3>5, <4>1, TicksAssumption DEF Older
    <3>6. t.age = ClosedTicks => u.age = ClosedTicks
      BY <3>3, TicksAssumption DEF Older
    <3>7. Guarded(map', u)
      <4>1. Waits(u) => Waits(t)
        BY <3>3 DEF Waits
      <4> QED BY <1>3, <2>1, <3>3, <3>4, <3>5, <3>6, <4>1 DEF Guarded
    <3> QED BY <2>1, <3>3, <3>7
  <2> QED BY <2>2, <2>3
<1>5. thread' \in [Threads -> ThreadStates]
  BY <1>2, <1>4
<1>6. tick' \in TickStates /\ tick'.at = "send"
  <2>1. PICK s \in SUBSET Addrs :
            tick' = [at |-> "send", sends |-> s, expired |-> tick'.expired, removable |-> {}]
    BY <1>1 DEF TickSfu
  <2> QED BY <2>1 DEF TickStates
<1>7. SocketInv'
  BY <1>1, <1>2, <1>3, <1>4, <1>5, <1>6 DEF SocketInv
<1>8. ClosedStays
  BY <1>3 DEF ClosedStays
<1> QED BY <1>7, <1>8

\* The tick of the packet server.
LEMMA TickStep ==
    ASSUME SocketInv,
           (\E ok \in BOOLEAN : TickSend(ok)) \/ TickInactive \/ TickCollect \/ TickCleanup \/ TickGivesUp
    PROVE  SocketInv' /\ ClosedStays
<1>1. /\ MapOK(map) /\ DOMAIN map.by_peer_addr \cap Tcp \subseteq accepted
      /\ tick \in TickStates
      /\ \A w \in Threads : /\ thread[w] \in ThreadStates /\ Guarded(map, thread[w])
                            /\ thread[w].at # "idle" => thread[w].addr \in Addrs
  BY DEF SocketInv
<1>2. /\ UNCHANGED <<scene, nominated, accepted, thread>>
  BY DEF TickSend, TickInactive, TickCollect, TickCleanup, TickGivesUp, sfu
<1>3. /\ tick.sends \subseteq Addrs /\ tick.expired \subseteq Addrs /\ tick.removable \subseteq Addrs
      /\ tick = [at |-> tick.at, sends |-> tick.sends, expired |-> tick.expired,
                 removable |-> tick.removable]
  BY <1>1 DEF TickStates
<1>4. Ticked \in TickStates /\ Ticked.at = "idle"
  BY DEF Ticked, TickStates
\* A change of the map that frees nothing, or that frees what has expired.
<1>5. ASSUME MapOK(map'), DOMAIN map'.by_peer_addr \subseteq DOMAIN map.by_peer_addr,
             \A w \in Threads : Guarded(map', thread[w]), tick' \in TickStates,
             tick'.at = "cleanup" => \A a \in tick'.removable : Expired(map', a)
      PROVE  SocketInv'
  BY <1>1, <1>2, <1>5 DEF SocketInv
<1>6. ASSUME Evolves(map, map')
      PROVE  (\A w \in Threads : Guarded(map', thread[w])) /\ ClosedStays
  <2>1. \A w \in Threads : thread[w].at = "idle" => Guarded(map', thread[w])
    BY DEF Guarded, Waits
  <2>2. \A w \in Threads : thread[w].at # "idle" => Guarded(map', thread[w])
    BY <1>1, <1>6, EvolvesFacts
  <2>3. ClosedStays
    BY <1>6 DEF Evolves, ClosedStays
  <2> QED BY <2>1, <2>2, <2>3
<1>send. ASSUME NEW ok \in BOOLEAN, TickSend(ok) PROVE SocketInv' /\ ClosedStays
  <2>1. map' = NextTickNumber(map)
    BY <1>send DEF TickSend
  <2>2. MapOK(map') /\ map'.by_peer_addr = map.by_peer_addr
    BY <1>1, <2>1, TtlFacts
  <2>3. Evolves(map, map')
    BY <2>2 DEF Evolves, HasSocket, StateOf, Age
  <2>4. PICK S \in SUBSET Addrs : tick' = [tick EXCEPT !.at = "inactive", !.expired = @ \cup S]
    BY <1>3, <1>send DEF TickSend
  <2>5. tick' = [at |-> "inactive", sends |-> tick.sends, expired |-> tick.expired \cup S,
                 removable |-> tick.removable]
    BY <1>3, <2>4
  <2>6. tick' \in TickStates /\ tick'.at = "inactive"
    BY <1>3, <2>5 DEF TickStates
  <2> QED BY <1>5, <1>6, <2>2, <2>3, <2>6
<1>inactive. ASSUME TickInactive PROVE SocketInv' /\ ClosedStays
  <2>1. map' = map /\ InactiveSenders(map) \subseteq Addrs
    BY <1>1, <1>inactive DEF TickInactive, InactiveSenders, MapOK, Agree
  <2>2. tick' = [at |-> "collect", sends |-> tick.sends,
                 expired |-> tick.expired \cup InactiveSenders(map), removable |-> tick.removable]
    BY <1>3, <1>inactive DEF TickInactive
  <2>3. tick' \in TickStates /\ tick'.at = "collect"
    BY <1>3, <2>1, <2>2 DEF TickStates
  <2> QED BY <1>1, <1>5, <1>6, <2>1, <2>3, EvolvesSame
<1>collect. ASSUME TickCollect PROVE SocketInv' /\ ClosedStays
  <2>1. map' = map
    BY <1>collect DEF TickCollect
  <2>2. \A a \in ClosedFor(map, ClosedTicks) : a \in Addrs /\ Expired(map, a)
    <3> SUFFICES ASSUME NEW a \in DOMAIN map.by_peer_addr,
                        map.by_peer_addr[a].state = "Closed",
                        map.by_peer_addr[a].age >= ClosedTicks
                 PROVE  a \in Addrs /\ Expired(map, a)
      BY DEF ClosedFor
    <3>1. map.by_peer_addr[a].age \in 0..ClosedTicks /\ a \in Addrs
      BY <1>1 DEF MapOK, Entries
    <3>2. map.by_peer_addr[a].age = ClosedTicks
      BY <3>1, TicksAssumption
    <3> QED BY <3>1, <3>2 DEF Expired, StateOf, Age
  <2>3. tick' = [at |-> "cleanup", sends |-> tick.sends, expired |-> tick.expired,
                 removable |-> ClosedFor(map, ClosedTicks)]
    BY <1>3, <1>collect DEF TickCollect
  <2>4. tick' \in TickStates /\ tick'.removable = ClosedFor(map, ClosedTicks)
    BY <1>3, <2>2, <2>3 DEF TickStates
  <2> QED BY <1>1, <1>5, <1>6, <2>1, <2>2, <2>4, EvolvesSame
<1>cleanup. ASSUME TickCleanup PROVE SocketInv' /\ ClosedStays
  <2> DEFINE m == RemoveClosed(map, tick.removable)
  <2>1. map' = MarkClosed(m, tick.expired) /\ tick' = Ticked
    BY <1>cleanup DEF TickCleanup, Cleaned
  <2>2. \A a \in tick.removable : Expired(map, a)
    BY <1>cleanup DEF TickCleanup, SocketInv
  <2>3. /\ MapOK(m)
        /\ DOMAIN m.by_peer_addr =
              DOMAIN map.by_peer_addr \ {a \in tick.removable : StateOf(map, a) = "Closed"}
        /\ \A b \in DOMAIN m.by_peer_addr : m.by_peer_addr[b] = map.by_peer_addr[b]
    BY <1>1, RemoveFacts
  <2> HIDE DEF m
  <2>4. \A a : \/ StateOf(m, a) = StateOf(map, a) /\ Age(m, a) = Age(map, a)
               \/ StateOf(m, a) = "NotYetConnected" /\ Expired(map, a)
               \/ StateOf(map, a) = "NotYetConnected" /\ StateOf(m, a) = "NotYetConnected"
    BY <2>2, <2>3 DEF StateOf, Age
  <2>5. Evolves(m, map') /\ MapOK(map') /\ DOMAIN map'.by_peer_addr = DOMAIN m.by_peer_addr
    BY <2>1, <2>3, CloseEvolves, CloseFacts
  <2>6. ASSUME NEW w \in Threads PROVE Guarded(map', thread[w])
    <3> DEFINE t == thread[w]
    <3>1. t \in ThreadStates /\ Guarded(map, t) /\ (t.at # "idle" => t.addr \in Addrs)
      BY <1>1
    <3> HIDE DEF t
    <3>2. CASE ~Waits(t)
      BY <3>2 DEF Guarded, t
    <3>3. CASE Waits(t)
      <4>1. t.addr \in Addrs /\ t.age \in 0..ClosedTicks
        BY <3>1, <3>3 DEF Waits, ThreadStates
      <4>2. Guarded(m, t)
        <5>1. CASE HasSocket(map, t.addr)
          BY <2>4, <5>1 DEF Guarded, HasSocket, Expired
        <5>2. CASE StateOf(map, t.addr) = "Closed" /\ t.age >= Age(map, t.addr)
          <6>1. CASE StateOf(m, t.addr) = StateOf(map, t.addr) /\ Age(m, t.addr) = Age(map, t.addr)
            BY <5>2, <6>1 DEF Guarded
          <6>2. CASE Expired(map, t.addr)
            <7>1. t.age = ClosedTicks
              BY <4>1, <5>2, <6>2, TicksAssumption DEF Expired
            <7> QED BY <7>1 DEF Guarded
          <6> QED BY <2>4, <5>2, <6>1, <6>2
        <5>3. CASE t.age = ClosedTicks
          BY <5>3 DEF Guarded
        <5> QED BY <3>1, <3>3, <5>1, <5>2, <5>3 DEF Guarded
      <4> QED BY <2>5, <3>1, <4>1, <4>2, EvolvesFacts DEF t
    <3> QED BY <3>2, <3>3
  <2>7. ClosedStays
    <3> SUFFICES ASSUME NEW a \in Addrs, StateOf(map, a) = "Closed"
                 PROVE  \/ StateOf(map', a) = "Closed"
                        \/ StateOf(map', a) = "NotYetConnected" /\ Age(map, a) >= ClosedTicks
      BY DEF ClosedStays
    <3>1. CASE StateOf(m, a) = "Closed"
      BY <2>5, <3>1 DEF Evolves
    <3>2. CASE StateOf(m, a) = "NotYetConnected" /\ Expired(map, a)
      <4>1. StateOf(map', a) = "NotYetConnected"
        BY <2>3, <2>5, <3>2, StateFacts
      <4> QED BY <3>2, <4>1, TicksAssumption DEF Expired
    <3> QED BY <2>4, <3>1, <3>2
  <2> QED BY <1>4, <1>5, <2>1, <2>3, <2>5, <2>6, <2>7
<1>givesup. ASSUME TickGivesUp PROVE SocketInv' /\ ClosedStays
  <2>1. map' = map /\ tick' = Ticked
    BY <1>givesup DEF TickGivesUp
  <2> QED BY <1>1, <1>4, <1>5, <1>6, <2>1, EvolvesSame
<1> QED BY <1>send, <1>inactive, <1>collect, <1>cleanup, <1>givesup
------------------------------------------------------------------------------
(* The addresses.                                                          *)

\* Ticks since the generations were swapped.
Since == Lifetime - addresses.expires_in

\* The newer generation has exactly the addresses inserted since the swap, the older one none
\* that were inserted more than a lifetime before it.
CacheInv ==
    /\ addresses = [generation0 |-> addresses.generation0, generation1 |-> addresses.generation1,
                    expires_in |-> addresses.expires_in]
    /\ Keys(addresses) \subseteq Addrs
    /\ addresses.expires_in \in 1..Lifetime
    /\ seen \in [Addrs -> 0..Long]
    /\ \A a \in Addrs : /\ a \in DOMAIN addresses.generation0 <=> seen[a] <= Since
                        /\ a \in DOMAIN addresses.generation1 => seen[a] <= Since + Lifetime
                        /\ seen[a] <= Lifetime => a \in Keys(addresses)

LEMMA CacheInsert ==
    ASSUME SocketInv, CacheInv, NEW w \in Threads, InsertAddress(w)
    PROVE  CacheInv'
<1> DEFINE b == thread[w].addr
<1>1. b \in Addrs
  BY DEF InsertAddress, SocketInv
<1>2. /\ addresses' = InsertWithoutRemovingOld(addresses, b, "connection")
      /\ seen' = [seen EXCEPT ![b] = 0]
  BY DEF InsertAddress
<1> HIDE DEF b
<1>3. /\ addresses' = [generation0 |-> addresses'.generation0,
                       generation1 |-> addresses'.generation1,
                       expires_in |-> addresses'.expires_in]
      /\ addresses'.generation0 = Put(addresses.generation0, b, "connection")
      /\ addresses'.generation1 = addresses.generation1
      /\ addresses'.expires_in = addresses.expires_in
  BY <1>2 DEF InsertWithoutRemovingOld, CacheInv
<1>4. DOMAIN addresses'.generation0 = DOMAIN addresses.generation0 \cup {b}
  BY <1>3 DEF Put
<1>5. /\ seen' \in [Addrs -> 0..Long] /\ seen'[b] = 0
      /\ \A a \in Addrs : a # b => seen'[a] = seen[a]
  BY <1>1, <1>2, TicksAssumption DEF CacheInv, Long
<1>6. Keys(addresses)' = Keys(addresses) \cup {b}
  BY <1>3, <1>4 DEF Keys
<1>7. Since' = Since /\ Since \in Nat
  BY <1>3, TicksAssumption DEF Since, CacheInv
<1>8. ASSUME NEW a \in Addrs
      PROVE  /\ a \in DOMAIN addresses'.generation0 <=> seen'[a] <= Since'
             /\ a \in DOMAIN addresses'.generation1 => seen'[a] <= Since' + Lifetime
             /\ seen'[a] <= Lifetime => a \in Keys(addresses)'
  <2>1. CASE a = b
    BY <1>4, <1>5, <1>6, <1>7, <2>1, TicksAssumption
  <2>2. CASE a # b
    BY <1>3, <1>4, <1>5, <1>6, <1>7, <2>2 DEF CacheInv
  <2> QED BY <2>1, <2>2
<1> QED BY <1>1, <1>3, <1>5, <1>6, <1>8 DEF CacheInv

\* The generations are swapped when the newer one is a lifetime old.
LEMMA CacheTick ==
    ASSUME CacheInv, NEW check \in BOOLEAN, TickSfu(check)
    PROVE  CacheInv' /\ tick'.expired \subseteq Addrs
<1> DEFINE c == [addresses EXCEPT !.expires_in = @ - 1]
           e == addresses.expires_in - 1
<1>1. /\ seen' = [a \in Addrs |-> Older(seen[a], Long)]
      /\ addresses' = RemoveOld(c, Lifetime).cache
      /\ tick'.expired = RemoveOld(c, Lifetime).expired
  BY DEF TickSfu
<1>2. /\ c.generation0 = addresses.generation0 /\ c.generation1 = addresses.generation1
      /\ c.expires_in = e
      /\ c = [generation0 |-> c.generation0, generation1 |-> c.generation1,
              expires_in |-> c.expires_in]
  BY DEF CacheInv
<1> HIDE DEF c
<1>3. /\ seen' \in [Addrs -> 0..Long]
      /\ \A a \in Addrs : /\ seen[a] \in 0..Long
                          /\ seen'[a] = IF seen[a] < Long THEN seen[a] + 1 ELSE Long
  BY <1>1, TicksAssumption DEF CacheInv, Older, Long
<1>4. /\ Lifetime \in Nat /\ e \in 0..(Lifetime - 1) /\ Long = 2 * Lifetime + 1
      /\ Since = Lifetime - e - 1
  BY TicksAssumption DEF CacheInv, Since, Long
<1>5. /\ Keys(addresses) = DOMAIN addresses.generation0 \cup DOMAIN addresses.generation1
      /\ DOMAIN addresses.generation0 \subseteq Addrs /\ DOMAIN addresses.generation1 \subseteq Addrs
  BY DEF CacheInv, Keys
<1> HIDE DEF e
<1>kept. CASE e > 0
  <2>1. addresses' = c /\ tick'.expired = {}
    BY <1>1, <1>2, <1>kept DEF RemoveOld
  <2>2. /\ addresses'.generation0 = addresses.generation0
        /\ addresses'.generation1 = addresses.generation1
        /\ addresses'.expires_in = e /\ Keys(addresses)' = Keys(addresses)
    BY <1>2, <2>1 DEF Keys
  <2>3. Since' = Lifetime - e
    BY <2>2 DEF Since
  <2>4. ASSUME NEW a \in Addrs
        PROVE  /\ a \in DOMAIN addresses'.generation0 <=> seen'[a] <= Since'
               /\ a \in DOMAIN addresses'.generation1 => seen'[a] <= Since' + Lifetime
               /\ seen'[a] <= Lifetime => a \in Keys(addresses)'
    <3>1. /\ a \in DOMAIN addresses.generation0 <=> seen[a] <= Lifetime - e - 1
          /\ a \in DOMAIN addresses.generation1 => seen[a] <= Lifetime - e - 1 + Lifetime
          /\ seen[a] <= Lifetime => a \in Keys(addresses)
      BY <1>4 DEF CacheInv
    <3> QED BY <1>3, <1>4, <2>2, <2>3, <3>1
  <2>5. addresses'.expires_in \in 1..Lifetime
    BY <1>4, <1>kept, <2>2
  <2>6. addresses' = [generation0 |-> addresses'.generation0,
                      generation1 |-> addresses'.generation1, expires_in |-> addresses'.expires_in]
    BY <1>2, <2>1
  <2> QED BY <1>3, <2>1, <2>2, <2>4, <2>5, <2>6 DEF CacheInv
<1>swapped. CASE ~(e > 0)
  <2>1. /\ addresses' = [generation0 |-> <<>>, generation1 |-> addresses.generation0,
                         expires_in |-> Lifetime]
        /\ tick'.expired = DOMAIN addresses.generation1 \ DOMAIN addresses.generation0
    BY <1>1, <1>2, <1>swapped DEF RemoveOld
  <2>2. /\ DOMAIN addresses'.generation0 = {}
        /\ addresses'.generation1 = addresses.generation0
        /\ addresses'.expires_in = Lifetime /\ Keys(addresses)' = DOMAIN addresses.generation0
    BY <2>1 DEF Keys
  <2>3. Since' = 0 /\ e = 0
    BY <1>4, <1>swapped, <2>2 DEF Since
  <2>4. ASSUME NEW a \in Addrs
        PROVE  /\ a \in DOMAIN addresses'.generation0 <=> seen'[a] <= Since'
               /\ a \in DOMAIN addresses'.generation1 => seen'[a] <= Since' + Lifetime
               /\ seen'[a] <= Lifetime => a \in Keys(addresses)'
    <3>1. a \in DOMAIN addresses.generation0 <=> seen[a] <= Lifetime - 1
      BY <1>4, <2>3 DEF CacheInv
    <3>2. seen'[a] > 0
      BY <1>3, <1>4
    <3>3. seen[a] <= Lifetime - 1 <=> seen'[a] <= Lifetime
      BY <1>3, <1>4
    <3> QED BY <1>3, <1>4, <2>2, <2>3, <3>1, <3>2, <3>3
  <2>5. addresses'.expires_in \in 1..Lifetime
    BY <2>2, TicksAssumption
  <2> QED BY <1>3, <1>5, <2>1, <2>2, <2>4, <2>5 DEF CacheInv
<1> QED BY <1>kept, <1>swapped
------------------------------------------------------------------------------
(* The theorems.                                                           *)

ServerInv == SocketInv /\ CacheInv

LEMMA InitServer == Init => ServerInv
<1> SUFFICES ASSUME Init PROVE SocketInv /\ CacheInv
  BY DEF ServerInv
<1>1. MapOK(map) /\ DOMAIN map.by_peer_addr = {}
  <2>1. /\ map.by_fd = <<>> /\ map.by_peer_addr = <<>> /\ map.inactive_ttls = <<>>
        /\ map = [by_fd |-> map.by_fd, by_peer_addr |-> map.by_peer_addr,
                  inactive_ttls |-> map.inactive_ttls]
    BY DEF Init, EmptyMap
  <2> QED BY <2>1 DEF MapOK, Agree
<1>2. tick \in TickStates /\ tick.at = "idle"
  BY DEF Init, Ticked, TickStates
<1>3. /\ thread \in [Threads -> ThreadStates]
      /\ \A w \in Threads : thread[w] = Idle
  BY IdleFacts DEF Init
<1>4. \A w \in Threads : thread[w].at = "idle" /\ Guarded(map, thread[w])
  BY <1>3, IdleFacts DEF Guarded, Waits
<1>5. SocketInv
  BY <1>1, <1>2, <1>3, <1>4, ScenesAssumption DEF Init, SocketInv, Addrs
<1>6. /\ addresses = [generation0 |-> <<>>, generation1 |-> <<>>, expires_in |-> Lifetime]
      /\ seen = [a \in Addrs |-> Long]
  BY DEF Init, NewCache
<1>7. /\ DOMAIN addresses.generation0 = {} /\ DOMAIN addresses.generation1 = {}
      /\ addresses.expires_in = Lifetime
      /\ Keys(addresses) = {} /\ Since = 0
      /\ Long \in Nat /\ Long > Lifetime
  BY <1>6, TicksAssumption DEF Keys, Since, Long
<1>8. CacheInv
  BY <1>6, <1>7, TicksAssumption DEF CacheInv
<1> QED BY <1>5, <1>8

LEMMA NextServer == ServerInv /\ [Next]_vars => ServerInv' /\ ClosedStays
<1> SUFFICES ASSUME SocketInv, CacheInv, [Next]_vars PROVE SocketInv' /\ CacheInv' /\ ClosedStays
  BY DEF ServerInv
<1>1. ASSUME addresses' = addresses, seen' = seen PROVE CacheInv'
  BY <1>1 DEF CacheInv, Keys, Since
<1>wake. ASSUME NEW w \in Threads, Wake(w) PROVE SocketInv' /\ CacheInv' /\ ClosedStays
  <2>1. InsertAddress(w) \/ (addresses' = addresses /\ seen' = seen)
    BY <1>wake DEF Wake, Step, HandleIce, HandleUnknown, SendPacket, Close, Activate, Connect,
                   Accept, Receive, SocketError, Forward, sfu
  <2> QED BY <1>1, <1>wake, <2>1, WakeStep, CacheInsert
<1>tick. ASSUME Tick \/ TickGivesUp PROVE SocketInv' /\ CacheInv' /\ ClosedStays
  <2>1. CASE \E check \in BOOLEAN : TickSfu(check)
    BY <2>1, CacheTick, TickSfuStep
  <2>2. CASE (\E ok \in BOOLEAN : TickSend(ok)) \/ TickInactive \/ TickCollect \/ TickCleanup
                \/ TickGivesUp
    <3>1. addresses' = addresses /\ seen' = seen
      BY <2>2 DEF TickSend, TickInactive, TickCollect, TickCleanup, TickGivesUp, sfu
    <3> QED BY <1>1, <2>2, <3>1, TickStep
  <2> QED BY <1>tick, <2>1, <2>2 DEF Tick
<1>nothing. ASSUME vars' = vars PROVE SocketInv' /\ CacheInv' /\ ClosedStays
  <2>1. /\ UNCHANGED <<scene, map, accepted, thread, tick, nominated>>
        /\ addresses' = addresses /\ seen' = seen
    BY <1>nothing DEF vars, sfu
  <2>2. SocketInv'
    BY <2>1 DEF SocketInv
  <2> QED BY <1>1, <2>1, <2>2 DEF ClosedStays
<1> QED BY <1>wake, <1>tick, <1>nothing DEF Next

LEMMA ServerInvHolds == Spec => []ServerInv
BY InitServer, NextServer, PTL DEF Spec

LEMMA ServerIsConsistent == ServerInv => SocketsAreConsistent
<1> SUFFICES ASSUME SocketInv, CacheInv PROVE SocketsAreConsistent
  BY DEF ServerInv
<1>1. MapsAgree
  BY DEF SocketInv, MapOK, MapsAgree
<1>2. DelayedPacketsDoNotRevive
  <2> SUFFICES ASSUME NEW w \in Threads, thread[w].at \in {"send", "connect"}, thread[w].had,
                      thread[w].age < ClosedTicks,
                      StateOf(map, thread[w].addr) = "NotYetConnected"
               PROVE  FALSE
    BY DEF DelayedPacketsDoNotRevive
  <2>1. Guarded(map, thread[w]) /\ thread[w].age \in 0..ClosedTicks
    BY DEF SocketInv, ThreadStates
  <2>2. thread[w].age # ClosedTicks
    BY <2>1, TicksAssumption
  <2> QED BY <2>1, <2>2 DEF Guarded, Waits, HasSocket
<1>3. AddressesInUseAreKept
  BY TicksAssumption DEF AddressesInUseAreKept, CacheInv
<1>4. AddressesAgeOut
  <2> SUFFICES ASSUME NEW a \in Keys(addresses) PROVE seen[a] <= 2 * Lifetime
    BY DEF AddressesAgeOut
  <2>1. Since \in 0..(Lifetime - 1) /\ a \in Addrs /\ seen[a] \in Nat
    BY TicksAssumption DEF CacheInv, Since, Long
  <2>2. seen[a] <= Since \/ seen[a] <= Since + Lifetime
    BY <2>1 DEF CacheInv, Keys
  <2> QED BY <2>1, <2>2, TicksAssumption
<1> QED BY <1>1, <1>2, <1>3, <1>4 DEF SocketsAreConsistent

\* Whatever the epoll threads and the tick do between two locks of all_connections and of the
\* SFU: the tables of ConnectionMap agree, a delayed packet opens no socket for an address that
\* had one, and connection_id_by_address knows the addresses of the last lifetime and none from
\* before the last two.  For any addresses, threads and times.
THEOREM SocketsConsistent == Spec => []SocketsAreConsistent
BY ServerInvHolds, ServerIsConsistent, PTL

\* An address that mark_closed closed is connected again only after the cleanup of a tick has
\* freed it, and that is not before CLOSED_SOCKET_EXPIRATION_IN_TICKS.
THEOREM ClosedStayClosed == Spec => ClosedUntilFreed
<1>1. ServerInv /\ [Next]_vars =>
        [\A a \in Addrs : StateOf(map, a) = "Closed" =>
            \/ StateOf(map', a) = "Closed"
            \/ /\ StateOf(map', a) = "NotYetConnected"
               /\ map.by_peer_addr[a].age >= ClosedTicks]_vars
  BY NextServer DEF ClosedStays, Age
<1> QED BY <1>1, ServerInvHolds, PTL DEF Spec, ClosedUntilFreed
==============================================================================
