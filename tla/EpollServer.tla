---------------------------- MODULE EpollServer ------------------------------
(***************************************************************************)
(* The sockets of the epoll packet server (backend/src/packet_server/      *)
(* epoll.rs) and the addresses of the SFU (connection_id_by_address of     *)
(* backend/src/sfu.rs), shared by the epoll threads and the thread that    *)
(* ticks.  all_connections is a read-write lock: what a thread does while  *)
(* it holds the lock is one step, and a step that finds it must write      *)
(* lets go of the lock first and is finished by another step.              *)
(*                                                                         *)
(* One connection of the SFU is followed, with the addresses of its client *)
(* and its nominated address.  Time is measured in ticks.                  *)
(***************************************************************************)
EXTENDS Integers, FiniteSets, FiniteSetsExt

CONSTANTS None,
          Udp,           \* addresses of UDP clients
          InactiveTtl,   \* TCP_INACTIVE_CONNECTION_TTL_TICKS
          Tcp,           \* the IDs of TCP connections
          Fds,           \* file descriptors
          Threads,       \* epoll threads
          Lifetime,      \* of a generation of addresses, in ticks
          ClosedTicks,   \* CLOSED_SOCKET_EXPIRATION_IN_TICKS
          Timeout,       \* inactivity_timeout, in ticks
          CheckTicks,    \* inactivity_check_interval, in ticks
          Scenes,        \* sets of addresses that occur together
          Moves          \* whether the client may ping without nominating

ASSUME NoneAssumption    == None \notin Udp \cup Tcp
ASSUME AddressAssumption == Udp \cap Tcp = {} /\ IsFiniteSet(Udp \cup Tcp)
ASSUME FdsAssumption     == /\ Fds \subseteq Nat /\ IsFiniteSet(Fds)
                            /\ Cardinality(Fds) > Cardinality(Udp \cup Tcp)
ASSUME TicksAssumption   == /\ Lifetime \in Nat \ {0} /\ ClosedTicks \in Nat \ {0}
                            /\ InactiveTtl \in Nat /\ Timeout \in Nat /\ CheckTicks \in Nat
ASSUME ScenesAssumption  == Scenes \subseteq SUBSET (Udp \cup Tcp) /\ Moves \in BOOLEAN

VARIABLES
    scene,      \* the addresses that occur
    map,        \* all_connections
    addresses,  \* connection_id_by_address
    seen,       \* ticks since each address was inserted, up to a bound
    quiet,      \* ticks since the last binding request
    alive,      \* the connection is in the SFU
    nominated,  \* outgoing_addr of the connection
    accepted,   \* TCP IDs given out
    thread,     \* what each epoll thread is about to do
    tick,       \* what the tick is about to do, and the addresses it has collected
    is_healthy,
    late        \* some packet has waited for as long as a closed address is kept
------------------------------------------------------------------------------
(* TwoGenerationCacheWithManualRemoveOld of common/src/collections/        *)
(* two_generation_cache.rs.  A cache is a record of two functions from     *)
(* keys to values and the time left until the second one expires.          *)

Put(f, k, v)  == [x \in DOMAIN f \cup {k} |-> IF x = k THEN v ELSE f[x]]
Without(f, S) == [x \in DOMAIN f \ S |-> f[x]]

NewCache(lifetime) == [generation0 |-> <<>>, generation1 |-> <<>>, expires_in |-> lifetime]

Keys(c) == DOMAIN c.generation0 \cup DOMAIN c.generation1

Lookup(c, k) ==
    CASE k \in DOMAIN c.generation0 -> c.generation0[k]
      [] k \notin DOMAIN c.generation0 /\ k \in DOMAIN c.generation1 -> c.generation1[k]
      [] OTHER -> None

\* Seeded fault: a key that is known is left in its generation.
InsertIfUnknown(c, k, v) ==
    IF k \in Keys(c) THEN c ELSE [c EXCEPT !.generation0 = Put(@, k, v)]

InsertWithoutRemovingOld(c, k, v) == [c EXCEPT !.generation0 = Put(@, k, v)]

\* Seeded fault: nothing of the older generation is let go.
MergeOld(c, lifetime) ==
    IF c.expires_in > 0 THEN [cache |-> c, expired |-> {}]
    ELSE [cache   |-> [generation0 |-> <<>>,
                       generation1 |-> [k \in Keys(c) |-> Lookup(c, k)],
                       expires_in  |-> lifetime],
          expired |-> {}]

\* Seeded fault: what is let go is not told.
RemoveOldSilently(c, lifetime) ==
    IF c.expires_in > 0 THEN [cache |-> c, expired |-> {}]
    ELSE [cache   |-> [generation0 |-> <<>>, generation1 |-> c.generation0,
                       expires_in  |-> lifetime],
          expired |-> {}]

\* remove_old with swap_generations_if_its_been_too_long.  A key of the generation
\* that goes is expired only if it is not in the one that stays.
RemoveOld(c, lifetime) ==
    IF c.expires_in > 0 THEN [cache |-> c, expired |-> {}]
    ELSE [cache   |-> [generation0 |-> <<>>, generation1 |-> c.generation0,
                       expires_in  |-> lifetime],
          expired |-> DOMAIN c.generation1 \ DOMAIN c.generation0]
------------------------------------------------------------------------------
(* ConnectionMap: the sockets by file descriptor, the state of every peer  *)
(* address, and the ticks a TCP connection has left to be acknowledged by  *)
(* the SFU.  A socket is the address of its peer.  Each operator is a      *)
(* method, called with the lock of the map held; times are relative to     *)
(* now.                                                                    *)

EmptyMap == [by_fd |-> <<>>, by_peer_addr |-> <<>>, inactive_ttls |-> <<>>]

Connected(fd) == [state |-> "Connected", fd |-> fd, age |-> 0]
New(fd)       == [state |-> "New",       fd |-> fd, age |-> 0]
Closed        == [state |-> "Closed",    fd |-> 0,  age |-> 0]

StateOf(m, a) == IF a \in DOMAIN m.by_peer_addr THEN m.by_peer_addr[a].state
                 ELSE "NotYetConnected"

HasSocket(m, a) == StateOf(m, a) \in {"New", "Connected"}

\* get_or_insert_connected.  If the address has a socket the new one is dropped.
GetOrInsertConnected(m, fd, a) ==
    IF HasSocket(m, a) THEN m
    ELSE [by_fd         |-> Put(m.by_fd, fd, a),
          by_peer_addr  |-> Put(m.by_peer_addr, a, IF a \in Udp THEN Connected(fd) ELSE New(fd)),
          inactive_ttls |-> IF a \in Udp \cup DOMAIN m.inactive_ttls THEN m.inactive_ttls
                            ELSE Put(m.inactive_ttls, a, InactiveTtl)]

\* The addresses of S that have a socket.
Open(m, S) == {a \in S : HasSocket(m, a)}

\* Seeded fault: the descriptor stays in the table.
MarkClosedOnly(m, S) ==
    [by_fd         |-> m.by_fd,
     by_peer_addr  |-> [a \in DOMAIN m.by_peer_addr |->
                          IF a \in Open(m, S) THEN Closed ELSE m.by_peer_addr[a]],
     inactive_ttls |-> Without(m.inactive_ttls, Open(m, S))]

\* mark_closed, for every address of S.  The socket is dropped with its entry; the
\* address stays, closed.
MarkClosed(m, S) ==
    [by_fd         |-> Without(m.by_fd, {m.by_peer_addr[a].fd : a \in Open(m, S)}),
     by_peer_addr  |-> [a \in DOMAIN m.by_peer_addr |->
                          IF a \in Open(m, S) THEN Closed ELSE m.by_peer_addr[a]],
     inactive_ttls |-> Without(m.inactive_ttls,
                               {a \in Open(m, S) : m.by_peer_addr[a].state = "New"})]

\* Seeded fault: the entry is put back even if it is closed.
PutBack(m, S) == m

\* remove_closed, for every address of S: one that is connected again is put back.
RemoveClosed(m, S) ==
    [m EXCEPT !.by_peer_addr = Without(@, {a \in S : StateOf(m, a) = "Closed"})]

\* mark_as_active.
MarkAsActive(m, a) ==
    [by_fd         |-> m.by_fd,
     by_peer_addr  |-> [b \in DOMAIN m.by_peer_addr |->
                          LET entry == m.by_peer_addr[b]
                          IN  IF b = a /\ entry.state = "New" THEN Connected(entry.fd) ELSE entry],
     inactive_ttls |-> Without(m.inactive_ttls, {a})]

\* for_each_inactive_sender and closed_connection_iter.
InactiveSenders(m)       == {a \in DOMAIN m.inactive_ttls : m.inactive_ttls[a] < 0}
ClosedFor(m, ticks)      == {a \in DOMAIN m.by_peer_addr :
                               m.by_peer_addr[a].state = "Closed" /\ m.by_peer_addr[a].age >= ticks}
------------------------------------------------------------------------------
(* The server.                                                             *)

sfu  == <<addresses, seen, quiet, alive, nominated>>
vars == <<scene, map, sfu, accepted, thread, tick, is_healthy, late>>

Addrs == Udp \cup Tcp
Long  == 2 * Lifetime + 1
Ever  == Timeout + CheckTicks

AboutTo(at, a) == [at |-> at, addr |-> a, had |-> FALSE, age |-> 0]
Idle           == AboutTo("idle", None)

\* A packet for a; `had` is whether there was a socket when it was produced.
Sending(a) == [at |-> "send", addr |-> a, had |-> HasSocket(map, a), age |-> 0]

Ticked == [at |-> "idle", sends |-> {}, expired |-> {}, removable |-> {}]

Init == /\ scene \in Scenes
        /\ map = EmptyMap /\ addresses = NewCache(Lifetime)
        /\ seen = [a \in Addrs |-> Long]
        /\ quiet = 0 /\ alive = TRUE /\ nominated = None /\ accepted = {}
        /\ thread = [w \in Threads |-> Idle] /\ tick = Ticked
        /\ is_healthy = TRUE /\ late = FALSE

\* The kernel gives out the lowest descriptor that is free.
NewFd == Min(Fds \ DOMAIN map.by_fd)

Becomes(w, state) == thread' = [thread EXCEPT ![w] = state]
Goes(w, at)       == thread' = [thread EXCEPT ![w].at = at]
------------------------------------------------------------------------------
(* The epoll threads (run).                                                *)

Accept(w, t) ==
    /\ thread[w] = Idle /\ t \in Tcp \ accepted
    /\ accepted' = accepted \cup {t}
    /\ map' = GetOrInsertConnected(map, NewFd, t)
    /\ UNCHANGED <<scene, sfu, thread, tick, is_healthy, late>>

\* A packet is read, from the socket of the address or from the one for new clients.
Receive(w, a) ==
    /\ thread[w] = Idle
    /\ a \in Tcp => HasSocket(map, a)
    /\ Becomes(w, AboutTo("received", a))
    /\ UNCHANGED <<scene, map, sfu, accepted, tick, is_healthy, late>>

\* handle_packet with a binding request, in the lock of the connection.
HandleIce(w, nominate) ==
    /\ thread[w].at = "received" /\ alive
    /\ Moves \/ nominate
    /\ nominated' = IF nominate THEN thread[w].addr ELSE nominated
    /\ quiet' = 0
    /\ Goes(w, "insert")
    /\ UNCHANGED <<scene, map, addresses, seen, alive, accepted, tick, is_healthy, late>>

\* The address is inserted in the lock of the SFU, whatever became of the connection.
InsertAddress(w) ==
    LET a == thread[w].addr
    IN  /\ thread[w].at = "insert"
        /\ addresses' = InsertWithoutRemovingOld(addresses, a, "connection")
        /\ seen' = [seen EXCEPT ![a] = 0]
        /\ Becomes(w, Sending(a))
        /\ UNCHANGED <<scene, map, quiet, alive, nominated, accepted, tick, is_healthy, late>>

\* An unknown user name, or a packet that is not understood.
HandleUnknown(w) ==
    /\ thread[w].at = "received" /\ ~alive
    /\ Becomes(w, Idle)
    /\ UNCHANGED <<scene, map, sfu, accepted, tick, is_healthy, late>>

\* Media of another client is forwarded to the nominated address.
Forward(w) ==
    /\ thread[w] = Idle /\ alive /\ nominated # None
    /\ Becomes(w, Sending(nominated))
    /\ UNCHANGED <<scene, map, sfu, accepted, tick, is_healthy, late>>

\* EPOLLERR with a refused connection or a broken pipe, or data that is not valid.
SocketError(w, a) ==
    /\ thread[w] = Idle /\ HasSocket(map, a)
    /\ Becomes(w, AboutTo("close", a))
    /\ UNCHANGED <<scene, map, sfu, accepted, tick, is_healthy, late>>

\* send_packet in the read lock; `ok` is the result of send_and_keep.
SendPacket(w, ok) ==
    LET s == StateOf(map, thread[w].addr)
    IN  /\ thread[w].at = "send"
        /\ s \in {"Closed", "NotYetConnected"} => ok
        /\ CASE s = "Connected" /\ ok -> Becomes(w, Idle)
             [] s = "New" /\ ok       -> Goes(w, "activate")
             [] s = "Closed"          -> Becomes(w, Idle)
             [] s = "NotYetConnected" -> Goes(w, "connect")
             [] OTHER                 -> Goes(w, "close")
        /\ UNCHANGED <<scene, map, sfu, accepted, tick, is_healthy, late>>

Close(w) ==
    /\ thread[w].at = "close"
    /\ map' = MarkClosed(map, {thread[w].addr})
    /\ Becomes(w, Idle)
    /\ UNCHANGED <<scene, sfu, accepted, tick, is_healthy, late>>

Activate(w) ==
    /\ thread[w].at = "activate"
    /\ map' = MarkAsActive(map, thread[w].addr)
    /\ Becomes(w, Idle)
    /\ UNCHANGED <<scene, sfu, accepted, tick, is_healthy, late>>

\* Seeded fault: the address is not looked up again.
ConnectedBlindly(m, fd, a, ok) ==
    IF a \notin Udp THEN m
    ELSE LET n == [m EXCEPT !.by_fd = Put(@, fd, a),
                            !.by_peer_addr = Put(@, a, Connected(fd))]
         IN  IF ok THEN n ELSE MarkClosed(n, {a})

\* The end of send_packet in the write lock, when the address was not connected.
ConnectedNow(m, fd, a, ok) ==
    LET n == IF StateOf(m, a) = "NotYetConnected" /\ a \in Udp
             THEN GetOrInsertConnected(m, fd, a) ELSE m
    IN  CASE HasSocket(n, a) /\ ~ok      -> MarkClosed(n, {a})
          [] StateOf(n, a) = "New" /\ ok -> MarkAsActive(n, a)
          [] OTHER                       -> n

Connect(w, ok) ==
    LET a == thread[w].addr
    IN  /\ thread[w].at = "connect"
        /\ map' = ConnectedNow(map, NewFd, a, ok)
        /\ Becomes(w, Idle)
        /\ UNCHANGED <<scene, sfu, accepted, tick, is_healthy, late>>
------------------------------------------------------------------------------
(* The tick.                                                               *)

Older(n, bound) == IF n < bound THEN n + 1 ELSE n

\* A tick passes for the closed addresses of the map, and for what a thread has begun.
OlderMap(m) ==
    [m EXCEPT !.by_peer_addr =
        [a \in DOMAIN @ |-> IF @[a].state = "Closed"
                            THEN [state |-> "Closed", fd |-> 0, age |-> Older(@[a].age, ClosedTicks)]
                            ELSE @[a]]]

OlderThread(t) ==
    IF t = Idle THEN Idle
    ELSE [at |-> t.at, addr |-> t.addr, had |-> t.had, age |-> Older(t.age, ClosedTicks)]

\* The tick of the SFU: an inactive connection is dropped, unless inactivity is not
\* checked this time; old addresses expire; packets for the nominated address are
\* collected.  A tick has passed.
TickSfu(check) ==
    LET stays   == alive /\ ~(check /\ quiet + 1 >= Timeout)
        removed == RemoveOld([addresses EXCEPT !.expires_in = @ - 1], Lifetime)
    IN  /\ tick.at = "idle"
        /\ check \/ (alive /\ quiet + 1 >= Timeout /\ quiet < Ever)
        /\ seen' = [a \in Addrs |-> Older(seen[a], Long)]
        /\ quiet' = Older(quiet, Ever)
        /\ alive' = stays
        /\ addresses' = removed.cache
        /\ map' = OlderMap(map)
        /\ thread' = [w \in Threads |-> OlderThread(thread[w])]
        /\ tick' = [at |-> "send", sends |-> IF stays THEN {nominated} \ {None} ELSE {},
                    expired |-> removed.expired, removable |-> {}]
        /\ late' = (late \/ \E w \in Threads : thread'[w].age = ClosedTicks)
        /\ UNCHANGED <<scene, nominated, accepted, is_healthy>>

\* tick_number, which the times to live are relative to, is incremented.
NextTickNumber(m) ==
    [m EXCEPT !.inactive_ttls = [a \in DOMAIN @ |-> IF @[a] < 0 THEN @[a] ELSE @[a] - 1]]

\* The tick of the packet server begins.  Packets of the tick are only sent where there is a
\* socket.
TickSend(ok) ==
    LET failed == {a \in tick.sends : ~ok /\ HasSocket(map, a)}
    IN  /\ tick.at = "send"
        /\ ok \/ failed # {}
        /\ map' = NextTickNumber(map)
        /\ tick' = [tick EXCEPT !.at = "inactive", !.expired = @ \cup failed]
        /\ UNCHANGED <<scene, sfu, accepted, thread, is_healthy, late>>

TickInactive ==
    /\ tick.at = "inactive"
    /\ tick' = [tick EXCEPT !.at = "collect", !.expired = @ \cup InactiveSenders(map)]
    /\ UNCHANGED <<scene, map, sfu, accepted, thread, is_healthy, late>>

TickCollect ==
    /\ tick.at = "collect"
    /\ tick' = [tick EXCEPT !.at = "cleanup", !.removable = ClosedFor(map, ClosedTicks)]
    /\ UNCHANGED <<scene, map, sfu, accepted, thread, is_healthy, late>>

\* Seeded fault: cleaned up in one phase.
CleanedAtOnce(m, removable, expired) ==
    [by_fd         |-> Without(m.by_fd, {fd \in DOMAIN m.by_fd : m.by_fd[fd] \in expired}),
     by_peer_addr  |-> Without(m.by_peer_addr, removable \cup expired),
     inactive_ttls |-> Without(m.inactive_ttls, expired)]

\* "Clean up sockets closed on previous ticks" and "Mark clients to be cleaned up".
Cleaned(m, removable, expired) ==
    MarkClosed(RemoveClosed(m, removable), expired)

TickCleanup ==
    /\ tick.at = "cleanup"
    /\ map' = Cleaned(map, tick.removable, tick.expired)
    /\ tick' = Ticked
    /\ UNCHANGED <<scene, sfu, accepted, thread, is_healthy, late>>

\* The lock of the connections is not had within a tick; what was collected is lost.
TickGivesUp ==
    /\ tick.at = "cleanup" /\ tick.removable \cup tick.expired # {}
    /\ tick' = Ticked
    /\ is_healthy' = FALSE
    /\ UNCHANGED <<scene, map, sfu, accepted, thread, late>>
------------------------------------------------------------------------------
Step(w) == \/ \E nominate \in BOOLEAN : HandleIce(w, nominate)
           \/ InsertAddress(w) \/ HandleUnknown(w)
           \/ \E ok \in BOOLEAN : SendPacket(w, ok)
           \/ Close(w) \/ Activate(w)
           \/ \E ok \in BOOLEAN : Connect(w, ok)

Tick == \/ \E check \in BOOLEAN : TickSfu(check)
        \/ \E ok \in BOOLEAN : TickSend(ok)
        \/ TickInactive \/ TickCollect \/ TickCleanup

Wake(w) == \/ Step(w)
           \/ \E t \in scene \cap Tcp : Accept(w, t)
           \/ \E a \in scene : Receive(w, a)
           \/ \E a \in scene : SocketError(w, a)
           \/ Forward(w)

Next == (\E w \in Threads : Wake(w)) \/ Tick \/ TickGivesUp

Spec == Init /\ [][Next]_vars

\* The server ticks for ever and a thread finishes what it has begun.
Fairness == /\ []<>(tick.at = "idle") /\ []<>(tick.at = "collect")
            /\ \A w \in Threads : []<>(thread[w].at = "idle")

FairSpec == Spec /\ Fairness
------------------------------------------------------------------------------
\* The variables have their types.
TypeOK ==
    /\ DOMAIN map.by_fd \subseteq Fds
    /\ \A a \in DOMAIN map.by_peer_addr :
          /\ map.by_peer_addr[a].state \in {"New", "Connected", "Closed"}
          /\ map.by_peer_addr[a].fd \in IF HasSocket(map, a) THEN Fds ELSE {0}
          /\ map.by_peer_addr[a].age \in 0..ClosedTicks
    /\ \A a \in DOMAIN map.inactive_ttls : map.inactive_ttls[a] \in -1..InactiveTtl
    /\ Keys(addresses) \subseteq Addrs
    /\ seen \in [Addrs -> 0..Long] /\ quiet \in 0..Ever
    /\ scene \subseteq Addrs /\ nominated \in Addrs \cup {None} /\ accepted \subseteq Tcp
    /\ tick.expired \cup tick.removable \cup tick.sends \subseteq Addrs

\* The tables of ConnectionMap agree, whichever threads close, open and activate
\* connections between two locks: a connection has a descriptor whose socket is its
\* own ("self.by_fd[fd]" would panic), a descriptor has a connection (or the socket
\* would never be closed), and exactly the new connections have a time to live.
Agree(m) ==
    LET peers == m.by_peer_addr
    IN  /\ \A a \in DOMAIN peers : HasSocket(m, a) =>
              peers[a].fd \in DOMAIN m.by_fd /\ m.by_fd[peers[a].fd] = a
        /\ \A fd \in DOMAIN m.by_fd : HasSocket(m, m.by_fd[fd]) /\ peers[m.by_fd[fd]].fd = fd
        /\ DOMAIN m.inactive_ttls = {a \in DOMAIN peers : peers[a].state = "New"}

MapsAgree == Agree(map)

\* "This two-phase cleanup makes the following scenario unlikely": a packet that was
\* produced while its address had a socket opens no new one for it, unless it has
\* been on its way for CLOSED_SOCKET_EXPIRATION_IN_TICKS.
DelayedPacketsDoNotRevive ==
    \A w \in Threads :
        thread[w].at \in {"send", "connect"} /\ thread[w].had /\ thread[w].age < ClosedTicks
            => StateOf(map, thread[w].addr) # "NotYetConnected"

\* A closed address is never connected again before it has been freed, and is not
\* freed too early.
ClosedUntilFreed ==
    [][\A a \in Addrs : StateOf(map, a) = "Closed" =>
          \/ StateOf(map', a) = "Closed"
          \/ /\ StateOf(map', a) = "NotYetConnected"
             /\ map.by_peer_addr[a].age >= ClosedTicks]_vars

\* An address from which a binding request came less than a lifetime ago is known
\* to the SFU, whenever the generations are swapped.
AddressesInUseAreKept == \A a \in Addrs : seen[a] < Lifetime => a \in Keys(addresses)

\* "at most around 2x generation lifetime": an address without binding requests is
\* forgotten.
AddressesAgeOut == \A a \in Keys(addresses) : seen[a] <= 2 * Lifetime

\* What the two locks of a step leave behind is consistent, for the tables of sockets and of
\* addresses and for the packets that were on their way between them.
SocketsAreConsistent ==
    MapsAgree /\ DelayedPacketsDoNotRevive /\ AddressesInUseAreKept /\ AddressesAgeOut

\* A TCP connection that the SFU never acknowledges is closed, and a closed address
\* is freed.
EntriesAreFreed ==
    \A a \in Addrs : /\ (StateOf(map, a) = "New")    ~> (StateOf(map, a) # "New"    \/ ~is_healthy)
                     /\ (StateOf(map, a) = "Closed") ~> (StateOf(map, a) # "Closed" \/ ~is_healthy)

\* "hangups will be handled by tick() expiring the connection": once the connection
\* of a client is gone from the SFU, the sockets of its addresses are closed, unless
\* a packet was delayed for long or the server gave up a tick.
SocketsOfTheGoneAreClosed ==
    ~alive ~> ((\A a \in Addrs : ~HasSocket(map, a)) \/ late \/ ~is_healthy)

\* No socket and no entry of the map stays for ever.
ConnectionsAreFreed == EntriesAreFreed /\ SocketsOfTheGoneAreClosed
==============================================================================
