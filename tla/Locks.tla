-------------------------------- MODULE Locks ---------------------------------
(***************************************************************************)
(* The locks of the backend, and the order in which each kind of work      *)
(* takes and releases them: the packets of an epoll thread and its timers  *)
(* (backend/src/packet_server/epoll.rs, sfu.rs), the tick, and the         *)
(* requests of the HTTP, signaling and metrics servers.                    *)
(*                                                                         *)
(* A stretch of work is the sequence of steps on the locks from one moment *)
(* at which its thread holds none to the next.  What a thread holds        *)
(* between its stretches is nothing, so each is begun as if on its own.    *)
(*                                                                         *)
(* The locks are mutexes, except all_connections, a read-write lock of     *)
(* parking_lot: a writer that waits keeps new readers out, so a thread     *)
(* that reads twice can wait for a writer that waits for that thread.      *)
(* "incoming" is the connection of the sender of a packet, "outgoing" that *)
(* of a receiver.                                                          *)
(***************************************************************************)
EXTENDS Sequences

CONSTANTS Workers   \* threads

VARIABLES
    todo,     \* the steps each worker has left of its stretch
    holds,    \* the locks it holds, each with its mode
    parked    \* the workers that wait to write

lock_vars == <<todo, holds, parked>>

Take(l, mode) == [op |-> "take", lock |-> l, mode |-> mode]
Release(l)    == [op |-> "release", lock |-> l, mode |-> "any"]

Under(l, mode, body) == <<Take(l, mode)>> \o body \o <<Release(l)>>

With(l, body)       == Under(l, "lock", body)
Reading(body)       == Under("all_connections", "read", body)
Writing(body)       == Under("all_connections", "write", body)
WritingOrNot(body)  == Under("all_connections", "try", body)   \* try_write_for
Brief(l)            == With(l, <<>>)
------------------------------------------------------------------------------
(* What is done with a packet.                                             *)

\* send_packet: in the read lock, which is dropped before the write lock is taken.
SendOnSocket == {Reading(Brief("tcp")), Writing(Brief("tcp"))}

\* The RTP branch of handle_packet: the connection and the call are locked once the SFU
\* is not.  But the guard of an `if let` lives as long as its block, so a packet is
\* enqueued with the SFU and the connection locked.
HandleRtp == {Brief("sfu"), Brief("incoming"), Brief("call"), With("sfu", Brief("outgoing"))}

\* Seeded fault: the call is still locked when the connection is removed.
HandleLeaveLocked == {With("call", With("sfu", Brief("incoming")))}

\* call::Error::Leave: the call is unlocked before the connection is removed.
HandleLeave == {Brief("call"), With("sfu", Brief("incoming"))}

HandleRtcp == {Brief("sfu"), Brief("incoming"), Brief("call"), With("sfu", Brief("outgoing"))}

HandleBindingRequest == {Brief("sfu"), Brief("incoming")}

\* run: a socket is read in the read lock and its packet handled after it.
ReceivePacket == {Reading(Brief("tcp")), Brief("timer_heap")}
                    \cup HandleRtp \cup HandleLeave \cup HandleRtcp \cup HandleBindingRequest
                    \cup SendOnSocket

AcceptSocket == {Writing(Brief("tcp"))}

\* An error of the socket: the read lock is dropped before the write lock is taken.
CloseSocket == {Reading(Brief("tcp")), Writing(<<>>)}

\* A due timer: Sfu::handle_dequeue and send_packet with the timer heap locked.
Dequeue ==
    {With("timer_heap", Brief("sfu") \o Brief("incoming") \o Reading(Brief("tcp")) \o write) :
        write \in {<<>>, Writing(Brief("tcp"))}}
------------------------------------------------------------------------------
(* The tick, and the requests.                                             *)

\* Sfu::tick: diagnostics, connections, calls, and what the calls have for connections.
TickOfSfu ==
    {With("sfu", diagnostics \o Brief("incoming") \o Brief("outgoing") \o Brief("call")
                    \o Brief("outgoing")) :
        diagnostics \in {<<>>, With("call", Brief("incoming"))}}

TickServer == {Reading(Brief("tcp")), Brief("timer_heap"), Reading(<<>>), WritingOrNot(<<>>)}

GetStats == {With("sfu", Reading(<<>>) \o Brief("call") \o Brief("incoming"))}

GetCallSignalingInfo == {With("sfu", Brief("call"))}

\* get_health and get_metrics: a snapshot of the calls, each locked after the SFU.
ReadCalls == {Brief("sfu"), Brief("call")}

\* get_or_create_call_and_add_client, as the signaling server calls it and as the HTTP
\* server does, between two looks at the call.
Join == {With("sfu", Brief("call")), With("sfu", Brief("call") \o Brief("call") \o Brief("call"))}

RemoveClientFromCall == {With("sfu", Brief("call") \o Brief("incoming"))}

Work == ReceivePacket \cup AcceptSocket \cup CloseSocket \cup Dequeue
            \cup TickOfSfu \cup TickServer \cup GetStats \cup GetCallSignalingInfo
            \cup ReadCalls \cup Join \cup RemoveClientFromCall
------------------------------------------------------------------------------
LocksInit ==
    /\ todo = [w \in Workers |-> <<>>]
    /\ holds = [w \in Workers |-> {}]
    /\ parked = {}

Busy == {w \in Workers : todo[w] # <<>>}

HasLock(w, l) == \E h \in holds[w] : h.lock = l

\* The workers that keep w from its next step.
WaitsFor(w) ==
    LET s == Head(todo[w])
    IN  IF w \notin Busy \/ s.op = "release" \/ s.mode = "try" THEN {}
        ELSE {v \in Workers :
                 \/ \E h \in holds[v] : h.lock = s.lock /\ ~(s.mode = "read" /\ h.mode = "read")
                 \/ s.mode = "read" /\ v \in parked \ {w}}

Begin(w, stretch) ==
    /\ w \notin Busy
    /\ todo' = [todo EXCEPT ![w] = stretch]
    /\ UNCHANGED <<holds, parked>>

TakeLock(w) ==
    /\ w \in Busy /\ Head(todo[w]).op = "take" /\ Head(todo[w]).mode # "try"
    /\ WaitsFor(w) = {}
    /\ holds' = [holds EXCEPT ![w] = @ \cup {[lock |-> Head(todo[w]).lock,
                                              mode |-> Head(todo[w]).mode]}]
    /\ todo' = [todo EXCEPT ![w] = Tail(@)]
    /\ parked' = parked \ {w}

\* A writer that has to wait keeps readers out from now on.
Park(w) ==
    /\ w \in Busy \ parked /\ Head(todo[w]).mode = "write" /\ WaitsFor(w) # {}
    /\ parked' = parked \cup {w}
    /\ UNCHANGED <<todo, holds>>

\* try_write_for: if the lock is not had in time, nothing is cleaned up.
TryWrite(w, had) ==
    /\ w \in Busy /\ Head(todo[w]).mode = "try"
    /\ had => \A v \in Workers : ~HasLock(v, "all_connections")
    /\ holds' = IF had THEN [holds EXCEPT ![w] = @ \cup {[lock |-> "all_connections",
                                                          mode |-> "write"]}]
                ELSE holds
    /\ todo' = [todo EXCEPT ![w] = Tail(@)]
    /\ UNCHANGED parked

ReleaseLock(w) ==
    /\ w \in Busy /\ Head(todo[w]).op = "release"
    /\ holds' = [holds EXCEPT ![w] = {h \in @ : h.lock # Head(todo[w]).lock}]
    /\ todo' = [todo EXCEPT ![w] = Tail(@)]
    /\ UNCHANGED parked

LocksNext ==
    \E w \in Workers : \/ \E stretch \in Work : Begin(w, stretch)
                       \/ TakeLock(w) \/ Park(w) \/ ReleaseLock(w)
                       \/ \E had \in BOOLEAN : TryWrite(w, had)

LocksSpec == LocksInit /\ [][LocksNext]_lock_vars
------------------------------------------------------------------------------
\* Nobody waits for everyone: whatever packets, timers, ticks and requests are handled
\* at the same time, no worker waits, through others, for itself.
NoDeadlock == ~\E D \in (SUBSET Workers) \ {{}} : \A w \in D : WaitsFor(w) \cap D # {}
==============================================================================
