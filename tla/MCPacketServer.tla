---------------------------- MODULE MCPacketServer ----------------------------
(***************************************************************************)
(* Small instances of the parts of the packet server: its sockets          *)
(* (EpollServer), the framing on TCP, the timers, and the locks of the     *)
(* backend.  The parts share no variable; a behaviour is one of one part.  *)
(***************************************************************************)
EXTENDS EpollServer, Locks

CONSTANTS u1, t1, w1, w2,
          Base, MaxLength, Sizes, Capacity, MaxPackets,            \* TcpFraming
          Sleepers, Horizon, PollTimeout, MaxEvents, MaxTasks,     \* DequeueTimers
          Parts

VARIABLES part,
          sent, packets, outq, wire, size, pos, buf, received, broken,
          server, now, tasks, active_timer, sleeper, read_timeout

tcp_vars   == <<sent, packets, outq, wire, size, pos, buf, received, broken>>
timer_vars == <<server, now, tasks, active_timer, sleeper, read_timeout>>

Framing == INSTANCE TcpFraming
Timers  == INSTANCE DequeueTimers

OneClient == {{u1}, {t1}}

\* A part that is not looked at does nothing.
MCInit ==
    /\ part \in Parts /\ Init /\ Framing!Init /\ Timers!Init /\ LocksInit
    /\ part # "sockets" => scene = {u1}
    /\ part # "timers" => server = "epoll"

MCNext ==
    /\ UNCHANGED part
    /\ \/ /\ part = "sockets" /\ Next
          /\ UNCHANGED <<tcp_vars, timer_vars, lock_vars>>
       \/ /\ part = "framing" /\ Framing!Next
          /\ UNCHANGED <<vars, timer_vars, lock_vars>>
       \/ /\ part = "timers" /\ Timers!Next
          /\ UNCHANGED <<vars, tcp_vars, lock_vars>>
       \/ /\ part = "locks" /\ LocksNext
          /\ UNCHANGED <<vars, tcp_vars, timer_vars>>

\* The fairness of EpollServer, for the behaviours of the sockets.
MCFairness ==
    /\ []<>(part # "sockets" \/ tick.at = "idle")
    /\ []<>(part # "sockets" \/ tick.at = "collect")
    /\ \A w \in Threads : []<>(part # "sockets" \/ thread[w].at = "idle")

MCSpec ==
    /\ MCInit
    /\ [][MCNext]_<<part, vars, tcp_vars, timer_vars, lock_vars>>
    /\ MCFairness

\* Of TcpFraming: packets arrive whole and in order over TCP, and no byte of a packet that
\* is not dropped is lost (TcpState of epoll.rs).
PacketsArriveWhole == Framing!PacketsArriveWhole /\ Framing!NothingIsLost

\* Of DequeueTimers: the timers of packets fire on time (TimerHeap of packet_server.rs), and
\* those of the tick are delayed by EPOLL_WAIT_TIMEOUT_MS at most.
TimersFireOnTime == Timers!TimersFireOnTime /\ Timers!DelayIsLimited
==============================================================================
