---------------------------- MODULE DequeueTimers -----------------------------
(***************************************************************************)
(* The timers that dequeue paced packets: TimerHeap of                     *)
(* backend/src/packet_server.rs, and how the threads of the epoll server   *)
(* (packet_server/epoll.rs) and of the generic server                      *)
(* (packet_server/generic.rs) sleep until the next one is due.             *)
(*                                                                         *)
(* Time passes only while every thread sleeps: what a thread does takes    *)
(* none, so a lateness is one that the way the threads sleep causes.  An   *)
(* epoll thread sleeps on epoll_wait, which its timerfd ends too; a        *)
(* generic thread sleeps in recv_from, with the read timeout that the last *)
(* thread has set on the one socket.                                       *)
(***************************************************************************)
EXTENDS Integers, FiniteSets

CONSTANTS Sleepers,     \* threads of the server
          Horizon,      \* last moment
          PollTimeout,  \* EPOLL_WAIT_TIMEOUT_MS
          MaxEvents,    \* MAX_EPOLL_EVENTS, the timers handled before the sockets are seen to
          MaxTasks      \* timers in the heap

Never == Horizon + PollTimeout + 1

VARIABLES
    server,        \* "epoll" or "generic"
    now,
    tasks,         \* the heap: when each dequeue is due, and who has scheduled it
    active_timer,  \* which of the times is set on some timerfd
    sleeper,       \* what each thread does, and until when it sleeps
    read_timeout   \* of the socket of the generic server, Never if none

timer_vars == <<server, now, tasks, active_timer, sleeper, read_timeout>>

\* Asleep until `until` or, if earlier, the time of its timerfd; or awake, with `left`
\* dequeues to go.
Sleeper == [at : {"asleep", "awake", "dequeue"}, until : Nat, timerfd : Nat, left : Nat]

Init == /\ server \in {"epoll", "generic"}
        /\ now = 0 /\ tasks = {} /\ active_timer = Never
        /\ read_timeout = Never
        /\ sleeper = [s \in Sleepers |->
                         [at |-> "asleep", left |-> 0, timerfd |-> Never,
                          until |-> IF server = "epoll" THEN PollTimeout ELSE Never]]

NextDue == CHOOSE t \in tasks : \A u \in tasks : t.time <= u.time

NothingDue == \A t \in tasks : t.time > now

Awake(s) == sleeper[s].at # "asleep"

Due(s) == \/ sleeper[s].until <= now
          \/ server = "epoll" /\ sleeper[s].timerfd <= now

Wakes(s) == [sleeper EXCEPT ![s] = [@ EXCEPT !.at = "dequeue", !.left = MaxEvents,
                                             !.timerfd = IF @ <= now THEN Never ELSE @]]

\* TimerHeap::schedule.
Schedule(time, by) == tasks' = tasks \cup {[time |-> time, by |-> by]}
------------------------------------------------------------------------------
\* A timeout or a timerfd.
WakeUp(s) ==
    /\ ~Awake(s) /\ Due(s)
    /\ sleeper' = Wakes(s)
    /\ UNCHANGED <<server, now, tasks, active_timer, read_timeout>>

\* A packet comes in; its packets may have to be dequeued later.
Receive(s, time) ==
    /\ ~Awake(s)
    /\ sleeper' = Wakes(s)
    /\ \/ time = Never /\ UNCHANGED tasks
       \/ /\ time \in now..Horizon /\ Cardinality(tasks) < MaxTasks
          /\ Schedule(time, "thread")
    /\ UNCHANGED <<server, now, active_timer, read_timeout>>

\* The tick schedules dequeues, on a thread that has no timerfd.
TickSchedules(time) ==
    /\ Cardinality(tasks) < MaxTasks
    /\ Schedule(time, "tick")
    /\ UNCHANGED <<server, now, active_timer, sleeper, read_timeout>>

\* Seeded fault: the time stays set although its timer is gone.
NextKeepsActive(task) == active_timer' = active_timer

\* TimerHeap::next with a timer that is due.
NextTask(task) == active_timer' = IF task.time = active_timer THEN Never ELSE active_timer

\* A due timer: Sfu::handle_dequeue sends a packet or not, and is to be called again or not.
Dequeue(s, sent, time) ==
    /\ sleeper[s].at = "dequeue" /\ sleeper[s].left > 0
    /\ ~NothingDue
    /\ NextTask(NextDue)
    /\ tasks' = (tasks \ {NextDue}) \cup IF time = Never THEN {}
                                         ELSE {[time |-> time, by |-> "thread"]}
    /\ time = Never \/ time \in (now + 1)..Horizon
    /\ sleeper' = [sleeper EXCEPT ![s].left = IF sent /\ server = "epoll" THEN @ - 1 ELSE @]
    /\ UNCHANGED <<server, now, read_timeout>>

\* TimerHeap::set_timer, for the timerfd of the thread.
SetTimer(s) ==
    IF tasks # {} /\ NextDue.time < active_timer
    THEN [timerfd |-> NextDue.time, active |-> NextDue.time]
    ELSE [timerfd |-> sleeper[s].timerfd, active |-> active_timer]

\* Seeded fault: the thread waits without a timeout.
SleepWithoutLimit(s) ==
    /\ server = "epoll" /\ sleeper[s].at = "dequeue" /\ sleeper[s].left > 0
    /\ NothingDue
    /\ LET set == SetTimer(s)
       IN  /\ active_timer' = set.active
           /\ sleeper' = [sleeper EXCEPT ![s] = [@ EXCEPT !.at = "asleep", !.timerfd = set.timerfd,
                                                         !.until = Never]]
    /\ UNCHANGED <<server, now, tasks, read_timeout>>

\* No timer is due: the thread sets its timerfd and waits.
Sleep(s) ==
    /\ server = "epoll" /\ sleeper[s].at = "dequeue" /\ sleeper[s].left > 0
    /\ NothingDue
    /\ LET set == SetTimer(s)
       IN  /\ active_timer' = set.active
           /\ sleeper' = [sleeper EXCEPT ![s] = [@ EXCEPT !.at = "asleep", !.timerfd = set.timerfd,
                                                         !.until = now + PollTimeout]]
    /\ UNCHANGED <<server, now, tasks, read_timeout>>

\* As many as may be handled at once: the sockets are polled without waiting.
PollAgain(s) ==
    /\ server = "epoll" /\ sleeper[s].at = "dequeue" /\ sleeper[s].left = 0
    /\ sleeper' = [sleeper EXCEPT ![s].at = "asleep", ![s].until = now]
    /\ UNCHANGED <<server, now, tasks, active_timer, read_timeout>>

\* The generic server: the timeout is set with the heap locked...
SetReadTimeout(s) ==
    /\ server = "generic" /\ sleeper[s].at = "dequeue"
    /\ NothingDue
    /\ read_timeout' = IF tasks = {} THEN Never ELSE NextDue.time - now
    /\ sleeper' = [sleeper EXCEPT ![s].at = "awake"]
    /\ UNCHANGED <<server, now, tasks, active_timer>>

\* ... and holds for whoever receives next.
RecvFrom(s) ==
    /\ sleeper[s].at = "awake"
    /\ sleeper' = [sleeper EXCEPT ![s].at = "asleep",
                                  ![s].until = IF read_timeout = Never THEN Never
                                               ELSE now + read_timeout]
    /\ UNCHANGED <<server, now, tasks, active_timer, read_timeout>>

TimePasses ==
    /\ now < Horizon
    /\ \A s \in Sleepers : ~Awake(s) /\ ~Due(s)
    /\ now' = now + 1
    /\ UNCHANGED <<server, tasks, active_timer, sleeper, read_timeout>>

Next == \/ \E s \in Sleepers :
              \/ WakeUp(s) \/ Sleep(s) \/ PollAgain(s) \/ SetReadTimeout(s) \/ RecvFrom(s)
              \/ \E time \in (0..Horizon) \cup {Never} : Receive(s, time)
              \/ \E sent \in BOOLEAN, time \in (0..Horizon) \cup {Never} : Dequeue(s, sent, time)
        \/ \E time \in now..Horizon : TickSchedules(time)
        \/ TimePasses

Spec == Init /\ [][Next]_timer_vars
------------------------------------------------------------------------------
\* The variables have their types.
TypeOK == /\ sleeper \in [Sleepers -> Sleeper]
          /\ now \in 0..Horizon /\ active_timer \in (0..Horizon) \cup {Never}
          /\ \A t \in tasks : t.time \in 0..Horizon /\ t.by \in {"thread", "tick"}

\* A dequeue that a packet has scheduled happens at its time, whichever threads share the
\* heap, take each other's timers and set their own: the next timer is always set
\* on some timerfd, or some thread is awake.
TimersFireOnTime == \A t \in tasks : t.by = "thread" => t.time >= now

\* "Timers set from tick() don't have a wakeup mechanism; a lower value limits the
\* maximum delay for those timers": no timer of the epoll server is later than that.
DelayIsLimited == server = "epoll" => \A t \in tasks : t.time + PollTimeout >= now
==============================================================================
