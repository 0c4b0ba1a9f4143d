---------------------------- MODULE ApprovedUsers ----------------------------
(***************************************************************************)
(* How a call's approved users reach the frontend:                         *)
(* backend/src/call/approval_persistence.rs.  The set changes while the    *)
(* call has clients.  A tick starts at most one background request with a  *)
(* snapshot of the set, looks at its outcome on a later tick and retries   *)
(* it a few times.  A call without clients ends only when the set is idle. *)
(* The frontend and the network are external.  Persistence is configured:  *)
(* without a URL, spawn only clears the flag.                              *)
(***************************************************************************)
EXTENDS Naturals

CONSTANTS
    Users,
    MaxRetries      \* 3

ASSUME RetryAssumption == MaxRetries \in Nat

VARIABLES
    set,            \* ApprovedUsers::set
    modified,       \* changed since the last request was started
    retry_count,
    future,         \* the background task, or NoFuture
    occupied,       \* the call has clients
    ended,          \* the call was removed from the Sfu
    stored,         \* the list the frontend has stored for the room
    late,           \* requests that may still be applied
    abandoned,      \* history: the last outcome was neither stored nor retried
    overtaken       \* history: the store holds a request nobody waited for

struct == <<set, modified, retry_count, future>>
vars   == <<set, modified, retry_count, future, occupied, ended, stored, late, abandoned,
            overtaken>>

Phases == {"delayed", "sent", "applied", "ok", "error", "cancelled"}

Futures  == [phase : Phases, body : SUBSET Users]
NoFuture == [phase |-> "none", body |-> {}]

IsFinished(f) == f.phase \in {"ok", "error", "cancelled"}
IsBusy        == modified \/ future # NoFuture

\* spawn: the body is serialized now, the request is sent after the wait.
Spawn(phase) == [phase |-> phase, body |-> set]

Init == /\ set \in SUBSET Users
        /\ stored = set
        /\ modified = FALSE
        /\ retry_count = 0
        /\ future = NoFuture
        /\ occupied = TRUE
        /\ ended = FALSE
        /\ late = {}
        /\ abandoned = FALSE
        /\ overtaken = FALSE
------------------------------------------------------------------------------
(* The call's side.                                                        *)

\* insert and remove set the flag only if the set really changes.
Insert == \E u \in Users \ set :
            /\ occupied
            /\ set' = set \cup {u}
            /\ modified' = TRUE
            /\ UNCHANGED <<retry_count, future, occupied, ended, stored, late, abandoned,
                           overtaken>>

\* Seeded fault: a removal is not flagged.
RemoveUnflagged == \E u \in set :
            /\ occupied
            /\ set' = set \ {u}
            /\ UNCHANGED <<modified, retry_count, future, occupied, ended, stored, late,
                           abandoned, overtaken>>

Remove == \E u \in set :
            /\ occupied
            /\ set' = set \ {u}
            /\ modified' = TRUE
            /\ UNCHANGED <<retry_count, future, occupied, ended, stored, late, abandoned,
                           overtaken>>

\* Seeded fault: a failed request is tried again for ever.
RetryForEver ==
    LET retry == future.phase = "error" /\ ~modified IN
    [retry_count |-> retry_count,
     future      |-> IF retry THEN Spawn("delayed") ELSE NoFuture]

\* Looks at a finished task.  A change made meanwhile replaces the retry.
AfterOutcome ==
    LET retry == future.phase = "error" /\ ~modified IN
    [retry_count |-> IF retry THEN retry_count + 1 ELSE retry_count,
     future      |-> IF retry /\ retry_count < MaxRetries THEN Spawn("delayed") ELSE NoFuture]

\* Seeded fault: the flag is cleared when the request succeeds, and with it a
\* change made meanwhile.
ClearOnSuccess ==
    LET polled == IF IsFinished(future) THEN AfterOutcome
                  ELSE [retry_count |-> retry_count, future |-> future]
        done   == future.phase = "ok"
        start  == modified /\ ~done /\ polled.future = NoFuture
    IN  /\ modified'    = (modified /\ ~done)
        /\ retry_count' = IF start THEN 0 ELSE polled.retry_count
        /\ future'      = IF start THEN Spawn("sent") ELSE polled.future
        /\ abandoned'   = (abandoned \/ future.phase \in {"error", "cancelled"})
        /\ UNCHANGED set

tick ==
    LET polled == IF IsFinished(future) THEN AfterOutcome
                  ELSE [retry_count |-> retry_count, future |-> future]
        start  == modified /\ polled.future = NoFuture
    IN  /\ modified'    = (modified /\ ~start)
        /\ retry_count' = IF start THEN 0 ELSE polled.retry_count
        /\ future'      = IF start THEN Spawn("sent") ELSE polled.future
        /\ abandoned'   = IF start THEN FALSE
                          ELSE \/ abandoned
                               \/ /\ future.phase \in {"error", "cancelled"}
                                  /\ polled.future = NoFuture
        /\ UNCHANGED set

\* Call::tick, for a call with clients.
Tick == /\ occupied
        /\ tick
        /\ UNCHANGED <<occupied, ended, stored, late, overtaken>>

\* Call::activity, for a call without clients: the Sfu removes the call once
\* the set is idle and the inactivity timeout has passed.
Activity(timeout) ==
    /\ ~occupied
    /\ ~ended
    /\ tick
    /\ ended' = (timeout /\ ~IsBusy')
    /\ UNCHANGED <<occupied, stored, late, overtaken>>

\* The last client leaves, or a client joins before the call is removed.
Vacate == /\ occupied
          /\ occupied' = FALSE
          /\ UNCHANGED <<struct, ended, stored, late, abandoned, overtaken>>

Rejoin == /\ ~occupied
          /\ ~ended
          /\ occupied' = TRUE
          /\ UNCHANGED <<struct, ended, stored, late, abandoned, overtaken>>

\* The next call in the room starts from the stored list.
NextCall == /\ ended
            /\ set' = stored
            /\ modified' = FALSE
            /\ retry_count' = 0
            /\ future' = NoFuture
            /\ ended' = FALSE
            /\ occupied' = TRUE
            /\ abandoned' = FALSE
            /\ overtaken' = FALSE
            /\ UNCHANGED <<stored, late>>
------------------------------------------------------------------------------
(* The background task, the network and the frontend.                      *)

Becomes(phase) ==
    /\ future' = [future EXCEPT !.phase = phase]
    /\ UNCHANGED <<set, modified, retry_count, occupied, ended, abandoned>>

\* The wait before a retry is over.
Send == /\ future.phase = "delayed"
        /\ Becomes("sent")
        /\ UNCHANGED <<stored, late, overtaken>>

\* The frontend stores the list; its answer is still under way.
Apply == /\ future.phase = "sent"
         /\ Becomes("applied")
         /\ stored' = future.body
         /\ overtaken' = FALSE
         /\ UNCHANGED late

Answer == /\ future.phase = "applied"
          /\ Becomes("ok")
          /\ UNCHANGED <<stored, late, overtaken>>

\* The frontend refuses, or the request cannot be sent.
Fail == /\ future.phase = "sent"
        /\ Becomes("error")
        /\ UNCHANGED <<stored, late, overtaken>>

LeftBehind == IF future.phase = "sent" THEN {future.body} ELSE {}

\* No answer in time.  The request may have been applied, or may yet be.
TimeOut == /\ future.phase \in {"sent", "applied"}
           /\ Becomes("error")
           /\ late' = late \cup LeftBehind
           /\ UNCHANGED <<stored, overtaken>>

\* The task panics or is cancelled.
Cancel == /\ future.phase \in {"delayed", "sent", "applied"}
          /\ Becomes("cancelled")
          /\ late' = late \cup LeftBehind
          /\ UNCHANGED <<stored, overtaken>>

\* The frontend gets round to a request nobody waits for any more, or that
\* request is lost.
ApplyLate == \E body \in late :
               /\ late' = late \ {body}
               /\ \/ stored' = body /\ overtaken' = TRUE
                  \/ UNCHANGED <<stored, overtaken>>
               /\ UNCHANGED <<struct, occupied, ended, abandoned>>
------------------------------------------------------------------------------
Next == \/ Insert \/ Remove \/ Tick \/ Vacate \/ Rejoin \/ NextCall
        \/ \E timeout \in BOOLEAN : Activity(timeout)
        \/ Send \/ Apply \/ Answer \/ Fail \/ TimeOut \/ Cancel \/ ApplyLate

Spec == Init /\ [][Next]_vars

\* The Sfu ticks every call, the inactivity timeout passes, and the task ends
\* because its sleeps and its timeout fire.
Fairness == /\ WF_vars(Tick)
            /\ WF_vars(Activity(TRUE))
            /\ WF_vars(Send)
            /\ WF_vars(Answer \/ Fail \/ TimeOut)

FairSpec == Spec /\ Fairness
------------------------------------------------------------------------------
(* Properties.                                                             *)

TypeOK == /\ set \in SUBSET Users
          /\ modified \in BOOLEAN
          /\ retry_count \in 0..(MaxRetries + 1)
          /\ future \in Futures \cup {NoFuture}
          /\ occupied \in BOOLEAN
          /\ ended \in BOOLEAN
          /\ stored \in SUBSET Users
          /\ late \in SUBSET SUBSET Users
          /\ abandoned \in BOOLEAN
          /\ overtaken \in BOOLEAN

\* The request under way, retries included, carries the present set unless the
\* set has changed since, in which case another request will follow.
RequestIsCurrent == future # NoFuture /\ ~modified => future.body = set

\* When the set is idle the frontend has it, unless the last request was given
\* up, its task died, or an earlier request that timed out was applied late.
\* In particular the next call of the room starts with the approvals the last
\* one ended with.
IdleMeansStored == ~IsBusy /\ ~abandoned /\ ~overtaken => stored = set

\* No approval is lost between a call and the frontend, whatever requests fail, time out or
\* are overtaken (ApprovedUsers::tick).
ApprovalsAreStored == RequestIsCurrent /\ IdleMeansStored

\* A call that stays empty ends, even if the frontend never answers: is_busy
\* cannot hold the call back for ever.
EmptyCallEnds == <>[](~occupied) => []<>ended
==============================================================================
