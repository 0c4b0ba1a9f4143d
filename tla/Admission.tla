------------------------------ MODULE Admission ------------------------------
(***************************************************************************)
(* What a call promises about who takes part in it, independently of user  *)
(* lists, raised hands or messages.  A device is absent, pending (waiting  *)
(* for approval), active (exchanging media) or removed (told to go, still  *)
(* connected).  It joins and leaves by itself; everything in between is    *)
(* moderation, which needs an administrator in the call and only ever      *)
(* moves a device forward: pending, active, removed.                       *)
(***************************************************************************)
CONSTANT DemuxIds

VARIABLES
    status,     \* where each device stands
    moderated   \* whether an administrator is active in the call

Statuses == {"absent", "pending", "active", "removed"}

Init == /\ status = [d \in DemuxIds |-> "absent"]
        /\ moderated = FALSE

\* The moves moderation may make with a device, several in one step included.
Forward(from, to) ==
    \/ from = to
    \/ from = "pending" /\ to \in {"active", "removed"}
    \/ from = "active"  /\ to = "removed"

\* A device enters the call; no other device is moved.
Enter(d) == /\ status[d] = "absent"
            /\ \E place \in Statuses \ {"absent"} :
                  status' = [status EXCEPT ![d] = place]
            /\ moderated' \in BOOLEAN

\* A device leaves, from whatever list it is in; no other device is moved.
Exit(d) == /\ status' = [status EXCEPT ![d] = "absent"]
           /\ moderated' \in BOOLEAN

\* An administrator approves, denies, removes or blocks.
Moderate == /\ moderated
            /\ status' \in [DemuxIds -> Statuses]
            /\ \A d \in DemuxIds : Forward(status[d], status'[d])
            /\ moderated' \in BOOLEAN

Next == \/ \E d \in DemuxIds : Enter(d) \/ Exit(d)
        \/ Moderate

Spec == Init /\ [][Next]_<<status, moderated>>
==============================================================================
