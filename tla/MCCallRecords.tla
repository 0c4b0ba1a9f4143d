---------------------------- MODULE MCCallRecords ----------------------------
(***************************************************************************)
(* Small instances of CallRecords.  A behaviour is either one of the room  *)
(* of a group, joined and peeked at while old calls are removed, with      *)
(* failing storage and restarting backends; or one of the room of a call   *)
(* link, created, updated, deleted, joined and expiring, while nothing     *)
(* fails.                                                                  *)
(***************************************************************************)
EXTENDS CallRecords, TLC

CONSTANTS group, room, b1, west, e1, e2, q1, q2

VARIABLE part

OneRegion == [x \in Backends \cup Requests |-> west]

Symmetry == Permutations(Eras) \cup Permutations(Requests)

Races == INSTANCE CallRecords WITH
    Handlers <- {"join", "peek"}, StorageFails <- TRUE, BackendFails <- TRUE

MCInit == /\ part \in {"races", "links"}
          /\ Init
          /\ part = "races" => link[room] = None

\* An update of the restrictions, and one that revokes the link.
SomeUpdates == {[restrictions |-> "none", revoked |-> None],
                [restrictions |-> None, revoked |-> TRUE]}

\* Without its link nobody joins the link's room; nobody asks for the group in "links".
MCNext == /\ UNCHANGED part
          /\ \/ part = "races" /\ Races!Next
             \/ /\ part = "links" /\ Next
                /\ \A p \in Requests : /\ request'[p].room # group
                                        /\ request'[p].update \in SomeUpdates \cup {None}

MCSpec == MCInit /\ [][MCNext]_<<part, vars>>
==============================================================================
