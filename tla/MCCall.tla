------------------------------- MODULE MCCall --------------------------------
(* A small call: an administrator u1 and a user u2 with two devices.       *)
EXTENDS Call, FiniteSets, TLC

CONSTANTS d1, d2, d3, u1, u2

Device(d, u, admin) == [demux_id |-> d, user_id |-> u, is_admin |-> admin]

ThreeDevices == {d1, d2, d3}
TwoUsers     == {u1, u2}
NoUsers      == {}

ThreeJoins == {Device(d1, u1, TRUE), Device(d2, u2, FALSE), Device(d3, u2, FALSE)}

Targets == DemuxIds \cup {None}

\* A device raises its hand, then lowers it; messages overtake one another.
Hands == {[raise |-> TRUE, seqnum |-> 1], [raise |-> FALSE, seqnum |-> 2], None}

Present(p) == {f \in DOMAIN p : p[f] # None}

\* One admin action or one hand, or a hand together with a removal or a block.
SmallProtos ==
    {p \in [approve : Targets, deny : Targets, remove : Targets, block : Targets,
            raise_hand : Hands] :
        \/ Cardinality(Present(p)) = 1
        \/ /\ Cardinality(Present(p)) = 2
           /\ p.raise_hand # None
           /\ p.remove # None \/ p.block # None}

\* The devices of u2 are alike.
Symmetry == Permutations({d2, d3})
==============================================================================
