----------------------------- MODULE MCConnection -----------------------------
(* Packets of two units, padding of one; a slow and a fast configuration   *)
(* with padding and one without.                                           *)
EXTENDS Connection

CONSTANTS a1, a2, ssrc

SomeAddresses == {a1, a2}
Sizes         == [kind \in {"video", "rtx", "padding"} |-> IF kind = "padding" THEN 1 ELSE 2]

\* The client is not there yet, and then moves.
Moving == [half |-> "sending", first_address |-> None, addresses |-> {a1, a2},
           configs |-> {Config(2, 1, ssrc), Config(1, 0, None)},
           video |-> {1}, rtx |-> {}, nacks |-> {}]

\* The client stays where it is and loses packets.
Losing == [half |-> "sending", first_address |-> a1, addresses |-> {},
           configs |-> {Config(2, 1, ssrc)},
           video |-> {1, 2}, rtx |-> {1}, nacks |-> {<<1, None>>, <<2, 1>>}]

\* The client sends.
Sending == [half |-> "receiving", first_address |-> a1, addresses |-> {}, configs |-> {},
            video |-> {}, rtx |-> {}, nacks |-> {}]

SomeScenes == [moving |-> Moving, losing |-> Losing, sending |-> Sending]
==============================================================================
