----------------------------- MODULE LayerSwitch ------------------------------
(***************************************************************************)
(* Which layer a Vp8SimulcastRtpForwarder (backend/src/call.rs) forwards   *)
(* and which one it waits for.  The state Paused is forwarding = None,     *)
(* DoNotSwitch is switching = None.                                        *)
(***************************************************************************)
CONSTANT None

ForwardingSsrc(v) == IF v.forwarding = None THEN None ELSE v.forwarding.incoming_ssrc

\* The SSRC a key frame is wanted from.
NeedsKeyFrame(v) ==
    CASE v.switching # None -> v.switching
      [] /\ v.switching = None /\ v.forwarding # None
         /\ v.forwarding.needs_key_frame -> v.forwarding.incoming_ssrc
      [] OTHER -> None

\* Seeded fault: a pause only calls off the switch.
SetDesiredKeepsForwarding(v, desired) ==
    CASE desired = None -> [v EXCEPT !.switching = None]
      [] desired # None /\ desired # ForwardingSsrc(v) -> [v EXCEPT !.switching = desired]
      [] OTHER -> v

\* set_desired_ssrc.  Asking for the layer that is being forwarded does not
\* call off a switch under way.
SetDesired(v, desired) ==
    CASE desired = None -> [v EXCEPT !.forwarding = None, !.switching = None]
      [] desired # None /\ desired # ForwardingSsrc(v) -> [v EXCEPT !.switching = desired]
      [] OTHER -> v

SetNeedsKeyFrame(v) ==
    IF v.forwarding = None THEN v ELSE [v EXCEPT !.forwarding.needs_key_frame = TRUE]
==============================================================================
