------------------------------ MODULE MCDisplayHelper ------------------------------
(* Instances of DisplayHelper for TLC: the request shapes the runs draw from.      *)
EXTENDS DisplayHelperProperties

Desktop == [virtual |-> FALSE, hdr |-> "unset", restore_on_disconnect |-> TRUE,
            omit_final_hdr |-> FALSE]
(* A session the host pauses, rather than restores, when its client goes away.     *)
Paused == [Desktop EXCEPT !.restore_on_disconnect = FALSE]
VirtualDesktop == [Desktop EXCEPT !.virtual = TRUE]
VirtualHdr == [VirtualDesktop EXCEPT !.hdr = "on"]
(* HDR with the last settling stage left out, as for a capture-gated start.        *)
GatedHdr == [Desktop EXCEPT !.hdr = "on", !.omit_final_hdr = TRUE]

OnlyDesktop == {Desktop}
DesktopOrPaused == {Desktop, Paused}
OnlyVirtual == {VirtualDesktop}
DesktopOrGated == {Desktop, GatedHdr}
VirtualOrGated == {VirtualHdr, GatedHdr}
Yes == {TRUE}
Either == BOOLEAN

================================================================================
