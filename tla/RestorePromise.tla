------------------------------- MODULE RestorePromise ------------------------------
(* What the display helper promises about the snapshots it keeps, whichever process,      *)
(* command or failure comes in between.  A desktop is free, lent to a session, or being   *)
(* restored.  While it is being restored nothing is captured; a snapshot is dropped only  *)
(* when another one, which is kept, is on the screen.                                     *)
CONSTANT Captures  \* the layouts a snapshot can hold

VARIABLES
    phase, \* "free", "lent" or "restoring"
    saved  \* the layouts kept in the snapshots

promiseVars == <<phase, saved>>

Init == phase = "free" /\ saved \in SUBSET Captures

(* SNAPSHOT_CURRENT and EXPORT_GOLDEN: one capture, which may push an old one out.        *)
Capture ==
    /\ phase # "restoring"
    /\ \E l \in Captures : saved' \subseteq saved \cup {l}
    /\ UNCHANGED phase

(* APPLY: at most adds a capture.                                                         *)
Lend ==
    /\ phase' = "lent"
    /\ \E l \in Captures : saved' \in {saved, saved \cup {l}}

(* REVERT, or a lost client.                                                              *)
Owe == phase' = "restoring" /\ saved # {} /\ UNCHANGED saved

(* A confirmed layout makes others superfluous.                                           *)
Settle ==
    /\ phase = "restoring"
    /\ \E l \in saved : l \in saved' /\ saved' \subseteq saved
    /\ UNCHANGED phase

(* The restore is over, or it is given up: the snapshots stay.                            *)
Release == phase' = "free" /\ UNCHANGED saved

Next == Capture \/ Lend \/ Owe \/ Settle \/ Release
Spec == Init /\ [][Next]_promiseVars

================================================================================
