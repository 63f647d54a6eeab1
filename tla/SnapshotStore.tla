------------------------------- MODULE SnapshotStore -------------------------------
(* The snapshot files of the display helper and the operations on them: the three   *)
(* tiers of FileSnapshotStorage, what SnapshotLedger captures and saves, and how a   *)
(* stored snapshot is filtered when it is loaded again.  A layout is the set of      *)
(* displays it lights; the empty set stands for "no (readable) snapshot".            *)
EXTENDS Naturals

CONSTANTS
    Displays,  \* the physical displays of the machine
    Virtual    \* the virtual display a session may add to the desktop

ASSUME StoreAssumption == Virtual \notin Displays

Tiers == {"current", "previous", "golden"}
NoSnapshot == {}
Snapshots == SUBSET Displays
Layouts == (SUBSET (Displays \cup {Virtual})) \ {{}}
Files == [Tiers -> Snapshots]

Exists(files, tier) == files[tier] # NoSnapshot
SomeTierExists(files) == \E tier \in Tiers : Exists(files, tier)

(* filter_snapshot_for_save drops virtual and unnamed displays from a capture; a     *)
(* capture of nothing else is rejected.                                              *)
MistakeKeepsVirtual(shown, present) == shown
FilterForSave(shown, present) == (shown \ {Virtual}) \cap present

(* filter_loaded_snapshot refuses a baseline one of whose displays is gone: a        *)
(* partial restore would strand the rest.                                            *)
FilterLoaded(snapshot, present) == IF snapshot \subseteq present THEN snapshot ELSE NoSnapshot
LoadFiltered(files, tier, present) == FilterLoaded(files[tier], present)

Save(files, tier, snapshot, ok) == IF ok THEN [files EXCEPT ![tier] = snapshot] ELSE files
RemoveSnapshot(files, tier, ok) == Save(files, tier, NoSnapshot, ok)

(* promote_current_to_previous: copy first, and remove the source only if the copy   *)
(* was written.                                                                      *)
MistakePromoteRemovesFirst(files, saved, removed) ==
    Save(RemoveSnapshot(files, "current", removed), "previous", files["current"], saved)
PromoteCurrent(files, saved, removed) ==
    IF Exists(files, "current") /\ saved
    THEN RemoveSnapshot(Save(files, "previous", files["current"], TRUE), "current", removed)
    ELSE files

(* capture_filtered_and_save: three tries, one outcome.                              *)
CaptureAndSave(files, tier, shown, present, ok) ==
    Save(files, tier, FilterForSave(shown, present), ok /\ FilterForSave(shown, present) # {})

(* refresh_current_preserving_previous: capture first, then current -> previous,     *)
(* then the capture into current; a failed copy is logged and does not stop the rest. *)
RefreshCurrent(files, shown, present, copied, saved) ==
    IF FilterForSave(shown, present) = {} THEN files
    ELSE Save(Save(files, "previous", files["current"], copied /\ Exists(files, "current")),
              "current", FilterForSave(shown, present), saved)

(* A confirmed golden restore drops both session snapshots.                          *)
ClearSessionSnapshots(files, removed_current, removed_previous) ==
    RemoveSnapshot(RemoveSnapshot(files, "current", removed_current), "previous", removed_previous)

================================================================================
