----------------------------- MODULE RestoreProperties -----------------------------
(* What a restore owes the user, over RestoreHost.                                       *)
EXTENDS RestoreHost

PCs == {"none", "apply", "grace", "unstarted", "load", "attempt", "verify", "confirmed",
        "done", "validate", "validated"}

(* Type of the restore: files, process memory, worker and host.                          *)
TypeOK ==
    /\ files \in Files /\ desk \in Layouts /\ present \in SUBSET Displays
    /\ helper.mode \in {"Waiting", "Applying", "Session", "Recovery", "Validation", "EventLoop", "Exited"}
    /\ helper.scheduler \in Scheduler /\ helper.heartbeat \in Heartbeat
    /\ helper.queued \in Commands /\ helper.guard \in 0..GuardWindow
    /\ helper.fallbacks \in 0..(kGoldenFallbackCompletionThreshold - 1)
    /\ worker.pc \in PCs /\ worker.tier \in Tiers /\ worker.loaded \in Snapshots
    /\ worker.grace \in 0..RevertGrace
    /\ host \in HostStates

(* From the APPLY that captured it until a restore is confirmed, the user's layout stays   *)
(* in the Current snapshot, whatever launches, probes, exports, crashes of the host and    *)
(* failed attempts happen in between; only a restore that was given up (an accepted        *)
(* DISARM, a dead helper) releases it (handle_snapshot_current, apply_internal, promotion).*)
BaselineKept ==
    history.baseline # NoSnapshot /\ ~history.released => files["current"] = history.baseline

(* The session's layout never replaces the user's layout in the snapshots before that has  *)
(* been restored: "the snapshot would capture the un-restored state"                      *)
(* (handle_snapshot_current).                                                             *)
BaselineNeverOverwritten ==
    [][history.baseline # NoSnapshot /\ files["current"] = history.baseline
          => files'["current"] = history.baseline \/ Confirmed \/ worker.pc = "confirmed"]_vars

(* The helper's own polling never retries sooner than the backoff that its failures in a   *)
(* row have earned, and stops when the window of the last command or display event is over *)
(* (RestoreScheduler, handle_tick).                                                       *)
AttemptsSpaced ==
    [][Poll /\ helper'.mode = "Recovery"
          => /\ history.rested >= BackoffProfile[Most(history.failed + 1, Len(BackoffProfile))]
             /\ history.prompted <= PrimaryWindow]_vars

(* A live connection is retired for silence only when the host was not heard for the miss   *)
(* window and the whole recovery window (HeartbeatMonitor).                               *)
HeartbeatFair ==
    [][ConnectionBreaks /\ host.pc # "down" => history.heard >= MissWindow + RecoveryWindow]_vars

(* Golden-first throws a confirmed session restore away at most twice in a row: the third   *)
(* is accepted, so a golden snapshot that cannot be applied does not cost the user the     *)
(* desktop (RecoveryOperation::run, golden_pending_session_fallbacks).                     *)
FallbacksBounded == history.wasted < kGoldenFallbackCompletionThreshold

(* The engine keeps RestorePromise: no capture while a restore is pending, and no snapshot  *)
(* dropped except for one that was confirmed and is kept (SnapshotLedger, promotion, the   *)
(* cleanup after golden).                                                                 *)
Phase == IF RestorePending(helper) THEN "restoring" ELSE IF AtRest(helper) THEN "free" ELSE "lent"
Promise == INSTANCE RestorePromise WITH
               Captures <- Snapshots \ {NoSnapshot},
               phase <- Phase,
               saved <- {files[tier] : tier \in Tiers} \ {NoSnapshot}
PromiseKept == Promise!Spec

================================================================================
