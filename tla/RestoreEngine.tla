------------------------------- MODULE RestoreEngine -------------------------------
(* How the display helper restores a desktop: the commands of StateMachine that start, *)
(* postpone and cancel a restore, and RecoveryOperation, the worker that tries the     *)
(* snapshot tiers one after the other.  DisplayHelper models the same handlers with    *)
(* the whole APPLY pipeline and one Boolean for the snapshots; here an APPLY is one    *)
(* worker step and the snapshots, the attempts and the clocks are in full.             *)
EXTENDS SnapshotStore, RestoreTiming

CONSTANTS
    SessionLayouts, \* what an APPLY may turn the desktop into
    RevertGrace,    \* the five seconds before the first attempt
    GuardWindow     \* the sixty seconds a restored session keeps golden away

ASSUME EngineAssumption ==
    SessionLayouts \subseteq Layouts /\ {RevertGrace, GuardWindow} \subseteq Nat

VARIABLES
    files,    \* the snapshot tiers on disk
    desk,     \* the active layout
    present,  \* the physical displays Windows enumerates
    helper,   \* the state machine, RestoreRequestState and the timers of one process
    worker    \* the mutation worker: an APPLY, or a recovery and its validation

engineVars == <<files, desk, present, helper, worker>>

NoCommand == [kind |-> "none"]
Orphan == [kind |-> "orphan"]   \* a command whose connection is retired
Apply(golden_first) == [kind |-> "apply", golden_first |-> golden_first]
Disarmament == [kind |-> "disarm"]
Revert(prefer, golden_first, from_disconnect) ==
    [kind |-> "revert", prefer |-> prefer, golden_first |-> golden_first,
     from_disconnect |-> from_disconnect]
Commands == {NoCommand, Orphan, Disarmament} \cup [kind : {"apply"}, golden_first : BOOLEAN] \cup
    [kind : {"revert"}, prefer : BOOLEAN, golden_first : BOOLEAN, from_disconnect : BOOLEAN]

Idle == [pc |-> "none", grace |-> 0, golden_first |-> FALSE, tier |-> "current",
         golden_tried |-> FALSE, current_tried |-> FALSE, loaded |-> NoSnapshot,
         attempt |-> 1, success |-> FALSE]
Fresh == [mode |-> "Waiting", armed |-> FALSE, kept |-> FALSE, scheduler |-> Disarmed,
          cancel |-> FALSE, queued |-> NoCommand, attempted |-> FALSE, fallbacks |-> 0,
          golden_first |-> FALSE, prefer |-> TRUE, guard |-> 0,
          connected |-> FALSE, heartbeat |-> HeartbeatOff]
NotRunning == [Fresh EXCEPT !.mode = "Exited"]

Running(h) == h.mode # "Exited"
RestorePending(h) == h.mode \in {"Recovery", "Validation", "EventLoop"}
WorkerActive == worker.pc # "none"

--------------------------------------------------------------------------------
(* Command handlers.  h is the state machine as the handler finds it: helper itself, or *)
(* what a completion has just made of it.                                              *)

(* queue_after_active_mutation: the newest intent replaces an older one.               *)
QueueBehindWorker(h, command) ==
    /\ helper' = [h EXCEPT !.cancel = TRUE, !.queued = command]
    /\ UNCHANGED <<files, worker>>

ResetRequestProgress(h) == [h EXCEPT !.attempted = FALSE, !.fallbacks = 0]
ClearRecoveryState(h) ==
    [ResetRequestProgress(h) EXCEPT !.armed = FALSE, !.scheduler = Disarm(@),
                                    !.heartbeat = HeartbeatOff]

StartRecovery(h, delay) ==
    /\ helper' = [h EXCEPT !.mode = "Recovery", !.cancel = FALSE]
    /\ worker' = [Idle EXCEPT !.pc = "grace", !.grace = delay]

(* handle_apply_command once no worker is in the way: the baseline is captured here,    *)
(* from the desktop a completion may just have left, when Current does not exist yet.   *)
BeginApply(h, command) ==
    /\ helper' = [ResetRequestProgress(h) EXCEPT
                    !.mode = "Applying", !.cancel = FALSE, !.scheduler = Disarm(@),
                    !.heartbeat = ArmHeartbeat, !.golden_first = command.golden_first]
    /\ worker' = [Idle EXCEPT !.pc = "apply"]
    /\ \E ok \in BOOLEAN :
          files' = IF Exists(files, "current") THEN files
                   ELSE CaptureAndSave(files, "current", desk', present, ok)

BeginRevert(h, command) ==
    IF SomeTierExists(files)
    THEN /\ StartRecovery([h EXCEPT !.prefer = command.prefer,
                                    !.golden_first = IF command.from_disconnect THEN @
                                                     ELSE command.golden_first,
                                    !.armed = TRUE, !.heartbeat = HeartbeatOff,
                                    !.scheduler = ArmPrimary(@, RevertGrace)],
                          RevertGrace)
         /\ UNCHANGED files
    ELSE helper' = NotRunning /\ worker' = Idle /\ UNCHANGED files

(* A restore that has been attempted and not confirmed does not take a DISARM.          *)
MistakeDisarms(h) == [IF h.kept THEN h ELSE ClearRecoveryState(h) EXCEPT !.mode = "Waiting"]
Unconfirmed(h) == RestorePending(h) /\ h.attempted
AfterDisarm(h) == IF Unconfirmed(h) THEN h ELSE MistakeDisarms(h)

HandleDisarm(h) ==
    IF WorkerActive /\ ~Unconfirmed(h)
    THEN QueueBehindWorker([h EXCEPT !.scheduler = Disarm(@)], Disarmament)
    ELSE helper' = AfterDisarm(h) /\ UNCHANGED <<files, worker>>

HandleApply(h, command) ==
    IF WorkerActive THEN QueueBehindWorker(h, command) ELSE BeginApply(h, command)

HandleRevert(h, command) ==
    IF command.from_disconnect /\ h.mode \in {"Recovery", "Validation"}
    THEN helper' = h /\ UNCHANGED <<files, worker>>
    ELSE IF WorkerActive THEN QueueBehindWorker(h, command)
    ELSE BeginRevert(h, command)

(* handle_snapshot_current                                                             *)
MistakeSnapshotAlways(h) ==
    /\ \E copied, saved \in BOOLEAN : files' = RefreshCurrent(files, desk, present, copied, saved)
    /\ helper' = h /\ UNCHANGED worker
HandleSnapshotCurrent(h) ==
    IF RestorePending(h) \/ h.mode = "Applying" THEN helper' = h /\ UNCHANGED <<files, worker>>
    ELSE MistakeSnapshotAlways(h)

HandleExportGolden(h) ==
    /\ IF RestorePending(h) \/ h.mode = "Applying" THEN UNCHANGED files
       ELSE \E ok \in BOOLEAN : files' = CaptureAndSave(files, "golden", desk, present, ok)
    /\ helper' = h /\ UNCHANGED worker

(* drain_deferred_mutation_commands: the handler of the queued command runs in the step *)
(* of the completion that freed the worker.                                            *)
Drain(h) ==
    LET freed == [h EXCEPT !.queued = NoCommand] IN
    CASE h.queued.kind \in {"none", "orphan"} -> helper' = freed /\ worker' = Idle /\ UNCHANGED files
      [] h.queued.kind = "apply" -> BeginApply(freed, h.queued)
      [] h.queued.kind = "revert" -> BeginRevert(freed, h.queued)
      [] h.queued.kind = "disarm" -> helper' = AfterDisarm(freed) /\ worker' = Idle /\ UNCHANGED files

--------------------------------------------------------------------------------
(* Completions.                                                                        *)

(* retain_recovery_after_cancelled_recovery                                            *)
Retain(h) == [h EXCEPT !.armed = TRUE, !.kept = TRUE, !.heartbeat = ArmHeartbeat]

(* The APPLY pipeline in one step: it reaches the session's layout or leaves the        *)
(* desktop as it was.  A cancelled one leaves the lease to whoever is queued.           *)
ApplyCompleted ==
    /\ worker.pc = "apply"
    /\ desk' \in SessionLayouts \cup {desk}
    /\ UNCHANGED present
    /\ IF helper.cancel
       THEN Drain([helper EXCEPT !.armed = TRUE, !.kept = TRUE, !.cancel = FALSE])
       ELSE /\ helper' = [helper EXCEPT !.mode = "Session", !.armed = TRUE, !.kept = FALSE,
                                        !.heartbeat = ArmHeartbeat]
            /\ worker' = Idle /\ UNCHANGED files

FailedAttempt(h) ==
    Drain([h EXCEPT !.scheduler = OnAttemptFailed(@), !.mode = "EventLoop"])

RecoveryCompleted ==
    /\ worker.pc \in {"unstarted", "done"}
    /\ UNCHANGED <<desk, present>>
    /\ IF helper.cancel
       THEN LET h == [helper EXCEPT !.cancel = FALSE]
            IN  Drain(IF worker.pc = "done" THEN Retain(h) ELSE ResetRequestProgress(h))
       ELSE IF worker.success
       THEN /\ helper' = [helper EXCEPT !.mode = "Validation"]
            /\ worker' = [worker EXCEPT !.pc = "validate"]
            /\ UNCHANGED files
       ELSE FailedAttempt(helper)

(* A validated restore drops the lease and ends the process, unless the restore was     *)
(* started by a disconnect and a newer connection is up.                               *)
RecoveryValidationCompleted ==
    /\ worker.pc = "validated"
    /\ UNCHANGED <<desk, present>>
    /\ IF helper.cancel THEN Drain(Retain([helper EXCEPT !.cancel = FALSE]))
       ELSE IF ~worker.success THEN FailedAttempt(helper)
       ELSE /\ \/ helper' = NotRunning
               \/ /\ helper.connected
                  /\ helper' = [ClearRecoveryState(helper) EXCEPT !.mode = "Waiting", !.kept = FALSE]
            /\ worker' = Idle /\ UNCHANGED files

--------------------------------------------------------------------------------
(* Timers and events.                                                                  *)

HandleTick ==
    /\ helper.mode = "EventLoop" /\ helper.armed
    /\ \/ /\ WindowJustExpired(helper.scheduler)
          /\ helper' = [helper EXCEPT !.scheduler = ReportExpired(@)]
          /\ UNCHANGED worker
       \/ /\ ShouldAttempt(helper.scheduler)
          /\ StartRecovery(helper, 0)
    /\ UNCHANGED <<files, desk, present>>

HandleDisplayEvent ==
    /\ helper.mode = "EventLoop" /\ helper.armed /\ helper.scheduler.armed
    /\ StartRecovery([helper EXCEPT !.scheduler = OnDisplayEvent(@)], 0)
    /\ UNCHANGED <<files, desk, present>>

(* The supervision of one loop turn: a heartbeat that times out retires its connection. *)
CheckHeartbeat ==
    /\ Missed(helper.heartbeat) \/ (TimesOut(helper.heartbeat) /\ ~helper.connected)
    /\ helper' = [helper EXCEPT !.heartbeat = CheckTimeout(@)]
    /\ UNCHANGED <<files, desk, present, worker>>

(* A lost connection: the heartbeat stops, queued commands of the connection will be      *)
(* ignored, and the session is kept for its settling checks, or restored when there is    *)
(* something to recover.                                                               *)
FromClient(command) == command.kind \in {"apply", "disarm", "revert"}
                       /\ (command.kind = "revert" => ~command.from_disconnect)
LoseConnection ==
    LET h == [helper EXCEPT !.connected = FALSE, !.heartbeat = HeartbeatOff,
                            !.queued = IF FromClient(@) THEN Orphan ELSE @]
    IN  /\ helper.connected
        /\ \/ ~RestorePending(h) /\ helper' = h /\ UNCHANGED <<files, worker>>
           \/ (h.armed \/ h.mode = "Applying" \/ RestorePending(h)) /\ HandleRevert(h, Revert(TRUE, FALSE, TRUE))
        /\ UNCHANGED <<desk, present>>

--------------------------------------------------------------------------------
(* RecoveryOperation, one step per point where the cancellation token is read.          *)

RecoveryStep(next) == worker' = next /\ UNCHANGED <<desk, present>>
Finish(success) == [worker EXCEPT !.pc = "done", !.success = success]

(* The grace period belongs to the dispatcher: a cancellation there has touched nothing. *)
GraceEnds ==
    /\ worker.pc = "grace" /\ (worker.grace = 0 \/ helper.cancel)
    /\ UNCHANGED files
    /\ IF helper.cancel
       THEN RecoveryStep([worker EXCEPT !.pc = "unstarted", !.grace = 0]) /\ UNCHANGED helper
       ELSE /\ RecoveryStep([worker EXCEPT !.pc = "load", !.golden_first = helper.golden_first,
                                !.tier = IF helper.golden_first THEN "golden" ELSE "current"])
            /\ helper' = [helper EXCEPT !.attempted = TRUE,
                                        !.fallbacks = IF helper.golden_first THEN @ ELSE 0]

(* The tier that follows one that was unavailable or not confirmed.  Golden comes first, *)
(* before Previous, or last; never twice outside golden-first.                         *)
PreferGolden == helper.prefer /\ ~worker.current_tried
                /\ Exists(files, "previous") /\ Exists(files, "golden")
GoldenWasTried == worker.golden_first \/ worker.golden_tried
AtEarlyGolden == worker.tier = "golden" /\ worker.golden_tried
AtFirstGolden == worker.tier = "golden" /\ worker.golden_first /\ ~worker.golden_tried
Try(tier) == [worker EXCEPT !.pc = "load", !.tier = tier, !.attempt = 1, !.loaded = NoSnapshot]
NextTier ==
    CASE worker.tier = "current" /\ PreferGolden -> [Try("golden") EXCEPT !.golden_tried = TRUE]
      [] worker.tier = "current" /\ ~PreferGolden -> Try("previous")
      [] AtFirstGolden -> Try("current")
      [] AtEarlyGolden -> Try("previous")
      [] worker.tier = "previous" /\ ~GoldenWasTried -> Try("golden")
      [] OTHER -> Finish(FALSE)

Abandon == /\ RecoveryStep(Finish(FALSE))
           /\ helper' = [helper EXCEPT !.fallbacks = 0]
           /\ UNCHANGED files

GiveUpTier ==
    /\ RecoveryStep(NextTier) /\ UNCHANGED files
    /\ helper' = [helper EXCEPT !.fallbacks = IF NextTier.pc = "done" THEN 0 ELSE @]

Loadable(tier) == LoadFiltered(files, tier, present) # NoSnapshot
SkipGolden == helper.guard > 0

LoadTier ==
    /\ worker.pc = "load"
    /\ IF helper.cancel THEN Abandon
       ELSE IF ~Loadable(worker.tier) \/ (worker.tier = "golden" /\ SkipGolden) THEN GiveUpTier
       ELSE /\ RecoveryStep([worker EXCEPT !.pc = "attempt", !.loaded = files[worker.tier],
                                           !.current_tried = @ \/ worker.tier = "current"])
            /\ UNCHANGED <<files, helper>>

(* apply_and_confirm: a desktop that already matches is confirmed without an apply;      *)
(* otherwise a stage may fail before or after it has changed the desktop.               *)
AttemptTier ==
    /\ worker.pc = "attempt"
    /\ UNCHANGED <<files, present>>
    /\ IF helper.cancel THEN Abandon /\ UNCHANGED desk
       ELSE IF desk = worker.loaded
       THEN RecoveryStep([worker EXCEPT !.pc = "confirmed"]) /\ UNCHANGED helper
       ELSE /\ desk' \in {desk} \cup ({worker.loaded} \cap SUBSET present)
            /\ worker' = [worker EXCEPT !.pc = "verify"]
            /\ UNCHANGED helper

VerifyTier ==
    /\ worker.pc = "verify"
    /\ IF helper.cancel THEN Abandon
       ELSE IF desk = worker.loaded
       THEN RecoveryStep([worker EXCEPT !.pc = "confirmed"]) /\ UNCHANGED <<files, helper>>
       ELSE IF worker.attempt = 1
       THEN RecoveryStep([worker EXCEPT !.pc = "attempt", !.attempt = 2]) /\ UNCHANGED <<files, helper>>
       ELSE GiveUpTier

(* What a confirmed tier does to the files: golden drops the session snapshots, Current  *)
(* becomes Previous, Previous drops a Current that was tried in vain.                    *)
FilesAfter(tier, copied, removed, removed_previous) ==
    CASE tier = "golden" -> ClearSessionSnapshots(files, removed, removed_previous)
      [] tier = "current" -> PromoteCurrent(files, copied, removed)
      [] tier = "previous" -> RemoveSnapshot(files, "current", removed /\ worker.current_tried)

kGoldenFallbackCompletionThreshold == 3
GoldenStillPending(stored) ==
    /\ worker.golden_first /\ ~AtFirstGolden
    /\ FilterLoaded(stored["golden"], present) # NoSnapshot
MistakeNeverAccepts(stored) ==
    /\ helper' = [helper EXCEPT !.guard = IF worker.tier = "golden" THEN @ ELSE GuardWindow]
    /\ RecoveryStep(Finish(~GoldenStillPending(stored)))
Conclude(stored) ==
    LET count == helper.fallbacks + 1
        pending == GoldenStillPending(stored) /\ count < kGoldenFallbackCompletionThreshold
    IN  /\ helper' = [helper EXCEPT !.fallbacks = IF pending THEN count ELSE 0,
                                    !.guard = IF worker.tier = "golden" THEN @ ELSE GuardWindow]
        /\ RecoveryStep(Finish(~pending))

SettleConfirmed ==
    /\ worker.pc = "confirmed"
    /\ IF helper.cancel THEN Abandon
       ELSE \E copied, removed, removed_previous \in BOOLEAN :
               /\ files' = FilesAfter(worker.tier, copied, removed, removed_previous)
               /\ Conclude(files')

ValidateRecovery ==
    /\ worker.pc = "validate"
    /\ RecoveryStep([worker EXCEPT !.pc = "validated", !.success = ~helper.cancel /\ desk = worker.loaded])
    /\ UNCHANGED <<files, helper>>

WorkerStep == \/ GraceEnds \/ LoadTier \/ AttemptTier \/ VerifyTier \/ SettleConfirmed
              \/ ValidateRecovery
HelperStep == \/ ApplyCompleted \/ RecoveryCompleted \/ RecoveryValidationCompleted

================================================================================
