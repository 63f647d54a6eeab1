---------------------------- MODULE DisplayStateMachine ----------------------------
(* The handlers of StateMachine (state_machine.cpp) as operators from the helper *)
(* memory before a message to the memory after it.  The class is single-threaded *)
(* and its handlers call each other, so a handler here is one function of `h`    *)
(* that makes every call the code makes, including the trailing drain.           *)
(*                                                                               *)
(* `e` is what the handler's surroundings answer while it runs:                  *)
(*   e.task    whether create_restore_task() succeeds                            *)
(*   e.capture whether a baseline capture is accepted and saved                  *)
(*   e.device  the virtual display driver's current device id, 0 for none        *)
(*                                                                               *)
(* An operator whose comment begins with "Mistake:" is a wrong version of the one *)
(* below it.  No handler uses it; PROJECT.json names it with a property that it   *)
(* would break.                                                                  *)
EXTENDS DisplayHelperTypes, SequencesExt

Transition(h, next) == [h EXCEPT !.state = next]
CancelOperations(h) == [h EXCEPT !.generation = @ + 1]
(* Mistake: a completion from before a cancellation counts as current.          *)
IsFromFuture(h, generation) == generation > h.generation
IsStale(h, generation) == generation # h.generation
(* Mistake: commands outlive their connection.                                  *)
AcceptsEveryConnection(h, epoch) == FALSE
IsStaleConnection(h, epoch) == epoch # 0 /\ epoch # h.epoch

(* Mistake: only an APPLY is taken for a worker that must be waited for.        *)
ApplyWorkerActive(h) == h.worker.kind = "Apply"
WorkerActive(h) == h.worker # NoWorker
RestorePending(h) == h.state \in RestoreStates
RecoveryWorkerInProgress(h) == h.state \in RecoveryWorkerStates
ApplyInFlight(h) == WorkerActive(h) \/ h.state \in {"InProgress", "Verification"}
Owns(h, kind, generation) == h.worker = [kind |-> kind, generation |-> generation]
RefreshTargetsRequest(h, device) == h.request.configured /\ h.request.device = device

--------------------------------------------------------------------------------
(* Dispatch.  A dispatched closure captures the generation it is queued under.  *)

TaskFor(h, kind) ==
    [kind |-> kind, generation |-> h.generation, request |-> h.request.id,
     virtual |-> h.request.virtual,
     device |-> h.request.device, purpose |-> "Initial"]

Enqueue(h, task) == [h EXCEPT !.tasks = Append(@, task)]
Fence(h, kind) == [h EXCEPT !.worker = [kind |-> kind, generation |-> h.generation]]

DispatchApply(h) == Fence(Enqueue(h, TaskFor(h, "Apply")), "Apply")
DispatchRecovery(h) == Fence(Enqueue(h, TaskFor(h, "Recovery")), "Recovery")
DispatchRefreshRate(h, device) ==
    Fence(Enqueue(h, [TaskFor(h, "RefreshRate") EXCEPT !.device = device]), "RefreshRate")
(* Mistakes: the validation under a fence of its own kind, and under no fence.  *)
ValidationOwnFence(h) == Fence(Enqueue(h, TaskFor(h, "Validation")), "Validation")
ValidationUnfenced(h) == [Enqueue(h, TaskFor(h, "Validation")) EXCEPT !.worker = NoWorker]
(* The validation keeps the recovery fence and only renews its generation.      *)
DispatchValidation(h) ==
    [Enqueue(h, TaskFor(h, "Validation")) EXCEPT !.worker.generation = h.generation]
DispatchVerification(h, purpose) ==
    Enqueue(h, [TaskFor(h, "Verification") EXCEPT !.purpose = purpose])
(* A delayed verification waits in the timer thread's queue first.              *)
DispatchVerificationAfter(h, purpose) ==
    [h EXCEPT !.timers = Append(@, [TaskFor(h, "Verification") EXCEPT !.purpose = purpose])]

(* Mistake: the reset is dispatched and its barrier is not raised.              *)
ResetWithoutBarrier(h) == Enqueue(h, TaskFor(h, "Reset"))
BeginStagedStateReset(h) ==
    IF h.reset_pending THEN h
    ELSE Enqueue([h EXCEPT !.reset_pending = TRUE], TaskFor(h, "Reset"))

--------------------------------------------------------------------------------
(* Replies to the client, at most one of each kind per accepted APPLY.          *)

SendApplyResult(h) ==
    IF h.apply_sent THEN h
    ELSE [h EXCEPT !.apply_sent = TRUE]

(* Mistake: every verification is reported, not only the first.                 *)
ReportVerification(h, success) ==
    [h EXCEPT !.verification_sent = TRUE,
              !.verdict = [id \in RequestIds |->
                  IF id = h.request.id THEN IF success THEN "ok" ELSE "failed" ELSE @[id]]]
SendVerificationResult(h, success) ==
    IF h.verification_sent THEN h
    ELSE [h EXCEPT !.verification_sent = TRUE,
                   !.verdict = [id \in RequestIds |->
                       IF id = h.request.id THEN IF success THEN "ok" ELSE "failed"
                       ELSE @[id]]]

--------------------------------------------------------------------------------
(* Recovery lease, settling ladders, disconnect settlement.                     *)

ResetStabilization(h) ==
    [h EXCEPT !.check_pending = FALSE, !.next_check = 0, !.checks = 0,
              !.next_reapply = 0, !.reapplies = 0]
RewindStabilization(h) == [h EXCEPT !.check_pending = FALSE, !.next_check = 0]
ResetSettlement(h) ==
    [h EXCEPT !.settle_requested = FALSE, !.settle_pending = FALSE,
              !.settle_repairing = FALSE, !.next_settle = 0]
ResetRequestProgress(h) == [h EXCEPT !.restore_unconfirmed = FALSE]

ClearRecoveryState(h) ==
    [ResetSettlement(ResetRequestProgress(h)) EXCEPT
        !.scheduler = "off", !.recovery_armed = FALSE, !.changes_pending = FALSE,
        !.explicit_recovery = FALSE, !.last_apply = "none",
        !.os_task = FALSE, !.task_created = FALSE, !.owed = FALSE]

ApplyRecoveryPolicy(h) ==
    [h EXCEPT !.restore_on_disconnect = h.request.restore_on_disconnect]
ActivateRecoveryLease(h) ==
    ApplyRecoveryPolicy([h EXCEPT !.recovery_armed = TRUE, !.changes_pending = TRUE])

CreateRestoreTaskIfMissing(h, e) ==
    IF h.task_created THEN h
    ELSE [h EXCEPT !.task_created = e.task, !.os_task = @ \/ e.task]

RetainAfterMutation(h, c, e) ==
    CreateRestoreTaskIfMissing(
        ActivateRecoveryLease([h EXCEPT !.task_created = @ \/ c.durable]), e)

RetainAfterCancelledRecovery(h) ==
    [h EXCEPT !.recovery_armed = TRUE, !.changes_pending = TRUE,
              !.unconfirmed_mutation = TRUE]

(* Mistake: the reset forgets that an earlier session may hold the lease.       *)
ResetStagedStateAlways(h) ==
    IF ~h.staged_prepared THEN h
    ELSE BeginStagedStateReset([h EXCEPT !.os_task = FALSE, !.task_created = FALSE])
ResetUncommittedStagedState(h) ==
    IF ~h.staged_prepared \/ h.lease_before_apply \/ h.recovery_armed \/ h.unconfirmed_mutation
    THEN h
    ELSE BeginStagedStateReset(
             IF h.task_created THEN [h EXCEPT !.os_task = FALSE, !.task_created = FALSE] ELSE h)

StartRecovery(h) ==
    DispatchRecovery(Transition([h EXCEPT !.recovery_reset = "none"], "Recovery"))

EnterSteadyState(h) ==
    Transition(h, IF h.request.virtual THEN "VirtualDisplayMonitoring" ELSE "Waiting")

ScheduleNextCheck(h) ==
    IF h.check_pending \/ h.next_check >= h.checks THEN h
    ELSE DispatchVerificationAfter(
             [h EXCEPT !.next_check = @ + 1, !.check_pending = TRUE], "Stabilization")

(* The delay of stage 3 (counting from 0) of the HDR ladder is 5.5 s: a capture-  *)
(* gated stream start claims that stage but does not run it.                    *)
OmitsReapply(h) ==
    h.next_reapply = 3 /\ h.request.omit_final_hdr /\ ~h.verified
(* Mistake: the omitted stage is taken for one that will run.                   *)
CanReapplyOmitted(h) == h.next_reapply < h.reapplies
CanReapply(h) == h.next_reapply < h.reapplies /\ ~OmitsReapply(h)
NextReapply(h) ==
    IF h.next_reapply >= h.reapplies THEN h
    ELSE IF OmitsReapply(h) THEN [h EXCEPT !.next_reapply = @ + 1]
    ELSE DispatchApply(
             Transition([h EXCEPT !.next_reapply = @ + 1,
                                  !.next_check = IF @ < h.next_reapply THEN h.next_reapply ELSE @],
                        "InProgress"))

(* dispatch_next_transient_disconnect_verification(): CanSettle is its result.  *)
CanSettle(h) ==
    \/ h.settle_pending
    \/ h.settle_requested /\ h.next_settle < 2 /\ h.request.configured
NextSettle(h) ==
    IF h.settle_pending THEN h
    ELSE IF ~CanSettle(h) THEN ResetSettlement(h)
    ELSE DispatchVerificationAfter(
             Transition([h EXCEPT !.next_settle = @ + 1, !.settle_pending = TRUE], "Verification"),
             "TransientDisconnect")

SettlementRepair(h) ==
    DispatchApply(
        Transition([CancelOperations(h) EXCEPT !.settle_pending = FALSE,
                                               !.settle_repairing = TRUE], "InProgress"))

StabilizationRepair(h) ==
    DispatchApply(
        Transition([h EXCEPT !.next_reapply = IF @ < h.next_check + 1 THEN h.next_check + 1 ELSE @],
                   "InProgress"))

(* replace_post_apply_stabilization_with_transient_disconnect_settlement()      *)
ReplaceStabilization(h) ==
    ResetStabilization(
        IF h.check_pending \/ (h.verified /\ h.state = "Verification")
        THEN CancelOperations(h) ELSE h)

--------------------------------------------------------------------------------
(* exit_callback_, as the helper's main installs it: a confirmed restore keeps  *)
(* the helper alive for a connection newer than the one the restore served.     *)
KeepsRunning(h) == h.restore_origin # 0 /\ h.epoch > h.restore_origin /\ h.link # "down"
ExitHelper(h, code) ==
    IF code = 0 /\ KeepsRunning(h) THEN [h EXCEPT !.restore_origin = 0]
    ELSE [CancelOperations(h) EXCEPT !.exited = TRUE, !.exit_code = code]

(* The deferred queue: only the newest APPLY, REVERT or DISARM survives in it.  *)
IsReset(c) == c.type = "RESET"
(* std::remove_if over the queue: as Defer is its only writer, there is never    *)
(* more than one intent to remove.                                              *)
WithoutIntent(s) ==
    IF \E i \in DOMAIN s : ~IsReset(s[i])
    THEN RemoveAt(s, CHOOSE i \in DOMAIN s : ~IsReset(s[i]))
    ELSE s
(* Mistake: the queue keeps every intent, in order.                             *)
DeferInOrder(h, c) == [h EXCEPT !.deferred = Append(@, c)]
Defer(h, c) ==
    [h EXCEPT !.deferred = Append(IF IsReset(c) THEN @ ELSE WithoutIntent(@), c)]
(* Mistake: the exit that follows a restore does not look for newer commands.   *)
OverlooksIntent(h) == FALSE
DefersIntent(h) == \E i \in DOMAIN h.deferred : ~IsReset(h.deferred[i])
DefersReset(h) == \E i \in DOMAIN h.deferred : IsReset(h.deferred[i])
(* queue_after_active_mutation() for a command that replaces the active one.    *)
Supersede(h, c) == Defer(CancelOperations(h), c)

--------------------------------------------------------------------------------
(* Commands                                                                     *)

(* The tail of handle_apply_command: nothing is in the way of the new session.  *)
BeginApply(h, c, e) ==
    LET accepted ==
            [ResetStabilization(CancelOperations(h)) EXCEPT
                !.lease_before_apply = h.recovery_armed \/ h.changes_pending,
                !.scheduler = "off", !.restore_unconfirmed = FALSE,
                !.attempt = 1, !.hdr_fallback = FALSE, !.apply_sent = FALSE,
                !.verification_sent = FALSE, !.verified = FALSE,
                !.request = c.request, !.reply_epoch = c.epoch]
        hdr == c.request.hdr # "unset"
    IN IF ~c.request.configured
       THEN Transition(SendApplyResult(accepted), "Waiting")
       ELSE DispatchApply(
                Transition([ApplyRecoveryPolicy(accepted) EXCEPT
                                !.last_apply = "recent",
                                !.checks = IF hdr THEN 3 ELSE 1,
                                !.reapplies = IF hdr THEN 4 ELSE 2,
                                !.snapshot = @ \/ e.capture],
                           "InProgress"))

HandleApplyCommand(h, c, e) ==
    LET latched == ResetSettlement([h EXCEPT !.explicit_recovery = FALSE]) IN
    IF IsStaleConnection(h, c.epoch) THEN h
    ELSE IF WorkerActive(h) THEN Supersede(latched, c)
    ELSE IF h.reset_pending THEN Defer(latched, c)
    ELSE BeginApply(latched, c, e)

(* A disconnect under restore_on_disconnect = false gives the lease up.         *)
PausesSession(h, c) ==
    c.from_disconnect /\ ~h.explicit_recovery /\ ~h.restore_on_disconnect
ReleaseOnDisconnect(h) ==
    Transition(ResetStabilization(ClearRecoveryState(CancelOperations(h))), "Waiting")

BeginRevert(h) ==
    StartRecovery(ResetStabilization(
        [CancelOperations(h) EXCEPT !.recovery_armed = TRUE, !.changes_pending = TRUE, !.scheduler = "open"]))

HandleRevertCommand(h, c) ==
    LET latched == IF c.from_disconnect THEN h
                   ELSE ResetSettlement([h EXCEPT !.explicit_recovery = TRUE]) IN
    IF IsStaleConnection(h, c.epoch) THEN h
    ELSE IF c.from_disconnect /\ RecoveryWorkerInProgress(h) THEN h
    ELSE IF WorkerActive(h) THEN Supersede(latched, c)
    ELSE IF h.reset_pending THEN Defer(latched, c)
    ELSE IF PausesSession(latched, c) THEN ReleaseOnDisconnect(latched)
    ELSE IF ~h.snapshot THEN ExitHelper(ClearRecoveryState(CancelOperations(latched)), 0)
    ELSE BeginRevert(latched)

(* The tail of handle_disarm_command.                                           *)
BeginDisarm(h) ==
    LET cancelled == CancelOperations(h)
        cleared == IF h.unconfirmed_mutation THEN cancelled
                   ELSE [ClearRecoveryState(cancelled) EXCEPT !.task_created = FALSE]
    IN Transition(ResetStabilization(
           [cleared EXCEPT !.attempt = 0, !.apply_sent = FALSE, !.verification_sent = FALSE,
                           !.verified = FALSE, !.last_apply = "none"]), "Waiting")

HandleDisarmCommand(h, c) ==
    LET latched == ResetSettlement([h EXCEPT !.explicit_recovery = FALSE]) IN
    IF IsStaleConnection(h, c.epoch) THEN h
    ELSE IF RestorePending(h) /\ h.restore_unconfirmed THEN h
    ELSE IF h.reset_pending THEN Defer(latched, c)
    ELSE IF WorkerActive(h) THEN Supersede([latched EXCEPT !.scheduler = "off"], c)
    ELSE BeginDisarm(latched)

HandleResetCommand(h, c) ==
    IF IsStaleConnection(h, c.epoch) THEN h
    ELSE IF h.reset_pending \/ WorkerActive(h) THEN Defer(h, c)
    ELSE BeginStagedStateReset(h)

(* SNAPSHOT_CURRENT and EXPORT_GOLDEN: a baseline is captured only at rest.     *)
HandleCapture(h, epoch, e) ==
    IF IsStaleConnection(h, epoch) \/ RestorePending(h) \/ ApplyInFlight(h) THEN h
    ELSE [h EXCEPT !.snapshot = @ \/ e.capture]

HandleRefreshRateCommand(h, device, epoch) ==
    IF IsStaleConnection(h, epoch) \/ ApplyInFlight(h) \/ RestorePending(h) THEN h
    ELSE IF ~h.check_pending THEN DispatchRefreshRate(h, device)
    ELSE IF ~RefreshTargetsRequest(h, device) THEN h
    ELSE DispatchRefreshRate(RewindStabilization(CancelOperations(h)), device)

(* drain_deferred_mutation_commands(): the loop body, and the loop.  At most one *)
(* intent and MaxResets RESETs are ever deferred, see DisplayHelper, and no      *)
(* drained handler defers again: DrainBound rounds empty the queue.             *)
DrainOne(h, e) ==
    LET c == Head(h.deferred)
        popped == [h EXCEPT !.deferred = Tail(@)]
    IN IF WorkerActive(h) \/ h.reset_pending \/ h.deferred = <<>> THEN h
       ELSE CASE c.type = "APPLY" -> HandleApplyCommand(popped, c, e)
              [] c.type = "REVERT" -> HandleRevertCommand(popped, c)
              [] c.type = "DISARM" -> HandleDisarmCommand(popped, c)
              [] c.type = "RESET" -> HandleResetCommand(popped, c)
DrainBound == 3
(* Mistake: the queue is not drained.                                           *)
LeaveDeferred(h, e) == h
Drain(h, e) == DrainOne(DrainOne(DrainOne(h, e), e), e)

--------------------------------------------------------------------------------
(* Completions                                                                  *)

ReleaseFence(h) == [h EXCEPT !.worker = NoWorker]

(* A superseded APPLY still says whether the desktop or the task was touched.   *)
StaleApply(h, c, e) ==
    LET kept == IF c.changed
                THEN [RetainAfterMutation(h, c, e) EXCEPT !.unconfirmed_mutation = TRUE]
                ELSE ResetUncommittedStagedState([h EXCEPT !.task_created = @ \/ c.durable])
    IN Drain(kept, e)

(* The APPLY landed: verify it, or go on with the disconnect settlement.        *)
AppliedOk(h, e) ==
    LET repaired == [h EXCEPT !.settle_repairing = FALSE]
        settled == ActivateRecoveryLease([NextSettle(repaired) EXCEPT !.verified = TRUE])
    IN IF h.settle_repairing
       THEN IF CanSettle(repaired) THEN NextSettle(repaired)
            ELSE Drain(EnterSteadyState([settled EXCEPT !.unconfirmed_mutation = FALSE]), e)
       ELSE Drain(DispatchVerification(Transition(SendApplyResult(h), "Verification"), "Initial"), e)

(* Every retry and fallback is spent.                                           *)
ApplyFailed(h, c, e) ==
    LET told == SendVerificationResult(SendApplyResult(h), FALSE)
        clean == IF c.changed THEN told ELSE ResetUncommittedStagedState(told)
    IN Drain(IF clean.verified THEN EnterSteadyState(clean) ELSE Transition(clean, "Waiting"), e)

(* Mistake: the retry does not count.                                           *)
RetryUncounted(h, c, e) ==
    IF c.status = "Retryable" THEN DispatchApply(h) ELSE ApplyFailed(h, c, e)
(* The retry ladder of a failed APPLY: attempts, then HDR off, then failure.    *)
RetryApply(h, c, e) ==
    IF c.status = "Retryable" /\ h.attempt < MaxApplyAttempts
    THEN DispatchApply([h EXCEPT !.attempt = @ + 1])
    ELSE IF c.status = "Retryable" /\ ~h.hdr_fallback /\ c.virtual /\ h.request.hdr = "on"
    THEN DispatchApply(Transition([h EXCEPT !.hdr_fallback = TRUE, !.request.hdr = "off",
                                            !.attempt = 1], "InProgress"))
    ELSE ApplyFailed(h, c, e)

HandleApplyCompleted(h, c, e) ==
    LET owned == [ReleaseFence(h) EXCEPT !.staged_prepared = @ \/ c.staged]
        touched == c.status = "Ok" \/ c.changed
        leased == IF touched THEN ActivateRecoveryLease(owned) ELSE owned
        guarded == [leased EXCEPT !.task_created = @ \/ c.durable]
        tasked == IF touched THEN CreateRestoreTaskIfMissing(guarded, e) ELSE guarded
        settling == [tasked EXCEPT !.settle_repairing = FALSE]
    IN IF ~Owns(h, "Apply", c.generation) THEN h
       ELSE IF IsStale(h, c.generation) THEN StaleApply(owned, c, e)
       ELSE IF c.status = "Ok" THEN AppliedOk(tasked, e)
       ELSE IF ~h.settle_requested THEN RetryApply(tasked, c, e)
       ELSE IF CanSettle(settling) THEN NextSettle(settling)
       ELSE RetryApply(NextSettle(settling), c, e)

(* The read-only check of the disconnect settlement: healthy, or repair.        *)
SettlementVerified(h, c) ==
    LET checked == [h EXCEPT !.settle_pending = FALSE]
        confirmed == IF h.verified THEN checked
                     ELSE [ActivateRecoveryLease(checked) EXCEPT !.verified = TRUE,
                                                                 !.unconfirmed_mutation = FALSE]
    IN IF c.status = "Ok" THEN EnterSteadyState(ResetSettlement(confirmed))
       ELSE IF h.request.configured THEN SettlementRepair(checked)
       ELSE Transition(ResetSettlement(checked), "Waiting")

(* The gate of a session start, or of a repair that follows it.                 *)
InitialVerified(h) ==
    LET opened == SendVerificationResult(
                      [ActivateRecoveryLease([h EXCEPT !.verified = TRUE]) EXCEPT
                          !.unconfirmed_mutation = FALSE], TRUE)
        gated == IF h.verification_sent THEN h ELSE opened
    IN IF ~h.settle_requested THEN EnterSteadyState(ScheduleNextCheck(gated))
       ELSE IF CanSettle(gated) THEN NextSettle(gated)
       ELSE EnterSteadyState(NextSettle(gated))

(* A check ended while the disconnect settlement wants the session.             *)
YieldToSettlement(h) ==
    IF CanSettle(h) THEN NextSettle(h)
    ELSE IF h.verified THEN EnterSteadyState(NextSettle(h))
    ELSE Transition(NextSettle(h), "Waiting")

InitialRejected(h) ==
    LET rewound == RewindStabilization(h) IN
    IF CanReapply(rewound) THEN NextReapply(rewound)
    ELSE IF h.verified THEN EnterSteadyState(NextReapply(rewound))
    ELSE Transition(SendVerificationResult(NextReapply(rewound), FALSE), "Waiting")

StabilizationChecked(h, c) ==
    LET checked == [h EXCEPT !.check_pending = FALSE] IN
    IF c.status = "Ok"
    THEN IF ~h.settle_requested THEN ScheduleNextCheck(checked)
         ELSE IF CanSettle(checked) THEN NextSettle(checked)
         ELSE EnterSteadyState(NextSettle(checked))
    ELSE IF h.settle_requested THEN YieldToSettlement(checked)
    ELSE StabilizationRepair(checked)

HandleVerificationCompleted(h, c) ==
    IF IsStale(h, c.generation) THEN h
    ELSE IF c.purpose = "TransientDisconnect" THEN SettlementVerified(h, c)
    ELSE IF c.purpose = "Stabilization" THEN StabilizationChecked(h, c)
    ELSE IF c.status = "Ok" THEN InitialVerified(h)
    ELSE IF h.settle_requested THEN YieldToSettlement(h)
    ELSE InitialRejected(h)

HandleResetCompleted(h, c, e) ==
    LET ok == c.status = "Ok"
        opened == [h EXCEPT !.reset_pending = FALSE, !.staged_prepared = @ /\ ~ok]
        followed == [opened EXCEPT !.exit_after_reset = @ /\ ~DefersIntent(h)]
        drained == Drain(followed, e)
    IN IF h.exit_after_reset /\ ~ok THEN ExitHelper([opened EXCEPT !.exit_after_reset = FALSE], 1)
       ELSE IF drained.exit_after_reset /\ ~drained.reset_pending
       THEN ExitHelper([drained EXCEPT !.exit_after_reset = FALSE], 0)
       ELSE drained

HandleRefreshRateCompleted(h, c, e) ==
    LET freed == ReleaseFence(h)
        rewound == RewindStabilization(CancelOperations(freed))
        rechecked == IF ~RefreshTargetsRequest(h, c.device) THEN freed
                     ELSE IF h.settle_requested THEN ReplaceStabilization(rewound)
                     ELSE ScheduleNextCheck(rewound)
        settled == IF h.settle_requested THEN NextSettle(rechecked) ELSE rechecked
    IN IF ~Owns(h, "RefreshRate", c.generation) THEN h
       ELSE IF IsStale(h, c.generation) THEN Drain(freed, e)
       ELSE Drain(settled, e)

RetryRestore(h, e) == Drain(Transition(ReleaseFence(h), "EventLoop"), e)

HandleRecoveryCompleted(h, c, e) ==
    LET freed == ReleaseFence(h)
        reset == [h EXCEPT !.recovery_reset = IF c.cleared = "none" THEN @ ELSE c.cleared]
    IN IF ~Owns(h, "Recovery", c.generation) THEN h
       ELSE IF IsStale(h, c.generation)
       THEN Drain(IF c.changed THEN RetainAfterCancelledRecovery(freed)
                  ELSE ResetRequestProgress(freed), e)
       ELSE IF c.status = "Ok" THEN DispatchValidation(Transition(reset, "RecoveryValidation"))
       ELSE RetryRestore(h, e)

(* The restore is confirmed: the lease ends, and the helper exits unless a      *)
(* RESET or a newer command still needs it.                                     *)
RestoreConfirmed(h, e) ==
    LET failed == h.staged_prepared /\ h.recovery_reset = "failed"
        home == Transition(
                    [ResetRequestProgress(ReleaseFence(h)) EXCEPT
                        !.recovery_armed = FALSE, !.changes_pending = FALSE,
                        !.unconfirmed_mutation = FALSE, !.scheduler = "off", !.os_task = FALSE, !.task_created = FALSE,
                        !.staged_prepared = failed, !.owed = FALSE], "Waiting")
        reset == IF failed THEN BeginStagedStateReset([home EXCEPT !.exit_after_reset = TRUE])
                 ELSE home
        drained == Drain([reset EXCEPT !.exit_after_reset = reset.reset_pending \/ DefersReset(reset)], e)
    IN IF DefersIntent(reset) /\ ~failed THEN [drained EXCEPT !.exit_after_reset = FALSE]
       ELSE IF drained.exit_after_reset THEN drained
       ELSE ExitHelper(drained, 0)

HandleValidationCompleted(h, c, e) ==
    IF ~Owns(h, "Recovery", c.generation) THEN h
    ELSE IF IsStale(h, c.generation) THEN Drain(RetainAfterCancelledRecovery(ReleaseFence(h)), e)
    ELSE IF c.status = "Ok" THEN RestoreConfirmed(h, e)
    ELSE RetryRestore(h, e)

(* handle_message() on a completion.                                            *)
HandleCompletion(h, c, e) ==
    CASE c.kind = "Apply" -> HandleApplyCompleted(h, c, e)
      [] c.kind = "Verification" -> HandleVerificationCompleted(h, c)
      [] c.kind = "Reset" -> HandleResetCompleted(h, c, e)
      [] c.kind = "RefreshRate" -> HandleRefreshRateCompleted(h, c, e)
      [] c.kind = "Recovery" -> HandleRecoveryCompleted(h, c, e)
      [] c.kind = "Validation" -> HandleValidationCompleted(h, c, e)

--------------------------------------------------------------------------------
(* Display events, the timer tick, the loss of the connection                   *)

SameVirtualDevice(h, e) == h.request.configured /\ e.device # 0 /\ h.request.device = e.device
Retarget(h, e) ==
    IF h.request.virtual /\ h.request.configured /\ e.device # 0
    THEN [h EXCEPT !.request.device = e.device] ELSE h
(* The repair APPLY the helper queues for itself, under the session's epoch.    *)
RestartCommand(h) ==
    [type |-> "APPLY", epoch |-> h.reply_epoch, request |-> h.request, from_disconnect |-> FALSE]
RestartAfterMutation(h, e) == LET r == Retarget(h, e) IN Supersede(r, RestartCommand(r))

MonitoredEvent(h, e) ==
    IF WorkerActive(h) THEN IF SameVirtualDevice(h, e) THEN h ELSE RestartAfterMutation(h, e)
    ELSE IF SameVirtualDevice(h, e)
    THEN IF h.check_pending THEN h
         ELSE DispatchVerification([h EXCEPT !.check_pending = TRUE], "Stabilization")
    ELSE DispatchApply(
             Transition([RewindStabilization(Retarget(CancelOperations(h), e)) EXCEPT !.attempt = 1],
                        "InProgress"))

ApplyingEvent(h, e) ==
    IF SameVirtualDevice(h, e) THEN h
    ELSE IF WorkerActive(h) THEN RestartAfterMutation(h, e)
    ELSE DispatchApply(
             Transition(Retarget(RewindStabilization([CancelOperations(h) EXCEPT !.attempt = 1]), e),
                        "InProgress"))

(* A display event of the current generation; an older one is dropped.          *)
HandleDisplayEvent(h, e) ==
    IF h.state = "VirtualDisplayMonitoring" THEN MonitoredEvent(h, e)
    ELSE IF h.state \in {"InProgress", "Verification"} /\ h.request.virtual THEN ApplyingEvent(h, e)
    ELSE IF h.state = "EventLoop" /\ h.recovery_armed /\ h.scheduler # "off"
    THEN StartRecovery([h EXCEPT !.scheduler = "open"])
    ELSE h

(* Mistake: the end of the restore window disarms the scheduler.                *)
TickGivesUp(h) == [h EXCEPT !.scheduler = "off"]
RetryDue(h) == h.state = "EventLoop" /\ h.recovery_armed /\ h.scheduler = "open"
(* handle_tick(): the backoff has elapsed, or the restore window has closed.    *)
TickAttempt(h) == StartRecovery(h)
TickExpire(h) == [h EXCEPT !.scheduler = "expired"]

RequiresDisconnectRecovery(h) ==
    h.recovery_armed \/ h.changes_pending \/ ApplyInFlight(h) \/ RestorePending(h)
ShouldDeferDisconnectRecovery(h) ==
    ~h.explicit_recovery /\ h.restore_on_disconnect /\ h.last_apply = "recent"

(* begin_transient_disconnect_settlement() when it returns true.                *)
BeginSettlement(h) ==
    LET replaced == IF WorkerActive(h) THEN h ELSE ReplaceStabilization(h)
        asked == [replaced EXCEPT !.settle_requested = TRUE]
    IN IF h.settle_requested THEN h
       ELSE IF WorkerActive(h) \/ (~h.verified /\ h.state = "Verification") THEN asked
       ELSE NextSettle(asked)

DisconnectRevert == [type |-> "REVERT", epoch |-> 0, request |-> NoRequest, from_disconnect |-> TRUE]

(* The main loop's reaction to the retired connection `epoch`.                  *)
HandleDisconnect(h, epoch) ==
    LET down == [h EXCEPT !.link = "down"] IN
    IF ShouldDeferDisconnectRecovery(down) /\ down.request.configured THEN BeginSettlement(down)
    ELSE IF RequiresDisconnectRecovery(down)
    THEN HandleRevertCommand([down EXCEPT !.restore_origin = epoch], DisconnectRevert)
    ELSE down

================================================================================
