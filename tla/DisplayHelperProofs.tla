-------------------------- MODULE DisplayHelperProofs ---------------------------
(* THEOREM TypeCorrect: every variable of DisplayHelper always has its type.        *)
(* THEOREM RestoreStaysAlive: a restore in progress keeps its lease, and between    *)
(* two attempts the scheduler stays armed (RetryAlive).                             *)
(*                                                                                  *)
(* A handler is a composition of operators on the helper's memory, so both proofs   *)
(* go by operator: one lemma each says that a well-typed memory stays well-typed,   *)
(* and one that it stays sound, citing the lemmas of the operators it calls.        *)
EXTENDS DisplayHelperProperties, TLAPS

(*----------------------------- TypeCorrect ----------------------------------------*)
(* TypeOK speaks of the record set Helper; the lemmas speak of IsHelper, the same   *)
(* fact member by member, because an update of one member then leaves 44 conjuncts  *)
(* untouched.                                                                       *)

(* The members of Helper, and the type of each.                                     *)
Fields == {"state", "worker", "deferred", "reset_pending", "exit_after_reset",
           "recovery_armed", "changes_pending", "explicit_recovery", "task_created",
           "lease_before_apply", "unconfirmed_mutation", "staged_prepared",
           "recovery_reset", "apply_sent", "verification_sent", "verified", "attempt",
           "hdr_fallback", "request", "reply_epoch", "check_pending", "checks",
           "next_check", "reapplies", "next_reapply", "settle_requested", "settle_pending",
           "settle_repairing", "next_settle", "last_apply", "scheduler",
           "restore_unconfirmed", "restore_on_disconnect", "generation", "epoch", "link",
           "restore_origin", "exited", "exit_code", "tasks", "timers", "snapshot",
           "os_task", "owed", "verdict"}

Typed(m) ==
    /\ m.state \in States /\ m.worker \in Worker /\ m.deferred \in Seq(Command)
    /\ m.reset_pending \in BOOLEAN /\ m.exit_after_reset \in BOOLEAN
    /\ m.recovery_armed \in BOOLEAN /\ m.changes_pending \in BOOLEAN
    /\ m.explicit_recovery \in BOOLEAN /\ m.task_created \in BOOLEAN
    /\ m.lease_before_apply \in BOOLEAN /\ m.unconfirmed_mutation \in BOOLEAN
    /\ m.staged_prepared \in BOOLEAN /\ m.recovery_reset \in {"none", "ok", "failed"}
    /\ m.apply_sent \in BOOLEAN /\ m.verification_sent \in BOOLEAN /\ m.verified \in BOOLEAN
    /\ m.attempt \in Nat /\ m.hdr_fallback \in BOOLEAN /\ m.request \in Request
    /\ m.reply_epoch \in Nat /\ m.check_pending \in BOOLEAN /\ m.checks \in 0..3
    /\ m.next_check \in Nat /\ m.reapplies \in 0..4 /\ m.next_reapply \in Nat
    /\ m.settle_requested \in BOOLEAN /\ m.settle_pending \in BOOLEAN
    /\ m.settle_repairing \in BOOLEAN /\ m.next_settle \in 0..2
    /\ m.last_apply \in {"none", "recent", "old"}
    /\ m.scheduler \in {"off", "open", "expired"} /\ m.restore_unconfirmed \in BOOLEAN
    /\ m.restore_on_disconnect \in BOOLEAN /\ m.generation \in Nat /\ m.epoch \in Nat
    /\ m.link \in {"down", "up", "broken", "restore_mode"} /\ m.restore_origin \in Int
    /\ m.exited \in BOOLEAN /\ m.exit_code \in {0, 1} /\ m.tasks \in Seq(Task)
    /\ m.timers \in Seq(Task) /\ m.snapshot \in BOOLEAN /\ m.os_task \in BOOLEAN
    /\ m.owed \in BOOLEAN /\ m.verdict \in [RequestIds -> {"none", "ok", "failed"}]

(* A well-typed memory: a record of the fields, each in its type.                  *)
IsRecord(m) == m = [f \in Fields |-> m[f]]
IsHelper(m) == IsRecord(m) /\ Typed(m)
(* What the surroundings of a handler may answer.                                *)
Env == [task: BOOLEAN, capture: BOOLEAN, device: Devices]

(* A Helper is a record of the fields, each of its type ...                     *)
LEMMA HelperIsHelper ==
  ASSUME NEW m \in Helper
  PROVE  IsHelper(m)
<1>1. Typed(m)
  BY DEF Typed, Helper
<1>2. IsRecord(m)
  BY DEF IsRecord, Fields, Helper
<1> QED
  BY <1>1, <1>2 DEF IsHelper

(* ... and conversely.                                                          *)
LEMMA IsHelperInHelper ==
  ASSUME NEW m, IsHelper(m)
  PROVE  m \in Helper
  BY DEF IsHelper, IsRecord, Typed, Fields, Helper

(* An assignment to a member keeps the memory a record of the same fields.      *)
LEMMA UpdateIsRecord ==
  ASSUME NEW m, IsRecord(m), NEW f \in Fields, NEW v
  PROVE  IsRecord([m EXCEPT ![f] = v])
  BY DEF IsRecord

(* transition() keeps the memory well-typed, for every state it is called with. *)
LEMMA TransitionType ==
  ASSUME NEW m, IsHelper(m), NEW next \in States
  PROVE  IsHelper(Transition(m, next))
<1>1. Typed(Transition(m, next))
  BY DEF IsHelper, IsRecord, Typed, Fields, Transition
<1> QED
  BY <1>1, UpdateIsRecord
    DEF IsHelper, Fields, Transition

(* cancel_operations() only moves the generation on.                            *)
LEMMA CancelOperationsType ==
  ASSUME NEW m, IsHelper(m)
  PROVE  IsHelper(CancelOperations(m))
<1>1. Typed(CancelOperations(m))
  BY DEF IsHelper, IsRecord, Typed, Fields, CancelOperations
<1> QED
  BY <1>1, UpdateIsRecord
    DEF IsHelper, Fields, CancelOperations

(* What a dispatched closure captures is a Task.                                *)
LEMMA TaskForType ==
  ASSUME NEW m, IsHelper(m), NEW kind \in TaskKinds
  PROVE  TaskFor(m, kind) \in Task
  BY DEF IsHelper, Typed, TaskFor, Task, Request, Purposes

(* AsyncDispatcher::enqueue() takes a Task.                                     *)
LEMMA EnqueueType ==
  ASSUME NEW m, IsHelper(m), NEW task \in Task
  PROVE  IsHelper(Enqueue(m, task))
<1>1. Typed(Enqueue(m, task))
  BY DEF IsHelper, IsRecord, Typed, Fields, Enqueue
<1> QED
  BY <1>1, UpdateIsRecord
    DEF IsHelper, Fields, Enqueue

(* active_mutation_worker_ names a kind of worker and a generation.             *)
LEMMA FenceType ==
  ASSUME NEW m, IsHelper(m), NEW kind \in WorkerKinds
  PROVE  IsHelper(Fence(m, kind))
<1>1. Typed(Fence(m, kind))
  BY DEF IsHelper, IsRecord, Typed, Fields, Fence, Worker
<1> QED
  BY <1>1, UpdateIsRecord
    DEF IsHelper, Fields, Fence, Worker

(* dispatch_apply_worker() keeps the memory well-typed.                         *)
LEMMA DispatchApplyType ==
  ASSUME NEW m, IsHelper(m)
  PROVE  IsHelper(DispatchApply(m))
  BY TaskForType, EnqueueType, FenceType
    DEF DispatchApply, TaskKinds, WorkerKinds

(* So does the dispatch of a recovery,                                          *)
LEMMA DispatchRecoveryType ==
  ASSUME NEW m, IsHelper(m)
  PROVE  IsHelper(DispatchRecovery(m))
  BY TaskForType, EnqueueType, FenceType
    DEF DispatchRecovery, TaskKinds, WorkerKinds

(* of a refresh-rate change for a device,                                       *)
LEMMA DispatchRefreshRateType ==
  ASSUME NEW m, IsHelper(m), NEW device \in Devices
  PROVE  IsHelper(DispatchRefreshRate(m, device))
<1>1. [TaskFor(m, "RefreshRate") EXCEPT !.device = device] \in Task
  BY TaskForType DEF Task, TaskKinds, WorkerKinds
<1> QED
  BY <1>1, EnqueueType, FenceType DEF DispatchRefreshRate, WorkerKinds

(* of a verification of any purpose,                                            *)
LEMMA DispatchVerificationType ==
  ASSUME NEW m, IsHelper(m), NEW purpose \in Purposes
  PROVE  IsHelper(DispatchVerification(m, purpose))
<1>1. [TaskFor(m, "Verification") EXCEPT !.purpose = purpose] \in Task
  BY TaskForType DEF Task, TaskKinds
<1> QED
  BY <1>1, EnqueueType DEF DispatchVerification

(* of a delayed one,                                                            *)
LEMMA DispatchVerificationAfterType ==
  ASSUME NEW m, IsHelper(m), NEW purpose \in Purposes
  PROVE  IsHelper(DispatchVerificationAfter(m, purpose))
<1>1. [TaskFor(m, "Verification") EXCEPT !.purpose = purpose] \in Task
  BY TaskForType DEF Task, TaskKinds
<1>2. Typed(DispatchVerificationAfter(m, purpose))
  BY <1>1 DEF IsHelper, IsRecord, Typed, Fields, DispatchVerificationAfter
<1> QED
  BY <1>2, UpdateIsRecord DEF IsHelper, Fields, DispatchVerificationAfter

(* and of the validation under the fence of the recovery.                       *)
LEMMA DispatchValidationType ==
  ASSUME NEW m, IsHelper(m)
  PROVE  IsHelper(DispatchValidation(m))
<1> DEFINE n == Enqueue(m, TaskFor(m, "Validation"))
<1>1. IsHelper(n)
  BY TaskForType, EnqueueType DEF TaskKinds
<1>2. [n.worker EXCEPT !.generation = m.generation] \in Worker
  BY <1>1 DEF IsHelper, Typed, Worker
<1> HIDE DEF n
<1>3. Typed([n EXCEPT !.worker.generation = m.generation])
  BY <1>1, <1>2 DEF IsHelper, IsRecord, Typed, Fields
<1>4. IsHelper([n EXCEPT !.worker.generation = m.generation])
  BY <1>1, <1>3, UpdateIsRecord DEF IsHelper, Fields
<1> QED
  BY <1>4 DEF n, DispatchValidation

(* begin_staged_state_reset() queues at most one Reset.                         *)
LEMMA BeginStagedStateResetType ==
  ASSUME NEW m, IsHelper(m)
  PROVE  IsHelper(BeginStagedStateReset(m))
<1>1a. Typed([m EXCEPT !.reset_pending = TRUE])
  BY DEF IsHelper, IsRecord, Typed, Fields
<1>1. IsHelper([m EXCEPT !.reset_pending = TRUE])
  BY <1>1a, UpdateIsRecord
    DEF IsHelper, Fields

<1>2. TaskFor(m, "Reset") \in Task
  BY TaskForType DEF TaskKinds
<1> QED
  BY <1>1, <1>2, EnqueueType DEF BeginStagedStateReset

(* send_apply_result() sets its once-flag.                                      *)
LEMMA SendApplyResultType ==
  ASSUME NEW m, IsHelper(m)
  PROVE  IsHelper(SendApplyResult(m))
<1>1a. Typed([m EXCEPT !.apply_sent = TRUE])
  BY DEF IsHelper, IsRecord, Typed, Fields
<1>1. IsHelper([m EXCEPT !.apply_sent = TRUE])
  BY <1>1a, UpdateIsRecord
    DEF IsHelper, Fields

<1> QED
  BY <1>1 DEF SendApplyResult

(* send_verification_result() notes the verdict of a known request.             *)
LEMMA SendVerificationResultType ==
  ASSUME NEW m, IsHelper(m), NEW success \in BOOLEAN
  PROVE  IsHelper(SendVerificationResult(m, success))
<1> DEFINE verdict == [id \in RequestIds |-> IF id = m.request.id
                                            THEN IF success THEN "ok" ELSE "failed"
                                            ELSE m.verdict[id]]
           n == [m EXCEPT !.verification_sent = TRUE, !.verdict = verdict]
<1>1. verdict \in [RequestIds -> {"none", "ok", "failed"}]
  BY DEF IsHelper, Typed
<1> HIDE DEF verdict
<1>2. Typed(n)
  BY <1>1 DEF IsHelper, Typed, IsRecord, Fields
<1>3. IsHelper(n)
  BY <1>2, UpdateIsRecord DEF IsHelper, Fields
<1>4. SendVerificationResult(m, success) = IF m.verification_sent THEN m ELSE n
  BY DEF SendVerificationResult, verdict, IsHelper, IsRecord, Fields
<1> QED
  BY <1>3, <1>4

(* reset_post_apply_stabilization() returns every counter of the ladder to 0.   *)
LEMMA ResetStabilizationType ==
  ASSUME NEW m, IsHelper(m)
  PROVE  IsHelper(ResetStabilization(m))
<1>1. Typed(ResetStabilization(m))
  BY DEF IsHelper, IsRecord, Typed, Fields, ResetStabilization
<1> QED
  BY <1>1, UpdateIsRecord
    DEF IsHelper, Fields, ResetStabilization

(* rewind_post_apply_stabilization() returns the check counter to 0.            *)
LEMMA RewindStabilizationType ==
  ASSUME NEW m, IsHelper(m)
  PROVE  IsHelper(RewindStabilization(m))
<1>1. Typed(RewindStabilization(m))
  BY DEF IsHelper, IsRecord, Typed, Fields, RewindStabilization
<1> QED
  BY <1>1, UpdateIsRecord
    DEF IsHelper, Fields, RewindStabilization

(* reset_transient_disconnect_settlement() clears the settlement.               *)
LEMMA ResetSettlementType ==
  ASSUME NEW m, IsHelper(m)
  PROVE  IsHelper(ResetSettlement(m))
<1>1. Typed(ResetSettlement(m))
  BY DEF IsHelper, IsRecord, Typed, Fields, ResetSettlement
<1> QED
  BY <1>1, UpdateIsRecord
    DEF IsHelper, Fields, ResetSettlement

(* RestoreState::reset_request_progress() clears the unconfirmed attempt.       *)
LEMMA ResetRequestProgressType ==
  ASSUME NEW m, IsHelper(m)
  PROVE  IsHelper(ResetRequestProgress(m))
<1>1. Typed(ResetRequestProgress(m))
  BY DEF IsHelper, IsRecord, Typed, Fields, ResetRequestProgress
<1> QED
  BY <1>1, UpdateIsRecord
    DEF IsHelper, Fields, ResetRequestProgress

(* clear_recovery_state() gives up the lease, its task and the settlement.      *)
LEMMA ClearRecoveryStateType ==
  ASSUME NEW m, IsHelper(m)
  PROVE  IsHelper(ClearRecoveryState(m))
<1>1. Typed(ClearRecoveryState(m))
  BY DEF IsHelper, IsRecord, Typed, Fields, ClearRecoveryState, ResetSettlement,
     ResetRequestProgress
<1> DEFINE n == ResetSettlement(ResetRequestProgress(m))
           k == [n EXCEPT !.scheduler = "off", !.recovery_armed = FALSE,
                          !.changes_pending = FALSE, !.explicit_recovery = FALSE]
<1>2. IsRecord(n)
  BY ResetRequestProgressType, ResetSettlementType DEF IsHelper
<1> HIDE DEF n
<1>3. IsRecord(k)
  BY <1>2, UpdateIsRecord DEF Fields
<1> HIDE DEF k
<1>4. IsRecord([k EXCEPT !.last_apply = "none", !.os_task = FALSE,
                         !.task_created = FALSE, !.owed = FALSE])
  BY <1>3, UpdateIsRecord DEF Fields
<1> QED
  BY <1>1, <1>4 DEF IsHelper, ClearRecoveryState, k, n

(* apply_recovery_policy() copies the policy of the request.                    *)
LEMMA ApplyRecoveryPolicyType ==
  ASSUME NEW m, IsHelper(m)
  PROVE  IsHelper(ApplyRecoveryPolicy(m))
<1>1. Typed(ApplyRecoveryPolicy(m))
  BY DEF IsHelper, IsRecord, Typed, Fields, ApplyRecoveryPolicy, Request
<1> QED
  BY <1>1, UpdateIsRecord
    DEF IsHelper, Fields, ApplyRecoveryPolicy, Request

(* activate_recovery_lease() arms the recovery.                                 *)
LEMMA ActivateRecoveryLeaseType ==
  ASSUME NEW m, IsHelper(m)
  PROVE  IsHelper(ActivateRecoveryLease(m))
<1>1. Typed(ActivateRecoveryLease(m))
  BY DEF IsHelper, IsRecord, Typed, Fields, ActivateRecoveryLease, ApplyRecoveryPolicy,
     Request
<1> QED
  BY <1>1, UpdateIsRecord
    DEF IsHelper, Fields, ActivateRecoveryLease, ApplyRecoveryPolicy, Request

(* The restore task is created, or not, as the backend answers.                 *)
LEMMA CreateRestoreTaskIfMissingType ==
  ASSUME NEW m, IsHelper(m), NEW e \in Env
  PROVE  IsHelper(CreateRestoreTaskIfMissing(m, e))
<1>1. Typed(CreateRestoreTaskIfMissing(m, e))
  BY DEF IsHelper, IsRecord, Typed, Fields, CreateRestoreTaskIfMissing, Env
<1> QED
  BY <1>1, UpdateIsRecord
    DEF IsHelper, Fields, CreateRestoreTaskIfMissing, Env

(* retain_recovery_after_cancelled_recovery() arms the recovery.                *)
LEMMA RetainAfterCancelledRecoveryType ==
  ASSUME NEW m, IsHelper(m)
  PROVE  IsHelper(RetainAfterCancelledRecovery(m))
<1>1. Typed(RetainAfterCancelledRecovery(m))
  BY DEF IsHelper, IsRecord, Typed, Fields, RetainAfterCancelledRecovery
<1> QED
  BY <1>1, UpdateIsRecord
    DEF IsHelper, Fields, RetainAfterCancelledRecovery

(* retain_recovery_after_display_mutation() arms it and guards it by the task.  *)
LEMMA RetainAfterMutationType ==
  ASSUME NEW m, IsHelper(m), NEW c \in Completion, NEW e \in Env
  PROVE  IsHelper(RetainAfterMutation(m, c, e))
<1>1a. Typed([m EXCEPT !.task_created = @ \/ c.durable])
  BY DEF IsHelper, IsRecord, Typed, Fields, Completion
<1>1. IsHelper([m EXCEPT !.task_created = @ \/ c.durable])
  BY <1>1a, UpdateIsRecord
    DEF IsHelper, Fields, Completion
<1> QED
  BY <1>1, ActivateRecoveryLeaseType, CreateRestoreTaskIfMissingType
    DEF RetainAfterMutation

(* reset_uncommitted_staged_state_if_needed() resets what nothing relies on.    *)
LEMMA ResetUncommittedStagedStateType ==
  ASSUME NEW m, IsHelper(m)
  PROVE  IsHelper(ResetUncommittedStagedState(m))
<1>1a. Typed([m EXCEPT !.os_task = FALSE, !.task_created = FALSE])
  BY DEF IsHelper, IsRecord, Typed, Fields
<1>1. IsHelper([m EXCEPT !.os_task = FALSE, !.task_created = FALSE])
  BY <1>1a, UpdateIsRecord
    DEF IsHelper, Fields
<1> QED
  BY <1>1, BeginStagedStateResetType
    DEF ResetUncommittedStagedState

(* start_recovery() enters Recovery and dispatches it.                          *)
LEMMA StartRecoveryType ==
  ASSUME NEW m, IsHelper(m)
  PROVE  IsHelper(StartRecovery(m))
<1>1a. Typed([m EXCEPT !.recovery_reset = "none"])
  BY DEF IsHelper, IsRecord, Typed, Fields
<1>1. IsHelper([m EXCEPT !.recovery_reset = "none"])
  BY <1>1a, UpdateIsRecord
    DEF IsHelper, Fields
<1> QED
  BY <1>1, TransitionType, DispatchRecoveryType
    DEF StartRecovery, States

(* enter_steady_state() ends in Waiting or VirtualDisplayMonitoring.            *)
LEMMA EnterSteadyStateType ==
  ASSUME NEW m, IsHelper(m)
  PROVE  IsHelper(EnterSteadyState(m))
  BY TransitionType
    DEF EnterSteadyState, States

(* schedule_next_post_apply_stabilization_check() claims one stage.             *)
LEMMA ScheduleNextCheckType ==
  ASSUME NEW m, IsHelper(m)
  PROVE  IsHelper(ScheduleNextCheck(m))
<1>1a. Typed([m EXCEPT !.next_check = @ + 1, !.check_pending = TRUE])
  BY DEF IsHelper, IsRecord, Typed, Fields
<1>1. IsHelper([m EXCEPT !.next_check = @ + 1, !.check_pending = TRUE])
  BY <1>1a, UpdateIsRecord
    DEF IsHelper, Fields
<1> QED
  BY <1>1, DispatchVerificationAfterType
    DEF ScheduleNextCheck, Purposes

(* dispatch_next_verification_reapply() claims, runs or omits one stage.        *)
LEMMA NextReapplyType ==
  ASSUME NEW m, IsHelper(m)
  PROVE  IsHelper(NextReapply(m))
<1>1a. Typed([m EXCEPT !.next_reapply = @ + 1])
  BY DEF IsHelper, IsRecord, Typed, Fields
<1>1. IsHelper([m EXCEPT !.next_reapply = @ + 1])
  BY <1>1a, UpdateIsRecord
    DEF IsHelper, Fields

<1> DEFINE check == IF m.next_check < m.next_reapply THEN m.next_reapply ELSE m.next_check
           n == [m EXCEPT !.next_reapply = @ + 1, !.next_check = check]
<1>2. check \in Nat
  BY DEF IsHelper, Typed
<1> HIDE DEF check
<1>3. Typed(n)
  BY <1>2 DEF IsHelper, IsRecord, Typed, Fields
<1>4. IsHelper(n)
  BY <1>3, UpdateIsRecord DEF IsHelper, Fields
<1>5. n = [m EXCEPT !.next_reapply = @ + 1,
                    !.next_check = IF @ < m.next_reapply THEN m.next_reapply ELSE @]
  BY DEF check, IsHelper, IsRecord, Fields
<1> QED
  BY <1>1, <1>4, <1>5, TransitionType, DispatchApplyType DEF NextReapply, States

(* The settlement never claims a third stage: next_settle stays within 0..2.    *)
LEMMA NextSettleType ==
  ASSUME NEW m, IsHelper(m)
  PROVE  IsHelper(NextSettle(m))
<1>1. CASE ~m.settle_pending /\ CanSettle(m)
  <2>1. m.next_settle \in 0..1
    BY <1>1 DEF CanSettle, IsHelper, Typed
  <2>2. Typed([m EXCEPT !.next_settle = @ + 1, !.settle_pending = TRUE])
    BY <2>1 DEF IsHelper, IsRecord, Typed, Fields
  <2>3. IsHelper([m EXCEPT !.next_settle = @ + 1, !.settle_pending = TRUE])
    BY <2>2, UpdateIsRecord DEF IsHelper, Fields
  <2> QED
    BY <1>1, <2>3, TransitionType, DispatchVerificationAfterType DEF NextSettle, States, Purposes
<1>2. CASE m.settle_pending \/ ~CanSettle(m)
  BY <1>2, ResetSettlementType DEF NextSettle
<1> QED
  BY <1>1, <1>2

(* dispatch_transient_disconnect_repair() cancels and re-applies.               *)
LEMMA SettlementRepairType ==
  ASSUME NEW m, IsHelper(m)
  PROVE  IsHelper(SettlementRepair(m))
<1> DEFINE n == CancelOperations(m)
           k == [n EXCEPT !.settle_pending = FALSE, !.settle_repairing = TRUE]
<1>1. IsHelper(n)
  BY CancelOperationsType
<1> HIDE DEF n
<1>2. Typed(k)
  BY <1>1 DEF IsHelper, IsRecord, Typed, Fields
<1>3. IsHelper(k)
  BY <1>1, <1>2, UpdateIsRecord DEF IsHelper, Fields
<1> QED
  BY <1>3, TransitionType, DispatchApplyType DEF n, SettlementRepair, States

(* dispatch_immediate_repair() re-applies, ahead of the check ladder.           *)
LEMMA StabilizationRepairType ==
  ASSUME NEW m, IsHelper(m)
  PROVE  IsHelper(StabilizationRepair(m))
<1> DEFINE stage == IF m.next_reapply < m.next_check + 1 THEN m.next_check + 1 ELSE m.next_reapply
           n == [m EXCEPT !.next_reapply = stage]
<1>1. stage \in Nat
  BY DEF IsHelper, Typed
<1> HIDE DEF stage
<1>2. Typed(n)
  BY <1>1 DEF IsHelper, IsRecord, Typed, Fields
<1>3. IsHelper(n)
  BY <1>2, UpdateIsRecord DEF IsHelper, Fields
<1>4. StabilizationRepair(m) = DispatchApply(Transition(n, "InProgress"))
  BY DEF StabilizationRepair, stage
<1> QED
  BY <1>3, <1>4, TransitionType, DispatchApplyType DEF States

(* The settlement of a disconnect replaces the ladder of the APPLY.             *)
LEMMA ReplaceStabilizationType ==
  ASSUME NEW m, IsHelper(m)
  PROVE  IsHelper(ReplaceStabilization(m))
  BY CancelOperationsType, ResetStabilizationType
    DEF ReplaceStabilization

(* exit_callback_ stops the helper or keeps it for a newer connection.          *)
LEMMA ExitHelperType ==
  ASSUME NEW m, IsHelper(m), NEW code \in {0, 1}
  PROVE  IsHelper(ExitHelper(m, code))
<1>1a. Typed([m EXCEPT !.restore_origin = 0])
  BY DEF IsHelper, IsRecord, Typed, Fields
<1>1. IsHelper([m EXCEPT !.restore_origin = 0])
  BY <1>1a, UpdateIsRecord
    DEF IsHelper, Fields

<1> DEFINE n == CancelOperations(m)
<1>2. IsHelper(n)
  BY CancelOperationsType
<1> HIDE DEF n
<1>3. Typed([n EXCEPT !.exited = TRUE, !.exit_code = code])
  BY <1>2 DEF IsHelper, IsRecord, Typed, Fields
<1>4. IsHelper([n EXCEPT !.exited = TRUE, !.exit_code = code])
  BY <1>2, <1>3, UpdateIsRecord DEF IsHelper, Fields
<1> QED
  BY <1>1, <1>4 DEF n, ExitHelper

(* Taking an intent out of the deferred queue leaves a queue.                      *)
LEMMA WithoutIntentType ==
  ASSUME NEW s \in Seq(Command)
  PROVE  WithoutIntent(s) \in Seq(Command)
  BY DEF WithoutIntent, RemoveAt

(* enqueue_deferred_mutation_command() leaves a queue of commands.              *)
LEMMA DeferType ==
  ASSUME NEW m, IsHelper(m), NEW c \in Command
  PROVE  IsHelper(Defer(m, c))
<1> DEFINE queue == Append(IF IsReset(c) THEN m.deferred ELSE WithoutIntent(m.deferred), c)
<1>1. m.deferred \in Seq(Command)
  BY DEF IsHelper, Typed
<1>2. queue \in Seq(Command)
  BY <1>1, WithoutIntentType
<1> HIDE DEF queue
<1>3. Typed([m EXCEPT !.deferred = queue])
  BY <1>2 DEF IsHelper, IsRecord, Typed, Fields
<1>4. IsHelper([m EXCEPT !.deferred = queue])
  BY <1>3, UpdateIsRecord DEF IsHelper, Fields
<1> QED
  BY <1>4 DEF Defer, queue

(* queue_after_active_mutation() cancels and defers.                            *)
LEMMA SupersedeType ==
  ASSUME NEW m, IsHelper(m), NEW c \in Command
  PROVE  IsHelper(Supersede(m, c))
  BY CancelOperationsType, DeferType
    DEF Supersede

(* Accepting an APPLY resets the ladders to the lengths of its request.         *)
LEMMA BeginApplyType ==
  ASSUME NEW m, IsHelper(m), NEW c \in Command, NEW e \in Env
  PROVE  IsHelper(BeginApply(m, c, e))
<1> DEFINE base == ResetStabilization(CancelOperations(m))
           half == [base EXCEPT
               !.lease_before_apply = m.recovery_armed \/ m.changes_pending,
               !.scheduler = "off", !.restore_unconfirmed = FALSE,
               !.attempt = 1, !.hdr_fallback = FALSE]
           accepted == [half EXCEPT
               !.apply_sent = FALSE, !.verification_sent = FALSE, !.verified = FALSE,
               !.request = c.request, !.reply_epoch = c.epoch]
           policy == ApplyRecoveryPolicy(accepted)
           hdr == c.request.hdr # "unset"
           started == [policy EXCEPT !.last_apply = "recent", !.checks = IF hdr THEN 3 ELSE 1,
                                     !.reapplies = IF hdr THEN 4 ELSE 2,
                                     !.snapshot = @ \/ e.capture]
<1>1. IsHelper(base)
  BY CancelOperationsType, ResetStabilizationType
<1>2. (m.recovery_armed \/ m.changes_pending) \in BOOLEAN
  OBVIOUS
<1>3. c.request \in Request /\ c.epoch \in Nat
  BY DEF Command
<1> HIDE DEF base
<1>4a. Typed(half)
  BY <1>1, <1>2 DEF IsHelper, IsRecord, Typed, Fields
<1>4. IsHelper(half)
  BY ZenonT(60), <1>1, <1>4a, UpdateIsRecord DEF IsHelper, Fields
<1> HIDE DEF half
<1>5a. Typed(accepted)
  BY <1>3, <1>4 DEF IsHelper, IsRecord, Typed, Fields
<1>5. IsHelper(accepted)
  BY <1>4, <1>5a, UpdateIsRecord DEF IsHelper, Fields
<1> HIDE DEF accepted
<1>6. IsHelper(policy)
  BY <1>5, ApplyRecoveryPolicyType
<1> HIDE DEF policy
<1>7. (IF hdr THEN 3 ELSE 1) \in 0..3 /\ (IF hdr THEN 4 ELSE 2) \in 0..4
  OBVIOUS
<1> HIDE DEF hdr
<1>8. Typed(started)
  BY <1>6, <1>7 DEF IsHelper, IsRecord, Typed, Fields, Env
<1>9. IsHelper(started)
  BY ZenonT(60), <1>6, <1>8, UpdateIsRecord DEF IsHelper, Fields
<1> HIDE DEF started
<1>10. BeginApply(m, c, e) = IF ~c.request.configured
                             THEN Transition(SendApplyResult(accepted), "Waiting")
                             ELSE DispatchApply(Transition(started, "InProgress"))
  BY DEF BeginApply, started, hdr, policy, accepted, half, base
<1> QED
  BY <1>5, <1>9, <1>10, SendApplyResultType, TransitionType, DispatchApplyType DEF States

(* handle_apply_command() keeps the memory well-typed.                          *)
LEMMA HandleApplyCommandType ==
  ASSUME NEW m, IsHelper(m), NEW c \in Command, NEW e \in Env
  PROVE  IsHelper(HandleApplyCommand(m, c, e))
<1>1a. Typed([m EXCEPT !.explicit_recovery = FALSE])
  BY DEF IsHelper, IsRecord, Typed, Fields
<1>1. IsHelper([m EXCEPT !.explicit_recovery = FALSE])
  BY <1>1a, UpdateIsRecord
    DEF IsHelper, Fields
<1> QED
  BY <1>1, ResetSettlementType, SupersedeType, DeferType, BeginApplyType
    DEF HandleApplyCommand

(* Giving the lease up at a disconnect keeps it so,                             *)
LEMMA ReleaseOnDisconnectType ==
  ASSUME NEW m, IsHelper(m)
  PROVE  IsHelper(ReleaseOnDisconnect(m))
  BY CancelOperationsType, ClearRecoveryStateType, ResetStabilizationType, TransitionType
    DEF ReleaseOnDisconnect, States

(* and so does the start of a restore,                                          *)
LEMMA BeginRevertType ==
  ASSUME NEW m, IsHelper(m)
  PROVE  IsHelper(BeginRevert(m))
<1> DEFINE n0 == CancelOperations(m)
<1>1a. IsHelper(n0)
  BY CancelOperationsType
<1> HIDE DEF n0
<1>1b. Typed([n0 EXCEPT !.recovery_armed = TRUE, !.changes_pending = TRUE, !.scheduler = "open"])
  BY <1>1a
    DEF IsHelper, IsRecord, Typed, Fields
<1>1. IsHelper([n0 EXCEPT !.recovery_armed = TRUE, !.changes_pending = TRUE, !.scheduler = "open"])
  BY <1>1a, <1>1b, UpdateIsRecord
    DEF IsHelper, Fields
<1> QED
  BY <1>1, ResetStabilizationType, StartRecoveryType
    DEF BeginRevert, n0

(* handle_revert_command() in all its branches,                                 *)
LEMMA HandleRevertCommandType ==
  ASSUME NEW m, IsHelper(m), NEW c \in Command
  PROVE  IsHelper(HandleRevertCommand(m, c))
<1>1a. Typed([m EXCEPT !.explicit_recovery = TRUE])
  BY DEF IsHelper, IsRecord, Typed, Fields
<1>1. IsHelper([m EXCEPT !.explicit_recovery = TRUE])
  BY <1>1a, UpdateIsRecord
    DEF IsHelper, Fields

<1> DEFINE latched == IF c.from_disconnect THEN m
                      ELSE ResetSettlement([m EXCEPT !.explicit_recovery = TRUE])
<1>2. IsHelper(latched)
  BY <1>1, ResetSettlementType
<1> HIDE DEF latched
<1>3. IsHelper(ExitHelper(ClearRecoveryState(CancelOperations(latched)), 0))
  BY <1>2, CancelOperationsType, ClearRecoveryStateType, ExitHelperType
<1> QED
  BY <1>2, <1>3, SupersedeType, DeferType, ReleaseOnDisconnectType, BeginRevertType
     DEF HandleRevertCommand, latched

(* the tail of handle_disarm_command(),                                         *)
LEMMA BeginDisarmType ==
  ASSUME NEW m, IsHelper(m)
  PROVE  IsHelper(BeginDisarm(m))
<1> DEFINE cancelled == CancelOperations(m)
           lease0 == ClearRecoveryState(cancelled)
           cleared == IF m.unconfirmed_mutation THEN cancelled
                      ELSE [lease0 EXCEPT !.task_created = FALSE]
           n == [cleared EXCEPT !.attempt = 0, !.apply_sent = FALSE, !.verification_sent = FALSE,
                                !.verified = FALSE, !.last_apply = "none"]
<1>1. IsHelper(cancelled)
  BY CancelOperationsType
<1>2. IsHelper(lease0)
  BY <1>1, ClearRecoveryStateType
<1> HIDE DEF cancelled, lease0
<1>3. Typed([lease0 EXCEPT !.task_created = FALSE])
  BY <1>2 DEF IsHelper, IsRecord, Typed, Fields
<1>4. IsHelper(cleared)
  BY <1>1, <1>2, <1>3, UpdateIsRecord DEF IsHelper, Fields
<1> HIDE DEF cleared
<1>5. Typed(n)
  BY <1>4 DEF IsHelper, IsRecord, Typed, Fields
<1>6. IsHelper(n)
  BY <1>4, <1>5, UpdateIsRecord DEF IsHelper, Fields
<1> HIDE DEF n
<1>7. BeginDisarm(m) = Transition(ResetStabilization(n), "Waiting")
  BY DEF BeginDisarm, n, cleared, lease0, cancelled
<1> QED
  BY <1>6, <1>7, ResetStabilizationType, TransitionType DEF States

(* the whole of it,                                                             *)
LEMMA HandleDisarmCommandType ==
  ASSUME NEW m, IsHelper(m), NEW c \in Command
  PROVE  IsHelper(HandleDisarmCommand(m, c))
<1>1a. Typed([m EXCEPT !.explicit_recovery = FALSE])
  BY DEF IsHelper, IsRecord, Typed, Fields
<1>1. IsHelper([m EXCEPT !.explicit_recovery = FALSE])
  BY <1>1a, UpdateIsRecord
    DEF IsHelper, Fields

<1> DEFINE latched == ResetSettlement([m EXCEPT !.explicit_recovery = FALSE])
<1>2. IsHelper(latched)
  BY <1>1, ResetSettlementType
<1> HIDE DEF latched
<1>3. Typed([latched EXCEPT !.scheduler = "off"])
  BY <1>2 DEF IsHelper, IsRecord, Typed, Fields
<1>4. IsHelper([latched EXCEPT !.scheduler = "off"])
  BY <1>2, <1>3, UpdateIsRecord DEF IsHelper, Fields
<1> QED
  BY <1>2, <1>4, SupersedeType, DeferType, BeginDisarmType DEF HandleDisarmCommand, latched

(* handle_reset_command(),                                                      *)
LEMMA HandleResetCommandType ==
  ASSUME NEW m, IsHelper(m), NEW c \in Command
  PROVE  IsHelper(HandleResetCommand(m, c))
  BY DeferType, BeginStagedStateResetType
    DEF HandleResetCommand

(* the two commands that capture a baseline,                                    *)
LEMMA HandleCaptureType ==
  ASSUME NEW m, IsHelper(m), NEW epoch, NEW e \in Env
  PROVE  IsHelper(HandleCapture(m, epoch, e))
<1>1a. Typed([m EXCEPT !.snapshot = @ \/ e.capture])
  BY DEF IsHelper, IsRecord, Typed, Fields, Env
<1>1. IsHelper([m EXCEPT !.snapshot = @ \/ e.capture])
  BY <1>1a, UpdateIsRecord
    DEF IsHelper, Fields, Env
<1> QED
  BY <1>1
    DEF HandleCapture

(* and handle_refresh_rate_command().                                           *)
LEMMA HandleRefreshRateCommandType ==
  ASSUME NEW m, IsHelper(m), NEW device \in Devices, NEW epoch
  PROVE  IsHelper(HandleRefreshRateCommand(m, device, epoch))
  BY CancelOperationsType, RewindStabilizationType, DispatchRefreshRateType
    DEF HandleRefreshRateCommand

(* One round of drain_deferred_mutation_commands() handles a command of the queue; *)
LEMMA DrainOneType ==
  ASSUME NEW m, IsHelper(m), NEW e \in Env
  PROVE  IsHelper(DrainOne(m, e))
<1> DEFINE c == Head(m.deferred)
           popped == [m EXCEPT !.deferred = Tail(@)]
<1>1. SUFFICES ASSUME m.deferred # <<>>
               PROVE  IsHelper(DrainOne(m, e))
  BY DEF DrainOne
<1>2. m.deferred \in Seq(Command)
  BY DEF IsHelper, Typed
<1>3. c \in Command /\ Tail(m.deferred) \in Seq(Command)
  BY <1>1, <1>2
<1>4. Typed(popped)
  BY <1>3 DEF IsHelper, IsRecord, Typed, Fields
<1>5. IsHelper(popped)
  BY <1>4, UpdateIsRecord DEF IsHelper, Fields
<1>6. c.type \in {"APPLY", "REVERT", "DISARM", "RESET"}
  BY <1>3 DEF Command
<1> HIDE DEF c, popped
<1>7. /\ IsHelper(HandleApplyCommand(popped, c, e))
      /\ IsHelper(HandleRevertCommand(popped, c))
      /\ IsHelper(HandleDisarmCommand(popped, c))
      /\ IsHelper(HandleResetCommand(popped, c))
  BY <1>3, <1>5, HandleApplyCommandType, HandleRevertCommandType, HandleDisarmCommandType,
     HandleResetCommandType
<1>8. DrainOne(m, e) = IF WorkerActive(m) \/ m.reset_pending \/ m.deferred = <<>> THEN m
        ELSE CASE c.type = "APPLY" -> HandleApplyCommand(popped, c, e)
               [] c.type = "REVERT" -> HandleRevertCommand(popped, c)
               [] c.type = "DISARM" -> HandleDisarmCommand(popped, c)
               [] c.type = "RESET" -> HandleResetCommand(popped, c)
  BY Zenon DEF DrainOne, c, popped
<1> QED
  BY <1>6, <1>7, <1>8

(* the loop keeps the memory well-typed.                                        *)
LEMMA DrainType ==
  ASSUME NEW m, IsHelper(m), NEW e \in Env
  PROVE  IsHelper(Drain(m, e))
  BY DrainOneType
    DEF Drain

(* active_mutation_worker_.reset() leaves no worker.                            *)
LEMMA ReleaseFenceType ==
  ASSUME NEW m, IsHelper(m)
  PROVE  IsHelper(ReleaseFence(m))
<1>1. Typed(ReleaseFence(m))
  BY DEF IsHelper, IsRecord, Typed, Fields, ReleaseFence, NoWorker, Worker
<1> QED
  BY <1>1, UpdateIsRecord
    DEF IsHelper, Fields, ReleaseFence, NoWorker, Worker

(* The completion of a superseded APPLY,                                        *)
LEMMA StaleApplyType ==
  ASSUME NEW m, IsHelper(m), NEW c \in Completion, NEW e \in Env
  PROVE  IsHelper(StaleApply(m, c, e))
<1> DEFINE n0 == RetainAfterMutation(m, c, e)
<1>1a. IsHelper(n0)
  BY RetainAfterMutationType
<1> HIDE DEF n0
<1>1b. Typed([n0 EXCEPT !.unconfirmed_mutation = TRUE])
  BY <1>1a
    DEF IsHelper, IsRecord, Typed, Fields
<1>1. IsHelper([n0 EXCEPT !.unconfirmed_mutation = TRUE])
  BY <1>1a, <1>1b, UpdateIsRecord
    DEF IsHelper, Fields
<1>2a. Typed([m EXCEPT !.task_created = @ \/ c.durable])
  BY DEF IsHelper, IsRecord, Typed, Fields, Completion
<1>2. IsHelper([m EXCEPT !.task_created = @ \/ c.durable])
  BY <1>2a, UpdateIsRecord
    DEF IsHelper, Fields, Completion
<1> QED
  BY <1>1, <1>2, ResetUncommittedStagedStateType, DrainType
    DEF StaleApply, n0

(* of one that landed,                                                          *)
LEMMA AppliedOkType ==
  ASSUME NEW m, IsHelper(m), NEW e \in Env
  PROVE  IsHelper(AppliedOk(m, e))
<1>1a. Typed([m EXCEPT !.settle_repairing = FALSE])
  BY DEF IsHelper, IsRecord, Typed, Fields
<1>1. IsHelper([m EXCEPT !.settle_repairing = FALSE])
  BY <1>1a, UpdateIsRecord
    DEF IsHelper, Fields
<1> DEFINE n0 == NextSettle([m EXCEPT !.settle_repairing = FALSE])
<1>2a. IsHelper(n0)
  BY <1>1, NextSettleType
<1> HIDE DEF n0
<1>2b. Typed([n0 EXCEPT !.verified = TRUE])
  BY <1>2a
    DEF IsHelper, IsRecord, Typed, Fields
<1>2. IsHelper([n0 EXCEPT !.verified = TRUE])
  BY <1>2a, <1>2b, UpdateIsRecord
    DEF IsHelper, Fields
<1> DEFINE k0 == ActivateRecoveryLease([n0 EXCEPT !.verified = TRUE])
<1>3a. IsHelper(k0)
  BY <1>2, ActivateRecoveryLeaseType
<1> HIDE DEF k0
<1>3b. Typed([k0 EXCEPT !.unconfirmed_mutation = FALSE])
  BY <1>3a
    DEF IsHelper, IsRecord, Typed, Fields
<1>3. IsHelper([k0 EXCEPT !.unconfirmed_mutation = FALSE])
  BY <1>3a, <1>3b, UpdateIsRecord
    DEF IsHelper, Fields

<1>4. IsHelper(Drain(EnterSteadyState([k0 EXCEPT !.unconfirmed_mutation = FALSE]), e))
  BY <1>3, EnterSteadyStateType, DrainType
<1>5. IsHelper(Drain(DispatchVerification(Transition(SendApplyResult(m), "Verification"),
                                          "Initial"), e))
  BY SendApplyResultType, TransitionType, DispatchVerificationType, DrainType
     DEF States, Purposes
<1> QED
  BY <1>2a, <1>4, <1>5 DEF AppliedOk, n0, k0

(* of one that failed for good,                                                 *)
LEMMA ApplyFailedType ==
  ASSUME NEW m, IsHelper(m), NEW c, NEW e \in Env
  PROVE  IsHelper(ApplyFailed(m, c, e))
<1> DEFINE told == SendVerificationResult(SendApplyResult(m), FALSE)
           clean == IF c.changed THEN told ELSE ResetUncommittedStagedState(told)
<1>1. IsHelper(told)
  BY SendApplyResultType, SendVerificationResultType
<1>2. IsHelper(clean)
  BY <1>1, ResetUncommittedStagedStateType
<1> HIDE DEF clean
<1>3. IsHelper(Drain(EnterSteadyState(clean), e)) /\ IsHelper(Drain(Transition(clean, "Waiting"), e))
  BY <1>2, EnterSteadyStateType, TransitionType, DrainType DEF States
<1> QED
  BY <1>3 DEF ApplyFailed, clean

(* of one that is retried or falls back to HDR off,                             *)
LEMMA RetryApplyType ==
  ASSUME NEW m, IsHelper(m), NEW c, NEW e \in Env
  PROVE  IsHelper(RetryApply(m, c, e))
<1>1a. Typed([m EXCEPT !.attempt = @ + 1])
  BY DEF IsHelper, IsRecord, Typed, Fields
<1>1. IsHelper([m EXCEPT !.attempt = @ + 1])
  BY <1>1a, UpdateIsRecord
    DEF IsHelper, Fields

<1> DEFINE n == [m EXCEPT !.hdr_fallback = TRUE, !.request.hdr = "off", !.attempt = 1]
<1>2. [m.request EXCEPT !.hdr = "off"] \in Request
  BY DEF IsHelper, Typed, Request
<1>3. Typed(n)
  BY <1>2 DEF IsHelper, IsRecord, Typed, Fields
<1>4. IsHelper(n)
  BY <1>3, UpdateIsRecord DEF IsHelper, Fields
<1> HIDE DEF n
<1>5. IsHelper(DispatchApply(Transition(n, "InProgress")))
  BY <1>4, TransitionType, DispatchApplyType DEF States
<1> QED
  BY <1>1, <1>5, DispatchApplyType, ApplyFailedType DEF RetryApply, n

(* and handle_apply_completed() as a whole keep the memory well-typed.          *)
LEMMA HandleApplyCompletedType ==
  ASSUME NEW m, IsHelper(m), NEW c \in Completion, NEW e \in Env
  PROVE  IsHelper(HandleApplyCompleted(m, c, e))
<1> DEFINE n0 == ReleaseFence(m)
<1>1a. IsHelper(n0)
  BY ReleaseFenceType
<1> HIDE DEF n0
<1>1b. Typed([n0 EXCEPT !.staged_prepared = @ \/ c.staged])
  BY <1>1a
    DEF IsHelper, IsRecord, Typed, Fields, Completion
<1>1. IsHelper([n0 EXCEPT !.staged_prepared = @ \/ c.staged])
  BY <1>1a, <1>1b, UpdateIsRecord
    DEF IsHelper, Fields

<1> DEFINE owned == [n0 EXCEPT !.staged_prepared = @ \/ c.staged]
           touched == c.status = "Ok" \/ c.changed
           leased == IF touched THEN ActivateRecoveryLease(owned) ELSE owned
           guarded == [leased EXCEPT !.task_created = @ \/ c.durable]
           tasked == IF touched THEN CreateRestoreTaskIfMissing(guarded, e) ELSE guarded
           settling == [tasked EXCEPT !.settle_repairing = FALSE]
<1>2. IsHelper(leased)
  BY <1>1, ActivateRecoveryLeaseType
<1> HIDE DEF owned, leased, touched
<1>3. Typed(guarded)
  BY <1>2 DEF IsHelper, IsRecord, Typed, Fields, Completion
<1>4. IsHelper(guarded)
  BY <1>2, <1>3, UpdateIsRecord DEF IsHelper, Fields
<1> HIDE DEF guarded
<1>5. IsHelper(tasked)
  BY <1>4, CreateRestoreTaskIfMissingType
<1> HIDE DEF tasked
<1>6. Typed(settling)
  BY <1>5 DEF IsHelper, IsRecord, Typed, Fields
<1>7. IsHelper(settling)
  BY <1>5, <1>6, UpdateIsRecord DEF IsHelper, Fields
<1> HIDE DEF settling
<1>8. /\ IsHelper(StaleApply(owned, c, e))
      /\ IsHelper(AppliedOk(tasked, e))
      /\ IsHelper(RetryApply(tasked, c, e))
      /\ IsHelper(NextSettle(settling))
      /\ IsHelper(RetryApply(NextSettle(settling), c, e))
  BY <1>1, <1>5, <1>7, StaleApplyType, AppliedOkType, RetryApplyType, NextSettleType DEF owned
<1>9. HandleApplyCompleted(m, c, e) \in
        {m, StaleApply(owned, c, e), AppliedOk(tasked, e), RetryApply(tasked, c, e),
         NextSettle(settling), RetryApply(NextSettle(settling), c, e)}
  BY DEF HandleApplyCompleted, settling, tasked, guarded, leased, touched, owned, n0
<1> QED
  BY <1>8, <1>9

(* The same for the check of the disconnect settlement,                         *)
LEMMA SettlementVerifiedType ==
  ASSUME NEW m, IsHelper(m), NEW c
  PROVE  IsHelper(SettlementVerified(m, c))
<1>1a. Typed([m EXCEPT !.settle_pending = FALSE])
  BY DEF IsHelper, IsRecord, Typed, Fields
<1>1. IsHelper([m EXCEPT !.settle_pending = FALSE])
  BY <1>1a, UpdateIsRecord
    DEF IsHelper, Fields

<1> DEFINE checked == [m EXCEPT !.settle_pending = FALSE]
           leased == ActivateRecoveryLease(checked)
           confirmed == IF m.verified THEN checked
                        ELSE [leased EXCEPT !.verified = TRUE, !.unconfirmed_mutation = FALSE]
<1>2. IsHelper(checked) /\ IsHelper(leased)
  BY <1>1, ActivateRecoveryLeaseType
<1> HIDE DEF checked, leased
<1>3. Typed([leased EXCEPT !.verified = TRUE, !.unconfirmed_mutation = FALSE])
  BY <1>2 DEF IsHelper, IsRecord, Typed, Fields
<1>4. IsHelper(confirmed)
  BY <1>2, <1>3, UpdateIsRecord DEF IsHelper, Fields
<1> HIDE DEF confirmed
<1>5. /\ IsHelper(EnterSteadyState(ResetSettlement(confirmed)))
      /\ IsHelper(SettlementRepair(checked))
      /\ IsHelper(Transition(ResetSettlement(checked), "Waiting"))
  BY <1>2, <1>4, ResetSettlementType, EnterSteadyStateType, SettlementRepairType, TransitionType
     DEF States
<1> QED
  BY <1>5 DEF SettlementVerified, confirmed, leased, checked

(* for the check that opens the gate,                                           *)
LEMMA InitialVerifiedType ==
  ASSUME NEW m, IsHelper(m)
  PROVE  IsHelper(InitialVerified(m))
<1>1a. Typed([m EXCEPT !.verified = TRUE])
  BY DEF IsHelper, IsRecord, Typed, Fields
<1>1. IsHelper([m EXCEPT !.verified = TRUE])
  BY <1>1a, UpdateIsRecord
    DEF IsHelper, Fields
<1> DEFINE n0 == ActivateRecoveryLease([m EXCEPT !.verified = TRUE])
<1>2a. IsHelper(n0)
  BY <1>1, ActivateRecoveryLeaseType
<1> HIDE DEF n0
<1>2b. Typed([n0 EXCEPT !.unconfirmed_mutation = FALSE])
  BY <1>2a
    DEF IsHelper, IsRecord, Typed, Fields
<1>2. IsHelper([n0 EXCEPT !.unconfirmed_mutation = FALSE])
  BY <1>2a, <1>2b, UpdateIsRecord
    DEF IsHelper, Fields

<1> DEFINE opened == SendVerificationResult([n0 EXCEPT !.unconfirmed_mutation = FALSE], TRUE)
           gated == IF m.verification_sent THEN m ELSE opened
<1>3. IsHelper(gated)
  BY <1>2, SendVerificationResultType
<1> HIDE DEF gated
<1>4. /\ IsHelper(EnterSteadyState(ScheduleNextCheck(gated)))
      /\ IsHelper(NextSettle(gated))
      /\ IsHelper(EnterSteadyState(NextSettle(gated)))
  BY <1>3, ScheduleNextCheckType, NextSettleType, EnterSteadyStateType
<1> QED
  BY <1>4 DEF InitialVerified, gated, n0

(* for a check that ends while the settlement waits,                            *)
LEMMA YieldToSettlementType ==
  ASSUME NEW m, IsHelper(m)
  PROVE  IsHelper(YieldToSettlement(m))
  BY NextSettleType, EnterSteadyStateType, TransitionType
    DEF YieldToSettlement, States

(* for a rejected first check,                                                  *)
LEMMA InitialRejectedType ==
  ASSUME NEW m, IsHelper(m)
  PROVE  IsHelper(InitialRejected(m))
<1> DEFINE rewound == RewindStabilization(m)
<1>1. IsHelper(NextReapply(rewound))
  BY RewindStabilizationType, NextReapplyType
<1> HIDE DEF rewound
<1>2. /\ IsHelper(EnterSteadyState(NextReapply(rewound)))
      /\ IsHelper(Transition(SendVerificationResult(NextReapply(rewound), FALSE), "Waiting"))
  BY <1>1, EnterSteadyStateType, SendVerificationResultType, TransitionType DEF States
<1> QED
  BY <1>1, <1>2 DEF InitialRejected, rewound

(* for a check of the ladder,                                                   *)
LEMMA StabilizationCheckedType ==
  ASSUME NEW m, IsHelper(m), NEW c
  PROVE  IsHelper(StabilizationChecked(m, c))
<1>1a. Typed([m EXCEPT !.check_pending = FALSE])
  BY DEF IsHelper, IsRecord, Typed, Fields
<1>1. IsHelper([m EXCEPT !.check_pending = FALSE])
  BY <1>1a, UpdateIsRecord
    DEF IsHelper, Fields

<1> DEFINE checked == [m EXCEPT !.check_pending = FALSE]
<1>2. /\ IsHelper(ScheduleNextCheck(checked))
      /\ IsHelper(NextSettle(checked))
      /\ IsHelper(EnterSteadyState(NextSettle(checked)))
      /\ IsHelper(YieldToSettlement(checked))
      /\ IsHelper(StabilizationRepair(checked))
  BY <1>1, ScheduleNextCheckType, NextSettleType, EnterSteadyStateType, YieldToSettlementType,
     StabilizationRepairType
<1> QED
  BY <1>2 DEF StabilizationChecked

(* and for handle_verification_completed() as a whole.                          *)
LEMMA HandleVerificationCompletedType ==
  ASSUME NEW m, IsHelper(m), NEW c
  PROVE  IsHelper(HandleVerificationCompleted(m, c))
  BY SettlementVerifiedType, StabilizationCheckedType, InitialVerifiedType,
     YieldToSettlementType, InitialRejectedType
    DEF HandleVerificationCompleted

(* handle_staged_state_reset_completed() lowers the barrier, drains, and may exit. *)
LEMMA HandleResetCompletedType ==
  ASSUME NEW m, IsHelper(m), NEW c \in Completion, NEW e \in Env
  PROVE  IsHelper(HandleResetCompleted(m, c, e))
<1> DEFINE ok == c.status = "Ok"
           opened == [m EXCEPT !.reset_pending = FALSE, !.staged_prepared = @ /\ ~ok]
           followed == [opened EXCEPT !.exit_after_reset = @ /\ ~DefersIntent(m)]
           drained == Drain(followed, e)
<1> HIDE DEF ok
<1>1. Typed(opened)
  BY DEF IsHelper, IsRecord, Typed, Fields
<1>2. IsHelper(opened)
  BY <1>1, UpdateIsRecord DEF IsHelper, Fields
<1> HIDE DEF opened
<1>3. Typed(followed)
  BY <1>2 DEF IsHelper, IsRecord, Typed, Fields
<1>4. IsHelper(followed)
  BY <1>2, <1>3, UpdateIsRecord DEF IsHelper, Fields
<1> HIDE DEF followed
<1>5. IsHelper(drained)
  BY <1>4, DrainType
<1> HIDE DEF drained
<1>6a. Typed([opened EXCEPT !.exit_after_reset = FALSE])
  BY <1>2 DEF IsHelper, IsRecord, Typed, Fields
<1>6b. Typed([drained EXCEPT !.exit_after_reset = FALSE])
  BY <1>5 DEF IsHelper, IsRecord, Typed, Fields
<1>7. /\ IsHelper([opened EXCEPT !.exit_after_reset = FALSE])
      /\ IsHelper([drained EXCEPT !.exit_after_reset = FALSE])
  BY <1>2, <1>5, <1>6a, <1>6b, UpdateIsRecord DEF IsHelper, Fields
<1> QED
  BY <1>5, <1>7, ExitHelperType DEF HandleResetCompleted, drained, followed, opened, ok

(* handle_refresh_rate_completed() restarts the ladder or the settlement.       *)
LEMMA HandleRefreshRateCompletedType ==
  ASSUME NEW m, IsHelper(m), NEW c \in Completion, NEW e \in Env
  PROVE  IsHelper(HandleRefreshRateCompleted(m, c, e))
<1> DEFINE freed == ReleaseFence(m)
           rewound == RewindStabilization(CancelOperations(freed))
           rechecked == IF ~RefreshTargetsRequest(m, c.device) THEN freed
                        ELSE IF m.settle_requested THEN ReplaceStabilization(rewound)
                        ELSE ScheduleNextCheck(rewound)
           settled == IF m.settle_requested THEN NextSettle(rechecked) ELSE rechecked
<1>1. IsHelper(freed)
  BY ReleaseFenceType
<1>2. IsHelper(rewound)
  BY <1>1, CancelOperationsType, RewindStabilizationType
<1> HIDE DEF freed, rewound
<1>3. IsHelper(rechecked)
  BY <1>1, <1>2, ReplaceStabilizationType, ScheduleNextCheckType
<1> HIDE DEF rechecked
<1>4. IsHelper(settled)
  BY <1>3, NextSettleType
<1> HIDE DEF settled
<1>5. IsHelper(Drain(freed, e)) /\ IsHelper(Drain(settled, e))
  BY <1>1, <1>4, DrainType
<1> QED
  BY <1>5 DEF HandleRefreshRateCompleted, settled, rechecked, rewound, freed

(* A failed restore goes to the event loop.                                     *)
LEMMA RetryRestoreType ==
  ASSUME NEW m, IsHelper(m), NEW e \in Env
  PROVE  IsHelper(RetryRestore(m, e))
  BY ReleaseFenceType, TransitionType, DrainType
    DEF RetryRestore, States

(* handle_recovery_completed() goes on with the validation or retries.          *)
LEMMA HandleRecoveryCompletedType ==
  ASSUME NEW m, IsHelper(m), NEW c \in Completion, NEW e \in Env
  PROVE  IsHelper(HandleRecoveryCompleted(m, c, e))
<1> DEFINE freed == ReleaseFence(m)
           outcome == IF c.cleared = "none" THEN m.recovery_reset ELSE c.cleared
           reset == [m EXCEPT !.recovery_reset = IF c.cleared = "none" THEN @ ELSE c.cleared]
<1>1. outcome \in {"none", "ok", "failed"}
  BY DEF IsHelper, Typed, Completion
<1>2. reset = [m EXCEPT !.recovery_reset = outcome]
  BY DEF IsHelper, IsRecord, Fields
<1> HIDE DEF outcome, reset
<1>3. Typed([m EXCEPT !.recovery_reset = outcome])
  BY <1>1 DEF IsHelper, IsRecord, Typed, Fields
<1>4. IsHelper(reset)
  BY <1>2, <1>3, UpdateIsRecord DEF IsHelper, Fields
<1>5. IsHelper(freed)
  BY ReleaseFenceType
<1> HIDE DEF freed
<1>6. /\ IsHelper(Drain(RetainAfterCancelledRecovery(freed), e))
      /\ IsHelper(Drain(ResetRequestProgress(freed), e))
      /\ IsHelper(DispatchValidation(Transition(reset, "RecoveryValidation")))
  BY <1>4, <1>5, RetainAfterCancelledRecoveryType, ResetRequestProgressType, DrainType,
     TransitionType, DispatchValidationType DEF States
<1> QED
  BY <1>6, RetryRestoreType DEF HandleRecoveryCompleted, reset, freed

(* A confirmed restore ends the lease, and may wait for a RESET before it exits. *)
LEMMA RestoreConfirmedType ==
  ASSUME NEW m, IsHelper(m), NEW e \in Env
  PROVE  IsHelper(RestoreConfirmed(m, e))
<1> DEFINE failed == m.staged_prepared /\ m.recovery_reset = "failed"
           freed == ResetRequestProgress(ReleaseFence(m))
           lease == [freed EXCEPT
                       !.recovery_armed = FALSE, !.changes_pending = FALSE,
                       !.unconfirmed_mutation = FALSE, !.scheduler = "off", !.os_task = FALSE]
           cleared == [lease EXCEPT
                         !.task_created = FALSE, !.staged_prepared = failed, !.owed = FALSE]
           home == Transition(cleared, "Waiting")
           reset == IF failed THEN BeginStagedStateReset([home EXCEPT !.exit_after_reset = TRUE])
                    ELSE home
           waits == reset.reset_pending \/ DefersReset(reset)
           drained == Drain([reset EXCEPT !.exit_after_reset = waits], e)
<1>1. IsHelper(freed)
  BY ReleaseFenceType, ResetRequestProgressType
<1> HIDE DEF freed
<1>2. Typed(lease)
  BY <1>1 DEF IsHelper, IsRecord, Typed, Fields
<1>3. IsHelper(lease)
  BY <1>1, <1>2, UpdateIsRecord DEF IsHelper, Fields
<1> HIDE DEF lease
<1>4. failed \in BOOLEAN
  BY DEF IsHelper, Typed
<1> HIDE DEF failed
<1>5. Typed(cleared)
  BY <1>3, <1>4 DEF IsHelper, IsRecord, Typed, Fields
<1>6. IsHelper(cleared)
  BY <1>3, <1>5, UpdateIsRecord DEF IsHelper, Fields
<1> HIDE DEF cleared
<1>7. IsHelper(home)
  BY <1>6, TransitionType DEF States
<1> HIDE DEF home
<1>8. Typed([home EXCEPT !.exit_after_reset = TRUE])
  BY <1>7 DEF IsHelper, IsRecord, Typed, Fields
<1>9. IsHelper([home EXCEPT !.exit_after_reset = TRUE])
  BY <1>7, <1>8, UpdateIsRecord DEF IsHelper, Fields
<1>10. IsHelper(reset)
  BY <1>7, <1>9, BeginStagedStateResetType
<1> HIDE DEF reset
<1>11. waits \in BOOLEAN
  BY <1>10 DEF IsHelper, Typed, DefersReset
<1> HIDE DEF waits
<1>12. Typed([reset EXCEPT !.exit_after_reset = waits])
  BY <1>10, <1>11 DEF IsHelper, IsRecord, Typed, Fields
<1>13. IsHelper([reset EXCEPT !.exit_after_reset = waits])
  BY <1>10, <1>12, UpdateIsRecord DEF IsHelper, Fields
<1>14. IsHelper(drained)
  BY <1>13, DrainType
<1> HIDE DEF drained
<1>15. Typed([drained EXCEPT !.exit_after_reset = FALSE])
  BY <1>14 DEF IsHelper, IsRecord, Typed, Fields
<1>16. IsHelper([drained EXCEPT !.exit_after_reset = FALSE])
  BY <1>14, <1>15, UpdateIsRecord DEF IsHelper, Fields
<1>17. RestoreConfirmed(m, e) \in
         {[drained EXCEPT !.exit_after_reset = FALSE], drained, ExitHelper(drained, 0)}
  BY DEF RestoreConfirmed, drained, waits, reset, home, cleared, lease, failed, freed
<1> QED
  BY <1>14, <1>16, <1>17, ExitHelperType

(* handle_recovery_validation_completed() keeps the memory well-typed.          *)
LEMMA HandleValidationCompletedType ==
  ASSUME NEW m, IsHelper(m), NEW c, NEW e \in Env
  PROVE  IsHelper(HandleValidationCompleted(m, c, e))
  BY ReleaseFenceType, RetainAfterCancelledRecoveryType, DrainType, RestoreConfirmedType,
     RetryRestoreType
    DEF HandleValidationCompleted

(* Every completion handler keeps the helper's memory well-typed.                  *)
LEMMA HandleCompletionType ==
  ASSUME NEW m, IsHelper(m), NEW c \in Completion, NEW e \in Env
  PROVE  IsHelper(HandleCompletion(m, c, e))
<1>1. c.kind \in {"Apply", "RefreshRate", "Recovery", "Validation", "Verification", "Reset"}
  BY DEF Completion, TaskKinds, WorkerKinds
<1> QED
  BY <1>1, HandleApplyCompletedType, HandleVerificationCompletedType, HandleResetCompletedType,
     HandleRefreshRateCompletedType, HandleRecoveryCompletedType, HandleValidationCompletedType
     DEF HandleCompletion

(* retarget_virtual_display_request() names the device that the driver reports. *)
LEMMA RetargetType ==
  ASSUME NEW m, IsHelper(m), NEW e \in Env
  PROVE  IsHelper(Retarget(m, e))
<1> DEFINE request == [m.request EXCEPT !.device = e.device]
<1>1. request \in Request
  BY DEF IsHelper, Typed, Request, Env
<1> HIDE DEF request
<1>2. Typed([m EXCEPT !.request = request])
  BY <1>1 DEF IsHelper, IsRecord, Typed, Fields
<1>3. IsHelper([m EXCEPT !.request = request])
  BY <1>2, UpdateIsRecord DEF IsHelper, Fields
<1> QED
  BY <1>3 DEF Retarget, request

(* The repair that the helper queues for itself is a Command.                   *)
LEMMA RestartAfterMutationType ==
  ASSUME NEW m, IsHelper(m), NEW e \in Env
  PROVE  IsHelper(RestartAfterMutation(m, e))
<1> DEFINE r == Retarget(m, e)
<1>1. IsHelper(r)
  BY RetargetType
<1> HIDE DEF r
<1>2. RestartCommand(r) \in Command
  BY <1>1 DEF RestartCommand, Command, IsHelper, Typed
<1> QED
  BY <1>1, <1>2, SupersedeType DEF RestartAfterMutation, r

(* A display event while a virtual display is monitored,                        *)
LEMMA MonitoredEventType ==
  ASSUME NEW m, IsHelper(m), NEW e \in Env
  PROVE  IsHelper(MonitoredEvent(m, e))
<1>1a. Typed([m EXCEPT !.check_pending = TRUE])
  BY DEF IsHelper, IsRecord, Typed, Fields
<1>1. IsHelper([m EXCEPT !.check_pending = TRUE])
  BY <1>1a, UpdateIsRecord
    DEF IsHelper, Fields
<1> DEFINE n0 == RewindStabilization(Retarget(CancelOperations(m), e))
<1>2a. IsHelper(n0)
  BY CancelOperationsType, RetargetType, RewindStabilizationType
<1> HIDE DEF n0
<1>2b. Typed([n0 EXCEPT !.attempt = 1])
  BY <1>2a
    DEF IsHelper, IsRecord, Typed, Fields
<1>2. IsHelper([n0 EXCEPT !.attempt = 1])
  BY <1>2a, <1>2b, UpdateIsRecord
    DEF IsHelper, Fields

<1>3. IsHelper(DispatchApply(Transition([n0 EXCEPT !.attempt = 1], "InProgress")))
  BY <1>2, TransitionType, DispatchApplyType DEF States
<1> QED
  BY <1>1, <1>3, RestartAfterMutationType, DispatchVerificationType DEF MonitoredEvent, n0, Purposes

(* while its APPLY or verification runs,                                        *)
LEMMA ApplyingEventType ==
  ASSUME NEW m, IsHelper(m), NEW e \in Env
  PROVE  IsHelper(ApplyingEvent(m, e))
<1> DEFINE n0 == CancelOperations(m)
<1>1a. IsHelper(n0)
  BY CancelOperationsType
<1> HIDE DEF n0
<1>1b. Typed([n0 EXCEPT !.attempt = 1])
  BY <1>1a
    DEF IsHelper, IsRecord, Typed, Fields
<1>1. IsHelper([n0 EXCEPT !.attempt = 1])
  BY <1>1a, <1>1b, UpdateIsRecord
    DEF IsHelper, Fields

<1>2. IsHelper(Retarget(RewindStabilization([n0 EXCEPT !.attempt = 1]), e))
  BY <1>1, RewindStabilizationType, RetargetType
<1>3. IsHelper(DispatchApply(Transition(
        Retarget(RewindStabilization([n0 EXCEPT !.attempt = 1]), e), "InProgress")))
  BY <1>2, TransitionType, DispatchApplyType DEF States
<1> QED
  BY <1>3, RestartAfterMutationType DEF ApplyingEvent, n0

(* and in any other state keeps the memory well-typed.                          *)
LEMMA HandleDisplayEventType ==
  ASSUME NEW m, IsHelper(m), NEW e \in Env
  PROVE  IsHelper(HandleDisplayEvent(m, e))
<1>1a. Typed([m EXCEPT !.scheduler = "open"])
  BY DEF IsHelper, IsRecord, Typed, Fields
<1>1. IsHelper([m EXCEPT !.scheduler = "open"])
  BY <1>1a, UpdateIsRecord
    DEF IsHelper, Fields
<1> QED
  BY <1>1, MonitoredEventType, ApplyingEventType, StartRecoveryType
    DEF HandleDisplayEvent

(* So does the end of the restore window,                                       *)
LEMMA TickExpireType ==
  ASSUME NEW m, IsHelper(m)
  PROVE  IsHelper(TickExpire(m))
<1>1. Typed(TickExpire(m))
  BY DEF IsHelper, IsRecord, Typed, Fields, TickExpire
<1> QED
  BY <1>1, UpdateIsRecord
    DEF IsHelper, Fields, TickExpire

(* begin_transient_disconnect_settlement(),                                     *)
LEMMA BeginSettlementType ==
  ASSUME NEW m, IsHelper(m)
  PROVE  IsHelper(BeginSettlement(m))
<1> DEFINE replaced == IF WorkerActive(m) THEN m ELSE ReplaceStabilization(m)
<1>1. IsHelper(replaced)
  BY ReplaceStabilizationType
<1> HIDE DEF replaced
<1>2. Typed([replaced EXCEPT !.settle_requested = TRUE])
  BY <1>1 DEF IsHelper, IsRecord, Typed, Fields
<1>3. IsHelper([replaced EXCEPT !.settle_requested = TRUE])
  BY <1>1, <1>2, UpdateIsRecord DEF IsHelper, Fields
<1> QED
  BY <1>3, NextSettleType DEF BeginSettlement, replaced

(* the REVERT that the helper sends to itself, on a disconnect or in restore mode, *)
LEMMA DisconnectRevertType ==
  /\ DisconnectRevert \in Command
  /\ [DisconnectRevert EXCEPT !.from_disconnect = FALSE] \in Command
<1>1. NoRequest \in Request
  BY DeviceAssumption DEF NoRequest, Request, Devices
<1> QED
  BY <1>1 DEF DisconnectRevert, Command

(* and the main loop's reaction to a lost connection.                           *)
LEMMA HandleDisconnectType ==
  ASSUME NEW m, IsHelper(m), NEW epoch \in Int
  PROVE  IsHelper(HandleDisconnect(m, epoch))
<1> DEFINE down == [m EXCEPT !.link = "down"]
<1>1. Typed(down)
  BY DEF IsHelper, IsRecord, Typed, Fields
<1>2. IsHelper(down)
  BY <1>1, UpdateIsRecord DEF IsHelper, Fields
<1> HIDE DEF down
<1>3. Typed([down EXCEPT !.restore_origin = epoch])
  BY <1>2 DEF IsHelper, IsRecord, Typed, Fields
<1>4. IsHelper([down EXCEPT !.restore_origin = epoch])
  BY <1>2, <1>3, UpdateIsRecord DEF IsHelper, Fields
<1> QED
  BY <1>2, <1>4, DisconnectRevertType, BeginSettlementType, HandleRevertCommandType
     DEF HandleDisconnect, down

(* A StateMachine starts well-typed, whatever disk and desktop it finds.        *)
LEMMA FreshHelperType ==
  ASSUME NEW snapshot \in BOOLEAN, NEW osTask \in BOOLEAN, NEW owed \in BOOLEAN,
         NEW verdict \in [RequestIds -> {"none", "ok", "failed"}]
  PROVE  IsHelper(FreshHelper(snapshot, osTask, owed, verdict))
<1>1. NoRequest \in Request
  BY DeviceAssumption DEF NoRequest, Request, Devices
<1>2. NoWorker \in Worker
  BY DEF NoWorker, Worker
<1>3. Typed(FreshHelper(snapshot, osTask, owed, verdict))
  BY <1>1, <1>2 DEF FreshHelper, Typed, States
<1>4. IsRecord(FreshHelper(snapshot, osTask, owed, verdict))
  BY DEF FreshHelper, IsRecord, Fields
<1> QED
  BY <1>3, <1>4 DEF IsHelper

--------------------------------------------------------------------------------
(* The process: every action keeps every variable well-typed.                      *)

(* The first process starts well-typed.                                         *)
LEMMA InitTypeOK == Init => TypeOK
<1> SUFFICES ASSUME Init PROVE TypeOK
  OBVIOUS
<1>1. IsHelper(h)
  BY FreshHelperType DEF Init
<1>2. h \in Helper
  BY <1>1, IsHelperInHelper
<1>3. left \in [DOMAIN Bounds -> Nat] /\ left.apply <= MaxApplies
  BY BoundsAssumption, AppliesAssumption DEF Init, Bounds
<1>4. desk \in 0..Mixed /\ vdd \in Devices
  BY AppliesAssumption, DeviceAssumption DEF Init, Home, Mixed, Devices
<1>5. running \in Run \cup {Idle} /\ mail \in Seq(Completion)
  BY DEF Init
<1> QED
  BY <1>2, <1>3, <1>4, <1>5 DEF TypeOK

(* What TypeOK says of the helper's memory, member by member.                   *)
LEMMA TypedMemory ==
  ASSUME TypeOK
  PROVE  IsHelper(h) /\ Typed(h)
  BY HelperIsHelper DEF TypeOK, IsHelper

(* What the surroundings answer is well-typed.                                     *)
LEMMA SurroundingsType ==
  ASSUME TypeOK
  PROVE  Surroundings \subseteq Env
  BY OutcomesAssumption DEF Surroundings, Env, TypeOK

(* A bound that is spent stays a number.                                        *)
LEMMA SpendType ==
  ASSUME TypeOK, NEW what \in DOMAIN Bounds, Spend(what)
  PROVE  left' \in [DOMAIN Bounds -> Nat] /\ left'.apply <= MaxApplies
<1>1. left \in [DOMAIN Bounds -> Nat] /\ left.apply <= MaxApplies /\ left[what] > 0
  BY DEF TypeOK, Spend
<1>2. "apply" \in DOMAIN Bounds
  BY DEF Bounds
<1>3. left' = [left EXCEPT ![what] = @ - 1]
  BY DEF Spend
<1> QED
  BY <1>1, <1>2, <1>3, AppliesAssumption

(* What a client sends is a Command ...                                         *)
LEMMA ClientCommandType ==
  ASSUME TypeOK, NEW type \in {"APPLY", "REVERT", "DISARM", "RESET"}, NEW request \in Request
  PROVE  ClientCommand(type, request) \in Command
  BY TypedMemory DEF ClientCommand, Command, Typed

(* (one without a request included)                                             *)
LEMMA NoRequestType == NoRequest \in Request
  BY DeviceAssumption DEF NoRequest, Request, Devices

(* ... and the request of an APPLY is a Request, numbered among RequestIds.      *)
LEMMA ClientApplyType ==
  ASSUME TypeOK, ClientApply
  PROVE  \E request \in Request, e \in Env :
           h' = HandleApplyCommand(h, ClientCommand("APPLY", request), e)
<1>1. PICK shape \in RequestShapes, e \in Surroundings :
        LET request == [id |-> MaxApplies - left.apply + 1, configured |-> TRUE,
                        device |-> IF shape.virtual THEN vdd ELSE 0,
                        virtual |-> shape.virtual, hdr |-> shape.hdr,
                        restore_on_disconnect |-> shape.restore_on_disconnect,
                        omit_final_hdr |-> shape.omit_final_hdr]
        IN h' = HandleApplyCommand(h, ClientCommand("APPLY", request), e)
  BY DEF ClientApply
<1> DEFINE request == [id |-> MaxApplies - left.apply + 1, configured |-> TRUE,
                       device |-> IF shape.virtual THEN vdd ELSE 0,
                       virtual |-> shape.virtual, hdr |-> shape.hdr,
                       restore_on_disconnect |-> shape.restore_on_disconnect,
                       omit_final_hdr |-> shape.omit_final_hdr]
<1>2. MaxApplies - left.apply + 1 \in RequestIds
  <2>1. left.apply \in Nat /\ left.apply <= MaxApplies
    BY DEF TypeOK, Bounds
  <2>2. left.apply > 0
    BY DEF ClientApply, Spend
  <2> QED
    BY <2>1, <2>2, AppliesAssumption DEF RequestIds
<1>3. vdd \in Devices /\ 0 \in Devices
  BY DeviceAssumption DEF TypeOK, Devices
<1>4. shape \in RequestShape
  BY ShapesAssumption
<1>5. request \in Request
  BY <1>2, <1>3, <1>4 DEF Request, RequestShape
<1> HIDE DEF request
<1>6. e \in Env
  BY SurroundingsType
<1>7. h' = HandleApplyCommand(h, ClientCommand("APPLY", request), e)
  BY <1>1 DEF request
<1> QED
  BY <1>5, <1>6, <1>7

(* Every command of a client keeps every variable well-typed; the ids of APPLYs stay known. *)
LEMMA ClientTypeOK ==
  ASSUME TypeOK, Client
  PROVE  TypeOK'
<1>1. /\ IsHelper(h) /\ Typed(h)
      /\ UNCHANGED <<running, mail, desk, vdd>>
  BY TypedMemory DEF Client, ClientApply, ClientRevert, ClientDisarm, ClientReset,
     ClientRefreshRate, ClientCapture, FromClient
<1>4. ASSUME NEW type \in {"REVERT", "DISARM", "RESET"}
      PROVE  ClientCommand(type, NoRequest) \in Command
  BY ClientCommandType, NoRequestType
<1>5. SUFFICES IsHelper(h') /\ left' \in [DOMAIN Bounds -> Nat] /\ left'.apply <= MaxApplies
  BY <1>1, IsHelperInHelper DEF TypeOK
<1>6. left' \in [DOMAIN Bounds -> Nat] /\ left'.apply <= MaxApplies
  BY SpendType DEF Client, ClientApply, ClientRevert, ClientDisarm, ClientReset,
     ClientRefreshRate, ClientCapture, Bounds
<1>7. CASE ClientApply
  <2>1. PICK request \in Request, e \in Env :
          h' = HandleApplyCommand(h, ClientCommand("APPLY", request), e)
    BY <1>7, ClientApplyType
  <2>2. ClientCommand("APPLY", request) \in Command
    BY ClientCommandType
  <2> QED
    BY <1>1, <1>6, <2>1, <2>2, HandleApplyCommandType
<1>8. CASE ClientRevert
  <2>1. Typed([h EXCEPT !.restore_origin = h.epoch])
    BY <1>1 DEF IsHelper, IsRecord, Typed, Fields
  <2>2. IsHelper([h EXCEPT !.restore_origin = h.epoch])
    BY <1>1, <2>1, UpdateIsRecord DEF IsHelper, Fields
  <2> QED
    BY <1>4, <1>6, <1>8, <2>2, HandleRevertCommandType DEF ClientRevert
<1>9. CASE ClientDisarm
  BY <1>1, <1>4, <1>6, <1>9, HandleDisarmCommandType DEF ClientDisarm
<1>10. CASE ClientReset
  BY <1>1, <1>4, <1>6, <1>10, HandleResetCommandType DEF ClientReset
<1>11. CASE ClientRefreshRate
  <2>1. {0, vdd} \subseteq Devices
    BY DeviceAssumption DEF TypeOK, Devices
  <2> QED
    BY <1>1, <1>6, <1>11, <2>1, HandleRefreshRateCommandType DEF ClientRefreshRate
<1>12. CASE ClientCapture
  BY <1>1, <1>6, <1>12, SurroundingsType, HandleCaptureType DEF ClientCapture
<1> QED
  BY <1>7, <1>8, <1>9, <1>10, <1>11, <1>12 DEF Client

(* So does a connection that comes or goes,                                     *)
LEMMA ConnectionTypeOK ==
  ASSUME TypeOK, Connection
  PROVE  TypeOK'
<1>1. IsHelper(h) /\ Typed(h) /\ UNCHANGED <<running, mail, desk, vdd>>
  BY TypedMemory DEF Connection, Connect, Break, NoticeDisconnect
<1>2. SUFFICES IsHelper(h') /\ left' \in [DOMAIN Bounds -> Nat] /\ left'.apply <= MaxApplies
  BY <1>1, IsHelperInHelper DEF TypeOK
<1>3. left' \in [DOMAIN Bounds -> Nat] /\ left'.apply <= MaxApplies
  BY SpendType DEF Connection, Connect, Break, NoticeDisconnect, TypeOK, Bounds
<1>4. ASSUME NEW link \in {"up", "broken"}
      PROVE  IsHelper([h EXCEPT !.link = link, !.epoch = @ + 1])
  <2>1. Typed([h EXCEPT !.link = link, !.epoch = @ + 1])
    BY <1>1 DEF IsHelper, IsRecord, Typed, Fields
  <2> QED
    BY <1>1, <2>1, UpdateIsRecord DEF IsHelper, Fields
<1>5. CASE Connect
  BY <1>3, <1>4, <1>5 DEF Connect
<1>6. CASE Break
  BY <1>3, <1>4, <1>6 DEF Break
<1>7. CASE NoticeDisconnect
  <2>1. h.epoch - 1 \in Int
    BY <1>1 DEF Typed
  <2>2. IsHelper(HandleDisconnect(h, h.epoch - 1))
    BY <1>1, <2>1, HandleDisconnectType
  <2> QED
    BY <1>3, <1>7, <2>2 DEF NoticeDisconnect
<1> QED
  BY <1>5, <1>6, <1>7 DEF Connection

(* Taking a completion out of the mailbox, and posting one.                        *)
LEMMA MainLoopTypeOK ==
  ASSUME TypeOK, GraceEnds \/ HandleMail \/ DisplayChange \/ Tick \/ TimerFires
  PROVE  TypeOK'
<1>1. IsHelper(h) /\ Typed(h) /\ UNCHANGED <<running, desk>>
  BY TypedMemory DEF GraceEnds, HandleMail, DisplayChange, Tick, TimerFires
<1>2. CASE GraceEnds
  <2>1. Typed([h EXCEPT !.last_apply = "old"])
    BY <1>1 DEF IsHelper, IsRecord, Typed, Fields
  <2>2. IsHelper([h EXCEPT !.last_apply = "old"])
    BY <1>1, <2>1, UpdateIsRecord DEF IsHelper, Fields
  <2> QED
    BY <1>1, <1>2, <2>2, IsHelperInHelper DEF GraceEnds, TypeOK
<1>3. CASE HandleMail
  <2>1. mail \in Seq(Completion) /\ mail # <<>> /\ mail' = Tail(mail)
    BY <1>3 DEF HandleMail, TakeMail, TypeOK
  <2>2. Head(mail) \in Completion /\ mail' \in Seq(Completion)
    BY <2>1
  <2>3. PICK e \in Surroundings : h' = HandleCompletion(h, Head(mail), e)
    BY <1>3 DEF HandleMail
  <2>4. IsHelper(h')
    BY <1>1, <2>2, <2>3, SurroundingsType, HandleCompletionType
  <2> QED
    BY <1>1, <1>3, <2>2, <2>4, IsHelperInHelper DEF HandleMail, TypeOK
<1>4. CASE DisplayChange
  <2>1. vdd' \in Devices
    BY <1>4 DEF DisplayChange, TypeOK
  <2>2. [task: TaskOutcomes, capture: CaptureOutcomes, device: {vdd'}] \subseteq Env
    BY <2>1, OutcomesAssumption DEF Env
  <2>3. IsHelper(h')
    BY <1>1, <1>4, <2>2, HandleDisplayEventType DEF DisplayChange
  <2>4. left' \in [DOMAIN Bounds -> Nat] /\ left'.apply <= MaxApplies
    BY <1>4, SpendType DEF DisplayChange, TypeOK, Bounds
  <2> QED
    BY <1>1, <1>4, <2>1, <2>3, <2>4, IsHelperInHelper DEF DisplayChange, TypeOK
<1>5. CASE Tick
  <2>1. IsHelper(h')
    BY <1>1, <1>5, StartRecoveryType, TickExpireType DEF Tick, TickAttempt
  <2> QED
    BY <1>1, <1>5, <2>1, IsHelperInHelper DEF Tick, TypeOK
<1>6. CASE TimerFires
  <2> DEFINE popped == [h EXCEPT !.timers = Tail(@)]
  <2>1. Head(h.timers) \in Task /\ Tail(h.timers) \in Seq(Task)
    BY <1>1, <1>6 DEF TimerFires, Typed
  <2>2. Typed(popped)
    BY <1>1, <2>1 DEF IsHelper, IsRecord, Typed, Fields
  <2>3. IsHelper(popped)
    BY <1>1, <2>2, UpdateIsRecord DEF IsHelper, Fields
  <2>4. IsHelper(h')
    BY <1>6, <2>1, <2>3, EnqueueType DEF TimerFires
  <2> QED
    BY <1>1, <1>6, <2>4, IsHelperInHelper DEF TimerFires, TypeOK
<1> QED
  BY <1>2, <1>3, <1>4, <1>5, <1>6

(* (the completion that a task posts is a Completion)                           *)
LEMMA PostType ==
  ASSUME TypeOK, running # Idle, NEW status \in Statuses, NEW changed \in BOOLEAN,
         NEW cleared \in {"none", "ok", "failed"}, Post(status, changed, cleared)
  PROVE  /\ mail' \in Seq(Completion) /\ running' \in Run \cup {Idle}
         /\ UNCHANGED <<vdd, left>>
<1>1. running \in Run /\ mail \in Seq(Completion)
  BY DEF TypeOK
<1> DEFINE c == [kind |-> running.task.kind, generation |-> running.task.generation,
                 request |-> running.task.request, virtual |-> running.task.virtual,
                 device |-> running.task.device, purpose |-> running.task.purpose,
                 status |-> status, changed |-> changed, durable |-> running.durable,
                 staged |-> running.staged, cleared |-> cleared]
<1>2. c \in Completion
  BY <1>1 DEF Run, Task, Completion
<1> HIDE DEF c
<1>3. Append(mail, c) \in Seq(Completion)
  BY <1>1, <1>2
<1> QED
  BY <1>3 DEF Post, c

(* every step of the worker thread,                                             *)
LEMMA WorkerThreadTypeOK ==
  ASSUME TypeOK, WorkerThread
  PROVE  TypeOK'
<1>1. /\ IsHelper(h) /\ Typed(h)
      /\ Home \in 0..Mixed /\ Mixed \in 0..Mixed /\ RequestIds \subseteq 0..Mixed /\ 0 \in 0..Mixed
  BY TypedMemory, AppliesAssumption DEF Home, Mixed, RequestIds
<1>2. /\ desk \in 0..Mixed /\ mail \in Seq(Completion) /\ vdd \in Devices
      /\ running \in Run \cup {Idle}
      /\ left \in [DOMAIN Bounds -> Nat] /\ left.apply <= MaxApplies
  BY DEF TypeOK
<1>3. CASE TakeTask
  <2>1. Head(h.tasks) \in Task /\ Tail(h.tasks) \in Seq(Task)
    BY <1>1, <1>3 DEF TakeTask, Typed
  <2>2. h.owed \in BOOLEAN
    BY <1>1 DEF Typed
  <2>3. running' \in Run
    BY <1>2, <1>3, <2>1, <2>2 DEF TakeTask, Run, Phases
  <2>4. Typed([h EXCEPT !.tasks = Tail(@)])
    BY <1>1, <2>1 DEF IsHelper, IsRecord, Typed, Fields
  <2>5. IsHelper([h EXCEPT !.tasks = Tail(@)])
    BY <1>1, <2>4, UpdateIsRecord DEF IsHelper, Fields
  <2> QED
    BY <1>2, <1>3, <2>3, <2>5, IsHelperInHelper DEF TakeTask, TypeOK
<1>4. CASE ApplyStages \/ ApplyArms \/ ApplyMutates \/ RecoveryEnters \/ RecoveryBegins
  <2>1. running \in Run
    BY <1>2, <1>4 DEF ApplyStages, ApplyArms, ApplyMutates, RecoveryEnters, RecoveryBegins, Working
  <2>2. running' \in Run
    BY ZenonT(60), <1>4, <2>1, OutcomesAssumption
       DEF ApplyStages, ApplyArms, ApplyMutates, RecoveryEnters, RecoveryBegins, Run, Phases
  <2>3. h' \in {h, [h EXCEPT !.os_task = TRUE], [h EXCEPT !.os_task = @ \/ FALSE],
                [h EXCEPT !.owed = TRUE], [h EXCEPT !.restore_unconfirmed = TRUE]}
    BY <1>4, OutcomesAssumption
       DEF ApplyStages, ApplyArms, ApplyMutates, RecoveryEnters, RecoveryBegins
  <2>4. ASSUME NEW n \in {[h EXCEPT !.os_task = TRUE], [h EXCEPT !.os_task = @ \/ FALSE],
                          [h EXCEPT !.owed = TRUE], [h EXCEPT !.restore_unconfirmed = TRUE]}
        PROVE  IsHelper(n)
    <3>1. /\ Typed([h EXCEPT !.os_task = TRUE]) /\ Typed([h EXCEPT !.owed = TRUE])
          /\ Typed([h EXCEPT !.restore_unconfirmed = TRUE])
      BY <1>1 DEF IsHelper, IsRecord, Typed, Fields
    <3>2. Typed([h EXCEPT !.os_task = @ \/ FALSE])
      BY <1>1 DEF IsHelper, IsRecord, Typed, Fields
    <3>3. IsRecord(n)
      BY <1>1, UpdateIsRecord DEF IsHelper, Fields
    <3> QED
      BY <3>1, <3>2, <3>3 DEF IsHelper
  <2>5. h' \in Helper
    BY <1>1, <2>3, <2>4, IsHelperInHelper
  <2>6. desk' \in 0..Mixed /\ UNCHANGED <<mail, vdd, left>>
    BY <1>1, <1>2, <1>4 DEF ApplyStages, ApplyArms, ApplyMutates, RecoveryEnters, RecoveryBegins
  <2> QED
    BY <1>2, <2>2, <2>5, <2>6 DEF TypeOK
<1>5. CASE ApplyLands \/ ApplyFails \/ RecoverySkipped \/ RecoveryRestores \/ RecoveryFails
           \/ ValidationEnds \/ VerificationEnds \/ RefreshRateEnds \/ ResetEnds
  <2>1. running # Idle /\ running \in Run
    BY <1>2, <1>5 DEF ApplyLands, ApplyFails, RecoverySkipped, RecoveryRestores, RecoveryFails,
       ValidationEnds, VerificationEnds, RefreshRateEnds, ResetEnds, Working
  <2>2. running.changed \in BOOLEAN /\ running.task.request \in 0..Mixed
    BY <1>1, <2>1 DEF Run, Task
  <2>3. \E status \in Statuses, changed \in BOOLEAN, cleared \in {"none", "ok", "failed"} :
           Post(status, changed, cleared)
    BY <1>5, <2>2 DEF ApplyLands, ApplyFails, RecoverySkipped, RecoveryRestores, RecoveryFails,
       ValidationEnds, VerificationEnds, RefreshRateEnds, ResetEnds, Statuses
  <2>4. mail' \in Seq(Completion) /\ running' \in Run \cup {Idle} /\ UNCHANGED <<vdd, left>>
    BY <2>1, <2>3, PostType
  <2>5. desk' \in 0..Mixed /\ h' = h
    BY <1>1, <1>2, <1>5, <2>2 DEF ApplyLands, ApplyFails, RecoverySkipped, RecoveryRestores,
       RecoveryFails, ValidationEnds, VerificationEnds, RefreshRateEnds, ResetEnds
  <2> QED
    BY <1>2, <2>4, <2>5 DEF TypeOK
<1>6. CASE ApplyRollsBack
  <2>1. running # Idle /\ running \in Run
    BY <1>2, <1>6 DEF ApplyRollsBack, Working
  <2>2. running.owed \in BOOLEAN /\ running.desk \in 0..Mixed
    BY <2>1 DEF Run
  <2>3. mail' \in Seq(Completion) /\ running' \in Run \cup {Idle} /\ UNCHANGED <<vdd, left>>
    BY <1>6, <2>1, PostType DEF ApplyRollsBack, Statuses
  <2>4. Typed([h EXCEPT !.owed = running.owed])
    BY <1>1, <2>2 DEF IsHelper, IsRecord, Typed, Fields
  <2>5. IsHelper([h EXCEPT !.owed = running.owed])
    BY <1>1, <2>4, UpdateIsRecord DEF IsHelper, Fields
  <2> QED
    BY <1>2, <1>6, <2>2, <2>3, <2>5, IsHelperInHelper DEF ApplyRollsBack, TypeOK
<1> QED
  BY <1>3, <1>4, <1>5, <1>6 DEF WorkerThread

(* and a process that replaces the crashed one.                                 *)
LEMMA RelaunchTypeOK ==
  ASSUME TypeOK, Relaunch
  PROVE  TypeOK'
<1>1. Typed(h)
  BY TypedMemory
<1>2. IsHelper(NextProcess)
  BY <1>1, FreshHelperType DEF NextProcess, Typed
<1> DEFINE restore == [NextProcess EXCEPT !.link = "restore_mode"]
<1>3. Typed(restore)
  BY <1>2 DEF IsHelper, IsRecord, Typed, Fields
<1>4. IsHelper(restore)
  BY <1>2, <1>3, UpdateIsRecord DEF IsHelper, Fields
<1> HIDE DEF restore
<1>6. IsHelper(HandleRevertCommand(restore, [DisconnectRevert EXCEPT !.from_disconnect = FALSE]))
  BY <1>4, DisconnectRevertType, HandleRevertCommandType
<1>7. IsHelper(h')
  BY <1>2, <1>6 DEF Relaunch, restore
<1>8. left' \in [DOMAIN Bounds -> Nat] /\ left'.apply <= MaxApplies
  BY SpendType DEF Relaunch, Bounds
<1> QED
  BY <1>7, <1>8, IsHelperInHelper DEF Relaunch, TypeOK

(* TypeOK is inductive.                                                         *)
LEMMA NextTypeOK == TypeOK /\ [Next]_vars => TypeOK'
<1> SUFFICES ASSUME TypeOK, [Next]_vars PROVE TypeOK'
  OBVIOUS
<1>1. CASE Client
  BY <1>1, ClientTypeOK
<1>2. CASE Connection
  BY <1>2, ConnectionTypeOK
<1>3. CASE GraceEnds \/ HandleMail \/ DisplayChange \/ Tick \/ TimerFires
  BY <1>3, MainLoopTypeOK
<1>4. CASE WorkerThread
  BY <1>4, WorkerThreadTypeOK
<1>5. CASE Relaunch
  BY <1>5, RelaunchTypeOK
<1>6. CASE UNCHANGED vars
  BY <1>6 DEF vars, TypeOK
<1> QED
  BY <1>1, <1>2, <1>3, <1>4, <1>5, <1>6 DEF Next

(* Every variable always has its type: whatever sequence of commands, completions,  *)
(* display events, crashes and cancellations the helper meets, its handlers leave   *)
(* a well-formed StateMachine, and the counters of the settling ladders stay within *)
(* their bounds.                                                                    *)
THEOREM TypeCorrect == Spec => []TypeOK
<1>1. Init => TypeOK
  BY InitTypeOK
<1>2. TypeOK /\ [Next]_vars => TypeOK'
  BY NextTypeOK
<1> QED
  BY <1>1, <1>2, PTL DEF Spec

(*----------------------------- RestoreStaysAlive ----------------------------------*)
(* RetryAlive is not inductive: a recovery that fails goes to the event loop with   *)
(* the lease and the scheduler it finds, and a REVERT that finds no snapshot clears *)
(* both without leaving the event loop.  RestoreKept adds what rules this out.  It  *)
(* reads six members of the memory, so most operators keep it by leaving those be.  *)

(* The inductive invariant.  A restore has a snapshot to return to, so no REVERT    *)
(* gives it up; nobody works while the event loop waits, so no DISARM parks behind  *)
(* a worker there; and a recovery worker whose generation is still current has its  *)
(* lease and its scheduler: whoever takes them away cancels it in the same step.    *)
RestoreKept(m) ==
    /\ RestorePending(m) => m.recovery_armed /\ m.snapshot
    /\ m.state = "EventLoop" => m.scheduler # "off" /\ m.worker = NoWorker
    /\ m.worker.kind = "Recovery" =>
         /\ m.worker.generation \in 0..m.generation
         /\ m.worker.generation = m.generation =>
              m.recovery_armed /\ m.snapshot /\ m.scheduler # "off"

(* The members RestoreKept reads, and the queue that a drain takes commands from.  *)
Watched == {"state", "worker", "recovery_armed", "snapshot", "scheduler", "generation",
            "deferred"}
Sound(m) ==
    /\ IsRecord(m) /\ m.generation \in Nat /\ m.deferred \in Seq(Command)
    /\ RestoreKept(m)

(* An assignment to any other member keeps a memory sound, and leaves its state.    *)
LEMMA UpdateSound ==
  ASSUME NEW m, Sound(m), NEW f \in Fields \ Watched, NEW v
  PROVE  Sound([m EXCEPT ![f] = v]) /\ [m EXCEPT ![f] = v].state = m.state
<1> DEFINE n == [m EXCEPT ![f] = v]
<1>1. IsRecord(n)
  BY UpdateIsRecord DEF Sound
<1>2. \A g \in Watched : n[g] = m[g]
  BY DEF Sound, IsRecord, Fields, Watched
<1>3. /\ n.state = m.state /\ n.worker = m.worker /\ n.recovery_armed = m.recovery_armed
      /\ n.snapshot = m.snapshot /\ n.scheduler = m.scheduler
      /\ n.generation = m.generation /\ n.deferred = m.deferred
  BY <1>2 DEF Watched
<1> HIDE DEF n
<1>4. Sound(n) /\ n.state = m.state
  BY <1>1, <1>3 DEF Sound, RestoreKept, RestorePending
<1> QED
  BY <1>4 DEF n

(* A transition out of the restore, or within the session, keeps a memory sound.    *)
LEMMA TransitionSound ==
  ASSUME NEW m, Sound(m), NEW next, next \notin RestoreStates
  PROVE  Sound(Transition(m, next)) /\ Transition(m, next).state = next
<1> DEFINE n == Transition(m, next)
<1>1. IsRecord(n)
  BY UpdateIsRecord DEF Sound, Transition, Fields
<1>2. /\ n.state = next /\ n.worker = m.worker /\ n.recovery_armed = m.recovery_armed
      /\ n.snapshot = m.snapshot /\ n.scheduler = m.scheduler
      /\ n.generation = m.generation /\ n.deferred = m.deferred
  BY DEF Sound, IsRecord, Fields, Transition
<1>3. ~RestorePending(n) /\ n.state # "EventLoop"
  BY <1>2 DEF RestorePending, RestoreStates
<1> HIDE DEF n
<1>4. Sound(n) /\ n.state = next
  BY <1>1, <1>2, <1>3 DEF Sound, RestoreKept
<1> QED
  BY <1>4 DEF n

(* cancel_operations() makes the worker's generation a past one.                    *)
LEMMA CancelOperationsSound ==
  ASSUME NEW m, Sound(m)
  PROVE  Sound(CancelOperations(m)) /\ CancelOperations(m).state = m.state
<1> DEFINE n == CancelOperations(m)
<1>1. IsRecord(n)
  BY UpdateIsRecord DEF Sound, CancelOperations, Fields
<1>2. /\ n.state = m.state /\ n.worker = m.worker /\ n.recovery_armed = m.recovery_armed
      /\ n.snapshot = m.snapshot /\ n.scheduler = m.scheduler
      /\ n.generation = m.generation + 1 /\ n.deferred = m.deferred
  BY DEF Sound, IsRecord, Fields, CancelOperations
<1>3. n.worker.kind = "Recovery" =>
        n.worker.generation \in 0..m.generation /\ m.generation \in Nat
  BY <1>2 DEF Sound, RestoreKept
<1> QED
  BY <1>1, <1>2, <1>3 DEF Sound, RestoreKept, RestorePending

(* active_mutation_worker_.reset() leaves nobody at work.                           *)
LEMMA ReleaseFenceSound ==
  ASSUME NEW m, Sound(m)
  PROVE  Sound(ReleaseFence(m)) /\ ReleaseFence(m).state = m.state
<1> DEFINE n == ReleaseFence(m)
<1>1. IsRecord(n)
  BY UpdateIsRecord DEF Sound, ReleaseFence, Fields
<1>2. /\ n.state = m.state /\ n.worker = NoWorker /\ n.recovery_armed = m.recovery_armed
      /\ n.snapshot = m.snapshot /\ n.scheduler = m.scheduler
      /\ n.generation = m.generation /\ n.deferred = m.deferred
  BY DEF Sound, IsRecord, Fields, ReleaseFence
<1> QED
  BY <1>1, <1>2 DEF Sound, RestoreKept, RestorePending, NoWorker

(* A fence of another kind than a recovery's, raised outside the event loop.        *)
LEMMA FenceSound ==
  ASSUME NEW m, Sound(m), m.state # "EventLoop", NEW kind, kind # "Recovery"
  PROVE  Sound(Fence(m, kind)) /\ Fence(m, kind).state = m.state
<1> DEFINE n == Fence(m, kind)
<1>1. IsRecord(n)
  BY UpdateIsRecord DEF Sound, Fence, Fields
<1>2. /\ n.state = m.state /\ n.worker.kind = kind /\ n.recovery_armed = m.recovery_armed
      /\ n.snapshot = m.snapshot /\ n.scheduler = m.scheduler
      /\ n.generation = m.generation /\ n.deferred = m.deferred
  BY DEF Sound, IsRecord, Fields, Fence
<1> QED
  BY <1>1, <1>2 DEF Sound, RestoreKept, RestorePending

(* A queued task is none of RestoreKept's business, nor is a queued delay.           *)
LEMMA EnqueueSound ==
  ASSUME NEW m, Sound(m), NEW task
  PROVE  /\ Sound(Enqueue(m, task)) /\ Enqueue(m, task).state = m.state
         /\ Sound([m EXCEPT !.timers = Append(@, task)])
         /\ [m EXCEPT !.timers = Append(@, task)].state = m.state
  BY UpdateSound DEF Enqueue, Fields, Watched

(* The dispatches of a session, an APPLY's and a refresh rate's under a fence.      *)
LEMMA DispatchSound ==
  ASSUME NEW m, Sound(m), m.state # "EventLoop", NEW device
  PROVE  Sound(DispatchApply(m)) /\ Sound(DispatchRefreshRate(m, device))
  BY EnqueueSound, FenceSound DEF DispatchApply, DispatchRefreshRate

(* Verifications are read-only and have no fence.                                   *)
LEMMA DispatchVerificationSound ==
  ASSUME NEW m, Sound(m), NEW purpose
  PROVE  /\ Sound(DispatchVerification(m, purpose))
         /\ Sound(DispatchVerificationAfter(m, purpose))
         /\ DispatchVerificationAfter(m, purpose).state = m.state
  BY EnqueueSound DEF DispatchVerification, DispatchVerificationAfter

(* begin_staged_state_reset() raises its barrier and queues the reset.              *)
LEMMA BeginStagedStateResetSound ==
  ASSUME NEW m, Sound(m)
  PROVE  Sound(BeginStagedStateReset(m))
<1>1. Sound([m EXCEPT !.reset_pending = TRUE])
  BY UpdateSound DEF Fields, Watched
<1> QED
  BY <1>1, EnqueueSound DEF BeginStagedStateReset

(* send_apply_result() and send_verification_result() touch nothing that is watched. *)
LEMMA RepliesSound ==
  ASSUME NEW m, Sound(m), NEW success
  PROVE  Sound(SendApplyResult(m)) /\ Sound(SendVerificationResult(m, success))
<1>1. Sound(SendApplyResult(m))
  BY UpdateSound DEF SendApplyResult, Fields, Watched
<1> DEFINE verdict == [id \in RequestIds |-> IF id = m.request.id
                                            THEN IF success THEN "ok" ELSE "failed"
                                            ELSE m.verdict[id]]
<1>2. SendVerificationResult(m, success) =
        IF m.verification_sent THEN m
        ELSE [m EXCEPT !.verification_sent = TRUE, !.verdict = verdict]
  BY DEF SendVerificationResult, Sound, IsRecord, Fields
<1> HIDE DEF verdict
<1>3. Sound([m EXCEPT !.verification_sent = TRUE, !.verdict = verdict])
  BY UpdateSound DEF Fields, Watched
<1> QED
  BY <1>1, <1>2, <1>3

(* The counters of the settling ladders, the settlement, the attempt's flag.        *)
LEMMA LaddersSound ==
  ASSUME NEW m, Sound(m)
  PROVE  /\ Sound(ResetStabilization(m)) /\ ResetStabilization(m).state = m.state
         /\ Sound(RewindStabilization(m)) /\ RewindStabilization(m).state = m.state
         /\ Sound(ResetSettlement(m)) /\ ResetSettlement(m).state = m.state
         /\ Sound(ResetRequestProgress(m))
<1>1. Sound(ResetStabilization(m))
  BY UpdateSound DEF ResetStabilization, Fields, Watched
<1>2. Sound(RewindStabilization(m))
  BY UpdateSound DEF RewindStabilization, Fields, Watched
<1>3. Sound(ResetSettlement(m))
  BY UpdateSound DEF ResetSettlement, Fields, Watched
<1>4. Sound(ResetRequestProgress(m))
  BY UpdateSound DEF ResetRequestProgress, Fields, Watched
<1>5. /\ ResetStabilization(m).state = m.state
      /\ RewindStabilization(m).state = m.state
      /\ ResetSettlement(m).state = m.state
  BY DEF Sound, IsRecord, Fields, ResetStabilization, RewindStabilization, ResetSettlement
<1> QED
  BY <1>1, <1>2, <1>3, <1>4, <1>5

(* The lease is only ever taken by these three, never given up.                     *)
LEMMA ActivateRecoveryLeaseSound ==
  ASSUME NEW m, Sound(m)
  PROVE  Sound(ActivateRecoveryLease(m)) /\ ActivateRecoveryLease(m).state = m.state
<1> DEFINE n == [m EXCEPT !.recovery_armed = TRUE, !.changes_pending = TRUE]
<1>1. IsRecord(n)
  BY UpdateIsRecord DEF Sound, Fields
<1>2. /\ n.state = m.state /\ n.worker = m.worker /\ n.recovery_armed = TRUE
      /\ n.snapshot = m.snapshot /\ n.scheduler = m.scheduler
      /\ n.generation = m.generation /\ n.deferred = m.deferred
  BY DEF Sound, IsRecord, Fields
<1> HIDE DEF n
<1>3. Sound(n)
  BY <1>1, <1>2 DEF Sound, RestoreKept, RestorePending
<1>4. Sound(ApplyRecoveryPolicy(n)) /\ ApplyRecoveryPolicy(n).state = n.state
  BY <1>3, UpdateSound DEF ApplyRecoveryPolicy, Fields, Watched
<1> QED
  BY <1>2, <1>4 DEF ActivateRecoveryLease, n

(* (after a cancelled recovery)                                                   *)
LEMMA RetainAfterCancelledRecoverySound ==
  ASSUME NEW m, Sound(m)
  PROVE  Sound(RetainAfterCancelledRecovery(m))
<1> DEFINE n == RetainAfterCancelledRecovery(m)
<1>1. IsRecord(n)
  BY UpdateIsRecord DEF Sound, RetainAfterCancelledRecovery, Fields
<1>2. /\ n.state = m.state /\ n.worker = m.worker /\ n.recovery_armed = TRUE
      /\ n.snapshot = m.snapshot /\ n.scheduler = m.scheduler
      /\ n.generation = m.generation /\ n.deferred = m.deferred
  BY DEF Sound, IsRecord, Fields, RetainAfterCancelledRecovery
<1> HIDE DEF n
<1>3. Sound(n)
  BY <1>1, <1>2 DEF Sound, RestoreKept, RestorePending
<1> QED
  BY <1>3 DEF n

(* (the durable task beside it)                                                   *)
LEMMA CreateRestoreTaskIfMissingSound ==
  ASSUME NEW m, Sound(m), NEW e
  PROVE  /\ Sound(CreateRestoreTaskIfMissing(m, e))
         /\ CreateRestoreTaskIfMissing(m, e).state = m.state
<1> DEFINE n == [m EXCEPT !.task_created = e.task, !.os_task = @ \/ e.task]
<1>1. Sound(n)
  BY UpdateSound DEF Fields, Watched
<1>2. n.state = m.state
  BY DEF Sound, IsRecord, Fields
<1> QED
  BY <1>1, <1>2 DEF CreateRestoreTaskIfMissing

(* (after an APPLY that changed the desktop)                                      *)
LEMMA RetainAfterMutationSound ==
  ASSUME NEW m, Sound(m), NEW c, NEW e
  PROVE  Sound(RetainAfterMutation(m, c, e))
<1>1. Sound([m EXCEPT !.task_created = @ \/ c.durable])
  BY UpdateSound DEF Fields, Watched
<1> QED
  BY <1>1, ActivateRecoveryLeaseSound, CreateRestoreTaskIfMissingSound DEF RetainAfterMutation

(* The staged state that nothing relies on is reset, with its restore task.       *)
LEMMA ResetUncommittedStagedStateSound ==
  ASSUME NEW m, Sound(m)
  PROVE  Sound(ResetUncommittedStagedState(m))
<1>1. Sound([m EXCEPT !.os_task = FALSE, !.task_created = FALSE])
  BY UpdateSound DEF Fields, Watched
<1> QED
  BY <1>1, BeginStagedStateResetSound DEF ResetUncommittedStagedState

(* The session's steady state is no restore,                                        *)
LEMMA EnterSteadyStateSound ==
  ASSUME NEW m, Sound(m)
  PROVE  Sound(EnterSteadyState(m))
  BY TransitionSound DEF EnterSteadyState, RestoreStates

(* and neither are the stages of the settling ladders: a check that waits,          *)
LEMMA ScheduleNextCheckSound ==
  ASSUME NEW m, Sound(m)
  PROVE  Sound(ScheduleNextCheck(m))
<1>1. Sound([m EXCEPT !.next_check = @ + 1, !.check_pending = TRUE])
  BY UpdateSound DEF Fields, Watched
<1> QED
  BY <1>1, DispatchVerificationSound DEF ScheduleNextCheck

(* (an APPLY dispatched by a session in progress)                                   *)
LEMMA ApplyAgainSound ==
  ASSUME NEW m, Sound(m)
  PROVE  Sound(DispatchApply(Transition(m, "InProgress")))
  BY TransitionSound, DispatchSound DEF RestoreStates

(* a repair of a rejected session,                                                  *)
LEMMA NextReapplySound ==
  ASSUME NEW m, Sound(m)
  PROVE  Sound(NextReapply(m))
<1> DEFINE check == IF m.next_check < m.next_reapply THEN m.next_reapply ELSE m.next_check
           n == [m EXCEPT !.next_reapply = @ + 1, !.next_check = check]
<1>1. Sound([m EXCEPT !.next_reapply = @ + 1])
  BY UpdateSound DEF Fields, Watched
<1>2. n = [m EXCEPT !.next_reapply = @ + 1,
                    !.next_check = IF @ < m.next_reapply THEN m.next_reapply ELSE @]
  BY DEF Sound, IsRecord, Fields
<1> HIDE DEF check
<1>3. Sound(n)
  BY UpdateSound DEF Fields, Watched
<1> HIDE DEF n
<1>4. Sound(DispatchApply(Transition(n, "InProgress")))
  BY <1>3, ApplyAgainSound
<1> QED
  BY <1>1, <1>2, <1>4 DEF NextReapply

(* a stage of the disconnect settlement,                                            *)
LEMMA NextSettleSound ==
  ASSUME NEW m, Sound(m)
  PROVE  /\ Sound(NextSettle(m))
         /\ m.state # "EventLoop" => NextSettle(m).state # "EventLoop"
<1> DEFINE n == [m EXCEPT !.next_settle = @ + 1, !.settle_pending = TRUE]
<1>1. Sound(n)
  BY UpdateSound DEF Fields, Watched
<1> HIDE DEF n
<1>2. Sound(Transition(n, "Verification")) /\ Transition(n, "Verification").state = "Verification"
  BY <1>1, TransitionSound DEF RestoreStates
<1> DEFINE k == DispatchVerificationAfter(Transition(n, "Verification"), "TransientDisconnect")
<1>3. Sound(k) /\ k.state # "EventLoop"
  BY <1>2, DispatchVerificationSound
<1> HIDE DEF k
<1>4. NextSettle(m) \in {m, ResetSettlement(m), k}
  BY DEF NextSettle, k, n
<1> QED
  BY <1>3, <1>4, LaddersSound

(* and the repairs that follow a failed check.                                      *)
LEMMA SettlementRepairSound ==
  ASSUME NEW m, Sound(m)
  PROVE  Sound(SettlementRepair(m))
<1> DEFINE n == CancelOperations(m)
<1>1. Sound(n)
  BY CancelOperationsSound
<1> HIDE DEF n
<1>2. Sound([n EXCEPT !.settle_pending = FALSE, !.settle_repairing = TRUE])
  BY <1>1, UpdateSound DEF Fields, Watched
<1> QED
  BY <1>2, ApplyAgainSound DEF SettlementRepair, n

(* (of the settling ladder)                                                       *)
LEMMA StabilizationRepairSound ==
  ASSUME NEW m, Sound(m)
  PROVE  Sound(StabilizationRepair(m))
<1> DEFINE stage == IF m.next_reapply < m.next_check + 1 THEN m.next_check + 1 ELSE m.next_reapply
<1>1. StabilizationRepair(m) =
        DispatchApply(Transition([m EXCEPT !.next_reapply = stage], "InProgress"))
  BY DEF StabilizationRepair, Sound, IsRecord, Fields
<1> HIDE DEF stage
<1>2. Sound([m EXCEPT !.next_reapply = stage])
  BY UpdateSound DEF Fields, Watched
<1> QED
  BY <1>1, <1>2, ApplyAgainSound

(* The settlement of a lost connection replaces the ladder,                       *)
LEMMA ReplaceStabilizationSound ==
  ASSUME NEW m, Sound(m)
  PROVE  Sound(ReplaceStabilization(m))
  BY CancelOperationsSound, LaddersSound DEF ReplaceStabilization

(* the exit callback cancels,                                                       *)
LEMMA ExitHelperSound ==
  ASSUME NEW m, Sound(m), NEW code
  PROVE  Sound(ExitHelper(m, code))
<1>1. Sound([m EXCEPT !.restore_origin = 0])
  BY UpdateSound DEF Fields, Watched
<1> DEFINE n == CancelOperations(m)
<1>2. Sound(n)
  BY CancelOperationsSound
<1> HIDE DEF n
<1>3. Sound([n EXCEPT !.exited = TRUE, !.exit_code = code])
  BY <1>2, UpdateSound DEF Fields, Watched
<1> QED
  BY <1>1, <1>3 DEF ExitHelper, n

(* and the deferred queue keeps the newest intent.                                  *)
LEMMA DeferSound ==
  ASSUME NEW m, Sound(m), NEW c \in Command
  PROVE  Sound(Defer(m, c)) /\ Sound(Supersede(m, c))
<1>1. ASSUME NEW n, Sound(n)
      PROVE  Sound(Defer(n, c))
  <2> DEFINE queue == Append(IF IsReset(c) THEN n.deferred ELSE WithoutIntent(n.deferred), c)
             k == [n EXCEPT !.deferred = queue]
  <2>1. queue \in Seq(Command)
    BY <1>1, WithoutIntentType DEF Sound
  <2>2. Defer(n, c) = k
    BY <1>1 DEF Defer, Sound, IsRecord, Fields
  <2> HIDE DEF queue
  <2>3. IsRecord(k)
    BY <1>1, UpdateIsRecord DEF Sound, Fields
  <2>4. /\ k.state = n.state /\ k.worker = n.worker /\ k.recovery_armed = n.recovery_armed
        /\ k.snapshot = n.snapshot /\ k.scheduler = n.scheduler
        /\ k.generation = n.generation /\ k.deferred = queue
    BY <1>1 DEF Sound, IsRecord, Fields
  <2> HIDE DEF k
  <2>5. Sound(k)
    BY <1>1, <2>1, <2>3, <2>4 DEF Sound, RestoreKept, RestorePending
  <2> QED
    BY <2>2, <2>5
<1> QED
  BY <1>1, CancelOperationsSound DEF Supersede

--------------------------------------------------------------------------------
(* Commands.  Those that start or end a restore pass through memories in which      *)
(* RestoreKept does not hold; while nobody works, only the state they end in counts. *)

Unattended(m) ==
    /\ IsRecord(m) /\ m.generation \in Nat /\ m.deferred \in Seq(Command)
    /\ m.worker = NoWorker

(* A sound memory without a worker is unattended; so is an unattended one after a   *)
(* cancellation, or an assignment to anything but the fence and the queue.          *)
LEMMA UnattendedKept ==
  ASSUME NEW m
  PROVE  /\ Sound(m) /\ m.worker = NoWorker => Unattended(m)
         /\ Unattended(m) => Unattended(CancelOperations(m))
<1>1. Sound(m) /\ m.worker = NoWorker => Unattended(m)
  BY DEF Sound, Unattended
<1>2. ASSUME Unattended(m) PROVE Unattended(CancelOperations(m))
  <2> DEFINE k == [m EXCEPT !.generation = @ + 1]
  <2>1. IsRecord(m) /\ m.generation \in Nat
    BY <1>2 DEF Unattended
  <2>2. IsRecord(k)
    BY <2>1, UpdateIsRecord DEF Fields
  <2>3. k.generation = m.generation + 1 /\ k.deferred = m.deferred /\ k.worker = m.worker
    BY <2>1 DEF IsRecord, Fields
  <2> HIDE DEF k
  <2>4. Unattended(k)
    BY <1>2, <2>1, <2>2, <2>3 DEF Unattended
  <2> QED
    BY <2>4 DEF CancelOperations, k
<1> QED
  BY <1>1, <1>2

(* (the assignment)                                                               *)
LEMMA UpdateUnattended ==
  ASSUME NEW m, Unattended(m), NEW f \in Fields \ {"worker", "generation", "deferred"}, NEW v
  PROVE  Unattended([m EXCEPT ![f] = v])
<1>1. IsRecord([m EXCEPT ![f] = v])
  BY UpdateIsRecord DEF Unattended
<1> QED
  BY <1>1 DEF Unattended, IsRecord, Fields

(* Out of the restore, an unattended memory is sound.                               *)
LEMMA UnattendedSound ==
  ASSUME NEW m, Unattended(m)
  PROVE  /\ m.state \notin RestoreStates => Sound(m)
         /\ \A next : next \notin RestoreStates => Sound(Transition(m, next))
<1>1. ASSUME NEW n, Unattended(n), n.state \notin RestoreStates
      PROVE  Sound(n)
  <2>1. ~RestorePending(n) /\ n.state # "EventLoop"
    BY <1>1 DEF RestorePending, RestoreStates
  <2> QED
    BY <1>1, <2>1 DEF Sound, Unattended, RestoreKept, NoWorker
<1>2. ASSUME NEW next, next \notin RestoreStates
      PROVE  Sound(Transition(m, next))
  <2>1. Transition(m, next).state = next
    BY DEF Unattended, IsRecord, Fields, Transition
  <2>2. Unattended(Transition(m, next))
    BY UpdateUnattended DEF Transition, Fields
  <2> QED
    BY <1>1, <1>2, <2>1, <2>2
<1> QED
  BY <1>1, <1>2

(* start_recovery(), from a memory that has all a restore needs.                    *)
LEMMA StartRecoverySound ==
  ASSUME NEW m, Unattended(m), m.recovery_armed, m.snapshot, m.scheduler # "off"
  PROVE  Sound(StartRecovery(m))
<1> DEFINE n == Transition([m EXCEPT !.recovery_reset = "none"], "Recovery")
           k == DispatchRecovery(n)
<1>1. IsRecord(n)
  BY UpdateIsRecord DEF Unattended, Transition, Fields
<1>2. /\ n.state = "Recovery" /\ n.recovery_armed = m.recovery_armed
      /\ n.snapshot = m.snapshot /\ n.scheduler = m.scheduler
      /\ n.generation = m.generation /\ n.deferred = m.deferred
  BY DEF Unattended, IsRecord, Fields, Transition
<1> HIDE DEF n
<1>3. IsRecord(k)
  BY <1>1, UpdateIsRecord DEF DispatchRecovery, Enqueue, Fence, Fields
<1>4. /\ k.state = n.state /\ k.recovery_armed = n.recovery_armed
      /\ k.snapshot = n.snapshot /\ k.scheduler = n.scheduler
      /\ k.generation = n.generation /\ k.deferred = n.deferred
      /\ k.worker.generation = n.generation
  BY <1>1 DEF IsRecord, Fields, DispatchRecovery, Enqueue, Fence
<1> HIDE DEF k
<1>5. Sound(k)
  BY <1>2, <1>3, <1>4 DEF Sound, Unattended, RestoreKept, RestorePending
<1> QED
  BY <1>5 DEF StartRecovery, k, n

(* clear_recovery_state() neither moves the state nor puts anybody to work.         *)
LEMMA ClearRecoveryStateUnattended ==
  ASSUME NEW m, Unattended(m)
  PROVE  Unattended(ClearRecoveryState(m)) /\ ClearRecoveryState(m).state = m.state
<1> DEFINE n == ResetSettlement(ResetRequestProgress(m))
<1>1. Unattended(n)
  BY UpdateUnattended DEF ResetSettlement, ResetRequestProgress, Fields
<1>2. n.state = m.state
  BY DEF Unattended, IsRecord, Fields, ResetSettlement, ResetRequestProgress
<1> HIDE DEF n
<1>3. Unattended([n EXCEPT
        !.scheduler = "off", !.recovery_armed = FALSE, !.changes_pending = FALSE,
        !.explicit_recovery = FALSE, !.last_apply = "none",
        !.os_task = FALSE, !.task_created = FALSE, !.owed = FALSE])
  BY <1>1, UpdateUnattended DEF Fields
<1>4. [n EXCEPT
        !.scheduler = "off", !.recovery_armed = FALSE, !.changes_pending = FALSE,
        !.explicit_recovery = FALSE, !.last_apply = "none",
        !.os_task = FALSE, !.task_created = FALSE, !.owed = FALSE].state = n.state
  BY <1>1 DEF Unattended, IsRecord, Fields
<1> QED
  BY <1>2, <1>3, <1>4 DEF ClearRecoveryState, n

(* The start of a session ends a restore that waits in the event loop.              *)
LEMMA BeginApplySound ==
  ASSUME NEW m, Unattended(m), NEW c, NEW e
  PROVE  Sound(BeginApply(m, c, e))
<1> DEFINE base == ResetStabilization(CancelOperations(m))
           accepted == [base EXCEPT
                !.lease_before_apply = m.recovery_armed \/ m.changes_pending,
                !.scheduler = "off", !.restore_unconfirmed = FALSE,
                !.attempt = 1, !.hdr_fallback = FALSE, !.apply_sent = FALSE,
                !.verification_sent = FALSE, !.verified = FALSE,
                !.request = c.request, !.reply_epoch = c.epoch]
           hdr == c.request.hdr # "unset"
           session == [ApplyRecoveryPolicy(accepted) EXCEPT
                         !.last_apply = "recent",
                         !.checks = IF hdr THEN 3 ELSE 1,
                         !.reapplies = IF hdr THEN 4 ELSE 2,
                         !.snapshot = @ \/ e.capture]
<1> DEFINE cancelled == CancelOperations(m)
<1>1a. Unattended(cancelled)
  BY UnattendedKept
<1> HIDE DEF cancelled
<1>1. Unattended(ResetStabilization(cancelled))
  BY <1>1a, UpdateUnattended DEF ResetStabilization, Fields
<1>1b. Unattended(base)
  BY <1>1 DEF cancelled
<1> HIDE DEF base
<1>2. Unattended(accepted)
  BY ZenonT(60), <1>1b, UpdateUnattended DEF Fields
<1> HIDE DEF accepted, hdr
<1> DEFINE policy == ApplyRecoveryPolicy(accepted)
<1>3a. Unattended(policy)
  BY <1>2, UpdateUnattended DEF ApplyRecoveryPolicy, Fields
<1> HIDE DEF policy
<1>3b. Unattended([policy EXCEPT !.last_apply = "recent",
                         !.checks = IF hdr THEN 3 ELSE 1,
                         !.reapplies = IF hdr THEN 4 ELSE 2,
                         !.snapshot = @ \/ e.capture])
  BY <1>3a, UpdateUnattended DEF Fields
<1>3. Unattended(session)
  BY <1>3b DEF policy
<1> HIDE DEF session
<1>4. Sound(DispatchApply(Transition(session, "InProgress")))
  <2> DEFINE started == Transition(session, "InProgress")
  <2>1. Sound(started)
    BY <1>3, UnattendedSound DEF RestoreStates
  <2>2. started.state # "EventLoop"
    BY <1>3 DEF Transition, Unattended, IsRecord, Fields
  <2> HIDE DEF started
  <2>3. Sound(DispatchApply(started))
    BY <2>1, <2>2, DispatchSound
  <2> QED
    BY <2>3 DEF started
<1>5. Sound(Transition(SendApplyResult(accepted), "Waiting"))
  <2>1. Unattended(SendApplyResult(accepted))
    BY <1>2, UpdateUnattended DEF SendApplyResult, Fields
  <2> QED
    BY <2>1, UnattendedSound DEF RestoreStates
<1> QED
  BY <1>4, <1>5 DEF BeginApply, session, accepted, hdr, base

(* A command that sets a member and clears the settlement, then goes on.            *)
LEMMA LatchedSound ==
  ASSUME NEW m, Sound(m), NEW v
  PROVE  LET n == ResetSettlement([m EXCEPT !.explicit_recovery = v])
         IN Sound(n) /\ n.worker = m.worker /\ n.snapshot = m.snapshot /\ n.state = m.state
<1> DEFINE latch == [m EXCEPT !.explicit_recovery = v]
           n == ResetSettlement(latch)
<1>1. Sound(latch)
  BY UpdateSound DEF Fields, Watched
<1>2. latch.worker = m.worker /\ latch.snapshot = m.snapshot /\ latch.state = m.state
  BY DEF Sound, IsRecord, Fields
<1> HIDE DEF latch
<1>3. Sound(n)
  BY <1>1, LaddersSound
<1>4. n.worker = latch.worker /\ n.snapshot = latch.snapshot /\ n.state = latch.state
  BY <1>1 DEF Sound, IsRecord, Fields, ResetSettlement
<1> QED
  BY <1>2, <1>3, <1>4 DEF latch

(* handle_apply_command()                                                           *)
LEMMA HandleApplyCommandSound ==
  ASSUME NEW m, Sound(m), NEW c \in Command, NEW e
  PROVE  Sound(HandleApplyCommand(m, c, e))
<1> DEFINE latched == ResetSettlement([m EXCEPT !.explicit_recovery = FALSE])
<1>1. Sound(latched) /\ latched.worker = m.worker
  BY LatchedSound
<1> HIDE DEF latched
<1>2. Sound(Supersede(latched, c)) /\ Sound(Defer(latched, c))
  BY <1>1, DeferSound
<1>3. ~WorkerActive(m) => Sound(BeginApply(latched, c, e))
  BY <1>1, UnattendedKept, BeginApplySound DEF WorkerActive
<1> QED
  BY <1>2, <1>3 DEF HandleApplyCommand, latched

(* handle_revert_command(): without a snapshot no restore is in progress.           *)
LEMMA HandleRevertCommandSound ==
  ASSUME NEW m, Sound(m), NEW c \in Command
  PROVE  Sound(HandleRevertCommand(m, c))
<1> DEFINE latched == IF c.from_disconnect THEN m
                      ELSE ResetSettlement([m EXCEPT !.explicit_recovery = TRUE])
<1>1. /\ Sound(latched) /\ latched.worker = m.worker
      /\ latched.snapshot = m.snapshot /\ latched.state = m.state
  BY LatchedSound
<1> HIDE DEF latched
<1>2. Sound(Supersede(latched, c)) /\ Sound(Defer(latched, c))
  BY <1>1, DeferSound
<1>3. ASSUME ~WorkerActive(m)
      PROVE  /\ Unattended(CancelOperations(latched))
             /\ CancelOperations(latched).state = latched.state
             /\ CancelOperations(latched).snapshot = latched.snapshot
  <2>1. Unattended(CancelOperations(latched)) /\ CancelOperations(latched).state = latched.state
    BY <1>1, <1>3, UnattendedKept, CancelOperationsSound DEF WorkerActive
  <2>2. CancelOperations(latched).snapshot = latched.snapshot
    BY <1>1 DEF Sound, IsRecord, Fields, CancelOperations
  <2> QED
    BY <2>1, <2>2
<1> DEFINE cancelled == CancelOperations(latched)
<1> HIDE DEF cancelled
<1>4. ASSUME ~WorkerActive(m) PROVE Sound(ReleaseOnDisconnect(latched))
  <2>1. Unattended(ClearRecoveryState(cancelled))
    BY <1>3, <1>4, ClearRecoveryStateUnattended DEF cancelled
  <2>2. Unattended(ResetStabilization(ClearRecoveryState(cancelled)))
    BY <2>1, UpdateUnattended DEF ResetStabilization, Fields
  <2> QED
    BY <2>2, UnattendedSound DEF ReleaseOnDisconnect, cancelled, RestoreStates
<1>5. ASSUME ~WorkerActive(m), ~m.snapshot
      PROVE  Sound(ExitHelper(ClearRecoveryState(CancelOperations(latched)), 0))
  <2>1. m.state \notin RestoreStates
    BY <1>5 DEF Sound, RestoreKept, RestorePending
  <2>2. /\ Unattended(ClearRecoveryState(cancelled))
        /\ ClearRecoveryState(cancelled).state = m.state
    BY <1>1, <1>3, <1>5, ClearRecoveryStateUnattended DEF cancelled
  <2>3. Sound(ClearRecoveryState(cancelled))
    BY <2>1, <2>2, UnattendedSound
  <2> QED
    BY <2>3, ExitHelperSound DEF cancelled
<1>6. ASSUME ~WorkerActive(m), m.snapshot PROVE Sound(BeginRevert(latched))
  <2> DEFINE armed == [cancelled EXCEPT !.recovery_armed = TRUE, !.changes_pending = TRUE,
                                        !.scheduler = "open"]
             rested == ResetStabilization(armed)
  <2>1. Unattended(cancelled) /\ cancelled.snapshot
    BY <1>1, <1>3, <1>6 DEF cancelled
  <2>2. Unattended(armed)
    BY <2>1, UpdateUnattended DEF Fields
  <2>3. armed.recovery_armed /\ armed.snapshot /\ armed.scheduler # "off"
    BY <2>1 DEF Unattended, IsRecord, Fields
  <2> HIDE DEF armed
  <2>4. Unattended(rested)
    BY <2>2, UpdateUnattended DEF ResetStabilization, Fields
  <2>5. rested.recovery_armed /\ rested.snapshot /\ rested.scheduler # "off"
    BY <2>2, <2>3 DEF Unattended, IsRecord, Fields, ResetStabilization
  <2> HIDE DEF rested
  <2>6. Sound(StartRecovery(rested))
    BY <2>4, <2>5, StartRecoverySound
  <2> QED
    BY <2>6 DEF BeginRevert, rested, armed, cancelled
<1> QED
  BY <1>1, <1>2, <1>4, <1>5, <1>6 DEF HandleRevertCommand, latched

(* handle_disarm_command() takes the scheduler away from a worker it cancels.       *)
LEMMA HandleDisarmCommandSound ==
  ASSUME NEW m, Sound(m), NEW c \in Command
  PROVE  Sound(HandleDisarmCommand(m, c))
<1> DEFINE latched == ResetSettlement([m EXCEPT !.explicit_recovery = FALSE])
<1>1. Sound(latched) /\ latched.worker = m.worker
  BY LatchedSound
<1> HIDE DEF latched
<1>2. Sound(Defer(latched, c))
  BY <1>1, DeferSound
<1>3. ASSUME WorkerActive(m) PROVE Sound(Supersede([latched EXCEPT !.scheduler = "off"], c))
  <2> DEFINE n == [latched EXCEPT !.scheduler = "off"]
             k == CancelOperations(n)
  <2>1. IsRecord(n)
    BY <1>1, UpdateIsRecord DEF Sound, Fields
  <2>2. /\ n.state = latched.state /\ n.worker = latched.worker
        /\ n.recovery_armed = latched.recovery_armed /\ n.snapshot = latched.snapshot
        /\ n.generation = latched.generation /\ n.deferred = latched.deferred
    BY <1>1 DEF Sound, IsRecord, Fields
  <2> HIDE DEF n
  <2>3. IsRecord(k)
    BY <2>1, UpdateIsRecord DEF CancelOperations, Fields
  <2>4. /\ k.state = n.state /\ k.worker = n.worker
        /\ k.recovery_armed = n.recovery_armed /\ k.snapshot = n.snapshot
        /\ k.generation = n.generation + 1 /\ k.deferred = n.deferred
    BY <2>1 DEF IsRecord, Fields, CancelOperations
  <2> HIDE DEF k
  <2>5. k.state # "EventLoop"
    BY <1>1, <1>3, <2>2, <2>4 DEF Sound, RestoreKept, WorkerActive
  <2>6. k.worker.kind = "Recovery" =>
          k.worker.generation \in 0..latched.generation /\ latched.generation \in Nat
    BY <1>1, <2>2, <2>4 DEF Sound, RestoreKept
  <2>7. Sound(k)
    BY <1>1, <2>2, <2>3, <2>4, <2>5, <2>6 DEF Sound, RestoreKept, RestorePending
  <2>8. Sound(Defer(k, c))
    BY <2>7, DeferSound
  <2> QED
    BY <2>8 DEF Supersede, k, n
<1>4. ASSUME ~WorkerActive(m) PROVE Sound(BeginDisarm(latched))
  <2> DEFINE cancelled == CancelOperations(latched)
             lease == ClearRecoveryState(cancelled)
             cleared == IF latched.unconfirmed_mutation THEN cancelled
                        ELSE [lease EXCEPT !.task_created = FALSE]
             rested == [cleared EXCEPT !.attempt = 0, !.apply_sent = FALSE,
                          !.verification_sent = FALSE, !.verified = FALSE, !.last_apply = "none"]
  <2>1. Unattended(cancelled)
    BY <1>1, <1>4, UnattendedKept DEF WorkerActive
  <2> HIDE DEF cancelled
  <2>2. Unattended(lease)
    BY <2>1, ClearRecoveryStateUnattended
  <2> HIDE DEF lease
  <2>3. Unattended([lease EXCEPT !.task_created = FALSE])
    BY <2>2, UpdateUnattended DEF Fields
  <2>4. Unattended(cleared)
    BY <2>1, <2>3
  <2> HIDE DEF cleared
  <2>5. Unattended(rested)
    BY <2>4, UpdateUnattended DEF Fields
  <2> HIDE DEF rested
  <2>6. Unattended(ResetStabilization(rested))
    BY <2>5, UpdateUnattended DEF ResetStabilization, Fields
  <2>7. Sound(Transition(ResetStabilization(rested), "Waiting"))
    BY <2>6, UnattendedSound DEF RestoreStates
  <2> QED
    BY <2>7 DEF BeginDisarm, rested, cleared, lease, cancelled
<1> QED
  BY <1>2, <1>3, <1>4 DEF HandleDisarmCommand, latched

(* handle_reset_command(), the captures and handle_refresh_rate_command().          *)
LEMMA HandleResetCommandSound ==
  ASSUME NEW m, Sound(m), NEW c \in Command
  PROVE  Sound(HandleResetCommand(m, c))
  BY DeferSound, BeginStagedStateResetSound DEF HandleResetCommand

(* (SNAPSHOT_CURRENT and EXPORT_GOLDEN can only add a snapshot)                   *)
LEMMA HandleCaptureSound ==
  ASSUME NEW m, Sound(m), NEW epoch, NEW e
  PROVE  Sound(HandleCapture(m, epoch, e))
<1> DEFINE n == [m EXCEPT !.snapshot = @ \/ e.capture]
<1>1. IsRecord(n)
  BY UpdateIsRecord DEF Sound, Fields
<1>2. /\ n.state = m.state /\ n.worker = m.worker /\ n.recovery_armed = m.recovery_armed
      /\ n.snapshot = (m.snapshot \/ e.capture) /\ n.scheduler = m.scheduler
      /\ n.generation = m.generation /\ n.deferred = m.deferred
  BY DEF Sound, IsRecord, Fields
<1> HIDE DEF n
<1>3. Sound(n)
  BY <1>1, <1>2 DEF Sound, RestoreKept, RestorePending
<1> QED
  BY <1>3 DEF HandleCapture, n

(* (a refresh-rate change is refused while a restore is pending)                  *)
LEMMA HandleRefreshRateCommandSound ==
  ASSUME NEW m, Sound(m), NEW device, NEW epoch
  PROVE  Sound(HandleRefreshRateCommand(m, device, epoch))
<1> DEFINE n == RewindStabilization(CancelOperations(m))
<1>1. Sound(n) /\ n.state = m.state
  BY CancelOperationsSound, LaddersSound
<1> HIDE DEF n
<1>2. ASSUME ~RestorePending(m)
      PROVE  Sound(DispatchRefreshRate(m, device)) /\ Sound(DispatchRefreshRate(n, device))
  <2>1. m.state # "EventLoop"
    BY <1>2 DEF RestorePending, RestoreStates
  <2> QED
    BY <1>1, <2>1, DispatchSound
<1> QED
  BY <1>2 DEF HandleRefreshRateCommand, n

(* The drain handles at most DrainBound commands of the queue.                      *)
LEMMA DrainSound ==
  ASSUME NEW m, Sound(m), NEW e
  PROVE  Sound(Drain(m, e))
<1>1. ASSUME NEW n, Sound(n)
      PROVE  Sound(DrainOne(n, e))
  <2> DEFINE c == Head(n.deferred)
             popped == [n EXCEPT !.deferred = Tail(@)]
  <2>1. SUFFICES ASSUME n.deferred # <<>> PROVE Sound(DrainOne(n, e))
    BY <1>1 DEF DrainOne
  <2>2. n.deferred \in Seq(Command)
    BY <1>1 DEF Sound
  <2>3. c \in Command /\ Tail(n.deferred) \in Seq(Command)
    BY <2>1, <2>2
  <2>4. IsRecord(popped)
    BY <1>1, UpdateIsRecord DEF Sound, Fields
  <2>5. /\ popped.state = n.state /\ popped.worker = n.worker
        /\ popped.recovery_armed = n.recovery_armed
        /\ popped.snapshot = n.snapshot /\ popped.scheduler = n.scheduler
        /\ popped.generation = n.generation /\ popped.deferred = Tail(n.deferred)
    BY <1>1 DEF Sound, IsRecord, Fields
  <2>6. c.type \in {"APPLY", "REVERT", "DISARM", "RESET"}
    BY <2>3 DEF Command
  <2> HIDE DEF c, popped
  <2>7. Sound(popped)
    BY <1>1, <2>3, <2>4, <2>5 DEF Sound, RestoreKept, RestorePending
  <2>8. /\ Sound(HandleApplyCommand(popped, c, e)) /\ Sound(HandleRevertCommand(popped, c))
        /\ Sound(HandleDisarmCommand(popped, c)) /\ Sound(HandleResetCommand(popped, c))
    BY <2>3, <2>7, HandleApplyCommandSound, HandleRevertCommandSound, HandleDisarmCommandSound,
       HandleResetCommandSound
  <2>9. DrainOne(n, e) = IF WorkerActive(n) \/ n.reset_pending \/ n.deferred = <<>> THEN n
          ELSE CASE c.type = "APPLY" -> HandleApplyCommand(popped, c, e)
                 [] c.type = "REVERT" -> HandleRevertCommand(popped, c)
                 [] c.type = "DISARM" -> HandleDisarmCommand(popped, c)
                 [] c.type = "RESET" -> HandleResetCommand(popped, c)
    BY Zenon DEF DrainOne, c, popped
  <2> QED
    BY <1>1, <2>6, <2>8, <2>9
<1> QED
  BY <1>1 DEF Drain

--------------------------------------------------------------------------------
(* Completions                                                                      *)

(* A superseded APPLY,                                                              *)
LEMMA StaleApplySound ==
  ASSUME NEW m, Sound(m), NEW c, NEW e
  PROVE  Sound(StaleApply(m, c, e))
<1> DEFINE n == RetainAfterMutation(m, c, e)
<1>1. Sound(n)
  BY RetainAfterMutationSound
<1> HIDE DEF n
<1>2. Sound([n EXCEPT !.unconfirmed_mutation = TRUE])
  BY <1>1, UpdateSound DEF Fields, Watched
<1>3. Sound([m EXCEPT !.task_created = @ \/ c.durable])
  BY UpdateSound DEF Fields, Watched
<1> QED
  BY <1>2, <1>3, ResetUncommittedStagedStateSound, DrainSound DEF StaleApply, n

(* one that landed,                                                                 *)
LEMMA AppliedOkSound ==
  ASSUME NEW m, Sound(m), NEW e
  PROVE  Sound(AppliedOk(m, e))
<1> DEFINE n0 == NextSettle([m EXCEPT !.settle_repairing = FALSE])
           k0 == ActivateRecoveryLease([n0 EXCEPT !.verified = TRUE])
<1>1. Sound([m EXCEPT !.settle_repairing = FALSE])
  BY UpdateSound DEF Fields, Watched
<1>2. Sound(n0)
  BY <1>1, NextSettleSound
<1> HIDE DEF n0
<1>3. Sound([n0 EXCEPT !.verified = TRUE])
  BY <1>2, UpdateSound DEF Fields, Watched
<1>4. Sound(k0)
  BY <1>3, ActivateRecoveryLeaseSound
<1> HIDE DEF k0
<1>5. Sound([k0 EXCEPT !.unconfirmed_mutation = FALSE])
  BY <1>4, UpdateSound DEF Fields, Watched
<1>6. Sound(Drain(EnterSteadyState([k0 EXCEPT !.unconfirmed_mutation = FALSE]), e))
  BY <1>5, EnterSteadyStateSound, DrainSound
<1>7. Sound(Drain(DispatchVerification(Transition(SendApplyResult(m), "Verification"),
                                       "Initial"), e))
  BY RepliesSound, TransitionSound, DispatchVerificationSound, DrainSound DEF RestoreStates
<1> QED
  BY <1>2, <1>6, <1>7 DEF AppliedOk, n0, k0

(* one that failed for good,                                                        *)
LEMMA ApplyFailedSound ==
  ASSUME NEW m, Sound(m), NEW c, NEW e
  PROVE  Sound(ApplyFailed(m, c, e))
<1> DEFINE told == SendVerificationResult(SendApplyResult(m), FALSE)
           clean == IF c.changed THEN told ELSE ResetUncommittedStagedState(told)
<1>1. Sound(told)
  BY RepliesSound
<1>2. Sound(clean)
  BY <1>1, ResetUncommittedStagedStateSound
<1> HIDE DEF clean
<1>3. Sound(Drain(EnterSteadyState(clean), e)) /\ Sound(Drain(Transition(clean, "Waiting"), e))
  BY <1>2, EnterSteadyStateSound, TransitionSound, DrainSound DEF RestoreStates
<1> QED
  BY <1>3 DEF ApplyFailed, clean

(* one that is retried: the session it belongs to is not in the event loop,         *)
LEMMA RetryApplySound ==
  ASSUME NEW m, Sound(m), m.state # "EventLoop", NEW c, NEW e
  PROVE  Sound(RetryApply(m, c, e))
<1>1. Sound(DispatchApply([m EXCEPT !.attempt = @ + 1]))
  <2> DEFINE n == [m EXCEPT !.attempt = @ + 1]
  <2>1. Sound(n)
    BY UpdateSound DEF Fields, Watched
  <2>2. n.state = m.state
    BY DEF Sound, IsRecord, Fields
  <2> HIDE DEF n
  <2>3. Sound(DispatchApply(n))
    BY <2>1, <2>2, DispatchSound
  <2> QED
    BY <2>3 DEF n
<1> DEFINE n == [m EXCEPT !.hdr_fallback = TRUE, !.request.hdr = "off", !.attempt = 1]
<1>2. Sound(n)
  BY UpdateSound DEF Fields, Watched
<1> HIDE DEF n
<1>3. Sound(DispatchApply(Transition(n, "InProgress")))
  BY <1>2, ApplyAgainSound
<1> QED
  BY <1>1, <1>3, ApplyFailedSound DEF RetryApply, n

(* and handle_apply_completed() as a whole: whoever owns the fence of an APPLY is   *)
(* not in the event loop, where nobody works.                                       *)
LEMMA HandleApplyCompletedSound ==
  ASSUME NEW m, Sound(m), NEW c, NEW e
  PROVE  Sound(HandleApplyCompleted(m, c, e))
<1> DEFINE n0 == ReleaseFence(m)
           owned == [n0 EXCEPT !.staged_prepared = @ \/ c.staged]
           touched == c.status = "Ok" \/ c.changed
           leased == IF touched THEN ActivateRecoveryLease(owned) ELSE owned
           guarded == [leased EXCEPT !.task_created = @ \/ c.durable]
           tasked == IF touched THEN CreateRestoreTaskIfMissing(guarded, e) ELSE guarded
           settling == [tasked EXCEPT !.settle_repairing = FALSE]
<1>1. SUFFICES ASSUME Owns(m, "Apply", c.generation)
               PROVE  Sound(HandleApplyCompleted(m, c, e))
  BY DEF HandleApplyCompleted
<1>2. m.state # "EventLoop"
  BY <1>1 DEF Owns, Sound, RestoreKept, NoWorker
<1>3. Sound(n0) /\ n0.state # "EventLoop"
  BY <1>2, ReleaseFenceSound
<1> HIDE DEF n0, touched
<1>4. Sound(owned) /\ owned.state # "EventLoop"
  <2>1. Sound(owned)
    BY <1>3, UpdateSound DEF Fields, Watched
  <2>2. owned.state = n0.state
    BY <1>3 DEF Sound, IsRecord, Fields
  <2> QED
    BY <1>3, <2>1, <2>2
<1> HIDE DEF owned
<1>5. Sound(leased) /\ leased.state # "EventLoop"
  BY <1>4, ActivateRecoveryLeaseSound
<1> HIDE DEF leased
<1>6. Sound(guarded) /\ guarded.state # "EventLoop"
  <2>1. Sound(guarded)
    BY <1>5, UpdateSound DEF Fields, Watched
  <2>2. guarded.state = leased.state
    BY <1>5 DEF Sound, IsRecord, Fields
  <2> QED
    BY <1>5, <2>1, <2>2
<1> HIDE DEF guarded
<1>7. Sound(tasked) /\ tasked.state # "EventLoop"
  BY <1>6, CreateRestoreTaskIfMissingSound
<1> HIDE DEF tasked
<1>8. Sound(settling) /\ settling.state # "EventLoop"
  <2>1. Sound(settling)
    BY <1>7, UpdateSound DEF Fields, Watched
  <2>2. settling.state = tasked.state
    BY <1>7 DEF Sound, IsRecord, Fields
  <2> QED
    BY <1>7, <2>1, <2>2
<1> HIDE DEF settling
<1>9. /\ Sound(StaleApply(owned, c, e)) /\ Sound(AppliedOk(tasked, e))
      /\ Sound(RetryApply(tasked, c, e)) /\ Sound(NextSettle(settling))
      /\ Sound(RetryApply(NextSettle(settling), c, e))
  BY <1>4, <1>7, <1>8, StaleApplySound, AppliedOkSound, RetryApplySound, NextSettleSound
<1>10. HandleApplyCompleted(m, c, e) \in
         {m, StaleApply(owned, c, e), AppliedOk(tasked, e), RetryApply(tasked, c, e),
          NextSettle(settling), RetryApply(NextSettle(settling), c, e)}
  BY DEF HandleApplyCompleted, settling, tasked, guarded, leased, touched, owned, n0
<1> QED
  BY <1>9, <1>10

(* No outcome of a check touches a restore.                                         *)
LEMMA HandleVerificationCompletedSound ==
  ASSUME NEW m, Sound(m), NEW c
  PROVE  Sound(HandleVerificationCompleted(m, c))
<1>1. ASSUME NEW n, Sound(n)
      PROVE  /\ Sound(EnterSteadyState(NextSettle(n))) /\ Sound(NextSettle(n))
             /\ Sound(Transition(NextSettle(n), "Waiting"))
  BY <1>1, NextSettleSound, EnterSteadyStateSound, TransitionSound DEF RestoreStates
<1>2. ASSUME NEW n, Sound(n)
      PROVE  Sound(YieldToSettlement(n))
  BY <1>1, <1>2 DEF YieldToSettlement
<1>3. Sound(SettlementVerified(m, c))
  <2> DEFINE checked == [m EXCEPT !.settle_pending = FALSE]
             leased == ActivateRecoveryLease(checked)
             confirmed == IF m.verified THEN checked
                          ELSE [leased EXCEPT !.verified = TRUE, !.unconfirmed_mutation = FALSE]
  <2>1. Sound(checked)
    BY UpdateSound DEF Fields, Watched
  <2> HIDE DEF checked
  <2>2. Sound(leased)
    BY <2>1, ActivateRecoveryLeaseSound
  <2> HIDE DEF leased
  <2>3. Sound([leased EXCEPT !.verified = TRUE, !.unconfirmed_mutation = FALSE])
    BY <2>2, UpdateSound DEF Fields, Watched
  <2>4. Sound(confirmed)
    BY <2>1, <2>3
  <2> HIDE DEF confirmed
  <2>5. /\ Sound(EnterSteadyState(ResetSettlement(confirmed)))
        /\ Sound(SettlementRepair(checked))
        /\ Sound(Transition(ResetSettlement(checked), "Waiting"))
    BY <2>1, <2>4, LaddersSound, EnterSteadyStateSound, SettlementRepairSound, TransitionSound
       DEF RestoreStates
  <2> QED
    BY <2>5 DEF SettlementVerified, confirmed, leased, checked
<1>4. Sound(StabilizationChecked(m, c))
  <2> DEFINE checked == [m EXCEPT !.check_pending = FALSE]
  <2>1. Sound(checked)
    BY UpdateSound DEF Fields, Watched
  <2> HIDE DEF checked
  <2>2. /\ Sound(ScheduleNextCheck(checked)) /\ Sound(NextSettle(checked))
        /\ Sound(EnterSteadyState(NextSettle(checked))) /\ Sound(YieldToSettlement(checked))
        /\ Sound(StabilizationRepair(checked))
    BY <1>1, <1>2, <2>1, ScheduleNextCheckSound, StabilizationRepairSound
  <2> QED
    BY <2>2 DEF StabilizationChecked, checked
<1>5. Sound(InitialVerified(m))
  <2> DEFINE verified == [m EXCEPT !.verified = TRUE]
             leased == ActivateRecoveryLease(verified)
             opened == SendVerificationResult([leased EXCEPT !.unconfirmed_mutation = FALSE], TRUE)
             gated == IF m.verification_sent THEN m ELSE opened
  <2>1. Sound(verified)
    BY UpdateSound DEF Fields, Watched
  <2> HIDE DEF verified
  <2>2. Sound(leased)
    BY <2>1, ActivateRecoveryLeaseSound
  <2> HIDE DEF leased
  <2>3. Sound([leased EXCEPT !.unconfirmed_mutation = FALSE])
    BY <2>2, UpdateSound DEF Fields, Watched
  <2>4. Sound(gated)
    BY <2>3, RepliesSound
  <2> HIDE DEF gated
  <2>5. /\ Sound(EnterSteadyState(ScheduleNextCheck(gated))) /\ Sound(NextSettle(gated))
        /\ Sound(EnterSteadyState(NextSettle(gated)))
    BY <1>1, <2>4, ScheduleNextCheckSound, EnterSteadyStateSound
  <2> QED
    BY <2>5 DEF InitialVerified, gated, leased, verified
<1>6. Sound(InitialRejected(m))
  <2> DEFINE next == NextReapply(RewindStabilization(m))
  <2>1. Sound(next)
    BY LaddersSound, NextReapplySound
  <2> HIDE DEF next
  <2>2. /\ Sound(EnterSteadyState(next))
        /\ Sound(Transition(SendVerificationResult(next, FALSE), "Waiting"))
    BY <2>1, EnterSteadyStateSound, RepliesSound, TransitionSound DEF RestoreStates
  <2> QED
    BY <2>1, <2>2 DEF InitialRejected, next
<1> QED
  BY <1>2, <1>3, <1>4, <1>5, <1>6 DEF HandleVerificationCompleted

(* The reset of the staged state ends, and the helper may exit.                     *)
LEMMA HandleResetCompletedSound ==
  ASSUME NEW m, Sound(m), NEW c, NEW e
  PROVE  Sound(HandleResetCompleted(m, c, e))
<1> DEFINE ok == c.status = "Ok"
           opened == [m EXCEPT !.reset_pending = FALSE, !.staged_prepared = @ /\ ~ok]
           followed == [opened EXCEPT !.exit_after_reset = @ /\ ~DefersIntent(m)]
           drained == Drain(followed, e)
<1> HIDE DEF ok
<1>1. Sound(opened)
  BY UpdateSound DEF Fields, Watched
<1> HIDE DEF opened
<1>2. Sound(followed)
  BY <1>1, UpdateSound DEF Fields, Watched
<1> HIDE DEF followed
<1>3. Sound(drained)
  BY <1>2, DrainSound
<1> HIDE DEF drained
<1>4. /\ Sound([opened EXCEPT !.exit_after_reset = FALSE])
      /\ Sound([drained EXCEPT !.exit_after_reset = FALSE])
  BY <1>1, <1>3, UpdateSound DEF Fields, Watched
<1> QED
  BY <1>3, <1>4, ExitHelperSound DEF HandleResetCompleted, drained, followed, opened, ok

(* A refresh-rate change ends.                                                      *)
LEMMA HandleRefreshRateCompletedSound ==
  ASSUME NEW m, Sound(m), NEW c, NEW e
  PROVE  Sound(HandleRefreshRateCompleted(m, c, e))
<1> DEFINE freed == ReleaseFence(m)
           rewound == RewindStabilization(CancelOperations(freed))
           rechecked == IF ~RefreshTargetsRequest(m, c.device) THEN freed
                        ELSE IF m.settle_requested THEN ReplaceStabilization(rewound)
                        ELSE ScheduleNextCheck(rewound)
           settled == IF m.settle_requested THEN NextSettle(rechecked) ELSE rechecked
<1>1. Sound(freed)
  BY ReleaseFenceSound
<1> HIDE DEF freed
<1>2. Sound(rewound)
  BY <1>1, CancelOperationsSound, LaddersSound
<1> HIDE DEF rewound
<1>3. Sound(rechecked)
  BY <1>1, <1>2, ReplaceStabilizationSound, ScheduleNextCheckSound
<1> HIDE DEF rechecked
<1>4. Sound(settled)
  BY <1>3, NextSettleSound
<1> HIDE DEF settled
<1>5. Sound(Drain(freed, e)) /\ Sound(Drain(settled, e))
  BY <1>1, <1>4, DrainSound
<1> QED
  BY <1>5 DEF HandleRefreshRateCompleted, settled, rechecked, rewound, freed

(* A failed restore goes to the event loop with the lease and the scheduler that a  *)
(* worker of the current generation has.                                            *)
LEMMA RetryRestoreSound ==
  ASSUME NEW m, Sound(m), NEW generation, Owns(m, "Recovery", generation), ~IsStale(m, generation),
         NEW e
  PROVE  Sound(RetryRestore(m, e))
<1> DEFINE n == Transition(ReleaseFence(m), "EventLoop")
<1>1. m.recovery_armed /\ m.snapshot /\ m.scheduler # "off"
  BY DEF Sound, RestoreKept, Owns, IsStale
<1>2. IsRecord(n)
  BY UpdateIsRecord DEF Sound, Transition, ReleaseFence, Fields
<1>3. /\ n.state = "EventLoop" /\ n.worker = NoWorker /\ n.recovery_armed = m.recovery_armed
      /\ n.snapshot = m.snapshot /\ n.scheduler = m.scheduler
      /\ n.generation = m.generation /\ n.deferred = m.deferred
  BY DEF Sound, IsRecord, Fields, Transition, ReleaseFence
<1> HIDE DEF n
<1>4. Sound(n)
  BY <1>1, <1>2, <1>3 DEF Sound, RestoreKept, RestorePending, NoWorker
<1> QED
  BY <1>4, DrainSound DEF RetryRestore, n

(* A restore that was written goes on to its validation, under the same fence.      *)
LEMMA HandleRecoveryCompletedSound ==
  ASSUME NEW m, Sound(m), NEW c, NEW e
  PROVE  Sound(HandleRecoveryCompleted(m, c, e))
<1> DEFINE freed == ReleaseFence(m)
           reset == [m EXCEPT !.recovery_reset = IF c.cleared = "none" THEN @ ELSE c.cleared]
           n == Transition(reset, "RecoveryValidation")
           k == DispatchValidation(n)
<1>1. SUFFICES ASSUME Owns(m, "Recovery", c.generation)
               PROVE  Sound(HandleRecoveryCompleted(m, c, e))
  BY DEF HandleRecoveryCompleted
<1>2. /\ Sound(Drain(RetainAfterCancelledRecovery(freed), e))
      /\ Sound(Drain(ResetRequestProgress(freed), e))
  BY ReleaseFenceSound, RetainAfterCancelledRecoverySound, LaddersSound, DrainSound
<1>3. ASSUME ~IsStale(m, c.generation) PROVE Sound(k)
  <2>1. m.recovery_armed /\ m.snapshot /\ m.scheduler # "off"
    BY <1>1, <1>3 DEF Sound, RestoreKept, Owns, IsStale
  <2>2. IsRecord(n)
    BY UpdateIsRecord DEF Sound, Transition, Fields
  <2>3. /\ n.state = "RecoveryValidation" /\ n.worker = m.worker
        /\ n.recovery_armed = m.recovery_armed
        /\ n.snapshot = m.snapshot /\ n.scheduler = m.scheduler
        /\ n.generation = m.generation /\ n.deferred = m.deferred
    BY DEF Sound, IsRecord, Fields, Transition
  <2> HIDE DEF n
  <2>4. n.worker = [kind |-> "Recovery", generation |-> c.generation]
    BY <1>1, <2>3 DEF Owns
  <2>5. IsRecord(k)
    BY <2>2, UpdateIsRecord DEF DispatchValidation, Enqueue, Fields
  <2>6. /\ k.state = n.state /\ k.recovery_armed = n.recovery_armed
        /\ k.snapshot = n.snapshot /\ k.scheduler = n.scheduler
        /\ k.generation = n.generation /\ k.deferred = n.deferred
    BY <2>2 DEF IsRecord, Fields, DispatchValidation, Enqueue
  <2>7. k.worker = [n.worker EXCEPT !.generation = n.generation]
    BY <2>2 DEF IsRecord, Fields, DispatchValidation, Enqueue
  <2>8. k.worker.generation = n.generation
    BY <2>4, <2>7
  <2> HIDE DEF k
  <2> QED
    BY <2>1, <2>3, <2>5, <2>6, <2>8 DEF Sound, RestoreKept, RestorePending
<1>4. ~IsStale(m, c.generation) => Sound(RetryRestore(m, e))
  BY <1>1, RetryRestoreSound
<1> QED
  BY <1>2, <1>3, <1>4 DEF HandleRecoveryCompleted, k, n, reset, freed

(* A confirmed restore is no restore any more.                                      *)
LEMMA RestoreConfirmedSound ==
  ASSUME NEW m, Sound(m), NEW e
  PROVE  Sound(RestoreConfirmed(m, e))
<1> DEFINE failed == m.staged_prepared /\ m.recovery_reset = "failed"
           freed == ResetRequestProgress(ReleaseFence(m))
           cleared == [freed EXCEPT
                        !.recovery_armed = FALSE, !.changes_pending = FALSE,
                        !.unconfirmed_mutation = FALSE, !.scheduler = "off", !.os_task = FALSE,
                        !.task_created = FALSE, !.staged_prepared = failed, !.owed = FALSE]
           home == Transition(cleared, "Waiting")
           reset == IF failed THEN BeginStagedStateReset([home EXCEPT !.exit_after_reset = TRUE])
                    ELSE home
           waits == reset.reset_pending \/ DefersReset(reset)
           drained == Drain([reset EXCEPT !.exit_after_reset = waits], e)
<1>1. Unattended(freed)
  <2>1. Sound(ReleaseFence(m)) /\ ReleaseFence(m).worker = NoWorker
    <3>1. IsRecord(m)
      BY DEF Sound
    <3>2. ReleaseFence(m).worker = NoWorker
      BY <3>1 DEF IsRecord, Fields, ReleaseFence
    <3> QED
      BY <3>2, ReleaseFenceSound
  <2>2. Unattended(ReleaseFence(m))
    BY <2>1, UnattendedKept
  <2> QED
    BY <2>2, UpdateUnattended DEF ResetRequestProgress, Fields
<1> HIDE DEF failed, freed
<1>2. Unattended(cleared)
  BY <1>1, UpdateUnattended DEF Fields
<1> HIDE DEF cleared
<1>3. Sound(home)
  BY <1>2, UnattendedSound DEF RestoreStates
<1> HIDE DEF home
<1>4. Sound([home EXCEPT !.exit_after_reset = TRUE])
  BY <1>3, UpdateSound DEF Fields, Watched
<1>5. Sound(reset)
  BY <1>3, <1>4, BeginStagedStateResetSound
<1> HIDE DEF reset, waits
<1>6. Sound([reset EXCEPT !.exit_after_reset = waits])
  BY <1>5, UpdateSound DEF Fields, Watched
<1>7. Sound(drained)
  BY <1>6, DrainSound
<1> HIDE DEF drained
<1>8. Sound([drained EXCEPT !.exit_after_reset = FALSE])
  BY <1>7, UpdateSound DEF Fields, Watched
<1>9. RestoreConfirmed(m, e) \in
        {[drained EXCEPT !.exit_after_reset = FALSE], drained, ExitHelper(drained, 0)}
  BY DEF RestoreConfirmed, drained, waits, reset, home, cleared, failed, freed
<1> QED
  BY <1>7, <1>8, <1>9, ExitHelperSound

(* handle_recovery_validation_completed() confirms the restore or retries it.     *)
LEMMA HandleValidationCompletedSound ==
  ASSUME NEW m, Sound(m), NEW c, NEW e
  PROVE  Sound(HandleValidationCompleted(m, c, e))
<1>1. Sound(Drain(RetainAfterCancelledRecovery(ReleaseFence(m)), e))
  BY ReleaseFenceSound, RetainAfterCancelledRecoverySound, DrainSound
<1> QED
  BY <1>1, RestoreConfirmedSound, RetryRestoreSound DEF HandleValidationCompleted

(* Every completion handler keeps a memory sound.                                   *)
LEMMA HandleCompletionSound ==
  ASSUME NEW m, Sound(m), NEW c \in Completion, NEW e
  PROVE  Sound(HandleCompletion(m, c, e))
<1>1. c.kind \in {"Apply", "RefreshRate", "Recovery", "Validation", "Verification", "Reset"}
  BY DEF Completion, TaskKinds, WorkerKinds
<1> QED
  BY <1>1, HandleApplyCompletedSound, HandleVerificationCompletedSound, HandleResetCompletedSound,
     HandleRefreshRateCompletedSound, HandleRecoveryCompletedSound, HandleValidationCompletedSound
     DEF HandleCompletion

--------------------------------------------------------------------------------
(* Display events, ticks, the lost connection                                       *)

(* A display event of a session repairs it, or queues its repair.                   *)
LEMMA SessionEventSound ==
  ASSUME NEW m, IsHelper(m), Sound(m), NEW e \in Env
  PROVE  Sound(MonitoredEvent(m, e)) /\ Sound(ApplyingEvent(m, e))
<1>1. ASSUME NEW n, Sound(n) PROVE Sound(Retarget(n, e))
  <2> DEFINE request == [n.request EXCEPT !.device = e.device]
  <2>1. Retarget(n, e) \in {n, [n EXCEPT !.request = request]}
    BY <1>1 DEF Retarget, Sound, IsRecord, Fields
  <2> HIDE DEF request
  <2>2. Sound([n EXCEPT !.request = request])
    BY <1>1, UpdateSound DEF Fields, Watched
  <2> QED
    BY <1>1, <2>1, <2>2
<1>2. Sound(RestartAfterMutation(m, e))
  <2> DEFINE r == Retarget(m, e)
  <2>1. Sound(r) /\ IsHelper(r)
    BY <1>1, RetargetType
  <2> HIDE DEF r
  <2>2. RestartCommand(r) \in Command
    BY <2>1 DEF RestartCommand, Command, IsHelper, Typed
  <2> QED
    BY <2>1, <2>2, DeferSound DEF RestartAfterMutation, r
<1>3. Sound(DispatchVerification([m EXCEPT !.check_pending = TRUE], "Stabilization"))
  <2>1. Sound([m EXCEPT !.check_pending = TRUE])
    BY UpdateSound DEF Fields, Watched
  <2> QED
    BY <2>1, DispatchVerificationSound
<1> DEFINE cancelled == CancelOperations(m)
           rewound == RewindStabilization(Retarget(cancelled, e))
<1>4. Sound(cancelled)
  BY CancelOperationsSound
<1> HIDE DEF cancelled
<1>5. Sound(rewound)
  BY <1>1, <1>4, LaddersSound
<1> HIDE DEF rewound
<1>6. Sound([rewound EXCEPT !.attempt = 1]) /\ Sound([cancelled EXCEPT !.attempt = 1])
  BY <1>4, <1>5, UpdateSound DEF Fields, Watched
<1>7. Sound(MonitoredEvent(m, e))
  BY <1>2, <1>3, <1>6, ApplyAgainSound DEF MonitoredEvent, rewound, cancelled
<1> DEFINE again == Retarget(RewindStabilization([cancelled EXCEPT !.attempt = 1]), e)
<1>8. Sound(again)
  BY <1>1, <1>6, LaddersSound
<1> HIDE DEF again
<1>9. Sound(ApplyingEvent(m, e))
  BY <1>2, <1>8, ApplyAgainSound DEF ApplyingEvent, again, cancelled
<1> QED
  BY <1>7, <1>9

(* In the event loop the next attempt starts at once, with a fresh window.          *)
LEMMA HandleDisplayEventSound ==
  ASSUME NEW m, IsHelper(m), Sound(m), NEW e \in Env
  PROVE  Sound(HandleDisplayEvent(m, e))
<1> DEFINE opened == [m EXCEPT !.scheduler = "open"]
<1>1. ASSUME m.state = "EventLoop"
      PROVE  Sound(StartRecovery(opened))
  <2>1. m.worker = NoWorker /\ m.recovery_armed /\ m.snapshot
    BY <1>1 DEF Sound, RestoreKept, RestorePending, RestoreStates
  <2>2. Unattended(opened)
    BY <2>1, UnattendedKept, UpdateUnattended DEF Fields
  <2>3. opened.recovery_armed /\ opened.snapshot /\ opened.scheduler # "off"
    BY <2>1 DEF Sound, IsRecord, Fields
  <2> HIDE DEF opened
  <2> QED
    BY <2>2, <2>3, StartRecoverySound
<1> QED
  BY <1>1, SessionEventSound DEF HandleDisplayEvent

(* handle_tick() retries, or ends the window with the scheduler still armed.        *)
LEMMA TickSound ==
  ASSUME NEW m, Sound(m), RetryDue(m)
  PROVE  Sound(TickAttempt(m)) /\ Sound(TickExpire(m))
<1>1. m.worker = NoWorker /\ m.recovery_armed /\ m.snapshot /\ m.scheduler # "off"
  BY DEF Sound, RestoreKept, RestorePending, RestoreStates, RetryDue
<1>2. Unattended(m)
  BY <1>1, UnattendedKept
<1>3. Sound(TickAttempt(m))
  BY <1>1, <1>2, StartRecoverySound DEF TickAttempt
<1> DEFINE n == TickExpire(m)
<1>4. IsRecord(n)
  BY UpdateIsRecord DEF Sound, TickExpire, Fields
<1>5. /\ n.state = m.state /\ n.worker = m.worker /\ n.recovery_armed = m.recovery_armed
      /\ n.snapshot = m.snapshot /\ n.scheduler = "expired"
      /\ n.generation = m.generation /\ n.deferred = m.deferred
  BY DEF Sound, IsRecord, Fields, TickExpire
<1> HIDE DEF n
<1>6. Sound(n)
  BY <1>1, <1>4, <1>5 DEF Sound, RestoreKept, RestorePending, NoWorker
<1> QED
  BY <1>3, <1>6 DEF n

(* The lost connection settles the session, or reverts it.                          *)
LEMMA HandleDisconnectSound ==
  ASSUME NEW m, Sound(m), NEW epoch
  PROVE  Sound(HandleDisconnect(m, epoch))
<1> DEFINE down == [m EXCEPT !.link = "down"]
<1>1. Sound(down)
  BY UpdateSound DEF Fields, Watched
<1> HIDE DEF down
<1>2. Sound([down EXCEPT !.restore_origin = epoch])
  BY <1>1, UpdateSound DEF Fields, Watched
<1>3. Sound(HandleRevertCommand([down EXCEPT !.restore_origin = epoch], DisconnectRevert))
  BY <1>2, DisconnectRevertType, HandleRevertCommandSound
<1>4. Sound(BeginSettlement(down))
  <2> DEFINE replaced == IF WorkerActive(down) THEN down ELSE ReplaceStabilization(down)
             asked == [replaced EXCEPT !.settle_requested = TRUE]
  <2>1. Sound(replaced)
    BY <1>1, ReplaceStabilizationSound
  <2> HIDE DEF replaced
  <2>2. Sound(asked)
    BY <2>1, UpdateSound DEF Fields, Watched
  <2> HIDE DEF asked
  <2> QED
    BY <1>1, <2>2, NextSettleSound DEF BeginSettlement, asked, replaced
<1> QED
  BY <1>1, <1>3, <1>4 DEF HandleDisconnect, down

(* A StateMachine starts sound: it restores nothing and nobody works.               *)
LEMMA FreshHelperSound ==
  ASSUME NEW snapshot, NEW osTask, NEW owed, NEW verdict
  PROVE  Unattended(FreshHelper(snapshot, osTask, owed, verdict))
         /\ Sound(FreshHelper(snapshot, osTask, owed, verdict))
<1> DEFINE n == FreshHelper(snapshot, osTask, owed, verdict)
<1>1. IsRecord(n)
  BY DEF FreshHelper, IsRecord, Fields
<1>2. n.generation = 0 /\ n.deferred = <<>> /\ n.worker = NoWorker /\ n.state = "Waiting"
  BY DEF FreshHelper
<1> HIDE DEF n
<1>3. Unattended(n)
  BY <1>1, <1>2 DEF Unattended
<1>4. Sound(n)
  BY <1>2, <1>3, UnattendedSound DEF RestoreStates
<1> QED
  BY <1>3, <1>4 DEF n

--------------------------------------------------------------------------------
(* The process                                                                      *)

(* A well-typed memory in which RestoreKept holds is sound.                         *)
LEMMA SoundMemory ==
  ASSUME TypeOK, RestoreKept(h)
  PROVE  IsHelper(h) /\ Sound(h)
  BY TypedMemory DEF Sound, IsHelper, Typed

(* RestoreKept is inductive, given the types: every action leaves a sound memory.   *)
LEMMA NextRestoreKept ==
  ASSUME TypeOK, RestoreKept(h), [Next]_vars
  PROVE  RestoreKept(h')
<1>1. IsHelper(h) /\ Sound(h)
  BY SoundMemory
<1>2. SUFFICES Sound(h')
  BY DEF Sound
<1>3. ASSUME NEW n, NEW f \in Fields \ Watched, NEW v, n = [h EXCEPT ![f] = v]
      PROVE  Sound(n)
  BY <1>1, <1>3, UpdateSound
<1>4. CASE Client
  <2>1. CASE ClientApply
    <3>1. PICK request \in Request, e \in Env :
            h' = HandleApplyCommand(h, ClientCommand("APPLY", request), e)
      BY <2>1, ClientApplyType
    <3> QED
      BY <1>1, <3>1, ClientCommandType, HandleApplyCommandSound
  <2>2. CASE ClientRevert
    <3>1. Sound([h EXCEPT !.restore_origin = h.epoch])
      BY <1>1, UpdateSound DEF Fields, Watched
    <3> QED
      BY <2>2, <3>1, ClientCommandType, NoRequestType, HandleRevertCommandSound DEF ClientRevert
  <2>3. CASE ClientDisarm
    BY <1>1, <2>3, ClientCommandType, NoRequestType, HandleDisarmCommandSound DEF ClientDisarm
  <2>4. CASE ClientReset
    BY <1>1, <2>4, ClientCommandType, NoRequestType, HandleResetCommandSound DEF ClientReset
  <2>5. CASE ClientRefreshRate
    BY <1>1, <2>5, HandleRefreshRateCommandSound DEF ClientRefreshRate
  <2>6. CASE ClientCapture
    BY <1>1, <2>6, HandleCaptureSound DEF ClientCapture
  <2> QED
    BY <1>4, <2>1, <2>2, <2>3, <2>4, <2>5, <2>6 DEF Client
<1>5. CASE Connection
  <2>1. ASSUME NEW link PROVE Sound([h EXCEPT !.link = link, !.epoch = @ + 1])
    BY <1>1, UpdateSound DEF Fields, Watched
  <2>2. CASE NoticeDisconnect
    BY <1>1, <2>2, HandleDisconnectSound DEF NoticeDisconnect
  <2> QED
    BY <1>5, <2>1, <2>2 DEF Connection, Connect, Break
<1>6. CASE GraceEnds
  BY <1>1, <1>6, UpdateSound DEF GraceEnds, Fields, Watched
<1>7. CASE HandleMail
  <2>1. Head(mail) \in Completion
    BY <1>7 DEF HandleMail, TakeMail, TypeOK
  <2> QED
    BY <1>1, <1>7, <2>1, HandleCompletionSound DEF HandleMail
<1>8. CASE DisplayChange
  <2>1. vdd' \in Devices
    BY <1>8 DEF DisplayChange, TypeOK
  <2>2. [task: TaskOutcomes, capture: CaptureOutcomes, device: {vdd'}] \subseteq Env
    BY <2>1, OutcomesAssumption DEF Env
  <2> QED
    BY <1>1, <1>8, <2>2, HandleDisplayEventSound DEF DisplayChange
<1>9. CASE Tick
  BY <1>1, <1>9, TickSound DEF Tick
<1>10. CASE TimerFires
  <2>1. Sound([h EXCEPT !.timers = Tail(@)])
    BY <1>1, UpdateSound DEF Fields, Watched
  <2> QED
    BY <1>10, <2>1, EnqueueSound DEF TimerFires
<1>11. CASE WorkerThread
  <2>1. ASSUME NEW v
        PROVE  /\ Sound([h EXCEPT !.tasks = Tail(@)]) /\ Sound([h EXCEPT !.os_task = @ \/ v])
               /\ Sound([h EXCEPT !.owed = v]) /\ Sound([h EXCEPT !.restore_unconfirmed = TRUE])
    BY <1>1, UpdateSound DEF Fields, Watched
  <2>2. CASE TakeTask
    BY <2>1, <2>2 DEF TakeTask
  <2>3. CASE ApplyArms
    BY <2>1, <2>3 DEF ApplyArms
  <2>4. CASE ApplyMutates \/ ApplyRollsBack
    BY <2>1, <2>4 DEF ApplyMutates, ApplyRollsBack
  <2>5. CASE RecoveryBegins
    BY <2>1, <2>5 DEF RecoveryBegins
  <2>6. CASE ApplyStages \/ ApplyLands \/ ApplyFails \/ RecoverySkipped \/ RecoveryEnters
             \/ RecoveryRestores \/ RecoveryFails \/ ValidationEnds \/ VerificationEnds
             \/ RefreshRateEnds \/ ResetEnds
    BY <1>1, <2>6 DEF ApplyStages, ApplyLands, ApplyFails, RecoverySkipped, RecoveryEnters,
       RecoveryRestores, RecoveryFails, ValidationEnds, VerificationEnds, RefreshRateEnds, ResetEnds
  <2> QED
    BY <1>11, <2>2, <2>3, <2>4, <2>5, <2>6 DEF WorkerThread
<1>12. CASE Relaunch
  <2>1. Sound(NextProcess)
    BY FreshHelperSound DEF NextProcess
  <2>2. Sound([NextProcess EXCEPT !.link = "restore_mode"])
    BY <2>1, UpdateSound DEF Fields, Watched
  <2> QED
    BY <1>12, <2>1, <2>2, DisconnectRevertType, HandleRevertCommandSound DEF Relaunch
<1>13. CASE UNCHANGED vars
  BY <1>1, <1>13 DEF vars
<1> QED
  BY <1>4, <1>5, <1>6, <1>7, <1>8, <1>9, <1>10, <1>11, <1>12, <1>13 DEF Next

(* A restore in progress never loses its lease, and between two attempts the        *)
(* scheduler stays armed: whatever commands, cancellations, late completions, lost  *)
(* connections and crashes come between, the event loop has a next attempt.         *)
THEOREM RestoreStaysAlive == Spec => []RetryAlive
<1>1. Init => RestoreKept(h)
  BY FreshHelperSound DEF Init, Sound
<1>2. TypeOK /\ RestoreKept(h) /\ [Next]_vars => RestoreKept(h)'
  BY NextRestoreKept
<1>3. RestoreKept(h) => RetryAlive
  BY DEF RestoreKept, RetryAlive
<1> QED
  BY <1>1, <1>2, <1>3, TypeCorrect, PTL DEF Spec

================================================================================
