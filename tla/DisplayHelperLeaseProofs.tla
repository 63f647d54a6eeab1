------------------------- MODULE DisplayHelperLeaseProofs -------------------------
(* THEOREM LeaseIsHeld: until the helper first dies, a desktop that an APPLY has    *)
(* changed is under the recovery lease once that APPLY is over.                     *)
(* THEOREM GuardIsDurable: and Windows has the restore task that guards it.         *)
(* THEOREM LiveClientsOnly: a session begins only on a living connection.           *)
(* THEOREM DeferredWaits: until a connection breaks, what is deferred waits for a    *)
(* worker or a reset; THEOREM ExitHasReset: and an exit that waits, for a reset.     *)
(*                                                                                  *)
(* They speak of few members of the memory, and of those most operators write none. *)
(* So the lemmas relate the memory m before an operator to the memory n after it:   *)
(* Secures(m, n) says that the lease is at least as strong in n and that nothing    *)
(* was deferred or begun; Eases(m, n) allows what a command may do besides.         *)
EXTENDS DisplayHelperFenceProofs

(* The lease, the task that outlives the helper, and both where they are owed.      *)
Leased(m) == m.recovery_armed /\ m.changes_pending
Guarded(m) == m.os_task \/ TaskOutcomes # {TRUE}
Covered(m) == m.owed => Leased(m)
Settled(m) == m.owed => Leased(m) /\ Guarded(m)

(* A connection that is up, or was once: such an epoch is stale unless it is up.    *)
Alive(m, epoch) == epoch \in 1..m.epoch /\ (epoch = m.epoch => m.link = "up")
LiveCommands(m) == {c \in Command : c.type = "APPLY" => Alive(m, c.epoch)}
(* An APPLY that waits, and the one the helper repeats for a virtual display, come  *)
(* from such a connection.                                                          *)
Linked(m) ==
    /\ IsRecord(m) /\ m.request \in Request /\ m.epoch \in Nat
    /\ m.deferred \in Seq(LiveCommands(m))
    /\ m.link = "up" => m.epoch # 0
    /\ m.request.virtual => Alive(m, m.reply_epoch)

(* The members these speak of.                                                      *)
LeaseFields == {"owed", "recovery_armed", "changes_pending", "os_task",
                "deferred", "epoch", "link", "request", "reply_epoch"}

Firm(m, n) ==
    n.owed = m.owed /\ (Leased(m) => Leased(n)) /\ (m.os_task => n.os_task)
Secures(m, n) ==
    /\ IsRecord(n) /\ n.request \in Request /\ Firm(m, n)
    /\ n.deferred = m.deferred /\ n.epoch = m.epoch /\ n.link = m.link
    /\ n.request.id = m.request.id /\ n.request.virtual = m.request.virtual
    /\ n.reply_epoch = m.reply_epoch
Eases(m, n) ==
    /\ Linked(n) /\ n.epoch = m.epoch /\ n.link = m.link
    /\ n.request.id = m.request.id \/ m.link = "up"
    /\ Settled(m) => Settled(n)

--------------------------------------------------------------------------------
(* Operators that leave commands and requests alone                                 *)

(* An assignment to any other member secures the lease.                             *)
LEMMA UpdateSecures ==
  ASSUME NEW m, NEW n, Secures(m, n), NEW f \in Fields \ LeaseFields, NEW v
  PROVE  Secures(m, [n EXCEPT ![f] = v])
<1> DEFINE k == [n EXCEPT ![f] = v]
<1>1. IsRecord(k)
  BY UpdateIsRecord DEF Secures
<1>2. \A g \in LeaseFields : k[g] = n[g]
  BY DEF Secures, IsRecord, Fields, LeaseFields
<1>3. /\ k.owed = n.owed /\ k.recovery_armed = n.recovery_armed
      /\ k.changes_pending = n.changes_pending /\ k.os_task = n.os_task
      /\ k.deferred = n.deferred /\ k.epoch = n.epoch /\ k.link = n.link
      /\ k.request = n.request /\ k.reply_epoch = n.reply_epoch
  BY <1>2 DEF LeaseFields
<1> HIDE DEF k
<1>4. Secures(m, k)
  BY <1>1, <1>3 DEF Secures, Firm, Leased
<1> QED
  BY <1>4 DEF k

LEMMA SelfSecures ==
  ASSUME NEW m, Linked(m)
  PROVE  Secures(m, m) /\ Eases(m, m)
  BY DEF Secures, Firm, Linked, Eases

(* Cancellation, transition, dispatch                                               *)
LEMMA BasicsSecure ==
  ASSUME NEW m, NEW n, Secures(m, n), NEW v
  PROVE  /\ Secures(m, CancelOperations(n)) /\ Secures(m, Transition(n, v))
         /\ Secures(m, Enqueue(n, v)) /\ Secures(m, Fence(n, v)) /\ Secures(m, ReleaseFence(n))
         /\ Secures(m, SendApplyResult(n)) /\ Secures(m, SendVerificationResult(n, v))
<1>1. Secures(m, CancelOperations(n))
  BY UpdateSecures DEF CancelOperations, Fields, LeaseFields
<1>2. Secures(m, Transition(n, v))
  BY UpdateSecures DEF Transition, Fields, LeaseFields
<1>3. Secures(m, Enqueue(n, v))
  BY UpdateSecures DEF Enqueue, Fields, LeaseFields
<1>4. Secures(m, Fence(n, v))
  BY UpdateSecures DEF Fence, Fields, LeaseFields
<1>5. Secures(m, ReleaseFence(n))
  BY UpdateSecures DEF ReleaseFence, Fields, LeaseFields
<1>6. Secures(m, SendApplyResult(n))
  BY UpdateSecures DEF SendApplyResult, Fields, LeaseFields
<1>7. Secures(m, SendVerificationResult(n, v))
  <2> DEFINE verdict == [id \in RequestIds |->
                          IF id = n.request.id THEN IF v THEN "ok" ELSE "failed" ELSE n.verdict[id]]
  <2>1. Secures(m, [n EXCEPT !.verification_sent = TRUE])
    BY UpdateSecures DEF Fields, LeaseFields
  <2>2. Secures(m, [[n EXCEPT !.verification_sent = TRUE] EXCEPT !.verdict = verdict])
    <3> HIDE DEF verdict
    <3> QED
      BY <2>1, UpdateSecures DEF Fields, LeaseFields
  <2>3. SendVerificationResult(n, v) =
          IF n.verification_sent THEN n
          ELSE [[n EXCEPT !.verification_sent = TRUE] EXCEPT !.verdict = verdict]
    BY DEF SendVerificationResult, Secures, IsRecord, Fields
  <2> HIDE DEF verdict
  <2> QED
    BY <2>2, <2>3
<1> QED
  BY <1>1, <1>2, <1>3, <1>4, <1>5, <1>6, <1>7

(* What is dispatched                                                               *)
LEMMA DispatchSecures ==
  ASSUME NEW m, NEW n, Secures(m, n), NEW v
  PROVE  /\ Secures(m, DispatchApply(n)) /\ Secures(m, DispatchRecovery(n))
         /\ Secures(m, DispatchRefreshRate(n, v)) /\ Secures(m, DispatchValidation(n))
         /\ Secures(m, DispatchVerification(n, v)) /\ Secures(m, DispatchVerificationAfter(n, v))
         /\ Secures(m, BeginStagedStateReset(n))
<1>1. Secures(m, DispatchApply(n)) /\ Secures(m, DispatchRecovery(n))
  BY BasicsSecure DEF DispatchApply, DispatchRecovery
<1>2. Secures(m, DispatchRefreshRate(n, v)) /\ Secures(m, DispatchVerification(n, v))
  BY BasicsSecure DEF DispatchRefreshRate, DispatchVerification
<1>3. Secures(m, DispatchVerificationAfter(n, v))
  BY UpdateSecures DEF DispatchVerificationAfter, Fields, LeaseFields
<1>4. Secures(m, DispatchValidation(n))
  <2> DEFINE t == TaskFor(n, "Validation")
             k == Enqueue(n, t)
             worker == [k.worker EXCEPT !.generation = n.generation]
  <2>1. Secures(m, k)
    BY BasicsSecure
  <2>2. DispatchValidation(n) = [k EXCEPT !.worker = worker]
    BY DEF DispatchValidation
  <2> HIDE DEF k, worker
  <2> QED
    BY <2>1, <2>2, UpdateSecures DEF Fields, LeaseFields
<1>5. Secures(m, BeginStagedStateReset(n))
  <2>1. Secures(m, [n EXCEPT !.reset_pending = TRUE])
    BY UpdateSecures DEF Fields, LeaseFields
  <2> QED
    BY <2>1, BasicsSecure DEF BeginStagedStateReset
<1> QED
  BY <1>1, <1>2, <1>3, <1>4, <1>5

(* The ladders and the settlement                                                   *)
LEMMA LaddersSecure ==
  ASSUME NEW m, NEW n, Secures(m, n)
  PROVE  /\ Secures(m, ResetStabilization(n)) /\ Secures(m, RewindStabilization(n))
         /\ Secures(m, ResetSettlement(n)) /\ Secures(m, ResetRequestProgress(n))
         /\ Secures(m, ReplaceStabilization(n))
<1>1. ASSUME NEW k, Secures(m, k) PROVE Secures(m, ResetStabilization(k))
  BY <1>1, UpdateSecures DEF ResetStabilization, Fields, LeaseFields
<1>2. Secures(m, RewindStabilization(n))
  BY UpdateSecures DEF RewindStabilization, Fields, LeaseFields
<1>3. Secures(m, ResetSettlement(n))
  BY UpdateSecures DEF ResetSettlement, Fields, LeaseFields
<1>4. Secures(m, ResetRequestProgress(n))
  BY UpdateSecures DEF ResetRequestProgress, Fields, LeaseFields
<1>5. Secures(m, ReplaceStabilization(n))
  BY <1>1, BasicsSecure DEF ReplaceStabilization
<1> QED
  BY <1>1, <1>2, <1>3, <1>4, <1>5

(* The states that are entered with a dispatch                                      *)
LEMMA StagesSecure ==
  ASSUME NEW m, NEW n, Secures(m, n), NEW v
  PROVE  /\ Secures(m, StartRecovery(n)) /\ Secures(m, EnterSteadyState(n))
         /\ Secures(m, ScheduleNextCheck(n)) /\ Secures(m, NextReapply(n))
         /\ Secures(m, NextSettle(n)) /\ Secures(m, SettlementRepair(n))
         /\ Secures(m, StabilizationRepair(n)) /\ Secures(m, ExitHelper(n, v))
<1>1. Secures(m, StartRecovery(n))
  <2>1. Secures(m, [n EXCEPT !.recovery_reset = "none"])
    BY UpdateSecures DEF Fields, LeaseFields
  <2> QED
    BY <2>1, BasicsSecure, DispatchSecures DEF StartRecovery
<1>2. Secures(m, EnterSteadyState(n))
  BY BasicsSecure DEF EnterSteadyState
<1>3. Secures(m, ScheduleNextCheck(n))
  <2>1. Secures(m, [n EXCEPT !.next_check = @ + 1, !.check_pending = TRUE])
    BY UpdateSecures DEF Fields, LeaseFields
  <2> QED
    BY <2>1, DispatchSecures DEF ScheduleNextCheck
<1>4. Secures(m, NextReapply(n))
  <2>1. Secures(m, [n EXCEPT !.next_reapply = @ + 1])
    BY UpdateSecures DEF Fields, LeaseFields
  <2>2. Secures(m, [n EXCEPT !.next_reapply = @ + 1,
                             !.next_check = IF @ < n.next_reapply THEN n.next_reapply ELSE @])
    BY <2>1, UpdateSecures DEF Fields, LeaseFields
  <2> QED
    BY <2>1, <2>2, BasicsSecure, DispatchSecures DEF NextReapply
<1>5. Secures(m, NextSettle(n))
  <2>1. Secures(m, [n EXCEPT !.next_settle = @ + 1, !.settle_pending = TRUE])
    BY UpdateSecures DEF Fields, LeaseFields
  <2> QED
    BY <2>1, BasicsSecure, DispatchSecures, LaddersSecure DEF NextSettle
<1>6. Secures(m, SettlementRepair(n))
  <2>1. Secures(m, CancelOperations(n))
    BY BasicsSecure
  <2>2. Secures(m, [CancelOperations(n) EXCEPT !.settle_pending = FALSE, !.settle_repairing = TRUE])
    BY <2>1, UpdateSecures DEF Fields, LeaseFields
  <2> QED
    BY <2>2, BasicsSecure, DispatchSecures DEF SettlementRepair
<1>7. Secures(m, StabilizationRepair(n))
  <2> DEFINE stage == IF n.next_reapply < n.next_check + 1 THEN n.next_check + 1 ELSE n.next_reapply
  <2>1. Secures(m, [n EXCEPT !.next_reapply = stage])
    BY UpdateSecures DEF Fields, LeaseFields
  <2>2. StabilizationRepair(n) =
        DispatchApply(Transition([n EXCEPT !.next_reapply = stage], "InProgress"))
    BY DEF StabilizationRepair
  <2> HIDE DEF stage
  <2> QED
    BY <2>1, <2>2, BasicsSecure, DispatchSecures
<1>8. Secures(m, ExitHelper(n, v))
  <2>1. Secures(m, CancelOperations(n)) /\ Secures(m, [n EXCEPT !.restore_origin = 0])
    BY BasicsSecure, UpdateSecures DEF Fields, LeaseFields
  <2>2. Secures(m, [CancelOperations(n) EXCEPT !.exited = TRUE, !.exit_code = v])
    BY <2>1, UpdateSecures DEF Fields, LeaseFields
  <2> QED
    BY <2>1, <2>2 DEF ExitHelper
<1> QED
  BY <1>1, <1>2, <1>3, <1>4, <1>5, <1>6, <1>7, <1>8

--------------------------------------------------------------------------------
(* The lease                                                                        *)

(* The lease is taken, and the restore task with it.                                *)
LEMMA LeaseSecures ==
  ASSUME NEW m, NEW n, Secures(m, n), NEW c, NEW e
  PROVE  /\ Secures(m, ActivateRecoveryLease(n)) /\ Leased(ActivateRecoveryLease(n))
         /\ Secures(m, CreateRestoreTaskIfMissing(n, e))
         /\ Secures(m, RetainAfterMutation(n, c, e)) /\ Leased(RetainAfterMutation(n, c, e))
         /\ Secures(m, RetainAfterCancelledRecovery(n)) /\ Leased(RetainAfterCancelledRecovery(n))
<1>1. ASSUME NEW k, Secures(m, k), NEW a, a = [k EXCEPT !.recovery_armed = TRUE, !.changes_pending = TRUE]
      PROVE  Secures(m, a) /\ Leased(a)
  <2>1. IsRecord(a)
    BY <1>1, UpdateIsRecord DEF Secures, Fields
  <2>2. /\ a.owed = k.owed /\ a.recovery_armed = TRUE
        /\ a.changes_pending = TRUE /\ a.os_task = k.os_task
        /\ a.deferred = k.deferred /\ a.epoch = k.epoch /\ a.link = k.link
        /\ a.request = k.request /\ a.reply_epoch = k.reply_epoch
    BY <1>1 DEF Secures, IsRecord, Fields
  <2> QED
    BY <1>1, <2>1, <2>2 DEF Secures, Firm, Leased
<1>2. ASSUME NEW k, Secures(m, k)
      PROVE  Secures(m, ActivateRecoveryLease(k)) /\ Leased(ActivateRecoveryLease(k))
  <2> DEFINE a == [k EXCEPT !.recovery_armed = TRUE, !.changes_pending = TRUE]
             r == a.request.restore_on_disconnect
             b == [a EXCEPT !.restore_on_disconnect = r]
  <2>1. Secures(m, a) /\ Leased(a)
    BY <1>1, <1>2
  <2>2. ActivateRecoveryLease(k) = b
    BY DEF ActivateRecoveryLease, ApplyRecoveryPolicy
  <2> HIDE DEF a, r
  <2>3. Secures(m, b)
    BY <2>1, UpdateSecures DEF Fields, LeaseFields
  <2>4. Leased(b)
    BY <2>1 DEF Leased, Secures, IsRecord, Fields
  <2> QED
    BY <2>2, <2>3, <2>4
<1>3. ASSUME NEW k, Secures(m, k)
      PROVE  /\ Secures(m, CreateRestoreTaskIfMissing(k, e))
             /\ Leased(k) => Leased(CreateRestoreTaskIfMissing(k, e))
  <2> DEFINE os == k.os_task \/ e.task
             a == [k EXCEPT !.task_created = e.task]
             b == [a EXCEPT !.os_task = os]
  <2>1. Secures(m, a)
    BY <1>3, UpdateSecures DEF Fields, LeaseFields
  <2>2. k.os_task => os
    OBVIOUS
  <2>3. CreateRestoreTaskIfMissing(k, e) = IF k.task_created THEN k ELSE b
    BY <1>3 DEF CreateRestoreTaskIfMissing, Secures, IsRecord, Fields
  <2>4. a.os_task = k.os_task /\ a.recovery_armed = k.recovery_armed
        /\ a.changes_pending = k.changes_pending
    BY <1>3 DEF Secures, IsRecord, Fields
  <2> HIDE DEF a, os
  <2>5. IsRecord(b)
    BY <2>1, UpdateIsRecord DEF Secures, Fields
  <2>6. /\ b.owed = a.owed /\ b.recovery_armed = a.recovery_armed
        /\ b.changes_pending = a.changes_pending /\ b.os_task = os
        /\ b.deferred = a.deferred /\ b.epoch = a.epoch /\ b.link = a.link
        /\ b.request = a.request /\ b.reply_epoch = a.reply_epoch
    BY <2>1 DEF Secures, IsRecord, Fields
  <2> HIDE DEF b
  <2>7. Secures(m, b) /\ (Leased(k) => Leased(b))
    BY <2>1, <2>2, <2>4, <2>5, <2>6 DEF Secures, Firm, Leased
  <2> QED
    BY <1>3, <2>3, <2>7
<1>4. Secures(m, RetainAfterMutation(n, c, e)) /\ Leased(RetainAfterMutation(n, c, e))
  <2>1. Secures(m, [n EXCEPT !.task_created = @ \/ c.durable])
    BY UpdateSecures DEF Fields, LeaseFields
  <2> QED
    BY <1>2, <1>3, <2>1 DEF RetainAfterMutation
<1>5. Secures(m, RetainAfterCancelledRecovery(n)) /\ Leased(RetainAfterCancelledRecovery(n))
  <2> DEFINE a == [n EXCEPT !.recovery_armed = TRUE, !.changes_pending = TRUE]
             b == [a EXCEPT !.unconfirmed_mutation = TRUE]
  <2>1. Secures(m, a) /\ Leased(a)
    BY <1>1
  <2>2. RetainAfterCancelledRecovery(n) = b
    BY DEF RetainAfterCancelledRecovery
  <2> HIDE DEF a
  <2>3. Secures(m, b)
    BY <2>1, UpdateSecures DEF Fields, LeaseFields
  <2>4. Leased(b)
    BY <2>1 DEF Leased, Secures, IsRecord, Fields
  <2> QED
    BY <2>2, <2>3, <2>4
<1> QED
  BY <1>2, <1>3, <1>4, <1>5

(* What secures the lease eases it, and so does what is done after.                 *)
LEMMA SecuresEases ==
  ASSUME NEW m, NEW n, NEW k, Eases(m, n), Secures(n, k)
  PROVE  Eases(m, k)
<1>1. LiveCommands(k) = LiveCommands(n)
  BY DEF LiveCommands, Alive, Secures
<1>2. Linked(k)
  BY <1>1 DEF Eases, Linked, Secures, Alive
<1>3. Settled(n) => Settled(k)
  BY DEF Settled, Guarded, Secures, Firm
<1> QED
  BY <1>2, <1>3 DEF Eases, Secures

LEMMA EasesTransitive ==
  ASSUME NEW m, NEW n, NEW k, Eases(m, n), Eases(n, k)
  PROVE  Eases(m, k)
  BY DEF Eases

LEMMA FirmTransitive ==
  ASSUME NEW m, NEW n, NEW k, Firm(m, n), Firm(n, k)
  PROVE  Firm(m, k)
  BY DEF Firm

(* A member of the lease changes: the commands do not.                              *)
LEMMA UpdateLinked ==
  ASSUME NEW m, Linked(m), NEW f \in Fields \ {"deferred", "epoch", "link", "request", "reply_epoch"},
         NEW v
  PROVE  /\ Linked([m EXCEPT ![f] = v]) /\ [m EXCEPT ![f] = v].epoch = m.epoch
         /\ [m EXCEPT ![f] = v].link = m.link /\ [m EXCEPT ![f] = v].request = m.request
<1> DEFINE n == [m EXCEPT ![f] = v]
<1>1. IsRecord(n)
  BY UpdateIsRecord DEF Linked
<1>2. /\ n.deferred = m.deferred /\ n.epoch = m.epoch /\ n.link = m.link
      /\ n.request = m.request /\ n.reply_epoch = m.reply_epoch
  BY DEF Linked, IsRecord, Fields
<1> HIDE DEF n
<1>3. LiveCommands(n) = LiveCommands(m)
  BY <1>2 DEF LiveCommands, Alive
<1>4. Linked(n)
  BY <1>1, <1>2, <1>3 DEF Linked, Alive
<1> QED
  BY <1>2, <1>4 DEF n

LEMMA OwedLinked ==
  ASSUME NEW m, Linked(m), NEW owed
  PROVE  Linked([m EXCEPT !.owed = owed]) /\ [m EXCEPT !.owed = owed].request = m.request
  BY UpdateLinked DEF Fields

(* clear_recovery_state() ends the duty to restore.                                 *)
LEMMA ClearRecoveryStateEases ==
  ASSUME NEW m, NEW n, Eases(m, n)
  PROVE  Eases(m, ClearRecoveryState(n))
<1> DEFINE k == ResetSettlement(ResetRequestProgress(n))
           k1 == [k EXCEPT !.scheduler = "off"]
           k2 == [k1 EXCEPT !.recovery_armed = FALSE]
           k3 == [k2 EXCEPT !.changes_pending = FALSE]
           k4 == [k3 EXCEPT !.explicit_recovery = FALSE]
           k5 == [k4 EXCEPT !.last_apply = "none"]
           k6 == [k5 EXCEPT !.os_task = FALSE]
           k7 == [k6 EXCEPT !.task_created = FALSE]
           k8 == [k7 EXCEPT !.owed = FALSE]
<1>1. Secures(n, n)
  BY SelfSecures DEF Eases
<1>2. Eases(m, k)
  BY <1>1, LaddersSecure, SecuresEases
<1>3. ClearRecoveryState(n) = k8
  BY DEF ClearRecoveryState
<1> HIDE DEF k
<1>4. Linked(k) /\ k.epoch = m.epoch /\ k.link = m.link /\ (k.request.id = m.request.id \/ m.link = "up")
  BY <1>2 DEF Eases
<1>5. Linked(k2) /\ k2.epoch = k.epoch /\ k2.link = k.link /\ k2.request = k.request
  <2>1. Linked(k1) /\ k1.epoch = k.epoch /\ k1.link = k.link /\ k1.request = k.request
    BY <1>4, UpdateLinked DEF Fields
  <2> HIDE DEF k1
  <2> QED
    BY <2>1, UpdateLinked DEF Fields
<1> HIDE DEF k2
<1>6. Linked(k4) /\ k4.epoch = k.epoch /\ k4.link = k.link /\ k4.request = k.request
  <2>1. Linked(k3) /\ k3.epoch = k.epoch /\ k3.link = k.link /\ k3.request = k.request
    BY <1>5, UpdateLinked DEF Fields
  <2> HIDE DEF k3
  <2> QED
    BY <2>1, UpdateLinked DEF Fields
<1> HIDE DEF k4
<1>7. Linked(k6) /\ k6.epoch = k.epoch /\ k6.link = k.link /\ k6.request = k.request
  <2>1. Linked(k5) /\ k5.epoch = k.epoch /\ k5.link = k.link /\ k5.request = k.request
    BY <1>6, UpdateLinked DEF Fields
  <2> HIDE DEF k5
  <2> QED
    BY <2>1, UpdateLinked DEF Fields
<1> HIDE DEF k6
<1>8. Linked(k8) /\ k8.epoch = k.epoch /\ k8.link = k.link /\ k8.request = k.request /\ k8.owed = FALSE
  <2>1. Linked(k7) /\ k7.epoch = k.epoch /\ k7.link = k.link /\ k7.request = k.request
    BY <1>7, UpdateLinked DEF Fields
  <2> HIDE DEF k7
  <2>2. k8.owed = FALSE
    BY <2>1 DEF Linked, IsRecord, Fields
  <2> QED
    BY <2>1, <2>2, UpdateLinked DEF Fields
<1> QED
  BY <1>3, <1>4, <1>8 DEF Eases, Settled

(* reset_uncommitted_staged_state() deletes the restore task only where no lease is *)
(* held, so where nothing is owed.                                                  *)
LEMMA ResetUncommittedStagedStateEases ==
  ASSUME NEW m, NEW n, Eases(m, n)
  PROVE  Eases(m, ResetUncommittedStagedState(n))
<1> DEFINE k1 == [n EXCEPT !.os_task = FALSE]
           k2 == [k1 EXCEPT !.task_created = FALSE]
<1>1. Linked(n)
  BY DEF Eases
<1>2. Linked(k1) /\ k1.epoch = n.epoch /\ k1.link = n.link /\ k1.request = n.request
  BY <1>1, UpdateLinked DEF Fields
<1>3. k1.owed = n.owed
  BY <1>1 DEF Linked, IsRecord, Fields
<1> HIDE DEF k1
<1>4. Linked(k2) /\ k2.epoch = n.epoch /\ k2.link = n.link /\ k2.request = n.request
  BY <1>2, UpdateLinked DEF Fields
<1>5. k2.owed = n.owed
  BY <1>2, <1>3 DEF Linked, IsRecord, Fields
<1>6. k2 = [n EXCEPT !.os_task = FALSE, !.task_created = FALSE]
  BY DEF k1
<1> HIDE DEF k2
<1>7. ~n.recovery_armed => Eases(m, k2)
  BY <1>4, <1>5 DEF Eases, Settled, Leased
<1>8. ASSUME NEW k, Eases(m, k) PROVE Eases(m, BeginStagedStateReset(k))
  <2>1. Secures(k, k)
    BY <1>8, SelfSecures DEF Eases
  <2> QED
    BY <1>8, <2>1, DispatchSecures, SecuresEases
<1> QED
  BY <1>6, <1>7, <1>8 DEF ResetUncommittedStagedState

--------------------------------------------------------------------------------
(* Commands                                                                         *)

(* A queue loses its intent, or its head.                                           *)
LEMMA QueueOf ==
  ASSUME NEW S, NEW s \in Seq(S)
  PROVE  WithoutIntent(s) \in Seq(S)
  BY DEF WithoutIntent, RemoveAt

LEMMA DeferEases ==
  ASSUME NEW m, NEW n, Linked(m), Secures(m, n), NEW c \in LiveCommands(m)
  PROVE  /\ Eases(m, Defer(n, c)) /\ Firm(m, Defer(n, c))
         /\ Eases(m, Supersede(n, c)) /\ Firm(m, Supersede(n, c))
<1>1. ASSUME NEW k, Secures(m, k)
      PROVE  Eases(m, Defer(k, c)) /\ Firm(m, Defer(k, c))
  <2> DEFINE queue == Append(IF IsReset(c) THEN k.deferred ELSE WithoutIntent(k.deferred), c)
             d == [k EXCEPT !.deferred = queue]
  <2>1. k.deferred \in Seq(LiveCommands(m))
    BY <1>1 DEF Secures, Linked
  <2>2. queue \in Seq(LiveCommands(m))
    BY <2>1, QueueOf
  <2>3. Defer(k, c) = d
    BY DEF Defer
  <2> HIDE DEF queue
  <2>4. IsRecord(d)
    BY <1>1, UpdateIsRecord DEF Secures, Fields
  <2>5. /\ d.owed = k.owed /\ d.recovery_armed = k.recovery_armed
        /\ d.changes_pending = k.changes_pending /\ d.os_task = k.os_task
        /\ d.deferred = queue /\ d.epoch = k.epoch /\ d.link = k.link
        /\ d.request = k.request /\ d.reply_epoch = k.reply_epoch
    BY <1>1 DEF Secures, IsRecord, Fields
  <2> HIDE DEF d
  <2>6. LiveCommands(d) = LiveCommands(m)
    BY <1>1, <2>5 DEF LiveCommands, Alive, Secures
  <2>7. Linked(d)
    BY <1>1, <2>2, <2>4, <2>5, <2>6 DEF Linked, Secures, Alive
  <2>8. Firm(m, d)
    BY <1>1, <2>5 DEF Firm, Secures, Leased
  <2>9. Eases(m, d)
    BY <1>1, <2>5, <2>7, <2>8 DEF Eases, Secures, Firm, Settled, Guarded
  <2> QED
    BY <2>3, <2>8, <2>9
<1>2. Secures(m, CancelOperations(n))
  BY BasicsSecure
<1> QED
  BY <1>1, <1>2 DEF Supersede

(* A command that sets a member and clears the settlement, then goes on.            *)
LEMMA LatchedSecures ==
  ASSUME NEW m, Linked(m), NEW v
  PROVE  /\ Secures(m, ResetSettlement([m EXCEPT !.explicit_recovery = v]))
         /\ Secures(m, [ResetSettlement([m EXCEPT !.explicit_recovery = v]) EXCEPT !.scheduler = "off"])
<1>1. Secures(m, m)
  BY SelfSecures
<1>2. Secures(m, ResetSettlement([m EXCEPT !.explicit_recovery = v]))
  BY <1>1, UpdateSecures, LaddersSecure DEF Fields, LeaseFields
<1> QED
  BY <1>2, UpdateSecures DEF Fields, LeaseFields

(* The start of a session: only on the connection that is up.                       *)
LEMMA BeginApplyEases ==
  ASSUME NEW m, NEW n, Eases(m, n), NEW c \in LiveCommands(m), c.type = "APPLY",
         ~IsStaleConnection(m, c.epoch), NEW e
  PROVE  Eases(m, BeginApply(n, c, e))
<1> DEFINE base == ResetStabilization(CancelOperations(n))
           lease == n.recovery_armed \/ n.changes_pending
           first == [base EXCEPT
                !.lease_before_apply = lease,
                !.scheduler = "off", !.restore_unconfirmed = FALSE,
                !.attempt = 1, !.hdr_fallback = FALSE, !.apply_sent = FALSE,
                !.verification_sent = FALSE, !.verified = FALSE]
           second == [first EXCEPT !.request = c.request]
           accepted == [second EXCEPT !.reply_epoch = c.epoch]
           hdr == c.request.hdr # "unset"
           policy == ApplyRecoveryPolicy(accepted)
           session == [policy EXCEPT !.last_apply = "recent",
                         !.checks = IF hdr THEN 3 ELSE 1,
                         !.reapplies = IF hdr THEN 4 ELSE 2,
                         !.snapshot = @ \/ e.capture]
<1>1. Secures(n, n)
  BY SelfSecures DEF Eases
<1>2. Secures(n, base)
  BY <1>1, BasicsSecure, LaddersSecure
<1> HIDE DEF base, lease
<1>3. Secures(n, first)
  BY ZenonT(60), <1>2, UpdateSecures DEF Fields, LeaseFields
<1> HIDE DEF first
<1>4. Eases(m, first)
  BY <1>3, SecuresEases
<1>5. c.epoch \in 1..m.epoch /\ c.epoch = m.epoch /\ m.link = "up"
  BY DEF LiveCommands, Alive, IsStaleConnection
<1>6. IsRecord(accepted)
  BY <1>3, UpdateIsRecord DEF Secures, Fields
<1>7. /\ accepted.owed = first.owed /\ accepted.recovery_armed = first.recovery_armed
      /\ accepted.changes_pending = first.changes_pending /\ accepted.os_task = first.os_task
      /\ accepted.deferred = first.deferred /\ accepted.epoch = first.epoch
      /\ accepted.link = first.link /\ accepted.request = c.request
      /\ accepted.reply_epoch = c.epoch
  BY <1>3 DEF Secures, IsRecord, Fields
<1> HIDE DEF accepted
<1>8. LiveCommands(accepted) = LiveCommands(first) /\ c.request \in Request
  BY <1>7 DEF LiveCommands, Alive, Command
<1>9. Linked(accepted)
  BY <1>4, <1>5, <1>6, <1>7, <1>8 DEF Linked, Alive, Eases
<1>10. Eases(m, accepted)
  BY <1>4, <1>5, <1>7, <1>9 DEF Eases, Settled, Leased, Guarded
<1>11. Secures(accepted, accepted)
  BY <1>9, SelfSecures
<1>12. Secures(accepted, policy)
  <2> DEFINE r == accepted.request.restore_on_disconnect
  <2>1. policy = [accepted EXCEPT !.restore_on_disconnect = r]
    BY DEF ApplyRecoveryPolicy
  <2> HIDE DEF policy, r
  <2> QED
    BY <1>11, <2>1, UpdateSecures DEF Fields, LeaseFields
<1> HIDE DEF policy, hdr
<1>13. Secures(accepted, session)
  BY <1>12, UpdateSecures DEF Fields, LeaseFields
<1> HIDE DEF session
<1>14. /\ Secures(accepted, DispatchApply(Transition(session, "InProgress")))
       /\ Secures(accepted, Transition(SendApplyResult(accepted), "Waiting"))
  BY <1>11, <1>13, BasicsSecure, DispatchSecures
<1>15. BeginApply(n, c, e) = IF ~c.request.configured
         THEN Transition(SendApplyResult(accepted), "Waiting")
         ELSE DispatchApply(Transition(session, "InProgress"))
  BY DEF BeginApply, session, policy, accepted, second, first, base, hdr, lease
<1> QED
  BY <1>10, <1>14, <1>15, SecuresEases

(* handle_apply_command()                                                           *)
LEMMA HandleApplyCommandEases ==
  ASSUME NEW m, Linked(m), NEW c \in LiveCommands(m), c.type = "APPLY", NEW e
  PROVE  /\ Eases(m, HandleApplyCommand(m, c, e))
         /\ WorkerActive(m) => Firm(m, HandleApplyCommand(m, c, e))
<1> DEFINE latched == ResetSettlement([m EXCEPT !.explicit_recovery = FALSE])
<1>1. Secures(m, latched) /\ Eases(m, m) /\ Firm(m, m)
  BY LatchedSecures, SelfSecures DEF Secures
<1> HIDE DEF latched
<1>2. Eases(m, latched)
  BY <1>1, SecuresEases
<1>3. /\ Eases(m, Defer(latched, c)) /\ Firm(m, Defer(latched, c))
      /\ Eases(m, Supersede(latched, c)) /\ Firm(m, Supersede(latched, c))
  BY <1>1, DeferEases
<1>4. ~IsStaleConnection(m, c.epoch) => Eases(m, BeginApply(latched, c, e))
  BY <1>2, BeginApplyEases
<1> QED
  BY <1>1, <1>3, <1>4 DEF HandleApplyCommand, latched

(* handle_revert_command()                                                          *)
LEMMA HandleRevertCommandEases ==
  ASSUME NEW m, Linked(m), NEW c \in LiveCommands(m)
  PROVE  /\ Eases(m, HandleRevertCommand(m, c))
         /\ WorkerActive(m) => Firm(m, HandleRevertCommand(m, c))
<1> DEFINE latched == IF c.from_disconnect THEN m
                      ELSE ResetSettlement([m EXCEPT !.explicit_recovery = TRUE])
           cancelled == CancelOperations(latched)
           armed == [cancelled EXCEPT !.recovery_armed = TRUE, !.changes_pending = TRUE]
           open == [armed EXCEPT !.scheduler = "open"]
           cleared == ClearRecoveryState(cancelled)
<1>1. Secures(m, m) /\ Eases(m, m) /\ Firm(m, m)
  BY SelfSecures DEF Secures
<1>2. Secures(m, latched)
  BY <1>1, LatchedSecures
<1> HIDE DEF latched
<1>3. /\ Eases(m, Defer(latched, c)) /\ Firm(m, Defer(latched, c))
      /\ Eases(m, Supersede(latched, c)) /\ Firm(m, Supersede(latched, c))
  BY <1>2, DeferEases
<1>4. Secures(m, cancelled)
  BY <1>2, BasicsSecure
<1> HIDE DEF cancelled
<1>5. Eases(m, cleared)
  BY <1>1, <1>4, SecuresEases, ClearRecoveryStateEases
<1> HIDE DEF cleared
<1>6. Secures(cleared, cleared)
  BY <1>5, SelfSecures DEF Eases
<1>7. /\ Eases(m, Transition(ResetStabilization(cleared), "Waiting"))
      /\ Eases(m, ExitHelper(cleared, 0))
  BY <1>5, <1>6, BasicsSecure, LaddersSecure, StagesSecure, SecuresEases
<1>8. Secures(m, armed)
  <2>1. IsRecord(armed)
    BY <1>4, UpdateIsRecord DEF Secures, Fields
  <2>2. /\ armed.owed = cancelled.owed /\ armed.recovery_armed = TRUE
        /\ armed.changes_pending = TRUE /\ armed.os_task = cancelled.os_task
        /\ armed.deferred = cancelled.deferred /\ armed.epoch = cancelled.epoch
        /\ armed.link = cancelled.link
        /\ armed.request = cancelled.request /\ armed.reply_epoch = cancelled.reply_epoch
    BY <1>4 DEF Secures, IsRecord, Fields
  <2> QED
    BY <1>4, <2>1, <2>2 DEF Secures, Firm, Leased
<1> HIDE DEF armed
<1>9. Secures(m, open)
  BY <1>8, UpdateSecures DEF Fields, LeaseFields
<1> HIDE DEF open
<1>10. Eases(m, StartRecovery(ResetStabilization(open)))
  BY <1>1, <1>9, LaddersSecure, StagesSecure, SecuresEases
<1>11. /\ BeginRevert(latched) = StartRecovery(ResetStabilization(open))
       /\ ReleaseOnDisconnect(latched) = Transition(ResetStabilization(cleared), "Waiting")
  BY DEF BeginRevert, ReleaseOnDisconnect, open, armed, cancelled, cleared
<1>12. ExitHelper(ClearRecoveryState(CancelOperations(latched)), 0) = ExitHelper(cleared, 0)
  BY DEF cleared, cancelled
<1> QED
  BY <1>1, <1>3, <1>7, <1>10, <1>11, <1>12 DEF HandleRevertCommand, latched

(* handle_disarm_command()                                                          *)
LEMMA HandleDisarmCommandEases ==
  ASSUME NEW m, Linked(m), NEW c \in LiveCommands(m)
  PROVE  /\ Eases(m, HandleDisarmCommand(m, c))
         /\ WorkerActive(m) => Firm(m, HandleDisarmCommand(m, c))
<1> DEFINE latched == ResetSettlement([m EXCEPT !.explicit_recovery = FALSE])
           off == [latched EXCEPT !.scheduler = "off"]
           cancelled == CancelOperations(latched)
           released == ClearRecoveryState(cancelled)
           forgot == [released EXCEPT !.task_created = FALSE]
           cleared == IF latched.unconfirmed_mutation THEN cancelled ELSE forgot
           final == [cleared EXCEPT !.attempt = 0, !.apply_sent = FALSE, !.verification_sent = FALSE,
                                    !.verified = FALSE, !.last_apply = "none"]
<1>1. Secures(m, m) /\ Eases(m, m) /\ Firm(m, m)
  BY SelfSecures DEF Secures
<1>2. Secures(m, latched) /\ Secures(m, off)
  BY LatchedSecures
<1> HIDE DEF latched, off
<1>3. /\ Eases(m, Defer(latched, c)) /\ Firm(m, Defer(latched, c))
      /\ Eases(m, Supersede(off, c)) /\ Firm(m, Supersede(off, c))
  BY <1>2, DeferEases
<1>4. Eases(m, cancelled)
  BY <1>1, <1>2, BasicsSecure, SecuresEases
<1> HIDE DEF cancelled
<1>5. Eases(m, released)
  BY <1>4, ClearRecoveryStateEases
<1> HIDE DEF released
<1>6. Secures(released, released)
  BY <1>5, SelfSecures DEF Eases
<1>7. Secures(released, forgot)
  BY <1>6, UpdateSecures DEF Fields, LeaseFields
<1> HIDE DEF forgot
<1>8. Eases(m, cleared)
  BY <1>4, <1>5, <1>7, SecuresEases
<1> HIDE DEF cleared
<1>9. Secures(cleared, cleared)
  BY <1>8, SelfSecures DEF Eases
<1>10. Secures(cleared, final)
  BY <1>9, UpdateSecures DEF Fields, LeaseFields
<1> HIDE DEF final
<1>11. Eases(m, Transition(ResetStabilization(final), "Waiting"))
  BY <1>8, <1>10, BasicsSecure, LaddersSecure, SecuresEases
<1>12. BeginDisarm(latched) = Transition(ResetStabilization(final), "Waiting")
  BY DEF BeginDisarm, final, cleared, forgot, released, cancelled
<1> QED
  BY <1>1, <1>3, <1>11, <1>12 DEF HandleDisarmCommand, latched, off

(* handle_reset_command(), the captures, handle_refresh_rate_command()              *)
LEMMA OtherCommandsEase ==
  ASSUME NEW m, Linked(m), NEW c \in LiveCommands(m), NEW epoch, NEW e, NEW device
  PROVE  /\ Eases(m, HandleResetCommand(m, c))
         /\ WorkerActive(m) => Firm(m, HandleResetCommand(m, c))
         /\ Secures(m, HandleCapture(m, epoch, e))
         /\ Secures(m, HandleRefreshRateCommand(m, device, epoch))
<1>1. Secures(m, m) /\ Eases(m, m) /\ Firm(m, m)
  BY SelfSecures DEF Secures
<1>2. Eases(m, HandleResetCommand(m, c)) /\ (WorkerActive(m) => Firm(m, HandleResetCommand(m, c)))
  <2>1. Secures(m, BeginStagedStateReset(m))
    BY <1>1, DispatchSecures
  <2>2. Eases(m, BeginStagedStateReset(m))
    BY <1>1, <2>1, SecuresEases
  <2>3. Eases(m, Defer(m, c)) /\ Firm(m, Defer(m, c))
    BY <1>1, DeferEases
  <2> QED
    BY <1>1, <2>2, <2>3 DEF HandleResetCommand
<1>3. Secures(m, HandleCapture(m, epoch, e))
  BY <1>1, UpdateSecures DEF HandleCapture, Fields, LeaseFields
<1>4. Secures(m, HandleRefreshRateCommand(m, device, epoch))
  BY <1>1, BasicsSecure, LaddersSecure, DispatchSecures DEF HandleRefreshRateCommand
<1> QED
  BY <1>2, <1>3, <1>4

(* drain_deferred_mutation_commands(), which waits for the worker.                  *)
LEMMA DrainEases ==
  ASSUME NEW m, NEW n, Eases(m, n), NEW e
  PROVE  /\ Eases(m, Drain(n, e))
         /\ WorkerActive(n) => Drain(n, e) = n
<1>1. ASSUME NEW k, Linked(k)
      PROVE  Eases(k, DrainOne(k, e))
  <2> DEFINE c == Head(k.deferred)
             popped == [k EXCEPT !.deferred = Tail(@)]
  <2>1. SUFFICES ASSUME k.deferred # <<>> PROVE Eases(k, DrainOne(k, e))
    BY <1>1, SelfSecures DEF DrainOne
  <2>2. k.deferred \in Seq(LiveCommands(k))
    BY <1>1 DEF Linked
  <2>3. c \in LiveCommands(k) /\ Tail(k.deferred) \in Seq(LiveCommands(k))
    BY <2>1, <2>2, TailItems
  <2>4. IsRecord(popped)
    BY <1>1, UpdateIsRecord DEF Linked, Fields
  <2>5. /\ popped.owed = k.owed /\ popped.recovery_armed = k.recovery_armed
        /\ popped.changes_pending = k.changes_pending /\ popped.os_task = k.os_task
        /\ popped.deferred = Tail(k.deferred) /\ popped.epoch = k.epoch /\ popped.link = k.link
        /\ popped.request = k.request /\ popped.reply_epoch = k.reply_epoch
    BY <1>1 DEF Linked, IsRecord, Fields
  <2>6. DrainOne(k, e) =
          IF WorkerActive(k) \/ k.reset_pending \/ k.deferred = <<>> THEN k
          ELSE CASE c.type = "APPLY" -> HandleApplyCommand(popped, c, e)
                 [] c.type = "REVERT" -> HandleRevertCommand(popped, c)
                 [] c.type = "DISARM" -> HandleDisarmCommand(popped, c)
                 [] c.type = "RESET" -> HandleResetCommand(popped, c)
    BY DEF DrainOne
  <2> HIDE DEF c, popped
  <2>7. LiveCommands(popped) = LiveCommands(k)
    BY <2>5 DEF LiveCommands, Alive
  <2>8. Linked(popped)
    BY <1>1, <2>3, <2>4, <2>5, <2>7 DEF Linked, Alive
  <2>9. Eases(k, popped)
    BY <2>5, <2>8 DEF Eases, Settled, Leased, Guarded
  <2>10. /\ c.type = "APPLY" => Eases(k, HandleApplyCommand(popped, c, e))
         /\ Eases(k, HandleRevertCommand(popped, c))
         /\ Eases(k, HandleDisarmCommand(popped, c)) /\ Eases(k, HandleResetCommand(popped, c))
    BY <2>3, <2>7, <2>8, <2>9, HandleApplyCommandEases, HandleRevertCommandEases,
       HandleDisarmCommandEases, OtherCommandsEase, EasesTransitive
  <2>11. c.type \in {"APPLY", "REVERT", "DISARM", "RESET"}
    BY <2>3 DEF LiveCommands, Command
  <2>12. Eases(k, k)
    BY <1>1, SelfSecures
  <2> QED
    BY <2>6, <2>10, <2>11, <2>12
<1>2. ASSUME NEW k, Eases(m, k)
      PROVE  Eases(m, DrainOne(k, e))
  BY <1>1, <1>2, EasesTransitive DEF Eases
<1>3. WorkerActive(n) => DrainOne(n, e) = n
  BY DEF DrainOne
<1> QED
  BY <1>2, <1>3 DEF Drain

--------------------------------------------------------------------------------
(* Completions                                                                      *)

(* A check that ended                                                               *)
LEMMA HandleVerificationCompletedSecures ==
  ASSUME NEW m, Linked(m), NEW c
  PROVE  Secures(m, HandleVerificationCompleted(m, c))
<1> DEFINE checked == [m EXCEPT !.check_pending = FALSE]
           settled == [m EXCEPT !.settle_pending = FALSE]
<1>1. Secures(m, m)
  BY SelfSecures
<1>2. Secures(m, checked) /\ Secures(m, settled)
  BY <1>1, UpdateSecures DEF Fields, LeaseFields
<1> HIDE DEF checked, settled
<1>3. ASSUME NEW n, Secures(m, n)
      PROVE  /\ Secures(m, NextSettle(n)) /\ Secures(m, EnterSteadyState(NextSettle(n)))
             /\ Secures(m, YieldToSettlement(n))
  BY <1>3, StagesSecure, BasicsSecure DEF YieldToSettlement
<1>4. Secures(m, SettlementVerified(m, c))
  <2> DEFINE lease == ActivateRecoveryLease(settled)
             opened == [lease EXCEPT !.verified = TRUE, !.unconfirmed_mutation = FALSE]
             confirmed == IF m.verified THEN settled ELSE opened
  <2>1. Secures(m, lease)
    BY <1>2, LeaseSecures
  <2> HIDE DEF lease
  <2>2. Secures(m, opened)
    BY <2>1, UpdateSecures DEF Fields, LeaseFields
  <2> HIDE DEF opened
  <2>3. Secures(m, confirmed)
    BY <1>2, <2>2
  <2> HIDE DEF confirmed
  <2>4. /\ Secures(m, EnterSteadyState(ResetSettlement(confirmed)))
        /\ Secures(m, SettlementRepair(settled))
        /\ Secures(m, Transition(ResetSettlement(settled), "Waiting"))
    BY <1>2, <2>3, StagesSecure, LaddersSecure, BasicsSecure
  <2>5. SettlementVerified(m, c) =
          IF c.status = "Ok" THEN EnterSteadyState(ResetSettlement(confirmed))
          ELSE IF m.request.configured THEN SettlementRepair(settled)
          ELSE Transition(ResetSettlement(settled), "Waiting")
    BY DEF SettlementVerified, confirmed, opened, lease, settled
  <2> QED
    BY <2>4, <2>5
<1>5. Secures(m, StabilizationChecked(m, c))
  <2>1. /\ Secures(m, ScheduleNextCheck(checked)) /\ Secures(m, StabilizationRepair(checked))
        /\ Secures(m, NextSettle(checked)) /\ Secures(m, EnterSteadyState(NextSettle(checked)))
        /\ Secures(m, YieldToSettlement(checked))
    BY <1>2, <1>3, StagesSecure
  <2> QED
    BY <2>1 DEF StabilizationChecked, checked
<1>6. Secures(m, InitialVerified(m))
  <2> DEFINE verified == [m EXCEPT !.verified = TRUE]
             lease == ActivateRecoveryLease(verified)
             confirmed == [lease EXCEPT !.unconfirmed_mutation = FALSE]
             opened == SendVerificationResult(confirmed, TRUE)
             gated == IF m.verification_sent THEN m ELSE opened
  <2>1. Secures(m, verified)
    BY <1>1, UpdateSecures DEF Fields, LeaseFields
  <2> HIDE DEF verified
  <2>2. Secures(m, lease)
    BY <2>1, LeaseSecures
  <2> HIDE DEF lease
  <2>3. Secures(m, confirmed)
    BY <2>2, UpdateSecures DEF Fields, LeaseFields
  <2> HIDE DEF confirmed
  <2>4. Secures(m, gated)
    BY <1>1, <2>3, BasicsSecure
  <2>5. InitialVerified(m) =
          IF ~m.settle_requested THEN EnterSteadyState(ScheduleNextCheck(gated))
          ELSE IF CanSettle(gated) THEN NextSettle(gated)
          ELSE EnterSteadyState(NextSettle(gated))
    BY DEF InitialVerified, confirmed, lease, verified
  <2> HIDE DEF gated
  <2> QED
    BY <1>3, <2>4, <2>5, StagesSecure
<1>7. Secures(m, InitialRejected(m))
  <2>1. Secures(m, NextReapply(RewindStabilization(m)))
    BY <1>1, LaddersSecure, StagesSecure
  <2> QED
    BY <2>1, StagesSecure, BasicsSecure DEF InitialRejected
<1> QED
  BY <1>1, <1>3, <1>4, <1>5, <1>6, <1>7 DEF HandleVerificationCompleted

(* The APPLY landed, or failed: from a memory in which what is owed is settled.     *)
LEMMA ApplyEndsEase ==
  ASSUME NEW m, Linked(m), NEW c, NEW e
  PROVE  Eases(m, AppliedOk(m, e)) /\ Eases(m, RetryApply(m, c, e))
<1>1. Secures(m, m) /\ Eases(m, m)
  BY SelfSecures
<1>2. Eases(m, AppliedOk(m, e))
  <2> DEFINE repaired == [m EXCEPT !.settle_repairing = FALSE]
             verified == [NextSettle(repaired) EXCEPT !.verified = TRUE]
             lease == ActivateRecoveryLease(verified)
             confirmed == [lease EXCEPT !.unconfirmed_mutation = FALSE]
             waiting == DispatchVerification(Transition(SendApplyResult(m), "Verification"), "Initial")
  <2>1. Secures(m, repaired)
    BY <1>1, UpdateSecures DEF Fields, LeaseFields
  <2> HIDE DEF repaired
  <2>2. Secures(m, NextSettle(repaired))
    BY <2>1, StagesSecure
  <2>3. Secures(m, verified)
    BY <2>2, UpdateSecures DEF Fields, LeaseFields
  <2> HIDE DEF verified
  <2>4. Secures(m, lease)
    BY <2>3, LeaseSecures
  <2> HIDE DEF lease
  <2>5. Secures(m, confirmed)
    BY <2>4, UpdateSecures DEF Fields, LeaseFields
  <2> HIDE DEF confirmed
  <2>6. Secures(m, EnterSteadyState(confirmed)) /\ Secures(m, waiting)
    BY <1>1, <2>5, StagesSecure, BasicsSecure, DispatchSecures
  <2> HIDE DEF waiting
  <2>7. /\ Eases(m, NextSettle(repaired)) /\ Eases(m, Drain(EnterSteadyState(confirmed), e))
        /\ Eases(m, Drain(waiting, e))
    BY <1>1, <2>2, <2>6, SecuresEases, DrainEases
  <2>8. AppliedOk(m, e) =
          IF m.settle_repairing
          THEN IF CanSettle(repaired) THEN NextSettle(repaired)
               ELSE Drain(EnterSteadyState(confirmed), e)
          ELSE Drain(waiting, e)
    BY DEF AppliedOk, waiting, confirmed, lease, verified, repaired
  <2> QED
    BY <2>7, <2>8
<1>3. Eases(m, ApplyFailed(m, c, e))
  <2> DEFINE told == SendVerificationResult(SendApplyResult(m), FALSE)
             clean == IF c.changed THEN told ELSE ResetUncommittedStagedState(told)
  <2>1. Eases(m, told)
    BY <1>1, BasicsSecure, SecuresEases
  <2> HIDE DEF told
  <2>2. Eases(m, clean)
    BY <2>1, ResetUncommittedStagedStateEases
  <2> HIDE DEF clean
  <2>3. Secures(clean, clean)
    BY <2>2, SelfSecures DEF Eases
  <2>4. Eases(m, EnterSteadyState(clean)) /\ Eases(m, Transition(clean, "Waiting"))
    BY <2>2, <2>3, StagesSecure, BasicsSecure, SecuresEases
  <2> QED
    BY <2>4, DrainEases DEF ApplyFailed, clean, told
<1>4. Eases(m, RetryApply(m, c, e))
  <2> DEFINE off == [m.request EXCEPT !.hdr = "off"]
             fallback == [m EXCEPT !.hdr_fallback = TRUE]
             degraded == [fallback EXCEPT !.request = off]
             again == [degraded EXCEPT !.attempt = 1]
  <2>1. Secures(m, fallback) /\ fallback.request = m.request
    <3>1. Secures(m, fallback)
      BY <1>1, UpdateSecures DEF Fields, LeaseFields
    <3>2. fallback.request = m.request
      BY <1>1 DEF Secures, IsRecord, Fields
    <3> QED
      BY <3>1, <3>2
  <2> HIDE DEF fallback
  <2>2. off \in Request /\ off.id = m.request.id /\ off.virtual = m.request.virtual
    BY DEF Linked, Request
  <2>3. RetryApply(m, c, e) =
          IF c.status = "Retryable" /\ m.attempt < MaxApplyAttempts
          THEN DispatchApply([m EXCEPT !.attempt = @ + 1])
          ELSE IF c.status = "Retryable" /\ ~m.hdr_fallback /\ c.virtual /\ m.request.hdr = "on"
          THEN DispatchApply(Transition(again, "InProgress"))
          ELSE ApplyFailed(m, c, e)
    <3>1. [m EXCEPT !.hdr_fallback = TRUE, !.request.hdr = "off", !.attempt = 1] = again
      BY <1>1 DEF Secures, IsRecord, Fields, fallback
    <3> QED
      BY <3>1 DEF RetryApply
  <2> HIDE DEF off
  <2>4. Secures(m, degraded)
    <3>1. IsRecord(degraded)
      BY <2>1, UpdateIsRecord DEF Secures, Fields
    <3>2. /\ degraded.owed = fallback.owed /\ degraded.recovery_armed = fallback.recovery_armed
          /\ degraded.changes_pending = fallback.changes_pending /\ degraded.os_task = fallback.os_task
          /\ degraded.deferred = fallback.deferred /\ degraded.epoch = fallback.epoch
          /\ degraded.link = fallback.link
          /\ degraded.request = off /\ degraded.reply_epoch = fallback.reply_epoch
      BY <2>1 DEF Secures, IsRecord, Fields
    <3> QED
      BY <2>1, <2>2, <3>1, <3>2 DEF Secures, Firm, Leased
  <2> HIDE DEF degraded
  <2>5. Secures(m, again) /\ Secures(m, [m EXCEPT !.attempt = @ + 1])
    BY <1>1, <2>4, UpdateSecures DEF Fields, LeaseFields
  <2> HIDE DEF again
  <2> DEFINE counted == [m EXCEPT !.attempt = @ + 1]
  <2>6. Eases(m, DispatchApply(counted)) /\ Eases(m, DispatchApply(Transition(again, "InProgress")))
    <3>1. Secures(m, counted)
      BY <2>5
    <3> HIDE DEF counted
    <3>2. Secures(m, DispatchApply(counted)) /\ Secures(m, Transition(again, "InProgress"))
      BY <2>5, <3>1, BasicsSecure, DispatchSecures
    <3>3. Secures(m, DispatchApply(Transition(again, "InProgress")))
      BY <3>2, DispatchSecures
    <3> QED
      BY <1>1, <3>2, <3>3, SecuresEases
  <2> QED
    BY <1>3, <2>3, <2>6
<1> QED
  BY <1>2, <1>4

(* A completion that settles what is owed, given that a task guards it and that, if *)
(* it says that nothing changed, nothing is owed that the lease does not cover.     *)
Answers(m, c) == (m.owed => Guarded(m)) /\ (c.changed \/ Covered(m))
Settles(m, c, n) ==
    /\ Linked(n) /\ n.epoch = m.epoch /\ n.link = m.link
    /\ n.request.id = m.request.id \/ m.link = "up"
    /\ Answers(m, c) => Settled(n)

(* The completion of an APPLY, whose mutation is not yet under the lease.           *)
LEMMA HandleApplyCompletedSettles ==
  ASSUME NEW m, Linked(m), NEW c, Owns(m, "Apply", c.generation), NEW e
  PROVE  Settles(m, c, HandleApplyCompleted(m, c, e))
<1> DEFINE freed == ReleaseFence(m)
           owned == [freed EXCEPT !.staged_prepared = @ \/ c.staged]
           touched == c.status = "Ok" \/ c.changed
           leased == IF touched THEN ActivateRecoveryLease(owned) ELSE owned
           guarded == [leased EXCEPT !.task_created = @ \/ c.durable]
           tasked == IF touched THEN CreateRestoreTaskIfMissing(guarded, e) ELSE guarded
           settling == [tasked EXCEPT !.settle_repairing = FALSE]
<1>1. Secures(m, m)
  BY SelfSecures
<1>2. Secures(m, freed)
  BY <1>1, BasicsSecure
<1> HIDE DEF freed
<1>3. Secures(m, owned)
  BY <1>2, UpdateSecures DEF Fields, LeaseFields
<1> HIDE DEF owned
<1>4. Secures(m, leased) /\ (touched => Leased(leased))
  BY <1>3, LeaseSecures
<1> HIDE DEF leased
<1>5. Secures(m, guarded) /\ (touched => Leased(guarded))
  <2>1. Secures(leased, leased)
    BY <1>4 DEF Secures, Firm
  <2>2. Secures(m, guarded) /\ Secures(leased, guarded)
    BY <1>4, <2>1, UpdateSecures DEF Fields, LeaseFields
  <2> QED
    BY <1>4, <2>2 DEF Secures, Firm
<1> HIDE DEF guarded
<1>6. Secures(m, tasked) /\ (touched => Leased(tasked))
  <2>1. Secures(guarded, guarded)
    BY <1>5 DEF Secures, Firm
  <2>2. /\ Secures(m, CreateRestoreTaskIfMissing(guarded, e))
        /\ Secures(guarded, CreateRestoreTaskIfMissing(guarded, e))
    BY <1>5, <2>1, LeaseSecures
  <2> QED
    BY <1>5, <2>2 DEF Secures, Firm
<1> HIDE DEF tasked
<1>7. ASSUME NEW k, Secures(m, k), Leased(k) \/ ~c.changed
      PROVE  Linked(k) /\ (Answers(m, c) => Settled(k))
  <2>1. Linked(k)
    BY <1>1, <1>7, SecuresEases, SelfSecures DEF Eases
  <2>2. Answers(m, c) => Settled(k)
    BY <1>7 DEF Answers, Settled, Covered, Guarded, Secures, Firm
  <2> QED
    BY <2>1, <2>2
<1>8. ASSUME NEW k, Secures(m, k), Linked(k), Answers(m, c) => Settled(k), NEW n, Eases(k, n)
      PROVE  Settles(m, c, n)
  BY <1>8 DEF Settles, Secures, Eases
<1>9. Settles(m, c, StaleApply(owned, c, e))
  <2> DEFINE retained == RetainAfterMutation(owned, c, e)
             marked == [retained EXCEPT !.unconfirmed_mutation = TRUE]
             noted == [owned EXCEPT !.task_created = @ \/ c.durable]
             clean == ResetUncommittedStagedState(noted)
  <2>1. StaleApply(owned, c, e) = Drain(IF c.changed THEN marked ELSE clean, e)
    BY DEF StaleApply
  <2>2. CASE c.changed
    <3>1. Secures(m, retained) /\ Leased(retained)
      BY <1>3, LeaseSecures
    <3> HIDE DEF retained
    <3>2. Secures(retained, retained)
      BY <3>1 DEF Secures, Firm
    <3>3. Secures(m, marked) /\ Secures(retained, marked)
      BY <3>1, <3>2, UpdateSecures DEF Fields, LeaseFields
    <3>4. Leased(marked)
      BY <3>1, <3>3 DEF Secures, Firm
    <3> HIDE DEF marked
    <3>5. Linked(marked) /\ (Answers(m, c) => Settled(marked))
      BY <1>7, <3>3, <3>4
    <3>6. Eases(marked, Drain(marked, e))
      BY <3>5, SelfSecures, DrainEases
    <3> QED
      BY <1>8, <2>1, <2>2, <3>3, <3>5, <3>6
  <2>3. CASE ~c.changed
    <3>1. Secures(m, noted)
      BY <1>3, UpdateSecures DEF Fields, LeaseFields
    <3> HIDE DEF noted
    <3>2. Linked(noted) /\ (Answers(m, c) => Settled(noted))
      BY <1>7, <2>3, <3>1
    <3>3. Eases(noted, Drain(clean, e))
      BY <3>2, SelfSecures, ResetUncommittedStagedStateEases, DrainEases
    <3> QED
      BY <1>8, <2>1, <2>3, <3>1, <3>2, <3>3
  <2> QED
    BY <2>2, <2>3
<1>10. Linked(tasked) /\ (Answers(m, c) => Settled(tasked))
  BY <1>6, <1>7
<1>11. Settles(m, c, AppliedOk(tasked, e)) /\ Settles(m, c, RetryApply(tasked, c, e))
  BY <1>6, <1>8, <1>10, ApplyEndsEase
<1>12. Secures(tasked, tasked)
  BY <1>10, SelfSecures
<1>13. Secures(tasked, settling)
  BY <1>12, UpdateSecures DEF Fields, LeaseFields
<1> HIDE DEF settling
<1>14. Secures(tasked, NextSettle(settling))
  BY <1>13, StagesSecure
<1>15. Eases(tasked, NextSettle(settling)) /\ Eases(tasked, RetryApply(NextSettle(settling), c, e))
  <2>1. Eases(tasked, NextSettle(settling))
    BY <1>10, <1>14, SelfSecures, SecuresEases
  <2> QED
    BY <2>1, ApplyEndsEase, EasesTransitive DEF Eases
<1>16. Settles(m, c, NextSettle(settling)) /\ Settles(m, c, RetryApply(NextSettle(settling), c, e))
  BY <1>6, <1>8, <1>10, <1>15
<1>17. HandleApplyCompleted(m, c, e) =
         IF IsStale(m, c.generation) THEN StaleApply(owned, c, e)
         ELSE IF c.status = "Ok" THEN AppliedOk(tasked, e)
         ELSE IF ~m.settle_requested THEN RetryApply(tasked, c, e)
         ELSE IF CanSettle(settling) THEN NextSettle(settling)
         ELSE RetryApply(NextSettle(settling), c, e)
  BY DEF HandleApplyCompleted, settling, tasked, guarded, leased, owned, freed
<1> QED
  BY <1>9, <1>11, <1>16, <1>17

(* The staged state is reset: a helper that was only waiting for that exits.        *)
LEMMA HandleResetCompletedEases ==
  ASSUME NEW m, Linked(m), NEW c, NEW e
  PROVE  /\ Eases(m, HandleResetCompleted(m, c, e))
         /\ WorkerActive(m) => Firm(m, HandleResetCompleted(m, c, e))
<1> DEFINE ok == c.status = "Ok"
           opened == [m EXCEPT !.reset_pending = FALSE, !.staged_prepared = @ /\ ~ok]
           followed == [opened EXCEPT !.exit_after_reset = @ /\ ~DefersIntent(m)]
           drained == Drain(followed, e)
           stopped == [opened EXCEPT !.exit_after_reset = FALSE]
           done == [drained EXCEPT !.exit_after_reset = FALSE]
<1>1. Secures(m, m) /\ Eases(m, m)
  BY SelfSecures
<1> HIDE DEF ok
<1>2. Secures(m, opened)
  BY <1>1, UpdateSecures DEF Fields, LeaseFields
<1> HIDE DEF opened
<1>3. Secures(m, followed) /\ Secures(m, stopped)
  BY <1>2, UpdateSecures DEF Fields, LeaseFields
<1>4. followed.worker = m.worker
  <2>1. opened.worker = m.worker
    BY <1>1 DEF Secures, IsRecord, Fields, opened
  <2> QED
    BY <1>2, <2>1 DEF Secures, IsRecord, Fields
<1> HIDE DEF followed, stopped
<1>5. Eases(m, followed)
  BY <1>1, <1>3, SecuresEases
<1>6. Eases(m, drained) /\ (WorkerActive(m) => drained = followed)
  BY <1>4, <1>5, DrainEases DEF WorkerActive
<1> HIDE DEF drained
<1>7. Secures(drained, done)
  <2>1. Secures(drained, drained)
    BY <1>6, SelfSecures DEF Eases
  <2> QED
    BY <2>1, UpdateSecures DEF Fields, LeaseFields
<1> HIDE DEF done
<1>8. Secures(drained, ExitHelper(done, 0)) /\ Secures(m, ExitHelper(stopped, 1))
  BY <1>3, <1>7, StagesSecure
<1>9. Eases(m, ExitHelper(done, 0)) /\ Eases(m, ExitHelper(stopped, 1))
  BY <1>1, <1>6, <1>8, SecuresEases
<1>10. WorkerActive(m) =>
         Firm(m, drained) /\ Firm(m, ExitHelper(done, 0)) /\ Firm(m, ExitHelper(stopped, 1))
  BY <1>3, <1>6, <1>8, FirmTransitive DEF Secures
<1>11. HandleResetCompleted(m, c, e) =
         IF m.exit_after_reset /\ ~ok THEN ExitHelper(stopped, 1)
         ELSE IF drained.exit_after_reset /\ ~drained.reset_pending THEN ExitHelper(done, 0)
         ELSE drained
  BY DEF HandleResetCompleted, done, stopped, drained, followed, opened, ok
<1> QED
  BY <1>6, <1>9, <1>10, <1>11

(* The refresh rate is set, or not.                                                 *)
LEMMA HandleRefreshRateCompletedEases ==
  ASSUME NEW m, Linked(m), NEW c, NEW e
  PROVE  Eases(m, HandleRefreshRateCompleted(m, c, e))
<1> DEFINE freed == ReleaseFence(m)
           rewound == RewindStabilization(CancelOperations(freed))
           rechecked == IF ~RefreshTargetsRequest(m, c.device) THEN freed
                        ELSE IF m.settle_requested THEN ReplaceStabilization(rewound)
                        ELSE ScheduleNextCheck(rewound)
           settled == IF m.settle_requested THEN NextSettle(rechecked) ELSE rechecked
<1>1. Secures(m, m) /\ Eases(m, m)
  BY SelfSecures
<1>2. Secures(m, freed)
  BY <1>1, BasicsSecure
<1>3. Secures(m, rewound)
  BY <1>2, BasicsSecure, LaddersSecure
<1> HIDE DEF freed, rewound
<1>4. Secures(m, rechecked)
  BY <1>2, <1>3, LaddersSecure, StagesSecure
<1> HIDE DEF rechecked
<1>5. Secures(m, settled)
  BY <1>4, StagesSecure
<1> HIDE DEF settled
<1>6. Eases(m, Drain(freed, e)) /\ Eases(m, Drain(settled, e))
  BY <1>1, <1>2, <1>5, SecuresEases, DrainEases
<1> QED
  BY <1>1, <1>6 DEF HandleRefreshRateCompleted, settled, rechecked, rewound, freed

(* A restore attempt ended: validate it, or retry it.                               *)
LEMMA HandleRecoveryCompletedEases ==
  ASSUME NEW m, Linked(m), NEW c, NEW e
  PROVE  Eases(m, HandleRecoveryCompleted(m, c, e)) /\ Eases(m, RetryRestore(m, e))
<1> DEFINE freed == ReleaseFence(m)
           reset == [m EXCEPT !.recovery_reset = IF c.cleared = "none" THEN @ ELSE c.cleared]
           checking == DispatchValidation(Transition(reset, "RecoveryValidation"))
<1>1. Secures(m, m) /\ Eases(m, m)
  BY SelfSecures
<1>2. Secures(m, freed)
  BY <1>1, BasicsSecure
<1> HIDE DEF freed
<1>3. Secures(m, reset)
  BY <1>1, UpdateSecures DEF Fields, LeaseFields
<1> HIDE DEF reset
<1>4. Secures(m, checking)
  BY <1>3, BasicsSecure, DispatchSecures
<1> HIDE DEF checking
<1>5. /\ Secures(m, RetainAfterCancelledRecovery(freed)) /\ Secures(m, ResetRequestProgress(freed))
      /\ Secures(m, Transition(freed, "EventLoop"))
  BY <1>2, LeaseSecures, LaddersSecure, BasicsSecure
<1>6. /\ Eases(m, checking)
      /\ Eases(m, Drain(RetainAfterCancelledRecovery(freed), e))
      /\ Eases(m, Drain(ResetRequestProgress(freed), e))
      /\ Eases(m, Drain(Transition(freed, "EventLoop"), e))
  BY <1>1, <1>4, <1>5, SecuresEases, DrainEases
<1>7. Eases(m, RetryRestore(m, e))
  BY <1>6 DEF RetryRestore, freed
<1>8. HandleRecoveryCompleted(m, c, e) =
         IF ~Owns(m, "Recovery", c.generation) THEN m
         ELSE IF IsStale(m, c.generation)
         THEN Drain(IF c.changed THEN RetainAfterCancelledRecovery(freed)
                    ELSE ResetRequestProgress(freed), e)
         ELSE IF c.status = "Ok" THEN checking
         ELSE RetryRestore(m, e)
  BY DEF HandleRecoveryCompleted, checking, reset, freed
<1> QED
  BY <1>1, <1>6, <1>7, <1>8

(* The restore is confirmed: nothing is owed any more.                              *)
LEMMA HandleValidationCompletedEases ==
  ASSUME NEW m, Linked(m), NEW c, NEW e
  PROVE  Eases(m, HandleValidationCompleted(m, c, e))
<1> DEFINE failed == m.staged_prepared /\ m.recovery_reset = "failed"
           freed == ResetRequestProgress(ReleaseFence(m))
           k1 == [freed EXCEPT !.recovery_armed = FALSE, !.changes_pending = FALSE]
           k2 == [k1 EXCEPT !.unconfirmed_mutation = FALSE, !.scheduler = "off"]
           k3 == [k2 EXCEPT !.os_task = FALSE, !.task_created = FALSE]
           k4 == [k3 EXCEPT !.staged_prepared = failed]
           k5 == [k4 EXCEPT !.owed = FALSE]
           home == Transition(k5, "Waiting")
           waiting == [home EXCEPT !.exit_after_reset = TRUE]
           reset == IF failed THEN BeginStagedStateReset(waiting) ELSE home
           latch == reset.reset_pending \/ DefersReset(reset)
           latched == [reset EXCEPT !.exit_after_reset = latch]
           drained == Drain(latched, e)
           kept == [drained EXCEPT !.exit_after_reset = FALSE]
<1>1. Secures(m, m) /\ Eases(m, m)
  BY SelfSecures
<1>2. Secures(m, freed)
  BY <1>1, BasicsSecure, LaddersSecure
<1> HIDE DEF freed, failed
<1>3. Eases(m, freed)
  BY <1>1, <1>2, SecuresEases
<1>4. ASSUME NEW k, Linked(k), k.epoch = freed.epoch, k.link = freed.link, k.request = freed.request,
             NEW f \in {"recovery_armed", "changes_pending", "unconfirmed_mutation", "scheduler",
                        "os_task", "task_created", "staged_prepared", "owed"},
             NEW v
      PROVE  /\ Linked([k EXCEPT ![f] = v]) /\ [k EXCEPT ![f] = v].epoch = freed.epoch
             /\ [k EXCEPT ![f] = v].link = freed.link /\ [k EXCEPT ![f] = v].request = freed.request
  BY <1>4, UpdateLinked DEF Fields
<1>5. Linked(k1) /\ k1.epoch = freed.epoch /\ k1.link = freed.link /\ k1.request = freed.request
  <2>1. Linked(freed)
    BY <1>3 DEF Eases
  <2> DEFINE k0 == [freed EXCEPT !.recovery_armed = FALSE]
  <2>2. Linked(k0) /\ k0.epoch = freed.epoch /\ k0.link = freed.link /\ k0.request = freed.request
    BY <1>4, <2>1
  <2> HIDE DEF k0
  <2>3. LET k == [k0 EXCEPT !.changes_pending = FALSE]
        IN  Linked(k) /\ k.epoch = freed.epoch /\ k.link = freed.link /\ k.request = freed.request
    BY <1>4, <2>2
  <2> QED
    BY <2>3 DEF k0
<1> HIDE DEF k1
<1>6. Linked(k2) /\ k2.epoch = freed.epoch /\ k2.link = freed.link /\ k2.request = freed.request
  <2> DEFINE k0 == [k1 EXCEPT !.unconfirmed_mutation = FALSE]
  <2>2. Linked(k0) /\ k0.epoch = freed.epoch /\ k0.link = freed.link /\ k0.request = freed.request
    BY <1>4, <1>5
  <2> HIDE DEF k0
  <2>3. LET k == [k0 EXCEPT !.scheduler = "off"]
        IN  Linked(k) /\ k.epoch = freed.epoch /\ k.link = freed.link /\ k.request = freed.request
    BY <1>4, <2>2
  <2> QED
    BY <2>3 DEF k0
<1> HIDE DEF k2
<1>7. Linked(k3) /\ k3.epoch = freed.epoch /\ k3.link = freed.link /\ k3.request = freed.request
  <2> DEFINE k0 == [k2 EXCEPT !.os_task = FALSE]
  <2>2. Linked(k0) /\ k0.epoch = freed.epoch /\ k0.link = freed.link /\ k0.request = freed.request
    BY <1>4, <1>6
  <2> HIDE DEF k0
  <2>3. LET k == [k0 EXCEPT !.task_created = FALSE]
        IN  Linked(k) /\ k.epoch = freed.epoch /\ k.link = freed.link /\ k.request = freed.request
    BY <1>4, <2>2
  <2> QED
    BY <2>3 DEF k0
<1> HIDE DEF k3
<1>8. Linked(k4) /\ k4.epoch = freed.epoch /\ k4.link = freed.link /\ k4.request = freed.request
  BY <1>4, <1>7
<1> HIDE DEF k4
<1>9. Linked(k5) /\ k5.epoch = freed.epoch /\ k5.link = freed.link /\ k5.request = freed.request
      /\ k5.owed = FALSE
  <2>1. k5.owed = FALSE
    BY <1>8 DEF Linked, IsRecord, Fields
  <2> QED
    BY <1>4, <1>8, <2>1
<1> HIDE DEF k5
<1>10. Eases(m, k5)
  BY <1>3, <1>9 DEF Eases, Settled
<1>11. Secures(k5, home)
  BY <1>9, SelfSecures, BasicsSecure
<1> HIDE DEF home
<1>12. Secures(k5, waiting)
  BY <1>11, UpdateSecures DEF Fields, LeaseFields
<1> HIDE DEF waiting
<1>13. Secures(k5, reset)
  BY <1>11, <1>12, DispatchSecures
<1> HIDE DEF reset, latch
<1>14. Secures(k5, latched)
  BY <1>13, UpdateSecures DEF Fields, LeaseFields
<1> HIDE DEF latched
<1>15. Eases(m, drained)
  BY <1>10, <1>14, SecuresEases, DrainEases
<1> HIDE DEF drained
<1>16. Secures(drained, drained)
  BY <1>15, SelfSecures DEF Eases
<1>17. Secures(drained, kept) /\ Secures(drained, ExitHelper(drained, 0))
  BY <1>16, UpdateSecures, StagesSecure DEF Fields, LeaseFields
<1>18. Eases(m, kept) /\ Eases(m, ExitHelper(drained, 0))
  BY <1>15, <1>17, SecuresEases
<1>19. RestoreConfirmed(m, e) = IF DefersIntent(reset) /\ ~failed THEN kept
                                ELSE IF drained.exit_after_reset THEN drained
                                ELSE ExitHelper(drained, 0)
  BY DEF RestoreConfirmed, kept, drained, latched, latch, reset, waiting, home,
         k5, k4, k3, k2, k1, freed, failed
<1>20. Eases(m, RestoreConfirmed(m, e))
  BY <1>15, <1>18, <1>19
<1>21. Secures(m, RetainAfterCancelledRecovery(ReleaseFence(m)))
  BY <1>1, BasicsSecure, LeaseSecures
<1>22. Eases(m, Drain(RetainAfterCancelledRecovery(ReleaseFence(m)), e))
  BY <1>1, <1>21, SecuresEases, DrainEases
<1> QED
  BY <1>1, <1>20, <1>22, HandleRecoveryCompletedEases DEF HandleValidationCompleted

--------------------------------------------------------------------------------
(* Display events, the timer tick, the loss of the connection                       *)

(* A request that follows its virtual display is the same session's.                *)
LEMMA RetargetSecures ==
  ASSUME NEW m, NEW n, Secures(m, n), NEW e, e.device \in Devices
  PROVE  Secures(m, Retarget(n, e))
<1> DEFINE r == [n.request EXCEPT !.device = e.device]
           k == [n EXCEPT !.request = r]
<1>1. r \in Request /\ r.id = n.request.id /\ r.virtual = n.request.virtual
  BY DEF Secures, Request
<1>2. [n EXCEPT !.request.device = e.device] = k
  BY DEF Secures, IsRecord, Fields
<1> HIDE DEF r
<1>3. IsRecord(k)
  BY UpdateIsRecord DEF Secures, Fields
<1>4. /\ k.owed = n.owed /\ k.recovery_armed = n.recovery_armed
      /\ k.changes_pending = n.changes_pending /\ k.os_task = n.os_task
      /\ k.deferred = n.deferred /\ k.epoch = n.epoch /\ k.link = n.link
      /\ k.request = r /\ k.reply_epoch = n.reply_epoch
  BY DEF Secures, IsRecord, Fields
<1> HIDE DEF k
<1>5. Secures(m, k)
  BY <1>1, <1>3, <1>4 DEF Secures, Firm, Leased
<1> QED
  BY <1>2, <1>5 DEF Retarget

(* A display event: the repair it may queue comes from the session's connection.    *)
LEMMA HandleDisplayEventEases ==
  ASSUME NEW m, Linked(m), m.state = "EventLoop" \/ m.request.virtual,
         NEW e, e.device \in Devices
  PROVE  /\ Eases(m, HandleDisplayEvent(m, e))
         /\ WorkerActive(m) => Firm(m, HandleDisplayEvent(m, e))
<1> DEFINE cancelled == CancelOperations(m)
           again == [RewindStabilization(Retarget(cancelled, e)) EXCEPT !.attempt = 1]
           rewound == RewindStabilization([cancelled EXCEPT !.attempt = 1])
           pending == [m EXCEPT !.check_pending = TRUE]
           open == [m EXCEPT !.scheduler = "open"]
<1>1. Secures(m, m) /\ Eases(m, m) /\ Firm(m, m)
  BY SelfSecures DEF Secures
<1>2. ASSUME NEW k, Secures(m, k) PROVE Eases(m, k) /\ Firm(m, k)
  BY <1>1, <1>2, SecuresEases DEF Secures
<1>3. Secures(m, cancelled)
  BY <1>1, BasicsSecure
<1> HIDE DEF cancelled
<1>4. Secures(m, again)
  <2>1. Secures(m, RewindStabilization(Retarget(cancelled, e)))
    BY <1>3, RetargetSecures, LaddersSecure
  <2> QED
    BY <2>1, UpdateSecures DEF Fields, LeaseFields
<1>5. Secures(m, Retarget(rewound, e))
  <2>1. Secures(m, [cancelled EXCEPT !.attempt = 1])
    BY <1>3, UpdateSecures DEF Fields, LeaseFields
  <2> QED
    BY <2>1, RetargetSecures, LaddersSecure
<1>6. Secures(m, pending) /\ Secures(m, open)
  BY <1>1, UpdateSecures DEF Fields, LeaseFields
<1> HIDE DEF again, rewound, pending, open
<1>7. /\ Secures(m, DispatchApply(Transition(again, "InProgress")))
      /\ Secures(m, DispatchApply(Transition(Retarget(rewound, e), "InProgress")))
      /\ Secures(m, DispatchVerification(pending, "Stabilization"))
      /\ Secures(m, StartRecovery(open))
  BY <1>4, <1>5, <1>6, BasicsSecure, DispatchSecures, StagesSecure
<1>8. m.request.virtual =>
        Eases(m, RestartAfterMutation(m, e)) /\ Firm(m, RestartAfterMutation(m, e))
  <2> DEFINE r == Retarget(m, e)
  <2>1. Secures(m, r)
    BY <1>1, RetargetSecures
  <2> HIDE DEF r
  <2>2. m.request.virtual => RestartCommand(r) \in LiveCommands(m)
    BY <2>1 DEF RestartCommand, LiveCommands, Command, Linked, Alive, Secures
  <2> QED
    BY <2>1, <2>2, DeferEases DEF RestartAfterMutation, r
<1>9. ASSUME m.request.virtual
      PROVE  /\ Eases(m, MonitoredEvent(m, e)) /\ Firm(m, MonitoredEvent(m, e))
             /\ Eases(m, ApplyingEvent(m, e)) /\ Firm(m, ApplyingEvent(m, e))
  BY <1>1, <1>2, <1>7, <1>8, <1>9
     DEF MonitoredEvent, ApplyingEvent, again, rewound, pending, cancelled
<1>10. Eases(m, StartRecovery(open)) /\ Firm(m, StartRecovery(open))
  BY <1>2, <1>7
<1> QED
  BY <1>1, <1>9, <1>10 DEF HandleDisplayEvent, open

(* The retry of a restore is due, or its window has closed.                         *)
LEMMA TickSecures ==
  ASSUME NEW m, Linked(m)
  PROVE  Secures(m, TickAttempt(m)) /\ Secures(m, TickExpire(m))
<1>1. Secures(m, m)
  BY SelfSecures
<1> QED
  BY <1>1, StagesSecure, UpdateSecures DEF TickAttempt, TickExpire, Fields, LeaseFields

(* The connection goes up, or away: what came from it may be stale, but is no       *)
(* command of a connection yet to come.                                             *)
LEMMA LinkLinked ==
  ASSUME NEW m, Linked(m), NEW link, NEW step \in {0, 1},
         step = 1 \/ (m.link # "up" /\ link # "up")
  PROVE  LET n == [m EXCEPT !.link = link, !.epoch = @ + step]
         IN  Linked(n) /\ Firm(m, n) /\ n.request = m.request
<1> DEFINE up == m.epoch + step
           k == [m EXCEPT !.link = link]
           n == [k EXCEPT !.epoch = up]
<1>1. IsRecord(n)
  BY UpdateIsRecord DEF Linked, Fields
<1>2. /\ n.owed = m.owed /\ n.recovery_armed = m.recovery_armed
      /\ n.changes_pending = m.changes_pending /\ n.os_task = m.os_task
      /\ n.deferred = m.deferred /\ n.epoch = m.epoch + step /\ n.link = link
      /\ n.request = m.request /\ n.reply_epoch = m.reply_epoch
  BY DEF Linked, IsRecord, Fields
<1>3. n = [m EXCEPT !.link = link, !.epoch = @ + step]
  BY DEF Linked, IsRecord, Fields
<1> HIDE DEF n
<1>4. \A epoch : Alive(m, epoch) => Alive(n, epoch)
  BY <1>2 DEF Alive, Linked
<1>5. LiveCommands(m) \subseteq LiveCommands(n)
  BY <1>4 DEF LiveCommands
<1>6. n.deferred \in Seq(LiveCommands(n))
  BY <1>2, <1>5 DEF Linked
<1>7. Linked(n)
  BY <1>1, <1>2, <1>4, <1>6 DEF Linked
<1>8. Firm(m, n)
  BY <1>2 DEF Firm, Leased
<1> QED
  BY <1>2, <1>3, <1>7, <1>8

(* A relaunched helper starts afresh, or with the restore the scheduled task asks for. *)
LEMMA RelaunchCases ==
  ASSUME Relaunch
  PROVE  \/ h' = NextProcess
         \/ h' = HandleRevertCommand([NextProcess EXCEPT !.link = "restore_mode"],
                                     [DisconnectRevert EXCEPT !.from_disconnect = FALSE])
  BY Zenon DEF Relaunch

(* Writing the value a field has already.                                           *)
LEMMA UpdateSame ==
  ASSUME NEW m, IsRecord(m), NEW f \in Fields, NEW v, v = m[f]
  PROVE  [m EXCEPT ![f] = v] = m
<1> DEFINE k == [g \in Fields |-> m[g]]
<1>1. m = k
  BY DEF IsRecord
<1>2. [k EXCEPT ![f] = v] = k
  <2>1. \A g \in Fields : [k EXCEPT ![f] = v][g] = m[g]
    OBVIOUS
  <2> QED
    BY <2>1
<1> HIDE DEF k
<1> QED
  BY <1>1, <1>2

(* The main loop notices that the connection is gone.                               *)
LEMMA HandleDisconnectEases ==
  ASSUME NEW m, Linked(m), m.link # "up", NEW epoch
  PROVE  LET n == HandleDisconnect(m, epoch)
         IN  /\ Linked(n) /\ n.request.id = m.request.id
             /\ WorkerActive(m) => Firm(m, n)
             /\ Settled(m) => Settled(n)
<1> DEFINE down == [m EXCEPT !.link = "down"]
           served == [down EXCEPT !.restore_origin = epoch]
           replaced == IF WorkerActive(down) THEN down ELSE ReplaceStabilization(down)
           asked == [replaced EXCEPT !.settle_requested = TRUE]
<1>1. Linked(down) /\ Firm(m, down) /\ down.request = m.request /\ down.link = "down"
      /\ down.worker = m.worker
  <2> DEFINE same == m.epoch + 0
  <2>1. down = [m EXCEPT !.link = "down", !.epoch = @ + 0]
    <3>1. same = m.epoch
      BY DEF Linked
    <3>2. [m EXCEPT !.link = "down", !.epoch = @ + 0] = [down EXCEPT !.epoch = same]
      BY DEF Linked, IsRecord, Fields
    <3> HIDE DEF same
    <3>3. IsRecord(down) /\ down.epoch = m.epoch
      <4>1. IsRecord(m)
        BY DEF Linked
      <4>2. IsRecord(down)
        BY <4>1, UpdateIsRecord DEF Fields
      <4>3. down.epoch = m.epoch
        BY <4>1 DEF IsRecord, Fields
      <4> HIDE DEF down
      <4> QED
        BY <4>2, <4>3
    <3> HIDE DEF down
    <3>4. [down EXCEPT !.epoch = same] = down
      BY <3>1, <3>3, UpdateSame DEF Fields
    <3> QED
      BY <3>2, <3>4
  <2>2. down.link = "down" /\ down.worker = m.worker
    BY DEF Linked, IsRecord, Fields
  <2> QED
    BY <2>1, <2>2, LinkLinked
<1> HIDE DEF down
<1>2. Secures(down, down) /\ Eases(down, down) /\ Firm(down, down)
  BY <1>1, SelfSecures DEF Secures
<1>3. Secures(down, BeginSettlement(down))
  <2>1. Secures(down, replaced)
    BY <1>2, LaddersSecure
  <2> HIDE DEF replaced
  <2>2. Secures(down, asked)
    BY <2>1, UpdateSecures DEF Fields, LeaseFields
  <2> HIDE DEF asked
  <2>3. Secures(down, NextSettle(asked))
    BY <2>2, StagesSecure
  <2> QED
    BY <1>2, <2>2, <2>3 DEF BeginSettlement, asked, replaced
<1>4. Eases(down, BeginSettlement(down)) /\ Firm(down, BeginSettlement(down))
  BY <1>2, <1>3, SecuresEases DEF Secures
<1>5. Secures(down, served)
  BY <1>2, UpdateSecures DEF Fields, LeaseFields
<1>6. served.worker = down.worker
  BY <1>1 DEF Linked, IsRecord, Fields
<1> HIDE DEF served
<1>7. Eases(down, served) /\ Firm(down, served)
  BY <1>2, <1>5, SecuresEases DEF Secures
<1>8. DisconnectRevert \in LiveCommands(served)
  BY DisconnectRevertType DEF LiveCommands, DisconnectRevert
<1>9. /\ Eases(down, HandleRevertCommand(served, DisconnectRevert))
      /\ WorkerActive(down) => Firm(down, HandleRevertCommand(served, DisconnectRevert))
  BY <1>6, <1>7, <1>8, HandleRevertCommandEases, EasesTransitive, FirmTransitive
     DEF Eases, WorkerActive
<1>10. /\ Eases(down, HandleDisconnect(m, epoch))
       /\ WorkerActive(down) => Firm(down, HandleDisconnect(m, epoch))
  BY <1>2, <1>4, <1>9 DEF HandleDisconnect, served, down
<1> QED
  BY <1>1, <1>10, FirmTransitive DEF Eases, WorkerActive, Settled, Guarded, Firm

--------------------------------------------------------------------------------
(* The process                                                                      *)

(* Completions of an APPLY, and those that say that it left the desktop alone.      *)
Applies == {c \in Completion : c.kind = "Apply"}
Untouched == {c \in Applies : ~c.changed}
ApplyRuns == running # Idle /\ running.task.kind = "Apply"
ApplyPending == ApplyRuns \/ ~NoneIn(mail, Applies)

(* Until the helper first dies, what is owed is guarded from the first change on,   *)
(* and under the lease unless the APPLY that changed the desktop is still to report *)
(* it: on the worker thread, which also knows whether a rollback may return to a    *)
(* desktop for which a restore was owed already, or in the mail.                    *)
FirstLease ==
    /\ h.owed => Guarded(h)
    /\ NoneIn(mail, Untouched) \/ Covered(h)
    /\ ~ApplyPending => Covered(h)
    /\ ApplyRuns =>
         /\ running.owed => Leased(h)
         /\ ~running.changed => Covered(h)
         /\ running.phase \in {"armed", "mutated"} => Guarded(h)
         /\ running.phase = "mutated" => running.changed
LeaseKept ==
    /\ Linked(h) /\ left.crash <= MaxCrashes
    /\ left.crash = MaxCrashes => FirstLease

(* Lanes that grow at the end, or lose their head.                                  *)
LEMMA NoneItems ==
  ASSUME NEW S, NEW s \in Seq(S), NEW items
  PROVE  /\ \A t \in S : NoneIn(Append(s, t), items) <=> NoneIn(s, items) /\ t \notin items
         /\ s # <<>> => (NoneIn(s, items) <=> Head(s) \notin items /\ NoneIn(Tail(s), items))
<1>1. ASSUME NEW t \in S
      PROVE  NoneIn(Append(s, t), items) <=> NoneIn(s, items) /\ t \notin items
  <2> DEFINE a == Append(s, t)
  <2>1. /\ Len(s) \in Nat /\ DOMAIN s = 1..Len(s) /\ DOMAIN a = 1..(Len(s) + 1)
        /\ \A i \in 1..Len(s) : a[i] = s[i]
        /\ a[Len(s) + 1] = t
    BY AppendProperties
  <2> HIDE DEF a
  <2>2. NoneIn(a, items) <=> NoneIn(s, items) /\ t \notin items
    BY <2>1 DEF NoneIn
  <2> QED
    BY <2>2 DEF a
<1>2. ASSUME s # <<>>
      PROVE  NoneIn(s, items) <=> Head(s) \notin items /\ NoneIn(Tail(s), items)
  <2> DEFINE r == Tail(s)
  <2>1. /\ Len(s) \in Nat \ {0} /\ DOMAIN s = 1..Len(s) /\ DOMAIN r = 1..(Len(s) - 1)
        /\ \A i \in 1..(Len(s) - 1) : r[i] = s[i + 1]
        /\ Head(s) = s[1]
    BY <1>2, HeadTailProperties, LenProperties, EmptySeq
  <2> HIDE DEF r
  <2>2. ASSUME Head(s) \notin items, NoneIn(r, items), NEW i \in DOMAIN s PROVE s[i] \notin items
    <3>1. CASE i = 1
      BY <2>1, <2>2, <3>1
    <3>2. CASE i # 1
      <4>1. i - 1 \in DOMAIN r /\ s[i] = r[i - 1]
        BY <2>1, <2>2, <3>2
      <4> QED
        BY <2>2, <4>1 DEF NoneIn
    <3> QED
      BY <3>1, <3>2
  <2>3. NoneIn(s, items) => Head(s) \notin items /\ NoneIn(r, items)
    BY <2>1 DEF NoneIn
  <2>4. NoneIn(s, items) <=> Head(s) \notin items /\ NoneIn(r, items)
    BY <2>2, <2>3 DEF NoneIn
  <2> QED
    BY <2>4 DEF r
<1> QED
  BY <1>1, <1>2

(* What the fence says of an APPLY under way: it holds the fence, and is alone.     *)
LEMMA FencedApplies ==
  ASSUME TypeOK, FenceKept
  PROVE  /\ ApplyPending => h.worker.kind = "Apply" /\ WorkerActive(h)
         /\ ApplyRuns => NoneIn(mail, Applies)
         /\ h.tasks # <<>> /\ Head(h.tasks).kind = "Apply" => ~ApplyPending
         /\ mail # <<>> /\ Head(mail) \in Mutating =>
              /\ h.worker = [kind |-> FenceKind(Head(mail).kind), generation |-> Head(mail).generation]
              /\ ~ApplyRuns /\ NoneIn(Tail(mail), Applies)
<1> DEFINE out == Lanes(mail, running, desk, RequestIds)
<1>1. PICK x \in {"quiet", "manned", "checked"} : Mode(h, out, x)
  BY DEF FenceKept, Fenced
<1>2. mail \in Seq(Completion) /\ h.tasks \in Seq(Task) /\ (running # Idle => running.task \in Task)
  BY TypedMemory DEF Typed, TypeOK, Run
<1>3. Applies \subseteq Mutating
  BY DEF Applies, Mutating, Item, MutationKinds, WorkerKinds
<1>4. \A p : NoneIn(p, Mutating) => NoneIn(p, Applies)
  BY <1>3 DEF NoneIn
<1>5. \A p, ok : /\ Lanes(p, running, desk, ok).posted = p
                 /\ ApplyRuns => Lanes(p, running, desk, ok).running = <<running.task>>
  BY DEF Lanes, ApplyRuns
<1>6. ApplyRuns => running.task \in Mutating
  BY <1>2 DEF ApplyRuns, Mutating, Item, MutationKinds, WorkerKinds
<1>7. \A p, ok : ApplyRuns => ~NoneIn(Lanes(p, running, desk, ok).running, Mutating)
  <2> DEFINE t == running.task
  <2>1. ApplyRuns => t \in Mutating
    BY <1>6
  <2>2. \A p, ok : ApplyRuns => Lanes(p, running, desk, ok).running = <<t>>
    BY <1>5
  <2> HIDE DEF t
  <2>3. NoneIn(<<t>>, Mutating) <=> t \notin Mutating
    BY ShortItems
  <2> QED
    BY <2>1, <2>2, <2>3
<1>8. ASSUME mail # <<>>, Head(mail) \in Mutating
      PROVE  /\ h.worker = [kind |-> FenceKind(Head(mail).kind), generation |-> Head(mail).generation]
             /\ ~ApplyRuns /\ NoneIn(Tail(mail), Applies)
  <2> DEFINE rest == Lanes(Tail(mail), running, desk, RequestIds)
  <2>1. /\ Mode(h, rest, "vacant")
        /\ h.worker = [kind |-> FenceKind(Head(mail).kind), generation |-> Head(mail).generation]
    BY <1>1, <1>2, <1>8, ReceiveMode
  <2>2. rest.posted = Tail(mail) /\ (ApplyRuns => ~NoneIn(rest.running, Mutating))
    BY <1>5, <1>7
  <2> HIDE DEF rest
  <2>3. Nowhere(h, rest, Mutating)
    BY <2>1 DEF Mode
  <2> QED
    BY <1>4, <2>1, <2>2, <2>3 DEF Nowhere
<1>9. out.posted = mail /\ (ApplyRuns => ~NoneIn(out.running, Mutating) /\ out.running = <<running.task>>)
  BY <1>5, <1>7
<1> HIDE DEF out
<1>10. ~Nowhere(h, out, Mutating) => x = "manned"
  BY <1>1 DEF Mode
<1>11. x = "manned" => Once(h, out, Mutating) /\ Nowhere(h, out, Unfenced(h.worker)) /\ h.worker # NoWorker
  BY <1>1 DEF Mode
<1>12. ApplyPending => ~NoneIn(out.running, Mutating) \/ ~NoneIn(mail, Mutating)
  BY <1>4, <1>9 DEF ApplyPending
<1>13. ApplyPending => x = "manned"
  BY <1>9, <1>10, <1>12 DEF Nowhere
<1>14. ASSUME ApplyPending PROVE h.worker.kind = "Apply" /\ WorkerActive(h)
  <2>1. Nowhere(h, out, Unfenced(h.worker)) /\ WorkerActive(h)
    BY <1>11, <1>13, <1>14 DEF WorkerActive
  <2>2. ASSUME NEW t \in Mutating, t.kind = "Apply", t \notin Unfenced(h.worker)
        PROVE  h.worker.kind = "Apply"
    <3>1. h.worker = [kind |-> FenceKind(t.kind), generation |-> t.generation]
      BY <2>2 DEF Unfenced
    <3> QED
      BY <2>2, <3>1 DEF FenceKind
  <2>3. CASE ApplyRuns
    <3>1. running.task \notin Unfenced(h.worker)
      BY <1>9, <2>1, <2>3, ShortItems DEF Nowhere
    <3> QED
      BY <1>6, <2>1, <2>2, <2>3, <3>1 DEF ApplyRuns
  <2>4. CASE ~NoneIn(mail, Applies)
    <3>1. PICK i \in DOMAIN mail : mail[i] \in Applies
      BY <2>4 DEF NoneIn
    <3>2. mail[i] \notin Unfenced(h.worker)
      BY <1>9, <2>1 DEF Nowhere, NoneIn
    <3>3. mail[i] \in Mutating /\ mail[i].kind = "Apply"
      BY <1>3, <3>1 DEF Applies
    <3> QED
      BY <2>1, <2>2, <3>2, <3>3
  <2> QED
    BY <1>14, <2>3, <2>4 DEF ApplyPending
<1>15. ASSUME ApplyRuns PROVE NoneIn(mail, Applies)
  <2>1. Once(h, out, Mutating) /\ ~NoneIn(out.running, Mutating)
    BY <1>9, <1>11, <1>13, <1>15 DEF ApplyPending
  <2> QED
    BY <1>4, <1>9, <2>1 DEF Once
<1>16. ASSUME h.tasks # <<>>, Head(h.tasks).kind = "Apply" PROVE ~ApplyPending
  <2>1. Head(h.tasks) \in Mutating
    BY <1>2, <1>16, TailItems DEF Mutating, Item, MutationKinds, WorkerKinds
  <2>2. ~NoneIn(h.tasks, Mutating)
    BY <1>2, <1>16, <2>1, TailItems
  <2>3. Once(h, out, Mutating)
    BY <1>10, <1>11, <2>2 DEF Nowhere
  <2> QED
    BY <1>9, <1>12, <2>2, <2>3 DEF Once
<1> QED
  BY <1>8, <1>14, <1>15, <1>16

(* A step of the main loop that handles no completion of an APPLY, or a task that   *)
(* is none.                                                                         *)
LEMMA QuietStep ==
  ASSUME LeaseKept, left'.crash = left.crash, Linked(h'), Settled(h) => Settled(h'),
         ApplyPending => Firm(h, h'), running' = running \/ (~ApplyRuns /\ ~ApplyRuns'),
         NoneIn(mail, Untouched) => NoneIn(mail', Untouched),
         NoneIn(mail, Applies) <=> NoneIn(mail', Applies)
  PROVE  LeaseKept'
<1>1. SUFFICES ASSUME left.crash = MaxCrashes PROVE FirstLease'
  BY DEF LeaseKept
<1>2. FirstLease
  BY <1>1 DEF LeaseKept
<1>3. ApplyPending' <=> ApplyPending
  BY DEF ApplyPending, ApplyRuns
<1>4. CASE ApplyPending
  <2>1. Firm(h, h')
    BY <1>4
  <2>2. (Guarded(h) => Guarded(h')) /\ (Covered(h) => Covered(h')) /\ (Leased(h) => Leased(h'))
    BY <2>1 DEF Firm, Guarded, Covered
  <2>3. h'.owed => Guarded(h')
    BY <1>2, <2>1, <2>2 DEF FirstLease, Firm
  <2>4. NoneIn(mail', Untouched) \/ Covered(h')
    BY <1>2, <2>2 DEF FirstLease
  <2>5. ApplyRuns' => ApplyRuns /\ running' = running
    BY DEF ApplyRuns
  <2> QED
    BY <1>2, <1>3, <1>4, <2>2, <2>3, <2>4, <2>5 DEF FirstLease
<1>5. CASE ~ApplyPending
  <2>1. Settled(h)
    BY <1>2, <1>5 DEF FirstLease, Settled, Covered
  <2>2. Settled(h') /\ ~ApplyPending' /\ ~ApplyRuns'
    BY <1>3, <1>5, <2>1 DEF ApplyPending
  <2> QED
    BY <2>2 DEF FirstLease, Settled, Covered
<1> QED
  BY <1>4, <1>5

(* What is secured is linked still.                                                 *)
LEMMA SecuresLinked ==
  ASSUME NEW m, Linked(m), NEW n, Secures(m, n)
  PROVE  Linked(n) /\ Firm(m, n) /\ (Settled(m) => Settled(n)) /\ n.request.id = m.request.id
<1>1. Eases(m, n)
  BY SelfSecures, SecuresEases
<1> QED
  BY <1>1 DEF Eases, Secures

(* A session begins on a living connection.                                         *)
LiveApply == h'.request.id \notin {h.request.id, 0} => h.link = "up"

(* A step of the main loop handles a completion.                                    *)
LEMMA MailKeepsLease ==
  ASSUME TypeOK, FenceKept, LeaseKept, HandleMail
  PROVE  LeaseKept' /\ LiveApply
<1> DEFINE c == Head(mail)
<1>1. PICK e \in Surroundings : h' = HandleCompletion(h, c, e)
  BY DEF HandleMail
<1>2. mail # <<>> /\ mail' = Tail(mail) /\ running' = running /\ left' = left
  BY DEF HandleMail, TakeMail
<1>3. mail \in Seq(Completion) /\ Linked(h)
  BY DEF TypeOK, LeaseKept
<1>4. c \in Completion /\ c.kind \in TaskKinds
  <2>1. c \in Completion
    BY <1>2, <1>3, TailItems
  <2> HIDE DEF c
  <2> QED
    BY <2>1 DEF Completion
<1>5. \A items : NoneIn(mail, items) <=> c \notin items /\ NoneIn(mail', items)
  BY <1>2, <1>3, NoneItems
<1>6. c \in Mutating <=> c.kind \in MutationKinds
  BY <1>4 DEF Mutating, Item
<1>7. c \in Mutating =>
        /\ h.worker = [kind |-> FenceKind(c.kind), generation |-> c.generation]
        /\ ~ApplyRuns /\ NoneIn(mail', Applies)
  BY <1>2, FencedApplies
<1>8. ApplyPending => h.worker.kind = "Apply" /\ WorkerActive(h)
  BY FencedApplies
<1>9. \A n : HandleCompletion(h, c, n) =
        CASE c.kind = "Apply" -> HandleApplyCompleted(h, c, n)
          [] c.kind = "Verification" -> HandleVerificationCompleted(h, c)
          [] c.kind = "Reset" -> HandleResetCompleted(h, c, n)
          [] c.kind = "RefreshRate" -> HandleRefreshRateCompleted(h, c, n)
          [] c.kind = "Recovery" -> HandleRecoveryCompleted(h, c, n)
          [] c.kind = "Validation" -> HandleValidationCompleted(h, c, n)
  BY DEF HandleCompletion
<1> HIDE DEF c
<1>10. ASSUME c.kind # "Apply", Linked(h'), h'.request.id = h.request.id \/ h.link = "up",
              Settled(h) => Settled(h'), ApplyPending => Firm(h, h')
       PROVE  LeaseKept' /\ LiveApply
  <2>1. c \notin Applies /\ c \notin Untouched
    BY <1>10 DEF Applies, Untouched
  <2> QED
    BY <1>2, <1>5, <1>10, <2>1, QuietStep DEF LiveApply
<1>11. CASE c.kind = "Apply"
  <2>1. c \in Mutating /\ c \in Applies
    BY <1>4, <1>6, <1>11 DEF MutationKinds, WorkerKinds, Applies
  <2>2. Owns(h, "Apply", c.generation)
    BY <1>7, <1>11, <2>1 DEF Owns, FenceKind
  <2>3. Settles(h, c, h')
    BY <1>1, <1>3, <1>9, <1>11, <2>2, HandleApplyCompletedSettles
  <2>4. left.crash = MaxCrashes => Answers(h, c)
    <3>1. SUFFICES ASSUME FirstLease PROVE Answers(h, c)
      BY DEF LeaseKept
    <3>2. ~c.changed => Covered(h)
      BY <1>5, <2>1, <3>1 DEF FirstLease, Untouched
    <3> QED
      BY <3>1, <3>2 DEF FirstLease, Answers
  <2>5. left.crash = MaxCrashes => Settled(h')
    BY <2>3, <2>4 DEF Settles
  <2>6. ~ApplyPending' /\ ~ApplyRuns'
    BY <1>2, <1>7, <2>1 DEF ApplyPending, ApplyRuns
  <2>7. Linked(h') /\ LiveApply
    BY <2>3 DEF Settles, LiveApply
  <2> QED
    BY <1>2, <2>5, <2>6, <2>7 DEF LeaseKept, FirstLease, Settled, Covered
<1>12. CASE c.kind = "Verification"
  <2>1. Secures(h, h')
    BY <1>1, <1>3, <1>9, <1>12, HandleVerificationCompletedSecures
  <2> QED
    BY <1>3, <1>10, <1>12, <2>1, SecuresLinked
<1>13. CASE c.kind = "Reset"
  <2>1. Eases(h, h') /\ (WorkerActive(h) => Firm(h, h'))
    BY <1>1, <1>3, <1>9, <1>13, HandleResetCompletedEases
  <2> QED
    BY <1>8, <1>10, <1>13, <2>1 DEF Eases
<1>14. CASE c.kind \in {"RefreshRate", "Recovery", "Validation"}
  <2>1. Eases(h, h')
    BY <1>1, <1>3, <1>9, <1>14, HandleRefreshRateCompletedEases, HandleRecoveryCompletedEases,
       HandleValidationCompletedEases
  <2>2. c \in Mutating
    BY <1>6, <1>14 DEF MutationKinds, WorkerKinds
  <2>3. h.worker.kind # "Apply"
    BY <1>7, <1>14, <2>2 DEF FenceKind
  <2> QED
    BY <1>8, <1>10, <1>14, <2>1, <2>3 DEF Eases
<1> QED
  BY <1>4, <1>11, <1>12, <1>13, <1>14 DEF TaskKinds, WorkerKinds

(* A step of the worker thread that is none of an APPLY.                            *)
LEMMA OtherWorkKeepsLease ==
  ASSUME TypeOK, FenceKept, LeaseKept, ~ApplyRuns, ~ApplyRuns', left' = left,
         h' = h \/ h' = [h EXCEPT !.restore_unconfirmed = TRUE] \/ h' = [h EXCEPT !.tasks = Tail(@)],
         mail' = mail \/ \E c \in Completion : c.kind # "Apply" /\ mail' = Append(mail, c)
  PROVE  LeaseKept' /\ LiveApply
<1>1. Linked(h) /\ mail \in Seq(Completion)
  BY DEF LeaseKept, TypeOK
<1>2. Secures(h, h')
  <2>1. Secures(h, h)
    BY <1>1, SelfSecures
  <2>2. Secures(h, [h EXCEPT !.restore_unconfirmed = TRUE]) /\ Secures(h, [h EXCEPT !.tasks = Tail(@)])
    BY <2>1, UpdateSecures DEF Fields, LeaseFields
  <2> QED
    BY <2>1, <2>2
<1>3. Linked(h') /\ Firm(h, h') /\ (Settled(h) => Settled(h')) /\ h'.request.id = h.request.id
  BY <1>1, <1>2, SecuresLinked
<1>4. /\ NoneIn(mail, Untouched) <=> NoneIn(mail', Untouched)
      /\ NoneIn(mail, Applies) <=> NoneIn(mail', Applies)
  <2>1. ASSUME NEW c \in Completion, c.kind # "Apply", mail' = Append(mail, c),
               NEW items \in {Applies, Untouched}
        PROVE  NoneIn(mail, items) <=> NoneIn(mail', items)
    <3>1. c \notin items
      BY <2>1 DEF Applies, Untouched
    <3> QED
      BY <1>1, <2>1, <3>1, NoneItems
  <2> QED
    BY <2>1
<1> QED
  BY <1>3, <1>4, QuietStep DEF LiveApply

(* A step of the worker thread that goes on with an APPLY.                          *)
LEMMA ApplyKeepsLease ==
  ASSUME TypeOK, FenceKept, LeaseKept, left' = left, mail' = mail, ApplyRuns, running' # Idle,
         running'.task = running.task, running'.owed = running.owed,
         \/ /\ h' = h /\ running'.phase = "staged" /\ running'.changed = running.changed
         \/ /\ running'.phase = "armed" /\ running'.changed = running.changed
            /\ \E armed \in TaskOutcomes : h' = [h EXCEPT !.os_task = @ \/ armed]
         \/ /\ running.phase = "armed"
            /\ running'.phase = "mutated" /\ running'.changed /\ h' = [h EXCEPT !.owed = TRUE]
  PROVE  LeaseKept' /\ LiveApply
<1>1. Linked(h) /\ ApplyRuns' /\ ApplyPending'
  BY DEF LeaseKept, ApplyRuns, ApplyPending
<1>2. NoneIn(mail', Untouched)
  BY FencedApplies DEF NoneIn, Untouched
<1>3. CASE h' = h /\ running'.phase = "staged" /\ running'.changed = running.changed
  <2>1. LiveApply
    BY <1>3 DEF LiveApply
  <2>2. FirstLease => FirstLease'
    BY <1>1, <1>2, <1>3 DEF FirstLease
  <2> QED
    BY <1>1, <1>3, <2>1, <2>2 DEF LeaseKept
<1>4. ASSUME NEW armed \in TaskOutcomes, h' = [h EXCEPT !.os_task = @ \/ armed],
             running'.phase = "armed", running'.changed = running.changed
      PROVE  LeaseKept' /\ LiveApply
  <2> DEFINE os == h.os_task \/ armed
  <2>1. Linked([h EXCEPT !.os_task = os]) /\ [h EXCEPT !.os_task = os].request = h.request
    <3> HIDE DEF os
    <3> QED
      BY <1>1, UpdateLinked DEF Fields
  <2>2. h' = [h EXCEPT !.os_task = os]
    BY <1>4
  <2>3. h'.os_task = os /\ h'.owed = h.owed /\ h'.recovery_armed = h.recovery_armed
        /\ h'.changes_pending = h.changes_pending
    BY <1>1, <2>2 DEF Linked, IsRecord, Fields
  <2>4. Guarded(h')
    <3>1. TaskOutcomes = {TRUE} => armed
      BY <1>4
    <3> QED
      BY <2>3, <3>1 DEF Guarded
  <2>5. (Covered(h) <=> Covered(h')) /\ (Leased(h) <=> Leased(h'))
    BY <2>3 DEF Covered, Leased
  <2>6. FirstLease => FirstLease'
    BY <1>1, <1>2, <1>4, <2>4, <2>5 DEF FirstLease
  <2> QED
    BY <2>1, <2>2, <2>6 DEF LeaseKept, LiveApply
<1>5. CASE /\ running.phase = "armed" /\ running'.phase = "mutated" /\ running'.changed
           /\ h' = [h EXCEPT !.owed = TRUE]
  <2>1. Linked(h') /\ h'.request = h.request
    BY <1>1, <1>5, UpdateLinked DEF Fields
  <2>2. h'.os_task = h.os_task /\ h'.recovery_armed = h.recovery_armed
        /\ h'.changes_pending = h.changes_pending
    BY <1>1, <1>5 DEF Linked, IsRecord, Fields
  <2>3. (Guarded(h) => Guarded(h')) /\ (Leased(h) => Leased(h'))
    BY <2>2 DEF Guarded, Leased
  <2>4. FirstLease => FirstLease'
    BY <1>1, <1>2, <1>5, <2>3 DEF FirstLease
  <2> QED
    BY <2>1, <2>4 DEF LeaseKept, LiveApply
<1> QED
  BY <1>3, <1>4, <1>5

(* A step of the worker thread that ends an APPLY.                                  *)
LEMMA ApplyEndKeepsLease ==
  ASSUME TypeOK, FenceKept, LeaseKept, left' = left, ApplyRuns, running' = Idle,
         NEW c \in Completion, c.kind = "Apply", mail' = Append(mail, c),
         \/ h' = h /\ (c.changed \/ c.changed = running.changed)
         \/ h' = [h EXCEPT !.owed = running.owed] /\ running.phase = "mutated"
  PROVE  LeaseKept' /\ LiveApply
<1>1. Linked(h) /\ ApplyPending' /\ ~ApplyRuns' /\ mail \in Seq(Completion)
  <2>1. mail \in Seq(Completion) /\ c \in Applies
    BY DEF TypeOK, Applies
  <2>2. ~NoneIn(mail', Applies)
    BY <2>1, NoneItems
  <2> QED
    BY <2>1, <2>2 DEF LeaseKept, ApplyRuns, ApplyPending
<1>2. NoneIn(mail, Untouched)
  BY FencedApplies DEF NoneIn, Untouched
<1>3. c.changed => NoneIn(mail', Untouched)
  BY <1>1, <1>2, NoneItems DEF Untouched
<1>4. CASE h' = h /\ (c.changed \/ c.changed = running.changed)
  <2>1. FirstLease => FirstLease'
    BY <1>1, <1>3, <1>4 DEF FirstLease
  <2> QED
    BY <1>1, <1>4, <2>1 DEF LeaseKept, LiveApply
<1>5. CASE h' = [h EXCEPT !.owed = running.owed] /\ running.phase = "mutated"
  <2>1. Linked(h') /\ h'.request = h.request
    <3>1. \A owed : Linked([h EXCEPT !.owed = owed]) /\ [h EXCEPT !.owed = owed].request = h.request
      BY <1>1, OwedLinked
    <3> QED
      BY <1>5, <3>1
  <2>2. h'.owed = running.owed /\ h'.os_task = h.os_task
        /\ h'.recovery_armed = h.recovery_armed /\ h'.changes_pending = h.changes_pending
    BY <1>1, <1>5 DEF Linked, IsRecord, Fields
  <2>3. FirstLease => Guarded(h') /\ Covered(h')
    BY <1>5, <2>2 DEF FirstLease, Guarded, Covered, Leased
  <2>4. FirstLease => FirstLease'
    BY <1>1, <2>3 DEF FirstLease
  <2> QED
    BY <2>1, <2>4 DEF LeaseKept, LiveApply
<1> QED
  BY <1>4, <1>5

(* A step of the worker thread.                                                     *)
LEMMA WorkerKeepsLease ==
  ASSUME TypeOK, FenceKept, LeaseKept, WorkerThread
  PROVE  LeaseKept' /\ LiveApply
<1>1. running # Idle => running \in Run /\ running.task \in Task /\ running.changed \in BOOLEAN
  BY DEF TypeOK, Run
<1>2. Linked(h) /\ mail \in Seq(Completion) /\ h.tasks \in Seq(Task)
  BY TypedMemory DEF LeaseKept, TypeOK, Typed
<1>3. CASE TakeTask
  <2>1. running = Idle /\ h.tasks # <<>> /\ mail' = mail /\ left' = left
        /\ h' = [h EXCEPT !.tasks = Tail(@)] /\ running'.task = Head(h.tasks)
        /\ running'.phase = "new" /\ running'.changed = FALSE /\ running'.owed = h.owed
    BY <1>3 DEF TakeTask
  <2>2. CASE running'.task.kind # "Apply"
    <3>1. ~ApplyRuns /\ ~ApplyRuns'
      BY <2>1, <2>2 DEF ApplyRuns
    <3> QED
      BY <2>1, <3>1, OtherWorkKeepsLease
  <2>3. CASE running'.task.kind = "Apply"
    <3>1. ~ApplyPending
      BY <2>1, <2>3, FencedApplies
    <3>2. Secures(h, h')
      <4>1. Secures(h, h)
        BY <1>2, SelfSecures
      <4> QED
        BY <2>1, <4>1, UpdateSecures DEF Fields, LeaseFields
    <3>3. Linked(h') /\ Firm(h, h') /\ (Settled(h) => Settled(h')) /\ h'.request.id = h.request.id
      BY <1>2, <3>2, SecuresLinked
    <3>4. FirstLease => Settled(h) /\ Settled(h')
      BY <3>1, <3>3 DEF FirstLease, Settled, Covered
    <3>5. FirstLease => FirstLease'
      <4>1. h'.owed = h.owed
        BY <3>3 DEF Firm
      <4>2. ASSUME FirstLease
            PROVE  /\ h'.owed => Guarded(h')
                   /\ Covered(h')
                   /\ running'.owed => Leased(h')
        BY <2>1, <3>4, <4>1, <4>2 DEF Settled, Covered
      <4> QED
        BY <2>1, <4>2 DEF FirstLease
    <3> QED
      BY <2>1, <3>3, <3>5 DEF LeaseKept, LiveApply
  <2> QED
    BY <2>2, <2>3
<1>4. CASE ApplyStages \/ ApplyArms \/ ApplyMutates
  <2>1. running # Idle /\ ApplyRuns /\ mail' = mail /\ left' = left
    BY <1>4 DEF ApplyStages, ApplyArms, ApplyMutates, Working, ApplyRuns
  <2>2. running = [f \in DOMAIN running |-> running[f]]
        /\ DOMAIN running = {"phase", "task", "changed", "durable", "staged", "desk", "owed"}
    BY <1>1, <2>1 DEF Run
  <2>3. /\ running' # Idle /\ running'.task = running.task /\ running'.owed = running.owed
        /\ ApplyStages \/ ApplyArms => running'.changed = running.changed
        /\ ApplyStages => running'.phase = "staged"
        /\ ApplyArms => running'.phase = "armed"
        /\ ApplyMutates => running'.phase = "mutated" /\ running'.changed /\ running.phase = "armed"
    BY <1>4, <2>2 DEF ApplyStages, ApplyArms, ApplyMutates, Working, Idle
  <2>4. /\ ApplyStages => h' = h
        /\ ApplyArms => \E armed \in TaskOutcomes : h' = [h EXCEPT !.os_task = @ \/ armed]
        /\ ApplyMutates => h' = [h EXCEPT !.owed = TRUE]
    BY DEF ApplyStages, ApplyArms, ApplyMutates
  <2> QED
    BY <1>4, <2>1, <2>3, <2>4, ApplyKeepsLease
<1>5. ASSUME NEW status \in Statuses, NEW changed \in BOOLEAN, NEW cleared \in {"none", "ok", "failed"},
             Post(status, changed, cleared), running # Idle
      PROVE  /\ running' = Idle /\ left' = left
             /\ \E c \in Completion : /\ c.kind = running.task.kind /\ c.changed = changed
                                      /\ mail' = Append(mail, c)
  <2> DEFINE c == [kind |-> running.task.kind, generation |-> running.task.generation,
                   request |-> running.task.request, virtual |-> running.task.virtual,
                   device |-> running.task.device, purpose |-> running.task.purpose,
                   status |-> status, changed |-> changed, durable |-> running.durable,
                   staged |-> running.staged, cleared |-> cleared]
  <2>1. running.durable \in BOOLEAN /\ running.staged \in BOOLEAN /\ running.task \in Task
    BY <1>5 DEF TypeOK, Run
  <2>2. c \in Completion /\ c.kind = running.task.kind /\ c.changed = changed
    BY <2>1 DEF Task, Completion
  <2>3. mail' = Append(mail, c) /\ running' = Idle /\ left' = left
    BY <1>5 DEF Post
  <2> HIDE DEF c
  <2> QED
    BY <2>2, <2>3
<1>6. CASE ApplyLands \/ ApplyFails
  <2>1. running # Idle /\ ApplyRuns /\ h' = h
    BY <1>6 DEF ApplyLands, ApplyFails, Working, ApplyRuns
  <2>2. PICK status \in Statuses, changed \in BOOLEAN :
          Post(status, changed, "none") /\ (changed \/ changed = running.changed)
    BY <1>1, <1>6, <2>1 DEF ApplyLands, ApplyFails, Statuses
  <2>3. PICK c \in Completion : c.kind = "Apply" /\ c.changed = changed /\ mail' = Append(mail, c)
    BY <1>5, <2>1, <2>2 DEF ApplyRuns
  <2> QED
    BY <1>5, <2>1, <2>2, <2>3, ApplyEndKeepsLease
<1>7. CASE ApplyRollsBack
  <2>1. running # Idle /\ ApplyRuns /\ running.phase = "mutated" /\ h' = [h EXCEPT !.owed = running.owed]
    BY <1>7 DEF ApplyRollsBack, Working, ApplyRuns
  <2>2. PICK status \in Statuses : Post(status, FALSE, "none")
    BY <1>7 DEF ApplyRollsBack, Statuses
  <2>3. PICK c \in Completion : c.kind = "Apply" /\ mail' = Append(mail, c)
    BY <1>5, <2>1, <2>2 DEF ApplyRuns
  <2> QED
    BY <1>5, <2>1, <2>2, <2>3, ApplyEndKeepsLease
<1>8. CASE RecoveryEnters \/ RecoveryBegins
  <2>1. ~ApplyRuns /\ running # Idle /\ running.task.kind = "Recovery" /\ mail' = mail /\ left' = left
    BY <1>8 DEF RecoveryEnters, RecoveryBegins, Working, ApplyRuns
  <2>2. running'.task = running.task
    BY <1>1, <1>8, <2>1 DEF RecoveryEnters, RecoveryBegins, Run
  <2>3. ~ApplyRuns'
    BY <2>1, <2>2 DEF ApplyRuns
  <2>4. h' = h \/ h' = [h EXCEPT !.restore_unconfirmed = TRUE]
    BY <1>8 DEF RecoveryEnters, RecoveryBegins
  <2> QED
    BY <2>1, <2>3, <2>4, OtherWorkKeepsLease
<1>9. ASSUME NEW kind \in {"Recovery", "Validation", "Verification", "RefreshRate", "Reset"},
             running # Idle, running.task.kind = kind, h' = h,
             \E status \in Statuses, changed \in BOOLEAN, cleared \in {"none", "ok", "failed"} :
               Post(status, changed, cleared)
      PROVE  LeaseKept' /\ LiveApply
  <2>1. PICK c \in Completion : c.kind = kind /\ mail' = Append(mail, c)
    BY <1>5, <1>9
  <2>2. ~ApplyRuns /\ ~ApplyRuns' /\ left' = left
    BY <1>5, <1>9 DEF ApplyRuns
  <2> QED
    BY <1>9, <2>1, <2>2, OtherWorkKeepsLease
<1>10. CASE RecoverySkipped \/ RecoveryRestores \/ RecoveryFails
  BY <1>9, <1>10 DEF RecoverySkipped, RecoveryRestores, RecoveryFails, Working, Statuses
<1>11. CASE ValidationEnds
  BY <1>9, <1>11 DEF ValidationEnds, Working, Statuses
<1>12. CASE VerificationEnds
  BY <1>9, <1>12 DEF VerificationEnds, Working, Statuses
<1>13. CASE RefreshRateEnds
  BY <1>9, <1>13 DEF RefreshRateEnds, Working, Statuses
<1>14. CASE ResetEnds
  BY <1>9, <1>14 DEF ResetEnds, Working, Statuses
<1> QED
  BY <1>3, <1>4, <1>6, <1>7, <1>8, <1>10, <1>11, <1>12, <1>13, <1>14 DEF WorkerThread

(* Every step keeps the lease, and begins a session only on a living connection.    *)
LEMMA NextKeepsLease ==
  ASSUME TypeOK, FenceKept, LeaseKept, [Next]_vars
  PROVE  LeaseKept' /\ LiveApply
<1>1. Linked(h) /\ h.epoch \in Nat /\ left \in [DOMAIN Bounds -> Nat]
  BY TypedMemory DEF LeaseKept, Typed, TypeOK
<1>2. ApplyPending => WorkerActive(h)
  BY FencedApplies
<1>3. \A what \in DOMAIN Bounds : Spend(what) /\ what # "crash" => left'.crash = left.crash
  BY <1>1 DEF Spend, Bounds
<1>4. ASSUME UNCHANGED <<running, mail>>, left'.crash = left.crash, Linked(h'),
             h'.request.id \in {h.request.id, 0} \/ h.link = "up",
             WorkerActive(h) => Firm(h, h'), Settled(h) => Settled(h')
      PROVE  LeaseKept' /\ LiveApply
  BY <1>2, <1>4, QuietStep DEF LiveApply
<1>5. CASE Client
  <2>1. UNCHANGED <<running, mail>> /\ left'.crash = left.crash /\ h.link = "up"
    BY <1>3, <1>5 DEF Client, ClientApply, ClientRevert, ClientDisarm, ClientReset, ClientRefreshRate,
       ClientCapture, FromClient, Bounds
  <2>2. ASSUME NEW type \in {"APPLY", "REVERT", "DISARM", "RESET"}, NEW request \in Request
        PROVE  ClientCommand(type, request) \in LiveCommands(h)
    <3>1. Alive(h, h.epoch)
      BY <1>1, <2>1 DEF Alive, Linked
    <3>2. ClientCommand(type, request) \in Command /\ ClientCommand(type, request).epoch = h.epoch
      BY ClientCommandType DEF ClientCommand
    <3> QED
      BY <3>1, <3>2 DEF LiveCommands
  <2>3. ASSUME Eases(h, h'), WorkerActive(h) => Firm(h, h') PROVE LeaseKept' /\ LiveApply
    BY <1>4, <2>1, <2>3 DEF Eases
  <2>4. ASSUME Secures(h, h') PROVE LeaseKept' /\ LiveApply
    BY <1>1, <1>4, <2>1, <2>4, SecuresLinked
  <2>5. CASE ClientApply
    <3>1. PICK request \in Request, e \in Env :
            h' = HandleApplyCommand(h, ClientCommand("APPLY", request), e)
      BY <2>5, ClientApplyType
    <3>2. ClientCommand("APPLY", request) \in LiveCommands(h)
          /\ ClientCommand("APPLY", request).type = "APPLY"
      BY <2>2 DEF ClientCommand
    <3> QED
      BY <1>1, <2>3, <3>1, <3>2, HandleApplyCommandEases
  <2>6. CASE ClientRevert
    <3> DEFINE served == [h EXCEPT !.restore_origin = h.epoch]
               c == ClientCommand("REVERT", NoRequest)
    <3>1. Secures(h, served) /\ Eases(h, h)
      <4> DEFINE epoch == h.epoch
      <4>1. Secures(h, h) /\ Eases(h, h)
        BY <1>1, SelfSecures
      <4> HIDE DEF epoch
      <4>2. Secures(h, [h EXCEPT !.restore_origin = epoch])
        BY <4>1, UpdateSecures DEF Fields, LeaseFields
      <4> QED
        BY <4>1, <4>2 DEF epoch
    <3>2. served.worker = h.worker
      BY <1>1 DEF Linked, IsRecord, Fields
    <3>3. h' = HandleRevertCommand(served, c) /\ c \in LiveCommands(h)
      BY <2>2, <2>6, NoRequestType DEF ClientRevert
    <3> HIDE DEF served, c
    <3>4. c \in LiveCommands(served)
      BY <3>1, <3>3 DEF LiveCommands, Alive, Secures
    <3>5. Eases(h, served) /\ Firm(h, served)
      BY <3>1, SecuresEases DEF Secures
    <3>6. Eases(served, h') /\ (WorkerActive(served) => Firm(served, h'))
      BY <3>3, <3>4, <3>5, HandleRevertCommandEases DEF Eases
    <3>7. Eases(h, h') /\ (WorkerActive(h) => Firm(h, h'))
      BY <3>2, <3>5, <3>6, EasesTransitive, FirmTransitive DEF WorkerActive
    <3> QED
      BY <2>3, <3>7
  <2>7. CASE ClientDisarm
    BY <1>1, <2>2, <2>3, <2>7, NoRequestType, HandleDisarmCommandEases DEF ClientDisarm
  <2>8. CASE ClientReset
    BY <1>1, <2>2, <2>3, <2>8, NoRequestType, OtherCommandsEase DEF ClientReset
  <2>9. CASE ClientRefreshRate
    BY <1>1, <2>2, <2>4, <2>9, NoRequestType, OtherCommandsEase DEF ClientRefreshRate
  <2>10. CASE ClientCapture
    BY <1>1, <2>2, <2>4, <2>10, NoRequestType, OtherCommandsEase DEF ClientCapture
  <2> QED
    BY <1>5, <2>5, <2>6, <2>7, <2>8, <2>9, <2>10 DEF Client
<1>6. ASSUME NEW link, h' = [h EXCEPT !.link = link, !.epoch = @ + 1],
             UNCHANGED <<running, mail>>, left'.crash = left.crash
      PROVE  LeaseKept' /\ LiveApply
  <2>1. Linked(h') /\ Firm(h, h') /\ h'.request = h.request
    BY <1>1, <1>6, LinkLinked
  <2> QED
    BY <1>4, <1>6, <2>1 DEF Firm, Settled, Guarded
<1>7. CASE Connect \/ Break
  BY <1>3, <1>6, <1>7 DEF Connect, Break, Bounds
<1>8. CASE NoticeDisconnect
  <2>1. h.link # "up" /\ h' = HandleDisconnect(h, h.epoch - 1) /\ UNCHANGED <<running, mail, left>>
    BY <1>8 DEF NoticeDisconnect
  <2>2. /\ Linked(h') /\ h'.request.id = h.request.id
        /\ WorkerActive(h) => Firm(h, h')
        /\ Settled(h) => Settled(h')
    BY <1>1, <2>1, HandleDisconnectEases
  <2> QED
    BY <1>4, <2>1, <2>2
<1>9. CASE GraceEnds \/ TimerFires \/ Tick
  <2>1. UNCHANGED <<running, mail, left>>
    BY <1>9 DEF GraceEnds, TimerFires, Tick
  <2>2. Secures(h, h)
    BY <1>1, SelfSecures
  <2>3. Secures(h, h')
    <3>1. CASE GraceEnds
      BY <2>2, <3>1, UpdateSecures DEF GraceEnds, Fields, LeaseFields
    <3>2. CASE TimerFires
      <4>1. Secures(h, [h EXCEPT !.timers = Tail(@)])
        BY <2>2, UpdateSecures DEF Fields, LeaseFields
      <4> QED
        BY <3>2, <4>1, BasicsSecure DEF TimerFires
    <3>3. CASE Tick
      BY <1>1, <3>3, TickSecures DEF Tick
    <3> QED
      BY <1>9, <3>1, <3>2, <3>3
  <2> QED
    BY <1>1, <1>4, <2>1, <2>3, SecuresLinked
<1>10. CASE DisplayChange
  <2>1. UNCHANGED <<running, mail>> /\ left'.crash = left.crash /\ vdd' \in Devices
        /\ (h.state = "EventLoop" \/ h.request.virtual)
    BY <1>3, <1>10 DEF DisplayChange, Bounds, TypeOK
  <2>2. CASE h' = h
    BY <1>1, <1>4, <2>1, <2>2 DEF Firm
  <2>3. ASSUME NEW e \in [task: TaskOutcomes, capture: CaptureOutcomes, device: {vdd'}],
               h' = HandleDisplayEvent(h, e)
        PROVE  LeaseKept' /\ LiveApply
    <3>1. e.device \in Devices
      BY <2>1, <2>3
    <3>2. Eases(h, h') /\ (WorkerActive(h) => Firm(h, h'))
      BY <1>1, <2>1, <2>3, <3>1, HandleDisplayEventEases
    <3> QED
      BY <1>4, <2>1, <3>2 DEF Eases
  <2> QED
    BY <1>10, <2>2, <2>3 DEF DisplayChange
<1>11. CASE Relaunch
  <2>1. left'.crash < MaxCrashes
    <3>1. left.crash \in Nat /\ left.crash <= MaxCrashes /\ MaxCrashes \in Nat
      BY <1>1, BoundsAssumption DEF LeaseKept, Bounds
    <3>2. left'.crash = left.crash - 1
      BY <1>1, <1>11 DEF Relaunch, Spend, Bounds
    <3> QED
      BY <3>1, <3>2
  <2> DEFINE fresh == NextProcess
             restoring == [fresh EXCEPT !.link = "restore_mode"]
             c == [DisconnectRevert EXCEPT !.from_disconnect = FALSE]
  <2>2. IsRecord(fresh)
    BY DEF NextProcess, FreshHelper, IsRecord, Fields
  <2>3. /\ fresh.request = NoRequest /\ fresh.epoch = 0 /\ fresh.link = "down" /\ fresh.deferred = <<>>
        /\ fresh.request.virtual = FALSE /\ fresh.request.id = 0
    BY DEF NextProcess, FreshHelper, NoRequest
  <2> HIDE DEF fresh
  <2>4. Linked(fresh)
    BY <2>2, <2>3, NoRequestType DEF Linked
  <2>5. Linked(restoring) /\ restoring.request = fresh.request /\ restoring.link = "restore_mode"
    <3>1. IsRecord(restoring)
      BY <2>2, UpdateIsRecord DEF Fields
    <3>2. /\ restoring.request = NoRequest /\ restoring.epoch = 0 /\ restoring.link = "restore_mode"
          /\ restoring.deferred = <<>>
      BY <2>2, <2>3 DEF IsRecord, Fields
    <3> HIDE DEF restoring
    <3> QED
      BY <2>3, <3>1, <3>2, NoRequestType DEF Linked
  <2>6. c \in LiveCommands(restoring)
    BY DisconnectRevertType DEF LiveCommands, DisconnectRevert
  <2> HIDE DEF restoring, c
  <2>7. Eases(restoring, HandleRevertCommand(restoring, c))
    BY <2>5, <2>6, HandleRevertCommandEases
  <2>8. h' = fresh \/ h' = HandleRevertCommand(restoring, c)
    BY <1>11, RelaunchCases DEF fresh, restoring, c
  <2>9. Linked(h') /\ h'.request.id = 0
    BY <2>3, <2>4, <2>5, <2>7, <2>8 DEF Eases
  <2>10. left'.crash # MaxCrashes /\ left'.crash <= MaxCrashes
    <3>1. left.crash \in Nat /\ left' = [left EXCEPT !["crash"] = @ - 1] /\ "crash" \in DOMAIN left
      BY <1>1, <1>11 DEF Relaunch, Spend, Bounds
    <3>2. left'.crash \in Int /\ MaxCrashes \in Nat
      BY <3>1, BoundsAssumption
    <3> QED
      BY <2>1, <3>2
  <2> QED
    BY <2>9, <2>10 DEF LeaseKept, LiveApply
<1>12. CASE UNCHANGED vars
  BY <1>1, <1>4, <1>12 DEF vars, Firm
<1> QED
  BY <1>5, <1>7, <1>8, <1>9, <1>10, <1>11, <1>12, MailKeepsLease, WorkerKeepsLease
     DEF Next, Connection

(* LeaseKept is inductive, given the types and FenceKept.                           *)
LEMMA InitKeepsLease ==
  ASSUME Init
  PROVE  LeaseKept
<1>1. IsRecord(h)
  BY DEF Init, FreshHelper, IsRecord, Fields
<1>2. /\ h.request = NoRequest /\ h.epoch = 0 /\ h.link = "down" /\ h.deferred = <<>>
      /\ h.owed = FALSE /\ h.request.virtual = FALSE
  BY DEF Init, FreshHelper, NoRequest
<1>3. Linked(h)
  BY <1>1, <1>2, NoRequestType DEF Linked
<1>4. mail = <<>> /\ running = Idle /\ left.crash = MaxCrashes /\ MaxCrashes \in Nat
  BY BoundsAssumption DEF Init, Bounds
<1>5. FirstLease
  BY <1>2, <1>4, ShortItems DEF FirstLease, Covered, ApplyRuns
<1> QED
  BY <1>3, <1>4, <1>5 DEF LeaseKept

--------------------------------------------------------------------------------
(* What follows                                                                     *)

(* Until the helper first dies, a desktop that an APPLY has changed is covered by   *)
(* the recovery lease as soon as no APPLY holds the fence: whatever was cancelled,  *)
(* rolled back or superseded.  A relaunched helper does not know the lease of its   *)
(* predecessor.                                                                     *)
THEOREM LeaseIsHeld == Spec => [](left.crash = MaxCrashes => LeaseHeld)
<1>1. TypeOK /\ FenceKept /\ LeaseKept => (left.crash = MaxCrashes => LeaseHeld)
  BY FencedApplies DEF LeaseKept, FirstLease, LeaseHeld, Covered, Leased
<1>2. Init => RestoreKept(h)
  BY FreshHelperSound DEF Init, Sound
<1>3. TypeOK /\ RestoreKept(h) /\ [Next]_vars => RestoreKept(h)'
  BY NextRestoreKept
<1>4. Init => LeaseKept
  BY InitKeepsLease
<1>5. TypeOK /\ FenceKept /\ LeaseKept /\ [Next]_vars => LeaseKept'
  BY NextKeepsLease
<1> QED
  BY <1>1, <1>2, <1>3, <1>4, <1>5, FenceKeptInductive, TypeCorrect, PTL DEF Spec

(* Where create_restore_task() does not fail, the restore task that guards such a   *)
(* desktop exists from before the change, so that the first death of the helper     *)
(* cannot leave the user on the stream's layout.                                    *)
THEOREM GuardIsDurable ==
  ASSUME TaskOutcomes = {TRUE}
  PROVE  Spec => [](left.crash = MaxCrashes => DurableGuard)
<1>1. LeaseKept => (left.crash = MaxCrashes => DurableGuard)
  BY DEF LeaseKept, FirstLease, DurableGuard, Guarded
<1>2. Init => RestoreKept(h)
  BY FreshHelperSound DEF Init, Sound
<1>3. TypeOK /\ RestoreKept(h) /\ [Next]_vars => RestoreKept(h)'
  BY NextRestoreKept
<1>4. Init => LeaseKept
  BY InitKeepsLease
<1>5. TypeOK /\ FenceKept /\ LeaseKept /\ [Next]_vars => LeaseKept'
  BY NextKeepsLease
<1> QED
  BY <1>1, <1>2, <1>3, <1>4, <1>5, FenceKeptInductive, TypeCorrect, PTL DEF Spec

(* An APPLY begins only while the connection that sent it is alive, also one that   *)
(* waited behind the fence or that the helper repeats for a virtual display.        *)
THEOREM LiveClientsOnly == Spec => OnlyLiveClientApplies
<1>1. TypeOK /\ FenceKept /\ LeaseKept /\ [Next]_vars =>
        [h'.request.id \notin {h.request.id, 0} => h.link = "up"]_vars
  BY NextKeepsLease DEF LiveApply
<1>2. Init => RestoreKept(h)
  BY FreshHelperSound DEF Init, Sound
<1>3. TypeOK /\ RestoreKept(h) /\ [Next]_vars => RestoreKept(h)'
  BY NextRestoreKept
<1>4. Init => LeaseKept
  BY InitKeepsLease
<1>5. TypeOK /\ FenceKept /\ LeaseKept /\ [Next]_vars => LeaseKept'
  BY NextKeepsLease
<1> QED
  BY <1>1, <1>2, <1>3, <1>4, <1>5, FenceKeptInductive, TypeCorrect, PTL DEF Spec, OnlyLiveClientApplies

(*------------------------- What waits is waited for -------------------------------*)
(* DeferredHasBarrier and ExitWaitsForReset do not hold in general, see README; they *)
(* do as long as no connection has broken.  Then no disconnect settlement is under   *)
(* way, whose handlers leave without draining the queue, and no deferred RESET is of *)
(* another connection, so that an exit that waits for one waits for its completion.  *)

Calm == {t \in Task : t.purpose # "TransientDisconnect"}
CalmEnds == {c \in Completion : c.purpose # "TransientDisconnect"}
Heard(epoch) == {c \in Command : IsReset(c) => c.epoch \in {0, epoch}}
Placid(m) ==
    /\ IsRecord(m) /\ m.request \in Request /\ m.generation \in Nat /\ m.epoch \in Nat
    /\ m.deferred \in Seq(Heard(m.epoch)) /\ m.tasks \in Seq(Calm) /\ m.timers \in Seq(Calm)
    /\ m.settle_requested = FALSE /\ m.settle_pending = FALSE /\ m.settle_repairing = FALSE
    /\ m.link # "broken" /\ (m.link = "down" => m.epoch = 0)

(* The queue holds at most one intent, and `resets` RESETs.                         *)
Intents(s) == {i \in DOMAIN s : ~IsReset(s[i])}
Short(s, resets) ==
    /\ \A i, j \in Intents(s) : i = j
    /\ Len(s) <= resets + 1 /\ (Intents(s) = {} => Len(s) <= resets)

Barrier(m) == WorkerActive(m) \/ m.reset_pending \/ m.exited
Latched(m) == m.exit_after_reset => m.reset_pending
Ordered(m, resets) ==
    /\ Placid(m) /\ Short(m.deferred, resets) /\ Latched(m)
    /\ m.deferred # <<>> => Barrier(m)

(* What most operators do: they leave the queue alone and lower no barrier.         *)
QueueFields == {"worker", "deferred", "reset_pending", "exit_after_reset", "exited",
                "request", "generation", "epoch", "link", "tasks", "timers",
                "settle_requested", "settle_pending", "settle_repairing"}
Upholds(m, n) ==
    /\ Placid(n) /\ n.deferred = m.deferred /\ n.epoch = m.epoch
    /\ n.exit_after_reset = m.exit_after_reset
    /\ WorkerActive(m) => WorkerActive(n)
    /\ m.reset_pending => n.reset_pending
    /\ m.exited => n.exited

--------------------------------------------------------------------------------
(* Operators that leave the queue alone                                             *)

LEMMA UpdateUpholds ==
  ASSUME NEW m, NEW n, Upholds(m, n), NEW f \in Fields \ QueueFields, NEW v
  PROVE  Upholds(m, [n EXCEPT ![f] = v])
<1> DEFINE k == [n EXCEPT ![f] = v]
<1>1. IsRecord(k)
  BY UpdateIsRecord DEF Upholds, Placid
<1>2. \A g \in QueueFields : k[g] = n[g]
  BY DEF Upholds, Placid, IsRecord, Fields, QueueFields
<1>3. /\ k.worker = n.worker /\ k.deferred = n.deferred /\ k.reset_pending = n.reset_pending
      /\ k.exit_after_reset = n.exit_after_reset /\ k.exited = n.exited
      /\ k.request = n.request /\ k.generation = n.generation /\ k.epoch = n.epoch
      /\ k.link = n.link /\ k.tasks = n.tasks /\ k.timers = n.timers
      /\ k.settle_requested = n.settle_requested /\ k.settle_pending = n.settle_pending
      /\ k.settle_repairing = n.settle_repairing
  BY <1>2 DEF QueueFields
<1> HIDE DEF k
<1>4. Upholds(m, k)
  BY <1>1, <1>3 DEF Upholds, Placid, WorkerActive
<1> QED
  BY <1>4 DEF k

LEMMA SelfUpholds ==
  ASSUME NEW m, Placid(m)
  PROVE  Upholds(m, m)
  BY DEF Upholds

LEMMA UpholdsTransitive ==
  ASSUME NEW m, NEW n, NEW k, Upholds(m, n), Upholds(n, k)
  PROVE  Upholds(m, k)
  BY DEF Upholds

LEMMA UpholdsOrdered ==
  ASSUME NEW m, NEW n, NEW resets, Ordered(m, resets), Upholds(m, n)
  PROVE  Ordered(n, resets)
  BY DEF Ordered, Upholds, Latched, Barrier

(* The members among QueueFields that an operator may write all the same.           *)
LEMMA OwnUpholds ==
  ASSUME NEW m, NEW n, Upholds(m, n),
         NEW f \in {"request", "generation", "worker", "tasks", "timers", "reset_pending", "exited",
                    "settle_requested", "settle_pending", "settle_repairing"}, NEW v,
         f = "request" => v \in Request, f = "generation" => v \in Nat,
         f = "worker" => v # NoWorker, f \in {"tasks", "timers"} => v \in Seq(Calm),
         f \in {"reset_pending", "exited"} => v = TRUE,
         f \in {"settle_requested", "settle_pending", "settle_repairing"} => v = FALSE
  PROVE  Upholds(m, [n EXCEPT ![f] = v])
<1> DEFINE k == [n EXCEPT ![f] = v]
<1>1. f \in Fields
  BY DEF Fields
<1>2. IsRecord(k) /\ \A g \in Fields : k[g] = IF g = f THEN v ELSE n[g]
  BY <1>1, UpdateIsRecord DEF Upholds, Placid, IsRecord
<1> HIDE DEF k
<1>3. /\ k.worker = IF f = "worker" THEN v ELSE n.worker
      /\ k.deferred = n.deferred /\ k.exit_after_reset = n.exit_after_reset
      /\ k.reset_pending = IF f = "reset_pending" THEN v ELSE n.reset_pending
      /\ k.exited = IF f = "exited" THEN v ELSE n.exited
      /\ k.request = IF f = "request" THEN v ELSE n.request
      /\ k.generation = IF f = "generation" THEN v ELSE n.generation
      /\ k.epoch = n.epoch /\ k.link = n.link
      /\ k.tasks = IF f = "tasks" THEN v ELSE n.tasks
      /\ k.timers = IF f = "timers" THEN v ELSE n.timers
      /\ k.settle_requested = IF f = "settle_requested" THEN v ELSE n.settle_requested
      /\ k.settle_pending = IF f = "settle_pending" THEN v ELSE n.settle_pending
      /\ k.settle_repairing = IF f = "settle_repairing" THEN v ELSE n.settle_repairing
  BY <1>2 DEF Fields
<1>4. Placid(k)
  BY <1>2, <1>3 DEF Upholds, Placid
<1>5. Upholds(m, k)
  BY <1>3, <1>4 DEF Upholds, WorkerActive
<1> QED
  BY <1>5 DEF k

(* What the dispatched closures capture: none is a settlement's.                    *)
LEMMA CalmTasks ==
  ASSUME NEW m, NEW n, Upholds(m, n), NEW kind \in TaskKinds
  PROVE  /\ TaskFor(n, kind) \in Calm
         /\ \A device \in Devices : [TaskFor(n, kind) EXCEPT !.device = device] \in Calm
         /\ \A purpose \in {"Initial", "Stabilization"} :
              [TaskFor(n, kind) EXCEPT !.purpose = purpose] \in Calm
  BY DEF Upholds, Placid, Calm, TaskFor, Task, Request, Purposes

(* Cancellation, transition, dispatch                                               *)
LEMMA BasicsUphold ==
  ASSUME NEW m, NEW n, Upholds(m, n), NEW v
  PROVE  /\ Upholds(m, CancelOperations(n)) /\ Upholds(m, Transition(n, v))
         /\ v \in Calm => Upholds(m, Enqueue(n, v))
         /\ v # "none" => Upholds(m, Fence(n, v)) /\ WorkerActive(Fence(n, v))
         /\ Upholds(m, SendApplyResult(n)) /\ Upholds(m, SendVerificationResult(n, v))
<1>0. IsRecord(n) /\ n.generation \in Nat /\ n.tasks \in Seq(Calm)
  BY DEF Upholds, Placid
<1>1. Upholds(m, CancelOperations(n))
  <2>1. CancelOperations(n) = [n EXCEPT !.generation = n.generation + 1]
    BY DEF CancelOperations
  <2> DEFINE g == n.generation + 1
  <2>2. g \in Nat
    BY <1>0
  <2> HIDE DEF g
  <2>3. Upholds(m, [n EXCEPT !["generation"] = g])
    BY <2>2, OwnUpholds
  <2> QED
    BY <2>1, <2>3 DEF g
<1>2. Upholds(m, Transition(n, v))
  BY UpdateUpholds DEF Transition, Fields, QueueFields
<1>3. v \in Calm => Upholds(m, Enqueue(n, v))
  <2>1. Enqueue(n, v) = [n EXCEPT !.tasks = Append(n.tasks, v)]
    BY DEF Enqueue
  <2> DEFINE s == Append(n.tasks, v)
  <2>2. v \in Calm => s \in Seq(Calm)
    BY <1>0
  <2> HIDE DEF s
  <2>3. ASSUME s \in Seq(Calm) PROVE Upholds(m, [n EXCEPT !["tasks"] = s])
    BY Zenon, <2>3, OwnUpholds
  <2> QED
    BY <2>1, <2>2, <2>3 DEF s
<1>4. v # "none" => Upholds(m, Fence(n, v)) /\ WorkerActive(Fence(n, v))
  <2> DEFINE w == [kind |-> v, generation |-> n.generation]
  <2>1. Fence(n, v) = [n EXCEPT !.worker = w]
    BY DEF Fence
  <2>2. v # "none" => w # NoWorker
    BY DEF NoWorker
  <2> HIDE DEF w
  <2>3. [n EXCEPT !.worker = w].worker = w
    BY <1>0 DEF IsRecord, Fields
  <2>4. w # NoWorker => Upholds(m, [n EXCEPT !["worker"] = w])
    BY OwnUpholds
  <2> QED
    BY <2>1, <2>2, <2>3, <2>4 DEF WorkerActive
<1>5. Upholds(m, SendApplyResult(n))
  BY UpdateUpholds DEF SendApplyResult, Fields, QueueFields
<1>6. Upholds(m, SendVerificationResult(n, v))
  <2> DEFINE verdict == [id \in RequestIds |->
                          IF id = n.request.id THEN IF v THEN "ok" ELSE "failed" ELSE n.verdict[id]]
  <2>1. Upholds(m, [n EXCEPT !.verification_sent = TRUE])
    BY UpdateUpholds DEF Fields, QueueFields
  <2>2. Upholds(m, [[n EXCEPT !.verification_sent = TRUE] EXCEPT !.verdict = verdict])
    <3> HIDE DEF verdict
    <3> QED
      BY <2>1, UpdateUpholds DEF Fields, QueueFields
  <2>3. SendVerificationResult(n, v) =
          IF n.verification_sent THEN n
          ELSE [[n EXCEPT !.verification_sent = TRUE] EXCEPT !.verdict = verdict]
    BY <1>0 DEF SendVerificationResult, IsRecord, Fields
  <2> HIDE DEF verdict
  <2> QED
    BY <2>2, <2>3
<1> QED
  BY <1>1, <1>2, <1>3, <1>4, <1>5, <1>6

(* What is dispatched                                                               *)
LEMMA DispatchUpholds ==
  ASSUME NEW m, NEW n, Upholds(m, n), NEW device \in Devices,
         NEW purpose \in {"Initial", "Stabilization"}
  PROVE  /\ Upholds(m, DispatchApply(n)) /\ WorkerActive(DispatchApply(n))
         /\ Upholds(m, DispatchRecovery(n)) /\ WorkerActive(DispatchRecovery(n))
         /\ Upholds(m, DispatchRefreshRate(n, device))
         /\ n.worker.kind # "none" => Upholds(m, DispatchValidation(n))
         /\ Upholds(m, DispatchVerification(n, purpose))
         /\ Upholds(m, DispatchVerificationAfter(n, purpose))
         /\ Upholds(m, BeginStagedStateReset(n))
<1>0. IsRecord(n) /\ n.timers \in Seq(Calm)
  BY DEF Upholds, Placid
<1>1. \A kind \in TaskKinds : /\ Upholds(m, Enqueue(n, TaskFor(n, kind)))
                             /\ TaskFor(n, kind) \in Calm
  BY CalmTasks, BasicsUphold
<1>2. /\ Upholds(m, DispatchApply(n)) /\ WorkerActive(DispatchApply(n))
      /\ Upholds(m, DispatchRecovery(n)) /\ WorkerActive(DispatchRecovery(n))
  BY <1>1, BasicsUphold DEF DispatchApply, DispatchRecovery, TaskKinds, WorkerKinds
<1>3. Upholds(m, DispatchRefreshRate(n, device))
  <2> DEFINE t == [TaskFor(n, "RefreshRate") EXCEPT !.device = device]
  <2>1. t \in Calm
    BY CalmTasks DEF TaskKinds, WorkerKinds
  <2> HIDE DEF t
  <2>2. Upholds(m, Enqueue(n, t))
    BY <2>1, BasicsUphold
  <2> QED
    BY <2>2, BasicsUphold DEF DispatchRefreshRate, t
<1>4. ASSUME n.worker.kind # "none" PROVE Upholds(m, DispatchValidation(n))
  <2> DEFINE k == Enqueue(n, TaskFor(n, "Validation"))
             worker == [n.worker EXCEPT !.generation = n.generation]
  <2>1. Upholds(m, k)
    BY <1>1 DEF TaskKinds
  <2>2. k.worker = n.worker
    BY <1>0 DEF Enqueue, IsRecord, Fields
  <2>3. DispatchValidation(n) = [k EXCEPT !.worker = [k.worker EXCEPT !.generation = n.generation]]
    BY DEF DispatchValidation
  <2>4. DispatchValidation(n) = [k EXCEPT !.worker = worker]
    BY <2>2, <2>3
  <2>5. worker # NoWorker
    <3>1. worker = NoWorker => worker.kind = "none"
      BY DEF NoWorker
    <3>2. worker.kind = n.worker.kind
      OBVIOUS
    <3> QED
      BY <1>4, <3>1, <3>2
  <2> HIDE DEF k, worker
  <2>6. Upholds(m, [k EXCEPT !["worker"] = worker])
    BY <2>1, <2>5, OwnUpholds
  <2> QED
    BY <2>4, <2>6
<1>5. Upholds(m, DispatchVerification(n, purpose))
  <2> DEFINE t == [TaskFor(n, "Verification") EXCEPT !.purpose = purpose]
  <2>1. t \in Calm
    BY CalmTasks DEF TaskKinds
  <2> HIDE DEF t
  <2> QED
    BY <2>1, BasicsUphold DEF DispatchVerification, t
<1>6. Upholds(m, DispatchVerificationAfter(n, purpose))
  <2> DEFINE t == [TaskFor(n, "Verification") EXCEPT !.purpose = purpose]
  <2>1. t \in Calm
    BY CalmTasks DEF TaskKinds
  <2>2. DispatchVerificationAfter(n, purpose) = [n EXCEPT !.timers = Append(n.timers, t)]
    BY DEF DispatchVerificationAfter
  <2> DEFINE s == Append(n.timers, t)
  <2> HIDE DEF t
  <2>3. s \in Seq(Calm)
    BY <1>0, <2>1
  <2> HIDE DEF s
  <2>4. Upholds(m, [n EXCEPT !["timers"] = s])
    BY <2>3, OwnUpholds
  <2> QED
    BY <2>2, <2>4 DEF s
<1>7. Upholds(m, BeginStagedStateReset(n))
  <2> DEFINE k == [n EXCEPT !.reset_pending = TRUE]
  <2>1. Upholds(m, k)
    BY OwnUpholds
  <2>2. TaskFor(n, "Reset") \in Calm
    BY <1>1 DEF TaskKinds
  <2> HIDE DEF k
  <2>3. Upholds(m, Enqueue(k, TaskFor(n, "Reset")))
    BY <2>1, <2>2, BasicsUphold
  <2> QED
    BY <2>3 DEF BeginStagedStateReset, k
<1> QED
  BY <1>2, <1>3, <1>4, <1>5, <1>6, <1>7

(* The ladders and the settlement                                                   *)
LEMMA LaddersUphold ==
  ASSUME NEW m, NEW n, Upholds(m, n)
  PROVE  /\ Upholds(m, ResetStabilization(n)) /\ Upholds(m, RewindStabilization(n))
         /\ Upholds(m, ResetSettlement(n)) /\ Upholds(m, ResetRequestProgress(n))
         /\ Upholds(m, NextSettle(n)) /\ ~CanSettle(n)
<1>1. Upholds(m, ResetStabilization(n))
  BY UpdateUpholds DEF ResetStabilization, Fields, QueueFields
<1>2. Upholds(m, RewindStabilization(n))
  BY UpdateUpholds DEF RewindStabilization, Fields, QueueFields
<1>3. Upholds(m, ResetSettlement(n))
  <2> DEFINE k1 == [n EXCEPT !.settle_requested = FALSE]
             k2 == [k1 EXCEPT !.settle_pending = FALSE]
             k3 == [k2 EXCEPT !.settle_repairing = FALSE]
  <2>1. Upholds(m, k1)
    BY OwnUpholds
  <2> HIDE DEF k1
  <2>2. Upholds(m, k2)
    BY <2>1, OwnUpholds
  <2> HIDE DEF k2
  <2>3. Upholds(m, k3)
    BY <2>2, OwnUpholds
  <2> HIDE DEF k3
  <2>4. Upholds(m, [k3 EXCEPT !.next_settle = 0])
    BY <2>3, UpdateUpholds DEF Fields, QueueFields
  <2> QED
    BY <2>4 DEF ResetSettlement, k3, k2, k1
<1>4. Upholds(m, ResetRequestProgress(n))
  BY UpdateUpholds DEF ResetRequestProgress, Fields, QueueFields
<1>5. ~CanSettle(n) /\ n.settle_pending = FALSE
  BY DEF CanSettle, Upholds, Placid
<1> QED
  BY <1>1, <1>2, <1>3, <1>4, <1>5 DEF NextSettle

(* The states that are entered with a dispatch                                      *)
LEMMA StagesUphold ==
  ASSUME NEW m, NEW n, Upholds(m, n), NEW v
  PROVE  /\ Upholds(m, StartRecovery(n)) /\ Upholds(m, EnterSteadyState(n))
         /\ Upholds(m, ScheduleNextCheck(n)) /\ Upholds(m, NextReapply(n))
         /\ Upholds(m, StabilizationRepair(n)) /\ Upholds(m, ExitHelper(n, v))
<1> USE DEF Fields, QueueFields
<1>0. 0 \in Devices
  BY DeviceAssumption DEF Devices
<1>1. Upholds(m, StartRecovery(n))
  <2>1. Upholds(m, [n EXCEPT !.recovery_reset = "none"])
    BY UpdateUpholds
  <2> QED
    BY <1>0, <2>1, BasicsUphold, DispatchUpholds DEF StartRecovery
<1>2. Upholds(m, EnterSteadyState(n))
  BY BasicsUphold DEF EnterSteadyState
<1>3. Upholds(m, ScheduleNextCheck(n))
  <2>1. Upholds(m, [n EXCEPT !.next_check = @ + 1, !.check_pending = TRUE])
    BY UpdateUpholds
  <2> QED
    BY <1>0, <2>1, DispatchUpholds DEF ScheduleNextCheck
<1>4. Upholds(m, NextReapply(n))
  <2>1. Upholds(m, [n EXCEPT !.next_reapply = @ + 1])
    BY UpdateUpholds
  <2>2. Upholds(m, [n EXCEPT !.next_reapply = @ + 1,
                             !.next_check = IF @ < n.next_reapply THEN n.next_reapply ELSE @])
    BY <2>1, UpdateUpholds
  <2> QED
    BY <1>0, <2>1, <2>2, BasicsUphold, DispatchUpholds DEF NextReapply
<1>5. Upholds(m, StabilizationRepair(n))
  <2> DEFINE stage == IF n.next_reapply < n.next_check + 1 THEN n.next_check + 1 ELSE n.next_reapply
  <2>1. Upholds(m, [n EXCEPT !.next_reapply = stage])
    BY UpdateUpholds
  <2>2. StabilizationRepair(n) =
        DispatchApply(Transition([n EXCEPT !.next_reapply = stage], "InProgress"))
    BY DEF StabilizationRepair
  <2> HIDE DEF stage
  <2> QED
    BY <1>0, <2>1, <2>2, BasicsUphold, DispatchUpholds
<1>6. Upholds(m, ExitHelper(n, v))
  <2> DEFINE k == CancelOperations(n)
             k1 == [k EXCEPT !.exited = TRUE]
  <2>1. Upholds(m, k) /\ Upholds(m, [n EXCEPT !.restore_origin = 0])
    BY BasicsUphold, UpdateUpholds
  <2> HIDE DEF k
  <2>2. Upholds(m, k1)
    BY <2>1, OwnUpholds
  <2> HIDE DEF k1
  <2>3. Upholds(m, [k1 EXCEPT !.exit_code = v])
    BY <2>2, UpdateUpholds
  <2> QED
    BY <2>1, <2>3 DEF ExitHelper, k1, k
<1> QED
  BY <1>1, <1>2, <1>3, <1>4, <1>5, <1>6

(* The lease, taken and given up                                                    *)
LEMMA LeaseUpholds ==
  ASSUME NEW m, NEW n, Upholds(m, n), NEW c, NEW e
  PROVE  /\ Upholds(m, ApplyRecoveryPolicy(n)) /\ Upholds(m, ActivateRecoveryLease(n))
         /\ Upholds(m, CreateRestoreTaskIfMissing(n, e))
         /\ Upholds(m, RetainAfterMutation(n, c, e)) /\ Upholds(m, RetainAfterCancelledRecovery(n))
         /\ Upholds(m, ResetUncommittedStagedState(n)) /\ Upholds(m, ClearRecoveryState(n))
<1> USE DEF Fields, QueueFields
<1>1. ASSUME NEW k, Upholds(m, k) PROVE Upholds(m, ApplyRecoveryPolicy(k))
  <2> DEFINE r == k.request.restore_on_disconnect
  <2>1. ApplyRecoveryPolicy(k) = [k EXCEPT !.restore_on_disconnect = r]
    BY DEF ApplyRecoveryPolicy
  <2> HIDE DEF r
  <2> QED
    BY <1>1, <2>1, UpdateUpholds
<1>2. ASSUME NEW k, Upholds(m, k) PROVE Upholds(m, ActivateRecoveryLease(k))
  BY <1>1, <1>2, UpdateUpholds DEF ActivateRecoveryLease
<1>3. ASSUME NEW k, Upholds(m, k) PROVE Upholds(m, CreateRestoreTaskIfMissing(k, e))
  BY <1>3, UpdateUpholds DEF CreateRestoreTaskIfMissing
<1>4. Upholds(m, RetainAfterMutation(n, c, e))
  <2>1. Upholds(m, [n EXCEPT !.task_created = @ \/ c.durable])
    BY UpdateUpholds
  <2> QED
    BY <1>2, <1>3, <2>1 DEF RetainAfterMutation
<1>5. Upholds(m, RetainAfterCancelledRecovery(n))
  BY UpdateUpholds DEF RetainAfterCancelledRecovery
<1>6. Upholds(m, ResetUncommittedStagedState(n))
  <2>1. 0 \in Devices
    BY DeviceAssumption DEF Devices
  <2>2. Upholds(m, [n EXCEPT !.os_task = FALSE, !.task_created = FALSE])
    BY UpdateUpholds
  <2> QED
    BY <2>1, <2>2, DispatchUpholds DEF ResetUncommittedStagedState
<1>7. Upholds(m, ClearRecoveryState(n))
  <2> DEFINE k == ResetSettlement(ResetRequestProgress(n))
             k1 == [k EXCEPT !.scheduler = "off", !.recovery_armed = FALSE, !.changes_pending = FALSE,
                             !.explicit_recovery = FALSE]
  <2>1. Upholds(m, k)
    BY LaddersUphold
  <2> HIDE DEF k
  <2>2. Upholds(m, k1)
    BY <2>1, UpdateUpholds
  <2> HIDE DEF k1
  <2>3. Upholds(m, [k1 EXCEPT !.last_apply = "none", !.os_task = FALSE, !.task_created = FALSE,
                              !.owed = FALSE])
    BY <2>2, UpdateUpholds
  <2> QED
    BY <2>3 DEF ClearRecoveryState, k1, k
<1> QED
  BY <1>1, <1>2, <1>3, <1>4, <1>5, <1>6, <1>7

--------------------------------------------------------------------------------
(* The deferred queue                                                               *)

(* A RESET joins the queue, an intent takes the place of the last, a command leaves. *)
LEMMA ShortQueues ==
  ASSUME NEW S, NEW s \in Seq(S), NEW resets \in Nat, Short(s, resets), NEW c
  PROVE  /\ s # <<>> => Short(Tail(s), resets)
         /\ Short(s, resets + 1)
         /\ IsReset(c) => Short(Append(s, c), resets + 1)
         /\ ~IsReset(c) => Short(Append(WithoutIntent(s), c), resets)
<1>1. Len(s) \in Nat /\ DOMAIN s = 1..Len(s)
  OBVIOUS
<1>2. s # <<>> => Short(Tail(s), resets)
  <2>1. SUFFICES ASSUME s # <<>> PROVE Short(Tail(s), resets)
    OBVIOUS
  <2> DEFINE r == Tail(s)
  <2>2. /\ Len(r) = Len(s) - 1 /\ DOMAIN r = 1..(Len(s) - 1) /\ Len(s) > 0
        /\ \A i \in 1..(Len(s) - 1) : r[i] = s[i + 1]
    BY <2>1, HeadTailProperties, LenProperties, EmptySeq
  <2> HIDE DEF r
  <2>3. \A i \in Intents(r) : i + 1 \in Intents(s) /\ i \in Nat
    BY <1>1, <2>2 DEF Intents
  <2>4. \A i, j \in Intents(r) : i = j
    BY <2>3 DEF Short
  <2>5. Intents(r) = {} => Len(r) <= resets
    BY <1>1, <2>2 DEF Short
  <2> QED
    BY <1>1, <2>2, <2>4, <2>5 DEF Short, r
<1>3. Short(s, resets + 1)
  BY <1>1 DEF Short
<1>4. ASSUME IsReset(c) PROVE Short(Append(s, c), resets + 1)
  <2> DEFINE a == Append(s, c)
  <2>1. /\ Len(a) = Len(s) + 1 /\ DOMAIN a = 1..(Len(s) + 1)
        /\ \A i \in 1..Len(s) : a[i] = s[i]
        /\ a[Len(s) + 1] = c
    BY <1>1
  <2> HIDE DEF a
  <2>2. Intents(a) = Intents(s)
    BY <1>1, <1>4, <2>1 DEF Intents
  <2>3. Short(a, resets + 1)
    BY <1>1, <2>1, <2>2 DEF Short
  <2> QED
    BY <2>3 DEF a
<1>5. ASSUME ~IsReset(c) PROVE Short(Append(WithoutIntent(s), c), resets)
  <2> DEFINE r == WithoutIntent(s)
             a == Append(r, c)
  <2>1. Len(r) \in Nat /\ DOMAIN r = 1..Len(r) /\ Len(r) <= resets
        /\ \A i \in DOMAIN r : IsReset(r[i])
    <3>1. CASE \A i \in DOMAIN s : IsReset(s[i])
      BY <1>1, <3>1 DEF WithoutIntent, Short, Intents
    <3>2. CASE \E i \in DOMAIN s : ~IsReset(s[i])
      <4> DEFINE p == CHOOSE i \in DOMAIN s : ~IsReset(s[i])
      <4>1. p \in 1..Len(s) /\ ~IsReset(s[p])
        BY <1>1, <3>2
      <4>2. r = SubSeq(s, 1, p - 1) \o SubSeq(s, p + 1, Len(s))
        BY <3>2 DEF WithoutIntent, RemoveAt
      <4> HIDE DEF p, r
      <4>3. \A i \in DOMAIN s : i # p => IsReset(s[i])
        BY <4>1, <1>1 DEF Short, Intents
      <4> DEFINE left0 == SubSeq(s, 1, p - 1)
                 right0 == SubSeq(s, p + 1, Len(s))
      <4>4. /\ left0 \in Seq(S) /\ Len(left0) = p - 1
            /\ \A i \in 1..(p - 1) : left0[i] = s[i]
        <5>1. /\ 1 \in Int /\ p - 1 \in Int /\ p - 1 >= 0
              /\ \A i \in 1..(p - 1) : s[i] \in S
          BY <1>1, <4>1
        <5>2. /\ left0 \in Seq(S) /\ Len(left0) = IF 1 <= p - 1 THEN p - 1 - 1 + 1 ELSE 0
              /\ \A i \in 1..(p - 1 - 1 + 1) : left0[i] = s[1 + i - 1]
          BY <5>1, SubSeqProperties
        <5> HIDE DEF left0
        <5> QED
          BY <4>1, <5>1, <5>2
      <4>5. /\ right0 \in Seq(S) /\ Len(right0) = Len(s) - p
            /\ \A i \in 1..(Len(s) - p) : right0[i] = s[i + p]
        <5>1. /\ p + 1 \in Int /\ Len(s) \in Int /\ Len(s) - p >= 0
              /\ \A i \in (p + 1)..Len(s) : s[i] \in S
          BY <1>1, <4>1
        <5>2. /\ right0 \in Seq(S)
              /\ Len(right0) = IF p + 1 <= Len(s) THEN Len(s) - (p + 1) + 1 ELSE 0
              /\ \A i \in 1..(Len(s) - (p + 1) + 1) : right0[i] = s[p + 1 + i - 1]
          BY <5>1, SubSeqProperties
        <5> HIDE DEF right0
        <5> QED
          BY <4>1, <5>1, <5>2
      <4>6. /\ Len(r) = Len(s) - 1 /\ DOMAIN r = 1..(Len(s) - 1)
            /\ \A i \in 1..(Len(s) - 1) : r[i] = IF i < p THEN s[i] ELSE s[i + 1]
        <5>1. r = left0 \o right0
          BY <4>2 DEF left0, right0
        <5> HIDE DEF left0, right0
        <5>2. /\ r \in Seq(S) /\ Len(r) = Len(left0) + Len(right0)
              /\ \A i \in 1..(Len(left0) + Len(right0)) :
                   r[i] = IF i <= Len(left0) THEN left0[i] ELSE right0[i - Len(left0)]
          BY <4>4, <4>5, <5>1, ConcatProperties
        <5>3. Len(r) = Len(s) - 1 /\ DOMAIN r = 1..(Len(s) - 1)
          BY <1>1, <4>1, <4>4, <4>5, <5>2
        <5>4. ASSUME NEW i \in 1..(Len(s) - 1)
              PROVE  r[i] = IF i < p THEN s[i] ELSE s[i + 1]
          <6>1. i \in 1..(Len(left0) + Len(right0)) /\ Len(left0) = p - 1 /\ i \in Int /\ p \in Int
            BY <1>1, <4>1, <4>4, <4>5
          <6>2. CASE i < p
            BY <4>4, <5>2, <6>1, <6>2
          <6>3. CASE ~(i < p)
            <7>1. r[i] = right0[i - (p - 1)] /\ i - (p - 1) \in 1..(Len(s) - p)
              BY <1>1, <4>1, <5>2, <6>1, <6>3
            <7>2. right0[i - (p - 1)] = s[i - (p - 1) + p]
              BY <4>5, <7>1
            <7>3. i - (p - 1) + p = i + 1
              BY <6>1
            <7> QED
              BY <6>3, <7>1, <7>2, <7>3
          <6> QED
            BY <6>2, <6>3
        <5> QED
          BY <5>3, <5>4
      <4>7. \A i \in DOMAIN r : IsReset(r[i])
        <5> SUFFICES ASSUME NEW i \in 1..(Len(s) - 1) PROVE IsReset(r[i])
          BY <4>6
        <5>1. i \in DOMAIN s /\ i + 1 \in DOMAIN s /\ i \in Nat /\ p \in Nat
          BY <1>1, <4>1
        <5>2. CASE i < p
          <6>1. r[i] = s[i] /\ i # p
            BY <4>6, <5>1, <5>2
          <6> QED
            BY <4>3, <5>1, <6>1
        <5>3. CASE ~(i < p)
          <6>1. r[i] = s[i + 1] /\ i + 1 # p
            BY <4>6, <5>1, <5>3
          <6> QED
            BY <4>3, <5>1, <6>1
        <5> QED
          BY <5>2, <5>3
      <4>8. Len(s) - 1 <= resets
        BY <1>1 DEF Short
      <4> QED
        BY <1>1, <4>1, <4>6, <4>7, <4>8
    <3> QED
      BY <3>1, <3>2
  <2>2. r \in Seq(S)
    BY QueueOf
  <2> HIDE DEF r
  <2>3. /\ Len(a) = Len(r) + 1 /\ DOMAIN a = 1..(Len(r) + 1)
        /\ \A i \in 1..Len(r) : a[i] = r[i]
        /\ a[Len(r) + 1] = c
    BY <2>1, <2>2
  <2> HIDE DEF a
  <2>4. Intents(a) = {Len(r) + 1}
    BY <1>5, <2>1, <2>3 DEF Intents
  <2>5. Short(a, resets)
    BY <2>1, <2>3, <2>4 DEF Short
  <2> QED
    BY <2>5 DEF a, r
<1> QED
  BY <1>2, <1>3, <1>4, <1>5

(* The queue changes, nothing else.                                                 *)
LEMMA QueuePlacid ==
  ASSUME NEW m, Placid(m), NEW queue \in Seq(Heard(m.epoch))
  PROVE  LET n == [m EXCEPT !.deferred = queue]
         IN /\ Placid(n) /\ n.deferred = queue /\ n.epoch = m.epoch
            /\ n.exit_after_reset = m.exit_after_reset /\ n.worker = m.worker
            /\ n.reset_pending = m.reset_pending /\ n.exited = m.exited
<1> DEFINE n == [m EXCEPT !.deferred = queue]
<1>1. IsRecord(n)
  BY UpdateIsRecord DEF Placid, Fields
<1>2. /\ n.worker = m.worker /\ n.deferred = queue /\ n.reset_pending = m.reset_pending
      /\ n.exit_after_reset = m.exit_after_reset /\ n.exited = m.exited
      /\ n.request = m.request /\ n.generation = m.generation /\ n.epoch = m.epoch
      /\ n.link = m.link /\ n.tasks = m.tasks /\ n.timers = m.timers
      /\ n.settle_requested = m.settle_requested /\ n.settle_pending = m.settle_pending
      /\ n.settle_repairing = m.settle_repairing
  BY DEF Placid, IsRecord, Fields
<1> HIDE DEF n
<1>3. Placid(n)
  BY <1>1, <1>2 DEF Placid
<1> QED
  BY <1>2, <1>3 DEF n

(* What is deferred waits for a worker or for a reset.                              *)
LEMMA DeferOrdered ==
  ASSUME NEW m, NEW resets \in Nat, Ordered(m, resets), NEW n, Upholds(m, n),
         NEW c \in Heard(m.epoch), WorkerActive(m) \/ m.reset_pending
  PROVE  /\ ~IsReset(c) => Ordered(Defer(n, c), resets) /\ Ordered(Supersede(n, c), resets)
         /\ IsReset(c) => Ordered(Defer(n, c), resets + 1)
<1>1. ASSUME NEW k, Upholds(m, k)
      PROVE  Ordered(Defer(k, c), IF IsReset(c) THEN resets + 1 ELSE resets)
  <2> DEFINE queue == Append(IF IsReset(c) THEN k.deferred ELSE WithoutIntent(k.deferred), c)
             d == [k EXCEPT !.deferred = queue]
  <2>1. Ordered(k, resets) /\ k.epoch = m.epoch /\ Placid(k)
    BY <1>1, UpholdsOrdered DEF Upholds
  <2>2. k.deferred \in Seq(Heard(k.epoch)) /\ Short(k.deferred, resets)
    BY <2>1 DEF Ordered, Placid
  <2>3. queue \in Seq(Heard(k.epoch))
    BY <2>1, <2>2, QueueOf
  <2>4. Short(queue, IF IsReset(c) THEN resets + 1 ELSE resets)
    BY <2>2, ShortQueues
  <2>5. Defer(k, c) = d
    BY DEF Defer
  <2> HIDE DEF queue
  <2>6. Placid(d) /\ d.deferred = queue /\ d.exit_after_reset = k.exit_after_reset
        /\ d.worker = k.worker /\ d.reset_pending = k.reset_pending
    BY <2>1, <2>3, QueuePlacid
  <2> HIDE DEF d
  <2>7. WorkerActive(k) \/ k.reset_pending
    BY <1>1 DEF Upholds
  <2> QED
    BY <2>1, <2>4, <2>5, <2>6, <2>7 DEF Ordered, Latched, Barrier, WorkerActive
<1>2. Upholds(m, CancelOperations(n))
  BY BasicsUphold
<1> QED
  BY <1>1, <1>2 DEF Supersede

--------------------------------------------------------------------------------
(* Commands                                                                         *)

LEMMA LatchedUpholds ==
  ASSUME NEW m, NEW n, Upholds(m, n), NEW v
  PROVE  /\ Upholds(m, ResetSettlement([n EXCEPT !.explicit_recovery = v]))
         /\ Upholds(m, [ResetSettlement([n EXCEPT !.explicit_recovery = v]) EXCEPT !.scheduler = "off"])
<1>1. Upholds(m, ResetSettlement([n EXCEPT !.explicit_recovery = v]))
  BY UpdateUpholds, LaddersUphold DEF Fields, QueueFields
<1> QED
  BY <1>1, UpdateUpholds DEF Fields, QueueFields

(* The start of a session                                                           *)
LEMMA BeginApplyUpholds ==
  ASSUME NEW m, NEW n, Upholds(m, n), NEW c \in Command, NEW e
  PROVE  Upholds(m, BeginApply(n, c, e))
<1> USE DEF Fields, QueueFields
<1> DEFINE base == ResetStabilization(CancelOperations(n))
           lease == n.recovery_armed \/ n.changes_pending
           first == [base EXCEPT
                !.lease_before_apply = lease,
                !.scheduler = "off", !.restore_unconfirmed = FALSE,
                !.attempt = 1, !.hdr_fallback = FALSE, !.apply_sent = FALSE,
                !.verification_sent = FALSE, !.verified = FALSE]
           second == [first EXCEPT !.request = c.request]
           accepted == [second EXCEPT !.reply_epoch = c.epoch]
           hdr == c.request.hdr # "unset"
           policy == ApplyRecoveryPolicy(accepted)
           session == [policy EXCEPT !.last_apply = "recent",
                         !.checks = IF hdr THEN 3 ELSE 1,
                         !.reapplies = IF hdr THEN 4 ELSE 2,
                         !.snapshot = @ \/ e.capture]
<1>1. Upholds(m, base)
  BY BasicsUphold, LaddersUphold
<1> HIDE DEF base, lease
<1>2. Upholds(m, first)
  BY ZenonT(60), <1>1, UpdateUpholds
<1> HIDE DEF first
<1>3. Upholds(m, second)
  <2> DEFINE request == c.request
  <2>1. request \in Request
    BY DEF Command
  <2> HIDE DEF request
  <2>2. Upholds(m, [first EXCEPT !["request"] = request])
    BY <1>2, <2>1, OwnUpholds
  <2> QED
    BY <2>2 DEF request
<1> HIDE DEF second
<1>4. Upholds(m, accepted)
  BY <1>3, UpdateUpholds
<1> HIDE DEF accepted
<1>5. Upholds(m, policy)
  BY <1>4, LeaseUpholds
<1> HIDE DEF policy, hdr
<1>6. Upholds(m, session)
  BY <1>5, UpdateUpholds
<1> HIDE DEF session
<1>7. 0 \in Devices
  BY DeviceAssumption DEF Devices
<1>8. /\ Upholds(m, DispatchApply(Transition(session, "InProgress")))
      /\ Upholds(m, Transition(SendApplyResult(accepted), "Waiting"))
  BY <1>4, <1>6, <1>7, BasicsUphold, DispatchUpholds
<1>9. BeginApply(n, c, e) = IF ~c.request.configured
         THEN Transition(SendApplyResult(accepted), "Waiting")
         ELSE DispatchApply(Transition(session, "InProgress"))
  BY DEF BeginApply, session, policy, accepted, second, first, base, hdr, lease
<1> QED
  BY <1>8, <1>9

(* The tails of the other handlers                                                  *)
LEMMA TailsUphold ==
  ASSUME NEW m, NEW n, Upholds(m, n)
  PROVE  /\ Upholds(m, ReleaseOnDisconnect(n)) /\ Upholds(m, BeginRevert(n))
         /\ Upholds(m, ExitHelper(ClearRecoveryState(CancelOperations(n)), 0))
         /\ Upholds(m, BeginDisarm(n))
<1> USE DEF Fields, QueueFields
<1> DEFINE cancelled == CancelOperations(n)
           cleared == ClearRecoveryState(cancelled)
<1>1. Upholds(m, cancelled)
  BY BasicsUphold
<1> HIDE DEF cancelled
<1>2. Upholds(m, cleared)
  BY <1>1, LeaseUpholds
<1> HIDE DEF cleared
<1>3. Upholds(m, Transition(ResetStabilization(cleared), "Waiting"))
  BY <1>2, LaddersUphold, BasicsUphold
<1>4. Upholds(m, ExitHelper(cleared, 0))
  BY <1>2, StagesUphold
<1> DEFINE armed == [cancelled EXCEPT !.recovery_armed = TRUE, !.changes_pending = TRUE,
                                      !.scheduler = "open"]
<1>5. Upholds(m, armed)
  BY <1>1, UpdateUpholds
<1> HIDE DEF armed
<1>6. Upholds(m, StartRecovery(ResetStabilization(armed)))
  BY <1>5, LaddersUphold, StagesUphold
<1> DEFINE forgot == IF n.unconfirmed_mutation THEN cancelled
                     ELSE [cleared EXCEPT !.task_created = FALSE]
           rested == [forgot EXCEPT !.attempt = 0, !.apply_sent = FALSE,
                        !.verification_sent = FALSE, !.verified = FALSE, !.last_apply = "none"]
<1>7. Upholds(m, forgot)
  BY <1>1, <1>2, UpdateUpholds
<1> HIDE DEF forgot
<1>8. Upholds(m, rested)
  BY <1>7, UpdateUpholds
<1> HIDE DEF rested
<1>9. Upholds(m, Transition(ResetStabilization(rested), "Waiting"))
  BY <1>8, LaddersUphold, BasicsUphold
<1>10. /\ ReleaseOnDisconnect(n) = Transition(ResetStabilization(cleared), "Waiting")
       /\ BeginRevert(n) = StartRecovery(ResetStabilization(armed))
       /\ ExitHelper(ClearRecoveryState(CancelOperations(n)), 0) = ExitHelper(cleared, 0)
       /\ BeginDisarm(n) = Transition(ResetStabilization(rested), "Waiting")
  BY DEF ReleaseOnDisconnect, BeginRevert, BeginDisarm, rested, forgot, armed, cleared, cancelled
<1> QED
  BY <1>3, <1>4, <1>6, <1>9, <1>10

(* A command that need not wait leaves the queue alone,                             *)
LEMMA CommandUpholds ==
  ASSUME NEW m, Placid(m), ~WorkerActive(m), ~m.reset_pending, NEW c \in Command, NEW e
  PROVE  /\ Upholds(m, HandleApplyCommand(m, c, e)) /\ Upholds(m, HandleRevertCommand(m, c))
         /\ Upholds(m, HandleDisarmCommand(m, c)) /\ Upholds(m, HandleResetCommand(m, c))
<1>1. Upholds(m, m)
  BY SelfUpholds
<1>2. \A v : Upholds(m, ResetSettlement([m EXCEPT !.explicit_recovery = v]))
  BY <1>1, LatchedUpholds
<1>3. Upholds(m, HandleApplyCommand(m, c, e))
  BY <1>1, <1>2, BeginApplyUpholds DEF HandleApplyCommand
<1>4. Upholds(m, HandleRevertCommand(m, c))
  <2> DEFINE latched == IF c.from_disconnect THEN m
                        ELSE ResetSettlement([m EXCEPT !.explicit_recovery = TRUE])
  <2>1. Upholds(m, latched)
    BY <1>1, <1>2
  <2> HIDE DEF latched
  <2> QED
    BY <1>1, <2>1, TailsUphold DEF HandleRevertCommand, latched
<1>5. Upholds(m, HandleDisarmCommand(m, c))
  BY <1>1, <1>2, TailsUphold DEF HandleDisarmCommand
<1>6. Upholds(m, HandleResetCommand(m, c))
  <2>1. 0 \in Devices
    BY DeviceAssumption DEF Devices
  <2> QED
    BY <1>1, <2>1, DispatchUpholds DEF HandleResetCommand
<1> QED
  BY <1>3, <1>4, <1>5, <1>6

(* and one that waits joins it behind what it waits for.                            *)
LEMMA CommandOrdered ==
  ASSUME NEW m, NEW resets \in Nat, Ordered(m, resets), NEW c \in Heard(m.epoch), NEW e
  PROVE  /\ ~IsReset(c) => /\ Ordered(HandleApplyCommand(m, c, e), resets)
                           /\ Ordered(HandleRevertCommand(m, c), resets)
                           /\ Ordered(HandleDisarmCommand(m, c), resets)
         /\ IsReset(c) => Ordered(HandleResetCommand(m, c), resets + 1)
<1>1. Placid(m) /\ Upholds(m, m) /\ c \in Command /\ Ordered(m, resets + 1)
  BY SelfUpholds, ShortQueues DEF Ordered, Heard, Placid
<1>2. CASE ~WorkerActive(m) /\ ~m.reset_pending
  BY <1>1, <1>2, CommandUpholds, UpholdsOrdered
<1>3. CASE WorkerActive(m) \/ m.reset_pending
  <2>1. \A v : /\ Upholds(m, ResetSettlement([m EXCEPT !.explicit_recovery = v]))
               /\ Upholds(m, [ResetSettlement([m EXCEPT !.explicit_recovery = v]) EXCEPT !.scheduler = "off"])
    BY <1>1, LatchedUpholds
  <2>2. \A n : Upholds(m, n) =>
          /\ ~IsReset(c) => Ordered(Defer(n, c), resets) /\ Ordered(Supersede(n, c), resets)
          /\ IsReset(c) => Ordered(Defer(n, c), resets + 1)
    BY <1>3, DeferOrdered
  <2>3. ~IsReset(c) => Ordered(HandleApplyCommand(m, c, e), resets)
    BY <1>3, <2>1, <2>2 DEF HandleApplyCommand
  <2>4. ~IsReset(c) => Ordered(HandleRevertCommand(m, c), resets)
    <3> DEFINE latched == IF c.from_disconnect THEN m
                          ELSE ResetSettlement([m EXCEPT !.explicit_recovery = TRUE])
    <3>1. Upholds(m, latched)
      BY <1>1, <2>1
    <3> HIDE DEF latched
    <3> QED
      BY <1>3, <2>2, <3>1 DEF HandleRevertCommand, latched
  <2>5. ~IsReset(c) => Ordered(HandleDisarmCommand(m, c), resets)
    BY <1>3, <2>1, <2>2 DEF HandleDisarmCommand
  <2>6. IsReset(c) => Ordered(HandleResetCommand(m, c), resets + 1)
    BY <1>1, <1>3, <2>2 DEF HandleResetCommand
  <2> QED
    BY <2>3, <2>4, <2>5, <2>6
<1> QED
  BY <1>2, <1>3

--------------------------------------------------------------------------------
(* drain_deferred_mutation_commands() empties the queue or stops at a barrier       *)

(* Between the end of a worker and the drain, a queue has no barrier.               *)
Ready(m, resets) == Placid(m) /\ Short(m.deferred, resets)
Advances(m, n) ==
    /\ n.exit_after_reset = m.exit_after_reset /\ n.epoch = m.epoch
    /\ m.reset_pending => n.reset_pending
    /\ m.exited => n.exited

LEMMA ReadyUpholds ==
  ASSUME NEW m, NEW n, NEW resets, Upholds(m, n)
  PROVE  /\ Ready(m, resets) => Ready(n, resets) /\ Advances(m, n)
         /\ Ordered(m, resets) => Ready(m, resets) /\ Latched(m)
         /\ Ready(n, resets) /\ Latched(n) /\ Barrier(n) => Ordered(n, resets)
  BY DEF Ready, Upholds, Advances, Ordered

LEMMA DrainOneReady ==
  ASSUME NEW m, NEW resets \in Nat, Ready(m, resets), NEW e
  PROVE  LET n == DrainOne(m, e)
         IN /\ Ready(n, resets) /\ Advances(m, n)
            /\ \/ n.deferred = <<>>
               \/ WorkerActive(n) \/ n.reset_pending
               \/ Len(n.deferred) = Len(m.deferred) - 1
            /\ m.deferred = <<>> \/ WorkerActive(m) \/ m.reset_pending => n = m
            /\ m.deferred # <<>> /\ ~WorkerActive(m) /\ IsReset(Head(m.deferred)) => n.reset_pending
<1> DEFINE c == Head(m.deferred)
           popped == [m EXCEPT !.deferred = Tail(@)]
           n == DrainOne(m, e)
<1>1. CASE m.deferred = <<>> \/ WorkerActive(m) \/ m.reset_pending
  <2>1. n = m
    BY <1>1 DEF DrainOne
  <2> HIDE DEF n
  <2>2. WorkerActive(m) \/ m.reset_pending \/ m.deferred = <<>>
    BY <1>1
  <2> QED
    BY <2>1, <2>2 DEF Advances, n
<1>2. CASE ~(m.deferred = <<>> \/ WorkerActive(m) \/ m.reset_pending)
  <2>1. m.deferred \in Seq(Heard(m.epoch)) /\ m.deferred # <<>>
    BY <1>2 DEF Ready, Placid
  <2>2. /\ c \in Heard(m.epoch) /\ Tail(m.deferred) \in Seq(Heard(m.epoch))
        /\ Len(Tail(m.deferred)) = Len(m.deferred) - 1
    BY <2>1, HeadTailProperties
  <2>3. Short(Tail(m.deferred), resets)
    BY <2>1, ShortQueues DEF Ready
  <2>4. popped = [m EXCEPT !.deferred = Tail(m.deferred)]
    OBVIOUS
  <2>5. n = CASE c.type = "APPLY" -> HandleApplyCommand(popped, c, e)
              [] c.type = "REVERT" -> HandleRevertCommand(popped, c)
              [] c.type = "DISARM" -> HandleDisarmCommand(popped, c)
              [] c.type = "RESET" -> HandleResetCommand(popped, c)
    BY <1>2 DEF DrainOne
  <2> HIDE DEF popped, n, c
  <2>6. /\ Placid(popped) /\ popped.deferred = Tail(m.deferred) /\ popped.epoch = m.epoch
        /\ popped.exit_after_reset = m.exit_after_reset /\ popped.worker = m.worker
        /\ popped.reset_pending = m.reset_pending /\ popped.exited = m.exited
    BY <2>2, <2>4, QueuePlacid DEF Ready
  <2>7. c \in Command /\ c.type \in {"APPLY", "REVERT", "DISARM", "RESET"}
    BY <2>2 DEF Heard, Command
  <2>8. ~WorkerActive(popped) /\ ~popped.reset_pending
    BY <1>2, <2>6 DEF WorkerActive
  <2>9. Upholds(popped, n)
    BY <2>5, <2>6, <2>7, <2>8, CommandUpholds
  <2>10. Ready(n, resets) /\ Advances(m, n) /\ n.deferred = Tail(m.deferred)
    BY <2>3, <2>6, <2>9 DEF Ready, Upholds, Advances
  <2>11. ASSUME IsReset(c) PROVE n.reset_pending
    <3>1. n = HandleResetCommand(popped, c)
      BY <2>5, <2>11 DEF IsReset
    <3>2. ~IsStaleConnection(popped, c.epoch)
      BY <2>2, <2>6, <2>11 DEF Heard, IsStaleConnection
    <3>3. n = BeginStagedStateReset(popped)
      BY <2>8, <3>1, <3>2 DEF HandleResetCommand
    <3>4. IsRecord(popped)
      BY <2>6 DEF Placid
    <3> QED
      BY <2>8, <3>3, <3>4 DEF BeginStagedStateReset, Enqueue, IsRecord, Fields
  <2> QED
    BY <1>2, <2>2, <2>10, <2>11 DEF n, c
<1> QED
  BY <1>1, <1>2

LEMMA DrainReady ==
  ASSUME NEW m, NEW resets \in 0..2, Ready(m, resets), NEW e
  PROVE  LET n == Drain(m, e)
         IN /\ Ready(n, resets) /\ Advances(m, n)
            /\ n.deferred # <<>> => Barrier(n)
            /\ m.deferred # <<>> /\ ~WorkerActive(m) /\ Intents(m.deferred) = {} => n.reset_pending
<1> DEFINE m1 == DrainOne(m, e)
           m2 == DrainOne(m1, e)
           m3 == DrainOne(m2, e)
<1>1. Drain(m, e) = m3
  BY DEF Drain
<1>2. resets \in Nat
  OBVIOUS
<1>3. /\ Ready(m1, resets) /\ Advances(m, m1)
      /\ \/ m1.deferred = <<>> \/ WorkerActive(m1) \/ m1.reset_pending
         \/ Len(m1.deferred) = Len(m.deferred) - 1
      /\ m.deferred # <<>> /\ ~WorkerActive(m) /\ IsReset(Head(m.deferred)) => m1.reset_pending
  BY <1>2, DrainOneReady
<1> HIDE DEF m1
<1>4. /\ Ready(m2, resets) /\ Advances(m1, m2)
      /\ \/ m2.deferred = <<>> \/ WorkerActive(m2) \/ m2.reset_pending
         \/ Len(m2.deferred) = Len(m1.deferred) - 1
      /\ m1.deferred = <<>> \/ WorkerActive(m1) \/ m1.reset_pending => m2 = m1
  BY <1>2, <1>3, DrainOneReady
<1> HIDE DEF m2
<1>5. /\ Ready(m3, resets) /\ Advances(m2, m3)
      /\ \/ m3.deferred = <<>> \/ WorkerActive(m3) \/ m3.reset_pending
         \/ Len(m3.deferred) = Len(m2.deferred) - 1
      /\ m2.deferred = <<>> \/ WorkerActive(m2) \/ m2.reset_pending => m3 = m2
  BY <1>2, <1>4, DrainOneReady
<1> HIDE DEF m3
<1>6. Ready(m3, resets) /\ Advances(m, m3)
  BY <1>3, <1>4, <1>5 DEF Advances
<1>7. ASSUME m3.deferred # <<>>, ~WorkerActive(m3), ~m3.reset_pending PROVE FALSE
  <2>1. ~(m2.deferred = <<>> \/ WorkerActive(m2) \/ m2.reset_pending)
    BY <1>5, <1>7
  <2>2. ~(m1.deferred = <<>> \/ WorkerActive(m1) \/ m1.reset_pending)
    BY <1>4, <2>1
  <2>3. Len(m3.deferred) = Len(m2.deferred) - 1 /\ Len(m2.deferred) = Len(m1.deferred) - 1
        /\ Len(m1.deferred) = Len(m.deferred) - 1
    BY <1>3, <1>4, <1>5, <1>7, <2>1, <2>2
  <2>4. m.deferred \in Seq(Heard(m.epoch)) /\ Len(m.deferred) <= resets + 1
    BY DEF Ready, Placid, Short
  <2>5. Len(m3.deferred) \in Nat \ {0}
    <3>1. m3.deferred \in Seq(Heard(m3.epoch))
      BY <1>5 DEF Ready, Placid
    <3> QED
      BY <1>7, <3>1, LenProperties, EmptySeq
  <2>6. Len(m1.deferred) \in Nat /\ Len(m2.deferred) \in Nat /\ Len(m.deferred) \in Nat
    <3>1. m1.deferred \in Seq(Heard(m1.epoch)) /\ m2.deferred \in Seq(Heard(m2.epoch))
      BY <1>3, <1>4 DEF Ready, Placid
    <3> QED
      BY <2>4, <3>1, LenProperties
  <2>7. \A x, y, z, w \in Nat, r \in 0..2 :
          ~(w # 0 /\ w = z - 1 /\ z = y - 1 /\ y = x - 1 /\ x <= r + 1)
    OBVIOUS
  <2> QED
    BY <2>3, <2>4, <2>5, <2>6, <2>7
<1>8. ASSUME m.deferred # <<>>, ~WorkerActive(m), Intents(m.deferred) = {} PROVE m3.reset_pending
  <2>1. IsReset(Head(m.deferred))
    <3>1. m.deferred \in Seq(Heard(m.epoch))
      BY DEF Ready, Placid
    <3>2. 1 \in DOMAIN m.deferred /\ Head(m.deferred) = m.deferred[1]
      BY <1>8, <3>1
    <3> QED
      BY <1>8, <3>2 DEF Intents
  <2>2. m1.reset_pending
    BY <1>3, <1>8, <2>1
  <2> QED
    BY <1>4, <1>5, <2>2 DEF Advances
<1> QED
  BY <1>1, <1>6, <1>7, <1>8 DEF Barrier

(* A handler that ends with a drain                                                 *)
LEMMA DrainOrdered ==
  ASSUME NEW m, NEW n, NEW resets \in 0..2, Ready(m, resets), Latched(m), Upholds(m, n), NEW e
  PROVE  Ordered(Drain(n, e), resets)
<1>1. Ready(n, resets)
  BY DEF Ready, Upholds
<1> DEFINE d == Drain(n, e)
<1>2. Ready(d, resets) /\ Advances(n, d) /\ (d.deferred # <<>> => Barrier(d))
  BY <1>1, DrainReady
<1> HIDE DEF d
<1>3. Latched(d)
  BY <1>2 DEF Latched, Upholds, Advances
<1> QED
  BY <1>2, <1>3 DEF Ordered, Ready, d

--------------------------------------------------------------------------------
(* Completions                                                                      *)

(* The worker's fence is released: what is deferred is ready to be drained.         *)
LEMMA ReleaseFenceReady ==
  ASSUME NEW m, NEW resets, Ordered(m, resets)
  PROVE  LET n == ReleaseFence(m)
         IN Ready(n, resets) /\ Latched(n) /\ Placid(n) /\ Upholds(n, n)
            /\ ~WorkerActive(n) /\ n.deferred = m.deferred
<1> DEFINE n == ReleaseFence(m)
<1>1. IsRecord(n)
  BY UpdateIsRecord DEF Ordered, Placid, ReleaseFence, Fields
<1>2. /\ n.worker = NoWorker /\ n.deferred = m.deferred /\ n.reset_pending = m.reset_pending
      /\ n.exit_after_reset = m.exit_after_reset /\ n.exited = m.exited
      /\ n.request = m.request /\ n.generation = m.generation /\ n.epoch = m.epoch
      /\ n.link = m.link /\ n.tasks = m.tasks /\ n.timers = m.timers
      /\ n.settle_requested = m.settle_requested /\ n.settle_pending = m.settle_pending
      /\ n.settle_repairing = m.settle_repairing
  BY DEF Ordered, Placid, IsRecord, Fields, ReleaseFence
<1> HIDE DEF n
<1>3. Placid(n)
  BY <1>1, <1>2 DEF Ordered, Placid
<1> QED
  BY <1>2, <1>3, SelfUpholds DEF Ready, Latched, Ordered, WorkerActive, n

(* A superseded APPLY, one that landed, one that is given up or run again           *)
LEMMA ApplyEndsOrdered ==
  ASSUME NEW m, NEW resets \in 0..2, Ready(m, resets), Latched(m), NEW n, Upholds(m, n),
         NEW c, NEW e
  PROVE  /\ Ordered(StaleApply(n, c, e), resets) /\ Ordered(AppliedOk(n, e), resets)
         /\ Ordered(RetryApply(n, c, e), resets)
<1> USE DEF Fields, QueueFields
<1>0. 0 \in Devices /\ n.settle_repairing = FALSE
  BY DeviceAssumption DEF Devices, Upholds, Placid
<1>1. Ordered(StaleApply(n, c, e), resets)
  <2>1. Upholds(m, [n EXCEPT !.task_created = @ \/ c.durable]) /\ Upholds(m, RetainAfterMutation(n, c, e))
    BY UpdateUpholds, LeaseUpholds
  <2>2. Upholds(m, [RetainAfterMutation(n, c, e) EXCEPT !.unconfirmed_mutation = TRUE])
    BY <2>1, UpdateUpholds
  <2>3. Upholds(m, ResetUncommittedStagedState([n EXCEPT !.task_created = @ \/ c.durable]))
    BY <2>1, LeaseUpholds
  <2> QED
    BY <2>2, <2>3, DrainOrdered DEF StaleApply
<1>2. Ordered(AppliedOk(n, e), resets)
  <2> DEFINE k == DispatchVerification(Transition(SendApplyResult(n), "Verification"), "Initial")
  <2>1. Upholds(m, k)
    BY <1>0, BasicsUphold, DispatchUpholds
  <2>2. AppliedOk(n, e) = Drain(k, e)
    BY <1>0 DEF AppliedOk
  <2> HIDE DEF k
  <2> QED
    BY <2>1, <2>2, DrainOrdered
<1>3. Ordered(ApplyFailed(n, c, e), resets)
  <2> DEFINE told == SendVerificationResult(SendApplyResult(n), FALSE)
             clean == IF c.changed THEN told ELSE ResetUncommittedStagedState(told)
  <2>1. Upholds(m, told)
    BY BasicsUphold
  <2> HIDE DEF told
  <2>2. Upholds(m, clean)
    BY <2>1, LeaseUpholds
  <2> HIDE DEF clean
  <2>3. Upholds(m, EnterSteadyState(clean)) /\ Upholds(m, Transition(clean, "Waiting"))
    BY <2>2, StagesUphold, BasicsUphold
  <2> QED
    BY <2>3, DrainOrdered DEF ApplyFailed, clean, told
<1>4. ASSUME NEW k, Upholds(m, k) PROVE Ordered(DispatchApply(k), resets)
  <2>1. Upholds(m, DispatchApply(k)) /\ WorkerActive(DispatchApply(k))
    BY <1>0, <1>4, DispatchUpholds
  <2> QED
    BY <2>1 DEF Ordered, Ready, Upholds, Latched, Barrier
<1>5. Ordered(DispatchApply([n EXCEPT !.attempt = @ + 1]), resets)
  BY <1>4, UpdateUpholds
<1>6. Ordered(DispatchApply(Transition([n EXCEPT !.hdr_fallback = TRUE, !.request.hdr = "off",
                                                 !.attempt = 1], "InProgress")), resets)
  <2> DEFINE n1 == [n EXCEPT !.hdr_fallback = TRUE]
             request == [n1.request EXCEPT !.hdr = "off"]
             n2 == [n1 EXCEPT !["request"] = request]
             n3 == [n2 EXCEPT !.attempt = 1]
  <2>1. Upholds(m, n1)
    BY UpdateUpholds
  <2>2. [n EXCEPT !.hdr_fallback = TRUE, !.request.hdr = "off", !.attempt = 1] = n3
    BY DEF Upholds, Placid, IsRecord
  <2> HIDE DEF n1
  <2>3. request \in Request
    BY <2>1 DEF Upholds, Placid, Request
  <2> HIDE DEF request
  <2>4. Upholds(m, n2)
    BY <2>1, <2>3, OwnUpholds
  <2> HIDE DEF n2
  <2>5. Upholds(m, n3)
    BY <2>4, UpdateUpholds
  <2> HIDE DEF n3
  <2>6. Upholds(m, Transition(n3, "InProgress"))
    BY <2>5, BasicsUphold
  <2> QED
    BY <1>4, <2>2, <2>6
<1> QED
  BY <1>1, <1>2, <1>3, <1>5, <1>6 DEF RetryApply

(* handle_apply_completed()                                                         *)
LEMMA HandleApplyCompletedOrdered ==
  ASSUME NEW m, NEW resets \in 0..2, Ordered(m, resets), NEW c, NEW e
  PROVE  Ordered(HandleApplyCompleted(m, c, e), resets)
<1> DEFINE freed == ReleaseFence(m)
           owned == [freed EXCEPT !.staged_prepared = @ \/ c.staged]
           touched == c.status = "Ok" \/ c.changed
           leased == IF touched THEN ActivateRecoveryLease(owned) ELSE owned
           guarded == [leased EXCEPT !.task_created = @ \/ c.durable]
           tasked == IF touched THEN CreateRestoreTaskIfMissing(guarded, e) ELSE guarded
<1>1. Ready(freed, resets) /\ Latched(freed) /\ Upholds(freed, freed)
  BY ReleaseFenceReady
<1> HIDE DEF freed
<1>2. Upholds(freed, owned)
  BY <1>1, UpdateUpholds DEF Fields, QueueFields
<1> HIDE DEF owned, touched
<1>3. Upholds(freed, leased)
  BY <1>2, LeaseUpholds
<1> HIDE DEF leased
<1>4. Upholds(freed, guarded)
  BY <1>3, UpdateUpholds DEF Fields, QueueFields
<1> HIDE DEF guarded
<1>5. Upholds(freed, tasked)
  BY <1>4, LeaseUpholds
<1> HIDE DEF tasked
<1>6. m.settle_requested = FALSE
  BY DEF Ordered, Placid
<1>7. Ordered(StaleApply(owned, c, e), resets) /\ Ordered(AppliedOk(tasked, e), resets)
      /\ Ordered(RetryApply(tasked, c, e), resets)
  BY <1>1, <1>2, <1>5, ApplyEndsOrdered
<1>8. HandleApplyCompleted(m, c, e) =
        IF ~Owns(m, "Apply", c.generation) THEN m
        ELSE IF IsStale(m, c.generation) THEN StaleApply(owned, c, e)
        ELSE IF c.status = "Ok" THEN AppliedOk(tasked, e)
        ELSE RetryApply(tasked, c, e)
  BY <1>6 DEF HandleApplyCompleted, tasked, guarded, leased, touched, owned, freed
<1> QED
  BY <1>7, <1>8

(* handle_verification_completed(): no check of a settlement is under way.          *)
LEMMA HandleVerificationCompletedUpholds ==
  ASSUME NEW m, Placid(m), NEW c, c.purpose # "TransientDisconnect"
  PROVE  Upholds(m, HandleVerificationCompleted(m, c))
<1> USE DEF Fields, QueueFields
<1>1. Upholds(m, m) /\ m.settle_requested = FALSE
  BY SelfUpholds DEF Placid
<1>2. Upholds(m, StabilizationChecked(m, c))
  <2> DEFINE k == [m EXCEPT !.check_pending = FALSE]
  <2>1. Upholds(m, k) /\ k.settle_requested = FALSE
    BY <1>1, UpdateUpholds DEF Placid, IsRecord
  <2> HIDE DEF k
  <2> QED
    BY <2>1, StagesUphold DEF StabilizationChecked, k
<1>3. Upholds(m, InitialVerified(m))
  <2> DEFINE k1 == [m EXCEPT !.verified = TRUE]
             k2 == ActivateRecoveryLease(k1)
             k3 == [k2 EXCEPT !.unconfirmed_mutation = FALSE]
  <2>1. Upholds(m, k1)
    BY <1>1, UpdateUpholds
  <2> HIDE DEF k1
  <2>2. Upholds(m, k2)
    BY <2>1, LeaseUpholds
  <2> HIDE DEF k2
  <2>3. Upholds(m, k3)
    BY <2>2, UpdateUpholds
  <2> HIDE DEF k3
  <2>4. Upholds(m, SendVerificationResult(k3, TRUE))
    BY <2>3, BasicsUphold
  <2>5. /\ Upholds(m, EnterSteadyState(ScheduleNextCheck(m)))
        /\ Upholds(m, EnterSteadyState(ScheduleNextCheck(SendVerificationResult(k3, TRUE))))
    BY <1>1, <2>4, StagesUphold
  <2> QED
    BY <1>1, <2>5 DEF InitialVerified, k3, k2, k1
<1>4. Upholds(m, InitialRejected(m))
  <2> DEFINE k == RewindStabilization(m)
  <2>1. Upholds(m, k)
    BY <1>1, LaddersUphold
  <2> HIDE DEF k
  <2>2. Upholds(m, NextReapply(k))
    BY <2>1, StagesUphold
  <2>3. /\ Upholds(m, EnterSteadyState(NextReapply(k)))
        /\ Upholds(m, Transition(SendVerificationResult(NextReapply(k), FALSE), "Waiting"))
    BY <2>2, StagesUphold, BasicsUphold
  <2> QED
    BY <2>2, <2>3 DEF InitialRejected, k
<1> QED
  BY <1>1, <1>2, <1>3, <1>4 DEF HandleVerificationCompleted

(* The flags that decide about an exit                                              *)
LEMMA FlagReady ==
  ASSUME NEW m, NEW resets, Ready(m, resets),
         NEW f \in (Fields \ QueueFields) \cup {"exit_after_reset", "reset_pending"}, NEW v
  PROVE  LET n == [m EXCEPT ![f] = v]
         IN /\ Ready(n, resets) /\ n.deferred = m.deferred /\ n.exited = m.exited
            /\ n.epoch = m.epoch /\ n.worker = m.worker
            /\ n.exit_after_reset = IF f = "exit_after_reset" THEN v ELSE m.exit_after_reset
            /\ n.reset_pending = IF f = "reset_pending" THEN v ELSE m.reset_pending
<1> DEFINE n == [m EXCEPT ![f] = v]
<1>1. f \in Fields
  BY DEF Fields
<1>2. IsRecord(n) /\ \A g \in Fields : n[g] = IF g = f THEN v ELSE m[g]
  BY <1>1, UpdateIsRecord DEF Ready, Placid, IsRecord
<1> HIDE DEF n
<1>3. /\ n.worker = m.worker /\ n.deferred = m.deferred
      /\ n.exit_after_reset = (IF f = "exit_after_reset" THEN v ELSE m.exit_after_reset)
      /\ n.reset_pending = (IF f = "reset_pending" THEN v ELSE m.reset_pending)
      /\ n.exited = m.exited /\ n.request = m.request /\ n.generation = m.generation
      /\ n.epoch = m.epoch /\ n.link = m.link /\ n.tasks = m.tasks /\ n.timers = m.timers
      /\ n.settle_requested = m.settle_requested /\ n.settle_pending = m.settle_pending
      /\ n.settle_repairing = m.settle_repairing
  BY <1>2 DEF Fields, QueueFields
<1>4. Ready(n, resets)
  BY <1>2, <1>3 DEF Ready, Placid
<1> QED
  BY <1>3, <1>4 DEF n

(* The helper goes, or stays for a newer connection, with nothing to wait for.      *)
LEMMA ExitOrdered ==
  ASSUME NEW m, NEW resets, Ready(m, resets), NEW v,
         v = 1 \/ (m.deferred # <<>> => Barrier(m))
  PROVE  LET k == [m EXCEPT !.exit_after_reset = FALSE]
         IN Ordered(ExitHelper(k, v), resets)
<1> DEFINE off == FALSE
           k == [m EXCEPT !["exit_after_reset"] = off]
           x == ExitHelper(k, v)
<1> HIDE DEF off
<1>0. Ready(m, resets)
  OBVIOUS
<1>1. /\ Ready(k, resets) /\ k.deferred = m.deferred /\ k.exited = m.exited /\ k.worker = m.worker
      /\ k.exit_after_reset = off /\ k.reset_pending = m.reset_pending
  <2>1. /\ Ready(k, resets) /\ k.deferred = m.deferred /\ k.exited = m.exited
        /\ k.worker = m.worker /\ k.reset_pending = m.reset_pending
    <3> HIDE DEF x
    <3>1. Ready(k, resets)
      BY <1>0, FlagReady
    <3>2. k.deferred = m.deferred /\ k.exited = m.exited
      BY <1>0, FlagReady
    <3>3. k.worker = m.worker /\ k.reset_pending = m.reset_pending
      BY <1>0, FlagReady
    <3> QED
      BY <3>1, <3>2, <3>3
  <2>2. k.exit_after_reset = off
    BY <1>0 DEF Ready, Placid, IsRecord, Fields
  <2> QED
    BY <2>1, <2>2
<1> HIDE DEF k
<1>2. Upholds(k, k)
  BY <1>1, SelfUpholds DEF Ready
<1>3. Upholds(k, x) /\ Ready(x, resets) /\ Latched(x)
  BY <1>1, <1>2, StagesUphold, ReadyUpholds DEF Upholds, Latched, off
<1>4. CASE v = 1
  <2>1. x = [CancelOperations(k) EXCEPT !.exited = TRUE, !.exit_code = 1]
    BY <1>4 DEF ExitHelper
  <2>2. IsRecord(CancelOperations(k))
    BY <1>2, BasicsUphold DEF Upholds, Placid
  <2>3. x.exited
    BY <2>1, <2>2 DEF IsRecord, Fields
  <2>4. Ordered(x, resets)
    BY <1>3, <2>3 DEF Barrier, Ordered, Ready
  <2> QED
    BY <2>4 DEF k, off
<1>5. CASE m.deferred # <<>> => Barrier(m)
  <2>1. Ordered(k, resets)
    BY <1>1, <1>5 DEF Ordered, Ready, Latched, Barrier, WorkerActive, off
  <2> QED
    BY <1>3, <2>1, UpholdsOrdered DEF k, off
<1> QED
  BY <1>4, <1>5

(* handle_reset_completed()                                                         *)
LEMMA HandleResetCompletedOrdered ==
  ASSUME NEW m, NEW resets \in 0..2, Ordered(m, resets), NEW c, NEW e
  PROVE  Ordered(HandleResetCompleted(m, c, e), resets)
<1> DEFINE ok == c.status = "Ok"
           shut == [m EXCEPT !["reset_pending"] = FALSE]
           opened == [shut EXCEPT !["staged_prepared"] = shut.staged_prepared /\ ~ok]
           followed == [opened EXCEPT !["exit_after_reset"] = opened.exit_after_reset /\ ~DefersIntent(m)]
           drained == Drain(followed, e)
<1>0. Ready(m, resets)
  BY DEF Ordered, Ready
<1>1. Ready(shut, resets) /\ shut.exit_after_reset = m.exit_after_reset
  BY <1>0, FlagReady DEF Fields, QueueFields
<1> HIDE DEF shut
<1>2. Ready(opened, resets) /\ opened.exit_after_reset = m.exit_after_reset
  <2> DEFINE s == shut.staged_prepared /\ ~ok
  <2> HIDE DEF s
  <2>1. Ready([shut EXCEPT !["staged_prepared"] = s], resets)
        /\ [shut EXCEPT !["staged_prepared"] = s].exit_after_reset = shut.exit_after_reset
    BY <1>1, FlagReady DEF Fields, QueueFields
  <2> QED
    BY <1>1, <2>1 DEF s
<1> HIDE DEF opened
<1>3. Ready(followed, resets)
  <2> DEFINE x == opened.exit_after_reset /\ ~DefersIntent(m)
  <2> HIDE DEF x
  <2>1. Ready([opened EXCEPT !["exit_after_reset"] = x], resets)
    BY <1>2, FlagReady DEF Fields, QueueFields
  <2> QED
    BY <2>1 DEF x
<1> HIDE DEF followed
<1>4. Ready(drained, resets) /\ (drained.deferred # <<>> => Barrier(drained))
  BY <1>3, DrainReady
<1> HIDE DEF drained
<1>5. /\ Ordered(ExitHelper([opened EXCEPT !.exit_after_reset = FALSE], 1), resets)
      /\ Ordered(ExitHelper([drained EXCEPT !.exit_after_reset = FALSE], 0), resets)
  BY <1>2, <1>4, ExitOrdered
<1>6. (drained.exit_after_reset /\ ~drained.reset_pending) \/ Ordered(drained, resets)
  BY <1>4 DEF Ordered, Ready, Latched
<1>7. IsRecord(m) /\ IsRecord(shut) /\ IsRecord(opened)
  BY <1>1, <1>2 DEF Ordered, Ready, Placid
<1>8. HandleResetCompleted(m, c, e) =
        IF m.exit_after_reset /\ ~ok THEN ExitHelper([opened EXCEPT !.exit_after_reset = FALSE], 1)
        ELSE IF drained.exit_after_reset /\ ~drained.reset_pending
        THEN ExitHelper([drained EXCEPT !.exit_after_reset = FALSE], 0)
        ELSE drained
  <2>1. [m EXCEPT !.reset_pending = FALSE, !.staged_prepared = @ /\ ~ok] = opened
    BY <1>7 DEF opened, shut
  <2>2. [opened EXCEPT !.exit_after_reset = @ /\ ~DefersIntent(m)] = followed
    BY DEF followed
  <2> QED
    BY <2>1, <2>2 DEF HandleResetCompleted, drained
<1> QED
  BY <1>5, <1>6, <1>8

(* handle_refresh_rate_completed()                                                  *)
LEMMA HandleRefreshRateCompletedOrdered ==
  ASSUME NEW m, NEW resets \in 0..2, Ordered(m, resets), NEW c, NEW e
  PROVE  Ordered(HandleRefreshRateCompleted(m, c, e), resets)
<1> DEFINE freed == ReleaseFence(m)
           rewound == RewindStabilization(CancelOperations(freed))
           rechecked == IF ~RefreshTargetsRequest(m, c.device) THEN freed
                        ELSE ScheduleNextCheck(rewound)
<1>1. Ready(freed, resets) /\ Latched(freed) /\ Upholds(freed, freed)
  BY ReleaseFenceReady
<1> HIDE DEF freed
<1>2. Upholds(freed, rewound)
  BY <1>1, BasicsUphold, LaddersUphold
<1> HIDE DEF rewound
<1>3. Upholds(freed, rechecked)
  BY <1>1, <1>2, StagesUphold
<1> HIDE DEF rechecked
<1>4. Ordered(Drain(freed, e), resets) /\ Ordered(Drain(rechecked, e), resets)
  BY <1>1, <1>3, DrainOrdered
<1>5. m.settle_requested = FALSE
  BY DEF Ordered, Placid
<1>6. HandleRefreshRateCompleted(m, c, e) =
        IF ~Owns(m, "RefreshRate", c.generation) THEN m
        ELSE IF IsStale(m, c.generation) THEN Drain(freed, e)
        ELSE Drain(rechecked, e)
  BY <1>5 DEF HandleRefreshRateCompleted, rechecked, rewound, freed
<1> QED
  BY <1>4, <1>6

(* An attempt that failed, or that was cancelled                                    *)
LEMMA RecoveryEndsOrdered ==
  ASSUME NEW m, NEW resets \in 0..2, Ordered(m, resets), NEW e
  PROVE  /\ Ordered(RetryRestore(m, e), resets)
         /\ Ordered(Drain(RetainAfterCancelledRecovery(ReleaseFence(m)), e), resets)
         /\ Ordered(Drain(ResetRequestProgress(ReleaseFence(m)), e), resets)
<1> DEFINE freed == ReleaseFence(m)
<1>1. Ready(freed, resets) /\ Latched(freed) /\ Upholds(freed, freed)
  BY ReleaseFenceReady
<1>2. RetryRestore(m, e) = Drain(Transition(freed, "EventLoop"), e)
  BY DEF RetryRestore
<1> HIDE DEF freed
<1>3. /\ Upholds(freed, Transition(freed, "EventLoop"))
      /\ Upholds(freed, RetainAfterCancelledRecovery(freed))
      /\ Upholds(freed, ResetRequestProgress(freed))
  BY <1>1, BasicsUphold, LeaseUpholds, LaddersUphold
<1>4. /\ Ordered(Drain(Transition(freed, "EventLoop"), e), resets)
      /\ Ordered(Drain(RetainAfterCancelledRecovery(freed), e), resets)
      /\ Ordered(Drain(ResetRequestProgress(freed), e), resets)
  BY <1>1, <1>3, DrainOrdered
<1> QED
  BY <1>2, <1>4 DEF freed

(* handle_recovery_completed()                                                      *)
LEMMA HandleRecoveryCompletedOrdered ==
  ASSUME NEW m, NEW resets \in 0..2, Ordered(m, resets), NEW c, NEW e
  PROVE  Ordered(HandleRecoveryCompleted(m, c, e), resets)
<1> DEFINE cleared == IF c.cleared = "none" THEN m.recovery_reset ELSE c.cleared
           reset == [m EXCEPT !.recovery_reset = cleared]
           checked == DispatchValidation(Transition(reset, "RecoveryValidation"))
<1>0. IsRecord(m) /\ Upholds(m, m)
  BY SelfUpholds DEF Ordered, Placid
<1>1. ASSUME Owns(m, "Recovery", c.generation) PROVE Ordered(checked, resets)
  <2> HIDE DEF cleared
  <2>1. Upholds(m, reset) /\ reset.worker = m.worker
    BY <1>0, UpdateUpholds DEF Fields, QueueFields, IsRecord
  <2>2. reset.worker.kind = "Recovery"
    BY <1>1, <2>1 DEF Owns
  <2> HIDE DEF reset
  <2> DEFINE t == Transition(reset, "RecoveryValidation")
  <2>3. Upholds(m, t)
    BY <2>1, BasicsUphold
  <2>4. t.worker.kind = "Recovery"
    BY <2>1, <2>2 DEF Transition, Upholds, Placid, IsRecord, Fields
  <2> HIDE DEF t
  <2>5. 0 \in Devices
    BY DeviceAssumption DEF Devices
  <2>6. Upholds(m, DispatchValidation(t))
    BY <2>3, <2>4, <2>5, DispatchUpholds
  <2> QED
    BY <2>6, UpholdsOrdered DEF t
<1>2. HandleRecoveryCompleted(m, c, e) =
        IF ~Owns(m, "Recovery", c.generation) THEN m
        ELSE IF IsStale(m, c.generation)
        THEN IF c.changed THEN Drain(RetainAfterCancelledRecovery(ReleaseFence(m)), e)
             ELSE Drain(ResetRequestProgress(ReleaseFence(m)), e)
        ELSE IF c.status = "Ok" THEN checked
        ELSE RetryRestore(m, e)
  BY DEF HandleRecoveryCompleted
<1> HIDE DEF checked
<1> QED
  BY <1>1, <1>2, RecoveryEndsOrdered

(* The session is home: what is not the queue's                                     *)
LEMMA HomeReady ==
  ASSUME NEW m, NEW resets \in 0..2, Ordered(m, resets)
  PROVE  LET failed == m.staged_prepared /\ m.recovery_reset = "failed"
             home == Transition(
                    [ResetRequestProgress(ReleaseFence(m)) EXCEPT
                        !.recovery_armed = FALSE, !.changes_pending = FALSE,
                        !.unconfirmed_mutation = FALSE, !.scheduler = "off",
                        !.os_task = FALSE, !.task_created = FALSE,
                        !.staged_prepared = failed, !.owed = FALSE], "Waiting")
         IN Ready(home, resets) /\ ~WorkerActive(home)
<1> DEFINE failed == m.staged_prepared /\ m.recovery_reset = "failed"
           freed == ReleaseFence(m)
           k0 == ResetRequestProgress(freed)
           k1 == [k0 EXCEPT !.recovery_armed = FALSE, !.changes_pending = FALSE,
                            !.unconfirmed_mutation = FALSE, !.scheduler = "off"]
           k2 == [k1 EXCEPT !.os_task = FALSE, !.task_created = FALSE,
                            !.staged_prepared = failed, !.owed = FALSE]
           home == Transition(k2, "Waiting")
<1>1. Ready(freed, resets) /\ Upholds(freed, freed) /\ freed.worker = NoWorker
  BY ReleaseFenceReady DEF WorkerActive
<1> HIDE DEF freed, failed
<1>2. Upholds(freed, k0) /\ k0.worker = NoWorker
  <2>1. Upholds(freed, k0)
    BY <1>1, LaddersUphold
  <2>2. IsRecord(freed)
    BY <1>1 DEF Upholds, Placid
  <2>3. k0.worker = freed.worker
    BY <2>2 DEF ResetRequestProgress, IsRecord, Fields
  <2> HIDE DEF k0
  <2> QED
    BY <1>1, <2>1, <2>3
<1> HIDE DEF k0
<1>3. Upholds(freed, k1) /\ k1.worker = NoWorker
  <2>1. Upholds(freed, k1)
    BY <1>2, UpdateUpholds DEF Fields, QueueFields
  <2>2. k1.worker = NoWorker
    BY <1>2 DEF Upholds, Placid, IsRecord, Fields
  <2> QED
    BY <2>1, <2>2
<1> HIDE DEF k1
<1>4. Upholds(freed, k2) /\ k2.worker = NoWorker
  <2>1. Upholds(freed, k2)
    BY <1>3, UpdateUpholds DEF Fields, QueueFields
  <2>2. k2.worker = NoWorker
    BY <1>3 DEF Upholds, Placid, IsRecord, Fields
  <2> QED
    BY <2>1, <2>2
<1> HIDE DEF k2
<1>5. Upholds(freed, home) /\ home.worker = NoWorker
  <2>1. Upholds(freed, home)
    BY <1>4, BasicsUphold
  <2>2. home.worker = NoWorker
    BY <1>4 DEF Transition, Upholds, Placid, IsRecord, Fields
  <2> QED
    BY <2>1, <2>2
<1> HIDE DEF home
<1>6. Ready(home, resets) /\ ~WorkerActive(home)
  BY <1>1, <1>5, ReadyUpholds DEF WorkerActive
<1> QED
  BY <1>6 DEF home, k2, k1, k0, freed, failed

(* A confirmed restore: the helper goes unless a RESET, or a newer command, is left. *)
LEMMA RestoreConfirmedOrdered ==
  ASSUME NEW m, NEW resets \in 0..2, Ordered(m, resets), NEW e
  PROVE  Ordered(RestoreConfirmed(m, e), resets)
<1> DEFINE failed == m.staged_prepared /\ m.recovery_reset = "failed"
           home == Transition(
                    [ResetRequestProgress(ReleaseFence(m)) EXCEPT
                        !.recovery_armed = FALSE, !.changes_pending = FALSE,
                        !.unconfirmed_mutation = FALSE, !.scheduler = "off",
                        !.os_task = FALSE, !.task_created = FALSE,
                        !.staged_prepared = failed, !.owed = FALSE], "Waiting")
           armed == [home EXCEPT !["exit_after_reset"] = TRUE]
           reset == IF failed THEN BeginStagedStateReset(armed) ELSE home
           waits == reset.reset_pending \/ DefersReset(reset)
           waiting == [reset EXCEPT !["exit_after_reset"] = waits]
           drained == Drain(waiting, e)
           stays == [drained EXCEPT !["exit_after_reset"] = FALSE]
<1>1. Ready(home, resets) /\ ~WorkerActive(home)
  BY HomeReady
<1>2. RestoreConfirmed(m, e) =
        IF DefersIntent(reset) /\ ~failed THEN stays
        ELSE IF drained.exit_after_reset THEN drained ELSE ExitHelper(drained, 0)
  BY DEF RestoreConfirmed
<1> HIDE DEF home, failed
<1>3. Ready(armed, resets)
  BY <1>1, FlagReady
<1>4. Ready(reset, resets) /\ (failed => reset.reset_pending) /\ (~failed => reset = home)
  <2> DEFINE staged == BeginStagedStateReset(armed)
  <2> HIDE DEF armed
  <2>1. Upholds(armed, armed) /\ 0 \in Devices
    BY <1>3, DeviceAssumption, SelfUpholds DEF Ready, Devices
  <2>2. Upholds(armed, staged)
    BY <2>1, DispatchUpholds
  <2>3. Ready(staged, resets)
    BY <1>3, <2>2, ReadyUpholds
  <2>4. staged.reset_pending
    BY <2>1 DEF BeginStagedStateReset, Enqueue, Upholds, Placid, IsRecord, Fields
  <2> QED
    BY <1>1, <2>3, <2>4
<1> HIDE DEF reset
<1>5. /\ Ready(waiting, resets) /\ waiting.deferred = reset.deferred
      /\ waiting.worker = reset.worker /\ waiting.reset_pending = reset.reset_pending
      /\ waiting.exit_after_reset = waits
  <2> DEFINE x == waits
  <2> HIDE DEF x
  <2>1. LET n == [reset EXCEPT !["exit_after_reset"] = x]
        IN /\ Ready(n, resets) /\ n.deferred = reset.deferred
           /\ n.worker = reset.worker /\ n.reset_pending = reset.reset_pending
    BY <1>4, FlagReady
  <2>2. [reset EXCEPT !["exit_after_reset"] = x].exit_after_reset = x
    BY <1>4 DEF Ready, Placid, IsRecord, Fields
  <2> QED
    BY <2>1, <2>2 DEF x
<1> HIDE DEF waiting
<1>6. /\ Ready(drained, resets) /\ Advances(waiting, drained)
      /\ drained.deferred # <<>> => Barrier(drained)
      /\ waiting.deferred # <<>> /\ ~WorkerActive(waiting) /\ Intents(waiting.deferred) = {}
           => drained.reset_pending
  BY <1>5, DrainReady
<1> HIDE DEF drained
<1>7. Ordered(stays, resets)
  <2> DEFINE off == FALSE
             n == [drained EXCEPT !["exit_after_reset"] = off]
  <2> HIDE DEF off
  <2>0. Ready(drained, resets)
    BY <1>6
  <2>1. /\ Ready(n, resets) /\ n.deferred = drained.deferred /\ n.exited = drained.exited
        /\ n.worker = drained.worker /\ n.reset_pending = drained.reset_pending
    BY <2>0, FlagReady
  <2>2. n.exit_after_reset = off
    BY <1>6 DEF Ready, Placid, IsRecord, Fields
  <2> HIDE DEF n
  <2>3. Ordered(n, resets)
    BY <1>6, <2>1, <2>2 DEF Ordered, Ready, Latched, Barrier, WorkerActive, off
  <2> QED
    BY <2>3 DEF n, off
<1>8. ASSUME ~(DefersIntent(reset) /\ ~failed), drained.exit_after_reset
      PROVE  Ordered(drained, resets)
  <2>1. waits
    BY <1>5, <1>6, <1>8 DEF Advances
  <2>2. drained.reset_pending
    <3>1. CASE reset.reset_pending
      BY <1>5, <1>6, <3>1 DEF Advances
    <3>2. CASE ~reset.reset_pending
      <4>1. ~failed /\ reset = home /\ ~DefersIntent(reset) /\ DefersReset(reset)
        BY <1>4, <1>8, <2>1, <3>2
      <4>2. reset.deferred \in Seq(Heard(reset.epoch))
        BY <1>4 DEF Ready, Placid
      <4>3. reset.deferred # <<>> /\ Intents(reset.deferred) = {}
        BY <4>1, <4>2 DEF DefersIntent, DefersReset, Intents
      <4>4. ~WorkerActive(waiting)
        BY <1>1, <1>5, <4>1 DEF WorkerActive
      <4> QED
        BY <1>5, <1>6, <4>3, <4>4
    <3> QED
      BY <3>1, <3>2
  <2> QED
    BY <1>6, <2>2 DEF Ordered, Ready, Latched
<1>9. ASSUME ~drained.exit_after_reset PROVE Ordered(ExitHelper(drained, 0), resets)
  <2>1. Ordered(drained, resets)
    BY <1>6, <1>9 DEF Ordered, Ready, Latched
  <2>2. Upholds(drained, ExitHelper(drained, 0))
    BY <1>6, SelfUpholds, StagesUphold DEF Ready
  <2> QED
    BY <2>1, <2>2, UpholdsOrdered
<1> QED
  BY <1>2, <1>7, <1>8, <1>9

(* handle_recovery_validation_completed(), and any completion                       *)
LEMMA HandleCompletionOrdered ==
  ASSUME NEW m, NEW resets \in 0..2, Ordered(m, resets), NEW c \in CalmEnds, NEW e
  PROVE  Ordered(HandleCompletion(m, c, e), resets)
<1>1. Ordered(HandleValidationCompleted(m, c, e), resets)
  BY RestoreConfirmedOrdered, RecoveryEndsOrdered DEF HandleValidationCompleted
<1>2. Ordered(HandleVerificationCompleted(m, c), resets)
  <2>1. Placid(m) /\ c.purpose # "TransientDisconnect"
    BY DEF Ordered, CalmEnds
  <2>2. Upholds(m, HandleVerificationCompleted(m, c))
    BY <2>1, HandleVerificationCompletedUpholds
  <2> QED
    BY <2>2, UpholdsOrdered
<1>3. /\ Ordered(HandleApplyCompleted(m, c, e), resets)
      /\ Ordered(HandleResetCompleted(m, c, e), resets)
      /\ Ordered(HandleRefreshRateCompleted(m, c, e), resets)
      /\ Ordered(HandleRecoveryCompleted(m, c, e), resets)
  BY HandleApplyCompletedOrdered, HandleResetCompletedOrdered,
     HandleRefreshRateCompletedOrdered, HandleRecoveryCompletedOrdered
<1>4. c.kind \in {"Apply", "Verification", "Reset", "RefreshRate", "Recovery", "Validation"}
  BY DEF CalmEnds, Completion, TaskKinds, WorkerKinds
<1> QED
  BY <1>1, <1>2, <1>3, <1>4 DEF HandleCompletion

--------------------------------------------------------------------------------
(* Display events, ticks, and the commands that are never deferred                  *)

(* A recreated virtual display takes the place of the one the request names.        *)
LEMMA RetargetUpholds ==
  ASSUME NEW m, NEW n, Upholds(m, n), NEW e, e.device \in Devices
  PROVE  Upholds(m, Retarget(n, e))
<1> DEFINE request == [n.request EXCEPT !.device = e.device]
<1>1. request \in Request
  BY DEF Upholds, Placid, Request
<1>2. Retarget(n, e) = IF n.request.virtual /\ n.request.configured /\ e.device # 0
                       THEN [n EXCEPT !.request = request] ELSE n
  BY DEF Retarget
<1> HIDE DEF request
<1>3. Upholds(m, [n EXCEPT !["request"] = request])
  BY <1>1, OwnUpholds
<1> QED
  BY <1>2, <1>3

(* The repair the helper queues for itself takes the place of the last intent.      *)
LEMMA RestartOrdered ==
  ASSUME NEW m, NEW resets \in Nat, Ordered(m, resets), WorkerActive(m), m.reply_epoch \in Nat,
         NEW e, e.device \in Devices
  PROVE  Ordered(RestartAfterMutation(m, e), resets)
<1> DEFINE r == Retarget(m, e)
           c == RestartCommand(r)
<1>1. IsRecord(m) /\ Upholds(m, m)
  BY SelfUpholds DEF Ordered, Placid
<1>2. Upholds(m, r)
  BY <1>1, RetargetUpholds
<1>3. r.reply_epoch \in Nat
  BY <1>1 DEF Retarget, IsRecord, Fields
<1>4. RestartAfterMutation(m, e) = Supersede(r, c)
  BY DEF RestartAfterMutation
<1> HIDE DEF r
<1>5. r.request \in Request
  BY <1>2 DEF Upholds, Placid
<1>6. c \in Heard(m.epoch) /\ ~IsReset(c)
  BY <1>3, <1>5 DEF RestartCommand, Command, Heard, IsReset
<1> HIDE DEF c
<1> QED
  BY <1>2, <1>4, <1>6, DeferOrdered

(* The display events                                                               *)
LEMMA HandleDisplayEventOrdered ==
  ASSUME NEW m, NEW resets \in Nat, Ordered(m, resets), m.reply_epoch \in Nat,
         NEW e, e.device \in Devices
  PROVE  Ordered(HandleDisplayEvent(m, e), resets)
<1> USE DEF Fields, QueueFields
<1>1. Upholds(m, m) /\ 0 \in Devices
  BY SelfUpholds, DeviceAssumption DEF Ordered, Devices
<1>2. WorkerActive(m) => Ordered(RestartAfterMutation(m, e), resets)
  BY RestartOrdered
<1> DEFINE k == Transition([RewindStabilization(Retarget(CancelOperations(m), e))
                              EXCEPT !.attempt = 1], "InProgress")
           k1 == [CancelOperations(m) EXCEPT !.attempt = 1]
           l == Transition(Retarget(RewindStabilization(k1), e), "InProgress")
           checked == [m EXCEPT !.check_pending = TRUE]
<1>3. Upholds(m, CancelOperations(m)) /\ Upholds(m, checked)
  BY <1>1, BasicsUphold, UpdateUpholds
<1>4. Upholds(m, k)
  <2> DEFINE n == RewindStabilization(Retarget(CancelOperations(m), e))
  <2>1. Upholds(m, n)
    BY <1>3, RetargetUpholds, LaddersUphold
  <2> HIDE DEF n
  <2>2. Upholds(m, [n EXCEPT !.attempt = 1])
    BY <2>1, UpdateUpholds
  <2>3. Upholds(m, Transition([n EXCEPT !.attempt = 1], "InProgress"))
    BY <2>2, BasicsUphold
  <2> QED
    BY <2>3 DEF n
<1>5. Upholds(m, k1)
  BY <1>3, UpdateUpholds
<1> HIDE DEF k1
<1>6. Upholds(m, l)
  BY <1>5, LaddersUphold, RetargetUpholds, BasicsUphold
<1>7. /\ Upholds(m, DispatchApply(k)) /\ Upholds(m, DispatchApply(l))
      /\ Upholds(m, DispatchVerification(checked, "Stabilization"))
  <2> HIDE DEF k, l, checked
  <2> QED
    BY <1>1, <1>3, <1>4, <1>6, DispatchUpholds
<1>8. Ordered(MonitoredEvent(m, e), resets)
  <2>1. MonitoredEvent(m, e) \in {m, DispatchVerification(checked, "Stabilization"), DispatchApply(k)}
        \/ (WorkerActive(m) /\ MonitoredEvent(m, e) = RestartAfterMutation(m, e))
    BY DEF MonitoredEvent
  <2> HIDE DEF k, checked
  <2> QED
    BY <1>2, <1>7, <2>1, UpholdsOrdered
<1>9. Ordered(ApplyingEvent(m, e), resets)
  <2>1. ApplyingEvent(m, e) \in {m, DispatchApply(l)}
        \/ (WorkerActive(m) /\ ApplyingEvent(m, e) = RestartAfterMutation(m, e))
    BY DEF ApplyingEvent, k1
  <2> HIDE DEF l
  <2> QED
    BY <1>2, <1>7, <2>1, UpholdsOrdered
<1>10. Ordered(StartRecovery([m EXCEPT !.scheduler = "open"]), resets)
  <2>1. Upholds(m, [m EXCEPT !.scheduler = "open"])
    BY <1>1, UpdateUpholds
  <2>2. Upholds(m, StartRecovery([m EXCEPT !.scheduler = "open"]))
    BY <2>1, StagesUphold
  <2> QED
    BY <2>2, UpholdsOrdered
<1> QED
  BY <1>8, <1>9, <1>10 DEF HandleDisplayEvent

(* A tick, a change of the refresh rate, a capture of the baseline                  *)
LEMMA OthersUphold ==
  ASSUME NEW m, Placid(m), NEW device \in Devices, NEW epoch, NEW e
  PROVE  /\ Upholds(m, TickAttempt(m)) /\ Upholds(m, TickExpire(m))
         /\ Upholds(m, HandleRefreshRateCommand(m, device, epoch))
         /\ Upholds(m, HandleCapture(m, epoch, e))
<1> USE DEF Fields, QueueFields
<1>1. Upholds(m, m)
  BY SelfUpholds
<1>2. Upholds(m, TickAttempt(m)) /\ Upholds(m, TickExpire(m))
  BY <1>1, StagesUphold, UpdateUpholds DEF TickAttempt, TickExpire
<1>3. Upholds(m, HandleRefreshRateCommand(m, device, epoch))
  <2>1. Upholds(m, RewindStabilization(CancelOperations(m)))
    BY <1>1, BasicsUphold, LaddersUphold
  <2>2. /\ Upholds(m, DispatchRefreshRate(m, device))
        /\ Upholds(m, DispatchRefreshRate(RewindStabilization(CancelOperations(m)), device))
    BY <1>1, <2>1, DispatchUpholds
  <2> QED
    BY <1>1, <2>2 DEF HandleRefreshRateCommand
<1>4. Upholds(m, HandleCapture(m, epoch, e))
  BY <1>1, UpdateUpholds DEF HandleCapture
<1> QED
  BY <1>2, <1>3, <1>4

--------------------------------------------------------------------------------
(* The invariant, as long as no connection has broken                               *)

FirstBreak ==
    /\ Ordered(h, MaxResets - left.reset)
    /\ mail \in Seq(CalmEnds)
    /\ running # Idle => running.task.purpose # "TransientDisconnect"
OrderKept ==
    /\ left.break <= MaxBreaks /\ left.reset <= MaxResets
    /\ left.break = MaxBreaks => FirstBreak

LEMMA ResetsLeft ==
  ASSUME TypeOK, OrderKept
  PROVE  MaxResets - left.reset \in 0..2 /\ MaxBreaks \in Nat /\ left.break \in Nat
<1>1. left.reset \in Nat /\ left.break \in Nat
  BY DEF TypeOK, Bounds
<1>2. MaxResets \in Nat /\ MaxBreaks \in Nat /\ MaxResets < 3
  BY BoundsAssumption DEF DrainBound
<1> QED
  BY <1>1, <1>2 DEF OrderKept

LEMMA FreshOrdered ==
  ASSUME NEW m, NEW resets \in Nat, IsRecord(m), m.request = NoRequest, m.generation = 0,
         m.epoch = 0, m.deferred = <<>>, m.tasks = <<>>, m.timers = <<>>,
         m.settle_requested = FALSE, m.settle_pending = FALSE, m.settle_repairing = FALSE,
         m.link \in {"down", "restore_mode"}, m.exit_after_reset = FALSE
  PROVE  Ordered(m, resets)
<1>1. Placid(m)
  BY NoRequestType DEF Placid
<1>2. Short(m.deferred, resets)
  BY DEF Short, Intents
<1> QED
  BY <1>1, <1>2 DEF Ordered, Latched

LEMMA InitKeepsOrder ==
  ASSUME Init
  PROVE  OrderKept
<1>1. IsRecord(h)
  BY DEF Init, FreshHelper, IsRecord, Fields
<1>2. left.break = MaxBreaks /\ left.reset = MaxResets /\ MaxBreaks \in Nat /\ MaxResets \in Nat
  BY BoundsAssumption DEF Init, Bounds
<1>3. Ordered(h, 0)
  BY <1>1, FreshOrdered DEF Init, FreshHelper
<1>4. mail = <<>> /\ running = Idle /\ MaxResets - left.reset = 0
  BY <1>2 DEF Init
<1> QED
  BY <1>2, <1>3, <1>4 DEF OrderKept, FirstBreak

(* A step of the loop or of a client that posts nothing                             *)
LEMMA QuietOrder ==
  ASSUME TypeOK, OrderKept, UNCHANGED <<running, mail>>, left'.break = left.break,
         left'.reset = left.reset,
         left.break = MaxBreaks => Ordered(h', MaxResets - left.reset)
  PROVE  OrderKept'
  BY DEF OrderKept, FirstBreak

(* The threads' steps: what is dispatched, run and posted is no settlement's.       *)
LEMMA WorkerKeepsOrder ==
  ASSUME TypeOK, OrderKept, WorkerThread
  PROVE  OrderKept'
<1> USE DEF Fields, QueueFields
<1>1. CASE left.break # MaxBreaks
  BY <1>1 DEF OrderKept, WorkerThread, TakeTask, ApplyStages, ApplyArms, ApplyMutates, ApplyLands,
     ApplyRollsBack, ApplyFails, RecoverySkipped, RecoveryEnters, RecoveryBegins, RecoveryRestores,
     RecoveryFails, ValidationEnds, VerificationEnds, RefreshRateEnds, ResetEnds, Post
<1>2. CASE left.break = MaxBreaks
  <2>0. FirstBreak /\ Upholds(h, h) /\ IsRecord(h)
    BY <1>2, SelfUpholds DEF OrderKept, FirstBreak, Ordered, Placid
  <2>1. ASSUME left' = left, Upholds(h, h'), mail' \in Seq(CalmEnds),
               running' # Idle => running'.task.purpose # "TransientDisconnect"
        PROVE  OrderKept'
    BY <2>0, <2>1, UpholdsOrdered DEF OrderKept, FirstBreak
  <2>2. ASSUME NEW status \in Statuses, NEW changed \in BOOLEAN,
               NEW cleared \in {"none", "ok", "failed"}, running # Idle, Post(status, changed, cleared)
        PROVE  /\ left' = left /\ mail' \in Seq(CalmEnds)
               /\ running' # Idle => running'.task.purpose # "TransientDisconnect"
    <3> DEFINE c == [kind |-> running.task.kind, generation |-> running.task.generation,
                     request |-> running.task.request, virtual |-> running.task.virtual,
                     device |-> running.task.device, purpose |-> running.task.purpose,
                     status |-> status, changed |-> changed, durable |-> running.durable,
                     staged |-> running.staged, cleared |-> cleared]
    <3>1. running.durable \in BOOLEAN /\ running.staged \in BOOLEAN /\ running.task \in Task
      BY <2>2 DEF TypeOK, Run
    <3>2. c \in CalmEnds
      BY <2>0, <2>2, <3>1 DEF FirstBreak, CalmEnds, Task, Completion
    <3>3. mail' = Append(mail, c) /\ running' = Idle /\ left' = left
      BY <2>2 DEF Post
    <3> HIDE DEF c
    <3> QED
      BY <2>0, <3>2, <3>3 DEF FirstBreak
  <2>3. \A f \in {"os_task", "owed", "restore_unconfirmed"} : \A v : Upholds(h, [h EXCEPT ![f] = v])
    BY <2>0, UpdateUpholds
  <2>4. running # Idle => running \in Run /\ running.changed \in BOOLEAN
    BY DEF TypeOK, Run
  <2>5. CASE TakeTask
    <3>1. h.tasks \in Seq(Calm) /\ h.tasks # <<>>
      BY <2>0, <2>5 DEF TakeTask, FirstBreak, Ordered, Placid
    <3>2. Head(h.tasks) \in Calm /\ Tail(h.tasks) \in Seq(Calm)
      BY <3>1, HeadTailProperties
    <3> DEFINE rest == Tail(h.tasks)
    <3>3. h' = [h EXCEPT !.tasks = rest] /\ left' = left /\ mail' = mail
      BY <2>5 DEF TakeTask
    <3> HIDE DEF rest
    <3>4. rest \in Seq(Calm)
      BY <3>2 DEF rest
    <3>5. Upholds(h, [h EXCEPT !["tasks"] = rest])
      BY <2>0, <3>4, OwnUpholds
    <3>6. running'.task = Head(h.tasks)
      BY <2>5 DEF TakeTask
    <3>7. running'.task.purpose # "TransientDisconnect"
      BY <3>2, <3>6 DEF Calm
    <3> QED
      BY <2>0, <2>1, <3>3, <3>5, <3>7 DEF FirstBreak
  <2>6. CASE ApplyStages \/ ApplyArms \/ ApplyMutates \/ RecoveryEnters \/ RecoveryBegins
    <3>1. running # Idle /\ mail' = mail /\ left' = left
      BY <2>6 DEF ApplyStages, ApplyArms, ApplyMutates, RecoveryEnters, RecoveryBegins, Working
    <3>2. running'.task = running.task
      BY <2>4, <2>6, <3>1 DEF ApplyStages, ApplyArms, ApplyMutates, RecoveryEnters, RecoveryBegins, Run
    <3>3. Upholds(h, h')
      <4>1. \A armed : Upholds(h, [h EXCEPT !.os_task = h.os_task \/ armed])
        <5> SUFFICES ASSUME NEW armed PROVE Upholds(h, [h EXCEPT !.os_task = h.os_task \/ armed])
          OBVIOUS
        <5> DEFINE v == h.os_task \/ armed
        <5> HIDE DEF v
        <5>1. Upholds(h, [h EXCEPT !["os_task"] = v])
          BY <2>3
        <5> QED
          BY <5>1 DEF v
      <4> QED
        BY <2>0, <2>3, <2>6, <4>1 DEF ApplyStages, ApplyArms, ApplyMutates, RecoveryEnters, RecoveryBegins
    <3> QED
      BY <2>0, <2>1, <3>1, <3>2, <3>3 DEF FirstBreak
  <2>7. CASE ApplyRollsBack
    <3>1. running # Idle /\ \E status \in Statuses : Post(status, FALSE, "none")
      BY <2>7 DEF ApplyRollsBack, Working, Statuses
    <3>2. h' = [h EXCEPT !.owed = running.owed]
      BY <2>7 DEF ApplyRollsBack
    <3>3. Upholds(h, h')
      BY <2>3, <3>2
    <3> QED
      BY <2>1, <2>2, <3>1, <3>3
  <2>8. CASE \/ ApplyLands \/ ApplyFails \/ RecoverySkipped \/ RecoveryRestores \/ RecoveryFails
             \/ ValidationEnds \/ VerificationEnds \/ RefreshRateEnds \/ ResetEnds
    <3>1. running # Idle /\ h' = h
      BY <2>8 DEF ApplyLands, ApplyFails, RecoverySkipped, RecoveryRestores, RecoveryFails,
         ValidationEnds, VerificationEnds, RefreshRateEnds, ResetEnds, Working
    <3>2. \E status \in Statuses, changed \in BOOLEAN, cleared \in {"none", "ok", "failed"} :
            Post(status, changed, cleared)
      BY <2>4, <2>8, <3>1 DEF ApplyLands, ApplyFails, RecoverySkipped, RecoveryRestores,
         RecoveryFails, ValidationEnds, VerificationEnds, RefreshRateEnds, ResetEnds, Statuses
    <3> QED
      BY <2>0, <2>1, <2>2, <3>1, <3>2
  <2> QED
    BY <2>5, <2>6, <2>7, <2>8 DEF WorkerThread
<1> QED
  BY <1>1, <1>2

(* The main loop handles a completion,                                              *)
LEMMA MailKeepsOrder ==
  ASSUME TypeOK, OrderKept, HandleMail
  PROVE  OrderKept'
<1>1. UNCHANGED <<running, left>> /\ mail # <<>> /\ mail' = Tail(mail)
  BY DEF HandleMail, TakeMail
<1>2. CASE left.break # MaxBreaks
  BY <1>1, <1>2 DEF OrderKept
<1>3. CASE left.break = MaxBreaks
  <2>1. FirstBreak
    BY <1>3 DEF OrderKept
  <2>2. Head(mail) \in CalmEnds /\ Tail(mail) \in Seq(CalmEnds)
    BY <1>1, <2>1, HeadTailProperties DEF FirstBreak
  <2>3. PICK e \in Surroundings : h' = HandleCompletion(h, Head(mail), e)
    BY DEF HandleMail
  <2>4. Ordered(h', MaxResets - left.reset)
    BY <2>1, <2>2, <2>3, ResetsLeft, HandleCompletionOrdered DEF FirstBreak
  <2> QED
    BY <1>1, <2>1, <2>2, <2>4 DEF OrderKept, FirstBreak
<1> QED
  BY <1>2, <1>3

(* a command of the client,                                                         *)
LEMMA ClientKeepsOrder ==
  ASSUME TypeOK, OrderKept, Client
  PROVE  OrderKept'
<1> DEFINE resets == MaxResets - left.reset
<1>1. UNCHANGED <<running, mail>> /\ left'.break = left.break
      /\ (left'.reset = left.reset \/ (ClientReset /\ left'.reset = left.reset - 1))
  <2>1. left \in [DOMAIN Bounds -> Nat]
    BY DEF TypeOK
  <2>2. \A what \in DOMAIN Bounds : Spend(what) =>
          \A x \in DOMAIN Bounds : left'[x] = IF x = what THEN left[x] - 1 ELSE left[x]
    BY <2>1 DEF Spend
  <2> QED
    BY <2>2 DEF Client, ClientApply, ClientRevert, ClientDisarm, ClientReset, ClientRefreshRate,
       ClientCapture, FromClient, Bounds
<1>2. resets \in 0..2 /\ left.reset \in Nat /\ MaxResets \in Nat /\ left.reset <= MaxResets
  BY ResetsLeft, BoundsAssumption DEF TypeOK, Bounds, OrderKept
<1>3. ASSUME left.break = MaxBreaks
      PROVE  Ordered(h', IF left'.reset = left.reset THEN resets ELSE resets + 1)
  <2>1. Ordered(h, resets) /\ h.epoch \in Nat /\ Placid(h) /\ resets \in Nat /\ Upholds(h, h)
    <3>1. Ordered(h, resets)
      BY <1>3 DEF OrderKept, FirstBreak
    <3>2. Placid(h)
      BY <3>1 DEF Ordered
    <3>3. h.epoch \in Nat /\ resets \in Nat
      BY <1>2, <3>2 DEF Placid
    <3> QED
      BY <3>1, <3>2, <3>3, SelfUpholds
  <2>2. ASSUME NEW type \in {"APPLY", "REVERT", "DISARM", "RESET"}, NEW request \in Request
        PROVE  /\ ClientCommand(type, request) \in Heard(h.epoch)
               /\ IsReset(ClientCommand(type, request)) <=> type = "RESET"
    <3>1. ClientCommand(type, request) \in Command
      BY ClientCommandType
    <3> QED
      BY <3>1 DEF Heard, ClientCommand, IsReset
  <2>3. ~ClientReset => left'.reset = left.reset
    BY <1>1
  <2>4. Ordered(h', resets) => Ordered(h', resets + 1)
    BY <2>1, ShortQueues DEF Ordered, Placid
  <2> HIDE DEF resets
  <2>5. CASE ClientApply
    <3>1. PICK request \in Request, e \in Env :
            h' = HandleApplyCommand(h, ClientCommand("APPLY", request), e)
      BY <2>5, ClientApplyType
    <3>2. Ordered(h', resets)
      BY <2>1, <2>2, <3>1, CommandOrdered
    <3> QED
      BY <2>4, <3>2
  <2>6. CASE ClientRevert
    <3> DEFINE epoch == h.epoch
               served == [h EXCEPT !.restore_origin = epoch]
               c == ClientCommand("REVERT", NoRequest)
    <3>1. h' = HandleRevertCommand(served, c) /\ c \in Heard(h.epoch) /\ ~IsReset(c)
      BY <2>2, <2>6, NoRequestType DEF ClientRevert
    <3> HIDE DEF epoch, c
    <3>2. Upholds(h, served)
      BY <2>1, UpdateUpholds DEF Fields, QueueFields
    <3>3. Ordered(served, resets) /\ served.epoch = h.epoch
      BY <2>1, <3>2, UpholdsOrdered DEF Upholds
    <3>4. Ordered(h', resets)
      BY <2>1, <3>1, <3>3, CommandOrdered
    <3> QED
      BY <2>4, <3>4
  <2>7. CASE ClientDisarm
    <3>1. Ordered(h', resets)
      BY <2>1, <2>2, <2>7, NoRequestType, CommandOrdered DEF ClientDisarm
    <3> QED
      BY <2>4, <3>1
  <2>8. CASE ClientReset
    <3>1. left'.reset # left.reset
      BY <1>2, <2>8 DEF ClientReset, Spend, TypeOK, Bounds
    <3>2. Ordered(h', resets + 1)
      BY <2>1, <2>2, <2>8, NoRequestType, CommandOrdered DEF ClientReset
    <3> QED
      BY <3>1, <3>2
  <2>9. CASE ClientRefreshRate
    <3>1. PICK device \in {0, vdd} : h' = HandleRefreshRateCommand(h, device, h.epoch)
      BY <2>9 DEF ClientRefreshRate
    <3>2. device \in Devices
      BY DeviceAssumption DEF TypeOK, Devices
    <3>3. Upholds(h, h')
      BY <2>1, <3>1, <3>2, OthersUphold
    <3> QED
      BY <2>1, <2>4, <3>3, UpholdsOrdered
  <2>10. CASE ClientCapture
    <3>1. PICK e \in Surroundings : h' = HandleCapture(h, h.epoch, e)
      BY <2>10 DEF ClientCapture
    <3>2. 0 \in Devices
      BY DeviceAssumption DEF Devices
    <3>3. Upholds(h, h')
      BY <2>1, <3>1, <3>2, OthersUphold
    <3> QED
      BY <2>1, <2>4, <3>3, UpholdsOrdered
  <2> QED
    BY <2>5, <2>6, <2>7, <2>8, <2>9, <2>10 DEF Client
<1>4. left'.reset <= MaxResets /\ MaxResets - left'.reset =
        IF left'.reset = left.reset THEN resets ELSE resets + 1
  BY <1>1, <1>2
<1> QED
  BY <1>1, <1>3, <1>4 DEF OrderKept, FirstBreak

(* a display event, or anything else.  A connection that breaks ends the claim.     *)
LEMMA NextKeepsOrder ==
  ASSUME TypeOK, OrderKept, [Next]_vars
  PROVE  OrderKept'
<1> DEFINE resets == MaxResets - left.reset
<1>1. resets \in 0..2 /\ resets \in Nat /\ MaxBreaks \in Nat /\ left.break \in Nat
      /\ left.reset \in Nat /\ left \in [DOMAIN Bounds -> Nat] /\ h.reply_epoch \in Nat
  <2>1. left.reset \in Nat /\ left \in [DOMAIN Bounds -> Nat]
    BY DEF TypeOK, Bounds
  <2>2. h.reply_epoch \in Nat
    BY TypedMemory DEF Typed
  <2>3. resets \in 0..2 /\ MaxBreaks \in Nat /\ left.break \in Nat
    BY ResetsLeft
  <2> QED
    BY <2>1, <2>2, <2>3
<1>2. \A what \in DOMAIN Bounds : Spend(what) =>
        \A x \in DOMAIN Bounds : left'[x] = IF x = what THEN left[x] - 1 ELSE left[x]
  BY <1>1 DEF Spend
<1>3. ASSUME left.break = MaxBreaks
      PROVE  Ordered(h, resets) /\ Placid(h) /\ Upholds(h, h) /\ FirstBreak
  BY <1>3, SelfUpholds DEF OrderKept, FirstBreak, Ordered
<1>4. CASE Connect
  <2>1. UNCHANGED <<running, mail, left>> /\ h.link = "down"
    BY <1>4 DEF Connect
  <2>2. ASSUME left.break = MaxBreaks PROVE Ordered(h', resets)
    <3>1. h.epoch = 0 /\ IsRecord(h) /\ Ordered(h, resets)
      BY <1>3, <2>1, <2>2 DEF Placid
    <3>2. h' = [h EXCEPT !.link = "up", !.epoch = h.epoch + 1]
      BY <1>4 DEF Connect
    <3>3. IsRecord(h') /\ \A g \in Fields : h'[g] = IF g = "link" THEN "up"
                                                    ELSE IF g = "epoch" THEN h.epoch + 1 ELSE h[g]
      <4>1. IsRecord([h EXCEPT !.link = "up"])
        BY <3>1, UpdateIsRecord DEF Fields
      <4>2. IsRecord(h')
        BY <3>2, <4>1, UpdateIsRecord DEF Fields
      <4> QED
        BY <3>1, <3>2, <4>2 DEF IsRecord
    <3>4. /\ h'.worker = h.worker /\ h'.deferred = h.deferred /\ h'.reset_pending = h.reset_pending
          /\ h'.exit_after_reset = h.exit_after_reset /\ h'.exited = h.exited
          /\ h'.request = h.request /\ h'.generation = h.generation /\ h'.epoch = h.epoch + 1
          /\ h'.link = "up" /\ h'.tasks = h.tasks /\ h'.timers = h.timers
          /\ h'.settle_requested = h.settle_requested /\ h'.settle_pending = h.settle_pending
          /\ h'.settle_repairing = h.settle_repairing
      BY <3>3 DEF Fields
    <3>5. h.deferred \in Seq(Heard(h'.epoch))
      <4>1. h.deferred \in Seq(Heard(0)) /\ Heard(0) \subseteq Heard(h'.epoch)
        BY <3>1 DEF Ordered, Placid, Heard
      <4> QED
        BY <4>1
    <3>6. Placid(h')
      BY <3>1, <3>3, <3>4, <3>5 DEF Ordered, Placid
    <3> QED
      BY <3>1, <3>4, <3>6 DEF Ordered, Latched, Barrier, WorkerActive
  <2> QED
    BY <2>1, <2>2, QuietOrder
<1>5. CASE Break
  <2>1. left'.break = left.break - 1 /\ left'.reset = left.reset
    BY <1>2, <1>5 DEF Break, Bounds
  <2> QED
    BY <1>1, <2>1 DEF OrderKept
<1>6. CASE NoticeDisconnect
  <2>1. UNCHANGED <<running, mail, left>> /\ h.link = "broken"
    BY <1>6 DEF NoticeDisconnect
  <2>2. left.break # MaxBreaks
    BY <1>3, <2>1 DEF Placid
  <2> QED
    BY <2>1, <2>2 DEF OrderKept
<1>7. CASE GraceEnds \/ Tick \/ TimerFires
  <2>1. UNCHANGED <<running, mail, left>>
    BY <1>7 DEF GraceEnds, TimerFires, Tick
  <2>2. ASSUME left.break = MaxBreaks PROVE Upholds(h, h')
    <3>1. CASE GraceEnds
      BY <1>3, <2>2, <3>1, UpdateUpholds DEF GraceEnds, Fields, QueueFields
    <3>2. CASE TimerFires
      <4> DEFINE rest == Tail(h.timers)
                 popped == [h EXCEPT !["timers"] = rest]
                 task == Head(h.timers)
      <4>1. h.timers \in Seq(Calm) /\ h.timers # <<>>
        BY <1>3, <2>2, <3>2 DEF TimerFires, Placid
      <4>2. task \in Calm /\ rest \in Seq(Calm)
        BY <4>1, HeadTailProperties
      <4>3. h' = popped \/ h' = Enqueue(popped, task)
        BY <3>2 DEF TimerFires
      <4> HIDE DEF rest, task
      <4>4. Upholds(h, popped)
        BY <1>3, <2>2, <4>2, OwnUpholds
      <4> HIDE DEF popped
      <4> QED
        BY <4>2, <4>3, <4>4, BasicsUphold
    <3>3. CASE Tick
      <4>1. 0 \in Devices
        BY DeviceAssumption DEF Devices
      <4> QED
        BY <1>3, <2>2, <3>3, <4>1, OthersUphold DEF Tick
    <3> QED
      BY <1>7, <3>1, <3>2, <3>3
  <2> QED
    BY <1>3, <2>1, <2>2, UpholdsOrdered, QuietOrder
<1>8. CASE DisplayChange
  <2>1. UNCHANGED <<running, mail>> /\ left'.break = left.break /\ left'.reset = left.reset
        /\ vdd' \in Devices
    BY <1>2, <1>8 DEF DisplayChange, Bounds, TypeOK
  <2>2. ASSUME left.break = MaxBreaks PROVE Ordered(h', resets)
    <3>1. PICK e \in [task: TaskOutcomes, capture: CaptureOutcomes, device: {vdd'}] :
            h' \in {h, HandleDisplayEvent(h, e)}
      BY <1>8 DEF DisplayChange
    <3>2. e.device \in Devices
      BY <2>1
    <3> QED
      BY <1>1, <1>3, <2>2, <3>1, <3>2, HandleDisplayEventOrdered
  <2> QED
    BY <2>1, <2>2, QuietOrder
<1>9. CASE Relaunch
  <2>1. left'.break = left.break /\ left'.reset = left.reset /\ mail' = <<>> /\ running' = Idle
    BY <1>2, <1>9 DEF Relaunch, Bounds
  <2> DEFINE fresh == NextProcess
             restoring == [fresh EXCEPT !.link = "restore_mode"]
             c == [DisconnectRevert EXCEPT !.from_disconnect = FALSE]
  <2>2. IsRecord(fresh) /\ IsRecord(restoring)
    <3>1. IsRecord(fresh)
      BY DEF NextProcess, FreshHelper, IsRecord, Fields
    <3> HIDE DEF fresh
    <3> QED
      BY <3>1, UpdateIsRecord DEF Fields
  <2>3. Ordered(fresh, resets)
    BY <1>1, <2>2, FreshOrdered DEF NextProcess, FreshHelper
  <2>4. Ordered(restoring, resets) /\ restoring.epoch = 0
    <3>1. /\ fresh.request = NoRequest /\ fresh.generation = 0 /\ fresh.epoch = 0
          /\ fresh.deferred = <<>> /\ fresh.tasks = <<>> /\ fresh.timers = <<>>
          /\ fresh.settle_requested = FALSE /\ fresh.settle_pending = FALSE
          /\ fresh.settle_repairing = FALSE /\ fresh.exit_after_reset = FALSE
      BY DEF NextProcess, FreshHelper
    <3> HIDE DEF fresh
    <3>2. /\ restoring.request = NoRequest /\ restoring.generation = 0 /\ restoring.epoch = 0
          /\ restoring.deferred = <<>> /\ restoring.tasks = <<>> /\ restoring.timers = <<>>
          /\ restoring.settle_requested = FALSE /\ restoring.settle_pending = FALSE
          /\ restoring.settle_repairing = FALSE /\ restoring.exit_after_reset = FALSE
          /\ restoring.link = "restore_mode"
      BY <2>2, <3>1 DEF IsRecord, Fields
    <3> HIDE DEF restoring
    <3> QED
      BY <1>1, <2>2, <3>2, FreshOrdered
  <2>5. c \in Heard(0) /\ ~IsReset(c)
    BY DisconnectRevertType DEF Heard, IsReset, DisconnectRevert
  <2>6. h' = fresh \/ h' = HandleRevertCommand(restoring, c)
    BY <1>9, RelaunchCases
  <2> HIDE DEF fresh, restoring, c
  <2>7. Ordered(h', resets)
    BY <1>1, <2>3, <2>4, <2>5, <2>6, CommandOrdered
  <2> QED
    BY <2>1, <2>7 DEF OrderKept, FirstBreak
<1>10. CASE UNCHANGED vars
  BY <1>10 DEF vars, OrderKept, FirstBreak
<1> QED
  BY <1>4, <1>5, <1>6, <1>7, <1>8, <1>9, <1>10, ClientKeepsOrder, MailKeepsOrder, WorkerKeepsOrder
     DEF Next, Connection

--------------------------------------------------------------------------------
(* What follows                                                                     *)

(* As long as no connection has broken, a command in the deferred queue waits for a *)
(* mutation worker or for a reset, whose end drains the queue.  Settlements of a    *)
(* broken connection end without draining it.                                       *)
THEOREM DeferredWaits == Spec => [](left.break = MaxBreaks => DeferredHasBarrier)
<1>1. OrderKept => (left.break = MaxBreaks => DeferredHasBarrier)
  BY DEF OrderKept, FirstBreak, Ordered, Barrier, WorkerActive, DeferredHasBarrier
<1>2. Init => OrderKept
  BY InitKeepsOrder
<1>3. TypeOK /\ OrderKept /\ [Next]_vars => OrderKept'
  BY NextKeepsOrder
<1> QED
  BY <1>1, <1>2, <1>3, TypeCorrect, PTL DEF Spec

(* As long as no connection has broken, a helper that stays for the completion of a *)
(* RESET has one under way.  A deferred RESET of a broken connection is dropped,    *)
(* and nothing clears the latch then.                                               *)
THEOREM ExitHasReset == Spec => [](left.break = MaxBreaks => ExitWaitsForReset)
<1>1. OrderKept => (left.break = MaxBreaks => ExitWaitsForReset)
  BY DEF OrderKept, FirstBreak, Ordered, Latched, ExitWaitsForReset
<1>2. Init => OrderKept
  BY InitKeepsOrder
<1>3. TypeOK /\ OrderKept /\ [Next]_vars => OrderKept'
  BY NextKeepsOrder
<1> QED
  BY <1>1, <1>2, <1>3, TypeCorrect, PTL DEF Spec

================================================================================
