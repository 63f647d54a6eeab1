--------------------------- MODULE DisplayHelperProperties ---------------------------
(* What must hold of the display helper.                                            *)
EXTENDS DisplayHelper

(* Every variable has its type; the helper's memory is a Helper record.            *)
TypeOK ==
    /\ h \in Helper
    /\ running \in Run \cup {Idle}
    /\ mail \in Seq(Completion)
    /\ desk \in 0..Mixed
    /\ vdd \in Devices
    /\ left \in [DOMAIN Bounds -> Nat] /\ left.apply <= MaxApplies

--------------------------------------------------------------------------------
(* The mutation fence                                                              *)

InFlight ==
    {<<"queued", i, h.tasks[i].kind, h.tasks[i].generation>> : i \in DOMAIN h.tasks}
    \cup (IF running = Idle THEN {}
          ELSE {<<"running", 0, running.task.kind, running.task.generation>>})
    \cup {<<"posted", i, mail[i].kind, mail[i].generation>> : i \in DOMAIN mail}
Mutations == {t \in InFlight : t[3] \in MutationKinds}
FenceKind(kind) == IF kind = "Validation" THEN "Recovery" ELSE kind

(* At most one task that may touch the desktop is queued, running or waiting to    *)
(* be handled, and active_mutation_worker_ names exactly that one: a command that  *)
(* supersedes it waits behind the fence, and no completion opens another's fence.  *)
MutationFence ==
    IF h.worker = NoWorker THEN Mutations = {}
    ELSE \E t \in Mutations :
             /\ Mutations = {t}
             /\ h.worker = [kind |-> FenceKind(t[3]), generation |-> t[4]]

(* Whenever an APPLY has changed the desktop and the duty to restore it stands,    *)
(* the scheduled restore task exists, so that a crash of the helper cannot leave   *)
(* the user on the stream's layout.                                                *)
DurableGuard == h.owed => h.os_task

(* Once no APPLY is in flight, a changed desktop is covered by the recovery lease:  *)
(* cancellations, rollbacks and superseded completions do not lose it.             *)
LeaseHeld == h.owed /\ h.worker.kind # "Apply" => h.recovery_armed /\ h.changes_pending

(* The helper exits only with the desktop restored or released, no APPLY and no    *)
(* restore at work; and unless it gives up because the staged backend state cannot be cleared *)
(* (exit code 1), it leaves no APPLY, REVERT or DISARM of the live client unread.  *)
LiveIntents == {i \in DOMAIN h.deferred :
                   ~IsReset(h.deferred[i]) /\ ~IsStaleConnection(h, h.deferred[i].epoch)}
ExitLeavesNothing ==
    h.exited => /\ ~h.owed
                /\ h.worker.kind \notin {"Apply", "Recovery"}
                /\ h.exit_code = 1 \/ LiveIntents = {}

(* A session gate opens (VerificationResult true) only while the desktop shows     *)
(* what that very request asked for.                                               *)
GateShowsRequest ==
    [][\A id \in RequestIds : h.verdict[id] # "ok" /\ h'.verdict[id] = "ok" => desk = id]_vars

(* A session once confirmed to its client is not retracted by a later failure.     *)
ConfirmedStays ==
    [][\A id \in RequestIds : h.verdict[id] = "ok" => h'.verdict[id] = "ok"]_vars

(* An APPLY begins only while the connection that sent it is alive: a command that *)
(* waited behind the fence dies with its connection.                               *)
OnlyLiveClientApplies ==
    [][h'.request.id \notin {h.request.id, 0} => h.link = "up"]_vars

(* A helper kept alive for the completion of a RESET has one to wait for.          *)
ExitWaitsForReset == h.exit_after_reset => h.reset_pending \/ DefersReset(h)

(* A client's REVERT stands until a client's APPLY or DISARM withdraws it: neither   *)
(* the disconnect policy nor a display event coalesces it away.  While it stands,   *)
(* the duty to restore ends only with the desktop restored, with the rollback of    *)
(* the APPLY that caused it, or for want of a snapshot.                             *)
ExplicitRestorePursued ==
    [][h.explicit_recovery /\ h.snapshot /\ left'.crash = left.crash
          => /\ h'.explicit_recovery \/ left'.apply # left.apply \/ left'.disarm # left.disarm
             /\ h'.explicit_recovery /\ h.owed /\ ~h'.owed => desk = Home \/ ApplyRollsBack]_vars

(* A restore in progress keeps its lease, and between two attempts the scheduler   *)
(* stays armed: no path leaves the event loop without a next attempt.              *)
RetryAlive ==
    /\ RestorePending(h) => h.recovery_armed
    /\ h.state = "EventLoop" => h.scheduler # "off"

(* A session being applied or verified has somebody to finish it: the worker or    *)
(* the check it waits for, or a command that replaces it.                          *)
Checks == {t \in InFlight : t[3] = "Verification" /\ t[4] = h.generation}
TimedChecks == {i \in DOMAIN h.timers : h.timers[i].generation = h.generation}
SessionHasOwner ==
    h.state \in {"InProgress", "Verification"} /\ h.link # "broken"
        => h.worker # NoWorker \/ Checks # {} \/ TimedChecks # {} \/ h.reset_pending

(* A restore has somebody to finish it: the recovery worker.                       *)
RestoreHasOwner == RecoveryWorkerInProgress(h) => h.worker.kind = "Recovery" \/ h.reset_pending

(* A command in the deferred queue waits for something: a worker or a reset.       *)
DeferredHasBarrier == h.deferred # <<>> => h.worker # NoWorker \/ h.reset_pending \/ h.exited

(* Every mutation fence is lifted again, whatever supersedes it.                   *)
FenceLifted == []<>(h.worker = NoWorker \/ h.exited)
(* An APPLY in progress, first run or repair, does not stay so for ever.           *)
ApplyConcludes == (h.state = "InProgress") ~> (h.state # "InProgress" \/ h.exited)

(* The client of an accepted APPLY learns whether its display is up, unless another *)
(* APPLY or a restore took the session over first.                                 *)
ApplyAnswered ==
    \A id \in RequestIds :
        (h.state = "InProgress" /\ h.request.id = id)
            ~> (h.verdict[id] # "none" \/ h.request.id # id \/ RestorePending(h) \/ h.exited)

================================================================================
