---------------------------- MODULE DisplayHelperTypes ----------------------------
(* The vocabulary of the display helper (display_helper_v2): what an APPLY      *)
(* request carries, what travels to and from the asynchronous dispatcher, and   *)
(* the memory of the single-threaded StateMachine object.                       *)
EXTENDS Integers, Sequences

CONSTANTS
    MaxApplyAttempts,   \* ApplyPolicy::kMaxApplyAttempts: runs of one APPLY before it fails
    MaxApplies,         \* bound: APPLY commands sent by clients
    RequestShapes,      \* the kinds of APPLY request a client sends, see RequestShape
    MaxDevice           \* how many device ids the virtual display driver hands out

(* Stages of the post-APPLY settling ladders; HDR requests get the longer one.  *)
RequestShape == [virtual: BOOLEAN, hdr: {"unset", "on", "off"},
                 restore_on_disconnect: BOOLEAN, omit_final_hdr: BOOLEAN]

ASSUME AttemptsAssumption == MaxApplyAttempts \in Nat \ {0}
ASSUME AppliesAssumption == MaxApplies \in Nat
ASSUME ShapesAssumption == RequestShapes \subseteq RequestShape
ASSUME DeviceAssumption == MaxDevice \in Nat \ {0}

States == {"Waiting", "InProgress", "Verification", "Recovery",
           "RecoveryValidation", "EventLoop", "VirtualDisplayMonitoring"}
(* restore_pending(): a restore is being attempted, confirmed or retried.       *)
RestoreStates == {"Recovery", "RecoveryValidation", "EventLoop"}
(* recovery_worker_in_progress(): ... and a worker is meant to be on it.        *)
RecoveryWorkerStates == {"Recovery", "RecoveryValidation"}

(* Device ids: 0 is the physical desktop's display in a request and "none" in   *)
(* the answer of the virtual display driver; 1..MaxDevice are virtual displays. *)
Devices == 0..MaxDevice

(* Clients number their APPLY requests; 0 is no request.                        *)
RequestIds == 1..MaxApplies

(* ApplyRequest.  `configured` is configuration.has_value(): every request that *)
(* arrives over the pipe has a configuration, the initial current_request_ has  *)
(* none.  `id` is the client's request_id.                                      *)
Request == [id: RequestIds \cup {0}, configured: BOOLEAN, device: Devices, virtual: BOOLEAN,
            hdr: {"unset", "on", "off"}, restore_on_disconnect: BOOLEAN,
            omit_final_hdr: BOOLEAN]
NoRequest == [id |-> 0, configured |-> FALSE, device |-> 0, virtual |-> FALSE,
              hdr |-> "unset", restore_on_disconnect |-> TRUE,
              omit_final_hdr |-> FALSE]

(* ApplyStatus, up to what handle_apply_completed tells apart: "Retryable" also *)
(* stands for VerificationFailed, "Fatal" for InvalidRequest and                *)
(* HelperUnavailable.  NeedsVirtualDisplayReset is left out: no backend of the  *)
(* repository returns it.  Other completions use "Ok" and "Fatal" for true and  *)
(* false.                                                                       *)
Statuses == {"Ok", "Retryable", "Fatal"}

WorkerKinds == {"Apply", "RefreshRate", "Recovery"}
(* Tasks of the dispatcher.  A "Validation" runs under the Recovery fence, a    *)
(* "Verification" is read-only, a "Reset" clears the staged backend state.      *)
TaskKinds == WorkerKinds \cup {"Validation", "Verification", "Reset"}
MutationKinds == WorkerKinds \cup {"Validation"}
Purposes == {"Initial", "Stabilization", "TransientDisconnect"}

(* A task closure: the token's generation, and what the closure captured.       *)
Task == [kind: TaskKinds, generation: Nat, request: RequestIds \cup {0}, virtual: BOOLEAN,
         device: Devices, purpose: Purposes]

(* A completion message: the *Completed structs of types.h as one record.       *)
Completion == [kind: TaskKinds, generation: Nat, request: RequestIds \cup {0}, virtual: BOOLEAN,
               device: Devices, purpose: Purposes, status: Statuses,
               changed: BOOLEAN, durable: BOOLEAN, staged: BOOLEAN,
               cleared: {"none", "ok", "failed"}]

(* Client commands and the helper's own REVERT on disconnect; `epoch` is the    *)
(* connection that sent it, 0 for the helper itself.                            *)
Command == [type: {"APPLY", "REVERT", "DISARM", "RESET"}, epoch: Nat,
            request: Request, from_disconnect: BOOLEAN]

NoWorker == [kind |-> "none", generation |-> 0]
Worker == [kind: WorkerKinds \cup {"none"}, generation: Nat]

(* The memory the StateMachine's handlers read and write: its members, the      *)
(* RestoreState, RestoreScheduler and CancellationSource it drives, the tails of *)
(* the dispatcher's queues, and the scheduled restore task.                      *)
Helper == [
    state: States,
    worker: Worker,                       \* active_mutation_worker_
    deferred: Seq(Command),               \* deferred_mutation_commands_
    reset_pending: BOOLEAN,               \* staged_state_reset_pending_
    exit_after_reset: BOOLEAN,            \* exit_after_staged_state_reset_
    recovery_armed: BOOLEAN,
    changes_pending: BOOLEAN,             \* display_changes_pending_recovery_
    explicit_recovery: BOOLEAN,           \* explicit_recovery_required_
    task_created: BOOLEAN,                \* restore_task_created_
    lease_before_apply: BOOLEAN,          \* recovery_lease_before_apply_
    unconfirmed_mutation: BOOLEAN,        \* unconfirmed_cancelled_mutation_
    staged_prepared: BOOLEAN,             \* staged_state_prepared_
    recovery_reset: {"none", "ok", "failed"}, \* recovery_staged_state_reset_succeeded_
    apply_sent: BOOLEAN,
    verification_sent: BOOLEAN,
    verified: BOOLEAN,                    \* session_was_verified_
    attempt: Nat,
    hdr_fallback: BOOLEAN,                \* virtual_hdr_fallback_attempted_
    request: Request,                     \* current_request_
    reply_epoch: Nat,                     \* current_connection_epoch_
    check_pending: BOOLEAN,               \* post_apply_check_pending_
    checks: 0..3,                         \* size of post_apply_stabilization_delays_
    next_check: Nat,
    reapplies: 0..4,                      \* size of verification_reapply_delays_
    next_reapply: Nat,
    settle_requested: BOOLEAN,            \* transient_disconnect_settlement_requested_
    settle_pending: BOOLEAN,              \* transient_disconnect_check_pending_
    settle_repairing: BOOLEAN,            \* transient_disconnect_repair_in_flight_
    next_settle: 0..2,
    last_apply: {"none", "recent", "old"},\* last_apply_started_, against the 5 s grace
    scheduler: {"off", "open", "expired"},\* RestoreScheduler: armed, and its window
    restore_unconfirmed: BOOLEAN,         \* restore_attempted_unconfirmed
    restore_on_disconnect: BOOLEAN,
    generation: Nat,                      \* CancellationSource
    epoch: Nat,                           \* connection_epoch
    link: {"down", "up", "broken", "restore_mode"},
    restore_origin: Int,                  \* restore_origin_epoch, 0 for none
    exited: BOOLEAN,
    exit_code: {0, 1},
    tasks: Seq(Task),                     \* AsyncDispatcher::tasks_
    timers: Seq(Task),                    \* AsyncDispatcher::timer_tasks_
    snapshot: BOOLEAN,                    \* some snapshot tier exists on disk
    os_task: BOOLEAN,                     \* the scheduled restore task exists
    owed: BOOLEAN,      \* history: an APPLY changed the desktop, and neither a confirmed
                        \* restore nor a release by the client has undone that duty
    verdict: [RequestIds -> {"none", "ok", "failed"}] \* history: last VerificationResult
]

================================================================================
