------------------------------- MODULE DisplayHelper -------------------------------
(* The display helper process: the main loop that feeds the StateMachine, the     *)
(* dispatcher's worker and timer threads that act on the Windows desktop, and the  *)
(* client, the connection, the display driver and crashes around them.             *)
(*                                                                                 *)
(* A client command is handled in the step that sends it: the pipe thread only     *)
(* tags it, nothing reads the mailbox in between, and one that outlives its        *)
(* connection is dropped unread.  Completions do wait in `mail`.                   *)
EXTENDS DisplayStateMachine

CONSTANTS
    MaxReverts, MaxDisarms, MaxResets, MaxRefreshes, MaxCaptures, \* bounds: client commands
    MaxBreaks,        \* bound: connections that break
    MaxEvents,        \* bound: display events while a session is up
    MaxCrashes,       \* bound: crashes or relaunches of the helper
    TaskOutcomes,     \* answers of create_restore_task()
    CaptureOutcomes   \* answers of a baseline capture

ASSUME BoundsAssumption ==
    /\ {MaxReverts, MaxDisarms, MaxResets, MaxRefreshes, MaxCaptures,
        MaxBreaks, MaxEvents, MaxCrashes} \subseteq Nat
    /\ MaxResets < DrainBound   \* so that DrainBound rounds empty the deferred queue
ASSUME OutcomesAssumption == TaskOutcomes \subseteq BOOLEAN /\ CaptureOutcomes \subseteq BOOLEAN

VARIABLES
    h,        \* the helper's memory, see DisplayHelperTypes!Helper
    running,  \* the task the dispatcher's worker thread is executing
    mail,     \* completions posted and not yet handled
    desk,     \* what Windows shows: Home, a request's settings, or Mixed
    vdd,      \* the virtual display driver's current device id, 0 for none
    left      \* how many more times the environment may do each thing
vars == <<h, running, mail, desk, vdd, left>>

Home == 0
Mixed == MaxApplies + 1

Phases == {"new", "staged", "armed", "mutated", "entered", "trying"}
Idle == [phase |-> "idle"]
Run == [phase: Phases, task: Task, changed: BOOLEAN, durable: BOOLEAN, staged: BOOLEAN,
        desk: 0..Mixed, owed: BOOLEAN]
Bounds == [apply |-> MaxApplies, revert |-> MaxReverts, disarm |-> MaxDisarms,
           reset |-> MaxResets, refresh |-> MaxRefreshes, capture |-> MaxCaptures,
           break |-> MaxBreaks, event |-> MaxEvents, crash |-> MaxCrashes]

(* A StateMachine as its constructor and members' initialisers leave it; what   *)
(* the disk and Windows keep across processes comes from the arguments.         *)
FreshHelper(snapshot, osTask, owed, verdict) ==
    [state |-> "Waiting", worker |-> NoWorker, deferred |-> <<>>,
     reset_pending |-> FALSE, exit_after_reset |-> FALSE,
     recovery_armed |-> FALSE, changes_pending |-> FALSE, explicit_recovery |-> FALSE,
     task_created |-> FALSE, lease_before_apply |-> FALSE, unconfirmed_mutation |-> FALSE,
     staged_prepared |-> FALSE, recovery_reset |-> "none",
     apply_sent |-> FALSE, verification_sent |-> FALSE, verified |-> FALSE,
     attempt |-> 0, hdr_fallback |-> FALSE, request |-> NoRequest, reply_epoch |-> 0,
     check_pending |-> FALSE, checks |-> 0, next_check |-> 0,
     reapplies |-> 0, next_reapply |-> 0,
     settle_requested |-> FALSE, settle_pending |-> FALSE, settle_repairing |-> FALSE,
     next_settle |-> 0, last_apply |-> "none", scheduler |-> "off",
     restore_unconfirmed |-> FALSE, restore_on_disconnect |-> TRUE,
     generation |-> 0, epoch |-> 0, link |-> "down", restore_origin |-> 0,
     exited |-> FALSE, exit_code |-> 0, tasks |-> <<>>, timers |-> <<>>,
     snapshot |-> snapshot, os_task |-> osTask, owed |-> owed,
     verdict |-> verdict]

Init ==
    /\ h = FreshHelper(FALSE, FALSE, FALSE, [id \in RequestIds |-> "none"])
    /\ running = Idle
    /\ mail = <<>>
    /\ desk = Home
    /\ vdd = 1
    /\ left = Bounds

(* What the surroundings may answer during one handler.                         *)
Surroundings == [task: TaskOutcomes, capture: CaptureOutcomes, device: {vdd}]

Spend(what) == left[what] > 0 /\ left' = [left EXCEPT ![what] = @ - 1]

--------------------------------------------------------------------------------
(* The client, over the live connection                                         *)

FromClient == ~h.exited /\ h.link = "up" /\ UNCHANGED <<running, mail, desk, vdd>>
ClientCommand(type, request) ==
    [type |-> type, epoch |-> h.epoch, request |-> request, from_disconnect |-> FALSE]

ClientApply ==
    /\ FromClient
    /\ Spend("apply")
    /\ \E shape \in RequestShapes, e \in Surroundings :
         LET request == [id |-> MaxApplies - left.apply + 1, configured |-> TRUE,
                         device |-> IF shape.virtual THEN vdd ELSE 0,
                         virtual |-> shape.virtual, hdr |-> shape.hdr,
                         restore_on_disconnect |-> shape.restore_on_disconnect,
                         omit_final_hdr |-> shape.omit_final_hdr]
         IN h' = HandleApplyCommand(h, ClientCommand("APPLY", request), e)

ClientRevert ==
    /\ FromClient
    /\ Spend("revert")
    /\ h' = HandleRevertCommand([h EXCEPT !.restore_origin = h.epoch],
                                ClientCommand("REVERT", NoRequest))

ClientDisarm ==
    /\ FromClient
    /\ Spend("disarm")
    /\ h' = HandleDisarmCommand(h, ClientCommand("DISARM", NoRequest))

ClientReset ==
    /\ FromClient
    /\ Spend("reset")
    /\ h' = HandleResetCommand(h, ClientCommand("RESET", NoRequest))

ClientRefreshRate ==
    /\ FromClient
    /\ Spend("refresh")
    /\ \E device \in {0, vdd} : h' = HandleRefreshRateCommand(h, device, h.epoch)

ClientCapture ==
    /\ FromClient
    /\ Spend("capture")
    /\ \E e \in Surroundings : h' = HandleCapture(h, h.epoch, e)

--------------------------------------------------------------------------------
(* The connection                                                               *)

Connect ==
    /\ ~h.exited /\ h.link = "down"
    /\ h' = [h EXCEPT !.link = "up", !.epoch = @ + 1]
    /\ UNCHANGED <<running, mail, desk, vdd, left>>

(* The pipe breaks, or a missed heartbeat retires it: the epoch ends at once,   *)
(* the main loop notices in a later iteration.                                  *)
Break ==
    /\ ~h.exited /\ h.link = "up"
    /\ Spend("break")
    /\ h' = [h EXCEPT !.link = "broken", !.epoch = @ + 1]
    /\ UNCHANGED <<running, mail, desk, vdd>>

NoticeDisconnect ==
    /\ ~h.exited /\ h.link = "broken"
    /\ h' = HandleDisconnect(h, h.epoch - 1)
    /\ UNCHANGED <<running, mail, desk, vdd, left>>

(* The 5 s grace that follows an APPLY ends.                                    *)
GraceEnds ==
    /\ ~h.exited /\ h.last_apply = "recent"
    /\ h' = [h EXCEPT !.last_apply = "old"]
    /\ UNCHANGED <<running, mail, desk, vdd, left>>

--------------------------------------------------------------------------------
(* The main loop: completions, display events, ticks                            *)

TakeMail ==
    /\ ~h.exited /\ mail # <<>>
    /\ mail' = Tail(mail)
HandleMail ==
    /\ TakeMail
    /\ \E e \in Surroundings : h' = HandleCompletion(h, Head(mail), e)
    /\ UNCHANGED <<running, desk, vdd, left>>

(* Windows reports a display change; a session's virtual display may have been   *)
(* recreated under another id, or be gone.  A report that is coalesced with an   *)
(* earlier one, or carries an older generation, changes nothing.                *)
DisplayChange ==
    /\ ~h.exited
    /\ \/ h.state = "EventLoop" /\ vdd' = vdd /\ UNCHANGED left
       \/ h.request.virtual /\ h.state # "EventLoop" /\ Spend("event") /\ vdd' \in Devices
    /\ \E e \in [task: TaskOutcomes, capture: CaptureOutcomes, device: {vdd'}] :
         h' \in {h, HandleDisplayEvent(h, e)}
    /\ UNCHANGED <<running, mail, desk>>

Tick ==
    /\ ~h.exited /\ RetryDue(h)
    /\ h' \in {TickAttempt(h), TickExpire(h)}
    /\ UNCHANGED <<running, mail, desk, vdd, left>>

--------------------------------------------------------------------------------
(* The dispatcher's threads                                                     *)

(* The timer thread: the delay at the head of its queue ends.  A cancelled      *)
(* verification is dropped without a completion.                                *)
TimerFires ==
    /\ ~h.exited /\ h.timers # <<>>
    /\ LET task == Head(h.timers)
           popped == [h EXCEPT !.timers = Tail(@)]
       IN h' = IF IsStale(h, task.generation) THEN popped ELSE Enqueue(popped, task)
    /\ UNCHANGED <<running, mail, desk, vdd, left>>

TakeTask ==
    /\ ~h.exited /\ running = Idle /\ h.tasks # <<>>
    /\ running' = [phase |-> "new", task |-> Head(h.tasks), changed |-> FALSE,
                   durable |-> FALSE, staged |-> FALSE, desk |-> desk, owed |-> h.owed]
    /\ h' = [h EXCEPT !.tasks = Tail(@)]
    /\ UNCHANGED <<mail, desk, vdd, left>>

Working(kind, phase) ==
    ~h.exited /\ running # Idle /\ running.task.kind = kind /\ running.phase = phase
Cancelled == IsStale(h, running.task.generation)
(* The task ends and its completion is posted.                                  *)
Post(status, changed, cleared) ==
    /\ mail' = Append(mail, [kind |-> running.task.kind, generation |-> running.task.generation,
                             request |-> running.task.request, virtual |-> running.task.virtual,
                             device |-> running.task.device, purpose |-> running.task.purpose,
                             status |-> status, changed |-> changed, durable |-> running.durable,
                             staged |-> running.staged, cleared |-> cleared])
    /\ running' = Idle
    /\ UNCHANGED <<vdd, left>>

(* ApplyOperation::run.  prepare_staged_apply() latches the original baseline.  *)
ApplyStages ==
    /\ Working("Apply", "new") /\ ~Cancelled
    /\ running' = [running EXCEPT !.phase = "staged", !.staged = TRUE]
    /\ UNCHANGED <<h, mail, desk, vdd, left>>

(* The durable restore task is created before the first mutation; a task that   *)
(* cannot be created is logged and the APPLY goes on.                           *)
ApplyArms ==
    /\ Working("Apply", "staged") /\ ~Cancelled
    /\ \E armed \in TaskOutcomes :
         /\ running' = [running EXCEPT !.phase = "armed", !.durable = armed]
         /\ h' = [h EXCEPT !.os_task = @ \/ armed]
    /\ UNCHANGED <<mail, desk, vdd, left>>

ApplyMutates ==
    /\ Working("Apply", "armed") /\ ~Cancelled
    /\ running' = [running EXCEPT !.phase = "mutated", !.changed = TRUE]
    /\ h' = [h EXCEPT !.owed = TRUE]
    /\ desk' = Mixed
    /\ UNCHANGED <<mail, vdd, left>>

ApplyLands ==
    /\ Working("Apply", "mutated") /\ ~Cancelled
    /\ Post("Ok", TRUE, "none")
    /\ desk' = running.task.request
    /\ UNCHANGED h

(* The settings stage failed and the layout of before the APPLY is back.        *)
ApplyRollsBack ==
    /\ Working("Apply", "mutated") /\ ~Cancelled
    /\ \E status \in {"Retryable", "Fatal"} : Post(status, FALSE, "none")
    /\ desk' = running.desk
    /\ h' = [h EXCEPT !.owed = running.owed]

ApplyFails ==
    /\ \/ Working("Apply", "mutated")
       \/ Working("Apply", "armed") /\ Cancelled
       \/ Working("Apply", "staged")
       \/ Working("Apply", "new")
    /\ \E status \in IF Cancelled THEN {"Fatal"} ELSE {"Retryable", "Fatal"} :
         Post(status, running.changed, "none")
    /\ UNCHANGED <<h, desk>>

(* RecoveryOperation::run.  A cancellation during the grace period or seen by   *)
(* the first test ends it before it counts as an attempt ...                    *)
RecoverySkipped ==
    /\ Working("Recovery", "new") /\ Cancelled
    /\ Post("Fatal", FALSE, "none")
    /\ UNCHANGED <<h, desk>>

RecoveryEnters ==
    /\ Working("Recovery", "new") /\ ~Cancelled
    /\ running' = [running EXCEPT !.phase = "entered"]
    /\ UNCHANGED <<h, mail, desk, vdd, left>>

(* ... after the test the attempt is announced, cancelled or not.               *)
RecoveryBegins ==
    /\ Working("Recovery", "entered")
    /\ running' = [running EXCEPT !.phase = "trying", !.changed = TRUE]
    /\ h' = [h EXCEPT !.restore_unconfirmed = TRUE]
    /\ UNCHANGED <<mail, desk, vdd, left>>

RecoveryRestores ==
    /\ Working("Recovery", "trying") /\ ~Cancelled
    /\ \E cleared \in {"ok", "failed"} : Post("Ok", TRUE, cleared)
    /\ desk' = Home
    /\ UNCHANGED h

RecoveryFails ==
    /\ Working("Recovery", "trying")
    /\ Post("Fatal", TRUE, "none")
    /\ desk' \in {desk, Home}
    /\ UNCHANGED h

(* RecoveryValidationOperation, VerificationOperation: the desktop is compared. *)
ValidationEnds ==
    /\ Working("Validation", "new")
    /\ \E status \in IF ~Cancelled /\ desk = Home THEN {"Ok", "Fatal"} ELSE {"Fatal"} :
         Post(status, FALSE, "none")
    /\ UNCHANGED <<h, desk>>

VerificationEnds ==
    /\ Working("Verification", "new")
    /\ \E status \in IF ~Cancelled /\ desk = running.task.request THEN {"Ok", "Fatal"}
                     ELSE {"Fatal"} : Post(status, FALSE, "none")
    /\ UNCHANGED <<h, desk>>

RefreshRateEnds ==
    /\ Working("RefreshRate", "new")
    /\ \E status \in IF Cancelled THEN {"Fatal"} ELSE {"Ok", "Fatal"} :
         Post(status, FALSE, "none")
    /\ UNCHANGED <<h, desk>>

(* The reset of the staged backend state ignores cancellation.                  *)
ResetEnds ==
    /\ Working("Reset", "new")
    /\ \E status \in {"Ok", "Fatal"} : Post(status, FALSE, "none")
    /\ UNCHANGED <<h, desk>>

--------------------------------------------------------------------------------
(* Process ends: Windows, the disk and the desktop stay as they are.            *)

NextProcess ==
    FreshHelper(h.snapshot, h.os_task, h.owed, h.verdict)
Relaunch ==
    /\ Spend("crash")
    /\ running' = Idle
    /\ mail' = <<>>
    /\ \/ h' = NextProcess
       \/ /\ h.os_task      \* the scheduled task starts the helper with --restore
          /\ h' = HandleRevertCommand([NextProcess EXCEPT !.link = "restore_mode"],
                      [DisconnectRevert EXCEPT !.from_disconnect = FALSE])
    /\ UNCHANGED <<desk, vdd>>

Client == ClientApply \/ ClientRevert \/ ClientDisarm \/ ClientReset \/ ClientRefreshRate
          \/ ClientCapture
Connection == Connect \/ Break \/ NoticeDisconnect
WorkerThread ==
    \/ TakeTask
    \/ ApplyStages \/ ApplyArms \/ ApplyMutates \/ ApplyLands \/ ApplyRollsBack \/ ApplyFails
    \/ RecoverySkipped \/ RecoveryEnters \/ RecoveryBegins \/ RecoveryRestores \/ RecoveryFails
    \/ ValidationEnds \/ VerificationEnds \/ RefreshRateEnds \/ ResetEnds

Next ==
    \/ Client
    \/ Connection
    \/ GraceEnds
    \/ HandleMail
    \/ DisplayChange
    \/ Tick
    \/ TimerFires
    \/ WorkerThread
    \/ Relaunch

Spec == Init /\ [][Next]_vars

(* The threads run: a queued task is executed, a posted completion is handled,  *)
(* an armed timer fires.                                                        *)
Fairness ==
    /\ WF_mail(TakeMail)
    /\ WF_vars(WorkerThread)
    /\ WF_vars(TimerFires)
    /\ WF_vars(NoticeDisconnect)
FairSpec == Spec /\ Fairness

================================================================================
