------------------------------ MODULE HelperWatchdog ------------------------------
(* The host's watchdog of the display helper and the deferred APPLY                      *)
(* (platform/windows/display_helper_integration.cpp): a global jthread that start_watchdog *)
(* and stop_watchdog create, hand over and join under g_watchdog_mutex, the descriptor of  *)
(* the active session whose generation its cleanup belongs to, and the APPLY that waits    *)
(* for a user to log in.  Four threads call: the holder of the lifecycle gate (launches,   *)
(* session starts and ends, the end of the application), the control thread (the deferred  *)
(* APPLY), the hotkey thread and main.  `live' is stream_is_active_or_pending.             *)
EXTENDS Naturals, FiniteSets

CONSTANTS
    MaxApplyAttempts, \* kMaxDeferredApplyAttempts
    MaxLaunches,      \* bound: launches and resumes
    MaxHotkeys,       \* bound: presses of the restore hotkey
    MaxThreadFaults,  \* bound: system_errors of a join or of a thread's creation
    MaxWorkers        \* bound: watchdog threads at a time (one, if all is well)

ASSUME WatchdogAssumption ==
    /\ {MaxApplyAttempts, MaxLaunches, MaxHotkeys, MaxThreadFaults} \subseteq Nat
    /\ MaxWorkers \in Nat \ {0, 1}

VARIABLES
    watchdog,   \* g_watchdog_state, _thread, _reaping, _teardown_completed, _session_generation, _stop_epoch
    workers,    \* the watchdog threads that have not returned, and those asked to stop
    calls,      \* per thread: the call of start_watchdog or stop_watchdog it is in
    descriptor, \* g_active_session_dd: its launch and generation; g_next_active_session_generation
    deferred,   \* pending_apply_state() and the holder of pending_apply_execution_mutex()
    gate,       \* the holder of the lifecycle gate and the state it guards
    poller,     \* the control thread, in apply_pending_if_ready
    enders,     \* the hotkey thread and main
    faults      \* the system_errors so far; whether the last start or the last stop failed

watchdogVars == <<watchdog, workers, calls, descriptor, deferred, gate, poller, enders, faults>>

WatchdogThreads == {"gate", "control", "hotkey", "main"}
NoWatchdogCall == [op |-> "none", at |-> "", force |-> FALSE, epoch |-> 0, generation |-> 0, worker |-> 0]
StartCall == [NoWatchdogCall EXCEPT !.op = "start", !.at = "begin"]
StopCall(force) == [NoWatchdogCall EXCEPT !.op = "stop", !.at = "loop", !.force = force]
NoApply == [launch |-> 0, attempts |-> 0, delayed |-> FALSE]
DeferredApply(launch) == [NoApply EXCEPT !.launch = launch] \* make_pending_apply_state

WatchdogInit ==
    /\ watchdog = [state |-> "stopped", thread |-> 0, reaping |-> FALSE, torndown |-> FALSE,
                   generation |-> 0, epoch |-> 0]
    /\ workers = [alive |-> {}, asked |-> {}]
    /\ calls = [c \in WatchdogThreads |-> NoWatchdogCall]
    /\ descriptor = [launch |-> 0, generation |-> 0, last |-> 0]
    /\ deferred = [pending |-> NoApply, executing |-> FALSE]
    /\ gate = [at |-> "idle", launch |-> 0, live |-> FALSE, app |-> FALSE, started |-> FALSE,
               start_deferred |-> FALSE, revert_owed |-> FALSE, published |-> FALSE,
               forced |-> FALSE, kept |-> FALSE]
    /\ poller = [at |-> "idle", claimed |-> NoApply]
    /\ enders = [hotkey |-> "idle", presses |-> 0, main |-> "running"]
    /\ faults = [count |-> 0, unstarted |-> FALSE]

--------------------------------------------------------------------------------
(* The descriptor of the active session, under g_session_mutex.                           *)
Published(launch) == \* set_active_session
    IF descriptor.launch = launch THEN descriptor
    ELSE [launch |-> launch, generation |-> descriptor.last + 1, last |-> descriptor.last + 1]
Cleared == [descriptor EXCEPT !.launch = 0, !.generation = 0] \* clear_active_session

(* finish_watchdog_stop_locked: the cleanup of a watchdog that belonged to `expected'.    *)
MistakeTeardown(expected) == IF watchdog.torndown THEN descriptor ELSE Cleared
Teardown(expected) ==
    IF watchdog.torndown \/ (descriptor.launch # 0 /\ descriptor.generation # expected)
    THEN descriptor ELSE Cleared

Fresh == CHOOSE w \in 1..MaxWorkers : w \notin workers.alive
Fault(unstarted) ==
    /\ faults.count < MaxThreadFaults
    /\ faults' = [count |-> faults.count + 1, unstarted |-> unstarted]

(* A new worker for the session that is active now; or the creation fails, and what was    *)
(* torn down before remains so.                                                           *)
NewWatchdog(torndown) ==
    \/ /\ workers.alive # 1..MaxWorkers
       /\ watchdog' = [watchdog EXCEPT !.state = "running", !.thread = Fresh, !.reaping = FALSE,
                                       !.torndown = FALSE, !.generation = descriptor'.generation]
       /\ workers' = [workers EXCEPT !.alive = @ \cup {Fresh}]
       /\ faults' = [faults EXCEPT !.unstarted = FALSE]
    \/ /\ Fault(TRUE)
       /\ watchdog' = [watchdog EXCEPT !.state = "stopped", !.reaping = FALSE,
                                       !.torndown = torndown, !.generation = 0]
       /\ UNCHANGED workers

Ask(w) == [workers EXCEPT !.asked = @ \cup ({w} \cap workers.alive)] \* request_stop
CallReturns(c) == calls' = [calls EXCEPT ![c] = NoWatchdogCall]
Reaps(c) == \* the caller takes the thread to join it outside the mutex
    /\ calls' = [calls EXCEPT ![c].at = "join", ![c].worker = watchdog.thread,
                              ![c].generation = IF calls[c].force THEN 0 ELSE watchdog.generation]
    /\ workers' = Ask(watchdog.thread)

(* start_watchdog.                                                                        *)
StartBegin(c) ==
    /\ calls[c].op = "start" /\ calls[c].at = "begin"
    /\ calls' = [calls EXCEPT ![c].at = "loop", ![c].epoch = watchdog.epoch]
    /\ UNCHANGED <<watchdog, workers, descriptor, deferred, gate, poller, enders, faults>>

StartAdopts(c) ==
    /\ CallReturns(c)
    /\ watchdog' = IF descriptor.launch # 0 /\ watchdog.generation # descriptor.generation
                   THEN [watchdog EXCEPT !.generation = descriptor.generation, !.torndown = FALSE]
                   ELSE watchdog

StartLoop(c) ==
    /\ calls[c].op = "start" /\ calls[c].at = "loop"
    /\ UNCHANGED <<descriptor, deferred, gate, poller, enders>>
    /\ \/ /\ watchdog.state = "running"
          /\ StartAdopts(c)
          /\ UNCHANGED <<workers, faults>>
       \/ /\ watchdog.state # "running" /\ ~watchdog.reaping \* waits while another reaps
          /\ watchdog.thread # 0
          /\ watchdog' = [watchdog EXCEPT !.state = "stopping", !.thread = 0, !.reaping = TRUE]
          /\ Reaps(c)
          /\ UNCHANGED faults
       \/ /\ watchdog.state # "running" /\ ~watchdog.reaping /\ watchdog.thread = 0
          /\ CallReturns(c)
          /\ IF watchdog.epoch # calls[c].epoch
             THEN UNCHANGED <<watchdog, workers, faults>>
             ELSE NewWatchdog(watchdog.torndown)

MistakeDetaches(c) == TRUE
MayJoin(c) == calls[c].worker \notin workers.alive

StartJoined(c) ==
    /\ calls[c].op = "start" /\ calls[c].at = "join" /\ MayJoin(c)
    /\ descriptor' = Teardown(calls[c].generation)
    /\ CallReturns(c)
    /\ IF watchdog.epoch # calls[c].epoch
       THEN /\ watchdog' = [watchdog EXCEPT !.state = "stopped", !.reaping = FALSE,
                                            !.torndown = TRUE, !.generation = 0]
            /\ UNCHANGED <<workers, faults>>
       ELSE NewWatchdog(TRUE)
    /\ UNCHANGED <<deferred, gate, poller, enders>>

(* A join that throws gives the thread back to its only owner.                            *)
JoinFails(c) ==
    /\ calls[c].at = "join" /\ Fault(faults.unstarted \/ calls[c].op = "start")
    /\ watchdog' = [watchdog EXCEPT !.state = "stopping", !.reaping = FALSE, !.thread = calls[c].worker]
    /\ CallReturns(c)
    /\ enders' = IF c = "main" THEN [enders EXCEPT !.main = "failed"] ELSE enders
    /\ UNCHANGED <<workers, descriptor, deferred, gate, poller>>

(* stop_watchdog.                                                                         *)
MistakeStaleStop(c) == FALSE
StaleStop(c) ==
    /\ ~calls[c].force
    /\ gate.live \/ (descriptor.launch # 0 /\ watchdog.generation # descriptor.generation)

StopLoop(c) ==
    /\ calls[c].op = "stop" /\ calls[c].at = "loop"
    /\ UNCHANGED <<deferred, gate, poller, enders, faults>>
    /\ LET nothing == watchdog.state = "stopped" /\ watchdog.thread = 0 /\ ~watchdog.reaping
           stopping == [watchdog EXCEPT !.epoch = @ + 1, !.state = "stopping"] IN
       \/ /\ nothing \/ StaleStop(c)
          /\ CallReturns(c)
          /\ UNCHANGED <<watchdog, workers, descriptor>>
       \/ /\ ~nothing /\ ~StaleStop(c) /\ watchdog.reaping
          /\ watchdog' = stopping
          /\ calls' = [calls EXCEPT ![c].at = "wait"]
          /\ UNCHANGED <<workers, descriptor>>
       \/ /\ ~nothing /\ ~StaleStop(c) /\ ~watchdog.reaping /\ watchdog.thread = 0
          /\ watchdog' = [stopping EXCEPT !.state = "stopped", !.torndown = TRUE, !.generation = 0]
          /\ descriptor' = Teardown(IF calls[c].force THEN 0 ELSE watchdog.generation)
          /\ CallReturns(c)
          /\ UNCHANGED workers
       \/ /\ ~nothing /\ ~StaleStop(c) /\ ~watchdog.reaping /\ watchdog.thread # 0
          /\ watchdog' = [stopping EXCEPT !.thread = 0, !.reaping = TRUE]
          /\ Reaps(c)
          /\ UNCHANGED descriptor

MistakeStopWaited(c) == CallReturns(c)
StopWaited(c) == IF calls[c].force THEN calls' = [calls EXCEPT ![c].at = "loop"] ELSE CallReturns(c)
StopWait(c) ==
    /\ calls[c].at = "wait" /\ ~watchdog.reaping
    /\ StopWaited(c)
    /\ UNCHANGED <<watchdog, workers, descriptor, deferred, gate, poller, enders, faults>>

StopJoined(c) ==
    /\ calls[c].op = "stop" /\ calls[c].at = "join" /\ MayJoin(c)
    /\ descriptor' = Teardown(calls[c].generation)
    /\ watchdog' = [watchdog EXCEPT !.state = "stopped", !.reaping = FALSE, !.torndown = TRUE, !.generation = 0]
    /\ CallReturns(c)
    /\ UNCHANGED <<workers, deferred, gate, poller, enders, faults>>

(* watchdog_proc leaves its loop when it has been asked to.                               *)
WorkerExits(w) ==
    /\ w \in workers.alive \cap workers.asked
    /\ workers' = [alive |-> workers.alive \ {w}, asked |-> workers.asked \ {w}]
    /\ UNCHANGED <<watchdog, calls, descriptor, deferred, gate, poller, enders, faults>>

--------------------------------------------------------------------------------
(* Every display operation waits for the deferred APPLY that is under way.                *)
MistakeOperatesUnlocked == TRUE
OwnsExecution == ~deferred.executing \* pending_apply_execution_mutex

(* apply, under the execution mutex: it drops the deferred APPLY of an earlier launch and  *)
(* may queue its own (lock screen, no user).                                              *)
ApplyOutcomes == {"skipped", "applied", "applied_deferred", "deferred", "failed"}
LaunchApplies(outcome) ==
    /\ gate.at = "idle" /\ ~gate.live /\ gate.launch < MaxLaunches /\ enders.main = "running"
    /\ outcome # "skipped" => OwnsExecution
    /\ LET launch == gate.launch + 1
           applied == outcome \in {"applied", "applied_deferred"} IN
       /\ descriptor' = IF applied THEN Published(launch) ELSE descriptor
       /\ deferred' = CASE outcome = "skipped" -> deferred
                        [] outcome \in {"deferred", "applied_deferred"} ->
                             [deferred EXCEPT !.pending = DeferredApply(launch)]
                        [] OTHER -> [deferred EXCEPT !.pending = NoApply]
       /\ gate' = [gate EXCEPT !.at = "launched", !.launch = launch, !.app = TRUE,
                               !.published = applied, !.forced = enders.hotkey # "idle"]
    /\ UNCHANGED <<watchdog, workers, calls, poller, enders, faults>>

(* The launch timer, when no client has come: it finalizes as the end of a session does.   *)
LaunchExpires ==
    /\ gate.at = "launched"
    /\ gate' = [gate EXCEPT !.at = "ending"]
    /\ UNCHANGED <<watchdog, workers, calls, descriptor, deferred, poller, enders, faults>>

(* session::start: the platform is started at once, or by the control thread under the     *)
(* gate when a user has logged in (start_shared_platform_if_needed).                      *)
StartPlatform ==
    /\ ~gate.started
    /\ calls' = [calls EXCEPT !["gate"] = StartCall]

StreamStarts ==
    /\ gate.at = "launched"
    /\ \/ StartPlatform /\ gate' = [gate EXCEPT !.live = TRUE, !.at = "starting"]
       \/ /\ gate' = [gate EXCEPT !.live = TRUE, !.at = "streaming", !.start_deferred = TRUE]
          /\ UNCHANGED calls
    /\ UNCHANGED <<watchdog, workers, descriptor, deferred, poller, enders, faults>>

DeferredStart ==
    /\ gate.at = "streaming" /\ gate.start_deferred
    /\ StartPlatform
    /\ gate' = [gate EXCEPT !.at = "starting", !.start_deferred = FALSE]
    /\ UNCHANGED <<watchdog, workers, descriptor, deferred, poller, enders, faults>>

GateReturns ==
    /\ calls["gate"].op = "none"
    /\ \/ gate.at = "starting" /\ gate' = [gate EXCEPT !.at = "streaming", !.started = TRUE]
       \/ gate.at = "stopping" /\ gate' = [gate EXCEPT !.at = "idle"]
    /\ UNCHANGED <<watchdog, workers, calls, descriptor, deferred, poller, enders, faults>>

(* revert: without a helper only the deferred APPLY goes; else the descriptor too,         *)
(* whether or not the command could be sent.                                              *)
RevertOutcomes == {"unavailable", "unsent", "sent"}
Revert(outcome) ==
    /\ OwnsExecution
    /\ deferred' = [deferred EXCEPT !.pending = NoApply]
    /\ descriptor' = IF outcome = "unavailable" THEN descriptor ELSE Cleared

(* The last session ends: the count falls first, then finalize_shared_runtime_if_idle.    *)
StreamEnds ==
    /\ gate.at = "streaming"
    /\ gate' = [gate EXCEPT !.at = "ending", !.live = FALSE]
    /\ UNCHANGED <<watchdog, workers, calls, descriptor, deferred, poller, enders, faults>>

Finalize(restores, outcome) ==
    /\ gate.at = "ending" /\ OwnsExecution
    /\ ~gate.app /\ gate.revert_owed => restores
    /\ IF restores THEN Revert(outcome)
       ELSE deferred' = [deferred EXCEPT !.pending = NoApply] /\ UNCHANGED descriptor
    /\ LET stops == gate.started /\ ~gate.app IN
       /\ gate' = [gate EXCEPT !.at = IF stops THEN "stopping" ELSE "idle", !.started = FALSE,
                               !.start_deferred = FALSE, !.revert_owed = @ /\ gate.app,
                               !.published = FALSE,
                               !.kept = ~stops]
       /\ calls' = IF stops THEN [calls EXCEPT !["gate"] = StopCall(FALSE)] ELSE calls
    /\ UNCHANGED <<watchdog, workers, poller, enders, faults>>

(* terminate: under a launch or a stream the restore is owed to its end; else the watchdog *)
(* stops once the restore has been sent.                                                  *)
WatchedAppExits(outcome) ==
    /\ gate.app /\ gate.at \in {"idle", "launched", "streaming"}
    /\ IF gate.at # "idle"
       THEN /\ gate' = [gate EXCEPT !.app = FALSE, !.revert_owed = TRUE]
            /\ UNCHANGED <<calls, descriptor, deferred>>
       ELSE /\ Revert(outcome)
            /\ gate' = [gate EXCEPT !.app = FALSE, !.revert_owed = FALSE,
                                    !.at = IF outcome = "sent" THEN "stopping" ELSE "idle",
                                    !.kept = outcome # "sent"]
            /\ calls' = IF outcome = "sent" THEN [calls EXCEPT !["gate"] = StopCall(FALSE)] ELSE calls
    /\ UNCHANGED <<watchdog, workers, poller, enders, faults>>

--------------------------------------------------------------------------------
(* apply_pending_if_ready, polled by the control thread while sessions run; it holds the    *)
(* execution mutex from the claim to the check for idleness.                              *)
Poll ==
    /\ poller.at = "idle" /\ gate.live /\ deferred.pending # NoApply
    /\ poller' = [poller EXCEPT !.at = "poll"]
    /\ UNCHANGED <<watchdog, workers, calls, descriptor, deferred, gate, enders, faults>>

Claim ==
    /\ poller.at = "poll" /\ OwnsExecution
    /\ UNCHANGED <<watchdog, workers, calls, descriptor, gate, enders, faults>>
    /\ LET pending == deferred.pending IN
       \/ /\ pending = NoApply \/ (pending.delayed /\ ~gate.live /\ pending.attempts < MaxApplyAttempts)
          /\ poller' = [poller EXCEPT !.at = "idle"]
          /\ UNCHANGED deferred
       \/ /\ pending # NoApply /\ ~pending.delayed
          /\ deferred' = [deferred EXCEPT !.pending.delayed = TRUE]
          /\ poller' = [poller EXCEPT !.at = "idle"]
       \/ /\ pending.delayed /\ pending.attempts >= MaxApplyAttempts
          /\ deferred' = [deferred EXCEPT !.pending = NoApply]
          /\ poller' = [poller EXCEPT !.at = "idle"]
       \/ /\ pending.delayed /\ pending.attempts < MaxApplyAttempts /\ gate.live
          /\ deferred' = [pending |-> NoApply, executing |-> TRUE]
          /\ poller' = [at |-> "applying", claimed |-> pending]

(* apply_internal for the claimed request: it is published; it fails and is put back; or    *)
(* the in-process API is not available, which queues it as a new one.                     *)
DeferredOutcomes == {"applied", "failed", "unavailable"}
Execute(outcome) ==
    /\ poller.at = "applying"
    /\ LET retry == [poller.claimed EXCEPT !.attempts = @ + 1] IN
       IF outcome = "applied"
       THEN /\ descriptor' = Published(poller.claimed.launch)
            /\ poller' = [poller EXCEPT !.at = "adopting"]
            /\ gate' = [gate EXCEPT !.published = @ \/ gate.launch = poller.claimed.launch]
            /\ UNCHANGED deferred
       ELSE /\ deferred' = [pending |-> CASE outcome = "unavailable" -> DeferredApply(poller.claimed.launch)
                                          [] deferred.pending # NoApply -> deferred.pending
                                          [] OTHER -> retry,
                            executing |-> FALSE]
            /\ poller' = [at |-> "idle", claimed |-> NoApply]
            /\ UNCHANGED <<descriptor, gate>>
    /\ UNCHANGED <<watchdog, workers, calls, enders, faults>>

AdoptGeneration == \* adopt_watchdog_session_generation
    /\ poller.at = "adopting"
    /\ LET bound == descriptor.launch = poller.claimed.launch IN
       /\ watchdog' = IF bound /\ watchdog.state = "running" /\ ~watchdog.reaping
                      THEN [watchdog EXCEPT !.generation = descriptor.generation, !.torndown = FALSE]
                      ELSE watchdog
       /\ poller' = IF bound THEN [poller EXCEPT !.at = "leaving"]
                     ELSE [at |-> "idle", claimed |-> NoApply]
       /\ deferred' = IF bound THEN deferred ELSE [deferred EXCEPT !.executing = FALSE]
    /\ UNCHANGED <<workers, calls, descriptor, gate, enders, faults>>

LeaveExecution ==
    /\ poller.at = "leaving"
    /\ deferred' = [deferred EXCEPT !.executing = FALSE]
    /\ poller' = [at |-> IF gate.live THEN "idle" ELSE "idle_check", claimed |-> NoApply]
    /\ UNCHANGED <<watchdog, workers, calls, descriptor, gate, enders, faults>>

IdleStop ==
    /\ poller.at = "idle_check"
    /\ IF ~gate.live /\ ~gate.app
       THEN /\ calls' = [calls EXCEPT !["control"] = StopCall(FALSE)]
            /\ poller' = [poller EXCEPT !.at = "stopping"]
       ELSE poller' = [poller EXCEPT !.at = "idle"] /\ UNCHANGED calls
    /\ UNCHANGED <<watchdog, workers, descriptor, deferred, gate, enders, faults>>

ControlReturns ==
    /\ poller.at = "stopping" /\ calls["control"].op = "none"
    /\ poller' = [poller EXCEPT !.at = "idle"]
    /\ UNCHANGED <<watchdog, workers, calls, descriptor, deferred, gate, enders, faults>>

(* The restore hotkey: restore, then stop the watchdog whatever streams.                   *)
HotkeyPressed ==
    /\ enders.hotkey = "idle" /\ enders.presses < MaxHotkeys
    /\ enders' = [enders EXCEPT !.hotkey = "reverting", !.presses = @ + 1]
    /\ gate' = [gate EXCEPT !.forced = TRUE]
    /\ UNCHANGED <<watchdog, workers, calls, descriptor, deferred, poller, faults>>

HotkeyReverts(outcome) ==
    /\ enders.hotkey = "reverting" /\ Revert(outcome)
    /\ enders' = [enders EXCEPT !.hotkey = "stopping"]
    /\ calls' = [calls EXCEPT !["hotkey"] = StopCall(TRUE)]
    /\ UNCHANGED <<watchdog, workers, gate, poller, faults>>

HotkeyReturns ==
    /\ enders.hotkey = "stopping" /\ calls["hotkey"].op = "none"
    /\ enders' = [enders EXCEPT !.hotkey = "idle"]
    /\ UNCHANGED <<watchdog, workers, calls, descriptor, deferred, gate, poller, faults>>

(* The end of main: the threads that start streams have been joined.                       *)
MainStops ==
    /\ enders.main = "running" /\ gate.at = "idle" /\ ~gate.live /\ poller.at = "idle"
    /\ enders' = [enders EXCEPT !.main = "stopping"]
    /\ calls' = [calls EXCEPT !["main"] = StopCall(TRUE)]
    /\ UNCHANGED <<watchdog, workers, descriptor, deferred, gate, poller, faults>>

MainReturns ==
    /\ enders.main = "stopping" /\ calls["main"].op = "none"
    /\ enders' = [enders EXCEPT !.main = "done"]
    /\ UNCHANGED <<watchdog, workers, calls, descriptor, deferred, gate, poller, faults>>

WatchdogNext ==
    \/ \E c \in WatchdogThreads :
          StartBegin(c) \/ StartLoop(c) \/ StartJoined(c) \/ JoinFails(c)
          \/ StopLoop(c) \/ StopWait(c) \/ StopJoined(c)
    \/ \E w \in 1..MaxWorkers : WorkerExits(w)
    \/ \E outcome \in ApplyOutcomes : LaunchApplies(outcome)
    \/ LaunchExpires \/ StreamStarts \/ DeferredStart \/ GateReturns \/ StreamEnds
    \/ \E restores \in BOOLEAN, outcome \in RevertOutcomes : Finalize(restores, outcome)
    \/ \E outcome \in RevertOutcomes : WatchedAppExits(outcome) \/ HotkeyReverts(outcome)
    \/ Poll \/ Claim \/ AdoptGeneration \/ LeaveExecution \/ IdleStop \/ ControlReturns
    \/ \E outcome \in DeferredOutcomes : Execute(outcome)
    \/ HotkeyPressed \/ HotkeyReturns \/ MainStops \/ MainReturns
WatchdogSpec == WatchdogInit /\ [][WatchdogNext]_watchdogVars

--------------------------------------------------------------------------------
(* A worker that has not returned has exactly one owner that will join it, the global      *)
(* jthread or the caller that is reaping it, and there is never a second worker:           *)
(* "detaching it would let it access helper globals after CRT teardown"                   *)
(* (display_helper_integration.cpp:1391).                                                 *)
WorkerIsOwned ==
    /\ Cardinality(workers.alive) <= 1
    /\ \A w \in workers.alive :
          watchdog.thread = w \/ \E c \in WatchdogThreads : calls[c].at = "join" /\ calls[c].worker = w

(* A stream whose platform has been started is watched: no stop that belongs to an earlier *)
(* stream takes down its watchdog (only a hotkey or a system_error does).                  *)
StreamIsWatched ==
    gate.at = "streaming" /\ gate.started /\ ~gate.forced /\ ~faults.unstarted =>
        watchdog.state = "running" /\ watchdog.thread \in workers.alive \ workers.asked

(* The display session that a launch has published stays until that launch's stream ends:  *)
(* the late cleanup of a previous watchdog never erases a newer launch.                    *)
DescriptorKept ==
    gate.at \in {"launched", "starting", "streaming"} /\ gate.published /\ ~gate.forced =>
        descriptor.launch = gate.launch

(* When main's stop has returned no watchdog thread is left for the CRT's teardown, also    *)
(* if the hotkey was stopping it at the same time and could not join it.                   *)
ShutdownIsComplete == enders.main = "done" => workers.alive = {}

(* When nothing streams, no application runs and no call is under way, no APPLY is left     *)
(* that could change the displays, and no watchdog keeps the helper alive: a deferred      *)
(* APPLY does not outlive the teardown of its session.  (gate.kept: the restore could not  *)
(* be sent, or the platform had not been started.)                                        *)
IdleIsQuiet ==
    /\ gate.at = "idle" /\ ~gate.app /\ gate.launch > 0
    /\ poller.at = "idle" /\ enders.hotkey = "idle" /\ faults.count = 0
    => /\ deferred.pending = NoApply
       /\ ~gate.kept => workers.alive = {} /\ (~gate.forced => descriptor.launch = 0)

================================================================================
