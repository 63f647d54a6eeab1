# A verification project for the streaming host

The repository is a game-streaming host (a Sunshine derivative). Its most
stateful part is the *display helper*, a separate Windows process
(`tools/display_settings_helper_v2.cpp`, `src/platform/windows/display_helper_v2/`)
that changes the user's desktop for a streaming session and must always be able
to put it back: after the stream, after a lost connection, after a crash, after
a reboot. This directory models that process, the host that drives it, and the
host's components with a protocol of their own (its sessions, the client of the
helper's pipe and its watchdog, the session history, the state files), checks them with TLC and proves theorems
about the helper with TLAPS. Paths below are relative to the repository root.

## 1. Inventory

### 1.1 The display helper

| part | source | state | operations | talks to |
|---|---|---|---|---|
| `StateMachine` | `state_machine.cpp/.h`, `types.h` | the session's request and progress, the mutation fence `active_mutation_worker_`, the deferred commands, the recovery lease (`recovery_armed_`, `display_changes_pending_recovery_`, `restore_task_created_`), two settling ladders, the staged-reset barrier | one handler per command (APPLY, REVERT, DISARM, RESET, refresh rate, captures), per completion, per display event, and `handle_tick` | dispatches tasks; called only from the main loop |
| `AsyncDispatcher` | `async_dispatcher.cpp` | `tasks_` (one worker thread), `timer_tasks_` (one timer thread) | dispatch of each operation; a closure captures a cancellation token | posts completions to the mailbox |
| operations | `operations.cpp` | none of their own, except `restore_attempted_unconfirmed` and the golden fallback counter in `RestoreState` | `ApplyOperation`, `VerificationOperation`, `RecoveryOperation`, `RecoveryValidationOperation`, `TopologyTransition` | Windows, snapshot files, the scheduled task |
| main loop | `display_settings_helper_v2.cpp` | `connection_epoch`, `restore_origin_epoch`, `client_connected`, `running` | connect, retire an epoch, discard its commands, apply the disconnect policy, exit, `--restore` | the pipe, the state machine |
| runtime support | `runtime_support.h` | cancellation generation, mailbox, restore window and backoff, heartbeat windows | | main loop and threads |
| snapshots | `snapshot.cpp`, `snapshot_codec.cpp`, `golden_health.cpp` | current, previous and golden snapshot files | save, promote, load, filter | disk |
| Windows back end | `win_*.cpp` | the desktop, the scheduled restore task | | Win32, COM |

**Hard behaviours.** The pipe's thread, the main loop, the worker thread, the
timer thread and Windows' display events run concurrently. Cancellation is a
generation counter: a running task is not stopped, it finds out at its next
test, and its completion arrives afterwards with news that may not be ignored
(the desktop *was* changed). Commands that arrive meanwhile wait in a queue that
keeps only the newest intent. Connections die with their commands in that queue.
The process can be killed between any two steps, and only the scheduled task
survives it.

**What makes it correct.** One mutation of the desktop at a time; a changed
desktop never without its lease and its scheduled task; a session is reported
up only when the desktop shows it; the latest wish of the client wins; no
command of a dead connection starts; every wait ends; the process leaves only
when nothing is owed.

### 1.2 The host

| part | source | state and operations | hard behaviour | what makes it correct |
|---|---|---|---|---|
| display integration | `display_helper_integration.cpp`, the launch sequence of `nvhttp.cpp` | `g_restore_expected`, `g_last_revert_us`, the helper process; DISARM, SNAPSHOT_CURRENT, APPLY at a launch, REVERT at the end | either process may die between any two commands; a second client joins or launches while the first one's restore is on its way | the user's layout is never lost from the snapshots before it has been restored |
| helper IPC client | `ipc/display_settings_client.cpp` | the shared session, `apply_wait_generation`, request ids, the response inbox; connect, send, wait, retire | a late or untagged reply, supersession of a waiter, reconnection between preparing a command and writing it | a waiter gets only the reply to its own request; commands keep their order |
| sessions | `rtsp.cpp`, `stream.cpp`, `webrtc_stream.cpp`, `nvhttp.cpp`, `process.cpp`, `thread_safe.h` | pending launches, the startup pool, the session list, the broadcast context and its control thread, the WebRTC capture, the armed cleanup; launch, ANNOUNCE, start, stop, join, cancel, finalize | a dozen threads with two process-wide locks; ownership of the display passes between five kinds of owner | the display is prepared while somebody owns it, let go when nobody does, and nothing survives a cancel |
| watchdog and deferred APPLY | `display_helper_integration.cpp`, `hotkey_manager.cpp`, callers in `stream.cpp`, `process.cpp`, `main.cpp` | a global `jthread`, its state, owner, stop epoch and generation, the descriptor of the active session, the APPLY that waits for a logon; start, stop, adopt, claim, retry | four threads stop it, two of them after they decided to; a join may fail; the deferred APPLY runs while its session ends | a stream keeps its watchdog and its descriptor; nothing survives the end of the stream, or of the process |
| state files | `state_storage.cpp`, `file_handler.cpp`, `http_auth.cpp`, `nvhttp.cpp` | two JSON files; migrate, quarantine, load, save | the host may die between any two writes; a file may be malformed or refuse to be read or replaced | what was saved is found again |
| session history | `session_history*.cpp` | three bounded lanes, sequence numbers, the writer's batch, the rows; enqueue, drain, commit, disable | producers racing the shutdown, an end that overtakes samples, a batch that fails as a whole | what is accepted is written, in order; what is reported deleted is gone |

### 1.3 The rest of the repository

`PROJECT.json` lists every component with the reason for its status; section 8
says what is not modelled and why.

## 2. Modules

| module | what it is |
|---|---|
| `DisplayHelperTypes` | the vocabulary: requests, tasks, completions, commands, and `Helper`, the record of the process's memory |
| `DisplayStateMachine` | the handlers of `state_machine.cpp` as operators from memory to memory, each with every call it makes, the trailing drain included; also the exit callback and the disconnect policy |
| `DisplayHelper` | the process: variables, the client, the connection, the main loop, the worker and timer threads, display events, crashes; `Next`, `Spec`, `FairSpec` |
| `DisplayHelperProperties` | `TypeOK`, the invariants, action properties and liveness properties |
| `MCDisplayHelper` | the request shapes TLC draws from |
| `DisplayHelperProofs` | the theorems `TypeCorrect` and `RestoreStaysAlive` |
| `DisplayHelperFenceProofs` | the inductive invariant `FenceKept`, the theorems `FenceHolds` and `GateOpensOnRequest` |
| `DisplayHelperLeaseProofs` | the inductive invariants `LeaseKept` and `OrderKept`, the theorems `LeaseIsHeld`, `GuardIsDurable`, `LiveClientsOnly`, `DeferredWaits` and `ExitHasReset` |
| `SnapshotStore` | the three snapshot files and the operations on them |
| `RestoreTiming` | the restore scheduler and the heartbeat, with a discrete clock |
| `RestoreEngine` | the helper again, seen from the restore: an APPLY is one step, but the recovery worker is modelled tier by tier and the snapshots, attempts and clocks are in full |
| `RestoreHost` | the host's launch and revert sequences, the machine around both processes, and the history variable; `Spec` |
| `RestorePromise` | the abstract specification: what the helper promises about the snapshots it keeps |
| `RestoreProperties` | invariants, action properties, and the refinement `RestoreHost => RestorePromise` |
| `MCRestore` | two monitors, one removable, and a virtual display |
| `RestoreProofs` | the theorem `RestoreIsTyped`, the inductive invariant `RestoreInv`, the four safety theorems of the restore and its refinement of `RestorePromise` |
| `HelperClient` | the host's end of the helper's pipe |
| `SessionHistory` | the session history |
| `HostSessions` | launches, sessions, the broadcast, WebRTC, cancel and shutdown |
| `HelperWatchdog` | the watchdog's start and stop protocol, the active session's generations, the deferred APPLY |
| `StateFiles` | the API tokens on disk, through migration, saves and crashes |
| `HelperWatchdogProofs` | the theorems `WorkersAreOwned`, `ShutdownCompletes`, `StreamsAreWatched`, `DescriptorsAreKept` and `IdleIsFoundQuiet` |
| `HelperClientProofs` | the inductive invariant `ClientInv`, the theorems `RepliesAreOwn` and `NothingOvertakes` |
| `HostStorageProofs` | the theorems `TokensAreKept` of the state files and `AcceptedAreWritten` of the session history |
| `HostSessionsProofs` | the inductive invariant `HostInv`, the theorems `RuntimeIsOwned`, `OwnersFindItArmed` and `TerminationIsFinal` |
| `MCComponents` | an instance of each of the five components above |

Extension: `RestoreProperties` > `RestoreHost` > `RestoreEngine` >
`SnapshotStore`, `RestoreTiming`. `DisplayHelper` and `RestoreEngine` are two
views of one process: the first has the whole APPLY pipeline, all commands and
the queues of the dispatcher, and one Boolean for the snapshots; the second has
what the first leaves open. Their handlers are translated from the same lines.

`StateMachine` is a single-threaded class whose handlers call each other, so in
`DisplayStateMachine` its handlers are functions of one record `h` and not
actions; the actions are in `DisplayHelper`, one per message, thread step or
environment step. An operator whose name begins with `Mistake` is a plausible
wrong version of the one below it. Where the right version is the wrong one
behind a guard, it uses it; otherwise nothing does. `PROJECT.json` ("mutants")
pairs each with the property that it would break, as evidence that the property
can fail.

### 2.1 State

`DisplayHelper`:

| variable | code |
|---|---|
| `h` | members of `StateMachine`, `RestoreState`, the scheduler, the cancellation generation, the connection epoch, the dispatcher's queues; `os_task` is the scheduled task, `snapshot` whether any snapshot tier exists |
| `running` | the task in the worker thread, with the phase of its operation |
| `mail` | completions posted to the mailbox |
| `desk` | what Windows shows: `Home`, request number *n*, or `Mixed` |
| `vdd` | the virtual display driver's current device id |
| `left` | what remains of each bound |

`h.owed` and `h.verdict` are history variables: an APPLY changed the desktop and
neither a confirmed restore, nor a rollback, nor a release ended the duty to
restore it; and the last `VerificationResult` sent for each request.

`RestoreEngine` and `RestoreHost`:

| variable | code |
|---|---|
| `files` | the layout in each tier, empty for none |
| `desk`, `present` | the active layout; the monitors Windows enumerates |
| `helper` | `State`, the lease (`armed`, `kept` for `unconfirmed_cancelled_mutation_`), the scheduler, the heartbeat, the deferred command, `RestoreState` (`attempted`, `fallbacks`, `golden_first`, `prefer`, `guard` for the sixty seconds after a session restore), whether a client is connected |
| `worker` | the mutation worker: an APPLY, a recovery at tier and attempt, its validation |
| `host` | where the host is in a launch, `g_restore_expected`, the time since `g_last_revert_us`, whether a DISARM was attempted since the last tick (`g_last_disarm_attempt_us`), the golden-first setting |
| `history` | for the properties: the layout a session must give back, failed attempts in a row, silence, discarded restores, incidents |

`HelperClient`: `apply_wait_generation`, `connection` (`connection_generation`),
`session` (`ConnectionSession`, with the frames under way in each direction),
`caller` (per host thread, the command it is at), `requests` (ids given out).
`SessionHistory`: `service` (settings, `g_running`, the database handle, the
writer's loop), `lanes`, `batch`, `rows`, `stream` (per session, its thread and
the sampler's knowledge of it), `deleter`. `HostSessions`: `rtsp`, `startup`,
`stream_of`, `control`, `cleaner` (the threads that run `clear()`), `webrtc`,
`runtime`. `HelperWatchdog`: `watchdog` (the `g_watchdog_*` globals), `workers`,
`calls` (per thread, the call of `start_watchdog` or `stop_watchdog` it is in),
`descriptor` (`g_active_session_dd`), `deferred`, `gate` (the holder of the
lifecycle gate), `poller` (the control thread), `enders` (hotkey and main).
`StateFiles`: `disk`, `tokens` (how far the process is), `storage`. The comment at
each names the members it stands for.

### 2.2 Atomicity, and what is abstracted

The helper process:

* A handler is one step, as in the code. A worker's operation is one step per
  cancellation test or shared effect: an APPLY stages, arms the restore task,
  first mutates, then lands, rolls back or fails; a recovery tests the token,
  announces `restore_attempted_unconfirmed`, then restores or fails. A
  cancellation, a command or a crash can fall between any two.
* A client command is handled in the step that sends it. The pipe thread only
  tags the message, nothing inspects the mailbox between, a control prefix may
  overtake the completion at its head, and commands that outlive their
  connection are discarded or dropped on reading. Completions do wait in `mail`.
* Time: delays before a retry or a check are only order (`timers` is FIFO, as
  the single timer thread is). The 5 s grace after an APPLY ends in `GraceEnds`;
  in `DisplayHelper` the restore window and backoff are a choice in `Tick` and a
  heartbeat timeout is one way for `Break` to happen (`RestoreEngine` has them).
* A display event that the debouncer coalesces or that carries an older
  generation changes nothing; `DisplayChange` includes that outcome.
* `Retryable` stands also for `VerificationFailed`, `Fatal` for
  `InvalidRequest` and `HelperUnavailable`. `NeedsVirtualDisplayReset` is
  returned by no back end of the repository; `handle_helper_event`,
  `handle_stop_command` and `handle_ping_command` are reached only by unit tests.
  A STOP frame ends the process, which is `Relaunch`.
* Every request from the pipe has a configuration (`parse_apply_payload`
  rejects others); the branches for one without are kept all the same.
* A failed recovery leaves the desktop as it was or at `Home`. A refresh-rate
  change does not change what `desk` distinguishes.
* A completion may report that the durable task was not armed by *this* APPLY
  although it exists; `task_created` is sticky, so the outcome is the same.

The restore:

* A snapshot is the set of displays it lights. Modes, HDR and rotation travel
  with it and change no decision of the code; a layout that Windows rejects
  (`topology_is_valid`, `validate_topology`) is a tier that cannot be confirmed.
* The recovery worker takes one step per cancellation test, with the two
  attempts of `apply_and_confirm`, the guard of `should_skip_golden` and every
  write of a snapshot able to fail. The announcement of an attempt is in the
  step that ends the grace; the race between the two is the run `DisarmRace`.
* A clock tick passes only when no timer of the helper's loop is due, so a
  property over ticks is over the code's deadlines and not its polling interval.
* Which helper a session's APPLY reaches. `ensure_helper_started` with
  `force_restart` keeps the live helper when it accepts the fast ping over the
  connection the host has; the usual case is a launch within the disarm grace,
  whose DISARM has cleared `g_restore_expected`. `ApplyInternal` then sends the
  APPLY to that helper (`HandleApply`), with the worker, the deferred command,
  the lease, the guard and the heartbeat it has. When the ping is refused, or
  there is no connection, the helper is killed and a new one starts with the
  files only (`Restarted`, `BeginApply`). When a restore is expected of a live
  helper no restart is forced and it is always kept. Whether a fast ping is
  accepted is a choice, and so is whether the APPLY gets through.
* A DISARM goes only over the connection there is; otherwise it fails and, soon
  after a REVERT, kills the helper. It is skipped once the grace is over, and may be
  skipped when another was attempted in the same tick: `kDisarmRetryThrottle`
  (250 ms) is shorter than the grace, so it is a part of a tick.
* A ping that a request sends before it, fast or not, counts as contact with the
  host (`Observe`), a DISARM does not.
* Left out: a helper that cannot be started at all (no binary, the cooldown after
  failed starts); the host's reset of a connection whose pings have failed, other
  than at the restart (a connection ends when the host dies or the heartbeat runs
  out); a REVERT that the host cannot deliver; restore_on_disconnect off
  (in `DisplayHelper`); the staged reset (in `DisplayHelper`); golden health.

The client: a step is what a thread does under `write_mutex` and
`connection_mutex`, or one turn of a wait loop; deadlines may pass at any point.
Frames of the current connection only are kept, since a retired connection's
reader notices before it takes another. The peer answers out of order (v2) or in
order and without names (legacy). `session.overdue` marks a connection whose
retirement itself ran out of its 250 ms.

The session history: `enqueue` is one step under `g_queue_mutex`; a batch
commits or fails as a whole. Sequence numbers are counted per session, which
keeps every comparison the code makes. Which rows retention removes is a choice.

The sessions: a section under `stream_lifecycle_mutex` that waits for nothing
else is one step; the startup worker, which waits for the broadcast lock inside
it, is seen to hold it (`rtsp.gate`). A thread that joins a session waits for
its control end. A launch makes at most one connection, and its reservation is
in the step of its ANNOUNCE. A launch that is overdue may still be pending until
its timer has run. Left out: `preserve_deferred_launch`, `terminate_on_pause`
and the paused-display timer, the frame limiter, encoder probes, exceptions.

The watchdog: a step of `start_watchdog` or `stop_watchdog` is one section under
`g_watchdog_mutex`; the join is a state of its own, in which others run. All
sections under the lifecycle gate are one thread's, because the gate excludes the
others; `live` is `stream_is_active_or_pending`, which all of them read without
it. A display operation (APPLY, REVERT) is one step under
`pending_apply_execution_mutex`, except the deferred APPLY, which holds the mutex
over several. Times are order only: the delay before the first and each further
attempt may have passed or not. Left out: the worker's pings (they are commands
of `HelperClient`); the reset of the connection at the end of a stop; WebRTC's
reservation of a session before its launch; the callers of
`apply_pending_if_ready` with a cancellation predicate (`config.cpp`), and the
flag that lets only the first cold start be deferred. The branches for a worker
that calls `stop_watchdog` itself are left out because the worker reads
`current_app_id` and no longer `running`, so nothing reaches them;
`start_watchdog`'s reaping branch is then reachable only after a failed join.

The state files: every read-modify-write is one section under `state_mutex`; a
replacement happens or does not (`MoveFileEx`, `rename`), and the host may die
before or after it. A version number stands for a value of the key
`api_tokens`; the files begin in any combination of missing, malformed, without
and with the key.

## 3. Properties

| property | kind | says |
|---|---|---|
| `TypeOK` | invariant | types |
| `MutationFence` | invariant | at most one task that may touch the desktop is queued, running or unhandled, and the fence names exactly that one |
| `DurableGuard` | invariant | a changed desktop has its scheduled restore task |
| `LeaseHeld` | invariant | and its recovery lease, whatever was cancelled or superseded |
| `ExitLeavesNothing` | invariant | the helper exits with nothing owed, no worker, no live client's command unread |
| `ExitWaitsForReset` | invariant | a helper held back for a RESET has one to wait for |
| `DeferredHasBarrier` | invariant | a deferred command waits for something |
| `RetryAlive` | invariant | a restore keeps its lease and, between attempts, its scheduler |
| `SessionHasOwner`, `RestoreHasOwner` | invariant | a session being brought up, and a restore, have a worker or a check |
| `GateShowsRequest` | action | the session gate opens only on a desktop that shows that request |
| `ConfirmedStays` | action | a session confirmed to its client is not retracted |
| `OnlyLiveClientApplies` | action | an APPLY begins only while its connection lives |
| `ExplicitRestorePursued` | action | a client's REVERT stands until a client's APPLY or DISARM |
| `FenceLifted`, `ApplyConcludes`, `ApplyAnswered` | liveness | fences open, APPLYs end, their clients are answered |
| `RestoreProperties!TypeOK` | invariant | types of the restore; in particular no snapshot ever holds the virtual display |
| `BaselineKept` | invariant | from the APPLY that captured it until a restore is confirmed or given up, the user's layout is the Current snapshot |
| `BaselineNeverOverwritten` | action | the same without the exception for a restore that was given up: violated (section 6) |
| `FallbacksBounded` | invariant | golden-first discards a confirmed session restore at most twice in a row |
| `AttemptsSpaced` | action | polling keeps the backoff its failures have earned, and stops with the window |
| `HeartbeatFair` | action | a connection is retired for silence only after the miss and recovery windows without a ping |
| `PromiseKept` | refinement | nothing is captured while a restore is pending, and no snapshot is dropped but for one that was just confirmed and is kept |
| `ReplyIsOwn` | invariant | a reply is handed only to the request it answers, with either helper |
| `NoOvertaking` | invariant | a command begun earlier is never written after a newer one |
| `EndIsBarrier` | invariant | once a session's end is written, nothing accepted before it is still under way |
| `AcceptedIsWritten` | invariant | an accepted command is written before the writer is gone |
| `DeletedIsGone` | invariant | a deletion that was reported is in the database |
| `RuntimeHasOwner` | invariant | a prepared display has an owner who will let it go |
| `OwnedIsArmed` | invariant | an owner finds the display prepared |
| `TerminationHolds` | invariant | nothing a cancel found is up once it has answered |
| `WorkerIsOwned` | invariant | a watchdog thread has exactly one owner that will join it, and there is never a second one |
| `StreamIsWatched` | invariant | the stop of an earlier stream does not take down a stream's watchdog |
| `DescriptorKept` | invariant | nor does its cleanup erase the display session a newer launch has published |
| `ShutdownIsComplete` | invariant | main's stop leaves no watchdog thread |
| `IdleIsQuiet` | invariant | when all is over no APPLY waits, no watchdog runs, no descriptor is left |
| `TokensSurvive` | invariant | the tokens saved last are on disk wherever the host dies, and no older ones come back |

## 4. Runs

The runs of `MCDisplayHelper` differ in the bounds on what the environment does,
written in each `.cfg`. Bounds not named are 0. The counts are per behaviour: the
actors' interleavings within them are exhaustive.

| run | bounds | expected | why these bounds |
|---|---|---|---|
| `Session` | 2 APPLY, 1 REVERT, 1 DISARM, 1 RESET, 1 capture; 1 attempt | passes | every pair of intents meets behind every phase of a worker, and a RESET can be queued with them: the smallest instance in which an intent is coalesced away and a later one superseded |
| `Disconnect` | 1 APPLY (restored or paused on disconnect), 1 REVERT, 1 capture, 2 breaks, 1 crash | passes | two breaks give a disconnect during the settlement of an earlier one; a crash with and without relaunch in restore mode |
| `VirtualDisplay` | 1 virtual APPLY (HDR or not), 1 REVERT, 1 refresh, 1 event, 2 attempts, 2 device ids, restore task may fail | passes | an event at every point of the attempt, retry, HDR fallback and refresh |
| `Liveness` | 2 APPLY (desktop, or HDR with the capture gate), 1 REVERT, 2 attempts; `FairSpec` | passes | the longest retry and settling ladder of the code, entered twice |
| `SettlementStranded`, `DisarmRace`, `EventDropsRevert`, `StaleResetLatch`, `SessionRetracted` | the smallest that show the finding | violation | see section 6 |
| `Restore` | 2 incidents (a launch, a crash of host or helper, an unplugged monitor); 2 monitors, one removable, a virtual display; backoff <<0, 1>>, all windows and graces 1 tick, but the optional and the miss window of the heartbeat 0; both golden settings; every file write may fail | passes | two launches give a session over the restore of another, a launch and a fault give every failure within one session; the window that a display event opens holds a first attempt, a spaced one and one that comes too late; three golden fallbacks fit into one window because the first backoff is 0; the recovery window alone decides when a silent host is given up. Joining clients, pings, exports and display events are not bounded. (With the heartbeat's windows at 1 and the primary one at 2 the run has 4.0 million states and shows the same.) |
| `BaselineLost` | as `Restore` | violation | section 6 |
| `Components` | client: 2 threads, 3 commands, 2 connections. History: 1 session, lanes of 3, 2 and 2, 2 samples, 1 stop and restart. Sessions: 2 Moonlight clients and a browser of which 2 come, 1 disruption (application exit, cancel, shutdown). Watchdog: 2 launches, 1 hotkey, 1 system error, 2 attempts. Files: 2 saves, 2 crashes, 2 I/O faults | passes | three commands are a waiter, its successor and a third between the two; the lanes fill and are drained in more than one batch; two owners give every hand-over from one kind to another, each of which may be disrupted at every point (two disruptions, a cancel that meets an exit or the shutdown, give 2.6 million states and show the same); two launches are an earlier stream and a newer one (three with two hotkeys, 4.1 million states, show the same); two crashes interrupt a migration and its repetition |

`Components` chooses one component at the start and lets the others rest: they
share no state, so that their product would show nothing more. The two clients,
and the two calling threads, are symmetric: no definition tells them apart, and
the run checks invariants only. Its deadlock
check is off because commands, sessions and history come to an end, and because
of the two cycles described in section 6.

`MaxApplyAttempts` is 3 in the code. The counter is compared only with the
bound, so 2 already has a first, a middle and a last attempt in one behaviour.
`CHECK_DEADLOCK FALSE` because the helper may exit, and nothing need relaunch it.

**Fairness** (`FairSpec`): weak fairness of handling a completion, of the worker
thread's steps, of the timer thread and of noticing a broken connection. The
code's loops run for ever on threads of their own, each waits on a condition
variable with a timeout or a notification, and every operation is bounded
(attempt counts, finite sleeps), so a step that stays enabled is taken. Nothing
is assumed of the client, of display events, of the grace timer or of crashes.
Fairness on `HandleMail` is stated of `TakeMail` (the consumption), because
which answer the surroundings give is not the scheduler's to choose.

## 5. Proofs

`DisplayHelperProofs` proves

    THEOREM TypeCorrect == Spec => []TypeOK

for all values of the constants that satisfy the named assumptions of
`DisplayHelperTypes` and `DisplayHelper`: positive `MaxApplyAttempts` and
`MaxDevice`, natural bounds, request shapes and outcome sets within their types,
and `MaxResets < DrainBound`.

*Argument.* `TypeOK` is inductive as stated; it includes `left.apply <=
MaxApplies`, without which `ClientApply` could number a request 0. The memory
is a record of over forty fields, too wide to prove `h' \in Helper` in one step
of an SMT solver, so membership is split into *is a record with these fields*
(`IsRecord`) and *each field has its type* (`Typed`), with one lemma that an
EXCEPT keeps the first. Then one lemma per operator of `DisplayStateMachine`
says that it maps a well-formed memory to a well-formed one, in the order of the
calls, so that a handler's lemma cites those of what it calls; `Drain` follows
from three rounds of `DrainOne`. The induction step has one case per action.

The same module proves, from the same assumptions,

    THEOREM RestoreStaysAlive == Spec => []RetryAlive

*Argument.* `RetryAlive` says that a restore has its lease and that the event
loop has its scheduler. It is not inductive: a recovery that fails goes to the
event loop with the lease and the scheduler it finds, and a REVERT without a
snapshot clears both without leaving the event loop. The strengthening
`RestoreKept` adds three facts. A restore in progress has a snapshot, so no
REVERT gives it up for want of one. Nobody works while the state is EventLoop, so
a DISARM there is carried out at once instead of parking, with the scheduler
off, behind a worker. And a recovery worker whose generation is current has its
lease, its snapshot and its scheduler: every step that takes one of them away
cancels the worker in the same step, so that its completion is stale and never
enters the event loop. `RestoreKept` held as an invariant of the instances of
Session, Disconnect and VirtualDisplay before it was proved.

`RestoreKept` reads six members of the memory. An operator that assigns only
other members keeps it by one lemma (`UpdateSound`). The operators that start or
end a restore pass through memories where it does not hold; for those the lemmas
carry `Unattended` (well-formed, nobody at work), from which the final transition
restores `RestoreKept`. The theorem uses `TypeCorrect` for the types of commands
and of the deferred queue.

`DisplayHelperFenceProofs` proves, from the same assumptions,

    THEOREM FenceHolds         == Spec => []MutationFence
    THEOREM GateOpensOnRequest == Spec => GateShowsRequest

*Argument.* Both depend on where a task can be: in the dispatcher's queue, on a
settling timer, on the worker thread, or in the mailbox as a completion that nobody has
handled. `Once` and `Nowhere` say of a set of tasks that these four lanes hold exactly
one of it, or none, and a few lemmas say what an append, a removal and a move between
lanes do to that. `FenceKept` then gives the memory one of three modes. *Quiet*:
there is no mutation and no verification of the current generation in any lane, and
the fence is down. *Manned*: exactly one mutation is in the lanes, and the fence names
its kind and generation; a refresh-rate change is one only while a session rests.
*Checked*: exactly one verification of the current generation is in the lanes, for the
current request, and there is no worker. In every mode no verification carries a
generation to come, so that an increment makes all of them stale at once, and no success
of the current generation waits in the mailbox while the desktop shows something else.

A handler receives one of the modes, passes through memories that nothing else acts on,
and leaves one of them. There is one lemma per operator of `DisplayStateMachine`, in
the order of the calls, as for `TypeCorrect`; within a handler two more modes appear,
quiet with the fence still up and checked before the state is set. `FencedMutations`
turns the mode into `MutationFence`, which counts mutations over the lanes; for
`GateShowsRequest`, the only step that opens a gate is the completion of the current
verification, and `Misleading` says what it has seen. A mode held in every state of the
Session and VirtualDisplay instances before the proof.

`DisplayHelperLeaseProofs` proves, from the same assumptions,

    THEOREM LeaseIsHeld     == Spec => [](left.crash = MaxCrashes => LeaseHeld)
    THEOREM GuardIsDurable  == ASSUME TaskOutcomes = {TRUE}
                               PROVE  Spec => [](left.crash = MaxCrashes => DurableGuard)
    THEOREM LiveClientsOnly == Spec => OnlyLiveClientApplies

The first two end at the first death of the helper (`left.crash` counts down from
`MaxCrashes`), because the program does not promise more: a relaunched helper knows
nothing of its predecessor's lease (`state_machine.cpp:533`, section 6). The second is
about a helper whose `create_restore_task` succeeds; where it fails the code goes on
without the task, deliberately.

*Argument.* While an APPLY is under way the desktop may be changed and the lease not yet
taken, or taken and the desktop not yet changed; what decides is what the APPLY itself
knows (`changed`, `armed`, `mutated`, and the `owed` that it started from), and a
cancelled or superseded APPLY still acts on that knowledge when it lands. `FirstLease`
says how this knowledge relates to the memory: the restore task is there whenever
something is owed; the lease is there whenever no APPLY is under way, or the one that is
has not changed the desktop; and an APPLY that has armed has the task. There is at most
one such APPLY, which is what `FenceKept` is needed for (`FencedApplies`). A worker that
returns hands its knowledge to the completion, whose handler takes the lease or gives it
up (`Settles`). `LiveClientsOnly` rests on `Linked`: an APPLY that waits in the deferred
queue, and the request that a virtual display's recreation repeats, come from a connection that
is up or was once, so that the test for a stale epoch finds those whose connection is gone.

Of over forty members these facts read nine, so the lemmas compare the memory before an operator
with the one after it: `Secures` says that the lease is at least as strong and nothing
was deferred or begun, and is what almost every operator does; `Eases` allows what a
command may do besides. `LeaseKept` held on instances with each kind of
command, with breaks and with a crash before it was proved.

The same module proves two theorems about what waits, from the same assumptions,

    THEOREM DeferredWaits == Spec => [](left.break = MaxBreaks => DeferredHasBarrier)
    THEOREM ExitHasReset  == Spec => [](left.break = MaxBreaks => ExitWaitsForReset)

They end where a connection first breaks (`left.break` counts down from `MaxBreaks`),
because neither holds beyond that: the settlement of a broken connection can end with
commands still deferred and no drain to follow, and a deferred RESET whose connection died
leaves the exit latch behind (section 6). Everything else may happen any number of times
before: commands of every kind, display events, recreated displays, crashes and relaunches.

*Argument.* `OrderKept` has three parts. `Placid`: no settlement of a disconnect is under
way in any lane, and every deferred RESET is the present connection's, so a drain carries
it out and never drops it. `Short`: the queue holds at most one intent, since a newer one
replaces it, and no more RESETs than were sent; so the rounds of one drain empty it, unless
a handler in between has started a worker or another reset. `Ordered`: a queue that is not
empty has a barrier (a worker, a reset under way, or the exit), and the exit latch is only
up while a reset is. A handler then does one of two things. It leaves the queue
alone and lowers no barrier (`Upholds`), which is one lemma per operator; or it lowers one and
calls the drain before it returns. `OrderKept` held on four instances, of up to 4.4
million states, before it was proved: two sessions, two RESETs, a virtual display with an
event and a crash, and a break.

`RestoreProofs` is about the whole of `RestoreHost`: the restore engine, the snapshot files, both clocks, the host, the user's desk, and
the crashes of either process. It proves

    THEOREM RestoreIsTyped      == Spec => []TypeOK
    THEOREM FallbacksAreBounded == Spec => []FallbacksBounded
    THEOREM BaselineIsKept      == Spec => []BaselineKept
    THEOREM HeartbeatIsFair     == Spec => HeartbeatFair
    THEOREM AttemptsAreSpaced   == Spec => AttemptsSpaced
    THEOREM EngineKeepsPromise  == Spec => PromiseKept

from `TimingAssumption` and the assumptions of `SnapshotStore`, `RestoreEngine`
and `RestoreHost`. `TimingAssumption` asks two things of the clocks beyond their
types, both of which the code fixes in `runtime_support.h:292`: the backoff profile
does not decrease (0, 1, 3, 5, 10, 15, 20, 30 seconds), and an event's window (30 s)
is no longer than the primary one (2 min). Without the first a profile could ask
for a shorter pause after more failures; without the second a display event could
extend the window beyond the bound that `AttemptsSpaced` states.

*Argument.* None of the five safety properties is inductive. `RestoreInv` is the
conjunction of the following parts. It held as an invariant of the instance of the
Restore run before it was proved.

* `Discipline`: what relates the worker to the helper that started it. The mode
  names what the worker does (`WorkerInMode`); the snapshot it tries is still in its
  file (`LoadedIsKept`), for captures and exports are refused or parked while it
  runs; a command waits exactly while the worker it has cancelled is there
  (`QueueCancels`); an APPLY waits only for the connection it came over
  (`ApplyIsCurrent`).
* `WastedCounted`: the restores that golden-first has thrown away are at most the
  helper's own counter. The exception is an attempt that is not golden-first, during
  which the counter may already be reset; it cannot throw a restore away.
* `HeardCounted`: the silence measured by the heartbeat was silence, and a deadline
  it has set is as far away as the recovery window then was.
* `PausesCounted`: the backoff index is past the failures in a row, the pause that
  it asks for has passed or is still to be waited for, and the window counts from the
  last prompt. The scheduler saturates at the end of the profile, which is why the
  statement is about `Most(failed + 1, Len(BackoffProfile))`.
* `BaselineSafe`: `BaselineKept`; a worker that has confirmed owes nothing; and while
  the host is about to capture, a restore that is owed and was not given up is pending
  in the helper. The last is what makes the helper refuse the capture.

The steps are many and most of them disturb little, so the proof classifies them
once: each handler's outcome is one of a few (`Stays`, `Rests`, `Lends`, `Owes`), and
each action of `Next` implies one of twelve *moves*, predicates that say what a step
may do to the five conjuncts. `StepMoves` is that classification; then one lemma per
conjunct shows that every move preserves it. The refinement uses the same
moves: each of them is a step of `RestorePromise` under the mapping of
`RestoreProperties`, or leaves `Phase` and `saved` as they are.

`HelperWatchdogProofs` proves, from `WatchdogAssumption`,

    THEOREM WorkersAreOwned    == WatchdogSpec => []WorkerIsOwned
    THEOREM ShutdownCompletes  == WatchdogSpec => []ShutdownIsComplete
    THEOREM StreamsAreWatched  == WatchdogSpec => []StreamIsWatched
    THEOREM DescriptorsAreKept == WatchdogSpec => []DescriptorKept
    THEOREM IdleIsFoundQuiet   == WatchdogSpec => []IdleIsQuiet

*Argument.* `OneOwner` is the protocol of the mutex: a caller that joins has set
`reaping` and emptied the global thread, and no two callers join; so the owner of a
worker is unique and a new worker is created only where there is none. That is not
enough for the shutdown, for which `CallersWait` and `MainLast` say who can be in a
call at all: only the start of a session starts a watchdog, main begins to stop when
nothing streams, and its stop is forced, so that it waits while another thread reaps
instead of returning.

The other three have one invariant, `StreamInv`, since what keeps the watchdog of a
stream also keeps its descriptor. A publication takes the newest generation
(`Numbers`), and while a session that no hotkey has disturbed is shown, neither a watchdog
that does not run nor a caller that joins has that generation (`ShownIsNew`). So the
cleanup of such a caller leaves the descriptor, and the stop of such a watchdog
finds itself out of date (`StopsApart`: a stop that acts meets no session in progress
but one that has launched and shows nothing). When the session ends the relation turns
round, and only while no system_error has occurred (`EndSound`): the watchdog has
the descriptor's generation, or is about to adopt it (`OwnGeneration`), so that its own
stop is *not* out of date, and what is shown still has a running watchdog or a joiner of
its generation to clear it (`CleanupComes`). Two other threads could disturb this end. The
control thread, whose deferred APPLY publishes late, is executing only where no session
is at its end, because the end waits for the execution mutex (`ClaimsSound`,
`ExecutesWatched`); and main, which stops while the gate is still in its own stop,
finds nothing shown (`MainFindsNothing`) and joins only a thread that the gate has
kept or is waiting for (`MainJoins`). `StreamInv` held in all 318,828 and 7,776,276
states of two instances, the second with three launches, two hotkeys and two
system_errors, before it was proved.

`HelperClientProofs` proves, from `ClientAssumption` (a finite set of threads, none of
which is the marker for *no reader*),

    THEOREM RepliesAreOwn    == ClientSpec => []ReplyIsOwn
    THEOREM NothingOvertakes == ClientSpec => []NoOvertaking

*Argument.* A reply of helper v2 names its request; what could be misread is a reply
that does not: one of the legacy helper, or to a REFRESH_RATE that was sent without an
id. `NamelessIsExpected` says that, on a connection whose retirement has not run out of
time, there is at most one such reply or request for one, and that the thread which
wrote the request is the one that holds `response_mutex`. It is kept because a reader
lets go only with the reply in its hands, with the connection retired, or when no
nameless reply can be on its way (`WhoIsExpected`). The last case is the delicate one: an
APPLY that has been superseded leaves the connection to its successor. `AppliesPend` says
why that is harmless: as long as such an APPLY might be answered by the legacy helper
it is marked in `untagged_response_pending`, and the command that supersedes it retires
the connection in the same step. Two facts make it inductive. An APPLY that nothing has
superseded is the only one (`OneApply`), so it is the first to learn the protocol and
no other one's assumption turns stale (`Known`); and the reader is unique (`OneReader`).
`NamelessMatches` and `NamedMatchIsOwn` are then the two halves of the matching: the
reader takes a nameless reply, which is its own, and a named one only with its own id.
`NoOvertaking` follows because `send_serialized` writes only for the newest generation.

`HostStorageProofs` proves, from `StateFilesAssumption`,

    THEOREM TokensAreKept == StateFilesSpec => []TokensSurvive

*Argument.* `TokensSurvive` speaks of a host that is at rest or has just died; the
migration passes through states where the tokens are in memory, in one file or in
both. `TokensInv` adds what holds at each of its stages: while the new file is being
written the old one has them (`AddingIsSound`), the old one is erased only when the
new one has them (`ErasingIsSound`), and afterwards the old file is no longer needed
(`OldIsSpent`); a file that cannot be parsed counts as one without tokens
(`UnreadableIsEmpty`).

The same module proves, from `HistoryAssumption`,

    THEOREM AcceptedAreWritten == HistorySpec => []AcceptedIsWritten

*Argument.* What the property lacks to be inductive is the order of a stop
(`WriterLeavesLast`): `g_running` falls before the writer leaves its loop and rises only
when the database is opened again, and `enqueue` tests it in its critical section. So
nothing is accepted behind the final flush, and the flush ends only with empty lanes.

`HostSessionsProofs` proves, from `HostSessionsAssumption` (finite sets of clients and
browsers, without the marker for *nobody*),

    THEOREM RuntimeIsOwned     == HostSessionsSpec => []RuntimeHasOwner
    THEOREM OwnersFindItArmed  == HostSessionsSpec => []OwnedIsArmed
    THEOREM TerminationIsFinal == HostSessionsSpec => []TerminationHolds

*Argument.* The first two are one argument. A session that is listed, or that a
thread has taken for joining, is among those that run (`JoinedByOne`: each is taken
by at most one thread, which has removed it from the list first), so
`has_shared_runtime_owner` is equivalent to the shorter `Owned`. Then a step does
one of three things (`RuntimeMoves`): it arms the runtime and is itself an owner's;
it keeps the runtime, brings nobody who needs it, and leaves an owner where there
was one, or holds the gate; or it finalizes. `RuntimeFollows` derives both
properties from that, and each action is shown to be one of the three. A capture is
an owner that must find the runtime armed too (`CaptureIsArmed`): a second browser
joins it without arming. For a session to appear among the running ones only once,
its launch is announced once and is in the startup pool at most once (`StartsOnce`).
For `TerminationHolds`, `DoomedIsGone` follows what a cancel has found: not waiting
or starting once the launches are cancelled, which happens under the gate and so
while the worker starts nothing; then not listed either, once the sessions are
collected. The worker starts only what is still pending, and a client of the model
launches once, so neither comes back. TLC checked `HostInv` on the first 10 million
states of an instance with two clients and a browser before it was proved.

*Only model-checked.* Liveness, and the ENABLED that fairness expands to, are beyond
the prover: `FenceLifted`, `ApplyConcludes`, `ApplyAnswered`. Other safety properties are left to TLC for reasons of their own.

* `RestoreHasOwner` and `SessionHasOwner`
  are not true of the program in general: where connections break, or where DISARM races
  a recovery, the code strands what they speak of, which is what the findings
  `SettlementStranded` and `DisarmRace` show. They are checked on runs
  whose bounds exclude that, so there is no theorem over every bound to prove.
  `ExitWaitsForReset` and `DeferredHasBarrier` after a break are in the same position
  (`StaleResetLatch`); before it they are proved.
  `ConfirmedStays` and `ExplicitRestorePursued` are in the same position because of
  `SessionRetracted` and `EventDropsRevert`.
* `ExitLeavesNothing` is not true in general either: the exit latch that a RESET of a dead
  connection leaves behind (`StaleResetLatch`) makes the next RESET end the
  helper in the middle of a later session (TLC: a break, two RESETs and a session,
  27 states; the restore task is left behind, as `GuardIsDurable` says). The runs that
  check it have no break or no RESET.
* `LeaseHeld` and `DurableGuard` after a crash: see the theorems above for what is true of
  them, and section 6 for what is not.
* `EndIsBarrier` and `DeletedIsGone` compare the database with a
  fold of the accepted events over a queue of any length, an induction over data.

## 6. Findings

Six runs show behaviour that contradicts what the code's own comments say; each
is described, with the quotation, in `PROJECT.json`.

* `SettlementStranded`: a superseded APPLY whose connection breaks leaves the
  state InProgress with nobody to finish it, although the disconnect settlement
  is waiting for it (`state_machine.cpp:676`).
* `DisarmRace`: DISARM between a recovery's cancellation test and its
  announcement strands the machine in Recovery (`state_machine.cpp:911`).
* `EventDropsRevert`: a display event displaces a client's deferred REVERT
  (`state_machine.cpp:829`).
* `StaleResetLatch`: a deferred RESET whose connection died leaves the exit
  latch set with nothing to clear it (`state_machine.cpp:1588`).
* `SessionRetracted`: an event's restart APPLY reuses the request id and may
  retract a confirmed session (`state_machine.cpp:1236`).
* `BaselineLost`: a REVERT waiting behind an APPLY is displaced by the DISARM of
  the next launch, whose SNAPSHOT_CURRENT then overwrites the user's layout with
  the session's (`state_machine.cpp:984`). `BaselineKept`, which passes, is the
  same promise for restores that nobody gave up.

The properties of the first five are also *passing* properties of other runs,
whose bounds exclude the scenario. The passing runs show what does hold.

Other behaviours seen while bounding the runs, which no comment contradicts:

* `DurableGuard` needs `MaxApplies = 1` when there is a crash: a relaunched
  helper knows nothing of its predecessor's lease, and an APPLY that is
  cancelled before it mutates deletes the restore task that still guards the
  earlier session (`state_machine.cpp:533`).
* With breaks, a RESET of a live connection can remain deferred with no barrier
  in front of it after a disconnect settlement ends in a state from which no
  drain follows, until the next completion that drains.
* A disconnect's own REVERT can be replaced by a virtual-display restart APPLY
  that belongs to the dead connection, and is dropped with it.
* A client's REVERT that supersedes a running recovery and then dies with its
  connection leaves Recovery without a worker.
* A disconnect's restore whose worker has been cancelled by a new client's
  APPLY is "joined" by the REVERT of that client's own disconnect
  (`state_machine.cpp:836`); the stale completion then drains an APPLY of a dead
  connection, and Recovery is left without a worker.
* `should_skip_golden` keeps golden away for sixty seconds after a session
  restore, also between the attempts of one golden-first request, so that the
  fallbacks are counted although golden was not tried again.
* A client with a known legacy helper whose bounded retirement misses its 250 ms
  keeps the connection, and the late reply meets the next APPLY; `ReplyIsOwn`
  excludes exactly that case (`session.overdue`).
* A stop that is forced passes no generation: it marks the teardown complete and
  leaves a descriptor that a failed REVERT has left
  (`display_helper_integration.cpp:2872`).
* The watchdog of a paused session survives both its stream and its application
  when the resumed stream never started the platform (nobody logged in, or the
  launch expired), since only a started platform is stopped, or when
  `terminate` could not send its REVERT; `IdleIsQuiet` excludes that case
  (`gate.kept`). It ends with the process.
* A deferred APPLY whose in-process fallback finds the display API unavailable is
  queued anew with its attempts at 0, so that the limit of attempts is not reached
  (`display_helper_integration.cpp:2001`).
* The migration erases its keys from the old state file also when the write of the
  new one has failed (`state_storage.cpp:825`), and `save_state` rebuilds the
  root of the old file, so that after a migration that could not read the new file
  the next pairing drops the keys from the old one. `TokensSurvive` excludes
  faults there (`storage.gap`) and covers crashes in all places.
* The session history resolves only the deletes in front of the command that
  failed in a batch; the others end in the five-second timeout of their caller.

Behaviours of `HostSessions` that no property states and TLC reaches when asked:

* *The gate cycle.* `session::start` takes the broadcast lock while it holds the
  lifecycle gate; `end_broadcast` runs under the broadcast lock and joins the
  control thread; the control thread waits for the gate (`session_clear`, or
  `proc_t::running` that ends the application). All three wait for ever.
* *The abandoned completion.* `rtsp.cpp:2025` drains the startup pool so that a
  posted completion "can run on the RTSP loop instead of being abandoned", and
  stops the io_context in the next statement; a completion posted meanwhile is
  abandoned, `startup_tasks` stays above zero and the RTSP thread never leaves.
* A session that starts on a broadcast whose control thread has already exited
  (the application ended) never gets its control end, and its join hangs.
* `graceful_stop` raises the control end itself, so that a session may be joined
  and gone while the control server still lists it.
* The comment in `nvhttp.cpp:4087` calls the termination of sessions synchronous;
  a session that another thread's `clear(false)` has taken off the list is still
  being joined there when `cancel` answers. `TerminationHolds` is stated of the
  list for that reason.

## 7. Plan

1. *(done)* The helper process: types, handlers, threads, runs, the theorems
   `TypeCorrect` and `RestoreStaysAlive`.
2. *(done)* The restore with its snapshots and clocks, the host's sequences
   around it, and the refinement of `RestorePromise`.
3. *(done)* The client of the helper's pipe, its watchdog and the deferred APPLY,
   the session history, the sessions, the state files.
4. *(done)* The theorems of the restore with its refinement, of the watchdog's
   ownership and shutdown, of the tokens, of the client's replies and order, and of
   the sessions' runtime and termination.
5. *(done)* The theorems of the fence and of the session gate, and of the watchdog's
   streams, descriptors and idleness.
6. *(done)* The theorems of the lease, of its restore task and of the deferred commands'
   connections, and of the session history's final flush; of the deferred queue and the
   exit latch, for a helper whose connection holds.
7. *(open)* The virtual display's recovery monitors as the next component (section 8);
   `RestoreHasOwner` for a helper whose connection holds and that is sent no DISARM,
   `SessionHasOwner` and `ExitLeavesNothing` for one whose connection holds: TLC finds
   them true there, and the last two need the order of the checks in the lanes.

## 8. Not modelled

Of the repository's lines the models cover the part with state that several
actors share; the greater part is one of the following.

*Effects of a system or a device, with no protocol of the program's own.* Video
capture and encoding (`video.cpp`, `nvenc/`, `amf/`, the Windows capture back
ends), audio, input, the Linux and macOS platforms, the Windows display back end
of the helper (`win_*.cpp`). What these do is decided by drivers and APIs that a
model could only guess at; where the modelled components depend on them, the
outcomes they may return are a choice of the environment (a capture that fails,
a layout that is rejected, a monitor that is gone).

*Driver control.* `virtual_display_sudovda.cpp` and `virtual_display_sunshine.cpp`
are loops over driver handles, registry entries and device enumeration. The
helper sees the device id that `vdd` stands for, the sessions see that a display
was created. Their recovery monitors are threads of their own and would be the
next component to model.

*Numeric and byte-level code.* Packetisation, forward error correction,
encryption, rate control, statistics, pairing cryptography, JSON and snapshot
encodings: functions of their input, better served by tests with vectors. What a
conversion decides (which displays a snapshot keeps) is in `SnapshotStore`.

*Third-party protocols.* WebRTC negotiation and media, RTSP and ENet parsing, the
Playnite, RTSS and NVIDIA control panel integrations, UPnP. Only who owns the
shared capture, and when it ends, is modelled of WebRTC.

*Request and response over other components.* The web UI's configuration, file and
application APIs (`confighttp.cpp`), pairing and the certificate store
(`nvhttp.cpp`), the check of a token against its scopes, session tokens,
configuration parsing, logging, updates, the tray, the web UI itself.

*Superseded code.* `tools/display_settings_helper.cpp` is the previous helper, kept
as a fallback; `HelperClient` models how the host talks to it. The classes in
`display_helper_session_deferral.cpp` and `display_helper_watchdog.cpp` have no
user.

*Parts of modelled components.* Section 2.2 lists what each module leaves out. The
launching of applications (commands, environment, detached processes, deferred
launches), the golden snapshot's health marker, `event_t`, `queue_t` and the task
pool appear only through their effects.

*Outside the prover's reach.* Liveness and refinement of fair behaviours, ENABLED,
and facts about recursively defined data stay with TLC.
