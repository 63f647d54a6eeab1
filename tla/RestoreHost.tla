-------------------------------- MODULE RestoreHost --------------------------------
(* The host's side of a restore (display_helper_integration.cpp and the launch sequence  *)
(* of nvhttp.cpp) composed with RestoreEngine, and the machine around both: monitors are *)
(* unplugged, the user rearranges the desktop, processes die, time passes.               *)
EXTENDS RestoreEngine

CONSTANTS
    UserLayouts,     \* the layouts a user arranges by hand
    Removable,       \* the physical displays that may be unplugged
    DisarmGrace,     \* kDisarmRestoreGrace
    TerminateWindow, \* how long after a REVERT an undeliverable DISARM kills the helper
    MaxIncidents     \* bound: sessions launched, processes that die, monitors unplugged

ASSUME HostAssumption ==
    /\ UserLayouts \subseteq (SUBSET Displays) \ {{}} /\ Removable \subseteq Displays
    /\ {DisarmGrace, TerminateWindow, MaxIncidents} \subseteq Nat
    /\ DisarmGrace <= TerminateWindow

VARIABLES
    host,    \* the host process
    history  \* what has happened, for the properties only

vars == <<files, desk, present, helper, worker, host, history>>

(* pc: where the host is in a launch; expected: g_restore_expected; since: ticks since   *)
(* g_last_revert_us; tried: a DISARM was attempted since the last tick                    *)
(* (g_last_disarm_attempt_us); golden_first: the configuration.                          *)
HostStates == [pc : {"idle", "disarm", "snapshot", "apply", "streaming", "down"},
               expected : BOOLEAN, since : 0..TerminateWindow, tried : BOOLEAN,
               golden_first : BOOLEAN]

(* ensure_helper_started: a running helper is reused, over its connection or a new one,   *)
(* once it has answered a ping; otherwise a new process starts with nothing but the      *)
(* files.  A forced restart kills the helper only when the fast ping over the connection  *)
(* there is was refused: CanAcceptFastPing is when it may be accepted.                    *)
Connected(h) == IF h.connected THEN h ELSE [h EXCEPT !.connected = TRUE, !.heartbeat = ArmHeartbeat]
Pinged(h) == [h EXCEPT !.heartbeat = RecordPing(@)]
Restarted == Connected(Fresh)
Started == IF Running(helper) THEN Pinged(Connected(helper)) ELSE Restarted
CanAcceptFastPing == Running(helper) /\ helper.connected

RestoreExpected == host.expected /\ Running(helper)

--------------------------------------------------------------------------------
(* A launch: DISARM, SNAPSHOT_CURRENT, APPLY.                                            *)

(* disarm_helper_restore_if_running: the DISARM goes over the connection there is; one    *)
(* that does not get through kills the helper, early on.  None is sent when the grace is  *)
(* over, nor within kDisarmRetryThrottle, a part of a tick, of the last attempt.           *)
GraceOver == host.expected /\ host.since >= DisarmGrace
Disarming(next) ==
    \/ /\ Running(helper) /\ ~GraceOver /\ helper.connected
       /\ HandleDisarm(helper)
       /\ host' = [host EXCEPT !.pc = next, !.expected = FALSE, !.tried = TRUE]
    \/ /\ Running(helper) /\ ~GraceOver
       /\ helper' = (IF host.since < TerminateWindow THEN NotRunning ELSE helper)
       /\ worker' = (IF host.since < TerminateWindow THEN Idle ELSE worker)
       /\ host' = [host EXCEPT !.pc = next, !.expected = @ /\ host.since >= TerminateWindow,
                               !.tried = TRUE]
       /\ UNCHANGED files
    \/ /\ Running(helper) /\ (GraceOver \/ host.tried)
       /\ host' = [host EXCEPT !.pc = next]
       /\ UNCHANGED <<files, helper, worker>>
    \/ /\ ~Running(helper)
       /\ host' = [host EXCEPT !.pc = next, !.expected = FALSE]
       /\ UNCHANGED <<files, helper, worker>>

BeginLaunch == host.pc = "idle" /\ Disarming("snapshot") /\ UNCHANGED <<desk, present>>

(* A further client joins: the host disarms and changes nothing else.                    *)
Join == host.pc = "streaming" /\ Disarming("streaming") /\ UNCHANGED <<desk, present>>

(* snapshot_current_display_state: not sent to a helper of which a restore is expected.   *)
SnapshotCurrentDisplayState ==
    /\ host.pc = "snapshot"
    /\ \/ ~RestoreExpected /\ HandleSnapshotCurrent(Started)
       \/ ~RestoreExpected /\ helper' = Started /\ UNCHANGED <<files, worker>>
       \/ RestoreExpected /\ UNCHANGED <<files, helper, worker>>
    /\ host' = [host EXCEPT !.pc = "apply", !.expected = RestoreExpected]
    /\ UNCHANGED <<desk, present>>

(* apply_internal: the helper is kept when a restore is expected of it, and kept as well   *)
(* when it accepts the fast ping; otherwise it is killed and started anew.  The APPLY may  *)
(* not get through.                                                                       *)
ApplyCommand == Apply(host.golden_first)
ApplyInternal ==
    /\ host.pc = "apply"
    /\ UNCHANGED <<desk, present>>
    /\ \/ /\ RestoreExpected \/ CanAcceptFastPing
          /\ HandleApply(Started, ApplyCommand)
          /\ host' = [host EXCEPT !.pc = "streaming", !.expected = FALSE]
       \/ /\ RestoreExpected \/ CanAcceptFastPing
          /\ helper' = Started
          /\ host' = [host EXCEPT !.pc = "streaming", !.expected = RestoreExpected]
          /\ UNCHANGED <<files, worker>>
       \/ /\ ~RestoreExpected
          /\ BeginApply(Restarted, ApplyCommand)
          /\ host' = [host EXCEPT !.pc = "streaming", !.expected = FALSE]
       \/ /\ ~RestoreExpected
          /\ helper' = Restarted /\ worker' = Idle
          /\ host' = [host EXCEPT !.pc = "streaming", !.expected = FALSE]
          /\ UNCHANGED files

(* revert: the end of the last session.  Every caller prefers golden to Previous when      *)
(* Current is missing.  (A REVERT that cannot be delivered restores nothing; the host logs *)
(* it.  That case is left out.)                                                           *)
RevertRequest ==
    /\ host.pc = "streaming"
    /\ HandleRevert(Started, Revert(TRUE, host.golden_first, FALSE))
    /\ host' = [host EXCEPT !.pc = "idle", !.expected = TRUE, !.since = 0]
    /\ UNCHANGED <<desk, present>>

ExportGolden ==
    /\ host.pc = "idle"
    /\ HandleExportGolden(Started)
    /\ UNCHANGED <<desk, present, host>>

Ping ==
    /\ host.pc \notin {"idle", "down"} /\ helper.connected
    /\ helper' = Pinged(helper)
    /\ UNCHANGED <<files, desk, present, worker, host>>

Reconnect ==
    /\ host.pc = "streaming" /\ ~helper.connected
    /\ helper' = Started
    /\ UNCHANGED <<files, desk, present, worker, host>>

--------------------------------------------------------------------------------
(* The machine.                                                                          *)

HostDies ==
    /\ host.pc # "down"
    /\ host' = [host EXCEPT !.pc = "down", !.expected = FALSE, !.since = TerminateWindow, !.tried = FALSE]
    /\ UNCHANGED engineVars
HostStarts ==
    /\ host.pc = "down" /\ ~helper.connected
    /\ host' = [host EXCEPT !.pc = "idle"]
    /\ UNCHANGED engineVars

HelperDies ==
    /\ Running(helper)
    /\ helper' = NotRunning /\ worker' = Idle
    /\ UNCHANGED <<files, desk, present, host>>

ConnectionBreaks ==
    /\ host.pc = "down" \/ TimesOut(helper.heartbeat)
    /\ LoseConnection /\ UNCHANGED host

Unplug ==
    /\ \E d \in Removable \cap present :
          /\ present' = present \ {d}
          /\ desk' = IF desk \ {d} = {} THEN present' ELSE desk \ {d}
    /\ present' # {}
    /\ UNCHANGED <<files, helper, worker, host>>
Plug ==
    /\ \E d \in Displays \ present : present' = present \cup {d}
    /\ UNCHANGED <<files, desk, helper, worker, host>>
Arrange ==
    /\ host.pc = "idle" /\ helper.mode \in {"Waiting", "Exited"}
    /\ desk' \in UserLayouts \cap SUBSET present
    /\ UNCHANGED <<files, present, helper, worker, host>>

(* Time does not pass while the helper's loop has a timer to serve.                      *)
Tick ==
    /\ ~Missed(helper.heartbeat) /\ ~TimesOut(helper.heartbeat)
    /\ worker.pc = "grace" => worker.grace > 0
    /\ helper' = [helper EXCEPT !.scheduler = ElapseScheduler(@),
                                !.heartbeat = ElapseHeartbeat(@),
                                !.guard = IF @ = 0 THEN 0 ELSE @ - 1]
    /\ worker' = [worker EXCEPT !.grace = IF @ = 0 THEN 0 ELSE @ - 1]
    /\ host' = [host EXCEPT !.since = IF @ = TerminateWindow THEN @ ELSE @ + 1, !.tried = FALSE]
    /\ UNCHANGED <<files, desk, present>>

--------------------------------------------------------------------------------
(* History: the layout a session must give back and whether its restore was given up;    *)
(* failed attempts in a row, the time since the last one, and since the last command or  *)
(* display event; the time since the host was last heard; confirmed session restores     *)
(* that were thrown away in a row; the incidents so far.                                   *)
Most(n, bound) == IF n < bound THEN n ELSE bound
LongestPause == BackoffProfile[Len(BackoffProfile)]

NoHistory == [baseline |-> NoSnapshot, released |-> FALSE, failed |-> 0, rested |-> 0,
              prompted |-> 0, heard |-> 0, wasted |-> 0, incidents |-> 0]

Drained == helper.queued # NoCommand /\ helper'.queued = NoCommand
ApplyBegins == /\ helper'.mode = "Applying"
               /\ helper.mode # "Applying" \/ (helper.queued.kind = "apply" /\ Drained)
Confirmed == worker.pc # "confirmed" /\ worker'.pc = "confirmed"
AtRest(h) == h.mode \in {"Waiting", "Exited"}
GivenUp == \/ ~AtRest(helper) /\ AtRest(helper')
           \/ host.pc = "idle" /\ host'.pc = "snapshot" /\ ~RestorePending(helper')

BaselineAfter ==
    IF Confirmed THEN NoSnapshot
    ELSE IF ApplyBegins /\ (history.baseline = NoSnapshot \/ history.released)
    THEN IF files'["current"] = FilterForSave(desk', present) THEN files'["current"] ELSE NoSnapshot
    ELSE history.baseline

Observe(prompt, contact, elapsed, incidents) ==
    history' =
      [baseline |-> BaselineAfter,
       released |-> ~Confirmed /\ ~ApplyBegins /\ BaselineAfter # NoSnapshot
                    /\ (history.released \/ GivenUp),
       failed   |-> IF prompt \/ Drained \/ ~RestorePending(helper') THEN 0
                    ELSE IF helper.mode # "EventLoop" /\ helper'.mode = "EventLoop"
                    THEN Most(history.failed + 1, Len(BackoffProfile))
                    ELSE history.failed,
       rested   |-> IF helper'.mode # "EventLoop" THEN 0 ELSE Most(history.rested + elapsed, LongestPause),
       prompted |-> IF prompt \/ Drained \/ ~RestorePending(helper') THEN 0
                    ELSE Most(history.prompted + elapsed, PrimaryWindow + 1),
       heard    |-> IF contact \/ ~helper.connected \/ ~helper'.heartbeat.armed THEN 0
                    ELSE Most(history.heard + elapsed, MissWindow + RecoveryWindow),
       wasted   |-> IF Drained \/ ~RestorePending(helper') THEN 0
                    ELSE IF worker.pc # "done" /\ worker'.pc = "done"
                    THEN IF worker.pc = "confirmed" /\ ~helper.cancel /\ ~worker'.success
                         THEN Most(history.wasted + 1, kGoldenFallbackCompletionThreshold) ELSE 0
                    ELSE history.wasted,
       incidents |-> history.incidents + incidents]

HostRequest == ApplyInternal \/ RevertRequest \/ ExportGolden
Fault == HostDies \/ HelperDies \/ Unplug
MachineStep == HostStarts \/ Plug \/ Arrange

HelperActs == HelperStep /\ UNCHANGED host
WorkerActs == WorkerStep /\ UNCHANGED host
Supervise == CheckHeartbeat /\ UNCHANGED host
Poll == HandleTick /\ UNCHANGED host
SeeDisplayEvent == HandleDisplayEvent /\ UNCHANGED host

Init ==
    /\ desk \in UserLayouts /\ present = Displays
    /\ files \in [Tiers -> {NoSnapshot} \cup UserLayouts]
    /\ files["current"] = NoSnapshot /\ files["previous"] = NoSnapshot
    /\ helper = NotRunning /\ worker = Idle
    /\ host \in [pc : {"idle"}, expected : {FALSE}, since : {TerminateWindow}, tried : {FALSE},
                golden_first : BOOLEAN]
    /\ history = NoHistory

Next ==
    \/ history.incidents < MaxIncidents /\ BeginLaunch /\ Observe(TRUE, FALSE, 0, 1)
    \/ Join /\ Observe(TRUE, FALSE, 0, 0)
    \/ SnapshotCurrentDisplayState /\ Observe(TRUE, ~RestoreExpected, 0, 0)
    \/ HostRequest /\ Observe(TRUE, TRUE, 0, 0)
    \/ (Ping \/ Reconnect) /\ Observe(FALSE, TRUE, 0, 0)
    \/ (SeeDisplayEvent \/ ConnectionBreaks) /\ Observe(TRUE, FALSE, 0, 0)
    \/ (HelperActs \/ Supervise \/ Poll \/ WorkerActs \/ MachineStep) /\ Observe(FALSE, FALSE, 0, 0)
    \/ Tick /\ Observe(FALSE, FALSE, 1, 0)
    \/ history.incidents < MaxIncidents /\ Fault /\ Observe(FALSE, FALSE, 0, 1)

Spec == Init /\ [][Next]_vars

================================================================================
