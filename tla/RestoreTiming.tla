------------------------------- MODULE RestoreTiming -------------------------------
(* The clocks of a restore: RestoreScheduler (windows and progressive backoff between *)
(* attempts) and HeartbeatMonitor (ping supervision of a live session).  Time is      *)
(* discrete; each record holds how many ticks remain, or have passed, so that a step  *)
(* of the clock is Elapse.                                                            *)
EXTENDS Integers, Sequences

CONSTANTS
    BackoffProfile,   \* kRestoreBackoffProfile, in ticks
    PrimaryWindow,    \* kRestoreWindowPrimary
    EventWindow,      \* kRestoreWindowEvent
    OptionalWindow,   \* HeartbeatMonitor::optional_window_
    MissWindow,       \* HeartbeatMonitor::miss_window_
    RecoveryWindow    \* HeartbeatMonitor::recovery_window_

ASSUME TimingAssumption ==
    /\ BackoffProfile \in Seq(Nat) /\ Len(BackoffProfile) > 0
    /\ \A i, j \in 1..Len(BackoffProfile) : i <= j => BackoffProfile[i] <= BackoffProfile[j]
    /\ EventWindow <= PrimaryWindow
    /\ {PrimaryWindow, EventWindow, OptionalWindow, MissWindow, RecoveryWindow} \subseteq Nat

Expired == -1
Windows == Nat \cup {Expired}
Scheduler == [armed : BOOLEAN, reported : BOOLEAN, window : Windows, wait : Nat,
              index : 1..Len(BackoffProfile)]
Disarmed == [armed |-> FALSE, reported |-> FALSE, window |-> Expired, wait |-> 0, index |-> 1]

ArmPrimary(s, grace) ==
    [armed |-> TRUE, reported |-> FALSE, window |-> PrimaryWindow, wait |-> grace, index |-> 1]

OnDisplayEvent(s) ==
    IF ~s.armed THEN s
    ELSE [s EXCEPT !.index = 1, !.wait = 0, !.reported = FALSE,
                   !.window = IF @ = Expired \/ @ < EventWindow THEN EventWindow ELSE @]

MistakeRepeatsIndex(s) == [s EXCEPT !.wait = BackoffProfile[s.index]]
OnAttemptFailed(s) ==
    LET i == IF s.index < Len(BackoffProfile) THEN s.index + 1 ELSE s.index
    IN  [s EXCEPT !.index = i, !.wait = BackoffProfile[i]]

(* The code leaves the deadlines as they are; nothing reads them before ArmPrimary.  *)
Disarm(s) == Disarmed

WindowActive(s) == s.armed /\ s.window # Expired
WindowJustExpired(s) == s.armed /\ ~s.reported /\ s.window = Expired
ReportExpired(s) == [s EXCEPT !.reported = TRUE]
ShouldAttempt(s) == WindowActive(s) /\ s.wait = 0

ElapseScheduler(s) ==
    IF ~s.armed THEN s
    ELSE [s EXCEPT !.wait = IF @ = 0 THEN 0 ELSE @ - 1,
                   !.window = IF @ = Expired THEN Expired ELSE @ - 1]

--------------------------------------------------------------------------------
(* The heartbeat.  silent: ticks since last_ping_; optional: ticks left of the       *)
(* optional window; deadline: ticks left to recovery_deadline_.                      *)

Unset == -1
Heartbeat == [armed : BOOLEAN, silent : 0..MissWindow, optional : 0..OptionalWindow,
              deadline : 0..RecoveryWindow \cup {Unset}]
HeartbeatOff == [armed |-> FALSE, silent |-> 0, optional |-> 0, deadline |-> Unset]
ArmHeartbeat == [armed |-> TRUE, silent |-> 0, optional |-> OptionalWindow, deadline |-> Unset]

MistakeKeepsDeadline(hb) == IF hb.armed THEN [hb EXCEPT !.silent = 0] ELSE hb
RecordPing(hb) == IF hb.armed THEN [hb EXCEPT !.silent = 0, !.deadline = Unset] ELSE hb

Missed(hb) == hb.armed /\ hb.optional = 0 /\ hb.deadline = Unset /\ hb.silent = MissWindow
TimesOut(hb) == hb.armed /\ hb.optional = 0 /\ hb.deadline = 0
CheckTimeout(hb) ==
    IF Missed(hb) THEN [hb EXCEPT !.deadline = RecoveryWindow]
    ELSE IF TimesOut(hb) THEN HeartbeatOff
    ELSE hb

ElapseHeartbeat(hb) ==
    IF ~hb.armed THEN hb
    ELSE [hb EXCEPT !.silent = IF @ = MissWindow THEN @ ELSE @ + 1,
                    !.optional = IF @ = 0 THEN 0 ELSE @ - 1,
                    !.deadline = IF @ \in {0, Unset} THEN @ ELSE @ - 1]

================================================================================
